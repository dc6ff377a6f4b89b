SPECIFICATION Spec
SYMMETRY Symmetry
CHECK_DEADLOCK FALSE
CONSTANTS
  Writers = {t1, t2}
  Features <- MCFeatures
  StopList = {"stopped"}
  AlertList = {"alerted"}
  Length <- MCLength
  IntRange = 1000
  MaxWrites = 2
  MaxRuns = 3
  DiskMayFill = TRUE
INVARIANTS
  FilesWellFormed
  RecordsAgree
PROPERTIES
  LinesKept
