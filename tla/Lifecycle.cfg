SPECIFICATION FairSpec
CONSTANTS
  Scanners <- MCScanners
  Default = {"email", "net"}
  NoAll = {"rare"}
  CommandLines <- MCCommandLines
  Defs <- MCDefs
  Histograms <- MCHistograms
  StopList = TRUE
  AlertList = TRUE
  Workers = {w1, w2}
  Pages = {p1, p2}
  Benchmark = TRUE
  Printing = TRUE
  DiskMayFill = TRUE
  JoinMayTime = TRUE
INVARIANTS
  StartupRight
  NothingGone
  CalledInOrder
PROPERTIES
  ProgramEnds
