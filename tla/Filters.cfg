SPECIFICATION MCSpec
CONSTANTS
  Texts <- MCTexts
  Lengths = {1, 2}
  Windows = {1, 2}
  Patterns <- MCPatterns
  MaxLines = 3
  Inputs <- MCInputs
  Flags <- MCFlags
  Images <- MCImages
  Options <- MCOptions
  MaxFailures = 1
  Numbers <- MCNumbers
  WindowsBefore <- MCBefore
  WindowsAfter <- MCAfter
INVARIANTS
  WordsFound
  WordsSorted
  LinesAreStopped
  BareLinesStop
  ContextDecides
  JsonFound
  MisreadingCaught
  FeaturesFit
PROPERTIES
  FiltersEnd
CHECK_DEADLOCK FALSE
