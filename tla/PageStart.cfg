SPECIFICATION Spec
CONSTANTS
  Images <- MCImages
  Options <- MCOptions
  ReadsMayFail = FALSE
INVARIANTS
  BeginsAtPageStart
