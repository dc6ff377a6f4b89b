SPECIFICATION FairSpec
CONSTANTS
  Images <- MCImages
  Options <- MCOptions
  ReadsMayFail = TRUE
INVARIANTS
  BytesRight
  PagesRight
  EveryByteRead
  FeaturesOnce
PROPERTIES
  ReaderEnds
