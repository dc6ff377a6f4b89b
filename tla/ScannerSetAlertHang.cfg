SPECIFICATION FairSpec
CONSTANTS
  Main = main
  NoScanner = NoScanner
  Workers = {w1, w2}
  Modes = {FALSE}
  SameThread = FALSE
  MaxDepth = 2
  Legacy = TRUE
  OptIn = {"rtti"}
  MaxDiskErrors = 1
  Scanners <- MCScanners
  Pages <- MCPages
  Derived <- MCDerived
  Maker <- MCMaker
  By <- MCBy
  Kind <- MCKind
  Parent <- MCParent
  Small <- MCSmall
  Depth <- MCDepth
  Content <- MCContent
PROPERTIES
  ThrottleEnds
