SPECIFICATION Spec
CONSTANTS
  Main = main
  NoScanner = NoScanner
  Workers = {w1, w2}
  Modes = {TRUE, FALSE}
  SameThread = FALSE
  MaxDepth = 2
  Legacy = TRUE
  OptIn = {}
  MaxDiskErrors = 0
  Scanners <- MCScanners
  Pages <- MCPages
  Derived <- MCDerived
  Maker <- MCMaker
  By <- MCBy
  Kind <- MCKind
  Parent <- MCParent
  Small <- MCSmall
  Depth <- MCDepth
  Content <- MCContent
INVARIANTS
  MemorySafe
  ScannedOnce
  OnlySlicedLeak
