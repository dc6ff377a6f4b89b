SPECIFICATION FairSpec
CONSTANTS
  Main = main
  NoScanner = NoScanner
  Workers = {w1, w2}
  Modes = {TRUE}
  SameThread = FALSE
  MaxDepth = 2
  Legacy = TRUE
  OptIn = {"rtti"}
  MaxDiskErrors = 1
  Scanners <- MCScanners
  Pages <- FaPages
  Derived <- FaDerived
  Maker <- FaMaker
  By <- FaBy
  Kind <- FaKind
  Parent <- FaParent
  Small <- FaSmall
  Depth <- FaDepth
  Content <- FaContent
INVARIANTS
  NoLeak
PROPERTIES
  PagesMoveOn
