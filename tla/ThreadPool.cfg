SPECIFICATION FairSpec
CONSTANTS
  NoTask = NoTask
  Workers = {w1, w2, w3}
  Roots = {a, b}
  Tasks = {a, b, x}
  LaunchMayFail = TRUE
INVARIANTS
  NoWorkLost
  NobodySleepsInVain
PROPERTIES
  ImplementsPool
  EveryUnitReleased
  WaitsEnd
