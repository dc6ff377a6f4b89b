SPECIFICATION FairSpec
CONSTANTS
  PageCount = 3
  Scanners = {email, zip}
  WholePage = WholePage
  WorkerCount = 1
  MaxCrashes = 1
  MaxRuns = 2
  MaxDiskErrors = 1
  MaxReadErrors = 1
INVARIANTS
  ReaderBounded
  StartsRecorded
  NoPageLost
  CleanExitComplete
  NoHashOverGap
PROPERTIES
  RunEnds
