SPECIFICATION Spec
CONSTANTS
  PageCount = 3
  Scanners = {email, zip}
  WholePage = WholePage
  WorkerCount = 1
  MaxCrashes = 1
  MaxRuns = 2
  MaxDiskErrors = 0
  MaxReadErrors = 0
INVARIANTS
  OnlyInterruptedLost
