SPECIFICATION Spec
CONSTANTS
  Workers = {w1, w2}
  Objects <- MCObjects
  Hash <- MCHash
  Name <- MCName
  Path <- MCPath
  Large = {"b", "c"}
  Bucket <- MCBucket
  FilesPerDir = 2
  DiskMayFill = TRUE
INVARIANTS
  NamedFilesWhole
  CacheRight
  ModesKeepPromises
