SPECIFICATION Spec
CONSTANTS
  add = add
  rescan = rescan
  job = job
  restore = restore
  purge = purge
  None = None
  Dead = Dead
  Writers <- OneAdd
  EarlyWriters <- OneRescan
  Jobs <- OneJob
  JobLock <- Consolidates
  Restores <- OneRestore
  Purges <- OnePurge
  MaxFaults = 1
INVARIANT RestoreMeetsNoWriter
