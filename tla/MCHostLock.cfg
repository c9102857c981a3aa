SPECIFICATION FairSpec
CONSTANTS
  p1 = p1
  p2 = p2
  i1 = i1
  i2 = i2
  i3 = i3
  None = None
  Procs <- ProcsPair
  Instances <- InstancesSmall
  MaxFaults = 2
INVARIANT
  AtMostOneHolder
PROPERTY
  LiveLockKept
  StaleLockReplaced
