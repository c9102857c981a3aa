SPECIFICATION FairSpec
CONSTANTS
  r1 = r1
  r2 = r2
  c1 = c1
  i1 = i1
  s1 = s1
  s2 = s2
  s3 = s3
  Ids = {i1}
  Segs = {s1, s2}
  Recorders = {r1, r2}
  Clearers = {c1}
  None = None
  Dead = Dead
  Window = 0
  MaxTime = 2
  MaxFaults = 1
CHECK_DEADLOCK FALSE
INVARIANT NothingLost EndedStaysEmpty
PROPERTY AdmittedOnce OnlyRecordingShows SegmentsDrain
