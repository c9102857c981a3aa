CONSTANTS
  s1 = s1
  s2 = s2
  s3 = s3
  p1 = p1
  p2 = p2
  Stores = {s1, s2, s3}
  Ids = {1, 2}
  Home <- HomeSplit
  Text <- TextPair
  StateIds = {}
  Jobs = {p1}
  Modes = {"own"}
  MaxLocal = 3
  MaxExports = 3
  MaxIngests = 4
SPECIFICATION Spec
INVARIANT ReplayKeepsRows
CHECK_DEADLOCK FALSE
