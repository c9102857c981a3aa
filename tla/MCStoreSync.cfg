CONSTANTS
  s1 = s1
  s2 = s2
  s3 = s3
  p1 = p1
  p2 = p2
  Stores = {s1, s2}
  Ids = {1, 2, 3}
  Home <- HomeSplit
  Text <- TextPair
  StateIds = {3}
  Jobs = {p1, p2}
  Modes = {"plain", "own", "peer", "strict"}
  MaxLocal = 3
  MaxExports = 2
  MaxIngests = 2
SPECIFICATION Spec
SYMMETRY JobsAlike
INVARIANTS PurgedStaysGone ExpiryPaired FileApplied PlainReplayKeepsRows
PROPERTIES DeadStaysDead PeerTouchesNothing
CHECK_DEADLOCK FALSE
