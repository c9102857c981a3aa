CONSTANTS
  h1 = h1
  h2 = h2
  w1 = w1
  r1 = r1
  k1 = k1
  k2 = k2
  k3 = k3
  Brokers = {h1, h2}
  Refreshers = {h1, h2}
  MaxRev = 1
  MaxOutages = 1
  MaxFails = 2
  Appenders = {h1}
  LogCap = 0
  Keep = 2
  FirstSegs = 3
  MaxLines = 5
  MaxLogFaults = 3
  Hooks = {h1, h2}
  Writers = {w1}
  Keys = {k1, k2, k3}
  MaxQueue = 2
  MaxCalls = 3
  MaxSlow = 1
  Reservers = {r1}
  Ackers = {h1, h2}
  Rows = {k1, k2}
  Cap = 1
  MaxIds = 2
  MaxAcks = 3
  MaxFaults = 1
  MaxKills = 1
SPECIFICATION FairSpec
INVARIANTS TypeOK LabelHonest FailureKeepsPair NothingDestroyed NumberedByAge
INVARIANTS CapturesKept CommittedOnce ToldIsDelivered
PROPERTY Recovers
CONSTRAINT Uncrossed
CHECK_DEADLOCK FALSE
