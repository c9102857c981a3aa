SPECIFICATION FairSpec
CONSTANTS
  o1 = o1
  o2 = o2
  o3 = o3
  w1 = w1
  b1 = b1
  global = global
  alpha = alpha
  beta = beta
  None = None
  Ops = {o1, o2}
  Writers = {w1}
  Brokers = {b1}
  Keys = {}
  KeyOf <- MCKeyOf
  FlushChunk = 1
  MaxLines = 3
  Seeds = {}
  Namespaces = {global}
  Global = global
  Texts = {alpha}
  Refused = {}
  Splits = {}
  Near <- MCNear
  Expiries = {}
  Cmds <- MCCmds
  Principals <- MCPrincipals
  SeedRows <- MCSeedRows
  MaxBatch = 1
  MaxFaults = 2
PROPERTY Drains
CHECK_DEADLOCK FALSE
