SPECIFICATION FairSpec
CONSTANTS
  o1 = o1
  o2 = o2
  o3 = o3
  w1 = w1
  b1 = b1
  global = global
  alpha = alpha
  beta = beta
  None = None
  Ops = {o1, o2}
  Writers = {w1}
  Brokers = {b1}
  Keys = {}
  KeyOf <- MCKeyOf
  FlushChunk = 2
  MaxLines = 3
  Seeds = {}
  Namespaces = {global}
  Global = global
  Texts = {alpha, beta}
  Refused = {}
  Splits = {beta}
  Near <- MCNear
  Expiries = {}
  Cmds <- MCSplitCmds
  Principals <- MCPrincipals
  SeedRows <- MCSeedRows
  MaxBatch = 2
  MaxFaults = 0
PROPERTY DrainsPlain
CHECK_DEADLOCK FALSE
