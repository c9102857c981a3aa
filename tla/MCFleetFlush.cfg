SPECIFICATION Spec
CONSTANTS
  o1 = o1
  o2 = o2
  w1 = w1
  b1 = b1
  b2 = b2
  s1 = s1
  global = global
  alpha = alpha
  None = None
  Ops = {o1, o2}
  Writers = {w1}
  Brokers = {b1, b2}
  Keys = {}
  KeyOf <- MCKeyOf
  FlushChunk = 2
  MaxLines = 2
  Seeds = {}
  Namespaces = {global}
  Global = global
  Texts = {alpha}
  Refused = {}
  Splits = {}
  Near <- MCNear
  Expiries = {}
  Cmds <- MCCmds
  Principals <- MCPrincipals
  SeedRows <- NoSeeds
  MaxBatch = 2
  MaxFaults = 2
SYMMETRY MCSymmetry
PROPERTIES
  ImplementsExactlyOnce
CHECK_DEADLOCK FALSE
