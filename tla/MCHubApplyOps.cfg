SPECIFICATION Spec
CONSTANTS
  o1 = o1
  o2 = o2
  o3 = o3
  s1 = s1
  global = global
  project = project
  alpha = alpha
  beta = beta
  secret = secret
  soon = soon
  None = None
  Ops = {o1, o2, o3}
  Seeds = {s1}
  Namespaces = {global, project}
  Global = global
  Texts = {alpha, beta, secret}
  Refused = {secret}
  Splits = {}
  Near <- MCNear
  Expiries = {soon}
  Cmds <- MCCmds
  Principals <- MCPrincipals
  SeedRows <- MCSeedRows
  MaxBatch = 2
INVARIANTS
  TypeOK
  AtMostOnce
  ToldIsDurable
  DependencyCommitted
  OneSuccessor
PROPERTIES
  AppendOnly
  VerdictStable
  ScopeKept
