SPECIFICATION Spec
CONSTANTS
  o1 = o1
  o2 = o2
  o3 = o3
  w1 = w1
  w2 = w2
  b1 = b1
  b2 = b2
  k1 = k1
  None = None
  Ops = {o1, o2, o3}
  Writers = {w1, w2}
  Brokers = {b1, b2}
  Keys = {k1}
  KeyOf <- MCKeyOf
  Verdicts = {"committed", "blocked"}
  FlushChunk = 2
  MaxLines = 2
SYMMETRY MCSymmetry
INVARIANTS
  NoSilentLoss
  OneLinePerKey
PROPERTIES
  VerdictsFinal
  ReapedStaysGone
CHECK_DEADLOCK FALSE
