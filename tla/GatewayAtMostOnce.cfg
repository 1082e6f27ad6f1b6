CONSTANTS
  c1 = c1
  m1 = m1
  m2 = m2
  Conns = {c1}
  Msgs = {m1, m2}
  Overlap = FALSE
  Retries = FALSE
  Crashes = FALSE
  MaxSeq = 2
SPECIFICATION Spec
SYMMETRY MsgSymmetry
INVARIANT AtMostOnce
