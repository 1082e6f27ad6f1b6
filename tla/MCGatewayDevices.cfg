CONSTANTS
  c1 = c1
  c2 = c2
  m1 = m1
  m2 = m2
  Conns = {c1, c2}
  Msgs = {m1, m2}
  Overlap = TRUE
  Retries = FALSE
  Crashes = TRUE
  MaxSeq = 1
SPECIFICATION Spec
SYMMETRY Symmetry
VIEW Present
INVARIANT LiveSessionListed
PROPERTY NeverSettledUnsent
