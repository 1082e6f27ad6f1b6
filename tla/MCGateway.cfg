CONSTANTS
  c1 = c1
  m1 = m1
  m2 = m2
  Conns = {c1}
  Msgs = {m1, m2}
  Overlap = FALSE
  Retries = TRUE
  Crashes = FALSE
  MaxSeq = 2
SPECIFICATION FairSpec
VIEW PresentAndPast
INVARIANT TypeOK NoRepeat
PROPERTY RemovedWasMarked KeptIsSent
