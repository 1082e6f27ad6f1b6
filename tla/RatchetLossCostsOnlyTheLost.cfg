CONSTANTS
  Alice = Alice
  Bob = Bob
  MAX_SKIP = 2
  MAX_SKIPPED_TOTAL = 2
  MaxSent <- Even
  MaxCopies = 1
SPECIFICATION Spec
INVARIANT LossCostsOnlyTheLost
CHECK_DEADLOCK FALSE
