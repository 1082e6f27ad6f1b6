CONSTANTS
  Alice = Alice
  Bob = Bob
  MAX_SKIP = 3
  MAX_SKIPPED_TOTAL = 2
  MaxSent <- Uneven
  MaxCopies = 2
SPECIFICATION Spec
INVARIANT TypeOK StoreBounded ForwardSecrecy OpensOnce InOrderOpens InStep
CHECK_DEADLOCK FALSE
