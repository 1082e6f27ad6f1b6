SPECIFICATION Spec
CONSTANTS
  Parties <- MCParties
  Keep = 3
  MaxRotations <- MCMaxRotations
  MaxSends <- MCMaxSends
INVARIANTS
  TypeOK
  InitOpens
  SecretAfterRotation
