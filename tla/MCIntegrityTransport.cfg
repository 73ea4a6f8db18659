SPECIFICATION Spec
CONSTANTS
  Configs <- MCConfigs
  TickModulus <- MCTickModulus
  MaxLength = 3
  MaxChunk = 2
  MaxTransfers = 2
INVARIANTS
  TypeOK
  OutcomeDetermined
PROPERTIES
  RetransmissionAccounted
  ImplementsVerifiedTransfer
