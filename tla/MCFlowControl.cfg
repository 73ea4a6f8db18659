SPECIFICATION FlowSpec
CONSTANTS
  MaxTotal = 4
  MaxWindow = 3
  MaxRate = 2
  MaxCapacity = 2
  MaxPattern = 3
  MemoryBudget = 3
INVARIANTS
  FlowTypeOK
  NeverRaises
  HighWatermarkBounds
  DrainsWithinBudget
PROPERTIES
  ImplementsChannel
\* The call returns: the loop ends and nothing follows it.
CHECK_DEADLOCK FALSE
