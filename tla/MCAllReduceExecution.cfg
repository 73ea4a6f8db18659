SPECIFICATION EngineSpec
CONSTANTS
  Sizes = {1, 2, 3, 4, 5}
  Counts = {1, 2}
  MaxDevices = 4
  MaxFailures = 3
CHECK_DEADLOCK FALSE
INVARIANTS
  EngineTypeOK
  ReducedWhenHealthy
  SuccessCoversPredecessors
