SPECIFICATION EngineSpec
CONSTANTS
  Sizes = {2, 3, 4}
  Counts = {1}
  MaxDevices = 4
  MaxFailures = 0
CHECK_DEADLOCK FALSE
INVARIANT SuccessIsReduction
