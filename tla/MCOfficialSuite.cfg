\* A command ends.
SPECIFICATION Spec
CONSTANTS
  NumSteps = 2
  CheckerOutputs <- MCCheckerOutputs
  Environments <- MCEnvironments
CHECK_DEADLOCK FALSE
INVARIANTS
  SuiteTypeOK
  PassIsGenuine
  AuditedIsGenuine
PROPERTIES
  NoCommandAfterFailure
  CommandEnds
