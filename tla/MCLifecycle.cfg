CONSTANTS
  MaxAttempts = 2
  Threshold = 2
  MaxRetries = 1
  MaxDeploys = 1
  MaxFaults = 2
CHECK_DEADLOCK FALSE
SPECIFICATION Spec
INVARIANTS PoolClosesQuiet
PROPERTIES ComesBack WedgeIsCured
