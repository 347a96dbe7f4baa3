SPECIFICATION Spec
CONSTANTS
  MaxCreds = 2
  RetryCount = 3
INVARIANTS NeverStranded
CHECK_DEADLOCK FALSE
