SPECIFICATION Spec
CONSTANTS
  Local = 0
  Requests = {1}
  MaxEpoch = 5
  MaxIndex = 3
  MaxStarts = 1
CHECK_DEADLOCK FALSE
INVARIANT FailurePreventsReadiness
