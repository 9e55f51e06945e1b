SPECIFICATION Spec
CONSTANTS
  MaxCalls = 1
  MaxRetries = 3
  MaxFaults = 2
\* The user may stop calling.
CHECK_DEADLOCK FALSE
INVARIANTS AtMostOnce
