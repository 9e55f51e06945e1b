CONSTANTS
    MaxTries = 1
    MaxGarbage = 0
    MaxCalls = 3
    MaxFaults = 2
SPECIFICATION Spec
INVARIANTS PreparedUsable
\* The user may stop calling.
CHECK_DEADLOCK FALSE
