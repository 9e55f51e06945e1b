SPECIFICATION FairSpec
CONSTANTS
  MaxCalls = 2
  MaxRetries = 3
  MaxFaults = 3
\* The user may stop calling.
CHECK_DEADLOCK FALSE
INVARIANTS OwnResult ClosedByClose
PROPERTIES StoredNotRepeated CallsEnd
