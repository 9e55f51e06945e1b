SPECIFICATION FairSpec
CONSTANTS
  MaxCopies = 2
  MaxBlocks = 2
  MaxFaults = 1
\* The user may stop calling.
CHECK_DEADLOCK FALSE
INVARIANTS CopyExact FilesClosed
PROPERTIES DirModeLast CallsEnd
