SPECIFICATION FairSpec
CONSTANTS
  b0 = b0
  b1 = b1
  k1 = k1
  p1 = p1
  p2 = p2
  Local = b0
  BashShells = {b1}
  KeyShells = {k1}
  PythonShells = {p1, p2}
  MaxCalls = 4
  MaxDrops = 1
  Slow = TRUE
\* The user may stop calling.
CHECK_DEADLOCK FALSE
INVARIANTS StackMatches OwnOutput
PROPERTIES StatusOwn CallsEnd
