SPECIFICATION Spec
CONSTANTS
  Token <- MCToken
  Others = {0}
  MaxLength = 8
\* The reading ends with the token, or at the bound.
CHECK_DEADLOCK FALSE
INVARIANTS ReadsUpToToken
