CONSTANTS
    Tries = 2
    MaxCmds = 2
    MaxLoss = 0
    MaxDup = 0
    Prompt = FALSE
SPECIFICATION Spec
INVARIANTS ReturnsOnlyOutput
\* The user may stop calling.
CHECK_DEADLOCK FALSE
