CONSTANTS
    Tries = 3
    MaxCmds = 2
    MaxLoss = 2
    MaxDup = 0
    Prompt = TRUE
SPECIFICATION FairSpec
INVARIANTS RemovedNotRequested LossIsMasked
PROPERTIES CallsEnd RepliesForgotten
\* The user may stop calling.
CHECK_DEADLOCK FALSE
