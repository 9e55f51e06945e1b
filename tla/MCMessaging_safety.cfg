CONSTANTS
    Tries = 2
    MaxCmds = 2
    MaxLoss = 1
    MaxDup = 1
    Prompt = FALSE
SPECIFICATION Spec
CONSTRAINT OneFault
INVARIANTS TypeOK InOrder AtMostOnce AckMeansTaken SendCommandIsNew
PROPERTIES OwnOutput RemoteCallSpec
\* The user may stop calling.
CHECK_DEADLOCK FALSE
