CONSTANTS
    MaxTries = 2
    MaxGarbage = 1
    MaxCalls = 3
    MaxFaults = 2
SPECIFICATION FairSpec
INVARIANTS HandleInItsSession OneConnection GarbageDeletable ObjectsAccountedFor PreparedFollow
PROPERTIES HealthyKept CallsEnd
\* The user may stop calling.
CHECK_DEADLOCK FALSE
