SPECIFICATION FairSpec
CONSTANTS
    Procs <- TwoProcs
    Ops <- TwoOps
    Readers <- OneReader
    Home <- PlacedApart
    Keys = {k}
    MaxAttempts = 2
    MaxFaults = 0
PROPERTY ReadsFindAcknowledged
CHECK_DEADLOCK FALSE
