SPECIFICATION FairSpec
CONSTANTS
    Procs <- TwoProcs
    Ops <- ThreeOps
    Readers <- OneReader
    Home <- Placed
    Keys = {k}
    MaxAttempts = 2
    MaxFaults = 1
INVARIANTS
    MutualExclusion
    NoLostUpdate
PROPERTIES
    WritesEnd
    ImplementsAtomic
CHECK_DEADLOCK FALSE
