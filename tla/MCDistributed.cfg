SPECIFICATION FairSpec
CONSTANTS
    Users <- ThreeUsers
    Nodes <- TwoNodes
    NodeOf <- Homes
    Nobody = Nobody
    Retries = 1
    Ttl = 1
    Extensions <- OneUnit
    MaxLockFaults = 1
    Instances = {i1, i2}
    MaxOperations = 2
    Asks <- SomeAsks
    Existing <- StoredOne
    Early = {i1}
    None = None
    Undefined = Undefined
    Nowhere = Nowhere
    MaxStateFaults = 1
INVARIANTS
    TypeOK
    Exclusive
    HolderIsListed
    KeyGivenUp
PROPERTIES
    OrphanLapses
    CacheFollows
    DeletionHeard
CHECK_DEADLOCK FALSE
