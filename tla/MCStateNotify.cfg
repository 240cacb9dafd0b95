SPECIFICATION FairSpec
CONSTANTS
    Users <- ThreeUsers
    Nodes <- TwoNodes
    NodeOf <- Homes
    Nobody = Nobody
    Retries = 0
    Ttl = 1
    Extensions <- OneUnit
    MaxLockFaults = 0
    Instances = {i1, i2}
    MaxOperations = 2
    Asks <- WatchAndSet
    Existing <- StoredOne
    Early = {i1}
    None = None
    Undefined = Undefined
    Nowhere = Nowhere
    MaxStateFaults = 0
PROPERTIES
    ListenersFollow
CHECK_DEADLOCK FALSE
