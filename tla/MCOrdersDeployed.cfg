SPECIFICATION FairSpec
CONSTANTS
    Orders = {o1}
    Calls = {c1}
    OrderProcs <- Website
    ApiProcs <- Api
    ListenProcs <- Socket
    NoProc = NoProc
    NoOrder = NoOrder
    WebhookStatuses <- None
    Drivers <- AllDrivers
    AutoConfirmOn = TRUE
    MaxFaults = 0
PROPERTY ConfirmReachesOrder
CHECK_DEADLOCK FALSE
