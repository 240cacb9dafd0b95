SPECIFICATION FairSpec
CONSTANTS
    Orders = {o1}
    Calls = {c1, c2}
    OrderProcs <- AllInOne
    ApiProcs <- AllInOne
    ListenProcs <- AllInOne
    NoProc = NoProc
    NoOrder = NoOrder
    WebhookStatuses <- CompletedOnly
    Drivers <- AllDrivers
    AutoConfirmOn = TRUE
    MaxFaults = 0
PROPERTY CompletedNeverCancelled
CHECK_DEADLOCK FALSE
