SPECIFICATION FairSpec
CONSTANTS
    Orders = {o1}
    Calls = {c1, c2}
    OrderProcs <- Makers
    ApiProcs <- AllInOne
    ListenProcs <- AllInOne
    NoProc = NoProc
    NoOrder = NoOrder
    WebhookStatuses <- SomeStatuses
    Drivers <- AllDrivers
    AutoConfirmOn = TRUE
    MaxFaults = 2
INVARIANTS
    TypeOK
    CancelSettlesPayment
    PendingExplained
    CompletedEventTrue
    CompletionAnnounced
PROPERTIES
    CompletionKept
    CreateSettles
CHECK_DEADLOCK FALSE
