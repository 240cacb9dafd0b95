SPECIFICATION FairSpec
CONSTANTS
    Parts = {"panel"}
    InEnvironment = {"jwt"}
    Development = FALSE
    Grace = 1
    RotateAfter = 1
    RotatedKeys = {"jwt", "session"}
    MaxRotations = 2
    MaxKeyLoads = 1
    MaxSessions = 2
    MaxVerifies = 2
    Users = {"admin"}
    SessionAge = 2
    IdleTimeout = 0
    MaxSigningKeys = 2
    Callers = {"c1", "c2"}
    CodesPerBatch = 2
    MaxBatches = 2
    EncryptionSet = FALSE
    MaxStarts = 2
    ProviderOrder <- TwoProviders
    Adapted = {"midtrans"}
    Others = {"route", "other"}
    MaxRecords = 1
    MaxLatencies = 1
    MaxIntervals = 1
    MaxStats = 1
    MaxDown = 3
    Txs = {"t1", "t2"}
    PaymentOf <- OnePayment
    NoPayment = "none"
    Statuses = {"pending"}
    Sizes = {0, 1}
    DefaultSize = 1
    Attempts = 2
    ReconcileJobs = {"j"}
    MaxReconciles = 1
    MaxChanges = 2
    MaxDays = 2
    Listeners = {"api", "socket"}
    Buttons = {"stop", "toggle"}
    Darwin = TRUE
PROPERTIES
    ChangesReachDashboard
CHECK_DEADLOCK FALSE
