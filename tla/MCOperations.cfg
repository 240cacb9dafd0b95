SPECIFICATION FairSpec
CONSTANTS
    Services = {"bot", "database"}
    CriticalServices = {"bot", "database"}
    Restartable = {"bot"}
    Recognised = {"bot", "database"}
    NoService = NoService
    UnhealthyAfter = 2
    HealthyAfter = 1
    MaxAttempts = 1
    AutoRestart = TRUE
    MaxReadings = 1
    MaxOutages = 1
    MaxSwitches = 1
    Rules = {"cpu", "queueDepth"}
    UpBy <- OneEach
    DownBy <- OneEach
    MinInstances = 1
    MaxInstances = 2
    FirstInstances = 1
    RuleCooldown = 2
    ScalingCooldown = 1
    MaxEvaluations = 3
    WorkerCount = 1
    RespawnDead = TRUE
    MaxRestarts = 1
    MaxForks = 4
    MaxCrashes = 1
    MaxCommands = 2
    Backends = {"b1", "b2"}
    Clients = {"c"}
    HashOf <- Zeros
    Strategy = "least-connections"
    MaxSelections = 2
    MaxRequests = 2
    MaxProbes = 1
    Concurrency = 1
    MaxJobs = 2
    MaxCloses = 2
    MaxRegistrations = 2
    Drivers = {"mysql", "mongodb"}
    MaxCalls = 2
    Asked <- TwoAsked
    MaxInitialized = 2
    MaxDbFaults = 1
    Handlers = {"h1", "h2"}
    MaxBrokerCalls = 4
    MaxMessages = 1
    MaxBrokerFaults = 1
    MaxCacheCalls = 2
    MaxVersion = 1
    NoValue = NoValue
    MaxCacheFaults = 1
INVARIANTS
    TypeOK
    BurstBounded
    RestartsGraceful
    NoPhantomConnections
    QueuesHaveStats
    OneUserEach
    MapFollowsRedis
PROPERTIES
    OutageNoticed
    EverythingLapses
CHECK_DEADLOCK FALSE
