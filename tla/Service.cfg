SPECIFICATION ServiceSpec
CONSTANTS
    w1 = w1
    w2 = w2
    r1 = r1
    r2 = r2
    x1 = x1
    x2 = x2
    NoJob = NoJob
    Workers = {w1, w2}
    Jobs = {r1, x1, x2}
    ReadJobs <- MCReadJobs
    WorkerOf <- MCWorkerOf
    ReadChCap = 1
    MaxReads = 1
    DrainPolicy = "execute"
    StopTimeouts = TRUE
    DisableCalls = FALSE
    once = once
    every = every
    Timers = {once, every}
    Delay <- MCDelay
    Period <- MCPeriod
    AsyncChoices = {{}, {every}}
    Tick = 2
    Size = 2
    ChanSize = 1
    Offsets = {3}
    Instants = {0, 5, 12}
    MaxExp = 7
    MayStop = TRUE
    Boxes = {"a", "b"}
    ServiceOf <- MCServiceOf
    ConfOf <- MCConfOf
    CustomOf <- MCCustomOf
    Msgs = {1, 2}
    BoxOf <- MCBoxOf
    TypeOf <- MCTypeOf
    KeyOf <- MCKeyOf
    UrgentMsgs = {2}
    JobTypes = {"rpc"}
    Shards = 2
    ShardOfKey <- MCShardOfKey
    MaxKeys = 1
    MaxReports = 1
    PoolNames = {"p", "q"}
    Templates <- MCTemplates
    Unset = Unset
    Bits = 10
    SlotBytes = 2
    FixedBytes = 4
    DefaultCapacity = 8
    DefaultBudget = 256
    NumCPU = 2
    MaxStrategyDepth = 1
    JobLens = {0, 1, 2}
    Priorities <- DefaultPriorities
    Strategies <- MCStrategies
    BuildStrategy <- Builds
    ScalesUp <- ShouldScaleUp
    ScalesDown <- ShouldScaleDown
    Mods = {"a", "b", "d"}
    MethodsOf <- MCMethodsOf
    Declared <- MCDeclared
    ManualIds = {2}
    MaxAdds = 3
    Waiters = {"p", "q"}
    Second = 2
    MaxFrequency = 1
    MaxClock = 4
    MaxResets = 1
    NumServices = 2
    MaxNodeFaults = 1
    MaxQueued = 1
CONSTRAINT
    Explore
INVARIANTS
    Exclusion
    ReadsBeforeWrite
    TimersSound
    MiddlewareSound
    StorageWithinBudget
    TreeExact
    NeverOverRate
    TeardownSound
PROPERTIES
    JobsEnd
    DueTimersFire
