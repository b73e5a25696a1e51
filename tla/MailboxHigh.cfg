SPECIFICATION FairSpec
CONSTANTS
    s1 = s1
    u1 = u1
    u2 = u2
    u3 = u3
    h1 = h1
    m1 = m1
    m2 = m2
    NoJob = NoJob
    NoCtx = NoCtx
    Jobs = {h1, u1}
    Priority <- MCPriority
    AllowedJobs = {}
    CancelableJobs = {}
    Middlewares = {}
    Dynamic = {}
    InitialChain <- MCNoChain
    MaxChain = 0
    SuspendCalls = TRUE
    QueueMode = "priority"
    Registered <- MCRegistered
    LaneCapacity = 2
    DrainPolicy = "execute"
    Wrap = 4
PROPERTY
    AcceptedJobsEnd
