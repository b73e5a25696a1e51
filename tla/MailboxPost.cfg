SPECIFICATION Spec
CONSTANTS
    s1 = s1
    u1 = u1
    u2 = u2
    u3 = u3
    h1 = h1
    m1 = m1
    m2 = m2
    NoJob = NoJob
    NoCtx = NoCtx
    Jobs = {u1, u2, u3}
    Priority <- MCPriority
    AllowedJobs = {}
    CancelableJobs = {}
    Middlewares = {m1, m2}
    Dynamic = {m2}
    InitialChain <- MCChain
    MaxChain = 2
    SuspendCalls = TRUE
    QueueMode = "priority"
    Registered <- MCRegistered
    LaneCapacity = 2
    DrainPolicy = "execute"
    Wrap = 4
INVARIANTS
    PostSound
    WorkNoticed
PROPERTIES
    ImplementsJobQueue
SYMMETRY
    NormalJobs
CONSTRAINT
    Explore
