SPECIFICATION RpcSpec
CONSTANTS
    c1 = c1
    c2 = c2
    k = k
    Keys = {k}
    NoKey = NoKey
    NoCall = NoCall
    NoState = NoState
    NoEnv = NoEnv
    Calls = {c1, c2}
    Order <- MCOrder
    States = {1, 2}
    Envs = {1, 2, 3}
    Scenarios <- MCScenarios
    Senders = {"p", "q"}
    MinConnections = 1
    MaxConnections = 2
    InitialConnections = 1
    MaxConsecutiveFails = 0
    FailureThreshold = 1
    MinRequestThreshold = 1
    MaxCreated = 3
    MaxSends = 2
    MaxTicks = 2
    Guarded = {"p", "q"}
    Threshold = 2
    HalfOpenMax = 2
    MaxFailures = 4
    Uids = {"r", "h"}
    HomeUids = {"h"}
    NameOf <- MCNameOf
    TypeOf <- MCTypeOf
    PartitionOf <- MCPartitionOf
    AddrOf <- MCAddrOf
    Askers = {"p", "q"}
    AsksOf <- MCAsksOf
    MaxOps = 3
    MaxAsks = 2
    NetConns = {1, 2}
    Slots = {"s"}
    NetMsgs = {1, 2}
    LenOf <- MCLen
    MaxConnNum = 1
    Pendings = {0, 1}
    LenMsgLen = 1
    MinMsgLen = 2
    MaxMsgLen = 300
    MaxNetCalls = 2
    MaxCuts = 1
    RestartPolicies <- MCPolicies
    MaxServeFaults = 3
    Users = {"u", "v"}
    LockOf <- MCLockOf
    Sessions = {1, 2}
    MaxPushes = 2
    MaxKicks = 1
    MaxHangUps = 1
INVARIANTS
    ObjectsOwned
    OutcomeOwned
    KeySpentOnce
    NoSenderLeaks
    RepositorySound
    NetworkSound
    SessionsSound
PROPERTIES
    CallsEnd
    DeliveriesEnd
    BreakerRecovers
    ConnectionsEnd
CHECK_DEADLOCK FALSE
CONSTRAINT
    Explore
