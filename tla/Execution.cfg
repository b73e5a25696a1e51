SPECIFICATION ExecSpec
CONSTANTS
    k1 = k1
    k2 = k2
    s1 = s1
    u1 = u1
    u2 = u2
    NoCtx = NoCtx
    NoWorker = NoWorker
    NoJob = NoJob
    Keys = {k1, k2}
    JobsPerKey = 2
    MaxIDs = 3
    Jumps <- MCJumps
    InitialWorkers = 1
    MinWorkers = 1
    MaxWorkers = 3
    Growth = 50
    Shrinkage = 50
    QueueCap = 2
    DrainPolicy = "execute"
    Producers = {"p", "q"}
    PushesEach = 2
    Nodes = {0, 1, 2, 3}
    Stub = 0
    NoNode = NoNode
    BatchSizes = {2}
    SecondsIn = 2
    MinutesIn = 2
    HoursIn = 2
    WeekDays = 4
    MonthDays <- MCMonthDays
    LeapMonth = 2
    LeapEvery = 3
    Years = 8
    YearLimit = 2
    Texts <- MCTexts
    CronInstants = {0, 29, 63}
    ClockJumps = {9}
    Tasks = {"t", "u"}
    TaskPoolSize = 1
    CallbackCap = 1
    MaxDue = 1
INVARIANTS
    KeyOrder
    PoolSound
    NextActivation
    PopsInOrder

    
