SPECIFICATION Spec
CONSTANTS
    k1 = k1
    k2 = k2
    NoWorker = NoWorker
    NoJob = NoJob
    Keys = {k1, k2}
    JobsPerKey = 2
    MaxIDs = 4
    Jumps <- MCJumps
    InitialWorkers = 2
    MinWorkers = 1
    MaxWorkers = 3
    Growth = 50
    Shrinkage = 25
    QueueCap = 2
    DrainPolicy = "execute"
INVARIANT
    KeyOrderAlways
