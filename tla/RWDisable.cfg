SPECIFICATION Spec
CONSTANTS
    w1 = w1
    w2 = w2
    r1 = r1
    r2 = r2
    x1 = x1
    x2 = x2
    NoJob = NoJob
    Workers = {w1}
    Jobs = {r1, r2, x1}
    ReadJobs <- MCReadJobs
    WorkerOf <- MCWorkerOf
    ReadChCap = 1
    MaxReads = 1
    DrainPolicy = "execute"
    StopTimeouts = FALSE
    DisableCalls = TRUE
INVARIANT
    DisableQuiesces
