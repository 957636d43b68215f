SPECIFICATION Spec
CONSTANTS
    p1 = p1
    p2 = p2
    w1 = w1
    w2 = w2
    j1 = j1
    j2 = j2
    NoJob = NoJob
    Pools <- TwoPools
    Workers <- OneWorker
    Jobs <- TwoJobs
    JobOf <- SameJobTwice
    NumMsgs = 2
    JobBuffer = 1
    ResultBuffer = 1
    MaxLen = 2
    MaxFaults = 0
    Cancellable <- NoPool
INVARIANTS
    InFlightNotDuplicated
