SPECIFICATION FairSpec
CONSTANTS
    p1 = p1
    p2 = p2
    w1 = w1
    w2 = w2
    j1 = j1
    j2 = j2
    NoJob = NoJob
    Pools <- OnePool
    Workers <- TwoWorkers
    Jobs <- TwoJobs
    JobOf <- OtherJob
    NumMsgs = 2
    JobBuffer = 1
    ResultBuffer = 1
    MaxLen = 1
    MaxFaults = 1
    Cancellable <- OnePool
INVARIANTS
    ExclusiveJobs
    NoSendOnClosed
PROPERTIES
    EventuallyAcked
    ShutdownCompletes
CHECK_DEADLOCK FALSE
