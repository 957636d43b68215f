SPECIFICATION FairSpec
CONSTANTS
    j1 = j1
    j2 = j2
    h1 = h1
    w1 = w1
    w2 = w2
    d1 = d1
    c1 = c1
    c2 = c2
    c3 = c3
    mp4 = mp4
    webm = webm
    NoJob = NoJob
    NoFormat = NoFormat
    NoCall = NoCall
    MP4 = mp4
    Jobs <- OneJob
    Uploaded <- OneJob
    Handlers <- OneHandler
    Workers <- OneWorker
    Downloads <- OneDownload
    Calls <- ThreeCalls
    Formats <- OneFormat
    MaxRetries = 0
    MaxMsgs = 1
    MaxCancels = 1
    MaxFaults = 0
INVARIANTS
    InProgressIsCarried
PROPERTIES
    BegunEnds
CHECK_DEADLOCK FALSE
