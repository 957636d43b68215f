SPECIFICATION Spec
CONSTANTS
    u1 = u1
    NoUpload = NoUpload
    Uploads = {u1}
    MinPartSize = 2
    DefaultPartSize = 3
    MaxParts = 2
    MaxFileSize = 5
    FileSizes = {0, 5, 6}
    PartSizes = {0, 1, 2}
    MaxFailures = 3
    MaxRetries = 1
    MaxInt32 = 5000
    Picks <- Picked
    Overrides <- Entered
    MaxPolls = 3
    MaxStatuses = 4
INVARIANTS
    TypeOK
    AnsweredHasAll
    FailedLeavesNothing
    WholeFile
    ShownWasReal
    PollsUntilEnd
PROPERTIES
    AsChosen
    PollingStops
CHECK_DEADLOCK FALSE
