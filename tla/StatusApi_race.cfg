SPECIFICATION Spec
CONSTANTS
    j1 = j1
    c1 = c1
    c2 = c2
    c3 = c3
    Jobs <- OneJob
    Calls <- ThreeCalls
    Requests <- SomeRequests
SYMMETRY Symmetric
INVARIANTS
    TypeOK
    NoStageSkipped
PROPERTIES
    OkWasReached
    SettledIsFinal
    RefinesLifecycle
