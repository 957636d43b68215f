SPECIFICATION Spec
CONSTANTS
    Apis = {a1}
    Transcoders = {t1}
    ConnectMaxAttempts = 3
    ConnectInitialBackoff = 0
    ConnectMaxBackoff = 5
    WorkerCount = 4
    Second = 2
    MaxDuration = 15
    MaxFaults = 0
PROPERTIES
    ReadyWhenUp
