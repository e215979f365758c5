SPECIFICATION LiveSpec
CONSTANTS
    RingSize = 3
    VSyncSize = 1
    SpinLimit = 2
    VsyncQueueSize = 1
    MaxRun = 2
    MaxPending = 2
    MaxOutstanding = 2
    PathRoom = 2
    Calls = {"exec", "wait"}
    Outputs = {"generated"}
    MaxCalls = 2
PROPERTIES
    EveryCallReturns
CHECK_DEADLOCK FALSE
