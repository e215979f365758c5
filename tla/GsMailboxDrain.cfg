SPECIFICATION Spec
CONSTANTS
    RingSize = 3
    VSyncSize = 1
    SpinLimit = 2
    VsyncQueueSize = 1
    MaxRun = 2
    MaxPending = 2
    MaxOutstanding = 2
    PathRoom = 2
    Calls = {"exec", "wait"}
    Outputs = {"cpu"}
    MaxCalls = 3
INVARIANTS
    DrainWaitHasPublisher
CHECK_DEADLOCK FALSE
