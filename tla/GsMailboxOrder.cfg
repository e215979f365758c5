SPECIFICATION Spec
CONSTANTS
    RingSize = 5
    VSyncSize = 1
    SpinLimit = 2
    VsyncQueueSize = 1
    MaxRun = 2
    MaxPending = 3
    MaxOutstanding = 2
    PathRoom = 1
    Calls = {"gs", "freeze", "exec", "vsync", "reset", "transferEnd", "close", "shutdown"}
    Outputs = {"cpu", "none", "draw", "generated"}
    MaxCalls = 3
INVARIANTS
    TypeOK
    FramesAreExact
    WakeupsAreOwned
PROPERTIES
    WaitGSIsBarrier
    ImplementsStream
CHECK_DEADLOCK FALSE
