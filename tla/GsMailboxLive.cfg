SPECIFICATION LiveSpec
CONSTANTS
    RingSize = 3
    VSyncSize = 1
    SpinLimit = 2
    VsyncQueueSize = 0
    MaxRun = 2
    MaxPending = 2
    MaxOutstanding = 2
    PathRoom = 2
    Calls = {"gs", "exec", "vsync", "shutdown"}
    Outputs = {"cpu", "generated"}
    MaxCalls = 3
PROPERTIES
    CallsReturn
CHECK_DEADLOCK FALSE
