SPECIFICATION LiveSpec
CONSTANTS
    BufferSize = 6
    Margin = 1
    Reserved <- MCReserved
    Written <- MCWritten
    MaximumOutstandingVuExecutions = 1
    MaximumDeferredAffineSpans = 2
    Calls = {"captured", "unpack", "execute", "data", "plain", "direct", "transferEnd", "wait", "rebuild", "close", "vsync"}
    MaxRecords = 4
    MaxSpans = 2
INVARIANTS
    TypeOK
    RecordsIntact
    HandledInOrder
    OutstandingIsHonest
PROPERTIES
    PublishedIsFrozen
    WaitVUIsBarrier
    CallsReturn
    RequestsAreTaken
CHECK_DEADLOCK FALSE
