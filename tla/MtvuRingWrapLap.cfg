SPECIFICATION Spec
CONSTANTS
    BufferSize = 8
    Margin = 1
    Reserved <- MCReserved
    Written <- MCWritten
    MaximumOutstandingVuExecutions = 1
    MaximumDeferredAffineSpans = 2
    Calls = {"execute", "unpack"}
    MaxRecords = 6
    MaxSpans = 2
INVARIANTS
    EqualMeansEmpty
CHECK_DEADLOCK FALSE
