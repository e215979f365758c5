SPECIFICATION Spec
CONSTANTS
    Vu1MemoryQwords = 3
    Lengths = {1}
    Formats = {"affine", "offset"}
    Kinds = {"captured", "row", "flush"}
    MaximumDeferredAffineSpans = 2
    MaxRecords = 3
INVARIANTS
    JournalIsExact
CHECK_DEADLOCK FALSE
