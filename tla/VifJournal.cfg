SPECIFICATION Spec
CONSTANTS
    Vu1MemoryQwords = 3
    Lengths = {1, 2}
    Formats = {"affine", "masked", "offset", "difference"}
    Kinds = {"captured", "unpack", "data", "flush"}
    MaximumDeferredAffineSpans = 2
    MaxRecords = 3
INVARIANTS
    TypeOK
    JournalIsExact
    JournalIsCompact
CHECK_DEADLOCK FALSE
