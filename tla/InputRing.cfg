SPECIFICATION LiveSpec
CONSTANTS
    InputRingSlotCount = 2
    MinimumInputRingSlotCount = 2
    InputRingSlotSize = 2
    DirectInputEpochReservation = 2
    MaxGeneration = 4
    MaximumDeferredAffineSpans = 1
    Workloads <- MCWorkloads
INVARIANTS
    TypeOK
    OwnershipIsExact
    PayloadIsImmutable
    PublishedIsCommitted
    WakeupIsUnique
    OwnersOutliveRing
PROPERTIES
    SleeperWakes
CHECK_DEADLOCK FALSE
