SPECIFICATION LiveSpec
CONSTANTS
    Job = {j1, j2, j3}
    Flag = 8
INVARIANTS
    TypeOK
    WakeupIsUnique
    EmptyWakeupIsUnique
    IdleMeansDrained
    EmptyIsTrue
PROPERTIES
    WorkIsProcessed
    WaitForEmptyReturns
