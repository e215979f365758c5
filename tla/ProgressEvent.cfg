SPECIFICATION LiveSpec
CONSTANTS
    Waiter = {w1, w2}
    MaxProgress = 3
    MaxStray = 1
CHECK_DEADLOCK FALSE
INVARIANTS
    TypeOK
    ArmIsOwned
    TokenPerClaim
    NoLostWakeup
PROPERTIES
    StaleSleeperReturns
