SPECIFICATION Spec
CONSTANTS
    Bit = {1, 2}
    Words <- MCWords
    InstantVU1 = TRUE
    MaxWrites = 3
    MaxPrograms = 2
INVARIANTS
    TypeOK
    LabelIsNeverLost
    SignalIsExact
    FinishDelivers
