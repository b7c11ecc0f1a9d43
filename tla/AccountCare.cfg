SPECIFICATION MCSpec
CONSTANTS
    a1 = a1
    a2 = a2
    i1 = i1
    Account = {a1, a2, a3}
    IP = {i1, i2}
    NoAccount = NoAccount
    NoIP = NoIP
    SlotCount = 2
    RebindAfter = 2
    DriftAfter = 2
    ErrorsToFail = 2
    MaxEvents = 1
    MaxTests = 1
PROPERTIES OneKeeper JobSparesBindings DeadSlotMoves
CHECK_DEADLOCK FALSE
