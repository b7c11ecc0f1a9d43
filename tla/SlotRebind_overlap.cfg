SPECIFICATION MCFairSpec
CONSTANTS
    Account = {a1, a2}
    IP = {i1, i2}
    NoAccount = NoAccount
    NoIP = NoIP
    SlotCount = 2
    RebindAfter = 1
    DriftAfter = 1
    Worker = {w1, w2}
    MaxEvents = 0
PROPERTIES SeparationRepaired
