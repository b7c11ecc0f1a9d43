SPECIFICATION TwoSizesSpec
CONSTANTS
    Account = {a1, a2, a3}
    IP = {i1, i2, i3}
    NoAccount = NoAccount
    NoIP = NoIP
    SlotCount = 3
    RebindAfter = 1
    DriftAfter = 1
    Worker = {w1}
    MaxEvents = 1
SYMMETRY Symmetry
INVARIANTS BindingsExist PassSeparatesAccounts PassSeparatesEgresses NoneWasted
PROPERTIES MovedOnlyForCause
