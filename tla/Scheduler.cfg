SPECIFICATION FairSpec
CONSTANTS
    Saver = {s1}
    Asker = {a1}
    Slots = 1
    Reserve = 2
    MaxBatch = 2
    QueueSize = 1
    MaxFaults = 1
INVARIANTS OneAtATime
PROPERTIES SettingsSettle PoolFills
CHECK_DEADLOCK FALSE
