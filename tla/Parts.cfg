SPECIFICATION MCSpec
CONSTANTS
    MaxSize = 3
    MaxRead = 4
    MaxTaken = 9
    Awaited = {u1, u2}
    Upgraded = {u3}
    Stopper = {p1, p2}
    QueueSize = 1
    Target = {t1, t2}
    MaxAssociations = 1
    MaxPackets = 2
    MaxAnswers = 1
    MaxDialled = 2
    Client = {c1, c2}
    Agent = {1, 2}
    StreamOnly = {1}
    Tunnel = {1, 2}
    MaxDials = 4
    MaxChanges = 1
    MaxTime = 1
    Tag = {1, 2}
    IP = {i1, i2}
    MaxBytes = 2
    MaxEvents = 1
    MaxDay = 3
    MaxLines = 3
    MaxLine = 2
    Inner = {2, 4}
    Limit = 2
    MaxChunks = 2
    MaxFaults = 1
    MaxLength = 2
    Buffer = 1
    MaxFrames = 3
INVARIANTS Typed StopFlushes ListenerUsageKept ReportedInFull WithinLimit SpreadsEvenly ShowsTheFile DatagramsWhole
PROPERTIES ImplementsPipe AllDelivered UsageReturns ImplementsLedger SessionEnds ServedIfReachable SlotKeepsAddress CreditedOnce CatchesUp
CHECK_DEADLOCK FALSE
