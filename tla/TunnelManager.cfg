SPECIFICATION FairSpec
CONSTANTS
    Tag = {t1}
    Config = {plain, keeper}
    Instance = {o1, o2, o3, o4, o5, o6}
    Reconciler = {r1, r2}
    NoConfig = NoConfig
    None = None
    MaxEvents = 2
INVARIANTS OpenIffHeld ReconcileExact
PROPERTIES RestartsJustified Converges
