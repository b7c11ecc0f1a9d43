SPECIFICATION FairSpec
CONSTANTS
    Conn = {c1, c2, c3}
    Established = {c1}
    Silent = {c2}
    Closer = {stop, reconcile}
    None = None
INVARIANTS NothingLeft SweptForGood
PROPERTIES CloseEndsRelays
CHECK_DEADLOCK FALSE
