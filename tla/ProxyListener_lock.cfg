SPECIFICATION FairSpec
CONSTANTS
    Conn = {c1}
    Established = {}
    Silent = {}
    Closer = {stop, reconcile}
    None = None
PROPERTIES CloseReturns
CHECK_DEADLOCK FALSE
