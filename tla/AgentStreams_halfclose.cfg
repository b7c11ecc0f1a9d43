SPECIFICATION MCSpec
CONSTANTS
    Node = {n1}
    MaxDials = 5
    MaxFaults = 2
    Version <- MCVersion
    Stream = {s1}
PROPERTY EndOfInputArrives
CHECK_DEADLOCK FALSE
