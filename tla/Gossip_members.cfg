SPECIFICATION Spec
CONSTANTS
    n1 = n1
    n2 = n2
    n3 = n3
    Nodes = {n1, n2, n3}
    Seeds <- OneSeed
    Fanout = 2
    Timeout = 2
    MaxLost = 1
    Joiners = {n3}
    Leavers = {n2, n3}
    Crashers = {n1, n3}
PROPERTIES LiveKept LonerForgets
CHECK_DEADLOCK FALSE
