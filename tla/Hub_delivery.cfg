SPECIFICATION Spec
CONSTANTS
    Clients = {c1}
    Publishers = {p1, p2}
    Messages = {m1, m2, m3}
    HubCap = 1
    SendCap = 1
INVARIANTS
    NoGaps
    OnlyPongPanics
PROPERTIES
    ConnectionsReleased
    CloseEndsPumps
CHECK_DEADLOCK FALSE
