SPECIFICATION Spec
CONSTANTS
    None = None
    p1 = p1
    p2 = p2
    t1 = t1
    Plain = {p1, p2}
    Tls = {t1}
    MaxTabs = 2
    MaxOpened = 3
    MaxSends = 1
    MaxFrames = 1
    Setups <- ClosedTabSetups
INVARIANTS
    SentOverOwnConnection
