SPECIFICATION Spec
CONSTANTS
    None = None
    p1 = p1
    p2 = p2
    t1 = t1
    Plain = {p1, p2}
    Tls = {t1}
    MaxTabs = 2
    MaxOpened = 2
    MaxSends = 2
    MaxFrames = 2
    Setups <- SafetySetups
INVARIANTS
    TypeOK
    LogKeepsOrder
    FramesAreSentOnceInOrder
    OwnConnectionUntilTabsClose
