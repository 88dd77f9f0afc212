SPECIFICATION Spec
CONSTANTS
    t1 = t1
    Conns = {t1}
    MaxFrames = 2
    Capacity = 2
    Drained = 1
    Setups <- SafetySetups
INVARIANTS
    TypeOK
    TheUserDecides
    NoLostWaiter
    RelayedInOrder
    NothingIsLost
    HistoryIsComplete
    HistoryIsTruthful
PROPERTIES
    ImplementsGate
