SPECIFICATION FairSpec
CONSTANTS
    None = None
    Plain = {p1}
    Mitm = {m1}
    MaxRequests = 2
    IdSpace = 20
INVARIANTS
    TypeOK
    TheUserDecides
    NoLostWaiter
    IdsAreUnique
    CloseIsFinal
PROPERTIES
    NothingSlipsThrough
    VerdictIsFinal
    ImplementsGate
    GateDecisionsAreCarriedOut
