\* The key pairs of the bound may be used up.
CHECK_DEADLOCK FALSE
SPECIFICATION Spec
CONSTANTS
    Handlers = {h1, h2}
    Window = window
    Domains = {d1}
    Missing = Missing
    Torn = Torn
    Foreign = Foreign
    MaxPairs = 3
    MaxRuns = 2
INVARIANTS
    OneSigner
    FilesMatch
    LeavesAreTrusted
