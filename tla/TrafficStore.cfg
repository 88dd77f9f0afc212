SPECIFICATION FairSpec
CONSTANTS
    Recorders = {r1, r2}
    Capacity = 3
    Drained = 2
    MaxEntries = 6
INVARIANTS
    StoreKeepsNewest
    ViewIsASnapshot
    ClearedStaysCleared
PROPERTY
    UndrainedEntriesAppear
