SPECIFICATION FairSpec
CONSTANTS
    Recorders = {r1}
    Capacity = 3
    Drained = 2
    MaxEntries = 6
PROPERTY
    NewEntriesAppear
