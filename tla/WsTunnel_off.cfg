SPECIFICATION FairSpec
CONSTANTS
    t1 = t1
    Conns = {t1}
    MaxFrames = 1
    Capacity = 2
    Drained = 1
    Setups <- OffSetups
PROPERTIES
    OffUnblocksThreads
