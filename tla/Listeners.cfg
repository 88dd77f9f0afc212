SPECIFICATION FairSpec
CONSTANTS
    any = any
    local = local
    lan = lan
    MaxThreads = 3
    Edits <- Edited
    Wildcards = {any}
    Specifics = {local, lan}
    Covered <- OnePort
    Loopback <- ItsLocal
    Default = local
    None = None
    Backlog = 1
INVARIANTS
    NoServiceAfterStop
    BadgeIsTrue
PROPERTIES
    StoppedSocketsClose
