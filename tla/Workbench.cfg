SPECIFICATION FairSpec
CONSTANTS
    a = a
    b = b
    c = c
    Lists <- ShortAndLong
    Views <- TwoPanels
    Typed = {0, 3}
    MaxMarks = 4
    MaxSets = 2
    Requests = {"get", "post"}
    MaxRepeaterTabs = 3
INVARIANTS
    AttackFollowsPlan
    EachCombinationOnce
PROPERTIES
    FrontTabStays
    AttackEnds
