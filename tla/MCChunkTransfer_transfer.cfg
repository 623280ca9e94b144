SPECIFICATION FairSpec
CONSTANTS
    Total = 3
    MaxDraws = 2
    MaxLosses = 1
    Calls = {c1, c2}
    NoCall = NoCall
    Nothing = Nothing
CHECK_DEADLOCK FALSE
INVARIANTS
    TypeOK
    NoHoles
    OneDrawOnly
PROPERTIES
    PullDelivers
    GrowsAsPromised
