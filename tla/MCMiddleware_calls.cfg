SPECIFICATION FairSpec
CHECK_DEADLOCK FALSE
CONSTANTS
    Requests = {r1, r2}
    Unlocked = Unlocked
    MaxStarts = 3
    MaxCalls = 2
INVARIANTS
    AtMostOneBehind
    ActiveAccounted
    
PROPERTIES
    GetReturns
