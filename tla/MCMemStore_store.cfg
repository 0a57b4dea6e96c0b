SPECIFICATION FairSpec
CONSTANTS
    StreamIDs = {s1, s2}
    Ingesters = {p1, p2}
    Evictor = Evictor
    Unlocked = Unlocked
    MaxSamples = 1
    Retention = 1
    MaxTime = 3
    MaxArrivals = 3
INVARIANTS
    CountExact
    NoEmptyEntry
    Ordered
    BudgetBound
    SweptClean
PROPERTIES
    Implements
    EventuallyForgotten
