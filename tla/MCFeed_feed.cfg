SPECIFICATION FeedFairSpec
CONSTANTS
    Watchers = {w1, w2}
    Buffer = 2
    MaxEvents = 4
INVARIANTS
    NeverPanics
    
    
    
PROPERTIES
    Released
