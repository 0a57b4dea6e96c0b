SPECIFICATION FairSpec
CONSTANTS
    Rules <- OneMetric
    Values = {0, 1}
    Buffer = 2
    History = 1
    MaxSamples = 2
    MaxFlips = 2
    MaxFaults = 2
INVARIANTS
    
    PageFollows
PROPERTIES
    WatchReopened
