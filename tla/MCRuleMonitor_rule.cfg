SPECIFICATION FairSpec
CONSTANTS
    Rules <- MCRules
    Values = {1, 2}
    Grace = 1
    MaxLag = 2
    MaxTime = 5
    MaxArrivals = 4
INVARIANTS
    FiresExactlySustained
    FiringByArrival
    FiresOnlySilent
PROPERTIES
    SilenceDetected
