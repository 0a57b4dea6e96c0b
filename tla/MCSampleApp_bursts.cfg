SPECIFICATION AppFairSpec
CONSTANTS
    Sims = 1
    Duration = 2
    BlipFor = {1, 2}
    BlipGap = {1}
    MaxTime = 6
    MaxKeys = 3
CHECK_DEADLOCK FALSE

    
PROPERTIES
    BurstsEnd
