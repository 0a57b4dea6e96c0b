SPECIFICATION Spec
CONSTANTS
    Rules <- OneMetric
    Values = {1}
    Buffer = 2
    History = 2
    MaxSamples = 1
    MaxFlips = 1
    MaxFaults = 0
INVARIANTS
    PictureCurrent
