SPECIFICATION Spec
CHECK_DEADLOCK FALSE
CONSTANTS
    Files <- MCFiles
    References <- MCReferences
    Environments <- MCEnvironments
    PathOf <- MCPathOf
    Thresholds <- MCThresholds
    Durations <- MCDurations
    TooLong <- MCTooLong
    Exports <- MCExports
    RequestOf <- MCRequestOf
    Handlers = {h1, h2}
    WordBits = 4
    Window = 2
    StartTime = 5
    MaxTicks = 1
    MaxPosts = 2
SYMMETRY Symmetry
INVARIANTS
    FileHonoured
    StoredAsSent
    LateOnlyBySender
    Addressable
    RuleSeesItsFile
PROPERTIES
    ValidatedStarts
