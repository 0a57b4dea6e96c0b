SPECIFICATION FairSpec
CONSTANTS
    Handlers = {h1, h2}
    Checker = Checker
    Rules <- MixedRules
    Values = {0, 2}
    Grace = 0
    BotChannels = {"ops"}
    MaxLag = 0
    MaxTime = 2
    MaxSamples = 3
    MaxFailures = 1
INVARIANTS
    EventsAlternate
    NothingLost
    EditedOnce
    BoardAgrees
PROPERTIES
    SendReturns
