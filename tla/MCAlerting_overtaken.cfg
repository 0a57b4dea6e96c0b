SPECIFICATION Spec
CONSTANTS
    Handlers = {h1, h2}
    Checker = Checker
    Rules <- OneRule
    Values = {0, 1}
    Grace = 0
    BotChannels = {"ops"}
    MaxLag = 0
    MaxTime = 1
    MaxSamples = 2
    MaxFailures = 0
INVARIANTS
    AlertsEdited
