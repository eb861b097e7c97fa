SPECIFICATION ScreensSpec
CONSTANTS
    MaxTasks = 2
    MaxLines = 1
    MaxFetches = 3
    MaxLost = 1
    Connections = {1, 2}
    RequestIds = {11, 12}
    RequestOf <- MCRequestOf
    Local = FALSE
    Items = {"a", "b"}
    MaxWrites = 2
    MaxOutside = 2
    MaxFaults = 1
INVARIANTS ReplayAddsNothing WritesStand RulesWhatItShowed SubmitsNoOlder
INVARIANTS QueuedWins SignedOutIsOver
CHECK_DEADLOCK FALSE
