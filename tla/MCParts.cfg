SPECIFICATION PartsSpec
CONSTANTS
    Observations = {"x", "y"}
    Cards = {"c", "d"}
    NoCard = "none"
    NoObservation = "nobody"
    Absent = "absent"
    MaxNow = 2
    MaxHappenings = 3
    Calls = {"p", "q"}
    Old = "old"
    Texts = {"t", "u"}
    NoFile = NoFile
    MaxPushes = 1
    MaxTroubles = 1
    MaxFront = 4
    MaxSection = 3
    MaxEdits = 2
    Roles = {"r", "w", "p"}
    NoRole = "none"
    Requests = {"a", "b"}
    Logins = {1}
    MaxDoings = 4
    Documents = {"x", "y", "z"}
    Terms = {"t", "u"}
    MaxCount = 2
    NoText = NoText
    Names = {"store"}
    Critical = {"store"}
    Probes = {"i", "j"}
    TTL = 1
    MaxVersions = 2
    MaxRuns = 3
    MaxTime = 1
INVARIANTS QueuedIsApplied MatchIsOfOneCommit RepostIsMet WritesAreExact ResultsTell
INVARIANTS RolesAreReach CookiesStand IndexIsItsTexts AnswersAreCurrent
PROPERTIES SyncGoesOn
CHECK_DEADLOCK FALSE
