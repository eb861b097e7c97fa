\* One pod: its submits, attempts, retries and webhooks; and a Start in two pods.
SPECIFICATION StartsSpec
CONSTANTS
    p1 = p1
    p2 = p2
    i1 = i1
    i2 = i2
    Pods = {p1}
    Retiring = {}
    Editors = {}
    Items = {i1, i2}
    Calls <- MCTwoCalls
    Follows <- MCNoFollows
    TurnLines = 1
    MaxDeaths = 0
INVARIANT PendingIsCarried
PROPERTIES SubmitIsActioned TurnEnds
CHECK_DEADLOCK FALSE
