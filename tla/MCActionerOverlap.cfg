\* Two pods that both read that no run is held.
SPECIFICATION Spec
CONSTANTS
    p1 = p1
    p2 = p2
    i1 = i1
    i2 = i2
    Pods = {p1, p2}
    Retiring = {}
    Editors = {}
    Items = {i1, i2}
    Calls <- MCTwoCalls
    Follows <- MCNoFollows
    TurnLines = 1
    MaxDeaths = 0
PROPERTY StartsNoneWhileHeld
CHECK_DEADLOCK FALSE
