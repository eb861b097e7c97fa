\* Two pods in a rollout, p1 retired; and two that stay.
SPECIFICATION HoldRunsSpec
CONSTANTS
    p1 = p1
    p2 = p2
    i1 = i1
    i2 = i2
    Pods = {p1, p2}
    Retiring = {p1}
    Calls <- MCTwo
    Follows <- MCTwo
    TurnLines = 2
    LogLength = 4
    MaxLosses = 1
INVARIANTS AsIfInTurns LeavesItsFollows LinesAreTheLog
PROPERTY OverlapIsUnseen
CHECK_DEADLOCK FALSE
