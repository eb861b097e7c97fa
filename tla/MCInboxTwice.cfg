\* A send that comes late, after the turn its taker's send began.
SPECIFICATION Spec
CONSTANTS
    p1 = p1
    p2 = p2
    Pods = {p1, p2}
    Retiring = {p1}
    Follows <- MCThree
    Envs <- MCOneEnv
    Found = {"running"}
    Sessions <- MCTwo
    MaxMessages = 2
    Turn <- MCTwoLines
    MaxFaults = 1
INVARIANT SentOnce
CHECK_DEADLOCK FALSE
