\* Two messages to an environment that runs, and one fault: p1 retired, a pod
\* that dies, a call that fails, a session or the environment gone.
SPECIFICATION Spec
CONSTANTS
    p1 = p1
    p2 = p2
    Pods = {p1, p2}
    Retiring = {p1}
    Follows <- MCThree
    Envs <- MCOneEnv
    Found = {"running"}
    Sessions <- MCTwo
    MaxMessages = 2
    Turn <- MCTwoLines
    MaxFaults = 1
INVARIANTS SentTwiceOnlyCrossed ReplyIsWhole SessionsAreOwned ClosedOnce
CHECK_DEADLOCK FALSE
