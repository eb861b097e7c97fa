\* One pod that dies and starts again, git commands and listeners that fail,
\* and a skill that pushes: every write is answered and the indexes catch up.
SPECIFICATION FairSpec
CONSTANTS
    p1 = p1
    p2 = p2
    w1 = w1
    w2 = w2
    f0 = f0
    f1 = f1
    Pods = {p1}
    Writes = {w1, w2}
    Foreign = {f0, f1}
    Effect <- MCEffect
    Listeners <- MCListeners
    Fallible <- MCFallible
    Root <- MCRoot
    PushAttempts = 2
    QueueBound = 2
    MaxFaults = 2
    MaxDeaths = 1
PROPERTIES EveryWriteIsAnswered Converges
CHECK_DEADLOCK FALSE
