\* One pod whose push runs out of its time: the write its caller saw fail lands.
SPECIFICATION Spec
CONSTANTS
    p1 = p1
    p2 = p2
    w1 = w1
    w2 = w2
    f0 = f0
    f1 = f1
    Pods = {p1}
    Writes = {w1, w2}
    Foreign = {f0, f1}
    Effect <- MCEffect
    Listeners <- MCListeners
    Fallible <- MCFallible
    Root <- MCRoot
    PushAttempts = 2
    QueueBound = 1
    MaxFaults = 1
    MaxDeaths = 0
PROPERTY FailedNeverLands
CHECK_DEADLOCK FALSE
