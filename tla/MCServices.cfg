\* Two tasks on one worker and two signals; two streams, of which the one replaces
\* the other.
SPECIFICATION ServicesSpec
CONSTANTS
    t1 = t1
    t2 = t2
    Tasks = {t1, t2}
    MaxWorkers = 1
    Signals = {"term", "int"}
INVARIANTS ReadyMeansDone EveryTaskTells OpenIsReached
PROPERTIES ShutdownEnds StreamsEnd
CHECK_DEADLOCK FALSE
