SPECIFICATION FairSpec
CONSTANTS
    Rotates = {FALSE}
    Tabs = {"t1", "t2"}
    Streams <- MCTwo
    Ids <- MCThree
    MaxFrames = 1
    MaxEvents = 1
    MaxWaiting = 1
    MaxFaults = 2
INVARIANT OneStream
PROPERTIES SettlesAsTold LeavesNothing
CHECK_DEADLOCK FALSE
