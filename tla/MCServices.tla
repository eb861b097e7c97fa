----------------------------- MODULE MCServices -----------------------------
(***************************************************************************)
(* What the shutdown waits for, on small instances: the task service, and  *)
(* the connection manager's streams.  They share no state, and each        *)
(* behaviour is of one of them.                                            *)
(***************************************************************************)
EXTENDS TaskService

CONSTANTS t1, t2
VARIABLES part, stream, registry, shutting, ending, sends, sentEvents

serverVars == <<stream, registry, shutting, ending, sends, sentEvents>>

Server == INSTANCE SseStreams
    WITH Streams <- 1..2, Ids <- 1..2, MaxFrames <- 1, MaxEvents <- 2, events <- sentEvents

ServicesInit == part \in {"tasks", "streams"} /\ Init /\ Server!ServerInit
ServicesNext ==
    \/ part = "tasks" /\ Next /\ UNCHANGED <<part, serverVars>>
    \/ part = "streams" /\ Server!ServerNext /\ UNCHANGED <<part, vars>>
\* The part that rests has no fair step to take.
ServicesSpec ==
    /\ ServicesInit /\ [][ServicesNext]_<<part, vars, serverVars>>
    /\ Fairness /\ Server!ServerFairness

\* SseStreams' properties.
OpenIsReached == Server!OpenIsReached
StreamsEnd == Server!ShutdownEnds
=============================================================================
