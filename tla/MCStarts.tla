------------------------------ MODULE MCStarts ------------------------------
(***************************************************************************)
(* What is started and must come to its end, on small instances: one pod's *)
(* actioner, whose submits start runs, and a sitting's turn in two pods.   *)
(* They share no state, and each behaviour is of one of them.              *)
(***************************************************************************)
EXTENDS Actioner

CONSTANTS p1, p2, i1, i2

VARIABLES
    part,
    sitting, sittingPod, sittingFollow, closing, env, session, coming, sent, strays,
    crossed, faults

inboxVars ==
    <<sitting, sittingPod, sittingFollow, closing, env, session, coming, sent, strays, crossed,
      faults>>

MCTwoCalls == 1..2
MCNoFollows == 1..0

\* A Start, of an environment that runs or is stopped, and one fault.
Inbox == INSTANCE InboxSitting
    WITH Pods <- {p1, p2}, Retiring <- {p1}, Follows <- 1..2, Envs <- {1},
         Found <- {"running", "stopped"}, Sessions <- 1..2, MaxMessages <- 1,
         Turn <- <<FALSE, TRUE>>, MaxFaults <- 1,
         file <- sitting, pod <- sittingPod, follow <- sittingFollow

StartsInit == part \in {"actioner", "inbox"} /\ Init /\ Inbox!Init
StartsNext ==
    \/ part = "actioner" /\ Next /\ UNCHANGED <<part, inboxVars>>
    \/ part = "inbox" /\ Inbox!Next /\ UNCHANGED <<part, vars>>
\* The part that rests has no fair step to take.
StartsSpec ==
    StartsInit /\ [][StartsNext]_<<part, vars, inboxVars>> /\ Fairness /\ Inbox!Fairness

\* Each turn of a sitting ends: InboxSitting's.
TurnEnds == Inbox!TurnEnds
=============================================================================
