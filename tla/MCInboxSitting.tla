--------------------------- MODULE MCInboxSitting ---------------------------
(* InboxSitting on small instances.                                        *)
EXTENDS InboxSitting, TLC

CONSTANTS p1, p2

MCOneEnv == 1..1
MCTwo == 1..2
MCThree == 1..3
MCTwoLines == <<TRUE, TRUE>>
=============================================================================
