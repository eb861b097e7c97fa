----------------------------- MODULE MCActioner -----------------------------
(* Actioner on small instances.                                            *)
EXTENDS Actioner, TLC

CONSTANTS p1, p2, i1, i2

MCTwoCalls == 1..2
MCNoFollows == 1..0
=============================================================================
