---------------------------- MODULE MCStoreQueue ----------------------------
(* StoreQueue on small instances: two pods, and writes of which two have    *)
(* the same effect, as a reaction given twice.                              *)
EXTENDS StoreQueue, TLC

CONSTANTS p1, p2, w1, w2, f0, f1

MCEffect == [c \in {w1, w2, f0, f1} |-> IF c \in {w1, w2} THEN "rule" ELSE c]
MCListeners == <<"triage", "index">>
MCFallible == {"index"}
MCRoot == <<f0>>
MCSymmetry == Permutations({p1, p2}) \cup Permutations({w1, w2})
=============================================================================
