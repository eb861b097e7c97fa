------------------------------ MODULE StoreLog ------------------------------
(***************************************************************************)
(* What the store keeps to its writers: one shared history of `main` that  *)
(* only grows, each write on it at most once, and an answer that tells the *)
(* truth.  A caller told "ok" finds the effect of its edit on `main`, and  *)
(* its write lands no later than that.  "failed" does not say the write is *)
(* absent: it may have landed, and one sent in a push whose end the pod    *)
(* did not hear, which is adrift, may land still.  A write that failed in  *)
(* any other way never does.                                               *)
(***************************************************************************)
EXTENDS Sequences, Functions

CONSTANTS
    Writes,     \* the writes callers ask for
    Foreign,    \* commits a skill or a session pushes past the API
    Effect,     \* what each commit makes of the store's files
    Root        \* `main` before the first step

VARIABLES
    log,        \* the remote's `main`, oldest commit first
    call,       \* each write's call, as its caller sees it
    adrift      \* the writes in a push whose end no one heard

vars == <<log, call, adrift>>

Landed == Range(log)
Promised(w) == \E c \in Landed : Effect[c] = Effect[w]

Init == log = Root /\ call = [w \in Writes |-> "new"] /\ adrift = {}

Ask(w) ==
    /\ call[w] = "new"
    /\ call' = [call EXCEPT ![w] = "queued"]
    /\ UNCHANGED <<log, adrift>>

\* Its push is sent, and its end not heard.
Drift(w) ==
    /\ call[w] = "queued"
    /\ adrift' = adrift \cup {w}
    /\ UNCHANGED <<log, call>>

\* A write lands once, while its caller waits or from a push that is adrift.
Land(w) ==
    /\ call[w] = "queued" \/ (w \in adrift /\ call[w] \in {"failed", "lost"})
    /\ w \notin Landed
    /\ log' = Append(log, w)
    /\ UNCHANGED <<call, adrift>>

Push(f) ==
    /\ f \notin Landed
    /\ log' = Append(log, f)
    /\ UNCHANGED <<call, adrift>>

Succeed(w) ==
    /\ call[w] = "queued"
    /\ Promised(w)
    /\ call' = [call EXCEPT ![w] = "ok"]
    /\ UNCHANGED <<log, adrift>>

Fail(w) ==
    /\ call[w] = "queued"
    /\ call' = [call EXCEPT ![w] = "failed"]
    /\ UNCHANGED <<log, adrift>>

\* A pod that dies takes its callers' connections with it, but not the push it
\* may have sent.
Lose ==
    /\ \E lost \in SUBSET {w \in Writes : call[w] = "queued"} :
         /\ call' = [w \in Writes |-> IF w \in lost THEN "lost" ELSE call[w]]
         /\ \E sent \in SUBSET lost : adrift' = adrift \cup sent
    /\ UNCHANGED log

Next ==
    \/ \E w \in Writes : Ask(w) \/ Drift(w) \/ Land(w) \/ Succeed(w) \/ Fail(w)
    \/ \E f \in Foreign : Push(f)
    \/ Lose

Spec == Init /\ [][Next]_vars
=============================================================================
