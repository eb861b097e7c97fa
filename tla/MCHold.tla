------------------------------- MODULE MCHold -------------------------------
(***************************************************************************)
(* The one file of the actioner's hold under its writers, on small         *)
(* instances: the starts of two pods in a rollout; the starts of two that  *)
(* stay, with a submit to each; two runs' follows; and one run's follow    *)
(* that changes hands.  Each behaviour is of one of them.                  *)
(***************************************************************************)
EXTENDS RunFollow

CONSTANTS p1, p2, i1, i2

VARIABLES
    part,
    store, view, starter,
    bothStore, bothView, bothStarter,
    started, scope, mail, old, page, taken, missed, trouble, deaths

followVars == <<run, log, expired, silent, pod, follow, losses>>
rolloutVars == <<store, view, starter>>
overlapVars == <<bothStore, bothView, bothStarter>>
startsVars == <<started, scope, mail, old, page, taken, missed, trouble, deaths>>

MCTwo == 1..2

\* A rollout, a death, and an editor who clears failures.
Rollout == INSTANCE Actioner
    WITH Follows <- {}, TurnLines <- 1, Editors <- {"editor"}, Items <- {i1}, MaxDeaths <- 1,
         run <- started, expired <- old, pod <- starter
\* Two submits, so that a start in the one pod meets the run of the other's.
Overlap == INSTANCE Actioner
    WITH Retiring <- {}, Follows <- {}, TurnLines <- 1, Editors <- {}, Items <- {i1, i2},
         MaxDeaths <- 0, run <- started, expired <- old,
         store <- bothStore, view <- bothView, pod <- bothStarter

\* The second run is started while a follow of the first may be at work; nothing
\* is logged.
Runs == INSTANCE RunFollow WITH TurnLines <- 1, LogLength <- 0, MaxLosses <- 0

\* Both submits have landed, and neither pod has asked for its start.
BothSubmitted ==
    /\ bothStore = [i \in {i1, i2} |-> "submitted"]
    /\ bothView = [p \in Pods |-> {i1, i2}]
    /\ bothStarter = [p \in Pods |->
          [Overlap!FreshPod EXCEPT !.asking = IF p = p1 THEN {i1} ELSE {i2}]]

\* Their runs succeed; those of the rollout are skipped or fail, too.
Succeed == \A m \in mail : m.outcome = "success"

HoldRunsInit ==
    /\ part \in {"rollout", "overlap", "runs", "handover"}
    /\ Init /\ Rollout!Init /\ BothSubmitted
HoldRunsNext ==
    \/ part = "rollout" /\ Rollout!Next /\ UNCHANGED <<part, followVars, overlapVars>>
    \/ part = "overlap" /\ Overlap!Next /\ Succeed' /\ UNCHANGED <<part, followVars, rolloutVars>>
    \/ /\ \/ part = "runs" /\ Runs!Next
          \/ part = "handover" /\ Next /\ run'[2] = "unasked"
       /\ UNCHANGED <<part, rolloutVars, overlapVars, startsVars>>
HoldRunsSpec ==
    HoldRunsInit /\ [][HoldRunsNext]_<<part, vars, rolloutVars, overlapVars, startsVars>>

\* Actioner's.
OverlapIsUnseen == Overlap!OverlapIsUnseen
=============================================================================
