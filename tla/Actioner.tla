------------------------------ MODULE Actioner ------------------------------
(***************************************************************************)
(* The actioner start: backend/app/fieldnotes/actioner.py, class Actioner, *)
(* in the pods a rollout overlaps.  A submit asks the KubeCoder controller *)
(* for a run off the request, the hold keeps another from starting, and the*)
(* controller's webhook releases it.  The controller, its runs and the     *)
(* items' store are external, modelled as the code uses them.  The follow  *)
(* of a held run is RunFollow's.  A hold's age is a flag, `expired`, that  *)
(* may come at any time.                                                   *)
(***************************************************************************)
EXTENDS ActionerHold, FiniteSets

CONSTANTS
    Pods,
    Retiring,       \* the pods a rollout shuts down
    Editors,        \* the editors with their page open
    Items,          \* triage items, ruled and open
    MaxDeaths       \* bound: pods that die and start again

ASSUME CallsAssumption == Calls \subseteq Nat \ {0}
ASSUME BoundsAssumption == {TurnLines, MaxDeaths} \subseteq Nat

VARIABLES
    store,      \* the items on the remote: open, submitted or actioned
    view,       \* the items each pod's triage index has as waiting
    run,        \* each call's run: unasked, running or over
    scope,      \* the items that waited when the run began
    mail,       \* the webhooks under way
    expired,    \* the hold is HOLD_EXPIRY old
    pod,        \* each pod's actioner
    page,       \* the failure the editor's page shows
    taken,      \* history: the runs each pod took into the hold
    missed,     \* history: items submitted to a start that had found nothing
    trouble,    \* history: a run refused or failed, a report lost or before
                \* its run was held, a pod gone
    deaths

outside == <<store, run, scope, mail>>
history == <<taken, missed, trouble, deaths>>
vars == <<outside, view, fileVars, expired, pod, page, history>>

----------------------------------------------------------------------------
\* An attempt: where it is, its call, and, history, the runs that any pod had
\* held as it read the file.
Attempt(at, call) == [at |-> at, call |-> call, knew |-> {}]
NoAttempt == Attempt("none", 0)
NoReport == NoFailure

\* A pod's actioner as it starts: it resumes no waiting start.
FreshPod ==
    [pending |-> FALSE,         \* Actioner._pending
     timer |-> FALSE,           \* Actioner._retrying, armed
     leaving |-> FALSE,         \* shutdown announced
     stopped |-> FALSE,         \* Actioner._stopped
     asking |-> {},             \* submitted items whose start is due
     attempt |-> NoAttempt,     \* the attempt in hand
     hook |-> NoReport,         \* the webhook in hand
     ending |-> "none",         \* the held run's ending, its start due
     clearing |-> NoFailure]    \* the clear in hand

Init ==
    /\ HoldInit
    /\ store = [i \in Items |-> "open"]
    /\ view = [p \in Pods |-> {}]
    /\ run = [c \in Calls |-> "unasked"]
    /\ scope = [c \in Calls |-> {}]
    /\ mail = {}
    /\ expired = FALSE
    /\ pod = [p \in Pods |-> FreshPod]
    /\ page = NoFailure
    /\ taken = [p \in Pods |-> {}]
    /\ missed = {}
    /\ trouble = FALSE
    /\ deaths = 0

At(p, at) == pod[p].attempt.at = at
Taken == UNION {taken[p] : p \in Pods}
Waiting == {i \in Items : store[i] = "submitted"}
Live == Holding /\ ~expired

----------------------------------------------------------------------------
(* A start: the submit, the attempt and its retries.                       *)

\* POST /triage/submit: one write, pushed before its start is asked for; the
\* pod's index is at the tip with it.
Submit(p, i) ==
    /\ store[i] = "open"
    /\ ~pod[p].stopped
    /\ store' = [store EXCEPT ![i] = "submitted"]
    /\ view' = [view EXCEPT ![p] = Waiting \cup {i}]
    /\ pod' = [pod EXCEPT ![p].asking = @ \cup {i}]
    /\ UNCHANGED <<run, scope, mail, fileVars, expired, page, history>>

\* The pod's pulls bring its index to the tip.
Refresh(p) ==
    /\ view[p] # Waiting
    /\ view' = [view EXCEPT ![p] = Waiting]
    /\ UNCHANGED <<outside, fileVars, expired, pod, page, history>>

\* Actioner._begin, and the attempt handed to the task service, which takes
\* no task once the pod's shutdown is announced.
Begun(a) ==
    [a EXCEPT !.pending = TRUE, !.attempt = IF a.leaving THEN @ ELSE Attempt("ready", 0)]

\* Actioner._retry_later, which a stopped pod leaves out.
RetryLater(a) == [a EXCEPT !.timer = ~a.stopped]

\* Actioner._settle, as the attempt ends.
Settled(a) == [a EXCEPT !.pending = FALSE, !.attempt = NoAttempt]

\* Actioner.start after a submit: a start pending covers it, one that has looked
\* already, found nothing and not settled yet included.
SubmitStarts(p) ==
    /\ pod[p].asking # {}
    /\ LET a == [pod[p] EXCEPT !.asking = {}] IN
         /\ pod' = [pod EXCEPT ![p] = IF a.pending THEN a ELSE Begun(a)]
         /\ missed' = IF a.pending /\ At(p, "over") THEN missed \cup pod[p].asking ELSE missed
    /\ UNCHANGED <<outside, view, fileVars, expired, page, taken, trouble, deaths>>

\* The retry's timer fires, unless stop() cancelled it.
TimerFires(p) ==
    /\ pod[p].timer
    /\ pod' = [pod EXCEPT ![p].timer = FALSE, ![p].attempt = Attempt("ready", 0)]
    /\ UNCHANGED <<outside, view, fileVars, expired, page, history>>

AttemptGoes(p, at) == pod' = [pod EXCEPT ![p].attempt.at = at]

\* The attempt reads the triage index: whether a submitted item waits.
AttemptLooks(p) ==
    /\ At(p, "ready")
    /\ AttemptGoes(p, IF view[p] = {} THEN "over" ELSE "waits")
    /\ UNCHANGED <<outside, view, fileVars, expired, page, history>>

\* Nothing waits, or the refusal is recorded: the start is pending no more.
AttemptSettles(p) ==
    /\ At(p, "over")
    /\ pod' = [pod EXCEPT ![p] = Settled(@)]
    /\ UNCHANGED <<outside, view, fileVars, expired, page, history>>

AttemptFree(p) ==
    pod' = [pod EXCEPT ![p].attempt = [at |-> "free", call |-> 0, knew |-> Taken]]

\* Mutant: a start that finds a live hold is over without a retry.
AttemptGivesUp(p) ==
    /\ At(p, "waits")
    /\ IF Live
       THEN pod' = [pod EXCEPT ![p].attempt = NoAttempt]
       ELSE AttemptFree(p)
    /\ UNCHANGED <<outside, view, fileVars, expired, page, history>>

\* Mutant: a start goes on, hold or no hold.
AttemptIgnoresHold(p) ==
    /\ At(p, "waits")
    /\ AttemptFree(p)
    /\ UNCHANGED <<outside, view, fileVars, expired, page, history>>

\* It reads the hold, no turn taken: a live one is tried again in a minute.
AttemptReadsHold(p) ==
    /\ At(p, "waits")
    /\ IF Live
       THEN pod' = [pod EXCEPT ![p] = RetryLater([@ EXCEPT !.attempt = NoAttempt])]
       ELSE AttemptFree(p)
    /\ UNCHANGED <<outside, view, fileVars, expired, page, history>>

Unasked == {c \in Calls : run[c] = "unasked"}
NextCall == CHOOSE c \in Unasked : TRUE

\* The controller answers a call for a run, which works on the items that wait
\* by then; or the run came to nothing.
Answer(p, state, at) ==
    /\ At(p, "free") /\ Unasked # {}
    /\ run' = [run EXCEPT ![NextCall] = state]
    /\ scope' = [scope EXCEPT ![NextCall] = Waiting]
    /\ pod' = [pod EXCEPT ![p].attempt = Attempt(at, NextCall)]
    /\ UNCHANGED <<store, mail, view, fileVars, expired, page, taken, missed, deaths>>

AttemptAsks(p) == Answer(p, "running", "accepted") /\ UNCHANGED trouble

\* The controller refuses, cannot be reached, or its acceptance is lost.
AttemptRefused(p) ==
    \E state \in {"over", "running"} : Answer(p, state, "refused") /\ trouble' = TRUE

\* Out of calls (bound): a refusal that is not recorded.
AttemptSpent(p) ==
    /\ At(p, "free") /\ Unasked = {}
    /\ AttemptGoes(p, "over")
    /\ trouble' = TRUE
    /\ UNCHANGED <<outside, view, fileVars, expired, page, taken, missed, deaths>>

\* A refusal is the last failure, the hold as it is.
AttemptFails(p) ==
    /\ At(p, "refused")
    /\ LET by == <<"attempt", p>> IN
       \/ Enter(by) /\ UNCHANGED pod
       \/ /\ Write(by, LAMBDA x : FailHold(x, Failure(pod[p].attempt.call, "refused")))
          /\ AttemptGoes(p, "over")
    /\ UNCHANGED <<outside, view, expired, page, history>>

\* Hold.take with `_settle` in its turn: the run is held and the start is over
\* at once, before a webhook's turn can find it pending.
AttemptTakes(p) ==
    /\ At(p, "accepted")
    /\ LET by == <<"attempt", p>>
           c == pod[p].attempt.call IN
       \/ Enter(by) /\ UNCHANGED <<pod, expired, taken>>
       \/ /\ Write(by, LAMBDA x : TakeHold(x, c, NoFollow))
          /\ pod' = [pod EXCEPT ![p] = Settled(@)]
          /\ expired' = FALSE
          /\ taken' = [taken EXCEPT ![p] = @ \cup {c}]
    /\ UNCHANGED <<outside, view, page, missed, trouble, deaths>>

----------------------------------------------------------------------------
(* The webhook.                                                            *)

NotHeldYet(c) == \E p \in Pods : pod[p].attempt = Attempt("accepted", c)

\* A delivery reaches either pod, before its run is held, too.
Deliver(p, m) ==
    /\ m \in mail
    /\ pod[p].hook = NoReport /\ pod[p].ending = "none" /\ ~pod[p].stopped
    /\ pod' = [pod EXCEPT ![p].hook = m]
    /\ mail' = mail \ {m}
    /\ UNCHANGED <<store, run, scope, view, fileVars, expired, page, history>>

\* A delivery is lost, and its hold expires.
LoseReport(m) ==
    /\ m \in mail
    /\ mail' = mail \ {m}
    /\ trouble' = TRUE
    /\ UNCHANGED <<store, run, scope, view, fileVars, expired, pod, page, taken, missed, deaths>>

\* Actioner.ended: the held run's report releases the hold, recording how it
\* failed; any other run's is ignored, one's that is not held yet included.
HookReleases(p) ==
    /\ pod[p].hook # NoReport
    /\ LET by == <<"hook", p>>
           m == pod[p].hook
           failure == IF m.outcome = "success" THEN NoFailure ELSE m IN
       \/ Enter(by) /\ UNCHANGED <<pod, trouble>>
       \/ /\ Write(by, LAMBDA x : ReleaseHold(x, m.call, failure))
          /\ pod' = [pod EXCEPT ![p].hook = NoReport, ![p].ending =
                IF Loaded(by).held.run = m.call THEN m.outcome ELSE "none"]
          /\ trouble' = (trouble \/ NotHeldYet(m.call))
    /\ UNCHANGED <<outside, view, expired, page, taken, missed, deaths>>

\* Mutant: a skip is left to the operator, as a failure is.
HookLeavesSkip(p) ==
    /\ pod[p].ending # "none"
    /\ LET a == [pod[p] EXCEPT !.ending = "none"] IN
       pod' = [pod EXCEPT ![p] =
            IF a.pending \/ pod[p].ending # "success" THEN a ELSE Begun(a)]
    /\ UNCHANGED <<outside, view, fileVars, expired, page, history>>

\* A success starts again, a skip for want of an environment in five minutes,
\* unless a start is pending; a failure is the operator's to retry.
HookStarts(p) ==
    /\ pod[p].ending # "none"
    /\ LET ending == pod[p].ending
           a == [pod[p] EXCEPT !.ending = "none"] IN
       pod' = [pod EXCEPT ![p] =
            IF a.pending \/ ending = "failed" THEN a
            ELSE IF ending = "skipped" THEN RetryLater([a EXCEPT !.pending = TRUE])
            ELSE Begun(a)]
    /\ UNCHANGED <<outside, view, fileVars, expired, page, history>>

----------------------------------------------------------------------------
(* The run and the clock, both external.                                   *)

RunActions(c) ==
    /\ run[c] = "running"
    /\ \E i \in scope[c] \cap Waiting : store' = [store EXCEPT ![i] = "actioned"]
    /\ UNCHANGED <<run, scope, mail, view, fileVars, expired, pod, page, history>>

\* A run succeeds with every item it found actioned, is skipped for want of an
\* environment before it does anything, or fails, and is reported.
RunEnds(c, outcome) ==
    /\ run[c] = "running"
    /\ outcome = "success" => scope[c] \cap Waiting = {}
    /\ outcome = "skipped" => scope[c] \subseteq Waiting
    /\ run' = [run EXCEPT ![c] = "over"]
    /\ mail' = mail \cup {Failure(c, outcome)}
    /\ trouble' = (trouble \/ outcome = "failed")
    /\ UNCHANGED <<store, scope, view, fileVars, expired, pod, page, taken, missed, deaths>>

Expire ==
    /\ Live
    /\ expired' = TRUE
    /\ UNCHANGED <<outside, view, fileVars, pod, page, history>>

----------------------------------------------------------------------------
(* The editor's page, and shutdown.                                        *)

\* The page shows the last failure (Actioner.state).
PageShows ==
    /\ Editors # {}
    /\ page # file.failure
    /\ page' = file.failure
    /\ UNCHANGED <<outside, view, fileVars, expired, pod, history>>

\* The editor clears the failure their page shows.
EditorClears(p) ==
    /\ page # NoFailure /\ pod[p].clearing = NoFailure /\ ~pod[p].stopped
    /\ pod' = [pod EXCEPT ![p].clearing = page]
    /\ UNCHANGED <<outside, view, fileVars, expired, page, history>>

ClearWrites(p) ==
    /\ pod[p].clearing # NoFailure
    /\ LET by == <<"clear", p>> IN
       \/ Enter(by) /\ UNCHANGED pod
       \/ /\ Write(by, LAMBDA x : ClearHold(x, pod[p].clearing))
          /\ pod' = [pod EXCEPT ![p].clearing = NoFailure]
    /\ UNCHANGED <<outside, view, expired, page, history>>

\* The shutdown is announced: the task service takes no task from then on.
Announce(p) ==
    /\ p \in Retiring /\ ~pod[p].leaving
    /\ pod' = [pod EXCEPT ![p].leaving = TRUE]
    /\ trouble' = TRUE
    /\ UNCHANGED <<outside, view, fileVars, expired, page, taken, missed, deaths>>

\* Actioner.stop: a retry that waits is dropped.
Stopped(a) == [a EXCEPT !.stopped = TRUE, !.pending = FALSE, !.timer = FALSE]

Stop(p) ==
    /\ pod[p].leaving /\ ~pod[p].stopped
    /\ pod' = [pod EXCEPT ![p] = Stopped(@)]
    /\ UNCHANGED <<outside, view, fileVars, expired, page, history>>

\* The pod's process ends and another starts in its place.
Die(p) ==
    /\ deaths < MaxDeaths
    /\ deaths' = deaths + 1
    /\ pod' = [pod EXCEPT ![p] = FreshPod]
    /\ Dropped({"attempt", "hook", "clear"} \X {p})
    /\ trouble' = TRUE
    /\ UNCHANGED <<outside, view, expired, page, taken, missed>>

----------------------------------------------------------------------------
AttemptSteps(p) ==
    \/ SubmitStarts(p) \/ TimerFires(p) \/ AttemptLooks(p) \/ AttemptSettles(p)
    \/ AttemptReadsHold(p) \/ AttemptAsks(p) \/ AttemptRefused(p) \/ AttemptSpent(p)
    \/ AttemptFails(p) \/ AttemptTakes(p)

HookSteps(p) == HookReleases(p) \/ HookStarts(p)

RunSteps(c) ==
    RunActions(c) \/ \E outcome \in {"success", "skipped", "failed"} : RunEnds(c, outcome)

PodSteps(p) ==
    \/ \E i \in Items : Submit(p, i)
    \/ Refresh(p) \/ AttemptSteps(p) \/ HookSteps(p)
    \/ \E m \in mail : Deliver(p, m)
    \/ EditorClears(p) \/ ClearWrites(p)
    \/ Announce(p) \/ Stop(p) \/ Die(p)

Next ==
    \/ \E p \in Pods : PodSteps(p)
    \/ \E m \in mail : LoseReport(m)
    \/ \E c \in Calls : RunSteps(c)
    \/ PageShows \/ Expire

Spec == Init /\ [][Next]_vars

\* The pods' threads and timers run, the pulls bring the index to the tip, a
\* run ends and its report is delivered or lost, and time passes.
Fairness ==
    /\ \A p \in Pods : WF_vars(Refresh(p)) /\ WF_vars(AttemptSteps(p)) /\ WF_vars(HookSteps(p))
    /\ \A p \in Pods : WF_vars(ClearWrites(p))
    /\ \A c \in Calls : WF_vars(RunSteps(c))
    /\ WF_vars(\E p \in Pods : \E m \in mail : Deliver(p, m))
    /\ WF_vars(Expire)

FairSpec == Spec /\ Fairness

----------------------------------------------------------------------------
(* Correctness.                                                            *)

PodRecords ==
    [pending : BOOLEAN, timer : BOOLEAN, leaving : BOOLEAN, stopped : BOOLEAN,
     asking : SUBSET Items,
     attempt : [at : {"none", "ready", "over", "waits", "free", "accepted", "refused"},
                call : Calls \cup {0}, knew : SUBSET (Calls \cup {0})],
     hook : Failures, ending : {"none", "success", "skipped", "failed", "refused"},
     clearing : Failures]

\* Every variable has the shape its code has.
TypeOK ==
    /\ HoldTypeOK
    /\ store \in [Items -> {"open", "submitted", "actioned"}]
    /\ view \in [Pods -> SUBSET Items]
    /\ run \in [Calls -> {"unasked", "running", "over"}]
    /\ scope \in [Calls -> SUBSET Items]
    /\ mail \in SUBSET Failures
    /\ pod \in [Pods -> PodRecords]
    /\ page \in Failures
    /\ expired \in BOOLEAN /\ trouble \in BOOLEAN
    /\ taken \in [Pods -> SUBSET (Calls \cup {0})] /\ missed \in SUBSET Items /\ deaths \in Nat

\* A start pending is under way or waits on its timer: one that nothing carries
\* would cover every later submit and start nothing.
PendingIsCarried ==
    \A p \in Pods :
        pod[p].pending /\ ~pod[p].leaving => pod[p].attempt # NoAttempt \/ pod[p].timer

\* The API "starts no other while that hold is live" (docs/design.md, FR-27).
\* The code does not keep it between two pods: an attempt reads the file with no
\* turn taken, and asks for its run some steps later.
StartsNoneWhileHeld ==
    [][\A p \in Pods : AttemptAsks(p) => ~Live]_vars

\* A pod asks for a run beside a live hold only where another pod took that hold
\* after it read the file: a hold it saw, or one that any pod had taken by then,
\* neither stops it from trying again nor comes to life after it was released or
\* expired.  With one pod this is FR-27's "no other while that hold is live".
OverlapIsUnseen ==
    [][\A p \in Pods :
         AttemptAsks(p) /\ Live => file.held.run \notin pod[p].attempt.knew \cup taken[p]]_vars

\* What a submit asks for comes about, though a start is pending for its minute or
\* its five: its item is actioned unless the run or its start goes wrong, or the
\* start that covers it had looked for items already and was about to settle.
SubmitIsActioned ==
    \A i \in Items :
        (store[i] = "submitted") ~> (store[i] = "actioned" \/ trouble \/ i \in missed)
=============================================================================
