----------------------------- MODULE StoreQueue -----------------------------
(***************************************************************************)
(* The store checkout and its write queue: backend/app/fieldnotes/store.py.*)
(*                                                                         *)
(* Every pod has a checkout of the store repository and one worker thread  *)
(* that runs its queue's jobs one at a time.  The pods and the skills'     *)
(* sessions share the remote as git writers do: a push on a stale head is  *)
(* rejected.  A commit is its write, a history a sequence of commits, and  *)
(* the files of a commit the effects of the commits up to it.              *)
(***************************************************************************)
EXTENDS Naturals, Sequences, SequencesExt

CONSTANTS
    Pods,           \* the API's pods: two while a rollout overlaps them
    Writes,         \* the writes callers ask for
    Foreign,        \* the commits skills push past the API
    Effect,         \* what a commit makes of the files; equal effects: the
                    \* second edit finds nothing to change
    Listeners,      \* the listeners, in the order they hear a move
    Fallible,       \* those that can fail: the observation index, for want
                    \* of the models pod
    Root,           \* `main` at the beginning, << >> for an empty remote
    PushAttempts,   \* PUSH_ATTEMPTS
    QueueBound,     \* bound: jobs waiting in one queue
    MaxFaults,      \* bound: git commands and listeners that fail
    MaxDeaths       \* bound: pods' deaths

Commits == Writes \cup Foreign
Jobs == Writes \cup {"pull", "stop"}
Order == 1..Len(Listeners)
ListenerSet == Range(Listeners)

ASSUME RootAssumption == Root \in Seq(Foreign)
ASSUME ListenersAssumption ==
    Listeners \in Seq(STRING) /\ Fallible \subseteq Range(Listeners)
ASSUME CommitsAssumption ==
    /\ Writes \cap Foreign = {}
    /\ Writes \cap {"pull", "stop", "start", "timed"} = {}
ASSUME PushAttemptsAssumption == PushAttempts \in Nat \ {0}
ASSUME BoundsAssumption == {QueueBound, MaxFaults, MaxDeaths} \subseteq Nat

VARIABLES
    remote,     \* the remote's `main`
    call,       \* each write's call as its caller sees it
    queue,      \* each pod's jobs waiting
    worker,     \* each pod's worker thread: where it is (at), the job in
                \* hand, how often its write started over (tries), the commit
                \* it brings the listeners to (head), the listener to hear it
                \* next (hearing), and whether its write is pushed (landed)
    checkout,   \* the history each pod's files hold, pushed or not
    seen,       \* Store._seen: the commit each listener last took in
    index,      \* what each listener answers reads from
    acked,      \* the writes a pod answered "ok" since it started
    adrift,     \* the pushes sent whose end their pod did not hear: the write,
                \* the head each was made on, the history it would leave
    faults,     \* failures spent
    deaths      \* deaths spent

listenerVars == <<seen, index>>
callVars == <<call, acked>>
bounds == <<faults, deaths>>
vars == <<remote, callVars, queue, worker, checkout, listenerVars, adrift, bounds>>

----------------------------------------------------------------------------
Attempt(at, job, tries) ==
    [at |-> at, job |-> job, tries |-> tries, head |-> << >>, hearing |-> 1, landed |-> FALSE]

Between(at, job) == Attempt(at, job, 0)

\* The worker turns to the listeners, to bring them to `head`.
Telling(w, head, landed) ==
    [at |-> "advance", job |-> w.job, tries |-> w.tries, head |-> head,
     hearing |-> 1, landed |-> landed]

Off == Between("off", "start")
Idle == Between("idle", "timed")
Unread == [l \in ListenerSet |-> << >>]
Empty == [l \in ListenerSet |-> {}]

\* Runtime.ready: the store takes jobs once its start is over, and a request
\* served while its pod shuts down queues its job all the same.
Ready(p) == worker[p].job # "start"

Holds(history, w) == \E c \in Range(history) : Effect[c] = Effect[w]

Fault == faults < MaxFaults /\ faults' = faults + 1 /\ UNCHANGED deaths

Init ==
    /\ remote = Root
    /\ call = [w \in Writes |-> "new"]
    /\ queue = [p \in Pods |-> << >>]
    /\ worker = [p \in Pods |-> Off]
    /\ checkout = [p \in Pods |-> << >>]
    /\ seen = [p \in Pods |-> Unread]
    /\ index = [p \in Pods |-> Empty]
    /\ acked = [p \in Pods |-> {}]
    /\ adrift = {}
    /\ faults = 0
    /\ deaths = 0

----------------------------------------------------------------------------
(* The callers, the skills and the pods' processes.                        *)

\* Store.write: the caller waits on the future, with no timeout.
Write(p, w) ==
    /\ call[w] = "new"
    /\ Ready(p)
    /\ Len(queue[p]) < QueueBound
    /\ call' = [call EXCEPT ![w] = "queued"]
    /\ queue' = [queue EXCEPT ![p] = Append(@, w)]
    /\ UNCHANGED <<remote, acked, worker, checkout, listenerVars, adrift, bounds>>

\* Store.pull, from a GitHub push delivery.  One waiting pull is enough: a
\* second would find what the first one found.
Pull(p) ==
    /\ Ready(p)
    /\ Len(queue[p]) < QueueBound
    /\ "pull" \notin Range(queue[p])
    /\ queue' = [queue EXCEPT ![p] = Append(@, "pull")]
    /\ UNCHANGED <<remote, callVars, worker, checkout, listenerVars, adrift, bounds>>

\* Store.stop: the shutdown queues the pill that ends the worker.
Stop(p) ==
    /\ Ready(p) /\ worker[p].at \notin {"drain", "exited"}
    /\ "stop" \notin Range(queue[p])
    /\ queue' = [queue EXCEPT ![p] = Append(@, "stop")]
    /\ UNCHANGED <<remote, callVars, worker, checkout, listenerVars, adrift, bounds>>

\* A skill's session pushes onto the tip it has.
Push(f) ==
    /\ f \notin Range(remote)
    /\ remote' = Append(remote, f)
    /\ UNCHANGED <<callVars, queue, worker, checkout, listenerVars, adrift, bounds>>

InHand(p) == (Range(queue[p]) \cup {worker[p].job}) \cap Writes

\* The push that a worker at "push" sends.
Sent(p) == [write |-> worker[p].job, base |-> worker[p].head, tip |-> checkout[p]]

\* The pod's process ends, at any point or after its stop: its queue and its
\* callers' connections go with it, its checkout stays on its volume, and the
\* remote may have the push it sent.
Die(p) ==
    /\ worker[p].at # "off"
    /\ deaths < MaxDeaths
    /\ deaths' = deaths + 1
    /\ call' = [w \in Writes |-> IF w \in InHand(p) THEN "lost" ELSE call[w]]
    /\ queue' = [queue EXCEPT ![p] = << >>]
    /\ worker' = [worker EXCEPT ![p] = Off]
    /\ acked' = [acked EXCEPT ![p] = {}]
    /\ seen' = [seen EXCEPT ![p] = Unread]
    /\ index' = [index EXCEPT ![p] = Empty]
    /\ \/ UNCHANGED adrift
       \/ worker[p].at = "push" /\ adrift' = adrift \cup {Sent(p)}
    /\ UNCHANGED <<remote, checkout, faults>>

----------------------------------------------------------------------------
(* The worker.                                                             *)

Goto(p, at) == worker' = [worker EXCEPT ![p].at = at]

\* The job in hand is over with its result, the caller's if it has one.  A
\* pod whose start fails exits, to be restarted.
Finish(p, result) ==
    LET job == worker[p].job IN
    /\ worker' = [worker EXCEPT ![p] = IF job = "start" /\ result = "failed" THEN Off ELSE Idle]
    /\ call' = IF job \in Writes THEN [call EXCEPT ![job] = result] ELSE call
    /\ acked' = IF job \in Writes /\ result = "ok"
                THEN [acked EXCEPT ![p] = @ \cup {job}] ELSE acked
    /\ UNCHANGED queue

\* Store.start: `_seen` begins empty, and the first sync is strict.
Start(p) ==
    /\ worker[p].at = "off"
    /\ Goto(p, "sync")
    /\ seen' = [seen EXCEPT ![p] = Unread]
    /\ index' = [index EXCEPT ![p] = Empty]
    /\ UNCHANGED <<remote, callVars, queue, checkout, adrift, bounds>>

\* Store._work takes the next job.
Take(p) ==
    /\ worker[p].at = "idle"
    /\ queue[p] # << >>
    /\ queue' = [queue EXCEPT ![p] = Tail(@)]
    /\ worker' = [worker EXCEPT ![p] =
         IF Head(queue[p]) = "stop" THEN Between("drain", "timed")
         ELSE Between("sync", Head(queue[p]))]
    /\ UNCHANGED <<remote, callVars, checkout, listenerVars, adrift, bounds>>

\* Mutant: the worker waits for a job with no timeout.
NoTimedPull(p) == FALSE

\* With no job for `pull_interval` the worker pulls on its own.
TimedPull(p) ==
    /\ worker[p].at = "idle"
    /\ queue[p] = << >>
    /\ Goto(p, "sync")
    /\ UNCHANGED <<remote, callVars, queue, checkout, listenerVars, adrift, bounds>>

\* Mutant: the worker fetches and does not reset.
SyncWithoutReset(p) ==
    /\ worker[p].at = "sync"
    /\ worker' = [worker EXCEPT ![p] = Telling(@, remote, FALSE)]
    /\ UNCHANGED <<remote, callVars, queue, checkout, listenerVars, adrift, bounds>>

\* Store._sync: fetch, and reset to the remote's head where it has one.  The
\* reset drops a commit, staged files and edits; `clean` drops only files git
\* does not track, so an empty remote leaves what an edit staged or committed.
Sync(p) ==
    /\ worker[p].at = "sync"
    /\ worker' = [worker EXCEPT ![p] = Telling(@, remote, FALSE)]
    /\ checkout' = [checkout EXCEPT ![p] = IF remote = << >> THEN @ ELSE remote]
    /\ UNCHANGED <<remote, callVars, queue, listenerVars, adrift, bounds>>

\* The fetch fails, or the reset: nothing changes and the job is over.
SyncFails(p) ==
    /\ worker[p].at = "sync"
    /\ Fault
    /\ Finish(p, "failed")
    /\ UNCHANGED <<remote, checkout, listenerVars, adrift>>

Hearing(p) == worker[p].at = "advance" /\ worker[p].hearing \in Order
Hearer(p) == Listeners[worker[p].hearing]
Changed(p, l) == Range(worker[p].head) \ Range(seen[p][l])

\* Store._advance: the next listener takes in what changed since its commit.
Hear(p) ==
    /\ Hearing(p)
    /\ seen' = [seen EXCEPT ![p][Hearer(p)] = worker[p].head]
    /\ index' = [index EXCEPT ![p][Hearer(p)] = @ \cup Changed(p, Hearer(p))]
    /\ worker' = [worker EXCEPT ![p].hearing = @ + 1]
    /\ UNCHANGED <<remote, callVars, queue, checkout, adrift, bounds>>

\* A listener fails and stays at its commit; the job goes on, but for a start.
HearFails(p) ==
    /\ Hearing(p)
    /\ Hearer(p) \in Fallible /\ Changed(p, Hearer(p)) # {}
    /\ Fault
    /\ IF worker[p].job = "start"
       THEN Finish(p, "failed")
       ELSE /\ worker' = [worker EXCEPT ![p].hearing = @ + 1]
            /\ UNCHANGED <<callVars, queue>>
    /\ UNCHANGED <<remote, checkout, listenerVars, adrift>>

\* `git diff`, or the `rev-parse` after a push, fails: outside the handler's
\* reach, so the job fails, a write already pushed included.
DiffFails(p) ==
    /\ Hearing(p)
    /\ \/ seen[p][Hearer(p)] # worker[p].head
       \/ worker[p].landed /\ worker[p].hearing = 1
    /\ Fault
    /\ Finish(p, "failed")
    /\ UNCHANGED <<remote, checkout, listenerVars, adrift>>

\* Every listener has heard: a write goes on to its edit, and after its push
\* is over, as a pull or the start is after its sync.
Heard(p) ==
    /\ worker[p].at = "advance" /\ ~Hearing(p)
    /\ IF worker[p].job \in Writes /\ ~worker[p].landed
       THEN Goto(p, "edit") /\ UNCHANGED <<callVars, queue>>
       ELSE Finish(p, "ok")
    /\ UNCHANGED <<remote, checkout, listenerVars, adrift, bounds>>

\* The edit finds its effect in the files and answers without a commit.
EditNothing(p) ==
    /\ worker[p].at = "edit"
    /\ Holds(checkout[p], worker[p].job)
    /\ Finish(p, "ok")
    /\ UNCHANGED <<remote, checkout, listenerVars, adrift, bounds>>

\* The edit refuses, an observation it names gone, having written nothing.
EditRefuses(p) ==
    /\ worker[p].at = "edit"
    /\ Finish(p, "failed")
    /\ UNCHANGED <<remote, checkout, listenerVars, adrift, bounds>>

\* The edit changes files, which the worker stages.
Edit(p) ==
    /\ worker[p].at = "edit"
    /\ ~Holds(checkout[p], worker[p].job)
    /\ checkout' = [checkout EXCEPT ![p] = Append(@, worker[p].job)]

EditCommit(p) ==
    /\ Edit(p)
    /\ Goto(p, "push")
    /\ UNCHANGED <<remote, callVars, queue, listenerVars, adrift, bounds>>

\* `git commit` fails with the edit staged.
CommitFails(p) ==
    /\ Edit(p)
    /\ Fault
    /\ Finish(p, "failed")
    /\ UNCHANGED <<remote, listenerVars, adrift>>

\* The remote takes a push made on its head.
Accepted(p) ==
    /\ worker[p].at = "push"
    /\ remote = worker[p].head
    /\ remote' = checkout[p]

\* Mutant: the write is answered and the listeners are left to the next pull.
PushAnswers(p) ==
    /\ Accepted(p)
    /\ Finish(p, "ok")
    /\ UNCHANGED <<checkout, listenerVars, adrift, bounds>>

\* The worker hears so, and the listeners follow to the commit pushed.
PushLands(p) ==
    /\ Accepted(p)
    /\ worker' = [worker EXCEPT ![p] = Telling(@, checkout[p], TRUE)]
    /\ UNCHANGED <<callVars, queue, checkout, listenerVars, adrift, bounds>>

\* The worker hears of no end: the connection drops, or the command runs out of
\* its time, which ends git here and not what the remote has of the push.
PushUnheard(p) ==
    /\ worker[p].at = "push"
    /\ Fault
    /\ adrift' = adrift \cup {Sent(p)}
    /\ Goto(p, "unheard")
    /\ UNCHANGED <<remote, callVars, queue, checkout, listenerVars>>

\* The remote takes such a push after all, made on its head, before the worker
\* gives up or any time after.
AdriftLands(u) ==
    /\ remote = u.base
    /\ remote' = u.tip
    /\ UNCHANGED <<callVars, queue, worker, checkout, listenerVars, adrift, bounds>>

PushGivesUp(p) ==
    /\ worker[p].at = "unheard"
    /\ Finish(p, "failed")
    /\ UNCHANGED <<remote, checkout, listenerVars, adrift, bounds>>

\* Mutant: a rejected push counts as one that landed.
PushRejectedUnnoticed(p) ==
    /\ worker[p].at = "push"
    /\ remote # worker[p].head
    /\ worker' = [worker EXCEPT ![p] = Telling(@, checkout[p], TRUE)]
    /\ UNCHANGED <<remote, callVars, queue, checkout, listenerVars, adrift, bounds>>

\* Another writer pushed in between: the write starts over on the new tip,
\* PUSH_ATTEMPTS times in all.
PushRejected(p) ==
    /\ worker[p].at = "push"
    /\ remote # worker[p].head
    /\ IF worker[p].tries + 1 < PushAttempts
       THEN /\ worker' = [worker EXCEPT ![p] = Attempt("sync", @.job, @.tries + 1)]
            /\ UNCHANGED <<callVars, queue>>
       ELSE Finish(p, "failed")
    /\ UNCHANGED <<remote, checkout, listenerVars, adrift, bounds>>

\* A hook's refusal, a credential, an unreachable remote: nothing lands.
PushFails(p) ==
    /\ worker[p].at = "push"
    /\ Fault
    /\ Finish(p, "failed")
    /\ UNCHANGED <<remote, checkout, listenerVars, adrift>>

\* Mutant: the worker ends at the pill, whatever is queued behind it.
ExitAtOnce(p) ==
    /\ worker[p].at = "drain"
    /\ Goto(p, "exited")
    /\ UNCHANGED <<remote, callVars, queue, checkout, listenerVars, adrift, bounds>>

\* Store._work fails the jobs queued behind the stop, and ends.
Drain(p) ==
    /\ worker[p].at = "drain"
    /\ IF queue[p] = << >>
       THEN Goto(p, "exited") /\ UNCHANGED <<call, queue>>
       ELSE /\ queue' = [queue EXCEPT ![p] = Tail(@)]
            /\ call' = IF Head(queue[p]) \in Writes
                       THEN [call EXCEPT ![Head(queue[p])] = "failed"] ELSE call
            /\ UNCHANGED worker
    /\ UNCHANGED <<remote, acked, checkout, listenerVars, adrift, bounds>>

----------------------------------------------------------------------------
\* What the worker does while git and the models pod answer.
Work(p) ==
    \/ Take(p) \/ TimedPull(p) \/ Sync(p) \/ Hear(p) \/ Heard(p)
    \/ EditNothing(p) \/ EditCommit(p) \/ PushLands(p) \/ PushRejected(p)
    \/ PushGivesUp(p) \/ Drain(p)

Trouble(p) ==
    \/ SyncFails(p) \/ HearFails(p) \/ DiffFails(p) \/ EditRefuses(p)
    \/ CommitFails(p) \/ PushUnheard(p) \/ PushFails(p)

Next ==
    \/ \E p \in Pods : Start(p) \/ Work(p) \/ Trouble(p) \/ Die(p) \/ Stop(p) \/ Pull(p)
    \/ \E p \in Pods, w \in Writes : Write(p, w)
    \/ \E f \in Foreign : Push(f)
    \/ \E u \in adrift : AdriftLands(u)

Spec == Init /\ [][Next]_vars

\* A worker's thread runs whenever it can, and a pod that exits is started
\* again.  Nothing obliges a caller, a skill, a failure or a shutdown.
Fairness == \A p \in Pods : WF_vars(Start(p)) /\ WF_vars(Work(p))
FairSpec == Spec /\ Fairness

----------------------------------------------------------------------------
(* Correctness.                                                            *)

Workers ==
    [at : {"off", "idle", "sync", "advance", "edit", "push", "unheard", "drain", "exited"},
     job : Writes \cup {"pull", "start", "timed"}, tries : Nat,
     head : Seq(Commits), hearing : Nat \ {0}, landed : BOOLEAN]

\* Every variable has the shape its code has.
TypeOK ==
    /\ remote \in Seq(Commits)
    /\ call \in [Writes -> {"new", "queued", "ok", "failed", "lost"}]
    /\ queue \in [Pods -> Seq(Jobs)]
    /\ worker \in [Pods -> Workers]
    /\ checkout \in [Pods -> Seq(Commits)]
    /\ seen \in [Pods -> [ListenerSet -> Seq(Commits)]]
    /\ index \in [Pods -> [ListenerSet -> SUBSET Commits]]
    /\ acked \in [Pods -> SUBSET Writes]
    /\ adrift \subseteq [write : Jobs \cup {"start", "timed"}, base : Seq(Commits),
                         tip : Seq(Commits)]
    /\ faults \in Nat /\ deaths \in Nat

\* The queue keeps what StoreLog says, whatever fails and whoever else pushes: a
\* write lands once, and after its answer only where its push was adrift; "ok" is
\* said only of an edit whose effect is on `main`, and `main` only grows.
Log == INSTANCE StoreLog WITH log <- remote, adrift <- {u.write : u \in adrift}
Promise == Log!Spec

\* What the docstring says of a failed write: "a write the caller saw fail never
\* lands later" (store.py, and docs/rest-api.md of `store-unreachable`: "nothing
\* was written").  The code does not keep it: a push that is adrift may land.
FailedNeverLands ==
    [][\A w \in Writes :
         w \in Range(remote') /\ w \notin Range(remote) => call[w] # "failed"]_vars

\* What a listener has seen is on `main`: an index never answers from a write
\* that was not pushed (Store.seen: a client asks whether its push is scored).
SeenIsOnRemote == \A p \in Pods, l \in ListenerSet : IsPrefix(seen[p][l], remote)

\* Store.seen's promise: every read a listener answers reflects at least the
\* commit it reports, though it failed on the way there.
SeenIsTakenIn == \A p \in Pods, l \in ListenerSet : Range(seen[p][l]) \subseteq index[p][l]

\* A pod that answered a write reads its own write: the actioner's start, off
\* the request, finds the submit in the triage index.  Only a listener that
\* can fail may trail.
AckedIsRead ==
    \A p \in Pods : \A w \in acked[p] : \A l \in ListenerSet \ Fallible :
        \E c \in index[p][l] : Effect[c] = Effect[w]

\* No caller waits for good: a write taken into the queue before the worker
\* ended is answered, by the shutdown's drain if by nothing else.
EveryWriteIsAnswered ==
    \A p \in Pods, w \in Writes :
        (w \in Range(queue[p]) /\ worker[p].at # "exited") ~> (call[w] # "queued")

\* Once the failures are over, the timed pull brings every listener of a pod
\* that stays up to the tip, the one that failed included.
Converges ==
    \A p \in Pods :
        []<>(\/ worker[p].at \in {"off", "drain", "exited"}
            \/ \A l \in ListenerSet : seen[p][l] = remote)
=============================================================================
