---------------------------- MODULE TaskService -----------------------------
(***************************************************************************)
(* The task service, backend/app/services/task_service.py, and the graceful*)
(* shutdown that waits for it, backend/app/utils/lifecycle_coordinator.py. *)
(*                                                                         *)
(* A task is registered, run by a pool of threads, cancelled and removed by*)
(* requests, and told of over SSE; a signal's thread announces the         *)
(* shutdown, waits for the active tasks, closes the pool and clears the    *)
(* registry.  A section under the service's lock is one step.  What a task *)
(* does is left out, and so is its age: the cleanup thread removes an ended*)
(* task at any time, as a request does.                                    *)
(***************************************************************************)
EXTENDS Naturals, Sequences, FiniteSets

CONSTANTS
    Tasks,          \* the tasks callers start, each once
    MaxWorkers,     \* TaskService.max_workers
    Signals         \* the SIGTERM and SIGINT the process gets

ASSUME WorkersAssumption == MaxWorkers \in Nat \ {0}

VARIABLES
    status,         \* TaskService._tasks: each task's status, "none" for a
                    \* task it does not hold
    thread,         \* how far each task's start and its thread are
    asked,          \* the tasks whose cancellation was requested
    events,         \* the events sent of each task
    announced,      \* LifecycleCoordinator._shutting_down, and the service's
    allDone,        \* TaskService._tasks_complete_event
    closed,         \* the pool takes no task any more
    signal,         \* how far each signal's thread is
    answer,         \* what the service's waiter told the coordinator
    counted         \* history: the tasks active as the shutdown was announced

taskVars == <<status, thread, asked, events>>
stopVars == <<announced, closed, signal, answer, counted>>
vars == <<taskVars, allDone, stopVars>>

Ended == {"completed", "failed", "cancelled"}
Active == {t \in Tasks : status[t] \in {"pending", "running"}}
Busy == {t \in Tasks : thread[t] \in {"working", "failing"}}

Init ==
    /\ status = [t \in Tasks |-> "none"]
    /\ thread = [t \in Tasks |-> "new"]
    /\ asked = {}
    /\ events = [t \in Tasks |-> << >>]
    /\ announced = FALSE
    /\ allDone = FALSE
    /\ closed = FALSE
    /\ signal = [s \in Signals |-> "none"]
    /\ answer = "none"
    /\ counted = {}

----------------------------------------------------------------------------
(* Requests.                                                               *)

\* TaskService.start_task looks at the flag without the lock, ...
StartChecks(t) ==
    /\ thread[t] = "new"
    /\ thread' = [thread EXCEPT ![t] = IF announced THEN "refused" ELSE "checked"]
    /\ UNCHANGED <<status, asked, events, allDone, stopVars>>

\* ... and registers the task under it.  A pool that is closed by then raises,
\* with the task in the registry.
StartRegisters(t) ==
    /\ thread[t] = "checked"
    /\ status' = [status EXCEPT ![t] = "pending"]
    /\ thread' = [thread EXCEPT ![t] = IF closed THEN "refused" ELSE "queued"]
    /\ UNCHANGED <<asked, events, allDone, stopVars>>

\* TaskService.cancel_task.
Cancel(t) ==
    /\ t \in Active
    /\ status' = [status EXCEPT ![t] = "cancelled"]
    /\ asked' = asked \cup {t}
    /\ UNCHANGED <<thread, events, allDone, stopVars>>

\* _cleanup_completed_tasks: those that have ended, its interval over at any time.
Removable == {t \in Tasks : status[t] \in Ended}

\* Mutant: a task is removed whatever its status.
RemoveAny(t) ==
    /\ status[t] # "none"
    /\ status' = [status EXCEPT ![t] = "none"]
    /\ UNCHANGED <<thread, asked, events, allDone, stopVars>>

\* TaskService.remove_completed_task, for a request or the cleanup thread,
\* which looks at the status again.
Remove(t) ==
    /\ t \in Removable
    /\ status' = [status EXCEPT ![t] = "none"]
    /\ UNCHANGED <<thread, asked, events, allDone, stopVars>>

----------------------------------------------------------------------------
(* A task's thread, TaskService._execute_task.                             *)

Told(t, event) == events' = [events EXCEPT ![t] = Append(@, event)]

\* Mutant: only the tasks that run count.
RunningAllDone(statuses) ==
    allDone' = (allDone \/ (announced /\ \A t \in Tasks : statuses[t] # "running"))

\* TaskService._check_tasks_complete, on the statuses a step leaves.
ChecksAllDone(statuses) ==
    allDone' = (allDone \/ (announced /\ \A t \in Tasks : statuses[t] \notin {"pending", "running"}))

\* The task's status becomes running, a cancelled one's as well.
Begin(t) ==
    /\ thread[t] = "queued"
    /\ Cardinality(Busy) < MaxWorkers
    /\ thread' = [thread EXCEPT ![t] = "working"]
    /\ status' = [status EXCEPT ![t] = IF @ = "none" THEN @ ELSE "running"]
    /\ Told(t, "started")
    /\ UNCHANGED <<asked, allDone, stopVars>>

\* The task returned, and was not cancelled or removed meanwhile.
Completes(t) ==
    /\ thread[t] = "working"
    /\ status[t] \notin {"none", "cancelled"}
    /\ thread' = [thread EXCEPT ![t] = "over"]
    /\ status' = [status EXCEPT ![t] = "completed"]
    /\ Told(t, "completed")
    /\ ChecksAllDone(status')
    /\ UNCHANGED <<asked, stopVars>>

\* The task returned after it was cancelled: nothing is told or checked.
EndsUnheard(t) ==
    /\ thread[t] = "working"
    /\ status[t] \in {"none", "cancelled"}
    /\ thread' = [thread EXCEPT ![t] = "over"]
    /\ UNCHANGED <<status, asked, events, allDone, stopVars>>

\* The task raised: its failure is recorded, a cancelled one's as well, ...
Fails(t) ==
    /\ thread[t] = "working"
    /\ thread' = [thread EXCEPT ![t] = "failing"]
    /\ status' = [status EXCEPT ![t] = IF @ = "none" THEN @ ELSE "failed"]
    /\ UNCHANGED <<asked, events, allDone, stopVars>>

\* ... and told of outside the lock.
FailureTold(t) ==
    /\ thread[t] = "failing"
    /\ thread' = [thread EXCEPT ![t] = "over"]
    /\ Told(t, "failed")
    /\ ChecksAllDone(status)
    /\ UNCHANGED <<status, asked, stopVars>>

----------------------------------------------------------------------------
(* The shutdown, LifecycleCoordinator.shutdown on a signal's thread.       *)

SignalComes(s) ==
    /\ signal[s] = "none"
    /\ signal' = [signal EXCEPT ![s] = "sent"]
    /\ UNCHANGED <<taskVars, allDone, announced, closed, answer, counted>>

\* The first thread raises PREPARE_SHUTDOWN, a later one finds the flag set.
Announce(s) ==
    /\ signal[s] = "sent"
    /\ IF announced
       THEN /\ signal' = [signal EXCEPT ![s] = "ignored"]
            /\ UNCHANGED <<announced, counted>>
       ELSE /\ signal' = [signal EXCEPT ![s] = "announced"]
            /\ announced' = TRUE
            /\ counted' = Active
    /\ UNCHANGED <<taskVars, allDone, closed, answer>>

Answers(s, told) ==
    /\ signal' = [signal EXCEPT ![s] = "answered"]
    /\ answer' = told
    /\ UNCHANGED <<taskVars, allDone, announced, closed, counted>>

\* TaskService._wait_for_tasks_completion: it counts under the lock, ...
FindsNone(s) ==
    /\ signal[s] = "announced"
    /\ Active = {}
    /\ Answers(s, "ready")

FindsSome(s) ==
    /\ signal[s] = "announced"
    /\ Active # {}
    /\ signal' = [signal EXCEPT ![s] = "waiting"]
    /\ UNCHANGED <<taskVars, allDone, announced, closed, answer, counted>>

\* ... and waits for the event without it, up to the time that remains.
Hears(s) == signal[s] = "waiting" /\ allDone /\ Answers(s, "ready")
TimesOut(s) == signal[s] = "waiting" /\ Answers(s, "late")

\* Mutant: a wait that timed out does not force the shutdown.
ClosesWhenReady(s) ==
    /\ signal[s] = "answered"
    /\ answer = "ready"
    /\ signal' = [signal EXCEPT ![s] = "closing"]
    /\ closed' = TRUE
    /\ UNCHANGED <<taskVars, allDone, announced, answer, counted>>

\* SHUTDOWN, ready or late: TaskService.shutdown closes the pool, ...
Closes(s) ==
    /\ signal[s] = "answered"
    /\ signal' = [signal EXCEPT ![s] = "closing"]
    /\ closed' = TRUE
    /\ UNCHANGED <<taskVars, allDone, announced, answer, counted>>

\* ... waits for its queue and threads, however long, and clears the registry;
\* AFTER_SHUTDOWN then lets the process end.
Clears(s) ==
    /\ signal[s] = "closing"
    /\ Busy = {} /\ \A t \in Tasks : thread[t] # "queued"
    /\ signal' = [signal EXCEPT ![s] = "down"]
    /\ status' = [t \in Tasks |-> "none"]
    /\ UNCHANGED <<thread, asked, events, allDone, announced, closed, answer, counted>>

----------------------------------------------------------------------------
Waits(s) == FindsNone(s) \/ FindsSome(s) \/ Hears(s) \/ TimesOut(s)
Works(t) == Completes(t) \/ EndsUnheard(t) \/ Fails(t) \/ FailureTold(t)

Next ==
    \/ \E t \in Tasks :
        StartChecks(t) \/ StartRegisters(t) \/ Cancel(t) \/ Remove(t) \/ Begin(t) \/ Works(t)
    \/ \E s \in Signals :
        SignalComes(s) \/ Announce(s) \/ Waits(s) \/ Closes(s) \/ Clears(s)

Spec == Init /\ [][Next]_vars

\* The pool takes its queue and a task's thread runs on, a task released at
\* the announcement as the inbox's follows are; a signal's thread runs on.
\* Nothing obliges requests or signals.
Fairness ==
    /\ \A t \in Tasks : WF_vars(StartRegisters(t)) /\ WF_vars(Begin(t)) /\ WF_vars(Works(t))
    /\ \A s \in Signals :
        WF_vars(Announce(s)) /\ WF_vars(Waits(s)) /\ WF_vars(Closes(s)) /\ WF_vars(Clears(s))

FairSpec == Spec /\ Fairness

----------------------------------------------------------------------------
ShuttingDown == {s \in Signals : signal[s] \notin {"none", "sent", "ignored"}}

\* Every variable has its type, and one thread at most runs the shutdown.
TypeOK ==
    /\ status \in [Tasks -> {"none", "pending", "running"} \cup Ended]
    /\ thread \in [Tasks ->
            {"new", "checked", "refused", "queued", "working", "failing", "over"}]
    /\ asked \subseteq Tasks
    /\ events \in [Tasks -> Seq({"started", "completed", "failed"})]
    /\ announced \in BOOLEAN /\ allDone \in BOOLEAN /\ closed \in BOOLEAN
    /\ signal \in [Signals ->
            {"none", "sent", "ignored", "announced", "waiting", "answered", "closing", "down"}]
    /\ answer \in {"none", "ready", "late"}
    /\ counted \subseteq Tasks
    /\ \A s, u \in ShuttingDown : s = u

\* The waiter that reports all tasks complete has waited for every task active
\* at the announcement that no one cancelled, whatever was started, cancelled
\* or removed meanwhile (_wait_for_tasks_completion).
ReadyMeansDone ==
    answer = "ready" =>
        \A t \in counted : t \in asked \/ thread[t] \in {"failing", "over"}

\* No task is at work or can come to be once the shutdown is through, a late
\* start's or a timed-out wait's: what SHUTDOWN stops after the task service,
\* the store above all, is used by no task (TaskService.shutdown).
NothingRunsAfter ==
    (\E s \in Signals : signal[s] = "down") =>
        \A t \in Tasks : thread[t] \notin {"queued", "working", "failing"}

\* No task ends in silence: the page that waits for one no one cancelled has
\* its start and then its one end, though requests and the cleanup remove
\* tasks and the shutdown clears them (_execute_task).
EveryTaskTells ==
    \A t \in Tasks \ asked :
        thread[t] = "over" =>
            events[t] \in {<<"started", "completed">>, <<"started", "failed">>}

\* A signal's shutdown comes to its end, whoever cancels the last task or
\* starts one late: the wait that hears nothing is cut short by its timeout
\* (LifecycleCoordinator.shutdown).
ShutdownEnds ==
    \A s \in Signals : signal[s] = "sent" ~> signal[s] \in {"ignored", "down"}
=============================================================================
