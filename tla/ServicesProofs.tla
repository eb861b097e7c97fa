--------------------------- MODULE ServicesProofs ---------------------------
(***************************************************************************)
(* Proofs about the services of the runtime: TaskService, for any tasks,   *)
(* workers and signals; Readiness, for any checks, probes, registrations   *)
(* and runs; RoleMap, for any roles and settings; LoginFlow, for any       *)
(* requests, logins and steps; and SuiteRunner.                            *)
(***************************************************************************)
EXTENDS TaskService, Readiness, RoleMap, LoginFlow, SuiteRunner, SequenceTheorems, TLAPS

Before == {"new", "checked", "refused"}
Live == {"queued", "working", "failing"}

\* The flags follow the shutdown's thread, and nothing is held up to report
\* before it is announced.
StopInv ==
    /\ ShuttingDown # {} => announced
    /\ \A s \in Signals : signal[s] \in {"closing", "down"} => closed
    /\ closed => announced
    /\ ~announced => ~allDone /\ answer = "none"

\* Until someone cancels it, a task's status follows its thread.
WorkInv ==
    /\ \A t \in Tasks : thread[t] \in {"new", "checked"} => status[t] = "none"
    /\ \A t \in Tasks : thread[t] = "refused" => status[t] = "none" \/ closed
    /\ \A t \in Tasks \ asked :
        /\ thread[t] = "queued" => status[t] = "pending"
        /\ thread[t] = "working" => status[t] = "running"

Inv == TypeOK /\ StopInv /\ WorkInv

----------------------------------------------------------------------------
LEMMA InitInv == Init => Inv
<1> SUFFICES ASSUME Init PROVE Inv
  OBVIOUS
<1>1. ShuttingDown = {}
  BY DEF Init, ShuttingDown
<1>2. events \in [Tasks -> Seq({"started", "completed", "failed"})]
  BY DEF Init
<1>3. TypeOK
  BY <1>1, <1>2 DEF Init, TypeOK, Ended
<1> QED
  BY <1>1, <1>3 DEF Inv, Init, StopInv, WorkInv

\* Every step keeps the types, and lets one thread run the shutdown.
LEMMA NextType == Inv /\ [Next]_vars => TypeOK'
<1> SUFFICES ASSUME Inv, [Next]_vars PROVE TypeOK'
  OBVIOUS
<1> USE DEF Inv, TypeOK, Ended, ShuttingDown
<1>1. ASSUME NEW t \in Tasks,
             StartChecks(t) \/ StartRegisters(t) \/ Cancel(t) \/ Remove(t) \/ Begin(t) \/ Works(t)
      PROVE TypeOK'
  <2>1. CASE StartChecks(t)
    BY <2>1 DEF StartChecks, stopVars
  <2>2. CASE StartRegisters(t)
    BY <2>2 DEF StartRegisters, stopVars
  <2>3. CASE Cancel(t)
    BY <2>3 DEF Cancel, stopVars
  <2>4. CASE Remove(t)
    BY <2>4 DEF Remove, Removable, stopVars
  <2>5. CASE Begin(t)
    BY <2>5 DEF Begin, Told, stopVars
  <2>6. CASE Completes(t)
    BY <2>6 DEF Completes, Told, ChecksAllDone, stopVars
  <2>7. CASE EndsUnheard(t)
    BY <2>7 DEF EndsUnheard, stopVars
  <2>8. CASE Fails(t)
    BY <2>8 DEF Fails, stopVars
  <2>9. CASE FailureTold(t)
    BY <2>9 DEF FailureTold, Told, ChecksAllDone, stopVars
  <2> QED
    BY <1>1, <2>1, <2>2, <2>3, <2>4, <2>5, <2>6, <2>7, <2>8, <2>9 DEF Works
<1>2. ASSUME NEW s \in Signals,
             SignalComes(s) \/ Announce(s) \/ Waits(s) \/ Closes(s) \/ Clears(s)
      PROVE TypeOK'
  <2>1. CASE SignalComes(s)
    BY <2>1 DEF SignalComes, taskVars
  <2>2. CASE Announce(s)
    <3>1. CASE announced
      <4>1. /\ signal[s] = "sent" /\ signal' = [signal EXCEPT ![s] = "ignored"]
            /\ UNCHANGED <<status, thread, asked, events, announced, counted, allDone, closed,
                           answer>>
        BY <2>2, <3>1 DEF Announce, taskVars
      <4>2. \A u \in Signals : u \in ShuttingDown' => u \in ShuttingDown
        BY <4>1 DEF ShuttingDown, TypeOK
      <4> QED
        BY <4>1, <4>2 DEF TypeOK, ShuttingDown
    <3>2. CASE ~announced
      <4>1. /\ signal' = [signal EXCEPT ![s] = "announced"]
            /\ announced' = TRUE
            /\ counted' = Active
            /\ UNCHANGED <<status, thread, asked, events, allDone, closed, answer>>
        BY <2>2, <3>2 DEF Announce, taskVars
      <4>2. ShuttingDown = {}
        BY <3>2 DEF StopInv
      <4>3. \A u \in ShuttingDown' : u = s
        BY <4>1, <4>2
      <4> QED
        BY <4>1, <4>3 DEF Active
    <3> QED
      BY <3>1, <3>2
  <2>3. CASE FindsNone(s)
    BY <2>3 DEF FindsNone, Answers, taskVars
  <2>4. CASE FindsSome(s)
    BY <2>4 DEF FindsSome, taskVars
  <2>5. CASE Hears(s)
    BY <2>5 DEF Hears, Answers, taskVars
  <2>6. CASE TimesOut(s)
    BY <2>6 DEF TimesOut, Answers, taskVars
  <2>7. CASE Closes(s)
    BY <2>7 DEF Closes, taskVars
  <2>8. CASE Clears(s)
    BY <2>8 DEF Clears
  <2> QED
    BY <1>2, <2>1, <2>2, <2>3, <2>4, <2>5, <2>6, <2>7, <2>8 DEF Waits
<1>3. CASE UNCHANGED vars
  BY <1>3 DEF vars, taskVars, stopVars
<1> QED
  BY <1>1, <1>2, <1>3 DEF Next

LEMMA NextStopWork == Inv /\ [Next]_vars => (StopInv /\ WorkInv)'
<1> SUFFICES ASSUME Inv, [Next]_vars PROVE (StopInv /\ WorkInv)'
  OBVIOUS
<1> USE DEF Inv, TypeOK, StopInv, WorkInv, Ended, ShuttingDown
<1>1. ASSUME NEW t \in Tasks,
             StartChecks(t) \/ StartRegisters(t) \/ Cancel(t) \/ Remove(t) \/ Begin(t) \/ Works(t)
      PROVE (StopInv /\ WorkInv)'
  <2>1. CASE StartChecks(t)
    BY <2>1 DEF StartChecks, stopVars
  <2>2. CASE StartRegisters(t)
    BY <2>2 DEF StartRegisters, stopVars
  <2>3. CASE Cancel(t)
    BY <2>3 DEF Cancel, Active, stopVars
  <2>4. CASE Remove(t)
    BY <2>4 DEF Remove, Removable, stopVars
  <2>5. CASE Begin(t)
    BY <2>5 DEF Begin, stopVars
  <2>6. CASE Completes(t)
    BY <2>6 DEF Completes, ChecksAllDone, stopVars
  <2>7. CASE EndsUnheard(t)
    BY <2>7 DEF EndsUnheard, stopVars
  <2>8. CASE Fails(t)
    BY <2>8 DEF Fails, stopVars
  <2>9. CASE FailureTold(t)
    BY <2>9 DEF FailureTold, ChecksAllDone, stopVars
  <2> QED
    BY <1>1, <2>1, <2>2, <2>3, <2>4, <2>5, <2>6, <2>7, <2>8, <2>9 DEF Works
<1>2. ASSUME NEW s \in Signals,
             SignalComes(s) \/ Announce(s) \/ Waits(s) \/ Closes(s) \/ Clears(s)
      PROVE (StopInv /\ WorkInv)'
  <2>1. CASE SignalComes(s)
    BY <2>1 DEF SignalComes, taskVars
  <2>2. CASE Announce(s)
    BY <2>2 DEF Announce, taskVars
  <2>3. CASE FindsNone(s)
    BY <2>3 DEF FindsNone, Answers, taskVars
  <2>4. CASE FindsSome(s)
    BY <2>4 DEF FindsSome, taskVars
  <2>5. CASE Hears(s)
    BY <2>5 DEF Hears, Answers, taskVars
  <2>6. CASE TimesOut(s)
    BY <2>6 DEF TimesOut, Answers, taskVars
  <2>7. CASE Closes(s)
    BY <2>7 DEF Closes, taskVars
  <2>8. CASE Clears(s)
    BY <2>8 DEF Clears, Busy
  <2> QED
    BY <1>2, <2>1, <2>2, <2>3, <2>4, <2>5, <2>6, <2>7, <2>8 DEF Waits
<1>3. CASE UNCHANGED vars
  BY <1>3 DEF vars, taskVars, stopVars
<1> QED
  BY <1>1, <1>2, <1>3 DEF Next

LEMMA Invariant == Spec => []Inv
<1>1. Inv /\ [Next]_vars => Inv'
  BY NextType, NextStopWork DEF Inv
<1> QED
  BY InitInv, <1>1, PTL DEF Spec

\* Every variable keeps its type, and one thread at most runs the shutdown.
THEOREM TypeCorrect == Spec => []TypeOK
<1>1. Inv => TypeOK
  BY DEF Inv
<1> QED
  BY Invariant, <1>1, PTL

----------------------------------------------------------------------------
\* What the waiter relies on: a task counted at the announcement had its
\* thread, and the event is set once each has ended or was cancelled.
ReadyInv ==
    /\ \A t \in counted : thread[t] \notin Before
    /\ allDone \/ answer = "ready" =>
        \A t \in counted : t \in asked \/ thread[t] \in {"failing", "over"}

\* No task active and none cancelled leaves none of the counted at work.
LEMMA NoneActive ==
    ASSUME Inv, ReadyInv, Active = {}
    PROVE  \A t \in counted : t \in asked \/ thread[t] \in {"failing", "over"}
<1> SUFFICES ASSUME NEW t \in counted, t \notin asked
             PROVE thread[t] \in {"failing", "over"}
  OBVIOUS
<1>1. t \in Tasks /\ thread[t] \notin Before
  BY DEF Inv, TypeOK, ReadyInv
<1>2. status[t] \notin {"pending", "running"}
  BY <1>1 DEF Active
<1>3. thread[t] \notin {"queued", "working"}
  BY <1>1, <1>2 DEF Inv, WorkInv
<1> QED
  BY <1>1, <1>3 DEF Inv, TypeOK, Before

LEMMA NextReady == Inv /\ ReadyInv /\ [Next]_vars => ReadyInv'
<1> SUFFICES ASSUME Inv, ReadyInv, [Next]_vars PROVE ReadyInv'
  OBVIOUS
<1>0. Inv'
  BY NextType, NextStopWork DEF Inv
<1>1. ASSUME NEW t \in Tasks,
             StartChecks(t) \/ StartRegisters(t) \/ Cancel(t) \/ Remove(t) \/ Begin(t) \/ Works(t)
      PROVE ReadyInv'
  <2>0. counted \subseteq Tasks /\ thread \in [Tasks -> Before \cup Live \cup {"over"}]
    BY DEF Inv, TypeOK, Before, Live
  <2>1. CASE StartChecks(t)
    BY <2>0, <2>1 DEF StartChecks, stopVars, ReadyInv, Before
  <2>2. CASE StartRegisters(t)
    BY <2>0, <2>2 DEF StartRegisters, stopVars, ReadyInv, Before
  <2>3. CASE Cancel(t)
    BY <2>3 DEF Cancel, stopVars, ReadyInv
  <2>4. CASE Remove(t)
    BY <2>4 DEF Remove, Removable, stopVars, ReadyInv
  <2>5. CASE Begin(t)
    BY <2>0, <2>5 DEF Begin, stopVars, ReadyInv, Before
  <2>6. ASSUME Completes(t) \/ FailureTold(t) PROVE ReadyInv'
    <3>1. /\ thread[t] \in {"working", "failing"}
          /\ thread' = [thread EXCEPT ![t] = "over"]
          /\ UNCHANGED <<asked, answer, counted>>
          /\ allDone' => allDone \/ \A u \in Tasks : status'[u] \notin {"pending", "running"}
      <4>1. CASE Completes(t)
        BY <4>1 DEF Completes, ChecksAllDone, stopVars
      <4>2. CASE FailureTold(t)
        BY <4>2 DEF FailureTold, ChecksAllDone, stopVars
      <4> QED
        BY <2>6, <4>1, <4>2
    <3>2. \A u \in counted : thread'[u] \notin Before
      BY <2>0, <3>1 DEF ReadyInv, Before
    <3>3. ASSUME NEW u \in counted, u \notin asked, allDone' \/ answer' = "ready"
          PROVE thread'[u] \in {"failing", "over"}
      <4>1. CASE allDone \/ answer = "ready"
        BY <2>0, <3>1, <3>3, <4>1 DEF ReadyInv
      <4>2. CASE status'[u] \notin {"pending", "running"}
        <5>1. u \in Tasks \ asked'
          BY <2>0, <3>1, <3>3
        <5>2. thread'[u] \notin {"queued", "working"}
          BY <1>0, <4>2, <5>1 DEF Inv, WorkInv
        <5> QED
          BY <1>0, <3>2, <5>1, <5>2 DEF Inv, TypeOK, Before
      <4> QED
        BY <2>0, <3>1, <3>3, <4>1, <4>2
    <3> QED
      BY <3>1, <3>2, <3>3 DEF ReadyInv
  <2>7. CASE EndsUnheard(t)
    BY <2>0, <2>7 DEF EndsUnheard, stopVars, ReadyInv, Before
  <2>8. CASE Fails(t)
    BY <2>0, <2>8 DEF Fails, stopVars, ReadyInv, Before
  <2> QED
    BY <1>1, <2>1, <2>2, <2>3, <2>4, <2>5, <2>6, <2>7, <2>8 DEF Works
<1>2. ASSUME NEW s \in Signals,
             SignalComes(s) \/ Announce(s) \/ Waits(s) \/ Closes(s) \/ Clears(s)
      PROVE ReadyInv'
  <2>1. CASE Announce(s)
    <3>1. CASE announced
      BY <2>1, <3>1 DEF Announce, taskVars, ReadyInv
    <3>2. CASE ~announced
      <4>1. ~closed /\ ~allDone /\ answer # "ready"
        BY <3>2 DEF Inv, StopInv
      <4>2. \A t \in Active : thread[t] \notin Before
        BY <4>1 DEF Inv, WorkInv, Active, Before
      <4> QED
        BY <2>1, <3>2, <4>1, <4>2 DEF Announce, taskVars, ReadyInv
    <3> QED
      BY <3>1, <3>2
  <2>2. CASE FindsNone(s)
    BY <2>2, NoneActive DEF FindsNone, Answers, taskVars, ReadyInv
  <2>3. CASE Hears(s)
    BY <2>3 DEF Hears, Answers, taskVars, ReadyInv
  <2>4. CASE TimesOut(s)
    BY <2>4 DEF TimesOut, Answers, taskVars, ReadyInv
  <2>5. CASE SignalComes(s) \/ FindsSome(s) \/ Closes(s) \/ Clears(s)
    BY <2>5 DEF SignalComes, FindsSome, Closes, Clears, taskVars, ReadyInv
  <2> QED
    BY <1>2, <2>1, <2>2, <2>3, <2>4, <2>5 DEF Waits
<1>3. CASE UNCHANGED vars
  BY <1>3 DEF vars, taskVars, stopVars, ReadyInv
<1> QED
  BY <1>1, <1>2, <1>3 DEF Next

\* The waiter's "all tasks complete" holds for every task that was active at
\* the announcement and was not cancelled.
THEOREM ReadyCorrect == Spec => []ReadyMeansDone
<1>1. Init => ReadyInv
  BY DEF Init, ReadyInv
<1>2. ReadyInv => ReadyMeansDone
  BY DEF ReadyInv, ReadyMeansDone
<1> QED
  BY Invariant, NextReady, <1>1, <1>2, PTL DEF Spec

----------------------------------------------------------------------------
\* A shutdown that is through found no task at work, and the closed pool
\* takes no other.
LEMMA NextNothing == Inv /\ NothingRunsAfter /\ [Next]_vars => NothingRunsAfter'
<1> SUFFICES ASSUME Inv, NothingRunsAfter, [Next]_vars,
                    NEW u \in Signals, signal'[u] = "down",
                    NEW v \in Tasks
             PROVE thread'[v] \notin Live
  BY DEF NothingRunsAfter, Live
<1> USE DEF Live
<1>0. signal \in [Signals -> {"none", "sent", "ignored", "announced", "waiting",
                                "answered", "closing", "down"}]
      /\ thread \in [Tasks -> Before \cup Live \cup {"over"}]
  BY DEF Inv, TypeOK, Before
<1>1. ASSUME NEW t \in Tasks,
             StartChecks(t) \/ StartRegisters(t) \/ Cancel(t) \/ Remove(t) \/ Begin(t) \/ Works(t)
      PROVE thread'[v] \notin Live
  <2>1. signal' = signal
    BY <1>1 DEF StartChecks, StartRegisters, Cancel, Remove, Removable, Begin, Works, Completes,
                EndsUnheard, Fails, FailureTold, stopVars
  <2>2. closed /\ \A w \in Tasks : thread[w] \notin Live
    BY <2>1 DEF Inv, StopInv, NothingRunsAfter
  <2>3. thread' = thread \/ thread' = [thread EXCEPT ![t] = "refused"]
        \/ thread' = [thread EXCEPT ![t] = "checked"]
    BY <1>1, <2>2 DEF StartChecks, StartRegisters, Cancel, Remove, Removable, Begin, Works, Completes,
                EndsUnheard, Fails, FailureTold
  <2> QED
    BY <1>0, <2>2, <2>3
<1>2. ASSUME NEW s \in Signals,
             SignalComes(s) \/ Announce(s) \/ Waits(s) \/ Closes(s) \/ Clears(s)
      PROVE thread'[v] \notin Live
  <2>1. CASE Clears(s)
    BY <1>0, <2>1 DEF Clears, Busy
  <2>2. CASE SignalComes(s) \/ Announce(s) \/ Waits(s) \/ Closes(s)
    <3>1. thread' = thread /\ signal[u] = "down"
      <4>1. thread' = thread
        BY <2>2 DEF SignalComes, Announce, Waits, FindsNone, FindsSome, Hears, TimesOut,
                    Answers, Closes, taskVars
      <4>2. \E x \in {"sent", "ignored", "announced", "waiting", "answered", "closing"} :
                signal' = [signal EXCEPT ![s] = x]
        BY <2>2 DEF SignalComes, Announce, Waits, FindsNone, FindsSome, Hears, TimesOut,
                    Answers, Closes
      <4> QED
        BY <1>0, <4>1, <4>2
    <3> QED
      BY <3>1 DEF NothingRunsAfter
  <2> QED
    BY <1>2, <2>1, <2>2
<1>3. CASE UNCHANGED vars
  BY <1>3 DEF vars, taskVars, stopVars, NothingRunsAfter
<1> QED
  BY <1>1, <1>2, <1>3 DEF Next

\* No task runs once the shutdown is through.
THEOREM StopCorrect == Spec => []NothingRunsAfter
<1>1. Init => NothingRunsAfter
  BY DEF Init, NothingRunsAfter
<1> QED
  BY Invariant, NextNothing, <1>1, PTL DEF Spec

----------------------------------------------------------------------------
\* What was told of a task follows its thread.
TellInv ==
    \A t \in Tasks :
        /\ thread[t] \in Before \cup {"queued"} => events[t] = << >>
        /\ thread[t] \in {"working", "failing"} => events[t] = <<"started">>
        /\ thread[t] = "over" /\ t \notin asked =>
            events[t] \in {<<"started", "completed">>, <<"started", "failed">>}

LEMMA AppendToOne ==
    ASSUME NEW a, NEW e
    PROVE  Append(<<a>>, e) = <<a, e>>
<1> DEFINE S == {a, e}
<1>1. <<a>> \in Seq(S) /\ <<a, e>> \in Seq(S) /\ e \in S
  OBVIOUS
<1>2. ASSUME NEW one \in Seq(S), one = <<a>>
      PROVE  Append(one, e) = <<a, e>>
  <2>1. Append(one, e) \in Seq(S) /\ Append(one, e)[Len(one) + 1] = e
    BY <1>1, AppendProperties
  <2>2. Len(Append(one, e)) = Len(one) + 1
    BY <1>1, AppendProperties
  <2>3. Append(one, e)[1] = a
    BY <1>2
  <2>4. Len(one) = 1
    BY <1>2
  <2>5. ASSUME NEW two \in Seq(S), two = <<a, e>>
        PROVE  Append(one, e) = two
    <3>1. Len(two) = 2 /\ two[1] = a /\ two[2] = e
      BY <2>5
    <3>2. \A i \in 1..Len(two) : two[i] = Append(one, e)[i]
      <4> HIDE DEF S
      <4>1. \A i \in 1..2 : i = 1 \/ i = 2
        OBVIOUS
      <4>2. Len(one) + 1 = 2
        BY <2>4
      <4>3. Append(one, e)[2] = e
        BY <2>1, <4>2
      <4> QED
        BY <2>3, <3>1, <4>1, <4>3
    <3> HIDE DEF S
    <3> QED
      BY <2>1, <2>2, <2>4, <3>1, <3>2, SeqEqual
  <2> QED
    BY <1>1, <2>5
<1> QED
  BY <1>1, <1>2

LEMMA NextTell == Inv /\ TellInv /\ [Next]_vars => TellInv'
<1> SUFFICES ASSUME Inv, TellInv, [Next]_vars PROVE TellInv'
  OBVIOUS
<1>0. /\ thread \in [Tasks -> Before \cup Live \cup {"over"}]
      /\ events \in [Tasks -> Seq({"started", "completed", "failed"})]
  BY DEF Inv, TypeOK, Before, Live
<1>1. ASSUME NEW t \in Tasks,
             StartChecks(t) \/ StartRegisters(t) \/ Cancel(t) \/ Remove(t) \/ Begin(t) \/ Works(t)
      PROVE TellInv'
  <2>1. CASE StartChecks(t)
    BY <1>0, <2>1 DEF StartChecks, TellInv, Before
  <2>2. CASE StartRegisters(t)
    BY <1>0, <2>2 DEF StartRegisters, TellInv, Before
  <2>3. CASE Cancel(t) \/ Remove(t)
    BY <2>3 DEF Cancel, Remove, Removable, TellInv
  <2>4. CASE Begin(t)
    <3>1. thread[t] = "queued" /\ events[t] = << >>
      BY <2>4 DEF Begin, TellInv
    <3>2. thread' = [thread EXCEPT ![t] = "working"] /\ asked' = asked
      BY <2>4 DEF Begin
    <3>3. events' = [events EXCEPT ![t] = <<"started">>]
      BY <2>4, <3>1 DEF Begin, Told
    <3> QED
      BY <1>0, <3>2, <3>3 DEF TellInv, Before
  <2>5. ASSUME NEW e \in {"completed", "failed"}, Told(t, e), asked' = asked,
               thread[t] \in {"working", "failing"}, thread' = [thread EXCEPT ![t] = "over"]
        PROVE TellInv'
    <3>1. events' = [events EXCEPT ![t] = <<"started", e>>]
      <4>1. events[t] = <<"started">>
        BY <2>5 DEF TellInv
      <4> QED
        BY <2>5, <4>1, AppendToOne DEF Told
    <3> QED
      BY <1>0, <2>5, <3>1 DEF TellInv, Before
  <2>6. CASE Completes(t)
    BY <2>5, <2>6 DEF Completes
  <2>7. CASE FailureTold(t)
    BY <2>5, <2>7 DEF FailureTold
  <2>8. CASE EndsUnheard(t)
    <3>1. t \in asked
      BY <2>8 DEF EndsUnheard, Inv, WorkInv
    <3> QED
      BY <1>0, <2>8, <3>1 DEF EndsUnheard, TellInv, Before
  <2>9. CASE Fails(t)
    BY <1>0, <2>9 DEF Fails, TellInv, Before
  <2> QED
    BY <1>1, <2>1, <2>2, <2>3, <2>4, <2>6, <2>7, <2>8, <2>9 DEF Works
<1>2. ASSUME NEW s \in Signals,
             SignalComes(s) \/ Announce(s) \/ Waits(s) \/ Closes(s) \/ Clears(s)
      PROVE TellInv'
  BY <1>2 DEF SignalComes, Announce, Waits, FindsNone, FindsSome, Hears, TimesOut, Answers,
              Closes, Clears, taskVars, TellInv
<1>3. CASE UNCHANGED vars
  BY <1>3 DEF vars, taskVars, TellInv
<1> QED
  BY <1>1, <1>2, <1>3 DEF Next

\* Every task no one cancelled is told of to its end.
THEOREM TellCorrect == Spec => []EveryTaskTells
<1>1. Init => TellInv
  BY DEF Init, TellInv, Before
<1>2. TellInv => EveryTaskTells
  BY DEF TellInv, EveryTaskTells
<1> QED
  BY Invariant, NextTell, <1>1, <1>2, PTL DEF Spec

----------------------------------------------------------------------------
(***************************************************************************)
(* The readiness probe.                                                    *)
(***************************************************************************)

AtWork(n, r) == run[n][r].at \in {"runs", "returned"}

\* The run a registration is known to have is its only one at work, and the rest are of
\* registrations before it.
RunningInv ==
    \A n \in Names :
        /\ running[n] # 0 =>
            /\ running[n] \in DOMAIN run[n] /\ AtWork(n, running[n])
            /\ run[n][running[n]].of = version[n]
        /\ \A r \in DOMAIN run[n] :
            /\ run[n][r].of <= version[n]
            /\ AtWork(n, r) /\ run[n][r].of = version[n] => running[n] = r
            /\ run[n][r].at # "runs" => run[n][r].result # "none"

\* What is kept is a pass of the check registered, from the end of its run on.
CacheInv ==
    \A n \in Names : cache[n].run # 0 =>
        /\ cache[n].run \in DOMAIN run[n] /\ ~AtWork(n, cache[n].run)
        /\ run[n][cache[n].run].of = version[n] /\ run[n][cache[n].run].result = "ok"
        /\ cache[n].until = run[n][cache[n].run].ended + TTL

\* What a request was given is a run of the check it looked for, and one over only if kept.
OutcomeInv ==
    \A p \in Probes : \A n \in Names :
        LET o == probe[p].outcome[n] IN
        /\ o.run = 0 => o.result = "none"
        /\ o.run # 0 => o.run \in DOMAIN run[n] /\ run[n][o.run].of = o.of
        /\ o.over => o.result = "ok" /\ o.age < TTL

ReadinessInv == ReadinessTypeOK /\ RunningInv /\ CacheInv /\ OutcomeInv /\ OneRunOfACheck

----------------------------------------------------------------------------
LEMMA ReadinessInitInv == ReadinessInit => ReadinessInv
<1> SUFFICES ASSUME ReadinessInit PROVE ReadinessInv
  OBVIOUS
<1>1. ReadinessTypeOK
  <2>1. Nothing \in [run : Nat, until : Nat] /\ Unlooked \in Outcomes
    BY DEF Nothing, Unlooked, Outcomes
  <2>2. Idle \in [at : {"idle"}, outcome : [Names -> Outcomes]]
    BY <2>1 DEF Idle
  <2>3. << >> \in Seq(RunShapes)
    OBVIOUS
  <2> QED
    BY <2>1, <2>2, <2>3 DEF ReadinessInit, ReadinessTypeOK
<1>2. RunningInv /\ CacheInv /\ OneRunOfACheck
  BY DEF ReadinessInit, RunningInv, CacheInv, OneRunOfACheck, Nothing
<1>3. OutcomeInv
  BY DEF ReadinessInit, OutcomeInv, Idle, Unlooked
<1> QED
  BY <1>1, <1>2, <1>3 DEF ReadinessInv

LEMMA RunShape ==
  ASSUME ReadinessTypeOK, NEW n \in Names, NEW r \in DOMAIN run[n]
  PROVE  /\ run[n][r].at \in {"runs", "returned", "recorded", "told"}
         /\ run[n][r].of \in Nat /\ run[n][r].ended \in Nat
         /\ run[n][r].result \in {"none", "ok", "error"}
         /\ r \in Nat /\ r # 0 /\ r <= Len(run[n])
<1>1. run[n] \in Seq(RunShapes) /\ r \in 1 .. Len(run[n])
  BY DEF ReadinessTypeOK
<1>2. run[n][r] \in RunShapes
  BY <1>1
<1> QED
  BY <1>1, <1>2 DEF RunShapes

\* A step of a check's thread changes its own run, which stays of its registration.
LEMMA ThreadChanges ==
  ASSUME ReadinessInv, NEW n \in Names, NEW r \in DOMAIN run[n],
         RunReturns(n, r) \/ RunRecords(n, r) \/ RunTells(n, r)
  PROVE  \E e \in RunShapes :
            /\ run' = [run EXCEPT ![n] = [run[n] EXCEPT ![r] = e]]
            /\ e.of = run[n][r].of
            /\ RunReturns(n, r) =>
                run[n][r].at = "runs" /\ e.at = "returned" /\ e.result \in {"ok", "error"}
            /\ RunRecords(n, r) =>
                /\ run[n][r].at = "returned" /\ e.at = "recorded" /\ e.result = run[n][r].result
                /\ e.ended = clock
            /\ RunTells(n, r) =>
                /\ run[n][r].at = "recorded" /\ e.at = "told" /\ e.result = run[n][r].result
                /\ e.ended = run[n][r].ended
<1> USE DEF ReadinessInv, ReadinessTypeOK
<1>1. run[n][r] \in RunShapes /\ r \in 1 .. Len(run[n])
  OBVIOUS
<1>2. CASE RunReturns(n, r)
  <2>1. PICK result \in {"ok", "error"} :
            run' = [run EXCEPT ![n][r].at = "returned", ![n][r].result = result]
    BY <1>2 DEF RunReturns
  <2> DEFINE e == [run[n][r] EXCEPT !.at = "returned", !.result = result]
  <2>2. e \in RunShapes /\ e.of = run[n][r].of /\ e.at = "returned" /\ e.result = result
    BY <1>1, <2>1 DEF RunShapes
  <2>3. run' = [run EXCEPT ![n] = [run[n] EXCEPT ![r] = e]]
    BY <1>1, <2>1 DEF RunShapes
  <2> QED
    BY <1>2, <2>1, <2>2, <2>3 DEF RunReturns, RunRecords, RunTells
<1>3. CASE RunRecords(n, r)
  <2> DEFINE e == [run[n][r] EXCEPT !.at = "recorded", !.ended = clock]
  <2>1. /\ e \in RunShapes /\ e.of = run[n][r].of /\ e.at = "recorded"
        /\ e.result = run[n][r].result /\ e.ended = clock
    BY <1>1 DEF RunShapes
  <2>2. run' = [run EXCEPT ![n] = [run[n] EXCEPT ![r] = e]]
    BY <1>1, <1>3 DEF RunShapes, RunRecords
  <2> QED
    BY <1>3, <2>1, <2>2 DEF RunReturns, RunRecords, RunTells
<1>4. CASE RunTells(n, r)
  <2> DEFINE e == [run[n][r] EXCEPT !.at = "told"]
  <2>1. /\ e \in RunShapes /\ e.of = run[n][r].of /\ e.at = "told"
        /\ e.result = run[n][r].result /\ e.ended = run[n][r].ended
    BY <1>1 DEF RunShapes
  <2>2. run' = [run EXCEPT ![n] = [run[n] EXCEPT ![r] = e]]
    BY <1>1, <1>4 DEF RunShapes, RunTells
  <2> QED
    BY <1>4, <2>1, <2>2 DEF RunReturns, RunRecords, RunTells
<1> QED
  BY <1>2, <1>3, <1>4

LEMMA ThreadInv ==
  ASSUME ReadinessInv, NEW n \in Names, NEW r \in DOMAIN run[n],
         RunReturns(n, r) \/ RunRecords(n, r) \/ RunTells(n, r)
  PROVE  ReadinessInv'
<1> USE DEF ReadinessInv, ReadinessTypeOK
<1>1. PICK e \in RunShapes :
            /\ run' = [run EXCEPT ![n] = [run[n] EXCEPT ![r] = e]]
            /\ e.of = run[n][r].of
            /\ RunReturns(n, r) =>
                run[n][r].at = "runs" /\ e.at = "returned" /\ e.result \in {"ok", "error"}
            /\ RunRecords(n, r) =>
                /\ run[n][r].at = "returned" /\ e.at = "recorded" /\ e.result = run[n][r].result
                /\ e.ended = clock
            /\ RunTells(n, r) =>
                /\ run[n][r].at = "recorded" /\ e.at = "told" /\ e.result = run[n][r].result
                /\ e.ended = run[n][r].ended
  BY ThreadChanges
<1>2. r \in 1 .. Len(run[n]) /\ run[n] \in Seq(RunShapes)
  OBVIOUS
<1>3. /\ run' \in [Names -> Seq(RunShapes)]
      /\ \A m \in Names : DOMAIN run'[m] = DOMAIN run[m]
      /\ \A m \in Names : \A s \in DOMAIN run[m] :
            run'[m][s] = IF m = n /\ s = r THEN e ELSE run[m][s]
  BY <1>1, <1>2, ExceptSeq
<1>4. \A m \in Names : \A s \in DOMAIN run[m] : run'[m][s].of = run[m][s].of
  BY <1>1, <1>3
<1>5. UNCHANGED <<version, probe, draining, clock>>
  BY DEF RunReturns, RunRecords, RunTells
<1>6. ReadinessTypeOK'
  <2>1. CASE RunReturns(n, r) \/ RunTells(n, r)
    BY <1>3, <1>5, <2>1 DEF RunReturns, RunTells
  <2>2. CASE RunRecords(n, r)
    <3>1. running' \in [Names -> Nat]
      BY <2>2 DEF RunRecords, Leaves
    <3>2. clock + TTL \in Nat /\ r \in Nat
      BY <1>2, ReadinessAssumption
    <3>3. cache' \in [Names -> [run : Nat, until : Nat]]
      <4>1. cache' = cache \/ cache' = [cache EXCEPT ![n] = [run |-> r, until |-> clock + TTL]]
        BY <2>2 DEF RunRecords, Keeps, KeepsAny
      <4>2. [run |-> r, until |-> clock + TTL] \in [run : Nat, until : Nat]
        BY <3>2
      <4> QED
        BY <4>1, <4>2
    <3> QED
      BY <1>3, <1>5, <3>1, <3>3
  <2> QED
    BY <2>1, <2>2
<1>7. RunningInv'
  <2>1. CASE RunReturns(n, r)
    BY <1>1, <1>3, <1>5, <2>1 DEF RunReturns, RunningInv, AtWork
  <2>2. CASE RunTells(n, r)
    BY <1>1, <1>3, <1>5, <2>2 DEF RunTells, RunningInv, AtWork
  <2>3. CASE RunRecords(n, r)
    BY <1>1, <1>3, <1>5, <2>3 DEF RunRecords, Leaves, RunningInv, AtWork
  <2> QED
    BY <2>1, <2>2, <2>3
<1>8. CacheInv'
  <2>1. CASE RunReturns(n, r)
    BY SMTT(30), <1>1, <1>3, <1>5, <2>1 DEF RunReturns, CacheInv, AtWork
  <2>2. CASE RunTells(n, r)
    BY SMTT(30), <1>1, <1>3, <1>5, <2>2 DEF RunTells, CacheInv, AtWork
  <2>3. CASE RunRecords(n, r)
    <3>1. CASE run[n][r].of = version[n] /\ run[n][r].result # "error"
      <4>1. cache' = [cache EXCEPT ![n] = [run |-> r, until |-> clock + TTL]]
        BY <2>3, <3>1 DEF RunRecords, Keeps, KeepsAny, Passed
      <4> QED
        <5>1. run[n][r].result = "ok" /\ e.result = "ok" /\ e.ended = clock /\ e.at = "recorded"
          BY <1>1, <2>3, <3>1, RunShape DEF RunningInv
        <5>2. ASSUME NEW m \in Names, m # n
              PROVE  cache'[m] = cache[m] /\ DOMAIN run'[m] = DOMAIN run[m] /\ run'[m] = run[m]
          BY <1>1, <4>1, <5>2
        <5>3. /\ cache'[n].run = r /\ cache'[n].until = clock + TTL /\ run'[n][r] = e
              /\ r \in DOMAIN run'[n]
          BY <1>3, <4>1
        <5> QED
          BY SMTT(30), <1>1, <1>5, <3>1, <5>1, <5>2, <5>3 DEF CacheInv, AtWork
    <3>2. CASE ~(run[n][r].of = version[n] /\ run[n][r].result # "error")
      <4>1. cache' = cache
        BY <2>3, <3>2 DEF RunRecords, Keeps, KeepsAny, Passed
      <4> QED
        BY SMTT(30), <1>1, <1>3, <1>5, <2>3, <4>1 DEF CacheInv, AtWork
    <3> QED
      BY <3>1, <3>2
  <2> QED
    BY <2>1, <2>2, <2>3
<1>9. OutcomeInv'
  BY <1>3, <1>4, <1>5 DEF OutcomeInv
<1>10. OneRunOfACheck'
  BY <1>1, <1>3 DEF OneRunOfACheck
<1> QED
  BY <1>6, <1>7, <1>8, <1>9, <1>10

\* What a request is given of a check: the run kept, the one under way, or a new one.
LEMMA LookedAt ==
  ASSUME ReadinessInv, NEW n \in Names
  PROVE  /\ Looked(n) \in Outcomes /\ Looked(n).run = Given(n) /\ Looked(n).of = version[n]
         /\ Given(n) \in Nat \ {0}
         /\ n \in Started => Given(n) = Len(run[n]) + 1 /\ running[n] = 0
         /\ n \notin Started => Given(n) \in DOMAIN run[n] /\ run[n][Given(n)].of = version[n]
         /\ Looked(n).over => Looked(n).result = "ok" /\ Looked(n).age < TTL
<1> USE DEF ReadinessInv, ReadinessTypeOK
<1>1. run[n] \in Seq(RunShapes) /\ cache[n] \in [run : Nat, until : Nat] /\ Len(run[n]) \in Nat
  OBVIOUS
<1>2. CASE Fresh(n)
  <2>1. /\ cache[n].run \in DOMAIN run[n] /\ cache[n].run # 0
        /\ run[n][cache[n].run].of = version[n] /\ run[n][cache[n].run].result = "ok"
        /\ run[n][cache[n].run].at \in {"recorded", "told"}
        /\ clock < run[n][cache[n].run].ended + TTL
    <3>1. cache[n].run # 0 /\ cache[n].until > clock
      BY <1>2 DEF Fresh
    <3>2. cache[n].run \in DOMAIN run[n] /\ ~AtWork(n, cache[n].run)
      BY <3>1 DEF CacheInv
    <3> QED
      BY <3>1, <3>2, RunShape DEF CacheInv, AtWork
  <2>2. run[n][cache[n].run].ended \in Nat /\ cache[n].run \in Nat /\ cache[n].run <= Len(run[n])
    BY <2>1, RunShape
  <2>5. Given(n) = cache[n].run /\ n \notin Started
    BY <1>2 DEF Given, Started
  <2>3. Looked(n) = [run |-> Given(n), of |-> version[n], over |-> TRUE,
                     age |-> clock - run[n][cache[n].run].ended, result |-> "ok"]
    BY <1>2, <2>1, <2>2, <2>5 DEF Looked
  <2>4. clock - run[n][cache[n].run].ended \in Int /\ clock - run[n][cache[n].run].ended < TTL
    BY <2>1, <2>2, ReadinessAssumption
  <2> QED
    BY <2>1, <2>2, <2>3, <2>4, <2>5 DEF Outcomes
<1>3. CASE ~Fresh(n)
  <2>1. Given(n) = IF running[n] # 0 THEN running[n] ELSE Len(run[n]) + 1
    BY <1>3 DEF Given
  <2>2. /\ Given(n) \in Nat \ {0} /\ (n \in Started <=> running[n] = 0)
        /\ n \notin Started => Given(n) \in DOMAIN run[n] /\ run[n][Given(n)].of = version[n]
        /\ ~(Given(n) <= Len(run[n]) /\ run[n][Given(n)].at \in {"recorded", "told"})
    <3>1. n \in Started <=> running[n] = 0
      BY <1>3 DEF Started
    <3>2. CASE running[n] = 0
      <4>1. Given(n) = Len(run[n]) + 1 /\ n \in Started
        BY <2>1, <3>1, <3>2
      <4> QED
        BY <1>1, <3>1, <3>2, <4>1
    <3>3. CASE running[n] # 0
      <4>1. Given(n) = running[n] /\ n \notin Started
        BY <2>1, <3>1, <3>3
      <4>2. /\ running[n] \in DOMAIN run[n] /\ AtWork(n, running[n])
            /\ run[n][running[n]].of = version[n]
        BY <3>3 DEF RunningInv
      <4>3. run[n][Given(n)].at \notin {"recorded", "told"}
        BY <4>1, <4>2 DEF AtWork
      <4> QED
        BY <1>1, <3>1, <3>3, <4>1, <4>2, <4>3
    <3> QED
      BY <3>2, <3>3
  <2>3. Looked(n) = [run |-> Given(n), of |-> version[n], over |-> FALSE, age |-> 0,
                     result |-> "none"]
    BY <1>3, <2>2 DEF Looked
  <2> QED
    BY <1>1, <2>1, <2>2, <2>3 DEF Outcomes
<1> QED
  BY <1>2, <1>3

LEMMA LooksInv == ASSUME ReadinessInv, NEW p \in Probes, ProbeLooks(p) PROVE ReadinessInv'
<1> USE DEF ReadinessInv, ReadinessTypeOK
<1> DEFINE new(n) == [at |-> "runs", of |-> version[n], result |-> "none", ended |-> 0]
           outcome == [n \in Names |-> Looked(n)]
<1>1. /\ probe' = [probe EXCEPT ![p] = [at |-> "waits", outcome |-> outcome]]
      /\ running' = [n \in Names |-> IF n \in Started THEN Given(n) ELSE running[n]]
      /\ run' = [n \in Names |-> IF n \in Started THEN Append(run[n], new(n)) ELSE run[n]]
      /\ UNCHANGED <<version, cache, draining, clock>>
  BY DEF ProbeLooks
<1>2. \A n \in Names : new(n) \in RunShapes
  BY DEF RunShapes
<1>11. \A n \in Names : new(n).at = "runs" /\ new(n).of = version[n]
  OBVIOUS
<1> HIDE DEF new
<1>3. outcome \in [Names -> Outcomes]
  BY LookedAt
<1>4. \A n \in Names :
        /\ run'[n] \in Seq(RunShapes)
        /\ n \in Started => /\ DOMAIN run'[n] = DOMAIN run[n] \cup {Given(n)}
                            /\ Given(n) \notin DOMAIN run[n]
                            /\ run'[n][Given(n)] = new(n)
        /\ n \notin Started => DOMAIN run'[n] = DOMAIN run[n]
        /\ \A r \in DOMAIN run[n] : run'[n][r] = run[n][r]
  <2> TAKE n \in Names
  <2>1. run[n] \in Seq(RunShapes) /\ new(n) \in RunShapes
    BY <1>2
  <2>2. CASE n \in Started
    <3>1. run'[n] = Append(run[n], new(n)) /\ Given(n) = Len(run[n]) + 1
      BY <1>1, <2>2, LookedAt
    <3> QED
      BY <2>1, <2>2, <3>1, AppendProperties
  <2>3. CASE n \notin Started
    BY <1>1, <2>1, <2>3
  <2> QED
    BY <2>2, <2>3
<1>5. ReadinessTypeOK'
  <2>1. running' \in [Names -> Nat]
    BY <1>1, LookedAt
  <2>2. run' \in [Names -> Seq(RunShapes)]
    BY <1>1, <1>4
  <2>3. [at |-> "waits", outcome |-> outcome] \in [at : {"waits"}, outcome : [Names -> Outcomes]]
    BY <1>3
  <2> HIDE DEF outcome
  <2> QED
    BY <1>1, <2>1, <2>2, <2>3
<1>6. RunningInv'
  <2> SUFFICES ASSUME NEW n \in Names
               PROVE  /\ running'[n] # 0 =>
                          /\ running'[n] \in DOMAIN run'[n] /\ AtWork(n, running[n])'
                          /\ run'[n][running'[n]].of = version'[n]
                      /\ \A r \in DOMAIN run'[n] :
                          /\ run'[n][r].of <= version'[n]
                          /\ AtWork(n, r)' /\ run'[n][r].of = version'[n] => running'[n] = r
                          /\ run'[n][r].at # "runs" => run'[n][r].result # "none"
    BY DEF RunningInv
  <2>1. CASE n \in Started
    <3>1. /\ running'[n] = Given(n) /\ run'[n][Given(n)] = new(n) /\ running[n] = 0
          /\ new(n).at = "runs" /\ new(n).of = version[n] /\ version'[n] = version[n]
          /\ version[n] \in Nat
      BY <1>1, <1>4, <1>11, <2>1, LookedAt
    <3> QED
      BY <1>4, <2>1, <3>1 DEF RunningInv, AtWork
  <2>2. CASE n \notin Started
    BY <1>1, <1>4, <2>2 DEF RunningInv, AtWork
  <2> QED
    BY <2>1, <2>2
<1>7. CacheInv'
  BY <1>1, <1>4 DEF CacheInv, AtWork
<1>8. OutcomeInv'
  <2> SUFFICES ASSUME NEW q \in Probes, NEW n \in Names
               PROVE  LET o == probe'[q].outcome[n] IN
                      /\ o.run = 0 => o.result = "none"
                      /\ o.run # 0 => o.run \in DOMAIN run'[n] /\ run'[n][o.run].of = o.of
                      /\ o.over => o.result = "ok" /\ o.age < TTL
    BY DEF OutcomeInv
  <2>1. CASE q = p
    <3>1. probe'[q].outcome[n] = Looked(n)
      BY <1>1, <2>1
    <3>2. /\ Given(n) \in DOMAIN run'[n] /\ run'[n][Given(n)].of = version[n]
          /\ Looked(n).run = Given(n) /\ Looked(n).of = version[n] /\ Given(n) # 0
          /\ Looked(n).over => Looked(n).result = "ok" /\ Looked(n).age < TTL
      <4>1. n \in Started => Given(n) \in DOMAIN run'[n] /\ run'[n][Given(n)].of = version[n]
        BY <1>4, <1>11
      <4>2. n \notin Started => Given(n) \in DOMAIN run'[n] /\ run'[n][Given(n)].of = version[n]
        BY <1>4, LookedAt
      <4> QED
        BY <4>1, <4>2, LookedAt
    <3> QED
      BY <3>1, <3>2
  <2>2. CASE q # p
    BY <1>1, <1>4, <2>2 DEF OutcomeInv
  <2> QED
    BY <2>1, <2>2
<1>9. OneRunOfACheck'
  <2> SUFFICES ASSUME NEW n \in Names, NEW r \in DOMAIN run'[n], NEW s \in DOMAIN run'[n],
                      r # s, run'[n][r].of = run'[n][s].of, AtWork(n, r)', AtWork(n, s)'
               PROVE  FALSE
    BY DEF OneRunOfACheck, AtWork
  <2>1. CASE r \in DOMAIN run[n] /\ s \in DOMAIN run[n]
    BY <1>4, <2>1 DEF OneRunOfACheck, AtWork
  <2>2. ASSUME NEW x \in DOMAIN run[n], AtWork(n, x)', run'[n][x].of = run'[n][Given(n)].of,
               n \in Started
        PROVE  FALSE
    <3>1. run'[n][x] = run[n][x] /\ run'[n][Given(n)].of = version[n]
      BY <1>4, <1>11, <2>2
    <3>2. run[n][x].of = version[n] /\ AtWork(n, x)
      BY <2>2, <3>1 DEF AtWork
    <3>3. running[n] = 0 /\ running[n] = x /\ x # 0
      BY <2>2, <3>2, LookedAt, RunShape DEF RunningInv
    <3> QED
      BY <3>3
  <2>3. CASE n \notin Started
    BY <1>4, <2>1, <2>3
  <2>4. CASE n \in Started
    <3>1. {r, s} \subseteq DOMAIN run[n] \cup {Given(n)}
      BY <1>4, <2>4
    <3> QED
      BY <2>1, <2>2, <2>4, <3>1
  <2> QED
    BY <2>3, <2>4
<1> QED
  BY <1>5, <1>6, <1>7, <1>8, <1>9

LEMMA ToldInv ==
  ASSUME ReadinessInv, NEW p \in Probes, NEW n \in Names, ProbeHears(p, n) \/ ProbeTimesOut(p, n)
  PROVE  ReadinessInv'
<1> USE DEF ReadinessInv, ReadinessTypeOK
<1>1. PICK result \in {"none", "ok", "error", "timeout"} :
        /\ probe[p].outcome[n].run # 0 /\ probe[p].outcome[n].result = "none"
        /\ probe' = [probe EXCEPT ![p].outcome[n].result = result]
        /\ UNCHANGED <<version, cache, running, run, draining, clock>>
  <2>1. CASE ProbeTimesOut(p, n)
    BY <2>1 DEF ProbeTimesOut, ProbeTold, Awaited
  <2>2. CASE ProbeHears(p, n)
    <3>1. RunOf(p, n).result \in {"none", "ok", "error"}
      <4>1. probe[p].outcome[n].run \in DOMAIN run[n]
        BY <2>2 DEF ProbeHears, OutcomeInv
      <4> QED
        BY <4>1, RunShape DEF RunOf
    <3> QED
      BY <2>2, <3>1 DEF ProbeHears, ProbeTold, Awaited
  <2> QED
    BY <2>1, <2>2
<1>2. probe[p].outcome[n] \in Outcomes /\ ~probe[p].outcome[n].over
  BY <1>1 DEF OutcomeInv
<1> DEFINE told == [probe[p].outcome[n] EXCEPT !.result = result]
           outcome == [probe[p].outcome EXCEPT ![n] = told]
<1>3. /\ told \in Outcomes /\ told.run = probe[p].outcome[n].run /\ told.of = probe[p].outcome[n].of
      /\ ~told.over
  BY <1>1, <1>2 DEF Outcomes
<1>4. probe' = [probe EXCEPT ![p] = [probe[p] EXCEPT !.outcome = outcome]]
  BY <1>1
<1> HIDE DEF told
<1>5. outcome \in [Names -> Outcomes]
  BY <1>3
<1>6. \A q \in Probes : \A m \in Names :
        probe'[q].outcome[m] = IF q = p /\ m = n THEN told ELSE probe[q].outcome[m]
  BY <1>4
<1>7. ReadinessTypeOK'
  <2> HIDE DEF outcome
  <2> QED
    BY ZenonT(40), <1>1, <1>4, <1>5
<1>8. OutcomeInv'
  BY SMTT(30), <1>1, <1>3, <1>6 DEF OutcomeInv
<1>9. RunningInv' /\ CacheInv' /\ OneRunOfACheck'
  BY <1>1 DEF RunningInv, CacheInv, OneRunOfACheck, AtWork
<1> QED
  BY <1>7, <1>8, <1>9

LEMMA NextInv == ReadinessInv /\ [ReadinessNext]_readyVars => ReadinessInv'
<1> SUFFICES ASSUME ReadinessInv, [ReadinessNext]_readyVars PROVE ReadinessInv'
  OBVIOUS
<1> USE DEF ReadinessInv, ReadinessTypeOK
<1>1. CASE UNCHANGED readyVars
  BY <1>1 DEF readyVars, RunningInv, CacheInv, OutcomeInv, OneRunOfACheck, AtWork
<1>2. CASE Passes \/ ClearsCache \/ Drains
  <2>1. UNCHANGED <<version, running, run, probe>>
    BY <1>2 DEF Passes, ClearsCache, Drains
  <2>2. cache' = cache \/ cache' = [n \in Names |-> Nothing]
    BY <1>2 DEF Passes, ClearsCache, Drains
  <2>3. Nothing \in [run : Nat, until : Nat] /\ Nothing.run = 0
    BY DEF Nothing
  <2>4. draining' \in BOOLEAN /\ clock' \in Nat
    <3>1. CASE Passes
      BY <3>1 DEF Passes
    <3>2. CASE ClearsCache \/ Drains
      BY <3>2 DEF ClearsCache, Drains
    <3> QED
      BY <1>2, <3>1, <3>2
  <2>5. CacheInv'
    BY <2>1, <2>2, <2>3 DEF CacheInv, AtWork
  <2>6. ReadinessTypeOK'
    BY <2>1, <2>2, <2>3, <2>4
  <2> QED
    BY <2>1, <2>5, <2>6 DEF RunningInv, OutcomeInv, OneRunOfACheck, AtWork
<1>3. ASSUME NEW n \in Names, Registers(n) PROVE ReadinessInv'
  <2>1. /\ version' = [version EXCEPT ![n] = @ + 1]
        /\ cache' = [cache EXCEPT ![n] = Nothing]
        /\ running' = [running EXCEPT ![n] = 0]
        /\ UNCHANGED <<run, probe, draining, clock>>
    BY <1>3 DEF Registers
  <2>2. Nothing \in [run : Nat, until : Nat] /\ Nothing.run = 0
    BY DEF Nothing
  <2>3. ReadinessTypeOK'
    BY <2>1, <2>2
  <2>4. \A m \in Names : \A r \in DOMAIN run[m] : run[m][r].of \in Nat /\ run[m][r].of <= version[m]
    BY RunShape DEF RunningInv
  <2>5. RunningInv'
    BY <2>1, <2>4 DEF RunningInv, AtWork
  <2>6. CacheInv'
    BY <2>1, <2>2 DEF CacheInv, AtWork
  <2> QED
    BY <2>1, <2>3, <2>5, <2>6 DEF OutcomeInv, OneRunOfACheck
<1>4. ASSUME NEW p \in Probes, ProbeRefused(p) \/ ProbeAnswers(p) PROVE ReadinessInv'
  <2>1. Unlooked \in Outcomes /\ Unlooked.run = 0 /\ Unlooked.result = "none" /\ ~Unlooked.over
    BY DEF Unlooked, Outcomes
  <2>2. Idle.outcome = [n \in Names |-> Unlooked]
    BY DEF Idle
  <2>3. PICK at \in {"ok", "degraded", "not_ready", "shutting_down"} :
            probe' = [probe EXCEPT ![p] = [Idle EXCEPT !.at = at]]
    BY <1>4 DEF ProbeRefused, ProbeAnswers
  <2>4. UNCHANGED <<version, cache, running, run, draining, clock>>
    BY <1>4 DEF ProbeRefused, ProbeAnswers
  <2>5. [Idle EXCEPT !.at = at] = [at |-> at, outcome |-> [n \in Names |-> Unlooked]]
    BY DEF Idle
  <2>9. /\ [Idle EXCEPT !.at = at].outcome = [n \in Names |-> Unlooked]
        /\ [Idle EXCEPT !.at = at] \in
              [at : {"ok", "degraded", "not_ready", "shutting_down"}, outcome : [Names -> Outcomes]]
    <3>1. [n \in Names |-> Unlooked] \in [Names -> Outcomes]
      BY <2>1
    <3> DEFINE none == [n \in Names |-> Unlooked]
    <3> HIDE DEF none
    <3>2. /\ [at |-> at, outcome |-> none].outcome = none
          /\ none \in [Names -> Outcomes] => [at |-> at, outcome |-> none] \in
                [at : {"ok", "degraded", "not_ready", "shutting_down"},
                 outcome : [Names -> Outcomes]]
      OBVIOUS
    <3> QED
      BY <2>5, <3>1, <3>2 DEF none
  <2>6. ReadinessTypeOK'
    BY <2>3, <2>4, <2>9
  <2>7. \A q \in Probes : \A n \in Names :
            probe'[q].outcome[n] = IF q = p THEN Unlooked ELSE probe[q].outcome[n]
    BY <2>3, <2>9
  <2>8. OutcomeInv'
    <3> SUFFICES ASSUME NEW q \in Probes, NEW n \in Names
                 PROVE  LET o == probe'[q].outcome[n] IN
                        /\ o.run = 0 => o.result = "none"
                        /\ o.run # 0 => o.run \in DOMAIN run'[n] /\ run'[n][o.run].of = o.of
                        /\ o.over => o.result = "ok" /\ o.age < TTL
      BY DEF OutcomeInv
    <3>1. CASE q = p
      <4>1. probe'[q].outcome[n] = Unlooked
        BY <2>7, <3>1
      <4> QED
        BY <2>1, <4>1
    <3>2. CASE q # p
      <4>1. probe'[q].outcome[n] = probe[q].outcome[n]
        BY <2>7, <3>2
      <4> QED
        BY <2>4, <4>1 DEF OutcomeInv
    <3> QED
      BY <3>1, <3>2
  <2> QED
    BY <2>4, <2>6, <2>8 DEF RunningInv, CacheInv, OneRunOfACheck, AtWork
<1> QED
  BY <1>1, <1>2, <1>3, <1>4, ThreadInv, LooksInv, ToldInv DEF ReadinessNext

LEMMA SpecInv == ReadinessSpec => []ReadinessInv
<1> QED
  BY ReadinessInitInv, NextInv, PTL DEF ReadinessSpec

----------------------------------------------------------------------------
\* Every variable of the readiness probe keeps its shape.
THEOREM ReadinessTypeCorrect == ReadinessSpec => []ReadinessTypeOK
<1>1. ReadinessInv => ReadinessTypeOK
  BY DEF ReadinessInv
<1> QED
  BY <1>1, SpecInv, PTL

\* No check has two runs of one registration under way (health_service.py, _cached_or_started).
THEOREM RunsCorrect == ReadinessSpec => []OneRunOfACheck
<1>1. ReadinessInv => OneRunOfACheck
  BY DEF ReadinessInv
<1> QED
  BY <1>1, SpecInv, PTL

\* What a probe tells is of the check registered as it looked, and a pass no older than the
\* cache's time if it is of a run that was over (health_service.py, _run).
THEOREM AnswersCorrect == ReadinessSpec => []AnswersAreCurrent
<1>1. ReadinessInv => AnswersAreCurrent
  BY DEF ReadinessInv, OutcomeInv, AnswersAreCurrent, Passed
<1> QED
  BY <1>1, SpecInv, PTL

----------------------------------------------------------------------------
(* The role map.                                                           *)

Black == {r \in Roles : colour[r] = "black"}

\* What each role implies, at one step and at any number.
Implied == [r \in Roles |-> Direct(r)]
Reached == [r \in Roles |-> Reachable(r)]

\* The search: its path is of implications, and what it has left is no circle.
SearchInv ==
    /\ path \in Seq(Roles) /\ colour \in [Roles -> {"white", "grey", "black"}]
    /\ \A r \in Roles : colour[r] = "grey" <=> \E i \in 1..Len(path) : path[i] = r
    /\ \A i, j \in 1..Len(path) : path[i] = path[j] => i = j
    /\ \A i \in 1..Len(path) - 1 : path[i + 1] \in Implied[path[i]]
    /\ \A r \in Black : Implied[r] \subseteq Black
    /\ \A S \in SUBSET Black : S # {} => \E r \in S : Implied[r] \cap S = {}

\* The closure under way holds what it has come to, and only what is reached.
ClosureOK ==
    \/ closure = NoClosure
    \/ /\ closure \in [of : unclosed, reached : SUBSET Roles, stack : SUBSET Roles]
       /\ closure.of \in closure.reached
       /\ closure.reached \cup closure.stack \subseteq Reached[closure.of]
       /\ \A x \in closure.reached : Implied[x] \subseteq closure.reached \cup closure.stack

\* The roles closed so far are, and the others are as their tiers have them.
ExpansionInv ==
    expansion = [r \in Roles |-> IF r \in Edged \ unclosed THEN Reachable(r) ELSE Tier(r)]

RolesInv ==
    /\ settings \in Settings /\ built \in {"checks", "visits", "closes", "built", "refused"}
    /\ colour \in [Roles -> {"white", "grey", "black"}] /\ path \in Seq(Roles)
    /\ expansion \in [Roles -> SUBSET Roles]
    /\ unclosed \subseteq Edged /\ ClosureOK
    /\ built = "checks" => colour = [r \in Roles |-> "white"] /\ path = << >>
    /\ built # "closes" => unclosed = {} /\ closure = NoClosure
    /\ built = "visits" => ~Unwritable /\ Unknown = {} /\ SearchInv
                           /\ expansion = [r \in Roles |-> Tier(r)]
    /\ built = "closes" => ~Unwritable /\ Unknown = {} /\ ~Circular /\ ExpansionInv
    /\ RolesAreReach

LEMMA DirectType ==
  ASSUME settings \in Settings, NEW r \in Roles
  PROVE  /\ Tier(r) \subseteq Roles /\ r \in Tier(r) /\ Direct(r) \subseteq Roles /\ r \notin Direct(r)
         /\ Tier(r) \subseteq Direct(r) \cup {r}
         /\ r \notin Edged => Direct(r) = {} /\ Tier(r) = {r}
<1>1. /\ settings.read \in Roles \cup {NoRole} /\ settings.write \in Roles \cup {NoRole}
      /\ settings.admin \in Roles \cup {NoRole} /\ settings.hierarchy \in Hierarchies
  BY DEF Settings
<1>2. r \in Named => settings.hierarchy[r] \subseteq Roles
  BY <1>1 DEF Named, Hierarchies
<1>3. Tiers \subseteq Roles /\ r # NoRole
  BY <1>1, RolesAssumption DEF Tiers
<1>4. Tier(r) \subseteq Roles /\ r \in Tier(r)
  BY <1>1, <1>3 DEF Tier, Tiers
<1>5. r \notin Edged => Tier(r) = {r}
  BY <1>3 DEF Edged, Tier, Tiers
<1> QED
  BY <1>2, <1>4, <1>5 DEF Direct, Edged

LEMMA EdgedType == settings \in Settings => Edged \subseteq Roles
BY RolesAssumption DEF Settings, Edged, Tiers, Named, Hierarchies

\* Nothing but the settings decides what a role implies.
LEMMA SettingsStay ==
  ASSUME UNCHANGED settings
  PROVE  /\ Unwritable' = Unwritable /\ Unknown' = Unknown /\ Circular' = Circular
         /\ Edged' = Edged /\ Named' = Named /\ Implied' = Implied /\ Reached' = Reached
         /\ \A r \in Roles : Direct(r)' = Direct(r) /\ Tier(r)' = Tier(r)
                             /\ Reachable(r)' = Reachable(r)
BY DEF Unwritable, Unknown, Circular, Edged, Named, Direct, Tier, Tiers, Reachable, Configured,
       Implied, Reached

LEMMA ReachableIsLeast ==
  ASSUME settings \in Settings, NEW r \in Roles
  PROVE  /\ r \in Reachable(r) /\ Reachable(r) \subseteq Roles
         /\ \A x \in Reachable(r) : Direct(x) \subseteq Reachable(r)
         /\ \A S \in SUBSET Roles :
              r \in S /\ (\A s \in S : Direct(s) \subseteq S) => Reachable(r) \subseteq S
<1>1. ASSUME NEW x \in Reachable(r) PROVE Direct(x) \subseteq Reachable(r)
  <2>1. x \in Roles /\ Direct(x) \subseteq Roles
    BY DirectType DEF Reachable
  <2> QED
    BY <2>1 DEF Reachable
<1> QED
  BY <1>1 DEF Reachable

\* The tiers alone are closed already.
LEMMA TiersAreClosed ==
  ASSUME settings \in Settings, Named = {}, NEW r \in Roles
  PROVE  Reachable(r) = Tier(r)
<1>1. /\ settings.read \in Roles \cup {NoRole} /\ settings.write \in Roles \cup {NoRole}
      /\ settings.admin \in Roles \cup {NoRole} /\ NoRole \notin Roles
  BY RolesAssumption DEF Settings
<1>2. ASSUME NEW x \in Tier(r) PROVE Direct(x) \subseteq Tier(r)
  BY <1>1 DEF Direct, Tier, Tiers
<1>3. Reachable(r) \subseteq Tier(r)
  BY <1>2, DirectType, ReachableIsLeast
<1>4. Tier(r) \subseteq Reachable(r)
  BY DirectType, ReachableIsLeast
<1> QED
  BY <1>3, <1>4

LEMMA RolesInitInv == RolesInit => RolesInv
<1> SUFFICES ASSUME RolesInit PROVE RolesInv
  OBVIOUS
<1>1. expansion \in [Roles -> SUBSET Roles] /\ colour \in [Roles -> {"white", "grey", "black"}]
  BY DEF RolesInit
<1> QED
  BY <1>1 DEF RolesInit, RolesInv, ClosureOK, RolesAreReach

LEMMA ChecksInv == RolesInv /\ Checks => RolesInv'
<1> SUFFICES ASSUME RolesInv, Checks PROVE RolesInv'
  OBVIOUS
<1>1. /\ settings \in Settings /\ UNCHANGED <<settings, colour, path, unclosed, closure>>
      /\ expansion' = [r \in Roles |-> Tier(r)]
      /\ colour = [r \in Roles |-> "white"] /\ path = << >> /\ unclosed = {} /\ closure = NoClosure
      /\ built' \in {"refused", "built", "visits"}
  BY DEF RolesInv, Checks
<1>2. /\ built' = "refused" => Unwritable \/ Unknown # {}
      /\ built' = "built" => ~Unwritable /\ Unknown = {} /\ Named = {}
      /\ built' = "visits" => ~Unwritable /\ Unknown = {}
  BY DEF Checks
<1>3. expansion' \in [Roles -> SUBSET Roles]
  BY <1>1, DirectType
<1>4. expansion' = [r \in Roles |-> Tier(r)']
  BY <1>1, SettingsStay
<1>5. SearchInv'
  <2>1. Black' = {}
    BY <1>1 DEF Black
  <2>2. Len(path') = 0 /\ path' \in Seq(Roles)
    BY <1>1
  <2> QED
    BY <1>1, <2>1, <2>2 DEF SearchInv
<1>6. RolesAreReach'
  BY <1>1, <1>2, TiersAreClosed, SettingsStay DEF RolesAreReach
<1> QED
  BY <1>1, <1>2, <1>3, <1>4, <1>5, <1>6, SettingsStay DEF RolesInv, ClosureOK

\* A step of the search that does not end it.
LEMMA SearchStep ==
  ASSUME RolesInv, built = "visits", SearchInv',
         UNCHANGED <<settings, built, expansion, unclosed, closure>>
  PROVE  RolesInv'
<1>1. expansion' = [r \in Roles |-> Tier(r)']
  BY SettingsStay DEF RolesInv
<1>2. RolesAreReach'
  BY DEF RolesAreReach
<1> QED
  BY <1>1, <1>2, SettingsStay DEF RolesInv, SearchInv, ClosureOK

LEMMA ToVisitType ==
  ASSUME RolesInv
  PROVE  /\ ToVisit \subseteq Roles
         /\ ToVisit # {} => NextRole(ToVisit) \in ToVisit
         /\ path # << >> => path[Len(path)] \in Roles /\ Len(path) \in 1..Len(path)
<1>1. path # << >> => path[Len(path)] \in Roles /\ Len(path) \in 1..Len(path)
  BY DEF RolesInv
<1>2. ToVisit \subseteq Roles
  BY <1>1, DirectType, EdgedType DEF ToVisit, RolesInv
<1> QED
  BY <1>1, <1>2 DEF NextRole

LEMMA EntersInv == RolesInv /\ EntersRole => RolesInv'
<1> SUFFICES ASSUME RolesInv, EntersRole PROVE RolesInv'
  OBVIOUS
<1> DEFINE x == NextRole(ToVisit)
           n == Len(path)
<1>1. x \in ToVisit /\ x \in Roles /\ colour[x] = "white"
  BY ToVisitType DEF EntersRole
<1>2. /\ built = "visits" /\ colour' = [colour EXCEPT ![x] = "grey"] /\ path' = Append(path, x)
      /\ UNCHANGED <<settings, built, expansion, unclosed, closure>> /\ SearchInv
  BY DEF EntersRole, RolesInv
<1>3. path # << >> => x \in Direct(path[n])
  BY <1>1 DEF ToVisit
<1> HIDE DEF x
<1>4. /\ n \in Nat /\ Len(path') = n + 1 /\ path'[n + 1] = x /\ path' \in Seq(Roles)
      /\ \A i \in 1..n : path'[i] = path[i]
  BY <1>1, <1>2 DEF SearchInv
<1>5. \A i \in 1..n : path[i] # x
  BY <1>1, <1>2 DEF SearchInv
<1>6. Black' = Black
  BY <1>1, <1>2 DEF Black, SearchInv
<1>7. colour' \in [Roles -> {"white", "grey", "black"}]
  BY <1>2 DEF SearchInv
<1>8. ASSUME NEW r \in Roles
      PROVE  colour'[r] = "grey" <=> \E i \in 1..Len(path') : path'[i] = r
  <2>1. CASE r = x
    BY <1>1, <1>2, <1>4, <2>1 DEF SearchInv
  <2>2. CASE r # x
    <3>1. colour'[r] = colour[r]
      BY <1>1, <1>2, <2>2 DEF SearchInv
    <3>2. (\E i \in 1..Len(path') : path'[i] = r) <=> \E i \in 1..n : path[i] = r
      BY <1>4, <2>2
    <3> QED
      BY <1>2, <3>1, <3>2 DEF SearchInv
  <2> QED
    BY <2>1, <2>2
<1>9. \A i, j \in 1..Len(path') : path'[i] = path'[j] => i = j
  BY <1>2, <1>4, <1>5 DEF SearchInv
<1>10. ASSUME NEW i \in 1..Len(path') - 1 PROVE path'[i + 1] \in Implied[path'[i]]
  <2>1. CASE i = n
    <3>1. path # << >> /\ path[n] \in Roles
      BY <1>2, <1>4, <2>1 DEF SearchInv
    <3> QED
      BY <1>3, <1>4, <2>1, <3>1 DEF Implied
  <2>2. CASE i # n
    BY <1>2, <1>4, <2>2 DEF SearchInv
  <2> QED
    BY <2>1, <2>2
<1>11. Implied' = Implied
  BY <1>2, SettingsStay
<1>12. SearchInv'
  BY <1>2, <1>4, <1>6, <1>7, <1>8, <1>9, <1>10, <1>11 DEF SearchInv
<1> QED
  BY <1>2, <1>12, SearchStep

LEMMA CycleInv == RolesInv /\ FindsCycle => RolesInv'
<1> SUFFICES ASSUME RolesInv, FindsCycle PROVE RolesInv'
  OBVIOUS
<1> DEFINE x == NextRole(ToVisit)
           n == Len(path)
<1>1. /\ x \in ToVisit /\ x \in Roles /\ colour[x] = "grey" /\ built = "visits" /\ SearchInv
      /\ built' = "refused" /\ UNCHANGED <<settings, expansion, colour, path, unclosed, closure>>
  BY ToVisitType DEF FindsCycle, RolesInv
<1>2. PICK i \in 1..n : path[i] = x
  BY <1>1 DEF SearchInv
<1>3. path # << >> /\ n \in Nat /\ path \in Seq(Roles)
  BY <1>1, <1>2 DEF SearchInv
<1>4. x \in Direct(path[n])
  BY <1>1, <1>3 DEF ToVisit
<1> HIDE DEF x
<1>5. Circular
  <2> DEFINE S == {path[j] : j \in i..n}
  <2>1. S \in SUBSET Roles /\ x \in S
    BY <1>2, <1>3
  <2>2. ASSUME NEW r \in S PROVE Direct(r) \cap S # {}
    <3>1. PICK j \in i..n : r = path[j]
      OBVIOUS
    <3>2. CASE j = n
      BY <1>4, <2>1, <3>1, <3>2
    <3>3. CASE j # n
      <4>1. j + 1 \in i..n /\ j \in 1..n - 1
        BY <1>3, <3>3
      <4>2. path[j + 1] \in Implied[path[j]] /\ path[j] \in Roles
        BY <1>1, <1>3, <4>1 DEF SearchInv
      <4>3. path[j + 1] \in Direct(r)
        BY <3>1, <4>2 DEF Implied
      <4> QED
        BY <4>1, <4>3
    <3> QED
      BY <3>2, <3>3
  <2> HIDE DEF S
  <2> QED
    BY <2>1, <2>2 DEF Circular
<1>6. RolesAreReach'
  BY <1>1, <1>5, SettingsStay DEF RolesAreReach
<1> QED
  BY <1>1, <1>6, SettingsStay DEF RolesInv, ClosureOK

LEMMA LeavesInv == RolesInv /\ LeavesRole => RolesInv'
<1> SUFFICES ASSUME RolesInv, LeavesRole PROVE RolesInv'
  OBVIOUS
<1> DEFINE n == Len(path)
           x == path[n]
<1>1. /\ built = "visits" /\ ToVisit = {} /\ path # << >> /\ SearchInv
      /\ colour' = [colour EXCEPT ![x] = "black"] /\ path' = SubSeq(path, 1, n - 1)
      /\ UNCHANGED <<settings, built, expansion, unclosed, closure>>
  BY DEF LeavesRole, RolesInv
<1>2. x \in Roles /\ n \in 1..n /\ n \in Nat /\ settings \in Settings
  BY <1>1, ToVisitType DEF RolesInv
<1>3. Direct(x) \subseteq Black /\ x \notin Direct(x)
  BY <1>1, <1>2, DirectType DEF ToVisit, Black
<1>4. colour[x] = "grey" /\ x \notin Black
  BY <1>1, <1>2 DEF SearchInv, Black
<1>5. Len(path') = n - 1 /\ path' \in Seq(Roles) /\ \A i \in 1..n - 1 : path'[i] = path[i]
  <2>1. path \in Seq(Roles) /\ n - 1 \in Nat /\ n - 1 <= n
    BY <1>1, <1>2 DEF SearchInv
  <2> HIDE DEF n
  <2>2. SubSeq(path, 1, n - 1) = [i \in 1..n - 1 |-> path[i]]
    BY <2>1
  <2>3. \A i \in 1..n - 1 : path[i] \in Roles
    BY <2>1 DEF n
  <2> QED
    BY <1>1, <2>1, <2>2, <2>3
<1>6. \A i \in 1..n - 1 : path[i] # x
  BY <1>1, <1>2 DEF SearchInv
<1> HIDE DEF x
<1>7. colour' \in [Roles -> {"white", "grey", "black"}] /\ Black' = Black \cup {x}
  BY <1>1, <1>2 DEF SearchInv, Black
<1>8. ASSUME NEW r \in Roles
      PROVE  colour'[r] = "grey" <=> \E i \in 1..Len(path') : path'[i] = r
  <2>1. CASE r = x
    BY <1>1, <1>2, <1>5, <1>6, <2>1 DEF SearchInv
  <2>2. CASE r # x
    <3>1. colour'[r] = colour[r]
      BY <1>1, <1>2, <2>2 DEF SearchInv
    <3>2. (\E i \in 1..Len(path') : path'[i] = r) <=> \E i \in 1..n : path[i] = r
      BY <1>2, <1>5, <2>2 DEF x
    <3> QED
      BY <1>1, <3>1, <3>2 DEF SearchInv
  <2> QED
    BY <2>1, <2>2
<1>9. \A i, j \in 1..Len(path') : path'[i] = path'[j] => i = j
  BY <1>1, <1>2, <1>5 DEF SearchInv
<1>10. ASSUME NEW i \in 1..Len(path') - 1 PROVE path'[i + 1] \in Implied[path'[i]]
  <2>1. i \in 1..n - 1 /\ i + 1 \in 1..n - 1
    BY <1>2, <1>5
  <2> QED
    BY <1>1, <1>5, <2>1 DEF SearchInv
<1>11. ASSUME NEW r \in Black' PROVE Implied[r] \subseteq Black'
  <2>1. Implied[x] \subseteq Black
    BY <1>2, <1>3 DEF Implied
  <2> QED
    BY <1>1, <1>7, <2>1 DEF SearchInv
<1>12. ASSUME NEW S \in SUBSET Black', S # {} PROVE \E r \in S : Implied[r] \cap S = {}
  <2>1. CASE S \ {x} = {}
    BY <1>2, <1>3, <1>12, <2>1 DEF Implied
  <2>2. CASE S \ {x} # {}
    <3>1. PICK r \in S \ {x} : Implied[r] \cap (S \ {x}) = {}
      BY <1>1, <1>7, <2>2 DEF SearchInv
    <3>2. x \notin Implied[r]
      BY <1>1, <1>4, <1>7, <3>1 DEF SearchInv
    <3> QED
      BY <3>1, <3>2
  <2> QED
    BY <2>1, <2>2
<1>13. Implied' = Implied
  BY <1>1, SettingsStay
<1>14. SearchInv'
  BY <1>5, <1>7, <1>8, <1>9, <1>10, <1>11, <1>12, <1>13 DEF SearchInv
<1> QED
  BY <1>1, <1>14, SearchStep

LEMMA VisitedInv == RolesInv /\ Visited => RolesInv'
<1> SUFFICES ASSUME RolesInv, Visited PROVE RolesInv'
  OBVIOUS
<1>1. /\ built = "visits" /\ ToVisit = {} /\ path = << >> /\ SearchInv /\ settings \in Settings
      /\ built' = "closes" /\ unclosed' = Edged /\ closure = NoClosure
      /\ UNCHANGED <<settings, expansion, colour, path, closure>>
      /\ expansion = [r \in Roles |-> Tier(r)] /\ ~Unwritable /\ Unknown = {}
  BY DEF Visited, RolesInv
<1>2. Edged \subseteq Black
  BY <1>1, EdgedType DEF ToVisit, Black
<1>3. ~Circular
  <2> SUFFICES ASSUME NEW S \in SUBSET Roles, S # {}, \A r \in S : Direct(r) \cap S # {}
               PROVE  FALSE
    BY DEF Circular
  <2>1. S \subseteq Black
    BY <1>1, <1>2, DirectType
  <2> QED
    BY <1>1, <2>1 DEF SearchInv, Implied
<1>4. ExpansionInv'
  <2>1. Edged' \ unclosed' = {}
    BY <1>1, SettingsStay
  <2>2. expansion' = [r \in Roles |-> Tier(r)']
    BY <1>1, SettingsStay
  <2> QED
    BY <2>1, <2>2 DEF ExpansionInv
<1>5. RolesAreReach'
  BY <1>1 DEF RolesAreReach
<1> QED
  BY <1>1, <1>3, <1>4, <1>5, SettingsStay DEF RolesInv, ClosureOK

\* A step of a closure that does not end it.
LEMMA ClosureStep ==
  ASSUME RolesInv, built = "closes", ClosureOK',
         UNCHANGED <<settings, built, expansion, colour, path, unclosed>>
  PROVE  RolesInv'
<1>1. ExpansionInv'
  BY SettingsStay DEF RolesInv, ExpansionInv
<1>2. RolesAreReach'
  BY DEF RolesAreReach
<1> QED
  BY <1>1, <1>2, SettingsStay DEF RolesInv

LEMMA ClosureBeginsInv == RolesInv /\ ClosureBegins => RolesInv'
<1> SUFFICES ASSUME RolesInv, ClosureBegins PROVE RolesInv'
  OBVIOUS
<1>1. PICK r \in unclosed : closure' = [of |-> r, reached |-> {r}, stack |-> Direct(r)]
  BY DEF ClosureBegins, NextRole
<1>2. UNCHANGED <<settings, built, expansion, colour, path, unclosed>> /\ built = "closes"
  BY DEF ClosureBegins
<1>3. r \in Roles /\ settings \in Settings
  BY EdgedType DEF RolesInv
<1>4. Direct(r) \subseteq Reachable(r) /\ r \in Reachable(r) /\ Direct(r) \subseteq Roles
  BY <1>3, DirectType, ReachableIsLeast
<1>5. Implied' = Implied /\ Reached' = Reached /\ Implied[r] = Direct(r) /\ Reached[r] = Reachable(r)
  BY <1>2, <1>3, SettingsStay DEF Implied, Reached
<1>6. ClosureOK'
  BY <1>1, <1>2, <1>3, <1>4, <1>5 DEF ClosureOK
<1> QED
  BY <1>2, <1>6, ClosureStep

LEMMA ClosureTakesInv == RolesInv /\ ClosureTakes => RolesInv'
<1> SUFFICES ASSUME RolesInv, ClosureTakes PROVE RolesInv'
  OBVIOUS
<1> DEFINE c == closure
<1>1. PICK r \in c.stack :
        closure' = [c EXCEPT !.reached = @ \cup {r},
                             !.stack = (@ \ {r}) \cup IF r \in c.reached THEN {} ELSE Direct(r)]
  BY DEF ClosureTakes, NextRole
<1>2. UNCHANGED <<settings, built, expansion, colour, path, unclosed>> /\ c.stack # {}
  BY DEF ClosureTakes
<1>3. /\ c \in [of : unclosed, reached : SUBSET Roles, stack : SUBSET Roles]
      /\ c.of \in c.reached /\ c.reached \cup c.stack \subseteq Reached[c.of]
      /\ \A x \in c.reached : Implied[x] \subseteq c.reached \cup c.stack
  BY <1>2 DEF RolesInv, ClosureOK, NoClosure
<1>4. built = "closes"
  BY <1>2 DEF RolesInv, NoClosure
<1>5. r \in Roles /\ c.of \in Roles /\ settings \in Settings
  BY <1>3, EdgedType DEF RolesInv
<1>6. /\ Implied[r] \subseteq Reached[c.of] /\ Implied[r] \subseteq Roles
      /\ Implied[r] = Direct(r)
  BY <1>3, <1>5, DirectType, ReachableIsLeast DEF Implied, Reached
<1>7. /\ closure' \in [of : unclosed, reached : SUBSET Roles, stack : SUBSET Roles]
      /\ closure'.of = c.of /\ closure'.reached = c.reached \cup {r}
      /\ closure'.stack = (c.stack \ {r}) \cup IF r \in c.reached THEN {} ELSE Implied[r]
  BY <1>1, <1>3, <1>5, <1>6
<1>8. closure'.of \in closure'.reached /\ closure'.reached \cup closure'.stack \subseteq Reached[c.of]
  BY <1>3, <1>6, <1>7
<1>9. ASSUME NEW x \in closure'.reached PROVE Implied[x] \subseteq closure'.reached \cup closure'.stack
  BY <1>3, <1>7
<1>10. Implied' = Implied /\ Reached' = Reached
  BY <1>2, SettingsStay
<1>11. ClosureOK'
  BY <1>2, <1>7, <1>8, <1>9, <1>10 DEF ClosureOK
<1> QED
  BY <1>2, <1>4, <1>11, ClosureStep

LEMMA ClosureEndsInv == RolesInv /\ ClosureEnds => RolesInv'
<1> SUFFICES ASSUME RolesInv, ClosureEnds PROVE RolesInv'
  OBVIOUS
<1> DEFINE c == closure
<1>1. /\ c # NoClosure /\ c.stack = {} /\ closure' = NoClosure /\ unclosed' = unclosed \ {c.of}
      /\ expansion' = [expansion EXCEPT ![c.of] = c.reached]
      /\ UNCHANGED <<settings, built, colour, path>>
  BY DEF ClosureEnds
<1>2. /\ c.of \in unclosed /\ c.reached \in SUBSET Roles
      /\ c.of \in c.reached /\ c.reached \subseteq Reached[c.of]
      /\ \A x \in c.reached : Implied[x] \subseteq c.reached
  BY <1>1 DEF RolesInv, ClosureOK
<1>3. c.of \in Roles /\ c.of \in Edged /\ settings \in Settings
  BY <1>2, EdgedType DEF RolesInv
<1>4. c.reached = Reachable(c.of)
  <2>1. c.reached \subseteq Reachable(c.of) /\ \A x \in c.reached : Direct(x) \subseteq c.reached
    BY <1>2, <1>3 DEF Implied, Reached
  <2> QED
    BY <1>2, <1>3, <2>1, ReachableIsLeast
<1>5. built = "closes"
  BY <1>1 DEF RolesInv
<1>6. ExpansionInv'
  <2>1. expansion = [r \in Roles |-> IF r \in Edged \ unclosed THEN Reachable(r) ELSE Tier(r)]
    BY <1>5 DEF RolesInv, ExpansionInv
  <2>2. expansion' = [r \in Roles |-> IF r \in Edged \ unclosed' THEN Reachable(r) ELSE Tier(r)]
    BY <1>1, <1>3, <1>4, <2>1
  <2> QED
    BY <1>1, <2>2, SettingsStay DEF ExpansionInv
<1>7. expansion' \in [Roles -> SUBSET Roles]
  BY <1>1, <1>2 DEF RolesInv
<1>8. RolesAreReach'
  BY <1>1, <1>5 DEF RolesAreReach
<1> QED
  BY <1>1, <1>5, <1>6, <1>7, <1>8, SettingsStay DEF RolesInv, ClosureOK

LEMMA RolesMergedInv == RolesInv /\ Merged => RolesInv'
<1> SUFFICES ASSUME RolesInv, Merged PROVE RolesInv'
  OBVIOUS
<1>1. /\ built = "closes" /\ unclosed = {} /\ closure = NoClosure /\ built' = "built"
      /\ UNCHANGED <<settings, expansion, colour, path, unclosed, closure>>
      /\ settings \in Settings /\ ~Unwritable /\ Unknown = {} /\ ~Circular
      /\ expansion = [r \in Roles |-> IF r \in Edged THEN Reachable(r) ELSE Tier(r)]
  BY DEF Merged, RolesInv, ExpansionInv
<1>2. ASSUME NEW r \in Roles PROVE expansion[r] = Reachable(r)
  <2>1. CASE r \notin Edged
    <3>1. Direct(r) = {} /\ Tier(r) = {r}
      BY <1>1, <2>1, DirectType
    <3>2. Reachable(r) = {r}
      BY <1>1, <3>1, ReachableIsLeast
    <3> QED
      BY <1>1, <2>1, <3>1, <3>2
  <2> QED
    BY <1>1, <2>1
<1>3. RolesAreReach'
  BY <1>1, <1>2, SettingsStay DEF RolesAreReach
<1> QED
  BY <1>1, <1>3, SettingsStay DEF RolesInv, ClosureOK

LEMMA RolesNextInv == RolesInv /\ [RolesNext]_roleVars => RolesInv'
<1>1. RolesInv /\ UNCHANGED roleVars => RolesInv'
  <2> SUFFICES ASSUME RolesInv, UNCHANGED roleVars PROVE RolesInv'
    OBVIOUS
  <2>1. UNCHANGED <<settings, built, expansion, colour, path, unclosed, closure>>
    BY DEF roleVars
  <2>2. ClosureOK'
    BY <2>1, SettingsStay DEF RolesInv, ClosureOK, NoClosure
  <2>3. built = "visits" => SearchInv' /\ expansion' = [r \in Roles |-> Tier(r)']
    BY <2>1, SettingsStay DEF RolesInv, SearchInv, Black
  <2>4. built = "closes" => ExpansionInv'
    BY <2>1, SettingsStay DEF RolesInv, ExpansionInv
  <2>5. RolesAreReach'
    BY <2>1, SettingsStay DEF RolesInv, RolesAreReach
  <2> QED
    BY <2>1, <2>2, <2>3, <2>4, <2>5, SettingsStay DEF RolesInv, NoClosure
<1> QED
  BY <1>1, ChecksInv, EntersInv, CycleInv, LeavesInv, VisitedInv, ClosureBeginsInv, ClosureTakesInv, ClosureEndsInv,
     RolesMergedInv DEF RolesNext

\* The search's path, its colours and the closures are of the roles there are.
THEOREM RolesTypeCorrect == RolesSpec => []RolesTypeOK
<1>1. RolesInv => RolesTypeOK
  <2> SUFFICES ASSUME RolesInv PROVE RolesTypeOK
    OBVIOUS
  <2>1. unclosed \subseteq Roles
    BY EdgedType DEF RolesInv
  <2> QED
    BY <2>1 DEF RolesInv, ClosureOK, NoClosure, RolesTypeOK
<1> QED
  BY <1>1, RolesInitInv, RolesNextInv, PTL DEF RolesSpec

\* The role map is built of the settings that are right, and is what they imply, at any
\* number of steps (_merge_role_hierarchy, auth_service.py).
THEOREM RolesCorrect == RolesSpec => []RolesAreReach
<1>1. RolesInv => RolesAreReach
  BY DEF RolesInv
<1> QED
  BY <1>1, RolesInitInv, RolesNextInv, PTL DEF RolesSpec

\* Who may write may read, whatever implications stand on the tiers
\* (resolve_required_role, auth_service.py).
THEOREM WritersRead == RolesSpec => []WritersMayRead
<1>1. ASSUME RolesInv, built = "built", NEW token \in RoleTokens, NEW view \in Views,
             MayCall(Expanded(RawRoles(token)), "POST", view)
      PROVE  MayCall(Expanded(RawRoles(token)), "GET", view)
  <2> DEFINE held == Expanded(RawRoles(token))
  <2>1. /\ settings \in Settings /\ ~Unwritable
        /\ \A r \in Roles : expansion[r] = Reachable(r)
    BY <1>1 DEF RolesInv, RolesAreReach
  <2>2. CASE view.noRoleCheck \/ view.allowed # {} \/ view.safe \/ settings.read = NoRole
    BY <1>1, <2>2 DEF MayCall, Required
  <2>3. CASE ~(view.noRoleCheck \/ view.allowed # {} \/ view.safe) /\ settings.read # NoRole
    <3>1. PICK w \in {settings.write, settings.admin} \ {NoRole} : w \in held
      BY <1>1, <2>1, <2>3 DEF MayCall, Required, Unwritable
    <3>2. settings.read \in Tier(w) /\ w \in Roles
      BY <2>1, <2>3, <3>1 DEF Tier, Tiers, Settings
    <3>3. PICK r \in RawRoles(token) : w \in expansion[r]
      BY <3>1 DEF Expanded
    <3>4. r \in Roles /\ w \in Reachable(r)
      BY <2>1, <3>3 DEF RoleTokens, RawRoles
    <3>5. Tier(w) \subseteq Reachable(r)
      BY <2>1, <3>2, <3>4, DirectType, ReachableIsLeast
    <3>6. settings.read \in held
      BY <2>1, <3>2, <3>3, <3>4, <3>5 DEF Expanded
    <3> HIDE DEF held
    <3>7. MayCall(held, "GET", view)
      BY <1>1, <2>3, <3>6 DEF MayCall, Required, held
    <3> QED
      BY <3>7 DEF held
  <2> QED
    BY <2>2, <2>3
<1>2. RolesInv => WritersMayRead
  BY <1>1 DEF WritersMayRead
<1> QED
  BY <1>2, RolesInitInv, RolesNextInv, PTL DEF RolesSpec

----------------------------------------------------------------------------
(* The logins.                                                             *)

Jars == [access : 0..idp.epoch, refresh : 0..idp.last]
RequestRecords ==
    [at : {"none", "sent", "view", "answered"},
     route : {"none", "api", "logout", "login", "callback"}, login : Logins \cup {0},
     with : Jars, hook : Jars \cup {Keep}, own : Jars \cup {Keep}, signed : 0..idp.last]
LoginRecords ==
    [at : {"none", "asked", "granted", "used"}, aged : BOOLEAN, session : 0..idp.last]

\* The hook's cookies are its own session's, refreshed, or are cleared as it is over.
HookIsIts(x) ==
    x.hook # Keep =>
        /\ x.with.refresh # 0
        /\ IF x.hook = NoCookies THEN x.with.refresh # idp.session \/ broken
           ELSE x.hook.refresh = x.with.refresh

\* The view's are a sign-in's, a sign-out's or none.
OwnIsIts(x) ==
    IF x.signed = 0 THEN x.own \in {Keep, NoCookies} ELSE x.own.refresh = x.signed

RequestOK(x) ==
    /\ x \in RequestRecords
    /\ x.route \in {"login", "callback"} => x.login \in Logins
    /\ HookIsIts(x) /\ OwnIsIts(x)

GrantedOK(y) == y \in LoginRecords /\ (y.at = "granted" => y.session # 0)

RequestsOK == req = [r \in Requests |-> req[r]] /\ \A r \in Requests : RequestOK(req[r])
LoginsOK == login = [l \in Logins |-> login[l]] /\ \A l \in Logins : GrantedOK(login[l])

LoginInv ==
    /\ jar \in Jars
    /\ idp \in [epoch : Nat, session : 0..idp.last, last : Nat, member : BOOLEAN]
    /\ RequestsOK /\ LoginsOK
    /\ doings \in 0..MaxDoings /\ stands \in 0..idp.last
    /\ disturbed \in BOOLEAN /\ broken \in BOOLEAN
    /\ CookiesStand

LEMMA LoginInitInv == LoginInit => LoginInv
<1> SUFFICES ASSUME LoginInit PROVE LoginInv
  OBVIOUS
<1>1. jar \in Jars /\ jar.refresh = 1
  BY DEF LoginInit, AuthInit, Jars, Cookies
<1>2. NoCookies \in Jars
  BY DEF LoginInit, AuthInit, Jars, Cookies, NoCookies
<1>3. RequestOK(NoRequest)
  BY <1>2 DEF RequestOK, RequestRecords, NoRequest, HookIsIts, OwnIsIts, LoginInit, AuthInit
<1>4. GrantedOK(NoLogin)
  BY DEF GrantedOK, LoginRecords, NoLogin, LoginInit, AuthInit
<1>5. CookiesStand
  BY <1>1 DEF CookiesStand, LoginInit
<1>6. RequestsOK /\ LoginsOK
  BY <1>3, <1>4 DEF RequestsOK, LoginsOK, LoginInit
<1>7. idp \in [epoch : Nat, session : 0..idp.last, last : Nat, member : BOOLEAN]
  BY DEF LoginInit, AuthInit
<1>8. doings \in 0..MaxDoings /\ stands \in 0..idp.last
  BY LoginAssumption DEF LoginInit, AuthInit
<1>9. disturbed \in BOOLEAN /\ broken \in BOOLEAN
  BY DEF LoginInit
<1> QED
  BY <1>1, <1>5, <1>6, <1>7, <1>8, <1>9 DEF LoginInv

\* What is of an epoch and a session the provider has had stays so.
LEMMA RecordsGrow ==
  ASSUME LoginInv, idp'.epoch \in Nat, idp'.last \in Nat,
         idp'.epoch >= idp.epoch, idp'.last >= idp.last
  PROVE  Jars \subseteq Jars' /\ RequestRecords \subseteq RequestRecords'
         /\ LoginRecords \subseteq LoginRecords'
<1>1. Jars \subseteq Jars' /\ 0..idp.last \subseteq 0..idp'.last
  BY DEF LoginInv, Jars
<1> QED
  BY <1>1 DEF RequestRecords, LoginRecords, Keep, Cookies

\* A step of one request that answers the browser nothing.
LEMMA RequestStep ==
  ASSUME LoginInv, NEW r \in Requests, RequestOK(req[r])',
         req' = [req EXCEPT ![r] = req'[r]], UNCHANGED <<jar, idp, stands, disturbed>>,
         LoginsOK',
         doings' \in 0..MaxDoings, broken' \in BOOLEAN, broken => broken'
  PROVE  LoginInv'
<1>1. \A q \in Requests : RequestOK(req[q])'
  <2> SUFFICES ASSUME NEW q \in Requests PROVE RequestOK(req[q])'
    OBVIOUS
  <2>1. CASE q = r
    BY <2>1 DEF LoginInv, RequestsOK
  <2>2. CASE q # r
    <3>1. req'[q] = req[q] /\ RequestOK(req[q])
      BY <2>2 DEF LoginInv, RequestsOK
    <3> QED
      BY <3>1 DEF RequestOK, RequestRecords, Jars, HookIsIts, OwnIsIts
  <2> QED
    BY <2>1, <2>2
<1>2. req' = [q \in Requests |-> req'[q]]
  BY DEF LoginInv, RequestsOK
<1>3. CookiesStand'
  BY DEF LoginInv, CookiesStand
<1> QED
  BY <1>1, <1>2, <1>3 DEF LoginInv, Jars, RequestsOK

\* ... whose logins stay as they are.
LEMMA LoginsStay == LoginInv /\ UNCHANGED <<idp, login>> => LoginsOK'
BY DEF LoginInv, LoginsOK, GrantedOK, LoginRecords

LEMMA SendsInv ==
  ASSUME LoginInv, NEW r \in Requests, NEW l \in Logins \cup {0},
         NEW route \in {"api", "logout", "login", "callback"},
         route \in {"login", "callback"} => l \in Logins,
         Sends(r, route, l), doings' \in 0..MaxDoings
  PROVE  LoginInv'
<1>1. UNCHANGED <<jar, idp>>
  BY DEF Sends, authVars
<1>2. req'[r] = [NoRequest EXCEPT !.at = "sent", !.route = route, !.login = l, !.with = jar]
  BY DEF Sends, LoginInv, RequestsOK
<1>3. req'[r] \in RequestRecords'
  <2>1. req'[r] = [at |-> "sent", route |-> route, login |-> l, with |-> jar, hook |-> Keep,
                   own |-> Keep, signed |-> 0]
    BY <1>2 DEF NoRequest
  <2>2. jar \in Jars' /\ 0 \in 0..idp'.last
    BY <1>1 DEF LoginInv, Jars
  <2> QED
    BY <2>1, <2>2 DEF RequestRecords
<1>4. /\ req'[r].hook = Keep /\ req'[r].own = Keep /\ req'[r].signed = 0
      /\ req'[r].route = route /\ req'[r].login = l
  BY <1>2 DEF NoRequest
<1>5. RequestOK(req[r])'
  BY <1>3, <1>4 DEF RequestOK, HookIsIts, OwnIsIts
<1>6. req' = [req EXCEPT ![r] = req'[r]]
  BY <1>2 DEF Sends
<1>7. UNCHANGED <<stands, disturbed, login, broken>>
  BY DEF Sends
<1>8. broken' \in BOOLEAN /\ (broken => broken')
  BY <1>7 DEF LoginInv
<1>9. LoginsOK'
  BY <1>1, <1>7, LoginsStay
<1> QED
  BY <1>1, <1>5, <1>6, <1>7, <1>8, <1>9, RequestStep

LEMMA GateType ==
  ASSUME LoginInv, NEW with \in Jars, NEW gate, gate = Gate(with, idp.session) \/ gate \in FailingGate(with)
  PROVE  /\ gate.set \in Jars \cup {Keep}
         /\ gate.set # Keep => with.refresh # 0
         /\ gate.set # Keep /\ gate.set # NoCookies => gate.set.refresh = with.refresh
         /\ gate = Gate(with, idp.session) /\ gate.set = NoCookies => with.refresh # idp.session
<1>1. NoCookies \in Jars
  BY DEF LoginInv, Jars, NoCookies, Cookies
<1>2. Issued(idp.session) \in Jars /\ Issued(idp.session).refresh = idp.session
  BY DEF LoginInv, Jars, Issued, Cookies
<1>3. NoCookies.refresh = 0 /\ NoCookies # Keep
  BY DEF NoCookies, Keep, Cookies
<1> QED
  BY <1>1, <1>2, <1>3 DEF Gate, Refreshed, FailingGate, Checked, GateAnswer

LEMMA HookedInv ==
  ASSUME LoginInv, NEW r \in Requests, NEW gate, Hooked(r, gate),
         \/ gate = Gate(req[r].with, idp.session) /\ UNCHANGED <<doings, broken>>
         \/ gate \in FailingGate(req[r].with) /\ Does /\ broken' = TRUE
  PROVE  LoginInv'
<1>1. RequestOK(req[r])
  BY DEF LoginInv, RequestsOK
<1>2. req[r].with \in Jars
  BY <1>1 DEF RequestOK, RequestRecords
<1>3. /\ gate.set \in Jars \cup {Keep}
      /\ gate.set # Keep => req[r].with.refresh # 0
      /\ gate.set # Keep /\ gate.set # NoCookies => gate.set.refresh = req[r].with.refresh
      /\ gate.set = NoCookies => req[r].with.refresh # idp.session \/ broken'
  BY <1>2, GateType
<1>4. UNCHANGED <<jar, idp, login, stands, disturbed>>
  BY DEF Hooked, authVars
<1>5. req'[r] = [req[r] EXCEPT !.at = IF Admitted(r, gate) THEN "view" ELSE "answered",
                              !.hook = gate.set]
  BY DEF Hooked, LoginInv, RequestsOK
<1>6. /\ req'[r] \in RequestRecords' /\ req'[r].hook = gate.set
      /\ req'[r].own = req[r].own /\ req'[r].signed = req[r].signed
      /\ req'[r].with = req[r].with /\ req'[r].route = req[r].route
      /\ req'[r].login = req[r].login
  BY <1>1, <1>3, <1>4, <1>5 DEF RequestOK, RequestRecords, Jars
<1>7. RequestOK(req[r])'
  BY <1>1, <1>3, <1>4, <1>6 DEF RequestOK, HookIsIts, OwnIsIts
<1>8. req' = [req EXCEPT ![r] = req'[r]]
  BY <1>5 DEF Hooked
<1>9. doings' \in 0..MaxDoings
  BY LoginAssumption DEF LoginInv, Does
<1>10. broken' \in BOOLEAN /\ (broken => broken')
  BY DEF LoginInv
<1> QED
  BY <1>4, <1>7, <1>8, <1>9, <1>10, LoginsStay, RequestStep

\* A view's gate, which the request of a login or a callback may give its login.
LEMMA RespondsInv ==
  ASSUME LoginInv, NEW r \in Requests, NEW own \in Jars \cup {Keep}, NEW signed \in 0..idp.last,
         IF signed = 0 THEN own \in {Keep, NoCookies} ELSE own.refresh = signed,
         Responds(r, own, signed), UNCHANGED <<authVars, stands, disturbed>>, LoginsOK',
         doings' \in 0..MaxDoings, broken' \in BOOLEAN, broken => broken'
  PROVE  LoginInv'
<1>1. RequestOK(req[r])
  BY DEF LoginInv, RequestsOK
<1>2. UNCHANGED <<jar, idp>>
  BY DEF authVars
<1>3. req'[r] = [req[r] EXCEPT !.at = "answered", !.own = own, !.signed = signed]
  BY DEF Responds, LoginInv, RequestsOK
<1>4. /\ req'[r] \in RequestRecords' /\ req'[r].hook = req[r].hook
      /\ req'[r].own = own /\ req'[r].signed = signed
      /\ req'[r].with = req[r].with /\ req'[r].route = req[r].route
      /\ req'[r].login = req[r].login
  BY ZenonT(40), <1>1, <1>2, <1>3 DEF RequestOK, RequestRecords, Jars
<1>5. RequestOK(req[r])'
  BY <1>1, <1>2, <1>4 DEF RequestOK, HookIsIts, OwnIsIts
<1>6. req' = [req EXCEPT ![r] = req'[r]]
  BY <1>3 DEF Responds
<1> QED
  BY <1>2, <1>5, <1>6, RequestStep

LEMMA LoginStep ==
  ASSUME LoginInv, UNCHANGED idp, NEW l \in Logins, NEW y, GrantedOK(y),
         login' = [login EXCEPT ![l] = y]
  PROVE  LoginsOK'
BY DEF LoginInv, LoginsOK, GrantedOK, LoginRecords

LEMMA ExchangesInv ==
  ASSUME LoginInv, NEW r \in Requests, Exchanges(r)
  PROVE  LoginInv'
<1> DEFINE l == req[r].login
<1>1. l \in Logins
  BY DEF Exchanges, LoginInv, RequestsOK, RequestOK
<1>2. GrantedOK(login[l]) /\ GrantedOK([login[l] EXCEPT !.at = "used"])
  BY <1>1 DEF LoginInv, LoginsOK, GrantedOK, LoginRecords
<1>3. UNCHANGED <<idp, authVars, stands, disturbed, doings, broken>>
  BY DEF Exchanges, authVars
<1>4. LoginsOK'
  <2>1. login' = login \/ login' = [login EXCEPT ![l] = [login[l] EXCEPT !.at = "used"]]
    BY <1>1 DEF Exchanges
  <2> QED
    BY <1>1, <1>2, <1>3, <2>1, LoginsStay, LoginStep
<1>5. doings' \in 0..MaxDoings
  BY <1>3 DEF LoginInv
<1>6. broken' \in BOOLEAN /\ (broken => broken')
  BY <1>3 DEF LoginInv
<1>7. CASE Responds(r, Keep, 0)
  <2>1. 0 \in 0..idp.last
    BY DEF LoginInv
  <2> QED
    BY <1>3, <1>4, <1>5, <1>6, <1>7, <2>1, RespondsInv
<1>8. CASE Good(l) /\ Responds(r, Cookies(idp.epoch, idp.session), idp.session)
  <2>1. idp.session # 0 /\ idp.session \in 0..idp.last
    BY <1>2, <1>8 DEF Good, GrantedOK, LoginInv
  <2>2. Cookies(idp.epoch, idp.session) \in Jars /\ Cookies(idp.epoch, idp.session).refresh = idp.session
    BY DEF LoginInv, Jars, Cookies
  <2> QED
    BY <1>3, <1>4, <1>5, <1>6, <1>8, <2>1, <2>2, RespondsInv
<1> QED
  BY <1>7, <1>8 DEF Exchanges

LEMMA ViewsInv ==
  ASSUME LoginInv, NEW r \in Requests, CallsView(r) \/ Begins(r) \/ ExchangeFails(r) \/ LogsOut(r)
  PROVE  LoginInv'
<1> DEFINE l == req[r].login
<1>1. 0 \in 0..idp.last /\ NoCookies \in Jars
  BY DEF LoginInv, Jars, NoCookies, Cookies
<1>2. UNCHANGED <<authVars, idp, stands, disturbed>>
  BY DEF CallsView, Begins, ExchangeFails, LogsOut, authVars
<1>3. doings' \in 0..MaxDoings
  BY LoginAssumption DEF CallsView, Begins, ExchangeFails, LogsOut, LoginInv, Does
<1>4. broken' \in BOOLEAN /\ (broken => broken')
  BY DEF CallsView, Begins, ExchangeFails, LogsOut, LoginInv
<1>5. CASE CallsView(r) \/ LogsOut(r)
  BY <1>1, <1>2, <1>3, <1>4, <1>5, LoginsStay, RespondsInv DEF CallsView, LogsOut
<1>6. CASE Begins(r)
  <2>1. l \in Logins
    BY <1>6 DEF Begins, LoginInv, RequestsOK, RequestOK
  <2>2. GrantedOK(Asked)
    BY <1>1 DEF GrantedOK, Asked, NoLogin, LoginRecords
  <2> QED
    BY <1>1, <1>2, <1>3, <1>4, <1>6, <2>1, <2>2, LoginStep, RespondsInv DEF Begins
<1>7. CASE ExchangeFails(r)
  <2>1. l \in Logins
    BY <1>7 DEF ExchangeFails, LoginInv, RequestsOK, RequestOK
  <2>2. PICK at \in {login[l].at, "used"} : login' = [login EXCEPT ![l].at = at]
    BY <1>7 DEF ExchangeFails
  <2>3. GrantedOK([login[l] EXCEPT !.at = at])
    BY <2>1 DEF LoginInv, LoginsOK, GrantedOK, LoginRecords
  <2>4. login' = [login EXCEPT ![l] = [login[l] EXCEPT !.at = at]]
    BY <2>2
  <2>5. LoginsOK'
    BY <1>2, <2>1, <2>3, <2>4, LoginStep
  <2> QED
    BY <1>1, <1>2, <1>3, <1>4, <1>7, <2>5, RespondsInv DEF ExchangeFails
<1> QED
  BY <1>5, <1>6, <1>7

LEMMA AnswerInv ==
  ASSUME LoginInv, NEW r \in Requests, AnswerArrives(r)
  PROVE  LoginInv'
<1> DEFINE x == req[r]
           out == x.own = NoCookies
           since == IF x.signed # 0 THEN x.signed ELSE IF out THEN 0 ELSE stands
<1>1. RequestOK(x) /\ x \in RequestRecords
  BY DEF LoginInv, RequestsOK, RequestOK
<1>2. /\ jar' = Applied(CookiesOf(x)) /\ stands' = since
      /\ disturbed' = IF out THEN FALSE
                      ELSE \/ disturbed /\ x.signed = 0
                           \/ x.hook # Keep /\ x.with.refresh # since
      /\ req' = [req EXCEPT ![r] = NoRequest]
      /\ UNCHANGED <<idp, login, doings, broken>>
  BY DEF AnswerArrives
<1>3. /\ NoCookies \in Jars /\ NoCookies # Keep /\ NoCookies.refresh = 0 /\ 0 \in 0..idp.last
      /\ jar \in Jars /\ stands \in 0..idp.last
  BY DEF LoginInv, Jars, NoCookies, Keep, Cookies
<1>4. jar' \in Jars'
  BY <1>1, <1>2, <1>3 DEF Applied, CookiesOf, RequestRecords, Jars
<1>5. stands' \in 0..idp'.last
  BY <1>1, <1>2, <1>3 DEF RequestRecords
<1>6. RequestsOK'
  <2>1. NoRequest \in RequestRecords'
    BY <1>2, <1>3 DEF NoRequest, RequestRecords, Jars
  <2>2. \A q \in Requests : req'[q] = NoRequest \/ req'[q] = req[q]
    BY <1>2 DEF LoginInv, RequestsOK
  <2>3. ASSUME NEW q \in Requests PROVE RequestOK(req[q])'
    <3>1. CASE req'[q] = NoRequest
      BY <2>1, <3>1 DEF RequestOK, HookIsIts, OwnIsIts, NoRequest
    <3>2. CASE req'[q] = req[q]
      <4>1. RequestOK(req[q])
        BY DEF LoginInv, RequestsOK
      <4> QED
        BY <1>2, <3>2, <4>1 DEF RequestOK, RequestRecords, Jars, HookIsIts, OwnIsIts
    <3> QED
      BY <2>2, <3>1, <3>2
  <2> QED
    BY <1>2, <2>3 DEF LoginInv, RequestsOK
<1>7. CookiesStand'
  <2> SUFFICES ASSUME ~disturbed'
               PROVE  \/ jar'.refresh = stands'
                      \/ jar'.refresh = 0 /\ (stands' # idp'.session \/ broken')
    BY DEF CookiesStand
  <2>1. CASE out
    <3>1. x.signed = 0 /\ jar' = NoCookies
      BY <1>1, <1>2, <1>3, <2>1 DEF RequestOK, OwnIsIts, CookiesOf, Applied
    <3> QED
      BY <1>2, <1>3, <2>1, <3>1
  <2>2. CASE ~out /\ x.hook = Keep
    <3>1. jar' = Applied(x.own)
      BY <1>2, <1>3, <2>2 DEF CookiesOf
    <3>2. CASE x.signed # 0
      <4>1. x.own.refresh = x.signed /\ stands' = x.signed /\ x.own # Keep
        BY <1>1, <1>2, <3>2 DEF RequestOK, OwnIsIts, RequestRecords, Keep, Cookies
      <4> QED
        BY <3>1, <4>1 DEF Applied
    <3>3. CASE x.signed = 0
      <4>1. x.own = Keep /\ stands' = stands /\ ~disturbed
        BY <1>1, <1>2, <2>2, <3>3 DEF RequestOK, OwnIsIts
      <4> QED
        BY <1>2, <3>1, <4>1 DEF Applied, LoginInv, CookiesStand
    <3> QED
      BY <3>2, <3>3
  <2>3. CASE ~out /\ x.hook # Keep
    <3>1. stands' = x.with.refresh
      BY <1>2, <2>3
    <3>2. CASE x.hook = NoCookies
      BY <1>1, <1>2, <1>3, <2>3, <3>1, <3>2 DEF CookiesOf, Applied, RequestOK, HookIsIts
    <3>3. CASE x.hook # NoCookies
      BY <1>1, <1>2, <1>3, <2>3, <3>1, <3>3 DEF CookiesOf, Applied, RequestOK, HookIsIts
    <3> QED
      BY <3>2, <3>3
  <2> QED
    BY <2>1, <2>2, <2>3
<1>8. disturbed' \in BOOLEAN /\ broken' \in BOOLEAN
  BY <1>2 DEF LoginInv
<1>9. LoginsOK'
  BY <1>2, LoginsStay
<1> QED
  BY <1>2, <1>4, <1>5, <1>6, <1>7, <1>8, <1>9 DEF LoginInv

\* What the provider does: no session comes back.
LEMMA ProviderInv ==
  ASSUME LoginInv,
         idp' \in [epoch : Nat, session : 0..idp'.last, last : Nat, member : BOOLEAN],
         idp'.epoch >= idp.epoch, idp'.last >= idp.last,
         idp'.session \in {0, idp.session} \/ idp'.session > idp.last,
         UNCHANGED <<jar, req, stands, disturbed, broken>>, LoginsOK', doings' \in 0..MaxDoings
  PROVE  LoginInv'
<1>1. Jars \subseteq Jars' /\ RequestRecords \subseteq RequestRecords'
  BY RecordsGrow
<1>2. ASSUME NEW q \in Requests PROVE RequestOK(req[q])'
  <2>1. RequestOK(req[q]) /\ req'[q] = req[q] /\ broken' = broken
    BY DEF LoginInv, RequestsOK
  <2>2. req[q].with.refresh \in 0..idp.last /\ req[q] \in RequestRecords
    BY <2>1 DEF RequestOK, RequestRecords, Jars
  <2>3. req[q].with.refresh # 0 /\ req[q].with.refresh # idp.session
          => req[q].with.refresh # idp'.session
    BY <2>2 DEF LoginInv
  <2> QED
    BY <1>1, <2>1, <2>2, <2>3 DEF RequestOK, HookIsIts, OwnIsIts
<1>3. RequestsOK'
  BY <1>2 DEF LoginInv, RequestsOK
<1>4. CookiesStand'
  BY DEF LoginInv, CookiesStand
<1>5. jar' \in Jars' /\ stands' \in 0..idp'.last
  BY <1>1 DEF LoginInv
<1>6. disturbed' \in BOOLEAN /\ broken' \in BOOLEAN
  BY DEF LoginInv
<1> QED
  BY <1>3, <1>4, <1>5, <1>6 DEF LoginInv

LEMMA ProviderStepsInv ==
  ASSUME LoginInv, ProviderActs \/ \E l \in Logins : Grants(l) \/ Ages(l)
  PROVE  LoginInv'
<1>1. CASE ProviderActs
  <2>1. /\ idp' \in [epoch : Nat, session : 0..idp'.last, last : Nat, member : BOOLEAN]
        /\ idp'.epoch >= idp.epoch /\ idp'.last = idp.last
        /\ idp'.session \in {0, idp.session}
    <3>1. CASE Expire
      BY <3>1 DEF LoginInv, Expire
    <3>2. CASE EndSession
      BY <3>2 DEF LoginInv, EndSession
    <3>3. CASE LoseRole
      <4>1. idp' = [epoch |-> idp.epoch, session |-> idp.session, last |-> idp.last,
                    member |-> FALSE]
        BY <3>3 DEF LoginInv, LoseRole
      <4> QED
        BY <4>1 DEF LoginInv
    <3> QED
      BY <1>1, <3>1, <3>2, <3>3 DEF ProviderActs
  <2>2. UNCHANGED <<jar, req, login, stands, disturbed, broken>>
    BY <1>1 DEF ProviderActs, Expire, EndSession, LoseRole
  <2>3. LoginsOK'
    BY <2>1, <2>2 DEF LoginInv, LoginsOK, GrantedOK, LoginRecords
  <2>4. doings' \in 0..MaxDoings
    BY <1>1, LoginAssumption DEF LoginInv, ProviderActs, Does
  <2>5. idp'.last >= idp.last
    BY <2>1 DEF LoginInv
  <2> QED
    BY <2>1, <2>2, <2>3, <2>4, <2>5, ProviderInv
<1>2. ASSUME NEW l \in Logins, Grants(l) PROVE LoginInv'
  <2> DEFINE s == IF idp.session = 0 THEN idp.last + 1 ELSE idp.session
             n == IF s > idp.last THEN s ELSE idp.last
  <2>1. /\ idp' = [idp EXCEPT !.session = s, !.last = n]
        /\ login' = [login EXCEPT ![l].at = "granted", ![l].session = s]
        /\ UNCHANGED <<jar, req, doings, stands, disturbed, broken>>
    BY <1>2 DEF Grants
  <2>2. s \in 0..n /\ s # 0 /\ n \in Nat /\ n >= idp.last /\ (s = idp.session \/ s > idp.last)
    BY DEF LoginInv
  <2>3. idp'.session = s /\ idp'.last = n /\ idp'.epoch = idp.epoch
    BY <2>1 DEF LoginInv
  <2>4. idp' \in [epoch : Nat, session : 0..idp'.last, last : Nat, member : BOOLEAN]
    BY <2>1, <2>2, <2>3 DEF LoginInv
  <2>5. LoginRecords \subseteq LoginRecords'
    BY <2>2, <2>3, RecordsGrow DEF LoginInv
  <2>6. ASSUME NEW k \in Logins PROVE GrantedOK(login[k])'
    <3>1. GrantedOK(login[k])
      BY DEF LoginInv, LoginsOK
    <3>2. CASE k = l
      <4>1. login'[k] = [login[k] EXCEPT !.at = "granted", !.session = s]
        BY <2>1, <3>2 DEF LoginInv, LoginsOK
      <4> QED
        BY <2>2, <2>3, <3>1, <4>1 DEF GrantedOK, LoginRecords
    <3>3. CASE k # l
      <4>1. login'[k] = login[k]
        BY <2>1, <3>3 DEF LoginInv, LoginsOK
      <4> QED
        BY <2>5, <3>1, <4>1 DEF GrantedOK
    <3> QED
      BY <3>2, <3>3
  <2>7. LoginsOK'
    BY <2>1, <2>6 DEF LoginInv, LoginsOK
  <2>8. doings' \in 0..MaxDoings
    BY <2>1 DEF LoginInv
  <2>9. idp'.epoch >= idp.epoch /\ (idp'.session \in {0, idp.session} \/ idp'.session > idp.last)
    BY <2>2, <2>3 DEF LoginInv
  <2> QED
    BY <2>1, <2>2, <2>3, <2>4, <2>7, <2>8, <2>9, ProviderInv
<1>3. ASSUME NEW l \in Logins, Ages(l) PROVE LoginInv'
  <2>1. UNCHANGED <<jar, idp, req, stands, disturbed, broken>>
    BY <1>3 DEF Ages, authVars
  <2>2. GrantedOK([login[l] EXCEPT !.aged = TRUE])
    BY DEF LoginInv, LoginsOK, GrantedOK, LoginRecords
  <2>3. login' = [login EXCEPT ![l] = [login[l] EXCEPT !.aged = TRUE]]
    BY <1>3 DEF Ages
  <2>4. LoginsOK'
    BY <2>1, <2>2, <2>3, LoginStep
  <2>5. doings' \in 0..MaxDoings
    BY <1>3, LoginAssumption DEF LoginInv, Ages, Does
  <2>6. /\ idp' \in [epoch : Nat, session : 0..idp'.last, last : Nat, member : BOOLEAN]
        /\ idp'.epoch >= idp.epoch /\ idp'.last >= idp.last /\ idp'.session = idp.session
    BY <2>1 DEF LoginInv
  <2> QED
    BY <2>1, <2>4, <2>5, <2>6, ProviderInv
<1> QED
  BY <1>1, <1>2, <1>3

LEMMA LoginNextInv == LoginInv /\ [LoginNext]_loginVars => LoginInv'
<1> SUFFICES ASSUME LoginInv, [LoginNext]_loginVars PROVE LoginInv'
  OBVIOUS
<1>1. ASSUME NEW r \in Requests, AsksApi(r) \/ AsksLogin(r) \/ FollowsBack(r) PROVE LoginInv'
  <2>1. PICK route \in {"api", "logout", "login", "callback"}, l \in Logins \cup {0} :
          Sends(r, route, l) /\ (route \in {"login", "callback"} => l \in Logins)
    BY <1>1 DEF AsksApi, AsksLogin, FollowsBack
  <2>2. doings' \in 0..MaxDoings
    BY <1>1, LoginAssumption DEF AsksApi, AsksLogin, FollowsBack, Does, LoginInv
  <2> QED
    BY <2>1, <2>2, SendsInv
<1>2. ASSUME NEW r \in Requests, BeforeRequest(r) \/ BeforeRequestFails(r) PROVE LoginInv'
  BY <1>2, HookedInv DEF BeforeRequest, BeforeRequestFails
<1>3. CASE UNCHANGED loginVars
  <2>1. UNCHANGED <<jar, idp, req, login, doings, stands, disturbed, broken>>
    BY <1>3 DEF loginVars, authVars
  <2>2. /\ idp' \in [epoch : Nat, session : 0..idp'.last, last : Nat, member : BOOLEAN]
        /\ idp'.epoch >= idp.epoch /\ idp'.last >= idp.last /\ idp'.session = idp.session
    BY <2>1 DEF LoginInv
  <2>3. doings' \in 0..MaxDoings
    BY <2>1 DEF LoginInv
  <2> QED
    BY <2>1, <2>2, <2>3, LoginsStay, ProviderInv
<1> QED
  BY <1>1, <1>2, <1>3, ViewsInv, ExchangesInv, AnswerInv, ProviderStepsInv DEF LoginNext

\* The cookies' epochs and sessions, and those of the requests under way, are ones the
\* provider has had.
THEOREM LoginTypeCorrect == LoginSpec => []LoginTypeOK
<1>1. LoginInv => LoginTypeOK
  <2> SUFFICES ASSUME LoginInv PROVE LoginTypeOK
    OBVIOUS
  <2>1. AuthTypeOK
    BY DEF LoginInv, Jars, AuthTypeOK
  <2>2. \A r \in Requests : req[r] \in RequestRecords
    BY DEF LoginInv, RequestsOK, RequestOK
  <2>3. \A l \in Logins : login[l] \in LoginRecords
    BY DEF LoginInv, LoginsOK, GrantedOK
  <2> QED
    BY <2>1, <2>2, <2>3 DEF LoginInv, LoginTypeOK, RequestRecords, LoginRecords, Jars
<1> QED
  BY <1>1, LoginInitInv, LoginNextInv, PTL DEF LoginSpec

\* Whatever requests race, the browser's cookies are as its last sign-in or sign-out
\* left them, but for those it names (api/auth.py, api/oidc_hooks.py).
THEOREM CookiesCorrect == LoginSpec => []CookiesStand
<1>1. LoginInv => CookiesStand
  BY DEF LoginInv
<1> QED
  BY <1>1, LoginInitInv, LoginNextInv, PTL DEF LoginSpec

----------------------------------------------------------------------------
(* The suite runner: what it exits with and shows.                         *)

Counts == {"none", "old", "passed", "failed"}
Files == Counts \cup {"unreadable"}
StepNames ==
    {"backend install", "services", "backend pytest", "frontend install", "frontend build",
     "frontend playwright", "playwright install", "frontend preview listing",
     "frontend build (test mode)", "frontend playwright (preview)"}
StepResults ==
    [step : StepNames, ok : BOOLEAN, suite : Reports \cup {"none"}, counts : Counts]
Elements(s) == {s[i] : i \in DOMAIN s}
Listed == Elements(results)

ToBackend == {"install", "services", "pytest"}
ToFrontend == ToBackend \cup {"restore", "npm", "build", "browser", "playwright"}
ToPreview == ToFrontend \cup {"listing", "rebuild", "preview"}

RunnerTypeOK ==
    /\ chosen \in Arguments
    /\ step \in ToPreview \cup {"over", "exited", "raised"}
    /\ backendInstalled \in BOOLEAN /\ exitCode \in {0, 1}
    /\ results \in Seq(StepResults)
    /\ report \in [Reports -> Files] /\ wrote \in [Reports -> Files \ {"old"}]

\* A suite has no result before its test run, and so one at most.
FreshInv ==
    \A r \in Listed :
        /\ step \in ToBackend => r.suite # "backend"
        /\ step \in ToFrontend => r.suite # "frontend"
        /\ step \in ToPreview => r.suite # "frontend-preview"

\* What a result counts is the report that its run left, which stays.
CountsInv ==
    \A r \in Listed :
        r.suite # "none" => r.counts = Counted(wrote[r.suite]) /\ report[r.suite] = wrote[r.suite]

\* While nothing has failed and each install succeeded, each suite behind is one that
\* passed; a backend that is not installed says so.
HasPassed(f) == \E r \in Listed : r.suite = f /\ r.ok = TRUE
AllInstalled ==
    \A r \in Listed : r.step \in {"backend install", "frontend install"} => r.ok = TRUE

BehindInv ==
    exitCode = 0 /\ AllInstalled =>
        /\ "backend" \in chosen.suites /\ step \notin ToBackend => HasPassed("backend")
        /\ "frontend" \in chosen.suites /\ step \notin ToFrontend => HasPassed("frontend")
        /\ "frontend" \in chosen.suites /\ chosen.preview = TRUE /\ step \notin ToPreview
              => HasPassed("frontend-preview")

InstallInv ==
    step \notin {"install", "raised"} /\ ~backendInstalled => ~AllInstalled

MarkersInv ==
    /\ step # "exited" \/ ~(chosen.full /\ chosen.kept) => markers = NoReports
    /\ step = "exited" /\ chosen.full /\ chosen.kept =>
          markers = [f \in Reports |-> Marker(report[f])]

\* An exit code other than 0 has a failed step behind it, but for a tool that was missing.
NotAllOk == \E r \in Listed : r.ok = FALSE
ExitInv == step # "raised" /\ exitCode = 1 => NotAllOk

RunnerInv ==
    /\ RunnerTypeOK /\ FreshInv /\ CountsInv /\ BehindInv /\ InstallInv /\ MarkersInv
    /\ ExitInv

\* What a result appended adds to those told.
LEMMA ConcatElements ==
    ASSUME NEW s \in Seq(StepResults), NEW r \in Seq(StepResults)
    PROVE  s \o r \in Seq(StepResults) /\ Elements(s \o r) = Elements(s) \cup Elements(r)
<1>1. /\ s \o r \in Seq(StepResults) /\ Len(s \o r) = Len(s) + Len(r)
      /\ \A i \in 1..Len(s) + Len(r) : (s \o r)[i] = IF i <= Len(s) THEN s[i] ELSE r[i - Len(s)]
  BY ConcatProperties
<1>2. Len(s) \in Nat /\ Len(r) \in Nat
  OBVIOUS
<1>3. ASSUME NEW i \in 1..Len(s) + Len(r) PROVE (s \o r)[i] \in Elements(s) \cup Elements(r)
  <2>1. CASE i <= Len(s)
    BY <1>1, <1>2, <2>1 DEF Elements
  <2>2. CASE i > Len(s)
    <3>1. i - Len(s) \in 1..Len(r) /\ (s \o r)[i] = r[i - Len(s)]
      BY <1>1, <1>2, <2>2
    <3> QED
      BY <3>1 DEF Elements
  <2> QED
    BY <1>2, <2>1, <2>2
<1>4. ASSUME NEW i \in 1..Len(s) PROVE s[i] \in Elements(s \o r)
  <2>1. i \in 1..Len(s \o r) /\ (s \o r)[i] = s[i]
    BY <1>1, <1>2
  <2> QED
    BY <2>1, <1>1 DEF Elements
<1>5. ASSUME NEW i \in 1..Len(r) PROVE r[i] \in Elements(s \o r)
  <2>1. /\ i + Len(s) \in 1..Len(s \o r) /\ ~(i + Len(s) <= Len(s))
        /\ (i + Len(s)) - Len(s) = i
    BY <1>1, <1>2
  <2>2. (s \o r)[i + Len(s)] = r[i]
    BY <1>1, <2>1
  <2> QED
    BY <2>1, <2>2, <1>1 DEF Elements
<1>6. Elements(s \o r) \subseteq Elements(s) \cup Elements(r)
  BY <1>1, <1>3 DEF Elements
<1>7. Elements(s) \subseteq Elements(s \o r) /\ Elements(r) \subseteq Elements(s \o r)
  <2>1. DOMAIN s = 1..Len(s) /\ DOMAIN r = 1..Len(r)
    OBVIOUS
  <2>2. Elements(s) = {s[i] : i \in 1..Len(s)} /\ Elements(r) = {r[i] : i \in 1..Len(r)}
    BY <2>1 DEF Elements
  <2> QED
    BY <1>4, <1>5, <2>2
<1> QED
  BY <1>1, <1>6, <1>7

LEMMA RecordsAdd ==
    ASSUME RunnerTypeOK, NEW a \in StepResults, NEW b \in StepResults, NEW c \in StepResults
    PROVE  /\ Records(<<a>>) => results' \in Seq(StepResults) /\ Listed' = Listed \cup {a}
           /\ Records(<<a, b>>) => results' \in Seq(StepResults) /\ Listed' = Listed \cup {a, b}
           /\ Records(<<a, b, c>>) => results' \in Seq(StepResults) /\ Listed' = Listed \cup {a, b, c}
<1>1. Elements(<<a>>) = {a} /\ Elements(<<a, b>>) = {a, b} /\ Elements(<<a, b, c>>) = {a, b, c}
  <2>1. DOMAIN <<a>> = {1} /\ DOMAIN <<a, b>> = {1, 2} /\ DOMAIN <<a, b, c>> = {1, 2, 3}
    OBVIOUS
  <2> QED
    BY <2>1 DEF Elements
<1>2. <<a>> \in Seq(StepResults) /\ <<a, b>> \in Seq(StepResults) /\ <<a, b, c>> \in Seq(StepResults)
  OBVIOUS
<1>3. results \in Seq(StepResults)
  BY DEF RunnerTypeOK
<1>4. ASSUME NEW r \in Seq(StepResults), Records(r)
      PROVE  results' \in Seq(StepResults) /\ Listed' = Listed \cup Elements(r)
  BY <1>3, <1>4, ConcatElements DEF Records, Listed
<1> QED
  BY <1>1, <1>2, <1>4

LEMMA ResultType ==
    ASSUME NEW name \in StepNames, NEW ok \in BOOLEAN
    PROVE  /\ Result(name, ok) \in StepResults
           /\ Result(name, ok).suite = "none" /\ Result(name, ok).ok = ok
           /\ Result(name, ok).step = name
BY DEF Result, StepResults, Counts

\* A step's results say of no suite, or of one that ran now and had not before.
Later == /\ (step \notin ToBackend => step' \notin ToBackend)
         /\ (step \notin ToFrontend => step' \notin ToFrontend)
         /\ (step \notin ToPreview => step' \notin ToPreview)

SaysNoSuite ==
    Listed \subseteq Listed' /\ \A r \in Listed' : r \in Listed \/ r.suite = "none"

LEMMA SaysOfNone ==
    ASSUME FreshInv, CountsInv, Later, UNCHANGED reports,
           SaysNoSuite
    PROVE  FreshInv' /\ CountsInv'
<1>1. FreshInv'
  <2> SUFFICES ASSUME NEW r \in Listed'
               PROVE  /\ step' \in ToBackend => r.suite # "backend"
                      /\ step' \in ToFrontend => r.suite # "frontend"
                      /\ step' \in ToPreview => r.suite # "frontend-preview"
    BY DEF FreshInv
  <2>1. CASE r \in Listed
    BY <2>1 DEF FreshInv, Later
  <2>2. CASE r.suite = "none"
    BY <2>2
  <2> QED
    BY <2>1, <2>2 DEF SaysNoSuite
<1>2. CountsInv'
  <2> SUFFICES ASSUME NEW r \in Listed', r.suite # "none"
               PROVE  r.counts = Counted(wrote'[r.suite]) /\ report'[r.suite] = wrote'[r.suite]
    BY DEF CountsInv
  <2>1. r \in Listed /\ UNCHANGED <<report, wrote>>
    BY DEF reports, SaysNoSuite
  <2> QED
    BY <2>1 DEF CountsInv
<1> QED
  BY <1>1, <1>2

\* What was listed stays.
LEMMA ListedStays ==
    ASSUME Listed \subseteq Listed'
    PROVE  /\ AllInstalled' => AllInstalled
           /\ \A f : HasPassed(f) => HasPassed(f)'
BY DEF AllInstalled, HasPassed

LEMMA TestRunType ==
    ASSUME NEW t \in TestRuns
    PROVE  t.ok \in BOOLEAN /\ t.file \in Files \ {"old"} /\ Counted(t.file) \in Counts
<1> DEFINE OneOf == t.ok \in BOOLEAN /\ t.file \in {"passed", "none", "failed", "unreadable"}
<1>1. t = [ok |-> TRUE, file |-> "passed"] => OneOf
  OBVIOUS
<1>2. t = [ok |-> TRUE, file |-> "none"] => OneOf
  OBVIOUS
<1>3. t = [ok |-> FALSE, file |-> "failed"] => OneOf
  OBVIOUS
<1>4. t = [ok |-> FALSE, file |-> "passed"] => OneOf
  OBVIOUS
<1>5. t = [ok |-> FALSE, file |-> "none"] => OneOf
  OBVIOUS
<1>6. t = [ok |-> FALSE, file |-> "unreadable"] => OneOf
  OBVIOUS
<1>7. OneOf
  BY <1>1, <1>2, <1>3, <1>4, <1>5, <1>6 DEF TestRuns
<1> QED
  BY <1>7 DEF Counts, Files, Counted

LEMMA InstallStays ==
    ASSUME InstallInv, Listed \subseteq Listed', UNCHANGED backendInstalled,
           step \notin {"install", "raised"}
    PROVE  InstallInv'
<1>1. AllInstalled' => AllInstalled
  BY ListedStays
<1> QED
  BY <1>1 DEF InstallInv

PassesShown ==
    exitCode' = 0 /\ AllInstalled' =>
        /\ "backend" \in chosen.suites /\ step \in ToBackend /\ step' \notin ToBackend
              => HasPassed("backend")'
        /\ "frontend" \in chosen.suites /\ step \in ToFrontend /\ step' \notin ToFrontend
              => HasPassed("frontend")'
        /\ ("frontend" \in chosen.suites /\ chosen.preview = TRUE
              /\ step \in ToPreview /\ step' \notin ToPreview)
              => HasPassed("frontend-preview")'

\* A step that goes past a suite's test run has to show that it passed.
LEMMA BehindStays ==
    ASSUME BehindInv, Listed \subseteq Listed', UNCHANGED chosen, exitCode' = 0 => exitCode = 0,
           PassesShown
    PROVE  BehindInv'
<1> SUFFICES ASSUME exitCode' = 0, AllInstalled'
             PROVE  /\ "backend" \in chosen.suites /\ step' \notin ToBackend => HasPassed("backend")'
                    /\ "frontend" \in chosen.suites /\ step' \notin ToFrontend => HasPassed("frontend")'
                    /\ "frontend" \in chosen.suites /\ chosen.preview = TRUE /\ step' \notin ToPreview
                          => HasPassed("frontend-preview")'
  BY DEF BehindInv
<1>1. AllInstalled /\ \A f : HasPassed(f) => HasPassed(f)'
  BY ListedStays
<1>2. /\ "backend" \in chosen.suites /\ step \notin ToBackend => HasPassed("backend")
      /\ "frontend" \in chosen.suites /\ step \notin ToFrontend => HasPassed("frontend")
      /\ "frontend" \in chosen.suites /\ chosen.preview = TRUE /\ step \notin ToPreview
            => HasPassed("frontend-preview")
  BY <1>1 DEF BehindInv
<1> QED
  BY <1>1, <1>2 DEF PassesShown

LEMMA PassesBackend ==
    ASSUME "backend" \in chosen.suites => (exitCode' = 0 => HasPassed("backend")'),
           step' = "restore" \/ "frontend" \notin chosen.suites
    PROVE  PassesShown
BY DEF PassesShown, ToBackend, ToFrontend, ToPreview

\* A test run's result is the first of its suite, and counts what the run wrote.
LEMMA TestRunTells ==
    ASSUME RunnerInv, NEW name \in StepNames, NEW f \in Reports, NEW t \in TestRuns,
           RunsTests(name, f, t.ok, t.file), Later,
           /\ f = "backend" => step \in ToBackend /\ step' \notin ToBackend
           /\ f = "frontend" => step \in ToFrontend /\ step' \notin ToFrontend
           /\ f = "frontend-preview" => step \in ToPreview /\ step' \notin ToPreview
    PROVE  /\ results' \in Seq(StepResults) /\ Listed \subseteq Listed'
           /\ report' \in [Reports -> Files] /\ wrote' \in [Reports -> Files \ {"old"}]
           /\ FreshInv' /\ CountsInv'
           /\ t.ok = TRUE => HasPassed(f)'
           /\ t.ok = FALSE => NotAllOk'
           /\ markers' = markers
<1> RunnerTypeOK /\ FreshInv /\ CountsInv
  BY DEF RunnerInv
<1> DEFINE a == [step |-> name, ok |-> t.ok, suite |-> f, counts |-> Counted(t.file)]
<1>1. t.file \in Files \ {"old"} /\ Counted(t.file) \in Counts /\ t.ok \in BOOLEAN
  BY TestRunType
<1>2. /\ report' = [report EXCEPT ![f] = t.file] /\ wrote' = [wrote EXCEPT ![f] = t.file]
      /\ report \in [Reports -> Files] /\ wrote \in [Reports -> Files \ {"old"}]
  BY DEF RunsTests, Written, RunnerTypeOK
<1>3. report' \in [Reports -> Files] /\ wrote' \in [Reports -> Files \ {"old"}]
  BY <1>1, <1>2
<1>4. report'[f] = t.file /\ wrote'[f] = t.file
  BY <1>2
<1>5. Records(<<a>>)
  BY <1>4 DEF RunsTests
<1>6. a \in StepResults /\ a.suite = f /\ a.counts = Counted(t.file) /\ a.ok = t.ok
  BY <1>1 DEF StepResults
<1> HIDE DEF a
<1>7. results' \in Seq(StepResults) /\ Listed' = Listed \cup {a}
  BY <1>5, <1>6, RecordsAdd
<1>8. FreshInv'
  <2> SUFFICES ASSUME NEW r \in Listed'
               PROVE  /\ step' \in ToBackend => r.suite # "backend"
                      /\ step' \in ToFrontend => r.suite # "frontend"
                      /\ step' \in ToPreview => r.suite # "frontend-preview"
    BY DEF FreshInv
  <2>1. CASE r \in Listed
    BY <2>1 DEF FreshInv, Later
  <2>2. CASE r = a
    BY <2>2, <1>6
  <2> QED
    BY <1>7, <2>1, <2>2
<1>9. CountsInv'
  <2> SUFFICES ASSUME NEW r \in Listed', r.suite # "none"
               PROVE  r.counts = Counted(wrote'[r.suite]) /\ report'[r.suite] = wrote'[r.suite]
    BY DEF CountsInv
  <2>1. CASE r \in Listed
    <3>1. r.suite # f
      BY <2>1 DEF FreshInv, Reports
    <3>2. r.counts = Counted(wrote[r.suite]) /\ report[r.suite] = wrote[r.suite]
      BY <2>1 DEF CountsInv
    <3>3. r.suite \in Reports
      <4>1. r \in StepResults
        BY <2>1 DEF Listed, Elements, RunnerTypeOK
      <4> QED
        BY <4>1 DEF StepResults
    <3> QED
      BY <1>2, <3>1, <3>2, <3>3
  <2>2. CASE r = a
    BY <2>2, <1>4, <1>6
  <2> QED
    BY <1>7, <2>1, <2>2
<1>10. (t.ok = TRUE => HasPassed(f)') /\ (t.ok = FALSE => NotAllOk')
  BY <1>6, <1>7 DEF HasPassed, NotAllOk
<1>11. markers' = markers
  BY DEF RunsTests
<1> QED
  BY <1>3, <1>7, <1>8, <1>9, <1>10, <1>11

\* A step that changes the exit code has a failed step to show.
ExitShown == exitCode' = exitCode \/ NotAllOk'

LEMMA ExitStays ==
    ASSUME ExitInv, step # "raised", Listed \subseteq Listed', ExitShown
    PROVE  ExitInv'
<1>1. NotAllOk => NotAllOk'
  BY DEF NotAllOk
<1> QED
  BY <1>1 DEF ExitInv, ExitShown

\* A step that runs no test.
LEMMA QuietStep ==
    ASSUME RunnerInv, Later, UNCHANGED reports, step' # "exited",
           step' \in ToPreview \cup {"over", "raised"}, chosen' = chosen,
           exitCode' \in {0, 1}, backendInstalled' \in BOOLEAN, results' \in Seq(StepResults),
           SaysNoSuite,
           BehindInv', InstallInv', ExitInv', step # "exited"
    PROVE  RunnerInv'
<1>1. RunnerTypeOK /\ FreshInv /\ CountsInv /\ MarkersInv
  BY DEF RunnerInv
<1>2. FreshInv' /\ CountsInv'
  BY <1>1, SaysOfNone
<1>3. RunnerTypeOK'
  BY <1>1 DEF RunnerTypeOK, reports
<1>4. MarkersInv'
  BY <1>1 DEF MarkersInv, reports
<1> QED
  BY <1>2, <1>3, <1>4 DEF RunnerInv

LEMMA RunnerBackendStep ==
    ASSUME RunnerInv, InstallsBackend \/ WaitsForServices \/ TestsBackend
    PROVE  RunnerInv'
<1> USE DEF At, Goto, setting, ToBackend, ToFrontend, ToPreview
<1> /\ RunnerTypeOK /\ FreshInv /\ CountsInv /\ BehindInv /\ InstallInv /\ ExitInv /\ MarkersInv
    /\ results \in Seq(StepResults) /\ exitCode \in {0, 1} /\ backendInstalled \in BOOLEAN
  BY DEF RunnerInv, RunnerTypeOK
<1>1. CASE InstallsBackend
  <2>1. PICK ok \in BOOLEAN :
           backendInstalled' = ok /\ Records(<<Result("backend install", ok)>>)
    BY <1>1 DEF InstallsBackend
  <2> DEFINE a == Result("backend install", ok)
  <2>2. a \in StepResults /\ a.suite = "none" /\ a.ok = ok /\ a.step = "backend install"
    <3>1. "backend install" \in StepNames
      BY DEF StepNames
    <3> QED
      BY <3>1, ResultType
  <2>3. Records(<<a>>)
    BY <2>1
  <2> HIDE DEF a
  <2>4. results' \in Seq(StepResults) /\ Listed' = Listed \cup {a}
    BY <2>2, <2>3, RecordsAdd
  <2>5. InstallInv'
    BY <2>1, <2>2, <2>4 DEF InstallInv, AllInstalled
  <2>6. /\ step = "install" /\ step' = "services" /\ chosen' = chosen /\ exitCode' = exitCode
        /\ UNCHANGED reports
    BY <1>1 DEF InstallsBackend
  <2>7. Later
    BY <2>6 DEF Later
  <2>8. BehindInv'
    BY <2>6 DEF BehindInv
  <2>9. ExitInv'
    BY <2>4, <2>6, ExitStays DEF ExitShown
  <2> QED
    BY <2>1, <2>2, <2>4, <2>5, <2>6, <2>7, <2>8, <2>9, QuietStep DEF SaysNoSuite
<1>2. CASE WaitsForServices
  <2>1. /\ step = "services" /\ step' = "pytest" /\ chosen' = chosen
        /\ backendInstalled' = backendInstalled /\ UNCHANGED reports
    BY <1>2 DEF WaitsForServices
  <2>2. results' \in Seq(StepResults) /\ SaysNoSuite /\ exitCode' \in {0, 1} /\ ExitShown
    <3>1. ASSUME NEW ok \in BOOLEAN, Records(<<Result("services", ok)>>), SetsExit(~ok)
          PROVE  results' \in Seq(StepResults) /\ SaysNoSuite /\ exitCode' \in {0, 1} /\ ExitShown
      <4> DEFINE a == Result("services", ok)
      <4>1. a \in StepResults /\ a.suite = "none" /\ a.ok = ok /\ Records(<<a>>)
        <5>1. "services" \in StepNames
          BY DEF StepNames
        <5> QED
          BY <3>1, <5>1, ResultType
      <4> HIDE DEF a
      <4>2. results' \in Seq(StepResults) /\ Listed' = Listed \cup {a}
        BY <4>1, RecordsAdd
      <4>3. exitCode' \in {0, 1} /\ (ok = TRUE => exitCode' = exitCode)
        BY <3>1 DEF SetsExit
      <4>4. ok = FALSE => NotAllOk'
        BY <4>1, <4>2 DEF NotAllOk
      <4>5. ExitShown
        BY <4>3, <4>4 DEF ExitShown
      <4> QED
        BY <4>1, <4>2, <4>3, <4>5 DEF SaysNoSuite
    <3>2. CASE UNCHANGED <<results, exitCode>>
      BY <3>2 DEF Listed, SaysNoSuite, ExitShown
    <3> QED
      BY <1>2, <3>1, <3>2 DEF WaitsForServices
  <2>3. Later
    BY <2>1 DEF Later
  <2>4. BehindInv'
    BY <2>1 DEF BehindInv
  <2>5. InstallInv'
    BY <2>1, <2>2, InstallStays DEF SaysNoSuite
  <2>6. ExitInv'
    BY <2>1, <2>2, ExitStays DEF SaysNoSuite
  <2> QED
    BY <2>1, <2>2, <2>3, <2>4, <2>5, <2>6, QuietStep
<1>3. CASE TestsBackend
  <2>1. /\ step = "pytest" /\ chosen' = chosen /\ backendInstalled' = backendInstalled
        /\ step' \in {"restore", "over"} /\ (step' = "restore" \/ "frontend" \notin chosen.suites)
    BY <1>3 DEF TestsBackend
  <2>2. Later
    BY <2>1 DEF Later
  <2>3. CASE "backend" \notin chosen.suites
    <3>1. UNCHANGED <<results, exitCode, reports>> /\ Listed' = Listed
      BY <1>3, <2>3 DEF TestsBackend, Listed
    <3>2. InstallInv'
      BY <2>1, <3>1, InstallStays
    <3>3. BehindInv'
      <4>1. PassesShown
        BY <2>1, <2>3, PassesBackend
      <4> QED
        BY <2>1, <3>1, <4>1, BehindStays
    <3>4. ExitInv'
      BY <2>1, <3>1, ExitStays DEF ExitShown
    <3> QED
      BY <2>1, <2>2, <3>1, <3>2, <3>3, <3>4, QuietStep DEF SaysNoSuite
  <2>4. CASE "backend" \in chosen.suites /\ ~backendInstalled
    <3> DEFINE a == Result("backend pytest", FALSE)
    <3>1. a \in StepResults /\ a.suite = "none"
      <4>1. "backend pytest" \in StepNames
        BY DEF StepNames
      <4> QED
        BY <4>1, ResultType
    <3>2. Records(<<a>>) /\ UNCHANGED <<exitCode, reports>>
      BY <1>3, <2>4 DEF TestsBackend
    <3> HIDE DEF a
    <3>3. results' \in Seq(StepResults) /\ Listed' = Listed \cup {a}
      BY <3>1, <3>2, RecordsAdd
    <3>4. ~AllInstalled'
      <4>1. ~AllInstalled
        BY <2>1, <2>4 DEF InstallInv
      <4> QED
        BY <3>3, <4>1, ListedStays
    <3>5. InstallInv' /\ BehindInv'
      BY <3>4 DEF InstallInv, BehindInv
    <3>6. ExitInv'
      BY <2>1, <3>2, <3>3, ExitStays DEF ExitShown
    <3> QED
      BY <2>1, <2>2, <3>1, <3>2, <3>3, <3>5, <3>6, QuietStep DEF SaysNoSuite
  <2>5. CASE "backend" \in chosen.suites /\ backendInstalled
    <3>1. PICK t \in TestRuns :
             RunsTests("backend pytest", "backend", t.ok, t.file) /\ SetsExit(~t.ok)
      BY <1>3, <2>5 DEF TestsBackend
    <3>2. "backend" \in Reports /\ "backend pytest" \in StepNames
      BY DEF Reports, StepNames
    <3>3. /\ results' \in Seq(StepResults) /\ Listed \subseteq Listed'
          /\ report' \in [Reports -> Files] /\ wrote' \in [Reports -> Files \ {"old"}]
          /\ FreshInv' /\ CountsInv' /\ (t.ok = TRUE => HasPassed("backend")')
          /\ (t.ok = FALSE => NotAllOk') /\ markers' = markers
      BY <2>1, <2>2, <3>1, <3>2, TestRunTells
    <3>4. /\ exitCode' \in {0, 1} /\ (exitCode' = 0 => t.ok = TRUE /\ exitCode = 0)
          /\ t.ok = FALSE \/ exitCode' = exitCode
      <4>1. t.ok \in BOOLEAN
        BY TestRunType
      <4>2. exitCode' = IF ~t.ok THEN 1 ELSE exitCode
        BY <3>1 DEF SetsExit
      <4>3. CASE t.ok = TRUE
        BY <4>2, <4>3
      <4>4. CASE t.ok = FALSE
        BY <4>2, <4>4
      <4> QED
        BY <4>1, <4>3, <4>4
    <3>5. InstallInv'
      BY <2>1, <3>3, InstallStays
    <3>6. BehindInv'
      <4>1. PassesShown
        <5>1. exitCode' = 0 => HasPassed("backend")'
          BY <3>3, <3>4
        <5> QED
          BY <2>1, <5>1, PassesBackend
      <4> QED
        BY <2>1, <3>3, <3>4, <4>1, BehindStays
    <3>7. RunnerTypeOK' /\ MarkersInv'
      BY <2>1, <3>3, <3>4 DEF RunnerTypeOK, MarkersInv
    <3>8. ExitInv'
      BY <2>1, <3>3, <3>4, ExitStays DEF ExitShown
    <3> QED
      BY <3>3, <3>5, <3>6, <3>7, <3>8 DEF RunnerInv
  <2> QED
    BY <2>3, <2>4, <2>5
<1> QED
  BY <1>1, <1>2, <1>3

\* A step between two test runs that has nothing to show.
LEMMA BetweenStep ==
    ASSUME RunnerInv, Later, UNCHANGED reports, step' # "exited",
           step' \in ToPreview \cup {"over", "raised"}, UNCHANGED setting,
           step \notin {"install", "raised", "exited"},
           exitCode' \in {0, 1}, results' \in Seq(StepResults), SaysNoSuite,
           exitCode' = 0 => exitCode = 0, PassesShown, ExitShown
    PROVE  RunnerInv'
<1> RunnerTypeOK /\ BehindInv /\ InstallInv /\ ExitInv /\ UNCHANGED <<chosen, backendInstalled>>
  BY DEF RunnerInv, setting
<1>1. InstallInv'
  BY InstallStays DEF SaysNoSuite
<1>2. BehindInv'
  BY BehindStays DEF SaysNoSuite
<1>3. backendInstalled' \in BOOLEAN
  BY DEF RunnerTypeOK
<1>4. ExitInv'
  BY ExitStays DEF SaysNoSuite
<1> QED
  BY <1>1, <1>2, <1>3, <1>4, QuietStep

\* One that failed, or found an install to have failed, may go anywhere.
LEMMA FailsShown == (exitCode' = 1 \/ ~AllInstalled') => PassesShown
BY DEF PassesShown

LEMMA StaysShown ==
    ASSUME \/ step' \in ToFrontend /\ step \notin ToBackend
           \/ step' \in ToPreview /\ step \notin ToFrontend
           \/ step \notin ToPreview
    PROVE  PassesShown
BY DEF PassesShown, ToBackend, ToFrontend, ToPreview

LEMMA RunnerQuietFrontend ==
    ASSUME RunnerInv, \/ RestoresStore \/ InstallsFrontend \/ BuildsFrontend
                      \/ InstallsBrowser \/ ListingFails \/ Rebuilds
    PROVE  RunnerInv'
<1> USE DEF At, Goto
<1> RunnerTypeOK /\ results \in Seq(StepResults) /\ exitCode \in {0, 1}
  BY DEF RunnerInv, RunnerTypeOK
<1>1. ASSUME NEW a \in StepResults, a.suite = "none", Records(<<a>>)
      PROVE  results' \in Seq(StepResults) /\ SaysNoSuite /\ a \in Listed'
  <2>1. results' \in Seq(StepResults) /\ Listed' = Listed \cup {a}
    BY <1>1, RecordsAdd
  <2> QED
    BY <1>1, <2>1 DEF SaysNoSuite
<1>2. ASSUME NEW a \in StepResults, a.suite = "none", NEW b \in StepResults, b.suite = "none",
             Records(<<a, b>>)
      PROVE  results' \in Seq(StepResults) /\ SaysNoSuite /\ a \in Listed'
  <2>1. results' \in Seq(StepResults) /\ Listed' = Listed \cup {a, b}
    BY <1>2, RecordsAdd
  <2> QED
    BY <1>2, <2>1 DEF SaysNoSuite
<1>3. ASSUME NEW a \in StepResults, a.suite = "none", NEW b \in StepResults, b.suite = "none",
             NEW c \in StepResults, c.suite = "none", Records(<<a, b, c>>)
      PROVE  results' \in Seq(StepResults) /\ SaysNoSuite /\ a \in Listed'
  <2>1. results' \in Seq(StepResults) /\ Listed' = Listed \cup {a, b, c}
    BY <1>3, RecordsAdd
  <2> QED
    BY <1>3, <2>1 DEF SaysNoSuite
<1>4. ASSUME NEW name \in StepNames, NEW ok \in BOOLEAN
      PROVE  Result(name, ok) \in StepResults /\ Result(name, ok).suite = "none"
  BY ResultType
<1>5. CASE RestoresStore
  <2>1. /\ step = "restore" /\ step' = "npm" /\ UNCHANGED <<setting, exitCode, results, reports>>
    BY <1>5 DEF RestoresStore
  <2>2. Later /\ PassesShown
    BY <2>1, StaysShown DEF Later, ToBackend, ToFrontend, ToPreview
  <2>3. SaysNoSuite
    BY <2>1 DEF SaysNoSuite, Listed
  <2>4. /\ step' \in ToPreview /\ exitCode' \in {0, 1} /\ results' \in Seq(StepResults)
        /\ ExitShown
    BY <2>1 DEF ToBackend, ToFrontend, ToPreview, ExitShown
  <2> QED
    BY <2>1, <2>2, <2>3, <2>4, BetweenStep
<1>6. CASE InstallsFrontend
  <2>1. /\ step = "npm" /\ UNCHANGED <<setting, exitCode, reports>>
        /\ step' \in {"build", "over"}
    BY <1>6 DEF InstallsFrontend
  <2>2. {"frontend install", "frontend build", "frontend playwright"} \subseteq StepNames
    BY DEF StepNames
  <2> DEFINE a == Result("frontend install", FALSE)
             b == Result("frontend build", FALSE)
             c == Result("frontend playwright", FALSE)
             d == Result("frontend install", TRUE)
  <2>3. /\ {a, b, c, d} \subseteq StepResults
        /\ a.suite = "none" /\ b.suite = "none" /\ c.suite = "none" /\ d.suite = "none"
    BY <2>2, <1>4
  <2>4. a.step = "frontend install" /\ a.ok = FALSE
    BY DEF Result
  <2>5. \/ Records(<<d>>) /\ step' = "build"
        \/ Records(<<a, b, c>>) /\ step' = "over"
    BY <1>6 DEF InstallsFrontend
  <2> HIDE DEF a, b, c, d
  <2>6. results' \in Seq(StepResults) /\ SaysNoSuite
    BY <1>1, <1>3, <2>3, <2>5
  <2>7. Later /\ step' \in ToPreview \cup {"over"} /\ ExitShown
    BY <2>1 DEF Later, ToBackend, ToFrontend, ToPreview, ExitShown
  <2>8. PassesShown
    <3>1. CASE step' = "build"
      BY <2>1, <3>1, StaysShown DEF ToBackend, ToFrontend, ToPreview
    <3>2. CASE Records(<<a, b, c>>)
      <4>1. a \in Listed'
        BY <1>3, <2>3, <3>2
      <4>2. ~AllInstalled'
        BY <2>4, <4>1 DEF AllInstalled
      <4> QED
        BY <4>2, FailsShown
    <3> QED
      BY <2>5, <3>1, <3>2
  <2> QED
    BY <2>1, <2>6, <2>7, <2>8, BetweenStep
<1>7. CASE BuildsFrontend
  <2>1. step = "build" /\ UNCHANGED <<setting, reports>>
    BY <1>7 DEF BuildsFrontend
  <2>2. {"frontend build", "frontend playwright"} \subseteq StepNames
    BY DEF StepNames
  <2> DEFINE a == Result("frontend build", TRUE)
             b == Result("frontend build", FALSE)
             c == Result("frontend playwright", FALSE)
  <2>3. /\ {a, b, c} \subseteq StepResults
        /\ a.suite = "none" /\ b.suite = "none" /\ c.suite = "none" /\ b.ok = FALSE
    BY <2>2, <1>4 DEF Result
  <2>4. \/ Records(<<a>>) /\ step' = "browser" /\ exitCode' = exitCode
        \/ Records(<<b, c>>) /\ step' = "over" /\ exitCode' = 1
    BY <1>7 DEF BuildsFrontend, SetsExit
  <2> HIDE DEF a, b, c
  <2>5. results' \in Seq(StepResults) /\ SaysNoSuite
    BY <1>1, <1>2, <2>3, <2>4
  <2>6. Later /\ step' \in ToPreview \cup {"over"} /\ step' # "exited" /\ exitCode' \in {0, 1}
    BY <2>1, <2>4 DEF Later, ToBackend, ToFrontend, ToPreview
  <2>7. PassesShown
    <3>1. CASE step' = "browser"
      BY <2>1, <3>1, StaysShown DEF ToBackend, ToFrontend, ToPreview
    <3> QED
      BY <2>4, <3>1, FailsShown
  <2>8. (exitCode' = 0 => exitCode = 0) /\ ExitShown
    BY <1>2, <2>3, <2>4 DEF ExitShown, NotAllOk
  <2> QED
    BY <2>1, <2>5, <2>6, <2>7, <2>8, BetweenStep
<1>8. CASE InstallsBrowser
  <2>1. step = "browser" /\ step' = "playwright" /\ UNCHANGED <<setting, exitCode, reports>>
    BY <1>8 DEF InstallsBrowser
  <2>2. PICK ok \in BOOLEAN : Records(<<Result("playwright install", ok)>>)
    BY <1>8 DEF InstallsBrowser
  <2>3. "playwright install" \in StepNames
    BY DEF StepNames
  <2>4. results' \in Seq(StepResults) /\ SaysNoSuite
    BY <1>1, <1>4, <2>2, <2>3
  <2>5. Later /\ PassesShown /\ step' \in ToPreview /\ ExitShown
    BY <2>1, StaysShown DEF Later, ToBackend, ToFrontend, ToPreview, ExitShown
  <2> QED
    BY <2>1, <2>4, <2>5, BetweenStep
<1>9. CASE ListingFails
  <2>1. /\ step = "listing" /\ step' = "over" /\ exitCode' = 1 /\ UNCHANGED <<setting, reports>>
        /\ Records(<<Result("frontend preview listing", FALSE)>>)
    BY <1>9 DEF ListingFails, SetsExit
  <2>2. "frontend preview listing" \in StepNames
    BY DEF StepNames
  <2>3. results' \in Seq(StepResults) /\ SaysNoSuite /\ ExitShown
    <3> DEFINE a == Result("frontend preview listing", FALSE)
    <3>1. a \in StepResults /\ a.suite = "none" /\ a.ok = FALSE /\ Records(<<a>>)
      BY <2>1, <2>2, <1>4 DEF Result
    <3> HIDE DEF a
    <3> QED
      BY <1>1, <3>1 DEF ExitShown, NotAllOk
  <2>4. Later /\ PassesShown
    BY <2>1, FailsShown DEF Later, ToBackend, ToFrontend, ToPreview
  <2> QED
    BY <2>1, <2>3, <2>4, BetweenStep
<1>10. CASE Rebuilds
  <2>1. step = "rebuild" /\ UNCHANGED <<setting, reports>>
    BY <1>10 DEF Rebuilds
  <2>2. {"frontend build (test mode)", "frontend playwright (preview)"} \subseteq StepNames
    BY DEF StepNames
  <2> DEFINE a == Result("frontend build (test mode)", TRUE)
             b == Result("frontend build (test mode)", FALSE)
             c == Result("frontend playwright (preview)", FALSE)
  <2>3. /\ {a, b, c} \subseteq StepResults
        /\ a.suite = "none" /\ b.suite = "none" /\ c.suite = "none" /\ b.ok = FALSE
    BY <2>2, <1>4 DEF Result
  <2>4. \/ Records(<<a>>) /\ step' = "preview" /\ exitCode' = exitCode
        \/ Records(<<b, c>>) /\ step' = "over" /\ exitCode' = 1
    BY <1>10 DEF Rebuilds, SetsExit
  <2> HIDE DEF a, b, c
  <2>5. results' \in Seq(StepResults) /\ SaysNoSuite
    BY <1>1, <1>2, <2>3, <2>4
  <2>6. Later /\ step' \in ToPreview \cup {"over"} /\ step' # "exited" /\ exitCode' \in {0, 1}
    BY <2>1, <2>4 DEF Later, ToBackend, ToFrontend, ToPreview
  <2>7. PassesShown
    <3>1. CASE step' = "preview"
      BY <2>1, <3>1, StaysShown DEF ToBackend, ToFrontend, ToPreview
    <3> QED
      BY <2>4, <3>1, FailsShown
  <2>8. (exitCode' = 0 => exitCode = 0) /\ ExitShown
    BY <1>2, <2>3, <2>4 DEF ExitShown, NotAllOk
  <2> QED
    BY <2>1, <2>5, <2>6, <2>7, <2>8, BetweenStep
<1> QED
  BY <1>5, <1>6, <1>7, <1>8, <1>9, <1>10

\* The two test runs of the frontend, each the only one that makes its result.
LEMMA TestRunStep ==
    ASSUME RunnerInv, NEW CONSTANT name \in StepNames, NEW CONSTANT f \in Reports,
           NEW CONSTANT t \in TestRuns,
           RunsTests(name, f, t.ok, t.file), SetsExit(~t.ok), UNCHANGED setting,
           \/ step = "playwright" /\ step' = "listing" /\ f = "frontend"
           \/ step = "preview" /\ step' = "over" /\ f = "frontend-preview"
    PROVE  RunnerInv'
<1>2. /\ UNCHANGED <<chosen, backendInstalled>>
      /\ \/ step = "playwright" /\ step' = "listing" /\ f = "frontend"
         \/ step = "preview" /\ step' = "over" /\ f = "frontend-preview"
  BY DEF setting
<1>4. Later
  BY <1>2 DEF Later, ToBackend, ToFrontend, ToPreview
<1>5. /\ f = "backend" => step \in ToBackend /\ step' \notin ToBackend
      /\ f = "frontend" => step \in ToFrontend /\ step' \notin ToFrontend
      /\ f = "frontend-preview" => step \in ToPreview /\ step' \notin ToPreview
  BY <1>2 DEF ToBackend, ToFrontend, ToPreview
<1>6. /\ results' \in Seq(StepResults) /\ Listed \subseteq Listed'
      /\ report' \in [Reports -> Files] /\ wrote' \in [Reports -> Files \ {"old"}]
      /\ FreshInv' /\ CountsInv' /\ (t.ok = TRUE => HasPassed(f)')
      /\ (t.ok = FALSE => NotAllOk') /\ markers' = markers
  BY <1>4, <1>5, TestRunTells
<1>7. /\ exitCode' = 0 => t.ok = TRUE /\ exitCode = 0
      /\ exitCode' \in {0, 1}
      /\ t.ok = FALSE \/ exitCode' = exitCode
  <2>1. t.ok \in BOOLEAN
    BY TestRunType
  <2>2. exitCode' = IF ~t.ok THEN 1 ELSE exitCode
    BY DEF SetsExit
  <2>3. exitCode \in {0, 1}
    BY DEF RunnerInv, RunnerTypeOK
  <2>4. CASE t.ok = TRUE
    BY <2>2, <2>3, <2>4
  <2>5. CASE t.ok = FALSE
    BY <2>2, <2>5
  <2> QED
    BY <2>1, <2>4, <2>5
<1>8. exitCode' = 0 => HasPassed(f)'
  BY <1>6, <1>7
<1>9. PassesShown
  <2>1. CASE step = "playwright" /\ step' = "listing" /\ f = "frontend"
    BY <1>8, <2>1 DEF PassesShown, ToBackend, ToFrontend, ToPreview
  <2>2. CASE step = "preview" /\ step' = "over" /\ f = "frontend-preview"
    BY <1>8, <2>2 DEF PassesShown, ToBackend, ToFrontend, ToPreview
  <2> QED
    BY <1>2, <2>1, <2>2
<1>10. BehindInv'
  BY <1>2, <1>6, <1>7, <1>9, BehindStays DEF RunnerInv
<1>11. InstallInv'
  BY <1>2, <1>6, InstallStays DEF RunnerInv
<1>12. MarkersInv'
  BY <1>2, <1>6 DEF MarkersInv, RunnerInv
<1>13. step' \in {"listing", "over"} /\ chosen' \in Arguments /\ backendInstalled' \in BOOLEAN
  BY <1>2 DEF RunnerInv, RunnerTypeOK
<1>14. RunnerTypeOK'
  BY <1>6, <1>7, <1>13 DEF RunnerTypeOK, ToBackend, ToFrontend, ToPreview
<1>15. ExitInv'
  <2>1. ExitInv /\ step # "raised" /\ ExitShown
    BY <1>2, <1>6, <1>7 DEF RunnerInv, ExitShown
  <2> QED
    BY <1>6, <2>1, ExitStays
<1> QED
  BY <1>6, <1>10, <1>11, <1>12, <1>14, <1>15 DEF RunnerInv

LEMMA RunnerTestFrontend ==
    ASSUME RunnerInv, TestsFrontend \/ TestsPreview
    PROVE  RunnerInv'
<1>1. /\ {"frontend playwright", "frontend playwright (preview)"} \subseteq StepNames
      /\ {"frontend", "frontend-preview"} \subseteq Reports
  BY DEF StepNames, Reports
<1>2. CASE TestsFrontend
  <2>1. PICK t \in TestRuns :
           RunsTests("frontend playwright", "frontend", t.ok, t.file) /\ SetsExit(~t.ok)
    BY <1>2 DEF TestsFrontend
  <2>2. step = "playwright" /\ step' = "listing" /\ UNCHANGED setting
    BY <1>2 DEF TestsFrontend, At, Goto
  <2> QED
    BY <1>1, <2>1, <2>2, TestRunStep
<1>3. CASE TestsPreview
  <2>1. PICK t \in TestRuns :
           /\ RunsTests("frontend playwright (preview)", "frontend-preview", t.ok, t.file)
           /\ SetsExit(~t.ok)
    BY <1>3 DEF TestsPreview
  <2>2. step = "preview" /\ step' = "over" /\ UNCHANGED setting
    BY <1>3 DEF TestsPreview, At, Goto
  <2> QED
    BY <1>1, <2>1, <2>2, TestRunStep
<1> QED
  BY <1>2, <1>3

LEMMA RunnerEndStep ==
    ASSUME RunnerInv, \/ ListsPreview \/ Exports
                      \/ \E s \in {"install", "restore", "npm"} :
                            \E tool, dir : Raises(s, tool, dir)
    PROVE  RunnerInv'
<1> USE DEF At, Goto
<1> /\ RunnerTypeOK /\ FreshInv /\ CountsInv /\ BehindInv /\ InstallInv /\ ExitInv /\ MarkersInv
    /\ results \in Seq(StepResults) /\ exitCode \in {0, 1}
  BY DEF RunnerInv, RunnerTypeOK
<1>1. CASE ListsPreview
  <2>1. /\ step = "listing" /\ UNCHANGED <<setting, exitCode, results, reports>>
        /\ step' = IF chosen.preview THEN "rebuild" ELSE "over"
    BY <1>1 DEF ListsPreview
  <2>2. Later /\ SaysNoSuite /\ step' # "exited" /\ step' \in ToPreview \cup {"over"}
    BY <2>1 DEF Later, ToBackend, ToFrontend, ToPreview, SaysNoSuite, Listed
  <2>3. PassesShown /\ ExitShown
    BY <2>1 DEF PassesShown, ToBackend, ToFrontend, ToPreview, ExitShown
  <2> QED
    BY <2>1, <2>2, <2>3, BetweenStep
<1>2. CASE Exports
  <2>1. /\ step = "over" /\ step' = "exited"
        /\ UNCHANGED <<chosen, backendInstalled, exitCode, results, report, wrote>>
        /\ markers' = IF chosen.full /\ chosen.kept
                      THEN [f \in Reports |-> Marker(report[f])] ELSE markers
    BY <1>2 DEF Exports, setting
  <2>2. Listed' = Listed
    BY <2>1 DEF Listed
  <2>3. RunnerTypeOK'
    BY <2>1 DEF RunnerTypeOK
  <2>4. FreshInv' /\ CountsInv'
    BY <2>1, <2>2 DEF FreshInv, CountsInv, ToBackend, ToFrontend, ToPreview
  <2>5. PassesShown
    BY <2>1, StaysShown DEF ToBackend, ToFrontend, ToPreview
  <2>6. BehindInv'
    BY <2>1, <2>2, <2>5, BehindStays
  <2>7. InstallInv'
    BY <2>1, <2>2, InstallStays
  <2>8. MarkersInv'
    BY <2>1 DEF MarkersInv
  <2>9. ExitInv'
    BY <2>1, <2>2, ExitStays DEF ExitShown
  <2> QED
    BY <2>3, <2>4, <2>6, <2>7, <2>8, <2>9 DEF RunnerInv
<1>3. ASSUME NEW s \in {"install", "restore", "npm"}, NEW tool, NEW dir, Raises(s, tool, dir)
      PROVE  RunnerInv'
  <2>1. /\ step \in {"install", "restore", "npm"} /\ step' = "raised" /\ exitCode' = 1
        /\ UNCHANGED <<chosen, backendInstalled, results, reports>>
    BY <1>3 DEF Raises, setting
  <2>2. Later /\ SaysNoSuite
    BY <2>1 DEF Later, ToBackend, ToFrontend, ToPreview, SaysNoSuite, Listed
  <2>3. BehindInv' /\ InstallInv' /\ ExitInv'
    BY <2>1 DEF BehindInv, InstallInv, ExitInv
  <2>4. backendInstalled' \in BOOLEAN
    BY <2>1 DEF RunnerTypeOK
  <2> QED
    BY <2>1, <2>2, <2>3, <2>4, QuietStep
<1> QED
  BY <1>1, <1>2, <1>3

LEMMA RunnerInitInv == RunnerInit => RunnerInv
<1> SUFFICES ASSUME RunnerInit PROVE RunnerInv
  OBVIOUS
<1>1. /\ NoReports \in [Reports -> Files \ {"old"}]
      /\ NoReports \in [Reports -> Files] /\ [f \in Reports |-> "old"] \in [Reports -> Files]
  BY DEF NoReports, Counts, Files
<1>2. report \in [Reports -> Files] /\ wrote \in [Reports -> Files \ {"old"}]
  BY <1>1 DEF RunnerInit
<1>3. results = << >> /\ step = "install" /\ exitCode = 0 /\ backendInstalled = FALSE
      /\ chosen \in Arguments /\ markers = NoReports
  BY DEF RunnerInit
<1>4. results \in Seq(StepResults) /\ Listed = {}
  BY <1>3 DEF Listed, Elements
<1>5. RunnerTypeOK
  <2>1. backendInstalled \in BOOLEAN
    BY <1>3
  <2>2. step \in ToPreview
    BY <1>3 DEF ToBackend, ToFrontend, ToPreview
  <2>3. exitCode \in {0, 1}
    BY <1>3
  <2> QED
    BY <1>2, <1>3, <1>4, <2>1, <2>2, <2>3 DEF RunnerTypeOK
<1>6. FreshInv /\ CountsInv
  BY <1>4 DEF FreshInv, CountsInv
<1>7. BehindInv /\ InstallInv /\ MarkersInv /\ ExitInv
  BY <1>3 DEF BehindInv, InstallInv, MarkersInv, ExitInv, ToBackend, ToFrontend, ToPreview
<1> QED
  BY <1>5, <1>6, <1>7 DEF RunnerInv

LEMMA RunnerNextInv == RunnerInv /\ [RunnerNext]_runnerVars => RunnerInv'
<1> SUFFICES ASSUME RunnerInv, [RunnerNext]_runnerVars PROVE RunnerInv'
  OBVIOUS
<1>1. CASE UNCHANGED runnerVars
  <2>1. /\ UNCHANGED <<chosen, step, backendInstalled, exitCode, results, report, markers, wrote>>
        /\ Listed' = Listed
    BY <1>1 DEF runnerVars, Listed
  <2>2. /\ AllInstalled' <=> AllInstalled
        /\ HasPassed("backend")' <=> HasPassed("backend")
        /\ HasPassed("frontend")' <=> HasPassed("frontend")
        /\ HasPassed("frontend-preview")' <=> HasPassed("frontend-preview")
        /\ NotAllOk' <=> NotAllOk
    BY <2>1 DEF AllInstalled, HasPassed, NotAllOk
  <2>3. RunnerTypeOK'
    BY <2>1 DEF RunnerInv, RunnerTypeOK
  <2>4. FreshInv' /\ CountsInv'
    BY <2>1 DEF RunnerInv, FreshInv, CountsInv
  <2>5. BehindInv'
    BY <2>1, <2>2 DEF RunnerInv, BehindInv
  <2>6. InstallInv' /\ MarkersInv' /\ ExitInv'
    BY <2>1, <2>2 DEF RunnerInv, InstallInv, MarkersInv, ExitInv
  <2> QED
    BY <2>3, <2>4, <2>5, <2>6 DEF RunnerInv
<1>2. CASE RunnerNext
  BY <1>2, RunnerBackendStep, RunnerQuietFrontend, RunnerTestFrontend, RunnerEndStep
     DEF RunnerNext
<1> QED
  BY <1>1, <1>2

THEOREM RunnerInvHolds == RunnerSpec => []RunnerInv
BY RunnerInitInv, RunnerNextInv, PTL DEF RunnerSpec

\* A run of suite_runner that exits with 0 ran every suite it was asked for and each
\* passed, but for one whose installs failed; of a suite that ran its summary and its markers
\* show what its own test run wrote, and an earlier run's marker has a failed step beside it.
THEOREM RunnerTells == RunnerSpec => []ResultsTell
<1>1. ASSUME RunnerInv PROVE ResultsTell
  <2> /\ RunnerTypeOK /\ CountsInv /\ BehindInv /\ MarkersInv /\ ExitInv
    BY <1>1 DEF RunnerInv
  <2> SUFFICES ASSUME step = "exited"
               PROVE  /\ exitCode = 0 /\ Installed => \A f \in SuitesDue : Ran(f)
                      /\ \A i \in DOMAIN results : LET f == results[i].suite IN
                          f # "none" =>
                              /\ results[i].counts = Counted(wrote[f])
                              /\ chosen.full /\ chosen.kept =>
                                    markers[f] = IF wrote[f] = "unreadable" THEN "zeroes"
                                                 ELSE results[i].counts
                      /\ \A f \in SuitesDue : markers[f] = "old" =>
                            \E i \in DOMAIN results : ~results[i].ok
    BY DEF ResultsTell
  <2>1. step \notin ToBackend /\ step \notin ToFrontend /\ step \notin ToPreview
    BY DEF ToBackend, ToFrontend, ToPreview
  <2>2. Listed \subseteq StepResults
    <3>1. \A i \in DOMAIN results : results[i] \in StepResults
      BY DEF RunnerTypeOK
    <3> QED
      BY <3>1 DEF Listed, Elements
  <2>3. \A r \in Listed : r.ok \in BOOLEAN
    BY <2>2 DEF StepResults
  <2>4. Installed => AllInstalled
    BY <2>3 DEF Installed, AllInstalled, Listed, Elements
  <2>5. \A f : HasPassed(f) => Ran(f)
    BY DEF HasPassed, Ran, Listed, Elements
  <2>6. ASSUME exitCode = 0, AllInstalled, NEW f \in SuitesDue PROVE HasPassed(f)
    <3>1. chosen.preview \in BOOLEAN
      BY DEF RunnerTypeOK, Arguments
    <3>2. /\ "backend" \in chosen.suites => HasPassed("backend")
          /\ "frontend" \in chosen.suites => HasPassed("frontend")
          /\ "frontend" \in chosen.suites /\ chosen.preview = TRUE => HasPassed("frontend-preview")
      BY <2>1, <2>6 DEF BehindInv
    <3>3. \/ f = "backend" /\ "backend" \in chosen.suites
          \/ f = "frontend" /\ "frontend" \in chosen.suites
          \/ f = "frontend-preview" /\ "frontend" \in chosen.suites /\ chosen.preview
      BY DEF SuitesDue, Reports
    <3> QED
      BY <3>1, <3>2, <3>3
  <2>7. ASSUME NEW i \in DOMAIN results, results[i].suite # "none"
        PROVE  /\ results[i].counts = Counted(wrote[results[i].suite])
               /\ chosen.full /\ chosen.kept =>
                     markers[results[i].suite] = IF wrote[results[i].suite] = "unreadable"
                                                 THEN "zeroes" ELSE results[i].counts
    <3>1. results[i] \in Listed
      BY DEF Listed, Elements
    <3>2. /\ results[i].counts = Counted(wrote[results[i].suite])
          /\ report[results[i].suite] = wrote[results[i].suite]
      BY <2>7, <3>1 DEF CountsInv
    <3>3. results[i].suite \in Reports
      BY <2>2, <2>7, <3>1 DEF StepResults
    <3> QED
      BY <3>2, <3>3 DEF MarkersInv, Marker, Counted
  <2>8. ASSUME NEW f \in SuitesDue, markers[f] = "old" PROVE \E i \in DOMAIN results : ~results[i].ok
    <3>1. f \in Reports
      BY DEF SuitesDue
    <3>2. markers[f] = Marker(report[f])
      BY <2>8, <3>1 DEF MarkersInv, NoReports
    <3>3. report[f] = "old"
      BY <2>8, <3>2 DEF Marker
    <3>4. ~HasPassed(f)
      <4> SUFFICES ASSUME NEW r \in Listed, r.suite = f PROVE FALSE
        BY DEF HasPassed
      <4>1. report[f] = wrote[f]
        BY <3>1 DEF CountsInv, Reports
      <4>2. wrote[f] # "old"
        BY <3>1 DEF RunnerTypeOK
      <4> QED
        BY <3>3, <4>1, <4>2
    <3>5. NotAllOk
      <4>1. CASE exitCode = 1
        BY <4>1 DEF ExitInv
      <4>2. CASE exitCode = 0
        <5>1. ~AllInstalled
          BY <2>6, <3>4, <4>2
        <5> QED
          BY <2>3, <5>1 DEF AllInstalled, NotAllOk
      <4> QED
        BY <4>1, <4>2 DEF RunnerTypeOK
    <3> QED
      BY <3>5 DEF NotAllOk, Listed, Elements
  <2> QED
    BY <2>4, <2>5, <2>6, <2>7, <2>8
<1> QED
  BY <1>1, RunnerInvHolds, PTL
=============================================================================
