-------------------------- MODULE StoreQueueProofs --------------------------
(***************************************************************************)
(* What holds of StoreQueue for every number of pods, writes, listeners,   *)
(* failures and deaths.                                                    *)
(***************************************************************************)
EXTENDS StoreQueue, SequenceTheorems, TLAPS

----------------------------------------------------------------------------
(* Histories and queues.                                                   *)

\* The elements of a sequence are of its type.
LEMMA RangeType ==
    ASSUME NEW S, NEW s \in Seq(S)
    PROVE  Range(s) \subseteq S
  BY DEF Range

\* A commit appended is in the history, with what was there.
LEMMA RangeAppend ==
    ASSUME NEW S, NEW s \in Seq(S), NEW x \in S
    PROVE  Range(Append(s, x)) = Range(s) \cup {x}
  <1>1. DOMAIN Append(s, x) = 1..(Len(s) + 1) /\ DOMAIN s = 1..Len(s)
    OBVIOUS
  <1>2. \A i \in 1..Len(s) : Append(s, x)[i] = s[i]
    OBVIOUS
  <1>3. Append(s, x)[Len(s) + 1] = x
    OBVIOUS
  <1>. QED BY <1>1, <1>2, <1>3 DEF Range

\* Taking a job leaves the jobs behind it.
LEMMA RangeTail ==
    ASSUME NEW S, NEW s \in Seq(S), s # << >>
    PROVE  /\ Tail(s) \in Seq(S)
           /\ Head(s) \in Range(s)
           /\ Range(Tail(s)) \subseteq Range(s)
  <1>1. Len(s) \in Nat /\ Len(s) > 0 /\ DOMAIN s = 1..Len(s)
    OBVIOUS
  <1>2. Tail(s) \in Seq(S) /\ Len(Tail(s)) = Len(s) - 1 /\ Head(s) = s[1]
    OBVIOUS
  <1>3. \A i \in 1..Len(Tail(s)) : Tail(s)[i] = s[i + 1]
    OBVIOUS
  <1>. QED BY <1>1, <1>2, <1>3 DEF Range

\* A history stays a prefix as commits are appended.
LEMMA PrefixAppend ==
    ASSUME NEW S, NEW s \in Seq(S), NEW t \in Seq(S), NEW x \in S, IsPrefix(s, t)
    PROVE  IsPrefix(s, Append(t, x))
  BY DEF IsPrefix

\* A prefix holds no commit the whole does not.
LEMMA PrefixRange ==
    ASSUME NEW S, NEW s \in Seq(S), NEW t \in Seq(S), IsPrefix(s, t)
    PROVE  Range(s) \subseteq Range(t)
  <1>1. \A i \in 1..Len(s) : i \in 1..Len(t) /\ s[i] = t[i]
    BY DEF IsPrefix
  <1>. QED BY <1>1 DEF Range

LEMMA PrefixSelf ==
    ASSUME NEW S, NEW s \in Seq(S)
    PROVE  IsPrefix(s, s) /\ IsPrefix(<< >>, s)
  BY DEF IsPrefix

----------------------------------------------------------------------------
(* Types.                                                                  *)

Results == {"ok", "failed"}

\* The end of a job leaves every variable it writes in its shape.
LEMMA FinishType ==
    ASSUME TypeOK, NEW p \in Pods, NEW result \in Results, Finish(p, result)
    PROVE  /\ call' \in [Writes -> {"new", "queued", "ok", "failed", "lost"}]
           /\ queue' \in [Pods -> Seq(Jobs)]
           /\ worker' \in [Pods -> Workers]
           /\ acked' \in [Pods -> SUBSET Writes]
  <1>1. Off \in Workers /\ Idle \in Workers
    BY SMT DEF Off, Idle, Between, Attempt, Workers
  <1>2. worker' \in [Pods -> Workers]
    BY <1>1 DEF Finish, TypeOK
  <1>3. call' \in [Writes -> {"new", "queued", "ok", "failed", "lost"}]
    BY DEF Finish, TypeOK, Results
  <1>4. acked' \in [Pods -> SUBSET Writes]
    BY DEF Finish, TypeOK
  <1>. QED BY <1>2, <1>3, <1>4 DEF Finish, TypeOK

\* A worker goes from place to place with its job.
LEMMA GotoType ==
    ASSUME TypeOK, NEW p \in Pods,
           NEW at \in {"sync", "edit", "push", "unheard", "exited"}, Goto(p, at)
    PROVE  worker' \in [Pods -> Workers]
  <1>1. \A r \in Workers : [r EXCEPT !.at = at] \in Workers
    BY DEF Workers
  <1>2. worker \in [Pods -> Workers] /\ worker' = [worker EXCEPT ![p] = [worker[p] EXCEPT !.at = at]]
    BY DEF Goto, TypeOK
  <1>. QED BY <1>1, <1>2

\* A worker that turns to the listeners keeps its shape.
LEMMA TellingType ==
    ASSUME TypeOK, NEW p \in Pods, NEW head \in Seq(Commits), NEW landed \in BOOLEAN,
           worker' = [worker EXCEPT ![p] = Telling(@, head, landed)]
    PROVE  worker' \in [Pods -> Workers]
  <1>1. \A w \in Workers : Telling(w, head, landed) \in Workers
    BY DEF Telling, Workers
  <1>2. worker \in [Pods -> Workers]
    BY DEF TypeOK
  <1>. QED BY <1>1, <1>2

\* The next listener's turn comes.
LEMMA HearingType ==
    ASSUME TypeOK, NEW p \in Pods, worker' = [worker EXCEPT ![p].hearing = @ + 1]
    PROVE  worker' \in [Pods -> Workers]
  <1>1. \A w \in Workers : [w EXCEPT !.hearing = w.hearing + 1] \in Workers
    BY DEF Workers
  <1>2. /\ worker \in [Pods -> Workers]
        /\ worker' = [worker EXCEPT ![p] = [worker[p] EXCEPT !.hearing = worker[p].hearing + 1]]
    BY DEF TypeOK
  <1>. QED BY <1>1, <1>2

\* The push a worker sends is of its job, its head and its files.
Pushes ==
    [write : Jobs \cup {"start", "timed"}, base : Seq(Commits), tip : Seq(Commits)]

LEMMA SentType ==
    ASSUME TypeOK, NEW p \in Pods
    PROVE  Sent(p) \in Pushes
  <1>1. worker[p] \in Workers /\ checkout[p] \in Seq(Commits)
    BY DEF TypeOK
  <1>. QED BY <1>1 DEF Workers, Sent, Pushes, Jobs

LEMMA HearerType ==
    ASSUME NEW p \in Pods, Hearing(p)
    PROVE  Hearer(p) \in ListenerSet
  BY ListenersAssumption DEF Hearing, Hearer, Order, ListenerSet, Range

\* Only a write reaches the edit: a pull or a start is over once every listener
\* has heard.
EditsAWrite == \A p \in Pods : worker[p].at = "edit" => worker[p].job \in Writes

TypeInv == TypeOK /\ EditsAWrite

LEMMA InitType == Init => TypeInv
  <1> SUFFICES ASSUME Init PROVE TypeInv
    OBVIOUS
  <1>1. Off \in Workers
    BY SMT DEF Off, Between, Attempt, Workers
  <1>2. remote \in Seq(Commits)
    BY RootAssumption DEF Init, Commits
  <1>3. seen \in [Pods -> [ListenerSet -> Seq(Commits)]]
    BY DEF Init, Unread
  <1>4. index \in [Pods -> [ListenerSet -> SUBSET Commits]]
    BY DEF Init, Empty
  <1>5. TypeOK
    BY <1>1, <1>2, <1>3, <1>4 DEF Init, TypeOK
  <1>6. EditsAWrite
    BY DEF Init, Off, Between, Attempt, EditsAWrite
  <1>. QED BY <1>5, <1>6 DEF TypeInv

\* Every step keeps every variable in its shape.
LEMMA StepType ==
    ASSUME TypeInv, [Next]_vars
    PROVE  TypeOK'
  <1>. USE DEF callVars, listenerVars, bounds
  <1>. TypeOK
    BY DEF TypeInv
  <1>0. CASE UNCHANGED vars
    BY <1>0 DEF vars, TypeOK
  <1>1. ASSUME NEW p \in Pods, Start(p) PROVE TypeOK'
    <2>1. worker' \in [Pods -> Workers]
      BY <1>1, GotoType DEF Start
    <2>2. /\ Unread \in [ListenerSet -> Seq(Commits)]
          /\ Empty \in [ListenerSet -> SUBSET Commits]
      BY DEF Unread, Empty
    <2>. QED BY <1>1, <2>1, <2>2 DEF Start, TypeOK
  <1>2. ASSUME NEW p \in Pods, Take(p) PROVE TypeOK'
    <2>1. queue[p] \in Seq(Jobs) /\ queue[p] # << >>
      BY <1>2 DEF Take, TypeOK
    <2>2. Tail(queue[p]) \in Seq(Jobs) /\ Head(queue[p]) \in Jobs
      BY <2>1, RangeTail, RangeType
    <2>3. \A job \in Writes \cup {"pull", "timed"}, at \in {"sync", "drain"} :
             Between(at, job) \in Workers
      BY SMT DEF Between, Attempt, Workers
    <2>4. worker' \in [Pods -> Workers]
      BY <1>2, <2>2, <2>3 DEF Take, TypeOK, Jobs
    <2>. QED BY <1>2, <2>2, <2>4 DEF Take, TypeOK
  <1>3. ASSUME NEW p \in Pods, TimedPull(p) PROVE TypeOK'
    BY <1>3, GotoType DEF TimedPull, TypeOK
  <1>4. ASSUME NEW p \in Pods, Sync(p) PROVE TypeOK'
    <2>1. worker' \in [Pods -> Workers]
      BY <1>4, TellingType DEF Sync, TypeOK
    <2>. QED BY <1>4, <2>1 DEF Sync, TypeOK
  <1>5. ASSUME NEW p \in Pods, Hear(p) PROVE TypeOK'
    <2>1. worker' \in [Pods -> Workers]
      BY <1>5, HearingType DEF Hear
    <2>2. Hearer(p) \in ListenerSet
      BY <1>5, HearerType DEF Hear
    <2>3. worker[p].head \in Seq(Commits)
      BY DEF TypeOK, Workers
    <2>4. Changed(p, Hearer(p)) \subseteq Commits
      BY <2>3, RangeType DEF Changed
    <2>. QED BY <1>5, <2>1, <2>2, <2>3, <2>4 DEF Hear, TypeOK
  <1>6. ASSUME NEW p \in Pods, Heard(p) PROVE TypeOK'
    <2>1. CASE Goto(p, "edit") /\ UNCHANGED <<callVars, queue>>
      BY <1>6, <2>1, GotoType DEF Heard, TypeOK
    <2>2. CASE Finish(p, "ok")
      BY <1>6, <2>2, FinishType DEF Heard, TypeOK, Results
    <2>. QED BY <1>6, <2>1, <2>2 DEF Heard
  <1>7. ASSUME NEW p \in Pods, EditNothing(p) PROVE TypeOK'
    BY <1>7, FinishType DEF EditNothing, TypeOK, Results
  <1>8. ASSUME NEW p \in Pods, Edit(p) PROVE checkout' \in [Pods -> Seq(Commits)]
    BY <1>8 DEF Edit, TypeOK, Commits, TypeInv, EditsAWrite
  <1>9. ASSUME NEW p \in Pods, EditCommit(p) PROVE TypeOK'
    BY <1>8, <1>9, GotoType DEF EditCommit, TypeOK
  <1>10. ASSUME NEW p \in Pods, PushLands(p) PROVE TypeOK'
    <2>1. checkout[p] \in Seq(Commits)
      BY DEF TypeOK
    <2>2. worker' \in [Pods -> Workers]
      BY <1>10, <2>1, TellingType DEF PushLands
    <2>. QED BY <1>10, <2>1, <2>2 DEF PushLands, Accepted, TypeOK
  <1>11. ASSUME NEW p \in Pods, PushRejected(p) PROVE TypeOK'
    <2>1. CASE /\ worker' = [worker EXCEPT ![p] = Attempt("sync", @.job, @.tries + 1)]
               /\ UNCHANGED <<callVars, queue>>
      <3>1. \A w \in Workers : Attempt("sync", w.job, w.tries + 1) \in Workers
        BY DEF Attempt, Workers
      <3>2. worker' \in [Pods -> Workers]
        BY <2>1, <3>1 DEF TypeOK
      <3>. QED BY <1>11, <2>1, <3>2 DEF PushRejected, TypeOK
    <2>2. CASE Finish(p, "failed")
      BY <1>11, <2>2, FinishType DEF PushRejected, TypeOK, Results
    <2>. QED BY <1>11, <2>1, <2>2 DEF PushRejected
  <1>12. ASSUME NEW p \in Pods, PushGivesUp(p) PROVE TypeOK'
    BY <1>12, FinishType DEF PushGivesUp, TypeOK, Results
  <1>13. ASSUME NEW p \in Pods, Drain(p) PROVE TypeOK'
    <2>1. CASE queue[p] = << >> /\ Goto(p, "exited") /\ UNCHANGED <<call, queue>>
      BY <1>13, <2>1, GotoType DEF Drain, TypeOK
    <2>2. CASE /\ queue[p] # << >>
               /\ queue' = [queue EXCEPT ![p] = Tail(@)]
               /\ call' = IF Head(queue[p]) \in Writes
                          THEN [call EXCEPT ![Head(queue[p])] = "failed"] ELSE call
               /\ UNCHANGED worker
      <3>1. Tail(queue[p]) \in Seq(Jobs)
        BY <2>2, RangeTail DEF TypeOK
      <3>. QED BY <1>13, <2>2, <3>1 DEF Drain, TypeOK
    <2>. QED BY <1>13, <2>1, <2>2 DEF Drain
  <1>14. ASSUME NEW p \in Pods, SyncFails(p) PROVE TypeOK'
    BY <1>14, FinishType DEF SyncFails, Fault, TypeOK, Results
  <1>15. ASSUME NEW p \in Pods, HearFails(p) PROVE TypeOK'
    <2>1. UNCHANGED <<remote, checkout, seen, index, adrift, deaths>> /\ faults' = faults + 1
      BY <1>15 DEF HearFails, Fault
    <2>2. CASE worker[p].job = "start"
      <3>1. Finish(p, "failed")
        BY <1>15, <2>2 DEF HearFails
      <3>. QED BY <2>1, <3>1, FinishType DEF TypeOK, Results
    <2>3. CASE worker[p].job # "start"
      <3>1. worker' = [worker EXCEPT ![p].hearing = @ + 1] /\ UNCHANGED <<callVars, queue>>
        BY <1>15, <2>3 DEF HearFails
      <3>2. worker' \in [Pods -> Workers]
        BY <3>1, HearingType
      <3>. QED BY <2>1, <3>1, <3>2 DEF TypeOK
    <2>. QED BY <2>2, <2>3
  <1>16. ASSUME NEW p \in Pods, DiffFails(p) PROVE TypeOK'
    BY <1>16, FinishType DEF DiffFails, Fault, TypeOK, Results
  <1>17. ASSUME NEW p \in Pods, EditRefuses(p) PROVE TypeOK'
    BY <1>17, FinishType DEF EditRefuses, TypeOK, Results
  <1>18. ASSUME NEW p \in Pods, CommitFails(p) PROVE TypeOK'
    BY <1>8, <1>18, FinishType DEF CommitFails, Fault, TypeOK, Results
  <1>19. ASSUME NEW p \in Pods, PushUnheard(p) PROVE TypeOK'
    <2>1. adrift' \subseteq Pushes
      BY <1>19, SentType DEF PushUnheard, TypeOK, Pushes
    <2>2. worker' \in [Pods -> Workers]
      BY <1>19, GotoType DEF PushUnheard
    <2>. QED BY <1>19, <2>1, <2>2 DEF PushUnheard, Fault, TypeOK, Pushes
  <1>20. ASSUME NEW p \in Pods, PushFails(p) PROVE TypeOK'
    BY <1>20, FinishType DEF PushFails, Fault, TypeOK, Results
  <1>21. ASSUME NEW p \in Pods, Die(p) PROVE TypeOK'
    <2>1. Off \in Workers
      BY SMT DEF Off, Between, Attempt, Workers
    <2>2. /\ Unread \in [ListenerSet -> Seq(Commits)]
          /\ Empty \in [ListenerSet -> SUBSET Commits]
      BY DEF Unread, Empty
    <2>3. adrift' \subseteq Pushes
      BY <1>21, SentType DEF Die, TypeOK, Pushes
    <2>. QED BY <1>21, <2>1, <2>2, <2>3 DEF Die, TypeOK, Pushes
  <1>22. ASSUME NEW p \in Pods, Stop(p) PROVE TypeOK'
    BY <1>22 DEF Stop, TypeOK, Jobs
  <1>23. ASSUME NEW p \in Pods, Pull(p) PROVE TypeOK'
    BY <1>23 DEF Pull, TypeOK, Jobs
  <1>24. ASSUME NEW p \in Pods, NEW w \in Writes, Write(p, w) PROVE TypeOK'
    BY <1>24 DEF Write, TypeOK, Jobs
  <1>25. ASSUME NEW f \in Foreign, Push(f) PROVE TypeOK'
    BY <1>25 DEF Push, TypeOK, Commits
  <1>26. ASSUME NEW u \in adrift, AdriftLands(u) PROVE TypeOK'
    BY <1>26 DEF AdriftLands, TypeOK
  <1>. QED
    BY <1>0, <1>1, <1>2, <1>3, <1>4, <1>5, <1>6, <1>7, <1>9, <1>10, <1>11, <1>12, <1>13,
       <1>14, <1>15, <1>16, <1>17, <1>18, <1>19, <1>20, <1>21, <1>22, <1>23, <1>24, <1>25,
       <1>26
       DEF Next, Work, Trouble

\* No step takes anything but a write to the edit.
LEMMA StepEdit ==
    ASSUME TypeInv, [Next]_vars
    PROVE  EditsAWrite'
  <1>. TypeOK /\ EditsAWrite
    BY DEF TypeInv
  <1>. USE DEF callVars, listenerVars, bounds
  <1>. DEFINE Still == UNCHANGED worker
  <1>1. ASSUME NEW p \in Pods, NEW result \in Results, Finish(p, result)
        PROVE  EditsAWrite'
    BY <1>1 DEF Finish, Off, Idle, Between, Attempt, TypeOK, EditsAWrite
  <1>2. ASSUME NEW p \in Pods, NEW at \in {"sync", "push", "unheard", "exited"}, Goto(p, at)
        PROVE  EditsAWrite'
    BY <1>2 DEF Goto, TypeOK, Workers, EditsAWrite
  <1>3. ASSUME NEW p \in Pods, NEW head, NEW landed,
               worker' = [worker EXCEPT ![p] = Telling(@, head, landed)]
        PROVE  EditsAWrite'
    BY <1>3 DEF Telling, TypeOK, EditsAWrite
  <1>4. ASSUME NEW p \in Pods, worker' = [worker EXCEPT ![p].hearing = @ + 1]
        PROVE  EditsAWrite'
    BY <1>4 DEF TypeOK, Workers, EditsAWrite
  <1>5. ASSUME NEW p \in Pods, NEW at \in {"sync", "drain", "off"}, NEW job, NEW tries,
               worker' = [worker EXCEPT ![p] = Attempt(at, job, tries)]
        PROVE  EditsAWrite'
    BY <1>5 DEF Attempt, TypeOK, EditsAWrite
  <1>6. CASE Still
    BY <1>6 DEF EditsAWrite
  <1>7. ASSUME NEW p \in Pods, Heard(p) PROVE EditsAWrite'
    <2>1. CASE worker[p].job \in Writes /\ Goto(p, "edit")
      BY <2>1 DEF Goto, TypeOK, Workers, EditsAWrite
    <2>. QED BY <1>1, <1>7, <2>1 DEF Heard, Results
  <1>8. ASSUME NEW p \in Pods, Take(p) PROVE EditsAWrite'
    BY <1>5, <1>8 DEF Take, Between
  <1>9. ASSUME NEW p \in Pods, Work(p) PROVE EditsAWrite'
    <2>1. CASE TimedPull(p) \/ EditCommit(p)
      BY <1>2, <2>1 DEF TimedPull, EditCommit
    <2>2. CASE Sync(p) \/ PushLands(p)
      BY <1>3, <2>2 DEF Sync, PushLands
    <2>3. CASE Hear(p)
      BY <1>4, <2>3 DEF Hear
    <2>4. CASE EditNothing(p) \/ PushGivesUp(p)
      BY <1>1, <2>4 DEF EditNothing, PushGivesUp, Results
    <2>5. CASE PushRejected(p)
      BY <1>1, <1>5, <2>5 DEF PushRejected, Results
    <2>6. CASE Drain(p)
      BY <1>2, <1>6, <2>6 DEF Drain
    <2>. QED BY <1>7, <1>8, <1>9, <2>1, <2>2, <2>3, <2>4, <2>5, <2>6 DEF Work
  <1>10. ASSUME NEW p \in Pods, Trouble(p) PROVE EditsAWrite'
    <2>1. CASE SyncFails(p) \/ DiffFails(p) \/ EditRefuses(p) \/ CommitFails(p) \/ PushFails(p)
      BY <1>1, <2>1 DEF SyncFails, DiffFails, EditRefuses, CommitFails, PushFails, Results
    <2>2. CASE HearFails(p)
      BY <1>1, <1>4, <2>2 DEF HearFails, Results
    <2>3. CASE PushUnheard(p)
      BY <1>2, <2>3 DEF PushUnheard
    <2>. QED BY <1>10, <2>1, <2>2, <2>3 DEF Trouble
  <1>11. ASSUME NEW p \in Pods, Die(p) \/ Start(p) PROVE EditsAWrite'
    BY <1>2, <1>5, <1>11 DEF Die, Start, Off, Between
  <1>12. ASSUME NEW p \in Pods, Stop(p) \/ Pull(p) PROVE EditsAWrite'
    BY <1>6, <1>12 DEF Stop, Pull
  <1>13. ASSUME NEW p \in Pods, NEW w \in Writes, Write(p, w) PROVE EditsAWrite'
    BY <1>6, <1>13 DEF Write
  <1>14. ASSUME NEW f \in Foreign, Push(f) PROVE EditsAWrite'
    BY <1>6, <1>14 DEF Push
  <1>15. CASE UNCHANGED vars
    BY <1>6, <1>15 DEF vars
  <1>16. ASSUME NEW u \in adrift, AdriftLands(u) PROVE EditsAWrite'
    BY <1>6, <1>16 DEF AdriftLands
  <1>. QED BY <1>9, <1>10, <1>11, <1>12, <1>13, <1>14, <1>15, <1>16 DEF Next

\* Every variable keeps its shape, whatever the number of pods, writes and
\* listeners.
THEOREM TypeCorrect == Spec => []TypeOK
  <1>1. TypeInv /\ [Next]_vars => TypeInv'
    BY StepType, StepEdit DEF TypeInv
  <1>2. TypeInv => TypeOK
    BY DEF TypeInv
  <1>. QED BY InitType, <1>1, <1>2, PTL DEF Spec

----------------------------------------------------------------------------
(* A write is in one place: a queue, or a worker's hand.                   *)

\* A queue holds a write once.
Distinct(s) == \A i, j \in 1..Len(s) : s[i] = s[j] /\ s[i] \in Writes => i = j

LEMMA DistinctAppend ==
    ASSUME NEW s \in Seq(Jobs), NEW x \in Jobs, Distinct(s), x \notin Range(s) \cap Writes
    PROVE  Distinct(Append(s, x))
  <1>1. Len(Append(s, x)) = Len(s) + 1 /\ Append(s, x)[Len(s) + 1] = x
    OBVIOUS
  <1>2. \A i \in 1..Len(s) : Append(s, x)[i] = s[i] /\ s[i] \in Range(s)
    BY DEF Range
  <1>3. Len(s) \in Nat
    OBVIOUS
  <1>. QED BY <1>1, <1>2, <1>3 DEF Distinct

LEMMA DistinctTail ==
    ASSUME NEW s \in Seq(Jobs), s # << >>, Distinct(s)
    PROVE  /\ Distinct(Tail(s))
           /\ Head(s) \in Writes => Head(s) \notin Range(Tail(s))
  <1>1. Len(s) \in Nat /\ Len(s) > 0 /\ Head(s) = s[1] /\ Len(Tail(s)) = Len(s) - 1
    OBVIOUS
  <1>2. \A i \in 1..Len(Tail(s)) : Tail(s)[i] = s[i + 1]
    OBVIOUS
  <1>3. DOMAIN Tail(s) = 1..Len(Tail(s))
    OBVIOUS
  <1>4. Distinct(Tail(s))
    BY <1>1, <1>2 DEF Distinct
  <1>5. ASSUME Head(s) \in Writes, Head(s) \in Range(Tail(s)) PROVE FALSE
    <2>1. PICK i \in 1..Len(Tail(s)) : Tail(s)[i] = Head(s)
      BY <1>3, <1>5 DEF Range
    <2>2. s[i + 1] = s[1] /\ i + 1 \in 1..Len(s) /\ 1 \in 1..Len(s)
      BY <1>1, <1>2, <2>1
    <2>. QED BY <1>1, <1>5, <2>1, <2>2 DEF Distinct
  <1>. QED BY <1>4, <1>5

Alone ==
    /\ \A p, q \in Pods : p # q => InHand(p) \cap InHand(q) = {}
    /\ \A p \in Pods : worker[p].job \in Writes => worker[p].job \notin Range(queue[p])
    /\ \A p \in Pods : Distinct(queue[p])

\* Its caller waits.
Asked == \A p \in Pods : \A w \in InHand(p) : call[w] = "queued"

HandInv == Alone /\ Asked

LEMMA InitHand == Init => HandInv
  <1> SUFFICES ASSUME Init PROVE HandInv
    OBVIOUS
  <1>1. \A p \in Pods : queue[p] = << >> /\ worker[p].job = "start"
    BY DEF Init, Off, Between, Attempt
  <1>2. "start" \notin Writes
    BY CommitsAssumption
  <1>3. Range(<< >>) = {} /\ Distinct(<< >>)
    BY DEF Range, Distinct
  <1>. QED BY <1>1, <1>2, <1>3 DEF HandInv, Alone, Asked, InHand

\* A worker's step within its job moves no write.
LEMMA SameHand ==
    ASSUME HandInv, UNCHANGED <<call, queue>>, \A q \in Pods : worker'[q].job = worker[q].job
    PROVE  HandInv'
  BY DEF HandInv, Alone, Asked, InHand

\* A job that is over is in no hand, and no other write's caller hears of it.
LEMMA FinishHand ==
    ASSUME TypeOK, HandInv, NEW p \in Pods, NEW result \in Results, Finish(p, result)
    PROVE  HandInv'
  <1>1. worker'[p].job \notin Writes /\ \A q \in Pods : q # p => worker'[q] = worker[q]
    BY CommitsAssumption DEF Finish, Off, Idle, Between, Attempt, TypeOK
  <1>2. queue' = queue
    BY DEF Finish
  <1>3. InHand(p)' = Range(queue[p]) \cap Writes
    BY <1>1, <1>2 DEF InHand
  <1>4. \A q \in Pods : q # p => InHand(q)' = InHand(q)
    BY <1>1, <1>2 DEF InHand
  <1>5. \A w \in Writes : w # worker[p].job => call'[w] = call[w]
    BY DEF Finish, TypeOK
  <1>6. worker[p].job \in Writes => worker[p].job \in InHand(p)
    BY DEF InHand
  <1>7. \A q \in Pods : InHand(q)' \subseteq InHand(q) /\ InHand(q) \subseteq Writes
    BY <1>3, <1>4 DEF InHand
  <1>8. ASSUME NEW q \in Pods, NEW w \in InHand(q)'
        PROVE  w # worker[p].job
    <2>1. CASE q = p
      BY <1>3, <1>8, <2>1 DEF HandInv, Alone
    <2>2. CASE q # p
      <3>1. w \in InHand(q) /\ w \in Writes
        BY <1>7, <1>8
      <3>2. InHand(p) \cap InHand(q) = {}
        BY <2>2 DEF HandInv, Alone
      <3>. QED BY <1>6, <3>1, <3>2
    <2>. QED BY <2>1, <2>2
  <1>9. Asked'
    BY <1>5, <1>7, <1>8 DEF HandInv, Asked
  <1>10. Alone'
    BY <1>1, <1>2, <1>7 DEF HandInv, Alone
  <1>. QED BY <1>9, <1>10 DEF HandInv

\* A job joins a queue: a write that was in no hand, or no write.
LEMMA AppendHand ==
    ASSUME TypeOK, HandInv, NEW p \in Pods, NEW job \in Jobs,
           queue' = [queue EXCEPT ![p] = Append(@, job)], UNCHANGED worker,
           job \in Writes => \A q \in Pods : job \notin InHand(q),
           \A w \in Writes : w # job => call'[w] = call[w],
           job \in Writes => call'[job] = "queued"
    PROVE  HandInv'
  <1>1. queue[p] \in Seq(Jobs) /\ queue'[p] = Append(queue[p], job)
    BY DEF TypeOK
  <1>2. Range(queue'[p]) = Range(queue[p]) \cup {job}
    BY <1>1, RangeAppend
  <1>3. \A q \in Pods : q # p => queue'[q] = queue[q]
    BY DEF TypeOK
  <1>4. InHand(p)' = InHand(p) \cup ({job} \cap Writes)
    BY <1>2 DEF InHand
  <1>5. \A q \in Pods : q # p => InHand(q)' = InHand(q)
    BY <1>3 DEF InHand
  <1>6. Distinct(queue'[p])
    <2>1. job \notin Range(queue[p]) \cap Writes
      BY DEF InHand
    <2>. QED BY <1>1, <2>1, DistinctAppend DEF HandInv, Alone
  <1>7. \A q \in Pods : Distinct(queue'[q])
    BY <1>3, <1>6 DEF HandInv, Alone
  <1>8. ASSUME NEW q \in Pods, worker[q].job \in Writes
        PROVE  worker[q].job \notin Range(queue'[q])
    <2>1. worker[q].job \notin Range(queue[q]) /\ worker[q].job \in InHand(q)
      BY <1>8 DEF HandInv, Alone, InHand
    <2>2. CASE q = p
      BY <1>2, <1>8, <2>1, <2>2
    <2>3. CASE q # p
      BY <1>3, <2>1, <2>3
    <2>. QED BY <2>2, <2>3
  <1>9. Alone'
    BY <1>4, <1>5, <1>7, <1>8 DEF HandInv, Alone
  <1>10. \A q \in Pods : InHand(q) \subseteq Writes
    BY DEF InHand
  <1>11. Asked'
    BY <1>4, <1>5, <1>10 DEF HandInv, Asked
  <1>. QED BY <1>9, <1>11 DEF HandInv

\* The worker takes the first job: a write goes from the queue to its hand.
LEMMA TakeHand ==
    ASSUME TypeOK, HandInv, NEW p \in Pods, Take(p)
    PROVE  HandInv'
  <1>1. queue[p] \in Seq(Jobs) /\ queue[p] # << >> /\ Distinct(queue[p])
    BY DEF Take, TypeOK, HandInv, Alone
  <1>2. queue'[p] = Tail(queue[p])
    BY DEF Take, TypeOK
  <1>3. /\ Head(queue[p]) \in Range(queue[p])
        /\ Range(queue'[p]) \subseteq Range(queue[p])
    BY <1>1, <1>2, RangeTail
  <1>4. /\ Distinct(queue'[p])
        /\ Head(queue[p]) \in Writes => Head(queue[p]) \notin Range(queue'[p])
    BY <1>1, <1>2, DistinctTail
  <1>5. worker'[p].job \in Writes => worker'[p].job = Head(queue[p])
    BY CommitsAssumption DEF Take, Between, Attempt, TypeOK
  <1>6. \A q \in Pods : q # p => queue'[q] = queue[q] /\ worker'[q] = worker[q]
    BY DEF Take, TypeOK
  <1>7. InHand(p)' \subseteq InHand(p)
    BY <1>3, <1>5 DEF InHand
  <1>8. \A q \in Pods : InHand(q)' \subseteq InHand(q)
    BY <1>6, <1>7 DEF InHand
  <1>9. Asked'
    BY <1>8 DEF HandInv, Asked, Take, callVars
  <1>10. \A q \in Pods : Distinct(queue'[q])
    BY <1>4, <1>6 DEF HandInv, Alone
  <1>11. \A q \in Pods : worker'[q].job \in Writes => worker'[q].job \notin Range(queue'[q])
    BY <1>4, <1>5, <1>6 DEF HandInv, Alone
  <1>12. Alone'
    BY <1>8, <1>10, <1>11 DEF HandInv, Alone
  <1>. QED BY <1>9, <1>12 DEF HandInv

\* The worker that ends fails the first job behind the pill.
LEMMA DrainHand ==
    ASSUME TypeOK, HandInv, NEW p \in Pods, Drain(p)
    PROVE  HandInv'
  <1>1. CASE queue[p] = << >>
    <2>1. Goto(p, "exited") /\ UNCHANGED <<call, queue>>
      BY <1>1 DEF Drain
    <2>2. \A q \in Pods : worker'[q].job = worker[q].job
      BY <2>1 DEF Goto, TypeOK, Workers
    <2>. QED BY <2>1, <2>2, SameHand
  <1>2. CASE queue[p] # << >>
    <2>1. queue[p] \in Seq(Jobs) /\ Distinct(queue[p])
      BY DEF TypeOK, HandInv, Alone
    <2>2. queue'[p] = Tail(queue[p]) /\ worker' = worker
      BY <1>2 DEF Drain, TypeOK
    <2>3. /\ Head(queue[p]) \in Range(queue[p])
          /\ Range(queue'[p]) \subseteq Range(queue[p])
      BY <1>2, <2>1, <2>2, RangeTail
    <2>4. /\ Distinct(queue'[p])
          /\ Head(queue[p]) \in Writes => Head(queue[p]) \notin Range(queue'[p])
      BY <1>2, <2>1, <2>2, DistinctTail
    <2>5. \A q \in Pods : q # p => queue'[q] = queue[q]
      BY <1>2 DEF Drain, TypeOK
    <2>6. \A q \in Pods : InHand(q)' \subseteq InHand(q)
      BY <2>2, <2>3, <2>5 DEF InHand
    <2>7. \A w \in Writes : w # Head(queue[p]) => call'[w] = call[w]
      BY <1>2 DEF Drain, TypeOK
    <2>8. ASSUME NEW q \in Pods, NEW w \in InHand(q)'
          PROVE  w # Head(queue[p]) /\ w \in InHand(q) /\ w \in Writes
      <3>1. w \in InHand(q) /\ w \in Writes
        BY <2>6, <2>8 DEF InHand
      <3>2. CASE q = p
        <4>1. w \in Range(queue'[p]) \/ w = worker[p].job
          BY <2>2, <2>8, <3>2 DEF InHand
        <4>. QED BY <2>3, <2>4, <3>1, <4>1 DEF HandInv, Alone
      <3>3. CASE q # p
        <4>1. InHand(p) \cap InHand(q) = {}
          BY <3>3 DEF HandInv, Alone
        <4>2. Head(queue[p]) \in Writes => Head(queue[p]) \in InHand(p)
          BY <2>3 DEF InHand
        <4>. QED BY <3>1, <4>1, <4>2
      <3>. QED BY <3>1, <3>2, <3>3
    <2>9. Asked'
      BY <2>7, <2>8 DEF HandInv, Asked
    <2>10. \A q \in Pods : Distinct(queue'[q])
      BY <2>4, <2>5 DEF HandInv, Alone
    <2>11. \A q \in Pods : worker'[q].job \in Writes => worker'[q].job \notin Range(queue'[q])
      BY <2>2, <2>3, <2>5 DEF HandInv, Alone
    <2>12. Alone'
      BY <2>6, <2>10, <2>11 DEF HandInv, Alone
    <2>. QED BY <2>9, <2>12 DEF HandInv
  <1>. QED BY <1>1, <1>2

\* A pod that dies loses what it had in hand, and its callers no other.
LEMMA DieHand ==
    ASSUME TypeOK, HandInv, NEW p \in Pods, Die(p)
    PROVE  HandInv'
  <1>1. queue'[p] = << >> /\ worker'[p].job = "start"
    BY DEF Die, Off, Between, Attempt, TypeOK
  <1>2. \A q \in Pods : q # p => queue'[q] = queue[q] /\ worker'[q] = worker[q]
    BY DEF Die, TypeOK
  <1>3. "start" \notin Writes /\ Range(<< >>) = {} /\ Distinct(<< >>)
    BY CommitsAssumption DEF Range, Distinct
  <1>4. InHand(p)' = {}
    BY <1>1, <1>3 DEF InHand
  <1>5. \A q \in Pods : q # p => InHand(q)' = InHand(q) /\ InHand(q) \subseteq Writes
    BY <1>2 DEF InHand
  <1>6. \A w \in Writes : w \notin InHand(p) => call'[w] = call[w]
    BY DEF Die
  <1>7. Asked'
    BY <1>4, <1>5, <1>6 DEF HandInv, Asked, Alone
  <1>8. \A q \in Pods : Distinct(queue'[q])
    BY <1>1, <1>2, <1>3 DEF HandInv, Alone
  <1>9. \A q \in Pods : worker'[q].job \in Writes => worker'[q].job \notin Range(queue'[q])
    BY <1>1, <1>2, <1>3 DEF HandInv, Alone
  <1>10. Alone'
    BY <1>4, <1>5, <1>8, <1>9 DEF HandInv, Alone
  <1>. QED BY <1>7, <1>10 DEF HandInv

LEMMA StepHand ==
    ASSUME TypeOK, HandInv, [Next]_vars
    PROVE  HandInv'
  <1>. USE DEF callVars
  <1>1. ASSUME NEW p \in Pods, NEW at, Goto(p, at), UNCHANGED <<call, queue>>
        PROVE  HandInv'
    <2>1. \A q \in Pods : worker'[q].job = worker[q].job
      BY <1>1 DEF Goto, TypeOK, Workers
    <2>. QED BY <1>1, <2>1, SameHand
  <1>2. ASSUME NEW p \in Pods, NEW head, NEW landed, UNCHANGED <<call, queue>>,
               worker' = [worker EXCEPT ![p] = Telling(@, head, landed)]
        PROVE  HandInv'
    <2>1. \A q \in Pods : worker'[q].job = worker[q].job
      BY <1>2 DEF Telling, TypeOK
    <2>. QED BY <1>2, <2>1, SameHand
  <1>3. ASSUME NEW p \in Pods, UNCHANGED <<call, queue>>,
               worker' = [worker EXCEPT ![p].hearing = @ + 1]
        PROVE  HandInv'
    <2>1. \A q \in Pods : worker'[q].job = worker[q].job
      BY <1>3 DEF TypeOK, Workers
    <2>. QED BY <1>3, <2>1, SameHand
  <1>4. CASE UNCHANGED <<call, queue, worker>>
    BY <1>4, SameHand
  <1>5. ASSUME NEW p \in Pods, Work(p) PROVE HandInv'
    <2>1. CASE Take(p)
      BY <2>1, TakeHand
    <2>2. CASE TimedPull(p) \/ EditCommit(p)
      BY <1>1, <2>2 DEF TimedPull, EditCommit
    <2>3. CASE Sync(p) \/ PushLands(p)
      BY <1>2, <2>3 DEF Sync, PushLands
    <2>4. CASE Hear(p)
      BY <1>3, <2>4 DEF Hear
    <2>5. CASE Heard(p)
      BY <1>1, <2>5, FinishHand DEF Heard, Results
    <2>6. CASE EditNothing(p) \/ PushGivesUp(p)
      BY <2>6, FinishHand DEF EditNothing, PushGivesUp, Results
    <2>7. CASE PushRejected(p)
      <3>1. CASE /\ worker' = [worker EXCEPT ![p] = Attempt("sync", @.job, @.tries + 1)]
                 /\ UNCHANGED <<call, queue>>
        <4>1. \A q \in Pods : worker'[q].job = worker[q].job
          BY <3>1 DEF Attempt, TypeOK
        <4>. QED BY <3>1, <4>1, SameHand
      <3>. QED BY <2>7, <3>1, FinishHand DEF PushRejected, Results
    <2>8. CASE Drain(p)
      BY <2>8, DrainHand
    <2>. QED BY <1>5, <2>1, <2>2, <2>3, <2>4, <2>5, <2>6, <2>7, <2>8 DEF Work
  <1>6. ASSUME NEW p \in Pods, Trouble(p) PROVE HandInv'
    <2>1. CASE SyncFails(p) \/ DiffFails(p) \/ EditRefuses(p) \/ CommitFails(p) \/ PushFails(p)
      BY <2>1, FinishHand
         DEF SyncFails, DiffFails, EditRefuses, CommitFails, PushFails, Results
    <2>2. CASE HearFails(p)
      BY <1>3, <2>2, FinishHand DEF HearFails, Results
    <2>3. CASE PushUnheard(p)
      BY <1>1, <2>3 DEF PushUnheard
    <2>. QED BY <1>6, <2>1, <2>2, <2>3 DEF Trouble
  <1>7. ASSUME NEW p \in Pods, Start(p) PROVE HandInv'
    BY <1>1, <1>7 DEF Start
  <1>8. ASSUME NEW p \in Pods, Stop(p) \/ Pull(p) PROVE HandInv'
    <2>1. "stop" \notin Writes /\ "pull" \notin Writes /\ "stop" \in Jobs /\ "pull" \in Jobs
      BY CommitsAssumption DEF Jobs
    <2>2. call' = call /\ worker' = worker
      BY <1>8 DEF Stop, Pull
    <2>3. CASE Stop(p)
      <3>1. queue' = [queue EXCEPT ![p] = Append(@, "stop")]
        BY <2>3 DEF Stop
      <3>. QED BY <2>1, <2>2, <3>1, AppendHand
    <2>4. CASE Pull(p)
      <3>1. queue' = [queue EXCEPT ![p] = Append(@, "pull")]
        BY <2>4 DEF Pull
      <3>. QED BY <2>1, <2>2, <3>1, AppendHand
    <2>. QED BY <1>8, <2>3, <2>4
  <1>9. ASSUME NEW p \in Pods, NEW w \in Writes, Write(p, w) PROVE HandInv'
    <2>1. \A q \in Pods : w \notin InHand(q)
      BY <1>9 DEF Write, HandInv, Asked
    <2>2. /\ queue' = [queue EXCEPT ![p] = Append(@, w)] /\ UNCHANGED worker
          /\ w \in Jobs
          /\ call'[w] = "queued" /\ \A v \in Writes : v # w => call'[v] = call[v]
      BY <1>9 DEF Write, TypeOK, Jobs
    <2>. QED BY <2>1, <2>2, AppendHand
  <1>10. ASSUME NEW f \in Foreign, Push(f) PROVE HandInv'
    BY <1>4, <1>10 DEF Push
  <1>11. CASE UNCHANGED vars
    BY <1>4, <1>11 DEF vars
  <1>12. ASSUME NEW u \in adrift, AdriftLands(u) PROVE HandInv'
    BY <1>4, <1>12 DEF AdriftLands
  <1>. QED BY <1>5, <1>6, <1>7, <1>8, <1>9, <1>10, <1>11, <1>12, DieHand DEF Next

----------------------------------------------------------------------------
(* A worker works on a history the remote has had.                         *)

\* What its files hold as it tells the listeners, edits and pushes: the tip it
\* fetched, and its own write on it.
Stage(p) ==
    /\ worker[p].at \in {"advance", "edit", "push"} => IsPrefix(worker[p].head, remote)
    /\ worker[p].at = "advance" /\ ~worker[p].landed => checkout[p] = worker[p].head
    /\ worker[p].at = "edit" => checkout[p] = worker[p].head
    /\ worker[p].at = "push" =>
         /\ worker[p].job \in Writes
         /\ checkout[p] = Append(worker[p].head, worker[p].job)
         /\ worker[p].job \notin Range(worker[p].head)
    /\ worker[p].landed =>
         /\ worker[p].at = "advance"
         /\ worker[p].job \in Writes
         /\ worker[p].job \in Range(worker[p].head)

\* A push that is adrift appends its write to the head it was made on.
Appends(u) ==
    u.write \in Writes /\ u.tip = Append(u.base, u.write) /\ u.write \notin Range(u.base)

\* A push is taken only on the head it was made on; an empty remote has none.
HistoryInv ==
    /\ remote # << >>
    /\ \A p \in Pods : Stage(p)
    /\ \A u \in adrift : Appends(u)
    /\ SeenIsOnRemote

LEMMA InitHistory ==
    ASSUME Root # << >>, Init
    PROVE  HistoryInv
  <1>1. \A p \in Pods : worker[p].at = "off" /\ worker[p].landed = FALSE
    BY DEF Init, Off, Between, Attempt
  <1>2. \A p \in Pods : Stage(p)
    BY <1>1 DEF Stage
  <1>3. remote \in Seq(Commits)
    BY RootAssumption DEF Init, Commits
  <1>4. SeenIsOnRemote
    BY <1>3, PrefixSelf DEF Init, Unread, SeenIsOnRemote
  <1>. QED BY <1>2, <1>4 DEF HistoryInv, Init

\* A push of a pod appends its write, one the remote did not have.
LEMMA AcceptedAppends ==
    ASSUME TypeOK, HistoryInv, NEW p \in Pods, Accepted(p)
    PROVE  /\ worker[p].job \in Writes
           /\ worker[p].job \notin Range(remote)
           /\ remote' = Append(remote, worker[p].job)
  BY DEF Accepted, HistoryInv, Stage

\* So does one that is adrift, and the pushes adrift are those sent.
LEMMA AdriftAppends ==
    ASSUME TypeOK, HistoryInv, NEW u \in adrift, AdriftLands(u)
    PROVE  /\ u.write \in Writes
           /\ u.write \notin Range(remote)
           /\ remote' = Append(remote, u.write)
  BY DEF AdriftLands, HistoryInv, Appends

LEMMA StaysAdrift ==
    ASSUME TypeOK, HistoryInv, [Next]_vars, NEW u \in adrift'
    PROVE  Appends(u)
  <1>1. ASSUME NEW p \in Pods, worker[p].at = "push" PROVE Appends(Sent(p))
    BY <1>1 DEF HistoryInv, Stage, Sent, Appends
  <1>2. CASE u \in adrift
    BY <1>2 DEF HistoryInv
  <1>3. CASE adrift' = adrift
    BY <1>2, <1>3
  <1>4. ASSUME NEW p \in Pods, Work(p) PROVE adrift' = adrift
    BY <1>4
       DEF Work, Take, TimedPull, Sync, Hear, Heard, EditNothing, EditCommit, PushLands,
           PushRejected, PushGivesUp, Drain
  <1>5. ASSUME NEW p \in Pods, Trouble(p) PROVE Appends(u)
    BY <1>1, <1>2, <1>3, <1>5
       DEF Trouble, SyncFails, HearFails, DiffFails, EditRefuses, CommitFails, PushUnheard,
           PushFails
  <1>6. ASSUME NEW p \in Pods, Start(p) \/ Die(p) \/ Stop(p) \/ Pull(p) PROVE Appends(u)
    BY <1>1, <1>2, <1>3, <1>6 DEF Start, Die, Stop, Pull
  <1>7. ASSUME NEW p \in Pods, NEW w \in Writes, Write(p, w) PROVE adrift' = adrift
    BY <1>7 DEF Write
  <1>8. ASSUME \/ \E f \in Foreign : Push(f)
               \/ \E v \in adrift : AdriftLands(v)
               \/ UNCHANGED vars
        PROVE  adrift' = adrift
    BY <1>8 DEF Push, AdriftLands, vars
  <1>. QED BY <1>3, <1>4, <1>5, <1>6, <1>7, <1>8 DEF Next

\* `main` only grows, a commit at a time.
Grows == remote' = remote \/ \E c \in Commits : remote' = Append(remote, c)

LEMMA RemoteGrows ==
    ASSUME TypeOK, HistoryInv, [Next]_vars
    PROVE  Grows
  <1>1. ASSUME NEW p \in Pods, Accepted(p) PROVE Grows
    BY <1>1, AcceptedAppends DEF Grows, Commits
  <1>2. ASSUME NEW f \in Foreign, Push(f) PROVE Grows
    BY <1>2 DEF Push, Grows, Commits
  <1>3. CASE remote' = remote
    BY <1>3 DEF Grows
  <1>4. ASSUME NEW p \in Pods, Work(p) \/ Trouble(p) PROVE Grows
    BY <1>1, <1>3, <1>4
       DEF Work, Take, TimedPull, Sync, Hear, Heard, EditNothing, EditCommit, PushLands,
           PushRejected, PushGivesUp, Drain, Trouble, SyncFails, HearFails, DiffFails,
           EditRefuses, CommitFails, PushUnheard, PushFails
  <1>5. ASSUME NEW p \in Pods, Start(p) \/ Die(p) \/ Stop(p) \/ Pull(p) PROVE Grows
    BY <1>3, <1>5 DEF Start, Die, Stop, Pull
  <1>6. ASSUME NEW p \in Pods, NEW w \in Writes, Write(p, w) PROVE Grows
    BY <1>3, <1>6 DEF Write
  <1>7. ASSUME NEW u \in adrift, AdriftLands(u) PROVE Grows
    BY <1>7, AdriftAppends DEF Grows, Commits
  <1>. QED BY <1>2, <1>3, <1>4, <1>5, <1>6, <1>7 DEF Next, vars

\* A prefix of `main` stays one.
LEMMA StaysPrefix ==
    ASSUME TypeOK, Grows, NEW s \in Seq(Commits), IsPrefix(s, remote)
    PROVE  IsPrefix(s, remote')
  <1>1. remote \in Seq(Commits)
    BY DEF TypeOK
  <1>. QED BY <1>1, PrefixAppend DEF Grows

\* A worker that does not move keeps its stage.
LEMMA StageKept ==
    ASSUME TypeOK, Grows, NEW q \in Pods, Stage(q),
           worker'[q] = worker[q], checkout'[q] = checkout[q]
    PROVE  Stage(q)'
  <1>1. worker[q].head \in Seq(Commits)
    BY DEF TypeOK, Workers
  <1>. QED BY <1>1, StaysPrefix DEF Stage

\* Nor has a worker between jobs anything to keep.
LEMMA StageLeft ==
    ASSUME TypeOK, NEW p \in Pods, worker'[p].landed = FALSE,
           worker'[p].at \in {"off", "idle", "sync", "unheard", "drain", "exited"}
    PROVE  Stage(p)'
  BY DEF Stage

LEMMA StageOver ==
    ASSUME TypeOK, NEW p \in Pods, NEW result \in Results, Finish(p, result)
    PROVE  Stage(p)'
  <1>1. worker'[p] \in {Off, Idle}
    BY DEF Finish, TypeOK
  <1>2. worker'[p].landed = FALSE /\ worker'[p].at \in {"off", "idle"}
    BY <1>1 DEF Off, Idle, Between, Attempt
  <1>. QED BY <1>2, StageLeft

\* One pod's step moves no other pod's worker and writes no other's files.
PodStep(p) == Start(p) \/ Work(p) \/ Trouble(p) \/ Die(p) \/ Stop(p) \/ Pull(p)

LEMMA OthersStand ==
    ASSUME TypeOK, NEW p \in Pods, PodStep(p), NEW q \in Pods, q # p
    PROVE  worker'[q] = worker[q] /\ checkout'[q] = checkout[q]
  <1>1. CASE Start(p) \/ Die(p) \/ Stop(p) \/ Pull(p)
    BY <1>1 DEF Start, Goto, Die, Stop, Pull, TypeOK
  <1>2. CASE Take(p) \/ TimedPull(p) \/ Sync(p) \/ Hear(p) \/ Heard(p) \/ EditNothing(p)
    BY <1>2 DEF Take, TimedPull, Goto, Sync, Hear, Heard, EditNothing, Finish, TypeOK
  <1>3. CASE EditCommit(p) \/ PushLands(p) \/ PushRejected(p) \/ PushGivesUp(p) \/ Drain(p)
    BY <1>3 DEF EditCommit, Edit, Goto, PushLands, PushRejected, PushGivesUp, Drain, Finish,
                TypeOK
  <1>4. CASE SyncFails(p) \/ DiffFails(p) \/ EditRefuses(p) \/ CommitFails(p) \/ PushFails(p)
    BY <1>4 DEF SyncFails, DiffFails, EditRefuses, CommitFails, PushFails, Edit, Finish, TypeOK
  <1>5. CASE PushUnheard(p)
    BY <1>5 DEF PushUnheard, Goto, TypeOK
  <1>6. CASE HearFails(p)
    <2>1. CASE Finish(p, "failed")
      BY <1>6, <2>1 DEF HearFails, Finish, TypeOK
    <2>2. CASE worker' = [worker EXCEPT ![p].hearing = @ + 1]
      BY <1>6, <2>2 DEF HearFails, TypeOK
    <2>. QED BY <1>6, <2>1, <2>2 DEF HearFails
  <1>. QED BY <1>6, <1>1, <1>2, <1>3, <1>4, <1>5 DEF PodStep, Work, Trouble

\* A pod's step takes its own worker from stage to stage.
LEMMA PodStage ==
    ASSUME TypeInv, HistoryInv, Grows, NEW p \in Pods, PodStep(p)
    PROVE  Stage(p)'
  <1>. /\ TypeOK /\ Stage(p) /\ remote # << >>
       /\ worker[p] \in Workers /\ worker[p].head \in Seq(Commits)
    BY DEF TypeInv, HistoryInv, TypeOK, Workers
  <1>1. ASSUME NEW at \in {"sync", "unheard", "exited"}, Goto(p, at), ~worker[p].landed
        PROVE  Stage(p)'
    <2>1. worker'[p].landed = FALSE /\ worker'[p].at = at
      BY <1>1 DEF Goto, TypeOK, Workers
    <2>. QED BY <2>1, StageLeft
  <1>2. ASSUME NEW at \in {"sync", "drain", "off"}, NEW job, NEW tries,
               worker'[p] = Attempt(at, job, tries)
        PROVE  Stage(p)'
    <2>1. worker'[p].at = at /\ worker'[p].landed = FALSE
      BY <1>2 DEF Attempt
    <2>. QED BY <2>1, StageLeft
  <1>3. CASE Start(p)
    BY <1>1, <1>3 DEF Start, Stage
  <1>4. CASE Take(p)
    BY <1>2, <1>4 DEF Take, Between, TypeOK
  <1>5. CASE TimedPull(p)
    BY <1>1, <1>5 DEF TimedPull, Stage
  <1>6. CASE Sync(p)
    <2>1. worker'[p] = Telling(worker[p], remote, FALSE) /\ remote' = remote
      BY <1>6 DEF Sync, TypeOK
    <2>2. checkout'[p] = remote
      BY <1>6 DEF Sync, TypeOK
    <2>3. IsPrefix(remote, remote)
      BY PrefixSelf DEF TypeOK
    <2>. QED BY <2>1, <2>2, <2>3 DEF Stage, Telling
  <1>7. ASSUME worker' = [worker EXCEPT ![p].hearing = @ + 1], UNCHANGED <<remote, checkout>>
        PROVE  Stage(p)'
    <2>1. \A w \in Workers : LET v == [w EXCEPT !.hearing = w.hearing + 1] IN
            v.at = w.at /\ v.job = w.job /\ v.head = w.head /\ v.landed = w.landed
      BY DEF Workers
    <2>2. worker'[p] = [worker[p] EXCEPT !.hearing = worker[p].hearing + 1]
      BY <1>7 DEF TypeOK
    <2>. QED BY <1>7, <2>1, <2>2 DEF Stage
  <1>8. CASE Hear(p)
    BY <1>7, <1>8 DEF Hear
  <1>9. CASE Heard(p)
    <2>1. CASE worker[p].job \in Writes /\ ~worker[p].landed /\ Goto(p, "edit")
      <3>1. /\ worker'[p].at = "edit" /\ worker'[p].landed = FALSE
            /\ worker'[p].head = worker[p].head
        BY <2>1 DEF Goto, TypeOK, Workers
      <3>2. worker[p].at = "advance" /\ UNCHANGED <<remote, checkout>>
        BY <1>9 DEF Heard
      <3>. QED BY <2>1, <3>1, <3>2 DEF Stage
    <2>. QED BY <1>9, <2>1, StageOver DEF Heard, Results
  <1>10. CASE EditNothing(p) \/ PushGivesUp(p)
    BY <1>10, StageOver DEF EditNothing, PushGivesUp, Results
  <1>11. CASE EditCommit(p)
    <2>1. worker'[p] = [worker[p] EXCEPT !.at = "push"]
      BY <1>11 DEF EditCommit, Goto, TypeOK
    <2>2. /\ worker'[p].at = "push" /\ worker'[p].landed = worker[p].landed
          /\ worker'[p].head = worker[p].head /\ worker'[p].job = worker[p].job
      BY <2>1 DEF Workers
    <2>3. /\ checkout'[p] = Append(checkout[p], worker[p].job)
          /\ worker[p].at = "edit" /\ ~Holds(checkout[p], worker[p].job)
          /\ remote' = remote
      BY <1>11 DEF EditCommit, Edit, TypeOK
    <2>4. worker[p].job \notin Range(checkout[p])
      BY <2>3 DEF Holds
    <2>5. worker[p].job \in Writes
      BY <2>3 DEF TypeInv, EditsAWrite
    <2>. QED BY <2>2, <2>3, <2>4, <2>5 DEF Stage
  <1>12. CASE PushLands(p)
    <2>1. worker'[p] = Telling(worker[p], checkout[p], TRUE) /\ remote' = checkout[p]
      BY <1>12 DEF PushLands, Accepted, TypeOK
    <2>2. worker[p].at = "push"
      BY <1>12 DEF PushLands, Accepted
    <2>3. worker[p].job \in Writes /\ worker[p].job \in Range(checkout[p])
      <3>1. worker[p].job \in Commits /\ checkout[p] = Append(worker[p].head, worker[p].job)
        BY <2>2 DEF Stage, Commits
      <3>2. Range(checkout[p]) = Range(worker[p].head) \cup {worker[p].job}
        BY <3>1, RangeAppend
      <3>. QED BY <2>2, <3>2 DEF Stage
    <2>4. IsPrefix(checkout[p], checkout[p])
      BY PrefixSelf DEF TypeOK
    <2>. QED BY <2>1, <2>2, <2>3, <2>4 DEF Stage, Telling
  <1>13. CASE PushRejected(p)
    BY <1>2, <1>13, StageOver DEF PushRejected, Results, TypeOK
  <1>14. CASE Drain(p)
    <2>1. CASE Goto(p, "exited")
      BY <1>1, <1>14, <2>1 DEF Drain, Stage
    <2>2. CASE UNCHANGED worker
      BY <1>14, <2>2, StageKept DEF Drain
    <2>. QED BY <1>14, <2>1, <2>2 DEF Drain
  <1>15. CASE SyncFails(p) \/ DiffFails(p) \/ EditRefuses(p) \/ CommitFails(p) \/ PushFails(p)
    BY <1>15, StageOver DEF SyncFails, DiffFails, EditRefuses, CommitFails, PushFails, Results
  <1>16. CASE HearFails(p)
    BY <1>7, <1>16, StageOver DEF HearFails, Results
  <1>17. CASE PushUnheard(p)
    BY <1>1, <1>17 DEF PushUnheard, Stage
  <1>18. CASE Die(p)
    BY <1>2, <1>18 DEF Die, Off, Between, TypeOK
  <1>19. CASE Stop(p) \/ Pull(p)
    BY <1>19, StageKept DEF Stop, Pull
  <1>. QED
    BY <1>3, <1>4, <1>5, <1>6, <1>8, <1>9, <1>10, <1>11, <1>12, <1>13, <1>14, <1>15, <1>16,
       <1>17, <1>18, <1>19 DEF PodStep, Work, Trouble

\* What the listeners have seen moves when one hears, and is gone with its pod.
Unseen(p) == seen' = [seen EXCEPT ![p] = Unread]
SeesHead(p) ==
    /\ worker[p].at = "advance" /\ Hearer(p) \in ListenerSet
    /\ seen' = [seen EXCEPT ![p][Hearer(p)] = worker[p].head]
Moves == seen' = seen \/ \E p \in Pods : Unseen(p) \/ SeesHead(p)

LEMMA SeenMoves ==
    ASSUME TypeOK, [Next]_vars
    PROVE  Moves
  <1>. USE DEF listenerVars
  <1>1. ASSUME NEW p \in Pods, Start(p) \/ Die(p) PROVE Moves
    BY <1>1 DEF Start, Die, Moves, Unseen
  <1>2. ASSUME NEW p \in Pods, Hear(p) PROVE Moves
    BY <1>2, HearerType DEF Hear, Hearing, Moves, SeesHead
  <1>3. CASE seen' = seen
    BY <1>3 DEF Moves
  <1>4. ASSUME NEW p \in Pods, Work(p) \/ Trouble(p) PROVE Moves
    BY <1>2, <1>3, <1>4
       DEF Work, Take, TimedPull, Sync, Heard, EditNothing, EditCommit, PushLands,
           PushRejected, PushGivesUp, Drain, Trouble, SyncFails, HearFails, DiffFails,
           EditRefuses, CommitFails, PushUnheard, PushFails
  <1>5. ASSUME NEW p \in Pods, Stop(p) \/ Pull(p) PROVE Moves
    BY <1>3, <1>5 DEF Stop, Pull
  <1>6. ASSUME NEW p \in Pods, NEW w \in Writes, Write(p, w) PROVE Moves
    BY <1>3, <1>6 DEF Write
  <1>7. ASSUME NEW f \in Foreign, Push(f) PROVE Moves
    BY <1>3, <1>7 DEF Push
  <1>8. ASSUME NEW u \in adrift, AdriftLands(u) PROVE Moves
    BY <1>3, <1>8 DEF AdriftLands
  <1>. QED BY <1>1, <1>3, <1>4, <1>5, <1>6, <1>7, <1>8 DEF Next, vars

LEMMA StepHistory ==
    ASSUME TypeInv, HistoryInv, [Next]_vars
    PROVE  HistoryInv'
  <1>. TypeOK /\ SeenIsOnRemote
    BY DEF TypeInv, HistoryInv
  <1>1. Grows
    BY RemoteGrows
  <1>2. remote' # << >>
    BY <1>1 DEF Grows, HistoryInv, TypeOK
  <1>3. ASSUME NEW q \in Pods PROVE Stage(q)'
    <2>1. Stage(q)
      BY DEF HistoryInv
    <2>2. CASE UNCHANGED <<worker, checkout>>
      BY <1>1, <2>1, <2>2, StageKept
    <2>3. ASSUME NEW p \in Pods, PodStep(p) PROVE Stage(q)'
      <3>1. CASE q = p
        BY <1>1, <2>3, <3>1, PodStage
      <3>2. CASE q # p
        BY <1>1, <2>1, <2>3, <3>2, OthersStand, StageKept
      <3>. QED BY <3>1, <3>2
    <2>4. ASSUME NEW p \in Pods, NEW w \in Writes, Write(p, w) PROVE Stage(q)'
      BY <2>2, <2>4 DEF Write
    <2>5. ASSUME NEW f \in Foreign, Push(f) PROVE Stage(q)'
      BY <2>2, <2>5 DEF Push
    <2>6. ASSUME NEW u \in adrift, AdriftLands(u) PROVE Stage(q)'
      BY <2>2, <2>6 DEF AdriftLands
    <2>. QED BY <2>2, <2>3, <2>4, <2>5, <2>6 DEF Next, vars, PodStep
  <1>4. ASSUME NEW q \in Pods, NEW l \in ListenerSet PROVE IsPrefix(seen'[q][l], remote')
    <2>1. seen[q][l] \in Seq(Commits) /\ IsPrefix(seen[q][l], remote)
      BY DEF TypeOK, SeenIsOnRemote
    <2>2. CASE seen'[q][l] = seen[q][l]
      BY <1>1, <2>1, <2>2, StaysPrefix
    <2>3. CASE seen'[q][l] = << >>
      <3>1. remote \in Seq(Commits) /\ << >> \in Seq(Commits)
        BY DEF TypeOK
      <3>2. IsPrefix(<< >>, remote)
        BY <3>1, PrefixSelf
      <3>. QED BY <1>1, <2>3, <3>1, <3>2, StaysPrefix
    <2>4. CASE worker[q].at = "advance" /\ seen'[q][l] = worker[q].head
      <3>1. worker[q].head \in Seq(Commits) /\ IsPrefix(worker[q].head, remote)
        BY <2>4 DEF TypeOK, Workers, HistoryInv, Stage
      <3>. QED BY <1>1, <2>4, <3>1, StaysPrefix
    <2>5. ASSUME NEW p \in Pods, Unseen(p)
          PROVE  seen'[q][l] \in {seen[q][l], << >>}
      BY <2>5 DEF Unseen, TypeOK, Unread
    <2>6. ASSUME NEW p \in Pods, SeesHead(p)
          PROVE  \/ seen'[q][l] = seen[q][l]
                 \/ worker[q].at = "advance" /\ seen'[q][l] = worker[q].head
      BY <2>6 DEF SeesHead, TypeOK
    <2>. QED BY <2>2, <2>3, <2>4, <2>5, <2>6, SeenMoves DEF Moves
  <1>5. SeenIsOnRemote'
    BY <1>4 DEF SeenIsOnRemote
  <1>6. ASSUME NEW u \in adrift' PROVE Appends(u)
    BY StaysAdrift
  <1>. QED BY <1>2, <1>3, <1>5, <1>6 DEF HistoryInv, Appends

\* No listener of any pod ever answers from a commit that `main` does not have,
\* nor from one out of its order.
THEOREM SeenCorrect ==
    ASSUME Root # << >>
    PROVE  Spec => []SeenIsOnRemote
  <1>1. Init => TypeInv /\ HistoryInv
    BY InitType, InitHistory
  <1>2. TypeInv /\ HistoryInv /\ [Next]_vars => (TypeInv /\ HistoryInv)'
    BY StepType, StepEdit, StepHistory DEF TypeInv
  <1>3. HistoryInv => SeenIsOnRemote
    BY DEF HistoryInv
  <1>. QED BY <1>1, <1>2, <1>3, PTL DEF Spec

----------------------------------------------------------------------------
(* A push that is adrift is its write's last.                              *)

\* The write is over, or its worker waits for the end of that push: it is in no
\* queue and in no other hand, and is never answered "ok".
LastPush(w) ==
    /\ call[w] \in {"queued", "failed", "lost"}
    /\ \A p \in Pods :
         w \notin Range(queue[p]) /\ (worker[p].job = w => worker[p].at = "unheard")

AdriftInv == \A u \in adrift : LastPush(u.write)

\* A job that is over answers the write only as one that failed.
LEMMA FinishLast ==
    ASSUME TypeOK, NEW w \in Writes, LastPush(w), NEW p \in Pods, NEW result \in Results,
           Finish(p, result), result = "ok" => worker[p].at # "unheard"
    PROVE  LastPush(w)'
  <1>1. worker'[p].job \notin Writes /\ \A q \in Pods : q # p => worker'[q] = worker[q]
    BY CommitsAssumption DEF Finish, Off, Idle, Between, Attempt, TypeOK
  <1>2. queue' = queue
    BY DEF Finish
  <1>3. call'[w] = call[w] \/ (w = worker[p].job /\ call'[w] = result)
    <2>1. CASE worker[p].job \in Writes
      <3>1. call' = [call EXCEPT ![worker[p].job] = result]
        BY <2>1 DEF Finish
      <3>2. DOMAIN call = Writes
        BY DEF TypeOK
      <3>. QED BY <3>1, <3>2
    <2>2. CASE worker[p].job \notin Writes
      BY <2>2 DEF Finish
    <2>. QED BY <2>1, <2>2
  <1>4. call'[w] \in {"queued", "failed", "lost"}
    <2>1. call[w] \in {"queued", "failed", "lost"}
      BY DEF LastPush
    <2>2. w = worker[p].job => worker[p].at = "unheard"
      BY DEF LastPush
    <2>3. result \in {"ok", "failed"}
      BY DEF Results
    <2>4. w = worker[p].job => result = "failed"
      BY <2>2, <2>3
    <2>. QED BY <1>3, <2>1, <2>4
  <1>. QED BY <1>1, <1>2, <1>4 DEF LastPush

\* A worker elsewhere in its job works on another write.
LEMMA MoveLast ==
    ASSUME NEW w \in Writes, LastPush(w), NEW p \in Pods, UNCHANGED <<call, queue>>,
           worker[p].at # "unheard", worker'[p].job = worker[p].job,
           \A q \in Pods : q # p => worker'[q] = worker[q]
    PROVE  LastPush(w)'
  BY DEF LastPush

LEMMA TakeLast ==
    ASSUME TypeOK, NEW w \in Writes, LastPush(w), NEW p \in Pods, Take(p)
    PROVE  LastPush(w)'
  <1>1. queue[p] \in Seq(Jobs) /\ queue[p] # << >> /\ queue'[p] = Tail(queue[p])
    BY DEF Take, TypeOK
  <1>2. Head(queue[p]) \in Range(queue[p]) /\ Range(queue'[p]) \subseteq Range(queue[p])
    BY <1>1, RangeTail
  <1>3. worker'[p].job \in {"timed", Head(queue[p])}
    BY DEF Take, Between, Attempt, TypeOK
  <1>4. \A q \in Pods : q # p => queue'[q] = queue[q] /\ worker'[q] = worker[q]
    BY DEF Take, TypeOK
  <1>5. "timed" # w
    BY CommitsAssumption
  <1>6. call' = call
    BY DEF Take, callVars
  <1>7. w \notin Range(queue[p])
    BY DEF LastPush
  <1>8. w \notin Range(queue'[p])
    BY <1>2, <1>7
  <1>9. worker'[p].job # w
    BY <1>2, <1>3, <1>5, <1>7
  <1>. QED BY <1>4, <1>6, <1>8, <1>9 DEF LastPush

LEMMA DrainLast ==
    ASSUME TypeOK, NEW w \in Writes, LastPush(w), NEW p \in Pods, Drain(p)
    PROVE  LastPush(w)'
  <1>1. CASE queue[p] = << >>
    <2>1. /\ worker'[p].job = worker[p].job /\ worker[p].at # "unheard"
          /\ \A q \in Pods : q # p => worker'[q] = worker[q]
      BY <1>1 DEF Drain, Goto, TypeOK, Workers
    <2>. QED BY <1>1, <2>1, MoveLast DEF Drain
  <1>2. CASE queue[p] # << >>
    <2>1. queue[p] \in Seq(Jobs) /\ queue'[p] = Tail(queue[p]) /\ worker' = worker
      BY <1>2 DEF Drain, TypeOK
    <2>2. Head(queue[p]) \in Range(queue[p]) /\ Range(queue'[p]) \subseteq Range(queue[p])
      BY <1>2, <2>1, RangeTail
    <2>3. \A q \in Pods : q # p => queue'[q] = queue[q]
      BY <1>2 DEF Drain, TypeOK
    <2>3a. w \notin Range(queue[p])
      BY DEF LastPush
    <2>4. Head(queue[p]) # w /\ w \notin Range(queue'[p])
      BY <2>2, <2>3a
    <2>5. call' = IF Head(queue[p]) \in Writes
                  THEN [call EXCEPT ![Head(queue[p])] = "failed"] ELSE call
      BY <1>2 DEF Drain
    <2>6. call'[w] = call[w]
      <3>1. DOMAIN call = Writes
        BY DEF TypeOK
      <3>2. CASE Head(queue[p]) \in Writes
        <4>1. call' = [call EXCEPT ![Head(queue[p])] = "failed"]
          BY <2>5, <3>2
        <4>. QED BY <2>4, <3>1, <4>1
      <3>. QED BY <2>5, <3>2
    <2>. QED BY <2>1, <2>3, <2>4, <2>6 DEF LastPush
  <1>. QED BY <1>1, <1>2

\* Another job joins a queue.
LEMMA AppendLast ==
    ASSUME TypeOK, NEW w \in Writes, LastPush(w), NEW p \in Pods, NEW job \in Jobs,
           job # w, queue' = [queue EXCEPT ![p] = Append(@, job)], UNCHANGED worker,
           call'[w] = call[w]
    PROVE  LastPush(w)'
  <1>1. queue[p] \in Seq(Jobs) /\ queue'[p] = Append(queue[p], job)
    BY DEF TypeOK
  <1>2. Range(queue'[p]) = Range(queue[p]) \cup {job}
    BY <1>1, RangeAppend
  <1>3. \A q \in Pods : q # p => queue'[q] = queue[q]
    BY DEF TypeOK
  <1>. QED BY <1>2, <1>3 DEF LastPush

LEMMA DieLast ==
    ASSUME TypeOK, NEW w \in Writes, LastPush(w), NEW p \in Pods, Die(p)
    PROVE  LastPush(w)'
  <1>1. queue'[p] = << >> /\ worker'[p].job = "start"
    BY DEF Die, Off, Between, Attempt, TypeOK
  <1>2. \A q \in Pods : q # p => queue'[q] = queue[q] /\ worker'[q] = worker[q]
    BY DEF Die, TypeOK
  <1>3. "start" # w /\ Range(<< >>) = {}
    BY CommitsAssumption DEF Range
  <1>4. call'[w] \in {"lost", call[w]}
    BY DEF Die
  <1>. QED BY <1>1, <1>2, <1>3, <1>4 DEF LastPush

LEMMA StaysLast ==
    ASSUME TypeOK, NEW w \in Writes, LastPush(w), [Next]_vars
    PROVE  LastPush(w)'
  <1>. DEFINE Kept == LastPush(w)'
  <1>. USE DEF callVars
  <1>1. ASSUME NEW p \in Pods, NEW at, Goto(p, at), UNCHANGED <<call, queue>>,
               worker[p].at # "unheard"
        PROVE  Kept
    <2>1. /\ worker'[p].job = worker[p].job
          /\ \A q \in Pods : q # p => worker'[q] = worker[q]
      BY <1>1 DEF Goto, TypeOK, Workers
    <2>. QED BY <1>1, <2>1, MoveLast
  <1>2. ASSUME NEW p \in Pods, NEW head, NEW landed, UNCHANGED <<call, queue>>,
               worker' = [worker EXCEPT ![p] = Telling(@, head, landed)],
               worker[p].at # "unheard"
        PROVE  Kept
    <2>1. /\ worker'[p].job = worker[p].job
          /\ \A q \in Pods : q # p => worker'[q] = worker[q]
      BY <1>2 DEF Telling, TypeOK
    <2>. QED BY <1>2, <2>1, MoveLast
  <1>3. ASSUME NEW p \in Pods, UNCHANGED <<call, queue>>, worker[p].at # "unheard",
               worker' = [worker EXCEPT ![p].hearing = @ + 1]
        PROVE  Kept
    <2>1. /\ worker'[p].job = worker[p].job
          /\ \A q \in Pods : q # p => worker'[q] = worker[q]
      BY <1>3 DEF TypeOK, Workers
    <2>. QED BY <1>3, <2>1, MoveLast
  <1>4. CASE UNCHANGED <<call, queue, worker>>
    BY <1>4 DEF LastPush
  <1>5. ASSUME NEW p \in Pods, Finish(p, "failed") PROVE Kept
    BY <1>5, FinishLast DEF Results
  <1>6. ASSUME NEW p \in Pods, Finish(p, "ok"), worker[p].at # "unheard" PROVE Kept
    BY <1>6, FinishLast DEF Results
  <1>. HIDE DEF Kept
  <1>7. ASSUME NEW p \in Pods, Work(p) PROVE Kept
    <2>1. CASE Take(p) \/ Drain(p)
      BY <2>1, TakeLast, DrainLast DEF Kept
    <2>2. CASE TimedPull(p) \/ EditCommit(p)
      BY <1>1, <2>2 DEF TimedPull, EditCommit, Edit
    <2>3. CASE Sync(p) \/ PushLands(p)
      BY <1>2, <2>3 DEF Sync, PushLands, Accepted
    <2>4. CASE Hear(p)
      BY <1>3, <2>4 DEF Hear, Hearing
    <2>5. CASE Heard(p) \/ EditNothing(p)
      BY <1>1, <1>6, <2>5 DEF Heard, EditNothing
    <2>6. CASE PushGivesUp(p)
      BY <1>5, <2>6 DEF PushGivesUp
    <2>7. CASE PushRejected(p)
      <3>1. CASE /\ worker' = [worker EXCEPT ![p] = Attempt("sync", @.job, @.tries + 1)]
                 /\ UNCHANGED <<call, queue>>
        <4>1. /\ worker'[p].job = worker[p].job
              /\ \A q \in Pods : q # p => worker'[q] = worker[q]
          BY <3>1 DEF Attempt, TypeOK
        <4>. QED BY <2>7, <3>1, <4>1, MoveLast DEF PushRejected, Kept
      <3>. QED BY <1>5, <2>7, <3>1 DEF PushRejected
    <2>. QED BY <1>7, <2>1, <2>2, <2>3, <2>4, <2>5, <2>6, <2>7 DEF Work
  <1>8. ASSUME NEW p \in Pods, Trouble(p) PROVE Kept
    <2>1. CASE SyncFails(p) \/ DiffFails(p) \/ EditRefuses(p) \/ CommitFails(p) \/ PushFails(p)
      BY <1>5, <2>1 DEF SyncFails, DiffFails, EditRefuses, CommitFails, PushFails
    <2>2. CASE HearFails(p)
      BY <1>3, <1>5, <2>2 DEF HearFails, Hearing
    <2>3. CASE PushUnheard(p)
      BY <1>1, <2>3 DEF PushUnheard
    <2>. QED BY <1>8, <2>1, <2>2, <2>3 DEF Trouble
  <1>9. ASSUME NEW p \in Pods, Start(p) PROVE Kept
    BY <1>1, <1>9 DEF Start
  <1>10. ASSUME NEW p \in Pods, Stop(p) \/ Pull(p) PROVE Kept
    <2>1. "stop" # w /\ "pull" # w /\ "stop" \in Jobs /\ "pull" \in Jobs
      BY CommitsAssumption DEF Jobs
    <2>2. call' = call /\ worker' = worker
      BY <1>10 DEF Stop, Pull
    <2>3. \/ queue' = [queue EXCEPT ![p] = Append(@, "stop")]
          \/ queue' = [queue EXCEPT ![p] = Append(@, "pull")]
      BY <1>10 DEF Stop, Pull
    <2>. QED BY <2>1, <2>2, <2>3, AppendLast DEF Kept
  <1>11. ASSUME NEW p \in Pods, NEW v \in Writes, Write(p, v) PROVE Kept
    <2>1. v # w /\ v \in Jobs
      BY <1>11 DEF Write, LastPush, Jobs
    <2>2. call'[w] = call[w] /\ worker' = worker
      BY <1>11, <2>1 DEF Write, TypeOK
    <2>. QED BY <1>11, <2>1, <2>2, AppendLast DEF Write, Kept
  <1>12. ASSUME NEW p \in Pods, Die(p) PROVE Kept
    BY <1>12, DieLast DEF Kept
  <1>13. ASSUME \/ \E f \in Foreign : Push(f)
                \/ \E u \in adrift : AdriftLands(u)
                \/ UNCHANGED vars
         PROVE  Kept
    <2>1. UNCHANGED <<call, queue, worker>>
      BY <1>13 DEF Push, AdriftLands, vars
    <2>. QED BY <1>4, <2>1 DEF Kept
  <1>14. Next \/ UNCHANGED vars
    BY DEF Next
  <1>15. Kept
    BY <1>7, <1>8, <1>9, <1>10, <1>11, <1>12, <1>13, <1>14 DEF Next
  <1>. QED BY <1>15 DEF Kept

\* The push a worker sends is of the write in its hand, in no other.
LEMMA SentIsLast ==
    ASSUME TypeOK, HandInv, HistoryInv, NEW p \in Pods, worker[p].at = "push"
    PROVE  /\ Sent(p).write = worker[p].job /\ worker[p].job \in Writes
           /\ call[worker[p].job] = "queued"
           /\ \A q \in Pods : worker[p].job \notin Range(queue[q])
           /\ \A q \in Pods : q # p => worker[q].job # worker[p].job
  <1>1. worker[p].job \in Writes
    BY DEF HistoryInv, Stage
  <1>2. worker[p].job \in InHand(p)
    BY <1>1 DEF InHand
  <1>3. \A q \in Pods : q # p => worker[p].job \notin InHand(q)
    BY <1>2 DEF HandInv, Alone
  <1>4. \A q \in Pods : q # p =>
           worker[p].job \notin Range(queue[q]) /\ worker[q].job # worker[p].job
    BY <1>1, <1>3 DEF InHand
  <1>5. worker[p].job \notin Range(queue[p])
    BY <1>1 DEF HandInv, Alone
  <1>. QED BY <1>1, <1>2, <1>4, <1>5 DEF HandInv, Asked, Sent

LEMMA StepAdrift ==
    ASSUME TypeOK, HandInv, HistoryInv, AdriftInv, [Next]_vars
    PROVE  AdriftInv'
  <1> SUFFICES ASSUME NEW u \in adrift' PROVE LastPush(u.write)'
    BY DEF AdriftInv
  <1>1. CASE u \in adrift
    BY <1>1, StaysLast DEF AdriftInv, HistoryInv, Appends
  <1>2. CASE adrift' = adrift
    BY <1>1, <1>2
  <1>3. ASSUME NEW p \in Pods, PushUnheard(p), u = Sent(p) PROVE LastPush(u.write)'
    <2>1. worker[p].at = "push" /\ UNCHANGED <<call, queue>>
      BY <1>3 DEF PushUnheard, callVars
    <2>2. /\ worker'[p].at = "unheard"
          /\ \A q \in Pods : q # p => worker'[q] = worker[q]
      BY <1>3 DEF PushUnheard, Goto, TypeOK, Workers
    <2>. QED BY <1>3, <2>1, <2>2, SentIsLast DEF LastPush
  <1>4. ASSUME NEW p \in Pods, Die(p), worker[p].at = "push", u = Sent(p)
        PROVE  LastPush(u.write)'
    <2>1. queue'[p] = << >> /\ worker'[p].job = "start"
      BY <1>4 DEF Die, Off, Between, Attempt, TypeOK
    <2>2. \A q \in Pods : q # p => queue'[q] = queue[q] /\ worker'[q] = worker[q]
      BY <1>4 DEF Die, TypeOK
    <2>3. "start" \notin Writes /\ Range(<< >>) = {}
      BY CommitsAssumption DEF Range
    <2>4. call'[worker[p].job] \in {"lost", call[worker[p].job]}
      BY <1>4, SentIsLast DEF Die
    <2>. QED BY <1>4, <2>1, <2>2, <2>3, <2>4, SentIsLast DEF LastPush
  <1>5. ASSUME NEW p \in Pods, Work(p) PROVE adrift' = adrift
    BY <1>5
       DEF Work, Take, TimedPull, Sync, Hear, Heard, EditNothing, EditCommit, PushLands,
           PushRejected, PushGivesUp, Drain
  <1>6. ASSUME NEW p \in Pods, Trouble(p) PROVE LastPush(u.write)'
    BY <1>1, <1>2, <1>3, <1>6
       DEF Trouble, SyncFails, HearFails, DiffFails, EditRefuses, CommitFails, PushUnheard,
           PushFails
  <1>7. ASSUME NEW p \in Pods, Start(p) \/ Die(p) \/ Stop(p) \/ Pull(p)
        PROVE  LastPush(u.write)'
    BY <1>1, <1>2, <1>4, <1>7 DEF Start, Die, Stop, Pull
  <1>8. ASSUME NEW p \in Pods, NEW w \in Writes, Write(p, w) PROVE adrift' = adrift
    BY <1>8 DEF Write
  <1>9. ASSUME \/ \E f \in Foreign : Push(f)
               \/ \E v \in adrift : AdriftLands(v)
               \/ UNCHANGED vars
        PROVE  adrift' = adrift
    BY <1>9 DEF Push, AdriftLands, vars
  <1>. QED BY <1>2, <1>5, <1>6, <1>7, <1>8, <1>9 DEF Next

----------------------------------------------------------------------------
(* The queue keeps what StoreLog says.                                     *)

\* A job's result reaches no caller but its own: the write's answer, or none.
LEMMA FinishAnswers ==
    ASSUME TypeOK, HandInv, NEW p \in Pods, NEW result \in Results, Finish(p, result),
           UNCHANGED <<remote, adrift>>,
           result = "ok" /\ worker[p].job \in Writes => Log!Promised(worker[p].job)
    PROVE  [Log!Next]_(Log!vars)
  <1>1. CASE worker[p].job \notin Writes
    BY <1>1 DEF Finish, Log!vars
  <1>2. CASE worker[p].job \in Writes
    <2>1. call[worker[p].job] = "queued"
      BY <1>2 DEF HandInv, Asked, InHand
    <2>2. call' = [call EXCEPT ![worker[p].job] = result]
      BY <1>2 DEF Finish
    <2>3. Log!Succeed(worker[p].job) \/ Log!Fail(worker[p].job)
      BY <1>2, <2>1, <2>2 DEF Results, Log!Succeed, Log!Fail
    <2>. QED BY <1>2, <2>3 DEF Log!Next
  <1>. QED BY <1>1, <1>2

LEMMA LandedIsRange == Log!Landed = Range(remote)
  BY DEF Log!Landed, Log!Range, Range

\* An edit that finds its effect, or a write pushed and heard, is promised.
LEMMA PromisedByHistory ==
    ASSUME TypeOK, NEW s \in Seq(Commits), IsPrefix(s, remote), NEW w, Holds(s, w)
    PROVE  Log!Promised(w)
  BY LandedIsRange, PrefixRange DEF Holds, Log!Promised, TypeOK

LEMMA StepPromise ==
    ASSUME TypeInv, HandInv, HistoryInv, AdriftInv, [Next]_vars
    PROVE  [Log!Next]_(Log!vars)
  <1>. /\ TypeOK /\ \A p \in Pods : Stage(p)
       /\ \A p \in Pods : worker[p].head \in Seq(Commits) /\ checkout[p] \in Seq(Commits)
    BY DEF TypeInv, HistoryInv, TypeOK, Workers
  <1>. USE DEF callVars
  <1>1. CASE UNCHANGED <<remote, call, adrift>>
    BY <1>1 DEF Log!vars
  <1>2. ASSUME NEW p \in Pods, Accepted(p), UNCHANGED <<call, adrift>>
        PROVE  [Log!Next]_(Log!vars)
    <2>1. /\ worker[p].job \in Writes /\ worker[p].job \notin Range(remote)
          /\ remote' = Append(remote, worker[p].job)
      BY <1>2, AcceptedAppends
    <2>2. call[worker[p].job] = "queued"
      BY <2>1 DEF HandInv, Asked, InHand
    <2>3. Log!Land(worker[p].job)
      BY <1>2, <2>1, <2>2, LandedIsRange DEF Log!Land
    <2>. QED BY <2>1, <2>3 DEF Log!Next
  <1>3. ASSUME NEW p \in Pods, Finish(p, "failed"), UNCHANGED <<remote, adrift>>
        PROVE  [Log!Next]_(Log!vars)
    BY <1>3, FinishAnswers DEF Results
  <1>4. ASSUME NEW p \in Pods, Heard(p) PROVE [Log!Next]_(Log!vars)
    <2>1. CASE Goto(p, "edit") /\ UNCHANGED <<callVars, queue>>
      BY <1>1, <1>4, <2>1 DEF Heard
    <2>2. CASE Finish(p, "ok") /\ ~(worker[p].job \in Writes /\ ~worker[p].landed)
      <3>1. worker[p].at = "advance" /\ UNCHANGED <<remote, adrift>>
        BY <1>4 DEF Heard
      <3>2. ASSUME worker[p].job \in Writes PROVE Log!Promised(worker[p].job)
        <4>1. worker[p].job \in Range(worker[p].head) /\ IsPrefix(worker[p].head, remote)
          BY <2>2, <3>1, <3>2 DEF Stage, TypeOK, Workers
        <4>2. Holds(worker[p].head, worker[p].job)
          BY <4>1 DEF Holds
        <4>. QED BY <4>1, <4>2, PromisedByHistory
      <3>. QED BY <2>2, <3>1, <3>2, FinishAnswers DEF Results
    <2>. QED BY <1>4, <2>1, <2>2 DEF Heard
  <1>5. ASSUME NEW p \in Pods, EditNothing(p) PROVE [Log!Next]_(Log!vars)
    <2>1. /\ worker[p].at = "edit" /\ Holds(checkout[p], worker[p].job)
          /\ Finish(p, "ok") /\ UNCHANGED <<remote, adrift>>
      BY <1>5 DEF EditNothing
    <2>2. IsPrefix(checkout[p], remote)
      BY <2>1 DEF Stage
    <2>3. Log!Promised(worker[p].job)
      BY <2>1, <2>2, PromisedByHistory
    <2>. QED BY <2>1, <2>3, FinishAnswers DEF Results
  <1>6. ASSUME NEW p \in Pods, Drain(p) PROVE [Log!Next]_(Log!vars)
    <2>1. CASE queue[p] # << >> /\ Head(queue[p]) \in Writes
      <3>1. Head(queue[p]) \in InHand(p)
        BY <2>1, RangeTail DEF InHand, TypeOK
      <3>2. call[Head(queue[p])] = "queued"
        BY <3>1 DEF HandInv, Asked
      <3>3. call' = [call EXCEPT ![Head(queue[p])] = "failed"] /\ UNCHANGED <<remote, adrift>>
        BY <1>6, <2>1 DEF Drain
      <3>4. Log!Fail(Head(queue[p]))
        BY <3>2, <3>3 DEF Log!Fail
      <3>. QED BY <2>1, <3>4 DEF Log!Next
    <2>2. CASE ~(queue[p] # << >> /\ Head(queue[p]) \in Writes)
      BY <1>1, <1>6, <2>2 DEF Drain
    <2>. QED BY <2>1, <2>2
  <1>7. ASSUME NEW p \in Pods, Work(p) PROVE [Log!Next]_(Log!vars)
    <2>1. CASE Take(p) \/ TimedPull(p) \/ Sync(p) \/ Hear(p) \/ EditCommit(p)
      BY <1>1, <2>1 DEF Take, TimedPull, Sync, Hear, EditCommit
    <2>2. CASE PushLands(p)
      BY <1>2, <2>2 DEF PushLands
    <2>3. CASE PushGivesUp(p)
      BY <1>3, <2>3 DEF PushGivesUp
    <2>4. CASE PushRejected(p)
      BY <1>1, <1>3, <2>4 DEF PushRejected
    <2>. QED BY <1>4, <1>5, <1>6, <1>7, <2>1, <2>2, <2>3, <2>4 DEF Work
  <1>8. ASSUME NEW p \in Pods, Trouble(p) PROVE [Log!Next]_(Log!vars)
    <2>1. CASE SyncFails(p) \/ DiffFails(p) \/ EditRefuses(p) \/ CommitFails(p) \/ PushFails(p)
      BY <1>3, <2>1 DEF SyncFails, DiffFails, EditRefuses, CommitFails, PushFails
    <2>2. CASE HearFails(p)
      BY <1>1, <1>3, <2>2 DEF HearFails
    <2>3. CASE PushUnheard(p)
      <3>1. Sent(p).write = worker[p].job /\ worker[p].job \in Writes
        BY <2>3, SentIsLast DEF PushUnheard
      <3>2. call[worker[p].job] = "queued" /\ UNCHANGED <<remote, call>>
        BY <2>3, SentIsLast DEF PushUnheard
      <3>3. {u.write : u \in adrift'} = {u.write : u \in adrift} \cup {worker[p].job}
        BY <2>3, <3>1 DEF PushUnheard
      <3>4. PICK w \in Writes : w = worker[p].job
        BY <3>1
      <3>5. Log!Drift(w)
        BY <3>2, <3>3, <3>4 DEF Log!Drift
      <3>6. Log!Next
        BY <3>5 DEF Log!Next
      <3>. QED BY <3>6
    <2>. QED BY <1>8, <2>1, <2>2, <2>3 DEF Trouble
  <1>9. ASSUME NEW p \in Pods, Die(p) PROVE [Log!Next]_(Log!vars)
    <2>1. InHand(p) \in SUBSET {w \in Writes : call[w] = "queued"}
      BY DEF HandInv, Asked, InHand
    <2>2. PICK sent \in SUBSET InHand(p) :
             {u.write : u \in adrift'} = {u.write : u \in adrift} \cup sent
      <3>1. CASE adrift' = adrift
        <4>1. {} \in SUBSET InHand(p)
          OBVIOUS
        <4>. QED BY <3>1, <4>1
      <3>2. CASE worker[p].at = "push" /\ adrift' = adrift \cup {Sent(p)}
        <4>1. Sent(p).write = worker[p].job /\ worker[p].job \in InHand(p)
          BY <3>2, SentIsLast DEF InHand
        <4>2. {u.write : u \in adrift'} = {u.write : u \in adrift} \cup {worker[p].job}
          BY <3>2, <4>1
        <4>. QED BY <4>1, <4>2
      <3>. QED BY <1>9, <3>1, <3>2 DEF Die
    <2>3. call' = [w \in Writes |-> IF w \in InHand(p) THEN "lost" ELSE call[w]]
          /\ UNCHANGED remote
      BY <1>9 DEF Die
    <2>4. Log!Lose
      BY <2>1, <2>2, <2>3 DEF Log!Lose
    <2>. QED BY <2>4 DEF Log!Next
  <1>10. ASSUME NEW p \in Pods, Start(p) \/ Stop(p) \/ Pull(p) PROVE [Log!Next]_(Log!vars)
    BY <1>1, <1>10 DEF Start, Stop, Pull
  <1>11. ASSUME NEW p \in Pods, NEW w \in Writes, Write(p, w) PROVE [Log!Next]_(Log!vars)
    <2>1. Log!Ask(w)
      BY <1>11 DEF Write, Log!Ask
    <2>. QED BY <2>1 DEF Log!Next
  <1>12. ASSUME NEW f \in Foreign, Push(f) PROVE [Log!Next]_(Log!vars)
    <2>1. Log!Push(f)
      BY <1>12, LandedIsRange DEF Push, Log!Push
    <2>. QED BY <2>1 DEF Log!Next
  <1>13. CASE UNCHANGED vars
    BY <1>1, <1>13 DEF vars
  <1>14. ASSUME NEW u \in adrift, AdriftLands(u) PROVE [Log!Next]_(Log!vars)
    <2>1. /\ u.write \in Writes /\ u.write \notin Range(remote)
          /\ remote' = Append(remote, u.write)
      BY <1>14, AdriftAppends
    <2>2. call[u.write] \in {"queued", "failed", "lost"}
      BY DEF AdriftInv, LastPush
    <2>3. u.write \in {v.write : v \in adrift} /\ UNCHANGED <<call, adrift>>
      BY <1>14 DEF AdriftLands
    <2>4. Log!Land(u.write)
      BY <2>1, <2>2, <2>3, LandedIsRange DEF Log!Land
    <2>. QED BY <2>1, <2>4 DEF Log!Next
  <1>. QED BY <1>7, <1>8, <1>9, <1>10, <1>11, <1>12, <1>13, <1>14 DEF Next

\* The queue implements StoreLog, for any number of pods and writes, whatever
\* fails and however late a push that was not heard lands: but the remote must
\* have a commit to begin with.
THEOREM QueueKeepsPromise ==
    ASSUME Root # << >>
    PROVE  Spec => Promise
  <1>. DEFINE Inv == TypeInv /\ HandInv /\ HistoryInv /\ AdriftInv
  <1>1. Init => Inv
    <2>1. Init => AdriftInv
      BY DEF Init, AdriftInv
    <2>. QED BY <2>1, InitType, InitHand, InitHistory
  <1>2. Inv /\ [Next]_vars => Inv'
    <2>1. Inv /\ [Next]_vars => TypeInv' /\ HandInv' /\ HistoryInv'
      BY StepType, StepEdit, StepHand, StepHistory DEF TypeInv
    <2>2. Inv /\ [Next]_vars => AdriftInv'
      BY StepAdrift DEF TypeInv
    <2>. QED BY <2>1, <2>2
  <1>3. Init => Log!Init
    BY DEF Init, Log!Init
  <1>4. Inv /\ [Next]_vars => [Log!Next]_(Log!vars)
    BY StepPromise
  <1>. HIDE DEF Inv
  <1>. QED BY <1>1, <1>2, <1>3, <1>4, PTL DEF Spec, Promise, Log!Spec

----------------------------------------------------------------------------
(* A pod reads its own writes.                                             *)

\* What a pod's listeners hold: all that they report, every write the pod has
\* answered, and, but for those that can fail, the head a worker is past.
Reads(p) ==
    /\ worker[p].at = "off" => worker[p].job = "start"
    /\ worker[p].job = "start" => acked[p] = {}
    /\ worker[p].at = "advance" =>
         \A i \in Order : i < worker[p].hearing /\ Listeners[i] \notin Fallible
            => Range(worker[p].head) \subseteq index[p][Listeners[i]]
    /\ worker[p].at = "edit" =>
         \A l \in ListenerSet \ Fallible : Range(worker[p].head) \subseteq index[p][l]
    /\ \A l \in ListenerSet \ Fallible, w \in acked[p] :
         \E c \in index[p][l] : Effect[c] = Effect[w]
    /\ \A l \in ListenerSet : Range(seen[p][l]) \subseteq index[p][l]

ReadInv == \A p \in Pods : Reads(p)

LEMMA InitRead == Init => ReadInv
  <1> SUFFICES ASSUME Init, NEW p \in Pods PROVE Reads(p)
    BY DEF ReadInv
  <1>1. worker[p].at = "off" /\ worker[p].job = "start" /\ acked[p] = {}
    BY DEF Init, Off, Between, Attempt
  <1>2. \A l \in ListenerSet : Range(seen[p][l]) = {}
    BY DEF Init, Unread, Range
  <1>. QED BY <1>1, <1>2 DEF Reads

\* A pod's memory moves with its own steps alone.
LEMMA OthersRead ==
    ASSUME TypeOK, NEW p \in Pods, PodStep(p), NEW q \in Pods, q # p, Reads(q)
    PROVE  Reads(q)'
  <1>1. acked'[q] = acked[q] /\ seen'[q] = seen[q] /\ index'[q] = index[q]
    <2>. USE DEF callVars, listenerVars
    <2>1. CASE Start(p) \/ Die(p) \/ Stop(p) \/ Pull(p)
      BY <2>1 DEF Start, Die, Stop, Pull, TypeOK
    <2>2. CASE Take(p) \/ TimedPull(p) \/ Sync(p) \/ Hear(p) \/ Heard(p) \/ EditNothing(p)
      BY <2>2 DEF Take, TimedPull, Sync, Hear, Heard, EditNothing, Finish, TypeOK
    <2>3. CASE EditCommit(p) \/ PushLands(p) \/ PushRejected(p) \/ PushGivesUp(p) \/ Drain(p)
      BY <2>3 DEF EditCommit, PushLands, PushRejected, PushGivesUp, Drain, Finish, TypeOK
    <2>4. CASE SyncFails(p) \/ DiffFails(p) \/ EditRefuses(p) \/ CommitFails(p) \/ PushFails(p)
      BY <2>4 DEF SyncFails, DiffFails, EditRefuses, CommitFails, PushFails, Finish, TypeOK
    <2>5. CASE HearFails(p) \/ PushUnheard(p)
      BY <2>5 DEF HearFails, PushUnheard, Finish, TypeOK
    <2>. QED BY <2>1, <2>2, <2>3, <2>4, <2>5 DEF PodStep, Work, Trouble
  <1>2. worker'[q] = worker[q]
    BY OthersStand
  <1>. QED BY <1>1, <1>2 DEF Reads

\* A job that is over leaves a pod with one more answer at most.
LEMMA FinishRead ==
    ASSUME TypeOK, NEW p \in Pods, Reads(p), NEW result \in Results, Finish(p, result),
           UNCHANGED <<seen, index>>,
           result = "ok" /\ worker[p].job \in Writes =>
             \A l \in ListenerSet \ Fallible : Holds(worker[p].head, worker[p].job)
                                           /\ Range(worker[p].head) \subseteq index[p][l]
    PROVE  Reads(p)'
  <1>1. worker'[p].at \in {"off", "idle"}
    BY DEF Finish, Off, Idle, Between, Attempt, TypeOK
  <1>2. worker'[p].at = "off" => worker'[p].job = "start"
    BY DEF Finish, Off, Idle, Between, Attempt, TypeOK
  <1>3. worker'[p].job = "start" => worker[p].job = "start"
    BY DEF Finish, Off, Idle, Between, Attempt, TypeOK
  <1>4. worker[p].job = "start" => acked'[p] = acked[p]
    BY CommitsAssumption DEF Finish
  <1>5. ASSUME NEW l \in ListenerSet \ Fallible, NEW w \in acked'[p]
        PROVE  \E c \in index[p][l] : Effect[c] = Effect[w]
    <2>1. CASE w \in acked[p]
      BY <2>1 DEF Reads
    <2>2. CASE w \notin acked[p]
      <3>1. w = worker[p].job /\ w \in Writes /\ result = "ok"
        BY <1>5, <2>2 DEF Finish, TypeOK
      <3>. QED BY <3>1 DEF Holds
    <2>. QED BY <2>1, <2>2
  <1>. QED BY <1>1, <1>2, <1>3, <1>4, <1>5 DEF Reads

\* A worker that turns to the listeners has told none of them.
LEMMA TellingRead ==
    ASSUME TypeOK, NEW p \in Pods, Reads(p), UNCHANGED <<seen, index, acked>>,
           NEW head, NEW landed, worker' = [worker EXCEPT ![p] = Telling(@, head, landed)]
    PROVE  Reads(p)'
  <1>1. /\ worker'[p].at = "advance" /\ worker'[p].job = worker[p].job
        /\ worker'[p].hearing = 1
    BY DEF Telling, TypeOK
  <1>2. \A i \in Order : ~(i < 1)
    BY DEF Order
  <1>. QED BY <1>1, <1>2 DEF Reads

\* A worker elsewhere in its job has nothing new to answer for.
LEMMA ElsewhereRead ==
    ASSUME TypeOK, NEW p \in Pods, Reads(p), UNCHANGED <<seen, index, acked>>,
           worker'[p].at \in {"idle", "sync", "push", "unheard", "drain", "exited"},
           worker'[p].job = "start" => worker[p].job = "start"
    PROVE  Reads(p)'
  BY DEF Reads

\* The listener in turn hears, or fails and is one that can.
LEMMA HearRead ==
    ASSUME TypeOK, NEW p \in Pods, Reads(p), Hearing(p), UNCHANGED acked,
           worker' = [worker EXCEPT ![p].hearing = @ + 1],
           \/ /\ seen' = [seen EXCEPT ![p][Hearer(p)] = worker[p].head]
              /\ index' = [index EXCEPT ![p][Hearer(p)] = @ \cup Changed(p, Hearer(p))]
           \/ Hearer(p) \in Fallible /\ UNCHANGED <<seen, index>>
    PROVE  Reads(p)'
  <1>. DEFINE l == Hearer(p)
              w == worker[p]
  <1>1. /\ worker'[p].at = "advance" /\ worker'[p].job = w.job /\ worker'[p].head = w.head
        /\ worker'[p].hearing = w.hearing + 1 /\ w.at = "advance" /\ w.hearing \in Order
    <2>1. \A r \in Workers : LET v == [r EXCEPT !.hearing = r.hearing + 1] IN
            v.at = r.at /\ v.job = r.job /\ v.head = r.head /\ v.hearing = r.hearing + 1
      BY DEF Workers
    <2>2. worker'[p] = [worker[p] EXCEPT !.hearing = worker[p].hearing + 1] /\ worker[p] \in Workers
      BY DEF TypeOK
    <2>. QED BY <2>1, <2>2 DEF Hearing
  <1>2. l \in ListenerSet
    BY HearerType
  <1>3. ASSUME NEW k \in ListenerSet PROVE index[p][k] \subseteq index'[p][k]
    <2>1. CASE UNCHANGED index
      BY <2>1
    <2>2. CASE index' = [index EXCEPT ![p][l] = @ \cup Changed(p, l)]
      <3>1. index'[p][k] = IF k = l THEN index[p][l] \cup Changed(p, l) ELSE index[p][k]
        BY <2>2 DEF TypeOK
      <3>. QED BY <3>1
    <2>. QED BY <2>1, <2>2
  <1>4. \/ seen'[p][l] = w.head /\ Range(w.head) \subseteq index'[p][l]
        \/ l \in Fallible /\ UNCHANGED <<seen, index>>
    <2>1. Range(seen[p][l]) \subseteq index[p][l]
      BY <1>2 DEF Reads
    <2>2. CASE /\ seen' = [seen EXCEPT ![p][Hearer(p)] = worker[p].head]
               /\ index' = [index EXCEPT ![p][Hearer(p)] = @ \cup Changed(p, Hearer(p))]
      <3>1. seen'[p][l] = w.head /\ index'[p][l] = index[p][l] \cup Changed(p, l)
        BY <1>2, <2>2 DEF TypeOK
      <3>. QED BY <2>1, <3>1 DEF Changed
    <2>. QED BY <2>2
  <1>5. \A k \in ListenerSet : k # l => seen'[p][k] = seen[p][k]
    BY <1>2 DEF TypeOK
  <1>6. \A k \in ListenerSet : Range(seen'[p][k]) \subseteq index'[p][k]
    BY <1>2, <1>3, <1>4, <1>5 DEF Reads
  <1>7. ASSUME NEW i \in Order, i < w.hearing + 1, Listeners[i] \notin Fallible
        PROVE  Range(w.head) \subseteq index'[p][Listeners[i]]
    <2>1. Listeners[i] \in ListenerSet
      BY ListenersAssumption DEF Order, ListenerSet, Range
    <2>2. CASE i = w.hearing
      BY <1>4, <1>7, <2>2 DEF Hearer
    <2>3. CASE i # w.hearing
      <3>1. i < w.hearing
        BY <1>1, <1>7, <2>3 DEF Order
      <3>2. Range(w.head) \subseteq index[p][Listeners[i]]
        BY <1>1, <1>7, <3>1 DEF Reads
      <3>. QED BY <1>3, <2>1, <3>2
    <2>. QED BY <2>2, <2>3
  <1>8. \A k \in ListenerSet \ Fallible, v \in acked[p] :
          \E c \in index'[p][k] : Effect[c] = Effect[v]
    BY <1>3 DEF Reads
  <1>. QED BY <1>1, <1>6, <1>7, <1>8 DEF Reads

\* Past the last listener every one that cannot fail has the head.
LEMMA HeardAll ==
    ASSUME TypeOK, NEW p \in Pods, Reads(p), worker[p].at = "advance", ~Hearing(p),
           NEW l \in ListenerSet \ Fallible
    PROVE  Range(worker[p].head) \subseteq index[p][l]
  <1>1. PICK i \in Order : Listeners[i] = l
    BY ListenersAssumption DEF Order, ListenerSet, Range
  <1>2. worker[p].hearing \in Nat \ {0} /\ Len(Listeners) \in Nat
    BY ListenersAssumption DEF TypeOK, Workers
  <1>3. i < worker[p].hearing
    BY <1>2 DEF Hearing, Order
  <1>. QED BY <1>1, <1>3 DEF Reads

LEMMA PodRead ==
    ASSUME TypeInv, HistoryInv, NEW p \in Pods, Reads(p), PodStep(p)
    PROVE  Reads(p)'
  <1>. TypeOK /\ Stage(p)
    BY DEF TypeInv, HistoryInv
  <1>. USE DEF callVars, listenerVars
  <1>1. ASSUME NEW at \in {"sync", "push", "unheard", "exited"}, Goto(p, at),
               UNCHANGED <<seen, index, acked>>
        PROVE  Reads(p)'
    <2>1. worker'[p].at = at /\ worker'[p].job = worker[p].job
      BY <1>1 DEF Goto, TypeOK, Workers
    <2>. QED BY <1>1, <2>1, ElsewhereRead
  <1>2. ASSUME Finish(p, "failed"), UNCHANGED <<seen, index>>
        PROVE  Reads(p)'
    BY <1>2, FinishRead DEF Results
  <1>3. CASE Start(p)
    <2>1. worker'[p].at = "sync" /\ worker'[p].job = worker[p].job /\ worker[p].at = "off"
      BY <1>3 DEF Start, Goto, TypeOK, Workers
    <2>2. acked'[p] = {} /\ \A l \in ListenerSet : Range(seen'[p][l]) = {}
      BY <1>3, <2>1 DEF Start, Reads, TypeOK, Unread, Range
    <2>. QED BY <2>1, <2>2 DEF Reads
  <1>4. CASE Take(p)
    <2>1. queue[p] \in Seq(Jobs) /\ queue[p] # << >>
      BY <1>4 DEF Take, TypeOK
    <2>2. Head(queue[p]) \in Jobs
      BY <2>1, RangeTail, RangeType
    <2>3. worker'[p] = IF Head(queue[p]) = "stop" THEN Attempt("drain", "timed", 0)
                       ELSE Attempt("sync", Head(queue[p]), 0)
      BY <1>4 DEF Take, Between, TypeOK
    <2>4. worker'[p].at \in {"drain", "sync"} /\ worker'[p].job # "start"
      BY <2>2, <2>3, CommitsAssumption DEF Attempt, Jobs
    <2>. QED BY <1>4, <2>4, ElsewhereRead DEF Take
  <1>5. CASE TimedPull(p)
    BY <1>1, <1>5 DEF TimedPull
  <1>6. CASE Sync(p)
    BY <1>6, TellingRead DEF Sync
  <1>7. CASE Hear(p)
    BY <1>7, HearRead DEF Hear
  <1>8. CASE Heard(p)
    <2>1. /\ worker[p].at = "advance" /\ ~Hearing(p) /\ UNCHANGED <<seen, index>>
          /\ \A l \in ListenerSet \ Fallible : Range(worker[p].head) \subseteq index[p][l]
      BY <1>8, HeardAll DEF Heard
    <2>2. CASE Goto(p, "edit") /\ UNCHANGED <<callVars, queue>>
      <3>1. /\ worker'[p].at = "edit" /\ worker'[p].job = worker[p].job
            /\ worker'[p].head = worker[p].head
        BY <2>2 DEF Goto, TypeOK, Workers
      <3>. QED BY <2>1, <2>2, <3>1 DEF Reads
    <2>3. CASE Finish(p, "ok") /\ ~(worker[p].job \in Writes /\ ~worker[p].landed)
      <3>1. worker[p].job \in Writes => Holds(worker[p].head, worker[p].job)
        BY <2>3 DEF Stage, Holds, TypeOK, Workers
      <3>. QED BY <2>1, <2>3, <3>1, FinishRead DEF Results
    <2>. QED BY <1>8, <2>2, <2>3 DEF Heard
  <1>9. CASE EditNothing(p)
    <2>1. /\ worker[p].at = "edit" /\ Holds(checkout[p], worker[p].job)
          /\ Finish(p, "ok") /\ UNCHANGED <<seen, index>>
      BY <1>9 DEF EditNothing
    <2>2. Holds(worker[p].head, worker[p].job)
      BY <2>1 DEF Stage
    <2>3. \A l \in ListenerSet \ Fallible : Range(worker[p].head) \subseteq index[p][l]
      BY <2>1 DEF Reads
    <2>. QED BY <2>1, <2>2, <2>3, FinishRead DEF Results
  <1>10. CASE EditCommit(p)
    BY <1>1, <1>10 DEF EditCommit
  <1>11. CASE PushLands(p)
    BY <1>11, TellingRead DEF PushLands
  <1>12. CASE PushRejected(p)
    <2>1. CASE /\ worker' = [worker EXCEPT ![p] = Attempt("sync", @.job, @.tries + 1)]
               /\ UNCHANGED <<callVars, queue>>
      <3>1. worker'[p].at = "sync" /\ worker'[p].job = worker[p].job
        BY <2>1 DEF Attempt, TypeOK
      <3>. QED BY <1>12, <2>1, <3>1, ElsewhereRead DEF PushRejected
    <2>. QED BY <1>2, <1>12, <2>1 DEF PushRejected
  <1>13. CASE PushGivesUp(p)
    BY <1>2, <1>13 DEF PushGivesUp
  <1>14. CASE Drain(p)
    <2>1. CASE Goto(p, "exited")
      BY <1>1, <1>14, <2>1 DEF Drain
    <2>2. CASE UNCHANGED worker
      BY <1>14, <2>2 DEF Drain, Reads
    <2>. QED BY <1>14, <2>1, <2>2 DEF Drain
  <1>15. CASE SyncFails(p) \/ DiffFails(p) \/ EditRefuses(p) \/ CommitFails(p) \/ PushFails(p)
    BY <1>2, <1>15 DEF SyncFails, DiffFails, EditRefuses, CommitFails, PushFails
  <1>16. CASE HearFails(p)
    BY <1>2, <1>16, HearRead DEF HearFails
  <1>17. CASE PushUnheard(p)
    BY <1>1, <1>17 DEF PushUnheard
  <1>18. CASE Die(p)
    <2>1. /\ worker'[p].at = "off" /\ worker'[p].job = "start" /\ acked'[p] = {}
          /\ \A l \in ListenerSet : Range(seen'[p][l]) = {}
      BY <1>18 DEF Die, Off, Between, Attempt, TypeOK, Unread, Range
    <2>. QED BY <2>1 DEF Reads
  <1>19. CASE Stop(p) \/ Pull(p)
    BY <1>19 DEF Stop, Pull, Reads
  <1>. QED
    BY <1>3, <1>4, <1>5, <1>6, <1>7, <1>8, <1>9, <1>10, <1>11, <1>12, <1>13, <1>14, <1>15,
       <1>16, <1>17, <1>18, <1>19 DEF PodStep, Work, Trouble

LEMMA StepRead ==
    ASSUME TypeInv, HistoryInv, ReadInv, [Next]_vars
    PROVE  ReadInv'
  <1>. TypeOK
    BY DEF TypeInv
  <1>1. CASE UNCHANGED <<worker, seen, index, acked>>
    BY <1>1 DEF ReadInv, Reads
  <1>2. ASSUME NEW p \in Pods, PodStep(p), NEW q \in Pods PROVE Reads(q)'
    BY <1>2, PodRead, OthersRead DEF ReadInv
  <1>3. ASSUME NEW p \in Pods, NEW w \in Writes, Write(p, w) PROVE ReadInv'
    BY <1>1, <1>3 DEF Write, listenerVars
  <1>4. ASSUME NEW f \in Foreign, Push(f) PROVE ReadInv'
    BY <1>1, <1>4 DEF Push, listenerVars, callVars
  <1>5. CASE UNCHANGED vars
    BY <1>1, <1>5 DEF vars, listenerVars, callVars
  <1>6. ASSUME NEW u \in adrift, AdriftLands(u) PROVE ReadInv'
    BY <1>1, <1>6 DEF AdriftLands, listenerVars, callVars
  <1>. QED BY <1>2, <1>3, <1>4, <1>5, <1>6 DEF Next, PodStep, ReadInv

\* What a pod's index says it has seen, it has taken in; and a pod reads every
\* write it has answered, however its listeners' failures fall.
THEOREM ReadsCorrect ==
    ASSUME Root # << >>
    PROVE  Spec => [](SeenIsTakenIn /\ AckedIsRead)
  <1>1. Init => TypeInv /\ HistoryInv /\ ReadInv
    BY InitType, InitHistory, InitRead
  <1>2. TypeInv /\ HistoryInv /\ ReadInv /\ [Next]_vars => (TypeInv /\ HistoryInv /\ ReadInv)'
    BY StepType, StepEdit, StepHistory, StepRead DEF TypeInv
  <1>3. ReadInv => SeenIsTakenIn /\ AckedIsRead
    BY DEF ReadInv, Reads, SeenIsTakenIn, AckedIsRead
  <1>. QED BY <1>1, <1>2, <1>3, PTL DEF Spec

=============================================================================
