--------------------------- MODULE ActionerProofs ---------------------------
(***************************************************************************)
(* What holds of Actioner for every number of pods, items, calls and       *)
(* deaths.                                                                 *)
(***************************************************************************)
EXTENDS Actioner, TLAPS

----------------------------------------------------------------------------
(* The hold's writes, one turn at a time.                                  *)

\* One writer at most has the lock, and what it loaded is still the file.
Turns ==
    /\ AsIfInTurns
    /\ \A t \in turns : t.loaded = file
    /\ \A t, u \in turns : t = u

\* A writer that takes its turn loads the file as it is.
LEMMA EnterTurn ==
    ASSUME Turns, NEW by, Enter(by)
    PROVE  Turns'
  BY DEF Turns, AsIfInTurns, Enter

\* So what it writes is its change of the file as it is.
LEMMA LoadedIsFile ==
    ASSUME Turns, NEW by, HasTurn(by)
    PROVE  Loaded(by) = file /\ serial = file /\ {t \in turns : t.by # by} = {}
  BY DEF Turns, AsIfInTurns, HasTurn, Loaded

\* The write that ends a turn leaves the file as the serial writes have it.
LEMMA WriteTurn ==
    ASSUME file' = serial', turns' = {}
    PROVE  Turns'
  BY DEF Turns, AsIfInTurns

\* A process that ends leaves the file to the others.
LEMMA DroppedTurn ==
    ASSUME Turns, NEW writers, Dropped(writers)
    PROVE  Turns'
  BY DEF Turns, AsIfInTurns, Dropped

LEMMA SameTurn ==
    ASSUME Turns, UNCHANGED fileVars
    PROVE  Turns'
  BY DEF Turns, AsIfInTurns, fileVars

LEMMA AttemptTurn ==
    ASSUME Turns, NEW p \in Pods, AttemptFails(p) \/ AttemptTakes(p)
    PROVE  Turns'
  <1>. DEFINE by == <<"attempt", p>>
              c == pod[p].attempt.call
  <1>1. CASE Enter(by)
    BY <1>1, EnterTurn
  <1>2. CASE Write(by, LAMBDA x : FailHold(x, Failure(c, "refused")))
    BY <1>2, LoadedIsFile, WriteTurn DEF Write
  <1>3. CASE Write(by, LAMBDA x : TakeHold(x, c, NoFollow))
    BY <1>3, LoadedIsFile, WriteTurn DEF Write
  <1>. QED BY <1>1, <1>2, <1>3 DEF AttemptFails, AttemptTakes

LEMMA HookTurn ==
    ASSUME Turns, NEW p \in Pods, HookReleases(p)
    PROVE  Turns'
  <1>. DEFINE by == <<"hook", p>>
              m == pod[p].hook
              failure == IF m.outcome = "success" THEN NoFailure ELSE m
  <1>1. CASE Enter(by)
    BY <1>1, EnterTurn
  <1>2. CASE Write(by, LAMBDA x : ReleaseHold(x, m.call, failure))
    BY <1>2, LoadedIsFile, WriteTurn DEF Write
  <1>. QED BY <1>1, <1>2 DEF HookReleases

LEMMA ClearTurn ==
    ASSUME Turns, NEW p \in Pods, ClearWrites(p)
    PROVE  Turns'
  <1>. DEFINE by == <<"clear", p>>
  <1>1. CASE Enter(by)
    BY <1>1, EnterTurn
  <1>2. CASE Write(by, LAMBDA x : ClearHold(x, pod[p].clearing))
    BY <1>2, LoadedIsFile, WriteTurn DEF Write
  <1>. QED BY <1>1, <1>2 DEF ClearWrites

LEMMA StepTurn ==
    ASSUME Turns, [Next]_vars
    PROVE  Turns'
  <1>1. CASE UNCHANGED fileVars
    BY <1>1, SameTurn
  <1>2. ASSUME NEW p \in Pods, AttemptSteps(p) PROVE Turns'
    BY <1>1, <1>2, AttemptTurn
       DEF AttemptSteps, SubmitStarts, TimerFires, AttemptLooks, AttemptSettles,
           AttemptReadsHold, AttemptAsks, AttemptRefused, Answer, AttemptSpent
  <1>3. ASSUME NEW p \in Pods, PodSteps(p) PROVE Turns'
    <2>1. CASE HookSteps(p)
      BY <1>1, <2>1, HookTurn DEF HookSteps, HookStarts
    <2>2. CASE Die(p)
      BY <2>2, DroppedTurn DEF Die
    <2>. QED BY <1>1, <1>2, <1>3, <2>1, <2>2, ClearTurn
             DEF PodSteps, Submit, Refresh, Deliver, EditorClears, Announce, Stop
  <1>4. ASSUME NEW m \in mail, LoseReport(m) PROVE Turns'
    BY <1>1, <1>4 DEF LoseReport
  <1>5. ASSUME NEW c \in Calls, RunSteps(c) PROVE Turns'
    BY <1>1, <1>5 DEF RunSteps, RunActions, RunEnds
  <1>6. CASE PageShows \/ Expire
    BY <1>1, <1>6 DEF PageShows, Expire
  <1>7. CASE UNCHANGED vars
    BY <1>1, <1>7 DEF vars
  <1>. QED BY <1>3, <1>4, <1>5, <1>6, <1>7 DEF Next

\* No write to the hold's file, by either pod, loses another's, whatever steps
\* fall between its load and its write.
THEOREM TurnsCorrect == Spec => []AsIfInTurns
  <1>1. Init => Turns
    BY DEF Init, HoldInit, Turns, AsIfInTurns
  <1>2. Turns => AsIfInTurns
    BY DEF Turns
  <1>. QED BY <1>1, <1>2, StepTurn, PTL DEF Spec

----------------------------------------------------------------------------
(* Types.                                                                  *)

LEMMA FilesType ==
    ASSUME NEW x \in Files, NEW c \in Calls \cup {0}, NEW failure \in Failures
    PROVE  /\ TakeHold(x, c, NoFollow) \in Files
           /\ ReleaseHold(x, c, failure) \in Files
           /\ FailHold(x, failure) \in Files
           /\ ClearHold(x, failure) \in Files
  <1>1. NoFailure \in Failures /\ NoFollow \in FollowRecords
    BY SMT DEF NoFailure, Failure, Failures, NoFollow, Followed, FollowRecords
  <1>2. << >> \in Seq(Nat)
    OBVIOUS
  <1>3. NoRun \in [run : Calls \cup {0}, lines : Seq(Nat), follow : FollowRecords]
    BY <1>1, <1>2 DEF NoRun
  <1>. QED BY <1>1, <1>2, <1>3 DEF Files, File, TakeHold, ReleaseHold, FailHold, ClearHold

LEMMA EmptyType == EmptyFile \in Files /\ NoFailure \in Failures
  <1>1. NoFailure \in Failures /\ NoFollow \in FollowRecords
    BY SMT DEF NoFailure, Failure, Failures, NoFollow, Followed, FollowRecords
  <1>2. << >> \in Seq(Nat)
    OBVIOUS
  <1>. QED BY <1>1, <1>2 DEF EmptyFile, File, Files, NoRun

\* A turn begins and ends with a file.
LEMMA EnterType ==
    ASSUME HoldTypeOK, NEW by, Enter(by)
    PROVE  HoldTypeOK'
  BY DEF HoldTypeOK, Enter

LEMMA LoadedType ==
    ASSUME HoldTypeOK, NEW by, HasTurn(by)
    PROVE  Loaded(by) \in Files
  BY DEF HoldTypeOK, HasTurn, Loaded

LEMMA WriteType ==
    ASSUME HoldTypeOK, file' \in Files, serial' \in Files, turns' \subseteq turns
    PROVE  HoldTypeOK'
  BY DEF HoldTypeOK

LEMMA SameType ==
    ASSUME HoldTypeOK, UNCHANGED fileVars
    PROVE  HoldTypeOK'
  BY DEF HoldTypeOK, fileVars

\* What an attempt, its retry and its end make of a pod.
LEMMA PodType ==
    ASSUME NEW a \in PodRecords
    PROVE  /\ Begun(a) \in PodRecords
           /\ Settled(a) \in PodRecords
           /\ RetryLater(a) \in PodRecords
  <1>1. Begun(a) \in PodRecords
    BY DEF Begun, PodRecords, Attempt
  <1>2. Settled(a) \in PodRecords
    BY DEF Settled, PodRecords, Attempt, NoAttempt
  <1>3. RetryLater(a) \in PodRecords
    BY DEF RetryLater, PodRecords
  <1>. QED BY <1>1, <1>2, <1>3

LEMMA FreshType == FreshPod \in PodRecords
  BY SMT DEF FreshPod, PodRecords, Attempt, NoAttempt, NoReport, NoFailure, Failure, Failures

LEMMA InitActionerType == Init => TypeOK
  <1> SUFFICES ASSUME Init PROVE TypeOK
    OBVIOUS
  <1>1. HoldTypeOK
    BY EmptyType DEF Init, HoldInit, HoldTypeOK
  <1>2. pod \in [Pods -> PodRecords]
    BY FreshType DEF Init
  <1>3. page \in Failures
    BY EmptyType DEF Init
  <1>. QED BY <1>1, <1>2, <1>3 DEF Init, TypeOK

\* The writes of the hold keep its file a file and each pod a pod.
LEMMA AttemptFailsType ==
    ASSUME TypeOK, NEW p \in Pods, AttemptFails(p)
    PROVE  HoldTypeOK' /\ pod' \in [Pods -> PodRecords]
  <1>. DEFINE by == <<"attempt", p>>
              failure == Failure(pod[p].attempt.call, "refused")
  <1>. HoldTypeOK /\ pod[p] \in PodRecords /\ pod \in [Pods -> PodRecords]
    BY DEF TypeOK
  <1>1. CASE Enter(by) /\ UNCHANGED pod
    BY <1>1, EnterType
  <1>2. CASE Write(by, LAMBDA x : FailHold(x, failure)) /\ AttemptGoes(p, "over")
    <2>1. failure \in Failures
      BY DEF Failure, Failures, PodRecords
    <2>2. Loaded(by) \in Files /\ serial \in Files
      BY <1>2, LoadedType DEF Write, HoldTypeOK
    <2>3. file' = FailHold(Loaded(by), failure) /\ serial' = FailHold(serial, failure)
      BY <1>2 DEF Write
    <2>4. HoldTypeOK'
      BY <1>2, <2>1, <2>2, <2>3, FilesType, WriteType DEF Write
    <2>5. pod' \in [Pods -> PodRecords]
      BY <1>2 DEF AttemptGoes, PodRecords
    <2>. QED BY <2>4, <2>5
  <1>. QED BY <1>1, <1>2 DEF AttemptFails

LEMMA AttemptTakesType ==
    ASSUME TypeOK, NEW p \in Pods, AttemptTakes(p)
    PROVE  /\ HoldTypeOK' /\ pod' \in [Pods -> PodRecords] /\ expired' \in BOOLEAN
           /\ taken' \in [Pods -> SUBSET (Calls \cup {0})]
  <1>. DEFINE by == <<"attempt", p>>
              c == pod[p].attempt.call
  <1>. /\ HoldTypeOK /\ pod[p] \in PodRecords /\ pod \in [Pods -> PodRecords]
       /\ expired \in BOOLEAN /\ taken \in [Pods -> SUBSET (Calls \cup {0})]
    BY DEF TypeOK
  <1>1. CASE Enter(by) /\ UNCHANGED <<pod, expired, taken>>
    BY <1>1, EnterType
  <1>2. CASE /\ Write(by, LAMBDA x : TakeHold(x, c, NoFollow))
             /\ pod' = [pod EXCEPT ![p] = Settled(@)] /\ expired' = FALSE
             /\ taken' = [taken EXCEPT ![p] = @ \cup {c}]
    <2>1. c \in Calls \cup {0} /\ NoFailure \in Failures
      BY EmptyType DEF PodRecords
    <2>2. Loaded(by) \in Files /\ serial \in Files
      BY <1>2, LoadedType DEF Write, HoldTypeOK
    <2>3. file' = TakeHold(Loaded(by), c, NoFollow) /\ serial' = TakeHold(serial, c, NoFollow)
      BY <1>2 DEF Write
    <2>4. file' \in Files /\ serial' \in Files
      BY <2>1, <2>2, <2>3, FilesType
    <2>5. HoldTypeOK'
      BY <1>2, <2>4, WriteType DEF Write
    <2>7. taken' \in [Pods -> SUBSET (Calls \cup {0})]
      BY <1>2, <2>1
    <2>. QED BY <1>2, <2>5, <2>7, PodType
  <1>. QED BY <1>1, <1>2 DEF AttemptTakes

LEMMA HookReleasesType ==
    ASSUME TypeOK, NEW p \in Pods, HookReleases(p)
    PROVE  HoldTypeOK' /\ pod' \in [Pods -> PodRecords]
  <1>. DEFINE by == <<"hook", p>>
              m == pod[p].hook
              failure == IF m.outcome = "success" THEN NoFailure ELSE m
              ending == IF Loaded(by).held.run = m.call THEN m.outcome ELSE "none"
  <1>. HoldTypeOK /\ pod[p] \in PodRecords /\ pod \in [Pods -> PodRecords]
    BY DEF TypeOK
  <1>1. CASE Enter(by) /\ UNCHANGED pod
    BY <1>1, EnterType
  <1>2. CASE /\ Write(by, LAMBDA x : ReleaseHold(x, m.call, failure))
             /\ pod' = [pod EXCEPT ![p].hook = NoReport, ![p].ending = ending]
    <2>1. m \in Failures /\ NoFailure \in Failures
      BY EmptyType DEF PodRecords
    <2>2. /\ m.call \in Calls \cup {0} /\ failure \in Failures
          /\ m.outcome \in {"none", "refused", "failed", "skipped", "success"}
      BY <2>1 DEF Failures
    <2>3. Loaded(by) \in Files /\ serial \in Files
      BY <1>2, LoadedType DEF Write, HoldTypeOK
    <2>4. /\ file' = ReleaseHold(Loaded(by), m.call, failure)
          /\ serial' = ReleaseHold(serial, m.call, failure)
      BY <1>2 DEF Write
    <2>5. file' \in Files /\ serial' \in Files
      BY <2>2, <2>3, <2>4, FilesType
    <2>6. HoldTypeOK'
      BY <1>2, <2>5, WriteType DEF Write
    <2>7. ending \in {"none", "success", "skipped", "failed", "refused"}
      BY <2>2
    <2>. HIDE DEF ending, m
    <2>8. pod' \in [Pods -> PodRecords]
      BY <1>2, <2>1, <2>7 DEF PodRecords, NoReport
    <2>. QED BY <2>6, <2>8
  <1>. QED BY <1>1, <1>2 DEF HookReleases

LEMMA ClearWritesType ==
    ASSUME TypeOK, NEW p \in Pods, ClearWrites(p)
    PROVE  HoldTypeOK' /\ pod' \in [Pods -> PodRecords]
  <1>. DEFINE by == <<"clear", p>>
              failure == pod[p].clearing
  <1>. HoldTypeOK /\ pod[p] \in PodRecords /\ pod \in [Pods -> PodRecords]
    BY DEF TypeOK
  <1>1. CASE Enter(by) /\ UNCHANGED pod
    BY <1>1, EnterType
  <1>2. CASE /\ Write(by, LAMBDA x : ClearHold(x, failure))
             /\ pod' = [pod EXCEPT ![p].clearing = NoFailure]
    <2>1. failure \in Failures /\ NoFailure \in Failures
      BY EmptyType DEF PodRecords
    <2>2. Loaded(by) \in Files /\ serial \in Files
      BY <1>2, LoadedType DEF Write, HoldTypeOK
    <2>3. file' = ClearHold(Loaded(by), failure) /\ serial' = ClearHold(serial, failure)
      BY <1>2 DEF Write
    <2>4. file' \in Files /\ serial' \in Files
      BY <2>1, <2>2, <2>3, FilesType
    <2>5. HoldTypeOK'
      BY <1>2, <2>4, WriteType DEF Write
    <2>6. pod' \in [Pods -> PodRecords]
      BY <1>2, <2>1 DEF PodRecords
    <2>. QED BY <2>5, <2>6
  <1>. QED BY <1>1, <1>2 DEF ClearWrites

LEMMA AnswerType ==
    ASSUME TypeOK, NEW p \in Pods, NEW state \in {"running", "over"},
           NEW at \in {"accepted", "refused"}, Answer(p, state, at), trouble' \in BOOLEAN
    PROVE  TypeOK'
  <1>1. NextCall \in Calls
    BY DEF Answer, NextCall, Unasked
  <1>2. run' \in [Calls -> {"unasked", "running", "over"}]
    BY <1>1 DEF Answer, TypeOK
  <1>3. Waiting \subseteq Items
    BY DEF Waiting
  <1>4. scope' \in [Calls -> SUBSET Items]
    BY <1>1, <1>3 DEF Answer, TypeOK
  <1>5. pod' \in [Pods -> PodRecords]
    <2>1. pod \in [Pods -> PodRecords] /\ Attempt(at, NextCall) \in
             [at : {"none", "ready", "over", "waits", "free", "accepted", "refused"},
              call : Calls \cup {0}, knew : SUBSET (Calls \cup {0})]
      BY <1>1 DEF TypeOK, Attempt
    <2>2. \A a \in PodRecords : [a EXCEPT !.attempt = Attempt(at, NextCall)] \in PodRecords
      BY <2>1 DEF PodRecords
    <2>3. pod' = [pod EXCEPT ![p].attempt = Attempt(at, NextCall)]
      BY DEF Answer
    <2>. QED BY <2>1, <2>2, <2>3
  <1>6. HoldTypeOK'
    BY SameType DEF Answer, TypeOK
  <1>. QED BY <1>2, <1>4, <1>5, <1>6 DEF Answer, TypeOK

LEMMA AttemptType ==
    ASSUME TypeOK, NEW p \in Pods, AttemptSteps(p)
    PROVE  TypeOK'
  <1>. USE DEF outside, history
  <1>. /\ HoldTypeOK /\ pod \in [Pods -> PodRecords] /\ pod[p] \in PodRecords
    BY DEF TypeOK
  <1>1. ASSUME UNCHANGED <<outside, view, expired, page, taken, trouble, deaths>>,
               HoldTypeOK', missed' \in SUBSET Items, pod' \in [Pods -> PodRecords]
        PROVE  TypeOK'
    BY <1>1 DEF TypeOK
  <1>2. ASSUME UNCHANGED fileVars PROVE HoldTypeOK'
    BY <1>2, SameType
  <1>3. missed \subseteq Items /\ pod[p].asking \subseteq Items
    BY DEF TypeOK, PodRecords
  <1>4. ASSUME NEW at \in {"over", "waits"}, AttemptGoes(p, at)
        PROVE  pod' \in [Pods -> PodRecords]
    BY <1>4 DEF AttemptGoes, PodRecords
  <1>5. CASE SubmitStarts(p)
    <2>1. [pod[p] EXCEPT !.asking = {}] \in PodRecords
      BY DEF PodRecords
    <2>2. pod' \in [Pods -> PodRecords]
      BY <1>5, <2>1, PodType DEF SubmitStarts
    <2>3. missed' \subseteq Items
      BY <1>3, <1>5 DEF SubmitStarts
    <2>. QED BY <1>1, <1>2, <1>5, <2>2, <2>3 DEF SubmitStarts
  <1>6. CASE TimerFires(p)
    <2>1. Attempt("ready", 0) \in
             [at : {"none", "ready", "over", "waits", "free", "accepted", "refused"},
              call : Calls \cup {0}, knew : SUBSET (Calls \cup {0})]
      BY DEF Attempt
    <2>2. pod' \in [Pods -> PodRecords]
      BY <1>6, <2>1 DEF TimerFires, PodRecords
    <2>. QED BY <1>1, <1>2, <1>3, <1>6, <2>2 DEF TimerFires
  <1>7. CASE AttemptLooks(p)
    <2>1. pod' \in [Pods -> PodRecords]
      BY <1>4, <1>7 DEF AttemptLooks
    <2>. QED BY <1>1, <1>2, <1>3, <1>7, <2>1 DEF AttemptLooks
  <1>8. CASE AttemptSettles(p)
    <2>1. pod' \in [Pods -> PodRecords]
      BY <1>8, PodType DEF AttemptSettles
    <2>. QED BY <1>1, <1>2, <1>3, <1>8, <2>1 DEF AttemptSettles
  <1>9. CASE AttemptReadsHold(p)
    <2>1. [pod[p] EXCEPT !.attempt = NoAttempt] \in PodRecords
      BY DEF PodRecords, NoAttempt, Attempt
    <2>2. [at |-> "free", call |-> 0, knew |-> Taken] \in
             [at : {"none", "ready", "over", "waits", "free", "accepted", "refused"},
              call : Calls \cup {0}, knew : SUBSET (Calls \cup {0})]
      BY DEF Taken, TypeOK
    <2>3. ASSUME AttemptFree(p) PROVE pod' \in [Pods -> PodRecords]
      BY <2>2, <2>3 DEF AttemptFree, PodRecords
    <2>4. pod' \in [Pods -> PodRecords]
      BY <1>9, <2>1, <2>3, PodType DEF AttemptReadsHold
    <2>. QED BY <1>1, <1>2, <1>3, <1>9, <2>4 DEF AttemptReadsHold
  <1>10. CASE AttemptAsks(p)
    BY <1>10, AnswerType DEF AttemptAsks, TypeOK
  <1>11. CASE AttemptRefused(p)
    BY <1>11, AnswerType DEF AttemptRefused
  <1>12. CASE AttemptSpent(p)
    <2>1. pod' \in [Pods -> PodRecords]
      BY <1>4, <1>12 DEF AttemptSpent
    <2>. QED BY <1>2, <1>12, <2>1 DEF AttemptSpent, TypeOK
  <1>13. CASE AttemptFails(p)
    BY <1>1, <1>3, <1>13, AttemptFailsType DEF AttemptFails
  <1>14. CASE AttemptTakes(p)
    BY <1>14, AttemptTakesType DEF AttemptTakes, TypeOK
  <1>. QED BY <1>5, <1>6, <1>7, <1>8, <1>9, <1>10, <1>11, <1>12, <1>13, <1>14 DEF AttemptSteps

LEMMA StepActionerType ==
    ASSUME TypeOK, [Next]_vars
    PROVE  TypeOK'
  <1>. USE DEF outside, history
  <1>. HoldTypeOK /\ pod \in [Pods -> PodRecords]
    BY DEF TypeOK
  <1>1. ASSUME UNCHANGED fileVars PROVE HoldTypeOK'
    BY <1>1, SameType
  <1>2. ASSUME NEW p \in Pods, NEW i \in Items, Submit(p, i) PROVE TypeOK'
    <2>1. Waiting \cup {i} \subseteq Items
      BY DEF Waiting
    <2>2. pod' \in [Pods -> PodRecords]
      BY <1>2 DEF Submit, PodRecords
    <2>. QED BY <1>1, <1>2, <2>1, <2>2 DEF Submit, TypeOK
  <1>3. ASSUME NEW p \in Pods, Refresh(p) PROVE TypeOK'
    BY <1>1, <1>3 DEF Refresh, Waiting, TypeOK
  <1>4. ASSUME NEW p \in Pods, HookReleases(p) PROVE TypeOK'
    BY <1>4, HookReleasesType DEF HookReleases, TypeOK
  <1>5. ASSUME NEW p \in Pods, HookStarts(p) PROVE TypeOK'
    <2>1. pod[p] \in PodRecords /\ [pod[p] EXCEPT !.ending = "none"] \in PodRecords
      BY DEF PodRecords
    <2>2. [[pod[p] EXCEPT !.ending = "none"] EXCEPT !.pending = TRUE] \in PodRecords
      BY <2>1 DEF PodRecords
    <2>3. pod' \in [Pods -> PodRecords]
      BY <1>5, <2>1, <2>2, PodType DEF HookStarts
    <2>. QED BY <1>1, <1>5, <2>3 DEF HookStarts, TypeOK
  <1>6. ASSUME NEW p \in Pods, NEW m \in mail, Deliver(p, m) PROVE TypeOK'
    <2>1. m \in Failures /\ mail' \in SUBSET Failures
      BY <1>6 DEF Deliver, TypeOK
    <2>2. pod' \in [Pods -> PodRecords]
      BY <1>6, <2>1 DEF Deliver, PodRecords
    <2>. QED BY <1>1, <1>6, <2>1, <2>2 DEF Deliver, TypeOK
  <1>7. ASSUME NEW m \in mail, LoseReport(m) PROVE TypeOK'
    BY <1>1, <1>7 DEF LoseReport, TypeOK
  <1>8. ASSUME NEW c \in Calls, RunSteps(c) PROVE TypeOK'
    <2>1. CASE RunActions(c)
      BY <1>1, <2>1 DEF RunActions, TypeOK
    <2>2. ASSUME NEW outcome \in {"success", "skipped", "failed"}, RunEnds(c, outcome)
          PROVE  TypeOK'
      <3>1. Failure(c, outcome) \in Failures
        BY DEF Failure, Failures
      <3>. QED BY <1>1, <2>2, <3>1 DEF RunEnds, TypeOK
    <2>. QED BY <1>8, <2>1, <2>2 DEF RunSteps
  <1>9. CASE PageShows \/ Expire
    BY <1>1, <1>9 DEF PageShows, Expire, TypeOK, HoldTypeOK, Files
  <1>10. ASSUME NEW p \in Pods, EditorClears(p) \/ Announce(p) \/ Stop(p) PROVE TypeOK'
    <2>1. pod' \in [Pods -> PodRecords]
      <3>1. page \in Failures
        BY DEF TypeOK
      <3>2. \A a \in PodRecords : Stopped(a) \in PodRecords
        BY DEF Stopped, PodRecords
      <3>3. CASE Stop(p)
        BY <3>2, <3>3 DEF Stop
      <3>4. CASE EditorClears(p)
        BY <3>1, <3>4 DEF EditorClears, PodRecords
      <3>5. CASE Announce(p)
        <4>1. pod' = [pod EXCEPT ![p].leaving = TRUE]
          BY <3>5 DEF Announce
        <4>2. \A a \in PodRecords : [a EXCEPT !.leaving = TRUE] \in PodRecords
          BY DEF PodRecords
        <4>. QED BY <4>1, <4>2
      <3>. QED BY <1>10, <3>3, <3>4, <3>5
    <2>. QED BY <1>1, <1>10, <2>1 DEF EditorClears, Announce, Stop, TypeOK
  <1>11. ASSUME NEW p \in Pods, ClearWrites(p) PROVE TypeOK'
    BY <1>11, ClearWritesType DEF ClearWrites, TypeOK
  <1>12. ASSUME NEW p \in Pods, Die(p) PROVE TypeOK'
    <2>1. HoldTypeOK'
      BY <1>12 DEF Die, Dropped, HoldTypeOK
    <2>. QED BY <1>12, <2>1, FreshType DEF Die, Dropped, TypeOK
  <1>13. CASE UNCHANGED vars
    BY <1>1, <1>13 DEF vars, TypeOK
  <1>. QED
    BY <1>2, <1>3, <1>4, <1>5, <1>6, <1>7, <1>8, <1>9, <1>10, <1>11, <1>12, <1>13, AttemptType
       DEF Next, PodSteps, HookSteps

\* Every variable keeps its shape, and one writer at most has the hold's lock.
THEOREM TypeCorrect == Spec => []TypeOK
  BY InitActionerType, StepActionerType, PTL DEF Spec

----------------------------------------------------------------------------
(* A start pending is carried.                                             *)

\* In a pod whose shutdown is not announced, by an attempt or by the timer; and
\* a pod drops its retries only once it is.
Carried(a) ==
    /\ a.pending /\ ~a.leaving => a.attempt # NoAttempt \/ a.timer
    /\ a.stopped => a.leaving

CarryInv == TypeOK /\ \A p \in Pods : Carried(pod[p])

\* What the steps of a start make of a pod leaves it carried.
LEMMA CarriedSteps ==
    ASSUME NEW a \in PodRecords, Carried(a)
    PROVE  /\ Carried(Begun(a))
           /\ Carried(Settled(a))
           /\ Carried(RetryLater(a))
           /\ a.leaving => Carried(Stopped(a))
           /\ \A at \in {"ready", "over", "waits", "free", "accepted", "refused"},
                 c \in Calls \cup {0} :
                /\ Carried([a EXCEPT !.attempt.at = at])
                /\ Carried([a EXCEPT !.attempt = Attempt(at, c)])
                /\ Carried([a EXCEPT !.timer = FALSE, !.attempt = Attempt(at, c)])
  <1>1. \A at \in {"ready", "over", "waits", "free", "accepted", "refused"},
           c \in Calls \cup {0} : Attempt(at, c) # NoAttempt
    BY DEF Attempt, NoAttempt
  <1>2. Carried(Begun(a))
    <2>1. Attempt("ready", 0) # NoAttempt
      BY <1>1
    <2>. QED BY <2>1 DEF Begun, PodRecords, Carried
  <1>3. Carried(Settled(a)) /\ Carried(RetryLater(a))
    BY DEF Settled, RetryLater, PodRecords, Carried
  <1>4. a.leaving => Carried(Stopped(a))
    BY DEF Stopped, PodRecords, Carried
  <1>5. ASSUME NEW at \in {"ready", "over", "waits", "free", "accepted", "refused"},
               NEW c \in Calls \cup {0}
        PROVE  /\ Carried([a EXCEPT !.attempt.at = at])
               /\ Carried([a EXCEPT !.attempt = Attempt(at, c)])
               /\ Carried([a EXCEPT !.timer = FALSE, !.attempt = Attempt(at, c)])
    <2>1. [a.attempt EXCEPT !.at = at] # NoAttempt
      BY DEF PodRecords, NoAttempt, Attempt
    <2>. QED BY <1>1, <2>1 DEF PodRecords, Carried
  <1>. QED BY <1>2, <1>3, <1>4, <1>5

LEMMA StepCarry ==
    ASSUME CarryInv, [Next]_vars
    PROVE  \A p \in Pods : Carried(pod'[p])
  <1>. TypeOK /\ pod \in [Pods -> PodRecords] /\ \A p \in Pods : Carried(pod[p])
    BY DEF CarryInv, TypeOK
  <1>. DEFINE Kept == \A p \in Pods : Carried(pod'[p])
  <1>1. ASSUME NEW p \in Pods, NEW a, pod' = [pod EXCEPT ![p] = a], Carried(a)
        PROVE  Kept
    BY <1>1
  <1>2. ASSUME UNCHANGED pod PROVE Kept
    BY <1>2
  <1>3. ASSUME NEW p \in Pods,
               NEW at \in {"ready", "over", "waits", "free", "accepted", "refused"},
               AttemptGoes(p, at)
        PROVE  Kept
    <2>1. pod' = [pod EXCEPT ![p] = [pod[p] EXCEPT !.attempt.at = at]]
      BY <1>3 DEF AttemptGoes
    <2>2. Carried([pod[p] EXCEPT !.attempt.at = at])
      BY CarriedSteps
    <2>. QED BY <1>1, <2>1, <2>2
  <1>. HIDE DEF Kept
  <1>4. ASSUME NEW p \in Pods, AttemptSteps(p) PROVE Kept
    <2>1. CASE SubmitStarts(p)
      <3>. DEFINE a == [pod[p] EXCEPT !.asking = {}]
      <3>1. a \in PodRecords /\ Carried(a)
        BY DEF PodRecords, Carried
      <3>2. pod' = [pod EXCEPT ![p] = IF a.pending THEN a ELSE Begun(a)]
        BY <2>1 DEF SubmitStarts
      <3>3. Carried(IF a.pending THEN a ELSE Begun(a))
        BY <3>1, CarriedSteps
      <3>. QED BY <1>1, <3>2, <3>3
    <2>2. CASE TimerFires(p)
      <3>1. Carried([pod[p] EXCEPT !.timer = FALSE, !.attempt = Attempt("ready", 0)])
        BY CarriedSteps
      <3>2. pod' = [pod EXCEPT ![p] = [pod[p] EXCEPT !.timer = FALSE, !.attempt = Attempt("ready", 0)]]
        BY <2>2 DEF TimerFires
      <3>. QED BY <1>1, <3>1, <3>2
    <2>3. CASE AttemptLooks(p) \/ AttemptSpent(p)
      BY <1>3, <2>3 DEF AttemptLooks, AttemptSpent
    <2>4. CASE AttemptSettles(p)
      BY <1>1, <2>4, CarriedSteps DEF AttemptSettles
    <2>5. CASE AttemptReadsHold(p)
      <3>. DEFINE a == [pod[p] EXCEPT !.attempt = NoAttempt]
      <3>1. Carried(RetryLater(a))
        BY DEF PodRecords, RetryLater, Carried
      <3>2. CASE pod' = [pod EXCEPT ![p] = RetryLater(a)]
        BY <1>1, <3>1, <3>2
      <3>3. CASE AttemptFree(p)
        <4>. DEFINE b == [pod[p] EXCEPT !.attempt = [at |-> "free", call |-> 0, knew |-> Taken]]
        <4>1. [at |-> "free", call |-> 0, knew |-> Taken] # NoAttempt
          BY DEF NoAttempt, Attempt
        <4>2. Carried(b)
          BY <4>1 DEF PodRecords, Carried
        <4>3. pod' = [pod EXCEPT ![p] = b]
          BY <3>3 DEF AttemptFree
        <4>. QED BY <1>1, <4>2, <4>3
      <3>. QED BY <2>5, <3>2, <3>3 DEF AttemptReadsHold
    <2>6. ASSUME NEW state, NEW at \in {"accepted", "refused"}, Answer(p, state, at)
          PROVE  Kept
      <3>1. NextCall \in Calls
        BY <2>6 DEF Answer, NextCall, Unasked
      <3>2. Carried([pod[p] EXCEPT !.attempt = Attempt(at, NextCall)])
        BY <3>1, CarriedSteps
      <3>3. pod' = [pod EXCEPT ![p] = [pod[p] EXCEPT !.attempt = Attempt(at, NextCall)]]
        BY <2>6 DEF Answer
      <3>. QED BY <1>1, <3>2, <3>3
    <2>7. CASE AttemptFails(p)
      BY <1>2, <1>3, <2>7 DEF AttemptFails
    <2>8. CASE AttemptTakes(p)
      BY <1>1, <1>2, <2>8, CarriedSteps DEF AttemptTakes
    <2>. QED BY <1>4, <2>1, <2>2, <2>3, <2>4, <2>5, <2>6, <2>7, <2>8
             DEF AttemptSteps, AttemptAsks, AttemptRefused
  <1>5. ASSUME NEW p \in Pods, NEW a \in PodRecords, pod' = [pod EXCEPT ![p] = a],
               a.pending = pod[p].pending, a.leaving = pod[p].leaving,
               a.attempt = pod[p].attempt, a.timer = pod[p].timer, a.stopped = pod[p].stopped
        PROVE  Kept
    BY <1>1, <1>5 DEF Carried
  <1>6. ASSUME NEW p \in Pods, HookReleases(p) PROVE Kept
    <2>1. CASE UNCHANGED pod
      BY <1>2, <2>1
    <2>2. ASSUME NEW ending, pod' = [pod EXCEPT ![p].hook = NoReport, ![p].ending = ending]
          PROVE  Kept
      <3>1. Carried([pod[p] EXCEPT !.hook = NoReport, !.ending = ending])
        BY DEF PodRecords, Carried
      <3>2. pod' = [pod EXCEPT ![p] = [pod[p] EXCEPT !.hook = NoReport, !.ending = ending]]
        BY <2>2
      <3>. QED BY <1>1, <3>1, <3>2
    <2>. QED BY <1>6, <2>1, <2>2 DEF HookReleases
  <1>7. ASSUME NEW p \in Pods, HookStarts(p) PROVE Kept
    <2>. DEFINE a == [pod[p] EXCEPT !.ending = "none"]
    <2>1. a \in PodRecords /\ Carried(a)
      BY DEF PodRecords, Carried
    <2>2. Carried(RetryLater([a EXCEPT !.pending = TRUE]))
      BY DEF PodRecords, RetryLater, Carried
    <2>3. Carried(Begun(a))
      BY <2>1, CarriedSteps
    <2>4. CASE pod' = [pod EXCEPT ![p] = a]
      BY <1>1, <2>1, <2>4
    <2>5. CASE pod' = [pod EXCEPT ![p] = RetryLater([a EXCEPT !.pending = TRUE])]
      BY <1>1, <2>2, <2>5
    <2>6. CASE pod' = [pod EXCEPT ![p] = Begun(a)]
      BY <1>1, <2>3, <2>6
    <2>. QED BY <1>7, <2>4, <2>5, <2>6 DEF HookStarts
  <1>8. ASSUME NEW p \in Pods, \/ \E i \in Items : Submit(p, i)
                               \/ \E m \in mail : Deliver(p, m)
                               \/ EditorClears(p) \/ ClearWrites(p)
        PROVE  Kept
    <2>1. \A v : /\ Carried([pod[p] EXCEPT !.asking = v])
                 /\ Carried([pod[p] EXCEPT !.hook = v])
                 /\ Carried([pod[p] EXCEPT !.clearing = v])
      BY DEF PodRecords, Carried
    <2>2. CASE \E v : \/ pod' = [pod EXCEPT ![p].asking = v]
                      \/ pod' = [pod EXCEPT ![p].hook = v]
                      \/ pod' = [pod EXCEPT ![p].clearing = v]
      BY <1>1, <2>1, <2>2
    <2>. QED BY <1>2, <1>8, <2>2 DEF Submit, Deliver, EditorClears, ClearWrites
  <1>9. ASSUME NEW p \in Pods, Announce(p) PROVE Kept
    <2>1. Carried([pod[p] EXCEPT !.leaving = TRUE])
      BY DEF PodRecords, Carried
    <2>2. pod' = [pod EXCEPT ![p] = [pod[p] EXCEPT !.leaving = TRUE]]
      BY <1>9 DEF Announce
    <2>. QED BY <1>1, <2>1, <2>2
  <1>10. ASSUME NEW p \in Pods, Stop(p) PROVE Kept
    BY <1>1, <1>10, CarriedSteps DEF Stop
  <1>11. ASSUME NEW p \in Pods, Die(p) PROVE Kept
    <2>1. Carried(FreshPod)
      BY DEF FreshPod, Carried
    <2>. QED BY <1>1, <1>11, <2>1 DEF Die
  <1>12. ASSUME NEW p \in Pods, Refresh(p) PROVE Kept
    BY <1>2, <1>12 DEF Refresh
  <1>13. ASSUME \/ \E m \in mail : LoseReport(m)
                \/ \E c \in Calls : RunSteps(c)
                \/ PageShows \/ Expire \/ UNCHANGED vars
         PROVE  Kept
    BY <1>2, <1>13 DEF LoseReport, RunSteps, RunActions, RunEnds, PageShows, Expire, vars
  <1>14. Kept
    BY <1>4, <1>6, <1>7, <1>8, <1>9, <1>10, <1>11, <1>12, <1>13 DEF Next, PodSteps, HookSteps
  <1>. QED BY <1>14 DEF Kept

\* A start pending is under way or waits on its timer, in any number of pods
\* and whatever dies, expires or is lost: none is left pending for good, which
\* would cover every later submit and start nothing.
THEOREM PendingCarried == Spec => []PendingIsCarried
  <1>1. Init => CarryInv
    BY InitActionerType DEF Init, FreshPod, Carried, CarryInv
  <1>2. CarryInv /\ [Next]_vars => CarryInv'
    BY StepCarry, StepActionerType DEF CarryInv
  <1>3. CarryInv => PendingIsCarried
    BY DEF CarryInv, Carried, PendingIsCarried
  <1>. QED BY <1>1, <1>2, <1>3, PTL DEF Spec

----------------------------------------------------------------------------
(* A run is asked for beside a live hold only where the hold was not seen.  *)

Accepted(p) == At(p, "accepted")

\* What an attempt has read, and the run it was answered with, against the runs
\* that any pod has held: each run is one attempt's, and held at most once.
UnseenInv ==
    /\ TypeOK /\ Turns
    /\ \A p \in Pods : Accepted(p) =>
         run[pod[p].attempt.call] # "unasked" /\ pod[p].attempt.call \notin Taken
    /\ \A p, q \in Pods : Accepted(p) /\ Accepted(q) /\ p # q =>
         pod[p].attempt.call # pod[q].attempt.call
    /\ \A c \in Taken : run[c] # "unasked"
    /\ \A p \in Pods : At(p, "free") =>
         taken[p] \subseteq pod[p].attempt.knew /\ pod[p].attempt.knew \subseteq Taken
    /\ Holding => file.held.run \in Taken
    /\ \A p \in Pods : At(p, "free") /\ Live => file.held.run \notin pod[p].attempt.knew

\* An attempt becomes free to ask as it reads that no hold is live.
BecomesFree(p) ==
    /\ ~Live /\ UNCHANGED <<file, expired, taken>>
    /\ pod'[p].attempt = [at |-> "free", call |-> 0, knew |-> Taken]

\* Its call is answered with a run no other attempt has.
BecomesAccepted(p) ==
    /\ NextCall \in Calls /\ run[NextCall] = "unasked" /\ run'[NextCall] # "unasked"
    /\ pod' = [pod EXCEPT ![p].attempt = Attempt("accepted", NextCall)]
    /\ UNCHANGED taken

\* Nothing else makes an attempt free or accepted.
LEMMA AttemptMoves ==
    ASSUME TypeOK, [Next]_vars, NEW p \in Pods, pod'[p].attempt.at \in {"free", "accepted"}
    PROVE  pod'[p].attempt = pod[p].attempt \/ BecomesFree(p) \/ BecomesAccepted(p)
  <1>. DEFINE Kept == pod'[p].attempt = pod[p].attempt \/ BecomesFree(p) \/ BecomesAccepted(p)
  <1>. pod \in [Pods -> PodRecords]
    BY DEF TypeOK
  <1>1. ASSUME NEW q \in Pods, NEW a, pod' = [pod EXCEPT ![q] = a],
               a.attempt = pod[q].attempt \/ a.attempt.at \notin {"free", "accepted"}
        PROVE  Kept
    BY <1>1
  <1>2. ASSUME UNCHANGED pod PROVE Kept
    BY <1>2
  <1>3. ASSUME NEW a \in PodRecords
        PROVE  /\ Begun(a).attempt = a.attempt \/ Begun(a).attempt.at = "ready"
               /\ Settled(a).attempt.at = "none"
               /\ RetryLater(a).attempt = a.attempt
               /\ Stopped(a).attempt = a.attempt
               /\ [a EXCEPT !.attempt = NoAttempt].attempt.at = "none"
    BY DEF Begun, Settled, RetryLater, Stopped, Attempt, NoAttempt, PodRecords
  <1>4. ASSUME NEW q \in Pods, NEW at, at \notin {"free", "accepted"}, AttemptGoes(q, at)
        PROVE  Kept
    <2>1. pod' = [pod EXCEPT ![q] = [pod[q] EXCEPT !.attempt.at = at]]
      BY <1>4 DEF AttemptGoes
    <2>2. [pod[q] EXCEPT !.attempt.at = at].attempt.at = at
      BY DEF PodRecords
    <2>. QED BY <1>1, <1>4, <2>1, <2>2
  <1>5. ASSUME NEW q \in Pods, NEW at, NEW v,
               pod' = [pod EXCEPT ![q].attempt = v], v.at \notin {"free", "accepted"}
        PROVE  Kept
    <2>1. pod' = [pod EXCEPT ![q] = [pod[q] EXCEPT !.attempt = v]]
      BY <1>5
    <2>2. [pod[q] EXCEPT !.attempt = v].attempt = v
      BY DEF PodRecords
    <2>. QED BY <1>1, <1>5, <2>1, <2>2
  <1>6. ASSUME NEW q \in Pods, NEW v, pod' = [pod EXCEPT ![q].attempt = v], q # p
        PROVE  Kept
    BY <1>6
  <1>. HIDE DEF Kept
  <1>7. ASSUME NEW q \in Pods, AttemptSteps(q) PROVE Kept
    <2>1. CASE SubmitStarts(q)
      <3>. DEFINE a == [pod[q] EXCEPT !.asking = {}]
      <3>1. a \in PodRecords /\ a.attempt = pod[q].attempt
        BY DEF PodRecords
      <3>2. pod' = [pod EXCEPT ![q] = IF a.pending THEN a ELSE Begun(a)]
        BY <2>1 DEF SubmitStarts
      <3>. HIDE DEF a
      <3>3. Begun(a).attempt = pod[q].attempt \/ Begun(a).attempt.at = "ready"
        BY <1>3, <3>1
      <3>4. CASE a.pending
        BY <1>1, <3>1, <3>2, <3>4
      <3>5. CASE ~a.pending
        BY <1>1, <3>2, <3>3, <3>5
      <3>. QED BY <3>4, <3>5
    <2>2. CASE TimerFires(q)
      <3>1. pod' = [pod EXCEPT ![q] = [pod[q] EXCEPT !.timer = FALSE, !.attempt = Attempt("ready", 0)]]
        BY <2>2 DEF TimerFires
      <3>2. [pod[q] EXCEPT !.timer = FALSE, !.attempt = Attempt("ready", 0)].attempt.at = "ready"
        BY DEF PodRecords, Attempt
      <3>. QED BY <1>1, <3>1, <3>2
    <2>3. CASE AttemptLooks(q) \/ AttemptSpent(q)
      BY <1>4, <2>3 DEF AttemptLooks, AttemptSpent
    <2>4. CASE AttemptSettles(q)
      BY <1>1, <1>3, <2>4 DEF AttemptSettles
    <2>5. CASE AttemptReadsHold(q)
      <3>. DEFINE a == [pod[q] EXCEPT !.attempt = NoAttempt]
      <3>1. CASE Live
        <4>1. pod' = [pod EXCEPT ![q] = RetryLater(a)]
          BY <2>5, <3>1 DEF AttemptReadsHold
        <4>2. a \in PodRecords /\ a.attempt.at = "none"
          BY DEF PodRecords, NoAttempt, Attempt
        <4>. HIDE DEF a
        <4>. QED BY <1>1, <1>3, <4>1, <4>2
      <3>2. CASE ~Live
        <4>1. /\ pod' = [pod EXCEPT ![q].attempt = [at |-> "free", call |-> 0, knew |-> Taken]]
              /\ UNCHANGED <<file, expired, taken>>
          BY <2>5, <3>2 DEF AttemptReadsHold, AttemptFree, fileVars, history
        <4>2. CASE q # p
          BY <1>6, <4>1, <4>2
        <4>3. CASE q = p
          <5>1. pod'[p].attempt = [at |-> "free", call |-> 0, knew |-> Taken]
            BY <4>1, <4>3 DEF PodRecords
          <5>. QED BY <3>2, <4>1, <5>1 DEF BecomesFree, Kept
        <4>. QED BY <4>2, <4>3
      <3>. QED BY <3>1, <3>2
    <2>6. CASE AttemptRefused(q)
      <3>1. PICK state \in {"over", "running"} : Answer(q, state, "refused")
        BY <2>6 DEF AttemptRefused
      <3>2. Attempt("refused", NextCall).at = "refused"
        BY DEF Attempt
      <3>. QED BY <1>5, <3>1, <3>2 DEF Answer
    <2>7. CASE AttemptAsks(q)
      <3>1. /\ pod' = [pod EXCEPT ![q].attempt = Attempt("accepted", NextCall)]
            /\ Unasked # {} /\ run' = [run EXCEPT ![NextCall] = "running"] /\ UNCHANGED taken
        BY <2>7 DEF AttemptAsks, Answer
      <3>2. NextCall \in Calls /\ run[NextCall] = "unasked"
        BY <3>1 DEF NextCall, Unasked
      <3>3. run'[NextCall] # "unasked"
        BY <3>1, <3>2 DEF TypeOK
      <3>4. CASE q # p
        BY <1>6, <3>1, <3>4
      <3>5. CASE q = p
        BY <3>1, <3>2, <3>3, <3>5 DEF BecomesAccepted, Kept
      <3>. QED BY <3>4, <3>5
    <2>8. CASE AttemptFails(q)
      BY <1>2, <1>4, <2>8 DEF AttemptFails
    <2>9. CASE AttemptTakes(q)
      BY <1>1, <1>2, <1>3, <2>9 DEF AttemptTakes
    <2>. QED BY <1>7, <2>1, <2>2, <2>3, <2>4, <2>5, <2>6, <2>7, <2>8, <2>9 DEF AttemptSteps
  <1>8. ASSUME NEW q \in Pods, HookReleases(q) PROVE Kept
    <2>1. ASSUME NEW ending, pod' = [pod EXCEPT ![q].hook = NoReport, ![q].ending = ending]
          PROVE  Kept
      <3>1. [pod[q] EXCEPT !.hook = NoReport, !.ending = ending].attempt = pod[q].attempt
        BY DEF PodRecords
      <3>2. pod' = [pod EXCEPT ![q] = [pod[q] EXCEPT !.hook = NoReport, !.ending = ending]]
        BY <2>1
      <3>. QED BY <1>1, <3>1, <3>2
    <2>. QED BY <1>2, <1>8, <2>1 DEF HookReleases
  <1>9. ASSUME NEW q \in Pods, HookStarts(q) PROVE Kept
    <2>. DEFINE a == [pod[q] EXCEPT !.ending = "none"]
                b == [a EXCEPT !.pending = TRUE]
    <2>1. a \in PodRecords /\ a.attempt = pod[q].attempt
      BY DEF PodRecords
    <2>2. b \in PodRecords /\ b.attempt = pod[q].attempt
      BY DEF PodRecords
    <2>3. \/ pod' = [pod EXCEPT ![q] = a]
          \/ pod' = [pod EXCEPT ![q] = RetryLater(b)]
          \/ pod' = [pod EXCEPT ![q] = Begun(a)]
      BY <1>9 DEF HookStarts
    <2>. HIDE DEF a, b
    <2>. QED BY <1>1, <1>3, <2>1, <2>2, <2>3
  <1>10. ASSUME NEW q \in Pods,
                \/ \E v : pod' = [pod EXCEPT ![q].asking = v]
                \/ \E v : pod' = [pod EXCEPT ![q].hook = v]
                \/ \E v : pod' = [pod EXCEPT ![q].clearing = v]
                \/ \E v : pod' = [pod EXCEPT ![q].leaving = v]
        PROVE  Kept
    <2>1. \A v : /\ [pod[q] EXCEPT !.asking = v].attempt = pod[q].attempt
                 /\ [pod[q] EXCEPT !.hook = v].attempt = pod[q].attempt
                 /\ [pod[q] EXCEPT !.clearing = v].attempt = pod[q].attempt
                 /\ [pod[q] EXCEPT !.leaving = v].attempt = pod[q].attempt
      BY DEF PodRecords
    <2>2. PICK v : \/ pod' = [pod EXCEPT ![q] = [pod[q] EXCEPT !.asking = v]]
                   \/ pod' = [pod EXCEPT ![q] = [pod[q] EXCEPT !.hook = v]]
                   \/ pod' = [pod EXCEPT ![q] = [pod[q] EXCEPT !.clearing = v]]
                   \/ pod' = [pod EXCEPT ![q] = [pod[q] EXCEPT !.leaving = v]]
      BY <1>10
    <2>. QED BY <1>1, <2>1, <2>2
  <1>11. ASSUME NEW q \in Pods, Stop(q) PROVE Kept
    <2>1. Stopped(pod[q]).attempt = pod[q].attempt
      BY <1>3
    <2>2. pod' = [pod EXCEPT ![q] = Stopped(pod[q])]
      BY <1>11 DEF Stop
    <2>. QED BY <1>1, <2>1, <2>2
  <1>12. ASSUME NEW q \in Pods, Die(q) PROVE Kept
    <2>1. FreshPod.attempt.at = "none"
      BY DEF FreshPod, NoAttempt, Attempt
    <2>. QED BY <1>1, <1>12, <2>1 DEF Die
  <1>13. ASSUME NEW q \in Pods, Refresh(q) PROVE Kept
    BY <1>2, <1>13 DEF Refresh
  <1>14. ASSUME \/ \E m \in mail : LoseReport(m)
                \/ \E c \in Calls : RunSteps(c)
                \/ PageShows \/ Expire \/ UNCHANGED vars
         PROVE  Kept
    BY <1>2, <1>14 DEF LoseReport, RunSteps, RunActions, RunEnds, PageShows, Expire, vars
  <1>15. ASSUME NEW q \in Pods, PodSteps(q) PROVE Kept
    <2>1. CASE AttemptSteps(q)
      BY <1>7, <2>1
    <2>2. CASE HookReleases(q) \/ HookStarts(q)
      BY <1>8, <1>9, <2>2
    <2>3. ASSUME NEW i \in Items, Submit(q, i) PROVE Kept
      BY <1>10, <2>3 DEF Submit
    <2>5. ASSUME NEW m \in mail, Deliver(q, m) PROVE Kept
      BY <1>10, <2>5 DEF Deliver
    <2>6. CASE EditorClears(q) \/ ClearWrites(q)
      BY <1>2, <1>10, <2>6 DEF EditorClears, ClearWrites
    <2>7. CASE Announce(q)
      BY <1>10, <2>7 DEF Announce
    <2>4. CASE Stop(q) \/ Die(q) \/ Refresh(q)
      BY <1>11, <1>12, <1>13, <2>4
    <2>. QED BY <1>15, <2>1, <2>2, <2>3, <2>4, <2>5, <2>6, <2>7 DEF PodSteps, HookSteps
  <1>16. Kept
    BY <1>14, <1>15 DEF Next
  <1>. QED BY <1>16 DEF Kept

\* The attempt whose run was accepted takes the hold, and is over with that.
Takes(p) ==
    /\ Accepted(p) /\ pod'[p].attempt.at = "none"
    /\ file'.held.run = pod[p].attempt.call
    /\ taken' = [taken EXCEPT ![p] = @ \cup {pod[p].attempt.call}]
    /\ UNCHANGED run

\* Every other write leaves a hold as it is or releases it.
LEMMA HoldMoves ==
    ASSUME TypeOK, Turns, [Next]_vars
    PROVE  \/ /\ UNCHANGED taken /\ (Live' => Live)
              /\ file'.held.run \in {0, file.held.run}
           \/ \E p \in Pods : Takes(p)
  <1>. DEFINE Kept == \/ /\ UNCHANGED taken /\ (Live' => Live)
                         /\ file'.held.run \in {0, file.held.run}
                      \/ \E p \in Pods : Takes(p)
  <1>. pod \in [Pods -> PodRecords]
    BY DEF TypeOK
  <1>. USE DEF history
  <1>1. ASSUME file'.held.run \in {0, file.held.run}, UNCHANGED <<expired, taken>> PROVE Kept
    BY <1>1 DEF Live, Holding
  <1>2. ASSUME UNCHANGED <<file, expired, taken>> PROVE Kept
    BY <1>1, <1>2
  <1>. HIDE DEF Kept
  <1>3. ASSUME NEW p \in Pods, AttemptFails(p) PROVE Kept
    <2>. DEFINE by == <<"attempt", p>>
                failure == Failure(pod[p].attempt.call, "refused")
    <2>1. CASE Enter(by)
      BY <1>2, <1>3, <2>1 DEF AttemptFails, Enter
    <2>2. CASE Write(by, LAMBDA x : FailHold(x, failure))
      <3>1. file' = FailHold(file, failure)
        BY <2>2, LoadedIsFile DEF Write
      <3>. QED BY <1>1, <1>3, <3>1 DEF AttemptFails, FailHold, File
    <2>. QED BY <1>3, <2>1, <2>2 DEF AttemptFails
  <1>4. ASSUME NEW p \in Pods, AttemptTakes(p) PROVE Kept
    <2>. DEFINE by == <<"attempt", p>>
                c == pod[p].attempt.call
    <2>1. CASE Enter(by) /\ UNCHANGED <<pod, expired, taken>>
      BY <1>2, <2>1 DEF Enter
    <2>2. CASE /\ Write(by, LAMBDA x : TakeHold(x, c, NoFollow))
               /\ pod' = [pod EXCEPT ![p] = Settled(@)]
               /\ taken' = [taken EXCEPT ![p] = @ \cup {c}]
      <3>1. Settled(pod[p]).attempt.at = "none"
        BY DEF Settled, NoAttempt, Attempt, PodRecords
      <3>2. file' = TakeHold(Loaded(by), c, NoFollow)
        BY <2>2 DEF Write
      <3>3. file'.held.run = c
        BY <3>2 DEF TakeHold, File
      <3>4. Accepted(p) /\ UNCHANGED run
        BY <1>4 DEF AttemptTakes, Accepted, outside
      <3>. QED BY <2>2, <3>1, <3>3, <3>4 DEF Takes, Kept
    <2>. QED BY <1>4, <2>1, <2>2 DEF AttemptTakes
  <1>5. ASSUME NEW p \in Pods, HookReleases(p) PROVE Kept
    <2>. DEFINE by == <<"hook", p>>
                m == pod[p].hook
                failure == IF m.outcome = "success" THEN NoFailure ELSE m
    <2>1. CASE Enter(by)
      BY <1>2, <1>5, <2>1 DEF HookReleases, Enter
    <2>2. CASE Write(by, LAMBDA x : ReleaseHold(x, m.call, failure))
      <3>1. file' = ReleaseHold(file, m.call, failure)
        BY <2>2, LoadedIsFile DEF Write
      <3>. HIDE DEF m, failure
      <3>2. file'.held.run \in {0, file.held.run}
        BY <3>1 DEF ReleaseHold, File, NoRun
      <3>. QED BY <1>1, <1>5, <3>2 DEF HookReleases
    <2>. QED BY <1>5, <2>1, <2>2 DEF HookReleases
  <1>6. ASSUME NEW p \in Pods, ClearWrites(p) PROVE Kept
    <2>. DEFINE by == <<"clear", p>>
    <2>1. CASE Enter(by)
      BY <1>2, <1>6, <2>1 DEF ClearWrites, Enter
    <2>2. CASE Write(by, LAMBDA x : ClearHold(x, pod[p].clearing))
      <3>1. file' = ClearHold(file, pod[p].clearing)
        BY <2>2, LoadedIsFile DEF Write
      <3>2. file'.held.run \in {0, file.held.run}
        BY <3>1 DEF ClearHold, File
      <3>. QED BY <1>1, <1>6, <3>2 DEF ClearWrites
    <2>. QED BY <1>6, <2>1, <2>2 DEF ClearWrites
  <1>7. ASSUME NEW p \in Pods, AttemptSteps(p) PROVE Kept
    BY <1>2, <1>3, <1>4, <1>7
       DEF AttemptSteps, SubmitStarts, TimerFires, AttemptLooks, AttemptSettles,
           AttemptReadsHold, AttemptAsks, AttemptRefused, Answer, AttemptSpent, fileVars
  <1>8. ASSUME NEW p \in Pods, PodSteps(p) PROVE Kept
    BY <1>2, <1>5, <1>6, <1>7, <1>8
       DEF PodSteps, HookSteps, HookStarts, Submit, Refresh, Deliver, EditorClears,
           Announce, Stop, Die, Dropped, fileVars
  <1>9. ASSUME \/ \E m \in mail : LoseReport(m)
               \/ \E c \in Calls : RunSteps(c)
               \/ PageShows \/ UNCHANGED vars
        PROVE  Kept
    BY <1>2, <1>9 DEF LoseReport, RunSteps, RunActions, RunEnds, PageShows, vars, fileVars
  <1>10. ASSUME Expire PROVE Kept
    BY <1>10 DEF Expire, Kept, fileVars
  <1>11. Kept
    BY <1>8, <1>9, <1>10 DEF Next
  <1>. QED BY <1>11 DEF Kept

\* A run asked for stays so.
LEMMA StaysAsked ==
    ASSUME TypeOK, [Next]_vars, NEW c, run[c] # "unasked"
    PROVE  run'[c] # "unasked"
  <1>. DEFINE Kept == run'[c] # "unasked"
  <1>. USE DEF outside
  <1>1. ASSUME NEW d \in Calls, NEW state \in {"over", "running"},
               run' = [run EXCEPT ![d] = state]
        PROVE  Kept
    BY <1>1 DEF TypeOK
  <1>2. ASSUME UNCHANGED run PROVE Kept
    BY <1>2
  <1>. HIDE DEF Kept
  <1>3. ASSUME NEW p \in Pods, NEW state \in {"over", "running"}, NEW at, Answer(p, state, at)
        PROVE  Kept
    <2>1. NextCall \in Calls
      BY <1>3 DEF Answer, NextCall, Unasked
    <2>. QED BY <1>1, <1>3, <2>1 DEF Answer
  <1>4. ASSUME NEW p \in Pods, AttemptSteps(p) PROVE Kept
    BY <1>2, <1>3, <1>4
       DEF AttemptSteps, SubmitStarts, TimerFires, AttemptLooks, AttemptSettles,
           AttemptReadsHold, AttemptAsks, AttemptRefused, AttemptSpent, AttemptFails,
           AttemptTakes
  <1>5. ASSUME NEW p \in Pods, PodSteps(p) PROVE Kept
    BY <1>2, <1>4, <1>5
       DEF PodSteps, HookSteps, HookReleases, HookStarts, Submit, Refresh, Deliver,
           EditorClears, ClearWrites, Announce, Stop, Die
  <1>6. ASSUME NEW d \in Calls, RunSteps(d) PROVE Kept
    BY <1>1, <1>2, <1>6 DEF RunSteps, RunActions, RunEnds
  <1>7. ASSUME (\E m \in mail : LoseReport(m)) \/ PageShows \/ Expire \/ UNCHANGED vars
        PROVE  Kept
    BY <1>2, <1>7 DEF LoseReport, PageShows, Expire, vars
  <1>8. Kept
    BY <1>5, <1>6, <1>7 DEF Next
  <1>. QED BY <1>8 DEF Kept

\* The runs held: one more as a hold is taken.
LEMMA TakenMoves ==
    ASSUME TypeOK, NEW p \in Pods, Takes(p)
    PROVE  /\ Taken' = Taken \cup {pod[p].attempt.call}
           /\ \A q \in Pods : q # p => taken'[q] = taken[q]
  BY DEF Takes, Taken, TypeOK

LEMMA StepUnseen ==
    ASSUME UnseenInv, [Next]_vars
    PROVE  UnseenInv'
  <1>. TypeOK /\ Turns
    BY DEF UnseenInv
  <1>1. TypeOK' /\ Turns'
    BY StepActionerType, StepTurn
  <1>2. \A c : run[c] # "unasked" => run'[c] # "unasked"
    BY StaysAsked
  <1>3. \A c \in Taken : run[c] # "unasked"
    BY DEF UnseenInv
  <1>4. \/ UNCHANGED <<taken, Taken>>
        \/ \E q \in Pods : Takes(q)
    BY HoldMoves DEF Taken
  <1>5. ASSUME NEW q \in Pods, Takes(q)
        PROVE  /\ Taken' = Taken \cup {pod[q].attempt.call}
               /\ pod[q].attempt.call \notin Taken /\ run[pod[q].attempt.call] # "unasked"
               /\ \A p \in Pods : Accepted(p) /\ p # q =>
                     pod[p].attempt.call # pod[q].attempt.call
               /\ \A p \in Pods : pod'[p].attempt.at \in {"free", "accepted"} =>
                     p # q /\ taken'[p] = taken[p] /\ pod'[p].attempt = pod[p].attempt
    <2>1. /\ Accepted(q) /\ pod'[q].attempt.at = "none" /\ UNCHANGED run
          /\ file'.held.run = pod[q].attempt.call
          /\ taken' = [taken EXCEPT ![q] = @ \cup {pod[q].attempt.call}]
      BY <1>5 DEF Takes
    <2>2. pod[q].attempt.call \notin Taken /\ run[pod[q].attempt.call] # "unasked"
      BY <2>1 DEF UnseenInv
    <2>3. Taken' = Taken \cup {pod[q].attempt.call}
      BY <1>5, TakenMoves
    <2>4. taken' # taken
      BY <2>2, <2>3 DEF Taken
    <2>5. ASSUME NEW p \in Pods, pod'[p].attempt.at \in {"free", "accepted"}
          PROVE  p # q /\ taken'[p] = taken[p] /\ pod'[p].attempt = pod[p].attempt
      <3>1. p # q
        BY <2>1, <2>5
      <3>2. taken'[p] = taken[p]
        BY <1>5, <3>1, TakenMoves
      <3>3. pod'[p].attempt = pod[p].attempt
        BY <2>4, <2>5, AttemptMoves DEF BecomesFree, BecomesAccepted
      <3>. QED BY <3>1, <3>2, <3>3
    <2>. QED BY <2>1, <2>2, <2>3, <2>5 DEF UnseenInv
  <1>6. ASSUME NEW p \in Pods, Accepted(p)'
        PROVE  /\ run'[pod'[p].attempt.call] # "unasked"
               /\ pod'[p].attempt.call \notin Taken'
    <2>1. pod'[p].attempt.at = "accepted"
      BY <1>6 DEF Accepted, At
    <2>2. CASE pod'[p].attempt = pod[p].attempt
      <3>1. /\ Accepted(p) /\ run[pod[p].attempt.call] # "unasked"
            /\ pod[p].attempt.call \notin Taken
        BY <2>1, <2>2 DEF Accepted, At, UnseenInv
      <3>2. ASSUME NEW q \in Pods, Takes(q) PROVE pod[p].attempt.call \notin Taken'
        BY <1>5, <2>1, <3>1, <3>2
      <3>. QED BY <1>2, <1>4, <2>2, <3>1, <3>2
    <2>3. CASE BecomesAccepted(p)
      <3>1. pod'[p].attempt.call = NextCall
        BY <2>3 DEF BecomesAccepted, Attempt, TypeOK, PodRecords
      <3>. QED BY <1>3, <2>3, <3>1 DEF BecomesAccepted, Taken
    <2>4. CASE BecomesFree(p)
      BY <2>1, <2>4 DEF BecomesFree
    <2>. QED BY <2>1, <2>2, <2>3, <2>4, AttemptMoves
  <1>7. ASSUME NEW p \in Pods, NEW q \in Pods, p # q, Accepted(p)', Accepted(q)'
        PROVE  pod'[p].attempt.call # pod'[q].attempt.call
    <2>1. pod'[p].attempt.at = "accepted" /\ pod'[q].attempt.at = "accepted"
      BY <1>7 DEF Accepted, At
    <2>2. ASSUME NEW r \in Pods, NEW s \in Pods, r # s, BecomesAccepted(r),
                 pod'[s].attempt.at = "accepted"
          PROVE  pod'[r].attempt.call # pod'[s].attempt.call
      <3>1. pod'[r].attempt.call = NextCall /\ pod'[s].attempt = pod[s].attempt
        BY <2>2 DEF BecomesAccepted, Attempt, TypeOK, PodRecords
      <3>2. run[pod[s].attempt.call] # "unasked"
        BY <2>2, <3>1 DEF UnseenInv, Accepted, At
      <3>. QED BY <2>2, <3>1, <3>2 DEF BecomesAccepted
    <2>3. CASE pod'[p].attempt = pod[p].attempt /\ pod'[q].attempt = pod[q].attempt
      <3>1. Accepted(p) /\ Accepted(q)
        BY <2>1, <2>3 DEF Accepted, At
      <3>. QED BY <1>7, <2>3, <3>1 DEF UnseenInv
    <2>4. ~BecomesFree(p) /\ ~BecomesFree(q)
      BY <2>1 DEF BecomesFree
    <2>. QED BY <1>7, <2>1, <2>2, <2>3, <2>4, AttemptMoves
  <1>8. ASSUME NEW c \in Taken' PROVE run'[c] # "unasked"
    <2>1. ASSUME NEW q \in Pods, Takes(q) PROVE run'[c] # "unasked"
      BY <1>2, <1>3, <1>5, <1>8, <2>1
    <2>. QED BY <1>2, <1>3, <1>4, <1>8, <2>1
  <1>9. ASSUME NEW p \in Pods, At(p, "free")'
        PROVE  /\ taken'[p] \subseteq pod'[p].attempt.knew
               /\ pod'[p].attempt.knew \subseteq Taken'
               /\ Live' => file'.held.run \notin pod'[p].attempt.knew
    <2>1. pod'[p].attempt.at = "free"
      BY <1>9 DEF At
    <2>2. CASE pod'[p].attempt = pod[p].attempt
      <3>1. /\ At(p, "free")
            /\ taken[p] \subseteq pod[p].attempt.knew /\ pod[p].attempt.knew \subseteq Taken
            /\ Live => file.held.run \notin pod[p].attempt.knew
        BY <2>1, <2>2 DEF At, UnseenInv
      <3>2. ASSUME NEW q \in Pods, Takes(q)
            PROVE  /\ taken'[p] = taken[p] /\ Taken \subseteq Taken'
                   /\ file'.held.run \notin Taken
        BY <1>5, <2>1, <3>2 DEF Takes
      <3>3. CASE \E q \in Pods : Takes(q)
        BY <2>2, <3>1, <3>2, <3>3
      <3>4. CASE /\ UNCHANGED taken /\ (Live' => Live)
                 /\ file'.held.run \in {0, file.held.run}
        <4>1. UNCHANGED Taken
          BY <3>4 DEF Taken
        <4>2. Live' => file'.held.run # 0
          BY DEF Live, Holding
        <4>. QED BY <2>2, <3>1, <3>4, <4>1, <4>2
      <3>. QED BY <3>3, <3>4, HoldMoves
    <2>3. CASE BecomesFree(p)
      <3>1. pod'[p].attempt.knew = Taken /\ UNCHANGED <<taken, Taken>>
        BY <2>3 DEF BecomesFree, Taken
      <3>2. ~Live'
        BY <2>3 DEF BecomesFree, Live, Holding
      <3>3. taken[p] \subseteq Taken
        BY DEF Taken
      <3>. QED BY <3>1, <3>2, <3>3
    <2>4. ~BecomesAccepted(p)
      BY <2>1 DEF BecomesAccepted, Attempt, TypeOK, PodRecords
    <2>. QED BY <2>1, <2>2, <2>3, <2>4, AttemptMoves
  <1>10. Holding' => file'.held.run \in Taken'
    <2>1. CASE \E q \in Pods : Takes(q)
      BY <1>5, <2>1 DEF Takes
    <2>2. CASE UNCHANGED taken /\ file'.held.run \in {0, file.held.run}
      <3>1. UNCHANGED Taken
        BY <2>2 DEF Taken
      <3>. QED BY <2>2, <3>1 DEF Holding, UnseenInv
    <2>. QED BY <2>1, <2>2, HoldMoves
  <1>. QED BY <1>1, <1>6, <1>7, <1>8, <1>9, <1>10 DEF UnseenInv

\* A pod asks for a run beside a live hold only where another pod took that hold
\* after it read the file; in particular one pod alone never does, though it reads
\* the hold with no turn taken and asks some steps later.
THEOREM OverlapCorrect == Spec => OverlapIsUnseen
  <1>1. Init => UnseenInv
    <2>. SUFFICES ASSUME Init PROVE UnseenInv
      OBVIOUS
    <2>1. TypeOK /\ Turns
      BY InitActionerType DEF Init, HoldInit, Turns, AsIfInTurns
    <2>2. \A p \in Pods : ~At(p, "free") /\ ~Accepted(p)
      BY DEF Init, FreshPod, NoAttempt, Attempt, At, Accepted
    <2>3. Taken = {} /\ ~Holding
      BY DEF Init, Taken, HoldInit, Holding, EmptyFile, File, NoRun
    <2>. QED BY <2>1, <2>2, <2>3 DEF UnseenInv
  <1>2. UnseenInv /\ [Next]_vars => UnseenInv'
    BY StepUnseen
  <1>3. UnseenInv =>
          [\A p \in Pods : AttemptAsks(p) /\ Live =>
             file.held.run \notin pod[p].attempt.knew \cup taken[p]]_vars
    BY DEF UnseenInv, AttemptAsks, Answer
  <1>. QED BY <1>1, <1>2, <1>3, PTL DEF Spec, OverlapIsUnseen

=============================================================================
