-------------------------- MODULE RunFollowProofs --------------------------
(***************************************************************************)
(* Proofs about RunFollow, for any pods, runs, follows and losses.         *)
(***************************************************************************)
EXTENDS RunFollow, SequenceTheorems, TLAPS

\* One writer at most has the lock, and what it loaded is still the file.
Turns ==
    /\ AsIfInTurns
    /\ \A t \in turns : t.loaded = file
    /\ \A t, u \in turns : t = u

\* A heartbeat has a turn only while its follow is not over.
BeatsInv ==
    \A t \in turns : t.by[1] = "beat" =>
        \E f \in Follows : /\ t.by = Beat(f)
                           /\ AtWork(f) \/ follow[f].at \in {"ended", "failed"}

\* The follow the hold names is at its run, and goes on where the hold does.
HoldInv ==
    \A f \in Follows : file.held.follow.by = f =>
        /\ file.held.run = follow[f].call /\ file.held.follow.offset = follow[f].next
        /\ follow[f].at \notin {"none", "claimed"}

\* What a pod follows is its own, and so is what a start has claimed.
PodInv ==
    \A p \in Pods :
        /\ pod[p].following # 0 =>
            follow[pod[p].following].pod = p /\ follow[pod[p].following].at # "none"
        /\ pod[p].claimed # Unheld =>
            LET t == follow[pod[p].claimed] IN
            t.at = "claimed" /\ t.pod = p /\ t.call = pod[p].start /\ t.next = 0

Running(f) == follow[f].at = "claimed" \/ AtWork(f)
Has(f) == LET p == pod[follow[f].pod] IN p.following = f /\ ~p.leaving

\* A thread not released is its pod's one follow, and the pod is not leaving.
ThreadInv ==
    \A f \in Follows :
        /\ follow[f].at \notin {"none", "lost"} => follow[f].pod \in Pods /\ follow[f].call \in Calls
        /\ follow[f].at = "line" => follow[f].next < log[follow[f].call]
        /\ Running(f) /\ ~follow[f].released => Has(f)

\* The pod's follow is released, or over, only once the hold is not its any more.
Gone(f) == ~(Live /\ file.held.follow.by = f)
GoneInv ==
    \A f \in Follows :
        /\ follow[f].at = "done" \/ (follow[f].at = "ended" /\ Has(f)) => Gone(f)
        /\ follow[f].at = "claimed" /\ Has(f) => ~follow[f].released
        /\ AtWork(f) /\ follow[f].released /\ Has(f) => file.held.follow.by # f

Inv == /\ TypeOK /\ Turns /\ BeatsInv /\ HoldInv /\ PodInv /\ ThreadInv /\ GoneInv
       /\ LinesAreTheLog

USE CallsAssumption, FollowsAssumption, BoundsAssumption DEF Unheld

----------------------------------------------------------------------------
(* The hold's writes, one turn at a time.                                  *)

LEMMA LoadedIsFile ==
  ASSUME Turns, NEW by, HasTurn(by)
  PROVE  Loaded(by) = file /\ serial = file /\ {t \in turns : t.by # by} = {}
  BY DEF Turns, AsIfInTurns, HasTurn, Loaded

\* The write that ends a turn is of the file as it is, and no turn is left.
LEMMA WrittenTurn ==
  ASSUME Turns, file' = serial', turns' = {}
  PROVE  Turns' /\ BeatsInv'
  BY DEF Turns, AsIfInTurns, BeatsInv

LEMMA WrittenType ==
  ASSUME file' \in Files, serial' = file', turns' = {}
  PROVE  HoldTypeOK'
  BY DEF HoldTypeOK

LEMMA RecordTypes ==
  /\ NoFailure \in Failures /\ NoFollow \in FollowRecords /\ EmptyFile \in Files
  /\ NoRun.run = 0 /\ NoRun.lines = << >> /\ NoRun.follow = NoFollow
  /\ NoFollow.by = -1 /\ NoFollow.offset = 0
  /\ \A f \in Follows \cup {0}, found \in BOOLEAN, n \in Nat :
        Followed(f, found, n) \in FollowRecords
<1>1. NoFailure \in Failures /\ NoFollow \in FollowRecords /\ NoFollow.by = -1 /\ NoFollow.offset = 0
  BY SMT DEF NoFailure, Failure, Failures, NoFollow, Followed, FollowRecords
<1>2. << >> \in Seq(Nat)
  OBVIOUS
<1>3. \A f \in Follows \cup {0}, found \in BOOLEAN, n \in Nat :
        Followed(f, found, n) \in FollowRecords
  BY DEF Followed, FollowRecords
<1> QED
  BY <1>1, <1>2, <1>3 DEF EmptyFile, File, Files, NoRun

\* What the hold's operations make of a file.
LEMMA OpTypes ==
  ASSUME NEW x \in Files, NEW c \in Calls \cup {0}, NEW f \in Follows, NEW line \in Nat,
         NEW r \in FollowRecords
  PROVE  /\ TakeHold(x, c, r) \in Files /\ ReleaseHold(x, c, NoFailure) \in Files
         /\ UpdateFollow(x, c, f, r) \in Files
         /\ [x EXCEPT !.held.follow.by = f] \in Files
         /\ AddLine(x, c, f, line) \in Files
<1>1. TakeHold(x, c, r) \in Files /\ ReleaseHold(x, c, NoFailure) \in Files
  BY RecordTypes DEF Files, File, TakeHold, ReleaseHold, NoRun, EmptyFile
<1>2. UpdateFollow(x, c, f, r) \in Files /\ [x EXCEPT !.held.follow.by = f] \in Files
  BY DEF Files, UpdateFollow, FollowRecords
<1>3. AddLine(x, c, f, line) \in Files
  <2> DEFINE all == Append(x.held.lines, line)
             past == IF Len(all) > TurnLines THEN Len(all) - TurnLines ELSE 0
             kept == SubSeq(all, past + 1, Len(all))
  <2>1. all \in Seq(Nat) /\ Len(all) \in Nat
    BY DEF Files
  <2> HIDE DEF all
  <2>2. past \in Nat
    BY <2>1
  <2> HIDE DEF past
  <2>3. kept \in Seq(Nat)
    BY <2>1, <2>2
  <2> HIDE DEF kept
  <2>4. HoldsFollow(x, c, f) =>
          AddLine(x, c, f, line) = [x EXCEPT !.held.lines = kept, !.held.follow.offset = line]
    BY DEF AddLine, kept, past, all
  <2>5. [x EXCEPT !.held.lines = kept, !.held.follow.offset = line] \in Files
    BY <2>3 DEF Files, FollowRecords
  <2>6. ~HoldsFollow(x, c, f) => AddLine(x, c, f, line) = x
    BY DEF AddLine
  <2> QED
    BY <2>4, <2>5, <2>6
<1> QED
  BY <1>1, <1>2, <1>3

----------------------------------------------------------------------------
(* The lines.                                                              *)

Last(h) == IF h.lines = << >> THEN 0 ELSE h.lines[Len(h.lines)]
Kept(h) ==
    /\ h.lines = [k \in 1 .. Len(h.lines) |-> Last(h) - Len(h.lines) + k]
    /\ Len(h.lines) = IF Last(h) > TurnLines THEN TurnLines ELSE Last(h)
    /\ h.follow # NoFollow => h.follow.offset = Last(h)

LEMMA LinesAre ==
  LinesAreTheLog <=>
    Kept(file.held) /\ (file.held.run # 0 => Last(file.held) <= log[file.held.run])
  BY DEF LinesAreTheLog, Kept, Last

LEMMA LinesWillBe ==
  ASSUME Kept(file'.held), file'.held.run # 0 => Last(file'.held) <= log'[file'.held.run]
  PROVE  LinesAreTheLog'
  BY DEF LinesAreTheLog, Kept, Last

\* A hold taken or released has no line.
LEMMA EmptyKept ==
  ASSUME NEW h, h.lines = << >>, h.follow # NoFollow => h.follow.offset = 0
  PROVE  Kept(h) /\ Last(h) = 0
<1>1. Last(h) = 0 /\ Len(h.lines) = 0
  BY DEF Last
<1>2. h.lines = [k \in 1 .. Len(h.lines) |-> Last(h) - Len(h.lines) + k]
  BY <1>1
<1> QED
  BY <1>1, <1>2 DEF Kept

LEMMA Lengths ==
  ASSUME NEW line \in Nat \ {0}, NEW n \in Nat,
         n = IF line - 1 > TurnLines THEN TurnLines ELSE line - 1,
         NEW past, past = IF n + 1 > TurnLines THEN n + 1 - TurnLines ELSE 0
  PROVE  /\ past \in {0, 1} /\ n + 1 - past \in Nat \ {0}
         /\ n + 1 - past = IF line > TurnLines THEN TurnLines ELSE line
  OBVIOUS

\* Dropping the first of a run of numbers leaves the others.
LEMMA Shifted ==
  ASSUME NEW all \in Seq(Nat), NEW n \in Nat, Len(all) = n + 1, NEW line \in Nat,
         \A k \in 1 .. n + 1 : all[k] = line - 1 - n + k,
         NEW past \in {0, 1}
  PROVE  SubSeq(all, past + 1, Len(all)) = [k \in 1 .. (n + 1 - past) |-> line - (n + 1 - past) + k]
<1> DEFINE m == n + 1 - past
           kept == SubSeq(all, past + 1, n + 1)
<1>1. \A i \in past + 1 .. n + 1 : all[i] \in Nat
  BY ElementOfSeq
<1>2. past + 1 \in Int /\ n + 1 \in Int /\ (n + 1) - (past + 1) + 1 = m /\ m \in Nat
  OBVIOUS
<1>3. /\ kept \in Seq(Nat)
      /\ Len(kept) = IF past + 1 <= n + 1 THEN (n + 1) - (past + 1) + 1 ELSE 0
      /\ \A i \in 1 .. (n + 1) - (past + 1) + 1 : kept[i] = all[(past + 1) + i - 1]
  BY <1>1, <1>2, SubSeqProperties
<1>4. Len(kept) = m
  BY <1>2, <1>3
<1> HIDE DEF kept
<1>5. ASSUME NEW i \in 1 .. m PROVE kept[i] = line - m + i
  <2>1. (past + 1) + i - 1 \in 1 .. n + 1 /\ kept[i] = all[(past + 1) + i - 1]
    BY <1>2, <1>3
  <2>2. line - 1 - n + ((past + 1) + i - 1) = line - m + i
    OBVIOUS
  <2> QED
    BY <2>1, <2>2
<1>6. kept = [k \in 1 .. m |-> kept[k]]
  BY <1>3, <1>4, LenProperties
<1> QED
  BY <1>5, <1>6 DEF kept

\* The lines up to `line`, the first given up past TurnLines.
LEMMA NextLine ==
  ASSUME NEW s \in Seq(Nat), NEW line \in Nat \ {0},
         \A k \in 1 .. Len(s) : s[k] = line - 1 - Len(s) + k,
         Len(s) = IF line - 1 > TurnLines THEN TurnLines ELSE line - 1
  PROVE  LET all == Append(s, line)
             past == IF Len(all) > TurnLines THEN Len(all) - TurnLines ELSE 0
             m == Len(s) + 1 - past
         IN /\ m \in Nat \ {0} /\ m = IF line > TurnLines THEN TurnLines ELSE line
            /\ SubSeq(all, past + 1, Len(all)) = [k \in 1 .. m |-> line - m + k]
<1> DEFINE all == Append(s, line)
           past == IF Len(all) > TurnLines THEN Len(all) - TurnLines ELSE 0
           n == Len(s)
<1>1. n \in Nat /\ n = IF line - 1 > TurnLines THEN TurnLines ELSE line - 1
  BY LenProperties
<1>2. \A k \in 1 .. n : all[k] = line - 1 - n + k
  BY AppendProperties
<1>3. all \in Seq(Nat) /\ Len(all) = n + 1 /\ all[n + 1] = line
  BY AppendProperties
<1>4. past = IF n + 1 > TurnLines THEN n + 1 - TurnLines ELSE 0
  <2>1. Len(all) = n + 1
    BY <1>3
  <2> HIDE DEF all, n
  <2> QED
    BY <1>1, <2>1
<1> HIDE DEF all, n
<1> HIDE DEF past
<1>5. /\ past \in {0, 1} /\ n + 1 - past \in Nat \ {0}
      /\ n + 1 - past = IF line > TurnLines THEN TurnLines ELSE line
  BY <1>1, <1>4, Lengths
<1>6. ASSUME NEW k \in 1 .. n + 1 PROVE all[k] = line - 1 - n + k
  <2>1. CASE k = n + 1
    <3>1. line - 1 - n + (n + 1) = line
      BY <1>1
    <3> QED
      BY <1>3, <2>1, <3>1
  <2>2. CASE k # n + 1
    <3>1. k \in 1 .. n
      BY <1>1, <2>2
    <3> QED
      BY <1>2, <3>1
  <2> QED
    BY <2>1, <2>2
<1>7. SubSeq(all, past + 1, Len(all)) = [k \in 1 .. (n + 1 - past) |-> line - (n + 1 - past) + k]
  BY ONLY <1>1, <1>3, <1>5, <1>6, Shifted
<1> QED
  BY <1>5, <1>7 DEF n, past, all

LEMMA AddKept ==
  ASSUME NEW x \in Files, Kept(x.held), NEW c, NEW f, HoldsFollow(x, c, f), x.held.follow # NoFollow,
         NEW line, line = x.held.follow.offset + 1
  PROVE  /\ Kept(AddLine(x, c, f, line).held) /\ Last(AddLine(x, c, f, line).held) = line
         /\ AddLine(x, c, f, line).held.run = x.held.run
         /\ AddLine(x, c, f, line).held.follow = [x.held.follow EXCEPT !.offset = line]
<1> DEFINE all == Append(x.held.lines, line)
           past == IF Len(all) > TurnLines THEN Len(all) - TurnLines ELSE 0
           kept == SubSeq(all, past + 1, Len(all))
           m == Len(x.held.lines) + 1 - past
           y == [x EXCEPT !.held.lines = kept, !.held.follow.offset = line]
<1>1. AddLine(x, c, f, line) = y
  BY DEF AddLine
<1>2. /\ y.held.lines = kept /\ y.held.run = x.held.run
      /\ y.held.follow = [x.held.follow EXCEPT !.offset = line] /\ y.held.follow.offset = line
  BY DEF Files, FollowRecords
<1>3. /\ x.held.lines \in Seq(Nat) /\ Len(x.held.lines) \in Nat
      /\ line - 1 = Last(x.held) /\ line \in Nat \ {0}
  BY DEF Files, FollowRecords, Kept
<1>4. /\ \A k \in 1 .. Len(x.held.lines) : x.held.lines[k] = line - 1 - Len(x.held.lines) + k
      /\ Len(x.held.lines) = IF line - 1 > TurnLines THEN TurnLines ELSE line - 1
  BY <1>3 DEF Kept
<1>5. /\ m \in Nat \ {0} /\ m = IF line > TurnLines THEN TurnLines ELSE line
      /\ kept = [k \in 1 .. m |-> line - m + k]
  BY <1>3, <1>4, NextLine
<1> HIDE DEF y, kept, m
<1>6. Len(kept) = m /\ kept # << >> /\ kept[m] = line
  <2>1. kept \in [1 .. m -> Int] /\ m \in 1 .. m
    BY <1>3, <1>5
  <2>2. kept \in Seq(Int) /\ Len(kept) = m
    BY ONLY <1>5, <2>1
  <2>3. kept[m] = line
    BY <1>3, <1>5, <2>1
  <2> QED
    BY <1>5, <2>2, <2>3
<1>7. Last(y.held) = line
  BY <1>2, <1>6 DEF Last
<1>8. Kept(y.held)
  BY <1>2, <1>5, <1>6, <1>7 DEF Kept
<1> QED
  BY <1>1, <1>2, <1>7, <1>8

----------------------------------------------------------------------------
LEMMA InitInv == Init => Inv
<1> SUFFICES ASSUME Init PROVE Inv
  OBVIOUS
<1>1. /\ file = EmptyFile /\ turns = {} /\ serial = file
      /\ file.held.run = 0 /\ file.held.lines = << >> /\ file.held.follow = NoFollow
  BY DEF Init, HoldInit, EmptyFile, File, NoRun
<1>2. \A f \in Follows : /\ follow[f].at = "none" /\ follow[f].released
                         /\ follow[f] \in Threads
  BY DEF Init, Thread, Threads
<1>3. \A p \in Pods : /\ pod[p].following = 0 /\ pod[p].claimed = Unheld /\ pod[p] \in PodRecords
  BY DEF Init, FreshPod, PodRecords
<1>4. TypeOK
  <2>1. HoldTypeOK
    BY <1>1, RecordTypes DEF HoldTypeOK
  <2>2. pod \in [Pods -> PodRecords]
    BY <1>3 DEF Init
  <2>3. follow \in [Follows -> Threads]
    BY <1>2 DEF Init
  <2>4. run \in [Calls -> {"unasked", "running", "over"}] /\ log \in [Calls -> 0 .. LogLength]
    BY DEF Init
  <2>5. expired \in BOOLEAN /\ silent \in BOOLEAN /\ losses \in Nat
    BY DEF Init
  <2> QED
    BY <2>1, <2>2, <2>3, <2>4, <2>5 DEF TypeOK
<1>5. Turns /\ BeatsInv
  BY <1>1 DEF Turns, AsIfInTurns, BeatsInv
<1>6. file.held.follow.by = -1
  BY <1>1, RecordTypes
<1>7. HoldInv /\ PodInv /\ ThreadInv /\ GoneInv
  BY <1>2, <1>3, <1>6 DEF HoldInv, PodInv, ThreadInv, GoneInv, Running, AtWork
<1>8. LinesAreTheLog
  BY <1>1, EmptyKept, LinesAre
<1> QED
  BY <1>4, <1>5, <1>7, <1>8 DEF Inv

\* The run's and the clock's steps: nothing of a follow's, and the log only grows.
LEMMA OutsideInv ==
  ASSUME Inv, UNCHANGED <<fileVars, pod, follow>>, expired' \in BOOLEAN, expired => expired',
         run' \in [Calls -> {"unasked", "running", "over"}], log' \in [Calls -> 0 .. LogLength],
         \A c \in Calls : log[c] <= log'[c], silent' \in BOOLEAN, losses' \in Nat
  PROVE  Inv'
<1> USE DEF Inv, fileVars
<1>1. TypeOK'
  BY DEF TypeOK, HoldTypeOK
<1>2. Turns' /\ HoldInv' /\ PodInv'
  BY DEF Turns, AsIfInTurns, HoldInv, PodInv
<1>3. BeatsInv'
  BY DEF BeatsInv, Beat, AtWork
<1>4. log \in [Calls -> 0 .. LogLength] /\ file.held.run \in Calls \cup {0} /\ Last(file.held) \in Int
      /\ \A c \in Calls : log[c] \in Int /\ log'[c] \in Int /\ log[c] <= log'[c]
  <2>1. file \in Files
    BY DEF TypeOK, HoldTypeOK
  <2>2. file.held.lines \in Seq(Nat) /\ file.held.run \in Calls \cup {0}
    BY <2>1 DEF Files
  <2>3. file.held.lines # << >> => Len(file.held.lines) \in 1 .. Len(file.held.lines)
    BY <2>2, EmptySeq, LenProperties
  <2>4. Last(file.held) \in Int
    BY <2>2, <2>3, ElementOfSeq DEF Last
  <2>5. \A c \in Calls : log[c] \in Int /\ log'[c] \in Int /\ log[c] <= log'[c]
    BY DEF TypeOK
  <2> QED
    BY <2>2, <2>4, <2>5 DEF TypeOK
<1>5. ThreadInv'
  <2>1. ASSUME NEW f \in Follows, follow[f].at = "line"
        PROVE  follow[f].next < log'[follow[f].call]
    <3>1. follow[f].call \in Calls /\ follow[f].next < log[follow[f].call] /\ follow[f].next \in Nat
      BY <2>1 DEF ThreadInv, TypeOK, Threads
    <3> DEFINE a == log[follow[f].call]
               b == log'[follow[f].call]
    <3>2. a \in Int /\ b \in Int /\ a <= b
      BY <1>4, <3>1
    <3> HIDE DEF a, b
    <3>3. follow[f].next < a
      BY <3>1 DEF a
    <3>4. follow[f].next < b
      BY <3>1, <3>2, <3>3
    <3> QED
      BY <3>4 DEF b
  <2> QED
    BY <2>1 DEF ThreadInv, Running, AtWork, Has
<1>6. GoneInv'
  BY DEF GoneInv, Has, AtWork, Gone, Live, Holding
<1>7. LinesAreTheLog'
  <2>1. file.held.run # 0 => Last(file.held) <= log'[file.held.run]
    <3> SUFFICES ASSUME file.held.run # 0 PROVE Last(file.held) <= log'[file.held.run]
      OBVIOUS
    <3>1. Last(file.held) <= log[file.held.run] /\ file.held.run \in Calls
      BY <1>4, LinesAre
    <3> DEFINE a == log[file.held.run]
               b == log'[file.held.run]
    <3>2. a \in Int /\ b \in Int /\ a <= b /\ Last(file.held) <= a /\ Last(file.held) \in Int
      BY <1>4, <3>1
    <3> HIDE DEF a, b
    <3>3. Last(file.held) <= b
      BY <3>2
    <3> QED
      BY <3>3 DEF b
  <2> QED
    BY <2>1, LinesAre DEF LinesAreTheLog, Last
<1> QED
  BY <1>1, <1>2, <1>3, <1>5, <1>6, <1>7

\* A writer that takes its turn changes nothing else.
LEMMA EnterInv ==
  ASSUME Inv, NEW by, Enter(by), UNCHANGED <<outside, ages, pod, follow, losses>>,
         by[1] = "beat" => \E f \in Follows : by = Beat(f) /\ AtWork(f)
  PROVE  Inv'
<1> USE DEF Inv
<1>1. /\ UNCHANGED <<file, serial, run, log, expired, silent, pod, follow, losses>>
      /\ turns' = {[by |-> by, loaded |-> file]}
  BY DEF Enter, outside, ages
<1>2. TypeOK'
  BY <1>1 DEF TypeOK, HoldTypeOK
<1>3. Turns' /\ HoldInv' /\ PodInv' /\ LinesAreTheLog'
  <2>1. Turns'
    BY <1>1 DEF Turns, AsIfInTurns
  <2>2. HoldInv' /\ PodInv'
    BY <1>1 DEF HoldInv, PodInv
  <2>3. LinesAreTheLog'
    BY <1>1 DEF LinesAreTheLog
  <2> QED
    BY <2>1, <2>2, <2>3
<1>4. BeatsInv'
  <2> SUFFICES ASSUME by[1] = "beat"
               PROVE  \E f \in Follows : /\ by = Beat(f)'
                                         /\ AtWork(f)' \/ follow'[f].at \in {"ended", "failed"}
    BY <1>1 DEF BeatsInv
  <2>1. PICK f \in Follows : by = Beat(f) /\ AtWork(f)
    OBVIOUS
  <2>2. Beat(f)' = Beat(f) /\ AtWork(f)' = AtWork(f)
    BY <1>1 DEF Beat, AtWork
  <2> QED
    BY <2>1, <2>2
<1>5. ThreadInv' /\ GoneInv'
  BY <1>1 DEF ThreadInv, GoneInv, Running, AtWork, Has, Gone, Live, Holding
<1> QED
  BY <1>2, <1>3, <1>4, <1>5

----------------------------------------------------------------------------
(* A follow's thread.                                                      *)

\* A step of a thread that stays its pod's, over a hold that names no other follow.
LEMMA MovesInv ==
  ASSUME Inv, NEW f \in Follows, NEW m \in Threads, follow' = [follow EXCEPT ![f] = m],
         m.pod = follow[f].pod, m.call = follow[f].call,
         follow[f].at \notin {"none", "claimed"}, m.at \notin {"none", "claimed"},
         UNCHANGED <<run, log, expired, pod>>, silent' \in BOOLEAN, losses' \in Nat,
         HoldTypeOK', Turns', BeatsInv', LinesAreTheLog',
         file'.held.run = file.held.run,
         \A g \in Follows : file'.held.follow.by = g =>
            /\ file.held.follow.by = g
            /\ file'.held.follow.offset = IF g = f THEN m.next ELSE file.held.follow.offset,
         m.at \notin {"lost"} => follow[f].at # "lost",
         m.at = "line" => m.next < log[m.call],
         m.at \in {"search", "read", "line"} => AtWork(f) /\ (~m.released => ~follow[f].released),
         m.at = "done" \/ (m.at = "ended" /\ Has(f)) => Gone(f)',
         m.at \in {"search", "read", "line"} /\ m.released /\ Has(f) => file'.held.follow.by # f
  PROVE  Inv'
<1> USE DEF Inv
<1>1. follow \in [Follows -> Threads] /\ pod \in [Pods -> PodRecords]
  BY DEF TypeOK
<1>2. /\ \A g \in Follows : follow'[g] = IF g = f THEN m ELSE follow[g]
      /\ \A g \in Follows : follow'[g].pod = follow[g].pod /\ follow'[g].call = follow[g].call
      /\ \A g \in Follows : Has(g)' = Has(g)
  <2>1. \A g \in Follows : follow'[g] = IF g = f THEN m ELSE follow[g]
    BY <1>1
  <2>2. \A g \in Follows : follow'[g].pod = follow[g].pod /\ follow'[g].call = follow[g].call
    BY <2>1
  <2> QED
    BY <2>1, <2>2 DEF Has
<1>3. TypeOK'
  BY <1>1 DEF TypeOK
<1>4. HoldInv'
  BY <1>2 DEF HoldInv
<1>5. PodInv'
  <2> SUFFICES ASSUME NEW p \in Pods
               PROVE  /\ pod[p].following # 0 =>
                         follow'[pod[p].following].pod = p /\ follow'[pod[p].following].at # "none"
                      /\ pod[p].claimed # Unheld =>
                         LET t == follow'[pod[p].claimed] IN
                         t.at = "claimed" /\ t.pod = p /\ t.call = pod[p].start /\ t.next = 0
    BY DEF PodInv
  <2>1. pod[p].following \in Follows \cup {0} /\ pod[p].claimed \in Follows \cup {0}
    BY <1>1 DEF PodRecords
  <2> QED
    BY <1>2, <2>1 DEF PodInv
<1>6. ThreadInv'
  <2> SUFFICES ASSUME NEW g \in Follows
               PROVE  /\ follow'[g].at \notin {"none", "lost"} =>
                            follow'[g].pod \in Pods /\ follow'[g].call \in Calls
                      /\ follow'[g].at = "line" => follow'[g].next < log[follow'[g].call]
                      /\ Running(g)' /\ ~follow'[g].released => Has(g)
    BY <1>2 DEF ThreadInv
  <2>1. CASE g = f
    BY <1>2, <2>1 DEF ThreadInv, Running, AtWork
  <2>2. CASE g # f
    BY <1>2, <2>2 DEF ThreadInv, Running, AtWork
  <2> QED
    BY <2>1, <2>2
<1>7. GoneInv'
  <2> SUFFICES ASSUME NEW g \in Follows
               PROVE  /\ follow'[g].at = "done" \/ (follow'[g].at = "ended" /\ Has(g)) => Gone(g)'
                      /\ follow'[g].at = "claimed" /\ Has(g) => ~follow'[g].released
                      /\ AtWork(g)' /\ follow'[g].released /\ Has(g) => file'.held.follow.by # g
    BY <1>2 DEF GoneInv
  <2>1. CASE g = f
    <3>1. follow'[f].at = "done" \/ (follow'[f].at = "ended" /\ Has(f)) => Gone(f)'
      BY <1>2
    <3>2. follow'[f].at # "claimed"
      BY <1>2
    <3>3. AtWork(f)' /\ follow'[f].released /\ Has(f) => file'.held.follow.by # f
      BY <1>2 DEF AtWork
    <3> QED
      BY <2>1, <3>1, <3>2, <3>3
  <2>2. CASE g # f
    <3>1. Gone(g) => Gone(g)'
      BY DEF Gone, Live, Holding
    <3> QED
      BY <1>2, <2>2, <3>1 DEF GoneInv, AtWork
  <2> QED
    BY <2>1, <2>2
<1> QED
  BY <1>3, <1>4, <1>5, <1>6, <1>7

LEMMA MovedThread ==
  ASSUME TypeOK, NEW f \in Follows, NEW next \in Nat,
         NEW at \in {"search", "read", "line", "ended", "failed", "leave", "done", "lost"}
  PROVE  LET m == Moved(f, at, next) IN
         /\ m \in Threads /\ m.at = at /\ m.next = next
         /\ m.pod = follow[f].pod /\ m.call = follow[f].call
         /\ m.released = (follow[f].released \/ at \in {"ended", "failed"})
<1>1. follow[f] \in Threads
  BY DEF TypeOK
<1> QED
  BY <1>1 DEF Moved, Threads

\* A step of the thread's that is not a write; the follow has it only while it goes on.
LEMMA ReadsInv ==
  ASSUME Inv, NEW f \in Follows, FollowReads(f) \/ FollowStops(f) \/ FollowFails(f)
  PROVE  Inv'
<1> USE DEF Inv
<1>1. PICK at \in {"line", "ended", "failed"} :
        /\ Goes(f, at) /\ AtWork(f)
        /\ UNCHANGED <<run, log, file, serial, turns, expired, silent, pod>>
        /\ losses' \in Nat
        /\ at = "line" => GoesOn(f) /\ follow[f].next < log[follow[f].call]
        /\ at = "ended" => ~GoesOn(f)
  BY SMT DEF FollowReads, FollowStops, FollowFails, AtWork, outside, ages, fileVars, TypeOK
<1> DEFINE m == Moved(f, at, follow[f].next)
<1>2. follow[f] \in Threads /\ follow[f].next \in Nat
  BY DEF TypeOK, Threads
<1>3. /\ m \in Threads /\ m.at = at /\ m.next = follow[f].next
      /\ m.pod = follow[f].pod /\ m.call = follow[f].call
      /\ m.released = (follow[f].released \/ at \in {"ended", "failed"})
  BY <1>2, MovedThread
<1>4. follow' = [follow EXCEPT ![f] = m]
  BY <1>1 DEF Goes
<1> HIDE DEF m
<1>5. HoldTypeOK' /\ Turns' /\ LinesAreTheLog'
  BY <1>1 DEF TypeOK, HoldTypeOK, Turns, AsIfInTurns, LinesAreTheLog
<1>6. BeatsInv'
  <2> SUFFICES ASSUME NEW t \in turns, t.by[1] = "beat"
               PROVE  \E g \in Follows : /\ t.by = Beat(g)'
                                         /\ AtWork(g)' \/ follow'[g].at \in {"ended", "failed"}
    BY <1>1 DEF BeatsInv
  <2>1. PICK g \in Follows : t.by = Beat(g) /\ (AtWork(g) \/ follow[g].at \in {"ended", "failed"})
    BY DEF BeatsInv
  <2>2. follow'[g] = IF g = f THEN m ELSE follow[g]
    BY <1>4 DEF TypeOK
  <2> QED
    BY <1>1, <1>3, <2>1, <2>2 DEF Beat, AtWork
<1>7. at = "ended" /\ Has(f) => Gone(f)
  <2> SUFFICES ASSUME at = "ended", Has(f), Live, file.held.follow.by = f PROVE FALSE
    BY DEF Gone
  <2>1. HasIt(f, file)
    BY DEF HoldInv, HasIt, HoldsFollow
  <2>2. follow[f].released
    BY <1>1, <2>1 DEF GoesOn
  <2> QED
    BY <1>1, <2>2 DEF GoneInv
<1>8. Gone(f)' = Gone(f)
  BY <1>1 DEF Gone, Live, Holding
<1>9. at = "line" => ~follow[f].released
  BY <1>1 DEF GoesOn
<1>10. UNCHANGED <<run, log, expired, pod>> /\ silent' \in BOOLEAN /\ losses' \in Nat
  BY <1>1 DEF TypeOK
<1>11. /\ follow[f].at \notin {"none", "claimed", "lost"} /\ m.at \notin {"none", "claimed"}
       /\ m.at = "line" => m.next < log[m.call]
       /\ m.at \in {"search", "read", "line"} => AtWork(f) /\ (~m.released => ~follow[f].released)
  BY <1>1, <1>3 DEF AtWork
<1>12. /\ file'.held.run = file.held.run
       /\ \A g \in Follows : file'.held.follow.by = g =>
            /\ file.held.follow.by = g
            /\ file'.held.follow.offset = IF g = f THEN m.next ELSE file.held.follow.offset
  BY <1>1, <1>3 DEF HoldInv
<1>13. /\ m.at = "done" \/ (m.at = "ended" /\ Has(f)) => Gone(f)'
       /\ m.at \in {"search", "read", "line"} /\ m.released /\ Has(f) => file'.held.follow.by # f
  BY <1>1, <1>3, <1>7, <1>8, <1>9
<1> QED
  BY <1>3, <1>4, <1>5, <1>6, <1>10, <1>11, <1>12, <1>13, MovesInv
\* The write of a follow the hold is not any more changes nothing, and ends it.
LEMMA GivesUpInv ==
  ASSUME Inv, NEW f \in Follows, NEW by, HasTurn(by), AtWork(f), ~HasIt(f, file),
         file' = file, serial' = serial, turns' = {t \in turns : t.by # by},
         follow' = [follow EXCEPT ![f] = Moved(f, "ended", @.next)],
         UNCHANGED <<outside, ages, pod, losses>>
  PROVE  Inv'
<1> USE DEF Inv
<1> DEFINE m == Moved(f, "ended", follow[f].next)
<1>1. UNCHANGED <<run, log, expired, pod>> /\ losses' \in Nat /\ silent' \in BOOLEAN
  BY DEF outside, ages, TypeOK
<1>2. follow[f] \in Threads /\ follow[f].next \in Nat
  BY DEF TypeOK, Threads
<1>3. /\ m \in Threads /\ m.at = "ended" /\ m.next = follow[f].next
      /\ m.pod = follow[f].pod /\ m.call = follow[f].call
  BY <1>2, MovedThread
<1>4. follow' = [follow EXCEPT ![f] = m]
  OBVIOUS
<1> HIDE DEF m
<1>5. HoldTypeOK' /\ Turns' /\ BeatsInv' /\ LinesAreTheLog'
  <2>1. turns' = {} /\ file' = serial' /\ file' \in Files
    BY LoadedIsFile DEF TypeOK, HoldTypeOK
  <2>2. LinesAreTheLog'
    BY <1>1 DEF LinesAreTheLog
  <2> QED
    BY <2>1, <2>2, WrittenTurn, WrittenType
<1>6. file.held.follow.by # f
  BY DEF HoldInv, HasIt, HoldsFollow
<1>7. /\ file'.held.run = file.held.run
      /\ \A g \in Follows : file'.held.follow.by = g =>
            /\ file.held.follow.by = g
            /\ file'.held.follow.offset = IF g = f THEN m.next ELSE file.held.follow.offset
      /\ Gone(f)'
  BY <1>6 DEF Gone
<1>8. follow[f].at \notin {"none", "claimed", "lost"}
  BY DEF AtWork
<1> QED
  BY <1>1, <1>2, <1>3, <1>4, <1>5, <1>7, <1>8, MovesInv

\* A write of the follow's that holds it.
LEMMA HoldsInv ==
  ASSUME Inv, NEW f \in Follows, NEW by, HasTurn(by), AtWork(f), HasIt(f, file),
         NEW next \in Nat, NEW at \in {"read", "ended"},
         file' \in Files, serial' = file', turns' = {t \in turns : t.by # by},
         follow' = [follow EXCEPT ![f] = Moved(f, at, next)],
         UNCHANGED <<outside, ages, pod, losses>>,
         file'.held.run = file.held.run, Kept(file'.held),
         Last(file'.held) <= log[file.held.run],
         at = "read" => file'.held.follow.by = f /\ file'.held.follow.offset = next,
         at = "ended" => file'.held.follow.by = -1
  PROVE  Inv'
<1> USE DEF Inv
<1> DEFINE m == Moved(f, at, next)
<1>1. UNCHANGED <<run, log, expired, pod>> /\ losses' \in Nat /\ silent' \in BOOLEAN
  BY DEF outside, ages, TypeOK
<1>2. follow[f] \in Threads
  BY DEF TypeOK
<1>3. /\ m \in Threads /\ m.at = at /\ m.next = next
      /\ m.pod = follow[f].pod /\ m.call = follow[f].call
      /\ m.released = (follow[f].released \/ at = "ended")
  BY <1>2, MovedThread
<1>4. follow' = [follow EXCEPT ![f] = m]
  OBVIOUS
<1> HIDE DEF m
<1>5. HoldTypeOK' /\ Turns' /\ BeatsInv' /\ LinesAreTheLog'
  <2>1. turns' = {} /\ file' = serial' /\ file' \in Files
    BY LoadedIsFile
  <2>2. LinesAreTheLog'
    BY <1>1, LinesWillBe
  <2> QED
    BY <2>1, <2>2, WrittenTurn, WrittenType
<1>6. file.held.follow.by = f
  BY DEF HasIt, HoldsFollow
<1>7. /\ \A g \in Follows : file'.held.follow.by = g =>
            /\ file.held.follow.by = g
            /\ file'.held.follow.offset = IF g = f THEN m.next ELSE file.held.follow.offset
      /\ m.at = "ended" => Gone(f)'
  BY <1>3, <1>6 DEF Gone
<1>8. /\ follow[f].at \notin {"none", "claimed", "lost"} /\ m.at \notin {"none", "claimed"}
      /\ m.at = "line" => m.next < log[m.call]
      /\ m.at \in {"search", "read", "line"} => AtWork(f) /\ (~m.released => ~follow[f].released)
      /\ m.at = "done" \/ (m.at = "ended" /\ Has(f)) => Gone(f)'
  BY <1>3, <1>7 DEF AtWork
<1>9. m.at \in {"search", "read", "line"} /\ m.released /\ Has(f) => file'.held.follow.by # f
  <2>1. m.at \in {"search", "read", "line"} /\ m.released => follow[f].released
    BY <1>3
  <2>2. ~(AtWork(f) /\ follow[f].released /\ Has(f))
    BY <1>6 DEF GoneInv
  <2> QED
    BY <2>1, <2>2
<1> QED
  BY <1>1, <1>2, <1>3, <1>4, <1>5, <1>7, <1>8, <1>9, MovesInv

LEMMA FindsInv == ASSUME Inv, NEW f \in Follows, FollowFinds(f) PROVE Inv'
<1> USE DEF Inv
<1> DEFINE by == By(f)
           c == follow[f].call
           Op(x) == UpdateFollow(x, c, f, [x.held.follow EXCEPT !.found = TRUE])
<1>1. UNCHANGED <<outside, ages, pod, losses>> /\ follow[f].at = "search" /\ AtWork(f)
  BY DEF FollowFinds, AtWork
<1>2. CASE Enter(by) /\ UNCHANGED follow
  <2>1. by[1] # "beat"
    BY DEF By
  <2> QED
    BY <1>1, <1>2, <2>1, EnterInv
<1>3. CASE FollowWrites(f, "read", follow[f].next, Op)
  <2>1. HasTurn(by) /\ turns' = {t \in turns : t.by # by}
    BY <1>3 DEF FollowWrites, Write
  <2>2. Loaded(by) = file /\ serial = file
    BY <2>1, LoadedIsFile
  <2>3. file' = Op(file) /\ serial' = Op(file)
    BY <1>3, <2>2 DEF FollowWrites, Write
  <2>4. CASE ~HasIt(f, file)
    <3>1. Op(file) = file
      BY <2>4 DEF UpdateFollow, HasIt
    <3>2. follow' = [follow EXCEPT ![f] = Moved(f, "ended", @.next)]
      BY <1>3, <2>2, <2>4 DEF FollowWrites
    <3> QED
      BY <1>1, <2>1, <2>2, <2>3, <2>4, <3>1, <3>2, GivesUpInv
  <2>5. CASE HasIt(f, file)
    <3>1. file \in Files /\ follow[f].next \in Nat /\ file.held.follow.by = f
      BY <2>5 DEF TypeOK, HoldTypeOK, Threads, HasIt, HoldsFollow
    <3> DEFINE r == [file.held.follow EXCEPT !.found = TRUE]
    <3>2. r \in FollowRecords /\ r.by = f /\ r.offset = file.held.follow.offset /\ f # -1
      <4>1. file.held.follow \in FollowRecords
        BY <3>1 DEF Files
      <4> DEFINE q == file.held.follow
      <4>2. q \in FollowRecords /\ r = [q EXCEPT !.found = TRUE] /\ q.by = f
        BY <3>1, <4>1
      <4> HIDE DEF q, r
      <4>3. r \in FollowRecords /\ r.by = q.by /\ r.offset = q.offset
        BY <4>2 DEF FollowRecords
      <4> QED
        BY <4>2, <4>3 DEF q
    <3> HIDE DEF r
    <3>3. file' = [file EXCEPT !.held.follow = r]
      BY <2>3, <2>5 DEF UpdateFollow, HasIt, r
    <3>4. /\ file' \in Files /\ file'.held.run = file.held.run
          /\ file'.held.lines = file.held.lines /\ file'.held.follow = r
      BY <3>1, <3>2, <3>3 DEF Files
    <3>5. file.held.follow # NoFollow
      BY <3>1, <3>2, RecordTypes
    <3>6. Kept(file'.held) /\ Last(file'.held) = Last(file.held)
      BY <3>2, <3>4, <3>5, LinesAre DEF Kept, Last
    <3>7. file.held.run # 0
      BY <1>1, <2>5 DEF HasIt, HoldsFollow, ThreadInv
    <3>8. follow' = [follow EXCEPT ![f] = Moved(f, "read", follow[f].next)]
      BY <1>3, <2>2, <2>5 DEF FollowWrites
    <3>9. file'.held.follow.by = f /\ file'.held.follow.offset = follow[f].next
      BY <3>1, <3>2, <3>4 DEF HoldInv
    <3> QED
      BY <1>1, <2>1, <2>3, <2>5, <3>1, <3>4, <3>6, <3>7, <3>8, <3>9, LinesAre, HoldsInv
  <2> QED
    BY <2>4, <2>5
<1> QED
  BY <1>2, <1>3 DEF FollowFinds

LEMMA KeepsInv == ASSUME Inv, NEW f \in Follows, FollowKeepsLine(f) PROVE Inv'
<1> USE DEF Inv
<1> DEFINE by == By(f)
           c == follow[f].call
           line == follow[f].next + 1
           Op(x) == AddLine(x, c, f, line)
<1>1. UNCHANGED <<outside, ages, pod, losses>> /\ follow[f].at = "line" /\ AtWork(f)
  BY DEF FollowKeepsLine, AtWork
<1>2. CASE Enter(by) /\ UNCHANGED follow
  <2>1. by[1] # "beat"
    BY DEF By
  <2> QED
    BY <1>1, <1>2, <2>1, EnterInv
<1>3. CASE FollowWrites(f, "read", line, Op)
  <2>1. HasTurn(by) /\ turns' = {t \in turns : t.by # by}
    BY <1>3 DEF FollowWrites, Write
  <2>2. Loaded(by) = file /\ serial = file
    BY <2>1, LoadedIsFile
  <2>3. file' = Op(file) /\ serial' = Op(file)
    BY <1>3, <2>2 DEF FollowWrites, Write
  <2>4. CASE ~HasIt(f, file)
    <3>1. Op(file) = file
      BY <2>4 DEF AddLine, HasIt
    <3>2. follow' = [follow EXCEPT ![f] = Moved(f, "ended", @.next)]
      BY <1>3, <2>2, <2>4 DEF FollowWrites
    <3> QED
      BY <1>1, <2>1, <2>2, <2>3, <2>4, <3>1, <3>2, GivesUpInv
  <2>5. CASE HasIt(f, file)
    <3>1. /\ file \in Files /\ follow[f].next \in Nat /\ line \in Nat /\ follow[f].call \in Calls
          /\ follow[f].next < log[follow[f].call]
      BY <1>1 DEF TypeOK, HoldTypeOK, Threads, ThreadInv
    <3>2. /\ HoldsFollow(file, c, f) /\ file.held.run = c /\ file.held.run # 0
          /\ file.held.follow.by = f /\ file.held.follow.offset = follow[f].next
      BY <2>5, <3>1 DEF HasIt, HoldsFollow, HoldInv
    <3>3. file.held.follow # NoFollow /\ Kept(file.held)
      BY <3>2, RecordTypes, LinesAre
    <3>4. /\ Kept(Op(file).held) /\ Last(Op(file).held) = line /\ Op(file).held.run = file.held.run
          /\ Op(file).held.follow = [file.held.follow EXCEPT !.offset = line]
      BY <3>1, <3>2, <3>3, AddKept
    <3>5. Op(file) \in Files
      <4>1. c \in Calls \cup {0} /\ NoFollow \in FollowRecords
        BY <3>1, RecordTypes
      <4> QED
        BY <3>1, <4>1, OpTypes
    <3> HIDE DEF Op
    <3>6. file'.held.follow.by = f /\ file'.held.follow.offset = line
      <4>1. file.held.follow \in FollowRecords
        BY <3>1 DEF Files
      <4> QED
        BY <2>3, <3>2, <3>4, <4>1 DEF FollowRecords
    <3>7. line <= log[file.held.run]
      <4>1. \A d \in Calls : log[d] \in Int
        BY DEF TypeOK
      <4>2. log[follow[f].call] \in Int
        BY <3>1, <4>1
      <4> QED
        BY <3>1, <3>2, <4>2
    <3>8. follow' = [follow EXCEPT ![f] = Moved(f, "read", line)]
      BY <1>3, <2>2, <2>5 DEF FollowWrites
    <3>9. /\ file' \in Files /\ serial' = file' /\ Kept(file'.held) /\ file'.held.run = file.held.run
          /\ Last(file'.held) <= log[file.held.run]
      BY <2>3, <3>4, <3>5, <3>7
    <3> HIDE DEF line
    <3> QED
      BY <1>1, <2>1, <2>5, <3>1, <3>6, <3>8, <3>9, HoldsInv
  <2> QED
    BY <2>4, <2>5
<1> QED
  BY <1>2, <1>3 DEF FollowKeepsLine

LEMMA OversInv == ASSUME Inv, NEW f \in Follows, FollowIsOver(f) PROVE Inv'
<1> USE DEF Inv
<1> DEFINE by == By(f)
           c == follow[f].call
           Op(x) == UpdateFollow(x, c, f, NoFollow)
<1>1. UNCHANGED <<outside, ages, pod, losses>> /\ follow[f].at = "read" /\ AtWork(f)
  BY DEF FollowIsOver, AtWork
<1>2. CASE Enter(by) /\ UNCHANGED follow
  <2>1. by[1] # "beat"
    BY DEF By
  <2> QED
    BY <1>1, <1>2, <2>1, EnterInv
<1>3. CASE FollowWrites(f, "ended", follow[f].next, Op)
  <2>1. HasTurn(by) /\ turns' = {t \in turns : t.by # by}
    BY <1>3 DEF FollowWrites, Write
  <2>2. Loaded(by) = file /\ serial = file
    BY <2>1, LoadedIsFile
  <2>3. file' = Op(file) /\ serial' = Op(file)
    BY <1>3, <2>2 DEF FollowWrites, Write
  <2>4. CASE ~HasIt(f, file)
    <3>1. Op(file) = file
      BY <2>4 DEF UpdateFollow, HasIt
    <3>2. follow' = [follow EXCEPT ![f] = Moved(f, "ended", @.next)]
      BY <1>3, <2>2, <2>4 DEF FollowWrites
    <3> QED
      BY <1>1, <2>1, <2>2, <2>3, <2>4, <3>1, <3>2, GivesUpInv
  <2>5. CASE HasIt(f, file)
    <3>1. file \in Files /\ follow[f].next \in Nat /\ file.held.run # 0
      BY <1>1, <2>5 DEF TypeOK, HoldTypeOK, Threads, HasIt, HoldsFollow, ThreadInv
    <3>2. file' = [file EXCEPT !.held.follow = NoFollow]
      BY <2>3, <2>5 DEF UpdateFollow, HasIt
    <3>3. /\ file' \in Files /\ file'.held.run = file.held.run
          /\ file'.held.lines = file.held.lines /\ file'.held.follow = NoFollow
      BY <3>1, <3>2, RecordTypes DEF Files
    <3>4. Kept(file'.held) /\ Last(file'.held) = Last(file.held)
      BY <3>3, LinesAre DEF Kept, Last
    <3>5. follow' = [follow EXCEPT ![f] = Moved(f, "ended", follow[f].next)]
      BY <1>3, <2>2, <2>5 DEF FollowWrites
    <3>6. file'.held.follow.by = -1
      BY <3>3, RecordTypes
    <3> QED
      BY <1>1, <2>1, <2>3, <2>5, <3>1, <3>3, <3>4, <3>5, <3>6, LinesAre, HoldsInv
  <2> QED
    BY <2>4, <2>5
<1> QED
  BY <1>2, <1>3 DEF FollowIsOver

\* Actioner._leave: a hold of the follow's is no follow's then, its lines as they were.
LEMMA LeftFile ==
  ASSUME Inv, NEW by, NEW f \in Follows, LeaveFollow(by, f)
  PROVE  /\ HoldTypeOK' /\ Turns' /\ BeatsInv' /\ file'.held.run = file.held.run
         /\ Kept(file'.held) /\ Last(file'.held) = Last(file.held)
         /\ \A g \in Follows : file'.held.follow.by = g => file' = file
         /\ follow[f].at \notin {"none", "lost"} => file'.held.follow.by # f
<1> USE DEF Inv
<1> DEFINE r == [file.held.follow EXCEPT !.by = Unheld]
<1>1. /\ HasTurn(by) /\ turns' = {t \in turns : t.by # by} /\ serial' = file'
      /\ file' = UpdateFollow(file, follow[f].call, f, r)
  <2>1. HasTurn(by)
    BY DEF LeaveFollow, Write
  <2>2. Loaded(by) = file /\ serial = file
    BY <2>1, LoadedIsFile
  <2> QED
    BY <2>1, <2>2 DEF LeaveFollow, Write
<1>2. turns' = {} /\ file \in Files
  BY <1>1, LoadedIsFile DEF TypeOK, HoldTypeOK
<1>3. r \in FollowRecords /\ r.by = 0 /\ r.offset = file.held.follow.offset
  <2> DEFINE q == file.held.follow
  <2>1. q \in FollowRecords /\ r = [q EXCEPT !.by = 0]
    BY <1>2 DEF Files
  <2> HIDE DEF q, r
  <2>2. r \in FollowRecords /\ r.by = 0 /\ r.offset = q.offset
    BY <2>1 DEF FollowRecords
  <2> QED
    BY <2>2 DEF q
<1> HIDE DEF r
<1>4. CASE HoldsFollow(file, follow[f].call, f)
  <2>1. file' = [file EXCEPT !.held.follow = r]
    BY <1>1, <1>4 DEF UpdateFollow
  <2>2. /\ file' \in Files /\ file'.held.run = file.held.run
        /\ file'.held.lines = file.held.lines /\ file'.held.follow = r
    BY <1>2, <1>3, <2>1 DEF Files
  <2>3. file.held.follow.by = f /\ file.held.follow # NoFollow /\ f # -1 /\ f # 0
    BY <1>4, RecordTypes DEF HoldsFollow
  <2>4. Kept(file'.held) /\ Last(file'.held) = Last(file.held)
    BY <1>3, <2>2, <2>3, LinesAre DEF Kept, Last
  <2>5. \A g \in Follows : file'.held.follow.by # g
    BY <1>3, <2>2
  <2> QED
    BY <1>1, <1>2, <2>2, <2>4, <2>5, WrittenTurn, WrittenType
<1>5. CASE ~HoldsFollow(file, follow[f].call, f)
  <2>1. file' = file
    BY <1>1, <1>5 DEF UpdateFollow
  <2>2. file.held.follow.by # f
    BY <1>5 DEF HoldInv, HoldsFollow
  <2> QED
    BY <1>1, <1>2, <2>1, <2>2, WrittenTurn, WrittenType, LinesAre
<1> QED
  BY <1>4, <1>5

LEMMA LeavesInv == ASSUME Inv, NEW f \in Follows, FollowLeaves(f) PROVE Inv'
<1> USE DEF Inv
<1> DEFINE by == By(f)
           m == Moved(f, "done", follow[f].next)
<1>1. /\ UNCHANGED <<outside, ages, pod, losses>> /\ follow[f].at = "leave"
      /\ UNCHANGED <<run, log, expired, pod>> /\ losses' \in Nat /\ silent' \in BOOLEAN
  BY DEF FollowLeaves, outside, ages, TypeOK
<1>2. CASE Enter(by) /\ UNCHANGED follow
  <2>1. by[1] # "beat"
    BY DEF By
  <2> QED
    BY <1>1, <1>2, <2>1, EnterInv
<1>3. CASE LeaveFollow(by, f) /\ Goes(f, "done")
  <2>1. follow[f] \in Threads /\ follow[f].next \in Nat
    BY DEF TypeOK, Threads
  <2>2. /\ m \in Threads /\ m.at = "done" /\ m.next = follow[f].next
        /\ m.pod = follow[f].pod /\ m.call = follow[f].call
    <3>1. TypeOK /\ "done" \in {"search", "read", "line", "ended", "failed", "leave", "done", "lost"}
      OBVIOUS
    <3> QED
      BY <2>1, <3>1, MovedThread
  <2>3. follow' = [follow EXCEPT ![f] = m]
    BY <1>3 DEF Goes
  <2> HIDE DEF m
  <2>4. /\ HoldTypeOK' /\ Turns' /\ BeatsInv' /\ file'.held.run = file.held.run
        /\ Kept(file'.held) /\ Last(file'.held) = Last(file.held)
        /\ \A g \in Follows : file'.held.follow.by = g => file' = file
        /\ file'.held.follow.by # f
    BY <1>1, <1>3, LeftFile
  <2>5. LinesAreTheLog'
    BY <1>1, <2>4, LinesAre, LinesWillBe
  <2>6. /\ \A g \in Follows : file'.held.follow.by = g =>
              /\ file.held.follow.by = g
              /\ file'.held.follow.offset = IF g = f THEN m.next ELSE file.held.follow.offset
        /\ Gone(f)'
    BY <2>2, <2>4 DEF HoldInv, Gone
  <2>7. follow[f].at \notin {"none", "claimed", "lost"} /\ m.at \notin {"none", "claimed"}
    BY <1>1, <2>2
  <2> QED
    BY <1>1, <2>2, <2>3, <2>4, <2>5, <2>6, <2>7, MovesInv
<1> QED
  BY <1>2, <1>3 DEF FollowLeaves

\* A heartbeat that finds another follow there releases its own.
LEMMA HeartbeatInv == ASSUME Inv, NEW f \in Follows, FollowBeats(f) PROVE Inv'
<1> USE DEF Inv
<1> DEFINE by == Beat(f)
           has == HasIt(f, file)
           m == [follow[f] EXCEPT !.released = @ \/ ~has]
<1>1. UNCHANGED <<outside, expired, pod, losses>>
  BY DEF FollowBeats
<1>2. CASE AtWork(f) /\ Enter(by) /\ UNCHANGED <<silent, follow>>
  BY <1>1, <1>2, EnterInv DEF ages
<1>3. CASE /\ Write(by, LAMBDA x : x) /\ silent' = (silent /\ ~HasIt(f, Loaded(by)))
           /\ follow' = [follow EXCEPT ![f].released = @ \/ ~HasIt(f, Loaded(by))]
  <2>1. HasTurn(by) /\ turns' = {t \in turns : t.by # by}
    BY <1>3 DEF Write
  <2>2. Loaded(by) = file /\ serial = file
    BY <2>1, LoadedIsFile
  <2>3. file' = file /\ serial' = file
    BY <1>3, <2>2 DEF Write
  <2>4. follow[f] \in Threads /\ follow \in [Follows -> Threads] /\ has \in BOOLEAN
    BY DEF TypeOK, HasIt, HoldsFollow
  <2>5. follow' = [follow EXCEPT ![f] = m]
    BY <1>3, <2>2, <2>4
  <2> HIDE DEF has
  <2>6. /\ m \in Threads /\ m.at = follow[f].at /\ m.next = follow[f].next
        /\ m.pod = follow[f].pod /\ m.call = follow[f].call
        /\ m.released => follow[f].released \/ ~has
        /\ follow[f].released => m.released
    BY <2>4 DEF Threads
  <2> HIDE DEF m
  <2>7. AtWork(f) \/ follow[f].at \in {"ended", "failed"}
    <3>1. PICK t \in turns : t.by = by
      BY <2>1 DEF HasTurn
    <3>2. t.by[1] = "beat" /\ t.by[3] = f
      BY <3>1 DEF Beat
    <3>3. PICK g \in Follows : t.by = Beat(g) /\ (AtWork(g) \/ follow[g].at \in {"ended", "failed"})
      BY <3>2 DEF BeatsInv
    <3>4. g = f
      BY <3>2, <3>3 DEF Beat
    <3> QED
      BY <3>3, <3>4
  <2>8. HoldTypeOK' /\ Turns' /\ BeatsInv' /\ LinesAreTheLog'
    <3>1. turns' = {} /\ file' = serial' /\ file' \in Files
      BY <2>1, <2>3, LoadedIsFile DEF TypeOK, HoldTypeOK
    <3>2. LinesAreTheLog'
      BY <1>1, <2>3 DEF outside, LinesAreTheLog
    <3> QED
      BY <3>1, <3>2, WrittenTurn, WrittenType
  <2>9. UNCHANGED <<run, log, expired, pod>> /\ silent' \in BOOLEAN /\ losses' \in Nat
    BY <1>1, <1>3 DEF outside, TypeOK
  <2>10. has \/ file.held.follow.by # f
    BY DEF HoldInv, has, HasIt, HoldsFollow
  <2>11. /\ file'.held.run = file.held.run
         /\ \A g \in Follows : file'.held.follow.by = g =>
              /\ file.held.follow.by = g
              /\ file'.held.follow.offset = IF g = f THEN m.next ELSE file.held.follow.offset
    BY <2>3, <2>6 DEF HoldInv
  <2>12. /\ follow[f].at \notin {"none", "claimed", "lost"} /\ m.at \notin {"none", "claimed"}
         /\ m.at = "line" => m.next < log[m.call]
         /\ m.at \in {"search", "read", "line"} => AtWork(f) /\ (~m.released => ~follow[f].released)
    BY <2>6, <2>7 DEF AtWork, ThreadInv
  <2>13. m.at = "done" \/ (m.at = "ended" /\ Has(f)) => Gone(f)'
    <3>1. Gone(f) => Gone(f)'
      BY <2>3, <2>9 DEF Gone, Live, Holding
    <3> QED
      BY <2>6, <3>1 DEF GoneInv
  <2>14. m.at \in {"search", "read", "line"} /\ m.released /\ Has(f) => file'.held.follow.by # f
    BY <2>3, <2>6, <2>10 DEF GoneInv, AtWork
  <2> QED
    BY <2>5, <2>6, <2>8, <2>9, <2>11, <2>12, <2>13, <2>14, MovesInv
<1> QED
  BY <1>2, <1>3 DEF FollowBeats

LEMMA EndsInv == ASSUME Inv, NEW f \in Follows, FollowEnds(f) PROVE Inv'
<1> USE DEF Inv
<1> DEFINE p == follow[f].pod
           at == IF pod[p].leaving THEN "leave"
                 ELSE IF follow[f].at = "failed" \/ pod[p].following # f THEN "lost" ELSE "done"
           m == Moved(f, at, follow[f].next)
<1>1. /\ follow[f].at \in {"ended", "failed"} /\ ~HasTurn(Beat(f))
      /\ follow' = [follow EXCEPT ![f] = m]
      /\ pod' = [pod EXCEPT ![p].following = IF @ = f THEN 0 ELSE @]
      /\ UNCHANGED <<run, log, file, serial, turns, expired, silent, losses>>
  BY DEF FollowEnds, Goes, outside, fileVars, ages
<1>2. /\ follow \in [Follows -> Threads] /\ pod \in [Pods -> PodRecords]
      /\ follow[f] \in Threads /\ follow[f].next \in Nat /\ p \in Pods
      /\ pod[p] \in PodRecords
  BY <1>1 DEF TypeOK, Threads, ThreadInv
<1>3. at \in {"leave", "lost", "done"} /\ (at = "done" => follow[f].at = "ended" /\ Has(f))
  BY <1>1 DEF Has
<1>4. /\ m \in Threads /\ m.at = at /\ m.next = follow[f].next
      /\ m.pod = follow[f].pod /\ m.call = follow[f].call
  BY <1>2, <1>3, MovedThread
<1> HIDE DEF m, at
<1>5. /\ \A q \in Pods : /\ pod'[q].leaving = pod[q].leaving /\ pod'[q].claimed = pod[q].claimed
                         /\ pod'[q].start = pod[q].start
                         /\ pod'[q].following = IF q = p /\ pod[q].following = f THEN 0
                                                ELSE pod[q].following
      /\ pod' \in [Pods -> PodRecords]
  <2> DEFINE r == [pod[p] EXCEPT !.following = IF pod[p].following = f THEN 0 ELSE pod[p].following]
  <2>1. pod' = [pod EXCEPT ![p] = r]
    BY <1>1, <1>2
  <2>2. /\ r \in PodRecords /\ r.leaving = pod[p].leaving /\ r.claimed = pod[p].claimed
        /\ r.start = pod[p].start
        /\ r.following = IF pod[p].following = f THEN 0 ELSE pod[p].following
    BY <1>2 DEF PodRecords
  <2> HIDE DEF r
  <2> QED
    BY <1>2, <2>1, <2>2
<1>6. /\ \A g \in Follows : follow'[g] = IF g = f THEN m ELSE follow[g]
      /\ \A g \in Follows : follow'[g].pod = follow[g].pod /\ follow'[g].call = follow[g].call
  BY <1>1, <1>2, <1>4
<1>7. \A g \in Follows : g # f /\ follow[g].pod \in Pods => Has(g)' = Has(g)
  BY <1>5, <1>6 DEF Has
<1>8. TypeOK'
  BY <1>1, <1>2, <1>4, <1>5 DEF TypeOK, HoldTypeOK
<1>9. Turns' /\ HoldInv' /\ LinesAreTheLog'
  <2>1. Turns' /\ LinesAreTheLog'
    BY <1>1 DEF Turns, AsIfInTurns, LinesAreTheLog
  <2>2. HoldInv'
    BY <1>1, <1>3, <1>4, <1>6 DEF HoldInv
  <2> QED
    BY <2>1, <2>2
<1>10. BeatsInv'
  <2> SUFFICES ASSUME NEW t \in turns, t.by[1] = "beat"
               PROVE  \E g \in Follows : /\ t.by = Beat(g)'
                                         /\ AtWork(g)' \/ follow'[g].at \in {"ended", "failed"}
    BY <1>1 DEF BeatsInv
  <2>1. PICK g \in Follows : t.by = Beat(g) /\ (AtWork(g) \/ follow[g].at \in {"ended", "failed"})
    BY DEF BeatsInv
  <2>2. g # f
    BY <1>1, <2>1 DEF HasTurn
  <2> QED
    BY <1>6, <2>1, <2>2 DEF Beat, AtWork
<1>11. PodInv'
  <2> SUFFICES ASSUME NEW q \in Pods
               PROVE  /\ pod'[q].following # 0 =>
                         follow'[pod'[q].following].pod = q /\ follow'[pod'[q].following].at # "none"
                      /\ pod'[q].claimed # Unheld =>
                         LET t == follow'[pod'[q].claimed] IN
                         t.at = "claimed" /\ t.pod = q /\ t.call = pod'[q].start /\ t.next = 0
    BY DEF PodInv
  <2>1. pod[q].following \in Follows \cup {0} /\ pod[q].claimed \in Follows \cup {0}
    BY <1>2 DEF PodRecords
  <2>2. pod[q].claimed # f
    BY <1>1, <2>1 DEF PodInv
  <2>3. ASSUME pod'[q].following # 0
        PROVE  follow'[pod'[q].following].pod = q /\ follow'[pod'[q].following].at # "none"
    <3>1. pod'[q].following = pod[q].following /\ pod[q].following \in Follows
      BY <1>5, <2>1, <2>3
    <3>2. follow[pod[q].following].pod = q /\ follow[pod[q].following].at # "none"
      BY <3>1 DEF PodInv
    <3> QED
      BY <1>3, <1>4, <1>6, <3>1, <3>2
  <2>4. ASSUME pod'[q].claimed # Unheld
        PROVE  LET t == follow'[pod'[q].claimed] IN
               t.at = "claimed" /\ t.pod = q /\ t.call = pod'[q].start /\ t.next = 0
    <3>1. pod'[q].claimed = pod[q].claimed /\ pod[q].claimed \in Follows
      BY <1>5, <2>1, <2>4
    <3>2. follow'[pod[q].claimed] = follow[pod[q].claimed]
      BY <1>6, <2>2, <3>1
    <3> QED
      BY <1>5, <3>1, <3>2 DEF PodInv
  <2> QED
    BY <2>3, <2>4
<1>12. ThreadInv'
  <2> SUFFICES ASSUME NEW g \in Follows
               PROVE  /\ follow'[g].at \notin {"none", "lost"} =>
                            follow'[g].pod \in Pods /\ follow'[g].call \in Calls
                      /\ follow'[g].at = "line" => follow'[g].next < log[follow'[g].call]
                      /\ Running(g)' /\ ~follow'[g].released => Has(g)'
    BY <1>1 DEF ThreadInv
  <2>1. CASE g = f
    BY <1>1, <1>3, <1>4, <1>6, <2>1 DEF ThreadInv, Running, AtWork
  <2>2. CASE g # f
    BY <1>6, <1>7, <2>2 DEF ThreadInv, Running, AtWork
  <2> QED
    BY <2>1, <2>2
<1>13. GoneInv'
  <2> SUFFICES ASSUME NEW g \in Follows
               PROVE  /\ follow'[g].at = "done" \/ (follow'[g].at = "ended" /\ Has(g)') => Gone(g)'
                      /\ follow'[g].at = "claimed" /\ Has(g)' => ~follow'[g].released
                      /\ AtWork(g)' /\ follow'[g].released /\ Has(g)' => file'.held.follow.by # g
    BY DEF GoneInv
  <2>1. Gone(g)' = Gone(g)
    BY <1>1 DEF Gone, Live, Holding
  <2>2. CASE g = f
    <3>1. follow'[f].at \in {"leave", "lost", "done"} /\ (follow'[f].at = "done" => Gone(f))
      BY <1>3, <1>4, <1>6 DEF GoneInv
    <3> QED
      BY <2>1, <2>2, <3>1 DEF AtWork
  <2>3. CASE g # f
    <3>1. follow'[g] = follow[g]
      BY <1>6, <2>3
    <3>2. follow[g].at \notin {"none", "lost"} => Has(g)' = Has(g)
      BY <1>7, <2>3 DEF ThreadInv
    <3> QED
      BY <1>1, <2>1, <3>1, <3>2 DEF GoneInv, AtWork
  <2> QED
    BY <2>2, <2>3
<1> QED
  BY <1>8, <1>9, <1>10, <1>11, <1>12, <1>13
----------------------------------------------------------------------------
(* The starts, the webhook, the takeover and the shutdown.                 *)

\* A follow claimed is a free one, and the one it replaces is released.
LEMMA ClaimsFollow ==
  ASSUME Inv, NEW p \in Pods, NEW c \in Calls, NEW at \in {"claimed", "search", "read"},
         NEW offset \in Nat, CanClaim(p), Claim(p, c, at, offset)
  PROVE  /\ NextFollow \in Follows /\ follow[NextFollow].at = "none"
         /\ pod[p].following # NextFollow
         /\ follow' \in [Follows -> Threads]
         /\ follow'[NextFollow] = Thread(p, c, at, offset)
         /\ \A g \in Follows : g # NextFollow =>
              /\ follow'[g].at = follow[g].at /\ follow'[g].pod = follow[g].pod
              /\ follow'[g].call = follow[g].call /\ follow'[g].next = follow[g].next
              /\ follow'[g].released = (follow[g].released \/ g = pod[p].following)
<1> USE DEF Inv
<1>1. NextFollow \in FreeFollows
  BY DEF CanClaim, NextFollow
<1>2. NextFollow \in Follows /\ follow[NextFollow].at = "none"
  BY <1>1 DEF FreeFollows
<1>3. pod[p].following # NextFollow
  BY <1>2 DEF PodInv
<1>4. Thread(p, c, at, offset) \in Threads
  BY DEF Thread, Threads
<1>5. \A g \in Follows : /\ [follow[g] EXCEPT !.released = TRUE] \in Threads
                         /\ follow[g] \in Threads
  BY DEF TypeOK, Threads
<1>6. \A g \in Follows :
        follow'[g] = IF g = NextFollow THEN Thread(p, c, at, offset)
                     ELSE IF g = pod[p].following THEN [follow[g] EXCEPT !.released = TRUE]
                     ELSE follow[g]
  BY DEF Claim
<1> HIDE DEF NextFollow
<1>7. follow' \in [Follows -> Threads]
  BY <1>4, <1>5 DEF Claim
<1>8. ASSUME NEW g \in Follows, g # NextFollow
      PROVE  /\ follow'[g].at = follow[g].at /\ follow'[g].pod = follow[g].pod
             /\ follow'[g].call = follow[g].call /\ follow'[g].next = follow[g].next
             /\ follow'[g].released = (follow[g].released \/ g = pod[p].following)
  <2>1. CASE g = pod[p].following
    <3> DEFINE r == [follow[g] EXCEPT !.released = TRUE]
    <3>1. /\ r.at = follow[g].at /\ r.pod = follow[g].pod /\ r.call = follow[g].call
          /\ r.next = follow[g].next /\ r.released = TRUE
      BY <1>5 DEF Threads
    <3> HIDE DEF r
    <3>2. follow'[g] = r
      BY <1>6, <1>8, <2>1 DEF r
    <3> QED
      BY <2>1, <3>1, <3>2
  <2>2. CASE g # pod[p].following
    <3>1. follow'[g] = follow[g] /\ follow[g].released \in BOOLEAN
      BY <1>5, <1>6, <1>8, <2>2 DEF Threads
    <3> QED
      BY <2>2, <3>1
  <2> QED
    BY <2>1, <2>2
<1> QED
  BY <1>2, <1>3, <1>6, <1>7, <1>8

\* What holds once a pod goes on with the follow it has claimed.
LEMMA ClaimedInv ==
  ASSUME Inv, NEW p \in Pods, NEW c \in Calls, NEW at \in {"claimed", "search", "read"},
         NEW offset \in Nat, CanClaim(p), Claim(p, c, at, offset),
         run' \in [Calls -> {"unasked", "running", "over"}],
         UNCHANGED <<log, expired, losses>>, silent' \in BOOLEAN,
         pod' \in [Pods -> PodRecords],
         \A q \in Pods : q # p => pod'[q] = pod[q],
         pod'[p].following = NextFollow, pod'[p].leaving = pod[p].leaving,
         IF at = "claimed" THEN pod'[p].claimed = NextFollow /\ pod'[p].start = c /\ offset = 0
         ELSE pod'[p].claimed = pod[p].claimed /\ pod'[p].start = pod[p].start,
         HoldTypeOK', Turns', BeatsInv', LinesAreTheLog',
         \/ at = "claimed" /\ file' = file
         \/ /\ at # "claimed" /\ file'.held.run = c /\ file'.held.run = file.held.run
            /\ file'.held.follow.by = NextFollow /\ file'.held.follow.offset = offset
  PROVE  Inv'
<1> DEFINE n == NextFollow
<1>1. /\ n \in Follows /\ follow[n].at = "none" /\ pod[p].following # n
      /\ follow' \in [Follows -> Threads] /\ follow'[n] = Thread(p, c, at, offset)
      /\ \A g \in Follows : g # n =>
           /\ follow'[g].at = follow[g].at /\ follow'[g].pod = follow[g].pod
           /\ follow'[g].call = follow[g].call /\ follow'[g].next = follow[g].next
           /\ follow'[g].released = (follow[g].released \/ g = pod[p].following)
  BY ClaimsFollow
<1> USE DEF Inv
<1>2. /\ follow'[n].at = at /\ follow'[n].pod = p /\ follow'[n].call = c
      /\ follow'[n].next = offset /\ follow'[n].released = FALSE
  BY <1>1 DEF Thread
<1>3. ~pod[p].leaving /\ pod[p] \in PodRecords
  BY DEF CanClaim, TypeOK
<1> HIDE DEF n
<1>4. pod'[p].following = n /\ (at # "claimed" => file'.held.follow.by = n)
      /\ (at = "claimed" => pod'[p].claimed = n)
  BY DEF n
<1>5. TypeOK'
  BY <1>1 DEF TypeOK
<1>6. HoldInv'
  <2> SUFFICES ASSUME NEW g \in Follows, file'.held.follow.by = g
               PROVE  /\ file'.held.run = follow'[g].call
                      /\ file'.held.follow.offset = follow'[g].next
                      /\ follow'[g].at \notin {"none", "claimed"}
    BY DEF HoldInv
  <2>1. CASE at = "claimed"
    <3>1. g # n
      BY <1>1, <2>1 DEF HoldInv
    <3> QED
      BY <1>1, <2>1, <3>1 DEF HoldInv
  <2>2. CASE at # "claimed"
    BY <1>2, <1>4, <2>2
  <2> QED
    BY <2>1, <2>2
<1>7. PodInv'
  <2> SUFFICES ASSUME NEW q \in Pods
               PROVE  /\ pod'[q].following # 0 =>
                         follow'[pod'[q].following].pod = q /\ follow'[pod'[q].following].at # "none"
                      /\ pod'[q].claimed # Unheld =>
                         LET t == follow'[pod'[q].claimed] IN
                         t.at = "claimed" /\ t.pod = q /\ t.call = pod'[q].start /\ t.next = 0
    BY DEF PodInv
  <2>1. pod[q].following \in Follows \cup {0} /\ pod[q].claimed \in Follows \cup {0}
    BY DEF TypeOK, PodRecords
  <2>2. pod[q].following # n /\ pod[q].claimed # n
    BY <1>1, <2>1 DEF PodInv
  <2>3. CASE q = p
    <3>1. follow'[pod'[p].following].pod = p /\ follow'[pod'[p].following].at # "none"
      BY <1>2, <1>4
    <3>2. CASE at = "claimed"
      BY <1>2, <1>4, <2>3, <3>1, <3>2
    <3>3. CASE at # "claimed"
      <4>1. pod'[p].claimed = pod[p].claimed /\ pod'[p].start = pod[p].start
        BY <3>3
      <4> QED
        BY <1>1, <2>1, <2>2, <2>3, <3>1, <4>1 DEF PodInv
    <3> QED
      BY <3>2, <3>3
  <2>4. CASE q # p
    <3>1. pod'[q] = pod[q]
      BY <2>4
    <3>2. pod[q].following # 0 =>
            follow'[pod[q].following].pod = q /\ follow'[pod[q].following].at # "none"
      BY <1>1, <2>1, <2>2 DEF PodInv
    <3>3. pod[q].claimed # Unheld =>
            LET t == follow'[pod[q].claimed] IN
            t.at = "claimed" /\ t.pod = q /\ t.call = pod[q].start /\ t.next = 0
      <4> DEFINE g == pod[q].claimed
      <4> SUFFICES ASSUME g # Unheld
                   PROVE  /\ follow'[g].at = "claimed" /\ follow'[g].pod = q
                          /\ follow'[g].call = pod[q].start /\ follow'[g].next = 0
        OBVIOUS
      <4>1. /\ g \in Follows /\ g # n /\ follow[g].at = "claimed" /\ follow[g].pod = q
            /\ follow[g].call = pod[q].start /\ follow[g].next = 0
        BY <2>1, <2>2 DEF PodInv
      <4> HIDE DEF g
      <4> QED
        BY <1>1, <4>1
    <3> QED
      BY <3>1, <3>2, <3>3
  <2> QED
    BY <2>3, <2>4
<1>8. ASSUME NEW g \in Follows, g # n, follow[g].pod \in Pods
      PROVE  /\ Has(g)' => Has(g) /\ follow[g].pod # p
             /\ follow[g].pod # p => Has(g)' = Has(g) /\ g # pod[p].following
  <2>1. follow'[g].pod = follow[g].pod
    BY <1>1, <1>8
  <2>2. CASE follow[g].pod = p
    BY <1>4, <1>8, <2>1, <2>2 DEF Has
  <2>3. CASE follow[g].pod # p
    <3>1. pod'[follow[g].pod] = pod[follow[g].pod]
      BY <1>8, <2>3
    <3>2. g # pod[p].following
      BY <2>3 DEF PodInv
    <3> QED
      BY <2>1, <2>3, <3>1, <3>2 DEF Has
  <2> QED
    BY <2>2, <2>3
<1>9. ThreadInv'
  <2> SUFFICES ASSUME NEW g \in Follows
               PROVE  /\ follow'[g].at \notin {"none", "lost"} =>
                            follow'[g].pod \in Pods /\ follow'[g].call \in Calls
                      /\ follow'[g].at = "line" => follow'[g].next < log[follow'[g].call]
                      /\ Running(g)' /\ ~follow'[g].released => Has(g)'
    BY DEF ThreadInv
  <2>1. CASE g = n
    BY <1>2, <1>3, <1>4, <2>1 DEF Has
  <2>2. CASE g # n
    <3>1. /\ follow'[g].at = follow[g].at /\ follow'[g].pod = follow[g].pod
          /\ follow'[g].call = follow[g].call /\ follow'[g].next = follow[g].next
          /\ follow'[g].released = (follow[g].released \/ g = pod[p].following)
      BY <1>1, <2>2
    <3>2. ASSUME Running(g)', ~follow'[g].released PROVE Has(g)'
      <4>1. Running(g) /\ ~follow[g].released /\ g # pod[p].following
        BY <3>1, <3>2 DEF Running, AtWork
      <4>2. Has(g) /\ follow[g].pod \in Pods
        BY <4>1 DEF ThreadInv, Running, AtWork
      <4>3. follow[g].pod # p
        BY <4>1, <4>2 DEF Has
      <4> QED
        BY <1>8, <2>2, <4>2, <4>3
    <3> QED
      BY <3>1, <3>2 DEF ThreadInv
  <2> QED
    BY <2>1, <2>2
<1>10. GoneInv'
  <2> SUFFICES ASSUME NEW g \in Follows
               PROVE  /\ follow'[g].at = "done" \/ (follow'[g].at = "ended" /\ Has(g)') => Gone(g)'
                      /\ follow'[g].at = "claimed" /\ Has(g)' => ~follow'[g].released
                      /\ AtWork(g)' /\ follow'[g].released /\ Has(g)' => file'.held.follow.by # g
    BY DEF GoneInv
  <2>1. CASE g = n
    BY <1>2, <2>1
  <2>2. CASE g # n
    <3>1. /\ follow'[g].at = follow[g].at
          /\ follow'[g].released = (follow[g].released \/ g = pod[p].following)
      BY <1>1, <2>2
    <3>2. (Gone(g) => Gone(g)') /\ (file.held.follow.by # g => file'.held.follow.by # g)
      <4>1. file' = file \/ file'.held.follow.by = n
        BY <1>4
      <4> QED
        BY <2>2, <4>1 DEF Gone, Live, Holding
    <3>3. follow[g].at \in {"claimed", "search", "read", "line", "ended"} /\ Has(g)' =>
            Has(g) /\ g # pod[p].following
      BY <1>8, <2>2 DEF ThreadInv
    <3> QED
      BY <3>1, <3>2, <3>3 DEF GoneInv, AtWork
  <2> QED
    BY <2>1, <2>2
<1> QED
  BY <1>5, <1>6, <1>7, <1>9, <1>10

\* Steps that leave the file: what is unchanged with it.
LEMMA FileKept ==
  ASSUME Inv, UNCHANGED <<fileVars, log>>
  PROVE  HoldTypeOK' /\ Turns' /\ LinesAreTheLog'
  BY DEF Inv, TypeOK, HoldTypeOK, Turns, AsIfInTurns, LinesAreTheLog, fileVars

LEMMA ClaimsInv == ASSUME Inv, NEW p \in Pods, NEW c \in Calls, StartClaims(p, c) PROVE Inv'
<1>1. /\ run[c] = "unasked" /\ pod[p].start = 0 /\ run' = [run EXCEPT ![c] = "running"]
      /\ UNCHANGED <<log, file, serial, turns, expired, silent, losses>>
      /\ HoldTypeOK' /\ Turns' /\ LinesAreTheLog'
  BY FileKept DEF StartClaims, fileVars, ages
<1>2. /\ run' \in [Calls -> {"unasked", "running", "over"}] /\ silent' \in BOOLEAN
      /\ pod \in [Pods -> PodRecords] /\ pod[p] \in PodRecords
  BY <1>1 DEF Inv, TypeOK
<1>3. CASE /\ CanClaim(p) /\ Claim(p, c, "claimed", 0)
           /\ pod' = [pod EXCEPT ![p].start = c, ![p].claimed = NextFollow,
                                 ![p].following = NextFollow]
  <2>1. /\ NextFollow \in Follows /\ follow[NextFollow].at = "none"
        /\ \A g \in Follows : g # NextFollow =>
             follow'[g].at = follow[g].at /\ follow'[g].pod = follow[g].pod
    BY <1>3, ClaimsFollow
  <2>2. BeatsInv'
    <3> SUFFICES ASSUME NEW t \in turns, t.by[1] = "beat"
                 PROVE  \E g \in Follows : /\ t.by = Beat(g)'
                                           /\ AtWork(g)' \/ follow'[g].at \in {"ended", "failed"}
      BY <1>1 DEF BeatsInv
    <3>1. PICK g \in Follows : t.by = Beat(g) /\ (AtWork(g) \/ follow[g].at \in {"ended", "failed"})
      BY DEF Inv, BeatsInv
    <3>2. g # NextFollow
      BY <2>1, <3>1 DEF AtWork
    <3>3. follow'[g].at = follow[g].at /\ follow'[g].pod = follow[g].pod
      BY <2>1, <3>2
    <3> QED
      BY <3>1, <3>3 DEF Beat, AtWork
  <2>3. /\ pod' \in [Pods -> PodRecords] /\ \A q \in Pods : q # p => pod'[q] = pod[q]
        /\ pod'[p].following = NextFollow /\ pod'[p].leaving = pod[p].leaving
        /\ pod'[p].claimed = NextFollow /\ pod'[p].start = c
    <3> DEFINE r == [pod[p] EXCEPT !.start = c, !.claimed = NextFollow, !.following = NextFollow]
    <3>1. pod' = [pod EXCEPT ![p] = r]
      BY <1>2, <1>3
    <3>2. /\ r \in PodRecords /\ r.following = NextFollow /\ r.leaving = pod[p].leaving
          /\ r.claimed = NextFollow /\ r.start = c
      BY <1>2, <2>1 DEF PodRecords
    <3> HIDE DEF r
    <3> QED
      BY <1>2, <3>1, <3>2
  <2>4. "claimed" \in {"claimed", "search", "read"} /\ 0 \in Nat /\ file' = file
    BY <1>1
  <2> HIDE DEF NextFollow
  <2> QED
    BY <1>1, <1>2, <1>3, <2>2, <2>3, <2>4, ClaimedInv
<1>4. CASE pod[p].leaving /\ pod' = [pod EXCEPT ![p].start = c] /\ UNCHANGED follow
  <2> USE DEF Inv
  <2>1. /\ pod' \in [Pods -> PodRecords]
        /\ \A q \in Pods : /\ pod'[q].following = pod[q].following
                           /\ pod'[q].leaving = pod[q].leaving
                           /\ pod'[q].claimed = pod[q].claimed
                           /\ q # p => pod'[q].start = pod[q].start
    <3> DEFINE r == [pod[p] EXCEPT !.start = c]
    <3>1. pod' = [pod EXCEPT ![p] = r]
      BY <1>4
    <3>2. /\ r \in PodRecords /\ r.following = pod[p].following /\ r.leaving = pod[p].leaving
          /\ r.claimed = pod[p].claimed
      BY <1>2 DEF PodRecords
    <3> HIDE DEF r
    <3> QED
      BY <1>2, <3>1, <3>2
  <2>2. pod[p].claimed = Unheld
    <3>1. pod[p].claimed \in Follows \cup {0}
      BY <1>2 DEF PodRecords
    <3>2. ASSUME pod[p].claimed # Unheld PROVE FALSE
      <4>1. /\ follow[pod[p].claimed].call = 0 /\ follow[pod[p].claimed].at = "claimed"
            /\ pod[p].claimed \in Follows
        BY <1>1, <3>1, <3>2 DEF PodInv
      <4>2. 0 \in Calls
        BY <4>1 DEF ThreadInv
      <4> QED
        BY <4>2
    <3> QED
      BY <3>2
  <2>3. TypeOK' /\ HoldInv'
    BY <1>1, <1>2, <1>4, <2>1 DEF TypeOK, HoldInv
  <2>4. BeatsInv'
    BY <1>1, <1>4 DEF BeatsInv, Beat, AtWork
  <2>5. PodInv'
    BY <1>4, <2>1, <2>2 DEF PodInv
  <2>6. \A g \in Follows : follow[g].pod \in Pods => Has(g)' = Has(g)
    BY <1>4, <2>1 DEF Has
  <2>7. ThreadInv'
    BY <1>1, <1>4, <2>6 DEF ThreadInv, Running, AtWork
  <2>8. GoneInv'
    <3>1. \A g \in Follows : Gone(g)' = Gone(g)
      BY <1>1 DEF Gone, Live, Holding
    <3>2. \A g \in Follows : follow[g].at \notin {"none", "lost"} => Has(g)' = Has(g)
      BY <2>6 DEF ThreadInv
    <3> QED
      BY <1>1, <1>4, <3>1, <3>2 DEF GoneInv, AtWork
  <2> QED
    BY <1>1, <2>3, <2>4, <2>5, <2>7, <2>8
<1> QED
  BY <1>3, <1>4 DEF StartClaims

LEMMA TakesInv == ASSUME Inv, NEW p \in Pods, StartTakes(p) PROVE Inv'
<1> USE DEF Inv
<1> DEFINE by == <<"start", p>>
           f == pod[p].claimed
           c == pod[p].start
           taken == TakeHold(file, c, Followed(f, FALSE, 0))
<1>1. UNCHANGED <<run, log, losses>> /\ c \in Calls /\ f \in Follows \cup {0}
  BY DEF StartTakes, outside, TypeOK, PodRecords
<1>2. CASE Enter(by) /\ UNCHANGED <<ages, pod, follow>>
  <2>1. by[1] # "beat"
    OBVIOUS
  <2> QED
    BY <1>1, <1>2, <2>1, EnterInv DEF outside
<1>3. CASE /\ Write(by, LAMBDA x : TakeHold(x, c, Followed(f, FALSE, 0)))
           /\ expired' = FALSE /\ silent' = FALSE
           /\ pod' = [pod EXCEPT ![p].start = 0, ![p].claimed = Unheld]
           /\ follow' = IF f = Unheld THEN follow ELSE [follow EXCEPT ![f].at = "search"]
  <2>1. HasTurn(by) /\ turns' = {t \in turns : t.by # by}
    BY <1>3 DEF Write
  <2>2. /\ Loaded(by) = file /\ serial = file /\ turns' = {} /\ file \in Files
        /\ Followed(f, FALSE, 0) \in FollowRecords
    BY <1>1, <2>1, LoadedIsFile, RecordTypes DEF TypeOK, HoldTypeOK
  <2>3. file' = taken /\ serial' = taken
    BY <1>3, <2>2 DEF Write
  <2>4. /\ taken \in Files /\ taken.held.run = c /\ taken.held.lines = << >>
        /\ taken.held.follow.by = f /\ taken.held.follow.offset = 0
    <3>1. c \in Calls \cup {0} /\ Followed(f, FALSE, 0) \in FollowRecords
      BY <1>1, <2>2
    <3>2. taken \in Files
      <4>1. NoFailure \in Failures /\ << >> \in Seq(Nat)
        BY RecordTypes
      <4> QED
        BY <3>1, <4>1 DEF Files, File, TakeHold
    <3> QED
      BY <3>2 DEF TakeHold, File, Followed
  <2> HIDE DEF taken
  <2>5. HoldTypeOK' /\ Turns' /\ BeatsInv'
    BY <2>2, <2>3, <2>4, WrittenTurn, WrittenType
  <2>6. LinesAreTheLog'
    <3> DEFINE h == taken.held
    <3>1. Kept(h) /\ Last(h) = 0
      <4>1. h.lines = << >> /\ (h.follow # NoFollow => h.follow.offset = 0)
        BY <2>4
      <4> HIDE DEF h
      <4> QED
        BY <4>1, EmptyKept
    <3>2. log[c] \in Nat
      <4>1. LogLength \in Nat /\ log \in [Calls -> 0 .. LogLength]
        BY DEF TypeOK
      <4>2. \A d \in Calls : log[d] \in Nat
        BY <4>1
      <4> QED
        BY <1>1, <4>2
    <3>3. 0 <= log'[c]
      BY <1>1, <3>2
    <3> QED
      BY <2>3, <2>4, <3>1, <3>3, LinesWillBe
  <2>7. /\ pod' \in [Pods -> PodRecords] /\ pod'[p].claimed = Unheld
        /\ \A q \in Pods : /\ pod'[q].following = pod[q].following
                           /\ pod'[q].leaving = pod[q].leaving
                           /\ q # p => pod'[q] = pod[q]
    <3> DEFINE r == [pod[p] EXCEPT !.start = 0, !.claimed = Unheld]
    <3>1. pod' = [pod EXCEPT ![p] = r] /\ pod \in [Pods -> PodRecords]
      BY <1>3 DEF TypeOK
    <3>2. /\ r \in PodRecords /\ r.following = pod[p].following /\ r.leaving = pod[p].leaving
          /\ r.claimed = Unheld
      BY <3>1 DEF PodRecords
    <3> HIDE DEF r
    <3> QED
      BY <3>1, <3>2
  <2>8. f \in Follows => /\ follow[f].at = "claimed" /\ follow[f].pod = p
                         /\ follow[f].call = c /\ follow[f].next = 0
    <3> SUFFICES ASSUME f \in Follows
                 PROVE  /\ follow[f].at = "claimed" /\ follow[f].pod = p
                        /\ follow[f].call = c /\ follow[f].next = 0
      OBVIOUS
    <3>1. f # Unheld
      OBVIOUS
    <3> QED
      BY <3>1 DEF PodInv
  <2>9. /\ follow' \in [Follows -> Threads]
        /\ \A g \in Follows :
             /\ follow'[g].at = IF g = f THEN "search" ELSE follow[g].at
             /\ follow'[g].pod = follow[g].pod /\ follow'[g].call = follow[g].call
             /\ follow'[g].next = follow[g].next /\ follow'[g].released = follow[g].released
    <3>1. CASE f = Unheld
      <4>1. follow' = follow
        BY <1>3, <3>1
      <4>2. \A g \in Follows : g # f
        BY <3>1
      <4> QED
        BY <4>1, <4>2 DEF TypeOK
    <3>2. CASE f # Unheld
      <4> DEFINE r == [follow[f] EXCEPT !.at = "search"]
      <4>1. follow' = [follow EXCEPT ![f] = r] /\ f \in Follows /\ follow \in [Follows -> Threads]
        BY <1>1, <1>3, <3>2 DEF TypeOK
      <4>2. /\ r \in Threads /\ r.at = "search" /\ r.pod = follow[f].pod
            /\ r.call = follow[f].call /\ r.next = follow[f].next
            /\ r.released = follow[f].released
        BY <4>1 DEF Threads
      <4> HIDE DEF r, f
      <4> QED
        BY <4>1, <4>2
    <3> QED
      BY <3>1, <3>2
  <2> HIDE DEF c, f
  <2>10. TypeOK'
    BY <1>1, <1>3, <2>5, <2>7, <2>9 DEF TypeOK
  <2>11. HoldInv'
    BY <2>3, <2>4, <2>8, <2>9 DEF HoldInv
  <2>12. PodInv'
    <3> SUFFICES ASSUME NEW q \in Pods
                 PROVE  /\ pod'[q].following # 0 =>
                           follow'[pod'[q].following].pod = q /\ follow'[pod'[q].following].at # "none"
                        /\ pod'[q].claimed # Unheld =>
                           LET t == follow'[pod'[q].claimed] IN
                           t.at = "claimed" /\ t.pod = q /\ t.call = pod'[q].start /\ t.next = 0
      BY DEF PodInv
    <3>1. pod[q].following \in Follows \cup {0} /\ pod[q].claimed \in Follows \cup {0}
      BY DEF TypeOK, PodRecords
    <3>2. pod'[q].following # 0 =>
            follow'[pod'[q].following].pod = q /\ follow'[pod'[q].following].at # "none"
      <4> DEFINE g == pod[q].following
      <4> SUFFICES ASSUME g # 0
                   PROVE  follow'[g].pod = q /\ follow'[g].at # "none"
        BY <2>7
      <4>1. g \in Follows /\ follow[g].pod = q /\ follow[g].at # "none"
        BY <3>1 DEF PodInv
      <4> HIDE DEF g
      <4> QED
        BY <2>9, <4>1
    <3>3. CASE q = p
      BY <2>7, <3>2, <3>3
    <3>4. CASE q # p
      <4> DEFINE g == pod[q].claimed
      <4> SUFFICES ASSUME g # Unheld
                   PROVE  /\ follow'[g].at = "claimed" /\ follow'[g].pod = q
                          /\ follow'[g].call = pod[q].start /\ follow'[g].next = 0
        BY <2>7, <3>2, <3>4
      <4>1. /\ g \in Follows /\ follow[g].at = "claimed" /\ follow[g].pod = q
            /\ follow[g].call = pod[q].start /\ follow[g].next = 0
        BY <3>1 DEF PodInv
      <4> HIDE DEF g
      <4>2. g # f
        BY <2>8, <3>4, <4>1
      <4> QED
        BY <2>9, <4>1, <4>2
    <3> QED
      BY <3>3, <3>4
  <2>13. \A g \in Follows : follow[g].pod \in Pods => Has(g)' = Has(g)
    BY <2>7, <2>9 DEF Has
  <2>14. ThreadInv'
    <3> SUFFICES ASSUME NEW g \in Follows
                 PROVE  /\ follow'[g].at \notin {"none", "lost"} =>
                              follow'[g].pod \in Pods /\ follow'[g].call \in Calls
                        /\ follow'[g].at = "line" => follow'[g].next < log'[follow'[g].call]
                        /\ Running(g)' /\ ~follow'[g].released => Has(g)'
      BY DEF ThreadInv
    <3>1. Running(g)' = Running(g)
      BY <2>8, <2>9 DEF Running, AtWork
    <3>2. CASE g = f
      BY <2>8, <2>9, <2>13, <3>1, <3>2 DEF ThreadInv
    <3>3. CASE g # f
      <4>1. /\ follow'[g].at = follow[g].at /\ follow'[g].pod = follow[g].pod
            /\ follow'[g].call = follow[g].call /\ follow'[g].next = follow[g].next
            /\ follow'[g].released = follow[g].released
        BY <2>9, <3>3
      <4>2. Running(g) => follow[g].pod \in Pods
        BY DEF ThreadInv, Running, AtWork
      <4> QED
        BY <1>1, <2>13, <3>1, <4>1, <4>2 DEF ThreadInv
    <3> QED
      BY <3>2, <3>3
  <2>15. GoneInv'
    <3> SUFFICES ASSUME NEW g \in Follows
                 PROVE  /\ follow'[g].at = "done" \/ (follow'[g].at = "ended" /\ Has(g)') => Gone(g)'
                        /\ follow'[g].at = "claimed" /\ Has(g)' => ~follow'[g].released
                        /\ AtWork(g)' /\ follow'[g].released /\ Has(g)' => file'.held.follow.by # g
      BY DEF GoneInv
    <3>1. CASE g = f
      <4>1. follow'[g].at = "search" /\ follow'[g].released = follow[g].released
        BY <2>9, <3>1
      <4>2. Has(g)' => ~follow[g].released
        BY <2>8, <2>13, <3>1 DEF GoneInv
      <4> QED
        BY <4>1, <4>2
    <3>2. CASE g # f
      <4>1. file'.held.follow.by # g /\ Gone(g)'
        BY <2>3, <2>4, <3>2 DEF Gone
      <4>2. follow'[g].at = follow[g].at /\ follow'[g].released = follow[g].released
        BY <2>9, <3>2
      <4>3. follow[g].at = "claimed" => Has(g)' = Has(g)
        BY <2>13 DEF ThreadInv
      <4> QED
        BY <4>1, <4>2, <4>3 DEF GoneInv
    <3> QED
      BY <3>1, <3>2
  <2> QED
    BY <2>5, <2>6, <2>10, <2>11, <2>12, <2>14, <2>15
<1> QED
  BY <1>2, <1>3 DEF StartTakes

\* A hold released keeps nothing of a follow's.
LEMMA HooksInv == ASSUME Inv, NEW c \in Calls, HookReleases(c) PROVE Inv'
<1> USE DEF Inv
<1> DEFINE by == <<"hook", c>>
<1>1. UNCHANGED <<outside, ages, pod, follow, losses>> /\ run[c] = "over"
      /\ UNCHANGED <<run, log, expired, silent, pod, follow, losses>>
  BY DEF HookReleases, outside, ages
<1>2. CASE Enter(by)
  <2>1. by[1] # "beat"
    OBVIOUS
  <2> QED
    BY <1>1, <1>2, <2>1, EnterInv
<1>3. CASE Write(by, LAMBDA x : ReleaseHold(x, c, NoFailure))
  <2> DEFINE released == ReleaseHold(file, c, NoFailure)
  <2>1. HasTurn(by) /\ turns' = {t \in turns : t.by # by}
    BY <1>3 DEF Write
  <2>2. Loaded(by) = file /\ serial = file /\ turns' = {} /\ file \in Files
    BY <2>1, LoadedIsFile DEF TypeOK, HoldTypeOK
  <2>3. file' = released /\ serial' = released
    BY <1>3, <2>2 DEF Write
  <2>4. released = file \/ released.held = NoRun
    BY DEF ReleaseHold, File
  <2>5. released \in Files
    BY <2>2, RecordTypes DEF Files, File, ReleaseHold, NoRun, EmptyFile
  <2> HIDE DEF released
  <2>6. HoldTypeOK' /\ Turns' /\ BeatsInv'
    BY <2>2, <2>3, <2>5, WrittenTurn, WrittenType
  <2>7. file' = file \/ (file'.held = NoRun /\ file'.held.run = 0 /\ file'.held.follow.by = -1)
    BY <2>3, <2>4, RecordTypes
  <2>8. LinesAreTheLog'
    <3>1. CASE file' = file
      BY <1>1, <3>1 DEF LinesAreTheLog
    <3>2. CASE file'.held = NoRun
      <4>1. Kept(NoRun)
        BY RecordTypes, EmptyKept
      <4> QED
        BY <3>2, <4>1, RecordTypes, LinesWillBe
    <3> QED
      BY <2>7, <3>1, <3>2
  <2>9. /\ \A g \in Follows : file'.held.follow.by = g => file' = file
        /\ \A g \in Follows : Gone(g) => Gone(g)'
    BY <1>1, <2>7 DEF Gone, Live, Holding
  <2>10. TypeOK' /\ HoldInv' /\ PodInv'
    BY <1>1, <2>6, <2>9 DEF TypeOK, HoldInv, PodInv
  <2>11. ThreadInv' /\ GoneInv'
    BY <1>1, <2>9 DEF ThreadInv, GoneInv, Running, AtWork, Has
  <2> QED
    BY <2>6, <2>8, <2>10, <2>11
<1> QED
  BY <1>2, <1>3 DEF HookReleases

\* The thread that takes over goes on from the record.
LEMMA PagesInv == ASSUME Inv, NEW p \in Pods, PageTakesOver(p) PROVE Inv'
<1> DEFINE by == <<"page", p>>
           c == file.held.run
           at == IF file.held.follow.found THEN "read" ELSE "search"
           offset == file.held.follow.offset
           taken == [file EXCEPT !.held.follow.by = NextFollow]
<1>1. UNCHANGED <<outside, expired, losses>> /\ UNCHANGED <<run, log, expired, losses>>
  BY DEF PageTakesOver, outside
<1>2. CASE Enter(by) /\ UNCHANGED <<silent, pod, follow>>
  <2>1. by[1] # "beat"
    OBVIOUS
  <2> QED
    BY <1>1, <1>2, <2>1, EnterInv DEF ages
<1>3. ASSUME HasTurn(by)
      PROVE  Loaded(by) = file /\ serial = file /\ file \in Files
  BY <1>3, LoadedIsFile DEF Inv, TypeOK, HoldTypeOK
<1>4. CASE /\ HasTurn(by) /\ Takeable(Loaded(by)) /\ CanClaim(p)
           /\ Write(by, LAMBDA x : [x EXCEPT !.held.follow.by = NextFollow])
           /\ silent' = FALSE /\ pod' = [pod EXCEPT ![p].following = NextFollow]
           /\ LET held == Loaded(by).held IN
                Claim(p, held.run, IF held.follow.found THEN "read" ELSE "search",
                      held.follow.offset)
  <2>1. /\ file' = taken /\ serial' = taken /\ turns' = {t \in turns : t.by # by}
        /\ file \in Files /\ Takeable(file) /\ Claim(p, c, at, offset)
    BY <1>3, <1>4 DEF Write
  <2>2. turns' = {}
    BY <1>4, <2>1, LoadedIsFile DEF Inv
  <2>3. /\ c \in Calls /\ at \in {"claimed", "search", "read"} /\ at # "claimed"
        /\ offset \in Nat /\ file.held.follow.by \in Follows \cup {0}
    BY <2>1 DEF Takeable, Files, FollowRecords
  <2>4. file.held.follow # NoFollow
    BY <2>3, RecordTypes
  <2>5. NextFollow \in Follows
    BY <1>4, <2>1, <2>3, ClaimsFollow
  <2> HIDE DEF NextFollow
  <2>6. taken \in Files /\ taken.held.run = c /\ taken.held.lines = file.held.lines
        /\ taken.held.follow.by = NextFollow /\ taken.held.follow.offset = offset
    BY <2>1, <2>5 DEF Files, FollowRecords
  <2> HIDE DEF taken
  <2>7. HoldTypeOK' /\ Turns' /\ BeatsInv'
    BY <2>1, <2>2, <2>6, WrittenTurn, WrittenType DEF Inv
  <2>8. LinesAreTheLog'
    <3>1. Kept(file.held) /\ (c # 0 => Last(file.held) <= log[c])
      BY LinesAre DEF Inv
    <3>2. Last(taken.held) = Last(file.held)
      BY <2>6 DEF Last
    <3>3. Kept(taken.held)
      BY <2>4, <2>6, <3>1, <3>2 DEF Kept
    <3> QED
      BY <1>1, <2>1, <2>6, <3>1, <3>2, <3>3, LinesWillBe
  <2>9. /\ pod' \in [Pods -> PodRecords] /\ \A q \in Pods : q # p => pod'[q] = pod[q]
        /\ pod'[p].following = NextFollow /\ pod'[p].leaving = pod[p].leaving
        /\ pod'[p].claimed = pod[p].claimed /\ pod'[p].start = pod[p].start
    <3> DEFINE r == [pod[p] EXCEPT !.following = NextFollow]
    <3>1. pod' = [pod EXCEPT ![p] = r] /\ pod \in [Pods -> PodRecords]
      BY <1>4 DEF Inv, TypeOK
    <3>2. /\ r \in PodRecords /\ r.following = NextFollow /\ r.leaving = pod[p].leaving
          /\ r.claimed = pod[p].claimed /\ r.start = pod[p].start
      BY <2>5, <3>1 DEF PodRecords
    <3> HIDE DEF r
    <3> QED
      BY <3>1, <3>2
  <2>10. silent' \in BOOLEAN /\ run' \in [Calls -> {"unasked", "running", "over"}]
    BY <1>1, <1>4 DEF Inv, TypeOK
  <2>11. /\ file'.held.run = c /\ file'.held.run = file.held.run
         /\ file'.held.follow.by = NextFollow /\ file'.held.follow.offset = offset
    BY <2>1, <2>6
  <2> HIDE DEF c, at, offset
  <2> QED
    BY <1>1, <1>4, <2>1, <2>3, <2>7, <2>8, <2>9, <2>10, <2>11, ClaimedInv
<1>5. CASE /\ HasTurn(by) /\ Write(by, LAMBDA x : x) /\ UNCHANGED <<silent, pod, follow>>
  <2> USE DEF Inv
  <2>1. UNCHANGED <<file, serial>> /\ turns' = {}
    BY <1>3, <1>5, LoadedIsFile DEF Write
  <2>2. HoldTypeOK' /\ Turns' /\ BeatsInv'
    BY <1>3, <1>5, <2>1, WrittenTurn, WrittenType
  <2>3. TypeOK' /\ HoldInv' /\ PodInv' /\ LinesAreTheLog'
    BY <1>1, <1>5, <2>1, <2>2 DEF TypeOK, HoldInv, PodInv, LinesAreTheLog
  <2>4. ThreadInv' /\ GoneInv'
    BY <1>1, <1>5, <2>1 DEF ThreadInv, GoneInv, Running, AtWork, Has, Gone, Live, Holding
  <2> QED
    BY <2>2, <2>3, <2>4
<1> QED
  BY <1>2, <1>4, <1>5 DEF PageTakesOver

\* The shutdown releases the pod's follow, and remembers it to let go of it.
LEMMA AnnouncesInv == ASSUME Inv, NEW p \in Pods, Announce(p) PROVE Inv'
<1> USE DEF Inv
<1>1. /\ UNCHANGED <<run, log, file, serial, turns, expired, silent, losses>>
      /\ HoldTypeOK' /\ Turns' /\ LinesAreTheLog'
  BY FileKept DEF Announce, outside, fileVars, ages
<1>2. /\ pod' \in [Pods -> PodRecords] /\ pod'[p].leaving = TRUE
      /\ \A q \in Pods : /\ pod'[q].following = pod[q].following
                         /\ pod'[q].claimed = pod[q].claimed /\ pod'[q].start = pod[q].start
                         /\ q # p => pod'[q].leaving = pod[q].leaving
  <2> DEFINE r == [pod[p] EXCEPT !.leaving = TRUE, !.letGo = pod[p].following]
  <2>1. pod' = [pod EXCEPT ![p] = r] /\ pod \in [Pods -> PodRecords]
    BY DEF Announce, TypeOK
  <2>2. /\ r \in PodRecords /\ r.following = pod[p].following /\ r.leaving = TRUE
        /\ r.claimed = pod[p].claimed /\ r.start = pod[p].start
    BY <2>1 DEF PodRecords
  <2> HIDE DEF r
  <2> QED
    BY <2>1, <2>2
<1>3. /\ follow' \in [Follows -> Threads]
      /\ \A g \in Follows :
           /\ follow'[g].at = follow[g].at /\ follow'[g].pod = follow[g].pod
           /\ follow'[g].call = follow[g].call /\ follow'[g].next = follow[g].next
           /\ follow'[g].released = (follow[g].released \/ g = pod[p].following)
  <2>1. \A g \in Follows : /\ [follow[g] EXCEPT !.released = TRUE] \in Threads
                           /\ follow[g] \in Threads
    BY DEF TypeOK, Threads
  <2>2. follow' = [g \in Follows |->
          IF g = pod[p].following THEN [follow[g] EXCEPT !.released = TRUE] ELSE follow[g]]
    BY DEF Announce
  <2>3. ASSUME NEW g \in Follows
        PROVE  /\ follow'[g].at = follow[g].at /\ follow'[g].pod = follow[g].pod
               /\ follow'[g].call = follow[g].call /\ follow'[g].next = follow[g].next
               /\ follow'[g].released = (follow[g].released \/ g = pod[p].following)
    <3>1. CASE g = pod[p].following
      <4> DEFINE r == [follow[g] EXCEPT !.released = TRUE]
      <4>1. /\ r.at = follow[g].at /\ r.pod = follow[g].pod /\ r.call = follow[g].call
            /\ r.next = follow[g].next /\ r.released = TRUE
        BY <2>1 DEF Threads
      <4>2. follow'[g] = r
        BY <2>2, <3>1
      <4> HIDE DEF r
      <4> QED
        BY <3>1, <4>1, <4>2
    <3>2. CASE g # pod[p].following
      <4>1. follow'[g] = follow[g] /\ follow[g].released \in BOOLEAN
        BY <2>1, <2>2, <3>2 DEF Threads
      <4> QED
        BY <3>2, <4>1
    <3> QED
      BY <3>1, <3>2
  <2> QED
    BY <2>1, <2>2, <2>3
<1>4. TypeOK' /\ HoldInv'
  BY <1>1, <1>2, <1>3 DEF TypeOK, HoldInv
<1>5. BeatsInv'
  BY <1>1, <1>3 DEF BeatsInv, Beat, AtWork
<1>6. PodInv'
  <2> SUFFICES ASSUME NEW q \in Pods
               PROVE  /\ pod[q].following # 0 =>
                         follow'[pod[q].following].pod = q /\ follow'[pod[q].following].at # "none"
                      /\ pod[q].claimed # Unheld =>
                         LET t == follow'[pod[q].claimed] IN
                         t.at = "claimed" /\ t.pod = q /\ t.call = pod[q].start /\ t.next = 0
    BY <1>2 DEF PodInv
  <2>1. pod[q].following \in Follows \cup {0} /\ pod[q].claimed \in Follows \cup {0}
    BY DEF TypeOK, PodRecords
  <2>2. pod[q].following # 0 =>
          follow'[pod[q].following].pod = q /\ follow'[pod[q].following].at # "none"
    BY <1>3, <2>1 DEF PodInv
  <2>3. ASSUME pod[q].claimed # Unheld
        PROVE  LET t == follow'[pod[q].claimed] IN
               t.at = "claimed" /\ t.pod = q /\ t.call = pod[q].start /\ t.next = 0
    <3> DEFINE g == pod[q].claimed
    <3>1. /\ g \in Follows /\ follow[g].at = "claimed" /\ follow[g].pod = q
          /\ follow[g].call = pod[q].start /\ follow[g].next = 0
      BY <2>1, <2>3 DEF PodInv
    <3>2. /\ follow'[g].at = "claimed" /\ follow'[g].pod = q
          /\ follow'[g].call = pod[q].start /\ follow'[g].next = 0
      <4> HIDE DEF g
      <4> QED
        BY <1>3, <3>1
    <3> QED
      BY <3>2
  <2> QED
    BY <2>2, <2>3
<1>7. ASSUME NEW g \in Follows, follow[g].pod \in Pods
      PROVE  /\ follow[g].at \in {"done", "ended", "claimed", "search", "read", "line"} /\ Has(g)' =>
                  Has(g) /\ follow'[g].released = follow[g].released
             /\ follow[g].pod # p => Has(g)' = Has(g)
  <2>1. follow'[g].pod = follow[g].pod
    BY <1>3
  <2>2. CASE follow[g].pod = p
    BY <1>2, <2>1, <2>2 DEF Has
  <2>3. CASE follow[g].pod # p
    <3>1. Has(g)' = Has(g)
      BY <1>2, <1>7, <2>1, <2>3 DEF Has
    <3>2. g # pod[p].following
      BY <2>3 DEF PodInv
    <3>3. follow[g].released \in BOOLEAN
      BY DEF TypeOK, Threads
    <3> QED
      BY <1>3, <2>3, <3>1, <3>2, <3>3
  <2> QED
    BY <2>2, <2>3
<1>8. ThreadInv'
  <2> SUFFICES ASSUME NEW g \in Follows
               PROVE  /\ follow'[g].at \notin {"none", "lost"} =>
                            follow'[g].pod \in Pods /\ follow'[g].call \in Calls
                      /\ follow'[g].at = "line" => follow'[g].next < log'[follow'[g].call]
                      /\ Running(g)' /\ ~follow'[g].released => Has(g)'
    BY DEF ThreadInv
  <2>1. ASSUME Running(g)', ~follow'[g].released PROVE Has(g)'
    <3>1. Running(g) /\ ~follow[g].released /\ g # pod[p].following
      BY <1>3, <2>1 DEF Running, AtWork
    <3>2. Has(g) /\ follow[g].pod \in Pods
      BY <3>1 DEF ThreadInv, Running, AtWork
    <3>3. follow[g].pod # p
      BY <3>1, <3>2 DEF Has
    <3> QED
      BY <1>7, <3>2, <3>3
  <2> QED
    BY <1>1, <1>3, <2>1 DEF ThreadInv
<1>9. GoneInv'
  <2> SUFFICES ASSUME NEW g \in Follows
               PROVE  /\ follow'[g].at = "done" \/ (follow'[g].at = "ended" /\ Has(g)') => Gone(g)'
                      /\ follow'[g].at = "claimed" /\ Has(g)' => ~follow'[g].released
                      /\ AtWork(g)' /\ follow'[g].released /\ Has(g)' => file'.held.follow.by # g
    BY DEF GoneInv
  <2>1. follow[g].at \in {"ended", "claimed", "search", "read", "line"} /\ Has(g)' =>
          Has(g) /\ follow'[g].released = follow[g].released
    BY <1>7 DEF ThreadInv
  <2>2. Gone(g)' = Gone(g) /\ follow'[g].at = follow[g].at
    BY <1>1, <1>3 DEF Gone, Live, Holding
  <2> QED
    BY <1>1, <2>1, <2>2 DEF GoneInv, AtWork
<1> QED
  BY <1>1, <1>4, <1>5, <1>6, <1>8, <1>9

LEMMA LetsGoInv == ASSUME Inv, NEW p \in Pods, LetsGo(p) PROVE Inv'
<1> USE DEF Inv
<1> DEFINE by == <<"letgo", p>>
           f == pod[p].letGo
<1>1. UNCHANGED <<outside, ages, follow, losses>> /\ f \in Follows
      /\ UNCHANGED <<run, log, expired, silent, follow, losses>>
  BY DEF LetsGo, outside, ages, TypeOK, PodRecords
<1>2. CASE Enter(by) /\ UNCHANGED pod
  <2>1. by[1] # "beat"
    OBVIOUS
  <2> QED
    BY <1>1, <1>2, <2>1, EnterInv
<1>3. CASE LeaveFollow(by, f) /\ pod' = [pod EXCEPT ![p].letGo = 0]
  <2>1. /\ HoldTypeOK' /\ Turns' /\ BeatsInv' /\ file'.held.run = file.held.run
        /\ Kept(file'.held) /\ Last(file'.held) = Last(file.held)
        /\ \A g \in Follows : file'.held.follow.by = g => file' = file
    <3> HIDE DEF f
    <3> QED
      BY <1>1, <1>3, LeftFile
  <2>2. LinesAreTheLog'
    BY <1>1, <2>1, LinesAre, LinesWillBe
  <2>3. /\ pod' \in [Pods -> PodRecords]
        /\ \A q \in Pods : /\ pod'[q].following = pod[q].following
                           /\ pod'[q].leaving = pod[q].leaving
                           /\ pod'[q].claimed = pod[q].claimed /\ pod'[q].start = pod[q].start
    <3> DEFINE r == [pod[p] EXCEPT !.letGo = 0]
    <3>1. pod' = [pod EXCEPT ![p] = r] /\ pod \in [Pods -> PodRecords]
      BY <1>3 DEF TypeOK
    <3>2. /\ r \in PodRecords /\ r.following = pod[p].following /\ r.leaving = pod[p].leaving
          /\ r.claimed = pod[p].claimed /\ r.start = pod[p].start
      BY <3>1 DEF PodRecords
    <3> HIDE DEF r
    <3> QED
      BY <3>1, <3>2
  <2>4. \A g \in Follows : Gone(g) => Gone(g)'
    BY <1>1, <2>1 DEF Gone, Live, Holding
  <2>5. TypeOK' /\ HoldInv' /\ PodInv'
    BY <1>1, <2>1, <2>3 DEF TypeOK, HoldInv, PodInv
  <2>6. \A g \in Follows : follow[g].pod \in Pods => Has(g)' = Has(g)
    BY <1>1, <2>3 DEF Has
  <2>7. ThreadInv'
    BY <1>1, <2>6 DEF ThreadInv, Running, AtWork
  <2>8. GoneInv'
    <3>1. \A g \in Follows : follow[g].at \notin {"none", "lost"} => Has(g)' = Has(g)
      BY <2>6 DEF ThreadInv
    <3>2. \A g \in Follows : file.held.follow.by # g => file'.held.follow.by # g
      BY <2>1
    <3> QED
      BY <1>1, <2>4, <3>1, <3>2 DEF GoneInv, AtWork
  <2> QED
    BY <2>1, <2>2, <2>5, <2>7, <2>8
<1> QED
  BY <1>2, <1>3 DEF LetsGo

\* A pod that dies takes its threads and their turns with it.
LEMMA DiesInv == ASSUME Inv, NEW p \in Pods, Die(p) PROVE Inv'
<1> USE DEF Inv
<1> DEFINE its == ({"start", "letgo", "page"} \X {p}) \cup ({"follow", "beat"} \X {p} \X Follows)
<1>1. /\ UNCHANGED <<run, log, expired, silent, file, serial>> /\ losses' \in Nat
      /\ turns' = {t \in turns : t.by \notin its}
      /\ pod' = [pod EXCEPT ![p] = FreshPod]
  <2>1. losses \in Nat /\ losses' = losses + 1
    BY DEF Die, TypeOK
  <2>2. turns' = {t \in turns : t.by \notin its} /\ UNCHANGED <<file, serial>>
    BY Zenon DEF Die, Dropped
  <2>3. /\ UNCHANGED <<run, log, expired, silent>>
        /\ pod' = [pod EXCEPT ![p] = FreshPod]
    BY DEF Die, outside, ages
  <2> QED
    BY <2>1, <2>2, <2>3
<1>2. HoldTypeOK' /\ Turns' /\ LinesAreTheLog'
  BY <1>1 DEF TypeOK, HoldTypeOK, Turns, AsIfInTurns, LinesAreTheLog
<1>3. /\ pod' \in [Pods -> PodRecords] /\ \A q \in Pods : q # p => pod'[q] = pod[q]
      /\ pod'[p].following = 0 /\ pod'[p].claimed = Unheld
  <2>1. /\ FreshPod \in PodRecords /\ FreshPod.following = 0 /\ FreshPod.claimed = Unheld
    BY DEF FreshPod, PodRecords
  <2>2. pod \in [Pods -> PodRecords]
    BY DEF TypeOK
  <2> HIDE DEF FreshPod
  <2> QED
    BY <1>1, <2>1, <2>2
<1>4. /\ follow' \in [Follows -> Threads]
      /\ \A g \in Follows :
           /\ follow[g].pod # p => follow'[g] = follow[g]
           /\ follow[g].pod = p => follow'[g].at = "lost" /\ follow'[g].released
           /\ follow'[g].pod = follow[g].pod /\ follow'[g].call = follow[g].call
           /\ follow'[g].next = follow[g].next
  <2>1. \A g \in Follows :
          LET r == [follow[g] EXCEPT !.at = "lost", !.released = TRUE] IN
          /\ r \in Threads /\ follow[g] \in Threads
          /\ r.at = "lost" /\ r.released /\ r.pod = follow[g].pod
          /\ r.call = follow[g].call /\ r.next = follow[g].next
    BY DEF TypeOK, Threads
  <2>2. follow' = [g \in Follows |->
          IF follow[g].pod = p THEN [follow[g] EXCEPT !.at = "lost", !.released = TRUE]
          ELSE follow[g]]
    BY DEF Die
  <2>3. follow' \in [Follows -> Threads]
    BY <2>1, <2>2
  <2>4. ASSUME NEW g \in Follows
        PROVE  /\ follow[g].pod # p => follow'[g] = follow[g]
               /\ follow[g].pod = p => follow'[g].at = "lost" /\ follow'[g].released
               /\ follow'[g].pod = follow[g].pod /\ follow'[g].call = follow[g].call
               /\ follow'[g].next = follow[g].next
    <3>1. CASE follow[g].pod = p
      <4> DEFINE r == [follow[g] EXCEPT !.at = "lost", !.released = TRUE]
      <4>1. follow'[g] = r
        BY <2>2, <3>1
      <4>2. /\ r.at = "lost" /\ r.released /\ r.pod = follow[g].pod
            /\ r.call = follow[g].call /\ r.next = follow[g].next
        BY <2>1
      <4> HIDE DEF r
      <4> QED
        BY <3>1, <4>1, <4>2
    <3>2. CASE follow[g].pod # p
      BY <2>2, <3>2
    <3> QED
      BY <3>1, <3>2
  <2> QED
    BY <2>3, <2>4
<1>5. TypeOK'
  BY <1>1, <1>2, <1>3, <1>4 DEF TypeOK
<1>6. HoldInv'
  <2> SUFFICES ASSUME NEW g \in Follows, file.held.follow.by = g
               PROVE  /\ file.held.run = follow'[g].call
                      /\ file.held.follow.offset = follow'[g].next
                      /\ follow'[g].at \notin {"none", "claimed"}
    BY <1>1 DEF HoldInv
  <2>1. /\ file.held.run = follow[g].call /\ file.held.follow.offset = follow[g].next
        /\ follow[g].at \notin {"none", "claimed"}
    BY DEF HoldInv
  <2>2. follow'[g].at = "lost" \/ follow'[g].at = follow[g].at
    BY <1>4
  <2> QED
    BY <1>4, <2>1, <2>2
<1>7. BeatsInv'
  <2> SUFFICES ASSUME NEW t \in turns, t.by \notin its, t.by[1] = "beat"
               PROVE  \E g \in Follows : /\ t.by = Beat(g)'
                                         /\ AtWork(g)' \/ follow'[g].at \in {"ended", "failed"}
    BY <1>1 DEF BeatsInv
  <2>1. PICK g \in Follows : t.by = Beat(g) /\ (AtWork(g) \/ follow[g].at \in {"ended", "failed"})
    BY DEF BeatsInv
  <2>2. follow[g].pod # p
    BY <2>1 DEF Beat
  <2>3. follow'[g] = follow[g]
    BY <1>4, <2>2
  <2> QED
    BY <2>1, <2>3 DEF Beat, AtWork
<1>8. PodInv'
  <2> SUFFICES ASSUME NEW q \in Pods
               PROVE  /\ pod'[q].following # 0 =>
                         follow'[pod'[q].following].pod = q /\ follow'[pod'[q].following].at # "none"
                      /\ pod'[q].claimed # Unheld =>
                         LET t == follow'[pod'[q].claimed] IN
                         t.at = "claimed" /\ t.pod = q /\ t.call = pod'[q].start /\ t.next = 0
    BY DEF PodInv
  <2>1. CASE q = p
    BY <1>3, <2>1
  <2>2. CASE q # p
    <3>1. pod'[q] = pod[q] /\ pod[q] \in PodRecords
      BY <1>3, <2>2 DEF TypeOK
    <3>2. pod[q].following \in Follows \cup {0} /\ pod[q].claimed \in Follows \cup {0}
      BY <3>1 DEF PodRecords
    <3>3. pod[q].following # 0 => follow'[pod[q].following] = follow[pod[q].following]
      BY <1>4, <2>2, <3>2 DEF PodInv
    <3>4. pod[q].claimed # Unheld => follow'[pod[q].claimed] = follow[pod[q].claimed]
      <4> DEFINE g == pod[q].claimed
      <4> SUFFICES ASSUME g # Unheld PROVE follow'[g] = follow[g]
        OBVIOUS
      <4>1. g \in Follows /\ follow[g].pod = q
        BY <3>2 DEF PodInv
      <4> HIDE DEF g
      <4> QED
        BY <1>4, <2>2, <4>1
    <3> QED
      BY <3>1, <3>3, <3>4 DEF PodInv
  <2> QED
    BY <2>1, <2>2
<1>9. ASSUME NEW g \in Follows, follow'[g].at \notin {"none", "lost"}
      PROVE  follow'[g] = follow[g] /\ Has(g)' = Has(g)
  <2>1. follow[g].pod # p
    BY <1>4, <1>9
  <2>2. follow'[g] = follow[g]
    BY <1>4, <2>1
  <2>3. follow[g].pod \in Pods
    BY <1>9, <2>2 DEF ThreadInv
  <2> QED
    BY <1>3, <2>1, <2>2, <2>3 DEF Has
<1>10. ThreadInv'
  BY <1>1, <1>9 DEF ThreadInv, Running, AtWork
<1>11. GoneInv'
  <2>1. \A g \in Follows : Gone(g)' = Gone(g)
    BY <1>1 DEF Gone, Live, Holding
  <2> QED
    BY <1>1, <1>9, <2>1 DEF GoneInv, AtWork
<1> QED
  BY <1>2, <1>5, <1>6, <1>7, <1>8, <1>10, <1>11

----------------------------------------------------------------------------
LEMMA NextInv == Inv /\ [Next]_vars => Inv'
<1> SUFFICES ASSUME Inv, [Next]_vars PROVE Inv'
  OBVIOUS
<1>1. /\ run \in [Calls -> {"unasked", "running", "over"}] /\ log \in [Calls -> 0 .. LogLength]
      /\ expired \in BOOLEAN /\ silent \in BOOLEAN /\ losses \in Nat
      /\ \A c \in Calls : log[c] \in Int
  BY DEF Inv, TypeOK
<1>2. ASSUME NEW c \in Calls, RunLogs(c) PROVE Inv'
  <2>1. /\ log' = [log EXCEPT ![c] = log[c] + 1] /\ log[c] < LogLength /\ LogLength \in Nat
        /\ UNCHANGED <<run, fileVars, expired, silent, pod, follow, losses>>
    BY <1>2 DEF RunLogs, ages
  <2>2. log' \in [Calls -> 0 .. LogLength] /\ \A d \in Calls : log[d] <= log'[d]
    BY <1>1, <2>1
  <2> QED
    BY <1>1, <2>1, <2>2, OutsideInv
<1>3. ASSUME NEW c \in Calls, RunEnds(c) PROVE Inv'
  <2>1. /\ run' = [run EXCEPT ![c] = "over"]
        /\ UNCHANGED <<log, fileVars, expired, silent, pod, follow, losses>>
    BY <1>3 DEF RunEnds, ages
  <2>2. \A d \in Calls : log[d] <= log'[d]
    BY <1>1, <2>1
  <2> QED
    BY <1>1, <2>1, <2>2, OutsideInv
<1>4. ASSUME Expire \/ FallsSilent \/ UNCHANGED vars PROVE Inv'
  <2>1. /\ UNCHANGED <<run, log, fileVars, pod, follow, losses>>
        /\ expired' \in BOOLEAN /\ (expired => expired') /\ silent' \in BOOLEAN
    BY <1>1, <1>4 DEF Expire, FallsSilent, vars, outside, ages, Live
  <2>2. \A d \in Calls : log[d] <= log'[d]
    BY <1>1, <2>1
  <2> QED
    BY <1>1, <2>1, <2>2, OutsideInv
<1>5. ASSUME NEW f \in Follows, FollowSteps(f) PROVE Inv'
  BY <1>5, FindsInv, ReadsInv, KeepsInv, OversInv, EndsInv, LeavesInv, HeartbeatInv
     DEF FollowSteps
<1>6. ASSUME NEW p \in Pods,
             StartTakes(p) \/ PageTakesOver(p) \/ Announce(p) \/ LetsGo(p) \/ Die(p)
      PROVE  Inv'
  BY <1>6, TakesInv, PagesInv, AnnouncesInv, LetsGoInv, DiesInv
<1> QED
  BY <1>2, <1>3, <1>4, <1>5, <1>6, ClaimsInv, HooksInv DEF Next

LEMMA SpecInv == Spec => []Inv
  BY InitInv, NextInv, PTL DEF Spec

\* Every variable has the shape its code has.
THEOREM TypeCorrect == Spec => []TypeOK
<1>1. Inv => TypeOK
  BY DEF Inv
<1> QED
  BY <1>1, SpecInv, PTL

\* The lines held are the last of the run's log, in order and each once, up to
\* the offset the next read begins at, through any number of takeovers.
THEOREM LinesCorrect == Spec => []LinesAreTheLog
<1>1. Inv => LinesAreTheLog
  BY DEF Inv
<1> QED
  BY <1>1, SpecInv, PTL

\* A pod that has left its follows holds none, whatever was under way as its
\* shutdown was announced.
THEOREM LeavesCorrect == Spec => []LeavesItsFollows
<1>1. Inv => LeavesItsFollows
  <2> SUFFICES ASSUME Inv, NEW p \in Pods, NEW f \in Follows,
                      pod[p].leaving, follow[f].pod = p,
                      follow[f].at = "done" \/ (AtWork(f) /\ ~follow[f].released)
               PROVE  ~(Live /\ file.held.follow.by = f)
    BY DEF LeavesItsFollows
  <2>1. CASE follow[f].at = "done"
    BY <2>1 DEF Inv, GoneInv, Gone
  <2>2. CASE AtWork(f) /\ ~follow[f].released
    BY <2>2 DEF Inv, ThreadInv, Running, Has
  <2> QED
    BY <2>1, <2>2
<1> QED
  BY <1>1, SpecInv, PTL
=============================================================================
