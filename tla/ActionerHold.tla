---------------------------- MODULE ActionerHold ----------------------------
(***************************************************************************)
(* The actioner's hold, backend/app/fieldnotes/actioner.py, class Hold: one*)
(* file on the volume both pods mount, the run held with its last log lines*)
(* and its follow, and the last failure.  Each operation is what its       *)
(* change() makes of the file it loads.  A write is two steps, the turn    *)
(* taken on the lock with the file loaded, and the write that ends it, so  *)
(* that every other step of either pod can fall between them.              *)
(***************************************************************************)
EXTENDS Integers, Sequences

CONSTANTS
    Calls,          \* the calls asking the controller for a run; a run is
                    \* named by its call
    Follows,        \* the follows' ids
    TurnLines       \* TURN_LINES, the log lines a hold keeps

VARIABLES
    file,           \* the hold's file
    serial,         \* history: the file, had each write run alone
    turns           \* the writers that have the lock, each with what it loaded

fileVars == <<file, serial, turns>>

\* How the last run ended, or the start the controller refused.
Failure(c, outcome) == [call |-> c, outcome |-> outcome]
NoFailure == Failure(0, "none")

\* Held.follow: the follow that holds the run's follow, Unheld once its pod
\* left it; whether the run's session is recorded; and the log's offset after
\* the last line kept.
Followed(f, found, offset) == [by |-> f, found |-> found, offset |-> offset]
Unheld == 0
NoFollow == Followed(-1, FALSE, 0)

NoRun == [run |-> 0, lines |-> << >>, follow |-> NoFollow]
File(held, failure) == [held |-> held, failure |-> failure]
EmptyFile == File(NoRun, NoFailure)

\* Hold.take: the run started, which clears the last failure.
TakeHold(x, c, follow) ==
    File([run |-> c, lines |-> << >>, follow |-> follow], NoFailure)

\* Hold.release: the hold if it names the run, its failure kept if it failed.
ReleaseHold(x, c, failure) ==
    IF x.held.run # c THEN x
    ELSE File(NoRun, IF failure = NoFailure THEN x.failure ELSE failure)

\* Hold.fail: a start the controller refused.
FailHold(x, failure) == File(x.held, failure)

\* Hold.clear: the failure the editor's page showed, no newer one.
ClearHold(x, failure) ==
    IF x.failure = failure THEN File(x.held, NoFailure) ELSE x

\* Mutant: a follow checks the run alone.
HoldsRun(x, c, f) == x.held.run = c

\* What every write of a follow checks: the run, and the follow holding it.
HoldsFollow(x, c, f) == x.held.run = c /\ x.held.follow.by = f

\* Hold.update, with what the follow changes in its record.
UpdateFollow(x, c, f, follow) ==
    IF HoldsFollow(x, c, f) THEN [x EXCEPT !.held.follow = follow] ELSE x

\* Hold.add_line: the line, the first dropped past TurnLines, and the offset.
AddLine(x, c, f, line) ==
    IF HoldsFollow(x, c, f)
    THEN LET all == Append(x.held.lines, line)
             past == IF Len(all) > TurnLines THEN Len(all) - TurnLines ELSE 0
         IN [x EXCEPT !.held.lines = SubSeq(all, past + 1, Len(all)),
                         !.held.follow.offset = line]
    ELSE x

----------------------------------------------------------------------------
HoldInit == file = EmptyFile /\ serial = EmptyFile /\ turns = {}

\* Mutant: a write loads the file without the lock.
EnterUnlocked(by) ==
    /\ \A t \in turns : t.by # by
    /\ turns' = turns \cup {[by |-> by, loaded |-> file]}
    /\ UNCHANGED <<file, serial>>

\* Hold.change: the exclusive lock of the lock file beside it, and the load.
Enter(by) ==
    /\ turns = {}
    /\ turns' = turns \cup {[by |-> by, loaded |-> file]}
    /\ UNCHANGED <<file, serial>>

HasTurn(by) == \E t \in turns : t.by = by
Loaded(by) == (CHOOSE t \in turns : t.by = by).loaded

\* The write that ends a turn, whole through a rename, and the lock released.
Write(by, Op(_)) ==
    /\ HasTurn(by)
    /\ file' = Op(Loaded(by))
    /\ serial' = Op(serial)
    /\ turns' = {t \in turns : t.by # by}

\* A process that ends drops its locks, and what it did not write is lost.
Dropped(writers) == turns' = {t \in turns : t.by \notin writers} /\ UNCHANGED <<file, serial>>

Holding == file.held.run # 0

\* "No write to the hold's file, by either pod, loses another's" (FR-27): the
\* file is what the writes make of it one after another, so none brings back a
\* released hold or a cleared failure, drops a run taken meanwhile or loses a
\* recorded failure.
AsIfInTurns == file = serial

Failures ==
    [call : Calls \cup {0}, outcome : {"none", "refused", "failed", "skipped", "success"}]
FollowRecords == [by : Follows \cup {-1, 0}, found : BOOLEAN, offset : Nat]
Files ==
    [held : [run : Calls \cup {0}, lines : Seq(Nat), follow : FollowRecords],
     failure : Failures]

HoldTypeOK ==
    /\ file \in Files /\ serial \in Files
    /\ \A t \in turns : t.loaded \in Files
    /\ \A t, u \in turns : t = u
=============================================================================
