----------------------------- MODULE RunFollow ------------------------------
(***************************************************************************)
(* The follow of the actioner's run: actioner.py, class Actioner, _claim to*)
(* stop.  The pod that starts a run reads its session's log into the hold, *)
(* a thread per follow with its heartbeat on another; a follow its pod left*)
(* or whose heartbeat stopped is taken over by a read of either pod.  The  *)
(* starts and the webhook are Actioner's, here only what a follow meets of *)
(* them; the run and its log are external.  Ages are flags: `silent` a     *)
(* heartbeat TAKEOVER old, `expired` a hold HOLD_EXPIRY old.               *)
(***************************************************************************)
EXTENDS ActionerHold, FiniteSets

CONSTANTS
    Pods,
    Retiring,       \* the pods a rollout shuts down
    LogLength,      \* bound: lines of a run's log
    MaxLosses       \* bound: pods that die and follows that fail

ASSUME CallsAssumption == Calls \subseteq Nat \ {0}
ASSUME FollowsAssumption == Follows \subseteq Nat \ {0}
ASSUME BoundsAssumption == TurnLines \in Nat \ {0} /\ {LogLength, MaxLosses} \subseteq Nat

VARIABLES
    run,        \* each run: unasked, running or over
    log,        \* the lines of each run's log so far
    expired, silent,
    pod,        \* each pod's shutdown, follow and starts
    follow,     \* each follow's thread
    losses      \* losses spent

outside == <<run, log>>
ages == <<expired, silent>>
vars == <<outside, fileVars, ages, pod, follow, losses>>

----------------------------------------------------------------------------
FreshPod ==
    [leaving |-> FALSE,     \* Actioner._leaving
     following |-> 0,       \* Actioner._following
     letGo |-> 0,           \* the follow the shutdown is letting go of
     start |-> 0,           \* the run a start has asked for and not held yet
     claimed |-> Unheld]    \* the follow it claimed for it

Thread(p, c, at, offset) ==
    [at |-> at, pod |-> p, call |-> c, next |-> offset, released |-> FALSE]

Init ==
    /\ HoldInit
    /\ run = [c \in Calls |-> "unasked"]
    /\ log = [c \in Calls |-> 0]
    /\ expired = FALSE /\ silent = FALSE
    /\ pod = [p \in Pods |-> FreshPod]
    /\ follow = [f \in Follows |-> [Thread(0, 0, "none", 0) EXCEPT !.released = TRUE]]
    /\ losses = 0

Live == Holding /\ ~expired

FreeFollows == {f \in Follows : follow[f].at = "none"}
NextFollow == CHOOSE f \in FreeFollows : TRUE

\* Actioner._claim: a follow of the pod's, the one it replaces released; none
\* once the pod has left its follows.
CanClaim(p) == ~pod[p].leaving /\ FreeFollows # {}
Claim(p, c, at, offset) ==
    follow' = [f \in Follows |->
        IF f = NextFollow THEN Thread(p, c, at, offset)
        ELSE IF f = pod[p].following THEN [follow[f] EXCEPT !.released = TRUE]
        ELSE follow[f]]

----------------------------------------------------------------------------
(* What the starts and the webhook do to a follow.                         *)

\* The controller accepts a start, which claims the run's follow.  (A start the
\* controller could not name the sessions before takes the run with no follow.)
StartClaims(p, c) ==
    /\ run[c] = "unasked"
    /\ pod[p].start = 0
    /\ run' = [run EXCEPT ![c] = "running"]
    /\ \/ /\ CanClaim(p)
          /\ Claim(p, c, "claimed", 0)
          /\ pod' = [pod EXCEPT ![p].start = c, ![p].claimed = NextFollow,
                                ![p].following = NextFollow]
       \/ /\ pod[p].leaving
          /\ pod' = [pod EXCEPT ![p].start = c]
          /\ UNCHANGED follow
    /\ UNCHANGED <<log, fileVars, ages, losses>>

\* Hold.take, and the follow's thread.
StartTakes(p) ==
    /\ pod[p].start # 0
    /\ LET by == <<"start", p>>
           f == pod[p].claimed IN
       \/ Enter(by) /\ UNCHANGED <<ages, pod, follow>>
       \/ /\ Write(by, LAMBDA x : TakeHold(x, pod[p].start, Followed(f, FALSE, 0)))
          /\ expired' = FALSE /\ silent' = FALSE
          /\ pod' = [pod EXCEPT ![p].start = 0, ![p].claimed = Unheld]
          /\ follow' = IF f = Unheld THEN follow ELSE [follow EXCEPT ![f].at = "search"]
    /\ UNCHANGED <<outside, losses>>

\* The webhook of a run that is over releases the hold, if it names the run.
HookReleases(c) ==
    /\ run[c] = "over"
    /\ LET by == <<"hook", c>> IN
         \/ file.held.run = c /\ Enter(by)
         \/ Write(by, LAMBDA x : ReleaseHold(x, c, NoFailure))
    /\ UNCHANGED <<outside, ages, pod, follow, losses>>

RunLogs(c) ==
    /\ run[c] = "running" /\ log[c] < LogLength
    /\ log' = [log EXCEPT ![c] = @ + 1]
    /\ UNCHANGED <<run, fileVars, ages, pod, follow, losses>>

RunEnds(c) ==
    /\ run[c] = "running"
    /\ run' = [run EXCEPT ![c] = "over"]
    /\ UNCHANGED <<log, fileVars, ages, pod, follow, losses>>

Expire ==
    /\ Live
    /\ expired' = TRUE
    /\ UNCHANGED <<outside, fileVars, silent, pod, follow, losses>>

\* TAKEOVER passes without a heartbeat, the follow's thread gone or its writes
\* refused by the volume.
FallsSilent ==
    /\ Live /\ file.held.follow.by \in Follows /\ ~silent
    /\ silent' = TRUE
    /\ UNCHANGED <<outside, fileVars, expired, pod, follow, losses>>

----------------------------------------------------------------------------
(* A follow's thread.                                                      *)

By(f) == <<"follow", follow[f].pod, f>>
Beat(f) == <<"beat", follow[f].pod, f>>
AtWork(f) == follow[f].at \in {"search", "read", "line"}
HasIt(f, x) == HoldsFollow(x, follow[f].call, f)

\* Actioner._live, read with no turn.
GoesOn(f) == ~follow[f].released /\ Live /\ HasIt(f, file)

\* The thread goes on to `at`; as its work is over it sets `released`.
Moved(f, at, next) ==
    [follow[f] EXCEPT !.at = at, !.next = next, !.released = @ \/ at \in {"ended", "failed"}]
Goes(f, at) == follow' = [follow EXCEPT ![f] = Moved(f, at, @.next)]

\* A write of the thread's, Hold.update or add_line, which ends the follow
\* where the hold is no longer its run's or its own.
FollowWrites(f, at, next, Op(_)) ==
    /\ Write(By(f), Op)
    /\ follow' = [follow EXCEPT ![f] =
         IF HasIt(f, Loaded(By(f))) THEN Moved(f, at, next) ELSE Moved(f, "ended", @.next)]

\* Actioner._search finds the run's session at work, by elimination, and
\* records it.
FollowFinds(f) ==
    /\ follow[f].at = "search"
    /\ LET c == follow[f].call IN
       \/ GoesOn(f) /\ run[c] = "running" /\ Enter(By(f)) /\ UNCHANGED follow
       \/ FollowWrites(f, "read", follow[f].next, LAMBDA x :
                UpdateFollow(x, c, f, [x.held.follow EXCEPT !.found = TRUE]))
    /\ UNCHANGED <<outside, ages, pod, losses>>

\* Actioner._read: the stream's next line while the follow goes on.
FollowReads(f) ==
    /\ follow[f].at = "read" /\ GoesOn(f) /\ ~HasTurn(By(f))
    /\ follow[f].next < log[follow[f].call]
    /\ Goes(f, "line")
    /\ UNCHANGED <<outside, fileVars, ages, pod, losses>>

\* The line is kept with the offset after it.
FollowKeepsLine(f) ==
    /\ follow[f].at = "line"
    /\ LET line == follow[f].next + 1 IN
       \/ Enter(By(f)) /\ UNCHANGED follow
       \/ FollowWrites(f, "read", line, LAMBDA x : AddLine(x, follow[f].call, f, line))
    /\ UNCHANGED <<outside, ages, pod, losses>>

\* The stream's result, or the session gone: Actioner._over.
FollowIsOver(f) ==
    /\ follow[f].at = "read"
    /\ LET c == follow[f].call IN
       \/ run[c] = "over" /\ Enter(By(f)) /\ UNCHANGED follow
       \/ FollowWrites(f, "ended", follow[f].next, LAMBDA x : UpdateFollow(x, c, f, NoFollow))
    /\ UNCHANGED <<outside, ages, pod, losses>>

\* It is released or no longer the held run's.
FollowStops(f) ==
    /\ follow[f].at \in {"search", "read"} /\ ~GoesOn(f) /\ ~HasTurn(By(f))
    /\ Goes(f, "ended")
    /\ UNCHANGED <<outside, fileVars, ages, pod, losses>>

\* Anything else it meets fails it: the volume, a line it cannot read.
FollowFails(f) ==
    /\ AtWork(f) /\ ~HasTurn(By(f))
    /\ losses < MaxLosses
    /\ losses' = losses + 1
    /\ Goes(f, "failed")
    /\ UNCHANGED <<outside, fileVars, ages, pod>>

\* Mutant: a follow that ends leaves the hold to Actioner.release alone.
FollowEndsOnly(f) ==
    /\ follow[f].at \in {"ended", "failed"} /\ ~HasTurn(Beat(f))
    /\ LET p == follow[f].pod IN
         /\ Goes(f, IF follow[f].at = "failed" \/ pod[p].following # f THEN "lost" ELSE "done")
         /\ pod' = [pod EXCEPT ![p].following = IF @ = f THEN 0 ELSE @]
    /\ UNCHANGED <<outside, fileVars, ages, losses>>

\* Actioner._run's end, its heartbeat joined: one whose pod has left its
\* follows by then leaves the run's follow to the other pod.
FollowEnds(f) ==
    /\ follow[f].at \in {"ended", "failed"} /\ ~HasTurn(Beat(f))
    /\ LET p == follow[f].pod IN
         /\ Goes(f, IF pod[p].leaving THEN "leave"
                    ELSE IF follow[f].at = "failed" \/ pod[p].following # f THEN "lost"
                    ELSE "done")
         /\ pod' = [pod EXCEPT ![p].following = IF @ = f THEN 0 ELSE @]
    /\ UNCHANGED <<outside, fileVars, ages, losses>>

\* Actioner._leave, the write.
LeaveFollow(by, f) ==
    Write(by, LAMBDA x :
        UpdateFollow(x, follow[f].call, f, [x.held.follow EXCEPT !.by = Unheld]))

FollowLeaves(f) ==
    /\ follow[f].at = "leave"
    /\ \/ Enter(By(f)) /\ UNCHANGED follow
       \/ LeaveFollow(By(f), f) /\ Goes(f, "done")
    /\ UNCHANGED <<outside, ages, pod, losses>>

\* Actioner._beat: a heartbeat of a follow not released.  (One that changes no
\* age and meets no other follow is left out.)
FollowBeats(f) ==
    /\ \/ /\ silent /\ ~follow[f].released
          /\ AtWork(f)
          /\ Enter(Beat(f))
          /\ UNCHANGED <<silent, follow>>
       \/ LET has == HasIt(f, Loaded(Beat(f))) IN
          /\ Write(Beat(f), LAMBDA x : x)
          /\ silent' = (silent /\ ~has)
          /\ follow' = [follow EXCEPT ![f].released = @ \/ ~has]
    /\ UNCHANGED <<outside, expired, pod, losses>>

----------------------------------------------------------------------------
(* Takeover and shutdown.                                                  *)

\* Whether a read finds a follow to take over.
Takeable(x) ==
    /\ x.held.run # 0 /\ ~expired
    /\ x.held.follow.by = Unheld \/ (x.held.follow.by \in Follows /\ silent)

\* Actioner._take_over, at a read of the actioner's state: the follow no
\* follow holds goes on from its record.  (A turn that finds none writes what
\* it loaded; those a read begins on such a hold are left out.)
PageTakesOver(p) ==
    /\ LET by == <<"page", p>> IN
       \/ Takeable(file) /\ CanClaim(p) /\ Enter(by) /\ UNCHANGED <<silent, pod, follow>>
       \/ /\ HasTurn(by)
          /\ Takeable(Loaded(by)) /\ CanClaim(p)
          /\ Write(by, LAMBDA x : [x EXCEPT !.held.follow.by = NextFollow])
          /\ silent' = FALSE
          /\ pod' = [pod EXCEPT ![p].following = NextFollow]
          /\ LET held == Loaded(by).held IN
               Claim(p, held.run, IF held.follow.found THEN "read" ELSE "search",
                     held.follow.offset)
       \/ /\ HasTurn(by)
          /\ ~(Takeable(Loaded(by)) /\ CanClaim(p))
          /\ Write(by, LAMBDA x : x)
          /\ UNCHANGED <<silent, pod, follow>>
    /\ UNCHANGED <<outside, expired, losses>>

\* Actioner.release: the shutdown is announced, the pod's follow let go of.
Announce(p) ==
    /\ p \in Retiring /\ ~pod[p].leaving
    /\ pod' = [pod EXCEPT ![p].leaving = TRUE, ![p].letGo = pod[p].following]
    /\ follow' = [f \in Follows |->
         IF f = pod[p].following THEN [follow[f] EXCEPT !.released = TRUE] ELSE follow[f]]
    /\ UNCHANGED <<outside, fileVars, ages, losses>>

LetsGo(p) ==
    /\ pod[p].letGo # 0
    /\ LET by == <<"letgo", p>> IN
       \/ Enter(by) /\ UNCHANGED pod
       \/ LeaveFollow(by, pod[p].letGo) /\ pod' = [pod EXCEPT ![p].letGo = 0]
    /\ UNCHANGED <<outside, ages, follow, losses>>

\* The pod's process ends and another starts in its place.
Die(p) ==
    /\ losses < MaxLosses
    /\ losses' = losses + 1
    /\ pod' = [pod EXCEPT ![p] = FreshPod]
    /\ follow' = [f \in Follows |->
         IF follow[f].pod = p THEN [follow[f] EXCEPT !.at = "lost", !.released = TRUE]
         ELSE follow[f]]
    /\ Dropped(({"start", "letgo", "page"} \X {p}) \cup ({"follow", "beat"} \X {p} \X Follows))
    /\ UNCHANGED <<outside, ages>>

----------------------------------------------------------------------------
FollowSteps(f) ==
    \/ FollowFinds(f) \/ FollowReads(f) \/ FollowKeepsLine(f) \/ FollowIsOver(f)
    \/ FollowStops(f) \/ FollowFails(f) \/ FollowEnds(f) \/ FollowLeaves(f) \/ FollowBeats(f)

Next ==
    \/ \E p \in Pods, c \in Calls : StartClaims(p, c)
    \/ \E p \in Pods :
         StartTakes(p) \/ PageTakesOver(p) \/ Announce(p) \/ LetsGo(p) \/ Die(p)
    \/ \E c \in Calls : HookReleases(c) \/ RunLogs(c) \/ RunEnds(c)
    \/ \E f \in Follows : FollowSteps(f)
    \/ Expire \/ FallsSilent

Spec == Init /\ [][Next]_vars

----------------------------------------------------------------------------
(* Correctness.                                                            *)

PodRecords ==
    [leaving : BOOLEAN, following : Follows \cup {0}, letGo : Follows \cup {0},
     start : Calls \cup {0}, claimed : Follows \cup {Unheld}]
Threads ==
    [at : {"none", "claimed", "search", "read", "line", "ended", "failed", "leave", "done", "lost"},
     pod : Pods \cup {0}, call : Calls \cup {0}, next : Nat, released : BOOLEAN]
\* Every variable has the shape its code has.
TypeOK ==
    /\ HoldTypeOK
    /\ run \in [Calls -> {"unasked", "running", "over"}] /\ log \in [Calls -> 0..LogLength]
    /\ expired \in BOOLEAN /\ silent \in BOOLEAN /\ losses \in Nat
    /\ pod \in [Pods -> PodRecords] /\ follow \in [Follows -> Threads]

\* The lines held are the last of the run's log, in order, each once, up to the
\* offset the next read begins at, through every takeover.
LinesAreTheLog ==
    LET held == file.held
        last == IF held.lines = << >> THEN 0 ELSE held.lines[Len(held.lines)] IN
    /\ held.lines = [k \in 1..Len(held.lines) |-> last - Len(held.lines) + k]
    /\ Len(held.lines) = IF last > TurnLines THEN TurnLines ELSE last
    /\ held.run # 0 => last <= log[held.run]
    /\ held.follow # NoFollow => held.follow.offset = last

\* A pod that has left its follows holds none: a live run's follow is the other
\* pod's to take over at once, whatever was under way as the shutdown came.  (A
\* follow that failed, whose pod died or that its pod's next one replaced is
\* taken over once it is silent.)
LeavesItsFollows ==
    \A p \in Pods, f \in Follows :
        /\ pod[p].leaving /\ follow[f].pod = p
        /\ \/ follow[f].at = "done"
           \/ AtWork(f) /\ ~follow[f].released
        => ~(Live /\ file.held.follow.by = f)
=============================================================================
