---------------------------- MODULE InboxSitting ----------------------------
(***************************************************************************)
(* The inbox sitting, backend/app/fieldnotes/inbox.py: one sitting in a    *)
(* file on the volume both pods mount, the operator's requests, the        *)
(* follows that take its turn in flight to the session's reply, each pod's *)
(* sweep, its shutdown, and the closing of what a sitting held.  A change  *)
(* of the file is one step: its writers take turns on a flock.  Each call  *)
(* of the KubeCoder controller is a step of its own; the environments and  *)
(* their sessions are external.  Any time may pass between two steps: a    *)
(* sitting may rest at any moment, and a turn whose follow is over has had *)
(* no heartbeat for TAKEOVER.                                              *)
(***************************************************************************)
EXTENDS Integers, Sequences, FiniteSets

CONSTANTS
    Pods,
    Retiring,       \* the pods a rollout shuts down
    Follows,        \* the follows' ids
    Envs,           \* the project's environments
    Found,          \* what they may be at first, running or stopped
    Sessions,       \* bound: the sessions that may be created, by number
    MaxMessages,    \* bound: the messages the operator sends, prompts included
    Turn,           \* what a turn logs: TRUE a message, FALSE a line
    MaxFaults       \* bound: pods retired or dead, calls that fail, sessions that go

ASSUME FollowsAssumption == Follows \subseteq Nat \ {0}
ASSUME SessionsAssumption == Sessions \subseteq Nat \ {0}
ASSUME FoundAssumption == Found \subseteq {"running", "stopped"}
ASSUME TurnAssumption == Turn \in Seq(BOOLEAN)
ASSUME BoundsAssumption == {MaxMessages, MaxFaults} \subseteq Nat

VARIABLES
    file,           \* the sitting's file
    pod,            \* each pod's shutdown
    follow,         \* each follow's thread
    closing,        \* what is being closed
    env, session,   \* the controller's environments and their sessions
    coming,         \* the environments a start was asked for and not settled
    sent,           \* the operator's messages so far
    strays,         \* history: sessions no one can know of, or left behind
    crossed,        \* history: a turn ended with a second send of it on its way
    faults          \* faults spent

outside == <<env, session, coming, crossed>>
vars == <<file, pod, follow, closing, outside, sent, strays, faults>>

None == 0

----------------------------------------------------------------------------
(* The sitting's file.                                                     *)

\* A text is a message of the operator's, or a line of a session's log.
Operator(m) == [author |-> "operator", said |-> << <<None, m>> >>]
Answer(said) == [author |-> "session", said |-> said]

\* Sitting: `turn` a turn in flight, `said` its messages read so far, `by` the
\* follow holding it.
Begun(m, f) ==
    [id |-> m, status |-> "starting", env |-> None, started |-> FALSE,
     session |-> None, conversation |-> FALSE, offset |-> 0, turns |-> 0,
     turn |-> TRUE, said |-> << >>, by |-> f, transcript |-> <<Operator(m)>>]
NoSitting ==
    [Begun(0, None) EXCEPT !.status = "idle", !.turn = FALSE, !.transcript = << >>]

Held == file.id # 0
Live == Held /\ file.status # "lost"

\* Mutant: a write checks the sitting alone.
HoldsSitting(f) == file.id = follow[f].id /\ file.turn

\* SittingFile.update: the sitting it was made for, and the follow holding its
\* turn.
Holds(f) == file.id = follow[f].id /\ file.by = f

\* The first follow not begun yet; a follow holds what it last saw of the file.
FreeFollows == {f \in Follows : follow[f].at = "none"}
NextFollow == CHOOSE f \in FreeFollows : \A g \in FreeFollows : f <= g
Thread(p, at, id, unsent) ==
    [at |-> at, pod |-> p, id |-> id, mine |-> NoSitting, unsent |-> unsent,
     resumed |-> FALSE, released |-> FALSE, why |-> "none", got |-> None]
Over(t) == Thread(None, "over", 0, FALSE)
AtWork(f) == follow[f].at \notin {"none", "begin", "over"}
Ends(f) == follow' = [follow EXCEPT ![f] = Over(@)]
Goes(f, at) == follow' = [follow EXCEPT ![f].at = at]

----------------------------------------------------------------------------
(* What is being closed: Inbox._close.                                     *)

\* A lost sitting's session is not ended; its environment is stopped where the
\* API started it.
ToClose(x, by, stop) ==
    LET name == IF x.status = "lost" THEN None ELSE x.session
        stops == stop /\ x.started
    IN IF x.env = None \/ (name = None /\ ~stops) THEN {}
       ELSE {[by |-> by, env |-> x.env, session |-> name, stop |-> stops,
              at |-> IF name = None THEN "list" ELSE "end"]}

\* A lost sitting's own session, where it is not gone, is no one's once closed.
LeftBehind(x) == IF x.status = "lost" /\ x.session # None THEN {x.session} ELSE {}

InEnv(e) == {s \in Sessions : session[s].env = e}
Running(s) == session[s].at \in {"idle", "busy"}

\* Sessions whose turn is over, a send still on its way to one at a turn: of the
\* message it took, by a follow that has not heard so.
Crosses(S) ==
    crossed' = (crossed \/ \E f \in Follows :
        /\ follow[f].at = "send" /\ follow[f].mine.session \in S
        /\ session[follow[f].mine.session].at = "busy")

\* The worker's sessions end.
Gone(S) ==
    /\ session' = [s \in Sessions |->
         IF s \in S /\ Running(s) THEN [session[s] EXCEPT !.at = "gone"] ELSE session[s]]
    /\ Crosses(S)

CloseEnds(j) ==
    /\ j.at = "end"
    /\ Gone({j.session})
    /\ closing' = (closing \ {j}) \cup (IF j.stop THEN {[j EXCEPT !.at = "list"]} ELSE {})
    /\ UNCHANGED <<file, pod, follow, env, coming, sent, strays, faults>>

\* An environment another session works in stays running.
CloseLists(j) ==
    /\ j.at = "list"
    /\ LET working == {s \in InEnv(j.env) \ {j.session} : session[s].at = "busy"} IN
       closing' = (closing \ {j})
                    \cup (IF working = {} THEN {[j EXCEPT !.at = "stop"]} ELSE {})
    /\ UNCHANGED <<file, pod, follow, outside, sent, strays, faults>>

CloseStops(j) ==
    /\ j.at = "stop"
    /\ closing' = closing \ {j}
    /\ env' = [env EXCEPT ![j.env] = IF @ = "error" THEN @ ELSE "stopped"]
    /\ coming' = IF env[j.env] = "starting" THEN coming \ {j.env} ELSE coming
    /\ Gone(InEnv(j.env))
    /\ UNCHANGED <<file, pod, follow, sent, strays, faults>>

\* A call that fails, or the pod's death, leaves its work behind.
CloseFails(j) ==
    /\ faults < MaxFaults
    /\ faults' = faults + 1
    /\ closing' = closing \ {j}
    /\ strays' = strays \cup (IF j.at = "end" THEN {j.session} ELSE {})
    /\ UNCHANGED <<file, pod, follow, outside, sent>>

----------------------------------------------------------------------------
(* The operator's requests, and each pod's sweep.                          *)

FreshPod == [refusing |-> FALSE, stopped |-> FALSE, leave |-> {}]

\* A turn begun by a request: its follow's task, which a task service that is
\* shutting down refuses.
BeginsTurn(p, x) ==
    /\ ~pod[p].refusing /\ FreeFollows # {} /\ sent < MaxMessages
    /\ file' = x
    /\ follow' = [follow EXCEPT ![NextFollow] = Thread(p, "begin", x.id, TRUE)]
    /\ sent' = sent + 1
    /\ UNCHANGED <<pod, closing, outside, strays, faults>>

\* Inbox.start, the sitting begun; a live one is answered as it is.
Start(p) == ~Held /\ BeginsTurn(p, Begun(sent + 1, NextFollow))

\* Inbox.send, refused while a turn is in flight or with no live sitting.
Send(p) ==
    /\ Live /\ ~file.turn
    /\ BeginsTurn(p, [file EXCEPT !.status = "busy", !.turn = TRUE, !.by = NextFollow,
                                  !.transcript = Append(@, Operator(sent + 1))])

\* The file is cleared, and what the sitting held closed.
Clears ==
    /\ file' = NoSitting
    /\ closing' = closing \cup ToClose(file, None, TRUE)
    /\ strays' = strays \cup LeftBehind(file)
    /\ UNCHANGED <<pod, follow, outside, sent, faults>>

\* Inbox.start, which clears a lost sitting before it begins its own.
StartClears == file.status = "lost" /\ Clears

\* Inbox.end.
End == Held /\ Clears

\* Mutant: a sitting at rest keeps what is closed.
RestKeeps ==
    /\ Held /\ ~file.turn
    /\ file.started \/ (Live /\ file.session # None)
    /\ closing' = closing \cup ToClose(file, None, TRUE)
    /\ UNCHANGED <<file, pod, follow, outside, sent, strays, faults>>

\* Inbox.rest: what the sitting holds is dropped from the file, then closed.
Rest ==
    /\ Held /\ ~file.turn
    /\ file.started \/ (Live /\ file.session # None)
    /\ file' = [file EXCEPT !.session = None, !.started = FALSE]
    /\ closing' = closing \cup ToClose(file, None, TRUE)
    /\ strays' = strays \cup LeftBehind(file)
    /\ UNCHANGED <<pod, follow, outside, sent, faults>>

\* A turn no follow holds, or whose heartbeat has stopped: its thread is over, or
\* the volume refuses its heartbeats.
Takeable ==
    /\ file.turn
    /\ IF file.by = None \/ follow[file.by].at = "over" THEN UNCHANGED faults
       ELSE faults < MaxFaults /\ faults' = faults + 1

\* Mutant: only a turn its pod left is taken over.
TakeOverLeft(p) ==
    /\ file.turn /\ file.by = None
    /\ ~pod[p].refusing /\ FreeFollows # {}
    /\ file' = [file EXCEPT !.by = NextFollow]
    /\ follow' = [follow EXCEPT ![NextFollow] = Thread(p, "begin", file.id, FALSE)]
    /\ UNCHANGED <<pod, closing, outside, sent, strays, faults>>

\* Inbox._take_over, on a read or a sweep.
TakeOver(p) ==
    /\ Takeable
    /\ ~pod[p].refusing /\ FreeFollows # {}
    /\ file' = [file EXCEPT !.by = NextFollow]
    /\ follow' = [follow EXCEPT ![NextFollow] = Thread(p, "begin", file.id, FALSE)]
    /\ UNCHANGED <<pod, closing, outside, sent, strays>>

----------------------------------------------------------------------------
(* A follow's thread: Inbox.run.                                           *)

\* Inbox._leave: the turn it holds is held by no follow.
Left(f) == IF Holds(f) THEN [file EXCEPT !.by = None] ELSE file

\* The step of _advance the sitting and the follow come to.
Advance(x, t) ==
    IF x.env = None THEN "pick"
    ELSE IF x.session = None THEN (IF Len(x.transcript) > 1 THEN "ready"
                                   ELSE IF x.started THEN "start" ELSE "creating")
    ELSE IF t.unsent THEN "send" ELSE "taken"

\* Inbox._write: x written while the follow holds the turn, and the follow at
\* its next step; what the file loses makes it stop, or first undo.
Writes(f, x, t) ==
    /\ IF Holds(f)
       THEN /\ file' = x
            /\ follow' = [follow EXCEPT ![f] =
                   IF t.at = "over" THEN t ELSE [t EXCEPT !.mine = x]]
       ELSE Ends(f) /\ UNCHANGED file
    /\ UNCHANGED <<pod, closing, outside, sent, strays, faults>>

\* Its first step; a follow that begins once its pod has stopped leaves at once.
FollowBegins(f) ==
    /\ follow[f].at = "begin"
    /\ IF pod[follow[f].pod].stopped
       THEN /\ file' = Left(f) /\ Ends(f)
            /\ UNCHANGED <<pod, closing, outside, sent, strays, faults>>
       ELSE Writes(f, file, [follow[f] EXCEPT !.at = Advance(file, follow[f])])

\* The controller answers a call the follow made, and the follow goes on.
Hears(f, t) ==
    /\ follow' = [follow EXCEPT ![f] = t]
    /\ UNCHANGED <<file, pod, closing, outside, sent, strays, faults>>

Fails(t, why) == [t EXCEPT !.at = "failed", !.why = why, !.got = None]
Loses(t) == Fails(t, "lost")

\* Inbox._pick: a running environment of the project, else a stopped one.
FollowPicks(f) ==
    /\ follow[f].at = "pick"
    /\ LET t == follow[f]
           Of(status) == {e \in Envs : env[e] = status} IN
       IF Of("running") # {}
       THEN \E e \in Of("running") : Hears(f, [t EXCEPT !.at = "picked", !.got = e])
       ELSE IF Of("stopped") # {}
       THEN \E e \in Of("stopped") : Hears(f, [t EXCEPT !.at = "pickedStopped", !.got = e])
       ELSE Hears(f, Loses(t))

\* The sitting records the one it took, and that it is to start it.
FollowTakes(f) ==
    /\ follow[f].at \in {"picked", "pickedStopped"}
    /\ LET x == [file EXCEPT !.env = follow[f].got,
                             !.started = follow[f].at = "pickedStopped"]
           t == [follow[f] EXCEPT !.got = None]
       IN Writes(f, x, [t EXCEPT !.at = Advance(x, t)])

\* Inbox._ready: a session past the first turn resumes the conversation, in the
\* sitting's own environment.
FollowReadies(f) ==
    /\ follow[f].at = "ready"
    /\ LET t == follow[f]
           status == env[t.mine.env] IN
       Hears(f, IF ~t.mine.conversation \/ status = "error" THEN Loses(t)
                ELSE IF status = "stopped" THEN [t EXCEPT !.at = "restart"]
                ELSE IF status = "starting" THEN Fails(t, "again")
                ELSE [t EXCEPT !.at = IF t.mine.started THEN "start" ELSE "creating"])

FollowRestarts(f) ==
    /\ follow[f].at = "restart"
    /\ Writes(f, [file EXCEPT !.started = TRUE], [follow[f] EXCEPT !.at = "start"])

\* HttpController.start, off the follow's thread.
FollowStarts(f) ==
    /\ follow[f].at = "start"
    /\ coming' = coming \cup {follow[f].mine.env}
    /\ Goes(f, "coming")
    /\ UNCHANGED <<file, pod, closing, env, session, crossed, sent, strays, faults>>

FollowHearsStart(f) ==
    /\ follow[f].at = "coming" /\ ~follow[f].released
    /\ follow[f].mine.env \notin coming
    /\ Hears(f, IF env[follow[f].mine.env] = "running" THEN [follow[f] EXCEPT !.at = "creating"]
                ELSE Loses(follow[f]))

\* Released, it stops where it stands, waiting for an environment it starts or
\* for the stream's next event.
FollowStops(f) ==
    /\ follow[f].at \in {"coming", "stream"} /\ follow[f].released
    /\ Ends(f)
    /\ UNCHANGED <<file, pod, closing, outside, sent, strays, faults>>

\* The step before the session is created; a turn no longer the follow's is
\* undone.
FollowIsCreating(f) ==
    /\ follow[f].at = "creating"
    /\ IF Holds(f) THEN Writes(f, file, [follow[f] EXCEPT !.at = "create"])
       ELSE Hears(f, [follow[f] EXCEPT !.at = "abandon"])

----------------------------------------------------------------------------
(* The session and its turn.                                               *)

NewSession(e) == [at |-> "idle", env |-> e, log |-> << >>, turns |-> 0, took |-> << >>]
NoSession == [NewSession(None) EXCEPT !.at = "none"]
FreeSessions == {s \in Sessions : session[s].at = "none"}
NextSession == CHOOSE s \in FreeSessions : \A r \in FreeSessions : s <= r

\* HttpController.create, in an environment that runs; its answer may be lost.
FollowCreates(f) ==
    /\ follow[f].at = "create"
    /\ LET t == follow[f] IN
       \/ /\ env[t.mine.env] # "running"
          /\ Hears(f, Fails(t, "lost"))
       \/ /\ env[t.mine.env] = "running" /\ FreeSessions # {}
          /\ session' = [session EXCEPT ![NextSession] = NewSession(t.mine.env)]
          /\ \/ /\ follow' = [follow EXCEPT ![f].at = "record", ![f].got = NextSession,
                                            ![f].unsent = TRUE]
                /\ UNCHANGED <<strays, faults>>
             \/ /\ faults < MaxFaults /\ faults' = faults + 1
                /\ strays' = strays \cup {NextSession}
                /\ follow' = [follow EXCEPT ![f] = Fails(t, "again")]
          /\ UNCHANGED <<file, pod, closing, env, coming, crossed, sent>>

\* Mutant: a session it could not record is left.
FollowRecordsOrStops(f) ==
    /\ follow[f].at = "record"
    /\ LET t == [follow[f] EXCEPT !.got = None]
           x == [file EXCEPT !.session = follow[f].got, !.offset = 0, !.turns = 0]
       IN Writes(f, x, [t EXCEPT !.at = "send"])

\* The session in the sitting, its log and turns counted from the start.
FollowRecords(f) ==
    /\ follow[f].at = "record"
    /\ LET t == [follow[f] EXCEPT !.got = None]
           x == [file EXCEPT !.session = follow[f].got, !.offset = 0, !.turns = 0]
       IN IF Holds(f) THEN Writes(f, x, [t EXCEPT !.at = "send"])
          ELSE Hears(f, [follow[f] EXCEPT !.at = "abandon"])

\* Inbox._abandon: the session it made ended, and the environment the sitting
\* started stopped where the sitting is gone.
FollowAbandons(f) ==
    /\ follow[f].at = "abandon"
    /\ LET t == follow[f]
           made == [t.mine EXCEPT !.session = t.got]
       IN closing' = closing \cup ToClose(made, f, file.id # t.id)
    /\ Ends(f)
    /\ UNCHANGED <<file, pod, outside, sent, strays, faults>>

Its(f) == session[follow[f].mine.session]
LastMessage(x) == x.transcript[Len(x.transcript)].said[1][2]

\* A Start's sitting is busy once the session has its first turn.
IsSent(t) == IF t.mine.status = "starting" THEN "isBusy" ELSE "stream"

\* Mutant: a turn past the transcript's last is not looked for.
FollowAsksIfBusy(f) ==
    /\ follow[f].at = "taken"
    /\ Hears(f, IF Its(f).at = "gone" THEN Fails(follow[f], "lost")
                ELSE [follow[f] EXCEPT !.at =
                        IF Its(f).at = "busy" THEN IsSent(follow[f]) ELSE "send"])

\* Inbox._taken: whether the session has taken the sitting's last message.
FollowAsks(f) ==
    /\ follow[f].at = "taken"
    /\ LET t == follow[f]
           taken == Its(f).at = "busy" \/ Its(f).turns > t.mine.turns
       IN Hears(f, IF Its(f).at = "gone" THEN Fails(t, "lost")
                   ELSE [t EXCEPT !.at = IF taken THEN IsSent(t) ELSE "send"])

\* HttpController.send: a session with a turn in flight refuses it, and one that
\* is gone is resumed, once a follow and past the first message; its answer may
\* be lost.
FollowSends(f) ==
    /\ follow[f].at = "send"
    /\ LET t == follow[f]
           s == t.mine.session IN
       \/ /\ session[s].at = "gone"
          /\ Hears(f, IF t.resumed \/ Len(t.mine.transcript) < 2 THEN Fails(t, "lost")
                      ELSE [t EXCEPT !.at = "resume", !.resumed = TRUE])
       \/ session[s].at = "busy" /\ Hears(f, Fails(t, "again"))
       \/ /\ session[s].at = "idle"
          /\ session' = [session EXCEPT ![s].at = "busy",
                                        ![s].took = Append(@, LastMessage(t.mine))]
          /\ \/ /\ follow' = [follow EXCEPT ![f].at = IsSent(t), ![f].unsent = FALSE]
                /\ UNCHANGED faults
             \/ /\ faults < MaxFaults /\ faults' = faults + 1
                /\ follow' = [follow EXCEPT ![f] = Fails(t, "again")]
          /\ UNCHANGED <<file, pod, closing, env, coming, crossed, sent, strays>>

\* Inbox._resume: the session the send found gone is dropped from the file.
FollowResumes(f) ==
    /\ follow[f].at = "resume"
    /\ LET x == [file EXCEPT !.session = None]
       IN Writes(f, x, [follow[f] EXCEPT !.at = Advance(x, follow[f])])

FollowMarksBusy(f) ==
    /\ follow[f].at = "isBusy"
    /\ Writes(f, [file EXCEPT !.status = "busy"], [follow[f] EXCEPT !.at = "stream"])

\* Inbox._hear, and the step of a log line: the offset past the item `next`, and
\* a message of the turn kept with the turn.
Kept(x, s, next) ==
    LET item == session[s].log[next] IN
    [x EXCEPT !.said = IF item.message /\ item.turn = x.turns + 1
                       THEN Append(@, <<s, next>>) ELSE @,
              !.offset = next]

\* Inbox._follow: the stream's next event.
FollowReads(f) ==
    /\ follow[f].at = "stream" /\ ~follow[f].released
    /\ LET t == follow[f]
           next == t.mine.offset + 1 IN
       \/ Its(f).at = "gone" /\ Hears(f, Fails(t, "lost"))
       \/ /\ Running(t.mine.session) /\ next <= Len(Its(f).log)
          /\ Writes(f, Kept(file, t.mine.session, next), t)
       \/ /\ Its(f).at = "idle" /\ next > Len(Its(f).log)
          /\ Hears(f, [t EXCEPT !.at = "answer", !.got = Its(f).turns])

\* The turn's reply: its messages (the result's text, where they do not say it,
\* is left out), and the conversation as the session names it.
FollowAnswers(f) ==
    /\ follow[f].at = "answer"
    /\ LET t == follow[f]
           x == [file EXCEPT !.status = "idle", !.turns = t.got, !.turn = FALSE,
                             !.by = None, !.said = << >>,
                             !.conversation = @ \/ Running(t.mine.session),
                             !.transcript = Append(@, Answer(file.said))]
       IN Writes(f, x, Over(t))

\* What run does of a call that failed: a loss or a refusal loses the sitting,
\* its turn given no reply (Inbox._lose); anything else is tried again.
FollowCatches(f) ==
    /\ follow[f].at = "failed"
    /\ LET t == [follow[f] EXCEPT !.unsent = FALSE, !.why = "none"] IN
       IF follow[f].why # "again"
       THEN Writes(f, [file EXCEPT !.status = "lost", !.turn = FALSE, !.by = None,
                                   !.said = << >>], Over(t))
       ELSE IF t.released
       THEN Ends(f) /\ UNCHANGED <<file, pod, closing, outside, sent, strays, faults>>
       ELSE Writes(f, file, [t EXCEPT !.at = Advance(file, t)])

\* A call fails with no effect: the controller out of reach, or refusing it.
CallFails(f) ==
    /\ follow[f].at \in {"pick", "ready", "start", "create", "taken", "send", "stream",
                         "answer"}
    /\ faults < MaxFaults /\ faults' = faults + 1
    /\ \E why \in {"again", "refused"} : follow' = [follow EXCEPT ![f] = Fails(@, why)]
    /\ UNCHANGED <<file, pod, closing, outside, sent, strays>>

\* The thread ends on what it does not catch: the volume refuses its write.
FollowFails(f) ==
    /\ AtWork(f)
    /\ faults < MaxFaults /\ faults' = faults + 1
    /\ strays' = strays \cup (IF follow[f].at \in {"record", "abandon"}
                              THEN {follow[f].got} \ {None} ELSE {})
    /\ Ends(f)
    /\ UNCHANGED <<file, pod, closing, outside, sent>>

\* Inbox._beat, on a thread of its own: a sitting no longer its own releases it,
\* which it minds where it waits.
FollowBeats(f) ==
    /\ follow[f].at \in {"coming", "stream", "failed"} /\ ~follow[f].released
    /\ ~Holds(f)
    /\ follow' = [follow EXCEPT ![f].released = TRUE]
    /\ UNCHANGED <<file, pod, closing, outside, sent, strays, faults>>

FollowSteps(f) ==
    \/ FollowBegins(f) \/ FollowPicks(f) \/ FollowTakes(f)
    \/ FollowReadies(f) \/ FollowRestarts(f) \/ FollowStarts(f) \/ FollowHearsStart(f)
    \/ FollowStops(f) \/ FollowIsCreating(f) \/ FollowCreates(f) \/ FollowRecords(f)
    \/ FollowAbandons(f) \/ FollowAsks(f) \/ FollowSends(f) \/ FollowResumes(f)
    \/ FollowMarksBusy(f) \/ FollowReads(f) \/ FollowAnswers(f)
    \/ FollowCatches(f)

----------------------------------------------------------------------------
(* A pod's shutdown and death.                                             *)

\* The task service takes no task once the shutdown is announced.
TasksRefuse(p) ==
    /\ p \in Retiring /\ ~pod[p].refusing
    /\ faults < MaxFaults /\ faults' = faults + 1
    /\ pod' = [pod EXCEPT ![p].refusing = TRUE]
    /\ UNCHANGED <<file, follow, closing, outside, sent, strays>>

\* Inbox.stop, told of it next: the pod's follows are let go of.
Stop(p) ==
    /\ pod[p].refusing /\ ~pod[p].stopped
    /\ pod' = [pod EXCEPT ![p].stopped = TRUE,
                          ![p].leave = {f \in Follows : follow[f].pod = p /\ AtWork(f)}]
    /\ UNCHANGED <<file, follow, closing, outside, sent, strays, faults>>

Leaves(p) ==
    /\ \E f \in pod[p].leave :
        /\ pod' = [pod EXCEPT ![p].leave = @ \ {f}]
        /\ file' = Left(f)
        /\ follow' = [follow EXCEPT ![f].released = TRUE]
    /\ UNCHANGED <<closing, outside, sent, strays, faults>>

\* The process ends, with its threads, and another starts in its place.
Dies(p) ==
    /\ faults < MaxFaults /\ faults' = faults + 1
    /\ LET its == {f \in Follows : follow[f].pod = p}
           made == {f \in its : follow[f].at \in {"record", "abandon"}} IN
       /\ strays' = strays \cup ({follow[f].got : f \in made} \ {None})
       /\ follow' = [f \in Follows |-> IF f \in its THEN Over(follow[f]) ELSE follow[f]]
    /\ pod' = [pod EXCEPT ![p] = FreshPod]
    /\ UNCHANGED <<file, closing, outside, sent>>

----------------------------------------------------------------------------
(* The controller's side (external).                                       *)

\* A start reaches the controller; an environment on its way up comes up, or
\* does not.
StartLands(e) ==
    /\ e \in coming
    /\ \/ /\ env[e] = "stopped" /\ env' = [env EXCEPT ![e] = "starting"]
          /\ UNCHANGED <<coming, faults>>
       \/ env[e] \in {"running", "error"} /\ coming' = coming \ {e} /\ UNCHANGED <<env, faults>>
       \/ /\ env[e] = "starting" /\ coming' = coming \ {e}
          /\ \/ env' = [env EXCEPT ![e] = "running"] /\ UNCHANGED faults
             \/ /\ faults < MaxFaults /\ faults' = faults + 1
                /\ env' = [env EXCEPT ![e] = "error"]
    /\ UNCHANGED <<file, pod, follow, closing, session, crossed, sent, strays>>

\* Another caller stops an environment, and its sessions with it.
EnvStops(e) ==
    /\ env[e] = "running"
    /\ faults < MaxFaults /\ faults' = faults + 1
    /\ env' = [env EXCEPT ![e] = "stopped"]
    /\ Gone(InEnv(e))
    /\ UNCHANGED <<file, pod, follow, closing, coming, sent, strays>>

\* The worker reaps a session, or restarts under it.
SessionGoes(s) ==
    /\ Running(s)
    /\ faults < MaxFaults /\ faults' = faults + 1
    /\ Gone({s})
    /\ UNCHANGED <<file, pod, follow, closing, env, coming, sent, strays>>

Logged(s) ==
    Cardinality({i \in 1..Len(session[s].log) : session[s].log[i].turn > session[s].turns})

SessionWrites(s) ==
    /\ session[s].at = "busy" /\ Logged(s) + 1 < Len(Turn)
    /\ session' = [session EXCEPT
         ![s].log = Append(@, [turn |-> session[s].turns + 1, message |-> Turn[Logged(s) + 1]])]
    /\ UNCHANGED <<file, pod, follow, closing, env, coming, crossed, sent, strays, faults>>

\* The last of a turn comes with its result.
SessionFinishes(s) ==
    /\ session[s].at = "busy" /\ Logged(s) + 1 = Len(Turn)
    /\ Crosses({s})
    /\ session' = [session EXCEPT ![s].at = "idle", ![s].turns = @ + 1,
         ![s].log = Append(@, [turn |-> session[s].turns + 1, message |-> Turn[Len(Turn)]])]
    /\ UNCHANGED <<file, pod, follow, closing, env, coming, sent, strays, faults>>

----------------------------------------------------------------------------
Init ==
    /\ file = NoSitting
    /\ pod = [p \in Pods |-> FreshPod]
    /\ follow = [f \in Follows |-> Thread(None, "none", 0, FALSE)]
    /\ closing = {}
    /\ env \in [Envs -> Found]
    /\ session = [s \in Sessions |-> NoSession]
    /\ coming = {}
    /\ crossed = FALSE
    /\ sent = 0 /\ strays = {} /\ faults = 0

CloseSteps == \E j \in closing : CloseEnds(j) \/ CloseLists(j) \/ CloseStops(j)

Next ==
    \/ \E p \in Pods :
         \/ Start(p) \/ Send(p) \/ TakeOver(p)
         \/ TasksRefuse(p) \/ Stop(p) \/ Leaves(p) \/ Dies(p)
    \/ StartClears \/ End \/ Rest
    \/ \E f \in Follows : FollowSteps(f) \/ CallFails(f) \/ FollowFails(f) \/ FollowBeats(f)
    \/ CloseSteps \/ \E j \in closing : CloseFails(j)
    \/ \E e \in Envs : StartLands(e) \/ EnvStops(e)
    \/ \E s \in Sessions : SessionGoes(s) \/ SessionWrites(s) \/ SessionFinishes(s)

Spec == Init /\ [][Next]_vars

\* Threads are scheduled, the sweep's timer goes on, calls are answered and
\* turns end.
Fairness ==
    /\ \A f \in Follows : WF_vars(FollowSteps(f)) /\ WF_vars(FollowBeats(f))
    /\ WF_vars(\E p \in Pods : TakeOver(p) /\ UNCHANGED faults)
    /\ WF_vars(\E p \in Pods : Leaves(p))
    /\ WF_vars(CloseSteps)
    /\ \A e \in Envs : WF_vars(StartLands(e))
    /\ \A s \in Sessions : WF_vars(SessionWrites(s) \/ SessionFinishes(s))

FairSpec == Spec /\ Fairness

----------------------------------------------------------------------------
(* Correctness.                                                            *)

\* The turns of sessions that took a message.
Takes(m) ==
    UNION {{s} \X {n \in DOMAIN session[s].took : session[s].took[n] = m} : s \in Sessions}

\* The messages of a session's turn that its log holds up to a line of it, each
\* once and in stream order.
IsSaid(said, s, turn, last) ==
    LET log == session[s].log IN
    /\ \A i, j \in DOMAIN said : i < j => said[i][2] < said[j][2]
    /\ {said[i] : i \in DOMAIN said} =
           {<<s, i>> : i \in {i \in 1..last : log[i].turn = turn /\ log[i].message}}

\* "A message the session has not taken is sent, once" (inbox.py's module
\* docstring).  The code does not keep it: a follow whose send is late, its turn
\* taken over meanwhile, sends what the session took from its taker again.
SentOnce == \A m \in 1..sent : Cardinality(Takes(m)) <= 1

\* Through takeovers, lost answers, retries and resumes a message is two turns of
\* the conversation only once a session's turn ended, or the session went, with
\* another send of its message still on its way there.
SentTwiceOnlyCrossed == crossed \/ SentOnce

\* The reply "lands once, with every message of the turn in it once"
\* (docs/rest-api.md:422): each reply of the transcript is what the session
\* said in the turn that took the message before it, unless a turn ended with
\* another send of its message still on its way.
ReplyIsWhole ==
    crossed \/ \A n \in 1..Len(file.transcript) :
        LET entry == file.transcript[n] IN
        entry.author = "session" =>
            /\ n > 1 /\ file.transcript[n - 1].author = "operator"
            /\ \E t \in Takes(file.transcript[n - 1].said[1][2]) :
                   IsSaid(entry.said, t[1], t[2], Len(session[t[1]].log))

\* A session the API created runs only while the file names it, its follow is
\* about to record or undo it, or it is being closed: but for one whose
\* creation was never answered or whose close failed, and a lost sitting's.
SessionsAreOwned ==
    \A s \in Sessions \ strays : Running(s) =>
        \/ file.session = s
        \/ \E j \in closing : j.session = s
        \/ \E f \in Follows : follow[f].at \in {"record", "abandon"} /\ follow[f].got = s

\* "So it is closed once" (Inbox.rest): what is being closed is closed by one
\* closer, and the file, the sitting at rest included, no longer names it.
ClosedOnce ==
    \A j, k \in closing : j.session # None =>
        j.session # file.session /\ (k.session = j.session => k = j)

\* A turn in flight comes to a reply, to the sitting's loss or to its end,
\* whichever pod dies or leaves.
TurnEnds ==
    \A m \in 1..MaxMessages :
        (file.turn /\ LastMessage(file) = m) ~> ~(file.turn /\ LastMessage(file) = m)

Texts == (Sessions \cup {None}) \X Nat
Sittings ==
    [id : 0..MaxMessages, status : {"starting", "busy", "idle", "lost"},
     env : Envs \cup {None}, started : BOOLEAN, session : Sessions \cup {None},
     conversation : BOOLEAN, offset : Nat, turns : Nat, turn : BOOLEAN,
     said : Seq(Texts), by : Follows \cup {None},
     transcript : Seq([author : {"operator", "session"}, said : Seq(Texts)])]

\* Every variable has the shape its code has; a turn held is in flight, and a
\* follow takes no turn it was not begun for.
TypeOK ==
    /\ file \in Sittings
    /\ pod \in [Pods -> [refusing : BOOLEAN, stopped : BOOLEAN, leave : SUBSET Follows]]
    /\ \A f \in Follows :
         /\ follow[f].mine \in Sittings
         /\ follow[f].id \in 0..MaxMessages
         /\ file.by = f => file.turn /\ follow[f].at # "none"
         /\ file.by = f /\ AtWork(f) => follow[f].id = file.id
    /\ \A j \in closing : j.env \in Envs /\ j.session \in Sessions \cup {None}
    /\ env \in [Envs -> {"running", "stopped", "starting", "error"}]
    /\ \A s \in Sessions : session[s].at \in {"none", "idle", "busy", "gone"}
    /\ coming \subseteq Envs /\ crossed \in BOOLEAN
    /\ strays \subseteq Sessions
    /\ sent \in 0..MaxMessages
    /\ faults \in 0..MaxFaults
=============================================================================
