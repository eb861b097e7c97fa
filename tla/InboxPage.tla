----------------------------- MODULE InboxPage -----------------------------
(***************************************************************************)
(* The inbox screen: the sitting it fetches, the writes whose replies it   *)
(* sets in its place (frontend/src/hooks/use-inbox.ts), and the turn's     *)
(* task it follows over the task channel, whose buffer is replayed on each *)
(* subscribe (frontend/src/hooks/use-sse-task.ts).  The API is what        *)
(* InboxSitting shows of it: a turn's line is in the file before it is     *)
(* sent, and a turn taken over goes on under a new task.                   *)
(***************************************************************************)
EXTENDS Integers, Sequences, FiniteSets

CONSTANTS
    MaxTasks, MaxLines,     \* bound: the turns' tasks, and their lines
    MaxFetches,             \* bound: what the page is given, and fetches begun
    MaxLost                 \* bound: events and replies that do not arrive

ASSUME PageAssumption ==
    MaxTasks \in Nat \ {0} /\ {MaxLines, MaxFetches, MaxLost} \subseteq Nat

VARIABLES
    api,            \* the sitting's file: its revision, its turn's task and lines
    newest,         \* the newest task
    ended,          \* the tasks that have ended
    toSend,         \* an event to send, its file being written
    channel,        \* the events on their way
    data,           \* the query's data, and `at`, its dataUpdatedAt
    query,          \* the query's fetch in flight
    write,          \* the write in flight
    turnDue,        \* the data's turn has changed and its effect has not run
    followed, finished, heard,          \* useInbox's refs, and the lines said since
    subscribed,     \* useSSETask's listener, by its task
    buffer,         \* taskEventBuffer
    missed,
    settles,        \* history: the settles of each task
    told,           \* history: the newest revision a write's reply has told
    crossing        \* history: the lines on their way as a fetch was answered

apiVars == <<api, newest, ended, toSend, channel>>
taskVars == <<followed, finished, heard, subscribed, buffer, settles>>
inboxPageVars == <<apiVars, data, query, write, turnDue, taskVars, missed, told, crossing>>

Tasks == 1 .. MaxTasks
NoTask == 0
NoTurn(rev) == [rev |-> rev, task |-> NoTask, lines |-> << >>]
NoQuery == [at |-> "none", state |-> NoTurn(0)]
NoWrite == [at |-> "none", kind |-> "none", state |-> NoTurn(0)]
NoEvent == [task |-> NoTask, line |-> 0]
NoneHeard == [task |-> NoTask, fetched |-> 0, lines |-> << >>]
TaskEnd == 0        \* the event of a task's end, for a line

\* The page opens on a sitting with a turn in flight or none.
InboxPageInit ==
    /\ newest \in {NoTask, 1} /\ ended = {}
    /\ api = [rev |-> 1, task |-> newest, lines |-> << >>]
    /\ toSend = NoEvent /\ channel = << >>
    /\ data = [state |-> NoTurn(0), at |-> 0]
    /\ query = [NoQuery EXCEPT !.at = "asked"] /\ write = NoWrite
    /\ turnDue = FALSE /\ followed = NoTask /\ finished = {} /\ heard = NoneHeard
    /\ subscribed = NoTask /\ buffer = << >>
    /\ missed = 0 /\ settles = [t \in Tasks |-> 0] /\ told = 0 /\ crossing = {}

-----------------------------------------------------------------------------
(* The API. *)

LineCount == Len(api.lines)

Following == toSend = NoEvent /\ api.task # NoTask /\ api.task \notin ended
EndsTask ==
    /\ toSend' = [task |-> api.task, line |-> TaskEnd]
    /\ ended' = ended \cup {api.task}

\* A line is written to the file, and then its event is sent.
Says ==
    /\ Following /\ LineCount < MaxLines
    /\ api' = [api EXCEPT !.rev = @ + 1, !.lines = Append(@, LineCount + 1)]
    /\ toSend' = [task |-> api.task, line |-> LineCount + 1]
    /\ UNCHANGED <<newest, ended, channel, data, query, write, turnDue, taskVars, missed, told,
                   crossing>>

\* The turn's reply or its loss is in the file, and then its task ends.
TurnIsOver ==
    /\ Following
    /\ api' = NoTurn(api.rev + 1)
    /\ EndsTask
    /\ UNCHANGED <<newest, channel, data, query, write, turnDue, taskVars, missed, told, crossing>>

\* The pod leaves: the task ends, and the file still names it.
PodLeaves ==
    /\ Following
    /\ EndsTask
    /\ UNCHANGED <<api, newest, channel, data, query, write, turnDue, taskVars, missed, told,
                   crossing>>

\* The turn goes on under a new task; the former one may be at work yet.
TakenOver ==
    /\ toSend = NoEvent /\ api.task # NoTask /\ newest < MaxTasks
    /\ newest' = newest + 1
    /\ api' = [api EXCEPT !.rev = @ + 1, !.task = newest + 1]
    /\ \/ api.task \notin ended /\ EndsTask
       \/ UNCHANGED <<toSend, ended>>
    /\ UNCHANGED <<channel, data, query, write, turnDue, taskVars, missed, told, crossing>>

Sends ==
    /\ toSend # NoEvent
    /\ channel' = Append(channel, toSend)
    /\ toSend' = NoEvent
    /\ UNCHANGED <<api, newest, ended, data, query, write, turnDue, taskVars, missed, told,
                   crossing>>

\* The page's stream is broken, or another pod's: the event is not heard.
EventLost ==
    /\ channel # << >> /\ missed < MaxLost
    /\ channel' = Tail(channel)
    /\ missed' = missed + 1
    /\ UNCHANGED <<api, newest, ended, toSend, data, query, write, turnDue, taskVars, told,
                   crossing>>

-----------------------------------------------------------------------------
(* The query and the writes. *)

\* The page is given a state: the effect of its turn runs after it is rendered.
Given(state) ==
    /\ data.at < MaxFetches
    /\ data' = [state |-> state, at |-> data.at + 1]
    /\ turnDue' = (turnDue \/ <<state.task, state.lines>> # <<data.state.task, data.state.lines>>)

Asked == [NoQuery EXCEPT !.at = "asked"]

\* refetchInterval: only while the page shows a turn.
TimerFetches ==
    /\ data.state.task # NoTask /\ query.at = "none"
    /\ query' = Asked
    /\ UNCHANGED <<apiVars, data, write, turnDue, taskVars, missed, told, crossing>>

OnTheWay ==
    {channel[i].line : i \in DOMAIN channel} \cup IF toSend = NoEvent THEN {} ELSE {toSend.line}

QueryServed ==
    /\ query.at = "asked"
    /\ query' = [at |-> "served", state |-> api]
    /\ crossing' = crossing \cup OnTheWay
    /\ UNCHANGED <<apiVars, data, write, turnDue, taskVars, missed, told>>

QueryArrives ==
    /\ query.at = "served"
    /\ Given(query.state)
    /\ query' = NoQuery
    /\ UNCHANGED <<apiVars, write, taskVars, missed, told, crossing>>

QueryFails ==
    /\ query.at # "none" /\ missed < MaxLost
    /\ missed' = missed + 1
    /\ query' = NoQuery
    /\ UNCHANGED <<apiVars, data, write, turnDue, taskVars, told, crossing>>

\* Start or Send, which take a turn's task, and End; one at a time, by `busy`.
OperatorActs ==
    /\ write.at = "none" /\ data.at > 0
    /\ \E kind \in {"turn", "end"} :
        /\ kind = "turn" => data.state.task = NoTask
        /\ write' = [NoWrite EXCEPT !.at = "asked", !.kind = kind]
    /\ UNCHANGED <<apiVars, data, query, turnDue, taskVars, missed, told, crossing>>

Taken(state) == write' = [write EXCEPT !.at = "taken", !.state = state]

WriteReaches ==
    /\ write.at = "asked" /\ toSend = NoEvent
    /\ \/ /\ write.kind = "turn" /\ api.task = NoTask /\ newest < MaxTasks
          /\ newest' = newest + 1
          /\ api' = [rev |-> api.rev + 1, task |-> newest + 1, lines |-> << >>]
          /\ Taken(api')
          /\ UNCHANGED <<toSend, ended>>
       \/ /\ write.kind = "turn" /\ api.task # NoTask
          /\ write' = [write EXCEPT !.at = "refused"]
          /\ UNCHANGED <<api, newest, ended, toSend>>
       \/ /\ write.kind = "end"
          /\ api' = NoTurn(api.rev + 1)
          /\ Taken(api')
          /\ IF api.task \in ended \cup {NoTask} THEN UNCHANGED <<toSend, ended>> ELSE EndsTask
          /\ UNCHANGED newest
    /\ UNCHANGED <<channel, data, query, turnDue, taskVars, missed, told, crossing>>

\* The fetch in flight is cancelled and the reply's state, or End's none, set.
WriteSets ==
    /\ write.at = "taken"
    /\ Given(write.state)
    /\ told' = write.state.rev
    /\ write' = NoWrite
    /\ UNCHANGED <<apiVars, taskVars, missed, crossing>>

\* Mutant: a fetch in flight goes on.
WriteHeardBesideFetch == WriteSets /\ UNCHANGED query

WriteHeard == WriteSets /\ query' = NoQuery

\* A refusal fetches again; no answer at all does not.
WriteRefused ==
    /\ write.at = "refused"
    /\ write' = NoWrite
    /\ query' = Asked
    /\ UNCHANGED <<apiVars, data, turnDue, taskVars, missed, told, crossing>>

WriteUnheard ==
    /\ write.at \in {"asked", "taken"} /\ missed < MaxLost
    /\ missed' = missed + 1
    /\ write' = NoWrite
    /\ UNCHANGED <<apiVars, data, query, turnDue, taskVars, told, crossing>>

-----------------------------------------------------------------------------
(* The task the page follows. *)

\* Mutant: the page follows the task again while the sitting names it.
SettledOnly ==
    /\ UNCHANGED finished
    /\ settles' = [settles EXCEPT ![followed] = @ + 1]
    /\ followed' = NoTask
    /\ query' = Asked

\* settle: the task is finished with, and the sitting fetched again.
TaskSettled ==
    /\ finished' = finished \cup {followed}
    /\ settles' = [settles EXCEPT ![followed] = @ + 1]
    /\ followed' = NoTask
    /\ query' = Asked

Buffered(t) == SelectSeq(buffer, LAMBDA e : e.task = t)
EndIsBuffered(t) == \E i \in DOMAIN buffer : buffer[i] = [task |-> t, line |-> TaskEnd]

SaidSince(lines, e) ==
    [task |-> e.task, fetched |-> data.at,
     lines |-> (IF lines.task = e.task /\ lines.fetched = data.at THEN lines.lines ELSE << >>)
               \o <<e.line>>]

\* Mutant: a replayed line is shown as one said since the fetch.
ReplaysLines(t) ==
    /\ subscribed' = t /\ followed' = t
    /\ heard' = IF Buffered(t) = << >> THEN heard ELSE SaidSince(heard, Buffered(t)[1])
    /\ UNCHANGED <<finished, settles, query>>

\* subscribeToTask replays what is buffered, whose lines the fetch holds; the listener
\* is added after it, the end replayed or not.
Replays(t) ==
    /\ subscribed' = t
    /\ UNCHANGED heard
    /\ IF EndIsBuffered(t)
       THEN /\ finished' = finished \cup {t}
            /\ settles' = [settles EXCEPT ![t] = @ + 1]
            /\ followed' = NoTask
            /\ query' = Asked
       ELSE /\ followed' = t
            /\ UNCHANGED <<finished, settles, query>>

\* The effect of `turn`.
FollowsTask ==
    /\ turnDue
    /\ turnDue' = FALSE
    /\ LET t == data.state.task IN
       IF t # NoTask /\ followed # t /\ t \notin finished THEN Replays(t)
       ELSE /\ IF t = NoTask /\ followed # NoTask
               THEN followed' = NoTask /\ subscribed' = NoTask
               ELSE UNCHANGED <<followed, subscribed>>
            /\ UNCHANGED <<finished, heard, settles, query>>
    /\ UNCHANGED <<apiVars, data, write, buffer, missed, told, crossing>>

\* onProgress, for the task the data names and the page follows.
Progresses(e) ==
    heard' = IF data.state.task = e.task /\ followed = e.task THEN SaidSince(heard, e) ELSE heard

\* An event is buffered, what is ten seconds old dropped, and taken in by the listener.
EventArrives ==
    /\ channel # << >>
    /\ channel' = Tail(channel)
    /\ LET e == Head(channel) IN
       /\ \E old \in {{}, Tasks} :
            buffer' = Append(SelectSeq(buffer, LAMBDA b : b.task \notin old), e)
       /\ IF e.task = subscribed /\ e.line = TaskEnd
          THEN /\ subscribed' = NoTask
               /\ IF followed # NoTask THEN TaskSettled
                  ELSE query' = Asked /\ UNCHANGED <<finished, settles, followed>>
               /\ UNCHANGED heard
          ELSE /\ IF e.task = subscribed THEN Progresses(e) ELSE UNCHANGED heard
               /\ UNCHANGED <<subscribed, followed, finished, settles, query>>
    /\ UNCHANGED <<api, newest, ended, toSend, data, write, turnDue, missed, told, crossing>>

ApiSteps == Says \/ TurnIsOver \/ PodLeaves \/ TakenOver \/ Sends \/ EventLost
QuerySteps == TimerFetches \/ QueryServed \/ QueryArrives \/ QueryFails
PageWrites == OperatorActs \/ WriteReaches \/ WriteHeard \/ WriteRefused \/ WriteUnheard
InboxPageNext == ApiSteps \/ QuerySteps \/ PageWrites \/ FollowsTask \/ EventArrives
InboxPageSpec == InboxPageInit /\ [][InboxPageNext]_inboxPageVars

-----------------------------------------------------------------------------
(* What the operator relies on. *)

Lines ==
    data.state.lines \o IF heard.task = data.state.task /\ heard.fetched = data.at
                        THEN heard.lines ELSE << >>

\* What the channel replays on a subscribe adds nothing: a task's end is settled once,
\* where a page that follows it again would end it and fetch again in a loop; and a line is
\* shown twice only if it was on its way as the sitting was fetched.
ReplayAddsNothing ==
    /\ \A t \in Tasks : settles[t] <= 1
    /\ data.state.task # NoTask => \A i, j \in DOMAIN Lines :
        i # j /\ Lines[i] = Lines[j] => Lines[i] \in crossing

\* Once a write's reply is shown no fetch puts the sitting back to what it was before.
WritesStand == data.at > 0 => data.state.rev >= told
=============================================================================
