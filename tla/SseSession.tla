----------------------------- MODULE SseSession -----------------------------
(***************************************************************************)
(* One browser and its event stream: the tabs' context                     *)
(* (frontend/src/contexts/sse-context-provider.tsx), the SharedWorker that *)
(* holds the one EventSource for all of them                               *)
(* (frontend/src/workers/sse-worker.ts), the streams it opens in the       *)
(* backend (SseStreams) and the gate they pass (AuthGate).  The worker and *)
(* each tab are single-threaded: a handler is one step.  What the worker   *)
(* and a tab post to each other, what a stream has written and what the    *)
(* backend answers arrive in order, and any time later.                    *)
(***************************************************************************)
EXTENDS SseStreams, AuthGate

CONSTANTS
    Tabs,
    Rotates,        \* whether the provider gives a new refresh token at a refresh
    MaxWaiting,     \* bound: the messages a tab has not heard yet
    MaxFaults       \* bound: what goes wrong, what the user does, and the events

ASSUME RotatesAssumption == Rotates \subseteq BOOLEAN /\ Rotates # {}
ASSUME TabsAssumption == Tabs # {} /\ {MaxWaiting, MaxFaults} \subseteq Nat

VARIABLES
    request,        \* each stream's request: cookies, and the answer not read
    worker,         \* the SharedWorker
    tab,            \* each tab's document
    faults,         \* faults spent
    failed,         \* history: the gate failed a request it should have passed
    over            \* history: the session ended, or the browser lost its token

browserVars == <<serverVars, authVars, request, worker, tab, faults, failed>>
vars == <<browserVars, over>>

NoRequest == [with |-> NoCookies, set |-> Keep, wire |-> << >>]

(***************************************************************************)
(* The worker: the ports of its tabs, DeadPort one whose tab is gone       *)
(* unsaid; its EventSource, none, on a stream, waiting to repeat its       *)
(* request, or failed; its request ID, its retry timer, readyReceived and  *)
(* rejectedTerminal.                                                       *)
(***************************************************************************)
DeadPort == "dead"
NoWorker ==
    [ports |-> {}, source |-> "none", stream |-> None, id |-> None, timer |-> FALSE,
     ready |-> FALSE, rejected |-> FALSE]

\* A tab: away, here, or off to log in; what it has to hear from the worker and
\* what it has said to it; the session probe under way.
NoProbe == [at |-> "none", with |-> NoCookies, set |-> Keep, found |-> "none"]
Away(at) ==
    [at |-> at, connected |-> FALSE, lost |-> FALSE, probe |-> NoProbe,
     hears |-> << >>, says |-> << >>]

Init ==
    /\ ServerInit /\ AuthInit /\ failed = FALSE /\ over = FALSE
    /\ request = [c \in Streams |-> NoRequest]
    /\ worker = NoWorker
    /\ tab = [t \in Tabs |-> Away("away")]
    /\ faults = 0

Spends == faults < MaxFaults /\ faults' = faults + 1
Fault == Spends /\ UNCHANGED failed
NoFault == UNCHANGED <<faults, failed>>

----------------------------------------------------------------------------
(* The worker's functions.                                                 *)

\* createEventSource closes the source it has, and keeps the ID it has.
UsedIds == {stream[c].id : c \in Streams} \cup {id \in Ids : registry[id] # None}
NewId == CHOOSE id \in Ids \ UsedIds : \A other \in Ids \ UsedIds : id <= other

\* A slot for the stream: none that the worker still reads.
FreeSlots == {c \in Streams : Free(c) /\ c # worker.stream}
Slot == CHOOSE c \in FreeSlots : \A d \in FreeSlots : c <= d

\* A source that is closed: what was not read is lost, and the backend finds out
\* only when it writes to it.
Abandoned(c) ==
    IF c # None /\ stream[c].at # "over" THEN [stream EXCEPT ![c].gone = TRUE] ELSE stream
Unread(c) ==
    IF c = None THEN request
    ELSE [request EXCEPT ![c] = [NoRequest EXCEPT !.with = request[c].with]]

\* Mutant: the source it has is left open.
OpensBeside(w) ==
    /\ FreeSlots # {} /\ (w.id # None \/ Ids \ UsedIds # {})
    /\ LET id == IF w.id # None THEN w.id ELSE NewId IN
       /\ stream' = [stream EXCEPT ![Slot] = Asked(id)]
       /\ request' = [request EXCEPT ![Slot] = [NoRequest EXCEPT !.with = jar]]
       /\ worker' = [w EXCEPT !.source = "on", !.stream = Slot, !.id = id, !.ready = FALSE]

Opens(w) ==
    /\ FreeSlots # {} /\ (w.id # None \/ Ids \ UsedIds # {})
    /\ LET id == IF w.id # None THEN w.id ELSE NewId IN
       /\ stream' = [Abandoned(worker.stream) EXCEPT ![Slot] = Asked(id)]
       /\ request' = [Unread(worker.stream) EXCEPT ![Slot] = [NoRequest EXCEPT !.with = jar]]
       /\ worker' = [w EXCEPT !.source = "on", !.stream = Slot, !.id = id, !.ready = FALSE]

\* closeConnection.
Closed(w) ==
    [w EXCEPT !.source = "none", !.stream = None, !.id = None, !.timer = FALSE, !.ready = FALSE]

\* A port's tab hears a message, unless it has let go of that port.
Hearing(t) == tab[t].at = "here" /\ \A i \in DOMAIN tab[t].says : tab[t].says[i] # "disconnect"
Told(ports, m) ==
    [t \in Tabs |-> IF t \in ports /\ Hearing(t) THEN [tab[t] EXCEPT !.hears = Append(@, m)]
                    ELSE tab[t]]

\* onerror: every tab is told and, while there are ports, a retry is scheduled.
Broken(w, source) ==
    IF w.ports = {} THEN Closed(w)
    ELSE [w EXCEPT !.source = source, !.stream = None, !.timer = TRUE]

----------------------------------------------------------------------------
(* The worker's handlers.                                                  *)

\* The worker reads what its stream wrote; the answer's head comes with the first
\* of it, and sets the cookies.
Item == Head(request[worker.stream].wire)
Reads ==
    /\ worker.source = "on" /\ request[worker.stream].wire # << >>
    /\ \A t \in Tabs : Len(tab[t].hears) < MaxWaiting
    /\ request' = IF Item = "rejected" THEN Unread(worker.stream)
                  ELSE [request EXCEPT ![worker.stream].wire = Tail(@),
                                       ![worker.stream].set = Keep]
    /\ jar' = Applied(request[worker.stream].set)
    /\ UNCHANGED <<registry, shutting, ending, sends, events, idp>> /\ NoFault

ReadsReady ==
    /\ Reads /\ Item = "ready"
    /\ worker' = [worker EXCEPT !.ready = TRUE]
    /\ tab' = Told(worker.ports, "connected")
    /\ UNCHANGED stream

ReadsEvent ==
    /\ Reads /\ Item = "event"
    /\ tab' = Told(worker.ports, "event")
    /\ UNCHANGED <<stream, worker>>

\* A refused stream: closed, and not retried until a tab says so.
ReadsRejected ==
    /\ Reads /\ Item = "rejected"
    /\ worker' = [Closed(worker) EXCEPT !.rejected = TRUE]
    /\ tab' = Told(worker.ports, "rejected")
    /\ stream' = Abandoned(worker.stream)

\* The stream ended, or its request failed: the browser repeats the one by itself
\* and gives up on the other.
ReadsEnd ==
    /\ Reads /\ Item \in {"end", "401"}
    /\ worker' = Broken(worker, IF Item = "end" THEN "again" ELSE "failed")
    /\ tab' = Told(worker.ports, "error")
    /\ UNCHANGED stream

OnlyOpens == UNCHANGED <<registry, shutting, ending, sends, events, authVars>> /\ NoFault

\* The browser's own retry, of the same request.
Repeats ==
    /\ worker.source = "again"
    /\ FreeSlots # {}
    /\ stream' = [stream EXCEPT ![Slot] = Asked(worker.id)]
    /\ request' = [request EXCEPT ![Slot] = [NoRequest EXCEPT !.with = jar]]
    /\ worker' = [worker EXCEPT !.source = "on", !.stream = Slot]
    /\ UNCHANGED tab /\ OnlyOpens

\* scheduleReconnect's timer, which the browser's own retry does not stop.
TimerFires ==
    /\ worker.timer
    /\ IF worker.ports # {} THEN Opens([worker EXCEPT !.timer = FALSE])
       ELSE worker' = [worker EXCEPT !.timer = FALSE] /\ UNCHANGED <<stream, request>>
    /\ UNCHANGED tab /\ OnlyOpens

Says(t, m) == tab[t].says # << >> /\ Head(tab[t].says) = m
Heard(t) == [tab EXCEPT ![t].says = Tail(@)]

\* handleConnect: the port, a stream if there is no source, and for a tab that
\* joins a ready one `connected`.
HandleConnect(t) ==
    LET ports == worker.ports \cup {IF tab[t].at = "here" THEN t ELSE DeadPort} IN
    /\ Says(t, "connect")
    /\ IF worker.source = "none"
       THEN Opens([worker EXCEPT !.ports = ports, !.rejected = FALSE]) /\ tab' = Heard(t)
       ELSE /\ worker' = [worker EXCEPT !.ports = ports]
            /\ tab' = IF worker.ready /\ tab[t].at = "here"
                      THEN [Heard(t) EXCEPT ![t].hears = Append(@, "connected")] ELSE Heard(t)
            /\ UNCHANGED <<stream, request>>
    /\ OnlyOpens

\* handleReconnect: a fresh stream, under a new ID.
HandleReconnect(t) ==
    /\ Says(t, "reconnect")
    /\ Opens([Closed(worker) EXCEPT !.rejected = FALSE])
    /\ tab' = Heard(t)
    /\ OnlyOpens

\* handleDisconnect: the last tab's closes the stream.
HandleDisconnect(t) ==
    LET ports == worker.ports \ {t} IN
    /\ Says(t, "disconnect")
    /\ worker' = IF ports = {} THEN [Closed(worker) EXCEPT !.ports = ports]
                 ELSE [worker EXCEPT !.ports = ports]
    /\ stream' = IF ports = {} THEN Abandoned(worker.stream) ELSE stream
    /\ request' = IF ports = {} THEN Unread(worker.stream) ELSE request
    /\ tab' = Heard(t)
    /\ OnlyOpens

WorkerSteps ==
    \/ ReadsReady \/ ReadsEvent \/ ReadsRejected \/ ReadsEnd \/ TimerFires
    \/ \E t \in Tabs : HandleConnect(t) \/ HandleReconnect(t) \/ HandleDisconnect(t)

----------------------------------------------------------------------------
(* The backend's steps, with what they write to the browser.               *)

Written(c, items) ==
    request' = [request EXCEPT ![c].wire = IF stream[c].gone THEN @ ELSE @ \o items]
BackendOnly == UNCHANGED <<worker, tab, authVars>> /\ NoFault
ServerOnly == UNCHANGED request /\ BackendOnly

\* What the provider's refresh gives these cookies: the same refresh token or a new
\* one, the browser's other requests then refused with the one before.
NewToken(rotated) == IF rotated THEN idp.last + 1 ELSE idp.session
Tokens(with) == IF Refreshed(with) THEN {NewToken(rotated) : rotated \in Rotates} ELSE {idp.session}

\* stream(): the gate's answer for the request, tolerant as the route is public,
\* and the refusal told in the stream.
Admits(c, answer, token) ==
    /\ stream[c].at = "asked" /\ Gives(token)
    /\ request' = IF stream[c].gone /\ c # worker.stream THEN [request EXCEPT ![c] = NoRequest]
                  ELSE IF stream[c].gone THEN request
                  ELSE [request EXCEPT ![c].with = NoCookies, ![c].set = answer.set,
                                       ![c].wire = CASE answer.who = "served" -> << >>
                                                     [] answer.who = "failed" -> <<"401">>
                                                     [] OTHER -> <<"rejected", "end">>]
    /\ IF answer.who = "served" THEN Register(c)
       ELSE /\ stream' = [stream EXCEPT ![c] = Over]
            /\ UNCHANGED <<registry, shutting, ending, sends, events>>
    /\ UNCHANGED <<worker, tab, jar>>

\* A request the browser gave up on may still come, and after the one it made
\* since under the same ID, or not come at all.
Overtaken(c) == stream[c].gone /\ worker.stream # None /\ registry[stream[c].id] = worker.stream
Admitted(c) ==
    /\ \E token \in Tokens(request[c].with) : Admits(c, Gate(request[c].with, token), token)
    /\ IF Overtaken(c) THEN Fault ELSE NoFault
Aborted(c) ==
    /\ stream[c].at = "asked" /\ stream[c].gone
    /\ stream' = [stream EXCEPT ![c] = Over]
    /\ UNCHANGED <<registry, shutting, ending, sends, events>> /\ ServerOnly

BackendSteps(c) ==
    \/ Admitted(c) \/ Aborted(c)
    \/ CloseReplaced(c) /\ ServerOnly
    \/ Starts(c) /\ Written(c, <<"ready">>) /\ BackendOnly
    \/ Writes(c) /\ Written(c, <<"event">>) /\ BackendOnly
    \/ Leave(c) /\ Written(c, <<"end">>) /\ BackendOnly
    \/ Close(c) /\ ServerOnly

\* The next process serves once none of the old one's streams is registered.
NextProcess ==
    /\ shutting /\ ending = {} /\ sends = {} /\ Registered = {}
    /\ shutting' = FALSE
    /\ UNCHANGED <<stream, registry, ending, sends, events>> /\ ServerOnly

----------------------------------------------------------------------------
(* The tabs.                                                               *)

TabOnly == UNCHANGED <<serverVars, request, worker>>

\* createSharedWorkerConnection, when the tab opens.
TabOpens(t) ==
    /\ tab[t].at = "away" /\ tab[t].says = << >>
    /\ tab' = [tab EXCEPT ![t] = [Away("here") EXCEPT !.says = <<"connect">>]]
    /\ TabOnly /\ UNCHANGED authVars /\ NoFault

\* handleWorkerMessage.  A refused stream starts a probe of the session; bound: a
\* tab has one under way.
TabHears(t) ==
    /\ tab[t].at = "here" /\ tab[t].hears # << >>
    /\ LET m == Head(tab[t].hears)
           x == [tab[t] EXCEPT !.hears = Tail(@)]
       IN \/ m = "connected" /\ tab' = [tab EXCEPT ![t] = [x EXCEPT !.connected = TRUE]]
          \/ m = "event" /\ tab' = [tab EXCEPT ![t] = x]
          \/ m = "error" /\ tab' = [tab EXCEPT ![t] = [x EXCEPT !.connected = FALSE]]
          \/ /\ m = "rejected" /\ x.probe = NoProbe
             /\ tab' = [tab EXCEPT ![t] = [x EXCEPT !.connected = FALSE,
                           !.probe = [NoProbe EXCEPT !.at = "asked", !.with = jar]]]
    /\ TabOnly /\ UNCHANGED authVars /\ NoFault

\* /api/auth/self answers probeSession: a caller it refuses is signed out.
Found(answer) ==
    CASE answer.who = "served" -> "valid"
      [] answer.who = "forbidden" -> "failed"
      [] OTHER -> "signed-out"
Probed(t, answer, token) ==
    /\ tab[t].probe.at = "asked" /\ Gives(token)
    /\ tab' = [tab EXCEPT ![t].probe.at = "answered", ![t].probe.set = answer.set,
                          ![t].probe.found = Found(answer)]
    /\ TabOnly /\ UNCHANGED jar
ProbeAnswered(t) ==
    /\ \E token \in Tokens(tab[t].probe.with) : Probed(t, Gate(tab[t].probe.with, token), token)
    /\ NoFault

\* A document gone: its port is left in the worker, and the last one's ends it.
Documents(t) == {u \in Tabs \ {t} : tab[u].at = "here"}
Gone(t, at) ==
    IF Documents(t) = {}
    THEN /\ worker' = NoWorker
         /\ stream' = Abandoned(worker.stream)
         /\ request' = Unread(worker.stream)
         /\ tab' = [u \in Tabs |-> IF u = t THEN Away(at) ELSE [tab[u] EXCEPT !.says = << >>]]
    ELSE /\ worker' = [worker EXCEPT !.ports = IF t \in @ THEN (@ \ {t}) \cup {DeadPort} ELSE @]
         /\ tab' = [tab EXCEPT ![t] = [Away(at) EXCEPT !.says = tab[t].says]]
         /\ UNCHANGED <<stream, request>>

\* Mutant: a session found valid is left to the worker's own retries.
ProbeOnlyChecks(t) ==
    /\ tab[t].probe.at = "answered"
    /\ jar' = Applied(tab[t].probe.set)
    /\ IF tab[t].probe.found = "signed-out" THEN Gone(t, "login")
       ELSE /\ tab' = [tab EXCEPT ![t].probe = NoProbe,
                                  ![t].lost = (tab[t].probe.found = "failed")]
            /\ UNCHANGED <<stream, request, worker>>
    /\ UNCHANGED <<registry, shutting, ending, sends, events, idp>> /\ NoFault

\* recoverFromRejection: a valid session reopens the stream, one gone sends the
\* tab to log in, and otherwise the user is told to refresh the page.
ProbeArrives(t) ==
    /\ tab[t].probe.at = "answered"
    /\ jar' = Applied(tab[t].probe.set)
    /\ CASE tab[t].probe.found = "signed-out" -> Gone(t, "login")
         [] tab[t].probe.found = "valid" ->
              /\ tab' = [tab EXCEPT ![t].probe = NoProbe, ![t].says = Append(@, "reconnect")]
              /\ UNCHANGED <<stream, request, worker>>
         [] OTHER ->
              /\ tab' = [tab EXCEPT ![t].probe = NoProbe, ![t].lost = TRUE]
              /\ UNCHANGED <<stream, request, worker>>
    /\ UNCHANGED <<registry, shutting, ending, sends, events, idp>> /\ NoFault

\* The user logs in, and the page loads again.
LogsIn(t) ==
    /\ tab[t].at = "login" /\ tab[t].says = << >>
    /\ SignIn
    /\ tab' = [tab EXCEPT ![t] = [Away("here") EXCEPT !.says = <<"connect">>]]
    /\ TabOnly /\ NoFault

TabSteps(t) == TabHears(t) \/ ProbeAnswered(t) \/ ProbeArrives(t)

----------------------------------------------------------------------------
(* What the user does, what the services send and what goes wrong.         *)

\* reconnect, on a window's focus, of a tab that is not connected.
Focus(t) ==
    /\ tab[t].at = "here" /\ ~tab[t].connected
    /\ tab' = [tab EXCEPT ![t].says = Append(@, "reconnect")]
    /\ TabOnly /\ UNCHANGED authVars /\ Fault

\* The provider's token after a call that no answer comes of: it came, or it did not.
Unanswered(with) == Tokens(with) \cup {idp.session}

\* The tab is closed or navigates away, which says nothing to the worker; bound: its
\* probe comes to the gate by then or not at all.
TabCloses(t) ==
    /\ tab[t].at = "here"
    /\ Gone(t, "away")
    /\ \E token \in IF tab[t].probe.at = "asked" THEN Unanswered(tab[t].probe.with)
                     ELSE {idp.session} : Gives(token)
    /\ UNCHANGED <<registry, shutting, ending, sends, events, jar>> /\ Fault

\* The provider mounts again: disconnect on its old port, connect on a new one.
Remounts(t) ==
    /\ tab[t].at = "here"
    /\ tab' = [tab EXCEPT ![t].connected = FALSE, ![t].hears = << >>,
                          ![t].says = @ \o <<"disconnect", "connect">>]
    /\ TabOnly /\ UNCHANGED authVars /\ Fault

\* The connection drops: each side finds out by itself.
Drops ==
    /\ worker.source = "on"
    /\ LET c == worker.stream IN
       /\ request' = [Unread(c) EXCEPT ![c].wire = <<"end">>]
       /\ stream' = Abandoned(c)
    /\ UNCHANGED <<registry, shutting, ending, sends, events, worker, tab, authVars>> /\ Fault

\* The gate, or the probe's call, goes wrong.
Fails == Spends /\ failed' = TRUE
AdmitFails(c) ==
    /\ \E answer \in FailingGate(request[c].with), token \in Unanswered(request[c].with) :
         Admits(c, answer, token)
    /\ Fails
ProbeFails(t) ==
    /\ \E answer \in FailingGate(tab[t].probe.with) \cup {GateAnswer("forbidden", Keep)},
          token \in Unanswered(tab[t].probe.with) : Probed(t, answer, token)
    /\ Fails

Faults ==
    \/ \E t \in Tabs : Focus(t) \/ TabCloses(t) \/ Remounts(t) \/ ProbeFails(t)
    \/ Drops
    \/ \E c \in Streams : AdmitFails(c)
    \/ (PrepareShutdown \/ Send) /\ UNCHANGED <<request, worker, tab, authVars>> /\ Fault
    \/ (Expire \/ EndSession \/ LoseRole) /\ TabOnly /\ UNCHANGED tab /\ Fault

Steps ==
    \/ WorkerSteps \/ Repeats
    \/ \E c \in Streams : BackendSteps(c)
    \/ \E s \in sends : SendSteps(s) /\ ServerOnly
    \/ NextProcess
    \/ \E t \in Tabs : TabSteps(t) \/ TabOpens(t) \/ LogsIn(t)
    \/ Faults

\* The cookies of the requests not answered, and those of the answers not read.
InFlight ==
    {request[c].with : c \in {d \in Streams : stream[d].at = "asked"}}
    \cup {tab[t].probe.with : t \in {u \in Tabs : tab[u].probe.at = "asked"}}
Unset == ({request[c].set : c \in Streams} \cup {tab[t].probe.set : t \in Tabs}) \ {Keep}

\* A new token's answer is not read as another request or answer has the one before,
\* or it is lost.
Good(with) == with.refresh = idp.session
Crossed == (\E set \in Unset : Good(set)) /\ \E with \in InFlight \cup Unset : ~Good(with)
LosesToken ==
    \/ idp'.session # idp.session /\ Unset' = Unset
    \/ ~Good(jar) /\ (\E set \in Unset : Good(set)) /\ ~\E set \in Unset' \cup {jar'} : Good(set)'

Next == Steps /\ over' = (over \/ idp'.session = 0 \/ Crossed' \/ LosesToken)

Spec == Init /\ [][Next]_vars

\* The browser runs the worker's and the tabs' tasks, and every thread of the
\* backend goes on; nothing makes a user open a tab or log in, or the browser
\* repeat a request by itself.
Fairness ==
    /\ WF_browserVars(WorkerSteps)
    /\ \A c \in Streams : WF_browserVars(BackendSteps(c))
    /\ WF_browserVars(\E s \in sends : SendSteps(s) /\ ServerOnly)
    /\ WF_browserVars(NextProcess)
    /\ \A t \in Tabs : WF_browserVars(TabSteps(t))

FairSpec == Spec /\ Fairness

----------------------------------------------------------------------------
\* Every variable holds values of its kind.
TypeOK ==
    /\ ServerTypeOK /\ AuthTypeOK /\ failed \in BOOLEAN /\ over \in BOOLEAN
    /\ \A c \in Streams : request[c].wire \in Seq({"ready", "event", "rejected", "end", "401"})
    /\ worker.ports \subseteq Tabs \cup {DeadPort}
    /\ worker.source \in {"none", "on", "again", "failed"}
    /\ worker.stream \in Streams \cup {None} /\ worker.id \in Ids \cup {None}
    /\ worker.source = "on" <=> worker.stream # None
    /\ \A t \in Tabs : tab[t].at \in {"away", "here", "login"}

\* "commands that arrive together end in one stream" (sse-worker.ts): the only
\* stream a browser reads is its worker's, so whatever the tabs say and however
\* the retries fall none of its sources is left open beside another.
OneStream ==
    \A c \in Streams : stream[c].at # "over" /\ ~stream[c].gone =>
        worker.source = "on" /\ worker.stream = c

\* "GET /api/auth/self refreshes the session cookies while the refresh token is
\* good" (sse-context-provider.tsx): neither a stream's refusal nor its recovery
\* sends a tab to log in while its session lasts and the gate passes what it should,
\* whatever refreshes race; except that of a provider that rotates refresh tokens a
\* new one may be lost, with the stream or the tab its answer was for, or another
\* request have been sent with the one before it.
SignedOutIsOver == (\E t \in Tabs : tab[t].at = "login") => failed \/ over

\* What the UI says comes true (sse-context-provider.tsx): once nothing more goes
\* wrong, a tab that is here is connected, or the user was told to refresh the
\* page, and a connected one's worker reads the stream its ID's events go to.
Served ==
    /\ worker.source = "on" /\ worker.ready
    /\ registry[worker.id] = worker.stream /\ stream[worker.stream].at = "body"
SettlesAsTold ==
    \A t \in Tabs : <>[](\/ tab[t].at # "here"
                         \/ tab[t].connected /\ Served /\ t \in worker.ports
                         \/ tab[t].lost)

\* A browser all of whose tabs are gone leaves no stream in the backend, though
\* none of them said so.
LeavesNothing == (\A t \in Tabs : tab[t].at # "here") ~>
    ((\E t \in Tabs : tab[t].at = "here") \/ Registered = {})
=============================================================================
