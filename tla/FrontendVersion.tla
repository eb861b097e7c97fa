-------------------------- MODULE FrontendVersion --------------------------
(***************************************************************************)
(* The frontend version service, frontend_version_service.py of the        *)
(* backend: an observer of the streams that SseStreams models.  A stream   *)
(* that connects is sent the version queued for its request ID, or the one *)
(* a thread fetches for it; a version queued goes to every stream.  The    *)
(* connection manager calls the observer after the lock it registers and   *)
(* removes a stream under, so each call may come late.                     *)
(***************************************************************************)
EXTENDS Integers, Sequences, FiniteSets

CONSTANTS
    Connections,    \* bound: the streams, by number
    RequestIds, RequestOf,      \* each stream's request ID
    Local           \* stage.is_local(): nothing is fetched

ASSUME VersionAssumption ==
    /\ 0 \notin Connections \cup RequestIds /\ Connections \cap RequestIds = {}
    /\ RequestOf \in [Connections -> RequestIds] /\ Local \in BOOLEAN

VARIABLES
    current,        \* the connection manager's stream of each request ID
    connection,     \* the streams: how far their observers are, and what they were sent
    removed,        \* streams removed whose observer is due
    pendingVersion,        \* _pending_version
    broadcasts,     \* _broadcast_count
    fetching,       \* the thread that fetches for a stream
    queueing,       \* queue_version_event, a call for each request ID at most
    sendLock,       \* _send_lock: who holds it
    stopping,       \* _is_shutting_down
    overtaken       \* history: streams a broadcast reached ahead of their observer

versionVars == <<current, connection, removed, pendingVersion, broadcasts, fetching, queueing,
                 sendLock, stopping, overtaken>>
managerVars == <<current, removed>>
serviceVars == <<pendingVersion, broadcasts, queueing, stopping, overtaken>>

NoOne == 0

VersionInit ==
    /\ current = [i \in RequestIds |-> 0]
    /\ connection = [c \in Connections |-> [id |-> RequestOf[c], at |-> "new", sent |-> << >>]]
    /\ removed = {}
    /\ pendingVersion = [i \in RequestIds |-> FALSE]
    /\ broadcasts = 0
    /\ fetching = [c \in Connections |-> [at |-> "none", count |-> 0]]
    /\ queueing = [i \in RequestIds |-> "none"]
    /\ sendLock = NoOne /\ stopping = FALSE /\ overtaken = {}

Live == {current[i] : i \in RequestIds} \ {0}
SentTo(to, kind) ==
    [c \in Connections |->
        IF c \in to THEN [connection[c] EXCEPT !.sent = Append(@, kind)] ELSE connection[c]]

\* The observers still due for a request ID, of a stream replaced too.
ObserverDue(i) == \E c \in Connections : connection[c].id = i /\ connection[c].at = "observed"

-----------------------------------------------------------------------------
(* The connection manager. *)

\* A stream under its request ID, in place of the one that had it.
Connects(c) ==
    /\ connection[c].at = "new" /\ ~stopping
    /\ connection' = [connection EXCEPT ![c].at = "observed"]
    /\ current' = [current EXCEPT ![connection[c].id] = c]
    /\ UNCHANGED <<removed, serviceVars, fetching, sendLock>>

\* The stream ends, or stalled: one that was replaced tells no observer.
Removes(c) ==
    /\ c \in Live
    /\ current' = [current EXCEPT ![connection[c].id] = 0]
    /\ removed' = removed \cup {c}
    /\ UNCHANGED <<connection, serviceVars, fetching, sendLock>>

-----------------------------------------------------------------------------
(* The observer. *)

\* _on_connect_callback: the pending version, or a thread that fetches, or nothing.
Observes(c) ==
    /\ connection[c].at = "observed"
    /\ IF pendingVersion[connection[c].id]
       THEN connection' = [connection EXCEPT ![c].at = "pending"] /\ UNCHANGED fetching
       ELSE /\ connection' = [connection EXCEPT ![c].at = "told"]
            /\ fetching' = IF Local THEN fetching
                           ELSE [fetching EXCEPT ![c] = [at |-> "asked", count |-> broadcasts]]
    /\ UNCHANGED <<managerVars, serviceVars, sendLock>>

SendsPending(c) ==
    /\ connection[c].at = "pending"
    /\ connection' = [SentTo({current[connection[c].id]}, "pending") EXCEPT ![c].at = "told"]
    /\ UNCHANGED <<managerVars, serviceVars, fetching, sendLock>>

\* _on_disconnect_callback.
Forgets(c) ==
    /\ c \in removed
    /\ removed' = removed \ {c}
    /\ pendingVersion' = [pendingVersion EXCEPT ![connection[c].id] = FALSE]
    /\ UNCHANGED <<current, connection, broadcasts, queueing, stopping, overtaken, fetching,
                   sendLock>>

Fetched(c, at) ==
    /\ fetching' = [fetching EXCEPT ![c].at = at]
    /\ UNCHANGED <<managerVars, serviceVars>>

\* The fetch is answered, or fails and nothing is sent.
FetchReturns(c) ==
    /\ fetching[c].at = "asked"
    /\ \E at \in {"has", "over"} : Fetched(c, at)
    /\ UNCHANGED <<connection, sendLock>>

\* Mutant: the send waits for no queued version's broadcast.
FetchGoesOn(c) ==
    /\ fetching[c].at = "has"
    /\ Fetched(c, "sends")
    /\ UNCHANGED <<connection, sendLock>>

FetchTakesLock(c) ==
    /\ fetching[c].at = "has" /\ sendLock = NoOne
    /\ sendLock' = c
    /\ Fetched(c, "sends")
    /\ UNCHANGED connection

\* Sent unless a version was queued since the connect, or the stream has gone.
FetchSends(c) ==
    /\ fetching[c].at = "sends"
    /\ connection' = IF fetching[c].count = broadcasts
                     THEN SentTo({current[connection[c].id]}, "fetched") ELSE connection
    /\ sendLock' = IF sendLock = c THEN NoOne ELSE sendLock
    /\ Fetched(c, "over")

-----------------------------------------------------------------------------
(* queue_version_event and the shutdown. *)

Queues(i, from, to) ==
    /\ queueing[i] = from
    /\ queueing' = [queueing EXCEPT ![i] = to]
    /\ UNCHANGED <<managerVars, fetching>>

QueueAsked(i) ==
    /\ Queues(i, "none", IF stopping THEN "refused" ELSE "asked")
    /\ UNCHANGED <<connection, pendingVersion, broadcasts, stopping, overtaken, sendLock>>

QueueTakesLock(i) ==
    /\ sendLock = NoOne
    /\ Queues(i, "asked", "locked")
    /\ sendLock' = i
    /\ UNCHANGED <<connection, pendingVersion, broadcasts, stopping, overtaken>>

QueueBroadcasts(i) ==
    /\ Queues(i, "locked", "sent")
    /\ connection' = SentTo(Live, "broadcast")
    /\ UNCHANGED <<pendingVersion, broadcasts, stopping, overtaken, sendLock>>

QueueStores(i) ==
    /\ Queues(i, "sent", "stored")
    /\ pendingVersion' = [pendingVersion EXCEPT ![i] = TRUE]
    /\ broadcasts' = broadcasts + 1
    /\ overtaken' = overtaken \cup {c \in Connections : ObserverDue(connection[c].id)}
    /\ sendLock' = NoOne
    /\ UNCHANGED <<connection, stopping>>

\* PREPARE_SHUTDOWN, and SHUTDOWN some time after it.
StopsService ==
    /\ stopping' = TRUE
    /\ pendingVersion' \in {pendingVersion} \cup
          IF stopping THEN {[i \in RequestIds |-> FALSE]} ELSE {}
    /\ UNCHANGED <<managerVars, connection, broadcasts, fetching, queueing, sendLock, overtaken>>

VersionNext ==
    \/ StopsService
    \/ \E c \in Connections :
        \/ Connects(c) \/ Removes(c) \/ Observes(c) \/ SendsPending(c) \/ Forgets(c)
        \/ FetchReturns(c) \/ FetchTakesLock(c) \/ FetchSends(c)
    \/ \E i \in RequestIds :
        QueueAsked(i) \/ QueueTakesLock(i) \/ QueueBroadcasts(i) \/ QueueStores(i)

VersionSpec == VersionInit /\ [][VersionNext]_versionVars

-----------------------------------------------------------------------------
(* What the pages rely on. *)

Kinds == {"pending", "fetched", "broadcast"}
StreamShapes == [id : RequestIds, at : {"new", "observed", "pending", "told"}, sent : Seq(Kinds)]
FetchShapes == [at : {"none", "asked", "has", "sends", "over"}, count : Nat]
\* Every variable has the shape its code has.
VersionTypeOK ==
    /\ current \in [RequestIds -> Connections \cup {0}]
    /\ connection \in [Connections -> StreamShapes]
    /\ removed \subseteq Connections /\ pendingVersion \in [RequestIds -> BOOLEAN]
    /\ broadcasts \in Nat /\ fetching \in [Connections -> FetchShapes]
    /\ queueing \in [RequestIds -> {"none", "refused", "asked", "locked", "sent", "stored"}]
    /\ sendLock \in {NoOne} \cup Connections \cup RequestIds
    /\ stopping \in BOOLEAN /\ overtaken \subseteq Connections

\* "A connection never gets [a fetched version] after a queued one"
\* (frontend_version_service.py), of the queued versions that are broadcast, and but for a
\* stream that the broadcast reached before its request ID's observer was called.
QueuedWins ==
    \A c \in Connections \ overtaken : \A i, j \in DOMAIN connection[c].sent :
        i < j => ~(connection[c].sent[i] = "broadcast" /\ connection[c].sent[j] = "fetched")
=============================================================================
