----------------------------- MODULE SseStreams -----------------------------
(***************************************************************************)
(* The browsers' event streams in the backend: a stream's thread           *)
(* (backend/app/api/sse.py) and the registry and the delivery of events    *)
(* (services/sse_connection_manager.py).  What runs under the lock is one  *)
(* step; streams are closed and frames queued outside it, each in a step   *)
(* of its own, between which any thread may take any number of its steps.  *)
(* The observers of a connect and a disconnect change nothing here: the    *)
(* one there is, the frontend version service's, sends an event.           *)
(***************************************************************************)
EXTENDS Integers, Sequences, FiniteSets

CONSTANTS
    Streams,        \* bound: the streams open at a time, by number
    Ids,            \* bound: the browsers' request IDs, by number
    MaxFrames,      \* queue_max_frames, the frames a stream's queue holds
    MaxEvents       \* bound: the events the services send

ASSUME StreamsAssumption == Streams \subseteq Nat \ {0} /\ Ids \subseteq Nat \ {0}
ASSUME LimitsAssumption == MaxFrames \in Nat \ {0} /\ MaxEvents \in Nat

VARIABLES
    stream,         \* each stream's thread and its SSEConnection
    registry,       \* _connections: the current stream of each request ID
    shutting,       \* PREPARE_SHUTDOWN was announced
    ending,         \* the streams its handler has still to close
    sends,          \* the send_event calls under way
    events          \* the events sent so far

serverVars == <<stream, registry, shutting, ending, sends, events>>

None == 0

(***************************************************************************)
(* A stream's thread is over (or not begun), asked (its request is at the  *)
(* route), registered, about to start its response, or in its body; `gone` *)
(* says that its browser reads it no more, `replaced` the stream it is to  *)
(* close.  History: `missed` says that its queue had no room for an event. *)
(***************************************************************************)
Asked(id) ==
    [at |-> "asked", id |-> id, queue |-> << >>, closed |-> FALSE, gone |-> FALSE,
     replaced |-> None, missed |-> FALSE]
Over == [Asked(None) EXCEPT !.at = "over", !.closed = TRUE]

Serving == {"registered", "starting", "body"}

\* A send: its event, the recipients it has not come to, those whose queue was
\* full, and the one it has unregistered and must close.
Sending(event, to) == [event |-> event, left |-> to, stalled |-> {}, dropping |-> None]

Registered == {registry[id] : id \in Ids} \ {None}

\* A slot free for another stream: nothing names the one it had.
Free(c) ==
    /\ stream[c].at = "over"
    /\ c \notin ending
    /\ \A s \in sends : c \notin s.left \cup s.stalled \cup {s.dropping}
    /\ \A d \in Streams : stream[d].replaced # c

ServerInit ==
    /\ stream = [c \in Streams |-> Over]
    /\ registry = [id \in Ids |-> None]
    /\ shutting = FALSE /\ ending = {}
    /\ sends = {} /\ events = 0

----------------------------------------------------------------------------
(* The stream's thread.                                                    *)

\* Mutant: a stream is registered though the process is shutting down.
RegisterAlways(c) ==
    /\ stream[c].at = "asked"
    /\ LET replaced == registry[stream[c].id] IN
       /\ registry' = [registry EXCEPT ![stream[c].id] = c]
       /\ stream' = [stream EXCEPT ![c].at = IF replaced = None THEN "starting" ELSE "registered",
                                   ![c].replaced = replaced]
    /\ UNCHANGED <<shutting, ending, sends, events>>

\* on_connect, under the lock: it replaces its ID's stream.  A process that is
\* shutting down refuses it, closed.
Register(c) ==
    /\ stream[c].at = "asked"
    /\ IF shutting
       THEN /\ stream' = [stream EXCEPT ![c].at = "starting", ![c].closed = TRUE]
            /\ UNCHANGED registry
       ELSE LET replaced == registry[stream[c].id] IN
            /\ registry' = [registry EXCEPT ![stream[c].id] = c]
            /\ stream' = [stream EXCEPT
                   ![c].at = IF replaced = None THEN "starting" ELSE "registered",
                   ![c].replaced = replaced]
    /\ UNCHANGED <<shutting, ending, sends, events>>

\* on_connect: the stream it replaced is closed.
CloseReplaced(c) ==
    /\ stream[c].at = "registered"
    /\ stream' = [stream EXCEPT ![c].at = "starting", ![c].replaced = None,
                                ![stream[c].replaced].closed = TRUE]
    /\ UNCHANGED <<registry, shutting, ending, sends, events>>

\* _stream writes its ready.
Starts(c) ==
    /\ stream[c].at = "starting" /\ ~stream[c].closed /\ ~stream[c].gone
    /\ stream' = [stream EXCEPT ![c].at = "body"]
    /\ UNCHANGED <<registry, shutting, ending, sends, events>>

\* next_frame answers a frame, and the stream writes it.
Writes(c) ==
    /\ stream[c].at = "body" /\ ~stream[c].closed /\ ~stream[c].gone
    /\ stream[c].queue # << >>
    /\ stream' = [stream EXCEPT ![c].queue = Tail(@)]
    /\ UNCHANGED <<registry, shutting, ending, sends, events>>

\* Mutant: a browser that has gone is not noticed.
EndsClosed(c) == stream[c].at \in {"starting", "body"} /\ stream[c].closed

\* The body ends: the stream was closed, and the frames left are dropped; or the
\* write of a frame or of a heartbeat fails.
Ends(c) ==
    stream[c].at \in {"starting", "body"} /\ (stream[c].closed \/ stream[c].gone)

Without(c) == [id \in Ids |-> IF registry[id] = c THEN None ELSE registry[id]]

\* Mutant: a stream that ends takes its ID's current one with it.
LeaveById(c) ==
    /\ Ends(c)
    /\ registry' = [registry EXCEPT ![stream[c].id] = None]
    /\ stream' = [stream EXCEPT ![c] = Over]
    /\ UNCHANGED <<shutting, ending, sends, events>>

\* on_disconnect, by the generator's finally or, when that never ran, by the
\* response's close: _remove unregisters it if it is its ID's current one.
Leave(c) ==
    /\ Ends(c)
    /\ registry' = Without(c)
    /\ stream' = [stream EXCEPT ![c] = Over]
    /\ UNCHANGED <<shutting, ending, sends, events>>

----------------------------------------------------------------------------
(* send_event.                                                             *)

\* An event, to whom _resolve_target names: every stream, one, one subject's.
Send ==
    /\ events < MaxEvents
    /\ events' = events + 1
    /\ \E to \in SUBSET Registered \ {{}} : sends' = sends \cup {Sending(events + 1, to)}
    /\ UNCHANGED <<stream, registry, shutting, ending>>

Replace(s, t) == sends' = (sends \ {s}) \cup {t}

\* One recipient: skipped if it closed since, else the frame is queued, or there
\* is no room for it.
Offer(s, c) ==
    /\ c \in s.left
    /\ IF stream[c].closed
       THEN Replace(s, [s EXCEPT !.left = @ \ {c}]) /\ UNCHANGED stream
       ELSE IF Len(stream[c].queue) < MaxFrames
       THEN /\ Replace(s, [s EXCEPT !.left = @ \ {c}])
            /\ stream' = [stream EXCEPT ![c].queue = Append(@, s.event)]
       ELSE /\ Replace(s, [s EXCEPT !.left = @ \ {c}, !.stalled = @ \cup {c}])
            /\ stream' = [stream EXCEPT ![c].missed = TRUE]
    /\ UNCHANGED <<registry, shutting, ending, events>>

\* Mutant: a stalled stream is unregistered and left open.
UnlistOnly(s, c) ==
    /\ s.left = {} /\ c \in s.stalled /\ s.dropping = None
    /\ registry' = Without(c)
    /\ Replace(s, [s EXCEPT !.stalled = @ \ {c}])
    /\ UNCHANGED <<stream, shutting, ending, events>>

\* _remove of a stalled one, under the lock.
Unlist(s, c) ==
    /\ s.left = {} /\ c \in s.stalled /\ s.dropping = None
    /\ registry' = Without(c)
    /\ Replace(s, [s EXCEPT !.stalled = @ \ {c}, !.dropping = c])
    /\ UNCHANGED <<stream, shutting, ending, events>>

\* It ended by itself meanwhile, or is closed.
Drop(s) ==
    /\ s.dropping # None
    /\ stream' = [stream EXCEPT ![s.dropping].closed = TRUE]
    /\ Replace(s, [s EXCEPT !.dropping = None])
    /\ UNCHANGED <<registry, shutting, ending, events>>

Sent(s) ==
    /\ s.left = {} /\ s.stalled = {} /\ s.dropping = None
    /\ sends' = sends \ {s}
    /\ UNCHANGED <<stream, registry, shutting, ending, events>>

SendSteps(s) == (\E c \in Streams : Offer(s, c) \/ Unlist(s, c)) \/ Drop(s) \/ Sent(s)

----------------------------------------------------------------------------
(* Shutdown.                                                               *)

\* _on_lifecycle_event: no stream is registered from here on, and those that are
\* get closed, outside the lock.
PrepareShutdown ==
    /\ ~shutting
    /\ shutting' = TRUE
    /\ ending' = Registered
    /\ UNCHANGED <<stream, registry, sends, events>>

Close(c) ==
    /\ c \in ending
    /\ ending' = ending \ {c}
    /\ stream' = [stream EXCEPT ![c].closed = TRUE]
    /\ UNCHANGED <<registry, shutting, sends, events>>

----------------------------------------------------------------------------
(* Browsers with no memory: each opens a stream under any ID and leaves it *)
(* at any time.                                                            *)

Ask(c, id) ==
    /\ Free(c)
    /\ stream' = [stream EXCEPT ![c] = Asked(id)]
    /\ UNCHANGED <<registry, shutting, ending, sends, events>>

Goes(c) ==
    /\ stream[c].at # "over" /\ ~stream[c].gone
    /\ stream' = [stream EXCEPT ![c].gone = TRUE]
    /\ UNCHANGED <<registry, shutting, ending, sends, events>>

\* The streams' numbers are only names: they ask in their order.
NextFree == {c \in Streams : Free(c) /\ \A d \in Streams : Free(d) => c <= d}

ThreadSteps(c) ==
    Register(c) \/ CloseReplaced(c) \/ Starts(c) \/ Writes(c) \/ Leave(c) \/ Close(c)

ServerNext ==
    \/ \E c \in NextFree, id \in Ids : Ask(c, id)
    \/ \E c \in Streams : ThreadSteps(c) \/ Goes(c)
    \/ \E s \in sends : SendSteps(s)
    \/ Send
    \/ PrepareShutdown

ServerSpec == ServerInit /\ [][ServerNext]_serverVars

\* Every thread of the process goes on: a stream's, a sender's, the handler's.
ServerFairness ==
    /\ \A c \in Streams : WF_serverVars(ThreadSteps(c))
    /\ WF_serverVars(\E s \in sends : SendSteps(s))

FairServerSpec == ServerSpec /\ ServerFairness

----------------------------------------------------------------------------
StreamRecords ==
    [at : Serving \cup {"over", "asked"}, id : Ids \cup {None}, queue : Seq(1..MaxEvents),
     closed : BOOLEAN, gone : BOOLEAN, replaced : Streams \cup {None}, missed : BOOLEAN]

SendRecords ==
    [event : 1..MaxEvents, left : SUBSET Streams, stalled : SUBSET Streams,
     dropping : Streams \cup {None}]

\* Every variable holds values of its kind, and no queue is past its limit.
ServerTypeOK ==
    /\ stream \in [Streams -> StreamRecords]
    /\ \A c \in Streams : Len(stream[c].queue) <= MaxFrames
    /\ registry \in [Ids -> Streams \cup {None}]
    /\ shutting \in BOOLEAN
    /\ ending \subseteq Streams
    /\ sends \subseteq SendRecords
    /\ events \in 0..MaxEvents

\* No browser listens to a stream that nothing reaches any more: one that is still open
\* is the one its ID's events go to, or whoever took its place or unregistered it is about
\* to close it; and one that missed an event, its queue full, is about to be closed too
\* ("closes that connection, and the browser reconnects").
OpenIsReached ==
    \A c \in Streams : stream[c].at \in Serving /\ ~stream[c].closed =>
        /\ \/ registry[stream[c].id] = c
           \/ \E d \in Streams : stream[d].replaced = c
           \/ \E s \in sends : s.dropping = c
        /\ stream[c].missed => \E s \in sends : c \in s.stalled \/ s.dropping = c

\* "On PREPARE_SHUTDOWN, every connection closed, so every stream ends": once it
\* is announced the registry empties for good.
ShutdownEnds == shutting ~> [](Registered = {})
=============================================================================
