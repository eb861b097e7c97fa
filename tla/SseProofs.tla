----------------------------- MODULE SseProofs -----------------------------
(***************************************************************************)
(* Proofs about SseStreams, SseSession and FrontendVersion, for any        *)
(* streams, request IDs, tabs and connections.                             *)
(***************************************************************************)
EXTENDS SseSession, FrontendVersion, SequenceTheorems, WellFoundedInduction, TLAPS

(***************************************************************************)
(* The frontend version service.                                           *)
(***************************************************************************)
\* Who sends holds _send_lock, or stores what it sent.
LockInv ==
    /\ \A c \in Connections : fetching[c].at = "sends" => sendLock = c
    /\ \A i \in RequestIds : queueing[i] \in {"locked", "sent"} => sendLock = i

\* The stream of a request ID is registered, and one that is not was sent nothing.
CurrentInv ==
    /\ \A c \in Connections : connection[c].at = "new" => connection[c].sent = << >>
    /\ \A i \in RequestIds : current[i] # 0 =>
        connection[current[i]].at # "new" /\ connection[current[i]].id = i

CountInv == \A c \in Connections : fetching[c].count <= broadcasts

Had(d) == \E k \in DOMAIN connection[d].sent : connection[d].sent[k] = "broadcast"
Storing == \E i \in RequestIds : queueing[i] = "sent"
UnderWay(c) == fetching[c].at \in {"asked", "has", "sends"}
\* No fetch under way may still be sent to a stream that had a queued version, and none will be.
LateInv ==
    \A d \in Connections \ overtaken :
        Had(d) /\ current[connection[d].id] = d /\ ~Storing =>
            \A c \in Connections : connection[c].id = connection[d].id =>
                /\ connection[c].at # "observed"
                /\ UnderWay(c) => fetching[c].count < broadcasts

VersionInv == VersionTypeOK /\ LockInv /\ CurrentInv /\ CountInv /\ LateInv /\ QueuedWins

Wins(s) == \A i, j \in DOMAIN s : i < j => ~(s[i] = "broadcast" /\ s[j] = "fetched")

----------------------------------------------------------------------------
LEMMA WinsKept ==
  ASSUME NEW s \in Seq(Kinds), NEW k \in Kinds, Wins(s),
         k # "fetched" \/ \A i \in DOMAIN s : s[i] # "broadcast"
  PROVE  Wins(Append(s, k))
<1>1. Len(Append(s, k)) = Len(s) + 1 /\ DOMAIN Append(s, k) = 1 .. Len(s) + 1 /\ Len(s) \in Nat
  OBVIOUS
<1>2. Append(s, k)[Len(s) + 1] = k /\ \A i \in 1 .. Len(s) : Append(s, k)[i] = s[i]
  OBVIOUS
<1>3. SUFFICES ASSUME NEW i \in 1 .. Len(s) + 1, NEW j \in 1 .. Len(s) + 1, i < j,
                      Append(s, k)[i] = "broadcast", Append(s, k)[j] = "fetched"
               PROVE  FALSE
  BY <1>1 DEF Wins
<1>4. i \in 1 .. Len(s) /\ s[i] = "broadcast" /\ i \in DOMAIN s
  BY <1>1, <1>2, <1>3
<1>5. CASE j = Len(s) + 1
  BY <1>2, <1>3, <1>4, <1>5
<1>6. CASE j \in 1 .. Len(s)
  <2>1. j \in DOMAIN s /\ s[j] = "fetched"
    BY <1>2, <1>3, <1>6
  <2> QED
    BY <1>3, <1>4, <2>1 DEF Wins
<1> QED
  BY <1>1, <1>5, <1>6

\* What a send does to each stream.
LEMMA SentChanges ==
  ASSUME VersionTypeOK, NEW to, NEW kind \in Kinds
  PROVE  /\ SentTo(to, kind) \in [Connections -> StreamShapes]
         /\ \A c \in Connections :
                /\ SentTo(to, kind)[c].id = connection[c].id
                /\ SentTo(to, kind)[c].at = connection[c].at
                /\ SentTo(to, kind)[c].sent =
                       IF c \in to THEN Append(connection[c].sent, kind) ELSE connection[c].sent
<1>1. \A c \in Connections :
        [connection[c] EXCEPT !.sent = Append(@, kind)] \in StreamShapes
  <2> TAKE c \in Connections
  <2>1. connection[c] \in StreamShapes
    BY DEF VersionTypeOK
  <2> DEFINE more == Append(connection[c].sent, kind)
  <2>2. more \in Seq(Kinds)
    BY <2>1 DEF StreamShapes
  <2> HIDE DEF more
  <2>3. [connection[c] EXCEPT !.sent = more] \in StreamShapes
    BY <2>1, <2>2 DEF StreamShapes
  <2> QED
    BY <2>3 DEF more
<1>2. \A c \in Connections : connection[c] \in StreamShapes
  BY DEF VersionTypeOK
<1>3. SentTo(to, kind) \in [Connections -> StreamShapes]
  BY <1>1, <1>2 DEF SentTo
<1> QED
  BY <1>2, <1>3 DEF SentTo, StreamShapes

\* A stream has a queued version only by its broadcast.
LEMMA HadBefore ==
  ASSUME NEW s \in Seq(Kinds), NEW k \in Kinds \ {"broadcast"}, NEW i \in DOMAIN Append(s, k),
         Append(s, k)[i] = "broadcast"
  PROVE  \E j \in DOMAIN s : s[j] = "broadcast"
<1>1. DOMAIN Append(s, k) = 1 .. Len(s) + 1 /\ DOMAIN s = 1 .. Len(s) /\ Len(s) \in Nat
  OBVIOUS
<1>2. Append(s, k)[Len(s) + 1] = k /\ \A j \in 1 .. Len(s) : Append(s, k)[j] = s[j]
  OBVIOUS
<1>3. i # Len(s) + 1
  BY <1>2
<1>4. i \in 1 .. Len(s)
  BY <1>1, <1>3
<1> QED
  BY <1>1, <1>2, <1>4

LEMMA VersionInitInv == VersionInit => VersionInv
<1> SUFFICES ASSUME VersionInit PROVE VersionInv
  OBVIOUS
<1>1. \A c \in Connections : [id |-> RequestOf[c], at |-> "new", sent |-> << >>] \in StreamShapes
  BY VersionAssumption DEF StreamShapes
<1>2. VersionTypeOK
  BY <1>1 DEF VersionInit, VersionTypeOK, FetchShapes
<1>3. LockInv /\ CurrentInv /\ CountInv
  BY DEF VersionInit, LockInv, CurrentInv, CountInv
<1>4. LateInv /\ QueuedWins
  BY DEF VersionInit, LateInv, QueuedWins, Had
<1> QED
  BY <1>2, <1>3, <1>4 DEF VersionInv

----------------------------------------------------------------------------
LEMMA ConnectsInv == ASSUME VersionInv, NEW c \in Connections, Connects(c) PROVE VersionInv'
<1> USE DEF VersionInv
<1> DEFINE i == connection[c].id
<1>1. /\ connection[c].at = "new" /\ i \in RequestIds /\ connection[c] \in StreamShapes
      /\ connection' = [connection EXCEPT ![c].at = "observed"]
      /\ current' = [current EXCEPT ![i] = c]
      /\ UNCHANGED <<removed, serviceVars, fetching, sendLock>>
  BY DEF Connects, VersionTypeOK, StreamShapes
<1>2. [connection[c] EXCEPT !.at = "observed"] \in StreamShapes
  BY <1>1 DEF StreamShapes
<1>3. \A d \in Connections :
        /\ connection'[d].id = connection[d].id /\ connection'[d].sent = connection[d].sent
        /\ connection'[d].at = IF d = c THEN "observed" ELSE connection[d].at
  BY <1>1 DEF VersionTypeOK, StreamShapes
<1>4. VersionTypeOK'
  BY <1>1, <1>2 DEF VersionTypeOK, serviceVars
<1>5. LockInv' /\ CountInv' /\ QueuedWins'
  BY <1>1, <1>3 DEF LockInv, CountInv, QueuedWins, serviceVars
<1>6. CurrentInv'
  BY <1>1, <1>3 DEF CurrentInv, VersionTypeOK
<1>7. LateInv'
  <2> SUFFICES ASSUME NEW d \in Connections \ overtaken', Had(d)',
                      current'[connection'[d].id] = d, ~Storing'
               PROVE  \A e \in Connections : connection'[e].id = connection'[d].id =>
                        /\ connection'[e].at # "observed"
                        /\ UnderWay(e)' => fetching'[e].count < broadcasts'
    BY DEF LateInv
  <2>1. Had(d) /\ d # c
    BY <1>1, <1>3 DEF Had, CurrentInv
  <2>2. connection[d].id # i /\ current[connection[d].id] = d
    BY <1>1, <1>3, <2>1 DEF VersionTypeOK
  <2> QED
    BY <1>1, <1>3, <2>1, <2>2 DEF LateInv, Storing, UnderWay, serviceVars
<1> QED
  BY <1>4, <1>5, <1>6, <1>7

LEMMA RemovedInv ==
  ASSUME VersionInv, NEW c \in Connections, Removes(c) \/ Forgets(c) PROVE VersionInv'
<1> USE DEF VersionInv
<1>1. /\ UNCHANGED <<connection, broadcasts, queueing, stopping, overtaken, fetching, sendLock>>
      /\ removed' \subseteq Connections
      /\ pendingVersion' \in [RequestIds -> BOOLEAN]
      /\ \A i \in RequestIds : current'[i] \in {current[i], 0}
      /\ current' \in [RequestIds -> Connections \cup {0}]
  BY DEF Removes, Forgets, VersionTypeOK, serviceVars
<1>2. VersionTypeOK'
  BY <1>1 DEF VersionTypeOK
<1>3. LockInv' /\ CountInv' /\ QueuedWins'
  BY <1>1 DEF LockInv, CountInv, QueuedWins
<1>4. CurrentInv'
  BY <1>1 DEF CurrentInv
<1>5. LateInv'
  <2>1. 0 \notin Connections /\ \A d \in Connections : connection[d].id \in RequestIds
    BY VersionAssumption DEF VersionTypeOK, StreamShapes
  <2> QED
    BY <1>1, <2>1 DEF LateInv, Had, Storing, UnderWay
<1> QED
  BY <1>2, <1>3, <1>4, <1>5

\* The observer takes the version queued, or a fetch that no queued version is ahead of.
LEMMA ObservesInv == ASSUME VersionInv, NEW c \in Connections, Observes(c) PROVE VersionInv'
<1> USE DEF VersionInv
<1>1. PICK at \in {"pending", "told"} :
        /\ connection[c].at = "observed"
        /\ connection' = [connection EXCEPT ![c].at = at]
        /\ \/ UNCHANGED fetching
           \/ fetching' = [fetching EXCEPT ![c] = [at |-> "asked", count |-> broadcasts]]
        /\ UNCHANGED <<managerVars, serviceVars, sendLock>>
  BY DEF Observes
<1>2. [connection[c] EXCEPT !.at = at] \in StreamShapes
  BY <1>1 DEF StreamShapes, VersionTypeOK
<1>3. \A d \in Connections :
        /\ connection'[d].id = connection[d].id /\ connection'[d].sent = connection[d].sent
        /\ connection'[d].at = IF d = c THEN at ELSE connection[d].at
  BY <1>1 DEF VersionTypeOK, StreamShapes
<1>4. fetching' \in [Connections -> FetchShapes]
  <2>1. [at |-> "asked", count |-> broadcasts] \in FetchShapes
    BY DEF FetchShapes, VersionTypeOK
  <2> QED
    BY <1>1, <2>1 DEF VersionTypeOK
<1>5. VersionTypeOK'
  BY <1>1, <1>2, <1>4 DEF VersionTypeOK, managerVars, serviceVars
<1>6. LockInv' /\ CountInv'
  BY <1>1 DEF LockInv, CountInv, serviceVars, VersionTypeOK
<1>7. CurrentInv' /\ QueuedWins'
  BY <1>1, <1>3 DEF CurrentInv, QueuedWins, managerVars, serviceVars, VersionTypeOK
<1>8. LateInv'
  <2> SUFFICES ASSUME NEW d \in Connections \ overtaken', Had(d)',
                      current'[connection'[d].id] = d, ~Storing'
               PROVE  \A e \in Connections : connection'[e].id = connection'[d].id =>
                        /\ connection'[e].at # "observed"
                        /\ UnderWay(e)' => fetching'[e].count < broadcasts'
    BY DEF LateInv
  <2>1. Had(d) /\ d \notin overtaken /\ current[connection[d].id] = d /\ ~Storing
    BY <1>1, <1>3 DEF Had, Storing, managerVars, serviceVars
  <2>2. connection[c].id # connection[d].id
    BY <1>1, <2>1 DEF LateInv
  <2>3. \A e \in Connections : e # c => fetching'[e] = fetching[e]
    BY <1>1 DEF VersionTypeOK
  <2> QED
    BY <1>1, <1>3, <2>1, <2>2, <2>3 DEF LateInv, UnderWay, serviceVars
<1> QED
  BY <1>5, <1>6, <1>7, <1>8

\* A send of what is not fetched, and the fetches' own steps that send nothing.
LEMMA PendingInv == ASSUME VersionInv, NEW c \in Connections, SendsPending(c) PROVE VersionInv'
<1> USE DEF VersionInv
<1> DEFINE sent == SentTo({current[connection[c].id]}, "pending")
<1>1. /\ connection[c].at = "pending" /\ connection' = [sent EXCEPT ![c].at = "told"]
      /\ UNCHANGED <<managerVars, serviceVars, fetching, sendLock>>
  BY DEF SendsPending
<1>2. /\ sent \in [Connections -> StreamShapes]
      /\ \A d \in Connections :
            /\ sent[d].id = connection[d].id /\ sent[d].at = connection[d].at
            /\ sent[d].sent \in {connection[d].sent, Append(connection[d].sent, "pending")}
            /\ sent[d].sent # connection[d].sent => d = current[connection[c].id]
  <2>1. "pending" \in Kinds
    BY DEF Kinds
  <2>2. /\ sent \in [Connections -> StreamShapes]
        /\ \A d \in Connections :
              /\ sent[d].id = connection[d].id /\ sent[d].at = connection[d].at
              /\ sent[d].sent = IF d \in {current[connection[c].id]}
                                THEN Append(connection[d].sent, "pending") ELSE connection[d].sent
    BY <2>1, SentChanges
  <2> HIDE DEF sent
  <2> QED
    BY <2>2
<1> HIDE DEF sent
<1>3. \A d \in Connections :
        /\ connection'[d].id = connection[d].id
        /\ connection'[d].at = IF d = c THEN "told" ELSE connection[d].at
        /\ connection'[d].sent \in {connection[d].sent, Append(connection[d].sent, "pending")}
        /\ connection'[d].sent # connection[d].sent => d = current[connection[c].id]
        /\ connection[d].sent \in Seq(Kinds)
        /\ connection[d].id \in RequestIds
  BY <1>1, <1>2 DEF VersionTypeOK, StreamShapes
<1>4. connection' \in [Connections -> StreamShapes]
  <2>1. [sent[c] EXCEPT !.at = "told"] \in StreamShapes
    BY <1>2 DEF StreamShapes
  <2> QED
    BY <1>1, <1>2, <2>1
<1>5. VersionTypeOK' /\ LockInv' /\ CountInv'
  BY <1>1, <1>4 DEF VersionTypeOK, LockInv, CountInv, managerVars, serviceVars
<1>6. CurrentInv'
  <2>1. \A d \in Connections : connection'[d].at = "new" =>
            connection[d].at = "new" /\ connection'[d].sent = connection[d].sent
    BY <1>1, <1>3, VersionAssumption DEF CurrentInv
  <2>2. \A i \in RequestIds : current[i] # 0 => current[i] \in Connections
    BY DEF VersionTypeOK
  <2> QED
    BY <1>1, <1>3, <2>1, <2>2 DEF CurrentInv, managerVars
<1>7. \A d \in Connections : Had(d)' => Had(d)
  <2> SUFFICES ASSUME NEW d \in Connections, NEW k \in DOMAIN connection'[d].sent,
                      connection'[d].sent[k] = "broadcast"
               PROVE  Had(d)
    BY DEF Had
  <2>1. "pending" \in Kinds \ {"broadcast"}
    BY DEF Kinds
  <2>2. CASE connection'[d].sent = connection[d].sent
    BY <2>2 DEF Had
  <2>3. CASE connection'[d].sent = Append(connection[d].sent, "pending")
    BY <1>3, <2>1, <2>3, HadBefore DEF Had
  <2> QED
    BY <1>3, <2>2, <2>3
<1>8. LateInv'
  BY <1>1, <1>3, <1>7 DEF LateInv, Storing, UnderWay, managerVars, serviceVars
<1>9. QueuedWins'
  <2> SUFFICES ASSUME NEW d \in Connections \ overtaken' PROVE Wins(connection'[d].sent)
    BY DEF QueuedWins, Wins
  <2>1. Wins(connection[d].sent) /\ connection[d].sent \in Seq(Kinds)
    BY <1>1, <1>3 DEF QueuedWins, Wins, serviceVars
  <2> QED
    BY <1>3, <2>1, WinsKept DEF Kinds
<1> QED
  BY <1>5, <1>6, <1>8, <1>9

LEMMA FetchInv ==
  ASSUME VersionInv, NEW c \in Connections, FetchReturns(c) \/ FetchTakesLock(c)
  PROVE  VersionInv'
<1> USE DEF VersionInv
<1>1. PICK at \in {"has", "over", "sends"} :
        /\ fetching' = [fetching EXCEPT ![c].at = at] /\ UnderWay(c)
        /\ UNCHANGED <<managerVars, serviceVars, connection>>
        /\ \/ at # "sends" /\ sendLock' = sendLock
           \/ at = "sends" /\ sendLock = NoOne /\ sendLock' = c
  BY DEF FetchReturns, FetchTakesLock, Fetched, UnderWay
<1>2. fetching' \in [Connections -> FetchShapes]
  BY <1>1 DEF VersionTypeOK, FetchShapes
<1>3. \A d \in Connections :
        /\ fetching'[d].count = fetching[d].count
        /\ fetching'[d].at = IF d = c THEN at ELSE fetching[d].at
  BY <1>1 DEF VersionTypeOK, FetchShapes
<1>4. VersionTypeOK'
  BY <1>1, <1>2 DEF VersionTypeOK, managerVars, serviceVars
<1>5. LockInv'
  <2>1. 0 \notin Connections \cup RequestIds
    BY VersionAssumption
  <2> QED
    BY <1>1, <1>3, <2>1 DEF LockInv, serviceVars, NoOne
<1>6. CurrentInv' /\ CountInv' /\ QueuedWins'
  BY <1>1, <1>3 DEF CurrentInv, CountInv, QueuedWins, managerVars, serviceVars
<1>7. LateInv'
  BY <1>1, <1>3 DEF LateInv, Had, Storing, UnderWay, managerVars, serviceVars
<1> QED
  BY <1>4, <1>5, <1>6, <1>7

\* A version fetched is sent to a stream that had no queued one.
LEMMA FetchSendsInv == ASSUME VersionInv, NEW c \in Connections, FetchSends(c) PROVE VersionInv'
<1> USE DEF VersionInv
<1> DEFINE to == IF fetching[c].count = broadcasts THEN {current[connection[c].id]} ELSE {}
<1>1. /\ fetching[c].at = "sends" /\ fetching' = [fetching EXCEPT ![c].at = "over"]
      /\ sendLock = c /\ sendLock' = NoOne
      /\ UNCHANGED <<managerVars, serviceVars>>
  BY DEF FetchSends, Fetched, LockInv
<1>2. /\ connection' \in [Connections -> StreamShapes]
      /\ \A d \in Connections :
            /\ connection'[d].id = connection[d].id /\ connection'[d].at = connection[d].at
            /\ connection'[d].sent =
                  IF d \in to THEN Append(connection[d].sent, "fetched") ELSE connection[d].sent
            /\ connection[d].sent \in Seq(Kinds)
            /\ connection[d].id \in RequestIds
  <2>1. "fetched" \in Kinds
    BY DEF Kinds
  <2>2. \A d \in Connections :
            connection[d].sent \in Seq(Kinds) /\ connection[d].id \in RequestIds
    BY DEF VersionTypeOK, StreamShapes
  <2>3. CASE fetching[c].count = broadcasts
    <3>1. connection' = SentTo({current[connection[c].id]}, "fetched")
      BY <2>3 DEF FetchSends
    <3> QED
      BY <2>1, <2>2, <2>3, <3>1, SentChanges
  <2>4. CASE fetching[c].count # broadcasts
    <3>1. connection' = connection
      BY <2>4 DEF FetchSends
    <3> QED
      BY <2>2, <2>4, <3>1 DEF VersionTypeOK
  <2> QED
    BY <2>3, <2>4
<1>3. ~Storing
  BY <1>1, VersionAssumption DEF LockInv, Storing
<1>4. \A d \in Connections :
        fetching'[d].count = fetching[d].count
        /\ fetching'[d].at = IF d = c THEN "over" ELSE fetching[d].at
  BY <1>1 DEF VersionTypeOK, FetchShapes
<1>5. VersionTypeOK'
  <2>1. fetching' \in [Connections -> FetchShapes]
    BY <1>1 DEF VersionTypeOK, FetchShapes
  <2> QED
    BY <1>1, <1>2, <2>1 DEF VersionTypeOK, managerVars, serviceVars
<1>6. LockInv'
  BY <1>1, <1>3, <1>4, VersionAssumption DEF LockInv, serviceVars
<1>7. CountInv'
  BY <1>1, <1>4 DEF CountInv, serviceVars
<1>8. CurrentInv'
  <2>1. \A d \in Connections : connection[d].at = "new" => d \notin to
    BY <1>2, VersionAssumption DEF CurrentInv
  <2>2. \A i \in RequestIds : current[i] # 0 => current[i] \in Connections
    BY DEF VersionTypeOK
  <2> QED
    BY <1>1, <1>2, <2>1, <2>2 DEF CurrentInv, managerVars
<1>9. \A d \in Connections : Had(d)' => Had(d)
  <2> SUFFICES ASSUME NEW d \in Connections, NEW k \in DOMAIN connection'[d].sent,
                      connection'[d].sent[k] = "broadcast"
               PROVE  Had(d)
    BY DEF Had
  <2>1. "fetched" \in Kinds \ {"broadcast"}
    BY DEF Kinds
  <2>2. CASE d \notin to
    BY <1>2, <2>2 DEF Had
  <2>3. CASE d \in to
    <3>1. connection'[d].sent = Append(connection[d].sent, "fetched")
      BY <1>2, <2>3
    <3>2. connection[d].sent \in Seq(Kinds)
      BY <1>2
    <3> QED
      BY <2>1, <3>1, <3>2, HadBefore DEF Had
  <2> QED
    BY <2>2, <2>3
<1>10. LateInv'
  BY <1>1, <1>2, <1>3, <1>4, <1>9 DEF LateInv, Storing, UnderWay, managerVars, serviceVars
<1>11. QueuedWins'
  <2> SUFFICES ASSUME NEW d \in Connections \ overtaken' PROVE Wins(connection'[d].sent)
    BY DEF QueuedWins, Wins
  <2>1. Wins(connection[d].sent) /\ connection[d].sent \in Seq(Kinds) /\ d \notin overtaken
    BY <1>1, <1>2 DEF QueuedWins, Wins, serviceVars
  <2>2. CASE d \in to
    <3>1. fetching[c].count = broadcasts /\ current[connection[c].id] = d /\ broadcasts \in Nat
      BY <2>2 DEF VersionTypeOK
    <3>2. connection[c].id = connection[d].id
      BY <1>2, <3>1, VersionAssumption DEF CurrentInv
    <3>3. ~Had(d)
      BY <1>1, <1>3, <2>1, <3>1, <3>2 DEF LateInv, UnderWay
    <3> QED
      BY <1>2, <2>1, <2>2, <3>3, WinsKept DEF Had, Kinds
  <2>3. CASE d \notin to
    BY <1>2, <2>1, <2>3
  <2> QED
    BY <2>2, <2>3
<1> QED
  BY <1>5, <1>6, <1>7, <1>8, <1>10, <1>11

----------------------------------------------------------------------------
LEMMA QueueInv ==
  ASSUME VersionInv, NEW i \in RequestIds, QueueAsked(i) \/ QueueTakesLock(i)
  PROVE  VersionInv'
<1> USE DEF VersionInv
<1>1. PICK to \in {"refused", "asked", "locked"} :
        /\ queueing' = [queueing EXCEPT ![i] = to] /\ queueing[i] \in {"none", "asked"}
        /\ UNCHANGED <<managerVars, fetching, connection, pendingVersion, broadcasts, stopping,
                       overtaken>>
        /\ \/ to # "locked" /\ sendLock' = sendLock
           \/ to = "locked" /\ sendLock = NoOne /\ sendLock' = i
  BY DEF QueueAsked, QueueTakesLock, Queues
<1>2. VersionTypeOK'
  BY <1>1 DEF VersionTypeOK, managerVars
<1>3. LockInv'
  <2>1. 0 \notin Connections \cup RequestIds
    BY VersionAssumption
  <2> QED
    BY <1>1, <2>1 DEF LockInv, VersionTypeOK, NoOne
<1>4. CurrentInv' /\ CountInv' /\ QueuedWins'
  BY <1>1 DEF CurrentInv, CountInv, QueuedWins, managerVars
<1>5. LateInv'
  <2>1. Storing' <=> Storing
    BY <1>1 DEF Storing, VersionTypeOK
  <2> QED
    BY <1>1, <2>1 DEF LateInv, Had, UnderWay, managerVars
<1> QED
  BY <1>2, <1>3, <1>4, <1>5

LEMMA BroadcastsInv == ASSUME VersionInv, NEW i \in RequestIds, QueueBroadcasts(i) PROVE VersionInv'
<1> USE DEF VersionInv
<1>1. /\ queueing[i] = "locked" /\ queueing' = [queueing EXCEPT ![i] = "sent"]
      /\ connection' = SentTo(Live, "broadcast")
      /\ UNCHANGED <<managerVars, fetching, pendingVersion, broadcasts, stopping, overtaken,
                     sendLock>>
  BY DEF QueueBroadcasts, Queues
<1>2. /\ connection' \in [Connections -> StreamShapes]
      /\ \A d \in Connections :
            /\ connection'[d].id = connection[d].id /\ connection'[d].at = connection[d].at
            /\ connection'[d].sent =
                  IF d \in Live THEN Append(connection[d].sent, "broadcast") ELSE connection[d].sent
            /\ connection[d].sent \in Seq(Kinds)
  BY <1>1, SentChanges DEF Kinds, VersionTypeOK, StreamShapes
<1>3. VersionTypeOK' /\ CountInv'
  BY <1>1, <1>2 DEF VersionTypeOK, CountInv, managerVars
<1>4. LockInv'
  BY <1>1 DEF LockInv, VersionTypeOK
<1>5. CurrentInv'
  <2>1. \A d \in Live : d # 0 /\ connection[d].at # "new"
    BY DEF CurrentInv, Live
  <2> QED
    BY <1>1, <1>2, <2>1 DEF CurrentInv, managerVars, VersionTypeOK
<1>6. LateInv'
  BY <1>1 DEF LateInv, Storing, VersionTypeOK
<1>7. QueuedWins'
  <2> SUFFICES ASSUME NEW d \in Connections \ overtaken' PROVE Wins(connection'[d].sent)
    BY DEF QueuedWins, Wins
  <2>1. Wins(connection[d].sent) /\ connection[d].sent \in Seq(Kinds)
    BY <1>1, <1>2 DEF QueuedWins, Wins
  <2> QED
    BY <1>2, <2>1, WinsKept DEF Kinds
<1> QED
  BY <1>3, <1>4, <1>5, <1>6, <1>7

\* The count is past every fetch's, and a stream whose observer is due is overtaken.
LEMMA StoresInv == ASSUME VersionInv, NEW i \in RequestIds, QueueStores(i) PROVE VersionInv'
<1> USE DEF VersionInv
<1>1. /\ queueing[i] = "sent" /\ queueing' = [queueing EXCEPT ![i] = "stored"]
      /\ broadcasts' = broadcasts + 1 /\ sendLock = i /\ sendLock' = NoOne
      /\ pendingVersion' = [pendingVersion EXCEPT ![i] = TRUE]
      /\ overtaken' = overtaken \cup {c \in Connections : ObserverDue(connection[c].id)}
      /\ UNCHANGED <<managerVars, fetching, connection, stopping>>
  BY DEF QueueStores, Queues, LockInv
<1>2. VersionTypeOK'
  BY <1>1 DEF VersionTypeOK, managerVars
<1>3. LockInv'
  BY <1>1, VersionAssumption DEF LockInv, VersionTypeOK
<1>4. CountInv' /\ \A c \in Connections : fetching[c].count < broadcasts'
  BY <1>1 DEF CountInv, VersionTypeOK, FetchShapes
<1>5. CurrentInv' /\ QueuedWins'
  BY <1>1 DEF CurrentInv, QueuedWins, managerVars
<1>6. LateInv'
  BY <1>1, <1>4 DEF LateInv, ObserverDue
<1> QED
  BY <1>2, <1>3, <1>4, <1>5, <1>6

LEMMA StopsInv == ASSUME VersionInv, StopsService PROVE VersionInv'
<1> USE DEF VersionInv
<1>1. /\ UNCHANGED <<managerVars, connection, broadcasts, fetching, queueing, sendLock, overtaken>>
      /\ stopping' = TRUE /\ pendingVersion' \in [RequestIds -> BOOLEAN]
  BY DEF StopsService, VersionTypeOK
<1>2. VersionTypeOK'
  BY <1>1 DEF VersionTypeOK, managerVars
<1>3. LockInv' /\ CurrentInv' /\ CountInv' /\ QueuedWins'
  BY <1>1 DEF LockInv, CurrentInv, CountInv, QueuedWins, managerVars
<1>4. LateInv'
  BY <1>1 DEF LateInv, Had, Storing, UnderWay, managerVars
<1> QED
  BY <1>2, <1>3, <1>4

LEMMA VersionNextInv == VersionInv /\ [VersionNext]_versionVars => VersionInv'
<1> SUFFICES ASSUME VersionInv, [VersionNext]_versionVars PROVE VersionInv'
  OBVIOUS
<1>1. CASE UNCHANGED versionVars
  BY <1>1 DEF versionVars, VersionInv, VersionTypeOK, LockInv, CurrentInv, CountInv, LateInv,
              QueuedWins,
              Had, Storing, UnderWay
<1>2. CASE VersionNext
  BY <1>2, ConnectsInv, RemovedInv, ObservesInv, PendingInv, FetchInv, FetchSendsInv, QueueInv,
     BroadcastsInv, StoresInv, StopsInv DEF VersionNext
<1> QED
  BY <1>1, <1>2

LEMMA VersionSpecInv == VersionSpec => []VersionInv
<1> QED
  BY VersionInitInv, VersionNextInv, PTL DEF VersionSpec

----------------------------------------------------------------------------
\* Every variable of the version service keeps its shape.
THEOREM VersionTypeCorrect == VersionSpec => []VersionTypeOK
<1>1. VersionInv => VersionTypeOK
  BY DEF VersionInv
<1> QED
  BY <1>1, VersionSpecInv, PTL

\* A stream never gets a fetched version after a queued one (frontend_version_service.py),
\* but for a stream the queued one reached before an observer of its request ID was called.
THEOREM QueuedCorrect == VersionSpec => []QueuedWins
<1>1. VersionInv => QueuedWins
  BY DEF VersionInv
<1> QED
  BY <1>1, VersionSpecInv, PTL

----------------------------------------------------------------------------
(***************************************************************************)
(* The backend's streams.                                                  *)
(***************************************************************************)

\* The registry names streams being served, each under its own ID.
ListedAreServed ==
    \A id \in Ids : registry[id] # None =>
        stream[registry[id]].at \in Serving /\ stream[registry[id]].id = id

\* Only a stream just registered has one to close.
ReplacesOnce == \A c \in Streams : stream[c].at = "registered" <=> stream[c].replaced # None

\* Nothing is offered to a stream that is not registered yet.
AskedIsNew ==
    \A c \in Streams :
        stream[c].at = "asked" => ~stream[c].missed /\ \A s \in sends : c \notin s.left

PlacesInv ==
    /\ ListedAreServed /\ ReplacesOnce /\ AskedIsNew
    /\ \A c \in Streams : stream[c].at # "over" => stream[c].id \in Ids

ServerInv == ServerTypeOK /\ PlacesInv /\ OpenIsReached

USE StreamsAssumption, LimitsAssumption

LEMMA NoneIsNone == None \notin Streams /\ None \notin Ids
BY DEF None

LEMMA AskedType == \A id \in Ids : Asked(id) \in StreamRecords /\ Len(Asked(id).queue) = 0
BY DEF Asked, StreamRecords, Serving, None

LEMMA OverType ==
  /\ Over \in StreamRecords /\ Len(Over.queue) = 0
  /\ Over.at = "over" /\ Over.closed /\ ~Over.gone /\ Over.replaced = None /\ ~Over.missed
<1>1. Asked(None) \in StreamRecords /\ Asked(None).replaced = None /\ ~Asked(None).gone
      /\ Asked(None).queue = << >> /\ ~Asked(None).missed
  BY DEF Asked, StreamRecords, Serving
<1> HIDE DEF Asked
<1> QED
  BY <1>1 DEF Over, StreamRecords, Serving

LEMMA ServerInitInv == ServerInit => ServerInv
<1> SUFFICES ASSUME ServerInit PROVE ServerInv
  OBVIOUS
<1>1. \A c \in Streams : stream[c] = Over
  BY DEF ServerInit
<1>2. stream \in [Streams -> StreamRecords] /\ \A c \in Streams : Len(stream[c].queue) <= MaxFrames
  BY <1>1, OverType DEF ServerInit
<1>3. registry \in [Ids -> Streams \cup {None}]
  BY DEF ServerInit
<1>6. shutting \in BOOLEAN /\ ending \subseteq Streams /\ sends \subseteq SendRecords
  BY DEF ServerInit
<1>7. events \in 0..MaxEvents
  BY DEF ServerInit
<1>4. ServerTypeOK
  BY <1>2, <1>3, <1>6, <1>7 DEF ServerTypeOK
<1>5. PlacesInv /\ OpenIsReached
  BY <1>1, OverType DEF ServerInit, PlacesInv, ListedAreServed, ReplacesOnce, AskedIsNew,
     OpenIsReached, Serving
<1> QED
  BY <1>4, <1>5 DEF ServerInv

\* Streams are closed or left, write or start their body: no more than that.
\* The registry is a function to streams.
LEMMA ListedType ==
  ASSUME ServerInv, NEW id \in Ids, registry[id] # None
  PROVE  /\ registry[id] \in Streams
         /\ stream[registry[id]].at \in Serving /\ stream[registry[id]].id = id
<1>1. registry[id] \in Streams
  BY DEF ServerInv, ServerTypeOK
<1> QED
  BY <1>1 DEF ServerInv, PlacesInv, ListedAreServed

LEMMA MarksInv ==
  ASSUME ServerInv, stream' \in [Streams -> StreamRecords],
         \A c \in Streams :
            /\ stream'[c].id = stream[c].id /\ stream'[c].replaced = stream[c].replaced
            /\ stream'[c].missed <=> stream[c].missed
            /\ Len(stream'[c].queue) <= MaxFrames
            /\ \/ stream'[c].at = stream[c].at
               \/ stream[c].at = "starting" /\ stream'[c].at = "body"
            /\ stream[c].closed => stream'[c].closed,
         UNCHANGED <<registry, sends>>, shutting' \in BOOLEAN, ending' \subseteq Streams,
         events' \in 0..MaxEvents
  PROVE  ServerInv'
<1> USE DEF ServerInv
<1>1. ServerTypeOK'
  BY DEF ServerTypeOK
<1>2. PlacesInv'
  <2>1. \A id \in Ids : registry'[id] # None =>
         stream'[registry'[id]].at \in Serving /\ stream'[registry'[id]].id = id
    <3> SUFFICES ASSUME NEW id \in Ids, registry'[id] # None
                 PROVE  stream'[registry'[id]].at \in Serving /\ stream'[registry'[id]].id = id
      OBVIOUS
    <3>1. \A c \in Streams : stream[c].at \in Serving => stream'[c].at \in Serving
      BY DEF Serving
    <3>2. \A c \in Streams : stream'[c].id = stream[c].id
      OBVIOUS
    <3>3. registry'[id] = registry[id] /\ registry[id] \in Streams
          /\ stream[registry[id]].at \in Serving /\ stream[registry[id]].id = id
      BY ListedType
    <3> QED
      BY <3>1, <3>2, <3>3
  <2>2. \A c \in Streams : stream'[c].at = "registered" <=> stream'[c].replaced # None
    BY DEF PlacesInv, ReplacesOnce
  <2>3. \A c \in Streams : stream'[c].at # "over" => stream'[c].id \in Ids
    BY DEF PlacesInv
  <2>4. \A c \in Streams : stream'[c].at = "asked" =>
         ~stream'[c].missed /\ \A s \in sends' : c \notin s.left
    BY DEF PlacesInv, AskedIsNew
  <2> QED
    BY <2>1, <2>2, <2>3, <2>4 DEF PlacesInv, ListedAreServed, ReplacesOnce, AskedIsNew
<1>3. OpenIsReached'
  BY DEF OpenIsReached, ServerTypeOK, Serving
<1> QED
  BY <1>1, <1>2, <1>3

LEMMA RegisterInv == ASSUME ServerInv, NEW c \in Streams, Register(c) PROVE ServerInv'
<1> USE DEF ServerInv
<1>1. stream[c] \in StreamRecords /\ stream[c].at = "asked" /\ stream[c].id \in Ids
      /\ UNCHANGED <<shutting, ending, sends, events>>
  BY DEF Register, ServerTypeOK, PlacesInv
<1>2. CASE shutting
  <2>1. /\ UNCHANGED registry
        /\ [stream[c] EXCEPT !.at = "starting", !.closed = TRUE] \in StreamRecords
    BY <1>1, <1>2 DEF Register, StreamRecords, Serving
  <2>2. \A d \in Streams :
          /\ stream'[d].id = stream[d].id /\ stream'[d].replaced = stream[d].replaced
          /\ stream'[d].missed = stream[d].missed /\ stream'[d].queue = stream[d].queue
          /\ stream'[d].at = IF d = c THEN "starting" ELSE stream[d].at
          /\ stream'[d].closed <=> (d = c \/ stream[d].closed)
    BY <1>1, <1>2 DEF Register, StreamRecords, ServerTypeOK
  <2>3. ServerTypeOK'
    <3>1. stream' = [stream EXCEPT ![c] = [stream[c] EXCEPT !.at = "starting", !.closed = TRUE]]
      BY <1>1, <1>2 DEF Register, ServerTypeOK, StreamRecords
    <3>2. stream' \in [Streams -> StreamRecords]
      BY <2>1, <3>1 DEF ServerTypeOK
    <3>3. \A d \in Streams : Len(stream'[d].queue) <= MaxFrames
      BY <2>2 DEF ServerTypeOK
    <3> QED
      BY <1>1, <1>2, <2>1, <3>2, <3>3 DEF ServerTypeOK
  <2>4. PlacesInv'
    <3>1. ListedAreServed'
      BY <1>1, <2>1, <2>2, ListedType DEF ListedAreServed, Serving
    <3>2. /\ ReplacesOnce' /\ AskedIsNew'
          /\ \A d \in Streams : stream'[d].at # "over" => stream'[d].id \in Ids
      BY <1>1, <2>1, <2>2 DEF PlacesInv, ReplacesOnce, AskedIsNew
    <3> QED
      BY <3>1, <3>2 DEF PlacesInv
  <2>5. OpenIsReached'
    BY <1>1, <2>1, <2>2 DEF OpenIsReached, ServerTypeOK, Serving
  <2> QED
    BY <2>3, <2>4, <2>5
<1>3. CASE ~shutting
  <2> DEFINE old == registry[stream[c].id]
  <2>1. old \in Streams \cup {None} /\ registry' = [registry EXCEPT ![stream[c].id] = c]
        /\ [stream[c] EXCEPT !.at = IF old = None THEN "starting" ELSE "registered",
                             !.replaced = old] \in StreamRecords
    BY <1>1, <1>3 DEF Register, StreamRecords, Serving, ServerTypeOK
  <2>2. \A d \in Streams :
          /\ stream'[d].id = stream[d].id
          /\ stream'[d].replaced = IF d = c THEN old ELSE stream[d].replaced
          /\ stream'[d].missed = stream[d].missed /\ stream'[d].queue = stream[d].queue
          /\ stream'[d].at = IF d = c THEN (IF old = None THEN "starting" ELSE "registered")
                             ELSE stream[d].at
          /\ stream'[d].closed = stream[d].closed
    BY <1>1, <1>3 DEF Register, StreamRecords, ServerTypeOK
  <2>3. ServerTypeOK'
    <3>1. stream' = [stream EXCEPT ![c] =
                       [stream[c] EXCEPT !.at = IF old = None THEN "starting" ELSE "registered",
                                         !.replaced = old]]
      BY <1>1, <1>3 DEF Register, ServerTypeOK, StreamRecords
    <3>2. stream' \in [Streams -> StreamRecords]
      BY <2>1, <3>1 DEF ServerTypeOK
    <3>3. \A d \in Streams : Len(stream'[d].queue) <= MaxFrames
      BY <2>2 DEF ServerTypeOK
    <3>4. registry' \in [Ids -> Streams \cup {None}]
      BY <1>1, <2>1 DEF ServerTypeOK
    <3> QED
      BY <1>1, <1>3, <3>2, <3>3, <3>4 DEF Register, ServerTypeOK
  <2>4. \A id \in Ids : registry'[id] = IF id = stream[c].id THEN c ELSE registry[id]
    BY <1>1, <2>1 DEF ServerTypeOK
  <2>5. PlacesInv'
    <3>1. ListedAreServed'
      BY <1>1, <2>1, <2>2, <2>4, ListedType DEF ListedAreServed, Serving
    <3>2. /\ ReplacesOnce' /\ AskedIsNew'
          /\ \A d \in Streams : stream'[d].at # "over" => stream'[d].id \in Ids
      BY <1>1, <2>1, <2>2 DEF PlacesInv, ReplacesOnce, AskedIsNew
    <3> QED
      BY <3>1, <3>2 DEF PlacesInv
  <2>6. OpenIsReached'
    <3> SUFFICES ASSUME NEW d \in Streams, stream'[d].at \in Serving, ~stream'[d].closed
                 PROVE  /\ \/ registry'[stream[d].id] = d
                           \/ \E e \in Streams : stream'[e].replaced = d
                           \/ \E s \in sends : s.dropping = d
                        /\ stream[d].missed => \E s \in sends : d \in s.stalled \/ s.dropping = d
      BY <1>1, <2>2 DEF OpenIsReached
    <3>1. CASE d = c
      BY <1>1, <2>4, <3>1 DEF PlacesInv, AskedIsNew
    <3>2. CASE d # c
      <4>1. stream[d].at \in Serving /\ ~stream[d].closed /\ stream[d].id \in Ids
        BY <2>2, <3>2 DEF PlacesInv, Serving
      <4>2. CASE registry[stream[d].id] = d
        <5>1. stream[d].missed => \E s \in sends : d \in s.stalled \/ s.dropping = d
          BY <4>1 DEF OpenIsReached
        <5>2. CASE stream[d].id = stream[c].id
          BY <4>2, <5>1, <5>2, <2>2
        <5>3. CASE stream[d].id # stream[c].id
          BY <4>1, <4>2, <5>1, <5>3, <2>4
        <5> QED
          BY <5>2, <5>3
      <4>3. CASE \E e \in Streams : stream[e].replaced = d
        <5>1. stream[c].replaced = None
          BY <1>1 DEF PlacesInv, ReplacesOnce
        <5> QED
          BY <5>1, <2>2, <4>1, <4>3, NoneIsNone DEF OpenIsReached
      <4> QED
        BY <4>1, <4>2, <4>3 DEF OpenIsReached
    <3> QED
      BY <3>1, <3>2
  <2> QED
    BY <2>3, <2>5, <2>6
<1> QED
  BY <1>2, <1>3

LEMMA CloseReplacedInv == ASSUME ServerInv, NEW c \in Streams, CloseReplaced(c) PROVE ServerInv'
<1> USE DEF ServerInv
<1> DEFINE old == stream[c].replaced
<1>1. stream[c] \in StreamRecords /\ stream[c].at = "registered" /\ old \in Streams
      /\ stream[old] \in StreamRecords /\ UNCHANGED <<registry, shutting, ending, sends, events>>
  BY DEF CloseReplaced, ServerTypeOK, PlacesInv, ReplacesOnce, StreamRecords
<1>2. /\ stream' \in [Streams -> StreamRecords]
      /\ \A d \in Streams :
          /\ stream'[d].id = stream[d].id
          /\ stream'[d].replaced = IF d = c THEN None ELSE stream[d].replaced
          /\ stream'[d].missed <=> stream[d].missed
          /\ stream'[d].queue = stream[d].queue
          /\ stream'[d].at = IF d = c THEN "starting" ELSE stream[d].at
          /\ stream'[d].closed <=> (d = old \/ stream[d].closed)
  <2> DEFINE left == [stream EXCEPT ![c].at = "starting", ![c].replaced = None]
  <2>1. [stream[c] EXCEPT !.at = "starting", !.replaced = None] \in StreamRecords
    BY <1>1 DEF StreamRecords, Serving
  <2>2. left \in [Streams -> StreamRecords]
        /\ \A d \in Streams : left[d] =
              IF d = c THEN [stream[c] EXCEPT !.at = "starting", !.replaced = None] ELSE stream[d]
    BY <2>1 DEF ServerTypeOK
  <2>3. stream' = [left EXCEPT ![old].closed = TRUE]
    BY DEF CloseReplaced
  <2> HIDE DEF left
  <2>4. [left[old] EXCEPT !.closed = TRUE] \in StreamRecords
    BY <2>2, <1>1 DEF StreamRecords
  <2>5. stream' \in [Streams -> StreamRecords]
        /\ \A d \in Streams :
              stream'[d] = IF d = old THEN [left[d] EXCEPT !.closed = TRUE] ELSE left[d]
    BY <1>1, <2>2, <2>3, <2>4
  <2>6. \A d \in Streams : stream[d] \in StreamRecords
    BY DEF ServerTypeOK
  <2>7. \A d \in Streams :
          /\ left[d].id = stream[d].id /\ left[d].queue = stream[d].queue
          /\ left[d].missed <=> stream[d].missed
          /\ left[d].closed <=> stream[d].closed
          /\ left[d].replaced = IF d = c THEN None ELSE stream[d].replaced
          /\ left[d].at = IF d = c THEN "starting" ELSE stream[d].at
    <3> DEFINE x == [stream[c] EXCEPT !.at = "starting", !.replaced = None]
    <3>1. /\ x.id = stream[c].id /\ x.queue = stream[c].queue
          /\ x.missed <=> stream[c].missed
          /\ x.closed <=> stream[c].closed
          /\ x.replaced = None /\ x.at = "starting"
      BY <1>1 DEF StreamRecords
    <3> HIDE DEF x
    <3> QED
      BY <2>2, <3>1 DEF x
  <2>8. \A d \in Streams : left[d] \in StreamRecords
    BY <2>2
  <2>9. \A d \in Streams :
          /\ stream'[d].id = left[d].id /\ stream'[d].queue = left[d].queue
          /\ stream'[d].missed <=> left[d].missed
          /\ stream'[d].closed <=> (d = old \/ left[d].closed)
          /\ stream'[d].replaced = left[d].replaced /\ stream'[d].at = left[d].at
    BY <2>5, <2>8 DEF StreamRecords
  <2> QED
    BY <2>5, <2>7, <2>9
<1>3. ServerTypeOK'
  BY <1>1, <1>2 DEF ServerTypeOK
<1>4. PlacesInv'
  <2>1. ListedAreServed'
    BY <1>1, <1>2, ListedType DEF ListedAreServed, Serving
  <2>2. /\ ReplacesOnce' /\ AskedIsNew'
        /\ \A d \in Streams : stream'[d].at # "over" => stream'[d].id \in Ids
    BY <1>1, <1>2 DEF PlacesInv, ReplacesOnce, AskedIsNew
  <2> QED
    BY <2>1, <2>2 DEF PlacesInv
<1>5. OpenIsReached'
  BY <1>1, <1>2, NoneIsNone DEF OpenIsReached, PlacesInv, ServerTypeOK, Serving
<1> QED
  BY <1>3, <1>4, <1>5

\* A stream's own steps once it is registered, and its browser's.
LEMMA StartsInv == ASSUME ServerInv, NEW c \in Streams, Starts(c) PROVE ServerInv'
<1>1. stream[c] \in StreamRecords
  BY DEF ServerInv, ServerTypeOK
<1>2. [stream[c] EXCEPT !.at = "body"] \in StreamRecords
  BY <1>1 DEF StreamRecords, Serving
<1>3. stream' \in [Streams -> StreamRecords] /\ \A d \in Streams :
        stream'[d] = IF d = c THEN [stream[c] EXCEPT !.at = "body"] ELSE stream[d]
  BY <1>2 DEF ServerInv, ServerTypeOK, Starts
<1>4. \A d \in Streams :
        /\ stream'[d].id = stream[d].id /\ stream'[d].replaced = stream[d].replaced
        /\ stream'[d].missed = stream[d].missed /\ stream'[d].queue = stream[d].queue
        /\ stream'[d].at = IF d = c THEN "body" ELSE stream[d].at
        /\ stream'[d].closed = stream[d].closed
  BY <1>1, <1>3 DEF StreamRecords
<1>5. stream[c].at = "starting" /\ UNCHANGED <<registry, shutting, ending, sends, events>>
  BY DEF Starts
<1> QED
  BY <1>3, <1>4, <1>5, MarksInv DEF ServerInv, ServerTypeOK

LEMMA WritesInv == ASSUME ServerInv, NEW c \in Streams, Writes(c) PROVE ServerInv'
<1>1. stream[c] \in StreamRecords /\ stream[c].queue # << >> /\ Len(stream[c].queue) <= MaxFrames
  BY DEF ServerInv, ServerTypeOK, Writes
<1>2. /\ Tail(stream[c].queue) \in Seq(1..MaxEvents)
      /\ Len(Tail(stream[c].queue)) <= MaxFrames
  <2>1. stream[c].queue \in Seq(1..MaxEvents)
    BY <1>1 DEF StreamRecords
  <2>2. Len(stream[c].queue) \in Nat /\ Len(Tail(stream[c].queue)) = Len(stream[c].queue) - 1
    BY <1>1, <2>1, HeadTailProperties
  <2> QED
    <3>1. Tail(stream[c].queue) \in Seq(1..MaxEvents)
      BY <1>1, <2>1, HeadTailProperties
    <3>2. Len(stream[c].queue) - 1 <= MaxFrames
      BY <1>1, <2>2
    <3> QED
      BY <2>2, <3>1, <3>2
<1>3. [stream[c] EXCEPT !.queue = Tail(@)] \in StreamRecords
  BY <1>1, <1>2 DEF StreamRecords
<1>4. stream' \in [Streams -> StreamRecords] /\ \A d \in Streams :
        stream'[d] = IF d = c THEN [stream[c] EXCEPT !.queue = Tail(@)] ELSE stream[d]
  BY <1>3 DEF ServerInv, ServerTypeOK, Writes
<1>5. \A d \in Streams :
        /\ stream'[d].id = stream[d].id /\ stream'[d].replaced = stream[d].replaced
        /\ (stream'[d].missed <=> stream[d].missed) /\ stream'[d].at = stream[d].at
        /\ stream'[d].queue = IF d = c THEN Tail(stream[c].queue) ELSE stream[d].queue
        /\ stream'[d].closed <=> stream[d].closed
  <2> DEFINE x == [stream[c] EXCEPT !.queue = Tail(@)]
  <2>1. /\ x.id = stream[c].id /\ x.replaced = stream[c].replaced
        /\ (x.missed <=> stream[c].missed) /\ x.at = stream[c].at
        /\ x.queue = Tail(stream[c].queue)
        /\ x.closed <=> stream[c].closed
    BY <1>1 DEF StreamRecords
  <2> HIDE DEF x
  <2> QED
    BY <1>4, <2>1 DEF x
<1>6. UNCHANGED <<registry, shutting, ending, sends, events>>
  BY DEF Writes
<1> QED
  BY <1>2, <1>4, <1>5, <1>6, MarksInv DEF ServerInv, ServerTypeOK

\* A stream whose browser reads it no more.
LEMMA GoneInv ==
  ASSUME ServerInv, NEW c \in Streams, stream' = [stream EXCEPT ![c].gone = TRUE],
         UNCHANGED <<registry, shutting, ending, sends, events>>
  PROVE  ServerInv'
<1>1. stream[c] \in StreamRecords
  BY DEF ServerInv, ServerTypeOK
<1>2. [stream[c] EXCEPT !.gone = TRUE] \in StreamRecords
  BY <1>1 DEF StreamRecords
<1>3. stream' \in [Streams -> StreamRecords] /\ \A d \in Streams :
        stream'[d] = IF d = c THEN [stream[c] EXCEPT !.gone = TRUE] ELSE stream[d]
  BY <1>2 DEF ServerInv, ServerTypeOK
<1>4. \A d \in Streams :
        /\ stream'[d].id = stream[d].id /\ stream'[d].replaced = stream[d].replaced
        /\ stream'[d].missed = stream[d].missed /\ stream'[d].queue = stream[d].queue
        /\ stream'[d].at = stream[d].at /\ stream'[d].closed = stream[d].closed
  BY <1>1, <1>3 DEF StreamRecords
<1> QED
  BY <1>3, <1>4, MarksInv DEF ServerInv, ServerTypeOK

\* The shutdown handler's steps.
LEMMA PrepareShutdownInv == ASSUME ServerInv, PrepareShutdown PROVE ServerInv'
<1>1. Registered \subseteq Streams
  BY DEF ServerInv, ServerTypeOK, Registered
<1> QED
  BY <1>1, MarksInv DEF PrepareShutdown, ServerInv, ServerTypeOK

LEMMA CloseInv == ASSUME ServerInv, NEW c \in Streams, Close(c) PROVE ServerInv'
<1>1. stream[c] \in StreamRecords
  BY DEF ServerInv, ServerTypeOK
<1>2. [stream[c] EXCEPT !.closed = TRUE] \in StreamRecords
  BY <1>1 DEF StreamRecords
<1>3. stream' \in [Streams -> StreamRecords] /\ \A d \in Streams :
        stream'[d] = IF d = c THEN [stream[c] EXCEPT !.closed = TRUE] ELSE stream[d]
  BY <1>2 DEF ServerInv, ServerTypeOK, Close
<1>4. \A d \in Streams :
        /\ stream'[d].id = stream[d].id /\ stream'[d].replaced = stream[d].replaced
        /\ (stream'[d].missed <=> stream[d].missed) /\ stream'[d].queue = stream[d].queue
        /\ stream'[d].at = stream[d].at /\ (stream[d].closed => stream'[d].closed)
  BY <1>1, <1>3 DEF StreamRecords
<1>5. ending' \subseteq Streams /\ UNCHANGED <<registry, shutting, sends, events>>
  BY DEF Close, ServerInv, ServerTypeOK
<1> QED
  BY <1>3, <1>4, <1>5, MarksInv DEF ServerInv, ServerTypeOK

\* A stream unregistered: what Without leaves of the registry.
LEMMA WithoutType ==
  ASSUME ServerInv, NEW c \in Streams
  PROVE  /\ Without(c) \in [Ids -> Streams \cup {None}]
         /\ \A id \in Ids : Without(c)[id] = IF registry[id] = c THEN None ELSE registry[id]
BY DEF Without, ServerInv, ServerTypeOK

LEMMA LeaveInv == ASSUME ServerInv, NEW c \in Streams, Leave(c) PROVE ServerInv'
<1> USE DEF ServerInv
<1>1. /\ stream[c].at \in {"starting", "body"} /\ stream[c].replaced = None
      /\ registry' = Without(c) /\ UNCHANGED <<shutting, ending, sends, events>>
  BY DEF Leave, Ends, PlacesInv, ReplacesOnce
<1>2. stream' \in [Streams -> StreamRecords] /\ \A d \in Streams :
        stream'[d] = IF d = c THEN Over ELSE stream[d]
  BY OverType DEF Leave, ServerTypeOK
<1>3. \A id \in Ids : registry'[id] = IF registry[id] = c THEN None ELSE registry[id]
  BY <1>1, WithoutType
<1>4. ServerTypeOK'
  BY <1>1, <1>2, OverType, WithoutType DEF ServerTypeOK
<1>5. PlacesInv'
  <2>1. ListedAreServed'
    BY <1>2, <1>3, ListedType DEF ListedAreServed
  <2>2. /\ ReplacesOnce' /\ AskedIsNew'
        /\ \A d \in Streams : stream'[d].at # "over" => stream'[d].id \in Ids
    BY <1>1, <1>2, OverType DEF PlacesInv, ReplacesOnce, AskedIsNew
  <2> QED
    BY <2>1, <2>2 DEF PlacesInv
<1>6. OpenIsReached'
  <2> SUFFICES ASSUME NEW d \in Streams, stream'[d].at \in Serving, ~stream'[d].closed
               PROVE  /\ \/ registry'[stream'[d].id] = d
                         \/ \E e \in Streams : stream'[e].replaced = d
                         \/ \E s \in sends : s.dropping = d
                      /\ stream'[d].missed => \E s \in sends : d \in s.stalled \/ s.dropping = d
    BY <1>1 DEF OpenIsReached
  <2>1. d # c /\ stream'[d] = stream[d] /\ stream[d].id \in Ids
    BY <1>2, OverType DEF PlacesInv, Serving
  <2>2. \A e \in Streams : stream[e].replaced = d => e # c
    BY <1>1, NoneIsNone
  <2> QED
    BY <1>2, <1>3, <2>1, <2>2 DEF OpenIsReached
<1> QED
  BY <1>4, <1>5, <1>6

\* A stream that ends before it is registered: refused, or given up.
LEMMA NeverServedInv ==
  ASSUME ServerInv, NEW c \in Streams, stream[c].at = "asked",
         stream' = [stream EXCEPT ![c] = Over],
         UNCHANGED <<registry, shutting, ending, sends, events>>
  PROVE  ServerInv'
<1> USE DEF ServerInv
<1>1. stream' \in [Streams -> StreamRecords] /\ \A d \in Streams :
        stream'[d] = IF d = c THEN Over ELSE stream[d]
  BY OverType DEF ServerTypeOK
<1>2. stream[c].replaced = None
  BY DEF PlacesInv, ReplacesOnce
<1>3. ServerTypeOK'
  BY <1>1, OverType DEF ServerTypeOK
<1>4. PlacesInv'
  <2>1. ListedAreServed'
    BY <1>1, ListedType DEF ListedAreServed, Serving
  <2>2. /\ ReplacesOnce' /\ AskedIsNew'
        /\ \A d \in Streams : stream'[d].at # "over" => stream'[d].id \in Ids
    BY <1>1, OverType DEF PlacesInv, ReplacesOnce, AskedIsNew
  <2> QED
    BY <2>1, <2>2 DEF PlacesInv
<1>5. OpenIsReached'
  <2> SUFFICES ASSUME NEW d \in Streams, stream'[d].at \in Serving, ~stream'[d].closed
               PROVE  /\ \/ registry[stream'[d].id] = d
                         \/ \E e \in Streams : stream'[e].replaced = d
                         \/ \E s \in sends : s.dropping = d
                      /\ stream'[d].missed => \E s \in sends : d \in s.stalled \/ s.dropping = d
    BY DEF OpenIsReached
  <2>1. d # c /\ stream'[d] = stream[d]
    BY <1>1, OverType
  <2>2. \A e \in Streams : stream[e].replaced = d => e # c
    BY <1>2, NoneIsNone
  <2> QED
    BY <1>1, <2>1, <2>2 DEF OpenIsReached
<1> QED
  BY <1>3, <1>4, <1>5

\* A request for a stream, in a free slot; others may be left by their browser.
LEMMA AskInv ==
  ASSUME ServerInv, NEW c \in Streams, Free(c), NEW id \in Ids,
         stream' \in [Streams -> StreamRecords], stream'[c] = Asked(id),
         \A d \in Streams : d # c =>
            /\ stream'[d].at = stream[d].at /\ stream'[d].id = stream[d].id
            /\ stream'[d].queue = stream[d].queue /\ (stream'[d].closed <=> stream[d].closed)
            /\ stream'[d].replaced = stream[d].replaced
            /\ stream'[d].missed <=> stream[d].missed,
         UNCHANGED <<registry, shutting, ending, sends, events>>
  PROVE  ServerInv'
<1> USE DEF ServerInv
<1>1. stream'[c].at = "asked" /\ stream'[c].id = id /\ ~stream'[c].missed
      /\ stream'[c].replaced = None /\ Len(stream'[c].queue) = 0
  BY DEF Asked
<1>2. stream[c].at = "over" /\ stream[c].replaced = None /\ \A s \in sends : c \notin s.left
  BY DEF Free, PlacesInv, ReplacesOnce
<1>3. ServerTypeOK'
  BY <1>1 DEF ServerTypeOK
<1>4. PlacesInv'
  <2>1. ListedAreServed'
    BY <1>2, ListedType DEF ListedAreServed, Serving
  <2>2. ReplacesOnce' /\ \A d \in Streams : stream'[d].at # "over" => stream'[d].id \in Ids
    BY <1>1 DEF PlacesInv, ReplacesOnce
  <2>3. AskedIsNew'
    BY <1>1, <1>2 DEF PlacesInv, AskedIsNew
  <2> QED
    BY <2>1, <2>2, <2>3 DEF PlacesInv
<1>5. OpenIsReached'
  <2> SUFFICES ASSUME NEW d \in Streams, stream'[d].at \in Serving, ~stream'[d].closed
               PROVE  /\ \/ registry[stream'[d].id] = d
                         \/ \E e \in Streams : stream'[e].replaced = d
                         \/ \E s \in sends : s.dropping = d
                      /\ stream'[d].missed => \E s \in sends : d \in s.stalled \/ s.dropping = d
    BY DEF OpenIsReached
  <2>1. d # c
    BY <1>1 DEF Serving
  <2>2. \A e \in Streams : stream[e].replaced = d => e # c
    BY <1>2, NoneIsNone
  <2>3. stream[d].at \in Serving /\ ~stream[d].closed /\ stream'[d].id = stream[d].id
        /\ (stream'[d].missed => stream[d].missed)
    BY <2>1
  <2>4. \A e \in Streams : stream[e].replaced = d => stream'[e].replaced = d
    BY <2>2
  <2> QED
    BY <2>3, <2>4 DEF OpenIsReached
<1> QED
  BY <1>3, <1>4, <1>5

\* What a step of the send s, t from there on, keeps of every stream: its thread's
\* place, and whoever is about to close it.
Carried(s, t) ==
    \A c \in Streams :
        /\ stream'[c].id = stream[c].id /\ stream'[c].replaced = stream[c].replaced
        /\ stream'[c].at = stream[c].at /\ Len(stream'[c].queue) <= MaxFrames
        /\ stream[c].closed => stream'[c].closed
        /\ ~(stream'[c].missed <=> stream[c].missed) => c \in s.left /\ c \in t.stalled
        /\ stream[c].at \in Serving /\ ~stream'[c].closed =>
              /\ s.dropping = c => t.dropping = c
              /\ c \in s.stalled => c \in t.stalled \/ t.dropping = c
              /\ registry[stream[c].id] = c =>
                    registry'[stream[c].id] = c \/ t.dropping = c

\* A send replaced by one that has gone a step further.
LEMMA SendStepInv ==
  ASSUME ServerInv, NEW s \in sends, NEW t \in SendRecords, Replace(s, t),
         t.left \subseteq s.left,
         stream' \in [Streams -> StreamRecords],
         registry' \in [Ids -> Streams \cup {None}],
         \A id \in Ids : registry'[id] \in {registry[id], None},
         Carried(s, t),
         UNCHANGED <<shutting, ending, events>>
  PROVE  ServerInv'
<1> USE DEF ServerInv, Carried
<1>1. sends' = (sends \ {s}) \cup {t}
  BY DEF Replace
<1>2. ServerTypeOK'
  BY <1>1 DEF ServerTypeOK
<1>3. PlacesInv'
  <2>1. ListedAreServed'
    <3> SUFFICES ASSUME NEW id \in Ids, registry'[id] # None
                 PROVE  stream'[registry'[id]].at \in Serving /\ stream'[registry'[id]].id = id
      BY DEF ListedAreServed
    <3>1. registry'[id] = registry[id]
      OBVIOUS
    <3>2. registry[id] \in Streams
          /\ stream[registry[id]].at \in Serving /\ stream[registry[id]].id = id
      BY <3>1, ListedType
    <3> QED
      BY <3>1, <3>2
  <2>2. ReplacesOnce' /\ \A d \in Streams : stream'[d].at # "over" => stream'[d].id \in Ids
    BY DEF PlacesInv, ReplacesOnce
  <2>3. AskedIsNew'
    <3> SUFFICES ASSUME NEW d \in Streams, stream'[d].at = "asked"
                 PROVE  ~stream'[d].missed /\ \A u \in sends' : d \notin u.left
      BY DEF AskedIsNew
    <3>1. ~stream[d].missed /\ \A u \in sends : d \notin u.left
      BY DEF PlacesInv, AskedIsNew
    <3>2. ~stream'[d].missed
      BY <3>1
    <3> QED
      BY <1>1, <3>1, <3>2
  <2> QED
    BY <2>1, <2>2, <2>3 DEF PlacesInv
<1>4. OpenIsReached'
  <2> SUFFICES ASSUME NEW d \in Streams, stream'[d].at \in Serving, ~stream'[d].closed
               PROVE  /\ \/ registry'[stream'[d].id] = d
                         \/ \E e \in Streams : stream'[e].replaced = d
                         \/ \E u \in sends' : u.dropping = d
                      /\ stream'[d].missed => \E u \in sends' : d \in u.stalled \/ u.dropping = d
    BY DEF OpenIsReached
  <2>1. stream[d].at \in Serving /\ ~stream[d].closed /\ stream'[d].id = stream[d].id
    OBVIOUS
  <2>2. /\ s.dropping = d => t.dropping = d
        /\ d \in s.stalled => d \in t.stalled \/ t.dropping = d
        /\ registry[stream[d].id] = d => registry'[stream[d].id] = d \/ t.dropping = d
    BY <2>1
  <2>3. \/ registry'[stream'[d].id] = d
        \/ \E e \in Streams : stream'[e].replaced = d
        \/ \E u \in sends' : u.dropping = d
    <3>1. CASE registry[stream[d].id] = d
      BY <1>1, <2>1, <2>2, <3>1
    <3>2. CASE \E e \in Streams : stream[e].replaced = d
      BY <3>2
    <3>3. CASE \E u \in sends : u.dropping = d
      BY <1>1, <2>2, <3>3
    <3> QED
      BY <2>1, <3>1, <3>2, <3>3 DEF OpenIsReached
  <2>4. ASSUME stream'[d].missed PROVE \E u \in sends' : d \in u.stalled \/ u.dropping = d
    <3>1. CASE stream[d].missed
      <4>1. \E u \in sends : d \in u.stalled \/ u.dropping = d
        BY <2>1, <3>1 DEF OpenIsReached
      <4> QED
        BY <1>1, <2>2, <4>1
    <3>2. CASE ~stream[d].missed
      <4>1. d \in t.stalled
        BY <2>4, <3>2
      <4> QED
        BY <1>1, <4>1
    <3> QED
      BY <3>1, <3>2
  <2> QED
    BY <2>3, <2>4
<1> QED
  BY <1>2, <1>3, <1>4

LEMMA SendType ==
  ASSUME ServerInv, NEW s \in sends
  PROVE  /\ s \in SendRecords
         /\ s.left \subseteq Streams /\ s.stalled \subseteq Streams
         /\ s.dropping \in Streams \cup {None}
BY DEF ServerInv, ServerTypeOK, SendRecords

LEMMA OfferInv ==
  ASSUME ServerInv, NEW s \in sends, NEW c \in Streams, Offer(s, c) PROVE ServerInv'
<1>1. c \in s.left /\ UNCHANGED <<registry, shutting, ending, events>>
      /\ stream[c] \in StreamRecords /\ Len(stream[c].queue) <= MaxFrames
      /\ registry \in [Ids -> Streams \cup {None}] /\ stream \in [Streams -> StreamRecords]
      /\ \A d \in Streams : Len(stream[d].queue) <= MaxFrames
  BY DEF Offer, ServerInv, ServerTypeOK
<1> DEFINE less == [s EXCEPT !.left = @ \ {c}]
           full == [s EXCEPT !.left = @ \ {c}, !.stalled = @ \cup {c}]
<1>2. /\ less \in SendRecords /\ less.left = s.left \ {c}
      /\ less.stalled = s.stalled /\ less.dropping = s.dropping
      /\ full \in SendRecords /\ full.left = s.left \ {c}
      /\ full.stalled = s.stalled \cup {c} /\ full.dropping = s.dropping
  BY SendType DEF SendRecords
<1>3. CASE stream[c].closed
  <2>1. Replace(s, less) /\ UNCHANGED stream
    BY <1>3 DEF Offer
  <2> HIDE DEF less, full
  <2>2. Carried(s, less)
    BY <1>1, <1>2, <2>1 DEF Carried
  <2> QED
    BY <1>1, <1>2, <2>1, <2>2, SendStepInv
<1>4. CASE ~stream[c].closed /\ Len(stream[c].queue) < MaxFrames
  <2>1. Replace(s, less) /\ stream' = [stream EXCEPT ![c].queue = Append(@, s.event)]
    BY <1>4 DEF Offer
  <2>2. s.event \in 1..MaxEvents /\ stream[c].queue \in Seq(1..MaxEvents)
    BY <1>1, SendType DEF SendRecords, StreamRecords
  <2>3. Append(stream[c].queue, s.event) \in Seq(1..MaxEvents)
        /\ Len(Append(stream[c].queue, s.event)) = Len(stream[c].queue) + 1
    BY <2>2, AppendProperties
  <2>4. Len(stream[c].queue) \in Nat
    BY <2>2, LenProperties
  <2>5. Len(Append(stream[c].queue, s.event)) <= MaxFrames
    BY <1>4, <2>3, <2>4
  <2> DEFINE x == [stream[c] EXCEPT !.queue = Append(@, s.event)]
  <2>6. /\ x.id = stream[c].id /\ x.replaced = stream[c].replaced
        /\ (x.missed <=> stream[c].missed) /\ x.at = stream[c].at
        /\ x.queue = Append(stream[c].queue, s.event)
        /\ x.closed <=> stream[c].closed
    BY <1>1 DEF StreamRecords
  <2>7. x \in StreamRecords
    BY <1>1, <2>3 DEF StreamRecords
  <2>8. stream' = [stream EXCEPT ![c] = x]
    BY <2>1
  <2> HIDE DEF x, less, full
  <2>9. stream' \in [Streams -> StreamRecords]
        /\ \A d \in Streams : stream'[d] = IF d = c THEN x ELSE stream[d]
    BY <1>1, <2>7, <2>8
  <2>10. Carried(s, less)
    BY <1>1, <1>2, <2>5, <2>6, <2>9 DEF Carried
  <2> QED
    BY <1>1, <1>2, <2>1, <2>9, <2>10, SendStepInv
<1>5. CASE ~stream[c].closed /\ ~(Len(stream[c].queue) < MaxFrames)
  <2>1. Replace(s, full) /\ stream' = [stream EXCEPT ![c].missed = TRUE]
    BY <1>5 DEF Offer
  <2> DEFINE x == [stream[c] EXCEPT !.missed = TRUE]
  <2>2. /\ x.id = stream[c].id /\ x.replaced = stream[c].replaced
        /\ x.missed /\ x.at = stream[c].at /\ x.queue = stream[c].queue
        /\ x.closed <=> stream[c].closed
    BY <1>1 DEF StreamRecords
  <2>3. x \in StreamRecords
    BY <1>1 DEF StreamRecords
  <2>4. stream' = [stream EXCEPT ![c] = x]
    BY <2>1
  <2> HIDE DEF x, less, full
  <2>5. stream' \in [Streams -> StreamRecords]
        /\ \A d \in Streams : stream'[d] = IF d = c THEN x ELSE stream[d]
    BY <1>1, <2>3, <2>4
  <2>6. Carried(s, full)
    BY <1>1, <1>2, <2>2, <2>5 DEF Carried
  <2> QED
    BY <1>1, <1>2, <2>1, <2>5, <2>6, SendStepInv
<1> QED
  BY <1>3, <1>4, <1>5

LEMMA UnlistInv ==
  ASSUME ServerInv, NEW s \in sends, NEW c \in Streams, Unlist(s, c) PROVE ServerInv'
<1> DEFINE t == [s EXCEPT !.stalled = @ \ {c}, !.dropping = c]
<1>1. s.dropping = None /\ registry' = Without(c) /\ Replace(s, t)
      /\ UNCHANGED <<stream, shutting, ending, events>>
  BY DEF Unlist
<1>2. /\ t \in SendRecords /\ t.left = s.left
      /\ t.stalled = s.stalled \ {c} /\ t.dropping = c
  BY SendType DEF SendRecords
<1>3. /\ registry' \in [Ids -> Streams \cup {None}]
      /\ \A id \in Ids : registry'[id] = IF registry[id] = c THEN None ELSE registry[id]
  BY <1>1, WithoutType
<1>4. \A d \in Streams : stream[d].at \in Serving => stream[d].id \in Ids
  BY DEF ServerInv, PlacesInv, Serving
<1>5. stream \in [Streams -> StreamRecords]
      /\ \A d \in Streams : Len(stream[d].queue) <= MaxFrames
  BY DEF ServerInv, ServerTypeOK
<1> HIDE DEF t
<1>6. Carried(s, t)
  BY <1>1, <1>2, <1>3, <1>4, <1>5, NoneIsNone DEF Carried
<1> QED
  BY <1>1, <1>2, <1>3, <1>5, <1>6, SendStepInv

LEMMA DropInv == ASSUME ServerInv, NEW s \in sends, Drop(s) PROVE ServerInv'
<1> DEFINE t == [s EXCEPT !.dropping = None]
           c == s.dropping
<1>1. c \in Streams /\ Replace(s, t) /\ stream' = [stream EXCEPT ![c].closed = TRUE]
      /\ UNCHANGED <<registry, shutting, ending, events>>
  BY SendType DEF Drop
<1>2. /\ t \in SendRecords /\ t.left = s.left
      /\ t.stalled = s.stalled /\ t.dropping = None
  BY SendType DEF SendRecords
<1>3. stream \in [Streams -> StreamRecords] /\ registry \in [Ids -> Streams \cup {None}]
      /\ \A d \in Streams : Len(stream[d].queue) <= MaxFrames
  BY DEF ServerInv, ServerTypeOK
<1> DEFINE x == [stream[c] EXCEPT !.closed = TRUE]
<1>4. /\ x.id = stream[c].id /\ x.replaced = stream[c].replaced
      /\ (x.missed <=> stream[c].missed) /\ x.at = stream[c].at
      /\ x.queue = stream[c].queue /\ x.closed
  BY <1>1, <1>3 DEF StreamRecords
<1>5. x \in StreamRecords
  <2>1. stream[c] \in StreamRecords
    BY <1>1, <1>3
  <2> QED
    BY <2>1 DEF StreamRecords
<1>6. stream' = [stream EXCEPT ![c] = x]
  BY <1>1
<1> HIDE DEF x, t
<1>7. stream' \in [Streams -> StreamRecords]
      /\ \A d \in Streams : stream'[d] = IF d = c THEN x ELSE stream[d]
  BY <1>1, <1>3, <1>5, <1>6
<1>8. Carried(s, t)
  BY <1>1, <1>2, <1>3, <1>4, <1>7 DEF Carried
<1> QED
  BY <1>1, <1>2, <1>3, <1>7, <1>8, SendStepInv

LEMMA SentInv == ASSUME ServerInv, NEW s \in sends, Sent(s) PROVE ServerInv'
<1> USE DEF ServerInv
<1>1. s.stalled = {} /\ s.dropping = None /\ sends' = sends \ {s}
      /\ UNCHANGED <<stream, registry, shutting, ending, events>>
  BY DEF Sent
<1>2. ServerTypeOK' /\ PlacesInv'
  BY <1>1 DEF ServerTypeOK, PlacesInv, ListedAreServed, ReplacesOnce, AskedIsNew
<1>3. OpenIsReached'
  BY <1>1, NoneIsNone DEF OpenIsReached
<1> QED
  BY <1>2, <1>3

LEMMA SendInv == ASSUME ServerInv, Send PROVE ServerInv'
<1> USE DEF ServerInv
<1>1. PICK to \in SUBSET Registered \ {{}} : sends' = sends \cup {Sending(events + 1, to)}
  BY DEF Send
<1>8. events' = events + 1 /\ events' \in 0..MaxEvents /\ events + 1 \in 1..MaxEvents
      /\ UNCHANGED <<stream, registry, shutting, ending>>
  BY DEF Send, ServerTypeOK
<1>2. \A c \in to : c \in Streams /\ stream[c].at \in Serving
  BY ListedType DEF Registered
<1> DEFINE t == Sending(events + 1, to)
<1>3. t \in SendRecords /\ t.left = to
  BY <1>1, <1>2, <1>8 DEF Sending, SendRecords
<1> HIDE DEF t
<1>4. sends' = sends \cup {t}
  BY <1>1 DEF t
<1>5. ServerTypeOK'
  BY <1>8, <1>3, <1>4 DEF ServerTypeOK
<1>6. PlacesInv'
  BY <1>8, <1>2, <1>3, <1>4 DEF PlacesInv, ListedAreServed, ReplacesOnce, AskedIsNew, Serving
<1>7. OpenIsReached'
  BY <1>8, <1>4 DEF OpenIsReached
<1> QED
  BY <1>5, <1>6, <1>7

LEMMA SendStepsInv == ASSUME ServerInv, NEW s \in sends, SendSteps(s) PROVE ServerInv'
BY OfferInv, UnlistInv, DropInv, SentInv DEF SendSteps

LEMMA ThreadStepsInv ==
  ASSUME ServerInv, NEW c \in Streams, ThreadSteps(c) PROVE ServerInv'
BY RegisterInv, CloseReplacedInv, StartsInv, WritesInv, LeaveInv, CloseInv DEF ThreadSteps

LEMMA ServerNextInv == ASSUME ServerInv, [ServerNext]_serverVars PROVE ServerInv'
<1>1. CASE UNCHANGED serverVars
  BY <1>1 DEF serverVars, ServerInv, ServerTypeOK, PlacesInv, ListedAreServed, ReplacesOnce,
     AskedIsNew, OpenIsReached
<1>2. ASSUME NEW c \in NextFree, NEW id \in Ids, Ask(c, id) PROVE ServerInv'
  <2>1. c \in Streams /\ Free(c) /\ stream' = [stream EXCEPT ![c] = Asked(id)]
        /\ stream \in [Streams -> StreamRecords]
        /\ UNCHANGED <<registry, shutting, ending, sends, events>>
    BY <1>2 DEF NextFree, Ask, ServerInv, ServerTypeOK
  <2>2. stream' \in [Streams -> StreamRecords] /\ stream'[c] = Asked(id)
        /\ \A d \in Streams : d # c => stream'[d] = stream[d]
    BY <2>1, AskedType
  <2> QED
    BY <2>1, <2>2, AskInv
<1>3. ASSUME NEW c \in Streams, ThreadSteps(c) \/ Goes(c) PROVE ServerInv'
  BY <1>3, ThreadStepsInv, GoneInv DEF Goes
<1> QED
  BY <1>1, <1>2, <1>3, SendStepsInv, SendInv, PrepareShutdownInv DEF ServerNext

\* What holds of the backend's streams whatever their browsers do: every variable
\* has its type, the registry names streams being served, and OpenIsReached.
THEOREM ServerSpecInv == ServerSpec => []ServerInv
<1>1. ServerInit => ServerInv
  BY ServerInitInv
<1>2. ServerInv /\ [ServerNext]_serverVars => ServerInv'
  BY ServerNextInv
<1> QED
  BY <1>1, <1>2, PTL DEF ServerSpec

\* No browser listens to a stream that nothing reaches any more, for any streams,
\* request IDs, queue limit and number of events (sse_connection_manager.py).
THEOREM EveryOpenStreamIsReached == ServerSpec => []OpenIsReached
<1>1. ServerInv => OpenIsReached
  BY DEF ServerInv
<1> QED
  BY <1>1, ServerSpecInv, PTL

(***************************************************************************)
(* The browser's session.                                                  *)
(***************************************************************************)
CookieSet == [access : Nat, refresh : Nat]
SetCookies == CookieSet \cup {Keep}
Provider == [epoch : Nat, session : Nat, last : Nat, member : BOOLEAN]

WireItems == {"ready", "event", "rejected", "end", "401"}
RequestRecords == [with : CookieSet, set : SetCookies, wire : Seq(WireItems)]

WorkerRecords ==
    [ports : SUBSET (Tabs \cup {DeadPort}), source : {"none", "on", "again", "failed"},
     stream : Streams \cup {None}, id : Ids \cup {None}, timer : BOOLEAN, ready : BOOLEAN,
     rejected : BOOLEAN]

Messages == {"connected", "event", "error", "rejected"}
Commands == {"connect", "reconnect", "disconnect"}
ProbeRecords ==
    [at : {"none", "asked", "answered"}, with : CookieSet, set : SetCookies,
     found : {"none", "valid", "failed", "signed-out"}]
TabRecords ==
    [at : {"away", "here", "login"}, connected : BOOLEAN, lost : BOOLEAN, probe : ProbeRecords,
     hears : Seq(Messages), says : Seq(Commands)]

BrowserTypeOK ==
    /\ request \in [Streams -> RequestRecords]
    /\ worker \in WorkerRecords
    /\ tab \in [Tabs -> TabRecords]
    /\ faults \in Nat /\ failed \in BOOLEAN

\* The worker reads a stream exactly while its source is on, and keeps its ID while
\* it has a source; and only a stream that is over or left has its end unread.
ReadsItsStream ==
    /\ worker.source = "on" <=> worker.stream # None
    /\ worker.source # "none" => worker.id # None
    /\ \A c \in Streams : \A i \in 1..Len(request[c].wire) :
         request[c].wire[i] \in {"end", "401"} => stream[c].at = "over" \/ stream[c].gone

SessionInv == ServerInv /\ AuthTypeOK /\ BrowserTypeOK /\ ReadsItsStream /\ OneStream

\* Numbers have a least one: what Slot and NewId choose.
LEMMA LeastOf ==
  ASSUME NEW S, S \subseteq Nat, S # {}
  PROVE  \E x \in S : \A y \in S : x <= y
<1> DEFINE R == OpToRel(<, Nat)
<1>1. PICK x \in S : \A y \in S : ~ (<<y, x>> \in R)
  <2>1. IsWellFoundedOn(R, Nat)
    BY NatLessThanWellFounded
  <2> HIDE DEF R
  <2> QED
    BY <2>1, WFMin
<1>2. \A y \in S : ~(y < x)
  BY <1>1 DEF OpToRel
<1> QED
  BY <1>2

LEMMA SlotType == ASSUME FreeSlots # {} PROVE Slot \in FreeSlots
<1>1. FreeSlots \subseteq Nat
  BY DEF FreeSlots
<1>2. \E c \in FreeSlots : \A d \in FreeSlots : c <= d
  BY <1>1, LeastOf
<1> HIDE DEF FreeSlots
<1> QED
  BY <1>2 DEF Slot

LEMMA NewIdType == ASSUME Ids \ UsedIds # {} PROVE NewId \in Ids
<1> DEFINE S == Ids \ UsedIds
<1>2. S \subseteq Nat /\ S # {}
  OBVIOUS
<1> HIDE DEF S
<1>3. \E id \in S : \A other \in S : id <= other
  BY <1>2, LeastOf
<1>1. \E id \in Ids \ UsedIds : \A other \in Ids \ UsedIds : id <= other
  BY <1>3 DEF S
<1> QED
  BY <1>1 DEF NewId

\* The gate's answers, and what they do to the jar.
Answers == [who : {"served", "forbidden", "refused", "failed"}, set : SetCookies]

LEMMA CookiesType ==
  ASSUME AuthTypeOK
  PROVE  /\ jar \in CookieSet /\ NoCookies \in CookieSet /\ Keep \in SetCookies /\ NoCookies \in SetCookies
         /\ \A token \in Nat : Issued(token) \in SetCookies
         /\ \A set \in SetCookies : Applied(set) \in CookieSet
BY DEF AuthTypeOK, CookieSet, SetCookies, NoCookies, Issued, Cookies, Keep, Applied

LEMMA GateType ==
  ASSUME AuthTypeOK, NEW with \in CookieSet
  PROVE  /\ FailingGate(with) \subseteq Answers
         /\ \A token \in Nat : Gate(with, token) \in Answers
<1>1. \A set \in SetCookies : \A who \in {"served", "forbidden", "refused", "failed"} :
        GateAnswer(who, set) \in Answers
  BY DEF GateAnswer, Answers
<1> HIDE DEF Answers
<1> QED
  BY <1>1, CookiesType DEF Gate, FailingGate, Checked

\* The initial state.
LEMMA NoRequestType ==
  ASSUME AuthTypeOK
  PROVE  /\ NoRequest \in RequestRecords /\ NoRequest.wire = << >>
         /\ \A with \in CookieSet : /\ [NoRequest EXCEPT !.with = with] \in RequestRecords
                                    /\ [NoRequest EXCEPT !.with = with].wire = << >>
                                    /\ [NoRequest EXCEPT !.with = with].with = with
                                    /\ [NoRequest EXCEPT !.with = with].set = Keep
<1>1. NoRequest \in RequestRecords /\ NoRequest.wire = << >>
      /\ NoRequest.set = Keep
  BY CookiesType DEF NoRequest, RequestRecords
<1>2. ASSUME NEW with \in CookieSet
      PROVE  /\ [NoRequest EXCEPT !.with = with] \in RequestRecords
             /\ [NoRequest EXCEPT !.with = with].wire = << >>
             /\ [NoRequest EXCEPT !.with = with].with = with
             /\ [NoRequest EXCEPT !.with = with].set = Keep
  BY <1>1 DEF RequestRecords
<1> QED
  BY <1>1, <1>2

LEMMA AwayType ==
  ASSUME AuthTypeOK
  PROVE  /\ NoProbe \in ProbeRecords
         /\ \A at \in {"away", "here", "login"} :
              /\ Away(at) \in TabRecords /\ Away(at).at = at /\ Away(at).says = << >>
              /\ Away(at).probe = NoProbe
<1>1. NoProbe \in ProbeRecords
  BY CookiesType DEF NoProbe, ProbeRecords
<1> QED
  BY <1>1 DEF Away, TabRecords

LEMMA SessionInitInv == Init => SessionInv
<1> SUFFICES ASSUME Init PROVE SessionInv
  OBVIOUS
<1>1. ServerInv /\ \A c \in Streams : stream[c].at = "over"
  BY ServerInitInv, OverType DEF Init, ServerInit
<1>2. AuthTypeOK
  BY DEF Init, AuthInit, AuthTypeOK, Cookies
<1>3. \A c \in Streams : request[c].wire = << >>
  BY DEF Init, NoRequest
<1>4. worker \in WorkerRecords /\ worker.source = "none" /\ worker.stream = None
  BY DEF Init, NoWorker, WorkerRecords, None
<1>5. BrowserTypeOK
  BY <1>2, <1>4, NoRequestType, AwayType DEF Init, BrowserTypeOK
<1>6. ReadsItsStream /\ OneStream
  BY <1>1, <1>3, <1>4 DEF ReadsItsStream, OneStream
<1> QED
  BY <1>1, <1>2, <1>5, <1>6 DEF SessionInv

\* A stream the browser leaves, and what of it is unread.
LEMMA AbandonedType ==
  ASSUME ServerInv, NEW c \in Streams \cup {None}
  PROVE  /\ Abandoned(c) \in [Streams -> StreamRecords]
         /\ \A d \in Streams :
              /\ Abandoned(c)[d].at = stream[d].at /\ Abandoned(c)[d].id = stream[d].id
              /\ Abandoned(c)[d].queue = stream[d].queue
              /\ Abandoned(c)[d].closed <=> stream[d].closed
              /\ Abandoned(c)[d].replaced = stream[d].replaced
              /\ Abandoned(c)[d].missed <=> stream[d].missed
              /\ Abandoned(c)[d].gone <=> stream[d].gone \/ (d = c /\ stream[d].at # "over")
<1>1. stream \in [Streams -> StreamRecords]
  BY DEF ServerInv, ServerTypeOK
<1>2. CASE c # None /\ stream[c].at # "over"
  <2> DEFINE x == [stream[c] EXCEPT !.gone = TRUE]
  <2>1. /\ x \in StreamRecords
        /\ x.at = stream[c].at /\ x.id = stream[c].id /\ x.queue = stream[c].queue
        /\ (x.closed <=> stream[c].closed) /\ x.replaced = stream[c].replaced
        /\ (x.missed <=> stream[c].missed) /\ x.gone
    <3>1. stream[c] \in StreamRecords
      BY <1>1, <1>2
    <3> QED
      BY <3>1 DEF StreamRecords
  <2>2. Abandoned(c) = [stream EXCEPT ![c] = x]
    BY <1>2 DEF Abandoned
  <2> HIDE DEF x
  <2>3. Abandoned(c) \in [Streams -> StreamRecords]
        /\ \A d \in Streams : Abandoned(c)[d] = IF d = c THEN x ELSE stream[d]
    BY <1>1, <1>2, <2>1, <2>2
  <2> QED
    BY <1>2, <2>1, <2>3
<1>3. CASE ~(c # None /\ stream[c].at # "over")
  <2>1. Abandoned(c) = stream
    BY <1>3 DEF Abandoned
  <2> QED
    BY <1>1, <1>3, <2>1, NoneIsNone
<1> QED
  BY <1>2, <1>3

LEMMA AbandonedInv ==
  ASSUME ServerInv, NEW c \in Streams \cup {None}, stream' = Abandoned(c),
         UNCHANGED <<registry, shutting, ending, sends, events>>
  PROVE  ServerInv'
<1>1. \A d \in Streams : Len(stream[d].queue) <= MaxFrames
  BY DEF ServerInv, ServerTypeOK
<1>2. shutting \in BOOLEAN /\ ending \subseteq Streams /\ events \in 0..MaxEvents
  BY DEF ServerInv, ServerTypeOK
<1>3. /\ stream' \in [Streams -> StreamRecords]
      /\ \A d \in Streams :
           /\ stream'[d].at = stream[d].at /\ stream'[d].id = stream[d].id
           /\ stream'[d].queue = stream[d].queue
           /\ stream'[d].closed <=> stream[d].closed
           /\ stream'[d].replaced = stream[d].replaced
           /\ stream'[d].missed <=> stream[d].missed
  BY AbandonedType
<1> QED
  BY <1>1, <1>2, <1>3, MarksInv

LEMMA UnreadType ==
  ASSUME AuthTypeOK, BrowserTypeOK, NEW c \in Streams \cup {None}
  PROVE  /\ Unread(c) \in [Streams -> RequestRecords]
         /\ \A d \in Streams :
              Unread(c)[d] = IF d = c THEN [NoRequest EXCEPT !.with = request[c].with]
                             ELSE request[d]
         /\ \A d \in Streams :
              /\ Unread(c)[d].wire = IF d = c THEN << >> ELSE request[d].wire
              /\ Unread(c)[d].with = request[d].with
              /\ Unread(c)[d].set = IF d = c THEN Keep ELSE request[d].set
<1>1. \A d \in Streams : request[d] \in RequestRecords /\ request[d].with \in CookieSet
  BY DEF BrowserTypeOK, RequestRecords
<1>2. /\ Unread(c) \in [Streams -> RequestRecords]
      /\ \A d \in Streams :
           Unread(c)[d] = IF d = c THEN [NoRequest EXCEPT !.with = request[c].with]
                          ELSE request[d]
  BY <1>1, NoRequestType, NoneIsNone DEF Unread, BrowserTypeOK
<1>3. ASSUME NEW d \in Streams
      PROVE  /\ Unread(c)[d].wire = IF d = c THEN << >> ELSE request[d].wire
             /\ Unread(c)[d].with = request[d].with
             /\ Unread(c)[d].set = IF d = c THEN Keep ELSE request[d].set
  <2>1. CASE d = c
    <3>1. /\ Unread(c)[d] = [NoRequest EXCEPT !.with = request[d].with]
          /\ request[d].with \in CookieSet
      BY <1>1, <1>2, <2>1
    <3> QED
      BY <2>1, <3>1, NoRequestType
  <2>2. CASE d # c
    BY <1>2, <2>2
  <2> QED
    BY <2>1, <2>2
<1> QED
  BY <1>2, <1>3

LEMMA SpentType ==
  ASSUME BrowserTypeOK, Fault \/ NoFault \/ Fails
  PROVE  faults' \in Nat /\ failed' \in BOOLEAN
<1>1. faults' \in Nat
  BY DEF BrowserTypeOK, Fault, NoFault, Fails, Spends
<1>2. failed' = failed \/ failed' = TRUE
  BY DEF Fault, NoFault, Fails
<1> QED
  BY <1>1, <1>2 DEF BrowserTypeOK

\* What a step has to show.
LEMMA SessionMoves ==
  ASSUME SessionInv, ServerInv', idp' \in Provider, jar' \in CookieSet,
         request' \in [Streams -> RequestRecords], worker' \in WorkerRecords,
         tab' \in [Tabs -> TabRecords], Fault \/ NoFault \/ Fails,
         ReadsItsStream', OneStream'
  PROVE  SessionInv'
<1>1. AuthTypeOK'
  BY DEF AuthTypeOK, CookieSet, Provider
<1>2. WorkerRecords' = WorkerRecords
  BY DEF WorkerRecords, DeadPort, None
<1>3. BrowserTypeOK'
  BY <1>2, SpentType
  DEF SessionInv, BrowserTypeOK, RequestRecords, TabRecords, ProbeRecords, SetCookies, CookieSet,
      Keep, Cookies, WireItems, Messages, Commands
<1> QED
  BY <1>1, <1>3 DEF SessionInv

\* ... and one that leaves the provider alone.
LEMMA SessionStep ==
  ASSUME SessionInv, ServerInv', UNCHANGED idp, jar' \in CookieSet,
         request' \in [Streams -> RequestRecords], worker' \in WorkerRecords,
         tab' \in [Tabs -> TabRecords], Fault \/ NoFault \/ Fails,
         ReadsItsStream', OneStream'
  PROVE  SessionInv'
<1>1. idp' \in Provider
  BY DEF SessionInv, AuthTypeOK, Provider
<1> QED
  BY <1>1, SessionMoves

\* What the provider gives.
LEMMA GivesType ==
  ASSUME AuthTypeOK, NEW token \in Nat, Gives(token) PROVE idp' \in Provider
<1> DEFINE last == IF token > idp.last THEN token ELSE idp.last
<1>1. last \in Nat /\ idp \in Provider
  BY DEF AuthTypeOK, Provider
<1>2. idp' = [idp EXCEPT !.session = token, !.last = last]
  BY DEF Gives
<1> HIDE DEF last
<1> QED
  BY <1>1, <1>2 DEF Provider

LEMMA TokensType ==
  ASSUME AuthTypeOK, NEW with
  PROVE  Tokens(with) \subseteq Nat /\ Unanswered(with) \subseteq Nat
<1>1. idp.session \in Nat /\ idp.last + 1 \in Nat
  BY DEF AuthTypeOK
<1>2. \A rotated \in Rotates : NewToken(rotated) \in Nat
  BY <1>1 DEF NewToken
<1> QED
  BY <1>1, <1>2 DEF Tokens, Unanswered

\* The messages between the worker and the tabs.
LEMMA ToldType ==
  ASSUME BrowserTypeOK, NEW ports, NEW m \in Messages
  PROVE  /\ Told(ports, m) \in [Tabs -> TabRecords]
         /\ \A t \in Tabs : /\ Told(ports, m)[t].at = tab[t].at
                            /\ Told(ports, m)[t].probe = tab[t].probe
<1>1. ASSUME NEW t \in Tabs
      PROVE  /\ [tab[t] EXCEPT !.hears = Append(@, m)] \in TabRecords
             /\ [tab[t] EXCEPT !.hears = Append(@, m)].at = tab[t].at
             /\ [tab[t] EXCEPT !.hears = Append(@, m)].probe = tab[t].probe
             /\ tab[t] \in TabRecords
  <2>1. tab[t] \in TabRecords
    BY DEF BrowserTypeOK
  <2>2. Append(tab[t].hears, m) \in Seq(Messages)
    BY <2>1, AppendProperties DEF TabRecords
  <2> QED
    BY <2>1, <2>2 DEF TabRecords
<1> QED
  BY <1>1 DEF Told

LEMMA HeardType ==
  ASSUME BrowserTypeOK, NEW t \in Tabs, tab[t].says # << >>
  PROVE  /\ Heard(t) \in [Tabs -> TabRecords]
         /\ \A u \in Tabs : Heard(t)[u].at = tab[u].at /\ Heard(t)[u].probe = tab[u].probe
<1>1. tab[t] \in TabRecords
  BY DEF BrowserTypeOK
<1>2. Tail(tab[t].says) \in Seq(Commands)
  BY <1>1, HeadTailProperties DEF TabRecords
<1>3. /\ [tab[t] EXCEPT !.says = Tail(@)] \in TabRecords
      /\ [tab[t] EXCEPT !.says = Tail(@)].at = tab[t].at
      /\ [tab[t] EXCEPT !.says = Tail(@)].probe = tab[t].probe
  BY <1>1, <1>2 DEF TabRecords
<1>4. /\ Heard(t) \in [Tabs -> TabRecords]
      /\ \A u \in Tabs : Heard(t)[u] = IF u = t THEN [tab[t] EXCEPT !.says = Tail(@)] ELSE tab[u]
  BY <1>3 DEF Heard, BrowserTypeOK
<1> QED
  BY <1>3, <1>4

\* The source the worker opens is the only one the browser reads.
LEMMA OpenedInv ==
  ASSUME SessionInv, FreeSlots # {}, NEW id \in Ids,
         stream' = [Abandoned(worker.stream) EXCEPT ![Slot] = Asked(id)],
         request' = [Unread(worker.stream) EXCEPT ![Slot] = [NoRequest EXCEPT !.with = jar]],
         worker'.source = "on", worker'.stream = Slot, worker'.id = id,
         UNCHANGED <<registry, shutting, ending, sends, events>>
  PROVE  /\ ServerInv' /\ request' \in [Streams -> RequestRecords]
         /\ ReadsItsStream' /\ OneStream'
<1> USE DEF SessionInv
<1> DEFINE asked == [NoRequest EXCEPT !.with = jar]
<1>1. /\ Slot \in Streams /\ Free(Slot) /\ Slot # worker.stream
      /\ stream' = [Abandoned(worker.stream) EXCEPT ![Slot] = Asked(id)]
      /\ request' = [Unread(worker.stream) EXCEPT ![Slot] = asked]
  BY SlotType DEF FreeSlots
<1>2. worker.stream \in Streams \cup {None}
  BY DEF WorkerRecords, BrowserTypeOK
<1>4. asked \in RequestRecords /\ asked.wire = << >>
  BY NoRequestType, CookiesType
<1> HIDE DEF asked
<1>5. /\ stream' \in [Streams -> StreamRecords] /\ stream'[Slot] = Asked(id)
      /\ \A d \in Streams : d # Slot => stream'[d] = Abandoned(worker.stream)[d]
  BY <1>1, <1>2, AskedType, AbandonedType
<1>6. /\ request' \in [Streams -> RequestRecords]
      /\ \A d \in Streams : request'[d].wire =
           IF d \in {Slot, worker.stream} THEN << >> ELSE request[d].wire
  <2>1. /\ request' \in [Streams -> RequestRecords] /\ request'[Slot] = asked
        /\ \A d \in Streams : d # Slot => request'[d] = Unread(worker.stream)[d]
    <3>1. Unread(worker.stream) \in [Streams -> RequestRecords]
      BY <1>2, UnreadType
    <3> QED
      BY <1>1, <1>4, <3>1
  <2>2. ASSUME NEW d \in Streams
        PROVE  request'[d].wire = IF d \in {Slot, worker.stream} THEN << >> ELSE request[d].wire
    <3>1. CASE d = Slot
      BY <1>4, <2>1, <3>1
    <3>2. CASE d # Slot
      <4>1. Unread(worker.stream)[d].wire = IF d = worker.stream THEN << >> ELSE request[d].wire
        BY <1>2, UnreadType
      <4> QED
        BY <2>1, <3>2, <4>1
    <3> QED
      BY <3>1, <3>2
  <2> QED
    BY <2>1, <2>2
<1>7. \A d \in Streams : d # Slot =>
        /\ stream'[d].at = stream[d].at /\ stream'[d].id = stream[d].id
        /\ stream'[d].queue = stream[d].queue /\ (stream'[d].closed <=> stream[d].closed)
        /\ stream'[d].replaced = stream[d].replaced /\ (stream'[d].missed <=> stream[d].missed)
        /\ stream'[d].gone <=> stream[d].gone \/ (d = worker.stream /\ stream[d].at # "over")
  <2> SUFFICES ASSUME NEW d \in Streams, d # Slot
               PROVE  /\ stream'[d].at = stream[d].at /\ stream'[d].id = stream[d].id
                      /\ stream'[d].queue = stream[d].queue
                      /\ stream'[d].closed <=> stream[d].closed
                      /\ stream'[d].replaced = stream[d].replaced
                      /\ stream'[d].missed <=> stream[d].missed
                      /\ stream'[d].gone <=>
                             stream[d].gone \/ (d = worker.stream /\ stream[d].at # "over")
    OBVIOUS
  <2>1. stream'[d] = Abandoned(worker.stream)[d]
    BY <1>5
  <2> DEFINE x == Abandoned(worker.stream)[d]
  <2>2. /\ x.at = stream[d].at /\ x.id = stream[d].id
        /\ x.queue = stream[d].queue
        /\ x.closed <=> stream[d].closed
        /\ x.replaced = stream[d].replaced
        /\ x.missed <=> stream[d].missed
        /\ x.gone <=> stream[d].gone \/ (d = worker.stream /\ stream[d].at # "over")
    BY <1>2, AbandonedType
  <2>3. stream'[d] = x
    BY <2>1
  <2> HIDE DEF x
  <2> QED
    BY <2>2, <2>3
<1>8. ServerInv'
  <2> DEFINE c == Slot
  <2>1. c \in Streams /\ Free(c) /\ stream' \in [Streams -> StreamRecords]
        /\ stream'[c] = Asked(id)
    BY <1>1, <1>2, <1>5
  <2>2. \A d \in Streams : d # c =>
          /\ stream'[d].at = stream[d].at /\ stream'[d].id = stream[d].id
          /\ stream'[d].queue = stream[d].queue /\ (stream'[d].closed <=> stream[d].closed)
          /\ stream'[d].replaced = stream[d].replaced
          /\ stream'[d].missed <=> stream[d].missed
    BY <1>7
  <2> HIDE DEF c
  <2> QED
    BY <2>1, <2>2, AskInv
<1>9. ReadsItsStream'
  <2>1. \A c \in Streams : \A i \in 1..Len(request'[c].wire) :
          request'[c].wire[i] \in {"end", "401"} => stream'[c].at = "over" \/ stream'[c].gone
    <3> SUFFICES ASSUME NEW c \in Streams, NEW i \in 1..Len(request'[c].wire),
                        request'[c].wire[i] \in {"end", "401"}
                 PROVE  stream'[c].at = "over" \/ stream'[c].gone
      OBVIOUS
    <3>1. c \notin {Slot, worker.stream} /\ request'[c].wire = request[c].wire
      BY <1>6
    <3>2. stream[c].at = "over" \/ stream[c].gone
      BY <3>1 DEF ReadsItsStream
    <3> QED
      BY <1>7, <3>1, <3>2
  <2> QED
    BY <1>1, <1>2, <2>1, NoneIsNone DEF ReadsItsStream
<1>10. OneStream'
  BY <1>1, <1>7 DEF OneStream
<1> QED
  BY <1>6, <1>8, <1>9, <1>10
LEMMA OpensInv ==
  ASSUME SessionInv, NEW w \in WorkerRecords, Opens(w),
         UNCHANGED <<registry, shutting, ending, sends, events>>
  PROVE  /\ ServerInv' /\ request' \in [Streams -> RequestRecords]
         /\ worker' \in WorkerRecords /\ ReadsItsStream' /\ OneStream'
<1> DEFINE id == IF w.id # None THEN w.id ELSE NewId
<1>1. id \in Ids
  BY NewIdType DEF Opens, WorkerRecords
<1>2. /\ FreeSlots # {}
      /\ stream' = [Abandoned(worker.stream) EXCEPT ![Slot] = Asked(id)]
      /\ request' = [Unread(worker.stream) EXCEPT ![Slot] = [NoRequest EXCEPT !.with = jar]]
      /\ worker' = [w EXCEPT !.source = "on", !.stream = Slot, !.id = id, !.ready = FALSE]
  BY DEF Opens
<1>3. Slot \in Streams
  BY <1>2, SlotType DEF FreeSlots
<1> HIDE DEF id
<1>4. worker' \in WorkerRecords /\ worker'.source = "on" /\ worker'.stream = Slot /\ worker'.id = id
  BY <1>1, <1>2, <1>3 DEF WorkerRecords
<1> QED
  BY <1>1, <1>2, <1>4, OpenedInv

\* The browser closes its source and opens no other.
LEMMA ClosedType ==
  ASSUME NEW w \in WorkerRecords
  PROVE  /\ Closed(w) \in WorkerRecords /\ Closed(w).source = "none"
         /\ Closed(w).stream = None /\ Closed(w).ports = w.ports
BY DEF Closed, WorkerRecords

LEMMA LeavesInv ==
  ASSUME SessionInv, stream' = Abandoned(worker.stream), request' = Unread(worker.stream),
         worker'.source = "none", worker'.stream = None,
         UNCHANGED <<registry, shutting, ending, sends, events>>
  PROVE  /\ ServerInv' /\ request' \in [Streams -> RequestRecords]
         /\ ReadsItsStream' /\ OneStream'
<1> USE DEF SessionInv
<1>1. worker.stream \in Streams \cup {None}
  BY DEF WorkerRecords, BrowserTypeOK
<1>2. ServerInv'
  BY <1>1, AbandonedInv
<1>3. /\ request' \in [Streams -> RequestRecords]
      /\ \A d \in Streams :
           request'[d].wire = IF d = worker.stream THEN << >> ELSE request[d].wire
  BY <1>1, UnreadType
<1>4. \A d \in Streams :
        /\ stream'[d].at = stream[d].at
        /\ stream'[d].gone <=> stream[d].gone \/ (d = worker.stream /\ stream[d].at # "over")
  BY <1>1, AbandonedType
<1>5. ReadsItsStream'
  BY <1>3, <1>4 DEF ReadsItsStream
<1>6. OneStream'
  BY <1>4 DEF OneStream
<1> QED
  BY <1>2, <1>3, <1>5, <1>6

\* The worker keeps its source, and the backend does what it does.
Lives(c) == stream[c].at # "over" /\ ~stream[c].gone
Asks(c) == stream[c].at = "asked"
EndUnread(c) == \E i \in 1..Len(request[c].wire) : request[c].wire[i] \in {"end", "401"}

LEMMA KeepsInv ==
  ASSUME SessionInv,
         worker'.source = worker.source, worker'.stream = worker.stream, worker'.id = worker.id,
         \A c \in Streams : Lives(c)' => Lives(c),
         \A c \in Streams : EndUnread(c)' => EndUnread(c) \/ ~Lives(c)'
  PROVE  ReadsItsStream' /\ OneStream'
<1>1. \A c \in Streams : EndUnread(c) => ~Lives(c)
  BY DEF SessionInv, ReadsItsStream, EndUnread, Lives
<1>2. \A c \in Streams : \A i \in 1..Len(request'[c].wire) :
         request'[c].wire[i] \in {"end", "401"} => stream'[c].at = "over" \/ stream'[c].gone
  BY <1>1 DEF EndUnread, Lives
<1>3. ReadsItsStream'
  BY <1>2 DEF SessionInv, ReadsItsStream
<1>4. OneStream'
  BY DEF SessionInv, OneStream, Lives
<1> QED
  BY <1>3, <1>4

----------------------------------------------------------------------------
(* The worker's steps.                                                     *)

\* Reading an item of its stream takes it off the wire.
LEMMA ReadsType ==
  ASSUME SessionInv, Reads
  PROVE  /\ worker.stream \in Streams /\ jar' \in CookieSet
         /\ request' \in [Streams -> RequestRecords]
         /\ \A c \in Streams : c # worker.stream => request'[c] = request[c]
         /\ Item = "rejected" => request' = Unread(worker.stream)
         /\ Item # "rejected" => request'[worker.stream].wire = Tail(request[worker.stream].wire)
         /\ Item = request[worker.stream].wire[1] /\ request[worker.stream].wire # << >>
         /\ UNCHANGED <<registry, shutting, ending, sends, events, idp, faults, failed>>
<1> USE DEF SessionInv
<1> DEFINE c == worker.stream
<1>1. c \in Streams /\ request[c] \in RequestRecords /\ request[c].wire # << >>
      /\ UNCHANGED <<registry, shutting, ending, sends, events, idp, faults, failed>>
  BY DEF Reads, NoFault, ReadsItsStream, BrowserTypeOK, WorkerRecords
<1>2. jar' \in CookieSet
  <2>1. request[c].set \in SetCookies /\ jar' = Applied(request[c].set)
    BY <1>1 DEF Reads, RequestRecords
  <2> QED
    BY <2>1, CookiesType
<1>3. Item = request[c].wire[1] /\ Tail(request[c].wire) \in Seq(WireItems)
  <2>1. request[c].wire \in Seq(WireItems)
    BY <1>1 DEF RequestRecords
  <2> QED
    BY <1>1, <2>1, HeadTailProperties DEF Item
<1>4. CASE Item = "rejected"
  <2>1. request' = Unread(c)
    BY <1>4 DEF Reads
  <2>2. /\ Unread(c) \in [Streams -> RequestRecords]
        /\ \A d \in Streams : d # c => Unread(c)[d] = request[d]
    BY <1>1, UnreadType
  <2> QED
    BY <1>1, <1>2, <1>3, <1>4, <2>1, <2>2
<1>5. CASE Item # "rejected"
  <2> DEFINE x == [request[c] EXCEPT !.wire = Tail(@), !.set = Keep]
  <2>1. x \in RequestRecords /\ x.wire = Tail(request[c].wire)
    BY <1>1, <1>3, CookiesType DEF RequestRecords
  <2>2. request' = [request EXCEPT ![c] = x]
    BY <1>5 DEF Reads
  <2> HIDE DEF x
  <2>3. request' \in [Streams -> RequestRecords]
        /\ \A d \in Streams : request'[d] = IF d = c THEN x ELSE request[d]
    BY <1>1, <2>1, <2>2 DEF BrowserTypeOK
  <2> QED
    BY <1>1, <1>2, <1>3, <1>5, <2>1, <2>3
<1> QED
  BY <1>4, <1>5

LEMMA TailEnds ==
  ASSUME NEW s \in Seq(WireItems), s # << >>, NEW i \in 1..Len(Tail(s))
  PROVE  i + 1 \in 1..Len(s) /\ Tail(s)[i] = s[i + 1]
<1>1. Len(Tail(s)) = Len(s) - 1 /\ Len(s) \in Nat
  BY HeadTailProperties
<1> QED
  BY <1>1, HeadTailProperties

\* What a stream wrote is read in its order.
LEMMA TailUnread ==
  ASSUME SessionInv, Reads, Item # "rejected"
  PROVE  \A c \in Streams : EndUnread(c)' => EndUnread(c)
<1> SUFFICES ASSUME NEW c \in Streams, NEW i \in 1..Len(request'[c].wire),
                    request'[c].wire[i] \in {"end", "401"}
             PROVE  EndUnread(c)
  BY DEF EndUnread
<1>1. CASE c # worker.stream
  BY <1>1, ReadsType DEF EndUnread
<1>2. CASE c = worker.stream
  <2>1. request'[c].wire = Tail(request[c].wire) /\ request[c].wire # << >>
    BY <1>2, ReadsType
  <2>2. request[c].wire \in Seq(WireItems)
    BY DEF SessionInv, BrowserTypeOK, RequestRecords
  <2>3. i + 1 \in 1..Len(request[c].wire) /\ request'[c].wire[i] = request[c].wire[i + 1]
    BY <2>1, <2>2, TailEnds
  <2> QED
    BY <2>3 DEF EndUnread
<1> QED
  BY <1>1, <1>2

\* A server that stands still keeps what holds of it.
LEMMA ServerStays == ASSUME ServerInv, UNCHANGED serverVars PROVE ServerInv'
BY ServerNextInv

LEMMA ReadsReadyInv == ASSUME SessionInv, ReadsReady PROVE SessionInv'
<1>1. Reads /\ Item = "ready" /\ worker' = [worker EXCEPT !.ready = TRUE]
      /\ tab' = Told(worker.ports, "connected") /\ UNCHANGED stream
  BY DEF ReadsReady
<1>2. worker' \in WorkerRecords /\ worker'.source = worker.source
      /\ worker'.stream = worker.stream /\ worker'.id = worker.id
  BY <1>1 DEF SessionInv, BrowserTypeOK, WorkerRecords
<1>3. ServerInv'
  BY <1>1, ReadsType, ServerStays DEF serverVars, SessionInv
<1>4. tab' \in [Tabs -> TabRecords]
  BY <1>1, ToldType DEF Messages, SessionInv
<1>5. ReadsItsStream' /\ OneStream'
  <2>1. \A c \in Streams : Lives(c)' => Lives(c)
    BY <1>1 DEF Lives
  <2> QED
    BY <1>1, <1>2, <2>1, TailUnread, KeepsInv
<1> QED
  BY <1>1, <1>2, <1>3, <1>4, <1>5, ReadsType, SessionStep DEF Reads

LEMMA ReadsEventInv == ASSUME SessionInv, ReadsEvent PROVE SessionInv'
<1>1. Reads /\ Item = "event" /\ tab' = Told(worker.ports, "event") /\ UNCHANGED <<stream, worker>>
  BY DEF ReadsEvent
<1>2. worker' \in WorkerRecords
  BY <1>1 DEF SessionInv, BrowserTypeOK
<1>3. ServerInv'
  BY <1>1, ReadsType, ServerStays DEF serverVars, SessionInv
<1>4. tab' \in [Tabs -> TabRecords]
  BY <1>1, ToldType DEF Messages, SessionInv
<1>5. ReadsItsStream' /\ OneStream'
  <2>1. \A c \in Streams : Lives(c)' => Lives(c)
    BY <1>1 DEF Lives
  <2> QED
    BY <1>1, <2>1, TailUnread, KeepsInv
<1> QED
  BY <1>1, <1>2, <1>3, <1>4, <1>5, ReadsType, SessionStep DEF Reads

LEMMA ReadsRejectedInv == ASSUME SessionInv, ReadsRejected PROVE SessionInv'
<1>1. /\ Reads /\ Item = "rejected" /\ stream' = Abandoned(worker.stream)
      /\ worker' = [Closed(worker) EXCEPT !.rejected = TRUE]
      /\ tab' = Told(worker.ports, "rejected")
  BY DEF ReadsRejected
<1>2. worker' \in WorkerRecords /\ worker'.source = "none" /\ worker'.stream = None
  <2>1. worker \in WorkerRecords
    BY DEF SessionInv, BrowserTypeOK
  <2> QED
    BY <1>1, <2>1, ClosedType DEF WorkerRecords
<1>3. tab' \in [Tabs -> TabRecords]
  BY <1>1, ToldType DEF Messages, SessionInv
<1> QED
  BY <1>1, <1>2, <1>3, ReadsType, LeavesInv, SessionStep DEF Reads

LEMMA BrokenType ==
  ASSUME NEW w \in WorkerRecords, NEW source \in {"again", "failed"}
  PROVE  /\ Broken(w, source) \in WorkerRecords /\ Broken(w, source).source # "on"
         /\ Broken(w, source).stream = None
         /\ Broken(w, source).source # "none" => Broken(w, source).id = w.id
<1>1. CASE w.ports = {}
  BY <1>1, ClosedType DEF Broken
<1>2. CASE w.ports # {}
  BY <1>2 DEF Broken, WorkerRecords
<1> QED
  BY <1>1, <1>2

LEMMA ReadsEndInv == ASSUME SessionInv, ReadsEnd PROVE SessionInv'
<1> DEFINE source == IF Item = "end" THEN "again" ELSE "failed"
<1>1. /\ Reads /\ Item \in {"end", "401"} /\ worker' = Broken(worker, source)
      /\ tab' = Told(worker.ports, "error") /\ UNCHANGED stream
  BY DEF ReadsEnd
<1>2. /\ worker' \in WorkerRecords /\ worker'.source # "on" /\ worker'.stream = None
      /\ worker'.source # "none" => worker'.id = worker.id
  <2>1. worker \in WorkerRecords
    BY DEF SessionInv, BrowserTypeOK
  <2>2. source \in {"again", "failed"}
    OBVIOUS
  <2> HIDE DEF source
  <2> QED
    BY <1>1, <2>1, <2>2, BrokenType
<1>3. tab' \in [Tabs -> TabRecords]
  BY <1>1, ToldType DEF Messages, SessionInv
<1>4. worker.source = "on" /\ worker.stream \in Streams /\ ~Lives(worker.stream)
  <2>1. worker.source = "on" /\ worker.stream \in Streams /\ Item = request[worker.stream].wire[1]
        /\ request[worker.stream].wire \in Seq(WireItems) /\ request[worker.stream].wire # << >>
    BY <1>1, ReadsType DEF Reads, SessionInv, BrowserTypeOK, RequestRecords
  <2>2. 1 \in 1..Len(request[worker.stream].wire)
    BY <2>1, LenProperties, EmptySeq
  <2> QED
    BY <1>1, <2>1, <2>2 DEF SessionInv, ReadsItsStream, Lives
<1>5. OneStream'
  BY <1>1, <1>4 DEF SessionInv, OneStream, Lives
<1>6. ReadsItsStream'
  <2>1. \A c \in Streams : EndUnread(c)' => EndUnread(c)
    BY <1>1, TailUnread
  <2>2. \A c \in Streams : \A i \in 1..Len(request'[c].wire) :
          request'[c].wire[i] \in {"end", "401"} => stream'[c].at = "over" \/ stream'[c].gone
    BY <1>1, <2>1 DEF SessionInv, ReadsItsStream, EndUnread
  <2>3. worker'.source # "none" => worker'.id # None
    BY <1>2, <1>4 DEF SessionInv, ReadsItsStream
  <2> QED
    BY <1>2, <2>2, <2>3 DEF ReadsItsStream
<1>7. ServerInv'
  BY <1>1, ReadsType, ServerStays DEF serverVars, SessionInv
<1> QED
  BY <1>1, <1>2, <1>3, <1>5, <1>6, <1>7, ReadsType, SessionStep DEF Reads

LEMMA OnlyOpensKeeps ==
  ASSUME SessionInv, OnlyOpens
  PROVE  /\ UNCHANGED <<registry, shutting, ending, sends, events, jar, idp, faults, failed>>
         /\ jar' \in CookieSet
BY CookiesType DEF OnlyOpens, NoFault, authVars, SessionInv

\* A worker that stands by its source.
LEMMA WorkerStaysInv ==
  ASSUME SessionInv, UNCHANGED <<stream, request>>,
         UNCHANGED <<registry, shutting, ending, sends, events>>,
         worker'.source = worker.source, worker'.stream = worker.stream, worker'.id = worker.id
  PROVE  /\ ServerInv' /\ request' \in [Streams -> RequestRecords]
         /\ ReadsItsStream' /\ OneStream'
<1>1. ServerInv'
  BY ServerStays DEF serverVars, SessionInv
<1>2. ReadsItsStream' /\ OneStream'
  BY KeepsInv DEF Lives, EndUnread
<1> QED
  BY <1>1, <1>2 DEF SessionInv, BrowserTypeOK

LEMMA RepeatsInv == ASSUME SessionInv, Repeats PROVE SessionInv'
<1>1. /\ worker.source = "again" /\ FreeSlots # {} /\ OnlyOpens /\ UNCHANGED tab
      /\ stream' = [stream EXCEPT ![Slot] = Asked(worker.id)]
      /\ request' = [request EXCEPT ![Slot] = [NoRequest EXCEPT !.with = jar]]
      /\ worker' = [worker EXCEPT !.source = "on", !.stream = Slot]
  BY DEF Repeats
<1>2. worker \in WorkerRecords /\ worker.stream = None /\ worker.id \in Ids
  BY <1>1 DEF SessionInv, BrowserTypeOK, ReadsItsStream, WorkerRecords
<1>3. Slot \in Streams
  BY <1>1, SlotType DEF FreeSlots
<1>4. worker' \in WorkerRecords /\ worker'.source = "on" /\ worker'.stream = Slot
      /\ worker'.id = worker.id
  BY <1>1, <1>2, <1>3 DEF WorkerRecords
<1>5. Abandoned(worker.stream) = stream /\ Unread(worker.stream) = request
  BY <1>2 DEF Abandoned, Unread
<1>6. ServerInv' /\ request' \in [Streams -> RequestRecords] /\ ReadsItsStream' /\ OneStream'
  BY <1>1, <1>2, <1>4, <1>5, OnlyOpensKeeps, OpenedInv
<1> QED
  BY <1>1, <1>4, <1>6, OnlyOpensKeeps, SessionStep DEF OnlyOpens, SessionInv, BrowserTypeOK

LEMMA TimerFiresInv == ASSUME SessionInv, TimerFires PROVE SessionInv'
<1> DEFINE w == [worker EXCEPT !.timer = FALSE]
<1>1. OnlyOpens /\ UNCHANGED tab
  BY DEF TimerFires
<1>2. /\ w \in WorkerRecords
      /\ w.source = worker.source /\ w.stream = worker.stream /\ w.id = worker.id
  BY DEF SessionInv, BrowserTypeOK, WorkerRecords
<1>3. CASE worker.ports # {}
  <2>1. Opens(w)
    BY <1>3 DEF TimerFires
  <2> HIDE DEF w
  <2>2. /\ ServerInv' /\ request' \in [Streams -> RequestRecords]
        /\ worker' \in WorkerRecords /\ ReadsItsStream' /\ OneStream'
    BY <1>1, <1>2, <2>1, OnlyOpensKeeps, OpensInv
  <2> QED
    BY <1>1, <2>2, OnlyOpensKeeps, SessionStep DEF OnlyOpens, SessionInv, BrowserTypeOK
<1>4. CASE worker.ports = {}
  <2>1. worker' = w /\ UNCHANGED <<stream, request>>
    BY <1>4 DEF TimerFires
  <2> HIDE DEF w
  <2>2. ServerInv' /\ request' \in [Streams -> RequestRecords] /\ ReadsItsStream' /\ OneStream'
    BY <1>1, <1>2, <2>1, OnlyOpensKeeps, WorkerStaysInv
  <2> QED
    BY <1>1, <1>2, <2>1, <2>2, OnlyOpensKeeps, SessionStep DEF OnlyOpens, SessionInv, BrowserTypeOK
<1> QED
  BY <1>3, <1>4

LEMMA HandleConnectInv ==
  ASSUME SessionInv, NEW t \in Tabs, HandleConnect(t) PROVE SessionInv'
<1> DEFINE ports == worker.ports \cup {IF tab[t].at = "here" THEN t ELSE DeadPort}
           opened == [worker EXCEPT !.ports = ports, !.rejected = FALSE]
           joined == [worker EXCEPT !.ports = ports]
<1>1. OnlyOpens /\ tab[t].says # << >>
  BY DEF HandleConnect, Says
<1>2. worker \in WorkerRecords /\ ports \in SUBSET (Tabs \cup {DeadPort})
  BY DEF SessionInv, BrowserTypeOK, WorkerRecords
<1> HIDE DEF ports
<1>3. /\ opened \in WorkerRecords /\ joined \in WorkerRecords
      /\ joined.source = worker.source /\ joined.stream = worker.stream /\ joined.id = worker.id
  BY <1>2 DEF WorkerRecords
<1>4. Heard(t) \in [Tabs -> TabRecords]
  BY <1>1, HeardType DEF SessionInv
<1>5. CASE worker.source = "none"
  <2>1. Opens(opened) /\ tab' = Heard(t)
    BY <1>5 DEF HandleConnect, ports
  <2> HIDE DEF opened
  <2>2. /\ ServerInv' /\ request' \in [Streams -> RequestRecords]
        /\ worker' \in WorkerRecords /\ ReadsItsStream' /\ OneStream'
    BY <1>1, <1>3, <2>1, OnlyOpensKeeps, OpensInv
  <2> QED
    BY <1>1, <1>4, <2>1, <2>2, OnlyOpensKeeps, SessionStep DEF OnlyOpens
<1>6. CASE worker.source # "none"
  <2>1. /\ worker' = joined /\ UNCHANGED <<stream, request>>
        /\ \/ tab' = Heard(t)
           \/ tab' = [Heard(t) EXCEPT ![t].hears = Append(@, "connected")]
    BY <1>6 DEF HandleConnect, ports
  <2>2. tab' \in [Tabs -> TabRecords]
    <3>1. Heard(t)[t] \in TabRecords
      BY <1>4
    <3>2. Append(Heard(t)[t].hears, "connected") \in Seq(Messages)
      BY <3>1, AppendProperties DEF TabRecords, Messages
    <3>3. [Heard(t)[t] EXCEPT !.hears = Append(@, "connected")] \in TabRecords
      BY <3>1, <3>2 DEF TabRecords
    <3> QED
      BY <1>4, <2>1, <3>3
  <2> HIDE DEF joined
  <2>3. ServerInv' /\ request' \in [Streams -> RequestRecords] /\ ReadsItsStream' /\ OneStream'
    BY <1>1, <1>3, <2>1, OnlyOpensKeeps, WorkerStaysInv
  <2> QED
    BY <1>1, <1>3, <2>1, <2>2, <2>3, OnlyOpensKeeps, SessionStep DEF OnlyOpens
<1> QED
  BY <1>5, <1>6

LEMMA HandleReconnectInv ==
  ASSUME SessionInv, NEW t \in Tabs, HandleReconnect(t) PROVE SessionInv'
<1> DEFINE w == [Closed(worker) EXCEPT !.rejected = FALSE]
<1>1. OnlyOpens /\ tab[t].says # << >> /\ tab' = Heard(t) /\ Opens(w)
  BY DEF HandleReconnect, Says
<1>2. w \in WorkerRecords
  <2>1. Closed(worker) \in WorkerRecords
    BY ClosedType DEF SessionInv, BrowserTypeOK
  <2> QED
    BY <2>1 DEF WorkerRecords
<1>3. Heard(t) \in [Tabs -> TabRecords]
  BY <1>1, HeardType DEF SessionInv
<1> HIDE DEF w
<1>4. /\ ServerInv' /\ request' \in [Streams -> RequestRecords]
      /\ worker' \in WorkerRecords /\ ReadsItsStream' /\ OneStream'
  BY <1>1, <1>2, OnlyOpensKeeps, OpensInv
<1> QED
  BY <1>1, <1>3, <1>4, OnlyOpensKeeps, SessionStep DEF OnlyOpens

LEMMA HandleDisconnectInv ==
  ASSUME SessionInv, NEW t \in Tabs, HandleDisconnect(t) PROVE SessionInv'
<1> DEFINE ports == worker.ports \ {t}
<1>1. OnlyOpens /\ tab[t].says # << >> /\ tab' = Heard(t)
  BY DEF HandleDisconnect, Says
<1>2. worker \in WorkerRecords /\ ports \in SUBSET (Tabs \cup {DeadPort})
  BY DEF SessionInv, BrowserTypeOK, WorkerRecords
<1>3. Heard(t) \in [Tabs -> TabRecords]
  BY <1>1, HeardType DEF SessionInv
<1>4. CASE ports = {}
  <2>1. stream' = Abandoned(worker.stream) /\ request' = Unread(worker.stream)
        /\ worker' = [Closed(worker) EXCEPT !.ports = ports]
    BY <1>4 DEF HandleDisconnect
  <2> HIDE DEF ports
  <2>2. worker' \in WorkerRecords /\ worker'.source = "none" /\ worker'.stream = None
    BY <1>2, <2>1, ClosedType DEF WorkerRecords
  <2>3. ServerInv' /\ request' \in [Streams -> RequestRecords] /\ ReadsItsStream' /\ OneStream'
    BY <1>1, <2>1, <2>2, OnlyOpensKeeps, LeavesInv
  <2> QED
    BY <1>1, <1>3, <2>2, <2>3, OnlyOpensKeeps, SessionStep DEF OnlyOpens
<1>5. CASE ports # {}
  <2>1. worker' = [worker EXCEPT !.ports = ports] /\ stream' = stream /\ request' = request
    BY <1>5 DEF HandleDisconnect
  <2> HIDE DEF ports
  <2>2. worker' \in WorkerRecords /\ worker'.source = worker.source
        /\ worker'.stream = worker.stream /\ worker'.id = worker.id
    BY <1>2, <2>1 DEF WorkerRecords
  <2>3. ServerInv' /\ request' \in [Streams -> RequestRecords] /\ ReadsItsStream' /\ OneStream'
    BY <1>1, <2>1, <2>2, OnlyOpensKeeps, WorkerStaysInv
  <2> QED
    BY <1>1, <1>3, <2>2, <2>3, OnlyOpensKeeps, SessionStep DEF OnlyOpens
<1> QED
  BY <1>4, <1>5

----------------------------------------------------------------------------
(* The backend's steps.                                                    *)

\* A step of the backend's that leaves no stream alive that was not, and writes
\* no end to one that goes on.
LEMMA BackendStep ==
  ASSUME SessionInv, ServerInv', BackendOnly \/ (UNCHANGED <<worker, tab, authVars>> /\ Fault)
                                 \/ (UNCHANGED <<worker, tab, authVars>> /\ Fails),
         request' \in [Streams -> RequestRecords],
         \A c \in Streams : Lives(c)' => Lives(c),
         \A c \in Streams : EndUnread(c)' => EndUnread(c) \/ ~Lives(c)'
  PROVE  SessionInv'
<1>1. UNCHANGED <<worker, tab, jar, idp>> /\ (Fault \/ NoFault \/ Fails)
  BY DEF BackendOnly, authVars
<1>2. ReadsItsStream' /\ OneStream'
  BY <1>1, KeepsInv
<1>3. jar' \in CookieSet /\ worker' \in WorkerRecords /\ tab' \in [Tabs -> TabRecords]
  BY <1>1, CookiesType DEF SessionInv, BrowserTypeOK
<1> QED
  BY <1>1, <1>2, <1>3, SessionStep

\* What the backend writes of a stream its browser reads.
LEMMA WrittenType ==
  ASSUME SessionInv, NEW c \in Streams, NEW item \in WireItems, Written(c, <<item>>)
  PROVE  /\ request' \in [Streams -> RequestRecords]
         /\ \A d \in Streams : EndUnread(d)' => EndUnread(d) \/ (d = c /\ item \in {"end", "401"})
<1>1. request \in [Streams -> RequestRecords] /\ request[c].wire \in Seq(WireItems)
      /\ request[c] \in RequestRecords
  BY DEF SessionInv, BrowserTypeOK, RequestRecords
<1> DEFINE wire == IF stream[c].gone THEN request[c].wire ELSE request[c].wire \o <<item>>
           x == [request[c] EXCEPT !.wire = wire]
<1>2. request' = [request EXCEPT ![c] = x]
  BY DEF Written
<1>3. /\ request[c].wire \o <<item>> \in Seq(WireItems)
      /\ Len(request[c].wire) \in Nat
      /\ \A i \in 1..Len(request[c].wire \o <<item>>) :
           \/ i \in 1..Len(request[c].wire) /\ (request[c].wire \o <<item>>)[i] = request[c].wire[i]
           \/ (request[c].wire \o <<item>>)[i] = item
  BY <1>1
<1>4. wire \in Seq(WireItems)
  BY <1>1, <1>3
<1>5. \A i \in 1..Len(wire) :
        (i \in 1..Len(request[c].wire) /\ wire[i] = request[c].wire[i]) \/ wire[i] = item
  BY <1>3
<1> HIDE DEF wire
<1>6. x \in RequestRecords /\ x.wire = wire
  BY <1>1, <1>4 DEF RequestRecords
<1> HIDE DEF x
<1>7. request' \in [Streams -> RequestRecords]
      /\ \A d \in Streams : request'[d] = IF d = c THEN x ELSE request[d]
  BY <1>1, <1>2, <1>6
<1>8. \A d \in Streams : EndUnread(d)' => EndUnread(d) \/ (d = c /\ item \in {"end", "401"})
  BY <1>5, <1>6, <1>7 DEF EndUnread
<1> QED
  BY <1>7, <1>8

\* A server's step makes no stream alive that was not.
LEMMA ThreadLives ==
  ASSUME ServerInv, NEW c \in Streams, ThreadSteps(c)
  PROVE  \A d \in Streams :
           (Lives(d)' => Lives(d)) /\ (Asks(d)' => Asks(d))
<1> SUFFICES ASSUME NEW d \in Streams PROVE (Lives(d)' => Lives(d)) /\ (Asks(d)' => Asks(d))
  OBVIOUS
<1>1. stream \in [Streams -> StreamRecords] /\ stream[c] \in StreamRecords
      /\ stream[d] \in StreamRecords
  BY DEF ServerInv, ServerTypeOK
<1>2. CASE Register(c)
  <2>1. stream[c].at = "asked" /\
        \/ stream' = [stream EXCEPT ![c].at = "starting", ![c].closed = TRUE]
        \/ stream' = [stream EXCEPT
              ![c].at = IF registry[stream[c].id] = None THEN "starting" ELSE "registered",
              ![c].replaced = registry[stream[c].id]]
    BY <1>2 DEF Register
  <2>2. d = c => (stream'[d].gone <=> stream[d].gone)
    BY <1>1, <2>1 DEF StreamRecords
  <2>3. d # c => stream'[d] = stream[d]
    BY <1>1, <2>1
  <2> QED
    BY <2>1, <2>2, <2>3 DEF Lives, Asks
<1>3. CASE CloseReplaced(c)
  <2> DEFINE left == [stream EXCEPT ![c].at = "starting", ![c].replaced = None]
             old == stream[c].replaced
  <2>1. stream' = [left EXCEPT ![old].closed = TRUE] /\ stream[c].at = "registered"
    BY <1>3 DEF CloseReplaced
  <2>2. /\ left[d] = IF d = c THEN [stream[c] EXCEPT !.at = "starting", !.replaced = None]
                     ELSE stream[d]
        /\ DOMAIN left = Streams
    BY <1>1
  <2>3. left[d].gone <=> stream[d].gone
    BY <1>1, <2>2 DEF StreamRecords
  <2>4. stream'[d] = IF d = old THEN [left[d] EXCEPT !.closed = TRUE] ELSE left[d]
    BY <2>1, <2>2
  <2>5. left[d] \in StreamRecords
    BY <1>1, <2>2 DEF StreamRecords, Serving
  <2> HIDE DEF left, old
  <2>6. stream'[d].gone <=> left[d].gone
    BY <2>4, <2>5 DEF StreamRecords
  <2>7. stream'[d].at = left[d].at
    BY <2>4, <2>5 DEF StreamRecords
  <2>8. left[d].at = IF d = c THEN "starting" ELSE stream[d].at
    BY <1>1, <2>2 DEF StreamRecords
  <2> QED
    BY <2>1, <2>3, <2>6, <2>7, <2>8 DEF Lives, Asks
<1>4. CASE Starts(c)
  BY <1>1, <1>4 DEF Starts, Lives, Asks, StreamRecords
<1>5. CASE Writes(c)
  BY <1>1, <1>5 DEF Writes, Lives, Asks, StreamRecords
<1>6. CASE Leave(c)
  BY <1>1, <1>6, OverType DEF Leave, Lives, Asks, StreamRecords
<1>7. CASE Close(c)
  BY <1>1, <1>7 DEF Close, Lives, Asks, StreamRecords
<1> QED
  BY <1>2, <1>3, <1>4, <1>5, <1>6, <1>7 DEF ThreadSteps

LEMMA SendLives ==
  ASSUME ServerInv, NEW s \in sends, SendSteps(s)
  PROVE  \A d \in Streams :
           (Lives(d)' => Lives(d)) /\ (Asks(d)' => Asks(d))
<1> SUFFICES ASSUME NEW d \in Streams PROVE (Lives(d)' => Lives(d)) /\ (Asks(d)' => Asks(d))
  OBVIOUS
<1>1. stream \in [Streams -> StreamRecords] /\ stream[d] \in StreamRecords
  BY DEF ServerInv, ServerTypeOK
<1>2. ASSUME NEW c \in Streams, Offer(s, c) PROVE (Lives(d)' => Lives(d)) /\ (Asks(d)' => Asks(d))
  <2>1. stream[c] \in StreamRecords
    BY <1>1
  <2>2. \/ UNCHANGED stream
        \/ stream' = [stream EXCEPT ![c].queue = Append(@, s.event)]
        \/ stream' = [stream EXCEPT ![c].missed = TRUE]
    BY <1>2 DEF Offer
  <2>3. d = c => (stream'[d].gone <=> stream[d].gone) /\ stream'[d].at = stream[d].at
    <3>1. CASE stream' = [stream EXCEPT ![c].queue = Append(@, s.event)]
      BY <1>1, <2>1, <3>1 DEF StreamRecords
    <3>2. CASE stream' = [stream EXCEPT ![c].missed = TRUE]
      BY <1>1, <2>1, <3>2 DEF StreamRecords
    <3> QED
      BY <2>2, <3>1, <3>2
  <2>4. d # c => stream'[d] = stream[d]
    BY <1>1, <2>2
  <2> QED
    BY <2>3, <2>4 DEF Lives, Asks
<1>3. CASE Drop(s)
  BY <1>1, <1>3 DEF Drop, Lives, Asks, StreamRecords
<1> QED
  BY <1>2, <1>3 DEF SendSteps, Unlist, Sent, Lives, Asks

\* The gate's answer for a request.
LEMMA AdmitsInv ==
  ASSUME SessionInv, NEW c \in Streams, NEW answer \in Answers, NEW token \in Nat,
         Admits(c, answer, token), Fault \/ NoFault \/ Fails
  PROVE  SessionInv'
<1> USE DEF SessionInv
<1>1. /\ stream[c].at = "asked" /\ UNCHANGED <<worker, tab, jar>> /\ Gives(token)
      /\ stream \in [Streams -> StreamRecords] /\ request \in [Streams -> RequestRecords]
      /\ request[c] \in RequestRecords
  BY DEF Admits, authVars, ServerInv, ServerTypeOK, BrowserTypeOK
<1>2. ServerInv' /\ \A d \in Streams : Lives(d)' => Lives(d)
  <2>1. CASE answer.who = "served"
    <3>1. Register(c)
      BY <2>1 DEF Admits
    <3> QED
      BY <3>1, RegisterInv, ThreadLives DEF ThreadSteps
  <2>2. CASE answer.who # "served"
    <3>1. /\ stream' = [stream EXCEPT ![c] = Over]
          /\ UNCHANGED <<registry, shutting, ending, sends, events>>
      BY <2>2 DEF Admits
    <3> QED
      BY <1>1, <3>1, NeverServedInv, OverType DEF Lives
  <2> QED
    BY <2>1, <2>2
<1> DEFINE wire == CASE answer.who = "served" -> << >>
                     [] answer.who = "failed" -> <<"401">>
                     [] OTHER -> <<"rejected", "end">>
           x == [request[c] EXCEPT !.with = NoCookies, !.set = answer.set, !.wire = wire]
<1>3. \/ stream[c].gone /\ request' = [request EXCEPT ![c] = NoRequest]
      \/ stream[c].gone /\ request' = request
      \/ request' = [request EXCEPT ![c] = x]
  BY DEF Admits
<1>4. wire \in Seq(WireItems) /\ (answer.who = "served" => Len(wire) = 0)
  <2>1. << >> \in Seq(WireItems) /\ <<"401">> \in Seq(WireItems)
        /\ <<"rejected", "end">> \in Seq(WireItems) /\ Len(<< >>) = 0
    BY DEF WireItems
  <2>2. CASE answer.who = "served"
    BY <2>1, <2>2
  <2>3. CASE answer.who = "failed"
    BY <2>1, <2>3
  <2>4. CASE answer.who \notin {"served", "failed"}
    BY <2>1, <2>4
  <2> QED
    BY <2>2, <2>3, <2>4
<1> HIDE DEF wire
<1>5. x \in RequestRecords /\ x.wire = wire
  BY <1>1, <1>4, CookiesType DEF RequestRecords, Answers
<1> HIDE DEF x
<1>6. request' \in [Streams -> RequestRecords]
      /\ \A d \in Streams : d # c => request'[d] = request[d]
  BY <1>1, <1>3, <1>5, NoRequestType
<1>7. EndUnread(c)' => EndUnread(c) \/ ~Lives(c)'
  <2>1. CASE stream[c].gone /\ request' = [request EXCEPT ![c] = NoRequest]
    <3>1. request'[c].wire = << >>
      BY <1>1, <2>1, NoRequestType
    <3> QED
      BY <3>1 DEF EndUnread
  <2>2. CASE request' = request
    BY <2>2 DEF EndUnread
  <2>3. CASE request' = [request EXCEPT ![c] = x]
    <3>1. request'[c].wire = wire
      BY <1>1, <1>5, <2>3
    <3>2. CASE answer.who = "served"
      BY <1>4, <3>1, <3>2 DEF EndUnread
    <3>3. CASE answer.who # "served"
      <4>1. stream' = [stream EXCEPT ![c] = Over]
        BY <3>3 DEF Admits
      <4> QED
        BY <1>1, <4>1, OverType DEF Lives
    <3> QED
      BY <3>2, <3>3
  <2> QED
    BY <1>3, <2>1, <2>2, <2>3
<1>8. \A d \in Streams : EndUnread(d)' => EndUnread(d) \/ ~Lives(d)'
  BY <1>6, <1>7 DEF EndUnread
<1>9. ReadsItsStream' /\ OneStream'
  BY <1>1, <1>2, <1>8, KeepsInv
<1>10. jar' \in CookieSet /\ worker' \in WorkerRecords /\ tab' \in [Tabs -> TabRecords]
  BY <1>1, CookiesType DEF BrowserTypeOK
<1>11. idp' \in Provider
  BY <1>1, GivesType
<1> QED
  BY <1>2, <1>6, <1>9, <1>10, <1>11, SessionMoves

LEMMA AskedWith ==
  ASSUME SessionInv, NEW c \in Streams
  PROVE  /\ FailingGate(request[c].with) \subseteq Answers
         /\ \A token \in Nat : Gate(request[c].with, token) \in Answers
         /\ Tokens(request[c].with) \subseteq Nat /\ Unanswered(request[c].with) \subseteq Nat
<1>1. request[c].with \in CookieSet
  BY DEF SessionInv, BrowserTypeOK, RequestRecords
<1> QED
  BY <1>1, GateType, TokensType DEF SessionInv

LEMMA ServerOnlyInv ==
  ASSUME SessionInv, ServerInv', ServerOnly, \A c \in Streams : Lives(c)' => Lives(c)
  PROVE  SessionInv'
<1>1. request' \in [Streams -> RequestRecords] /\ BackendOnly
  BY DEF ServerOnly, SessionInv, BrowserTypeOK
<1>2. \A c \in Streams : EndUnread(c)' => EndUnread(c) \/ ~Lives(c)'
  BY DEF ServerOnly, EndUnread
<1> QED
  BY <1>1, <1>2, BackendStep

LEMMA BackendStepsInv ==
  ASSUME SessionInv, NEW c \in Streams, BackendSteps(c) PROVE SessionInv'
<1>1. ServerInv
  BY DEF SessionInv
<1>2. CASE Admitted(c)
  <2>1. PICK token \in Tokens(request[c].with) :
            Admits(c, Gate(request[c].with, token), token) /\ (Fault \/ NoFault)
    BY <1>2 DEF Admitted
  <2>2. token \in Nat /\ Gate(request[c].with, token) \in Answers
    BY AskedWith
  <2> QED
    BY <2>1, <2>2, AdmitsInv
<1>3. CASE Aborted(c)
  <2>1. stream[c].at = "asked" /\ stream' = [stream EXCEPT ![c] = Over] /\ ServerOnly
        /\ UNCHANGED <<registry, shutting, ending, sends, events>>
    BY <1>3 DEF Aborted
  <2>2. ServerInv'
    BY <1>1, <2>1, NeverServedInv
  <2>3. \A d \in Streams : Lives(d)' => Lives(d)
    BY <1>1, <2>1, OverType DEF Lives, ServerInv, ServerTypeOK
  <2> QED
    BY <2>1, <2>2, <2>3, ServerOnlyInv
<1>4. CASE (CloseReplaced(c) \/ Close(c)) /\ ServerOnly
  BY <1>1, <1>4, ThreadStepsInv, ThreadLives, ServerOnlyInv DEF ThreadSteps
<1>5. ASSUME NEW item \in WireItems, Written(c, <<item>>), BackendOnly, ThreadSteps(c),
             item \in {"end", "401"} => ~Lives(c)'
      PROVE  SessionInv'
  <2>1. ServerInv' /\ \A d \in Streams : Lives(d)' => Lives(d)
    BY <1>1, <1>5, ThreadStepsInv, ThreadLives
  <2> QED
    BY <1>5, <2>1, WrittenType, BackendStep
<1>6. CASE Starts(c) /\ Written(c, <<"ready">>) /\ BackendOnly
  BY <1>5, <1>6 DEF ThreadSteps, WireItems
<1>7. CASE Writes(c) /\ Written(c, <<"event">>) /\ BackendOnly
  BY <1>5, <1>7 DEF ThreadSteps, WireItems
<1>8. CASE Leave(c) /\ Written(c, <<"end">>) /\ BackendOnly
  <2>1. ~Lives(c)'
    BY <1>1, <1>8, OverType DEF Leave, Lives, ServerInv, ServerTypeOK
  <2> QED
    BY <1>5, <1>8, <2>1 DEF ThreadSteps, WireItems
<1> QED
  BY <1>2, <1>3, <1>4, <1>6, <1>7, <1>8 DEF BackendSteps

\* The next process: it registers streams again.
LEMMA NextProcessInv == ASSUME SessionInv, NextProcess PROVE SessionInv'
<1>1. ServerInv'
  BY DEF NextProcess, SessionInv, ServerInv, ServerTypeOK, PlacesInv, ListedAreServed,
     ReplacesOnce, AskedIsNew, OpenIsReached
<1> QED
  BY <1>1, ServerOnlyInv DEF NextProcess, Lives

LEMMA SendStepsOnlyInv ==
  ASSUME SessionInv, NEW s \in sends, SendSteps(s), ServerOnly PROVE SessionInv'
BY SendStepsInv, SendLives, ServerOnlyInv DEF SessionInv

----------------------------------------------------------------------------
(* The tabs' steps, the user's and the faults.                             *)

\* What goes on in a tab that leaves the backend, the worker and the jar alone.
LEMMA TabMoves ==
  ASSUME SessionInv, TabOnly, jar' \in CookieSet, idp' \in Provider, Fault \/ NoFault \/ Fails,
         tab' \in [Tabs -> TabRecords]
  PROVE  SessionInv'
<1>1. UNCHANGED <<request, worker>> /\ UNCHANGED serverVars
  BY DEF TabOnly
<1>2. /\ ServerInv' /\ request' \in [Streams -> RequestRecords]
      /\ ReadsItsStream' /\ OneStream'
  BY <1>1, WorkerStaysInv DEF serverVars
<1>3. worker' \in WorkerRecords
  BY <1>1 DEF SessionInv, BrowserTypeOK
<1> QED
  BY <1>2, <1>3, SessionMoves

LEMMA TabStep ==
  ASSUME SessionInv, TabOnly, UNCHANGED authVars, Fault \/ NoFault \/ Fails,
         tab' \in [Tabs -> TabRecords]
  PROVE  SessionInv'
<1>1. jar' \in CookieSet /\ idp' \in Provider
  BY DEF authVars, SessionInv, AuthTypeOK, CookieSet, Provider
<1> QED
  BY <1>1, TabMoves

LEMMA TabType ==
  ASSUME BrowserTypeOK, NEW t \in Tabs
  PROVE  /\ tab[t] \in TabRecords /\ tab[t].probe \in ProbeRecords
         /\ tab[t].probe.with \in CookieSet /\ tab[t].probe.set \in SetCookies
         /\ tab[t].hears \in Seq(Messages) /\ tab[t].says \in Seq(Commands)
         /\ tab \in [Tabs -> TabRecords]
BY DEF BrowserTypeOK, TabRecords, ProbeRecords

LEMMA TabOpensInv == ASSUME SessionInv, NEW t \in Tabs, TabOpens(t) PROVE SessionInv'
<1> DEFINE x == [Away("here") EXCEPT !.says = <<"connect">>]
<1>1. x \in TabRecords
  <2>1. Away("here") \in TabRecords
    BY AwayType DEF SessionInv
  <2>2. <<"connect">> \in Seq(Commands)
    BY DEF Commands
  <2> QED
    BY <2>1, <2>2 DEF TabRecords
<1>2. tab' = [tab EXCEPT ![t] = x] /\ TabOnly /\ UNCHANGED authVars /\ NoFault
  BY DEF TabOpens
<1> HIDE DEF x
<1> QED
  BY <1>1, <1>2, TabType, TabStep DEF SessionInv

LEMMA TabHearsInv == ASSUME SessionInv, NEW t \in Tabs, TabHears(t) PROVE SessionInv'
<1> DEFINE rest == Tail(tab[t].hears)
           x == [tab[t] EXCEPT !.hears = rest]
           probe == [NoProbe EXCEPT !.at = "asked", !.with = jar]
<1>1. /\ tab[t].hears # << >> /\ TabOnly /\ UNCHANGED authVars /\ NoFault
      /\ \/ tab' = [tab EXCEPT ![t] = [x EXCEPT !.connected = TRUE]]
         \/ tab' = [tab EXCEPT ![t] = x]
         \/ tab' = [tab EXCEPT ![t] = [x EXCEPT !.connected = FALSE]]
         \/ tab' = [tab EXCEPT ![t] = [x EXCEPT !.connected = FALSE, !.probe = probe]]
  BY DEF TabHears
<1>2. rest \in Seq(Messages)
  BY <1>1, TabType, HeadTailProperties DEF SessionInv
<1>3. probe \in ProbeRecords
  <2>1. NoProbe \in ProbeRecords /\ jar \in CookieSet
    BY AwayType, CookiesType DEF SessionInv
  <2> QED
    BY <2>1 DEF ProbeRecords
<1> HIDE DEF rest, probe
<1>4. x \in TabRecords
  <2>1. tab[t] \in TabRecords
    BY TabType DEF SessionInv
  <2> QED
    BY <1>2, <2>1 DEF TabRecords
<1> HIDE DEF x
<1>5. /\ [x EXCEPT !.connected = TRUE] \in TabRecords
      /\ [x EXCEPT !.connected = FALSE] \in TabRecords
      /\ [x EXCEPT !.connected = FALSE, !.probe = probe] \in TabRecords
  BY <1>3, <1>4 DEF TabRecords
<1>6. tab' \in [Tabs -> TabRecords]
  BY <1>1, <1>4, <1>5, TabType DEF SessionInv
<1> QED
  BY <1>1, <1>6, TabStep

LEMMA ProbedType ==
  ASSUME SessionInv, NEW t \in Tabs, NEW answer \in Answers, NEW token, Probed(t, answer, token)
  PROVE  /\ tab' \in [Tabs -> TabRecords]
         /\ \A u \in Tabs : u # t => tab'[u] = tab[u]
         /\ tab'[t].at = tab[t].at
         /\ tab'[t].probe.at = "answered" /\ tab'[t].probe.with = tab[t].probe.with
         /\ tab'[t].probe.set = answer.set /\ tab'[t].probe.found = Found(answer)
<1>1. tab[t] \in TabRecords /\ tab[t].probe \in ProbeRecords /\ tab \in [Tabs -> TabRecords]
  BY TabType DEF SessionInv
<1>2. answer.set \in SetCookies /\ Found(answer) \in {"none", "valid", "failed", "signed-out"}
  BY DEF Answers, Found
<1> DEFINE probe == [tab[t].probe EXCEPT !.at = "answered", !.set = answer.set,
                                         !.found = Found(answer)]
           x == [tab[t] EXCEPT !.probe = probe]
<1>3. /\ probe \in ProbeRecords /\ probe.at = "answered" /\ probe.with = tab[t].probe.with
      /\ probe.set = answer.set /\ probe.found = Found(answer)
  BY <1>1, <1>2 DEF ProbeRecords
<1>4. tab' = [tab EXCEPT ![t] = x]
  BY <1>1 DEF Probed, ProbeRecords, TabRecords
<1> HIDE DEF probe
<1>5. x \in TabRecords /\ x.at = tab[t].at /\ x.probe = probe
  BY <1>1, <1>3 DEF TabRecords
<1> HIDE DEF x
<1> QED
  BY <1>1, <1>3, <1>4, <1>5

LEMMA ProbeAsked ==
  ASSUME SessionInv, NEW t \in Tabs
  PROVE  /\ FailingGate(tab[t].probe.with) \subseteq Answers
         /\ GateAnswer("forbidden", Keep) \in Answers
         /\ \A token \in Nat : Gate(tab[t].probe.with, token) \in Answers
         /\ Tokens(tab[t].probe.with) \subseteq Nat /\ Unanswered(tab[t].probe.with) \subseteq Nat
BY TabType, GateType, TokensType, CookiesType DEF SessionInv, GateAnswer, Answers

LEMMA ProbedInv ==
  ASSUME SessionInv, NEW t \in Tabs, NEW answer \in Answers, NEW token \in Nat,
         Probed(t, answer, token), Fault \/ NoFault \/ Fails
  PROVE  SessionInv'
<1>1. TabOnly /\ jar' \in CookieSet /\ idp' \in Provider
  BY GivesType, CookiesType DEF Probed, SessionInv
<1> QED
  BY <1>1, ProbedType, TabMoves

\* A document that goes away.
LEMMA GoneType ==
  ASSUME SessionInv, NEW t \in Tabs, NEW at \in {"away", "login"}, Gone(t, at),
         UNCHANGED <<registry, shutting, ending, sends, events>>
  PROVE  /\ tab' \in [Tabs -> TabRecords]
         /\ \A u \in Tabs : u # t => tab'[u].at = tab[u].at /\ tab'[u].probe = tab[u].probe
         /\ tab'[t].at = at /\ tab'[t].probe = NoProbe
         /\ ServerInv' /\ request' \in [Streams -> RequestRecords]
         /\ worker' \in WorkerRecords /\ ReadsItsStream' /\ OneStream'
         /\ request' \in {request, Unread(worker.stream)}
<1>1. \A u \in Tabs : tab[u] \in TabRecords /\ tab[u].says \in Seq(Commands)
  BY TabType DEF SessionInv
<1>2. Away(at) \in TabRecords /\ Away(at).at = at /\ Away(at).probe = NoProbe
  BY AwayType DEF SessionInv
<1>3. worker \in WorkerRecords
  BY DEF SessionInv, BrowserTypeOK
<1>4. CASE Documents(t) = {}
  <2>1. /\ worker' = NoWorker /\ stream' = Abandoned(worker.stream)
        /\ request' = Unread(worker.stream)
        /\ tab' = [u \in Tabs |-> IF u = t THEN Away(at) ELSE [tab[u] EXCEPT !.says = << >>]]
    BY <1>4 DEF Gone
  <2>2. NoWorker \in WorkerRecords /\ NoWorker.source = "none" /\ NoWorker.stream = None
    BY DEF NoWorker, WorkerRecords
  <2>3. \A u \in Tabs : /\ [tab[u] EXCEPT !.says = << >>] \in TabRecords
                        /\ [tab[u] EXCEPT !.says = << >>].at = tab[u].at
                        /\ [tab[u] EXCEPT !.says = << >>].probe = tab[u].probe
    <3>1. << >> \in Seq(Commands)
      OBVIOUS
    <3> QED
      BY <1>1, <3>1 DEF TabRecords
  <2>4. ServerInv' /\ request' \in [Streams -> RequestRecords] /\ ReadsItsStream' /\ OneStream'
    BY <2>1, <2>2, LeavesInv
  <2> QED
    BY <1>2, <2>1, <2>2, <2>3, <2>4
<1>5. CASE Documents(t) # {}
  <2> DEFINE ports == IF t \in worker.ports THEN (worker.ports \ {t}) \cup {DeadPort}
                      ELSE worker.ports
             x == [Away(at) EXCEPT !.says = tab[t].says]
  <2>1. worker' = [worker EXCEPT !.ports = ports] /\ UNCHANGED <<stream, request>>
        /\ tab' = [tab EXCEPT ![t] = x]
    BY <1>5 DEF Gone
  <2>2. ports \in SUBSET (Tabs \cup {DeadPort})
    BY <1>3 DEF WorkerRecords
  <2> HIDE DEF ports
  <2>3. worker' \in WorkerRecords /\ worker'.source = worker.source
        /\ worker'.stream = worker.stream /\ worker'.id = worker.id
    BY <1>3, <2>1, <2>2 DEF WorkerRecords
  <2>4. x \in TabRecords /\ x.at = at /\ x.probe = NoProbe
    BY <1>1, <1>2 DEF TabRecords
  <2> HIDE DEF x
  <2>5. tab' \in [Tabs -> TabRecords] /\ \A u \in Tabs : tab'[u] = IF u = t THEN x ELSE tab[u]
    BY <2>1, <2>4, TabType DEF SessionInv
  <2>6. ServerInv' /\ request' \in [Streams -> RequestRecords] /\ ReadsItsStream' /\ OneStream'
    BY <2>1, <2>3, WorkerStaysInv
  <2> QED
    BY <2>1, <2>3, <2>4, <2>5, <2>6
<1> QED
  BY <1>4, <1>5

LEMMA TabClosesInv == ASSUME SessionInv, NEW t \in Tabs, TabCloses(t) PROVE SessionInv'
<1>1. /\ Gone(t, "away") /\ Fault
      /\ UNCHANGED <<registry, shutting, ending, sends, events, jar>>
  BY DEF TabCloses
<1>4. idp' \in Provider
  <2>1. PICK token \in Unanswered(tab[t].probe.with) : Gives(token)
    BY DEF TabCloses, Unanswered
  <2> QED
    BY <2>1, ProbeAsked, GivesType DEF SessionInv
<1>2. /\ tab' \in [Tabs -> TabRecords] /\ ServerInv' /\ request' \in [Streams -> RequestRecords]
      /\ worker' \in WorkerRecords /\ ReadsItsStream' /\ OneStream'
  BY <1>1, GoneType
<1>3. jar' \in CookieSet
  BY <1>1, CookiesType DEF SessionInv
<1> QED
  BY <1>1, <1>2, <1>3, <1>4, SessionMoves

LEMMA ProbeArrivesInv ==
  ASSUME SessionInv, NEW t \in Tabs, ProbeArrives(t) PROVE SessionInv'
<1> DEFINE again == [tab[t] EXCEPT !.probe = NoProbe, !.says = Append(@, "reconnect")]
           given == [tab[t] EXCEPT !.probe = NoProbe, !.lost = TRUE]
<1>1. /\ jar' = Applied(tab[t].probe.set) /\ NoFault
      /\ UNCHANGED <<registry, shutting, ending, sends, events, idp>>
      /\ \/ Gone(t, "login")
         \/ tab' = [tab EXCEPT ![t] = again] /\ UNCHANGED <<stream, request, worker>>
         \/ tab' = [tab EXCEPT ![t] = given] /\ UNCHANGED <<stream, request, worker>>
  BY DEF ProbeArrives
<1>2. jar' \in CookieSet
  BY <1>1, TabType, CookiesType DEF SessionInv
<1>3. CASE Gone(t, "login")
  <2>1. /\ tab' \in [Tabs -> TabRecords] /\ ServerInv' /\ request' \in [Streams -> RequestRecords]
        /\ worker' \in WorkerRecords /\ ReadsItsStream' /\ OneStream'
    BY <1>1, <1>3, GoneType
  <2> QED
    BY <1>1, <1>2, <2>1, SessionStep
<1>4. CASE /\ tab' = [tab EXCEPT ![t] = again] \/ tab' = [tab EXCEPT ![t] = given]
           /\ UNCHANGED <<stream, request, worker>>
  <2>1. again \in TabRecords /\ given \in TabRecords
    <3>1. tab[t] \in TabRecords /\ NoProbe \in ProbeRecords
      BY TabType, AwayType DEF SessionInv
    <3>2. Append(tab[t].says, "reconnect") \in Seq(Commands)
      BY <3>1, AppendProperties DEF TabRecords, Commands
    <3> QED
      BY <3>1, <3>2 DEF TabRecords
  <2> HIDE DEF again, given
  <2>2. tab' \in [Tabs -> TabRecords]
    BY <1>4, <2>1, TabType DEF SessionInv
  <2>3. ServerInv' /\ request' \in [Streams -> RequestRecords] /\ ReadsItsStream' /\ OneStream'
    BY <1>1, <1>4, WorkerStaysInv
  <2>4. worker' \in WorkerRecords
    BY <1>4 DEF SessionInv, BrowserTypeOK
  <2> QED
    BY <1>1, <1>2, <2>2, <2>3, <2>4, SessionStep
<1> QED
  BY <1>1, <1>3, <1>4

LEMMA FocusInv == ASSUME SessionInv, NEW t \in Tabs, Focus(t) PROVE SessionInv'
<1> DEFINE x == [tab[t] EXCEPT !.says = Append(@, "reconnect")]
<1>1. tab' = [tab EXCEPT ![t] = x] /\ TabOnly /\ UNCHANGED authVars /\ Fault
  BY DEF Focus
<1>2. x \in TabRecords
  <2>1. tab[t] \in TabRecords
    BY TabType DEF SessionInv
  <2>2. Append(tab[t].says, "reconnect") \in Seq(Commands)
    BY <2>1, AppendProperties DEF TabRecords, Commands
  <2> QED
    BY <2>1, <2>2 DEF TabRecords
<1> HIDE DEF x
<1> QED
  BY <1>1, <1>2, TabType, TabStep DEF SessionInv

LEMMA RemountsInv == ASSUME SessionInv, NEW t \in Tabs, Remounts(t) PROVE SessionInv'
<1> DEFINE x == [tab[t] EXCEPT !.connected = FALSE, !.hears = << >>,
                               !.says = @ \o <<"disconnect", "connect">>]
<1>1. tab' = [tab EXCEPT ![t] = x] /\ TabOnly /\ UNCHANGED authVars /\ Fault
  BY DEF Remounts
<1>2. x \in TabRecords
  <2>1. tab[t] \in TabRecords
    BY TabType DEF SessionInv
  <2>2. tab[t].says \o <<"disconnect", "connect">> \in Seq(Commands)
    BY <2>1, ConcatProperties DEF TabRecords, Commands
  <2>3. << >> \in Seq(Messages)
    OBVIOUS
  <2> QED
    BY <2>1, <2>2, <2>3 DEF TabRecords
<1> HIDE DEF x
<1> QED
  BY <1>1, <1>2, TabType, TabStep DEF SessionInv

LEMMA DropsInv == ASSUME SessionInv, Drops PROVE SessionInv'
<1> DEFINE c == worker.stream
           x == [Unread(c)[c] EXCEPT !.wire = <<"end">>]
<1>1. /\ worker.source = "on" /\ stream' = Abandoned(c) /\ Fault
      /\ request' = [Unread(c) EXCEPT ![c] = x]
      /\ UNCHANGED <<registry, shutting, ending, sends, events, worker, tab, jar, idp>>
  BY DEF Drops, authVars
<1>2. c \in Streams
  BY <1>1 DEF SessionInv, ReadsItsStream, BrowserTypeOK, WorkerRecords
<1>3. Unread(c) \in [Streams -> RequestRecords]
      /\ \A d \in Streams : d # c => Unread(c)[d] = request[d]
  BY <1>2, UnreadType DEF SessionInv
<1>4. x \in RequestRecords
  <2>1. Unread(c)[c] \in RequestRecords
    BY <1>2, <1>3
  <2>2. <<"end">> \in Seq(WireItems)
    BY DEF WireItems
  <2> QED
    BY <2>1, <2>2 DEF RequestRecords
<1> HIDE DEF x
<1>5. request' \in [Streams -> RequestRecords]
      /\ \A d \in Streams : d # c => request'[d] = request[d]
  BY <1>1, <1>2, <1>3, <1>4
<1>6. ServerInv'
  BY <1>1, <1>2, AbandonedInv DEF SessionInv
<1>7. \A d \in Streams :
        /\ stream'[d].at = stream[d].at
        /\ stream'[d].gone <=> stream[d].gone \/ (d = c /\ stream[d].at # "over")
  <2>1. ServerInv /\ c \in Streams \cup {None} /\ stream' = Abandoned(c)
    BY <1>1, <1>2 DEF SessionInv
  <2> HIDE DEF c
  <2> QED
    BY <2>1, AbandonedType
<1>8. \A d \in Streams : Lives(d)' => Lives(d)
  BY <1>7 DEF Lives
<1>9. \A d \in Streams : EndUnread(d)' => EndUnread(d) \/ ~Lives(d)'
  BY <1>5, <1>7 DEF Lives, EndUnread
<1> QED
  BY <1>1, <1>5, <1>6, <1>8, <1>9, BackendStep DEF authVars

\* The provider's steps.
LEMMA ProviderInv ==
  ASSUME SessionInv, Expire \/ EndSession \/ LoseRole, TabOnly, UNCHANGED tab, Fault
  PROVE  SessionInv'
<1>1. idp \in Provider /\ jar \in CookieSet /\ tab \in [Tabs -> TabRecords]
  BY DEF SessionInv, AuthTypeOK, Provider, CookieSet, BrowserTypeOK
<1>2. idp' \in Provider /\ UNCHANGED jar
  <2>1. CASE Expire
    <3>1. idp.epoch + 1 \in Nat
      BY <1>1 DEF Provider
    <3> QED
      BY <1>1, <2>1, <3>1 DEF Expire, Provider
  <2>2. CASE EndSession
    BY <1>1, <2>2 DEF EndSession, Provider
  <2>3. CASE LoseRole
    BY <1>1, <2>3 DEF LoseRole, Provider
  <2> QED
    BY <2>1, <2>2, <2>3
<1> QED
  BY <1>1, <1>2, TabMoves

LEMMA SignInType ==
  ASSUME AuthTypeOK, SignIn
  PROVE  idp' \in Provider /\ jar' \in CookieSet
<1> DEFINE last == IF idp.session = 0 THEN idp.last + 1 ELSE idp.last
<1>1. last \in Nat /\ idp \in Provider
  BY DEF AuthTypeOK, Provider
<1>2. idp' = [idp EXCEPT !.session = last, !.last = last] /\ jar' = Cookies(idp.epoch, last)
  BY DEF SignIn
<1> HIDE DEF last
<1> QED
  BY <1>1, <1>2 DEF Provider, CookieSet, Cookies

LEMMA LogsInType ==
  ASSUME SessionInv, NEW t \in Tabs, LogsIn(t)
  PROVE  /\ tab' \in [Tabs -> TabRecords] /\ \A u \in Tabs : u # t => tab'[u] = tab[u]
         /\ tab'[t].at = "here" /\ tab'[t].probe = NoProbe
<1> DEFINE x == [Away("here") EXCEPT !.says = <<"connect">>]
<1>1. x \in TabRecords /\ x.at = "here" /\ x.probe = NoProbe
  <2>1. Away("here") \in TabRecords /\ Away("here").at = "here" /\ Away("here").probe = NoProbe
    BY AwayType DEF SessionInv
  <2>2. <<"connect">> \in Seq(Commands)
    BY DEF Commands
  <2> QED
    BY <2>1, <2>2 DEF TabRecords
<1>2. tab' = [tab EXCEPT ![t] = x]
  BY DEF LogsIn
<1> HIDE DEF x
<1> QED
  BY <1>1, <1>2, TabType DEF SessionInv

LEMMA LogsInInv == ASSUME SessionInv, NEW t \in Tabs, LogsIn(t) PROVE SessionInv'
<1>1. SignIn /\ TabOnly /\ NoFault
  BY DEF LogsIn
<1> QED
  BY <1>1, SignInType, LogsInType, TabMoves DEF SessionInv

LEMMA FaultsInv == ASSUME SessionInv, Faults PROVE SessionInv'
<1>1. ASSUME NEW t \in Tabs, ProbeFails(t) PROVE SessionInv'
  <2>1. PICK answer \in Answers, token \in Nat : Probed(t, answer, token) /\ Fails
    BY <1>1, ProbeAsked DEF ProbeFails
  <2> QED
    BY <2>1, ProbedInv
<1>2. ASSUME NEW c \in Streams, AdmitFails(c) PROVE SessionInv'
  <2>1. PICK answer \in Answers, token \in Nat : Admits(c, answer, token) /\ Fails
    BY <1>2, AskedWith DEF AdmitFails
  <2> QED
    BY <2>1, AdmitsInv
<1>3. CASE (PrepareShutdown \/ Send) /\ UNCHANGED <<request, worker, tab, authVars>> /\ Fault
  <2>1. ServerInv' /\ UNCHANGED <<request, stream>>
    BY <1>3, PrepareShutdownInv, SendInv DEF SessionInv, PrepareShutdown, Send
  <2>2. \A c \in Streams : (Lives(c)' => Lives(c)) /\ (EndUnread(c)' => EndUnread(c))
    BY <2>1 DEF Lives, EndUnread
  <2>3. request' \in [Streams -> RequestRecords]
    BY <2>1 DEF SessionInv, BrowserTypeOK
  <2> QED
    BY <1>3, <2>1, <2>2, <2>3, BackendStep
<1> QED
  BY <1>1, <1>2, <1>3, FocusInv, TabClosesInv, RemountsInv, DropsInv, ProviderInv DEF Faults

LEMMA SessionNextInv == ASSUME SessionInv, [Next]_vars PROVE SessionInv'
<1>1. CASE UNCHANGED vars
  <2>1. TabOnly /\ UNCHANGED authVars /\ NoFault /\ tab' \in [Tabs -> TabRecords]
    BY <1>1 DEF vars, browserVars, TabOnly, NoFault, SessionInv, BrowserTypeOK
  <2> QED
    BY <2>1, TabStep
<1>2. ASSUME NEW t \in Tabs, ProbeAnswered(t) PROVE SessionInv'
  <2>1. PICK token \in Tokens(tab[t].probe.with) :
            Probed(t, Gate(tab[t].probe.with, token), token) /\ NoFault
    BY <1>2 DEF ProbeAnswered
  <2>2. token \in Nat /\ Gate(tab[t].probe.with, token) \in Answers
    BY ProbeAsked
  <2> QED
    BY <2>1, <2>2, ProbedInv
<1>3. CASE WorkerSteps
  BY <1>3, ReadsReadyInv, ReadsEventInv, ReadsRejectedInv, ReadsEndInv, TimerFiresInv,
     HandleConnectInv, HandleReconnectInv, HandleDisconnectInv DEF WorkerSteps
<1> QED
  BY <1>1, <1>2, <1>3, RepeatsInv, BackendStepsInv, SendStepsOnlyInv, NextProcessInv,
     TabHearsInv, ProbeArrivesInv, TabOpensInv, LogsInInv, FaultsInv DEF Next, Steps, TabSteps

\* What holds of the backend, the worker, the tabs and the cookies together: the
\* worker's stream is the one a browser reads, and every variable has its type.
THEOREM SessionSpecInv == Spec => []SessionInv
<1>1. Init => SessionInv
  BY SessionInitInv
<1>2. SessionInv /\ [Next]_vars => SessionInv'
  BY SessionNextInv
<1> QED
  BY <1>1, <1>2, PTL DEF Spec

\* The history variable is a flag.
OverIsFlag == over \in BOOLEAN

LEMMA OverFlag == Spec => []OverIsFlag
<1>1. Init => OverIsFlag
  BY DEF Init, OverIsFlag
<1>2. OverIsFlag /\ [Next]_vars => OverIsFlag'
  BY DEF Next, vars, OverIsFlag
<1> QED
  BY <1>1, <1>2, PTL DEF Spec

\* Every variable of the session holds values of its kind.
THEOREM SessionTypeCorrect == Spec => []TypeOK
<1>1. SessionInv /\ OverIsFlag => TypeOK
  <2> SUFFICES ASSUME SessionInv, OverIsFlag PROVE TypeOK
    OBVIOUS
  <2>1. ServerTypeOK /\ AuthTypeOK /\ failed \in BOOLEAN /\ over \in BOOLEAN
    BY DEF SessionInv, ServerInv, BrowserTypeOK, OverIsFlag
  <2>2. \A c \in Streams : request[c].wire \in Seq({"ready", "event", "rejected", "end", "401"})
    BY DEF SessionInv, BrowserTypeOK, RequestRecords, WireItems
  <2>3. /\ worker.ports \subseteq Tabs \cup {DeadPort}
        /\ worker.source \in {"none", "on", "again", "failed"}
        /\ worker.stream \in Streams \cup {None} /\ worker.id \in Ids \cup {None}
        /\ worker.source = "on" <=> worker.stream # None
    BY DEF SessionInv, BrowserTypeOK, WorkerRecords, ReadsItsStream
  <2>4. \A t \in Tabs : tab[t].at \in {"away", "here", "login"}
    BY DEF SessionInv, BrowserTypeOK, TabRecords
  <2> QED
    BY <2>1, <2>2, <2>3, <2>4 DEF TypeOK
<1> QED
  BY <1>1, SessionSpecInv, OverFlag, PTL

\* However the tabs' commands, the retries and the losses fall, the browser reads at
\* most one stream, its worker's.
THEOREM CommandsEndInOneStream == Spec => []OneStream
<1>1. SessionInv => OneStream
  BY DEF SessionInv
<1> QED
  BY <1>1, SessionSpecInv, PTL
=============================================================================
