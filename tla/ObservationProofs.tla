-------------------------- MODULE ObservationProofs --------------------------
(***************************************************************************)
(* Proofs about the observations' index and what is done by it: the board  *)
(* sync (Board), for any observations, cards and changes, the agents'      *)
(* posts, matches and reactions (Posts), for any calls, texts and pushes,  *)
(* and the counts of their words (Lexical), for any documents and texts.   *)
(***************************************************************************)
EXTENDS Board, Posts, Lexical, SequenceTheorems, FiniteSetTheorems, TLAPS

----------------------------------------------------------------------------
(* The board sync.                                                         *)

\* The card of an entry when the update under way is through.
Final(o) ==
    IF o \in update.todo \/ (o = update.of /\ update.at \in {"unmap", "put"})
    THEN update.read[o] ELSE entries[o]
\* The entries the update has not removed yet, and the card of each.
Behind == update.todo \cup IF update.at = "unmap" THEN {update.of} ELSE {}
Former(o) == IF o = update.of /\ update.at = "unmap" THEN update.was ELSE entries[o]

\* An issue is one observation's card.
FilesInv ==
    \A o, p \in Observations : doc[o].card = doc[p].card /\ doc[o].card \in Cards => o = p

FinalInv ==
    /\ \A o \in Observations \ dirty : Final(o) = doc[o].card
    /\ \A o, p \in Observations : Final(o) = Final(p) /\ Final(o) \in Cards => o = p

\* A card that another entry will have when this one has lost it is a shared one.
PassInv ==
    \A p \in Behind : Former(p) \in Cards =>
        /\ \A q \in Behind : Former(q) = Former(p) => q = p
        /\ \A o \in Observations : o # p /\ Final(o) = Former(p) => Former(p) \in shared

UpdateInv ==
    /\ update.at = "none" => update = NoUpdate
    /\ update.at \in {"unmap", "put", "map"} => update.of \in Observations \ update.todo
    /\ update.at \in {"unmap", "put"} => entries[update.of] = Absent
    /\ update.at = "map" => entries[update.of] = update.read[update.of]

MapInv ==
    /\ \A c \in Cards : mapped[c] # NoObservation =>
        \/ entries[mapped[c]] = c
        \/ update.at = "unmap" /\ mapped[c] = update.of /\ update.was = c
    /\ \A o \in Observations : entries[o] \in Cards \ shared =>
        mapped[entries[o]] = o \/ (update.at = "map" /\ o = update.of)

BoardIndexInv == FilesInv /\ FinalInv /\ PassInv /\ UpdateInv /\ MapInv

\* A card's revisions are made one after another, and a file has the time of the one it saw.
TimesInv ==
    \A c \in Cards :
        /\ Len(card[c]) > 0
        /\ \A k \in DOMAIN card[c] : card[c][k] <= now
        /\ \A j, k \in DOMAIN card[c] : j <= k => card[c][j] <= card[c][k]
SeenInv ==
    \A o \in Observations : doc[o].seen.card \in Cards =>
        /\ doc[o].seen.rev \in DOMAIN card[doc[o].seen.card]
        /\ doc[o].time = card[doc[o].seen.card][doc[o].seen.rev]
SyncInv ==
    \A s \in syncs :
        /\ s.at \in {"read", "apply"} => s.card \in Cards
        /\ s.at = "apply" => s.rev \in DOMAIN card[s.card]

BoardInv == BoardTypeOK /\ BoardIndexInv /\ TimesInv /\ SeenInv /\ SyncInv

----------------------------------------------------------------------------
LEMMA BoardInitInv == BoardInit => BoardInv
<1> SUFFICES ASSUME BoardInit PROVE BoardInv
  OBVIOUS
<1> USE BoardAssumption
<1>1. First.o \in Observations /\ First.card \in Cards
  BY DEF First
<1> DEFINE other == [status |-> "open", card |-> NoCard, time |-> 0, seen |-> NoDue, outcome |-> NoDue]
           raised == [status |-> "raised", card |-> First.card, time |-> 0, seen |-> NoDue,
                      outcome |-> NoDue]
<1>2. Unlinked = other /\ Linked(First.card) = raised
  BY DEF Unlinked, Linked
<1>3. NoDue \in Dues /\ NoDue.card = NoCard
  BY DEF NoDue, Dues
<1>4. other \in Docs /\ raised \in Docs
  BY <1>1, <1>3 DEF Docs
<1>5. \A o \in Observations : doc[o] = IF o = First.o THEN raised ELSE other
  BY <1>2 DEF BoardInit
<1>6. \A o \in Observations : entries[o] = doc[o].card /\ doc[o].card \in {First.card, NoCard}
  BY <1>5 DEF BoardInit
<1>7. NoUpdate \in Updates
  BY DEF NoUpdate, Updates
<1>8. BoardTypeOK
  <2>1. doc \in [Observations -> Docs]
    BY <1>2, <1>4 DEF BoardInit
  <2>2. card \in [Cards -> Seq(Nat)]
    BY DEF BoardInit
  <2>3. entries \in [Observations -> Cards \cup {NoCard, Absent}]
    BY <1>1, <1>6 DEF BoardInit
  <2> QED
    BY <1>1, <1>3, <1>7, <2>1, <2>2, <2>3 DEF BoardInit, BoardTypeOK, Hooks
<1>9. BoardIndexInv
  <2>1. FilesInv
    BY <1>5 DEF FilesInv
  <2>2. \A o \in Observations : Final(o) = doc[o].card
    BY <1>6 DEF BoardInit, Final, NoUpdate
  <2>3. FinalInv
    BY <2>1, <2>2 DEF FinalInv, FilesInv
  <2>4. PassInv /\ UpdateInv
    BY DEF BoardInit, PassInv, Behind, NoUpdate, UpdateInv
  <2>5. MapInv
    BY <1>1, <1>5, <1>6 DEF BoardInit, MapInv
  <2> QED
    BY <2>1, <2>3, <2>4, <2>5 DEF BoardIndexInv
<1>10. TimesInv /\ SeenInv /\ SyncInv
  BY <1>3, <1>5 DEF BoardInit, TimesInv, SeenInv, SyncInv
<1> QED
  BY <1>8, <1>9, <1>10 DEF BoardInv

\* What touches neither the files nor the index leaves their relation.
LEMMA IndexKept ==
  ASSUME BoardIndexInv, UNCHANGED <<doc, dirty, indexVars>>
  PROVE  BoardIndexInv'
<1>1. UNCHANGED <<doc, dirty, entries, mapped, update, shared>>
  BY DEF indexVars
<1>2. FilesInv' /\ UpdateInv' /\ MapInv'
  BY <1>1 DEF BoardIndexInv, FilesInv, UpdateInv, MapInv
<1>3. FinalInv' /\ PassInv'
  BY <1>1 DEF BoardIndexInv, FinalInv, PassInv, Final, Former, Behind
<1> QED
  BY <1>2, <1>3 DEF BoardIndexInv

\* A file changed is one the index has to take in.
LEMMA FilesChange ==
  ASSUME BoardIndexInv, UNCHANGED indexVars,
         \A o \in Observations \ dirty' : o \notin dirty /\ doc'[o].card = doc[o].card,
         FilesInv'
  PROVE  BoardIndexInv'
<1>1. UNCHANGED <<entries, mapped, update, shared>>
  BY DEF indexVars
<1>2. UpdateInv' /\ MapInv' /\ PassInv'
  BY <1>1 DEF BoardIndexInv, UpdateInv, MapInv, PassInv, Final, Former, Behind
<1>3. FinalInv'
  BY <1>1 DEF BoardIndexInv, FinalInv, Final
<1> QED
  BY <1>2, <1>3 DEF BoardIndexInv

LEMMA CardsKept ==
  ASSUME TimesInv, SeenInv, SyncInv, UNCHANGED <<now, card, doc, syncs>>
  PROVE  TimesInv' /\ SeenInv' /\ SyncInv'
  BY DEF TimesInv, SeenInv, SyncInv

----------------------------------------------------------------------------
LEMMA TickInv == ASSUME BoardInv, Tick PROVE BoardInv'
<1> USE DEF BoardInv
<1>1. now' = now + 1 /\ UNCHANGED <<card, coming, deliveries, doc, dirty, indexVars, hook, settling,
                                    timers, syncs, used, due, lost>>
  BY DEF Tick
<1>2. BoardTypeOK'
  BY <1>1 DEF BoardTypeOK, indexVars
<1>3. TimesInv'
  <2>1. now \in Nat /\ \A c \in Cards : \A k \in DOMAIN card[c] : card[c][k] \in Nat
    BY DEF BoardTypeOK
  <2> QED
    BY <1>1, <2>1 DEF TimesInv
<1>4. SeenInv' /\ SyncInv'
  BY <1>1 DEF SeenInv, SyncInv
<1> QED
  BY <1>1, <1>2, <1>3, <1>4, IndexKept

LEMMA AnnouncesInv == ASSUME BoardInv, NEW c \in Cards, Announces(c) PROVE BoardInv'
<1> USE DEF BoardInv
<1>1. /\ UNCHANGED <<now, card, doc, dirty, indexVars, hook, settling, timers, syncs, due, lost>>
      /\ coming' = [coming EXCEPT ![c] = @ + 1]
      /\ deliveries' = Append(deliveries, [card |-> c, rev |-> Len(card[c]) + coming'[c]])
      /\ used' \in Nat
  BY DEF Announces, Uses, BoardTypeOK
<1>2. BoardTypeOK'
  <2>1. coming' \in [Cards -> Nat] /\ Len(card[c]) \in Nat
    BY <1>1 DEF BoardTypeOK
  <2>2. [card |-> c, rev |-> Len(card[c]) + coming'[c]] \in [card : Cards, rev : Nat]
    BY <2>1
  <2>3. deliveries' \in Seq([card : Cards, rev : Nat])
    BY <1>1, <2>2 DEF BoardTypeOK
  <2> QED
    BY <1>1, <2>1, <2>3 DEF BoardTypeOK, indexVars
<1> QED
  BY <1>1, <1>2, IndexKept, CardsKept

\* A change is made no earlier than those before it, and leaves them as they are.
LEMMA CommitsInv == ASSUME BoardInv, NEW c \in Cards, Commits(c) PROVE BoardInv'
<1> USE DEF BoardInv
<1>1. /\ coming[c] > 0 /\ coming' = [coming EXCEPT ![c] = @ - 1]
      /\ card' = [card EXCEPT ![c] = Append(@, now)]
      /\ UNCHANGED <<now, deliveries, doc, dirty, indexVars, hook, settling, timers, syncs, used,
                     due, lost>>
  BY DEF Commits
<1>2. /\ card[c] \in Seq(Nat) /\ now \in Nat /\ Len(card[c]) \in Nat
      /\ card' \in [Cards -> Seq(Nat)] /\ \A d \in Cards : d # c => card'[d] = card[d]
      /\ card'[c] = Append(card[c], now)
  BY <1>1 DEF BoardTypeOK
<1>3. /\ Len(card'[c]) = Len(card[c]) + 1 /\ DOMAIN card'[c] = 1 .. Len(card[c]) + 1
      /\ card'[c][Len(card[c]) + 1] = now
      /\ DOMAIN card[c] = 1 .. Len(card[c])
      /\ \A k \in 1 .. Len(card[c]) : card'[c][k] = card[c][k]
  BY <1>2
<1>4. BoardTypeOK'
  <2>1. coming' \in [Cards -> Nat]
    BY <1>1 DEF BoardTypeOK
  <2> QED
    BY <1>1, <1>2, <2>1 DEF BoardTypeOK, indexVars
<1>5. TimesInv'
  <2> SUFFICES ASSUME NEW d \in Cards
               PROVE  /\ Len(card'[d]) > 0
                      /\ \A k \in DOMAIN card'[d] : card'[d][k] <= now
                      /\ \A j, k \in DOMAIN card'[d] : j <= k => card'[d][j] <= card'[d][k]
    BY <1>1 DEF TimesInv
  <2>1. CASE d = c
    <3>1. \A k \in 1 .. Len(card[c]) + 1 : k \in 1 .. Len(card[c]) \/ k = Len(card[c]) + 1
      BY <1>2
    <3>2. \A k \in DOMAIN card'[c] : card'[c][k] <= now
      BY <1>2, <1>3, <3>1 DEF TimesInv
    <3>3. ASSUME NEW j \in DOMAIN card'[c], NEW k \in DOMAIN card'[c], j <= k
          PROVE  card'[c][j] <= card'[c][k]
      <4>1. CASE k = Len(card[c]) + 1
        BY <1>3, <3>2, <4>1
      <4>2. CASE k # Len(card[c]) + 1
        <5> DEFINE n == Len(card[c])
        <5>2. n \in Nat /\ j \in 1 .. n + 1 /\ k \in 1 .. n + 1 /\ k # n + 1
          BY <1>2, <1>3, <4>2
        <5> HIDE DEF n
        <5>3. j \in 1 .. n /\ k \in 1 .. n
          BY <3>3, <5>2
        <5>1. j \in 1 .. Len(card[c]) /\ k \in 1 .. Len(card[c])
          BY <5>3 DEF n
        <5> QED
          BY <1>3, <3>3, <5>1 DEF TimesInv
      <4> QED
        BY <4>1, <4>2
    <3>4. Len(card'[c]) > 0
      BY <1>2, <1>3
    <3> QED
      BY <2>1, <3>2, <3>3, <3>4
  <2>2. CASE d # c
    BY <1>2, <2>2 DEF TimesInv
  <2> QED
    BY <2>1, <2>2
<1>6. \A d \in Cards : \A k \in DOMAIN card[d] : k \in DOMAIN card'[d] /\ card'[d][k] = card[d][k]
  <2>1. \A k \in 1 .. Len(card[c]) : k \in 1 .. Len(card[c]) + 1
    BY <1>2
  <2>2. \A k \in DOMAIN card[c] : k \in DOMAIN card'[c] /\ card'[c][k] = card[c][k]
    BY <1>3, <2>1
  <2> QED
    BY <1>2, <2>2
<1>7. SeenInv' /\ SyncInv'
  BY <1>1, <1>6 DEF SeenInv, SyncInv
<1> QED
  BY <1>1, <1>4, <1>5, <1>7, IndexKept

----------------------------------------------------------------------------
\* What a skill's push makes of the files, but for the steps' own guards.
LEMMA SkillsDocs ==
  ASSUME BoardTypeOK, FilesInv, NEW o \in Observations,
         Unlinks(o) \/ Reopens(o) \/ \E c \in Cards : Links(o, c)
  PROVE  \E to \in [Observations -> Docs] :
            /\ SkillsPush(to)
            /\ \A p, q \in Observations : to[p].card = to[q].card /\ to[p].card \in Cards => p = q
            /\ \A p \in Observations : /\ to[p].seen = doc[p].seen /\ to[p].time = doc[p].time
                                       /\ to[p].outcome \in {doc[p].outcome, NoDue}
<1> USE BoardAssumption
<1>1. \A p \in Observations : /\ doc[p] \in Docs /\ Freed(doc[p]) \in Docs
                              /\ Freed(doc[p]).card = NoCard /\ Freed(doc[p]).seen = doc[p].seen
                              /\ Freed(doc[p]).time = doc[p].time /\ Freed(doc[p]).outcome = NoDue
  <2> TAKE p \in Observations
  <2> DEFINE d == doc[p]
  <2>1. d \in Docs /\ Freed(d) = [d EXCEPT !.card = NoCard, !.status = "open", !.outcome = NoDue]
    BY DEF BoardTypeOK, Freed
  <2>2. NoDue \in Dues
    BY DEF NoDue, Dues
  <2> HIDE DEF d
  <2>3. /\ Freed(d) \in Docs /\ Freed(d).card = NoCard /\ Freed(d).seen = d.seen
        /\ Freed(d).time = d.time /\ Freed(d).outcome = NoDue
    BY <2>1, <2>2 DEF Docs
  <2> QED
    BY <2>1, <2>3 DEF d
<1>2. CASE Unlinks(o)
  <2> DEFINE to == [doc EXCEPT ![o] = Freed(@)]
  <2>1. SkillsPush(to) /\ to \in [Observations -> Docs]
    BY <1>1, <1>2 DEF Unlinks, BoardTypeOK
  <2>2. \A p \in Observations : to[p] = IF p = o THEN Freed(doc[p]) ELSE doc[p]
    BY DEF BoardTypeOK
  <2> HIDE DEF to
  <2>3. \A p, q \in Observations : to[p].card = to[q].card /\ to[p].card \in Cards => p = q
    BY <1>1, <2>2 DEF FilesInv
  <2> QED
    BY <1>1, <2>1, <2>2, <2>3
<1>3. CASE Reopens(o)
  <2> DEFINE to == [doc EXCEPT ![o].status = "open", ![o].outcome = NoDue]
  <2>1. SkillsPush(to)
    BY <1>3 DEF Reopens
  <2>2. [doc[o] EXCEPT !.status = "open", !.outcome = NoDue] \in Docs
    BY <1>1 DEF Docs, Dues, NoDue
  <2>3. to = [doc EXCEPT ![o] = [doc[o] EXCEPT !.status = "open", !.outcome = NoDue]]
    BY DEF BoardTypeOK, Docs
  <2>4. to \in [Observations -> Docs]
    BY <2>2, <2>3 DEF BoardTypeOK
  <2>5. \A p \in Observations : /\ to[p].card = doc[p].card /\ to[p].seen = doc[p].seen
                                /\ to[p].time = doc[p].time /\ to[p].outcome \in {doc[p].outcome, NoDue}
    BY <1>1, <2>3 DEF BoardTypeOK, Docs
  <2> HIDE DEF to
  <2> QED
    BY <2>1, <2>4, <2>5 DEF FilesInv
<1>4. ASSUME NEW c \in Cards, Links(o, c)
      PROVE  \E to \in [Observations -> Docs] :
                /\ SkillsPush(to)
                /\ \A p, q \in Observations : to[p].card = to[q].card /\ to[p].card \in Cards => p = q
                /\ \A p \in Observations : /\ to[p].seen = doc[p].seen /\ to[p].time = doc[p].time
                                           /\ to[p].outcome \in {doc[p].outcome, NoDue}
  <2> DEFINE linked == [doc[o] EXCEPT !.card = c, !.status = "raised", !.outcome = NoDue]
             to == [p \in Observations |-> IF p = o THEN linked
                                           ELSE IF doc[p].card = c THEN Freed(doc[p]) ELSE doc[p]]
  <2>1. SkillsPush(to)
    BY <1>4 DEF Links
  <2>2. /\ linked \in Docs /\ linked.card = c /\ linked.seen = doc[o].seen
        /\ linked.time = doc[o].time /\ linked.outcome = NoDue
    BY <1>1 DEF Docs, Dues, NoDue
  <2> HIDE DEF linked
  <2>3. ASSUME NEW p \in Observations
        PROVE  /\ p = o => to[p] = linked
               /\ p # o /\ doc[p].card = c => to[p] = Freed(doc[p])
               /\ p # o /\ doc[p].card # c => to[p] = doc[p]
    <3>1. CASE p = o
      BY <3>1
    <3>2. CASE p # o /\ doc[p].card = c
      BY <3>2
    <3>3. CASE p # o /\ doc[p].card # c
      BY <3>3
    <3> QED
      BY <3>1, <3>2, <3>3
  <2>4. \A p \in Observations : to[p] \in {linked, Freed(doc[p]), doc[p]}
    BY <2>3
  <2>5. to \in [Observations -> Docs]
    <3>1. to = [p \in Observations |-> to[p]]
      OBVIOUS
    <3> HIDE DEF to
    <3> QED
      BY <1>1, <2>2, <2>4, <3>1
  <2> HIDE DEF to
  <2>6. \A p, q \in Observations : to[p].card = to[q].card /\ to[p].card \in Cards => p = q
    BY <1>1, <2>2, <2>3 DEF FilesInv
  <2>7. \A p \in Observations : /\ to[p].seen = doc[p].seen /\ to[p].time = doc[p].time
                                /\ to[p].outcome \in {doc[p].outcome, NoDue}
    BY <1>1, <2>2, <2>3
  <2> QED
    BY <2>1, <2>5, <2>6, <2>7
<1> QED
  BY <1>2, <1>3, <1>4

LEMMA SkillsInv ==
  ASSUME BoardInv, NEW o \in Observations, Unlinks(o) \/ Reopens(o) \/ \E c \in Cards : Links(o, c)
  PROVE  BoardInv'
<1> USE DEF BoardInv
<1>1. PICK to \in [Observations -> Docs] :
        /\ SkillsPush(to)
        /\ \A p, q \in Observations : to[p].card = to[q].card /\ to[p].card \in Cards => p = q
        /\ \A p \in Observations : /\ to[p].seen = doc[p].seen /\ to[p].time = doc[p].time
                                   /\ to[p].outcome \in {doc[p].outcome, NoDue}
  BY SkillsDocs DEF BoardIndexInv
<1>2. /\ doc' = to /\ dirty' = dirty \cup {p \in Observations : to[p] # doc[p]}
      /\ due' = [p \in Observations |-> IF to[p].card = doc[p].card THEN due[p] ELSE NoDue]
      /\ UNCHANGED <<now, card, coming, deliveries, indexVars, hook, settling, timers, syncs, lost>>
      /\ used' \in Nat
  BY <1>1 DEF SkillsPush, Uses, world, BoardTypeOK
<1>3. due' \in [Observations -> Dues]
  BY <1>2 DEF BoardTypeOK, Dues, NoDue
<1>4. BoardTypeOK'
  BY <1>1, <1>2, <1>3 DEF BoardTypeOK, indexVars
<1>5. BoardIndexInv'
  <2>1. FilesInv'
    BY <1>1, <1>2 DEF FilesInv
  <2> QED
    BY <1>2, <2>1, FilesChange
<1>6. TimesInv' /\ SyncInv'
  BY <1>2 DEF TimesInv, SyncInv
<1>7. SeenInv'
  BY <1>1, <1>2 DEF SeenInv
<1> QED
  BY <1>4, <1>5, <1>6, <1>7

----------------------------------------------------------------------------
\* The files as they are read are every entry's card, once the update is through.
LEMMA StartsInv == ASSUME BoardInv, UpdateStarts PROVE BoardInv'
<1> USE DEF BoardInv
<1> DEFINE passed == {c \in Cards : \E o, p \in dirty : o # p /\ entries[o] = c /\ doc[p].card = c}
<1>1. /\ update = NoUpdate /\ dirty' = {} /\ shared' = shared \cup passed
      /\ update' = [NoUpdate EXCEPT !.at = "next", !.todo = dirty,
                                    !.read = [o \in Observations |-> doc[o].card]]
      /\ UNCHANGED <<entries, mapped, now, card, coming, deliveries, doc, hook, settling, timers,
                     syncs, used, due, lost>>
  BY DEF UpdateStarts, Indexing, world
<1>2. /\ update'.at = "next" /\ update'.todo = dirty /\ update'.of = NoObservation
      /\ update'.was = NoCard /\ update'.read = [o \in Observations |-> doc[o].card]
      /\ update'.read \in [Observations -> Cards \cup {NoCard}]
      /\ update.at = "none" /\ update.todo = {} /\ dirty \subseteq Observations
  BY <1>1 DEF NoUpdate, BoardTypeOK, Docs
<1>3. update' \in Updates
  <2>1. update' = [at |-> "next", of |-> NoObservation, was |-> NoCard, todo |-> dirty,
                   read |-> update'.read]
    BY <1>1, <1>2 DEF NoUpdate
  <2> HIDE DEF passed
  <2> QED
    BY <1>2, <2>1 DEF Updates
<1>4. BoardTypeOK'
  BY <1>1, <1>3 DEF BoardTypeOK
<1>5. \A o \in Observations : Final(o) = entries[o] /\ Final(o)' = doc[o].card
  BY <1>1, <1>2 DEF BoardIndexInv, FinalInv, Final
<1>6. FilesInv' /\ FinalInv'
  BY <1>1, <1>5 DEF BoardIndexInv, FilesInv, FinalInv
<1>7. PassInv'
  <2>1. Behind' = dirty /\ \A o \in Observations : Former(o)' = entries[o]
    BY <1>1, <1>2 DEF Behind, Former
  <2>2. \A o \in Observations : Final(o)' = doc[o].card
    BY <1>5
  <2> SUFFICES ASSUME NEW p \in dirty, entries[p] \in Cards
               PROVE  /\ \A q \in dirty : entries[q] = entries[p] => q = p
                      /\ \A o \in Observations : o # p /\ doc[o].card = entries[p] =>
                            entries[p] \in shared'
    BY <1>2, <2>1, <2>2 DEF PassInv
  <2>3. \A q \in Observations : entries[q] = entries[p] => q = p
    BY <1>2, <1>5 DEF BoardIndexInv, FinalInv
  <2>4. ASSUME NEW o \in Observations, o # p, doc[o].card = entries[p] PROVE entries[p] \in shared'
    <3>1. o \in dirty
      BY <1>5, <2>3, <2>4 DEF BoardIndexInv, FinalInv
    <3> QED
      BY <1>1, <2>4, <3>1
  <2> QED
    BY <1>2, <2>3, <2>4
<1>8. UpdateInv'
  BY <1>2 DEF UpdateInv
<1>9. MapInv'
  BY <1>1, <1>2 DEF BoardIndexInv, MapInv
<1> QED
  BY <1>1, <1>4, <1>6, <1>7, <1>8, <1>9, CardsKept DEF BoardIndexInv

LEMMA PopsInv == ASSUME BoardInv, NEW o \in Observations, Pops(o) PROVE BoardInv'
<1> USE DEF BoardInv
<1>1. /\ update.at = "next" /\ o \in update.todo
      /\ update' = [update EXCEPT !.at = "unmap", !.of = o, !.was = entries[o], !.todo = @ \ {o}]
      /\ entries' = [entries EXCEPT ![o] = Absent]
      /\ UNCHANGED <<mapped, shared, dirty, now, card, coming, deliveries, doc, hook, settling,
                     timers, syncs, used, due, lost>>
  BY DEF Pops, Indexing, world
<1>2. /\ update'.at = "unmap" /\ update'.of = o /\ update'.was = entries[o]
      /\ update'.todo = update.todo \ {o} /\ update'.read = update.read
      /\ update' \in Updates
  BY <1>1 DEF BoardTypeOK, Updates
<1>3. \A p \in Observations : entries'[p] = IF p = o THEN Absent ELSE entries[p]
  BY <1>1 DEF BoardTypeOK
<1>4. BoardTypeOK'
  <2>1. entries' \in [Observations -> Cards \cup {NoCard, Absent}]
    BY <1>1 DEF BoardTypeOK
  <2> QED
    BY <1>1, <1>2, <2>1 DEF BoardTypeOK
<1>5. \A p \in Observations : Final(p)' = Final(p)
  BY <1>1, <1>2, <1>3 DEF Final
<1>6. FilesInv' /\ FinalInv'
  BY <1>1, <1>5 DEF BoardIndexInv, FilesInv, FinalInv
<1>7. PassInv'
  <2>1. Behind' = Behind /\ Behind \subseteq Observations
    BY <1>1, <1>2 DEF Behind, BoardTypeOK, Updates
  <2>2. \A p \in Observations : Former(p)' = Former(p)
    BY <1>1, <1>2, <1>3 DEF Former
  <2> QED
    BY <1>1, <1>5, <2>1, <2>2 DEF BoardIndexInv, PassInv
<1>8. UpdateInv'
  BY <1>2, <1>3 DEF UpdateInv
<1>9. MapInv'
  BY <1>1, <1>2, <1>3, BoardAssumption DEF BoardIndexInv, MapInv, BoardTypeOK
<1> QED
  BY <1>1, <1>4, <1>6, <1>7, <1>8, <1>9, CardsKept DEF BoardIndexInv

LEMMA UnmapsInv == ASSUME BoardInv, Unmaps PROVE BoardInv'
<1> USE DEF BoardInv
<1>1. /\ update.at = "unmap" /\ update' = [update EXCEPT !.at = "put"]
      /\ mapped' = [c \in Cards |-> IF c = update.was THEN NoObservation ELSE mapped[c]]
      /\ UNCHANGED <<entries, shared, dirty, now, card, coming, deliveries, doc, hook, settling,
                     timers, syncs, used, due, lost>>
  BY DEF Unmaps, Indexing, world
<1>2. /\ update'.at = "put" /\ update'.of = update.of /\ update'.todo = update.todo
      /\ update'.read = update.read /\ update' \in Updates
      /\ update.of \in Observations \ update.todo /\ update.todo \subseteq Observations
  BY <1>1 DEF BoardTypeOK, Updates, BoardIndexInv, UpdateInv
<1>3. BoardTypeOK'
  <2>1. mapped' \in [Cards -> Observations \cup {NoObservation}]
    BY <1>1 DEF BoardTypeOK
  <2> QED
    BY <1>1, <1>2, <2>1 DEF BoardTypeOK
<1>4. \A p \in Observations : Final(p)' = Final(p)
  BY <1>1, <1>2 DEF Final
<1>5. FilesInv' /\ FinalInv'
  BY <1>1, <1>4 DEF BoardIndexInv, FilesInv, FinalInv
<1>6. PassInv'
  <2>1. Behind' = update.todo /\ Behind = update.todo \cup {update.of}
    BY <1>1, <1>2 DEF Behind
  <2>2. \A p \in update.todo : Former(p)' = Former(p)
    BY <1>1, <1>2 DEF Former
  <2> QED
    BY <1>1, <1>2, <1>4, <2>1, <2>2 DEF BoardIndexInv, PassInv
<1>7. UpdateInv'
  BY <1>1, <1>2 DEF BoardIndexInv, UpdateInv
<1>8. MapInv'
  <2>1. ASSUME NEW c \in Cards, mapped'[c] # NoObservation PROVE entries'[mapped'[c]] = c
    BY <1>1, <2>1 DEF BoardIndexInv, MapInv
  <2>2. ASSUME NEW o \in Observations, entries[o] \in Cards \ shared PROVE mapped'[entries[o]] = o
    <3>1. mapped[entries[o]] = o
      BY <1>1, <2>2 DEF BoardIndexInv, MapInv
    <3>2. o # update.of
      BY <1>1, <2>2, BoardAssumption DEF BoardIndexInv, UpdateInv
    <3>3. entries[o] # update.was
      <4> SUFFICES ASSUME entries[o] = update.was PROVE FALSE
        OBVIOUS
      <4>1. update.of \in Behind /\ Former(update.of) = entries[o]
        BY <1>1 DEF Behind, Former
      <4>2. CASE o \in update.todo
        <5>1. o \in Behind /\ Former(o) = entries[o]
          BY <3>2, <4>2 DEF Behind, Former
        <5> QED
          BY <2>2, <3>2, <4>1, <5>1 DEF BoardIndexInv, PassInv
      <4>3. CASE o \notin update.todo
        <5>1. Final(o) = entries[o]
          BY <3>2, <4>3 DEF Final
        <5> QED
          BY <2>2, <3>2, <4>1, <5>1 DEF BoardIndexInv, PassInv
      <4> QED
        BY <4>2, <4>3
    <3> QED
      BY <1>1, <2>2, <3>1, <3>3
  <2> QED
    BY <1>1, <2>1, <2>2 DEF MapInv
<1> QED
  BY <1>1, <1>3, <1>5, <1>6, <1>7, <1>8, CardsKept DEF BoardIndexInv

LEMMA PutsInv == ASSUME BoardInv, Puts PROVE BoardInv'
<1> USE DEF BoardInv
<1> DEFINE o == update.of
<1>1. /\ update.at = "put" /\ update' = [update EXCEPT !.at = "map"]
      /\ entries' = [entries EXCEPT ![o] = update.read[o]]
      /\ UNCHANGED <<mapped, shared, dirty, now, card, coming, deliveries, doc, hook, settling,
                     timers, syncs, used, due, lost>>
  BY DEF Puts, Indexing, world
<1>2. /\ update'.at = "map" /\ update'.of = o /\ update'.todo = update.todo
      /\ update'.read = update.read /\ update' \in Updates
      /\ o \in Observations \ update.todo /\ update.todo \subseteq Observations
      /\ update.read[o] \in Cards \cup {NoCard} /\ entries[o] = Absent
  BY <1>1 DEF BoardTypeOK, Updates, BoardIndexInv, UpdateInv
<1>3. \A p \in Observations : entries'[p] = IF p = o THEN update.read[o] ELSE entries[p]
  BY <1>1 DEF BoardTypeOK
<1>4. BoardTypeOK'
  <2>1. entries' \in [Observations -> Cards \cup {NoCard, Absent}]
    BY <1>1, <1>2 DEF BoardTypeOK
  <2> QED
    BY <1>1, <1>2, <2>1 DEF BoardTypeOK
<1>5. \A p \in Observations : Final(p)' = Final(p)
  BY <1>1, <1>2, <1>3 DEF Final
<1>6. FilesInv' /\ FinalInv'
  BY <1>1, <1>5 DEF BoardIndexInv, FilesInv, FinalInv
<1>7. PassInv'
  <2>1. Behind' = update.todo /\ Behind = update.todo
    BY <1>1, <1>2 DEF Behind
  <2>2. \A p \in update.todo : Former(p)' = Former(p)
    BY <1>1, <1>2, <1>3 DEF Former
  <2> QED
    BY <1>1, <1>2, <1>5, <2>1, <2>2 DEF BoardIndexInv, PassInv
<1>8. UpdateInv'
  BY <1>1, <1>2, <1>3 DEF BoardIndexInv, UpdateInv
<1>9. MapInv'
  <2>1. ASSUME NEW c \in Cards, mapped[c] # NoObservation PROVE entries'[mapped[c]] = c
    <3>1. entries[mapped[c]] = c /\ mapped[c] \in Observations
      BY <1>1, <2>1 DEF BoardIndexInv, MapInv, BoardTypeOK
    <3>2. mapped[c] # o
      BY <1>2, <3>1, BoardAssumption
    <3> QED
      BY <1>3, <3>1, <3>2
  <2>2. ASSUME NEW p \in Observations, entries'[p] \in Cards \ shared, p # o
        PROVE  mapped[entries'[p]] = p
    BY <1>1, <1>3, <2>2 DEF BoardIndexInv, MapInv
  <2> QED
    BY <1>1, <1>2, <2>1, <2>2 DEF MapInv
<1> QED
  BY <1>1, <1>4, <1>6, <1>7, <1>8, <1>9, CardsKept DEF BoardIndexInv

LEMMA MapsInv == ASSUME BoardInv, Maps PROVE BoardInv'
<1> USE DEF BoardInv
<1> DEFINE o == update.of
<1>1. /\ update.at = "map"
      /\ update' = IF update.todo = {} THEN NoUpdate ELSE [update EXCEPT !.at = "next"]
      /\ mapped' = [c \in Cards |-> IF c = update.read[o] THEN o ELSE mapped[c]]
      /\ UNCHANGED <<entries, shared, dirty, now, card, coming, deliveries, doc, hook, settling,
                     timers, syncs, used, due, lost>>
  BY DEF Maps, Indexing, world
<1>2. /\ o \in Observations \ update.todo /\ update.todo \subseteq Observations
      /\ entries[o] = update.read[o]
  BY <1>1 DEF BoardTypeOK, Updates, BoardIndexInv, UpdateInv
<1>3. /\ update' \in Updates /\ update'.at \in {"none", "next"} /\ update'.todo = update.todo
      /\ update'.at = "none" => update' = NoUpdate
      /\ update'.todo # {} => update'.read = update.read
  <2>1. CASE update.todo = {}
    BY <1>1, <2>1, BoardAssumption DEF NoUpdate, Updates
  <2>2. CASE update.todo # {}
    BY <1>1, <2>2 DEF BoardTypeOK, Updates
  <2> QED
    BY <2>1, <2>2
<1>4. BoardTypeOK'
  <2>1. mapped' \in [Cards -> Observations \cup {NoObservation}]
    BY <1>1, <1>2 DEF BoardTypeOK
  <2> QED
    BY <1>1, <1>3, <2>1 DEF BoardTypeOK
<1>5. \A p \in Observations : Final(p)' = Final(p)
  BY <1>1, <1>3 DEF Final
<1>6. FilesInv' /\ FinalInv'
  BY <1>1, <1>5 DEF BoardIndexInv, FilesInv, FinalInv
<1>7. PassInv'
  <2>1. Behind' = update.todo /\ Behind = update.todo
    BY <1>1, <1>3 DEF Behind
  <2>2. \A p \in update.todo : Former(p)' = Former(p)
    BY <1>1, <1>3 DEF Former
  <2> QED
    BY <1>1, <1>2, <1>5, <2>1, <2>2 DEF BoardIndexInv, PassInv
<1>8. UpdateInv'
  BY <1>3 DEF UpdateInv
<1>9. MapInv'
  <2>1. ASSUME NEW c \in Cards, mapped'[c] # NoObservation PROVE entries[mapped'[c]] = c
    BY <1>1, <1>2, <2>1 DEF BoardIndexInv, MapInv
  <2>2. ASSUME NEW p \in Observations, entries[p] \in Cards \ shared PROVE mapped'[entries[p]] = p
    <3>1. CASE p = o
      BY <1>1, <1>2, <2>2, <3>1
    <3>2. CASE p # o
      <4>1. mapped[entries[p]] = p
        BY <1>1, <2>2, <3>2 DEF BoardIndexInv, MapInv
      <4>2. entries[p] # entries[o]
        <5> SUFFICES ASSUME entries[p] = entries[o] PROVE FALSE
          OBVIOUS
        <5>1. Final(o) = entries[o]
          BY <1>1, <1>2 DEF Final
        <5>2. CASE p \in update.todo
          <6>1. p \in Behind /\ Former(p) = entries[p]
            BY <1>1, <5>2 DEF Behind, Former
          <6> QED
            BY <1>2, <2>2, <3>2, <5>1, <6>1 DEF BoardIndexInv, PassInv
        <5>3. CASE p \notin update.todo
          <6>1. Final(p) = entries[p]
            BY <1>1, <5>3 DEF Final
          <6> QED
            BY <1>2, <2>2, <3>2, <5>1, <6>1 DEF BoardIndexInv, FinalInv
        <5> QED
          BY <5>2, <5>3
      <4> QED
        BY <1>1, <1>2, <2>2, <4>1, <4>2
    <3> QED
      BY <3>1, <3>2
  <2> QED
    BY <1>1, <2>1, <2>2 DEF MapInv
<1> QED
  BY <1>1, <1>4, <1>6, <1>7, <1>8, <1>9, CardsKept DEF BoardIndexInv

----------------------------------------------------------------------------
\* The deliveries and their waits touch neither the files, the cards nor the index.
LEMMA WaitsInv ==
  ASSUME BoardInv, UNCHANGED <<now, card, coming, doc, dirty, indexVars, used>>,
         deliveries' \in Seq([card : Cards, rev : Nat]), hook' \in Hooks,
         settling' \in [Observations -> Dues], timers' \subseteq Timers,
         syncs' \subseteq SyncShapes, \A s \in syncs' \ syncs : s.at = "get",
         due' \in [Observations -> Dues], lost' \subseteq Observations
  PROVE  BoardInv'
<1> USE DEF BoardInv
<1>1. BoardTypeOK'
  BY DEF BoardTypeOK, indexVars
<1>2. TimesInv' /\ SeenInv' /\ SyncInv'
  BY DEF TimesInv, SeenInv, SyncInv
<1> QED
  BY <1>1, <1>2, IndexKept

LEMMA HooksInv == ASSUME BoardInv, Lost \/ HookLooks \/ HookQueues \/ Stops PROVE BoardInv'
<1> USE DEF BoardInv
<1>1. /\ UNCHANGED <<now, card, coming, doc, dirty, indexVars, used, syncs>>
      /\ hook \in Hooks /\ due \in [Observations -> Dues] /\ lost \subseteq Observations
      /\ settling \in [Observations -> Dues] /\ timers \subseteq Timers
  BY DEF Lost, HookLooks, HookQueues, Stops, HookOnly, BoardTypeOK, world
<1>2. syncs' \subseteq SyncShapes /\ syncs' \ syncs = {} /\ NoDue \in Dues
  BY <1>1 DEF BoardTypeOK, NoDue, Dues
<1>3. deliveries' \in Seq([card : Cards, rev : Nat])
  <2>1. deliveries \in Seq([card : Cards, rev : Nat])
    BY DEF BoardTypeOK
  <2>2. deliveries # <<>> => Tail(deliveries) \in Seq([card : Cards, rev : Nat])
    BY <2>1, HeadTailProperties
  <2>3. deliveries' = deliveries \/ (deliveries # <<>> /\ deliveries' = Tail(deliveries))
    BY DEF Lost, HookLooks, HookQueues, Stops, world
  <2> QED
    BY <2>1, <2>2, <2>3
<1>4. CASE Lost
  BY <1>1, <1>2, <1>3, <1>4, WaitsInv DEF Lost
<1>5. CASE HookLooks
  <2> DEFINE d == Head(deliveries)
             got == [card |-> d.card, rev |-> d.rev, of |-> mapped[d.card]]
  <2>1. d \in [card : Cards, rev : Nat]
    <3>1. deliveries \in Seq([card : Cards, rev : Nat]) /\ deliveries # <<>>
      BY <1>5 DEF HookLooks, BoardTypeOK
    <3> QED
      BY <3>1, HeadTailProperties
  <2>2. hook' = IF mapped[d.card] = NoObservation THEN NoHook ELSE got
    BY <1>5 DEF HookLooks
  <2> HIDE DEF d
  <2>3. mapped[d.card] # NoObservation => got \in Hooks
    BY <2>1 DEF BoardTypeOK, Hooks
  <2> HIDE DEF got
  <2>4. hook' \in Hooks
    BY <2>2, <2>3 DEF Hooks
  <2> QED
    BY <1>1, <1>2, <1>3, <1>5, <2>4, WaitsInv DEF HookLooks
<1>6. CASE HookQueues
  <2>1. hook' = NoHook /\ hook # NoHook /\ hook' \in Hooks
    BY <1>6 DEF HookQueues, Ended, Hooks
  <2>2. hook.card \in Cards /\ hook.rev \in Nat /\ hook.of \in Observations
    BY <1>1, <2>1 DEF Hooks
  <2>3. NewTimer.by \in Dues /\ NewTimer \in Timers
    BY <2>2 DEF NewTimer, Dues, Timers
  <2>4. CASE entries[hook.of] = Absent
    BY <1>1, <1>2, <1>3, <1>6, <2>1, <2>4, WaitsInv DEF HookQueues
  <2>5. CASE entries[hook.of] # Absent
    <3>1. /\ settling' = [settling EXCEPT ![hook.of] = NewTimer.by]
          /\ timers' = {t \in timers : ~(t.at = "waits" /\ t.of = hook.of)} \cup {NewTimer}
          /\ Queued /\ lost' \subseteq Observations
      BY <1>1, <1>6, <2>2, <2>5 DEF HookQueues
    <3>2. settling' \in [Observations -> Dues] /\ timers' \subseteq Timers
      BY <1>1, <2>3, <3>1
    <3>3. due' \in [Observations -> Dues]
      <4>1. [card |-> hook.card, rev |-> hook.rev] \in Dues
        BY <2>2 DEF Dues
      <4> QED
        BY <1>1, <3>1, <4>1 DEF Queued
    <3> QED
      BY <1>1, <1>2, <1>3, <2>1, <3>1, <3>2, <3>3, WaitsInv
  <2> QED
    BY <2>4, <2>5
<1>7. CASE Stops
  <2>1. /\ hook' = hook /\ due' = due /\ lost' \subseteq Observations
        /\ settling' \in [Observations -> Dues] /\ timers' \subseteq Timers
    BY <1>1, <1>2, <1>7 DEF Stops
  <2> QED
    BY <1>1, <1>2, <1>3, <2>1, WaitsInv
<1> QED
  BY <1>4, <1>5, <1>6, <1>7

LEMMA TimersInv == ASSUME BoardInv, NEW t \in timers, Elapses(t) \/ Settled(t) PROVE BoardInv'
<1> USE DEF BoardInv
<1>1. /\ UNCHANGED <<now, card, coming, deliveries, doc, dirty, indexVars, hook, used, due, lost>>
      /\ t.by \in Dues /\ t.of \in Observations /\ t \in Timers
      /\ settling \in [Observations -> Dues] /\ timers \subseteq Timers /\ syncs \subseteq SyncShapes
  BY DEF Elapses, Settled, HookOnly, world, BoardTypeOK, Timers
<1>2. NoDue \in Dues
  BY DEF NoDue, Dues
<1>3. CASE Elapses(t)
  <2>1. [t EXCEPT !.at = "up"] \in Timers
    BY <1>1 DEF Timers
  <2>2. timers' \subseteq Timers /\ UNCHANGED <<settling, syncs>>
    BY <1>1, <1>3, <2>1 DEF Elapses, HookOnly
  <2> QED
    BY <1>1, <2>2, WaitsInv DEF BoardTypeOK
<1>4. CASE Settled(t)
  <2>1. Sync(t.by, t.of) \in SyncShapes /\ Sync(t.by, t.of).at = "get"
    BY <1>1 DEF Sync, SyncShapes
  <2>2. /\ timers' \subseteq Timers /\ settling' \in [Observations -> Dues]
        /\ syncs' \subseteq syncs \cup {Sync(t.by, t.of)}
    BY <1>1, <1>2, <1>4 DEF Settled
  <2> QED
    BY <1>1, <2>1, <2>2, WaitsInv DEF BoardTypeOK
<1> QED
  BY <1>3, <1>4

----------------------------------------------------------------------------
\* A sync's steps but the last leave the files as they are.
LEMMA ScansInv == ASSUME BoardInv, NEW o \in Observations, Scans(o) PROVE BoardInv'
<1> USE DEF BoardInv
<1>1. /\ UNCHANGED <<now, card, coming, deliveries, doc, dirty, indexVars, hook, settling, timers, due,
                     lost>>
      /\ syncs' = syncs \cup {Sync(NoDue, o)} /\ used' \in Nat
  BY DEF Scans, SyncOnly, world, Uses, BoardTypeOK
<1>2. Sync(NoDue, o) \in SyncShapes /\ Sync(NoDue, o).at = "get"
  BY DEF Sync, SyncShapes, Dues, NoDue
<1>3. BoardTypeOK'
  BY <1>1, <1>2 DEF BoardTypeOK, indexVars
<1>4. TimesInv' /\ SeenInv' /\ SyncInv'
  BY <1>1, <1>2 DEF TimesInv, SeenInv, SyncInv
<1> QED
  BY <1>1, <1>3, <1>4, IndexKept

LEMMA SyncsInv == ASSUME BoardInv, NEW s \in syncs, Gets(s) \/ Reads(s) \/ Fails(s) PROVE BoardInv'
<1> USE DEF BoardInv
<1>1. /\ UNCHANGED <<now, card, coming, deliveries, doc, dirty, indexVars, hook, settling, timers, due>>
      /\ s \in SyncShapes /\ syncs \subseteq SyncShapes
      /\ s.of \in Observations /\ lost \subseteq Observations
  BY DEF Gets, Reads, Fails, SyncOnly, world, BoardTypeOK, SyncShapes
<1>2. used' \in Nat
  BY DEF Gets, Reads, Fails, Uses, BoardTypeOK
<1>3. lost' \subseteq Observations
  BY <1>1 DEF Gets, Reads, Fails
<1>4. /\ syncs' \subseteq SyncShapes
      /\ \A r \in syncs' \ syncs : /\ r.at \in {"read", "apply"} => r.card \in Cards
                                   /\ r.at = "apply" => r.rev \in DOMAIN card[r.card]
  <2>2. CASE Gets(s)
    <3>1. CASE entries[s.of] \in Cards
      <4> DEFINE r == [s EXCEPT !.card = entries[s.of], !.at = "read"]
      <4>1. r \in SyncShapes /\ r.at = "read" /\ r.card \in Cards
        BY <1>1, <3>1 DEF SyncShapes
      <4>2. syncs' = (syncs \ {s}) \cup {r}
        BY <2>2, <3>1 DEF Gets, Goes
      <4> QED
        BY <1>1, <4>1, <4>2
    <3>2. CASE entries[s.of] \notin Cards
      BY <1>1, <2>2, <3>2 DEF Gets, Ends
    <3> QED
      BY <3>1, <3>2
  <2>3. CASE Reads(s)
    <3> DEFINE r == [s EXCEPT !.rev = Len(card[s.card]), !.at = "apply"]
    <3>1. s.card \in Cards
      BY <2>3 DEF Reads, SyncInv
    <3>2. Len(card[s.card]) \in DOMAIN card[s.card] /\ Len(card[s.card]) \in Nat
      BY <3>1 DEF TimesInv, BoardTypeOK
    <3>3. r \in SyncShapes /\ r.at = "apply" /\ r.card = s.card /\ r.rev = Len(card[s.card])
      BY <1>1, <3>2 DEF SyncShapes
    <3>4. syncs' = (syncs \ {s}) \cup {r}
      BY <2>3 DEF Reads, Goes
    <3> HIDE DEF r
    <3> QED
      BY <1>1, <3>1, <3>2, <3>3, <3>4
  <2>4. CASE Fails(s)
    BY <1>1, <2>4 DEF Fails, Ends
  <2> QED
    BY <2>2, <2>3, <2>4
<1>5. BoardTypeOK'
  BY <1>1, <1>2, <1>3, <1>4 DEF BoardTypeOK, indexVars
<1>6. TimesInv' /\ SeenInv' /\ SyncInv'
  BY <1>1, <1>4 DEF TimesInv, SeenInv, SyncInv
<1> QED
  BY <1>1, <1>5, <1>6, IndexKept

\* Whatever a sync records is a revision of its card, and keeps the file's card.
LEMMA SyncedDoc ==
  ASSUME BoardInv, NEW s \in syncs, s.at = "apply"
  PROVE  LET x == Synced(doc[s.of], s) IN
         /\ x \in Docs /\ x.card = doc[s.of].card
         /\ x.seen = Read(s) /\ x.time = card[s.card][s.rev]
         /\ x.outcome # doc[s.of].outcome => x.outcome = Read(s) /\ doc[s.of].status # "open"
<1> USE DEF BoardInv
<1>1. /\ s \in SyncShapes /\ s.card \in Cards /\ s.rev \in DOMAIN card[s.card]
      /\ s.of \in Observations /\ doc[s.of] \in Docs
  BY DEF BoardTypeOK, SyncShapes, SyncInv
<1>2. card[s.card][s.rev] \in Nat /\ Read(s) \in Dues
  BY <1>1 DEF BoardTypeOK, Read, Dues, SyncShapes
<1> DEFINE d == doc[s.of]
           y == [d EXCEPT !.time = card[s.card][s.rev], !.seen = Read(s)]
           z == [y EXCEPT !.status = "closed", !.outcome = Read(s)]
<1>3. Synced(d, s) = IF Closes(d, s) THEN z ELSE y
  BY DEF Synced
<1>4. y \in Docs /\ y.card = d.card /\ y.seen = Read(s) /\ y.time = card[s.card][s.rev]
      /\ y.outcome = d.outcome
  BY <1>1, <1>2 DEF Docs
<1> HIDE DEF y
<1>5. z \in Docs /\ z.card = y.card /\ z.seen = y.seen /\ z.time = y.time /\ z.outcome = Read(s)
  BY <1>2, <1>4 DEF Docs
<1> HIDE DEF z
<1> QED
  BY <1>3, <1>4, <1>5 DEF Closes

LEMMA AppliesInv == ASSUME BoardInv, NEW s \in syncs, Applies(s) PROVE BoardInv'
<1> USE DEF BoardInv
<1> DEFINE x == Synced(doc[s.of], s)
<1>1. /\ UNCHANGED <<now, card, coming, deliveries, indexVars, hook, settling, timers, due, used, lost>>
      /\ syncs' = syncs \ {s} /\ s.at = "apply"
      /\ s.of \in Observations
      /\ \/ UNCHANGED <<doc, dirty>>
         \/ doc' = [doc EXCEPT ![s.of] = x] /\ dirty' = dirty \cup {s.of}
  BY DEF Applies, SyncOnly, Ends, world, BoardTypeOK, SyncShapes
<1>2. x \in Docs /\ x.card = doc[s.of].card /\ x.seen = Read(s) /\ x.time = card[s.card][s.rev]
  BY <1>1, SyncedDoc
<1>3. /\ Read(s).card = s.card /\ Read(s).rev = s.rev
      /\ s.card \in Cards /\ s.rev \in DOMAIN card[s.card]
  BY <1>1 DEF Read, SyncInv
<1> HIDE DEF x
<1>4. \A o \in Observations : /\ doc'[o] = doc[o] \/ (o = s.of /\ doc'[o] = x)
                             /\ doc'[o].card = doc[o].card
  BY <1>1, <1>2 DEF BoardTypeOK
<1>5. BoardTypeOK'
  <2>1. doc' \in [Observations -> Docs] /\ dirty' \subseteq Observations
    BY <1>1, <1>2 DEF BoardTypeOK
  <2>2. syncs' \subseteq SyncShapes
    BY <1>1 DEF BoardTypeOK
  <2> QED
    BY <1>1, <2>1, <2>2 DEF BoardTypeOK, indexVars
<1>6. BoardIndexInv'
  <2>1. FilesInv'
    BY <1>4 DEF BoardIndexInv, FilesInv
  <2>2. \A o \in Observations \ dirty' : o \notin dirty /\ doc'[o].card = doc[o].card
    BY <1>1, <1>4
  <2> QED
    BY <1>1, <2>1, <2>2, FilesChange
<1>7. TimesInv' /\ SyncInv'
  BY <1>1 DEF TimesInv, SyncInv
<1>8. SeenInv'
  BY <1>1, <1>2, <1>3, <1>4 DEF SeenInv
<1> QED
  BY <1>5, <1>6, <1>7, <1>8

----------------------------------------------------------------------------
LEMMA BoardNextInv == BoardInv /\ [BoardNext]_boardVars => BoardInv'
<1> SUFFICES ASSUME BoardInv, [BoardNext]_boardVars PROVE BoardInv'
  OBVIOUS
<1>1. CASE UNCHANGED boardVars
  <2>1. BoardTypeOK'
    BY <1>1 DEF boardVars, BoardInv, BoardTypeOK
  <2>2. TimesInv' /\ SeenInv' /\ SyncInv'
    BY <1>1, CardsKept DEF boardVars, BoardInv
  <2>3. BoardIndexInv'
    BY <1>1, IndexKept DEF boardVars, BoardInv, indexVars
  <2> QED
    BY <2>1, <2>2, <2>3 DEF BoardInv
<1>2. CASE Tick \/ \E c \in Cards : Announces(c) \/ Commits(c)
  BY <1>2, TickInv, AnnouncesInv, CommitsInv
<1>3. CASE \E o \in Observations : Unlinks(o) \/ Reopens(o) \/ \E c \in Cards : Links(o, c)
  BY <1>3, SkillsInv
<1>4. CASE UpdateSteps
  BY <1>4, StartsInv, PopsInv, UnmapsInv, PutsInv, MapsInv DEF UpdateSteps
<1>5. CASE Lost \/ HookLooks \/ HookQueues \/ Stops
  BY <1>5, HooksInv
<1>6. CASE \E t \in timers : Elapses(t) \/ Settled(t)
  BY <1>6, TimersInv
<1>7. CASE \E o \in Observations : Scans(o)
  BY <1>7, ScansInv
<1>8. CASE \E s \in syncs : SyncSteps(s)
  BY <1>8, SyncsInv, AppliesInv DEF SyncSteps
<1> QED
  BY <1>1, <1>2, <1>3, <1>4, <1>5, <1>6, <1>7, <1>8 DEF BoardNext

LEMMA BoardSpecInv == BoardSpec => []BoardInv
  BY BoardInitInv, BoardNextInv, PTL DEF BoardSpec

\* Every variable keeps its shape, the map and the entries among them.
THEOREM BoardTypeCorrect == BoardSpec => []BoardTypeOK
<1>1. BoardInv => BoardTypeOK
  BY DEF BoardInv
<1> QED
  BY <1>1, BoardSpecInv, PTL

\* Between updates the map a delivery is looked up in without the lock tells what the
\* entries do, however many entries an update takes in and whatever it hands over.
THEOREM MapCorrect == BoardSpec => []MapIsEntries
<1>1. BoardInv => MapIsEntries
  <2> SUFFICES ASSUME BoardInv, update = NoUpdate PROVE MapIsEntries
    BY DEF MapIsEntries
  <2> QED
    BY DEF BoardInv, BoardIndexInv, MapInv, MapIsEntries, NoUpdate
<1> QED
  BY <1>1, BoardSpecInv, PTL

\* A sync that applies has read what is newer than the file saw.
LEMMA StepGoesOn ==
  ASSUME BoardInv, [BoardNext]_boardVars, NEW o \in Observations
  PROVE  /\ doc'[o].seen.card = doc[o].seen.card => doc'[o].seen.rev >= doc[o].seen.rev
         /\ doc'[o].outcome \notin {doc[o].outcome, NoDue} =>
              /\ doc'[o].outcome.card = doc[o].card /\ doc[o].status # "open"
              /\ doc[o].seen.card = doc[o].card => doc'[o].outcome.rev > doc[o].seen.rev
<1> USE DEF BoardInv
<1>0. doc[o] \in Docs /\ doc[o].seen.rev \in Nat
  BY DEF BoardTypeOK, Docs, Dues
<1>1. CASE doc' = doc
  BY <1>0, <1>1
<1>2. CASE \E p \in Observations : Unlinks(p) \/ Reopens(p) \/ \E c \in Cards : Links(p, c)
  <2>1. PICK p \in Observations : Unlinks(p) \/ Reopens(p) \/ \E c \in Cards : Links(p, c)
    BY <1>2
  <2>2. PICK to \in [Observations -> Docs] :
          /\ SkillsPush(to)
          /\ \A q \in Observations : to[q].seen = doc[q].seen /\ to[q].outcome \in {doc[q].outcome, NoDue}
    BY <2>1, SkillsDocs DEF BoardIndexInv
  <2>3. doc' = to
    BY <2>2 DEF SkillsPush
  <2> QED
    BY <1>0, <2>2, <2>3
<1>3. CASE \E s \in syncs : Applies(s)
  <2>1. PICK s \in syncs : Applies(s)
    BY <1>3
  <2> DEFINE x == Synced(doc[s.of], s)
  <2>2. s.at = "apply" /\ s.card \in Cards /\ s.rev \in DOMAIN card[s.card]
    BY <2>1 DEF Applies, SyncInv
  <2>3. /\ x.seen = Read(s)
        /\ x.outcome # doc[s.of].outcome => x.outcome = Read(s) /\ doc[s.of].status # "open"
    BY <2>2, SyncedDoc
  <2> HIDE DEF x
  <2>4. doc' = doc \/ /\ doc' = [doc EXCEPT ![s.of] = x] /\ doc[s.of].card = s.card
                      /\ ~(card[s.card][s.rev] <= doc[s.of].time)
    BY <2>1 DEF Applies, x
  <2>5. CASE doc' # doc /\ o = s.of
    <3>1. doc'[o] = x /\ doc[o].card = s.card /\ ~(card[s.card][s.rev] <= doc[o].time)
      BY <2>4, <2>5 DEF BoardTypeOK
    <3>2. ASSUME doc[o].seen.card = s.card PROVE s.rev > doc[o].seen.rev
      <4>1. doc[o].seen.rev \in DOMAIN card[s.card] /\ doc[o].time = card[s.card][doc[o].seen.rev]
        BY <2>2, <3>2 DEF SeenInv
      <4>2. ~(s.rev <= doc[o].seen.rev)
        BY <2>2, <3>1, <4>1 DEF TimesInv
      <4>3. s.rev \in Nat
        BY DEF BoardTypeOK, SyncShapes
      <4> QED
        BY <1>0, <4>2, <4>3
    <3>3. s.rev \in Nat /\ Read(s).card = s.card /\ Read(s).rev = s.rev
      BY DEF BoardTypeOK, SyncShapes, Read
    <3>4. doc'[o].seen.card = doc[o].seen.card => doc'[o].seen.rev >= doc[o].seen.rev
      BY <1>0, <2>3, <3>1, <3>2, <3>3
    <3>5. ASSUME doc'[o].outcome \notin {doc[o].outcome, NoDue}
          PROVE  /\ doc'[o].outcome.card = doc[o].card /\ doc[o].status # "open"
                 /\ doc[o].seen.card = doc[o].card => doc'[o].outcome.rev > doc[o].seen.rev
      BY <2>3, <2>5, <3>1, <3>2, <3>3, <3>5
    <3> QED
      BY <3>4, <3>5
  <2>6. CASE doc' # doc /\ o # s.of
    <3>1. doc'[o] = doc[o]
      BY <2>4, <2>6 DEF BoardTypeOK
    <3> QED
      BY <1>0, <3>1
  <2> QED
    BY <1>1, <2>5, <2>6
<1>4. doc' = doc \/ (\E p \in Observations : Unlinks(p) \/ Reopens(p) \/ \E c \in Cards : Links(p, c))
        \/ (\E s \in syncs : Applies(s))
  <2>1. CASE UNCHANGED boardVars
    BY <2>1 DEF boardVars
  <2>2. CASE Tick \/ \E c \in Cards : Announces(c) \/ Commits(c)
    BY <2>2 DEF Tick, Announces, Commits
  <2>3. CASE UpdateSteps
    BY <2>3 DEF UpdateSteps, UpdateStarts, Pops, Unmaps, Puts, Maps, Indexing
  <2>4. CASE Lost \/ HookLooks \/ HookQueues \/ Stops
    BY <2>4 DEF Lost, HookLooks, HookQueues, Stops, HookOnly
  <2>5. CASE \E t \in timers : Elapses(t) \/ Settled(t)
    BY <2>5 DEF Elapses, Settled, HookOnly
  <2>6. CASE \E p \in Observations : Scans(p)
    BY <2>6 DEF Scans
  <2>7. CASE \E s \in syncs : Gets(s) \/ Reads(s) \/ Fails(s)
    BY <2>7 DEF Gets, Reads, Fails
  <2> QED
    BY <2>1, <2>2, <2>3, <2>4, <2>5, <2>6, <2>7 DEF BoardNext, SyncSteps
<1> QED
  BY <1>1, <1>2, <1>3, <1>4

\* A file's record of its card only goes on, and only its own card's resolution, not
\* recorded before, closes it: reads applied out of order, or under a card the skills have
\* taken, or of what a reopening took back, change nothing.
THEOREM GoesOnCorrect == BoardSpec => SyncGoesOn
<1>1. BoardInv /\ [BoardNext]_boardVars =>
        [\A o \in Observations :
          /\ doc'[o].seen.card = doc[o].seen.card => doc'[o].seen.rev >= doc[o].seen.rev
          /\ doc'[o].outcome \notin {doc[o].outcome, NoDue} =>
              /\ doc'[o].outcome.card = doc[o].card /\ doc[o].status # "open"
              /\ doc[o].seen.card = doc[o].card => doc'[o].outcome.rev > doc[o].seen.rev]_doc
  BY StepGoesOn
<1> QED
  BY <1>1, BoardSpecInv, PTL DEF BoardSpec, SyncGoesOn

----------------------------------------------------------------------------

\* The revisions of a card that are made or announced.
Announced(c) == Len(card[c]) + coming[c]

\* Deliveries come in the order of their changes, each about one that is announced.
OrderInv ==
    /\ \A i \in DOMAIN deliveries :
          0 < deliveries[i].rev /\ deliveries[i].rev <= Announced(deliveries[i].card)
    /\ \A i, j \in DOMAIN deliveries :
          i < j /\ deliveries[i].card = deliveries[j].card => deliveries[i].rev < deliveries[j].rev
    /\ hook # NoHook =>
          /\ 0 < hook.rev /\ hook.rev <= Announced(hook.card)
          /\ \A i \in DOMAIN deliveries :
                deliveries[i].card = hook.card => hook.rev < deliveries[i].rev

\* What is due is of the file's card, and older than what is still to be queued.
DueInv ==
    \A o \in Observations : due[o] # NoDue =>
        /\ due[o].card \in Cards /\ doc[o].card = due[o].card
        /\ 0 < due[o].rev /\ due[o].rev <= Announced(due[o].card)
        /\ hook # NoHook /\ hook.card = due[o].card => due[o].rev < hook.rev
        /\ \A i \in DOMAIN deliveries :
              deliveries[i].card = due[o].card => due[o].rev < deliveries[i].rev

\* What a wait that is over was for is committed, and a queued sync that is not lost
\* reads the card it is for, as it is by then.
WaitedFor(s) ==
    s.by # NoDue =>
        /\ s.by.card \in Cards /\ s.by.rev <= Len(card[s.by.card])
        /\ s.at # "get" /\ s.of \notin lost =>
              s.card = s.by.card /\ (s.at = "apply" => s.rev >= s.by.rev)
WaitInv ==
    /\ \A o \in Observations : settling[o] # NoDue => settling[o].card \in Cards
    /\ \A t \in timers : t.by.card \in Cards /\ (t.at = "up" => t.by.rev <= Len(card[t.by.card]))
    /\ \A s \in syncs : WaitedFor(s)

\* What is due is waited for, on its way in a sync, or in the file.
Ahead(by, d) == by.card = d.card /\ by.rev >= d.rev
Applied(x, d) ==
    /\ d.rev \in DOMAIN card[d.card]
    /\ \/ x.seen.card = d.card /\ x.seen.rev >= d.rev
       \/ x.time = card[d.card][d.rev]
       \/ x.time > card[d.card][d.rev] /\ x.seen.card # d.card
Carried(o) ==
    \/ Ahead(settling[o], due[o])
    \/ \E s \in syncs : s.of = o /\ Ahead(s.by, due[o])
    \/ Applied(doc[o], due[o])
CarriedInv == \A o \in Observations \ lost : due[o] # NoDue => Carried(o)

QueueInv == OrderInv /\ DueInv /\ WaitInv /\ CarriedInv

----------------------------------------------------------------------------
LEMMA InitQueue == BoardInit => QueueInv
<1> SUFFICES ASSUME BoardInit PROVE QueueInv
  OBVIOUS
<1>1. OrderInv /\ DueInv
  BY DEF BoardInit, OrderInv, DueInv
<1>2. WaitInv /\ CarriedInv
  BY DEF BoardInit, WaitInv, CarriedInv
<1> QED
  BY <1>1, <1>2 DEF QueueInv

\* The shapes these proofs need, and no more of the types.
Shaped ==
    /\ card \in [Cards -> Seq(Nat)] /\ coming \in [Cards -> Nat]
    /\ deliveries \in Seq([card : Cards, rev : Nat])
    /\ \A o \in Observations : due[o] \in Dues /\ settling[o] \in Dues
    /\ hook # NoHook => hook.card \in Cards /\ hook.rev \in Nat /\ hook.of \in Observations
    /\ \A c \in Cards : Len(card[c]) \in Nat /\ DOMAIN card[c] = 1 .. Len(card[c])
                        /\ \A k \in DOMAIN card[c] : card[c][k] \in Nat
    /\ \A t \in timers : t.by \in Dues /\ t.of \in Observations
    /\ \A s \in syncs : s.by \in Dues /\ s.of \in Observations /\ s.rev \in Nat
    /\ \A o \in Observations : doc[o].time \in Nat /\ doc[o].seen \in Dues
    /\ \A d \in Dues : d.rev \in Nat
LEMMA IsShaped == ASSUME BoardTypeOK PROVE Shaped
<1>1. /\ card \in [Cards -> Seq(Nat)] /\ coming \in [Cards -> Nat]
      /\ deliveries \in Seq([card : Cards, rev : Nat])
      /\ \A o \in Observations : due[o] \in Dues /\ settling[o] \in Dues
      /\ \A c \in Cards : Len(card[c]) \in Nat /\ DOMAIN card[c] = 1 .. Len(card[c])
                          /\ \A k \in DOMAIN card[c] : card[c][k] \in Nat
  BY DEF BoardTypeOK
<1>2. hook # NoHook => hook.card \in Cards /\ hook.rev \in Nat /\ hook.of \in Observations
  BY DEF BoardTypeOK, Hooks
<1>3. /\ \A t \in timers : t.by \in Dues /\ t.of \in Observations
      /\ \A s \in syncs : s.by \in Dues /\ s.of \in Observations /\ s.rev \in Nat
      /\ \A o \in Observations : doc[o].time \in Nat /\ doc[o].seen \in Dues
  BY DEF BoardTypeOK, Timers, SyncShapes, Docs
<1>4. \A d \in Dues : d.rev \in Nat
  BY DEF Dues
<1> QED
  BY <1>1, <1>2, <1>3, <1>4 DEF Shaped

LEMMA NothingDue == NoDue.card = NoCard /\ NoCard \notin Cards /\ NoDue.rev = 0
  BY BoardAssumption DEF NoDue

----------------------------------------------------------------------------
\* Steps that leave the cards and the deliveries as they are.
LEMMA OrderKept ==
  ASSUME OrderInv, UNCHANGED <<card, coming, deliveries, hook>>
  PROVE  OrderInv'
  BY DEF OrderInv, Announced, NoHook

LEMMA DueKept ==
  ASSUME DueInv, UNCHANGED <<card, coming, deliveries, hook>>,
         \A o \in Observations : due'[o] # NoDue => due'[o] = due[o] /\ doc'[o].card = doc[o].card
  PROVE  DueInv'
  BY DEF DueInv, Announced, NoHook, NoDue

LEMMA WaitKept ==
  ASSUME WaitInv, UNCHANGED <<card, settling, timers, syncs>>, lost \subseteq lost'
  PROVE  WaitInv'
  BY DEF WaitInv, WaitedFor, NoDue

LEMMA CarriedKept ==
  ASSUME CarriedInv, UNCHANGED <<card, settling, syncs>>, lost \subseteq lost',
         \A o \in Observations : due'[o] # NoDue =>
            due'[o] = due[o] /\ doc'[o].seen = doc[o].seen /\ doc'[o].time = doc[o].time
  PROVE  CarriedInv'
<1> SUFFICES ASSUME NEW o \in Observations, o \notin lost', due'[o] # NoDue PROVE Carried(o)'
  BY DEF CarriedInv, NoDue
<1>1. Carried(o) /\ due'[o] = due[o] /\ doc'[o].seen = doc[o].seen /\ doc'[o].time = doc[o].time
  BY DEF CarriedInv
<1>2. Applied(doc[o], due[o]) => Applied(doc[o], due[o])'
  BY <1>1 DEF Applied
<1> QED
  BY <1>1, <1>2 DEF Carried, Ahead

\* Time, the index and what touches only the files' status are none of the queue's business.
LEMMA QueueKept ==
  ASSUME QueueInv,
         UNCHANGED <<card, coming, deliveries, doc, hook, settling, timers, syncs, due, lost>>
  PROVE  QueueInv'
<1>1. OrderInv' /\ WaitInv'
  BY OrderKept, WaitKept DEF QueueInv
<1>2. DueInv' /\ CarriedInv'
  BY DueKept, CarriedKept DEF QueueInv
<1> QED
  BY <1>1, <1>2 DEF QueueInv

----------------------------------------------------------------------------
LEMMA AnnouncesQueue == ASSUME BoardInv, QueueInv, NEW c \in Cards, Announces(c) PROVE QueueInv'
<1> DEFINE After(d) == Len(card'[d]) + coming'[d]
           new == [card |-> c, rev |-> After(c)]
           n == Len(deliveries)
<1>1. /\ UNCHANGED <<card, doc, hook, settling, timers, syncs, due, lost>>
      /\ coming' = [coming EXCEPT ![c] = @ + 1]
      /\ deliveries' = Append(deliveries, new)
  BY DEF Announces
<1>2. Shaped
  BY IsShaped DEF BoardInv
<1>3. /\ \A d \in Cards : Announced(d) \in Nat /\ After(d) \in Nat /\ Announced(d) <= After(d)
      /\ After(c) = Announced(c) + 1
      /\ new.card = c /\ new.rev = After(c)
  BY <1>1, <1>2 DEF Announced, Shaped
<1>4. /\ n \in Nat /\ DOMAIN deliveries = 1 .. n /\ DOMAIN deliveries' = 1 .. n + 1
      /\ deliveries'[n + 1] = new /\ \A i \in 1 .. n : deliveries'[i] = deliveries[i]
      /\ \A i \in 1 .. n : deliveries[i].card \in Cards /\ deliveries[i].rev \in Nat
  <2>1. deliveries \in Seq([card : Cards, rev : Nat]) /\ new \in [card : Cards, rev : Nat]
    BY <1>2, <1>3 DEF Shaped
  <2> HIDE DEF new
  <2>2. n \in Nat /\ DOMAIN deliveries = 1 .. n
    BY <2>1
  <2>3. \A i \in 1 .. n : deliveries[i] \in [card : Cards, rev : Nat]
    BY <2>1, ElementOfSeq
  <2>4. /\ Len(deliveries') = n + 1 /\ deliveries' \in Seq([card : Cards, rev : Nat])
        /\ deliveries'[n + 1] = new /\ \A i \in 1 .. n : deliveries'[i] = deliveries[i]
    BY <1>1, <2>1, AppendProperties
  <2>5. DOMAIN deliveries' = 1 .. n + 1
    BY <2>4
  <2> QED
    BY <2>2, <2>3, <2>4, <2>5
<1> HIDE DEF new, n, After
<1>5. \A i \in 1 .. n + 1 : i \in 1 .. n \/ i = n + 1
  BY <1>4
<1>6. \A i \in 1 .. n : 0 < deliveries[i].rev /\ deliveries[i].rev <= Announced(deliveries[i].card)
  BY <1>4 DEF QueueInv, OrderInv
<1>7. OrderInv'
  <2>1. ASSUME NEW i \in DOMAIN deliveries'
        PROVE  0 < deliveries'[i].rev /\ deliveries'[i].rev <= After(deliveries'[i].card)
    <3>1. CASE i \in 1 .. n
      BY <1>3, <1>4, <1>6, <3>1
    <3>2. CASE i = n + 1
      BY <1>3, <1>4, <3>2
    <3> QED
      BY <1>4, <1>5, <3>1, <3>2
  <2>2. ASSUME NEW i \in DOMAIN deliveries', NEW j \in DOMAIN deliveries', i < j,
               deliveries'[i].card = deliveries'[j].card
        PROVE  deliveries'[i].rev < deliveries'[j].rev
    <3>1. i \in 1 .. n
      BY <1>4, <2>2
    <3>2. CASE j \in 1 .. n
      BY <1>4, <2>2, <3>1, <3>2 DEF QueueInv, OrderInv
    <3>3. CASE j = n + 1
      <4>1. deliveries'[i] = deliveries[i] /\ deliveries'[j] = new /\ deliveries[i].card = c
        BY <1>3, <1>4, <2>2, <3>1, <3>3
      <4>2. deliveries[i].rev <= Announced(c) /\ deliveries[i].rev \in Nat
        BY <1>4, <1>6, <3>1, <4>1
      <4> QED
        BY <1>3, <4>1, <4>2
    <3> QED
      BY <1>4, <1>5, <3>2, <3>3
  <2>3. ASSUME hook # NoHook
        PROVE  /\ 0 < hook.rev /\ hook.rev <= After(hook.card)
               /\ \A i \in DOMAIN deliveries' :
                    deliveries'[i].card = hook.card => hook.rev < deliveries'[i].rev
    <3>1. /\ hook.card \in Cards /\ hook.rev \in Nat /\ 0 < hook.rev /\ hook.rev <= Announced(hook.card)
          /\ \A i \in 1 .. n : deliveries[i].card = hook.card => hook.rev < deliveries[i].rev
      BY <1>2, <1>4, <2>3 DEF Shaped, QueueInv, OrderInv
    <3>2. new.card = hook.card => hook.rev < new.rev
      BY <1>3, <3>1
    <3>3. \A i \in 1 .. n + 1 : deliveries'[i].card = hook.card => hook.rev < deliveries'[i].rev
      BY <1>4, <1>5, <3>1, <3>2
    <3>4. hook.rev <= After(hook.card)
      BY <1>3, <3>1
    <3> QED
      BY <1>4, <3>1, <3>3, <3>4
  <2> QED
    BY <1>1, <2>1, <2>2, <2>3 DEF OrderInv, NoHook, Announced, After
<1>8. DueInv'
  <2> SUFFICES ASSUME NEW o \in Observations, due[o] # NoDue
               PROVE  /\ due[o].card \in Cards /\ doc[o].card = due[o].card
                      /\ 0 < due[o].rev /\ due[o].rev <= After(due[o].card)
                      /\ hook # NoHook /\ hook.card = due[o].card => due[o].rev < hook.rev
                      /\ \A i \in DOMAIN deliveries' :
                            deliveries'[i].card = due[o].card => due[o].rev < deliveries'[i].rev
    BY <1>1 DEF DueInv, NoDue, NoHook, Announced, After
  <2>1. /\ due[o].card \in Cards /\ doc[o].card = due[o].card
        /\ 0 < due[o].rev /\ due[o].rev <= Announced(due[o].card) /\ due[o].rev \in Nat
        /\ hook # NoHook /\ hook.card = due[o].card => due[o].rev < hook.rev
        /\ \A i \in 1 .. n : deliveries[i].card = due[o].card => due[o].rev < deliveries[i].rev
    BY <1>2, <1>4 DEF Shaped, QueueInv, DueInv
  <2>2. new.card = due[o].card => due[o].rev < new.rev
    BY <1>3, <2>1
  <2>3. \A i \in 1 .. n + 1 : deliveries'[i].card = due[o].card => due[o].rev < deliveries'[i].rev
    BY <1>4, <1>5, <2>1, <2>2
  <2> QED
    BY <1>3, <1>4, <2>1, <2>3
<1>9. WaitInv'
  BY <1>1, WaitKept DEF QueueInv
<1>10. CarriedInv'
  BY <1>1, CarriedKept DEF QueueInv
<1> QED
  BY <1>7, <1>8, <1>9, <1>10 DEF QueueInv

LEMMA CommitsQueue == ASSUME BoardInv, QueueInv, NEW c \in Cards, Commits(c) PROVE QueueInv'
<1>1. /\ coming[c] > 0 /\ coming' = [coming EXCEPT ![c] = @ - 1]
      /\ card' = [card EXCEPT ![c] = Append(@, now)]
      /\ UNCHANGED <<deliveries, doc, hook, settling, timers, syncs, due, lost>>
  BY DEF Commits
<1>2. Shaped
  BY IsShaped DEF BoardInv
<1>3. now \in Nat /\ card[c] \in Seq(Nat) /\ card'[c] = Append(card[c], now)
      /\ \A d \in Cards : d # c => card'[d] = card[d]
  BY <1>1, <1>2 DEF BoardInv, BoardTypeOK, Shaped
<1>4. Len(card'[c]) = Len(card[c]) + 1 /\ DOMAIN card'[c] = 1 .. Len(card[c]) + 1
      /\ \A k \in 1 .. Len(card[c]) : card'[c][k] = card[c][k]
  BY <1>3
<1>5. \A d \in Cards : /\ Announced(d)' = Announced(d) /\ Len(card[d]) \in Nat /\ Len(card[d]) <= Len(card'[d]) /\ Len(card'[d]) \in Nat
  BY <1>1, <1>2, <1>3, <1>4 DEF Announced, Shaped
<1>6. \A d \in Cards : \A k \in DOMAIN card[d] : k \in DOMAIN card'[d] /\ card'[d][k] = card[d][k]
  <2>1. \A k \in 1 .. Len(card[c]) : k \in 1 .. Len(card[c]) + 1
    BY <1>2 DEF Shaped
  <2>2. DOMAIN card[c] = 1 .. Len(card[c])
    BY <1>2 DEF Shaped
  <2> QED
    BY <1>3, <1>4, <2>1, <2>2
<1>7. \A i \in DOMAIN deliveries : deliveries[i].card \in Cards
  <2>1. deliveries \in Seq([card : Cards, rev : Nat])
    BY <1>2 DEF Shaped
  <2>2. \A i \in 1 .. Len(deliveries) : deliveries[i] \in [card : Cards, rev : Nat]
    BY <2>1, ElementOfSeq
  <2>3. DOMAIN deliveries = 1 .. Len(deliveries)
    BY <2>1
  <2> QED
    BY <2>2, <2>3
<1>8. OrderInv'
  BY <1>1, <1>2, <1>5, <1>7 DEF QueueInv, OrderInv, Shaped, NoHook
<1>9. DueInv'
  BY <1>1, <1>5 DEF QueueInv, DueInv, NoHook, NoDue
<1>10. WaitInv'
  <2>1. \A t \in timers : t.by.card \in Cards /\ (t.at = "up" => t.by.rev <= Len(card'[t.by.card]))
    BY <1>2, <1>5 DEF QueueInv, WaitInv, Shaped
  <2>2. ASSUME NEW s \in syncs PROVE WaitedFor(s)'
    <3>1. WaitedFor(s) /\ s.by.rev \in Nat
      BY <1>2 DEF QueueInv, WaitInv, Shaped
    <3> QED
      BY <1>1, <1>2, <1>5, <3>1 DEF WaitedFor, Shaped, NoDue
  <2> QED
    BY <1>1, <2>1, <2>2 DEF QueueInv, WaitInv, NoDue
<1>11. CarriedInv'
  <2> SUFFICES ASSUME NEW o \in Observations, o \notin lost, due[o] # NoDue PROVE Carried(o)'
    BY <1>1 DEF CarriedInv, NoDue
  <2>1. Carried(o) /\ due[o].card \in Cards
    BY DEF QueueInv, CarriedInv, DueInv
  <2>2. Applied(doc[o], due[o]) => Applied(doc[o], due[o])'
    BY <1>1, <1>6, <2>1 DEF Applied
  <2> QED
    BY <1>1, <2>1, <2>2 DEF Carried, Ahead
<1> QED
  BY <1>8, <1>9, <1>10, <1>11 DEF QueueInv

LEMMA SkillsQueue ==
  ASSUME BoardInv, QueueInv, NEW o \in Observations,
         Unlinks(o) \/ Reopens(o) \/ \E c \in Cards : Links(o, c)
  PROVE  QueueInv'
<1>1. PICK to \in [Observations -> Docs] :
        /\ SkillsPush(to)
        /\ \A p \in Observations : to[p].seen = doc[p].seen /\ to[p].time = doc[p].time
  BY SkillsDocs DEF BoardInv, BoardIndexInv
<1>2. /\ UNCHANGED <<card, coming, deliveries, hook, settling, timers, syncs, lost>>
      /\ doc' = to
      /\ due' = [p \in Observations |-> IF to[p].card = doc[p].card THEN due[p] ELSE NoDue]
  BY <1>1 DEF SkillsPush, world
<1>3. \A p \in Observations : due'[p] # NoDue => due'[p] = due[p] /\ doc'[p].card = doc[p].card
  BY <1>2
<1>4. OrderInv' /\ WaitInv'
  BY <1>2, OrderKept, WaitKept DEF QueueInv
<1>5. DueInv' /\ CarriedInv'
  BY <1>1, <1>2, <1>3, DueKept, CarriedKept DEF QueueInv
<1> QED
  BY <1>4, <1>5 DEF QueueInv

----------------------------------------------------------------------------
\* The deliveries but for the first.
LEMMA Rest ==
  ASSUME Shaped, deliveries # <<>>
  PROVE  /\ Head(deliveries) = deliveries[1] /\ 1 \in DOMAIN deliveries
         /\ deliveries[1].card \in Cards
         /\ \A i \in DOMAIN Tail(deliveries) : /\ i \in Nat /\ i + 1 \in DOMAIN deliveries
                                              /\ Tail(deliveries)[i] = deliveries[i + 1] /\ 1 < i + 1
<1>1. deliveries \in Seq([card : Cards, rev : Nat]) /\ Len(deliveries) \in Nat /\ Len(deliveries) > 0
  BY DEF Shaped
<1>2. deliveries[1] \in [card : Cards, rev : Nat] /\ Head(deliveries) = deliveries[1]
  <2>1. 1 \in 1 .. Len(deliveries)
    BY <1>1
  <2>2. deliveries[1] \in [card : Cards, rev : Nat]
    BY <1>1, <2>1, ElementOfSeq
  <2> QED
    BY <1>1, <2>2
<1>3. /\ DOMAIN deliveries = 1 .. Len(deliveries)
      /\ Len(Tail(deliveries)) = Len(deliveries) - 1
      /\ \A i \in 1 .. Len(Tail(deliveries)) : Tail(deliveries)[i] = deliveries[i + 1]
  BY <1>1
<1>4. DOMAIN Tail(deliveries) = 1 .. Len(deliveries) - 1
  BY <1>1, <1>3
<1> QED
  BY <1>1, <1>2, <1>3, <1>4

\* A delivery fewer, with the one taken off being answered or not.
LEMMA Taken ==
  ASSUME BoardInv, QueueInv, deliveries # <<>>, deliveries' = Tail(deliveries),
         UNCHANGED <<card, coming, doc, settling, timers, syncs, due, lost>>,
         \/ hook' = hook
         \/ hook' = NoHook
         \/ hook = NoHook /\ hook'.card = deliveries[1].card /\ hook'.rev = deliveries[1].rev
  PROVE  QueueInv'
<1>1. Shaped
  BY IsShaped DEF BoardInv
<1>2. \A i \in DOMAIN deliveries' : /\ i \in Nat /\ i + 1 \in DOMAIN deliveries
                                    /\ deliveries'[i] = deliveries[i + 1] /\ 1 < i + 1
  BY <1>1, Rest
<1>3. 1 \in DOMAIN deliveries
  BY <1>1, Rest
<1>4. OrderInv'
  <2>1. \A i \in DOMAIN deliveries' :
          0 < deliveries'[i].rev /\ deliveries'[i].rev <= Announced(deliveries'[i].card)
    BY <1>2 DEF QueueInv, OrderInv
  <2>2. \A i, j \in DOMAIN deliveries' :
          i < j /\ deliveries'[i].card = deliveries'[j].card => deliveries'[i].rev < deliveries'[j].rev
    BY <1>2 DEF QueueInv, OrderInv
  <2>3. ASSUME hook' # NoHook
        PROVE  /\ 0 < hook'.rev /\ hook'.rev <= Announced(hook'.card)
               /\ \A i \in DOMAIN deliveries' :
                    deliveries'[i].card = hook'.card => hook'.rev < deliveries'[i].rev
    BY <1>2, <1>3, <2>3 DEF QueueInv, OrderInv
  <2> QED
    BY <2>1, <2>2, <2>3 DEF OrderInv, NoHook, Announced
<1>5. DueInv'
  <2> SUFFICES ASSUME NEW o \in Observations, due[o] # NoDue
               PROVE  /\ due[o].card \in Cards /\ doc[o].card = due[o].card
                      /\ 0 < due[o].rev /\ due[o].rev <= Announced(due[o].card)
                      /\ hook' # NoHook /\ hook'.card = due[o].card => due[o].rev < hook'.rev
                      /\ \A i \in DOMAIN deliveries' :
                            deliveries'[i].card = due[o].card => due[o].rev < deliveries'[i].rev
    BY DEF DueInv, NoDue, NoHook, Announced
  <2> QED
    BY <1>2, <1>3 DEF QueueInv, DueInv
<1>6. WaitInv' /\ CarriedInv'
  BY WaitKept, CarriedKept DEF QueueInv
<1> QED
  BY <1>4, <1>5, <1>6 DEF QueueInv

LEMMA LooksQueue == ASSUME BoardInv, QueueInv, Lost \/ HookLooks PROVE QueueInv'
<1>1. /\ deliveries # <<>> /\ deliveries' = Tail(deliveries)
      /\ UNCHANGED <<card, coming, doc, settling, timers, syncs, due, lost>>
  BY DEF Lost, HookLooks, HookOnly
<1>2. Head(deliveries) = deliveries[1]
  BY <1>1, IsShaped, Rest DEF BoardInv
<1>3. \/ hook' = hook
      \/ hook' = NoHook
      \/ hook = NoHook /\ hook'.card = deliveries[1].card /\ hook'.rev = deliveries[1].rev
  BY <1>2 DEF Lost, HookLooks, HookOnly
<1> QED
  BY <1>1, <1>3, Taken

\* A queued delivery is the newest of its card, and a wait it takes from another card's
\* is one that is lost.
LEMMA QueuesQueue == ASSUME BoardInv, QueueInv, HookQueues PROVE QueueInv'
<1> DEFINE b == [card |-> hook.card, rev |-> hook.rev]
<1>1. /\ hook # NoHook /\ hook' = NoHook /\ UNCHANGED <<card, coming, deliveries, doc, syncs>>
      /\ \/ UNCHANGED <<settling, timers, due, lost>>
         \/ /\ settling' = [settling EXCEPT ![hook.of] = b]
            /\ timers' = {t \in timers : ~(t.at = "waits" /\ t.of = hook.of)} \cup {NewTimer}
            /\ Queued
            /\ lost' = IF settling[hook.of].card \in {NoCard, hook.card} THEN lost
                       ELSE lost \cup {hook.of}
  BY DEF HookQueues, HookOnly, Ended, NewTimer
<1>2. Shaped
  BY IsShaped DEF BoardInv
<1>3. /\ hook.card \in Cards /\ hook.rev \in Nat /\ hook.of \in Observations
      /\ b.card = hook.card /\ b.rev = hook.rev /\ b # NoDue
  BY <1>1, <1>2, NothingDue DEF Shaped
<1> HIDE DEF b
<1>4. OrderInv'
  BY <1>1 DEF QueueInv, OrderInv, Announced, NoHook
<1>5. CASE UNCHANGED <<settling, timers, due, lost>>
  <2>1. DueInv'
    BY <1>1, <1>5 DEF QueueInv, DueInv, Announced, NoHook, NoDue
  <2>2. WaitInv' /\ CarriedInv'
    BY <1>1, <1>5, WaitKept, CarriedKept DEF QueueInv
  <2> QED
    BY <1>4, <2>1, <2>2 DEF QueueInv
<1>6. CASE ~UNCHANGED <<settling, timers, due, lost>>
  <2>1. /\ settling' = [settling EXCEPT ![hook.of] = b]
        /\ timers' = {t \in timers : ~(t.at = "waits" /\ t.of = hook.of)} \cup {NewTimer}
        /\ Queued
        /\ lost' = IF settling[hook.of].card \in {NoCard, hook.card} THEN lost
                   ELSE lost \cup {hook.of}
    BY <1>1, <1>6
  <2>2. /\ settling'[hook.of] = b
        /\ \A o \in Observations : o # hook.of => settling'[o] = settling[o] /\ due'[o] = due[o]
    <3>1. /\ settling \in [Observations -> Dues] /\ due \in [Observations -> Dues]
      BY DEF BoardInv, BoardTypeOK
    <3> QED
      BY <1>3, <2>1, <3>1 DEF Queued
  <2>3. due'[hook.of] = IF doc[hook.of].card # hook.card THEN due[hook.of] ELSE b
    <3>1. due \in [Observations -> Dues]
      BY DEF BoardInv, BoardTypeOK
    <3>2. ~(due[hook.of].card = hook.card /\ due[hook.of].rev > hook.rev)
      <4>1. due[hook.of].rev \in Nat
        BY <1>2, <1>3 DEF Shaped
      <4>2. due[hook.of].card = hook.card => due[hook.of] # NoDue
        BY <1>3, NothingDue
      <4> QED
        BY <1>1, <1>3, <4>1, <4>2 DEF QueueInv, DueInv
    <3> QED
      BY <1>3, <2>1, <3>1, <3>2 DEF Queued, b
  <2>4. lost \subseteq lost'
    BY <2>1
  <2>5. /\ 0 < hook.rev /\ hook.rev <= Announced(hook.card)
        /\ \A i \in DOMAIN deliveries : deliveries[i].card = hook.card => hook.rev < deliveries[i].rev
    BY <1>1 DEF QueueInv, OrderInv
  <2>6. DueInv'
    <3> SUFFICES ASSUME NEW o \in Observations, due'[o] # NoDue
                 PROVE  /\ due'[o].card \in Cards /\ doc[o].card = due'[o].card
                        /\ 0 < due'[o].rev /\ due'[o].rev <= Announced(due'[o].card)
                        /\ \A i \in DOMAIN deliveries :
                              deliveries[i].card = due'[o].card => due'[o].rev < deliveries[i].rev
      BY <1>1 DEF DueInv, NoDue, NoHook, Announced
    <3>1. CASE due'[o] = due[o]
      BY <3>1 DEF QueueInv, DueInv
    <3>2. CASE due'[o] # due[o]
      <4>1. o = hook.of /\ due'[o] = b /\ doc[o].card = hook.card
        BY <2>2, <2>3, <3>2
      <4> QED
        BY <1>3, <2>5, <4>1
    <3> QED
      BY <3>1, <3>2
  <2>7. WaitInv'
    <3>1. \A o \in Observations : settling'[o] # NoDue => settling'[o].card \in Cards
      BY <1>3, <2>2 DEF QueueInv, WaitInv
    <3>2. NewTimer.by = b /\ NewTimer.at = "waits"
      BY DEF NewTimer, b
    <3>3. \A t \in timers' : t.by.card \in Cards /\ (t.at = "up" => t.by.rev <= Len(card[t.by.card]))
      BY <1>3, <2>1, <3>2 DEF QueueInv, WaitInv
    <3>4. \A s \in syncs : WaitedFor(s)'
      BY <1>1, <2>4 DEF QueueInv, WaitInv, WaitedFor, NoDue
    <3> QED
      BY <1>1, <3>1, <3>3, <3>4 DEF WaitInv, NoDue
  <2>8. CarriedInv'
    <3> SUFFICES ASSUME NEW o \in Observations, o \notin lost', due'[o] # NoDue PROVE Carried(o)'
      BY DEF CarriedInv, NoDue
    <3>1. CASE o = hook.of /\ doc[o].card = hook.card
      <4>1. due'[o] = b /\ settling'[o] = b
        BY <2>2, <2>3, <3>1
      <4> QED
        BY <1>3, <4>1 DEF Carried, Ahead
    <3>2. CASE o = hook.of /\ doc[o].card # hook.card
      <4>1. due'[o] = due[o] /\ due[o] # NoDue /\ o \notin lost
        BY <2>3, <2>4, <3>2
      <4>2. due[o].card = doc[o].card /\ due[o].card \in Cards /\ Carried(o)
        BY <4>1 DEF QueueInv, DueInv, CarriedInv
      <4>3. settling[o].card \in {NoCard, hook.card}
        BY <2>1, <3>2
      <4>4. ~Ahead(settling[o], due[o])
        BY <3>2, <4>2, <4>3, NothingDue DEF Ahead
      <4>5. (\E s \in syncs : s.of = o /\ Ahead(s.by, due[o])) \/ Applied(doc[o], due[o])
        BY <4>2, <4>4 DEF Carried
      <4> QED
        BY <1>1, <4>1, <4>5 DEF Carried, Ahead, Applied
    <3>3. CASE o # hook.of
      <4>1. due'[o] = due[o] /\ settling'[o] = settling[o] /\ o \notin lost /\ Carried(o)
        BY <2>2, <2>4, <3>3 DEF QueueInv, CarriedInv
      <4> QED
        BY <1>1, <4>1 DEF Carried, Ahead, Applied
    <3> QED
      BY <3>1, <3>2, <3>3
  <2> QED
    BY <1>4, <2>6, <2>7, <2>8 DEF QueueInv
<1> QED
  BY <1>5, <1>6

\* The syncs dropped before they settle are lost.
LEMMA StopsQueue == ASSUME BoardInv, QueueInv, Stops PROVE QueueInv'
<1>1. /\ UNCHANGED <<card, coming, deliveries, doc, hook, syncs, due>>
      /\ timers' = {t \in timers : t.at = "up"}
      /\ lost' = lost \cup {o \in Observations : settling[o] # NoDue}
      /\ settling' = [o \in Observations |-> NoDue]
  BY DEF Stops, world
<1>2. OrderInv' /\ DueInv'
  BY <1>1, OrderKept, DueKept DEF QueueInv
<1>3. WaitInv'
  <2>1. \A s \in syncs : WaitedFor(s)'
    BY <1>1 DEF QueueInv, WaitInv, WaitedFor, NoDue
  <2> QED
    BY <1>1, <2>1 DEF QueueInv, WaitInv, NoDue
<1>4. CarriedInv'
  <2> SUFFICES ASSUME NEW o \in Observations, o \notin lost', due[o] # NoDue PROVE Carried(o)'
    BY <1>1 DEF CarriedInv, NoDue
  <2>1. settling[o] = NoDue /\ o \notin lost /\ settling'[o] = NoDue /\ Carried(o)
    BY <1>1 DEF QueueInv, CarriedInv
  <2> QED
    BY <1>1, <2>1 DEF Carried, Ahead, Applied
<1> QED
  BY <1>2, <1>3, <1>4 DEF QueueInv

\* A wait ends when the card has what it was for, and what it was for goes on in a sync.
LEMMA TimersQueue == ASSUME BoardInv, QueueInv, NEW t \in timers, Elapses(t) \/ Settled(t) PROVE QueueInv'
<1>1. UNCHANGED <<card, coming, deliveries, doc, hook, due, lost>>
  BY DEF Elapses, Settled, HookOnly, world
<1>2. Shaped
  BY IsShaped DEF BoardInv
<1>3. OrderInv' /\ DueInv'
  BY <1>1, OrderKept, DueKept DEF QueueInv
<1>4. t.by.card \in Cards /\ t.by.rev \in Nat /\ t.by # NoDue
  BY <1>2, NothingDue DEF Shaped, QueueInv, WaitInv
<1>5. CASE Elapses(t)
  <2> DEFINE u == [t EXCEPT !.at = "up"]
  <2>1. /\ timers' = (timers \ {t}) \cup {u} /\ Len(card[t.by.card]) >= t.by.rev
        /\ UNCHANGED <<settling, syncs>>
    BY <1>5 DEF Elapses, HookOnly
  <2>2. u.by = t.by
    BY DEF BoardInv, BoardTypeOK, Timers
  <2> HIDE DEF u
  <2>3. \A v \in timers' : v.by.card \in Cards /\ (v.at = "up" => v.by.rev <= Len(card[v.by.card]))
    <3>1. t.by.rev <= Len(card[t.by.card])
      BY <1>2, <1>4, <2>1 DEF Shaped
    <3> QED
      BY <1>4, <2>1, <2>2, <3>1 DEF QueueInv, WaitInv
  <2>4. WaitInv'
    <3>1. \A s \in syncs : WaitedFor(s)'
      BY <1>1 DEF QueueInv, WaitInv, WaitedFor, NoDue
    <3> QED
      BY <1>1, <2>1, <2>3, <3>1 DEF QueueInv, WaitInv, NoDue
  <2>5. CarriedInv'
    BY <1>1, <2>1, CarriedKept DEF QueueInv
  <2> QED
    BY <1>3, <2>4, <2>5 DEF QueueInv
<1>6. CASE Settled(t) /\ settling[t.of] # t.by
  <2>1. timers' = timers \ {t} /\ UNCHANGED <<settling, syncs>>
    BY <1>6 DEF Settled
  <2>2. WaitInv'
    <3>1. \A s \in syncs : WaitedFor(s)'
      BY <1>1 DEF QueueInv, WaitInv, WaitedFor, NoDue
    <3> QED
      BY <1>1, <2>1, <3>1 DEF QueueInv, WaitInv, NoDue
  <2>3. CarriedInv'
    BY <1>1, <2>1, CarriedKept DEF QueueInv
  <2> QED
    BY <1>3, <2>2, <2>3 DEF QueueInv
<1>7. CASE Settled(t) /\ settling[t.of] = t.by
  <2> DEFINE r == Sync(t.by, t.of)
  <2>1. /\ timers' = timers \ {t} /\ t.at = "up"
        /\ settling' = [settling EXCEPT ![t.of] = NoDue] /\ syncs' = syncs \cup {r}
    BY <1>7 DEF Settled
  <2>2. r.by = t.by /\ r.of = t.of /\ r.at = "get"
    BY DEF Sync
  <2> HIDE DEF r
  <2>3. \A o \in Observations : settling'[o] = NoDue \/ (o # t.of /\ settling'[o] = settling[o])
    BY <2>1 DEF BoardInv, BoardTypeOK
  <2>4. t.by.rev <= Len(card[t.by.card])
    BY <2>1 DEF QueueInv, WaitInv
  <2>5. WaitInv'
    <3>1. \A s \in syncs : WaitedFor(s)'
      BY <1>1 DEF QueueInv, WaitInv, WaitedFor, NoDue
    <3>2. WaitedFor(r)'
      BY <1>1, <1>4, <2>2, <2>4 DEF WaitedFor, NoDue
    <3>3. \A s \in syncs' : WaitedFor(s)'
      BY <2>1, <3>1, <3>2
    <3>4. \A v \in timers' : v.by.card \in Cards /\ (v.at = "up" => v.by.rev <= Len(card[v.by.card]))
      BY <2>1 DEF QueueInv, WaitInv
    <3>5. \A o \in Observations : settling'[o] # NoDue => settling'[o].card \in Cards
      BY <2>3 DEF QueueInv, WaitInv
    <3> QED
      BY <1>1, <3>3, <3>4, <3>5 DEF WaitInv, NoDue
  <2>6. CarriedInv'
    <3> SUFFICES ASSUME NEW o \in Observations, o \notin lost, due[o] # NoDue PROVE Carried(o)'
      BY <1>1 DEF CarriedInv, NoDue
    <3>1. Carried(o)
      BY DEF QueueInv, CarriedInv
    <3>2. CASE o = t.of /\ Ahead(settling[o], due[o])
      <4>1. r \in syncs' /\ r.of = o /\ Ahead(r.by, due[o])
        BY <1>7, <2>1, <2>2, <3>2
      <4> QED
        BY <1>1, <4>1 DEF Carried, Ahead
    <3>3. CASE o # t.of /\ Ahead(settling[o], due[o])
      <4>1. settling'[o] = settling[o]
        BY <2>1, <3>3 DEF BoardInv, BoardTypeOK
      <4> QED
        BY <1>1, <3>3, <4>1 DEF Carried, Ahead
    <3>4. CASE (\E s \in syncs : s.of = o /\ Ahead(s.by, due[o])) \/ Applied(doc[o], due[o])
      BY <1>1, <2>1, <3>4 DEF Carried, Ahead, Applied
    <3> QED
      BY <3>1, <3>2, <3>3, <3>4 DEF Carried
  <2> QED
    BY <1>3, <2>5, <2>6 DEF QueueInv
<1> QED
  BY <1>5, <1>6, <1>7

----------------------------------------------------------------------------
LEMMA ScansQueue == ASSUME BoardInv, QueueInv, NEW o \in Observations, Scans(o) PROVE QueueInv'
<1> DEFINE r == Sync(NoDue, o)
<1>1. /\ UNCHANGED <<card, coming, deliveries, doc, hook, settling, timers, due, lost>>
      /\ syncs' = syncs \cup {r}
  BY DEF Scans, SyncOnly, world
<1>2. OrderInv' /\ DueInv'
  BY <1>1, OrderKept, DueKept DEF QueueInv
<1>3. r.by = NoDue
  BY DEF Sync
<1> HIDE DEF r
<1>4. WaitInv'
  <2>1. \A s \in syncs : WaitedFor(s)'
    BY <1>1 DEF QueueInv, WaitInv, WaitedFor, NoDue
  <2>2. WaitedFor(r)'
    BY <1>3 DEF WaitedFor, NoDue
  <2>3. \A s \in syncs' : WaitedFor(s)'
    BY <1>1, <2>1, <2>2
  <2> QED
    BY <1>1, <2>3 DEF QueueInv, WaitInv, NoDue
<1>5. CarriedInv'
  BY <1>1 DEF QueueInv, CarriedInv, Carried, Ahead, Applied, NoDue
<1> QED
  BY <1>2, <1>4, <1>5 DEF QueueInv

\* A sync gone from what is waited for, or come to its next step.
LEMMA SyncGoes ==
  ASSUME BoardInv, QueueInv, NEW s \in syncs, NEW r,
         UNCHANGED <<card, coming, deliveries, doc, hook, settling, timers, due>>,
         lost \subseteq lost',
         \/ /\ syncs' = (syncs \ {s}) \cup {r}
            /\ r.by = s.by /\ r.of = s.of /\ r.at # "get"
            /\ s.by # NoDue /\ s.of \notin lost' =>
                 r.card = s.by.card /\ (r.at = "apply" => r.rev >= s.by.rev)
         \/ /\ syncs' = syncs \ {s}
            /\ s.by # NoDue => s.of \in lost'
  PROVE  QueueInv'
<1>1. OrderInv' /\ DueInv'
  BY OrderKept, DueKept DEF QueueInv
<1>2. WaitInv'
  <2>1. \A q \in syncs : WaitedFor(q) /\ WaitedFor(q)'
    BY DEF QueueInv, WaitInv, WaitedFor, NoDue
  <2>2. r \in syncs' \ syncs => WaitedFor(r)'
    BY <2>1 DEF WaitedFor, NoDue
  <2>3. \A q \in syncs' : WaitedFor(q)'
    BY <2>1, <2>2
  <2> QED
    BY <2>3 DEF QueueInv, WaitInv, NoDue
<1>3. CarriedInv'
  <2> SUFFICES ASSUME NEW o \in Observations, o \notin lost', due[o] # NoDue PROVE Carried(o)'
    BY DEF CarriedInv, NoDue
  <2>1. Carried(o) /\ due[o].card \in Cards
    BY DEF QueueInv, CarriedInv, DueInv
  <2>2. Ahead(settling[o], due[o]) \/ Applied(doc[o], due[o]) => Carried(o)'
    BY DEF Carried, Ahead, Applied
  <2>3. ASSUME NEW q \in syncs, q.of = o, Ahead(q.by, due[o]) PROVE Carried(o)'
    <3>1. q.by # NoDue
      BY <2>1, <2>3, NothingDue DEF Ahead
    <3>2. q \in syncs' \/ (q = s /\ r \in syncs' /\ r.by = s.by /\ r.of = s.of)
      BY <2>3, <3>1
    <3>3. \E p \in syncs' : p.of = o /\ Ahead(p.by, due[o])
      BY <2>3, <3>2
    <3> QED
      BY <3>3 DEF Carried, Ahead
  <2> QED
    BY <2>1, <2>2, <2>3 DEF Carried
<1> QED
  BY <1>1, <1>2, <1>3 DEF QueueInv

LEMMA SyncsQueue ==
  ASSUME BoardInv, QueueInv, NEW s \in syncs, Gets(s) \/ Reads(s) \/ Fails(s) PROVE QueueInv'
<1>1. UNCHANGED <<card, coming, deliveries, doc, hook, settling, timers, due>>
  BY DEF Gets, Reads, Fails, SyncOnly, world
<1>2. Shaped /\ s \in SyncShapes /\ WaitedFor(s)
  BY IsShaped DEF BoardInv, BoardTypeOK, QueueInv, WaitInv
<1>3. lost \subseteq lost'
  BY DEF Gets, Reads, Fails
<1>4. CASE Gets(s)
  <2>1. s.by # NoDue /\ s.of \notin lost' => s.by.card = entries[s.of] /\ s.by.card \in Cards
    <3>1. s.by # NoDue => s.by.card \in Cards
      BY <1>2 DEF WaitedFor
    <3> QED
      BY <1>4, <3>1, NothingDue DEF Gets
  <2>2. CASE entries[s.of] \in Cards
    <3> DEFINE r == [s EXCEPT !.card = entries[s.of], !.at = "read"]
    <3>1. syncs' = (syncs \ {s}) \cup {r}
      BY <1>4, <2>2 DEF Gets, Goes
    <3>2. r.by = s.by /\ r.of = s.of /\ r.at = "read" /\ r.card = entries[s.of]
      BY <1>2 DEF SyncShapes
    <3> HIDE DEF r
    <3> QED
      BY <1>1, <1>3, <2>1, <3>1, <3>2, SyncGoes
  <2>3. CASE entries[s.of] \notin Cards
    <3>1. syncs' = syncs \ {s} /\ (s.by # NoDue => s.of \in lost')
      BY <1>4, <2>1, <2>3 DEF Gets, Ends
    <3> QED
      BY <1>1, <1>3, <3>1, SyncGoes
  <2> QED
    BY <2>2, <2>3
<1>5. CASE Reads(s)
  <2> DEFINE r == [s EXCEPT !.rev = Len(card[s.card]), !.at = "apply"]
  <2>1. syncs' = (syncs \ {s}) \cup {r} /\ s.at = "read" /\ lost' = lost
    BY <1>5 DEF Reads, Goes
  <2>2. /\ r.by = s.by /\ r.of = s.of /\ r.at = "apply" /\ r.card = s.card
        /\ r.rev = Len(card[s.card])
    BY <1>2 DEF SyncShapes
  <2> HIDE DEF r
  <2>3. s.by # NoDue /\ s.of \notin lost' => r.card = s.by.card /\ r.rev >= s.by.rev
    BY <1>2, <2>1, <2>2 DEF WaitedFor, Shaped
  <2> QED
    BY <1>1, <1>3, <2>1, <2>2, <2>3, SyncGoes
<1>6. CASE Fails(s)
  <2>1. syncs' = syncs \ {s} /\ (s.by # NoDue => s.of \in lost')
    BY <1>6 DEF Fails, Ends
  <2> QED
    BY <1>1, <1>3, <2>1, SyncGoes
<1> QED
  BY <1>4, <1>5, <1>6

----------------------------------------------------------------------------
\* A file that has a change has a time no earlier than the change's.
LEMMA AppliedTime ==
  ASSUME BoardInv, NEW o \in Observations, NEW d \in Dues, d.card \in Cards, Applied(doc[o], d)
  PROVE  doc[o].time >= card[d.card][d.rev]
<1>1. Shaped
  BY IsShaped DEF BoardInv
<1>2. card[d.card][d.rev] \in Nat /\ doc[o].time \in Nat
  BY <1>1 DEF Shaped, Applied
<1>3. CASE doc[o].seen.card = d.card /\ doc[o].seen.rev >= d.rev
  <2>1. /\ doc[o].seen.rev \in DOMAIN card[d.card] /\ doc[o].time = card[d.card][doc[o].seen.rev]
        /\ d.rev \in DOMAIN card[d.card]
    BY <1>3 DEF BoardInv, SeenInv, Applied
  <2>2. d.rev <= doc[o].seen.rev
    BY <1>1, <1>3 DEF Shaped
  <2>3. card[d.card][d.rev] <= card[d.card][doc[o].seen.rev]
    BY <2>1, <2>2 DEF BoardInv, TimesInv
  <2> QED
    BY <1>2, <2>1, <2>3
<1> QED
  BY <1>2, <1>3 DEF Applied

\* Whatever order the reads are applied in, a change the file has stays in it, and what
\* a sync of its card has read is in it afterwards.
LEMMA AppliesQueue == ASSUME BoardInv, QueueInv, NEW s \in syncs, Applies(s) PROVE QueueInv'
<1> DEFINE x == Synced(doc[s.of], s)
           time == card[s.card][s.rev]
<1>1. /\ UNCHANGED <<card, coming, deliveries, hook, settling, timers, due, lost>>
      /\ syncs' = syncs \ {s} /\ s.at = "apply"
      /\ \/ doc[s.of].card # s.card /\ doc' = doc
         \/ time <= doc[s.of].time /\ doc' = doc
         \/ doc[s.of].card = s.card /\ ~(time <= doc[s.of].time) /\ doc' = [doc EXCEPT ![s.of] = x]
  BY DEF Applies, SyncOnly, Ends, world
<1>2. /\ x.card = doc[s.of].card /\ x.time = time
      /\ x.seen.card = s.card /\ x.seen.rev = s.rev
  <2>1. x.card = doc[s.of].card /\ x.time = time /\ x.seen = Read(s)
    BY <1>1, SyncedDoc
  <2>2. Read(s).card = s.card /\ Read(s).rev = s.rev
    BY DEF Read
  <2> HIDE DEF x
  <2> QED
    BY <2>1, <2>2
<1>3. /\ s.card \in Cards /\ s.rev \in DOMAIN card[s.card] /\ WaitedFor(s) /\ s.of \in Observations
      /\ Shaped
  BY <1>1, IsShaped DEF BoardInv, SyncInv, QueueInv, WaitInv, BoardTypeOK, SyncShapes
<1> HIDE DEF x
<1>4. time \in Nat /\ s.rev \in Nat /\ doc[s.of].time \in Nat
  BY <1>3 DEF Shaped
<1>5. \A o \in Observations : /\ o # s.of => doc'[o] = doc[o]
                             /\ doc'[o].card = doc[o].card
  BY <1>1, <1>2 DEF BoardInv, BoardTypeOK
<1>6. doc' = doc \/ (doc'[s.of] = x /\ doc[s.of].card = s.card /\ ~(time <= doc[s.of].time))
  BY <1>1, <1>3 DEF BoardInv, BoardTypeOK
<1>7. OrderInv' /\ DueInv'
  BY <1>1, <1>5, OrderKept, DueKept DEF QueueInv
<1>8. WaitInv'
  <2>1. \A q \in syncs' : WaitedFor(q)'
    BY <1>1 DEF QueueInv, WaitInv, WaitedFor, NoDue
  <2> QED
    BY <1>1, <2>1 DEF QueueInv, WaitInv, NoDue
<1>9. CarriedInv'
  <2> SUFFICES ASSUME NEW o \in Observations, o \notin lost, due[o] # NoDue PROVE Carried(o)'
    BY <1>1 DEF CarriedInv, NoDue
  <2> DEFINE d == due[o]
             c == d.card
  <2>1. /\ Carried(o) /\ c \in Cards /\ doc[o].card = c /\ d \in Dues /\ d.rev \in Nat /\ 0 < d.rev
        /\ \A k \in DOMAIN card[c] : card[c][k] \in Nat
        /\ DOMAIN card[c] = 1 .. Len(card[c]) /\ Len(card[c]) \in Nat
    BY <1>3 DEF Shaped, QueueInv, CarriedInv, DueInv
  <2>2. \A j, k \in DOMAIN card[c] : j <= k => card[c][j] <= card[c][k]
    BY <2>1 DEF BoardInv, TimesInv
  <2> HIDE DEF d
  <2>3. CASE Ahead(settling[o], d)
    BY <1>1, <2>3 DEF Carried, Ahead, d
  <2>4. CASE \E q \in syncs' : q.of = o /\ Ahead(q.by, d)
    BY <1>1, <2>4 DEF Carried, Ahead, d
  <2>5. CASE Applied(doc[o], d)
    <3>1. CASE doc'[o] = doc[o]
      BY <1>1, <2>5, <3>1 DEF Carried, Applied, d
    <3>2. CASE doc'[o] # doc[o]
      <4>1. o = s.of /\ doc'[o] = x /\ s.card = c /\ ~(time <= doc[o].time)
        BY <1>5, <1>6, <2>1, <3>2
      <4>2. doc[o].time >= card[c][d.rev] /\ d.rev \in DOMAIN card[c]
        BY <2>1, <2>5, AppliedTime DEF Applied
      <4>3. ~(s.rev <= d.rev)
        BY <1>3, <1>4, <2>1, <2>2, <4>1, <4>2
      <4>4. s.rev >= d.rev
        BY <1>4, <2>1, <4>3
      <4> QED
        BY <1>1, <1>2, <4>1, <4>2, <4>4 DEF Carried, Applied, d
    <3> QED
      BY <3>1, <3>2
  <2>6. CASE s.of = o /\ Ahead(s.by, d)
    <3>1. s.by # NoDue
      BY <2>1, <2>6, NothingDue DEF Ahead
    <3>2. s.card = c /\ s.rev >= s.by.rev /\ s.by.rev >= d.rev /\ s.by.rev \in Nat
      BY <1>1, <1>3, <2>6, <3>1 DEF WaitedFor, Ahead, Shaped
    <3>3. s.rev >= d.rev /\ d.rev \in DOMAIN card[c] /\ s.rev \in DOMAIN card[c]
      BY <1>3, <1>4, <2>1, <3>2
    <3>4. card[c][d.rev] <= time /\ card[c][d.rev] \in Nat
      BY <1>4, <2>1, <2>2, <3>2, <3>3
    <3>5. CASE doc'[o] = x
      BY <1>1, <1>2, <3>2, <3>3, <3>5 DEF Carried, Applied, d
    <3>6. CASE doc' = doc
      <4>1. time <= doc[o].time
        BY <1>1, <1>2, <1>3, <2>1, <2>6, <3>2, <3>6 DEF BoardInv, BoardTypeOK
      <4>2. CASE doc[o].time = card[c][d.rev]
        BY <1>1, <3>3, <3>6, <4>2 DEF Carried, Applied, d
      <4>3. CASE doc[o].time # card[c][d.rev]
        <5>1. doc[o].time > card[c][d.rev] /\ doc[o].time \in Nat
          BY <1>4, <2>6, <3>4, <4>1, <4>3
        <5>2. CASE doc[o].seen.card # c
          BY <1>1, <3>3, <3>6, <5>1, <5>2 DEF Carried, Applied, d
        <5>3. CASE doc[o].seen.card = c
          <6>1. doc[o].seen.rev \in DOMAIN card[c] /\ doc[o].time = card[c][doc[o].seen.rev]
            BY <2>1, <5>3 DEF BoardInv, SeenInv
          <6>2. ~(doc[o].seen.rev <= d.rev)
            BY <2>1, <2>2, <3>3, <3>4, <5>1, <6>1
          <6>3. doc[o].seen.rev >= d.rev
            BY <2>1, <6>1, <6>2
          <6> QED
            BY <1>1, <3>3, <3>6, <5>3, <6>3 DEF Carried, Applied, d
        <5> QED
          BY <5>2, <5>3
      <4> QED
        BY <4>2, <4>3
    <3> QED
      BY <1>6, <2>6, <3>5, <3>6
  <2>7. \A q \in syncs : q \in syncs' \/ q = s
    BY <1>1
  <2> QED
    BY <2>1, <2>3, <2>4, <2>5, <2>6, <2>7 DEF Carried, d
<1> QED
  BY <1>7, <1>8, <1>9 DEF QueueInv

----------------------------------------------------------------------------
LEMMA NextQueue == BoardInv /\ QueueInv /\ [BoardNext]_boardVars => QueueInv'
<1> SUFFICES ASSUME BoardInv, QueueInv, [BoardNext]_boardVars PROVE QueueInv'
  OBVIOUS
<1>1. CASE UNCHANGED boardVars
  BY <1>1, QueueKept DEF boardVars
<1>2. CASE Tick \/ UpdateSteps
  <2>1. UNCHANGED <<card, coming, deliveries, doc, hook, settling, timers, syncs, due, lost>>
    BY <1>2 DEF Tick, UpdateSteps, UpdateStarts, Pops, Unmaps, Puts, Maps, Indexing, world
  <2> QED
    BY <2>1, QueueKept
<1>3. CASE \E c \in Cards : Announces(c) \/ Commits(c)
  BY <1>3, AnnouncesQueue, CommitsQueue
<1>4. CASE \E o \in Observations : Unlinks(o) \/ Reopens(o) \/ \E c \in Cards : Links(o, c)
  BY <1>4, SkillsQueue
<1>5. CASE Lost \/ HookLooks \/ HookQueues \/ Stops
  BY <1>5, LooksQueue, QueuesQueue, StopsQueue
<1>6. CASE \E t \in timers : Elapses(t) \/ Settled(t)
  BY <1>6, TimersQueue
<1>7. CASE \E o \in Observations : Scans(o)
  BY <1>7, ScansQueue
<1>8. CASE \E s \in syncs : SyncSteps(s)
  BY <1>8, SyncsQueue, AppliesQueue DEF SyncSteps
<1> QED
  BY <1>1, <1>2, <1>3, <1>4, <1>5, <1>6, <1>7, <1>8 DEF BoardNext

\* What is due of an observation is waited for, on its way in a sync, or in the file.
THEOREM QueueInvHolds == BoardSpec => []QueueInv
  BY InitQueue, NextQueue, BoardSpecInv, PTL DEF BoardSpec

\* "One read then covers both" (sync_later): once no sync of an observation waits or
\* runs, its file has the newest change that was queued for it, whichever waits were
\* restarted, whatever order the reads were applied in and whoever linked the card.
THEOREM QueuedCorrect == BoardSpec => []QueuedIsApplied
<1>1. QueueInv => QueuedIsApplied
  <2> SUFFICES ASSUME QueueInv, NEW o \in Observations, settling[o] = NoDue,
                      \A t \in timers \cup syncs : t.of = o => t.by = NoDue,
                      due[o] # NoDue, o \notin lost
               PROVE  \/ doc[o].seen.card = due[o].card /\ doc[o].seen.rev >= due[o].rev
                      \/ doc[o].time = card[due[o].card][due[o].rev]
                      \/ /\ doc[o].time > card[due[o].card][due[o].rev]
                         /\ doc[o].seen.card # due[o].card
    BY DEF QueuedIsApplied
  <2>1. due[o].card \in Cards /\ Carried(o)
    BY DEF QueueInv, DueInv, CarriedInv
  <2>2. ~Ahead(NoDue, due[o])
    BY <2>1, NothingDue DEF Ahead
  <2>3. Applied(doc[o], due[o])
    BY <2>1, <2>2 DEF Carried
  <2> QED
    BY <2>3 DEF Applied
<1> QED
  BY <1>1, QueueInvHolds, PTL

----------------------------------------------------------------------------
(* The posts.                                                              *)

\* The index is at a commit of main, and the job in hand at none before it.
TipInv ==
    /\ seenAt \in 1 .. Tip
    /\ job.at # "idle" => seenAt <= job.tip /\ job.tip <= Tip

\* The job of a write is of a call that waits for it.
JobInv ==
    /\ job.at \in {"taken", "pushed"} => job.for # Old
    /\ job.at # "idle" /\ job.for # Old => call[job.for].at = "queued"
    /\ job.at = "pushed" => landedAt[job.for] = job.tip
    /\ \A c \in Calls : call[c].at = "queued" => call[c].ask.kind # "match"

\* Between updates the entries are main as it was seen; in one, those behind are to be done.
PostsIndexInv ==
    /\ taking.on =>
        /\ job.at \in {"synced", "pushed"}
        /\ \A i \in Ids \ taking.left : entryOf[i] = main[job.tip][i]
    /\ ~taking.on => entryOf = main[seenAt] /\ taking.popped = Old

\* What was answered as created is on main, and in the index unless it could not be taken in.
LandedInv ==
    \A c \in Calls :
        /\ landedAt[c] \in 0 .. Tip
        /\ call[c].at \in {"new", "embedding", "matching"} => landedAt[c] = 0
        /\ call[c].at = "created" =>
            call[c].ask.kind = "post" /\ landedAt[c] # 0 /\ (c \notin unheard => landedAt[c] <= seenAt)

ToldInv ==
    \A c \in Calls :
        /\ call[c].indexed \in 1 .. seenAt
        /\ \A d \in call[c].told : call[d].at = "created" /\ d \notin unheard

Unlike(d, k) == main[k][d] = NoFile \/ main[k][d].text # call[d].ask.text
Met(c, top) ==
    \A d \in call[c].told : call[d].ask.text = call[c].ask.text =>
        \E k \in landedAt[d] .. top : Unlike(d, k)
Before(c) == IF landedAt[c] = 0 THEN Tip ELSE landedAt[c] - 1
\* A post that goes on met no observation of its text that was there before it.
MetInv ==
    \A c \in Calls :
        call[c].ask.kind = "post" /\ ~call[c].ask.force /\ call[c].at \in {"queued", "created"} =>
            Met(c, Before(c))

PostsInv == /\ PostsTypeOK /\ TipInv /\ JobInv /\ PostsIndexInv /\ LandedInv /\ ToldInv
       /\ MetInv /\ MatchIsOfOneCommit

----------------------------------------------------------------------------
\* main only grows, as a step sees it.
Grown == Tip <= Tip' /\ Tip' \in Nat /\ \A k \in 1 .. Tip : main'[k] = main[k]

LEMMA Grows ==
  ASSUME PostsTypeOK, NEW x \in [Ids -> Files], main' = Append(main, x)
  PROVE  /\ Grown /\ main' \in Seq([Ids -> Files])
         /\ Tip' = Tip + 1 /\ main'[Tip + 1] = x
<1>1. main \in Seq([Ids -> Files]) /\ Tip \in Nat
  BY DEF PostsTypeOK, Tip
<1>2. main' \in Seq([Ids -> Files]) /\ Len(main') = Len(main) + 1
  BY <1>1
<1>3. main'[Len(main) + 1] = x /\ \A k \in 1 .. Len(main) : main'[k] = main[k]
  BY <1>1
<1> QED
  BY <1>1, <1>2, <1>3 DEF Grown, Tip

LEMMA Stays == ASSUME PostsTypeOK, main' = main PROVE Grown /\ Tip' = Tip
<1>1. Tip \in Nat
  BY DEF PostsTypeOK, Tip
<1> QED
  BY <1>1 DEF Grown, Tip

LEMMA Types ==
  ASSUME PostsTypeOK, TipInv
  PROVE  /\ Tip \in Nat \ {0} /\ seenAt \in Nat /\ job.tip \in Nat /\ job.for \in Ids
         /\ \A k \in 1 .. Tip : main[k] \in [Ids -> Files]
         /\ \A c \in Calls : landedAt[c] \in Nat /\ call[c] \in CallShapes /\ call[c].indexed \in Nat
         /\ \A c \in Calls : call[c].told \subseteq Calls /\ call[c].ask \in CallsAsked
<1>1. Tip \in Nat /\ seenAt \in 1 .. Tip
  BY DEF PostsTypeOK, TipInv, Tip
<1>2. \A k \in 1 .. Tip : main[k] \in [Ids -> Files]
  BY DEF PostsTypeOK, Tip
<1>3. \A c \in Calls : call[c] \in CallShapes /\ landedAt[c] \in Nat
  BY DEF PostsTypeOK
<1> QED
  BY <1>1, <1>2, <1>3 DEF PostsTypeOK, CallShapes

Ats == {"new", "embedding", "matching", "matched", "candidates", "queued", "created", "reacted",
        "absent", "failed"}

\* A step of one call that leaves what it asked, found and was told.
LEMMA CallMoves ==
  ASSUME PostsTypeOK, NEW c \in Calls, NEW at \in Ats,
         call' = [call EXCEPT ![c].at = at]
  PROVE  /\ call' \in [Calls -> CallShapes]
         /\ \A d \in Calls :
                /\ call'[d].ask = call[d].ask /\ call'[d].told = call[d].told
                /\ call'[d].found = call[d].found /\ call'[d].indexed = call[d].indexed
                /\ call'[d].at = IF d = c THEN at ELSE call[d].at
<1>1. call[c] \in CallShapes
  BY DEF PostsTypeOK
<1>2. [call[c] EXCEPT !.at = at] \in CallShapes
  BY <1>1 DEF CallShapes, Ats
<1> QED
  BY <1>1, <1>2 DEF PostsTypeOK, CallShapes

\* What was found in one commit was, whatever is pushed after it.
LEMMA MatchKept ==
  ASSUME PostsInv, Grown,
         \A c \in Calls : call'[c].at \in {"matched", "candidates"} =>
            /\ call[c].at = call'[c].at /\ call[c].ask = call'[c].ask
            /\ call[c].found = call'[c].found /\ call[c].indexed = call'[c].indexed
  PROVE  MatchIsOfOneCommit'
<1> SUFFICES ASSUME NEW c \in Calls, call'[c].at \in {"matched", "candidates"}
             PROVE  \E k \in call'[c].indexed .. Tip' : call'[c].found = Like(main'[k], call'[c].ask.text)
  BY DEF MatchIsOfOneCommit
<1>1. PICK k \in call[c].indexed .. Tip : call[c].found = Like(main[k], call[c].ask.text)
  BY DEF PostsInv, MatchIsOfOneCommit
<1>2. call[c].indexed \in Nat \ {0} /\ Tip \in Nat /\ Tip' \in Nat /\ Tip <= Tip'
  BY Types DEF PostsInv, ToldInv, Grown
<1>3. k \in 1 .. Tip /\ k \in call[c].indexed .. Tip'
  BY <1>1, <1>2
<1> QED
  BY <1>1, <1>3 DEF Grown

\* A post that met no observation of its text did not, whatever lands after it.
LEMMA MetKept ==
  ASSUME PostsInv, Grown,
         \A c \in Calls :
            /\ call'[c].ask = call[c].ask
            /\ call'[c].at \in {"queued", "created"} =>
                call[c].at \in {"queued", "created"} /\ call'[c].told = call[c].told
            /\ call[c].at = "created" => landedAt'[c] = landedAt[c]
            /\ Before(c)' \in Nat /\ Before(c) <= Before(c)'
  PROVE  MetInv'
<1> SUFFICES ASSUME NEW c \in Calls, call'[c].at \in {"queued", "created"},
                    call'[c].ask.kind = "post", ~call'[c].ask.force,
                    NEW d \in call'[c].told, call'[d].ask.text = call'[c].ask.text
             PROVE  \E k \in landedAt'[d] .. Before(c)' : Unlike(d, k)'
  BY DEF MetInv, Met
<1>1. d \in call[c].told /\ d \in Calls /\ call[d].at = "created"
  BY Types DEF PostsInv, ToldInv
<1>2. PICK k \in landedAt[d] .. Before(c) : Unlike(d, k)
  BY <1>1 DEF PostsInv, MetInv, Met
<1>3. landedAt[d] \in Nat \ {0} /\ landedAt'[d] = landedAt[d]
  BY <1>1, Types DEF PostsInv, LandedInv
<1>4. Before(c) \in Nat /\ Before(c) <= Tip
  BY Types DEF PostsInv, LandedInv, Before
<1>5. k \in 1 .. Tip /\ k \in landedAt'[d] .. Before(c)'
  BY <1>2, <1>3, <1>4, Types DEF PostsInv
<1>6. main'[k] = main[k] /\ call'[d].ask = call[d].ask
  BY <1>1, <1>5 DEF Grown
<1> QED
  BY <1>2, <1>5, <1>6 DEF Unlike

LEMMA BeforeKept ==
  ASSUME PostsInv, Grown, NEW c \in Calls, landedAt'[c] = landedAt[c]
  PROVE  Before(c)' \in Nat /\ Before(c) <= Before(c)'
  BY Types DEF PostsInv, LandedInv, Grown, Before

LEMMA PostsInitInv == PostsInit => PostsInv
<1> SUFFICES ASSUME PostsInit PROVE PostsInv
  OBVIOUS
<1> USE PostsAssumption
<1>1. PICK t \in Texts :
        main = << [i \in Ids |-> IF i = Old THEN Observed(t) ELSE NoFile] >> /\ cached = {t}
  BY DEF PostsInit
<1>2. [i \in Ids |-> IF i = Old THEN Observed(t) ELSE NoFile] \in [Ids -> Files]
  BY DEF Observed, Files
<1>3. main \in Seq([Ids -> Files]) /\ Tip = 1 /\ entryOf = main[1] /\ main[1] \in [Ids -> Files]
  BY <1>1, <1>2 DEF PostsInit, Tip
<1>4. \A a \in CallsAsked : Unmade(a) \in CallShapes
  BY DEF Unmade, CallShapes
<1>5. call \in [Calls -> CallShapes]
  BY <1>4 DEF PostsInit
<1>6. \A c \in Calls : call[c].at = "new" /\ call[c].indexed = 1 /\ call[c].told = {}
  BY DEF PostsInit, Unmade
<1>7. PostsTypeOK
  BY <1>1, <1>3, <1>5 DEF PostsInit, PostsTypeOK, NoJob, NoTaking, Ids
<1>8. TipInv /\ JobInv /\ PostsIndexInv
  BY <1>3, <1>6 DEF PostsInit, TipInv, JobInv, PostsIndexInv, NoJob, NoTaking
<1>9. LandedInv /\ ToldInv /\ MetInv /\ MatchIsOfOneCommit
  BY <1>3, <1>6 DEF PostsInit, LandedInv, ToldInv, MetInv, MatchIsOfOneCommit
<1> QED
  BY <1>7, <1>8, <1>9 DEF PostsInv

----------------------------------------------------------------------------
LEMMA PushedInv == ASSUME PostsInv, NEW i \in Calls, Pushed(i) PROVE PostsInv'
<1> USE DEF PostsInv
<1>1. PICK o \in {Observed(t) : t \in Texts} \cup {NoFile} :
        main' = Append(main, [main[Tip] EXCEPT ![i] = o])
  BY DEF Pushed
<1>2. /\ UNCHANGED <<entryOf, seenAt, cached, taking, unheard, job, call, landedAt, troubles>>
      /\ pushes' \in Nat
  BY DEF Pushed, entryVars, PostsTypeOK
<1>3. [main[Tip] EXCEPT ![i] = o] \in [Ids -> Files]
  <2>1. o \in Files
    <3>1. \A t \in Texts : [text |-> t, by |-> {}] \in [text : Texts, by : SUBSET Calls]
      OBVIOUS
    <3> QED
      BY <3>1 DEF Observed, Files
  <2>2. main[Tip] \in [Ids -> Files]
    BY Types
  <2> QED
    BY <2>1, <2>2
<1>4. Grown /\ main' \in Seq([Ids -> Files]) /\ Tip' = Tip + 1
  BY <1>1, <1>3, Grows
<1>5. PostsTypeOK'
  BY <1>2, <1>4 DEF PostsTypeOK
<1>6. TipInv' /\ JobInv'
  BY <1>2, <1>4, Types DEF TipInv, JobInv
<1>7. PostsIndexInv'
  <2>1. main'[seenAt] = main[seenAt] /\ (taking.on => main'[job.tip] = main[job.tip])
    BY <1>4, Types DEF Grown, TipInv, PostsIndexInv
  <2> QED
    BY <1>2, <2>1 DEF PostsIndexInv
<1>8. LandedInv' /\ ToldInv'
  BY <1>2, <1>4, Types DEF LandedInv, ToldInv
<1>9. MetInv' /\ MatchIsOfOneCommit'
  BY <1>2, <1>4, MetKept, MatchKept, BeforeKept
<1> QED
  BY <1>5, <1>6, <1>7, <1>8, <1>9

LEMMA TakesInv == ASSUME PostsInv, TakesPull \/ \E c \in Calls : TakesWrite(c) PROVE PostsInv'
<1> USE DEF PostsInv
<1>1. PICK for \in Ids :
        /\ job.at = "idle" /\ job' = [at |-> "synced", for |-> for, tip |-> Tip]
        /\ for # Old => call[for].at = "queued"
        /\ UNCHANGED <<main, landedAt, entryOf, seenAt, cached, taking, unheard, call, pushes, troubles>>
  BY DEF TakesPull, TakesWrite, entryVars, Ids
<1>2. Grown /\ Tip' = Tip
  BY <1>1, Stays
<1>3. PostsTypeOK'
  BY <1>1, Types DEF PostsTypeOK
<1>4. TipInv' /\ JobInv' /\ PostsIndexInv'
  BY <1>1, <1>2, Types DEF TipInv, JobInv, PostsIndexInv
<1>5. LandedInv' /\ ToldInv'
  BY <1>1, <1>2 DEF LandedInv, ToldInv
<1>6. MetInv' /\ MatchIsOfOneCommit'
  BY <1>1, <1>2, MetKept, MatchKept, BeforeKept
<1> QED
  BY <1>3, <1>4, <1>5, <1>6

\* An update's steps on the entries: what is not to be done any more is done.
LEMMA EntriesInv ==
  ASSUME PostsInv, UpdateFetches \/ (\E i \in Calls : PopsEntry(i)) \/ PutsEntry
  PROVE  PostsInv'
<1> USE DEF PostsInv
<1>1. UNCHANGED <<main, job, landedAt, seenAt, unheard, call, pushes, troubles>>
  BY DEF UpdateFetches, PopsEntry, PutsEntry, queueVars
<1>2. Grown /\ Tip' = Tip
  BY <1>1, Stays
<1>3. CASE UpdateFetches
  <2>1. /\ taking' = [on |-> TRUE, left |-> Changed, popped |-> Old] /\ ~taking.on
        /\ job.at \in {"synced", "pushed"} /\ entryOf' = entryOf /\ cached' = cached \cup ToEmbed
    BY <1>3 DEF UpdateFetches
  <2>2. job.tip \in 1 .. Tip /\ seenAt \in 1 .. Tip
    BY <2>1, Types DEF TipInv
  <2>3. ToEmbed \subseteq Texts
    <3>1. \A i \in Ids : main[job.tip][i] \in Files
      BY <2>2, Types
    <3> QED
      BY <3>1 DEF ToEmbed, Changed, Files
  <2>4. PostsTypeOK'
    BY <1>1, <2>1, <2>3 DEF PostsTypeOK, Changed, Ids
  <2>5. PostsIndexInv'
    BY <1>1, <2>1 DEF PostsIndexInv, Changed
  <2> QED
    BY <2>4, <2>5, <1>1, <1>2, MetKept, MatchKept, BeforeKept DEF TipInv, JobInv, LandedInv, ToldInv
<1>4. ASSUME NEW i \in Calls, PopsEntry(i) PROVE PostsInv'
  <2>1. /\ taking.on /\ i \in taking.left /\ taking' = [taking EXCEPT !.popped = i]
        /\ entryOf' = [entryOf EXCEPT ![i] = NoFile] /\ cached' = cached
    BY <1>4 DEF PopsEntry
  <2>2. PostsTypeOK'
    BY <1>1, <2>1 DEF PostsTypeOK, Files, Ids
  <2>3. PostsIndexInv'
    BY <1>1, <2>1 DEF PostsIndexInv, PostsTypeOK
  <2> QED
    BY <2>2, <2>3, <1>1, <1>2, MetKept, MatchKept, BeforeKept DEF TipInv, JobInv, LandedInv, ToldInv
<1>5. CASE PutsEntry
  <2> DEFINE p == taking.popped
  <2>1. /\ p # Old /\ taking.on /\ taking' = [taking EXCEPT !.left = @ \ {p}, !.popped = Old]
        /\ entryOf' = [entryOf EXCEPT ![p] = main[job.tip][p]] /\ cached' = cached
    BY <1>5 DEF PutsEntry, PostsIndexInv
  <2>2. p \in Ids /\ Old \in Ids /\ main[job.tip][p] \in Files
    BY <2>1, Types DEF PostsTypeOK, PostsIndexInv, TipInv, Ids
  <2>3. PostsTypeOK'
    BY <1>1, <2>1, <2>2 DEF PostsTypeOK
  <2>4. PostsIndexInv'
    <3>1. taking'.on /\ taking'.left = taking.left \ {p}
      BY <2>1 DEF PostsTypeOK
    <3>2. \A i \in Ids : entryOf'[i] = IF i = p THEN main[job.tip][p] ELSE entryOf[i]
      BY <2>1, <2>2 DEF PostsTypeOK
    <3> QED
      BY <1>1, <3>1, <3>2, <2>1 DEF PostsIndexInv
  <2> QED
    BY <2>3, <2>4, <1>1, <1>2, MetKept, MatchKept, BeforeKept DEF TipInv, JobInv, LandedInv, ToldInv
<1> QED
  BY <1>3, <1>4, <1>5

\* The listeners' turn ends: the write's caller is answered, or its edit is next.
LEMMA HeardInv == ASSUME PostsInv, UpdateFails \/ UpdateEnds PROVE PostsInv'
<1> USE DEF PostsInv
<1>1. /\ job.at \in {"synced", "pushed"} /\ ListenersHeard
      /\ taking'.on = FALSE /\ taking' \in [on : BOOLEAN, left : SUBSET Ids, popped : Ids]
      /\ taking'.popped = Old
      /\ UNCHANGED <<main, landedAt, cached, entryOf, pushes>> /\ troubles' \in Nat
      /\ seenAt' \in {seenAt, job.tip} /\ entryOf = main[seenAt']
      /\ unheard \subseteq unheard'
      /\ unheard' \subseteq unheard \cup (IF job.at = "pushed" THEN {job.for} ELSE {})
      /\ job.at = "pushed" /\ job.for \notin unheard' => seenAt' = job.tip
  <2>1. CASE UpdateFails
    BY <2>1 DEF UpdateFails, Failing, PostsIndexInv, PostsTypeOK
  <2>2. CASE UpdateEnds
    <3>1. /\ taking.on /\ taking.left = {} /\ taking' = NoTaking /\ seenAt' = job.tip
          /\ job.at \in {"synced", "pushed"}
      BY <2>2 DEF UpdateEnds, PostsIndexInv
    <3>2. main[job.tip] \in [Ids -> Files]
      BY <3>1, Types DEF TipInv
    <3>3. entryOf = main[job.tip]
      BY <3>1, <3>2 DEF PostsIndexInv, PostsTypeOK
    <3> QED
      BY <2>2, <3>1, <3>3 DEF UpdateEnds, NoTaking, PostsTypeOK, Ids
  <2> QED
    BY <2>1, <2>2
<1>2. Grown /\ Tip' = Tip
  BY <1>1, Stays
<1>3. seenAt' \in 1 .. Tip /\ seenAt <= seenAt'
  BY <1>1, Types DEF TipInv
<1>4. /\ call' \in [Calls -> CallShapes]
      /\ \A d \in Calls :
            /\ call'[d].ask = call[d].ask /\ call'[d].told = call[d].told
            /\ call'[d].found = call[d].found /\ call'[d].indexed = call[d].indexed
            /\ \/ call'[d].at = call[d].at
               \/ /\ job.at = "pushed" /\ d = job.for /\ call[d].at = "queued"
                  /\ call'[d].at \in {"created", "reacted"}
                  /\ call'[d].at = "created" => call[d].ask.kind = "post"
  <2>1. CASE job.at = "pushed"
    <3>1. job.for \in Calls /\ call[job.for].at = "queued"
      BY <2>1, Types DEF JobInv, Ids
    <3> DEFINE at == Done(call[job.for].ask.kind)
    <3>2. /\ at \in {"created", "reacted"} /\ at \in Ats /\ call' = [call EXCEPT ![job.for].at = at]
          /\ at = "created" => call[job.for].ask.kind = "post"
      BY <1>1, <2>1 DEF ListenersHeard, Done, Ats
    <3> HIDE DEF at
    <3>3. /\ call' \in [Calls -> CallShapes]
          /\ \A d \in Calls :
                /\ call'[d].ask = call[d].ask /\ call'[d].told = call[d].told
                /\ call'[d].found = call[d].found /\ call'[d].indexed = call[d].indexed
                /\ call'[d].at = IF d = job.for THEN at ELSE call[d].at
      <4>1. PostsTypeOK
        OBVIOUS
      <4> HIDE DEF PostsInv
      <4> QED
        BY <3>1, <3>2, <4>1, CallMoves, ZenonT(40)
    <3> QED
      BY <2>1, <3>1, <3>2, <3>3
  <2>2. CASE job.at # "pushed"
    BY <1>1, <2>2 DEF ListenersHeard, PostsTypeOK
  <2> QED
    BY <2>1, <2>2
<1>5. /\ job' \in [at : {"idle", "synced", "taken", "pushed"}, for : Ids, tip : Nat]
      /\ \/ job'.at = "idle"
         \/ /\ job'.at = "taken" /\ job.at = "synced" /\ job.for # Old /\ call' = call
            /\ job'.for = job.for /\ job'.tip = job.tip
  BY <1>1 DEF ListenersHeard, NoJob, PostsTypeOK, Ids
<1>6. PostsTypeOK'
  <2>1. unheard' \subseteq Calls
    BY <1>1, Types DEF PostsTypeOK, JobInv, Ids
  <2>2. seenAt' \in Nat
    BY <1>3
  <2> QED
    BY <1>1, <1>4, <1>5, <2>1, <2>2 DEF PostsTypeOK
<1>7. TipInv'
  <2>1. seenAt <= job.tip /\ job.tip <= Tip /\ seenAt \in Nat /\ job.tip \in Nat
    BY <1>1, Types DEF TipInv
  <2>2. seenAt' <= job.tip
    BY <1>1, <2>1
  <2> QED
    BY <1>2, <1>3, <1>5, <2>1, <2>2 DEF TipInv
<1>8. JobInv'
  BY <1>1, <1>4, <1>5 DEF JobInv
<1>9. PostsIndexInv'
  BY <1>1 DEF PostsIndexInv
<1>10. LandedInv'
  <2> SUFFICES ASSUME NEW c \in Calls, call'[c].at = "created"
               PROVE  /\ call'[c].ask.kind = "post" /\ landedAt[c] # 0
                      /\ c \notin unheard' => landedAt[c] <= seenAt'
    BY <1>1, <1>2, <1>4 DEF LandedInv
  <2>1. CASE call[c].at = "created"
    BY <1>1, <1>3, <1>4, <2>1, Types DEF LandedInv
  <2>2. CASE call[c].at # "created"
    <3>1. job.at = "pushed" /\ c = job.for /\ landedAt[c] = job.tip /\ job.tip # 0
      BY <1>4, <2>2, Types DEF JobInv, TipInv
    <3> QED
      BY <1>1, <1>4, <2>2, <3>1, Types
  <2> QED
    BY <2>1, <2>2
<1>11. ToldInv'
  <2>1. \A c \in Calls : call'[c].indexed <= seenAt'
    BY <1>3, <1>4, Types DEF ToldInv
  <2>2. \A c \in Calls : call[c].at = "created" => call'[c].at = "created"
    BY <1>4
  <2>3. \A c \in Calls : call[c].at = "created" /\ c \notin unheard => c \notin unheard'
    BY <1>1 DEF JobInv
  <2> QED
    BY <1>4, <2>1, <2>2, <2>3, Types DEF ToldInv
<1>12. MetInv' /\ MatchIsOfOneCommit'
  BY <1>1, <1>2, <1>4, MetKept, MatchKept, BeforeKept
<1> QED
  BY <1>6, <1>7, <1>8, <1>9, <1>10, <1>11, <1>12

\* A write that is refused, rejected or failed lands nothing, or fails having landed.
LEMMA LandsShape ==
  ASSUME PostsInv, NEW c \in Calls, job.at = "taken", job.for = c, ~Refused(c), job.tip = Tip, Lands(c)
  PROVE  /\ Grown /\ main' \in Seq([Ids -> Files]) /\ Tip' = Tip + 1
         /\ landedAt' \in [Calls -> Nat]
         /\ \A d \in Calls : landedAt'[d] = IF d = c THEN Tip + 1 ELSE landedAt[d]
<1> USE DEF PostsInv
<1>1. call[c].ask \in CallsAsked /\ call[c].at = "queued" /\ main[Tip] \in [Ids -> Files]
  BY Types, PostsAssumption DEF JobInv
<1>2. call[c].ask.text \in Texts /\ call[c].ask.of \in Ids /\ call[c].ask.kind \in {"post", "react"}
  <2>1. (CHOOSE t \in Texts : TRUE) \in Texts
    BY PostsAssumption
  <2>2. call[c].ask.kind # "match"
    BY <1>1 DEF JobInv
  <2> QED
    BY <1>1, <2>1, <2>2 DEF CallsAsked, Ids
<1>3. File(c) \in Files /\ Target(c) \in Ids
  <2>1. CASE call[c].ask.kind = "post"
    BY <1>2, <2>1 DEF File, Target, Files, Ids
  <2>3. CASE call[c].ask.kind = "react"
    <3>1. main[Tip][Target(c)] # NoFile /\ Target(c) \in Ids
      BY <1>2, <2>3 DEF Refused, Target
    <3>2. main[Tip][Target(c)] \in [text : Texts, by : SUBSET Calls]
      BY <1>1, <3>1 DEF Files
    <3>3. [main[Tip][Target(c)] EXCEPT !.by = @ \cup {c}] \in [text : Texts, by : SUBSET Calls]
      BY <3>2
    <3> QED
      BY <2>3, <3>1, <3>3 DEF File, Files
  <2> QED
    BY <1>2, <2>1, <2>3
<1>4. [main[Tip] EXCEPT ![Target(c)] = File(c)] \in [Ids -> Files]
  BY <1>1, <1>3
<1>5. main' = Append(main, [main[Tip] EXCEPT ![Target(c)] = File(c)])
  BY DEF Lands
<1>6. landedAt' = [landedAt EXCEPT ![c] = Tip + 1] /\ landedAt \in [Calls -> Nat] /\ Tip + 1 \in Nat
  BY Types DEF Lands, PostsTypeOK
<1> QED
  BY <1>4, <1>5, <1>6, Grows

\* A step of the worker on a write: its job moves, and its call may be told that it failed.
LEMMA WriteInv ==
  ASSUME PostsInv, NEW c \in Calls,
         EditRefused(c) \/ PushLands(c) \/ PushRejected(c) \/ EditFails(c)
  PROVE  PostsInv'
<1> USE DEF PostsInv
<1>1. /\ job.at = "taken" /\ job.for = c /\ call[c].at = "queued" /\ ~taking.on
      /\ UNCHANGED <<entryOf, seenAt, cached, taking, unheard, pushes>> /\ troubles' \in Nat
      /\ c # Old /\ Old \in Ids /\ c \in Ids
  BY PostsAssumption DEF EditRefused, PushLands, PushRejected, EditFails, JobInv, PostsIndexInv, entryVars,
     Failing, PostsTypeOK, Ids
<1>2. /\ Grown /\ main' \in Seq([Ids -> Files]) /\ landedAt' \in [Calls -> Nat]
      /\ \A d \in Calls : landedAt'[d] \in {landedAt[d], IF d = c THEN Tip' ELSE landedAt[d]}
      /\ PushLands(c) => Tip' = Tip + 1 /\ landedAt'[c] = Tip + 1
      /\ \/ Tip' = Tip /\ landedAt' = landedAt
         \/ Tip' = Tip + 1 /\ landedAt'[c] = Tip + 1
  <2>1. CASE UNCHANGED <<main, landedAt>> /\ ~PushLands(c)
    BY <2>1, Stays DEF PostsTypeOK
  <2>2. CASE ~Refused(c) /\ job.tip = Tip /\ Lands(c)
    BY <1>1, <2>2, LandsShape
  <2> QED
    BY <2>1, <2>2 DEF EditRefused, PushLands, PushRejected, EditFails
<1>3. /\ call' \in [Calls -> CallShapes]
      /\ \A d \in Calls :
            /\ call'[d].ask = call[d].ask /\ call'[d].told = call[d].told
            /\ call'[d].found = call[d].found /\ call'[d].indexed = call[d].indexed
            /\ \/ call'[d].at = call[d].at
               \/ d = c /\ call'[d].at \in {"absent", "failed"} /\ job' = NoJob
  <2>1. CASE EditRefused(c) \/ EditFails(c)
    <3>1. PICK at \in {"absent", "failed"} :
            at \in Ats /\ call' = [call EXCEPT ![c].at = at] /\ job' = NoJob
      BY <2>1 DEF EditRefused, EditFails, Ats
    <3>2. /\ call' \in [Calls -> CallShapes]
          /\ \A d \in Calls :
                /\ call'[d].ask = call[d].ask /\ call'[d].told = call[d].told
                /\ call'[d].found = call[d].found /\ call'[d].indexed = call[d].indexed
                /\ call'[d].at = IF d = c THEN at ELSE call[d].at
      <4>1. PostsTypeOK
        OBVIOUS
      <4> HIDE DEF PostsInv
      <4> QED
        BY <3>1, <4>1, CallMoves, ZenonT(40)
    <3> QED
      BY <3>1, <3>2
  <2>3. CASE PushLands(c) \/ PushRejected(c)
    BY <2>3 DEF PushLands, PushRejected, PostsTypeOK
  <2> QED
    BY <2>1, <2>3
<1>4. /\ job' \in [at : {"idle", "synced", "taken", "pushed"}, for : Ids, tip : Nat]
      /\ \/ job' = NoJob
         \/ job'.at = "synced" /\ job'.for = c /\ job'.tip = Tip /\ Tip' = Tip
         \/ PushLands(c) /\ job'.at = "pushed" /\ job'.for = c /\ job'.tip = Tip + 1
  <2>1. CASE EditRefused(c) \/ EditFails(c)
    <3>1. job' = NoJob /\ NoJob \in [at : {"idle", "synced", "taken", "pushed"}, for : Ids, tip : Nat]
      BY <1>1, <2>1 DEF EditRefused, EditFails, NoJob
    <3> QED
      BY <3>1
  <2>2. CASE PushRejected(c)
    <3>1. job' = [job EXCEPT !.at = "synced", !.tip = Tip] /\ main' = main
      BY <2>2 DEF PushRejected
    <3>2. Tip' = Tip /\ Tip \in Nat
      BY <3>1, Stays, Types
    <3> QED
      BY <1>1, <3>1, <3>2 DEF PostsTypeOK
  <2>3. CASE PushLands(c)
    <3>1. job' = [job EXCEPT !.at = "pushed", !.tip = Tip + 1] /\ Tip + 1 \in Nat
      BY <2>3, Types DEF PushLands
    <3> QED
      BY <1>1, <2>3, <3>1 DEF PostsTypeOK
  <2> QED
    BY <2>1, <2>2, <2>3
<1>5. PostsTypeOK'
  BY <1>1, <1>2, <1>3, <1>4 DEF PostsTypeOK
<1>6. TipInv'
  BY <1>1, <1>2, <1>4, Types DEF TipInv, Grown, NoJob
<1>7. JobInv'
  BY <1>1, <1>2, <1>3, <1>4, SMTT(30) DEF JobInv, NoJob
<1>8. PostsIndexInv'
  <2>1. main'[seenAt] = main[seenAt]
    BY <1>2 DEF Grown, TipInv
  <2> QED
    BY <1>1, <2>1 DEF PostsIndexInv
<1>9. LandedInv'
  <2> SUFFICES ASSUME NEW d \in Calls
               PROVE  /\ landedAt'[d] \in 0 .. Tip'
                      /\ call'[d].at \in {"new", "embedding", "matching"} => landedAt'[d] = 0
                      /\ call'[d].at = "created" =>
                            /\ call'[d].ask.kind = "post" /\ landedAt'[d] # 0
                            /\ d \notin unheard => landedAt'[d] <= seenAt
    BY <1>1 DEF LandedInv
  <2>1. landedAt'[d] \in 0 .. Tip'
    BY <1>2, Types DEF LandedInv, Grown
  <2>2. ASSUME call'[d].at = "created"
        PROVE  call[d].at = "created" /\ landedAt'[d] = landedAt[d] /\ call'[d].ask = call[d].ask
    BY <1>1, <1>2, <1>3, <2>2
  <2>3. ASSUME call'[d].at \in {"new", "embedding", "matching"} PROVE landedAt'[d] = 0
    <3>1. d # c /\ call[d].at = call'[d].at
      BY <1>1, <1>3, <2>3
    <3> QED
      BY <1>2, <2>3, <3>1 DEF LandedInv
  <2> QED
    BY <2>1, <2>2, <2>3 DEF LandedInv
<1>10. ToldInv'
  <2>1. \A d \in Calls : call[d].at = "created" => call'[d].at = "created"
    BY <1>1, <1>3
  <2> QED
    BY <1>1, <1>3, <2>1, Types DEF ToldInv
<1>11. MetInv'
  <2>1. \A d \in Calls : Before(d)' \in Nat /\ Before(d) <= Before(d)'
    <3> SUFFICES ASSUME NEW d \in Calls PROVE Before(d)' \in Nat /\ Before(d) <= Before(d)'
      OBVIOUS
    <3>1. CASE landedAt'[d] = landedAt[d]
      BY <1>2, <3>1, BeforeKept
    <3>2. CASE landedAt'[d] # landedAt[d]
      <4>1. d = c /\ landedAt'[d] = Tip + 1
        BY <1>2, <3>2
      <4>2. Tip \in Nat /\ landedAt[d] \in 0 .. Tip
        BY Types DEF LandedInv
      <4> QED
        BY <4>1, <4>2 DEF Before
    <3> QED
      BY <3>1, <3>2
  <2>2. \A d \in Calls : call[d].at = "created" => landedAt'[d] = landedAt[d]
    BY <1>1, <1>2
  <2> QED
    BY <1>2, <1>3, <2>1, <2>2, MetKept
<1>12. MatchIsOfOneCommit'
  BY <1>2, <1>3, MatchKept
<1> QED
  BY <1>5, <1>6, <1>7, <1>8, <1>9, <1>10, <1>11, <1>12

----------------------------------------------------------------------------
LEMMA BeginsInv == ASSUME PostsInv, NEW c \in Calls, PostBegins(c) \/ MatchBegins(c) \/ ReactLooks(c) PROVE PostsInv'
<1> USE DEF PostsInv
<1>1. PICK to \in {"queued", "embedding", "absent"}, since \in 1 .. seenAt :
        /\ Begun(c, to, since)
        /\ to = "queued" => call[c].ask.kind # "match" /\ (call[c].ask.kind = "post" => call[c].ask.force)
  BY Types DEF PostBegins, MatchBegins, ReactLooks, TipInv
<1>2. /\ call[c].at = "new" /\ UNCHANGED <<main, job, landedAt, entryOf, seenAt, cached, taking,
                                           unheard, pushes, troubles>>
      /\ call' = [call EXCEPT ![c] = [call[c] EXCEPT !.at = to, !.told = Told, !.indexed = since]]
  BY <1>1 DEF Begun, queueVars, entryVars
<1>3. call[c] \in CallShapes /\ Told \subseteq Calls /\ since \in Nat /\ seenAt \in Nat
  BY <1>1, Types DEF Told
<1>4. [call[c] EXCEPT !.at = to, !.told = Told, !.indexed = since] \in CallShapes
  BY <1>1, <1>3 DEF CallShapes
<1>5. \A d \in Calls :
        /\ d # c => call'[d] = call[d]
        /\ call'[d].ask = call[d].ask /\ call'[d].found = call[d].found
  BY <1>2, <1>3 DEF CallShapes, PostsTypeOK
<1>6. call'[c].at = to /\ call'[c].told = Told /\ call'[c].indexed = since
  BY <1>2, <1>3 DEF CallShapes, PostsTypeOK
<1>7. Grown /\ Tip' = Tip
  BY <1>2, Stays
<1>8. PostsTypeOK'
  BY <1>2, <1>4 DEF PostsTypeOK
<1>9. TipInv' /\ PostsIndexInv'
  BY <1>2 DEF TipInv, PostsIndexInv, Tip
<1>10. JobInv'
  BY <1>1, <1>2, <1>5, <1>6 DEF JobInv
<1>11. LandedInv'
  BY <1>1, <1>2, <1>5, <1>6, <1>7 DEF LandedInv
<1>12. ToldInv'
  <2>1. \A d \in Calls : call[d].at = "created" => call'[d].at = "created"
    BY <1>2, <1>5
  <2>2. \A d \in call'[c].told : d \in Calls /\ call[d].at = "created" /\ d \notin unheard
    BY <1>6 DEF Told
  <2>3. call'[c].indexed \in 1 .. seenAt
    BY <1>1, <1>6
  <2> QED
    BY <1>2, <1>5, <2>1, <2>2, <2>3, Types DEF ToldInv
<1>13. MetInv'
  <2> SUFFICES ASSUME NEW d \in Calls, call'[d].at \in {"queued", "created"},
                      call'[d].ask.kind = "post", ~call'[d].ask.force
               PROVE  Met(d, Before(d))'
    BY DEF MetInv
  <2>1. d # c /\ call'[d] = call[d]
    BY <1>1, <1>5, <1>6
  <2>2. Met(d, Before(d))
    BY <2>1 DEF MetInv
  <2>3. Before(d)' = Before(d) /\ main' = main /\ landedAt' = landedAt
    BY <1>2, <1>7 DEF Before
  <2>4. \A e \in call[d].told : e \in Calls /\ call'[e].ask = call[e].ask
    BY <1>5, Types
  <2> QED
    BY <2>1, <2>2, <2>3, <2>4 DEF Met, Unlike
<1>14. MatchIsOfOneCommit'
  BY <1>1, <1>5, <1>6, <1>7, MatchKept
<1> QED
  BY <1>8, <1>9, <1>10, <1>11, <1>12, <1>13, <1>14

LEMMA EmbedsInv == ASSUME PostsInv, NEW c \in Calls, Embeds(c) \/ EmbedFails(c) PROVE PostsInv'
<1> USE DEF PostsInv
<1>1. PICK to \in {"matching", "failed"} :
        /\ to \in Ats /\ call[c].at = "embedding" /\ call' = [call EXCEPT ![c].at = to]
        /\ UNCHANGED <<main, job, landedAt, entryOf, seenAt, cached, taking, unheard, pushes>>
        /\ troubles' \in Nat
  BY DEF Embeds, EmbedFails, GoesOn, Failing, queueVars, entryVars, PostsTypeOK, Ats
<1>2. Grown /\ Tip' = Tip
  BY <1>1, Stays
<1>3. /\ call' \in [Calls -> CallShapes]
      /\ \A d \in Calls :
            /\ call'[d].ask = call[d].ask /\ call'[d].told = call[d].told
            /\ call'[d].found = call[d].found /\ call'[d].indexed = call[d].indexed
            /\ call'[d].at = IF d = c THEN to ELSE call[d].at
  BY <1>1, CallMoves
<1>4. PostsTypeOK' /\ TipInv' /\ PostsIndexInv'
  BY <1>1, <1>2, <1>3 DEF PostsTypeOK, TipInv, PostsIndexInv
<1>5. JobInv' /\ LandedInv'
  BY <1>1, <1>2, <1>3 DEF JobInv, LandedInv
<1>6. ToldInv'
  BY <1>1, <1>3, Types DEF ToldInv
<1>7. MetInv' /\ MatchIsOfOneCommit'
  BY <1>1, <1>2, <1>3, MetKept, MatchKept, BeforeKept
<1> QED
  BY <1>4, <1>5, <1>6, <1>7

\* The entries are main as it was seen, and so is what is found in them.
LEMMA MatchesInv == ASSUME PostsInv, NEW c \in Calls, Matches(c) PROVE PostsInv'
<1> USE DEF PostsInv
<1> DEFINE found == Like(entryOf, call[c].ask.text)
           to == Answer(call[c].ask.kind, found)
<1>1. /\ ~taking.on /\ call[c].at = "matching" /\ entryOf = main[seenAt]
      /\ UNCHANGED <<main, job, landedAt, entryOf, seenAt, cached, taking, unheard, pushes, troubles>>
      /\ call' = [call EXCEPT ![c] = [call[c] EXCEPT !.at = to, !.found = found]]
  BY DEF Matches, MatchesAnyhow, queueVars, entryVars, PostsIndexInv
<1>2. /\ found \subseteq Ids /\ to \in {"matched", "queued", "candidates"}
      /\ to = "queued" => found = {} /\ call[c].ask.kind # "match"
  BY DEF Like, Answer
<1> HIDE DEF to
<1>3. Grown /\ Tip' = Tip
  BY <1>1, Stays
<1>4. call[c] \in CallShapes
  BY Types
<1>5. /\ call' \in [Calls -> CallShapes]
      /\ \A d \in Calls :
            /\ d # c => call'[d] = call[d]
            /\ call'[d].ask = call[d].ask /\ call'[d].told = call[d].told
            /\ call'[d].indexed = call[d].indexed
      /\ call'[c].at = to /\ call'[c].found = found
  <2> HIDE DEF found
  <2>1. [call[c] EXCEPT !.at = to, !.found = found] \in CallShapes
    BY <1>2, <1>4 DEF CallShapes
  <2> QED
    BY <1>1, <1>4, <2>1 DEF CallShapes, PostsTypeOK
<1>6. PostsTypeOK' /\ TipInv' /\ PostsIndexInv'
  BY <1>1, <1>3, <1>5 DEF PostsTypeOK, TipInv, PostsIndexInv
<1>7. JobInv' /\ LandedInv'
  BY <1>1, <1>2, <1>3, <1>5 DEF JobInv, LandedInv
<1>8. ToldInv'
  <2>1. \A d \in Calls : call[d].at = "created" => call'[d].at = "created"
    BY <1>1, <1>5
  <2> QED
    BY <1>1, <1>5, <2>1, Types DEF ToldInv
<1>9. MetInv'
  <2> SUFFICES ASSUME NEW d \in Calls, call'[d].at \in {"queued", "created"},
                      call'[d].ask.kind = "post", ~call'[d].ask.force,
                      NEW e \in call'[d].told, call'[e].ask.text = call'[d].ask.text
               PROVE  \E k \in landedAt'[e] .. Before(d)' : Unlike(e, k)'
    BY DEF MetInv, Met
  <2>1. e \in call[d].told /\ e \in Calls /\ call[e].at = "created" /\ e \notin unheard
    BY <1>5, Types DEF ToldInv
  <2>2. Before(d)' = Before(d) /\ \A k : Unlike(e, k)' <=> Unlike(e, k)
    BY <1>1, <1>3, <1>5, <2>1 DEF Before, Unlike
  <2>3. CASE d # c
    BY <1>1, <1>5, <2>1, <2>2, <2>3 DEF MetInv, Met
  <2>4. CASE d = c
    <3>1. found = {} /\ call[e].ask.text = call[c].ask.text
      BY <1>2, <1>5, <2>1, <2>4
    <3>2. Unlike(e, seenAt)
      <4>1. e \notin Like(main[seenAt], call[c].ask.text) /\ e \in Ids
        BY <1>1, <2>1, <3>1 DEF Ids
      <4> QED
        BY <3>1, <4>1 DEF Like, Unlike
    <3>3. landedAt[e] <= seenAt /\ landedAt[e] \in Nat /\ seenAt \in 1 .. Tip
      BY <2>1, Types DEF LandedInv, TipInv
    <3>4. landedAt[c] = 0
      BY <1>1 DEF LandedInv
    <3> QED
      BY <1>1, <2>2, <2>4, <3>2, <3>3, <3>4, Types DEF Before
  <2> QED
    BY <2>3, <2>4
<1>10. MatchIsOfOneCommit'
  <2> SUFFICES ASSUME NEW d \in Calls, call'[d].at \in {"matched", "candidates"}
               PROVE  \E k \in call'[d].indexed .. Tip' : call'[d].found = Like(main'[k], call'[d].ask.text)
    BY DEF MatchIsOfOneCommit
  <2>1. CASE d # c
    BY <1>1, <1>3, <1>5, <2>1 DEF MatchIsOfOneCommit
  <2>2. CASE d = c
    <3>1. seenAt \in call[c].indexed .. Tip
      BY Types DEF ToldInv, TipInv
    <3> QED
      BY <1>1, <1>3, <1>5, <2>2, <3>1
  <2> QED
    BY <2>1, <2>2
<1> QED
  BY <1>6, <1>7, <1>8, <1>9, <1>10

LEMMA PostsNextInv == PostsInv /\ [PostsNext]_postsVars => PostsInv'
<1> SUFFICES ASSUME PostsInv, [PostsNext]_postsVars PROVE PostsInv'
  OBVIOUS
<1>1. CASE UNCHANGED postsVars
  <2>1. Grown /\ Tip' = Tip
    BY <1>1, Stays DEF PostsInv, postsVars
  <2>2. PostsTypeOK' /\ TipInv' /\ JobInv' /\ PostsIndexInv'
    BY <1>1, <2>1 DEF PostsInv, postsVars, PostsTypeOK, TipInv, JobInv, PostsIndexInv
  <2>3. LandedInv' /\ ToldInv'
    BY <1>1, <2>1 DEF PostsInv, postsVars, LandedInv, ToldInv
  <2>4. MetInv' /\ MatchIsOfOneCommit'
    BY <1>1, <2>1, MetKept, MatchKept, BeforeKept DEF postsVars
  <2> QED
    BY <2>2, <2>3, <2>4 DEF PostsInv
<1>2. CASE PostsNext
  BY <1>2, PushedInv, TakesInv, EntriesInv, HeardInv, WriteInv, BeginsInv, EmbedsInv, MatchesInv
     DEF PostsNext, TakingSteps, QueueSteps, CallSteps
<1> QED
  BY <1>1, <1>2

LEMMA PostsSpecInv == PostsSpec => []PostsInv
<1> QED
  BY PostsInitInv, PostsNextInv, PTL DEF PostsSpec

----------------------------------------------------------------------------
\* Every variable of the posts and the index behind them keeps its shape.
THEOREM PostsTypeCorrect == PostsSpec => []PostsTypeOK
<1>1. PostsInv => PostsTypeOK
  BY DEF PostsInv
<1> QED
  BY <1>1, PostsSpecInv, PTL

\* A match is answered with all that is alike in one commit of main, none older than the
\* commit its reply names (observations.py, Observations.match; index.py, Index.update).
THEOREM MatchCorrect == PostsSpec => []MatchIsOfOneCommit
<1>1. PostsInv => MatchIsOfOneCommit
  BY DEF PostsInv
<1> QED
  BY <1>1, PostsSpecInv, PTL

\* A post that is not forced creates no second observation of a text that was answered as
\* created before it began and stayed as it was (observations.py, Observations.post).
THEOREM RepostCorrect == PostsSpec => []RepostIsMet
<1>1. PostsInv => RepostIsMet
  <2> SUFFICES ASSUME PostsInv, NEW c \in Calls, call[c].at = "created", ~call[c].ask.force,
                      NEW d \in call[c].told, call[d].ask.text = call[c].ask.text
               PROVE  \E k \in landedAt[d] .. landedAt[c] - 1 :
                          main[k][d] = NoFile \/ main[k][d].text # call[d].ask.text
    BY DEF RepostIsMet
  <2>1. call[c].ask.kind = "post" /\ Before(c) = landedAt[c] - 1
    BY DEF PostsInv, LandedInv, Before
  <2> QED
    BY <2>1 DEF PostsInv, MetInv, Met, Unlike
<1> QED
  BY <1>1, PostsSpecInv, PTL

----------------------------------------------------------------------------
(* The lexical index.                                                      *)

Index == [Documents -> TextCounts \cup {NoText}]
There(ix) == {d \in Documents : ix[d] # NoText}
AllTokens(ix) == UNION {{d} \X Tokens(ix[d]) : d \in There(ix)}

\* b is what an index of the texts ix would be, had it been built of them at once.
IsOf(b, ix) ==
    b = [counts |-> ix,
         lengths |-> [d \in Documents |-> IF ix[d] = NoText THEN 0 ELSE Length(ix[d])],
         postings |-> [t \in Terms |-> {d \in There(ix) : t \in TermsOf(ix[d])}],
         total |-> Cardinality(AllTokens(ix))]

LexicalInv == indexed \in Index /\ IsOf(bm25, indexed)

LEMMA TokensFinite ==
  ASSUME NEW x
  PROVE  IsFiniteSet(Tokens(x)) /\ Length(x) \in Nat
<1>1. IsFiniteSet(1..MaxCount)
  BY FS_Interval, LexicalAssumption
<1>2. IsFiniteSet(Terms \X (1..MaxCount))
  BY <1>1, FS_Product, LexicalAssumption
<1>3. Tokens(x) \subseteq Terms \X (1..MaxCount)
  BY DEF Tokens
<1>4. IsFiniteSet(Tokens(x))
  BY <1>2, <1>3, FS_Subset
<1> QED
  BY <1>4, FS_CardinalityType DEF Length

LEMMA AllTokensFinite == ASSUME NEW ix PROVE IsFiniteSet(AllTokens(ix))
<1>1. IsFiniteSet(1..MaxCount)
  BY FS_Interval, LexicalAssumption
<1>2. IsFiniteSet(Terms \X (1..MaxCount))
  BY <1>1, FS_Product, LexicalAssumption
<1>3. IsFiniteSet(Documents \X (Terms \X (1..MaxCount)))
  BY <1>2, FS_Product, LexicalAssumption
<1>4. AllTokens(ix) \subseteq Documents \X (Terms \X (1..MaxCount))
  BY DEF AllTokens, There, Tokens
<1> QED
  BY <1>3, <1>4, FS_Subset

\* A text more adds its tokens, each once.
LEMMA TokensOfOneMore ==
  ASSUME NEW ix \in Index, NEW d \in Documents, ix[d] = NoText, NEW x \in TextCounts
  PROVE  Cardinality(AllTokens([ix EXCEPT ![d] = x])) = Cardinality(AllTokens(ix)) + Length(x)
<1> DEFINE more == [ix EXCEPT ![d] = x]
           own == {d} \X Tokens(x)
<1>1. x # NoText
  BY LexicalAssumption
<1>2. more[d] = x /\ \A e \in Documents \ {d} : more[e] = ix[e]
  BY DEF Index
<1>3. There(more) = There(ix) \cup {d} /\ d \notin There(ix)
  BY <1>1, <1>2 DEF There
<1> HIDE DEF more
<1>4. AllTokens(more) = AllTokens(ix) \cup own
  <2>1. \A e \in There(ix) : more[e] = ix[e]
    BY <1>2, <1>3 DEF There
  <2> QED
    BY <1>2, <1>3, <2>1 DEF AllTokens
<1>5. AllTokens(ix) \cap own = {}
  BY <1>3 DEF AllTokens
<1>6. IsFiniteSet(own) /\ Cardinality(own) = Length(x)
  <2>1. IsFiniteSet({d}) /\ Cardinality({d}) = 1
    BY FS_Singleton
  <2>2. IsFiniteSet(own) /\ Cardinality(own) = Cardinality({d}) * Cardinality(Tokens(x))
    BY <2>1, TokensFinite, FS_Product
  <2> QED
    BY <2>1, <2>2, TokensFinite DEF Length
<1>7. IsFiniteSet(AllTokens(ix)) /\ Cardinality(AllTokens(ix)) \in Nat
  BY AllTokensFinite, FS_CardinalityType
<1>8. Cardinality(AllTokens(ix) \cap own) = 0
  BY <1>5, FS_EmptySet
<1>9. Cardinality(AllTokens(ix) \cup own) = Cardinality(AllTokens(ix)) + Cardinality(own)
        - Cardinality(AllTokens(ix) \cap own)
  BY <1>6, <1>7, FS_Union
<1>10. Length(x) \in Nat
  BY TokensFinite
<1> HIDE DEF own
<1>11. Cardinality(AllTokens(more)) = Cardinality(AllTokens(ix)) + Length(x)
  BY <1>4, <1>6, <1>7, <1>8, <1>9, <1>10
<1> QED
  BY <1>11 DEF more

LEMMA RemovedIsOf ==
  ASSUME NEW b, NEW ix \in Index, IsOf(b, ix), NEW d \in Documents
  PROVE  IsOf(Removed(b, d), [ix EXCEPT ![d] = NoText])
<1> DEFINE less == [ix EXCEPT ![d] = NoText]
<1>1. CASE ix[d] = NoText
  <2>1. less = ix
    BY <1>1 DEF Index
  <2> QED
    BY <1>1, <2>1 DEF IsOf, Removed
<1>2. CASE ix[d] # NoText
  <2>1. /\ less \in Index /\ less[d] = NoText /\ ix[d] \in TextCounts
        /\ \A e \in Documents \ {d} : less[e] = ix[e]
    BY <1>2 DEF Index
  <2>2. ix = [less EXCEPT ![d] = ix[d]]
    BY DEF Index
  <2>3. Cardinality(AllTokens(ix)) = Cardinality(AllTokens(less)) + Length(ix[d])
    BY <2>1, <2>2, TokensOfOneMore
  <2>4. There(less) = There(ix) \ {d}
    BY <2>1 DEF There
  <2> HIDE DEF less
  <2>5. Removed(b, d) =
          [counts |-> [b.counts EXCEPT ![d] = NoText],
           lengths |-> [b.lengths EXCEPT ![d] = 0],
           postings |-> [t \in Terms |-> IF t \in TermsOf(b.counts[d]) THEN b.postings[t] \ {d}
                                         ELSE b.postings[t]],
           total |-> b.total - b.lengths[d]]
    BY <1>2 DEF IsOf, Removed
  <2>6. [b.counts EXCEPT ![d] = NoText] = less
    BY DEF IsOf, less
  <2>7. [b.lengths EXCEPT ![d] = 0]
          = [e \in Documents |-> IF less[e] = NoText THEN 0 ELSE Length(less[e])]
    BY <2>1 DEF IsOf
  <2>8. ASSUME NEW t \in Terms
        PROVE  (IF t \in TermsOf(b.counts[d]) THEN b.postings[t] \ {d} ELSE b.postings[t])
                 = {e \in There(less) : t \in TermsOf(less[e])}
    <3>1. b.postings[t] = {e \in There(ix) : t \in TermsOf(ix[e])} /\ b.counts[d] = ix[d]
      BY DEF IsOf
    <3>2. {e \in There(less) : t \in TermsOf(less[e])} = {e \in There(ix) : t \in TermsOf(ix[e])} \ {d}
      BY <2>1, <2>4 DEF There
    <3>3. t \notin TermsOf(ix[d]) => d \notin {e \in There(ix) : t \in TermsOf(ix[e])}
      OBVIOUS
    <3> QED
      BY <3>1, <3>2, <3>3
  <2>9. b.total - b.lengths[d] = Cardinality(AllTokens(less))
    <3>1. b.total = Cardinality(AllTokens(ix)) /\ b.lengths[d] = Length(ix[d])
      BY <1>2 DEF IsOf
    <3>2. Cardinality(AllTokens(less)) \in Nat /\ Length(ix[d]) \in Nat
      BY AllTokensFinite, FS_CardinalityType, TokensFinite
    <3> QED
      BY <2>3, <3>1, <3>2
  <2>10. [t \in Terms |-> IF t \in TermsOf(b.counts[d]) THEN b.postings[t] \ {d} ELSE b.postings[t]]
           = [t \in Terms |-> {e \in There(less) : t \in TermsOf(less[e])}]
    BY <2>8
  <2>11. IsOf(Removed(b, d), less)
    BY <2>5, <2>6, <2>7, <2>9, <2>10 DEF IsOf
  <2> QED
    BY <2>11 DEF less
<1> QED
  BY <1>1, <1>2

LEMMA AddedIsOf ==
  ASSUME NEW b, NEW ix \in Index, IsOf(b, ix), NEW d \in Documents, ix[d] = NoText,
         NEW x \in TextCounts
  PROVE  IsOf(Added(b, d, x), [ix EXCEPT ![d] = x])
<1> DEFINE more == [ix EXCEPT ![d] = x]
<1>1. x # NoText
  BY LexicalAssumption
<1>2. more[d] = x /\ \A e \in Documents \ {d} : more[e] = ix[e]
  BY DEF Index
<1>3. There(more) = There(ix) \cup {d} /\ d \notin There(ix)
  BY <1>1, <1>2 DEF There
<1>4. Cardinality(AllTokens(more)) = Cardinality(AllTokens(ix)) + Length(x)
  BY TokensOfOneMore
<1> HIDE DEF more
<1>5. [b.counts EXCEPT ![d] = x] = more
  BY DEF IsOf, more
<1>6. [b.lengths EXCEPT ![d] = Length(x)]
        = [e \in Documents |-> IF more[e] = NoText THEN 0 ELSE Length(more[e])]
  BY <1>1, <1>2 DEF IsOf
<1>7. ASSUME NEW t \in Terms
      PROVE  (IF t \in TermsOf(x) THEN b.postings[t] \cup {d} ELSE b.postings[t])
               = {e \in There(more) : t \in TermsOf(more[e])}
  <2>1. b.postings[t] = {e \in There(ix) : t \in TermsOf(ix[e])}
    BY DEF IsOf
  <2>2. \A e \in There(ix) : more[e] = ix[e]
    BY <1>2, <1>3 DEF There
  <2> QED
    BY <1>2, <1>3, <2>1, <2>2
<1>8. b.total + Length(x) = Cardinality(AllTokens(more))
  BY <1>4 DEF IsOf
<1>9. IsOf(Added(b, d, x), more)
  BY <1>5, <1>6, <1>7, <1>8 DEF IsOf, Added
<1> QED
  BY <1>9 DEF more

LEMMA LexicalInitInv == LexicalInit => LexicalInv
<1> SUFFICES ASSUME LexicalInit PROVE LexicalInv
  OBVIOUS
<1>1. indexed \in Index /\ There(indexed) = {}
  BY DEF LexicalInit, Index, There
<1>2. Cardinality(AllTokens(indexed)) = 0
  BY <1>1, FS_EmptySet DEF AllTokens
<1> QED
  BY <1>1, <1>2 DEF LexicalInit, LexicalInv, IsOf, NoTexts

LEMMA LexicalNextInv == LexicalInv /\ [LexicalNext]_lexicalVars => LexicalInv'
<1> SUFFICES ASSUME LexicalInv, [LexicalNext]_lexicalVars PROVE LexicalInv'
  OBVIOUS
<1>1. ASSUME NEW d \in Documents, Drops(d) PROVE LexicalInv'
  <2>1. IsOf(Removed(bm25, d), [indexed EXCEPT ![d] = NoText])
    BY RemovedIsOf DEF LexicalInv
  <2> QED
    BY <1>1, <2>1 DEF Drops, LexicalInv, IsOf, Index
<1>2. ASSUME NEW d \in Documents, NEW x \in TextCounts, Takes(d, x) PROVE LexicalInv'
  <2> DEFINE less == [indexed EXCEPT ![d] = NoText]
             b == Removed(Removed(bm25, d), d)
  <2>1. less \in Index /\ less[d] = NoText /\ [less EXCEPT ![d] = NoText] = less
    BY DEF LexicalInv, Index
  <2>2. IsOf(Removed(bm25, d), less)
    BY RemovedIsOf DEF LexicalInv
  <2>3. IsOf(b, less)
    <3>1. IsOf(b, [less EXCEPT ![d] = NoText])
      BY <2>1, <2>2, RemovedIsOf
    <3> QED
      BY <2>1, <3>1
  <2> HIDE DEF b
  <2>4. IsOf(Added(b, d, x), [less EXCEPT ![d] = x])
    BY <2>1, <2>3, AddedIsOf
  <2>5. [less EXCEPT ![d] = x] = [indexed EXCEPT ![d] = x] /\ [indexed EXCEPT ![d] = x] \in Index
    BY DEF LexicalInv, Index
  <2>6. indexed' = [indexed EXCEPT ![d] = x] /\ bm25' = Added(b, d, x)
    BY <1>2 DEF Takes, Put, b
  <2> QED
    BY <2>4, <2>5, <2>6 DEF LexicalInv
<1>3. CASE UNCHANGED lexicalVars
  BY <1>3 DEF lexicalVars, LexicalInv, IsOf
<1> QED
  BY <1>1, <1>2, <1>3 DEF LexicalNext

\* Whatever is taken in, replaced and dropped, the lexical index is the one its texts
\* would give, built at once (Bm25, index.py).
THEOREM IndexCorrect == LexicalSpec => []IndexIsItsTexts
<1>1. LexicalInv => IndexIsItsTexts
  <2> SUFFICES ASSUME LexicalInv PROVE IndexIsItsTexts
    OBVIOUS
  <2>1. ASSUME NEW t \in Terms
        PROVE  bm25.postings[t] = {d \in There(indexed) : t \in TermsOf(indexed[d])}
    BY DEF LexicalInv, IsOf
  <2>2. bm25.total = Cardinality(AllTokens(indexed))
    BY DEF LexicalInv, IsOf
  <2>3. ASSUME NEW d \in There(indexed)
        PROVE  Score(d, indexed[d]) = Own(indexed[d])
    <3>1. bm25.counts[d] = indexed[d] /\ bm25.lengths[d] = Length(indexed[d])
      BY DEF LexicalInv, IsOf, There
    <3>2. {t \in TermsOf(indexed[d]) : d \in bm25.postings[t]} = TermsOf(indexed[d])
      BY <2>1 DEF TermsOf
    <3> QED
      BY <3>1, <3>2 DEF Score, Own
  <2> QED
    BY <2>1, <2>2, <2>3 DEF IndexIsItsTexts, There, AllTokens
<1> QED
  BY <1>1, LexicalInitInv, LexicalNextInv, PTL DEF LexicalSpec

\* Each text's counts are in the index as they came.
THEOREM LexicalTypeCorrect == LexicalSpec => []LexicalTypeOK
<1>1. LexicalInv => LexicalTypeOK
  <2> SUFFICES ASSUME LexicalInv PROVE LexicalTypeOK
    OBVIOUS
  <2>1. [d \in Documents |-> IF indexed[d] = NoText THEN 0 ELSE Length(indexed[d])]
          \in [Documents -> Nat]
    BY TokensFinite
  <2>2. [t \in Terms |-> {d \in There(indexed) : t \in TermsOf(indexed[d])}]
          \in [Terms -> SUBSET Documents]
    BY DEF There
  <2>3. Cardinality(AllTokens(indexed)) \in Int
    BY AllTokensFinite, FS_CardinalityType
  <2> QED
    BY <2>1, <2>2, <2>3 DEF LexicalInv, LexicalTypeOK, Index, IsOf
<1> QED
  BY <1>1, LexicalInitInv, LexicalNextInv, PTL DEF LexicalSpec
=============================================================================
