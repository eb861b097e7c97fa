------------------------------- MODULE Board -------------------------------
(***************************************************************************)
(* The board's way into the store: YouTrack's deliveries, the index's two  *)
(* maps they are looked up in without its lock                             *)
(* (backend/app/fieldnotes/index.py), the wait each starts or restarts,    *)
(* and the syncs that read a card and apply it                             *)
(* (backend/app/fieldnotes/observations.py, board.py), beside the skills   *)
(* that link, relink and reopen observations.  A write is one step at the  *)
(* remote's tip, as StoreQueue's are; the index takes its paths in later.  *)
(* A card is the seconds its revisions were made in, every one of them     *)
(* after the first with a resolution that maps to an outcome.              *)
(***************************************************************************)
EXTENDS Integers, Sequences, FiniteSets

CONSTANTS
    Observations, Cards,
    NoCard, NoObservation, Absent,
    MaxNow,         \* bound: the seconds told apart
    MaxHappenings       \* bound: the board's changes (a delivery each), the skills' edits, scans

ASSUME BoardAssumption ==
    /\ {MaxNow, MaxHappenings} \subseteq Nat
    /\ Observations # {} /\ Cards # {}
    /\ NoCard \notin Cards /\ NoObservation \notin Observations
    /\ Absent \notin Cards \cup {NoCard}

VARIABLES
    now,            \* the time, in seconds
    card,           \* YouTrack: the second of each revision of each card
    coming,         \* its changes whose delivery is sent and that are not committed
    deliveries,     \* the deliveries on their way, sent one after another
    doc,            \* observations/ at the remote's tip
    dirty,          \* the files changed since the index took them in
    entries,        \* Index._entries: the card of each observation
    mapped,         \* Index._cards
    update,         \* Index.update under way
    hook,           \* the delivery being answered
    settling,       \* Observations._settling: the delivery whose timer each waits for
    timers,         \* the timers' threads
    syncs,          \* the calls of board_sync
    used,           \* what MaxHappenings bounds
    due,            \* history: the newest change a queued sync is to record
    lost,           \* history: the observations whose queued sync failed, or gave way to
                    \* another card's
    shared          \* history: the cards that passed from one entry to another in one update

boardVars == <<now, card, coming, deliveries, doc, dirty, entries, mapped, update, hook,
               settling, timers, syncs, used, due, lost, shared>>
world == <<now, card, coming, deliveries>>
indexVars == <<entries, mapped, update, shared>>

NoHook == [card |-> NoCard, rev |-> 0, of |-> NoObservation]
NoUpdate == [at |-> "none", of |-> NoObservation, was |-> NoCard, todo |-> {},
             read |-> [o \in Observations |-> NoCard]]
NoDue == [card |-> NoCard, rev |-> 0]

\* `time` is card_updated, 0 for null; `seen` is history: the revision it was read at.
Linked(c) == [status |-> "raised", card |-> c, time |-> 0, seen |-> NoDue, outcome |-> NoDue]
Unlinked == [Linked(NoCard) EXCEPT !.status = "open"]

\* One observation is raised, as the card was then.
First == [o |-> CHOOSE o \in Observations : TRUE, card |-> CHOOSE c \in Cards : TRUE]
BoardInit ==
    /\ now = 1
    /\ card = [c \in Cards |-> <<1>>] /\ coming = [c \in Cards |-> 0]
    /\ deliveries = <<>>
    /\ doc = [o \in Observations |-> IF o = First.o THEN Linked(First.card) ELSE Unlinked]
    /\ dirty = {} /\ update = NoUpdate
    /\ entries = [o \in Observations |-> doc[o].card]
    /\ mapped = [c \in Cards |-> IF c = First.card THEN First.o ELSE NoObservation]
    /\ hook = NoHook
    /\ settling = [o \in Observations |-> NoDue] /\ timers = {} /\ syncs = {}
    /\ used = 0
    /\ due = [o \in Observations |-> NoDue] /\ lost = {} /\ shared = {}

Uses == used < MaxHappenings /\ used' = used + 1

----------------------------------------------------------------------------
(* The board.                                                              *)

Tick ==
    /\ now < MaxNow /\ now' = now + 1
    /\ UNCHANGED <<card, coming, deliveries, doc, dirty, indexVars, hook, settling, timers, syncs,
                   used, due, lost>>

\* YouTrack sends the delivery before it commits the change.
Announces(c) ==
    /\ Uses
    /\ coming' = [coming EXCEPT ![c] = @ + 1]
    /\ deliveries' = Append(deliveries, [card |-> c, rev |-> Len(card[c]) + coming'[c]])
    /\ UNCHANGED <<now, card, doc, dirty, indexVars, hook, settling, timers, syncs, due, lost>>

Commits(c) ==
    /\ coming[c] > 0
    /\ coming' = [coming EXCEPT ![c] = @ - 1]
    /\ card' = [card EXCEPT ![c] = Append(@, now)]
    /\ UNCHANGED <<now, deliveries, doc, dirty, indexVars, hook, settling, timers, syncs, used,
                   due, lost>>

----------------------------------------------------------------------------
(* The skills' pushes: an issue is one observation's card.                 *)

\* Back to where it was before it was raised.
Freed(d) == [d EXCEPT !.card = NoCard, !.status = "open", !.outcome = NoDue]

SkillsPush(to) ==
    LET edited == {o \in Observations : to[o] # doc[o]} IN
    /\ Uses
    /\ doc' = to /\ dirty' = dirty \cup edited
    /\ due' = [o \in Observations |-> IF to[o].card = doc[o].card THEN due[o] ELSE NoDue]
    /\ UNCHANGED <<world, indexVars, hook, settling, timers, syncs, lost>>

\* A link may take the card from another observation.
Links(o, c) ==
    SkillsPush([p \in Observations |->
        IF p = o THEN [doc[o] EXCEPT !.card = c, !.status = "raised", !.outcome = NoDue]
        ELSE IF doc[p].card = c THEN Freed(doc[p]) ELSE doc[p]])
Unlinks(o) == doc[o].card # NoCard /\ SkillsPush([doc EXCEPT ![o] = Freed(@)])
Reopens(o) ==
    /\ doc[o].status # "open"
    /\ SkillsPush([doc EXCEPT ![o].status = "open", ![o].outcome = NoDue])

----------------------------------------------------------------------------
(* The index.                                                              *)

Indexing == UNCHANGED <<world, doc, hook, settling, timers, syncs, used, due, lost>>

\* The files are read first.
UpdateStarts ==
    /\ update = NoUpdate /\ dirty # {}
    /\ update' = [NoUpdate EXCEPT !.at = "next", !.todo = dirty,
                  !.read = [o \in Observations |-> doc[o].card]]
    /\ dirty' = {}
    /\ shared' = shared \cup
          {c \in Cards : \E o, p \in dirty : o # p /\ entries[o] = c /\ doc[p].card = c}
    /\ UNCHANGED <<entries, mapped>> /\ Indexing

\* _remove and _put, entry by entry; the lock keeps out a match and nothing else.
Pops(o) ==
    /\ update.at = "next" /\ o \in update.todo
    /\ update' = [update EXCEPT !.at = "unmap", !.of = o, !.was = entries[o], !.todo = @ \ {o}]
    /\ entries' = [entries EXCEPT ![o] = Absent]
    /\ UNCHANGED <<mapped, shared, dirty>> /\ Indexing

Unmaps ==
    /\ update.at = "unmap"
    /\ update' = [update EXCEPT !.at = "put"]
    /\ mapped' = [c \in Cards |-> IF c = update.was THEN NoObservation ELSE mapped[c]]
    /\ UNCHANGED <<entries, shared, dirty>> /\ Indexing

Puts ==
    /\ update.at = "put"
    /\ update' = [update EXCEPT !.at = "map"]
    /\ entries' = [entries EXCEPT ![update.of] = update.read[update.of]]
    /\ UNCHANGED <<mapped, shared, dirty>> /\ Indexing

Maps ==
    /\ update.at = "map"
    /\ update' = IF update.todo = {} THEN NoUpdate ELSE [update EXCEPT !.at = "next"]
    /\ mapped' = [c \in Cards |-> IF c = update.read[update.of] THEN update.of ELSE mapped[c]]
    /\ UNCHANGED <<entries, shared, dirty>> /\ Indexing

UpdateSteps == UpdateStarts \/ (\E o \in Observations : Pops(o)) \/ Unmaps \/ Puts \/ Maps

----------------------------------------------------------------------------
(* The deliveries.  YouTrack waits for each answer before the next.        *)

HookOnly == UNCHANGED <<now, card, coming, doc, dirty, indexVars, syncs, used>>

Lost ==
    /\ deliveries # <<>> /\ deliveries' = Tail(deliveries)
    /\ UNCHANGED <<hook, settling, timers, due, lost>> /\ HookOnly

\* youtrack_hook, by_card: an issue that is no observation's card is ignored.
HookLooks ==
    /\ hook = NoHook
    /\ deliveries # <<>> /\ deliveries' = Tail(deliveries)
    /\ LET d == Head(deliveries) IN
       hook' = IF mapped[d.card] = NoObservation THEN NoHook
               ELSE [card |-> d.card, rev |-> d.rev, of |-> mapped[d.card]]
    /\ UNCHANGED <<settling, timers, due, lost>> /\ HookOnly

Queued == due' = [due EXCEPT ![hook.of] =
    IF doc[hook.of].card # hook.card \/ (@.card = hook.card /\ @.rev > hook.rev) THEN @
    ELSE [card |-> hook.card, rev |-> hook.rev]]

NewTimer == [by |-> [card |-> hook.card, rev |-> hook.rev], of |-> hook.of, at |-> "waits"]
Ended == hook' = NoHook

\* sync_later, if the entry is there: a wait that goes on is restarted, but a timer
\* that is up already cannot be cancelled any more.
HookQueues ==
    /\ hook # NoHook /\ Ended
    /\ IF entries[hook.of] = Absent THEN UNCHANGED <<settling, timers, due, lost>>
       ELSE /\ settling' = [settling EXCEPT ![hook.of] = NewTimer.by]
            /\ timers' = {t \in timers : ~(t.at = "waits" /\ t.of = hook.of)} \cup {NewTimer}
            /\ Queued
            /\ lost' = IF settling[hook.of].card \in {NoCard, hook.card} THEN lost
                       ELSE lost \cup {hook.of}
    /\ UNCHANGED deliveries /\ HookOnly

\* The wait is long enough for YouTrack to commit what the delivery is about.
Elapses(t) ==
    /\ t.at = "waits" /\ Len(card[t.by.card]) >= t.by.rev
    /\ timers' = (timers \ {t}) \cup {[t EXCEPT !.at = "up"]}
    /\ UNCHANGED <<deliveries, hook, settling, due, lost>> /\ HookOnly

Sync(by, o) == [by |-> by, of |-> o, card |-> NoCard, rev |-> 0, at |-> "get"]

\* Mutant: any wait of the observation is taken for this timer's.
SettledAny(t) ==
    /\ t.at = "up"
    /\ timers' = timers \ {t} /\ settling' = [settling EXCEPT ![t.of] = NoDue]
    /\ syncs' = IF settling[t.of] = NoDue THEN syncs ELSE syncs \cup {Sync(t.by, t.of)}
    /\ UNCHANGED <<world, doc, dirty, indexVars, hook, used, due, lost>>

\* settled: a later delivery may have restarted the wait.
Settled(t) ==
    /\ t.at = "up" /\ timers' = timers \ {t}
    /\ IF settling[t.of] # t.by THEN UNCHANGED <<settling, syncs>>
       ELSE settling' = [settling EXCEPT ![t.of] = NoDue] /\ syncs' = syncs \cup {Sync(t.by, t.of)}
    /\ UNCHANGED <<world, doc, dirty, indexVars, hook, used, due, lost>>

\* stop: the syncs still waiting to settle are dropped.
Stops ==
    /\ \E o \in Observations : settling[o] # NoDue
    /\ timers' = {t \in timers : t.at = "up"}
    /\ lost' = lost \cup {o \in Observations : settling[o] # NoDue}
    /\ settling' = [o \in Observations |-> NoDue]
    /\ UNCHANGED <<world, doc, dirty, indexVars, hook, syncs, used, due>>

----------------------------------------------------------------------------
(* board_sync: a queued sync's, or the reconciler's scan's.                *)

SyncOnly == UNCHANGED <<world, indexVars, hook, settling, timers, due>>
Goes(s, t) == syncs' = (syncs \ {s}) \cup {t}
Ends(s) == syncs' = syncs \ {s}

Scans(o) ==
    /\ doc[o].card # NoCard /\ Uses
    /\ \A s \in syncs : s.by # NoDue
    /\ syncs' = syncs \cup {Sync(NoDue, o)}
    /\ UNCHANGED <<doc, dirty, lost>> /\ SyncOnly

\* An entry that is away or has no card is refused.  A queued sync is lost then, and
\* when it finds another card than the delivery was of.
Gets(s) ==
    /\ s.at = "get"
    /\ IF entries[s.of] \in Cards THEN Goes(s, [s EXCEPT !.card = entries[s.of], !.at = "read"])
       ELSE Ends(s)
    /\ lost' = IF s.by.card \in {NoCard, entries[s.of]} THEN lost ELSE lost \cup {s.of}
    /\ UNCHANGED <<doc, dirty, used>> /\ SyncOnly

Reads(s) ==
    /\ s.at = "read"
    /\ Goes(s, [s EXCEPT !.rev = Len(card[s.card]), !.at = "apply"])
    /\ UNCHANGED <<doc, dirty, used, lost>> /\ SyncOnly

\* The board or the store cannot be reached.
Fails(s) ==
    /\ s.at # "get" /\ Uses
    /\ Ends(s) /\ lost' = IF s.by = NoDue THEN lost ELSE lost \cup {s.of}
    /\ UNCHANGED <<doc, dirty>> /\ SyncOnly

Read(s) == [card |-> s.card, rev |-> s.rev]
Closes(d, s) == s.rev > 1 /\ d.status # "open"
Synced(d, s) ==
    LET x == [d EXCEPT !.time = card[s.card][s.rev], !.seen = Read(s)]
    IN IF Closes(d, s) THEN [x EXCEPT !.status = "closed", !.outcome = Read(s)] ELSE x

\* Mutant: whatever was read is applied.
AppliesAny(s) ==
    /\ s.at = "apply" /\ Ends(s)
    /\ IF doc[s.of].card # s.card THEN UNCHANGED <<doc, dirty>>
       ELSE doc' = [doc EXCEPT ![s.of] = Synced(@, s)] /\ dirty' = dirty \cup {s.of}
    /\ UNCHANGED <<used, lost>> /\ SyncOnly

\* _apply, by the store's queue at the tip.
Applies(s) ==
    /\ s.at = "apply" /\ Ends(s)
    /\ IF doc[s.of].card # s.card \/ card[s.card][s.rev] <= doc[s.of].time
       THEN UNCHANGED <<doc, dirty>>
       ELSE doc' = [doc EXCEPT ![s.of] = Synced(@, s)] /\ dirty' = dirty \cup {s.of}
    /\ UNCHANGED <<used, lost>> /\ SyncOnly

SyncSteps(s) == Gets(s) \/ Reads(s) \/ Fails(s) \/ Applies(s)

BoardNext ==
    \/ Tick \/ (\E c \in Cards : Announces(c) \/ Commits(c))
    \/ \E o \in Observations : Unlinks(o) \/ Reopens(o) \/ Scans(o) \/ \E c \in Cards : Links(o, c)
    \/ UpdateSteps
    \/ Lost \/ HookLooks \/ HookQueues \/ Stops
    \/ \E t \in timers : Elapses(t) \/ Settled(t)
    \/ \E s \in syncs : SyncSteps(s)

BoardSpec == BoardInit /\ [][BoardNext]_boardVars

----------------------------------------------------------------------------
Dues == [card : Cards \cup {NoCard}, rev : Nat]
Docs ==
    [status : {"open", "raised", "closed"}, card : Cards \cup {NoCard}, time : Nat,
     seen : Dues, outcome : Dues]
Hooks == {NoHook} \cup [card : Cards, rev : Nat, of : Observations]
Timers == [by : Dues, of : Observations, at : {"waits", "up"}]
SyncShapes ==
    [by : Dues, of : Observations, card : Cards \cup {NoCard}, rev : Nat,
     at : {"get", "read", "apply"}]
Updates ==
    [at : {"none", "next", "unmap", "put", "map"}, of : Observations \cup {NoObservation},
     was : Cards \cup {NoCard, Absent}, todo : SUBSET Observations,
     read : [Observations -> Cards \cup {NoCard}]]
\* Every variable has the shape its code has.
BoardTypeOK ==
    /\ now \in Nat /\ card \in [Cards -> Seq(Nat)] /\ coming \in [Cards -> Nat]
    /\ deliveries \in Seq([card : Cards, rev : Nat])
    /\ doc \in [Observations -> Docs] /\ dirty \subseteq Observations
    /\ entries \in [Observations -> Cards \cup {NoCard, Absent}]
    /\ mapped \in [Cards -> Observations \cup {NoObservation}]
    /\ update \in Updates /\ hook \in Hooks /\ settling \in [Observations -> Dues]
    /\ timers \subseteq Timers /\ syncs \subseteq SyncShapes
    /\ used \in Nat /\ due \in [Observations -> Dues]
    /\ lost \subseteq Observations /\ shared \subseteq Cards

\* The map a delivery is looked up in tells what the entries do (index.py), but for a
\* card that one update took from an entry and gave to another: whichever is taken
\* in last decides, and removing the former owner's drops the new one's.
MapIsEntries ==
    update = NoUpdate =>
        /\ \A c \in Cards : mapped[c] # NoObservation => entries[mapped[c]] = c
        /\ \A o \in Observations : entries[o] \in Cards \ shared => mapped[entries[o]] = o

\* "One read then covers both" (sync_later): once no sync of an observation waits or
\* runs, the file has what the newest queued delivery was about, unless the sync
\* failed, or the time it compares had passed: by another change in that second,
\* or under the card the observation had before.
QueuedIsApplied ==
    \A o \in Observations :
        LET d == due[o]
            x == doc[o]
            idle == settling[o] = NoDue /\ \A t \in timers \cup syncs : t.of = o => t.by = NoDue
        IN idle /\ d # NoDue /\ o \notin lost =>
            \/ x.seen.card = d.card /\ x.seen.rev >= d.rev
            \/ x.time = card[d.card][d.rev]
            \/ x.time > card[d.card][d.rev] /\ x.seen.card # d.card

\* A sync only goes on in its observation's card, and what closes it is a resolution of
\* its own card, never a former one's; one not recorded before, so that what a reopening
\* took back does not close it again, and not while it is open.  A resolution that was read
\* and not recorded before a reopening does close it, once the skills have linked it to the
\* card again; and of two changes in one second the one applied first stands.
SyncGoesOn ==
    [][\A o \in Observations :
        /\ doc'[o].seen.card = doc[o].seen.card => doc'[o].seen.rev >= doc[o].seen.rev
        /\ doc'[o].outcome \notin {doc[o].outcome, NoDue} =>
            /\ doc'[o].outcome.card = doc[o].card /\ doc[o].status # "open"
            /\ doc[o].seen.card = doc[o].card => doc'[o].outcome.rev > doc[o].seen.rev]_doc
=============================================================================
