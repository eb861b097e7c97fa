------------------------------- MODULE Triage -------------------------------
(***************************************************************************)
(* The operator's triage: the items in the store and the writes to them    *)
(* (backend/app/fieldnotes/rulings.py), the index the queue is read from   *)
(* (triage.py), the screen that rules before its writes are through        *)
(* (frontend/src/hooks/use-triage.ts), and the skills that list, rewrite   *)
(* and stamp the items behind both.  A write is one step at the remote's   *)
(* tip and brings the index there, as StoreQueue's do; it is one page on   *)
(* one pod.  A time is told only as the code compares it: `written` is the *)
(* item's revision, and a ruling is before or after the question.          *)
(***************************************************************************)
EXTENDS Integers, FiniteSets

CONSTANTS
    Items,          \* the observations an item may be open for
    MaxWrites,      \* bound: the rulings and take-backs of the page
    MaxOutside,     \* bound: the skills' pushes, and the operator's returns to the tab
    MaxFaults       \* bound: the calls that go wrong

ASSUME TriageAssumption == {MaxWrites, MaxOutside, MaxFaults} \subseteq Nat

VARIABLES
    open,           \* triage/ at the remote's tip
    index,          \* TriageIndex._items
    shown,          \* the page's queue, as a fetch or a reply last left it
    fetch,          \* its fetch under way
    writes,         \* its rulings and take-backs in flight
    pending,        \* the write each card shows meanwhile, 0 for none
    submit,         \* its submit under way
    counter,        \* counter.current, which numbers the writes
    spent,          \* what the bounds count: the outside's steps, and the faults
    asked,          \* history: each card's newest write
    crossed,        \* history: a card written again while it was being written
    spoiled         \* history: a card whose write was refused, failed or unheard

pageVars == <<shown, fetch, writes, pending, submit, counter>>
historyVars == <<asked, crossed, spoiled>>
triageVars == <<open, index, pageVars, spent, historyVars>>

(***************************************************************************)
(* An item as the store holds it, at its file's revision; and one that is  *)
(* not there.  A ruling is known by the write that made it: 0, and it is   *)
(* none.  `answers` says that it is later than the question, if any; `saw` *)
(* is history: the item as the card showed it to the operator.             *)
(***************************************************************************)
NoRuling == [by |-> 0, submitted |-> FALSE, answers |-> FALSE, saw |-> <<0, FALSE>>]
Item(rev) == [in |-> TRUE, rev |-> rev, written |-> rev, question |-> FALSE, ruling |-> NoRuling]
Gone(rev) == [Item(rev) EXCEPT !.in = FALSE]

Submitted(x) == x.ruling.submitted
Ruled(x) == x.ruling # NoRuling /\ (x.question => x.ruling.answers)

\* TriageIndex.queue: the items whose ruling is absent or not submitted.
Waiting(x) == IF x.in /\ ~Submitted(x) THEN x ELSE Gone(x.rev)
Queue == [i \in Items |-> Waiting(index[i])]

NoFetch == [at |-> "none", items |-> [i \in Items |-> Gone(0)]]
Fetching == [NoFetch EXCEPT !.at = "asked"]
NoSubmit == [at |-> "none", waits |-> {}, meant |-> [i \in Items |-> 0], ids |-> {},
             revs |-> [i \in Items |-> 0]]

\* The queue, one open item on each observation, and a page that is loading.
TriageInit ==
    /\ open = [i \in Items |-> Item(1)] /\ index = open
    /\ shown = NoFetch.items /\ fetch = Fetching
    /\ writes = {} /\ pending = [i \in Items |-> 0]
    /\ submit = NoSubmit /\ counter = 0
    /\ spent = [outside |-> 0, faults |-> 0]
    /\ asked = [i \in Items |-> 0]
    /\ crossed = {} /\ spoiled = {}

Spends(what, limit) == spent[what] < limit /\ spent' = [spent EXCEPT ![what] = @ + 1]
Fault == Spends("faults", MaxFaults)

----------------------------------------------------------------------------
(* The page's writes.                                                      *)

\* A card is ruled as it shows, a write in flight included.
PendingWrite(i) == CHOOSE w \in writes : w.seq = pending[i]
ShowsRuled(i) ==
    shown[i].in /\ IF pending[i] = 0 THEN Ruled(shown[i]) ELSE PendingWrite(i).rules

\* write: the card shows its ruling from now on, and the request is sent with the
\* card's `written`.
Writes(i, rules) ==
    /\ shown[i].in /\ counter < MaxWrites
    /\ counter' = counter + 1
    /\ writes' = writes \cup {[seq |-> counter', item |-> i, rules |-> rules,
                               saw |-> <<shown[i].written, shown[i].question>>,
                               at |-> "sent", reply |-> Gone(0)]}
    /\ pending' = [pending EXCEPT ![i] = counter']
    /\ asked' = [asked EXCEPT ![i] = counter']
    /\ crossed' = IF submit # NoSubmit \/ \E w \in writes : w.item = i
                  THEN crossed \cup {i} ELSE crossed
    /\ UNCHANGED <<open, index, shown, fetch, submit, spent, spoiled>>

Rule(i) == Writes(i, TRUE)
TakeBack(i) == ShowsRuled(i) /\ Writes(i, FALSE)

Become(w, at, reply) == writes' = (writes \ {w}) \cup {[w EXCEPT !.at = at, !.reply = reply]}

\* Mutant: the item's `written` is not compared.
OpensRewritten(w) == open[w.item].in /\ ~Submitted(open[w.item])

\* _open: the item at the tip, if the operator may still change its ruling.
Opens(w) ==
    /\ open[w.item].in /\ ~Submitted(open[w.item])
    /\ open[w.item].written = w.saw[1]

\* _set_ruling, for a ruling and for a take-back: one that changes nothing is no
\* commit.
Edited(w) ==
    LET x == open[w.item] IN
    CASE w.rules -> [x EXCEPT !.rev = @ + 1, !.ruling = [NoRuling EXCEPT
                                  !.by = w.seq, !.answers = TRUE, !.saw = w.saw]]
      [] x.ruling = NoRuling -> x
      [] OTHER -> [x EXCEPT !.rev = @ + 1, !.ruling = NoRuling]

\* rule and take_back, by the store's queue.
WriteLands(w) ==
    /\ w.at = "sent"
    /\ IF Opens(w) THEN open' = [open EXCEPT ![w.item] = Edited(w)] /\ Become(w, "ok", Edited(w))
       ELSE UNCHANGED open /\ Become(w, "bad", w.reply)
    /\ index' = open'
    /\ UNCHANGED <<shown, fetch, pending, submit, counter, spent, historyVars>>

\* The push lands and is not heard of, or the write fails.
WriteFails(w) ==
    /\ w.at = "sent" /\ Fault
    /\ \/ /\ Opens(w)
          /\ open' = [open EXCEPT ![w.item] = Edited(w)] /\ index' = open
       \/ UNCHANGED <<open, index>>
    /\ Become(w, "bad", w.reply)
    /\ UNCHANGED <<shown, fetch, pending, submit, counter, historyVars>>

\* The reply is heard: a card whose newer write is in flight goes on showing it.
Settles(w) ==
    /\ writes' = writes \ {w}
    /\ pending' = [pending EXCEPT ![w.item] = IF @ = w.seq THEN 0 ELSE @]

\* A write that succeeded: the fetch under way is cancelled and the item replaced.
Heard(w) ==
    /\ w.at = "ok" /\ Settles(w)
    /\ fetch' = NoFetch
    /\ shown' = IF shown[w.item].in THEN [shown EXCEPT ![w.item] = w.reply] ELSE shown
    /\ UNCHANGED <<open, index, submit, counter, spent, asked, crossed, spoiled>>

\* One that did not: the queue is fetched again.
HeardFailure(w) ==
    /\ w.at = "bad" /\ Settles(w)
    /\ fetch' = Fetching
    /\ spoiled' = spoiled \cup {w.item}
    /\ UNCHANGED <<open, index, shown, submit, counter, spent, asked, crossed>>

WriteSteps(w) == WriteLands(w) \/ WriteFails(w) \/ Heard(w) \/ HeardFailure(w)

----------------------------------------------------------------------------
(* The page's fetches.                                                     *)

PageOnly == UNCHANGED <<open, index, writes, pending, submit, counter, historyVars>>

\* The operator comes back to the tab; one that is under way is not repeated.
Focus ==
    /\ fetch = NoFetch /\ Spends("outside", MaxOutside)
    /\ fetch' = Fetching
    /\ UNCHANGED shown /\ PageOnly

\* GET /api/triage/queue.
Served ==
    /\ fetch.at = "asked"
    /\ fetch' = [at |-> "served", items |-> Queue]
    /\ UNCHANGED <<shown, spent>> /\ PageOnly

Arrives ==
    /\ fetch.at = "served"
    /\ shown' = fetch.items /\ fetch' = NoFetch
    /\ UNCHANGED spent /\ PageOnly

FetchFails ==
    /\ fetch # NoFetch /\ Fault
    /\ fetch' = NoFetch
    /\ UNCHANGED shown /\ PageOnly

----------------------------------------------------------------------------
(* The page's submit.                                                      *)

SubmitOnly == UNCHANGED <<writes, pending, counter, asked, crossed, spoiled>>

\* The writes in flight are waited for, whatever becomes of them.
Presses ==
    /\ submit = NoSubmit
    /\ \E i \in Items : ShowsRuled(i)
    /\ submit' = [NoSubmit EXCEPT !.at = "waits", !.waits = {w.seq : w \in writes}, !.meant = asked]
    /\ UNCHANGED <<open, index, shown, fetch, spent>> /\ SubmitOnly

\* Mutant: none is waited for.
AsksAtOnce ==
    /\ submit.at = "waits"
    /\ submit' = [submit EXCEPT !.at = "asked", !.waits = {}]
    /\ UNCHANGED <<open, index, shown, fetch, spent>> /\ SubmitOnly

Asks ==
    /\ submit.at = "waits"
    /\ \A w \in writes : w.seq \notin submit.waits
    /\ submit' = [submit EXCEPT !.at = "asked", !.waits = {}]
    /\ UNCHANGED <<open, index, shown, fetch, spent>> /\ SubmitOnly

\* Rulings.submit: every ruled, unsubmitted item.
Due == {i \in Items : open[i].in /\ ~Submitted(open[i]) /\ Ruled(open[i])}
Submits(at) ==
    /\ submit.at = "asked"
    /\ open' = [i \in Items |->
                 IF i \in Due THEN [open[i] EXCEPT !.rev = @ + 1, !.ruling.submitted = TRUE]
                                ELSE open[i]]
    /\ submit' = [submit EXCEPT !.at = at, !.ids = Due, !.revs = [i \in Items |-> open'[i].rev]]
    /\ UNCHANGED <<shown, fetch>> /\ SubmitOnly

SubmitLands == Submits("ok") /\ index' = open' /\ UNCHANGED spent
SubmitUnheard == Submits("bad") /\ index' = open /\ Fault
SubmitFails ==
    /\ submit.at = "asked" /\ Fault
    /\ submit' = [submit EXCEPT !.at = "bad"]
    /\ UNCHANGED <<open, index, shown, fetch>> /\ SubmitOnly

\* What was submitted leaves the stack, and the queue is fetched again.
SubmitHeard ==
    /\ submit.at = "ok"
    /\ submit' = NoSubmit /\ fetch' = Fetching
    /\ shown' = [i \in Items |-> IF i \in submit.ids THEN Gone(submit.revs[i]) ELSE shown[i]]
    /\ UNCHANGED <<open, index, spent>> /\ SubmitOnly

SubmitHeardFailure ==
    /\ submit.at = "bad"
    /\ submit' = NoSubmit /\ fetch' = Fetching
    /\ spoiled' = spoiled \cup submit.ids
    /\ UNCHANGED <<open, index, shown, spent, writes, pending, counter, asked, crossed>>

SubmitSteps ==
    \/ Presses \/ Asks \/ SubmitLands \/ SubmitUnheard \/ SubmitFails
    \/ SubmitHeard \/ SubmitHeardFailure

----------------------------------------------------------------------------
(* The skills' pushes, as docs/design.md has them (FR-15, FR-19).          *)

Pushes(i, x) ==
    /\ Spends("outside", MaxOutside)
    /\ open' = [open EXCEPT ![i] = x]
    /\ UNCHANGED <<index, pageVars, historyVars>>

Lists(i) == ~open[i].in /\ Pushes(i, Item(open[i].rev + 1))
Drafted(i) == open[i].in /\ ~Submitted(open[i]) /\ ~open[i].question
Rewrites(i) == Drafted(i) /\ Pushes(i, Item(open[i].rev + 1))
Withdraws(i) == Drafted(i) /\ Pushes(i, Gone(open[i].rev + 1))
Stamps(i) == Submitted(open[i]) /\ Pushes(i, Gone(open[i].rev + 1))
Returned(x) ==
    [x EXCEPT !.rev = @ + 1, !.question = TRUE,
              !.ruling.submitted = FALSE, !.ruling.answers = FALSE]
Returns(i) == Submitted(open[i]) /\ Pushes(i, Returned(open[i]))

\* TriageIndex.update, at a pull.
Pull ==
    /\ index # open /\ index' = open
    /\ UNCHANGED <<open, pageVars, spent, historyVars>>

TriageNext ==
    \/ \E i \in Items : Rule(i) \/ TakeBack(i)
    \/ \E w \in writes : WriteSteps(w)
    \/ Focus \/ Served \/ Arrives \/ FetchFails
    \/ SubmitSteps
    \/ \E i \in Items : Lists(i) \/ Rewrites(i) \/ Withdraws(i) \/ Stamps(i) \/ Returns(i)
    \/ Pull

TriageSpec == TriageInit /\ [][TriageNext]_triageVars

----------------------------------------------------------------------------
TriageTypeOK ==
    /\ \A i \in Items : pending[i] # 0 => \E w \in writes : w.seq = pending[i] /\ w.item = i
    /\ \A i \in Items : index[i].rev <= open[i].rev /\ shown[i].rev <= open[i].rev
    /\ fetch.at \in {"none", "asked", "served"}
    /\ submit.at \in {"none", "waits", "asked", "ok", "bad"}
    /\ submit.ids \subseteq Items /\ crossed \cup spoiled \subseteq Items
    /\ counter \in 0..MaxWrites

\* "The reconciler rewrote the item after the page loaded" (docs/design.md, FR-25):
\* no ruling stands on an item the operator did not see as it is, whatever write,
\* rewrite and submit come in between.  A returned item's answer is to a question
\* that the card showed, unless the card was written while it was being submitted
\* or after a submit that landed and was not heard.
RulesWhatItShowed ==
    \A i \in Items : open[i].ruling # NoRuling =>
        LET r == open[i].ruling IN
        /\ r.saw[1] = open[i].written
        /\ open[i].question /\ r.answers => r.saw[2] \/ i \in crossed \cup spoiled

\* "A submit waits for the writes in flight" (use-triage.ts): it submits no ruling
\* of a card that the operator had replaced or taken back when pressing it, unless
\* that write failed or raced another of the same card.
SubmitsNoOlder ==
    submit.at \in {"ok", "bad"} => \A i \in submit.ids :
        Submitted(open[i]) => open[i].ruling.by >= submit.meant[i] \/ i \in crossed \cup spoiled
=============================================================================
