---------------------------- MODULE ScreensProofs ----------------------------
(***************************************************************************)
(* Proofs about the operator's screens: the triage (Triage), for any       *)
(* items, writes and pushes, and the inbox's page (InboxPage), for any     *)
(* tasks, lines and lost events.                                           *)
(***************************************************************************)
EXTENDS Triage, InboxPage, TLAPS

----------------------------------------------------------------------------
(* Triage: what the page, its replies and the index hold of an item.       *)

RulingRecords == [by : Nat, submitted : BOOLEAN, answers : BOOLEAN, saw : Nat \X BOOLEAN]
ItemRecords ==
    [in : BOOLEAN, rev : Nat, written : Nat, question : BOOLEAN, ruling : RulingRecords]
Queues == [Items -> ItemRecords]
WriteRecords ==
    [seq : Nat, item : Items, rules : BOOLEAN, saw : Nat \X BOOLEAN, at : {"sent", "ok", "bad"},
     reply : ItemRecords]
SubmitRecords ==
    [at : {"none", "waits", "asked", "ok", "bad"}, waits : SUBSET Nat, meant : [Items -> Nat],
     ids : SUBSET Items, revs : [Items -> Nat]]
ShapesInv ==
    /\ open \in Queues /\ index \in Queues /\ shown \in Queues
    /\ fetch \in [at : {"none", "asked", "served"}, items : Queues]
    /\ writes \subseteq WriteRecords /\ submit \in SubmitRecords
    /\ pending \in [Items -> Nat] /\ asked \in [Items -> Nat] /\ counter \in 0..MaxWrites
    /\ spent \in [outside : Nat, faults : Nat] /\ crossed \subseteq Items /\ spoiled \subseteq Items

\* x is what item y was, at its revision or before it.
Known(x, y) == x.rev <= y.rev /\ x.written <= y.rev
KnownInv ==
    /\ \A i \in Items : /\ Known(open[i], open[i]) /\ Known(index[i], open[i])
                        /\ Known(shown[i], open[i]) /\ Known(fetch.items[i], open[i])
                        /\ submit.revs[i] <= open[i].rev
    /\ \A w \in writes : w.saw[1] <= open[w.item].rev /\ Known(w.reply, open[w.item])

\* Item y as it was written once, before the ruling of it that was submitted.
Before(written, y) == written = y.written /\ (y.question \/ Submitted(y))
Stale(x, y) == x.in /\ ~x.question /\ Before(x.written, y)
Unaware(saw, y) == ~saw[2] /\ Before(saw[1], y)

Excused == crossed \cup spoiled
Leaving == IF submit.at \in {"ok", "bad"} THEN submit.ids ELSE {}
Unheard == IF submit.at = "bad" THEN submit.ids ELSE {}

\* Such an item is shown, or comes back, only where the card was written while it was
\* being submitted, or the submit is not heard of.
StaleInv ==
    /\ \A i \in Items :
          /\ Stale(shown[i], open[i]) => i \in Excused \cup Leaving
          /\ Stale(fetch.items[i], open[i]) => i \in Excused \cup Leaving
          /\ Stale(index[i], open[i]) /\ ~Submitted(index[i]) => i \in Excused \cup Unheard
    /\ \A w \in writes :
          /\ Unaware(w.saw, open[w.item]) => w.item \in Excused
          /\ w.at = "ok" /\ Stale(w.reply, open[w.item]) => w.item \in Excused

\* A card's writes are in flight one at a time, and none beside a submit, but where the
\* card is crossed.
TurnsInv ==
    /\ \A w \in writes : w.seq \in 1..counter /\ (w.item \in crossed \/ w.seq = asked[w.item])
    /\ \A v, w \in writes : v.seq = w.seq => v = w
    /\ \A i \in Items : pending[i] # 0 => \E w \in writes : w.seq = pending[i] /\ w.item = i
    /\ submit.at = "none" => submit = NoSubmit
    /\ submit.at # "none" =>
          /\ \A w \in writes : w.seq \in submit.waits \/ w.item \in crossed
          /\ \A i \in Items \ crossed : submit.meant[i] = asked[i]
    /\ submit.at # "waits" => submit.waits = {}
    /\ submit.at \in {"waits", "asked"} => submit.ids = {}

\* A card's newest write is in flight, or its ruling is that write's.
Newest(i) ==
    \/ \E w \in writes : w.item = i /\ w.seq = asked[i] /\ w.at \in {"sent", "bad"}
    \/ open[i].ruling = NoRuling
    \/ open[i].ruling.by >= asked[i]
NewestInv == \A i \in Items \ Excused : Newest(i)

TriageInv ==
    /\ ShapesInv /\ KnownInv /\ StaleInv /\ TurnsInv /\ NewestInv
    /\ RulesWhatItShowed /\ SubmitsNoOlder

----------------------------------------------------------------------------
\* The items the operators of Triage make.
LEMMA MadeItems ==
  /\ NoRuling \in RulingRecords /\ NoRuling.by = 0 /\ ~NoRuling.submitted /\ ~NoRuling.answers
  /\ \A r \in Nat : /\ Item(r) \in ItemRecords /\ Item(r).in /\ Item(r).rev = r
                    /\ Item(r).written = r /\ ~Item(r).question /\ Item(r).ruling = NoRuling
                    /\ Gone(r) \in ItemRecords /\ ~Gone(r).in /\ Gone(r).rev = r
                    /\ Gone(r).written = r /\ ~Gone(r).question /\ Gone(r).ruling = NoRuling
<1>1. NoRuling \in RulingRecords /\ NoRuling.by = 0 /\ ~NoRuling.submitted /\ ~NoRuling.answers
  BY DEF NoRuling, RulingRecords
<1>2. ASSUME NEW r \in Nat
      PROVE  /\ Item(r) \in ItemRecords /\ Item(r).in /\ Item(r).rev = r
             /\ Item(r).written = r /\ ~Item(r).question /\ Item(r).ruling = NoRuling
  BY <1>1 DEF Item, ItemRecords
<1>3. ASSUME NEW r \in Nat
      PROVE  /\ Gone(r) \in ItemRecords /\ ~Gone(r).in /\ Gone(r).rev = r
             /\ Gone(r).written = r /\ ~Gone(r).question /\ Gone(r).ruling = NoRuling
  BY <1>1, <1>2 DEF Gone, Item, ItemRecords
<1> QED
  BY <1>1, <1>2, <1>3

\* What an operator's write makes of an item.
Rewritten(x, y) == y.in = x.in /\ y.question = x.question /\ y.written = x.written /\ x.rev <= y.rev
LEMMA Ruling ==
  ASSUME NEW x \in ItemRecords, NEW r \in RulingRecords
  PROVE  LET y == [x EXCEPT !.rev = @ + 1, !.ruling = r]
             z == [x EXCEPT !.rev = @ + 1, !.question = TRUE, !.ruling = r]
         IN /\ y \in ItemRecords /\ Rewritten(x, y) /\ y.ruling = r
            /\ z \in ItemRecords /\ z.in = x.in /\ z.question /\ z.written = x.written
            /\ x.rev <= z.rev /\ z.ruling = r
<1> DEFINE n == x.rev + 1
           y == [x EXCEPT !.rev = n, !.ruling = r]
           z == [x EXCEPT !.rev = n, !.question = TRUE, !.ruling = r]
<1>1. n \in Nat /\ x.rev <= n
  BY DEF ItemRecords
<1> HIDE DEF n
<1>2. y \in ItemRecords /\ z \in ItemRecords
  BY <1>1 DEF ItemRecords
<1>3. /\ y.in = x.in /\ y.question = x.question /\ y.written = x.written
      /\ y.rev = n /\ y.ruling = r
  BY <1>1 DEF ItemRecords
<1>4. z.in = x.in /\ z.question /\ z.written = x.written /\ z.rev = n /\ z.ruling = r
  BY <1>1 DEF ItemRecords
<1>5. Rewritten(x, y)
  BY <1>1, <1>3 DEF Rewritten
<1> QED
  BY <1>1, <1>2, <1>3, <1>4, <1>5 DEF n

LEMMA EditedItem ==
  ASSUME ShapesInv, NEW w \in writes, Opens(w)
  PROVE  /\ Edited(w) \in ItemRecords /\ Rewritten(open[w.item], Edited(w)) /\ ~Submitted(Edited(w))
         /\ \/ Edited(w).ruling = NoRuling
            \/ Edited(w).ruling.by = w.seq /\ Edited(w).ruling.saw = w.saw
<1> DEFINE x == open[w.item]
           r == [NoRuling EXCEPT !.by = w.seq, !.answers = TRUE, !.saw = w.saw]
           ruled == [x EXCEPT !.rev = @ + 1, !.ruling = r]
           freed == [x EXCEPT !.rev = @ + 1, !.ruling = NoRuling]
<1>1. x \in ItemRecords /\ w.seq \in Nat /\ w.saw \in Nat \X BOOLEAN /\ ~Submitted(x)
  BY DEF ShapesInv, Queues, WriteRecords, Opens
<1>2. r \in RulingRecords /\ r.by = w.seq /\ r.saw = w.saw /\ ~r.submitted
  BY <1>1 DEF NoRuling, RulingRecords
<1> HIDE DEF x, r
<1>3. ruled \in ItemRecords /\ ruled.ruling = r /\ Rewritten(x, ruled)
  BY <1>1, <1>2, Ruling
<1>4. freed \in ItemRecords /\ freed.ruling = NoRuling /\ Rewritten(x, freed)
  <2>1. NoRuling \in RulingRecords
    BY MadeItems
  <2> QED
    BY <1>1, <2>1, Ruling DEF freed
<1>5. \/ Edited(w) = ruled \/ Edited(w) = freed \/ (Edited(w) = x /\ x.ruling = NoRuling)
  BY DEF Edited, x, r
<1>6. Rewritten(x, x)
  BY <1>1 DEF ItemRecords, Rewritten
<1> HIDE DEF ruled, freed
<1>7. CASE Edited(w) = ruled
  BY <1>2, <1>3, <1>7 DEF Submitted, x
<1>8. CASE Edited(w) = freed
  BY <1>4, <1>8, MadeItems DEF Submitted, x
<1>9. CASE Edited(w) = x /\ x.ruling = NoRuling
  BY <1>1, <1>6, <1>9 DEF x
<1> QED
  BY <1>5, <1>7, <1>8, <1>9

\* What a submit makes of one.
LEMMA SubmittedItem ==
  ASSUME NEW x \in ItemRecords
  PROVE  LET y == [x EXCEPT !.rev = @ + 1, !.ruling.submitted = TRUE] IN
         /\ y \in ItemRecords /\ Rewritten(x, y) /\ Submitted(y) /\ y.ruling # NoRuling
         /\ y.ruling.by = x.ruling.by /\ y.ruling.saw = x.ruling.saw
         /\ y.ruling.answers = x.ruling.answers
<1> DEFINE r == [x.ruling EXCEPT !.submitted = TRUE]
           y == [x EXCEPT !.rev = @ + 1, !.ruling = r]
<1>1. x.ruling \in RulingRecords
  BY DEF ItemRecords
<1>2. /\ r \in RulingRecords /\ r.by = x.ruling.by /\ r.saw = x.ruling.saw
      /\ r.answers = x.ruling.answers /\ r.submitted
  BY <1>1 DEF RulingRecords
<1> HIDE DEF r
<1>3. y \in ItemRecords /\ y.ruling = r /\ Rewritten(x, y)
  BY <1>2, Ruling
<1>4. [x EXCEPT !.rev = @ + 1, !.ruling.submitted = TRUE] = y
  BY <1>1 DEF r, ItemRecords, RulingRecords
<1>5. y.ruling # NoRuling
  BY <1>2, <1>3, MadeItems
<1> HIDE DEF y
<1> QED
  BY <1>2, <1>3, <1>4, <1>5 DEF Submitted

\* And what a skill makes of it that gives it back with a question.
LEMMA ReturnedItem ==
  ASSUME NEW x \in ItemRecords
  PROVE  /\ Returned(x) \in ItemRecords /\ Returned(x).in = x.in /\ Returned(x).question
         /\ Returned(x).written = x.written /\ x.rev <= Returned(x).rev /\ ~Submitted(Returned(x))
         /\ Returned(x).ruling.by = x.ruling.by /\ Returned(x).ruling.saw = x.ruling.saw
         /\ ~Returned(x).ruling.answers
<1> DEFINE r == [x.ruling EXCEPT !.submitted = FALSE, !.answers = FALSE]
           y == [x EXCEPT !.rev = @ + 1, !.question = TRUE, !.ruling = r]
<1>1. x.ruling \in RulingRecords
  BY DEF ItemRecords
<1>2. /\ r \in RulingRecords /\ r.by = x.ruling.by /\ r.saw = x.ruling.saw
      /\ ~r.answers /\ ~r.submitted
  BY <1>1 DEF RulingRecords
<1>3. Returned(x) = y
  BY <1>1 DEF Returned, ItemRecords, RulingRecords
<1> HIDE DEF r
<1>4. y \in ItemRecords /\ y.ruling = r /\ y.in = x.in /\ y.question /\ y.written = x.written /\ x.rev <= y.rev
  BY <1>2, Ruling
<1> HIDE DEF y
<1> QED
  BY <1>2, <1>3, <1>4 DEF Submitted

----------------------------------------------------------------------------
LEMMA TriageInitInv == TriageInit => TriageInv
<1> SUFFICES ASSUME TriageInit PROVE TriageInv
  OBVIOUS
<1> USE TriageAssumption
<1>1. /\ \A i \in Items : /\ open[i] = Item(1) /\ index[i] = Item(1) /\ shown[i] = Gone(0)
                          /\ fetch.items[i] = Gone(0) /\ submit.revs[i] = 0
      /\ writes = {} /\ submit = NoSubmit /\ submit.at = "none" /\ submit.waits = {}
      /\ submit.ids = {}
  BY DEF TriageInit, NoFetch, Fetching, NoSubmit
<1>2. /\ Item(1) \in ItemRecords /\ Item(1).rev = 1 /\ Item(1).written = 1 /\ ~Item(1).question
      /\ Gone(0) \in ItemRecords /\ ~Gone(0).in /\ Gone(0).rev = 0 /\ Gone(0).written = 0
      /\ Item(1).ruling = NoRuling /\ ~NoRuling.submitted
  <2>1. 0 \in Nat /\ 1 \in Nat
    OBVIOUS
  <2> QED
    BY <2>1, MadeItems
<1>3. ShapesInv
  <2>1. Fetching \in [at : {"none", "asked", "served"}, items : Queues]
    BY <1>2 DEF Fetching, NoFetch, Queues
  <2>2. NoSubmit \in SubmitRecords
    BY DEF NoSubmit, SubmitRecords
  <2>3. open \in Queues /\ index \in Queues /\ shown \in Queues
    BY <1>2 DEF TriageInit, NoFetch, Queues
  <2> QED
    BY <2>1, <2>2, <2>3 DEF TriageInit, ShapesInv
<1>4. KnownInv
  BY <1>1, <1>2 DEF KnownInv, Known
<1>5. StaleInv
  BY <1>1, <1>2 DEF StaleInv, Stale, Before, Submitted
<1>6. TurnsInv /\ NewestInv
  BY <1>1, <1>2 DEF TriageInit, TurnsInv, NewestInv, Newest
<1>7. RulesWhatItShowed /\ SubmitsNoOlder
  BY <1>1, <1>2 DEF RulesWhatItShowed, SubmitsNoOlder
<1> QED
  BY <1>3, <1>4, <1>5, <1>6, <1>7 DEF TriageInv

----------------------------------------------------------------------------
\* Steps that leave the items as they are.
LEMMA KnownKept ==
  ASSUME KnownInv, UNCHANGED open,
         \A i \in Items :
            /\ index'[i] = index[i] \/ Known(index'[i], open[i])
            /\ shown'[i] = shown[i] \/ Known(shown'[i], open[i])
            /\ fetch'.items[i] = fetch.items[i] \/ Known(fetch'.items[i], open[i])
            /\ submit'.revs[i] = submit.revs[i] \/ submit'.revs[i] <= open[i].rev,
         \A w \in writes' \ writes : w.saw[1] <= open[w.item].rev /\ Known(w.reply, open[w.item])
  PROVE  KnownInv'
  BY DEF KnownInv, Known

LEMMA StaleKept ==
  ASSUME StaleInv, UNCHANGED open, Excused \subseteq Excused',
         \A i \in Items :
            /\ i \in Leaving => i \in (Excused \cup Leaving)' \/ ~shown'[i].in
            /\ i \in Leaving => i \in (Excused \cup Leaving)' \/ ~fetch'.items[i].in
            /\ i \in Unheard => i \in (Excused \cup Unheard)'
            /\ index'[i] = index[i] \/ index'[i] = open[i]
            /\ \/ shown'[i] = shown[i] \/ shown'[i] = fetch.items[i] \/ ~shown'[i].in
               \/ \E w \in writes : w.item = i /\ w.at = "ok" /\ shown'[i] = w.reply
            /\ \/ fetch'.items[i] = fetch.items[i] \/ ~fetch'.items[i].in
               \/ fetch'.items[i] = index[i] /\ ~Submitted(index[i]) /\ UNCHANGED submit,
         \A w \in writes' \ writes :
            /\ Unaware(w.saw, open[w.item]) => w.item \in Excused'
            /\ w.at # "ok"
  PROVE  StaleInv'
<1>1. ASSUME NEW i \in Items, Stale(shown'[i], open[i]) PROVE i \in (Excused \cup Leaving)'
  <2>1. shown'[i].in
    BY <1>1 DEF Stale
  <2>2. i \in Excused \cup Leaving
    BY <1>1, <2>1 DEF StaleInv
  <2> QED
    BY <2>1, <2>2
<1>2. ASSUME NEW i \in Items, Stale(fetch'.items[i], open[i]) PROVE i \in (Excused \cup Leaving)'
  <2>1. fetch'.items[i].in
    BY <1>2 DEF Stale
  <2>2. i \in Excused \cup Leaving
    BY <1>2, <2>1 DEF StaleInv, Leaving, Unheard
  <2> QED
    BY <2>1, <2>2
<1>3. ASSUME NEW i \in Items, Stale(index'[i], open[i]), ~Submitted(index'[i])
      PROVE  i \in (Excused \cup Unheard)'
  <2>1. CASE index'[i] = index[i]
    BY <1>3, <2>1 DEF StaleInv
  <2>2. CASE index'[i] = open[i]
    BY <1>3, <2>2 DEF Stale, Before
  <2> QED
    BY <2>1, <2>2
<1>4. ASSUME NEW w \in writes'
      PROVE  /\ Unaware(w.saw, open[w.item]) => w.item \in Excused'
             /\ w.at = "ok" /\ Stale(w.reply, open[w.item]) => w.item \in Excused'
  BY DEF StaleInv
<1> QED
  BY <1>1, <1>2, <1>3, <1>4 DEF StaleInv

LEMMA NewestKept ==
  ASSUME NewestInv, UNCHANGED <<open, asked>>, Excused \subseteq Excused',
         \A w \in writes : w.at \in {"sent", "bad"} => w \in writes' \/ w.item \in Excused'
  PROVE  NewestInv'
<1> SUFFICES ASSUME NEW i \in Items, i \notin Excused' PROVE Newest(i)'
  BY DEF NewestInv
<1>1. Newest(i)
  BY DEF NewestInv
<1> QED
  BY <1>1 DEF Newest

LEMMA RulesKept ==
  ASSUME RulesWhatItShowed, UNCHANGED open, Excused \subseteq Excused'
  PROVE  RulesWhatItShowed'
  BY DEF RulesWhatItShowed, Excused

LEMMA SubmitsKept ==
  ASSUME SubmitsNoOlder, UNCHANGED open, Excused \subseteq Excused',
         submit'.at \in {"ok", "bad"} => UNCHANGED submit \/ submit'.ids = {}
  PROVE  SubmitsNoOlder'
  BY DEF SubmitsNoOlder, Excused

----------------------------------------------------------------------------
\* A card written beside a submit, or beside a write of its own, is crossed.
LEMMA WritesInv ==
  ASSUME TriageInv, NEW i \in Items, NEW rules \in BOOLEAN, Writes(i, rules) PROVE TriageInv'
<1> USE DEF TriageInv
<1> DEFINE saw == <<shown[i].written, shown[i].question>>
           n == counter + 1
           v == [seq |-> n, item |-> i, rules |-> rules, saw |-> saw, at |-> "sent", reply |-> Gone(0)]
<1>1. /\ shown[i].in /\ counter < MaxWrites /\ counter' = n
      /\ writes' = writes \cup {v}
      /\ pending' = [pending EXCEPT ![i] = n] /\ asked' = [asked EXCEPT ![i] = n]
      /\ crossed' = IF submit # NoSubmit \/ \E w \in writes : w.item = i
                    THEN crossed \cup {i} ELSE crossed
      /\ UNCHANGED <<open, index, shown, fetch, submit, spent, spoiled>>
  BY DEF Writes
<1>2. /\ counter \in Nat /\ n \in 0..MaxWrites /\ n \in Nat /\ counter < n
      /\ shown[i] \in ItemRecords /\ Gone(0) \in ItemRecords /\ ~Gone(0).in
      /\ Gone(0).rev = 0 /\ Gone(0).written = 0
  <2>1. shown[i] \in ItemRecords
    BY DEF ShapesInv, Queues
  <2>2. 0 \in Nat
    OBVIOUS
  <2> QED
    BY <1>1, <2>1, <2>2, MadeItems, TriageAssumption DEF ShapesInv
<1>3. saw \in Nat \X BOOLEAN /\ saw[1] = shown[i].written /\ (saw[2] <=> shown[i].question)
  BY <1>2 DEF ItemRecords
<1> HIDE DEF saw
<1>4. /\ v \in WriteRecords /\ v.seq = n /\ v.item = i /\ v.saw = saw /\ v.at = "sent"
      /\ v.reply = Gone(0)
  BY <1>2, <1>3 DEF WriteRecords
<1> HIDE DEF v, n
<1>5. ShapesInv'
  BY <1>1, <1>2, <1>4 DEF ShapesInv
<1>6. KnownInv'
  <2>1. v.saw[1] <= open[i].rev
    BY <1>3, <1>4 DEF KnownInv, Known
  <2>2. Known(v.reply, open[i])
    <3>1. open[i].rev \in Nat
      BY DEF ShapesInv, Queues, ItemRecords
    <3> QED
      BY <1>2, <1>4, <3>1 DEF Known
  <2>3. \A w \in writes' \ writes : w = v
    BY <1>1
  <2> QED
    BY <1>1, <1>4, <2>1, <2>2, <2>3, KnownKept
<1>7. Excused \subseteq Excused' /\ crossed \subseteq crossed'
  BY <1>1 DEF Excused
<1>8. StaleInv'
  <2>1. ASSUME Unaware(v.saw, open[i]) PROVE i \in Excused'
    <3>1. Stale(shown[i], open[i])
      BY <1>1, <1>3, <1>4, <2>1 DEF Unaware, Stale
    <3>2. i \in Excused \cup Leaving
      BY <3>1 DEF StaleInv
    <3>3. CASE i \in Leaving
      <4>1. submit # NoSubmit
        BY <3>3 DEF Leaving, NoSubmit
      <4> QED
        BY <1>1, <4>1 DEF Excused
    <3> QED
      BY <1>7, <3>2, <3>3
  <2>2. \A w \in writes' \ writes : w = v
    BY <1>1
  <2>3. Leaving' = Leaving /\ Unheard' = Unheard
    BY <1>1 DEF Leaving, Unheard
  <2>4. \A w \in writes' \ writes : (Unaware(w.saw, open[w.item]) => w.item \in Excused') /\ w.at # "ok"
    BY <1>4, <2>1, <2>2
  <2>5. \A j \in Items :
            /\ j \in Leaving => j \in (Excused \cup Leaving)' \/ ~shown'[j].in
            /\ j \in Leaving => j \in (Excused \cup Leaving)' \/ ~fetch'.items[j].in
            /\ j \in Unheard => j \in (Excused \cup Unheard)'
            /\ index'[j] = index[j] /\ shown'[j] = shown[j] /\ fetch'.items[j] = fetch.items[j]
    BY <1>1, <2>3
  <2> QED
    BY <1>1, <1>7, <2>4, <2>5, StaleKept
<1>9. TurnsInv'
  <2>1. asked'[i] = n /\ pending'[i] = n /\ \A j \in Items : j # i => asked'[j] = asked[j] /\ pending'[j] = pending[j]
    BY <1>1 DEF ShapesInv
  <2>2. \A w \in writes : w.item = i => i \in crossed'
    BY <1>1
  <2>3. \A w \in writes : w.item \in Items /\ w.seq \in 1..counter
    BY DEF ShapesInv, WriteRecords, TurnsInv
  <2>4. ASSUME NEW w \in writes' PROVE w.seq \in 1..counter' /\ (w.item \in crossed' \/ w.seq = asked'[w.item])
    <3>1. CASE w = v
      BY <1>1, <1>2, <1>4, <2>1, <3>1
    <3>2. CASE w \in writes
      <4>1. w.seq \in 1..counter'
        BY <1>1, <1>2, <2>3, <3>2
      <4> QED
        BY <1>7, <2>1, <2>2, <2>3, <3>2, <4>1 DEF TurnsInv
    <3> QED
      BY <1>1, <3>1, <3>2
  <2>5. \A u, w \in writes' : u.seq = w.seq => u = w
    <3>1. \A w \in writes : w.seq # n
      BY <1>2, <2>3
    <3> QED
      BY <1>1, <1>4, <3>1 DEF TurnsInv
  <2>6. \A j \in Items : pending'[j] # 0 => \E w \in writes' : w.seq = pending'[j] /\ w.item = j
    BY <1>1, <1>4, <2>1 DEF TurnsInv
  <2>7. ASSUME submit.at # "none"
        PROVE  /\ \A w \in writes' : w.seq \in submit.waits \/ w.item \in crossed'
               /\ \A j \in Items \ crossed' : submit.meant[j] = asked'[j]
    <3>1. i \in crossed'
      <4>1. submit # NoSubmit
        BY <2>7 DEF NoSubmit
      <4> QED
        BY <1>1, <4>1
    <3> QED
      BY <1>1, <1>4, <1>7, <2>1, <2>7, <3>1 DEF TurnsInv
  <2>8. /\ submit.at = "none" => submit = NoSubmit
        /\ submit.at # "waits" => submit.waits = {}
        /\ submit.at \in {"waits", "asked"} => submit.ids = {}
    BY DEF TurnsInv
  <2> QED
    BY <1>1, <2>4, <2>5, <2>6, <2>7, <2>8 DEF TurnsInv, NoSubmit
<1>10. NewestInv'
  <2> SUFFICES ASSUME NEW j \in Items, j \notin Excused' PROVE Newest(j)'
    BY DEF NewestInv
  <2>1. CASE j = i
    <3>1. v \in writes' /\ v.item = i /\ v.seq = asked'[i] /\ v.at = "sent"
      BY <1>1, <1>4 DEF ShapesInv
    <3> QED
      BY <2>1, <3>1 DEF Newest
  <2>2. CASE j # i
    <3>1. Newest(j) /\ asked'[j] = asked[j]
      BY <1>1, <1>7, <2>2 DEF NewestInv, ShapesInv
    <3> QED
      BY <1>1, <3>1 DEF Newest
  <2> QED
    BY <2>1, <2>2
<1>11. RulesWhatItShowed'
  BY <1>1, <1>7, RulesKept
<1>12. SubmitsNoOlder'
  BY <1>1, <1>7, SubmitsKept
<1> QED
  BY <1>5, <1>6, <1>8, <1>9, <1>10, <1>11, <1>12

\* A write that is heard of is over.
LEMMA TriageHeardInv ==
  ASSUME TriageInv, NEW w \in writes, Heard(w) \/ HeardFailure(w) PROVE TriageInv'
<1> USE DEF TriageInv
<1>1. /\ writes' = writes \ {w}
      /\ pending' = [pending EXCEPT ![w.item] = IF @ = w.seq THEN 0 ELSE @]
      /\ UNCHANGED <<open, index, submit, counter, spent, asked, crossed>>
      /\ fetch' = NoFetch \/ fetch' = Fetching
      /\ \/ /\ w.at = "ok" /\ spoiled' = spoiled
            /\ shown' = shown \/ shown' = [shown EXCEPT ![w.item] = w.reply]
         \/ w.at = "bad" /\ shown' = shown /\ spoiled' = spoiled \cup {w.item}
  BY DEF Heard, HeardFailure, Settles
<1>2. /\ w \in WriteRecords /\ w.item \in Items /\ w.reply \in ItemRecords /\ w.seq \in Nat
      /\ shown \in Queues
  BY DEF ShapesInv, WriteRecords
<1>3. /\ \A i \in Items : ~fetch'.items[i].in /\ fetch'.items[i].rev = 0 /\ fetch'.items[i].written = 0
      /\ fetch' \in [at : {"none", "asked", "served"}, items : Queues]
  <2>1. 0 \in Nat
    OBVIOUS
  <2>2. Gone(0) \in ItemRecords /\ ~Gone(0).in /\ Gone(0).rev = 0 /\ Gone(0).written = 0
    BY <2>1, MadeItems
  <2> QED
    BY <1>1, <2>2 DEF NoFetch, Fetching, Queues
<1>4. \A i \in Items : shown'[i] = shown[i] \/ (w.at = "ok" /\ i = w.item /\ shown'[i] = w.reply)
  BY <1>1, <1>2 DEF Queues
<1>5. Excused \subseteq Excused' /\ Leaving' = Leaving /\ Unheard' = Unheard
  BY <1>1 DEF Excused, Leaving, Unheard
<1>6. ShapesInv'
  <2>1. shown' \in Queues /\ spoiled' \subseteq Items
    BY <1>1, <1>2 DEF Queues, ShapesInv
  <2>2. pending' \in [Items -> Nat] /\ writes' \subseteq WriteRecords
    BY <1>1, <1>2 DEF ShapesInv
  <2> QED
    BY <1>1, <1>3, <2>1, <2>2 DEF ShapesInv
<1>7. KnownInv'
  <2>1. \A i \in Items : shown'[i] = shown[i] \/ Known(shown'[i], open[i])
    BY <1>4 DEF KnownInv
  <2>2. \A i \in Items : open[i].rev \in Nat
    BY DEF ShapesInv, Queues, ItemRecords
  <2>3. \A i \in Items : Known(fetch'.items[i], open[i])
    BY <1>3, <2>2 DEF Known
  <2> QED
    BY <1>1, <2>1, <2>3, KnownKept
<1>8. StaleInv'
  BY <1>1, <1>3, <1>4, <1>5, StaleKept
<1>9. TurnsInv'
  <2>1. ASSUME NEW i \in Items, pending'[i] # 0
        PROVE  \E v \in writes' : v.seq = pending'[i] /\ v.item = i
    <3>1. pending'[i] = pending[i] /\ (i = w.item => pending[i] # w.seq)
      BY <1>1, <1>2, <2>1 DEF ShapesInv
    <3>2. PICK v \in writes : v.seq = pending[i] /\ v.item = i
      BY <2>1, <3>1 DEF TurnsInv
    <3>3. v # w
      BY <3>1, <3>2
    <3> QED
      BY <1>1, <3>1, <3>2, <3>3
  <2> QED
    BY <1>1, <2>1 DEF TurnsInv, NoSubmit
<1>10. NewestInv'
  <2>1. w.at \in {"sent", "bad"} => w.item \in Excused'
    BY <1>1 DEF Excused
  <2> QED
    BY <1>1, <1>5, <2>1, NewestKept
<1>11. RulesWhatItShowed' /\ SubmitsNoOlder'
  BY <1>1, <1>5, RulesKept, SubmitsKept
<1> QED
  BY <1>6, <1>7, <1>8, <1>9, <1>10, <1>11

LEMMA FetchesInv ==
  ASSUME TriageInv, Focus \/ Served \/ Arrives \/ FetchFails \/ Pull PROVE TriageInv'
<1> USE DEF TriageInv
<1>1. /\ UNCHANGED <<open, writes, pending, submit, counter, historyVars>>
      /\ \/ UNCHANGED <<index, shown>> /\ (fetch' = NoFetch \/ fetch' = Fetching)
         \/ UNCHANGED <<index, shown>> /\ fetch' = [at |-> "served", items |-> Queue]
         \/ index' = index /\ shown' = fetch.items /\ fetch' = NoFetch
         \/ UNCHANGED <<shown, fetch>> /\ index' = open
  BY DEF Focus, Served, Arrives, FetchFails, Pull, PageOnly, pageVars
<1>2. /\ spent' \in [outside : Nat, faults : Nat]
  BY DEF Focus, Served, Arrives, FetchFails, Pull, Fault, Spends, ShapesInv
<1>3. /\ Fetching \in [at : {"none", "asked", "served"}, items : Queues]
      /\ NoFetch \in [at : {"none", "asked", "served"}, items : Queues]
      /\ \A i \in Items : /\ ~NoFetch.items[i].in /\ NoFetch.items[i].rev = 0
                          /\ NoFetch.items[i].written = 0 /\ Fetching.items[i] = NoFetch.items[i]
  <2>1. 0 \in Nat
    OBVIOUS
  <2>2. Gone(0) \in ItemRecords /\ ~Gone(0).in /\ Gone(0).rev = 0 /\ Gone(0).written = 0
    BY <2>1, MadeItems
  <2> QED
    BY <2>2 DEF NoFetch, Fetching, Queues
<1>4. \A i \in Items : /\ Queue[i] \in ItemRecords
                      /\ \/ Queue[i] = index[i] /\ ~Submitted(index[i])
                         \/ /\ ~Queue[i].in /\ Queue[i].rev = index[i].rev
                            /\ Queue[i].written = index[i].rev
  <2> SUFFICES ASSUME NEW i \in Items
               PROVE  /\ Queue[i] \in ItemRecords
                      /\ \/ Queue[i] = index[i] /\ ~Submitted(index[i])
                         \/ /\ ~Queue[i].in /\ Queue[i].rev = index[i].rev
                            /\ Queue[i].written = index[i].rev
    OBVIOUS
  <2>1. index[i] \in ItemRecords /\ index[i].rev \in Nat
    BY DEF ShapesInv, Queues, ItemRecords
  <2>2. Queue[i] = IF index[i].in /\ ~Submitted(index[i]) THEN index[i] ELSE Gone(index[i].rev)
    BY DEF Queue, Waiting
  <2>3. CASE index[i].in /\ ~Submitted(index[i])
    BY <2>1, <2>2, <2>3
  <2>4. CASE ~(index[i].in /\ ~Submitted(index[i]))
    BY <2>1, <2>2, <2>4, MadeItems
  <2> QED
    BY <2>3, <2>4
<1>5. Queue \in Queues
  BY <1>4 DEF Queue, Queues
<1>6. [at |-> "served", items |-> Queue] \in [at : {"none", "asked", "served"}, items : Queues]
  BY <1>5
<1>7. ShapesInv'
  BY <1>1, <1>2, <1>3, <1>6 DEF ShapesInv, historyVars
<1>8. \A i \in Items : open[i].rev \in Nat
  BY DEF ShapesInv, Queues, ItemRecords
<1>9. KnownInv'
  <2>1. \A i \in Items : Known(Queue[i], open[i]) /\ Known(NoFetch.items[i], open[i])
    BY <1>3, <1>4, <1>8 DEF KnownInv, Known
  <2>2. \A i \in Items : Known(Fetching.items[i], open[i])
    BY <1>3, <2>1
  <2>3. \A i \in Items :
            /\ index'[i] = index[i] \/ Known(index'[i], open[i])
            /\ shown'[i] = shown[i] \/ Known(shown'[i], open[i])
            /\ fetch'.items[i] = fetch.items[i] \/ Known(fetch'.items[i], open[i])
    BY <1>1, <2>1, <2>2 DEF KnownInv
  <2> QED
    BY <1>1, <2>3, KnownKept
<1>10. Excused' = Excused /\ Leaving' = Leaving /\ Unheard' = Unheard
  BY <1>1 DEF Excused, Leaving, Unheard, historyVars
<1>11. StaleInv'
  <2>1. \A i \in Items :
            /\ index'[i] = index[i] \/ index'[i] = open[i]
            /\ shown'[i] = shown[i] \/ shown'[i] = fetch.items[i]
            /\ \/ fetch'.items[i] = fetch.items[i] \/ ~fetch'.items[i].in
               \/ fetch'.items[i] = index[i] /\ ~Submitted(index[i])
    BY <1>1, <1>3, <1>4
  <2> QED
    BY <1>1, <1>10, <2>1, StaleKept
<1>12. TurnsInv'
  BY <1>1 DEF TurnsInv, historyVars, NoSubmit
<1>13. NewestInv' /\ RulesWhatItShowed' /\ SubmitsNoOlder'
  BY <1>1, <1>10, NewestKept, RulesKept, SubmitsKept DEF historyVars
<1> QED
  BY <1>7, <1>9, <1>11, <1>12, <1>13

----------------------------------------------------------------------------
\* The page's side of a submit.
LEMMA PressesInv ==
  ASSUME TriageInv, Presses \/ Asks \/ SubmitFails PROVE TriageInv'
<1> USE DEF TriageInv
<1> DEFINE seqs == {w.seq : w \in writes}
<1>1. /\ UNCHANGED <<open, index, shown, fetch, writes, pending, counter, asked, crossed, spoiled>>
      /\ spent' \in [outside : Nat, faults : Nat]
  BY DEF Presses, Asks, SubmitFails, SubmitOnly, Fault, Spends, ShapesInv
<1>2. submit \in SubmitRecords /\ seqs \in SUBSET Nat /\ asked \in [Items -> Nat]
  <2>1. \A w \in writes : w.seq \in Nat
    BY DEF ShapesInv, WriteRecords
  <2> QED
    BY <2>1 DEF ShapesInv
<1>3. /\ NoSubmit \in SubmitRecords /\ NoSubmit.at = "none" /\ NoSubmit.waits = {} /\ NoSubmit.ids = {}
  BY DEF NoSubmit, SubmitRecords
<1>4. /\ submit' \in SubmitRecords /\ submit'.revs = submit.revs
      /\ submit'.ids = {}
      /\ \/ submit'.at = "waits" /\ submit'.waits = seqs /\ submit'.meant = asked
         \/ /\ submit.at \in {"waits", "asked"} /\ submit'.at \in {"asked", "bad"}
            /\ submit'.waits = {} /\ submit'.meant = submit.meant
            /\ \A w \in writes : w.seq \notin submit.waits
  <2>1. CASE Presses
    <3>1. /\ submit = NoSubmit
          /\ submit' = [NoSubmit EXCEPT !.at = "waits", !.waits = seqs, !.meant = asked]
      BY <2>1 DEF Presses
    <3> HIDE DEF seqs
    <3> QED
      BY <1>2, <1>3, <3>1 DEF SubmitRecords
  <2>2. CASE Asks
    <3>1. submit.ids = {} /\ submit.at = "waits"
      BY <2>2 DEF Asks, TurnsInv
    <3> QED
      BY <1>2, <2>2, <3>1 DEF Asks, SubmitRecords
  <2>3. CASE SubmitFails
    <3>1. submit.ids = {} /\ submit.waits = {} /\ submit.at = "asked"
      BY <2>3 DEF SubmitFails, TurnsInv
    <3> QED
      BY <1>2, <2>3, <3>1 DEF SubmitFails, SubmitRecords
  <2> QED
    BY <2>1, <2>2, <2>3
<1>5. submit.ids = {}
  BY <1>3 DEF TurnsInv, Presses, Asks, SubmitFails
<1>6. Excused' = Excused /\ Leaving = {} /\ Unheard = {}
  BY <1>1, <1>5 DEF Excused, Leaving, Unheard
<1>7. ShapesInv'
  BY <1>1, <1>4 DEF ShapesInv
<1>8. KnownInv'
  BY <1>1, <1>4, KnownKept
<1>9. StaleInv'
  BY <1>1, <1>6, StaleKept
<1>10. TurnsInv'
  <2>1. \A w \in writes : w.seq \in submit'.waits \/ w.item \in crossed
    BY <1>4 DEF TurnsInv
  <2>2. \A i \in Items \ crossed : submit'.meant[i] = asked[i]
    BY <1>4 DEF TurnsInv
  <2>3. submit'.at # "none" /\ (submit'.at # "waits" => submit'.waits = {})
    BY <1>4
  <2> HIDE DEF seqs
  <2> QED
    BY <1>1, <1>4, <2>1, <2>2, <2>3 DEF TurnsInv
<1>11. NewestInv' /\ RulesWhatItShowed' /\ SubmitsNoOlder'
  BY <1>1, <1>4, <1>6, NewestKept, RulesKept, SubmitsKept
<1> QED
  BY <1>7, <1>8, <1>9, <1>10, <1>11

\* A submit that is heard of is over: what it took is not shown, or is fetched again.
LEMMA SubmitHeardInv ==
  ASSUME TriageInv, SubmitHeard \/ SubmitHeardFailure PROVE TriageInv'
<1> USE DEF TriageInv
<1>1. /\ UNCHANGED <<open, index, spent, writes, pending, counter, asked, crossed>>
      /\ submit' = NoSubmit /\ fetch' = Fetching
      /\ \/ /\ submit.at = "ok" /\ UNCHANGED spoiled
            /\ shown' = [i \in Items |-> IF i \in submit.ids THEN Gone(submit.revs[i]) ELSE shown[i]]
         \/ submit.at = "bad" /\ UNCHANGED shown /\ spoiled' = spoiled \cup submit.ids
  BY DEF SubmitHeard, SubmitHeardFailure, SubmitOnly
<1>2. /\ submit \in SubmitRecords /\ submit.ids \subseteq Items /\ submit.revs \in [Items -> Nat]
  BY DEF ShapesInv, SubmitRecords
<1>3. /\ NoSubmit \in SubmitRecords /\ NoSubmit.at = "none" /\ NoSubmit.waits = {} /\ NoSubmit.ids = {}
      /\ \A i \in Items : NoSubmit.revs[i] = 0
  BY DEF NoSubmit, SubmitRecords
<1>4. /\ Fetching \in [at : {"none", "asked", "served"}, items : Queues]
      /\ \A i \in Items : ~Fetching.items[i].in /\ Fetching.items[i].rev = 0 /\ Fetching.items[i].written = 0
  <2>1. 0 \in Nat
    OBVIOUS
  <2>2. Gone(0) \in ItemRecords /\ ~Gone(0).in /\ Gone(0).rev = 0 /\ Gone(0).written = 0
    BY <2>1, MadeItems
  <2> QED
    BY <2>2 DEF NoFetch, Fetching, Queues
<1>5. ASSUME NEW i \in Items
      PROVE  /\ shown'[i] \in ItemRecords
             /\ \/ shown'[i] = shown[i] /\ (i \in Leaving => i \in Excused')
                \/ /\ ~shown'[i].in /\ shown'[i].rev = submit.revs[i]
                   /\ shown'[i].written = submit.revs[i]
  <2>1. shown[i] \in ItemRecords /\ submit.revs[i] \in Nat
    BY <1>2 DEF ShapesInv, Queues
  <2>2. CASE submit.at = "bad"
    BY <1>1, <2>1, <2>2 DEF Leaving, Excused
  <2>3. CASE submit.at = "ok" /\ i \in submit.ids
    <3>1. shown'[i] = Gone(submit.revs[i])
      BY <1>1, <2>3
    <3> QED
      BY <2>1, <3>1, MadeItems
  <2>4. CASE submit.at = "ok" /\ i \notin submit.ids
    BY <1>1, <2>1, <2>4 DEF Leaving
  <2> QED
    BY <1>1, <2>2, <2>3, <2>4
<1>6. Excused \subseteq Excused' /\ (Unheard \subseteq Excused')
  BY <1>1 DEF Excused, Unheard
<1>7. ShapesInv'
  <2>1. shown' \in Queues
    <3>1. shown' = [i \in Items |-> shown'[i]]
      BY <1>1 DEF ShapesInv, Queues
    <3> QED
      BY <1>5, <3>1 DEF Queues
  <2> QED
    BY <1>1, <1>2, <1>3, <1>4, <2>1 DEF ShapesInv
<1>8. KnownInv'
  <2>1. \A i \in Items : open[i].rev \in Nat /\ submit.revs[i] <= open[i].rev
    BY DEF ShapesInv, Queues, ItemRecords, KnownInv
  <2>2. \A i \in Items : shown'[i] = shown[i] \/ Known(shown'[i], open[i])
    BY <1>5, <2>1 DEF Known
  <2>3. \A i \in Items : Known(fetch'.items[i], open[i]) /\ submit'.revs[i] <= open[i].rev
    BY <1>1, <1>3, <1>4, <2>1 DEF Known
  <2> QED
    BY <1>1, <2>2, <2>3, KnownKept
<1>9. StaleInv'
  <2>1. \A i \in Items :
            /\ i \in Leaving => i \in (Excused \cup Leaving)' \/ ~shown'[i].in
            /\ i \in Leaving => i \in (Excused \cup Leaving)' \/ ~fetch'.items[i].in
            /\ i \in Unheard => i \in (Excused \cup Unheard)'
            /\ index'[i] = index[i]
            /\ shown'[i] = shown[i] \/ ~shown'[i].in
            /\ ~fetch'.items[i].in
    BY <1>1, <1>4, <1>5, <1>6
  <2> QED
    BY <1>1, <1>6, <2>1, StaleKept
<1>10. TurnsInv'
  BY <1>1, <1>3 DEF TurnsInv
<1>11. NewestInv'
  BY <1>1, <1>6, NewestKept
<1>12. RulesWhatItShowed' /\ SubmitsNoOlder'
  BY <1>1, <1>3, <1>6, RulesKept, SubmitsKept
<1> QED
  BY <1>7, <1>8, <1>9, <1>10, <1>11, <1>12

----------------------------------------------------------------------------
\* Steps that change the items: each item's file only moves on.
LEMMA KnownGrows ==
  ASSUME ShapesInv, KnownInv, ShapesInv', UNCHANGED <<shown, fetch>>,
         \A i \in Items :
            /\ open[i].rev <= open'[i].rev /\ Known(open'[i], open'[i])
            /\ index'[i] = index[i] \/ index'[i] = open[i] \/ index'[i] = open'[i]
            /\ submit'.revs[i] = submit.revs[i] \/ submit'.revs[i] = open'[i].rev,
         \A w \in writes' : \E v \in writes :
            /\ w.item = v.item /\ w.saw = v.saw
            /\ w.reply = v.reply \/ w.reply = open'[w.item]
  PROVE  KnownInv'
<1>1. ASSUME NEW i \in Items
      PROVE  /\ open[i] \in ItemRecords /\ open'[i] \in ItemRecords /\ index[i] \in ItemRecords
             /\ shown[i] \in ItemRecords /\ fetch.items[i] \in ItemRecords /\ submit.revs[i] \in Nat
  BY DEF ShapesInv, Queues, SubmitRecords
<1>2. ASSUME NEW i \in Items, NEW x \in ItemRecords, Known(x, open[i]) PROVE Known(x, open'[i])
  BY <1>1, <1>2 DEF Known, ItemRecords
<1>3. ASSUME NEW i \in Items
      PROVE  /\ Known(open'[i], open'[i]) /\ Known(index'[i], open'[i])
             /\ Known(shown'[i], open'[i]) /\ Known(fetch'.items[i], open'[i])
             /\ submit'.revs[i] <= open'[i].rev
  <2>1. Known(index'[i], open'[i])
    BY <1>1, <1>2 DEF KnownInv
  <2>2. Known(shown'[i], open'[i]) /\ Known(fetch'.items[i], open'[i])
    BY <1>1, <1>2 DEF KnownInv
  <2>3. submit'.revs[i] <= open'[i].rev
    BY <1>1 DEF KnownInv, ItemRecords
  <2> QED
    BY <2>1, <2>2, <2>3
<1>4. ASSUME NEW w \in writes'
      PROVE  w.saw[1] <= open'[w.item].rev /\ Known(w.reply, open'[w.item])
  <2>1. PICK v \in writes : /\ w.item = v.item /\ w.saw = v.saw
                            /\ w.reply = v.reply \/ w.reply = open'[w.item]
    OBVIOUS
  <2>2. v.item \in Items /\ v.reply \in ItemRecords /\ v.saw[1] \in Nat
    BY DEF ShapesInv, WriteRecords
  <2>3. v.saw[1] <= open[v.item].rev /\ Known(v.reply, open[v.item])
    BY DEF KnownInv
  <2>4. w.saw[1] <= open'[w.item].rev
    BY <1>1, <2>1, <2>2, <2>3 DEF ItemRecords
  <2> QED
    BY <1>2, <1>3, <2>1, <2>2, <2>3, <2>4
<1> QED
  BY <1>3, <1>4 DEF KnownInv

\* What is stale then was stale before, or is of an item that is being submitted.
LEMMA StaleGrows ==
  ASSUME StaleInv, UNCHANGED <<shown, fetch>>, Excused' = Excused,
         Leaving \subseteq Leaving', Unheard \subseteq Unheard',
         \A i \in Items :
            /\ \A r : Before(r, open'[i]) => Before(r, open[i]) \/ i \in Leaving' \ Leaving
            /\ index'[i] = index[i] \/ index'[i] = open[i] \/ index'[i] = open'[i]
            /\ i \in Leaving' \ Leaving => index'[i] = open'[i] \/ i \in Unheard',
         \A w \in writes' : w.item \in Leaving' => w.item \in Excused,
         \A w \in writes' : \E v \in writes :
            /\ w.item = v.item /\ w.item \in Items /\ w.saw = v.saw
            /\ \/ w.at = v.at /\ w.reply = v.reply
               \/ w.at # "ok"
               \/ w.reply = open'[w.item] /\ ~Submitted(w.reply)
  PROVE  StaleInv'
<1>1. ASSUME NEW i \in Items, NEW x, Stale(x, open'[i]), ~(i \in Leaving' \ Leaving)
      PROVE  Stale(x, open[i])
  BY <1>1 DEF Stale
<1>2. ASSUME NEW i \in Items, Stale(shown[i], open'[i]) PROVE i \in (Excused \cup Leaving)'
  BY <1>1, <1>2 DEF StaleInv
<1>3. ASSUME NEW i \in Items, Stale(fetch.items[i], open'[i]) PROVE i \in (Excused \cup Leaving)'
  BY <1>1, <1>3 DEF StaleInv
<1>4. ASSUME NEW i \in Items, NEW x, x = open[i] \/ x = open'[i], ~Submitted(x),
             x = open'[i] \/ ~(i \in Leaving' \ Leaving)
      PROVE  ~Stale(x, open'[i])
  BY <1>1, <1>4 DEF Stale, Before
<1>5. ASSUME NEW i \in Items, Stale(index'[i], open'[i]), ~Submitted(index'[i])
      PROVE  i \in (Excused \cup Unheard)'
  <2>1. CASE i \in Leaving' \ Leaving
    BY <1>4, <1>5, <2>1
  <2>2. CASE i \notin Leaving' \ Leaving
    BY <1>1, <1>4, <1>5, <2>2 DEF StaleInv
  <2> QED
    BY <2>1, <2>2
<1>6. ASSUME NEW w \in writes'
      PROVE  /\ Unaware(w.saw, open'[w.item]) => w.item \in Excused'
             /\ w.at = "ok" /\ Stale(w.reply, open'[w.item]) => w.item \in Excused'
  <2>1. PICK v \in writes : /\ w.item = v.item /\ w.item \in Items /\ w.saw = v.saw
                            /\ \/ w.at = v.at /\ w.reply = v.reply
                               \/ w.at # "ok"
                               \/ w.reply = open'[w.item] /\ ~Submitted(w.reply)
    OBVIOUS
  <2>2. CASE w.item \in Leaving'
    BY <2>2
  <2>3. CASE w.item \notin Leaving'
    <3>1. Unaware(w.saw, open'[w.item]) => Unaware(v.saw, open[v.item])
      BY <2>1, <2>3 DEF Unaware
    <3>2. Unaware(v.saw, open[v.item]) => v.item \in Excused
      BY DEF StaleInv
    <3>3. w.at = "ok" /\ Stale(w.reply, open'[w.item]) => w.item \in Excused
      BY <1>1, <1>4, <2>1, <2>3 DEF StaleInv
    <3> QED
      BY <2>1, <3>1, <3>2, <3>3
  <2> QED
    BY <2>2, <2>3
<1> QED
  BY <1>2, <1>3, <1>5, <1>6 DEF StaleInv

----------------------------------------------------------------------------
\* A write that lands, or fails.
LEMMA LandsInv ==
  ASSUME TriageInv, NEW w \in writes, WriteLands(w) \/ WriteFails(w) PROVE TriageInv'
<1> USE DEF TriageInv
<1> DEFINE i == w.item
           lands == /\ Opens(w) /\ open' = [open EXCEPT ![i] = Edited(w)]
                    /\ index' = open' \/ index' = open
<1>1. /\ w.at = "sent"
      /\ UNCHANGED <<shown, fetch, pending, submit, counter, asked, crossed, spoiled>>
      /\ spent' \in [outside : Nat, faults : Nat]
      /\ \/ lands \/ (UNCHANGED open /\ (index' = open \/ UNCHANGED index))
  BY DEF WriteLands, WriteFails, historyVars, Fault, Spends, ShapesInv
<1>2. \/ Become(w, "ok", Edited(w)) /\ lands
      \/ Become(w, "bad", w.reply)
  BY DEF WriteLands, WriteFails
<1>3. /\ w \in WriteRecords /\ i \in Items /\ w.reply \in ItemRecords /\ open[i] \in ItemRecords
      /\ open \in Queues /\ index \in Queues /\ w.saw[1] = w.saw[1]
  BY DEF ShapesInv, WriteRecords, Queues
<1>4. ASSUME Opens(w)
      PROVE  /\ Edited(w) \in ItemRecords /\ Rewritten(open[i], Edited(w)) /\ ~Submitted(Edited(w))
             /\ \/ Edited(w).ruling = NoRuling
                \/ Edited(w).ruling.by = w.seq /\ Edited(w).ruling.saw = w.saw
             /\ open[i].written = w.saw[1]
  BY <1>4, EditedItem DEF Opens
<1>5. PICK v \in WriteRecords :
        /\ writes' = (writes \ {w}) \cup {v}
        /\ v.seq = w.seq /\ v.item = i /\ v.saw = w.saw
        /\ \/ v.at = "ok" /\ lands /\ v.reply = Edited(w)
           \/ v.at = "bad" /\ v.reply = w.reply
  <2>1. CASE Become(w, "ok", Edited(w)) /\ lands
    <3> DEFINE v == [w EXCEPT !.at = "ok", !.reply = Edited(w)]
    <3>1. v \in WriteRecords /\ v.seq = w.seq /\ v.item = i /\ v.saw = w.saw /\ v.at = "ok" /\ v.reply = Edited(w)
      BY <1>3, <1>4, <2>1 DEF WriteRecords
    <3> QED
      BY <2>1, <3>1 DEF Become
  <2>2. CASE Become(w, "bad", w.reply)
    <3> DEFINE v == [w EXCEPT !.at = "bad", !.reply = w.reply]
    <3>1. v \in WriteRecords /\ v.seq = w.seq /\ v.item = i /\ v.saw = w.saw /\ v.at = "bad" /\ v.reply = w.reply
      BY <1>3, <2>2 DEF WriteRecords
    <3> QED
      BY <2>2, <3>1 DEF Become
  <2> QED
    BY <1>2, <2>1, <2>2
<1>6. /\ \A j \in Items : open'[j] = open[j] \/ (j = i /\ Opens(w) /\ open'[j] = Edited(w))
      /\ \A j \in Items : open'[j] \in ItemRecords
      /\ open' \in Queues /\ index' \in Queues
      /\ \A j \in Items : index'[j] = index[j] \/ index'[j] = open[j] \/ index'[j] = open'[j]
      /\ v.reply = w.reply \/ v.reply = open'[i]
      /\ v.at # "ok" \/ (v.reply = open'[i] /\ ~Submitted(v.reply))
  BY <1>1, <1>3, <1>4, <1>5 DEF Queues
<1>7. \A j \in Items : /\ open'[j] = open[j] \/ (j = i /\ Opens(w) /\ Rewritten(open[j], open'[j]))
                      /\ open[j] \in ItemRecords
  BY <1>3, <1>4, <1>6 DEF Queues
<1>8. Excused' = Excused /\ Leaving' = Leaving /\ Unheard' = Unheard
  BY <1>1 DEF Excused, Leaving, Unheard
<1> HIDE DEF i, lands
<1>9. ShapesInv'
  BY <1>1, <1>5, <1>6 DEF ShapesInv
<1>10. KnownInv'
  <2>1. ASSUME NEW j \in Items PROVE open[j].rev <= open'[j].rev /\ Known(open'[j], open'[j])
    BY <1>6, <1>7 DEF KnownInv, Known, Rewritten, ItemRecords
  <2>2. \A u \in writes' : \E t \in writes :
            /\ u.item = t.item /\ u.saw = t.saw /\ (u.reply = t.reply \/ u.reply = open'[u.item])
    BY <1>5, <1>6 DEF i
  <2> QED
    BY <1>1, <1>6, <1>9, <2>1, <2>2, KnownGrows
<1>11. StaleInv'
  <2>1. ASSUME NEW j \in Items, NEW r, Before(r, open'[j]) PROVE Before(r, open[j])
    <3>1. CASE open'[j] = open[j]
      BY <2>1, <3>1
    <3>2. CASE j = i /\ Opens(w) /\ open'[j] = Edited(w)
      BY <1>4, <2>1, <3>2 DEF Before, Rewritten, i
    <3> QED
      BY <1>6, <3>1, <3>2
  <2>2. \A u \in writes : u.item \in Leaving => u.item \in Excused
    BY DEF TurnsInv, Leaving, Excused
  <2>3. \A u \in writes' : u.item \in Leaving' => u.item \in Excused
    BY <1>5, <1>8, <2>2 DEF i
  <2>4. \A u \in writes' : \E t \in writes :
            /\ u.item = t.item /\ u.item \in Items /\ u.saw = t.saw
            /\ \/ u.at = t.at /\ u.reply = t.reply
               \/ u.at # "ok"
               \/ u.reply = open'[u.item] /\ ~Submitted(u.reply)
    BY <1>3, <1>5, <1>6 DEF i, ShapesInv, WriteRecords
  <2>5. \A j \in Items :
            /\ \A r : Before(r, open'[j]) => Before(r, open[j]) \/ j \in Leaving' \ Leaving
            /\ index'[j] = index[j] \/ index'[j] = open[j] \/ index'[j] = open'[j]
            /\ j \in Leaving' \ Leaving => index'[j] = open'[j] \/ j \in Unheard'
    BY <1>6, <1>8, <2>1
  <2> QED
    BY <1>1, <1>8, <2>3, <2>4, <2>5, StaleGrows
<1>12. TurnsInv'
  <2>1. \A u \in writes' : u.seq \in 1..counter /\ (u.item \in crossed \/ u.seq = asked[u.item])
    BY <1>5 DEF TurnsInv, i
  <2>2. \A t, u \in writes' : t.seq = u.seq => t = u
    BY <1>5 DEF TurnsInv
  <2>3. \A j \in Items : pending[j] # 0 => \E u \in writes' : u.seq = pending[j] /\ u.item = j
    BY <1>5 DEF TurnsInv, i
  <2>4. submit.at # "none" => \A u \in writes' : u.seq \in submit.waits \/ u.item \in crossed
    BY <1>5 DEF TurnsInv, i
  <2> QED
    BY <1>1, <2>1, <2>2, <2>3, <2>4 DEF TurnsInv, NoSubmit
<1>13. NewestInv'
  <2> SUFFICES ASSUME NEW j \in Items, j \notin Excused PROVE Newest(j)'
    BY <1>8 DEF NewestInv
  <2>1. CASE \E u \in writes : u.item = j /\ u.seq = asked[j] /\ u.at \in {"sent", "bad"} /\ u # w
    BY <1>1, <1>5, <2>1 DEF Newest
  <2>2. CASE v.at = "bad" /\ j = i /\ w.seq = asked[j]
    BY <1>1, <1>5, <2>2 DEF Newest
  <2>3. CASE j = i /\ open'[j] = Edited(w) /\ Opens(w)
    <3>1. w.seq = asked[j] /\ w.seq \in Nat
      BY <1>3, <2>3 DEF TurnsInv, Excused, i, WriteRecords
    <3> QED
      BY <1>1, <1>4, <2>3, <3>1 DEF Newest
  <2>4. CASE open'[j] = open[j] /\ (open[j].ruling = NoRuling \/ open[j].ruling.by >= asked[j])
    BY <1>1, <2>4 DEF Newest
  <2>5. Newest(j)
    BY DEF NewestInv
  <2>6. ASSUME v.at = "ok" PROVE Opens(w) /\ open'[i] = Edited(w)
    BY <1>3, <1>5, <2>6 DEF lands, i, Queues
  <2> QED
    BY <1>5, <1>6, <2>1, <2>2, <2>3, <2>4, <2>5, <2>6 DEF Newest, i
<1>14. RulesWhatItShowed'
  <2> SUFFICES ASSUME NEW j \in Items, open'[j].ruling # NoRuling
               PROVE  /\ open'[j].ruling.saw[1] = open'[j].written
                      /\ open'[j].question /\ open'[j].ruling.answers
                            => open'[j].ruling.saw[2] \/ j \in Excused
    BY <1>8 DEF RulesWhatItShowed, Excused
  <2>1. CASE open'[j] = open[j]
    BY <2>1 DEF RulesWhatItShowed, Excused
  <2>2. CASE j = i /\ Opens(w) /\ open'[j] = Edited(w)
    <3>1. /\ open'[j].ruling.saw = w.saw /\ open'[j].written = w.saw[1]
          /\ open'[j].question = open[i].question /\ open[i].written = w.saw[1]
      BY <1>4, <2>2 DEF Rewritten, i
    <3>2. open[i].question => w.saw[2] \/ i \in Excused
      BY <3>1 DEF StaleInv, Unaware, Before, i
    <3> QED
      BY <2>2, <3>1, <3>2
  <2> QED
    BY <1>6, <2>1, <2>2
<1>15. SubmitsNoOlder'
  <2> SUFFICES ASSUME submit.at \in {"ok", "bad"}, NEW j \in submit.ids, Submitted(open'[j])
               PROVE  open'[j].ruling.by >= submit.meant[j] \/ j \in Excused
    BY <1>1 DEF SubmitsNoOlder, Excused
  <2>1. j \in Items
    BY DEF ShapesInv, SubmitRecords
  <2>2. open'[j] = open[j]
    BY <1>4, <1>6, <2>1
  <2> QED
    BY <2>2 DEF SubmitsNoOlder, Excused
<1> QED
  BY <1>9, <1>10, <1>11, <1>12, <1>13, <1>14, <1>15

----------------------------------------------------------------------------
\* A submit that lands takes what is ruled then.
LEMMA SubmitsInv ==
  ASSUME TriageInv, SubmitLands \/ SubmitUnheard PROVE TriageInv'
<1> USE DEF TriageInv
<1>1. /\ submit.at = "asked"
      /\ open' = [i \in Items |->
                   IF i \in Due THEN [open[i] EXCEPT !.rev = @ + 1, !.ruling.submitted = TRUE]
                                  ELSE open[i]]
      /\ UNCHANGED <<shown, fetch, writes, pending, counter, asked, crossed, spoiled>>
      /\ spent' \in [outside : Nat, faults : Nat]
  <2>1. \E at \in {"ok", "bad"} : Submits(at)
    BY DEF SubmitLands, SubmitUnheard
  <2>2. spent' \in [outside : Nat, faults : Nat]
    <3>1. UNCHANGED spent \/ Fault
      BY DEF SubmitLands, SubmitUnheard
    <3> QED
      BY <3>1 DEF Fault, Spends, ShapesInv
  <2> QED
    BY <2>1, <2>2 DEF Submits, SubmitOnly
<1>2. PICK at \in {"ok", "bad"} :
        /\ submit' = [submit EXCEPT !.at = at, !.ids = Due, !.revs = [i \in Items |-> open'[i].rev]]
        /\ index' = open' \/ (index' = open /\ at = "bad")
  BY DEF SubmitLands, SubmitUnheard, Submits
<1>3. /\ submit \in SubmitRecords /\ submit.waits = {} /\ submit.ids = {}
      /\ \A i \in Items : open[i] \in ItemRecords
      /\ open \in Queues
  BY <1>1 DEF TurnsInv, ShapesInv, Queues
<1>4. ASSUME NEW i \in Due
      PROVE  /\ i \in Items /\ open'[i] \in ItemRecords /\ Rewritten(open[i], open'[i])
             /\ Submitted(open'[i]) /\ open'[i].ruling # NoRuling /\ open[i].ruling # NoRuling
             /\ open'[i].ruling.by = open[i].ruling.by /\ open'[i].ruling.saw = open[i].ruling.saw
             /\ open'[i].ruling.answers = open[i].ruling.answers
  <2>1. i \in Items /\ open[i].ruling # NoRuling
    BY DEF Due, Ruled
  <2>2. open'[i] = [open[i] EXCEPT !.rev = @ + 1, !.ruling.submitted = TRUE]
    BY <1>1, <2>1
  <2> QED
    BY <1>3, <2>1, <2>2, SubmittedItem
<1>5. \A i \in Items \ Due : open'[i] = open[i]
  BY <1>1
<1>6. /\ \A i \in Items : open'[i] \in ItemRecords /\ open'[i].rev \in Nat
      /\ open' \in Queues /\ Due \subseteq Items
  <2>1. \A i \in Items : open'[i] \in ItemRecords
    BY <1>3, <1>4, <1>5
  <2>2. open' \in Queues /\ Due \subseteq Items
    BY <1>1, <2>1 DEF Queues, Due
  <2> QED
    BY <2>1, <2>2 DEF ItemRecords
<1>7. /\ submit' \in SubmitRecords /\ submit'.at = at /\ submit'.ids = Due /\ submit'.waits = {}
      /\ submit'.meant = submit.meant /\ \A i \in Items : submit'.revs[i] = open'[i].rev
  <2> DEFINE revs == [i \in Items |-> open'[i].rev]
  <2>1. revs \in [Items -> Nat] /\ \A i \in Items : revs[i] = open'[i].rev
    BY <1>6
  <2>2. submit' = [submit EXCEPT !.at = at, !.ids = Due, !.revs = revs]
    BY <1>2
  <2> HIDE DEF revs
  <2> QED
    BY <1>3, <1>6, <2>1, <2>2 DEF SubmitRecords
<1>8. /\ Excused' = Excused /\ Leaving = {} /\ Unheard = {} /\ Leaving' = Due
      /\ at = "bad" => Unheard' = Due
  BY <1>1, <1>3, <1>7 DEF Excused, Leaving, Unheard
<1>9. \A w \in writes : w.item \in crossed
  BY <1>1, <1>3 DEF TurnsInv
<1>10. ShapesInv'
  <2>1. index' \in Queues
    BY <1>2, <1>3, <1>6
  <2> QED
    BY <1>1, <1>6, <1>7, <2>1 DEF ShapesInv
<1>11. KnownInv'
  <2>1. ASSUME NEW i \in Items PROVE open[i].rev <= open'[i].rev /\ Known(open'[i], open'[i])
    <3>1. CASE i \in Due
      BY <1>3, <1>4, <1>6, <3>1 DEF KnownInv, Known, Rewritten, ItemRecords
    <3>2. CASE i \notin Due
      BY <1>3, <1>5, <3>2 DEF KnownInv, Known, ItemRecords
    <3> QED
      BY <3>1, <3>2
  <2>2. \A i \in Items : index'[i] = open[i] \/ index'[i] = open'[i]
    BY <1>2
  <2> QED
    BY <1>1, <1>7, <1>10, <2>1, <2>2, KnownGrows
<1>12. StaleInv'
  <2>1. \A i \in Items :
            /\ \A r : Before(r, open'[i]) => Before(r, open[i]) \/ i \in Leaving' \ Leaving
            /\ index'[i] = index[i] \/ index'[i] = open[i] \/ index'[i] = open'[i]
            /\ i \in Leaving' \ Leaving => index'[i] = open'[i] \/ i \in Unheard'
    BY <1>2, <1>5, <1>8
  <2>2. \A w \in writes' : w.item \in Leaving' => w.item \in Excused
    BY <1>1, <1>9 DEF Excused
  <2>3. \A w \in writes' : \E v \in writes :
            /\ w.item = v.item /\ w.item \in Items /\ w.saw = v.saw
            /\ w.at = v.at /\ w.reply = v.reply
    BY <1>1 DEF ShapesInv, WriteRecords
  <2> QED
    BY <1>1, <1>8, <2>1, <2>2, <2>3, StaleGrows
<1>13. TurnsInv'
  BY <1>1, <1>3, <1>7, <1>9 DEF TurnsInv
<1>14. ASSUME NEW i \in Due, i \notin Excused PROVE open'[i].ruling.by >= asked[i]
  <2>1. Newest(i)
    BY <1>4, <1>14 DEF NewestInv
  <2>2. \A w \in writes : w.item # i
    BY <1>9, <1>14 DEF Excused
  <2> QED
    BY <1>4, <2>1, <2>2 DEF Newest
<1>15. NewestInv'
  <2> SUFFICES ASSUME NEW i \in Items, i \notin Excused PROVE Newest(i)'
    BY <1>8 DEF NewestInv
  <2>1. CASE i \in Due
    BY <1>1, <1>14, <2>1 DEF Newest
  <2>2. CASE i \notin Due
    <3>1. Newest(i) /\ open'[i] = open[i]
      BY <1>5, <2>2 DEF NewestInv
    <3> QED
      BY <1>1, <3>1 DEF Newest
  <2> QED
    BY <2>1, <2>2
<1>16. RulesWhatItShowed'
  <2> SUFFICES ASSUME NEW i \in Items, open'[i].ruling # NoRuling
               PROVE  /\ open'[i].ruling.saw[1] = open'[i].written
                      /\ open'[i].question /\ open'[i].ruling.answers
                            => open'[i].ruling.saw[2] \/ i \in Excused
    BY <1>8 DEF RulesWhatItShowed, Excused
  <2>1. CASE i \in Due
    BY <1>4, <2>1 DEF RulesWhatItShowed, Excused, Rewritten
  <2>2. CASE i \notin Due
    BY <1>5, <2>2 DEF RulesWhatItShowed, Excused
  <2> QED
    BY <2>1, <2>2
<1>17. SubmitsNoOlder'
  <2> SUFFICES ASSUME NEW i \in Due
               PROVE  open'[i].ruling.by >= submit.meant[i] \/ i \in Excused
    BY <1>7, <1>8 DEF SubmitsNoOlder, Excused
  <2>1. i \in crossed \/ submit.meant[i] = asked[i]
    BY <1>1, <1>4 DEF TurnsInv
  <2> QED
    BY <1>14, <2>1 DEF Excused
<1> QED
  BY <1>10, <1>11, <1>12, <1>13, <1>15, <1>16, <1>17

\* A skill's push: a new item, one that is gone, or one that is returned.
LEMMA PushesInv ==
  ASSUME TriageInv, NEW i \in Items,
         Lists(i) \/ Rewrites(i) \/ Withdraws(i) \/ Stamps(i) \/ Returns(i)
  PROVE  TriageInv'
<1> USE DEF TriageInv
<1> DEFINE x == open[i]
           n == x.rev + 1
<1>1. x \in ItemRecords /\ open \in Queues /\ n \in Nat /\ x.rev <= n
  BY DEF ShapesInv, Queues, ItemRecords
<1> HIDE DEF n
<1>2. PICK y : /\ Pushes(i, y)
               /\ y = Item(n) \/ y = Gone(n) \/ (Submitted(x) /\ y = Returned(x))
  BY DEF Lists, Rewrites, Withdraws, Stamps, Returns, n
<1>3. /\ y \in ItemRecords /\ x.rev <= y.rev /\ Known(y, y) /\ ~Submitted(y)
      /\ \/ ~y.question /\ y.ruling = NoRuling
         \/ /\ Submitted(x) /\ x.ruling # NoRuling /\ y.written = x.written
            /\ y.ruling.by = x.ruling.by /\ y.ruling.saw = x.ruling.saw /\ ~y.ruling.answers
  <2>1. CASE y = Item(n) \/ y = Gone(n)
    <3>1. y \in ItemRecords /\ y.rev = n /\ y.written = n /\ ~y.question /\ y.ruling = NoRuling
      BY <1>1, <2>1, MadeItems
    <3>2. ~Submitted(y)
      BY <3>1, MadeItems DEF Submitted
    <3> QED
      BY <1>1, <3>1, <3>2 DEF Known
  <2>2. CASE Submitted(x) /\ y = Returned(x)
    <3>1. /\ y \in ItemRecords /\ y.written = x.written /\ x.rev <= y.rev /\ ~Submitted(y)
          /\ y.ruling.by = x.ruling.by /\ y.ruling.saw = x.ruling.saw /\ ~y.ruling.answers
      BY <1>1, <2>2, ReturnedItem
    <3>2. x.ruling # NoRuling
      BY <2>2, MadeItems DEF Submitted
    <3>3. Known(y, y)
      <4>1. x.written <= x.rev
        BY DEF KnownInv, Known
      <4> QED
        BY <1>1, <3>1, <4>1 DEF Known, ItemRecords
    <3> QED
      BY <2>2, <3>1, <3>2, <3>3
  <2> QED
    BY <1>2, <2>1, <2>2
<1>4. /\ open' = [open EXCEPT ![i] = y] /\ spent' \in [outside : Nat, faults : Nat]
      /\ UNCHANGED <<index, shown, fetch, writes, pending, submit, counter, asked, crossed, spoiled>>
  BY <1>2 DEF Pushes, Spends, pageVars, historyVars, ShapesInv
<1>5. /\ open' \in Queues /\ open'[i] = y /\ \A j \in Items \ {i} : open'[j] = open[j]
  BY <1>1, <1>3, <1>4 DEF Queues
<1>6. Excused' = Excused /\ Leaving' = Leaving /\ Unheard' = Unheard
  BY <1>4 DEF Excused, Leaving, Unheard
<1>7. ShapesInv'
  BY <1>4, <1>5 DEF ShapesInv
<1>8. KnownInv'
  <2>1. ASSUME NEW j \in Items PROVE open[j].rev <= open'[j].rev /\ Known(open'[j], open'[j])
    <3>1. CASE j = i
      BY <1>3, <1>5, <3>1
    <3>2. CASE j # i
      <4>1. open[j].rev \in Nat
        BY DEF ShapesInv, Queues, ItemRecords
      <4> QED
        BY <1>5, <3>2, <4>1 DEF KnownInv
    <3> QED
      BY <3>1, <3>2
  <2> QED
    BY <1>4, <1>7, <2>1, KnownGrows
<1>9. StaleInv'
  <2>1. ASSUME NEW j \in Items, NEW r, Before(r, open'[j]) PROVE Before(r, open[j])
    <3>1. CASE j = i
      BY <1>3, <1>5, <2>1, <3>1 DEF Before
    <3>2. CASE j # i
      BY <1>5, <2>1, <3>2
    <3> QED
      BY <3>1, <3>2
  <2>2. \A w \in writes' : w.item \in Leaving' => w.item \in Excused
    BY <1>4, <1>6 DEF TurnsInv, Leaving, Excused
  <2>3. \A w \in writes' : \E v \in writes :
            /\ w.item = v.item /\ w.item \in Items /\ w.saw = v.saw
            /\ w.at = v.at /\ w.reply = v.reply
    BY <1>4 DEF ShapesInv, WriteRecords
  <2> QED
    BY <1>4, <1>6, <2>1, <2>2, <2>3, StaleGrows
<1>10. TurnsInv'
  BY <1>4 DEF TurnsInv, NoSubmit
<1>11. NewestInv'
  <2> SUFFICES ASSUME NEW j \in Items, j \notin Excused PROVE Newest(j)'
    BY <1>6 DEF NewestInv
  <2>1. Newest(j)
    BY DEF NewestInv
  <2>2. CASE j = i
    BY <1>3, <1>4, <1>5, <2>1, <2>2 DEF Newest
  <2>3. CASE j # i
    BY <1>4, <1>5, <2>1, <2>3 DEF Newest
  <2> QED
    BY <2>2, <2>3
<1>12. RulesWhatItShowed'
  <2> SUFFICES ASSUME NEW j \in Items, open'[j].ruling # NoRuling
               PROVE  /\ open'[j].ruling.saw[1] = open'[j].written
                      /\ open'[j].question /\ open'[j].ruling.answers
                            => open'[j].ruling.saw[2] \/ j \in Excused
    BY <1>6 DEF RulesWhatItShowed, Excused
  <2>1. CASE j = i
    BY <1>3, <1>5, <2>1 DEF RulesWhatItShowed
  <2>2. CASE j # i
    BY <1>5, <2>2 DEF RulesWhatItShowed, Excused
  <2> QED
    BY <2>1, <2>2
<1>13. SubmitsNoOlder'
  <2> SUFFICES ASSUME submit.at \in {"ok", "bad"}, NEW j \in submit.ids, Submitted(open'[j])
               PROVE  open'[j].ruling.by >= submit.meant[j] \/ j \in Excused
    BY <1>4 DEF SubmitsNoOlder, Excused
  <2>1. j \in Items /\ j # i
    BY <1>3, <1>5 DEF ShapesInv, SubmitRecords
  <2> QED
    BY <1>5, <2>1 DEF SubmitsNoOlder, Excused
<1> QED
  BY <1>7, <1>8, <1>9, <1>10, <1>11, <1>12, <1>13

----------------------------------------------------------------------------
LEMMA TriageNextInv == TriageInv /\ [TriageNext]_triageVars => TriageInv'
<1> SUFFICES ASSUME TriageInv, [TriageNext]_triageVars PROVE TriageInv'
  OBVIOUS
<1>1. CASE \E i \in Items : Rule(i) \/ TakeBack(i)
  BY <1>1, WritesInv DEF Rule, TakeBack
<1>2. CASE \E w \in writes : WriteSteps(w)
  BY <1>2, LandsInv, TriageHeardInv DEF WriteSteps
<1>3. CASE Focus \/ Served \/ Arrives \/ FetchFails \/ Pull
  BY <1>3, FetchesInv
<1>4. CASE SubmitSteps
  BY <1>4, PressesInv, SubmitsInv, SubmitHeardInv DEF SubmitSteps
<1>5. CASE \E i \in Items : Lists(i) \/ Rewrites(i) \/ Withdraws(i) \/ Stamps(i) \/ Returns(i)
  BY <1>5, PushesInv
<1>6. CASE UNCHANGED triageVars
  <2>1. UNCHANGED <<open, index, shown, fetch, writes, pending, submit, counter, spent, asked, crossed, spoiled>>
    BY <1>6 DEF triageVars, pageVars, historyVars
  <2> QED
    BY <2>1 DEF TriageInv, ShapesInv, KnownInv, StaleInv, TurnsInv, NewestInv, Newest, NoSubmit,
           Excused, Leaving, Unheard, RulesWhatItShowed, SubmitsNoOlder
<1> QED
  BY <1>1, <1>2, <1>3, <1>4, <1>5, <1>6 DEF TriageNext

LEMMA TriageSpecInv == TriageSpec => []TriageInv
BY TriageInitInv, TriageNextInv, PTL DEF TriageSpec

\* The queue, the page's copies of it and its calls in flight keep their shape: a card
\* that shows a write shows one of its own that is in flight, and no reply, fetch or
\* index is ahead of the store (rulings.py, triage.py, use-triage.ts).
THEOREM TriageTypeCorrect == TriageSpec => []TriageTypeOK
<1>1. ASSUME TriageInv PROVE TriageTypeOK
  BY <1>1 DEF TriageInv, ShapesInv, SubmitRecords, KnownInv, Known, TurnsInv, TriageTypeOK
<1> QED
  BY <1>1, TriageSpecInv, PTL

\* No ruling stands on an item that the operator did not see as it is: _open compares
\* `written`, and a page cannot rule a returned item as it was before, but where its
\* card was written across a submit or a call that went wrong.
THEOREM ShownCorrect == TriageSpec => []RulesWhatItShowed
BY TriageSpecInv, PTL DEF TriageInv

\* A submit that has waited for the writes in flight takes no ruling that the operator
\* had replaced or taken back when pressing it, but where that write failed or raced.
THEOREM OlderCorrect == TriageSpec => []SubmitsNoOlder
BY TriageSpecInv, PTL DEF TriageInv

----------------------------------------------------------------------------
(* The inbox's page.                                                       *)

\* The page: a state of the sitting as the API tells it, and an event of the task channel.
States == [rev : Nat, task : 0 .. MaxTasks, lines : Seq(Nat)]
Events == [task : Tasks, line : Nat]
PageShapes ==
    /\ api \in States /\ newest \in 0 .. MaxTasks /\ ended \subseteq Tasks
    /\ toSend \in Events \cup {NoEvent} /\ channel \in Seq(Events)
    /\ data \in [state : States, at : Nat]
    /\ query \in [at : {"none", "asked", "served"}, state : States]
    /\ write \in [at : {"none", "asked", "taken", "refused"}, kind : {"none", "turn", "end"},
                  state : States]
    /\ followed \in 0 .. MaxTasks /\ finished \subseteq Tasks /\ subscribed \in 0 .. MaxTasks
    /\ heard \in [task : 0 .. MaxTasks, fetched : Nat, lines : Seq(Nat)]
    /\ settles \in [Tasks -> Nat] /\ told \in Nat /\ crossing \subseteq Nat

\* What was told of the sitting is what its file held: its lines are those of its turn
\* by then, the turn's later ones come after them, and no task is told before it begins.
Sees(s) ==
    /\ s.rev <= api.rev /\ s.task <= newest
    /\ s.task = api.task => Len(s.lines) <= Len(api.lines)
    /\ s.task = NoTask => s.lines = << >>
    /\ \A i \in DOMAIN s.lines : s.lines[i] = i
ToldInv ==
    /\ Sees(api) /\ Sees(data.state) /\ Sees(query.state) /\ Sees(write.state)
    /\ api.task \in {NoTask, newest} /\ told <= api.rev
    /\ query.at = "served" => query.state.rev >= told
    /\ write.at = "taken" => write.state.lines = << >>

\* The events on their way, the one being sent the last of them.
Way == IF toSend = NoEvent THEN channel ELSE Append(channel, toSend)
\* A line on its way that s holds was on its way as s was told.
Crossed(s, e) ==
    e.task = s.task /\ e.line \in 1 .. Len(s.lines) => e.line \in crossing
EventInv(e) ==
    /\ e.task <= newest /\ (e.task = api.task => e.line <= Len(api.lines))
    /\ e.task = heard.task /\ e.line # TaskEnd =>
          \A i \in DOMAIN heard.lines : heard.lines[i] < e.line
    /\ Crossed(data.state, e) /\ (query.at = "served" => Crossed(query.state, e))
\* The lines of a task are on their way in order.
WayOrdered ==
    \A j, k \in DOMAIN Way :
        j < k /\ Way[j].task = Way[k].task /\ Way[j].line # TaskEnd /\ Way[k].line # TaskEnd =>
            Way[j].line < Way[k].line
WayInv == WayOrdered /\ \A k \in DOMAIN Way : EventInv(Way[k])

\* The lines said since the fetch come in order, and go on from it but where they crossed it.
SinceInv ==
    /\ heard.fetched <= data.at /\ heard.task <= newest
    /\ heard.task = NoTask => heard.lines = << >>
    /\ heard.task = api.task =>
          \A i \in DOMAIN heard.lines : heard.lines[i] <= Len(api.lines)
    /\ \A i, j \in DOMAIN heard.lines : i < j => heard.lines[i] < heard.lines[j]
    /\ heard.task = data.state.task /\ heard.fetched = data.at =>
          \A i \in DOMAIN heard.lines :
              heard.lines[i] \in 1 .. Len(data.state.lines) => heard.lines[i] \in crossing

\* A task whose end is settled is not followed again.
SettledInv ==
    /\ \A t \in Tasks : settles[t] = IF t \in finished THEN 1 ELSE 0
    /\ followed # NoTask => followed \notin finished

PageInv == PageShapes /\ ToldInv /\ WayInv /\ SinceInv /\ SettledInv /\ WritesStand

----------------------------------------------------------------------------
\* The states and events that are told.
LEMMA PageConstants ==
  /\ MaxTasks \in Nat \ {0} /\ 1 \in Tasks /\ NoTask \in 0 .. MaxTasks /\ NoEvent \notin Events
  /\ \A rev \in Nat : /\ NoTurn(rev) \in States /\ NoTurn(rev).rev = rev
                      /\ NoTurn(rev).task = NoTask /\ NoTurn(rev).lines = << >>
  /\ NoQuery.at = "none" /\ NoQuery.state = NoTurn(0) /\ Asked.at = "asked" /\ Asked.state = NoTurn(0)
  /\ NoQuery \in [at : {"none", "asked", "served"}, state : States]
  /\ Asked \in [at : {"none", "asked", "served"}, state : States]
  /\ NoWrite \in [at : {"none", "asked", "taken", "refused"}, kind : {"none", "turn", "end"},
                  state : States]
  /\ NoWrite.at = "none" /\ NoWrite.state = NoTurn(0)
<1>1. MaxTasks \in Nat \ {0} /\ 1 \in Tasks /\ NoTask \in 0 .. MaxTasks
  BY PageAssumption DEF Tasks, NoTask
<1>2. NoEvent \notin Events
  BY DEF NoEvent, Events, Tasks, NoTask
<1>3. \A rev \in Nat : /\ NoTurn(rev) \in States /\ NoTurn(rev).rev = rev
                      /\ NoTurn(rev).task = NoTask /\ NoTurn(rev).lines = << >>
  BY <1>1 DEF NoTurn, States
<1>4. NoTurn(0) \in States
  BY <1>3
<1> QED
  BY <1>1, <1>2, <1>3, <1>4 DEF NoQuery, Asked, NoWrite

LEMMA NoTurnSeen ==
  ASSUME PageShapes, NEW n \in Nat, n <= api.rev PROVE Sees(NoTurn(n))
<1>1. newest \in Nat /\ Len(api.lines) \in Nat
  BY DEF PageShapes, States
<1>2. Len(NoTurn(n).lines) = 0 /\ DOMAIN NoTurn(n).lines = {}
  BY PageConstants
<1> QED
  BY <1>1, <1>2, PageConstants DEF Sees, NoTask

\* The sitting goes on: its turn with more lines, with no turn, or with a new task.
ApiGoesOn ==
    /\ api.rev <= api'.rev /\ newest <= newest'
    /\ \/ api'.task = NoTask
       \/ api'.task = api.task /\ Len(api.lines) <= Len(api'.lines)
       \/ api'.task = newest' /\ newest < newest'
LEMMA StillSeen ==
  ASSUME PageShapes, PageShapes', ToldInv, ApiGoesOn, NEW s \in States, Sees(s)
  PROVE  Sees(s)'
<1>1. /\ api \in States /\ api' \in States /\ newest \in Nat /\ newest' \in Nat
  BY DEF PageShapes
<1>2. s.rev <= api'.rev /\ s.task <= newest'
  BY <1>1 DEF Sees, ApiGoesOn, States
<1>3. ASSUME s.task = api'.task PROVE Len(s.lines) <= Len(api'.lines)
  <2>1. CASE s.task = NoTask
    <3>1. Len(s.lines) = 0
      BY <2>1 DEF Sees
    <3> QED
      BY <1>1, <3>1 DEF States
  <2>2. CASE api'.task = api.task /\ Len(api.lines) <= Len(api'.lines)
    <3>1. Len(s.lines) <= Len(api.lines)
      BY <1>3, <2>2 DEF Sees
    <3> QED
      BY <1>1, <2>2, <3>1 DEF States
  <2>3. CASE api'.task = newest' /\ newest < newest'
    BY <1>1, <1>3, <2>3 DEF Sees, States
  <2> QED
    BY <1>3, <2>1, <2>2, <2>3 DEF ApiGoesOn
<1> QED
  BY <1>2, <1>3 DEF Sees

----------------------------------------------------------------------------
\* How the events on their way move.
LEMMA WayIsOfEvents == ASSUME PageShapes PROVE Way \in Seq(Events)
  BY DEF PageShapes, Way

LEMMA Sending ==
  ASSUME PageShapes, toSend = NoEvent, toSend' \in Events, channel' = channel
  PROVE  Way' = Append(Way, toSend')
  BY PageConstants DEF Way

LEMMA Sent ==
  ASSUME PageShapes, toSend # NoEvent, toSend' = NoEvent, channel' = Append(channel, toSend)
  PROVE  Way' = Way
  BY DEF Way

LEMMA Arriving ==
  ASSUME PageShapes, channel # << >>, channel' = Tail(channel), toSend' = toSend
  PROVE  /\ Way # << >> /\ Way' = Tail(Way) /\ Head(Way) = Head(channel)
         /\ channel' \in Seq(Events) /\ Head(channel) \in Events
<1>1. channel \in Seq(Events) /\ Len(channel) >= 1
  BY DEF PageShapes
<1>2. channel' \in Seq(Events) /\ Head(channel) \in Events
  BY <1>1
<1>3. CASE toSend = NoEvent
  BY <1>1, <1>2, <1>3 DEF Way
<1>4. CASE toSend # NoEvent
  <2>1. toSend \in Events
    BY <1>4 DEF PageShapes
  <2>2. Append(channel, toSend) # << >> /\ Head(Append(channel, toSend)) = Head(channel)
    BY <1>1, <2>1
  <2>3. Tail(Append(channel, toSend)) = Append(Tail(channel), toSend)
    BY <1>1, <2>1
  <2> QED
    BY <1>2, <1>4, <2>2, <2>3 DEF Way
<1> QED
  BY <1>3, <1>4

LEMMA WayKept ==
  ASSUME PageShapes, WayInv, Way' = Way,
         \A x \in Events, k \in DOMAIN Way : x = Way[k] /\ EventInv(x) => EventInv(x)'
  PROVE  WayInv'
<1>1. \A k \in DOMAIN Way : Way[k] \in Events
  BY WayIsOfEvents
<1>2. WayOrdered'
  BY DEF WayInv, WayOrdered
<1>3. ASSUME NEW k \in DOMAIN Way PROVE EventInv(Way[k])'
  <2>1. PICK x \in Events : x = Way[k]
    BY <1>1
  <2>2. EventInv(x)'
    BY <2>1 DEF WayInv
  <2> QED
    BY <2>1, <2>2 DEF EventInv, Crossed
<1> QED
  BY <1>2, <1>3 DEF WayInv

LEMMA WayShorter ==
  ASSUME PageShapes, WayInv, Way # << >>, Way' = Tail(Way),
         \A x \in Events, k \in DOMAIN Way \ {1} : x = Way[k] /\ EventInv(x) => EventInv(x)'
  PROVE  WayInv'
<1>1. Way \in Seq(Events) /\ \A k \in DOMAIN Way : Way[k] \in Events
  BY WayIsOfEvents
<1>2. \A k \in DOMAIN Way' : k + 1 \in DOMAIN Way \ {1} /\ Way'[k] = Way[k + 1] /\ k \in Nat
  BY <1>1
<1>3. WayOrdered'
  <2> SUFFICES ASSUME NEW j \in DOMAIN Way', NEW k \in DOMAIN Way', j < k, Way'[j].task = Way'[k].task,
                      Way'[j].line # TaskEnd, Way'[k].line # TaskEnd
               PROVE  Way'[j].line < Way'[k].line
    BY DEF WayOrdered
  <2>1. j + 1 < k + 1
    BY <1>2
  <2> QED
    BY <1>2, <2>1 DEF WayInv, WayOrdered
<1>4. ASSUME NEW k \in DOMAIN Way' PROVE EventInv(Way[k])'
  <2>1. PICK x \in Events : x = Way[k + 1]
    BY <1>1, <1>2
  <2>2. EventInv(x)' /\ x = Way'[k]
    BY <1>2, <2>1 DEF WayInv
  <2> QED
    BY <2>2 DEF EventInv, Crossed
<1> QED
  BY <1>3, <1>4 DEF WayInv

LEMMA WayLonger ==
  ASSUME PageShapes, WayInv, NEW e \in Events, Way' = Append(Way, e), EventInv(e)',
         \A x \in Events, k \in DOMAIN Way : x = Way[k] /\ EventInv(x) =>
            /\ EventInv(x)'
            /\ x.task = e.task /\ x.line # TaskEnd /\ e.line # TaskEnd => x.line < e.line
  PROVE  WayInv'
<1> DEFINE n == Len(Way)
<1>1. Way \in Seq(Events) /\ (\A k \in DOMAIN Way : Way[k] \in Events) /\ n \in Nat /\ DOMAIN Way = 1 .. n
  BY WayIsOfEvents
<1>2. /\ DOMAIN Way' = DOMAIN Way \cup {n + 1} /\ Way'[n + 1] = e
      /\ \A k \in DOMAIN Way : Way'[k] = Way[k]
  BY <1>1
<1>3. WayOrdered'
  <2> SUFFICES ASSUME NEW j \in DOMAIN Way', NEW k \in DOMAIN Way', j < k, Way'[j].task = Way'[k].task,
                      Way'[j].line # TaskEnd, Way'[k].line # TaskEnd
               PROVE  Way'[j].line < Way'[k].line
    BY DEF WayOrdered
  <2>1. j \in DOMAIN Way
    BY <1>1, <1>2
  <2>2. CASE k \in DOMAIN Way
    BY <1>2, <2>1, <2>2 DEF WayInv, WayOrdered
  <2>3. CASE k = n + 1
    <3>1. PICK x \in Events : x = Way[j]
      BY <1>1, <2>1
    <3>2. EventInv(x)
      BY <2>1, <3>1 DEF WayInv
    <3> QED
      BY <1>2, <2>1, <2>3, <3>1, <3>2
  <2> QED
    BY <1>2, <2>2, <2>3
<1>4. ASSUME NEW k \in DOMAIN Way' PROVE EventInv(Way[k])'
  <2>1. CASE k \in DOMAIN Way
    <3>1. PICK x \in Events : x = Way[k]
      BY <1>1, <2>1
    <3>2. EventInv(x)' /\ x = Way'[k]
      BY <1>2, <2>1, <3>1 DEF WayInv
    <3> QED
      BY <3>2 DEF EventInv, Crossed
  <2>2. CASE k = n + 1
    <3>1. Way'[k] = e
      BY <1>2, <2>2
    <3> QED
      BY <3>1 DEF EventInv, Crossed
  <2> QED
    BY <1>2, <2>1, <2>2
<1> QED
  BY <1>3, <1>4 DEF WayInv

----------------------------------------------------------------------------
\* A step of the API leaves what the page has.
LEMMA EventStays ==
  ASSUME PageShapes, PageShapes', ApiGoesOn, UNCHANGED <<heard, data, query, crossing>>,
         NEW x \in Events, EventInv(x)
  PROVE  EventInv(x)'
<1>1. /\ x.task \in 1 .. MaxTasks /\ x.line \in Nat /\ newest \in Nat /\ newest' \in Nat
      /\ api \in States /\ api' \in States
  BY PageConstants DEF Events, Tasks, PageShapes
<1>2. x.task <= newest'
  BY <1>1 DEF EventInv, ApiGoesOn
<1>3. ASSUME x.task = api'.task PROVE x.line <= Len(api'.lines)
  BY <1>1, <1>3 DEF EventInv, ApiGoesOn, NoTask, States
<1> QED
  BY <1>2, <1>3 DEF EventInv, Crossed

LEMMA SinceStays ==
  ASSUME PageShapes, PageShapes', SinceInv, ApiGoesOn, UNCHANGED <<heard, data, crossing>>
  PROVE  SinceInv'
<1>1. /\ newest \in Nat /\ newest' \in Nat /\ api \in States /\ api' \in States
      /\ heard.task \in Nat /\ heard.lines \in Seq(Nat)
  BY PageConstants DEF PageShapes
<1>2. heard.task <= newest'
  BY <1>1 DEF SinceInv, ApiGoesOn
<1>3. ASSUME heard.task = api'.task, NEW i \in DOMAIN heard.lines
      PROVE  heard.lines[i] <= Len(api'.lines)
  <2>1. heard.task # NoTask
    BY <1>3 DEF SinceInv
  <2>2. heard.task = api.task /\ Len(api.lines) <= Len(api'.lines)
    BY <1>1, <1>3, <2>1 DEF SinceInv, ApiGoesOn
  <2>3. heard.lines[i] <= Len(api.lines) /\ heard.lines[i] \in Nat
    BY <1>1, <2>2 DEF SinceInv
  <2> QED
    BY <1>1, <2>2, <2>3 DEF States
<1> QED
  BY <1>2, <1>3 DEF SinceInv

\* The end of the turn's task, sent after its lines.
LEMMA EndingInv ==
  ASSUME PageShapes, PageShapes', ToldInv, WayInv, ApiGoesOn, UNCHANGED <<heard, data, query, crossing, channel>>,
         toSend = NoEvent, api.task # NoTask, EndsTask
  PROVE  WayInv'
<1>1. PICK e \in Events : toSend' = e /\ e.line = 0 /\ TaskEnd = 0 /\ e.task = api.task
  <2> DEFINE e == [task |-> api.task, line |-> TaskEnd]
  <2>1. e \in Events /\ toSend' = e /\ e.line = 0 /\ TaskEnd = 0 /\ e.task = api.task
    BY PageConstants DEF PageShapes, States, Events, Tasks, EndsTask, TaskEnd, NoTask
  <2> QED
    BY <2>1
<1>2. Way' = Append(Way, e)
  BY <1>1, Sending
<1>3. EventInv(e)'
  <2>1. e.task <= newest'
    BY <1>1 DEF ToldInv, Sees, PageShapes, ApiGoesOn, States
  <2>2. 0 <= Len(api'.lines)
    BY DEF PageShapes, States
  <2>3. ~(e.line \in 1 .. Len(data'.state.lines)) /\ ~(e.line \in 1 .. Len(query'.state.lines))
    BY <1>1 DEF PageShapes, States
  <2> QED
    BY <1>1, <2>1, <2>2, <2>3 DEF EventInv, Crossed
<1> QED
  BY <1>1, <1>2, <1>3, EventStays, WayLonger

LEMMA ToldStays ==
  ASSUME PageShapes, PageShapes', ToldInv, ApiGoesOn, UNCHANGED <<data, query, told>>,
         Sees(api)', Sees(write.state)', api'.task \in {NoTask, newest'},
         write'.at = "taken" => write'.state.lines = << >>
  PROVE  ToldInv'
<1>1. data.state \in States /\ query.state \in States
  BY DEF PageShapes
<1>2. Sees(data.state)' /\ Sees(query.state)'
  <2>1. PICK s \in States : s = data.state
    BY <1>1
  <2>2. PICK t \in States : t = query.state
    BY <1>1
  <2>3. Sees(s)' /\ Sees(t)'
    BY <2>1, <2>2, StillSeen DEF ToldInv
  <2> QED
    BY <2>1, <2>2, <2>3 DEF Sees
<1>3. told' <= api'.rev
  <2>1. told \in Nat /\ api.rev \in Nat /\ api'.rev \in Nat
    BY DEF PageShapes, States
  <2> QED
    BY <2>1 DEF ToldInv, ApiGoesOn
<1> QED
  BY <1>2, <1>3 DEF ToldInv

----------------------------------------------------------------------------
\* The steps of the API.
PageStays == UNCHANGED <<data, query, write, followed, finished, subscribed, heard, settles, told, crossing>>

LEMMA ApiIs ==
  ASSUME PageShapes
  PROVE  /\ api \in States /\ api.lines \in Seq(Nat) /\ Len(api.lines) \in Nat /\ api.rev \in Nat
         /\ newest \in Nat /\ newest \in 0 .. MaxTasks
         /\ api.task # NoTask => api.task \in 1 .. MaxTasks
<1>1. api \in States /\ newest \in 0 .. MaxTasks /\ MaxTasks \in Nat
  BY PageConstants DEF PageShapes
<1>2. api.lines \in Seq(Nat) /\ api.rev \in Nat /\ api.task \in 0 .. MaxTasks
  BY <1>1 DEF States
<1> QED
  BY <1>1, <1>2 DEF NoTask

LEMMA SaysInv == ASSUME PageInv, Says PROVE PageInv'
<1> USE DEF PageInv
<1> DEFINE n == LineCount + 1
<1>1. /\ toSend = NoEvent /\ api.task # NoTask /\ channel' = channel /\ newest' = newest
      /\ ended' = ended /\ PageStays
      /\ api' = [api EXCEPT !.rev = @ + 1, !.lines = Append(@, n)]
      /\ toSend' = [task |-> api.task, line |-> n]
  BY DEF Says, Following, PageStays, taskVars
<1>2. /\ api \in States /\ api.lines \in Seq(Nat) /\ Len(api.lines) \in Nat /\ api.rev \in Nat
      /\ n = Len(api.lines) + 1 /\ n \in Nat /\ api.task \in 1 .. MaxTasks
  BY <1>1, ApiIs DEF LineCount
<1> HIDE DEF n
<1>3. /\ api' \in States /\ api'.rev = api.rev + 1 /\ api'.task = api.task
      /\ api'.lines = Append(api.lines, n) /\ Len(api'.lines) = n
  <2> DEFINE rev == api.rev + 1
             lines == Append(api.lines, n)
  <2>1. rev \in Nat /\ lines \in Seq(Nat) /\ Len(lines) = n /\ api' = [api EXCEPT !.rev = rev, !.lines = lines]
    BY <1>1, <1>2
  <2>2. rev = api.rev + 1 /\ lines = Append(api.lines, n)
    OBVIOUS
  <2> HIDE DEF rev, lines
  <2>3. [api EXCEPT !.rev = rev, !.lines = lines] \in States
    BY <1>2, <2>1 DEF States
  <2> QED
    BY <1>2, <2>1, <2>2, <2>3 DEF States
<1>4. PICK e \in Events : toSend' = e /\ e.task = api.task /\ e.line = n
  <2>1. [task |-> api.task, line |-> n] \in Events
    BY <1>2 DEF Events, Tasks
  <2> QED
    BY <1>1, <2>1
<1>5. PageShapes'
  BY <1>1, <1>3, <1>4 DEF PageShapes, PageStays
<1>6. ApiGoesOn
  BY <1>1, <1>2, <1>3 DEF ApiGoesOn, PageShapes
<1>7. ToldInv'
  <2>1. Sees(api)'
    <3>1. \A i \in DOMAIN api'.lines : api'.lines[i] = i
      BY <1>2, <1>3 DEF ToldInv, Sees
    <3> QED
      BY <1>1, <1>2, <1>3, <3>1 DEF ToldInv, Sees, NoTask
  <2>2. Sees(write.state)'
    <3>1. PICK s \in States : s = write.state
      BY DEF PageShapes
    <3>2. Sees(s)'
      BY <1>5, <1>6, <3>1, StillSeen DEF ToldInv
    <3> QED
      BY <1>1, <3>1, <3>2 DEF Sees, PageStays
  <2> QED
    BY <1>1, <1>3, <1>5, <1>6, <2>1, <2>2, ToldStays DEF ToldInv, PageStays
<1>8. WayInv'
  <2>1. Way' = Append(Way, e)
    BY <1>1, <1>4, Sending
  <2>2. EventInv(e)'
    <3>1. e.task <= newest'
      BY <1>1, <1>4 DEF ToldInv, Sees
    <3>2. ASSUME e.task = heard.task, NEW i \in DOMAIN heard.lines PROVE heard.lines[i] < e.line
      <4>1. heard.lines[i] <= Len(api.lines) /\ heard.lines[i] \in Nat
        BY <1>4, <3>2 DEF SinceInv, PageShapes
      <4> QED
        BY <1>2, <1>4, <4>1
    <3>3. ASSUME NEW s \in States, Sees(s), e.task = s.task PROVE e.line \notin 1 .. Len(s.lines)
      <4>1. Len(s.lines) <= Len(api.lines) /\ Len(s.lines) \in Nat
        BY <1>4, <3>3 DEF Sees, States
      <4> QED
        BY <1>2, <1>4, <4>1
    <3>4. Crossed(data.state, e)' /\ Crossed(query.state, e)'
      <4>1. data.state \in States /\ query.state \in States
        BY DEF PageShapes
      <4> QED
        BY <1>1, <3>3, <4>1 DEF Crossed, ToldInv, PageStays
    <3>5. e.line <= Len(api'.lines)
      BY <1>2, <1>3, <1>4
    <3> QED
      BY <1>1, <3>1, <3>2, <3>4, <3>5 DEF EventInv, PageStays
  <2>3. ASSUME NEW x \in Events, EventInv(x), x.task = e.task PROVE x.line < e.line
    <3>1. x.line <= Len(api.lines) /\ x.line \in Nat
      BY <1>4, <2>3 DEF EventInv, Events
    <3> QED
      BY <1>2, <1>4, <3>1
  <2> QED
    BY <1>1, <1>5, <1>6, <2>1, <2>2, <2>3, EventStays, WayLonger DEF PageStays
<1>9. SinceInv'
  BY <1>1, <1>5, <1>6, SinceStays DEF PageStays
<1>10. SettledInv' /\ WritesStand'
  BY <1>1 DEF SettledInv, WritesStand, PageStays
<1> QED
  BY <1>5, <1>7, <1>8, <1>9, <1>10

\* The turn is over, goes on under a new task, or is left by the pod.
LEMMA TurnsOnInv == ASSUME PageInv, TurnIsOver \/ PodLeaves \/ TakenOver PROVE PageInv'
<1> USE DEF PageInv
<1>1. /\ toSend = NoEvent /\ api.task # NoTask /\ channel' = channel /\ PageStays
      /\ EndsTask \/ UNCHANGED <<toSend, ended>>
      /\ \/ api' = NoTurn(api.rev + 1) /\ newest' = newest
         \/ UNCHANGED <<api, newest>>
         \/ /\ newest < MaxTasks /\ newest' = newest + 1
            /\ api' = [api EXCEPT !.rev = @ + 1, !.task = newest + 1]
  BY DEF TurnIsOver, PodLeaves, TakenOver, Following, PageStays, taskVars
<1>2. /\ api \in States /\ api.rev \in Nat /\ newest \in Nat /\ api.task \in 1 .. MaxTasks
      /\ MaxTasks \in Nat
  BY <1>1, ApiIs, PageConstants
<1>3. /\ api' \in States /\ api.rev <= api'.rev /\ newest' \in 0 .. MaxTasks /\ newest <= newest'
      /\ \/ api'.task = NoTask /\ api'.lines = << >>
         \/ UNCHANGED <<api, newest>>
         \/ newest' = newest + 1 /\ api'.task = newest + 1 /\ api'.lines = api.lines
  <2>1. CASE api' = NoTurn(api.rev + 1) /\ newest' = newest
    BY <1>2, <2>1, PageConstants DEF PageShapes
  <2>2. CASE UNCHANGED <<api, newest>>
    BY <1>2, <2>2 DEF PageShapes
  <2>3. CASE newest < MaxTasks /\ newest' = newest + 1 /\ api' = [api EXCEPT !.rev = @ + 1, !.task = newest + 1]
    <3> DEFINE rev == api.rev + 1
               task == newest + 1
    <3>1. rev \in Nat /\ api.rev <= rev /\ task \in 0 .. MaxTasks /\ newest <= task
      BY <1>2, <2>3
    <3>2. task = newest + 1 /\ api' = [api EXCEPT !.rev = rev, !.task = task]
      BY <2>3
    <3> HIDE DEF rev, task
    <3>3. api' \in States /\ api'.rev = rev /\ api'.task = task /\ api'.lines = api.lines
      BY <1>2, <3>1, <3>2 DEF States
    <3> QED
      BY <2>3, <3>1, <3>2, <3>3
  <2> QED
    BY <1>1, <2>1, <2>2, <2>3
<1>4. PageShapes'
  <2>1. toSend' \in Events \cup {NoEvent} /\ ended' \subseteq Tasks
    BY <1>1, <1>2 DEF EndsTask, PageShapes, Events, Tasks, TaskEnd
  <2> QED
    BY <1>1, <1>3, <2>1 DEF PageShapes, PageStays
<1>5. ApiGoesOn
  BY <1>2, <1>3 DEF ApiGoesOn, States
<1>6. ToldInv'
  <2>1. Sees(api)'
    <3>1. \A i \in DOMAIN api'.lines : api'.lines[i] = i
      BY <1>3 DEF ToldInv, Sees
    <3> QED
      BY <1>2, <1>3, <3>1 DEF ToldInv, Sees, NoTask, States
  <2>2. Sees(write.state)'
    <3>1. PICK s \in States : s = write.state
      BY DEF PageShapes
    <3>2. Sees(s)'
      BY <1>4, <1>5, <3>1, StillSeen DEF ToldInv
    <3> QED
      BY <1>1, <3>1, <3>2 DEF Sees, PageStays
  <2>3. api'.task \in {NoTask, newest'}
    BY <1>3 DEF ToldInv
  <2> QED
    BY <1>1, <1>4, <1>5, <2>1, <2>2, <2>3, ToldStays DEF ToldInv, PageStays
<1>7. WayInv'
  <2>1. CASE EndsTask
    BY <1>1, <1>4, <1>5, <2>1, EndingInv DEF PageStays
  <2>2. CASE UNCHANGED toSend
    <3>1. Way' = Way
      BY <1>1, <2>2 DEF Way
    <3> QED
      BY <1>1, <1>4, <1>5, <3>1, EventStays, WayKept DEF PageStays
  <2> QED
    BY <1>1, <2>1, <2>2
<1>8. SinceInv'
  BY <1>1, <1>4, <1>5, SinceStays DEF PageStays
<1>9. SettledInv' /\ WritesStand'
  BY <1>1 DEF SettledInv, WritesStand, PageStays
<1> QED
  BY <1>4, <1>6, <1>7, <1>8, <1>9

LEMMA SendsInv == ASSUME PageInv, Sends \/ EventLost PROVE PageInv'
<1> USE DEF PageInv
<1>1. /\ UNCHANGED <<api, newest, ended>> /\ PageStays
      /\ \/ toSend # NoEvent /\ toSend' = NoEvent /\ channel' = Append(channel, toSend)
         \/ channel # << >> /\ channel' = Tail(channel) /\ toSend' = toSend
  BY DEF Sends, EventLost, PageStays, taskVars
<1>2. PageShapes'
  <2>1. channel' \in Seq(Events)
    <3>1. CASE toSend # NoEvent /\ channel' = Append(channel, toSend)
      BY <3>1 DEF PageShapes
    <3>2. CASE channel # << >> /\ channel' = Tail(channel) /\ toSend' = toSend
      BY <3>2, Arriving
    <3> QED
      BY <1>1, <3>1, <3>2
  <2>2. toSend' \in Events \cup {NoEvent}
    BY <1>1 DEF PageShapes
  <2> QED
    BY <1>1, <2>1, <2>2 DEF PageShapes, PageStays
<1>3. ApiGoesOn
  BY <1>1 DEF ApiGoesOn, PageShapes, States
<1>4. ToldInv'
  BY <1>1 DEF ToldInv, Sees, PageStays
<1>5. WayInv'
  <2>1. CASE toSend # NoEvent /\ toSend' = NoEvent /\ channel' = Append(channel, toSend)
    <3>1. Way' = Way
      BY <2>1, Sent
    <3> QED
      BY <1>1, <1>2, <1>3, <3>1, EventStays, WayKept DEF PageStays
  <2>2. CASE channel # << >> /\ channel' = Tail(channel) /\ toSend' = toSend
    <3>1. Way # << >> /\ Way' = Tail(Way)
      BY <2>2, Arriving
    <3> QED
      BY <1>1, <1>2, <1>3, <3>1, EventStays, WayShorter DEF PageStays
  <2> QED
    BY <1>1, <2>1, <2>2
<1>6. SinceInv' /\ SettledInv' /\ WritesStand'
  BY <1>1 DEF SinceInv, SettledInv, WritesStand, PageStays
<1> QED
  BY <1>2, <1>4, <1>5, <1>6

----------------------------------------------------------------------------
\* The page's writes and fetches.
LEMMA WriteReachesInv == ASSUME PageInv, WriteReaches PROVE PageInv'
<1> USE DEF PageInv
<1>1. /\ toSend = NoEvent /\ channel' = channel /\ write.at = "asked"
      /\ UNCHANGED <<data, query, followed, finished, subscribed, heard, settles, told, crossing>>
      /\ \/ /\ newest < MaxTasks /\ newest' = newest + 1
            /\ api' = [rev |-> api.rev + 1, task |-> newest + 1, lines |-> << >>]
            /\ write' = [write EXCEPT !.at = "taken", !.state = api']
            /\ UNCHANGED <<toSend, ended>>
         \/ write' = [write EXCEPT !.at = "refused"] /\ UNCHANGED <<api, newest, ended, toSend>>
         \/ /\ api' = NoTurn(api.rev + 1) /\ newest' = newest
            /\ write' = [write EXCEPT !.at = "taken", !.state = api']
            /\ (api.task # NoTask /\ EndsTask) \/ UNCHANGED <<toSend, ended>>
  BY DEF WriteReaches, Taken, taskVars
<1>2. api \in States /\ api.rev \in Nat /\ newest \in 0 .. MaxTasks /\ MaxTasks \in Nat
  BY ApiIs, PageConstants
<1>3. /\ api' \in States /\ api.rev <= api'.rev /\ newest' \in 0 .. MaxTasks /\ newest <= newest'
      /\ \/ UNCHANGED <<api, newest>> /\ write' = [write EXCEPT !.at = "refused"]
         \/ /\ api'.lines = << >> /\ write' = [write EXCEPT !.at = "taken", !.state = api']
            /\ \/ api'.task = NoTask /\ newest' = newest
               \/ newest' = newest + 1 /\ api'.task = newest + 1
  <2>1. CASE /\ newest < MaxTasks /\ newest' = newest + 1
             /\ api' = [rev |-> api.rev + 1, task |-> newest + 1, lines |-> << >>]
             /\ write' = [write EXCEPT !.at = "taken", !.state = api']
    BY <1>2, <2>1 DEF States
  <2>2. CASE write' = [write EXCEPT !.at = "refused"] /\ UNCHANGED <<api, newest, ended, toSend>>
    BY <1>2, <2>2
  <2>3. CASE /\ api' = NoTurn(api.rev + 1) /\ newest' = newest
             /\ write' = [write EXCEPT !.at = "taken", !.state = api']
    <3>1. api.rev + 1 \in Nat
      BY <1>2
    <3> QED
      BY <1>2, <2>3, <3>1, PageConstants
  <2> QED
    BY <1>1, <2>1, <2>2, <2>3
<1>4. /\ write' \in [at : {"none", "asked", "taken", "refused"}, kind : {"none", "turn", "end"},
                     state : States]
      /\ \/ write'.at = "refused" /\ write'.state = write.state
         \/ write'.at = "taken" /\ write'.state = api' /\ api'.lines = << >>
  BY <1>3 DEF PageShapes
<1>5. PageShapes'
  <2>1. toSend' \in Events \cup {NoEvent} /\ ended' \subseteq Tasks
    <3>1. CASE api.task # NoTask /\ EndsTask
      BY <3>1, ApiIs DEF EndsTask, PageShapes, Events, Tasks, TaskEnd
    <3>2. CASE UNCHANGED <<toSend, ended>>
      BY <3>2 DEF PageShapes
    <3> QED
      BY <1>1, <3>1, <3>2
  <2> QED
    BY <1>1, <1>3, <1>4, <2>1 DEF PageShapes
<1>6. ApiGoesOn
  BY <1>2, <1>3 DEF ApiGoesOn, States
<1>7. ToldInv'
  <2>1. Sees(api)'
    <3>1. \A i \in DOMAIN api'.lines : api'.lines[i] = i
      BY <1>3 DEF ToldInv, Sees
    <3> QED
      BY <1>2, <1>3, <3>1 DEF ToldInv, Sees, NoTask, States
  <2>2. Sees(write.state)'
    <3>1. PICK s \in States : s = write.state
      BY DEF PageShapes
    <3>2. Sees(s)'
      BY <1>5, <1>6, <3>1, StillSeen DEF ToldInv
    <3> QED
      BY <1>4, <2>1, <3>1, <3>2 DEF Sees
  <2>3. api'.task \in {NoTask, newest'}
    BY <1>3 DEF ToldInv
  <2> QED
    BY <1>1, <1>4, <1>5, <1>6, <2>1, <2>2, <2>3, ToldStays
<1>8. WayInv'
  <2>1. CASE api.task # NoTask /\ EndsTask
    BY <1>1, <1>5, <1>6, <2>1, EndingInv
  <2>2. CASE UNCHANGED toSend
    <3>1. Way' = Way
      BY <1>1, <2>2 DEF Way
    <3> QED
      BY <1>1, <1>5, <1>6, <3>1, EventStays, WayKept
  <2> QED
    BY <1>1, <2>1, <2>2
<1>9. SinceInv'
  BY <1>1, <1>5, <1>6, SinceStays
<1>10. SettledInv' /\ WritesStand'
  BY <1>1 DEF SettledInv, WritesStand
<1> QED
  BY <1>5, <1>7, <1>8, <1>9, <1>10

\* Steps that give up or begin a fetch or a write.
LEMMA CallsInv ==
  ASSUME PageInv, TimerFetches \/ QueryFails \/ OperatorActs \/ WriteRefused \/ WriteUnheard
  PROVE  PageInv'
<1> USE DEF PageInv
<1>1. /\ UNCHANGED <<apiVars, data, taskVars, told, crossing>>
      /\ query' \in {query, NoQuery, Asked}
      /\ \/ write' \in {write, NoWrite}
         \/ \E kind \in {"turn", "end"} : write' = [NoWrite EXCEPT !.at = "asked", !.kind = kind]
  BY DEF TimerFetches, QueryFails, OperatorActs, WriteRefused, WriteUnheard
<1>2. /\ query' \in [at : {"none", "asked", "served"}, state : States]
      /\ \/ query' = query
         \/ query'.at # "served" /\ query'.state = NoTurn(0)
  BY <1>1, PageConstants DEF PageShapes
<1>3. /\ write' \in [at : {"none", "asked", "taken", "refused"}, kind : {"none", "turn", "end"},
                     state : States]
      /\ \/ write' = write
         \/ write'.at # "taken" /\ write'.state = NoTurn(0)
  <2>1. CASE write' \in {write, NoWrite}
    BY <2>1, PageConstants DEF PageShapes
  <2>2. CASE \E kind \in {"turn", "end"} : write' = [NoWrite EXCEPT !.at = "asked", !.kind = kind]
    <3>1. PICK kind \in {"turn", "end"} : write' = [NoWrite EXCEPT !.at = "asked", !.kind = kind]
      BY <2>2
    <3> QED
      BY <3>1, PageConstants
  <2> QED
    BY <1>1, <2>1, <2>2
<1>4. PageShapes'
  BY <1>1, <1>2, <1>3 DEF PageShapes, apiVars, taskVars
<1>5. ToldInv'
  <2>1. Sees(NoTurn(0))
    BY ApiIs, NoTurnSeen
  <2>2. Sees(query.state)' /\ Sees(write.state)'
    BY <1>1, <1>2, <1>3, <2>1 DEF ToldInv, Sees, apiVars
  <2> QED
    BY <1>1, <1>2, <1>3, <2>2 DEF ToldInv, Sees, apiVars
<1>6. WayInv'
  <2>1. Way' = Way
    BY <1>1 DEF Way, apiVars
  <2>2. \A x \in Events : EventInv(x) => EventInv(x)'
    BY <1>1, <1>2 DEF EventInv, Crossed, apiVars, taskVars
  <2> QED
    BY <2>1, <2>2, WayKept
<1>7. SinceInv' /\ SettledInv' /\ WritesStand'
  BY <1>1 DEF SinceInv, SettledInv, WritesStand, apiVars, taskVars
<1> QED
  BY <1>4, <1>5, <1>6, <1>7

\* The fetch is answered: the lines on their way by then have crossed it.
LEMMA QueryServedInv == ASSUME PageInv, QueryServed PROVE PageInv'
<1> USE DEF PageInv
<1>1. /\ UNCHANGED <<apiVars, data, write, taskVars, told>>
      /\ query' = [at |-> "served", state |-> api] /\ crossing' = crossing \cup OnTheWay
  BY DEF QueryServed
<1>2. query'.at = "served" /\ query'.state = api /\ api \in States
  BY <1>1 DEF PageShapes
<1>3. \A k \in DOMAIN Way : Way[k].line \in OnTheWay
  <2>1. channel \in Seq(Events)
    BY DEF PageShapes
  <2>2. CASE toSend = NoEvent
    BY <2>1, <2>2 DEF Way, OnTheWay
  <2>3. CASE toSend # NoEvent
    <3>1. toSend \in Events
      BY <2>3 DEF PageShapes
    <3>2. /\ Way = Append(channel, toSend) /\ DOMAIN Way = 1 .. Len(channel) + 1
          /\ Way[Len(channel) + 1] = toSend
          /\ \A k \in 1 .. Len(channel) : Way[k] = channel[k]
      BY <2>1, <2>3, <3>1 DEF Way
    <3> QED
      BY <2>1, <2>3, <3>2 DEF OnTheWay
  <2> QED
    BY <2>2, <2>3
<1>4. PageShapes'
  <2>1. crossing' \subseteq Nat
    <3>1. OnTheWay \subseteq Nat
      <4>1. channel \in Seq(Events) /\ toSend \in Events \cup {NoEvent}
        BY DEF PageShapes
      <4>2. \A i \in DOMAIN channel : channel[i] \in Events
        BY <4>1
      <4> QED
        BY <4>1, <4>2 DEF OnTheWay, Events
    <3> QED
      BY <1>1, <3>1 DEF PageShapes
  <2> QED
    BY <1>1, <1>2, <2>1 DEF PageShapes, apiVars, taskVars
<1>5. ToldInv'
  BY <1>1, <1>2 DEF ToldInv, Sees, apiVars
<1>6. WayInv'
  <2>1. Way' = Way
    BY <1>1 DEF Way, apiVars
  <2>2. ASSUME NEW x \in Events, NEW k \in DOMAIN Way, x = Way[k], EventInv(x) PROVE EventInv(x)'
    <3>1. x.line \in crossing'
      BY <1>1, <1>3, <2>2
    <3> QED
      BY <1>1, <2>2, <3>1 DEF EventInv, Crossed, apiVars, taskVars
  <2> QED
    BY <2>1, <2>2, WayKept
<1>7. SinceInv' /\ SettledInv' /\ WritesStand'
  BY <1>1 DEF SinceInv, SettledInv, WritesStand, apiVars, taskVars
<1> QED
  BY <1>4, <1>5, <1>6, <1>7

\* The page is given a state: the lines said since the one before it are not shown with it.
LEMMA GivenInv == ASSUME PageInv, QueryArrives \/ WriteHeard PROVE PageInv'
<1> USE DEF PageInv
<1>1. /\ UNCHANGED <<apiVars, taskVars, crossing>> /\ query' = NoQuery
      /\ \/ query.at = "served" /\ Given(query.state) /\ UNCHANGED <<write, told>>
         \/ write.at = "taken" /\ Given(write.state) /\ told' = write.state.rev /\ write' = NoWrite
  BY DEF QueryArrives, WriteHeard, WriteSets
<1>2. PICK s \in States :
        /\ data' = [state |-> s, at |-> data.at + 1]
        /\ Sees(s) /\ s.rev >= told' /\ told' \in Nat /\ told' <= api.rev
        /\ write' \in {write, NoWrite}
        /\ \A e \in Events, k \in DOMAIN Way : e = Way[k] /\ EventInv(e) => Crossed(s, e)
  <2>1. CASE query.at = "served" /\ Given(query.state) /\ UNCHANGED <<write, told>>
    <3>1. PICK s \in States : s = query.state
      BY DEF PageShapes
    <3>2. s.rev >= told
      BY <2>1, <3>1 DEF ToldInv
    <3>3. \A e \in Events : EventInv(e) => Crossed(s, e)
      BY <2>1, <3>1 DEF EventInv
    <3> QED
      BY <2>1, <3>1, <3>2, <3>3 DEF Given, ToldInv, PageShapes
  <2>2. CASE write.at = "taken" /\ Given(write.state) /\ told' = write.state.rev /\ write' = NoWrite
    <3>1. PICK s \in States : s = write.state
      BY DEF PageShapes
    <3>2. s.lines = << >> /\ s.rev \in Nat /\ Sees(s)
      BY <2>2, <3>1 DEF ToldInv, States
    <3>3. \A e : Crossed(s, e)
      BY <3>2 DEF Crossed
    <3>4. s.rev <= api.rev /\ told' = s.rev /\ s.rev >= told'
      BY <2>2, <3>1, <3>2 DEF Sees
    <3>5. data' = [state |-> s, at |-> data.at + 1]
      BY <2>2, <3>1 DEF Given
    <3> QED
      BY <2>2, <3>2, <3>3, <3>4, <3>5
  <2> QED
    BY <1>1, <2>1, <2>2
<1>3. data.at \in Nat /\ data'.state = s /\ data'.at = data.at + 1 /\ data' \in [state : States, at : Nat]
  BY <1>2 DEF PageShapes
<1>4. PageShapes'
  BY <1>1, <1>2, <1>3, PageConstants DEF PageShapes, apiVars, taskVars
<1>5. ToldInv'
  <2>1. Sees(NoTurn(0))
    BY ApiIs, NoTurnSeen
  <2>2. Sees(data.state)' /\ Sees(query.state)' /\ Sees(write.state)' /\ Sees(api)'
    BY <1>1, <1>2, <1>3, <2>1, PageConstants DEF ToldInv, Sees, apiVars
  <2>3. query'.at # "served" /\ (write'.at = "taken" => write'.state.lines = << >>)
    BY <1>1, <1>2, PageConstants DEF ToldInv
  <2> QED
    BY <1>1, <1>2, <2>2, <2>3 DEF ToldInv, apiVars
<1>6. WayInv'
  <2>1. Way' = Way
    BY <1>1 DEF Way, apiVars
  <2>2. ASSUME NEW x \in Events, NEW k \in DOMAIN Way, x = Way[k], EventInv(x) PROVE EventInv(x)'
    <3>1. Crossed(s, x)
      BY <1>2, <2>2
    <3> QED
      BY <1>1, <1>3, <2>2, <3>1, PageConstants DEF EventInv, Crossed, apiVars, taskVars
  <2> QED
    BY <2>1, <2>2, WayKept
<1>7. SinceInv'
  <2>1. heard.fetched < data'.at /\ heard.fetched \in Nat
    BY <1>3 DEF SinceInv, PageShapes
  <2> QED
    BY <1>1, <1>3, <2>1 DEF SinceInv, apiVars, taskVars
<1>8. SettledInv' /\ WritesStand'
  BY <1>1, <1>2, <1>3 DEF SettledInv, WritesStand, taskVars
<1> QED
  BY <1>4, <1>5, <1>6, <1>7, <1>8

----------------------------------------------------------------------------
\* The task the page follows.
LEMMA FollowsTaskInv == ASSUME PageInv, FollowsTask PROVE PageInv'
<1> USE DEF PageInv
<1> DEFINE t == data.state.task
<1>1. /\ UNCHANGED <<apiVars, data, write, told, crossing, heard>>
      /\ \/ /\ t # NoTask /\ t \notin finished /\ subscribed' = t
            /\ \/ /\ finished' = finished \cup {t} /\ settles' = [settles EXCEPT ![t] = @ + 1]
                  /\ followed' = NoTask /\ query' = Asked
               \/ followed' = t /\ UNCHANGED <<finished, settles, query>>
         \/ /\ followed' \in {followed, NoTask} /\ subscribed' \in {subscribed, NoTask}
            /\ UNCHANGED <<finished, settles, query>>
  BY DEF FollowsTask, Replays
<1>2. t \in 0 .. MaxTasks /\ (t # NoTask => t \in Tasks) /\ NoTask \in 0 .. MaxTasks
  <2>1. data.state \in States /\ MaxTasks \in Nat
    BY PageConstants DEF PageShapes
  <2>2. data.state.task \in 0 .. MaxTasks
    BY <2>1 DEF States
  <2> QED
    BY <2>1, <2>2, PageConstants DEF Tasks, NoTask
<1>3. query' = query \/ query' = Asked
  BY <1>1
<1>4. SettledInv' /\ settles' \in [Tasks -> Nat] /\ finished' \subseteq Tasks
      /\ followed' \in 0 .. MaxTasks /\ subscribed' \in 0 .. MaxTasks
  <2>1. /\ settles \in [Tasks -> Nat] /\ finished \subseteq Tasks /\ followed \in 0 .. MaxTasks
        /\ subscribed \in 0 .. MaxTasks
    BY DEF PageShapes
  <2> HIDE DEF t, PageInv
  <2>2. CASE /\ t # NoTask /\ t \notin finished /\ subscribed' = t
             /\ finished' = finished \cup {t} /\ settles' = [settles EXCEPT ![t] = @ + 1]
             /\ followed' = NoTask
    <3>1. SettledInv
      BY DEF PageInv
    <3> QED
      BY <1>2, <2>1, <2>2, <3>1 DEF SettledInv
  <2>3. CASE /\ t # NoTask /\ t \notin finished /\ subscribed' = t
             /\ followed' = t /\ UNCHANGED <<finished, settles>>
    BY <1>2, <2>1, <2>3 DEF SettledInv, PageInv
  <2>4. CASE /\ followed' \in {followed, NoTask} /\ subscribed' \in {subscribed, NoTask}
             /\ UNCHANGED <<finished, settles>>
    BY <1>2, <2>1, <2>4 DEF SettledInv, PageInv
  <2> QED
    BY <1>1, <2>2, <2>3, <2>4
<1>5. PageShapes'
  BY <1>1, <1>3, <1>4, PageConstants DEF PageShapes, apiVars
<1>6. ToldInv'
  <2>1. Sees(NoTurn(0))
    BY ApiIs, NoTurnSeen
  <2>2. Sees(query.state)'
    BY <1>1, <1>3, <2>1, PageConstants DEF ToldInv, Sees, apiVars
  <2>3. query'.at = "served" => query' = query
    BY <1>3, PageConstants
  <2> QED
    BY <1>1, <2>2, <2>3 DEF ToldInv, Sees, apiVars
<1>7. WayInv'
  <2>1. Way' = Way
    BY <1>1 DEF Way, apiVars
  <2>2. \A x \in Events : EventInv(x) => EventInv(x)'
    BY <1>1, <1>3, PageConstants DEF EventInv, Crossed, apiVars
  <2> QED
    BY <2>1, <2>2, WayKept
<1>8. SinceInv' /\ WritesStand'
  BY <1>1 DEF SinceInv, WritesStand, apiVars
<1> QED
  BY <1>4, <1>5, <1>6, <1>7, <1>8

\* An event arrives: its task's end is settled, its line is one said since the fetch.
LEMMA EventArrivesInv == ASSUME PageInv, EventArrives PROVE PageInv'
<1> USE DEF PageInv
<1>1. PICK e \in Events :
        /\ e = Head(channel)
        /\ channel # << >> /\ channel' = Tail(channel) /\ toSend' = toSend
        /\ UNCHANGED <<api, newest, ended, data, write, told, crossing>>
        /\ query' \in {query, Asked} /\ subscribed' \in {subscribed, NoTask}
        /\ \/ UNCHANGED <<followed, finished, settles>>
           \/ followed # NoTask /\ TaskSettled
        /\ \/ heard' = heard
           \/ e.line # TaskEnd /\ data.state.task = e.task /\ heard' = SaidSince(heard, e)
  <2>1. channel # << >> /\ channel' = Tail(channel) /\ toSend' = toSend
    BY DEF EventArrives
  <2>2. PICK e \in Events : e = Head(channel)
    BY <2>1, Arriving
  <2>3. e.task # NoTask
    BY PageConstants DEF Events, Tasks, NoTask
  <2>4. /\ UNCHANGED <<api, newest, ended, data, write, told, crossing>>
        /\ IF e.task = subscribed /\ e.line = TaskEnd
           THEN /\ subscribed' = NoTask
                /\ IF followed # NoTask THEN TaskSettled
                   ELSE query' = Asked /\ UNCHANGED <<finished, settles, followed>>
                /\ UNCHANGED heard
           ELSE /\ IF e.task = subscribed THEN Progresses(e) ELSE UNCHANGED heard
                /\ UNCHANGED <<subscribed, followed, finished, settles, query>>
    BY <2>2 DEF EventArrives
  <2>5. CASE e.task = subscribed /\ e.line = TaskEnd
    <3>1. query' = Asked
      BY <2>4, <2>5 DEF TaskSettled
    <3> QED
      BY <2>1, <2>2, <2>4, <2>5, <3>1
  <2>6. CASE ~(e.task = subscribed /\ e.line = TaskEnd)
    <3>1. \/ heard' = heard
          \/ e.line # TaskEnd /\ data.state.task = e.task /\ heard' = SaidSince(heard, e)
      BY <2>4, <2>6 DEF Progresses
    <3> QED
      BY <2>1, <2>2, <2>4, <2>6, <3>1
  <2> QED
    BY <2>5, <2>6
<1>2. /\ Way # << >> /\ Way' = Tail(Way) /\ e = Head(Way) /\ channel' \in Seq(Events)
      /\ Way \in Seq(Events)
  BY <1>1, Arriving, WayIsOfEvents
<1>3. /\ 1 \in DOMAIN Way /\ e = Way[1] /\ DOMAIN Way \subseteq Nat
      /\ \A k \in DOMAIN Way \ {1} : k > 1 /\ Way[k] \in Events
  BY <1>2
<1>4. EventInv(e)
  <2>1. EventInv(Way[1])
    BY <1>3 DEF WayInv
  <2> QED
    BY <1>3, <2>1
<1>5. /\ followed' \in 0 .. MaxTasks /\ finished' \subseteq Tasks /\ settles' \in [Tasks -> Nat]
      /\ SettledInv'
  <2>1. CASE UNCHANGED <<followed, finished, settles>>
    BY <2>1 DEF SettledInv, PageShapes
  <2>2. CASE followed # NoTask /\ TaskSettled
    <3>1. followed \in Tasks /\ NoTask \in 0 .. MaxTasks
      BY <2>2, PageConstants DEF PageShapes, Tasks, NoTask
    <3> QED
      BY <2>2, <3>1 DEF TaskSettled, SettledInv, PageShapes
  <2> QED
    BY <1>1, <2>1, <2>2
<1> DEFINE since == IF heard.task = e.task /\ heard.fetched = data.at THEN heard.lines ELSE << >>
<1>6. since \in Seq(Nat) /\ e.line \in Nat /\ Append(since, e.line) = since \o <<e.line>>
  <2>1. since \in Seq(Nat) /\ e.line \in Nat
    BY DEF PageShapes, Events
  <2> HIDE DEF since
  <2> QED
    BY <2>1
<1>6a. PICK app \in Seq(Nat) :
        /\ app = Append(since, e.line) /\ Len(app) = Len(since) + 1 /\ app[Len(since) + 1] = e.line
        /\ \A i \in DOMAIN since : app[i] = since[i]
  <2> HIDE DEF since
  <2>1. Append(since, e.line) \in Seq(Nat) /\ Len(Append(since, e.line)) = Len(since) + 1
    BY <1>6
  <2>2. /\ Append(since, e.line)[Len(since) + 1] = e.line
        /\ \A i \in DOMAIN since : Append(since, e.line)[i] = since[i]
    BY <1>6
  <2> QED
    BY <2>1, <2>2
<1>7. \/ heard' = heard
      \/ /\ e.line # TaskEnd /\ data.state.task = e.task
         /\ heard' = [task |-> e.task, fetched |-> data.at, lines |-> app]
  <2>1. SaidSince(heard, e) = [task |-> e.task, fetched |-> data.at, lines |-> since \o <<e.line>>]
    BY DEF SaidSince
  <2> HIDE DEF since
  <2> QED
    BY <1>1, <1>6, <1>6a, <2>1
<1>8. ASSUME heard' # heard
      PROVE  /\ e.line # TaskEnd /\ data.state.task = e.task /\ heard'.task = e.task
             /\ heard'.fetched = data.at
             /\ heard'.lines \in Seq(Nat) /\ Len(heard'.lines) = Len(since) + 1
             /\ heard'.lines[Len(since) + 1] = e.line
             /\ \A i \in DOMAIN since : heard'.lines[i] = since[i]
  <2> HIDE DEF since
  <2>1. heard'.lines = app /\ heard'.task = e.task /\ heard'.fetched = data.at
    BY <1>7, <1>8
  <2> QED
    BY <1>7, <1>8, <1>6a, <2>1
<1>9. DOMAIN since = 1 .. Len(since) /\ Len(since) \in Nat /\ \A i \in DOMAIN since : since[i] \in Nat
  BY <1>6
<1>10. ASSUME NEW i \in DOMAIN since
       PROVE  heard.task = e.task /\ heard.fetched = data.at /\ i \in DOMAIN heard.lines /\ since[i] = heard.lines[i]
  BY <1>10
<1>11. e.line # TaskEnd => \A i \in DOMAIN since : since[i] < e.line
  BY <1>4, <1>10 DEF EventInv
<1> HIDE DEF since
<1>12. PageShapes'
  <2>1. heard' \in [task : 0 .. MaxTasks, fetched : Nat, lines : Seq(Nat)]
    <3>1. e.task \in 0 .. MaxTasks /\ data.at \in Nat
      BY PageConstants DEF Events, Tasks, PageShapes
    <3>2. heard \in [task : 0 .. MaxTasks, fetched : Nat, lines : Seq(Nat)]
      BY DEF PageShapes
    <3> QED
      BY <1>7, <3>1, <3>2
  <2>2. /\ query' \in [at : {"none", "asked", "served"}, state : States]
        /\ subscribed' \in 0 .. MaxTasks /\ channel' \in Seq(Events)
    BY <1>1, <1>2, PageConstants DEF PageShapes
  <2> QED
    BY <1>1, <1>5, <2>1, <2>2 DEF PageShapes
<1>13. ToldInv'
  <2>1. Sees(NoTurn(0))
    BY ApiIs, NoTurnSeen
  <2>2. Sees(query.state)'
    BY <1>1, <2>1, PageConstants DEF ToldInv, Sees
  <2>3. query'.at = "served" => query' = query
    BY <1>1, PageConstants
  <2> QED
    BY <1>1, <2>2, <2>3 DEF ToldInv, Sees
<1>14. ASSUME NEW x \in Events, NEW k \in DOMAIN Way \ {1}, x = Way[k], EventInv(x) PROVE EventInv(x)'
  <2>1. ASSUME x.task = heard'.task, x.line # TaskEnd, NEW i \in DOMAIN heard'.lines
        PROVE  heard'.lines[i] < x.line
    <3>1. CASE heard' = heard
      BY <1>14, <2>1, <3>1 DEF EventInv
    <3>2. CASE heard' # heard
      <4>1. e.line < x.line
        BY <1>3, <1>8, <1>14, <2>1, <3>2 DEF WayInv, WayOrdered
      <4>2. heard'.lines[i] <= e.line
        <5>1. i \in 1 .. Len(since) + 1
          BY <1>8, <2>1, <3>2
        <5>2. CASE i = Len(since) + 1
          BY <1>6, <1>8, <3>2, <5>2
        <5>3. CASE i \in DOMAIN since
          <6>1. heard'.lines[i] = since[i] /\ since[i] < e.line /\ since[i] \in Nat
            BY <1>8, <1>9, <1>11, <3>2, <5>3
          <6> QED
            BY <1>6, <6>1
        <5> QED
          BY <1>9, <5>1, <5>2, <5>3
      <4>3. x.line \in Nat /\ heard'.lines[i] \in Nat
        BY <1>8, <2>1, <3>2 DEF Events
      <4> QED
        BY <1>6, <4>1, <4>2, <4>3
    <3> QED
      BY <3>1, <3>2
  <2>2. query'.at = "served" => query' = query
    BY <1>1, PageConstants
  <2> QED
    BY <1>1, <1>14, <2>1, <2>2 DEF EventInv, Crossed
<1>15. WayInv'
  BY <1>2, <1>14, WayShorter
<1>16. SinceInv'
  <2>1. CASE heard' = heard
    BY <1>1, <2>1 DEF SinceInv
  <2>2. CASE heard' # heard
    <3>1. heard'.task = e.task /\ heard'.fetched = data.at /\ e.task # NoTask /\ DOMAIN heard'.lines = 1 .. Len(since) + 1
      BY <1>8, <2>2 DEF Events, Tasks, NoTask
    <3>2. heard'.fetched <= data'.at /\ heard'.task <= newest'
      BY <1>1, <1>4, <3>1 DEF EventInv, PageShapes
    <3>3. ASSUME heard'.task = api.task, NEW i \in DOMAIN heard'.lines PROVE heard'.lines[i] <= Len(api.lines)
      BY <1>4, <1>8, <1>9, <1>10, <2>2, <3>1, <3>3 DEF EventInv, SinceInv
    <3>4. ASSUME NEW i \in DOMAIN heard'.lines, NEW j \in DOMAIN heard'.lines, i < j
          PROVE  heard'.lines[i] < heard'.lines[j]
      <4>1. i \in DOMAIN since
        BY <1>9, <3>1, <3>4
      <4>2. CASE j \in DOMAIN since
        BY <1>8, <1>10, <2>2, <3>4, <4>1, <4>2 DEF SinceInv
      <4>3. CASE j = Len(since) + 1
        BY <1>8, <1>11, <2>2, <4>1, <4>3
      <4> QED
        BY <1>9, <3>1, <4>2, <4>3
    <3>5. ASSUME NEW i \in DOMAIN heard'.lines, heard'.lines[i] \in 1 .. Len(data.state.lines)
          PROVE  heard'.lines[i] \in crossing
      <4>1. CASE i \in DOMAIN since
        BY <1>8, <1>10, <2>2, <3>5, <4>1 DEF SinceInv
      <4>2. CASE i = Len(since) + 1
        BY <1>4, <1>8, <2>2, <3>5, <4>2 DEF EventInv, Crossed
      <4> QED
        BY <1>9, <3>1, <4>1, <4>2
    <3> QED
      BY <1>1, <3>1, <3>2, <3>3, <3>4, <3>5 DEF SinceInv
  <2> QED
    BY <2>1, <2>2
<1>17. WritesStand'
  BY <1>1 DEF WritesStand
<1> QED
  BY <1>5, <1>12, <1>13, <1>15, <1>16, <1>17

----------------------------------------------------------------------------
LEMMA PageInitInv == InboxPageInit => PageInv
<1> SUFFICES ASSUME InboxPageInit PROVE PageInv
  OBVIOUS
<1>1. /\ newest \in {0, 1} /\ ended = {} /\ toSend = NoEvent /\ channel = << >>
      /\ api = [rev |-> 1, task |-> newest, lines |-> << >>]
      /\ data = [state |-> NoTurn(0), at |-> 0]
      /\ query = Asked /\ write = NoWrite /\ followed = NoTask /\ finished = {}
      /\ heard = NoneHeard /\ subscribed = NoTask
      /\ settles = [t \in Tasks |-> 0] /\ told = 0 /\ crossing = {}
  BY DEF InboxPageInit, NoTask, Asked
<1>2. newest \in 0 .. MaxTasks /\ NoTurn(0) \in States
  BY <1>1, PageConstants
<1>3. api \in States /\ heard \in [task : 0 .. MaxTasks, fetched : Nat, lines : Seq(Nat)]
  BY <1>1, <1>2, PageConstants DEF States, NoneHeard
<1>4. PageShapes
  BY <1>1, <1>2, <1>3, PageConstants DEF PageShapes
<1>5. /\ data.state = NoTurn(0) /\ query.state = NoTurn(0) /\ write.state = NoTurn(0)
      /\ query.at = "asked" /\ write.at = "none" /\ api.rev = 1
  BY <1>1, PageConstants
<1>6. ToldInv
  <2>1. Sees(NoTurn(0))
    BY <1>4, <1>5, NoTurnSeen
  <2>2. Sees(api)
    BY <1>1 DEF Sees, NoTask
  <2> QED
    BY <1>1, <1>5, <2>1, <2>2 DEF ToldInv
<1>7. WayInv
  <2>1. Way = << >> /\ DOMAIN Way = {}
    BY <1>1 DEF Way
  <2> QED
    BY <2>1 DEF WayInv, WayOrdered
<1>8. SinceInv
  BY <1>1, <1>2 DEF SinceInv, NoneHeard, NoTask
<1>9. SettledInv /\ WritesStand
  BY <1>1 DEF SettledInv, WritesStand
<1> QED
  BY <1>4, <1>6, <1>7, <1>8, <1>9 DEF PageInv

LEMMA PageNextInv == PageInv /\ [InboxPageNext]_inboxPageVars => PageInv'
<1> SUFFICES ASSUME PageInv, [InboxPageNext]_inboxPageVars PROVE PageInv'
  OBVIOUS
<1>1. CASE ApiSteps
  BY <1>1, SaysInv, TurnsOnInv, SendsInv DEF ApiSteps
<1>2. CASE QuerySteps
  BY <1>2, CallsInv, QueryServedInv, GivenInv DEF QuerySteps
<1>3. CASE PageWrites
  BY <1>3, CallsInv, WriteReachesInv, GivenInv DEF PageWrites
<1>4. CASE FollowsTask \/ EventArrives
  BY <1>4, FollowsTaskInv, EventArrivesInv
<1>5. CASE UNCHANGED inboxPageVars
  <2>1. UNCHANGED <<api, newest, ended, toSend, channel, data, query, write, followed, finished,
                    heard, subscribed, settles, told, crossing>>
    BY <1>5 DEF inboxPageVars, apiVars, taskVars
  <2>2. PageShapes' /\ ToldInv' /\ SinceInv' /\ SettledInv' /\ WritesStand'
    BY <2>1 DEF PageInv, PageShapes, ToldInv, Sees, SinceInv, SettledInv, WritesStand
  <2>3. WayInv'
    BY <2>1 DEF PageInv, WayInv, WayOrdered, Way, EventInv, Crossed
  <2> QED
    BY <2>2, <2>3 DEF PageInv
<1> QED
  BY <1>1, <1>2, <1>3, <1>4, <1>5 DEF InboxPageNext

LEMMA PageSpecInv == InboxPageSpec => []PageInv
BY PageInitInv, PageNextInv, PTL DEF InboxPageSpec

\* A task's end is settled once, whatever the channel replays, and no line is shown twice
\* but one that was on its way as the sitting was fetched (use-inbox.ts, use-sse-task.ts).
THEOREM ReplayCorrect == InboxPageSpec => []ReplayAddsNothing
<1>1. ASSUME PageInv PROVE ReplayAddsNothing
  <2> USE <1>1 DEF PageInv
  <2>1. \A t \in Tasks : settles[t] <= 1
    BY DEF SettledInv
  <2>2. ASSUME data.state.task # NoTask, NEW i \in DOMAIN Lines, NEW j \in DOMAIN Lines, i # j,
               Lines[i] = Lines[j]
        PROVE  Lines[i] \in crossing
    <3> DEFINE a == data.state.lines
               b == IF heard.task = data.state.task /\ heard.fetched = data.at
                    THEN heard.lines ELSE << >>
    <3>1. a \in Seq(Nat) /\ b \in Seq(Nat) /\ Lines = a \o b
      BY DEF Lines, PageShapes, States
    <3>2. \A k \in DOMAIN a : a[k] = k
      BY DEF ToldInv, Sees
    <3>3. /\ \A k, l \in DOMAIN b : k < l => b[k] < b[l]
          /\ \A k \in DOMAIN b : b[k] \in 1 .. Len(a) => b[k] \in crossing
      BY DEF SinceInv
    <3> HIDE DEF a, b
    <3>4. /\ DOMAIN Lines = 1 .. Len(a) + Len(b) /\ Len(a) \in Nat /\ Len(b) \in Nat
          /\ \A k \in 1 .. Len(a) : Lines[k] = a[k]
          /\ \A k \in DOMAIN Lines : k > Len(a) => k - Len(a) \in DOMAIN b /\ Lines[k] = b[k - Len(a)]
          /\ \A k \in DOMAIN b : b[k] \in Nat
          /\ DOMAIN b = 1 .. Len(b) /\ DOMAIN a = 1 .. Len(a)
      BY <3>1
    <3>5. ASSUME NEW k \in DOMAIN Lines, NEW l \in DOMAIN Lines, k < l, Lines[k] = Lines[l]
          PROVE  Lines[k] \in crossing
      <4>1. CASE l <= Len(a)
        BY <3>2, <3>4, <3>5, <4>1
      <4>2. CASE k <= Len(a) /\ l > Len(a)
        <5>1. Lines[k] = k /\ Lines[l] = b[l - Len(a)] /\ k \in 1 .. Len(a) /\ l - Len(a) \in DOMAIN b
          BY <3>2, <3>4, <3>5, <4>2
        <5> QED
          BY <3>3, <3>5, <5>1
      <4>3. CASE k > Len(a)
        <5>1. /\ Lines[k] = b[k - Len(a)] /\ Lines[l] = b[l - Len(a)]
              /\ k - Len(a) \in DOMAIN b /\ l - Len(a) \in DOMAIN b
          BY <3>4, <3>5, <4>3
        <5>2. b[k - Len(a)] < b[l - Len(a)]
          <6>1. k - Len(a) < l - Len(a)
            BY <3>4, <3>5
          <6> QED
            BY <3>3, <5>1, <6>1
        <5>3. Lines[k] < Lines[l] /\ Lines[k] \in Nat /\ Lines[l] \in Nat
          BY <3>4, <5>1, <5>2
        <5> QED
          BY <3>5, <5>3
      <4> QED
        BY <3>4, <3>5, <4>1, <4>2, <4>3
    <3> QED
      BY <2>2, <3>4, <3>5
  <2> QED
    BY <2>1, <2>2 DEF ReplayAddsNothing
<1> QED
  BY <1>1, PageSpecInv, PTL

\* The page shows no state of the sitting older than a write's reply it has shown: a reply
\* cancels the fetch in flight (use-inbox.ts).
THEOREM WritesStandCorrect == InboxPageSpec => []WritesStand
BY PageSpecInv, PTL DEF PageInv
=============================================================================
