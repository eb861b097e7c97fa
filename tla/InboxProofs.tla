---------------------------- MODULE InboxProofs ----------------------------
(***************************************************************************)
(* Proofs about InboxSitting, for any pods, follows, environments,         *)
(* sessions, messages and faults.                                          *)
(***************************************************************************)
EXTENDS InboxSitting, FiniteSetTheorems, SequenceTheorems, WellFoundedInduction, TLAPS

\* A follow's place: before it begins, at a step of _advance or _follow, over.
Places ==
    {"none", "begin", "pick", "picked", "pickedStopped", "ready", "restart", "start", "coming",
     "creating", "create", "record", "abandon", "send", "taken", "isBusy", "stream", "answer",
     "resume", "failed", "over"}
Idle == {"none", "begin", "over"}
\* Places where the follow's sitting has no session yet, and where it has one.
WithoutSession == {"ready", "restart", "start", "coming", "creating", "create", "record"}
WithSession == {"send", "taken", "isBusy", "stream", "answer", "resume"}
Picked == {"picked", "pickedStopped"}
Making == {"record", "abandon"}

PodRecords == [refusing : BOOLEAN, stopped : BOOLEAN, leave : SUBSET Follows]
Threads ==
    [at : Places, pod : Pods \cup {None}, id : 0..MaxMessages, mine : Sittings, unsent : BOOLEAN,
     resumed : BOOLEAN, released : BOOLEAN, why : {"none", "again", "refused", "lost"},
     got : Nat \cup Envs]
Closers ==
    [by : Follows \cup {None}, env : Envs, session : Sessions \cup {None}, stop : BOOLEAN,
     at : {"end", "list", "stop"}]
Closings == {j \in Closers : j.at = "end" => j.session # None}
Items == [turn : Nat, message : BOOLEAN]
SessionRecords ==
    [at : {"none", "idle", "busy", "gone"}, env : Envs \cup {None}, log : Seq(Items), turns : Nat,
     took : Seq(Nat)]

OuterShapes ==
    /\ pod \in [Pods -> PodRecords]
    /\ closing \subseteq Closings
    /\ env \in [Envs -> {"running", "stopped", "starting", "error"}]
    /\ session \in [Sessions -> SessionRecords]
    /\ coming \subseteq Envs
    /\ strays \subseteq Sessions
    /\ faults \in 0..MaxFaults
FileShapes ==
    /\ file \in Sittings
    /\ follow \in [Follows -> Threads]
    /\ sent \in 0..MaxMessages

\* A turn in flight is of the operator's last message, one of the first n.
InFlight(x, n) ==
    /\ x.turn /\ x.status # "lost"
    /\ x.transcript # << >>
    /\ \E m \in 1..n : x.transcript[Len(x.transcript)] = Operator(m)

\* The file's turn, its holder and its session hang together.
FileInv ==
    /\ file.turn => InFlight(file, sent)
    /\ file.by # None => file.turn /\ follow[file.by].at # "none"
    /\ file.session # None => file.env # None

\* What a thread has at its place.
Placed(t, n) ==
    /\ t.at \notin Idle => InFlight(t.mine, n) /\ (t.mine.session # None => t.mine.env # None)
    /\ t.at \in WithoutSession => t.mine.session = None
    /\ t.at \in WithoutSession \cup {"abandon"} => t.mine.env # None
    /\ t.at \in WithSession => t.mine.session # None
    /\ t.at \in Picked \cup {"pick"} => t.mine.env = None
    /\ t.at \in Picked => t.got \in Envs
    /\ t.at = "record" => t.got \in Sessions
    /\ t.at = "abandon" => t.got \in Sessions \cup {None}
    /\ t.at = "answer" => t.got \in Nat
    /\ t.at \notin Picked \cup Making \cup {"answer"} => t.got = None

\* The follow that holds the turn has the sitting as the file has it.
HoldInv ==
    \A f \in Follows :
        /\ file.by = f /\ follow[f].at \notin {"none", "over"} => follow[f].id = file.id
        /\ AtWork(f) /\ Holds(f) => follow[f].mine = file

ThreadInv == HoldInv /\ \A f \in Follows : Placed(follow[f], sent)

SittingInv == FileShapes /\ FileInv /\ ThreadInv

USE FollowsAssumption, SessionsAssumption

----------------------------------------------------------------------------
(* The steps' parts.                                                       *)

LEMMA NoneIsNone == None \notin Follows /\ None \notin Sessions
BY DEF None

LEMMA LeastOf ==
  ASSUME NEW S \in SUBSET Nat, S # {}
  PROVE  (CHOOSE n \in S : \A m \in S : n <= m) \in S
<1> DEFINE R == OpToRel(<, Nat)
<1>1. PICK n \in S : \A m \in S : ~ (<<m, n>> \in R)
  <2>1. IsWellFoundedOn(R, Nat)
    BY NatLessThanWellFounded
  <2> HIDE DEF R
  <2> QED
    BY <2>1, WFMin
<1>2. \A m \in S : ~(m < n)
  BY <1>1 DEF OpToRel
<1>3. \A m \in S : n <= m
  BY <1>2
<1> QED
  BY <1>3

LEMMA NextFollowFree ==
  ASSUME FreeFollows # {} PROVE NextFollow \in Follows /\ follow[NextFollow].at = "none"
<1>1. FreeFollows \in SUBSET Nat
  BY DEF FreeFollows
<1>2. NextFollow \in FreeFollows
  <2> DEFINE S == FreeFollows
  <2>1. (CHOOSE n \in S : \A m \in S : n <= m) \in S
    <3> HIDE DEF S
    <3> QED
      BY <1>1, LeastOf DEF S
  <2> QED
    BY <2>1 DEF NextFollow
<1> QED
  BY <1>2 DEF FreeFollows

LEMMA NextSessionFree ==
  ASSUME FreeSessions # {} PROVE NextSession \in Sessions /\ session[NextSession].at = "none"
<1>1. FreeSessions \in SUBSET Nat
  BY DEF FreeSessions
<1>2. NextSession \in FreeSessions
  <2> DEFINE S == FreeSessions
  <2>1. (CHOOSE n \in S : \A m \in S : n <= m) \in S
    <3> HIDE DEF S
    <3> QED
      BY <1>1, LeastOf DEF S
  <2> QED
    BY <2>1 DEF NextSession
<1> QED
  BY <1>2 DEF FreeSessions

----------------------------------------------------------------------------
(* Types.                                                                  *)

Entries == [author : {"operator", "session"}, said : Seq(Texts)]

LEMMA BoundsType == MaxMessages \in Nat /\ MaxFaults \in Nat
BY BoundsAssumption

LEMMA OperatorType == ASSUME NEW m \in Nat PROVE Operator(m) \in Entries
<1>1. <<None, m>> \in Texts
  BY DEF Texts
<1>2. << <<None, m>> >> \in Seq(Texts)
  BY <1>1
<1> QED
  BY <1>2 DEF Operator, Entries

LEMMA BegunType ==
  ASSUME NEW m \in 0..MaxMessages, NEW f \in Follows \cup {None}
  PROVE  Begun(m, f) \in Sittings
<1>1. <<Operator(m)>> \in Seq(Entries)
  <2>1. Operator(m) \in Entries
    BY BoundsType, OperatorType
  <2> QED
    BY <2>1
<1> QED
  BY <1>1, BoundsType DEF Begun, Sittings, Entries

LEMMA NoSittingType == NoSitting \in Sittings
<1> DEFINE x == Begun(0, None)
<1>1. x \in Sittings
  BY BegunType, BoundsType DEF None
<1> HIDE DEF x
<1>2. [x EXCEPT !.status = "idle", !.turn = FALSE, !.transcript = << >>] \in Sittings
  <2>1. << >> \in Seq(Entries)
    OBVIOUS
  <2> QED
    BY <1>1, <2>1 DEF Sittings, Entries
<1> QED
  BY <1>2 DEF NoSitting, x

LEMMA NoSittingIs ==
  /\ NoSitting.turn <=> FALSE
  /\ NoSitting.by = None /\ NoSitting.session = None /\ NoSitting.id = 0
  /\ NoSitting.status = "idle" /\ NoSitting.transcript = << >> /\ NoSitting.said = << >>
BY DEF NoSitting, Begun, None

LEMMA ThreadType ==
  ASSUME NEW p \in Pods \cup {None}, NEW at \in Places, NEW id \in 0..MaxMessages,
         NEW unsent \in BOOLEAN
  PROVE  /\ Thread(p, at, id, unsent) \in Threads
         /\ Thread(p, at, id, unsent).at = at /\ Thread(p, at, id, unsent).id = id
         /\ Thread(p, at, id, unsent).got = None
         /\ Thread(p, at, id, unsent).mine = NoSitting
         /\ Thread(p, at, id, unsent).unsent <=> unsent
BY NoSittingType DEF Thread, Threads, None

LEMMA OverType ==
  ASSUME NEW t PROVE Over(t) \in Threads /\ Over(t).at = "over" /\ Over(t).got = None
<1>1. "over" \in Places /\ 0 \in 0..MaxMessages /\ "none" \in {"none", "again", "refused", "lost"}
  BY BoundsType DEF Places
<1> QED
  BY <1>1, NoSittingType DEF Over, Thread, Threads, None

----------------------------------------------------------------------------
(* What the kinds of steps keep of the sitting and its follows.            *)

LEMMA InFlightKept ==
  ASSUME NEW m \in Nat, NEW n \in Nat, m <= n, NEW x, InFlight(x, m) PROVE InFlight(x, n)
BY DEF InFlight

LEMMA PlacedKept ==
  ASSUME NEW m \in Nat, NEW n \in Nat, m <= n, NEW t, Placed(t, m) PROVE Placed(t, n)
BY InFlightKept DEF Placed

LEMMA SentType == ASSUME FileShapes PROVE sent \in Nat
BY BoundsType DEF FileShapes

\* A follow goes on, its view of the sitting as it was.
LEMMA MovesKeep ==
  ASSUME SittingInv, UNCHANGED <<file, sent>>, NEW f \in Follows, NEW t \in Threads,
         follow' = [follow EXCEPT ![f] = t], Placed(t, sent),
         t.mine = follow[f].mine, t.id = follow[f].id,
         t.at = follow[f].at \/ (t.at \notin Idle /\ follow[f].at \notin Idle)
  PROVE  SittingInv'
<1>1. FileShapes'
  BY DEF SittingInv, FileShapes
<1>2. /\ \A g \in Follows : follow'[g] = IF g = f THEN t ELSE follow[g]
      /\ file' = file /\ sent' = sent /\ sent \in Nat
  BY SentType DEF SittingInv, FileShapes
<1>3. FileInv'
  <2>1. file.by # None => file.by \in Follows
    BY DEF SittingInv, FileShapes, Sittings
  <2>2. file.turn => InFlight(file, sent')
    BY <1>2, InFlightKept DEF SittingInv, FileInv
  <2> QED
    BY <1>2, <2>1, <2>2 DEF SittingInv, FileInv, Idle
<1>4. HoldInv'
  <2> SUFFICES ASSUME NEW g \in Follows
               PROVE  /\ file.by = g /\ follow'[g].at \notin {"none", "over"}
                         => follow'[g].id = file.id
                      /\ AtWork(g)' /\ Holds(g)' => follow'[g].mine = file
    BY <1>2 DEF HoldInv
  <2> QED
    BY <1>2 DEF SittingInv, ThreadInv, HoldInv, AtWork, Holds, Idle
<1>5. \A g \in Follows : Placed(follow'[g], sent')
  <2>1. \A g \in Follows : Placed(follow[g], sent)
    BY DEF SittingInv, ThreadInv
  <2> QED
    BY <1>2, <2>1
<1> QED
  BY <1>1, <1>3, <1>4, <1>5 DEF SittingInv, ThreadInv

\* A follow is over, and the turn its own no more than it was.
LEMMA EndsKeep ==
  ASSUME SittingInv, UNCHANGED <<file, sent>>, NEW F \in SUBSET Follows,
         follow' = [g \in Follows |-> IF g \in F THEN Over(follow[g]) ELSE follow[g]]
  PROVE  SittingInv'
<1>1. \A g \in Follows : Over(follow[g]) \in Threads /\ Over(follow[g]).at = "over"
                          /\ Over(follow[g]).got = None
  BY OverType
<1>2. FileShapes'
  BY <1>1 DEF SittingInv, FileShapes
<1>3. /\ \A g \in Follows : follow'[g] = IF g \in F THEN Over(follow[g]) ELSE follow[g]
      /\ file' = file /\ sent' = sent /\ sent \in Nat
  BY SentType DEF SittingInv, FileShapes
<1>4. FileInv'
  <2>1. file.by # None => file.by \in Follows
    BY DEF SittingInv, FileShapes, Sittings
  <2>2. file.turn => InFlight(file, sent')
    BY <1>3, InFlightKept DEF SittingInv, FileInv
  <2> QED
    BY <1>1, <1>3, <2>1, <2>2 DEF SittingInv, FileInv
<1>5. HoldInv'
  <2> SUFFICES ASSUME NEW g \in Follows
               PROVE  /\ file.by = g /\ follow'[g].at \notin {"none", "over"}
                         => follow'[g].id = file.id
                      /\ AtWork(g)' /\ Holds(g)' => follow'[g].mine = file
    BY <1>3 DEF HoldInv
  <2> QED
    BY <1>1, <1>3 DEF SittingInv, ThreadInv, HoldInv, AtWork, Holds
<1>6. \A g \in Follows : Placed(follow'[g], sent')
  <2>1. \A g \in F : Placed(Over(follow[g]), sent)
    BY <1>1 DEF Placed, Idle, WithoutSession, WithSession, Picked, Making
  <2> QED
    BY <1>3, <2>1, PlacedKept DEF SittingInv, ThreadInv
<1> QED
  BY <1>2, <1>4, <1>5, <1>6 DEF SittingInv, ThreadInv

\* A follow writes what it has of the sitting.
LEMMA WritesKeep ==
  ASSUME SittingInv, UNCHANGED sent, NEW f \in Follows, follow[f].at \notin {"none", "over"},
         Holds(f),
         NEW x \in Sittings, file' = x, x.id = file.id, x.by = file.by, InFlight(x, sent),
         x.session # None => x.env # None,
         NEW t \in Threads, follow' = [follow EXCEPT ![f] = t], t.at \notin Idle, Placed(t, sent),
         t.mine = x, t.id = follow[f].id
  PROVE  SittingInv'
<1>1. FileShapes'
  BY DEF SittingInv, FileShapes
<1>2. /\ \A g \in Follows : follow'[g] = IF g = f THEN t ELSE follow[g]
      /\ sent' = sent /\ file.by = f /\ file.id = follow[f].id
  BY DEF SittingInv, FileShapes, Holds
<1>3. FileInv'
  BY <1>2 DEF SittingInv, FileInv, Idle, InFlight
<1>4. HoldInv'
  <2> SUFFICES ASSUME NEW g \in Follows
               PROVE  /\ x.by = g /\ follow'[g].at \notin {"none", "over"} => follow'[g].id = x.id
                      /\ AtWork(g)' /\ Holds(g)' => follow'[g].mine = x
    BY <1>2 DEF HoldInv
  <2> QED
    BY <1>2 DEF SittingInv, ThreadInv, HoldInv, AtWork, Holds, Idle
<1>5. \A g \in Follows : Placed(follow'[g], sent')
  <2>1. \A g \in Follows : Placed(follow[g], sent)
    BY DEF SittingInv, ThreadInv
  <2> QED
    BY <1>2, <2>1
<1> QED
  BY <1>1, <1>3, <1>4, <1>5 DEF SittingInv, ThreadInv

\* The turn is no follow's, and one follow at most goes on as it was or is over.
LEMMA LetsGoKeep ==
  ASSUME SittingInv, UNCHANGED sent, NEW x \in Sittings, file' = x, x.by = None,
         x.turn => InFlight(x, sent), x.session # None => x.env # None,
         NEW f \in Follows, NEW t \in Threads, follow' = [follow EXCEPT ![f] = t], Placed(t, sent)
  PROVE  SittingInv'
<1>1. FileShapes'
  BY DEF SittingInv, FileShapes
<1>2. /\ \A g \in Follows : follow'[g] = IF g = f THEN t ELSE follow[g]
      /\ sent' = sent /\ \A g \in Follows : x.by # g
  BY NoneIsNone DEF SittingInv, FileShapes
<1>3. FileInv'
  BY <1>2 DEF FileInv
<1>4. HoldInv'
  BY <1>2 DEF HoldInv, Holds
<1>5. \A g \in Follows : Placed(follow'[g], sent')
  <2>1. \A g \in Follows : Placed(follow[g], sent)
    BY DEF SittingInv, ThreadInv
  <2> QED
    BY <1>2, <2>1
<1> QED
  BY <1>1, <1>3, <1>4, <1>5 DEF SittingInv, ThreadInv

\* So it is of what drops the turn and leaves the follows as they are.
LEMMA ClearsKeep ==
  ASSUME SittingInv, UNCHANGED <<follow, sent>>, NEW x \in Sittings, file' = x, x.by = None,
         x.turn <=> FALSE, x.session # None => x.env # None
  PROVE  SittingInv'
<1>1. FileShapes'
  BY DEF SittingInv, FileShapes
<1>2. follow' = follow /\ sent' = sent /\ \A g \in Follows : x.by # g
  BY NoneIsNone
<1>3. FileInv'
  BY <1>2 DEF FileInv
<1>4. HoldInv'
  BY <1>2 DEF HoldInv, Holds
<1> QED
  BY <1>1, <1>2, <1>3, <1>4 DEF SittingInv, ThreadInv

\* A turn is given a follow of its own, with the message it begins or the one it
\* goes on with.
LEMMA NewFollowKeeps ==
  ASSUME SittingInv, FreeFollows # {}, sent' \in 0..MaxMessages, sent <= sent',
         NEW x \in Sittings, file' = x, x.by = NextFollow, InFlight(x, sent'),
         x.session # None => x.env # None,
         NEW p \in Pods, NEW unsent \in BOOLEAN,
         follow' = [follow EXCEPT ![NextFollow] = Thread(p, "begin", x.id, unsent)]
  PROVE  SittingInv'
<1> DEFINE f == NextFollow
           t == Thread(p, "begin", x.id, unsent)
<1>1. f \in Follows /\ follow[f].at = "none"
  BY NextFollowFree
<1>2. t \in Threads /\ t.at = "begin" /\ t.id = x.id /\ t.got = None
  <2>1. "begin" \in Places /\ x.id \in 0..MaxMessages
    BY DEF Places, Sittings
  <2> QED
    BY <2>1, NoSittingType DEF Thread, Threads, None
<1>3. follow' = [follow EXCEPT ![f] = t]
  OBVIOUS
<1> HIDE DEF f, t
<1>4. \A g \in Follows : follow'[g] = IF g = f THEN t ELSE follow[g]
  BY <1>1, <1>3 DEF SittingInv, FileShapes
<1>5. FileShapes'
  BY <1>1, <1>2, <1>3 DEF SittingInv, FileShapes
<1>6. x.by = f
  BY DEF f
<1>7. FileInv'
  BY <1>1, <1>2, <1>4, <1>6 DEF FileInv, InFlight
<1>8. HoldInv'
  BY <1>2, <1>4, <1>6 DEF HoldInv, Holds, AtWork
<1>9. \A g \in Follows : Placed(follow'[g], sent')
  <2>1. Placed(t, sent')
    BY <1>2 DEF Placed, Idle, WithoutSession, WithSession, Picked, Making
  <2>2. sent \in Nat /\ sent' \in Nat
    BY BoundsType, SentType DEF SittingInv
  <2>3. \A g \in Follows : Placed(follow[g], sent')
    BY <2>2, PlacedKept DEF SittingInv, ThreadInv
  <2> QED
    BY <1>4, <2>1, <2>3
<1> QED
  BY <1>5, <1>7, <1>8, <1>9 DEF SittingInv, ThreadInv

----------------------------------------------------------------------------
(* A follow's steps.                                                       *)

LEMMA ThreadIs ==
  ASSUME SittingInv, NEW f \in Follows PROVE follow[f] \in Threads /\ Placed(follow[f], sent)
BY DEF SittingInv, FileShapes, ThreadInv

Whys == {"none", "again", "refused", "lost"}

LEMMA FailsIs ==
  ASSUME NEW n, NEW t \in Threads, Placed(t, n), t.at \notin Idle, NEW why \in Whys
  PROVE  /\ Fails(t, why) \in Threads /\ Placed(Fails(t, why), n)
         /\ Fails(t, why).mine = t.mine /\ Fails(t, why).id = t.id
         /\ Fails(t, why).at = "failed" /\ Fails(t, why).got = None
         /\ Fails(t, why).unsent <=> t.unsent
<1>1. "failed" \in Places /\ None \in Nat
  BY DEF Places, None
<1>2. /\ Fails(t, why) \in Threads
      /\ Fails(t, why).mine = t.mine /\ Fails(t, why).id = t.id
      /\ Fails(t, why).at = "failed" /\ Fails(t, why).got = None
      /\ Fails(t, why).unsent <=> t.unsent
  BY <1>1 DEF Fails, Threads, Whys
<1> QED
  BY <1>2 DEF Placed, Idle, WithoutSession, WithSession, Picked, Making

\* A thread that goes on to a place `at` where it has nothing but the sitting.
GoesTo(t, at) == [t EXCEPT !.at = at]
LEMMA GoesToIs ==
  ASSUME NEW n, NEW t \in Threads, Placed(t, n), t.at \notin Idle, t.got = None,
         NEW at \in Places \ (Idle \cup Picked \cup {"record", "answer"}),
         at \in WithSession => t.mine.session # None,
         at \in WithoutSession => t.mine.session = None /\ t.mine.env # None,
         at # "pick", at = "abandon" => t.mine.env # None
  PROVE  /\ GoesTo(t, at) \in Threads /\ Placed(GoesTo(t, at), n)
         /\ GoesTo(t, at).mine = t.mine /\ GoesTo(t, at).id = t.id
         /\ GoesTo(t, at).at = at /\ GoesTo(t, at).got = None
         /\ GoesTo(t, at).unsent <=> t.unsent
<1>1. /\ GoesTo(t, at) \in Threads
      /\ GoesTo(t, at).mine = t.mine /\ GoesTo(t, at).id = t.id
      /\ GoesTo(t, at).at = at /\ GoesTo(t, at).got = None
      /\ GoesTo(t, at).unsent <=> t.unsent
  BY DEF GoesTo, Threads
<1> QED
  BY <1>1 DEF Placed, Idle, WithoutSession, WithSession, Picked, Making

LEMMA HearsKeep ==
  ASSUME SittingInv, NEW f \in Follows, NEW t \in Threads, Hears(f, t), Placed(t, sent),
         t.mine = follow[f].mine, t.id = follow[f].id,
         t.at \notin Idle /\ follow[f].at \notin Idle
  PROVE  SittingInv'
BY MovesKeep DEF Hears

LEMMA PicksKeep == ASSUME SittingInv, NEW f \in Follows, FollowPicks(f) PROVE SittingInv'
<1> DEFINE t == follow[f]
<1>1. t \in Threads /\ Placed(t, sent) /\ t.at = "pick"
  BY ThreadIs DEF FollowPicks
<1>2. ASSUME NEW e \in Envs, NEW at \in Picked, Hears(f, [t EXCEPT !.at = at, !.got = e])
      PROVE  SittingInv'
  <2> DEFINE u == [t EXCEPT !.at = at, !.got = e]
  <2>1. u \in Threads /\ u.at = at /\ u.got = e /\ u.mine = t.mine /\ u.id = t.id
    BY <1>1 DEF Threads, Places, Picked
  <2> HIDE DEF u
  <2>2. Placed(u, sent)
    BY <1>1, <2>1 DEF Placed, Idle, WithoutSession, WithSession, Picked, Making
  <2>3. Hears(f, u)
    BY <1>2 DEF u
  <2> QED
    BY <1>1, <2>1, <2>2, <2>3, HearsKeep DEF Idle, Picked
<1>3. ASSUME Hears(f, Loses(t)) PROVE SittingInv'
  BY <1>1, <1>3, FailsIs, HearsKeep DEF Loses, Idle, Whys
<1> QED
  BY <1>2, <1>3 DEF FollowPicks, Picked

LEMMA ReadiesKeep == ASSUME SittingInv, NEW f \in Follows, FollowReadies(f) PROVE SittingInv'
<1> DEFINE t == follow[f]
<1>1. t \in Threads /\ Placed(t, sent) /\ t.at = "ready"
  BY ThreadIs DEF FollowReadies
<1>2. t.got = None /\ t.mine.session = None /\ t.mine.env # None
  BY <1>1 DEF Placed, WithoutSession, Picked, Making
<1>3. ASSUME NEW why \in {"lost", "again"}, Hears(f, Fails(t, why)) PROVE SittingInv'
  BY <1>1, <1>3, FailsIs, HearsKeep DEF Idle, Whys
<1>4. ASSUME NEW at \in {"restart", "start", "creating"}, Hears(f, GoesTo(t, at)) PROVE SittingInv'
  <2>1. at \in Places \ (Idle \cup Picked \cup {"record", "answer"}) /\ at \notin WithSession
    BY DEF Places, Idle, Picked, WithSession
  <2> QED
    BY <1>1, <1>2, <1>4, <2>1, GoesToIs, HearsKeep DEF Idle
<1> QED
  BY <1>3, <1>4 DEF FollowReadies, Loses, GoesTo

LEMMA HearsStartKeeps == ASSUME SittingInv, NEW f \in Follows, FollowHearsStart(f) PROVE SittingInv'
<1> DEFINE t == follow[f]
<1>1. t \in Threads /\ Placed(t, sent) /\ t.at = "coming"
  BY ThreadIs DEF FollowHearsStart
<1>2. t.got = None /\ t.mine.session = None /\ t.mine.env # None
  BY <1>1 DEF Placed, WithoutSession, Picked, Making
<1>3. ASSUME Hears(f, Loses(t)) PROVE SittingInv'
  BY <1>1, <1>3, FailsIs, HearsKeep DEF Loses, Idle, Whys
<1>4. ASSUME Hears(f, GoesTo(t, "creating")) PROVE SittingInv'
  <2>1. "creating" \in Places \ (Idle \cup Picked \cup {"record", "answer"} \cup WithSession)
    BY DEF Places, Idle, Picked, WithSession
  <2> QED
    BY <1>1, <1>2, <1>4, <2>1, GoesToIs, HearsKeep DEF Idle
<1> QED
  BY <1>3, <1>4 DEF FollowHearsStart, GoesTo

LEMMA StartsKeep == ASSUME SittingInv, NEW f \in Follows, FollowStarts(f) PROVE SittingInv'
<1> DEFINE t == follow[f]
<1>1. t \in Threads /\ Placed(t, sent) /\ t.at = "start"
  BY ThreadIs DEF FollowStarts
<1>2. t.got = None /\ t.mine.session = None /\ t.mine.env # None
  BY <1>1 DEF Placed, WithoutSession, Picked, Making
<1>3. follow' = [follow EXCEPT ![f] = GoesTo(t, "coming")] /\ UNCHANGED <<file, sent>>
  BY DEF FollowStarts, Goes, GoesTo
<1>4. "coming" \in Places \ (Idle \cup Picked \cup {"record", "answer"} \cup WithSession)
  BY DEF Places, Idle, Picked, WithSession
<1> QED
  BY <1>1, <1>2, <1>3, <1>4, GoesToIs, MovesKeep DEF Idle

LEMMA EndsKeepOne ==
  ASSUME SittingInv, UNCHANGED <<file, sent>>, NEW f \in Follows, Ends(f) PROVE SittingInv'
<1>1. follow' = [g \in Follows |-> IF g \in {f} THEN Over(follow[g]) ELSE follow[g]]
  BY DEF Ends, SittingInv, FileShapes
<1> QED
  BY <1>1, EndsKeep

LEMMA StopsKeep == ASSUME SittingInv, NEW f \in Follows, FollowStops(f) PROVE SittingInv'
BY EndsKeepOne DEF FollowStops

LEMMA AbandonsKeep == ASSUME SittingInv, NEW f \in Follows, FollowAbandons(f) PROVE SittingInv'
BY EndsKeepOne DEF FollowAbandons

LEMMA FollowFailsKeeps == ASSUME SittingInv, NEW f \in Follows, FollowFails(f) PROVE SittingInv'
BY EndsKeepOne DEF FollowFails

LEMMA DiesKeep == ASSUME SittingInv, NEW p \in Pods, Dies(p) PROVE SittingInv'
<1>1. {f \in Follows : follow[f].pod = p} \in SUBSET Follows
  OBVIOUS
<1> QED
  BY <1>1, EndsKeep DEF Dies

LEMMA CallFailsKeeps == ASSUME SittingInv, NEW f \in Follows, CallFails(f) PROVE SittingInv'
<1> DEFINE t == follow[f]
<1>1. t \in Threads /\ Placed(t, sent) /\ t.at \notin Idle
  BY ThreadIs DEF CallFails, Idle
<1>2. PICK why \in {"again", "refused"} : follow' = [follow EXCEPT ![f] = Fails(t, why)]
  BY DEF CallFails
<1>3. UNCHANGED <<file, sent>>
  BY DEF CallFails
<1> QED
  BY <1>1, <1>2, <1>3, FailsIs, MovesKeep DEF Idle, Whys

LEMMA BeatsKeep == ASSUME SittingInv, NEW f \in Follows, FollowBeats(f) PROVE SittingInv'
<1> DEFINE t == follow[f]
           u == [t EXCEPT !.released = TRUE]
<1>1. t \in Threads /\ Placed(t, sent)
  BY ThreadIs
<1>2. u \in Threads /\ u.at = t.at /\ u.mine = t.mine /\ u.id = t.id /\ u.got = t.got
  BY <1>1 DEF Threads
<1>3. follow' = [follow EXCEPT ![f] = u] /\ UNCHANGED <<file, sent>>
  BY DEF FollowBeats
<1> HIDE DEF u
<1>4. Placed(u, sent)
  BY <1>1, <1>2 DEF Placed
<1> QED
  BY <1>1, <1>2, <1>3, <1>4, MovesKeep

LEMMA AsksKeep == ASSUME SittingInv, NEW f \in Follows, FollowAsks(f) PROVE SittingInv'
<1> DEFINE t == follow[f]
<1>1. t \in Threads /\ Placed(t, sent) /\ t.at = "taken"
  BY ThreadIs DEF FollowAsks
<1>2. t.got = None /\ t.mine.session # None
  BY <1>1 DEF Placed, WithSession, Picked, Making
<1>3. ASSUME Hears(f, Fails(t, "lost")) PROVE SittingInv'
  BY <1>1, <1>3, FailsIs, HearsKeep DEF Idle, Whys
<1>4. ASSUME NEW at \in {"isBusy", "stream", "send"}, Hears(f, GoesTo(t, at)) PROVE SittingInv'
  <2>1. /\ at \in Places \ (Idle \cup Picked \cup {"record", "answer"})
        /\ at \notin WithoutSession /\ at # "abandon"
    BY DEF Places, Idle, Picked, WithoutSession
  <2> QED
    BY <1>1, <1>2, <1>4, <2>1, GoesToIs, HearsKeep DEF Idle
<1> QED
  BY <1>3, <1>4 DEF FollowAsks, GoesTo, IsSent

LEMMA HolderHas ==
  ASSUME SittingInv, NEW f \in Follows, Holds(f)
  PROVE  /\ file.turn /\ InFlight(file, sent) /\ file.by = f /\ file \in Sittings
         /\ file.session # None => file.env # None
         /\ AtWork(f) => follow[f].mine = file
BY NoneIsNone DEF SittingInv, FileShapes, FileInv, ThreadInv, HoldInv, Holds

LEMMA WritesStep ==
  ASSUME SittingInv, NEW f \in Follows, follow[f].at \notin {"none", "over"}, NEW x, NEW t,
         Writes(f, x, t), t.at # "over",
         Holds(f) =>
             /\ x \in Sittings /\ x.id = file.id /\ x.by = file.by /\ InFlight(x, sent)
             /\ x.session # None => x.env # None
             /\ [t EXCEPT !.mine = x] \in Threads /\ [t EXCEPT !.mine = x].at \notin Idle
             /\ Placed([t EXCEPT !.mine = x], sent)
             /\ [t EXCEPT !.mine = x].mine = x /\ [t EXCEPT !.mine = x].id = follow[f].id
  PROVE  SittingInv'
<1>1. CASE ~Holds(f)
  BY <1>1, EndsKeepOne DEF Writes
<1>2. CASE Holds(f)
  <2> DEFINE u == [t EXCEPT !.mine = x]
  <2>1. file' = x /\ follow' = [follow EXCEPT ![f] = u] /\ UNCHANGED sent
    BY <1>2 DEF Writes
  <2>2. u \in Threads /\ u.at \notin Idle /\ Placed(u, sent) /\ u.mine = x /\ u.id = follow[f].id
    BY <1>2
  <2> HIDE DEF u
  <2> QED
    BY <1>2, <2>1, <2>2, WritesKeep
<1> QED
  BY <1>1, <1>2

Advanced(t, x) == [[t EXCEPT !.at = Advance(x, t)] EXCEPT !.mine = x]
LEMMA AdvanceIs ==
  ASSUME NEW n, NEW t \in Threads, t.got = None, NEW x \in Sittings, InFlight(x, n),
         x.session # None => x.env # None
  PROVE  /\ Advanced(t, x) \in Threads /\ Placed(Advanced(t, x), n)
         /\ Advanced(t, x).at = Advance(x, t) /\ Advance(x, t) \notin Idle
         /\ Advanced(t, x).mine = x /\ Advanced(t, x).id = t.id /\ Advanced(t, x).got = None
<1> DEFINE u == Advanced(t, x)
           at == Advance(x, t)
<1>1. /\ at \in {"pick", "ready", "start", "creating", "send", "taken"}
      /\ at = "pick" <=> x.env = None
      /\ at \in {"ready", "start", "creating"} => x.session = None
      /\ at \in {"send", "taken"} => x.session # None
  BY DEF Advance
<1>2. at \in Places /\ at \notin Idle
  BY <1>1 DEF Places, Idle
<1>3. u \in Threads /\ u.at = at /\ u.mine = x /\ u.id = t.id /\ u.got = None
  <2> HIDE DEF at
  <2>1. u = [[t EXCEPT !.at = at] EXCEPT !.mine = x]
    BY DEF Advanced, at
  <2> QED
    BY <1>2, <2>1 DEF Threads
<1> HIDE DEF u, at
<1>4. Placed(u, n)
  BY <1>1, <1>2, <1>3 DEF Placed, WithoutSession, WithSession, Picked, Making
<1> QED
  BY <1>2, <1>3, <1>4 DEF u, at

\* A step that writes x and goes on to what is next.
LEMMA AdvancesKeep ==
  ASSUME SittingInv, NEW f \in Follows, follow[f].at \notin {"none", "over"},
         NEW t \in Threads, t.got = None, t.id = follow[f].id, NEW x,
         Writes(f, x, [t EXCEPT !.at = Advance(x, t)]),
         Holds(f) =>
             /\ x \in Sittings /\ x.id = file.id /\ x.by = file.by /\ InFlight(x, sent)
             /\ x.session # None => x.env # None
  PROVE  SittingInv'
<1> DEFINE at == Advance(x, t)
           u == [t EXCEPT !.at = at]
<1>1. at \in Places /\ at \notin Idle
  BY DEF Advance, Places, Idle
<1>2. u.at = at /\ at # "over"
  BY <1>1 DEF Threads, Idle
<1>3. Holds(f) =>
             /\ [u EXCEPT !.mine = x] \in Threads /\ [u EXCEPT !.mine = x].at \notin Idle
             /\ Placed([u EXCEPT !.mine = x], sent)
             /\ [u EXCEPT !.mine = x].mine = x /\ [u EXCEPT !.mine = x].id = follow[f].id
  <2> DEFINE v == [u EXCEPT !.mine = x]
  <2>1. v = Advanced(t, x)
    BY DEF Advanced
  <2>2. Holds(f) =>
            /\ Advanced(t, x) \in Threads /\ Placed(Advanced(t, x), sent)
            /\ Advanced(t, x).at = at /\ Advanced(t, x).mine = x /\ Advanced(t, x).id = t.id
    BY AdvanceIs
  <2> HIDE DEF at, u
  <2> QED
    BY <1>1, <2>1, <2>2
<1> HIDE DEF u
<1>4. Writes(f, x, u)
  BY DEF u
<1> QED
  BY <1>2, <1>3, <1>4, WritesStep

LEMMA TakesKeep == ASSUME SittingInv, NEW f \in Follows, FollowTakes(f) PROVE SittingInv'
<1> DEFINE t == [follow[f] EXCEPT !.got = None]
           x == [file EXCEPT !.env = follow[f].got, !.started = follow[f].at = "pickedStopped"]
<1>1. follow[f] \in Threads /\ Placed(follow[f], sent) /\ follow[f].at \in Picked
  BY ThreadIs DEF FollowTakes, Picked
<1>2. t \in Threads /\ t.got = None /\ t.id = follow[f].id
  BY <1>1 DEF Threads, None
<1>3. follow[f].got \in Envs /\ follow[f].at \notin {"none", "over"} /\ AtWork(f)
  BY <1>1 DEF Placed, Picked, AtWork
<1>4. ASSUME Holds(f)
      PROVE  /\ x \in Sittings /\ x.id = file.id /\ x.by = file.by /\ InFlight(x, sent)
             /\ x.session # None => x.env # None
  <2>1. file \in Sittings /\ InFlight(file, sent) /\ file.session = None
    <3>1. follow[f].mine = file /\ file.env = None
      BY <1>1, <1>3, <1>4, HolderHas DEF Placed
    <3> QED
      BY <1>4, <3>1, HolderHas
  <2>2. x \in Sittings /\ x.id = file.id /\ x.by = file.by /\ x.session = file.session
         /\ (x.turn <=> file.turn)
        /\ x.status = file.status /\ x.transcript = file.transcript /\ x.env = follow[f].got
    BY <1>3, <2>1 DEF Sittings
  <2> HIDE DEF x
  <2>3. InFlight(x, sent)
    BY <2>1, <2>2 DEF InFlight
  <2> QED
    BY <2>1, <2>2, <2>3
<1>5. Writes(f, x, [t EXCEPT !.at = Advance(x, t)])
  BY DEF FollowTakes
<1> HIDE DEF x, t
<1> QED
  BY <1>2, <1>3, <1>4, <1>5, AdvancesKeep

LEMMA LeftIs ==
  ASSUME SittingInv, NEW f \in Follows
  PROVE  /\ ~Holds(f) => Left(f) = file
         /\ Holds(f) =>
              /\ Left(f) \in Sittings /\ Left(f).by = None /\ InFlight(Left(f), sent)
              /\ Left(f) = [file EXCEPT !.by = None]
              /\ Left(f).session # None => Left(f).env # None
<1> DEFINE x == [file EXCEPT !.by = None]
<1>1. CASE Holds(f)
  <2>1. file \in Sittings /\ InFlight(file, sent) /\ (file.session # None => file.env # None)
    BY <1>1, HolderHas
  <2>2. /\ x \in Sittings /\ x.by = None /\ (x.turn <=> file.turn) /\ x.session = file.session
        /\ x.env = file.env /\ x.status = file.status /\ x.transcript = file.transcript
    BY <2>1 DEF Sittings
  <2>3. Left(f) = x
    BY <1>1 DEF Left
  <2> HIDE DEF x
  <2>4. InFlight(x, sent)
    BY <2>1, <2>2 DEF InFlight
  <2>5. x = [file EXCEPT !.by = None]
    BY DEF x
  <2> QED
    BY <1>1, <2>1, <2>2, <2>3, <2>4, <2>5
<1> QED
  BY <1>1 DEF Left

LEMMA BeginsKeep == ASSUME SittingInv, NEW f \in Follows, FollowBegins(f) PROVE SittingInv'
<1> DEFINE t == follow[f]
<1>1. t \in Threads /\ Placed(t, sent) /\ t.at = "begin"
  BY ThreadIs DEF FollowBegins
<1>2. t.got = None
  BY <1>1 DEF Placed, Picked, Making
<1>3. CASE pod[t.pod].stopped
  <2>1. file' = Left(f) /\ Ends(f) /\ UNCHANGED sent
    BY <1>3 DEF FollowBegins
  <2>2. CASE ~Holds(f)
    BY <2>1, <2>2, LeftIs, EndsKeepOne
  <2>3. CASE Holds(f)
    <3>1. Over(t) \in Threads /\ Placed(Over(t), sent)
      BY OverType DEF Placed, Idle, WithoutSession, WithSession, Picked, Making
    <3>2. follow' = [follow EXCEPT ![f] = Over(t)]
      BY <2>1 DEF Ends
    <3>3. /\ Left(f) \in Sittings /\ Left(f).by = None /\ InFlight(Left(f), sent)
          /\ Left(f).session # None => Left(f).env # None
      BY <2>3, LeftIs
    <3> QED
      BY <2>1, <3>1, <3>2, <3>3, LetsGoKeep
  <2> QED
    BY <2>2, <2>3
<1>4. CASE ~pod[t.pod].stopped
  <2>1. Writes(f, file, [t EXCEPT !.at = Advance(file, t)])
    BY <1>4 DEF FollowBegins
  <2> QED
    BY <1>1, <1>2, <2>1, HolderHas, AdvancesKeep
<1> QED
  BY <1>3, <1>4

\* A step that writes x and goes to a place named.
LEMMA WritesToKeeps ==
  ASSUME SittingInv, NEW f \in Follows, NEW t \in Threads, follow[f].at \notin Idle,
         t.got = None, t.id = follow[f].id, NEW x,
         NEW at \in Places \ (Idle \cup Picked \cup {"pick", "record", "answer"}),
         Writes(f, x, [t EXCEPT !.at = at]),
         Holds(f) =>
             /\ x \in Sittings /\ x.id = file.id /\ x.by = file.by /\ InFlight(x, sent)
             /\ x.session # None => x.env # None
             /\ at \in WithSession => x.session # None
             /\ at \in WithoutSession => x.session = None /\ x.env # None
             /\ at = "abandon" => x.env # None
  PROVE  SittingInv'
<1> DEFINE u == [t EXCEPT !.at = at]
           v == [u EXCEPT !.mine = x]
<1>1. u.at = at /\ at # "over"
  BY DEF Threads, Idle
<1>2. ASSUME Holds(f)
      PROVE  v \in Threads /\ v.at \notin Idle /\ Placed(v, sent) /\ v.mine = x
             /\ v.id = follow[f].id
  <2>1. v \in Threads /\ v.at = at /\ v.mine = x /\ v.id = t.id /\ v.got = None
    BY <1>2 DEF Threads
  <2> HIDE DEF v
  <2>2. Placed(v, sent)
    BY <1>2, <2>1 DEF Placed, Picked, Making
  <2> QED
    BY <2>1, <2>2
<1>3. Writes(f, x, u)
  OBVIOUS
<1> HIDE DEF u
<1> QED
  BY <1>1, <1>2, <1>3, WritesStep DEF Idle

LEMMA RestartsKeep == ASSUME SittingInv, NEW f \in Follows, FollowRestarts(f) PROVE SittingInv'
<1> DEFINE t == follow[f]
           x == [file EXCEPT !.started = TRUE]
<1>1. t \in Threads /\ Placed(t, sent) /\ t.at = "restart"
  BY ThreadIs DEF FollowRestarts
<1>2. t.got = None /\ t.mine.session = None /\ t.mine.env # None /\ AtWork(f) /\ t.at \notin Idle
  BY <1>1 DEF Placed, WithoutSession, Picked, Making, AtWork, Idle
<1>3. ASSUME Holds(f)
      PROVE  /\ x \in Sittings /\ x.id = file.id /\ x.by = file.by /\ InFlight(x, sent)
             /\ x.session = None /\ x.env # None
  <2>1. file \in Sittings /\ InFlight(file, sent) /\ file.session = None /\ file.env # None
    BY <1>2, <1>3, HolderHas
  <2>2. /\ x \in Sittings /\ x.id = file.id /\ x.by = file.by /\ x.session = file.session
        /\ x.env = file.env /\ (x.turn <=> file.turn) /\ x.status = file.status
        /\ x.transcript = file.transcript
    BY <2>1 DEF Sittings
  <2> HIDE DEF x
  <2> QED
    BY <2>1, <2>2 DEF InFlight
<1>4. Writes(f, x, [t EXCEPT !.at = "start"])
  BY DEF FollowRestarts
<1>5. "start" \in Places \ (Idle \cup Picked \cup {"pick", "record", "answer"} \cup WithSession)
  BY DEF Places, Idle, Picked, WithSession
<1> HIDE DEF x
<1> QED
  BY <1>1, <1>2, <1>3, <1>4, <1>5, WritesToKeeps

LEMMA IsCreatingKeeps == ASSUME SittingInv, NEW f \in Follows, FollowIsCreating(f) PROVE SittingInv'
<1> DEFINE t == follow[f]
<1>1. t \in Threads /\ Placed(t, sent) /\ t.at = "creating"
  BY ThreadIs DEF FollowIsCreating
<1>2. t.got = None /\ t.mine.session = None /\ t.mine.env # None /\ AtWork(f) /\ t.at \notin Idle
  BY <1>1 DEF Placed, WithoutSession, Picked, Making, AtWork, Idle
<1>3. CASE Holds(f)
  <2>1. Writes(f, file, [t EXCEPT !.at = "create"])
    BY <1>3 DEF FollowIsCreating
  <2>2. "create" \in Places \ (Idle \cup Picked \cup {"pick", "record", "answer"} \cup WithSession)
    BY DEF Places, Idle, Picked, WithSession
  <2>3. /\ file \in Sittings /\ InFlight(file, sent) /\ file.session = None /\ file.env # None
    BY <1>2, <1>3, HolderHas
  <2> QED
    BY <1>1, <1>2, <2>1, <2>2, <2>3, WritesToKeeps
<1>4. CASE ~Holds(f)
  <2>1. Hears(f, GoesTo(t, "abandon"))
    BY <1>4 DEF FollowIsCreating, GoesTo
  <2>2. /\ "abandon" \in Places \ (Idle \cup Picked \cup {"record", "answer"} \cup WithSession)
        /\ "abandon" \notin WithoutSession
    BY DEF Places, Idle, Picked, WithSession, WithoutSession
  <2> QED
    BY <1>1, <1>2, <2>1, <2>2, GoesToIs, HearsKeep DEF Idle
<1> QED
  BY <1>3, <1>4

LEMMA CreatesKeep == ASSUME SittingInv, NEW f \in Follows, FollowCreates(f) PROVE SittingInv'
<1> DEFINE t == follow[f]
<1>1. t \in Threads /\ Placed(t, sent) /\ t.at = "create"
  BY ThreadIs DEF FollowCreates
<1>2. t.got = None /\ t.mine.session = None /\ t.mine.env # None /\ t.at \notin Idle
  BY <1>1 DEF Placed, WithoutSession, Picked, Making, Idle
<1>3. ASSUME NEW why \in {"lost", "again"}, follow' = [follow EXCEPT ![f] = Fails(t, why)],
             UNCHANGED <<file, sent>>
      PROVE  SittingInv'
  BY <1>1, <1>3, FailsIs, MovesKeep DEF Idle, Whys
<1>4. ASSUME FreeSessions # {}, UNCHANGED <<file, sent>>,
             follow' = [follow EXCEPT ![f].at = "record", ![f].got = NextSession,
              ![f].unsent = TRUE]
      PROVE  SittingInv'
  <2> DEFINE s == NextSession
             u == [t EXCEPT !.at = "record", !.got = s, !.unsent = TRUE]
  <2>1. s \in Sessions /\ s \in Nat
    BY <1>4, NextSessionFree
  <2>2. follow' = [follow EXCEPT ![f] = u]
    BY <1>4 DEF SittingInv, FileShapes
  <2> HIDE DEF s
  <2>3. u \in Threads /\ u.at = "record" /\ u.got = s /\ u.mine = t.mine /\ u.id = t.id
    BY <1>1, <2>1 DEF Threads, Places
  <2> HIDE DEF u
  <2>4. Placed(u, sent)
    BY <1>1, <1>2, <2>1, <2>3 DEF Placed, Idle, WithoutSession, WithSession, Picked, Making
  <2> QED
    BY <1>1, <1>2, <1>4, <2>2, <2>3, <2>4, MovesKeep DEF Idle
<1> QED
  BY <1>3, <1>4 DEF FollowCreates, Hears, outside

LEMMA RecordsKeep == ASSUME SittingInv, NEW f \in Follows, FollowRecords(f) PROVE SittingInv'
<1> DEFINE t == follow[f]
           u == [t EXCEPT !.got = None]
           x == [file EXCEPT !.session = t.got, !.offset = 0, !.turns = 0]
<1>1. t \in Threads /\ Placed(t, sent) /\ t.at = "record"
  BY ThreadIs DEF FollowRecords
<1>2. t.got \in Sessions /\ t.mine.session = None /\ t.mine.env # None /\ AtWork(f)
       /\ t.at \notin Idle
  BY <1>1 DEF Placed, WithoutSession, AtWork, Idle
<1>3. CASE Holds(f)
  <2>1. Writes(f, x, [u EXCEPT !.at = "send"])
    BY <1>3 DEF FollowRecords
  <2>2. /\ "send" \in Places \ (Idle \cup Picked \cup {"pick", "record", "answer"})
        /\ "send" \notin WithoutSession
    BY DEF Places, Idle, Picked, WithoutSession
  <2>3. file \in Sittings /\ InFlight(file, sent) /\ file.env # None
    BY <1>2, <1>3, HolderHas
  <2>4. /\ x \in Sittings /\ x.id = file.id /\ x.by = file.by /\ x.session = t.got
        /\ x.env = file.env /\ (x.turn <=> file.turn) /\ x.status = file.status
        /\ x.transcript = file.transcript
    BY <1>2, <2>3 DEF Sittings
  <2>5. u \in Threads /\ u.got = None /\ u.id = t.id /\ u.at = t.at /\ u.mine = t.mine
    BY <1>1 DEF Threads, None
  <2> HIDE DEF x, u
  <2>6. InFlight(x, sent) /\ x.session # None /\ x.env # None
    BY <1>2, <2>3, <2>4, NoneIsNone DEF InFlight
  <2> QED
    BY <1>2, <2>1, <2>2, <2>4, <2>5, <2>6, WritesToKeeps
<1>4. CASE ~Holds(f)
  <2> DEFINE v == [t EXCEPT !.at = "abandon"]
  <2>1. Hears(f, v)
    BY <1>4 DEF FollowRecords
  <2>2. v \in Threads /\ v.at = "abandon" /\ v.got = t.got /\ v.mine = t.mine /\ v.id = t.id
    BY <1>1 DEF Threads, Places
  <2> HIDE DEF v
  <2>3. Placed(v, sent)
    BY <1>1, <1>2, <2>2 DEF Placed, Idle, WithoutSession, WithSession, Picked, Making
  <2> QED
    BY <1>1, <1>2, <2>1, <2>2, <2>3, HearsKeep DEF Idle
<1> QED
  BY <1>3, <1>4

LEMMA MarksBusyKeeps == ASSUME SittingInv, NEW f \in Follows, FollowMarksBusy(f) PROVE SittingInv'
<1> DEFINE t == follow[f]
           x == [file EXCEPT !.status = "busy"]
<1>1. t \in Threads /\ Placed(t, sent) /\ t.at = "isBusy"
  BY ThreadIs DEF FollowMarksBusy
<1>2. t.got = None /\ t.mine.session # None /\ AtWork(f) /\ t.at \notin Idle
  BY <1>1 DEF Placed, WithSession, Picked, Making, AtWork, Idle
<1>3. ASSUME Holds(f)
      PROVE  /\ x \in Sittings /\ x.id = file.id /\ x.by = file.by /\ InFlight(x, sent)
             /\ x.session # None /\ (x.session # None => x.env # None)
  <2>1. /\ file \in Sittings /\ InFlight(file, sent) /\ file.session # None
        /\ file.session # None => file.env # None
    BY <1>2, <1>3, HolderHas
  <2>2. /\ x \in Sittings /\ x.id = file.id /\ x.by = file.by /\ x.session = file.session
        /\ x.env = file.env /\ (x.turn <=> file.turn) /\ x.status = "busy"
        /\ x.transcript = file.transcript
    BY <2>1 DEF Sittings
  <2> HIDE DEF x
  <2> QED
    BY <2>1, <2>2 DEF InFlight
<1>4. Writes(f, x, [t EXCEPT !.at = "stream"])
  BY DEF FollowMarksBusy
<1>5. "stream" \in Places \ (Idle \cup Picked \cup {"pick", "record", "answer"} \cup WithoutSession)
  BY DEF Places, Idle, Picked, WithoutSession
<1> HIDE DEF x
<1> QED
  BY <1>1, <1>2, <1>3, <1>4, <1>5, WritesToKeeps

LEMMA ResumesKeep == ASSUME SittingInv, NEW f \in Follows, FollowResumes(f) PROVE SittingInv'
<1> DEFINE t == follow[f]
           x == [file EXCEPT !.session = None]
<1>1. t \in Threads /\ Placed(t, sent) /\ t.at = "resume"
  BY ThreadIs DEF FollowResumes
<1>2. t.got = None /\ t.at \notin {"none", "over"}
  BY <1>1 DEF Placed, Picked, Making
<1>3. ASSUME Holds(f)
      PROVE  /\ x \in Sittings /\ x.id = file.id /\ x.by = file.by /\ InFlight(x, sent)
             /\ x.session = None
  <2>1. file \in Sittings /\ InFlight(file, sent)
    BY <1>3, HolderHas
  <2>2. /\ x \in Sittings /\ x.id = file.id /\ x.by = file.by /\ x.session = None
        /\ (x.turn <=> file.turn) /\ x.status = file.status /\ x.transcript = file.transcript
    BY <2>1 DEF Sittings
  <2> HIDE DEF x
  <2> QED
    BY <2>1, <2>2 DEF InFlight
<1>4. Writes(f, x, [t EXCEPT !.at = Advance(x, t)])
  BY DEF FollowResumes
<1> HIDE DEF x
<1> QED
  BY <1>1, <1>2, <1>3, <1>4, AdvancesKeep

LEMMA SendsKeep == ASSUME SittingInv, NEW f \in Follows, FollowSends(f) PROVE SittingInv'
<1> DEFINE t == follow[f]
<1>1. t \in Threads /\ Placed(t, sent) /\ t.at = "send"
  BY ThreadIs DEF FollowSends
<1>2. t.got = None /\ t.mine.session # None /\ t.at \notin Idle
  BY <1>1 DEF Placed, WithSession, Picked, Making, Idle
<1>3. ASSUME NEW why \in {"lost", "again"}, follow' = [follow EXCEPT ![f] = Fails(t, why)],
             UNCHANGED <<file, sent>>
      PROVE  SittingInv'
  BY <1>1, <1>3, FailsIs, MovesKeep DEF Idle, Whys
<1>4. ASSUME Hears(f, [t EXCEPT !.at = "resume", !.resumed = TRUE]) PROVE SittingInv'
  <2> DEFINE u == [t EXCEPT !.at = "resume", !.resumed = TRUE]
  <2>1. u \in Threads /\ u.at = "resume" /\ u.got = None /\ u.mine = t.mine /\ u.id = t.id
    BY <1>1, <1>2 DEF Threads, Places
  <2> HIDE DEF u
  <2>2. Placed(u, sent)
    BY <1>1, <1>2, <2>1 DEF Placed, Idle, WithoutSession, WithSession, Picked, Making
  <2>3. Hears(f, u)
    BY <1>4 DEF u
  <2> QED
    BY <1>1, <1>2, <2>1, <2>2, <2>3, HearsKeep DEF Idle
<1>5. ASSUME follow' = [follow EXCEPT ![f].at = IsSent(t), ![f].unsent = FALSE],
             UNCHANGED <<file, sent>>
      PROVE  SittingInv'
  <2> DEFINE at == IsSent(t)
             u == [t EXCEPT !.at = at, !.unsent = FALSE]
  <2>1. at \in {"isBusy", "stream"}
    BY DEF IsSent
  <2>2. follow' = [follow EXCEPT ![f] = u]
    BY <1>5 DEF SittingInv, FileShapes
  <2> HIDE DEF at
  <2>3. u \in Threads /\ u.at = at /\ u.got = None /\ u.mine = t.mine /\ u.id = t.id
    BY <1>1, <1>2, <2>1 DEF Threads, Places
  <2> HIDE DEF u
  <2>4. Placed(u, sent) /\ at \notin Idle
    BY <1>1, <1>2, <2>1, <2>3 DEF Placed, Idle, WithoutSession, WithSession, Picked, Making
  <2> QED
    BY <1>1, <1>2, <1>5, <2>2, <2>3, <2>4, MovesKeep DEF Idle
<1> QED
  BY <1>3, <1>4, <1>5 DEF FollowSends, Hears, outside

LEMMA KeptIs ==
  ASSUME NEW x \in Sittings, NEW s \in Sessions, NEW next \in Nat
  PROVE  /\ Kept(x, s, next) \in Sittings
         /\ Kept(x, s, next).id = x.id /\ Kept(x, s, next).by = x.by
         /\ (Kept(x, s, next).turn <=> x.turn) /\ Kept(x, s, next).status = x.status
         /\ Kept(x, s, next).env = x.env /\ Kept(x, s, next).session = x.session
         /\ Kept(x, s, next).turns = x.turns /\ Kept(x, s, next).transcript = x.transcript
         /\ Kept(x, s, next).offset = next
<1> DEFINE said == IF session[s].log[next].message /\ session[s].log[next].turn = x.turns + 1
                   THEN Append(x.said, <<s, next>>) ELSE x.said
<1>1. said \in Seq(Texts)
  <2>1. x.said \in Seq(Texts)
    BY DEF Sittings
  <2>2. <<s, next>> \in Texts
    BY DEF Texts
  <2> QED
    BY <2>1, <2>2
<1>2. Kept(x, s, next) = [x EXCEPT !.said = said, !.offset = next]
  BY DEF Kept
<1> HIDE DEF said
<1>3. LET y == [x EXCEPT !.said = said, !.offset = next] IN
      /\ y \in Sittings /\ y.id = x.id /\ y.by = x.by /\ (y.turn <=> x.turn) /\ y.status = x.status
      /\ y.env = x.env /\ y.session = x.session /\ y.turns = x.turns
      /\ y.transcript = x.transcript /\ y.offset = next /\ y.said = said
  BY <1>1 DEF Sittings
<1> QED
  BY <1>2, <1>3 DEF said

SessionShapes == session \in [Sessions -> SessionRecords]

LEMMA ReadsKeep ==
  ASSUME SittingInv, SessionShapes, NEW f \in Follows, FollowReads(f) PROVE SittingInv'
<1> DEFINE t == follow[f]
           next == t.mine.offset + 1
           x == Kept(file, t.mine.session, next)
<1>1. t \in Threads /\ Placed(t, sent) /\ t.at = "stream" /\ t.mine \in Sittings
  BY ThreadIs DEF FollowReads, Threads
<1>2. /\ t.got = None /\ t.mine.session \in Sessions /\ AtWork(f) /\ t.at \notin Idle
      /\ t.mine.session # None /\ next \in Nat
  BY <1>1 DEF Placed, WithSession, Picked, Making, AtWork, Idle, Sittings
<1>3. ASSUME Hears(f, Fails(t, "lost")) PROVE SittingInv'
  BY <1>1, <1>3, FailsIs, HearsKeep DEF Idle, Whys
<1>4. ASSUME Writes(f, x, t) PROVE SittingInv'
  <2>1. ASSUME Holds(f)
        PROVE  /\ x \in Sittings /\ x.id = file.id /\ x.by = file.by /\ InFlight(x, sent)
               /\ x.session # None /\ (x.session # None => x.env # None)
    <3>1. /\ file \in Sittings /\ InFlight(file, sent) /\ file.session # None
          /\ file.session # None => file.env # None
      BY <1>2, <2>1, HolderHas
    <3>2. /\ x \in Sittings /\ x.id = file.id /\ x.by = file.by /\ (x.turn <=> file.turn)
          /\ x.status = file.status /\ x.env = file.env /\ x.session = file.session
          /\ x.transcript = file.transcript
      <4> DEFINE s == t.mine.session
                 n == next
      <4>1. s \in Sessions /\ n \in Nat /\ x = Kept(file, s, n) /\ file \in Sittings
        BY <1>2, <3>1
      <4> HIDE DEF s, n
      <4>2. LET y == Kept(file, s, n) IN
            /\ y \in Sittings /\ y.id = file.id /\ y.by = file.by /\ (y.turn <=> file.turn)
            /\ y.status = file.status /\ y.env = file.env /\ y.session = file.session
            /\ y.transcript = file.transcript
        BY <4>1, KeptIs
      <4> QED
        BY <4>1, <4>2
    <3> HIDE DEF x
    <3> QED
      BY <3>1, <3>2 DEF InFlight
  <2>2. t = [t EXCEPT !.at = "stream"]
    BY <1>1 DEF Threads
  <2>3. "stream" \in Places \ (Idle \cup Picked \cup {"pick", "record", "answer"}
         \cup WithoutSession)
    BY DEF Places, Idle, Picked, WithoutSession
  <2>4. Writes(f, x, [t EXCEPT !.at = "stream"])
    BY <1>4, <2>2
  <2> HIDE DEF x
  <2> QED
    BY <1>1, <1>2, <2>1, <2>3, <2>4, WritesToKeeps
<1>5. ASSUME Hears(f, [t EXCEPT !.at = "answer", !.got = Its(f).turns]) PROVE SittingInv'
  <2> DEFINE u == [t EXCEPT !.at = "answer", !.got = Its(f).turns]
  <2>1. Its(f).turns \in Nat
    BY <1>2 DEF SessionShapes, SessionRecords, Its
  <2>2. /\ u \in Threads /\ u.at = "answer" /\ u.got = Its(f).turns /\ u.mine = t.mine
        /\ u.id = t.id
    BY <1>1, <2>1 DEF Threads, Places
  <2>3. Hears(f, u)
    BY <1>5
  <2> HIDE DEF u
  <2>4. Placed(u, sent)
    BY <1>1, <1>2, <2>1, <2>2 DEF Placed, Idle, WithoutSession, WithSession, Picked, Making
  <2> QED
    BY <1>1, <1>2, <2>2, <2>3, <2>4, HearsKeep DEF Idle
<1> QED
  BY <1>3, <1>4, <1>5 DEF FollowReads

\* A step that writes x, the turn over, and is over.
LEMMA WritesOverKeeps ==
  ASSUME SittingInv, NEW f \in Follows, NEW x, NEW t, Writes(f, x, Over(t)),
         Holds(f) => x \in Sittings /\ x.by = None /\ (x.turn <=> FALSE)
                     /\ (x.session # None => x.env # None)
  PROVE  SittingInv'
<1>1. CASE ~Holds(f)
  BY <1>1, EndsKeepOne DEF Writes
<1>2. CASE Holds(f)
  <2>1. Over(t) \in Threads /\ Over(t).at = "over" /\ Over(t).got = None
    BY OverType
  <2>2. file' = x /\ follow' = [follow EXCEPT ![f] = Over(t)] /\ UNCHANGED sent
    BY <1>2, <2>1 DEF Writes
  <2>3. Placed(Over(t), sent)
    BY <2>1 DEF Placed, Idle, WithoutSession, WithSession, Picked, Making
  <2> QED
    BY <1>2, <2>1, <2>2, <2>3, LetsGoKeep
<1> QED
  BY <1>1, <1>2

LEMMA AnswersKeep ==
  ASSUME SittingInv, SessionShapes, NEW f \in Follows, FollowAnswers(f) PROVE SittingInv'
<1> DEFINE t == follow[f]
           x == [file EXCEPT !.status = "idle", !.turns = t.got, !.turn = FALSE,
                             !.by = None, !.said = << >>,
                             !.conversation = @ \/ Running(t.mine.session),
                             !.transcript = Append(@, Answer(file.said))]
<1>1. t \in Threads /\ Placed(t, sent) /\ t.at = "answer"
  BY ThreadIs DEF FollowAnswers
<1>2. t.got \in Nat
  BY <1>1 DEF Placed
<1>3. ASSUME Holds(f)
      PROVE  /\ x \in Sittings /\ x.by = None /\ (x.turn <=> FALSE)
             /\ x.session # None => x.env # None
  <2>1. file \in Sittings /\ (file.session # None => file.env # None)
    BY <1>3, HolderHas
  <2>2. Append(file.transcript, Answer(file.said)) \in Seq(Entries)
    <3>1. file.transcript \in Seq(Entries) /\ file.said \in Seq(Texts)
      BY <2>1 DEF Sittings, Entries
    <3>2. Answer(file.said) \in Entries
      BY <3>1 DEF Answer, Entries
    <3> QED
      BY <3>1, <3>2
  <2>3. << >> \in Seq(Texts)
    OBVIOUS
  <2> QED
    BY <1>2, <2>1, <2>2, <2>3 DEF Sittings, Entries
<1>4. Writes(f, x, Over(t))
  BY DEF FollowAnswers
<1> HIDE DEF x
<1> QED
  BY <1>3, <1>4, WritesOverKeeps

LEMMA CatchesKeep == ASSUME SittingInv, NEW f \in Follows, FollowCatches(f) PROVE SittingInv'
<1> DEFINE t == [follow[f] EXCEPT !.unsent = FALSE, !.why = "none"]
           x == [file EXCEPT !.status = "lost", !.turn = FALSE, !.by = None, !.said = << >>]
<1>1. follow[f] \in Threads /\ Placed(follow[f], sent) /\ follow[f].at = "failed"
  BY ThreadIs DEF FollowCatches
<1>2. t \in Threads /\ t.got = None /\ t.id = follow[f].id
  BY <1>1 DEF Threads, Placed, Picked, Making
<1>3. ASSUME Writes(f, x, Over(t)) PROVE SittingInv'
  <2>1. ASSUME Holds(f)
        PROVE  /\ x \in Sittings /\ x.by = None /\ (x.turn <=> FALSE)
               /\ x.session # None => x.env # None
    <3>1. file \in Sittings /\ (file.session # None => file.env # None)
      BY <2>1, HolderHas
    <3>2. << >> \in Seq(Texts)
      OBVIOUS
    <3> QED
      BY <3>1, <3>2 DEF Sittings
  <2> HIDE DEF x, t
  <2> QED
    BY <1>3, <2>1, WritesOverKeeps
<1>4. ASSUME Writes(f, file, [t EXCEPT !.at = Advance(file, t)]) PROVE SittingInv'
  <2> HIDE DEF t
  <2> QED
    BY <1>1, <1>2, <1>4, HolderHas, AdvancesKeep
<1>5. ASSUME Ends(f), UNCHANGED <<file, sent>> PROVE SittingInv'
  BY <1>5, EndsKeepOne
<1> QED
  BY <1>3, <1>4, <1>5 DEF FollowCatches

----------------------------------------------------------------------------
(* The other steps of the sitting.                                         *)

LEMMA UntouchedKeep ==
  ASSUME SittingInv, UNCHANGED <<file, follow, sent>> PROVE SittingInv'
<1>1. FileShapes'
  BY DEF SittingInv, FileShapes
<1>2. FileInv'
  BY DEF SittingInv, FileInv
<1>3. HoldInv'
  BY DEF SittingInv, ThreadInv, HoldInv, AtWork, Holds
<1>4. \A f \in Follows : Placed(follow'[f], sent')
  BY DEF SittingInv, ThreadInv
<1> QED
  BY <1>1, <1>2, <1>3, <1>4 DEF SittingInv, ThreadInv

LEMMA BegunIs ==
  ASSUME NEW m, NEW f
  PROVE  /\ Begun(m, f).id = m /\ Begun(m, f).by = f /\ Begun(m, f).turn <=> TRUE
         /\ Begun(m, f).status = "starting" /\ Begun(m, f).session = None
         /\ Begun(m, f).env = None /\ Begun(m, f).transcript = <<Operator(m)>>
         /\ Begun(m, f).said = << >>
BY DEF Begun

LEMMA StartKeeps == ASSUME SittingInv, NEW p \in Pods, Start(p) PROVE SittingInv'
<1> DEFINE m == sent + 1
           x == Begun(m, NextFollow)
<1>1. /\ BeginsTurn(p, x) /\ FreeFollows # {} /\ sent' = m /\ file' = x
      /\ follow' = [follow EXCEPT ![NextFollow] = Thread(p, "begin", x.id, TRUE)]
  BY DEF Start, BeginsTurn
<1>2. sent \in Nat /\ MaxMessages \in Nat /\ sent < MaxMessages
  BY SentType, BoundsType DEF SittingInv, Start, BeginsTurn
<1>3. m \in 1..MaxMessages /\ m \in 0..MaxMessages /\ sent <= m
  BY <1>2
<1>4. NextFollow \in Follows
  BY <1>1, NextFollowFree
<1> HIDE DEF m
<1>5. x \in Sittings
  BY <1>3, <1>4, BegunType
<1>6. /\ x.by = NextFollow /\ (x.turn <=> TRUE) /\ x.status = "starting" /\ x.session = None
      /\ x.transcript = <<Operator(m)>>
  BY BegunIs
<1> HIDE DEF x
<1>7. InFlight(x, m)
  <2>1. x.transcript # << >> /\ x.transcript[Len(x.transcript)] = Operator(m)
    BY <1>6
  <2>2. m \in 1..m
    BY <1>3
  <2> QED
    BY <1>6, <2>1, <2>2 DEF InFlight
<1> QED
  BY <1>1, <1>3, <1>5, <1>6, <1>7, NewFollowKeeps

LEMMA SendKeeps == ASSUME SittingInv, NEW p \in Pods, Send(p) PROVE SittingInv'
<1> DEFINE m == sent + 1
           x == [file EXCEPT !.status = "busy", !.turn = TRUE, !.by = NextFollow,
                             !.transcript = Append(@, Operator(m))]
<1>1. /\ BeginsTurn(p, x) /\ FreeFollows # {} /\ sent' = m /\ file' = x
      /\ follow' = [follow EXCEPT ![NextFollow] = Thread(p, "begin", x.id, TRUE)]
  BY DEF Send, BeginsTurn
<1>2. sent \in Nat /\ MaxMessages \in Nat /\ sent < MaxMessages
  BY SentType, BoundsType DEF SittingInv, Send, BeginsTurn
<1>3. m \in 1..MaxMessages /\ m \in 0..MaxMessages /\ sent <= m /\ m \in Nat
  BY <1>2
<1>4. NextFollow \in Follows
  BY <1>1, NextFollowFree
<1>5. file \in Sittings /\ (file.session # None => file.env # None)
  BY DEF SittingInv, FileShapes, FileInv
<1> HIDE DEF m
<1>6. Append(file.transcript, Operator(m)) \in Seq(Entries)
  <2>1. file.transcript \in Seq(Entries)
    BY <1>5 DEF Sittings, Entries
  <2>2. Operator(m) \in Entries
    BY <1>3, OperatorType
  <2> QED
    BY <2>1, <2>2
<1>7. /\ x \in Sittings /\ x.by = NextFollow /\ (x.turn <=> TRUE) /\ x.status = "busy"
      /\ x.session = file.session /\ x.env = file.env
      /\ x.transcript = Append(file.transcript, Operator(m))
  BY <1>4, <1>5, <1>6 DEF Sittings, Entries
<1> HIDE DEF x
<1>8. InFlight(x, m)
  <2>1. file.transcript \in Seq(Entries)
    BY <1>5 DEF Sittings, Entries
  <2>2. x.transcript # << >> /\ x.transcript[Len(x.transcript)] = Operator(m)
    BY <1>7, <2>1
  <2>3. m \in 1..m
    BY <1>3
  <2> QED
    BY <1>7, <2>2, <2>3 DEF InFlight
<1> QED
  BY <1>1, <1>3, <1>5, <1>7, <1>8, NewFollowKeeps

LEMMA ClearsKeepIt == ASSUME SittingInv, Clears PROVE SittingInv'
<1>1. file' = NoSitting /\ UNCHANGED <<follow, sent>>
  BY DEF Clears
<1> QED
  BY <1>1, NoSittingType, NoSittingIs, ClearsKeep

LEMMA RestKeepsIt == ASSUME SittingInv, Rest PROVE SittingInv'
<1> DEFINE x == [file EXCEPT !.session = None, !.started = FALSE]
<1>1. file' = x /\ UNCHANGED <<follow, sent>> /\ ~file.turn
  BY DEF Rest
<1>2. file \in Sittings /\ file.by = None
  BY <1>1 DEF SittingInv, FileShapes, FileInv
<1>3. x \in Sittings /\ (x.turn <=> file.turn) /\ x.by = file.by /\ x.session = None
  BY <1>2 DEF Sittings
<1>4. x.turn <=> FALSE
  BY <1>1, <1>3
<1> HIDE DEF x
<1> QED
  BY <1>1, <1>2, <1>3, <1>4, ClearsKeep

LEMMA TakeOverKeeps == ASSUME SittingInv, NEW p \in Pods, TakeOver(p) PROVE SittingInv'
<1> DEFINE x == [file EXCEPT !.by = NextFollow]
<1>1. /\ FreeFollows # {} /\ sent' = sent /\ file' = x /\ file.turn
      /\ follow' = [follow EXCEPT ![NextFollow] = Thread(p, "begin", file.id, FALSE)]
  BY DEF TakeOver, Takeable
<1>2. /\ file \in Sittings /\ (file.session # None => file.env # None) /\ InFlight(file, sent)
      /\ sent \in 0..MaxMessages
  BY <1>1 DEF SittingInv, FileShapes, FileInv
<1>3. NextFollow \in Follows
  BY <1>1, NextFollowFree
<1>4. /\ x \in Sittings /\ x.by = NextFollow /\ (x.turn <=> file.turn) /\ x.session = file.session
      /\ x.env = file.env /\ x.status = file.status /\ x.transcript = file.transcript
      /\ x.id = file.id
  BY <1>2, <1>3 DEF Sittings
<1> HIDE DEF x
<1>5. InFlight(x, sent)
  BY <1>2, <1>4 DEF InFlight
<1>6. follow' = [follow EXCEPT ![NextFollow] = Thread(p, "begin", x.id, FALSE)]
  BY <1>1, <1>4
<1>7. sent' \in 0..MaxMessages /\ sent <= sent' /\ InFlight(x, sent')
  BY <1>1, <1>2, <1>5, BoundsType
<1>8. x.session # None => x.env # None
  BY <1>2, <1>4
<1> QED
  BY <1>1, <1>4, <1>6, <1>7, <1>8, NewFollowKeeps

LEMMA LeavesKeep ==
  ASSUME SittingInv, pod \in [Pods -> PodRecords], NEW p \in Pods, Leaves(p) PROVE SittingInv'
<1>1. PICK f \in pod[p].leave : /\ file' = Left(f)
                                /\ follow' = [follow EXCEPT ![f].released = TRUE]
  BY DEF Leaves
<1>2. f \in Follows /\ UNCHANGED sent
  BY DEF PodRecords, Leaves
<1> DEFINE t == follow[f]
           u == [t EXCEPT !.released = TRUE]
<1>3. t \in Threads /\ Placed(t, sent)
  BY <1>2, ThreadIs
<1>4. u \in Threads /\ u.at = t.at /\ u.mine = t.mine /\ u.id = t.id /\ u.got = t.got
  BY <1>3 DEF Threads
<1>5. follow' = [follow EXCEPT ![f] = u]
  BY <1>1
<1> HIDE DEF u
<1>6. Placed(u, sent)
  BY <1>3, <1>4 DEF Placed
<1>7. CASE Holds(f)
  <2>1. /\ Left(f) \in Sittings /\ Left(f).by = None /\ InFlight(Left(f), sent)
        /\ Left(f).session # None => Left(f).env # None
    BY <1>2, <1>7, LeftIs
  <2> QED
    BY <1>1, <1>2, <1>4, <1>5, <1>6, <2>1, LetsGoKeep
<1>8. CASE ~Holds(f)
  <2>1. file' = file
    BY <1>1, <1>2, <1>8, LeftIs
  <2> QED
    BY <1>2, <1>4, <1>5, <1>6, <2>1, MovesKeep
<1> QED
  BY <1>7, <1>8

----------------------------------------------------------------------------
(* What is closed, and the controller's side.                              *)

LEMMA ToCloseIs ==
  ASSUME NEW x \in Sittings, NEW by \in Follows \cup {None}, NEW stop \in BOOLEAN
  PROVE  /\ ToClose(x, by, stop) \subseteq Closings
         /\ \A j \in ToClose(x, by, stop) :
              /\ j.session # None => j.session = x.session /\ j.at = "end"
              /\ j.session = None => j.at # "end"
         /\ \A j, k \in ToClose(x, by, stop) : j = k
         /\ x.session # None /\ x.env # None /\ x.status # "lost" =>
              \E j \in ToClose(x, by, stop) : j.session = x.session
<1> DEFINE name == IF x.status = "lost" THEN None ELSE x.session
           stops == stop /\ x.started
           j == [by |-> by, env |-> x.env, session |-> name, stop |-> stops,
                 at |-> IF name = None THEN "list" ELSE "end"]
<1>1. ToClose(x, by, stop) = IF x.env = None \/ (name = None /\ ~stops) THEN {} ELSE {j}
  BY DEF ToClose
<1>2. x.env \in Envs \cup {None} /\ name \in Sessions \cup {None} /\ stops \in BOOLEAN
      /\ x.session \in Sessions \cup {None}
  BY DEF Sittings
<1>3. x.env # None => j \in Closings
  BY <1>2 DEF Closings, Closers
<1>4. j.session = name /\ (name = None => j.at = "list") /\ (name # None => j.at = "end")
  OBVIOUS
<1>5. name # None => name = x.session
  OBVIOUS
<1>6. x.status # "lost" => name = x.session
  OBVIOUS
<1> HIDE DEF j, name, stops
<1> QED
  BY <1>1, <1>3, <1>4, <1>5, <1>6

LEMMA GoneIs ==
  ASSUME SessionShapes, NEW S, Gone(S)
  PROVE  /\ SessionShapes'
         /\ \A s \in Sessions :
              /\ session'[s].took = session[s].took /\ session'[s].log = session[s].log
              /\ session'[s].turns = session[s].turns /\ session'[s].env = session[s].env
              /\ session'[s].at = IF s \in S /\ session[s].at \in {"idle", "busy"} THEN "gone"
                                  ELSE session[s].at
<1>1. \A s \in Sessions : session[s] \in SessionRecords
  BY DEF SessionShapes
<1>2. \A s \in Sessions : session'[s] = IF s \in S /\ session[s].at \in {"idle", "busy"}
                                       THEN [session[s] EXCEPT !.at = "gone"] ELSE session[s]
  BY DEF Gone, Running
<1>3. \A s \in Sessions : [session[s] EXCEPT !.at = "gone"] \in SessionRecords
  BY <1>1 DEF SessionRecords
<1>4. session' \in [Sessions -> SessionRecords]
  <2>1. session' = [s \in Sessions |-> session'[s]]
    BY DEF Gone
  <2> QED
    BY <1>1, <1>2, <1>3, <2>1
<1>5. \A s \in Sessions :
         /\ [session[s] EXCEPT !.at = "gone"].took = session[s].took
         /\ [session[s] EXCEPT !.at = "gone"].log = session[s].log
         /\ [session[s] EXCEPT !.at = "gone"].turns = session[s].turns
         /\ [session[s] EXCEPT !.at = "gone"].env = session[s].env
         /\ [session[s] EXCEPT !.at = "gone"].at = "gone"
  BY <1>1 DEF SessionRecords
<1> QED
  BY <1>2, <1>4, <1>5 DEF SessionShapes

LEMMA NewSessionIs ==
  ASSUME NEW e \in Envs \cup {None}
  PROVE  /\ NewSession(e) \in SessionRecords /\ NewSession(e).at = "idle"
         /\ NewSession(e).took = << >> /\ NewSession(e).log = << >> /\ NewSession(e).turns = 0
<1>1. << >> \in Seq(Items) /\ << >> \in Seq(Nat)
  OBVIOUS
<1> QED
  BY <1>1 DEF NewSession, SessionRecords

LEMMA LoggedType ==
  ASSUME SessionShapes, NEW s \in Sessions PROVE Logged(s) \in Nat
<1> DEFINE n == Len(session[s].log)
           S == {i \in 1..n : session[s].log[i].turn > session[s].turns}
<1>1. n \in Nat
  BY DEF SessionShapes, SessionRecords
<1>2. IsFiniteSet(1..n)
  BY <1>1, FS_Interval
<1>3. IsFiniteSet(S)
  BY <1>2, FS_Subset
<1>4. Cardinality(S) \in Nat
  BY <1>3, FS_CardinalityType
<1> QED
  BY <1>4 DEF Logged

\* A session's log goes on by an item of its turn, and the last ends the turn.
LEMMA SessionWritesIs ==
  ASSUME SessionShapes, NEW s \in Sessions, SessionWrites(s)
  PROVE  /\ SessionShapes' /\ session[s].at = "busy"
         /\ \E item \in Items :
              /\ item.turn = session[s].turns + 1
              /\ session' = [session EXCEPT ![s].log = Append(@, item)]
<1> DEFINE n == Logged(s) + 1
           item == [turn |-> session[s].turns + 1, message |-> Turn[n]]
<1>1. n \in 1..Len(Turn)
  BY LoggedType, TurnAssumption DEF SessionWrites
<1>2. Turn[n] \in BOOLEAN
  BY <1>1, TurnAssumption
<1>3. session[s] \in SessionRecords /\ session[s].turns + 1 \in Nat
  BY DEF SessionShapes, SessionRecords
<1>4. session' = [session EXCEPT ![s].log = Append(@, item)] /\ session[s].at = "busy"
  BY DEF SessionWrites
<1> HIDE DEF n
<1>5. item \in Items /\ item.turn = session[s].turns + 1
  BY <1>2, <1>3 DEF Items
<1> HIDE DEF item
<1>6. [session[s] EXCEPT !.log = Append(@, item)] \in SessionRecords
  <2>1. session[s].log \in Seq(Items)
    BY <1>3 DEF SessionRecords
  <2>2. Append(session[s].log, item) \in Seq(Items)
    BY <1>5, <2>1
  <2> QED
    BY <1>3, <2>2 DEF SessionRecords
<1>7. SessionShapes'
  BY <1>4, <1>6 DEF SessionShapes
<1> QED
  BY <1>4, <1>5, <1>7

LEMMA SessionFinishesIs ==
  ASSUME SessionShapes, NEW s \in Sessions, SessionFinishes(s)
  PROVE  /\ SessionShapes' /\ session[s].at = "busy"
         /\ \E item \in Items :
              /\ item.turn = session[s].turns + 1
              /\ session' = [session EXCEPT ![s].at = "idle", ![s].turns = @ + 1,
                                            ![s].log = Append(@, item)]
<1> DEFINE n == Len(Turn)
           item == [turn |-> session[s].turns + 1, message |-> Turn[n]]
<1>1. n \in 1..n
  <2>1. Logged(s) \in Nat /\ n \in Nat /\ Logged(s) + 1 = n
    BY LoggedType, TurnAssumption DEF SessionFinishes
  <2> QED
    BY <2>1
<1>2. Turn[n] \in BOOLEAN
  BY <1>1, TurnAssumption
<1>3. session[s] \in SessionRecords /\ session[s].turns + 1 \in Nat
  BY DEF SessionShapes, SessionRecords
<1>4. /\ session' = [session EXCEPT ![s].at = "idle", ![s].turns = @ + 1,
                                    ![s].log = Append(@, item)]
      /\ session[s].at = "busy"
  BY DEF SessionFinishes
<1> HIDE DEF n
<1>5. item \in Items /\ item.turn = session[s].turns + 1
  BY <1>2, <1>3 DEF Items
<1> HIDE DEF item
<1>6. [session[s] EXCEPT !.at = "idle", !.turns = @ + 1, !.log = Append(@, item)] \in SessionRecords
  <2>1. session[s].log \in Seq(Items)
    BY <1>3 DEF SessionRecords
  <2>2. Append(session[s].log, item) \in Seq(Items)
    BY <1>5, <2>1
  <2> QED
    BY <1>3, <2>2 DEF SessionRecords
<1>7. SessionShapes'
  BY <1>4, <1>6 DEF SessionShapes
<1> QED
  BY <1>4, <1>5, <1>7

Shapes == SittingInv /\ OuterShapes

LEMMA LastIs ==
  ASSUME NEW n \in Nat, NEW x, InFlight(x, n)
  PROVE  /\ x.transcript[Len(x.transcript)] = Operator(LastMessage(x))
         /\ LastMessage(x) \in 1..n
<1>1. PICK m \in 1..n : x.transcript[Len(x.transcript)] = Operator(m)
  BY DEF InFlight
<1>2. LastMessage(x) = m
  BY <1>1 DEF LastMessage, Operator
<1> QED
  BY <1>1, <1>2

\* The message taken is one the operator sent, and the session's last.
LEMMA SendTakes ==
  ASSUME SittingInv, SessionShapes, NEW f \in Follows, follow[f].at = "send",
         NEW s, s = follow[f].mine.session, session[s].at = "idle",
         session' = [session EXCEPT ![s].at = "busy",
                                    ![s].took = Append(@, LastMessage(follow[f].mine))]
  PROVE  /\ s \in Sessions /\ SessionShapes' /\ LastMessage(follow[f].mine) \in 1..sent
         /\ \A r \in Sessions \ {s} : session'[r] = session[r]
         /\ session'[s].at = "busy" /\ session'[s].log = session[s].log
         /\ session'[s].turns = session[s].turns
         /\ session'[s].took = Append(session[s].took, LastMessage(follow[f].mine))
<1> DEFINE x == follow[f].mine
           m == LastMessage(x)
<1>1. /\ Placed(follow[f], sent) /\ x \in Sittings /\ sent \in Nat
  BY ThreadIs, SentType DEF SittingInv, Threads
<1>2. InFlight(x, sent) /\ x.session # None
  BY <1>1 DEF Placed, Idle, WithSession
<1>3. s \in Sessions
  BY <1>1, <1>2 DEF Sittings
<1>4. m \in 1..sent
  BY <1>1, <1>2, LastIs
<1>5. session[s] \in SessionRecords
  BY <1>3 DEF SessionShapes
<1> HIDE DEF m
<1>6. Append(session[s].took, m) \in Seq(Nat)
  <2>1. session[s].took \in Seq(Nat) /\ m \in Nat
    BY <1>1, <1>4, <1>5 DEF SessionRecords
  <2> QED
    BY <2>1
<1> DEFINE y == [session[s] EXCEPT !.at = "busy", !.took = Append(@, m)]
<1>7. /\ y \in SessionRecords /\ y.at = "busy" /\ y.took = Append(session[s].took, m)
      /\ y.log = session[s].log /\ y.turns = session[s].turns
  BY <1>5, <1>6 DEF SessionRecords
<1>8. session' = [session EXCEPT ![s] = y]
  BY DEF m
<1> HIDE DEF y
<1>9. \A r \in Sessions : session'[r] = IF r = s THEN y ELSE session[r]
  BY <1>3, <1>8 DEF SessionShapes
<1>10. SessionShapes'
  BY <1>3, <1>7, <1>8 DEF SessionShapes
<1> QED
  BY <1>3, <1>4, <1>7, <1>9, <1>10 DEF m

LEMMA CreateMakes ==
  ASSUME SessionShapes, FreeSessions # {}, NEW e \in Envs \cup {None},
         session' = [session EXCEPT ![NextSession] = NewSession(e)]
  PROVE  /\ SessionShapes' /\ NextSession \in Sessions /\ session[NextSession].at = "none"
         /\ \A r \in Sessions \ {NextSession} : session'[r] = session[r]
         /\ session'[NextSession].at = "idle" /\ session'[NextSession].log = << >>
         /\ session'[NextSession].turns = 0 /\ session'[NextSession].took = << >>
<1> DEFINE s == NextSession
           y == NewSession(e)
<1>1. s \in Sessions /\ session[s].at = "none"
  BY NextSessionFree
<1>2. y \in SessionRecords /\ y.at = "idle" /\ y.log = << >> /\ y.turns = 0 /\ y.took = << >>
  BY NewSessionIs
<1>3. session' = [session EXCEPT ![s] = y]
  OBVIOUS
<1> HIDE DEF s, y
<1>4. SessionShapes' /\ \A r \in Sessions : session'[r] = IF r = s THEN y ELSE session[r]
  BY <1>1, <1>2, <1>3 DEF SessionShapes
<1> QED
  BY <1>1, <1>2, <1>4 DEF s

LEMMA OuterKept ==
  ASSUME OuterShapes, UNCHANGED <<pod, env, session, coming>>,
         closing' = closing \/ closing' \subseteq Closings,
         strays' = strays \/ strays' \subseteq Sessions,
         faults' = faults \/ (faults < MaxFaults /\ faults' = faults + 1)
  PROVE  OuterShapes'
<1>1. faults' \in 0..MaxFaults
  BY BoundsType DEF OuterShapes
<1> QED
  BY <1>1 DEF OuterShapes

LEMMA WritesOuter ==
  ASSUME OuterShapes, NEW f, NEW x, NEW t, Writes(f, x, t) PROVE OuterShapes'
BY OuterKept DEF Writes, outside

LEMMA HearsOuter == ASSUME OuterShapes, NEW f, NEW t, Hears(f, t) PROVE OuterShapes'
BY OuterKept DEF Hears, outside

LEMMA ClosedOuter ==
  ASSUME Shapes, NEW x \in Sittings, NEW by \in Follows \cup {None}, NEW stop \in BOOLEAN
  PROVE  /\ closing \cup ToClose(x, by, stop) \subseteq Closings
         /\ strays \cup LeftBehind(x) \subseteq Sessions
<1>1. x.session \in Sessions \cup {None}
  BY DEF Sittings
<1> QED
  BY <1>1, ToCloseIs DEF Shapes, OuterShapes, LeftBehind

LEMMA RequestsOuter ==
  ASSUME Shapes, NEW p \in Pods, Start(p) \/ Send(p) \/ TakeOver(p) PROVE OuterShapes'
BY OuterKept DEF Start, Send, BeginsTurn, TakeOver, Takeable, outside, Shapes

LEMMA ClearsOuter ==
  ASSUME Shapes, StartClears \/ End \/ Rest PROVE OuterShapes'
<1>1. /\ closing' = closing \cup ToClose(file, None, TRUE)
      /\ strays' = strays \cup LeftBehind(file)
      /\ UNCHANGED <<pod, env, session, coming, faults>>
  BY DEF StartClears, End, Clears, Rest, outside
<1>2. file \in Sittings
  BY DEF Shapes, SittingInv, FileShapes
<1> QED
  BY <1>1, <1>2, ClosedOuter, OuterKept DEF Shapes

LEMMA FollowOuter ==
  ASSUME Shapes, NEW f \in Follows, FollowSteps(f) PROVE OuterShapes'
<1> DEFINE t == follow[f]
<1>1. t \in Threads /\ Placed(t, sent) /\ t.mine \in Sittings /\ SessionShapes
  BY ThreadIs DEF Shapes, Threads, OuterShapes, SessionShapes
<1>2. CASE FollowBegins(f)
  BY <1>2, WritesOuter, OuterKept DEF FollowBegins, outside, Shapes
<1>3. CASE FollowPicks(f) \/ FollowReadies(f) \/ FollowHearsStart(f) \/ FollowAsks(f)
  BY <1>3, HearsOuter DEF FollowPicks, FollowReadies, FollowHearsStart, FollowAsks, Shapes
<1>4. CASE \/ FollowTakes(f) \/ FollowRestarts(f) \/ FollowIsCreating(f) \/ FollowRecords(f)
           \/ FollowResumes(f) \/ FollowMarksBusy(f) \/ FollowReads(f) \/ FollowAnswers(f)
  BY <1>4, WritesOuter, HearsOuter
  DEF FollowTakes, FollowRestarts, FollowIsCreating, FollowRecords, FollowResumes,
      FollowMarksBusy, FollowReads, FollowAnswers, Shapes
<1>5. CASE FollowStarts(f)
  <2>1. t.mine.env \in Envs
    BY <1>1, <1>5 DEF FollowStarts, Placed, WithoutSession, Sittings
  <2> QED
    BY <1>5, <2>1 DEF FollowStarts, Goes, Shapes, OuterShapes
<1>6. CASE FollowStops(f)
  BY <1>6, OuterKept DEF FollowStops, outside, Shapes
<1>7. CASE FollowCreates(f)
  <2>1. CASE Hears(f, Fails(t, "lost"))
    BY <2>1, HearsOuter DEF Shapes
  <2>2. CASE ~Hears(f, Fails(t, "lost"))
    <3>1. /\ FreeSessions # {}
              /\ session' = [session EXCEPT ![NextSession] = NewSession(t.mine.env)]
          /\ UNCHANGED <<pod, closing, env, coming>>
          /\ strays' = strays \/ strays' = strays \cup {NextSession}
          /\ faults' = faults \/ (faults < MaxFaults /\ faults' = faults + 1)
      BY <1>7, <2>2 DEF FollowCreates
    <3>2. t.mine.env \in Envs \cup {None}
      BY <1>1 DEF Sittings
    <3>3. SessionShapes' /\ NextSession \in Sessions
      BY <1>1, <3>1, <3>2, CreateMakes
    <3>4. faults' \in 0..MaxFaults
      BY <3>1, BoundsType DEF Shapes, OuterShapes
    <3> QED
      BY <3>1, <3>3, <3>4 DEF Shapes, OuterShapes, SessionShapes
  <2> QED
    BY <2>1, <2>2
<1>8. CASE FollowAbandons(f)
  <2> DEFINE made == [t.mine EXCEPT !.session = t.got]
             stop == file.id # t.id
  <2>1. t.got \in Sessions \cup {None}
    BY <1>1, <1>8 DEF FollowAbandons, Placed
  <2>2. made \in Sittings
    BY <1>1, <2>1 DEF Sittings
  <2>3. closing' = closing \cup ToClose(made, f, stop) /\ UNCHANGED <<pod, outside, strays, faults>>
    BY <1>8 DEF FollowAbandons
  <2>4. stop \in BOOLEAN
    OBVIOUS
  <2> HIDE DEF made, stop
  <2>5. closing' \subseteq Closings
    BY <2>2, <2>3, <2>4, ClosedOuter
  <2> QED
    BY <2>3, <2>5, OuterKept DEF outside, Shapes
<1>9. CASE FollowSends(f)
  <2>1. CASE \E u : Hears(f, u)
    BY <2>1, HearsOuter DEF Shapes
  <2>2. CASE ~ \E u : Hears(f, u)
    <3> DEFINE s == t.mine.session
    <3>1. /\ t.at = "send" /\ session[s].at = "idle"
          /\ session' = [session EXCEPT ![s].at = "busy", ![s].took = Append(@,
              LastMessage(t.mine))]
          /\ UNCHANGED <<pod, closing, env, coming, strays>>
          /\ faults' = faults \/ (faults < MaxFaults /\ faults' = faults + 1)
      BY <1>9, <2>2 DEF FollowSends
    <3>2. SessionShapes'
      BY <1>1, <3>1, SendTakes DEF Shapes
    <3>3. faults' \in 0..MaxFaults
      BY <3>1, BoundsType DEF Shapes, OuterShapes
    <3> QED
      BY <3>1, <3>2, <3>3 DEF Shapes, OuterShapes, SessionShapes
  <2> QED
    BY <2>1, <2>2
<1>10. CASE FollowCatches(f)
  BY <1>10, WritesOuter, OuterKept DEF FollowCatches, outside, Shapes
<1> QED
  BY <1>2, <1>3, <1>4, <1>5, <1>6, <1>7, <1>8, <1>9, <1>10 DEF FollowSteps

LEMMA FaultsOuter ==
  ASSUME Shapes, NEW f \in Follows, CallFails(f) \/ FollowFails(f) \/ FollowBeats(f)
  PROVE  OuterShapes'
<1>1. follow[f] \in Threads /\ Placed(follow[f], sent)
  BY ThreadIs DEF Shapes
<1>2. follow[f].at \in {"record", "abandon"} => follow[f].got \in Sessions \cup {None}
  BY <1>1 DEF Placed
<1>3. FollowFails(f) => strays' \subseteq Sessions
  BY <1>2 DEF FollowFails, Shapes, OuterShapes
<1> QED
  BY <1>3, OuterKept DEF CallFails, FollowFails, FollowBeats, outside, Shapes

LEMMA PodsOuter ==
  ASSUME Shapes, NEW p \in Pods, TasksRefuse(p) \/ Stop(p) \/ Leaves(p) \/ Dies(p)
  PROVE  OuterShapes'
<1>1. pod[p] \in PodRecords
  BY DEF Shapes, OuterShapes
<1>2. faults' = faults \/ faults' \in 0..MaxFaults
  BY BoundsType DEF Shapes, OuterShapes, TasksRefuse, Stop, Leaves, Dies
<1>3. pod' \in [Pods -> PodRecords]
  <2>1. CASE TasksRefuse(p)
    <3>1. [pod[p] EXCEPT !.refusing = TRUE] \in PodRecords
      BY <1>1 DEF PodRecords
    <3> QED
      BY <2>1, <3>1 DEF TasksRefuse, Shapes, OuterShapes
  <2>4. CASE Leaves(p)
    <3>1. PICK f \in pod[p].leave : pod' = [pod EXCEPT ![p].leave = @ \ {f}]
      BY <2>4 DEF Leaves
    <3>2. [pod[p] EXCEPT !.leave = @ \ {f}] \in PodRecords
      BY <1>1 DEF PodRecords
    <3> QED
      BY <3>1, <3>2 DEF Shapes, OuterShapes
  <2>2. CASE Stop(p)
    <3> DEFINE L == {f \in Follows : follow[f].pod = p /\ AtWork(f)}
    <3>1. pod' = [pod EXCEPT ![p].stopped = TRUE, ![p].leave = L] /\ L \in SUBSET Follows
      BY <2>2 DEF Stop
    <3> HIDE DEF L
    <3> QED
      BY <1>1, <3>1 DEF PodRecords, Shapes, OuterShapes
  <2>3. CASE Dies(p)
    BY <2>3 DEF Dies, FreshPod, PodRecords, Shapes, OuterShapes
  <2> QED
    BY <2>1, <2>2, <2>3, <2>4
<1>4. strays' \subseteq Sessions
  <2>1. CASE Dies(p)
    <3> DEFINE made == {f \in {f \in Follows : follow[f].pod = p} : follow[f].at \in {"record",
                       "abandon"}}
    <3>1. strays' = strays \cup ({follow[f].got : f \in made} \ {None})
      BY <2>1 DEF Dies
    <3>2. \A f \in made : follow[f].got \in Sessions \cup {None}
      BY ThreadIs DEF Placed, Shapes
    <3> HIDE DEF made
    <3> QED
      BY <3>1, <3>2 DEF Shapes, OuterShapes
  <2> QED
    BY <2>1 DEF TasksRefuse, Stop, Leaves, Shapes, OuterShapes
<1> QED
  BY <1>2, <1>3, <1>4 DEF Shapes, OuterShapes, TasksRefuse, Stop, Leaves, Dies, outside

LEMMA CloseOuter ==
  ASSUME Shapes, NEW j \in closing, CloseEnds(j) \/ CloseLists(j) \/ CloseStops(j) \/ CloseFails(j)
  PROVE  OuterShapes'
<1>1. j \in Closings /\ SessionShapes
  BY DEF Shapes, OuterShapes, SessionShapes
<1>2. [j EXCEPT !.at = "list"] \in Closings /\ [j EXCEPT !.at = "stop"] \in Closings
  BY <1>1 DEF Closings, Closers
<1>3. CASE CloseEnds(j)
  <2>1. closing' \subseteq Closings /\ Gone({j.session}) /\ UNCHANGED <<pod, env, coming, strays,
         faults>>
    BY <1>2, <1>3 DEF CloseEnds, Shapes, OuterShapes
  <2>2. SessionShapes'
    BY <1>1, <2>1, GoneIs
  <2> QED
    BY <2>1, <2>2 DEF Shapes, OuterShapes, SessionShapes
<1>4. CASE CloseLists(j)
  <2>1. closing' \subseteq Closings /\ UNCHANGED <<pod, outside, strays, faults>>
    BY <1>2, <1>4 DEF CloseLists, Shapes, OuterShapes
  <2> QED
    BY <2>1, OuterKept DEF outside, Shapes
<1>5. CASE CloseStops(j)
  <2>1. /\ closing' \subseteq Closings /\ Gone(InEnv(j.env)) /\ UNCHANGED <<pod, strays, faults>>
        /\ coming' \subseteq Envs
        /\ env' = [env EXCEPT ![j.env] = IF @ = "error" THEN @ ELSE "stopped"]
    BY <1>5 DEF CloseStops, Shapes, OuterShapes
  <2>2. SessionShapes'
    BY <1>1, <2>1, GoneIs
  <2> QED
    BY <2>1, <2>2 DEF Shapes, OuterShapes, SessionShapes
<1>6. CASE CloseFails(j)
  <2>1. /\ closing' \subseteq Closings /\ UNCHANGED <<pod, outside>>
        /\ faults < MaxFaults /\ faults' = faults + 1
    BY <1>6 DEF CloseFails, Shapes, OuterShapes
  <2>2. strays' \subseteq Sessions
    BY <1>1, <1>6 DEF CloseFails, Shapes, OuterShapes, Closings, Closers
  <2> QED
    BY <2>1, <2>2, OuterKept DEF outside, Shapes
<1> QED
  BY <1>3, <1>4, <1>5, <1>6

LEMMA LandsOuter ==
  ASSUME Shapes, NEW e \in Envs, StartLands(e) \/ EnvStops(e) PROVE OuterShapes'
<1>1. SessionShapes
  BY DEF Shapes, OuterShapes, SessionShapes
<1>2. faults' = faults \/ faults' \in 0..MaxFaults
  BY BoundsType DEF Shapes, OuterShapes, StartLands, EnvStops
<1>3. SessionShapes'
  BY <1>1, GoneIs DEF StartLands, EnvStops, SessionShapes
<1>4. /\ env' \in [Envs -> {"running", "stopped", "starting", "error"}]
      /\ coming' \subseteq Envs /\ UNCHANGED <<pod, closing, strays>>
  BY DEF Shapes, OuterShapes, StartLands, EnvStops
<1> QED
  BY <1>2, <1>3, <1>4 DEF Shapes, OuterShapes, SessionShapes

LEMMA WorldOuter ==
  ASSUME Shapes, NEW s \in Sessions, SessionGoes(s) \/ SessionWrites(s) \/ SessionFinishes(s)
  PROVE  OuterShapes'
<1>1. SessionShapes
  BY DEF Shapes, OuterShapes, SessionShapes
<1>2. faults' = faults \/ faults' \in 0..MaxFaults
  BY BoundsType DEF Shapes, OuterShapes, SessionGoes, SessionWrites, SessionFinishes
<1>3. SessionShapes'
  BY <1>1, GoneIs, SessionWritesIs, SessionFinishesIs DEF SessionGoes
<1>4. UNCHANGED <<pod, closing, env, coming, strays>>
  BY DEF SessionGoes, SessionWrites, SessionFinishes
<1> QED
  BY <1>2, <1>3, <1>4 DEF Shapes, OuterShapes, SessionShapes

----------------------------------------------------------------------------
(* The types.                                                              *)

LEMMA NextShapes == ASSUME Shapes, [Next]_vars PROVE Shapes'
<1>1. SittingInv /\ SessionShapes /\ pod \in [Pods -> PodRecords]
  BY DEF Shapes, OuterShapes, SessionShapes
<1>2. CASE UNCHANGED vars
  <2>1. UNCHANGED <<file, follow, sent, pod, env, session, coming, closing, strays, faults>>
    BY <1>2 DEF vars, outside
  <2> QED
    BY <2>1, UntouchedKeep, OuterKept DEF Shapes
<1>3. ASSUME NEW p \in Pods, Start(p) \/ Send(p) \/ TakeOver(p) PROVE Shapes'
  BY <1>1, <1>3, StartKeeps, SendKeeps, TakeOverKeeps, RequestsOuter DEF Shapes
<1>4. ASSUME NEW p \in Pods, TasksRefuse(p) \/ Stop(p) \/ Leaves(p) \/ Dies(p) PROVE Shapes'
  <2>1. SittingInv'
    BY <1>1, <1>4, UntouchedKeep, LeavesKeep, DiesKeep DEF TasksRefuse, Stop
  <2> QED
    BY <1>4, <2>1, PodsOuter DEF Shapes
<1>5. CASE StartClears \/ End \/ Rest
  <2>1. SittingInv'
    BY <1>1, <1>5, ClearsKeepIt, RestKeepsIt DEF StartClears, End
  <2> QED
    BY <1>5, <2>1, ClearsOuter DEF Shapes
<1>6. ASSUME NEW f \in Follows, FollowSteps(f) PROVE Shapes'
  <2>1. SittingInv'
    BY <1>1, <1>6, BeginsKeep, PicksKeep, TakesKeep, ReadiesKeep, RestartsKeep, StartsKeep,
       HearsStartKeeps, StopsKeep, IsCreatingKeeps, CreatesKeep, RecordsKeep, AbandonsKeep,
        AsksKeep,
       SendsKeep, ResumesKeep, MarksBusyKeeps, ReadsKeep, AnswersKeep, CatchesKeep
    DEF FollowSteps
  <2> QED
    BY <1>6, <2>1, FollowOuter DEF Shapes
<1>7. ASSUME NEW f \in Follows, CallFails(f) \/ FollowFails(f) \/ FollowBeats(f) PROVE Shapes'
  BY <1>1, <1>7, CallFailsKeeps, FollowFailsKeeps, BeatsKeep, FaultsOuter DEF Shapes
<1>8. ASSUME NEW j \in closing, CloseEnds(j) \/ CloseLists(j) \/ CloseStops(j) \/ CloseFails(j)
      PROVE  Shapes'
  <2>1. UNCHANGED <<file, follow, sent>>
    BY <1>8 DEF CloseEnds, CloseLists, CloseStops, CloseFails
  <2> QED
    BY <1>1, <1>8, <2>1, UntouchedKeep, CloseOuter DEF Shapes
<1>9. ASSUME NEW e \in Envs, StartLands(e) \/ EnvStops(e) PROVE Shapes'
  <2>1. UNCHANGED <<file, follow, sent>>
    BY <1>9 DEF StartLands, EnvStops
  <2> QED
    BY <1>1, <1>9, <2>1, UntouchedKeep, LandsOuter DEF Shapes
<1>10. ASSUME NEW s \in Sessions, SessionGoes(s) \/ SessionWrites(s) \/ SessionFinishes(s)
              PROVE Shapes'
  <2>1. UNCHANGED <<file, follow, sent>>
    BY <1>10 DEF SessionGoes, SessionWrites, SessionFinishes
  <2> QED
    BY <1>1, <1>10, <2>1, UntouchedKeep, WorldOuter DEF Shapes
<1> QED
  BY <1>2, <1>3, <1>4, <1>5, <1>6, <1>7, <1>8, <1>9, <1>10 DEF Next, CloseSteps

LEMMA InitShapes == ASSUME Init PROVE Shapes
<1> DEFINE t == Thread(None, "none", 0, FALSE)
<1>1. t \in Threads /\ t.at = "none" /\ t.got = None
  <2>1. "none" \in Places /\ 0 \in 0..MaxMessages
    BY BoundsType DEF Places
  <2> QED
    BY <2>1, NoSittingType DEF Thread, Threads, None
<1>2. follow = [f \in Follows |-> t] /\ file = NoSitting /\ sent = 0
  BY DEF Init
<1> HIDE DEF t
<1>3. FileShapes
  BY <1>1, <1>2, NoSittingType, BoundsType DEF FileShapes
<1>4. FileInv /\ HoldInv
  BY <1>1, <1>2, NoSittingIs, NoneIsNone DEF FileInv, HoldInv, AtWork
<1>5. Placed(t, sent)
  BY <1>1 DEF Placed, Idle, WithoutSession, WithSession, Picked, Making
<1>6. OuterShapes
  <2>1. NoSession \in SessionRecords
    BY NewSessionIs DEF NoSession, SessionRecords
  <2>2. FreshPod \in PodRecords
    BY DEF FreshPod, PodRecords
  <2>3. env \in [Envs -> {"running", "stopped", "starting", "error"}]
    BY FoundAssumption DEF Init
  <2>4. session \in [Sessions -> SessionRecords] /\ pod \in [Pods -> PodRecords]
    BY <2>1, <2>2 DEF Init
  <2>5. faults \in 0..MaxFaults /\ closing = {} /\ coming = {} /\ strays = {}
    BY BoundsType DEF Init
  <2> QED
    BY <2>3, <2>4, <2>5 DEF OuterShapes
<1> QED
  BY <1>2, <1>3, <1>4, <1>5, <1>6 DEF Shapes, SittingInv, ThreadInv

\* Each variable of inbox.py's model has its shape, and each follow what its place
\* needs.
THEOREM ShapesHold == Spec => []Shapes
<1>1. Init => Shapes
  BY InitShapes
<1>2. Shapes /\ [Next]_vars => Shapes'
  BY NextShapes
<1> QED
  BY <1>1, <1>2, PTL DEF Spec

\* Only a session that ends its turn, or goes, is crossed by a send.
LEMMA CrossedMoves ==
  ASSUME [Next]_vars PROVE UNCHANGED crossed \/ \E S : Crosses(S)
<1>1. CASE UNCHANGED vars
  BY <1>1 DEF vars, outside
<1>2. ASSUME NEW p \in Pods,
             \/ Start(p) \/ Send(p) \/ TakeOver(p)
             \/ TasksRefuse(p) \/ Stop(p) \/ Leaves(p) \/ Dies(p)
      PROVE  UNCHANGED crossed
  BY <1>2 DEF Start, Send, BeginsTurn, TakeOver, TasksRefuse, Stop, Leaves, Dies, outside
<1>3. ASSUME StartClears \/ End \/ Rest PROVE UNCHANGED crossed
  BY <1>3 DEF StartClears, End, Clears, Rest, outside
<1>4. ASSUME NEW f, NEW x, NEW t, Writes(f, x, t) \/ Hears(f, t) PROVE UNCHANGED crossed
  BY <1>4 DEF Writes, Hears, outside
<1>5. ASSUME NEW f \in Follows, FollowSteps(f) PROVE UNCHANGED crossed
  <2>1. CASE FollowBegins(f) \/ FollowStops(f) \/ FollowAbandons(f) \/ FollowStarts(f)
    BY <1>4, <2>1 DEF FollowBegins, FollowStops, FollowAbandons, FollowStarts, outside
  <2>2. CASE FollowPicks(f) \/ FollowReadies(f) \/ FollowHearsStart(f) \/ FollowAsks(f)
    BY <1>4, <2>2 DEF FollowPicks, FollowReadies, FollowHearsStart, FollowAsks
  <2>3. CASE \/ FollowTakes(f) \/ FollowRestarts(f) \/ FollowIsCreating(f) \/ FollowRecords(f)
             \/ FollowResumes(f) \/ FollowMarksBusy(f)
    BY <1>4, <2>3
    DEF FollowTakes, FollowRestarts, FollowIsCreating, FollowRecords, FollowResumes,
        FollowMarksBusy
  <2>4. CASE FollowReads(f) \/ FollowAnswers(f) \/ FollowCatches(f)
    BY <1>4, <2>4 DEF FollowReads, FollowAnswers, FollowCatches, outside
  <2>5. CASE FollowCreates(f)
    BY <1>4, <2>5 DEF FollowCreates
  <2>6. CASE FollowSends(f)
    BY <1>4, <2>6 DEF FollowSends
  <2> QED
    BY <1>5, <2>1, <2>2, <2>3, <2>4, <2>5, <2>6 DEF FollowSteps
<1>6. ASSUME NEW f \in Follows, CallFails(f) \/ FollowFails(f) \/ FollowBeats(f)
      PROVE  UNCHANGED crossed
  BY <1>6 DEF CallFails, FollowFails, FollowBeats, outside
<1>7. ASSUME NEW j \in closing, CloseEnds(j) \/ CloseLists(j) \/ CloseStops(j) \/ CloseFails(j)
      PROVE  UNCHANGED crossed \/ \E S : Crosses(S)
  BY <1>7 DEF CloseEnds, CloseLists, CloseStops, CloseFails, Gone, outside
<1>8. ASSUME NEW e \in Envs, StartLands(e) \/ EnvStops(e)
      PROVE  UNCHANGED crossed \/ \E S : Crosses(S)
  BY <1>8 DEF StartLands, EnvStops, Gone
<1>9. ASSUME NEW s \in Sessions, SessionGoes(s) \/ SessionWrites(s) \/ SessionFinishes(s)
      PROVE  UNCHANGED crossed \/ \E S : Crosses(S)
  BY <1>9 DEF SessionGoes, SessionWrites, SessionFinishes, Gone
<1> QED
  BY <1>1, <1>2, <1>3, <1>5, <1>6, <1>7, <1>8, <1>9 DEF Next, CloseSteps

\* The history variable is a flag.
CrossedIsFlag == crossed \in BOOLEAN

LEMMA CrossedType == Spec => []CrossedIsFlag
<1>1. Init => CrossedIsFlag
  BY DEF Init, CrossedIsFlag
<1>2. CrossedIsFlag /\ [Next]_vars => CrossedIsFlag'
  BY CrossedMoves DEF Crosses, CrossedIsFlag
<1> QED
  BY <1>1, <1>2, PTL DEF Spec

LEMMA ShapesImplyTypeOK == ASSUME Shapes, CrossedIsFlag PROVE TypeOK
<1>1. /\ file \in Sittings /\ sent \in 0..MaxMessages
      /\ pod \in [Pods -> [refusing : BOOLEAN, stopped : BOOLEAN, leave : SUBSET Follows]]
      /\ env \in [Envs -> {"running", "stopped", "starting", "error"}]
      /\ coming \subseteq Envs /\ strays \subseteq Sessions /\ faults \in 0..MaxFaults
  BY DEF Shapes, SittingInv, FileShapes, OuterShapes, PodRecords
<1>2. \A f \in Follows :
         /\ follow[f].mine \in Sittings
         /\ follow[f].id \in 0..MaxMessages
         /\ file.by = f => file.turn /\ follow[f].at # "none"
         /\ file.by = f /\ AtWork(f) => follow[f].id = file.id
  <2> SUFFICES ASSUME NEW f \in Follows
               PROVE  /\ follow[f].mine \in Sittings
                      /\ follow[f].id \in 0..MaxMessages
                      /\ file.by = f => file.turn /\ follow[f].at # "none"
                      /\ file.by = f /\ AtWork(f) => follow[f].id = file.id
    OBVIOUS
  <2>1. follow[f] \in Threads
    BY ThreadIs DEF Shapes
  <2> QED
    BY <2>1, NoneIsNone DEF Threads, Shapes, SittingInv, FileInv, ThreadInv, HoldInv, AtWork
<1>3. \A j \in closing : j.env \in Envs /\ j.session \in Sessions \cup {None}
  BY DEF Shapes, OuterShapes, Closings, Closers
<1>4. \A s \in Sessions : session[s].at \in {"none", "idle", "busy", "gone"}
  BY DEF Shapes, OuterShapes, SessionRecords
<1> QED
  BY <1>1, <1>2, <1>3, <1>4 DEF TypeOK, CrossedIsFlag

\* Inbox's file, threads, closers and sessions keep their shapes, and a turn held is
\* in flight and held by the follow begun for its sitting (Inbox._write's check).
THEOREM TypeCorrect == Spec => []TypeOK
BY ShapesHold, CrossedType, ShapesImplyTypeOK, PTL

----------------------------------------------------------------------------
(* Whose each session is.                                                  *)

\* The session a thread has made, that is in no sitting yet.
Made(t) == IF t.at \in Making THEN t.got ELSE None
Owned(s) ==
    \/ file.session = s
    \/ \E j \in closing : j.session = s
    \/ \E f \in Follows : Made(follow[f]) = s

\* The file's session is no one else's: no closer has it, no follow is about to
\* record it.
FileOwns ==
    file.session # None =>
        /\ session[file.session].at # "none"
        /\ \A j \in closing : j.session # file.session
        /\ \A f \in Follows : Made(follow[f]) # file.session
\* So is the session a follow has made and not recorded or undone yet.
FollowsOwn ==
    \A f \in Follows : Made(follow[f]) # None =>
        /\ session[Made(follow[f])].at # "none"
        /\ \A j \in closing : j.session # Made(follow[f])
        /\ \A g \in Follows : Made(follow[g]) = Made(follow[f]) => g = f
\* A closer past the session's end has ended it, and no second one has it.
ClosersOwn ==
    \A j \in closing : j.session # None =>
        /\ session[j.session].at # "none"
        /\ j.at # "end" => session[j.session].at = "gone"
        /\ \A k \in closing : k.session = j.session => k = j
\* A follow drops a session from the file only where its send found it gone.
ResumesGone ==
    \A f \in Follows : follow[f].at = "resume" => session[follow[f].mine.session].at = "gone"
RunningOwned ==
    \A s \in Sessions \ strays : session[s].at \in {"idle", "busy"} => Owned(s)

OwnInv == FileOwns /\ FollowsOwn /\ ClosersOwn /\ ResumesGone /\ RunningOwned

\* Sessions are made and go, and nothing brings one back.
Ages ==
    \A s \in Sessions :
        /\ session[s].at # "none" => session'[s].at # "none"
        /\ session[s].at = "gone" => session'[s].at = "gone"
        /\ session'[s].at \in {"idle", "busy"} => session[s].at \in {"idle", "busy"}

LEMMA MadeType ==
  ASSUME SittingInv, NEW f \in Follows PROVE Made(follow[f]) \in Sessions \cup {None}
BY ThreadIs DEF Made, Making, Placed

\* No one comes by a session, and one that no one has any more does not run.
LEMMA NamesGo ==
  ASSUME Shapes, Shapes', OwnInv, Ages, strays \subseteq strays',
         file'.session \in {None, file.session},
         \A f \in Follows : Made(follow'[f]) \in {None, Made(follow[f])},
         closing' \subseteq closing,
         \A f \in Follows : follow'[f].at = "resume" =>
             \/ session'[follow'[f].mine.session].at = "gone"
             \/ follow[f].at = "resume" /\ follow'[f].mine = follow[f].mine,
         \A s \in Sessions \ strays' :
             session'[s].at \in {"idle", "busy"} =>
                /\ file.session = s => file'.session = s
                /\ \A f \in Follows : Made(follow[f]) = s => Made(follow'[f]) = s
                /\ \A j \in closing : j.session = s => j \in closing'
  PROVE  OwnInv'
<1>1. /\ file.session \in Sessions \cup {None}
      /\ \A f \in Follows : Made(follow[f]) \in Sessions \cup {None}
      /\ \A j \in closing : j.session \in Sessions \cup {None}
      /\ \A f \in Follows : follow[f].at = "resume" => follow[f].mine.session \in Sessions
  <2>1. file.session \in Sessions \cup {None}
    BY DEF Shapes, SittingInv, FileShapes, Sittings
  <2>2. \A f \in Follows : follow[f].at = "resume" => follow[f].mine.session \in Sessions
    BY ThreadIs DEF Shapes, Threads, Sittings, Placed, WithSession
  <2> QED
    BY <2>1, <2>2, MadeType DEF Shapes, OuterShapes, Closings, Closers
<1>2. FileOwns'
  BY <1>1 DEF OwnInv, FileOwns, Ages
<1>3. FollowsOwn'
  <2> SUFFICES ASSUME NEW f \in Follows, Made(follow'[f]) # None
               PROVE  /\ session'[Made(follow'[f])].at # "none"
                      /\ \A j \in closing' : j.session # Made(follow'[f])
                      /\ \A g \in Follows : Made(follow'[g]) = Made(follow'[f]) => g = f
    BY DEF FollowsOwn
  <2>1. Made(follow'[f]) = Made(follow[f]) /\ Made(follow[f]) \in Sessions
    BY <1>1
  <2>2. \A g \in Follows : Made(follow'[g]) = Made(follow'[f]) => Made(follow[g]) = Made(follow[f])
    BY <2>1
  <2>3. /\ session[Made(follow[f])].at # "none"
        /\ \A j \in closing : j.session # Made(follow[f])
        /\ \A g \in Follows : Made(follow[g]) = Made(follow[f]) => g = f
    BY <2>1, NoneIsNone DEF OwnInv, FollowsOwn
  <2>4. session'[Made(follow[f])].at # "none"
    BY <2>1, <2>3 DEF Ages
  <2>5. \A j \in closing' : j.session # Made(follow'[f])
    BY <2>1, <2>3
  <2>6. \A g \in Follows : Made(follow'[g]) = Made(follow'[f]) => g = f
    BY <2>2, <2>3
  <2> QED
    BY <2>1, <2>4, <2>5, <2>6
<1>4. ClosersOwn'
  BY ZenonT(40), <1>1 DEF OwnInv, ClosersOwn, Ages
<1>5. ResumesGone'
  <2> SUFFICES ASSUME NEW f \in Follows, follow'[f].at = "resume"
               PROVE  session'[follow'[f].mine.session].at = "gone"
    BY DEF ResumesGone
  <2>1. CASE follow[f].at = "resume" /\ follow'[f].mine = follow[f].mine
    <3> DEFINE s == follow[f].mine.session
    <3>1. s \in Sessions /\ session[s].at = "gone"
      BY <1>1, <2>1 DEF OwnInv, ResumesGone
    <3>2. session'[s].at = "gone"
      BY <3>1 DEF Ages
    <3> QED
      BY <2>1, <3>2
  <2> QED
    BY <2>1
<1>6. RunningOwned'
  <2> SUFFICES ASSUME NEW s \in Sessions \ strays', session'[s].at \in {"idle", "busy"}
               PROVE  \/ file'.session = s
                      \/ \E j \in closing' : j.session = s
                      \/ \E f \in Follows : Made(follow'[f]) = s
    BY DEF RunningOwned, Owned
  <2>1. Owned(s)
    BY DEF OwnInv, RunningOwned, Ages
  <2> QED
    BY <2>1 DEF Owned
<1> QED
  BY <1>2, <1>3, <1>4, <1>5, <1>6 DEF OwnInv

\* A follow goes on, with the session it made if it made one.
LEMMA NamesStay ==
  ASSUME Shapes, Shapes', OwnInv, Ages, strays \subseteq strays', closing' = closing,
         file'.session = file.session, NEW f \in Follows, NEW u, follow' = [follow EXCEPT ![f] = u],
         Made(u) = Made(follow[f]),
         u.at = "resume" =>
             \/ session'[u.mine.session].at = "gone"
             \/ follow[f].at = "resume" /\ u.mine = follow[f].mine
  PROVE  OwnInv'
<1>1. \A g \in Follows : follow'[g] = IF g = f THEN u ELSE follow[g]
  BY DEF Shapes, SittingInv, FileShapes
<1>2. \A g \in Follows : Made(follow'[g]) = Made(follow[g])
  BY <1>1
<1>3. \A g \in Follows : follow'[g].at = "resume" =>
             \/ session'[follow'[g].mine.session].at = "gone"
             \/ follow[g].at = "resume" /\ follow'[g].mine = follow[g].mine
  BY <1>1
<1> QED
  BY <1>2, <1>3, NamesGo

LEMMA SameAges == ASSUME session' = session PROVE Ages
BY DEF Ages

LEMMA HearsOwn ==
  ASSUME Shapes, Shapes', OwnInv, NEW f \in Follows, NEW u, Hears(f, u), Made(u) = Made(follow[f]),
         u.at = "resume" => session[u.mine.session].at = "gone"
  PROVE  OwnInv'
BY NamesStay, SameAges DEF Hears, outside

LEMMA WritesOwn ==
  ASSUME Shapes, Shapes', OwnInv, NEW f \in Follows, NEW x, NEW t, Writes(f, x, t),
         Made(follow[f]) = None, Holds(f) => x.session = file.session,
         t.at \notin Making \cup {"resume"},
         [t EXCEPT !.mine = x].at = t.at
  PROVE  OwnInv'
<1>1. session' = session /\ closing' = closing /\ strays' = strays /\ Ages
  BY SameAges DEF Writes, outside
<1>2. CASE ~Holds(f)
  <2>1. file' = file /\ follow' = [follow EXCEPT ![f] = Over(follow[f])]
    BY <1>2 DEF Writes, Ends
  <2>2. Over(follow[f]).at = "over" /\ Made(Over(follow[f])) = None
    BY OverType DEF Made, Making
  <2> QED
    BY <1>1, <2>1, <2>2, NamesStay
<1>3. CASE Holds(f)
  <2> DEFINE u == IF t.at = "over" THEN t ELSE [t EXCEPT !.mine = x]
  <2>1. file' = x /\ follow' = [follow EXCEPT ![f] = u]
    BY <1>3 DEF Writes
  <2>2. u.at = t.at
    OBVIOUS
  <2> HIDE DEF u
  <2>3. Made(u) = None
    BY <2>2 DEF Made
  <2> QED
    BY <1>1, <1>3, <2>1, <2>2, <2>3, NamesStay
<1> QED
  BY <1>2, <1>3

LEMMA FailsAt == ASSUME NEW t \in Threads, NEW why PROVE Fails(t, why).at = "failed"
BY DEF Fails, Threads

\* The follow hears, with no session of its own before or after.
LEMMA HearsOwn2 ==
  ASSUME Shapes, Shapes', OwnInv, NEW f \in Follows, NEW u, Hears(f, u),
         follow[f].at \notin Making, u.at \notin Making \cup {"resume"}
  PROVE  OwnInv'
BY HearsOwn DEF Made

LEMMA QuietStepsOwn ==
  ASSUME Shapes, Shapes', OwnInv, NEW f \in Follows,
         FollowPicks(f) \/ FollowReadies(f) \/ FollowHearsStart(f) \/ FollowAsks(f)
  PROVE  OwnInv'
<1> DEFINE t == follow[f]
<1>1. t \in Threads
  BY ThreadIs DEF Shapes
<1>2. t.at \notin Making
  BY DEF FollowPicks, FollowReadies, FollowHearsStart, FollowAsks, Making
<1>3. ASSUME NEW why, Hears(f, Fails(t, why)) PROVE OwnInv'
  BY <1>1, <1>2, <1>3, FailsAt, HearsOwn2 DEF Making
<1>4. ASSUME NEW at, at \notin Making \cup {"resume"}, Hears(f, [t EXCEPT !.at = at]) PROVE OwnInv'
  <2>1. [t EXCEPT !.at = at].at = at
    BY <1>1 DEF Threads
  <2> QED
    BY <1>2, <1>4, <2>1, HearsOwn2
<1>5. ASSUME NEW at, at \notin Making \cup {"resume"}, NEW e, Hears(f, [t EXCEPT !.at = at,
             !.got = e])
      PROVE  OwnInv'
  <2>1. [t EXCEPT !.at = at, !.got = e].at = at
    BY <1>1 DEF Threads
  <2> QED
    BY <1>2, <1>5, <2>1, HearsOwn2
<1>6. CASE FollowPicks(f)
  BY <1>3, <1>5, <1>6 DEF FollowPicks, Loses, Making
<1>7. CASE FollowReadies(f)
  BY <1>3, <1>4, <1>7 DEF FollowReadies, Loses, Making
<1>8. CASE FollowHearsStart(f)
  BY <1>3, <1>4, <1>8 DEF FollowHearsStart, Loses, Making
<1>9. CASE FollowAsks(f)
  <2>1. IsSent(t) \notin Making \cup {"resume"}
    BY DEF IsSent, Making
  <2>2. CASE Its(f).at = "gone"
    BY <1>3, <1>9, <2>2 DEF FollowAsks
  <2>3. CASE ~(Its(f).at = "gone")
    <3> DEFINE at == IF Its(f).at = "busy" \/ Its(f).turns > t.mine.turns THEN IsSent(t) ELSE "send"
    <3>1. Hears(f, [t EXCEPT !.at = at])
      BY <1>9, <2>3 DEF FollowAsks
    <3>2. at \notin Making \cup {"resume"}
      BY <2>1 DEF Making
    <3> HIDE DEF at
    <3> QED
      BY <1>4, <3>1, <3>2
  <2> QED
    BY <2>2, <2>3
<1> QED
  BY <1>6, <1>7, <1>8, <1>9

LEMMA EndsOwn ==
  ASSUME Shapes, Shapes', OwnInv, NEW f \in Follows, Ends(f), Made(follow[f]) = None,
         file'.session = file.session, UNCHANGED <<closing, session, strays>>
  PROVE  OwnInv'
<1>1. follow' = [follow EXCEPT ![f] = Over(follow[f])]
  BY DEF Ends
<1>2. Over(follow[f]).at = "over" /\ Made(Over(follow[f])) = None
  BY OverType DEF Made, Making
<1> QED
  BY <1>1, <1>2, SameAges, NamesStay

LEMMA AdvanceAt ==
  ASSUME NEW t, NEW x PROVE Advance(x, t) \notin Making \cup Idle \cup {"resume"}
BY DEF Advance, Making, Idle

\* A step that writes x and goes to the place `at`.
LEMMA WritesToOwn ==
  ASSUME Shapes, Shapes', OwnInv, NEW f \in Follows, NEW x, NEW t \in Threads, NEW at,
         Writes(f, x, [t EXCEPT !.at = at]), at \notin Making \cup {"resume"},
         follow[f].at \notin Making, Holds(f) => x.session = file.session
  PROVE  OwnInv'
<1> DEFINE u == [t EXCEPT !.at = at]
<1>1. u.at = at /\ [u EXCEPT !.mine = x].at = at
  BY DEF Threads
<1>2. Writes(f, x, u)
  OBVIOUS
<1> HIDE DEF u
<1>3. Made(follow[f]) = None
  BY DEF Made
<1> QED
  BY <1>1, <1>2, <1>3, WritesOwn

LEMMA WritesOverOwn ==
  ASSUME Shapes, Shapes', OwnInv, NEW f \in Follows, NEW x, NEW t, Writes(f, x, Over(t)),
         follow[f].at \notin Making, Holds(f) => x.session = file.session
  PROVE  OwnInv'
<1> DEFINE u == Over(t)
<1>1. u.at = "over" /\ u \in Threads
  BY OverType
<1>2. [u EXCEPT !.mine = x].at = u.at
  BY <1>1 DEF Threads
<1>3. Writes(f, x, u)
  OBVIOUS
<1> HIDE DEF u
<1>4. Made(follow[f]) = None
  BY DEF Made
<1> QED
  BY <1>1, <1>2, <1>3, <1>4, WritesOwn DEF Making

LEMMA WritingStepsOwn ==
  ASSUME Shapes, Shapes', OwnInv, NEW f \in Follows,
         FollowBegins(f) \/ FollowTakes(f) \/ FollowRestarts(f) \/ FollowMarksBusy(f)
           \/ FollowReads(f) \/ FollowAnswers(f) \/ FollowCatches(f)
  PROVE  OwnInv'
<1> DEFINE t == follow[f]
<1>1. t \in Threads /\ t.mine \in Sittings /\ Placed(t, sent)
  BY ThreadIs DEF Shapes, Threads
<1>2. t.at \notin Making
  BY DEF FollowBegins, FollowTakes, FollowRestarts, FollowMarksBusy, FollowReads, FollowAnswers,
         FollowCatches, Making
<1>3. file \in Sittings
  BY DEF Shapes, SittingInv, FileShapes
<1>4. CASE FollowBegins(f)
  <2>1. CASE Writes(f, file, [t EXCEPT !.at = Advance(file, t)])
    BY <1>1, <1>2, <2>1, AdvanceAt, WritesToOwn
  <2>2. CASE ~Writes(f, file, [t EXCEPT !.at = Advance(file, t)])
    <3>1. file' = Left(f) /\ Ends(f) /\ UNCHANGED <<closing, session, strays>>
      BY <1>4, <2>2 DEF FollowBegins, outside
    <3>2. Left(f).session = file.session
      BY <1>3 DEF Left, Sittings
    <3>3. Made(t) = None
      BY <1>2 DEF Made
    <3> QED
      BY <3>1, <3>2, <3>3, EndsOwn
  <2> QED
    BY <2>1, <2>2
<1>5. CASE FollowTakes(f)
  <2> DEFINE u == [t EXCEPT !.got = None]
             x == [file EXCEPT !.env = t.got, !.started = t.at = "pickedStopped"]
  <2>1. Writes(f, x, [u EXCEPT !.at = Advance(x, u)])
    BY <1>5 DEF FollowTakes
  <2>2. u \in Threads /\ x.session = file.session
    BY <1>1, <1>3 DEF Threads, Sittings, None
  <2> HIDE DEF u, x
  <2> QED
    BY <1>2, <2>1, <2>2, AdvanceAt, WritesToOwn
<1>6. CASE FollowRestarts(f)
  <2> DEFINE x == [file EXCEPT !.started = TRUE]
  <2>1. Writes(f, x, [t EXCEPT !.at = "start"]) /\ x.session = file.session
    BY <1>3, <1>6 DEF FollowRestarts, Sittings
  <2> HIDE DEF x
  <2> QED
    BY <1>1, <1>2, <2>1, WritesToOwn DEF Making
<1>7. CASE FollowMarksBusy(f)
  <2> DEFINE x == [file EXCEPT !.status = "busy"]
  <2>1. Writes(f, x, [t EXCEPT !.at = "stream"]) /\ x.session = file.session
    BY <1>3, <1>7 DEF FollowMarksBusy, Sittings
  <2>2. "stream" \notin Making \cup {"resume"}
    BY DEF Making
  <2> HIDE DEF x
  <2> QED
    BY <1>1, <1>2, <2>1, <2>2, WritesToOwn
<1>8. CASE FollowReads(f)
  <2> DEFINE s == t.mine.session
             n == t.mine.offset + 1
             x == Kept(file, s, n)
  <2>1. t.at = "stream" /\ t = [t EXCEPT !.at = "stream"]
    BY <1>1, <1>8 DEF FollowReads, Threads
  <2>2. ASSUME Writes(f, x, t) PROVE OwnInv'
    <3>1. x.session = file.session
      <4>1. s \in Sessions /\ n \in Nat
        BY <1>1, <2>1 DEF Placed, WithSession, Sittings
      <4>2. x = Kept(file, s, n)
        OBVIOUS
      <4> HIDE DEF s, n, x
      <4>3. Kept(file, s, n).session = file.session
        BY <1>3, <4>1, KeptIs
      <4> QED
        BY <4>2, <4>3
    <3>2. Writes(f, x, [t EXCEPT !.at = "stream"])
      BY <2>1, <2>2
    <3> HIDE DEF x
    <3> QED
      BY <1>1, <1>2, <3>1, <3>2, WritesToOwn DEF Making
  <2>3. ASSUME Hears(f, Fails(t, "lost")) PROVE OwnInv'
    BY <1>1, <1>2, <2>3, FailsAt, HearsOwn2 DEF Making
  <2>4. ASSUME Hears(f, [t EXCEPT !.at = "answer", !.got = Its(f).turns]) PROVE OwnInv'
    <3> DEFINE u == [t EXCEPT !.at = "answer", !.got = Its(f).turns]
    <3>1. u.at = "answer" /\ Hears(f, u)
      BY <1>1, <2>4 DEF Threads
    <3> HIDE DEF u
    <3> QED
      BY <1>2, <3>1, HearsOwn2 DEF Making
  <2> QED
    BY <1>8, <2>2, <2>3, <2>4 DEF FollowReads
<1>9. CASE FollowAnswers(f)
  <2> DEFINE x == [file EXCEPT !.status = "idle", !.turns = t.got, !.turn = FALSE,
                               !.by = None, !.said = << >>,
                               !.conversation = @ \/ Running(t.mine.session),
                               !.transcript = Append(@, Answer(file.said))]
  <2>1. Writes(f, x, Over(t)) /\ x.session = file.session
    BY <1>3, <1>9 DEF FollowAnswers, Sittings
  <2> HIDE DEF x
  <2> QED
    BY <1>2, <2>1, WritesOverOwn
<1>10. CASE FollowCatches(f)
  <2> DEFINE u == [t EXCEPT !.unsent = FALSE, !.why = "none"]
             x == [file EXCEPT !.status = "lost", !.turn = FALSE, !.by = None, !.said = << >>]
  <2>1. u \in Threads /\ x.session = file.session
    BY <1>1, <1>3 DEF Threads, Sittings
  <2>2. ASSUME Writes(f, x, Over(u)) PROVE OwnInv'
    <3> HIDE DEF x, u
    <3> QED
      BY <1>2, <2>1, <2>2, WritesOverOwn
  <2>3. ASSUME Writes(f, file, [u EXCEPT !.at = Advance(file, u)]) PROVE OwnInv'
    <3> HIDE DEF u
    <3> QED
      BY <1>2, <2>1, <2>3, AdvanceAt, WritesToOwn
  <2>4. ASSUME Ends(f), UNCHANGED <<file, closing, session, strays>> PROVE OwnInv'
    <3>1. Made(t) = None
      BY <1>2 DEF Made
    <3> QED
      BY <2>4, <3>1, EndsOwn
  <2> QED
    BY <1>10, <2>2, <2>3, <2>4 DEF FollowCatches, outside
<1> QED
  BY <1>4, <1>5, <1>6, <1>7, <1>8, <1>9, <1>10

LEMMA StartsOwn ==
  ASSUME Shapes, Shapes', OwnInv, NEW f \in Follows, FollowStarts(f) \/ FollowStops(f) PROVE OwnInv'
<1> DEFINE t == follow[f]
<1>1. t \in Threads /\ Made(t) = None
  BY ThreadIs DEF Shapes, FollowStarts, FollowStops, Made, Making
<1>2. CASE FollowStarts(f)
  <2> DEFINE u == [t EXCEPT !.at = "coming"]
  <2>1. follow' = [follow EXCEPT ![f] = u] /\ UNCHANGED <<file, closing, session, strays>>
    BY <1>2 DEF FollowStarts, Goes
  <2>2. u.at = "coming"
    BY <1>1 DEF Threads
  <2> HIDE DEF u
  <2>3. Made(u) = None
    BY <2>2 DEF Made, Making
  <2> QED
    BY <1>1, <2>1, <2>2, <2>3, SameAges, NamesStay
<1>3. CASE FollowStops(f)
  BY <1>1, <1>3, EndsOwn DEF FollowStops, outside
<1> QED
  BY <1>2, <1>3

LEMMA IsCreatingOwn ==
  ASSUME Shapes, Shapes', OwnInv, NEW f \in Follows, FollowIsCreating(f) PROVE OwnInv'
<1> DEFINE t == follow[f]
<1>1. t \in Threads /\ t.at = "creating" /\ t.got = None
  BY ThreadIs DEF Shapes, FollowIsCreating, Placed, Picked, Making
<1>2. t.at \notin Making
  BY <1>1 DEF Making
<1>3. ASSUME Writes(f, file, [t EXCEPT !.at = "create"]) PROVE OwnInv'
  <2>1. "create" \notin Making \cup {"resume"}
    BY DEF Making
  <2> QED
    BY <1>1, <1>2, <1>3, <2>1, WritesToOwn
<1>4. ASSUME Hears(f, [t EXCEPT !.at = "abandon"]) PROVE OwnInv'
  <2> DEFINE u == [t EXCEPT !.at = "abandon"]
  <2>1. u.at = "abandon" /\ u.got = None /\ Hears(f, u)
    BY <1>1, <1>4 DEF Threads
  <2> HIDE DEF u
  <2>2. Made(u) = None /\ Made(t) = None
    BY <1>2, <2>1 DEF Made
  <2> QED
    BY <2>1, <2>2, HearsOwn
<1> QED
  BY <1>3, <1>4 DEF FollowIsCreating

\* A session made is its maker's, or a stray; no one has had it before.
LEMMA CreatesOwn ==
  ASSUME Shapes, Shapes', OwnInv, NEW f \in Follows, FollowCreates(f) PROVE OwnInv'
<1> DEFINE t == follow[f]
           s == NextSession
<1>1. t \in Threads /\ t.mine \in Sittings /\ t.at = "create"
  BY ThreadIs DEF Shapes, Threads, FollowCreates
<1>2. Made(t) = None /\ t.at \notin Making
  BY <1>1 DEF Made, Making
<1>3. CASE Hears(f, Fails(t, "lost"))
  BY <1>1, <1>2, <1>3, FailsAt, HearsOwn2 DEF Making
<1>4. CASE ~Hears(f, Fails(t, "lost"))
  <2>1. /\ FreeSessions # {} /\ session' = [session EXCEPT ![s] = NewSession(t.mine.env)]
        /\ UNCHANGED <<file, closing>>
        /\ \/ /\ follow' = [follow EXCEPT ![f].at = "record", ![f].got = s, ![f].unsent = TRUE]
              /\ strays' = strays
           \/ /\ strays' = strays \cup {s}
              /\ follow' = [follow EXCEPT ![f] = Fails(t, "again")]
    BY <1>4 DEF FollowCreates
  <2>2. t.mine.env \in Envs \cup {None} /\ SessionShapes
    BY <1>1 DEF Sittings, Shapes, OuterShapes, SessionShapes
  <2>3. /\ s \in Sessions /\ session[s].at = "none"
        /\ \A r \in Sessions \ {s} : session'[r] = session[r]
        /\ session'[s].at = "idle"
    BY <2>1, <2>2, CreateMakes
  <2>4. /\ file.session # s
        /\ \A j \in closing : j.session # s
        /\ \A g \in Follows : Made(follow[g]) # s
    BY <2>3, NoneIsNone DEF OwnInv, FileOwns, FollowsOwn, ClosersOwn
  <2>5. PICK u : /\ follow' = [follow EXCEPT ![f] = u]
                 /\ u.at # "resume"
                 /\ \/ Made(u) = s /\ strays' = strays
                    \/ Made(u) = None /\ strays' = strays \cup {s}
    <3>1. CASE strays' = strays /\ follow' = [follow EXCEPT ![f].at = "record", ![f].got = s,
               ![f].unsent = TRUE]
      <4> DEFINE u == [t EXCEPT !.at = "record", !.got = s, !.unsent = TRUE]
      <4>1. follow' = [follow EXCEPT ![f] = u]
        BY <3>1 DEF Shapes, SittingInv, FileShapes
      <4>2. u.at = "record" /\ u.got = s
        BY <1>1 DEF Threads
      <4> HIDE DEF u
      <4>3. Made(u) = s
        BY <4>2 DEF Made, Making
      <4> QED
        BY <3>1, <4>1, <4>2, <4>3
    <3>2. CASE strays' = strays \cup {s} /\ follow' = [follow EXCEPT ![f] = Fails(t, "again")]
      <4>1. Fails(t, "again").at = "failed"
        BY <1>1, FailsAt
      <4>2. Made(Fails(t, "again")) = None
        BY <4>1 DEF Made, Making
      <4> QED
        BY <3>2, <4>1, <4>2
    <3> QED
      BY <2>1, <3>1, <3>2
  <2> HIDE DEF s
  <2>6. \A g \in Follows : follow'[g] = IF g = f THEN u ELSE follow[g]
    BY <2>5 DEF Shapes, SittingInv, FileShapes
  <2>7. \A g \in Follows : Made(follow'[g]) = IF g = f THEN Made(u) ELSE Made(follow[g])
    BY <2>6
  <2>8. /\ file.session \in Sessions \cup {None}
        /\ \A g \in Follows : Made(follow[g]) \in Sessions \cup {None}
        /\ \A j \in closing : j.session \in Sessions \cup {None}
    BY MadeType DEF Shapes, SittingInv, FileShapes, Sittings, OuterShapes, Closings, Closers
  <2>9. FileOwns'
    BY <2>1, <2>3, <2>4, <2>5, <2>7, <2>8, NoneIsNone DEF OwnInv, FileOwns
  <2>10. FollowsOwn'
    <3> SUFFICES ASSUME NEW g \in Follows, Made(follow'[g]) # None
                 PROVE  /\ session'[Made(follow'[g])].at # "none"
                        /\ \A j \in closing : j.session # Made(follow'[g])
                        /\ \A h \in Follows : Made(follow'[h]) = Made(follow'[g]) => h = g
      BY <2>1 DEF FollowsOwn
    <3>1. CASE g = f
      BY <2>3, <2>4, <2>5, <2>7, <3>1
    <3>2. CASE g # f
      <4>1. /\ Made(follow'[g]) = Made(follow[g]) /\ Made(follow[g]) \in Sessions
            /\ Made(follow[g]) # s
        BY <2>4, <2>7, <2>8, <3>2
      <4>2. /\ session[Made(follow[g])].at # "none"
            /\ \A j \in closing : j.session # Made(follow[g])
            /\ \A h \in Follows : Made(follow[h]) = Made(follow[g]) => h = g
        BY <4>1, NoneIsNone DEF OwnInv, FollowsOwn
      <4> QED
        BY <2>3, <2>5, <2>7, <4>1, <4>2
    <3> QED
      BY <3>1, <3>2
  <2>11. ClosersOwn'
    BY <2>1, <2>3, <2>4, <2>8, NoneIsNone DEF OwnInv, ClosersOwn
  <2>12. ResumesGone'
    <3> SUFFICES ASSUME NEW g \in Follows, follow'[g].at = "resume"
                 PROVE  session'[follow'[g].mine.session].at = "gone"
      BY DEF ResumesGone
    <3>1. g # f /\ follow'[g] = follow[g]
      BY <2>5, <2>6
    <3>2. follow[g].mine.session \in Sessions
      BY <3>1, ThreadIs DEF Shapes, Threads, Sittings, Placed, WithSession
    <3>3. session[follow[g].mine.session].at = "gone"
      BY <3>1 DEF OwnInv, ResumesGone
    <3> QED
      BY <2>3, <3>1, <3>2, <3>3
  <2>13. RunningOwned'
    <3> SUFFICES ASSUME NEW r \in Sessions \ strays', session'[r].at \in {"idle", "busy"}
                 PROVE  \/ file.session = r
                        \/ \E j \in closing : j.session = r
                        \/ \E g \in Follows : Made(follow'[g]) = r
      BY <2>1 DEF RunningOwned, Owned
    <3>1. CASE r = s
      BY <2>5, <2>7, <3>1
    <3>2. CASE r # s
      <4>1. Owned(r)
        BY <2>3, <2>5, <3>2 DEF OwnInv, RunningOwned
      <4>2. \A g \in Follows : Made(follow[g]) = r => Made(follow'[g]) = r
        BY <1>2, <2>7, NoneIsNone
      <4> QED
        BY <4>1, <4>2 DEF Owned
    <3> QED
      BY <3>1, <3>2
  <2> QED
    BY <2>9, <2>10, <2>11, <2>12, <2>13 DEF OwnInv
<1> QED
  BY <1>3, <1>4

\* The session made is the sitting's.
LEMMA RecordsOwn ==
  ASSUME Shapes, Shapes', OwnInv, NEW f \in Follows, FollowRecords(f) PROVE OwnInv'
<1> DEFINE t == follow[f]
           s == t.got
<1>1. t \in Threads /\ t.at = "record" /\ s \in Sessions /\ t.mine.session = None
  BY ThreadIs DEF Shapes, FollowRecords, Placed, WithoutSession
<1>2. CASE ~Holds(f)
  <2> DEFINE u == [t EXCEPT !.at = "abandon"]
  <2>1. u.at = "abandon" /\ u.got = t.got /\ Hears(f, u)
    BY <1>1, <1>2 DEF Threads, FollowRecords
  <2> HIDE DEF u
  <2>2. Made(u) = Made(t)
    BY <1>1, <2>1 DEF Made, Making
  <2> QED
    BY <2>1, <2>2, HearsOwn
<1>3. CASE Holds(f)
  <2> DEFINE x == [file EXCEPT !.session = s, !.offset = 0, !.turns = 0]
             v == [t EXCEPT !.got = None]
             u == [[v EXCEPT !.at = "send"] EXCEPT !.mine = x]
  <2>1. Writes(f, x, [v EXCEPT !.at = "send"])
    BY <1>3 DEF FollowRecords
  <2>2. [v EXCEPT !.at = "send"].at = "send" /\ u.at = "send"
    BY <1>1 DEF Threads, None
  <2>3. /\ file' = x /\ follow' = [follow EXCEPT ![f] = u]
        /\ UNCHANGED <<closing, session, strays>>
    BY <1>3, <2>1, <2>2 DEF Writes, outside
  <2>4. x.session = s
    BY DEF Shapes, SittingInv, FileShapes, Sittings
  <2>5. Made(t) = s
    BY <1>1 DEF Made, Making
  <2>6. /\ session[s].at # "none"
        /\ \A j \in closing : j.session # s
        /\ \A g \in Follows : Made(follow[g]) = s => g = f
    BY <1>1, <2>5, NoneIsNone DEF OwnInv, FollowsOwn
  <2>7. file.session = None
    BY <1>1, <1>3, HolderHas DEF Shapes, AtWork
  <2> HIDE DEF x, u, s
  <2>8. Made(u) = None
    BY <2>2 DEF Made, Making
  <2>9. \A g \in Follows : follow'[g] = IF g = f THEN u ELSE follow[g]
    BY <2>3 DEF Shapes, SittingInv, FileShapes
  <2>10. \A g \in Follows : Made(follow'[g]) = IF g = f THEN None ELSE Made(follow[g])
    BY <2>8, <2>9
  <2>11. FileOwns'
    BY <1>1, <2>3, <2>4, <2>6, <2>10, NoneIsNone DEF FileOwns
  <2>12. FollowsOwn'
    <3> SUFFICES ASSUME NEW g \in Follows, Made(follow'[g]) # None
                 PROVE  /\ session[Made(follow'[g])].at # "none"
                        /\ \A j \in closing : j.session # Made(follow'[g])
                        /\ \A h \in Follows : Made(follow'[h]) = Made(follow'[g]) => h = g
      BY <2>3 DEF FollowsOwn
    <3>1. Made(follow'[g]) = Made(follow[g])
      BY <2>10
    <3> QED
      BY <2>10, <3>1 DEF OwnInv, FollowsOwn
  <2>13. ClosersOwn'
    BY <2>3 DEF OwnInv, ClosersOwn
  <2>14. ResumesGone'
    BY <2>2, <2>3, <2>9 DEF OwnInv, ResumesGone
  <2>15. RunningOwned'
    <3> SUFFICES ASSUME NEW r \in Sessions \ strays, session[r].at \in {"idle", "busy"}
                 PROVE  \/ file'.session = r
                        \/ \E j \in closing : j.session = r
                        \/ \E g \in Follows : Made(follow'[g]) = r
      BY <2>3 DEF RunningOwned, Owned
    <3>1. Owned(r)
      BY DEF OwnInv, RunningOwned
    <3>2. CASE r = s
      BY <2>3, <2>4, <3>2
    <3>3. CASE r # s
      BY <2>5, <2>7, <2>10, <3>1, <3>3, NoneIsNone DEF Owned
    <3> QED
      BY <3>2, <3>3
  <2> QED
    BY <2>11, <2>12, <2>13, <2>14, <2>15 DEF OwnInv
<1> QED
  BY <1>2, <1>3

LEMMA SendsOwn ==
  ASSUME Shapes, Shapes', OwnInv, NEW f \in Follows, FollowSends(f) PROVE OwnInv'
<1> DEFINE t == follow[f]
           s == t.mine.session
<1>1. t \in Threads /\ t.mine \in Sittings /\ t.at = "send" /\ SittingInv /\ SessionShapes
  BY ThreadIs DEF Shapes, Threads, FollowSends, OuterShapes, SessionShapes
<1>2. Made(t) = None /\ t.at \notin Making
  BY <1>1 DEF Made, Making
<1>3. ASSUME NEW why, Hears(f, Fails(t, why)) PROVE OwnInv'
  BY <1>1, <1>2, <1>3, FailsAt, HearsOwn2 DEF Making
<1>4. ASSUME Hears(f, [t EXCEPT !.at = "resume", !.resumed = TRUE]), session[s].at = "gone"
      PROVE  OwnInv'
  <2> DEFINE u == [t EXCEPT !.at = "resume", !.resumed = TRUE]
  <2>1. u.at = "resume" /\ u.mine = t.mine /\ Hears(f, u)
    BY <1>1, <1>4 DEF Threads
  <2> HIDE DEF u
  <2>2. Made(u) = None
    BY <2>1 DEF Made, Making
  <2> QED
    BY <1>2, <1>4, <2>1, <2>2, HearsOwn
<1>5. ASSUME session[s].at = "idle",
             session' = [session EXCEPT ![s].at = "busy", ![s].took = Append(@,
              LastMessage(t.mine))]
      PROVE  Ages
  <2>1. /\ s \in Sessions /\ session'[s].at = "busy"
        /\ \A r \in Sessions \ {s} : session'[r] = session[r]
    BY ZenonT(40), <1>1, <1>5, SendTakes
  <2> QED
    BY <1>5, <2>1 DEF Ages
<1>6. ASSUME session[s].at = "idle", UNCHANGED <<file, closing, strays>>,
             session' = [session EXCEPT ![s].at = "busy", ![s].took = Append(@,
              LastMessage(t.mine))],
             follow' = [follow EXCEPT ![f].at = IsSent(t), ![f].unsent = FALSE]
      PROVE  OwnInv'
  <2> DEFINE at == IsSent(t)
             u == [t EXCEPT !.at = at, !.unsent = FALSE]
  <2>1. at \in {"isBusy", "stream"}
    BY DEF IsSent
  <2>2. follow' = [follow EXCEPT ![f] = u]
    BY <1>6 DEF Shapes, SittingInv, FileShapes
  <2> HIDE DEF at
  <2>3. u.at = at
    BY <1>1 DEF Threads
  <2>4. u.at # "resume" /\ Made(u) = Made(t)
    BY <1>2, <2>1, <2>3 DEF Made, Making
  <2>5. Ages
    BY <1>5, <1>6
  <2> HIDE DEF u
  <2> QED
    BY <1>6, <2>2, <2>4, <2>5, NamesStay
<1>7. Fails(t, "again").at = "failed"
  BY <1>1, FailsAt
<1>8. \/ session[s].at = "gone" /\ (\/ Hears(f, Fails(t, "lost"))
                                   \/ Hears(f, [t EXCEPT !.at = "resume", !.resumed = TRUE]))
      \/ Hears(f, Fails(t, "again"))
      \/ /\ session[s].at = "idle" /\ UNCHANGED <<file, closing, strays>>
         /\ session' = [session EXCEPT ![s].at = "busy", ![s].took = Append(@, LastMessage(t.mine))]
         /\ \/ follow' = [follow EXCEPT ![f].at = IsSent(t), ![f].unsent = FALSE]
            \/ follow' = [follow EXCEPT ![f] = Fails(t, "again")]
  BY DEF FollowSends
<1>9. CASE Hears(f, Fails(t, "lost")) \/ Hears(f, Fails(t, "again"))
  BY <1>3, <1>9
<1>10. ASSUME session[s].at = "idle", UNCHANGED <<file, closing, strays>>,
              session' = [session EXCEPT ![s].at = "busy", ![s].took = Append(@,
               LastMessage(t.mine))],
              follow' = [follow EXCEPT ![f] = Fails(t, "again")]
       PROVE  OwnInv'
  <2> DEFINE u == Fails(t, "again")
  <2>1. u.at # "resume" /\ Made(u) = Made(t)
    BY <1>2, <1>7 DEF Made, Making
  <2>2. follow' = [follow EXCEPT ![f] = u]
    BY <1>10
  <2>3. Ages
    BY <1>5, <1>10
  <2> HIDE DEF u
  <2> QED
    BY <1>10, <2>1, <2>2, <2>3, NamesStay
<1> QED
  BY <1>4, <1>6, <1>8, <1>9, <1>10

\* The session it drops is gone.
LEMMA ResumesOwn ==
  ASSUME Shapes, Shapes', OwnInv, NEW f \in Follows, FollowResumes(f) PROVE OwnInv'
<1> DEFINE t == follow[f]
           x == [file EXCEPT !.session = None]
           at == Advance(x, t)
           u == [[t EXCEPT !.at = at] EXCEPT !.mine = x]
<1>1. t \in Threads /\ t.mine \in Sittings /\ t.at = "resume" /\ t.mine.session \in Sessions
  BY ThreadIs DEF Shapes, Threads, FollowResumes, Placed, WithSession, Sittings
<1>2. Made(t) = None /\ session[t.mine.session].at = "gone"
  BY <1>1 DEF Made, Making, OwnInv, ResumesGone
<1>3. /\ Writes(f, x, [t EXCEPT !.at = at]) /\ UNCHANGED <<closing, session, strays>>
  BY DEF FollowResumes, Writes, outside
<1>4. CASE ~Holds(f)
  <2>1. Ends(f) /\ file' = file
    BY <1>3, <1>4 DEF Writes
  <2> QED
    BY <1>2, <1>3, <2>1, EndsOwn
<1>5. CASE Holds(f)
  <2>1. at \notin Making \cup {"resume", "over"}
    BY AdvanceAt DEF Idle
  <2>2. [t EXCEPT !.at = at].at = at /\ u.at = at
    <3> HIDE DEF at
    <3> QED
      BY <1>1 DEF Threads
  <2>3. file' = x /\ follow' = [follow EXCEPT ![f] = u]
    BY <1>3, <1>5, <2>1, <2>2 DEF Writes
  <2>4. x.session = None
    BY DEF Shapes, SittingInv, FileShapes, Sittings
  <2>5. file.session = t.mine.session
    BY <1>1, <1>5, HolderHas DEF Shapes, AtWork
  <2> HIDE DEF x, at, u
  <2>6. \A g \in Follows : follow'[g] = IF g = f THEN u ELSE follow[g]
    BY <2>3 DEF Shapes, SittingInv, FileShapes
  <2>7. \A g \in Follows : Made(follow'[g]) = Made(follow[g])
    <3>1. Made(u) = None
      BY <2>1, <2>2 DEF Made
    <3> QED
      BY <1>2, <2>6, <3>1
  <2>8. \A g \in Follows : follow'[g].at = "resume" => follow'[g] = follow[g]
    BY <2>1, <2>2, <2>6
  <2>9. Ages
    BY <1>3, SameAges
  <2>10. \A s \in Sessions \ strays' : session'[s].at \in {"idle", "busy"} => file.session # s
    BY <1>2, <1>3, <2>5
  <2>11. file'.session \in {None, file.session}
    BY <2>3, <2>4
  <2> QED
    BY <1>3, <2>7, <2>8, <2>9, <2>10, <2>11, NamesGo
<1> QED
  BY <1>4, <1>5

\* A session that is let go of is closed, or is a stray.
LEMMA ClosesOwn ==
  ASSUME Shapes, Shapes', OwnInv, session' = session, NEW s \in Sessions \cup {None},
         s # None => session[s].at # "none" /\ \A j \in closing : j.session # s,
         NEW C, closing' = closing \cup C,
         \A j \in C : j.session # None => j.session = s /\ j.at = "end",
         \A j, k \in C : j = k,
         file'.session \in {None, file.session}, file'.session # None => file'.session # s,
         \A g \in Follows : /\ Made(follow'[g]) \in {None, Made(follow[g])}
                            /\ Made(follow'[g]) # None => Made(follow'[g]) # s
                            /\ follow'[g].at = "resume" => follow'[g] = follow[g],
         file'.session = file.session \/ file.session = s,
         \A g \in Follows : Made(follow'[g]) = Made(follow[g]) \/ Made(follow[g]) = s,
         s # None => s \in strays' \/ \E j \in C : j.session = s,
         strays \subseteq strays'
  PROVE  OwnInv'
<1>1. /\ file.session \in Sessions \cup {None}
      /\ \A g \in Follows : Made(follow[g]) \in Sessions \cup {None}
      /\ \A j \in closing : j.session \in Sessions \cup {None}
  BY MadeType DEF Shapes, SittingInv, FileShapes, Sittings, OuterShapes, Closings, Closers
<1>2. FileOwns'
  BY <1>1, NoneIsNone DEF OwnInv, FileOwns
<1>3. FollowsOwn'
  <2> SUFFICES ASSUME NEW g \in Follows, Made(follow'[g]) # None
               PROVE  /\ session[Made(follow'[g])].at # "none"
                      /\ \A j \in closing' : j.session # Made(follow'[g])
                      /\ \A h \in Follows : Made(follow'[h]) = Made(follow'[g]) => h = g
    BY DEF FollowsOwn
  <2>1. Made(follow'[g]) = Made(follow[g]) /\ Made(follow[g]) # s /\ Made(follow[g]) # None
    OBVIOUS
  <2>2. /\ session[Made(follow[g])].at # "none"
        /\ \A j \in closing : j.session # Made(follow[g])
        /\ \A h \in Follows : Made(follow[h]) = Made(follow[g]) => h = g
    BY <2>1 DEF OwnInv, FollowsOwn
  <2> QED
    BY <2>1, <2>2
<1>4. ClosersOwn'
  <2> SUFFICES ASSUME NEW j \in closing', j.session # None
               PROVE  /\ session[j.session].at # "none"
                      /\ j.at # "end" => session[j.session].at = "gone"
                      /\ \A k \in closing' : k.session = j.session => k = j
    BY DEF ClosersOwn
  <2> QED
    BY NoneIsNone DEF OwnInv, ClosersOwn
<1>5. ResumesGone'
  BY DEF OwnInv, ResumesGone
<1>6. RunningOwned'
  <2> SUFFICES ASSUME NEW r \in Sessions \ strays', session[r].at \in {"idle", "busy"}
               PROVE  \/ file'.session = r
                      \/ \E j \in closing' : j.session = r
                      \/ \E g \in Follows : Made(follow'[g]) = r
    BY DEF RunningOwned, Owned
  <2>1. Owned(r)
    BY DEF OwnInv, RunningOwned
  <2>2. CASE r = s
    BY <2>2, NoneIsNone
  <2>3. CASE r # s
    BY <2>1, <2>3 DEF Owned
  <2> QED
    BY <2>2, <2>3
<1> QED
  BY <1>2, <1>3, <1>4, <1>5, <1>6 DEF OwnInv

LEMMA AbandonsOwn ==
  ASSUME Shapes, Shapes', OwnInv, NEW f \in Follows, FollowAbandons(f) PROVE OwnInv'
<1> DEFINE t == follow[f]
           made == [t.mine EXCEPT !.session = t.got]
           stop == file.id # t.id
           C == ToClose(made, f, stop)
           u == Over(t)
<1>1. /\ t \in Threads /\ t.mine \in Sittings /\ t.at = "abandon" /\ t.got \in Sessions \cup {None}
      /\ t.mine.env # None /\ InFlight(t.mine, sent)
  BY ThreadIs DEF Shapes, Threads, FollowAbandons, Placed, Idle, WithoutSession
<1>2. made \in Sittings /\ made.session = t.got /\ made.env # None /\ made.status # "lost"
  BY <1>1 DEF Sittings, InFlight
<1>3. /\ closing' = closing \cup C /\ follow' = [follow EXCEPT ![f] = u]
      /\ file' = file /\ session' = session /\ strays' = strays
  BY DEF FollowAbandons, Ends, outside
<1>4. stop \in BOOLEAN
  OBVIOUS
<1> HIDE DEF made, stop
<1>5. /\ \A j \in C : j.session # None => j.session = t.got /\ j.at = "end"
      /\ \A j, k \in C : j = k
      /\ t.got # None => \E j \in C : j.session = t.got
  <2>1. LET D == ToClose(made, f, stop) IN
        /\ \A j \in D : j.session # None => j.session = made.session /\ j.at = "end"
        /\ \A j, k \in D : j = k
        /\ made.session # None => \E j \in D : j.session = made.session
    BY <1>2, <1>4, ToCloseIs
  <2> QED
    BY <1>2, <2>1
<1>6. Made(t) = t.got
  BY <1>1 DEF Made, Making
<1>7. u.at = "over" /\ Made(u) = None
  BY OverType DEF Made, Making
<1>8. \A g \in Follows : follow'[g] = IF g = f THEN u ELSE follow[g]
  BY <1>3 DEF Shapes, SittingInv, FileShapes
<1> HIDE DEF C, u
<1>9. t.got # None =>
        /\ session[t.got].at # "none"
        /\ \A j \in closing : j.session # t.got
        /\ \A g \in Follows : Made(follow[g]) = t.got => g = f
        /\ file.session # t.got
  <2>1. Made(t) # None => FileOwns /\ FollowsOwn
    BY DEF OwnInv
  <2> QED
    BY <1>6, <2>1 DEF FileOwns, FollowsOwn
<1>10. \A g \in Follows : /\ Made(follow'[g]) \in {None, Made(follow[g])}
                          /\ Made(follow'[g]) # None => Made(follow'[g]) # t.got
                          /\ follow'[g].at = "resume" => follow'[g] = follow[g]
  <2> SUFFICES ASSUME NEW g \in Follows
               PROVE  /\ Made(follow'[g]) \in {None, Made(follow[g])}
                      /\ Made(follow'[g]) # None => Made(follow'[g]) # t.got
                      /\ follow'[g].at = "resume" => follow'[g] = follow[g]
    OBVIOUS
  <2>1. CASE g = f
    BY <1>7, <1>8, <2>1
  <2>2. CASE g # f
    <3>1. follow'[g] = follow[g]
      BY <1>8, <2>2
    <3> QED
      BY <1>9, <2>2, <3>1
  <2> QED
    BY <2>1, <2>2
<1>11. \A g \in Follows : Made(follow'[g]) = Made(follow[g]) \/ Made(follow[g]) = t.got
  BY <1>6, <1>8
<1>12. /\ file'.session \in {None, file.session} /\ file'.session = file.session
       /\ file'.session # None => file'.session # t.got
  BY <1>3, <1>9
<1> DEFINE s == t.got
<1>13. /\ s \in Sessions \cup {None}
       /\ s # None => session[s].at # "none" /\ \A j \in closing : j.session # s
       /\ s # None => s \in strays' \/ \E j \in C : j.session = s
  BY <1>1, <1>5, <1>9
<1> HIDE DEF s
<1>14. session' = session /\ strays \subseteq strays' /\ closing' = closing \cup C
  BY <1>3
<1> QED
  BY <1>5, <1>10, <1>11, <1>12, <1>13, <1>14, ClosesOwn DEF s

LEMMA ClearsOwn ==
  ASSUME Shapes, Shapes', OwnInv, StartClears \/ End \/ Rest PROVE OwnInv'
<1> DEFINE s == file.session
           C == ToClose(file, None, TRUE)
<1>1. file \in Sittings /\ s \in Sessions \cup {None} /\ (s # None => file.env # None)
  BY DEF Shapes, SittingInv, FileShapes, FileInv, Sittings
<1>2. /\ closing' = closing \cup C /\ strays' = strays \cup LeftBehind(file)
      /\ follow' = follow /\ session' = session
  BY DEF StartClears, End, Clears, Rest, outside
<1>3. file'.session = None
  <2>1. file' = NoSitting \/ file' = [file EXCEPT !.session = None, !.started = FALSE]
    BY DEF StartClears, End, Clears, Rest
  <2>2. [file EXCEPT !.session = None, !.started = FALSE].session = None
    BY <1>1 DEF Sittings
  <2> QED
    BY <2>1, <2>2, NoSittingIs
<1>4. /\ \A j \in C : j.session # None => j.session = s /\ j.at = "end"
      /\ \A j, k \in C : j = k
      /\ s # None /\ file.status # "lost" => \E j \in C : j.session = s
  BY <1>1, ToCloseIs
<1>5. s # None => s \in strays' \/ \E j \in C : j.session = s
  BY <1>2, <1>4 DEF LeftBehind
<1> HIDE DEF C
<1>6. s # None =>
        /\ session[s].at # "none"
        /\ \A j \in closing : j.session # s
        /\ \A g \in Follows : Made(follow[g]) # s
  BY DEF OwnInv, FileOwns
<1>7. \A g \in Follows : /\ Made(follow'[g]) \in {None, Made(follow[g])}
                         /\ Made(follow'[g]) # None => Made(follow'[g]) # s
                         /\ follow'[g].at = "resume" => follow'[g] = follow[g]
  BY <1>2, <1>6
<1>8. \A g \in Follows : Made(follow'[g]) = Made(follow[g]) \/ Made(follow[g]) = s
  BY <1>2
<1>9. /\ file'.session \in {None, file.session} /\ file.session = s
      /\ file'.session # None => file'.session # s
      /\ s # None => session[s].at # "none" /\ \A j \in closing : j.session # s
      /\ session' = session /\ strays \subseteq strays' /\ closing' = closing \cup C
  BY <1>2, <1>3, <1>6
<1> HIDE DEF s
<1> QED
  BY <1>1, <1>4, <1>5, <1>7, <1>8, <1>9, ClosesOwn

\* The controller's side only ends sessions.
LEMMA GoneAges == ASSUME SessionShapes, NEW S, Gone(S) PROVE Ages
BY GoneIs DEF Ages

\* What is closed goes on, its session gone.
LEMMA CloseMovesOwn ==
  ASSUME Shapes, Shapes', OwnInv, NEW j \in closing, NEW k0, k0.session = j.session,
         closing' \subseteq (closing \ {j}) \cup {k0}, closing \ {j} \subseteq closing',
         UNCHANGED <<file, follow, strays>>, Ages,
         j.session # None => session'[j.session].at = "gone"
  PROVE  OwnInv'
<1>1. /\ file.session \in Sessions \cup {None}
      /\ \A g \in Follows : Made(follow[g]) \in Sessions \cup {None}
      /\ \A k \in closing : k.session \in Sessions \cup {None}
      /\ \A f \in Follows : follow[f].at = "resume" => follow[f].mine.session \in Sessions
  <2>1. \A f \in Follows : follow[f].at = "resume" => follow[f].mine.session \in Sessions
    BY ThreadIs DEF Shapes, Threads, Sittings, Placed, WithSession
  <2> QED
    BY <2>1, MadeType DEF Shapes, SittingInv, FileShapes, Sittings, OuterShapes, Closings, Closers
<1>2. j.session # None =>
        /\ \A k \in closing : k.session = j.session => k = j
        /\ file.session # j.session
        /\ \A f \in Follows : Made(follow[f]) # j.session
  <2>1. j.session # None => \A k \in closing : k.session = j.session => k = j
    BY DEF OwnInv, ClosersOwn
  <2>2. j.session # None => file.session # j.session
         /\ \A f \in Follows : Made(follow[f]) # j.session
    BY DEF OwnInv, FileOwns, FollowsOwn
  <2> QED
    BY <2>1, <2>2
<1>3. \A k \in closing' :
         \/ k = k0
         \/ k \in closing /\ k # j /\ (j.session # None => k.session # j.session)
  BY <1>2
<1>4. FileOwns'
  BY <1>1, <1>2, <1>3 DEF OwnInv, FileOwns, Ages
<1>5. FollowsOwn'
  <2> SUFFICES ASSUME NEW f \in Follows, Made(follow[f]) # None
               PROVE  /\ session'[Made(follow[f])].at # "none"
                      /\ \A k \in closing' : k.session # Made(follow[f])
                      /\ \A g \in Follows : Made(follow[g]) = Made(follow[f]) => g = f
    BY DEF FollowsOwn
  <2>1. /\ session[Made(follow[f])].at # "none"
        /\ \A k \in closing : k.session # Made(follow[f])
        /\ \A g \in Follows : Made(follow[g]) = Made(follow[f]) => g = f
    BY DEF OwnInv, FollowsOwn
  <2> QED
    BY <1>1, <1>3, <2>1 DEF Ages
<1>6. ClosersOwn'
  <2> SUFFICES ASSUME NEW k \in closing', k.session # None
               PROVE  /\ session'[k.session].at # "none"
                      /\ k.at # "end" => session'[k.session].at = "gone"
                      /\ \A i \in closing' : i.session = k.session => i = k
    BY DEF ClosersOwn
  <2>1. CASE k = k0
    BY <1>1, <1>3, <2>1
  <2>2. CASE k # k0
    <3>1. k \in closing /\ k.session # k0.session
      BY <1>3, <2>2
    <3>2. /\ session[k.session].at # "none"
          /\ k.at # "end" => session[k.session].at = "gone"
          /\ \A i \in closing : i.session = k.session => i = k
      BY <3>1 DEF OwnInv, ClosersOwn
    <3> QED
      BY <1>1, <1>3, <3>1, <3>2 DEF Ages
  <2> QED
    BY <2>1, <2>2
<1>7. ResumesGone'
  BY <1>1 DEF OwnInv, ResumesGone, Ages
<1>8. RunningOwned'
  <2> SUFFICES ASSUME NEW r \in Sessions \ strays, session'[r].at \in {"idle", "busy"}
               PROVE  \/ file.session = r
                      \/ \E k \in closing' : k.session = r
                      \/ \E f \in Follows : Made(follow[f]) = r
    BY DEF RunningOwned, Owned
  <2>1. Owned(r) /\ r # j.session
    BY NoneIsNone DEF OwnInv, RunningOwned, Ages
  <2> QED
    BY <2>1 DEF Owned
<1> QED
  BY <1>4, <1>5, <1>6, <1>7, <1>8 DEF OwnInv

LEMMA ClosingOwn ==
  ASSUME Shapes, Shapes', OwnInv, NEW j \in closing,
         CloseEnds(j) \/ CloseLists(j) \/ CloseStops(j) \/ CloseFails(j)
  PROVE  OwnInv'
<1>1. /\ j \in Closings /\ SessionShapes /\ j.session \in Sessions \cup {None}
      /\ j.at = "end" => j.session # None
  BY DEF Shapes, OuterShapes, SessionShapes, Closings, Closers
<1>2. /\ j.at # "end" /\ j.session # None => session[j.session].at = "gone"
      /\ j.session # None => session[j.session].at # "none"
  BY DEF OwnInv, ClosersOwn
<1>3. CASE CloseEnds(j)
  <2> DEFINE k0 == [j EXCEPT !.at = "list"]
  <2>1. /\ closing' \subseteq (closing \ {j}) \cup {k0} /\ closing \ {j} \subseteq closing'
        /\ UNCHANGED <<file, follow, strays>> /\ Gone({j.session}) /\ j.at = "end"
    BY <1>3 DEF CloseEnds
  <2>2. k0.session = j.session
    BY <1>1 DEF Closings, Closers
  <2> HIDE DEF k0
  <2>3. session'[j.session].at = "gone"
    <3>1. session[j.session].at \in {"idle", "busy", "gone"}
      BY <1>1, <1>2, <2>1 DEF SessionShapes, SessionRecords
    <3>2. \A s \in Sessions :
             session'[s].at = IF s \in {j.session} /\ session[s].at \in {"idle", "busy"} THEN "gone"
                              ELSE session[s].at
      BY <1>1, <2>1, GoneIs
    <3>3. j.session \in Sessions
      BY <1>1, <2>1, NoneIsNone
    <3> QED
      BY <3>1, <3>2, <3>3
  <2>4. Ages
    BY <1>1, <2>1, GoneAges
  <2> QED
    BY <2>1, <2>2, <2>3, <2>4, CloseMovesOwn
<1>4. CASE CloseLists(j)
  <2> DEFINE k0 == [j EXCEPT !.at = "stop"]
  <2>1. /\ closing' \subseteq (closing \ {j}) \cup {k0} /\ closing \ {j} \subseteq closing'
        /\ UNCHANGED <<file, follow, strays>> /\ session' = session /\ j.at # "end"
    BY <1>4 DEF CloseLists, outside
  <2>2. k0.session = j.session
    BY <1>1 DEF Closings, Closers
  <2> HIDE DEF k0
  <2>3. j.session # None => session'[j.session].at = "gone"
    BY <1>2, <2>1
  <2>4. Ages
    BY <2>1, SameAges
  <2> QED
    BY <2>1, <2>2, <2>3, <2>4, CloseMovesOwn
<1>5. CASE CloseStops(j) \/ CloseFails(j)
  <2>1. /\ closing' = closing \ {j} /\ UNCHANGED <<file, follow>>
        /\ strays' = strays \cup (IF j.at = "end" THEN {j.session} ELSE {})
    BY <1>5 DEF CloseStops, CloseFails
  <2>2. Ages
    BY <1>1, <1>5, SameAges, GoneAges DEF CloseStops, CloseFails, outside
  <2>3. \A s \in Sessions \ strays' : session'[s].at \in {"idle", "busy"} =>
            \A k \in closing : k.session = s => k \in closing'
    <3>1. j.session # None /\ j.at # "end" => session'[j.session].at = "gone"
      BY <1>1, <1>2, <2>2 DEF Ages
    <3> QED
      BY <2>1, <3>1, NoneIsNone
  <2> QED
    BY <2>1, <2>2, <2>3, NamesGo
<1> QED
  BY <1>3, <1>4, <1>5

----------------------------------------------------------------------------
(* With no sitting, the file has nothing.                                  *)

\* With no sitting the file is as _clear leaves it, naming nothing.
EmptyInv == ~Held => file = NoSitting

LEMMA HolderHeld == ASSUME EmptyInv, NEW f \in Follows, Holds(f) PROVE file.id # 0
BY NoSittingIs, NoneIsNone DEF EmptyInv, Held, Holds

LEMMA WritesEmpty ==
  ASSUME EmptyInv, NEW f \in Follows, NEW x, NEW t, Writes(f, x, t), Holds(f) => x.id = file.id
  PROVE  EmptyInv'
<1>1. CASE Holds(f)
  <2>1. file' = x /\ file.id # 0
    BY <1>1, HolderHeld DEF Writes
  <2> QED
    BY <1>1, <2>1 DEF EmptyInv, Held
<1>2. CASE ~Holds(f)
  <2>1. file' = file
    BY <1>2 DEF Writes
  <2> QED
    BY <2>1 DEF EmptyInv, Held
<1> QED
  BY <1>1, <1>2

LEMMA SameEmpty == ASSUME EmptyInv, file' = file \/ file' = NoSitting PROVE EmptyInv'
BY DEF EmptyInv, Held

LEMMA FollowEmpty ==
  ASSUME SittingInv, EmptyInv, NEW f \in Follows, FollowSteps(f) PROVE EmptyInv'
<1> DEFINE t == follow[f]
<1>1. file \in Sittings /\ t \in Threads /\ t.mine \in Sittings /\ Placed(t, sent)
  BY ThreadIs DEF SittingInv, FileShapes, Threads
<1>2. ASSUME NEW u, Hears(f, u) PROVE EmptyInv'
  BY <1>2, SameEmpty DEF Hears
<1>3. CASE FollowBegins(f)
  <2>1. CASE Writes(f, file, [t EXCEPT !.at = Advance(file, t)])
    BY <2>1, WritesEmpty
  <2>2. CASE file' = Left(f)
    <3>1. Left(f).id = file.id
      BY <1>1 DEF Left, Sittings
    <3>2. Left(f) = file \/ Holds(f)
      BY DEF Left
    <3> QED
      BY <2>2, <3>1, <3>2, HolderHeld, SameEmpty DEF EmptyInv, Held
  <2> QED
    BY <1>3, <2>1, <2>2 DEF FollowBegins
<1>4. CASE \/ FollowStarts(f) \/ FollowStops(f) \/ FollowAbandons(f) \/ FollowSends(f)
           \/ FollowCreates(f) \/ FollowPicks(f) \/ FollowReadies(f) \/ FollowHearsStart(f)
           \/ FollowAsks(f)
  <2>1. file' = file
    BY <1>4 DEF FollowStarts, FollowStops, FollowAbandons, FollowSends, FollowCreates, FollowPicks,
                FollowReadies, FollowHearsStart, FollowAsks, Hears
  <2> QED
    BY <2>1, SameEmpty
<1>5. CASE FollowTakes(f)
  <2> DEFINE x == [file EXCEPT !.env = t.got, !.started = t.at = "pickedStopped"]
  <2>1. (\E u : Writes(f, x, u)) /\ x.id = file.id
    BY <1>1, <1>5 DEF FollowTakes, Sittings
  <2> HIDE DEF x
  <2> QED
    BY <2>1, WritesEmpty
<1>6. CASE FollowRestarts(f)
  <2> DEFINE x == [file EXCEPT !.started = TRUE]
  <2>1. (\E u : Writes(f, x, u)) /\ x.id = file.id
    BY <1>1, <1>6 DEF FollowRestarts, Sittings
  <2> HIDE DEF x
  <2> QED
    BY <2>1, WritesEmpty
<1>7. CASE FollowIsCreating(f)
  BY <1>2, <1>7, WritesEmpty DEF FollowIsCreating
<1>8. CASE FollowRecords(f)
  <2> DEFINE x == [file EXCEPT !.session = t.got, !.offset = 0, !.turns = 0]
  <2>1. ((\E u : Writes(f, x, u)) \/ (\E u : Hears(f, u))) /\ x.id = file.id
    BY <1>1, <1>8 DEF FollowRecords, Sittings
  <2> HIDE DEF x
  <2> QED
    BY <1>2, <2>1, WritesEmpty
<1>9. CASE FollowResumes(f)
  <2> DEFINE x == [file EXCEPT !.session = None]
  <2>1. (\E u : Writes(f, x, u)) /\ x.id = file.id
    BY <1>1, <1>9 DEF FollowResumes, Sittings
  <2> HIDE DEF x
  <2> QED
    BY <2>1, WritesEmpty
<1>10. CASE FollowMarksBusy(f)
  <2> DEFINE x == [file EXCEPT !.status = "busy"]
  <2>1. (\E u : Writes(f, x, u)) /\ x.id = file.id
    BY <1>1, <1>10 DEF FollowMarksBusy, Sittings
  <2> HIDE DEF x
  <2> QED
    BY <2>1, WritesEmpty
<1>11. CASE FollowReads(f)
  <2> DEFINE s == t.mine.session
             n == t.mine.offset + 1
             x == Kept(file, s, n)
  <2>1. Writes(f, x, t) \/ \E u : Hears(f, u)
    BY <1>11 DEF FollowReads
  <2>4. t.at = "stream"
    BY <1>11 DEF FollowReads
  <2>5. s \in Sessions /\ n \in Nat
    BY <1>1, <2>4 DEF Placed, WithSession, Sittings
  <2>2. s \in Sessions /\ n \in Nat /\ x = Kept(file, s, n)
    BY <2>5
  <2> HIDE DEF x, s, n
  <2>3. Kept(file, s, n).id = file.id
    BY <1>1, <2>2, KeptIs
  <2> QED
    BY <1>2, <2>1, <2>2, <2>3, WritesEmpty
<1>12. CASE FollowAnswers(f)
  <2> DEFINE x == [file EXCEPT !.status = "idle", !.turns = t.got, !.turn = FALSE,
                               !.by = None, !.said = << >>,
                               !.conversation = @ \/ Running(t.mine.session),
                               !.transcript = Append(@, Answer(file.said))]
  <2>1. (\E u : Writes(f, x, u)) /\ x.id = file.id
    BY <1>1, <1>12 DEF FollowAnswers, Sittings
  <2> HIDE DEF x
  <2> QED
    BY <2>1, WritesEmpty
<1>13. CASE FollowCatches(f)
  <2> DEFINE x == [file EXCEPT !.status = "lost", !.turn = FALSE, !.by = None, !.said = << >>]
  <2>1. ((\E u : Writes(f, x, u)) \/ (\E u : Writes(f, file, u)) \/ file' = file) /\ x.id = file.id
    BY <1>1, <1>13 DEF FollowCatches, Sittings
  <2> HIDE DEF x
  <2> QED
    BY <2>1, SameEmpty, WritesEmpty
<1> QED
  BY <1>3, <1>4, <1>5, <1>6, <1>7, <1>8, <1>9, <1>10, <1>11, <1>12, <1>13 DEF FollowSteps

LEMMA NextEmpty == ASSUME Shapes, EmptyInv, [Next]_vars PROVE EmptyInv'
<1>1. file \in Sittings /\ sent \in Nat /\ SittingInv /\ pod \in [Pods -> PodRecords]
  BY SentType DEF Shapes, SittingInv, FileShapes, OuterShapes
<1>2. CASE UNCHANGED vars
  BY <1>2, SameEmpty DEF vars
<1>3. ASSUME NEW p \in Pods, Start(p) PROVE EmptyInv'
  BY <1>1, <1>3, BegunIs DEF Start, BeginsTurn, EmptyInv, Held
<1>4. ASSUME NEW p \in Pods, Send(p) \/ TakeOver(p) PROVE EmptyInv'
  <2>1. file.id # 0
    BY <1>4, NoSittingIs DEF Send, TakeOver, Takeable, Live, Held, EmptyInv
  <2>2. file'.id = file.id
    BY <1>1, <1>4 DEF Send, TakeOver, BeginsTurn, Sittings
  <2> QED
    BY <2>1, <2>2 DEF EmptyInv, Held
<1>5. ASSUME NEW p \in Pods, Leaves(p) PROVE EmptyInv'
  <2>1. PICK f \in pod[p].leave : file' = Left(f)
    BY <1>5 DEF Leaves
  <2>2. f \in Follows
    BY <1>1, <2>1 DEF PodRecords
  <2>3. Left(f).id = file.id /\ (Left(f) = file \/ Holds(f))
    BY <1>1 DEF Left, Sittings
  <2> QED
    BY <2>1, <2>2, <2>3, HolderHeld, SameEmpty DEF EmptyInv, Held
<1>6. CASE StartClears \/ End
  BY <1>6, SameEmpty DEF StartClears, End, Clears
<1>7. CASE Rest
  BY <1>1, <1>7 DEF Rest, EmptyInv, Held, Sittings
<1>8. ASSUME NEW f \in Follows, FollowSteps(f) PROVE EmptyInv'
  BY <1>1, <1>8, FollowEmpty
<1>9. ASSUME NEW f \in Follows, CallFails(f) \/ FollowFails(f) \/ FollowBeats(f) PROVE EmptyInv'
  BY <1>9, SameEmpty DEF CallFails, FollowFails, FollowBeats
<1>10. ASSUME NEW p \in Pods, TasksRefuse(p) \/ Stop(p) \/ Dies(p) PROVE EmptyInv'
  BY <1>10, SameEmpty DEF TasksRefuse, Stop, Dies
<1>11. ASSUME NEW j \in closing, CloseEnds(j) \/ CloseLists(j) \/ CloseStops(j) \/ CloseFails(j)
       PROVE  EmptyInv'
  BY <1>11, SameEmpty DEF CloseEnds, CloseLists, CloseStops, CloseFails
<1>12. ASSUME NEW e \in Envs, StartLands(e) \/ EnvStops(e) PROVE EmptyInv'
  BY <1>12, SameEmpty DEF StartLands, EnvStops
<1>13. ASSUME NEW s \in Sessions, SessionGoes(s) \/ SessionWrites(s) \/ SessionFinishes(s)
       PROVE  EmptyInv'
  BY <1>13, SameEmpty DEF SessionGoes, SessionWrites, SessionFinishes
<1> QED
  BY <1>2, <1>3, <1>4, <1>5, <1>6, <1>7, <1>8, <1>9, <1>10, <1>11, <1>12, <1>13 DEF Next, CloseSteps

LEMMA RequestsOwn ==
  ASSUME Shapes, Shapes', OwnInv, EmptyInv, NEW p \in Pods, Start(p) \/ Send(p) \/ TakeOver(p)
  PROVE  OwnInv'
<1> DEFINE f == NextFollow
<1>1. PICK id, unsent : follow' = [follow EXCEPT ![f] = Thread(p, "begin", id, unsent)]
  BY DEF Start, Send, TakeOver, BeginsTurn
<1>2. FreeFollows # {} /\ UNCHANGED <<closing, session, strays>>
  BY DEF Start, Send, TakeOver, BeginsTurn, outside
<1>3. f \in Follows /\ follow[f].at = "none"
  BY <1>2, NextFollowFree
<1>4. file'.session = file.session
  <2>1. file \in Sittings
    BY DEF Shapes, SittingInv, FileShapes
  <2>2. CASE Start(p)
    BY <2>2, BegunIs, NoSittingIs DEF Start, BeginsTurn, EmptyInv
  <2>3. CASE Send(p) \/ TakeOver(p)
    BY <2>1, <2>3 DEF Send, TakeOver, BeginsTurn, Sittings
  <2> QED
    BY <2>2, <2>3
<1> DEFINE u == Thread(p, "begin", id, unsent)
<1>5. u.at = "begin"
  BY DEF Thread
<1>6. follow' = [follow EXCEPT ![f] = u]
  BY <1>1
<1> HIDE DEF u, f
<1>7. Made(u) = Made(follow[f])
  BY <1>3, <1>5 DEF Made, Making
<1> QED
  BY <1>2, <1>3, <1>4, <1>5, <1>6, <1>7, SameAges, NamesStay

LEMMA FaultsOwn ==
  ASSUME Shapes, Shapes', OwnInv, NEW f \in Follows, CallFails(f) \/ FollowFails(f)
         \/ FollowBeats(f)
  PROVE  OwnInv'
<1> DEFINE t == follow[f]
<1>1. t \in Threads /\ Placed(t, sent)
  BY ThreadIs DEF Shapes
<1>2. CASE CallFails(f)
  <2>1. PICK why : follow' = [follow EXCEPT ![f] = Fails(t, why)]
    BY <1>2 DEF CallFails
  <2> DEFINE u == Fails(t, why)
  <2>2. u.at = "failed" /\ follow' = [follow EXCEPT ![f] = u]
    BY <1>1, <2>1, FailsAt
  <2> HIDE DEF u
  <2>3. Made(u) = None /\ Made(t) = None
    BY <1>2, <2>2 DEF CallFails, Made, Making
  <2>4. UNCHANGED <<file, closing, session, strays>>
    BY <1>2 DEF CallFails, outside
  <2> QED
    BY <2>2, <2>3, <2>4, SameAges, NamesStay
<1>3. CASE FollowBeats(f)
  <2> DEFINE u == [t EXCEPT !.released = TRUE]
  <2>1. u.at = t.at /\ u.got = t.got /\ u.mine = t.mine
    BY <1>1 DEF Threads
  <2>2. follow' = [follow EXCEPT ![f] = u] /\ UNCHANGED <<file, closing, session, strays>>
    BY <1>3 DEF FollowBeats, outside
  <2> HIDE DEF u
  <2>3. Made(u) = Made(t)
    BY <2>1 DEF Made
  <2> QED
    BY <2>1, <2>2, <2>3, SameAges, NamesStay
<1>4. CASE FollowFails(f)
  <2> DEFINE u == Over(t)
  <2>1. u.at = "over" /\ Made(u) = None
    BY OverType DEF Made, Making
  <2>2. /\ follow' = [follow EXCEPT ![f] = u] /\ UNCHANGED <<file, closing, session>>
        /\ strays' = strays \cup (IF t.at \in Making THEN {t.got} \ {None} ELSE {})
    BY <1>4 DEF FollowFails, Ends, outside, Making
  <2> HIDE DEF u
  <2>3. \A g \in Follows : follow'[g] = IF g = f THEN u ELSE follow[g]
    BY <2>2 DEF Shapes, SittingInv, FileShapes
  <2>4. \A s \in Sessions \ strays' : Made(t) # s
    BY <2>2, NoneIsNone DEF Made
  <2>5. \A g \in Follows : Made(follow'[g]) \in {None, Made(follow[g])}
    BY <2>1, <2>3
  <2>6. \A g \in Follows : follow'[g].at = "resume" => follow'[g] = follow[g]
    BY <2>1, <2>3
  <2>7. \A s \in Sessions \ strays' : \A g \in Follows : Made(follow[g]) = s => Made(follow'[g]) = s
    BY <2>3, <2>4
  <2>8. Ages /\ file'.session \in {None, file.session} /\ file' = file
    BY <2>2, SameAges
  <2> QED
    BY <2>2, <2>5, <2>6, <2>7, <2>8, NamesGo
<1> QED
  BY <1>2, <1>3, <1>4

LEMMA PodsOwn ==
  ASSUME Shapes, Shapes', OwnInv, NEW p \in Pods, TasksRefuse(p) \/ Stop(p) \/ Leaves(p) \/ Dies(p)
  PROVE  OwnInv'
<1>1. CASE TasksRefuse(p) \/ Stop(p)
  <2>1. UNCHANGED <<file, follow, closing, session, strays>>
    BY <1>1 DEF TasksRefuse, Stop, outside
  <2> QED
    BY <2>1, SameAges, NamesGo
<1>2. CASE Leaves(p)
  <2>1. PICK f \in pod[p].leave : /\ file' = Left(f)
                                  /\ follow' = [follow EXCEPT ![f].released = TRUE]
    BY <1>2 DEF Leaves
  <2>2. f \in Follows
    BY DEF Shapes, OuterShapes, PodRecords
  <2> DEFINE t == follow[f]
             u == [t EXCEPT !.released = TRUE]
  <2>3. u.at = t.at /\ u.got = t.got /\ u.mine = t.mine
    BY <2>2, ThreadIs DEF Shapes, Threads
  <2>4. follow' = [follow EXCEPT ![f] = u] /\ UNCHANGED <<closing, session, strays>>
    BY <1>2, <2>1 DEF Leaves, outside
  <2> HIDE DEF u
  <2>5. Made(u) = Made(t)
    BY <2>3 DEF Made
  <2>6. file'.session = file.session
    BY <2>1 DEF Left, Shapes, SittingInv, FileShapes, Sittings
  <2> QED
    BY <2>2, <2>3, <2>4, <2>5, <2>6, SameAges, NamesStay
<1>3. CASE Dies(p)
  <2> DEFINE its == {f \in Follows : follow[f].pod = p}
             made == {f \in its : follow[f].at \in Making}
  <2>1. /\ follow' = [f \in Follows |-> IF f \in its THEN Over(follow[f]) ELSE follow[f]]
        /\ strays' = strays \cup ({follow[f].got : f \in made} \ {None})
        /\ UNCHANGED <<file, closing, session>>
    BY <1>3 DEF Dies, Making, outside
  <2>2. \A f \in Follows : Over(follow[f]).at = "over" /\ Made(Over(follow[f])) = None
    BY OverType DEF Made, Making
  <2>3. \A f \in Follows : f \in its /\ Made(follow[f]) # None => Made(follow[f]) \in strays'
    BY <2>1 DEF Made
  <2> HIDE DEF its, made
  <2>4. \A f \in Follows : follow'[f] = IF f \in its THEN Over(follow[f]) ELSE follow[f]
    BY <2>1
  <2>5. \A f \in Follows : Made(follow'[f]) = IF f \in its THEN None ELSE Made(follow[f])
    BY <2>2, <2>4
  <2>6. \A f \in Follows : follow'[f].at = "resume" => follow'[f] = follow[f]
    BY <2>2, <2>4
  <2>7. \A s \in Sessions \ strays' : \A f \in Follows : Made(follow[f]) = s => Made(follow'[f]) = s
    BY <2>3, <2>5, NoneIsNone
  <2>8. strays \subseteq strays' /\ Ages
    BY <2>1, SameAges
  <2> QED
    BY <2>1, <2>5, <2>6, <2>7, <2>8, NamesGo
<1> QED
  BY <1>1, <1>2, <1>3

LEMMA WorldAges ==
  ASSUME SessionShapes,
         \/ \E e \in Envs : StartLands(e) \/ EnvStops(e)
         \/ \E s \in Sessions : SessionGoes(s) \/ SessionWrites(s) \/ SessionFinishes(s)
  PROVE  Ages /\ UNCHANGED <<file, follow, closing, strays>>
<1>1. CASE \E e \in Envs : StartLands(e) \/ EnvStops(e)
  BY <1>1, SameAges, GoneAges DEF StartLands, EnvStops
<1>2. CASE \E s \in Sessions : SessionGoes(s)
  BY <1>2, GoneAges DEF SessionGoes
<1>3. ASSUME NEW s \in Sessions, SessionWrites(s)
      PROVE  Ages /\ UNCHANGED <<file, follow, closing, strays>>
  <2>1. PICK item \in Items : session' = [session EXCEPT ![s].log = Append(@, item)]
    BY <1>3, SessionWritesIs
  <2> DEFINE y == [session[s] EXCEPT !.log = Append(@, item)]
  <2>2. y.at = session[s].at
    BY DEF SessionShapes, SessionRecords
  <2>3. session' = [session EXCEPT ![s] = y]
    BY <2>1
  <2> HIDE DEF y
  <2>4. \A r \in Sessions : session'[r] = IF r = s THEN y ELSE session[r]
    BY <2>3 DEF SessionShapes
  <2> QED
    BY <1>3, <2>2, <2>4 DEF Ages, SessionWrites
<1>4. ASSUME NEW s \in Sessions, SessionFinishes(s)
      PROVE  Ages /\ UNCHANGED <<file, follow, closing, strays>>
  <2>1. PICK item \in Items : session' = [session EXCEPT ![s].at = "idle", ![s].turns = @ + 1,
                                                         ![s].log = Append(@, item)]
    BY <1>4, SessionFinishesIs
  <2> DEFINE y == [session[s] EXCEPT !.at = "idle", !.turns = @ + 1, !.log = Append(@, item)]
  <2>2. y.at = "idle"
    BY DEF SessionShapes, SessionRecords
  <2>3. session' = [session EXCEPT ![s] = y]
    BY <2>1
  <2> HIDE DEF y
  <2>4. \A r \in Sessions : session'[r] = IF r = s THEN y ELSE session[r]
    BY <2>3 DEF SessionShapes
  <2> QED
    BY <1>4, <2>2, <2>4 DEF Ages, SessionFinishes
<1> QED
  BY <1>1, <1>2, <1>3, <1>4

\* The inductive invariant: who has a session is told by the shapes above, by an
\* empty file and by its one owner.
HeldShapes == Shapes /\ EmptyInv /\ OwnInv

LEMMA NextOwn == ASSUME HeldShapes, [Next]_vars PROVE HeldShapes'
<1>1. Shapes /\ Shapes' /\ EmptyInv /\ EmptyInv' /\ OwnInv /\ SessionShapes
  BY NextShapes, NextEmpty DEF HeldShapes, Shapes, OuterShapes, SessionShapes
<1>2. CASE UNCHANGED vars
  <2>1. UNCHANGED <<file, follow, closing, session, strays>>
    BY <1>2 DEF vars, outside
  <2> QED
    BY <1>1, <2>1, SameAges, NamesGo DEF HeldShapes
<1>3. ASSUME NEW p \in Pods,
             Start(p) \/ Send(p) \/ TakeOver(p) \/ TasksRefuse(p) \/ Stop(p) \/ Leaves(p) \/ Dies(p)
      PROVE  OwnInv'
  BY <1>1, <1>3, RequestsOwn, PodsOwn
<1>4. CASE StartClears \/ End \/ Rest
  BY <1>1, <1>4, ClearsOwn DEF HeldShapes
<1>5. ASSUME NEW f \in Follows, FollowSteps(f) PROVE OwnInv'
  BY <1>1, <1>5, QuietStepsOwn, WritingStepsOwn, StartsOwn, IsCreatingOwn, CreatesOwn, RecordsOwn,
     AbandonsOwn, SendsOwn, ResumesOwn DEF FollowSteps
<1>6. ASSUME NEW f \in Follows, CallFails(f) \/ FollowFails(f) \/ FollowBeats(f) PROVE OwnInv'
  BY <1>1, <1>6, FaultsOwn
<1>7. ASSUME NEW j \in closing, CloseEnds(j) \/ CloseLists(j) \/ CloseStops(j) \/ CloseFails(j)
      PROVE  OwnInv'
  BY <1>1, <1>7, ClosingOwn
<1>8. CASE \/ \E e \in Envs : StartLands(e) \/ EnvStops(e)
           \/ \E s \in Sessions : SessionGoes(s) \/ SessionWrites(s) \/ SessionFinishes(s)
  <2>1. Ages /\ UNCHANGED <<file, follow, closing, strays>>
    BY <1>1, <1>8, WorldAges
  <2>2. OwnInv'
    BY <1>1, <2>1, NamesGo
  <2> QED
    BY <1>1, <2>2 DEF HeldShapes
<1> QED
  BY <1>1, <1>2, <1>3, <1>4, <1>5, <1>6, <1>7, <1>8 DEF Next, CloseSteps, HeldShapes

LEMMA InitOwn == ASSUME Init PROVE HeldShapes
<1> DEFINE t == Thread(None, "none", 0, FALSE)
<1>1. t.at = "none" /\ Made(t) = None
  BY DEF Thread, Made, Making
<1>2. \A f \in Follows : Made(follow[f]) = None /\ follow[f].at = "none"
  BY <1>1 DEF Init
<1>3. \A s \in Sessions : session[s].at = "none"
  BY DEF Init, NoSession, NewSession
<1>4. file = NoSitting /\ closing = {}
  BY DEF Init
<1>5. OwnInv
  BY <1>2, <1>3, <1>4, NoSittingIs
  DEF OwnInv, FileOwns, FollowsOwn, ClosersOwn, ResumesGone, RunningOwned
<1> QED
  BY <1>4, <1>5, InitShapes DEF HeldShapes, EmptyInv

\* Each session inbox.py has created is named by the file alone, by the follow that
\* is to record or undo it alone, or by one closer alone.
THEOREM HeldShapesHold == Spec => []HeldShapes
<1>1. Init => HeldShapes
  BY InitOwn
<1>2. HeldShapes /\ [Next]_vars => HeldShapes'
  BY NextOwn
<1> QED
  BY <1>1, <1>2, PTL DEF Spec

\* No session runs that nobody can close: what Inbox.run creates is recorded in the
\* file, undone by _abandon or closed by _close, but for the strays.
THEOREM OwnedCorrect == Spec => []SessionsAreOwned
<1>1. HeldShapes => SessionsAreOwned
  BY NoneIsNone
  DEF HeldShapes, OwnInv, RunningOwned, Owned, Made, Making, SessionsAreOwned, Running
<1> QED
  BY <1>1, HeldShapesHold, PTL

\* Inbox.rest and Inbox.end drop a session from the file as they close it, so no two
\* closers have it and the file never names one that is being closed.
THEOREM ClosedCorrect == Spec => []ClosedOnce
<1>1. HeldShapes => ClosedOnce
  BY NoneIsNone DEF HeldShapes, OwnInv, FileOwns, ClosersOwn, ClosedOnce
<1> QED
  BY <1>1, HeldShapesHold, PTL

----------------------------------------------------------------------------
(* What each message has become.                                           *)

\* Of sessions S: a message that one has taken, and how many one took.
Taken(S, m) == \E s \in Sessions : \E i \in DOMAIN S[s].took : S[s].took[i] = m
Count(S, s) == Len(S[s].took)

\* A session's turns are the messages it took, of the first n.
LogInv(S, n) ==
    \A s \in Sessions :
        /\ S[s].at = "none" => S[s].took = << >>
        /\ S[s].at = "idle" => Count(S, s) = S[s].turns
        /\ S[s].at = "busy" => Count(S, s) = S[s].turns + 1
        /\ S[s].turns <= Count(S, s)
        /\ \A i \in DOMAIN S[s].took : S[s].took[i] \in 1..n

\* No message is two turns.
OnceInv(S) ==
    \A s, r \in Sessions : \A i \in DOMAIN S[s].took, j \in DOMAIN S[r].took :
        S[s].took[i] = S[r].took[j] => s = r /\ i = j

\* What a follow may have seen of a sitting, x: its message is the session's next
\* after the turns it counts, or the session has not taken it and no other has.
Good(S, x) ==
    LET s == x.session IN
    /\ S[s].at # "none"
    /\ Count(S, s) >= x.turns
    /\ S[s].at = "busy" => Count(S, s) > x.turns
    /\ Count(S, s) > x.turns => S[s].took[x.turns + 1] = LastMessage(x)
    /\ Count(S, s) = x.turns /\ S[s].at # "gone" => ~Taken(S, LastMessage(x))

\* What two follows saw: the same turn of a session is of one message, and a message
\* seen with two sessions was seen with one that is gone.
Alike(S, x, y) ==
    /\ x.session = y.session /\ x.turns = y.turns => LastMessage(x) = LastMessage(y)
    /\ LastMessage(x) = LastMessage(y) /\ x.session # y.session =>
         S[x.session].at = "gone" \/ S[y.session].at = "gone"

\* What a follow saw, x, is no later than the file, y.
Lives(y) == y.id # 0 /\ y.status # "lost"
Behind(S, x, y) ==
    /\ x.session = y.session => x.turns <= y.turns
    /\ x.session = y.session /\ ~y.turn /\ Lives(y) => x.turns < y.turns
    /\ y.turn /\ x.session = y.session /\ x.turns = y.turns => LastMessage(x) = LastMessage(y)
    /\ y.turn /\ LastMessage(x) = LastMessage(y) /\ x.session # y.session =>
         S[x.session].at = "gone"

\* The file, y: a turn in flight is the session's next or its last, and with none in
\* flight the file counts every message its session took.
FileCounts(S, y) ==
    /\ y.turn /\ y.session # None => Good(S, y) /\ Count(S, y.session) <= y.turns + 1
    /\ y.turn /\ y.session = None => ~Taken(S, LastMessage(y))
    /\ ~y.turn /\ Lives(y) /\ y.session # None =>
         Count(S, y.session) = y.turns /\ S[y.session].at # "busy"

\* A follow's place: a send on its way goes to a session that has not taken the
\* message, that another's send of it has just reached, or that is gone.
Stands(S, t) ==
    LET s == t.mine.session IN
    /\ t.at = "send" =>
         \/ S[s].at = "gone"
         \/ S[s].at = "idle" /\ Count(S, s) = t.mine.turns
         \/ S[s].at = "busy" /\ Count(S, s) = t.mine.turns + 1
    /\ t.at \in {"isBusy", "stream", "answer"} => Count(S, s) > t.mine.turns
    /\ Made(t) # None => S[Made(t)].took = << >> /\ S[Made(t)].at # "busy"

\* The place of the follow that holds the turn of the file y.
HolderStands(S, t, y) ==
    LET s == t.mine.session IN
    /\ t.at = "begin" /\ t.unsent => ~Taken(S, LastMessage(y))
    /\ t.at \in {"send", "resume"} /\ S[s].at = "gone" => ~Taken(S, LastMessage(t.mine))
    /\ t.at = "answer" =>
         /\ t.got = t.mine.turns + 1 /\ Count(S, s) = t.mine.turns + 1
         /\ S[s].at # "busy" /\ S[s].turns = Count(S, s)

\* A follow at work that has seen a session; the file's holder.
Has(t) == t.at \notin Idle /\ t.mine.session # None
HeldBy(x, t, f) == x.id = t.id /\ x.by = f

\* Of sessions S, follows F and the file x: every view is good and behind the file, no
\* session a follow has made is one another saw, and no two views differ.
ViewsOf(S, F, x) ==
    \A f \in Follows : Has(F[f]) => Good(S, F[f].mine) /\ Behind(S, F[f].mine, x)
ApartOf(F) ==
    \A f, g \in Follows : Has(F[f]) => Made(F[g]) # F[f].mine.session
AlikeOf(S, F) ==
    \A f, g \in Follows : Has(F[f]) /\ Has(F[g]) => Alike(S, F[f].mine, F[g].mine)
PlacesOf(S, F, x) ==
    \A f \in Follows : Stands(S, F[f]) /\ (HeldBy(x, F[f], f) => HolderStands(S, F[f], x))

\* A message not sent yet is one no follow at work has seen.
NewOf(F, x) ==
    \A f, g \in Follows :
        HeldBy(x, F[f], f) /\ F[f].at = "begin" /\ F[f].unsent /\ F[g].at \notin Idle =>
            LastMessage(F[g].mine) # LastMessage(x)

\* The inductive invariant, of sessions S and the first n messages.
SendsOf(S, n, F, x) ==
    /\ LogInv(S, n) /\ OnceInv(S) /\ FileCounts(S, x)
    /\ ViewsOf(S, F, x) /\ ApartOf(F) /\ AlikeOf(S, F) /\ PlacesOf(S, F, x) /\ NewOf(F, x)
SendInv == SendsOf(session, sent, follow, file)

\* What sessions do but for taking a message: they are made, finish their turn, go.
SessionKeeps(s, t) ==
    /\ t.took = s.took
    /\ \/ t.at = s.at /\ t.turns = s.turns
       \/ t.at = "gone" /\ s.at \in {"idle", "busy"} /\ t.turns = s.turns
       \/ s.at = "none" /\ t.at = "idle" /\ t.turns = 0
       \/ s.at = "busy" /\ t.at = "idle" /\ t.turns = s.turns + 1
SessionsKeep(S, T) == \A s \in Sessions : SessionKeeps(S[s], T[s])
SessionMaps == [Sessions -> SessionRecords]

----------------------------------------------------------------------------
(* Sessions change.                                                        *)

LEMMA KeepTaken ==
  ASSUME NEW S, NEW T, SessionsKeep(S, T), NEW m PROVE Taken(T, m) <=> Taken(S, m)
BY DEF SessionsKeep, SessionKeeps, Taken

LEMMA KeepLog ==
  ASSUME NEW S \in SessionMaps, NEW T \in SessionMaps, SessionsKeep(S, T), NEW n, LogInv(S, n)
  PROVE  LogInv(T, n)
<1> SUFFICES ASSUME NEW s \in Sessions
             PROVE  /\ T[s].at = "none" => T[s].took = << >>
                    /\ T[s].at = "idle" => Count(T, s) = T[s].turns
                    /\ T[s].at = "busy" => Count(T, s) = T[s].turns + 1
                    /\ T[s].turns <= Count(T, s)
                    /\ \A i \in DOMAIN T[s].took : T[s].took[i] \in 1..n
  BY DEF LogInv
<1>1. SessionKeeps(S[s], T[s]) /\ S[s] \in SessionRecords /\ T[s] \in SessionRecords
  BY DEF SessionsKeep, SessionMaps
<1>2. T[s].took = S[s].took /\ Count(T, s) = Count(S, s) /\ Count(S, s) \in Nat
  BY <1>1 DEF SessionKeeps, Count, SessionRecords
<1>3. /\ S[s].at = "none" => S[s].took = << >>
      /\ S[s].at = "idle" => Count(S, s) = S[s].turns
      /\ S[s].at = "busy" => Count(S, s) = S[s].turns + 1
      /\ S[s].turns <= Count(S, s)
      /\ \A i \in DOMAIN S[s].took : S[s].took[i] \in 1..n
  BY DEF LogInv
<1>4. S[s].at = "none" => Count(S, s) = 0
  BY <1>3 DEF Count
<1>5. S[s].turns \in Nat /\ T[s].turns \in Nat
  BY <1>1 DEF SessionRecords
<1> QED
  BY <1>1, <1>2, <1>3, <1>4, <1>5 DEF SessionKeeps

LEMMA KeepOnce ==
  ASSUME NEW S, NEW T, SessionsKeep(S, T), OnceInv(S) PROVE OnceInv(T)
BY DEF SessionsKeep, SessionKeeps, OnceInv

LEMMA KeepGood ==
  ASSUME NEW S, NEW T, SessionsKeep(S, T), NEW x, x.session \in Sessions, Good(S, x)
  PROVE  Good(T, x)
<1> DEFINE s == x.session
           m == LastMessage(x)
<1>1. SessionKeeps(S[s], T[s]) /\ Count(T, s) = Count(S, s)
  BY DEF SessionsKeep, SessionKeeps, Count
<1>2. Taken(T, m) <=> Taken(S, m)
  BY KeepTaken
<1> HIDE DEF m
<1> QED
  BY <1>1, <1>2 DEF Good, SessionKeeps, m

LEMMA KeepAlike ==
  ASSUME NEW S, NEW T, SessionsKeep(S, T), NEW x, NEW y, x.session \in Sessions,
         y.session \in Sessions, Alike(S, x, y)
  PROVE  Alike(T, x, y)
BY DEF SessionsKeep, SessionKeeps, Alike

LEMMA KeepBehind ==
  ASSUME NEW S, NEW T, SessionsKeep(S, T), NEW x, NEW y, x.session \in Sessions, Behind(S, x, y)
  PROVE  Behind(T, x, y)
BY DEF SessionsKeep, SessionKeeps, Behind

LEMMA KeepCounts ==
  ASSUME NEW S, NEW T, SessionsKeep(S, T), NEW y \in Sittings, FileCounts(S, y)
  PROVE  FileCounts(T, y)
<1>1. CASE y.session = None
  BY <1>1, KeepTaken DEF FileCounts
<1>2. CASE y.session # None
  <2>1. y.session \in Sessions
    BY <1>2 DEF Sittings
  <2>2. SessionKeeps(S[y.session], T[y.session]) /\ Count(T, y.session) = Count(S, y.session)
    BY <2>1 DEF SessionsKeep, SessionKeeps, Count
  <2>3. Good(S, y) => Good(T, y)
    BY <2>1, KeepGood
  <2>4. S[y.session].at # "busy" => T[y.session].at # "busy"
    BY <2>2 DEF SessionKeeps
  <2> QED
    BY <1>2, <2>2, <2>3, <2>4 DEF FileCounts
<1> QED
  BY <1>1, <1>2

LEMMA KeepStands ==
  ASSUME NEW S, NEW T, SessionsKeep(S, T), NEW t, Stands(S, t),
         t.at \in {"send", "isBusy", "stream", "answer"} => t.mine.session \in Sessions,
         Made(t) \in Sessions \cup {None},
         t.at = "send" => T[t.mine.session].at \in {S[t.mine.session].at, "gone"}
  PROVE  Stands(T, t)
<1> DEFINE s == t.mine.session
<1>1. \A r \in Sessions : SessionKeeps(S[r], T[r]) /\ Count(T, r) = Count(S, r)
  BY DEF SessionsKeep, SessionKeeps, Count
<1>2. Made(t) # None => S[Made(t)].took = << >> /\ S[Made(t)].at # "busy"
  BY DEF Stands
<1>3. Made(t) # None => T[Made(t)].took = << >> /\ T[Made(t)].at # "busy"
  BY <1>1, <1>2 DEF SessionKeeps
<1>4. t.at \in {"isBusy", "stream", "answer"} => Count(T, s) > t.mine.turns
  BY <1>1 DEF Stands
<1>5. t.at = "send" =>
         \/ T[s].at = "gone"
         \/ T[s].at = "idle" /\ Count(T, s) = t.mine.turns
         \/ T[s].at = "busy" /\ Count(T, s) = t.mine.turns + 1
  <2> SUFFICES ASSUME t.at = "send", T[s].at # "gone"
               PROVE  \/ T[s].at = "idle" /\ Count(T, s) = t.mine.turns
                      \/ T[s].at = "busy" /\ Count(T, s) = t.mine.turns + 1
    OBVIOUS
  <2>1. s \in Sessions /\ T[s].at = S[s].at
    OBVIOUS
  <2>2. Count(T, s) = Count(S, s)
    BY <1>1, <2>1
  <2>3. \/ S[s].at = "gone"
        \/ S[s].at = "idle" /\ Count(S, s) = t.mine.turns
        \/ S[s].at = "busy" /\ Count(S, s) = t.mine.turns + 1
    BY DEF Stands
  <2> QED
    BY <2>1, <2>2, <2>3
<1> QED
  BY <1>3, <1>4, <1>5 DEF Stands

LEMMA KeepHolder ==
  ASSUME NEW S, NEW T, SessionsKeep(S, T), NEW t, NEW y, HolderStands(S, t, y), Stands(S, t),
         t.at \in {"send", "resume", "answer"} => t.mine.session \in Sessions,
         t.at = "send" => Good(S, t.mine) /\ S[t.mine.session].at # "none",
         t.at = "send" => T[t.mine.session].at \in {S[t.mine.session].at, "gone"},
         t.at = "send" /\ S[t.mine.session].at = "busy" => T[t.mine.session].at = "busy",
         t.at = "resume" => S[t.mine.session].at = "gone",
         t.at = "answer" => S[t.mine.session].at # "none"
  PROVE  HolderStands(T, t, y)
<1> DEFINE s == t.mine.session
           m == LastMessage(y)
           k == LastMessage(t.mine)
<1>1. (Taken(T, m) <=> Taken(S, m)) /\ (Taken(T, k) <=> Taken(S, k))
  BY KeepTaken
<1>2. \A r \in Sessions : SessionKeeps(S[r], T[r]) /\ Count(T, r) = Count(S, r)
  BY DEF SessionsKeep, SessionKeeps, Count
<1> HIDE DEF m, k
<1>3. t.at = "begin" /\ t.unsent => ~Taken(T, m)
  BY <1>1 DEF HolderStands, m
<1>4. t.at \in {"send", "resume"} /\ T[s].at = "gone" => ~Taken(T, k)
  <2>1. CASE t.at = "resume" \/ S[s].at = "gone"
    BY <1>1, <2>1 DEF HolderStands, k
  <2>2. CASE t.at = "send" /\ S[s].at = "idle"
    <3>1. Count(S, s) = t.mine.turns
      BY <2>2 DEF Stands
    <3>2. ~Taken(S, k)
      BY <2>2, <3>1 DEF Good, k
    <3> QED
      BY <1>1, <3>2
  <2>3. CASE t.at = "send" /\ S[s].at = "busy"
    BY <2>3
  <2>4. t.at = "send" => S[s].at \in {"gone", "idle", "busy"}
    BY DEF Stands
  <2> QED
    BY <2>1, <2>2, <2>3, <2>4
<1>5. t.at = "answer" => /\ t.got = t.mine.turns + 1 /\ Count(T, s) = t.mine.turns + 1
                         /\ T[s].at # "busy" /\ T[s].turns = Count(T, s)
  BY <1>2 DEF HolderStands, SessionKeeps
<1> QED
  BY <1>3, <1>4, <1>5 DEF HolderStands, m, k

LEMMA PlacedHas ==
  ASSUME NEW n, NEW t \in Threads, Placed(t, n)
  PROVE  /\ t.mine.session \in Sessions \cup {None}
         /\ Has(t) => t.mine.session \in Sessions
         /\ t.at \in WithSession => Has(t) /\ t.mine.session \in Sessions
         /\ Made(t) \in Sessions \cup {None}
<1>1. t.mine.session \in Sessions \cup {None}
  BY DEF Threads, Sittings
<1>2. t.at \in WithSession => t.mine.session # None
  BY DEF Placed
<1>3. t.at \in WithSession => t.at \notin Idle
  BY DEF WithSession, Idle
<1>4. Made(t) \in Sessions \cup {None}
  BY DEF Placed, Made, Making
<1> QED
  BY <1>1, <1>2, <1>3, <1>4 DEF Has

LEMMA KeepSends ==
  ASSUME NEW S \in SessionMaps, NEW T \in SessionMaps, SessionsKeep(S, T), NEW n \in Nat,
         NEW F \in [Follows -> Threads], \A f \in Follows : Placed(F[f], n), NEW x \in Sittings,
         SendsOf(S, n, F, x),
         \A f \in Follows : F[f].at = "send" =>
             T[F[f].mine.session].at \in {S[F[f].mine.session].at, "gone"},
         \A f \in Follows : HeldBy(x, F[f], f) /\ F[f].at = "send" =>
             (S[F[f].mine.session].at = "busy" => T[F[f].mine.session].at = "busy"),
         \A f \in Follows : F[f].at = "resume" => S[F[f].mine.session].at = "gone"
  PROVE  SendsOf(T, n, F, x)
<1>1. \A f \in Follows : F[f] \in Threads /\ Placed(F[f], n)
  OBVIOUS
<1>2. \A f \in Follows : Has(F[f]) => F[f].mine.session \in Sessions
  BY <1>1, PlacedHas
<1>3. LogInv(T, n) /\ OnceInv(T) /\ FileCounts(T, x)
  BY KeepLog, KeepOnce, KeepCounts DEF SendsOf
<1>4. ViewsOf(T, F, x)
  <2> SUFFICES ASSUME NEW f \in Follows, Has(F[f])
               PROVE  Good(T, F[f].mine) /\ Behind(T, F[f].mine, x)
    BY DEF ViewsOf
  <2>1. Good(S, F[f].mine) /\ Behind(S, F[f].mine, x) /\ F[f].mine.session \in Sessions
    BY <1>2 DEF SendsOf, ViewsOf
  <2> QED
    BY <2>1, KeepGood, KeepBehind
<1>5. AlikeOf(T, F)
  <2> SUFFICES ASSUME NEW f \in Follows, NEW g \in Follows, Has(F[f]), Has(F[g])
               PROVE  Alike(T, F[f].mine, F[g].mine)
    BY DEF AlikeOf
  <2>1. Alike(S, F[f].mine, F[g].mine) /\ F[f].mine.session \in Sessions
         /\ F[g].mine.session \in Sessions
    BY <1>2 DEF SendsOf, AlikeOf
  <2> QED
    BY <2>1, KeepAlike
<1>6. PlacesOf(T, F, x)
  <2> SUFFICES ASSUME NEW f \in Follows
               PROVE  Stands(T, F[f]) /\ (HeldBy(x, F[f], f) => HolderStands(T, F[f], x))
    BY DEF PlacesOf
  <2> DEFINE t == F[f]
  <2>1. t.at \in WithSession => Has(t) /\ t.mine.session \in Sessions
    BY <1>1, PlacedHas
  <2>2. Made(t) \in Sessions \cup {None}
    BY <1>1, PlacedHas
  <2>3. Stands(S, t) /\ (HeldBy(x, t, f) => HolderStands(S, t, x))
    BY DEF SendsOf, PlacesOf
  <2>4. t.at \in {"send", "isBusy", "stream", "answer", "resume"} => t.mine.session \in Sessions
    BY <2>1 DEF WithSession
  <2>5. t.at = "answer" => S[t.mine.session].at # "none"
    BY <2>1 DEF SendsOf, ViewsOf, Good, WithSession
  <2>6. t.at = "send" => T[t.mine.session].at \in {S[t.mine.session].at, "gone"}
    OBVIOUS
  <2>7. HeldBy(x, t, f) /\ t.at = "send" =>
            (S[t.mine.session].at = "busy" => T[t.mine.session].at = "busy")
    OBVIOUS
  <2>11. t.at = "send" => Good(S, t.mine) /\ S[t.mine.session].at # "none"
    BY <2>1 DEF SendsOf, ViewsOf, Good, WithSession
  <2>8. t.at = "resume" => S[t.mine.session].at = "gone"
    OBVIOUS
  <2> HIDE DEF t
  <2>9. Stands(T, t)
    BY <2>2, <2>3, <2>4, <2>6, KeepStands
  <2>10. ASSUME HeldBy(x, t, f) PROVE HolderStands(T, t, x)
    BY <2>3, <2>4, <2>5, <2>6, <2>7, <2>8, <2>10, <2>11, KeepHolder
  <2> QED
    BY <2>9, <2>10 DEF t
<1> QED
  BY <1>3, <1>4, <1>5, <1>6 DEF SendsOf

----------------------------------------------------------------------------
(* The file and the follows change.                                        *)

LEMMA AlikeSym == ASSUME NEW S, NEW x, NEW y, Alike(S, x, y) PROVE Alike(S, y, x)
BY DEF Alike

\* A follow that writes has then seen what every other saw, or is behind it.
LEMMA BehindAlike ==
  ASSUME NEW S, NEW x, NEW y, Behind(S, x, y), y.turn PROVE Alike(S, x, y)
BY DEF Behind, Alike

LEMMA BehindSelf ==
  ASSUME NEW S, NEW y \in Sittings, y.turn PROVE Behind(S, y, y) /\ Alike(S, y, y)
<1>1. y.turns \in Nat
  BY DEF Sittings
<1> QED
  BY <1>1 DEF Behind, Alike

\* Any move of the follows and the file, G and y, by which a follow keeps what it saw
\* of the sitting or sees y.
LEMMA MovesSend ==
  ASSUME NEW S, NEW n, NEW F, NEW x, SendsOf(S, n, F, x), NEW G, NEW y \in Sittings,
         NEW k, LogInv(S, k), FileCounts(S, y),
         \A f \in Follows : Has(F[f]) => Behind(S, F[f].mine, y),
         \A f \in Follows : G[f].at \notin Idle =>
             (F[f].at \notin Idle /\ G[f].mine = F[f].mine) \/ (y.turn /\ G[f].mine = y),
         \A f \in Follows : Made(G[f]) = None \/ Made(G[f]) = Made(F[f])
          \/ S[Made(G[f])].at = "none",
         y.turn => \A f \in Follows : Made(G[f]) # None => Made(G[f]) # y.session,
         \A f \in Follows : Stands(S, G[f]) /\ (HeldBy(y, G[f], f) => HolderStands(S, G[f], y)),
         NewOf(G, y)
  PROVE  SendsOf(S, k, G, y)
<1>1. \A f \in Follows : Has(G[f]) =>
         \/ Has(F[f]) /\ G[f].mine = F[f].mine
         \/ y.turn /\ G[f].mine = y /\ y.session # None
  BY DEF Has
<1>2. ViewsOf(S, G, y)
  <2> SUFFICES ASSUME NEW f \in Follows, Has(G[f])
               PROVE  Good(S, G[f].mine) /\ Behind(S, G[f].mine, y)
    BY DEF ViewsOf
  <2>1. CASE Has(F[f]) /\ G[f].mine = F[f].mine
    BY <2>1 DEF SendsOf, ViewsOf
  <2>2. CASE y.turn /\ G[f].mine = y /\ y.session # None
    BY <2>2, BehindSelf DEF FileCounts
  <2> QED
    BY <1>1, <2>1, <2>2
<1>3. ApartOf(G)
  <2> SUFFICES ASSUME NEW f \in Follows, NEW g \in Follows, Has(G[f])
               PROVE  Made(G[g]) # G[f].mine.session
    BY DEF ApartOf
  <2>1. CASE Has(F[f]) /\ G[f].mine = F[f].mine
    <3>1. Made(F[g]) # F[f].mine.session /\ F[f].mine.session # None
      BY <2>1 DEF SendsOf, ApartOf, Has
    <3>2. S[F[f].mine.session].at # "none"
      BY <2>1 DEF SendsOf, ViewsOf, Good
    <3> QED
      BY <2>1, <3>1, <3>2
  <2>2. CASE y.turn /\ G[f].mine = y /\ y.session # None
    BY <2>2
  <2> QED
    BY <1>1, <2>1, <2>2
<1>4. AlikeOf(S, G)
  <2> SUFFICES ASSUME NEW f \in Follows, NEW g \in Follows, Has(G[f]), Has(G[g])
               PROVE  Alike(S, G[f].mine, G[g].mine)
    BY DEF AlikeOf
  <2>1. CASE /\ Has(F[f]) /\ G[f].mine = F[f].mine
             /\ Has(F[g]) /\ G[g].mine = F[g].mine
    BY <2>1 DEF SendsOf, AlikeOf
  <2>2. CASE /\ Has(F[f]) /\ G[f].mine = F[f].mine
             /\ y.turn /\ G[g].mine = y
    BY <2>2, BehindAlike
  <2>3. CASE /\ Has(F[g]) /\ G[g].mine = F[g].mine
             /\ y.turn /\ G[f].mine = y
    BY <2>3, BehindAlike, AlikeSym
  <2>4. CASE y.turn /\ G[f].mine = y /\ G[g].mine = y
    BY <2>4, BehindSelf
  <2> QED
    BY <1>1, <2>1, <2>2, <2>3, <2>4
<1>5. PlacesOf(S, G, y)
  BY DEF PlacesOf
<1> QED
  BY <1>2, <1>3, <1>4, <1>5 DEF SendsOf

\* Places where a follow knows nothing of what its message has become.
Loose == Places \ ({"begin", "resume"} \cup WithSession \cup Making)

LEMMA LooseStands ==
  ASSUME NEW S, NEW t, NEW y, t.at \in Loose \cup {"taken"}
  PROVE  Stands(S, t) /\ HolderStands(S, t, y) /\ Made(t) = None
<1>1. t.at \notin {"begin", "resume", "send", "isBusy", "stream", "answer", "record", "abandon"}
  BY DEF Loose, WithSession, Making
<1> QED
  BY <1>1 DEF Stands, HolderStands, Made, Making, None

LEMMA SameView ==
  ASSUME NEW S, NEW x, NEW y, y.session = x.session, y.turns = x.turns, y.turn <=> x.turn,
         LastMessage(y) = LastMessage(x), ~y.turn /\ Lives(y) => Lives(x)
  PROVE  /\ FileCounts(S, x) => FileCounts(S, y)
         /\ \A v : Behind(S, v, x) => Behind(S, v, y)
<1>1. Good(S, x) => Good(S, y)
  BY DEF Good
<1>2. FileCounts(S, x) => FileCounts(S, y)
  BY <1>1 DEF FileCounts
<1>3. \A v : Behind(S, v, x) => Behind(S, v, y)
  BY DEF Behind
<1> QED
  BY <1>2, <1>3

LEMMA SendTypes ==
  ASSUME HeldShapes
  PROVE  /\ session \in SessionMaps /\ sent \in Nat /\ follow \in [Follows -> Threads]
         /\ file \in Sittings /\ \A f \in Follows : Placed(follow[f], sent)
<1>1. SittingInv /\ session \in [Sessions -> SessionRecords]
  BY DEF HeldShapes, Shapes, OuterShapes
<1>2. FileShapes /\ \A f \in Follows : Placed(follow[f], sent)
  BY <1>1 DEF SittingInv, ThreadInv
<1>3. sent \in Nat
  BY <1>2, SentType
<1> QED
  BY <1>1, <1>2, <1>3 DEF SessionMaps, FileShapes

\* A follow moves, the file as it is.
LEMMA MoveOf ==
  ASSUME NEW S, NEW n, NEW F \in [Follows -> Threads], NEW x \in Sittings, SendsOf(S, n, F, x),
         NEW f \in Follows, NEW u, NEW G, G = [F EXCEPT ![f] = u],
         u.at # "begin", u.at \notin Idle => F[f].at \notin Idle /\ u.mine = F[f].mine,
         Made(u) = None \/ Made(u) = Made(F[f]) \/ S[Made(u)].at = "none",
         x.session # None => Made(u) # x.session /\ \A g \in Follows : Made(F[g]) # x.session,
         Stands(S, u), HeldBy(x, u, f) => HolderStands(S, u, x)
  PROVE  SendsOf(S, n, G, x)
<1>1. G[f] = u /\ \A g \in Follows \ {f} : G[g] = F[g]
  OBVIOUS
<1>2. LogInv(S, n) /\ FileCounts(S, x)
  BY DEF SendsOf
<1>3. \A g \in Follows : Has(F[g]) => Behind(S, F[g].mine, x)
  BY DEF SendsOf, ViewsOf
<1>4. \A g \in Follows : G[g].at \notin Idle => F[g].at \notin Idle /\ G[g].mine = F[g].mine
  BY <1>1
<1>5. \A g \in Follows : Made(G[g]) = None \/ Made(G[g]) = Made(F[g]) \/ S[Made(G[g])].at = "none"
  BY <1>1
<1>6. x.turn => \A g \in Follows : Made(G[g]) # None => Made(G[g]) # x.session
  BY <1>1
<1>7. \A g \in Follows : Stands(S, G[g]) /\ (HeldBy(x, G[g], g) => HolderStands(S, G[g], x))
  BY <1>1 DEF SendsOf, PlacesOf
<1>8. NewOf(G, x)
  BY <1>1, <1>4 DEF SendsOf, NewOf
<1> QED
  BY ZenonT(40), <1>2, <1>3, <1>4, <1>5, <1>6, <1>7, <1>8, MovesSend

LEMMA MoveSends ==
  ASSUME HeldShapes, SendInv, file' = file, NEW f \in Follows, NEW u,
         follow' = [follow EXCEPT ![f] = u],
         u.at # "begin", u.at \notin Idle => follow[f].at \notin Idle /\ u.mine = follow[f].mine,
         Made(u) = None \/ Made(u) = Made(follow[f]) \/ session[Made(u)].at = "none",
         file.session # None => Made(u) # file.session,
         Stands(session, u), HeldBy(file, u, f) => HolderStands(session, u, file)
  PROVE  SendsOf(session, sent, follow', file')
<1>1. follow \in [Follows -> Threads] /\ file \in Sittings
  BY SendTypes
<1>2. file.session # None => \A g \in Follows : Made(follow[g]) # file.session
  BY DEF HeldShapes, OwnInv, FileOwns
<1>3. SendsOf(session, sent, follow, file)
  BY DEF SendInv
<1>4. SendsOf(session, sent, follow', file)
  BY <1>1, <1>2, <1>3, MoveOf
<1> QED
  BY <1>4

\* Follows end, and the file may be let go of.
LEMMA EndsSends ==
  ASSUME HeldShapes, SendInv, NEW y \in Sittings, file' = y, FileCounts(session, y),
         \A g \in Follows : Has(follow[g]) => Behind(session, follow[g].mine, y),
         \/ y = file
         \/ y.by = None /\ (y.session # None => y.session = file.session),
         \A g \in Follows : \/ follow'[g].at = "over" /\ Made(follow'[g]) = None
                            \/ /\ follow'[g].at = follow[g].at /\ follow'[g].mine = follow[g].mine
                               /\ follow'[g].id = follow[g].id /\ follow'[g].got = follow[g].got
                               /\ follow'[g].unsent <=> follow[g].unsent
  PROVE  SendsOf(session, sent, follow', file')
<1> DEFINE S == session
           G == follow'
<1>1. SendsOf(S, sent, follow, file) /\ LogInv(S, sent)
  BY DEF SendInv, SendsOf
<1>2. \A g \in Follows : G[g].at \notin Idle => follow[g].at \notin Idle
       /\ G[g].mine = follow[g].mine
  BY DEF Idle
<1>3. \A g \in Follows : Made(G[g]) = None \/ Made(G[g]) = Made(follow[g])
  BY DEF Made
<1>4. y.turn => \A g \in Follows : Made(G[g]) # None => Made(G[g]) # y.session
  BY <1>3 DEF HeldShapes, OwnInv, FileOwns
<1>5. ASSUME NEW g \in Follows PROVE Stands(S, G[g]) /\ (HeldBy(y, G[g], g) => HolderStands(S,
             G[g], y))
  <2>1. CASE G[g].at = "over"
    BY <2>1, LooseStands DEF Loose, WithSession, Making, Places
  <2>2. CASE G[g].at # "over"
    <3>1. Stands(S, follow[g]) /\ (HeldBy(file, follow[g], g) => HolderStands(S, follow[g], file))
      BY <1>1 DEF SendsOf, PlacesOf
    <3>2. /\ G[g].at = follow[g].at /\ G[g].mine = follow[g].mine /\ G[g].id = follow[g].id
          /\ G[g].got = follow[g].got /\ (G[g].unsent <=> follow[g].unsent)
      BY <2>2
    <3>3. Stands(S, G[g])
      BY <3>1, <3>2 DEF Stands, Made
    <3>4. ASSUME HeldBy(y, G[g], g) PROVE HolderStands(S, G[g], y)
      <4>1. y = file
        BY <3>4, NoneIsNone DEF HeldBy
      <4> QED
        BY <3>1, <3>2, <3>4, <4>1 DEF HeldBy, HolderStands
    <3> QED
      BY <3>3, <3>4
  <2> QED
    BY <2>1, <2>2
<1>6. NewOf(G, y)
  <2> SUFFICES ASSUME NEW e \in Follows, NEW g \in Follows, HeldBy(y, G[e], e),
                      G[e].at = "begin", G[e].unsent, G[g].at \notin Idle
               PROVE  LastMessage(G[g].mine) # LastMessage(y)
    BY DEF NewOf
  <2>1. y = file
    BY NoneIsNone DEF HeldBy
  <2>2. HeldBy(y, follow[e], e) /\ follow[e].at = "begin" /\ follow[e].unsent
    BY DEF HeldBy
  <2> QED
    BY <1>1, <1>2, <2>1, <2>2 DEF SendsOf, NewOf
<1> HIDE DEF S, G
<1>7. SendsOf(S, sent, G, y)
  <2>1. \A g \in Follows : Has(follow[g]) => Behind(S, follow[g].mine, y)
    BY DEF S
  <2>2. FileCounts(S, y)
    BY DEF S
  <2>3. \A g \in Follows : Stands(S, G[g]) /\ (HeldBy(y, G[g], g) => HolderStands(S, G[g], y))
    BY <1>5
  <2> QED
    BY <1>1, <1>2, <1>3, <1>4, <1>6, <2>1, <2>2, <2>3, MovesSend
<1> QED
  BY <1>7 DEF S, G

\* The follow that holds the turn writes y.
LEMMA HolderSends ==
  ASSUME HeldShapes, SendInv, NEW f \in Follows, Holds(f),
         NEW y \in Sittings, file' = y, y.turn, y.by = file.by, FileCounts(session, y),
         \A g \in Follows : Has(follow[g]) => Behind(session, follow[g].mine, y),
         \A g \in Follows \ {f} : Made(follow[g]) # None => Made(follow[g]) # y.session,
         NEW u, follow' = [follow EXCEPT ![f] = u], u.at \notin Idle, u.mine = y, Made(u) = None,
         Stands(session, u), HolderStands(session, u, y)
  PROVE  SendsOf(session, sent, follow', file')
<1> DEFINE S == session
           G == follow'
<1>0. follow \in [Follows -> Threads]
  BY SendTypes
<1>1. G[f] = u /\ \A g \in Follows \ {f} : G[g] = follow[g]
  BY <1>0
<1>2. SendsOf(S, sent, follow, file) /\ LogInv(S, sent)
  BY DEF SendInv, SendsOf
<1>3. y.by = f
  BY DEF Holds
<1>4. \A g \in Follows : G[g].at \notin Idle =>
         (follow[g].at \notin Idle /\ G[g].mine = follow[g].mine) \/ (y.turn /\ G[g].mine = y)
  BY <1>1
<1>5. \A g \in Follows : Made(G[g]) = None \/ Made(G[g]) = Made(follow[g])
  BY <1>1
<1>6. \A g \in Follows : Made(G[g]) # None => Made(G[g]) # y.session
  BY <1>1
<1>7. \A g \in Follows : Stands(S, G[g]) /\ (HeldBy(y, G[g], g) => HolderStands(S, G[g], y))
  BY <1>1, <1>2, <1>3 DEF SendsOf, PlacesOf, HeldBy
<1>8. NewOf(G, y)
  BY <1>1, <1>3 DEF NewOf, HeldBy, Idle
<1> HIDE DEF S, G
<1>9. SendsOf(S, sent, G, y)
  <2>1. \A g \in Follows : Has(follow[g]) => Behind(S, follow[g].mine, y)
    BY DEF S
  <2>2. FileCounts(S, y)
    BY DEF S
  <2> QED
    BY <1>2, <1>4, <1>5, <1>6, <1>7, <1>8, <2>1, <2>2, MovesSend
<1> QED
  BY <1>9 DEF S, G

\* What holds of the file holds of it as it is.
LEMMA FileSends ==
  ASSUME SendInv
  PROVE  /\ FileCounts(session, file)
         /\ \A g \in Follows : Has(follow[g]) => Behind(session, follow[g].mine, file)
BY DEF SendInv, SendsOf, ViewsOf

\* A follow that ends leaves the rest as it is.
LEMMA EndSends ==
  ASSUME HeldShapes, SendInv, NEW f \in Follows, Ends(f), UNCHANGED file
  PROVE  SendsOf(session, sent, follow', file')
<1>1. Over(follow[f]).at = "over" /\ Made(Over(follow[f])) = None
  BY OverType DEF Made, Making
<1> DEFINE u == Over(follow[f])
<1>2. follow' = [follow EXCEPT ![f] = u]
  BY DEF Ends
<1>3. Stands(session, u) /\ HolderStands(session, u, file)
  BY <1>1, LooseStands DEF Loose, WithSession, Making, Places
<1> HIDE DEF u
<1>4. u.at # "begin" /\ u.at \in Idle /\ Made(u) = None
  BY <1>1 DEF Idle, u
<1>5. file.session # None => Made(u) # file.session
  BY <1>4
<1> QED
  BY <1>2, <1>3, <1>4, <1>5, MoveSends

\* A step of a follow that writes x and goes to a place named.
LEMMA WritesSend ==
  ASSUME HeldShapes, SendInv, NEW f \in Follows, NEW t \in Threads, NEW x,
         NEW at \in Places \ (Idle \cup Making \cup {"resume", "answer"}),
         Writes(f, x, [t EXCEPT !.at = at]),
         Holds(f) =>
             /\ x \in Sittings /\ x.turn /\ x.by = file.by /\ FileCounts(session, x)
             /\ \A g \in Follows : Has(follow[g]) => Behind(session, follow[g].mine, x)
             /\ \A g \in Follows \ {f} : Made(follow[g]) # None => Made(follow[g]) # x.session
             /\ at = "send" =>
                   /\ \/ session[x.session].at = "gone"
                      \/ session[x.session].at = "idle" /\ Count(session, x.session) = x.turns
                   /\ session[x.session].at = "gone" => ~Taken(session, LastMessage(x))
             /\ at \in {"isBusy", "stream"} => Count(session, x.session) > x.turns
  PROVE  SendsOf(session, sent, follow', file')
<1> DEFINE u == [t EXCEPT !.at = at]
           v == [u EXCEPT !.mine = x]
<1>1. u.at = at /\ at # "over" /\ at \notin Idle
  BY DEF Threads, Idle
<1>2. v.at = at /\ v.mine = x
  BY DEF Threads
<1>3. CASE ~Holds(f)
  BY <1>3, EndSends DEF Writes
<1>4. CASE Holds(f)
  <2>1. file' = x /\ follow' = [follow EXCEPT ![f] = v]
    BY <1>1, <1>4 DEF Writes
  <2> HIDE DEF u, v
  <2>2. Made(v) = None
    BY <1>2 DEF Made
  <2>3. Stands(session, v)
    BY <1>2, <1>4, <2>2 DEF Stands
  <2>4. HolderStands(session, v, x)
    BY <1>2, <1>4 DEF HolderStands, Idle
  <2>5. v.at \notin Idle
    BY <1>1, <1>2
  <2> QED
    BY <1>2, <1>4, <2>1, <2>2, <2>3, <2>4, <2>5, HolderSends
<1> QED
  BY <1>3, <1>4

\* Where what it writes says of the turn what the file says.
LEMMA WritesSameSend ==
  ASSUME HeldShapes, SendInv, NEW f \in Follows, NEW t \in Threads, NEW x,
         NEW at \in Places \ (Idle \cup Making \cup {"resume", "answer"}),
         Writes(f, x, [t EXCEPT !.at = at]),
         Holds(f) =>
             /\ x \in Sittings /\ x.turn /\ x.by = file.by /\ x.session = file.session
             /\ x.turns = file.turns /\ x.transcript = file.transcript
             /\ at = "send" =>
                   /\ \/ session[x.session].at = "gone"
                      \/ session[x.session].at = "idle" /\ Count(session, x.session) = x.turns
                   /\ session[x.session].at = "gone" => ~Taken(session, LastMessage(x))
             /\ at \in {"isBusy", "stream"} => Count(session, x.session) > x.turns
  PROVE  SendsOf(session, sent, follow', file')
<1>1. ASSUME Holds(f)
      PROVE  /\ FileCounts(session, x)
             /\ \A g \in Follows : Has(follow[g]) => Behind(session, follow[g].mine, x)
             /\ \A g \in Follows \ {f} : Made(follow[g]) # None => Made(follow[g]) # x.session
  <2>1. file.turn
    BY <1>1, HolderHas DEF HeldShapes, Shapes
  <2>2. LastMessage(x) = LastMessage(file)
    BY <1>1 DEF LastMessage
  <2>3. /\ FileCounts(session, file) => FileCounts(session, x)
        /\ \A v : Behind(session, v, file) => Behind(session, v, x)
    <3>1. (x.turn <=> file.turn) /\ (~x.turn /\ Lives(x) => Lives(file))
      BY <1>1, <2>1
    <3> QED
      BY <1>1, <2>2, <3>1, SameView
  <2>4. \A g \in Follows \ {f} : Made(follow[g]) # None => Made(follow[g]) # x.session
    BY <1>1 DEF HeldShapes, OwnInv, FileOwns
  <2> QED
    BY <2>3, <2>4, FileSends
<1> QED
  BY <1>1, WritesSend

----------------------------------------------------------------------------
(* The follow's steps.                                                     *)

\* A follow that hears something and goes to a place that knows nothing.
LEMMA HearsSend ==
  ASSUME HeldShapes, SendInv, NEW f \in Follows, NEW u, Hears(f, u), follow[f].at \notin Idle,
         u.mine = follow[f].mine, u.at \in Loose \cup {"taken"}
  PROVE  SendsOf(session, sent, follow', file')
<1>1. Stands(session, u) /\ HolderStands(session, u, file) /\ Made(u) = None
  BY LooseStands
<1>2. u.at # "begin"
  BY DEF Loose
<1>3. file' = file /\ follow' = [follow EXCEPT ![f] = u]
  BY DEF Hears
<1>4. file.session # None => Made(u) # file.session
  BY <1>1
<1> QED
  BY <1>1, <1>2, <1>3, <1>4, MoveSends

LEMMA LoosePlaces ==
  /\ {"failed", "pick", "picked", "pickedStopped", "ready", "restart", "start", "coming",
      "creating", "create"} \subseteq Loose
  /\ Loose \subseteq Places
BY DEF Loose, Places, WithSession, Making

LEMMA FailsSend ==
  ASSUME HeldShapes, SendInv, NEW f \in Follows, NEW why, Hears(f, Fails(follow[f], why)),
         follow[f].at \notin Idle
  PROVE  SendsOf(session, sent, follow', file')
<1>1. follow[f] \in Threads
  BY SendTypes
<1>2. Fails(follow[f], why).at = "failed" /\ Fails(follow[f], why).mine = follow[f].mine
  BY <1>1 DEF Fails, Threads
<1> QED
  BY <1>2, HearsSend, LoosePlaces

LEMMA PicksSend ==
  ASSUME HeldShapes, SendInv, NEW f \in Follows, FollowPicks(f)
  PROVE  SendsOf(session, sent, follow', file')
<1>1. follow[f] \in Threads /\ follow[f].at = "pick" /\ follow[f].at \notin Idle
  BY SendTypes DEF FollowPicks, Idle
<1>2. ASSUME NEW e \in Envs, NEW at \in Picked, Hears(f, [follow[f] EXCEPT !.at = at, !.got = e])
      PROVE  SendsOf(session, sent, follow', file')
  <2> DEFINE u == [follow[f] EXCEPT !.at = at, !.got = e]
  <2>1. u.at \in Loose /\ u.mine = follow[f].mine
    BY <1>1, LoosePlaces DEF Threads, Picked
  <2> HIDE DEF u
  <2>2. Hears(f, u)
    BY <1>2 DEF u
  <2> QED
    BY <1>1, <2>1, <2>2, HearsSend
<1>3. CASE Hears(f, Loses(follow[f]))
  BY <1>1, <1>3, FailsSend DEF Loses
<1> QED
  BY <1>2, <1>3 DEF FollowPicks, Picked

LEMMA ReadiesSend ==
  ASSUME HeldShapes, SendInv, NEW f \in Follows, FollowReadies(f)
  PROVE  SendsOf(session, sent, follow', file')
<1>1. follow[f] \in Threads /\ follow[f].at = "ready" /\ follow[f].at \notin Idle
  BY SendTypes DEF FollowReadies, Idle
<1>2. ASSUME NEW at \in {"restart", "start", "creating"}, Hears(f, [follow[f] EXCEPT !.at = at])
      PROVE  SendsOf(session, sent, follow', file')
  <2> DEFINE u == [follow[f] EXCEPT !.at = at]
  <2>1. u.at \in Loose /\ u.mine = follow[f].mine
    BY <1>1, LoosePlaces DEF Threads
  <2> HIDE DEF u
  <2>2. Hears(f, u)
    BY <1>2 DEF u
  <2> QED
    BY <1>1, <2>1, <2>2, HearsSend
<1>3. ASSUME NEW why, Hears(f, Fails(follow[f], why)) PROVE SendsOf(session, sent, follow', file')
  BY <1>1, <1>3, FailsSend
<1> QED
  BY <1>2, <1>3 DEF FollowReadies, Loses

LEMMA StartsSend ==
  ASSUME HeldShapes, SendInv, NEW f \in Follows, FollowStarts(f) \/ FollowHearsStart(f)
  PROVE  SendsOf(session, sent, follow', file')
<1>1. follow[f] \in Threads /\ follow[f].at \in {"start", "coming"} /\ follow[f].at \notin Idle
  BY SendTypes DEF FollowStarts, FollowHearsStart, Idle
<1>2. ASSUME NEW at \in {"creating", "coming"}, follow' = [follow EXCEPT ![f].at = at],
             file' = file
      PROVE  SendsOf(session, sent, follow', file')
  <2> DEFINE u == [follow[f] EXCEPT !.at = at]
  <2>1. u.at \in Loose /\ u.mine = follow[f].mine
    BY <1>1, LoosePlaces DEF Threads
  <2>2. follow' = [follow EXCEPT ![f] = u]
    BY <1>2, SendTypes
  <2> HIDE DEF u
  <2>3. Stands(session, u) /\ HolderStands(session, u, file) /\ Made(u) = None
    BY <2>1, LooseStands
  <2>4. u.at # "begin" /\ (file.session # None => Made(u) # file.session)
    BY <2>1, <2>3 DEF Loose
  <2> QED
    BY <1>1, <1>2, <2>1, <2>2, <2>3, <2>4, MoveSends
<1>3. ASSUME Hears(f, [follow[f] EXCEPT !.at = "creating"])
      PROVE  SendsOf(session, sent, follow', file')
  <2>1. follow' = [follow EXCEPT ![f].at = "creating"] /\ file' = file
    BY <1>3, SendTypes DEF Hears
  <2> QED
    BY <1>2, <2>1
<1>4. CASE Hears(f, Loses(follow[f]))
  BY <1>1, <1>4, FailsSend DEF Loses
<1> QED
  BY <1>2, <1>3, <1>4 DEF FollowStarts, FollowHearsStart, Goes

LEMMA AdvanceTo ==
  ASSUME NEW x, NEW t
  PROVE  /\ Advance(x, t) \in {"pick", "ready", "start", "creating", "send", "taken"}
         /\ Advance(x, t) \in Places \ (Idle \cup Making \cup {"resume", "answer"})
         /\ Advance(x, t) \notin {"isBusy", "stream"}
         /\ Advance(x, t) = "send" => t.unsent /\ x.session # None
<1>1. Advance(x, t) \in {"pick", "ready", "start", "creating", "send", "taken"}
  BY DEF Advance
<1>2. Advance(x, t) = "send" => t.unsent /\ x.session # None
  BY DEF Advance
<1> QED
  BY <1>1, <1>2 DEF Places, Idle, Making

LEMMA HoldsIs == \A f \in Follows : Holds(f) <=> HeldBy(file, follow[f], f)
BY DEF Holds, HeldBy

\* A message not taken, of a turn whose session may take it.
LEMMA NotTaken ==
  ASSUME NEW S \in SessionMaps, NEW y \in Sittings, Good(S, y), y.session # None,
         ~Taken(S, LastMessage(y))
  PROVE  S[y.session].at = "gone" \/ (S[y.session].at = "idle" /\ Count(S, y.session) = y.turns)
<1> DEFINE s == y.session
           m == LastMessage(y)
<1>1. s \in Sessions /\ S[s] \in SessionRecords /\ y.turns \in Nat
  BY DEF SessionMaps, Sittings
<1>2. Count(S, s) \in Nat /\ DOMAIN S[s].took = 1..Count(S, s)
  BY <1>1 DEF SessionRecords, Count
<1>3. Count(S, s) >= y.turns /\ S[s].at # "none" /\ (S[s].at = "busy" => Count(S, s) > y.turns)
  BY DEF Good
<1>4. ASSUME Count(S, s) > y.turns PROVE FALSE
  <2>1. S[s].took[y.turns + 1] = m
    BY <1>4 DEF Good
  <2>2. y.turns + 1 \in DOMAIN S[s].took
    BY <1>1, <1>2, <1>4
  <2> QED
    BY <1>1, <2>1, <2>2 DEF Taken
<1>5. S[s].at \in {"none", "idle", "busy", "gone"}
  BY <1>1 DEF SessionRecords
<1> QED
  BY <1>1, <1>2, <1>3, <1>4, <1>5

LEMMA BeginsSend ==
  ASSUME HeldShapes, SendInv, NEW f \in Follows, FollowBegins(f)
  PROVE  SendsOf(session, sent, follow', file')
<1> DEFINE t == follow[f]
<1>0. SittingInv
  BY DEF HeldShapes, Shapes
<1>1. t \in Threads /\ t.at = "begin" /\ session \in SessionMaps /\ file \in Sittings
  BY SendTypes DEF FollowBegins
<1>2. CASE pod[t.pod].stopped
  <2>1. file' = Left(f) /\ follow' = [follow EXCEPT ![f] = Over(t)]
    BY <1>2 DEF FollowBegins, Ends
  <2>2. Over(t).at = "over" /\ Made(Over(t)) = None
    BY OverType DEF Made, Making
  <2>3. CASE ~Holds(f)
    <3>1. Ends(f) /\ UNCHANGED file
      BY <2>1, <2>3, <1>0, LeftIs DEF Ends
    <3> QED
      BY <3>1, EndSends
  <2>4. CASE Holds(f)
    <3> DEFINE y == Left(f)
    <3>1. y \in Sittings /\ y.by = None /\ y = [file EXCEPT !.by = None]
      BY <1>0, <2>4, LeftIs
    <3>2. /\ y.session = file.session /\ y.turns = file.turns /\ (y.turn <=> file.turn)
          /\ y.transcript = file.transcript /\ y.id = file.id /\ y.status = file.status
      BY <1>1, <3>1 DEF Sittings
    <3> HIDE DEF y
    <3>3. LastMessage(y) = LastMessage(file) /\ (Lives(y) => Lives(file))
      BY <3>2 DEF LastMessage, Lives
    <3>4. /\ FileCounts(session, file) => FileCounts(session, y)
          /\ \A v : Behind(session, v, file) => Behind(session, v, y)
      BY <3>2, <3>3, SameView
    <3>5. FileCounts(session, y) /\ \A g \in Follows : Has(follow[g]) => Behind(session,
           follow[g].mine, y)
      BY <3>4, FileSends
    <3>6. \A g \in Follows : \/ follow'[g].at = "over" /\ Made(follow'[g]) = None
                             \/ follow'[g] = follow[g]
      BY <2>1, <2>2, SendTypes
    <3>7. file' = y
      BY <2>1 DEF y
    <3> QED
      BY <3>1, <3>2, <3>5, <3>6, <3>7, EndsSends
  <2> QED
    BY <2>3, <2>4
<1>3. CASE ~pod[t.pod].stopped
  <2> DEFINE at == Advance(file, t)
  <2>1. Writes(f, file, [t EXCEPT !.at = at])
    BY <1>3 DEF FollowBegins
  <2>2. at \in Places \ (Idle \cup Making \cup {"resume", "answer"}) /\ at \notin {"isBusy",
         "stream"}
    BY AdvanceTo
  <2>3. ASSUME Holds(f), at = "send"
        PROVE  /\ \/ session[file.session].at = "gone"
                  \/ session[file.session].at = "idle" /\ Count(session, file.session) = file.turns
               /\ ~Taken(session, LastMessage(file))
    <3>1. t.unsent /\ file.session # None
      BY <2>3, AdvanceTo
    <3>2. HolderStands(session, t, file)
      BY <2>3, HoldsIs DEF SendInv, SendsOf, PlacesOf
    <3>3. ~Taken(session, LastMessage(file))
      BY <1>1, <3>1, <3>2 DEF HolderStands
    <3>4. file.turn
      BY <1>0, <2>3, HolderHas
    <3>5. Good(session, file)
      BY <3>1, <3>4, FileSends DEF FileCounts
    <3> QED
      BY <1>1, <3>1, <3>3, <3>5, NotTaken
  <2> HIDE DEF at
  <2>4. Holds(f) => file.turn
    BY <1>0, HolderHas
  <2> QED
    BY <1>1, <2>1, <2>2, <2>3, <2>4, WritesSameSend
<1> QED
  BY <1>2, <1>3

LEMMA TakesSend ==
  ASSUME HeldShapes, SendInv, NEW f \in Follows, FollowTakes(f)
  PROVE  SendsOf(session, sent, follow', file')
<1> DEFINE t == [follow[f] EXCEPT !.got = None]
           x == [file EXCEPT !.env = follow[f].got, !.started = follow[f].at = "pickedStopped"]
           at == Advance(x, t)
<1>0. SittingInv
  BY DEF HeldShapes, Shapes
<1>1. follow[f] \in Threads /\ Placed(follow[f], sent) /\ follow[f].at \in Picked
  BY SendTypes DEF FollowTakes, Picked
<1>2. t \in Threads
  BY <1>1 DEF Threads, None
<1>3. follow[f].got \in Envs /\ AtWork(f)
  BY <1>1 DEF Placed, Picked, AtWork
<1>4. Writes(f, x, [t EXCEPT !.at = at])
  BY DEF FollowTakes
<1>5. ASSUME Holds(f)
      PROVE  /\ x \in Sittings /\ x.turn /\ x.by = file.by /\ x.session = file.session
             /\ x.turns = file.turns /\ x.transcript = file.transcript /\ x.session = None
  <2>1. file \in Sittings /\ file.turn /\ file.session = None
    <3>1. follow[f].mine = file /\ file.env = None
      BY <1>0, <1>1, <1>3, <1>5, HolderHas DEF Placed
    <3> QED
      BY <1>0, <1>5, <3>1, HolderHas
  <2> QED
    BY <1>3, <2>1 DEF Sittings
<1>6. /\ at \in Places \ (Idle \cup Making \cup {"resume", "answer"})
      /\ at \notin {"isBusy", "stream"}
      /\ at = "send" => x.session # None
  BY AdvanceTo
<1> HIDE DEF x, t, at
<1> QED
  BY <1>2, <1>4, <1>5, <1>6, WritesSameSend

LEMMA RestartsSend ==
  ASSUME HeldShapes, SendInv, NEW f \in Follows, FollowRestarts(f)
  PROVE  SendsOf(session, sent, follow', file')
<1> DEFINE t == follow[f]
           x == [file EXCEPT !.started = TRUE]
<1>0. SittingInv
  BY DEF HeldShapes, Shapes
<1>1. t \in Threads
  BY SendTypes
<1>2. Writes(f, x, [t EXCEPT !.at = "start"])
  BY DEF FollowRestarts
<1>3. ASSUME Holds(f)
      PROVE  /\ x \in Sittings /\ x.turn /\ x.by = file.by /\ x.session = file.session
             /\ x.turns = file.turns /\ x.transcript = file.transcript
  <2>1. file \in Sittings /\ file.turn
    BY <1>0, <1>3, HolderHas
  <2> QED
    BY <2>1 DEF Sittings
<1>4. "start" \in Places \ (Idle \cup Making \cup {"resume", "answer"})
  BY DEF Places, Idle, Making
<1> HIDE DEF x
<1> QED
  BY <1>1, <1>2, <1>3, <1>4, WritesSameSend

LEMMA IsCreatingSends ==
  ASSUME HeldShapes, SendInv, NEW f \in Follows, FollowIsCreating(f)
  PROVE  SendsOf(session, sent, follow', file')
<1> DEFINE t == follow[f]
<1>0. SittingInv
  BY DEF HeldShapes, Shapes
<1>1. t \in Threads /\ Placed(t, sent) /\ t.at = "creating" /\ file \in Sittings
  BY SendTypes DEF FollowIsCreating
<1>2. t.got = None /\ t.at \notin Idle
  BY <1>1 DEF Placed, Picked, Making, Idle
<1>3. CASE Holds(f)
  <2>1. Writes(f, file, [t EXCEPT !.at = "create"])
    BY <1>3 DEF FollowIsCreating
  <2>2. "create" \in Places \ (Idle \cup Making \cup {"resume", "answer"})
    BY DEF Places, Idle, Making
  <2>3. file.turn
    BY <1>0, <1>3, HolderHas
  <2> QED
    BY <1>1, <2>1, <2>2, <2>3, WritesSameSend
<1>4. CASE ~Holds(f)
  <2> DEFINE u == [t EXCEPT !.at = "abandon"]
  <2>1. follow' = [follow EXCEPT ![f] = u] /\ file' = file
    BY <1>4 DEF FollowIsCreating, Hears
  <2>2. u.at = "abandon" /\ u.mine = t.mine /\ u.got = None
    BY <1>1, <1>2 DEF Threads
  <2> HIDE DEF u
  <2>3. Made(u) = None
    BY <2>2 DEF Made
  <2>4. Stands(session, u) /\ HolderStands(session, u, file)
    BY <2>2, <2>3 DEF Stands, HolderStands
  <2>5. u.at # "begin" /\ (file.session # None => Made(u) # file.session)
    BY <2>2, <2>3
  <2> QED
    BY <1>2, <2>1, <2>2, <2>3, <2>4, <2>5, MoveSends
<1> QED
  BY <1>3, <1>4

LEMMA MarksBusySends ==
  ASSUME HeldShapes, SendInv, NEW f \in Follows, FollowMarksBusy(f)
  PROVE  SendsOf(session, sent, follow', file')
<1> DEFINE t == follow[f]
           x == [file EXCEPT !.status = "busy"]
<1>0. SittingInv
  BY DEF HeldShapes, Shapes
<1>1. t \in Threads /\ t.at = "isBusy" /\ AtWork(f)
  BY SendTypes DEF FollowMarksBusy, AtWork
<1>2. Writes(f, x, [t EXCEPT !.at = "stream"])
  BY DEF FollowMarksBusy
<1>3. ASSUME Holds(f)
      PROVE  /\ x \in Sittings /\ x.turn /\ x.by = file.by /\ x.session = file.session
             /\ x.turns = file.turns /\ x.transcript = file.transcript
             /\ Count(session, x.session) > x.turns
  <2>1. file \in Sittings /\ file.turn /\ t.mine = file
    BY <1>0, <1>1, <1>3, HolderHas
  <2>2. Count(session, file.session) > file.turns
    BY <1>1, <2>1 DEF SendInv, SendsOf, PlacesOf, Stands
  <2>3. /\ x \in Sittings /\ x.turn /\ x.by = file.by /\ x.session = file.session
        /\ x.turns = file.turns /\ x.transcript = file.transcript
    BY <2>1 DEF Sittings
  <2> QED
    BY <2>2, <2>3
<1>4. "stream" \in Places \ (Idle \cup Making \cup {"resume", "answer"})
  BY DEF Places, Idle, Making
<1> HIDE DEF x
<1> QED
  BY <1>1, <1>2, <1>3, <1>4, WritesSameSend

\* What a follow at work with a session knows of it.
LEMMA SeesSession ==
  ASSUME HeldShapes, SendInv, NEW f \in Follows, follow[f].at \in WithSession
  PROVE  /\ follow[f] \in Threads /\ follow[f].mine \in Sittings /\ follow[f].at \notin Idle
         /\ follow[f].mine.session \in Sessions /\ follow[f].mine.turns \in Nat
         /\ session[follow[f].mine.session] \in SessionRecords
         /\ session[follow[f].mine.session].turns \in Nat
         /\ Count(session, follow[f].mine.session) \in Nat
         /\ Good(session, follow[f].mine) /\ Behind(session, follow[f].mine, file)
         /\ Stands(session, follow[f])
         /\ Holds(f) => HolderStands(session, follow[f], file) /\ follow[f].mine = file
                        /\ FileCounts(session, file) /\ file.turn
<1> DEFINE t == follow[f]
<1>1. t \in Threads /\ Placed(t, sent) /\ session \in SessionMaps
  BY SendTypes
<1>2. Has(t) /\ t.mine.session \in Sessions
  BY <1>1, PlacedHas
<1>3. t.mine \in Sittings /\ t.mine.turns \in Nat
  BY <1>1 DEF Threads, Sittings
<1>4. session[t.mine.session] \in SessionRecords
  BY <1>1, <1>2 DEF SessionMaps
<1>5. session[t.mine.session].turns \in Nat /\ Count(session, t.mine.session) \in Nat
  BY <1>4 DEF SessionRecords, Count
<1>6. Good(session, t.mine) /\ Behind(session, t.mine, file) /\ Stands(session, t)
      /\ (HeldBy(file, t, f) => HolderStands(session, t, file))
  BY <1>2 DEF SendInv, SendsOf, ViewsOf, PlacesOf
<1>7. t.at \notin Idle /\ AtWork(f)
  BY DEF WithSession, Idle, AtWork
<1>8. Holds(f) => t.mine = file /\ file.turn
  BY <1>7, HolderHas DEF HeldShapes, Shapes
<1> QED
  BY <1>1, <1>2, <1>3, <1>4, <1>5, <1>6, <1>7, <1>8, HoldsIs, FileSends

LEMMA SessionPlaces == WithSession = {"send", "taken", "isBusy", "stream", "answer", "resume"}
BY DEF WithSession

LEMMA AsksSend ==
  ASSUME HeldShapes, SendInv, NEW f \in Follows, FollowAsks(f)
  PROVE  SendsOf(session, sent, follow', file')
<1> DEFINE t == follow[f]
           s == t.mine.session
           taken == Its(f).at = "busy" \/ Its(f).turns > t.mine.turns
           at == IF taken THEN IsSent(t) ELSE "send"
           u == [t EXCEPT !.at = at]
<1>1. t.at = "taken" /\ Hears(f, IF Its(f).at = "gone" THEN Fails(t, "lost") ELSE u)
  BY DEF FollowAsks
<1>2. /\ t \in Threads /\ t.at \notin Idle /\ s \in Sessions /\ t.mine.turns \in Nat
      /\ session[s] \in SessionRecords /\ Good(session, t.mine)
      /\ session[s].turns \in Nat /\ Count(session, s) \in Nat
  BY <1>1, SeesSession, SessionPlaces
<1>3. CASE Its(f).at = "gone"
  BY <1>1, <1>2, <1>3, FailsSend
<1>4. CASE Its(f).at # "gone"
  <2>1. /\ session[s].at # "none" /\ Count(session, s) >= t.mine.turns
        /\ session[s].at = "busy" => Count(session, s) > t.mine.turns
    BY <1>2 DEF Good
  <2>2. /\ session[s].at = "idle" => Count(session, s) = session[s].turns
        /\ session[s].turns <= Count(session, s)
    BY <1>2 DEF SendInv, SendsOf, LogInv
  <2>3. session[s].at \in {"idle", "busy"}
    BY <1>2, <1>4, <2>1 DEF SessionRecords, Its
  <2>4. at \in {"isBusy", "stream"} => Count(session, s) > t.mine.turns
    BY <1>2, <2>1, <2>2, <2>3 DEF Its
  <2>5. at = "send" => session[s].at = "idle" /\ Count(session, s) = t.mine.turns
    BY <1>2, <2>1, <2>2, <2>3 DEF Its, IsSent
  <2>6. at \in {"isBusy", "stream", "send"}
    BY DEF IsSent
  <2> HIDE DEF at
  <2>7. u.at = at /\ u.mine = t.mine
    BY <1>2 DEF Threads
  <2>8. follow' = [follow EXCEPT ![f] = u] /\ file' = file
    BY <1>1, <1>4 DEF Hears
  <2> HIDE DEF u
  <2>9. Made(u) = None
    BY <2>6, <2>7 DEF Made, Making
  <2>10. Stands(session, u)
    BY <2>4, <2>5, <2>6, <2>7, <2>9 DEF Stands
  <2>11. HolderStands(session, u, file)
    BY <2>5, <2>6, <2>7 DEF HolderStands
  <2>12. u.at # "begin" /\ (file.session # None => Made(u) # file.session)
    BY <2>6, <2>7, <2>9
  <2> QED
    BY <1>2, <2>7, <2>8, <2>9, <2>10, <2>11, <2>12, MoveSends
<1> QED
  BY <1>3, <1>4

LEMMA ReadsSend ==
  ASSUME HeldShapes, SendInv, NEW f \in Follows, FollowReads(f)
  PROVE  SendsOf(session, sent, follow', file')
<1> DEFINE t == follow[f]
           s == t.mine.session
           next == t.mine.offset + 1
           x == Kept(file, s, next)
<1>0. SittingInv
  BY DEF HeldShapes, Shapes
<1>1. t.at = "stream"
  BY DEF FollowReads
<1>2. /\ t \in Threads /\ t.at \notin Idle /\ s \in Sessions /\ t.mine \in Sittings
      /\ t.mine.turns \in Nat /\ Count(session, s) \in Nat /\ Stands(session, t)
      /\ Holds(f) => t.mine = file /\ file.turn /\ FileCounts(session, file)
  BY <1>1, SeesSession, SessionPlaces
<1>3. Count(session, s) > t.mine.turns
  BY <1>1, <1>2 DEF Stands
<1>4. CASE Hears(f, Fails(t, "lost"))
  BY <1>2, <1>4, FailsSend
<1>5. CASE Writes(f, x, t)
  <2>1. t = [t EXCEPT !.at = "stream"]
    BY <1>1, <1>2 DEF Threads
  <2>2. Writes(f, x, [t EXCEPT !.at = "stream"])
    BY <1>5, <2>1
  <2>3. ASSUME Holds(f)
        PROVE  /\ x \in Sittings /\ x.turn /\ x.by = file.by /\ x.session = file.session
               /\ x.turns = file.turns /\ x.transcript = file.transcript
               /\ Count(session, x.session) > x.turns
    <3>1. file \in Sittings /\ file.turn /\ t.mine = file
      BY <1>2, <2>3, SendTypes
    <3> DEFINE n == next
               r == s
    <3>2. r \in Sessions /\ n \in Nat /\ x = Kept(file, r, n)
      BY <1>2 DEF Sittings
    <3>3. Count(session, file.session) > file.turns
      BY <1>3, <3>1
    <3> HIDE DEF n, r, x
    <3>4. LET y == Kept(file, r, n) IN
          /\ y \in Sittings /\ y.by = file.by /\ (y.turn <=> file.turn)
          /\ y.session = file.session /\ y.turns = file.turns /\ y.transcript = file.transcript
      BY <3>1, <3>2, KeptIs
    <3> QED
      BY <3>1, <3>2, <3>3, <3>4
  <2>4. "stream" \in Places \ (Idle \cup Making \cup {"resume", "answer"})
    BY DEF Places, Idle, Making
  <2> HIDE DEF x
  <2> QED
    BY <1>2, <2>2, <2>3, <2>4, WritesSameSend
<1>6. CASE Its(f).at = "idle" /\ Hears(f, [t EXCEPT !.at = "answer", !.got = Its(f).turns])
  <2> DEFINE u == [t EXCEPT !.at = "answer", !.got = Its(f).turns]
  <2>1. follow' = [follow EXCEPT ![f] = u] /\ file' = file
    BY <1>6 DEF Hears
  <2>2. u.at = "answer" /\ u.got = session[s].turns /\ u.mine = t.mine /\ u.id = t.id
    BY <1>2 DEF Threads, Its
  <2> HIDE DEF u
  <2>3. Made(u) = None
    BY <2>2 DEF Made, Making
  <2>4. Stands(session, u)
    BY <1>3, <2>2, <2>3 DEF Stands
  <2>5. ASSUME HeldBy(file, u, f) PROVE HolderStands(session, u, file)
    <3>1. t.mine = file /\ file.turn /\ FileCounts(session, file)
      BY <1>2, <2>2, <2>5, HoldsIs DEF HeldBy
    <3>2. Count(session, s) <= t.mine.turns + 1
      BY <1>2, <3>1, NoneIsNone DEF FileCounts
    <3>3. Count(session, s) = session[s].turns /\ session[s].at = "idle"
      BY <1>2, <1>6 DEF SendInv, SendsOf, LogInv, Its
    <3> QED
      BY <1>2, <1>3, <2>2, <3>2, <3>3 DEF HolderStands
  <2>6. u.at # "begin" /\ (file.session # None => Made(u) # file.session)
    BY <2>2, <2>3
  <2> QED
    BY <1>2, <2>1, <2>2, <2>3, <2>4, <2>5, <2>6, MoveSends
<1> QED
  BY <1>4, <1>5, <1>6 DEF FollowReads

\* A follow that writes the end of its turn.
LEMMA WritesOverSend ==
  ASSUME HeldShapes, SendInv, NEW f \in Follows, NEW t, NEW y, Writes(f, y, Over(t)),
         Holds(f) =>
             /\ y \in Sittings /\ FileCounts(session, y)
             /\ \A g \in Follows : Has(follow[g]) => Behind(session, follow[g].mine, y)
             /\ y.by = None /\ y.session = file.session
  PROVE  SendsOf(session, sent, follow', file')
<1>1. CASE ~Holds(f)
  BY <1>1, EndSends DEF Writes
<1>2. CASE Holds(f)
  <2>1. Over(t).at = "over" /\ Made(Over(t)) = None
    BY OverType DEF Made, Making
  <2>2. file' = y /\ follow' = [follow EXCEPT ![f] = Over(t)]
    BY <1>2, <2>1 DEF Writes
  <2>3. \A g \in Follows : \/ follow'[g].at = "over" /\ Made(follow'[g]) = None
                           \/ follow'[g] = follow[g]
    BY <2>1, <2>2, SendTypes
  <2> QED
    BY <1>2, <2>2, <2>3, EndsSends
<1> QED
  BY <1>1, <1>2

LEMMA AnswersSend ==
  ASSUME HeldShapes, SendInv, NEW f \in Follows, FollowAnswers(f)
  PROVE  SendsOf(session, sent, follow', file')
<1> DEFINE t == follow[f]
           x == [file EXCEPT !.status = "idle", !.turns = t.got, !.turn = FALSE,
                             !.by = None, !.said = << >>,
                             !.conversation = @ \/ Running(t.mine.session),
                             !.transcript = Append(@, Answer(file.said))]
<1>0. SittingInv
  BY DEF HeldShapes, Shapes
<1>1. t.at = "answer" /\ Writes(f, x, Over(t))
  BY DEF FollowAnswers
<1>2. /\ t \in Threads /\ Placed(t, sent) /\ t.mine.session \in Sessions /\ t.mine.turns \in Nat
      /\ Holds(f) => HolderStands(session, t, file) /\ t.mine = file
  BY <1>1, SendTypes, SeesSession, SessionPlaces
<1>3. t.got \in Nat
  BY <1>1, <1>2 DEF Placed
<1>4. ASSUME Holds(f)
      PROVE  /\ x \in Sittings /\ x.by = None /\ (x.turn <=> FALSE) /\ x.session = file.session
             /\ x.turns = t.got
  <2>1. file \in Sittings
    BY SendTypes
  <2>2. Append(file.transcript, Answer(file.said)) \in Seq(Entries)
    <3>1. file.transcript \in Seq(Entries) /\ file.said \in Seq(Texts)
      BY <2>1 DEF Sittings, Entries
    <3>2. Answer(file.said) \in Entries
      BY <3>1 DEF Answer, Entries
    <3> QED
      BY <3>1, <3>2
  <2>3. << >> \in Seq(Texts)
    OBVIOUS
  <2> QED
    BY <1>3, <2>1, <2>2, <2>3 DEF Sittings, Entries
<1> HIDE DEF x
<1>5. ASSUME Holds(f)
      PROVE  /\ FileCounts(session, x)
             /\ \A g \in Follows : Has(follow[g]) => Behind(session, follow[g].mine, x)
  <2>1. /\ t.got = file.turns + 1 /\ Count(session, file.session) = t.got
        /\ session[file.session].at # "busy" /\ file.turns \in Nat
    BY <1>1, <1>2, <1>5 DEF HolderStands
  <2>2. FileCounts(session, x)
    BY <1>4, <1>5, <2>1 DEF FileCounts
  <2>3. ASSUME NEW g \in Follows, Has(follow[g]) PROVE Behind(session, follow[g].mine, x)
    <3>1. Behind(session, follow[g].mine, file)
      BY <2>3, FileSends
    <3>2. follow[g].mine.turns \in Nat
      BY SendTypes DEF Threads, Sittings
    <3> QED
      BY <1>4, <1>5, <2>1, <3>1, <3>2 DEF Behind
  <2> QED
    BY <2>2, <2>3
<1> QED
  BY <1>1, <1>4, <1>5, WritesOverSend

LEMMA CatchesSend ==
  ASSUME HeldShapes, SendInv, NEW f \in Follows, FollowCatches(f)
  PROVE  SendsOf(session, sent, follow', file')
<1> DEFINE t == [follow[f] EXCEPT !.unsent = FALSE, !.why = "none"]
           x == [file EXCEPT !.status = "lost", !.turn = FALSE, !.by = None, !.said = << >>]
           at == Advance(file, t)
<1>0. SittingInv
  BY DEF HeldShapes, Shapes
<1>1. follow[f] \in Threads /\ file \in Sittings
  BY SendTypes
<1>2. t \in Threads /\ (t.unsent <=> FALSE)
  BY <1>1 DEF Threads
<1>3. CASE Writes(f, x, Over(t))
  <2>1. /\ x \in Sittings /\ x.by = None /\ (x.turn <=> FALSE) /\ x.session = file.session
        /\ x.turns = file.turns /\ x.status = "lost"
    <3>1. << >> \in Seq(Texts)
      OBVIOUS
    <3> QED
      BY <1>1, <3>1 DEF Sittings
  <2> HIDE DEF x, t
  <2>2. FileCounts(session, x) /\ \A v : Behind(session, v, file) => Behind(session, v, x)
    BY <2>1 DEF FileCounts, Behind, Lives
  <2> QED
    BY <1>3, <2>1, <2>2, FileSends, WritesOverSend
<1>4. CASE Ends(f) /\ UNCHANGED file
  BY <1>4, EndSends
<1>5. CASE Writes(f, file, [t EXCEPT !.at = at])
  <2>1. /\ at \in Places \ (Idle \cup Making \cup {"resume", "answer"})
        /\ at \notin {"isBusy", "stream"} /\ at # "send"
    BY <1>2, AdvanceTo
  <2> HIDE DEF at, t
  <2>2. Holds(f) => file.turn
    BY <1>0, HolderHas
  <2> QED
    BY <1>1, <1>2, <1>5, <2>1, <2>2, WritesSameSend
<1> QED
  BY <1>3, <1>4, <1>5 DEF FollowCatches

LEMMA RecordsSend ==
  ASSUME HeldShapes, SendInv, NEW f \in Follows, FollowRecords(f)
  PROVE  SendsOf(session, sent, follow', file')
<1> DEFINE t == follow[f]
           w == [t EXCEPT !.got = None]
           x == [file EXCEPT !.session = t.got, !.offset = 0, !.turns = 0]
<1>0. SittingInv
  BY DEF HeldShapes, Shapes
<1>1. t \in Threads /\ Placed(t, sent) /\ t.at = "record" /\ session \in SessionMaps
  BY SendTypes DEF FollowRecords
<1>2. t.got \in Sessions /\ t.mine.session = None /\ AtWork(f) /\ t.at \notin Idle
  BY <1>1 DEF Placed, WithoutSession, AtWork, Idle
<1>3. Made(t) = t.got /\ t.got # None
  BY <1>1, <1>2, NoneIsNone DEF Made, Making
<1>4. Stands(session, t)
  BY DEF SendInv, SendsOf, PlacesOf
<1>5. CASE Holds(f)
  <2>1. file \in Sittings /\ file.turn /\ t.mine = file /\ file.session = None
    BY <1>0, <1>2, <1>5, HolderHas
  <2>2. /\ x \in Sittings /\ x.turn /\ x.by = file.by /\ x.session = t.got /\ x.turns = 0
        /\ x.transcript = file.transcript
    BY <1>2, <2>1 DEF Sittings
  <2>3. Writes(f, x, [w EXCEPT !.at = "send"])
    BY <1>5 DEF FollowRecords
  <2>4. w \in Threads
    BY <1>1 DEF Threads, None
  <2> HIDE DEF x, w
  <2>5. LastMessage(x) = LastMessage(file)
    BY <2>2 DEF LastMessage
  <2>6. ~Taken(session, LastMessage(x))
    BY <2>1, <2>5, FileSends DEF FileCounts
  <2>7. /\ session[t.got].took = << >> /\ session[t.got].at # "busy"
        /\ session[t.got].at # "none" /\ session[t.got] \in SessionRecords
    BY <1>1, <1>2, <1>3, <1>4 DEF Stands, HeldShapes, OwnInv, FollowsOwn, SessionMaps
  <2>8. Count(session, t.got) = 0
    BY <2>7 DEF Count
  <2>9. Good(session, x) /\ Count(session, x.session) <= x.turns + 1
    BY <2>2, <2>6, <2>7, <2>8 DEF Good
  <2>10. FileCounts(session, x)
    BY <1>3, <2>2, <2>9 DEF FileCounts
  <2>11. ASSUME NEW g \in Follows, Has(follow[g]) PROVE Behind(session, follow[g].mine, x)
    <3>1. Made(t) # follow[g].mine.session
      BY <2>11 DEF SendInv, SendsOf, ApartOf
    <3>2. Behind(session, follow[g].mine, file) /\ follow[g].mine.session # None
      BY <2>11, FileSends DEF Has
    <3> QED
      BY <1>3, <2>1, <2>2, <2>5, <3>1, <3>2 DEF Behind
  <2>12. \A g \in Follows \ {f} : Made(follow[g]) # None => Made(follow[g]) # x.session
    BY <1>3, <2>2 DEF HeldShapes, OwnInv, FollowsOwn
  <2>13. session[x.session].at = "gone"
           \/ (session[x.session].at = "idle" /\ Count(session, x.session) = x.turns)
    BY <2>2, <2>7, <2>8 DEF SessionRecords
  <2>14. "send" \in Places \ (Idle \cup Making \cup {"resume", "answer"})
    BY DEF Places, Idle, Making
  <2> QED
    BY <2>2, <2>3, <2>4, <2>6, <2>10, <2>11, <2>12, <2>13, <2>14, WritesSend
<1>6. CASE ~Holds(f)
  <2> DEFINE u == [t EXCEPT !.at = "abandon"]
  <2>1. follow' = [follow EXCEPT ![f] = u] /\ file' = file
    BY <1>6 DEF FollowRecords, Hears
  <2>2. u.at = "abandon" /\ u.mine = t.mine /\ u.got = t.got
    BY <1>1 DEF Threads
  <2> HIDE DEF u
  <2>3. Made(u) = Made(t)
    BY <1>3, <2>2 DEF Made, Making
  <2>4. Stands(session, u) /\ HolderStands(session, u, file)
    BY <1>4, <2>2, <2>3 DEF Stands, HolderStands
  <2>5. u.at # "begin" /\ (file.session # None => Made(u) # file.session)
    BY <2>2, <2>3 DEF HeldShapes, OwnInv, FileOwns
  <2> QED
    BY <1>2, <2>1, <2>2, <2>3, <2>4, <2>5, MoveSends
<1> QED
  BY <1>5, <1>6

LEMMA ResumesSend ==
  ASSUME HeldShapes, SendInv, NEW f \in Follows, FollowResumes(f)
  PROVE  SendsOf(session, sent, follow', file')
<1> DEFINE t == follow[f]
           x == [file EXCEPT !.session = None]
           at == Advance(x, t)
<1>1. t.at = "resume" /\ Writes(f, x, [t EXCEPT !.at = at])
  BY DEF FollowResumes
<1>2. /\ t \in Threads /\ t.mine.session \in Sessions /\ file \in Sittings
      /\ Holds(f) => HolderStands(session, t, file) /\ t.mine = file /\ file.turn
  BY <1>1, SendTypes, SeesSession, SessionPlaces
<1>3. session[t.mine.session].at = "gone"
  BY <1>1 DEF HeldShapes, OwnInv, ResumesGone
<1>4. /\ x \in Sittings /\ (x.turn <=> file.turn) /\ x.by = file.by /\ x.session = None
      /\ x.turns = file.turns /\ x.transcript = file.transcript
  BY <1>2 DEF Sittings
<1>5. /\ at \in Places \ (Idle \cup Making \cup {"resume", "answer"})
      /\ at \notin {"isBusy", "stream"}
      /\ at = "send" => x.session # None
  BY AdvanceTo
<1> HIDE DEF x, at
<1>6. LastMessage(x) = LastMessage(file)
  BY <1>4 DEF LastMessage
<1>7. ASSUME Holds(f)
      PROVE  /\ FileCounts(session, x)
             /\ \A g \in Follows : Has(follow[g]) => Behind(session, follow[g].mine, x)
  <2>1. ~Taken(session, LastMessage(file))
    BY <1>1, <1>2, <1>3, <1>7 DEF HolderStands
  <2>2. FileCounts(session, x)
    BY <1>2, <1>4, <1>6, <1>7, <2>1 DEF FileCounts
  <2>3. ASSUME NEW g \in Follows, Has(follow[g]) PROVE Behind(session, follow[g].mine, x)
    <3>1. Behind(session, follow[g].mine, file) /\ follow[g].mine.session # None
      BY <2>3, FileSends DEF Has
    <3>2. session[file.session].at = "gone"
      BY <1>2, <1>3, <1>7
    <3> QED
      BY <1>2, <1>4, <1>6, <1>7, <3>1, <3>2 DEF Behind
  <2> QED
    BY <2>2, <2>3
<1>8. \A g \in Follows \ {f} : Made(follow[g]) # None => Made(follow[g]) # x.session
  BY <1>4
<1> QED
  BY <1>1, <1>2, <1>4, <1>5, <1>7, <1>8, WritesSend

LEMMA OversSend ==
  ASSUME HeldShapes, SendInv, NEW f \in Follows, FollowStops(f) \/ FollowAbandons(f)
         \/ FollowFails(f)
  PROVE  SendsOf(session, sent, follow', file')
BY EndSends DEF FollowStops, FollowAbandons, FollowFails

LEMMA CallFailsSend ==
  ASSUME HeldShapes, SendInv, NEW f \in Follows, CallFails(f)
  PROVE  SendsOf(session, sent, follow', file')
<1>1. PICK why \in {"again", "refused"} : follow' = [follow EXCEPT ![f] = Fails(@, why)]
  BY DEF CallFails
<1> DEFINE u == Fails(follow[f], why)
<1>2. follow[f] \in Threads /\ follow[f].at \notin Idle /\ file' = file
  BY SendTypes DEF CallFails, Idle
<1>3. u.at = "failed" /\ u.mine = follow[f].mine
  BY <1>2 DEF Fails, Threads
<1>4. follow' = [follow EXCEPT ![f] = u]
  BY <1>1
<1> HIDE DEF u
<1>5. Stands(session, u) /\ HolderStands(session, u, file) /\ Made(u) = None
  BY <1>3, LooseStands, LoosePlaces
<1> QED
  BY <1>2, <1>3, <1>4, <1>5, MoveSends

\* What a heartbeat or a shutdown changes of a thread says nothing of its message.
LEMMA ReleasesSend ==
  ASSUME HeldShapes, SendInv, NEW f \in Follows, follow' = [follow EXCEPT ![f].released = TRUE],
         NEW y \in Sittings, file' = y,
         y.session = file.session, y.turns = file.turns, y.turn <=> file.turn,
         y.transcript = file.transcript, y.status = file.status, y.id = file.id,
         y = file \/ y.by = None
  PROVE  SendsOf(session, sent, follow', file')
<1>1. follow \in [Follows -> Threads]
  BY SendTypes
<1>2. LastMessage(y) = LastMessage(file) /\ (Lives(y) => Lives(file))
  BY DEF LastMessage, Lives
<1>3. /\ FileCounts(session, file) => FileCounts(session, y)
      /\ \A v : Behind(session, v, file) => Behind(session, v, y)
  BY <1>2, SameView
<1>4. FileCounts(session, y) /\ \A g \in Follows : Has(follow[g]) => Behind(session,
       follow[g].mine, y)
  BY <1>3, FileSends
<1>5. ASSUME NEW g \in Follows
      PROVE  /\ follow'[g].at = follow[g].at /\ follow'[g].mine = follow[g].mine
             /\ follow'[g].id = follow[g].id /\ follow'[g].got = follow[g].got
             /\ follow'[g].unsent <=> follow[g].unsent
  <2>1. CASE g = f
    <3> DEFINE u == [follow[f] EXCEPT !.released = TRUE]
    <3>1. follow'[g] = u /\ follow[f] \in Threads
      BY <1>1, <2>1
    <3>2. /\ u.at = follow[f].at /\ u.mine = follow[f].mine /\ u.id = follow[f].id
          /\ u.got = follow[f].got /\ (u.unsent <=> follow[f].unsent)
      BY <3>1 DEF Threads
    <3> QED
      BY <2>1, <3>1, <3>2
  <2>2. CASE g # f
    BY <1>1, <2>2
  <2> QED
    BY <2>1, <2>2
<1> QED
  BY <1>4, <1>5, EndsSends

LEMMA BeatsSend ==
  ASSUME HeldShapes, SendInv, NEW f \in Follows, FollowBeats(f)
  PROVE  SendsOf(session, sent, follow', file')
<1>1. follow' = [follow EXCEPT ![f].released = TRUE] /\ file' = file /\ file \in Sittings
  BY SendTypes DEF FollowBeats
<1> QED
  BY <1>1, ReleasesSend

LEMMA LastOperator ==
  ASSUME NEW m \in Nat, NEW x, x.transcript # << >>, Len(x.transcript) \in Nat,
         x.transcript[Len(x.transcript)] = Operator(m)
  PROVE  LastMessage(x) = m
BY DEF LastMessage, Operator

LEMMA LogGrows ==
  ASSUME NEW S, NEW n \in Nat, LogInv(S, n) PROVE LogInv(S, n + 1) /\ ~Taken(S, n + 1)
<1>1. \A s \in Sessions : \A i \in DOMAIN S[s].took : S[s].took[i] \in 1..n
  BY DEF LogInv
<1>2. \A s \in Sessions : \A i \in DOMAIN S[s].took : S[s].took[i] \in 1..(n+1)
       /\ S[s].took[i] # n + 1
  BY <1>1
<1> QED
  BY <1>2 DEF LogInv, Taken

\* No follow has seen a message that is not sent yet.
LEMMA NotSeen ==
  ASSUME HeldShapes, NEW g \in Follows, follow[g].at \notin Idle
  PROVE  LastMessage(follow[g].mine) # sent + 1
<1>1. InFlight(follow[g].mine, sent) /\ sent \in Nat
  BY SendTypes DEF Placed
<1>2. LastMessage(follow[g].mine) \in 1..sent
  BY <1>1, LastIs
<1> QED
  BY <1>1, <1>2

LEMMA NewFollowSends ==
  ASSUME HeldShapes, SendInv, FreeFollows # {}, NEW p \in Pods, NEW unsent \in BOOLEAN,
         NEW y \in Sittings, file' = y, y.by = NextFollow, y.turn,
         follow' = [follow EXCEPT ![NextFollow] = Thread(p, "begin", y.id, unsent)],
         NEW k, LogInv(session, k), FileCounts(session, y),
         y.session = None \/ y.session = file.session,
         \A g \in Follows : Has(follow[g]) => Behind(session, follow[g].mine, y),
         unsent => /\ ~Taken(session, LastMessage(y))
                   /\ \A g \in Follows : follow[g].at \notin Idle =>
                          LastMessage(follow[g].mine) # LastMessage(y)
  PROVE  SendsOf(session, k, follow', file')
<1> DEFINE S == session
           f == NextFollow
           G == follow'
           u == Thread(p, "begin", y.id, unsent)
<1>1. f \in Follows /\ y.id \in 0..MaxMessages /\ follow \in [Follows -> Threads]
  BY NextFollowFree, SendTypes DEF Sittings
<1>2. u.at = "begin" /\ (u.unsent <=> unsent)
  BY <1>1, ThreadType DEF Places
<1>3. G[f] = u /\ \A g \in Follows \ {f} : G[g] = follow[g]
  BY <1>1
<1> HIDE DEF u
<1>4. SendsOf(S, sent, follow, file)
  BY DEF SendInv
<1>5. Made(u) = None
  BY <1>2 DEF Made, Making
<1>6. \A g \in Follows : G[g].at \notin Idle => follow[g].at \notin Idle
       /\ G[g].mine = follow[g].mine
  BY <1>2, <1>3 DEF Idle
<1>7. \A g \in Follows : Made(G[g]) = None \/ Made(G[g]) = Made(follow[g])
  BY <1>3, <1>5
<1>8. y.turn => \A g \in Follows : Made(G[g]) # None => Made(G[g]) # y.session
  BY <1>7 DEF HeldShapes, OwnInv, FileOwns
<1>9. ASSUME NEW g \in Follows PROVE Stands(S, G[g]) /\ (HeldBy(y, G[g], g) => HolderStands(S,
             G[g], y))
  <2>1. CASE g = f
    <3>1. Stands(S, u) /\ HolderStands(S, u, y)
      BY <1>2, <1>5 DEF Stands, HolderStands
    <3> QED
      BY <1>3, <2>1, <3>1
  <2>2. CASE g # f
    BY <1>3, <1>4, <2>2 DEF SendsOf, PlacesOf, HeldBy
  <2> QED
    BY <2>1, <2>2
<1>10. NewOf(G, y)
  <2> SUFFICES ASSUME NEW e \in Follows, NEW g \in Follows, HeldBy(y, G[e], e),
                      G[e].unsent, G[g].at \notin Idle
               PROVE  LastMessage(G[g].mine) # LastMessage(y)
    BY DEF NewOf
  <2>1. e = f
    BY DEF HeldBy
  <2>2. unsent
    BY <1>2, <1>3, <2>1
  <2> QED
    BY <1>6, <2>2
<1> HIDE DEF S, f, G
<1>11. SendsOf(S, k, G, y)
  <2>1. \A g \in Follows : Has(follow[g]) => Behind(S, follow[g].mine, y)
    BY DEF S
  <2>2. FileCounts(S, y) /\ LogInv(S, k)
    BY DEF S
  <2> QED
    BY <1>4, <1>6, <1>7, <1>8, <1>9, <1>10, <2>1, <2>2, MovesSend
<1> QED
  BY <1>11 DEF S, G

LEMMA StartSends ==
  ASSUME HeldShapes, SendInv, NEW p \in Pods, Start(p) PROVE SendsOf(session, sent', follow', file')
<1> DEFINE f == NextFollow
           m == sent + 1
           y == Begun(m, f)
<1>1. /\ FreeFollows # {} /\ file' = y /\ sent' = m /\ sent < MaxMessages
      /\ follow' = [follow EXCEPT ![f] = Thread(p, "begin", y.id, TRUE)]
  BY DEF Start, BeginsTurn
<1>2. sent \in Nat /\ m \in 0..MaxMessages /\ m \in Nat
  BY <1>1, SendTypes, BoundsType
<1>3. f \in Follows
  BY <1>1, NextFollowFree
<1>4. /\ y \in Sittings /\ y.by = f /\ (y.turn <=> TRUE) /\ y.session = None
      /\ y.transcript = <<Operator(m)>>
  BY <1>2, <1>3, BegunType, BegunIs
<1> HIDE DEF y, f
<1>5. LastMessage(y) = m
  BY SMTT(30), <1>2, <1>4, LastOperator
<1>6. LogInv(session, m) /\ ~Taken(session, m)
  BY <1>2, LogGrows DEF SendInv, SendsOf
<1>7. FileCounts(session, y)
  BY <1>4, <1>5, <1>6 DEF FileCounts
<1>8. \A g \in Follows : follow[g].at \notin Idle => LastMessage(follow[g].mine) # LastMessage(y)
  BY <1>5, NotSeen
<1>9. \A g \in Follows : Has(follow[g]) => Behind(session, follow[g].mine, y)
  BY <1>4, <1>8 DEF Has, Behind
<1> HIDE DEF m
<1> QED
  BY <1>1, <1>4, <1>5, <1>6, <1>7, <1>8, <1>9, NewFollowSends DEF f

LEMMA SendSends ==
  ASSUME HeldShapes, SendInv, NEW p \in Pods, Send(p) PROVE SendsOf(session, sent', follow', file')
<1> DEFINE f == NextFollow
           m == sent + 1
           y == [file EXCEPT !.status = "busy", !.turn = TRUE, !.by = f,
                             !.transcript = Append(@, Operator(m))]
<1>1. /\ FreeFollows # {} /\ file' = y /\ sent' = m /\ sent < MaxMessages
      /\ follow' = [follow EXCEPT ![f] = Thread(p, "begin", y.id, TRUE)]
      /\ Live /\ ~file.turn
  BY DEF Send, BeginsTurn
<1>2. sent \in Nat /\ m \in 0..MaxMessages /\ m \in Nat /\ file \in Sittings
      /\ session \in SessionMaps
  BY <1>1, SendTypes, BoundsType
<1>3. f \in Follows
  BY <1>1, NextFollowFree
<1>4. Append(file.transcript, Operator(m)) \in Seq(Entries) /\ file.transcript \in Seq(Entries)
  BY <1>2, OperatorType DEF Sittings, Entries
<1>5. /\ y \in Sittings /\ y.by = f /\ (y.turn <=> TRUE) /\ y.session = file.session
      /\ y.turns = file.turns /\ y.transcript = Append(file.transcript, Operator(m))
  BY <1>2, <1>3, <1>4 DEF Sittings, Entries
<1> HIDE DEF y, f
<1>6. LastMessage(y) = m
  <2>1. /\ Len(y.transcript) = Len(file.transcript) + 1
        /\ y.transcript[Len(file.transcript) + 1] = Operator(m)
    BY <1>4, <1>5
  <2>2. Len(y.transcript) \in Nat /\ y.transcript # << >>
    BY <1>4, <1>5, <2>1
  <2> QED
    BY <1>2, <2>1, <2>2, LastOperator
<1>7. LogInv(session, m) /\ ~Taken(session, m)
  BY <1>2, LogGrows DEF SendInv, SendsOf
<1>8. Lives(file)
  BY <1>1 DEF Live, Held, Lives
<1>9. FileCounts(session, y)
  <2>1. CASE file.session = None
    BY <1>5, <1>6, <1>7, <2>1 DEF FileCounts
  <2>2. CASE file.session # None
    <3>1. Count(session, file.session) = file.turns /\ session[file.session].at # "busy"
      BY <1>1, <1>8, <2>2, FileSends DEF FileCounts
    <3>2. session[file.session].at # "none"
      BY <2>2 DEF HeldShapes, OwnInv, FileOwns
    <3>3. file.turns \in Nat
      BY <1>2 DEF Sittings
    <3>4. Good(session, y)
      BY <1>5, <1>6, <1>7, <3>1, <3>2, <3>3 DEF Good
    <3> QED
      BY <1>5, <2>2, <3>1, <3>3, <3>4 DEF FileCounts
  <2> QED
    BY <2>1, <2>2
<1>10. \A g \in Follows : follow[g].at \notin Idle => LastMessage(follow[g].mine) # LastMessage(y)
  BY <1>6, NotSeen
<1>11. ASSUME NEW g \in Follows, Has(follow[g]) PROVE Behind(session, follow[g].mine, y)
  <2>1. Behind(session, follow[g].mine, file)
    BY <1>11, FileSends
  <2>2. follow[g].mine.turns \in Nat /\ file.turns \in Nat
    BY <1>2, SendTypes DEF Threads, Sittings
  <2>3. follow[g].mine.session = file.session => follow[g].mine.turns < file.turns
    BY <1>1, <1>8, <2>1 DEF Behind
  <2>4. LastMessage(follow[g].mine) # LastMessage(y)
    BY <1>10, <1>11 DEF Has
  <2> QED
    BY <1>5, <2>2, <2>3, <2>4 DEF Behind
<1> HIDE DEF m
<1> QED
  BY <1>1, <1>5, <1>6, <1>7, <1>9, <1>10, <1>11, NewFollowSends DEF f

LEMMA TakeOverSends ==
  ASSUME HeldShapes, SendInv, NEW p \in Pods, TakeOver(p)
  PROVE  SendsOf(session, sent, follow', file')
<1> DEFINE f == NextFollow
           y == [file EXCEPT !.by = f]
<1>1. /\ FreeFollows # {} /\ file' = y /\ file.turn
      /\ follow' = [follow EXCEPT ![f] = Thread(p, "begin", file.id, FALSE)]
  BY DEF TakeOver, Takeable
<1>2. file \in Sittings /\ f \in Follows
  BY <1>1, SendTypes, NextFollowFree
<1>3. /\ y \in Sittings /\ y.by = f /\ (y.turn <=> file.turn) /\ y.session = file.session
      /\ y.turns = file.turns /\ y.transcript = file.transcript /\ y.id = file.id
  BY <1>2 DEF Sittings
<1> HIDE DEF y, f
<1>4. LastMessage(y) = LastMessage(file)
  BY <1>3 DEF LastMessage
<1>5. /\ FileCounts(session, file) => FileCounts(session, y)
      /\ \A v : Behind(session, v, file) => Behind(session, v, y)
  BY <1>1, <1>3, <1>4, SameView
<1>6. FileCounts(session, y) /\ \A g \in Follows : Has(follow[g]) => Behind(session,
       follow[g].mine, y)
  BY <1>5, FileSends
<1>7. LogInv(session, sent)
  BY DEF SendInv, SendsOf
<1>8. follow' = [follow EXCEPT ![f] = Thread(p, "begin", y.id, FALSE)]
  BY <1>1, <1>3
<1> QED
  BY <1>1, <1>3, <1>6, <1>7, <1>8, NewFollowSends DEF f

LEMMA ClearsSend ==
  ASSUME HeldShapes, SendInv, StartClears \/ End \/ Rest
  PROVE  SendsOf(session, sent, follow', file')
<1>1. file \in Sittings /\ follow' = follow
  BY SendTypes DEF StartClears, End, Rest, Clears
<1>2. /\ file' \in Sittings /\ file'.by = None /\ file'.session = None /\ ~file'.turn
  <2>1. CASE Rest
    <3>1. file' = [file EXCEPT !.session = None, !.started = FALSE] /\ ~file.turn
      BY <2>1 DEF Rest
    <3>2. file.by = None
      BY <3>1 DEF HeldShapes, Shapes, SittingInv, FileInv
    <3> QED
      BY <1>1, <3>1, <3>2 DEF Sittings
  <2>2. CASE StartClears \/ End
    BY <2>2, NoSittingType, NoSittingIs DEF StartClears, End, Clears
  <2> QED
    BY <2>1, <2>2
<1> DEFINE y == file'
<1> HIDE DEF y
<1>3. y \in Sittings /\ y.by = None /\ y.session = None /\ ~y.turn
  BY <1>2 DEF y
<1>4. FileCounts(session, y) /\ \A g \in Follows : Has(follow[g]) => Behind(session,
       follow[g].mine, y)
  BY <1>3 DEF FileCounts, Behind, Has
<1>5. \A g \in Follows : follow'[g] = follow[g]
  BY <1>1
<1> QED
  BY <1>3, <1>4, <1>5, EndsSends DEF y

LEMMA SameSends ==
  ASSUME SendInv, file' = file, follow' = follow PROVE SendsOf(session, sent, follow', file')
BY DEF SendInv

LEMMA PodsSend ==
  ASSUME HeldShapes, SendInv, NEW p \in Pods, TasksRefuse(p) \/ Stop(p) \/ Leaves(p) \/ Dies(p)
  PROVE  SendsOf(session, sent, follow', file')
<1>0. SittingInv /\ file \in Sittings /\ pod \in [Pods -> PodRecords]
  BY SendTypes DEF HeldShapes, Shapes, OuterShapes
<1>1. CASE TasksRefuse(p) \/ Stop(p)
  BY <1>1, SameSends DEF TasksRefuse, Stop
<1>2. CASE Leaves(p)
  <2>1. PICK f \in pod[p].leave : file' = Left(f) /\ follow' = [follow EXCEPT ![f].released = TRUE]
    BY <1>2 DEF Leaves
  <2>2. f \in Follows
    BY <1>0, <2>1 DEF PodRecords
  <2> DEFINE y == Left(f)
  <2>3. CASE Holds(f)
    <3>1. y \in Sittings /\ y.by = None /\ y = [file EXCEPT !.by = None]
      BY <1>0, <2>2, <2>3, LeftIs
    <3>2. /\ y.session = file.session /\ y.turns = file.turns /\ (y.turn <=> file.turn)
          /\ y.transcript = file.transcript /\ y.id = file.id /\ y.status = file.status
      BY <1>0, <3>1 DEF Sittings
    <3> HIDE DEF y
    <3>3. file' = y
      BY <2>1 DEF y
    <3> QED
      BY <2>1, <2>2, <3>1, <3>2, <3>3, ReleasesSend
  <2>4. CASE ~Holds(f)
    <3>1. file' = file
      BY <1>0, <2>1, <2>2, <2>4, LeftIs
    <3> QED
      BY <1>0, <2>1, <2>2, <3>1, ReleasesSend
  <2> QED
    BY <2>3, <2>4
<1>3. CASE Dies(p)
  <2> DEFINE its == {f \in Follows : follow[f].pod = p}
  <2>1. file' = file
         /\ follow' = [f \in Follows |-> IF f \in its THEN Over(follow[f]) ELSE follow[f]]
    BY <1>3 DEF Dies
  <2>2. \A g \in Follows : Over(follow[g]).at = "over" /\ Made(Over(follow[g])) = None
    BY OverType DEF Made, Making
  <2> HIDE DEF its
  <2>3. \A g \in Follows : \/ follow'[g].at = "over" /\ Made(follow'[g]) = None
                           \/ follow'[g] = follow[g]
    BY <2>1, <2>2
  <2> QED
    BY <1>0, <2>1, <2>3, FileSends, EndsSends
<1> QED
  BY <1>1, <1>2, <1>3

----------------------------------------------------------------------------
(* The sessions' own steps.                                                *)

LEMMA SendTypesNext ==
  ASSUME HeldShapes'
  PROVE  /\ session' \in SessionMaps /\ follow' \in [Follows -> Threads] /\ file' \in Sittings
         /\ \A f \in Follows : Placed(follow'[f], sent')
BY DEF HeldShapes, Shapes, OuterShapes, SittingInv, FileShapes, ThreadInv, SessionMaps

\* Sessions that end, or log, beside follows that stand still.
LEMMA SessionsSend ==
  ASSUME HeldShapes, HeldShapes', SendInv, UNCHANGED <<file, follow, sent>>,
         SessionsKeep(session, session'),
         \A f \in Follows : follow[f].at = "send" =>
             LET s == follow[f].mine.session IN
             /\ session'[s].at \in {session[s].at, "gone"}
             /\ session[s].at = "busy" => session'[s].at = "busy"
  PROVE  SendsOf(session', sent, follow', file')
<1>1. /\ session \in SessionMaps /\ session' \in SessionMaps /\ sent \in Nat
      /\ follow \in [Follows -> Threads] /\ \A f \in Follows : Placed(follow[f], sent)
      /\ file \in Sittings /\ SendsOf(session, sent, follow, file)
  BY SendTypes, SendTypesNext DEF SendInv
<1>2. \A f \in Follows : follow[f].at = "send" =>
         session'[follow[f].mine.session].at \in {session[follow[f].mine.session].at, "gone"}
  OBVIOUS
<1>3. \A f \in Follows : HeldBy(file, follow[f], f) /\ follow[f].at = "send" =>
         (session[follow[f].mine.session].at = "busy" =>
            session'[follow[f].mine.session].at = "busy")
  OBVIOUS
<1>4. \A f \in Follows : follow[f].at = "resume" => session[follow[f].mine.session].at = "gone"
  BY DEF HeldShapes, OwnInv, ResumesGone
<1>5. SendsOf(session', sent, follow, file)
  BY <1>1, <1>2, <1>3, <1>4, KeepSends
<1> QED
  BY <1>5

LEMMA GoneSend ==
  ASSUME HeldShapes, HeldShapes', SendInv, UNCHANGED <<file, follow, sent>>, NEW S, Gone(S),
         ~crossed'
  PROVE  SendsOf(session', sent, follow', file')
<1>1. SessionShapes
  BY DEF HeldShapes, Shapes, OuterShapes, SessionShapes
<1>2. \A s \in Sessions :
          /\ session'[s].took = session[s].took /\ session'[s].turns = session[s].turns
          /\ session'[s].at = IF s \in S /\ session[s].at \in {"idle", "busy"} THEN "gone"
                              ELSE session[s].at
  BY <1>1, GoneIs
<1>3. SessionsKeep(session, session')
  BY <1>2 DEF SessionsKeep, SessionKeeps
<1>4. \A f \in Follows : follow[f].at = "send" => follow[f].mine.session \in Sessions
  BY SeesSession, SessionPlaces
<1>5. \A f \in Follows : follow[f].at = "send" =>
             LET s == follow[f].mine.session IN
             /\ session'[s].at \in {session[s].at, "gone"}
             /\ session[s].at = "busy" => session'[s].at = "busy"
  <2>1. \A f \in Follows : follow[f].at = "send" /\ follow[f].mine.session \in S =>
            session[follow[f].mine.session].at # "busy"
    BY DEF Gone, Crosses
  <2> QED
    BY <1>2, <1>4, <2>1
<1> QED
  BY <1>3, <1>5, SessionsSend

LEMMA ClosesSend ==
  ASSUME ~crossed', HeldShapes, HeldShapes', SendInv, NEW j \in closing,
         CloseEnds(j) \/ CloseLists(j) \/ CloseStops(j) \/ CloseFails(j)
  PROVE  SendsOf(session', sent, follow', file')
<1>1. CASE CloseEnds(j) \/ CloseStops(j)
  <2>1. UNCHANGED <<file, follow, sent>> /\ (Gone({j.session}) \/ Gone(InEnv(j.env)))
    BY <1>1 DEF CloseEnds, CloseStops
  <2> QED
    BY <2>1, GoneSend
<1>2. CASE CloseLists(j) \/ CloseFails(j)
  BY <1>2 DEF CloseLists, CloseFails, outside, SendInv
<1> QED
  BY <1>1, <1>2

LEMMA WorldSends ==
  ASSUME ~crossed', HeldShapes, HeldShapes', SendInv,
         \/ \E e \in Envs : StartLands(e) \/ EnvStops(e)
         \/ \E s \in Sessions : SessionGoes(s) \/ SessionWrites(s) \/ SessionFinishes(s)
  PROVE  SendsOf(session', sent, follow', file')
<1>0. SessionShapes
  BY DEF HeldShapes, Shapes, OuterShapes, SessionShapes
<1>1. ASSUME NEW e \in Envs, StartLands(e) PROVE SendsOf(session', sent, follow', file')
  BY <1>1 DEF StartLands, SendInv
<1>2. ASSUME NEW e \in Envs, EnvStops(e) PROVE SendsOf(session', sent, follow', file')
  BY <1>2, GoneSend DEF EnvStops
<1>3. ASSUME NEW s \in Sessions, SessionGoes(s) PROVE SendsOf(session', sent, follow', file')
  BY <1>3, GoneSend DEF SessionGoes
<1>4. ASSUME NEW s \in Sessions, SessionWrites(s) PROVE SendsOf(session', sent, follow', file')
  <2>1. UNCHANGED <<file, follow, sent>>
    BY <1>4 DEF SessionWrites
  <2>2. PICK item \in Items : session' = [session EXCEPT ![s].log = Append(@, item)]
    BY <1>0, <1>4, SessionWritesIs
  <2> DEFINE r == [session[s] EXCEPT !.log = Append(@, item)]
  <2>3. r.took = session[s].took /\ r.turns = session[s].turns /\ r.at = session[s].at
    BY <1>0 DEF SessionShapes, SessionRecords
  <2>4. session'[s] = r /\ \A q \in Sessions \ {s} : session'[q] = session[q]
    BY <1>0, <2>2 DEF SessionShapes
  <2> HIDE DEF r
  <2>5. SessionsKeep(session, session') /\ \A q \in Sessions : session'[q].at = session[q].at
    BY <2>3, <2>4 DEF SessionsKeep, SessionKeeps
  <2>6. \A f \in Follows : follow[f].at = "send" => follow[f].mine.session \in Sessions
    BY SeesSession, SessionPlaces
  <2> QED
    BY <2>1, <2>5, <2>6, SessionsSend
<1>5. ASSUME NEW s \in Sessions, SessionFinishes(s) PROVE SendsOf(session', sent, follow', file')
  <2>1. UNCHANGED <<file, follow, sent>>
    BY <1>5 DEF SessionFinishes
  <2>2. PICK item \in Items :
            session' = [session EXCEPT ![s].at = "idle", ![s].turns = @ + 1, ![s].log = Append(@,
             item)]
    BY <1>0, <1>5, SessionFinishesIs
  <2>3. session[s].at = "busy"
    BY <1>0, <1>5, SessionFinishesIs
  <2> DEFINE r == [session[s] EXCEPT !.at = "idle", !.turns = @ + 1, !.log = Append(@, item)]
  <2>4. r.took = session[s].took /\ r.turns = session[s].turns + 1 /\ r.at = "idle"
    BY <1>0 DEF SessionShapes, SessionRecords
  <2>5. session'[s] = r /\ \A q \in Sessions \ {s} : session'[q] = session[q]
    BY <1>0, <2>2 DEF SessionShapes
  <2> HIDE DEF r
  <2>6. SessionsKeep(session, session')
    BY <2>3, <2>4, <2>5 DEF SessionsKeep, SessionKeeps
  <2>7. \A f \in Follows : follow[f].at = "send" =>
           follow[f].mine.session \in Sessions \ {s}
    <3>1. \A f \in Follows : follow[f].at = "send" => follow[f].mine.session # s
      BY <1>5, <2>3 DEF SessionFinishes, Crosses
    <3> QED
      BY <3>1, SeesSession, SessionPlaces
  <2> QED
    BY <2>1, <2>5, <2>6, <2>7, SessionsSend
<1> QED
  BY <1>1, <1>2, <1>3, <1>4, <1>5

----------------------------------------------------------------------------
(* A session is created.                                                   *)

LEMMA CreatesSend ==
  ASSUME HeldShapes, HeldShapes', SendInv, NEW f \in Follows, FollowCreates(f)
  PROVE  SendsOf(session', sent, follow', file')
<1> DEFINE t == follow[f]
           r == NextSession
<1>1. /\ t \in Threads /\ t.at = "create" /\ t.at \notin Idle /\ Placed(t, sent)
      /\ session \in SessionMaps
  BY SendTypes DEF FollowCreates, Idle
<1>2. CASE Hears(f, Fails(t, "lost"))
  <2>1. session' = session
    BY <1>2 DEF Hears, outside
  <2> QED
    BY <1>1, <1>2, <2>1, FailsSend
<1>3. CASE /\ FreeSessions # {}
           /\ session' = [session EXCEPT ![r] = NewSession(t.mine.env)]
           /\ \/ follow' = [follow EXCEPT ![f].at = "record", ![f].got = r, ![f].unsent = TRUE]
              \/ follow' = [follow EXCEPT ![f] = Fails(t, "again")]
           /\ UNCHANGED <<file, sent>>
  <2>1. t.mine.env \in Envs \cup {None} /\ SessionShapes
    BY <1>1 DEF Threads, Sittings, HeldShapes, Shapes, OuterShapes, SessionShapes
  <2>2. /\ r \in Sessions /\ session[r].at = "none" /\ session'[r].took = << >>
        /\ session'[r].at = "idle" /\ session'[r].turns = 0
        /\ \A q \in Sessions \ {r} : session'[q] = session[q]
    BY <1>3, <2>1, CreateMakes
  <2>3. session[r].took = << >>
    BY <2>2 DEF SendInv, SendsOf, LogInv
  <2>4. SendsOf(session, sent, follow', file')
    <3>1. CASE follow' = [follow EXCEPT ![f].at = "record", ![f].got = r, ![f].unsent = TRUE]
      <4> DEFINE u == [t EXCEPT !.at = "record", !.got = r, !.unsent = TRUE]
      <4>1. follow' = [follow EXCEPT ![f] = u]
        BY <3>1, SendTypes
      <4>2. u.at = "record" /\ u.mine = t.mine /\ u.got = r
        BY <1>1 DEF Threads
      <4> HIDE DEF u
      <4>3. Made(u) = r
        BY <4>2 DEF Made, Making
      <4>4. Stands(session, u) /\ HolderStands(session, u, file)
        BY <2>2, <2>3, <4>2, <4>3 DEF Stands, HolderStands
      <4>5. file.session # None => r # file.session
        BY <2>2 DEF HeldShapes, OwnInv, FileOwns
      <4>6. u.at # "begin" /\ session[Made(u)].at = "none"
        BY <2>2, <4>2, <4>3
      <4> QED
        BY <1>1, <1>3, <4>1, <4>2, <4>3, <4>4, <4>5, <4>6, MoveSends
    <3>2. CASE follow' = [follow EXCEPT ![f] = Fails(t, "again")]
      <4> DEFINE u == Fails(t, "again")
      <4>1. u.at = "failed" /\ u.mine = t.mine
        BY <1>1 DEF Fails, Threads
      <4>2. follow' = [follow EXCEPT ![f] = u] /\ file' = file
        BY <1>3, <3>2
      <4> HIDE DEF u
      <4>3. Stands(session, u) /\ HolderStands(session, u, file) /\ Made(u) = None
        BY <4>1, LooseStands, LoosePlaces
      <4> QED
        BY <1>1, <4>1, <4>2, <4>3, MoveSends
    <3> QED
      BY <1>3, <3>1, <3>2
  <2>5. SessionsKeep(session, session')
    BY <2>2, <2>3 DEF SessionsKeep, SessionKeeps
  <2>6. /\ session' \in SessionMaps /\ follow' \in [Follows -> Threads] /\ file' \in Sittings
        /\ \A g \in Follows : Placed(follow'[g], sent)
        /\ sent \in Nat
    BY <1>3, SendTypes, SendTypesNext
  <2>7. ASSUME NEW g \in Follows, follow'[g].at \in {"send", "resume"}
        PROVE  /\ follow'[g].mine.session \in Sessions
               /\ session'[follow'[g].mine.session].at = session[follow'[g].mine.session].at
    <3>1. Has(follow'[g]) /\ follow'[g].mine.session \in Sessions
      BY <2>6, <2>7, PlacedHas, SessionPlaces
    <3>2. session[follow'[g].mine.session].at # "none"
      BY <2>4, <3>1 DEF SendsOf, ViewsOf, Good
    <3> QED
      BY <2>2, <3>1, <3>2
  <2>8. ASSUME NEW g \in Follows, follow'[g].at = "resume"
        PROVE  session[follow'[g].mine.session].at = "gone"
    <3>1. session'[follow'[g].mine.session].at = "gone"
      BY <2>8 DEF HeldShapes, OwnInv, ResumesGone
    <3> QED
      BY <2>7, <2>8, <3>1
  <2> DEFINE G == follow'
             y == file'
             T == session'
  <2> HIDE DEF G, y, T
  <2>9. /\ T \in SessionMaps /\ G \in [Follows -> Threads] /\ y \in Sittings
        /\ \A g \in Follows : Placed(G[g], sent)
        /\ sent \in Nat /\ SessionsKeep(session, T) /\ SendsOf(session, sent, G, y)
    BY <2>4, <2>5, <2>6 DEF G, y, T
  <2>10. /\ \A g \in Follows : G[g].at = "send" =>
              T[G[g].mine.session].at = session[G[g].mine.session].at
         /\ \A g \in Follows : G[g].at = "resume" => session[G[g].mine.session].at = "gone"
    BY <2>7, <2>8 DEF G, T
  <2>11. SendsOf(T, sent, G, y)
    BY <1>1, <2>9, <2>10, KeepSends
  <2> QED
    BY <2>11 DEF T, G, y
<1> QED
  BY <1>2, <1>3 DEF FollowCreates

----------------------------------------------------------------------------
(* A session takes a message.                                              *)

\* Session s of S, idle, takes m, and sessions are then T.
TakesOf(S, T, s, m) ==
    /\ S[s].at = "idle" /\ T[s].at = "busy" /\ T[s].turns = S[s].turns
    /\ T[s].took = Append(S[s].took, m)
    /\ \A r \in Sessions \ {s} : T[r] = S[r]

Took(S, T, s, m) ==
    /\ Count(S, s) \in Nat /\ Count(T, s) = Count(S, s) + 1
    /\ DOMAIN S[s].took = 1..Count(S, s) /\ DOMAIN T[s].took = 1..Count(T, s)
    /\ \A i \in 1..Count(S, s) : T[s].took[i] = S[s].took[i]
    /\ T[s].took[Count(S, s) + 1] = m
    /\ \A r \in Sessions \ {s} : Count(T, r) = Count(S, r)
    /\ \A k : Taken(T, k) <=> Taken(S, k) \/ k = m

LEMMA TakenThen ==
  ASSUME NEW S \in SessionMaps, NEW T \in SessionMaps, NEW s \in Sessions, NEW m \in Nat,
         TakesOf(S, T, s, m)
  PROVE  Took(S, T, s, m)
<1> DEFINE n == Count(S, s)
<1>1. S[s].took \in Seq(Nat) /\ T[s].took = Append(S[s].took, m) /\ n = Len(S[s].took)
  BY DEF SessionMaps, SessionRecords, TakesOf, Count
<1>2. /\ n \in Nat /\ Len(T[s].took) = n + 1 /\ DOMAIN S[s].took = 1..n
      /\ DOMAIN T[s].took = 1..(n + 1) /\ T[s].took[n + 1] = m
      /\ \A i \in 1..n : T[s].took[i] = S[s].took[i]
  BY <1>1
<1>3. \A r \in Sessions \ {s} : T[r] = S[r]
  BY DEF TakesOf
<1>4. Count(T, s) = n + 1 /\ \A r \in Sessions \ {s} : Count(T, r) = Count(S, r)
  BY <1>2, <1>3 DEF Count
<1> HIDE DEF n
<1>5. ASSUME NEW k, Taken(S, k) PROVE Taken(T, k)
  <2>1. PICK r \in Sessions : \E i \in DOMAIN S[r].took : S[r].took[i] = k
    BY <1>5 DEF Taken
  <2>2. CASE r = s
    BY <1>2, <2>1, <2>2 DEF Taken
  <2>3. CASE r # s
    BY <1>3, <2>1, <2>3 DEF Taken
  <2> QED
    BY <2>2, <2>3
<1>6. ASSUME NEW k, Taken(T, k) PROVE Taken(S, k) \/ k = m
  <2>1. PICK r \in Sessions : \E i \in DOMAIN T[r].took : T[r].took[i] = k
    BY <1>6 DEF Taken
  <2>2. CASE r = s
    <3>1. PICK i \in 1..(n + 1) : T[s].took[i] = k
      BY <1>2, <2>1, <2>2
    <3>2. i \in 1..n \/ i = n + 1
      BY <1>2
    <3> QED
      BY <1>2, <3>1, <3>2 DEF Taken
  <2>3. CASE r # s
    BY <1>3, <2>1, <2>3 DEF Taken
  <2> QED
    BY <2>2, <2>3
<1>7. Taken(T, m)
  <2>1. n + 1 \in DOMAIN T[s].took
    BY <1>2
  <2> QED
    BY <1>2, <2>1 DEF Taken
<1> QED
  BY <1>2, <1>4, <1>5, <1>6, <1>7 DEF n, Took

LEMMA TakesLog ==
  ASSUME NEW S \in SessionMaps, NEW T \in SessionMaps, NEW s \in Sessions, NEW n \in Nat,
         NEW m \in 1..n, TakesOf(S, T, s, m), LogInv(S, n)
  PROVE  LogInv(T, n)
<1>1. \A r \in Sessions :
         /\ S[r].at = "none" => S[r].took = << >>
         /\ S[r].at = "idle" => Count(S, r) = S[r].turns
         /\ S[r].at = "busy" => Count(S, r) = S[r].turns + 1
         /\ S[r].turns <= Count(S, r)
         /\ \A i \in DOMAIN S[r].took : S[r].took[i] \in 1..n
  BY DEF LogInv
<1>2. /\ Count(S, s) \in Nat /\ Count(T, s) = Count(S, s) + 1
      /\ DOMAIN S[s].took = 1..Count(S, s) /\ DOMAIN T[s].took = 1..Count(T, s)
      /\ \A i \in 1..Count(S, s) : T[s].took[i] = S[s].took[i]
      /\ T[s].took[Count(S, s) + 1] = m
      /\ \A r \in Sessions \ {s} : Count(T, r) = Count(S, r)
  <2>1. m \in Nat
    OBVIOUS
  <2> QED
    BY <2>1, TakenThen DEF Took
<1>3. /\ S[s].at = "idle" /\ T[s].at = "busy" /\ T[s].turns = S[s].turns
      /\ \A r \in Sessions \ {s} : T[r] = S[r]
  BY DEF TakesOf
<1>4. /\ T[s].at = "busy" /\ Count(T, s) = T[s].turns + 1 /\ T[s].turns <= Count(T, s)
  <2>1. S[s].turns = Count(S, s)
    BY <1>1, <1>3
  <2> QED
    BY <1>2, <1>3, <2>1
<1>5. \A i \in DOMAIN T[s].took : T[s].took[i] \in 1..n
  <2> TAKE i \in DOMAIN T[s].took
  <2>1. i \in 1..Count(S, s) \/ i = Count(S, s) + 1
    BY <1>2
  <2>2. \A j \in 1..Count(S, s) : S[s].took[j] \in 1..n
    BY <1>1, <1>2
  <2> QED
    BY <1>2, <2>1, <2>2
<1> QED
  <2> SUFFICES ASSUME NEW r \in Sessions
               PROVE  /\ T[r].at = "none" => T[r].took = << >>
                      /\ T[r].at = "idle" => Count(T, r) = T[r].turns
                      /\ T[r].at = "busy" => Count(T, r) = T[r].turns + 1
                      /\ T[r].turns <= Count(T, r)
                      /\ \A i \in DOMAIN T[r].took : T[r].took[i] \in 1..n
    BY DEF LogInv
  <2>1. CASE r = s
    BY <1>4, <1>5, <2>1
  <2>2. CASE r # s
    BY <1>1, <1>2, <1>3, <2>2
  <2> QED
    BY <2>1, <2>2

LEMMA TakesOnce ==
  ASSUME NEW S \in SessionMaps, NEW T \in SessionMaps, NEW s \in Sessions, NEW m \in Nat,
         TakesOf(S, T, s, m), OnceInv(S), ~Taken(S, m)
  PROVE  OnceInv(T)
<1>1. /\ Count(S, s) \in Nat /\ Count(T, s) = Count(S, s) + 1
      /\ DOMAIN S[s].took = 1..Count(S, s) /\ DOMAIN T[s].took = 1..Count(T, s)
      /\ \A i \in 1..Count(S, s) : T[s].took[i] = S[s].took[i]
      /\ T[s].took[Count(S, s) + 1] = m
  BY TakenThen DEF Took
<1>2. \A r \in Sessions \ {s} : T[r] = S[r]
  BY DEF TakesOf
<1>3. ASSUME NEW r \in Sessions, NEW i \in DOMAIN T[r].took
      PROVE  \/ i \in DOMAIN S[r].took /\ T[r].took[i] = S[r].took[i] /\ T[r].took[i] # m
             \/ r = s /\ i = Count(S, s) + 1 /\ T[r].took[i] = m
  <2>1. CASE r = s
    <3>1. i \in 1..Count(S, s) \/ i = Count(S, s) + 1
      BY <1>1, <2>1
    <3> QED
      BY <1>1, <2>1, <3>1 DEF Taken
  <2>2. CASE r # s
    BY <1>2, <1>3, <2>2 DEF Taken
  <2> QED
    BY <2>1, <2>2
<1> SUFFICES ASSUME NEW r \in Sessions, NEW q \in Sessions, NEW i \in DOMAIN T[r].took,
                    NEW j \in DOMAIN T[q].took, T[r].took[i] = T[q].took[j]
             PROVE  r = q /\ i = j
  BY DEF OnceInv
<1>4. CASE T[r].took[i] = m
  BY <1>3, <1>4
<1>5. CASE T[r].took[i] # m
  BY <1>3, <1>5 DEF OnceInv
<1> QED
  BY <1>4, <1>5

\* What a follow saw of a sitting is as good once another's message is taken, where
\* it saw what the other saw.
LEMMA TakesGood ==
  ASSUME NEW S \in SessionMaps, NEW T \in SessionMaps, NEW x \in Sittings, NEW y \in Sittings,
         NEW s \in Sessions, s = x.session, NEW m \in Nat, m = LastMessage(x),
         TakesOf(S, T, s, m), Count(S, s) = x.turns,
         y.session \in Sessions, Good(S, y), Alike(S, y, x)
  PROVE  Good(T, y)
<1> DEFINE k == LastMessage(y)
           r == y.session
<1>1. /\ Count(S, s) \in Nat /\ Count(T, s) = Count(S, s) + 1
      /\ \A i \in 1..Count(S, s) : T[s].took[i] = S[s].took[i]
      /\ T[s].took[Count(S, s) + 1] = m
      /\ \A q \in Sessions \ {s} : Count(T, q) = Count(S, q)
      /\ Taken(T, k) <=> Taken(S, k) \/ k = m
  <2>1. Took(S, T, s, m)
    BY TakenThen
  <2> HIDE DEF k
  <2> QED
    BY <2>1 DEF Took
<1>2. /\ S[s].at = "idle" /\ T[s].at = "busy" /\ \A q \in Sessions \ {s} : T[q] = S[q]
  BY DEF TakesOf
<1>3. /\ S[r].at # "none" /\ Count(S, r) >= y.turns
      /\ S[r].at = "busy" => Count(S, r) > y.turns
      /\ Count(S, r) > y.turns => S[r].took[y.turns + 1] = k
      /\ Count(S, r) = y.turns /\ S[r].at # "gone" => ~Taken(S, k)
  BY DEF Good
<1>4. /\ r = s /\ y.turns = x.turns => k = m
      /\ k = m /\ r # s => S[r].at = "gone"
  BY <1>2 DEF Alike
<1>5. y.turns \in Nat
  BY DEF Sittings
<1> HIDE DEF k
<1>6. CASE r = s
  <2>1. T[s].took[y.turns + 1] = k
    <3>1. CASE Count(S, s) > y.turns
      BY <1>1, <1>3, <1>5, <1>6, <3>1
    <3>2. CASE Count(S, s) = y.turns
      BY <1>1, <1>4, <1>6, <3>2
    <3> QED
      BY <1>1, <1>3, <1>5, <1>6, <3>1, <3>2
  <2>2. Count(T, s) > y.turns
    BY <1>1, <1>3, <1>5, <1>6
  <2> QED
    BY <1>1, <1>2, <1>5, <1>6, <2>1, <2>2 DEF Good, k
<1>7. CASE r # s
  <2>1. T[r] = S[r] /\ Count(T, r) = Count(S, r)
    BY <1>1, <1>2, <1>7
  <2>2. Count(T, r) = y.turns /\ T[r].at # "gone" => ~Taken(T, k)
    BY <1>1, <1>3, <1>4, <1>7, <2>1
  <2> QED
    BY <1>3, <2>1, <2>2 DEF Good, k
<1> QED
  BY <1>6, <1>7

\* The file counts as it did.
LEMMA TakesCounts ==
  ASSUME NEW S \in SessionMaps, NEW T \in SessionMaps, NEW x \in Sittings, NEW y \in Sittings,
         NEW s \in Sessions, s = x.session, NEW m \in Nat, m = LastMessage(x),
         TakesOf(S, T, s, m), Count(S, s) = x.turns,
         FileCounts(S, y), Behind(S, x, y)
  PROVE  FileCounts(T, y)
<1> DEFINE k == LastMessage(y)
<1>1. /\ Count(S, s) \in Nat /\ Count(T, s) = Count(S, s) + 1
      /\ \A q \in Sessions \ {s} : Count(T, q) = Count(S, q)
      /\ Taken(T, k) <=> Taken(S, k) \/ k = m
  <2>1. Took(S, T, s, m)
    BY TakenThen
  <2> HIDE DEF k
  <2> QED
    BY <2>1 DEF Took
<1>2. /\ S[s].at = "idle" /\ T[s].at = "busy" /\ \A q \in Sessions \ {s} : T[q] = S[q]
  BY DEF TakesOf
<1>3. x.turns \in Nat /\ y.turns \in Nat /\ s # None /\ y.session \in Sessions \cup {None}
  BY NoneIsNone DEF Sittings
<1>4. ASSUME y.turn, y.session # None
      PROVE  Good(T, y) /\ Count(T, y.session) <= y.turns + 1
  <2>1. Good(S, y) /\ Count(S, y.session) <= y.turns + 1 /\ y.session \in Sessions
    BY <1>3, <1>4 DEF FileCounts
  <2>2. Alike(S, y, x)
    BY <1>4, BehindAlike, AlikeSym
  <2>3. Good(T, y)
    BY <2>1, <2>2, TakesGood
  <2>4. y.session = s => x.turns <= y.turns
    BY DEF Behind
  <2>5. CASE y.session = s
    <3>1. Count(T, s) = x.turns + 1
      BY <1>1
    <3> QED
      BY <1>3, <2>3, <2>4, <2>5, <3>1
  <2>6. CASE y.session # s
    BY <1>1, <2>1, <2>3, <2>6
  <2> QED
    BY <2>5, <2>6
<1>5. ASSUME y.turn, y.session = None PROVE ~Taken(T, k)
  <2>1. ~Taken(S, k)
    BY <1>5 DEF FileCounts
  <2>2. k # m
    BY <1>2, <1>3, <1>5 DEF Behind
  <2> QED
    BY <1>1, <2>1, <2>2
<1>6. ASSUME ~y.turn, Lives(y), y.session # None
      PROVE  Count(T, y.session) = y.turns /\ T[y.session].at # "busy"
  <2>1. Count(S, y.session) = y.turns /\ S[y.session].at # "busy"
    BY <1>6 DEF FileCounts
  <2>2. y.session # s
    BY <1>3, <1>6, <2>1 DEF Behind
  <2> QED
    BY <1>1, <1>2, <1>3, <1>6, <2>1, <2>2
<1> HIDE DEF k
<1> QED
  BY <1>4, <1>5, <1>6 DEF FileCounts, k

\* Another follow's place is as it was.
LEMMA TakesStands ==
  ASSUME NEW S \in SessionMaps, NEW T \in SessionMaps, NEW s \in Sessions, NEW m \in Nat,
         TakesOf(S, T, s, m), NEW t \in Threads, NEW n, Placed(t, n), Stands(S, t), Made(t) # s
  PROVE  Stands(T, t)
<1> DEFINE r == t.mine.session
<1>1. Took(S, T, s, m)
  BY TakenThen
<1>2. /\ S[s].at = "idle" /\ T[s].at = "busy" /\ \A q \in Sessions \ {s} : T[q] = S[q]
  BY DEF TakesOf
<1>3. /\ Count(S, s) \in Nat /\ Count(T, s) = Count(S, s) + 1
      /\ \A q \in Sessions \ {s} : Count(T, q) = Count(S, q)
  BY <1>1 DEF Took
<1>4. /\ t.mine.turns \in Nat
      /\ t.at \in {"send", "isBusy", "stream", "answer"} => r \in Sessions
      /\ Made(t) \in Sessions \cup {None}
  BY PlacedHas, SessionPlaces DEF Threads, Sittings
<1>5. Made(t) # None => T[Made(t)].took = << >> /\ T[Made(t)].at # "busy"
  BY <1>2, <1>4 DEF Stands
<1>6. ASSUME t.at = "send"
      PROVE  \/ T[r].at = "gone"
             \/ T[r].at = "idle" /\ Count(T, r) = t.mine.turns
             \/ T[r].at = "busy" /\ Count(T, r) = t.mine.turns + 1
  <2>1. \/ S[r].at = "gone"
        \/ S[r].at = "idle" /\ Count(S, r) = t.mine.turns
        \/ S[r].at = "busy" /\ Count(S, r) = t.mine.turns + 1
    BY <1>6 DEF Stands
  <2>2. CASE r = s
    BY <1>2, <1>3, <2>1, <2>2
  <2>3. CASE r # s
    BY <1>2, <1>3, <1>4, <1>6, <2>1, <2>3
  <2> QED
    BY <2>2, <2>3
<1>7. ASSUME t.at \in {"isBusy", "stream", "answer"} PROVE Count(T, r) > t.mine.turns
  <2>1. Count(S, r) > t.mine.turns /\ r \in Sessions
    BY <1>4, <1>7 DEF Stands
  <2>2. CASE r = s
    BY <1>3, <1>4, <2>1, <2>2
  <2>3. CASE r # s
    BY <1>3, <2>1, <2>3
  <2> QED
    BY <2>2, <2>3
<1> QED
  BY <1>5, <1>6, <1>7 DEF Stands

\* A message to be sent yet is not m, and a turn under way is seen as it is.
Apart(t, y, m) ==
    /\ t.at = "begin" /\ t.unsent => m # LastMessage(y)
    /\ t.at \in {"send", "resume", "answer"} => t.mine = y /\ y.turn /\ y.session \in Sessions

\* The place of the file's holder too: the message taken is not what it counts on.
LEMMA TakesHolder ==
  ASSUME NEW S \in SessionMaps, NEW T \in SessionMaps, NEW x \in Sittings, NEW y \in Sittings,
         NEW s \in Sessions, s = x.session, NEW m \in Nat, m = LastMessage(x),
         TakesOf(S, T, s, m), Count(S, s) = x.turns, Behind(S, x, y),
         NEW t \in Threads, HolderStands(S, t, y), Apart(t, y, m)
  PROVE  HolderStands(T, t, y)
<1> DEFINE r == t.mine.session
           k == LastMessage(y)
           l == LastMessage(t.mine)
<1>1. Took(S, T, s, m)
  BY TakenThen
<1>2. /\ S[s].at = "idle" /\ T[s].at = "busy" /\ \A q \in Sessions \ {s} : T[q] = S[q]
  BY DEF TakesOf
<1>3. /\ Count(S, s) \in Nat /\ Count(T, s) = Count(S, s) + 1
      /\ \A q \in Sessions \ {s} : Count(T, q) = Count(S, q)
      /\ \A q : Taken(T, q) <=> Taken(S, q) \/ q = m
  BY <1>1 DEF Took
<1>4. ASSUME t.at = "begin" /\ t.unsent PROVE ~Taken(T, k)
  <2>1. ~Taken(S, k)
    BY <1>4 DEF HolderStands
  <2> HIDE DEF k
  <2> QED
    BY <1>3, <1>4, <2>1 DEF Apart, k
<1>5. ASSUME t.at \in {"send", "resume"}, T[r].at = "gone" PROVE ~Taken(T, l)
  <2>1. r \in Sessions /\ r # s /\ S[r].at = "gone" /\ t.mine = y /\ y.turn
    BY <1>2, <1>5 DEF Apart
  <2>2. ~Taken(S, l)
    BY <1>5, <2>1 DEF HolderStands
  <2>3. l # m
    BY <1>2, <2>1 DEF Behind
  <2> HIDE DEF l
  <2> QED
    BY <1>3, <2>2, <2>3
<1>6. ASSUME t.at = "answer"
      PROVE  /\ t.got = t.mine.turns + 1 /\ Count(T, r) = t.mine.turns + 1
             /\ T[r].at # "busy" /\ T[r].turns = Count(T, r)
  <2>1. /\ t.got = t.mine.turns + 1 /\ Count(S, r) = t.mine.turns + 1
        /\ S[r].at # "busy" /\ S[r].turns = Count(S, r)
    BY <1>6 DEF HolderStands
  <2>2. r \in Sessions /\ t.mine = y /\ x.turns \in Nat /\ y.turns \in Nat
    BY <1>6 DEF Sittings, Apart
  <2>3. r # s
    <3>1. y.session = s => x.turns <= y.turns
      BY DEF Behind
    <3> QED
      BY <2>1, <2>2, <3>1
  <2> QED
    BY <1>2, <1>3, <2>1, <2>2, <2>3
<1> QED
  BY <1>4, <1>5, <1>6 DEF HolderStands

LEMMA TakeSends ==
  ASSUME NEW S \in SessionMaps, NEW T \in SessionMaps, NEW n \in Nat,
         NEW F \in [Follows -> Threads], \A g \in Follows : Placed(F[g], n), NEW y \in Sittings,
         SendsOf(S, n, F, y), NEW f \in Follows, F[f].at = "send",
         NEW s \in Sessions, s = F[f].mine.session, NEW m \in 1..n, m = LastMessage(F[f].mine),
         TakesOf(S, T, s, m),
         \A g \in Follows : HeldBy(y, F[g], g) /\ F[g].at \in WithSession =>
             F[g].mine = y /\ y.turn
  PROVE  SendsOf(T, n, F, y)
<1> DEFINE x == F[f].mine
<1>1. /\ x \in Sittings /\ m \in Nat /\ s = x.session /\ m = LastMessage(x)
      /\ S[s].at = "idle" /\ T[s].at = "busy" /\ \A q \in Sessions \ {s} : T[q] = S[q]
  <2>1. F[f] \in Threads /\ x = F[f].mine
    OBVIOUS
  <2>2. x \in Sittings
    BY <2>1 DEF Threads
  <2> HIDE DEF x
  <2>3. m \in Nat /\ s = x.session /\ m = LastMessage(x)
    BY <2>1
  <2> QED
    BY <2>2, <2>3 DEF TakesOf
<1>2. Has(F[f]) /\ F[f].at \notin Idle
  BY NoneIsNone DEF Has, Idle
<1>3. Good(S, x) /\ Behind(S, x, y)
  BY <1>2 DEF SendsOf, ViewsOf
<1>4. Count(S, s) = x.turns
  BY <1>1 DEF SendsOf, PlacesOf, Stands
<1> HIDE DEF x
<1>5. ~Taken(S, m)
  <2>1. Good(S, x) /\ Count(S, x.session) = x.turns /\ S[x.session].at # "gone"
    BY <1>1, <1>3, <1>4
  <2>2. ~Taken(S, LastMessage(x))
    BY <2>1 DEF Good
  <2> QED
    BY <1>1, <2>2
<1>6. LogInv(T, n) /\ OnceInv(T)
  BY <1>1, <1>5, TakesLog, TakesOnce DEF SendsOf
<1>7. FileCounts(T, y)
  BY <1>1, <1>3, <1>4, TakesCounts DEF SendsOf
<1>8. \A r \in Sessions : S[r].at = "gone" => T[r].at = "gone"
  BY <1>1
<1>9. \A g \in Follows : F[g].mine \in Sittings /\ (Has(F[g]) => F[g].mine.session \in Sessions)
  BY PlacedHas DEF Threads
<1>10. ViewsOf(T, F, y)
  <2> SUFFICES ASSUME NEW g \in Follows, Has(F[g])
               PROVE  Good(T, F[g].mine) /\ Behind(T, F[g].mine, y)
    BY DEF ViewsOf
  <2>1. Good(S, F[g].mine) /\ Behind(S, F[g].mine, y) /\ Alike(S, F[g].mine, x)
    BY <1>2 DEF SendsOf, ViewsOf, AlikeOf, x
  <2>2. Good(T, F[g].mine)
    BY <1>1, <1>4, <1>9, <2>1, TakesGood
  <2>3. Behind(T, F[g].mine, y)
    BY <1>8, <1>9, <2>1 DEF Behind
  <2> QED
    BY <2>2, <2>3
<1>11. AlikeOf(T, F)
  <2> SUFFICES ASSUME NEW g \in Follows, NEW h \in Follows, Has(F[g]), Has(F[h])
               PROVE  Alike(T, F[g].mine, F[h].mine)
    BY DEF AlikeOf
  <2>1. Alike(S, F[g].mine, F[h].mine)
    BY DEF SendsOf, AlikeOf
  <2> QED
    BY <1>8, <1>9, <2>1 DEF Alike
<1>12. PlacesOf(T, F, y)
  <2> SUFFICES ASSUME NEW g \in Follows
               PROVE  Stands(T, F[g]) /\ (HeldBy(y, F[g], g) => HolderStands(T, F[g], y))
    BY DEF PlacesOf
  <2>1. F[g] \in Threads /\ Placed(F[g], n) /\ Stands(S, F[g])
    BY DEF SendsOf, PlacesOf
  <2>2. Made(F[g]) # s
    BY <1>2 DEF SendsOf, ApartOf
  <2>3. Stands(T, F[g])
    BY <1>1, <2>1, <2>2, TakesStands
  <2>4. ASSUME HeldBy(y, F[g], g) PROVE HolderStands(T, F[g], y)
    <3>1. HolderStands(S, F[g], y)
      BY <2>4 DEF SendsOf, PlacesOf
    <3>2. F[g].at = "begin" /\ F[g].unsent => m # LastMessage(y)
      BY <1>2, <2>4 DEF SendsOf, NewOf
    <3>3. F[g].at \in {"send", "resume", "answer"} =>
             F[g].mine = y /\ y.turn /\ y.session \in Sessions
      BY <2>1, <2>4, PlacedHas, SessionPlaces
    <3> DEFINE t == F[g]
    <3>4. t \in Threads /\ HolderStands(S, t, y) /\ Apart(t, y, m)
      BY <2>1, <3>1, <3>2, <3>3 DEF Apart
    <3> HIDE DEF t
    <3>5. HolderStands(T, t, y)
      BY <1>1, <1>3, <1>4, <3>4, TakesHolder
    <3> QED
      BY <3>5 DEF t
  <2> QED
    BY <2>3, <2>4
<1> QED
  BY <1>6, <1>7, <1>10, <1>11, <1>12 DEF SendsOf

LEMMA SendsSend ==
  ASSUME HeldShapes, HeldShapes', SendInv, NEW f \in Follows, FollowSends(f)
  PROVE  SendsOf(session', sent, follow', file')
<1> DEFINE t == follow[f]
           s == t.mine.session
           m == LastMessage(t.mine)
<1>1. t.at = "send"
  BY DEF FollowSends
<1>2. /\ t \in Threads /\ t.at \notin Idle /\ s \in Sessions /\ t.mine.turns \in Nat
      /\ Stands(session, t) /\ (Holds(f) => HolderStands(session, t, file))
  BY <1>1, SeesSession, SessionPlaces
<1>3. CASE session[s].at = "busy" /\ Hears(f, Fails(t, "again"))
  <2>1. session' = session
    BY <1>3 DEF Hears, outside
  <2> QED
    BY <1>2, <1>3, <2>1, FailsSend
<1>4. CASE session[s].at = "gone" /\ Hears(f, Fails(t, "lost"))
  <2>1. session' = session
    BY <1>4 DEF Hears, outside
  <2> QED
    BY <1>2, <1>4, <2>1, FailsSend
<1>5. CASE session[s].at = "gone" /\ Hears(f, [t EXCEPT !.at = "resume", !.resumed = TRUE])
  <2> DEFINE u == [t EXCEPT !.at = "resume", !.resumed = TRUE]
  <2>1. session' = session /\ follow' = [follow EXCEPT ![f] = u] /\ file' = file
    BY <1>5 DEF Hears, outside
  <2>2. u.at = "resume" /\ u.mine = t.mine /\ u.id = t.id
    BY <1>2 DEF Threads
  <2> HIDE DEF u
  <2>3. Made(u) = None /\ u.at # "begin"
    BY <2>2 DEF Made, Making
  <2>4. Stands(session, u)
    BY <2>2, <2>3 DEF Stands
  <2>5. ASSUME HeldBy(file, u, f) PROVE HolderStands(session, u, file)
    <3>1. HolderStands(session, t, file)
      BY <1>2, <2>2, <2>5, HoldsIs DEF HeldBy
    <3> QED
      BY <1>1, <2>2, <3>1 DEF HolderStands
  <2>6. SendsOf(session, sent, follow', file')
    BY <1>2, <2>1, <2>2, <2>3, <2>4, <2>5, MoveSends
  <2> QED
    BY <2>1, <2>6
<1>6. CASE /\ session[s].at = "idle"
           /\ session' = [session EXCEPT ![s].at = "busy", ![s].took = Append(@, m)]
           /\ \/ follow' = [follow EXCEPT ![f].at = IsSent(t), ![f].unsent = FALSE]
              \/ follow' = [follow EXCEPT ![f] = Fails(t, "again")]
           /\ UNCHANGED <<file, sent>>
  <2>1. SittingInv /\ SessionShapes
    BY DEF HeldShapes, Shapes, OuterShapes, SessionShapes
  <2>2. /\ m \in 1..sent /\ \A r \in Sessions \ {s} : session'[r] = session[r]
        /\ session'[s].at = "busy" /\ session'[s].turns = session[s].turns
        /\ session'[s].took = Append(session[s].took, m)
    BY ZenonT(40), <1>1, <1>6, <2>1, SendTakes
  <2>3. TakesOf(session, session', s, m)
    BY <1>6, <2>2 DEF TakesOf
  <2>4. /\ session \in SessionMaps /\ session' \in SessionMaps /\ sent \in Nat
        /\ follow \in [Follows -> Threads] /\ \A g \in Follows : Placed(follow[g], sent)
        /\ file \in Sittings /\ SendsOf(session, sent, follow, file)
    BY SendTypes, SendTypesNext DEF SendInv
  <2>5. \A g \in Follows : HeldBy(file, follow[g], g) /\ follow[g].at \in WithSession =>
             follow[g].mine = file /\ file.turn
    BY SeesSession, HoldsIs
  <2> DEFINE T == session'
  <2>6. TakesOf(session, T, s, m) /\ T \in SessionMaps
    BY <2>3, <2>4
  <2> HIDE DEF T, s, m
  <2>7. SendsOf(T, sent, follow, file)
    BY <1>1, <1>2, <2>2, <2>4, <2>5, <2>6, TakeSends DEF s, m
  <2>8. Count(T, s) > t.mine.turns
    <3>1. Took(session, T, s, m) /\ m \in Nat
      BY <1>2, <2>2, <2>4, <2>6, TakenThen
    <3>2. Count(session, s) = t.mine.turns
      BY <1>1, <1>2, <1>6 DEF Stands, s
    <3> QED
      BY <1>2, <3>1, <3>2 DEF Took
  <2>9. /\ file.session # None => \A g \in Follows : Made(follow[g]) # file.session
    BY DEF HeldShapes, OwnInv, FileOwns
  <2>10. ASSUME NEW u, follow' = [follow EXCEPT ![f] = u],
                u.at \in {"isBusy", "stream", "failed"}, u.mine = t.mine
         PROVE  SendsOf(T, sent, follow', file)
    <3>1. Made(u) = None /\ u.at # "begin"
      BY <2>10 DEF Made, Making
    <3>2. Stands(T, u) /\ HolderStands(T, u, file)
      BY <2>8, <2>10, <3>1 DEF Stands, HolderStands, s
    <3> QED
      BY <1>2, <2>4, <2>7, <2>9, <2>10, <3>1, <3>2, MoveOf
  <2>11. CASE follow' = [follow EXCEPT ![f].at = IsSent(t), ![f].unsent = FALSE]
    <3> DEFINE u == [t EXCEPT !.at = IsSent(t), !.unsent = FALSE]
    <3>1. follow' = [follow EXCEPT ![f] = u]
      BY <2>4, <2>11
    <3>2. u.at \in {"isBusy", "stream", "failed"} /\ u.mine = t.mine
      BY <1>2 DEF Threads, IsSent
    <3> HIDE DEF u
    <3> QED
      BY <1>6, <2>10, <3>1, <3>2 DEF T
  <2>12. CASE follow' = [follow EXCEPT ![f] = Fails(t, "again")]
    <3> DEFINE u == Fails(t, "again")
    <3>1. follow' = [follow EXCEPT ![f] = u]
      BY <2>12
    <3>2. u.at \in {"isBusy", "stream", "failed"} /\ u.mine = t.mine
      BY <1>2 DEF Threads, Fails
    <3> HIDE DEF u
    <3> QED
      BY <1>6, <2>10, <3>1, <3>2 DEF T
  <2> QED
    BY <1>6, <2>11, <2>12
<1> QED
  BY <1>3, <1>4, <1>5, <1>6 DEF FollowSends

----------------------------------------------------------------------------
(* Every step.                                                             *)

LEMMA SameOutside ==
  ASSUME SendsOf(session, sent, follow', file'), UNCHANGED <<session, sent>> PROVE SendInv'
BY DEF SendInv

LEMMA StepsSend ==
  ASSUME HeldShapes, HeldShapes', SendInv, NEW f \in Follows, FollowSteps(f) PROVE SendInv'
<1>1. CASE FollowCreates(f)
  <2>1. sent' = sent
    BY <1>1 DEF FollowCreates, Hears
  <2> QED
    BY <1>1, <2>1, CreatesSend DEF SendInv
<1>2. CASE FollowSends(f)
  <2>1. sent' = sent
    BY <1>2 DEF FollowSends, Hears
  <2> QED
    BY <1>2, <2>1, SendsSend DEF SendInv
<1>3. CASE FollowBegins(f) \/ FollowTakes(f) \/ FollowRestarts(f) \/ FollowIsCreating(f)
  <2>1. UNCHANGED <<session, sent>>
    BY <1>3 DEF FollowBegins, FollowTakes, FollowRestarts, FollowIsCreating, Writes, Hears, outside
  <2> QED
    BY <1>3, <2>1, BeginsSend, TakesSend, RestartsSend, IsCreatingSends, SameOutside
<1>4. CASE FollowPicks(f) \/ FollowReadies(f) \/ FollowStarts(f) \/ FollowHearsStart(f)
  <2>1. UNCHANGED <<session, sent>>
    BY <1>4 DEF FollowPicks, FollowReadies, FollowStarts, FollowHearsStart, Hears, outside
  <2> QED
    BY <1>4, <2>1, PicksSend, ReadiesSend, StartsSend, SameOutside
<1>5. CASE FollowStops(f) \/ FollowAbandons(f) \/ FollowAsks(f)
  <2>1. UNCHANGED <<session, sent>>
    BY <1>5 DEF FollowStops, FollowAbandons, FollowAsks, Hears, outside
  <2> QED
    BY <1>5, <2>1, OversSend, AsksSend, SameOutside
<1>6. CASE FollowRecords(f) \/ FollowResumes(f) \/ FollowMarksBusy(f)
  <2>1. UNCHANGED <<session, sent>>
    BY <1>6 DEF FollowRecords, FollowResumes, FollowMarksBusy, Writes, Hears, outside
  <2> QED
    BY <1>6, <2>1, RecordsSend, ResumesSend, MarksBusySends, SameOutside
<1>7. CASE FollowReads(f) \/ FollowAnswers(f) \/ FollowCatches(f)
  <2>1. UNCHANGED <<session, sent>>
    BY <1>7 DEF FollowReads, FollowAnswers, FollowCatches, Writes, Hears, outside
  <2> QED
    BY <1>7, <2>1, ReadsSend, AnswersSend, CatchesSend, SameOutside
<1> QED
  BY <1>1, <1>2, <1>3, <1>4, <1>5, <1>6, <1>7 DEF FollowSteps

LEMMA FaultsSend ==
  ASSUME HeldShapes, SendInv, NEW f \in Follows, CallFails(f) \/ FollowFails(f) \/ FollowBeats(f)
  PROVE  SendInv'
<1>1. UNCHANGED <<session, sent>>
  BY DEF CallFails, FollowFails, FollowBeats, outside
<1> QED
  BY <1>1, CallFailsSend, OversSend, BeatsSend, SameOutside

LEMMA OperatorsSend ==
  ASSUME HeldShapes, SendInv,
         \/ \E p \in Pods : Start(p) \/ Send(p) \/ TakeOver(p)
         \/ StartClears \/ End \/ Rest
  PROVE  SendInv'
<1>1. ASSUME NEW p \in Pods, Start(p) \/ Send(p) PROVE SendInv'
  <2>1. session' = session
    BY <1>1 DEF Start, Send, BeginsTurn, outside
  <2> QED
    BY <1>1, <2>1, StartSends, SendSends DEF SendInv
<1>2. ASSUME NEW p \in Pods, TakeOver(p) PROVE SendInv'
  <2>1. UNCHANGED <<session, sent>>
    BY <1>2 DEF TakeOver, outside
  <2> QED
    BY <1>2, <2>1, TakeOverSends, SameOutside
<1>3. CASE StartClears \/ End \/ Rest
  <2>1. UNCHANGED <<session, sent>>
    BY <1>3 DEF StartClears, End, Clears, Rest, outside
  <2> QED
    BY <1>3, <2>1, ClearsSend, SameOutside
<1> QED
  BY <1>1, <1>2, <1>3

LEMMA NextSend ==
  ASSUME ~crossed', HeldShapes, HeldShapes', SendInv, [Next]_vars PROVE SendInv'
<1>1. CASE UNCHANGED vars
  BY <1>1 DEF vars, outside, SendInv
<1>2. CASE \/ \E p \in Pods : Start(p) \/ Send(p) \/ TakeOver(p)
           \/ StartClears \/ End \/ Rest
  BY <1>2, OperatorsSend
<1>3. ASSUME NEW p \in Pods, TasksRefuse(p) \/ Stop(p) \/ Leaves(p) \/ Dies(p) PROVE SendInv'
  <2>1. UNCHANGED <<session, sent>>
    BY <1>3 DEF TasksRefuse, Stop, Leaves, Dies, outside
  <2> QED
    BY <1>3, <2>1, PodsSend, SameOutside
<1>4. ASSUME NEW f \in Follows, FollowSteps(f) PROVE SendInv'
  BY <1>4, StepsSend
<1>5. ASSUME NEW f \in Follows, CallFails(f) \/ FollowFails(f) \/ FollowBeats(f) PROVE SendInv'
  BY <1>5, FaultsSend
<1>6. ASSUME NEW j \in closing, CloseEnds(j) \/ CloseLists(j) \/ CloseStops(j) \/ CloseFails(j)
      PROVE  SendInv'
  <2>1. sent' = sent
    BY <1>6 DEF CloseEnds, CloseLists, CloseStops, CloseFails
  <2> QED
    BY <1>6, <2>1, ClosesSend DEF SendInv
<1>7. CASE \/ \E e \in Envs : StartLands(e) \/ EnvStops(e)
           \/ \E s \in Sessions : SessionGoes(s) \/ SessionWrites(s) \/ SessionFinishes(s)
  <2>1. sent' = sent
    BY <1>7 DEF StartLands, EnvStops, SessionGoes, SessionWrites, SessionFinishes
  <2> QED
    BY <1>7, <2>1, WorldSends DEF SendInv
<1> QED
  BY <1>1, <1>2, <1>3, <1>4, <1>5, <1>6, <1>7 DEF Next, CloseSteps

LEMMA InitSend == ASSUME Init PROVE SendInv
<1>1. /\ \A s \in Sessions : /\ session[s].at = "none" /\ session[s].took = << >>
                             /\ session[s].turns = 0
      /\ sent = 0 /\ file = NoSitting
  BY DEF Init, NoSession, NewSession
<1>2. \A f \in Follows : follow[f].at = "none" /\ Made(follow[f]) = None
  BY DEF Init, Thread, Made, Making
<1>3. LogInv(session, sent) /\ OnceInv(session)
  <2>1. \A s \in Sessions : Count(session, s) = 0 /\ DOMAIN session[s].took = {}
    BY <1>1 DEF Count
  <2>2. OnceInv(session)
    BY <2>1 DEF OnceInv
  <2>3. LogInv(session, sent)
    BY <1>1, <2>1 DEF LogInv
  <2> QED
    BY <2>2, <2>3
<1>4. NoSitting.turn = FALSE /\ NoSitting.session = None
  BY DEF NoSitting, Begun
<1>5. FileCounts(session, file)
  BY <1>1, <1>4 DEF FileCounts
<1>6. \A f \in Follows : ~Has(follow[f])
  BY <1>2 DEF Has, Idle
<1>7. ViewsOf(session, follow, file) /\ ApartOf(follow) /\ AlikeOf(session, follow)
  BY <1>6 DEF ViewsOf, ApartOf, AlikeOf
<1>8. PlacesOf(session, follow, file)
  BY <1>2 DEF PlacesOf, Stands, HolderStands
<1>9. NewOf(follow, file)
  BY <1>2 DEF NewOf
<1> QED
  BY <1>3, <1>5, <1>7, <1>8, <1>9 DEF SendInv, SendsOf

\* Up to a turn that ends with another send of its message on its way, what each
\* follow of inbox.py has seen of its sitting stays true of the sessions, whoever else
\* follows it.
THEOREM SendInvHolds == Spec => [](crossed \/ SendInv)
<1>1. Init => SendInv
  BY InitSend
<1>2. HeldShapes /\ HeldShapes' /\ (crossed \/ SendInv) /\ [Next]_vars => crossed' \/ SendInv'
  <2> SUFFICES ASSUME HeldShapes, HeldShapes', crossed \/ SendInv, [Next]_vars, ~crossed'
               PROVE  SendInv'
    OBVIOUS
  <2>1. ~crossed
    BY CrossedMoves DEF Crosses
  <2> QED
    BY <2>1, NextSend
<1> QED
  BY <1>1, <1>2, HeldShapesHold, PTL DEF Spec

\* Through takeovers, lost answers, retries and resumes no session takes a message of the
\* operator's twice, and no two sessions take it, but once a session's turn ended, or the
\* session went, with another send of its message on its way (Inbox._advance's send).
THEOREM SentCorrect == Spec => []SentTwiceOnlyCrossed
<1>1. ASSUME OnceInv(session), NEW m PROVE Cardinality(Takes(m)) <= 1
  <2>1. \A s, r \in Sessions : \A i \in DOMAIN session[s].took, j \in DOMAIN session[r].took :
           session[s].took[i] = session[r].took[j] => s = r /\ i = j
    BY <1>1 DEF OnceInv
  <2>2. ASSUME NEW a \in Takes(m), NEW b \in Takes(m) PROVE a = b
    <3>1. PICK s \in Sessions :
              a \in {s} \X {n \in DOMAIN session[s].took : session[s].took[n] = m}
      BY DEF Takes
    <3>2. PICK r \in Sessions :
              b \in {r} \X {n \in DOMAIN session[r].took : session[r].took[n] = m}
      BY DEF Takes
    <3>3. PICK i \in DOMAIN session[s].took : session[s].took[i] = m /\ a = <<s, i>>
      BY <3>1
    <3>4. PICK j \in DOMAIN session[r].took : session[r].took[j] = m /\ b = <<r, j>>
      BY <3>2
    <3> QED
      BY <2>1, <3>3, <3>4
  <2> DEFINE A == Takes(m)
  <2> HIDE DEF A
  <2>3. CASE A = {}
    BY <2>3, FS_EmptySet DEF A
  <2>4. CASE A # {}
    <3>1. PICK a \in A : TRUE
      BY <2>4
    <3>2. A = {a}
      BY <2>2, <3>1 DEF A
    <3>3. Cardinality({a}) = 1
      BY FS_Singleton
    <3> QED
      BY <3>2, <3>3 DEF A
  <2> QED
    BY <2>3, <2>4
<1>2. crossed \/ SendInv => SentTwiceOnlyCrossed
  BY <1>1 DEF SendInv, SendsOf, SentOnce, SentTwiceOnlyCrossed
<1> QED
  BY <1>2, SendInvHolds, PTL

----------------------------------------------------------------------------
(* What a session said, and what the file has of it.                       *)

\* IsSaid, of sessions S; and what is said of message m in the turn that took it.
SaidBy(S, said, s, turn, last) ==
    /\ \A i, j \in DOMAIN said : i < j => said[i][2] < said[j][2]
    /\ {said[i] : i \in DOMAIN said} =
           {<<s, i>> : i \in {i \in 1..last : S[s].log[i].turn = turn /\ S[s].log[i].message}}
Told(S, m, said) ==
    \E s \in Sessions : \E k \in 1..S[s].turns :
        S[s].took[k] = m /\ SaidBy(S, said, s, k, Len(S[s].log))

\* A session logs nothing of a turn it has not begun.
LinesOf(S) ==
    \A s \in Sessions : \A i \in 1..Len(S[s].log) : S[s].log[i].turn <= Count(S, s)

\* Each reply of a transcript is the session's, to the message before it.
IsReply(S, tr, n) ==
    /\ n > 1 /\ tr[n - 1].author = "operator"
    /\ Told(S, tr[n - 1].said[1][2], tr[n].said)
Replies(S, tr) == \A n \in 1..Len(tr) : tr[n].author = "session" => IsReply(S, tr, n)

\* What the file x has read of its turn is what the session said up to its offset.
Heard(S, x) ==
    /\ x.session # None => x.offset <= Len(S[x.session].log)
    /\ x.session = None \/ ~x.turn => x.said = << >>
    /\ x.turn /\ x.session # None => SaidBy(S, x.said, x.session, x.turns + 1, x.offset)

\* The holder that is about to answer has read everything.
HeardAll(S, F, x) ==
    \A f \in Follows : HeldBy(x, F[f], f) /\ F[f].at = "answer" =>
        x.offset = Len(S[x.session].log)

ReplyOf(S, F, x) == LinesOf(S) /\ Replies(S, x.transcript) /\ Heard(S, x) /\ HeardAll(S, F, x)
ReplyInv == ReplyOf(session, follow, file)

\* What sessions do: an item is of a turn begun and not finished.
SessionGrows(s, t) ==
    \/ t = s
    \/ s.at = "none" /\ t.log = << >>
    \/ /\ Len(s.took) <= Len(t.took) /\ \A i \in 1..Len(s.took) : t.took[i] = s.took[i]
       /\ s.turns <= t.turns
       /\ Len(s.log) <= Len(t.log) /\ \A i \in 1..Len(s.log) : t.log[i] = s.log[i]
       /\ \A i \in 1..Len(t.log) : i > Len(s.log) =>
              t.log[i].turn > s.turns /\ t.log[i].turn <= Len(t.took)
       /\ s.at # "busy" => t.log = s.log
SessionsGrow(S, T) == \A s \in Sessions : SessionGrows(S[s], T[s])

\* The log of a session that grows, up to an item it had or in a turn that is over.
LEMMA SaidGrows ==
  ASSUME NEW S \in SessionMaps, NEW T \in SessionMaps, NEW s \in Sessions, NEW said,
         NEW turn \in Nat, NEW last \in Nat, NEW upto \in Nat, SaidBy(S, said, s, turn, last),
         last <= Len(S[s].log), last <= upto,
         \A i \in 1..last : T[s].log[i] = S[s].log[i],
         \A i \in 1..upto : i > last => T[s].log[i].turn # turn
  PROVE  SaidBy(T, said, s, turn, upto)
<1> DEFINE A == {i \in 1..last : S[s].log[i].turn = turn /\ S[s].log[i].message}
           B == {i \in 1..upto : T[s].log[i].turn = turn /\ T[s].log[i].message}
<1>1. \A i \in 1..last : i \in 1..upto
  OBVIOUS
<1>2. \A i \in 1..upto : i \in 1..last \/ i > last
  OBVIOUS
<1>3. \A i : i \in A => i \in B
  BY <1>1
<1>4. \A i : i \in B => i \in A
  BY <1>2
<1>5. A = B
  BY <1>3, <1>4
<1> QED
  BY <1>5 DEF SaidBy

LEMMA Recorded ==
  ASSUME NEW S \in SessionMaps, NEW s \in Sessions
  PROVE  /\ S[s] \in SessionRecords /\ S[s].turns \in Nat /\ S[s].log \in Seq(Items)
         /\ S[s].took \in Seq(Nat) /\ Len(S[s].log) \in Nat /\ Len(S[s].took) \in Nat
         /\ Count(S, s) \in Nat /\ Count(S, s) = Len(S[s].took)
         /\ \A i \in 1..Len(S[s].log) : S[s].log[i].turn \in Nat
<1>1. S[s] \in SessionRecords
  BY DEF SessionMaps
<1>2. S[s].log \in Seq(Items) /\ S[s].took \in Seq(Nat) /\ S[s].turns \in Nat
  BY <1>1 DEF SessionRecords
<1>3. \A i \in 1..Len(S[s].log) : S[s].log[i] \in Items
  BY <1>2
<1> QED
  BY SMTT(30), <1>1, <1>2, <1>3 DEF Count, Items

LEMMA GrowsTold ==
  ASSUME NEW S \in SessionMaps, NEW T \in SessionMaps, SessionsGrow(S, T), NEW n, LogInv(S, n),
         NEW m, NEW said, Told(S, m, said)
  PROVE  Told(T, m, said)
<1>0. PICK s \in Sessions : \E k \in 1..S[s].turns :
          S[s].took[k] = m /\ SaidBy(S, said, s, k, Len(S[s].log))
  BY DEF Told
<1>1. PICK k \in 1..S[s].turns : S[s].took[k] = m /\ SaidBy(S, said, s, k, Len(S[s].log))
  BY <1>0
<1>2. /\ S[s].turns \in Nat /\ Len(S[s].log) \in Nat /\ Len(S[s].took) \in Nat
      /\ T[s].turns \in Nat /\ Len(T[s].log) \in Nat /\ Len(T[s].took) \in Nat
      /\ Count(S, s) = Len(S[s].took)
      /\ \A i \in 1..Len(T[s].log) : T[s].log[i].turn \in Nat
  BY Recorded
<1>3. k \in Nat /\ k > 0 /\ k <= S[s].turns /\ k <= Len(S[s].took)
  BY <1>1, <1>2 DEF LogInv
<1>4. S[s].at # "none"
  <2>1. S[s].at = "none" => S[s].took = << >>
    BY DEF LogInv
  <2>2. S[s].took = << >> => Len(S[s].took) = 0
    OBVIOUS
  <2>3. Len(S[s].took) # 0
    BY <1>2, <1>3
  <2> QED
    BY <2>1, <2>2, <2>3
<1>5. CASE T[s] = S[s]
  <2>1. T[s].took[k] = m /\ k \in 1..T[s].turns
    BY <1>1, <1>5
  <2>2. SaidBy(T, said, s, k, Len(T[s].log))
    BY <1>1, <1>5 DEF SaidBy
  <2> QED
    BY <2>1, <2>2 DEF Told
<1>6. CASE T[s] # S[s]
  <2>1. /\ Len(S[s].took) <= Len(T[s].took) /\ \A i \in 1..Len(S[s].took) : T[s].took[i] = S[s].took[i]
        /\ S[s].turns <= T[s].turns
        /\ Len(S[s].log) <= Len(T[s].log) /\ \A i \in 1..Len(S[s].log) : T[s].log[i] = S[s].log[i]
        /\ \A i \in 1..Len(T[s].log) : i > Len(S[s].log) => T[s].log[i].turn > S[s].turns
    BY <1>4, <1>6 DEF SessionsGrow, SessionGrows
  <2>2. T[s].took[k] = m /\ k \in 1..T[s].turns
    BY SMTT(30), <1>1, <1>2, <1>3, <2>1
  <2>3. \A i \in 1..Len(T[s].log) : i > Len(S[s].log) => T[s].log[i].turn # k
    BY <1>2, <1>3, <2>1
  <2> DEFINE last == Len(S[s].log)
             upto == Len(T[s].log)
  <2>4. /\ last \in Nat /\ upto \in Nat /\ last <= Len(S[s].log) /\ last <= upto
        /\ SaidBy(S, said, s, k, last)
        /\ \A i \in 1..last : T[s].log[i] = S[s].log[i]
        /\ \A i \in 1..upto : i > last => T[s].log[i].turn # k
    BY <1>1, <1>2, <2>1, <2>3
  <2> HIDE DEF last, upto
  <2>5. SaidBy(T, said, s, k, upto)
    BY <1>3, <2>4, SaidGrows
  <2> QED
    BY <2>2, <2>5 DEF Told, upto
<1> QED
  BY <1>5, <1>6

LEMMA GrowsReplies ==
  ASSUME NEW S \in SessionMaps, NEW T \in SessionMaps, SessionsGrow(S, T), NEW n, LogInv(S, n),
         NEW tr, Replies(S, tr)
  PROVE  Replies(T, tr)
BY GrowsTold DEF Replies, IsReply

LEMMA GrowsLines ==
  ASSUME NEW S \in SessionMaps, NEW T \in SessionMaps, SessionsGrow(S, T), LinesOf(S)
  PROVE  LinesOf(T)
<1> SUFFICES ASSUME NEW s \in Sessions, NEW i \in 1..Len(T[s].log)
             PROVE  T[s].log[i].turn <= Count(T, s)
  BY DEF LinesOf
<1>1. /\ Len(S[s].log) \in Nat /\ Len(S[s].took) \in Nat /\ Len(T[s].log) \in Nat
      /\ Len(T[s].took) \in Nat /\ T[s].log[i].turn \in Nat
      /\ Count(S, s) = Len(S[s].took) /\ Count(T, s) = Len(T[s].took)
  BY Recorded
<1>2. \A j \in 1..Len(S[s].log) : S[s].log[j].turn <= Len(S[s].took)
  BY <1>1 DEF LinesOf
<1>3. CASE T[s] = S[s]
  BY <1>1, <1>2, <1>3
<1>4. CASE T[s].log = << >>
  BY <1>4
<1>5. CASE T[s] # S[s] /\ T[s].log # << >>
  <2>1. /\ Len(S[s].took) <= Len(T[s].took)
        /\ \A j \in 1..Len(S[s].log) : T[s].log[j] = S[s].log[j]
        /\ \A j \in 1..Len(T[s].log) : j > Len(S[s].log) => T[s].log[j].turn <= Len(T[s].took)
    BY <1>5 DEF SessionsGrow, SessionGrows
  <2>2. CASE i > Len(S[s].log)
    BY <1>1, <2>1, <2>2
  <2>3. CASE ~(i > Len(S[s].log))
    <3>1. i \in 1..Len(S[s].log)
      BY <1>1, <2>3
    <3>2. S[s].log[i].turn <= Len(S[s].took) /\ T[s].log[i] = S[s].log[i]
      BY <1>2, <2>1, <3>1
    <3>3. T[s].log[i].turn <= Len(S[s].took)
      BY <3>2
    <3>4. T[s].log[i].turn <= Len(T[s].took)
      <4> DEFINE turn == T[s].log[i].turn
                 had == Len(S[s].took)
                 has == Len(T[s].took)
      <4>1. turn \in Nat /\ had \in Nat /\ has \in Nat
        BY <1>1
      <4>2. turn <= had /\ had <= has
        BY <2>1, <3>3
      <4> HIDE DEF turn, had, has
      <4>3. turn <= has
        BY <4>1, <4>2
      <4> QED
        BY <4>3 DEF turn, has
    <3> QED
      BY <1>1, <3>4
  <2> QED
    BY <2>2, <2>3
<1> QED
  BY <1>3, <1>4, <1>5

LEMMA GrowsHeard ==
  ASSUME NEW S \in SessionMaps, NEW T \in SessionMaps, SessionsGrow(S, T), NEW x \in Sittings,
         Heard(S, x), x.session # None => S[x.session].at # "none"
  PROVE  /\ Heard(T, x)
         /\ x.session # None /\ S[x.session].at # "busy" => T[x.session].log = S[x.session].log
<1>1. CASE x.session = None
  BY <1>1 DEF Heard
<1>2. CASE x.session # None
  <2> DEFINE s == x.session
  <2>1. s \in Sessions /\ x.offset \in Nat /\ x.turns + 1 \in Nat
    BY <1>2 DEF Sittings
  <2>2. CASE T[s] = S[s]
    <3>1. SaidBy(S, x.said, s, x.turns + 1, x.offset) => SaidBy(T, x.said, s, x.turns + 1, x.offset)
      BY <2>2 DEF SaidBy
    <3> QED
      BY <2>2, <3>1 DEF Heard
  <2>3. CASE T[s] # S[s]
    <3>1. /\ Len(S[s].log) <= Len(T[s].log) /\ \A i \in 1..Len(S[s].log) : T[s].log[i] = S[s].log[i]
          /\ S[s].at # "busy" => T[s].log = S[s].log
      BY <1>2, <2>1, <2>3 DEF SessionsGrow, SessionGrows
    <3>2. x.offset <= Len(S[s].log) /\ Len(S[s].log) \in Nat /\ Len(T[s].log) \in Nat
      BY <1>2, <2>1, Recorded DEF Heard
    <3>3. ASSUME SaidBy(S, x.said, s, x.turns + 1, x.offset)
          PROVE  SaidBy(T, x.said, s, x.turns + 1, x.offset)
      <4>1. \A i \in 1..x.offset : T[s].log[i] = S[s].log[i]
        BY <2>1, <3>1, <3>2
      <4>2. \A i \in 1..x.offset : ~(i > x.offset)
        BY <2>1
      <4>3. x.offset <= Len(S[s].log) /\ x.offset <= x.offset
        BY <2>1, <3>2
      <4>4. \A i \in 1..x.offset : i > x.offset => T[s].log[i].turn # x.turns + 1
        BY <4>2
      <4> QED
        BY <2>1, <3>3, <4>1, <4>3, <4>4, SaidGrows
    <3>4. x.offset <= Len(T[s].log)
      BY <2>1, <3>1, <3>2
    <3> QED
      BY <1>2, <3>1, <3>3, <3>4 DEF Heard
  <2> QED
    BY <2>2, <2>3
<1> QED
  BY <1>1, <1>2

\* A transcript goes on by a message of the operator's or by a reply to one.
LEMMA AppendsReply ==
  ASSUME NEW S, NEW tr \in Seq(Entries), Replies(S, tr), NEW e \in Entries,
         e.author = "session" =>
             /\ tr # << >> /\ tr[Len(tr)].author = "operator"
             /\ Told(S, tr[Len(tr)].said[1][2], e.said)
  PROVE  Replies(S, Append(tr, e))
<1> DEFINE n == Len(tr)
           w == Append(tr, e)
<1>1. n \in Nat /\ Len(w) = n + 1 /\ w[n + 1] = e /\ \A k \in 1..n : w[k] = tr[k]
  OBVIOUS
<1>2. tr # << >> => n > 0
  OBVIOUS
<1> HIDE DEF w
<1>3. ASSUME NEW k \in 1..Len(w), w[k].author = "session" PROVE IsReply(S, w, k)
  <2>1. CASE k = n + 1
    <3>1. n > 0 /\ tr[n].author = "operator" /\ Told(S, tr[n].said[1][2], e.said)
      BY <1>1, <1>2, <1>3, <2>1
    <3>2. k > 1 /\ k - 1 = n /\ w[k] = e /\ w[n] = tr[n]
      BY <1>1, <2>1, <3>1
    <3> QED
      BY <3>1, <3>2 DEF IsReply
  <2>2. CASE k # n + 1
    <3>1. k \in 1..n /\ w[k] = tr[k]
      BY <1>1, <2>2
    <3>2. IsReply(S, tr, k)
      BY <1>3, <3>1 DEF Replies
    <3>3. k > 1
      BY <3>2 DEF IsReply
    <3>4. w[k - 1] = tr[k - 1]
      BY <1>1, <3>1, <3>3
    <3> QED
      BY <3>1, <3>2, <3>4 DEF IsReply
  <2> QED
    BY <2>1, <2>2
<1> QED
  BY <1>3 DEF Replies, w

\* What does not touch what the file has of its turn.
LEMMA SameHeard ==
  ASSUME NEW S, NEW x, NEW y, Heard(S, x), y.session = x.session, y.offset = x.offset,
         y.turns = x.turns, y.turn <=> x.turn, y.said = x.said
  PROVE  Heard(S, y)
BY DEF Heard

LEMMA SameGrows == \A S : SessionsGrow(S, S)
BY DEF SessionsGrow, SessionGrows

\* Sessions go on beside a file that is as it was.
LEMMA GrowReply ==
  ASSUME HeldShapes, SendInv, ReplyInv, session' \in SessionMaps, file' = file,
         SessionsGrow(session, session'),
         \A f \in Follows : follow'[f].at = "answer" =>
             follow[f].at = "answer" /\ follow'[f].id = follow[f].id
  PROVE  ReplyInv'
<1> DEFINE S == session
           T == session'
           G == follow'
           x == file
<1>1. S \in SessionMaps /\ T \in SessionMaps /\ x \in Sittings
  BY SendTypes
<1>2. SessionsGrow(S, T)
  OBVIOUS
<1>3. LinesOf(S) /\ Replies(S, x.transcript) /\ Heard(S, x) /\ HeardAll(S, follow, x)
  BY DEF ReplyInv, ReplyOf
<1>4. LogInv(S, sent)
  BY DEF SendInv, SendsOf
<1>5. x.session # None => S[x.session].at # "none"
  BY DEF HeldShapes, OwnInv, FileOwns
<1>6. ASSUME NEW f \in Follows, HeldBy(x, G[f], f), G[f].at = "answer"
      PROVE  x.offset = Len(S[x.session].log) /\ x.session # None /\ S[x.session].at # "busy"
  <2>1. follow[f].at = "answer" /\ HeldBy(x, follow[f], f)
    BY <1>6 DEF HeldBy
  <2>2. x.offset = Len(S[x.session].log)
    BY <1>3, <2>1 DEF HeardAll
  <2>3. /\ follow[f].mine.session \in Sessions /\ HolderStands(S, follow[f], x)
        /\ follow[f].mine = x
    BY <2>1, SeesSession, SessionPlaces, HoldsIs
  <2>4. S[x.session].at # "busy"
    BY <2>1, <2>3 DEF HolderStands
  <2> QED
    BY <2>2, <2>3, <2>4, NoneIsNone
<1> HIDE DEF S, T, G, x
<1>7. LinesOf(T) /\ Replies(T, x.transcript)
  BY <1>1, <1>2, <1>3, <1>4, GrowsLines, GrowsReplies
<1>8. /\ Heard(T, x)
      /\ x.session # None /\ S[x.session].at # "busy" => T[x.session].log = S[x.session].log
  BY <1>1, <1>2, <1>3, <1>5, GrowsHeard
<1>9. HeardAll(T, G, x)
  BY <1>6, <1>8 DEF HeardAll
<1>10. ReplyOf(T, G, x)
  BY <1>7, <1>8, <1>9 DEF ReplyOf
<1> QED
  BY <1>10 DEF ReplyInv, T, G, x

\* A follow moves, the rest as it is.
LEMMA MoveReply ==
  ASSUME HeldShapes, SendInv, ReplyInv, UNCHANGED <<file, session>>, NEW f \in Follows, NEW u,
         follow' = [follow EXCEPT ![f] = u], u.at # "answer"
  PROVE  ReplyInv'
<1>1. session' \in SessionMaps /\ follow \in [Follows -> Threads]
  BY SendTypes
<1>2. SessionsGrow(session, session')
  BY SameGrows
<1>3. \A g \in Follows : follow'[g].at = "answer" =>
          follow[g].at = "answer" /\ follow'[g].id = follow[g].id
  BY <1>1
<1> QED
  BY <1>1, <1>2, <1>3, GrowReply

\* The file is written, by a follow that is not about to answer.
LEMMA WriteReply ==
  ASSUME ReplyInv, session' = session, NEW y, file' = y,
         Replies(session, y.transcript), Heard(session, y),
         \A g \in Follows : HeldBy(y, follow'[g], g) => follow'[g].at # "answer"
  PROVE  ReplyInv'
<1> DEFINE S == session
           G == follow'
<1>1. LinesOf(S) /\ Replies(S, y.transcript) /\ Heard(S, y)
  BY DEF ReplyInv, ReplyOf
<1>2. HeardAll(S, G, y)
  BY DEF HeardAll
<1> HIDE DEF S, G
<1>3. ReplyOf(S, G, y)
  BY <1>1, <1>2 DEF ReplyOf
<1> QED
  BY <1>3 DEF ReplyInv, S, G

LEMMA EndReply ==
  ASSUME HeldShapes, SendInv, ReplyInv, NEW f \in Follows, Ends(f), UNCHANGED <<file, session>>
  PROVE  ReplyInv'
<1> DEFINE u == Over(follow[f])
<1>1. follow' = [follow EXCEPT ![f] = u] /\ u.at = "over"
  BY OverType DEF Ends
<1> HIDE DEF u
<1> QED
  BY <1>1, MoveReply

\* A follow that writes x, or stops.
LEMMA WritesReply ==
  ASSUME HeldShapes, SendInv, ReplyInv, session' = session, NEW f \in Follows,
         NEW t \in Threads, NEW x, NEW at, at \notin {"answer", "over"},
         Writes(f, x, [t EXCEPT !.at = at]),
         Holds(f) => x.by = file.by /\ Replies(session, x.transcript) /\ Heard(session, x)
  PROVE  ReplyInv'
<1> DEFINE u == [t EXCEPT !.at = at]
           v == [u EXCEPT !.mine = x]
<1>1. u.at = at /\ v.at = at
  BY DEF Threads
<1>2. CASE ~Holds(f)
  BY <1>2, EndReply DEF Writes
<1>3. CASE Holds(f)
  <2>1. file' = x /\ follow' = [follow EXCEPT ![f] = v]
    BY <1>1, <1>3 DEF Writes
  <2> HIDE DEF u, v
  <2>2. follow'[f].at = at
    BY <1>1, <2>1, SendTypes
  <2>3. x.by = f
    BY <1>3 DEF Holds
  <2>4. \A g \in Follows : HeldBy(x, follow'[g], g) => follow'[g].at # "answer"
    BY <2>2, <2>3 DEF HeldBy
  <2> QED
    BY <1>3, <2>1, <2>4, WriteReply
<1> QED
  BY <1>2, <1>3

\* It writes the end of its turn.
LEMMA WritesOverReply ==
  ASSUME HeldShapes, SendInv, ReplyInv, session' = session, NEW f \in Follows, NEW t, NEW x,
         Writes(f, x, Over(t)),
         Holds(f) => x.by = None /\ Replies(session, x.transcript) /\ Heard(session, x)
  PROVE  ReplyInv'
<1>1. Over(t).at = "over"
  BY OverType
<1>2. CASE ~Holds(f)
  BY <1>2, EndReply DEF Writes
<1>3. CASE Holds(f)
  <2>1. file' = x
    BY <1>3 DEF Writes
  <2>2. \A g \in Follows : ~HeldBy(x, follow'[g], g)
    BY <1>3, NoneIsNone DEF HeldBy
  <2> QED
    BY <1>3, <2>1, <2>2, WriteReply
<1> QED
  BY <1>2, <1>3

\* Where what it writes has of the turn what the file has.
LEMMA WritesSameReply ==
  ASSUME HeldShapes, SendInv, ReplyInv, session' = session, NEW f \in Follows,
         NEW t \in Threads, NEW x, NEW at, at \notin {"answer", "over"},
         Writes(f, x, [t EXCEPT !.at = at]),
         Holds(f) => /\ x.by = file.by /\ x.session = file.session /\ x.offset = file.offset
                     /\ x.turns = file.turns /\ (x.turn <=> file.turn) /\ x.said = file.said
                     /\ x.transcript = file.transcript
  PROVE  ReplyInv'
<1>1. Replies(session, file.transcript) /\ Heard(session, file)
  BY DEF ReplyInv, ReplyOf
<1>2. Holds(f) => x.by = file.by /\ Replies(session, x.transcript) /\ Heard(session, x)
  BY <1>1, SameHeard
<1> QED
  BY <1>2, WritesReply

----------------------------------------------------------------------------
(* The follow's steps beside its reading.                                  *)

LEMMA HearsReply ==
  ASSUME HeldShapes, SendInv, ReplyInv, NEW f \in Follows, NEW u, Hears(f, u), u.at # "answer"
  PROVE  ReplyInv'
<1>1. follow' = [follow EXCEPT ![f] = u] /\ UNCHANGED <<file, session>>
  BY DEF Hears, outside
<1> QED
  BY <1>1, MoveReply

LEMMA HearsToReply ==
  ASSUME HeldShapes, SendInv, ReplyInv, NEW f \in Follows, NEW t \in Threads, NEW at,
         Hears(f, [t EXCEPT !.at = at]), at # "answer"
  PROVE  ReplyInv'
<1> DEFINE u == [t EXCEPT !.at = at]
<1>1. u.at = at /\ Hears(f, u)
  BY DEF Threads
<1> HIDE DEF u
<1> QED
  BY <1>1, HearsReply

LEMMA FailsReply ==
  ASSUME HeldShapes, SendInv, ReplyInv, NEW f \in Follows, NEW why,
         Hears(f, Fails(follow[f], why))
  PROVE  ReplyInv'
<1> DEFINE u == Fails(follow[f], why)
<1>1. u.at = "failed" /\ Hears(f, u)
  BY SendTypes, FailsAt
<1> HIDE DEF u
<1> QED
  BY <1>1, HearsReply

LEMMA QuietReply ==
  ASSUME HeldShapes, SendInv, ReplyInv, NEW f \in Follows,
         \/ FollowPicks(f) \/ FollowReadies(f) \/ FollowStarts(f) \/ FollowHearsStart(f)
         \/ FollowStops(f) \/ FollowAbandons(f) \/ FollowAsks(f)
         \/ CallFails(f) \/ FollowFails(f)
  PROVE  ReplyInv'
<1> DEFINE t == follow[f]
<1>1. t \in Threads
  BY SendTypes
<1>2. CASE FollowPicks(f)
  <2>1. ASSUME NEW at \in Picked, NEW e, Hears(f, [t EXCEPT !.at = at, !.got = e])
        PROVE  ReplyInv'
    <3> DEFINE u == [t EXCEPT !.at = at, !.got = e]
    <3>1. u.at # "answer" /\ Hears(f, u)
      BY <1>1, <2>1 DEF Threads, Picked
    <3> HIDE DEF u
    <3> QED
      BY <3>1, HearsReply
  <2> QED
    BY <1>2, <2>1, FailsReply DEF FollowPicks, Picked, Loses
<1>3. CASE FollowReadies(f)
  BY <1>1, <1>3, FailsReply, HearsToReply DEF FollowReadies, Loses
<1>4. CASE FollowStarts(f)
  <2> DEFINE u == [t EXCEPT !.at = "coming"]
  <2>1. follow' = [follow EXCEPT ![f] = u] /\ UNCHANGED <<file, session>>
    BY <1>4, SendTypes DEF FollowStarts, Goes
  <2>2. u.at # "answer"
    BY <1>1 DEF Threads
  <2> HIDE DEF u
  <2> QED
    BY <2>1, <2>2, MoveReply
<1>5. CASE FollowHearsStart(f)
  BY <1>1, <1>5, FailsReply, HearsToReply DEF FollowHearsStart, Loses
<1>6. CASE FollowStops(f) \/ FollowAbandons(f) \/ FollowFails(f)
  BY <1>6, EndReply DEF FollowStops, FollowAbandons, FollowFails, outside
<1>7. CASE FollowAsks(f)
  <2>1. "send" # "answer" /\ IsSent(t) # "answer"
    BY DEF IsSent
  <2> QED
    BY <1>1, <1>7, <2>1, FailsReply, HearsToReply DEF FollowAsks
<1>8. CASE CallFails(f)
  <2>1. PICK why \in {"again", "refused"} : follow' = [follow EXCEPT ![f] = Fails(@, why)]
    BY <1>8 DEF CallFails
  <2> DEFINE u == Fails(t, why)
  <2>2. follow' = [follow EXCEPT ![f] = u] /\ UNCHANGED <<file, session>>
    BY <1>8, <2>1 DEF CallFails, outside
  <2>3. u.at = "failed"
    BY <1>1, FailsAt
  <2> HIDE DEF u
  <2> QED
    BY <2>2, <2>3, MoveReply
<1> QED
  BY <1>2, <1>3, <1>4, <1>5, <1>6, <1>7, <1>8

\* A thread is released, and its turn let go of.
LEMMA ReleaseReply ==
  ASSUME HeldShapes, SendInv, ReplyInv, session' = session, NEW f \in Follows,
         follow' = [follow EXCEPT ![f].released = TRUE], file' = file \/ file' = Left(f)
  PROVE  ReplyInv'
<1>1. follow \in [Follows -> Threads] /\ SittingInv /\ file \in Sittings
  BY SendTypes DEF HeldShapes, Shapes
<1>2. CASE file' = file
  <2>1. \A g \in Follows : follow'[g].at = follow[g].at /\ follow'[g].id = follow[g].id
    <3> DEFINE u == [follow[f] EXCEPT !.released = TRUE]
    <3>1. u.at = follow[f].at /\ u.id = follow[f].id
      BY <1>1 DEF Threads
    <3>2. \A g \in Follows : follow'[g] = IF g = f THEN u ELSE follow[g]
      BY <1>1
    <3> HIDE DEF u
    <3> QED
      BY <3>1, <3>2
  <2>2. session' \in SessionMaps /\ SessionsGrow(session, session')
    BY SendTypes, SameGrows
  <2> QED
    BY <1>2, <2>1, <2>2, GrowReply
<1>3. CASE file' = Left(f) /\ Holds(f)
  <2> DEFINE y == Left(f)
  <2>1. y = [file EXCEPT !.by = None]
    BY <1>1, <1>3, LeftIs
  <2>2. /\ y.session = file.session /\ y.offset = file.offset /\ y.turns = file.turns
        /\ (y.turn <=> file.turn) /\ y.said = file.said /\ y.transcript = file.transcript
        /\ y.by = None
    BY <1>1, <2>1 DEF Sittings
  <2> HIDE DEF y
  <2>3. Replies(session, y.transcript) /\ Heard(session, y)
    BY <2>2, SameHeard DEF ReplyInv, ReplyOf
  <2>4. \A g \in Follows : ~HeldBy(y, follow'[g], g)
    BY <2>2, NoneIsNone DEF HeldBy
  <2>5. file' = y
    BY <1>3 DEF y
  <2> QED
    BY <2>3, <2>4, <2>5, WriteReply
<1>4. CASE file' = Left(f) /\ ~Holds(f)
  <2>1. file' = file
    BY <1>1, <1>4, LeftIs
  <2> QED
    BY <1>2, <2>1
<1> QED
  BY <1>2, <1>3, <1>4

LEMMA BeginsReply ==
  ASSUME HeldShapes, SendInv, ReplyInv, session' = session, NEW f \in Follows, FollowBegins(f)
  PROVE  ReplyInv'
<1> DEFINE t == follow[f]
<1>1. t \in Threads /\ SittingInv /\ file \in Sittings
  BY SendTypes DEF HeldShapes, Shapes
<1>2. CASE pod[t.pod].stopped
  <2>1. file' = Left(f) /\ Ends(f)
    BY <1>2 DEF FollowBegins
  <2>2. CASE Holds(f)
    <3> DEFINE y == Left(f)
    <3>1. y = [file EXCEPT !.by = None]
      BY <1>1, <2>2, LeftIs
    <3>2. /\ y.session = file.session /\ y.offset = file.offset /\ y.turns = file.turns
          /\ (y.turn <=> file.turn) /\ y.said = file.said /\ y.transcript = file.transcript
          /\ y.by = None
      BY <1>1, <3>1 DEF Sittings
    <3> HIDE DEF y
    <3>3. Replies(session, y.transcript) /\ Heard(session, y)
      BY <3>2, SameHeard DEF ReplyInv, ReplyOf
    <3>4. \A g \in Follows : ~HeldBy(y, follow'[g], g)
      BY <3>2, NoneIsNone DEF HeldBy
    <3>5. file' = y
      BY <2>1 DEF y
    <3> QED
      BY <3>3, <3>4, <3>5, WriteReply
  <2>3. CASE ~Holds(f)
    BY <1>1, <2>1, <2>3, LeftIs, EndReply
  <2> QED
    BY <2>2, <2>3
<1>3. CASE ~pod[t.pod].stopped
  <2>1. Writes(f, file, [t EXCEPT !.at = Advance(file, t)])
    BY <1>3 DEF FollowBegins
  <2>2. Advance(file, t) \notin {"answer", "over"}
    BY DEF Advance
  <2> QED
    BY <1>1, <2>1, <2>2, WritesSameReply
<1> QED
  BY <1>2, <1>3

LEMMA PlainWritesReply ==
  ASSUME HeldShapes, SendInv, ReplyInv, session' = session, NEW f \in Follows,
         \/ FollowTakes(f) \/ FollowRestarts(f) \/ FollowIsCreating(f) \/ FollowMarksBusy(f)
  PROVE  ReplyInv'
<1>1. follow[f] \in Threads /\ file \in Sittings
  BY SendTypes
<1>2. CASE FollowTakes(f)
  <2> DEFINE x == [file EXCEPT !.env = follow[f].got, !.started = follow[f].at = "pickedStopped"]
             t == [follow[f] EXCEPT !.got = None]
             at == Advance(x, t)
  <2>1. Writes(f, x, [t EXCEPT !.at = at])
    BY <1>2 DEF FollowTakes
  <2>2. /\ x.by = file.by /\ x.session = file.session /\ x.offset = file.offset
        /\ x.turns = file.turns /\ (x.turn <=> file.turn) /\ x.said = file.said
        /\ x.transcript = file.transcript
    BY <1>1 DEF Sittings
  <2>3. t \in Threads
    BY <1>1 DEF Threads, None
  <2>4. at \notin {"answer", "over"}
    BY DEF Advance
  <2> HIDE DEF x, t, at
  <2> QED
    BY <2>1, <2>2, <2>3, <2>4, WritesSameReply
<1>3. CASE FollowRestarts(f)
  <2> DEFINE x == [file EXCEPT !.started = TRUE]
  <2>1. Writes(f, x, [follow[f] EXCEPT !.at = "start"])
    BY <1>3 DEF FollowRestarts
  <2>2. /\ x.by = file.by /\ x.session = file.session /\ x.offset = file.offset
        /\ x.turns = file.turns /\ (x.turn <=> file.turn) /\ x.said = file.said
        /\ x.transcript = file.transcript
    BY <1>1 DEF Sittings
  <2> HIDE DEF x
  <2> QED
    BY <1>1, <2>1, <2>2, WritesSameReply
<1>4. CASE FollowIsCreating(f)
  <2>1. CASE Writes(f, file, [follow[f] EXCEPT !.at = "create"])
    BY SMTT(30), <1>1, <2>1, WritesSameReply
  <2>2. CASE Hears(f, [follow[f] EXCEPT !.at = "abandon"])
    BY <1>1, <2>2, HearsToReply
  <2> QED
    BY <1>4, <2>1, <2>2 DEF FollowIsCreating
<1>5. CASE FollowMarksBusy(f)
  <2> DEFINE x == [file EXCEPT !.status = "busy"]
  <2>1. Writes(f, x, [follow[f] EXCEPT !.at = "stream"])
    BY <1>5 DEF FollowMarksBusy
  <2>2. /\ x.by = file.by /\ x.session = file.session /\ x.offset = file.offset
        /\ x.turns = file.turns /\ (x.turn <=> file.turn) /\ x.said = file.said
        /\ x.transcript = file.transcript
    BY <1>1 DEF Sittings
  <2> HIDE DEF x
  <2> QED
    BY SMTT(30), <1>1, <2>1, <2>2, WritesSameReply
<1> QED
  BY <1>2, <1>3, <1>4, <1>5

----------------------------------------------------------------------------
(* The follow reads, and answers.                                          *)

\* Of a turn that no message began, a session has said nothing.
LEMMA NothingSaid ==
  ASSUME NEW S \in SessionMaps, NEW s \in Sessions, LinesOf(S), NEW n \in Nat, Count(S, s) <= n,
         NEW last \in Nat, last <= Len(S[s].log), NEW said \in Seq(Texts)
  PROVE  SaidBy(S, said, s, n + 1, last) <=> said = << >>
<1> DEFINE A == {i \in 1..last : S[s].log[i].turn = n + 1 /\ S[s].log[i].message}
<1>1. /\ Len(S[s].log) \in Nat /\ Count(S, s) \in Nat
      /\ \A i \in 1..Len(S[s].log) : S[s].log[i].turn \in Nat
  BY Recorded
<1>2. \A i \in 1..last : i \in 1..Len(S[s].log)
  BY <1>1
<1>3. \A i \in 1..last : S[s].log[i].turn # n + 1
  <2> SUFFICES ASSUME NEW i \in 1..last PROVE S[s].log[i].turn # n + 1
    OBVIOUS
  <2>1. S[s].log[i].turn <= Count(S, s) /\ S[s].log[i].turn \in Nat
    BY <1>1, <1>2 DEF LinesOf
  <2> QED
    BY <1>1, <2>1
<1>4. A = {}
  BY <1>3
<1>5. {<<s, i>> : i \in A} = {}
  BY <1>4
<1>6. ASSUME said = << >> PROVE SaidBy(S, said, s, n + 1, last)
  <2>1. DOMAIN said = {}
    BY <1>6
  <2>2. {said[i] : i \in DOMAIN said} = {}
    BY <2>1
  <2> QED
    BY <1>5, <2>1, <2>2 DEF SaidBy
<1>7. ASSUME SaidBy(S, said, s, n + 1, last) PROVE said = << >>
  <2>1. {said[i] : i \in DOMAIN said} = {}
    BY <1>5, <1>7 DEF SaidBy
  <2>2. DOMAIN said = {}
    BY <2>1
  <2>3. DOMAIN said = 1..Len(said) /\ Len(said) \in Nat
    OBVIOUS
  <2>4. Len(said) = 0
    BY <2>2, <2>3
  <2> QED
    BY <2>4
<1> QED
  BY <1>6, <1>7

\* The next item read, with what is kept of it.
LEMMA SaidNext ==
  ASSUME NEW S \in SessionMaps, NEW s \in Sessions, NEW turn \in Nat, NEW last \in Nat,
         NEW said \in Seq(Texts), SaidBy(S, said, s, turn, last), last + 1 <= Len(S[s].log)
  PROVE  SaidBy(S, IF S[s].log[last + 1].message /\ S[s].log[last + 1].turn = turn
                   THEN Append(said, <<s, last + 1>>) ELSE said, s, turn, last + 1)
<1> DEFINE n == last + 1
           Is(i) == S[s].log[i].turn = turn /\ S[s].log[i].message
           A == {i \in 1..last : Is(i)}
           B == {i \in 1..n : Is(i)}
           C == {<<s, i>> : i \in A}
           k == Len(said)
           w == Append(said, <<s, n>>)
<1>1. {said[i] : i \in DOMAIN said} = C /\ \A i, j \in DOMAIN said : i < j => said[i][2] < said[j][2]
  BY DEF SaidBy
<1>2. \A i : i \in 1..n <=> i \in 1..last \/ i = n
  OBVIOUS
<1>3. CASE Is(n)
  <2>1. B = A \cup {n}
    BY <1>2, <1>3
  <2>2. {<<s, i>> : i \in B} = C \cup {<<s, n>>}
    BY <2>1
  <2>3. /\ k \in Nat /\ DOMAIN said = 1..k /\ DOMAIN w = 1..(k + 1) /\ w[k + 1] = <<s, n>>
        /\ \A i \in 1..k : w[i] = said[i]
    <3>1. <<s, n>> \in Texts
      BY DEF Texts
    <3> QED
      BY <3>1
  <2> HIDE DEF w
  <2>4. \A i : i \in DOMAIN w <=> i \in 1..k \/ i = k + 1
    BY <2>3
  <2>5. {w[i] : i \in DOMAIN w} = {said[i] : i \in DOMAIN said} \cup {<<s, n>>}
    BY <2>3, <2>4
  <2>6. ASSUME NEW i \in DOMAIN said PROVE said[i][2] \in 1..last
    <3>1. said[i] \in C
      BY <1>1
    <3>2. PICK a \in A : said[i] = <<s, a>>
      BY <3>1
    <3> QED
      BY <3>2
  <2>7. ASSUME NEW i \in DOMAIN w, NEW j \in DOMAIN w, i < j PROVE w[i][2] < w[j][2]
    <3>1. i \in 1..k /\ (j \in 1..k \/ j = k + 1)
      BY <2>3, <2>7
    <3>2. CASE j \in 1..k
      BY <1>1, <2>3, <2>7, <3>1, <3>2
    <3>3. CASE j = k + 1
      <4>1. w[i] = said[i] /\ said[i][2] \in 1..last /\ w[j][2] = n
        BY <2>3, <2>6, <3>1, <3>3
      <4> QED
        BY <4>1
    <3> QED
      BY <3>1, <3>2, <3>3
  <2>8. SaidBy(S, w, s, turn, n)
    BY <1>1, <2>2, <2>5, <2>7 DEF SaidBy
  <2> QED
    BY <1>3, <2>8 DEF w
<1>4. CASE ~Is(n)
  <2>1. B = A
    BY <1>2, <1>4
  <2>2. SaidBy(S, said, s, turn, n)
    BY <1>1, <2>1 DEF SaidBy
  <2> QED
    BY <1>4, <2>2
<1> QED
  BY <1>3, <1>4

LEMMA RecordsReply ==
  ASSUME HeldShapes, SendInv, ReplyInv, session' = session, NEW f \in Follows, FollowRecords(f)
  PROVE  ReplyInv'
<1> DEFINE t == follow[f]
           w == [t EXCEPT !.got = None]
           x == [file EXCEPT !.session = t.got, !.offset = 0, !.turns = 0]
<1>1. /\ t \in Threads /\ Placed(t, sent) /\ t.at = "record" /\ file \in Sittings
      /\ session \in SessionMaps /\ SittingInv
  BY SendTypes DEF FollowRecords, HeldShapes, Shapes
<1>2. t.got \in Sessions /\ t.mine.session = None /\ AtWork(f)
  BY <1>1 DEF Placed, WithoutSession, AtWork
<1>3. CASE ~Holds(f)
  BY <1>1, <1>3, HearsToReply DEF FollowRecords
<1>4. CASE Holds(f)
  <2>1. file.session = None
    BY <1>1, <1>2, <1>4, HolderHas
  <2>2. file.said = << >> /\ Replies(session, file.transcript)
    BY <2>1 DEF ReplyInv, ReplyOf, Heard
  <2>3. /\ x.session = t.got /\ x.offset = 0 /\ x.turns = 0 /\ x.said = << >>
        /\ x.transcript = file.transcript /\ x.by = file.by
    BY <1>1, <2>2 DEF Sittings
  <2>4. Writes(f, x, [w EXCEPT !.at = "send"]) /\ w \in Threads
    BY <1>1, <1>4 DEF FollowRecords, Threads, None
  <2> HIDE DEF x, w
  <2>5. Len(session[t.got].log) \in Nat
    BY <1>1, <1>2, Recorded
  <2>6. SaidBy(session, x.said, x.session, x.turns + 1, x.offset)
    BY <2>3 DEF SaidBy
  <2>7. Heard(session, x)
    BY <2>3, <2>5, <2>6 DEF Heard
  <2>8. x.by = file.by /\ Replies(session, x.transcript) /\ Heard(session, x)
    BY <2>2, <2>3, <2>7
  <2> DEFINE at == "send"
  <2>9. Writes(f, x, [w EXCEPT !.at = at]) /\ at \notin {"answer", "over"}
    BY <2>4
  <2> HIDE DEF at
  <2> QED
    BY <2>4, <2>8, <2>9, WritesReply
<1> QED
  BY <1>3, <1>4

LEMMA ResumesReply ==
  ASSUME HeldShapes, SendInv, ReplyInv, session' = session, NEW f \in Follows, FollowResumes(f)
  PROVE  ReplyInv'
<1> DEFINE t == follow[f]
           x == [file EXCEPT !.session = None]
           at == Advance(x, t)
<1>1. t.at = "resume" /\ Writes(f, x, [t EXCEPT !.at = at])
  BY DEF FollowResumes
<1>2. /\ t \in Threads /\ t.mine.session \in Sessions /\ file \in Sittings
      /\ session \in SessionMaps
      /\ Holds(f) => /\ HolderStands(session, t, file) /\ t.mine = file /\ file.turn
                     /\ FileCounts(session, file)
  BY <1>1, SendTypes, SeesSession, SessionPlaces
<1>3. session[t.mine.session].at = "gone"
  BY <1>1 DEF HeldShapes, OwnInv, ResumesGone
<1>4. /\ x.by = file.by /\ x.session = None /\ x.transcript = file.transcript /\ x.said = file.said
  BY <1>2 DEF Sittings
<1>5. at \notin {"answer", "over"}
  BY DEF Advance
<1> HIDE DEF x, at
<1>6. ASSUME Holds(f) PROVE Replies(session, x.transcript) /\ Heard(session, x)
  <2> DEFINE s == file.session
  <2>1. s \in Sessions /\ s # None /\ file.turns \in Nat /\ file.offset \in Nat
        /\ file.said \in Seq(Texts)
    BY <1>2, <1>6, NoneIsNone DEF Sittings
  <2>2. ~Taken(session, LastMessage(file)) /\ Good(session, file)
    BY <1>1, <1>2, <1>3, <1>6, <2>1 DEF HolderStands, FileCounts
  <2>3. Count(session, s) <= file.turns
    <3>1. Count(session, s) \in Nat
      BY <1>2, <2>1, Recorded
    <3>2. ASSUME Count(session, s) > file.turns PROVE FALSE
      <4>1. session[s].took[file.turns + 1] = LastMessage(file)
        BY <2>2, <3>2 DEF Good
      <4>2. /\ Count(session, s) = Len(session[s].took)
            /\ DOMAIN session[s].took = 1..Len(session[s].took)
        <5>1. session[s].took \in Seq(Nat) /\ Count(session, s) = Len(session[s].took)
          BY <1>2, <2>1, Recorded
        <5> QED
          BY <5>1
      <4>3. file.turns + 1 \in 1..Count(session, s)
        BY <2>1, <3>1, <3>2
      <4>4. file.turns + 1 \in DOMAIN session[s].took
        BY <4>2, <4>3
      <4> QED
        BY <2>1, <2>2, <4>1, <4>4 DEF Taken
    <3> QED
      BY <2>1, <3>1, <3>2
  <2>4. /\ SaidBy(session, file.said, s, file.turns + 1, file.offset)
        /\ file.offset <= Len(session[s].log) /\ LinesOf(session)
        /\ Replies(session, file.transcript)
    BY <1>2, <1>6, <2>1 DEF ReplyInv, ReplyOf, Heard
  <2>5. file.said = << >>
    BY <1>2, <2>1, <2>3, <2>4, NothingSaid
  <2> QED
    BY <1>4, <2>4, <2>5 DEF Heard
<1> QED
  BY <1>1, <1>2, <1>4, <1>5, <1>6, WritesReply

LEMMA ReadsReply ==
  ASSUME HeldShapes, SendInv, ReplyInv, session' = session, NEW f \in Follows, FollowReads(f)
  PROVE  ReplyInv'
<1> DEFINE t == follow[f]
           s == t.mine.session
           next == t.mine.offset + 1
           x == Kept(file, s, next)
<1>1. t.at = "stream"
  BY DEF FollowReads
<1>2. /\ t \in Threads /\ s \in Sessions /\ t.mine \in Sittings /\ file \in Sittings
      /\ session \in SessionMaps
      /\ Holds(f) => t.mine = file /\ file.turn
  BY <1>1, SendTypes, SeesSession, SessionPlaces
<1>3. /\ LinesOf(session) /\ Replies(session, file.transcript) /\ Heard(session, file)
      /\ HeardAll(session, follow, file)
  BY DEF ReplyInv, ReplyOf
<1>4. t.mine.offset \in Nat /\ t.mine.turns + 1 \in Nat /\ file.said \in Seq(Texts)
      /\ Len(session[s].log) \in Nat /\ s # None
  <2>1. t.mine.offset \in Nat /\ t.mine.turns \in Nat /\ file.said \in Seq(Texts)
    BY <1>2 DEF Sittings
  <2>2. Len(session[s].log) \in Nat /\ s # None
    BY <1>2, Recorded, NoneIsNone
  <2> QED
    BY <2>1, <2>2
<1>5. CASE Hears(f, Fails(t, "lost"))
  BY <1>5, FailsReply
<1>6. CASE next <= Len(Its(f).log) /\ Writes(f, x, t)
  <2>1. ASSUME Holds(f) PROVE x.by = file.by /\ Replies(session, x.transcript) /\ Heard(session, x)
    <3>1. t.mine = file /\ file.turn /\ s = file.session /\ next = file.offset + 1
      BY <1>2, <2>1
    <3> DEFINE n == next
               r == s
               said == IF session[r].log[n].message /\ session[r].log[n].turn = file.turns + 1
                       THEN Append(file.said, <<r, n>>) ELSE file.said
    <3>2. r \in Sessions /\ n \in Nat /\ x = Kept(file, r, n)
      BY <1>2, <1>4
    <3>3. x = [file EXCEPT !.said = said, !.offset = n]
      BY DEF Kept
    <3>4. /\ x.said = said /\ x.offset = n /\ x.session = file.session /\ x.turns = file.turns
          /\ (x.turn <=> file.turn) /\ x.transcript = file.transcript /\ x.by = file.by
      <4> HIDE DEF said, n, x
      <4> QED
        BY <1>2, <3>3 DEF Sittings
    <3>5. SaidBy(session, file.said, file.session, file.turns + 1, file.offset)
      BY <1>3, <1>4, <3>1 DEF Heard
    <3>6. SaidBy(session, said, file.session, file.turns + 1, file.offset + 1)
      BY ZenonT(40), <1>2, <1>4, <1>6, <3>1, <3>5, SaidNext DEF Its
    <3> HIDE DEF said, x
    <3>7. Heard(session, x)
      BY <1>4, <1>6, <3>1, <3>4, <3>6 DEF Heard, Its
    <3> QED
      BY <1>3, <3>4, <3>7
  <2>2. t = [t EXCEPT !.at = "stream"]
    BY <1>1, <1>2 DEF Threads
  <2> DEFINE at == "stream"
  <2>3. Writes(f, x, [t EXCEPT !.at = at]) /\ at \notin {"answer", "over"}
    BY <1>6, <2>2
  <2> HIDE DEF x, at
  <2>4. t \in Threads
    BY <1>2
  <2> QED
    BY <2>1, <2>3, <2>4, WritesReply
<1>7. CASE next > Len(Its(f).log) /\ Hears(f, [t EXCEPT !.at = "answer", !.got = Its(f).turns])
  <2> DEFINE u == [t EXCEPT !.at = "answer", !.got = Its(f).turns]
             G == follow'
  <2>1. follow' = [follow EXCEPT ![f] = u] /\ file' = file
    BY <1>7 DEF Hears
  <2>2. u.id = t.id
    BY <1>2 DEF Threads
  <2> HIDE DEF u
  <2>3. \A g \in Follows : G[g] = IF g = f THEN u ELSE follow[g]
    BY <2>1, SendTypes
  <2>4. ASSUME Holds(f) PROVE file.offset = Len(session[file.session].log)
    <3>1. t.mine = file /\ file.turn
      BY <1>2, <2>4
    <3>2. file.offset <= Len(session[s].log)
      BY <1>3, <1>4, <3>1 DEF Heard
    <3> QED
      BY <1>4, <1>7, <3>1, <3>2 DEF Its
  <2>5. HeardAll(session, G, file)
    <3> SUFFICES ASSUME NEW g \in Follows, HeldBy(file, G[g], g), G[g].at = "answer"
                 PROVE  file.offset = Len(session[file.session].log)
      BY DEF HeardAll
    <3>1. CASE g = f
      BY <2>2, <2>3, <2>4, <3>1, HoldsIs DEF HeldBy
    <3>2. CASE g # f
      BY <1>3, <2>3, <3>2 DEF HeardAll
    <3> QED
      BY <3>1, <3>2
  <2> HIDE DEF G
  <2>6. ReplyOf(session, G, file)
    BY <1>3, <2>5 DEF ReplyOf
  <2> QED
    BY <2>1, <2>6 DEF ReplyInv, G
<1> QED
  BY <1>5, <1>6, <1>7 DEF FollowReads

LEMMA AnswersReply ==
  ASSUME HeldShapes, SendInv, ReplyInv, session' = session, NEW f \in Follows, FollowAnswers(f)
  PROVE  ReplyInv'
<1> DEFINE t == follow[f]
           e == Answer(file.said)
           x == [file EXCEPT !.status = "idle", !.turns = t.got, !.turn = FALSE,
                             !.by = None, !.said = << >>,
                             !.conversation = @ \/ Running(t.mine.session),
                             !.transcript = Append(@, Answer(file.said))]
<1>1. t.at = "answer" /\ Writes(f, x, Over(t))
  BY DEF FollowAnswers
<1>2. /\ file \in Sittings /\ session \in SessionMaps /\ SittingInv /\ AtWork(f) /\ sent \in Nat
      /\ t.mine.session \in Sessions
      /\ Holds(f) => HolderStands(session, t, file) /\ t.mine = file /\ FileCounts(session, file)
  BY <1>1, SendTypes, SeesSession, SessionPlaces DEF HeldShapes, Shapes, AtWork
<1>3. LinesOf(session) /\ Replies(session, file.transcript) /\ Heard(session, file)
      /\ HeardAll(session, follow, file)
  BY DEF ReplyInv, ReplyOf
<1>4. /\ x.by = None /\ x.said = << >> /\ (x.turn <=> FALSE) /\ x.session = file.session
      /\ x.offset = file.offset /\ x.transcript = Append(file.transcript, e)
  BY <1>2 DEF Sittings
<1>5. Heard(session, x)
  BY <1>3, <1>4 DEF Heard
<1> HIDE DEF x
<1>6. ASSUME Holds(f) PROVE Replies(session, x.transcript)
  <2> DEFINE s == file.session
             k == file.turns + 1
             tr == file.transcript
             m == LastMessage(file)
  <2>1. InFlight(file, sent) /\ file.turn /\ t.mine = file
    BY <1>2, <1>6, HolderHas
  <2>2. /\ tr \in Seq(Entries) /\ file.said \in Seq(Texts) /\ file.turns \in Nat
        /\ s \in Sessions /\ s # None
    BY <1>2, <2>1, NoneIsNone DEF Sittings, Entries
  <2>3. tr # << >> /\ tr[Len(tr)] = Operator(m)
    BY <1>2, <2>1, LastIs DEF InFlight
  <2>4. e \in Entries /\ e.said = file.said
    BY <2>2 DEF Answer, Entries
  <2>5. tr[Len(tr)].author = "operator" /\ tr[Len(tr)].said[1][2] = m
    BY <2>3 DEF Operator
  <2>6. Count(session, s) = k /\ session[s].turns = Count(session, s)
    BY <1>1, <1>2, <1>6, <2>1 DEF HolderStands
  <2>7. session[s].took[k] = m
    BY <1>2, <1>6, <2>1, <2>2, <2>6 DEF FileCounts, Good
  <2>8. file.offset = Len(session[s].log)
    BY <1>1, <1>3, <1>6, HoldsIs DEF HeardAll
  <2>9. SaidBy(session, file.said, s, k, Len(session[s].log))
    BY <1>3, <2>1, <2>2, <2>8 DEF Heard
  <2>10. k \in 1..session[s].turns
    BY <2>2, <2>6
  <2>11. Told(session, m, file.said)
    BY <2>2, <2>7, <2>9, <2>10 DEF Told
  <2> HIDE DEF e, tr, m
  <2>12. Replies(session, Append(tr, e))
    <3>1. Replies(session, tr)
      BY <1>3 DEF tr
    <3>2. Told(session, tr[Len(tr)].said[1][2], e.said)
      BY <2>4, <2>5, <2>11
    <3> QED
      BY <2>2, <2>3, <2>4, <2>5, <3>1, <3>2, AppendsReply
  <2> QED
    BY <1>4, <2>12 DEF tr
<1> QED
  BY <1>1, <1>4, <1>5, <1>6, WritesOverReply

LEMMA CatchesReply ==
  ASSUME HeldShapes, SendInv, ReplyInv, session' = session, NEW f \in Follows, FollowCatches(f)
  PROVE  ReplyInv'
<1> DEFINE t == [follow[f] EXCEPT !.unsent = FALSE, !.why = "none"]
           x == [file EXCEPT !.status = "lost", !.turn = FALSE, !.by = None, !.said = << >>]
           at == Advance(file, t)
<1>1. follow[f] \in Threads /\ file \in Sittings
  BY SendTypes
<1>2. t \in Threads
  BY <1>1 DEF Threads
<1>3. CASE Writes(f, x, Over(t))
  <2>1. /\ x.by = None /\ (x.turn <=> FALSE) /\ x.session = file.session /\ x.said = << >>
        /\ x.offset = file.offset /\ x.transcript = file.transcript
    BY <1>1 DEF Sittings
  <2> HIDE DEF x, t
  <2>2. Replies(session, x.transcript) /\ Heard(session, x)
    BY <2>1 DEF ReplyInv, ReplyOf, Heard
  <2> QED
    BY <1>3, <2>1, <2>2, WritesOverReply
<1>4. CASE Ends(f) /\ UNCHANGED file
  BY <1>4, EndReply
<1>5. CASE Writes(f, file, [t EXCEPT !.at = at])
  <2>1. at \notin {"answer", "over"}
    BY DEF Advance
  <2> HIDE DEF at, t
  <2> QED
    BY <1>2, <1>5, <2>1, WritesSameReply
<1> QED
  BY <1>3, <1>4, <1>5 DEF FollowCatches

----------------------------------------------------------------------------
(* The sessions' own steps, and the operator's.                            *)

LEMMA CreatesReply ==
  ASSUME HeldShapes, HeldShapes', SendInv, ReplyInv, NEW f \in Follows, FollowCreates(f)
  PROVE  ReplyInv'
<1> DEFINE t == follow[f]
           r == NextSession
<1>1. t \in Threads /\ session' \in SessionMaps
  BY SendTypes, SendTypesNext
<1>2. CASE Hears(f, Fails(t, "lost"))
  BY <1>2, FailsReply
<1>3. CASE /\ FreeSessions # {}
           /\ session' = [session EXCEPT ![r] = NewSession(t.mine.env)]
           /\ \/ follow' = [follow EXCEPT ![f].at = "record", ![f].got = r, ![f].unsent = TRUE]
              \/ follow' = [follow EXCEPT ![f] = Fails(t, "again")]
           /\ UNCHANGED <<file, sent>>
  <2>1. t.mine.env \in Envs \cup {None} /\ SessionShapes
    BY <1>1 DEF Threads, Sittings, HeldShapes, Shapes, OuterShapes, SessionShapes
  <2>2. /\ r \in Sessions /\ session[r].at = "none" /\ session'[r].log = << >>
        /\ \A q \in Sessions \ {r} : session'[q] = session[q]
    BY <1>3, <2>1, CreateMakes
  <2>3. SessionsGrow(session, session')
    BY <2>2 DEF SessionsGrow, SessionGrows
  <2> DEFINE u == [t EXCEPT !.at = "record", !.got = r, !.unsent = TRUE]
             v == Fails(t, "again")
  <2>4. u.at = "record" /\ v.at = "failed"
    BY <1>1, FailsAt DEF Threads
  <2>5. follow' = [follow EXCEPT ![f] = u] \/ follow' = [follow EXCEPT ![f] = v]
    BY <1>3, SendTypes
  <2> HIDE DEF u, v
  <2>6. \A g \in Follows : follow'[g].at = "answer" =>
            follow[g].at = "answer" /\ follow'[g].id = follow[g].id
    BY <2>4, <2>5, SendTypes
  <2> QED
    BY <1>1, <1>3, <2>3, <2>6, GrowReply
<1> QED
  BY <1>2, <1>3 DEF FollowCreates

LEMMA SendsReply ==
  ASSUME HeldShapes, HeldShapes', SendInv, ReplyInv, NEW f \in Follows, FollowSends(f)
  PROVE  ReplyInv'
<1> DEFINE t == follow[f]
           s == t.mine.session
           m == LastMessage(t.mine)
<1>1. t \in Threads /\ session' \in SessionMaps /\ t.at = "send" /\ s \in Sessions
  BY SendTypes, SendTypesNext, SeesSession, SessionPlaces DEF FollowSends
<1>2. ASSUME NEW why, Hears(f, Fails(t, why)) PROVE ReplyInv'
  BY <1>2, FailsReply
<1>3. CASE Hears(f, [t EXCEPT !.at = "resume", !.resumed = TRUE])
  <2> DEFINE u == [t EXCEPT !.at = "resume", !.resumed = TRUE]
  <2>1. u.at = "resume" /\ Hears(f, u)
    BY <1>1, <1>3 DEF Threads
  <2> HIDE DEF u
  <2> QED
    BY <2>1, HearsReply
<1>4. CASE /\ session[s].at = "idle"
           /\ session' = [session EXCEPT ![s].at = "busy", ![s].took = Append(@, m)]
           /\ \/ follow' = [follow EXCEPT ![f].at = IsSent(t), ![f].unsent = FALSE]
              \/ follow' = [follow EXCEPT ![f] = Fails(t, "again")]
           /\ UNCHANGED <<file, sent>>
  <2>1. SittingInv /\ SessionShapes
    BY DEF HeldShapes, Shapes, OuterShapes, SessionShapes
  <2>2. /\ \A r \in Sessions \ {s} : session'[r] = session[r]
        /\ session'[s].log = session[s].log /\ session'[s].turns = session[s].turns
        /\ session'[s].took = Append(session[s].took, m) /\ m \in 1..sent
    BY ZenonT(40), <1>1, <1>4, <2>1, SendTakes
  <2> HIDE DEF m
  <2>3. /\ session[s].took \in Seq(Nat) /\ session[s].turns \in Nat
        /\ Len(session[s].log) \in Nat /\ m \in Nat
    <3>1. session \in SessionMaps
      BY SendTypes
    <3>2. m \in Nat
      <4>1. m \in 1..sent
        BY <2>2
      <4>2. sent \in Nat
        BY SendTypes
      <4>3. \A i \in 1..sent : i \in Nat
        BY <4>2
      <4> QED
        BY <4>1, <4>3
    <3> QED
      BY <1>1, <3>1, <3>2, Recorded
  <2> DEFINE a == session[s]
             b == session'[s]
  <2>4. /\ a.took \in Seq(Nat) /\ a.turns \in Nat /\ Len(a.log) \in Nat /\ m \in Nat
        /\ b.log = a.log /\ b.turns = a.turns /\ b.took = Append(a.took, m)
    BY <2>2, <2>3
  <2> HIDE DEF a, b
  <2>5. /\ Len(a.took) <= Len(b.took) /\ \A i \in 1..Len(a.took) : b.took[i] = a.took[i]
        /\ \A i \in 1..Len(b.log) : ~(i > Len(a.log))
    BY <2>4
  <2>6. SessionGrows(a, b)
    BY <2>4, <2>5 DEF SessionGrows
  <2>7. SessionsGrow(session, session')
    BY <2>2, <2>6 DEF SessionsGrow, SessionGrows, a, b
  <2> DEFINE u == [t EXCEPT !.at = IsSent(t), !.unsent = FALSE]
             v == Fails(t, "again")
  <2>8. u.at # "answer" /\ v.at # "answer"
    BY <1>1, FailsAt DEF Threads, IsSent
  <2>9. follow' = [follow EXCEPT ![f] = u] \/ follow' = [follow EXCEPT ![f] = v]
    BY <1>4, SendTypes
  <2> HIDE DEF u, v
  <2>10. \A g \in Follows : follow'[g].at = "answer" =>
             follow[g].at = "answer" /\ follow'[g].id = follow[g].id
    BY <2>8, <2>9, SendTypes
  <2> QED
    BY <1>1, <1>4, <2>7, <2>10, GrowReply
<1> QED
  BY <1>2, <1>3, <1>4 DEF FollowSends

LEMMA StepsReply ==
  ASSUME HeldShapes, HeldShapes', SendInv, ReplyInv, NEW f \in Follows, FollowSteps(f)
  PROVE  ReplyInv'
<1>1. CASE FollowCreates(f) \/ FollowSends(f)
  BY <1>1, CreatesReply, SendsReply
<1>2. CASE FollowBegins(f) \/ FollowTakes(f) \/ FollowRestarts(f) \/ FollowIsCreating(f)
           \/ FollowMarksBusy(f)
  <2>1. session' = session
    BY <1>2 DEF FollowBegins, FollowTakes, FollowRestarts, FollowIsCreating, FollowMarksBusy,
       Writes, Hears, outside
  <2> QED
    BY <1>2, <2>1, BeginsReply, PlainWritesReply
<1>3. CASE FollowPicks(f) \/ FollowReadies(f) \/ FollowStarts(f) \/ FollowHearsStart(f)
           \/ FollowStops(f) \/ FollowAbandons(f) \/ FollowAsks(f)
  BY <1>3, QuietReply
<1>4. CASE FollowRecords(f) \/ FollowResumes(f)
  <2>1. session' = session
    BY <1>4 DEF FollowRecords, FollowResumes, Writes, Hears, outside
  <2> QED
    BY <1>4, <2>1, RecordsReply, ResumesReply
<1>5. CASE FollowReads(f) \/ FollowAnswers(f) \/ FollowCatches(f)
  <2>1. session' = session
    BY <1>5 DEF FollowReads, FollowAnswers, FollowCatches, Writes, Hears, outside
  <2> QED
    BY <1>5, <2>1, ReadsReply, AnswersReply, CatchesReply
<1> QED
  BY <1>1, <1>2, <1>3, <1>4, <1>5 DEF FollowSteps

LEMMA FaultsReply ==
  ASSUME HeldShapes, SendInv, ReplyInv, NEW f \in Follows,
         CallFails(f) \/ FollowFails(f) \/ FollowBeats(f)
  PROVE  ReplyInv'
<1>1. CASE CallFails(f) \/ FollowFails(f)
  BY <1>1, QuietReply
<1>2. CASE FollowBeats(f)
  BY <1>2, ReleaseReply DEF FollowBeats, outside
<1> QED
  BY <1>1, <1>2

\* A new follow is given the turn.
LEMMA NewFollowReply ==
  ASSUME HeldShapes, ReplyInv, session' = session, FreeFollows # {}, NEW p, NEW id, NEW unsent,
         NEW y, file' = y, y.by = NextFollow,
         follow' = [follow EXCEPT ![NextFollow] = Thread(p, "begin", id, unsent)],
         Replies(session, y.transcript), Heard(session, y)
  PROVE  ReplyInv'
<1> DEFINE f == NextFollow
           u == Thread(p, "begin", id, unsent)
<1>1. f \in Follows /\ follow' = [follow EXCEPT ![f] = u] /\ y.by = f
  BY NextFollowFree
<1>2. u.at = "begin"
  BY DEF Thread
<1> HIDE DEF f, u
<1>3. follow'[f].at # "answer"
  BY <1>1, <1>2, SendTypes
<1>4. \A g \in Follows : HeldBy(y, follow'[g], g) => follow'[g].at # "answer"
  BY <1>1, <1>3 DEF HeldBy
<1> QED
  BY <1>4, WriteReply

LEMMA NoReplies == \A S : Replies(S, << >>)
BY DEF Replies

LEMMA StartReply ==
  ASSUME HeldShapes, SendInv, ReplyInv, NEW p \in Pods, Start(p) PROVE ReplyInv'
<1> DEFINE f == NextFollow
           m == sent + 1
           y == Begun(m, f)
<1>1. /\ FreeFollows # {} /\ file' = y /\ session' = session /\ sent < MaxMessages
      /\ follow' = [follow EXCEPT ![f] = Thread(p, "begin", y.id, TRUE)]
  BY DEF Start, BeginsTurn, outside
<1>2. m \in Nat
  BY SendTypes
<1>3. y.by = f /\ y.session = None /\ y.said = << >> /\ y.transcript = <<Operator(m)>>
  BY DEF Begun
<1> HIDE DEF y, f
<1>4. Replies(session, y.transcript)
  <2>1. Operator(m).author = "operator"
    BY DEF Operator
  <2> HIDE DEF m
  <2>2. Len(<<Operator(m)>>) = 1 /\ <<Operator(m)>>[1] = Operator(m)
    OBVIOUS
  <2> QED
    BY <1>3, <2>1, <2>2 DEF Replies
<1>5. Heard(session, y)
  BY <1>3 DEF Heard
<1> QED
  BY <1>1, <1>3, <1>4, <1>5, NewFollowReply DEF f

LEMMA SendReply ==
  ASSUME HeldShapes, SendInv, ReplyInv, NEW p \in Pods, Send(p) PROVE ReplyInv'
<1> DEFINE f == NextFollow
           m == sent + 1
           y == [file EXCEPT !.status = "busy", !.turn = TRUE, !.by = f,
                             !.transcript = Append(@, Operator(m))]
<1>1. /\ FreeFollows # {} /\ file' = y /\ session' = session
      /\ follow' = [follow EXCEPT ![f] = Thread(p, "begin", y.id, TRUE)]
      /\ Live /\ ~file.turn
  BY DEF Send, BeginsTurn, outside
<1>2. sent \in Nat /\ m \in Nat /\ file \in Sittings /\ session \in SessionMaps
  BY SendTypes
<1>3. /\ y.by = f /\ (y.turn <=> TRUE) /\ y.session = file.session /\ y.offset = file.offset
      /\ y.turns = file.turns /\ y.said = file.said
      /\ y.transcript = Append(file.transcript, Operator(m))
  BY <1>2 DEF Sittings
<1> HIDE DEF y, f, m
<1>4. LinesOf(session) /\ Replies(session, file.transcript) /\ Heard(session, file)
  BY DEF ReplyInv, ReplyOf
<1>5. Replies(session, y.transcript)
  <2>1. Operator(m) \in Entries /\ Operator(m).author # "session"
    BY <1>2, OperatorType DEF Operator
  <2>2. file.transcript \in Seq(Entries)
    BY <1>2 DEF Sittings, Entries
  <2> DEFINE e == Operator(m)
             tr == file.transcript
  <2> HIDE DEF e, tr
  <2>3. Replies(session, Append(tr, e))
    BY <1>4, <2>1, <2>2, AppendsReply DEF e, tr
  <2> QED
    BY <1>3, <2>3 DEF e, tr
<1>6. Heard(session, y)
  <2>1. file.said = << >>
    BY <1>1, <1>4 DEF Heard
  <2>2. CASE file.session = None
    BY <1>3, <2>1, <2>2 DEF Heard
  <2>3. CASE file.session # None
    <3> DEFINE s == file.session
    <3>1. s \in Sessions /\ file.turns \in Nat /\ file.offset \in Nat /\ file.said \in Seq(Texts)
      BY <1>2, <2>3 DEF Sittings
    <3>2. Lives(file)
      BY <1>1 DEF Live, Held, Lives
    <3>3. Count(session, s) = file.turns
      BY <1>1, <2>3, <3>2, FileSends DEF FileCounts
    <3>4. Count(session, s) <= file.turns
      BY <3>1, <3>3
    <3>5. file.offset <= Len(session[s].log)
      BY <1>4, <2>3 DEF Heard
    <3>6. SaidBy(session, file.said, s, file.turns + 1, file.offset)
      BY <1>2, <1>4, <2>1, <3>1, <3>4, <3>5, NothingSaid
    <3> QED
      BY <1>3, <2>3, <3>5, <3>6 DEF Heard
  <2> QED
    BY <2>2, <2>3
<1> QED
  BY <1>1, <1>3, <1>5, <1>6, NewFollowReply DEF f

LEMMA TakeOverReply ==
  ASSUME HeldShapes, SendInv, ReplyInv, NEW p \in Pods, TakeOver(p) PROVE ReplyInv'
<1> DEFINE f == NextFollow
           y == [file EXCEPT !.by = f]
<1>1. /\ FreeFollows # {} /\ file' = y /\ session' = session
      /\ follow' = [follow EXCEPT ![f] = Thread(p, "begin", file.id, FALSE)]
  BY DEF TakeOver, outside
<1>2. /\ y.by = f /\ (y.turn <=> file.turn) /\ y.session = file.session
      /\ y.offset = file.offset /\ y.turns = file.turns /\ y.said = file.said
      /\ y.transcript = file.transcript
  BY SendTypes DEF Sittings
<1> HIDE DEF y, f
<1>3. Replies(session, y.transcript) /\ Heard(session, y)
  BY <1>2, SameHeard DEF ReplyInv, ReplyOf
<1> QED
  BY <1>1, <1>2, <1>3, NewFollowReply DEF f

LEMMA ClearsReply ==
  ASSUME HeldShapes, SendInv, ReplyInv, StartClears \/ End \/ Rest PROVE ReplyInv'
<1>1. file \in Sittings /\ session' = session /\ Replies(session, file.transcript)
      /\ Heard(session, file)
  BY SendTypes DEF ReplyInv, ReplyOf, StartClears, End, Rest, Clears, outside
<1>2. CASE Rest
  <2> DEFINE y == [file EXCEPT !.session = None, !.started = FALSE]
  <2>1. file' = y /\ ~file.turn
    BY <1>2 DEF Rest
  <2>2. file.by = None
    BY <2>1 DEF HeldShapes, Shapes, SittingInv, FileInv
  <2>3. y.by = None /\ y.session = None /\ y.said = file.said /\ y.transcript = file.transcript
    BY <1>1, <2>2 DEF Sittings
  <2>4. file.said = << >>
    BY <1>1, <2>1 DEF Heard
  <2> HIDE DEF y
  <2>5. Replies(session, y.transcript) /\ Heard(session, y)
    BY <1>1, <2>3, <2>4 DEF Heard
  <2>6. \A g \in Follows : ~HeldBy(y, follow'[g], g)
    BY <2>3, NoneIsNone DEF HeldBy
  <2> QED
    BY <1>1, <2>1, <2>5, <2>6, WriteReply
<1>3. CASE StartClears \/ End
  <2> DEFINE y == NoSitting
  <2>1. file' = y
    BY <1>3 DEF StartClears, End, Clears
  <2>2. y.by = None /\ y.session = None /\ y.said = << >> /\ y.transcript = << >>
    BY DEF NoSitting, Begun
  <2> HIDE DEF y
  <2>3. Replies(session, y.transcript) /\ Heard(session, y)
    BY <2>2, NoReplies DEF Heard
  <2>4. \A g \in Follows : ~HeldBy(y, follow'[g], g)
    BY <2>2, NoneIsNone DEF HeldBy
  <2> QED
    BY <1>1, <2>1, <2>3, <2>4, WriteReply
<1> QED
  BY <1>2, <1>3

\* Steps of the file's, of no thread.
LEMMA StillReply ==
  ASSUME HeldShapes, SendInv, ReplyInv, UNCHANGED <<file, follow>>, session' \in SessionMaps,
         SessionsGrow(session, session')
  PROVE  ReplyInv'
BY GrowReply

LEMMA PodsReply ==
  ASSUME HeldShapes, SendInv, ReplyInv, NEW p \in Pods,
         TasksRefuse(p) \/ Stop(p) \/ Leaves(p) \/ Dies(p)
  PROVE  ReplyInv'
<1>0. session' = session /\ session \in SessionMaps /\ pod \in [Pods -> PodRecords]
  BY SendTypes DEF TasksRefuse, Stop, Leaves, Dies, outside, HeldShapes, Shapes, OuterShapes
<1>1. CASE TasksRefuse(p) \/ Stop(p)
  <2>1. UNCHANGED <<file, follow>>
    BY <1>1 DEF TasksRefuse, Stop
  <2> QED
    BY <1>0, <2>1, SameGrows, StillReply
<1>2. CASE Leaves(p)
  <2>1. PICK f \in pod[p].leave : file' = Left(f) /\ follow' = [follow EXCEPT ![f].released = TRUE]
    BY <1>2 DEF Leaves
  <2>2. f \in Follows
    BY <1>0, <2>1 DEF PodRecords
  <2> QED
    BY <1>0, <2>1, <2>2, ReleaseReply
<1>3. CASE Dies(p)
  <2> DEFINE its == {f \in Follows : follow[f].pod = p}
  <2>1. file' = file
         /\ follow' = [f \in Follows |-> IF f \in its THEN Over(follow[f]) ELSE follow[f]]
    BY <1>3 DEF Dies
  <2>2. \A g \in Follows : Over(follow[g]).at = "over"
    BY OverType
  <2> HIDE DEF its
  <2>3. \A g \in Follows : follow'[g].at = "answer" =>
            follow[g].at = "answer" /\ follow'[g].id = follow[g].id
    BY <2>1, <2>2
  <2> QED
    BY <1>0, <2>1, <2>3, SameGrows, GrowReply
<1> QED
  BY <1>1, <1>2, <1>3

LEMMA GoneReply ==
  ASSUME HeldShapes, HeldShapes', SendInv, ReplyInv, UNCHANGED <<file, follow>>, NEW S, Gone(S)
  PROVE  ReplyInv'
<1>1. SessionShapes /\ session \in SessionMaps /\ session' \in SessionMaps
  BY SendTypes, SendTypesNext DEF HeldShapes, Shapes, OuterShapes, SessionShapes
<1>2. ASSUME NEW s \in Sessions PROVE SessionGrows(session[s], session'[s])
  <2>1. /\ session'[s].took = session[s].took /\ session'[s].log = session[s].log
        /\ session'[s].turns = session[s].turns
    BY <1>1, GoneIs
  <2>2. /\ Len(session[s].took) \in Nat /\ Len(session[s].log) \in Nat
        /\ session[s].turns \in Nat
    BY <1>1, Recorded
  <2>3. \A i \in 1..Len(session'[s].log) : ~(i > Len(session[s].log))
    BY <2>1, <2>2
  <2> QED
    BY <2>1, <2>2, <2>3 DEF SessionGrows
<1> QED
  BY <1>1, <1>2, StillReply DEF SessionsGrow

\* A session that logs an item of the turn it is in.
LEMMA LogsReply ==
  ASSUME HeldShapes, HeldShapes', SendInv, ReplyInv, UNCHANGED <<file, follow>>,
         NEW s \in Sessions, session[s].at = "busy", NEW item \in Items,
         item.turn = session[s].turns + 1,
         session'[s].log = Append(session[s].log, item), session'[s].took = session[s].took,
         session'[s].turns \in {session[s].turns, session[s].turns + 1},
         \A r \in Sessions \ {s} : session'[r] = session[r]
  PROVE  ReplyInv'
<1>1. session \in SessionMaps /\ session' \in SessionMaps
  BY SendTypes, SendTypesNext
<1> DEFINE a == session[s]
           b == session'[s]
           n == Len(a.log)
<1>2. /\ a.log \in Seq(Items) /\ n \in Nat /\ a.turns \in Nat /\ Len(a.took) \in Nat
      /\ Count(session, s) = Len(a.took)
  BY <1>1, Recorded
<1>3. Len(a.took) = a.turns + 1
  BY <1>2 DEF SendInv, SendsOf, LogInv
<1>4. b.log = Append(a.log, item) /\ b.took = a.took /\ b.turns \in {a.turns, a.turns + 1}
      /\ a.at = "busy" /\ item.turn = a.turns + 1
  OBVIOUS
<1> HIDE DEF a, b
<1>5. Len(b.log) = n + 1 /\ b.log[n + 1] = item /\ \A i \in 1..n : b.log[i] = a.log[i]
  BY <1>2, <1>4
<1> HIDE DEF n
<1>6. \A i \in 1..Len(b.log) : i > n => i = n + 1
  BY <1>2, <1>5
<1>7. \A i \in 1..Len(b.log) : i > n => b.log[i].turn > a.turns /\ b.log[i].turn <= Len(b.took)
  BY <1>2, <1>3, <1>4, <1>5, <1>6
<1>8. SessionGrows(a, b)
  <2>1. a.at # "none" /\ a.at = "busy"
    BY <1>4
  <2>2. Len(a.took) <= Len(b.took) /\ a.turns <= b.turns
    BY <1>2, <1>4
  <2>3. \A i \in 1..Len(a.took) : b.took[i] = a.took[i]
    BY <1>4
  <2>4. n <= Len(b.log) /\ n = Len(a.log)
    BY <1>2, <1>5 DEF n
  <2> QED
    BY <1>5, <1>7, <2>1, <2>2, <2>3, <2>4 DEF SessionGrows
<1>9. SessionsGrow(session, session')
  BY <1>8 DEF SessionsGrow, SessionGrows, a, b
<1> QED
  BY <1>1, <1>9, StillReply

LEMMA ClosesReply ==
  ASSUME HeldShapes, HeldShapes', SendInv, ReplyInv, NEW j \in closing,
         CloseEnds(j) \/ CloseLists(j) \/ CloseStops(j) \/ CloseFails(j)
  PROVE  ReplyInv'
<1>1. CASE CloseEnds(j) \/ CloseStops(j)
  BY <1>1, GoneReply DEF CloseEnds, CloseStops
<1>2. CASE CloseLists(j) \/ CloseFails(j)
  <2>1. UNCHANGED <<file, follow, session>>
    BY <1>2 DEF CloseLists, CloseFails, outside
  <2> QED
    BY <2>1, SendTypes, SameGrows, StillReply
<1> QED
  BY <1>1, <1>2

LEMMA WorldReply ==
  ASSUME HeldShapes, HeldShapes', SendInv, ReplyInv,
         \/ \E e \in Envs : StartLands(e) \/ EnvStops(e)
         \/ \E s \in Sessions : SessionGoes(s) \/ SessionWrites(s) \/ SessionFinishes(s)
  PROVE  ReplyInv'
<1>0. SessionShapes /\ UNCHANGED <<file, follow>>
  BY DEF HeldShapes, Shapes, OuterShapes, SessionShapes, StartLands, EnvStops, SessionGoes,
     SessionWrites, SessionFinishes
<1>1. ASSUME NEW e \in Envs, StartLands(e) PROVE ReplyInv'
  <2>1. session' = session
    BY <1>1 DEF StartLands
  <2> QED
    BY <1>0, <2>1, SendTypes, SameGrows, StillReply
<1>2. ASSUME NEW e \in Envs, EnvStops(e) PROVE ReplyInv'
  BY <1>0, <1>2, GoneReply DEF EnvStops
<1>3. ASSUME NEW s \in Sessions, SessionGoes(s) PROVE ReplyInv'
  BY <1>0, <1>3, GoneReply DEF SessionGoes
<1>4. ASSUME NEW s \in Sessions, SessionWrites(s) PROVE ReplyInv'
  <2>1. session[s].at = "busy"
    BY <1>0, <1>4, SessionWritesIs
  <2>2. PICK item \in Items : /\ item.turn = session[s].turns + 1
                              /\ session' = [session EXCEPT ![s].log = Append(@, item)]
    BY <1>0, <1>4, SessionWritesIs
  <2> DEFINE r == [session[s] EXCEPT !.log = Append(@, item)]
  <2>3. r.took = session[s].took /\ r.turns = session[s].turns
        /\ r.log = Append(session[s].log, item)
    BY <1>0 DEF SessionShapes, SessionRecords
  <2>4. session'[s] = r /\ \A q \in Sessions \ {s} : session'[q] = session[q]
    BY <1>0, <2>2 DEF SessionShapes
  <2> HIDE DEF r
  <2> QED
    BY <1>0, <2>1, <2>2, <2>3, <2>4, LogsReply
<1>5. ASSUME NEW s \in Sessions, SessionFinishes(s) PROVE ReplyInv'
  <2>1. session[s].at = "busy"
    BY <1>0, <1>5, SessionFinishesIs
  <2>2. PICK item \in Items :
            /\ item.turn = session[s].turns + 1
            /\ session' = [session EXCEPT ![s].at = "idle", ![s].turns = @ + 1,
                                          ![s].log = Append(@, item)]
    BY <1>0, <1>5, SessionFinishesIs
  <2> DEFINE r == [session[s] EXCEPT !.at = "idle", !.turns = @ + 1, !.log = Append(@, item)]
  <2>3. r.took = session[s].took /\ r.turns = session[s].turns + 1
        /\ r.log = Append(session[s].log, item)
    BY <1>0 DEF SessionShapes, SessionRecords
  <2>4. session'[s] = r /\ \A q \in Sessions \ {s} : session'[q] = session[q]
    BY <1>0, <2>2 DEF SessionShapes
  <2> HIDE DEF r
  <2> QED
    BY <1>0, <2>1, <2>2, <2>3, <2>4, LogsReply
<1> QED
  BY <1>1, <1>2, <1>3, <1>4, <1>5

LEMMA NextReply ==
  ASSUME HeldShapes, HeldShapes', SendInv, ReplyInv, [Next]_vars PROVE ReplyInv'
<1>1. CASE UNCHANGED vars
  <2>1. UNCHANGED <<file, follow, session>>
    BY <1>1 DEF vars, outside
  <2> QED
    BY <2>1, SendTypes, SameGrows, StillReply
<1>2. ASSUME NEW p \in Pods, Start(p) \/ Send(p) \/ TakeOver(p) PROVE ReplyInv'
  BY <1>2, StartReply, SendReply, TakeOverReply
<1>3. CASE StartClears \/ End \/ Rest
  BY <1>3, ClearsReply
<1>4. ASSUME NEW p \in Pods, TasksRefuse(p) \/ Stop(p) \/ Leaves(p) \/ Dies(p) PROVE ReplyInv'
  BY <1>4, PodsReply
<1>5. ASSUME NEW f \in Follows, FollowSteps(f) PROVE ReplyInv'
  BY <1>5, StepsReply
<1>6. ASSUME NEW f \in Follows, CallFails(f) \/ FollowFails(f) \/ FollowBeats(f) PROVE ReplyInv'
  BY <1>6, FaultsReply
<1>7. ASSUME NEW j \in closing, CloseEnds(j) \/ CloseLists(j) \/ CloseStops(j) \/ CloseFails(j)
      PROVE  ReplyInv'
  BY <1>7, ClosesReply
<1>8. CASE \/ \E e \in Envs : StartLands(e) \/ EnvStops(e)
           \/ \E s \in Sessions : SessionGoes(s) \/ SessionWrites(s) \/ SessionFinishes(s)
  BY <1>8, WorldReply
<1> QED
  BY <1>1, <1>2, <1>3, <1>4, <1>5, <1>6, <1>7, <1>8 DEF Next, CloseSteps

LEMMA InitReply == ASSUME Init PROVE ReplyInv
<1>1. \A s \in Sessions : session[s].log = << >>
  BY DEF Init, NoSession, NewSession
<1>2. /\ file.session = None /\ file.said = << >> /\ file.transcript = << >>
  BY DEF Init, NoSitting, Begun
<1>3. \A f \in Follows : follow[f].at = "none"
  BY DEF Init, Thread
<1>4. LinesOf(session)
  BY <1>1 DEF LinesOf
<1>5. Replies(session, file.transcript) /\ Heard(session, file)
  BY <1>2, NoReplies DEF Heard
<1>6. HeardAll(session, follow, file)
  BY <1>3 DEF HeardAll
<1> QED
  BY <1>4, <1>5, <1>6 DEF ReplyInv, ReplyOf

\* Up to a turn that ends with another send of its message on its way: whichever pods and
\* follows read a session's log, the file's part of it stays what the session said up to
\* the file's offset, and each reply what it said in its turn.
THEOREM ReplyInvHolds == Spec => [](crossed \/ ReplyInv)
<1>1. Init => ReplyInv
  BY InitReply
<1>2. HeldShapes /\ HeldShapes' /\ (crossed \/ SendInv) /\ (crossed \/ ReplyInv) /\ [Next]_vars
      => crossed' \/ ReplyInv'
  <2> SUFFICES ASSUME HeldShapes, HeldShapes', crossed \/ SendInv, crossed \/ ReplyInv,
                      [Next]_vars, ~crossed'
               PROVE  ReplyInv'
    OBVIOUS
  <2>1. ~crossed
    BY CrossedMoves DEF Crosses
  <2> QED
    BY <2>1, NextReply
<1> QED
  BY <1>1, <1>2, HeldShapesHold, SendInvHolds, PTL DEF Spec

\* The reply "lands once, with every message of the turn in it once" (docs/rest-api.md):
\* each reply Inbox.run writes to the transcript is what the session said in the turn
\* that took the message before it, once and in order, through takeovers and resumes, up to
\* a turn that ended with another send of its message on its way.
THEOREM ReplyCorrect == Spec => []ReplyIsWhole
<1>1. ASSUME HeldShapes, SendInv, ReplyInv PROVE ReplyIsWhole
  <2> SUFFICES ASSUME NEW n \in 1..Len(file.transcript), file.transcript[n].author = "session"
               PROVE  /\ n > 1 /\ file.transcript[n - 1].author = "operator"
                      /\ \E t \in Takes(file.transcript[n - 1].said[1][2]) :
                             IsSaid(file.transcript[n].said, t[1], t[2], Len(session[t[1]].log))
    BY DEF ReplyIsWhole
  <2> DEFINE m == file.transcript[n - 1].said[1][2]
             said == file.transcript[n].said
  <2>1. n > 1 /\ file.transcript[n - 1].author = "operator" /\ Told(session, m, said)
    BY <1>1 DEF ReplyInv, ReplyOf, Replies, IsReply
  <2> HIDE DEF m, said
  <2>2. PICK s \in Sessions : \E k \in 1..session[s].turns :
            session[s].took[k] = m /\ SaidBy(session, said, s, k, Len(session[s].log))
    BY <2>1 DEF Told
  <2>3. PICK k \in 1..session[s].turns :
            session[s].took[k] = m /\ SaidBy(session, said, s, k, Len(session[s].log))
    BY <2>2
  <2>4. k \in DOMAIN session[s].took
    <3>1. /\ session[s].took \in Seq(Nat) /\ session[s].turns \in Nat
          /\ Len(session[s].took) \in Nat /\ Count(session, s) = Len(session[s].took)
      BY <1>1, SendTypes, Recorded
    <3>2. session[s].turns <= Len(session[s].took)
      BY <1>1, <3>1 DEF SendInv, SendsOf, LogInv
    <3>3. k \in 1..Len(session[s].took)
      <4>1. k \in Nat /\ 1 <= k /\ k <= session[s].turns
        BY <2>3, <3>1
      <4> QED
        BY <3>1, <3>2, <4>1
    <3>4. DOMAIN session[s].took = 1..Len(session[s].took)
      BY <3>1
    <3> QED
      BY <3>3, <3>4
  <2>5. <<s, k>> \in Takes(m)
    BY <2>3, <2>4 DEF Takes
  <2>6. IsSaid(said, s, k, Len(session[s].log))
    BY <2>3 DEF SaidBy, IsSaid
  <2> DEFINE t == <<s, k>>
  <2>7. t \in Takes(m) /\ IsSaid(said, t[1], t[2], Len(session[t[1]].log))
    BY <2>5, <2>6
  <2> QED
    BY <2>1, <2>7 DEF m, said
<1>2. crossed => ReplyIsWhole
  BY DEF ReplyIsWhole
<1>3. HeldShapes /\ (crossed \/ SendInv) /\ (crossed \/ ReplyInv) => ReplyIsWhole
  BY <1>1, <1>2
<1> QED
  BY <1>3, HeldShapesHold, SendInvHolds, ReplyInvHolds, PTL
=============================================================================
