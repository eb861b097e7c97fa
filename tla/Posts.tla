------------------------------- MODULE Posts -------------------------------
(***************************************************************************)
(* What agents ask of the observations of one pod: post, react and match   *)
(* (backend/app/fieldnotes/observations.py, matching.py), against an index *)
(* (index.py) that takes main in as a listener of the store's queue, an    *)
(* entry at a time and under its lock, while skills and the other pod push *)
(* beside it.  A write's push is one step at the tip it was synced to, as  *)
(* StoreQueue shows it to be.  Two texts match when they are the same, and *)
(* at most POST_CANDIDATES observations do: the scores are left out.       *)
(***************************************************************************)
EXTENDS Integers, Sequences, FiniteSets

CONSTANTS
    Calls,          \* the agents' calls, each the id of the observation it may create
    Old,            \* an observation nobody changes: the store is never empty
    Texts, NoFile,
    MaxPushes,      \* bound: pushes of the skills and of the other pod
    MaxTroubles     \* bound: calls of the models pod and writes that fail

ASSUME PostsAssumption ==
    /\ Old \notin Calls /\ Texts # {} /\ NoFile \notin [text : Texts, by : SUBSET Calls]
    /\ {MaxPushes, MaxTroubles} \subseteq Nat

VARIABLES
    main,           \* observations/ at every commit of main so far
    entryOf,        \* Index._entries
    seenAt,         \* the commit the index reports as seen
    cached,         \* the texts the embedding cache has
    job,            \* the store's job in hand
    taking,         \* Index.update under way: what is left, and what is popped and not put
    call,           \* the agents' calls
    landedAt,       \* history: the commit of each call's write, 0 before it
    unheard,        \* history: the writes answered that the index could not take in
    pushes, troubles

postsVars == <<main, entryOf, seenAt, cached, job, taking, call, landedAt, unheard,
               pushes, troubles>>
queueVars == <<main, job, landedAt>>
entryVars == <<entryOf, seenAt, cached, taking, unheard>>

Ids == Calls \cup {Old}
Observed(t) == [text |-> t, by |-> {}]
Like(store, t) == {i \in Ids : store[i] # NoFile /\ store[i].text = t}
Tip == Len(main)

\* What a call asks: a text, and whether it is forced; or the observation it reacts to.
CallsAsked == [kind : {"post"}, text : Texts, force : BOOLEAN, of : {Old}]
    \cup [kind : {"match"}, text : Texts, force : {FALSE}, of : {Old}]
    \cup [kind : {"react"}, text : {CHOOSE t \in Texts : TRUE}, force : {FALSE}, of : Calls]

\* `told` is history: the posts answered as created, and taken in, before the call began.
Unmade(a) == [ask |-> a, at |-> "new", indexed |-> 1, found |-> {}, told |-> {}]
NoJob == [at |-> "idle", for |-> Old, tip |-> 1]
NoTaking == [on |-> FALSE, left |-> {}, popped |-> Old]

PostsInit ==
    /\ \E t \in Texts :
        /\ main = << [i \in Ids |-> IF i = Old THEN Observed(t) ELSE NoFile] >>
        /\ entryOf = main[1]
        /\ cached = {t}
    /\ seenAt = 1 /\ job = NoJob /\ taking = NoTaking
    /\ call \in [Calls -> {Unmade(a) : a \in CallsAsked}]
    /\ landedAt = [c \in Calls |-> 0]
    /\ unheard = {} /\ pushes = 0 /\ troubles = 0

-----------------------------------------------------------------------------
(* The queue's worker and the index behind it. *)

Failing == troubles < MaxTroubles /\ troubles' = troubles + 1

\* A push, by a skill or the other pod: a new text, or the file removed.
Pushed(i) ==
    /\ pushes < MaxPushes
    /\ pushes' = pushes + 1
    /\ \E o \in {Observed(t) : t \in Texts} \cup {NoFile} :
        /\ o # main[Tip][i]
        /\ main[Tip][i] # NoFile
        /\ main' = Append(main, [main[Tip] EXCEPT ![i] = o])
    /\ UNCHANGED <<entryVars, job, call, landedAt, troubles>>

\* Store.pull, on a delivery or a timer, and a write's place at the head of the queue.
TakesPull ==
    /\ job.at = "idle" /\ seenAt < Tip
    /\ job' = [at |-> "synced", for |-> Old, tip |-> Tip]
    /\ UNCHANGED <<main, landedAt, entryVars, call, pushes, troubles>>

TakesWrite(c) ==
    /\ job.at = "idle" /\ call[c].at = "queued"
    /\ job' = [at |-> "synced", for |-> c, tip |-> Tip]
    /\ UNCHANGED <<main, landedAt, entryVars, call, pushes, troubles>>

Done(kind) == IF kind = "post" THEN "created" ELSE "reacted"

\* The listeners have had their turn: the edit is next, or the answer.
ListenersHeard ==
    IF job.at = "pushed"
    THEN /\ job' = NoJob
         /\ call' = [call EXCEPT ![job.for].at = Done(call[job.for].ask.kind)]
    ELSE /\ job' = IF job.for = Old THEN NoJob ELSE [job EXCEPT !.at = "taken"]
         /\ UNCHANGED call

Changed == {i \in Ids : main[seenAt][i] # main[job.tip][i]}
ToEmbed == {main[job.tip][i].text : i \in {j \in Changed : main[job.tip][j] # NoFile}}

\* The paths are read and every text has its vector, of the cache or of the models pod.
UpdateFetches ==
    /\ job.at \in {"synced", "pushed"} /\ ~taking.on
    /\ taking' = [on |-> TRUE, left |-> Changed, popped |-> Old]
    /\ cached' = cached \cup ToEmbed
    /\ UNCHANGED <<queueVars, entryOf, seenAt, unheard, call, pushes, troubles>>

\* The models pod fails: the listener stays behind, and the write goes on.
UpdateFails ==
    /\ job.at \in {"synced", "pushed"} /\ ~taking.on
    /\ ~(ToEmbed \subseteq cached)
    /\ Failing
    /\ ListenersHeard
    /\ unheard' = IF job.at = "pushed" THEN unheard \cup {job.for} ELSE unheard
    /\ UNCHANGED <<main, landedAt, entryOf, seenAt, cached, taking, pushes>>

PopsEntry(i) ==
    /\ taking.on /\ taking.popped = Old /\ i \in taking.left
    /\ entryOf' = [entryOf EXCEPT ![i] = NoFile]
    /\ taking' = [taking EXCEPT !.popped = i]
    /\ UNCHANGED <<queueVars, seenAt, cached, unheard, call, pushes, troubles>>

PutsEntry ==
    /\ taking.popped # Old
    /\ entryOf' = [entryOf EXCEPT ![taking.popped] = main[job.tip][taking.popped]]
    /\ taking' = [taking EXCEPT !.left = @ \ {taking.popped}, !.popped = Old]
    /\ UNCHANGED <<queueVars, seenAt, cached, unheard, call, pushes, troubles>>

UpdateEnds ==
    /\ taking.on /\ taking.left = {}
    /\ taking' = NoTaking
    /\ seenAt' = job.tip
    /\ ListenersHeard
    /\ UNCHANGED <<main, landedAt, entryOf, cached, unheard, pushes, troubles>>

\* The file a call's edit leaves: the new observation, or its reaction entered.
Target(c) == IF call[c].ask.kind = "post" THEN c ELSE call[c].ask.of
File(c) ==
    IF call[c].ask.kind = "post" THEN [text |-> call[c].ask.text, by |-> {c}]
    ELSE [main[Tip][Target(c)] EXCEPT !.by = @ \cup {c}]
Refused(c) == call[c].ask.kind = "react" /\ main[job.tip][Target(c)] = NoFile

EditRefused(c) ==
    /\ job.at = "taken" /\ job.for = c /\ Refused(c)
    /\ call' = [call EXCEPT ![c].at = "absent"]
    /\ job' = NoJob
    /\ UNCHANGED <<main, landedAt, entryVars, pushes, troubles>>

Lands(c) ==
    /\ main' = Append(main, [main[Tip] EXCEPT ![Target(c)] = File(c)])
    /\ landedAt' = [landedAt EXCEPT ![c] = Tip + 1]

\* Mutant: the caller is answered before the index has its write.
PushAnswers(c) ==
    /\ job.at = "taken" /\ job.for = c /\ ~Refused(c) /\ job.tip = Tip
    /\ Lands(c)
    /\ call' = [call EXCEPT ![c].at = Done(call[c].ask.kind)]
    /\ job' = [at |-> "synced", for |-> Old, tip |-> Tip + 1]
    /\ UNCHANGED <<entryVars, pushes, troubles>>

PushLands(c) ==
    /\ job.at = "taken" /\ job.for = c /\ ~Refused(c) /\ job.tip = Tip
    /\ Lands(c)
    /\ job' = [job EXCEPT !.at = "pushed", !.tip = Tip + 1]
    /\ UNCHANGED <<entryVars, call, pushes, troubles>>

PushRejected(c) ==
    /\ job.at = "taken" /\ job.for = c /\ job.tip < Tip
    /\ job' = [job EXCEPT !.at = "synced", !.tip = Tip]
    /\ UNCHANGED <<main, landedAt, entryVars, call, pushes, troubles>>

\* The write fails, its push having landed or not.
EditFails(c) ==
    /\ job.at = "taken" /\ job.for = c
    /\ Failing
    /\ \/ UNCHANGED <<main, landedAt>>
       \/ ~Refused(c) /\ job.tip = Tip /\ Lands(c)
    /\ call' = [call EXCEPT ![c].at = "failed"]
    /\ job' = NoJob
    /\ UNCHANGED <<entryVars, pushes>>

QueueSteps(c) ==
    \/ TakesWrite(c) \/ EditRefused(c) \/ PushLands(c) \/ PushRejected(c) \/ EditFails(c)
TakingSteps ==
    UpdateFetches \/ UpdateFails \/ (\E i \in Calls : PopsEntry(i)) \/ PutsEntry \/ UpdateEnds

-----------------------------------------------------------------------------
(* The requests' threads. *)

GoesOn(c, from, to) ==
    /\ call[c].at = from
    /\ call' = [call EXCEPT ![c].at = to]
    /\ UNCHANGED <<queueVars, entryVars, pushes>>

Told == {d \in Calls \ unheard : call[d].at = "created"}
Begun(c, to, since) ==
    /\ call[c].at = "new"
    /\ call' = [call EXCEPT ![c].at = to, ![c].told = Told, ![c].indexed = since]
    /\ UNCHANGED <<queueVars, entryVars, pushes, troubles>>

PostBegins(c) ==
    /\ call[c].ask.kind = "post"
    /\ Begun(c, IF call[c].ask.force THEN "queued" ELSE "embedding", 1)

\* Observations.match reads what the index has seen first.
MatchBegins(c) ==
    /\ call[c].ask.kind = "match"
    /\ Begun(c, "embedding", seenAt)

\* Index.get, which takes no lock.
ReactLooks(c) ==
    /\ call[c].ask.kind = "react"
    /\ Begun(c, IF entryOf[call[c].ask.of] = NoFile THEN "absent" ELSE "queued", 1)

Embeds(c) == GoesOn(c, "embedding", "matching") /\ UNCHANGED troubles
EmbedFails(c) == GoesOn(c, "embedding", "failed") /\ Failing

\* Matcher.match under the index's lock; a post that matches nothing creates.
Answer(kind, found) ==
    IF kind = "match" THEN "matched" ELSE IF found = {} THEN "queued" ELSE "candidates"
MatchesAnyhow(c) ==
    /\ call[c].at = "matching"
    /\ LET found == Like(entryOf, call[c].ask.text) IN
       call' = [call EXCEPT ![c].at = Answer(call[c].ask.kind, found), ![c].found = found]
    /\ UNCHANGED <<queueVars, entryVars, pushes, troubles>>
Matches(c) == ~taking.on /\ MatchesAnyhow(c)

CallSteps(c) ==
    \/ PostBegins(c) \/ MatchBegins(c) \/ ReactLooks(c)
    \/ Embeds(c) \/ EmbedFails(c) \/ Matches(c)

PostsNext ==
    \/ TakesPull \/ TakingSteps
    \/ \E c \in Calls : Pushed(c) \/ QueueSteps(c) \/ CallSteps(c)

PostsSpec == PostsInit /\ [][PostsNext]_postsVars

-----------------------------------------------------------------------------
(* What the agents rely on. *)

Files == [text : Texts, by : SUBSET Calls] \cup {NoFile}
CallShapes ==
    [ask : CallsAsked,
     at : {"new", "embedding", "matching", "matched", "candidates", "queued", "created", "reacted",
           "absent", "failed"},
     indexed : Nat, found : SUBSET Ids, told : SUBSET Calls]
\* Every variable has the shape its code has.
PostsTypeOK ==
    /\ main \in Seq([Ids -> Files]) /\ entryOf \in [Ids -> Files]
    /\ seenAt \in Nat /\ cached \subseteq Texts
    /\ job \in [at : {"idle", "synced", "taken", "pushed"}, for : Ids, tip : Nat]
    /\ taking \in [on : BOOLEAN, left : SUBSET Ids, popped : Ids]
    /\ call \in [Calls -> CallShapes]
    /\ landedAt \in [Calls -> Nat] /\ unheard \subseteq Calls
    /\ pushes \in Nat /\ troubles \in Nat

\* "the match sees this commit or a later one" (Observations.match), and "a match never
\* sees half an update" (index.py): what a match or a post was answered with is all that
\* is alike in one commit of main, none older than the commit the reply names.
MatchIsOfOneCommit ==
    \A c \in Calls : call[c].at \in {"matched", "candidates"} =>
        \E k \in call[c].indexed .. Tip : call[c].found = Like(main[k], call[c].ask.text)

\* A post that is not forced creates no second observation of a text that the same pod
\* had said it created before the post began, unless that observation was rewritten or
\* removed, or the index could not take it in.
RepostIsMet ==
    \A c \in Calls : call[c].at = "created" /\ ~call[c].ask.force =>
        \A d \in call[c].told : call[d].ask.text = call[c].ask.text =>
            \E k \in landedAt[d] .. landedAt[c] - 1 :
                main[k][d] = NoFile \/ main[k][d].text # call[d].ask.text
=============================================================================
