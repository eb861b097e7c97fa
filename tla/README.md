# Fieldnotes: specifications

TLA+ modules of the Fieldnotes backend, frontend and suite runner, the TLC configurations that check
them on small instances, and proofs about them that TLAPS checks for instances of any size. Paths
below are the repository's; `fieldnotes/` is `src/backend/app/fieldnotes/`, `services/` and `utils/`
its siblings, `hooks/`, `workers/` and `contexts/` are in `src/frontend/src/`.

    tlc -config MCStoreQueue.cfg MCStoreQueue      # a run
    tlapm StoreQueueProofs.tla                     # the proofs of a module

## The system

One pod holds the API, and a rollout overlaps two. Agents post observations, the operator rules on
triage items and talks to an inbox session, skills run as KubeCoder sessions, and all of it is files
in one git repository, the store. Each pod writes through a checkout of its own; what the pods share
besides the remote are a few files on a volume. What a pod knows is in memory and is rebuilt from the
store at its start. A browser's tabs share one event stream through a SharedWorker.

| Component | State | Operations | Meets | Hard parts | Correct when |
| --- | --- | --- | --- | --- | --- |
| Store and write queue (`fieldnotes/store.py`) | checkout, queue, worker, the commit each listener has seen | start, write, pull, stop, the worker's loop | git remote, other writers, the indexes as listeners, callers on futures | rejected pushes, failures between commit, push and answer, restarts on a left checkout | a write lands once, and out of its caller's time only from a push whose end no one heard; `ok` is true; the indexes never run ahead of the remote and catch up |
| Actioner start and hold (`fieldnotes/actioner.py`) | the hold's file on the volume; per pod a pending flag, a timer, shutdown flags | submit, attempt, retry, webhook, expiry, the editor's clear, stop | triage index, task service, controller, webhook, the other pod | check and act on a shared file, early, late and lost webhooks, retries against pending starts | no write of the file loses another's; a submit is actioned; a run beside another only where it was not seen |
| Actioner's follow (same file) | the follow's record in the hold, a thread and a heartbeat | claim, search, read, beat, take over, release | controller's session log, shutdown | two threads that both think they follow; shutdown during a claim | the lines are the log's, once each; a retired pod leaves its follow |
| Inbox sitting (`fieldnotes/inbox.py`) | the sitting's file: transcript, session, environment, turn, follow; per pod its follows | start, send, end, run, resume, rest, sweep, take over, stop | controller, task service, the other pod | requests against follows, a message sent and not recorded, a session created and not recorded | a message reaches the session twice only where a send was overtaken; the reply is whole; no session is left running or closed twice |
| Inbox screen (`hooks/use-inbox.ts`, `use-sse-task.ts`) | the fetched sitting, the write in flight, the task's heard events | fetch, poll, start, send, end, subscribe, replay | the API, the event stream | a fetch that crosses a write; replays of a buffered task | a write's answer stands; a replay adds nothing |
| Rulings and triage (`fieldnotes/rulings.py`, `triage.py`, `hooks/use-triage.ts`) | the triage index; the page's queue and pending writes | rule, take back, submit, refresh | store's queue, actioner, the reconciler's pushes | a ruling on an item rewritten meanwhile; a submit past a write | a ruling stands on the item the operator saw; a submit takes no older ruling |
| Observations, board sync (`observations.py`, `board.py`) | settling waits and timers, the syncs | delivery, wait, sync, scan | index, store, YouTrack, skills | a card read before another sync's write; a delivery as a timer fires | the newer card's state is kept, and every delivery is applied |
| Posts and matching (`observations.py`, `matching.py`) | none of their own | post, react, match | index, store, models pod | an answer read while the index takes a commit in | answered from one commit; a text told as created is met |
| Observation index (`index.py`) | entries, card maps, embedding cache | update, lookup | store as a listener, models pod | a card that changes hands, an update seen half done | the maps are what the entries say |
| Lexical counts (`Bm25` in `index.py`) | counts, lengths, postings, the total | put, remove, score | the index's update, matches | kept text by text, never rebuilt | they are those of the texts indexed now |
| A file's lines (`document.py`) | none | read, set fields, enter a reaction | files people and skills left | where a field's lines end | a write changes its own fields' lines and no other |
| SSE connections (`services/sse_connection_manager.py`, `api/sse.py`) | connections by request id, queues | connect, replace, send, disconnect, shut down | task service, browsers | replacement against close, a full queue | an open stream is reached by its events |
| Frontend version (`services/frontend_version_service.py`) | pending versions | observe, fetch, queue, stop | connection manager | a fetch late behind a broadcast | a stream does not go back to an older version |
| SSE worker and provider (`workers/sse-worker.ts`, `contexts/sse-context-provider.tsx`) | the one source and its retry, the tabs' probes | connect, disconnect, focus, retry, probe | streams, the gate, the identity provider | timers, retries and refusals that cross | one stream; what the page says comes true |
| Auth gate (`utils/auth.py`, `api/oidc_hooks.py`) | the browser's cookies | check, refresh, clear | identity provider | two refreshes that race, a refresh token that is good no more | a session that lasts is not sent to log in, but where its new token was lost or crossed |
| Sign-in and sign-out (`api/auth.py`) | the browser's cookies, the login's state | login, callback, logout | the gate's hooks, identity provider | a refresh answered beside a sign-out or a sign-in, an old code | what the user did last stands |
| Role map (`services/auth_service.py`) | the implications' closure | build or refuse at startup, check a request | every API request | cycles through the tiers, roles reached along two paths | a role implies what it reaches, and no cycle starts |
| Task service (`services/task_service.py`) and lifecycle (`utils/lifecycle_coordinator.py`) | registry, pool, flags, an event | start, cancel, remove, execute, wait, shut down | every background job, SSE, signals | start against shutdown, cancel against begin, the last task against the wait | a caller hears each task's end; nothing runs after the shutdown; the shutdown ends |
| Readiness probe (`services/health_service.py`) | checks, runs, cached results | register, probe, run, drain | Kubernetes, the store | a check replaced while it runs, probes that join a run | one run of a check; answers of the check registered |
| Suite runner (`src/tools/suite_runner/`) | results, reports, exit code | one pass of installs, suites, previews, export | tools that fail or are missing | partial failures, a report broken off, reports an earlier run left | the exit code or the results tell of every suite that did not pass; a report counted is this run's |
| Controller client, hooks, config, runtime, metrics, MCP server, the rest of the frontend, scripts | little or none | - | - | - | listed with reasons in `PROJECT.json` |

## Plan

In the order of what matters most. What exists is marked.

1. `StoreLog` (what the store promises), `StoreQueue` (the code), refinement, proofs. **Done.**
2. `ActionerHold` (the file), `Actioner` (starts), `RunFollow` (follows) over it, proofs. **Done.**
3. `TaskService` with the shutdown, proofs; `Readiness` beside it, proofs. **Done.**
4. `InboxSitting`, two pods, requests, follows and closings; `InboxPage`, its screen. **Done.**
5. `SseStreams`; `SseSession` over it and `AuthGate`, composed; `FrontendVersion`, proofs. **Done.**
6. `Triage` (page, rulings and index), `Board` (deliveries to the store), `Posts` (match and post),
   `Document` (a file's lines), `SuiteRunner`; proofs of `Board` and `Posts`. **Done.**
7. Proofs of `QueuedIsApplied`, of the inbox's sending, of the streams and of the screens. **Done.**
8. `RoleMap`, `LoginFlow` over `AuthGate`, `Lexical`, proofs. **Done.**
9. Proofs of the inbox's replies, of the actioner's overlapping starts, of the suite runner. **Done.**
10. Left: two pages and two pods for `Triage`; the volume's failures in `ActionerHold`; the inbox's
   follows as tasks of `TaskService`; an environment stopped under a session that a send resumed;
   refresh-token rotation in `LoginFlow`; matching's ranks over small score tables; a proof of
   `Document`'s `WritesAreExact`.

## The modules

Definitions named `Mutant:` in a comment are plausible mistakes in the code (a dropped reset, a lock
not taken, a guard lost): with one in place of the definition it precedes, a property of a run fails,
which shows that the property depends on it. The `MC*` modules give the constants their values, and
five of them (`MCStarts`, `MCHold`, `MCServices`, `MCScreens`, `MCParts`) put components that share no
state, or instances of one, side by side: `part` is drawn in the initial state and each behaviour is of
one component, the others staying as they began.

**StoreLog** is what a writer may rely on: `main` only grows, a write lands at most once, `ok` is said
only of an edit whose effect is on `main`. A write lands while its caller waits, and after it was told
`failed` only from a push whose end the pod did not hear: such a write is `adrift`. `failed` says nothing
more, as a write that landed can be answered so too.

**StoreQueue** is `store.py`. A commit is its write and a history a sequence of commits, so `remote`, each
pod's `checkout` and each listener's `seen` are sequences; `Effect` says which edits come to the same, so
that a second one finds nothing to change (`EditNothing`). `worker[p].at` is the place in `Store._work` and
the jobs it calls: `sync` is `_sync`, `advance` is `_advance` with one listener a step, `edit` the edit and
commit of `_write`, `push` the push, `unheard` a push whose end was not heard, as the connection dropped or
git ran out of its time, `drain` the loop that fails what the stop left queued. Between any two of these
steps the other pod or a skill may push. `SyncFails`, `HearFails`, `DiffFails`, `EditRefuses`,
`CommitFails`, `PushUnheard` and `PushFails` are the failures, `Die` and `Start` a death and a restart on
the checkout as it was left. What was sent in a push that was not heard, or by a pod that died in it, is in
`adrift` from then on, and `AdriftLands` is the remote taking it at any time, before the worker gives up or
after the caller was told `failed`, whenever `main` still is what the push was made on. `Log == INSTANCE
StoreLog WITH log <- remote, adrift <- {u.write : u \in adrift}` is the refinement, checked as `Promise` and
proved.

**ActionerHold** is the file and what `Hold.change` makes of it. A write is two steps, `Enter` (lock
and load) and `Write` (the rename and unlock), and `serial` is a history variable: the same
operations applied to what the file should be, so `AsIfInTurns` (`file = serial`) says no write
worked on a stale load.

**Actioner** is `submit` to `_settle` and `stop`. An attempt is `AttemptLooks` (the index),
`AttemptSettles`, `AttemptReadsHold`, `AttemptAsks` (the controller takes the run), then
`AttemptTakes` or a refusal, as separate steps as the code has them; the webhook is `Deliver`,
`HookReleases` and `HookStarts`. A hold's age is the flag `expired`. The controller's runs, their
outcomes and their reports are external: a report is lost, late, or there before the run is held, which
counts as `trouble`. The history variables are `taken` (the runs each pod took into the hold), an
attempt's `knew` (all that were taken when it read that no hold is live) and `missed` (the items submitted
to a start that had looked for items already and found none). A start claims no follow here; `RunFollow`
adds it.

**RunFollow** is `_claim` to `stop`. A follow's thread is `search`, `read`, `line` (a line read and
not yet written), `ended`, `failed`, `leave`, `done`, and its heartbeat is an action of its own. The
flag `silent` stands for a heartbeat older than `TAKEOVER`, and may come at any time, so a follow
that is merely slow is taken over too. `TurnLines` is assumed positive, as `TURN_LINES` is.

**InboxSitting** is `inbox.py`. The file is one record that each change replaces whole, under its lock,
in one step; each call of the controller is a step of its own between two of them, and `CallFails` loses
the call or its answer. A follow's thread begins, picks its turn and takes it, readies the environment,
creates and records a session or asks whether the one there is busy, sends, and reads to the reply.
`closing` holds the closers of sessions and environments that a change left behind. `Rest` and
`TakeOver` are the sweep, `Stop`, `Leaves` and `Dies` a pod's end. A session's turn is external: its log
grows by lines and messages, and the turn ends or the session goes at any time. `crossed` is a history
variable: a turn that a session was at ended, or the session went, with another send of its message still
on its way there (`Crosses`).

**InboxPage** is the screen: the query with its one fetch in flight, the write in flight (`Presses`,
`WriteHeard`, which drops the fetch beside it), and the task's events, which `FollowsTask` replays
from the server's buffer and `EventArrives` brings one by one. The API is what `InboxSitting` shows of
it: a line is in the file before it is said.

**SseStreams** is the connection manager and a stream's thread. What runs under the manager's lock is
one step; closing a replaced stream, queueing an event's frame on one stream after another and
unlisting one that is full are steps outside it. `Send` begins an event to one id or to all.

**AuthGate** is the gate of a request: which cookies it reads, when it asks the provider to refresh,
what the answer sets or clears. An access token is the epoch it was issued in. A refresh token is a
number, good while it is the session's; a refresh gives one (`Gives`), the same or, of a provider that
rotates them, the next, and a request that comes with the one before it is refused and its cookies cleared.

**LoginFlow** puts the gate around the auth routes: a request is sent with the cookies of that moment
(`Sends`), passes `before_request` (`BeforeRequest`, which may refresh), its view (`Begins`, `Exchanges`,
`LogsOut`, `CallsView`) and `after_request`, and its answer arrives at any later time (`AnswerArrives`).
A login's state carries its age and the session of the provider's grant; a code is taken once, and a
page that exchanges it may be loaded again. `stands` is what the user's last answered sign-in or
sign-out was, and `disturbed` that an answer to a request sent with another session's refresh token came
since.

**RoleMap** is the constructor of `AuthService`: the checks, then `_merge_role_hierarchy` as the
depth-first search it is, a role entered or left a step (`EntersRole`, `LeavesRole`, `FindsCycle`), and
the closures with their stacks (`ClosureBegins`, `ClosureTakes`, `ClosureEnds`); then a request's check,
`MayCall`. `Reachable` defines what a role implies without a search: it is in every closed set that the
role is in.

**Lexical** is `Bm25` as `Index.update` keeps it. A text is how often it has each term, and a score the
set of terms and numbers it is computed from; the weights' arithmetic is left out.

**SseSession** composes streams and gate with the browser: `worker` is `sse-worker.ts` (its ports, its one
source and its retry), `tab` the provider's context of each tab with its probe of `/api/auth/self`. Messages
between them, a stream's frames and the answers arrive in order and any time later. The faults are a stream
that drops, a request or a probe that fails, an event to a full queue, the backend's shutdown and its next
process, and an access token or a session that ends or loses its role. `Rotates` says whether the provider
gives new refresh tokens. `failed` and `over` are history variables: the gate failed a request it should
have passed; the session ended, or a new refresh token was lost with its answer or crossed by another
request sent with the one before it.

**FrontendVersion** is the version service as an observer of streams: a registration and a removal
are one step, the observer's call a later one; a fetch has its own thread, and `sendLock` is the
service's lock around a send.

**Triage** is the operator's page, the API's writes, the index and the reconciler. A write is one step
at the remote's tip, as `StoreQueue`'s are shown to be; `pending` and `shown` are what the page shows
before its writes are heard. `Lists`, `Rewrites`, `Withdraws`, `Stamps` and `Returns` are the skills'
pushes, which reach the index with the next `Pull` or write.

**Board** is a card's way into the store: `Announces` (YouTrack's delivery), `HookLooks` and
`HookQueues` (the lookup without the index's lock, the wait restarted), `Elapses`, `Settled` (the
timer) and a sync's `Reads` and `Applies`, beside the index's update taken apart (`Pops`, `Unmaps`,
`Puts`, `Maps`).

**Posts** is post, react and match of one pod against an index that takes `main` in an entry at a time
under its lock, while others push. Two texts match when they are the same and the vectors, weights
and ranks are left out, as is POST_CANDIDATES' cut; what is modelled is which commit an answer is of.
The query's embedding is fetched outside the lock (`Embeds`), and the models pod may fail.

**Document** is a file as its lines' kinds (a key, an inline value, a list item, text, a comment, a
blank, an entry, an indented line), with the field spans, the sections and the two edits computed as
the code computes them, over every frontmatter and body up to the bounds.

**TaskService** is `task_service.py` and the coordinator's `shutdown`. A section under the service's
lock is one step, and what the code does outside it is a step of its own: the flag's check before a
registration, a failure's event after its status. `thread` is where a task's start and thread are,
`signal` where each signal's shutdown thread is. The pool's size is `MaxWorkers`. The app registers
one shutdown waiter, the task service's.

**Readiness** is the readiness probe: a probe looks, joins or starts each check's run, waits for each
and answers; a run returns, records itself and tells; `Registers` replaces a check. The app registers
`store` once, so the replacement is the service's contract rather than the app's use.

**SuiteRunner** is one pass of `local.py`: each step runs a tool that passes, fails, or is not there, and
leaves a report, none, or one broken off, which is "no report" to the summary and zeroes to the marker
(`Counted`, `Marker`). An earlier run's reports may lie in a directory that is kept, and the export makes
markers of those too (`old`).

**StoreQueueProofs**, **ActionerProofs**, **RunFollowProofs**, **ServicesProofs** (`TaskService`,
`Readiness`, `RoleMap`, `LoginFlow`, `SuiteRunner`), **ObservationProofs** (`Board`, `Posts`, `Lexical`),
**SseProofs** (`FrontendVersion`, `SseStreams`, `AuthGate`, `SseSession`), **InboxProofs**
(`InboxSitting`) and **ScreensProofs** (`Triage`, `InboxPage`) hold the theorems.

## The runs

| Run | Instance | Shows |
| --- | --- | --- |
| `store_rollout` | two pods, two writes of one effect, two foreign commits, two attempts a push, one failure | `SeenIsOnRemote`, `AckedIsRead`, and `Promise`: the queue implements `StoreLog` |
| `store_restart` | one pod, two failures, one death, fairness | `EveryWriteIsAnswered`, `Converges` |
| `store_late` | one pod, one failure | `FailedNeverLands` does not hold: a push that runs out of its time lands after its write was told `failed` |
| `starts` | one pod, two items, two runs, fairness; or one message to an environment that runs or is stopped, a turn of two lines, two pods, one fault, fairness | `PendingIsCarried`, `SubmitIsActioned`; `TurnEnds` |
| `hold` | each of: starts of two pods, one retired, one death, an editor, early reports; starts of two pods that stay, a submit landed in each, two runs that succeed; two pods, two runs, two follows, p1 retired, nothing logged; two pods, one run, a log of four lines of which two are kept, one loss | `AsIfInTurns`; `OverlapIsUnseen`; `LeavesItsFollows`; `LinesAreTheLog` |
| `actioner_overlap` | two pods, two items, two runs | `StartsNoneWhileHeld` does not hold: two pods read that no run is held, and each asks for one |
| `services` | two tasks, one worker, two signals, fairness; or two streams, two ids, queues of one frame, two events, fairness | `ReadyMeansDone`, `EveryTaskTells`, `ShutdownEnds`; `OpenIsReached`, `StreamsEnd` |
| `inbox_sitting` | two pods, one retired, two messages, turns of two lines, three follows, two sessions of one environment, one fault | `SentTwiceOnlyCrossed`, `ReplyIsWhole`, `SessionsAreOwned`, `ClosedOnce` |
| `inbox_twice` | the same | `SentOnce` does not hold: a send that comes late is a second turn of its message |
| `sse_session` | two tabs, two streams at a time, three ids, two faults, fairness | `OneStream`, `SettlesAsTold`, `LeavesNothing` |
| `screens` | each of: a page of two tasks, one line, three fetches, one lost event or reply; two items, two writes, two pushes, one fault; two tabs whose access token is spent, a provider that rotates, one fault; two streams of one id, a version queued for each of two ids | `ReplayAddsNothing`, `WritesStand`; `RulesWhatItShowed`, `SubmitsNoOlder`; `SignedOutIsOver`; `QueuedWins` |
| `parts` | each of: two observations, two cards, three happenings in two seconds; two calls, two texts, one push, one trouble; every file of four frontmatter lines or three of a section and two edits of it; every outcome of the suite runner's steps; three roles, every tier, additional role and hierarchy of them; two requests and a login, four doings; three texts of two terms, each put and dropped; two probes, one check and a replacement of it | `QueuedIsApplied`, `SyncGoesOn`; `MatchIsOfOneCommit`, `RepostIsMet`; `WritesAreExact`; `ResultsTell`; `RolesAreReach`; `CookiesStand`; `IndexIsItsTexts`; `AnswersAreCurrent` |

In the runs with an "or" or an "each of" each behaviour is of one component; nothing of the others moves.
Three runs are of what a document says and the code does not keep, and end in a counterexample; what holds
in its place is `Promise`, `OverlapIsUnseen` and `SentTwiceOnlyCrossed`.

**Bounds.** Every bound is a named constant. Two pods are what a rollout has; the third actor a race needs
is the skill that pushes, the controller, the browser or the editor. Two writes with two attempts reach a
rejection, a retry and giving up, and a second write on what a first one left; one failure anywhere reaches
each partial failure alone, `store_restart` has two and a death. Two runs are enough for a hold, its
successor and a report that comes late for the first; where two pods stay, both submits have landed before the
first step, and their starts come in every order. `LogLength` 4 with `TurnLines` 2 drops lines and goes
on reading after a takeover. An inbox turn is a line and a message, so that a reply may lose, repeat or
misplace one. One worker and two tasks make one task wait in the pool while the other runs, is cancelled or
removed. Two messages make a session that has a turn behind it; three follows a first one, its taker over
and one of the next turn. Two streams of one request id replace each other; a queue of one frame is full at
the second event. Two faults let a tab lose its stream and then its session, or its stream again as it
reconnects; with rotation the tabs' spent access token makes each request one to refresh, and one fault is
enough for two of them to race. Two cards of two observations make a card change hands, and three happenings
a delivery, a push and another delivery. One push beside two calls is the other pod's between a match and
what it is for. Four frontmatter lines hold a field of a key and two more lines with its neighbour; three
lines of a section hold an entry, what continues it and the next. Three roles make a cycle through a tier,
and a role reached along two paths; two requests with four doings a refresh on its way beside a sign-out or
a second sign-in; three texts a term that two of them share and one of those dropped. Symmetry is used in
`store_rollout` alone, which checks no liveness. Deadlock is not checked: each instance uses up its writes,
runs, tasks and bounds and stops.

**Fairness.** Weak, and only for what the code or the platform does by itself: a pod's worker and its
restart; the actioner's threads, timers, pulls and webhooks in hand, runs that end, reports that are
delivered or lost, time; a task's thread, the pool and the shutdown's thread; the inbox's follows,
their heartbeats, the sweep, the closers, a session that goes on writing and finishes its turn, an
environment that starts; a stream's thread and an event's sender; the browser's worker and tabs
handling what has arrived, and the backend's next process. Each is a thread whose next step stays
enabled until it is taken. Nothing obliges a caller, an operator, a skill, a failure, a death, a signal
or a shutdown. That a task's own work ends is an assumption: the actioner's attempt is a few bounded
requests, and the follows are released when shutdown is announced. `SubmitIsActioned` excuses
`trouble` (a run that failed, a start refused, a report lost or come before its run was held, a pod gone),
for which the documents promise nothing before the next submit, and an item that `missed` names: one
submitted while the start that covers it had looked for items and not settled yet. A submit during a retry's
minute or a skip's five is not excused.

## What the code does and the documents do not say

Met while modelling; the models have each of these. Three are findings, which a run shows by a
counterexample; elsewhere a property that would be false of one leaves the case out by name.

- *Store.* A landed write can be answered as failed: the push comes before `rev-parse` and the listeners'
  diffs, and its own answer can be lost (`store.py:284`; `docs/design.md:573`, `docs/rest-api.md:479`).
  `StoreLog` lets `failed` be said of a write that landed. It may also land after that: git's timeout ends
  the client, not the push, where the module's docstring has "a write the caller saw fail never lands later"
  (`store.py:14`); `store_late` shows it. On an empty remote a failed write's commit stays in the checkout
  and rides on the next push; `Promise` assumes a remote that has a commit.
- *Actioner.* The hold is read, the controller asked and the hold taken in three steps, so two pods can
  each start a run (`actioner.py:534`; `docs/design.md:264`), and the second hold replaces the first's;
  `actioner_overlap` shows it. `OverlapIsUnseen` is what holds: the hold beside which a run is asked for was
  taken by the other pod after this one read the file. A
  submit between the attempt's look at the index and its settling is told the pending start covers it
  (`actioner.py:533`; `docs/design.md:269`), and nothing is started for it. A webhook that comes before
  `Hold.take` is ignored, and a run that is over is held until it expires.
- *Inbox.* `docs/design.md:355` has a sitting "lost before its message is sent" only so; a turn retried
  or taken over whose check answers 404 or 409 loses the sitting with its message sent. A lost sitting's
  session is not gone after a close call that failed (`_close`, `docs/design.md:391`). End's stop beside
  a start that has not landed yet leaves the environment running. The close of a sitting at rest can
  stop the environment under a session that a send has just resumed. Two follows may both have a send
  of one message on its way, a slow one and its taker over's; where the first makes a turn and that
  turn ends, or the session goes, before the second arrives, the message is sent twice (`inbox.py`'s
  docstring and `docs/rest-api.md:420` have "once"). `inbox_twice` shows it, and `SentTwiceOnlyCrossed` that
  nothing else sends a message twice; `ReplyIsWhole` is of sittings where it did not happen.
- *Inbox screen.* A line whose event is on its way as the sitting is fetched shows twice until the next
  fetch. A Start or Send whose reply is lost leaves the page with no turn to poll for. The events of a
  task in the other pod are never heard, and the timer's fetches cover them.
- *Triage.* An answer sent by a page that had not heard of a returned item, or after a submit that
  landed unheard, counts as an answer to the question it did not show. A submit waits for its writes to
  be settled, not to succeed, so a failed newer write leaves the older ruling to be submitted. A delayed
  reply overwrites a newer item until the next fetch.
- *Board.* One update that takes a card from an entry and gives it to another may drop the new owner's place
  in the map, by the order of a set (`index.py:266`). Of two changes of a card in one second the one applied
  first stands, whichever that is (`<=`), where FR-21 (`docs/design.md:206`) has no order matter. A
  resolution read before a reopening and applied after the skills have unlinked the observation and linked
  it to the card again closes it. A relinked observation keeps its former card's time. A wait restarted for
  another card drops the first.
- *Posts.* Two posts of one text under way at once both match nothing and both create; matching looks at
  what was there as the post looked.
- *Documents.* A comment at the margin inside a list ends the field there, and a write of the field
  then leaves the rest of it behind; an entry indented or a section `[]` makes a write refused, where
  the module's comment says hand edits are kept.
- *Frontend version.* A broadcast that reaches a stream before its id's observer is called is followed
  by what the observer sends. A version queued for an id that is not connected, or stored after the
  disconnect, stays in `_pending`, which the comment says holds live connections only.
- *Streams.* A slow request of the same id that overtakes a newer one replaces it. A retry timer is not
  stopped by the browser's own retry, and a healthy stream may be replaced. A refreshed token that fails
  its validation is a 401 on a public route as well.
- *Auth gate.* Two requests sent with one refresh token each ask for a refresh. Of a provider that gives
  new refresh tokens the later is refused, and its answer clears the cookies the earlier's set: the user is
  signed out though the session lasts. So is one whose tab is closed, or whose stream is dropped, before
  the answer with the new token is read. `SignedOutIsOver` names both.
- *Logins.* A callback sent with the refresh token of a session the browser still had may have its own
  cookies replaced by the hook's refresh of that one: `after_request` sets them over what the view set,
  and its guard is for sign-outs only (`oidc_hooks.py`). An answer of an older session's refresh that
  comes after a sign-in puts that session back.
- *Tasks.* A task cancelled while pending goes back to running, and a last task that ends cancelled lets
  the shutdown's wait run to its timeout: `ReadyMeansDone` and `EveryTaskTells` leave cancelled tasks out
  by name, and `ShutdownEnds` covers the wait.
- *Suite runner.* The exit code stays 0 when an install fails and its suite is skipped; only the results
  tell. A report broken off is "no report" in the summary and `0:0:0` in its marker (`local.py:450`), where
  `junit.py` has "the two always agree". In a directory that is kept the export makes markers of an earlier
  run's reports for the suites that did not run; `ResultsTell` has that some step's result is then a
  failure. A missing frontend directory raises before the branch that would report it.

## The proofs

| Theorem | Says | Along |
| --- | --- | --- |
| `StoreQueueProofs!TypeCorrect` | `[]TypeOK` | `TypeInv`: only a write reaches the edit or the push |
| `StoreQueueProofs!SeenCorrect` | `[]SeenIsOnRemote` | `HistoryInv` |
| `StoreQueueProofs!QueueKeepsPromise` | `Spec => Promise` | `HandInv`, `HistoryInv`, `AdriftInv` |
| `StoreQueueProofs!ReadsCorrect` | `[](SeenIsTakenIn /\ AckedIsRead)` | `ReadInv` |
| `ActionerProofs!TypeCorrect`, `TurnsCorrect` | `[]TypeOK`, `[]AsIfInTurns` | `Turns`: who has the lock loaded the file as it is |
| `ActionerProofs!PendingCarried` | `[]PendingIsCarried` | `CarryInv`, over the attempt's places |
| `ActionerProofs!OverlapCorrect` | `OverlapIsUnseen` | `UnseenInv`, over `Turns` |
| `RunFollowProofs!TypeCorrect`, `LinesCorrect`, `LeavesCorrect` | `[]TypeOK`, `[]LinesAreTheLog`, `[]LeavesItsFollows` | one `Inv` of eight parts |
| `ServicesProofs!TypeCorrect`, `ReadyCorrect`, `StopCorrect`, `TellCorrect` | `TaskService`'s four invariants | `StopInv`, `WorkInv`, then `ReadyInv` and `TellInv` |
| `ServicesProofs!RolesTypeCorrect`, `RolesCorrect`, `WritersRead` | `[]RolesTypeOK`, `[]RolesAreReach`, `[]WritersMayRead` | `RolesInv`: `SearchInv`, `ClosureOK`, `ExpansionInv` |
| `ServicesProofs!LoginTypeCorrect`, `CookiesCorrect` | `[]LoginTypeOK`, `[]CookiesStand` | `LoginInv`: `HookIsIts`, `OwnIsIts` |
| `ServicesProofs!RunnerInvHolds`, `RunnerTells` | `[]RunnerInv`, `[]ResultsTell` | `RunnerInv`: `FreshInv`, `CountsInv`, `BehindInv`, `InstallInv`, `MarkersInv`, `ExitInv` |
| `ServicesProofs!ReadinessTypeCorrect`, `RunsCorrect`, `AnswersCorrect` | `[]ReadinessTypeOK`, `[]OneRunOfACheck`, `[]AnswersAreCurrent` | `RunningInv`, `CacheInv`, `OutcomeInv` |
| `SseProofs!VersionTypeCorrect`, `QueuedCorrect` | `[]VersionTypeOK`, `[]QueuedWins` | `LockInv`, `LateInv` |
| `ObservationProofs!PostsTypeCorrect`, `MatchCorrect`, `RepostCorrect` | `[]PostsTypeOK`, `[]MatchIsOfOneCommit`, `[]RepostIsMet` | `PostsIndexInv`, `LandedInv`, `MetInv` |
| `ObservationProofs!BoardTypeCorrect`, `MapCorrect`, `GoesOnCorrect` | `[]BoardTypeOK`, `[]MapIsEntries`, `SyncGoesOn` | `BoardIndexInv`; `TimesInv`, `SeenInv`, `SyncInv` |
| `ObservationProofs!QueueInvHolds`, `QueuedCorrect` | `[]QueueInv`, `[]QueuedIsApplied` | `OrderInv`, `DueInv`, `WaitInv`, `CarriedInv` |
| `ObservationProofs!LexicalTypeCorrect`, `IndexCorrect` | `[]LexicalTypeOK`, `[]IndexIsItsTexts` | `LexicalInv`, over the tokens of all texts (`AllTokens`) |
| `SseProofs!ServerSpecInv`, `EveryOpenStreamIsReached` | `[]ServerInv`, `[]OpenIsReached` | `ServerInv`: `ListedAreServed`, `ReplacesOnce`, `AskedIsNew` |
| `SseProofs!SessionTypeCorrect`, `CommandsEndInOneStream` | `[]SessionTypeOK`, `[]OneStream` | `SessionInv`, with `ReadsItsStream` |
| `InboxProofs!TypeCorrect` | `[]TypeOK` | `Shapes`: `HoldInv`, and what each place of a follow needs (`Placed`) |
| `InboxProofs!HeldShapesHold`, `OwnedCorrect`, `ClosedCorrect` | `[]HeldShapes`, `[]SessionsAreOwned`, `[]ClosedOnce` | `HeldShapes`: `Shapes`, `EmptyInv`, `OwnInv` |
| `InboxProofs!SendInvHolds`, `SentCorrect` | `[](crossed \/ SendInv)`, `[]SentTwiceOnlyCrossed` | `SendInv`: the takes of a message (`LogInv`, `OnceInv`, `FileCounts`) and the follows' views (`ViewsOf`, `ApartOf`, `AlikeOf`, `PlacesOf`, `NewOf`) |
| `InboxProofs!ReplyInvHolds`, `ReplyCorrect` | `[](crossed \/ ReplyInv)`, `[]ReplyIsWhole` | `ReplyInv`, over `HeldShapes` and `SendInv`: `LinesOf`, `Replies`, `Heard`, `HeardAll` |
| `ScreensProofs!TriageTypeCorrect`, `ShownCorrect`, `OlderCorrect` | `[]TriageTypeOK`, `[]RulesWhatItShowed`, `[]SubmitsNoOlder` | `TriageInv`: `KnownInv`, `StaleInv`, `TurnsInv`, `NewestInv` |
| `ScreensProofs!ReplayCorrect`, `WritesStandCorrect` | `[]ReplayAddsNothing`, `[]WritesStand` | `PageInv`: `ToldInv`, `WayInv`, `SinceInv`, `SettledInv` |

They hold for any pods, writes, listeners, tasks, signals, follows, streams, cards, texts, items, roles,
requests and bounds under the modules' named assumptions, which TLC evaluates on every run. `SeenCorrect`
and `QueueKeepsPromise` also assume `Root # << >>`, a remote with a commit to begin with: on an empty one
the queue does not implement `StoreLog`.

*Why the store's invariant is what it is.* `SeenIsOnRemote` alone is not inductive: a listener is
moved to the worker's `head`, so `head` must be a prefix of `main` too. `HistoryInv` adds, for each
place of the worker (`Stage`), how its `head` and its checkout stand: from the fetch to the edit the
checkout is the head, at the push it is the head and the write in hand, which is not on the head yet,
and after a push that landed the head has the write. With that a push that is taken appends one write
to the `main` it was made on. For the refinement the write must also be in one position of one queue
or one hand only (`Alone`), and its caller still waiting (`Asked`); otherwise a retry could land it
twice or a job could answer it twice. A push that is adrift was its write's last (`LastPush`): the write is
in no queue and in no other hand, so that nothing lands it again or answers it `ok`, however late the
remote takes that push (`AdriftInv`). `ReadInv` adds that the listeners already told in this round
have what the head has, but for those that can fail.

*Why the actioner's.* `AsIfInTurns` needs that a writer's load is still the file when it writes, and that
needs that no two have the lock (`Turns`). `PendingIsCarried` needs that a pod drops its retries only once
its shutdown is announced (`Carried`), and then goes through every step of a start. For `OverlapIsUnseen`
each run must be one attempt's and be held once at most, so that a hold which was over cannot come to life
again, and an attempt that is free to ask must have known every hold taken when it read that none was live,
its own pod's among them (`UnseenInv`): an attempt becomes free only as it reads so, only its own pod's
attempt takes a hold for the pod, and a hold that was not live then is live later only if it is a new one.
With one pod that leaves no hold to ask beside.

*Why the follow's.* The lines are one step past the log only because the thread that adds one names
the offset it read at: `HoldInv` says that the follow the hold names is at the hold's run and offset,
so a thread that lost the hold cannot be the one it names. `ThreadInv` says that a thread not released
is its pod's one follow and the pod is not leaving, and `PodInv` that what a pod follows or has claimed
is its own; with them a claim made before the shutdown and written after it is found released.
`GoneInv` is what a thread that ended or was released knows of the hold, and `BeatsInv` that a
heartbeat has its turn before its follow is over. `NextLine` is the lemma about the lines kept.

*Why the task service's.* The statuses do not follow the threads once a task is cancelled, since
`_execute_task` sets a cancelled task running again; `WorkInv` therefore speaks of the tasks nobody
cancelled. `ReadyMeansDone` needs that the event, once set, stays true of the tasks counted at the
announcement, whatever starts late.

*Why the others'.* `RunningInv` says which run a registration is known by, and that the rest are of
registrations before it: a run that comes back late must find that it is not that one. `LateInv` says
that no fetch still under way for a request id may be sent once its stream had a queued version, as its
count is behind. `PostsIndexInv` says which entries are of the commit taken in and which are still
to be done in an update, and `MetInv` that a post which goes on met every observation told before it;
`BoardIndexInv` that the entry an update is at, and the card it had, account for every difference
between the entries and the map. For `QueuedIsApplied` what is due must be, at every step, in the wait
under way, in a sync on its way or in the file (`CarriedInv`). A wait that a later delivery restarts is
for a revision no older, since deliveries come in the order of their changes (`OrderInv`, `DueInv`); a
sync reads its card once what it waited for is committed (`WaitInv`); and a read that finds the file no
older than itself leaves it so, as a card's times never go back (`TimesInv`).

*Why the role map's.* The search must stop a circle wherever it is entered. Its path is of implications
(`SearchInv`), so a grey role met again closes a circle; and what it has left, the black roles, implies
only black roles and has in each of its subsets a role that implies none of them, so that no circle is
among them. A closure under way holds only what its role reaches, and what its members imply is in it or
on its stack (`ClosureOK`): with the stack empty it is closed, hence all that is reached
(`ReachableIsLeast`). The roles still to close are as their tiers have them (`ExpansionInv`), and where
there is no hierarchy the tiers are closed already (`TiersAreClosed`). `WritersMayRead`, which no run
checks, follows: the write tier implies the read tier, and what is reached is closed.

*Why the logins'.* Each request carries what its answer may set: the hook's cookies are a refresh of the
session it was sent with, or none as that one is over or the provider failed (`HookIsIts`), and the
view's are the session it signed in or none for a sign-out (`OwnIsIts`). What an answer may then leave in
the jar is one of these, and all but the sender's own are named by `disturbed`.

*Why the lexical index's.* The total is a sum over the texts, and is proved as the number of tokens of
all of them (`AllTokens`): a text taken in or dropped adds or takes a disjoint set, by the library's
facts on cardinality.

*Why the streams'.* `OpenIsReached` names who is about to close a stream that its events no longer
reach. For a step to keep it, what the registry names must be served under that ID (`ListedAreServed`),
only a thread at `registered` may have a stream to close (`ReplacesOnce`), and no send may be under way
to a stream not yet registered (`AskedIsNew`). A browser reads one stream because the worker drops its
stream and its source together, and an end it has not read is that of a stream that is over or left
(`ReadsItsStream`).

*Why the inbox's.* A session the API created must have an owner at every step, and no two. `TypeOK` by
itself is not inductive: what a follow writes is right only because the follow that holds the turn has
the sitting as the file has it (`HoldInv`), and its next step is fit for it only because a sitting with
a session has an environment, and a turn in flight the operator's message at its end (`InFlight`).
`OwnInv` then gives each session to the file (`FileOwns`), to the follow that made it and is to record or
undo it (`FollowsOwn`) or to one closer (`ClosersOwn`), each excluding the others. A follow that resumes
drops the session from the file with nobody closing it, which is right only because its send found it
gone (`ResumesGone`), and a closer past its `end` keeps the name of a session that no longer runs.
`EmptyInv` is for `Start`, which begins a sitting on a file that must name nothing. `SentOnce` needs
what a follow that is slow, released or taken over still believes: its view of a sitting was the file's
once, so it counts the turn's message as sent only if it is (`ViewsOf`), two views of one sitting differ
only by steps that both allow (`AlikeOf`), and none is ahead of the file. A send on its way (`PlacesOf`)
goes to a session that has not taken the message, has taken it from the other follow's send, or is gone;
the first makes the turn, the second is refused as busy and marks it sent, the third resumes.
Both `SendInv` and `ReplyInv` are kept until `crossed`: once a turn ended with another send on its way, the
second is in the first's place again. Sessions
that are made for one turn are told apart (`ApartOf`, `NewOf`), so a resumed turn sends to one only.

*Why the inbox's replies.* A reply is what the file had of the turn as its holder answered. `Heard` says
that this is what the session said in the turn up to the file's offset, each line once: the turn is the
session's next after those answered (`x.turns + 1`), a file without a session or without a turn in flight
has none of it, and a session logs nothing of a turn it has not begun (`LinesOf`), so a message just taken
starts with nothing said. A follow that keeps a line must be the holder, and its view is the file's
(`ViewsOf`), so the line is the one after the file's offset whoever read the lines before it. A session
is dropped for another only as its send found it gone and it had not taken the message (`PlacesOf`); it
then said nothing of the turn (`NothingSaid`), so the file has nothing of it that the new session did not
say. The holder about to answer has read to the
log's end and the session's turn is over, so nothing is added to it (`HeardAll`), and a reply once in the
transcript stays true, as a log and the turns taken only grow (`SessionsGrow`).

*Why the suite runner's.* A run's results are followed as a set (`Listed`). A suite has no result before its
test run (`FreshInv`), so that no later run changes a report that a result counts (`CountsInv`). Each step
past a suite must show that it passed, that the exit code is 1 or that an install failed (`BehindInv`); a
backend that is not installed is among the results as a failed install (`InstallInv`), which is why its
missing tests may leave the exit code 0. A report counted is the one its test run left, and no later run
changes it (`CountsInv`), so the marker made of it at the end counts the same. Where a suite due did not
run, a step before it failed (`BehindInv`, `InstallInv`), and an exit code of 1 has a failed result behind
it (`ExitInv`), which is what a stale marker lies beside.

*Why the screens'.* A ruling stands on what its card showed, and a card may be older than the store by
any number of pushes; what keeps it from answering a question it never showed is `_open`'s comparison
of `written`, which a return does not change. `StaleInv` therefore follows the one kind of copy that the
comparison lets through, an item as it was before the ruling that was submitted (`Stale`), through the
index, the fetch under way, the card and the replies: it can only be of an item in a submit on its way
back (`Leaving`), in one that was not heard of (`Unheard`), or of a card excused by name. `NewestInv`
says that a card's newest write is on its way or is what the store has, and `TurnsInv` that a submit
which has asked has no write of such a card in flight. For the inbox's page `ToldInv` says that every
copy of the sitting is of a time the file has passed, with the turn's lines as far as they went then;
`WayInv` that a line on its way which a copy has was on its way as the copy was told (`Crossed`), and
that a task's lines arrive in order, after those already heard; `SinceInv` the same of the lines heard
since the fetch. A task is followed only until its end is settled (`SettledInv`).

**Only proved.** `TaskService`'s `NothingRunsAfter`, `Readiness`'s `OneRunOfACheck`, `Board`'s
`MapIsEntries` and `RoleMap`'s `WritersMayRead`, and the type invariants: no run has them.

**Only model-checked.** The liveness properties (`EveryWriteIsAnswered`, `Converges`, `SubmitIsActioned`,
`ShutdownEnds`, `StreamsEnd`, `TurnEnds`, `SettlesAsTold`, `LeavesNothing`): the prover has no fairness or
ENABLED. `SignedOutIsOver`, whose history is of every cookie on its way. And `Document`'s `WritesAreExact`,
whose files are put together by `FlattenSeq`, which is defined by recursion.

## Not modelled

- What git does inside a command; a force push on `main`, which nothing in the repository does; two
  processes on one checkout, which the volume's layout excludes.
- Failures of the shared volume: a hold that cannot be written. The hazard is recorded, since it
  would leave a start pending for good.
- Clocks. Ages are flags that may come at any time, so the models have more behaviours than the
  code with its 30 minutes and 15 seconds; a readiness result's age and a card's seconds are counted.
- How a run's session is found by elimination: taken as right, as the design accepts that it may
  not be. A start for which the controller names no sessions, which takes a run with no follow, is
  left out of `RunFollow`.
- The texts of a turn's lines and its result; the page's drafts and toasts.
- Triage's drafts, navigation, skips and preferences; a second page or pod; items that do not read.
- Matching's vectors, weights, ranks and thresholds, and the cut at POST_CANDIDATES; `neighbors`, which
  reads only.
- Comments deleted on a card and a pod that dies during a board sync; deliveries arrive in their order,
  and may be lost.
- Who may hear an event or read a task; refresh-token rotation in `LoginFlow` (`CookiesStand` is of a
  provider that keeps its refresh tokens), the key cache, where
  a login or a logout leads back to; a browser without SharedWorker.
- What a task does and its progress events; the cleanup's ten minutes, as the cleanup may come at any
  time. The lifecycle's other listeners and their order, and STARTUP.
- The suites' command lines and output.
- The controller, its runs, environments and sessions, the webhook's delivery, YouTrack, the identity
  provider, the browser's EventSource and the volume are external and modelled as the code uses them.
- The components marked `not_modelled` in `PROJECT.json`, each with its reason.
