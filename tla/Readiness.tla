----------------------------- MODULE Readiness -----------------------------
(***************************************************************************)
(* The readiness probe, backend/app/services/health_service.py: checks     *)
(* that run in threads of their own, one run of each at a time, whose      *)
(* passing results are kept for a while, and requests that join a run      *)
(* under way and wait for it no longer than the check's timeout.  A check  *)
(* may be registered again, and its results forgotten, as it runs.  `n`    *)
(* is a check's name, `version` the registration it is of.                 *)
(***************************************************************************)
EXTENDS Integers, Sequences

CONSTANTS
    Names, Critical,        \* the checks, and those the app cannot serve without
    Probes,                 \* the requests of readyz
    TTL,                    \* CACHE_TTL_SECONDS
    MaxVersions, MaxRuns,   \* bound: registrations and runs of each check
    MaxTime                 \* bound: the clock

ASSUME ReadinessAssumption ==
    /\ Critical \subseteq Names
    /\ {TTL, MaxVersions, MaxRuns, MaxTime} \subseteq Nat

VARIABLES
    version,        \* _checks: each check's registration
    cache,          \* _cache: the run whose passing result is kept, and until when
    running,        \* _running: the run under way, 0 for none
    run,            \* the checks' threads, in the order they were started
    probe,          \* the requests
    draining,       \* the lifecycle coordinator is shutting down
    clock

readyVars == <<version, cache, running, run, probe, draining, clock>>

Nothing == [run |-> 0, until |-> 0]
Passed(result) == result # "error"

\* `of`, `age` and `over` are history: the check's registration as the request looked,
\* and whether the run it was given was over then, and for how long.
Unlooked == [run |-> 0, of |-> 0, age |-> 0, over |-> FALSE, result |-> "none"]
Idle == [at |-> "idle", outcome |-> [n \in Names |-> Unlooked]]

ReadinessInit ==
    /\ version = [n \in Names |-> 1]
    /\ cache = [n \in Names |-> Nothing]
    /\ running = [n \in Names |-> 0]
    /\ run = [n \in Names |-> << >>]
    /\ probe = [p \in Probes |-> Idle]
    /\ draining = FALSE /\ clock = 0

Passes == clock < MaxTime /\ clock' = clock + 1
          /\ UNCHANGED <<version, cache, running, run, probe, draining>>

\* register_check: the new check's results are its own.
Registers(n) ==
    /\ version[n] < MaxVersions
    /\ version' = [version EXCEPT ![n] = @ + 1]
    /\ cache' = [cache EXCEPT ![n] = Nothing]
    /\ running' = [running EXCEPT ![n] = 0]
    /\ UNCHANGED <<run, probe, draining, clock>>

ClearsCache ==
    /\ \E n \in Names : cache[n] # Nothing
    /\ cache' = [n \in Names |-> Nothing]
    /\ UNCHANGED <<version, running, run, probe, draining, clock>>

\* drain, with its key: it is refused without one.
Drains == ~draining /\ draining' = TRUE /\ UNCHANGED <<version, cache, running, run, probe, clock>>

-----------------------------------------------------------------------------
(* The requests. *)

Fresh(n) == cache[n].run # 0 /\ cache[n].until > clock
Started == {n \in Names : ~Fresh(n) /\ running[n] = 0}
Given(n) == IF Fresh(n) THEN cache[n].run
            ELSE IF running[n] # 0 THEN running[n] ELSE Len(run[n]) + 1

Looked(n) ==
    LET over == Given(n) <= Len(run[n]) /\ run[n][Given(n)].at \in {"recorded", "told"} IN
    [run |-> Given(n), of |-> version[n], over |-> over,
     age |-> IF over THEN clock - run[n][Given(n)].ended ELSE 0,
     result |-> IF Fresh(n) THEN run[n][Given(n)].result ELSE "none"]

\* Kubernetes asks again and again.
Answered == {"idle", "ok", "degraded", "not_ready"}

\* Under the lock each check's kept result is taken, its run joined, or one started.
ProbeLooks(p) ==
    /\ probe[p].at \in Answered /\ ~draining
    /\ \A n \in Started : Len(run[n]) < MaxRuns
    /\ probe' = [probe EXCEPT ![p] = [at |-> "waits", outcome |-> [n \in Names |-> Looked(n)]]]
    /\ running' = [n \in Names |-> IF n \in Started THEN Given(n) ELSE running[n]]
    /\ run' = [n \in Names |-> IF n \in Started
                  THEN Append(run[n], [at |-> "runs", of |-> version[n], result |-> "none",
                                       ended |-> 0])
                  ELSE run[n]]
    /\ UNCHANGED <<version, cache, draining, clock>>

ProbeRefused(p) ==
    /\ probe[p].at \in Answered /\ draining
    /\ probe' = [probe EXCEPT ![p] = [Idle EXCEPT !.at = "shutting_down"]]
    /\ UNCHANGED <<version, cache, running, run, draining, clock>>

Awaited(p) == {n \in Names : probe[p].outcome[n].result = "none"}
ProbeTold(p, n, result) ==
    /\ probe[p].at = "waits" /\ n \in Awaited(p)
    /\ probe' = [probe EXCEPT ![p].outcome[n].result = result]
    /\ UNCHANGED <<version, cache, running, run, draining, clock>>

RunOf(p, n) == run[n][probe[p].outcome[n].run]
ProbeHears(p, n) ==
    /\ probe[p].outcome[n].run # 0
    /\ RunOf(p, n).at = "told"
    /\ ProbeTold(p, n, RunOf(p, n).result)
\* The timeout is no error of the check: the run goes on.
ProbeTimesOut(p, n) ==
    /\ probe[p].outcome[n].run # 0
    /\ RunOf(p, n).at # "told"
    /\ ProbeTold(p, n, "timeout")

Failed(p) == {n \in Names : probe[p].outcome[n].result \in {"error", "timeout"}}
ProbeAnswers(p) ==
    /\ probe[p].at = "waits" /\ Awaited(p) = {}
    /\ probe' = [probe EXCEPT ![p] = [Idle EXCEPT !.at =
          IF Failed(p) \cap Critical # {} THEN "not_ready"
          ELSE IF Failed(p) # {} THEN "degraded" ELSE "ok"]]
    /\ UNCHANGED <<version, cache, running, run, draining, clock>>

-----------------------------------------------------------------------------
(* A check's thread. *)

\* The check returns, or raises, which is an error; `disabled` passes as `ok` does.
RunReturns(n, r) ==
    /\ run[n][r].at = "runs"
    /\ \E result \in {"ok", "error"} :
        run' = [run EXCEPT ![n][r].at = "returned", ![n][r].result = result]
    /\ UNCHANGED <<version, cache, running, probe, draining, clock>>

Leaves(n, r) == running' = IF running[n] = r THEN [running EXCEPT ![n] = 0] ELSE running

\* Mutant: what a replaced check returned is kept.
KeepsAny(n, r) ==
    cache' = IF Passed(run[n][r].result)
             THEN [cache EXCEPT ![n] = [run |-> r, until |-> clock + TTL]] ELSE cache
Keeps(n, r) == IF run[n][r].of = version[n] THEN KeepsAny(n, r) ELSE UNCHANGED cache

RunRecords(n, r) ==
    /\ run[n][r].at = "returned"
    /\ run' = [run EXCEPT ![n][r].at = "recorded", ![n][r].ended = clock]
    /\ Leaves(n, r) /\ Keeps(n, r)
    /\ UNCHANGED <<version, probe, draining, clock>>

RunTells(n, r) ==
    /\ run[n][r].at = "recorded"
    /\ run' = [run EXCEPT ![n][r].at = "told"]
    /\ UNCHANGED <<version, cache, running, probe, draining, clock>>

ReadinessNext ==
    \/ Passes \/ ClearsCache \/ Drains
    \/ \E n \in Names : Registers(n)
    \/ \E n \in Names : \E r \in DOMAIN run[n] :
        RunReturns(n, r) \/ RunRecords(n, r) \/ RunTells(n, r)
    \/ \E p \in Probes :
        \/ ProbeLooks(p) \/ ProbeRefused(p) \/ ProbeAnswers(p)
        \/ \E n \in Names : ProbeHears(p, n) \/ ProbeTimesOut(p, n)

ReadinessSpec == ReadinessInit /\ [][ReadinessNext]_readyVars

-----------------------------------------------------------------------------
(* What the deployment relies on. *)

RunShapes ==
    [at : {"runs", "returned", "recorded", "told"}, of : Nat,
     result : {"none", "ok", "error"}, ended : Nat]
Outcomes ==
    [run : Nat, of : Nat, age : Int, over : BOOLEAN,
     result : {"none", "ok", "error", "timeout"}]
\* Every variable has the shape its code has.
ReadinessTypeOK ==
    /\ version \in [Names -> Nat] /\ cache \in [Names -> [run : Nat, until : Nat]]
    /\ running \in [Names -> Nat] /\ run \in [Names -> Seq(RunShapes)]
    /\ probe \in [Probes -> [at : {"idle", "waits", "ok", "degraded", "not_ready", "shutting_down"},
                             outcome : [Names -> Outcomes]]]
    /\ draining \in BOOLEAN /\ clock \in Nat

\* What a request tells of a check is of the check registered as it looked; of a run that
\* was over by then it tells only a pass, and one the cache's time old at most: "a failing
\* one is not, so a recovery shows at the next probe" (health_service.py).
AnswersAreCurrent ==
    \A p \in Probes : \A n \in Names : probe[p].outcome[n].result \notin {"none", "timeout"} =>
        LET o == probe[p].outcome[n] IN
        /\ run[n][o.run].of = o.of
        /\ o.over => Passed(o.result) /\ o.age < TTL

\* "A hung dependency costs one thread per check": no check has two runs under way,
\* whatever is registered, timed out and asked meanwhile.
OneRunOfACheck ==
    \A n \in Names : \A r, s \in DOMAIN run[n] :
        r # s /\ run[n][r].of = run[n][s].of =>
            ~({run[n][r].at, run[n][s].at} \subseteq {"runs", "returned"})
=============================================================================
