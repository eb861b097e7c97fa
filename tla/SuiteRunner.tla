---------------------------- MODULE SuiteRunner ----------------------------
(***************************************************************************)
(* The suite runner that a developer and the CI's validation run,          *)
(* tools/suite_runner/local.py: one pass over its steps, each of which     *)
(* runs a command (process.py) that may fail, time out or not be there,    *)
(* the test runs' reports (junit.py) and the exit code.  `full` is the     *)
(* CI's output mode, `kept` a directory of reports that outlives the run,  *)
(* with what an earlier run left there.                                    *)
(***************************************************************************)
EXTENDS Sequences, FiniteSets

VARIABLES
    chosen,         \* the arguments, and what the run finds
    step,           \* the step to take
    backendInstalled,
    exitCode,
    results,        \* the steps' results
    report,         \* the JUnit files in the report directory; "old" is an earlier run's
    markers,        \* SUITE_RESULT, by file
    wrote           \* history: what each test run of this run wrote

runnerVars == <<chosen, step, backendInstalled, exitCode, results,
                report, markers, wrote>>
setting == <<chosen, backendInstalled>>
reports == <<report, markers, wrote>>

Reports == {"backend", "frontend", "frontend-preview"}
NoReports == [f \in Reports |-> "none"]

\* `preview`: the selection holds an @preview spec.  A tool that is missing raises.
Arguments ==
    [suites : (SUBSET {"backend", "frontend"}) \ {{}}, full : BOOLEAN, kept : BOOLEAN,
     cache : BOOLEAN, dirs : SUBSET {"backend", "frontend"}, waits : BOOLEAN,
     tools : {{"uv", "pnpm"}, {"uv"}, {"pnpm"}}, preview : BOOLEAN]

RunnerInit ==
    /\ chosen \in Arguments
    /\ step = "install"
    /\ backendInstalled = FALSE
    /\ exitCode = 0 /\ results = << >>
    /\ report \in IF chosen.kept
                  THEN {NoReports, [f \in Reports |-> "old"]} ELSE {NoReports}
    /\ markers = NoReports /\ wrote = NoReports

-----------------------------------------------------------------------------
(* Commands and their results. *)

At(s) == step = s
Goto(s) == step' = s

Result(name, ok) == [step |-> name, ok |-> ok, suite |-> "none", counts |-> "none"]
Records(rs) == results' = results \o rs
SetsExit(failed) == exitCode' = IF failed THEN 1 ELSE exitCode

\* run and run_streamed catch a timeout and nothing else.
Raises(s, tool, dir) ==
    /\ At(s) /\ ~(tool \in chosen.tools /\ dir \in chosen.dirs)
    /\ Goto("raised")
    /\ exitCode' = 1
    /\ UNCHANGED <<setting, results, reports>>

\* The file a test command leaves: one that fails has a failure in it or not, no report,
\* or one broken off; the caller's arguments may turn the report off.
TestRuns == {[ok |-> TRUE, file |-> "passed"], [ok |-> TRUE, file |-> "none"],
             [ok |-> FALSE, file |-> "failed"], [ok |-> FALSE, file |-> "passed"],
             [ok |-> FALSE, file |-> "none"], [ok |-> FALSE, file |-> "unreadable"]}

\* What a result counts, None when there is nothing to read, and the marker of a file, of
\* zeroes when it does not read.
Counted(file) == IF file = "unreadable" THEN "none" ELSE file
Marker(file) == IF file = "unreadable" THEN "zeroes" ELSE file

\* Mutant: the report of an earlier run is not removed.
LeftOver(f, file) == IF file = "none" THEN report[f] ELSE file
Written(f, file) == file

RunsTests(name, f, ok, file) ==
    /\ report' = [report EXCEPT ![f] = Written(f, file)]
    /\ wrote' = [wrote EXCEPT ![f] = file]
    /\ Records(<<[step |-> name, ok |-> ok, suite |-> f, counts |-> Counted(report'[f])]>>)
    /\ UNCHANGED markers

-----------------------------------------------------------------------------
(* The backend. *)

InstallsBackend ==
    /\ At("install")
    /\ \E ok \in BOOLEAN :
        /\ ok => "backend" \in chosen.dirs
        /\ "backend" \in chosen.dirs => "uv" \in chosen.tools
        /\ backendInstalled' = ok
        /\ Records(<<Result("backend install", ok)>>)
    /\ Goto("services")
    /\ UNCHANGED <<chosen, exitCode, reports>>

WaitsForServices ==
    /\ At("services")
    /\ IF backendInstalled /\ chosen.waits
       THEN \E ok \in BOOLEAN : Records(<<Result("services", ok)>>) /\ SetsExit(~ok)
       ELSE UNCHANGED <<results, exitCode>>
    /\ Goto("pytest")
    /\ UNCHANGED <<setting, reports>>

TestsBackend ==
    /\ At("pytest")
    /\ IF "backend" \notin chosen.suites THEN UNCHANGED <<results, exitCode, reports>>
       ELSE IF ~backendInstalled
            THEN /\ Records(<<Result("backend pytest", FALSE)>>)
                 /\ UNCHANGED <<exitCode, reports>>
            ELSE \E t \in TestRuns :
                    RunsTests("backend pytest", "backend", t.ok, t.file) /\ SetsExit(~t.ok)
    /\ Goto(IF "frontend" \in chosen.suites THEN "restore" ELSE "over")
    /\ UNCHANGED setting

-----------------------------------------------------------------------------
(* The frontend. *)

\* The build cache: a store that cannot be had or put costs time only.
RestoresStore ==
    /\ At("restore")
    /\ chosen.cache /\ "frontend" \in chosen.dirs => "pnpm" \in chosen.tools
    /\ Goto("npm")
    /\ UNCHANGED <<setting, exitCode, results, reports>>

\* A frozen install, or one without the lock when it fails.
InstallsFrontend ==
    /\ At("npm") /\ "frontend" \in chosen.dirs /\ "pnpm" \in chosen.tools
    /\ \E ok \in BOOLEAN :
        /\ Records(IF ok THEN <<Result("frontend install", TRUE)>>
                   ELSE <<Result("frontend install", FALSE), Result("frontend build", FALSE),
                          Result("frontend playwright", FALSE)>>)
        /\ Goto(IF ok THEN "build" ELSE "over")
    /\ UNCHANGED <<setting, exitCode, reports>>

\* The build that the image has.
BuildsFrontend ==
    /\ At("build")
    /\ \E ok \in BOOLEAN :
        /\ Records(IF ok THEN <<Result("frontend build", TRUE)>>
                   ELSE <<Result("frontend build", FALSE), Result("frontend playwright", FALSE)>>)
        /\ SetsExit(~ok)
        /\ Goto(IF ok THEN "browser" ELSE "over")
    /\ UNCHANGED <<setting, reports>>

InstallsBrowser ==
    /\ At("browser")
    /\ \E ok \in BOOLEAN : Records(<<Result("playwright install", ok)>>)
    /\ Goto("playwright")
    /\ UNCHANGED <<setting, exitCode, reports>>

TestsFrontend ==
    /\ At("playwright")
    /\ \E t \in TestRuns :
        RunsTests("frontend playwright", "frontend", t.ok, t.file) /\ SetsExit(~t.ok)
    /\ Goto("listing")
    /\ UNCHANGED setting

\* Mutant: a listing that cannot be read is taken for none selected.
ListingIsNone == At("listing") /\ Goto("over") /\ UNCHANGED <<setting, results, exitCode, reports>>

\* The listing fails, or its total cannot be read.
ListingFails ==
    /\ At("listing")
    /\ Records(<<Result("frontend preview listing", FALSE)>>)
    /\ SetsExit(TRUE)
    /\ Goto("over")
    /\ UNCHANGED <<setting, reports>>

ListsPreview ==
    /\ At("listing")
    /\ Goto(IF chosen.preview THEN "rebuild" ELSE "over")
    /\ UNCHANGED <<setting, results, exitCode, reports>>

Rebuilds ==
    /\ At("rebuild")
    /\ \E ok \in BOOLEAN :
        /\ Records(IF ok THEN <<Result("frontend build (test mode)", TRUE)>>
                   ELSE <<Result("frontend build (test mode)", FALSE),
                          Result("frontend playwright (preview)", FALSE)>>)
        /\ SetsExit(~ok)
        /\ Goto(IF ok THEN "preview" ELSE "over")
    /\ UNCHANGED <<setting, reports>>

TestsPreview ==
    /\ At("preview")
    /\ \E t \in TestRuns :
        /\ RunsTests("frontend playwright (preview)", "frontend-preview", t.ok, t.file)
        /\ SetsExit(~t.ok)
    /\ Goto("over")
    /\ UNCHANGED setting

\* Full mode: a marker for every file of the directory kept; a summary otherwise.
Exports ==
    /\ At("over")
    /\ markers' = IF chosen.full /\ chosen.kept
                  THEN [f \in Reports |-> Marker(report[f])] ELSE markers
    /\ Goto("exited")
    /\ UNCHANGED <<setting, exitCode, results, report, wrote>>

RunnerNext ==
    \/ InstallsBackend \/ WaitsForServices \/ TestsBackend
    \/ "backend" \in chosen.dirs /\ Raises("install", "uv", "backend")
    \/ chosen.cache /\ "frontend" \in chosen.dirs /\ Raises("restore", "pnpm", "frontend")
    \/ RestoresStore \/ Raises("npm", "pnpm", "frontend") \/ InstallsFrontend
    \/ BuildsFrontend \/ InstallsBrowser \/ TestsFrontend
    \/ ListingFails \/ ListsPreview \/ Rebuilds \/ TestsPreview \/ Exports

RunnerSpec == RunnerInit /\ [][RunnerNext]_runnerVars

-----------------------------------------------------------------------------
(* What the CI's gate rests on. *)

Ran(f) == \E i \in DOMAIN results : results[i].suite = f /\ results[i].ok
Installed == \A i \in DOMAIN results :
    results[i].step \in {"backend install", "frontend install"} => results[i].ok
SuitesDue == {f \in Reports :
    CASE f = "frontend-preview" -> "frontend" \in chosen.suites /\ chosen.preview
      [] OTHER -> f \in chosen.suites}

\* A run that exits with 0 ran every suite it was asked for, the preview pass's included,
\* and each passed; but for one whose installs failed, of which the code says only so.  Of a
\* suite that ran, the summary and the marker count what this run wrote and agree (junit.py:
\* "the two always agree"), but for a report broken off, "no report" to the one and zeroes
\* to the other.  The marker of a suite that did not run may be an earlier run's: then the
\* results hold a step that failed.
ResultsTell ==
    step = "exited" =>
        /\ exitCode = 0 /\ Installed => \A f \in SuitesDue : Ran(f)
        /\ \A i \in DOMAIN results : LET f == results[i].suite IN
            f # "none" =>
                /\ results[i].counts = Counted(wrote[f])
                /\ chosen.full /\ chosen.kept =>
                      markers[f] = IF wrote[f] = "unreadable" THEN "zeroes" ELSE results[i].counts
        /\ \A f \in SuitesDue : markers[f] = "old" => \E i \in DOMAIN results : ~results[i].ok
=============================================================================
