------------------------------- MODULE DevRun -------------------------------
(***************************************************************************)
(* The supervisor of `shopify app dev`: services/dev/run.rs starts the     *)
(* processes as tasks of a JoinSet, prints their log lines, and selects    *)
(* between Ctrl+C, a process that fails and the end of the log; then it    *)
(* cancels and waits for every task.                                       *)
(***************************************************************************)
EXTENDS FiniteSets

CONSTANTS
    Procs,       \* the processes of setup_dev_processes
    Webs,        \* those that run a command of shopify.web.toml
    OneShots,    \* those that are done early: the file watcher's, the webhook's
    Streams      \* those whose server streams events to browser tabs: theme app extensions

ASSUME DevRunAssumption ==
    /\ IsFiniteSet(Procs) /\ Webs \subseteq Procs /\ OneShots \subseteq Procs \ Webs
    /\ Streams \subseteq Procs \ (Webs \cup OneShots)

VARIABLES
    procs,       \* state of each task
    joined,      \* the tasks whose result join_next has returned
    pumps,       \* web processes whose output pumps still hold a log sender
    tabs,        \* servers with a stream open, that of a tab
    cancelled,   \* the CancellationToken
    ctrlC,       \* Ctrl+C, or q in the terminal UI
    main,        \* what dev_with_prompter awaits
    result       \* fatal_error

runVars == <<procs, joined, pumps, tabs, cancelled, ctrlC, main, result>>

Ended == {p \in Procs : procs[p] \in {"ok", "failed"}}

RunInit ==
    /\ procs = [p \in Procs |-> "spawned"]
    /\ joined = {} /\ pumps = {} /\ tabs = {}
    /\ cancelled = FALSE /\ ctrlC = FALSE
    /\ main = "select" /\ result = "none"

-----------------------------------------------------------------------------
(* The processes *)

\* Mutant: a web process only passes its sender on to the pumps.
PumpsOnlyMutant == {p \in Procs : procs[p] = "spawned"} \cup pumps

\* A task keeps its sender until it runs; a web process keeps it while it
\* runs, and so do the pumps of its child's output.
Senders ==
    {p \in Procs : procs[p] = "spawned" \/ (p \in Webs /\ procs[p] = "running")} \cup pumps

Start(p) ==
    /\ procs[p] = "spawned"
    /\ procs' = [procs EXCEPT ![p] = "running"]
    /\ pumps' = IF p \in Webs THEN pumps \cup {p} ELSE pumps
    /\ UNCHANGED <<joined, tabs, cancelled, ctrlC, main, result>>

Finish(p, outcome) ==
    /\ procs[p] = "running"
    /\ procs' = [procs EXCEPT ![p] = outcome]
    /\ UNCHANGED <<joined, pumps, tabs, cancelled, ctrlC, main, result>>

\* A web process that exits, for whatever reason, has failed; a server for
\* theme app extensions fails before it listens, or not at all.
Fail(p) == p \notin tabs /\ Finish(p, "failed")
FinishEarly(p) == p \in OneShots /\ Finish(p, "ok")

\* Mutant: cancelling kills the commands of web processes, nothing else.
KillWebsMutant(p) == cancelled /\ p \in Webs /\ Finish(p, "ok")

\* A server that streams stops listening, and waits for its connections.
Abort(p) == cancelled /\ Finish(p, IF p \in Streams THEN "closing" ELSE "ok")

\* A stream never ends by itself: its connection does when the tab is closed.
Close(p) ==
    /\ procs[p] = "closing" /\ p \notin tabs
    /\ procs' = [procs EXCEPT ![p] = "ok"]
    /\ UNCHANGED <<joined, pumps, tabs, cancelled, ctrlC, main, result>>

OpenTab(p) ==
    /\ p \in Streams \ tabs /\ procs[p] = "running"
    /\ tabs' = tabs \cup {p}
    /\ UNCHANGED <<procs, joined, pumps, cancelled, ctrlC, main, result>>

CloseTab(p) ==
    /\ p \in tabs
    /\ tabs' = tabs \ {p}
    /\ UNCHANGED <<procs, joined, pumps, cancelled, ctrlC, main, result>>

\* The child has closed its output.
PumpEnds(p) ==
    /\ p \in pumps
    /\ pumps' = pumps \ {p}
    /\ UNCHANGED <<procs, joined, tabs, cancelled, ctrlC, main, result>>

CtrlC ==
    /\ ~ctrlC
    /\ ctrlC' = TRUE
    /\ cancelled' = TRUE
    /\ UNCHANGED <<procs, joined, pumps, tabs, main, result>>

-----------------------------------------------------------------------------
(* dev_with_prompter *)

\* Mutant: the token is not cancelled.
LeaveRunningMutant(error) ==
    /\ main = "select"
    /\ main' = "joining"
    /\ result' = error
    /\ UNCHANGED <<procs, pumps, tabs, cancelled, ctrlC>>

\* Any branch of the select that is ready may be taken; the token is then cancelled.
Leave(error) ==
    /\ main = "select"
    /\ main' = "joining"
    /\ cancelled' = TRUE
    /\ result' = error
    /\ UNCHANGED <<procs, pumps, tabs, ctrlC>>

TakeCancel == cancelled /\ Leave("none") /\ UNCHANGED joined
\* render_logs, or the terminal UI, ends with the log channel.
TakeLogsEnd == Senders = {} /\ Leave("none") /\ UNCHANGED joined
TakeFailure(p) ==
    /\ procs[p] = "failed" /\ p \notin joined
    /\ joined' = joined \cup {p}
    /\ Leave("error")

\* wait_for_process_failure goes on after a process that ended well.
Join(p) ==
    /\ p \in Ended \ joined
    /\ main = "select" => procs[p] = "ok"
    /\ main # "exited"
    /\ joined' = joined \cup {p}
    /\ UNCHANGED <<procs, pumps, tabs, cancelled, ctrlC, main, result>>

\* Mutant: does not wait for the tasks it has not joined.
ExitAtOnceMutant ==
    /\ main = "joining"
    /\ main' = "exited"
    /\ UNCHANGED <<procs, joined, pumps, tabs, cancelled, ctrlC, result>>

Exit ==
    /\ main = "joining" /\ joined = Procs
    /\ main' = "exited"
    /\ UNCHANGED <<procs, joined, pumps, tabs, cancelled, ctrlC, result>>

RunNext ==
    \/ \E p \in Procs : Start(p) \/ Fail(p) \/ FinishEarly(p) \/ Abort(p)
                        \/ Close(p) \/ OpenTab(p) \/ CloseTab(p)
                        \/ PumpEnds(p) \/ TakeFailure(p) \/ Join(p)
    \/ CtrlC \/ TakeCancel \/ TakeLogsEnd \/ Exit

RunSpec == RunInit /\ [][RunNext]_runVars

\* What goes on by itself: tasks start, give up when cancelled and are joined,
\* and so does the supervisor.  No process need fail or end, and no tab close.
Proceed(p) == Start(p) \/ Abort(p) \/ Close(p) \/ Join(p) \/ TakeFailure(p)
Supervise == TakeCancel \/ Exit

-----------------------------------------------------------------------------
(* Properties *)

RunTypeOK ==
    /\ procs \in [Procs -> {"spawned", "running", "closing", "ok", "failed"}]
    /\ joined \subseteq Ended
    /\ pumps \subseteq Webs
    /\ tabs \subseteq {p \in Streams : procs[p] \in {"running", "closing"}}
    /\ cancelled \in BOOLEAN /\ ctrlC \in BOOLEAN
    /\ main \in {"select", "joining", "exited"}
    /\ result \in {"none", "error"}
    /\ main # "select" => cancelled

\* "run until Ctrl+C" (run.rs:55): only Ctrl+C or a failed process ends app dev.
RunsUntilStopped ==
    main # "select" => ctrlC \/ \E p \in Procs : procs[p] = "failed"

\* No process outlives `app dev`: its session is deleted, its ports are free.
NoProcessOutlives == main = "exited" => Ended = Procs

\* Ctrl+C, and a process that fails, bring the others and `app dev` to an end,
\* once no tab streams events any more: a tab with hot reload holds up the close
\* of the theme app extension server, and with it app dev (run_theme_ext).
EndsWhenStopped ==
    ctrlC \/ (\E p \in Procs : procs[p] = "failed") ~> main = "exited" \/ tabs # {}
=============================================================================
