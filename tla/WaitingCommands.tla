--------------------------- MODULE WaitingCommands ---------------------------
(***************************************************************************)
(* One invocation of the CLI (cli-core/src/runner.rs) with a command that  *)
(* goes on until something stops it: `app dev` (its supervisor), `theme    *)
(* dev` (its synchronisation), `app logs` or `app bulk execute`.  The      *)
(* components stay where they begin while another command runs.            *)
(***************************************************************************)
EXTENDS DevRun, AppLogs, BulkOperation, ThemeDev

VARIABLE command   \* the topic command that run_cli awaits

vars == <<command, runVars, logsVars, bulkVars, devVars>>

CommandsInit ==
    /\ command \in {"app dev", "app logs", "app bulk", "theme dev"}
    /\ RunInit /\ LogsInit /\ BulkInit /\ Init

CommandsNext ==
    /\ UNCHANGED command
    /\ \/ command = "app dev" /\ RunNext /\ UNCHANGED <<logsVars, bulkVars, devVars>>
       \/ command = "app logs" /\ LogsNext /\ UNCHANGED <<runVars, bulkVars, devVars>>
       \/ command = "app bulk" /\ BulkNext /\ UNCHANGED <<runVars, logsVars, devVars>>
       \/ command = "theme dev" /\ Next /\ UNCHANGED <<runVars, logsVars, bulkVars>>

\* What the scheduling of each justifies, while it runs.  In theme dev a
\* sleeping task wakes, and tokio's select! takes a ready branch at random:
\* neither an event in the channel nor the poll is passed over for ever.
CommandsFairness ==
    /\ \A p \in Procs : WF_runVars(command = "app dev" /\ Proceed(p))
    /\ WF_runVars(command = "app dev" /\ Supervise)
    /\ LogsFairness /\ BulkFairness
    /\ WF_devVars(command = "theme dev" /\ Watch)
    /\ WF_devVars(command = "theme dev" /\ Answer)
    /\ SF_devVars(command = "theme dev" /\ TakeEvent)
    /\ SF_devVars(command = "theme dev" /\ Poll)

CommandsSpec == CommandsInit /\ [][CommandsNext]_vars /\ CommandsFairness
=============================================================================
