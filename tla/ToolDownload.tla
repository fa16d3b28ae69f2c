----------------------------- MODULE ToolDownload -----------------------------
(***************************************************************************)
(* The tools that functions are built with: app/src/services/function/     *)
(* binaries.rs downloads each one when it is first needed.  Builds of one  *)
(* process share a lock; other processes do not.  A process may be killed  *)
(* at any step.                                                            *)
(***************************************************************************)
EXTENDS Naturals

CONSTANTS
    ToolProcs,          \* processes of the CLI
    BuildsPerProc,      \* callers of download_binary in each
    DownloadAttempts,   \* 3 in perform_download
    MaxDownloadFaults   \* bounds failed downloads and kills

ASSUME ToolDownloadAssumption ==
    {BuildsPerProc, DownloadAttempts} \subseteq Nat \ {0} /\ MaxDownloadFaults \in Nat

Builds == ToolProcs \X (1..BuildsPerProc)
Process(b) == b[1]

VARIABLES
    tool,          \* the file at the path of the tool: "none", "part" or "whole"
    build,         \* what each caller does: [at, attempts]
    toolLock,      \* whether a caller of the process holds DOWNLOAD_LOCK
    renames,       \* whether the temporary file can be renamed over the path
    downloadFaults

toolVars == <<tool, build, toolLock, renames, downloadFaults>>

NotBuilding == [at |-> "idle", attempts |-> 0]

ToolInit ==
    /\ tool = "none" /\ build = [b \in Builds |-> NotBuilding]
    /\ toolLock = [p \in ToolProcs |-> FALSE] /\ renames \in BOOLEAN /\ downloadFaults = 0

DownloadFault == downloadFaults < MaxDownloadFaults /\ downloadFaults' = downloadFaults + 1
BuildAt(b, at) == build[b].at = at
BuildGoes(b, at) == build' = [build EXCEPT ![b].at = at]
Release(b) == toolLock' = [toolLock EXCEPT ![Process(b)] = FALSE]

\* `path.is_file()`: what is there is not looked at.
CheckTool(b) ==
    /\ BuildAt(b, "idle")
    /\ BuildGoes(b, IF tool # "none" THEN "found" ELSE "lock")
    /\ UNCHANGED <<tool, toolLock, renames, downloadFaults>>

LockDownload(b) ==
    /\ BuildAt(b, "lock") /\ ~toolLock[Process(b)]
    /\ IF tool # "none"
       THEN BuildGoes(b, "found") /\ UNCHANGED toolLock
       ELSE BuildGoes(b, "download") /\ toolLock' = [toolLock EXCEPT ![Process(b)] = TRUE]
    /\ UNCHANGED <<tool, renames, downloadFaults>>

\* The answer, unpacked into a temporary file of its own.
TryDownload(b) ==
    /\ BuildAt(b, "download")
    /\ BuildGoes(b, "install")
    /\ UNCHANGED <<tool, toolLock, renames, downloadFaults>>

\* A request, the unpacking or the copy fails.
FailDownload(b) ==
    /\ BuildAt(b, "download") \/ BuildAt(b, "copy")
    /\ DownloadFault
    /\ build' = [build EXCEPT ![b].attempts = @ + 1,
                    ![b].at = IF build[b].attempts + 1 < DownloadAttempts THEN "download"
                              ELSE "failed"]
    /\ IF build'[b].at = "failed" THEN Release(b) ELSE UNCHANGED toolLock
    /\ UNCHANGED <<tool, renames>>

\* Mutant: the answer is unpacked into the path.
InPlaceMutant == FALSE

Renamed == renames

\* Renamed into place, or copied over what is there if that fails.
Install(b) ==
    /\ BuildAt(b, "install")
    /\ IF Renamed
       THEN tool' = "whole" /\ BuildGoes(b, "found") /\ Release(b)
       ELSE tool' = "part" /\ BuildGoes(b, "copy") /\ UNCHANGED toolLock
    /\ UNCHANGED <<renames, downloadFaults>>

FinishCopy(b) ==
    /\ BuildAt(b, "copy")
    /\ tool' = "whole" /\ BuildGoes(b, "found") /\ Release(b)
    /\ UNCHANGED <<renames, downloadFaults>>

\* All builds of the process are gone; they are started again some day.
KillProcess(p) ==
    /\ DownloadFault
    /\ build' = [b \in Builds |-> IF Process(b) = p THEN NotBuilding ELSE build[b]]
    /\ toolLock' = [toolLock EXCEPT ![p] = FALSE]
    /\ UNCHANGED <<tool, renames>>

RunTool(b) ==
    /\ BuildAt(b, "found")
    /\ BuildGoes(b, "idle")
    /\ UNCHANGED <<tool, toolLock, renames, downloadFaults>>

ToolNext ==
    \/ \E b \in Builds : \/ CheckTool(b) \/ LockDownload(b) \/ TryDownload(b) \/ FailDownload(b)
                          \/ Install(b) \/ FinishCopy(b) \/ RunTool(b)
    \/ \E p \in ToolProcs : KillProcess(p)

ToolSpec == ToolInit /\ [][ToolNext]_toolVars

-----------------------------------------------------------------------------
(* Properties *)

\* A build that is told the tool is there finds all of it, whichever process
\* downloads it or was killed meanwhile ("Concurrent callers share a lock so
\* two perform_downloads cannot clobber the same path"), where files can be
\* renamed: a copy shows other processes the part that is written.
FoundWhole == renames => \A b \in Builds : build[b].at = "found" => tool = "whole"
==============================================================================
