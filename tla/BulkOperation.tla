---------------------------- MODULE BulkOperation ----------------------------
(***************************************************************************)
(* `shopify app bulk execute` and `cancel`: services/bulk_operations.  The *)
(* command stages the variables of a mutation, has the operation created,  *)
(* and polls it: until it ends, with --watch, or for three seconds.        *)
(***************************************************************************)
EXTENDS Naturals

CONSTANT QuickPolls   \* bounds the polls of three seconds

ASSUME BulkAssumption == QuickPolls \in Nat

Terminal == {"COMPLETED", "FAILED", "CANCELED", "EXPIRED"}

VARIABLES
    bulk,        \* the command: [at, mutation, watch, status, polls]
    interrupted, \* the abort token, which Ctrl+C cancels under --watch
    bulkResult,  \* what the user is left with
    operation    \* the status of the operation on the server

bulkVars == <<bulk, interrupted, bulkResult, operation>>

BulkInit ==
    /\ bulk = [at |-> "off", mutation |-> FALSE, watch |-> FALSE, status |-> "none", polls |-> 0]
    /\ interrupted = FALSE /\ bulkResult = "none" /\ operation = "none"

BulkStep(at) == bulk' = [bulk EXCEPT !.at = at] /\ UNCHANGED interrupted
LeaveWith(result) == BulkStep("done") /\ bulkResult' = result

\* The command is given a query or a mutation, with or without --watch.
ExecuteBulk(mutation, watch) ==
    /\ bulk.at = "off"
    /\ bulk' = [bulk EXCEPT !.at = "create", !.mutation = mutation, !.watch = watch]
    /\ UNCHANGED <<interrupted, bulkResult, operation>>

\* stagedUploadsCreate, and the upload of the variables.
StageVariables ==
    /\ bulk.at = "create" /\ bulk.mutation
    /\ BulkStep("stage") /\ UNCHANGED <<bulkResult, operation>>

UploadVariables ==
    /\ bulk.at = "stage"
    /\ BulkStep("run") /\ UNCHANGED <<bulkResult, operation>>

RunOperation ==
    /\ bulk.at = "run" \/ (bulk.at = "create" /\ ~bulk.mutation)
    /\ operation' = "RUNNING"
    /\ BulkStep("poll") /\ UNCHANGED bulkResult

\* Mutant: an operation is followed until it has completed or failed.
TwoEndsMutant(status) == status \in {"COMPLETED", "FAILED"}
\* Mutant: results are fetched when the first poll has them.
FirstPollMutant(b, token) == b.status = "COMPLETED" /\ b.watch /\ b.polls = 0

WatchEnds(status) == status \in Terminal

\* aborted is read after the watch, whatever the last status was.
Downloads(b, token) == b.status = "COMPLETED" /\ b.watch /\ ~token

PollOperation ==
    /\ bulk.at = "poll"
    /\ \E slow \in BOOLEAN :   \* a poll may take the three seconds alone
          LET b == [bulk EXCEPT !.status = operation]
              quits == ~b.watch /\ (slow \/ b.polls >= QuickPolls)
          IN bulk' = [b EXCEPT !.at = IF WatchEnds(operation) \/ interrupted \/ quits
                                      THEN "watched" ELSE "sleep"]
    /\ UNCHANGED <<interrupted, bulkResult, operation>>

\* The interval, or the abort token.
Wake ==
    /\ bulk.at = "sleep"
    /\ bulk' = IF interrupted THEN [bulk EXCEPT !.at = "watched"]
               ELSE [bulk EXCEPT !.at = "poll",
                                 !.polls = IF @ < QuickPolls THEN @ + 1 ELSE @]
    /\ UNCHANGED <<interrupted, bulkResult, operation>>

\* Results exist if the operation found objects; else there is no url.
Deliver ==
    /\ bulk.at = "watched"
    /\ IF Downloads(bulk, interrupted)
       THEN \E r \in {"results", "no objects"} : LeaveWith(r)
       ELSE LeaveWith(IF interrupted /\ bulk.watch THEN "still running" ELSE bulk.status)
    /\ UNCHANGED operation

\* Any request fails, user errors among the reasons: the command ends, and an
\* operation it has started goes on.
FailBulk ==
    /\ bulk.at \notin {"off", "sleep", "done"}
    /\ LeaveWith("error")
    /\ operation' \in {operation} \cup
          (IF operation = "none" /\ bulk.at \in {"create", "run"} THEN {"RUNNING"} ELSE {})

Interrupt ==
    /\ bulk.watch /\ bulk.at # "done" /\ ~interrupted
    /\ interrupted' = TRUE /\ UNCHANGED <<bulk, bulkResult, operation>>

\* The server; CANCELED is what another terminal's `bulk cancel` asks for.
EndOperation(status) ==
    /\ operation \in {"RUNNING", "CANCELING"} /\ status \in Terminal
    /\ status = "CANCELED" => operation = "CANCELING"
    /\ operation' = status /\ UNCHANGED <<bulk, interrupted, bulkResult>>

CancelOperation ==
    /\ operation = "RUNNING" /\ operation' = "CANCELING"
    /\ UNCHANGED <<bulk, interrupted, bulkResult>>

BulkNext ==
    \/ \E mutation, watch \in BOOLEAN : ExecuteBulk(mutation, watch)
    \/ StageVariables \/ UploadVariables \/ RunOperation \/ PollOperation \/ Wake \/ Deliver
    \/ FailBulk \/ Interrupt \/ CancelOperation \/ \E s \in Terminal : EndOperation(s)

BulkFairness ==
    /\ WF_bulkVars(StageVariables \/ UploadVariables \/ RunOperation)
    /\ WF_bulkVars(PollOperation \/ Wake \/ Deliver)

FairBulkSpec == BulkInit /\ [][BulkNext]_bulkVars /\ BulkFairness

-----------------------------------------------------------------------------
(* Properties *)

\* The command ends, though the operation may not: without --watch after its
\* three seconds, with it when the operation ends or the user interrupts it
\* (watch_bulk_operation: "No hard 240s cap on full watch").  A watched
\* operation that completes delivers its results, unless the command was
\* interrupted or a request failed (execute_bulk_operation).
BulkEnds ==
    /\ bulk.at # "off" /\ (~bulk.watch \/ interrupted \/ operation \in Terminal) ~>
          bulk.at = "done"
    /\ bulk.watch /\ operation = "COMPLETED" /\ bulk.at = "poll" ~>
          bulkResult \in {"results", "no objects", "error"} \/ interrupted
==============================================================================
