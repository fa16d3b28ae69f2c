---------------------------- MODULE DevRun_proofs ----------------------------
(***************************************************************************)
(* Theorems of DevRun, for any number of processes.                        *)
(***************************************************************************)
EXTENDS DevRun, TLAPS

\* Before the select ends only Ctrl+C cancels, so only Ctrl+C makes a web
\* process end well; what ends the select is then Ctrl+C or a failure.
StopInv ==
    /\ main = "select" /\ cancelled => ctrlC
    /\ \A p \in Webs : procs[p] # "closing" /\ (procs[p] = "ok" => cancelled)
    /\ RunsUntilStopped

ExitInv == main = "exited" => joined = Procs

-----------------------------------------------------------------------------
\* The initial states have their types.
LEMMA TypeInit == RunInit => RunTypeOK
BY DEF RunInit, RunTypeOK, Ended

\* A task that has ended stays as it ended.
LEMMA FinishKeeps ==
    ASSUME RunTypeOK, NEW p \in Procs, NEW outcome \in {"closing", "ok", "failed"}, Finish(p, outcome)
    PROVE  /\ procs' \in [Procs -> {"spawned", "running", "closing", "ok", "failed"}]
           /\ procs' = [procs EXCEPT ![p] = outcome]
           /\ Ended \subseteq Ended'
BY DEF Finish, RunTypeOK, Ended

\* Every step keeps the types.
LEMMA TypeStep == RunTypeOK /\ [RunNext]_runVars => RunTypeOK'
<1> SUFFICES ASSUME RunTypeOK, [RunNext]_runVars PROVE RunTypeOK'
    OBVIOUS
<1> USE DevRunAssumption
<1>1. ASSUME NEW p \in Procs, Start(p) PROVE RunTypeOK'
    <2>1. procs' \in [Procs -> {"spawned", "running", "closing", "ok", "failed"}] /\ Ended' = Ended
        BY <1>1 DEF Start, RunTypeOK, Ended
    <2> QED BY <1>1, <2>1 DEF Start, RunTypeOK
<1>2. ASSUME NEW p \in Procs, NEW outcome \in {"closing", "ok", "failed"}, Finish(p, outcome),
             p \in tabs => outcome = "closing"
      PROVE  RunTypeOK'
    BY <1>2, FinishKeeps DEF Finish, RunTypeOK
<1>3. ASSUME NEW p \in Procs, PumpEnds(p) PROVE RunTypeOK'
    BY <1>3 DEF PumpEnds, RunTypeOK, Ended
<1>4. CASE CtrlC
    BY <1>4 DEF CtrlC, RunTypeOK, Ended
<1>5. ASSUME NEW error \in {"none", "error"}, Leave(error),
             joined' \subseteq Ended
      PROVE  RunTypeOK'
    BY <1>5 DEF Leave, RunTypeOK, Ended
<1>6. ASSUME NEW p \in Procs, Join(p) PROVE RunTypeOK'
    BY <1>6 DEF Join, RunTypeOK, Ended
<1>7. CASE Exit
    BY <1>7 DEF Exit, RunTypeOK, Ended
<1>8. CASE UNCHANGED runVars
    BY <1>8 DEF runVars, RunTypeOK, Ended
<1>9. ASSUME NEW p \in Procs, TakeFailure(p) PROVE RunTypeOK'
    <2>1. joined' \subseteq Ended
        BY <1>9 DEF TakeFailure, RunTypeOK, Ended
    <2> QED BY <1>5, <1>9, <2>1 DEF TakeFailure
<1>10. CASE TakeCancel \/ TakeLogsEnd
    <2>1. joined' \subseteq Ended
        BY <1>10 DEF TakeCancel, TakeLogsEnd, RunTypeOK
    <2> QED BY <1>5, <1>10, <2>1 DEF TakeCancel, TakeLogsEnd
<1>11. ASSUME NEW p \in Procs, Close(p) \/ OpenTab(p) \/ CloseTab(p) PROVE RunTypeOK'
    BY <1>11 DEF Close, OpenTab, CloseTab, RunTypeOK, Ended
<1>12. ASSUME NEW p \in Procs, Fail(p) \/ FinishEarly(p) \/ Abort(p) PROVE RunTypeOK'
    <2>1. tabs \subseteq Streams  BY DEF RunTypeOK
    <2> QED BY <1>2, <1>12, <2>1 DEF Fail, FinishEarly, Abort
<1> QED
    BY <1>1, <1>3, <1>4, <1>6, <1>7, <1>8, <1>9, <1>10, <1>11, <1>12 DEF RunNext

\* The supervisor's and the tasks' states are as typed, and nobody's result is
\* taken before the task has ended.
THEOREM RunTypeCorrect == RunSpec => []RunTypeOK
BY TypeInit, TypeStep, PTL DEF RunSpec

-----------------------------------------------------------------------------
\* Every step keeps the processes running until they are stopped.
LEMMA StopStep ==
    ASSUME Webs # {}, RunTypeOK, StopInv, [RunNext]_runVars
    PROVE  StopInv'
<1> USE DevRunAssumption
<1>1. ASSUME NEW p \in Procs, Start(p) PROVE StopInv'
    BY <1>1 DEF Start, StopInv, RunsUntilStopped, RunTypeOK
<1>2. ASSUME NEW p \in Procs, NEW outcome \in {"closing", "ok", "failed"}, Finish(p, outcome),
             p \in Webs => outcome # "closing" /\ (outcome = "ok" => cancelled)
      PROVE  StopInv'
    <2>1. procs' = [procs EXCEPT ![p] = outcome] /\ procs[p] = "running"
        BY <1>2 DEF Finish
    <2>2. \A q \in Procs : procs[q] = "failed" => procs'[q] = "failed"
        BY <2>1 DEF RunTypeOK
    <2>3. \A q \in Webs : procs'[q] # "closing" /\ (procs'[q] = "ok" => cancelled)
        BY <1>2, <2>1 DEF RunTypeOK, StopInv
    <2> QED BY <1>2, <2>2, <2>3 DEF Finish, StopInv, RunsUntilStopped
<1>3. ASSUME NEW p \in Procs, PumpEnds(p) PROVE StopInv'
    BY <1>3 DEF PumpEnds, StopInv, RunsUntilStopped
<1>4. CASE CtrlC
    BY <1>4 DEF CtrlC, StopInv, RunsUntilStopped
<1>5. ASSUME NEW error, Leave(error), ctrlC \/ \E p \in Procs : procs[p] = "failed" PROVE StopInv'
    BY <1>5 DEF Leave, StopInv, RunsUntilStopped
<1>6. ASSUME NEW p \in Procs, Join(p) PROVE StopInv'
    BY <1>6 DEF Join, StopInv, RunsUntilStopped
<1>7. CASE Exit
    BY <1>7 DEF Exit, StopInv, RunsUntilStopped
<1>8. CASE UNCHANGED runVars
    BY <1>8 DEF runVars, StopInv, RunsUntilStopped
<1>9. ASSUME NEW p \in Procs, TakeFailure(p) PROVE StopInv'
    BY <1>5, <1>9 DEF TakeFailure
<1>10. CASE TakeCancel
    BY <1>5, <1>10 DEF TakeCancel, Leave, StopInv
<1>11. CASE TakeLogsEnd
    \* No sender is left: the task of any web process has ended.
    <2>1. PICK w \in Webs : procs[w] \notin {"spawned", "running", "closing"}
        BY <1>11 DEF TakeLogsEnd, Senders, StopInv
    <2>2. procs[w] = "ok" => ctrlC
        BY <1>11 DEF TakeLogsEnd, Leave, StopInv
    <2>3. ctrlC \/ procs[w] = "failed"
        BY <2>1, <2>2 DEF RunTypeOK
    <2> QED BY <1>5, <1>11, <2>3 DEF TakeLogsEnd
<1>12. ASSUME NEW p \in Procs, Close(p) PROVE StopInv'
    BY <1>12 DEF Close, StopInv, RunsUntilStopped, RunTypeOK
<1>13. ASSUME NEW p \in Procs, OpenTab(p) \/ CloseTab(p) PROVE StopInv'
    BY <1>13 DEF OpenTab, CloseTab, StopInv, RunsUntilStopped
<1>14. ASSUME NEW p \in Procs, Fail(p) \/ FinishEarly(p) \/ Abort(p) PROVE StopInv'
    BY <1>2, <1>14 DEF Fail, FinishEarly, Abort
<1> QED
    BY <1>1, <1>3, <1>4, <1>6, <1>7, <1>8, <1>9, <1>10, <1>11, <1>12, <1>13, <1>14 DEF RunNext

\* With at least one web process only Ctrl+C or the failure of a process ends
\* `app dev`.  (Without one it ends by itself: run dev_run_no_web.)
THEOREM StoppedOnly == ASSUME Webs # {} PROVE RunSpec => []RunsUntilStopped
<1>1. RunInit => StopInv
    BY DevRunAssumption DEF RunInit, StopInv, RunsUntilStopped
<1>2. RunTypeOK /\ StopInv /\ [RunNext]_runVars => StopInv'
    BY StopStep
<1>3. StopInv => RunsUntilStopped
    BY DEF StopInv
<1> QED BY <1>1, <1>2, <1>3, RunTypeCorrect, PTL DEF RunSpec

-----------------------------------------------------------------------------
\* Every step keeps the inductive invariant of NoProcessOutlives.
LEMMA ExitStep == ExitInv /\ RunTypeOK /\ [RunNext]_runVars => ExitInv'
<1> SUFFICES ASSUME ExitInv, RunTypeOK, [RunNext]_runVars PROVE ExitInv'
    OBVIOUS
<1>1. CASE Exit
    BY <1>1 DEF Exit, ExitInv
<1>2. ASSUME main' = main, joined' = joined PROVE ExitInv'
    BY <1>2 DEF ExitInv
<1>3. ASSUME NEW error, Leave(error) PROVE ExitInv'
    BY <1>3 DEF Leave, ExitInv
<1>4. ASSUME NEW p \in Procs, Join(p) PROVE ExitInv'
    BY <1>4 DEF Join, ExitInv
<1>5. CASE UNCHANGED runVars
    BY <1>2, <1>5 DEF runVars
<1> QED
    BY <1>1, <1>2, <1>3, <1>4, <1>5
       DEF RunNext, Start, Fail, FinishEarly, Abort, Finish, Close, OpenTab, CloseTab,
           PumpEnds, TakeFailure,
           CtrlC, TakeCancel, TakeLogsEnd

\* `app dev` never exits before every process it started has ended.
THEOREM NoneOutlives == RunSpec => []NoProcessOutlives
<1>1. RunInit => ExitInv
    BY DEF RunInit, ExitInv
<1>2. ExitInv /\ RunTypeOK => NoProcessOutlives
    BY DEF ExitInv, RunTypeOK, NoProcessOutlives, Ended
<1> QED BY <1>1, <1>2, ExitStep, RunTypeCorrect, PTL DEF RunSpec
=============================================================================
