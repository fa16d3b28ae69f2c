------------------------------- MODULE AppLogs -------------------------------
(***************************************************************************)
(* `shopify app logs`: services/app_logs/poll.rs and the loop that         *)
(* services/logs.rs runs over it.  A poller asks for the logs after its    *)
(* cursor, subscribes again when its token has expired, and waits longer   *)
(* after an error; the times it waits are not modelled, only that it does. *)
(***************************************************************************)
EXTENDS Naturals, Sequences

CONSTANTS
    MaxLogs,                  \* bounds the logs of the app
    MaxRefusals,              \* bounds failures of one kind
    MaxResubscribeFailures    \* MAX_CONSECUTIVE_RESUBSCRIBE_FAILURES

ASSUME AppLogsAssumption ==
    MaxLogs \in Nat /\ MaxRefusals \in Nat /\ MaxResubscribeFailures \in Nat \ {0}

VARIABLES
    poller,      \* what the loop does: it polls, waits, or has ended
    cursor,      \* the logs that it has been given: 1..cursor
    resubscriptions, \* consecutive_resubscribe_failures
    printed,     \* the logs on the screen
    logged,      \* the logs of the app are 1..logged
    jwtLive,     \* whether the server takes the poller's token
    refusals     \* failures so far, by kind

pollerVars == <<poller, cursor, resubscriptions, printed>>
logsVars == <<pollerVars, logged, jwtLive, refusals>>

Refusals == {"request", "subscribe", "show"}

LogsInit ==
    /\ poller = "poll" /\ cursor = 0 /\ resubscriptions = 0 /\ printed = <<>>
    /\ logged = 0 /\ jwtLive = TRUE /\ refusals = [k \in Refusals |-> 0]

Refuse(k) == refusals[k] < MaxRefusals /\ refusals' = [refusals EXCEPT ![k] = @ + 1]

\* Mutant: the cursor is only kept for an answer without logs.
StaleCursorMutant(upTo) == IF upTo = cursor THEN upTo ELSE cursor

NextCursor(upTo) == upTo

\* A 200 has the logs up to some point, and the cursor of that point.
PollLogs(upTo) ==
    /\ poller = "poll" /\ jwtLive
    /\ upTo \in cursor..logged
    /\ cursor' = NextCursor(upTo)
    /\ resubscriptions' = 0
    /\ printed' = printed \o [i \in 1..(upTo - cursor) |-> cursor + i]
    /\ poller' = "wait"
    /\ UNCHANGED <<logged, jwtLive, refusals>>

\* Writing a log file fails, after some of the logs were printed: the error
\* of on_logs ends the command.
FailToShow(upTo) ==
    /\ poller = "poll" /\ jwtLive /\ Refuse("show")
    /\ upTo \in (cursor + 1)..logged
    /\ cursor' = upTo /\ resubscriptions' = 0
    /\ \E n \in 0..(upTo - cursor) : printed' = printed \o [i \in 1..n |-> cursor + i]
    /\ poller' = "failed"
    /\ UNCHANGED <<logged, jwtLive>>

\* No answer, 429, or another error: the cursor stays, and so does the count.
FailPoll ==
    /\ poller = "poll" /\ Refuse("request")
    /\ poller' = "wait"
    /\ UNCHANGED <<cursor, resubscriptions, printed, logged, jwtLive>>

\* Mutant: the new token is not kept.
LostTokenMutant ==
    /\ poller = "poll" /\ ~jwtLive
    /\ resubscriptions' = 0 /\ poller' = "wait"
    /\ UNCHANGED <<jwtLive, cursor, printed, logged, refusals>>

\* 401
Resubscribe ==
    /\ poller = "poll" /\ ~jwtLive
    /\ jwtLive' = TRUE /\ resubscriptions' = 0 /\ poller' = "wait"
    /\ UNCHANGED <<cursor, printed, logged, refusals>>

SessionExpired(n) == n >= MaxResubscribeFailures

FailResubscribe ==
    /\ poller = "poll" /\ ~jwtLive /\ Refuse("subscribe")
    /\ resubscriptions' = resubscriptions + 1
    /\ poller' = IF SessionExpired(resubscriptions') THEN "expired" ELSE "wait"
    /\ UNCHANGED <<cursor, printed, logged, jwtLive>>

Wait ==
    /\ poller = "wait" /\ poller' = "poll"
    /\ UNCHANGED <<cursor, resubscriptions, printed, logged, jwtLive, refusals>>

WriteLog ==
    /\ logged < MaxLogs /\ logged' = logged + 1
    /\ UNCHANGED <<pollerVars, jwtLive, refusals>>

ExpireJwt ==
    /\ jwtLive /\ Refuse("request") /\ jwtLive' = FALSE
    /\ UNCHANGED <<pollerVars, logged>>

LogsNext ==
    \/ \E n \in 0..MaxLogs : PollLogs(n) \/ FailToShow(n)
    \/ FailPoll \/ Resubscribe \/ FailResubscribe \/ Wait \/ WriteLog \/ ExpireJwt

\* The loop goes on, and a server that answers gives all it has some day.
LogsFairness ==
    /\ WF_logsVars(Wait) /\ WF_logsVars(Resubscribe)
    /\ SF_logsVars(PollLogs(logged) /\ logged > cursor)

FairLogsSpec == LogsInit /\ [][LogsNext]_logsVars /\ LogsFairness

-----------------------------------------------------------------------------
(* Properties *)

\* Each log is shown once and in order, whatever was lost, throttled or
\* expired in between (poll_once, run_loop).
EachLogOnce == \A i \in DOMAIN printed : printed[i] = i

\* Every log is shown, unless a file cannot be written or "App log streaming
\* session has expired": after refused subscriptions without a success between.
ShowsAll ==
    \A n \in 1..MaxLogs : logged >= n ~>
        \/ Len(printed) >= n \/ poller = "failed"
        \/ poller = "expired" /\ resubscriptions = MaxResubscribeFailures
==============================================================================
