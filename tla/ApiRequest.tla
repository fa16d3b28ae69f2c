------------------------------ MODULE ApiRequest ------------------------------
(***************************************************************************)
(* One request through GraphqlClient (cli-kit/src/api/graphql.rs), which   *)
(* all API clients use, with the retries of util/retry.rs.  The request is *)
(* a mutation: it matters how often the server executes it.  No caller     *)
(* configures a cache.                                                     *)
(***************************************************************************)
EXTENDS Naturals

CONSTANTS
    RetryTime,          \* max_retry_time
    BackoffDelays,      \* what backoff_delay may return after the first attempt
    MaxRequestFaults    \* bounds what goes wrong

ASSUME ApiRequestAssumption ==
    /\ RetryTime \in Nat /\ BackoffDelays \subseteq Nat \ {0} /\ MaxRequestFaults \in Nat

VARIABLES
    query,          \* [at, token, refreshes, elapsed, attempt]
    validToken,     \* the token that the server accepts
    executions,     \* how often it has executed the mutation
    answersLost,    \* executions whose answer never arrived
    requestFaults

requestVars == <<query, validToken, executions, answersLost, requestFaults>>

RequestInit ==
    /\ query \in [at : {"send"}, token : {1}, refreshes : BOOLEAN, elapsed : {0}, attempt : {0}]
    /\ validToken = 1 /\ executions = 0 /\ answersLost = 0 /\ requestFaults = 0

RequestFault == requestFaults < MaxRequestFaults /\ requestFaults' = requestFaults + 1
QueryAt(at) == query.at = at
Sent(at) == QueryAt("send") /\ query' = [query EXCEPT !.at = at]
Executed == query.token = validToken /\ executions' = executions + 1

\* A 200 whose data is what is expected.
Succeed ==
    /\ Sent("ok") /\ Executed
    /\ UNCHANGED <<validToken, answersLost, requestFaults>>

\* is_transient_network_error: the request was not sent or its answer is lost.
LoseRequest ==
    /\ Sent("backoff") /\ RequestFault
    /\ \/ Executed /\ answersLost' = answersLost + 1
       \/ UNCHANGED <<executions, answersLost>>
    /\ UNCHANGED validToken

\* Mutant: a server error is tried again.
ServerErrorsMutant == "backoff"

\* A 5xx, executed or not, is the end, and so are answers that cannot be read.
\* The client's documentation says that it is retried (graphql.rs:171 and :291).
ServerErrorLeadsTo == "error"

FailOnServer ==
    /\ Sent(ServerErrorLeadsTo) /\ RequestFault
    /\ Executed \/ UNCHANGED executions
    /\ UNCHANGED <<validToken, answersLost>>

\* 429, after the time that Retry-After names.
BeThrottled ==
    /\ Sent("backoff") /\ RequestFault
    /\ UNCHANGED <<validToken, executions, answersLost>>

\* Another 4xx, or an answer that has only errors.
BeRefused ==
    /\ Sent("error") /\ RequestFault
    /\ UNCHANGED <<validToken, executions, answersLost>>

\* 401: the new token is kept for the attempts of this request.
BeUnauthorized ==
    /\ QueryAt("send") /\ query.token # validToken
    /\ \/ query' = [query EXCEPT !.at = "error"]
       \/ query.refreshes /\ query' = [query EXCEPT !.at = "backoff", !.token = validToken]
    /\ UNCHANGED <<validToken, executions, answersLost, requestFaults>>

ExpireToken ==
    /\ RequestFault /\ validToken' = validToken + 1
    /\ UNCHANGED <<query, executions, answersLost>>

\* The first attempt is followed at once by a second, which itself takes time.
Delays == IF query.attempt = 0 THEN {0} ELSE BackoffDelays

BackOff ==
    /\ QueryAt("backoff")
    /\ \E delay \in Delays, took \in {0, 1} :
          LET elapsed == query.elapsed + took + delay
          IN query' = IF elapsed > RetryTime THEN [query EXCEPT !.at = "error"]
                      ELSE [query EXCEPT !.at = "send", !.elapsed = elapsed, !.attempt = 1]
    /\ UNCHANGED <<validToken, executions, answersLost, requestFaults>>

RequestNext ==
    \/ Succeed \/ LoseRequest \/ FailOnServer \/ BeThrottled \/ BeRefused \/ BeUnauthorized
    \/ ExpireToken \/ BackOff

RequestSpec == RequestInit /\ [][RequestNext]_requestVars

-----------------------------------------------------------------------------
(* Properties *)

\* A mutation is executed again only after the answer of an earlier execution
\* was lost: throttling, refreshed tokens and server errors repeat none, and
\* one that failed was not executed unless an answer was lost or the error came
\* from the server (query_with_variables, execute).  That a server error repeats
\* none is what the code does, against its documentation ("5xx -> retry").
RepeatsOnlyLost == executions <= answersLost + 1
==============================================================================
