---------------------------- MODULE AppDevSession ----------------------------
(***************************************************************************)
(* `shopify app dev` with a dev session: AppWatch composed with            *)
(* processes/dev_session/process.rs (run_dev_session), the state status.rs *)
(* keeps for the terminal, and the end of run.rs once Ctrl+C cancels the   *)
(* processes.  The platform fetches the modules of a session from the      *)
(* extension server, that is from the dev bundle, while it answers; an     *)
(* update names the modules it inherits instead.                           *)
(***************************************************************************)
EXTENDS AppWatch

CONSTANTS
    MaxFaults    \* bound: requests without a good answer

ASSUME AppDevSessionAssumption == MaxFaults \in Nat

VARIABLES
    cancelled,       \* the CancellationToken all processes share
    session,         \* what run_dev_session awaits
    current,         \* the event it is sending
    live,            \* the platform has a dev session of the app
    modules,         \* and its modules' contents, 0 for none
    status,          \* DevSessionStatusManager's
    said,            \* what `app dev` printed last
    faults,
    unsent           \* ghost: extensions whose change no accepted request carried

platformVars == <<live, modules, faults>>
sessionVars == <<session, current>>
devVars == <<watchVars, cancelled, sessionVars, platformVars, status, said, unsent>>

NoEvent == [app |-> [e \in Exts |-> 0], deleted |-> {}, updated |-> {}, failed |-> {}]

DevInit ==
    /\ WatchInit
    /\ cancelled = FALSE
    /\ session = "creating" /\ current = NoEvent
    /\ live = FALSE /\ modules = [e \in Exts |-> 0]
    /\ status = "loading"
    /\ said = "nothing" /\ faults = 0 /\ unsent = {}

-----------------------------------------------------------------------------
(* The watcher, until it is cancelled *)

Watching(action) ==
    /\ ~cancelled /\ action
    /\ unsent' = IF inbox' # inbox THEN unsent
                 ELSE unsent \cup {e \in Exts : app'[e] # app[e] \/ built'[e] # built[e]}
    /\ UNCHANGED <<cancelled, sessionVars, platformVars, status, said>>

-----------------------------------------------------------------------------
(* The dev session process *)

\* An answer of the platform.  A fault loses the request, or only its answer, or
\* the platform refuses it: with top-level errors, or with userErrors, which
\* check_user_errors reads as user_errors, finds none and takes for a success.
Answer(applied, good) ==
    \/ good /\ applied /\ UNCHANGED faults
    \/ ~(good /\ applied) /\ faults < MaxFaults /\ faults' = faults + 1

\* create returns, and the process starts to listen.
Created(applied, good) ==
    /\ session = "creating" /\ Answer(applied, good)
    /\ live' = applied
    /\ modules' = IF applied THEN [e \in Exts |-> IF app[e] # 0 THEN built[e] ELSE 0] ELSE modules
    /\ status' = IF good THEN "ready" ELSE "error"
    /\ listening' = TRUE
    /\ session' = "listening"
    /\ unsent' = IF applied THEN {} ELSE Exts
    /\ UNCHANGED <<diskVars, threadVars, batches, app, built, inbox, ghostVars,
                   cancelled, current, said>>

\* update is sent.
TakeEvent ==
    /\ session = "listening" /\ inbox # <<>>
    /\ current' = Head(inbox)
    /\ inbox' = Tail(inbox)
    /\ status' = "loading"
    /\ session' = "updating"
    /\ UNCHANGED <<diskVars, threadVars, batches, app, built, listening, ghostVars,
                   cancelled, platformVars, said, unsent>>

\* Mutant: an update inherits the modules that changed, too.
InheritAllMutant(event) == Present(event.app)

\* inherited_module_uids
Inherited(event) == Present(event.app) \ Changed(event)

UpdateEnds(applied, good) ==
    /\ session = "updating"
    /\ modules' = IF ~applied THEN modules
                  ELSE [e \in Exts |-> IF current.app[e] = 0 THEN 0
                                       ELSE IF e \in Inherited(current) THEN modules[e]
                                       ELSE built[e]]
    /\ status' = IF good /\ current.failed = {} THEN "ready" ELSE "error"
    /\ session' = "listening"
    /\ current' = NoEvent
    /\ unsent' = IF applied THEN unsent \ (Changed(current) \cup (Exts \ Present(current.app)))
                 ELSE unsent \cup Changed(current)
    /\ UNCHANGED <<watchVars, cancelled, live, said>>

Updated(applied, good) == Answer(applied, good) /\ (applied => live) /\ UpdateEnds(applied, good)

\* A request to a session that does not exist is refused; that is no fault.
Refused == ~live /\ (\E good \in BOOLEAN : UpdateEnds(FALSE, good)) /\ UNCHANGED faults

\* Mutant: only a session without errors is stopped.
StopReadyMutant ==
    /\ session = "listening" /\ cancelled /\ status = "ready"
    /\ session' = "deleting"
    /\ UNCHANGED <<watchVars, cancelled, current, platformVars, status, said, unsent>>

\* Mutant: no session was created, so there is none to delete.
SkipDeleteMutant ==
    /\ session = "listening" /\ cancelled
    /\ session' = IF status = "error" THEN "done" ELSE "deleting"
    /\ UNCHANGED <<watchVars, cancelled, current, platformVars, status, said, unsent>>

\* The select of the loop takes the cancellation, and delete is sent.
StopListening ==
    /\ session = "listening" /\ cancelled
    /\ session' = "deleting"
    /\ UNCHANGED <<watchVars, cancelled, current, platformVars, status, said, unsent>>

Deleted(applied, good) ==
    /\ session = "deleting" /\ Answer(applied, good)
    /\ live' = (live /\ ~applied)
    /\ modules' = IF applied THEN [e \in Exts |-> 0] ELSE modules
    /\ session' = "done"
    /\ UNCHANGED <<watchVars, cancelled, current, status, said, unsent>>

-----------------------------------------------------------------------------
(* run.rs *)

CtrlC ==
    /\ ~cancelled
    /\ cancelled' = TRUE
    /\ UNCHANGED <<watchVars, sessionVars, platformVars, status, said, unsent>>

\* All processes have ended: the last words, then exit.
SayGoodbye ==
    /\ cancelled /\ session = "done" /\ said = "nothing"
    /\ said' = IF status = "ready" THEN "preview available" ELSE "stopped"
    /\ UNCHANGED <<watchVars, cancelled, sessionVars, platformVars, status, unsent>>

Replies ==
    \/ \E applied, good \in BOOLEAN :
           Created(applied, good) \/ Updated(applied, good) \/ Deleted(applied, good)
    \/ Refused
Process == TakeEvent \/ StopListening \/ SayGoodbye

DevNext ==
    \/ Watching(Developer) \/ Watching(Watcher) \/ Watching(Pipeline)
    \/ Replies \/ Process \/ CtrlC

DevSpec == DevInit /\ [][DevNext]_devVars

\* Threads run, the platform answers or the request fails.  The developer
\* need not edit, nor ever press Ctrl+C.
FairDevSpec ==
    /\ DevSpec
    /\ WF_devVars(Watching(\E e \in Exts : Echo(e)))
    /\ WF_devVars(Watching(TakeNotice \/ FlushPending))
    /\ WF_devVars(Watching(Pipeline))
    /\ WF_devVars(Replies \/ Process)

-----------------------------------------------------------------------------
(* Properties *)

DevTypeOK ==
    /\ WatchTypeOK
    /\ cancelled \in BOOLEAN
    /\ session \in {"creating", "listening", "updating", "deleting", "done"}
    /\ current \in AppEvent
    /\ live \in BOOLEAN /\ modules \in Contents /\ (\E e \in Exts : modules[e] # 0) => live
    /\ status \in {"loading", "ready", "error"}
    /\ said \in {"nothing", "preview available", "stopped"}
    /\ faults \in 0..MaxFaults
    /\ unsent \subseteq Exts

\* With every event handled, the dev session previews what the bundle holds
\* of each extension, and none that is not in the app; but for changes of
\* before the process listened, and of updates that failed (run_dev_session
\* does not repeat them, and later updates inherit the stale module).
SessionFollowsBundle ==
    session = "listening" /\ inbox = <<>> =>
        \A e \in Exts \ unsent : modules[e] = IF app[e] # 0 THEN built[e] ELSE 0

\* A dev session the platform has made is gone when `app dev` exits, even if
\* Ctrl+C came while it was being created, if its creation seemed to fail or if
\* the platform refused every update; unless the request to delete it fails,
\* too, or is refused, of which nothing is said (userErrors count as success).
NoSessionLeft ==
    [][session # "done" /\ session' = "done" /\ faults' = faults => ~live']_devVars

\* Ctrl+C ends the session, whatever is in flight.  Without it, once the
\* developer stops editing, the pipeline comes to rest, unless builds keep
\* setting off builds by the dist/index.js they leave in an extension's directory.
Rest == Quiet /\ echoes = {} /\ inbox = <<>> /\ session = "listening"
ComesToRest ==
    \/ []<>(~cancelled /\ echoes # {})
    \/ <>[](IF cancelled THEN said # "nothing" ELSE phase = "dead" \/ Rest)
=============================================================================
