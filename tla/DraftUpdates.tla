----------------------------- MODULE DraftUpdates -----------------------------
(***************************************************************************)
(* `app dev` of apps without dev sessions: every extension that was built  *)
(* is sent as a draft.  dev/processes/draftable_extension.rs listens to    *)
(* the app watcher and calls update_extension.rs; builds go on meanwhile.  *)
(* Versions of an extension are numbers; its configuration comes with the  *)
(* event, its script from the disk when the event is handled.              *)
(***************************************************************************)
EXTENDS Naturals, Sequences

CONSTANTS
    DraftExts,       \* extensions of the app
    KnownExts,       \* those that are draftable and that the app had at the start
    MaxDraftEdits,   \* bounds the edits
    MaxDraftFaults   \* bounds failed builds and updates

ASSUME DraftUpdatesAssumption ==
    KnownExts \subseteq DraftExts /\ {MaxDraftEdits, MaxDraftFaults} \subseteq Nat

VARIABLES
    edited,       \* the version of each extension's source
    builtVersion, \* the version its build output on the disk is of, 0 if none
    buildEvents,  \* the channel of the process
    update,       \* the update under way: [at, event, script]
    drafts,       \* the draft of each extension: [config, script]
    refused,      \* extensions whose last update failed
    draftFaults

draftVars == <<edited, builtVersion, buildEvents, update, drafts, refused, draftFaults>>

NoUpdate == [at |-> "receive"]
DraftFault == draftFaults < MaxDraftFaults /\ draftFaults' = draftFaults + 1

DraftInit ==
    /\ edited = [x \in DraftExts |-> 1] /\ builtVersion = [x \in DraftExts |-> 0]
    /\ buildEvents = <<>> /\ update = NoUpdate /\ refused = {} /\ draftFaults = 0
    /\ drafts = [x \in DraftExts |-> [config |-> 0, script |-> 0]]

EditExtension(x) ==
    /\ edited[x] <= MaxDraftEdits
    /\ edited' = [edited EXCEPT ![x] = @ + 1]
    /\ UNCHANGED <<builtVersion, buildEvents, update, drafts, refused, draftFaults>>

\* The watcher builds what it has not built, and tells of the build; a build
\* that fails leaves the output of the one before.
BuildExtension(x) ==
    /\ builtVersion[x] < edited[x]
    /\ \E ok \in BOOLEAN :
          /\ buildEvents' = Append(buildEvents, [ext |-> x, config |-> edited[x], ok |-> ok])
          /\ IF ok THEN builtVersion' = [builtVersion EXCEPT ![x] = edited[x]] /\ UNCHANGED draftFaults
             ELSE DraftFault /\ UNCHANGED builtVersion
    /\ UNCHANGED <<edited, update, drafts, refused>>

\* Mutant: the result of the build is not looked at.
AnyBuildMutant(event) == event.ext \in KnownExts

Draftable(event) == event.ext \in KnownExts /\ event.ok

ReceiveEvent ==
    /\ update.at = "receive" /\ buildEvents # <<>>
    /\ update' = IF Draftable(Head(buildEvents))
                 THEN [at |-> "read", event |-> Head(buildEvents), script |-> 0] ELSE NoUpdate
    /\ buildEvents' = Tail(buildEvents)
    /\ UNCHANGED <<edited, builtVersion, drafts, refused, draftFaults>>

ReadOutput ==
    /\ update.at = "read"
    /\ update' = [update EXCEPT !.at = "send", !.script = builtVersion[update.event.ext]]
    /\ UNCHANGED <<edited, builtVersion, buildEvents, drafts, refused, draftFaults>>

SendDraft ==
    /\ update.at = "send"
    /\ LET x == update.event.ext
       IN \/ /\ drafts' = [drafts EXCEPT ![x] = [config |-> update.event.config,
                                                 script |-> update.script]]
             /\ refused' = refused \ {x} /\ UNCHANGED draftFaults
          \/ DraftFault /\ refused' = refused \cup {x} /\ UNCHANGED drafts    \* a warning
    /\ update' = NoUpdate
    /\ UNCHANGED <<edited, builtVersion, buildEvents>>

DraftNext ==
    \/ \E x \in DraftExts : EditExtension(x) \/ BuildExtension(x)
    \/ ReceiveEvent \/ ReadOutput \/ SendDraft

DraftSpec == DraftInit /\ [][DraftNext]_draftVars

-----------------------------------------------------------------------------
(* Properties *)

\* When all events are handled, the draft of an extension is of its last build
\* that succeeded, configuration and script of the same version, though the
\* script was read later; unless the last update was refused, which is not
\* tried again (run_draftable, update_extension_draft).
DraftFollowsBuild ==
    buildEvents = <<>> /\ update = NoUpdate =>
        \A x \in KnownExts \ refused :
            drafts[x] = [config |-> builtVersion[x], script |-> builtVersion[x]]
==============================================================================
