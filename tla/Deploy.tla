-------------------------------- MODULE Deploy --------------------------------
(***************************************************************************)
(* `shopify app deploy` and `shopify app release`: services/deploy,        *)
(* services/release and the matching of extensions in services/context.    *)
(*                                                                         *)
(* A deploy lists the remote extensions, creates the missing ones, asks    *)
(* for confirmation, and has a version created and released by requests    *)
(* any of which may fail, get no answer, or be the last one that this      *)
(* process makes.  Other developers release versions of the same app.      *)
(***************************************************************************)
EXTENDS Naturals, Sequences, FiniteSets

CONSTANTS
    AppExts,          \* handles of extensions
    WithUid,          \* those whose TOML file has a uid
    ConfigExts,       \* modules of the app's own TOML file (is_app_config)
    MaxVersions       \* bounds the versions of the app

ASSUME DeployAssumption ==
    WithUid \subseteq AppExts /\ ConfigExts \subseteq AppExts /\ MaxVersions \in Nat

VARIABLES
    atomic,           \* supports_atomic_deployments: App Management, else Partners
    deploy,           \* the command that runs, if one does, see NoDeploy
    registered,       \* extensions that Partners has a registration of
    versions,         \* the versions of the app, oldest first: their modules
    active            \* the one that is released

platformVars == <<registered, versions, active>>   \* what the servers keep
deployVars == <<atomic, deploy, platformVars>>

Flags == [updates : BOOLEAN, deletes : BOOLEAN, noRelease : BOOLEAN, tty : BOOLEAN]

NoDeploy == [at |-> "done",
             flags |-> [updates |-> FALSE, deletes |-> FALSE, noRelease |-> FALSE, tty |-> FALSE],
             local |-> {},        \* the extensions on the disk
             config |-> TRUE,     \* include_config_on_deploy
             toCreate |-> {}, onlyRemote |-> {},      \* ExtensionBreakdown
             pending |-> {},      \* registrations it has yet to create
             seen |-> {},         \* what was remote when it looked
             shown |-> {},        \* changes that the user confirmed
             version |-> 0,       \* the version it created or is to release, 0 if not told
             overtaken |-> FALSE, \* another was released since it looked, or since its own
             outcome |-> "none"]  \* what it told the user

\* app_extension_registrations
Remote == IF atomic THEN versions[active] ELSE registered

DeployInit ==
    /\ atomic \in BOOLEAN
    /\ \E on \in SUBSET AppExts, r \in SUBSET AppExts :
          /\ on \subseteq r /\ (atomic => r = on)
          /\ registered = r /\ versions = <<on>>
    /\ active = 1
    /\ deploy = NoDeploy

Step(d) == deploy' = d /\ UNCHANGED atomic
Tell(outcome) == Step([NoDeploy EXCEPT !.outcome = outcome])
NoRequest == UNCHANGED platformVars

-----------------------------------------------------------------------------
(* Matching *)

StartDeploy ==
    /\ deploy.at = "done"
    /\ \E f \in Flags, local \in SUBSET AppExts, all \in BOOLEAN :
          Step([NoDeploy EXCEPT !.at = "list", !.flags = f, !.local = local, !.config = all])
    /\ NoRequest

\* extensions_identifiers_deploy_breakdown: a uid is an id, known remotely or not.
Unmatched(local, remote) == local \ (WithUid \cup remote)

\* automatic_matchmaking is given remote sources without a type: nothing
\* matches, nothing is left to match by hand, and its to_create is dropped.
ManualMatching(toCreate, onlyRemote) == IF onlyRemote = {} THEN toCreate ELSE {}

ListRemote ==
    /\ deploy.at = "list"
    /\ LET onlyRemote == Remote \ deploy.local
           toCreate == ManualMatching(Unmatched(deploy.local, Remote), onlyRemote)
       IN Step([deploy EXCEPT
             !.at = "create", !.seen = Remote,
             !.toCreate = toCreate, !.onlyRemote = onlyRemote,
             !.pending = IF atomic THEN {} ELSE toCreate])
    /\ NoRequest

CreateExtension(e) ==
    /\ deploy.at = "create" /\ e \in deploy.pending
    /\ registered' = registered \cup {e}
    /\ Step([deploy EXCEPT !.pending = @ \ {e}])
    /\ UNCHANGED <<versions, active>>

-----------------------------------------------------------------------------
(* Confirmation *)

\* Mutant: --allow-deletes is taken for --force.
DeletesForceMutant(d) == d.flags.updates \/ d.flags.deletes

\* should_skip_confirmation_prompt; force is both flags.
Skips(d) ==
    \/ d.flags.updates /\ (d.flags.deletes \/ d.onlyRemote = {})
    \/ d.toCreate = {} /\ (d.flags.deletes \/ d.onlyRemote = {})

Confirm ==
    /\ deploy.at = "create" /\ deploy.pending = {}
    /\ \/ Skips(deploy) /\ Step([deploy EXCEPT !.at = "upload"])
       \/ /\ ~Skips(deploy) /\ deploy.flags.tty
          /\ Step([deploy EXCEPT !.at = "upload", !.shown = deploy.toCreate \cup deploy.onlyRemote])
    /\ NoRequest

\* The user says no, or there is nobody to ask.
Decline ==
    /\ deploy.at = "create" /\ deploy.pending = {} /\ ~Skips(deploy)
    /\ Tell("failed")
    /\ NoRequest

-----------------------------------------------------------------------------
(* The version *)

Uploaded ==
    /\ deploy.at = "upload"
    /\ Step([deploy EXCEPT !.at = "version"])
    /\ NoRequest

\* include_on_deploy: the breakdown lists what this leaves out as if it were kept.
Included(d) == IF d.config THEN d.local ELSE d.local \ ConfigExts

\* Partners releases what it creates, App Management has a request for that.
CreateVersion ==
    LET d == deploy
        new == Len(versions) + 1
        released == ~atomic /\ ~d.flags.noRelease
    IN /\ d.at = "version" /\ new <= MaxVersions
       /\ versions' = Append(versions, Included(d))
       /\ active' = IF released THEN new ELSE active
       /\ Step([d EXCEPT !.version = new, !.overtaken = FALSE,
                         !.at = IF atomic /\ ~d.flags.noRelease THEN "release" ELSE "report"])
       /\ UNCHANGED registered

\* An answer without errors that names no version: there is nothing to release.
AnswerNoVersion ==
    /\ deploy.at = "version" /\ atomic
    /\ Step([deploy EXCEPT !.at = "report", !.version = 0])
    /\ NoRequest

\* The version is refused: user errors are reported, and nothing is released.
RefuseVersion ==
    /\ deploy.at = "version"
    /\ Tell("failed")
    /\ NoRequest

ReleaseVersion ==
    /\ deploy.at = "release"
    /\ active' = deploy.version
    /\ Step([deploy EXCEPT !.at = "report", !.overtaken = FALSE])
    /\ UNCHANGED <<registered, versions>>

\* Mutant: the errors of the release are not added to those of the version.
IgnoreRefusalMutant ==
    deploy.at = "release" /\ Step([deploy EXCEPT !.at = "report"]) /\ NoRequest

RefuseRelease ==
    /\ deploy.at = "release"
    /\ Tell("failed")
    /\ NoRequest

\* persist_identifiers and the message.
Report ==
    /\ deploy.at = "report"
    /\ Tell("succeeded")
    /\ NoRequest

Requesting == deploy.at \in {"list", "diff", "upload", "version", "release"}
              \/ (deploy.at = "create" /\ deploy.pending # {})

\* A request fails, or persisting the identifiers does.
FailDeploy ==
    /\ Requesting \/ deploy.at = "report"
    /\ Tell("failed")
    /\ NoRequest

\* The server has done it, but the answer is lost or the process is gone: what
\* the request did stays.  Or the query is sent again.
LoseAnswer ==
    \/ /\ \E e \in deploy.pending : registered' = registered \cup {e}
       /\ deploy.at = "create" /\ Tell("failed") /\ UNCHANGED <<versions, active>>
    \/ /\ deploy.at = "version" /\ Len(versions) < MaxVersions
       /\ versions' = Append(versions, Included(deploy))
       /\ active' = IF ~atomic /\ ~deploy.flags.noRelease THEN Len(versions) + 1 ELSE active
       /\ (Tell("failed") \/ Step([deploy EXCEPT !.version = Len(versions) + 1]))
       /\ UNCHANGED registered
    \/ /\ deploy.at = "release" /\ active' = deploy.version /\ Tell("failed")
       /\ UNCHANGED <<registered, versions>>

-----------------------------------------------------------------------------
(* `shopify app release --version` *)

StartRelease(v) ==
    /\ deploy.at = "done" /\ v \in DOMAIN versions
    /\ \E f \in {g \in Flags : ~g.noRelease} :
          Step([NoDeploy EXCEPT !.at = "diff", !.flags = f, !.local = versions[v],
                                !.version = v])
    /\ NoRequest

\* confirm_release: there is no prompt, in a terminal either.
DiffVersion ==
    LET d == deploy
        now == versions[active]
        removed == now \ d.local
        added == d.local \ now
    IN /\ d.at = "diff"
       /\ \E updated \in BOOLEAN :
             LET changes == added # {} \/ updated
                 agreed == (changes => d.flags.updates) /\ (removed # {} => d.flags.deletes)
             IN IF agreed THEN Step([d EXCEPT !.at = "release", !.seen = now, !.onlyRemote = removed])
                ELSE Tell("failed")
       /\ NoRequest

\* Another developer, or the dashboard, releases a version.
OtherRelease ==
    /\ Len(versions) < MaxVersions
    /\ \E exts \in SUBSET AppExts :
          /\ versions' = Append(versions, exts)
          /\ registered' = registered \cup exts
    /\ active' = Len(versions) + 1
    /\ Step([deploy EXCEPT !.overtaken = TRUE])

DeployNext ==
    \/ StartDeploy \/ ListRemote \/ Confirm \/ Decline
    \/ Uploaded \/ CreateVersion \/ AnswerNoVersion \/ RefuseVersion \/ ReleaseVersion
    \/ RefuseRelease
    \/ Report \/ FailDeploy \/ LoseAnswer \/ DiffVersion \/ OtherRelease
    \/ \E e \in AppExts : CreateExtension(e)
    \/ \E v \in 1..MaxVersions : StartRelease(v)

DeploySpec == DeployInit /\ [][DeployNext]_deployVars

-----------------------------------------------------------------------------
(* Properties *)

DeployTypeOK ==
    /\ registered \subseteq AppExts /\ versions \in Seq(SUBSET AppExts) /\ active \in DOMAIN versions
    /\ deploy.flags \in Flags /\ deploy.outcome \in {"none", "succeeded", "failed"}
    /\ deploy.at \in {"list", "create", "upload", "version", "diff", "release", "report", "done"}
    /\ deploy.at \in {"diff", "release"} => deploy.version \in DOMAIN versions
    /\ deploy.version \in Nat /\ deploy.config \in BOOLEAN
    /\ deploy.pending \subseteq deploy.toCreate /\ deploy.toCreate \subseteq deploy.local
    /\ deploy.onlyRemote \subseteq deploy.seen

\* The command under way releases a version.
Releases == active' # active /\ ~OtherRelease

\* A released version lacks a module of the one before only if the command was
\* allowed to delete, if its user confirmed a list with that module, if another
\* developer released it after the command had looked, or if it is one of the
\* app's own that include_config_on_deploy = false leaves out: those vanish
\* without a flag and without a listing (deploy, release).
LeftOut(d) == d.local \ Included(d)
NothingRemovedUnasked ==
    [][Releases =>
          LET gone == versions[active] \ versions'[active']
          IN deploy.flags.deletes \/ gone \cap deploy.seen \subseteq deploy.shown \cup LeftOut(deploy)]_deployVars

\* "App deployed and released": the version of the command is the released one,
\* unless another was released since, or the platform's answer named none
\* (upload_extensions_bundle, release_version).
ReportedIsReleased ==
    [][deploy.at # "done" /\ deploy'.outcome = "succeeded" /\ ~deploy.flags.noRelease =>
          active = deploy.version \/ deploy.overtaken \/ deploy.version = 0]_deployVars

\* "Returns `Err` in non-TTY mode when there are changes that need a flag"
\* (deploy_release.rs:22): nothing is added to the released version without
\* --allow-updates or a confirmation that lists it, races of developers aside.
AdditionsNeedConsent ==
    [][Releases /\ ~deploy.overtaken =>
          LET new == versions'[active'] \ versions[active]
          IN deploy.flags.updates \/ new \subseteq deploy.shown]_deployVars
===============================================================================
