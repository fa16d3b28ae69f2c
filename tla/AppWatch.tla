------------------------------ MODULE AppWatch ------------------------------
(***************************************************************************)
(* `shopify app dev` turning edits of the app's directory into builds and  *)
(* events: app_events/file_watcher.rs (the debounced watcher),             *)
(* app_event_watcher_handler.rs and app_diffing.rs (what a batch means),   *)
(* and app_event_watcher.rs (reload, build, notify the listeners).         *)
(*                                                                         *)
(* The content of a file is the number n of the edit that wrote it, -n if  *)
(* it does not parse (a toml) or build (a source), 0 if it does not exist. *)
(* An extension (a UI extension: no other is built) is its shopify.        *)
(* extension.toml, one source file, and dist/<handle>.js if the developer  *)
(* has a tool that makes one.                                              *)
(***************************************************************************)
EXTENDS Integers, Sequences, FiniteSets, SequencesExt

CONSTANTS
    Exts,        \* extensions that may ever exist
    Initial,     \* those loaded when `app dev` starts
    MaxEdits,    \* bound: edits of the developer
    EditKinds,   \* bound: what the developer does
    InboxCap,    \* bound: events the session has not taken
    WatchFails   \* the operating system's watcher may report an error

ASSUME AppWatchAssumption ==
    /\ IsFiniteSet(Exts) /\ Initial \subseteq Exts
    /\ MaxEdits \in Nat /\ InboxCap \in Nat \ {0}
    /\ EditKinds \subseteq {"source", "dist", "config", "create", "delete", "app", "dropApp"}
    /\ WatchFails \in BOOLEAN

VARIABLES
    toml, source, dist,  \* the files of each extension
    appToml,         \* the active app configuration
    edits,
    phase,           \* how far AppEventWatcher::start and the watcher's thread are
    echoes,          \* extensions whose directory a build wrote to, unreported yet
    notices,         \* rx: file system events, classified
    pending,         \* FileWatcher.pending
    batches,         \* tx_fw to rx
    app,             \* AppEventWatcher.app: the extensions' configurations, 0 if not in the app
    built,           \* the dev bundle: the source each output was built from
    listening,       \* the session's callback is among the listeners
    inbox,           \* the events it has been called with
    unseen,          \* ghost: extensions with a configuration edit nobody will look at
    unbuilt          \* ghost: extensions with a source edit nobody will build

diskVars == <<toml, source, dist, appToml, edits>>
threadVars == <<phase, echoes, notices, pending>>
listenVars == <<listening, inbox>>
ghostVars == <<unseen, unbuilt>>
watchVars == <<diskVars, threadVars, batches, app, built, listenVars, ghostVars>>

Contents == [Exts -> -(MaxEdits + 1)..(MaxEdits + 1)]
Parsed(content) == IF content > 0 THEN content ELSE 0

WatcherEvent == [kind : {"source", "config", "created", "deleted"}, ext : Exts]
                \cup [kind : {"app", "appDeleted"}]
On(kind, e) == [kind |-> kind, ext |-> e]
AppEvent == [app : Contents, deleted : SUBSET Exts, updated : SUBSET Exts, failed : SUBSET Exts]
Changed(event) == event.deleted \cup event.updated

WatchInit ==
    /\ toml = [e \in Exts |-> IF e \in Initial THEN 1 ELSE 0]
    /\ source = toml /\ dist = [e \in Exts |-> 0] /\ appToml = 1 /\ edits = 1
    /\ phase = "starting" /\ echoes = {} /\ notices = <<>> /\ pending = <<>> /\ batches = <<>>
    /\ app = toml
    /\ built = [e \in Exts |-> 0]
    /\ listening = FALSE /\ inbox = <<>>
    /\ unseen = {} /\ unbuilt = Initial

-----------------------------------------------------------------------------
(* The developer.  The watcher classifies a path by the extensions that    *)
(* existed when it started.                                                *)

Edit(kind) == kind \in EditKinds /\ edits <= MaxEdits /\ edits' = edits + 1
Wrote == {edits', -edits'}

\* The file system reports `events` to the watcher, if it watches.
Notify(events, config, sources) ==
    /\ notices' = IF phase = "watching" THEN notices \o events ELSE notices
    /\ unseen' = IF phase = "watching" THEN unseen ELSE unseen \cup config
    /\ unbuilt' = IF phase = "watching" THEN unbuilt ELSE unbuilt \cup sources
    /\ UNCHANGED <<phase, echoes, pending, batches, app, built, listenVars>>

\* What the watcher makes of a change of e other than its toml's birth or death.
Known(kind, e) == IF e \in Initial THEN <<On(kind, e)>> ELSE <<>>

\* The source or dist/<handle>.js is written, or goes.
EditSource(e) ==
    /\ \/ /\ Edit("source")
          /\ \E content \in Wrote \cup {0} : source' = [source EXCEPT ![e] = content]
          /\ source' # source /\ UNCHANGED dist
       \/ /\ Edit("dist")
          /\ \E content \in {edits', 0} : dist' = [dist EXCEPT ![e] = content]
          /\ dist' # dist /\ UNCHANGED source
    /\ IF e \in Initial \/ phase # "watching"
       THEN Notify(Known("source", e), {}, {e})
       ELSE /\ unbuilt' = unbuilt \cup {e}
            /\ UNCHANGED <<threadVars, batches, app, built, listenVars, unseen>>
    /\ UNCHANGED <<toml, appToml>>

EditConfig(e) ==
    /\ toml[e] # 0 /\ Edit("config")
    /\ \E content \in Wrote : toml' = [toml EXCEPT ![e] = content]
    /\ IF e \in Initial \/ phase # "watching"
       THEN Notify(Known("config", e), {e}, {})
       ELSE /\ unseen' = unseen \cup {e}
            /\ UNCHANGED <<threadVars, batches, app, built, listenVars, unbuilt>>
    /\ UNCHANGED <<source, dist, appToml>>

\* The toml appears, and maybe the source at the same time, reported in either
\* order; otherwise the source is there already, or EditSource writes it later.
\* The toml may be the one the extension started with, as when git restores it.
CreateExtension(e) ==
    /\ toml[e] = 0 /\ Edit("create")
    /\ \E content \in {edits'} \cup (IF e \in Initial THEN {1} ELSE {}) :
           toml' = [toml EXCEPT ![e] = content]
    /\ \/ UNCHANGED source /\ Notify(<<On("created", e)>>, {e}, {e})
       \/ /\ source' = [source EXCEPT ![e] = edits']
          /\ \/ Notify(<<On("created", e)>> \o Known("source", e), {e}, {e})
             \/ Notify(Known("source", e) \o <<On("created", e)>>, {e}, {e})
    /\ UNCHANGED <<dist, appToml>>

\* The toml goes, alone or with the whole directory.
DeleteExtension(e) ==
    /\ toml[e] # 0 /\ Edit("delete")
    /\ toml' = [toml EXCEPT ![e] = 0]
    /\ \/ UNCHANGED <<source, dist>> /\ Notify(<<On("deleted", e)>>, {e}, {})
       \/ /\ source' = [source EXCEPT ![e] = 0]
          /\ dist' = [dist EXCEPT ![e] = 0]
          /\ \/ Notify(<<On("deleted", e)>> \o Known("source", e), {e}, {})
             \/ Notify(Known("source", e) \o <<On("deleted", e)>>, {e}, {})
    /\ UNCHANGED appToml

EditApp ==
    /\ Edit("app")
    /\ appToml' \in {1, -1}
    /\ Notify(<<[kind |-> "app"]>>, {}, {})
    /\ UNCHANGED <<toml, source, dist>>

DeleteApp ==
    /\ appToml # 0 /\ Edit("dropApp")
    /\ appToml' = 0
    /\ Notify(<<[kind |-> "appDeleted"]>>, {}, {})
    /\ UNCHANGED <<toml, source, dist>>

Developer ==
    \/ \E e \in Exts : EditSource(e) \/ EditConfig(e) \/ CreateExtension(e) \/ DeleteExtension(e)
    \/ EditApp \/ DeleteApp

-----------------------------------------------------------------------------
(* The watcher's thread *)

\* build_ui_extension has written <ext>/dist/index.js, which is a file of a
\* directory that is watched; an output left as it was is not reported.
Echo(e) ==
    /\ phase = "watching" /\ e \in echoes
    /\ echoes' = echoes \ {e}
    /\ notices' = Append(notices, On("source", e)) \/ UNCHANGED notices
    /\ UNCHANGED <<diskVars, phase, pending, batches, app, built, listenVars, ghostVars>>

Buffered(event) == IF Contains(pending, event) THEN pending ELSE Append(pending, event)

\* rx.recv_timeout returned an event; 200 ms may have passed since the last batch.
TakeNotice ==
    /\ phase = "watching" /\ notices # <<>>
    /\ notices' = Tail(notices)
    /\ LET buffer == Buffered(Head(notices)) IN
       \/ pending' = buffer /\ UNCHANGED batches
       \/ pending' = <<>> /\ batches' = Append(batches, buffer)
    /\ UNCHANGED <<diskVars, phase, echoes, app, built, listenVars, ghostVars>>

\* Mutant: a batch is only sent when another event comes.
FlushNeverMutant ==
    /\ phase = "watching" /\ notices # <<>> /\ pending # <<>>
    /\ pending' = <<>>
    /\ batches' = Append(batches, pending)
    /\ UNCHANGED <<diskVars, phase, echoes, notices, app, built, listenVars, ghostVars>>

\* It timed out.
FlushPending ==
    /\ phase = "watching" /\ notices = <<>> /\ pending # <<>>
    /\ pending' = <<>>
    /\ batches' = Append(batches, pending)
    /\ UNCHANGED <<diskVars, phase, echoes, notices, app, built, listenVars, ghostVars>>

\* Any error of the operating system's watcher ends the thread.
WatchError ==
    /\ WatchFails /\ phase = "watching"
    /\ phase' = "dead"
    /\ UNCHANGED <<diskVars, echoes, notices, pending, batches, app, built, listenVars, ghostVars>>

-----------------------------------------------------------------------------
(* The app event watcher *)

Present(a) == {e \in Exts : a[e] # 0}

\* What default_build takes: an existing dist/<handle>.js is copied.
Input(e) == IF dist[e] # 0 THEN dist[e] ELSE source[e]
Stub == -1

\* Mutant: an output that exists is not built again.
SkipBuiltMutant(S) == [e \in Exts |-> IF e \in S /\ Input(e) > 0 /\ built[e] = 0 THEN Input(e) ELSE built[e]]

\* build_extensions: an output is replaced by what its input builds to; the
\* first failing build leaves a stub.
Builds(S) == [e \in Exts |-> IF e \in S /\ Input(e) > 0 THEN Input(e)
                             ELSE IF e \in S /\ built[e] = 0 THEN Stub ELSE built[e]]
Fails(S) == {e \in S : Input(e) <= 0}

\* The builds that write to a directory the watcher watches.
Echoing(S) == IF phase = "watching" THEN {e \in S \cap Initial : dist[e] = 0} ELSE {}

InitialBuild ==
    /\ phase = "starting"
    /\ phase' = "built"
    /\ built' = Builds(Present(app))
    /\ unbuilt' = unbuilt \ Present(app)
    /\ UNCHANGED <<diskVars, echoes, notices, pending, batches, app, listenVars, unseen>>

StartWatching ==
    /\ phase = "built"
    /\ phase' = "watching"
    /\ UNCHANGED <<diskVars, echoes, notices, pending, batches, app, built, listenVars, ghostVars>>

Has(batch, kind) == \E i \in DOMAIN batch : batch[i].kind = kind
Named(batch, kind) == {e \in Exts : Contains(batch, On(kind, e))}

Reloads(batch) == Has(batch, "app") \/ Has(batch, "config") \/ Has(batch, "created")

\* load_app: extensions whose toml does not parse are left out.
Loads == appToml = 1

\* Mutant: extensions already in the app are not read again.
NewOnlyMutant == [e \in Exts |-> IF app[e] # 0 THEN app[e] ELSE Parsed(toml[e])]

Loaded == [e \in Exts |-> Parsed(toml[e])]

\* reload_app_handler: what app_diff says.  The other events of the batch are ignored.
ReloadEvent ==
    LET changed == {e \in Present(Loaded) : app[e] # Loaded[e]} IN
    [app |-> Loaded, deleted |-> Present(app) \ Present(Loaded),
     updated |-> changed, failed |-> Fails(changed)]

\* Every partial event starts from the same app, and the last one's app wins.
FileEvent(batch) ==
    LET updated == Named(batch, "source") \cap Present(app) IN
    [app |-> IF Last(batch).kind = "deleted"
             THEN [app EXCEPT ![Last(batch).ext] = 0] ELSE app,
     deleted |-> Named(batch, "deleted") \cap Present(app),
     updated |-> updated, failed |-> Fails(updated)]

Rejected(batch) ==
    IF Reloads(batch) THEN ~Loads ELSE Has(batch, "appDeleted")

\* The rest of process_events: build, drop the outputs of what was deleted, notify.
Publish(event) ==
    /\ app' = event.app
    /\ built' = [e \in Exts |-> IF e \in event.deleted THEN 0 ELSE Builds(event.updated)[e]]
    /\ echoes' = echoes \cup Echoing(event.updated)
    /\ inbox' = IF listening THEN Append(inbox, event) ELSE inbox
    /\ UNCHANGED listening

ReloadBatch(batch) ==
    /\ Reloads(batch) /\ Loads
    /\ Publish(ReloadEvent)
    /\ unseen' = {}
    /\ unbuilt' = (unbuilt \cup Named(batch, "source")) \ ReloadEvent.updated

FileBatch(batch) ==
    /\ ~Reloads(batch) /\ ~Rejected(batch)
    /\ Publish(FileEvent(batch))
    /\ LET kept == {e \in FileEvent(batch).deleted : app'[e] # 0} IN
       /\ unseen' = unseen \cup kept
       /\ unbuilt' = (unbuilt \ FileEvent(batch).updated) \cup kept

\* The error goes to error_listeners; there are none.
RejectedBatch(batch) ==
    /\ Rejected(batch)
    /\ unseen' = unseen \cup Named(batch, "config") \cup Named(batch, "created") \cup Named(batch, "deleted")
    /\ unbuilt' = unbuilt \cup Named(batch, "source") \cup Named(batch, "created")
    /\ UNCHANGED <<echoes, app, built, listenVars>>

ProcessBatch ==
    /\ batches # <<>> /\ Len(inbox) < InboxCap
    /\ batches' = Tail(batches)
    /\ ReloadBatch(Head(batches)) \/ FileBatch(Head(batches)) \/ RejectedBatch(Head(batches))
    /\ UNCHANGED <<diskVars, phase, notices, pending>>

Watcher == (\E e \in Exts : Echo(e)) \/ TakeNotice \/ FlushPending \/ WatchError
Pipeline == InitialBuild \/ StartWatching \/ ProcessBatch

WatchNext == Developer \/ Watcher \/ Pipeline
WatchSpec == WatchInit /\ [][WatchNext]_watchVars

-----------------------------------------------------------------------------
(* Properties *)

WatchTypeOK ==
    /\ toml \in Contents /\ source \in Contents /\ dist \in Contents /\ appToml \in -1..1
    /\ edits \in 1..(MaxEdits + 1)
    /\ phase \in {"starting", "built", "watching", "dead"} /\ echoes \subseteq Initial
    /\ notices \in Seq(WatcherEvent) /\ pending \in Seq(WatcherEvent)
    /\ \A i \in DOMAIN batches : batches[i] \in Seq(WatcherEvent) /\ IsInjective(batches[i])
    /\ app \in Contents /\ built \in Contents
    /\ listening \in BOOLEAN /\ Len(inbox) <= InboxCap /\ \A i \in DOMAIN inbox : inbox[i] \in AppEvent
    /\ unseen \subseteq Exts /\ unbuilt \subseteq Exts

\* Nothing the watcher was told of is still on its way.
Quiet == phase = "watching" /\ notices = <<>> /\ pending = <<>> /\ batches = <<>>

\* Debouncing, batching and partial reloads lose no configuration edit but
\* those made before the watcher runs, of extensions it does not know, in
\* batches that do not load, and deletions another event of their batch undoes.
\* The bundle has the latest source of every extension of the app (or the
\* latest dist/<handle>.js, whatever its sources became), but for sources that
\* do not build and the edits named in `unbuilt`: those made before the watcher
\* runs, of extensions it does not know, or reported in the same batch as a
\* configuration change.
BundleFollowsDisk ==
    Quiet =>
        /\ appToml = 1 => \A e \in Exts \ unseen : app[e] = Parsed(toml[e])
        /\ \A e \in Present(app) \ unbuilt : Input(e) > 0 => built[e] = Input(e)

\* app_event_watcher_handler.rs's test folder_delete_removes_extension: the
\* app of an event for a deleted extension no longer has the extension.
DeletedLeavesApp ==
    [][\A e \in Exts :
         batches # <<>> /\ batches' = Tail(batches)
            /\ Contains(Head(batches), On("deleted", e))
            /\ ~Reloads(Head(batches)) /\ ~Rejected(Head(batches))
         => app'[e] = 0]_watchVars
=============================================================================
