------------------------------ MODULE AppPreview ------------------------------
(***************************************************************************)
(* The preview of UI extensions in `app dev`: dev/extension/mod.rs, the    *)
(* payload store, its broadcast channel and the websocket clients.         *)
(*                                                                         *)
(* Every extension is previewable and has the uuid of its name; the        *)
(* content of a payload is a number.  The events come from the app event   *)
(* watcher (AppWatch), with instances that it loaded itself.               *)
(***************************************************************************)
EXTENDS Naturals, Sequences, SequencesExt

CONSTANTS
    UiExts,          \* extensions of the app when the server starts
    NoUuid,          \* dev_uuid of an instance that nobody gave one
    Clients,         \* websocket connections
    UpdatesCap,      \* capacity of the broadcast channel, 64
    MaxChanges       \* bounds the events and the updates of clients

ASSUME AppPreviewAssumption ==
    NoUuid \notin UiExts /\ UpdatesCap \in Nat \ {0} /\ MaxChanges \in Nat

VARIABLES
    payloads,        \* raw_payload: the content of each extension, and of the app
    served,          \* the extensions that HTTP requests can find, by their uuid
    bundle,          \* the content of each extension's output
    client,          \* the connections: [at, updates, view, lagged]
    changes

previewVars == <<payloads, served, bundle, client, changes>>

App == "app"
Contents == [UiExts \cup {App} -> 0..MaxChanges]
Instances == UiExts \cup {NoUuid}
NoClient == [at |-> "gone", updates |-> <<>>, view |-> [k \in UiExts \cup {App} |-> 0], lagged |-> FALSE]

\* dev_ui_extensions gives the instances it was started with their uuids.
PreviewInit ==
    /\ payloads = [k \in UiExts \cup {App} |-> 0] /\ bundle = payloads
    /\ served = UiExts
    /\ client = [c \in Clients |-> NoClient]
    /\ changes = 0

Change == changes < MaxChanges /\ changes' = changes + 1

-----------------------------------------------------------------------------
(* The broadcast channel *)

Receives(c) == client[c].at # "gone"

\* Mutant: the newest update is lost instead of the oldest, and nobody is told.
FullMutant(ids) ==
    [c \in Clients |->
        IF Receives(c) /\ Len(client[c].updates) < UpdatesCap
        THEN [client[c] EXCEPT !.updates = Append(@, ids)] ELSE client[c]]

\* emit_update: the oldest update is lost to a connection that has too many.
Emitted(ids) ==
    [c \in Clients |->
        IF ~Receives(c) THEN client[c]
        ELSE IF Len(client[c].updates) < UpdatesCap
        THEN [client[c] EXCEPT !.updates = Append(@, ids)]
        ELSE [client[c] EXCEPT !.updates = Append(Tail(@), ids), !.lagged = TRUE]]

-----------------------------------------------------------------------------
(* The events of the app *)

\* ExtensionInstance::new, which the loader and its reloads call.
EventInstance(e) == NoUuid

\* Without a uuid update_extension is an error that is ignored.
UpdateExtension(e) ==
    LET uuid == EventInstance(e) IN
    /\ bundle' = [bundle EXCEPT ![e] = changes']
    /\ IF uuid = NoUuid THEN UNCHANGED <<payloads, client>>
       ELSE payloads' = [payloads EXCEPT ![uuid] = bundle'[e]] /\ client' = Emitted({uuid})

\* handle_app_event: the instances of a reloaded app replace those served.
Reload(e) ==
    /\ Change
    /\ UpdateExtension(e)
    /\ served' = {EventInstance(x) : x \in UiExts}

UpdateSource(e) ==
    /\ Change
    /\ UpdateExtension(e)
    /\ UNCHANGED served

\* delete_extension returns at once without a uuid, and the list keeps what has
\* another uuid than the deleted instance.
DeletePreview(e) ==
    /\ Change
    /\ served' = served \ {EventInstance(e)}
    /\ UNCHANGED <<payloads, bundle, client>>

\* add_extension is the same error, but the instance is listed.
AddPreview(e) ==
    /\ Change
    /\ served' = served \cup {EventInstance(e)}
    /\ UNCHANGED <<payloads, bundle, client>>

-----------------------------------------------------------------------------
(* The clients: handle_ws_socket *)

Subscribe(c) ==
    /\ client[c].at = "gone"
    /\ client' = [client EXCEPT ![c] = [NoClient EXCEPT !.at = "subscribed"]]
    /\ UNCHANGED <<payloads, served, bundle, changes>>

\* get_connected_payload
Greet(c) ==
    /\ client[c].at = "subscribed"
    /\ client' = [client EXCEPT ![c].at = "open", ![c].view = payloads]
    /\ UNCHANGED <<payloads, served, bundle, changes>>

\* An update is answered from the store as it is by then: the app, and those
\* extensions that the update names.
SendUpdate(c) ==
    /\ client[c].at = "open" /\ client[c].updates # <<>>
    /\ LET ids == Head(client[c].updates)
       IN client' = [client EXCEPT
             ![c].updates = Tail(@),
             ![c].view = [k \in DOMAIN @ |-> IF k \in ids \cup {App} THEN payloads[k] ELSE @[k]]]
    /\ UNCHANGED <<payloads, served, bundle, changes>>

\* handle_incoming_message: an "update" changes the store for all clients.
ClientUpdate(c, ids) ==
    /\ client[c].at = "open" /\ Change
    /\ payloads' = [k \in DOMAIN payloads |-> IF k \in ids THEN changes' ELSE payloads[k]]
    /\ client' = Emitted(ids)
    /\ UNCHANGED <<served, bundle>>

CloseClient(c) ==
    /\ client[c].at # "gone"
    /\ client' = [client EXCEPT ![c] = NoClient]
    /\ UNCHANGED <<payloads, served, bundle, changes>>

PreviewNext ==
    \/ \E e \in UiExts : Reload(e) \/ UpdateSource(e) \/ DeletePreview(e) \/ AddPreview(e)
    \/ \E c \in Clients :
          \/ Subscribe(c) \/ Greet(c) \/ SendUpdate(c) \/ CloseClient(c)
          \/ \E ids \in {{App}} \cup {{e} : e \in UiExts} : ClientUpdate(c, ids)

PreviewSpec == PreviewInit /\ [][PreviewNext]_previewVars

-----------------------------------------------------------------------------
(* Properties *)

PreviewTypeOK ==
    /\ payloads \in Contents /\ bundle \in Contents /\ served \subseteq Instances
    /\ \A c \in Clients :
          /\ client[c].at \in {"gone", "subscribed", "open"} /\ client[c].view \in Contents
          /\ Len(client[c].updates) <= UpdatesCap
          /\ client[c].at = "gone" => client[c] = NoClient
    /\ changes \in 0..MaxChanges

\* A connection that has had its updates shows what the store has, whatever was
\* updated while it connected; but for one that was too slow for the channel
\* (handle_ws_socket subscribes before it builds the first payload).
ClientFollowsStore ==
    \A c \in Clients :
        client[c].at = "open" /\ client[c].updates = <<>> /\ ~client[c].lagged
            => client[c].view = payloads

\* "wire hot-reload from `app_watcher`" (dev/extension/mod.rs:82): what is built
\* again is what the clients get.
HotReload ==
    [][\A e \in UiExts : UpdateSource(e) => payloads'[e] = bundle'[e]]_previewVars
==============================================================================
