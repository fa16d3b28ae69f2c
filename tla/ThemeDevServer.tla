--------------------------- MODULE ThemeDevServer ---------------------------
(***************************************************************************)
(* The HTTP side of `shopify theme dev` over the loop of ThemeDev: theme/  *)
(* src/dev.rs render_storefront, render_section, get_in_memory_templates,  *)
(* patch_response, handle_theme_id_mismatch, hot_reload and the shutdown   *)
(* of run_dev_server.  The handlers run on other threads than the loop and *)
(* lock errors, unsynced keys and files one after the other.               *)
(*                                                                         *)
(* A tab renders a page, subscribes to the reload events once it is shown, *)
(* and renders again on every event, as the hot reload client does.        *)
(***************************************************************************)
EXTENDS ThemeDev

CONSTANTS
    Tabs,          \* browser tabs
    FullPage,      \* keys of requires_full_page_reload
    Overlay,       \* --error-overlay is not silent
    Fallbacks,     \* the storefront may answer a rendering with an error
    Mismatches,    \* bound: answers that render another theme
    MaxRedirects,  \* MAX_THEME_ID_MISMATCH_REDIRECTS
    NoPage, ErrorPage

ASSUME ServerAssumption ==
    /\ FullPage \subseteq Keys
    /\ {Overlay, Fallbacks} \subseteq BOOLEAN
    /\ Mismatches \in Nat /\ MaxRedirects \in Nat

VARIABLES
    tab,        \* per tab: closed, what its request waits for, or shown
    seen,       \* per tab: the unsynced keys its request has read
    override,   \* per tab: replace_templates of its request
    page,       \* per tab: the content it shows
    subscribed, \* tabs with a hot-reload stream
    notified,   \* tabs with an unread reload event
    due,        \* per tab: the last content of each file announced to it
    owed,       \* per tab: due when its last request began
    redirects,  \* theme_id_mismatch_redirects
    mismatches, \* answers of another theme so far
    shutdown    \* shutdown_tx has sent true

requestVars == <<tab, seen, override, page, owed>>
streamVars == <<subscribed, notified, due>>
mismatchVars == <<redirects, mismatches>>
httpVars == <<requestVars, streamVars, mismatchVars, shutdown>>
serverVars == <<devVars, httpVars>>

ServerInit ==
    /\ Init
    /\ tab = [t \in Tabs |-> "closed"]
    /\ seen = [t \in Tabs |-> {}]
    /\ override = [t \in Tabs |-> Empty]
    /\ page = [t \in Tabs |-> NoPage]
    /\ subscribed = {} /\ notified = {}
    /\ due = [t \in Tabs |-> Empty]
    /\ owed = [t \in Tabs |-> Empty]
    /\ redirects = 0 /\ mismatches = 0
    /\ shutdown = FALSE

-----------------------------------------------------------------------------
(* The loop: emit_reload and the end of the server *)

\* Mutant: only the local change is announced.
LocalOnlyMutant == loop.at = "marked" /\ loop.key \notin FullPage

\* The step of the loop emits an event for loop.key: "local" as the files
\* change, unless the page has to be reloaded, and "remote" as the key is synced.
Emits ==
    \/ loop.at = "marked" /\ loop' # loop /\ (loop.key \notin FullPage \/ loop' = Idle)
    \/ loop.at = "sent" /\ loop' = Idle

Announce ==
    IF Emits
    THEN /\ notified' = notified \cup subscribed
         /\ due' = [t \in Tabs |-> IF t \in subscribed
                                   THEN [due[t] EXCEPT ![loop.key] = loop.asset] ELSE due[t]]
    ELSE UNCHANGED <<notified, due>>

LoopStep == Loop /\ Announce /\ UNCHANGED <<requestVars, subscribed, mismatchVars, shutdown>>

\* The select listens anew in each round: while the loop handles an event or a
\* poll, Ctrl+C is heard by nobody.
CtrlC ==
    /\ loop = Idle /\ ~ shutdown
    /\ shutdown' = TRUE
    /\ UNCHANGED <<devVars, requestVars, streamVars, mismatchVars>>

\* Mutant: the shutdown is not awaited by the server.
NeverDrainedMutant == FALSE

\* Graceful shutdown: the server ends with its last connection, and the
\* hot-reload streams are connections that never end by themselves.
Drained == shutdown /\ \A t \in Tabs : tab[t] = "closed"

ServerEnds ==
    /\ loop = Idle /\ Drained
    /\ loop' = Stopped
    /\ UNCHANGED <<worldVars, watchVars, stateVars, pollVars, httpVars>>

-----------------------------------------------------------------------------
(* The browser and the rendering handlers *)

Serving == loop # Stopped /\ ~ shutdown
Moves(t, from, to) == tab[t] = from /\ tab' = [tab EXCEPT ![t] = to]

\* A request begins; its page is the error overlay when an upload was rejected.
Request(t) ==
    /\ Serving
    /\ \/ tab[t] \in {"closed", "redirected"} /\ UNCHANGED notified
       \/ tab[t] = "shown" /\ t \in notified /\ notified' = notified \ {t}
    /\ owed' = [owed EXCEPT ![t] = due[t]]
    /\ IF Overlay /\ errors # {}
       THEN tab' = [tab EXCEPT ![t] = "shown"] /\ page' = [page EXCEPT ![t] = ErrorPage]
       ELSE tab' = [tab EXCEPT ![t] = "checked"] /\ UNCHANGED page
    /\ UNCHANGED <<devVars, seen, override, subscribed, due, mismatchVars, shutdown>>

ReadUnsynced(t) ==
    /\ loop # Stopped
    /\ Moves(t, "checked", "read")
    /\ seen' = [seen EXCEPT ![t] = unsynced]
    /\ UNCHANGED <<devVars, override, page, owed, streamVars, mismatchVars, shutdown>>

\* get_in_memory_templates: a key that has gone is replaced by nothing.
Replaced(t) == [k \in Keys |-> IF k \in seen[t] THEN files[k] ELSE 0]

ReadFiles(t) ==
    /\ loop # Stopped
    /\ Moves(t, "read", "sent")
    /\ override' = [override EXCEPT ![t] = Replaced(t)]
    /\ UNCHANGED <<devVars, seen, page, owed, streamVars, mismatchVars, shutdown>>

Show(t, content) ==
    /\ Moves(t, "sent", "shown")
    /\ page' = [page EXCEPT ![t] = content]
    /\ seen' = [seen EXCEPT ![t] = {}]
    /\ override' = [override EXCEPT ![t] = Empty]
    /\ UNCHANGED <<devVars, owed, streamVars, shutdown>>

\* Mutant: the templates of the rendering are not replaced.
NoOverrideMutant(t) == remote

Rendering(t) == [k \in Keys |-> IF k \in seen[t] THEN override[t][k] ELSE remote[k]]

Rendered(t) ==
    /\ loop # Stopped
    /\ Show(t, Rendering(t))
    /\ redirects' = 0
    /\ UNCHANGED mismatches

\* A 4xx is tried again as a plain proxy request, which replaces no template;
\* no answer at all is an error page.
RenderFailed(t) ==
    /\ loop # Stopped /\ Fallbacks
    /\ Show(t, remote) \/ Show(t, ErrorPage)
    /\ UNCHANGED mismatchVars

\* The page is of another theme: the session is refreshed and the browser sent
\* to the page again, until it has been too often or the refresh fails.
Mismatch(t) ==
    /\ loop # Stopped /\ mismatches < Mismatches
    /\ mismatches' = mismatches + 1
    /\ redirects' = redirects + 1
    /\ \/ /\ redirects' <= MaxRedirects
          /\ Moves(t, "sent", "redirected")
          /\ seen' = [seen EXCEPT ![t] = {}]
          /\ override' = [override EXCEPT ![t] = Empty]
          /\ UNCHANGED <<devVars, page, owed, streamVars, shutdown>>
       \/ Show(t, ErrorPage)

\* The page has loaded its script, which opens the event stream.
Subscribe(t) ==
    /\ Serving
    /\ tab[t] = "shown" /\ t \notin subscribed
    /\ subscribed' = subscribed \cup {t}
    /\ UNCHANGED <<devVars, requestVars, notified, due, mismatchVars, shutdown>>

Close(t) ==
    /\ tab[t] # "closed"
    /\ tab' = [tab EXCEPT ![t] = "closed"]
    /\ seen' = [seen EXCEPT ![t] = {}]
    /\ override' = [override EXCEPT ![t] = Empty]
    /\ page' = [page EXCEPT ![t] = NoPage]
    /\ owed' = [owed EXCEPT ![t] = Empty]
    /\ due' = [due EXCEPT ![t] = Empty]
    /\ subscribed' = subscribed \ {t}
    /\ notified' = notified \ {t}
    /\ UNCHANGED <<devVars, mismatchVars, shutdown>>

Handler(t) == ReadUnsynced(t) \/ ReadFiles(t) \/ Rendered(t)
Browser(t) == Request(t) \/ Subscribe(t) \/ Close(t)

ServerNext ==
    \/ (Edit \/ Watch) /\ UNCHANGED httpVars
    \/ LoopStep \/ CtrlC \/ ServerEnds
    \/ \E t \in Tabs : Handler(t) \/ RenderFailed(t) \/ Mismatch(t) \/ Browser(t)

ServerSpec == ServerInit /\ [][ServerNext]_serverVars

\* The loop and the handlers go on, and a tab acts on the events it receives.
ServerFairness ==
    /\ WF_serverVars(Watch /\ UNCHANGED httpVars)
    /\ WF_serverVars(LoopStep) /\ WF_serverVars(ServerEnds)
    /\ \A t \in Tabs : WF_serverVars(Handler(t) \/ (tab[t] # "closed" /\ Request(t)))

FairServerSpec == ServerSpec /\ ServerFairness

-----------------------------------------------------------------------------
(* Properties *)

ServerTypeOK ==
    /\ tab \in [Tabs -> {"closed", "checked", "read", "sent", "redirected", "shown"}]
    /\ seen \in [Tabs -> SUBSET Keys]
    /\ override \in [Tabs -> Contents]
    /\ page \in [Tabs -> Contents \cup {NoPage, ErrorPage}]
    /\ notified \subseteq subscribed /\ subscribed \subseteq {t \in Tabs : tab[t] # "closed"}
    /\ due \in [Tabs -> Contents] /\ owed \in [Tabs -> Contents]
    /\ redirects \in 0..Mismatches /\ mismatches \in 0..Mismatches
    /\ shutdown \in BOOLEAN

Covers(content, promised) ==
    \/ content = ErrorPage
    \/ \A k \in Keys : promised[k] # 0 => content[k] = 0 \/ content[k] >= promised[k]

\* A rendering is never older than what was announced to its tab before the
\* request, though the handler reads the unsynced keys, the files and the theme
\* at three different moments: a key leaves unsynced only after the theme has
\* the file, or its rejection is in the error overlay.  With --theme-editor-sync
\* a poll may take back an edit that was announced and then rejected: there it
\* holds only without rejections.
RenderFresh ==
    [][\A t \in Tabs : Rendered(t) =>
         Covers([k \in Keys |-> IF k \in errors THEN 0 ELSE Rendering(t)[k]], owed[t])]_serverVars

\* A subscribed tab ends up with a page that has everything announced to it, or
\* the error overlay, also when an upload is rejected between two reads of its
\* request or a rendering falls back to the plain theme.
TabCatchesUp ==
    <>[](loop = Stopped \/ shutdown
         \/ \A t \in Tabs : tab[t] = "shown" => Covers(page[t], due[t]))

\* After a Ctrl+C that the select has heard the server ends, provided every tab
\* is closed.
EndsWhenClosed == [](shutdown /\ [](\A t \in Tabs : tab[t] = "closed") => <>(loop = Stopped))

=============================================================================
