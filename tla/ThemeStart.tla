------------------------------ MODULE ThemeStart ------------------------------
(***************************************************************************)
(* How `shopify theme dev` begins (cli-kit/src/commands/theme.rs and       *)
(* theme/src/dev.rs): the files are scanned; with --theme-editor-sync the  *)
(* JSON files are reconciled as the user chooses; the theme is pushed to;  *)
(* the watcher starts, and the theme is listed once more.  Developer and   *)
(* merchant go on editing.  ThemeDev begins where this module ends; the    *)
(* push itself, with its batches and retries, is ThemePush.                *)
(*                                                                         *)
(* The content of a file is a number, 0 if it does not exist.              *)
(***************************************************************************)
EXTENDS Naturals

CONSTANTS
    StartFiles,
    JsonFiles,         \* the files that --theme-editor-sync reconciles
    MaxStartEdits,     \* bounds the edits of developer and merchant
    MaxStartMishaps    \* bounds what a request does not do, and failed requests

ASSUME ThemeStartAssumption ==
    JsonFiles \subseteq StartFiles /\ {MaxStartEdits, MaxStartMishaps} \subseteq Nat

VARIABLES
    working,      \* content of each file of the working copy
    devTheme,     \* content of each file of the remote theme
    start,        \* the command, see StartInit
    startEdits, startMishaps

startVars == <<working, devTheme, start, startEdits, startMishaps>>

NoFiles == [k \in StartFiles |-> 0]
Sides == {"local", "remote"}          \* ReconciliationChoice

StartInit ==
    /\ working \in [StartFiles -> 0..2] /\ devTheme \in [StartFiles -> 0..2]
    /\ start \in [at : {"scan"}, sync : BOOLEAN, nodelete : BOOLEAN,
                  files : {NoFiles},        \* ThemeFileSystem.files
                  scanned : {NoFiles},      \* ghost: the same, as scanned
                  listed : {NoFiles},       \* the checksums of the last listing
                  compared : {NoFiles},     \* ghost: those that the diff was made of
                  choice : {NoFiles},       \* the side chosen for each file
                  remove : {{}}, download : {{}}, delete : {{}},  \* the plan under way
                  upload : {{}},            \* PushPlan.upload; its delete is `delete'
                  refused : {{}},           \* what requests did not do
                  edited : {[here |-> {}, there |-> {}, late |-> {}]}]  \* ghost: by whom
    /\ startEdits = 0 /\ startMishaps = 0

StartMishap == startMishaps < MaxStartMishaps /\ startMishaps' = startMishaps + 1
Undisturbed == UNCHANGED <<startEdits, startMishaps>>
Proceed(at) == start' = [start EXCEPT !.at = at]

-----------------------------------------------------------------------------
(* The scan, and the reconciliation of JSON files *)

\* build_dev_filesystem
ScanWorking ==
    /\ start.at = "scan"
    /\ start' = [start EXCEPT !.at = IF start.sync THEN "compare" ELSE "plan",
                              !.files = working, !.scanned = working, !.edited.here = {}]
    /\ UNCHANGED <<working, devTheme>> /\ Undisturbed

CompareThemes ==
    /\ start.at = "compare"
    /\ start' = [start EXCEPT !.at = "prompt", !.listed = devTheme, !.compared = devTheme,
                              !.edited.there = {}]
    /\ UNCHANGED <<working, devTheme>> /\ Undisturbed

\* JsonReconciliationDiff
LocalOnly == {k \in JsonFiles : start.files[k] # 0 /\ start.listed[k] = 0}
RemoteOnly == {k \in JsonFiles : start.files[k] = 0 /\ start.listed[k] # 0}
Conflicts == {k \in JsonFiles : 0 \notin {start.files[k], start.listed[k]}
                                /\ start.files[k] # start.listed[k]}

\* The user is asked about each of the three kinds of files; --nodelete keeps
\* local files without a question.
ChooseSides(local, remote, conflict) ==
    /\ start.at = "prompt"
    /\ start.nodelete => local = "local"
    /\ LET choice == [k \in StartFiles |->
                         IF k \in LocalOnly THEN local ELSE IF k \in RemoteOnly THEN remote
                         ELSE IF k \in Conflicts THEN conflict ELSE "local"]
           Chosen(files, side) == {k \in files : choice[k] = side}
       IN start' = [start EXCEPT !.at = "apply", !.choice = choice,
                        !.remove = Chosen(LocalOnly, "remote"),
                        !.download = Chosen(RemoteOnly \cup Conflicts, "remote"),
                        !.delete = Chosen(RemoteOnly, "local")]
    /\ UNCHANGED <<working, devTheme>> /\ Undisturbed

\* apply_json_reconciliation: first the local deletions,
RemoveLocal(k) ==
    /\ start.at = "apply" /\ k \in start.remove
    /\ working' = [working EXCEPT ![k] = 0]
    /\ start' = [start EXCEPT !.files[k] = 0, !.remove = @ \ {k}]
    /\ UNCHANGED devTheme /\ Undisturbed

\* Mutant: what was downloaded is written to the disk only.
DiskOnlyMutant(k) ==
    /\ start.at = "apply" /\ start.remove = {} /\ k \in start.download /\ devTheme[k] # 0
    /\ start' = [start EXCEPT !.download = @ \ {k}]
    /\ working' = [working EXCEPT ![k] = devTheme[k]]
    /\ UNCHANGED devTheme /\ Undisturbed

\* then the downloads: a file that the answer lacks is not written, and nobody
\* is told,
DownloadRemote(k) ==
    /\ start.at = "apply" /\ start.remove = {} /\ k \in start.download
    /\ \/ /\ devTheme[k] # 0
          /\ working' = [working EXCEPT ![k] = devTheme[k]]
          /\ start' = [start EXCEPT !.files[k] = devTheme[k], !.download = @ \ {k}]
          /\ Undisturbed
       \/ /\ IF devTheme[k] = 0 THEN UNCHANGED startMishaps ELSE StartMishap
          /\ start' = [start EXCEPT !.refused = @ \cup {k}, !.download = @ \ {k}]
          /\ UNCHANGED <<working, startEdits>>
    /\ UNCHANGED devTheme

\* and the deletions, whose results are dropped.  The theme does what an entry
\* of a request asks for, or refuses to.
Request(k, content, then) ==
    \/ /\ devTheme' = [devTheme EXCEPT ![k] = content] /\ start' = then
       /\ UNCHANGED startMishaps
    \/ /\ StartMishap /\ start' = [then EXCEPT !.refused = @ \cup {k}]
       /\ UNCHANGED devTheme

DeleteRemote(k) ==
    /\ start.at \in {"apply", "push"} /\ start.remove \cup start.download \cup start.upload = {}
    /\ k \in start.delete
    /\ Request(k, 0, [start EXCEPT !.delete = @ \ {k}])
    /\ UNCHANGED <<working, startEdits>>

\* The listing that apply_json_reconciliation returns is dropped as well.
Reconciled ==
    /\ start.at = "apply" /\ start.remove \cup start.download \cup start.delete = {}
    /\ Proceed("plan")
    /\ UNCHANGED <<working, devTheme>> /\ Undisturbed

-----------------------------------------------------------------------------
(* push_initial, and the start of the server *)

\* Mutant: the push is planned with the listing that the diff was made of.
OldListingMutant == IF start.sync THEN start.listed ELSE devTheme

\* push lists the theme anew.
Listing == devTheme

PlanInitialPush ==
    /\ start.at = "plan"
    /\ LET local == start.files
       IN start' = [start EXCEPT !.at = "push", !.listed = Listing,
             !.upload = {k \in StartFiles : local[k] \notin {0, Listing[k]}},
             !.delete = IF start.nodelete THEN {}
                        ELSE {k \in StartFiles : local[k] = 0 /\ Listing[k] # 0},
             !.edited.late = {}]
    /\ UNCHANGED <<working, devTheme>> /\ Undisturbed

UploadLocal(k) ==
    /\ start.at = "push" /\ k \in start.upload
    /\ Request(k, start.files[k], [start EXCEPT !.upload = @ \ {k}])
    /\ UNCHANGED <<working, startEdits>>

\* Files that were refused are shown and nothing else; the session is made, the
\* watcher starts, and with --theme-editor-sync the theme is listed: the
\* baseline of the polls.
StartServer ==
    /\ start.at = "push" /\ start.upload \cup start.delete = {}
    /\ Proceed(IF start.sync THEN "baseline" ELSE "running")
    /\ UNCHANGED <<working, devTheme>> /\ Undisturbed

ListBaseline ==
    /\ start.at = "baseline"
    /\ start' = [start EXCEPT !.at = "running", !.listed = devTheme]
    /\ UNCHANGED <<working, devTheme>> /\ Undisturbed

\* A request fails altogether, or there is no terminal to ask the user on.
FailStart ==
    /\ start.at \notin {"scan", "running", "failed"} /\ StartMishap
    /\ Proceed("failed")
    /\ UNCHANGED <<working, devTheme, startEdits>>

-----------------------------------------------------------------------------

EditDuringStart == startEdits < MaxStartEdits /\ startEdits' = startEdits + 1

\* Once the watcher runs, it sees the developer's edits.
EditWorking(k) ==
    /\ start.at \notin {"scan", "baseline", "running", "failed"} /\ EditDuringStart
    /\ working' \in {[working EXCEPT ![k] = c] : c \in {0, 2 + startEdits'}}
    /\ start' = [start EXCEPT !.edited.here = @ \cup {k}]
    /\ UNCHANGED <<devTheme, startMishaps>>

EditDevTheme(k) ==
    /\ start.at \notin {"scan", "running", "failed"} /\ EditDuringStart
    /\ devTheme' \in {[devTheme EXCEPT ![k] = c] : c \in {0, 2 + startEdits'}}
    /\ start' = [start EXCEPT !.edited.there = @ \cup {k},
                              !.edited.late = @ \cup {k}]
    /\ UNCHANGED <<working, startMishaps>>

StartNext ==
    \/ ScanWorking \/ CompareThemes \/ Reconciled \/ PlanInitialPush
    \/ StartServer \/ ListBaseline \/ FailStart
    \/ \E local, remote, conflict \in Sides : ChooseSides(local, remote, conflict)
    \/ \E k \in StartFiles :
          \/ RemoveLocal(k) \/ DownloadRemote(k) \/ DeleteRemote(k) \/ UploadLocal(k)
          \/ EditWorking(k) \/ EditDevTheme(k)

StartSpec == StartInit /\ [][StartNext]_startVars

-----------------------------------------------------------------------------
(* Properties *)

Began == start.at = "running"

\* What nobody edited since the listing that the user was asked about is as the
\* user decided, on both sides; what was not asked about is as it was here.
AsDecided(k) ==
    start.files[k] = IF k \in JsonFiles /\ start.sync /\ start.choice[k] = "remote"
                     THEN start.compared[k] ELSE start.scanned[k]

\* When the server begins, the disk, the files that it serves and the theme are
\* as the user decided for every file that the theme did not refuse, whatever
\* merchant and developer did to the others: the edits that theme dev never
\* gets to see are the developer's between the scan and the watcher, and the
\* merchant's after the listing of the push (run, push_initial, run_dev_server).
StartsInStep ==
    Began => \A k \in StartFiles \ start.refused :
        /\ k \in start.edited.here \/ working[k] = start.files[k]
        /\ k \in start.edited.late \/ devTheme[k] = start.files[k]
           \/ (start.nodelete /\ start.files[k] = 0)
        /\ k \in start.edited.there \/ AsDecided(k)
=============================================================================
