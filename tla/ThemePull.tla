------------------------------ MODULE ThemePull ------------------------------
(***************************************************************************)
(* `shopify theme pull`: theme/src/sync.rs (plan_pull, pull) over the disk *)
(* (filesystem.rs).  The files are scanned, compared with the checksums of *)
(* the theme, downloaded in batches that are written file by file, and at  *)
(* last deleted.  Developer and merchant go on editing; a pull that was    *)
(* interrupted is started again.                                           *)
(*                                                                         *)
(* The content of a file is a number, 0 if it does not exist.              *)
(***************************************************************************)
EXTENDS Naturals, FiniteSets

CONSTANTS
    ThemeFiles,
    PullIgnored,      \* files that --ignore, --only or .shopifyignore exclude
    KeepExtra,        \* --nodelete
    PullBatch,        \* DOWNLOAD_BATCH_SIZE
    MaxPullMishaps,   \* bounds failures and kills
    MaxPullEdits      \* bounds the edits of developer and merchant

ASSUME ThemePullAssumption ==
    /\ IsFiniteSet(ThemeFiles) /\ PullIgnored \subseteq ThemeFiles /\ KeepExtra \in BOOLEAN
    /\ PullBatch \in Nat \ {0} /\ {MaxPullMishaps, MaxPullEdits} \subseteq Nat

VARIABLES
    disk,        \* content of each file of the working copy
    theme,       \* content of each file of the remote theme
    pull,        \* the pull under way, see NoPull
    pullMishaps, pullEdits

pullVars == <<disk, theme, pull, pullMishaps, pullEdits>>

Gone == 0
Half == 1                            \* what an interrupted write leaves
FileContents == 0..(3 + MaxPullEdits)

NoPull == [at |-> "idle",
           known |-> [k \in ThemeFiles |-> Gone],   \* ThemeFileSystem.files
           download |-> {}, delete |-> {},          \* PullPlan, as far as it is left
           assets |-> {},                           \* keys of the batch that is being written
           got |-> [k \in ThemeFiles |-> Gone],     \* their contents
           failed |-> {},                           \* reported as failed
           calm |-> TRUE,                           \* nobody has edited since it began
           outcome |-> "none"]

PullInit ==
    /\ disk \in [ThemeFiles -> {Gone, Half, 2}] /\ theme \in [ThemeFiles -> {Gone, 2, 3}]
    /\ pull = NoPull /\ pullMishaps = 0 /\ pullEdits = 0

PullMishap == pullMishaps < MaxPullMishaps /\ pullMishaps' = pullMishaps + 1
Calmly == UNCHANGED <<theme, pullMishaps, pullEdits>>
EndPull(outcome) == pull' = [NoPull EXCEPT !.outcome = outcome, !.calm = pull.calm]

\* ThemeFileSystem::scan
ScanDisk ==
    /\ pull.at = "idle"
    /\ pull' = [NoPull EXCEPT !.at = "list",
                   !.known = [k \in ThemeFiles |-> IF k \in PullIgnored THEN Gone ELSE disk[k]]]
    /\ UNCHANGED disk /\ Calmly

\* Mutant: only what is missing on the disk is downloaded.
MissingOnlyMutant(known, listed) == {k \in ThemeFiles : known[k] = Gone /\ listed[k] # Gone}

\* plan_pull compares checksums.
Download(known, listed) == {k \in ThemeFiles : listed[k] \notin {Gone, known[k]}}

PlanPull ==
    /\ pull.at = "list"
    /\ LET listed == [k \in ThemeFiles |-> IF k \in PullIgnored THEN Gone ELSE theme[k]]
           known == pull.known
       IN pull' = [pull EXCEPT
             !.at = "fetch", !.download = Download(known, listed),
             !.delete = IF KeepExtra THEN {}
                        ELSE {k \in ThemeFiles : known[k] # Gone /\ listed[k] = Gone}]
    /\ UNCHANGED disk /\ Calmly

\* Mutant: files that were not returned are not reported.
NotReportedMutant(missing) == {}

\* "The remote file was not returned"
Unreturned(missing) == missing

\* The answer may lack files: those that are gone by now, or others.
FetchAssets(batch, lacking) ==
    /\ pull.at = "fetch" /\ pull.assets = {}
    /\ batch \subseteq pull.download /\ batch # {} /\ lacking \subseteq batch
    /\ Cardinality(batch) = PullBatch \/ (batch = pull.download /\ Cardinality(batch) < PullBatch)
    /\ \A k \in batch : theme[k] = Gone => k \in lacking
    /\ IF \E k \in lacking : theme[k] # Gone THEN PullMishap ELSE UNCHANGED pullMishaps
    /\ pull' = [pull EXCEPT !.download = @ \ batch, !.assets = batch \ lacking, !.got = theme,
                            !.failed = @ \cup Unreturned(lacking)]
    /\ UNCHANGED <<disk, theme, pullEdits>>

WriteAsset(k) ==
    /\ pull.at = "fetch" /\ k \in pull.assets
    /\ disk' = [disk EXCEPT ![k] = pull.got[k]]
    /\ pull' = [pull EXCEPT !.assets = @ \ {k}]
    /\ Calmly

AllFetched ==
    /\ pull.at = "fetch" /\ pull.assets = {} /\ pull.download = {}
    /\ pull' = [pull EXCEPT !.at = "delete"]
    /\ UNCHANGED disk /\ Calmly

DeleteFile(k) ==
    /\ pull.at = "delete" /\ k \in pull.delete
    /\ disk' = [disk EXCEPT ![k] = Gone]
    /\ pull' = [pull EXCEPT !.delete = @ \ {k}]
    /\ Calmly

\* Mutant: a pull whose deletions are left is reported as one that is done.
NoDeletionsMutant ==
    /\ pull.at = "delete"
    /\ EndPull(IF pull.failed = {} THEN "pulled" ELSE "failures")
    /\ UNCHANGED disk /\ Calmly

FinishPull ==
    /\ pull.at = "delete" /\ pull.delete = {}
    /\ EndPull(IF pull.failed = {} THEN "pulled" ELSE "failures")
    /\ UNCHANGED disk /\ Calmly

\* A request or a deletion fails, a write fails half way, or the process is
\* killed: the rest of the plan is forgotten.
BreakPull ==
    /\ pull.at # "idle" /\ PullMishap
    /\ EndPull("error")
    /\ \/ UNCHANGED disk
       \/ \E k \in pull.assets : disk' = [disk EXCEPT ![k] = Half]
    /\ UNCHANGED <<theme, pullEdits>>

Edit == pullEdits < MaxPullEdits /\ pullEdits' = pullEdits + 1
        /\ pull' = [pull EXCEPT !.calm = FALSE] /\ UNCHANGED pullMishaps

EditDisk(k) ==
    /\ Edit
    /\ disk' \in {[disk EXCEPT ![k] = c] : c \in {Gone, 3 + pullEdits'}}
    /\ UNCHANGED theme

EditTheme(k) ==
    /\ Edit
    /\ theme' \in {[theme EXCEPT ![k] = c] : c \in {Gone, 3 + pullEdits'}}
    /\ UNCHANGED disk

PullNext ==
    \/ ScanDisk \/ PlanPull \/ AllFetched \/ FinishPull \/ BreakPull
    \/ \E batch \in SUBSET pull.download : \E lacking \in SUBSET batch : FetchAssets(batch, lacking)
    \/ \E k \in ThemeFiles : WriteAsset(k) \/ DeleteFile(k) \/ EditDisk(k) \/ EditTheme(k)

PullSpec == PullInit /\ [][PullNext]_pullVars

-----------------------------------------------------------------------------
(* Properties *)

\* A pull that reports no failure has made the disk what the theme is, but for
\* ignored files and, with --nodelete, those the theme does not have; whatever
\* an earlier pull left half written.  Nobody edits the files meanwhile (pull).
PullMirrors ==
    pull.outcome = "pulled" /\ pull.calm =>
        \A k \in ThemeFiles \ PullIgnored : disk[k] = theme[k] \/ (KeepExtra /\ theme[k] = Gone)
==============================================================================
