-------------------------- MODULE ThemeFiles_proofs --------------------------
(***************************************************************************)
(* Theorems about the theme commands that work on files and on the file of *)
(* references: a pull, the start of `theme dev`, and a command over        *)
(* several environments; for any number of files, stores, environments,    *)
(* edits and failures.                                                     *)
(***************************************************************************)
EXTENDS ThemePull, ThemeStart, ThemeEnvironments, FiniteSetTheorems, TLAPS

-----------------------------------------------------------------------------
(* Theme pull *)

Contentful == [ThemeFiles -> Nat]

PullTypeOK ==
    /\ disk \in Contentful /\ theme \in Contentful /\ pullEdits \in Nat
    /\ pull \in [at : {"idle", "list", "fetch", "delete"}, known : Contentful,
                 download : SUBSET ThemeFiles, delete : SUBSET ThemeFiles,
                 assets : SUBSET ThemeFiles, got : Contentful, failed : SUBSET ThemeFiles,
                 calm : BOOLEAN, outcome : {"none", "pulled", "failures", "error"}]

\* The disk has of k what the theme has, or what --nodelete keeps.
Mirrored(k) == disk[k] = theme[k] \/ (KeepExtra /\ theme[k] = Gone)

\* What the plan has left: files to download, to write and to delete.
Remaining(k) == k \in pull.download \cup pull.assets \cup pull.delete

\* While nobody edits: the scan is still true, what is not left to do is done or
\* reported, what was fetched is still the theme's, and what will be deleted is
\* not there.
CalmPull ==
    /\ pull.at = "list" =>
          \A k \in ThemeFiles : pull.known[k] = IF k \in PullIgnored THEN Gone ELSE disk[k]
    /\ pull.at \in {"fetch", "delete"} =>
          \A k \in ThemeFiles \ PullIgnored : Mirrored(k) \/ Remaining(k) \/ k \in pull.failed
    /\ \A k \in pull.assets : pull.got[k] = theme[k]
    /\ \A k \in pull.delete : theme[k] = Gone

PullIInv ==
    /\ PullTypeOK
    /\ pull.at # "idle" => pull.outcome = "none"
    /\ pull.at # "fetch" => pull.assets = {}
    /\ pull.at = "delete" => pull.download = {}
    /\ pull.calm => CalmPull
    /\ PullMirrors

\* Every step of a pull keeps its invariant.
LEMMA PullStep == PullIInv /\ [PullNext]_pullVars => PullIInv'
<1> SUFFICES ASSUME PullIInv, [PullNext]_pullVars  PROVE PullIInv'
  OBVIOUS
<1> USE ThemePullAssumption
    DEF PullIInv, PullTypeOK, Contentful, CalmPull, Mirrored, Remaining, PullMirrors, Gone, Calmly
<1>0. NoPull \in [at : {"idle"}, known : Contentful, download : {{}}, delete : {{}},
                  assets : {{}}, got : Contentful, failed : {{}}, calm : {TRUE},
                  outcome : {"none"}]
  BY DEF NoPull
<1>1. CASE ScanDisk
  <2> DEFINE known == [k \in ThemeFiles |-> IF k \in PullIgnored THEN Gone ELSE disk[k]]
  <2>1. pull' = [NoPull EXCEPT !.at = "list", !.known = known] /\ UNCHANGED <<disk, theme, pullEdits>>
    BY <1>1 DEF ScanDisk
  <2>2. known \in Contentful /\ \A k \in ThemeFiles \ PullIgnored : known[k] = disk[k]  OBVIOUS
  <2> QED  BY <1>0, <2>1, <2>2
<1>2. CASE PlanPull
  <2> DEFINE listed == [k \in ThemeFiles |-> IF k \in PullIgnored THEN Gone ELSE theme[k]]
             download == Download(pull.known, listed)
             delete == IF KeepExtra THEN {}
                       ELSE {k \in ThemeFiles : pull.known[k] # Gone /\ listed[k] = Gone}
  <2>1. /\ pull.at = "list" /\ UNCHANGED <<disk, theme, pullEdits>>
        /\ pull' = [pull EXCEPT !.at = "fetch", !.download = download, !.delete = delete]
    BY <1>2 DEF PlanPull
  <2>2. download \subseteq ThemeFiles /\ delete \subseteq ThemeFiles  BY DEF Download
  <2>3. ASSUME pull.calm, NEW k \in ThemeFiles \ PullIgnored
        PROVE  Mirrored(k) \/ k \in download \/ k \in delete
    BY <2>1, <2>3 DEF Download
  <2>4. ASSUME pull.calm, NEW k \in delete  PROVE theme[k] = Gone
    BY <2>1, <2>4
  <2> HIDE DEF download, delete
  <2> QED  BY <2>1, <2>2, <2>3, <2>4
<1>3. CASE AllFetched  BY <1>3 DEF AllFetched
<1>4. CASE FinishPull
  <2> DEFINE outcome == IF pull.failed = {} THEN "pulled" ELSE "failures"
  <2>1. /\ pull' = [NoPull EXCEPT !.outcome = outcome, !.calm = pull.calm]
        /\ pull.at = "delete" /\ pull.delete = {} /\ UNCHANGED <<disk, theme, pullEdits>>
    BY <1>4 DEF FinishPull, EndPull
  <2> QED  BY <1>0, <2>1
<1>5. CASE BreakPull
  <2>1. /\ pull' = [NoPull EXCEPT !.outcome = "error", !.calm = pull.calm]
        /\ UNCHANGED <<theme, pullEdits>> /\ disk' \in Contentful
    BY <1>5 DEF BreakPull, EndPull, Half
  <2> QED  BY <1>0, <2>1
<1>6. ASSUME NEW batch \in SUBSET pull.download, NEW lacking \in SUBSET batch,
             FetchAssets(batch, lacking)
      PROVE  PullIInv'
  BY <1>6 DEF FetchAssets, Unreturned
<1>7. ASSUME NEW k \in ThemeFiles, WriteAsset(k)  PROVE PullIInv'
  BY <1>7 DEF WriteAsset
<1>8. ASSUME NEW k \in ThemeFiles, DeleteFile(k)  PROVE PullIInv'
  BY <1>8 DEF DeleteFile
<1>9. ASSUME NEW k \in ThemeFiles, EditDisk(k) \/ EditTheme(k)  PROVE PullIInv'
  <2>1. /\ pull' = [pull EXCEPT !.calm = FALSE] /\ pullEdits' \in Nat
    BY <1>9 DEF EditDisk, EditTheme, Edit
  <2>2. disk' \in Contentful /\ theme' \in Contentful
    BY <1>9, <2>1 DEF EditDisk, EditTheme
  <2> QED  BY <2>1, <2>2
<1>10. CASE UNCHANGED pullVars  BY <1>10 DEF pullVars
<1> QED
  BY <1>1, <1>2, <1>3, <1>4, <1>5, <1>6, <1>7, <1>8, <1>9, <1>10 DEF PullNext

\* For any theme, batch size and interruptions: a pull that reports no failure
\* has made the disk what the theme is (pull).
THEOREM PullsMirror == PullSpec => []PullMirrors
<1>1. PullInit => PullIInv
  BY ThemePullAssumption
     DEF PullInit, PullIInv, PullTypeOK, Contentful, CalmPull, PullMirrors, NoPull, Gone, Half
<1>2. PullIInv => PullMirrors  BY DEF PullIInv
<1> QED  BY <1>1, <1>2, PullStep, PTL DEF PullSpec

-----------------------------------------------------------------------------
(* The start of theme dev *)

StartTypeOK ==
    /\ working \in [StartFiles -> Nat] /\ devTheme \in [StartFiles -> Nat] /\ startEdits \in Nat
    /\ start \in [at : {"scan", "compare", "prompt", "apply", "plan", "push", "baseline",
                        "running", "failed"},
                  sync : BOOLEAN, nodelete : BOOLEAN,
                  files : [StartFiles -> Nat], scanned : [StartFiles -> Nat],
                  listed : [StartFiles -> Nat], compared : [StartFiles -> Nat],
                  choice : {start.choice},
                  remove : SUBSET StartFiles, download : SUBSET StartFiles,
                  delete : SUBSET StartFiles, upload : SUBSET StartFiles,
                  refused : SUBSET StartFiles,
                  edited : [here : SUBSET StartFiles, there : SUBSET StartFiles,
                            late : SUBSET StartFiles]]

StartAt(stages) == start.at \in stages

\* The disk is as the command's files are, but for the developer's edits.
DiskInStep ==
    ~StartAt({"scan"}) =>
        \A k \in StartFiles \ start.edited.here : working[k] = start.files[k]

\* Until the reconciliation, and without it always, the files are as scanned.
FilesAsScanned ==
    /\ StartAt({"compare", "prompt", "apply"}) => start.sync
    /\ StartAt({"compare", "prompt"}) \/ (~start.sync /\ ~StartAt({"scan"})) =>
          start.files = start.scanned
    /\ start.remove \cup start.download # {} => StartAt({"apply", "failed"})

\* What the user was asked about is the theme's, but for the merchant's edits.
ListingHolds ==
    /\ StartAt({"prompt"}) =>
          /\ start.listed = start.compared
          /\ \A k \in StartFiles \ start.edited.there : devTheme[k] = start.compared[k]
    /\ StartAt({"apply"}) =>
          /\ \A k \in start.remove : k \in JsonFiles /\ start.choice[k] = "remote"
                                     /\ start.compared[k] = 0
          /\ \A k \in start.download : k \in JsonFiles /\ start.choice[k] = "remote"
          /\ \A k \in start.download \ start.edited.there : devTheme[k] = start.compared[k]

\* What is not left to do is as the user decided.
Decided ==
    StartAt({"apply", "plan", "push", "baseline", "running"}) =>
        \A k \in StartFiles \ (start.refused \cup start.edited.there) :
            AsDecided(k) \/ k \in start.remove \cup start.download

\* What is not left to upload or to delete is on the theme.
ThemeInStep ==
    /\ StartAt({"push", "baseline", "running"}) =>
          /\ \A k \in StartFiles \ (start.refused \cup start.edited.late) :
                \/ devTheme[k] = start.files[k] \/ (start.nodelete /\ start.files[k] = 0)
                \/ k \in start.upload \cup start.delete
          /\ \A k \in start.delete : start.files[k] = 0
    /\ StartAt({"baseline", "running"}) => start.upload \cup start.delete = {}

StartIInv ==
    StartTypeOK /\ DiskInStep /\ FilesAsScanned /\ ListingHolds /\ Decided /\ ThemeInStep

\* The scan and the comparison.
LEMMA ScanStep ==
    ASSUME StartIInv, ScanWorking \/ CompareThemes
    PROVE  StartIInv'
<1> USE DEF StartIInv, StartTypeOK, StartAt, Undisturbed, DiskInStep, FilesAsScanned, ListingHolds,
            Decided, ThemeInStep, AsDecided
<1>1. CASE ScanWorking
  <2>1. /\ start.at = "scan" /\ UNCHANGED <<working, devTheme, startEdits>>
        /\ start' = [start EXCEPT !.at = IF start.sync THEN "compare" ELSE "plan",
                        !.files = working, !.scanned = working,
                        !.edited = [start.edited EXCEPT !.here = {}]]
    BY <1>1 DEF ScanWorking
  <2>2. start.remove \cup start.download = {}  BY <2>1
  <2>3. StartTypeOK'  BY <2>1
  <2> QED  BY <2>1, <2>2, <2>3
<1>2. CASE CompareThemes
  <2>1. /\ start.at = "compare" /\ UNCHANGED <<working, devTheme, startEdits>>
        /\ start' = [start EXCEPT !.at = "prompt", !.listed = devTheme, !.compared = devTheme,
                        !.edited = [start.edited EXCEPT !.there = {}]]
    BY <1>2 DEF CompareThemes
  <2>2. StartTypeOK'  BY <2>1
  <2> QED  BY <2>1, <2>2
<1> QED  BY <1>1, <1>2

\* The user chooses: every file is as it was here, or is to be removed or downloaded.
LEMMA ChooseStep ==
    ASSUME StartIInv, NEW local \in Sides, NEW remote \in Sides, NEW conflict \in Sides,
           ChooseSides(local, remote, conflict)
    PROVE  StartIInv'
<1> DEFINE choice == [k \in StartFiles |->
                         IF k \in LocalOnly THEN local ELSE IF k \in RemoteOnly THEN remote
                         ELSE IF k \in Conflicts THEN conflict ELSE "local"]
           remove == {k \in LocalOnly : choice[k] = "remote"}
           download == {k \in RemoteOnly \cup Conflicts : choice[k] = "remote"}
           delete == {k \in RemoteOnly : choice[k] = "local"}
<1> USE DEF StartIInv, StartTypeOK, StartAt
<1>1. /\ start.at = "prompt" /\ UNCHANGED <<working, devTheme, startEdits>>
      /\ start' = [start EXCEPT !.at = "apply", !.choice = choice, !.remove = remove,
                                !.download = download, !.delete = delete]
  BY DEF ChooseSides, Undisturbed
<1>2. /\ LocalOnly \subseteq JsonFiles /\ RemoteOnly \subseteq JsonFiles
      /\ Conflicts \subseteq JsonFiles /\ JsonFiles \subseteq StartFiles
      /\ \A k \in LocalOnly : start.listed[k] = 0
  BY ThemeStartAssumption DEF LocalOnly, RemoteOnly, Conflicts
<1>3. /\ remove \subseteq JsonFiles /\ download \subseteq JsonFiles /\ delete \subseteq JsonFiles
      /\ \A k \in remove : choice[k] = "remote" /\ start.listed[k] = 0
      /\ \A k \in download : choice[k] = "remote"
      /\ \A k \in StartFiles : choice[k] = "remote" => k \in remove \cup download
  BY <1>2
<1> HIDE DEF choice, remove, download, delete
<1>4. /\ start'.at = "apply" /\ start'.remove = remove /\ start'.download = download
      /\ start'.delete = delete /\ start'.choice = choice /\ start'.files = start.files
      /\ start'.scanned = start.scanned /\ start'.compared = start.compared
      /\ start'.edited = start.edited /\ start'.refused = start.refused
      /\ start'.sync = start.sync /\ start'.listed = start.listed
  BY <1>1
<1>5. StartTypeOK'  BY <1>1, <1>2, <1>3, <1>4
<1>6. DiskInStep' /\ FilesAsScanned'  BY <1>1, <1>4 DEF DiskInStep, FilesAsScanned
<1>7. ListingHolds'  BY <1>1, <1>2, <1>3, <1>4 DEF ListingHolds
<1>8. Decided'  BY <1>1, <1>3, <1>4 DEF Decided, AsDecided, FilesAsScanned
<1>9. ThemeInStep'  BY <1>4 DEF ThemeInStep
<1> QED  BY <1>5, <1>6, <1>7, <1>8, <1>9

\* The reconciliation: a file is removed, downloaded or deleted as was chosen.
LEMMA ApplyStep ==
    ASSUME StartIInv, NEW k \in StartFiles, RemoveLocal(k) \/ DownloadRemote(k)
    PROVE  StartIInv'
<1> USE DEF StartIInv, StartTypeOK, StartAt, Undisturbed
<1>1. CASE RemoveLocal(k)
  <2>1. /\ start.at = "apply" /\ k \in start.remove /\ UNCHANGED <<devTheme, startEdits>>
        /\ working' = [working EXCEPT ![k] = 0]
        /\ start' = [start EXCEPT !.files = [start.files EXCEPT ![k] = 0],
                                  !.remove = start.remove \ {k}]
    BY <1>1 DEF RemoveLocal
  <2>2. StartTypeOK'  BY <2>1
  <2>3. DiskInStep' /\ FilesAsScanned' /\ ThemeInStep'
    BY <2>1 DEF DiskInStep, FilesAsScanned, ThemeInStep
  <2>4. ListingHolds'  BY <2>1 DEF ListingHolds
  <2>5. Decided'  BY <2>1 DEF Decided, AsDecided, FilesAsScanned, ListingHolds
  <2> QED  BY <2>2, <2>3, <2>4, <2>5
<1>2. CASE DownloadRemote(k)
  <2>1. start.at = "apply" /\ k \in start.download /\ UNCHANGED <<devTheme, startEdits>>
    BY <1>2 DEF DownloadRemote
  <2>2. CASE /\ working' = [working EXCEPT ![k] = devTheme[k]]
             /\ start' = [start EXCEPT !.files = [start.files EXCEPT ![k] = devTheme[k]],
                                       !.download = start.download \ {k}]
    <3>1. StartTypeOK'  BY <2>1, <2>2
    <3>2. DiskInStep' /\ FilesAsScanned' /\ ThemeInStep'
      BY <2>1, <2>2 DEF DiskInStep, FilesAsScanned, ThemeInStep
    <3>3. ListingHolds'  BY <2>1, <2>2 DEF ListingHolds
    <3>4. Decided'  BY <2>1, <2>2 DEF Decided, AsDecided, FilesAsScanned, ListingHolds
    <3> QED  BY <3>1, <3>2, <3>3, <3>4
  <2>3. CASE /\ start' = [start EXCEPT !.refused = start.refused \cup {k},
                                       !.download = start.download \ {k}]
             /\ working' = working
    <3>1. StartTypeOK'  BY <2>1, <2>3
    <3>2. DiskInStep' /\ FilesAsScanned' /\ ThemeInStep'
      BY <2>1, <2>3 DEF DiskInStep, FilesAsScanned, ThemeInStep
    <3>3. ListingHolds'  BY <2>1, <2>3 DEF ListingHolds
    <3>4. Decided'  BY <2>1, <2>3 DEF Decided, AsDecided
    <3> QED  BY <3>1, <3>2, <3>3, <3>4
  <2> QED  BY <1>2, <2>2, <2>3 DEF DownloadRemote
<1> QED  BY <1>1, <1>2

\* A request about one file: to delete it, or to upload it.
LEMMA RequestStepOfStart ==
    ASSUME StartIInv, NEW k \in StartFiles, DeleteRemote(k) \/ UploadLocal(k)
    PROVE  StartIInv'
<1> USE DEF StartIInv, StartTypeOK, StartAt
<1>1. CASE DeleteRemote(k)
  <2>1. /\ start.at \in {"apply", "push"} /\ k \in start.delete /\ start.download = {}
        /\ UNCHANGED <<working, startEdits>>
    BY <1>1 DEF DeleteRemote
  <2> DEFINE then == [start EXCEPT !.delete = start.delete \ {k}]
  <2>2. CASE devTheme' = [devTheme EXCEPT ![k] = 0] /\ start' = then
    <3>1. StartTypeOK'  BY <2>1, <2>2
    <3>2. DiskInStep' /\ FilesAsScanned'  BY <2>1, <2>2 DEF DiskInStep, FilesAsScanned
    <3>3. ListingHolds'  BY <2>1, <2>2 DEF ListingHolds
    <3>4. ThemeInStep'  BY <2>1, <2>2 DEF ThemeInStep
    <3>5. Decided'  BY <2>1, <2>2 DEF Decided, AsDecided
    <3> QED  BY <3>1, <3>2, <3>3, <3>4, <3>5
  <2>3. CASE devTheme' = devTheme /\ start' = [then EXCEPT !.refused = start.refused \cup {k}]
    <3>1. StartTypeOK'  BY <2>1, <2>3
    <3>2. DiskInStep' /\ FilesAsScanned'  BY <2>1, <2>3 DEF DiskInStep, FilesAsScanned
    <3>3. ListingHolds'  BY <2>1, <2>3 DEF ListingHolds
    <3>4. ThemeInStep'  BY <2>1, <2>3 DEF ThemeInStep
    <3>5. Decided'  BY <2>1, <2>3 DEF Decided, AsDecided
    <3> QED  BY <3>1, <3>2, <3>3, <3>4, <3>5
  <2> QED  BY <1>1, <2>2, <2>3 DEF DeleteRemote, Request
<1>2. CASE UploadLocal(k)
  <2>1. /\ start.at = "push" /\ k \in start.upload
        /\ UNCHANGED <<working, startEdits>>
    BY <1>2 DEF UploadLocal
  <2> DEFINE then == [start EXCEPT !.upload = start.upload \ {k}]
  <2>2. CASE devTheme' = [devTheme EXCEPT ![k] = start.files[k]] /\ start' = then
    <3>1. StartTypeOK'  BY <2>1, <2>2
    <3>2. DiskInStep' /\ FilesAsScanned'  BY <2>1, <2>2 DEF DiskInStep, FilesAsScanned
    <3>3. ListingHolds'  BY <2>1, <2>2 DEF ListingHolds
    <3>4. ThemeInStep'  BY <2>1, <2>2 DEF ThemeInStep
    <3>5. Decided'  BY <2>1, <2>2 DEF Decided, AsDecided
    <3> QED  BY <3>1, <3>2, <3>3, <3>4, <3>5
  <2>3. CASE devTheme' = devTheme /\ start' = [then EXCEPT !.refused = start.refused \cup {k}]
    <3>1. StartTypeOK'  BY <2>1, <2>3
    <3>2. DiskInStep' /\ FilesAsScanned'  BY <2>1, <2>3 DEF DiskInStep, FilesAsScanned
    <3>3. ListingHolds'  BY <2>1, <2>3 DEF ListingHolds
    <3>4. ThemeInStep'  BY <2>1, <2>3 DEF ThemeInStep
    <3>5. Decided'  BY <2>1, <2>3 DEF Decided, AsDecided
    <3> QED  BY <3>1, <3>2, <3>3, <3>4, <3>5
  <2> QED  BY <1>2, <2>2, <2>3 DEF UploadLocal, Request
<1> QED  BY <1>1, <1>2

\* The push is planned with a new listing.
LEMMA PlanPushStep ==
    ASSUME StartIInv, PlanInitialPush
    PROVE  StartIInv'
<1> USE DEF StartIInv, StartTypeOK, StartAt
<1> DEFINE upload == {k \in StartFiles : start.files[k] \notin {0, devTheme[k]}}
           delete == IF start.nodelete THEN {}
                     ELSE {k \in StartFiles : start.files[k] = 0 /\ devTheme[k] # 0}
<1>1. /\ start.at = "plan" /\ UNCHANGED <<working, devTheme, startEdits>>
      /\ start' = [start EXCEPT !.at = "push", !.listed = devTheme, !.upload = upload,
                      !.delete = delete, !.edited = [start.edited EXCEPT !.late = {}]]
  BY DEF PlanInitialPush, Listing, Undisturbed
<1>2. /\ upload \subseteq StartFiles /\ delete \subseteq StartFiles
      /\ \A k \in StartFiles : \/ devTheme[k] = start.files[k]
                               \/ start.nodelete /\ start.files[k] = 0
                               \/ k \in upload \cup delete
      /\ \A k \in delete : start.files[k] = 0
  OBVIOUS
<1> HIDE DEF upload, delete
<1>3. StartTypeOK'  BY <1>1, <1>2
<1>4. DiskInStep' /\ FilesAsScanned' /\ ListingHolds'
  BY <1>1 DEF DiskInStep, FilesAsScanned, ListingHolds
<1>5. Decided'  BY <1>1 DEF Decided, AsDecided
<1>6. ThemeInStep'  BY <1>1, <1>2 DEF ThemeInStep
<1> QED  BY <1>3, <1>4, <1>5, <1>6

\* The command goes on, or fails.
LEMMA ProceedStep ==
    ASSUME StartIInv, Reconciled \/ StartServer \/ ListBaseline \/ FailStart
    PROVE  StartIInv'
<1> USE DEF StartIInv, StartTypeOK, StartAt, Undisturbed, Proceed
<1>1. CASE Reconciled
  <2>1. /\ start.at = "apply" /\ start.remove \cup start.download = {}
        /\ start' = [start EXCEPT !.at = "plan"] /\ UNCHANGED <<working, devTheme, startEdits>>
    BY <1>1 DEF Reconciled
  <2> QED
    BY <2>1 DEF DiskInStep, FilesAsScanned, ListingHolds, Decided, AsDecided, ThemeInStep
<1>2. CASE StartServer
  <2>1. /\ start.at = "push" /\ start.upload \cup start.delete = {}
        /\ UNCHANGED <<working, devTheme, startEdits>>
    BY <1>2 DEF StartServer
  <2>2. PICK at \in {"baseline", "running"} : start' = [start EXCEPT !.at = at]
    BY <1>2 DEF StartServer
  <2>3. StartTypeOK'  BY <2>1, <2>2
  <2>4. DiskInStep' /\ FilesAsScanned' /\ ListingHolds'
    BY <2>1, <2>2 DEF DiskInStep, FilesAsScanned, ListingHolds
  <2>5. Decided' /\ ThemeInStep'  BY <2>1, <2>2 DEF Decided, AsDecided, ThemeInStep
  <2> QED  BY <2>3, <2>4, <2>5
<1>3. CASE ListBaseline
  <2>1. /\ start.at = "baseline" /\ UNCHANGED <<working, devTheme, startEdits>>
        /\ start' = [start EXCEPT !.at = "running", !.listed = devTheme]
    BY <1>3 DEF ListBaseline
  <2>2. StartTypeOK'  BY <2>1
  <2>3. DiskInStep' /\ FilesAsScanned' /\ ListingHolds'
    BY <2>1 DEF DiskInStep, FilesAsScanned, ListingHolds
  <2>4. Decided' /\ ThemeInStep'  BY <2>1 DEF Decided, AsDecided, ThemeInStep
  <2> QED  BY <2>2, <2>3, <2>4
<1>4. CASE FailStart
  <2>1. /\ start.at # "scan" /\ start' = [start EXCEPT !.at = "failed"]
        /\ UNCHANGED <<working, devTheme, startEdits>>
    BY <1>4 DEF FailStart
  <2> QED
    BY <2>1 DEF DiskInStep, FilesAsScanned, ListingHolds, Decided, ThemeInStep
<1> QED  BY <1>1, <1>2, <1>3, <1>4

\* Developer and merchant edit.
LEMMA EditStartStep ==
    ASSUME StartIInv, NEW k \in StartFiles, EditWorking(k) \/ EditDevTheme(k)
    PROVE  StartIInv'
<1> USE DEF StartIInv, StartTypeOK, StartAt
<1>1. CASE EditWorking(k)
  <2>1. /\ start.at \notin {"scan", "baseline", "running", "failed"} /\ devTheme' = devTheme
        /\ start' = [start EXCEPT !.edited = [start.edited EXCEPT
                                                 !.here = start.edited.here \cup {k}]]
    BY <1>1 DEF EditWorking
  <2>2. startEdits' \in Nat  BY <1>1 DEF EditWorking, EditDuringStart
  <2>3. PICK c \in {0, 2 + startEdits'} : working' = [working EXCEPT ![k] = c]
    BY <1>1 DEF EditWorking
  <2>4. c \in Nat  BY <2>2, <2>3
  <2>5. StartTypeOK'  BY <2>1, <2>2, <2>3, <2>4
  <2>6. DiskInStep' /\ FilesAsScanned'  BY <2>1, <2>3 DEF DiskInStep, FilesAsScanned
  <2>7. ListingHolds'  BY <2>1 DEF ListingHolds
  <2>8. ThemeInStep'  BY <2>1 DEF ThemeInStep
  <2>9. Decided'  BY <2>1 DEF Decided, AsDecided
  <2> QED  BY <2>5, <2>6, <2>7, <2>8, <2>9
<1>2. CASE EditDevTheme(k)
  <2>1. /\ start.at \notin {"scan", "running", "failed"} /\ working' = working
        /\ start' = [start EXCEPT !.edited = [start.edited EXCEPT
                                                 !.there = start.edited.there \cup {k},
                                                 !.late = start.edited.late \cup {k}]]
    BY <1>2 DEF EditDevTheme
  <2>2. startEdits' \in Nat  BY <1>2 DEF EditDevTheme, EditDuringStart
  <2>3. PICK c \in {0, 2 + startEdits'} : devTheme' = [devTheme EXCEPT ![k] = c]
    BY <1>2 DEF EditDevTheme
  <2>4. c \in Nat  BY <2>2, <2>3
  <2>5. StartTypeOK'  BY <2>1, <2>2, <2>3, <2>4
  <2>6. DiskInStep' /\ FilesAsScanned'  BY <2>1 DEF DiskInStep, FilesAsScanned
  <2>7. ListingHolds'  BY <2>1, <2>3 DEF ListingHolds
  <2>8. ThemeInStep'  BY <2>1, <2>3 DEF ThemeInStep
  <2>9. Decided'  BY <2>1 DEF Decided, AsDecided
  <2> QED  BY <2>5, <2>6, <2>7, <2>8, <2>9
<1> QED  BY <1>1, <1>2

\* For any files, edits and refusals: the server begins with the disk, its files
\* and the theme as the user decided (run, push_initial, run_dev_server).
THEOREM BeginsInStep == StartSpec => []StartsInStep
<1>1. StartInit => StartIInv
  <2> SUFFICES ASSUME StartInit  PROVE StartIInv
    OBVIOUS
  <2>1. NoFiles \in [StartFiles -> Nat]  BY DEF NoFiles
  <2>2. start.at = "scan" /\ start.remove \cup start.download = {}  BY DEF StartInit
  <2>3. StartTypeOK  BY <2>1 DEF StartInit, StartTypeOK
  <2> QED
    BY <2>2, <2>3
       DEF StartIInv, StartAt, DiskInStep, FilesAsScanned, ListingHolds, Decided, ThemeInStep
<1>2. StartIInv /\ [StartNext]_startVars => StartIInv'
  <2> SUFFICES ASSUME StartIInv, [StartNext]_startVars  PROVE StartIInv'
    OBVIOUS
  <2>1. CASE ScanWorking \/ CompareThemes  BY <2>1, ScanStep
  <2>2. CASE PlanInitialPush  BY <2>2, PlanPushStep
  <2>3. CASE Reconciled \/ StartServer \/ ListBaseline \/ FailStart  BY <2>3, ProceedStep
  <2>4. ASSUME NEW local \in Sides, NEW remote \in Sides, NEW conflict \in Sides,
               ChooseSides(local, remote, conflict)
        PROVE  StartIInv'
    BY <2>4, ChooseStep
  <2>5. ASSUME NEW k \in StartFiles, RemoveLocal(k) \/ DownloadRemote(k)  PROVE StartIInv'
    BY <2>5, ApplyStep
  <2>6. ASSUME NEW k \in StartFiles, DeleteRemote(k) \/ UploadLocal(k)  PROVE StartIInv'
    BY <2>6, RequestStepOfStart
  <2>7. ASSUME NEW k \in StartFiles, EditWorking(k) \/ EditDevTheme(k)  PROVE StartIInv'
    BY <2>7, EditStartStep
  <2>8. CASE UNCHANGED startVars
    BY <2>8 DEF startVars, StartIInv, StartTypeOK, StartAt, DiskInStep, FilesAsScanned,
                ListingHolds, Decided, AsDecided, ThemeInStep
  <2> QED  BY <2>1, <2>2, <2>3, <2>4, <2>5, <2>6, <2>7, <2>8 DEF StartNext
<1>3. StartIInv => StartsInStep
  BY DEF StartIInv, StartAt, DiskInStep, FilesAsScanned, Decided, ThemeInStep, StartsInStep, Began
<1> QED  BY <1>1, <1>2, <1>3, PTL DEF StartSpec

-----------------------------------------------------------------------------
(* Several environments and the file of references *)

Themes == Stores \X Nat
References == [Stores -> Themes \cup {NoTheme}]

Tasks == [at : {"begin", "fetch", "list", "create", "delete", "compare", "remove", "store",
                "save", "save removal", "done"},
          theme : Themes \cup {NoTheme}, doomed : SUBSET Themes, deleted : SUBSET Themes,
          update : Themes \cup {NoTheme}, loaded : References]

EnvironmentsTypeOK ==
    /\ run \in [name : ThemeCommands, stores : [Environments -> Stores \cup {NoStore}],
                lastStore : Stores \cup {NoStore}, group : Nat, at : {"confirm", "run", "done"}]
    /\ task \in [Environments -> Tasks]
    /\ references \in References /\ onStore \subseteq Themes /\ created \in Nat

\* An environment that has begun and not ended is of the group that runs.
AtWork(e) == task[e].at \notin {"begin", "done"} => Running(e)

\* Who is between reading and writing the file has the lock and what is there.
FileLocked(e) ==
    task[e].at \in {"save", "save removal"} => fileLock = e /\ task[e].loaded = references

\* No theme has a number that the stores have not given yet.
UpTo(n, t) == t # NoTheme => t[2] <= n
TaskUpTo(n, a) == UpTo(n, a.update) /\ \A t \in a.doomed \cup a.deleted : UpTo(n, t)
AllNumbered ==
    /\ \A t \in onStore : UpTo(created, t)
    /\ \A s \in Stores : UpTo(created, references[s])
    /\ \A e \in Environments : TaskUpTo(created, task[e])

\* Only `info` keeps a theme under a store that is not its own.
OwnReferences ==
    run.name # "info" => \A s \in Stores : references[s] # NoTheme => references[s][1] = s

\* What an environment knows of its theme, and nobody changes meanwhile: what it
\* keeps is a theme of its store; what it fetches is the reference; what it will
\* remove is the reference of a theme that is gone.
Knows(e) ==
    LET at == task[e].at
    IN  /\ at \in {"store", "save"} =>
              task[e].update # NoTheme /\ task[e].update[1] = run.stores[e]
        /\ at \in {"fetch", "delete", "compare"} => run.name # "info"
        /\ at = "fetch" => task[e].theme = references[run.stores[e]]
        /\ at \in {"remove", "save removal"} =>
              /\ run.name # "info" /\ references[run.stores[e]] \notin onStore
              /\ task[e].update = NoTheme
        /\ at \in {"begin", "fetch", "list", "delete", "compare"} => task[e].update = NoTheme
        /\ task[e].deleted \cap onStore = {}

EnvironmentsIInv ==
    /\ EnvironmentsTypeOK
    /\ NoUpdateLost
    /\ \A e \in Environments : AtWork(e) /\ FileLocked(e) /\ Knows(e)
    /\ AllNumbered
    /\ OwnReferences

\* Of two environments of one store the later is in a later group.
LEMMA GroupsSeparate ==
    ASSUME NEW d \in Environments, NEW e \in Environments, d < e, run.stores[d] = run.stores[e]
    PROVE  Group(d) # Group(e)
<1> DEFINE Before(x) == {y \in 1..(x - 1) : run.stores[y] = run.stores[x]}
<1>1. d \in Nat \ {0} /\ e \in Nat \ {0}
  BY ThemeEnvironmentsAssumption DEF Environments
<1>2. IsFiniteSet(Before(d)) /\ IsFiniteSet(Before(e))
  <2>1. IsFiniteSet(1..(d - 1)) /\ IsFiniteSet(1..(e - 1))  BY <1>1, FS_Interval
  <2>2. Before(d) \subseteq 1..(d - 1) /\ Before(e) \subseteq 1..(e - 1)  OBVIOUS
  <2> QED  BY <2>1, <2>2, FS_Subset
<1>3. Before(d) \cup {d} \subseteq Before(e) /\ d \notin Before(d)  BY <1>1
<1> HIDE DEF Before
<1>4. Cardinality(Before(d) \cup {d}) = Cardinality(Before(d)) + 1  BY <1>2, <1>3, FS_AddElement
<1>5. Cardinality(Before(d) \cup {d}) <= Cardinality(Before(e))  BY <1>2, <1>3, FS_Subset
<1>6. Cardinality(Before(d)) \in Nat /\ Cardinality(Before(e)) \in Nat
  BY <1>2, FS_CardinalityType
<1>7. Group(d) = 1 + Cardinality(Before(d)) /\ Group(e) = 1 + Cardinality(Before(e))
  BY DEF Group, Before
<1> QED  BY <1>4, <1>5, <1>6, <1>7

\* No two environments of one store run at the same time (group_by_unique_store).
LEMMA RunsAlone ==
    ASSUME NEW d \in Environments, NEW e \in Environments, Running(d), Running(e),
           run.stores[d] = run.stores[e]
    PROVE  d = e
<1>1. Group(d) = Group(e)  BY DEF Running
<1>2. d \in Nat /\ e \in Nat  BY ThemeEnvironmentsAssumption DEF Environments
<1>3. d < e \/ e < d \/ d = e  BY <1>2
<1> QED  BY <1>1, <1>3, GroupsSeparate

\* A step of one environment keeps the invariant if what it leaves behind does:
\* it changes the reference of no other store, writes to the file only when no
\* other has the lock, and gives new themes new numbers.
LEMMA TaskFrame ==
    ASSUME EnvironmentsIInv, NEW e \in Environments, Running(e), NEW next \in Tasks,
           task' = [task EXCEPT ![e] = next], run' = run,
           references' \in References, references' = ledger', onStore' \subseteq Themes,
           created' \in Nat, created <= created',
           \A t \in onStore' : t \in onStore \/ (t[2] > created /\ t[2] <= created'),
           \A s \in Stores : UpTo(created', references'[s]),
           TaskUpTo(created', next),
           \A s \in Stores \ {run.stores[e]} :
                run.name # "info" => references'[s] = references[s],
           \/ fileLock' = fileLock /\ references' = references
           \/ fileLock \in {NoEnvironment, e},
           FileLocked(e)', Knows(e)', OwnReferences'
    PROVE  EnvironmentsIInv'
<1> USE DEF EnvironmentsIInv, EnvironmentsTypeOK
<1>1. task'[e] = next /\ \A d \in Environments \ {e} : task'[d] = task[d]  OBVIOUS
<1>2. task' \in [Environments -> Tasks]  OBVIOUS
<1>3. EnvironmentsTypeOK'  BY <1>2 DEF Tasks, References, Themes, NoTheme, Environments
<1>4. \A d \in Environments : AtWork(d)'
  <2>1. \A d \in Environments : Running(d)' = Running(d)  BY DEF Running, Valid, Group
  <2>2. ASSUME NEW d \in Environments  PROVE AtWork(d)'
    <3>1. CASE d = e  BY <2>1, <3>1 DEF AtWork
    <3>2. CASE d # e  BY <1>1, <2>1, <3>2 DEF AtWork
    <3> QED  BY <3>1, <3>2
  <2> QED  BY <2>2
<1>5. ASSUME NEW d \in Environments \ {e}  PROVE FileLocked(d)'
  <2>1. e # NoEnvironment /\ d # NoEnvironment
    BY ThemeEnvironmentsAssumption DEF Environments, NoEnvironment
  <2> QED  BY <1>1, <2>1 DEF FileLocked
<1>6. \A t \in Themes : UpTo(created, t) => UpTo(created', t)
  BY DEF UpTo, Themes
<1>7. ASSUME NEW d \in Environments \ {e}  PROVE Knows(d)'
  <2>1. task[d] \in Tasks /\ task'[d] = task[d] /\ Knows(d) /\ AtWork(d)  BY <1>1
  <2>2. ASSUME task[d].at \notin {"begin", "done"}, run.name # "info"
        PROVE  /\ references'[run.stores[d]] = references[run.stores[d]]
               /\ run.stores[d] \in Stores
    <3>1. Running(d)  BY <2>1, <2>2 DEF AtWork
    <3>2. run.stores[d] # run.stores[e]  BY <3>1, RunsAlone
    <3>3. run.stores[d] \in Stores  BY <3>1 DEF Running, Valid
    <3> QED  BY <2>2, <3>2, <3>3
  <2>3. ASSUME NEW t \in Themes \cup {NoTheme}, UpTo(created, t), t \notin onStore
        PROVE  t \notin onStore'
    <3>1. CASE t \in Themes /\ t # NoTheme  BY <2>3, <3>1 DEF UpTo, Themes
    <3>2. CASE t = NoTheme  BY <3>2 DEF Themes, NoTheme
    <3> QED  BY <3>1, <3>2
  <2>4. task[d].deleted \cap onStore' = {}
    <3>1. \A t \in task[d].deleted : t \in Themes /\ t \notin onStore /\ UpTo(created, t)
      BY <2>1 DEF Knows, Tasks, AllNumbered, TaskUpTo
    <3> QED  BY <2>3, <3>1
  <2>5. ASSUME task[d].at \in {"remove", "save removal"}
        PROVE  references'[run.stores[d]] \notin onStore'
    <3>1. /\ references[run.stores[d]] \notin onStore /\ run.name # "info"
      BY <2>1, <2>5 DEF Knows
    <3>2. /\ references'[run.stores[d]] = references[run.stores[d]] /\ run.stores[d] \in Stores
      BY <2>2, <2>5, <3>1
    <3>3. references[run.stores[d]] \in Themes \cup {NoTheme}
          /\ UpTo(created, references[run.stores[d]])
      BY <3>2 DEF References, AllNumbered
    <3> QED  BY <2>3, <3>1, <3>2, <3>3
  <2>6. task[d].at = "fetch" => task[d].theme = references'[run.stores[d]]
    BY <2>1, <2>2 DEF Knows
  <2> QED  BY <2>1, <2>4, <2>5, <2>6 DEF Knows
<1>8. AllNumbered'
  <2>1. ASSUME NEW t \in onStore'  PROVE UpTo(created', t)
    BY <1>6, <2>1 DEF AllNumbered, UpTo
  <2>2. ASSUME NEW d \in Environments \ {e}  PROVE TaskUpTo(created', task'[d])
    <3>1. TaskUpTo(created, task[d]) /\ task[d] \in Tasks /\ task'[d] = task[d]
      BY <1>1 DEF AllNumbered
    <3>2. UpTo(created', NoTheme)  BY DEF UpTo
    <3> QED  BY <1>6, <3>1, <3>2 DEF TaskUpTo, Tasks
  <2> QED  BY <1>1, <2>1, <2>2 DEF AllNumbered
<1> QED
  BY <1>1, <1>3, <1>4, <1>5, <1>7, <1>8 DEF NoUpdateLost

\* A number is no less than itself.
LEMMA NoLessThanItself == \A n \in Nat : n <= n
OBVIOUS

\* A step that touches neither the file nor the themes of the stores.
LEMMA QuietTask ==
    ASSUME EnvironmentsIInv, NEW e \in Environments, Running(e), NEW next \in Tasks,
           task' = [task EXCEPT ![e] = next], run' = run,
           UNCHANGED <<references, ledger, fileLock, onStore, created>>,
           next.at \notin {"save", "save removal"}, TaskUpTo(created, next), Knows(e)'
    PROVE  EnvironmentsIInv'
<1>1. created' \in Nat /\ created <= created'
  <2>1. created \in Nat /\ created' = created  BY DEF EnvironmentsIInv, EnvironmentsTypeOK
  <2>2. created <= created  BY <2>1, NoLessThanItself
  <2>3. created' \in Nat  BY <2>1
  <2> QED  BY <2>1, <2>2, <2>3
<1>2. FileLocked(e)'  BY DEF FileLocked, EnvironmentsIInv, EnvironmentsTypeOK
<1>3. OwnReferences'  BY DEF OwnReferences, EnvironmentsIInv, NoTheme
<1>4. references' \in References /\ references' = ledger' /\ onStore' \subseteq Themes
  BY DEF EnvironmentsIInv, EnvironmentsTypeOK, NoUpdateLost
<1>5. \A s \in Stores : UpTo(created', references'[s])
  BY DEF EnvironmentsIInv, AllNumbered
<1> QED  BY <1>1, <1>2, <1>3, <1>4, <1>5, TaskFrame

\* What holds of an environment that is at work.
LEMMA TaskFacts ==
    ASSUME EnvironmentsIInv, NEW e \in Environments, Running(e)
    PROVE  /\ task[e] \in Tasks /\ run.stores[e] \in Stores /\ Knows(e) /\ FileLocked(e)
           /\ TaskUpTo(created, task[e]) /\ created \in Nat /\ onStore \subseteq Themes
           /\ references \in References /\ references = ledger
           /\ e # NoEnvironment
<1>1. run.stores[e] \in Stores
  BY DEF EnvironmentsIInv, EnvironmentsTypeOK, Running, Valid
<1>2. e # NoEnvironment  BY ThemeEnvironmentsAssumption DEF Environments, NoEnvironment
<1> QED
  BY <1>1, <1>2 DEF EnvironmentsIInv, EnvironmentsTypeOK, AllNumbered, NoUpdateLost

\* Reading the reference, and what the store answers about it.
LEMMA ReadStep ==
    ASSUME EnvironmentsIInv, NEW e \in Environments,
           ReadReference(e) \/ FetchTheme(e) \/ CompareReference(e) \/ FailEnvironment(e)
    PROVE  EnvironmentsIInv'
<1>1. Running(e)
  BY DEF ReadReference, FetchTheme, CompareReference, FailEnvironment, TaskAt
<1>2. /\ task[e] \in Tasks /\ run.stores[e] \in Stores /\ Knows(e)
      /\ TaskUpTo(created, task[e]) /\ references \in References
  BY <1>1, TaskFacts
<1>3. task \in [Environments -> Tasks]  BY DEF EnvironmentsIInv, EnvironmentsTypeOK
<1>4. UNCHANGED <<run, references, ledger, fileLock, onStore, created>>
  BY DEF ReadReference, FetchTheme, CompareReference, FailEnvironment, TaskGoto, TaskStep,
         fileVars, onStoreVars
<1>5. CASE ReadReference(e)
  <2> DEFINE t == references[run.stores[e]]
  <2>1. PICK at \in {"list", "fetch", "done", "create"} :
          /\ task' = [task EXCEPT ![e] = [task[e] EXCEPT !.theme = t, !.at = at]]
          /\ at = "fetch" => run.name # "info"
    BY <1>5 DEF ReadReference, TaskStep
  <2> DEFINE next == [task[e] EXCEPT !.theme = t, !.at = at]
  <2>2. /\ next \in Tasks /\ next.at = at /\ next.theme = t /\ next.update = task[e].update
        /\ next.deleted = task[e].deleted /\ next.doomed = task[e].doomed
    BY <1>2 DEF Tasks, References
  <2>3. task[e].at = "begin" /\ task' = [task EXCEPT ![e] = next] /\ task'[e] = next
    BY <1>3, <1>5, <2>1 DEF ReadReference, TaskAt
  <2> HIDE DEF next
  <2>4. TaskUpTo(created, next)  BY <1>2, <2>2 DEF TaskUpTo
  <2>5. Knows(e)'  BY <1>2, <1>4, <2>1, <2>2, <2>3 DEF Knows, NoTheme
  <2> QED  BY <1>1, <1>4, <2>2, <2>3, <2>4, <2>5, QuietTask
<1>6. CASE FetchTheme(e)
  <2>1. PICK at \in {"done", "remove"} :
          /\ task' = [task EXCEPT ![e] = [task[e] EXCEPT !.at = at]]
          /\ at = "remove" => ~Here(e, task[e].theme)
    BY <1>6 DEF FetchTheme, TaskGoto, TaskStep
  <2> DEFINE next == [task[e] EXCEPT !.at = at]
  <2>2. /\ next \in Tasks /\ next.at = at /\ next.update = task[e].update
        /\ next.deleted = task[e].deleted /\ next.doomed = task[e].doomed
    BY <1>2 DEF Tasks
  <2>3. task[e].at = "fetch" /\ task' = [task EXCEPT ![e] = next] /\ task'[e] = next
    BY <1>3, <1>6, <2>1 DEF FetchTheme, TaskAt
  <2> HIDE DEF next
  <2>4. TaskUpTo(created, next)  BY <1>2, <2>2 DEF TaskUpTo
  <2>5. at = "remove" => references[run.stores[e]] \notin onStore
    <3> SUFFICES ASSUME at = "remove", references[run.stores[e]] \in onStore  PROVE FALSE
      OBVIOUS
    <3>1. task[e].theme = references[run.stores[e]] /\ run.name # "info"
      BY <1>2, <2>3 DEF Knows
    <3>2. references[run.stores[e]] # NoTheme
      <4>1. onStore \subseteq Themes  BY DEF EnvironmentsIInv, EnvironmentsTypeOK
      <4>2. NoTheme \notin Themes  BY DEF Themes, NoTheme
      <4> QED  BY <4>1, <4>2
    <3>3. references[run.stores[e]][1] = run.stores[e]
      BY <1>2, <3>1, <3>2 DEF EnvironmentsIInv, OwnReferences
    <3> QED  BY <2>1, <3>1, <3>3 DEF Here
  <2>6. Knows(e)'  BY <1>2, <1>4, <2>2, <2>3, <2>5 DEF Knows, NoTheme
  <2> QED  BY <1>1, <1>4, <2>2, <2>3, <2>4, <2>6, QuietTask
<1>7. CASE CompareReference(e)
  <2>1. PICK at \in {"done", "remove"} :
          /\ task' = [task EXCEPT ![e] = [task[e] EXCEPT !.at = at]]
          /\ at = "remove" => references[run.stores[e]] \in task[e].deleted
    BY <1>7 DEF CompareReference, TaskGoto, TaskStep
  <2> DEFINE next == [task[e] EXCEPT !.at = at]
  <2>2. /\ next \in Tasks /\ next.at = at /\ next.update = task[e].update
        /\ next.deleted = task[e].deleted /\ next.doomed = task[e].doomed
    BY <1>2 DEF Tasks
  <2>3. task[e].at = "compare" /\ task' = [task EXCEPT ![e] = next] /\ task'[e] = next
    BY <1>3, <1>7, <2>1 DEF CompareReference, TaskAt
  <2> HIDE DEF next
  <2>4. TaskUpTo(created, next)  BY <1>2, <2>2 DEF TaskUpTo
  <2>5. Knows(e)'  BY <1>2, <1>4, <2>1, <2>2, <2>3 DEF Knows, NoTheme
  <2> QED  BY <1>1, <1>4, <2>2, <2>3, <2>4, <2>5, QuietTask
<1>8. CASE FailEnvironment(e)
  <2> DEFINE next == [task[e] EXCEPT !.at = "done"]
  <2>1. /\ next \in Tasks /\ next.at = "done" /\ next.update = task[e].update
        /\ next.deleted = task[e].deleted /\ next.doomed = task[e].doomed
    BY <1>2 DEF Tasks
  <2>2. task' = [task EXCEPT ![e] = next] /\ task'[e] = next
    BY <1>3, <1>8 DEF FailEnvironment, TaskGoto, TaskStep
  <2> HIDE DEF next
  <2>3. TaskUpTo(created, next)  BY <1>2, <2>1 DEF TaskUpTo
  <2>4. Knows(e)'  BY <1>2, <1>4, <2>1, <2>2 DEF Knows, NoTheme
  <2> QED  BY <1>1, <1>4, <2>1, <2>2, <2>3, <2>4, QuietTask
<1> QED  BY <1>5, <1>6, <1>7, <1>8

\* The themes of the store are listed.
LEMMA ListStep ==
    ASSUME EnvironmentsIInv, NEW e \in Environments, ListThemes(e)
    PROVE  EnvironmentsIInv'
<1>1. Running(e) /\ task[e].at = "list"  BY DEF ListThemes, TaskAt
<1>2. /\ task[e] \in Tasks /\ Knows(e) /\ TaskUpTo(created, task[e]) /\ onStore \subseteq Themes
  BY <1>1, TaskFacts
<1>3. task \in [Environments -> Tasks]  BY DEF EnvironmentsIInv, EnvironmentsTypeOK
<1>4. UNCHANGED <<run, references, ledger, fileLock, onStore, created>>
  BY DEF ListThemes, TaskStep, fileVars, onStoreVars
<1>5. PICK doomed \in SUBSET onStore, at \in {"done", "delete", "create"} :
        /\ task' = [task EXCEPT ![e] = [task[e] EXCEPT !.doomed = doomed, !.at = at]]
        /\ at = "delete" => run.name # "info"
  <2> DEFINE all == {t \in onStore : Here(e, t)}
             asked == IF task[e].theme = NoTheme THEN all ELSE all \cap {task[e].theme}
             doomed == IF run.name = "delete" THEN asked ELSE {}
             at == IF run.name = "delete" THEN (IF asked = {} THEN "done" ELSE "delete")
                   ELSE IF run.lastStore = NoStore \/ Here(e, task[e].theme) THEN "done"
                   ELSE "create"
  <2>1. task' = [task EXCEPT ![e] = [task[e] EXCEPT !.doomed = doomed, !.at = at]]
    BY DEF ListThemes, TaskStep
  <2>2. doomed \in SUBSET onStore /\ at \in {"done", "delete", "create"}
        /\ (at = "delete" => run.name # "info")
    OBVIOUS
  <2> HIDE DEF doomed, at
  <2> QED  BY <2>1, <2>2
<1> DEFINE next == [task[e] EXCEPT !.doomed = doomed, !.at = at]
<1>6. /\ next \in Tasks /\ next.at = at /\ next.update = task[e].update
      /\ next.deleted = task[e].deleted /\ next.doomed = doomed
  BY <1>2 DEF Tasks
<1>7. task' = [task EXCEPT ![e] = next] /\ task'[e] = next  BY <1>3, <1>5
<1> HIDE DEF next
<1>8. TaskUpTo(created, next)
  BY <1>2, <1>6 DEF TaskUpTo, EnvironmentsIInv, AllNumbered
<1>9. Knows(e)'  BY <1>1, <1>2, <1>4, <1>5, <1>6, <1>7 DEF Knows, NoTheme
<1> QED  BY <1>1, <1>4, <1>5, <1>6, <1>7, <1>8, <1>9, QuietTask

\* A theme is created, with a number of its own.
LEMMA CreateStep ==
    ASSUME EnvironmentsIInv, NEW e \in Environments, CreateTheme(e)
    PROVE  EnvironmentsIInv'
<1> DEFINE t == <<run.stores[e], created + 1>>
<1>1. Running(e) /\ task[e].at = "create"  BY DEF CreateTheme, TaskAt
<1>2. /\ task[e] \in Tasks /\ Knows(e) /\ TaskUpTo(created, task[e]) /\ onStore \subseteq Themes
      /\ run.stores[e] \in Stores /\ created \in Nat /\ references \in References
      /\ references = ledger
  BY <1>1, TaskFacts
<1>3. task \in [Environments -> Tasks]  BY DEF EnvironmentsIInv, EnvironmentsTypeOK
<1>4. UNCHANGED <<run, references, ledger, fileLock>>
  BY DEF CreateTheme, TaskStep, TaskGoto, fileVars
<1>5. onStore' = onStore \cup {t} /\ created' = created + 1  BY DEF CreateTheme
<1>6. t \in Themes /\ t[2] = created + 1 /\ t[1] = run.stores[e]  BY <1>2 DEF Themes
<1>7. t # NoTheme  BY DEF NoTheme
<1>8. PICK at \in {"store", "done"}, update \in {t, task[e].update} :
        /\ task' = [task EXCEPT ![e] = [task[e] EXCEPT !.at = at, !.update = update]]
        /\ at = "store" => update = t
  <2>1. [task[e] EXCEPT !.at = "done", !.update = task[e].update]
          = [task[e] EXCEPT !.at = "done"]
    BY <1>2 DEF Tasks
  <2> QED  BY <2>1 DEF CreateTheme, TaskStep, TaskGoto
<1> HIDE DEF t
<1> DEFINE next == [task[e] EXCEPT !.at = at, !.update = update]
<1>9. /\ next \in Tasks /\ next.at = at /\ next.update = update
      /\ next.deleted = task[e].deleted /\ next.doomed = task[e].doomed
  BY <1>2, <1>6 DEF Tasks
<1>10. task' = [task EXCEPT ![e] = next] /\ task'[e] = next  BY <1>3, <1>8
<1> HIDE DEF next
<1>11. \A x \in Themes \cup {NoTheme} : UpTo(created, x) => UpTo(created', x)
  BY <1>2, <1>5 DEF UpTo, Themes
<1>12. TaskUpTo(created', next)
  <2>1. UpTo(created', t)  BY <1>2, <1>5, <1>6 DEF UpTo
  <2> QED  BY <1>2, <1>9, <1>11, <2>1 DEF TaskUpTo, Tasks
<1>13. \A s \in Stores : UpTo(created', references'[s])
  BY <1>2, <1>4, <1>11 DEF EnvironmentsIInv, AllNumbered, References
<1>14. Knows(e)'
  <2>1. t \notin task[e].deleted
    BY <1>2, <1>6, <1>7 DEF TaskUpTo, UpTo
  <2> QED  BY <1>2, <1>4, <1>5, <1>6, <1>7, <1>8, <1>9, <1>10, <2>1 DEF Knows
<1>15. /\ \A x \in onStore' : x \in onStore \/ (x[2] > created /\ x[2] <= created')
       /\ onStore' \subseteq Themes /\ created' \in Nat /\ created <= created'
  BY <1>2, <1>5, <1>6
<1>16. FileLocked(e)'  BY <1>8, <1>9, <1>10 DEF FileLocked
<1>17. OwnReferences'  BY <1>4 DEF OwnReferences, EnvironmentsIInv, NoTheme
<1>18. references' \in References /\ references' = ledger'  BY <1>2, <1>4
<1> QED
  BY <1>1, <1>4, <1>9, <1>10, <1>12, <1>13, <1>14, <1>15, <1>16, <1>17, <1>18, TaskFrame

\* A theme is deleted by the command.
LEMMA DeleteThemeStep ==
    ASSUME EnvironmentsIInv, NEW e \in Environments, NEW t \in task[e].doomed, DeleteTheme(e, t)
    PROVE  EnvironmentsIInv'
<1>1. Running(e) /\ task[e].at = "delete"  BY DEF DeleteTheme, TaskAt
<1>2. /\ task[e] \in Tasks /\ Knows(e) /\ TaskUpTo(created, task[e]) /\ onStore \subseteq Themes
      /\ created \in Nat /\ references \in References /\ references = ledger
  BY <1>1, TaskFacts
<1>3. task \in [Environments -> Tasks]  BY DEF EnvironmentsIInv, EnvironmentsTypeOK
<1>4. UNCHANGED <<run, references, ledger, fileLock, created>> /\ onStore' = onStore \ {t}
  BY DEF DeleteTheme, TaskStep, fileVars
<1>5. PICK at \in {"done", "compare", "delete"} :
        task' = [task EXCEPT ![e] = [task[e] EXCEPT !.doomed = task[e].doomed \ {t},
                                        !.deleted = task[e].deleted \cup {t}, !.at = at]]
  BY DEF DeleteTheme, TaskStep
<1> DEFINE next == [task[e] EXCEPT !.doomed = task[e].doomed \ {t},
                                   !.deleted = task[e].deleted \cup {t}, !.at = at]
<1>6. /\ next \in Tasks /\ next.at = at /\ next.update = task[e].update
      /\ next.deleted = task[e].deleted \cup {t} /\ next.doomed = task[e].doomed \ {t}
  BY <1>2 DEF Tasks
<1>7. task' = [task EXCEPT ![e] = next] /\ task'[e] = next  BY <1>3, <1>5
<1> HIDE DEF next
<1>8. TaskUpTo(created', next)  BY <1>2, <1>4, <1>6 DEF TaskUpTo
<1>9. Knows(e)'  BY <1>1, <1>2, <1>4, <1>5, <1>6, <1>7 DEF Knows, NoTheme
<1>10. \A s \in Stores : UpTo(created', references'[s])
  BY <1>4 DEF EnvironmentsIInv, AllNumbered
<1>11. FileLocked(e)'  BY <1>5, <1>6, <1>7 DEF FileLocked
<1>12. OwnReferences'  BY <1>4 DEF OwnReferences, EnvironmentsIInv, NoTheme
<1>13. /\ onStore' \subseteq Themes /\ onStore' \subseteq onStore /\ created' \in Nat
       /\ created <= created' /\ references' \in References /\ references' = ledger'
  BY <1>2, <1>4
<1> QED
  BY <1>1, <1>4, <1>6, <1>7, <1>8, <1>9, <1>10, <1>11, <1>12, <1>13, TaskFrame

\* The lock is taken and the file is read.
LEMMA LoadStep ==
    ASSUME EnvironmentsIInv, NEW e \in Environments, LoadReferences(e)
    PROVE  EnvironmentsIInv'
<1>1. Running(e) /\ task[e].at \in {"store", "remove"} /\ fileLock = NoEnvironment
  BY DEF LoadReferences, TaskAt, LockFree
<1>2. /\ task[e] \in Tasks /\ Knows(e) /\ TaskUpTo(created, task[e]) /\ onStore \subseteq Themes
      /\ created \in Nat /\ references \in References /\ references = ledger
  BY <1>1, TaskFacts
<1>3. task \in [Environments -> Tasks]  BY DEF EnvironmentsIInv, EnvironmentsTypeOK
<1>4. UNCHANGED <<run, references, ledger, onStore, created>> /\ fileLock' = e
  BY DEF LoadReferences, TaskStep, onStoreVars
<1> DEFINE at == IF task[e].at = "store" THEN "save" ELSE "save removal"
           next == [task[e] EXCEPT !.loaded = references, !.at = at]
<1>5. task' = [task EXCEPT ![e] = next] /\ task'[e] = next
  BY <1>3 DEF LoadReferences, TaskStep
<1>6. /\ next \in Tasks /\ next.at = at /\ next.update = task[e].update
      /\ next.deleted = task[e].deleted /\ next.doomed = task[e].doomed
      /\ next.loaded = references
  BY <1>2 DEF Tasks
<1> HIDE DEF next
<1>7. TaskUpTo(created', next)  BY <1>2, <1>4, <1>6 DEF TaskUpTo
<1>8. Knows(e)'  BY <1>1, <1>2, <1>4, <1>5, <1>6 DEF Knows, NoTheme
<1>9. \A s \in Stores : UpTo(created', references'[s])
  BY <1>4 DEF EnvironmentsIInv, AllNumbered
<1>10. FileLocked(e)'  BY <1>4, <1>5, <1>6 DEF FileLocked
<1>11. OwnReferences'  BY <1>4 DEF OwnReferences, EnvironmentsIInv, NoTheme
<1>12. /\ onStore' \subseteq Themes /\ onStore' \subseteq onStore /\ created' \in Nat
       /\ created <= created' /\ references' \in References /\ references' = ledger'
  BY <1>2, <1>4
<1> QED
  BY <1>1, <1>4, <1>5, <1>6, <1>7, <1>8, <1>9, <1>10, <1>11, <1>12, TaskFrame

\* The changed file is renamed into place, or it stays as it was.
LEMMA SaveStep ==
    ASSUME EnvironmentsIInv, NEW e \in Environments, SaveReferences(e)
    PROVE  EnvironmentsIInv'
<1> DEFINE new == [references EXCEPT ![Key(e)] = task[e].update]
<1>1. Running(e) /\ task[e].at \in {"save", "save removal"}  BY DEF SaveReferences, TaskAt
<1>2. /\ task[e] \in Tasks /\ Knows(e) /\ TaskUpTo(created, task[e]) /\ onStore \subseteq Themes
      /\ created \in Nat /\ references \in References /\ references = ledger
      /\ run.stores[e] \in Stores /\ FileLocked(e)
  BY <1>1, TaskFacts
<1>3. task \in [Environments -> Tasks]  BY DEF EnvironmentsIInv, EnvironmentsTypeOK
<1>4. /\ UNCHANGED <<run, onStore, created>> /\ fileLock = e
      /\ \/ references' = new /\ ledger' = new
         \/ UNCHANGED <<references, ledger>>
  BY <1>1, <1>2 DEF SaveReferences, TaskGoto, TaskStep, FileLocked
<1>5. new \in References /\ \A s \in Stores : new[s] \in {references[s], task[e].update}
  BY <1>2 DEF References, Tasks
<1>6. references' \in References /\ references' = ledger'  BY <1>2, <1>4, <1>5
<1>7. PICK at \in {"create", "done"} :
        /\ task' = [task EXCEPT ![e] = [task[e] EXCEPT !.at = at]]
        /\ at = "create" => task[e].at = "save removal"
  BY DEF SaveReferences, TaskGoto, TaskStep
<1> DEFINE next == [task[e] EXCEPT !.at = at]
<1>8. /\ next \in Tasks /\ next.at = at /\ next.update = task[e].update
      /\ next.deleted = task[e].deleted /\ next.doomed = task[e].doomed
  BY <1>2 DEF Tasks
<1>9. task' = [task EXCEPT ![e] = next] /\ task'[e] = next  BY <1>3, <1>7
<1> HIDE DEF next
<1>10. TaskUpTo(created', next)  BY <1>2, <1>4, <1>8 DEF TaskUpTo
<1>11. Knows(e)'  BY <1>2, <1>4, <1>7, <1>8, <1>9 DEF Knows, NoTheme
<1>12. \A s \in Stores : UpTo(created', references'[s])
  <2>1. \A s \in Stores : references'[s] \in {references[s], task[e].update}
    BY <1>4, <1>5
  <2> QED  BY <1>2, <1>4, <2>1 DEF EnvironmentsIInv, AllNumbered, TaskUpTo
<1>13. FileLocked(e)'  BY <1>7, <1>8, <1>9 DEF FileLocked
<1>14. ASSUME run.name # "info"
       PROVE  /\ Key(e) = run.stores[e]
              /\ \A s \in Stores \ {run.stores[e]} : references'[s] = references[s]
  <2>1. Key(e) = run.stores[e]  BY <1>14 DEF Key
  <2> QED  BY <1>2, <1>4, <2>1 DEF References
<1>15. OwnReferences'
  <2> SUFFICES ASSUME run.name # "info", NEW s \in Stores, references'[s] # NoTheme
               PROVE  references'[s][1] = s
    BY <1>4 DEF OwnReferences, NoTheme
  <2>1. references[s] # NoTheme => references[s][1] = s
    BY DEF EnvironmentsIInv, OwnReferences
  <2>2. CASE s = run.stores[e]
    <3>1. references'[s] \in {references[s], task[e].update}  BY <1>4, <1>5
    <3>2. task[e].update # NoTheme => task[e].update[1] = run.stores[e]
      BY <1>1, <1>2 DEF Knows
    <3> QED  BY <2>1, <2>2, <3>1, <3>2
  <2>3. CASE s # run.stores[e]  BY <1>14, <2>1, <2>3
  <2> QED  BY <2>2, <2>3
<1>16. /\ onStore' \subseteq Themes /\ onStore' \subseteq onStore /\ created' \in Nat
       /\ created <= created'
  BY <1>2, <1>4
<1> QED
  BY <1>1, <1>4, <1>6, <1>8, <1>9, <1>10, <1>11, <1>12, <1>13, <1>14, <1>15, <1>16, TaskFrame

\* Nothing of what the environments know changes: a theme is deleted elsewhere,
\* or the command goes on when no environment is at work.
LEMMA ElsewhereStep ==
    ASSUME EnvironmentsIInv, \/ \E t \in onStore : LoseTheme(t)
                             \/ ConfirmRun \/ NextGroup \/ UNCHANGED environmentVars
    PROVE  EnvironmentsIInv'
<1> USE DEF EnvironmentsIInv, EnvironmentsTypeOK
<1>1. /\ UNCHANGED <<task, references, ledger, fileLock, created>> /\ onStore' \subseteq onStore
      /\ run'.name = run.name /\ run'.stores = run.stores
  BY DEF LoseTheme, ConfirmRun, NextGroup, environmentVars, taskVars, fileVars, onStoreVars
<1>2. run' \in [name : ThemeCommands, stores : [Environments -> Stores \cup {NoStore}],
                lastStore : Stores \cup {NoStore}, group : Nat, at : {"confirm", "run", "done"}]
  BY DEF LoseTheme, ConfirmRun, NextGroup, environmentVars, taskVars
<1>3. EnvironmentsTypeOK'
  BY <1>1, <1>2 DEF Tasks, References, Themes, NoTheme, Environments
<1>4. \A e \in Environments : AtWork(e)'
  <2>1. CASE run' = run
    <3>1. \A e \in Environments : Running(e)' = Running(e)
      BY <2>1 DEF Running, Valid, Group
    <3> QED  BY <1>1, <3>1 DEF AtWork
  <2>2. CASE ConfirmRun \/ NextGroup
    <3>1. \A e \in Environments : task[e].at \in {"begin", "done"}
      BY <2>2 DEF ConfirmRun, NextGroup, AtWork, Running
    <3> QED  BY <1>1, <3>1 DEF AtWork
  <2> QED  BY <2>1, <2>2 DEF LoseTheme, environmentVars, taskVars
<1>5. \A e \in Environments : FileLocked(e)'  BY <1>1 DEF FileLocked
<1>6. \A e \in Environments : Knows(e)'
  <2> SUFFICES ASSUME NEW e \in Environments  PROVE Knows(e)'
    OBVIOUS
  <2>1. Knows(e)  OBVIOUS
  <2> QED  BY <1>1, <2>1 DEF Knows, NoTheme
<1>7. AllNumbered'
  BY <1>1 DEF AllNumbered, TaskUpTo, UpTo, NoTheme
<1>8. OwnReferences'  BY <1>1 DEF OwnReferences, NoTheme
<1> QED  BY <1>1, <1>3, <1>4, <1>5, <1>6, <1>7, <1>8 DEF NoUpdateLost

\* Every step of a command over environments keeps the invariant.
LEMMA EnvironmentsStep ==
    EnvironmentsIInv /\ [EnvironmentsNext]_environmentVars => EnvironmentsIInv'
<1> SUFFICES ASSUME EnvironmentsIInv, [EnvironmentsNext]_environmentVars
             PROVE  EnvironmentsIInv'
  OBVIOUS
<1>1. ASSUME NEW e \in Environments,
             ReadReference(e) \/ FetchTheme(e) \/ CompareReference(e) \/ FailEnvironment(e)
      PROVE  EnvironmentsIInv'
  BY <1>1, ReadStep
<1>2. ASSUME NEW e \in Environments, ListThemes(e)  PROVE EnvironmentsIInv'
  BY <1>2, ListStep
<1>3. ASSUME NEW e \in Environments, CreateTheme(e)  PROVE EnvironmentsIInv'
  BY <1>3, CreateStep
<1>4. ASSUME NEW e \in Environments, LoadReferences(e)  PROVE EnvironmentsIInv'
  BY <1>4, LoadStep
<1>5. ASSUME NEW e \in Environments, SaveReferences(e)  PROVE EnvironmentsIInv'
  BY <1>5, SaveStep
<1>6. ASSUME NEW e \in Environments, NEW t \in task[e].doomed, DeleteTheme(e, t)
      PROVE  EnvironmentsIInv'
  BY <1>6, DeleteThemeStep
<1>7. CASE \/ \E t \in onStore : LoseTheme(t)
           \/ ConfirmRun \/ NextGroup \/ UNCHANGED environmentVars
  BY <1>7, ElsewhereStep
<1> QED  BY <1>1, <1>2, <1>3, <1>4, <1>5, <1>6, <1>7 DEF EnvironmentsNext

\* The invariant holds when the command begins.
LEMMA EnvironmentsInitial == EnvironmentsInit => EnvironmentsIInv
<1> SUFFICES ASSUME EnvironmentsInit  PROVE EnvironmentsIInv
  OBVIOUS
<1>1. \A s \in Stores : <<s, 0>> \in Themes /\ <<s, 0>>[1] = s /\ <<s, 0>>[2] = 0
  BY DEF Themes
<1>2. \A s \in Stores : references[s] \in {<<s, 0>>, NoTheme}
  BY DEF EnvironmentsInit
<1>3. references \in References  BY <1>1 DEF EnvironmentsInit, References
<1>4. NewTask \in Tasks  BY DEF NewTask, Tasks, References
<1>5. onStore \subseteq Themes /\ created = 0 /\ \A e \in Environments : task[e] = NewTask
  BY <1>1 DEF EnvironmentsInit
<1>6. EnvironmentsTypeOK
  BY <1>3, <1>4, <1>5 DEF EnvironmentsInit, EnvironmentsTypeOK
<1>7. \A e \in Environments : AtWork(e) /\ FileLocked(e) /\ Knows(e)
  <2>1. NewTask.at = "begin" /\ NewTask.update = NoTheme /\ NewTask.deleted = {}
        /\ NewTask.doomed = {}
    BY DEF NewTask
  <2> SUFFICES ASSUME NEW e \in Environments
               PROVE  AtWork(e) /\ FileLocked(e) /\ Knows(e)
    OBVIOUS
  <2>2. task[e] = NewTask  BY <1>5
  <2>3. AtWork(e)  BY <2>1, <2>2 DEF AtWork
  <2>4. FileLocked(e)  BY <2>1, <2>2 DEF FileLocked
  <2>5. Knows(e)  BY <2>1, <2>2 DEF Knows
  <2> QED  BY <2>3, <2>4, <2>5
<1>8. AllNumbered
  <2>1. \A t \in onStore : UpTo(created, t)  BY <1>1, <1>5 DEF UpTo, EnvironmentsInit
  <2>2. \A s \in Stores : UpTo(created, references[s])  BY <1>1, <1>2, <1>5 DEF UpTo
  <2>3. \A e \in Environments : TaskUpTo(created, task[e])
    BY <1>5 DEF TaskUpTo, UpTo, NewTask
  <2> QED  BY <2>1, <2>2, <2>3 DEF AllNumbered
<1>9. OwnReferences  BY <1>1, <1>2 DEF OwnReferences
<1>10. NoUpdateLost  BY DEF EnvironmentsInit, NoUpdateLost
<1> QED  BY <1>6, <1>7, <1>8, <1>9, <1>10 DEF EnvironmentsIInv

\* No update of the file of references is lost, whatever environments and stores
\* a command has (update).
THEOREM UpdatesKept == EnvironmentsSpec => []NoUpdateLost
<1>1. EnvironmentsIInv => NoUpdateLost  BY DEF EnvironmentsIInv
<1> QED  BY <1>1, EnvironmentsInitial, EnvironmentsStep, PTL DEF EnvironmentsSpec

\* A reference is removed only when its theme is gone, though the check and the
\* removal are apart: environments of one store never run together.
THEOREM StaleRemovals == EnvironmentsSpec => OnlyStaleRemoved
<1> DEFINE Removal == \A s \in Stores : references[s] # NoTheme /\ references'[s] = NoTheme =>
                          references[s] \notin onStore
<1>1. EnvironmentsIInv /\ [EnvironmentsNext]_environmentVars => [Removal]_environmentVars
  <2> SUFFICES ASSUME EnvironmentsIInv, EnvironmentsNext,
                      NEW s \in Stores, references[s] # NoTheme, references'[s] = NoTheme
               PROVE  references[s] \notin onStore
    BY DEF environmentVars
  <2>1. PICK e \in Environments : SaveReferences(e)
    BY DEF EnvironmentsNext, ConfirmRun, NextGroup, ReadReference, FetchTheme, ListThemes,
           CreateTheme, CompareReference, LoadReferences, FailEnvironment, DeleteTheme, LoseTheme,
           TaskGoto, TaskStep, fileVars
  <2>2. Running(e) /\ task[e].at \in {"save", "save removal"}
    BY <2>1 DEF SaveReferences, TaskAt
  <2>3. task[e] \in Tasks /\ Knows(e) /\ FileLocked(e) /\ references \in References
    BY <2>2, TaskFacts
  <2>4. references' = [references EXCEPT ![Key(e)] = task[e].update]
    BY <2>1, <2>2, <2>3 DEF SaveReferences, FileLocked
  <2>5. s = Key(e) /\ task[e].update = NoTheme  BY <2>3, <2>4 DEF References
  <2>6. task[e].at = "save removal"  BY <2>2, <2>3, <2>5 DEF Knows
  <2>7. run.name # "info" /\ references[run.stores[e]] \notin onStore
    BY <2>3, <2>6 DEF Knows
  <2> QED  BY <2>5, <2>7 DEF Key
<1> QED
  BY <1>1, EnvironmentsInitial, EnvironmentsStep, PTL DEF EnvironmentsSpec, OnlyStaleRemoved

\* But for `info`, which takes the store that was used last for its own, what is
\* kept for a store is a theme of that store (create_theme_manager).
THEOREM KeptByOwners == EnvironmentsSpec => [](run.name # "info" => KeptUnderItsStore)
<1>1. EnvironmentsIInv => (run.name # "info" => KeptUnderItsStore)
  BY DEF EnvironmentsIInv, OwnReferences, KeptUnderItsStore
<1> QED  BY <1>1, EnvironmentsInitial, EnvironmentsStep, PTL DEF EnvironmentsSpec
=============================================================================
