------------------------------ MODULE ThemePush ------------------------------
(***************************************************************************)
(* `shopify theme push`: theme/src/sync.rs (push) against a theme that     *)
(* rejects a file whose requirements are missing, rejects files at random, *)
(* loses requests, and is edited by the merchant meanwhile.                *)
(*                                                                         *)
(* The content of a file is a number, 0 if it does not exist.              *)
(***************************************************************************)
EXTENDS Naturals, FiniteSets, Functions

CONSTANTS
    Keys,        \* files of the theme
    Kind,        \* what each is
    Requires,    \* the files each needs on the theme, like a template its sections
    Size,        \* bytes
    Minimum,     \* MINIMUM_THEME_FILES
    Ignored,     \* files --ignore, --only or .shopifyignore exclude
    NoDelete,    \* --nodelete
    MaxFiles,    \* MUTATION_BATCH_SIZE
    MaxBytes,    \* UPLOAD_BATCH_BYTES
    MaxAttempts, \* MAX_UPLOAD_ATTEMPTS
    MaxFaults,   \* bound: spurious rejections and lost requests
    MaxEdits     \* bound: edits of the merchant

\* Mutant: templates go before the layouts and sections they use.
TemplatesFirstMutant ==
    [asset |-> 0, locale |-> 0, snippet |-> 0, schema |-> 1, template |-> 2, context |-> 3,
     layout |-> 4, block |-> 5, section |-> 6, sectionGroup |-> 7, data |-> 8]

\* classify; 0 is AssetGroup::Independent.
UploadGroup ==
    [asset |-> 0, locale |-> 0, snippet |-> 0, schema |-> 1, layout |-> 2, block |-> 3,
     section |-> 4, sectionGroup |-> 5, template |-> 6, context |-> 7, data |-> 8]

\* classify_deletion
DeleteGroup ==
    [context |-> 0, template |-> 1, sectionGroup |-> 2, locale |-> 3, section |-> 4, block |-> 5,
     layout |-> 6, snippet |-> 7, data |-> 8, schema |-> 9, asset |-> 10]

\* A file may require those of lower layers, other than 0: a template its
\* sections, a section its blocks.
Layer ==
    [asset |-> 0, locale |-> 0, snippet |-> 0, schema |-> 0, data |-> 0, layout |-> 1, block |-> 2,
     section |-> 3, sectionGroup |-> 4, template |-> 5, context |-> 6]

ASSUME ThemePushAssumption ==
    /\ IsFiniteSet(Keys) /\ Kind \in [Keys -> DOMAIN UploadGroup]
    /\ Requires \in [Keys -> SUBSET Keys] /\ Size \in [Keys -> Nat]
    /\ Minimum \subseteq Keys /\ Ignored \subseteq Keys
    /\ \A k \in Minimum : Requires[k] = {}
    /\ NoDelete \in BOOLEAN
    /\ {MaxFiles, MaxAttempts} \subseteq Nat \ {0}
    /\ {MaxBytes, MaxFaults, MaxEdits} \subseteq Nat

ASSUME RequirementsAssumption ==
    \A k \in Keys : \A j \in Requires[k] : Layer[Kind[j]] \in 1..(Layer[Kind[k]] - 1)

VARIABLES
    local,       \* ThemeFileSystem.files, scanned before and filtered
    remote,      \* the files of the theme
    phase,       \* what push awaits
    upload,      \* PushPlan.upload: the content each file is to get
    drop,        \* PushPlan.delete, as far as it is left
    work,        \* the files each of the two upload futures has left
    pending,     \* the files reconcile_upload has not seen accepted
    attempts,    \* its requests for them
    request,     \* its request: none, sent, answered, failed
    accepted,    \* the files an answer says were accepted
    report,      \* SyncReport
    faults, edits

planVars == <<upload, drop>>
flowVars == <<work, pending, attempts, request, accepted>>
pushVars == <<local, remote, phase, planVars, flowVars, report, faults, edits>>

Flows == {"independent", "dependent"}
Absent == 0
Default == 4     \* the contents of MINIMUM_THEME_ASSETS
Merchant == 3    \* any content the merchant writes
Contents == 0..4

Present(files) == {k \in Keys : files[k] # Absent}
Closed(present) == \A k \in present : Requires[k] \subseteq present

PushInit ==
    /\ local \in [Keys -> {0, 1}] /\ remote \in [Keys -> {0, 1, 2}]
    /\ Present(local) \cap Ignored = {}
    /\ Closed(Present(remote)) /\ Closed(Present(local) \cup (Present(remote) \cap Ignored))
    /\ phase = "start"
    /\ upload = [k \in Keys |-> Absent] /\ drop = {}
    /\ work = [f \in Flows |-> {}] /\ pending = [f \in Flows |-> {}]
    /\ attempts = [f \in Flows |-> 0] /\ request = [f \in Flows |-> "none"]
    /\ accepted = [f \in Flows |-> {}]
    /\ report = [k \in Keys |-> "none"]
    /\ faults = 0 /\ edits = 0

-----------------------------------------------------------------------------
(* The plan *)

\* The order of the names.
Place == CHOOSE place \in [Keys -> 1..Cardinality(Keys)] : IsInjective(place)

Before(group, j, k) ==
    \/ group[Kind[j]] < group[Kind[k]]
    \/ group[Kind[j]] = group[Kind[k]] /\ Place[j] < Place[k]

\* The batch comes first of the files.
Leads(batch, files, group) ==
    /\ batch # {}
    /\ \A k \in batch, j \in files \ batch : Before(group, k, j)

\* upload_batches: as many files of a group as the limits allow, but at least one.
Fits(batch) ==
    \/ Cardinality(batch) = 1
    \/ Cardinality(batch) <= MaxFiles /\ FoldFunctionOnSet(+, 0, Size, batch) <= MaxBytes
SameGroup(files) == {k \in files : \A j \in files : UploadGroup[Kind[k]] <= UploadGroup[Kind[j]]}
Batches(files) ==
    {batch \in SUBSET SameGroup(files) : Leads(batch, SameGroup(files), UploadGroup) /\ Fits(batch)}
Batch(files) ==
    {b \in Batches(files) : \A other \in Batches(files) : Cardinality(other) <= Cardinality(b)}

\* ordered_upload_work
Independent(files) == {k \in files : UploadGroup[Kind[k]] = 0}

\* ordered_deletions and batches
DeleteBatch(files) ==
    {batch \in SUBSET files :
        /\ Leads(batch, files, DeleteGroup)
        /\ Cardinality(batch) = MaxFiles \/ (batch = files /\ Cardinality(files) < MaxFiles)}

\* Mutant: files the theme has are not updated.
NewFilesMutant(k) ==
    LET seen == IF k \in Ignored THEN Absent ELSE remote[k] IN
    IF local[k] # Absent /\ seen = Absent THEN local[k]
    ELSE IF k \in Minimum /\ local[k] = Absent /\ seen = Absent THEN Default
    ELSE Absent

\* plan_push.  Ignored files are missing from what it compares with, too.
Upload(k) ==
    LET seen == IF k \in Ignored THEN Absent ELSE remote[k] IN
    IF local[k] # Absent /\ local[k] # seen THEN local[k]
    ELSE IF k \in Minimum /\ local[k] = Absent /\ seen = Absent THEN Default
    ELSE Absent
Deleted == IF NoDelete THEN {} ELSE Present(remote) \ (Ignored \cup Minimum \cup Present(local))

Plan ==
    /\ phase = "start"
    /\ phase' = "uploading"
    /\ upload' = [k \in Keys |-> Upload(k)]
    /\ drop' = Deleted
    /\ LET files == Present(upload') IN
       work' = [f \in Flows |-> IF f = "independent" THEN Independent(files)
                                ELSE files \ Independent(files)]
    /\ UNCHANGED <<local, remote, pending, attempts, request, accepted, report, faults, edits>>

PlanFails ==
    /\ phase = "start" /\ faults < MaxFaults
    /\ phase' = "aborted" /\ faults' = faults + 1
    /\ UNCHANGED <<local, remote, planVars, flowVars, report, edits>>

-----------------------------------------------------------------------------
(* The two upload futures, each one request at a time *)

Send(f) ==
    /\ phase = "uploading" /\ request[f] = "none"
    /\ \/ /\ pending[f] # {}
          /\ attempts' = [attempts EXCEPT ![f] = @ + 1]
          /\ UNCHANGED <<pending, work>>
       \/ /\ pending[f] = {} /\ work[f] # {}
          /\ attempts' = [attempts EXCEPT ![f] = 1]
          /\ \E batch \in Batch(work[f]) :
                 /\ pending' = [pending EXCEPT ![f] = batch]
                 /\ work' = [work EXCEPT ![f] = @ \ batch]
    /\ request' = [request EXCEPT ![f] = "sent"]
    /\ UNCHANGED <<local, remote, phase, planVars, accepted, report, faults, edits>>

\* The theme takes the files of the request that it has all requirements of;
\* it may reject others for no reason, or the answer may not arrive.
Serve(f, rejected, answer) ==
    /\ request[f] = "sent"
    /\ LET taken == {k \in pending[f] \ rejected : Requires[k] \subseteq Present(remote)} IN
       /\ remote' = [k \in Keys |-> IF k \in taken THEN upload[k] ELSE remote[k]]
       /\ accepted' = [accepted EXCEPT ![f] = taken]
    /\ LET new == Cardinality(rejected) + (IF answer = "failed" THEN 1 ELSE 0) IN
       faults + new <= MaxFaults /\ faults' = faults + new
    /\ request' = [request EXCEPT ![f] = answer]
    /\ UNCHANGED <<local, phase, planVars, work, pending, attempts, report, edits>>

Lose(f) ==
    /\ request[f] = "sent"
    /\ request' = [request EXCEPT ![f] = "failed"]
    /\ faults < MaxFaults /\ faults' = faults + 1
    /\ UNCHANGED <<local, remote, phase, planVars, work, pending, attempts, accepted, report, edits>>

\* Mutant: an answer counts for all files of the request.
AllDoneMutant(f) ==
    /\ phase = "uploading" /\ request[f] = "answered"
    /\ request' = [request EXCEPT ![f] = "none"]
    /\ pending' = [pending EXCEPT ![f] = {}]
    /\ report' = [k \in Keys |-> IF k \in pending[f] THEN "ok" ELSE report[k]]
    /\ UNCHANGED <<local, remote, phase, planVars, work, attempts, accepted, faults, edits>>

\* Mutant: rejected files are sent again until they are accepted.
ForeverMutant(f) ==
    /\ phase = "uploading" /\ request[f] = "answered"
    /\ request' = [request EXCEPT ![f] = "none"]
    /\ pending' = [pending EXCEPT ![f] = @ \ accepted[f]]
    /\ report' = [k \in Keys |-> IF k \in accepted[f] THEN "ok" ELSE report[k]]
    /\ attempts' = [attempts EXCEPT ![f] = 0]
    /\ UNCHANGED <<local, remote, phase, planVars, work, accepted, faults, edits>>

\* reconcile_upload keeps what was not accepted, and gives up in the end.
Receive(f) ==
    /\ phase = "uploading" /\ request[f] = "answered"
    /\ request' = [request EXCEPT ![f] = "none"]
    /\ LET left == pending[f] \ accepted[f]
           over == attempts[f] = MaxAttempts IN
       /\ pending' = [pending EXCEPT ![f] = IF over THEN {} ELSE left]
       /\ report' = [k \in Keys |-> IF k \in accepted[f] THEN "ok"
                                    ELSE IF over /\ k \in left THEN "failed"
                                    ELSE report[k]]
    /\ UNCHANGED <<local, remote, phase, planVars, work, attempts, accepted, faults, edits>>

\* try_join! drops the other future; its request may still be served.
Abort(f) ==
    /\ phase = "uploading" /\ request[f] = "failed"
    /\ phase' = "aborted"
    /\ UNCHANGED <<local, remote, planVars, flowVars, report, faults, edits>>

Idle(f) == request[f] = "none" /\ pending[f] = {} /\ work[f] = {}

-----------------------------------------------------------------------------
(* Deletions, one batch at a time *)

\* Mutant: does not wait for both futures.
SomeIdleMutant ==
    /\ phase = "uploading" /\ \E f \in Flows : Idle(f)
    /\ phase' = "deleting"
    /\ UNCHANGED <<local, remote, planVars, flowVars, report, faults, edits>>

StartDeleting ==
    /\ phase = "uploading" /\ \A f \in Flows : Idle(f)
    /\ phase' = "deleting"
    /\ UNCHANGED <<local, remote, planVars, flowVars, report, faults, edits>>

\* The theme deletes the files in order, and keeps what others still require.
Remove(batch, rejected) ==
    \E gone \in SUBSET batch :
        /\ gone = {k \in batch \ rejected : \A other \in Present(remote) :
                      k \in Requires[other] => other \in gone /\ Before(DeleteGroup, other, k)}
        /\ remote' = [k \in Keys |-> IF k \in gone THEN Absent ELSE remote[k]]

Delete(batch, rejected) ==
    /\ phase = "deleting"
    /\ Remove(batch, rejected)
    /\ faults + Cardinality(rejected) <= MaxFaults /\ faults' = faults + Cardinality(rejected)
    /\ drop' = drop \ batch
    /\ report' = [k \in Keys |-> IF k \notin batch THEN report[k]
                                 ELSE IF remote'[k] = Absent THEN "ok" ELSE "failed"]
    /\ UNCHANGED <<local, phase, upload, flowVars, edits>>

DeleteFails(batch) ==
    /\ phase = "deleting"
    /\ faults < MaxFaults /\ faults' = faults + 1
    /\ Remove(batch, {}) \/ UNCHANGED remote
    /\ phase' = "aborted"
    /\ UNCHANGED <<local, planVars, flowVars, report, edits>>

Finish ==
    /\ phase = "deleting" /\ drop = {}
    /\ phase' = "done"
    /\ UNCHANGED <<local, remote, planVars, flowVars, report, faults, edits>>

-----------------------------------------------------------------------------
(* The merchant, in the theme editor *)

Save(k) ==
    /\ edits < MaxEdits /\ edits' = edits + 1
    /\ Requires[k] \subseteq Present(remote)
    /\ remote' = [remote EXCEPT ![k] = Merchant]
    /\ UNCHANGED <<local, phase, planVars, flowVars, report, faults>>

Discard(k) ==
    /\ edits < MaxEdits /\ edits' = edits + 1
    /\ k \in Present(remote) /\ \A other \in Present(remote) : k \notin Requires[other]
    /\ remote' = [remote EXCEPT ![k] = Absent]
    /\ UNCHANGED <<local, phase, planVars, flowVars, report, faults>>

Served(f) ==
    \E rejected \in SUBSET pending[f], answer \in {"answered", "failed"} :
        Serve(f, rejected, answer)
DropNext ==
    \E batch \in DeleteBatch(drop) :
        DeleteFails(batch) \/ \E rejected \in SUBSET batch : Delete(batch, rejected)
PushStep ==
    \/ Plan \/ PlanFails \/ StartDeleting \/ DropNext \/ Finish
    \/ \E f \in Flows : Send(f) \/ Served(f) \/ Lose(f) \/ Receive(f) \/ Abort(f)

PushNext == PushStep \/ \E k \in Keys : Save(k) \/ Discard(k)

PushSpec == PushInit /\ [][PushNext]_pushVars

\* Every request is answered or fails.  The merchant need not edit.
FairPushSpec == PushSpec /\ WF_pushVars(PushStep)

-----------------------------------------------------------------------------
(* Properties *)

PushTypeOK ==
    /\ local \in [Keys -> {0, 1}] /\ remote \in [Keys -> Contents]
    /\ phase \in {"start", "uploading", "deleting", "done", "aborted"}
    /\ upload \in [Keys -> Contents]
    /\ drop \subseteq Keys
    /\ work \in [Flows -> SUBSET Keys] /\ pending \in [Flows -> SUBSET Keys]
    /\ attempts \in [Flows -> 0..MaxAttempts]
    /\ request \in [Flows -> {"none", "sent", "answered", "failed"}]
    /\ accepted \in [Flows -> SUBSET Keys]
    /\ report \in [Keys -> {"none", "ok", "failed"}]
    /\ faults \in 0..MaxFaults /\ edits \in 0..MaxEdits

\* What `theme push` reports of a file is true of the theme: uploaded files
\* have their content, deleted ones are gone, failed ones are not; nothing of
\* the plan is missing from the report.
ReportTruthful ==
    phase = "done" /\ edits = 0 =>
        \A k \in Keys : /\ upload[k] # Absent => report[k] = IF remote[k] = upload[k] THEN "ok" ELSE "failed"
                        /\ upload[k] = Absent /\ report[k] # "none" =>
                               report[k] = IF remote[k] = Absent THEN "ok" ELSE "failed"

\* A push that reports no failure has made the theme what the disk is, but
\* for the files it was told to leave alone and those no theme can do without.
MirrorsDisk ==
    phase = "done" /\ edits = 0 /\ (\A k \in Keys : report[k] # "failed") =>
        \A k \in Keys \ (Ignored \cup Minimum) :
            remote[k] = local[k] \/ (NoDelete /\ local[k] = Absent)

\* The theme never gets a file before what it requires, nor loses a file
\* others still require: without the merchant, fewer spurious rejections than
\* attempts make no upload fail, and no deletion fails without one.
OrderPreventsFailures ==
    edits = 0 => /\ faults < MaxAttempts => \A k \in Present(upload) : report[k] # "failed"
                 /\ faults = 0 => \A k \in Keys : report[k] # "failed"

\* Nothing is deleted while an upload may still fail the push.
DeletesLast ==
    [][edits' = edits =>
        \A k \in Keys : remote[k] # Absent /\ remote'[k] = Absent =>
            \A other \in Present(upload) : report[other] # "none"]_pushVars

PushOrder == []OrderPreventsFailures /\ DeletesLast

\* A push ends, whatever the theme rejects.
PushEnds == <>(phase \in {"done", "aborted"})

\* The test plan_push_creates_missing_minimum_assets: the minimum files are
\* only created where they are missing.
CreatesOnlyMissing ==
    [][\A k \in Keys : remote'[k] = Default /\ remote[k] # Default => remote[k] = Absent]_pushVars
=============================================================================
