-------------------------- MODULE ThemePush_proofs --------------------------
(***************************************************************************)
(* Proofs about `shopify theme push` (ThemePush): that its report is true  *)
(* of the theme, that a push without failures makes the theme what the     *)
(* disk is, that nothing is deleted while an upload may still fail, and    *)
(* that the order of the requests causes no failure.                       *)
(*                                                                         *)
(* Every planned file is in one place at a time: left for its future,      *)
(* pending in a request, or reported; every planned deletion is left or    *)
(* reported.  What the theme has of a file follows from its place.         *)
(***************************************************************************)
EXTENDS ThemePush, FiniteSetTheorems, TLAPS

-----------------------------------------------------------------------------
(* The inductive invariant *)

Planned == phase # "start"
Uploads == Present(upload)

PushTypes ==
    /\ local \in [Keys -> {0, 1}] /\ remote \in [Keys -> Contents]
    /\ phase \in {"start", "uploading", "deleting", "done", "aborted"}
    /\ upload \in [Keys -> Contents]
    /\ drop \subseteq Keys
    /\ work \in [Flows -> SUBSET Keys] /\ pending \in [Flows -> SUBSET Keys]
    /\ request \in [Flows -> {"none", "sent", "answered", "failed"}]
    /\ accepted \in [Flows -> SUBSET Keys]
    /\ report \in [Keys -> {"none", "ok", "failed"}]
    /\ edits \in Nat

\* The two futures never have the same file.
Own(f) == IF f = "independent" THEN Independent(Uploads) ELSE Uploads \ Independent(Uploads)

FlowPlaces(f) ==
    /\ work[f] \subseteq Own(f) /\ pending[f] \subseteq Own(f)
    /\ work[f] \cap pending[f] = {}
    /\ pending[f] = {} => request[f] = "none"
    /\ request[f] = "answered" => accepted[f] \subseteq pending[f]
    /\ \A k \in work[f] \cup pending[f] : report[k] = "none"
    /\ \A k \in Own(f) \ (work[f] \cup pending[f]) : report[k] # "none"

Places ==
    /\ ~ Planned => Uploads = {} /\ drop = {} /\ \A k \in Keys : report[k] = "none"
    /\ \A f \in Flows : FlowPlaces(f)
    /\ drop \cap Uploads = {}
    /\ \A k \in drop : report[k] = "none"

\* From the moment push waits for the deletions all uploads are over.
Waits == phase \in {"deleting", "done"} =>
             \A f \in Flows : work[f] = {} /\ pending[f] = {}
Emptied == phase = "done" => drop = {}

\* What the plan leaves to do: the rest is as the disk is.
Compared ==
    /\ \A k \in Uploads \ Minimum : upload[k] = local[k]
    /\ Present(local) \cap (drop \cup Ignored) = {}
    /\ edits = 0 /\ ~ Planned => \A k \in Keys : remote[k] # Default

\* What the theme has of the planned files.
FlowUploads(f) ==
    /\ \A k \in work[f] : remote[k] # upload[k]
    /\ request[f] \in {"none", "sent"} => \A k \in pending[f] : remote[k] # upload[k]
    /\ request[f] = "answered" =>
           \A k \in pending[f] : (k \in accepted[f]) <=> remote[k] = upload[k]

Uploading == edits = 0 => \A f \in Flows : FlowUploads(f)

Reported ==
    edits = 0 =>
        \A k \in Keys : report[k] # "none" =>
            report[k] = IF remote[k] = upload[k] THEN "ok" ELSE "failed"

Untouched ==
    edits = 0 /\ phase \notin {"start", "aborted"} =>
        \A k \in Keys \ (Ignored \cup Minimum \cup Uploads) :
            IF local[k] # Absent THEN remote[k] = local[k]
            ELSE NoDelete \/ k \in drop \/ remote[k] = Absent \/ report[k] = "failed"

PushInv ==
    /\ PushTypes /\ Places /\ Waits /\ Emptied /\ Compared
    /\ Uploading /\ Reported /\ Untouched

-----------------------------------------------------------------------------
(* The plan *)

LEMMA PushStart == PushInit => PushInv
  <1> SUFFICES ASSUME PushInit PROVE PushInv
    OBVIOUS
  <1>1. \A k \in Keys : local[k] \in {0, 1} /\ remote[k] \in {0, 1, 2} /\ upload[k] = 0
    BY DEF PushInit, Absent
  <1>2. remote \in [Keys -> Contents] /\ upload \in [Keys -> Contents]
    BY DEF PushInit, Contents, Absent
  <1>3. PushTypes
    BY <1>2, Zenon DEF PushInit, PushTypes
  <1>4. Uploads = {}
    BY <1>1 DEF Uploads, Present, Absent
  <1>5. Places /\ Waits /\ Emptied
    BY <1>4 DEF PushInit, Places, FlowPlaces, Waits, Emptied, Planned, Own, Independent
  <1>6. Compared
    BY <1>1, <1>4 DEF PushInit, Compared, Planned, Present, Default, Absent
  <1>7. Uploading /\ Reported /\ Untouched
    BY DEF PushInit, Uploading, FlowUploads, Reported, Untouched
  <1> QED
    BY <1>3, <1>5, <1>6, <1>7 DEF PushInv

\* plan_push, file by file.
LEMMA UploadFacts ==
    ASSUME PushTypes, NEW k \in Keys
    PROVE  /\ Upload(k) \in Contents
           /\ Upload(k) # Absent => k \in Minimum \/ (k \in Present(local) /\ Upload(k) = local[k])
           /\ Upload(k) # Absent /\ remote[k] # Default /\ k \notin Ignored => Upload(k) # remote[k]
           /\ Upload(k) # Absent /\ remote[k] # Default /\ local[k] = Absent => Upload(k) # remote[k]
           /\ Upload(k) = Absent /\ k \notin Ignored /\ local[k] # Absent => remote[k] = local[k]
  BY DEF PushTypes, Upload, Contents, Present, Absent, Default

LEMMA PlanKeeps ==
    ASSUME PushInv, Plan
    PROVE  PushInv'
  <1> USE DEF PushInv
  <1>1. /\ phase = "start" /\ phase' = "uploading"
        /\ upload' = [k \in Keys |-> Upload(k)] /\ drop' = Deleted
        /\ work' = [f \in Flows |-> IF f = "independent" THEN Independent(Uploads')
                                    ELSE Uploads' \ Independent(Uploads')]
        /\ UNCHANGED <<local, remote, pending, attempts, request, accepted, report, faults, edits>>
    BY DEF Plan, Uploads
  <1>2. \A k \in Keys : upload'[k] = Upload(k)
    BY <1>1
  <1>3. Uploads' = {k \in Keys : Upload(k) # Absent}
    BY <1>2 DEF Uploads, Present
  <1>4. upload' \in [Keys -> Contents]
    BY <1>1, UploadFacts
  <1>5. drop' \subseteq Present(remote) \ (Ignored \cup Minimum \cup Present(local))
    BY <1>1 DEF Deleted
  <1>6. \A f \in Flows : work'[f] = Own(f)'
    BY <1>1 DEF Own
  <1>7. \A f \in Flows : Own(f)' \subseteq Uploads'
    BY DEF Own, Independent
  <1>8. PushTypes'
    <2>1. drop' \subseteq Keys
      BY <1>5 DEF Present
    <2>2. work' \in [Flows -> SUBSET Keys]
      BY <1>1, <1>3 DEF Independent
    <2> QED
      BY <1>1, <1>4, <2>1, <2>2 DEF PushTypes
  <1>9. ~ Planned /\ Uploads = {} /\ drop = {}
    BY <1>1 DEF Places, Planned
  <1>10. \A f \in Flows : pending[f] = {} /\ request[f] = "none" /\ Own(f) = {}
    BY <1>9 DEF Places, FlowPlaces, Own, Independent
  <1>11. \A k \in Keys : report[k] = "none"
    BY <1>1 DEF Places, Planned
  <1>12. Places'
    <2>1. Planned'
      BY <1>1 DEF Planned
    <2>2. drop' \cap Uploads' = {}
      BY <1>3, <1>5, UploadFacts
    <2>3. drop' \subseteq Keys /\ Uploads' \subseteq Keys
      BY <1>3, <1>8 DEF PushTypes
    <2>4. ASSUME NEW f \in Flows PROVE FlowPlaces(f)'
      BY <1>1, <1>6, <1>7, <1>10, <1>11, <2>3 DEF FlowPlaces
    <2> QED
      BY <1>1, <1>11, <2>1, <2>2, <2>3, <2>4 DEF Places
  <1>13. Waits' /\ Emptied'
    BY <1>1 DEF Waits, Emptied
  <1>14. Compared'
    <2>1. \A k \in Uploads' \ Minimum : upload'[k] = local[k]
      BY <1>2, <1>3, UploadFacts
    <2>2. Present(local) \cap (drop' \cup Ignored) = {}
      BY <1>5 DEF Compared
    <2> QED
      BY <1>1, <2>1, <2>2 DEF Compared, Planned, Present
  <1>15. Uploading'
    <2>1. ASSUME edits = 0, NEW k \in Uploads' PROVE remote[k] # upload'[k]
      <3>1. k \in Keys /\ remote[k] # Default /\ Upload(k) # Absent
        BY <1>3, <1>9, <2>1 DEF Compared
      <3>2. local[k] = Absent \/ k \notin Ignored
        BY <3>1 DEF Compared, Present
      <3> QED
        BY <1>2, <3>1, <3>2, UploadFacts
    <2> QED
      BY <1>1, <1>6, <1>7, <1>10, <2>1 DEF Uploading, FlowUploads
  <1>16. Reported'
    BY <1>1, <1>11 DEF Reported
  <1>17. Untouched'
    <2> SUFFICES ASSUME edits = 0, NEW k \in Keys \ (Ignored \cup Minimum \cup Uploads')
                 PROVE  IF local[k] # Absent THEN remote[k] = local[k]
                        ELSE NoDelete \/ k \in drop' \/ remote[k] = Absent \/ report[k] = "failed"
      BY <1>1 DEF Untouched
    <2>1. CASE local[k] # Absent
      BY <1>3, <2>1, UploadFacts
    <2>2. CASE local[k] = Absent
      BY <1>1, <2>2 DEF Deleted, Present
    <2> QED
      BY <2>1, <2>2
  <1> QED
    BY <1>8, <1>12, <1>13, <1>14, <1>15, <1>16, <1>17

LEMMA PlanFailsKeeps ==
    ASSUME PushInv, PlanFails
    PROVE  PushInv'
  <1> USE DEF PushInv
  <1>1. /\ phase = "start" /\ phase' = "aborted" /\ ~ Planned
        /\ UNCHANGED <<local, remote, planVars, flowVars, report, edits>>
    BY DEF PlanFails, Planned
  <1>2. PushTypes' /\ Waits' /\ Emptied'
    BY <1>1 DEF PushTypes, Waits, Emptied, planVars, flowVars
  <1>3. Places' /\ Compared'
    BY <1>1 DEF Places, FlowPlaces, Compared, Own, Uploads, Planned, planVars, flowVars
  <1>4. Uploading' /\ Reported' /\ Untouched'
    BY <1>1 DEF Uploading, FlowUploads, Reported, Untouched, planVars, flowVars
  <1> QED
    BY <1>2, <1>3, <1>4

-----------------------------------------------------------------------------
(* The two futures *)

\* A batch is taken from the files left.
LEMMA BatchFacts ==
    ASSUME NEW S, NEW batch \in Batch(S)
    PROVE  batch \subseteq S /\ batch # {}
  BY DEF Batch, Batches, SameGroup, Leads

LEMMA OwnFacts ==
    /\ \A f, g \in Flows : f # g => Own(f) \cap Own(g) = {}
    /\ Uploads = UNION {Own(f) : f \in Flows}
    /\ \A f \in Flows : Own(f) \subseteq Uploads
  BY DEF Own, Flows, Independent

LEMMA SendKeeps ==
    ASSUME PushInv, NEW f \in Flows, Send(f)
    PROVE  PushInv'
  <1> USE DEF PushInv
  <1>1. /\ phase = "uploading" /\ request[f] = "none"
        /\ request' = [request EXCEPT ![f] = "sent"]
        /\ UNCHANGED <<local, remote, phase, upload, drop, accepted, report, faults, edits>>
    BY DEF Send, planVars
  <1>2. PICK p, w : /\ pending' = [pending EXCEPT ![f] = p] /\ work' = [work EXCEPT ![f] = w]
                    /\ p # {} /\ w \cap p = {} /\ w \cup p = work[f] \cup pending[f]
                    /\ p \subseteq work[f] \cup pending[f]
    <2>1. CASE pending[f] # {} /\ UNCHANGED <<pending, work>>
      <3>1. pending' = [pending EXCEPT ![f] = pending[f]] /\ work' = [work EXCEPT ![f] = work[f]]
        BY <2>1 DEF PushTypes
      <3>2. work[f] \cap pending[f] = {}
        BY DEF Places, FlowPlaces
      <3> QED
        BY <2>1, <3>1, <3>2
    <2>2. CASE pending[f] = {} /\ work[f] # {}
      <3>1. PICK batch \in Batch(work[f]) : /\ pending' = [pending EXCEPT ![f] = batch]
                                            /\ work' = [work EXCEPT ![f] = work[f] \ batch]
        BY <2>2 DEF Send
      <3>2. batch \subseteq work[f] /\ batch # {}
        BY <3>1, BatchFacts
      <3> QED
        BY <2>2, <3>1, <3>2
    <2> QED
      BY <2>1, <2>2 DEF Send
  <1>3. /\ pending'[f] = p /\ work'[f] = w /\ request'[f] = "sent"
        /\ \A g \in Flows \ {f} : /\ pending'[g] = pending[g] /\ work'[g] = work[g]
                                  /\ request'[g] = request[g]
    BY <1>1, <1>2 DEF PushTypes
  <1>4. work[f] \cup pending[f] \subseteq Keys
    BY DEF PushTypes
  <1>5. PushTypes'
    BY <1>1, <1>2, <1>4 DEF PushTypes
  <1>6. Uploads' = Uploads /\ (\A g \in Flows : Own(g)' = Own(g)) /\ (Planned' <=> Planned)
    BY <1>1 DEF Uploads, Own, Planned
  <1>7. FlowPlaces(f)'
    <2>1. FlowPlaces(f)
      BY DEF Places
    <2> QED
      BY <1>1, <1>2, <1>3, <1>6, <2>1 DEF FlowPlaces
  <1>8. ASSUME NEW g \in Flows \ {f} PROVE FlowPlaces(g)'
    BY <1>1, <1>3, <1>6 DEF Places, FlowPlaces
  <1>9. Places'
    BY <1>1, <1>6, <1>7, <1>8 DEF Places
  <1>10. Waits' /\ Emptied' /\ Compared'
    BY <1>1, <1>6 DEF Waits, Emptied, Compared
  <1>11. Uploading'
    <2> SUFFICES ASSUME edits = 0, NEW g \in Flows PROVE FlowUploads(g)'
      BY <1>1 DEF Uploading
    <2>1. FlowUploads(g)
      BY DEF Uploading
    <2>2. CASE g = f
      BY <1>1, <1>2, <1>3, <2>1, <2>2 DEF FlowUploads
    <2>3. CASE g # f
      BY <1>1, <1>3, <2>1, <2>3 DEF FlowUploads
    <2> QED
      BY <2>2, <2>3
  <1>12. Reported' /\ Untouched'
    BY <1>1, <1>6 DEF Reported, Untouched
  <1> QED
    BY <1>5, <1>9, <1>10, <1>11, <1>12

\* The theme changes only files of the request, to what was planned for them.
LEMMA ServeKeeps ==
    ASSUME PushInv, NEW f \in Flows, NEW rejected, NEW answer \in {"answered", "failed"},
           Serve(f, rejected, answer)
    PROVE  PushInv'
  <1> USE DEF PushInv
  <1>1. PICK taken : taken = {k \in pending[f] \ rejected : Requires[k] \subseteq Present(remote)}
    OBVIOUS
  <1>2. /\ request[f] = "sent" /\ request' = [request EXCEPT ![f] = answer]
        /\ remote' = [k \in Keys |-> IF k \in taken THEN upload[k] ELSE remote[k]]
        /\ accepted' = [accepted EXCEPT ![f] = taken]
        /\ UNCHANGED <<local, phase, upload, drop, work, pending, attempts, report, edits>>
    BY <1>1 DEF Serve, planVars
  <1>3. taken \subseteq pending[f] /\ taken \subseteq Keys /\ taken \subseteq Own(f)
    BY <1>1 DEF PushTypes, Places, FlowPlaces
  <1>4. /\ accepted'[f] = taken /\ request'[f] = answer
        /\ \A g \in Flows \ {f} : accepted'[g] = accepted[g] /\ request'[g] = request[g]
        /\ \A k \in taken : remote'[k] = upload[k] /\ k \in Uploads
        /\ \A k \in Keys \ taken : remote'[k] = remote[k]
    BY <1>2, <1>3, OwnFacts DEF PushTypes
  <1>5. PushTypes'
    BY <1>2, <1>3 DEF PushTypes
  <1>6. Uploads' = Uploads /\ (\A g \in Flows : Own(g)' = Own(g)) /\ (Planned' <=> Planned)
    BY <1>2 DEF Uploads, Own, Planned
  <1>7. FlowPlaces(f)'
    <2>1. FlowPlaces(f)
      BY DEF Places
    <2> QED
      BY <1>2, <1>3, <1>4, <1>6, <2>1 DEF FlowPlaces
  <1>8. ASSUME NEW g \in Flows \ {f} PROVE FlowPlaces(g)'
    BY <1>2, <1>4, <1>6 DEF Places, FlowPlaces
  <1>9. Places'
    BY <1>2, <1>6, <1>7, <1>8 DEF Places
  <1>10. Waits' /\ Emptied'
    BY <1>2 DEF Waits, Emptied
  <1>11. Compared'
    <2>1. Planned
      BY <1>2 DEF Places, FlowPlaces, Own, Independent
    <2> QED
      BY <1>2, <1>6, <2>1 DEF Compared
  <1>12. Uploading'
    <2> SUFFICES ASSUME edits = 0, NEW g \in Flows PROVE FlowUploads(g)'
      BY <1>2 DEF Uploading
    <2>1. FlowUploads(g) /\ FlowPlaces(g)
      BY DEF Uploading, Places
    <2>2. CASE g = f
      <3>1. \A k \in work[f] : k \notin taken /\ k \in Keys
        BY <1>3, <2>1, <2>2 DEF FlowPlaces, PushTypes
      <3>2. \A k \in pending[f] : k \in Keys /\ remote[k] # upload[k]
        BY <1>2, <2>1, <2>2 DEF FlowUploads, PushTypes
      <3> QED
        BY <1>2, <1>4, <2>1, <2>2, <3>1, <3>2 DEF FlowUploads
    <2>3. CASE g # f
      <3>1. \A k \in work[g] \cup pending[g] : k \notin taken /\ k \in Keys
        BY <1>3, <2>1, <2>3, OwnFacts DEF FlowPlaces, PushTypes
      <3> QED
        BY <1>2, <1>4, <2>1, <2>3, <3>1 DEF FlowUploads
    <2> QED
      BY <2>2, <2>3
  <1>13. Reported'
    <2>1. \A k \in taken : report[k] = "none"
      BY <1>3 DEF Places, FlowPlaces
    <2> QED
      BY <1>2, <1>4, <2>1 DEF Reported
  <1>14. Untouched'
    BY <1>2, <1>4, <1>6 DEF Untouched
  <1> QED
    BY <1>5, <1>9, <1>10, <1>11, <1>12, <1>13, <1>14

LEMMA LoseKeeps ==
    ASSUME PushInv, NEW f \in Flows, Lose(f)
    PROVE  PushInv'
  <1> USE DEF PushInv
  <1>1. /\ request[f] = "sent" /\ request' = [request EXCEPT ![f] = "failed"]
        /\ UNCHANGED <<local, remote, phase, upload, drop, work, pending, attempts, accepted, report, edits>>
    BY DEF Lose, planVars
  <1>2. /\ request'[f] = "failed"
        /\ \A g \in Flows \ {f} : request'[g] = request[g]
    BY <1>1 DEF PushTypes
  <1>3. PushTypes'
    BY <1>1 DEF PushTypes
  <1>4. Uploads' = Uploads /\ (\A g \in Flows : Own(g)' = Own(g)) /\ (Planned' <=> Planned)
    BY <1>1 DEF Uploads, Own, Planned
  <1>5. ASSUME NEW g \in Flows PROVE FlowPlaces(g)'
    BY <1>1, <1>2, <1>4 DEF Places, FlowPlaces
  <1>6. Places'
    BY <1>1, <1>4, <1>5 DEF Places
  <1>7. Waits' /\ Emptied' /\ Compared'
    BY <1>1, <1>4 DEF Waits, Emptied, Compared
  <1>8. Uploading'
    BY <1>1, <1>2 DEF Uploading, FlowUploads
  <1>9. Reported' /\ Untouched'
    BY <1>1, <1>4 DEF Reported, Untouched
  <1> QED
    BY <1>3, <1>6, <1>7, <1>8, <1>9

\* What is accepted is reported, and what is given up; the rest stays pending.
LEMMA ReceiveKeeps ==
    ASSUME PushInv, NEW f \in Flows, Receive(f)
    PROVE  PushInv'
  <1> USE DEF PushInv
  <1>1. PICK left, ended : /\ left = pending[f] \ accepted[f]
                           /\ ended = IF attempts[f] = MaxAttempts THEN left ELSE {}
    OBVIOUS
  <1>2. /\ phase = "uploading" /\ request[f] = "answered"
        /\ request' = [request EXCEPT ![f] = "none"]
        /\ pending' = [pending EXCEPT ![f] = left \ ended]
        /\ report' = [k \in Keys |-> IF k \in accepted[f] THEN "ok"
                                     ELSE IF k \in ended THEN "failed" ELSE report[k]]
        /\ UNCHANGED <<local, remote, phase, upload, drop, work, accepted, edits>>
    BY <1>1 DEF Receive, planVars
  <1>3. /\ accepted[f] \subseteq pending[f] /\ pending[f] \subseteq Keys
        /\ pending[f] \subseteq Own(f) /\ Own(f) \subseteq Uploads
    BY <1>2, OwnFacts DEF Places, FlowPlaces, PushTypes
  <1>4. /\ request'[f] = "none" /\ pending'[f] = left \ ended
        /\ \A g \in Flows \ {f} : pending'[g] = pending[g] /\ request'[g] = request[g]
        /\ \A k \in accepted[f] : report'[k] = "ok"
        /\ \A k \in ended : report'[k] = "failed"
        /\ \A k \in Keys \ (accepted[f] \cup ended) : report'[k] = report[k]
        /\ accepted[f] \cup left = pending[f] /\ ended \subseteq left
    BY <1>1, <1>2, <1>3 DEF PushTypes
  <1>5. PushTypes'
    <2>1. left \ ended \subseteq Keys
      BY <1>1, <1>3
    <2> QED
      BY <1>2, <2>1 DEF PushTypes
  <1>6. Uploads' = Uploads /\ (\A g \in Flows : Own(g)' = Own(g)) /\ (Planned' <=> Planned)
    BY <1>2 DEF Uploads, Own, Planned
  <1>7. FlowPlaces(f)'
    <2>1. FlowPlaces(f) /\ Own(f) \subseteq Keys
      BY OwnFacts DEF Places, Uploads, Present
    <2>2. \A k \in work[f] \cup (left \ ended) : report'[k] = "none"
      BY <1>1, <1>3, <1>4, <2>1 DEF FlowPlaces
    <2>3. \A k \in Own(f) \ (work[f] \cup (left \ ended)) : report'[k] # "none"
      <3> SUFFICES ASSUME NEW k \in Own(f) \ (work[f] \cup (left \ ended)) PROVE report'[k] # "none"
        OBVIOUS
      <3>1. CASE k \in accepted[f] \cup ended
        BY <1>4, <3>1
      <3>2. CASE k \notin accepted[f] \cup ended
        BY <1>4, <2>1, <3>2 DEF FlowPlaces
      <3> QED
        BY <3>1, <3>2
    <2> QED
      BY <1>1, <1>2, <1>4, <1>6, <2>1, <2>2, <2>3 DEF FlowPlaces
  <1>8. ASSUME NEW g \in Flows \ {f} PROVE FlowPlaces(g)'
    <2>1. FlowPlaces(g) /\ Own(g) \subseteq Keys /\ Own(g) \cap Own(f) = {}
      BY OwnFacts DEF Places, Uploads, Present
    <2>2. \A k \in Own(g) : report'[k] = report[k]
      BY <1>3, <1>4, <2>1
    <2> QED
      BY <1>2, <1>4, <1>6, <2>1, <2>2 DEF FlowPlaces
  <1>9. Places'
    <2>1. Planned
      BY <1>2 DEF Planned
    <2>2. \A k \in drop : report'[k] = "none"
      BY <1>3, <1>4 DEF Places, PushTypes
    <2> QED
      BY <1>2, <1>6, <1>7, <1>8, <2>1, <2>2 DEF Places
  <1>10. Waits' /\ Emptied' /\ Compared'
    BY <1>2, <1>6 DEF Waits, Emptied, Compared
  <1>11. Uploading'
    <2> SUFFICES ASSUME edits = 0, NEW g \in Flows PROVE FlowUploads(g)'
      BY <1>2 DEF Uploading
    <2>1. FlowUploads(g)
      BY DEF Uploading
    <2>2. CASE g = f
      BY <1>1, <1>2, <1>4, <2>1, <2>2 DEF FlowUploads
    <2>3. CASE g # f
      BY <1>2, <1>4, <2>1, <2>3 DEF FlowUploads
    <2> QED
      BY <2>2, <2>3
  <1>12. Reported'
    <2> SUFFICES ASSUME edits = 0, NEW k \in Keys, report'[k] # "none"
                 PROVE  report'[k] = IF remote[k] = upload[k] THEN "ok" ELSE "failed"
      BY <1>2 DEF Reported
    <2>1. FlowUploads(f)
      BY DEF Uploading
    <2>2. CASE k \in accepted[f]
      BY <1>2, <1>3, <1>4, <2>1, <2>2 DEF FlowUploads
    <2>3. CASE k \in ended
      BY <1>1, <1>2, <1>4, <2>1, <2>3 DEF FlowUploads
    <2>4. CASE k \notin accepted[f] \cup ended
      BY <1>4, <2>4 DEF Reported
    <2> QED
      BY <2>2, <2>3, <2>4
  <1>13. Untouched'
    <2>1. \A k \in Keys \ Uploads : report'[k] = report[k]
      BY <1>3, <1>4
    <2> QED
      BY <1>2, <1>6, <2>1 DEF Untouched
  <1> QED
    BY <1>5, <1>9, <1>10, <1>11, <1>12, <1>13

\* Steps that only move push on.
LEMMA PhaseKeeps ==
    ASSUME PushInv, StartDeleting \/ Finish \/ \E f \in Flows : Abort(f)
    PROVE  PushInv'
  <1> USE DEF PushInv
  <1>1. /\ UNCHANGED <<local, remote, planVars, flowVars, report, faults, edits>>
        /\ Planned /\ Planned'
        /\ \/ phase' = "aborted"
           \/ phase' = "deleting" /\ \A f \in Flows : Idle(f)
           \/ phase' = "done" /\ phase = "deleting" /\ drop = {}
    BY DEF StartDeleting, Finish, Abort, Planned
  <1>2. PushTypes'
    BY <1>1 DEF PushTypes, planVars, flowVars
  <1>3. Places' /\ Compared'
    BY <1>1 DEF Places, FlowPlaces, Compared, Own, Uploads, planVars, flowVars
  <1>4. Waits' /\ Emptied'
    BY <1>1 DEF Waits, Emptied, Idle, planVars, flowVars
  <1>5. Uploading' /\ Reported'
    BY <1>1 DEF Uploading, FlowUploads, Reported, planVars, flowVars
  <1>6. phase' \notin {"start", "aborted"} => phase \notin {"start", "aborted"}
    BY DEF StartDeleting, Finish, Abort
  <1>7. Untouched'
    BY <1>1, <1>6 DEF Untouched, Uploads, planVars, flowVars
  <1> QED
    BY <1>2, <1>3, <1>4, <1>5, <1>7

-----------------------------------------------------------------------------
(* The deletions and the merchant *)

LEMMA DeleteBatchFacts ==
    ASSUME NEW S, NEW batch \in DeleteBatch(S)
    PROVE  batch \subseteq S
  BY DEF DeleteBatch

LEMMA RemoveFacts ==
    ASSUME PushTypes, NEW batch, NEW rejected, Remove(batch, rejected)
    PROVE  /\ remote' \in [Keys -> Contents]
           /\ \A k \in Keys \ batch : remote'[k] = remote[k]
           /\ \A k \in Keys : remote'[k] = remote[k] \/ remote'[k] = Absent
  <1>1. PICK gone \in SUBSET batch :
            remote' = [k \in Keys |-> IF k \in gone THEN Absent ELSE remote[k]]
    BY DEF Remove
  <1>2. Absent \in Contents
    BY DEF Absent, Contents
  <1> QED
    BY <1>1, <1>2 DEF PushTypes

\* The theme's own answer tells which files of the batch are gone; uploaded
\* files are not among them.
LEMMA DeleteKeeps ==
    ASSUME PushInv, NEW batch \in DeleteBatch(drop), NEW rejected, Delete(batch, rejected)
    PROVE  PushInv'
  <1> USE DEF PushInv
  <1>1. /\ phase = "deleting" /\ drop' = drop \ batch
        /\ report' = [k \in Keys |-> IF k \notin batch THEN report[k]
                                     ELSE IF remote'[k] = Absent THEN "ok" ELSE "failed"]
        /\ UNCHANGED <<local, phase, upload, work, pending, request, accepted, edits>>
    BY DEF Delete, flowVars
  <1>2. batch \subseteq drop /\ drop \subseteq Keys /\ drop \cap Uploads = {}
    BY DeleteBatchFacts DEF Places, PushTypes
  <1>3. /\ remote' \in [Keys -> Contents]
        /\ \A k \in Keys \ batch : remote'[k] = remote[k]
    BY RemoveFacts DEF Delete
  <1>4. PushTypes'
    BY <1>1, <1>2, <1>3 DEF PushTypes
  <1>5. /\ Uploads' = Uploads /\ (\A g \in Flows : Own(g)' = Own(g)) /\ (Planned' <=> Planned)
        /\ Planned
    BY <1>1 DEF Uploads, Own, Planned
  <1>6. /\ \A k \in Keys \ batch : report'[k] = report[k]
        /\ \A k \in batch : report'[k] = IF remote'[k] = Absent THEN "ok" ELSE "failed"
    BY <1>1, <1>2
  <1>7. ASSUME NEW g \in Flows PROVE FlowPlaces(g)'
    <2>1. FlowPlaces(g) /\ \A k \in Own(g) : k \in Keys \ batch
      BY <1>2, OwnFacts DEF Places, Uploads, Present
    <2> QED
      BY <1>1, <1>5, <1>6, <2>1 DEF FlowPlaces
  <1>8. Places'
    <2>1. \A k \in drop' : report'[k] = "none"
      BY <1>1, <1>2, <1>6 DEF Places
    <2> QED
      BY <1>1, <1>2, <1>5, <1>7, <2>1 DEF Places
  <1>9. Waits' /\ Emptied' /\ Compared'
    BY <1>1, <1>5 DEF Waits, Emptied, Compared
  <1>10. Uploading'
    <2> SUFFICES ASSUME edits = 0, NEW g \in Flows PROVE FlowUploads(g)'
      BY <1>1 DEF Uploading
    <2>1. FlowUploads(g)
      BY DEF Uploading
    <2>2. \A k \in work[g] \cup pending[g] : remote'[k] = remote[k]
      BY <1>2, <1>3, OwnFacts DEF Places, FlowPlaces, Uploads, Present
    <2> QED
      BY <1>1, <2>1, <2>2 DEF FlowUploads
  <1>11. Reported'
    <2> SUFFICES ASSUME edits = 0, NEW k \in Keys, report'[k] # "none"
                 PROVE  report'[k] = IF remote'[k] = upload[k] THEN "ok" ELSE "failed"
      BY <1>1 DEF Reported
    <2>1. CASE k \in batch
      <3>1. upload[k] = Absent
        BY <1>2, <2>1 DEF Uploads, Present
      <3> QED
        BY <1>6, <2>1, <3>1
    <2>2. CASE k \notin batch
      BY <1>3, <1>6, <2>2 DEF Reported
    <2> QED
      BY <2>1, <2>2
  <1>12. Untouched'
    <2> SUFFICES ASSUME edits = 0, NEW k \in Keys \ (Ignored \cup Minimum \cup Uploads)
                 PROVE  IF local[k] # Absent THEN remote'[k] = local[k]
                        ELSE NoDelete \/ k \in drop' \/ remote'[k] = Absent \/ report'[k] = "failed"
      BY <1>1, <1>5 DEF Untouched
    <2>1. CASE k \in batch
      <3>1. local[k] = Absent
        BY <1>2, <2>1 DEF Compared, Present
      <3> QED
        BY <1>6, <2>1, <3>1
    <2>2. CASE k \notin batch
      BY <1>1, <1>3, <1>6, <2>2 DEF Untouched
    <2> QED
      BY <2>1, <2>2
  <1> QED
    BY <1>4, <1>8, <1>9, <1>10, <1>11, <1>12

LEMMA DeleteFailsKeeps ==
    ASSUME PushInv, NEW batch \in DeleteBatch(drop), DeleteFails(batch)
    PROVE  PushInv'
  <1> USE DEF PushInv
  <1>1. /\ phase = "deleting" /\ phase' = "aborted"
        /\ UNCHANGED <<local, upload, drop, work, pending, request, accepted, report, edits>>
    BY DEF DeleteFails, planVars, flowVars
  <1>2. batch \subseteq drop /\ drop \subseteq Keys /\ drop \cap Uploads = {}
    BY DeleteBatchFacts DEF Places, PushTypes
  <1>3. /\ remote' \in [Keys -> Contents]
        /\ \A k \in Keys \ batch : remote'[k] = remote[k]
    <2>1. CASE Remove(batch, {})
      BY <2>1, RemoveFacts
    <2>2. CASE UNCHANGED remote
      BY <2>2 DEF PushTypes
    <2> QED
      BY <2>1, <2>2 DEF DeleteFails
  <1>4. PushTypes'
    BY <1>1, <1>3 DEF PushTypes
  <1>5. /\ Uploads' = Uploads /\ (\A g \in Flows : Own(g)' = Own(g)) /\ Planned /\ Planned'
    BY <1>1 DEF Uploads, Own, Planned
  <1>6. Places' /\ Waits' /\ Emptied' /\ Compared'
    BY <1>1, <1>5 DEF Places, FlowPlaces, Waits, Emptied, Compared
  <1>7. Uploading'
    <2> SUFFICES ASSUME edits = 0, NEW g \in Flows PROVE FlowUploads(g)'
      BY <1>1 DEF Uploading
    <2>1. FlowUploads(g)
      BY DEF Uploading
    <2>2. \A k \in work[g] \cup pending[g] : remote'[k] = remote[k]
      BY <1>2, <1>3, OwnFacts DEF Places, FlowPlaces, Uploads, Present
    <2> QED
      BY <1>1, <2>1, <2>2 DEF FlowUploads
  <1>8. Reported'
    BY <1>1, <1>2, <1>3 DEF Reported, Places
  <1>9. Untouched'
    BY <1>1 DEF Untouched
  <1> QED
    BY <1>4, <1>6, <1>7, <1>8, <1>9

LEMMA MerchantKeeps ==
    ASSUME PushInv, NEW k \in Keys, Save(k) \/ Discard(k)
    PROVE  PushInv' /\ edits' # edits
  <1> USE DEF PushInv
  <1>1. /\ UNCHANGED <<local, phase, upload, drop, work, pending, request, accepted, report>>
        /\ edits < MaxEdits /\ edits' = edits + 1
        /\ \E c \in Contents : remote' = [remote EXCEPT ![k] = c]
    BY DEF Save, Discard, planVars, flowVars, Contents, Merchant, Absent
  <1>2. PushTypes'
    BY <1>1 DEF PushTypes
  <1>3. Uploads' = Uploads /\ (\A g \in Flows : Own(g)' = Own(g)) /\ (Planned' <=> Planned)
    BY <1>1 DEF Uploads, Own, Planned
  <1>4. Places' /\ Waits' /\ Emptied'
    BY <1>1, <1>3 DEF Places, FlowPlaces, Waits, Emptied
  <1>5. edits' # 0 /\ edits' # edits
    BY <1>1 DEF PushTypes
  <1>6. Compared' /\ Uploading' /\ Reported' /\ Untouched'
    BY <1>1, <1>3, <1>5 DEF Compared, Uploading, Reported, Untouched
  <1> QED
    BY <1>2, <1>4, <1>5, <1>6

LEMMA UnchangedKeeps ==
    ASSUME PushInv, UNCHANGED pushVars
    PROVE  PushInv'
  <1>1. UNCHANGED <<local, remote, phase, upload, drop, work, pending, request, accepted, report, edits>>
    BY DEF pushVars, planVars, flowVars
  <1>2. Uploads' = Uploads /\ (\A g \in Flows : Own(g)' = Own(g)) /\ (Planned' <=> Planned)
    BY <1>1 DEF Uploads, Own, Planned
  <1>3. PushTypes' /\ Places' /\ Waits' /\ Emptied'
    BY <1>1, <1>2 DEF PushInv, PushTypes, Places, FlowPlaces, Waits, Emptied
  <1>4. Compared' /\ Uploading' /\ Reported' /\ Untouched'
    BY <1>1, <1>2 DEF PushInv, Compared, Uploading, FlowUploads, Reported, Untouched
  <1> QED
    BY <1>3, <1>4 DEF PushInv

LEMMA PushKeeps == PushInv /\ [PushNext]_pushVars => PushInv'
  <1> SUFFICES ASSUME PushInv, [PushNext]_pushVars PROVE PushInv'
    OBVIOUS
  <1>1. CASE Plan \/ PlanFails \/ StartDeleting \/ Finish
    BY <1>1, PlanKeeps, PlanFailsKeeps, PhaseKeeps
  <1>2. CASE DropNext
    BY <1>2, DeleteKeeps, DeleteFailsKeeps DEF DropNext
  <1>3. ASSUME NEW f \in Flows, Send(f) \/ Served(f) \/ Lose(f) \/ Receive(f) \/ Abort(f)
        PROVE  PushInv'
    BY <1>3, SendKeeps, ServeKeeps, LoseKeeps, ReceiveKeeps, PhaseKeeps DEF Served
  <1>4. ASSUME NEW k \in Keys, Save(k) \/ Discard(k) PROVE PushInv'
    BY <1>4, MerchantKeeps
  <1>5. CASE UNCHANGED pushVars
    BY <1>5, UnchangedKeeps
  <1> QED
    BY <1>1, <1>2, <1>3, <1>4, <1>5 DEF PushNext, PushStep

-----------------------------------------------------------------------------
(* The theorems *)

\* When push is done every planned upload has been reported.
LEMMA AllReported ==
    ASSUME PushInv, phase \in {"deleting", "done"}
    PROVE  \A k \in Uploads : report[k] # "none"
  BY OwnFacts DEF PushInv, Waits, Places, FlowPlaces

LEMMA TruthOfReport == PushInv => ReportTruthful
  <1> SUFFICES ASSUME PushInv, phase = "done", edits = 0, NEW k \in Keys
               PROVE  /\ upload[k] # Absent =>
                             report[k] = IF remote[k] = upload[k] THEN "ok" ELSE "failed"
                      /\ upload[k] = Absent /\ report[k] # "none" =>
                             report[k] = IF remote[k] = Absent THEN "ok" ELSE "failed"
    BY DEF ReportTruthful
  <1>1. upload[k] # Absent => report[k] # "none"
    BY AllReported DEF Uploads, Present
  <1> QED
    BY <1>1 DEF PushInv, Reported

LEMMA DiskMirrored == PushInv => MirrorsDisk
  <1> SUFFICES ASSUME PushInv, phase = "done", edits = 0, \A k \in Keys : report[k] # "failed",
                      NEW k \in Keys \ (Ignored \cup Minimum)
               PROVE  remote[k] = local[k] \/ (NoDelete /\ local[k] = Absent)
    BY DEF MirrorsDisk
  <1>1. CASE k \in Uploads
    <2>1. upload[k] = local[k] /\ report[k] # "none"
      BY <1>1, AllReported DEF PushInv, Compared
    <2> QED
      BY <2>1 DEF PushInv, Reported
  <1>2. CASE k \notin Uploads
    <2>1. drop = {}
      BY DEF PushInv, Emptied
    <2> QED
      BY <1>2, <2>1 DEF PushInv, Untouched
  <1> QED
    BY <1>1, <1>2

\* What a finished push reports of each file is true of the theme (sync.rs,
\* reconcile_upload), for any files, requirements, batch limits and attempts,
\* and however many files are rejected or requests lost.
THEOREM ReportIsTrue == PushSpec => []ReportTruthful
  <1>1. PushInit => PushInv
    BY PushStart
  <1>2. PushInv /\ [PushNext]_pushVars => PushInv'
    BY PushKeeps
  <1>3. PushInv => ReportTruthful
    BY TruthOfReport
  <1> QED
    BY <1>1, <1>2, <1>3, PTL DEF PushSpec

\* A push that reports no failure made the theme what the disk is (sync.rs,
\* plan_push and push), but for the files it was told to leave alone.
THEOREM PushMirrors == PushSpec => []MirrorsDisk
  <1>1. PushInit => PushInv
    BY PushStart
  <1>2. PushInv /\ [PushNext]_pushVars => PushInv'
    BY PushKeeps
  <1>3. PushInv => MirrorsDisk
    BY DiskMirrored
  <1> QED
    BY <1>1, <1>2, <1>3, PTL DEF PushSpec

\* A step of push that deletes a file of the theme is one of the deletions.
LEMMA DeletesInOrder ==
    ASSUME PushInv, [PushNext]_pushVars, edits' = edits,
           NEW k \in Keys, remote[k] # Absent, remote'[k] = Absent
    PROVE  \A other \in Present(upload) : report[other] # "none"
  <1>1. CASE DropNext
    <2>1. phase = "deleting"
      BY <1>1 DEF DropNext, Delete, DeleteFails
    <2> QED
      BY <2>1, AllReported DEF Uploads
  <1>2. ASSUME NEW f \in Flows, Served(f) PROVE FALSE
    <2>1. PICK taken \in SUBSET pending[f] :
              remote' = [j \in Keys |-> IF j \in taken THEN upload[j] ELSE remote[j]]
      BY <1>2 DEF Served, Serve
    <2>2. \A j \in taken : upload[j] # Absent
      BY <2>1, OwnFacts DEF PushInv, Places, FlowPlaces, Uploads, Present
    <2> QED
      BY <2>1, <2>2
  <1>3. ASSUME NEW f \in Flows, Send(f) \/ Lose(f) \/ Receive(f) \/ Abort(f) PROVE FALSE
    BY <1>3 DEF Send, Lose, Receive, Abort
  <1>4. CASE Plan \/ PlanFails \/ StartDeleting \/ Finish \/ UNCHANGED pushVars
    BY <1>4 DEF Plan, PlanFails, StartDeleting, Finish, pushVars
  <1>5. ~ \E j \in Keys : Save(j) \/ Discard(j)
    BY MerchantKeeps
  <1> QED
    BY <1>1, <1>2, <1>3, <1>4, <1>5 DEF PushNext, PushStep

\* Nothing is deleted while an upload may still fail the push (sync.rs, push).
THEOREM DeletionsLast == PushSpec => DeletesLast
  <1>1. PushInit => PushInv
    BY PushStart
  <1>2. PushInv /\ [PushNext]_pushVars => PushInv'
    BY PushKeeps
  <1>3. PushInv /\ [PushNext]_pushVars
        => [edits' = edits =>
               \A k \in Keys : remote[k] # Absent /\ remote'[k] = Absent =>
                   \A other \in Present(upload) : report[other] # "none"]_pushVars
    BY DeletesInOrder
  <1> QED
    BY <1>1, <1>2, <1>3, PTL DEF PushSpec, DeletesLast

-----------------------------------------------------------------------------
(* The order of the requests prevents failures *)

Group(k) == UploadGroup[Kind[k]]

\* Fewer faults than attempts, and the merchant does not interfere.
Calm == edits = 0 /\ faults < MaxAttempts

\* What stays on the theme requires nothing that is to be deleted; what is
\* uploaded finds what it requires on the theme or in the plan.
StartClosed ==
    phase = "start" /\ edits = 0 =>
        Closed(Present(remote)) /\ Closed(Present(local) \cup (Present(remote) \cap Ignored))
Kept ==
    edits = 0 =>
        \A k \in Uploads :
            /\ Requires[k] \cap drop = {}
            /\ phase = "uploading" =>
                   \A j \in Requires[k] : j \in Uploads \/ remote[j] # Absent
DropsClosed ==
    edits = 0 /\ faults = 0 =>
        \A k \in drop, other \in Present(remote) : k \in Requires[other] => other \in drop

\* A request is of one group, and no group before it is left.
Grouped(f) ==
    \A k \in pending[f] : /\ \A j \in pending[f] : Group(j) = Group(k)
                          /\ \A j \in work[f] : Group(k) <= Group(j)

\* Each attempt but the last has met a fault.
Tried(f) ==
    Calm /\ phase = "uploading" =>
        /\ request[f] = "none" /\ pending[f] # {} => attempts[f] <= faults
        /\ request[f] = "sent" => attempts[f] <= faults + 1
        /\ request[f] = "answered" /\ pending[f] \ accepted[f] # {} => attempts[f] <= faults

UploadsSucceed == Calm => \A k \in Uploads : report[k] # "failed"
AllSucceed == edits = 0 /\ faults = 0 => \A k \in Keys : report[k] # "failed"

OrderInv ==
    /\ faults \in Nat /\ attempts \in [Flows -> Nat]
    /\ StartClosed /\ Kept /\ DropsClosed
    /\ \A f \in Flows : Grouped(f) /\ Tried(f)
    /\ UploadsSucceed /\ AllSucceed

\* Both orders respect the layers.
LEMMA LayersOrdered ==
    \A a, b \in DOMAIN UploadGroup :
        Layer[a] \in 1..(Layer[b] - 1) =>
            /\ 0 < UploadGroup[a] /\ UploadGroup[a] < UploadGroup[b]
            /\ DeleteGroup[b] < DeleteGroup[a]
  BY DEF UploadGroup, DeleteGroup, Layer

LEMMA GroupTypes ==
    \A k \in Keys : Group(k) \in Nat /\ DeleteGroup[Kind[k]] \in Nat /\ Layer[Kind[k]] \in 0..6
  <1>1. \A a \in DOMAIN UploadGroup :
            UploadGroup[a] \in Nat /\ DeleteGroup[a] \in Nat /\ Layer[a] \in 0..6
    BY DEF UploadGroup, DeleteGroup, Layer
  <1> QED
    BY <1>1, ThemePushAssumption DEF Group

LEMMA RequiredBefore ==
    ASSUME NEW k \in Keys, NEW j \in Requires[k]
    PROVE  /\ j \in Keys /\ 0 < Group(j) /\ Group(j) < Group(k)
           /\ Before(DeleteGroup, k, j)
           /\ Layer[Kind[j]] < Layer[Kind[k]]
  <1>1. j \in Keys /\ Layer[Kind[j]] \in 1..(Layer[Kind[k]] - 1)
    BY ThemePushAssumption, RequirementsAssumption
  <1>2. Kind[k] \in DOMAIN UploadGroup /\ Kind[j] \in DOMAIN UploadGroup
    BY <1>1, ThemePushAssumption
  <1>3. /\ 0 < UploadGroup[Kind[j]] /\ UploadGroup[Kind[j]] < UploadGroup[Kind[k]]
        /\ DeleteGroup[Kind[k]] < DeleteGroup[Kind[j]]
    BY <1>1, <1>2, LayersOrdered
  <1> QED
    BY <1>1, <1>3, GroupTypes DEF Group, Before

\* No spurious rejection is one of no files.
LEMMA NoneRejected ==
    ASSUME NEW S \in SUBSET Keys, faults \in Nat
    PROVE  /\ Cardinality(S) \in Nat
           /\ S # {} => faults + Cardinality(S) >= faults + 1
           /\ faults + Cardinality(S) = 0 => S = {}
  <1>1. IsFiniteSet(S)
    BY FS_Subset, ThemePushAssumption
  <1>2. Cardinality(S) \in Nat /\ (Cardinality(S) = 0 <=> S = {})
    BY <1>1, FS_CardinalityType, FS_EmptySet
  <1> QED
    BY <1>2

LEMMA OrderStart == PushInit => OrderInv
  <1> SUFFICES ASSUME PushInit PROVE OrderInv
    OBVIOUS
  <1>1. Uploads = {}
    BY DEF PushInit, Uploads, Present, Absent
  <1>2. faults = 0 /\ drop = {} /\ phase = "start" /\ attempts = [f \in Flows |-> 0]
        /\ \A k \in Keys : report[k] = "none"
    BY DEF PushInit
  <1>3. \A f \in Flows : pending[f] = {}
    BY DEF PushInit
  <1>4. StartClosed
    BY DEF PushInit, StartClosed
  <1>5. \A f \in Flows : Grouped(f) /\ Tried(f)
    BY <1>2, <1>3 DEF Grouped, Tried
  <1> QED
    BY <1>1, <1>2, <1>4, <1>5 DEF OrderInv, Kept, DropsClosed, UploadsSucceed, AllSucceed

LEMMA PlanInOrder ==
    ASSUME PushInv, OrderInv, Plan
    PROVE  OrderInv'
  <1>1. /\ phase = "start" /\ phase' = "uploading"
        /\ upload' = [k \in Keys |-> Upload(k)] /\ drop' = Deleted
        /\ UNCHANGED <<local, remote, pending, attempts, request, accepted, report, faults, edits>>
    BY DEF Plan
  <1>2. Uploads' = {k \in Keys : Upload(k) # Absent}
    BY <1>1 DEF Uploads, Present
  <1>3. /\ drop' \subseteq Present(remote) \ (Ignored \cup Minimum \cup Present(local))
        /\ PushTypes /\ Present(local) \cap Ignored = {}
    BY <1>1 DEF Deleted, PushInv, Compared
  <1>4. \A k \in Keys : report[k] = "none"
    BY <1>1 DEF PushInv, Places, Planned
  <1>5. \A f \in Flows : pending[f] = {}
    BY <1>1 DEF PushInv, Places, FlowPlaces, Own, Independent, Planned
  <1>6. edits = 0 => Closed(Present(remote)) /\ Closed(Present(local) \cup (Present(remote) \cap Ignored))
    BY <1>1 DEF OrderInv, StartClosed
  <1>7. Kept'
    <2> SUFFICES ASSUME edits = 0, NEW k \in Uploads', NEW j \in Requires[k]
                 PROVE  j \notin drop' /\ (j \in Uploads' \/ remote[j] # Absent)
      BY <1>1 DEF Kept
    <2>1. k \in Keys /\ j \in Keys /\ k \notin Minimum
      BY <1>2, ThemePushAssumption
    <2>2. k \in Present(local)
      BY <1>2, <1>3, <2>1, UploadFacts
    <2>3. j \in Present(local) \/ j \in Present(remote) \cap Ignored
      BY <1>6, <2>1, <2>2 DEF Closed
    <2>4. j \notin drop'
      BY <1>3, <2>3
    <2>5. CASE j \in Present(remote) \cap Ignored
      BY <2>4, <2>5 DEF Present
    <2>6. CASE j \in Present(local)
      <3>1. local[j] # Absent /\ j \notin Ignored
        BY <1>3, <2>6 DEF Present
      <3>2. Upload(j) = Absent => remote[j] = local[j]
        BY <1>3, <2>1, <3>1, UploadFacts
      <3> QED
        BY <1>2, <2>1, <2>4, <3>1, <3>2
    <2> QED
      BY <2>3, <2>5, <2>6
  <1>8. DropsClosed'
    <2> SUFFICES ASSUME edits = 0, NEW k \in drop', NEW other \in Present(remote), k \in Requires[other]
                 PROVE  other \in drop'
      BY <1>1 DEF DropsClosed, Present
    <2>1. other \in Keys /\ other \notin Minimum
      BY ThemePushAssumption DEF Present
    <2>2. other \notin Present(local) /\ other \notin Ignored
      BY <1>3, <1>6 DEF Closed
    <2> QED
      BY <1>1, <2>1, <2>2 DEF Deleted
  <1>9. StartClosed'
    BY <1>1 DEF StartClosed
  <1>10. \A f \in Flows : Grouped(f)' /\ Tried(f)'
    BY <1>1, <1>5 DEF OrderInv, Grouped, Tried, Group, PushInv, Places, FlowPlaces
  <1>11. UploadsSucceed' /\ AllSucceed'
    BY <1>1, <1>2, <1>4 DEF UploadsSucceed, AllSucceed
  <1> QED
    BY <1>1, <1>7, <1>8, <1>9, <1>10, <1>11 DEF OrderInv

\* A batch is of the group that comes first.
LEMMA BatchGroup ==
    ASSUME NEW S \in SUBSET Keys, NEW batch \in Batch(S)
    PROVE  \A k \in batch : \A j \in S : Group(k) <= Group(j)
  BY DEF Batch, Batches, SameGroup, Group

LEMMA SendInOrder ==
    ASSUME PushInv, OrderInv, NEW f \in Flows, Send(f)
    PROVE  OrderInv'
  <1>1. /\ phase = "uploading" /\ request[f] = "none"
        /\ request' = [request EXCEPT ![f] = "sent"]
        /\ UNCHANGED <<local, remote, phase, upload, drop, accepted, report, faults, edits>>
    BY DEF Send, planVars
  <1>2. Uploads' = Uploads /\ (Calm' <=> Calm) /\ faults \in Nat
    BY <1>1 DEF Uploads, Calm, OrderInv
  <1>3. \A g \in Flows \ {f} : Grouped(g)' /\ Tried(g)'
    <2>1. \A g \in Flows \ {f} : /\ pending'[g] = pending[g] /\ work'[g] = work[g]
                                 /\ request'[g] = request[g] /\ attempts'[g] = attempts[g]
      BY <1>1 DEF Send, PushInv, PushTypes, OrderInv
    <2> QED
      BY <1>1, <1>2, <2>1 DEF OrderInv, Grouped, Tried, Group
  <1>4. attempts' \in [Flows -> Nat] /\ Grouped(f)' /\ Tried(f)'
    <2>1. CASE /\ pending[f] # {} /\ attempts' = [attempts EXCEPT ![f] = @ + 1]
               /\ UNCHANGED <<pending, work>>
      <3>1. attempts' \in [Flows -> Nat] /\ attempts'[f] = attempts[f] + 1
        BY <2>1 DEF OrderInv
      <3>2. Tried(f)'
        BY <1>1, <1>2, <2>1, <3>1 DEF Tried, OrderInv, PushInv, PushTypes
      <3>3. Grouped(f)'
        BY <2>1 DEF Grouped, OrderInv, Group
      <3> QED
        BY <3>1, <3>2, <3>3
    <2>2. CASE pending[f] = {} /\ work[f] # {} /\ attempts' = [attempts EXCEPT ![f] = 1]
      <3>1. PICK batch \in Batch(work[f]) : /\ pending' = [pending EXCEPT ![f] = batch]
                                            /\ work' = [work EXCEPT ![f] = work[f] \ batch]
        BY <2>2 DEF Send
      <3>2. pending'[f] = batch /\ work'[f] = work[f] \ batch /\ attempts'[f] = 1
            /\ attempts' \in [Flows -> Nat] /\ request'[f] = "sent"
        BY <1>1, <2>2, <3>1 DEF PushInv, PushTypes, OrderInv
      <3>3. \A k \in batch : \A j \in work[f] : Group(k) <= Group(j)
        BY BatchGroup DEF PushInv, PushTypes
      <3>4. batch \subseteq work[f] /\ work[f] \subseteq Keys
        BY BatchFacts DEF PushInv, PushTypes
      <3>5. \A k, j \in batch : Group(k) = Group(j)
        BY <3>3, <3>4, GroupTypes
      <3>6. Grouped(f)'
        BY <3>2, <3>3, <3>5 DEF Grouped, Group
      <3>7. Tried(f)'
        BY <1>1, <1>2, <3>2 DEF Tried
      <3> QED
        BY <3>2, <3>6, <3>7
    <2> QED
      BY <2>1, <2>2 DEF Send
  <1>5. StartClosed' /\ Kept' /\ DropsClosed'
    BY <1>1, <1>2 DEF OrderInv, StartClosed, Kept, DropsClosed, Present, Closed
  <1>6. UploadsSucceed' /\ AllSucceed'
    BY <1>1, <1>2 DEF OrderInv, UploadsSucceed, AllSucceed
  <1> QED
    BY <1>1, <1>2, <1>3, <1>4, <1>5, <1>6 DEF OrderInv

\* As long as nothing has failed, the theme has what the files of a request
\* require.
LEMMA RequestComplete ==
    ASSUME PushInv, OrderInv, Calm, phase = "uploading", NEW f \in Flows, NEW k \in pending[f]
    PROVE  Requires[k] \subseteq Present(remote)
  <1> SUFFICES ASSUME NEW j \in Requires[k] PROVE j \in Keys /\ remote[j] # Absent
    BY DEF Present
  <1>1. k \in Keys /\ k \in Uploads /\ k \in Own(f)
    BY OwnFacts DEF PushInv, PushTypes, Places, FlowPlaces
  <1>2. j \in Keys /\ 0 < Group(j) /\ Group(j) < Group(k) /\ Group(k) \in Nat /\ Group(j) \in Nat
    BY <1>1, RequiredBefore, GroupTypes
  <1>3. f = "dependent"
    BY <1>1, <1>2 DEF Flows, Own, Independent, Group
  <1>4. ASSUME j \in Uploads PROVE remote[j] # Absent
    <2>1. j \in Own(f)
      BY <1>2, <1>3, <1>4 DEF Own, Independent, Group
    <2>2. j \notin pending[f] /\ j \notin work[f]
      BY <1>2 DEF OrderInv, Grouped
    <2>3. report[j] # "none"
      BY <2>1, <2>2 DEF PushInv, Places, FlowPlaces
    <2>4. report[j] # "failed"
      BY <1>4 DEF OrderInv, UploadsSucceed
    <2>5. remote[j] = upload[j]
      BY <1>2, <2>3, <2>4 DEF PushInv, Reported, Calm
    <2> QED
      BY <1>4, <2>5 DEF Uploads, Present
  <1> QED
    BY <1>1, <1>2, <1>4 DEF OrderInv, Kept, Calm

LEMMA ServeInOrder ==
    ASSUME PushInv, OrderInv, NEW f \in Flows, NEW rejected \in SUBSET pending[f],
           NEW answer \in {"answered", "failed"}, Serve(f, rejected, answer)
    PROVE  OrderInv'
  <1>1. PICK taken, new :
            /\ taken = {k \in pending[f] \ rejected : Requires[k] \subseteq Present(remote)}
            /\ new = IF answer = "failed" THEN 1 ELSE 0
    OBVIOUS
  <1>2. /\ request[f] = "sent" /\ request' = [request EXCEPT ![f] = answer]
        /\ remote' = [k \in Keys |-> IF k \in taken THEN upload[k] ELSE remote[k]]
        /\ accepted' = [accepted EXCEPT ![f] = taken]
        /\ faults' = faults + (Cardinality(rejected) + new)
        /\ UNCHANGED <<local, phase, upload, drop, work, pending, attempts, report, edits>>
    BY <1>1 DEF Serve, planVars
  <1>3. /\ faults \in Nat /\ pending[f] \subseteq Keys /\ rejected \subseteq Keys
        /\ pending[f] \subseteq Uploads /\ pending[f] # {}
    BY <1>2, OwnFacts DEF OrderInv, PushInv, PushTypes, Places, FlowPlaces
  <1>4. /\ faults' \in Nat /\ faults' >= faults
        /\ rejected # {} => faults' >= faults + 1
        /\ faults' = 0 => faults = 0
    <2>1. /\ Cardinality(rejected) \in Nat
          /\ rejected # {} => faults + Cardinality(rejected) >= faults + 1
      BY <1>3, NoneRejected
    <2> QED
      BY <1>1, <1>2, <1>3, <2>1
  <1>5. MaxAttempts \in Nat
    BY ThemePushAssumption
  <1>6. Uploads' = Uploads /\ (Calm' => Calm)
    BY <1>2, <1>3, <1>4, <1>5 DEF Uploads, Calm
  <1>7. /\ accepted'[f] = taken /\ request'[f] = answer
        /\ \A g \in Flows \ {f} : accepted'[g] = accepted[g] /\ request'[g] = request[g]
        /\ \A k \in Keys : remote'[k] = IF k \in taken THEN upload[k] ELSE remote[k]
        /\ taken \subseteq Uploads
    BY <1>1, <1>2, <1>3 DEF PushInv, PushTypes
  <1>8. \A g \in Flows : Grouped(g)'
    BY <1>2 DEF OrderInv, Grouped, Group
  <1>9. ASSUME NEW g \in Flows \ {f} PROVE Tried(g)'
    <2> SUFFICES ASSUME Calm, phase = "uploading"
                 PROVE  /\ request[g] = "none" /\ pending[g] # {} => attempts[g] <= faults'
                        /\ request[g] = "sent" => attempts[g] <= faults' + 1
                        /\ request[g] = "answered" /\ pending[g] \ accepted[g] # {} =>
                               attempts[g] <= faults'
      BY <1>2, <1>6, <1>7 DEF Tried
    <2>1. Tried(g) /\ attempts[g] \in Nat
      BY DEF OrderInv
    <2> QED
      BY <1>3, <1>4, <2>1 DEF Tried
  <1>10. Tried(f)'
    <2> SUFFICES ASSUME Calm, phase = "uploading", answer = "answered", pending[f] \ taken # {}
                 PROVE  attempts[f] <= faults'
      BY <1>2, <1>6, <1>7 DEF Tried
    <2>1. rejected # {}
      BY <1>1, RequestComplete
    <2>2. attempts[f] <= faults + 1 /\ attempts[f] \in Nat
      BY <1>2 DEF OrderInv, Tried
    <2> QED
      BY <1>3, <1>4, <2>1, <2>2
  <1>11. Kept'
    <2> SUFFICES ASSUME edits = 0, NEW k \in Uploads
                 PROVE  /\ Requires[k] \cap drop = {}
                        /\ phase = "uploading" =>
                               \A j \in Requires[k] : j \in Uploads \/ remote'[j] # Absent
      BY <1>2, <1>6 DEF Kept
    <2>1. Requires[k] \subseteq Keys
      BY ThemePushAssumption DEF Uploads, Present
    <2> QED
      BY <1>7, <2>1 DEF OrderInv, Kept
  <1>12. DropsClosed'
    <2> SUFFICES ASSUME edits = 0, faults = 0, NEW k \in drop, NEW other \in Present(remote)',
                        k \in Requires[other]
                 PROVE  other \in drop
      BY <1>2, <1>4 DEF DropsClosed
    <2>1. other \in Keys /\ remote'[other] # Absent
      BY DEF Present
    <2>2. other \notin taken
      BY <1>7 DEF OrderInv, Kept
    <2>3. other \in Present(remote)
      BY <1>7, <2>1, <2>2 DEF Present
    <2> QED
      BY <2>3 DEF OrderInv, DropsClosed
  <1>13. StartClosed'
    <2>1. phase # "start"
      BY <1>3 DEF PushInv, Places, Planned
    <2> QED
      BY <1>2, <2>1 DEF StartClosed
  <1>14. UploadsSucceed' /\ AllSucceed'
    BY <1>2, <1>4, <1>6 DEF OrderInv, UploadsSucceed, AllSucceed
  <1> QED
    BY <1>2, <1>4, <1>8, <1>9, <1>10, <1>11, <1>12, <1>13, <1>14 DEF OrderInv

LEMMA LoseInOrder ==
    ASSUME PushInv, OrderInv, NEW f \in Flows, Lose(f)
    PROVE  OrderInv'
  <1>1. /\ request' = [request EXCEPT ![f] = "failed"] /\ faults' = faults + 1
        /\ UNCHANGED <<local, remote, phase, upload, drop, work, pending, attempts, accepted, report, edits>>
    BY DEF Lose, planVars
  <1>2. faults \in Nat /\ faults' \in Nat /\ faults' # 0 /\ faults < faults'
    BY <1>1 DEF OrderInv
  <1>3. MaxAttempts \in Nat
    BY ThemePushAssumption
  <1>4. Uploads' = Uploads /\ (Calm' => Calm)
    BY <1>1, <1>2, <1>3 DEF Uploads, Calm
  <1>5. /\ request'[f] = "failed"
        /\ \A g \in Flows \ {f} : request'[g] = request[g]
    BY <1>1 DEF PushInv, PushTypes
  <1>6. ASSUME NEW g \in Flows PROVE Grouped(g)' /\ Tried(g)'
    <2>1. Grouped(g) /\ Tried(g) /\ attempts[g] \in Nat
      BY DEF OrderInv
    <2> QED
      BY <1>1, <1>2, <1>4, <1>5, <2>1 DEF Grouped, Tried, Group
  <1>7. StartClosed' /\ Kept' /\ DropsClosed'
    BY <1>1, <1>2, <1>4 DEF OrderInv, StartClosed, Kept, DropsClosed, Present, Closed
  <1>8. UploadsSucceed' /\ AllSucceed'
    BY <1>1, <1>2, <1>4 DEF OrderInv, UploadsSucceed, AllSucceed
  <1> QED
    BY <1>1, <1>2, <1>6, <1>7, <1>8 DEF OrderInv

\* A file is given up only after as many faults as attempts.
LEMMA ReceiveInOrder ==
    ASSUME PushInv, OrderInv, NEW f \in Flows, Receive(f)
    PROVE  OrderInv'
  <1>1. PICK left, ended : /\ left = pending[f] \ accepted[f]
                           /\ ended = IF attempts[f] = MaxAttempts THEN left ELSE {}
    OBVIOUS
  <1>2. /\ phase = "uploading" /\ request[f] = "answered"
        /\ request' = [request EXCEPT ![f] = "none"]
        /\ pending' = [pending EXCEPT ![f] = left \ ended]
        /\ report' = [k \in Keys |-> IF k \in accepted[f] THEN "ok"
                                     ELSE IF k \in ended THEN "failed" ELSE report[k]]
        /\ UNCHANGED <<local, remote, phase, upload, drop, work, attempts, accepted, faults, edits>>
    BY <1>1 DEF Receive, planVars
  <1>3. Uploads' = Uploads /\ (Calm' <=> Calm) /\ faults \in Nat /\ attempts[f] \in Nat
    BY <1>2 DEF Uploads, Calm, OrderInv
  <1>4. /\ request'[f] = "none" /\ pending'[f] = left \ ended
        /\ \A g \in Flows \ {f} : pending'[g] = pending[g] /\ request'[g] = request[g]
    BY <1>2 DEF PushInv, PushTypes
  <1>5. Calm /\ left # {} => attempts[f] <= faults
    BY <1>1, <1>2 DEF OrderInv, Tried
  <1>6. Calm => ended = {}
    <2>1. Calm => faults < MaxAttempts
      BY DEF Calm
    <2> QED
      BY <1>1, <1>3, <1>5, <2>1, ThemePushAssumption
  <1>7. \A g \in Flows \ {f} : Grouped(g)' /\ Tried(g)'
    BY <1>2, <1>3, <1>4 DEF OrderInv, Grouped, Tried, Group
  <1>8. Grouped(f)'
    BY <1>1, <1>2, <1>4 DEF OrderInv, Grouped, Group
  <1>9. Tried(f)'
    BY <1>2, <1>3, <1>4, <1>5 DEF Tried
  <1>10. StartClosed' /\ Kept' /\ DropsClosed'
    BY <1>2, <1>3 DEF OrderInv, StartClosed, Kept, DropsClosed, Present, Closed
  <1>11. UploadsSucceed'
    <2> SUFFICES ASSUME Calm, NEW k \in Uploads PROVE report'[k] # "failed"
      BY <1>3 DEF UploadsSucceed
    <2>1. report[k] # "failed" /\ k \in Keys
      BY DEF OrderInv, UploadsSucceed, Uploads, Present
    <2> QED
      BY <1>2, <1>6, <2>1
  <1>12. AllSucceed'
    <2> SUFFICES ASSUME edits = 0, faults = 0, NEW k \in Keys PROVE report'[k] # "failed"
      BY <1>2 DEF AllSucceed
    <2>1. Calm
      BY ThemePushAssumption DEF Calm
    <2> QED
      BY <1>2, <1>6, <2>1 DEF OrderInv, AllSucceed
  <1> QED
    BY <1>2, <1>3, <1>7, <1>8, <1>9, <1>10, <1>11, <1>12 DEF OrderInv

\* Steps that only move push on, or end it.
LEMMA PhaseInOrder ==
    ASSUME PushInv, OrderInv,
           PlanFails \/ StartDeleting \/ Finish \/ \E f \in Flows : Abort(f)
    PROVE  OrderInv'
  <1>1. /\ UNCHANGED <<local, remote, planVars, flowVars, report, edits>>
        /\ phase' \notin {"start", "uploading"}
        /\ faults' = faults \/ faults' = faults + 1
    BY DEF PlanFails, StartDeleting, Finish, Abort
  <1>2. /\ faults \in Nat /\ faults' \in Nat /\ (faults' = 0 => faults = 0)
        /\ Uploads' = Uploads /\ (Calm' => Calm)
    <2>1. faults \in Nat /\ MaxAttempts \in Nat
      BY ThemePushAssumption DEF OrderInv
    <2> QED
      BY <1>1, <2>1 DEF Uploads, Calm, planVars
  <1>3. StartClosed' /\ Kept' /\ DropsClosed'
    BY <1>1, <1>2 DEF OrderInv, StartClosed, Kept, DropsClosed, Present, planVars
  <1>4. \A f \in Flows : Grouped(f)' /\ Tried(f)'
    BY <1>1 DEF OrderInv, Grouped, Tried, Group, flowVars
  <1>5. UploadsSucceed' /\ AllSucceed'
    BY <1>1, <1>2 DEF OrderInv, UploadsSucceed, AllSucceed
  <1> QED
    BY <1>1, <1>2, <1>3, <1>4, <1>5 DEF OrderInv, flowVars

\* What could be left of a batch is required by something else that is left, in
\* a higher layer, and there is no end to that.
LEMMA AllRemoved ==
    ASSUME NEW batch \in DeleteBatch(drop), drop \subseteq Keys, Remove(batch, {}),
           \A k \in drop, other \in Present(remote) : k \in Requires[other] => other \in drop
    PROVE  \A k \in batch : remote'[k] = Absent
  <1>1. PICK gone \in SUBSET batch :
            /\ gone = {k \in batch : \A other \in Present(remote) :
                          k \in Requires[other] => other \in gone /\ Before(DeleteGroup, other, k)}
            /\ remote' = [k \in Keys |-> IF k \in gone THEN Absent ELSE remote[k]]
    BY DEF Remove
  <1>2. batch \subseteq drop /\ \A k \in batch, j \in drop \ batch : Before(DeleteGroup, k, j)
    BY DEF DeleteBatch, Leads
  <1>3. ASSUME NEW k \in batch \ gone
        PROVE  \E other \in batch \ gone : Layer[Kind[k]] < Layer[Kind[other]]
    <2>1. PICK other \in Present(remote) :
              k \in Requires[other] /\ ~ (other \in gone /\ Before(DeleteGroup, other, k))
      BY <1>1
    <2>2. other \in Keys /\ k \in Keys
      BY <1>2 DEF Present
    <2>3. Before(DeleteGroup, other, k) /\ Layer[Kind[k]] < Layer[Kind[other]]
      BY <2>1, <2>2, RequiredBefore
    <2>4. other \in drop
      BY <1>2, <2>1
    <2>5. other \in batch
      <3> SUFFICES ASSUME other \notin batch PROVE FALSE
        OBVIOUS
      <3>1. Before(DeleteGroup, k, other)
        BY <1>2, <2>4
      <3>2. DeleteGroup[Kind[other]] < DeleteGroup[Kind[k]]
        <4>1. Kind[other] \in DOMAIN UploadGroup /\ Kind[k] \in DOMAIN UploadGroup
          BY <2>2, ThemePushAssumption
        <4>2. Layer[Kind[k]] \in 1..(Layer[Kind[other]] - 1)
          BY <2>1, <2>2, RequirementsAssumption
        <4> QED
          BY <4>1, <4>2, LayersOrdered
      <3> QED
        BY <2>2, <3>1, <3>2, GroupTypes DEF Before
    <2> QED
      BY <2>1, <2>3, <2>5
  <1>4. \A k \in batch \ gone : Layer[Kind[k]] \in 0..6
    BY <1>2, GroupTypes
  <1> DEFINE NoneFrom(n) == \A k \in batch \ gone : Layer[Kind[k]] < n
  <1>5. NoneFrom(7)
    BY <1>4
  <1>6. ASSUME NEW n \in 0..6, NoneFrom(n + 1) PROVE NoneFrom(n)
    <2> SUFFICES ASSUME NEW k \in batch \ gone PROVE Layer[Kind[k]] < n
      OBVIOUS
    <2>1. PICK other \in batch \ gone : Layer[Kind[k]] < Layer[Kind[other]]
      BY <1>3
    <2>2. Layer[Kind[other]] < n + 1
      BY <1>6
    <2> QED
      BY <1>4, <2>1, <2>2
  <1> HIDE DEF NoneFrom
  <1>7. NoneFrom(4)
    BY <1>5, <1>6
  <1>8. NoneFrom(0)
    BY <1>6, <1>7
  <1>9. batch \subseteq gone
    BY <1>4, <1>8 DEF NoneFrom
  <1> QED
    BY <1>1, <1>2, <1>9

LEMMA DeleteInOrder ==
    ASSUME PushInv, OrderInv, NEW batch \in DeleteBatch(drop), NEW rejected \in SUBSET batch,
           Delete(batch, rejected)
    PROVE  OrderInv'
  <1>1. /\ phase = "deleting" /\ drop' = drop \ batch /\ Remove(batch, rejected)
        /\ faults' = faults + Cardinality(rejected)
        /\ report' = [k \in Keys |-> IF k \notin batch THEN report[k]
                                     ELSE IF remote'[k] = Absent THEN "ok" ELSE "failed"]
        /\ UNCHANGED <<local, phase, upload, work, pending, attempts, request, accepted, edits>>
    BY DEF Delete, flowVars
  <1>2. batch \subseteq drop /\ drop \subseteq Keys /\ drop \cap Uploads = {} /\ rejected \subseteq Keys
    BY DeleteBatchFacts DEF PushInv, Places, PushTypes
  <1>3. /\ faults \in Nat /\ faults' \in Nat /\ faults <= faults'
        /\ faults' = 0 => faults = 0 /\ rejected = {}
    <2>1. faults \in Nat
      BY DEF OrderInv
    <2>2. Cardinality(rejected) \in Nat /\ (faults + Cardinality(rejected) = 0 => rejected = {})
      BY <1>2, <2>1, NoneRejected
    <2> QED
      BY <1>1, <2>1, <2>2
  <1>4. MaxAttempts \in Nat
    BY ThemePushAssumption
  <1>5. Uploads' = Uploads /\ (Calm' => Calm)
    BY <1>1, <1>3, <1>4 DEF Uploads, Calm
  <1>6. \A k \in Keys : remote'[k] = remote[k] \/ remote'[k] = Absent
    BY <1>1, RemoveFacts DEF PushInv
  <1>7. edits = 0 /\ faults' = 0 => \A k \in batch : remote'[k] = Absent
    <2> SUFFICES ASSUME edits = 0, faults' = 0 PROVE \A k \in batch : remote'[k] = Absent
      OBVIOUS
    <2>1. Remove(batch, {})
      BY <1>1, <1>3
    <2>2. \A k \in drop, other \in Present(remote) : k \in Requires[other] => other \in drop
      BY <1>3 DEF OrderInv, DropsClosed
    <2> QED
      BY <1>2, <2>1, <2>2, AllRemoved
  <1>8. DropsClosed'
    <2> SUFFICES ASSUME edits = 0, faults' = 0, NEW k \in drop \ batch,
                        NEW other \in Present(remote)', k \in Requires[other]
                 PROVE  other \in drop \ batch
      BY <1>1 DEF DropsClosed
    <2>1. other \in Keys /\ remote'[other] # Absent
      BY DEF Present
    <2>2. other \in Present(remote) /\ other \notin batch
      BY <1>6, <1>7, <2>1 DEF Present
    <2> QED
      BY <1>3, <2>2 DEF OrderInv, DropsClosed
  <1>9. Kept' /\ StartClosed'
    BY <1>1, <1>5 DEF OrderInv, Kept, StartClosed
  <1>10. \A f \in Flows : Grouped(f)' /\ Tried(f)'
    BY <1>1 DEF OrderInv, Grouped, Tried, Group
  <1>11. UploadsSucceed'
    <2> SUFFICES ASSUME Calm, NEW k \in Uploads PROVE report'[k] # "failed"
      BY <1>5 DEF UploadsSucceed
    <2>1. k \in Keys /\ k \notin batch
      BY <1>2 DEF Uploads, Present
    <2> QED
      BY <1>1, <2>1 DEF OrderInv, UploadsSucceed
  <1>12. AllSucceed'
    <2> SUFFICES ASSUME edits = 0, faults' = 0, NEW k \in Keys PROVE report'[k] # "failed"
      BY <1>1 DEF AllSucceed
    <2> QED
      BY <1>1, <1>3, <1>7 DEF OrderInv, AllSucceed
  <1> QED
    BY <1>1, <1>3, <1>8, <1>9, <1>10, <1>11, <1>12 DEF OrderInv

LEMMA DeleteFailsInOrder ==
    ASSUME PushInv, OrderInv, NEW batch, DeleteFails(batch)
    PROVE  OrderInv'
  <1>1. /\ phase' = "aborted" /\ faults' = faults + 1
        /\ UNCHANGED <<local, upload, drop, work, pending, attempts, request, accepted, report, edits>>
    BY DEF DeleteFails, planVars, flowVars
  <1>2. faults \in Nat /\ faults' \in Nat /\ faults' # 0 /\ faults < faults' /\ MaxAttempts \in Nat
    BY <1>1, ThemePushAssumption DEF OrderInv
  <1>3. Uploads' = Uploads /\ (Calm' => Calm)
    BY <1>1, <1>2 DEF Uploads, Calm
  <1>4. StartClosed' /\ Kept' /\ DropsClosed'
    BY <1>1, <1>2, <1>3 DEF OrderInv, StartClosed, Kept, DropsClosed
  <1>5. \A f \in Flows : Grouped(f)' /\ Tried(f)'
    BY <1>1 DEF OrderInv, Grouped, Tried, Group
  <1>6. UploadsSucceed' /\ AllSucceed'
    BY <1>1, <1>2, <1>3 DEF OrderInv, UploadsSucceed, AllSucceed
  <1> QED
    BY <1>1, <1>2, <1>4, <1>5, <1>6 DEF OrderInv

\* The merchant's edits end what is claimed.
LEMMA MerchantInOrder ==
    ASSUME PushInv, OrderInv, NEW k \in Keys, Save(k) \/ Discard(k)
    PROVE  OrderInv'
  <1>1. /\ edits' = edits + 1
        /\ UNCHANGED <<phase, upload, drop, work, pending, attempts, request, accepted, report, faults>>
    BY DEF Save, Discard, planVars, flowVars
  <1>2. edits' # 0
    BY <1>1 DEF PushInv, PushTypes
  <1>3. \A f \in Flows : Grouped(f)' /\ Tried(f)'
    BY <1>1, <1>2 DEF OrderInv, Grouped, Tried, Group, Calm
  <1> QED
    BY <1>1, <1>2, <1>3
    DEF OrderInv, StartClosed, Kept, DropsClosed, UploadsSucceed, AllSucceed, Calm

LEMMA UnchangedInOrder ==
    ASSUME OrderInv, UNCHANGED pushVars
    PROVE  OrderInv'
  <1>1. /\ UNCHANGED <<local, remote, phase, upload, drop, work, pending, attempts, request>>
        /\ UNCHANGED <<accepted, report, faults, edits>>
    BY DEF pushVars, planVars, flowVars
  <1>2. Uploads' = Uploads /\ (Calm' <=> Calm)
    BY <1>1 DEF Uploads, Calm
  <1>3. StartClosed' /\ Kept' /\ DropsClosed'
    BY <1>1, <1>2 DEF OrderInv, StartClosed, Kept, DropsClosed, Present, Closed
  <1>4. \A f \in Flows : Grouped(f)' /\ Tried(f)'
    BY <1>1, <1>2 DEF OrderInv, Grouped, Tried, Group
  <1> QED
    BY <1>1, <1>2, <1>3, <1>4 DEF OrderInv, UploadsSucceed, AllSucceed

LEMMA OrderKept == PushInv /\ OrderInv /\ [PushNext]_pushVars => OrderInv'
  <1> SUFFICES ASSUME PushInv, OrderInv, [PushNext]_pushVars PROVE OrderInv'
    OBVIOUS
  <1>1. CASE Plan
    BY <1>1, PlanInOrder
  <1>2. CASE PlanFails \/ StartDeleting \/ Finish
    BY <1>2, PhaseInOrder
  <1>3. CASE DropNext
    BY <1>3, DeleteInOrder, DeleteFailsInOrder DEF DropNext
  <1>4. ASSUME NEW f \in Flows, Send(f) \/ Served(f) \/ Lose(f) \/ Receive(f) \/ Abort(f)
        PROVE  OrderInv'
    BY <1>4, SendInOrder, ServeInOrder, LoseInOrder, ReceiveInOrder, PhaseInOrder DEF Served
  <1>5. ASSUME NEW k \in Keys, Save(k) \/ Discard(k) PROVE OrderInv'
    BY <1>5, MerchantInOrder
  <1>6. CASE UNCHANGED pushVars
    BY <1>6, UnchangedInOrder
  <1> QED
    BY <1>1, <1>2, <1>3, <1>4, <1>5, <1>6 DEF PushNext, PushStep

\* The order of the requests causes no failure of its own, and the deletions
\* come last (sync.rs, ordered_upload_work, ordered_deletions and push), for any
\* theme whose files require those of lower layers only.
THEOREM OrderPrevents == PushSpec => PushOrder
  <1>1. PushInit => PushInv /\ OrderInv
    BY PushStart, OrderStart
  <1>2. PushInv /\ OrderInv /\ [PushNext]_pushVars => (PushInv /\ OrderInv)'
    BY PushKeeps, OrderKept
  <1>3. PushInv /\ OrderInv => OrderPreventsFailures
    BY DEF OrderInv, OrderPreventsFailures, UploadsSucceed, AllSucceed, Calm, Uploads
  <1>4. PushSpec => []OrderPreventsFailures
    BY <1>1, <1>2, <1>3, PTL DEF PushSpec
  <1> QED
    BY <1>4, DeletionsLast DEF PushOrder

=============================================================================
