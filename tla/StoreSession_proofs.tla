------------------------ MODULE StoreSession_proofs ------------------------
(***************************************************************************)
(* Theorems about StoreSession for any number of processes, users, token   *)
(* pairs and faults.                                                       *)
(***************************************************************************)
EXTENDS StoreSession, FiniteSetTheorems, TLAPS

-----------------------------------------------------------------------------
(* What the storage operations return and leave behind. *)

StorageTypeOK ==
    /\ file \in MaybeBucket /\ WithToken(file) \subseteq Stored(file)
    /\ secrets \in [Users -> MaybeToken]
    /\ faults \in 0..MaxFaults

\* Removing the tokens from a bucket keeps its sessions.
LEMMA StrippedType ==
    ASSUME NEW b \in Bucket
    PROVE  /\ Stripped(b) \in Bucket
           /\ Stored(Stripped(b)) = Stored(b)
           /\ WithToken(Stripped(b)) = {}
           /\ Stripped(b).gen = b.gen
           /\ Stripped(b).current = b.current
           /\ \A u \in Users : Stripped(b).tok[u] = 0
<1>1. 0 \in MaybeToken  BY MaxTokenAssumption DEF MaybeToken
<1>2. Stripped(b) \in Bucket  BY <1>1 DEF Stripped, Bucket
<1>3. Stripped(b) # NoBucket /\ b # NoBucket  BY <1>2, NoBucketAssumption
<1> QED  BY <1>2, <1>3 DEF Stripped, Bucket, Stored, WithToken

\* Writing any part of a bucket's tokens leaves a well-typed keyring.
LEMMA WrittenType ==
    ASSUME NEW b \in Bucket, NEW W, secrets \in [Users -> MaybeToken]
    PROVE  Written(b, W) \in [Users -> MaybeToken]
BY DEF Written, Bucket

\* A bucket is either absent or a record.
LEMMA MaybeBucketCases ==
    ASSUME NEW b \in MaybeBucket
    PROVE  b = NoBucket \/ (b \in Bucket /\ b # NoBucket)
BY NoBucketAssumption DEF MaybeBucket

\* get answers with a bucket and keeps the storage well typed.
LEMMA GetType ==
    ASSUME StorageTypeOK, NEW r \in Answers, StorageGet(r) \/ StorageGetFault(r)
    PROVE  StorageTypeOK' /\ r \in MaybeBucket
<1>1. r \in MaybeBucket
  <2>1. CASE file = NoBucket  BY <2>1 DEF Answers, MaybeBucket
  <2>2. CASE file # NoBucket
    <3>1. file \in Bucket  BY <2>2, MaybeBucketCases DEF StorageTypeOK
    <3> QED  BY <2>2, <3>1 DEF Answers, Bucket, MaybeBucket
  <2> QED  BY <2>1, <2>2
<1>2. faults' \in 0..MaxFaults
  BY MaxFaultsAssumption
     DEF StorageGet, StorageGetFault, Fault, NoFault, storageVars, StorageTypeOK
<1>3. CASE file' = file /\ secrets' = secrets
  BY <1>1, <1>2, <1>3 DEF StorageTypeOK, WithToken, Stored
<1>4. CASE /\ file # NoBucket /\ file' \in {file, Stripped(file)}
           /\ \E W : secrets' = Written(file, W)
  <2>1. file \in Bucket  BY <1>4, MaybeBucketCases DEF StorageTypeOK
  <2>2. secrets' \in [Users -> MaybeToken]  BY <1>4, <2>1, WrittenType DEF StorageTypeOK
  <2>3. file' \in MaybeBucket /\ WithToken(file') \subseteq Stored(file')
    BY <1>4, <2>1, StrippedType DEF StorageTypeOK, MaybeBucket
  <2> QED  BY <1>1, <1>2, <2>2, <2>3 DEF StorageTypeOK, WithToken, Stored
<1> QED
  <2>1. CASE StorageGet(r)  BY <2>1, <1>3, <1>4 DEF StorageGet, storageVars
  <2>2. CASE StorageGetFault(r)  BY <2>2, <1>3, <1>4 DEF StorageGetFault
  <2> QED  BY <2>1, <2>2

\* set leaves the old bucket, or the new one without its tokens.
LEMMA SetType ==
    ASSUME StorageTypeOK, NEW v \in Bucket, StorageSet(v) \/ StorageSetFault(v)
    PROVE  /\ StorageTypeOK'
           /\ file' \in {file, Stripped(v)}
           /\ \E W \in SUBSET WithToken(v) : secrets' = Written(v, W)
<1>1. \E W \in SUBSET WithToken(v) : secrets' = Written(v, W)
  BY DEF StorageSet, StorageSetFault
<1>2. file' \in {file, Stripped(v)}  BY DEF StorageSet, StorageSetFault
<1>3. secrets' \in [Users -> MaybeToken]  BY <1>1, WrittenType DEF StorageTypeOK
<1>4. faults' \in 0..MaxFaults
  BY MaxFaultsAssumption DEF StorageSet, StorageSetFault, Fault, NoFault, StorageTypeOK
<1>5. file' \in MaybeBucket /\ WithToken(file') \subseteq Stored(file')
  BY <1>2, StrippedType DEF StorageTypeOK, MaybeBucket
<1> QED  BY <1>1, <1>2, <1>3, <1>4, <1>5 DEF StorageTypeOK, WithToken, Stored

\* delete leaves the old bucket or none, and only removes credentials.
LEMMA DeleteType ==
    ASSUME StorageTypeOK, StorageDelete \/ StorageDeleteFault
    PROVE  /\ StorageTypeOK'
           /\ file' \in {file, NoBucket}
           /\ \E D \in SUBSET Users : secrets' = WithoutSecrets(D)
<1>1. Stored(file) \subseteq Users  BY DEF Stored
<1>2. \E D \in SUBSET Users : secrets' = WithoutSecrets(D)
  BY <1>1 DEF StorageDelete, StorageDeleteFault
<1>3. file' \in {file, NoBucket}  BY DEF StorageDelete, StorageDeleteFault
<1>4. 0 \in MaybeToken  BY MaxTokenAssumption DEF MaybeToken
<1>5. secrets' \in [Users -> MaybeToken]  BY <1>2, <1>4 DEF StorageTypeOK, WithoutSecrets
<1>6. faults' \in 0..MaxFaults
  BY MaxFaultsAssumption DEF StorageDelete, StorageDeleteFault, Fault, NoFault, StorageTypeOK
<1>7. file' \in MaybeBucket /\ WithToken(file') \subseteq Stored(file')
  BY <1>3 DEF StorageTypeOK, MaybeBucket, WithToken, Stored
<1> QED  BY <1>2, <1>3, <1>5, <1>6, <1>7 DEF StorageTypeOK, WithToken, Stored

\* The buckets the commands build are buckets, with a token for every session.
LEMMA BuiltBuckets ==
    ASSUME NEW b \in MaybeBucket, NEW s \in Session, NEW u \in Users
    PROVE  /\ b # NoBucket => Kept(b) \in Bucket
           /\ With(b, s) \in Bucket
           /\ b # NoBucket => Without(b, u) \subseteq Bucket
<1>1. 0 \in MaybeToken  BY MaxTokenAssumption DEF MaybeToken
<1>2. b # NoBucket => b \in Bucket  BY MaybeBucketCases
<1>3. b # NoBucket => Kept(b) \in Bucket  BY <1>1, <1>2 DEF Kept, Bucket
<1>4. b # NoBucket => Without(b, u) \subseteq Bucket
  BY <1>1, <1>2 DEF Without, Stored, Bucket
<1>5. With(b, s) \in Bucket
  BY <1>1, <1>2 DEF With, Bucket, Session
<1> QED  BY <1>3, <1>4, <1>5

\* The tokens of the seeded session are numbered within the bound.
LEMMA SeededNat == Seeded \in Nat /\ Seeded <= MaxToken /\ Seeded >= 1
<1>1. IsFiniteSet(Users) /\ Users # {}  BY FirstTokenAssumption
<1>2. Seeded \in Nat /\ Seeded # 0
  BY <1>1, FS_CardinalityType, FS_EmptySet DEF Seeded
<1> QED  BY <1>2, FirstTokenAssumption

\* The placeholder of an absent session has the type of a session.
LEMMA NoSessionType == NoSession \in Session
<1>1. (CHOOSE u \in Users : TRUE) \in Users  BY FirstTokenAssumption
<1>2. 0 \in MaybeToken  BY MaxTokenAssumption DEF MaybeToken
<1> QED  BY <1>1, <1>2 DEF NoSession, Session

-----------------------------------------------------------------------------
(* Type correctness *)

ControlTypeOK ==
    /\ kind \in [Procs -> Kinds]
    /\ \A p \in Procs : kind[p] = "none" <=> stage[p] = "idle"
    /\ stage \in [Procs -> {"idle"} \cup ReadStages \cup WaitStages]
    /\ step \in [Procs -> {"get", "fix", "go"}]
    /\ raw \in [Procs -> MaybeBucket]
    /\ sess \in [Procs -> Session]

ServerTypeOK ==
    /\ issued \in Seeded..MaxToken
    /\ owner \in [1..issued -> Users]
    /\ expired \subseteq 1..issued

\* The type invariant is the conjunction of its three parts.
LEMMA TypeOKParts == TypeOK <=> StorageTypeOK /\ ControlTypeOK /\ ServerTypeOK
BY DEF TypeOK, StorageTypeOK, ControlTypeOK, ServerTypeOK

\* The initial states have their types.
LEMMA InitTypeOK == Init => TypeOK
<1> SUFFICES ASSUME Init PROVE TypeOK
  OBVIOUS
<1>1. 0 \in MaybeToken /\ 1..Seeded \subseteq MaybeToken
  BY SeededNat, MaxTokenAssumption DEF MaybeToken
<1>2. StorageTypeOK
  <2>1. PICK S \in SUBSET Users, P \in SUBSET Users, c \in Users :
           LET Pick(A) == [u \in Users |-> IF u \in A THEN FirstToken[u] ELSE 0]
           IN /\ file = IF S = {} THEN NoBucket
                        ELSE [current |-> c, gen |-> Pick(S), tok |-> Pick(S \cap P)]
              /\ secrets = Pick(S \ P)
    BY DEF Init
  <2> DEFINE Pick(A) == [u \in Users |-> IF u \in A THEN FirstToken[u] ELSE 0]
  <2>2. \A A : Pick(A) \in [Users -> MaybeToken]
    BY <1>1, FirstTokenAssumption
  <2>3. CASE S = {}
    BY <2>1, <2>2, <2>3, MaxFaultsAssumption
       DEF Init, StorageTypeOK, MaybeBucket, WithToken, Stored
  <2>4. CASE S # {}
    <3> DEFINE b == [current |-> c, gen |-> Pick(S), tok |-> Pick(S \cap P)]
    <3>1. b \in Bucket  BY <2>2 DEF Bucket
    <3>2. \A u \in Users : Pick(S \cap P)[u] # 0 => Pick(S)[u] # 0
      OBVIOUS
    <3>3. WithToken(b) \subseteq Stored(b)
      BY <3>1, <3>2, NoBucketAssumption DEF WithToken, Stored
    <3>4. file = b  BY <2>1, <2>4
    <3>5. secrets \in [Users -> MaybeToken]  BY <2>1, <2>2
    <3>6. faults \in 0..MaxFaults  BY MaxFaultsAssumption DEF Init
    <3>7. file \in MaybeBucket /\ WithToken(file) \subseteq Stored(file)
      BY <3>1, <3>3, <3>4 DEF MaybeBucket
    <3> QED  BY <3>5, <3>6, <3>7 DEF StorageTypeOK
  <2> QED  BY <2>3, <2>4
<1>3. ControlTypeOK
  BY NoSessionType DEF Init, ControlTypeOK, Kinds, MaybeBucket
<1>4. ServerTypeOK
  BY SeededNat, MaxTokenAssumption DEF Init, ServerTypeOK
<1> QED  BY <1>2, <1>3, <1>4, TypeOKParts

\* Moving to another function of the command keeps the control variables typed.
LEMMA GotoType ==
    ASSUME ControlTypeOK, NEW p \in Procs, NEW s \in {"idle"} \cup ReadStages \cup WaitStages,
           Goto(p, s)
    PROVE  /\ stage' = [stage EXCEPT ![p] = s]
           /\ stage' \in [Procs -> {"idle"} \cup ReadStages \cup WaitStages]
           /\ step' \in [Procs -> {"get", "fix", "go"}]
           /\ raw' \in [Procs -> MaybeBucket]
BY DEF Goto, ControlTypeOK, MaybeBucket

\* A command that ends keeps the types.
LEMMA FinishType ==
    ASSUME ControlTypeOK, NEW p \in Procs, Finish(p)
    PROVE  ControlTypeOK'
<1>1. Goto(p, "idle")  BY DEF Finish
<1>2. /\ stage' = [stage EXCEPT ![p] = "idle"]
      /\ stage' \in [Procs -> {"idle"} \cup ReadStages \cup WaitStages]
      /\ step' \in [Procs -> {"get", "fix", "go"}]
      /\ raw' \in [Procs -> MaybeBucket]
  BY <1>1, GotoType
<1>3. kind' = [kind EXCEPT ![p] = "none"] /\ sess' = [sess EXCEPT ![p] = NoSession]
  BY DEF Finish
<1> QED  BY <1>2, <1>3, NoSessionType DEF ControlTypeOK, Kinds

\* A load that returns to its caller keeps the types.
LEMMA ReturnType ==
    ASSUME ControlTypeOK, NEW p \in Procs, stage[p] # "idle",
           NEW s \in Session, Return(p, s)
    PROVE  ControlTypeOK'
<1> DEFINE to == IF kind[p] = "auth" THEN "browser" ELSE "use"
<1>1. Goto(p, to) /\ to \in WaitStages /\ to # "idle"  BY DEF Return, WaitStages
<1>2. /\ stage' = [stage EXCEPT ![p] = to]
      /\ stage' \in [Procs -> {"idle"} \cup ReadStages \cup WaitStages]
      /\ step' \in [Procs -> {"get", "fix", "go"}]
      /\ raw' \in [Procs -> MaybeBucket]
  BY <1>1, GotoType
<1>3. kind' = kind /\ sess' = [sess EXCEPT ![p] = s]
  BY DEF Return
<1> HIDE DEF to
<1> QED  BY <1>1, <1>2, <1>3 DEF ControlTypeOK

\* A load that finds nothing keeps the types.
LEMMA NotLoadedType ==
    ASSUME ControlTypeOK, NEW p \in Procs, stage[p] # "idle", NotLoaded(p)
    PROVE  ControlTypeOK'
BY FinishType, ReturnType, NoSessionType DEF NotLoaded

\* A step to another stage of the same command, carrying a session.
LEMMA StayType ==
    ASSUME ControlTypeOK, NEW p \in Procs, stage[p] # "idle",
           NEW s \in ReadStages \cup WaitStages, Goto(p, s),
           kind' = kind, sess' \in [Procs -> Session]
    PROVE  ControlTypeOK'
<1>1. s # "idle"  BY DEF ReadStages, WaitStages
<1>2. /\ stage' = [stage EXCEPT ![p] = s]
      /\ stage' \in [Procs -> {"idle"} \cup ReadStages \cup WaitStages]
      /\ step' \in [Procs -> {"get", "fix", "go"}]
      /\ raw' \in [Procs -> MaybeBucket]
  BY GotoType
<1> QED  BY <1>1, <1>2 DEF ControlTypeOK

\* The types are inductive once a refresh is known to present an issued token.
LEMMA NextTypeOK == TypeOK /\ CredentialIsolation /\ [Next]_vars => TypeOK'
<1> SUFFICES ASSUME StorageTypeOK, ControlTypeOK, ServerTypeOK, CredentialIsolation,
                    [Next]_vars
             PROVE  StorageTypeOK' /\ ControlTypeOK' /\ ServerTypeOK'
  BY TypeOKParts DEF TypeOK, StorageTypeOK, ControlTypeOK, ServerTypeOK
<1>a. ASSUME UNCHANGED storageVars PROVE StorageTypeOK'
  BY <1>a DEF storageVars, StorageTypeOK, WithToken, Stored
<1>b. ASSUME UNCHANGED serverVars PROVE ServerTypeOK'
  BY <1>b DEF serverVars, ServerTypeOK
<1>c. ASSUME UNCHANGED procVars PROVE ControlTypeOK'
  BY <1>c DEF procVars, ControlTypeOK
<1>0. CASE UNCHANGED vars
  BY <1>0, <1>a, <1>b, <1>c DEF vars
<1>1. ASSUME NEW p \in Procs, Start(p) PROVE StorageTypeOK' /\ ControlTypeOK' /\ ServerTypeOK'
  <2>1. PICK k \in Kinds \ {"none"}, s \in ReadStages :
           kind' = [kind EXCEPT ![p] = k] /\ Goto(p, s)
    BY <1>1 DEF Start, Kinds, ReadStages
  <2>2. sess' = sess  BY <1>1 DEF Start
  <2>3. s # "idle"  BY DEF ReadStages
  <2>4. /\ stage' = [stage EXCEPT ![p] = s]
        /\ stage' \in [Procs -> {"idle"} \cup ReadStages \cup WaitStages]
        /\ step' \in [Procs -> {"get", "fix", "go"}]
        /\ raw' \in [Procs -> MaybeBucket]
    BY <2>1, GotoType
  <2>5. ControlTypeOK'
    BY <2>1, <2>2, <2>3, <2>4 DEF ControlTypeOK
  <2> QED  BY <1>1, <1>a, <1>b, <2>5 DEF Start
<1>2. ASSUME NEW p \in Procs, Get(p) PROVE StorageTypeOK' /\ ControlTypeOK' /\ ServerTypeOK'
  <2>1. PICK r \in Answers : /\ StorageGet(r) \/ StorageGetFault(r)
                             /\ raw' = [raw EXCEPT ![p] = r]
                             /\ step' = [step EXCEPT ![p] = IF Complete(r) THEN "go" ELSE "fix"]
    BY <1>2 DEF Get
  <2>2. StorageTypeOK' /\ r \in MaybeBucket  BY <2>1, GetType
  <2>3. ControlTypeOK'  BY <1>2, <2>1, <2>2 DEF Get, ControlTypeOK
  <2> QED  BY <1>2, <1>b, <2>2, <2>3 DEF Get
<1>3. ASSUME NEW p \in Procs, Fix(p) PROVE StorageTypeOK' /\ ControlTypeOK' /\ ServerTypeOK'
  <2>0. raw[p] \in MaybeBucket  BY DEF ControlTypeOK
  <2>1. CASE raw[p].current \in WithToken(raw[p]) /\ raw' = [raw EXCEPT ![p] = Kept(raw[p])]
             /\ (StorageSet(Kept(raw[p])) \/ StorageSetFault(Kept(raw[p])))
    <3>1. raw[p] # NoBucket  BY <2>1 DEF WithToken
    <3>2. Kept(raw[p]) \in Bucket  BY <2>0, <3>1, BuiltBuckets, NoSessionType, FirstTokenAssumption
    <3>3. StorageTypeOK'  BY <2>1, <3>2, SetType
    <3>4. ControlTypeOK'  BY <1>3, <2>1, <3>2 DEF Fix, ControlTypeOK, MaybeBucket
    <3> QED  BY <1>3, <1>b, <3>3, <3>4 DEF Fix
  <2>2. CASE raw' = [raw EXCEPT ![p] = NoBucket] /\ (StorageDelete \/ StorageDeleteFault)
    <3>1. StorageTypeOK'  BY <2>2, DeleteType
    <3>2. ControlTypeOK'  BY <1>3, <2>2 DEF Fix, ControlTypeOK, MaybeBucket
    <3> QED  BY <1>3, <1>b, <3>1, <3>2 DEF Fix
  <2> QED  BY <1>3, <2>1, <2>2 DEF Fix
<1>4. ASSUME NEW p \in Procs, DropDangling(p) PROVE StorageTypeOK' /\ ControlTypeOK' /\ ServerTypeOK'
  <2>1. StorageTypeOK'  BY <1>4, DeleteType DEF DropDangling
  <2>2. ControlTypeOK'  BY <1>4 DEF DropDangling, ControlTypeOK, MaybeBucket
  <2> QED  BY <1>4, <1>b, <2>1, <2>2 DEF DropDangling
<1>5. ASSUME NEW p \in Procs, List(p) \/ Crash(p) PROVE StorageTypeOK' /\ ControlTypeOK' /\ ServerTypeOK'
  BY <1>5, <1>a, <1>b, FinishType DEF List, Crash
<1>6. ASSUME NEW p \in Procs, Probe(p) PROVE StorageTypeOK' /\ ControlTypeOK' /\ ServerTypeOK'
  <2>1. PICK s \in ReadStages \cup WaitStages : Goto(p, s)
    BY <1>6 DEF Probe, ReadStages, WaitStages
  <2>2. ControlTypeOK'
    BY <1>6, <2>1, StayType DEF Probe, At, ControlTypeOK
  <2> QED  BY <1>6, <1>a, <1>b, <2>2 DEF Probe
<1>7. ASSUME NEW p \in Procs, Unwrap(p) PROVE StorageTypeOK' /\ ControlTypeOK' /\ ServerTypeOK'
  <2>1. CASE Finish(p)  BY <1>7, <2>1, <1>a, <1>b, FinishType DEF Unwrap
  <2>2. CASE Goto(p, "load") /\ UNCHANGED <<kind, sess>>
    <3>1. ControlTypeOK'
      BY <1>7, <2>2, StayType DEF Unwrap, At, ControlTypeOK, ReadStages
    <3> QED  BY <1>7, <1>a, <1>b, <3>1 DEF Unwrap
  <2> QED  BY <1>7, <2>1, <2>2 DEF Unwrap
<1>8. ASSUME NEW p \in Procs, Load(p) PROVE StorageTypeOK' /\ ControlTypeOK' /\ ServerTypeOK'
  <2> DEFINE u == raw[p].current
             s == [user |-> u, gen |-> raw[p].gen[u], tok |-> raw[p].tok[u]]
  <2>1. stage[p] # "idle"  BY <1>8 DEF Load, At
  <2>2. raw[p] # NoBucket => s \in Session
    BY MaybeBucketCases DEF ControlTypeOK, Bucket, Session
  <2>3. CASE NotLoaded(p)  BY <1>8, <2>1, <2>3, <1>a, <1>b, NotLoadedType DEF Load
  <2>4. CASE raw[p] # NoBucket /\ Return(p, s)
    <3>1. ControlTypeOK'  BY <2>1, <2>2, <2>4, ReturnType
    <3> QED  BY <1>8, <3>1, <1>a, <1>b DEF Load
  <2>5. CASE raw[p] # NoBucket /\ sess' = [sess EXCEPT ![p] = s] /\ Goto(p, "refresh") /\ UNCHANGED kind
    <3>1. ControlTypeOK'
      BY <2>1, <2>2, <2>5, StayType DEF ControlTypeOK, WaitStages
    <3> QED  BY <1>8, <3>1, <1>a, <1>b DEF Load
  <2> QED  BY <1>8, <2>3, <2>4, <2>5 DEF Load
<1>d. ASSUME NEW t \in Token, NEW u \in Users, Issue(t, u) PROVE ServerTypeOK'
  <2>1. issued \in Int /\ Seeded \in Nat /\ MaxToken \in Nat /\ Seeded <= issued
    BY SeededNat, MaxTokenAssumption DEF ServerTypeOK
  <2>2. issued' = issued + 1 /\ issued' <= MaxToken /\ t = issued'  BY <1>d DEF Issue
  <2>3. issued' \in Seeded..MaxToken  BY <2>1, <2>2
  <2>4. \A i \in 1..issued' : i # t => i \in 1..issued  BY <2>1, <2>2
  <2>5. owner' \in [1..issued' -> Users]  BY <1>d, <2>2, <2>4 DEF Issue, ServerTypeOK
  <2>6. expired' \subseteq 1..issued'  BY <1>d, <2>1, <2>2 DEF Issue, ServerTypeOK
  <2> QED  BY <2>3, <2>5, <2>6 DEF ServerTypeOK
<1>9. ASSUME NEW p \in Procs, Refresh(p) PROVE StorageTypeOK' /\ ControlTypeOK' /\ ServerTypeOK'
  <2>0. stage[p] # "idle"  BY <1>9 DEF Refresh, At
  <2>1. CASE Goto(p, "clear") /\ UNCHANGED <<sess, serverVars>>
    <3>1. ControlTypeOK'
      BY <1>9, <2>0, <2>1, StayType DEF Refresh, ControlTypeOK, ReadStages
    <3> QED  BY <1>9, <2>1, <3>1, <1>a, <1>b DEF Refresh
  <2>2. ASSUME NEW t \in Token, Issue(t, owner[sess[p].tok]),
               sess' = [sess EXCEPT ![p].gen = t, ![p].tok = t], Goto(p, "put")
        PROVE  StorageTypeOK' /\ ControlTypeOK' /\ ServerTypeOK'
    <3>1. sess[p].tok \in 1..issued /\ sess[p] \in Session
      BY <1>9 DEF Refresh, At, CredentialIsolation, Owned, ControlTypeOK
    <3>2. owner[sess[p].tok] \in Users  BY <3>1 DEF ServerTypeOK
    <3>3. ServerTypeOK'  BY <2>2, <3>2, <1>d
    <3>4. t \in MaybeToken  BY MaxTokenAssumption DEF Token, MaybeToken
    <3>5. sess' \in [Procs -> Session]
      BY <2>2, <3>1, <3>4 DEF ControlTypeOK, Session
    <3>6. ControlTypeOK'  BY <1>9, <2>0, <2>2, <3>5, StayType DEF Refresh, ReadStages
    <3> QED  BY <1>9, <3>3, <3>6, <1>a DEF Refresh
  <2> QED  BY <1>9, <2>1, <2>2 DEF Refresh
<1>10. ASSUME NEW p \in Procs, Browser(p) PROVE StorageTypeOK' /\ ControlTypeOK' /\ ServerTypeOK'
  <2>1. CASE Finish(p) /\ UNCHANGED serverVars
    BY <1>10, <2>1, <1>a, <1>b, FinishType DEF Browser
  <2>2. ASSUME NEW t \in Token, NEW u \in Users, Issue(t, u),
               sess' = [sess EXCEPT ![p] = [user |-> u, gen |-> t, tok |-> t]],
               kind' = [kind EXCEPT ![p] = "login"], Goto(p, "put")
        PROVE  StorageTypeOK' /\ ControlTypeOK' /\ ServerTypeOK'
    <3>1. t \in MaybeToken  BY MaxTokenAssumption DEF Token, MaybeToken
    <3>2. sess' \in [Procs -> Session]  BY <2>2, <3>1 DEF ControlTypeOK, Session
    <3>3. /\ stage' = [stage EXCEPT ![p] = "put"]
          /\ stage' \in [Procs -> {"idle"} \cup ReadStages \cup WaitStages]
          /\ step' \in [Procs -> {"get", "fix", "go"}]
          /\ raw' \in [Procs -> MaybeBucket]
      BY <2>2, GotoType DEF ReadStages
    <3>4. ControlTypeOK'  BY <2>2, <3>2, <3>3 DEF ControlTypeOK, Kinds
    <3> QED  BY <1>10, <2>2, <3>4, <1>a, <1>d DEF Browser
  <2> QED  BY <1>10, <2>1, <2>2 DEF Browser
<1>11. ASSUME NEW p \in Procs, Put(p) PROVE StorageTypeOK' /\ ControlTypeOK' /\ ServerTypeOK'
  <2>1. sess[p] \in Session /\ raw[p] \in MaybeBucket  BY DEF ControlTypeOK
  <2>2. With(raw[p], sess[p]) \in Bucket  BY <2>1, BuiltBuckets, FirstTokenAssumption
  <2>3. StorageTypeOK'  BY <1>11, <2>2, SetType DEF Put
  <2>4. ControlTypeOK'  BY <1>11, <2>1, FinishType, ReturnType DEF Put, At
  <2> QED  BY <1>11, <2>3, <2>4, <1>b DEF Put
<1>12. ASSUME NEW p \in Procs, Clear(p) PROVE StorageTypeOK' /\ ControlTypeOK' /\ ServerTypeOK'
  <2> DEFINE u == sess[p].user
  <2>1. u \in Users /\ raw[p] \in MaybeBucket /\ sess[p] \in Session  BY DEF ControlTypeOK, Session
  <2>2. StorageTypeOK'
    <3>1. CASE UNCHANGED storageVars  BY <3>1, <1>a
    <3>2. CASE StorageDelete \/ StorageDeleteFault  BY <3>2, DeleteType
    <3>3. CASE raw[p] # NoBucket /\ \E v \in Without(raw[p], u) : StorageSet(v) \/ StorageSetFault(v)
      BY <2>1, <3>3, BuiltBuckets, SetType
    <3> QED  BY <1>12, <3>1, <3>2, <3>3 DEF Clear
  <2>3. ControlTypeOK'  BY <1>12, NotLoadedType DEF Clear, At
  <2> QED  BY <1>12, <2>2, <2>3, <1>b DEF Clear
<1>13. ASSUME NEW p \in Procs, Use(p) PROVE StorageTypeOK' /\ ControlTypeOK' /\ ServerTypeOK'
  <2>1. CASE Finish(p)  BY <1>13, <2>1, <1>a, <1>b, FinishType DEF Use
  <2>2. CASE Goto(p, "clear") /\ UNCHANGED <<kind, sess>>
    <3>1. ControlTypeOK'
      BY <1>13, <2>2, StayType DEF Use, At, ControlTypeOK, ReadStages
    <3> QED  BY <1>13, <1>a, <1>b, <3>1 DEF Use
  <2> QED  BY <1>13, <2>1, <2>2 DEF Use
<1>14. ASSUME NEW t \in Token, Expire(t) PROVE StorageTypeOK' /\ ControlTypeOK' /\ ServerTypeOK'
  <2>1. t \in 1..issued
    BY <1>14, SeededNat, MaxTokenAssumption DEF Expire, Token, ServerTypeOK
  <2> QED  BY <1>14, <2>1, <1>a, <1>c DEF Expire, ServerTypeOK
<1>15. ASSUME StorageFault PROVE StorageTypeOK' /\ ControlTypeOK' /\ ServerTypeOK'
  <2>1. 0 \in MaybeToken  BY MaxTokenAssumption DEF MaybeToken
  <2>2. faults' \in 0..MaxFaults
    BY <1>15, MaxFaultsAssumption DEF StorageFault, LoseFile, LoseSecret, Fault, StorageTypeOK
  <2>3. StorageTypeOK'
    BY <1>15, <2>1, <2>2
       DEF StorageFault, LoseFile, LoseSecret, StorageTypeOK, WithToken, Stored, MaybeBucket
  <2> QED  BY <1>15, <2>3, <1>b, <1>c DEF StorageFault
<1> QED
  BY <1>0, <1>1, <1>2, <1>3, <1>4, <1>5, <1>6, <1>7, <1>8, <1>9, <1>10,
     <1>11, <1>12, <1>13, <1>14, <1>15 DEF Next

-----------------------------------------------------------------------------
(* Credential isolation *)

OwnedBucket(b) == b # NoBucket => \A u \in Users : Owned(u, b.tok[u])

StorageOwned == OwnedBucket(file) /\ \A u \in Users : Owned(u, secrets[u])

Carrying == {"refresh", "use", "put", "clear"}

\* Every place a token can come from is isolated, what a process has read is
\* complete once sanitized, and a carried session has its token.
IsolationInv ==
    /\ TypeOK
    /\ StorageOwned
    /\ \A p \in Procs :
          /\ OwnedBucket(raw[p])
          /\ Owned(sess[p].user, sess[p].tok)
          /\ stage[p] \in Carrying => sess[p].tok # 0
          /\ WithToken(raw[p]) \subseteq Stored(raw[p])
          /\ step[p] = "go" => Complete(raw[p])

\* The inductive invariant implies the property.
LEMMA IsolationInvImplies == IsolationInv => CredentialIsolation
BY DEF IsolationInv, CredentialIsolation, StorageOwned, Carrying

\* Isolation of the next storage can be read off the tokens it holds.
LEMMA StorageOwnedNext ==
    ASSUME UNCHANGED serverVars, \A u \in Users : Owned(u, secrets'[u]),
           file' # NoBucket => \A u \in Users : Owned(u, file'.tok[u])
    PROVE  StorageOwned'
<1>1. issued' = issued /\ owner' = owner  BY DEF serverVars
<1>2. \A u \in Users : Owned(u, secrets[u])'  BY <1>1 DEF Owned
<1>3. OwnedBucket(file)'  BY <1>1 DEF OwnedBucket, Owned
<1> QED  BY <1>2, <1>3 DEF StorageOwned

\* What getCurrentStoredStoreAppSession returns belongs to the store asked for.
LEMMA GetOwned ==
    ASSUME StorageTypeOK, StorageOwned, UNCHANGED serverVars,
           NEW r \in Answers, StorageGet(r) \/ StorageGetFault(r)
    PROVE  StorageOwned' /\ OwnedBucket(r) /\ WithToken(r) \subseteq Stored(r)
<1>1. CASE file = NoBucket
  <2>1. UNCHANGED <<file, secrets>> /\ r = NoBucket
    BY <1>1 DEF StorageGet, StorageGetFault, storageVars
  <2> QED  BY <2>1 DEF StorageOwned, OwnedBucket, Owned, serverVars, WithToken, Stored
<1>2. CASE UNCHANGED <<file, secrets>> /\ r = NoBucket
  BY <1>2 DEF StorageOwned, OwnedBucket, Owned, serverVars, WithToken, Stored
<1>3. ASSUME file # NoBucket, NEW W, NEW F, NEW b \in {file, Stripped(file)},
             secrets' = Written(file, W), file' \in {file, Stripped(file)},
             r = Hydrated(b, secrets', F)
      PROVE  StorageOwned' /\ OwnedBucket(r) /\ WithToken(r) \subseteq Stored(r)
  <2>1. file \in Bucket  BY <1>3, MaybeBucketCases DEF StorageTypeOK
  <2>2. Stripped(file) \in Bucket /\ \A u \in Users : Stripped(file).tok[u] = 0
    BY <2>1, StrippedType
  <2>3. \A u \in Users : secrets'[u] \in {file.tok[u], secrets[u]}
    BY <1>3 DEF Written
  <2>4. \A u \in Users : Owned(u, secrets'[u])
    BY <1>3, <2>3 DEF StorageOwned, OwnedBucket
  <2>5. \A u \in Users : Owned(u, file.tok[u]) /\ Owned(u, 0)
    BY <1>3 DEF StorageOwned, OwnedBucket, Owned
  <2>6. r = [b EXCEPT !.tok = [u \in Users |->
                IF b.tok[u] # 0 \/ b.gen[u] = 0 THEN b.tok[u]
                ELSE IF u \in F THEN 0 ELSE secrets'[u]]]
    BY <1>3 DEF Hydrated
  <2>7. b \in Bucket  BY <1>3, <2>1, <2>2
  <2>8. \A u \in Users : r.tok[u] \in {0, b.tok[u], secrets'[u]}
    BY <2>6, <2>7 DEF Bucket
  <2>9. OwnedBucket(r)
    BY <1>3, <2>2, <2>4, <2>5, <2>8 DEF OwnedBucket
  <2>10. \A u \in Users : file' # NoBucket => file'.tok[u] \in {0, file.tok[u]}
    BY <1>3, <2>2
  <2>11. file' # NoBucket => \A u \in Users : Owned(u, file'.tok[u])
    BY <2>5, <2>10
  <2>12. \A u \in Users : r.tok[u] # 0 => r.gen[u] # 0
    <3>1. r.gen = b.gen  BY <2>6, <2>7 DEF Bucket
    <3>2. \A u \in Users : b.gen[u] = 0 => r.tok[u] = b.tok[u]
      BY <2>6, <2>7 DEF Bucket
    <3>3. \A u \in Users : file.tok[u] # 0 => file.gen[u] # 0
      BY <1>3 DEF StorageTypeOK, WithToken, Stored
    <3>4. \A u \in Users : b.tok[u] # 0 => b.gen[u] # 0
      BY <1>3, <2>2, <3>3
    <3> QED  BY <3>1, <3>2, <3>4
  <2>13. WithToken(r) \subseteq Stored(r)
    <3>1. CASE r = NoBucket  BY <3>1 DEF WithToken, Stored
    <3>2. CASE r # NoBucket  BY <2>12, <3>2 DEF WithToken, Stored
    <3> QED  BY <3>1, <3>2
  <2> QED  BY <2>4, <2>9, <2>11, <2>13, StorageOwnedNext
<1>4. CASE StorageGet(r)
  <2>1. file # NoBucket => /\ secrets' = Written(file, WithToken(file))
                          /\ file' = Stripped(file)
                          /\ r = Hydrated(Stripped(file), secrets', {})
    BY <1>4 DEF StorageGet
  <2> QED  BY <2>1, <1>1, <1>3
<1>5. CASE StorageGetFault(r)
  <2>1. CASE file # NoBucket /\ \E W \in SUBSET WithToken(file), F \in SUBSET Stored(file) :
                 /\ secrets' = Written(file, W)
                 /\ \/ file' = file /\ r = Hydrated(file, secrets', F)
                    \/ /\ W = WithToken(file)
                       /\ file' \in {file, Stripped(file)}
                       /\ r = Hydrated(Stripped(file), secrets', F)
    BY <2>1, <1>3
  <2> QED  BY <1>5, <1>2, <2>1 DEF StorageGetFault
<1> QED  BY <1>4, <1>5

\* Saving a session of a store under its key keeps storage owned.
LEMMA SetOwned ==
    ASSUME StorageTypeOK, StorageOwned, UNCHANGED serverVars,
           NEW v \in Bucket, OwnedBucket(v), StorageSet(v) \/ StorageSetFault(v)
    PROVE  StorageOwned'
<1>1. PICK W \in SUBSET WithToken(v) : secrets' = Written(v, W)  BY SetType
<1>2. file' \in {file, Stripped(v)}  BY SetType
<1>3. v # NoBucket  BY NoBucketAssumption
<1>4. \A u \in Users : secrets'[u] \in {v.tok[u], secrets[u]}  BY <1>1 DEF Written
<1>5. \A u \in Users : Owned(u, secrets'[u])
  BY <1>3, <1>4 DEF StorageOwned, OwnedBucket
<1>6. file' # NoBucket => \A u \in Users : Owned(u, file'.tok[u])
  BY <1>2, StrippedType DEF StorageOwned, OwnedBucket, Owned
<1> QED  BY <1>5, <1>6, StorageOwnedNext

\* Clearing a session keeps storage owned.
LEMMA DeleteOwned ==
    ASSUME StorageTypeOK, StorageOwned, UNCHANGED serverVars,
           StorageDelete \/ StorageDeleteFault
    PROVE  StorageOwned'
<1>1. PICK D \in SUBSET Users : secrets' = WithoutSecrets(D)  BY DeleteType
<1>2. file' \in {file, NoBucket}  BY DeleteType
<1>3. \A u \in Users : secrets'[u] \in {0, secrets[u]}  BY <1>1 DEF WithoutSecrets
<1>4. file' # NoBucket => \A u \in Users : Owned(u, file'.tok[u])
  BY <1>2 DEF StorageOwned, OwnedBucket
<1>5. \A u \in Users : Owned(u, secrets'[u])
  BY <1>3 DEF StorageOwned, Owned
<1> QED  BY <1>4, <1>5, StorageOwnedNext

\* The inductive invariant holds initially.
LEMMA InitIsolation == Init => IsolationInv
<1> SUFFICES ASSUME Init PROVE IsolationInv
  OBVIOUS
<1>1. TypeOK  BY InitTypeOK
<1>2. StorageOwned
  <2>1. PICK S \in SUBSET Users, P \in SUBSET Users, c \in Users :
           LET Pick(A) == [u \in Users |-> IF u \in A THEN FirstToken[u] ELSE 0]
           IN /\ file = IF S = {} THEN NoBucket
                        ELSE [current |-> c, gen |-> Pick(S), tok |-> Pick(S \cap P)]
              /\ secrets = Pick(S \ P)
    BY DEF Init
  <2>2. \A u \in Users : Owned(u, FirstToken[u]) /\ Owned(u, 0)
    BY FirstTokenAssumption, SeededNat DEF Init, Owned
  <2>3. \A u \in Users : file # NoBucket => file.tok[u] \in {0, FirstToken[u]}
    BY <2>1
  <2>4. \A u \in Users : secrets[u] \in {0, FirstToken[u]}
    BY <2>1
  <2> QED  BY <2>2, <2>3, <2>4 DEF StorageOwned, OwnedBucket
<1>3. NoSession.tok = 0  BY DEF NoSession
<1> QED
  BY <1>1, <1>2, <1>3
     DEF Init, IsolationInv, OwnedBucket, Owned, Carrying, Complete, Stored, WithToken

\* What holds of one process, so that a step of another one keeps it.
ProcIsolation(p) ==
    /\ OwnedBucket(raw[p])
    /\ Owned(sess[p].user, sess[p].tok)
    /\ stage[p] \in Carrying => sess[p].tok # 0
    /\ WithToken(raw[p]) \subseteq Stored(raw[p])
    /\ step[p] = "go" => Complete(raw[p])

\* Processes that do not move keep their tokens while the server only issues more.
LEMMA ProcIsolationStable ==
    ASSUME NEW p, ProcIsolation(p),
           raw'[p] = raw[p], sess'[p] = sess[p], stage'[p] = stage[p], step'[p] = step[p],
           \A u, t : Owned(u, t) => (t # 0 => t \in 1..issued' /\ owner'[t] = u)
    PROVE  ProcIsolation(p)'
<1>1. OwnedBucket(raw[p])'  BY DEF ProcIsolation, OwnedBucket, Owned
<1>2. Owned(sess[p].user, sess[p].tok)'  BY DEF ProcIsolation, Owned
<1>3. (WithToken(raw[p]) \subseteq Stored(raw[p]) /\ (step[p] = "go" => Complete(raw[p])))'
  BY DEF ProcIsolation, Complete, Stored, WithToken
<1> QED  BY <1>1, <1>2, <1>3 DEF ProcIsolation

ProcStep(p) ==
    \/ Start(p) \/ Get(p) \/ Fix(p) \/ DropDangling(p) \/ List(p) \/ Probe(p) \/ Unwrap(p)
    \/ Load(p) \/ Refresh(p) \/ Browser(p) \/ Put(p) \/ Clear(p) \/ Use(p) \/ Crash(p)

\* A process writes its own variables only.
LEMMA ProcFrame ==
    ASSUME ControlTypeOK, NEW p \in Procs, ProcStep(p), NEW q \in Procs, q # p
    PROVE  /\ raw'[q] = raw[q] /\ sess'[q] = sess[q]
           /\ stage'[q] = stage[q] /\ step'[q] = step[q]
<1> USE DEF ControlTypeOK
<1>1. CASE Start(p)  BY <1>1 DEF Start, Goto
<1>2. CASE Get(p) \/ Fix(p) \/ DropDangling(p)  BY <1>2 DEF Get, Fix, DropDangling
<1>3. CASE List(p) \/ Probe(p) \/ Unwrap(p) \/ Crash(p)
  BY <1>3 DEF List, Probe, Unwrap, Crash, Finish, Goto
<1>4. CASE Load(p)  BY <1>4 DEF Load, NotLoaded, Return, Finish, Goto
<1>5. CASE Refresh(p)  BY <1>5 DEF Refresh, Goto
<1>6. CASE Browser(p)  BY <1>6 DEF Browser, Finish, Goto
<1>7. CASE Put(p)  BY <1>7 DEF Put, Finish, Return, Goto
<1>8. CASE Clear(p)  BY <1>8 DEF Clear, NotLoaded, Finish, Return, Goto
<1>9. CASE Use(p)  BY <1>9 DEF Use, Finish, Goto
<1> QED
  BY <1>1, <1>2, <1>3, <1>4, <1>5, <1>6, <1>7, <1>8, <1>9 DEF ProcStep

\* A process that only moves on keeps the invariant.
LEMMA GotoIsolation ==
    ASSUME ControlTypeOK, NEW p \in Procs, NEW s, Goto(p, s),
           Owned(sess[p].user, sess[p].tok)', s \in Carrying => sess'[p].tok # 0
    PROVE  ProcIsolation(p)'
<1>1. raw'[p] = NoBucket /\ stage'[p] = s  BY DEF Goto, ControlTypeOK
<1> QED  BY <1>1 DEF ProcIsolation, OwnedBucket, Complete, Stored, WithToken

\* A command that ends keeps the invariant.
LEMMA FinishIsolation ==
    ASSUME ControlTypeOK, NEW p \in Procs, Finish(p)
    PROVE  ProcIsolation(p)'
<1>1. sess'[p].tok = 0  BY DEF Finish, ControlTypeOK, NoSession
<1>2. Owned(sess[p].user, sess[p].tok)'  BY <1>1 DEF Owned
<1>3. Goto(p, "idle") /\ "idle" \notin Carrying  BY DEF Finish, Carrying
<1> QED  BY <1>2, <1>3, GotoIsolation

\* A load that returns to its caller keeps the invariant.
LEMMA ReturnIsolation ==
    ASSUME ControlTypeOK, UNCHANGED serverVars, NEW p \in Procs, NEW s, Return(p, s),
           Owned(s.user, s.tok), s.tok # 0 \/ kind[p] = "auth"
    PROVE  ProcIsolation(p)'
<1>1. sess'[p] = s  BY DEF Return, ControlTypeOK
<1>2. Owned(sess[p].user, sess[p].tok)'  BY <1>1 DEF Owned, serverVars
<1>3. CASE kind[p] = "auth"
  BY <1>1, <1>2, <1>3, GotoIsolation DEF Return, Carrying
<1>4. CASE s.tok # 0 /\ kind[p] # "auth"
  BY <1>1, <1>2, <1>4, GotoIsolation DEF Return, Carrying
<1> QED  BY <1>3, <1>4

\* A load that finds nothing keeps the invariant.
LEMMA NotLoadedIsolation ==
    ASSUME ControlTypeOK, UNCHANGED serverVars, NEW p \in Procs, NotLoaded(p)
    PROVE  ProcIsolation(p)'
<1>1. NoSession.tok = 0 /\ Owned(NoSession.user, NoSession.tok)  BY DEF NoSession, Owned
<1> QED  BY <1>1, FinishIsolation, ReturnIsolation DEF NotLoaded

\* The buckets the commands build hold tokens of the bucket read and the session.
LEMMA BuiltOwned ==
    ASSUME NEW b \in MaybeBucket, OwnedBucket(b), NEW s \in Session, Owned(s.user, s.tok),
           NEW u \in Users
    PROVE  /\ b # NoBucket => OwnedBucket(Kept(b))
           /\ OwnedBucket(With(b, s))
           /\ b # NoBucket => \A v \in Without(b, u) : OwnedBucket(v)
<1>1. b # NoBucket => b \in Bucket  BY MaybeBucketCases
<1>2. b # NoBucket => OwnedBucket(Kept(b))
  <2>1. b # NoBucket => Kept(b).tok = b.tok  BY <1>1 DEF Kept, Bucket
  <2> QED  BY <2>1 DEF OwnedBucket
<1>3. OwnedBucket(With(b, s))
  <2>1. With(b, s).tok[s.user] = s.tok /\ \A w \in Users \ {s.user} :
           With(b, s).tok[w] = IF b = NoBucket THEN 0 ELSE b.tok[w]
    BY <1>1 DEF With, Bucket, Session
  <2> QED  BY <2>1 DEF OwnedBucket, Owned
<1>4. b # NoBucket => \A v \in Without(b, u) : OwnedBucket(v)
  <2>1. b # NoBucket => \A v \in Without(b, u), w \in Users : v.tok[w] \in {0, b.tok[w]}
    BY <1>1 DEF Without, Bucket
  <2> QED  BY <2>1 DEF OwnedBucket, Owned
<1> QED  BY <1>2, <1>3, <1>4

\* Reading a bucket and sanitizing it.
LEMMA ReadIsolation ==
    ASSUME IsolationInv, NEW p \in Procs, Get(p) \/ Fix(p) \/ DropDangling(p)
    PROVE  StorageOwned' /\ ProcIsolation(p)'
<1>0. StorageTypeOK /\ ControlTypeOK /\ StorageOwned /\ ProcIsolation(p)
  BY TypeOKParts DEF IsolationInv, ProcIsolation
<1>u. UNCHANGED serverVars /\ sess' = sess /\ stage' = stage
  BY DEF Get, Fix, DropDangling
<1>v. issued' = issued /\ owner' = owner  BY <1>u DEF serverVars
<1>1. CASE Get(p)
  <2>1. PICK r \in Answers : /\ StorageGet(r) \/ StorageGetFault(r)
                             /\ raw' = [raw EXCEPT ![p] = r]
                             /\ step' = [step EXCEPT ![p] = IF Complete(r) THEN "go" ELSE "fix"]
    BY <1>1 DEF Get
  <2>2. StorageOwned' /\ OwnedBucket(r) /\ WithToken(r) \subseteq Stored(r)
    BY <1>0, <1>u, <2>1, GetOwned
  <2>3. raw'[p] = r /\ step'[p] = IF Complete(r) THEN "go" ELSE "fix"
    BY <1>0, <2>1 DEF ControlTypeOK
  <2> QED  BY <1>0, <1>u, <1>v, <2>2, <2>3
           DEF ProcIsolation, OwnedBucket, Owned, Complete, Stored, WithToken
<1>2. CASE Fix(p) /\ raw' = [raw EXCEPT ![p] = Kept(raw[p])] /\ raw[p].current \in WithToken(raw[p])
           /\ (StorageSet(Kept(raw[p])) \/ StorageSetFault(Kept(raw[p])))
  <2>1. raw[p] \in Bucket /\ raw[p] # NoBucket /\ sess[p] \in Session
    BY <1>0, <1>2, MaybeBucketCases DEF ControlTypeOK, WithToken
  <2>2. Kept(raw[p]) \in Bucket /\ OwnedBucket(Kept(raw[p]))
    BY <1>0, <2>1, BuiltBuckets, BuiltOwned, FirstTokenAssumption DEF ProcIsolation, MaybeBucket
  <2>3. StorageOwned'  BY <1>0, <1>2, <1>u, <2>2, SetOwned
  <2>4. Complete(Kept(raw[p]))
    BY <1>0, <2>1, <2>2, NoBucketAssumption
       DEF Complete, Stored, WithToken, Kept, Bucket, ProcIsolation
  <2>5. raw'[p] = Kept(raw[p])  BY <1>0, <1>2 DEF ControlTypeOK
  <2> QED  BY <1>0, <1>u, <1>v, <2>2, <2>3, <2>4, <2>5
           DEF ProcIsolation, OwnedBucket, Owned, Complete, Stored, WithToken
<1>3. CASE raw' = [raw EXCEPT ![p] = NoBucket] /\ (StorageDelete \/ StorageDeleteFault)
  <2>1. StorageOwned'  BY <1>0, <1>3, <1>u, DeleteOwned
  <2>2. raw'[p] = NoBucket  BY <1>0, <1>3 DEF ControlTypeOK
  <2> QED  BY <1>0, <1>u, <1>v, <2>1, <2>2
           DEF ProcIsolation, OwnedBucket, Owned, Complete, Stored, WithToken
<1> QED  BY <1>1, <1>2, <1>3 DEF Fix, DropDangling

\* The steps that leave both the storage and the server alone.
LEMMA LocalIsolation ==
    ASSUME IsolationInv, NEW p \in Procs,
           Start(p) \/ List(p) \/ Probe(p) \/ Unwrap(p) \/ Load(p) \/ Use(p) \/ Crash(p)
    PROVE  ProcIsolation(p)' /\ UNCHANGED <<storageVars, serverVars>>
<1>0. ControlTypeOK /\ ProcIsolation(p)
  BY TypeOKParts DEF IsolationInv, ProcIsolation
<1>u. UNCHANGED <<storageVars, serverVars>>
  BY DEF Start, List, Probe, Unwrap, Load, Use, Crash
<1>v. issued' = issued /\ owner' = owner  BY <1>u DEF serverVars
<1>f. ASSUME Finish(p) PROVE ProcIsolation(p)'
  BY <1>0, <1>f, FinishIsolation
<1>g. ASSUME NEW s, Goto(p, s), sess' = sess, s \in Carrying => sess[p].tok # 0
      PROVE ProcIsolation(p)'
  <2>1. Owned(sess[p].user, sess[p].tok)'  BY <1>0, <1>g, <1>v DEF ProcIsolation, Owned
  <2> QED  BY <1>0, <1>g, <2>1, GotoIsolation
<1>1. CASE Start(p)  BY <1>1, <1>g DEF Start, Carrying
<1>2. CASE List(p) \/ Crash(p)  BY <1>2, <1>f DEF List, Crash
<1>3. CASE Probe(p)  BY <1>3, <1>g DEF Probe, Carrying
<1>4. CASE Unwrap(p)  BY <1>4, <1>f, <1>g DEF Unwrap, Carrying
<1>5. CASE Use(p)
  <2>1. sess[p].tok # 0  BY <1>0, <1>5 DEF Use, At, ProcIsolation, Carrying
  <2> QED  BY <1>5, <2>1, <1>f, <1>g DEF Use
<1>6. CASE Load(p)
  <2> DEFINE s == [user |-> raw[p].current, gen |-> raw[p].gen[raw[p].current],
                   tok |-> raw[p].tok[raw[p].current]]
  <2>1. CASE NotLoaded(p)  BY <1>0, <1>u, <2>1, NotLoadedIsolation
  <2>2. ASSUME raw[p] # NoBucket PROVE Owned(s.user, s.tok) /\ s.tok # 0
    <3>1. raw[p] \in Bucket  BY <1>0, <2>2, MaybeBucketCases DEF ControlTypeOK
    <3>2. raw[p].current \in Users  BY <3>1 DEF Bucket
    <3>3. raw[p].current \in Stored(raw[p])
      BY <1>6, <2>2 DEF Load, Dangling
    <3>4. Complete(raw[p])  BY <1>0, <1>6 DEF Load, At, ProcIsolation
    <3> QED  BY <1>0, <2>2, <3>2, <3>3, <3>4 DEF ProcIsolation, OwnedBucket, Complete, WithToken
  <2>3. CASE raw[p] # NoBucket /\ Return(p, s)
    BY <1>0, <1>u, <2>2, <2>3, ReturnIsolation
  <2>4. CASE raw[p] # NoBucket /\ sess' = [sess EXCEPT ![p] = s] /\ Goto(p, "refresh")
    <3>1. sess'[p] = s  BY <1>0, <2>4 DEF ControlTypeOK
    <3>2. Owned(sess[p].user, sess[p].tok)'  BY <2>2, <2>4, <3>1, <1>v DEF Owned
    <3>3. s.tok # 0  BY <2>2, <2>4
    <3> HIDE DEF s
    <3> QED  BY <1>u, <3>3, <1>0, <2>2, <2>4, <3>1, <3>2, GotoIsolation
  <2> QED  BY <1>6, <2>1, <2>3, <2>4 DEF Load
<1> QED  BY <1>u, <1>1, <1>2, <1>3, <1>4, <1>5, <1>6

\* Storing and clearing a session.
LEMMA StoreIsolation ==
    ASSUME IsolationInv, NEW p \in Procs, Put(p) \/ Clear(p)
    PROVE  StorageOwned' /\ ProcIsolation(p)' /\ UNCHANGED serverVars
<1>0. StorageTypeOK /\ ControlTypeOK /\ StorageOwned /\ ProcIsolation(p)
  BY TypeOKParts DEF IsolationInv, ProcIsolation
<1>u. UNCHANGED serverVars  BY DEF Put, Clear
<1>1. sess[p] \in Session /\ raw[p] \in MaybeBucket /\ sess[p].user \in Users
  BY <1>0 DEF ControlTypeOK, Session
<1>2. OwnedBucket(raw[p]) /\ Owned(sess[p].user, sess[p].tok)  BY <1>0 DEF ProcIsolation
<1>3. CASE Put(p)
  <2>1. With(raw[p], sess[p]) \in Bucket /\ OwnedBucket(With(raw[p], sess[p]))
    BY <1>1, <1>2, BuiltBuckets, BuiltOwned
  <2>2. StorageOwned'  BY <1>0, <1>3, <1>u, <2>1, SetOwned DEF Put
  <2>3. sess[p].tok # 0  BY <1>0, <1>3 DEF Put, At, ProcIsolation, Carrying
  <2>4. ProcIsolation(p)'
    BY <1>0, <1>2, <1>3, <1>u, <2>3, FinishIsolation, ReturnIsolation DEF Put
  <2> QED  BY <1>u, <2>2, <2>4
<1>4. CASE Clear(p)
  <2>1. ProcIsolation(p)'  BY <1>0, <1>4, <1>u, NotLoadedIsolation DEF Clear
  <2>2. ASSUME UNCHANGED storageVars PROVE StorageOwned'
    BY <1>0, <1>u, <2>2, StorageOwnedNext DEF storageVars, StorageOwned, OwnedBucket
  <2>3. ASSUME StorageDelete \/ StorageDeleteFault PROVE StorageOwned'
    BY <1>0, <1>u, <2>3, DeleteOwned
  <2>4. ASSUME raw[p] # NoBucket, NEW v \in Without(raw[p], sess[p].user),
               StorageSet(v) \/ StorageSetFault(v)
        PROVE  StorageOwned'
    <3>1. v \in Bucket /\ OwnedBucket(v)
      BY <1>1, <1>2, <2>4, BuiltBuckets, BuiltOwned
    <3> QED  BY <1>0, <1>u, <2>4, <3>1, SetOwned
  <2> QED  BY <1>4, <1>u, <2>1, <2>2, <2>3, <2>4 DEF Clear
<1> QED  BY <1>3, <1>4

\* Every step keeps the inductive invariant.
LEMMA NextIsolation == IsolationInv /\ [Next]_vars => IsolationInv'
<1> SUFFICES ASSUME IsolationInv, [Next]_vars PROVE IsolationInv'
  OBVIOUS
<1>0. StorageTypeOK /\ ControlTypeOK /\ ServerTypeOK /\ StorageOwned
  BY TypeOKParts DEF IsolationInv
<1>p. \A q \in Procs : ProcIsolation(q)  BY DEF IsolationInv, ProcIsolation
<1>t. TypeOK'  BY IsolationInvImplies, NextTypeOK DEF IsolationInv
<1> SUFFICES StorageOwned' /\ \A q \in Procs : ProcIsolation(q)'
  BY <1>t DEF IsolationInv, ProcIsolation
<1>u. ASSUME UNCHANGED serverVars
      PROVE  \A u, t : Owned(u, t) => (t # 0 => t \in 1..issued' /\ owner'[t] = u)
  BY <1>u DEF serverVars, Owned
<1>i. ASSUME NEW x \in Token, NEW w, Issue(x, w)
      PROVE  \A u, t : Owned(u, t) => (t # 0 => t \in 1..issued' /\ owner'[t] = u)
  <2>1. issued \in Int /\ x = issued + 1  BY <1>i, <1>0, SeededNat DEF Issue, ServerTypeOK
  <2>2. \A t \in 1..issued : t \in 1..issued' /\ owner'[t] = owner[t]
    BY <1>i, <2>1 DEF Issue
  <2> QED  BY <2>2 DEF Owned
<1>s. ASSUME NEW p \in Procs, ProcStep(p), ProcIsolation(p)',
             \A u, t : Owned(u, t) => (t # 0 => t \in 1..issued' /\ owner'[t] = u)
      PROVE  \A q \in Procs : ProcIsolation(q)'
  <2> SUFFICES ASSUME NEW q \in Procs, q # p PROVE ProcIsolation(q)'
    BY <1>s
  <2> QED  BY <1>0, <1>p, <1>s, ProcFrame, ProcIsolationStable
<1>k. ASSUME UNCHANGED storageVars, \A u, t : Owned(u, t) => (t # 0 => t \in 1..issued' /\ owner'[t] = u)
      PROVE  StorageOwned'
  <2>1. file' = file /\ secrets' = secrets  BY <1>k DEF storageVars
  <2>2. \A u \in Users : Owned(u, secrets[u])'  BY <1>0, <1>k, <2>1 DEF StorageOwned, Owned
  <2>3. OwnedBucket(file)'  BY <1>0, <1>k, <2>1 DEF StorageOwned, OwnedBucket, Owned
  <2> QED  BY <2>2, <2>3 DEF StorageOwned
<1>q. ASSUME UNCHANGED procVars,
             \A u, t : Owned(u, t) => (t # 0 => t \in 1..issued' /\ owner'[t] = u)
      PROVE  \A q \in Procs : ProcIsolation(q)'
  BY <1>p, <1>q, ProcIsolationStable DEF procVars
<1>1. ASSUME NEW p \in Procs, Get(p) \/ Fix(p) \/ DropDangling(p)
      PROVE  StorageOwned' /\ \A q \in Procs : ProcIsolation(q)'
  <2>1. UNCHANGED serverVars  BY <1>1 DEF Get, Fix, DropDangling
  <2> QED  BY <1>1, <2>1, <1>s, <1>u, ReadIsolation DEF ProcStep
<1>2. ASSUME NEW p \in Procs,
             Start(p) \/ List(p) \/ Probe(p) \/ Unwrap(p) \/ Load(p) \/ Use(p) \/ Crash(p)
      PROVE  StorageOwned' /\ \A q \in Procs : ProcIsolation(q)'
  <2>1. ProcIsolation(p)' /\ UNCHANGED serverVars /\ UNCHANGED storageVars
    BY <1>2, LocalIsolation
  <2> QED  BY <1>2, <2>1, <1>s, <1>k, <1>u DEF ProcStep
<1>3. ASSUME NEW p \in Procs, Put(p) \/ Clear(p)
      PROVE  StorageOwned' /\ \A q \in Procs : ProcIsolation(q)'
  BY <1>3, <1>s, <1>u, StoreIsolation DEF ProcStep
<1>4. ASSUME NEW p \in Procs, Refresh(p) PROVE StorageOwned' /\ \A q \in Procs : ProcIsolation(q)'
  <2>0. UNCHANGED storageVars  BY <1>4 DEF Refresh
  <2>1. ProcIsolation(p) /\ sess[p].tok # 0 /\ owner[sess[p].tok] = sess[p].user
    BY <1>p, <1>4 DEF Refresh, At, ProcIsolation, Carrying, Owned
  <2>2. CASE Goto(p, "clear") /\ UNCHANGED <<sess, serverVars>>
    <3>1. Owned(sess[p].user, sess[p].tok)'
      BY <2>1, <2>2 DEF ProcIsolation, Owned, serverVars
    <3>2. ProcIsolation(p)'  BY <1>0, <2>1, <2>2, <3>1, GotoIsolation
    <3> QED  BY <1>4, <2>0, <2>2, <3>2, <1>s, <1>k, <1>u DEF ProcStep
  <2>3. ASSUME NEW t \in Token, Issue(t, owner[sess[p].tok]),
               sess' = [sess EXCEPT ![p].gen = t, ![p].tok = t], Goto(p, "put")
        PROVE  StorageOwned' /\ \A q \in Procs : ProcIsolation(q)'
    <3>1. sess'[p].tok = t /\ sess'[p].user = sess[p].user
      BY <1>0, <2>3 DEF ControlTypeOK, Session
    <3>2. issued' = t /\ t \in 1..t /\ t # 0
      BY <2>3 DEF Issue, Token
    <3>3. owner'[t] = sess[p].user  BY <2>1, <2>3, <3>2 DEF Issue
    <3>4. Owned(sess[p].user, sess[p].tok)'  BY <3>1, <3>2, <3>3 DEF Owned
    <3>5. ProcIsolation(p)'  BY <1>0, <2>3, <3>1, <3>2, <3>4, GotoIsolation
    <3> QED  BY <1>4, <2>0, <2>3, <3>5, <1>i, <1>s, <1>k DEF ProcStep
  <2> QED  BY <1>4, <2>2, <2>3 DEF Refresh
<1>5. ASSUME NEW p \in Procs, Browser(p) PROVE StorageOwned' /\ \A q \in Procs : ProcIsolation(q)'
  <2>0. UNCHANGED storageVars  BY <1>5 DEF Browser
  <2>1. CASE Finish(p) /\ UNCHANGED serverVars
    BY <1>0, <1>5, <2>0, <2>1, <1>s, <1>k, <1>u, FinishIsolation DEF ProcStep
  <2>2. ASSUME NEW t \in Token, NEW w \in Users, Issue(t, w),
               sess' = [sess EXCEPT ![p] = [user |-> w, gen |-> t, tok |-> t]], Goto(p, "put")
        PROVE  StorageOwned' /\ \A q \in Procs : ProcIsolation(q)'
    <3>1. sess'[p].tok = t /\ sess'[p].user = w  BY <1>0, <2>2 DEF ControlTypeOK
    <3>2. issued' = t /\ t \in 1..t /\ t # 0  BY <2>2 DEF Issue, Token
    <3>3. owner'[t] = w  BY <2>2, <3>2 DEF Issue
    <3>4. Owned(sess[p].user, sess[p].tok)'  BY <3>1, <3>2, <3>3 DEF Owned
    <3>5. ProcIsolation(p)'  BY <1>0, <2>2, <3>1, <3>2, <3>4, GotoIsolation
    <3> QED  BY <1>5, <2>0, <2>2, <3>5, <1>i, <1>s, <1>k DEF ProcStep
  <2> QED  BY <1>5, <2>1, <2>2 DEF Browser
<1>6. ASSUME NEW t \in Token, Expire(t) PROVE StorageOwned' /\ \A q \in Procs : ProcIsolation(q)'
  <2>1. \A u, x : Owned(u, x) => (x # 0 => x \in 1..issued' /\ owner'[x] = u)
    BY <1>6 DEF Expire, Owned
  <2> QED  BY <1>6, <2>1, <1>k, <1>q DEF Expire
<1>7. CASE StorageFault
  <2>1. UNCHANGED procVars /\ UNCHANGED serverVars  BY <1>7 DEF StorageFault
  <2>2. file' \in {file, NoBucket} /\ \A u \in Users : secrets'[u] \in {0, secrets[u]}
    BY <1>0, <1>7 DEF StorageFault, LoseFile, LoseSecret, StorageTypeOK
  <2>3. \A u \in Users : Owned(u, secrets'[u])  BY <1>0, <2>2 DEF StorageOwned, Owned
  <2>4. file' # NoBucket => \A u \in Users : Owned(u, file'.tok[u])
    BY <1>0, <2>2 DEF StorageOwned, OwnedBucket
  <2> QED  BY <2>1, <2>3, <2>4, <1>q, <1>u, StorageOwnedNext
<1>8. CASE UNCHANGED vars
  BY <1>8, <1>k, <1>q, <1>u DEF vars
<1> QED
  BY <1>1, <1>2, <1>3, <1>4, <1>5, <1>6, <1>7, <1>8 DEF Next

\* Every variable keeps its type, for any number of users, processes, token
\* pairs and storage failures.
THEOREM TypeCorrect == Spec => []TypeOK
<1>1. IsolationInv => TypeOK  BY DEF IsolationInv
<1> QED  BY InitIsolation, NextIsolation, <1>1, PTL DEF Spec

\* No process ever presents, and the credential store never files, a token
\* under a user it was not issued to, whatever the interleaving and the faults.
THEOREM IsolationHolds == Spec => []CredentialIsolation
<1> QED  BY InitIsolation, NextIsolation, IsolationInvImplies, PTL DEF Spec

-----------------------------------------------------------------------------
(* What the operations do to the contents of the storage. *)

\* The sessions a process has read or carries are of buckets that were well
\* formed, and then the file has stayed so.
ProcForm(p) ==
    /\ sess[p].tok # 0 => sess[p].gen # 0
    /\ raw[p] # NoBucket /\ WellFormed(raw[p]) => WellFormed(file)
    /\ stage[p] \in {"refresh", "clear", "use"} => WellFormed(file)
    /\ stage[p] = "put" /\ kind[p] # "login" => WellFormed(file)
    /\ stage[p] = "clear" => WellFormed(raw[p])

FormInv == IsolationInv /\ \A p \in Procs : ProcForm(p)

\* Without faults, metadata and credentials are of the same pairs in the storage,
\* in what is read from it and in what is carried; nothing has to be sanitized.
FilePaired ==
    file # NoBucket =>
        \A u \in Users : /\ file.tok[u] # 0 => file.tok[u] = file.gen[u]
                         /\ file.gen[u] # 0 /\ file.tok[u] = 0 => secrets[u] = file.gen[u]

ProcPaired(p) ==
    /\ raw[p] # NoBucket => \A u \in Users : raw[p].tok[u] = raw[p].gen[u]
    /\ sess[p].tok = sess[p].gen
    /\ step[p] # "fix"

PairedInv == faults = 0 => FilePaired /\ \A p \in Procs : ProcPaired(p)

\* One process alone: what it has read is no older than the credentials, and a
\* token it is about to store is the youngest.
ProcFresh(p) ==
    /\ Migrated /\ raw[p] # NoBucket =>
           \A u \in Users : raw[p].tok[u] = 0 \/ raw[p].tok[u] >= secrets[u]
    /\ stage[p] = "put" => sess[p].tok = issued

\* One process alone, without faults: what it has read is what is stored.
ProcSynced(p) ==
    /\ raw[p] # NoBucket => /\ file # NoBucket
                            /\ raw[p].gen = file.gen /\ raw[p].current = file.current
    /\ stage[p] \in ReadStages /\ step[p] = "go" /\ raw[p] = NoBucket => file = NoBucket
    /\ stage[p] \in {"refresh", "use", "clear"} =>
           file # NoBucket /\ file.gen[sess[p].user] = sess[p].gen

AloneInv == \A p \in Procs : ProcFresh(p) /\ (faults = 0 => ProcSynced(p))

\* What get answers is what is stored: the sessions of the file, each with a token
\* of the file or of the keyring.
LEMMA GetContents ==
    ASSUME StorageTypeOK, NEW r \in Answers, StorageGet(r) \/ StorageGetFault(r)
    PROVE  /\ file' = file \/ (file # NoBucket /\ file' = Stripped(file))
           /\ faults' \in {faults, faults + 1}
           /\ r # NoBucket => /\ file \in Bucket /\ file # NoBucket /\ r \in Bucket
                              /\ r.gen = file.gen /\ r.current = file.current
           /\ WithToken(file) = {} => secrets' = secrets
           /\ WithToken(file') = {} /\ r # NoBucket =>
                  \A u \in Users : r.tok[u] \in {0, secrets'[u]}
<1>1. CASE UNCHANGED <<file, secrets>> /\ r = NoBucket /\ faults' \in {faults, faults + 1}
  BY <1>1
<1>2. ASSUME file # NoBucket, NEW W \in SUBSET WithToken(file), NEW F,
             NEW b \in {file, Stripped(file)}, faults' \in {faults, faults + 1},
             secrets' = Written(file, W), file' \in {file, Stripped(file)},
             file' = file \/ b = Stripped(file),
             r = Hydrated(b, secrets', F)
      PROVE  /\ file' = file \/ (file # NoBucket /\ file' = Stripped(file))
             /\ faults' \in {faults, faults + 1}
             /\ r # NoBucket => /\ file \in Bucket /\ file # NoBucket /\ r \in Bucket
                                /\ r.gen = file.gen /\ r.current = file.current
             /\ WithToken(file) = {} => secrets' = secrets
             /\ WithToken(file') = {} /\ r # NoBucket =>
                    \A u \in Users : r.tok[u] \in {0, secrets'[u]}
  <2>1. file \in Bucket  BY <1>2, MaybeBucketCases DEF StorageTypeOK
  <2>2. /\ b \in Bucket /\ b.gen = file.gen /\ b.current = file.current
        /\ Stripped(file) \in Bucket /\ \A u \in Users : Stripped(file).tok[u] = 0
    BY <1>2, <2>1, StrippedType
  <2>3. r = [b EXCEPT !.tok = [u \in Users |->
                IF b.tok[u] # 0 \/ b.gen[u] = 0 THEN b.tok[u]
                ELSE IF u \in F THEN 0 ELSE secrets'[u]]]
    BY <1>2 DEF Hydrated
  <2>4. 0 \in MaybeToken /\ secrets' \in [Users -> MaybeToken]
    BY <1>2, <2>1, WrittenType, MaxTokenAssumption DEF StorageTypeOK, MaybeToken
  <2>5. /\ r.gen = b.gen /\ r.current = b.current /\ r \in Bucket
        /\ \A u \in Users : r.tok[u] \in {0, b.tok[u], secrets'[u]}
    BY <2>2, <2>3, <2>4 DEF Bucket
  <2>6. WithToken(file) = {} => secrets' = secrets
    BY <1>2 DEF Written, StorageTypeOK
  <2>7. ASSUME WithToken(file') = {}, NEW u \in Users  PROVE b.tok[u] = 0
    BY <1>2, <2>2, <2>7 DEF WithToken
  <2> QED  BY <1>2, <2>1, <2>2, <2>5, <2>6, <2>7
<1>3. CASE StorageGet(r)
  <2>1. file = NoBucket => UNCHANGED <<file, secrets, faults>> /\ r = NoBucket
    BY <1>3 DEF StorageGet, storageVars
  <2>2. file # NoBucket => /\ secrets' = Written(file, WithToken(file)) /\ faults' = faults
                          /\ file' = Stripped(file)
                          /\ r = Hydrated(Stripped(file), secrets', {})
    BY <1>3 DEF StorageGet, NoFault
  <2> QED  BY <2>1, <2>2, <1>1, <1>2
<1>4. CASE StorageGetFault(r)
  <2>1. faults' = faults + 1  BY <1>4 DEF StorageGetFault, Fault
  <2>2. CASE file # NoBucket /\ \E W \in SUBSET WithToken(file), F \in SUBSET Stored(file) :
                 /\ secrets' = Written(file, W)
                 /\ \/ file' = file /\ r = Hydrated(file, secrets', F)
                    \/ /\ W = WithToken(file)
                       /\ file' \in {file, Stripped(file)}
                       /\ r = Hydrated(Stripped(file), secrets', F)
    BY <2>1, <2>2, <1>2
  <2> QED  BY <1>4, <1>1, <2>1, <2>2 DEF StorageGetFault
<1> QED  BY <1>3, <1>4

\* Without a fault, the tokens of the file are in the keyring after a get, and
\* every session has its token from there.
LEMMA CleanGet ==
    ASSUME StorageTypeOK, NEW r \in Answers, StorageGet(r)
    PROVE  /\ faults' = faults
           /\ file = NoBucket => r = NoBucket /\ UNCHANGED <<file, secrets>>
           /\ file # NoBucket =>
                  /\ r # NoBucket /\ file' = Stripped(file)
                  /\ \A u \in Users :
                        /\ secrets'[u] = IF file.tok[u] # 0 THEN file.tok[u] ELSE secrets[u]
                        /\ r.tok[u] = IF file.gen[u] = 0 THEN 0 ELSE secrets'[u]
<1>1. faults' = faults /\ (file = NoBucket => r = NoBucket /\ UNCHANGED <<file, secrets>>)
  BY DEF StorageGet, storageVars, NoFault
<1>2. ASSUME file # NoBucket
      PROVE  /\ r # NoBucket /\ file' = Stripped(file)
             /\ \A u \in Users :
                   /\ secrets'[u] = IF file.tok[u] # 0 THEN file.tok[u] ELSE secrets[u]
                   /\ r.tok[u] = IF file.gen[u] = 0 THEN 0 ELSE secrets'[u]
  <2>1. file \in Bucket  BY <1>2, MaybeBucketCases DEF StorageTypeOK
  <2>2. /\ Stripped(file) \in Bucket /\ Stripped(file).gen = file.gen
        /\ \A u \in Users : Stripped(file).tok[u] = 0
    BY <2>1, StrippedType
  <2>3. /\ secrets' = Written(file, WithToken(file)) /\ file' = Stripped(file)
        /\ r = Hydrated(Stripped(file), secrets', {})
    BY <1>2 DEF StorageGet
  <2>4. \A u \in Users : secrets'[u] = IF file.tok[u] # 0 THEN file.tok[u] ELSE secrets[u]
    BY <1>2, <2>3 DEF Written, WithToken
  <2> DEFINE b == Stripped(file)
  <2>5. r = [b EXCEPT !.tok = [u \in Users |->
                IF b.tok[u] # 0 \/ b.gen[u] = 0 THEN b.tok[u]
                ELSE IF u \in {} THEN 0 ELSE secrets'[u]]]
    BY <2>3 DEF Hydrated
  <2> HIDE DEF b
  <2>6. b \in Bucket /\ b.gen = file.gen /\ \A u \in Users : b.tok[u] = 0
    BY <2>2 DEF b
  <2>7. \A u \in Users : r.tok[u] = IF file.gen[u] = 0 THEN 0 ELSE secrets'[u]
    BY <2>5, <2>6 DEF Bucket
  <2>8. 0 \in MaybeToken /\ secrets' \in [Users -> MaybeToken]
    BY <2>1, <2>3, WrittenType, MaxTokenAssumption DEF StorageTypeOK, MaybeToken
  <2>9. r \in Bucket  BY <2>5, <2>6, <2>8 DEF Bucket
  <2> QED  BY <2>3, <2>4, <2>7, <2>9, NoBucketAssumption
<1> QED  BY <1>1, <1>2

\* What set leaves in the file and the keyring.
LEMMA SetContents ==
    ASSUME StorageTypeOK, NEW v \in Bucket, StorageSet(v) \/ StorageSetFault(v)
    PROVE  /\ \A u \in Users : secrets'[u] = secrets[u]
                               \/ (v.tok[u] # 0 /\ secrets'[u] = v.tok[u])
           /\ \/ file' = file /\ faults' = faults + 1
              \/ /\ file' = Stripped(v) /\ faults' = faults
                 /\ \A u \in Users : secrets'[u] = IF v.tok[u] # 0 THEN v.tok[u]
                                                                  ELSE secrets[u]
<1>1. v # NoBucket  BY NoBucketAssumption
<1>2. CASE StorageSet(v)
  BY <1>1, <1>2 DEF StorageSet, NoFault, Written, WithToken
<1>3. CASE StorageSetFault(v)
  BY <1>1, <1>3 DEF StorageSetFault, Fault, Written, WithToken
<1> QED  BY <1>2, <1>3

\* What delete leaves.
LEMMA DeleteContents ==
    ASSUME StorageTypeOK, StorageDelete \/ StorageDeleteFault
    PROVE  /\ \A u \in Users : secrets'[u] \in {0, secrets[u]}
           /\ file' \in {file, NoBucket}
           /\ \/ faults' = faults + 1
              \/ file' = NoBucket /\ faults' = faults
BY DEF StorageDelete, StorageDeleteFault, Fault, NoFault, WithoutSecrets

\* Sanitizing keeps the sessions that have a token.
LEMMA KeptContents ==
    ASSUME NEW b \in Bucket, b # NoBucket, WithToken(b) \subseteq Stored(b)
    PROVE  /\ Kept(b) \in Bucket /\ Kept(b).current = b.current /\ Kept(b).tok = b.tok
           /\ \A u \in Users : Kept(b).gen[u] = IF b.tok[u] = 0 THEN 0 ELSE b.gen[u]
           /\ Stored(Kept(b)) = WithToken(b) /\ Complete(Kept(b))
<1>1. Kept(b) \in Bucket  BY BuiltBuckets, FirstTokenAssumption, NoSessionType DEF MaybeBucket
<1>2. /\ Kept(b).current = b.current /\ Kept(b).tok = b.tok
      /\ \A u \in Users : Kept(b).gen[u] = IF b.tok[u] = 0 THEN 0 ELSE b.gen[u]
  BY DEF Kept, Bucket
<1>3. Kept(b) # NoBucket  BY <1>1, NoBucketAssumption
<1>4. \A u \in Users : b.tok[u] # 0 => b.gen[u] # 0
  BY DEF WithToken, Stored
<1> QED  BY <1>1, <1>2, <1>3, <1>4 DEF Complete, Stored, WithToken

\* A session is added to what was read.
LEMMA WithContents ==
    ASSUME NEW b \in MaybeBucket, NEW s \in Session, s.gen # 0
    PROVE  /\ With(b, s) \in Bucket /\ With(b, s).current = s.user
           /\ With(b, s).gen[s.user] = s.gen /\ With(b, s).tok[s.user] = s.tok
           /\ \A u \in Users \ {s.user} :
                 /\ With(b, s).gen[u] = IF b = NoBucket THEN 0 ELSE b.gen[u]
                 /\ With(b, s).tok[u] = IF b = NoBucket THEN 0 ELSE b.tok[u]
           /\ WellFormed(With(b, s))
           /\ Complete(b) /\ s.tok # 0 => Complete(With(b, s))
<1>1. b # NoBucket => b \in Bucket  BY MaybeBucketCases
<1>2. With(b, s) \in Bucket /\ s.user \in Users
  BY BuiltBuckets DEF Session
<1>3. /\ With(b, s).current = s.user
      /\ With(b, s).gen[s.user] = s.gen /\ With(b, s).tok[s.user] = s.tok
      /\ \A u \in Users \ {s.user} :
            /\ With(b, s).gen[u] = IF b = NoBucket THEN 0 ELSE b.gen[u]
            /\ With(b, s).tok[u] = IF b = NoBucket THEN 0 ELSE b.tok[u]
  BY <1>1, <1>2 DEF With, Bucket
<1>4. With(b, s) # NoBucket  BY <1>2, NoBucketAssumption
<1>5. WellFormed(With(b, s))  BY <1>2, <1>3, <1>4 DEF WellFormed, Stored
<1>6. ASSUME Complete(b), s.tok # 0  PROVE Complete(With(b, s))
  <2>1. b # NoBucket => \A u \in Users : b.gen[u] # 0 <=> b.tok[u] # 0
    BY <1>6 DEF Complete, Stored, WithToken
  <2> HIDE DEF With
  <2>2. \A u \in Users : With(b, s).gen[u] # 0 <=> With(b, s).tok[u] # 0
    BY <1>3, <1>6, <2>1
  <2> QED  BY <1>4, <2>2 DEF Complete, Stored, WithToken
<1> QED  BY <1>2, <1>3, <1>5, <1>6

\* A session is taken out of what was read, and another user may become current.
LEMMA WithoutContents ==
    ASSUME NEW b \in Bucket, b # NoBucket, NEW u \in Users, NEW v \in Without(b, u)
    PROVE  /\ v \in Bucket
           /\ \A w \in Users : /\ v.gen[w] = IF w = u THEN 0 ELSE b.gen[w]
                               /\ v.tok[w] = IF w = u THEN 0 ELSE b.tok[w]
           /\ Complete(b) => Complete(v)
           /\ WellFormed(b) => WellFormed(v)
<1>1. 0 \in MaybeToken  BY MaxTokenAssumption DEF MaybeToken
<1>2. /\ v = [current |-> v.current, gen |-> [b.gen EXCEPT ![u] = 0],
              tok |-> [b.tok EXCEPT ![u] = 0]]
      /\ v.current \in IF b.current = u THEN Stored(b) \ {u} ELSE {b.current}
  BY DEF Without
<1>3. /\ v \in Bucket
      /\ \A w \in Users : /\ v.gen[w] = IF w = u THEN 0 ELSE b.gen[w]
                          /\ v.tok[w] = IF w = u THEN 0 ELSE b.tok[w]
  BY <1>1, <1>2 DEF Bucket, Stored
<1>4. v # NoBucket  BY <1>3, NoBucketAssumption
<1>5. Complete(b) => Complete(v)
  BY <1>3, <1>4 DEF Complete, Stored, WithToken
<1>6. ASSUME WellFormed(b)  PROVE WellFormed(v)
  <2>1. v.current \in Stored(b) /\ v.current # u
    BY <1>2, <1>6 DEF WellFormed
  <2> QED  BY <1>3, <1>4, <2>1 DEF WellFormed, Stored
<1> QED  BY <1>3, <1>5, <1>6

-----------------------------------------------------------------------------
(* The commands use the storage through its operations only, and what they *)
(* store is well formed.                                                    *)

Built(v) ==
    /\ v \in Bucket /\ Complete(v) /\ WellFormed(v)
    /\ StorageSet(v) \/ StorageSetFault(v)

\* What FormInv says of one process.
LEMMA FormParts ==
    ASSUME FormInv, NEW p \in Procs
    PROVE  /\ StorageTypeOK /\ ControlTypeOK /\ ProcIsolation(p) /\ ProcForm(p)
           /\ raw[p] \in MaybeBucket /\ sess[p] \in Session /\ sess[p].user \in Users
           /\ raw[p] # NoBucket => raw[p] \in Bucket
<1>1. StorageTypeOK /\ ControlTypeOK  BY TypeOKParts DEF FormInv, IsolationInv
<1>2. ProcIsolation(p) /\ ProcForm(p)  BY DEF FormInv, IsolationInv, ProcIsolation
<1>3. raw[p] \in MaybeBucket /\ sess[p] \in Session  BY <1>1 DEF ControlTypeOK
<1> QED  BY <1>1, <1>2, <1>3, MaybeBucketCases DEF Session

\* A step of a process leaves the storage alone or is one operation on it.
LEMMA StorageCases ==
    ASSUME FormInv, NEW p \in Procs, ProcStep(p)
    PROVE  \/ UNCHANGED storageVars
           \/ Get(p)
           \/ StorageDelete \/ StorageDeleteFault
           \/ \E v \in Bucket : Built(v)
<1>0. /\ ProcIsolation(p) /\ ProcForm(p)
      /\ raw[p] \in MaybeBucket /\ sess[p] \in Session /\ sess[p].user \in Users
      /\ raw[p] # NoBucket => raw[p] \in Bucket
  BY FormParts
<1>1. ASSUME Fix(p)
      PROVE  StorageDelete \/ StorageDeleteFault \/ \E v \in Bucket : Built(v)
  <2>1. CASE StorageDelete \/ StorageDeleteFault  BY <2>1
  <2>2. CASE /\ raw[p].current \in WithToken(raw[p])
             /\ StorageSet(Kept(raw[p])) \/ StorageSetFault(Kept(raw[p]))
    <3>1. raw[p] # NoBucket  BY <2>2 DEF WithToken
    <3>2. /\ Kept(raw[p]) \in Bucket /\ Complete(Kept(raw[p]))
          /\ Kept(raw[p]).current \in Stored(Kept(raw[p]))
      BY <1>0, <2>2, <3>1, KeptContents DEF ProcIsolation
    <3>3. Built(Kept(raw[p]))  BY <2>2, <3>2 DEF Built, WellFormed
    <3> QED  BY <3>2, <3>3
  <2> QED  BY <1>1, <2>1, <2>2 DEF Fix
<1>2. ASSUME Put(p)  PROVE \E v \in Bucket : Built(v)
  <2>1. sess[p].tok # 0 /\ sess[p].gen # 0 /\ Complete(raw[p])
    BY <1>0, <1>2 DEF Put, At, ProcIsolation, ProcForm, Carrying
  <2>2. Built(With(raw[p], sess[p]))
    BY <1>0, <1>2, <2>1, WithContents DEF Put, Built
  <2> QED  BY <2>2 DEF Built
<1>3. ASSUME Clear(p)
      PROVE  UNCHANGED storageVars \/ StorageDelete \/ StorageDeleteFault
             \/ \E v \in Bucket : Built(v)
  <2>1. WellFormed(raw[p]) /\ Complete(raw[p])
    BY <1>0, <1>3 DEF Clear, At, ProcIsolation, ProcForm
  <2>2. ASSUME raw[p] # NoBucket, NEW v \in Without(raw[p], sess[p].user),
               StorageSet(v) \/ StorageSetFault(v)
        PROVE  Built(v)
    BY <1>0, <2>1, <2>2, WithoutContents DEF Built
  <2> QED  BY <1>3, <2>2 DEF Clear, Built
<1>4. ASSUME DropDangling(p)  PROVE StorageDelete \/ StorageDeleteFault
  BY <1>4 DEF DropDangling
<1>5. ASSUME \/ Start(p) \/ List(p) \/ Probe(p) \/ Unwrap(p) \/ Load(p)
             \/ Refresh(p) \/ Browser(p) \/ Use(p) \/ Crash(p)
      PROVE  UNCHANGED storageVars
  BY <1>5 DEF Start, List, Probe, Unwrap, Load, Refresh, Browser, Use, Crash
<1> QED  BY <1>1, <1>2, <1>3, <1>4, <1>5 DEF ProcStep

\* Every step is a step of the storage's specification or leaves it alone.
LEMMA StorageStep ==
    ASSUME FormInv, [Next]_vars
    PROVE  UNCHANGED storageVars \/ StorageNext
<1>1. ASSUME NEW p \in Procs, ProcStep(p)  PROVE UNCHANGED storageVars \/ StorageNext
  <2>1. CASE Get(p)
    <3>1. PICK r \in Answers : StorageGet(r) \/ StorageGetFault(r)  BY <2>1 DEF Get
    <3> QED  BY <3>1 DEF StorageNext
  <2>2. ASSUME NEW v \in Bucket, Built(v)  PROVE StorageNext
    BY <2>2 DEF Built, Complete, StorageNext
  <2> QED  BY <1>1, <2>1, <2>2, StorageCases DEF StorageNext
<1>2. CASE StorageFault  BY <1>2 DEF StorageFault, StorageNext
<1>3. ASSUME NEW t \in Token, Expire(t)  PROVE UNCHANGED storageVars
  BY <1>3 DEF Expire
<1>4. CASE UNCHANGED vars  BY <1>4 DEF vars
<1> QED  BY <1>1, <1>2, <1>3, <1>4 DEF Next, ProcStep

\* Plaintext never comes back to the file, and a well-formed bucket stays so.
LEMMA FileStep ==
    ASSUME FormInv, [Next]_vars
    PROVE  /\ WellFormed(file) => WellFormed(file')
           /\ WithToken(file') \subseteq WithToken(file)
<1>0. StorageTypeOK  BY TypeOKParts DEF FormInv, IsolationInv
<1>1. ASSUME file' \in {file, NoBucket}
      PROVE  /\ WellFormed(file) => WellFormed(file')
             /\ WithToken(file') \subseteq WithToken(file)
  BY <1>1 DEF WellFormed, WithToken
<1>2. ASSUME NEW v \in Bucket, file' = Stripped(v), WellFormed(file) => WellFormed(v)
      PROVE  /\ WellFormed(file) => WellFormed(file')
             /\ WithToken(file') \subseteq WithToken(file)
  <2>1. v # NoBucket /\ Stored(file') = Stored(v) /\ file'.current = v.current
        /\ WithToken(file') = {}
    BY <1>2, StrippedType, NoBucketAssumption
  <2> QED  BY <1>2, <2>1 DEF WellFormed
<1>3. ASSUME NEW p \in Procs, ProcStep(p)
      PROVE  /\ WellFormed(file) => WellFormed(file')
             /\ WithToken(file') \subseteq WithToken(file)
  <2>1. CASE Get(p)
    <3>1. PICK r \in Answers : StorageGet(r) \/ StorageGetFault(r)  BY <2>1 DEF Get
    <3>2. file' = file \/ (file # NoBucket /\ file' = Stripped(file))
      BY <1>0, <3>1, GetContents
    <3>3. file # NoBucket => file \in Bucket  BY <1>0, MaybeBucketCases DEF StorageTypeOK
    <3> QED  BY <1>1, <1>2, <3>2, <3>3
  <2>2. CASE UNCHANGED storageVars  BY <2>2, <1>1 DEF storageVars
  <2>3. CASE StorageDelete \/ StorageDeleteFault  BY <1>0, <1>1, <2>3, DeleteContents
  <2>4. ASSUME NEW v \in Bucket, Built(v)
        PROVE  /\ WellFormed(file) => WellFormed(file')
               /\ WithToken(file') \subseteq WithToken(file)
    <3>1. file' = file \/ file' = Stripped(v)  BY <1>0, <2>4, SetContents DEF Built
    <3> QED  BY <1>1, <1>2, <2>4, <3>1 DEF Built
  <2> QED  BY <1>3, <2>1, <2>2, <2>3, <2>4, StorageCases
<1>4. CASE StorageFault  BY <1>1, <1>4 DEF StorageFault, LoseFile, LoseSecret
<1>5. ASSUME NEW t \in Token, Expire(t)  PROVE file' = file
  BY <1>5 DEF Expire, storageVars
<1>6. CASE UNCHANGED vars  BY <1>1, <1>6 DEF vars, storageVars
<1> QED  BY <1>1, <1>3, <1>4, <1>5, <1>6 DEF Next, ProcStep

\* A process changes the command of no other.
LEMMA KindFrame ==
    ASSUME ControlTypeOK, NEW p \in Procs, ProcStep(p), NEW q \in Procs, q # p
    PROVE  kind'[q] = kind[q]
<1> USE DEF ControlTypeOK
<1>1. CASE Start(p)  BY <1>1 DEF Start
<1>2. CASE Get(p) \/ Fix(p) \/ DropDangling(p)  BY <1>2 DEF Get, Fix, DropDangling
<1>3. CASE List(p) \/ Probe(p) \/ Unwrap(p) \/ Crash(p)
  BY <1>3 DEF List, Probe, Unwrap, Crash, Finish
<1>4. CASE Load(p)  BY <1>4 DEF Load, NotLoaded, Return, Finish
<1>5. CASE Refresh(p)  BY <1>5 DEF Refresh
<1>6. CASE Browser(p)  BY <1>6 DEF Browser, Finish
<1>7. CASE Put(p)  BY <1>7 DEF Put, Finish, Return
<1>8. CASE Clear(p)  BY <1>8 DEF Clear, NotLoaded, Finish, Return
<1>9. CASE Use(p)  BY <1>9 DEF Use, Finish
<1> QED
  BY <1>1, <1>2, <1>3, <1>4, <1>5, <1>6, <1>7, <1>8, <1>9 DEF ProcStep

\* Moving to another function forgets what was read.
LEMMA GotoForm ==
    ASSUME ControlTypeOK, NEW p \in Procs, NEW s, Goto(p, s),
           sess'[p].tok # 0 => sess'[p].gen # 0,
           s \in {"refresh", "clear", "use"} => WellFormed(file'),
           s = "put" => kind'[p] = "login" \/ WellFormed(file')
    PROVE  ProcForm(p)'
<1>1. raw'[p] = NoBucket /\ stage'[p] = s  BY DEF Goto, ControlTypeOK
<1> QED  BY <1>1 DEF ProcForm, WellFormed

\* The command ends.
LEMMA FinishForm ==
    ASSUME ControlTypeOK, NEW p \in Procs, Finish(p)
    PROVE  ProcForm(p)'
<1>1. sess'[p].tok = 0  BY DEF Finish, ControlTypeOK, NoSession
<1>2. Goto(p, "idle")  BY DEF Finish
<1> QED  BY <1>1, <1>2, GotoForm

\* A load returns to its caller.
LEMMA ReturnForm ==
    ASSUME ControlTypeOK, NEW p \in Procs, NEW s, Return(p, s),
           s.tok # 0 => s.gen # 0, kind[p] # "auth" => WellFormed(file')
    PROVE  ProcForm(p)'
<1>1. sess'[p] = s  BY DEF Return, ControlTypeOK
<1>2. CASE kind[p] = "auth"
  <2>1. Goto(p, "browser")  BY <1>2 DEF Return
  <2> QED  BY <1>1, <2>1, GotoForm
<1>3. CASE kind[p] # "auth"
  <2>1. Goto(p, "use")  BY <1>3 DEF Return
  <2> QED  BY <1>1, <1>3, <2>1, GotoForm
<1> QED  BY <1>2, <1>3

\* A load finds nothing, or its session was cleared.
LEMMA NotLoadedForm ==
    ASSUME ControlTypeOK, NEW p \in Procs, NotLoaded(p)
    PROVE  ProcForm(p)'
<1>1. NoSession.tok = 0  BY DEF NoSession
<1> QED  BY <1>1, FinishForm, ReturnForm DEF NotLoaded

\* The step of a process keeps what FormInv says of it.
LEMMA OwnForm ==
    ASSUME FormInv, NEW p \in Procs, ProcStep(p), WellFormed(file) => WellFormed(file')
    PROVE  ProcForm(p)'
<1>0. /\ StorageTypeOK /\ ControlTypeOK /\ ProcIsolation(p) /\ ProcForm(p)
      /\ raw[p] \in MaybeBucket /\ sess[p] \in Session /\ sess[p].user \in Users
      /\ raw[p] # NoBucket => raw[p] \in Bucket
  BY FormParts
<1>1. CASE Start(p)
  <2>1. sess' = sess /\ \E s \in {"probe", "load", "list"} : Goto(p, s)
    BY <1>1 DEF Start
  <2> QED  BY <1>0, <2>1, GotoForm DEF ProcForm
<1>2. CASE Get(p)
  <2>1. PICK r \in Answers : /\ StorageGet(r) \/ StorageGetFault(r)
                             /\ raw' = [raw EXCEPT ![p] = r]
    BY <1>2 DEF Get
  <2>2. raw'[p] = r /\ kind' = kind /\ stage' = stage /\ sess' = sess
    BY <1>0, <1>2, <2>1 DEF Get, ControlTypeOK
  <2>3. r # NoBucket => /\ file \in Bucket /\ file # NoBucket /\ r \in Bucket
                        /\ r.gen = file.gen /\ r.current = file.current
    BY <1>0, <2>1, GetContents
  <2>4. r # NoBucket => (WellFormed(r) <=> WellFormed(file))
    BY <2>3 DEF WellFormed, Stored
  <2>5. WellFormed(NoBucket)  BY DEF WellFormed
  <2> QED  BY <1>0, <2>2, <2>4, <2>5 DEF ProcForm
<1>3. CASE Fix(p) \/ DropDangling(p)
  <2>1. kind' = kind /\ stage' = stage /\ sess' = sess
    BY <1>3 DEF Fix, DropDangling
  <2>2. CASE raw' = [raw EXCEPT ![p] = NoBucket]
    <3>1. raw'[p] = NoBucket  BY <1>0, <2>2 DEF ControlTypeOK
    <3>2. WellFormed(NoBucket)  BY DEF WellFormed
    <3> QED  BY <1>0, <2>1, <3>1, <3>2 DEF ProcForm
  <2>3. CASE raw' = [raw EXCEPT ![p] = Kept(raw[p])] /\ raw[p].current \in WithToken(raw[p])
    <3>1. raw[p] # NoBucket /\ raw'[p] = Kept(raw[p])
      BY <1>0, <2>3 DEF ControlTypeOK, WithToken
    <3>2. WithToken(raw[p]) \subseteq Stored(raw[p])  BY <1>0 DEF ProcIsolation
    <3>3. WellFormed(raw[p])  BY <2>3, <3>2 DEF WellFormed
    <3>4. /\ Stored(Kept(raw[p])) = WithToken(raw[p])
          /\ Kept(raw[p]).current = raw[p].current
      BY <1>0, <3>1, <3>2, KeptContents
    <3>5. WellFormed(Kept(raw[p]))  BY <2>3, <3>4 DEF WellFormed
    <3> QED  BY <1>0, <2>1, <3>1, <3>3, <3>5 DEF ProcForm
  <2> QED  BY <1>3, <2>2, <2>3 DEF Fix, DropDangling
<1>4. CASE List(p) \/ Crash(p)  BY <1>0, <1>4, FinishForm DEF List, Crash
<1>5. CASE Probe(p)
  <2>1. sess' = sess /\ \E s \in {"browser", "unwrap"} : Goto(p, s)
    BY <1>5 DEF Probe
  <2> QED  BY <1>0, <2>1, GotoForm DEF ProcForm
<1>6. CASE Unwrap(p)
  <2>1. CASE Goto(p, "load") /\ sess' = sess
    BY <1>0, <2>1, GotoForm DEF ProcForm
  <2> QED  BY <1>0, <1>6, <2>1, FinishForm DEF Unwrap
<1>7. CASE Load(p)
  <2> DEFINE s == [user |-> raw[p].current, gen |-> raw[p].gen[raw[p].current],
                   tok |-> raw[p].tok[raw[p].current]]
  <2>1. CASE NotLoaded(p)  BY <1>0, <2>1, NotLoadedForm
  <2>2. ASSUME raw[p] # NoBucket  PROVE s.gen # 0 /\ WellFormed(file')
    <3>1. raw[p].current \in Stored(raw[p])  BY <1>7, <2>2 DEF Load, Dangling
    <3>2. raw[p].gen[raw[p].current] # 0  BY <2>2, <3>1 DEF Stored
    <3>3. WellFormed(raw[p])  BY <3>1 DEF WellFormed
    <3> QED  BY <1>0, <2>2, <3>2, <3>3 DEF ProcForm
  <2>3. CASE raw[p] # NoBucket /\ Return(p, s)
    <3> HIDE DEF s
    <3> QED  BY <1>0, <2>2, <2>3, ReturnForm
  <2>4. CASE raw[p] # NoBucket /\ sess' = [sess EXCEPT ![p] = s] /\ Goto(p, "refresh")
    <3>1. sess'[p] = s  BY <1>0, <2>4 DEF ControlTypeOK
    <3> HIDE DEF s
    <3> QED  BY <1>0, <2>2, <2>4, <3>1, GotoForm
  <2> QED  BY <1>7, <2>1, <2>3, <2>4 DEF Load
<1>8. CASE Refresh(p)
  <2>1. WellFormed(file')  BY <1>0, <1>8 DEF Refresh, At, ProcForm
  <2>2. CASE Goto(p, "clear") /\ sess' = sess
    BY <1>0, <2>1, <2>2, GotoForm DEF ProcForm
  <2>3. ASSUME NEW t \in Token, sess' = [sess EXCEPT ![p].gen = t, ![p].tok = t],
               Goto(p, "put")
        PROVE  ProcForm(p)'
    <3>1. sess'[p].gen = t /\ t # 0  BY <1>0, <2>3 DEF ControlTypeOK, Session, Token
    <3> QED  BY <1>0, <2>1, <2>3, <3>1, GotoForm
  <2> QED  BY <1>8, <2>2, <2>3 DEF Refresh
<1>9. CASE Browser(p)
  <2>1. CASE Finish(p)  BY <1>0, <2>1, FinishForm
  <2>2. ASSUME NEW t \in Token, NEW u \in Users,
               sess' = [sess EXCEPT ![p] = [user |-> u, gen |-> t, tok |-> t]],
               kind' = [kind EXCEPT ![p] = "login"], Goto(p, "put")
        PROVE  ProcForm(p)'
    <3>1. sess'[p].gen = t /\ t # 0 /\ kind'[p] = "login"
      BY <1>0, <2>2 DEF ControlTypeOK, Token
    <3> QED  BY <1>0, <2>2, <3>1, GotoForm
  <2> QED  BY <1>9, <2>1, <2>2 DEF Browser
<1>10. CASE Put(p)
  <2>1. CASE Finish(p)  BY <1>0, <2>1, FinishForm
  <2>2. CASE kind[p] # "login" /\ Return(p, sess[p])
    <3>1. WellFormed(file')  BY <1>0, <1>10, <2>2 DEF Put, At, ProcForm
    <3>2. sess[p].tok # 0 => sess[p].gen # 0  BY <1>0 DEF ProcForm
    <3> QED  BY <1>0, <2>2, <3>1, <3>2, ReturnForm
  <2> QED  BY <1>10, <2>1, <2>2 DEF Put
<1>11. CASE Clear(p)  BY <1>0, <1>11, NotLoadedForm DEF Clear
<1>12. CASE Use(p)
  <2>1. CASE Finish(p)  BY <1>0, <2>1, FinishForm
  <2>2. CASE Goto(p, "clear") /\ sess' = sess
    <3>1. WellFormed(file')  BY <1>0, <1>12 DEF Use, At, ProcForm
    <3> QED  BY <1>0, <2>2, <3>1, GotoForm DEF ProcForm
  <2> QED  BY <1>12, <2>1, <2>2 DEF Use
<1> QED
  BY <1>1, <1>2, <1>3, <1>4, <1>5, <1>6, <1>7, <1>8, <1>9, <1>10, <1>11, <1>12
     DEF ProcStep

\* Every step keeps FormInv.
LEMMA NextForm == FormInv /\ [Next]_vars => FormInv'
<1> SUFFICES ASSUME FormInv, [Next]_vars  PROVE FormInv'
  OBVIOUS
<1>1. IsolationInv'  BY NextIsolation DEF FormInv
<1>2. WellFormed(file) => WellFormed(file')  BY FileStep
<1>3. ASSUME NEW q \in Procs, raw'[q] = raw[q], sess'[q] = sess[q],
             stage'[q] = stage[q], kind'[q] = kind[q]
      PROVE  ProcForm(q)'
  BY <1>2, <1>3 DEF FormInv, ProcForm, WellFormed
<1>4. ASSUME NEW p \in Procs, ProcStep(p), NEW q \in Procs  PROVE ProcForm(q)'
  <2>1. CASE q = p  BY <1>2, <1>4, <2>1, OwnForm
  <2>2. CASE q # p
    BY <1>3, <1>4, <2>2, FormParts, ProcFrame, KindFrame
  <2> QED  BY <2>1, <2>2
<1>5. ASSUME UNCHANGED procVars, NEW q \in Procs  PROVE ProcForm(q)'
  BY <1>3, <1>5 DEF procVars
<1>6. ASSUME NEW t \in Token, Expire(t)  PROVE UNCHANGED procVars
  BY <1>6 DEF Expire
<1>7. StorageFault \/ UNCHANGED vars => UNCHANGED procVars  BY DEF StorageFault, vars
<1>8. \A q \in Procs : ProcForm(q)'
  BY <1>4, <1>5, <1>6, <1>7 DEF Next, ProcStep
<1> QED  BY <1>1, <1>8 DEF FormInv

\* FormInv holds initially.
LEMMA InitForm == Init => FormInv
<1>1. NoSession.tok = 0  BY DEF NoSession
<1> QED  BY <1>1, InitIsolation DEF Init, FormInv, ProcForm, WellFormed

\* No operation, stale or failing half way, makes the current user of a bucket
\* dangle or brings a token back to the file in plain text.
THEOREM FileNeverRegresses == Spec => NeverRegresses
<1>1. FormInv /\ [Next]_vars => [WellFormed(file) => WellFormed(file')]_vars
  BY FileStep
<1>2. FormInv /\ [Next]_vars => [WithToken(file') \subseteq WithToken(file)]_vars
  BY FileStep
<1> QED  BY <1>1, <1>2, InitForm, NextForm, PTL DEF Spec, NeverRegresses

\* The commands implement the storage's specification: a behaviour of any number
\* of processes is one of the atomic operations of SessionStorage.
THEOREM ImplementsStorage == Spec => StorageSpec /\ StorageBehaviour
<1>1. Init => StorageInit
  BY InitTypeOK, TypeOKParts DEF Init, StorageInit, StorageTypeOK
<1>2. FormInv /\ [Next]_vars => [StorageNext]_storageVars
  BY StorageStep
<1>3. FormInv /\ [Next]_vars => [UNCHANGED storageVars \/ StorageNext]_storageVars
  BY StorageStep
<1> QED
  BY <1>1, <1>2, <1>3, InitForm, NextForm, PTL DEF Spec, StorageSpec, StorageBehaviour

-----------------------------------------------------------------------------
(* Metadata and credentials of the same token pair. *)

\* Failures are only ever added.
LEMMA FaultsGrow ==
    ASSUME FormInv, [Next]_vars
    PROVE  faults \in Nat /\ faults' \in {faults, faults + 1}
<1>0. StorageTypeOK /\ faults \in Nat
  BY TypeOKParts, MaxFaultsAssumption DEF FormInv, IsolationInv, StorageTypeOK
<1>1. ASSUME NEW p \in Procs, ProcStep(p)  PROVE faults' \in {faults, faults + 1}
  <2>1. CASE Get(p)
    <3>1. PICK r \in Answers : StorageGet(r) \/ StorageGetFault(r)  BY <2>1 DEF Get
    <3> QED  BY <1>0, <3>1, GetContents
  <2>2. CASE UNCHANGED storageVars  BY <2>2 DEF storageVars
  <2>3. CASE StorageDelete \/ StorageDeleteFault  BY <1>0, <2>3, DeleteContents
  <2>4. ASSUME NEW v \in Bucket, Built(v)  PROVE faults' \in {faults, faults + 1}
    BY <1>0, <2>4, SetContents DEF Built
  <2> QED  BY <1>1, <2>1, <2>2, <2>3, <2>4, StorageCases
<1>2. StorageFault => faults' = faults + 1
  BY DEF StorageFault, LoseFile, LoseSecret, Fault
<1>3. ASSUME NEW t \in Token, Expire(t)  PROVE faults' = faults
  BY <1>3 DEF Expire, storageVars
<1>4. UNCHANGED vars => faults' = faults  BY DEF vars, storageVars
<1> QED  BY <1>0, <1>1, <1>2, <1>3, <1>4 DEF Next, ProcStep

\* A get that is not a fault, for the process that asks.
LEMMA CleanRead ==
    ASSUME FormInv, NEW p \in Procs, Get(p), faults' = faults
    PROVE  \E r \in Answers : /\ StorageGet(r)
                              /\ raw' = [raw EXCEPT ![p] = r] /\ raw'[p] = r
                              /\ step'[p] = IF Complete(r) THEN "go" ELSE "fix"
<1>1. PICK r \in Answers : /\ StorageGet(r) \/ StorageGetFault(r)
                           /\ raw' = [raw EXCEPT ![p] = r]
                           /\ step' = [step EXCEPT ![p] = IF Complete(r) THEN "go" ELSE "fix"]
  BY DEF Get
<1>2. faults \in Nat
  BY TypeOKParts, MaxFaultsAssumption DEF FormInv, IsolationInv, StorageTypeOK
<1>3. ~ StorageGetFault(r)  BY <1>2 DEF StorageGetFault, Fault
<1> QED  BY <1>1, <1>3, FormParts DEF ControlTypeOK

\* Moving to another function forgets what was read, and begins with a get if any.
LEMMA GotoPaired ==
    ASSUME ControlTypeOK, NEW p \in Procs, NEW s, Goto(p, s), sess'[p].tok = sess'[p].gen
    PROVE  ProcPaired(p)'
BY DEF Goto, ControlTypeOK, ProcPaired

\* The command ends, or a load returns.
LEMMA ReturnPaired ==
    ASSUME ControlTypeOK, NEW p \in Procs,
           \/ Finish(p) \/ NotLoaded(p)
           \/ \E s : s.tok = s.gen /\ Return(p, s)
    PROVE  ProcPaired(p)'
<1>1. NoSession.tok = NoSession.gen  BY DEF NoSession
<1>2. CASE Finish(p)
  <2>1. sess'[p] = NoSession /\ Goto(p, "idle")  BY <1>2 DEF Finish, ControlTypeOK
  <2> QED  BY <1>1, <2>1, GotoPaired
<1>3. ASSUME NEW s, s.tok = s.gen, Return(p, s)  PROVE ProcPaired(p)'
  <2>1. sess'[p] = s /\ \E to : Goto(p, to)  BY <1>3 DEF Return, ControlTypeOK
  <2> QED  BY <1>3, <2>1, GotoPaired
<1> QED  BY <1>1, <1>2, <1>3 DEF NotLoaded

\* The step of a process keeps the pairs together.
LEMMA OwnPaired ==
    ASSUME FormInv, NEW p \in Procs, ProcStep(p), faults' = faults, FilePaired, ProcPaired(p)
    PROVE  FilePaired' /\ ProcPaired(p)'
<1>0. /\ StorageTypeOK /\ ControlTypeOK /\ ProcIsolation(p) /\ ProcForm(p)
      /\ raw[p] \in MaybeBucket /\ sess[p] \in Session /\ sess[p].user \in Users
      /\ raw[p] # NoBucket => raw[p] \in Bucket
  BY FormParts
<1>n. faults \in Nat  BY <1>0, MaxFaultsAssumption DEF StorageTypeOK
<1>u. ASSUME UNCHANGED storageVars  PROVE FilePaired'
  BY <1>u DEF storageVars, FilePaired
<1>d. ASSUME StorageDelete \/ StorageDeleteFault  PROVE FilePaired'
  <2>1. file' = NoBucket  BY <1>0, <1>d, <1>n, DeleteContents
  <2> QED  BY <2>1 DEF FilePaired
<1>s. ASSUME NEW v \in Bucket, StorageSet(v) \/ StorageSetFault(v),
             \A u \in Users : v.tok[u] = v.gen[u]
      PROVE  FilePaired'
  <2>1. file' = Stripped(v) /\ \A u \in Users : secrets'[u] = IF v.tok[u] # 0 THEN v.tok[u]
                                                                            ELSE secrets[u]
    BY <1>0, <1>n, <1>s, SetContents
  <2>2. \A u \in Users : file'.tok[u] = 0 /\ file'.gen[u] = v.gen[u]
    BY <2>1, StrippedType
  <2> QED  BY <1>s, <2>1, <2>2 DEF FilePaired
<1>1. CASE Get(p)
  <2>1. PICK r \in Answers : /\ StorageGet(r) /\ raw'[p] = r
                             /\ step'[p] = IF Complete(r) THEN "go" ELSE "fix"
    BY <1>1, CleanRead
  <2>2. /\ file = NoBucket => r = NoBucket /\ UNCHANGED <<file, secrets>>
        /\ file # NoBucket =>
               /\ r # NoBucket /\ file' = Stripped(file)
               /\ \A u \in Users :
                     /\ secrets'[u] = IF file.tok[u] # 0 THEN file.tok[u] ELSE secrets[u]
                     /\ r.tok[u] = IF file.gen[u] = 0 THEN 0 ELSE secrets'[u]
    BY <1>0, <2>1, CleanGet
  <2>3. r # NoBucket => r.gen = file.gen  BY <1>0, <2>1, GetContents
  <2>4. file # NoBucket => \A u \in Users :
            /\ file'.tok[u] = 0 /\ file'.gen[u] = file.gen[u]
            /\ file.gen[u] # 0 => secrets'[u] = file.gen[u]
    <3>1. file # NoBucket => file \in Bucket  BY <1>0, MaybeBucketCases DEF StorageTypeOK
    <3> QED  BY <2>2, <3>1, StrippedType DEF FilePaired
  <2>5. FilePaired'
    <3>1. CASE file = NoBucket  BY <2>2, <3>1 DEF FilePaired
    <3>2. CASE file # NoBucket  BY <2>4, <3>2 DEF FilePaired
    <3> QED  BY <3>1, <3>2
  <2>6. r # NoBucket => \A u \in Users : r.tok[u] = r.gen[u]
    BY <2>2, <2>3, <2>4
  <2>7. Complete(r)  BY <2>6 DEF Complete, Stored, WithToken
  <2>8. sess' = sess  BY <1>1 DEF Get
  <2> QED  BY <2>1, <2>5, <2>6, <2>7, <2>8 DEF ProcPaired
<1>2. CASE Fix(p)  BY <1>2 DEF Fix, ProcPaired
<1>3. CASE DropDangling(p)
  <2>1. raw'[p] = NoBucket /\ sess' = sess /\ step' = step
    BY <1>0, <1>3 DEF DropDangling, ControlTypeOK
  <2> QED  BY <1>3, <1>d, <2>1 DEF DropDangling, ProcPaired
<1>4. CASE \/ Start(p) \/ List(p) \/ Probe(p) \/ Unwrap(p) \/ Use(p) \/ Crash(p)
  <2>1. UNCHANGED storageVars  BY <1>4 DEF Start, List, Probe, Unwrap, Use, Crash
  <2>2. Finish(p) \/ (sess' = sess /\ \E s : Goto(p, s))
    BY <1>4 DEF Start, List, Probe, Unwrap, Use, Crash
  <2>3. ProcPaired(p)'  BY <1>0, <2>2, GotoPaired, ReturnPaired DEF ProcPaired
  <2> QED  BY <1>u, <2>1, <2>3
<1>5. CASE Load(p)
  <2> DEFINE s == [user |-> raw[p].current, gen |-> raw[p].gen[raw[p].current],
                   tok |-> raw[p].tok[raw[p].current]]
  <2>1. CASE NotLoaded(p)  BY <1>0, <1>5, <1>u, <2>1, ReturnPaired DEF Load
  <2>2. raw[p] # NoBucket => s.tok = s.gen
    BY <1>0 DEF ProcPaired, Bucket
  <2>3. CASE raw[p] # NoBucket /\ Return(p, s)
    <3> HIDE DEF s
    <3> QED  BY <1>0, <1>5, <1>u, <2>2, <2>3, ReturnPaired DEF Load
  <2>4. CASE raw[p] # NoBucket /\ sess' = [sess EXCEPT ![p] = s] /\ Goto(p, "refresh")
    <3>1. sess'[p] = s  BY <1>0, <2>4 DEF ControlTypeOK
    <3> HIDE DEF s
    <3> QED  BY <1>0, <1>5, <1>u, <2>2, <2>4, <3>1, GotoPaired DEF Load
  <2> QED  BY <1>5, <2>1, <2>3, <2>4 DEF Load
<1>6. CASE Refresh(p)
  <2>1. FilePaired'  BY <1>6, <1>u DEF Refresh
  <2>2. CASE Goto(p, "clear") /\ sess' = sess
    BY <1>0, <2>1, <2>2, GotoPaired DEF ProcPaired
  <2>3. ASSUME NEW t \in Token, sess' = [sess EXCEPT ![p].gen = t, ![p].tok = t],
               Goto(p, "put")
        PROVE  ProcPaired(p)'
    <3>1. sess'[p].gen = t /\ sess'[p].tok = t  BY <1>0, <2>3 DEF ControlTypeOK, Session
    <3> QED  BY <1>0, <2>3, <3>1, GotoPaired
  <2> QED  BY <1>6, <2>1, <2>2, <2>3 DEF Refresh
<1>7. CASE Browser(p)
  <2>1. FilePaired'  BY <1>7, <1>u DEF Browser
  <2>2. CASE Finish(p)  BY <1>0, <2>1, <2>2, ReturnPaired
  <2>3. ASSUME NEW t \in Token, NEW u \in Users,
               sess' = [sess EXCEPT ![p] = [user |-> u, gen |-> t, tok |-> t]],
               Goto(p, "put")
        PROVE  ProcPaired(p)'
    <3>1. sess'[p].gen = t /\ sess'[p].tok = t  BY <1>0, <2>3 DEF ControlTypeOK
    <3> QED  BY <1>0, <2>3, <3>1, GotoPaired
  <2> QED  BY <1>7, <2>1, <2>2, <2>3 DEF Browser
<1>8. CASE Put(p)
  <2>1. sess[p].tok = sess[p].gen /\ sess[p].gen # 0
    BY <1>0, <1>8 DEF Put, At, ProcIsolation, ProcForm, ProcPaired, Carrying
  <2> DEFINE v == With(raw[p], sess[p])
  <2>2. /\ v \in Bucket /\ v.gen[sess[p].user] = sess[p].gen /\ v.tok[sess[p].user] = sess[p].tok
        /\ \A u \in Users \ {sess[p].user} :
              /\ v.gen[u] = IF raw[p] = NoBucket THEN 0 ELSE raw[p].gen[u]
              /\ v.tok[u] = IF raw[p] = NoBucket THEN 0 ELSE raw[p].tok[u]
    BY <1>0, <2>1, WithContents
  <2> HIDE DEF v
  <2>3. \A u \in Users : v.tok[u] = v.gen[u]  BY <2>1, <2>2 DEF ProcPaired
  <2>4. FilePaired'  BY <1>8, <1>s, <2>2, <2>3 DEF Put, v
  <2>5. ProcPaired(p)'  BY <1>0, <1>8, <2>1, ReturnPaired DEF Put
  <2> QED  BY <2>4, <2>5
<1>9. CASE Clear(p)
  <2>1. ProcPaired(p)'  BY <1>0, <1>9, ReturnPaired DEF Clear
  <2>2. ASSUME raw[p] # NoBucket, NEW v \in Without(raw[p], sess[p].user),
               StorageSet(v) \/ StorageSetFault(v)
        PROVE  FilePaired'
    <3>1. v \in Bucket /\ \A u \in Users : v.tok[u] = v.gen[u]
      BY <1>0, <2>2, WithoutContents DEF ProcPaired
    <3> QED  BY <1>s, <2>2, <3>1
  <2> QED  BY <1>9, <1>u, <1>d, <2>1, <2>2 DEF Clear
<1> QED
  BY <1>1, <1>2, <1>3, <1>4, <1>5, <1>6, <1>7, <1>8, <1>9 DEF ProcStep

\* Every step keeps the pairs together.
LEMMA NextPaired == FormInv /\ PairedInv /\ [Next]_vars => PairedInv'
<1> SUFFICES ASSUME FormInv, PairedInv, [Next]_vars, faults' = 0
             PROVE  FilePaired' /\ \A q \in Procs : ProcPaired(q)'
  BY DEF PairedInv
<1>0. faults = 0 /\ faults' = faults  BY FaultsGrow
<1>1. FilePaired /\ \A q \in Procs : ProcPaired(q)  BY <1>0 DEF PairedInv
<1>2. ASSUME NEW p \in Procs, ProcStep(p)
      PROVE  FilePaired' /\ \A q \in Procs : ProcPaired(q)'
  <2>1. FilePaired' /\ ProcPaired(p)'  BY <1>0, <1>1, <1>2, OwnPaired
  <2>2. ASSUME NEW q \in Procs, q # p  PROVE ProcPaired(q)'
    BY <1>1, <1>2, <2>2, FormParts, ProcFrame DEF ProcPaired
  <2> QED  BY <2>1, <2>2
<1>3. ~ StorageFault  BY <1>0 DEF StorageFault, LoseFile, LoseSecret, Fault
<1>4. ASSUME UNCHANGED <<storageVars, procVars>>
      PROVE  FilePaired' /\ \A q \in Procs : ProcPaired(q)'
  BY <1>1, <1>4 DEF storageVars, procVars, FilePaired, ProcPaired
<1>5. ASSUME NEW t \in Token, Expire(t)  PROVE UNCHANGED <<storageVars, procVars>>
  BY <1>5 DEF Expire
<1>6. UNCHANGED vars => UNCHANGED <<storageVars, procVars>>  BY DEF vars
<1> QED  BY <1>2, <1>3, <1>4, <1>5, <1>6 DEF Next, ProcStep

\* The pairs are together initially.
LEMMA InitPaired == Init => PairedInv
<1> SUFFICES ASSUME Init  PROVE FilePaired /\ \A p \in Procs : ProcPaired(p)
  BY DEF PairedInv
<1>1. PICK S \in SUBSET Users, P \in SUBSET Users, c \in Users :
         LET Pick(A) == [u \in Users |-> IF u \in A THEN FirstToken[u] ELSE 0]
         IN /\ file = IF S = {} THEN NoBucket
                      ELSE [current |-> c, gen |-> Pick(S), tok |-> Pick(S \cap P)]
            /\ secrets = Pick(S \ P)
  BY DEF Init
<1>2. \A u \in Users : /\ file # NoBucket =>
                              /\ file.gen[u] = IF u \in S THEN FirstToken[u] ELSE 0
                              /\ file.tok[u] = IF u \in S \cap P THEN FirstToken[u] ELSE 0
                       /\ secrets[u] = IF u \in S \ P THEN FirstToken[u] ELSE 0
  BY <1>1
<1>3. \A u \in Users : FirstToken[u] # 0  BY FirstTokenAssumption, SeededNat
<1>4. FilePaired  BY <1>2, <1>3 DEF FilePaired
<1>5. NoSession.tok = NoSession.gen  BY DEF NoSession
<1> QED  BY <1>4, <1>5 DEF Init, ProcPaired

\* Without faults a session's metadata and credential are of the same token pair,
\* for any number of processes and users.
THEOREM PairsStayTogether == Spec => []Paired
<1>1. FormInv /\ PairedInv => Paired
  <2> SUFFICES ASSUME FormInv, PairedInv  PROVE Paired
    OBVIOUS
  <2>1. StorageTypeOK  BY TypeOKParts DEF FormInv, IsolationInv
  <2>2. ASSUME faults = 0, NEW u \in Stored(file) \ WithToken(file)
        PROVE  secrets[u] = file.gen[u]
    BY <2>2 DEF PairedInv, FilePaired, Stored, WithToken
  <2> QED  BY <2>2 DEF Paired, PairedInv, ProcPaired
<1> QED  BY <1>1, InitForm, NextForm, InitPaired, NextPaired, PTL DEF Spec

-----------------------------------------------------------------------------
(* One process alone. *)

\* No credential is of a pair that was not yet issued.
LEMMA SecretsIssued ==
    ASSUME FormInv, NEW u \in Users
    PROVE  secrets[u] \in Nat /\ secrets[u] <= issued /\ issued \in Nat
<1>1. /\ secrets[u] \in MaybeToken /\ issued \in Nat /\ Owned(u, secrets[u])
  BY TypeOKParts, SeededNat, MaxTokenAssumption
     DEF FormInv, IsolationInv, StorageTypeOK, ServerTypeOK, StorageOwned
<1> QED  BY <1>1, MaxTokenAssumption DEF Owned, MaybeToken

\* The tokens a process has read are numbers.
LEMMA TokensAreNumbers ==
    ASSUME FormInv, NEW p \in Procs, NEW u \in Users
    PROVE  /\ raw[p] # NoBucket => raw[p].tok[u] \in Nat
           /\ sess[p].tok \in Nat
BY FormParts, MaxTokenAssumption DEF Bucket, Session, MaybeToken

\* Moving to another function: nothing is read yet.
LEMMA GotoFresh ==
    ASSUME ControlTypeOK, NEW p \in Procs, NEW s, Goto(p, s),
           s = "put" => sess'[p].tok = issued'
    PROVE  ProcFresh(p)'
<1>1. raw'[p] = NoBucket /\ stage'[p] = s  BY DEF Goto, ControlTypeOK
<1> QED  BY <1>1 DEF ProcFresh

\* A step that replaces a credential stores one that is no older.
LEMMA AloneStores ==
    ASSUME FormInv, NEW p, Procs = {p}, ProcFresh(p), Migrated, [Next]_vars, NEW u \in Users
    PROVE  secrets'[u] = 0 \/ secrets'[u] >= secrets[u]
<1>0. /\ p \in Procs /\ StorageTypeOK /\ ControlTypeOK /\ ProcIsolation(p) /\ ProcForm(p)
      /\ raw[p] \in MaybeBucket /\ sess[p] \in Session /\ sess[p].user \in Users
      /\ raw[p] # NoBucket => raw[p] \in Bucket
  BY FormParts
<1>1. /\ secrets[u] \in Nat /\ issued \in Nat /\ secrets[u] <= issued
      /\ secrets[u] >= secrets[u]
  BY SecretsIssued
<1>2. raw[p] # NoBucket => raw[p].tok[u] = 0 \/ raw[p].tok[u] >= secrets[u]
  BY DEF ProcFresh
<1>s. ASSUME NEW v \in Bucket, StorageSet(v) \/ StorageSetFault(v),
             v.tok[u] = 0 \/ v.tok[u] >= secrets[u]
      PROVE  secrets'[u] = 0 \/ secrets'[u] >= secrets[u]
  BY <1>0, <1>1, <1>s, SetContents
<1>d. ASSUME StorageDelete \/ StorageDeleteFault
      PROVE  secrets'[u] = 0 \/ secrets'[u] >= secrets[u]
  BY <1>0, <1>1, <1>d, DeleteContents
<1>u. ASSUME secrets' = secrets  PROVE secrets'[u] = 0 \/ secrets'[u] >= secrets[u]
  BY <1>1, <1>u
<1>3. CASE Get(p)
  <2>1. PICK r \in Answers : StorageGet(r) \/ StorageGetFault(r)  BY <1>3 DEF Get
  <2> QED  BY <1>0, <1>u, <2>1, GetContents DEF Migrated
<1>4. CASE Fix(p)
  <2>1. CASE /\ raw[p].current \in WithToken(raw[p])
             /\ StorageSet(Kept(raw[p])) \/ StorageSetFault(Kept(raw[p]))
    <3>1. raw[p] # NoBucket  BY <2>1 DEF WithToken
    <3>2. Kept(raw[p]) \in Bucket /\ Kept(raw[p]).tok = raw[p].tok
      BY <1>0, <3>1, KeptContents DEF ProcIsolation
    <3> QED  BY <1>2, <1>s, <2>1, <3>1, <3>2
  <2> QED  BY <1>4, <1>d, <2>1 DEF Fix
<1>5. CASE Put(p)
  <2>1. sess[p].gen # 0 /\ sess[p].tok = issued
    BY <1>0, <1>5 DEF Put, At, ProcIsolation, ProcForm, ProcFresh, Carrying
  <2> DEFINE v == With(raw[p], sess[p])
  <2>2. /\ v \in Bucket /\ v.tok[sess[p].user] = sess[p].tok
        /\ u # sess[p].user => v.tok[u] = IF raw[p] = NoBucket THEN 0 ELSE raw[p].tok[u]
    BY <1>0, <2>1, WithContents
  <2>3. StorageSet(v) \/ StorageSetFault(v)  BY <1>5 DEF Put
  <2> HIDE DEF v
  <2>4. issued >= secrets[u]  BY <1>1
  <2>5. v.tok[u] = 0 \/ v.tok[u] >= secrets[u]  BY <1>2, <2>1, <2>2, <2>4
  <2> QED  BY <1>s, <2>2, <2>3, <2>5
<1>6. CASE Clear(p)
  <2>1. ASSUME raw[p] # NoBucket, NEW v \in Without(raw[p], sess[p].user),
               StorageSet(v) \/ StorageSetFault(v)
        PROVE  secrets'[u] = 0 \/ secrets'[u] >= secrets[u]
    <3>1. v \in Bucket /\ v.tok[u] \in {0, raw[p].tok[u]}
      BY <1>0, <2>1, WithoutContents
    <3> QED  BY <1>2, <1>s, <2>1, <3>1
  <2> QED  BY <1>6, <1>d, <1>u, <2>1 DEF Clear, storageVars
<1>7. CASE DropDangling(p)  BY <1>7, <1>d DEF DropDangling
<1>8. CASE \/ Start(p) \/ List(p) \/ Probe(p) \/ Unwrap(p) \/ Load(p)
           \/ Refresh(p) \/ Browser(p) \/ Use(p) \/ Crash(p)
  <2>1. UNCHANGED storageVars
    BY <1>8 DEF Start, List, Probe, Unwrap, Load, Refresh, Browser, Use, Crash
  <2> QED  BY <1>u, <2>1 DEF storageVars
<1>9. CASE StorageFault
  <2>1. secrets'[u] \in {0, secrets[u]}
    BY <1>0, <1>9 DEF StorageFault, LoseFile, LoseSecret, StorageTypeOK
  <2> QED  BY <1>1, <2>1
<1>10. CASE (\E t \in Token : Expire(t)) \/ UNCHANGED vars
  BY <1>10, <1>u DEF Expire, vars, storageVars
<1> QED
  BY <1>3, <1>4, <1>5, <1>6, <1>7, <1>8, <1>9, <1>10 DEF Next

\* What the process has read stays no older than the credentials.
LEMMA FreshStep ==
    ASSUME FormInv, NEW p, Procs = {p}, ProcFresh(p), [Next]_vars
    PROVE  ProcFresh(p)'
<1>0. /\ p \in Procs /\ StorageTypeOK /\ ControlTypeOK /\ ProcIsolation(p) /\ ProcForm(p)
      /\ raw[p] \in MaybeBucket /\ sess[p] \in Session /\ sess[p].user \in Users
      /\ raw[p] # NoBucket => raw[p] \in Bucket
  BY FormParts
<1>1. \A u \in Users : secrets[u] \in Nat /\ secrets[u] >= secrets[u]
  BY SecretsIssued
<1>2. \A u \in Users : secrets'[u] \in Nat /\ secrets'[u] >= secrets'[u]
  <2>1. FormInv'  BY NextForm
  <2>2. \A u \in Users : secrets'[u] \in MaybeToken
    BY <2>1 DEF FormInv, IsolationInv, TypeOK, MaybeToken
  <2> QED  BY <2>2, MaxTokenAssumption DEF MaybeToken
<1>g. ASSUME NEW s, Goto(p, s), s # "put"  PROVE ProcFresh(p)'
  BY <1>0, <1>g, GotoFresh
<1>f. ASSUME Finish(p) \/ NotLoaded(p) \/ \E s : Return(p, s)  PROVE ProcFresh(p)'
  BY <1>f, <1>g DEF Finish, NotLoaded, Return
<1>3. CASE Get(p)
  <2>1. PICK r \in Answers : /\ StorageGet(r) \/ StorageGetFault(r)
                             /\ raw' = [raw EXCEPT ![p] = r]
    BY <1>3 DEF Get
  <2>2. raw'[p] = r /\ stage' = stage /\ sess' = sess /\ issued' = issued
    BY <1>0, <1>3, <2>1 DEF Get, ControlTypeOK, serverVars
  <2>3. ASSUME Migrated', r # NoBucket, NEW u \in Users
        PROVE  r.tok[u] = 0 \/ r.tok[u] >= secrets'[u]
    <3>1. r.tok[u] \in {0, secrets'[u]}
      BY <1>0, <2>1, <2>3, GetContents DEF Migrated, WithToken
    <3> QED  BY <1>2, <3>1
  <2> QED  BY <2>2, <2>3 DEF ProcFresh
<1>4. CASE Fix(p) \/ DropDangling(p)
  <2>1. stage' = stage /\ sess' = sess /\ issued' = issued
    BY <1>4 DEF Fix, DropDangling, serverVars
  <2>2. CASE raw' = [raw EXCEPT ![p] = NoBucket]
    <3>1. raw'[p] = NoBucket  BY <1>0, <2>2 DEF ControlTypeOK
    <3> QED  BY <2>1, <3>1 DEF ProcFresh
  <2>3. CASE /\ raw[p].current \in WithToken(raw[p])
             /\ StorageSet(Kept(raw[p])) \/ StorageSetFault(Kept(raw[p]))
             /\ raw' = [raw EXCEPT ![p] = Kept(raw[p])]
    <3>1. raw[p] # NoBucket /\ raw'[p] = Kept(raw[p])
      BY <1>0, <2>3 DEF ControlTypeOK, WithToken
    <3>2. Kept(raw[p]) \in Bucket /\ Kept(raw[p]).tok = raw[p].tok
      BY <1>0, <3>1, KeptContents DEF ProcIsolation
    <3>3. /\ \A u \in Users : secrets'[u] = secrets[u]
                              \/ (raw[p].tok[u] # 0 /\ secrets'[u] = raw[p].tok[u])
          /\ \/ file' = file
             \/ \A u \in Users : secrets'[u] = IF raw[p].tok[u] # 0 THEN raw[p].tok[u]
                                                                   ELSE secrets[u]
      <4> DEFINE v == Kept(raw[p])
      <4> HIDE DEF v
      <4>1. v \in Bucket /\ v.tok = raw[p].tok /\ (StorageSet(v) \/ StorageSetFault(v))
        BY <2>3, <3>2 DEF v
      <4> QED  BY <1>0, <4>1, SetContents
    <3>4. ASSUME Migrated', NEW u \in Users
          PROVE  raw[p].tok[u] = 0 \/ raw[p].tok[u] >= secrets'[u]
      <4>1. CASE file' = file
        <5>1. raw'[p] # NoBucket  BY <3>1, <3>2, NoBucketAssumption
        <5>2. file # NoBucket /\ WithToken(file) = {}
          BY <1>0, <3>4, <4>1, <5>1 DEF Migrated, WithToken
        <5>3. raw[p].tok[u] = 0 \/ raw[p].tok[u] >= secrets[u]
          BY <3>1, <5>2 DEF ProcFresh, Migrated
        <5> QED  BY <1>2, <3>3, <5>3
      <4>2. CASE \A w \in Users : secrets'[w] = IF raw[p].tok[w] # 0 THEN raw[p].tok[w]
                                                                    ELSE secrets[w]
        BY <1>2, <4>2
      <4> QED  BY <3>3, <4>1, <4>2
    <3> QED  BY <2>1, <3>1, <3>2, <3>4 DEF ProcFresh
  <2> QED  BY <1>4, <2>2, <2>3 DEF Fix, DropDangling
<1>5. CASE Refresh(p)
  <2>1. ASSUME NEW t \in Token, NEW u, Issue(t, u),
               sess' = [sess EXCEPT ![p].gen = t, ![p].tok = t], Goto(p, "put")
        PROVE  ProcFresh(p)'
    <3>1. sess'[p].tok = t /\ issued' = t  BY <1>0, <2>1 DEF ControlTypeOK, Session, Issue
    <3> QED  BY <1>0, <2>1, <3>1, GotoFresh
  <2> QED  BY <1>5, <1>g, <2>1 DEF Refresh
<1>6. CASE Browser(p)
  <2>1. ASSUME NEW t \in Token, NEW u \in Users, Issue(t, u),
               sess' = [sess EXCEPT ![p] = [user |-> u, gen |-> t, tok |-> t]], Goto(p, "put")
        PROVE  ProcFresh(p)'
    <3>1. sess'[p].tok = t /\ issued' = t  BY <1>0, <2>1 DEF ControlTypeOK, Issue
    <3> QED  BY <1>0, <2>1, <3>1, GotoFresh
  <2> QED  BY <1>6, <1>f, <2>1 DEF Browser
<1>7. CASE Load(p)
  <2>1. Goto(p, "refresh") \/ NotLoaded(p) \/ \E s : Return(p, s)
    BY <1>7 DEF Load
  <2> QED  BY <1>f, <1>g, <2>1
<1>8. CASE Put(p) \/ Clear(p) \/ List(p) \/ Crash(p)
  BY <1>8, <1>f DEF Put, Clear, List, Crash
<1>9. CASE Start(p) \/ Probe(p) \/ Unwrap(p) \/ Use(p)
  BY <1>9, <1>f, <1>g DEF Start, Probe, Unwrap, Use
<1>10. CASE StorageFault
  <2>1. raw' = raw /\ stage' = stage /\ sess' = sess /\ issued' = issued
    BY <1>10 DEF StorageFault, procVars, serverVars
  <2>2. /\ file' = NoBucket \/ file' = file
        /\ \A u \in Users : secrets'[u] \in {0, secrets[u]}
    BY <1>0, <1>10 DEF StorageFault, LoseFile, LoseSecret, StorageTypeOK
  <2>3. ASSUME Migrated', raw[p] # NoBucket, NEW u \in Users
        PROVE  raw[p].tok[u] = 0 \/ raw[p].tok[u] >= secrets'[u]
    <3>1. file' = file /\ file # NoBucket /\ WithToken(file) = {}
      BY <1>0, <2>1, <2>2, <2>3 DEF Migrated, WithToken
    <3>2. raw[p].tok[u] = 0 \/ raw[p].tok[u] >= secrets[u]
      BY <2>3, <3>1 DEF ProcFresh, Migrated
    <3>3. raw[p].tok[u] \in Nat /\ secrets[u] \in Nat
      BY <1>0, <1>1, <2>3, TokensAreNumbers
    <3>4. raw[p].tok[u] >= 0  BY <3>3
    <3> QED  BY <2>2, <3>2, <3>4
  <2> QED  BY <2>1, <2>3 DEF ProcFresh
<1>11. CASE (\E t \in Token : Expire(t)) \/ UNCHANGED vars
  <2>1. UNCHANGED <<file, secrets, raw, stage, sess, issued>>
    BY <1>11 DEF Expire, vars, storageVars, procVars, serverVars
  <2> QED  BY <2>1 DEF ProcFresh, Migrated
<1> QED
  BY <1>3, <1>4, <1>5, <1>6, <1>7, <1>8, <1>9, <1>10, <1>11 DEF Next

\* Moving to another function: nothing is read yet, and the session is as stored.
LEMMA GotoSynced ==
    ASSUME ControlTypeOK, NEW p \in Procs, NEW s, Goto(p, s),
           s \in {"refresh", "use", "clear"} =>
               file' # NoBucket /\ file'.gen[sess'[p].user] = sess'[p].gen
    PROVE  ProcSynced(p)'
<1>1. /\ raw'[p] = NoBucket /\ stage'[p] = s
      /\ s \in ReadStages => step'[p] = "get"
  BY DEF Goto, ControlTypeOK
<1> QED  BY <1>1 DEF ProcSynced

\* Without faults, what the process has read stays what is stored.
LEMMA SyncedStep ==
    ASSUME FormInv, NEW p, Procs = {p}, [Next]_vars, faults = 0, faults' = 0,
           FilePaired, ProcPaired(p), ProcSynced(p)
    PROVE  ProcSynced(p)'
<1>0. /\ p \in Procs /\ StorageTypeOK /\ ControlTypeOK /\ ProcIsolation(p) /\ ProcForm(p)
      /\ raw[p] \in MaybeBucket /\ sess[p] \in Session /\ sess[p].user \in Users
      /\ raw[p] # NoBucket => raw[p] \in Bucket
  BY FormParts
<1>n. \A r : ~ StorageSetFault(r) /\ ~ StorageDeleteFault  BY DEF StorageSetFault, StorageDeleteFault, Fault
<1>g. ASSUME NEW s, Goto(p, s), s \notin {"refresh", "use", "clear"}  PROVE ProcSynced(p)'
  BY <1>0, <1>g, GotoSynced
<1>f. ASSUME Finish(p)  PROVE ProcSynced(p)'  BY <1>f, <1>g DEF Finish
<1>r. ASSUME NEW s, Return(p, s), file' # NoBucket, file'.gen[s.user] = s.gen
      PROVE  ProcSynced(p)'
  <2>1. sess'[p] = s /\ \E to : Goto(p, to)  BY <1>0, <1>r DEF Return, ControlTypeOK
  <2> QED  BY <1>0, <1>r, <2>1, GotoSynced
<1>l. ASSUME NotLoaded(p)  PROVE ProcSynced(p)'
  BY <1>l, <1>f, <1>g DEF NotLoaded, Return
<1>s. ASSUME NEW s, stage[p] \in {"refresh", "use"}, Goto(p, s), sess' = sess, file' = file
      PROVE  ProcSynced(p)'
  BY <1>0, <1>s, GotoSynced DEF ProcSynced
<1>1. CASE Get(p)
  <2>1. PICK r \in Answers : StorageGet(r) /\ raw'[p] = r
    BY <1>0, <1>1, CleanRead
  <2>2. /\ file = NoBucket => r = NoBucket /\ file' = file
        /\ file # NoBucket => r # NoBucket /\ file' = Stripped(file)
    BY <1>0, <2>1, CleanGet
  <2>3. r # NoBucket => r.gen = file.gen /\ r.current = file.current
    BY <1>0, <2>1, GetContents
  <2>4. file # NoBucket => /\ file' # NoBucket /\ file'.gen = file.gen
                           /\ file'.current = file.current
    <3>1. file # NoBucket => file \in Bucket  BY <1>0, MaybeBucketCases DEF StorageTypeOK
    <3> QED  BY <2>2, <3>1, StrippedType, NoBucketAssumption
  <2>5. stage' = stage /\ sess' = sess  BY <1>1 DEF Get
  <2> QED  BY <2>1, <2>2, <2>3, <2>4, <2>5 DEF ProcSynced
<1>2. CASE Fix(p)  BY <1>2 DEF Fix, ProcPaired
<1>3. CASE DropDangling(p)
  <2>1. raw'[p] = NoBucket /\ stage' = stage /\ stage[p] \in {"probe", "unwrap", "load"}
    BY <1>0, <1>3 DEF DropDangling, ControlTypeOK
  <2>2. file' = NoBucket  BY <1>3, <1>n DEF DropDangling, StorageDelete
  <2> QED  BY <2>1, <2>2 DEF ProcSynced
<1>4. CASE List(p) \/ Crash(p)  BY <1>4, <1>f DEF List, Crash
<1>5. CASE Start(p) \/ Probe(p) \/ Unwrap(p)
  BY <1>5, <1>f, <1>g DEF Start, Probe, Unwrap
<1>6. CASE Load(p)
  <2> DEFINE s == [user |-> raw[p].current, gen |-> raw[p].gen[raw[p].current],
                   tok |-> raw[p].tok[raw[p].current]]
  <2>1. CASE NotLoaded(p)  BY <1>l, <2>1
  <2>2. raw[p] # NoBucket => file' # NoBucket /\ file'.gen[s.user] = s.gen
    BY <1>6 DEF Load, storageVars, ProcSynced
  <2>3. CASE raw[p] # NoBucket /\ Return(p, s)
    <3> HIDE DEF s
    <3> QED  BY <1>r, <2>2, <2>3
  <2>4. CASE raw[p] # NoBucket /\ sess' = [sess EXCEPT ![p] = s] /\ Goto(p, "refresh")
    <3>1. sess'[p] = s  BY <1>0, <2>4 DEF ControlTypeOK
    <3> HIDE DEF s
    <3> QED  BY <1>0, <2>2, <2>4, <3>1, GotoSynced
  <2> QED  BY <1>6, <2>1, <2>3, <2>4 DEF Load
<1>7. CASE Refresh(p)
  <2>1. CASE Goto(p, "clear") /\ sess' = sess
    BY <1>7, <1>s, <2>1 DEF Refresh, At, storageVars
  <2> QED  BY <1>7, <1>g, <2>1 DEF Refresh
<1>8. CASE Browser(p)  BY <1>8, <1>f, <1>g DEF Browser
<1>9. CASE Put(p)
  <2>1. sess[p].gen # 0
    BY <1>0, <1>9 DEF Put, At, ProcIsolation, ProcForm, Carrying
  <2> DEFINE v == With(raw[p], sess[p])
  <2>2. v \in Bucket /\ v.gen[sess[p].user] = sess[p].gen
    BY <1>0, <2>1, WithContents
  <2>3. file' = Stripped(v)  BY <1>9, <1>n DEF Put, StorageSet
  <2> HIDE DEF v
  <2>4. file' # NoBucket /\ file'.gen[sess[p].user] = sess[p].gen
    BY <2>2, <2>3, StrippedType, NoBucketAssumption
  <2> QED  BY <1>9, <1>f, <1>r, <2>4 DEF Put
<1>10. CASE Clear(p)  BY <1>10, <1>l DEF Clear
<1>11. CASE Use(p)
  <2>1. CASE Goto(p, "clear") /\ sess' = sess
    BY <1>11, <1>s, <2>1 DEF Use, At, storageVars
  <2> QED  BY <1>11, <1>f, <2>1 DEF Use
<1>12. ~ StorageFault  BY DEF StorageFault, LoseFile, LoseSecret, Fault
<1>13. CASE (\E t \in Token : Expire(t)) \/ UNCHANGED vars
  BY <1>13 DEF Expire, vars, storageVars, procVars, ProcSynced
<1> QED
  BY <1>1, <1>2, <1>3, <1>4, <1>5, <1>6, <1>7, <1>8, <1>9, <1>10, <1>11, <1>12, <1>13
     DEF Next

\* Without faults a session is lost only where it is cleared after a rejection.
LEMMA AloneLoses ==
    ASSUME FormInv, NEW p, Procs = {p}, [Next]_vars, faults = 0, faults' = 0,
           ProcPaired(p), ProcSynced(p), WellFormed(file),
           NEW u \in Stored(file) \ Stored(file')
    PROVE  stage[p] = "clear" /\ sess[p].user = u /\ sess[p].gen = file.gen[u]
<1>0. /\ p \in Procs /\ StorageTypeOK /\ ControlTypeOK /\ ProcIsolation(p) /\ ProcForm(p)
      /\ raw[p] \in MaybeBucket /\ sess[p] \in Session /\ sess[p].user \in Users
      /\ raw[p] # NoBucket => raw[p] \in Bucket
  BY FormParts
<1>1. /\ u \in Users /\ file # NoBucket /\ file \in Bucket /\ file.gen[u] # 0
      /\ file' # file
  BY <1>0, MaybeBucketCases DEF StorageTypeOK, Stored
<1>2. \A r : ~ StorageSetFault(r) /\ ~ StorageDeleteFault
  BY DEF StorageSetFault, StorageDeleteFault, Fault
<1>s. ASSUME NEW v \in Bucket, StorageSet(v)  PROVE v.gen[u] = 0
  <2>1. file' = Stripped(v)  BY <1>s DEF StorageSet
  <2>2. Stored(file') = Stored(v) /\ v # NoBucket  BY <2>1, StrippedType, NoBucketAssumption
  <2> QED  BY <1>1, <2>2 DEF Stored
<1>3. ~ Get(p)
  <2> SUFFICES ASSUME Get(p)  PROVE FALSE
    OBVIOUS
  <2>1. PICK r \in Answers : StorageGet(r)  BY <1>0, CleanRead
  <2>2. file' = Stripped(file)  BY <1>0, <1>1, <2>1, CleanGet
  <2> QED  BY <1>1, <2>2, StrippedType
<1>4. ~ Fix(p)  BY DEF Fix, ProcPaired
<1>5. ~ DropDangling(p)
  <2> SUFFICES ASSUME DropDangling(p)  PROVE FALSE
    OBVIOUS
  <2>1. raw[p] # NoBucket /\ raw[p].current \notin Stored(raw[p])
    BY DEF DropDangling, Dangling
  <2> QED  BY <1>1, <2>1 DEF ProcSynced, WellFormed, Stored
<1>6. ~ Put(p)
  <2> SUFFICES ASSUME Put(p)  PROVE FALSE
    OBVIOUS
  <2>1. sess[p].gen # 0 /\ stage[p] = "put" /\ step[p] = "go"
    BY <1>0 DEF Put, At, ProcIsolation, ProcForm, Carrying
  <2>2. raw[p] # NoBucket /\ raw[p].gen = file.gen
    BY <1>1, <2>1 DEF ProcSynced, ReadStages
  <2> DEFINE v == With(raw[p], sess[p])
  <2>3. /\ v \in Bucket /\ v.gen[sess[p].user] = sess[p].gen
        /\ u # sess[p].user => v.gen[u] = raw[p].gen[u]
    BY <1>0, <1>1, <2>1, <2>2, WithContents
  <2>4. StorageSet(v)  BY <1>2 DEF Put
  <2> HIDE DEF v
  <2> QED  BY <1>1, <1>s, <2>1, <2>2, <2>3, <2>4
<1>7. ASSUME Clear(p)
      PROVE  stage[p] = "clear" /\ sess[p].user = u /\ sess[p].gen = file.gen[u]
  <2>1. stage[p] = "clear" /\ step[p] = "go"  BY <1>7 DEF Clear, At
  <2>2. /\ file.gen[sess[p].user] = sess[p].gen
        /\ raw[p] # NoBucket /\ raw[p].gen = file.gen
    BY <1>1, <2>1 DEF ProcSynced, ReadStages
  <2>3. CASE Stored(raw[p]) \subseteq {sess[p].user}
    BY <1>1, <2>1, <2>2, <2>3 DEF Stored
  <2>4. ASSUME NEW v \in Without(raw[p], sess[p].user), StorageSet(v)
        PROVE  u = sess[p].user
    <3>1. v \in Bucket /\ (u # sess[p].user => v.gen[u] = raw[p].gen[u])
      BY <1>0, <1>1, <2>2, WithoutContents
    <3> QED  BY <1>1, <1>s, <2>2, <2>4, <3>1
  <2> QED  BY <1>2, <1>7, <2>1, <2>2, <2>3, <2>4 DEF Clear
<1>8. ~ (\/ Start(p) \/ List(p) \/ Probe(p) \/ Unwrap(p) \/ Load(p)
         \/ Refresh(p) \/ Browser(p) \/ Use(p) \/ Crash(p))
  BY <1>1 DEF Start, List, Probe, Unwrap, Load, Refresh, Browser, Use, Crash, storageVars
<1>9. ~ StorageFault  BY DEF StorageFault, LoseFile, LoseSecret, Fault
<1>10. ~ ((\E t \in Token : Expire(t)) \/ UNCHANGED vars)
  BY <1>1 DEF Expire, vars, storageVars
<1> QED
  BY <1>3, <1>4, <1>5, <1>6, <1>7, <1>8, <1>9, <1>10 DEF Next

\* A process alone never stores an older credential over a younger one, however
\* many operations fail, and without failures loses only sessions whose own token
\* pair was rejected.
THEOREM AloneLosesOnlyRejected ==
    ASSUME NEW only, Procs = {only}  PROVE Spec => LosesOnlyRejected
<1>1. Init => AloneInv
  <2>1. "idle" \notin ReadStages  BY DEF ReadStages
  <2> QED  BY <2>1 DEF Init, AloneInv, ProcFresh, ProcSynced
<1>2. FormInv /\ PairedInv /\ AloneInv /\ [Next]_vars => AloneInv'
  <2> SUFFICES ASSUME FormInv, PairedInv, AloneInv, [Next]_vars  PROVE AloneInv'
    OBVIOUS
  <2>1. ProcFresh(only)'  BY FreshStep DEF AloneInv
  <2>2. ASSUME faults' = 0  PROVE ProcSynced(only)'
    <3>1. faults = 0  BY <2>2, FaultsGrow
    <3> QED  BY <2>2, <3>1, SyncedStep DEF AloneInv, PairedInv
  <2> QED  BY <2>1, <2>2 DEF AloneInv
<1>3. FormInv /\ AloneInv /\ [Next]_vars =>
        [Migrated => \A u \in Users : secrets'[u] = 0 \/ secrets'[u] >= secrets[u]]_vars
  BY AloneStores DEF AloneInv
<1>4. FormInv /\ PairedInv /\ AloneInv /\ [Next]_vars =>
        [WellFormed(file) /\ faults' = 0 =>
            \A u \in Stored(file) \ Stored(file') :
                \E p \in Procs : /\ stage[p] = "clear"
                                 /\ sess[p].user = u
                                 /\ sess[p].gen = file.gen[u]]_vars
  <2> SUFFICES ASSUME FormInv, PairedInv, AloneInv, [Next]_vars, WellFormed(file), faults' = 0,
                      NEW u \in Stored(file) \ Stored(file')
               PROVE  \E p \in Procs : /\ stage[p] = "clear"
                                       /\ sess[p].user = u
                                       /\ sess[p].gen = file.gen[u]
    OBVIOUS
  <2>1. faults = 0  BY FaultsGrow
  <2> QED  BY <2>1, AloneLoses DEF AloneInv, PairedInv
<1>5. Spec => [](FormInv /\ PairedInv /\ AloneInv)
  BY <1>1, <1>2, InitForm, NextForm, InitPaired, NextPaired, PTL DEF Spec
<1>6. Spec => [][Migrated => \A u \in Users : secrets'[u] = 0 \/ secrets'[u] >= secrets[u]]_vars
  BY <1>3, <1>5, PTL DEF Spec
<1>7. Spec => [][WellFormed(file) /\ faults' = 0 =>
                    \A u \in Stored(file) \ Stored(file') :
                        \E p \in Procs : /\ stage[p] = "clear"
                                         /\ sess[p].user = u
                                         /\ sess[p].gen = file.gen[u]]_vars
  BY <1>4, <1>5, PTL DEF Spec
<1> QED  BY <1>6, <1>7 DEF LosesOnlyRejected

=============================================================================
