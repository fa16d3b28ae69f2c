--------------------------- MODULE SessionStorage ---------------------------
(***************************************************************************)
(* What JsonFileStoreSessionStorage (store/src/auth/session_store.rs)      *)
(* promises to the commands that use it: every operation is one atomic     *)
(* step on the metadata file and the operating-system credential store,    *)
(* because it runs from load to save under an exclusive file lock.         *)
(*                                                                         *)
(* One bucket (one shop) is modelled: load and save happen under the same  *)
(* lock, so the buckets of different shops never interfere.  A session is  *)
(* its generation: the number of the token pair it was saved with.         *)
(***************************************************************************)
EXTENDS Integers, FiniteSets

CONSTANTS
    Users,      \* the user ids a bucket may hold
    MaxToken,   \* bound: token pairs the server ever issues
    MaxFaults,  \* bound: lock, keyring and disk failures in a behaviour
    NoBucket    \* the map has no value for the key

ASSUME MaxTokenAssumption == MaxToken \in Nat
ASSUME MaxFaultsAssumption == MaxFaults \in Nat

VARIABLES
    file,     \* the JSON value under the key: metadata, tokens only if plaintext
    secrets,  \* the credential store, 0 when it has no entry for the user
    faults    \* failures so far

storageVars == <<file, secrets, faults>>

Token == 1..MaxToken
MaybeToken == 0..MaxToken

\* gen[u] = 0: no session of u.  tok[u] = 0: its session carries no accessToken.
Bucket == [current : Users, gen : [Users -> MaybeToken], tok : [Users -> MaybeToken]]
MaybeBucket == Bucket \cup {NoBucket}

ASSUME NoBucketAssumption == NoBucket \notin Bucket

Stored(b) == IF b = NoBucket THEN {} ELSE {u \in Users : b.gen[u] # 0}
WithToken(b) == IF b = NoBucket THEN {} ELSE {u \in Users : b.tok[u] # 0}

\* Mutant: strip_secrets forgets session.remove("accessToken").
UnstrippedMutant(b) == b

Stripped(b) == [b EXCEPT !.tok = [u \in Users |-> 0]]

\* Mutants: a credential key without the user id; an existing entry is kept.
SharedSecretMutant(b, W) ==
    [u \in Users |-> IF W = {} THEN secrets[u] ELSE b.tok[CHOOSE w \in W : TRUE]]
KeepSecretMutant(b, W) ==
    [u \in Users |-> IF u \in W /\ secrets[u] = 0 THEN b.tok[u] ELSE secrets[u]]

\* strip_secrets up to the users in W: their tokens are in the keyring.
Written(b, W) == [u \in Users |-> IF u \in W THEN b.tok[u] ELSE secrets[u]]

\* Mutant: the token is the one the metadata was saved with.
MetadataTokenMutant(b, s, F) == [b EXCEPT !.tok = b.gen]

\* hydrate_secrets against the keyring s; reading fails for the users in F.
Hydrated(b, s, F) ==
    [b EXCEPT !.tok = [u \in Users |->
        IF b.tok[u] # 0 \/ b.gen[u] = 0 THEN b.tok[u] ELSE IF u \in F THEN 0 ELSE s[u]]]

Fault == faults < MaxFaults /\ faults' = faults + 1
NoFault == UNCHANGED faults

-----------------------------------------------------------------------------
(* The operations; r is what get returns, v what set is given. *)

Answers == {NoBucket} \cup IF file = NoBucket THEN {}
                           ELSE {[file EXCEPT !.tok = T] : T \in [Users -> MaybeToken]}

StorageGet(r) ==
    \/ /\ file = NoBucket
       /\ r = NoBucket
       /\ UNCHANGED storageVars
    \/ /\ file # NoBucket
       /\ secrets' = Written(file, WithToken(file))
       /\ file' = Stripped(file)
       /\ r = Hydrated(file', secrets', {})
       /\ NoFault

\* The lock fails (None); a migration stops half way and the plaintext is used;
\* it is written but not saved; keyring reads err.
StorageGetFault(r) ==
    /\ Fault
    /\ \/ r = NoBucket /\ UNCHANGED <<file, secrets>>
       \/ /\ file # NoBucket
          /\ \E W \in SUBSET WithToken(file), F \in SUBSET Stored(file) :
                /\ secrets' = Written(file, W)
                /\ \/ file' = file /\ r = Hydrated(file, secrets', F)
                   \/ /\ W = WithToken(file)
                      /\ file' \in {file, Stripped(file)}
                      /\ r = Hydrated(Stripped(file), secrets', F)

StorageSet(v) ==
    /\ secrets' = Written(v, WithToken(v))
    /\ file' = Stripped(v)
    /\ NoFault

\* set logs every error and returns (): some secrets are written, the file is not.
StorageSetFault(v) ==
    /\ Fault
    /\ \E W \in SUBSET WithToken(v) : secrets' = Written(v, W)
    /\ UNCHANGED file

WithoutSecrets(D) == [u \in Users |-> IF u \in D THEN 0 ELSE secrets[u]]

StorageDelete ==
    /\ secrets' = WithoutSecrets(Stored(file))
    /\ file' = NoBucket
    /\ NoFault

\* delete_secret ignores errors, so the file may go while secrets stay, or stay
\* (crash, failed save) when some secrets are gone.
StorageDeleteFault ==
    /\ Fault
    /\ \E D \in SUBSET Stored(file) : secrets' = WithoutSecrets(D)
    /\ file' \in {file, NoBucket}

\* load answers an unreadable file with an empty map; the next save of any
\* operation (entries always saves) then drops every bucket.
LoseFile ==
    /\ Fault
    /\ file' = NoBucket
    /\ UNCHANGED secrets

\* The user removes a credential with the operating system's own tools.
LoseSecret(u) ==
    /\ Fault
    /\ secrets[u] # 0
    /\ secrets' = [secrets EXCEPT ![u] = 0]
    /\ UNCHANGED file

-----------------------------------------------------------------------------
(* The most general client. *)

StorageInit ==
    /\ file \in MaybeBucket
    /\ WithToken(file) \subseteq Stored(file)
    /\ secrets \in [Users -> MaybeToken]
    /\ faults = 0

StorageNext ==
    \/ \E r \in Answers : StorageGet(r) \/ StorageGetFault(r)
    \/ \E v \in Bucket : /\ WithToken(v) = Stored(v)
                         /\ StorageSet(v) \/ StorageSetFault(v)
    \/ StorageDelete
    \/ StorageDeleteFault
    \/ LoseFile
    \/ \E u \in Users : LoseSecret(u)

StorageSpec == StorageInit /\ [][StorageNext]_storageVars

=============================================================================
