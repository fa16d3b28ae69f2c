---------------------------- MODULE StoreSession ----------------------------
(***************************************************************************)
(* The `shopify store` commands of several CLI processes sharing one       *)
(* stored session bucket: store/src/auth/session_store.rs (read_bucket,    *)
(* sanitize_bucket, set_/clear_stored_store_app_session), session_-        *)
(* lifecycle.rs (load_stored_store_session), existing_scopes.rs, auth/     *)
(* mod.rs and the callers that clear a session after a 401.                *)
(*                                                                         *)
(* Only a single storage operation is atomic: read_bucket and the set or   *)
(* delete that follows it take the lock twice, and refresh, browser login  *)
(* and Admin requests are awaited between them.                            *)
(***************************************************************************)
EXTENDS SessionStorage

CONSTANTS
    Procs,       \* CLI processes
    FirstToken,  \* the token pair each user was given before the behaviour starts
    Offline      \* token pairs issued without a refresh token

Seeded == Cardinality(Users)

ASSUME FirstTokenAssumption ==
    /\ IsFiniteSet(Users) /\ Users # {}
    /\ Seeded <= MaxToken
    /\ FirstToken \in [Users -> 1..Seeded]
    /\ \A u, v \in Users : FirstToken[u] = FirstToken[v] => u = v

VARIABLES
    kind,     \* the command each process runs: auth, login (auth with the code), execute, list
    stage,    \* the function of the command it is in
    step,     \* of read_bucket: get, fix (sanitize), go (the bucket is in raw)
    raw,      \* the bucket as the process last read it
    sess,     \* the session the process carries
    issued,   \* token pairs issued: 1..issued
    owner,    \* the user each pair was issued to
    expired   \* pairs whose expiresAt, less the margin, has passed

procVars == <<kind, stage, step, raw, sess>>
serverVars == <<issued, owner, expired>>
vars == <<storageVars, procVars, serverVars>>

Kinds == {"none", "auth", "login", "execute", "list"}
ReadStages == {"probe", "unwrap", "load", "put", "clear", "list"}
WaitStages == {"refresh", "browser", "use"}
Session == [user : Users, gen : MaybeToken, tok : MaybeToken]
NoSession == [user |-> CHOOSE u \in Users : TRUE, gen |-> 0, tok |-> 0]

Init ==
    /\ \E S \in SUBSET Users, P \in SUBSET Users, c \in Users :
          LET Pick(A) == [u \in Users |-> IF u \in A THEN FirstToken[u] ELSE 0]
          IN /\ file = IF S = {} THEN NoBucket
                       ELSE [current |-> c, gen |-> Pick(S), tok |-> Pick(S \cap P)]
             /\ secrets = Pick(S \ P)
    /\ faults = 0
    /\ kind = [p \in Procs |-> "none"]
    /\ stage = [p \in Procs |-> "idle"]
    /\ step = [p \in Procs |-> "go"]
    /\ raw = [p \in Procs |-> NoBucket]
    /\ sess = [p \in Procs |-> NoSession]
    /\ issued = Seeded
    /\ owner \in [1..Seeded -> Users]
    /\ \A u \in Users : owner[FirstToken[u]] = u
    /\ expired = {}

-----------------------------------------------------------------------------
(* read_bucket: storage.get, then sanitize_bucket *)

At(p, s) == stage[p] = s /\ step[p] = "go"

Goto(p, s) ==
    /\ stage' = [stage EXCEPT ![p] = s]
    /\ step' = [step EXCEPT ![p] = IF s \in ReadStages THEN "get" ELSE "go"]
    /\ raw' = [raw EXCEPT ![p] = NoBucket]

Complete(b) == Stored(b) = WithToken(b)

Get(p) ==
    /\ step[p] = "get"
    /\ \E r \in Answers :
          /\ StorageGet(r) \/ StorageGetFault(r)
          /\ raw' = [raw EXCEPT ![p] = r]
          /\ step' = [step EXCEPT ![p] = IF Complete(r) THEN "go" ELSE "fix"]
    /\ UNCHANGED <<kind, stage, sess, serverVars>>

Kept(b) == [b EXCEPT !.gen = [u \in Users |-> IF b.tok[u] = 0 THEN 0 ELSE b.gen[u]]]

\* sanitize_bucket drops the sessions without a token, or the whole bucket
\* when the current user's is one of them.
Fix(p) ==
    /\ step[p] = "fix"
    /\ \/ /\ raw[p].current \in WithToken(raw[p])
          /\ StorageSet(Kept(raw[p])) \/ StorageSetFault(Kept(raw[p]))
          /\ raw' = [raw EXCEPT ![p] = Kept(raw[p])]
       \/ /\ raw[p].current \notin WithToken(raw[p])
          /\ StorageDelete \/ StorageDeleteFault
          /\ raw' = [raw EXCEPT ![p] = NoBucket]
    /\ step' = [step EXCEPT ![p] = "go"]
    /\ UNCHANGED <<kind, stage, sess, serverVars>>

\* get_current_stored_store_app_session deletes a bucket whose current user is unknown.
Dangling(p) == raw[p] # NoBucket /\ raw[p].current \notin Stored(raw[p])

DropDangling(p) ==
    /\ stage[p] \in {"probe", "unwrap", "load"} /\ step[p] = "go"
    /\ Dangling(p)
    /\ StorageDelete \/ StorageDeleteFault
    /\ raw' = [raw EXCEPT ![p] = NoBucket]
    /\ UNCHANGED <<kind, stage, step, sess, serverVars>>

-----------------------------------------------------------------------------
(* The commands *)

Start(p) ==
    /\ At(p, "idle")
    /\ \/ kind' = [kind EXCEPT ![p] = "auth"] /\ Goto(p, "probe")
       \/ kind' = [kind EXCEPT ![p] = "execute"] /\ Goto(p, "load")
       \/ kind' = [kind EXCEPT ![p] = "list"] /\ Goto(p, "list")
    /\ UNCHANGED <<storageVars, sess, serverVars>>

\* Mutant: the finished command is not forgotten.
NoResetMutant(p) ==
    /\ UNCHANGED <<kind, sess>>
    /\ Goto(p, "idle")

Finish(p) ==
    /\ kind' = [kind EXCEPT ![p] = "none"]
    /\ sess' = [sess EXCEPT ![p] = NoSession]
    /\ Goto(p, "idle")

\* load_stored_store_session returns to its caller with session s, or without one.
Return(p, s) ==
    /\ sess' = [sess EXCEPT ![p] = s]
    /\ UNCHANGED kind
    /\ Goto(p, IF kind[p] = "auth" THEN "browser" ELSE "use")

NotLoaded(p) == IF kind[p] = "auth" THEN Return(p, NoSession) ELSE Finish(p)

List(p) == At(p, "list") /\ Finish(p) /\ UNCHANGED <<storageVars, serverVars>>

\* resolve_existing_store_auth_scopes: is there a session?
Probe(p) ==
    /\ At(p, "probe") /\ ~ Dangling(p)
    /\ Goto(p, IF raw[p] = NoBucket THEN "browser" ELSE "unwrap")
    /\ UNCHANGED <<storageVars, kind, sess, serverVars>>

\* ... then reads it again and unwraps: a panic when it has gone meanwhile.
Unwrap(p) ==
    /\ At(p, "unwrap") /\ ~ Dangling(p)
    /\ IF raw[p] = NoBucket THEN Finish(p)
       ELSE Goto(p, "load") /\ UNCHANGED <<kind, sess>>
    /\ UNCHANGED <<storageVars, serverVars>>

Load(p) ==
    /\ At(p, "load") /\ ~ Dangling(p)
    /\ \/ raw[p] = NoBucket /\ NotLoaded(p)
       \/ /\ raw[p] # NoBucket
          /\ LET u == raw[p].current
                 s == [user |-> u, gen |-> raw[p].gen[u], tok |-> raw[p].tok[u]]
             IN \/ s.gen \notin expired /\ Return(p, s)
                \/ s.gen \in expired /\ s.tok \in Offline /\ NotLoaded(p)
                \/ /\ s.gen \in expired /\ s.tok \notin Offline
                   /\ sess' = [sess EXCEPT ![p] = s]
                   /\ Goto(p, "refresh")
                   /\ UNCHANGED kind
    /\ UNCHANGED <<storageVars, serverVars>>

\* The server hands out pair t; the user it belongs to.
Issue(t, u) ==
    /\ t = issued + 1 /\ t <= MaxToken
    /\ issued' = t
    /\ owner' = [i \in 1..t |-> IF i = t THEN u ELSE owner[i]]
    /\ UNCHANGED expired

Refresh(p) ==
    /\ At(p, "refresh")
    /\ \/ \E t \in Token :
             /\ Issue(t, owner[sess[p].tok])
             /\ sess' = [sess EXCEPT ![p].gen = t, ![p].tok = t]
             /\ Goto(p, "put")
       \/ /\ Goto(p, "clear")  \* rejected, invalid, or the network failed
          /\ UNCHANGED <<sess, serverVars>>
    /\ UNCHANGED <<storageVars, kind>>

\* The callback and the code exchange succeed for some user, or auth ends.
Browser(p) ==
    /\ At(p, "browser")
    /\ \/ \E t \in Token, u \in Users :
             /\ Issue(t, u)
             /\ sess' = [sess EXCEPT ![p] = [user |-> u, gen |-> t, tok |-> t]]
             /\ kind' = [kind EXCEPT ![p] = "login"]
             /\ Goto(p, "put")
       \/ Finish(p) /\ UNCHANGED serverVars
    /\ UNCHANGED storageVars

\* Mutants: the other users are forgotten; the new token is not in the value.
OnlyNewMutant(b, s) ==
    [current |-> s.user,
     gen |-> [u \in Users |-> IF u = s.user THEN s.gen ELSE 0],
     tok |-> [u \in Users |-> IF u = s.user THEN s.tok ELSE 0]]
NoTokenMutant(b, s) ==
    LET Was(f) == IF b = NoBucket THEN [u \in Users |-> 0] ELSE f
    IN [current |-> s.user,
        gen |-> [Was(b.gen) EXCEPT ![s.user] = s.gen],
        tok |-> [Was(b.tok) EXCEPT ![s.user] = 0]]

\* The bucket of set_stored_store_app_session: what was read, plus the session.
With(b, s) ==
    LET Was(f) == IF b = NoBucket THEN [u \in Users |-> 0] ELSE f
    IN [current |-> s.user,
        gen |-> [Was(b.gen) EXCEPT ![s.user] = s.gen],
        tok |-> [Was(b.tok) EXCEPT ![s.user] = s.tok]]

Put(p) ==
    /\ At(p, "put")
    /\ StorageSet(With(raw[p], sess[p])) \/ StorageSetFault(With(raw[p], sess[p]))
    /\ IF kind[p] = "login" THEN Finish(p) ELSE Return(p, sess[p])
    /\ UNCHANGED serverVars

\* Mutant: the cleared user stays current.
KeepCurrentMutant(b, u) == {[b EXCEPT !.gen[u] = 0, !.tok[u] = 0]}

\* The buckets clear_stored_store_app_session may store: any user left is the new current.
Without(b, u) ==
    {[current |-> c, gen |-> [b.gen EXCEPT ![u] = 0], tok |-> [b.tok EXCEPT ![u] = 0]] :
        c \in IF b.current = u THEN Stored(b) \ {u} ELSE {b.current}}

Clear(p) ==
    /\ At(p, "clear")
    /\ LET u == sess[p].user IN
       \/ raw[p] = NoBucket /\ UNCHANGED storageVars
       \/ /\ raw[p] # NoBucket /\ Stored(raw[p]) \subseteq {u}
          /\ StorageDelete \/ StorageDeleteFault
       \/ /\ raw[p] # NoBucket /\ ~ Stored(raw[p]) \subseteq {u}
          /\ \E v \in Without(raw[p], u) : StorageSet(v) \/ StorageSetFault(v)
    /\ NotLoaded(p)
    /\ UNCHANGED serverVars

\* The Admin request succeeds, or its 401 clears the session.
Use(p) ==
    /\ At(p, "use")
    /\ \/ Finish(p)
       \/ Goto(p, "clear") /\ UNCHANGED <<kind, sess>>
    /\ UNCHANGED <<storageVars, serverVars>>

Crash(p) ==
    /\ stage[p] # "idle"
    /\ Finish(p)
    /\ UNCHANGED <<storageVars, serverVars>>

Expire(t) ==
    /\ t <= issued
    /\ expired' = expired \cup {t}
    /\ UNCHANGED <<storageVars, procVars, issued, owner>>

StorageFault ==
    /\ LoseFile \/ \E u \in Users : LoseSecret(u)
    /\ UNCHANGED <<procVars, serverVars>>

Next ==
    \/ \E p \in Procs : \/ Start(p) \/ Get(p) \/ Fix(p) \/ DropDangling(p)
                        \/ List(p) \/ Probe(p) \/ Unwrap(p) \/ Load(p)
                        \/ Refresh(p) \/ Browser(p) \/ Put(p) \/ Clear(p)
                        \/ Use(p) \/ Crash(p)
    \/ \E t \in Token : Expire(t)
    \/ StorageFault

Spec == Init /\ [][Next]_vars

-----------------------------------------------------------------------------
(* Properties *)

TypeOK ==
    /\ file \in MaybeBucket /\ WithToken(file) \subseteq Stored(file)
    /\ secrets \in [Users -> MaybeToken]
    /\ faults \in 0..MaxFaults
    /\ kind \in [Procs -> Kinds]
    /\ \A p \in Procs : kind[p] = "none" <=> stage[p] = "idle"
    /\ stage \in [Procs -> {"idle"} \cup ReadStages \cup WaitStages]
    /\ step \in [Procs -> {"get", "fix", "go"}]
    /\ raw \in [Procs -> MaybeBucket]
    /\ sess \in [Procs -> Session]
    /\ issued \in Seeded..MaxToken
    /\ owner \in [1..issued -> Users]
    /\ expired \subseteq 1..issued

Owned(u, t) == t # 0 => t \in 1..issued /\ owner[t] = u

\* No token is ever stored under, read for, or sent on behalf of a user it was
\* not issued to: secret_key names the user, and the stale buckets written back
\* by another process keep every token in its own session.
CredentialIsolation ==
    /\ \A u \in Users : Owned(u, secrets[u])
    /\ \A p \in Procs : stage[p] \in {"refresh", "use"} =>
          sess[p].tok # 0 /\ Owned(sess[p].user, sess[p].tok)

\* Without faults the metadata of a session and its credential are of the same
\* token pair, whatever the interleaving of the processes: expiresAt, scopes
\* and the token a command loads belong together.
Paired ==
    faults = 0 =>
        /\ \A u \in Stored(file) \ WithToken(file) : secrets[u] = file.gen[u]
        /\ \A p \in Procs : sess[p].tok = sess[p].gen

WellFormed(b) == b # NoBucket => b.current \in Stored(b)

\* No operation, stale or failing half way, turns a bucket whose current user
\* has a session into one whose currentUserId dangles, and a token that has
\* left the metadata file for the credential store never comes back to the
\* file in plain text.
NeverRegresses ==
    /\ [][WellFormed(file) => WellFormed(file')]_vars
    /\ [][WithToken(file') \subseteq WithToken(file)]_vars

\* No plaintext token is left to migrate, in the file or in a bucket that was
\* read before the file was lost.
Migrated == WithToken(file) = {} /\ (file = NoBucket => \A p \in Procs : raw[p] = NoBucket)

\* One process alone never replaces a stored credential by an older one, even
\* when storage operations fail half way, once no plaintext is left to migrate;
\* and without faults it loses a session only by clearing it after a refresh or
\* a request made with that very token pair has failed.  (Two processes can do
\* both: the set that ends a stale read_bucket writes all of its users.)
LosesOnlyRejected ==
    /\ [][Migrated => \A u \in Users : secrets'[u] = 0 \/ secrets'[u] >= secrets[u]]_vars
    /\ [][WellFormed(file) /\ faults' = 0 =>
            \A u \in Stored(file) \ Stored(file') :
                \E p \in Procs : /\ stage[p] = "clear"
                                 /\ sess[p].user = u
                                 /\ sess[p].gen = file.gen[u]]_vars

\* The commands use the bucket through the storage's atomic operations only.
\* (That nothing changed comes first as it is what TLC sees most often.)
StorageBehaviour == [][UNCHANGED storageVars \/ StorageNext]_storageVars

=============================================================================
