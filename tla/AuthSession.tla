----------------------------- MODULE AuthSession -----------------------------
(***************************************************************************)
(* The identity sessions of the CLI: session/mod.rs (ensure_authenticated_ *)
(* with_options), exchange.rs, device_authorization.rs, validate.rs,       *)
(* store.rs and the file under it, util/cache.rs.                          *)
(*                                                                         *)
(* A command reads the sessions, reads the current account, awaits a       *)
(* refresh or a device login, and writes the sessions it read, with the    *)
(* new one, back.  Every edit of the file loads it, truncates it and       *)
(* writes it again, without a lock.  Terminals do so at the same time, and *)
(* so do the tasks of one theme dev that refresh its session               *)
(* (start_dev_session_refresh, build_dev_session_refresh).                 *)
(***************************************************************************)
EXTENDS Naturals, Sequences, FiniteSets

CONSTANTS
    Accounts, Nobody,
    Unreadable,      \* a config.json that does not parse
    AdminStores,     \* stores whose Admin API is asked for
    CliProcs,        \* terminals and refreshing tasks, each with one command after the other
    MaxPairs,        \* bounds the token pairs
    MaxAuthFaults    \* bounds crashes, lost answers and failing writes

Shared == {"storefront", "business"}   \* application tokens without a store

ASSUME AuthAssumption ==
    /\ IsFiniteSet(Accounts) /\ Nobody \notin Accounts
    /\ AdminStores \cap Shared = {}
    /\ MaxPairs \in Nat /\ Cardinality(Accounts) <= MaxPairs

VARIABLES
    config,     \* config.json: sessions and current account, or Unreadable
    cmd,        \* the command each process runs, see Commands
    holder,     \* the account of each token pair issued
    live,       \* pairs that the server still refreshes
    overdue,    \* pairs that are past their expiry, less the margin
    stranded,   \* ghost: pairs a mishap, or a command behind another, leaves in the file
    mishaps

accountVars == <<holder, live, overdue>>
authVars == <<config, cmd, accountVars, stranded, mishaps>>

SignedOut == [pair |-> 0, apps |-> {}]
Sessions == [Accounts -> [pair : 0..MaxPairs, apps : SUBSET (AdminStores \cup Shared)]]
NoConfig == [sessions |-> [u \in Accounts |-> SignedOut], current |-> Nobody]
Files == [sessions : Sessions, current : Accounts \cup {Nobody}]

ASSUME UnreadableAssumption == Unreadable \notin Files

\* fresh: force_new_session, which only a login asks for.
Requests == [app : AdminStores \cup Shared, prompt : BOOLEAN, fresh : {FALSE}]
Login == [app |-> "business", prompt |-> TRUE, fresh |-> TRUE]

\* What a command asks for: one token, or a theme dev server's two.
Jobs ==
    {<<r>> : r \in Requests \cup {Login}}
    \cup {<<[app |-> s, prompt |-> TRUE, fresh |-> FALSE],
            [app |-> "storefront", prompt |-> FALSE, fresh |-> FALSE]>> : s \in AdminStores}

NoCommand ==
    [at |-> "idle",               \* where it is in ensure_authenticated_with_options
     todo |-> <<>>,               \* requests left, the first being worked on
     view |-> NoConfig.sessions,  \* the sessions it read
     user |-> Nobody,             \* the account it goes on with
     held |-> SignedOut,          \* the session it goes on with
     edits |-> <<>>,              \* edits of the file it has to make
     buffer |-> NoConfig,         \* the file as it is about to write it
     granted |-> Nobody,          \* the account of the tokens it was given
     adrift |-> FALSE,            \* ghost: the account in use was lost, or is not its own
     behind |-> FALSE]            \* ghost: another has written the file since it read it

\* Some accounts are logged in; their pairs are numbered, in any order.
Numbering == CHOOSE n \in [1..Cardinality(Accounts) -> Accounts] :
    \A u \in Accounts : \E i \in DOMAIN n : n[i] = u

AuthInit ==
    /\ holder = Numbering
    /\ \E logged \in SUBSET DOMAIN holder, c \in Accounts \cup {Nobody} :
          /\ c = Nobody \/ \E i \in logged : holder[i] = c
          /\ config = [current |-> c, sessions |-> [u \in Accounts |->
                 IF \E i \in logged : holder[i] = u
                 THEN [pair |-> CHOOSE i \in logged : holder[i] = u, apps |-> Shared] ELSE SignedOut]]
    /\ cmd = [p \in CliProcs |-> NoCommand]
    /\ live = DOMAIN holder /\ overdue = {} /\ stranded = {} /\ mishaps = 0

Mishap == mishaps < MaxAuthFaults /\ mishaps' = mishaps + 1
NoMishap == UNCHANGED mishaps
LocalStep == NoMishap /\ UNCHANGED <<config, accountVars, stranded>>

Becomes(p, c) == cmd' = [cmd EXCEPT ![p] = c]
Quit(p) == Becomes(p, NoCommand)

-----------------------------------------------------------------------------
(* The file *)

Readable == IF config = Unreadable THEN NoConfig ELSE config

\* Mutant: only the new session is saved.
NewOnlyMutant(sessions, u, s) ==
    <<[key |-> "sessions", value |-> [NoConfig.sessions EXCEPT ![u] = s]],
      [key |-> "current", value |-> u]>>
\* Mutant: the account in use stays what it was.
NoSwitchMutant(sessions, u, s) ==
    <<[key |-> "sessions", value |-> [sessions EXCEPT ![u] = s]]>>
\* Mutant: a session that is refreshed is not saved.
NotSavedMutant(sessions, u, s) ==
    (IF sessions[u] # SignedOut THEN <<>>
     ELSE <<[key |-> "sessions", value |-> [sessions EXCEPT ![u] = s]]>>)
    \o <<[key |-> "current", value |-> u]>>

\* store saves the sessions that were read with the new one, then the account.
Saving(sessions, u, s) ==
    <<[key |-> "sessions", value |-> [sessions EXCEPT ![u] = s]],
      [key |-> "current", value |-> u]>>

Removal == <<[key |-> "sessions", value |-> NoConfig.sessions],
             [key |-> "current", value |-> Nobody]>>

Editing(c, list) == [c EXCEPT !.edits = list, !.at = "load"]

\* After the last edit a command uses its session, unless it gave up.
Edited(p, failed) ==
    LET c == [cmd[p] EXCEPT !.edits = Tail(@), !.buffer = NoConfig, !.adrift = @ \/ failed]
    IN IF c.edits # <<>> THEN [c EXCEPT !.at = "load"]
       ELSE IF c.todo # <<>> THEN [c EXCEPT !.at = "grant"] ELSE NoCommand

\* Its session takes the place of one in the file, and is not there yet.
OnItsWay(c) == c.todo # <<>> /\ Len(c.edits) = 2

\* The pair that is left in the file, or in what was read of it, if p does not save.
Replaced(p) == (IF OnItsWay(cmd[p]) THEN {cmd[p].view[cmd[p].user].pair} ELSE {}) \ live

\* p goes on as c, and the file is what the others find in the place of theirs.
Rewrite(p, c, file) ==
    /\ config' = file
    /\ cmd' = [q \in CliProcs |->
           IF q = p THEN c
           ELSE IF cmd[q].at = "idle" THEN cmd[q]
           ELSE [cmd[q] EXCEPT !.behind = @ \/ cmd[p].at = "write",
                               !.adrift = @ \/ /\ Readable'.current # Readable.current
                                               /\ \/ cmd[q].at = "grant"
                                                  \/ cmd[q].granted # Nobody
                                                     /\ cmd[q].at \in {"fetch", "select"}]]

\* A file that does not parse is left as it is.
LoadFile(p) ==
    /\ cmd[p].at = "load"
    /\ IF config = Unreadable
       THEN Becomes(p, Edited(p, FALSE)) /\ stranded' = stranded \cup Replaced(p)
       ELSE LET e == Head(cmd[p].edits)
            IN /\ Becomes(p, [cmd[p] EXCEPT !.at = "truncate",
                                            !.buffer = [config EXCEPT ![e.key] = e.value]])
               /\ UNCHANGED stranded
    /\ NoMishap /\ UNCHANGED <<config, accountVars>>

Truncate(p) ==
    /\ cmd[p].at = "truncate"
    /\ Rewrite(p, [cmd[p] EXCEPT !.at = "write"], NoConfig)
    /\ NoMishap /\ UNCHANGED <<accountVars, stranded>>

\* What another wrote since the file was truncated may show behind a shorter text.
WriteConfig(p) ==
    /\ cmd[p].at = "write"
    /\ \E file \in {cmd[p].buffer} \cup (IF config = NoConfig THEN {} ELSE {Unreadable}) :
          Rewrite(p, Edited(p, FALSE), file)
    /\ stranded' = stranded \cup
           IF cmd[p].behind THEN {cmd[p].buffer.sessions[u].pair : u \in Accounts} \ live ELSE {}
    /\ NoMishap /\ UNCHANGED accountVars

\* The error of a write is ignored: the old file, none, or half of one is left.
FailWrite(p) ==
    /\ Mishap
    /\ \/ cmd[p].at = "truncate" /\ Rewrite(p, Edited(p, TRUE), config)
       \/ /\ cmd[p].at = "write"
          /\ \E file \in {NoConfig, Unreadable} : Rewrite(p, Edited(p, TRUE), file)
    /\ stranded' = stranded \cup Replaced(p)
    /\ UNCHANGED accountVars

-----------------------------------------------------------------------------
(* Commands *)

Begin(p) ==
    /\ cmd[p].at = "idle"
    /\ \E job \in Jobs : Becomes(p, [NoCommand EXCEPT !.at = "fetch", !.todo = job])
    /\ LocalStep

LogOut(p) ==
    /\ cmd[p].at = "idle"
    /\ Becomes(p, Editing(NoCommand, Removal))
    /\ LocalStep

\* prompt_session_select: an account of the file becomes the current one.
SwitchAccount(p, u) ==
    /\ cmd[p].at = "idle"
    /\ Readable.sessions[u] # SignedOut
    /\ Becomes(p, Editing(NoCommand, <<[key |-> "current", value |-> u]>>))
    /\ LocalStep

FetchSessions(p) ==
    /\ cmd[p].at = "fetch"
    /\ Becomes(p, [cmd[p] EXCEPT !.at = "select", !.view = Readable.sessions, !.behind = FALSE])
    /\ LocalStep

\* validate_session never looks at the token of the business platform.
Verdict(s, r) ==
    IF s = SignedOut THEN "login"
    ELSE IF s.pair \in overdue \/ (r.app # "business" /\ r.app \notin s.apps)
    THEN "refresh" ELSE "grant"

\* throw_on_no_prompt forgets all sessions.
FullAuth(c) ==
    IF Head(c.todo).prompt THEN [c EXCEPT !.at = "login"]
    ELSE Editing([c EXCEPT !.todo = <<>>], Removal)

\* Without a current account any account of the file will do.
SelectSession(p, u) ==
    /\ cmd[p].at = "select"
    /\ LET r == Head(cmd[p].todo)
           view == cmd[p].view
           known == {v \in Accounts : view[v] # SignedOut}
           s == IF u = Nobody \/ r.fresh THEN SignedOut ELSE view[u]
           lost == cmd[p].granted # Nobody /\ Readable.current = Nobody
           c == [cmd[p] EXCEPT !.user = u, !.held = s, !.at = Verdict(s, r), !.adrift = @ \/ lost]
       IN /\ \/ u = Readable.current /\ (u = Nobody => known = {})
             \/ Readable.current = Nobody /\ u \in known
          /\ Becomes(p, IF c.at = "login" THEN FullAuth(c) ELSE c)
    /\ LocalStep

\* A pair is issued to u, and with it the application tokens, some of which
\* may be refused: exchange_access_for_application_tokens logs that and goes on.
IssuePair(p, u) ==
    LET r == Head(cmd[p].todo)
        pair == Len(holder) + 1
        asked == Shared \cup ({r.app} \cap AdminStores)
    IN /\ pair <= MaxPairs
       /\ holder' = Append(holder, u)
       /\ \E refused \in SUBSET {r.app} :
             LET s == [pair |-> pair, apps |-> asked \ refused]
             IN /\ IF refused = {} THEN NoMishap ELSE Mishap
                /\ Becomes(p, Editing([cmd[p] EXCEPT !.user = u, !.held = s],
                                      Saving(cmd[p].view, u, s)))

\* A refresh token is good for one refresh.
RefreshSession(p) ==
    /\ cmd[p].at = "refresh"
    /\ cmd[p].held.pair \in live
    /\ IssuePair(p, cmd[p].user)
    /\ live' = (live \ {cmd[p].held.pair}) \cup {Len(holder) + 1}
    /\ UNCHANGED <<config, overdue, stranded>>

\* invalid_grant
RejectRefresh(p) ==
    /\ cmd[p].at = "refresh"
    /\ cmd[p].held.pair \notin live
    /\ Becomes(p, FullAuth(cmd[p]))
    /\ LocalStep

\* invalid_request
InvalidRefresh(p) ==
    /\ cmd[p].at = "refresh" /\ Mishap
    /\ Becomes(p, Editing([cmd[p] EXCEPT !.todo = <<>>], Removal))
    /\ UNCHANGED <<config, accountVars, stranded>>

\* The request fails, or its answer does: the server may have replaced the pair.
FailRefresh(p) ==
    /\ cmd[p].at = "refresh" /\ Mishap
    /\ Quit(p)
    /\ \/ UNCHANGED <<live, stranded>>
       \/ LET lost == {cmd[p].held.pair}
          IN live' = live \ lost /\ stranded' = stranded \cup lost
    /\ UNCHANGED <<config, holder, overdue>>

\* The user confirms the device as any account.
LogIn(p, u) ==
    /\ cmd[p].at = "login"
    /\ IssuePair(p, u)
    /\ live' = live \cup {Len(holder) + 1}
    /\ UNCHANGED <<config, overdue, stranded>>

\* Denied, expired, or a request that failed.
FailLogIn(p) ==
    /\ cmd[p].at = "login"
    /\ Quit(p)
    /\ LocalStep

\* tokens_for, and the MissingToken of its callers.
Grant(p) ==
    /\ cmd[p].at = "grant"
    /\ LET c == cmd[p]
       IN Becomes(p, IF Head(c.todo).app \notin c.held.apps \/ Len(c.todo) = 1 THEN NoCommand
                     ELSE [NoCommand EXCEPT !.at = "fetch", !.todo = Tail(c.todo),
                                       !.granted = holder[c.held.pair], !.adrift = c.adrift])
    /\ LocalStep

KillCommand(p) ==
    /\ cmd[p].at # "idle" /\ Mishap
    /\ Quit(p)
    /\ stranded' = stranded \cup Replaced(p)
    /\ UNCHANGED <<config, accountVars>>

ExpirePair(g) ==
    /\ overdue' = overdue \cup {g}
    /\ NoMishap /\ UNCHANGED <<config, cmd, holder, live, stranded>>

RevokePair(g) ==
    /\ g \in live /\ Mishap
    /\ live' = live \ {g} /\ stranded' = stranded \cup {g}
    /\ UNCHANGED <<config, cmd, holder, overdue>>

AuthNext ==
    \/ \E p \in CliProcs :
          \/ LoadFile(p) \/ Truncate(p) \/ WriteConfig(p) \/ FailWrite(p)
          \/ Begin(p) \/ LogOut(p) \/ FetchSessions(p) \/ Grant(p) \/ KillCommand(p)
          \/ RefreshSession(p) \/ RejectRefresh(p) \/ InvalidRefresh(p) \/ FailRefresh(p)
          \/ FailLogIn(p)
          \/ \E u \in Accounts : SwitchAccount(p, u) \/ LogIn(p, u)
          \/ \E u \in Accounts \cup {Nobody} : SelectSession(p, u)
    \/ \E g \in DOMAIN holder : ExpirePair(g) \/ RevokePair(g)

AuthSpec == AuthInit /\ [][AuthNext]_authVars

-----------------------------------------------------------------------------
(* Properties *)

AuthTypeOK ==
    /\ config \in Files \cup {Unreadable}
    /\ \A p \in CliProcs : LET c == cmd[p] IN
          /\ {c.adrift, c.behind} \subseteq BOOLEAN
          /\ c.at \in {"fetch", "select", "login", "refresh", "grant"} => c.todo # <<>>
          /\ c.at \in {"load", "truncate", "write"} <=> c.edits # <<>>
          /\ c.view \in Sessions /\ {c.user, c.granted} \subseteq Accounts \cup {Nobody}
          /\ c.held.pair \in {0} \cup DOMAIN holder /\ c.buffer \in Files
    /\ holder \in Seq(Accounts) /\ live \cup overdue \subseteq DOMAIN holder
    /\ stranded \subseteq {0} \cup DOMAIN holder /\ mishaps \in 0..MaxAuthFaults

\* The file as its reader will know it once the write under way is done.
Settled ==
    IF \E p \in CliProcs : cmd[p].at = "write"
    THEN cmd[CHOOSE p \in CliProcs : cmd[p].at = "write"].buffer ELSE Readable

Ledger == INSTANCE AccountLedger WITH
    accounts <- [u \in Accounts |-> Settled.sessions[u].pair],
    selected <- Settled.current

\* Commands that run one after the other, with no refreshing task beside them,
\* treat the file as a ledger of accounts (SessionStore): each step is one of the
\* ledger's, or none.
LedgerBehaviour ==
    Ledger!LedgerInit /\ [][UNCHANGED authVars \/ Ledger!LedgerNext]_(Ledger!ledgerVars)

\* The Admin and the storefront token of a dev server belong to one account
\* (build_dev_session_refresh asks for them one after the other), unless the
\* first request could not save its account, the second found none in use and
\* took any of the file's, or another command changed the account in between.
SameAccount ==
    \A p \in CliProcs : cmd[p].at = "grant" /\ cmd[p].granted # Nobody /\ ~cmd[p].adrift =>
        holder[cmd[p].held.pair] = cmd[p].granted

\* A session in the file can be refreshed, or the one that replaced it is on its
\* way to the file (ensure_authenticated_with_options stores after a refresh),
\* unless the new one was lost by a failure, or a command that had read the file
\* before another wrote it put an old session back.
StoredIsLive ==
    \A u \in Accounts :
        LET g == Readable.sessions[u].pair
        IN g \in live \cup stranded \cup {0}
           \/ \E p \in CliProcs : OnItsWay(cmd[p]) /\ cmd[p].user = u

\* "We've cleared the current session" (session/mod.rs:278): after a refresh
\* that was invalid the other accounts are still logged in.
ClearsCurrentOnly ==
    [][\A p \in CliProcs :
          cmd[p].at = "write" /\ cmd[p].edits = Removal /\ cmd[p].held # SignedOut /\ config' = cmd[p].buffer
          => \A u \in Accounts \ {cmd[p].user} :
                cmd[p].view[u] # SignedOut => Readable'.sessions[u] # SignedOut]_authVars
=============================================================================
