-------------------------- MODULE AuthDeploy_proofs --------------------------
(***************************************************************************)
(* Theorems about AuthSession, for any number of terminals and refreshing  *)
(* tasks at once, any accounts, stores and mishaps; and about Deploy, for  *)
(* any extensions and versions.                                            *)
(***************************************************************************)
EXTENDS AuthSession, Deploy, FiniteSetTheorems, SequenceTheorems, TLAPS

-----------------------------------------------------------------------------
(* The sessions of the account file *)

\* The request for the second token of a dev server.
Second == [app |-> "storefront", prompt |-> FALSE, fresh |-> FALSE]

\* A session is one of its account's, and says so.
OwnSessions(sessions) ==
    \A u \in Accounts : IF sessions[u].pair = 0 THEN sessions[u] = SignedOut
                        ELSE sessions[u].pair \in DOMAIN holder /\ holder[sessions[u].pair] = u

\* The server refreshes the pair, or it was lost, or a command that has replaced
\* it is about to save the new one.
Accounted == live \cup stranded \cup {0} \cup
             {cmd[p].view[cmd[p].user].pair : p \in {q \in CliProcs : OnItsWay(cmd[q])}}

\* The edits a command has left to make are a removal, a save, or the end of one.
LeftToEdit(c) ==
    \/ c.edits = <<>>
    \/ \E v \in Accounts \cup {Nobody} : /\ c.edits = <<[key |-> "current", value |-> v]>>
                                         /\ c.todo # <<>> => v = c.user
    \/ c.edits = Removal /\ c.todo = <<>>
    \/ c.edits = Saving(c.view, c.user, c.held) /\ c.todo # <<>>

\* Types.
HeldSession == [pair : 0..MaxPairs, apps : SUBSET (AdminStores \cup Shared)]
Request == [app : AdminStores \cup Shared, prompt : BOOLEAN, fresh : BOOLEAN]
Entry == [key : {"sessions", "current"}, value : Sessions \cup Accounts \cup {Nobody}]
Stage == {"idle", "fetch", "select", "login", "refresh", "grant", "load", "truncate", "write"}
Command == [at : Stage, todo : Seq(Request), view : Sessions, user : Accounts \cup {Nobody},
            held : HeldSession, edits : Seq(Entry), buffer : Files,
            granted : Accounts \cup {Nobody}, adrift : BOOLEAN, behind : BOOLEAN]

\* Where a command is in its requests and its edits.
CommandInv(c) ==
    /\ c \in Command
    /\ c.at \in {"load", "truncate", "write"} <=> c.edits # <<>>
    /\ c.at = "idle" => c = NoCommand
    /\ c.todo \in {<<>>} \cup Jobs
    /\ c.granted # Nobody => c.todo \in {<<>>, <<Second>>} /\ c.at # "login"
    /\ c.at \in {"fetch", "select", "login", "refresh", "grant"} => c.todo # <<>>
    /\ OwnSessions(c.view)
    /\ LeftToEdit(c)

\* The account and the session a command goes on with.
AccountInv(c) ==
    c.todo # <<>> /\ c.at \in {"refresh", "grant", "load", "truncate", "write"} =>
        /\ c.user \in Accounts
        /\ c.held.pair \in DOMAIN holder /\ holder[c.held.pair] = c.user
        /\ c.at = "refresh" => c.held = c.view[c.user]
        /\ OnItsWay(c) => c.held.pair # c.view[c.user].pair
        /\ c.granted # Nobody /\ ~c.adrift => c.user = c.granted

\* What it read is as sound as the file, until another has written the file.
ViewInv(c) ==
    (c.at \in {"select", "login", "refresh"} \/ OnItsWay(c)) /\ ~c.behind =>
        /\ \A u \in Accounts : c.view[u].pair \in Accounted
        /\ OnItsWay(c) => c.held.pair \in Accounted

\* So is what it is about to write.
BufferInv(c) ==
    c.at \in {"truncate", "write"} =>
        /\ OwnSessions(c.buffer.sessions)
        /\ c.todo # <<>> /\ Len(c.edits) = 1 => c.buffer.current = c.user
        /\ OnItsWay(c) => c.buffer.sessions[c.user] = c.held
        /\ ~c.behind => \A u \in Accounts : c.buffer.sessions[u].pair \in Accounted

\* The account in use is the one the command goes on with, if any is.
CurrentInv(c) ==
    c.todo # <<>> /\ ~c.adrift =>
        /\ c.at \in {"fetch", "select"} /\ c.granted # Nobody =>
               Readable.current \in {c.granted, Nobody}
        /\ c.at = "grant" => Readable.current \in {c.user, Nobody}

StepInv(c) == CommandInv(c) /\ AccountInv(c) /\ ViewInv(c) /\ BufferInv(c) /\ CurrentInv(c)

FileInv ==
    /\ config \in Files \cup {Unreadable} /\ OwnSessions(Readable.sessions)
    /\ \A u \in Accounts : Readable.sessions[u].pair \in Accounted

ServerInv ==
    /\ holder \in Seq(Accounts) /\ Len(holder) <= MaxPairs
    /\ live \subseteq DOMAIN holder

AuthInv ==
    /\ cmd = [q \in CliProcs |-> cmd[q]]
    /\ ServerInv /\ FileInv
    /\ \A q \in CliProcs : StepInv(cmd[q])

-----------------------------------------------------------------------------
(* Commands and the file *)

\* Sessions are a session for each account.
LEMMA SessionSets ==
    /\ Sessions = [Accounts -> HeldSession] /\ SignedOut \in HeldSession
    /\ NoConfig \in Files /\ NoConfig.sessions \in Sessions /\ NoConfig.current = Nobody
    /\ \A u \in Accounts : NoConfig.sessions[u] = SignedOut
    /\ SignedOut.pair = 0 /\ Nobody \notin Accounts /\ MaxPairs \in Nat
<1>1. MaxPairs \in Nat /\ Nobody \notin Accounts  BY AuthAssumption
<1>2. SignedOut \in HeldSession /\ SignedOut.pair = 0  BY <1>1 DEF SignedOut, HeldSession
<1>3. Sessions = [Accounts -> HeldSession]  BY DEF Sessions, HeldSession
<1>4. [u \in Accounts |-> SignedOut] \in Sessions  BY <1>2, <1>3
<1> QED  BY <1>1, <1>2, <1>3, <1>4 DEF NoConfig, Files

\* What a command asks for.
LEMMA JobShape ==
    /\ <<Second>> \in Jobs /\ Jobs \subseteq Seq(Request) /\ <<>> \in Seq(Request)
    /\ \A job \in Jobs : /\ job # <<>> /\ Head(job) \in Request
                         /\ Len(job) # 1 => Tail(job) = <<Second>>
<1>1. Requests \subseteq Request /\ Login \in Request /\ Second \in Requests
  BY DEF Requests, Request, Login, Second, Shared
<1>2. ASSUME NEW job \in Jobs
      PROVE  /\ job \in Seq(Request) /\ job # <<>> /\ Head(job) \in Request
             /\ Len(job) # 1 => Tail(job) = <<Second>>
  <2>1. CASE \E r \in Requests \cup {Login} : job = <<r>>
    <3>1. PICK r \in Request : job = <<r>>  BY <1>1, <2>1
    <3>2. job \in Seq(Request) /\ Len(job) = 1 /\ job # <<>> /\ Head(job) = r  BY <3>1
    <3> QED  BY <3>2
  <2>2. CASE \E s \in AdminStores :
                 job = <<[app |-> s, prompt |-> TRUE, fresh |-> FALSE], Second>>
    <3>1. PICK s \in AdminStores :
              job = <<[app |-> s, prompt |-> TRUE, fresh |-> FALSE], Second>>
      BY <2>2
    <3>2. [app |-> s, prompt |-> TRUE, fresh |-> FALSE] \in Request /\ Second \in Request
      BY <1>1 DEF Request
    <3>3. job \in Seq(Request) /\ job # <<>> /\ Head(job) \in Request /\ Tail(job) = <<Second>>
      BY <3>1, <3>2
    <3> QED  BY <3>3
  <2> QED  BY <2>1, <2>2 DEF Jobs, Second
<1>3. <<Second>> \in Jobs  BY <1>1 DEF Jobs
<1> QED  BY <1>2, <1>3

\* What one edit makes of the file.
LEMMA EditOfFile ==
    ASSUME NEW c0 \in Files
    PROVE  /\ \A s \in Sessions : /\ [c0 EXCEPT !["sessions"] = s] \in Files
                                  /\ [c0 EXCEPT !["sessions"] = s].sessions = s
                                  /\ [c0 EXCEPT !["sessions"] = s].current = c0.current
           /\ \A v \in Accounts \cup {Nobody} :
                                  /\ [c0 EXCEPT !["current"] = v] \in Files
                                  /\ [c0 EXCEPT !["current"] = v].sessions = c0.sessions
                                  /\ [c0 EXCEPT !["current"] = v].current = v
BY DEF Files

\* A save names the sessions read, with the new one, and its account.
LEMMA SavingShape ==
    ASSUME NEW view \in Sessions, NEW u \in Accounts, NEW s \in HeldSession
    PROVE  /\ Saving(view, u, s) \in Seq(Entry) /\ Len(Saving(view, u, s)) = 2
           /\ Saving(view, u, s) # <<>> /\ Saving(view, u, s) # Removal
           /\ Head(Saving(view, u, s)) = [key |-> "sessions", value |-> [view EXCEPT ![u] = s]]
           /\ Tail(Saving(view, u, s)) = <<[key |-> "current", value |-> u]>>
           /\ [view EXCEPT ![u] = s] \in Sessions
           /\ \A v \in Accounts : [view EXCEPT ![u] = s][v] = IF v = u THEN s ELSE view[v]
<1>1. /\ [view EXCEPT ![u] = s] \in Sessions
      /\ \A v \in Accounts : [view EXCEPT ![u] = s][v] = IF v = u THEN s ELSE view[v]
  BY SessionSets
<1>2. /\ [key |-> "sessions", value |-> [view EXCEPT ![u] = s]] \in Entry
      /\ [key |-> "current", value |-> u] \in Entry
  BY <1>1 DEF Entry
<1>3. Saving(view, u, s)[2].value = u  BY DEF Saving
<1>4. Removal[2].value = Nobody  BY DEF Removal
<1>5. Saving(view, u, s) # Removal  BY <1>3, <1>4, SessionSets
<1>6. /\ Saving(view, u, s) \in Seq(Entry) /\ Len(Saving(view, u, s)) = 2
      /\ Saving(view, u, s) # <<>>
      /\ Head(Saving(view, u, s)) = [key |-> "sessions", value |-> [view EXCEPT ![u] = s]]
      /\ Tail(Saving(view, u, s)) = <<[key |-> "current", value |-> u]>>
  BY <1>2 DEF Saving
<1> QED  BY <1>1, <1>5, <1>6

\* The account is saved last.
LEMMA SavingEnd ==
    ASSUME NEW view \in Sessions, NEW u \in Accounts, NEW s \in HeldSession
    PROVE  /\ Len(Saving(view, u, s)) = 2 /\ Saving(view, u, s) # <<>>
           /\ Tail(Saving(view, u, s)) = <<[key |-> "current", value |-> u]>>
BY SavingShape

\* A removal empties both.
LEMMA RemovalShape ==
    /\ Removal \in Seq(Entry) /\ Len(Removal) = 2 /\ Removal # <<>>
    /\ Head(Removal) = [key |-> "sessions", value |-> NoConfig.sessions]
    /\ Tail(Removal) = <<[key |-> "current", value |-> Nobody]>>
<1>1. /\ [key |-> "sessions", value |-> NoConfig.sessions] \in Entry
      /\ [key |-> "current", value |-> Nobody] \in Entry
  BY SessionSets DEF Entry
<1> QED  BY <1>1 DEF Removal

\* So does the end of either.
LEMMA LastEditShape ==
    ASSUME NEW v \in Accounts \cup {Nobody}
    PROVE  LET list == <<[key |-> "current", value |-> v]>> IN
           /\ list \in Seq(Entry) /\ Len(list) = 1 /\ list # <<>> /\ Tail(list) = <<>>
           /\ Head(list) = [key |-> "current", value |-> v]
<1>1. [key |-> "current", value |-> v] \in Entry  BY DEF Entry
<1> QED  BY <1>1

\* The fields of a command.
LEMMA CommandFields ==
    ASSUME NEW c \in Command
    PROVE  /\ c.at \in Stage /\ c.todo \in Seq(Request) /\ c.view \in Sessions
           /\ c.user \in Accounts \cup {Nobody} /\ c.held \in HeldSession
           /\ c.edits \in Seq(Entry) /\ c.buffer \in Files
           /\ c.granted \in Accounts \cup {Nobody} /\ c.adrift \in BOOLEAN /\ c.behind \in BOOLEAN
BY DEF Command

\* A terminal without a command.
LEMMA IdleCommand ==
    /\ NoCommand \in Command /\ NoCommand.at = "idle" /\ NoCommand.todo = <<>>
    /\ NoCommand.edits = <<>> /\ NoCommand.granted = Nobody /\ NoCommand.user = Nobody
    /\ NoCommand.view = NoConfig.sessions /\ ~NoCommand.adrift /\ ~NoCommand.behind
    /\ NoCommand.held = SignedOut /\ NoCommand.buffer = NoConfig /\ ~OnItsWay(NoCommand)
<1>1. <<>> \in Seq(Request) /\ <<>> \in Seq(Entry)  OBVIOUS
<1> QED  BY <1>1, SessionSets DEF NoCommand, Command, Stage, OnItsWay

\* The command a step leaves.
LEMMA BecomesIs ==
    ASSUME NEW p \in CliProcs, cmd = [q \in CliProcs |-> cmd[q]], NEW d, Becomes(p, d)
    PROVE  /\ cmd'[p] = d /\ cmd' = [q \in CliProcs |-> cmd'[q]]
           /\ \A q \in CliProcs \ {p} : cmd'[q] = cmd[q]
BY DEF Becomes

\* A command that edits nothing saves nothing.
LEMMA NotSaving ==
    ASSUME NEW c, CommandInv(c), c.at \notin {"load", "truncate", "write"}
    PROVE  ~OnItsWay(c) /\ c.edits = <<>>
<1>1. c.edits = <<>>  BY DEF CommandInv
<1>2. Len(<<>>) # 2  OBVIOUS
<1> QED  BY <1>1, <1>2 DEF OnItsWay

\* What is saved.
LEMMA SavingIs ==
    ASSUME NEW c, CommandInv(c), OnItsWay(c)
    PROVE  c.edits = Saving(c.view, c.user, c.held) /\ c.todo # <<>>
           /\ c.at \in {"load", "truncate", "write"}
<1>1. c.edits # <<>>  BY DEF OnItsWay
<1>2. \A v \in Accounts \cup {Nobody} : Len(<<[key |-> "current", value |-> v]>>) # 2  OBVIOUS
<1> QED  BY <1>1, <1>2 DEF OnItsWay, CommandInv, LeftToEdit

\* What a removed or empty file says of the sessions.
LEMMA EmptyFile ==
    /\ OwnSessions(NoConfig.sessions) /\ OwnSessions(NoConfig.sessions)'
    /\ \A u \in Accounts : NoConfig.sessions[u].pair \in Accounted
                          /\ NoConfig.sessions[u].pair \in Accounted'
BY SessionSets DEF OwnSessions, Accounted

\* What the file says has its types.
LEMMA ReadableFile ==
    ASSUME config \in Files \cup {Unreadable}
    PROVE  Readable \in Files /\ Readable.sessions \in Sessions
           /\ Readable.current \in Accounts \cup {Nobody}
BY SessionSets DEF Readable, Files

\* An idle terminal owes nothing.
LEMMA IdleInv == StepInv(NoCommand) /\ StepInv(NoCommand)'
<1>1. OwnSessions(NoCommand.view) /\ OwnSessions(NoCommand.view)'
  BY IdleCommand, EmptyFile DEF OwnSessions
<1>2. CommandInv(NoCommand) /\ CommandInv(NoCommand)'
  BY <1>1, IdleCommand DEF CommandInv, LeftToEdit
<1> QED  BY <1>2, IdleCommand DEF StepInv, AccountInv, ViewInv, BufferInv, CurrentInv

\* The pairs accounted for stay so: what is not issued any more is lost, or the
\* command that had it replaced still has it to save.
LEMMA AccountedStays ==
    ASSUME NEW p \in CliProcs,
           \A q \in CliProcs \ {p} : OnItsWay(cmd[q]) =>
               OnItsWay(cmd'[q]) /\ cmd'[q].view = cmd[q].view /\ cmd'[q].user = cmd[q].user,
           live \cup stranded \subseteq Accounted',
           OnItsWay(cmd[p]) => cmd[p].view[cmd[p].user].pair \in Accounted'
    PROVE  Accounted \subseteq Accounted'
<1> SUFFICES ASSUME NEW g \in Accounted  PROVE g \in Accounted'
  OBVIOUS
<1>1. CASE g \in live \cup stranded \cup {0}  BY <1>1 DEF Accounted
<1>2. CASE \E q \in CliProcs : OnItsWay(cmd[q]) /\ g = cmd[q].view[cmd[q].user].pair
  <2>1. PICK q \in CliProcs : OnItsWay(cmd[q]) /\ g = cmd[q].view[cmd[q].user].pair  BY <1>2
  <2>2. CASE q = p  BY <2>1, <2>2
  <2>3. CASE q # p
    <3>1. OnItsWay(cmd'[q]) /\ g = cmd'[q].view[cmd'[q].user].pair  BY <2>1, <2>3
    <3>2. OnItsWay(cmd[q])'  BY <3>1 DEF OnItsWay
    <3> QED  BY <3>1, <3>2 DEF Accounted
  <2> QED  BY <2>2, <2>3
<1> QED  BY <1>1, <1>2 DEF Accounted

\* What a command owes it still owes when more pairs are issued and accounted for.
LEMMA StaysInv ==
    ASSUME NEW c, StepInv(c), Accounted \subseteq Accounted', Readable'.current = Readable.current,
           \A i \in DOMAIN holder : i \in DOMAIN holder' /\ holder'[i] = holder[i]
    PROVE  StepInv(c)'
<1>1. CommandInv(c)'  BY DEF StepInv, CommandInv, OwnSessions
<1>2. AccountInv(c)'  BY DEF StepInv, AccountInv
<1>3. ViewInv(c)'  BY DEF StepInv, ViewInv
<1>4. BufferInv(c)'  BY DEF StepInv, BufferInv, OwnSessions
<1>5. CurrentInv(c)'  BY DEF StepInv, CurrentInv
<1> QED  BY <1>1, <1>2, <1>3, <1>4, <1>5 DEF StepInv

\* The invariant of a command's value is one of the command.
LEMMA ValueInv ==
    ASSUME NEW q, NEW e, cmd'[q] = e, StepInv(e)'
    PROVE  StepInv(cmd[q])'
<1>1. CommandInv(cmd[q])'
  BY DEF StepInv, CommandInv, LeftToEdit, OwnSessions, Saving, Removal
<1>2. AccountInv(cmd[q])'  BY DEF StepInv, AccountInv, OnItsWay
<1>3. ViewInv(cmd[q])'  BY DEF StepInv, ViewInv, OnItsWay
<1>4. BufferInv(cmd[q])'  BY DEF StepInv, BufferInv, OwnSessions, OnItsWay
<1>5. CurrentInv(cmd[q])'  BY DEF StepInv, CurrentInv
<1> QED  BY <1>1, <1>2, <1>3, <1>4, <1>5 DEF StepInv

\* A step of one command that leaves the file: the others are as they were.
LEMMA OwnFrame ==
    ASSUME NEW p \in CliProcs, AuthInv, NEW d, Becomes(p, d), config' = config,
           \A i \in DOMAIN holder : i \in DOMAIN holder' /\ holder'[i] = holder[i],
           live \cup stranded \subseteq Accounted',
           OnItsWay(cmd[p]) => cmd[p].view[cmd[p].user].pair \in Accounted',
           ServerInv',
           Accounted \subseteq Accounted' => StepInv(d)'
    PROVE  AuthInv'
<1>1. /\ cmd'[p] = d /\ cmd' = [q \in CliProcs |-> cmd'[q]]
      /\ \A q \in CliProcs \ {p} : cmd'[q] = cmd[q]
  BY BecomesIs DEF AuthInv
<1>2. Accounted \subseteq Accounted'  BY <1>1, AccountedStays
<1>3. Readable' = Readable  BY DEF Readable
<1>4. FileInv'  BY <1>2, <1>3 DEF AuthInv, FileInv, OwnSessions
<1>5. StepInv(cmd[p])'  BY <1>1, <1>2, ValueInv
<1>6. ASSUME NEW q \in CliProcs \ {p}  PROVE StepInv(cmd[q])'
  <2>1. PICK e : e = cmd[q]  OBVIOUS
  <2>2. StepInv(e)  BY <2>1 DEF AuthInv
  <2>3. StepInv(e)'  BY <1>2, <1>3, <2>2, StaysInv
  <2>4. cmd'[q] = e  BY <1>1, <2>1
  <2> QED  BY <2>3, <2>4, ValueInv
<1> QED  BY <1>1, <1>4, <1>5, <1>6 DEF AuthInv

\* So is the server, of most steps.
LEMMA LocalFrame ==
    ASSUME NEW p \in CliProcs, AuthInv, LocalStep, NEW d, Becomes(p, d), ~OnItsWay(cmd[p]),
           StepInv(d)
    PROVE  AuthInv'
<1>1. /\ config' = config /\ holder' = holder /\ live' = live /\ stranded' = stranded
  BY DEF LocalStep, accountVars
<1>2. ServerInv'  BY <1>1 DEF AuthInv, ServerInv
<1>3. live \cup stranded \subseteq Accounted'  BY <1>1 DEF Accounted
<1>4. Readable' = Readable  BY <1>1 DEF Readable
<1>5. Accounted \subseteq Accounted' => StepInv(d)'  BY <1>1, <1>4, StaysInv
<1> QED  BY <1>1, <1>2, <1>3, <1>5, OwnFrame

\* A step that writes, or empties, the file: the others are overtaken by it.
LEMMA RewriteFrame ==
    ASSUME NEW p \in CliProcs, AuthInv, NEW d, NEW file, Rewrite(p, d, file),
           holder' = holder, live' = live, stranded \subseteq stranded',
           \/ cmd[p].at = "write"
           \/ OnItsWay(cmd[p]) => cmd[p].view[cmd[p].user].pair \in Accounted',
           FileInv', StepInv(d)'
    PROVE  AuthInv'
<1>1. /\ cmd = [q \in CliProcs |-> cmd[q]] /\ cmd' = [q \in CliProcs |-> cmd'[q]]
      /\ cmd'[p] = d /\ config' = file
      /\ \A q \in CliProcs \ {p} : cmd'[q] =
             IF cmd[q].at = "idle" THEN cmd[q]
             ELSE [cmd[q] EXCEPT !.behind = @ \/ cmd[p].at = "write",
                                 !.adrift = @ \/ /\ Readable'.current # Readable.current
                                                 /\ \/ cmd[q].at = "grant"
                                                    \/ cmd[q].granted # Nobody
                                                       /\ cmd[q].at \in {"fetch", "select"}]
  BY DEF Rewrite, AuthInv
<1>2. ServerInv'  BY DEF AuthInv, ServerInv
<1>3. StepInv(cmd[p])'  BY <1>1, ValueInv
<1>4. ASSUME NEW q \in CliProcs \ {p}
      PROVE  \E e : /\ cmd'[q] = e
                    /\ e.at = cmd[q].at /\ e.todo = cmd[q].todo /\ e.view = cmd[q].view
                    /\ e.user = cmd[q].user /\ e.held = cmd[q].held /\ e.edits = cmd[q].edits
                    /\ e.buffer = cmd[q].buffer /\ e.granted = cmd[q].granted
                    /\ e \in Command /\ (cmd[q].at = "idle" => e = cmd[q])
                    /\ cmd[q].behind => e.behind
                    /\ cmd[p].at = "write" /\ cmd[q].at # "idle" => e.behind
                    /\ cmd[q].adrift => e.adrift
                    /\ \/ Readable'.current = Readable.current
                       \/ e.adrift
                       \/ e.at # "grant" /\ ~(e.granted # Nobody /\ e.at \in {"fetch", "select"})
  <2>1. PICK c : c = cmd[q]  OBVIOUS
  <2>2. c \in Command  BY <2>1 DEF AuthInv, StepInv, CommandInv
  <2>3. PICK old \in BOOLEAN : old = (c.behind \/ cmd[p].at = "write")  OBVIOUS
  <2>4. PICK off \in BOOLEAN :
            off = (c.adrift \/ /\ Readable'.current # Readable.current
                               /\ \/ c.at = "grant"
                                  \/ c.granted # Nobody /\ c.at \in {"fetch", "select"})
    OBVIOUS
  <2>5. cmd'[q] = IF c.at = "idle" THEN c ELSE [c EXCEPT !.behind = old, !.adrift = off]
    BY <1>1, <2>1, <2>3, <2>4
  <2>6. CASE c.at = "idle"  BY <2>1, <2>2, <2>5, <2>6
  <2>7. CASE c.at # "idle"
    <3>1. PICK e : e = [c EXCEPT !.behind = old, !.adrift = off]  OBVIOUS
    <3>2. cmd'[q] = e  BY <2>5, <2>7, <3>1
    <3>3. /\ e \in Command /\ e.at = c.at /\ e.todo = c.todo /\ e.view = c.view /\ e.user = c.user
          /\ e.held = c.held /\ e.edits = c.edits /\ e.buffer = c.buffer /\ e.granted = c.granted
          /\ e.behind = old /\ e.adrift = off
      BY <2>2, <3>1 DEF Command
    <3> QED  BY <2>1, <2>3, <2>4, <2>7, <3>2, <3>3
  <2> QED  BY <2>6, <2>7
<1>5. cmd[p].at = "write" \/ Accounted \subseteq Accounted'
  <2>1. live \cup stranded \subseteq Accounted'  BY DEF Accounted
  <2>2. \A q \in CliProcs \ {p} : OnItsWay(cmd[q]) =>
            OnItsWay(cmd'[q]) /\ cmd'[q].view = cmd[q].view /\ cmd'[q].user = cmd[q].user
    BY <1>4 DEF OnItsWay
  <2> QED  BY <2>1, <2>2, AccountedStays
<1>6. ASSUME NEW q \in CliProcs \ {p}  PROVE StepInv(cmd[q])'
  <2>1. PICK c : c = cmd[q]  OBVIOUS
  <2>2. PICK e : /\ cmd'[q] = e
                 /\ e.at = c.at /\ e.todo = c.todo /\ e.view = c.view
                 /\ e.user = c.user /\ e.held = c.held /\ e.edits = c.edits
                 /\ e.buffer = c.buffer /\ e.granted = c.granted
                 /\ e \in Command /\ (c.at = "idle" => e = c)
                 /\ c.behind => e.behind
                 /\ cmd[p].at = "write" /\ c.at # "idle" => e.behind
                 /\ c.adrift => e.adrift
                 /\ \/ Readable'.current = Readable.current
                    \/ e.adrift
                    \/ e.at # "grant" /\ ~(e.granted # Nobody /\ e.at \in {"fetch", "select"})
    BY <1>4, <2>1
  <2>3. StepInv(c)  BY <2>1 DEF AuthInv
  <2>4. CASE c.at = "idle"
    <3>1. e = NoCommand  BY <2>2, <2>3, <2>4 DEF StepInv, CommandInv
    <3> QED  BY <2>2, <3>1, IdleInv, ValueInv
  <2>5. CASE c.at # "idle"
    <3>1. LeftToEdit(e)  BY <2>2, <2>3 DEF StepInv, CommandInv, LeftToEdit
    <3>2. CommandInv(e)'
      BY <2>2, <2>3, <2>5, <3>1 DEF StepInv, CommandInv, OwnSessions
    <3>3. AccountInv(e)'  BY <2>2, <2>3 DEF StepInv, AccountInv, OnItsWay
    <3>4. ViewInv(e)'  BY <1>5, <2>2, <2>3, <2>5 DEF StepInv, ViewInv, OnItsWay
    <3>5. BufferInv(e)'
      BY <1>5, <2>2, <2>3, <2>5 DEF StepInv, BufferInv, OwnSessions, OnItsWay
    <3>6. CurrentInv(e)'  BY <2>2, <2>3 DEF StepInv, CurrentInv
    <3>7. StepInv(e)'  BY <3>2, <3>3, <3>4, <3>5, <3>6 DEF StepInv
    <3> QED  BY <2>2, <3>7, ValueInv
  <2> QED  BY <2>4, <2>5
<1> QED  BY <1>1, <1>2, <1>3, <1>6 DEF AuthInv

-----------------------------------------------------------------------------
(* Edits of the file *)

\* After an edit the next one is loaded, or the session is used, or all is done.
LEMMA EditedIs ==
    ASSUME NEW p \in CliProcs, NEW failed \in BOOLEAN, CommandInv(cmd[p]), AccountInv(cmd[p]),
           cmd[p].edits # <<>>
    PROVE  \E d : /\ d = Edited(p, failed) /\ CommandInv(d) /\ AccountInv(d)
                  /\ d.at \in {"idle", "load", "grant"} /\ ~OnItsWay(d)
                  /\ d.todo # <<>> => /\ cmd[p].todo # <<>> /\ d.user = cmd[p].user
                                      /\ d.adrift = (cmd[p].adrift \/ failed)
                                      /\ d.at = "grant" => Len(cmd[p].edits) = 1
<1>1. PICK c : c = cmd[p]  OBVIOUS
<1>2. /\ CommandInv(c) /\ AccountInv(c) /\ c.edits # <<>> /\ c \in Command
      /\ c.at \in {"load", "truncate", "write"}
  BY <1>1 DEF CommandInv
<1>3. /\ c.at \in Stage /\ c.todo \in Seq(Request) /\ c.view \in Sessions
      /\ c.user \in Accounts \cup {Nobody} /\ c.held \in HeldSession
      /\ c.edits \in Seq(Entry) /\ c.buffer \in Files
      /\ c.granted \in Accounts \cup {Nobody} /\ c.adrift \in BOOLEAN
  BY <1>2, CommandFields
<1>4. PICK f : f = [c EXCEPT !.edits = Tail(@), !.buffer = NoConfig, !.adrift = @ \/ failed]
  OBVIOUS
<1>5. /\ f.at = c.at /\ f.todo = c.todo /\ f.view = c.view /\ f.user = c.user
      /\ f.held = c.held /\ f.edits = Tail(c.edits) /\ f.buffer = NoConfig
      /\ f.granted = c.granted /\ f.adrift = (c.adrift \/ failed)
  BY <1>2, <1>4 DEF Command
<1>6. Tail(c.edits) \in Seq(Entry)  BY <1>2, <1>3
<1>7. f \in Command  BY <1>2, <1>4, <1>6, SessionSets DEF Command
<1>8. Edited(p, failed) = IF f.edits # <<>> THEN [f EXCEPT !.at = "load"]
                          ELSE IF f.todo # <<>> THEN [f EXCEPT !.at = "grant"] ELSE NoCommand
  BY <1>1, <1>4 DEF Edited
<1>9. /\ c.todo \in {<<>>} \cup Jobs /\ OwnSessions(c.view) /\ LeftToEdit(c)
      /\ c.granted # Nobody => c.todo \in {<<>>, <<Second>>}
  BY <1>2 DEF CommandInv
<1>10. \A stage \in {"load", "grant"} :
          LET d == [f EXCEPT !.at = stage] IN
          /\ d \in Command /\ d.at = stage /\ d.todo = c.todo /\ d.view = c.view /\ d.user = c.user
          /\ d.held = c.held /\ d.edits = f.edits
          /\ d.granted = c.granted /\ d.adrift = (c.adrift \/ failed)
  BY <1>5, <1>7 DEF Command, Stage
<1>11. c.todo # <<>> =>
          /\ c.user \in Accounts /\ c.held.pair \in DOMAIN holder /\ holder[c.held.pair] = c.user
          /\ c.granted # Nobody /\ ~c.adrift => c.user = c.granted
  BY <1>2 DEF AccountInv
\* The account is the last thing edited.
<1>12. CASE \E v \in Accounts \cup {Nobody} : c.edits = <<[key |-> "current", value |-> v]>>
  <2>1. Tail(c.edits) = <<>> /\ Len(c.edits) = 1  BY <1>12, LastEditShape
  <2>2. CASE c.todo # <<>>
    <3>1. PICK d : d = [f EXCEPT !.at = "grant"]  OBVIOUS
    <3>2. d = Edited(p, failed)  BY <1>5, <1>8, <2>1, <2>2, <3>1
    <3>3. /\ d \in Command /\ d.at = "grant" /\ d.todo = c.todo /\ d.view = c.view /\ d.user = c.user
          /\ d.held = c.held /\ d.edits = <<>>
          /\ d.granted = c.granted /\ d.adrift = (c.adrift \/ failed)
      BY <1>5, <1>10, <2>1, <3>1
    <3>4. CommandInv(d)  BY <1>9, <2>2, <3>3 DEF CommandInv, LeftToEdit
    <3>5. AccountInv(d)
      <4>1. ~OnItsWay(d)  BY <3>3, <3>4, NotSaving
      <4> QED  BY <1>3, <1>11, <2>2, <3>3, <4>1 DEF AccountInv
    <3> QED  BY <1>1, <2>1, <2>2, <3>2, <3>3, <3>4, <3>5, NotSaving
  <2>3. CASE c.todo = <<>>
    <3>1. NoCommand = Edited(p, failed)  BY <1>5, <1>8, <2>1, <2>3
    <3>2. OwnSessions(NoCommand.view)  BY IdleCommand, EmptyFile
    <3>3. CommandInv(NoCommand)
      BY <3>2, IdleCommand DEF CommandInv, LeftToEdit
    <3>4. AccountInv(NoCommand)  BY IdleCommand DEF AccountInv
    <3> QED  BY <3>1, <3>3, <3>4, IdleCommand
  <2> QED  BY <2>2, <2>3
\* The sessions come first, the account after them.
<1>13. CASE ~\E v \in Accounts \cup {Nobody} : c.edits = <<[key |-> "current", value |-> v]>>
  <2>1. \/ c.edits = Removal /\ c.todo = <<>>
        \/ c.edits = Saving(c.view, c.user, c.held) /\ c.todo # <<>>
    BY <1>2, <1>9, <1>13 DEF LeftToEdit
  <2>2. \E v \in Accounts \cup {Nobody} : /\ Tail(c.edits) = <<[key |-> "current", value |-> v]>>
                                          /\ c.todo # <<>> => v = c.user
    <3>1. CASE c.edits = Removal /\ c.todo = <<>>  BY <3>1, RemovalShape
    <3>2. CASE c.edits = Saving(c.view, c.user, c.held) /\ c.todo # <<>>
      <4>1. c.user \in Accounts /\ c.view \in Sessions /\ c.held \in HeldSession
        BY <1>3, <1>11, <3>2
      <4>2. Tail(Saving(c.view, c.user, c.held)) = <<[key |-> "current", value |-> c.user]>>
        BY <4>1, SavingEnd
      <4> QED  BY <3>2, <4>1, <4>2
    <3> QED  BY <2>1, <3>1, <3>2
  <2>3. PICK v \in Accounts \cup {Nobody} : /\ Tail(c.edits) = <<[key |-> "current", value |-> v]>>
                                            /\ c.todo # <<>> => v = c.user
    BY <2>2
  <2>4. Tail(c.edits) # <<>> /\ Len(Tail(c.edits)) = 1  BY <2>3, LastEditShape
  <2>5. PICK d : d = [f EXCEPT !.at = "load"]  OBVIOUS
  <2>6. d = Edited(p, failed)  BY <1>5, <1>8, <2>4, <2>5
  <2>7. /\ d \in Command /\ d.at = "load" /\ d.todo = c.todo /\ d.view = c.view /\ d.user = c.user
        /\ d.held = c.held /\ d.edits = Tail(c.edits)
        /\ d.granted = c.granted /\ d.adrift = (c.adrift \/ failed)
    BY <1>5, <1>10, <2>5
  <2>8. CommandInv(d)  BY <1>9, <2>3, <2>4, <2>7 DEF CommandInv, LeftToEdit
  <2>9. ~OnItsWay(d)
    <3>1. Len(d.edits) = 1  BY <2>4, <2>7
    <3> QED  BY <3>1 DEF OnItsWay
  <2>10. AccountInv(d)  BY <1>3, <1>11, <2>7, <2>9 DEF AccountInv
  <2> QED  BY <1>1, <2>6, <2>7, <2>8, <2>9, <2>10
<1> QED  BY <1>12, <1>13

\* The edit to make is of the account, of no sessions, or of those read with the new one.
LEMMA NextEdit ==
    ASSUME NEW c, CommandInv(c), AccountInv(c), c.edits # <<>>
    PROVE  \/ /\ Len(c.edits) = 1
              /\ \E v \in Accounts \cup {Nobody} :
                    /\ Head(c.edits) = [key |-> "current", value |-> v]
                    /\ c.todo # <<>> => v = c.user
           \/ /\ Len(c.edits) = 2 /\ c.todo = <<>>
              /\ Head(c.edits) = [key |-> "sessions", value |-> NoConfig.sessions]
           \/ /\ Len(c.edits) = 2 /\ c.todo # <<>> /\ c.edits = Saving(c.view, c.user, c.held)
              /\ Head(c.edits) = [key |-> "sessions", value |-> [c.view EXCEPT ![c.user] = c.held]]
              /\ c.user \in Accounts /\ c.view \in Sessions /\ c.held \in HeldSession
              /\ [c.view EXCEPT ![c.user] = c.held] \in Sessions
<1>1. /\ c \in Command /\ LeftToEdit(c) /\ c.at \in {"load", "truncate", "write"}
  BY DEF CommandInv
<1>2. c.view \in Sessions /\ c.held \in HeldSession /\ c.user \in Accounts \cup {Nobody}
  BY <1>1, CommandFields
<1>3. CASE \E v \in Accounts \cup {Nobody} : /\ c.edits = <<[key |-> "current", value |-> v]>>
                                             /\ c.todo # <<>> => v = c.user
  <2>1. PICK v \in Accounts \cup {Nobody} : /\ c.edits = <<[key |-> "current", value |-> v]>>
                                            /\ c.todo # <<>> => v = c.user
    BY <1>3
  <2>2. Len(c.edits) = 1 /\ Head(c.edits) = [key |-> "current", value |-> v]
    BY <2>1, LastEditShape
  <2> QED  BY <2>1, <2>2
<1>4. CASE c.edits = Removal /\ c.todo = <<>>  BY <1>4, RemovalShape
<1>5. CASE c.edits = Saving(c.view, c.user, c.held) /\ c.todo # <<>>
  <2>1. c.user \in Accounts  BY <1>1, <1>5 DEF AccountInv
  <2>2. Len(Saving(c.view, c.user, c.held)) = 2  BY <1>2, <2>1, SavingEnd
  <2>3. /\ Head(Saving(c.view, c.user, c.held))
             = [key |-> "sessions", value |-> [c.view EXCEPT ![c.user] = c.held]]
    BY DEF Saving
  <2>4. [c.view EXCEPT ![c.user] = c.held] \in Sessions  BY <1>2, <2>1, SessionSets
  <2> QED  BY <1>2, <1>5, <2>1, <2>2, <2>3, <2>4
<1> QED  BY <1>1, <1>3, <1>4, <1>5 DEF LeftToEdit

\* The file with the edit made is a file.
LEMMA EditKeepsFile ==
    ASSUME NEW c, CommandInv(c), AccountInv(c), c.edits # <<>>, NEW f \in Files
    PROVE  LET e == Head(c.edits)
               g == [f EXCEPT ![e.key] = e.value]
           IN /\ g \in Files
              /\ \/ Len(c.edits) = 1 /\ g.sessions = f.sessions /\ (c.todo # <<>> => g.current = c.user)
                 \/ Len(c.edits) = 2 /\ g.sessions = NoConfig.sessions /\ g.current = f.current
                    /\ c.todo = <<>>
                 \/ Len(c.edits) = 2 /\ g.sessions = [c.view EXCEPT ![c.user] = c.held]
                    /\ g.current = f.current /\ c.todo # <<>> /\ c.edits = Saving(c.view, c.user, c.held)
<1>1. CASE /\ Len(c.edits) = 1
           /\ \E v \in Accounts \cup {Nobody} :
                    /\ Head(c.edits) = [key |-> "current", value |-> v]
                    /\ c.todo # <<>> => v = c.user
  <2>1. PICK v \in Accounts \cup {Nobody} : /\ Head(c.edits) = [key |-> "current", value |-> v]
                                            /\ c.todo # <<>> => v = c.user
    BY <1>1
  <2>2. Head(c.edits).key = "current" /\ Head(c.edits).value = v  BY <2>1
  <2> QED  BY <1>1, <2>1, <2>2, EditOfFile
<1>2. CASE /\ Len(c.edits) = 2 /\ c.todo = <<>>
           /\ Head(c.edits) = [key |-> "sessions", value |-> NoConfig.sessions]
  <2>1. Head(c.edits).key = "sessions" /\ Head(c.edits).value = NoConfig.sessions  BY <1>2
  <2> QED  BY <1>2, <2>1, EditOfFile, SessionSets
<1>3. CASE /\ Len(c.edits) = 2 /\ c.todo # <<>> /\ c.edits = Saving(c.view, c.user, c.held)
           /\ Head(c.edits) = [key |-> "sessions", value |-> [c.view EXCEPT ![c.user] = c.held]]
           /\ [c.view EXCEPT ![c.user] = c.held] \in Sessions
  <2>1. PICK s : s = [c.view EXCEPT ![c.user] = c.held]  OBVIOUS
  <2>2. Head(c.edits).key = "sessions" /\ Head(c.edits).value = s /\ s \in Sessions  BY <1>3, <2>1
  <2>3. LET g == [f EXCEPT !["sessions"] = s]
        IN g \in Files /\ g.sessions = s /\ g.current = f.current
    BY <2>2, EditOfFile
  <2> QED  BY <1>3, <2>1, <2>2, <2>3
<1> QED  BY <1>1, <1>2, <1>3, NextEdit

\* What a command that has edited the file owes.
LEMMA AfterEditInv ==
    ASSUME NEW d, CommandInv(d)', AccountInv(d)', d.at \in {"idle", "load", "grant"}, ~OnItsWay(d),
           d.at = "grant" /\ d.todo # <<>> /\ ~d.adrift => Readable'.current \in {d.user, Nobody}
    PROVE  StepInv(d)'
<1>1. ViewInv(d)'  BY DEF ViewInv
<1>2. BufferInv(d)'  BY DEF BufferInv
<1>3. CurrentInv(d)'  BY DEF CurrentInv
<1> QED  BY <1>1, <1>2, <1>3 DEF StepInv

\* The pair that a command replaces is accounted for when it gives up.
LEMMA ReplacedStays ==
    ASSUME NEW p \in CliProcs, live' = live, stranded' = stranded \cup Replaced(p)
    PROVE  /\ live \cup stranded \subseteq Accounted'
           /\ OnItsWay(cmd[p]) => cmd[p].view[cmd[p].user].pair \in Accounted'
BY DEF Accounted, Replaced

\* A command that is overtaken keeps what it has to save.
LEMMA OthersSave ==
    ASSUME NEW p \in CliProcs, AuthInv, NEW d, NEW file, Rewrite(p, d, file),
           NEW q \in CliProcs \ {p}, OnItsWay(cmd[q])
    PROVE  OnItsWay(cmd'[q]) /\ cmd'[q].view = cmd[q].view /\ cmd'[q].user = cmd[q].user
<1>1. PICK e : e = cmd[q]  OBVIOUS
<1>2. e \in Command  BY <1>1 DEF AuthInv, StepInv, CommandInv
<1>3. \E old, off \in BOOLEAN : cmd'[q] = e \/ cmd'[q] = [e EXCEPT !.behind = old, !.adrift = off]
  BY <1>1 DEF Rewrite
<1>4. cmd'[q].view = e.view /\ cmd'[q].user = e.user /\ cmd'[q].todo = e.todo /\ cmd'[q].edits = e.edits
  BY <1>2, <1>3 DEF Command
<1> QED  BY <1>1, <1>4 DEF OnItsWay

\* A half-written file says nothing to its reader; a loaded one is edited.
LEMMA LoadFileKeeps ==
    ASSUME NEW p \in CliProcs, AuthInv, LoadFile(p)
    PROVE  AuthInv'
<1>1. PICK c : c = cmd[p]  OBVIOUS
<1>2. /\ StepInv(c) /\ CommandInv(c) /\ AccountInv(c) /\ c.at = "load" /\ c.edits # <<>>
      /\ c \in Command /\ FileInv /\ ServerInv
      /\ config' = config /\ holder' = holder /\ live' = live
  BY <1>1 DEF AuthInv, LoadFile, CommandInv, StepInv, accountVars
<1>3. ServerInv' /\ Readable' = Readable  BY <1>2 DEF ServerInv, Readable
<1>4. CASE config = Unreadable
  <2>1. Becomes(p, Edited(p, FALSE)) /\ stranded' = stranded \cup Replaced(p)
    BY <1>4 DEF LoadFile
  <2>2. PICK d : /\ d = Edited(p, FALSE) /\ CommandInv(d) /\ AccountInv(d)
                 /\ d.at \in {"idle", "load", "grant"} /\ ~OnItsWay(d)
    BY <1>1, <1>2, EditedIs
  <2>3. Readable.current = Nobody  BY <1>4, SessionSets DEF Readable
  <2>4. CommandInv(d)'  BY <1>2, <2>2 DEF CommandInv, OwnSessions
  <2>5. AccountInv(d)'  BY <1>2, <2>2 DEF AccountInv
  <2>6. StepInv(d)'  BY <1>3, <2>2, <2>3, <2>4, <2>5, AfterEditInv
  <2>7. /\ live \cup stranded \subseteq Accounted'
        /\ OnItsWay(cmd[p]) => cmd[p].view[cmd[p].user].pair \in Accounted'
    BY <1>2, <2>1, ReplacedStays
  <2> QED  BY <1>2, <1>3, <2>1, <2>2, <2>6, <2>7, OwnFrame
<1>5. CASE config # Unreadable
  <2>1. PICK g : g = [config EXCEPT ![Head(c.edits).key] = Head(c.edits).value]  OBVIOUS
  <2>2. PICK d : d = [c EXCEPT !.at = "truncate", !.buffer = g]  OBVIOUS
  <2>3. Becomes(p, d) /\ stranded' = stranded  BY <1>1, <1>5, <2>1, <2>2 DEF LoadFile
  <2>4. config \in Files /\ Readable = config  BY <1>2, <1>5 DEF FileInv, Readable
  <2>5. /\ g \in Files
        /\ \/ Len(c.edits) = 1 /\ g.sessions = config.sessions /\ (c.todo # <<>> => g.current = c.user)
           \/ Len(c.edits) = 2 /\ g.sessions = NoConfig.sessions /\ c.todo = <<>>
           \/ Len(c.edits) = 2 /\ g.sessions = [c.view EXCEPT ![c.user] = c.held]
              /\ c.todo # <<>> /\ c.edits = Saving(c.view, c.user, c.held)
    BY <1>2, <2>1, <2>4, EditKeepsFile
  <2>6. /\ d \in Command /\ d.at = "truncate" /\ d.todo = c.todo /\ d.view = c.view /\ d.user = c.user
        /\ d.held = c.held /\ d.edits = c.edits /\ d.buffer = g
        /\ d.granted = c.granted /\ d.adrift = c.adrift /\ d.behind = c.behind
    BY <1>2, <2>2, <2>5 DEF Command, Stage
  <2>7. OnItsWay(d) = OnItsWay(c)  BY <2>6 DEF OnItsWay
  <2>8. CommandInv(d)  BY <1>2, <2>6 DEF CommandInv, LeftToEdit
  <2>9. AccountInv(d)  BY <1>2, <2>6, <2>7 DEF AccountInv
  <2>10. ViewInv(d)  BY <1>2, <2>6, <2>7 DEF ViewInv, StepInv
  <2>11. BufferInv(d)
    <3>1. CASE Len(c.edits) = 1 /\ g.sessions = config.sessions /\ (c.todo # <<>> => g.current = c.user)
      BY <1>2, <2>4, <2>6, <3>1 DEF BufferInv, FileInv, OnItsWay
    <3>2. CASE Len(c.edits) = 2 /\ g.sessions = NoConfig.sessions /\ c.todo = <<>>
      BY <2>6, <3>2, EmptyFile DEF BufferInv, OnItsWay
    <3>3. CASE Len(c.edits) = 2 /\ g.sessions = [c.view EXCEPT ![c.user] = c.held] /\ c.todo # <<>>
      <4>1. /\ c.user \in Accounts /\ c.view \in Sessions
            /\ c.held.pair \in DOMAIN holder /\ holder[c.held.pair] = c.user
        BY <1>2, <3>3, CommandFields DEF AccountInv
      <4>2. \A u \in Accounts : g.sessions[u] = IF u = c.user THEN c.held ELSE c.view[u]
        BY <3>3, <4>1, SessionSets
      <4>3. c.held.pair # 0  BY <1>2, <4>1 DEF ServerInv
      <4>4. OnItsWay(c)  BY <3>3 DEF OnItsWay
      <4>5. OwnSessions(g.sessions)  BY <1>2, <4>1, <4>2, <4>3 DEF OwnSessions, CommandInv
      <4>6. ~c.behind => \A u \in Accounts : g.sessions[u].pair \in Accounted
        BY <1>2, <4>2, <4>4 DEF StepInv, ViewInv
      <4> QED  BY <2>6, <3>3, <4>1, <4>2, <4>5, <4>6 DEF BufferInv
    <3> QED  BY <2>5, <3>1, <3>2, <3>3
  <2>12. CurrentInv(d)  BY <2>6 DEF CurrentInv
  <2>13. StepInv(d)  BY <2>8, <2>9, <2>10, <2>11, <2>12 DEF StepInv
  <2>14. cmd'[p] = d  BY <2>3, BecomesIs DEF AuthInv
  <2>15. OnItsWay(c) => c.view[c.user].pair \in Accounted'
    <3>1. SUFFICES ASSUME OnItsWay(c)  PROVE c.view[c.user].pair \in Accounted'  OBVIOUS
    <3>2. OnItsWay(cmd[p])'  BY <2>6, <2>7, <2>14, <3>1 DEF OnItsWay
    <3> QED  BY <2>6, <2>14, <3>2 DEF Accounted
  <2>16. live \cup stranded \subseteq Accounted'  BY <1>2, <2>3 DEF Accounted
  <2>17. Accounted \subseteq Accounted' => StepInv(d)'  BY <1>2, <1>3, <2>13, StaysInv
  <2> QED  BY <1>1, <1>2, <1>3, <2>3, <2>15, <2>16, <2>17, OwnFrame
<1> QED  BY <1>4, <1>5

\* An empty file says nothing; what was loaded is still to be written.
LEMMA TruncateKeeps ==
    ASSUME NEW p \in CliProcs, AuthInv, Truncate(p)
    PROVE  AuthInv'
<1>1. PICK c : c = cmd[p]  OBVIOUS
<1>2. PICK d : d = [c EXCEPT !.at = "write"]  OBVIOUS
<1>3. /\ StepInv(c) /\ CommandInv(c) /\ c.at = "truncate" /\ c \in Command
      /\ Rewrite(p, d, NoConfig) /\ holder' = holder /\ live' = live /\ stranded' = stranded
  BY <1>1, <1>2 DEF AuthInv, Truncate, CommandInv, StepInv, accountVars
<1>4. /\ d \in Command /\ d.at = "write" /\ d.todo = c.todo /\ d.view = c.view /\ d.user = c.user
      /\ d.held = c.held /\ d.edits = c.edits /\ d.buffer = c.buffer
      /\ d.granted = c.granted /\ d.adrift = c.adrift /\ d.behind = c.behind
  BY <1>2, <1>3 DEF Command, Stage
<1>5. OnItsWay(d) = OnItsWay(c)  BY <1>4 DEF OnItsWay
<1>6. config' = NoConfig /\ Readable' = NoConfig
  BY <1>3, SessionSets, UnreadableAssumption DEF Rewrite, Readable
<1>7. FileInv'  BY <1>6, SessionSets, EmptyFile DEF FileInv, OwnSessions
<1>8. cmd'[p] = d  BY <1>3 DEF Rewrite, AuthInv
<1>9. OnItsWay(c) => c.view[c.user].pair \in Accounted'
  <2>1. SUFFICES ASSUME OnItsWay(c)  PROVE c.view[c.user].pair \in Accounted'  OBVIOUS
  <2>2. OnItsWay(cmd[p])'  BY <1>5, <1>8, <2>1 DEF OnItsWay
  <2> QED  BY <1>4, <1>8, <2>2 DEF Accounted
<1>10. Accounted \subseteq Accounted'
  <2>1. live \cup stranded \subseteq Accounted'  BY <1>3 DEF Accounted
  <2> QED  BY <1>1, <1>3, <1>9, <2>1, OthersSave, AccountedStays
<1>11. CommandInv(d)'  BY <1>3, <1>4 DEF CommandInv, LeftToEdit, OwnSessions
<1>12. AccountInv(d)'  BY <1>3, <1>4, <1>5 DEF AccountInv, StepInv
<1>13. ViewInv(d)'  BY <1>3, <1>4, <1>5, <1>10 DEF ViewInv, StepInv
<1>14. BufferInv(d)'  BY <1>3, <1>4, <1>5, <1>10 DEF BufferInv, StepInv, OwnSessions
<1>15. CurrentInv(d)'  BY <1>4 DEF CurrentInv
<1>16. StepInv(d)'  BY <1>11, <1>12, <1>13, <1>14, <1>15 DEF StepInv
<1> QED  BY <1>1, <1>3, <1>7, <1>9, <1>16, RewriteFrame

\* What is written is the file, or what is left of two.
LEMMA WriteConfigKeeps ==
    ASSUME NEW p \in CliProcs, AuthInv, WriteConfig(p)
    PROVE  AuthInv'
<1>1. PICK c : c = cmd[p]  OBVIOUS
<1>2. /\ StepInv(c) /\ CommandInv(c) /\ AccountInv(c) /\ BufferInv(c) /\ c.at = "write"
      /\ c.edits # <<>> /\ c \in Command /\ c.buffer \in Files /\ FileInv
      /\ holder' = holder /\ live' = live /\ stranded \subseteq stranded'
      /\ c.behind => {c.buffer.sessions[u].pair : u \in Accounts} \ live \subseteq stranded'
  BY <1>1, CommandFields DEF AuthInv, WriteConfig, CommandInv, StepInv, accountVars
<1>3. PICK file \in {c.buffer, Unreadable} : Rewrite(p, Edited(p, FALSE), file)
  BY <1>1 DEF WriteConfig
<1>4. PICK d : /\ d = Edited(p, FALSE) /\ CommandInv(d) /\ AccountInv(d)
               /\ d.at \in {"idle", "load", "grant"} /\ ~OnItsWay(d)
               /\ d.todo # <<>> => /\ c.todo # <<>> /\ d.user = c.user
                                   /\ d.at = "grant" => Len(c.edits) = 1
  BY <1>1, <1>2, EditedIs
<1>5. config' = file /\ Readable' \in {c.buffer, NoConfig}
  BY <1>2, <1>3, UnreadableAssumption DEF Readable, Rewrite
<1>6. d.at = "grant" /\ d.todo # <<>> /\ ~d.adrift => Readable'.current \in {d.user, Nobody}
  BY <1>2, <1>4, <1>5, SessionSets DEF BufferInv
<1>7. CommandInv(d)' /\ AccountInv(d)'  BY <1>2, <1>4 DEF CommandInv, OwnSessions, AccountInv
<1>8. StepInv(d)'  BY <1>4, <1>6, <1>7, AfterEditInv
<1>9. ASSUME NEW u \in Accounts  PROVE c.buffer.sessions[u].pair \in Accounted'
  <2>1. PICK g : g = c.buffer.sessions[u].pair  OBVIOUS
  <2>2. live \cup stranded' \cup {0} \subseteq Accounted'  BY <1>2 DEF Accounted
  <2>3. CASE c.behind  BY <1>2, <2>1, <2>2, <2>3
  <2>4. CASE ~c.behind
    <3>1. g \in Accounted  BY <1>2, <2>1, <2>4 DEF BufferInv
    <3>2. CASE g \in live \cup stranded \cup {0}  BY <1>2, <2>1, <2>2, <3>2
    <3>3. CASE \E q \in CliProcs : OnItsWay(cmd[q]) /\ g = cmd[q].view[cmd[q].user].pair
      <4>1. PICK q \in CliProcs : OnItsWay(cmd[q]) /\ g = cmd[q].view[cmd[q].user].pair  BY <3>3
      <4>2. CASE q # p
        <5>1. OnItsWay(cmd'[q]) /\ g = cmd'[q].view[cmd'[q].user].pair
          BY <1>3, <4>1, <4>2, OthersSave
        <5>2. OnItsWay(cmd[q])'  BY <5>1 DEF OnItsWay
        <5> QED  BY <2>1, <5>1, <5>2 DEF Accounted
      <4>3. CASE q = p
        <5>1. OnItsWay(c) /\ g = c.view[c.user].pair  BY <1>1, <4>1, <4>3
        <5>2. c.todo # <<>>  BY <5>1 DEF OnItsWay
        <5>3. /\ c.user \in Accounts /\ c.held.pair # c.view[c.user].pair
              /\ OwnSessions(c.view) /\ OwnSessions(c.buffer.sessions)
              /\ c.buffer.sessions[c.user] = c.held
          BY <1>2, <5>1, <5>2 DEF AccountInv, BufferInv, CommandInv
        <5>4. u # c.user  BY <2>1, <5>1, <5>3
        <5>5. g = 0  BY <2>1, <5>1, <5>3, <5>4 DEF OwnSessions
        <5> QED  BY <2>1, <2>2, <5>5
      <4> QED  BY <4>2, <4>3
    <3> QED  BY <3>1, <3>2, <3>3 DEF Accounted
  <2> QED  BY <2>3, <2>4
<1>10. FileInv'
  <2>1. config' \in Files \cup {Unreadable}  BY <1>2, <1>5
  <2>2. OwnSessions(c.buffer.sessions)'  BY <1>2 DEF BufferInv, OwnSessions
  <2>3. CASE Readable' = c.buffer  BY <1>9, <2>1, <2>2, <2>3 DEF FileInv, OwnSessions
  <2>4. CASE Readable' = NoConfig  BY <2>1, <2>4, EmptyFile DEF FileInv, OwnSessions
  <2> QED  BY <1>5, <2>3, <2>4
<1> QED  BY <1>1, <1>2, <1>3, <1>4, <1>8, <1>10, RewriteFrame

\* A write that fails leaves the old file, or nothing to read.
LEMMA FailWriteKeeps ==
    ASSUME NEW p \in CliProcs, AuthInv, FailWrite(p)
    PROVE  AuthInv'
<1>1. /\ CommandInv(cmd[p]) /\ AccountInv(cmd[p]) /\ cmd[p].edits # <<>> /\ FileInv
      /\ holder' = holder /\ live' = live /\ stranded' = stranded \cup Replaced(p)
  BY DEF AuthInv, FailWrite, CommandInv, StepInv, accountVars
<1>2. PICK file \in {config, NoConfig, Unreadable} : Rewrite(p, Edited(p, TRUE), file)
  BY DEF FailWrite
<1>3. PICK d : /\ d = Edited(p, TRUE) /\ CommandInv(d) /\ AccountInv(d)
               /\ d.at \in {"idle", "load", "grant"} /\ ~OnItsWay(d)
               /\ d.todo # <<>> => d.adrift
  BY <1>1, EditedIs
<1>4. config' = file /\ Readable' \in {Readable, NoConfig}
  BY <1>2, UnreadableAssumption, SessionSets DEF Readable, Rewrite
<1>5. CommandInv(d)' /\ AccountInv(d)'  BY <1>1, <1>3 DEF CommandInv, OwnSessions, AccountInv
<1>6. StepInv(d)'  BY <1>3, <1>5, AfterEditInv
<1>7. /\ live \cup stranded \subseteq Accounted'
      /\ OnItsWay(cmd[p]) => cmd[p].view[cmd[p].user].pair \in Accounted'
  BY <1>1, ReplacedStays
<1>8. Accounted \subseteq Accounted'  BY <1>2, <1>7, OthersSave, AccountedStays
<1>9. FileInv'
  <2>1. config' \in Files \cup {Unreadable}  BY <1>1, <1>2, <1>4, SessionSets DEF FileInv
  <2>2. CASE Readable' = Readable  BY <1>1, <1>8, <2>1, <2>2 DEF FileInv, OwnSessions
  <2>3. CASE Readable' = NoConfig  BY <2>1, <2>3, EmptyFile DEF FileInv, OwnSessions
  <2> QED  BY <1>4, <2>2, <2>3
<1> QED  BY <1>1, <1>2, <1>3, <1>6, <1>7, <1>9, RewriteFrame

\* So does the end of a process.
LEMMA KillCommandKeeps ==
    ASSUME NEW p \in CliProcs, AuthInv, KillCommand(p)
    PROVE  AuthInv'
<1>1. /\ Becomes(p, NoCommand) /\ stranded' = stranded \cup Replaced(p)
      /\ config' = config /\ holder' = holder /\ live' = live
  BY DEF KillCommand, Quit, accountVars
<1>2. ServerInv'  BY <1>1 DEF AuthInv, ServerInv
<1>3. /\ live \cup stranded \subseteq Accounted'
      /\ OnItsWay(cmd[p]) => cmd[p].view[cmd[p].user].pair \in Accounted'
  BY <1>1, ReplacedStays
<1> QED  BY <1>1, <1>2, <1>3, IdleInv, OwnFrame

-----------------------------------------------------------------------------
(* Commands *)

\* A command that ends leaves no obligation of its own.
LEMMA QuitKeeps ==
    ASSUME NEW p \in CliProcs, AuthInv, LocalStep, Quit(p), ~OnItsWay(cmd[p])
    PROVE  AuthInv'
BY IdleInv, LocalFrame DEF Quit

\* A new command has read nothing and been granted nothing.
LEMMA BeginKeeps ==
    ASSUME NEW p \in CliProcs, AuthInv, Begin(p)
    PROVE  AuthInv'
<1>1. CommandInv(cmd[p]) /\ cmd[p].at = "idle" /\ LocalStep  BY DEF AuthInv, Begin, StepInv
<1>2. PICK job \in Jobs : Becomes(p, [NoCommand EXCEPT !.at = "fetch", !.todo = job])
  BY DEF Begin
<1>3. PICK d : d = [NoCommand EXCEPT !.at = "fetch", !.todo = job]  OBVIOUS
<1>4. job \in Seq(Request) /\ job # <<>>  BY JobShape
<1>5. /\ d \in Command /\ d.at = "fetch" /\ d.todo = job /\ d.view = NoConfig.sessions
      /\ d.edits = <<>> /\ d.granted = Nobody
  BY <1>3, <1>4, IdleCommand DEF Command, Stage
<1>6. OwnSessions(d.view)  BY <1>5, EmptyFile
<1>7. CommandInv(d)  BY <1>4, <1>5, <1>6 DEF CommandInv, LeftToEdit
<1>8. ~OnItsWay(d) /\ ~OnItsWay(cmd[p])  BY <1>1, <1>5, <1>7, NotSaving
<1>9. StepInv(d)
  BY <1>5, <1>7, <1>8 DEF StepInv, AccountInv, ViewInv, BufferInv, CurrentInv
<1> QED  BY <1>1, <1>2, <1>3, <1>8, <1>9, LocalFrame

\* A command that only edits the file: no request is left to work on.
LEMMA EditingInv ==
    ASSUME NEW c \in Command, OwnSessions(c.view), c.todo = <<>>,
           NEW list \in Seq(Entry), list # <<>>,
           \/ list = Removal
           \/ \E v \in Accounts \cup {Nobody} : list = <<[key |-> "current", value |-> v]>>
    PROVE  StepInv(Editing(c, list))
<1>1. PICK d : d = Editing(c, list)  OBVIOUS
<1>2. /\ d \in Command /\ d.at = "load" /\ d.todo = <<>> /\ d.view = c.view /\ d.edits = list
  BY <1>1 DEF Editing, Command, Stage
<1>3. LeftToEdit(d)  BY <1>2 DEF LeftToEdit
<1>4. CommandInv(d)  BY <1>2, <1>3 DEF CommandInv
<1>5. ~OnItsWay(d)  BY <1>2 DEF OnItsWay
<1>6. StepInv(d)
  BY <1>2, <1>4, <1>5 DEF StepInv, AccountInv, ViewInv, BufferInv, CurrentInv
<1> QED  BY <1>1, <1>6

\* A logout removes the sessions, a switch changes the account.
LEMMA LogOutKeeps ==
    ASSUME NEW p \in CliProcs, AuthInv, LogOut(p)
    PROVE  AuthInv'
<1>1. /\ LocalStep /\ Becomes(p, Editing(NoCommand, Removal)) /\ cmd[p].at = "idle"
      /\ CommandInv(cmd[p])
  BY DEF LogOut, AuthInv, StepInv
<1>2. ~OnItsWay(cmd[p]) /\ OwnSessions(NoCommand.view)
  BY <1>1, IdleCommand, EmptyFile, NotSaving
<1>3. Removal \in Seq(Entry) /\ Removal # <<>>  BY RemovalShape
<1>4. StepInv(Editing(NoCommand, Removal))  BY <1>2, <1>3, IdleCommand, EditingInv
<1> QED  BY <1>1, <1>2, <1>4, LocalFrame

LEMMA SwitchAccountKeeps ==
    ASSUME NEW p \in CliProcs, AuthInv, NEW u \in Accounts, SwitchAccount(p, u)
    PROVE  AuthInv'
<1>1. PICK list : list = <<[key |-> "current", value |-> u]>>  OBVIOUS
<1>2. /\ LocalStep /\ Becomes(p, Editing(NoCommand, list)) /\ cmd[p].at = "idle"
      /\ CommandInv(cmd[p])
  BY <1>1 DEF SwitchAccount, AuthInv, StepInv
<1>3. ~OnItsWay(cmd[p]) /\ OwnSessions(NoCommand.view)
  BY <1>2, IdleCommand, EmptyFile, NotSaving
<1>4. list \in Seq(Entry) /\ list # <<>>  BY <1>1, LastEditShape
<1>5. StepInv(Editing(NoCommand, list))  BY <1>1, <1>3, <1>4, IdleCommand, EditingInv
<1> QED  BY <1>2, <1>3, <1>5, LocalFrame

\* An invalid request gives the work up.
LEMMA InvalidRefreshKeeps ==
    ASSUME NEW p \in CliProcs, AuthInv, InvalidRefresh(p)
    PROVE  AuthInv'
<1>1. PICK c : c = [cmd[p] EXCEPT !.todo = <<>>]  OBVIOUS
<1>2. /\ config' = config /\ holder' = holder /\ live' = live /\ stranded' = stranded
      /\ Becomes(p, Editing(c, Removal)) /\ cmd[p].at = "refresh"
  BY <1>1 DEF InvalidRefresh, accountVars
<1>3. cmd[p] \in Command /\ OwnSessions(cmd[p].view) /\ ~OnItsWay(cmd[p])
  BY <1>2, NotSaving DEF AuthInv, StepInv, CommandInv
<1>4. <<>> \in Seq(Request)  BY JobShape
<1>5. c \in Command /\ c.todo = <<>> /\ c.view = cmd[p].view  BY <1>1, <1>3, <1>4 DEF Command
<1>6. Removal \in Seq(Entry) /\ Removal # <<>>  BY RemovalShape
<1>7. PICK d : d = Editing(c, Removal)  OBVIOUS
<1>8. StepInv(d)  BY <1>3, <1>5, <1>6, <1>7, EditingInv
<1>9. Readable' = Readable /\ ServerInv'  BY <1>2 DEF Readable, AuthInv, ServerInv
<1>10. Accounted \subseteq Accounted' => StepInv(d)'  BY <1>2, <1>8, <1>9, StaysInv
<1>11. live \cup stranded \subseteq Accounted'  BY <1>2 DEF Accounted
<1> QED  BY <1>2, <1>3, <1>7, <1>9, <1>10, <1>11, OwnFrame

\* The sessions are read.
LEMMA FetchSessionsKeeps ==
    ASSUME NEW p \in CliProcs, AuthInv, FetchSessions(p)
    PROVE  AuthInv'
<1>1. PICK c : c = cmd[p]  OBVIOUS
<1>2. PICK d : d = [c EXCEPT !.at = "select", !.view = Readable.sessions, !.behind = FALSE]  OBVIOUS
<1>3. /\ StepInv(c) /\ CommandInv(c) /\ c \in Command /\ c.at = "fetch" /\ c.edits = <<>>
      /\ FileInv /\ LocalStep /\ Becomes(p, d) /\ ~OnItsWay(c)
  BY <1>1, <1>2, NotSaving DEF AuthInv, FetchSessions, StepInv, CommandInv
<1>4. Readable.sessions \in Sessions /\ OwnSessions(Readable.sessions)
  BY <1>3, ReadableFile DEF FileInv
<1>5. /\ d \in Command /\ d.at = "select" /\ d.todo = c.todo /\ d.view = Readable.sessions
      /\ d.edits = <<>> /\ d.granted = c.granted /\ d.adrift = c.adrift
  BY <1>2, <1>3, <1>4 DEF Command, Stage
<1>6. OwnSessions(d.view)  BY <1>4, <1>5
<1>7. CommandInv(d)  BY <1>3, <1>5, <1>6 DEF CommandInv, LeftToEdit
<1>8. ~OnItsWay(d)  BY <1>5, <1>7, NotSaving
<1>9. ViewInv(d)  BY <1>3, <1>5, <1>8 DEF ViewInv, FileInv
<1>10. CurrentInv(d)  BY <1>3, <1>5 DEF CurrentInv, StepInv
<1>11. StepInv(d)  BY <1>5, <1>7, <1>9, <1>10 DEF StepInv, AccountInv, BufferInv
<1> QED  BY <1>1, <1>3, <1>11, LocalFrame

\* Without a session the user logs in, or all sessions are forgotten.
LEMMA FullAuthKeeps ==
    ASSUME NEW p \in CliProcs, AuthInv, LocalStep, ~OnItsWay(cmd[p]), NEW c \in Command,
           c.todo \in Jobs, c.granted # Nobody => c.todo = <<Second>>, OwnSessions(c.view),
           ~c.behind => \A u \in Accounts : c.view[u].pair \in Accounted,
           c.edits = <<>>, Becomes(p, FullAuth(c))
    PROVE  AuthInv'
<1>1. CASE Head(c.todo).prompt
  <2>1. PICK d : d = [c EXCEPT !.at = "login"]  OBVIOUS
  <2>2. Becomes(p, d)  BY <1>1, <2>1 DEF FullAuth
  <2>3. /\ d \in Command /\ d.at = "login" /\ d.todo = c.todo /\ d.view = c.view
        /\ d.edits = <<>> /\ d.granted = c.granted /\ d.behind = c.behind
    BY <2>1 DEF Command, Stage
  <2>4. c.granted = Nobody
    <3>1. c.todo # <<Second>>  BY <1>1 DEF Second
    <3> QED  BY <3>1
  <2>5. c.todo # <<>>  BY JobShape
  <2>6. CommandInv(d)  BY <2>3, <2>4, <2>5 DEF CommandInv, LeftToEdit
  <2>7. ~OnItsWay(d)  BY <2>3, <2>6, NotSaving
  <2>8. ViewInv(d)  BY <2>3, <2>7 DEF ViewInv
  <2>9. StepInv(d)  BY <2>3, <2>6, <2>8 DEF StepInv, AccountInv, BufferInv, CurrentInv
  <2> QED  BY <2>2, <2>9, LocalFrame
<1>2. CASE ~Head(c.todo).prompt
  <2>1. PICK f : f = [c EXCEPT !.todo = <<>>]  OBVIOUS
  <2>2. Becomes(p, Editing(f, Removal))  BY <1>2, <2>1 DEF FullAuth
  <2>3. <<>> \in Seq(Request)  BY JobShape
  <2>4. f \in Command /\ f.todo = <<>> /\ f.view = c.view  BY <2>1, <2>3 DEF Command
  <2>5. Removal \in Seq(Entry) /\ Removal # <<>>  BY RemovalShape
  <2>6. OwnSessions(f.view)  BY <2>4
  <2>7. StepInv(Editing(f, Removal))  BY <2>4, <2>5, <2>6, EditingInv
  <2> QED  BY <2>2, <2>7, LocalFrame
<1> QED  BY <1>1, <1>2

\* The session of the account in use is the one to go on with.
LEMMA SelectSessionKeeps ==
    ASSUME NEW p \in CliProcs, AuthInv, NEW u \in Accounts \cup {Nobody}, SelectSession(p, u)
    PROVE  AuthInv'
<1>1. PICK c : c = cmd[p]  OBVIOUS
<1>2. /\ StepInv(c) /\ CommandInv(c) /\ c \in Command /\ c.at = "select" /\ c.todo # <<>>
      /\ OwnSessions(c.view) /\ c.todo \in Jobs /\ c.edits = <<>>
      /\ (c.granted # Nobody => c.todo = <<Second>>) /\ LocalStep /\ ~OnItsWay(c)
      /\ ~c.behind => \A v \in Accounts : c.view[v].pair \in Accounted
  BY <1>1, NotSaving DEF AuthInv, SelectSession, StepInv, CommandInv, ViewInv
<1>3. PICK s : s = IF u = Nobody \/ Head(c.todo).fresh THEN SignedOut ELSE c.view[u]  OBVIOUS
<1>4. PICK lost \in BOOLEAN : lost = (c.granted # Nobody /\ Readable.current = Nobody)  OBVIOUS
<1>5. PICK stage : stage = Verdict(s, Head(c.todo))  OBVIOUS
<1>6. PICK d : d = [c EXCEPT !.user = u, !.held = s, !.at = stage,
                      !.adrift = @ \/ (c.granted # Nobody /\ Readable.current = Nobody)]
  OBVIOUS
<1>7. Becomes(p, IF d.at = "login" THEN FullAuth(d) ELSE d)
  BY <1>1, <1>3, <1>4, <1>5, <1>6 DEF SelectSession
<1>8. u = Readable.current \/ Readable.current = Nobody  BY DEF SelectSession
<1>9. stage \in {"login", "refresh", "grant"} /\ (stage # "login" => s # SignedOut)
  BY <1>5 DEF Verdict
<1>10. s \in HeldSession  BY <1>2, <1>3, SessionSets, CommandFields
<1>11. /\ d \in Command /\ d.at = stage /\ d.todo = c.todo /\ d.view = c.view /\ d.user = u
       /\ d.held = s /\ d.edits = <<>> /\ d.granted = c.granted /\ d.adrift = (c.adrift \/ lost)
       /\ d.behind = c.behind
  BY <1>2, <1>4, <1>6, <1>9, <1>10 DEF Command, Stage
<1>12. OwnSessions(d.view)  BY <1>2, <1>11
<1>13. CASE stage = "login"
  <2>1. Becomes(p, FullAuth(d))  BY <1>7, <1>11, <1>13
  <2> QED  BY <1>1, <1>2, <1>11, <1>12, <2>1, FullAuthKeeps
<1>14. CASE stage # "login"
  <2>1. u \in Accounts /\ s = c.view[u] /\ s # SignedOut  BY <1>3, <1>9, <1>14
  <2>2. s.pair \in DOMAIN holder /\ holder[s.pair] = u  BY <1>2, <2>1 DEF OwnSessions
  <2>3. CommandInv(d)  BY <1>2, <1>9, <1>11, <1>12, <1>14 DEF CommandInv, LeftToEdit
  <2>4. ~OnItsWay(d)  BY <1>9, <1>11, <2>3, NotSaving
  <2>5. d.granted # Nobody /\ ~d.adrift => u = d.granted
    BY <1>2, <1>4, <1>8, <1>11 DEF CurrentInv, StepInv
  <2>6. AccountInv(d)  BY <1>11, <2>1, <2>2, <2>4, <2>5 DEF AccountInv
  <2>7. ViewInv(d)  BY <1>2, <1>11, <2>4 DEF ViewInv
  <2>8. BufferInv(d)  BY <1>9, <1>11 DEF BufferInv
  <2>9. CurrentInv(d)  BY <1>8, <1>9, <1>11 DEF CurrentInv
  <2>10. StepInv(d)  BY <2>3, <2>6, <2>7, <2>8, <2>9 DEF StepInv
  <2>11. Becomes(p, d)  BY <1>7, <1>11, <1>14
  <2> QED  BY <1>1, <1>2, <2>10, <2>11, LocalFrame
<1> QED  BY <1>13, <1>14

\* A pair the server has replaced is given up like one that is not there.
LEMMA RejectRefreshKeeps ==
    ASSUME NEW p \in CliProcs, AuthInv, RejectRefresh(p)
    PROVE  AuthInv'
<1>1. PICK c : c = cmd[p]  OBVIOUS
<1>2. /\ CommandInv(c) /\ c \in Command /\ c.todo \in Jobs /\ OwnSessions(c.view) /\ c.edits = <<>>
      /\ (c.granted # Nobody => c.todo = <<Second>>) /\ LocalStep /\ ~OnItsWay(c)
      /\ ~c.behind => \A u \in Accounts : c.view[u].pair \in Accounted
      /\ Becomes(p, FullAuth(c))
  BY <1>1, NotSaving DEF AuthInv, RejectRefresh, StepInv, CommandInv, ViewInv
<1> QED  BY <1>1, <1>2, FullAuthKeeps

\* A pair that is issued is the session to save; the one it replaces is its account's.
LEMMA IssuePairKeeps ==
    ASSUME NEW p \in CliProcs, AuthInv, NEW u \in Accounts, cmd[p].at \in {"refresh", "login"},
           cmd[p].granted # Nobody /\ ~cmd[p].adrift => u = cmd[p].granted,
           IssuePair(p, u), config' = config, stranded' = stranded,
           NEW gone \in SUBSET {cmd[p].view[u].pair}, live' = (live \ gone) \cup {Len(holder) + 1}
    PROVE  AuthInv'
<1>1. /\ cmd = [q \in CliProcs |-> cmd[q]] /\ ServerInv /\ CommandInv(cmd[p]) /\ ViewInv(cmd[p])
      /\ ~OnItsWay(cmd[p])
  BY NotSaving DEF AuthInv, StepInv
<1>2. PICK c : c = cmd[p]  OBVIOUS
<1>3. PICK g : g = Len(holder) + 1  OBVIOUS
<1>4. /\ CommandInv(c) /\ c \in Command /\ c.at \in {"refresh", "login"} /\ c.todo # <<>>
      /\ OwnSessions(c.view) /\ c.todo \in Jobs /\ c.edits = <<>>
      /\ (c.granted # Nobody => c.todo = <<Second>>)
  BY <1>1, <1>2 DEF CommandInv
<1>5. PICK refused \in SUBSET {Head(c.todo).app} :
          Becomes(p, LET s == [pair |-> g,
                               apps |-> (Shared \cup ({Head(c.todo).app} \cap AdminStores)) \ refused]
                     IN Editing([c EXCEPT !.user = u, !.held = s], Saving(c.view, u, s)))
  BY <1>2, <1>3 DEF IssuePair
<1>6. PICK s : s = [pair |-> g,
                    apps |-> (Shared \cup ({Head(c.todo).app} \cap AdminStores)) \ refused]
  OBVIOUS
<1>7. g <= MaxPairs /\ holder' = Append(holder, u)  BY <1>3 DEF IssuePair
<1>8. /\ holder' \in Seq(Accounts) /\ Len(holder') = g /\ DOMAIN holder' = DOMAIN holder \cup {g}
      /\ holder'[g] = u /\ g \notin DOMAIN holder /\ g # 0 /\ g \in Nat
      /\ \A i \in DOMAIN holder : holder'[i] = holder[i]
  BY <1>1, <1>3, <1>7, AppendProperties, LenProperties DEF ServerInv
<1>9. s \in HeldSession /\ s.pair = g
  BY <1>6, <1>7, <1>8, SessionSets DEF HeldSession
<1>10. PICK d : d = Editing([c EXCEPT !.user = u, !.held = s], Saving(c.view, u, s))  OBVIOUS
<1>11. Becomes(p, d)  BY <1>5, <1>6, <1>10
<1>12. c.view \in Sessions  BY <1>4, CommandFields
<1>13. Saving(c.view, u, s) \in Seq(Entry) /\ Saving(c.view, u, s) # <<>>
  BY <1>9, <1>12, SavingShape
<1>14. PICK list : list = Saving(c.view, u, s)  OBVIOUS
<1>15. list \in Seq(Entry) /\ list # <<>>  BY <1>13, <1>14
<1>16. d = [[c EXCEPT !.user = u, !.held = s] EXCEPT !.edits = list, !.at = "load"]
  BY <1>10, <1>14 DEF Editing
<1>17. /\ d \in Command /\ d.at = "load" /\ d.todo = c.todo /\ d.view = c.view /\ d.user = u
       /\ d.held = s /\ d.edits = list /\ d.granted = c.granted /\ d.adrift = c.adrift
       /\ d.behind = c.behind
  BY <1>4, <1>9, <1>15, <1>16 DEF Command, Stage
<1>18. d.edits = Saving(d.view, d.user, d.held)  BY <1>14, <1>17
<1>19. OnItsWay(d)
  <2>1. Len(Saving(c.view, u, s)) = 2  BY <1>9, <1>12, SavingEnd
  <2> QED  BY <1>4, <1>14, <1>17, <2>1 DEF OnItsWay
<1>20. LeftToEdit(d)  BY <1>4, <1>17, <1>18 DEF LeftToEdit
<1>21. OwnSessions(d.view)'  BY <1>4, <1>8, <1>17 DEF OwnSessions
<1>22. CommandInv(d)'
  BY <1>4, <1>15, <1>17, <1>20, <1>21 DEF CommandInv, OwnSessions
<1>23. g # c.view[u].pair  BY <1>4, <1>8 DEF OwnSessions
<1>24. AccountInv(d)'  BY <1>2, <1>8, <1>9, <1>17, <1>23 DEF AccountInv
<1>25. cmd'[p] = d  BY <1>1, <1>11, BecomesIs
<1>26. c.view[u].pair \in Accounted'
  <2>1. OnItsWay(cmd[p])'  BY <1>19, <1>25 DEF OnItsWay
  <2> QED  BY <1>17, <1>25, <2>1 DEF Accounted
<1>27. live \cup stranded \subseteq Accounted'
  <2>1. stranded \cup live' \subseteq Accounted'  BY DEF Accounted
  <2>2. live \subseteq live' \cup {c.view[u].pair}  BY <1>2
  <2> QED  BY <1>26, <2>1, <2>2
<1>28. g \in Accounted'  BY <1>3 DEF Accounted
<1>29. ASSUME Accounted \subseteq Accounted'  PROVE StepInv(d)'
  <2>1. ViewInv(d)'
    BY <1>2, <1>4, <1>9, <1>17, <1>28, <1>29, <1>1 DEF ViewInv
  <2> QED  BY <1>17, <1>22, <1>24, <2>1 DEF StepInv, BufferInv, CurrentInv
<1>30. ServerInv'  BY <1>1, <1>3, <1>7, <1>8 DEF ServerInv
<1> QED  BY <1>1, <1>8, <1>11, <1>27, <1>29, <1>30, OwnFrame

\* A refresh goes on with the account of its session, a login with any.
LEMMA RefreshSessionKeeps ==
    ASSUME NEW p \in CliProcs, AuthInv, RefreshSession(p)
    PROVE  AuthInv'
<1>1. /\ cmd[p].at = "refresh" /\ IssuePair(p, cmd[p].user) /\ config' = config /\ stranded' = stranded
      /\ live' = (live \ {cmd[p].held.pair}) \cup {Len(holder) + 1}
  BY DEF RefreshSession
<1>2. CommandInv(cmd[p]) /\ AccountInv(cmd[p])  BY DEF AuthInv, StepInv
<1>3. PICK u : u = cmd[p].user  OBVIOUS
<1>4. /\ u \in Accounts /\ cmd[p].held = cmd[p].view[u]
      /\ cmd[p].granted # Nobody /\ ~cmd[p].adrift => u = cmd[p].granted
  BY <1>1, <1>2, <1>3 DEF CommandInv, AccountInv
<1>5. PICK gone : gone = {cmd[p].held.pair}  OBVIOUS
<1>6. /\ gone \in SUBSET {cmd[p].view[u].pair} /\ live' = (live \ gone) \cup {Len(holder) + 1}
  BY <1>1, <1>4, <1>5
<1>7. IssuePair(p, u)  BY <1>1, <1>3
<1> QED  BY <1>1, <1>4, <1>6, <1>7, IssuePairKeeps

LEMMA LogInKeeps ==
    ASSUME NEW p \in CliProcs, AuthInv, NEW u \in Accounts, LogIn(p, u)
    PROVE  AuthInv'
<1>1. /\ cmd[p].at = "login" /\ IssuePair(p, u) /\ config' = config /\ stranded' = stranded
      /\ live' = live \cup {Len(holder) + 1}
  BY DEF LogIn
<1>2. CommandInv(cmd[p])  BY DEF AuthInv, StepInv
<1>3. cmd[p].granted = Nobody  BY <1>1, <1>2 DEF CommandInv
<1>4. {} \in SUBSET {cmd[p].view[u].pair} /\ live' = (live \ {}) \cup {Len(holder) + 1}  BY <1>1
<1> QED  BY <1>1, <1>3, <1>4, IssuePairKeeps

\* A refresh without an answer strands the pair, or leaves it.
LEMMA FailRefreshKeeps ==
    ASSUME NEW p \in CliProcs, AuthInv, FailRefresh(p)
    PROVE  AuthInv'
<1>1. /\ CommandInv(cmd[p]) /\ cmd[p].at = "refresh" /\ Becomes(p, NoCommand)
      /\ config' = config /\ holder' = holder
      /\ live' \subseteq live /\ live \subseteq live' \cup stranded' /\ stranded \subseteq stranded'
  BY DEF AuthInv, FailRefresh, Quit, StepInv
<1>2. live \cup stranded \subseteq Accounted'  BY <1>1 DEF Accounted
<1>3. ServerInv'  BY <1>1 DEF AuthInv, ServerInv
<1>4. ~OnItsWay(cmd[p])  BY <1>1, NotSaving
<1> QED  BY <1>1, <1>2, <1>3, <1>4, IdleInv, OwnFrame

LEMMA FailLogInKeeps ==
    ASSUME NEW p \in CliProcs, AuthInv, FailLogIn(p)
    PROVE  AuthInv'
<1>1. LocalStep /\ Quit(p) /\ CommandInv(cmd[p]) /\ cmd[p].at = "login"
  BY DEF FailLogIn, AuthInv, StepInv
<1>2. ~OnItsWay(cmd[p])  BY <1>1, NotSaving
<1> QED  BY <1>1, <1>2, QuitKeeps

\* The second request starts from the account of the first.
LEMMA GrantKeeps ==
    ASSUME NEW p \in CliProcs, AuthInv, Grant(p)
    PROVE  AuthInv'
<1>1. PICK c : c = cmd[p]  OBVIOUS
<1>2. /\ StepInv(c) /\ CommandInv(c) /\ c \in Command /\ c.at = "grant" /\ c.todo # <<>>
      /\ c.todo \in Jobs /\ c.edits = <<>> /\ c.adrift \in BOOLEAN /\ ~OnItsWay(c) /\ LocalStep
  BY <1>1, CommandFields, NotSaving DEF AuthInv, Grant, StepInv, CommandInv
<1>3. PICK d : d = [NoCommand EXCEPT !.at = "fetch", !.todo = Tail(c.todo),
                                     !.granted = holder[c.held.pair], !.adrift = c.adrift]
  OBVIOUS
<1>4. Becomes(p, NoCommand) \/ (Len(c.todo) # 1 /\ Becomes(p, d))
  BY <1>1, <1>3 DEF Grant
<1>5. CASE Becomes(p, NoCommand)  BY <1>1, <1>2, <1>5, QuitKeeps DEF Quit
<1>6. CASE Len(c.todo) # 1 /\ Becomes(p, d)
  <2>1. Tail(c.todo) = <<Second>> /\ <<Second>> \in Jobs /\ <<Second>> # <<>>
        /\ <<Second>> \in Seq(Request)
    BY <1>2, <1>6, JobShape
  <2>2. c.user \in Accounts /\ holder[c.held.pair] = c.user
    BY <1>2 DEF AccountInv, StepInv
  <2>3. /\ d \in Command /\ d.at = "fetch" /\ d.todo = <<Second>> /\ d.view = NoConfig.sessions
        /\ d.edits = <<>> /\ d.granted = c.user /\ d.adrift = c.adrift
    BY <1>2, <1>3, <2>1, <2>2, IdleCommand DEF Command, Stage
  <2>4. OwnSessions(d.view)  BY <2>3, EmptyFile
  <2>5. CommandInv(d)  BY <2>1, <2>3, <2>4 DEF CommandInv, LeftToEdit
  <2>6. ~OnItsWay(d)  BY <2>3, <2>5, NotSaving
  <2>7. CurrentInv(d)  BY <1>2, <2>3 DEF CurrentInv, StepInv
  <2>8. StepInv(d)  BY <2>3, <2>5, <2>6, <2>7 DEF StepInv, AccountInv, ViewInv, BufferInv
  <2> QED  BY <1>1, <1>2, <1>6, <2>8, LocalFrame
<1> QED  BY <1>4, <1>5, <1>6

\* Time passing and a revocation are no command's steps.
LEMMA OtherStepKeeps ==
    ASSUME AuthInv, UNCHANGED <<config, cmd, holder>>,
           \/ UNCHANGED <<live, stranded>>
           \/ \E g \in live : live' = live \ {g} /\ stranded' = stranded \cup {g}
    PROVE  AuthInv'
<1>1. live' \subseteq live /\ live \subseteq live' \cup stranded' /\ stranded \subseteq stranded'
  OBVIOUS
<1>2. Readable' = Readable /\ Accounted \subseteq Accounted'
  BY <1>1 DEF Readable, Accounted, OnItsWay
<1>3. (cmd = [q \in CliProcs |-> cmd[q]])'  BY DEF AuthInv
<1>4. ServerInv'  BY <1>1 DEF AuthInv, ServerInv
<1>5. FileInv'  BY <1>2 DEF AuthInv, FileInv, OwnSessions
<1>6. ASSUME NEW q \in CliProcs  PROVE StepInv(cmd[q])'
  <2>1. PICK e : e = cmd[q]  OBVIOUS
  <2>2. StepInv(e)  BY <2>1 DEF AuthInv
  <2>3. StepInv(e)'  BY <1>2, <2>2, StaysInv
  <2> QED  BY <2>1, <2>3, ValueInv
<1> QED  BY <1>3, <1>4, <1>5, <1>6 DEF AuthInv

\* Some accounts are logged in at first, each with a pair of its own.
LEMMA AuthStarts ==
    ASSUME AuthInit
    PROVE  AuthInv
<1> DEFINE n == Cardinality(Accounts)
<1>1. n \in Nat /\ n <= MaxPairs /\ MaxPairs \in Nat
  BY AuthAssumption, FS_CardinalityType
<1>2. PICK f : f \in Bijection(1..n, Accounts)
  BY AuthAssumption, FS_CardinalityType DEF ExistsBijection
<1>3. f \in [1..n -> Accounts] /\ \A u \in Accounts : \E i \in DOMAIN f : f[i] = u
  BY <1>2 DEF Bijection, Surjection, Injection
<1>4. Numbering \in [1..n -> Accounts]  BY <1>3 DEF Numbering
<1>5. /\ holder \in [1..n -> Accounts] /\ live = DOMAIN holder
      /\ cmd = [q \in CliProcs |-> NoCommand]
  BY <1>4 DEF AuthInit
<1>6. holder \in Seq(Accounts) /\ Len(holder) = n /\ DOMAIN holder = 1..n
  BY <1>1, <1>5, SeqDef, LenProperties
<1>7. PICK logged \in SUBSET DOMAIN holder, c \in Accounts \cup {Nobody} :
          /\ config = [current |-> c, sessions |-> [u \in Accounts |->
                 IF \E i \in logged : holder[i] = u
                 THEN [pair |-> CHOOSE i \in logged : holder[i] = u, apps |-> Shared] ELSE SignedOut]]
          /\ c = Nobody \/ \E i \in logged : holder[i] = c
  BY DEF AuthInit
<1>8. ASSUME NEW u \in Accounts
      PROVE  /\ config.sessions[u] \in HeldSession
             /\ \/ config.sessions[u] = SignedOut
                \/ /\ config.sessions[u].pair \in DOMAIN holder
                   /\ holder[config.sessions[u].pair] = u /\ config.sessions[u].pair # 0
             /\ (\E i \in logged : holder[i] = u) => config.sessions[u].pair # 0
  <2>1. CASE \E i \in logged : holder[i] = u
    <3>1. PICK i : i = CHOOSE k \in logged : holder[k] = u  OBVIOUS
    <3>2. i \in logged /\ holder[i] = u  BY <2>1, <3>1
    <3>3. config.sessions[u] = [pair |-> i, apps |-> Shared]  BY <1>7, <2>1, <3>1
    <3>4. i \in 1..n  BY <1>6, <3>2
    <3>5. i \in 0..MaxPairs /\ i # 0  BY <1>1, <3>4
    <3> QED  BY <1>6, <3>2, <3>3, <3>4, <3>5 DEF HeldSession
  <2>2. CASE ~\E i \in logged : holder[i] = u  BY <1>7, <2>2, SessionSets
  <2> QED  BY <2>1, <2>2
<1>9. config \in Files
  <2>1. config.sessions \in Sessions
    <3>1. config.sessions = [u \in Accounts |-> config.sessions[u]]  BY <1>7
    <3> QED  BY <1>8, <3>1, SessionSets
  <2> QED  BY <1>7, <2>1 DEF Files
<1>10. Readable = config  BY <1>9, UnreadableAssumption DEF Readable
<1>11. OwnSessions(Readable.sessions)  BY <1>8, <1>10 DEF OwnSessions, SignedOut
<1>12. cmd = [q \in CliProcs |-> cmd[q]] /\ \A q \in CliProcs : cmd[q] = NoCommand  BY <1>5
<1>13. ServerInv  BY <1>1, <1>5, <1>6 DEF ServerInv
<1>14. \A u \in Accounts : Readable.sessions[u].pair \in Accounted
  BY <1>5, <1>8, <1>10, SessionSets DEF Accounted
<1>15. FileInv  BY <1>9, <1>11, <1>14 DEF FileInv
<1> QED  BY <1>12, <1>13, <1>15, IdleInv DEF AuthInv

-----------------------------------------------------------------------------
(* Every step keeps the invariant *)

LEMMA AuthStepKeeps ==
    ASSUME AuthInv, [AuthNext]_authVars
    PROVE  AuthInv'
<1>1. CASE UNCHANGED authVars
  BY <1>1, OtherStepKeeps DEF authVars, accountVars
<1>2. ASSUME NEW p \in CliProcs, LoadFile(p) \/ Truncate(p) \/ WriteConfig(p) \/ FailWrite(p)
      PROVE  AuthInv'
  BY <1>2, LoadFileKeeps, TruncateKeeps, WriteConfigKeeps, FailWriteKeeps
<1>3. ASSUME NEW p \in CliProcs,
             Begin(p) \/ LogOut(p) \/ FetchSessions(p) \/ Grant(p) \/ KillCommand(p)
      PROVE  AuthInv'
  BY <1>3, BeginKeeps, LogOutKeeps, FetchSessionsKeeps, GrantKeeps, KillCommandKeeps
<1>4. ASSUME NEW p \in CliProcs,
             RefreshSession(p) \/ RejectRefresh(p) \/ InvalidRefresh(p) \/ FailRefresh(p) \/ FailLogIn(p)
      PROVE  AuthInv'
  BY <1>4, RefreshSessionKeeps, RejectRefreshKeeps, InvalidRefreshKeeps, FailRefreshKeeps, FailLogInKeeps
<1>5. ASSUME NEW p \in CliProcs,
             \/ \E u \in Accounts : SwitchAccount(p, u) \/ LogIn(p, u)
             \/ \E u \in Accounts \cup {Nobody} : SelectSession(p, u)
      PROVE  AuthInv'
  BY <1>5, SwitchAccountKeeps, LogInKeeps, SelectSessionKeeps
<1>6. CASE \E g \in DOMAIN holder : ExpirePair(g)
  BY <1>6, OtherStepKeeps DEF ExpirePair
<1>7. CASE \E g \in DOMAIN holder : RevokePair(g)
  BY <1>7, OtherStepKeeps DEF RevokePair
<1> QED  BY <1>1, <1>2, <1>3, <1>4, <1>5, <1>6, <1>7 DEF AuthNext

\* Any number of commands and refreshing tasks at once, however the file and the
\* server fail them: the two tokens of a dev server belong to one account, unless
\* the file lost the account in use or had none, or another command changed it in
\* between (ensure_authenticated_with_options).
THEOREM OneAccountPerServer == AuthSpec => []SameAccount
<1>1. AuthInv => SameAccount
  BY DEF AuthInv, StepInv, CommandInv, AccountInv, SameAccount
<1> QED  BY <1>1, AuthStarts, AuthStepKeeps, PTL DEF AuthSpec

\* And a session in the file can be refreshed, unless the one that replaced it is
\* on its way to the file, was lost by a failure, or was overwritten by a command
\* that had read the file before.
THEOREM StoredSessionsLive == AuthSpec => []StoredIsLive
<1>1. AuthInv => StoredIsLive
  <2> SUFFICES ASSUME AuthInv, NEW u \in Accounts, NEW g, g = Readable.sessions[u].pair,
                      g \notin live \cup stranded \cup {0}
               PROVE  \E p \in CliProcs : OnItsWay(cmd[p]) /\ cmd[p].user = u
    BY DEF StoredIsLive
  <2>1. g \in Accounted /\ g \in DOMAIN holder /\ holder[g] = u
    BY DEF AuthInv, FileInv, OwnSessions
  <2>2. PICK p \in CliProcs : OnItsWay(cmd[p]) /\ g = cmd[p].view[cmd[p].user].pair
    BY <2>1 DEF Accounted
  <2>3. /\ CommandInv(cmd[p]) /\ AccountInv(cmd[p]) /\ OwnSessions(cmd[p].view)
    BY DEF AuthInv, StepInv, CommandInv
  <2>4. cmd[p].user \in Accounts  BY <2>2, <2>3, SavingIs DEF AccountInv
  <2>5. holder[g] = cmd[p].user  BY <2>2, <2>3, <2>4 DEF OwnSessions
  <2> QED  BY <2>1, <2>2, <2>5
<1> QED  BY <1>1, AuthStarts, AuthStepKeeps, PTL DEF AuthSpec

-----------------------------------------------------------------------------
(* Deploying and releasing *)

Working == {"list", "create", "upload", "version", "diff", "release", "report", "done"}
Deployment == [at : Working, flags : Flags, local : SUBSET AppExts,
               config : BOOLEAN, toCreate : SUBSET AppExts,
               onlyRemote : SUBSET AppExts, pending : SUBSET AppExts, seen : SUBSET AppExts,
               shown : SUBSET AppExts, version : Nat, overtaken : BOOLEAN,
               outcome : {"none", "succeeded", "failed"}]

PlatformTypes ==
    /\ atomic \in BOOLEAN /\ registered \subseteq AppExts
    /\ versions \in Seq(SUBSET AppExts) /\ active \in DOMAIN versions
    /\ deploy \in Deployment

\* What it is about to remove it may remove: the changes it knows of were
\* confirmed, or need no confirmation.
Agreed(d) ==
    /\ d.at \in {"create", "upload", "version", "release"} =>
           d.onlyRemote = d.seen \ d.local
    /\ d.at \in {"upload", "version", "release"} =>
           d.flags.deletes \/ d.onlyRemote \subseteq d.shown

\* The version to release is what it had included, or was asked for.
HasVersion(d) ==
    d.at \in {"diff", "release"} =>
        /\ d.version \in DOMAIN versions
        /\ versions[d.version] = Included(d)
        /\ d.at = "diff" => d.config

\* What it created or released is active, unless overtaken.
Told(d) ==
    /\ d.at # "done" => d.outcome = "none"
    /\ d.at = "report" /\ ~d.flags.noRelease =>
           active = d.version \/ d.overtaken \/ d.version = 0

Breakdown(d) ==
    d.pending \subseteq d.toCreate /\ d.toCreate \subseteq d.local /\ d.onlyRemote \subseteq d.seen

DeployInv ==
    PlatformTypes /\ Breakdown(deploy) /\ Agreed(deploy) /\ HasVersion(deploy) /\ Told(deploy)

\* A command that says how it went is done.
LEMMA DoneDeploy ==
    ASSUME NEW outcome \in {"none", "succeeded", "failed"},
           NEW d, d = [NoDeploy EXCEPT !.outcome = outcome]
    PROVE  d \in Deployment /\ d.at = "done" /\ Breakdown(d) /\ d.outcome = outcome
<1>1. NoDeploy \in Deployment /\ NoDeploy.at = "done"
  BY DEF NoDeploy, Deployment, Flags, Working
<1> QED  BY <1>1 DEF Deployment, NoDeploy, Breakdown

\* So nothing more is asked of it, whatever the servers did.
LEMMA TellKeeps ==
    ASSUME NEW outcome \in {"succeeded", "failed"}, Tell(outcome), DeployInv,
           (registered \subseteq AppExts /\ versions \in Seq(SUBSET AppExts) /\ active \in DOMAIN versions)'
    PROVE  DeployInv'
<1>1. deploy' = [NoDeploy EXCEPT !.outcome = outcome] /\ atomic' = atomic
  BY DEF Tell, Step
<1>2. PICK d : d = [NoDeploy EXCEPT !.outcome = outcome]  OBVIOUS
<1>3. d \in Deployment /\ d.at = "done" /\ Breakdown(d)  BY <1>2, DoneDeploy
<1>4. Agreed(d) /\ HasVersion(d)' /\ Told(d)'  BY <1>3 DEF Agreed, HasVersion, Told
<1>5. deploy' = d  BY <1>1, <1>2
<1> QED  BY <1>1, <1>3, <1>4, <1>5 DEF DeployInv, PlatformTypes, Agreed, HasVersion, Told, Breakdown

\* A step of the command leaves the servers' state as it is.
LEMMA OwnStepKeeps ==
    ASSUME NEW d \in Deployment, Step(d), NoRequest, DeployInv,
           Breakdown(d), Agreed(d), HasVersion(d), Told(d)
    PROVE  DeployInv'
BY DEF Step, NoRequest, platformVars, DeployInv, PlatformTypes, Agreed, HasVersion, Told, Breakdown

\* What is remote are extensions.
LEMMA RemoteExts ==
    ASSUME PlatformTypes  PROVE Remote \subseteq AppExts /\ versions[active] \subseteq AppExts
BY DEF PlatformTypes, Remote

\* Another version is the last.
LEMMA AppendVersion ==
    ASSUME PlatformTypes, NEW exts \in SUBSET AppExts, versions' = Append(versions, exts)
    PROVE  /\ versions' \in Seq(SUBSET AppExts) /\ Len(versions) \in Nat
           /\ DOMAIN versions' = DOMAIN versions \cup {Len(versions) + 1}
           /\ versions'[Len(versions) + 1] = exts
           /\ \A v \in DOMAIN versions : versions'[v] = versions[v]
BY AppendProperties, LenProperties DEF PlatformTypes

LEMMA StartDeployKeeps == ASSUME DeployInv, StartDeploy  PROVE DeployInv'
<1>1. PICK f \in Flags, local \in SUBSET AppExts, all \in BOOLEAN :
          Step([NoDeploy EXCEPT !.at = "list", !.flags = f, !.local = local, !.config = all])
  BY DEF StartDeploy
<1>2. PICK d : d = [NoDeploy EXCEPT !.at = "list", !.flags = f, !.local = local, !.config = all]
  OBVIOUS
<1>3. /\ d \in Deployment /\ d.at = "list" /\ d.outcome = "none" /\ d.pending = {} /\ d.toCreate = {}
      /\ d.onlyRemote = {}
  BY <1>2 DEF NoDeploy, Deployment, Working
<1>4. Breakdown(d) /\ Agreed(d) /\ HasVersion(d) /\ Told(d)
  BY <1>3 DEF Breakdown, Agreed, HasVersion, Told
<1> QED  BY <1>1, <1>2, <1>3, <1>4, OwnStepKeeps DEF StartDeploy

LEMMA ListRemoteKeeps == ASSUME DeployInv, ListRemote  PROVE DeployInv'
<1>1. PICK c : c = deploy  OBVIOUS
<1>2. c \in Deployment /\ Told(c) /\ c.at = "list" /\ NoRequest /\ Remote \subseteq AppExts
  BY <1>1, RemoteExts DEF DeployInv, PlatformTypes, ListRemote
<1>3. PICK gone : gone = Remote \ c.local  OBVIOUS
<1>4. PICK new : new = ManualMatching(Unmatched(c.local, Remote), gone)  OBVIOUS
<1>5. new \subseteq c.local /\ new \in SUBSET AppExts
  BY <1>2, <1>4 DEF ManualMatching, Unmatched, Deployment
<1>6. PICK left \in SUBSET new : left = IF atomic THEN {} ELSE new  OBVIOUS
<1>7. PICK d : d = [c EXCEPT !.at = "create", !.seen = Remote, !.toCreate = new,
                             !.onlyRemote = gone, !.pending = left]
  OBVIOUS
<1>8. Step(d)  BY <1>1, <1>3, <1>4, <1>6, <1>7 DEF ListRemote
<1>9. /\ d \in Deployment /\ d.at = "create" /\ d.seen = Remote /\ d.toCreate = new
      /\ d.onlyRemote = gone /\ d.pending = left /\ d.local = c.local /\ d.outcome = c.outcome
  BY <1>2, <1>3, <1>5, <1>6, <1>7 DEF Deployment, Working
<1>10. Breakdown(d) /\ Agreed(d) /\ HasVersion(d) /\ Told(d)
  BY <1>2, <1>3, <1>5, <1>6, <1>9 DEF Breakdown, Agreed, HasVersion, Told
<1> QED  BY <1>2, <1>8, <1>9, <1>10, OwnStepKeeps

LEMMA CreateExtensionKeeps ==
    ASSUME DeployInv, NEW e \in AppExts, CreateExtension(e)  PROVE DeployInv'
<1>1. PICK c : c = deploy  OBVIOUS
<1>2. PICK d : d = [c EXCEPT !.pending = @ \ {e}]  OBVIOUS
<1>3. /\ c \in Deployment /\ c.at = "create" /\ deploy' = d /\ atomic' = atomic
      /\ registered' = registered \cup {e} /\ versions' = versions /\ active' = active
  BY <1>1, <1>2 DEF DeployInv, PlatformTypes, CreateExtension, Step
<1>4. /\ d \in Deployment /\ d.at = "create" /\ d.seen = c.seen /\ d.toCreate = c.toCreate
      /\ d.onlyRemote = c.onlyRemote /\ d.pending = c.pending \ {e} /\ d.local = c.local
      /\ d.outcome = c.outcome
  BY <1>2, <1>3 DEF Deployment
<1>5. Breakdown(d) /\ Agreed(d) /\ HasVersion(d)' /\ Told(d)'
  BY <1>1, <1>3, <1>4 DEF DeployInv, Breakdown, Agreed, HasVersion, Told
<1> QED
  BY <1>3, <1>4, <1>5 DEF DeployInv, PlatformTypes, Breakdown, Agreed, HasVersion, Told

LEMMA ConfirmKeeps == ASSUME DeployInv, Confirm  PROVE DeployInv'
<1>1. PICK c : c = deploy  OBVIOUS
<1>2. /\ c \in Deployment /\ Told(c) /\ Agreed(c) /\ Breakdown(c) /\ c.at = "create" /\ NoRequest
  BY <1>1 DEF DeployInv, PlatformTypes, Confirm
<1>3. PICK shown \in SUBSET AppExts :
          /\ Step([c EXCEPT !.at = "upload", !.shown = shown])
          /\ Skips(c) \/ shown = c.toCreate \cup c.onlyRemote
  <2>1. CASE Skips(c) /\ Step([c EXCEPT !.at = "upload"])
    <3>1. c.shown \in SUBSET AppExts  BY <1>2 DEF Deployment
    <3>2. [c EXCEPT !.at = "upload"] = [c EXCEPT !.at = "upload", !.shown = c.shown]
      BY <1>2 DEF Deployment
    <3> QED  BY <2>1, <3>1, <3>2
  <2>2. CASE Step([c EXCEPT !.at = "upload", !.shown = c.toCreate \cup c.onlyRemote])
    <3>1. c.toCreate \cup c.onlyRemote \in SUBSET AppExts  BY <1>2 DEF Deployment
    <3> QED  BY <2>2, <3>1
  <2> QED  BY <1>1, <2>1, <2>2 DEF Confirm
<1>4. PICK d : d = [c EXCEPT !.at = "upload", !.shown = shown]  OBVIOUS
<1>5. /\ d \in Deployment /\ d.at = "upload" /\ d.seen = c.seen /\ d.toCreate = c.toCreate
      /\ d.onlyRemote = c.onlyRemote /\ d.pending = c.pending /\ d.local = c.local
      /\ d.outcome = c.outcome /\ d.shown = shown /\ d.flags = c.flags
  BY <1>2, <1>4 DEF Deployment, Working
<1>6. Agreed(d)  BY <1>2, <1>3, <1>5 DEF Agreed, Skips
<1>7. Breakdown(d) /\ HasVersion(d) /\ Told(d)  BY <1>2, <1>5 DEF Breakdown, HasVersion, Told
<1> QED  BY <1>2, <1>3, <1>4, <1>5, <1>6, <1>7, OwnStepKeeps

LEMMA UploadedKeeps == ASSUME DeployInv, Uploaded  PROVE DeployInv'
<1>1. PICK c : c = deploy  OBVIOUS
<1>2. /\ c \in Deployment /\ Told(c) /\ Agreed(c) /\ Breakdown(c) /\ c.at = "upload" /\ NoRequest
  BY <1>1 DEF DeployInv, PlatformTypes, Uploaded
<1>3. PICK d : d = [c EXCEPT !.at = "version"]  OBVIOUS
<1>4. /\ d \in Deployment /\ d.at = "version" /\ d.seen = c.seen /\ d.toCreate = c.toCreate
      /\ d.onlyRemote = c.onlyRemote /\ d.pending = c.pending /\ d.local = c.local
      /\ d.outcome = c.outcome /\ d.shown = c.shown /\ d.flags = c.flags
  BY <1>2, <1>3 DEF Deployment, Working
<1>5. Breakdown(d) /\ Agreed(d) /\ HasVersion(d) /\ Told(d)
  BY <1>2, <1>4 DEF Breakdown, Agreed, HasVersion, Told
<1>6. Step(d)  BY <1>1, <1>3 DEF Uploaded
<1> QED  BY <1>2, <1>4, <1>5, <1>6, OwnStepKeeps

LEMMA CreateVersionKeeps == ASSUME DeployInv, CreateVersion  PROVE DeployInv'
<1>1. PICK c : c = deploy  OBVIOUS
<1>2. PICK new : new = Len(versions) + 1  OBVIOUS
<1>3. PICK stage \in {"release", "report"} :
          stage = IF atomic /\ ~c.flags.noRelease THEN "release" ELSE "report"
  OBVIOUS
<1>4. PICK d : d = [c EXCEPT !.version = new, !.overtaken = FALSE, !.at = stage]  OBVIOUS
<1>5. /\ c \in Deployment /\ Told(c) /\ Agreed(c) /\ Breakdown(c) /\ c.at = "version" /\ PlatformTypes
  BY <1>1 DEF DeployInv, PlatformTypes, CreateVersion
<1>6. /\ deploy' = d /\ atomic' = atomic /\ registered' = registered
      /\ versions' = Append(versions, Included(c))
      /\ active' = IF ~atomic /\ ~c.flags.noRelease THEN new ELSE active
  BY <1>1, <1>2, <1>3, <1>4 DEF CreateVersion, Step
<1>7. Included(c) \in SUBSET AppExts  BY <1>5 DEF Deployment, Included
<1>8. /\ versions' \in Seq(SUBSET AppExts) /\ new \in Nat
      /\ DOMAIN versions' = DOMAIN versions \cup {new} /\ versions'[new] = Included(c)
  BY <1>2, <1>5, <1>6, <1>7, AppendVersion
<1>9. /\ d \in Deployment /\ d.at = stage /\ d.seen = c.seen /\ d.toCreate = c.toCreate
      /\ d.onlyRemote = c.onlyRemote /\ d.pending = c.pending /\ d.local = c.local
      /\ d.outcome = c.outcome /\ d.shown = c.shown /\ d.flags = c.flags /\ d.version = new
      /\ d.config = c.config
  BY <1>4, <1>5, <1>8 DEF Deployment, Working
<1>10. Breakdown(d) /\ Agreed(d)  BY <1>5, <1>9 DEF Breakdown, Agreed
<1>11. HasVersion(d)'  BY <1>3, <1>8, <1>9 DEF HasVersion, Included
<1>12. Told(d)'  BY <1>3, <1>5, <1>6, <1>9 DEF Told, PlatformTypes
<1>13. PlatformTypes'  BY <1>5, <1>6, <1>8, <1>9 DEF PlatformTypes
<1> QED  BY <1>6, <1>10, <1>11, <1>12, <1>13 DEF DeployInv, Breakdown, Agreed, HasVersion, Told

LEMMA AnswerNoVersionKeeps == ASSUME DeployInv, AnswerNoVersion  PROVE DeployInv'
<1>1. PICK c : c = deploy  OBVIOUS
<1>2. PICK d : d = [c EXCEPT !.at = "report", !.version = 0]  OBVIOUS
<1>3. /\ c \in Deployment /\ Told(c) /\ Breakdown(c) /\ c.at = "version" /\ Step(d) /\ NoRequest
  BY <1>1, <1>2 DEF DeployInv, PlatformTypes, AnswerNoVersion
<1>4. /\ d \in Deployment /\ d.at = "report" /\ d.seen = c.seen /\ d.toCreate = c.toCreate
      /\ d.onlyRemote = c.onlyRemote /\ d.pending = c.pending /\ d.local = c.local
      /\ d.outcome = c.outcome /\ d.version = 0
  BY <1>2, <1>3 DEF Deployment, Working
<1>5. Breakdown(d) /\ Agreed(d) /\ HasVersion(d) /\ Told(d)
  BY <1>3, <1>4 DEF Breakdown, Agreed, HasVersion, Told
<1> QED  BY <1>3, <1>4, <1>5, OwnStepKeeps

LEMMA ReleaseVersionKeeps == ASSUME DeployInv, ReleaseVersion  PROVE DeployInv'
<1>1. PICK c : c = deploy  OBVIOUS
<1>2. PICK d : d = [c EXCEPT !.at = "report", !.overtaken = FALSE]  OBVIOUS
<1>3. /\ c \in Deployment /\ Told(c) /\ Breakdown(c) /\ HasVersion(c) /\ c.at = "release"
      /\ deploy' = d /\ atomic' = atomic /\ registered' = registered /\ versions' = versions
      /\ active' = c.version
  BY <1>1, <1>2 DEF DeployInv, PlatformTypes, ReleaseVersion, Step
<1>4. /\ d \in Deployment /\ d.at = "report" /\ d.seen = c.seen /\ d.toCreate = c.toCreate
      /\ d.onlyRemote = c.onlyRemote /\ d.pending = c.pending /\ d.local = c.local
      /\ d.outcome = c.outcome /\ d.version = c.version
  BY <1>2, <1>3 DEF Deployment, Working
<1>5. Breakdown(d) /\ Agreed(d) /\ HasVersion(d)' /\ Told(d)'
  BY <1>3, <1>4 DEF Breakdown, Agreed, HasVersion, Told
<1>6. PlatformTypes'  BY <1>3, <1>4 DEF DeployInv, PlatformTypes, HasVersion
<1> QED  BY <1>3, <1>5, <1>6 DEF DeployInv, Breakdown, Agreed, HasVersion, Told

LEMMA EndsKeep ==
    ASSUME DeployInv, Decline \/ RefuseVersion \/ RefuseRelease \/ Report \/ FailDeploy
    PROVE  DeployInv'
<1>1. PICK outcome \in {"succeeded", "failed"} : Tell(outcome) /\ NoRequest
  BY DEF Decline, RefuseVersion, RefuseRelease, Report, FailDeploy
<1>2. (registered \subseteq AppExts /\ versions \in Seq(SUBSET AppExts) /\ active \in DOMAIN versions)'
  BY <1>1 DEF NoRequest, platformVars, DeployInv, PlatformTypes
<1> QED  BY <1>1, <1>2, TellKeeps

\* What the server did and the process does not know of.
LEMMA LoseAnswerKeeps == ASSUME DeployInv, LoseAnswer  PROVE DeployInv'
<1>1. PICK c : c = deploy  OBVIOUS
<1>2. /\ c \in Deployment /\ Told(c) /\ Agreed(c) /\ Breakdown(c) /\ HasVersion(c) /\ PlatformTypes
  BY <1>1 DEF DeployInv, PlatformTypes
<1>3. CASE /\ \E e \in c.pending : registered' = registered \cup {e}
           /\ Tell("failed") /\ UNCHANGED <<versions, active>>
  <2>1. (registered \subseteq AppExts /\ versions \in Seq(SUBSET AppExts) /\ active \in DOMAIN versions)'
    BY <1>2, <1>3 DEF PlatformTypes, Deployment
  <2> QED  BY <1>3, <2>1, TellKeeps
<1>4. CASE /\ c.at = "version" /\ versions' = Append(versions, Included(c))
           /\ active' = IF ~atomic /\ ~c.flags.noRelease THEN Len(versions) + 1 ELSE active
           /\ Tell("failed") \/ Step([c EXCEPT !.version = Len(versions) + 1])
           /\ UNCHANGED registered
  <2>1. Included(c) \in SUBSET AppExts  BY <1>2 DEF Deployment, Included
  <2>2. PICK new : new = Len(versions) + 1  OBVIOUS
  <2>3. /\ versions' \in Seq(SUBSET AppExts) /\ new \in Nat
        /\ DOMAIN versions' = DOMAIN versions \cup {new}
    BY <1>2, <1>4, <2>1, <2>2, AppendVersion
  <2>4. (registered \subseteq AppExts /\ versions \in Seq(SUBSET AppExts) /\ active \in DOMAIN versions)'
    BY <1>2, <1>4, <2>2, <2>3 DEF PlatformTypes
  <2>5. CASE Tell("failed")  BY <2>4, <2>5, TellKeeps
  <2>6. CASE Step([c EXCEPT !.version = Len(versions) + 1])
    <3>1. PICK d : d = [c EXCEPT !.version = new]  OBVIOUS
    <3>2. deploy' = d /\ atomic' = atomic  BY <2>2, <2>6, <3>1 DEF Step
    <3>3. /\ d \in Deployment /\ d.at = "version" /\ d.seen = c.seen /\ d.toCreate = c.toCreate
          /\ d.onlyRemote = c.onlyRemote /\ d.pending = c.pending /\ d.local = c.local
          /\ d.outcome = c.outcome /\ d.shown = c.shown /\ d.flags = c.flags
      BY <1>2, <1>4, <2>3, <3>1 DEF Deployment
    <3>4. Breakdown(d) /\ Agreed(d) /\ HasVersion(d)' /\ Told(d)'
      BY <1>2, <1>4, <3>3 DEF Breakdown, Agreed, HasVersion, Told
    <3>5. PlatformTypes'  BY <1>2, <2>4, <3>2, <3>3 DEF PlatformTypes
    <3> QED  BY <3>2, <3>4, <3>5 DEF DeployInv, Breakdown, Agreed, HasVersion, Told
  <2> QED  BY <1>4, <2>5, <2>6
<1>5. CASE /\ c.at = "release" /\ active' = c.version /\ Tell("failed")
           /\ UNCHANGED <<registered, versions>>
  <2>1. (registered \subseteq AppExts /\ versions \in Seq(SUBSET AppExts) /\ active \in DOMAIN versions)'
    BY <1>2, <1>5 DEF PlatformTypes, HasVersion
  <2> QED  BY <1>5, <2>1, TellKeeps
<1> QED  BY <1>1, <1>3, <1>4, <1>5 DEF LoseAnswer

LEMMA StartReleaseKeeps ==
    ASSUME DeployInv, NEW v \in 1..MaxVersions, StartRelease(v)  PROVE DeployInv'
<1>1. PICK f \in Flags : Step([NoDeploy EXCEPT !.at = "diff", !.flags = f, !.local = versions[v],
                                               !.version = v])
  BY DEF StartRelease
<1>2. PICK d : d = [NoDeploy EXCEPT !.at = "diff", !.flags = f, !.local = versions[v], !.version = v]
  OBVIOUS
<1>3. v \in DOMAIN versions /\ NoRequest /\ versions[v] \in SUBSET AppExts
  BY DEF StartRelease, DeployInv, PlatformTypes
<1>4. /\ d \in Deployment /\ d.at = "diff" /\ d.outcome = "none" /\ d.pending = {} /\ d.toCreate = {}
      /\ d.onlyRemote = {} /\ d.local = versions[v] /\ d.version = v /\ d.config
  <2>1. v \in Nat  BY DeployAssumption
  <2>2. NoDeploy \in Deployment  BY DEF NoDeploy, Deployment, Working, Flags
  <2>3. /\ NoDeploy.pending = {} /\ NoDeploy.toCreate = {} /\ NoDeploy.onlyRemote = {}
        /\ NoDeploy.outcome = "none" /\ NoDeploy.config
    BY DEF NoDeploy
  <2> QED  BY <1>2, <1>3, <2>1, <2>2, <2>3 DEF Deployment, Working
<1>5. Breakdown(d) /\ Agreed(d) /\ HasVersion(d) /\ Told(d)
  BY <1>3, <1>4 DEF Breakdown, Agreed, HasVersion, Told, Included
<1> QED  BY <1>1, <1>2, <1>3, <1>4, <1>5, OwnStepKeeps

LEMMA DiffVersionKeeps == ASSUME DeployInv, DiffVersion  PROVE DeployInv'
<1>1. PICK c : c = deploy  OBVIOUS
<1>2. /\ c \in Deployment /\ Told(c) /\ Breakdown(c) /\ HasVersion(c) /\ c.at = "diff" /\ NoRequest
      /\ PlatformTypes /\ versions[active] \in SUBSET AppExts
  BY <1>1, RemoteExts DEF DeployInv, PlatformTypes, DiffVersion
<1>3. PICK d : d = [c EXCEPT !.at = "release", !.seen = versions[active],
                             !.onlyRemote = versions[active] \ c.local]
  OBVIOUS
<1>4. \/ Tell("failed")
      \/ Step(d) /\ (versions[active] \ c.local # {} => c.flags.deletes)
  BY <1>1, <1>3 DEF DiffVersion
<1>5. CASE Tell("failed")
  <2>1. (registered \subseteq AppExts /\ versions \in Seq(SUBSET AppExts) /\ active \in DOMAIN versions)'
    BY <1>2 DEF NoRequest, platformVars, PlatformTypes
  <2> QED  BY <1>5, <2>1, TellKeeps
<1>6. CASE Step(d) /\ (versions[active] \ c.local # {} => c.flags.deletes)
  <2>1. /\ d \in Deployment /\ d.at = "release" /\ d.seen = versions[active] /\ d.toCreate = c.toCreate
        /\ d.onlyRemote = versions[active] \ c.local /\ d.pending = c.pending /\ d.local = c.local
        /\ d.outcome = c.outcome /\ d.shown = c.shown /\ d.flags = c.flags /\ d.version = c.version
        /\ d.config = c.config
    BY <1>2, <1>3 DEF Deployment, Working
  <2>2. Breakdown(d) /\ Agreed(d) /\ HasVersion(d) /\ Told(d)
    BY <1>2, <1>6, <2>1 DEF Breakdown, Agreed, HasVersion, Told, Included
  <2> QED  BY <1>2, <1>6, <2>1, <2>2, OwnStepKeeps
<1> QED  BY <1>4, <1>5, <1>6

LEMMA OtherReleaseKeeps == ASSUME DeployInv, OtherRelease  PROVE DeployInv'
<1>1. PICK c : c = deploy  OBVIOUS
<1>2. PICK d : d = [c EXCEPT !.overtaken = TRUE]  OBVIOUS
<1>3. PICK exts \in SUBSET AppExts :
          versions' = Append(versions, exts) /\ registered' = registered \cup exts
  BY DEF OtherRelease
<1>4. /\ c \in Deployment /\ Told(c) /\ Agreed(c) /\ Breakdown(c) /\ HasVersion(c) /\ PlatformTypes
      /\ deploy' = d /\ atomic' = atomic /\ active' = Len(versions) + 1
  BY <1>1, <1>2 DEF DeployInv, PlatformTypes, OtherRelease, Step
<1>5. /\ versions' \in Seq(SUBSET AppExts) /\ active' \in DOMAIN versions'
      /\ \A v \in DOMAIN versions : v \in DOMAIN versions' /\ versions'[v] = versions[v]
  BY <1>3, <1>4, AppendVersion
<1>6. /\ d \in Deployment /\ d.at = c.at /\ d.seen = c.seen /\ d.toCreate = c.toCreate
      /\ d.onlyRemote = c.onlyRemote /\ d.pending = c.pending /\ d.local = c.local /\ d.overtaken
      /\ d.outcome = c.outcome /\ d.shown = c.shown /\ d.flags = c.flags /\ d.version = c.version
      /\ d.config = c.config
  BY <1>2, <1>4 DEF Deployment
<1>7. Breakdown(d) /\ Agreed(d) /\ HasVersion(d)' /\ Told(d)'
  BY <1>4, <1>5, <1>6 DEF Breakdown, Agreed, HasVersion, Told, Included
<1>8. PlatformTypes'  BY <1>3, <1>4, <1>5, <1>6 DEF PlatformTypes
<1> QED  BY <1>4, <1>7, <1>8 DEF DeployInv, Breakdown, Agreed, HasVersion, Told

LEMMA DeployStarts == ASSUME DeployInit  PROVE DeployInv
<1>1. PICK on \in SUBSET AppExts : versions = <<on>>  BY DEF DeployInit
<1>2. versions \in Seq(SUBSET AppExts) /\ 1 \in DOMAIN versions  BY <1>1
<1>3. NoDeploy \in Deployment /\ Breakdown(NoDeploy) /\ NoDeploy.at = "done"
  BY DEF NoDeploy, Deployment, Working, Flags, Breakdown
<1>4. PlatformTypes  BY <1>2, <1>3 DEF DeployInit, PlatformTypes
<1>5. Agreed(NoDeploy) /\ HasVersion(NoDeploy) /\ Told(NoDeploy)
  BY <1>3 DEF Agreed, HasVersion, Told
<1> QED  BY <1>3, <1>4, <1>5 DEF DeployInit, DeployInv

LEMMA DeployStepKeeps == ASSUME DeployInv, [DeployNext]_deployVars  PROVE DeployInv'
<1>1. CASE UNCHANGED deployVars
  BY <1>1 DEF deployVars, platformVars, DeployInv, PlatformTypes, Agreed, HasVersion, Told, Breakdown
<1>2. CASE DeployNext
  BY <1>2, StartDeployKeeps, ListRemoteKeeps, ConfirmKeeps, UploadedKeeps, CreateVersionKeeps,
     AnswerNoVersionKeeps, ReleaseVersionKeeps, EndsKeep, LoseAnswerKeeps, DiffVersionKeeps, OtherReleaseKeeps,
     CreateExtensionKeeps, StartReleaseKeeps
  DEF DeployNext
<1> QED  BY <1>1, <1>2

\* The types of the state, and its breakdown.
THEOREM DeployTypeCorrect == DeploySpec => []DeployTypeOK
<1>1. DeployInv => DeployTypeOK
  BY DEF DeployInv, PlatformTypes, Deployment, Working, Breakdown, HasVersion, DeployTypeOK
<1> QED  BY <1>1, DeployStarts, DeployStepKeeps, PTL DEF DeploySpec

\* No version is released without the modules of the one before it, unless the
\* command may delete, its user saw them, another developer released them after
\* it had looked, or include_config_on_deploy leaves them out (deploy, release).
THEOREM RemovesAsked == DeploySpec => NothingRemovedUnasked
<1>1. DeployInv /\ [DeployNext]_deployVars =>
        [Releases =>
          LET gone == versions[active] \ versions'[active']
          IN deploy.flags.deletes \/ gone \cap deploy.seen \subseteq deploy.shown \cup LeftOut(deploy)]_deployVars
  <2> SUFFICES ASSUME DeployInv, DeployNext, Releases
               PROVE  deploy.flags.deletes \/
                      (versions[active] \ versions'[active']) \cap deploy.seen
                          \subseteq deploy.shown \cup LeftOut(deploy)
    OBVIOUS
  <2>1. active' # active /\ ~OtherRelease  BY DEF Releases
  <2>2. PICK c : c = deploy  OBVIOUS
  <2>3. Agreed(c) /\ HasVersion(c) /\ PlatformTypes /\ c \in Deployment
    BY <2>2 DEF DeployInv, PlatformTypes
  <2>4. /\ c.at \in {"version", "release"}
        /\ versions'[active'] = Included(c)
    <3>1. Included(c) \in SUBSET AppExts  BY <2>3 DEF Deployment, Included
    <3>2. CASE /\ c.at = "version" /\ versions' = Append(versions, Included(c))
               /\ active' \in {active, Len(versions) + 1}
      BY <2>1, <2>3, <3>1, <3>2, AppendVersion
    <3>3. CASE c.at = "release" /\ active' = c.version /\ versions' = versions
      BY <2>3, <3>3 DEF HasVersion
    <3>4. CASE CreateVersion  BY <2>2, <3>2, <3>4 DEF CreateVersion
    <3>5. CASE ReleaseVersion  BY <2>2, <3>3, <3>5 DEF ReleaseVersion
    <3>6. CASE LoseAnswer  BY <2>1, <2>2, <3>2, <3>3, <3>6 DEF LoseAnswer
    <3>7. CASE \E e \in AppExts : CreateExtension(e)  BY <2>1, <3>7 DEF CreateExtension
    <3>8. CASE \E v \in 1..MaxVersions : StartRelease(v)
      BY <2>1, <3>8 DEF StartRelease, NoRequest, platformVars
    <3>9. CASE StartDeploy \/ ListRemote \/ Confirm \/ Decline \/ Uploaded
      BY <2>1, <3>9 DEF StartDeploy, ListRemote, Confirm, Decline, Uploaded, NoRequest, platformVars
    <3>10. CASE AnswerNoVersion \/ RefuseVersion \/ RefuseRelease \/ Report \/ FailDeploy \/ DiffVersion
      BY <2>1, <3>10
      DEF AnswerNoVersion, RefuseVersion, RefuseRelease, Report, FailDeploy, DiffVersion, NoRequest, platformVars
    <3> QED
      BY <2>1, <3>4, <3>5, <3>6, <3>7, <3>8, <3>9, <3>10 DEF DeployNext
  <2>5. c.onlyRemote = c.seen \ c.local /\ (c.flags.deletes \/ c.onlyRemote \subseteq c.shown)
    BY <2>3, <2>4 DEF Agreed
  <2> QED  BY <2>2, <2>4, <2>5 DEF LeftOut
<1> QED  BY <1>1, DeployStarts, DeployStepKeeps, PTL DEF DeploySpec, NothingRemovedUnasked

\* A success is told of the version that is released, unless another was
\* released since or the answer named none (upload_extensions_bundle,
\* release_version).
THEOREM ReportsReleased == DeploySpec => ReportedIsReleased
<1>1. DeployInv /\ [DeployNext]_deployVars =>
        [deploy.at # "done" /\ deploy'.outcome = "succeeded" /\ ~deploy.flags.noRelease =>
          active = deploy.version \/ deploy.overtaken \/ deploy.version = 0]_deployVars
  <2> SUFFICES ASSUME DeployInv, DeployNext, deploy.at # "done", deploy'.outcome = "succeeded",
                      ~deploy.flags.noRelease
               PROVE  active = deploy.version \/ deploy.overtaken \/ deploy.version = 0
    OBVIOUS
  <2>1. Told(deploy) /\ deploy \in Deployment  BY DEF DeployInv, PlatformTypes
  <2>2. Report
    <3>1. SUFFICES ASSUME ~Report  PROVE deploy'.outcome # "succeeded"  OBVIOUS
    <3>2. ASSUME Tell("failed")  PROVE deploy'.outcome # "succeeded"
      <4>1. deploy' = [NoDeploy EXCEPT !.outcome = "failed"]  BY <3>2 DEF Tell, Step
      <4>2. PICK d : d = [NoDeploy EXCEPT !.outcome = "failed"]  OBVIOUS
      <4>3. d.outcome = "failed"  BY <4>2, DoneDeploy
      <4> QED  BY <4>1, <4>2, <4>3
    <3>3. deploy.outcome = "none"  BY <2>1 DEF Told
    <3>4. CASE ListRemote \/ Uploaded \/ AnswerNoVersion \/ OtherRelease
      BY <2>1, <3>3, <3>4 DEF ListRemote, Uploaded, AnswerNoVersion, OtherRelease, Step, Deployment
    <3>5. CASE CreateVersion \/ ReleaseVersion \/ Confirm
      BY <2>1, <3>3, <3>5 DEF CreateVersion, ReleaseVersion, Confirm, Step, Deployment
    <3>6. CASE LoseAnswer
      <4>1. Tell("failed") \/ Step([deploy EXCEPT !.version = Len(versions) + 1])
        BY <3>6 DEF LoseAnswer
      <4>2. [deploy EXCEPT !.version = Len(versions) + 1].outcome = "none"
        BY <2>1, <3>3 DEF Deployment
      <4> QED  BY <3>2, <4>1, <4>2 DEF Step
    <3>7. CASE DiffVersion
      <4>1. Tell("failed") \/ \E r, s : Step([deploy EXCEPT !.at = "release", !.seen = s, !.onlyRemote = r])
        BY <3>7 DEF DiffVersion
      <4>2. \A r, s : [deploy EXCEPT !.at = "release", !.seen = s, !.onlyRemote = r].outcome = "none"
        BY <2>1, <3>3 DEF Deployment
      <4> QED  BY <3>2, <4>1, <4>2 DEF Step
    <3>8. CASE Decline \/ RefuseVersion \/ RefuseRelease \/ FailDeploy
      BY <3>2, <3>8 DEF Decline, RefuseVersion, RefuseRelease, FailDeploy
    <3>9. CASE \E e \in AppExts : CreateExtension(e)
      BY <2>1, <3>3, <3>9 DEF CreateExtension, Step, Deployment
    <3>10. ~StartDeploy /\ ~\E v \in 1..MaxVersions : StartRelease(v)
      BY DEF StartDeploy, StartRelease
    <3> QED  BY <3>1, <3>4, <3>5, <3>6, <3>7, <3>8, <3>9, <3>10 DEF DeployNext
  <2>3. deploy.at = "report"  BY <2>2 DEF Report
  <2> QED  BY <2>1, <2>3 DEF Told
<1> QED  BY <1>1, DeployStarts, DeployStepKeeps, PTL DEF DeploySpec, ReportedIsReleased

=============================================================================
