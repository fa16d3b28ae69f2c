-------------------------- MODULE AppServices_proofs --------------------------
(***************************************************************************)
(* Theorems about the parts of `app dev` and its neighbours that have      *)
(* variables of their own: the log poller, one request, the tools of       *)
(* functions, drafts, theme app extensions and previews.  Each has a typed *)
(* inductive invariant; none restricts how many logs, files, extensions,   *)
(* clients, processes or faults there are.                                 *)
(***************************************************************************)
EXTENDS AppLogs, ApiRequest, ToolDownload, DraftUpdates, ThemeExtHost, AppPreview,
        SequenceTheorems, TLAPS

-----------------------------------------------------------------------------
(* Channels: the last message of a kind that is still in one *)

\* A message of the set E is in the channel s.
HasOne(s, E) == \E i \in 1..Len(s) : s[i] \in E

\* The last message of E in s, if there is one, is in F.
LastIsIn(s, E, F) ==
    \A i \in 1..Len(s) :
        s[i] \in E /\ (\A j \in 1..Len(s) : j > i => s[j] \notin E) => s[i] \in F

\* A message that is sent is the last of its kind, and of no other.
LEMMA SendLast ==
    ASSUME NEW S, NEW s \in Seq(S), NEW e \in S, NEW E, NEW F
    PROVE  /\ HasOne(Append(s, e), E) <=> HasOne(s, E) \/ e \in E
           /\ e \in E /\ e \in F => LastIsIn(Append(s, e), E, F)
           /\ e \notin E /\ LastIsIn(s, E, F) => LastIsIn(Append(s, e), E, F)
<1> DEFINE t == Append(s, e)
<1>1. /\ Len(s) \in Nat /\ Len(t) = Len(s) + 1 /\ t[Len(s) + 1] = e
      /\ \A i \in 1..Len(s) : t[i] = s[i]
  BY AppendProperties
<1> HIDE DEF t
<1>2. \A i \in 1..Len(t) : i \in 1..Len(s) \/ i = Len(s) + 1  BY <1>1
<1>3. 1..Len(s) \subseteq 1..Len(t) /\ Len(s) + 1 \in 1..Len(t)  BY <1>1
<1>4. \A i \in 1..Len(s) : Len(s) + 1 > i  BY <1>1
<1>5. HasOne(t, E) <=> HasOne(s, E) \/ e \in E  BY <1>1, <1>2, <1>3 DEF HasOne
<1>6. e \in E /\ e \in F => LastIsIn(t, E, F)  BY <1>1, <1>2, <1>3, <1>4 DEF LastIsIn
<1>7. e \notin E /\ LastIsIn(s, E, F) => LastIsIn(t, E, F)
  BY <1>1, <1>2, <1>3 DEF LastIsIn
<1> QED  BY <1>5, <1>6, <1>7 DEF t

\* Receiving the first message leaves the last of a kind, unless it was that.
LEMMA ReceiveFirst ==
    ASSUME NEW S, NEW s \in Seq(S), s # <<>>, NEW E, NEW F
    PROVE  /\ HasOne(s, E) <=> HasOne(Tail(s), E) \/ Head(s) \in E
           /\ LastIsIn(s, E, F) => LastIsIn(Tail(s), E, F)
           /\ LastIsIn(s, E, F) /\ ~HasOne(Tail(s), E) /\ Head(s) \in E => Head(s) \in F
<1> DEFINE t == Tail(s)
<1>1. /\ Len(s) \in Nat \ {0} /\ Len(t) = Len(s) - 1 /\ Head(s) = s[1]
      /\ \A i \in 1..Len(t) : t[i] = s[i + 1]
  BY HeadTailProperties, EmptySeq, LenProperties
<1> HIDE DEF t
<1>2. \A i \in 1..Len(t) : i + 1 \in 1..Len(s)  BY <1>1
<1>3. ASSUME NEW i \in 1..Len(s), i # 1
      PROVE  i - 1 \in 1..Len(t) /\ s[i] = t[i - 1]
  <2>1. i - 1 \in 1..Len(t) /\ (i - 1) + 1 = i  BY <1>1, <1>3
  <2> QED  BY <1>1, <2>1
<1>4. HasOne(s, E) <=> HasOne(t, E) \/ Head(s) \in E
  <2>1. 1 \in 1..Len(s)  BY <1>1
  <2> QED  BY <1>1, <1>2, <1>3, <2>1 DEF HasOne
<1>5. ASSUME LastIsIn(s, E, F)  PROVE LastIsIn(t, E, F)
  <2> SUFFICES ASSUME NEW i \in 1..Len(t), t[i] \in E,
                      \A j \in 1..Len(t) : j > i => t[j] \notin E
               PROVE  t[i] \in F
    BY DEF LastIsIn
  <2>1. ASSUME NEW j \in 1..Len(s), j > i + 1  PROVE s[j] \notin E
    <3>1. j - 1 \in 1..Len(t) /\ j - 1 > i /\ s[j] = t[j - 1]  BY <1>1, <1>3, <2>1
    <3> QED  BY <3>1
  <2> QED  BY <1>1, <1>2, <1>5, <2>1 DEF LastIsIn
<1>6. ASSUME LastIsIn(s, E, F), ~HasOne(t, E), Head(s) \in E  PROVE Head(s) \in F
  <2>1. \A j \in 1..Len(s) : j > 1 => s[j] \notin E  BY <1>3, <1>6 DEF HasOne
  <2>2. 1 \in 1..Len(s)  BY <1>1
  <2> QED  BY <1>1, <1>6, <2>1, <2>2 DEF LastIsIn
<1> QED  BY <1>4, <1>5, <1>6 DEF t

\* An empty channel has no message.
LEMMA NothingSent == \A E, F : ~HasOne(<<>>, E) /\ LastIsIn(<<>>, E, F)
BY DEF HasOne, LastIsIn

-----------------------------------------------------------------------------
(* App logs *)

\* The poller's variables have their types.
LogsTypeOK ==
    /\ poller \in {"poll", "wait", "failed", "expired"}
    /\ cursor \in Nat /\ logged \in Nat /\ printed \in Seq(Nat)

\* What is on the screen are the first logs; while the loop goes on they are
\* those that the cursor is behind.
LogsIInv ==
    /\ LogsTypeOK
    /\ EachLogOnce
    /\ poller # "failed" => Len(printed) = cursor

\* More logs in their order go behind those that are printed.
LEMMA MoreLogs ==
    ASSUME LogsIInv, poller # "failed", NEW n \in Nat
    PROVE  LET more == printed \o [i \in 1..n |-> cursor + i]
           IN  /\ more \in Seq(Nat) /\ Len(more) = cursor + n
               /\ \A i \in DOMAIN more : more[i] = i
<1> DEFINE tail == [i \in 1..n |-> cursor + i]
           more == printed \o tail
<1>1. tail \in Seq(Nat) /\ Len(tail) = n  BY DEF LogsIInv, LogsTypeOK
<1>2. printed \in Seq(Nat) /\ Len(printed) = cursor /\ cursor \in Nat
  BY DEF LogsIInv, LogsTypeOK
<1>3. \A i \in 1..n : tail[i] = cursor + i  OBVIOUS
<1> HIDE DEF tail
<1>4. /\ more \in Seq(Nat) /\ Len(more) = cursor + n
      /\ \A i \in 1..(cursor + n) :
            more[i] = IF i <= cursor THEN printed[i] ELSE tail[i - cursor]
  BY <1>1, <1>2, ConcatProperties
<1>5. ASSUME NEW i \in 1..(cursor + n)  PROVE more[i] = i
  <2>1. CASE i <= cursor
    BY <2>1, <1>2, <1>4, <1>5 DEF LogsIInv, EachLogOnce
  <2>2. CASE i > cursor
    <3>1. i \in Nat /\ i - cursor \in 1..n  BY <2>2, <1>2, <1>5
    <3>2. tail[i - cursor] = cursor + (i - cursor)  BY <3>1, <1>3
    <3> QED  BY <3>1, <3>2, <2>2, <1>2, <1>4
  <2>3. i \in Nat /\ (i <= cursor \/ i > cursor)  BY <1>2, <1>5
  <2> QED  BY <2>1, <2>2, <2>3
<1>6. DOMAIN more = 1..(cursor + n)  BY <1>4
<1> QED  BY <1>4, <1>5, <1>6 DEF tail

\* Every step of the poller, the app and the server keeps the invariant.
LEMMA LogsStep == LogsIInv /\ [LogsNext]_logsVars => LogsIInv'
<1> SUFFICES ASSUME LogsIInv, [LogsNext]_logsVars  PROVE LogsIInv'
  OBVIOUS
<1>1. ASSUME NEW n \in 0..MaxLogs, PollLogs(n)  PROVE LogsIInv'
  <2>1. n \in Nat /\ n - cursor \in Nat /\ cursor + (n - cursor) = n
    BY <1>1, AppLogsAssumption DEF PollLogs, LogsIInv, LogsTypeOK
  <2>2. poller = "poll" /\ poller' = "wait" /\ cursor' = n /\ logged' = logged
    BY <1>1 DEF PollLogs, NextCursor
  <2>3. printed' = printed \o [i \in 1..(n - cursor) |-> cursor + i]  BY <1>1 DEF PollLogs
  <2>4. /\ printed' \in Seq(Nat) /\ Len(printed') = n
        /\ \A i \in DOMAIN printed' : printed'[i] = i
    BY <2>1, <2>2, <2>3, MoreLogs
  <2> QED  BY <2>1, <2>2, <2>4 DEF LogsIInv, LogsTypeOK, EachLogOnce
<1>2. ASSUME NEW n \in 0..MaxLogs, FailToShow(n)  PROVE LogsIInv'
  <2>1. /\ poller = "poll" /\ poller' = "failed"
        /\ cursor' = n /\ n \in Nat /\ logged' = logged
    BY <1>2, AppLogsAssumption DEF FailToShow
  <2>2. PICK k \in Nat : printed' = printed \o [i \in 1..k |-> cursor + i]
    <3>1. PICK k \in 0..(n - cursor) : printed' = printed \o [i \in 1..k |-> cursor + i]
      BY <1>2 DEF FailToShow
    <3>2. k \in Nat  BY <3>1, <2>1 DEF LogsIInv, LogsTypeOK
    <3> QED  BY <3>1, <3>2
  <2>3. printed' \in Seq(Nat) /\ \A i \in DOMAIN printed' : printed'[i] = i
    BY <2>1, <2>2, MoreLogs
  <2> QED  BY <2>1, <2>3 DEF LogsIInv, LogsTypeOK, EachLogOnce
<1>3. CASE FailPoll \/ Resubscribe \/ FailResubscribe \/ Wait \/ WriteLog \/ ExpireJwt
  BY <1>3 DEF FailPoll, Resubscribe, FailResubscribe, Wait, WriteLog, ExpireJwt, pollerVars,
              LogsIInv, LogsTypeOK, EachLogOnce
<1>4. CASE UNCHANGED logsVars
  BY <1>4 DEF logsVars, pollerVars, LogsIInv, LogsTypeOK, EachLogOnce
<1> QED  BY <1>1, <1>2, <1>3, <1>4 DEF LogsNext

\* Each log is shown once and in order, for any number of logs, refusals and
\* expired tokens (poll_once, run_loop).
THEOREM LogsShownOnce == FairLogsSpec => []EachLogOnce
<1>1. LogsInit => LogsIInv
  BY DEF LogsInit, LogsIInv, LogsTypeOK, EachLogOnce
<1>2. LogsIInv => EachLogOnce  BY DEF LogsIInv
<1> QED  BY <1>1, <1>2, LogsStep, PTL DEF FairLogsSpec

-----------------------------------------------------------------------------
(* One request *)

RequestTypeOK ==
    /\ query \in [at : {"send", "backoff", "ok", "error"}, token : Nat, refreshes : BOOLEAN,
                  elapsed : Nat, attempt : {0, 1}]
    /\ validToken \in Nat /\ executions \in Nat /\ answersLost \in Nat

\* As long as the request may be sent again, every execution lost its answer.
RequestIInv ==
    /\ RequestTypeOK
    /\ RepeatsOnlyLost
    /\ query.at \in {"send", "backoff"} => executions = answersLost

\* Every answer, loss and delay keeps the invariant.
LEMMA RequestStep == RequestIInv /\ [RequestNext]_requestVars => RequestIInv'
<1> SUFFICES ASSUME RequestIInv, [RequestNext]_requestVars  PROVE RequestIInv'
  OBVIOUS
<1> USE DEF RequestIInv, RequestTypeOK, RepeatsOnlyLost, QueryAt, Sent, Executed, RequestFault
<1>1. CASE Succeed  BY <1>1 DEF Succeed
<1>2. CASE LoseRequest  BY <1>2 DEF LoseRequest
<1>3. CASE FailOnServer  BY <1>3 DEF FailOnServer, ServerErrorLeadsTo
<1>4. CASE BeThrottled  BY <1>4 DEF BeThrottled
<1>5. CASE BeRefused  BY <1>5 DEF BeRefused
<1>6. CASE BeUnauthorized  BY <1>6 DEF BeUnauthorized
<1>7. CASE ExpireToken  BY <1>7 DEF ExpireToken
<1>8. CASE BackOff
  <2>1. Delays \subseteq Nat  BY ApiRequestAssumption DEF Delays
  <2>2. PICK delay \in Delays, took \in {0, 1} :
          LET elapsed == query.elapsed + took + delay
          IN query' = IF elapsed > RetryTime THEN [query EXCEPT !.at = "error"]
                      ELSE [query EXCEPT !.at = "send", !.elapsed = elapsed, !.attempt = 1]
    BY <1>8 DEF BackOff
  <2>3. query.elapsed + took + delay \in Nat  BY <2>1
  <2> QED  BY <1>8, <2>2, <2>3 DEF BackOff
<1>9. CASE UNCHANGED requestVars  BY <1>9 DEF requestVars
<1> QED
  BY <1>1, <1>2, <1>3, <1>4, <1>5, <1>6, <1>7, <1>8, <1>9 DEF RequestNext

\* However long requests are tried again and whatever the backoff, a mutation
\* is executed more than once only for answers that were lost (execute).
THEOREM RepeatsAreOfLostAnswers == RequestSpec => []RepeatsOnlyLost
<1>1. RequestInit => RequestIInv
  BY DEF RequestInit, RequestIInv, RequestTypeOK, RepeatsOnlyLost
<1>2. RequestIInv => RepeatsOnlyLost  BY DEF RequestIInv
<1> QED  BY <1>1, <1>2, RequestStep, PTL DEF RequestSpec

-----------------------------------------------------------------------------
(* The tools of functions *)

ToolTypeOK ==
    /\ tool \in {"none", "part", "whole"} /\ renames \in BOOLEAN
    /\ build \in [Builds -> [at : {"idle", "lock", "download", "install", "copy", "found",
                                   "failed"},
                             attempts : Nat]]
    /\ toolLock \in [ToolProcs -> BOOLEAN]

Holds(b) == build[b].at \in {"download", "install", "copy"}

\* "Concurrent callers share a lock so two perform_downloads cannot clobber the
\* same path": in one process one caller downloads.
OneDownload ==
    \A b, c \in Builds : Process(b) = Process(c) /\ Holds(b) /\ Holds(c) => b = c

\* Where files can be renamed nobody copies, and a tool that was found is there.
ToolIInv ==
    /\ ToolTypeOK
    /\ \A b \in Builds : Holds(b) => toolLock[Process(b)]
    /\ OneDownload
    /\ renames => tool # "part" /\ \A b \in Builds : ~BuildAt(b, "copy")
    /\ \A b \in Builds : BuildAt(b, "found") => tool # "none"

\* A caller that gives the lock back leaves no other in its process that holds it.
LEMMA HolderLeaves ==
    ASSUME ToolIInv, NEW b \in Builds, Holds(b),
           build' \in [Builds -> [at : {"idle", "lock", "download", "install", "copy", "found",
                                        "failed"},
                                  attempts : Nat]],
           build'[b].at \in {"found", "failed"},
           \A c \in Builds \ {b} : build'[c] = build[c],
           toolLock' = [toolLock EXCEPT ![Process(b)] = FALSE],
           tool' \in {tool, "whole"}, renames' = renames,
           build'[b].at = "found" => tool' = "whole"
    PROVE  ToolIInv'
<1> USE DEF ToolIInv, ToolTypeOK, OneDownload, Holds, BuildAt
<1>0. \A c \in Builds : Process(c) \in ToolProcs  BY DEF Builds, Process
<1>1. ToolTypeOK'  BY <1>0
<1>2. \A c \in Builds : Holds(c)' => c # b /\ Holds(c) /\ Process(c) # Process(b)  OBVIOUS
<1>3. \A c \in Builds : Holds(c)' => toolLock'[Process(c)]  BY <1>0, <1>2
<1>4. OneDownload'  BY <1>2
<1>5. renames' => tool' # "part" /\ \A c \in Builds : ~BuildAt(c, "copy")'  BY <1>1
<1>6. \A c \in Builds : BuildAt(c, "found")' => tool' # "none"  BY <1>1
<1> QED  BY <1>1, <1>3, <1>4, <1>5, <1>6

\* Every step of a caller, and a kill, keeps the invariant.
LEMMA ToolStep == ToolIInv /\ [ToolNext]_toolVars => ToolIInv'
<1> SUFFICES ASSUME ToolIInv, [ToolNext]_toolVars  PROVE ToolIInv'
  OBVIOUS
<1> USE DEF ToolIInv, ToolTypeOK, OneDownload, Holds, BuildAt, BuildGoes, Release
<1>0. \A b \in Builds : Process(b) \in ToolProcs  BY DEF Builds, Process
<1>1. ASSUME NEW b \in Builds, CheckTool(b)  PROVE ToolIInv'
  BY <1>1, <1>0 DEF CheckTool
<1>2. ASSUME NEW b \in Builds, LockDownload(b)  PROVE ToolIInv'
  <2>1. CASE tool # "none"  BY <1>2, <1>0, <2>1 DEF LockDownload
  <2>2. CASE tool = "none"
    <3>1. /\ build' = [build EXCEPT ![b].at = "download"]
          /\ toolLock' = [toolLock EXCEPT ![Process(b)] = TRUE]
          /\ UNCHANGED <<tool, renames>>
      BY <1>2, <2>2 DEF LockDownload
    <3>2. ToolTypeOK'  BY <3>1, <1>0
    <3>3. \A c \in Builds : Process(c) = Process(b) => ~Holds(c)  BY <1>2 DEF LockDownload
    <3>4. \A c \in Builds \ {b} : build'[c] = build[c]  BY <3>1
    <3>5. build'[b].at = "download"  BY <3>1
    <3>6. OneDownload'
      <4> SUFFICES ASSUME NEW c \in Builds, NEW d \in Builds, Process(c) = Process(d),
                          Holds(c)', Holds(d)', c # d
                   PROVE  FALSE
        OBVIOUS
      <4> QED  BY <3>3, <3>4
    <3> QED  BY <3>1, <3>2, <3>4, <3>5, <3>6, <1>0
  <2> QED  BY <2>1, <2>2
<1>3. ASSUME NEW b \in Builds, TryDownload(b)  PROVE ToolIInv'
  BY <1>3, <1>0 DEF TryDownload
<1>4. ASSUME NEW b \in Builds, FailDownload(b)  PROVE ToolIInv'
  <2>1. CASE build[b].attempts + 1 < DownloadAttempts
    <3>1. /\ build' = [build EXCEPT ![b].attempts = @ + 1, ![b].at = "download"]
          /\ UNCHANGED <<tool, renames>> /\ Holds(b)
      BY <1>4, <2>1 DEF FailDownload
    <3>2. build'[b].at # "failed"  BY <3>1
    <3>3. toolLock' = toolLock  BY <1>4, <3>2 DEF FailDownload
    <3>4. build'[b] = [build[b] EXCEPT !.attempts = @ + 1, !.at = "download"]  BY <3>1
    <3>5. ToolTypeOK'
      <4> DEFINE R == [at : {"idle", "lock", "download", "install", "copy", "found", "failed"},
                       attempts : Nat]
      <4>1. build[b] \in R /\ build[b].attempts + 1 \in Nat  OBVIOUS
      <4>2. [build[b] EXCEPT !.attempts = @ + 1, !.at = "download"] \in R  BY <4>1
      <4>3. build' \in [Builds -> R]  BY <3>1, <3>4, <4>2
      <4> QED  BY <3>1, <3>3, <4>3
    <3>6. \A c \in Builds : Holds(c)' => Holds(c)  BY <3>1
    <3> QED  BY <3>1, <3>3, <3>5, <3>6
  <2>2. CASE ~(build[b].attempts + 1 < DownloadAttempts)
    <3>1. /\ build' = [build EXCEPT ![b].attempts = @ + 1, ![b].at = "failed"]
          /\ toolLock' = [toolLock EXCEPT ![Process(b)] = FALSE]
          /\ UNCHANGED <<tool, renames>>
      BY <1>4, <2>2 DEF FailDownload
    <3>2. Holds(b)  BY <1>4 DEF FailDownload
    <3> QED  BY <3>1, <3>2, HolderLeaves
  <2> QED  BY <2>1, <2>2
<1>5. ASSUME NEW b \in Builds, Install(b)  PROVE ToolIInv'
  <2>1. CASE renames
    <3>1. /\ build' = [build EXCEPT ![b].at = "found"]
          /\ toolLock' = [toolLock EXCEPT ![Process(b)] = FALSE]
          /\ tool' = "whole" /\ UNCHANGED renames
      BY <1>5, <2>1 DEF Install, Renamed
    <3>2. Holds(b)  BY <1>5 DEF Install
    <3> QED  BY <3>1, <3>2, HolderLeaves
  <2>2. CASE ~renames  BY <1>5, <1>0, <2>2 DEF Install, Renamed
  <2> QED  BY <2>1, <2>2
<1>6. ASSUME NEW b \in Builds, FinishCopy(b)  PROVE ToolIInv'
  BY <1>6, <1>0 DEF FinishCopy
<1>7. ASSUME NEW p \in ToolProcs, KillProcess(p)  PROVE ToolIInv'
  BY <1>7, <1>0 DEF KillProcess, NotBuilding
<1>8. ASSUME NEW b \in Builds, RunTool(b)  PROVE ToolIInv'
  BY <1>8, <1>0 DEF RunTool
<1>9. CASE UNCHANGED toolVars  BY <1>9 DEF toolVars
<1> QED
  BY <1>1, <1>2, <1>3, <1>4, <1>5, <1>6, <1>7, <1>8, <1>9 DEF ToolNext

\* For any number of processes and callers in them, whoever is told that the
\* tool is there finds all of it, where files can be renamed (perform_download).
THEOREM ToolsFoundWhole == ToolSpec => []FoundWhole
<1>1. ToolInit => ToolIInv
  BY DEF ToolInit, ToolIInv, ToolTypeOK, OneDownload, Holds, BuildAt, NotBuilding
<1>2. ToolIInv => FoundWhole  BY DEF ToolIInv, ToolTypeOK, FoundWhole, BuildAt
<1> QED  BY <1>1, <1>2, ToolStep, PTL DEF ToolSpec

\* One download per process at a time, renamed or copied, with failures and
\* kills (download_binary).
THEOREM OneDownloadPerProcess == ToolSpec => []OneDownload
<1>1. ToolInit => ToolIInv
  BY DEF ToolInit, ToolIInv, ToolTypeOK, OneDownload, Holds, BuildAt, NotBuilding
<1>2. ToolIInv => OneDownload  BY DEF ToolIInv
<1> QED  BY <1>1, <1>2, ToolStep, PTL DEF ToolSpec

-----------------------------------------------------------------------------
(* Drafts *)

BuildEvent == [ext : DraftExts, config : Nat, ok : BOOLEAN]

DraftTypeOK ==
    /\ edited \in [DraftExts -> Nat] /\ builtVersion \in [DraftExts -> Nat]
    /\ buildEvents \in Seq(BuildEvent)
    /\ \/ update = NoUpdate
       \/ update \in [at : {"read", "send"}, event : BuildEvent, script : Nat]
    /\ drafts \in [DraftExts -> [config : Nat, script : Nat]]

\* The events of x that become updates, and those that tell of the version v.
Good(x) == {e \in BuildEvent : e.ext = x /\ e.ok}
Telling(v) == {e \in BuildEvent : e.config = v}
Updating(x) == update # NoUpdate /\ update.event.ext = x

\* The last good event of x in the channel has the configuration of its last
\* build; without one the update under way has it, and without that the draft.
UpToDate(x) ==
    /\ LastIsIn(buildEvents, Good(x), Telling(builtVersion[x]))
    /\ ~HasOne(buildEvents, Good(x)) /\ Updating(x) =>
          /\ update.event.config = builtVersion[x]
          /\ update.at = "send" => update.script = builtVersion[x]
    /\ ~HasOne(buildEvents, Good(x)) /\ ~Updating(x) /\ x \notin refused =>
          drafts[x] = [config |-> builtVersion[x], script |-> builtVersion[x]]

DraftIInv ==
    /\ DraftTypeOK
    /\ \A x \in KnownExts : UpToDate(x)

\* What UpToDate looks at is not touched.
LEMMA DraftStays ==
    ASSUME DraftIInv, UNCHANGED <<builtVersion, buildEvents, update, drafts, refused>>,
           edited' \in [DraftExts -> Nat]
    PROVE  DraftIInv'
BY DEF DraftIInv, DraftTypeOK, UpToDate, Good, Telling, Updating, NoUpdate, BuildEvent

\* A build that fails changes nothing; one that succeeds is told of last.
LEMMA BuildStep ==
    ASSUME DraftIInv, NEW y \in DraftExts, BuildExtension(y)
    PROVE  DraftIInv'
<1>1. PICK ok \in BOOLEAN :
        /\ buildEvents' = Append(buildEvents, [ext |-> y, config |-> edited[y], ok |-> ok])
        /\ builtVersion' = IF ok THEN [builtVersion EXCEPT ![y] = edited[y]] ELSE builtVersion
  BY DEF BuildExtension
<1> DEFINE e == [ext |-> y, config |-> edited[y], ok |-> ok]
<1>2. UNCHANGED <<edited, update, drafts, refused>>  BY DEF BuildExtension
<1>3. e \in BuildEvent /\ e.ext = y /\ e.config = edited[y] /\ e.ok = ok
  BY DEF BuildEvent, DraftIInv, DraftTypeOK
<1>4. buildEvents' = Append(buildEvents, e) /\ buildEvents \in Seq(BuildEvent)
  BY <1>1 DEF DraftIInv, DraftTypeOK
<1> HIDE DEF e
<1>5. buildEvents' \in Seq(BuildEvent)  BY <1>3, <1>4, AppendProperties
<1>6. builtVersion' \in [DraftExts -> Nat] /\ builtVersion \in [DraftExts -> Nat]
  BY <1>1 DEF DraftIInv, DraftTypeOK
<1>7. DraftTypeOK'
  BY <1>2, <1>5, <1>6 DEF DraftIInv, DraftTypeOK, NoUpdate, BuildEvent
<1>8. ASSUME NEW x \in KnownExts  PROVE UpToDate(x)'
  <2>1. x \in DraftExts /\ UpToDate(x)  BY DraftUpdatesAssumption DEF DraftIInv
  <2>2. CASE x = y /\ ok
    <3>1. builtVersion'[x] = edited[x]  BY <1>1, <1>6, <2>1, <2>2
    <3>2. e \in Good(x) /\ e \in Telling(builtVersion'[x])
      BY <1>3, <2>2, <3>1 DEF Good, Telling
    <3>3. /\ HasOne(buildEvents', Good(x))
          /\ LastIsIn(buildEvents', Good(x), Telling(builtVersion'[x]))
      BY <1>3, <1>4, <3>2, SendLast
    <3> QED  BY <3>3 DEF UpToDate
  <2>3. CASE ~(x = y /\ ok)
    <3>1. builtVersion'[x] = builtVersion[x]  BY <1>1, <1>6, <2>1, <2>3
    <3>2. e \notin Good(x)  BY <1>3, <2>3 DEF Good
    <3>3. LastIsIn(buildEvents, Good(x), Telling(builtVersion[x]))  BY <2>1 DEF UpToDate
    <3>4. /\ HasOne(buildEvents', Good(x)) <=> HasOne(buildEvents, Good(x))
          /\ LastIsIn(buildEvents', Good(x), Telling(builtVersion[x]))
      BY <1>3, <1>4, <3>2, <3>3, SendLast
    <3>5. Updating(x)' <=> Updating(x)  BY <1>2 DEF Updating, NoUpdate
    <3> QED  BY <1>2, <2>1, <3>1, <3>4, <3>5 DEF UpToDate
  <2> QED  BY <2>2, <2>3
<1> QED  BY <1>7, <1>8 DEF DraftIInv

\* The first event starts an update if it is good, and else nothing.
LEMMA ReceiveStep ==
    ASSUME DraftIInv, ReceiveEvent
    PROVE  DraftIInv'
<1> DEFINE e == Head(buildEvents)
<1>1. /\ buildEvents \in Seq(BuildEvent) /\ buildEvents # <<>>
      /\ buildEvents' = Tail(buildEvents)
      /\ UNCHANGED <<edited, builtVersion, drafts, refused>>
  BY DEF ReceiveEvent, DraftIInv, DraftTypeOK
<1>2. e \in BuildEvent /\ buildEvents' \in Seq(BuildEvent)  BY <1>1, HeadTailProperties
<1>3. update = NoUpdate
  BY DEF ReceiveEvent, DraftIInv, DraftTypeOK, NoUpdate
<1>4. update' = IF Draftable(e) THEN [at |-> "read", event |-> e, script |-> 0] ELSE NoUpdate
  BY DEF ReceiveEvent
<1> HIDE DEF e
<1>5. update' = NoUpdate \/ update' \in [at : {"read", "send"}, event : BuildEvent, script : Nat]
  BY <1>2, <1>4
<1>6. DraftTypeOK'
  BY <1>1, <1>2, <1>5 DEF DraftIInv, DraftTypeOK, NoUpdate, BuildEvent
<1>7. ASSUME NEW x \in KnownExts  PROVE UpToDate(x)'
  <2>1. UpToDate(x) /\ ~Updating(x)  BY <1>3 DEF DraftIInv, Updating
  <2>2. /\ HasOne(buildEvents, Good(x)) <=> HasOne(buildEvents', Good(x)) \/ e \in Good(x)
        /\ LastIsIn(buildEvents', Good(x), Telling(builtVersion'[x]))
        /\ ~HasOne(buildEvents', Good(x)) /\ e \in Good(x) => e \in Telling(builtVersion[x])
    BY <1>1, <2>1, ReceiveFirst DEF UpToDate, e
  <2>3. CASE e \in Good(x)
    <3>1. /\ update' = [at |-> "read", event |-> e, script |-> 0]
      BY <1>4, <2>3 DEF Good, Draftable
    <3>2. Updating(x)'  BY <3>1, <2>3 DEF Updating, NoUpdate, Good
    <3>3. ~HasOne(buildEvents', Good(x)) => update'.event.config = builtVersion'[x]
      BY <1>1, <2>2, <2>3, <3>1 DEF Telling
    <3> QED  BY <2>2, <3>1, <3>2, <3>3 DEF UpToDate
  <2>4. CASE e \notin Good(x)
    <3>1. ~Updating(x)'  BY <1>2, <1>4, <2>4 DEF Updating, NoUpdate, Good, Draftable
    <3> QED  BY <1>1, <2>1, <2>2, <2>4, <3>1 DEF UpToDate
  <2> QED  BY <2>3, <2>4
<1> QED  BY <1>6, <1>7 DEF DraftIInv

\* Reading the output and sending, whatever is built meanwhile.
LEMMA SendStep ==
    ASSUME DraftIInv, ReadOutput \/ SendDraft
    PROVE  DraftIInv'
<1> DEFINE y == update.event.ext
<1>1. /\ UNCHANGED <<edited, builtVersion, buildEvents>>
      /\ update \in [at : {"read", "send"}, event : BuildEvent, script : Nat]
      /\ update # NoUpdate /\ y \in DraftExts
  BY DEF ReadOutput, SendDraft, DraftIInv, DraftTypeOK, NoUpdate, BuildEvent
<1>2. CASE ReadOutput
  <2>1. /\ update' = [update EXCEPT !.at = "send", !.script = builtVersion[y]]
        /\ UNCHANGED <<drafts, refused>>
    BY <1>2 DEF ReadOutput
  <2>2. /\ update' \in [at : {"read", "send"}, event : BuildEvent, script : Nat]
        /\ update' # NoUpdate /\ update'.event = update.event
        /\ update'.script = builtVersion[y]
    BY <1>1, <2>1 DEF DraftIInv, DraftTypeOK, NoUpdate
  <2>3. DraftTypeOK'  BY <1>1, <2>1, <2>2 DEF DraftIInv, DraftTypeOK, NoUpdate, BuildEvent
  <2>4. ASSUME NEW x \in KnownExts  PROVE UpToDate(x)'
    <3>1. UpToDate(x) /\ (Updating(x)' <=> Updating(x))
      BY <1>1, <2>2 DEF DraftIInv, Updating, NoUpdate
    <3> QED  BY <1>1, <2>1, <2>2, <3>1 DEF UpToDate, Updating
  <2> QED  BY <2>3, <2>4 DEF DraftIInv
<1>3. CASE SendDraft
  <2>1. update' = NoUpdate /\ update.at = "send"  BY <1>3 DEF SendDraft
  <2>2. \/ /\ drafts' = [drafts EXCEPT ![y] = [config |-> update.event.config,
                                              script |-> update.script]]
           /\ refused' = refused \ {y}
        \/ refused' = refused \cup {y} /\ drafts' = drafts
    BY <1>3 DEF SendDraft
  <2>3. drafts' \in [DraftExts -> [config : Nat, script : Nat]]
    <3>1. [config |-> update.event.config, script |-> update.script]
             \in [config : Nat, script : Nat]
      BY <1>1 DEF BuildEvent
    <3> QED  BY <2>2, <3>1 DEF DraftIInv, DraftTypeOK
  <2>4. DraftTypeOK'  BY <1>1, <2>1, <2>3 DEF DraftIInv, DraftTypeOK, NoUpdate, BuildEvent
  <2>5. ASSUME NEW x \in KnownExts  PROVE UpToDate(x)'
    <3>1. UpToDate(x) /\ ~Updating(x)' /\ x \in DraftExts
      BY <2>1, DraftUpdatesAssumption DEF DraftIInv, Updating, NoUpdate
    <3>2. CASE x = y
      <4>1. Updating(x)  BY <1>1, <3>2 DEF Updating
      <4>2. ~HasOne(buildEvents, Good(x)) =>
              update.event.config = builtVersion[x] /\ update.script = builtVersion[x]
        BY <2>1, <3>1, <4>1 DEF UpToDate
      <4>3. x \notin refused' => drafts'[x] = [config |-> update.event.config,
                                               script |-> update.script]
        BY <2>2, <3>1, <3>2 DEF DraftIInv, DraftTypeOK
      <4> QED  BY <1>1, <3>1, <4>2, <4>3 DEF UpToDate
    <3>3. CASE x # y
      <4>1. ~Updating(x)  BY <3>3 DEF Updating
      <4>2. drafts'[x] = drafts[x] /\ (x \in refused' <=> x \in refused)
        BY <2>2, <3>1, <3>3 DEF DraftIInv, DraftTypeOK
      <4> QED  BY <1>1, <3>1, <4>1, <4>2 DEF UpToDate
    <3> QED  BY <3>2, <3>3
  <2> QED  BY <2>4, <2>5 DEF DraftIInv
<1> QED  BY <1>2, <1>3

\* For any number of extensions, edits, builds and refusals: when all events are
\* handled, a draft is of the last build that succeeded (run_draftable).
THEOREM DraftsFollowBuilds == DraftSpec => []DraftFollowsBuild
<1>1. DraftInit => DraftIInv
  BY NothingSent, DraftUpdatesAssumption
     DEF DraftInit, DraftIInv, DraftTypeOK, UpToDate, Updating
<1>2. DraftIInv /\ [DraftNext]_draftVars => DraftIInv'
  <2> SUFFICES ASSUME DraftIInv, [DraftNext]_draftVars  PROVE DraftIInv'
    OBVIOUS
  <2>1. ASSUME NEW x \in DraftExts, EditExtension(x)  PROVE DraftIInv'
    BY <2>1, DraftStays DEF EditExtension, DraftIInv, DraftTypeOK
  <2>2. ASSUME NEW x \in DraftExts, BuildExtension(x)  PROVE DraftIInv'
    BY <2>2, BuildStep
  <2>3. CASE ReceiveEvent  BY <2>3, ReceiveStep
  <2>4. CASE ReadOutput \/ SendDraft  BY <2>4, SendStep
  <2>5. CASE UNCHANGED draftVars
    BY <2>5, DraftStays DEF draftVars, DraftIInv, DraftTypeOK
  <2> QED  BY <2>1, <2>2, <2>3, <2>4, <2>5 DEF DraftNext
<1>3. DraftIInv => DraftFollowsBuild
  BY NothingSent, DraftUpdatesAssumption DEF DraftIInv, UpToDate, DraftFollowsBuild, Updating
<1> QED  BY <1>1, <1>2, <1>3, PTL DEF DraftSpec

-----------------------------------------------------------------------------
(* Theme app extensions *)

FileEvent == [kind : {"update", "delete"}, file : ExtFiles]

ExtHostTypeOK ==
    /\ extDisk \in [ExtFiles -> Nat] /\ extMemory \in [ExtFiles -> Nat]
    /\ told \in [ExtFiles -> Nat] /\ extEdits \in Nat
    /\ extEvents \in Seq(FileEvent)
    /\ handling = NoFile \/ handling \in [file : ExtFiles, content : Nat]

EventsOf(f) == {e \in FileEvent : e.file = f}
Handling(f) == handling # NoFile /\ handling.file = f

\* A file that is gone was deleted, or updated by a move.
Gone(f) == extDisk[f] = 0
Fitting(f) ==
    {e \in FileEvent : IF e.kind = "delete" THEN Gone(f) ELSE Gone(f) => f \in movedAway}

\* The last event of f fits the disk; without one the update that is handled
\* has read what is on the disk, and without that the server serves it.
Followed(f) ==
    /\ LastIsIn(extEvents, EventsOf(f), Fitting(f))
    /\ ~HasOne(extEvents, EventsOf(f)) /\ Handling(f) =>
          handling.content = extDisk[f] /\ (Gone(f) => f \in movedAway)
    /\ ~HasOne(extEvents, EventsOf(f)) /\ ~Handling(f) /\ f \notin unread =>
          /\ extMemory[f] = extDisk[f]
          /\ told[f] = extDisk[f] \/ f \in movedAway \/ extDisk[f] = EmptyFile

ExtHostIInv ==
    /\ ExtHostTypeOK
    /\ \A f \in WatchedFiles : Followed(f)

\* Any edit of a file: it is told of last, if its directory is watched.
LEMMA EditStep ==
    ASSUME ExtHostIInv, NEW g \in ExtFiles, NEW content \in Nat, NEW kind \in {"update", "delete"},
           EditFile(g, content, kind), movedAway' \ {g} = movedAway \ {g},
           IF kind = "delete" THEN content = 0 ELSE content = 0 => g \in movedAway'
    PROVE  ExtHostIInv'
<1> DEFINE e == [kind |-> kind, file |-> g]
<1>1. /\ UNCHANGED <<extMemory, handling, told, unread>>
      /\ extDisk' = [extDisk EXCEPT ![g] = content] /\ extEdits' = extEdits + 1
      /\ extEvents' = IF g \in WatchedFiles THEN Append(extEvents, e) ELSE extEvents
  BY DEF EditFile, extServerVars
<1>2. e \in FileEvent /\ e.file = g /\ e.kind = kind  BY DEF FileEvent
<1> HIDE DEF e
<1>3. extEvents \in Seq(FileEvent) /\ extEvents' \in Seq(FileEvent)
  BY <1>1, <1>2, AppendProperties DEF ExtHostIInv, ExtHostTypeOK
<1>4. extDisk' \in [ExtFiles -> Nat] /\ extDisk \in [ExtFiles -> Nat]
  BY <1>1 DEF ExtHostIInv, ExtHostTypeOK
<1>5. ExtHostTypeOK'  BY <1>1, <1>3, <1>4 DEF ExtHostIInv, ExtHostTypeOK, NoFile, FileEvent
<1>6. ASSUME NEW f \in WatchedFiles  PROVE Followed(f)'
  <2>1. f \in ExtFiles /\ Followed(f)  BY ThemeExtHostAssumption DEF ExtHostIInv
  <2>2. CASE f = g
    <3>1. extEvents' = Append(extEvents, e) /\ extDisk'[f] = content  BY <1>1, <1>4, <2>2
    <3>2. e \in EventsOf(f)  BY <1>2, <2>2 DEF EventsOf
    <3>3. e \in Fitting(f)'  BY <1>2, <2>2, <3>1 DEF Fitting, Gone, FileEvent
    <3>4. HasOne(extEvents', EventsOf(f)) /\ LastIsIn(extEvents', EventsOf(f), Fitting(f)')
      BY <1>2, <1>3, <3>1, <3>2, <3>3, SendLast
    <3> QED  BY <3>4 DEF Followed, EventsOf, FileEvent
  <2>3. CASE f # g
    <3>1. extDisk'[f] = extDisk[f] /\ (f \in movedAway' <=> f \in movedAway)
      BY <1>1, <1>4, <2>1, <2>3
    <3>2. e \notin EventsOf(f)  BY <1>2, <2>3 DEF EventsOf
    <3>3. Fitting(f)' = Fitting(f)  BY <3>1 DEF Fitting, Gone, FileEvent
    <3>4. /\ HasOne(extEvents', EventsOf(f)) <=> HasOne(extEvents, EventsOf(f))
          /\ LastIsIn(extEvents', EventsOf(f), Fitting(f))
      BY <1>1, <1>2, <1>3, <2>1, <3>2, SendLast DEF Followed
    <3>5. Handling(f)' <=> Handling(f)  BY <1>1 DEF Handling, NoFile
    <3> QED
      BY <1>1, <2>1, <3>1, <3>3, <3>4, <3>5
         DEF Followed, Gone, EventsOf, FileEvent, EmptyFile
  <2> QED  BY <2>2, <2>3
<1> QED  BY <1>5, <1>6 DEF ExtHostIInv

\* The first event is taken: an update is read, a deletion is done at once.
LEMMA TakeStep ==
    ASSUME ExtHostIInv, ReadExtFile \/ ForgetExtFile
    PROVE  ExtHostIInv'
<1> DEFINE e == Head(extEvents)
<1>1. /\ extEvents \in Seq(FileEvent) /\ extEvents # <<>> /\ handling = NoFile
      /\ extEvents' = Tail(extEvents)
      /\ UNCHANGED <<extDisk, movedAway, extEdits>>
      /\ extDisk \in [ExtFiles -> Nat] /\ extMemory \in [ExtFiles -> Nat]
      /\ told \in [ExtFiles -> Nat]
  BY DEF ReadExtFile, ForgetExtFile, NextEvent, extDiskVars, ExtHostIInv, ExtHostTypeOK
<1>2. e \in FileEvent /\ e.file \in ExtFiles /\ extEvents' \in Seq(FileEvent)
  <2>1. e \in FileEvent /\ extEvents' \in Seq(FileEvent)  BY <1>1, HeadTailProperties
  <2> QED  BY <2>1 DEF FileEvent
<1>3. CASE ReadExtFile
  <2>1. /\ handling' = [file |-> e.file, content |-> extDisk[e.file]] /\ e.kind = "update"
        /\ UNCHANGED <<extMemory, told, unread>>
    BY <1>3 DEF ReadExtFile, NextEvent
  <2>2. ExtHostTypeOK'
    BY <1>1, <1>2, <2>1 DEF ExtHostIInv, ExtHostTypeOK, NoFile, FileEvent
  <2>3. ASSUME NEW f \in WatchedFiles  PROVE Followed(f)'
    <3>1. f \in ExtFiles /\ Followed(f) /\ ~Handling(f)
      BY <1>1, ThemeExtHostAssumption DEF ExtHostIInv, Handling
    <3>2. /\ HasOne(extEvents, EventsOf(f)) <=> HasOne(extEvents', EventsOf(f)) \/ e \in EventsOf(f)
          /\ LastIsIn(extEvents', EventsOf(f), Fitting(f))
          /\ ~HasOne(extEvents', EventsOf(f)) /\ e \in EventsOf(f) => e \in Fitting(f)
      BY <1>1, <3>1, ReceiveFirst DEF Followed
    <3>3. Fitting(f)' = Fitting(f)  BY <1>1 DEF Fitting, Gone, FileEvent
    <3>4. Handling(f)' <=> e \in EventsOf(f)
      BY <1>2, <2>1 DEF Handling, NoFile, EventsOf
    <3> QED
      BY <1>1, <2>1, <3>1, <3>2, <3>3, <3>4
         DEF Followed, Gone, EventsOf, FileEvent, EmptyFile, Fitting
  <2> QED  BY <2>2, <2>3 DEF ExtHostIInv
<1>4. CASE ForgetExtFile
  <2>1. /\ extMemory' = [extMemory EXCEPT ![e.file] = 0] /\ told' = [told EXCEPT ![e.file] = 0]
        /\ e.kind = "delete" /\ handling' = handling /\ unread' = unread \ {e.file}
    BY <1>4 DEF ForgetExtFile, NextEvent
  <2>2. ExtHostTypeOK'
    BY <1>1, <1>2, <2>1 DEF ExtHostIInv, ExtHostTypeOK, NoFile, FileEvent
  <2>3. ASSUME NEW f \in WatchedFiles  PROVE Followed(f)'
    <3>1. f \in ExtFiles /\ Followed(f) /\ ~Handling(f) /\ ~Handling(f)'
      BY <1>1, <2>1, ThemeExtHostAssumption DEF ExtHostIInv, Handling, NoFile
    <3>2. /\ HasOne(extEvents, EventsOf(f)) <=> HasOne(extEvents', EventsOf(f)) \/ e \in EventsOf(f)
          /\ LastIsIn(extEvents', EventsOf(f), Fitting(f))
          /\ ~HasOne(extEvents', EventsOf(f)) /\ e \in EventsOf(f) => e \in Fitting(f)
      BY <1>1, <3>1, ReceiveFirst DEF Followed
    <3>3. Fitting(f)' = Fitting(f)  BY <1>1 DEF Fitting, Gone, FileEvent
    <3>4. CASE e \in EventsOf(f)
      <4>1. extMemory'[f] = 0 /\ told'[f] = 0  BY <1>1, <2>1, <3>1, <3>4 DEF EventsOf
      <4>2. ~HasOne(extEvents', EventsOf(f)) => extDisk'[f] = 0
        BY <1>1, <2>1, <3>2, <3>4 DEF Fitting, Gone
      <4> QED  BY <3>1, <3>2, <3>3, <4>1, <4>2 DEF Followed, EventsOf, FileEvent
    <3>5. CASE e \notin EventsOf(f)
      <4>1. f # e.file  BY <1>2, <3>5 DEF EventsOf
      <4>2. extMemory'[f] = extMemory[f] /\ told'[f] = told[f] /\ (f \in unread' <=> f \in unread)
        BY <1>1, <2>1, <3>1, <4>1
      <4> QED
        BY <1>1, <3>1, <3>2, <3>3, <3>5, <4>2 DEF Followed, EventsOf, FileEvent, EmptyFile
    <3> QED  BY <3>4, <3>5
  <2> QED  BY <2>2, <2>3 DEF ExtHostIInv
<1> QED  BY <1>3, <1>4

\* The update that is handled is kept, or its read has failed.
LEMMA KeepStep ==
    ASSUME ExtHostIInv, NEW failed \in BOOLEAN, KeepExtFile(failed)
    PROVE  ExtHostIInv'
<1> DEFINE g == handling.file
           c == handling.content
<1>1. /\ handling # NoFile /\ handling' = NoFile /\ g \in ExtFiles /\ c \in Nat
      /\ UNCHANGED <<extDisk, movedAway, extEdits, extEvents>>
      /\ extDisk \in [ExtFiles -> Nat] /\ extMemory \in [ExtFiles -> Nat]
      /\ told \in [ExtFiles -> Nat] /\ extEvents \in Seq(FileEvent)
  BY DEF KeepExtFile, extDiskVars, ExtHostIInv, ExtHostTypeOK
<1>2. /\ extMemory' = IF failed THEN extMemory ELSE [extMemory EXCEPT ![g] = c]
      /\ told' = IF failed \/ c \in {0, EmptyFile} THEN told ELSE [told EXCEPT ![g] = c]
      /\ unread' = IF failed THEN unread \cup {g} ELSE unread \ {g}
  BY DEF KeepExtFile, Keep
<1>3. Handling(g)  BY <1>1 DEF Handling
<1> HIDE DEF g, c
<1>4. ExtHostTypeOK'  BY <1>1, <1>2 DEF ExtHostIInv, ExtHostTypeOK, NoFile, FileEvent
<1>5. ASSUME NEW f \in WatchedFiles  PROVE Followed(f)'
  <2>1. f \in ExtFiles /\ Followed(f) /\ ~Handling(f)'
    BY <1>1, ThemeExtHostAssumption DEF ExtHostIInv, Handling, NoFile
  <2>2. Fitting(f)' = Fitting(f)  BY <1>1 DEF Fitting, Gone, FileEvent
  <2>3. CASE f = g
    <3>1. ~HasOne(extEvents, EventsOf(f)) => c = extDisk[f] /\ (Gone(f) => f \in movedAway)
      BY <1>3, <2>1, <2>3 DEF Followed, c
    <3>2. ~failed => extMemory'[f] = c /\ (told'[f] = c \/ c \in {0, EmptyFile})
      BY <1>1, <1>2, <2>1, <2>3
    <3> QED
      BY <1>1, <1>2, <2>1, <2>2, <2>3, <3>1, <3>2
         DEF Followed, Gone, EventsOf, FileEvent, EmptyFile
  <2>4. CASE f # g
    <3>1. ~Handling(f)  BY <2>4 DEF Handling, g
    <3>2. /\ extMemory'[f] = extMemory[f] /\ told'[f] = told[f]
          /\ f \in unread' <=> f \in unread
      BY <1>1, <1>2, <2>1, <2>4
    <3> QED
      BY <1>1, <2>1, <2>2, <3>1, <3>2 DEF Followed, EventsOf, FileEvent, EmptyFile
  <2> QED  BY <2>3, <2>4
<1> QED  BY <1>4, <1>5 DEF ExtHostIInv

\* Nothing that the invariant looks at is touched.
LEMMA ExtHostStays ==
    ASSUME ExtHostIInv,
           UNCHANGED <<extDisk, extEdits, movedAway, extEvents, extMemory, handling, told, unread>>
    PROVE  ExtHostIInv'
BY DEF ExtHostIInv, ExtHostTypeOK, Followed, Fitting, Gone, EventsOf, FileEvent, Handling, NoFile,
       EmptyFile

\* For any number of files, edits and failed reads: when all events are handled,
\* what is served is what is on the disk (handle_file_update, handle_file_delete).
THEOREM PagesFollow == ExtHostSpec => []PagesFollowDisk
<1>1. ExtHostInit => ExtHostIInv
  BY NothingSent, ThemeExtHostAssumption
     DEF ExtHostInit, ExtHostIInv, ExtHostTypeOK, Followed, Handling
<1>2. ExtHostIInv /\ [ExtHostNext]_extHostVars => ExtHostIInv'
  <2> SUFFICES ASSUME ExtHostIInv, [ExtHostNext]_extHostVars  PROVE ExtHostIInv'
    OBVIOUS
  <2>1. ASSUME NEW f \in ExtFiles, WriteFile(f)  PROVE ExtHostIInv'
    <3>1. PICK content \in {EmptyFile, 3 + extEdits} : EditFile(f, content, "update")
      BY <2>1 DEF WriteFile
    <3>2. content \in Nat /\ content # 0  BY DEF ExtHostIInv, ExtHostTypeOK, EmptyFile
    <3> QED  BY <2>1, <3>1, <3>2, EditStep DEF WriteFile
  <2>2. ASSUME NEW f \in ExtFiles, DeleteExtFile(f)  PROVE ExtHostIInv'
    BY <2>2, EditStep DEF DeleteExtFile
  <2>3. ASSUME NEW f \in ExtFiles, MoveFile(f)  PROVE ExtHostIInv'
    BY <2>3, EditStep DEF MoveFile
  <2>4. ASSUME NEW f \in ExtFiles, ClearMark(f)  PROVE ExtHostIInv'
    BY <2>4, ExtHostStays DEF ClearMark, extDiskVars
  <2>5. CASE ReadExtFile \/ ForgetExtFile  BY <2>5, TakeStep
  <2>6. CASE KeepExtFile(FALSE) \/ KeepExtFile(TRUE)  BY <2>6, KeepStep
  <2>7. CASE UNCHANGED extHostVars
    BY <2>7, ExtHostStays DEF extHostVars, extDiskVars, extServerVars
  <2> QED  BY <2>1, <2>2, <2>3, <2>4, <2>5, <2>6, <2>7 DEF ExtHostNext
<1>3. ExtHostIInv => PagesFollowDisk
  BY NothingSent, ThemeExtHostAssumption
     DEF ExtHostIInv, Followed, PagesFollowDisk, Handling
<1> QED  BY <1>1, <1>2, <1>3, PTL DEF ExtHostSpec

-----------------------------------------------------------------------------
(* Previews *)

PreviewKeys == UiExts \cup {App}
Connections == [at : {"gone", "subscribed", "open"}, updates : Seq(SUBSET PreviewKeys),
                view : Contents, lagged : BOOLEAN]
Naming(k) == {ids \in SUBSET PreviewKeys : k \in ids}

\* What a connection does not show as it is in the store, an update that waits
\* for it will name; unless it has lost one.
ViewFollows(c) ==
    client[c].at = "open" /\ ~client[c].lagged =>
        \A k \in PreviewKeys :
            client[c].view[k] = payloads[k] \/ HasOne(client[c].updates, Naming(k))

PreviewIInv ==
    /\ PreviewTypeOK
    /\ client \in [Clients -> Connections]
    /\ \A c \in Clients : ViewFollows(c)

\* emit_update gives an update to every connection, and never more than fit.
LEMMA EmittedType ==
    ASSUME PreviewIInv, NEW ids \in SUBSET PreviewKeys
    PROVE  /\ Emitted(ids) \in [Clients -> Connections]
           /\ \A c \in Clients :
                 /\ Len(Emitted(ids)[c].updates) <= UpdatesCap
                 /\ Emitted(ids)[c].at = client[c].at /\ Emitted(ids)[c].view = client[c].view
                 /\ client[c].at = "gone" => Emitted(ids)[c] = client[c]
                 /\ Receives(c) /\ ~Emitted(ids)[c].lagged =>
                       ~client[c].lagged
                       /\ Emitted(ids)[c].updates = Append(client[c].updates, ids)
<1> SUFFICES ASSUME NEW c \in Clients
             PROVE  LET d == Emitted(ids)[c]
                    IN  /\ d \in Connections
                        /\ Len(d.updates) <= UpdatesCap
                        /\ d.at = client[c].at /\ d.view = client[c].view
                        /\ client[c].at = "gone" => d = client[c]
                        /\ Receives(c) /\ ~d.lagged =>
                              ~client[c].lagged /\ d.updates = Append(client[c].updates, ids)
  BY DEF Emitted
<1> DEFINE q == client[c].updates
           d == Emitted(ids)[c]
<1>1. client[c] \in Connections /\ q \in Seq(SUBSET PreviewKeys) /\ Len(q) <= UpdatesCap
  BY DEF PreviewIInv, PreviewTypeOK, Connections
<1>2. CASE ~Receives(c)  BY <1>1, <1>2 DEF Emitted, Receives
<1>3. CASE Receives(c) /\ Len(q) < UpdatesCap
  <2>1. d = [client[c] EXCEPT !.updates = Append(q, ids)]  BY <1>3 DEF Emitted
  <2>2. Append(q, ids) \in Seq(SUBSET PreviewKeys) /\ Len(Append(q, ids)) = Len(q) + 1
        /\ Len(q) \in Nat
    BY <1>1, AppendProperties
  <2>3. Len(Append(q, ids)) <= UpdatesCap  BY <1>3, <2>2, AppPreviewAssumption
  <2> QED  BY <1>1, <1>3, <2>1, <2>2, <2>3 DEF Connections, Receives
<1>4. CASE Receives(c) /\ ~(Len(q) < UpdatesCap)
  <2>1. d = [client[c] EXCEPT !.updates = Append(Tail(q), ids), !.lagged = TRUE]
    BY <1>4 DEF Emitted
  <2>2. Len(q) = UpdatesCap /\ q # <<>>  BY <1>1, <1>4, AppPreviewAssumption, EmptySeq
  <2>3. Tail(q) \in Seq(SUBSET PreviewKeys) /\ Len(Tail(q)) = UpdatesCap - 1
    BY <1>1, <2>2, HeadTailProperties
  <2>4. Append(Tail(q), ids) \in Seq(SUBSET PreviewKeys)
        /\ Len(Append(Tail(q), ids)) = UpdatesCap
    BY <2>3, AppendProperties, AppPreviewAssumption
  <2>5. Len(Append(Tail(q), ids)) <= UpdatesCap  BY <2>4, AppPreviewAssumption
  <2> QED  BY <1>1, <1>4, <2>1, <2>4, <2>5 DEF Connections, Receives
<1> QED  BY <1>2, <1>3, <1>4

\* The store changes, and the connections are told which extensions.
LEMMA TellingStep ==
    ASSUME PreviewIInv, NEW ids \in SUBSET PreviewKeys,
           payloads' \in Contents, \A k \in PreviewKeys \ ids : payloads'[k] = payloads[k],
           client' = Emitted(ids),
           bundle' \in Contents, served' \subseteq Instances, changes' \in 0..MaxChanges
    PROVE  PreviewIInv'
<1>1. /\ client' \in [Clients -> Connections]
      /\ \A c \in Clients :
            /\ Len(client'[c].updates) <= UpdatesCap
            /\ client'[c].at = client[c].at /\ client'[c].view = client[c].view
            /\ client[c].at = "gone" => client'[c] = client[c]
            /\ client[c].at # "gone" /\ ~client'[c].lagged =>
                  ~client[c].lagged /\ client'[c].updates = Append(client[c].updates, ids)
  BY EmittedType DEF Receives
<1>2. ASSUME NEW c \in Clients
      PROVE  /\ client'[c].at \in {"gone", "subscribed", "open"} /\ client'[c].view \in Contents
             /\ Len(client'[c].updates) <= UpdatesCap
             /\ client'[c].at = "gone" => client'[c] = NoClient
  BY <1>1 DEF Connections, PreviewIInv, PreviewTypeOK
<1>3. PreviewTypeOK'  BY <1>2 DEF PreviewTypeOK, NoClient, Contents, Instances, App
<1>4. ASSUME NEW c \in Clients  PROVE ViewFollows(c)'
  <2> SUFFICES ASSUME client'[c].at = "open", ~client'[c].lagged, NEW k \in PreviewKeys
               PROVE  client'[c].view[k] = payloads'[k] \/ HasOne(client'[c].updates, Naming(k))
    BY DEF ViewFollows, Naming, PreviewKeys, App
  <2>1. /\ client[c].at = "open" /\ ~client[c].lagged /\ client'[c].view = client[c].view
        /\ client'[c].updates = Append(client[c].updates, ids)
    BY <1>1
  <2>2. client[c].updates \in Seq(SUBSET PreviewKeys)  BY DEF PreviewIInv, Connections
  <2>3. HasOne(client'[c].updates, Naming(k))
          <=> HasOne(client[c].updates, Naming(k)) \/ ids \in Naming(k)
    <3>1. \A s \in Seq(SUBSET PreviewKeys) : \A E :
            HasOne(Append(s, ids), E) <=> HasOne(s, E) \/ ids \in E
      BY SendLast
    <3> QED  BY <2>1, <2>2, <3>1
  <2>4. client[c].view[k] = payloads[k] \/ HasOne(client[c].updates, Naming(k))
    BY <2>1 DEF PreviewIInv, ViewFollows
  <2>5. payloads'[k] # payloads[k] => ids \in Naming(k)  BY DEF Naming
  <2> QED  BY <2>1, <2>3, <2>4, <2>5
<1>5. client' \in [Clients -> Connections']
  BY <1>1 DEF Connections, PreviewKeys, Contents, App
<1> QED  BY <1>3, <1>4, <1>5 DEF PreviewIInv

\* An event that changes neither the store nor the connections.
LEMMA SilentStep ==
    ASSUME PreviewIInv, UNCHANGED <<payloads, client>>,
           bundle' \in Contents, served' \subseteq Instances, changes' \in 0..MaxChanges
    PROVE  PreviewIInv'
BY DEF PreviewIInv, PreviewTypeOK, ViewFollows, Connections, PreviewKeys, Contents, Instances,
       NoClient, App, Naming

\* An event of the watcher has instances without a uuid.
LEMMA WatcherStep ==
    ASSUME PreviewIInv, NEW e \in UiExts,
           Reload(e) \/ UpdateSource(e) \/ DeletePreview(e) \/ AddPreview(e)
    PROVE  PreviewIInv'
<1>1. changes' \in 0..MaxChanges
  BY AppPreviewAssumption
     DEF Reload, UpdateSource, DeletePreview, AddPreview, Change, PreviewIInv, PreviewTypeOK
<1>2. served' \subseteq Instances
  BY DEF Reload, UpdateSource, DeletePreview, AddPreview, EventInstance, Instances,
         PreviewIInv, PreviewTypeOK
<1>3. UNCHANGED <<payloads, client>>
  BY DEF Reload, UpdateSource, DeletePreview, AddPreview, UpdateExtension, EventInstance
<1>4. bundle' \in Contents
  <2>1. CASE Reload(e) \/ UpdateSource(e)
    <3>1. bundle' = [bundle EXCEPT ![e] = changes']
      BY <2>1 DEF Reload, UpdateSource, UpdateExtension
    <3> QED  BY <1>1, <3>1 DEF PreviewIInv, PreviewTypeOK, Contents
  <2>2. CASE DeletePreview(e) \/ AddPreview(e)
    BY <2>2 DEF DeletePreview, AddPreview, PreviewIInv, PreviewTypeOK
  <2> QED  BY <2>1, <2>2
<1> QED  BY <1>1, <1>2, <1>3, <1>4, SilentStep

\* One connection changes, and the others and the store do not.
LEMMA ConnectionStep ==
    ASSUME PreviewIInv, NEW c \in Clients, NEW d \in Connections,
           client' = [client EXCEPT ![c] = d], Len(d.updates) <= UpdatesCap,
           d.at = "gone" => d = NoClient,
           d.at = "open" /\ ~d.lagged => \A k \in PreviewKeys :
                d.view[k] = payloads[k] \/ HasOne(d.updates, Naming(k)),
           UNCHANGED <<payloads, served, bundle, changes>>
    PROVE  PreviewIInv'
<1>1. client'[c] = d /\ \A b \in Clients \ {c} : client'[b] = client[b]
  BY DEF PreviewIInv
<1>2. client' \in [Clients -> Connections]  BY DEF PreviewIInv
<1>3. PreviewTypeOK'
  <2>1. ASSUME NEW b \in Clients
        PROVE  /\ client'[b].at \in {"gone", "subscribed", "open"} /\ client'[b].view \in Contents
               /\ Len(client'[b].updates) <= UpdatesCap
               /\ client'[b].at = "gone" => client'[b] = NoClient
    BY <1>1, <1>2 DEF Connections, PreviewIInv, PreviewTypeOK
  <2> QED
    BY <2>1 DEF PreviewIInv, PreviewTypeOK, NoClient, Contents, Instances, App
<1>4. ASSUME NEW b \in Clients  PROVE ViewFollows(b)'
  BY <1>1 DEF PreviewIInv, ViewFollows, PreviewKeys, App, Naming
<1>5. client' \in [Clients -> Connections']
  BY <1>2 DEF Connections, PreviewKeys, Contents, App
<1> QED  BY <1>3, <1>4, <1>5 DEF PreviewIInv

\* What a connection does: it subscribes, is greeted, is sent an update, closes.
LEMMA ClientStep ==
    ASSUME PreviewIInv, NEW c \in Clients,
           Subscribe(c) \/ Greet(c) \/ SendUpdate(c) \/ CloseClient(c)
    PROVE  PreviewIInv'
<1>1. client[c] \in Connections /\ payloads \in Contents /\ Len(client[c].updates) <= UpdatesCap
  BY DEF PreviewIInv, PreviewTypeOK
<1>2. NoClient \in Connections /\ NoClient.at = "gone" /\ Len(NoClient.updates) = 0
  BY AppPreviewAssumption, EmptySeq DEF NoClient, Connections, Contents, PreviewKeys
<1>3. 0 <= UpdatesCap  BY AppPreviewAssumption
<1>4. CASE Subscribe(c)
  <2> DEFINE d == [NoClient EXCEPT !.at = "subscribed"]
  <2>1. d \in Connections /\ d.at = "subscribed" /\ d.updates = NoClient.updates
    BY <1>2 DEF NoClient, Connections
  <2>2. client' = [client EXCEPT ![c] = d] /\ UNCHANGED <<payloads, served, bundle, changes>>
    BY <1>4 DEF Subscribe
  <2> HIDE DEF d
  <2> QED  BY <1>2, <1>3, <2>1, <2>2, ConnectionStep
<1>5. CASE Greet(c)
  <2> DEFINE d == [client[c] EXCEPT !.at = "open", !.view = payloads]
  <2>1. d \in Connections /\ d.at = "open" /\ d.view = payloads /\ d.updates = client[c].updates
    BY <1>1 DEF Connections
  <2>2. client' = [client EXCEPT ![c] = d] /\ UNCHANGED <<payloads, served, bundle, changes>>
    BY <1>5 DEF Greet
  <2> HIDE DEF d
  <2> QED  BY <1>1, <2>1, <2>2, ConnectionStep
<1>6. CASE SendUpdate(c)
  <2> DEFINE q == client[c].updates
             ids == Head(q)
             view == [k \in PreviewKeys |-> IF k \in ids \cup {App} THEN payloads[k]
                                            ELSE client[c].view[k]]
             d == [client[c] EXCEPT !.updates = Tail(q), !.view = view]
  <2>1. q \in Seq(SUBSET PreviewKeys) /\ q # <<>> /\ client[c].at = "open"
    BY <1>1, <1>6 DEF SendUpdate, Connections
  <2>2. Tail(q) \in Seq(SUBSET PreviewKeys) /\ Len(Tail(q)) = Len(q) - 1 /\ Len(q) \in Nat
    BY <2>1, HeadTailProperties, LenProperties
  <2>3. client[c].view \in Contents /\ DOMAIN client[c].view = PreviewKeys
    BY <1>1 DEF Connections, Contents, PreviewKeys
  <2>4. view \in Contents  BY <1>1, <2>3 DEF Contents, PreviewKeys
  <2>5. d \in Connections /\ d.at = "open" /\ d.view = view /\ d.updates = Tail(q)
        /\ d.lagged = client[c].lagged
    BY <1>1, <2>1, <2>2, <2>4 DEF Connections
  <2>6. client' = [client EXCEPT ![c] = d] /\ UNCHANGED <<payloads, served, bundle, changes>>
    BY <1>6, <2>3 DEF SendUpdate
  <2>7. Len(d.updates) <= UpdatesCap  BY <1>1, <2>2, <2>5, AppPreviewAssumption
  <2>8. ASSUME ~client[c].lagged, NEW k \in PreviewKeys
        PROVE  view[k] = payloads[k] \/ HasOne(Tail(q), Naming(k))
    <3>1. client[c].view[k] = payloads[k] \/ HasOne(q, Naming(k))
      BY <2>1, <2>8 DEF PreviewIInv, ViewFollows
    <3>2. HasOne(q, Naming(k)) <=> HasOne(Tail(q), Naming(k)) \/ ids \in Naming(k)
      BY <2>1, ReceiveFirst
    <3>3. ids \in Naming(k) => view[k] = payloads[k]  BY DEF Naming
    <3>4. client[c].view[k] = payloads[k] => view[k] = payloads[k]  OBVIOUS
    <3> QED  BY <3>1, <3>2, <3>3, <3>4
  <2> HIDE DEF d, view
  <2> QED  BY <2>5, <2>6, <2>7, <2>8, ConnectionStep
<1>7. CASE CloseClient(c)
  <2>1. client' = [client EXCEPT ![c] = NoClient] /\ UNCHANGED <<payloads, served, bundle, changes>>
    BY <1>7 DEF CloseClient
  <2> QED  BY <1>2, <1>3, <2>1, ConnectionStep
<1> QED  BY <1>4, <1>5, <1>6, <1>7

\* Every step of the preview keeps its invariant.
LEMMA PreviewStep == PreviewIInv /\ [PreviewNext]_previewVars => PreviewIInv'
<1> SUFFICES ASSUME PreviewIInv, [PreviewNext]_previewVars  PROVE PreviewIInv'
  OBVIOUS
<1>1. ASSUME NEW e \in UiExts, Reload(e) \/ UpdateSource(e) \/ DeletePreview(e) \/ AddPreview(e)
      PROVE  PreviewIInv'
  BY <1>1, WatcherStep
<1>2. ASSUME NEW c \in Clients, Subscribe(c) \/ Greet(c) \/ SendUpdate(c) \/ CloseClient(c)
      PROVE  PreviewIInv'
  BY <1>2, ClientStep
<1>3. ASSUME NEW c \in Clients, NEW ids \in {{App}} \cup {{e} : e \in UiExts},
             ClientUpdate(c, ids)
      PROVE  PreviewIInv'
  <2>1. ids \in SUBSET PreviewKeys  BY DEF PreviewKeys
  <2>2. changes' \in 0..MaxChanges
    BY <1>3, AppPreviewAssumption DEF ClientUpdate, Change, PreviewIInv, PreviewTypeOK
  <2>3. /\ payloads' = [k \in PreviewKeys |-> IF k \in ids THEN changes' ELSE payloads[k]]
        /\ payloads \in Contents
    BY <1>3 DEF ClientUpdate, PreviewIInv, PreviewTypeOK, Contents, PreviewKeys
  <2>4. payloads' \in Contents  BY <2>2, <2>3 DEF Contents, PreviewKeys
  <2>5. \A k \in PreviewKeys \ ids : payloads'[k] = payloads[k]  BY <2>3
  <2>6. client' = Emitted(ids) /\ bundle' \in Contents /\ served' \subseteq Instances
    BY <1>3 DEF ClientUpdate, PreviewIInv, PreviewTypeOK
  <2> QED  BY <2>1, <2>2, <2>4, <2>5, <2>6, TellingStep
<1>4. CASE UNCHANGED previewVars
  BY <1>4, SilentStep DEF previewVars, PreviewIInv, PreviewTypeOK
<1> QED  BY <1>1, <1>2, <1>3, <1>4 DEF PreviewNext

\* The invariant holds when the preview begins.
LEMMA PreviewInitial == PreviewInit => PreviewIInv
<1> SUFFICES ASSUME PreviewInit  PROVE PreviewIInv
  OBVIOUS
<1>1. payloads \in Contents /\ bundle \in Contents
  BY AppPreviewAssumption DEF PreviewInit, Contents
<1>2. NoClient \in Connections /\ NoClient.at = "gone" /\ Len(NoClient.updates) = 0
  BY AppPreviewAssumption, EmptySeq DEF NoClient, Connections, Contents, PreviewKeys
<1>3. \A c \in Clients : client[c] = NoClient  BY DEF PreviewInit
<1>4. client \in [Clients -> Connections]  BY <1>2 DEF PreviewInit
<1>5. NoClient.view \in Contents  BY <1>2 DEF Connections
<1>6. served \subseteq Instances /\ changes \in 0..MaxChanges /\ 0 <= UpdatesCap
  BY AppPreviewAssumption DEF PreviewInit, Instances
<1>7. PreviewTypeOK  BY <1>1, <1>2, <1>3, <1>5, <1>6 DEF PreviewTypeOK
<1>8. \A c \in Clients : ViewFollows(c)  BY <1>2, <1>3 DEF ViewFollows
<1> QED  BY <1>4, <1>7, <1>8 DEF PreviewIInv

\* For any number of extensions, connections and updates: the channel holds no
\* more than its capacity, and a connection is gone or has the state of one.
THEOREM PreviewTypeCorrect == PreviewSpec => []PreviewTypeOK
<1>1. PreviewIInv => PreviewTypeOK  BY DEF PreviewIInv
<1> QED  BY <1>1, PreviewInitial, PreviewStep, PTL DEF PreviewSpec

\* A connection that has had its updates shows the store, unless it was too slow
\* (handle_ws_socket): for any capacity of the channel.
THEOREM ClientsFollow == PreviewSpec => []ClientFollowsStore
<1>1. PreviewIInv => ClientFollowsStore
  <2> SUFFICES ASSUME PreviewIInv, NEW c \in Clients, client[c].at = "open",
                      client[c].updates = <<>>, ~client[c].lagged
               PROVE  client[c].view = payloads
    BY DEF ClientFollowsStore
  <2>1. client[c].view \in Contents /\ payloads \in Contents
    BY DEF PreviewIInv, PreviewTypeOK, Connections
  <2>2. \A k \in PreviewKeys : client[c].view[k] = payloads[k]
    BY NothingSent DEF PreviewIInv, ViewFollows
  <2> QED  BY <2>1, <2>2 DEF Contents, PreviewKeys
<1> QED  BY <1>1, PreviewInitial, PreviewStep, PTL DEF PreviewSpec
==============================================================================
