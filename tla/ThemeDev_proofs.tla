--------------------------- MODULE ThemeDev_proofs ---------------------------
(***************************************************************************)
(* Proofs about `shopify theme dev`: that once the watcher and the loop    *)
(* are at rest no file differs silently from the theme, that a poll never  *)
(* overwrites a local edit it could have seen (ThemeDev), and that no page *)
(* is older than what was announced to its tab (ThemeDevServer).           *)
(*                                                                         *)
(* The first argument follows a file through the places its last change    *)
(* may be in: the youngest sleeping task of the file tells what the disk   *)
(* has, with none asleep its last queued event does, with none queued the  *)
(* event the loop handles, and after that the files the server keeps.      *)
(***************************************************************************)
EXTENDS ThemeDevServer, SequenceTheorems, FiniteSetTheorems, TLAPS

-----------------------------------------------------------------------------
(* The inductive invariant *)

\* An event that tells what the disk has; a deletion that a replacement raised
\* may come after its update, and a renaming tells nothing of the old path.
Tells(e) ==
    \/ e.kind = "delete" /\ (disk[e.key] = 0 \/ e.key \in replaced)
    \/ e.kind # "delete" /\ disk[e.key] # 0
    \/ e.kind = "rename" /\ e.key \in moved

Asleep(k) == \E e \in sleeping : e.key = k
Queued(k) == \E i \in DOMAIN channel : channel[i].key = k
Handled(k) == loop.at = "marked" /\ loop.key = k

Youngest(e) == \A f \in sleeping : f.key = e.key => <<e, f>> \notin before
LastQueued(i) == \A j \in DOMAIN channel : j > i => channel[j].key # channel[i].key

TimersTell == \A e \in sleeping : Youngest(e) => Tells(e)
ChannelTells ==
    \A i \in DOMAIN channel : LastQueued(i) /\ ~ Asleep(channel[i].key) => Tells(channel[i])
LoopTells ==
    \A k \in Keys : ~ Asleep(k) /\ ~ Queued(k) /\ Handled(k)
        => loop.asset = disk[k] \/ (k \in replaced /\ loop.asset = 0)
FilesTell == \A k \in Keys : ~ Asleep(k) /\ ~ Queued(k) /\ ~ Handled(k) => Reached(k)

\* The other side: what the theme lacks is being sent, rejected, edited there
\* or kept by --nodelete.
SentStored == loop.at = "sent" => files[loop.key] = loop.asset
ThemeFollows ==
    loop # Stopped =>
        \A k \in Keys \ (errors \cup edited) :
            \/ loop.at = "sent" /\ loop.key = k
            \/ remote[k] = files[k]
            \/ NoDelete /\ files[k] = 0

\* What a poll has found still holds while it awaits the assets.
FetchHolds ==
    loop.at = "fetch" =>
        /\ loop.download \cap loop.deleted = {}
        /\ loop.since <= version
        /\ \A k \in loop.deleted \ edited : remote[k] = 0
        /\ \A k \in loop.download :
               files[k] = 0 \/ disk[k] \in {0, files[k]} \/ disk[k] > loop.since

StillPolling == loop # Stopped => failures < MaxFailures

DevInv ==
    /\ TypeOK /\ StillPolling
    /\ TimersTell /\ ChannelTells /\ LoopTells /\ FilesTell
    /\ SentStored /\ ThemeFollows /\ FetchHolds

-----------------------------------------------------------------------------
(* The loop's states, and the types *)

LEMMA LoopKinds ==
    ASSUME NEW l \in Loops
    PROVE  /\ l.at = "select" => l = Idle
           /\ l.at = "stopped" => l = Stopped
           /\ l.at \in {"marked", "sent"} => l.key \in Keys /\ l.asset \in Version
           /\ l.at = "poll" => l.keys \subseteq Keys
           /\ l.at = "fetch" => /\ l.latest \in Contents
                                /\ l.download \subseteq Keys
                                /\ l.deleted \subseteq Keys
                                /\ l.since \in Version
           /\ l.at \in {"select", "stopped", "marked", "sent", "poll", "fetch"}
  BY DEF Loops, Idle, Stopped, At

LEMMA AtFacts ==
    /\ Idle \in Loops /\ Stopped \in Loops
    /\ Idle.at = "select" /\ Stopped.at = "stopped"
  BY DEF Loops, Idle, Stopped, At

LEMMA EventFacts ==
    ASSUME NEW k \in Keys
    PROVE  /\ Update(k) \in Event /\ Update(k).key = k /\ Update(k).kind = "update"
           /\ Delete(k) \in Event /\ Delete(k).key = k /\ Delete(k).kind = "delete"
           /\ Rename(k) \in Event /\ Rename(k).key = k /\ Rename(k).kind = "rename"
  BY DEF Update, Delete, Rename, Event

LEMMA ArmTypes ==
    ASSUME NEW S \in SUBSET Event, Arm(S),
           sleeping \subseteq Event, before \subseteq sleeping \X sleeping
    PROVE  sleeping' \subseteq Event /\ before' \subseteq sleeping' \X sleeping'
  BY DEF Arm, Others

LEMMA InitTypes == Init => TypeOK /\ StillPolling
  <1> SUFFICES ASSUME Init PROVE TypeOK /\ StillPolling
    OBVIOUS
  <1>1. Cardinality(Keys) \in Nat /\ Cardinality(Keys) <= MaxVersion
    BY FS_CardinalityType, ThemeDevAssumption
  <1>a. disk \in [Keys -> 1..Cardinality(Keys)]
    BY Zenon DEF Init
  <1>b. 1..Cardinality(Keys) \subseteq Version
    BY <1>1, ThemeDevAssumption DEF Version
  <1>2. version \in Version /\ disk \in Contents
    BY <1>a, <1>b, <1>1, ThemeDevAssumption DEF Init, Version, Contents
  <1>3. Empty \in Contents
    BY ThemeDevAssumption DEF Empty, Contents, Version
  <1>4. baseline \in Contents
    BY <1>2, <1>3 DEF Init
  <1>5. loop \in Loops /\ loop.at = "select"
    BY AtFacts DEF Init
  <1>6. channel \in Seq(Event) /\ Len(channel) <= ChannelCap
    BY ThemeDevAssumption DEF Init
  <1> QED
    BY <1>2, <1>4, <1>5, <1>6, ThemeDevAssumption DEF Init, TypeOK, StillPolling

\* What a typed state offers to the steps.
LEMMA TypeFacts ==
    ASSUME TypeOK
    PROVE  /\ disk \in [Keys -> Version] /\ remote \in [Keys -> Version]
           /\ files \in [Keys -> Version] /\ baseline \in [Keys -> Version]
           /\ version \in Nat /\ version <= MaxVersion /\ MaxVersion \in Nat
           /\ failures \in Nat /\ 0 \in Version
           /\ sleeping \subseteq Event /\ before \subseteq sleeping \X sleeping
           /\ channel \in Seq(Event) /\ loop \in Loops
  BY ThemeDevAssumption DEF TypeOK, Contents, Version

\* What the developer's edits of the files of a set change, and the events they arm.
LEMMA LocalEdit ==
    ASSUME TypeOK, NEW k \in Keys, NEW j \in Keys,
           \/ LocalWrite(k) \/ LocalDelete(k) \/ LocalReplace(k)
           \/ LocalMove(k) \/ LocalRename(k, j)
    PROVE  \E S \in SUBSET Event :
               /\ Arm(S) /\ \A e \in S : e.key \in Keys /\ Tells(e)'
               /\ \A i \in Keys : (\A e \in S : e.key # i) =>
                      /\ disk'[i] = disk[i]
                      /\ i \in moved <=> i \in moved'
                      /\ i \in replaced <=> i \in replaced'
               /\ disk' \in [Keys -> Version] /\ version' \in Version /\ version' >= version
               /\ \A i \in Keys : \/ disk'[i] \in {disk[i], 0}
                                  \/ disk'[i] = version + 1 /\ version' = version + 1
               /\ replaced \subseteq replaced' /\ replaced' \subseteq Keys /\ moved' \subseteq Keys
               /\ UNCHANGED <<remote, edited, channel, stateVars, pollVars, loop>>
  <1> USE TypeFacts, ThemeDevAssumption
  <1>1. /\ moved \subseteq Keys /\ replaced \subseteq Keys
        /\ version \in Version /\ Version = 0..MaxVersion
    BY DEF TypeOK, Version
  <1>2. CASE LocalWrite(k)
    <2>1. PICK S : S = {Update(k)}
      OBVIOUS
    <2>2. S \in SUBSET Event /\ Arm(S) /\ \A e \in S : e.key = k /\ Tells(e)'
      BY <1>1, <1>2, <2>1, EventFacts DEF LocalWrite, Tells
    <2>3. \A i \in Keys : (\A e \in S : e.key # i) => i # k
      BY <2>1, EventFacts
    <2>4. /\ disk' \in [Keys -> Version] /\ version' \in Version /\ version' >= version
          /\ \A i \in Keys : \/ disk'[i] \in {disk[i], 0}
                             \/ disk'[i] = version + 1 /\ version' = version + 1
          /\ replaced \subseteq replaced' /\ replaced' \subseteq Keys /\ moved' \subseteq Keys
          /\ UNCHANGED <<remote, edited, channel, stateVars, pollVars, loop>>
      BY <1>1, <1>2 DEF LocalWrite, Renewed
    <2>5. \A i \in Keys : i # k =>
              /\ disk'[i] = disk[i]
              /\ i \in moved <=> i \in moved'
              /\ i \in replaced <=> i \in replaced'
      BY <1>1, <1>2 DEF LocalWrite, Renewed
    <2> QED
      BY <2>2, <2>3, <2>4, <2>5
  <1>3. CASE LocalDelete(k)
    <2>1. PICK S : S = {Delete(k)}
      OBVIOUS
    <2>2. S \in SUBSET Event /\ Arm(S) /\ \A e \in S : e.key = k /\ Tells(e)'
      BY <1>1, <1>3, <2>1, EventFacts DEF LocalDelete, Tells
    <2>3. \A i \in Keys : (\A e \in S : e.key # i) => i # k
      BY <2>1, EventFacts
    <2>4. /\ disk' \in [Keys -> Version] /\ version' \in Version /\ version' >= version
          /\ \A i \in Keys : \/ disk'[i] \in {disk[i], 0}
                             \/ disk'[i] = version + 1 /\ version' = version + 1
          /\ replaced \subseteq replaced' /\ replaced' \subseteq Keys /\ moved' \subseteq Keys
          /\ UNCHANGED <<remote, edited, channel, stateVars, pollVars, loop>>
      BY <1>1, <1>3 DEF LocalDelete, ghostVars
    <2>5. \A i \in Keys : i # k =>
              /\ disk'[i] = disk[i]
              /\ i \in moved <=> i \in moved'
              /\ i \in replaced <=> i \in replaced'
      BY <1>1, <1>3 DEF LocalDelete, ghostVars
    <2> QED
      BY <2>2, <2>3, <2>4, <2>5
  <1>4. CASE LocalReplace(k)
    <2>1. PICK S : S = {Delete(k), Update(k)}
      OBVIOUS
    <2>2. S \in SUBSET Event /\ Arm(S) /\ \A e \in S : e.key = k /\ Tells(e)'
      BY <1>1, <1>4, <2>1, EventFacts DEF LocalReplace, Tells
    <2>3. \A i \in Keys : (\A e \in S : e.key # i) => i # k
      BY <2>1, EventFacts
    <2>4. /\ disk' \in [Keys -> Version] /\ version' \in Version /\ version' >= version
          /\ \A i \in Keys : \/ disk'[i] \in {disk[i], 0}
                             \/ disk'[i] = version + 1 /\ version' = version + 1
          /\ replaced \subseteq replaced' /\ replaced' \subseteq Keys /\ moved' \subseteq Keys
          /\ UNCHANGED <<remote, edited, channel, stateVars, pollVars, loop>>
      BY <1>1, <1>4 DEF LocalReplace, Renewed
    <2>5. \A i \in Keys : i # k =>
              /\ disk'[i] = disk[i]
              /\ i \in moved <=> i \in moved'
              /\ i \in replaced <=> i \in replaced'
      BY <1>1, <1>4 DEF LocalReplace, Renewed
    <2> QED
      BY <2>2, <2>3, <2>4, <2>5
  <1>5. CASE LocalMove(k)
    <2>1. PICK S : S = {Rename(k)}
      OBVIOUS
    <2>2. S \in SUBSET Event /\ Arm(S) /\ \A e \in S : e.key = k /\ Tells(e)'
      BY <1>1, <1>5, <2>1, EventFacts DEF LocalMove, Tells
    <2>3. \A i \in Keys : (\A e \in S : e.key # i) => i # k
      BY <2>1, EventFacts
    <2>4. /\ disk' \in [Keys -> Version] /\ version' \in Version /\ version' >= version
          /\ \A i \in Keys : \/ disk'[i] \in {disk[i], 0}
                             \/ disk'[i] = version + 1 /\ version' = version + 1
          /\ replaced \subseteq replaced' /\ replaced' \subseteq Keys /\ moved' \subseteq Keys
          /\ UNCHANGED <<remote, edited, channel, stateVars, pollVars, loop>>
      BY <1>1, <1>5 DEF LocalMove
    <2>5. \A i \in Keys : i # k =>
              /\ disk'[i] = disk[i]
              /\ i \in moved <=> i \in moved'
              /\ i \in replaced <=> i \in replaced'
      BY <1>1, <1>5 DEF LocalMove
    <2> QED
      BY <2>2, <2>3, <2>4, <2>5
  <1>6. CASE LocalRename(k, j)
    <2>1. PICK S : S = {Rename(k), Rename(j)}
      OBVIOUS
    <2>2. S \in SUBSET Event /\ Arm(S) /\ \A e \in S : e.key \in {k, j} /\ Tells(e)'
      BY <1>1, <1>6, <2>1, EventFacts DEF LocalRename, Tells
    <2>3. \A i \in Keys : (\A e \in S : e.key # i) => i # k /\ i # j
      BY <2>1, EventFacts
    <2>4. /\ disk' \in [Keys -> Version] /\ version' \in Version /\ version' >= version
          /\ \A i \in Keys : \/ disk'[i] \in {disk[i], 0}
                             \/ disk'[i] = version + 1 /\ version' = version + 1
          /\ replaced \subseteq replaced' /\ replaced' \subseteq Keys /\ moved' \subseteq Keys
          /\ UNCHANGED <<remote, edited, channel, stateVars, pollVars, loop>>
      <3>1. /\ disk' = [disk EXCEPT ![k] = 0, ![j] = version'] /\ version' = version + 1
            /\ version < MaxVersion /\ version' \in Version
        BY <1>1, <1>6 DEF LocalRename
      <3>2. disk' \in [Keys -> Version]
        BY <1>1, <3>1
      <3>3. \A i \in Keys : disk'[i] \in {disk[i], 0} \/ disk'[i] = version + 1
        BY <1>1, <3>1
      <3>4. /\ replaced' = replaced /\ moved' = (moved \cup {k}) \ {j}
            /\ UNCHANGED <<remote, edited, channel, stateVars, pollVars, loop>>
        BY <1>6 DEF LocalRename
      <3>5. version' >= version
        BY <1>1, <3>1
      <3>6. replaced \subseteq replaced' /\ replaced' \subseteq Keys /\ moved' \subseteq Keys
        BY <1>1, <3>4
      <3> HIDE TypeFacts, ThemeDevAssumption
      <3> QED
        BY <3>1, <3>2, <3>3, <3>4, <3>5, <3>6
    <2>5. \A i \in Keys : i # k /\ i # j =>
              /\ disk'[i] = disk[i]
              /\ i \in moved <=> i \in moved'
              /\ i \in replaced <=> i \in replaced'
      BY <1>1, <1>6 DEF LocalRename
    <2> QED
      BY <2>2, <2>3, <2>4, <2>5
  <1> QED
    BY <1>2, <1>3, <1>4, <1>5, <1>6

LEMMA EditTypes ==
    ASSUME TypeOK, StillPolling, NEW k \in Keys, NEW j \in Keys,
           \/ LocalWrite(k) \/ LocalDelete(k) \/ LocalReplace(k)
           \/ LocalMove(k) \/ LocalRename(k, j) \/ RemoteWrite(k) \/ RemoteDelete(k)
    PROVE  TypeOK' /\ StillPolling'
  <1> USE TypeFacts, ThemeDevAssumption
  <1>1. CASE \/ LocalWrite(k) \/ LocalDelete(k) \/ LocalReplace(k)
             \/ LocalMove(k) \/ LocalRename(k, j)
    <2>1. PICK S \in SUBSET Event :
              /\ Arm(S)
              /\ disk' \in [Keys -> Version] /\ version' \in Version
              /\ replaced' \subseteq Keys /\ moved' \subseteq Keys
              /\ UNCHANGED <<remote, edited, channel, stateVars, pollVars, loop>>
      BY <1>1, LocalEdit
    <2>2. sleeping' \subseteq Event /\ before' \subseteq sleeping' \X sleeping'
      BY <2>1, ArmTypes
    <2> QED
      BY <2>1, <2>2 DEF TypeOK, StillPolling, stateVars, pollVars, Contents
  <1>2. CASE RemoteWrite(k) \/ RemoteDelete(k)
    <2>1. version' \in Version /\ remote' \in Contents /\ edited' \subseteq Keys
      <3>1. version \in Version /\ version' \in Version
        BY <1>2 DEF RemoteWrite, RemoteDelete, Version, TypeOK
      <3> QED
        BY <1>2, <3>1 DEF RemoteWrite, RemoteDelete, Contents, TypeOK
    <2>2. UNCHANGED <<disk, replaced, moved, watchVars, stateVars, pollVars, loop>>
      BY <1>2 DEF RemoteWrite, RemoteDelete
    <2> QED
      BY <2>1, <2>2 DEF TypeOK, StillPolling, watchVars, timerVars, stateVars, pollVars
  <1> QED
    BY <1>1, <1>2

LEMMA WatchTypes ==
    ASSUME TypeOK, StillPolling, NEW e \in Event, Debounced(e)
    PROVE  TypeOK' /\ StillPolling'
  <1> USE TypeFacts, ThemeDevAssumption DEF Debounced
  <1>1. sleeping' \subseteq Event /\ before' \subseteq sleeping' \X sleeping'
    BY DEF Others
  <1>2. channel' \in Seq(Event) /\ Len(channel') = Len(channel) + 1 /\ Len(channel) \in Nat
    BY AppendProperties, LenProperties
  <1>3. Len(channel') <= ChannelCap
    BY <1>2
  <1> QED
    BY <1>1, <1>2, <1>3 DEF TypeOK, StillPolling, worldVars, ghostVars, stateVars, pollVars

LEMMA MarkedLoop ==
    ASSUME NEW k \in Keys, NEW a \in Version, NEW at \in {"marked", "sent"},
           NEW l, l = [at |-> at, key |-> k, asset |-> a]
    PROVE  l \in Loops /\ l.at = at /\ l.key = k /\ l.asset = a
  BY DEF Loops

LEMMA HandledLoop ==
    ASSUME NEW l \in Loops, l.at = "marked", NEW m, m = [l EXCEPT !.at = "sent"]
    PROVE  m \in Loops /\ m.at = "sent" /\ m.key = l.key /\ m.asset = l.asset
  BY DEF Loops, Idle, Stopped, At

LEMMA EventKinds ==
    ASSUME NEW e \in Event
    PROVE  e.key \in Keys /\ e.kind \in {"update", "delete", "rename"}
  BY DEF Event

LEMMA ChannelTail ==
    ASSUME TypeOK, channel # <<>>, channel' = Tail(channel)
    PROVE  /\ channel' \in Seq(Event) /\ Len(channel') <= ChannelCap
           /\ Head(channel) \in Event
           /\ \A i \in DOMAIN channel' : i + 1 \in DOMAIN channel /\ channel'[i] = channel[i + 1]
           /\ \A i \in DOMAIN channel : i # 1 => i - 1 \in DOMAIN channel' /\ channel'[i - 1] = channel[i]
           /\ 1 \in DOMAIN channel /\ Head(channel) = channel[1]
  BY HeadTailProperties, LenProperties, ThemeDevAssumption DEF TypeOK

LEMMA TakeTypes ==
    ASSUME TypeOK, StillPolling, TakeEvent
    PROVE  TypeOK' /\ StillPolling'
  <1> USE TypeFacts, ThemeDevAssumption
  <1>1. channel' \in Seq(Event) /\ Len(channel') <= ChannelCap /\ Head(channel) \in Event
    BY ChannelTail DEF TakeEvent
  <1> DEFINE e == Head(channel)
             asset == IF e.kind = "delete" THEN 0 ELSE disk[e.key]
  <1>2. e.key \in Keys /\ asset \in Version
    BY <1>1, EventKinds
  <1>3. loop = Idle /\ loop.at = "select" /\ unsynced = {} /\ loop # Stopped
    BY AtFacts DEF TakeEvent, TypeOK
  <1>4. /\ loop' \in Loops /\ loop' # Stopped
        /\ unsynced' = IF loop'.at \in {"marked", "sent"} THEN {loop'.key} ELSE {}
    <2>1. CASE UNCHANGED <<unsynced, loop>>
      BY <2>1, <1>3
    <2>2. CASE /\ unsynced' = unsynced \cup {e.key}
               /\ loop' = [at |-> "marked", key |-> e.key, asset |-> asset]
      BY <2>2, <1>2, <1>3, MarkedLoop, AtFacts
    <2> QED
      BY <2>1, <2>2 DEF TakeEvent
  <1>5. UNCHANGED <<worldVars, timerVars, files, errors, pollVars>>
    BY DEF TakeEvent
  <1>6. unsynced' \subseteq Keys
    BY <1>4, LoopKinds
  <1> QED
    BY <1>1, <1>3, <1>4, <1>5, <1>6 DEF TypeOK, StillPolling, worldVars, ghostVars, timerVars, pollVars

LEMMA HandleTypes ==
    ASSUME TypeOK, StillPolling, Store \/ Answered \/ Unanswered
    PROVE  TypeOK' /\ StillPolling'
  <1> USE TypeFacts, ThemeDevAssumption, AtFacts
  <1>1. /\ loop.at \in {"marked", "sent"} /\ loop.key \in Keys /\ loop.asset \in Version
        /\ loop # Stopped /\ unsynced = {loop.key}
    BY LoopKinds DEF Store, Answered, Unanswered, TypeOK
  <1>2. CASE Store
    <2>1. files' \in Contents
      BY <1>1, <1>2 DEF Store, Contents
    <2>2. /\ loop' \in Loops /\ loop' # Stopped
          /\ unsynced' = IF loop'.at \in {"marked", "sent"} THEN {loop'.key} ELSE {}
      <3>1. CASE loop.asset = 0 /\ NoDelete
        BY <1>1, <1>2, <3>1 DEF Store, MarkSynced
      <3>2. CASE ~ (loop.asset = 0 /\ NoDelete)
        BY <1>1, <1>2, <3>2, HandledLoop DEF Store
      <3> QED
        BY <3>1, <3>2
    <2>3. UNCHANGED <<worldVars, watchVars, errors, pollVars>>
      BY <1>2 DEF Store
    <2>4. unsynced' \subseteq Keys
      BY <2>2, LoopKinds
    <2> QED
      BY <1>1, <2>1, <2>2, <2>3, <2>4 DEF TypeOK, StillPolling, worldVars, ghostVars, watchVars, timerVars, pollVars
  <1>3. CASE Answered
    <2>1. remote' \in Contents /\ errors' \subseteq Keys
      BY <1>1, <1>3 DEF Answered, Remember, Contents, TypeOK
    <2>2. unsynced' = {} /\ loop' = Idle
      BY <1>1, <1>3 DEF Answered, MarkSynced
    <2>3. UNCHANGED <<disk, version, ghostVars, watchVars, files, pollVars>>
      BY <1>3 DEF Answered
    <2> QED
      BY <1>1, <2>1, <2>2, <2>3 DEF TypeOK, StillPolling, ghostVars, watchVars, timerVars, pollVars
  <1>4. CASE Unanswered
    BY <1>4 DEF Unanswered, TypeOK, StillPolling, worldVars, ghostVars, watchVars, timerVars, stateVars, pollVars
  <1> QED
    BY <1>2, <1>3, <1>4

LEMMA PollTypes ==
    ASSUME TypeOK, StillPolling, Poll \/ PollOutage \/ PollChecksums
    PROVE  TypeOK' /\ StillPolling'
  <1> USE TypeFacts, ThemeDevAssumption, AtFacts
  <1>1. loop # Stopped /\ loop.at \notin {"marked", "sent"} /\ unsynced = {}
    BY DEF Poll, PollOutage, PollChecksums, TypeOK
  <1>2. UNCHANGED <<worldVars, watchVars, stateVars, baseline>>
    BY DEF Poll, PollOutage, PollChecksums, PollFailed, pollVars
  <1>3. /\ loop' \in Loops /\ failures' \in 0..MaxFailures
        /\ loop' # Stopped => failures' < MaxFailures
        /\ loop'.at \notin {"marked", "sent"}
    <2>1. CASE Poll
      BY <1>1, <2>1 DEF Poll, Loops, pollVars, StillPolling, TypeOK
    <2>2. CASE PollFailed
      BY <1>1, <2>2 DEF PollFailed, StillPolling, TypeOK
    <2>3. CASE PollChecksums /\ ~ PollFailed
      <3> DEFINE previous == Only(loop.keys, baseline)
                 latest == Only(loop.keys, remote)
                 download == {k \in Changed(previous, latest) : files[k] # latest[k]}
                 deleted == Deleted(previous, latest)
      <3>1. latest \in Contents
        BY DEF Only, Contents
      <3>2. download \subseteq Keys /\ deleted \subseteq Keys
        BY DEF Changed, Deleted
      <3>3. /\ loop' = [at |-> "fetch", latest |-> latest, download |-> download,
                        deleted |-> deleted, since |-> version]
            /\ UNCHANGED failures
        BY <2>3 DEF PollChecksums, pollVars
      <3>4. version \in Version
        BY DEF TypeOK
      <3> HIDE DEF latest, download, deleted
      <3>5. loop' \in Loops /\ loop'.at = "fetch"
        BY <3>1, <3>2, <3>3, <3>4 DEF Loops
      <3> QED
        BY <1>1, <3>3, <3>5 DEF StillPolling, TypeOK
    <2> QED
      BY <2>1, <2>2, <2>3 DEF PollOutage
  <1> QED
    BY <1>1, <1>2, <1>3 DEF TypeOK, StillPolling, worldVars, ghostVars, watchVars, timerVars, stateVars

\* The files an answered poll writes and removes.
Written == {k \in loop.download : remote[k] # 0}
Removed == IF NoDelete THEN {} ELSE {k \in loop.deleted : files[k] # 0}
Echo == {Update(k) : k \in Written} \cup {Delete(k) : k \in {d \in Removed : disk[d] # 0}}

LEMMA ApplyFacts ==
    ASSUME TypeOK, PollApply
    PROVE  /\ loop.at = "fetch" /\ loop.download \subseteq Keys /\ loop.deleted \subseteq Keys
           /\ Written \subseteq Keys /\ Removed \subseteq Keys
           /\ Echo \subseteq Event /\ Arm(Echo)
           /\ disk' \in [Keys -> Version] /\ files' \in [Keys -> Version]
           /\ \A k \in Written : disk'[k] = remote[k] /\ files'[k] = remote[k]
           /\ \A k \in Removed \ Written : disk'[k] = 0 /\ files'[k] = 0
           /\ \A k \in Keys \ (Removed \cup Written) : disk'[k] = disk[k] /\ files'[k] = files[k]
           /\ loop' = Idle /\ failures' = 0 /\ baseline' \in Contents
           /\ moved' = moved \ Written
           /\ UNCHANGED <<remote, version, edited, replaced, channel, unsynced, errors>>
  <1> USE TypeFacts
  <1>1. /\ loop.at = "fetch" /\ loop.download \subseteq Keys /\ loop.deleted \subseteq Keys
        /\ loop.latest \in Contents
    BY LoopKinds DEF PollApply
  <1>2. Written \subseteq Keys /\ Removed \subseteq Keys
    BY <1>1 DEF Written, Removed
  <1>3. Echo \subseteq Event
    BY <1>2, EventFacts DEF Echo
  <1>4. /\ disk' = [k \in Keys |-> IF k \in Written THEN remote[k]
                                   ELSE IF k \in Removed THEN 0 ELSE disk[k]]
        /\ files' = [k \in Keys |-> IF k \in Written THEN remote[k]
                                    ELSE IF k \in Removed THEN 0 ELSE files[k]]
    BY DEF PollApply, Written, Removed
  <1>5. Arm(Echo)
    BY DEF PollApply, Written, Removed, Echo
  <1>6. /\ loop' = Idle /\ failures' = 0 /\ baseline' \in Contents
        /\ moved' = moved \ Written
        /\ UNCHANGED <<remote, version, edited, replaced, channel, unsynced, errors>>
    BY <1>1 DEF PollApply, Renewed, Written
  <1>7. disk' \in [Keys -> Version] /\ files' \in [Keys -> Version]
    BY <1>4
  <1>8. /\ \A k \in Written : disk'[k] = remote[k] /\ files'[k] = remote[k]
        /\ \A k \in Removed \ Written : disk'[k] = 0 /\ files'[k] = 0
        /\ \A k \in Keys \ (Removed \cup Written) : disk'[k] = disk[k] /\ files'[k] = files[k]
    BY <1>2, <1>4
  <1> QED
    BY <1>1, <1>2, <1>3, <1>5, <1>6, <1>7, <1>8

LEMMA ApplyTypes ==
    ASSUME TypeOK, StillPolling, PollApply
    PROVE  TypeOK' /\ StillPolling'
  <1> USE TypeFacts, ThemeDevAssumption, AtFacts
  <1>1. sleeping' \subseteq Event /\ before' \subseteq sleeping' \X sleeping'
    BY ApplyFacts, ArmTypes
  <1>2. unsynced = {}
    BY ApplyFacts DEF TypeOK
  <1>3. disk' \in Contents /\ files' \in Contents
    BY ApplyFacts DEF Contents
  <1>4. /\ loop' = Idle /\ failures' = 0 /\ baseline' \in Contents
        /\ moved' = moved \ Written
        /\ UNCHANGED <<remote, version, edited, replaced, channel, unsynced, errors>>
    BY ApplyFacts
  <1> QED
    BY <1>1, <1>2, <1>3, <1>4 DEF TypeOK, StillPolling

LEMMA TypesKept ==
    ASSUME TypeOK, StillPolling, [Next]_devVars
    PROVE  TypeOK' /\ StillPolling'
  <1>1. CASE Edit
    BY <1>1, EditTypes DEF Edit
  <1>2. CASE Watch
    BY <1>2, WatchTypes DEF Watch
  <1>3. CASE Loop
    BY <1>3, TakeTypes, HandleTypes, PollTypes, ApplyTypes DEF Loop
  <1>4. CASE UNCHANGED devVars
    BY <1>4 DEF devVars, worldVars, ghostVars, watchVars, timerVars, stateVars, pollVars,
                TypeOK, StillPolling
  <1> QED
    BY <1>1, <1>2, <1>3, <1>4 DEF Next

-----------------------------------------------------------------------------
(* The watcher's half of the invariant *)

LEMMA SleepsInEvent == ASSUME TypeOK, NEW e \in sleeping PROVE e \in Event /\ e.key \in Keys
  BY TypeFacts, EventKinds

\* Events that tell the truth about the disk restart their tasks, and nothing
\* else changes on it.
LEMMA ArmTells ==
    ASSUME TypeOK, TimersTell, ChannelTells, NEW S \in SUBSET Event, Arm(S),
           UNCHANGED channel, replaced \subseteq replaced',
           \A e \in S : Tells(e)',
           \A k \in Keys : (\A e \in S : e.key # k)
               => disk'[k] = disk[k] /\ (k \in moved => k \in moved')
    PROVE  TimersTell' /\ ChannelTells'
  <1>1. ASSUME NEW e \in sleeping', Youngest(e)' PROVE Tells(e)'
    <2>1. CASE e \in S
      BY <2>1
    <2>2. CASE e \notin S
      <3>1. e \in sleeping /\ e.key \in Keys
        BY <2>2, SleepsInEvent DEF Arm
      <3>2. \A f \in S : f.key # e.key
        BY <1>1, <2>2, <3>1 DEF Youngest, Arm
      <3>3. \A f \in sleeping : f.key = e.key => <<e, f>> \notin before
        <4> SUFFICES ASSUME NEW f \in sleeping, f.key = e.key, <<e, f>> \in before PROVE FALSE
          OBVIOUS
        <4>1. f \notin S
          BY <3>2
        <4>2. <<e, f>> \in before' /\ f \in sleeping'
          BY <2>2, <4>1 DEF Arm, Others
        <4> QED
          BY <1>1, <4>2 DEF Youngest
      <3>4. Tells(e)
        BY <3>1, <3>3 DEF Youngest, TimersTell
      <3> QED
        BY <3>1, <3>2, <3>4 DEF Tells
    <2> QED
      BY <2>1, <2>2
  <1>2. ASSUME NEW i \in DOMAIN channel', LastQueued(i)', ~ Asleep(channel[i].key)'
        PROVE  Tells(channel[i])'
    <2>1. channel[i] \in Event /\ channel[i].key \in Keys
      BY <1>2, TypeFacts, EventKinds
    <2>2. ~ Asleep(channel[i].key) /\ \A e \in S : e.key # channel[i].key
      BY <1>2 DEF Asleep, Arm
    <2>3. Tells(channel[i])
      BY <1>2, <2>2 DEF ChannelTells, LastQueued
    <2> QED
      BY <2>1, <2>2, <2>3 DEF Tells
  <1> QED
    BY <1>1, <1>2 DEF TimersTell, ChannelTells

\* A step that neither arms a task nor changes what the events tell.
LEMMA StillTells ==
    ASSUME TimersTell, ChannelTells, UNCHANGED <<watchVars, disk, replaced, moved>>
    PROVE  TimersTell' /\ ChannelTells'
  BY DEF TimersTell, ChannelTells, Tells, Youngest, LastQueued, Asleep, watchVars, timerVars

\* A task that wakes was the oldest: it leaves the others as young as they were.
LEMMA WakeTells ==
    ASSUME TypeOK, TimersTell, ChannelTells, NEW e \in Event, Debounced(e)
    PROVE  TimersTell' /\ ChannelTells'
  <1> USE TypeFacts
  <1>1. e \in sleeping /\ (\A f \in sleeping : <<f, e>> \notin before) /\ sleeping' = sleeping \ {e}
    BY DEF Debounced
  <1>2. UNCHANGED <<disk, replaced, moved>>
    BY DEF Debounced, worldVars, ghostVars
  <1>3. \A f, g \in sleeping : f # e /\ g # e /\ <<f, g>> \in before => <<f, g>> \in before'
    BY DEF Debounced, Others
  <1>4. ASSUME NEW f \in sleeping', Youngest(f)' PROVE Tells(f)'
    <2>1. f \in sleeping /\ f # e
      BY <1>1
    <2>2. Youngest(f)
      BY <1>1, <1>3, <1>4, <2>1 DEF Youngest
    <2> QED
      BY <1>2, <2>1, <2>2 DEF TimersTell, Tells
  <1>5. /\ Len(channel) \in Nat /\ Len(channel') = Len(channel) + 1
        /\ DOMAIN channel = 1..Len(channel) /\ DOMAIN channel' = 1..Len(channel) + 1
        /\ \A i \in 1..Len(channel) : channel'[i] = channel[i]
        /\ channel'[Len(channel) + 1] = e
    BY AppendProperties, LenProperties DEF Debounced
  <1>6. ASSUME NEW i \in DOMAIN channel', LastQueued(i)', ~ Asleep(channel[i].key)'
        PROVE  Tells(channel[i])'
    <2>1. CASE i = Len(channel) + 1
      <3>1. \A f \in sleeping : f.key = e.key => f = e
        BY <1>1, <1>5, <1>6, <2>1 DEF Asleep
      <3>2. Youngest(e)
        BY <1>1, <3>1 DEF Youngest
      <3> QED
        BY <1>1, <1>2, <1>5, <2>1, <3>2 DEF TimersTell, Tells
    <2>2. CASE i # Len(channel) + 1
      <3>1. i \in DOMAIN channel /\ channel'[i] = channel[i]
        BY <1>5, <1>6, <2>2
      <3>2. channel[i].key # e.key
        BY <1>5, <1>6, <2>2, <3>1 DEF LastQueued
      <3>3. LastQueued(i) /\ ~ Asleep(channel[i].key)
        BY <1>1, <1>5, <1>6, <3>1, <3>2 DEF LastQueued, Asleep
      <3> QED
        BY <1>2, <3>1, <3>3 DEF ChannelTells, Tells
    <2> QED
      BY <2>1, <2>2
  <1> QED
    BY <1>4, <1>6 DEF TimersTell, ChannelTells

-----------------------------------------------------------------------------
(* The invariant is kept, step by step *)

\* The developer's edits raise an event of the file, which is pending from then on.
LEMMA LocalKeeps ==
    ASSUME DevInv, NEW k \in Keys, NEW j \in Keys,
           \/ LocalWrite(k) \/ LocalDelete(k) \/ LocalReplace(k)
           \/ LocalMove(k) \/ LocalRename(k, j)
    PROVE  DevInv'
  <1> USE TypeFacts DEF DevInv
  <1>1. TypeOK' /\ StillPolling'
    BY EditTypes
  <1>2. PICK S \in SUBSET Event :
            /\ Arm(S) /\ \A e \in S : e.key \in Keys /\ Tells(e)'
            /\ \A i \in Keys : (\A e \in S : e.key # i) =>
                   /\ disk'[i] = disk[i]
                   /\ i \in moved <=> i \in moved'
                   /\ i \in replaced <=> i \in replaced'
            /\ version' \in Version /\ version' >= version
            /\ \A i \in Keys : \/ disk'[i] \in {disk[i], 0}
                               \/ disk'[i] = version + 1 /\ version' = version + 1
            /\ replaced \subseteq replaced'
            /\ UNCHANGED <<remote, edited, channel, stateVars, pollVars, loop>>
    BY LocalEdit
  <1>3. TimersTell' /\ ChannelTells'
    BY <1>2, ArmTells
  <1>4. ASSUME NEW i \in Keys, ~ Asleep(i)'
        PROVE  ~ Asleep(i) /\ (\A e \in S : e.key # i)
    BY <1>2, <1>4 DEF Asleep, Arm
  <1>5. LoopTells' /\ FilesTell'
    <2>1. \A i \in Keys : ~ Asleep(i)' =>
              /\ ~ Asleep(i) /\ disk'[i] = disk[i]
              /\ i \in moved <=> i \in moved'
              /\ i \in replaced <=> i \in replaced'
      BY <1>2, <1>4
    <2>2. UNCHANGED <<files, loop, channel>>
      BY <1>2 DEF stateVars
    <2>3. LoopTells'
      BY <2>1, <2>2 DEF LoopTells, Handled, Queued
    <2>4. FilesTell'
      BY <2>1, <2>2 DEF FilesTell, Handled, Queued, Reached, Left
    <2> QED
      BY <2>3, <2>4
  <1>6. SentStored' /\ ThemeFollows'
    BY <1>2 DEF SentStored, ThemeFollows, stateVars
  <1>7. FetchHolds'
    <2> SUFFICES ASSUME loop.at = "fetch" PROVE FetchHolds'
      BY <1>2 DEF FetchHolds
    <2>1. loop.download \subseteq Keys /\ loop.since \in Nat /\ version' \in Nat
      BY <1>2, LoopKinds, ThemeDevAssumption DEF Version
    <2>2. /\ UNCHANGED <<remote, edited, files, loop>> /\ version \in Nat
          /\ version' >= version /\ loop.since <= version
      BY <1>2 DEF FetchHolds, stateVars
    <2>3. ASSUME NEW i \in loop.download
          PROVE  files[i] = 0 \/ disk'[i] \in {0, files[i]} \/ disk'[i] > loop.since
      <3>1. files[i] = 0 \/ disk[i] \in {0, files[i]} \/ disk[i] > loop.since
        BY <2>3 DEF FetchHolds
      <3>2. disk'[i] \in {disk[i], 0} \/ disk'[i] = version + 1
        BY <1>2, <2>1
      <3> QED
        BY <2>1, <2>2, <3>1, <3>2
    <2> QED
      BY <2>1, <2>2, <2>3 DEF FetchHolds
  <1> QED
    BY <1>1, <1>3, <1>5, <1>6, <1>7

\* The merchant's edits are of the theme alone, and excuse its file.
LEMMA RemoteKeeps ==
    ASSUME DevInv, NEW k \in Keys, RemoteWrite(k) \/ RemoteDelete(k)
    PROVE  DevInv'
  <1> USE TypeFacts DEF DevInv
  <1>1. TypeOK' /\ StillPolling'
    BY EditTypes
  <1>2. /\ \A j \in Keys \ {k} : remote'[j] = remote[j]
        /\ edited' = edited \cup {k} /\ version' \in Nat /\ version' >= version
        /\ UNCHANGED <<disk, replaced, moved, watchVars, stateVars, pollVars, loop>>
    BY DEF RemoteWrite, RemoteDelete
  <1>3. TimersTell' /\ ChannelTells'
    BY <1>2, StillTells
  <1>4. LoopTells' /\ FilesTell'
    BY <1>2 DEF LoopTells, FilesTell, Asleep, Handled, Queued, Reached, Left, stateVars, watchVars, timerVars
  <1>5. SentStored' /\ ThemeFollows'
    BY <1>2 DEF SentStored, ThemeFollows, stateVars
  <1>6. FetchHolds'
    <2> SUFFICES ASSUME loop.at = "fetch" PROVE FetchHolds'
      BY <1>2 DEF FetchHolds
    <2>1. loop.deleted \subseteq Keys /\ loop.since \in Nat
      BY LoopKinds DEF Version
    <2> QED
      BY <1>2, <2>1 DEF FetchHolds, stateVars
  <1> QED
    BY <1>1, <1>3, <1>4, <1>5, <1>6

\* A task that wakes moves its event into the channel.
LEMMA WatchKeeps ==
    ASSUME DevInv, NEW e \in Event, Debounced(e)
    PROVE  DevInv'
  <1> USE TypeFacts DEF DevInv
  <1>1. TypeOK' /\ StillPolling' /\ TimersTell' /\ ChannelTells'
    BY WatchTypes, WakeTells
  <1>2. UNCHANGED <<worldVars, stateVars, pollVars, loop>>
    BY DEF Debounced
  <1>3. /\ sleeping' = sleeping \ {e}
        /\ DOMAIN channel = 1..Len(channel) /\ DOMAIN channel' = 1..Len(channel) + 1
        /\ Len(channel) \in Nat
        /\ \A i \in 1..Len(channel) : channel'[i] = channel[i]
        /\ channel'[Len(channel) + 1] = e
    BY AppendProperties, LenProperties DEF Debounced
  <1>4. ASSUME NEW k \in Keys, ~ Asleep(k)', ~ Queued(k)' PROVE ~ Asleep(k) /\ ~ Queued(k)
    <2>1. e.key # k
      BY <1>3, <1>4 DEF Queued
    <2>2. ~ Asleep(k)
      BY <1>3, <1>4, <2>1 DEF Asleep
    <2>3. ~ Queued(k)
      BY <1>3, <1>4 DEF Queued
    <2> QED
      BY <2>2, <2>3
  <1>5. LoopTells' /\ FilesTell'
    BY <1>2, <1>4 DEF LoopTells, FilesTell, Handled, Reached, Left, worldVars, ghostVars, stateVars
  <1>6. SentStored' /\ ThemeFollows' /\ FetchHolds'
    BY <1>2 DEF SentStored, ThemeFollows, FetchHolds, worldVars, ghostVars, stateVars
  <1> QED
    BY <1>1, <1>5, <1>6

\* What the loop takes is the youngest news of its file, or there is younger
\* news behind it.
LEMMA TakeKeeps ==
    ASSUME DevInv, TakeEvent
    PROVE  DevInv'
  <1> USE TypeFacts DEF DevInv
  <1>1. TypeOK' /\ StillPolling'
    BY TakeTypes
  <1>2. /\ loop = Idle /\ loop.at = "select" /\ channel # <<>> /\ channel' = Tail(channel)
        /\ UNCHANGED <<worldVars, timerVars, files, errors, pollVars>>
    BY AtFacts DEF TakeEvent
  <1>3. /\ DOMAIN channel = 1..Len(channel) /\ DOMAIN channel' = 1..Len(channel) - 1
        /\ Len(channel) \in Nat \ {0}
        /\ \A i \in 1..Len(channel) - 1 : channel'[i] = channel[i + 1]
        /\ channel[1] = Head(channel) /\ Head(channel) \in Event
    BY <1>2, HeadTailProperties, LenProperties
  <1>4. TimersTell'
    BY <1>2 DEF TimersTell, Youngest, Tells, worldVars, ghostVars, timerVars
  <1>5. ChannelTells'
    <2> SUFFICES ASSUME NEW i \in DOMAIN channel', LastQueued(i)', ~ Asleep(channel[i].key)'
                 PROVE  Tells(channel[i])'
      BY DEF ChannelTells
    <2>1. i + 1 \in DOMAIN channel /\ channel'[i] = channel[i + 1]
      BY <1>3
    <2>2. LastQueued(i + 1)
      <3> SUFFICES ASSUME NEW j \in DOMAIN channel, j > i + 1 PROVE channel[j].key # channel[i + 1].key
        BY DEF LastQueued
      <3>1. j - 1 \in DOMAIN channel' /\ j - 1 > i /\ channel'[j - 1] = channel[j]
        BY <1>3
      <3> QED
        BY <2>1, <3>1 DEF LastQueued
    <2>3. ~ Asleep(channel[i + 1].key)
      BY <1>2, <2>1 DEF Asleep, timerVars
    <2>4. Tells(channel[i + 1])
      BY <2>1, <2>2, <2>3 DEF ChannelTells
    <2> QED
      BY <1>2, <2>1, <2>4 DEF Tells, worldVars, ghostVars
  <1>e. PICK e : e = Head(channel)
    OBVIOUS
  <1>a. PICK asset : asset = IF e.kind = "delete" THEN 0 ELSE disk[e.key]
    OBVIOUS
  <1>6. e.key \in Keys
    BY <1>3, <1>e, EventKinds
  <1>7. \A k \in Keys \ {e.key} : Queued(k) => Queued(k)'
    <2> SUFFICES ASSUME NEW k \in Keys \ {e.key}, NEW i \in DOMAIN channel, channel[i].key = k
                 PROVE  Queued(k)'
      BY DEF Queued
    <2>1. i - 1 \in DOMAIN channel' /\ channel'[i - 1] = channel[i]
      BY <1>3, <1>e
    <2> QED
      BY <2>1 DEF Queued
  <1>8. ~ Asleep(e.key)' /\ ~ Queued(e.key)' => Tells(e)
    <2> SUFFICES ASSUME ~ Asleep(e.key)', ~ Queued(e.key)' PROVE Tells(e)
      OBVIOUS
    <2>1. ~ Asleep(e.key)
      BY <1>2 DEF Asleep, timerVars
    <2>2. LastQueued(1)
      <3> SUFFICES ASSUME NEW j \in DOMAIN channel, j > 1 PROVE channel[j].key # e.key
        BY <1>3, <1>e DEF LastQueued
      <3>1. j - 1 \in DOMAIN channel' /\ channel'[j - 1] = channel[j]
        BY <1>3
      <3> QED
        BY <3>1 DEF Queued
    <2> QED
      BY <1>3, <1>e, <2>1, <2>2 DEF ChannelTells
  <1>9. \A k \in Keys : Asleep(k) <=> Asleep(k)'
    BY <1>2 DEF Asleep, timerVars
  <1>10. LoopTells' /\ FilesTell'
    <2>1. CASE e.kind # "delete" /\ asset = 0 /\ UNCHANGED <<unsynced, loop>>
      <3>1. Tells(e) => Left(e.key)
        BY <1>a, <2>1 DEF Tells, Left
      <3>2. \A k \in Keys : ~ Asleep(k)' /\ ~ Queued(k)' => Left(k) \/ (~ Asleep(k) /\ ~ Queued(k))
        BY <1>7, <1>8, <1>9, <3>1
      <3> QED
        BY <1>2, <2>1, <3>2 DEF LoopTells, FilesTell, Handled, Reached, Left, worldVars, ghostVars
    <2>2. CASE loop' = [at |-> "marked", key |-> e.key, asset |-> asset]
      <3>1. loop'.at = "marked" /\ loop'.key = e.key /\ loop'.asset = asset
        BY <2>2
      <3>2. \A k \in Keys : ~ Asleep(k)' /\ ~ Queued(k)' /\ k # e.key => ~ Asleep(k) /\ ~ Queued(k)
        BY <1>7, <1>9
      <3>3. Tells(e) => asset = disk[e.key] \/ (e.key \in replaced /\ asset = 0)
        BY <1>6, <1>a DEF Tells
      <3>4. UNCHANGED <<disk, files, replaced, moved>>
        BY <1>2 DEF worldVars, ghostVars
      <3>5. ASSUME NEW k \in Keys, ~ Asleep(k)', ~ Queued(k)', Handled(k)'
            PROVE  loop'.asset = disk'[k] \/ (k \in replaced' /\ loop'.asset = 0)
        <4>1. k = e.key
          BY <3>1, <3>5 DEF Handled
        <4> QED
          BY <1>8, <3>1, <3>3, <3>4, <3>5, <4>1
      <3>6. FilesTell'
        BY <1>2, <3>1, <3>2, <3>4 DEF FilesTell, Handled, Reached, Left
      <3> QED
        BY <3>5, <3>6 DEF LoopTells
    <2> QED
      BY <1>e, <1>a, <2>1, <2>2 DEF TakeEvent
  <1>11. loop'.at \in {"select", "marked"} /\ loop' # Stopped /\ loop # Stopped
    <2>1. CASE UNCHANGED loop
      BY <1>2, <2>1, AtFacts
    <2>2. CASE loop' = [at |-> "marked", key |-> e.key, asset |-> asset]
      BY <1>2, <2>2, AtFacts
    <2> QED
      BY <1>e, <1>a, <2>1, <2>2 DEF TakeEvent
  <1>12. SentStored' /\ ThemeFollows' /\ FetchHolds'
    BY <1>2, <1>11 DEF SentStored, ThemeFollows, FetchHolds, worldVars, ghostVars
  <1> QED
    BY <1>1, <1>4, <1>5, <1>10, <1>12

\* The files take what the loop marked, then the theme does, or the file is
\* rejected; a request that fails altogether ends the loop.
LEMMA HandleKeeps ==
    ASSUME DevInv, Store \/ Answered \/ Unanswered
    PROVE  DevInv'
  <1> USE TypeFacts, AtFacts DEF DevInv
  <1>1. TypeOK' /\ StillPolling'
    BY HandleTypes
  <1>2. /\ loop.at \in {"marked", "sent"} /\ loop.key \in Keys /\ loop.asset \in Version
        /\ loop # Stopped
    BY LoopKinds DEF Store, Answered, Unanswered
  <1>3. UNCHANGED <<disk, version, ghostVars, watchVars>>
    BY DEF Store, Answered, Unanswered, worldVars
  <1>4. TimersTell' /\ ChannelTells'
    BY <1>3, StillTells DEF ghostVars
  <1>5. \A k \in Keys : (Asleep(k) <=> Asleep(k)') /\ (Queued(k) <=> Queued(k)')
    BY <1>3 DEF Asleep, Queued, watchVars, timerVars
  <1>6. CASE Store
    <2>1. /\ loop.at = "marked" /\ files' = [files EXCEPT ![loop.key] = loop.asset]
          /\ UNCHANGED <<worldVars, watchVars, errors, pollVars>>
      BY <1>6 DEF Store
    <2>2. \/ loop.asset = 0 /\ NoDelete /\ loop' = Idle
          \/ loop'.at = "sent" /\ loop'.key = loop.key /\ loop'.asset = loop.asset
      BY <1>6, HandledLoop DEF Store
    <2>3. loop'.at \in {"select", "sent"}
      BY <2>2
    <2>4. \A k \in Keys : ~ Asleep(k) /\ ~ Queued(k) => Reached(k)'
      <3> SUFFICES ASSUME NEW k \in Keys, ~ Asleep(k), ~ Queued(k) PROVE Reached(k)'
        OBVIOUS
      <3>1. CASE k = loop.key
        BY <1>2, <1>3, <2>1, <3>1 DEF LoopTells, Handled, Reached, Left, ghostVars
      <3>2. CASE k # loop.key
        BY <1>2, <1>3, <2>1, <3>2 DEF FilesTell, Handled, Reached, Left, ghostVars
      <3> QED
        BY <3>1, <3>2
    <2>5. LoopTells' /\ FilesTell'
      BY <1>5, <2>3, <2>4 DEF LoopTells, FilesTell, Handled
    <2>6. SentStored' /\ FetchHolds'
      BY <1>2, <2>1, <2>2 DEF SentStored, FetchHolds
    <2>7. ThemeFollows'
      <3> SUFFICES ASSUME NEW k \in Keys \ (errors \cup edited)
                   PROVE  \/ loop'.at = "sent" /\ loop'.key = k
                          \/ remote'[k] = files'[k]
                          \/ NoDelete /\ files'[k] = 0
        BY <2>1 DEF ThemeFollows, worldVars, ghostVars
      <3>1. CASE k = loop.key
        BY <1>2, <2>1, <2>2, <3>1
      <3>2. CASE k # loop.key
        BY <1>2, <2>1, <3>2 DEF ThemeFollows, worldVars
      <3> QED
        BY <3>1, <3>2
    <2> QED
      BY <1>1, <1>4, <2>5, <2>6, <2>7
  <1>7. CASE Answered
    <2>1. /\ loop.at = "sent" /\ loop' = Idle
          /\ UNCHANGED <<disk, version, ghostVars, watchVars, files, pollVars>>
      BY <1>7 DEF Answered
    <2>2. LoopTells' /\ FilesTell'
      BY <1>5, <2>1 DEF LoopTells, FilesTell, Handled, Reached, Left, ghostVars
    <2>3. SentStored' /\ FetchHolds'
      BY <2>1 DEF SentStored, FetchHolds
    <2>4. /\ errors \ {loop.key} \subseteq errors'
          /\ loop.key \in errors' \/ remote'[loop.key] = loop.asset
          /\ \A k \in Keys \ {loop.key} : remote'[k] = remote[k]
      BY <1>2, <1>7 DEF Answered, Remember
    <2>5. ThemeFollows'
      <3> SUFFICES ASSUME NEW k \in Keys \ (errors' \cup edited)
                   PROVE  remote'[k] = files'[k] \/ (NoDelete /\ files'[k] = 0)
        BY <2>1 DEF ThemeFollows, ghostVars
      <3>1. CASE k = loop.key
        BY <2>1, <2>4, <3>1 DEF SentStored
      <3>2. CASE k # loop.key
        BY <1>2, <2>1, <2>4, <3>2 DEF ThemeFollows
      <3> QED
        BY <3>1, <3>2
    <2> QED
      BY <1>1, <1>4, <2>2, <2>3, <2>5
  <1>8. CASE Unanswered
    <2>1. /\ loop.at = "sent" /\ loop' = Stopped
          /\ UNCHANGED <<worldVars, watchVars, stateVars, pollVars>>
      BY <1>8 DEF Unanswered
    <2>2. LoopTells' /\ FilesTell'
      BY <1>5, <2>1 DEF LoopTells, FilesTell, Handled, Reached, Left, worldVars, ghostVars, stateVars
    <2>3. SentStored' /\ FetchHolds' /\ ThemeFollows'
      BY <2>1 DEF SentStored, FetchHolds, ThemeFollows
    <2> QED
      BY <1>1, <1>4, <2>2, <2>3
  <1> QED
    BY <1>6, <1>7, <1>8

\* A poll only reads: what it finds changed or deleted it finds in this state.
LEMMA PollKeeps ==
    ASSUME DevInv, Poll \/ PollOutage \/ PollChecksums
    PROVE  DevInv'
  <1> USE TypeFacts, AtFacts DEF DevInv
  <1>1. TypeOK' /\ StillPolling'
    BY PollTypes
  <1>2. /\ UNCHANGED <<worldVars, watchVars, stateVars, baseline>>
        /\ loop # Stopped /\ loop.at \notin {"marked", "sent"}
    BY DEF Poll, PollOutage, PollChecksums, PollFailed, pollVars
  <1>3. /\ loop'.at \notin {"marked", "sent"}
        /\ FetchHolds'
    <2>1. CASE Poll \/ PollFailed
      BY <2>1 DEF Poll, PollFailed, FetchHolds
    <2>2. CASE PollChecksums /\ ~ PollFailed
      <3>1. PICK previous, latest, changed, download, deleted :
                /\ previous = Only(loop.keys, baseline) /\ latest = Only(loop.keys, remote)
                /\ changed = Changed(previous, latest)
                /\ download = {k \in changed : files[k] # latest[k]}
                /\ deleted = Deleted(previous, latest)
                /\ ~ BothChanged(changed)
                /\ loop' = [at |-> "fetch", latest |-> latest, download |-> download,
                            deleted |-> deleted, since |-> version]
        BY <2>2 DEF PollChecksums
      <3>2. /\ loop'.at = "fetch" /\ loop'.download = download /\ loop'.deleted = deleted
            /\ loop'.since = version
        BY <3>1
      <3>3. download \cap deleted = {}
        BY <3>1 DEF Changed, Deleted
      <3>4. \A k \in deleted : remote[k] = 0
        BY <3>1 DEF Deleted, Only
      <3>5. \A k \in download : files[k] = 0 \/ disk[k] \in {0, files[k]}
        BY <3>1 DEF BothChanged
      <3>6. UNCHANGED <<disk, remote, files, version>>
        BY <1>2 DEF worldVars, stateVars
      <3> QED
        BY <3>2, <3>3, <3>4, <3>5, <3>6 DEF FetchHolds
    <2> QED
      BY <2>1, <2>2 DEF PollOutage
  <1>4. TimersTell' /\ ChannelTells'
    BY <1>2, StillTells DEF worldVars, ghostVars
  <1>5. LoopTells' /\ FilesTell'
    BY <1>2, <1>3 DEF LoopTells, FilesTell, Asleep, Queued, Handled, Reached, Left,
                      worldVars, ghostVars, watchVars, timerVars, stateVars
  <1>6. SentStored' /\ ThemeFollows'
    BY <1>2, <1>3 DEF SentStored, ThemeFollows, worldVars, ghostVars, stateVars
  <1> QED
    BY <1>1, <1>3, <1>4, <1>5, <1>6

\* What the poll writes on both sides is the same, and the watcher hears of it.
LEMMA ApplyKeeps ==
    ASSUME DevInv, PollApply
    PROVE  DevInv'
  <1> USE TypeFacts, AtFacts DEF DevInv
  <1>1. TypeOK' /\ StillPolling'
    BY ApplyTypes
  <1>2. /\ loop.at = "fetch" /\ loop # Stopped
        /\ Written \subseteq Keys /\ Removed \subseteq Keys
        /\ Echo \in SUBSET Event /\ Arm(Echo)
        /\ loop' = Idle /\ moved' = moved \ Written
        /\ UNCHANGED <<remote, version, edited, replaced, channel, unsynced, errors>>
    BY ApplyFacts
  <1>3. /\ \A k \in Written : disk'[k] = remote[k] /\ files'[k] = remote[k] /\ remote[k] # 0
        /\ \A k \in Removed : disk'[k] = 0 /\ files'[k] = 0
        /\ \A k \in Keys \ (Removed \cup Written) : disk'[k] = disk[k] /\ files'[k] = files[k]
    <2>1. Written \cap Removed = {}
      BY <1>2 DEF FetchHolds, Written, Removed
    <2>2. \A k \in Written : remote[k] # 0
      BY DEF Written
    <2> QED
      BY <2>1, <2>2, ApplyFacts
  <1>4. \A e \in Echo : Tells(e)'
    <2>1. ASSUME NEW k \in Written PROVE Tells(Update(k))'
      BY <1>2, <1>3, EventFacts DEF Tells
    <2>2. ASSUME NEW k \in Removed PROVE Tells(Delete(k))'
      BY <1>2, <1>3, EventFacts DEF Tells
    <2> QED
      BY <2>1, <2>2 DEF Echo
  <1>5. ASSUME NEW k \in Keys, disk'[k] # disk[k] \/ (k \in moved /\ k \notin moved')
        PROVE  \E e \in Echo : e.key = k
    <2>1. CASE k \in Written
      BY <2>1, EventFacts DEF Echo
    <2>2. CASE k \in Removed
      <3>1. disk[k] # 0
        BY <1>2, <1>3, <1>5, <2>1, <2>2
      <3> QED
        BY <2>2, <3>1, EventFacts DEF Echo
    <2> QED
      BY <1>2, <1>3, <1>5, <2>1, <2>2
  <1>6. TimersTell' /\ ChannelTells'
    BY <1>2, <1>4, <1>5, ArmTells
  <1>7. \A k \in Keys : ~ Asleep(k)' => ~ Asleep(k) /\ \A e \in Echo : e.key # k
    BY <1>2 DEF Asleep, Arm
  <1>8. ASSUME NEW k \in Keys, ~ Asleep(k)', ~ Queued(k)' PROVE Reached(k)'
    <2>1. Reached(k)
      <3>1. ~ Asleep(k) /\ ~ Queued(k)
        BY <1>2, <1>7, <1>8 DEF Queued
      <3> QED
        BY <1>2, <3>1 DEF FilesTell, Handled
    <2>2. CASE k \in Removed \cup Written
      BY <1>3, <2>2 DEF Reached, Left
    <2>3. CASE k \notin Removed \cup Written
      BY <1>2, <1>3, <2>1, <2>3 DEF Reached, Left, ghostVars
    <2> QED
      BY <2>2, <2>3
  <1>9. LoopTells' /\ FilesTell' /\ SentStored' /\ FetchHolds'
    BY <1>2, <1>8 DEF LoopTells, FilesTell, Handled, SentStored, FetchHolds
  <1>10. ThemeFollows'
    <2> SUFFICES ASSUME NEW k \in Keys \ (errors \cup edited)
                 PROVE  remote[k] = files'[k] \/ (NoDelete /\ files'[k] = 0)
      BY <1>2 DEF ThemeFollows, ghostVars
    <2>1. CASE k \in Written
      BY <1>3, <2>1
    <2>2. CASE k \in Removed
      BY <1>2, <1>3, <2>2 DEF Removed, FetchHolds
    <2>3. CASE k \notin Removed \cup Written
      BY <1>2, <1>3, <2>3 DEF ThemeFollows
    <2> QED
      BY <2>1, <2>2, <2>3
  <1> QED
    BY <1>1, <1>6, <1>9, <1>10

LEMMA InitInv == Init => DevInv
  <1> SUFFICES ASSUME Init PROVE DevInv
    OBVIOUS
  <1>1. TypeOK /\ StillPolling
    BY InitTypes
  <1>2. loop.at = "select" /\ loop # Stopped
    BY AtFacts DEF Init
  <1>3. \A k \in Keys : files[k] = disk[k] /\ remote[k] = files[k]
    BY DEF Init
  <1>4. TimersTell /\ ChannelTells
    BY DEF Init, TimersTell, ChannelTells
  <1>5. LoopTells /\ FilesTell /\ SentStored /\ ThemeFollows /\ FetchHolds
    BY <1>2, <1>3 DEF LoopTells, FilesTell, SentStored, ThemeFollows, FetchHolds, Handled, Reached, Left
  <1> QED
    BY <1>1, <1>4, <1>5 DEF DevInv

LEMMA DevStep == DevInv /\ [Next]_devVars => DevInv'
  <1> SUFFICES ASSUME DevInv, [Next]_devVars PROVE DevInv'
    OBVIOUS
  <1>1. CASE Edit
    BY <1>1, LocalKeeps, RemoteKeeps DEF Edit
  <1>2. CASE Watch
    BY <1>2, WatchKeeps DEF Watch
  <1>3. CASE Loop
    BY <1>3, TakeKeeps, HandleKeeps, PollKeeps, ApplyKeeps DEF Loop
  <1>4. CASE UNCHANGED devVars
    <2>1. /\ UNCHANGED <<watchVars, disk, replaced, moved>>
          /\ UNCHANGED <<remote, version, edited, stateVars, pollVars, loop>>
      BY <1>4 DEF devVars, worldVars, ghostVars
    <2>2. TypeOK' /\ StillPolling' /\ TimersTell' /\ ChannelTells'
      BY <1>4, <2>1, TypesKept, StillTells DEF DevInv
    <2>3. LoopTells' /\ FilesTell'
      BY <2>1 DEF DevInv, LoopTells, FilesTell, Asleep, Queued, Handled, Reached, Left,
                  stateVars, watchVars, timerVars
    <2>4. SentStored' /\ ThemeFollows' /\ FetchHolds'
      BY <2>1 DEF DevInv, SentStored, ThemeFollows, FetchHolds, stateVars
    <2> QED
      BY <2>2, <2>3, <2>4 DEF DevInv
  <1> QED
    BY <1>1, <1>2, <1>3, <1>4 DEF Next

-----------------------------------------------------------------------------
(* The theorems *)

LEMMA QuietAgrees == DevInv => NoSilentDivergence
  <1> SUFFICES ASSUME DevInv, Quiet, NEW k \in Keys \ (errors \cup edited)
               PROVE  Reached(k) /\ (remote[k] = files[k] \/ (NoDelete /\ files[k] = 0))
    BY DEF NoSilentDivergence
  <1>1. loop.at = "select" /\ loop # Stopped
    BY AtFacts DEF Quiet
  <1>2. ~ Asleep(k) /\ ~ Queued(k)
    BY DEF Quiet, Asleep, Queued
  <1> QED
    BY <1>1, <1>2 DEF DevInv, FilesTell, ThemeFollows, Handled

\* At rest no file differs silently from the theme: whatever the watcher, the
\* loop, the developer and the merchant did, for any number of files, edits and
\* places in the watch channel (watcher.rs, dev.rs).
THEOREM DivergenceShows == Spec => []NoSilentDivergence
  <1>1. Init => DevInv
    BY InitInv
  <1>2. DevInv /\ [Next]_devVars => DevInv'
    BY DevStep
  <1>3. DevInv => NoSilentDivergence
    BY QuietAgrees
  <1> QED
    BY <1>1, <1>2, <1>3, PTL DEF Spec

\* A poll overwrites no local edit of a known file that was on the disk when it
\* compared the two sides (dev.rs, abort_if_multiple_sources_changed).
THEOREM YoungerOnly == Spec => OverwritesOnlyYounger
  <1>1. Init => DevInv
    BY InitInv
  <1>2. DevInv /\ [Next]_devVars => DevInv'
    BY DevStep
  <1>3. DevInv /\ [Next]_devVars
        => [\A k \in Keys :
               loop.at = "fetch" /\ loop' = Idle /\ k \in loop.download /\ disk'[k] # disk[k]
                   => files[k] = 0 \/ disk[k] \in {0, files[k]} \/ disk[k] > loop.since]_devVars
    BY DEF DevInv, FetchHolds
  <1> QED
    BY <1>1, <1>2, <1>3, PTL DEF Spec, OverwritesOnlyYounger

-----------------------------------------------------------------------------
(* The server's renderings (ThemeDevServer) *)

\* What bounds the edits in flight: the versions are counted, the disk is never
\* behind what the loop handles, and only what the constants allow happens.
Counted ==
    /\ \A k \in Keys : disk[k] <= version /\ remote[k] <= version
    /\ loop.at \in {"marked", "sent"} =>
           loop.asset <= version /\ (disk[loop.key] = 0 \/ disk[loop.key] >= loop.asset)
    /\ loop.at \in {"poll", "fetch"} => Sync
    /\ ~ Rejects => errors = {}

Has(k, v) == k \in errors \/ remote[k] = 0 \/ remote[k] >= v

\* No side of file k is older than its version v, or will be: the disk, the
\* files, what the loop handles, and the theme unless it is being sent there.
Promised(k, v) ==
    /\ v <= version
    /\ disk[k] = 0 \/ disk[k] >= v
    /\ files[k] = 0 \/ files[k] >= v
    /\ loop.at \in {"marked", "sent"} /\ loop.key = k => loop.asset = 0 \/ loop.asset >= v
    /\ (loop.at = "sent" /\ loop.key = k) \/ Has(k, v)

Promises(f) == \A k \in Keys : Promised(k, f[k])

\* What a tab was promised, and what its request has read of it.
TabPromised(t) ==
    /\ Promises(due[t]) /\ Promises(owed[t])
    /\ tab[t] \in {"read", "sent"} => \A k \in Keys \ seen[t] : Has(k, owed[t][k])
    /\ tab[t] = "sent" =>
           \A k \in seen[t] : override[t][k] = 0 \/ override[t][k] >= owed[t][k]

TabTypes ==
    /\ tab \in [Tabs -> {"closed", "checked", "read", "sent", "redirected", "shown"}]
    /\ seen \in [Tabs -> SUBSET Keys]
    /\ override \in [Tabs -> Contents]
    /\ due \in [Tabs -> Contents] /\ owed \in [Tabs -> Contents]

ServerInv ==
    /\ DevInv /\ Counted /\ TabTypes
    /\ loop # Stopped => \A t \in Tabs : TabPromised(t)

LEMMA LocalFacts ==
    ASSUME TypeOK, NEW k \in Keys, NEW i \in Keys,
           \/ LocalWrite(k) \/ LocalDelete(k) \/ LocalReplace(k)
           \/ LocalMove(k) \/ LocalRename(k, i) \/ RemoteWrite(k) \/ RemoteDelete(k)
    PROVE  /\ version' \in Nat /\ version' >= version
           /\ \A j \in Keys : \/ disk'[j] = disk[j] \/ disk'[j] = 0
                              \/ disk'[j] = version' /\ version' = version + 1
           /\ \A j \in Keys : \/ remote'[j] = remote[j] \/ remote'[j] = 0
                              \/ remote'[j] = version' /\ version' = version + 1
           /\ UNCHANGED <<files, unsynced, errors, loop>>
  <1> USE TypeFacts DEF stateVars
  <1>1. CASE \/ LocalWrite(k) \/ LocalDelete(k) \/ LocalReplace(k)
             \/ LocalMove(k) \/ LocalRename(k, i)
    BY <1>1 DEF LocalWrite, LocalDelete, LocalReplace, LocalMove, LocalRename
  <1>2. CASE RemoteWrite(k) \/ RemoteDelete(k)
    BY <1>2 DEF RemoteWrite, RemoteDelete
  <1> QED
    BY <1>1, <1>2

\* What the loop's steps change of the two sides.
LEMMA TakeFacts ==
    ASSUME TypeOK, TakeEvent
    PROVE  /\ UNCHANGED <<disk, remote, version, files, errors>>
           /\ loop.at = "select" /\ loop # Stopped
           /\ \/ loop' = loop
              \/ /\ loop'.at = "marked" /\ loop'.key \in Keys
                 /\ loop'.asset = 0 \/ loop'.asset = disk[loop'.key]
  <1>1. /\ UNCHANGED <<disk, remote, version, files, errors>>
        /\ loop = Idle /\ channel # <<>> /\ channel' = Tail(channel)
    BY DEF TakeEvent, worldVars
  <1>e. PICK e : e = Head(channel)
    OBVIOUS
  <1>a. PICK asset : asset = IF e.kind = "delete" THEN 0 ELSE disk[e.key]
    OBVIOUS
  <1>2. e.key \in Keys
    BY <1>1, <1>e, ChannelTail, EventKinds
  <1>3. loop' = loop \/ loop' = [at |-> "marked", key |-> e.key, asset |-> asset]
    BY <1>e, <1>a DEF TakeEvent
  <1> QED
    BY <1>1, <1>a, <1>2, <1>3, AtFacts

LEMMA StoreFacts ==
    ASSUME TypeOK, Store
    PROVE  /\ UNCHANGED <<disk, remote, version, errors>>
           /\ loop.at = "marked" /\ loop.key \in Keys /\ loop.asset \in Version
           /\ files'[loop.key] = loop.asset /\ loop # Stopped
           /\ \A k \in Keys \ {loop.key} : files'[k] = files[k]
           /\ \/ loop' = Idle /\ loop.asset = 0
              \/ loop'.at = "sent" /\ loop'.key = loop.key /\ loop'.asset = loop.asset
  BY TypeFacts, LoopKinds, HandledLoop, AtFacts DEF Store, worldVars

LEMMA AnsweredFacts ==
    ASSUME TypeOK, Answered
    PROVE  /\ UNCHANGED <<disk, version, files>>
           /\ loop.at = "sent" /\ loop.key \in Keys /\ loop.asset \in Version
           /\ loop' = Idle /\ loop # Stopped
           /\ \A k \in Keys \ {loop.key} : remote'[k] = remote[k]
           /\ errors \ {loop.key} \subseteq errors'
           /\ \/ remote'[loop.key] = loop.asset /\ errors' \subseteq errors
              \/ Rejects /\ remote' = remote /\ loop.key \in errors'
  BY TypeFacts, LoopKinds, AtFacts DEF Answered, Remember

LEMMA PollFacts ==
    ASSUME TypeOK, Poll \/ PollOutage \/ PollChecksums \/ Unanswered
    PROVE  /\ UNCHANGED <<disk, remote, version, files, errors>>
           /\ loop # Stopped /\ loop'.at \notin {"marked", "sent"}
           /\ \/ loop'.at = "poll" /\ Sync
              \/ loop'.at = "fetch" /\ loop.at = "poll"
              \/ loop' \in {Idle, Stopped}
           /\ loop.at = "sent" => loop' = Stopped
  <1>1. CASE Unanswered
    BY <1>1, AtFacts DEF Unanswered, worldVars, stateVars
  <1>2. CASE Poll \/ PollFailed
    BY <1>2, AtFacts DEF Poll, PollOutage, PollChecksums, PollFailed, Unanswered, worldVars, stateVars
  <1>3. CASE PollChecksums /\ ~ PollFailed
    BY <1>3, AtFacts DEF PollChecksums, worldVars, stateVars
  <1> QED
    BY <1>1, <1>2, <1>3 DEF PollOutage

LEMMA AppliedFacts ==
    ASSUME TypeOK, PollApply
    PROVE  /\ UNCHANGED <<remote, version, errors>>
           /\ loop.at = "fetch" /\ loop # Stopped /\ loop' = Idle
           /\ \A k \in Keys : \/ disk'[k] = remote[k] /\ files'[k] = remote[k]
                              \/ disk'[k] = 0 /\ files'[k] = 0
                              \/ disk'[k] = disk[k] /\ files'[k] = files[k]
  <1>1. \A k \in Keys : \/ disk'[k] = remote[k] /\ files'[k] = remote[k]
                        \/ disk'[k] = 0 /\ files'[k] = 0
                        \/ disk'[k] = disk[k] /\ files'[k] = files[k]
    BY ApplyFacts
  <1> QED
    BY <1>1, ApplyFacts, AtFacts

LEMMA WatchFacts ==
    ASSUME Watch \/ UNCHANGED devVars
    PROVE  UNCHANGED <<disk, remote, version, files, errors, loop>>
  BY DEF Watch, Debounced, devVars, worldVars, stateVars

LEMMA CountedInit == Init => Counted
  <1> SUFFICES ASSUME Init PROVE Counted
    OBVIOUS
  <1>1. version \in Nat /\ disk \in [Keys -> 1..version]
    BY FS_CardinalityType, ThemeDevAssumption, Zenon DEF Init
  <1>2. loop.at = "select" /\ remote = disk /\ errors = {}
    BY AtFacts DEF Init
  <1> QED
    BY <1>1, <1>2 DEF Counted

LEMMA CountedKept ==
    ASSUME TypeOK, Counted, Next \/ UNCHANGED devVars
    PROVE  Counted'
  <1> USE TypeFacts
  <1>1. \A k \in Keys : disk[k] \in Nat /\ remote[k] \in Nat
    BY DEF Version
  <1>2. loop.at \in {"marked", "sent"} => loop.key \in Keys /\ loop.asset \in Nat
    BY LoopKinds DEF Version
  <1>3. CASE Edit
    <2>1. PICK k \in Keys, i \in Keys :
              \/ LocalWrite(k) \/ LocalDelete(k) \/ LocalReplace(k)
              \/ LocalMove(k) \/ LocalRename(k, i) \/ RemoteWrite(k) \/ RemoteDelete(k)
      BY <1>3 DEF Edit
    <2>2. /\ version' \in Nat /\ version' >= version
          /\ UNCHANGED <<files, unsynced, errors, loop>>
      BY <2>1, LocalFacts
    <2>3. \A j \in Keys : disk'[j] \in {disk[j], 0, version'}
      BY <2>1, LocalFacts
    <2>4. \A j \in Keys : remote'[j] \in {remote[j], 0, version'}
      BY <2>1, LocalFacts
    <2>a. version \in Nat /\ \A j \in Keys : disk[j] <= version /\ remote[j] <= version
      BY DEF Counted
    <2>b. loop.at \in {"marked", "sent"} =>
              loop.asset <= version /\ (disk[loop.key] = 0 \/ disk[loop.key] >= loop.asset)
      BY DEF Counted
    <2> HIDE TypeFacts
    <2>5. ASSUME NEW j \in Keys PROVE disk'[j] <= version' /\ remote'[j] <= version'
      <3>1. disk[j] \in Nat /\ remote[j] \in Nat /\ disk[j] <= version /\ remote[j] <= version
        BY <1>1, <2>a
      <3>2. disk'[j] \in {disk[j], 0, version'} /\ remote'[j] \in {remote[j], 0, version'}
        BY <2>3, <2>4
      <3> QED
        BY <2>a, <2>2, <3>1, <3>2
    <2>6. loop.at \in {"marked", "sent"} =>
              loop.asset <= version' /\ (disk'[loop.key] = 0 \/ disk'[loop.key] >= loop.asset)
      <3> SUFFICES ASSUME loop.at \in {"marked", "sent"}
                   PROVE  loop.asset <= version' /\ (disk'[loop.key] = 0 \/ disk'[loop.key] >= loop.asset)
        OBVIOUS
      <3>1. /\ loop.asset \in Nat /\ loop.asset <= version
            /\ disk[loop.key] = 0 \/ disk[loop.key] >= loop.asset
        BY <1>2, <2>b
      <3>2. disk'[loop.key] \in {disk[loop.key], 0, version'}
        BY <1>2, <2>3
      <3> QED
        BY <2>a, <2>2, <3>1, <3>2
    <2> QED
      BY <2>2, <2>5, <2>6 DEF Counted
  <1>4. CASE Watch \/ UNCHANGED devVars
    BY <1>4, WatchFacts DEF Counted
  <1>5. CASE TakeEvent
    BY <1>1, <1>5, TakeFacts, ThemeDevAssumption DEF Counted
  <1>6. CASE Store
    BY <1>1, <1>2, <1>6, StoreFacts, AtFacts DEF Counted
  <1>7. CASE Answered
    <2>1. \A k \in Keys : remote'[k] <= version
      BY <1>1, <1>2, <1>7, AnsweredFacts DEF Counted
    <2>2. ~ Rejects => errors' = {}
      BY <1>7, AnsweredFacts DEF Counted
    <2> QED
      BY <1>7, <2>1, <2>2, AnsweredFacts, AtFacts DEF Counted
  <1>8. CASE Poll \/ PollOutage \/ PollChecksums \/ Unanswered
    BY <1>8, PollFacts, AtFacts DEF Counted
  <1>9. CASE PollApply
    BY <1>1, <1>9, AppliedFacts, AtFacts DEF Counted
  <1> QED
    BY <1>3, <1>4, <1>5, <1>6, <1>7, <1>8, <1>9 DEF Next, Loop

\* A promise of version v of file k is kept by every step, and so is what the
\* theme has of it.
LEMMA PromiseKept ==
    ASSUME TypeOK, SentStored, Counted, ~ (Sync /\ Rejects),
           NEW k \in Keys, NEW v \in Nat, Promised(k, v),
           Next \/ UNCHANGED devVars, loop' # Stopped
    PROVE  /\ Promised(k, v)'
           /\ Has(k, v) => Has(k, v)'
  <1> USE TypeFacts
  <1>1. disk[k] \in Nat /\ remote[k] \in Nat /\ files[k] \in Nat
    BY DEF Version
  <1>2. loop.at \in {"marked", "sent"} => loop.key \in Keys /\ loop.asset \in Nat
    BY LoopKinds DEF Version
  <1>3. CASE Edit
    <2>1. PICK j \in Keys, i \in Keys :
              \/ LocalWrite(j) \/ LocalDelete(j) \/ LocalReplace(j)
              \/ LocalMove(j) \/ LocalRename(j, i) \/ RemoteWrite(j) \/ RemoteDelete(j)
      BY <1>3 DEF Edit
    <2>2. /\ version' \in Nat /\ version' >= version
          /\ disk'[k] = disk[k] \/ disk'[k] = 0 \/ disk'[k] = version + 1
          /\ remote'[k] = remote[k] \/ remote'[k] = 0 \/ remote'[k] = version + 1
          /\ UNCHANGED <<files, errors, loop>>
      BY <2>1, LocalFacts
    <2> QED
      BY <1>1, <2>2 DEF Promised, Has
  <1>4. CASE Watch \/ UNCHANGED devVars
    BY <1>4, WatchFacts DEF Promised, Has
  <1>5. CASE TakeEvent
    BY <1>1, <1>5, TakeFacts DEF Promised, Has
  <1>6. CASE Store
    <2>1. Has(k, v) /\ Has(k, v)'
      BY <1>6, StoreFacts DEF Promised, Has
    <2>2. files'[k] = 0 \/ files'[k] >= v
      BY <1>6, StoreFacts DEF Promised
    <2>3. loop'.at \in {"marked", "sent"} /\ loop'.key = k => loop'.asset = 0 \/ loop'.asset >= v
      BY <1>6, StoreFacts, AtFacts DEF Promised
    <2> QED
      BY <1>6, <2>1, <2>2, <2>3, StoreFacts DEF Promised
  <1>7. CASE Answered
    <2>1. Has(k, v)'
      <3>1. CASE k = loop.key
        BY <1>2, <1>7, <3>1, AnsweredFacts DEF Promised, Has
      <3>2. CASE k # loop.key
        BY <1>2, <1>7, <3>2, AnsweredFacts DEF Promised, Has
      <3> QED
        BY <3>1, <3>2
    <2> QED
      BY <1>7, <2>1, AnsweredFacts, AtFacts DEF Promised
  <1>8. CASE Poll \/ PollOutage \/ PollChecksums \/ Unanswered
    BY <1>8, PollFacts, AtFacts DEF Promised, Has
  <1>9. CASE PollApply
    <2>1. Sync /\ errors = {} /\ Has(k, v)
      BY <1>9, AppliedFacts, ThemeDevAssumption DEF Counted, Promised
    <2>2. remote[k] = 0 \/ remote[k] >= v
      BY <2>1 DEF Has
    <2> QED
      BY <1>1, <1>9, <2>1, <2>2, AppliedFacts, AtFacts DEF Promised, Has
  <1> QED
    BY <1>3, <1>4, <1>5, <1>6, <1>7, <1>8, <1>9 DEF Next, Loop

\* What the loop announces it has promised.
LEMMA AnnouncedPromised ==
    ASSUME TypeOK, SentStored, Counted, Emits, Next, loop' # Stopped,
           NEW k, NEW v, k = loop.key, v = loop.asset
    PROVE  k \in Keys /\ v \in Version /\ Promised(k, v)'
  <1> USE TypeFacts
  <1>1. \A j \in Keys : disk[j] \in Nat /\ remote[j] \in Nat /\ files[j] \in Nat
    BY DEF Version
  <1>2. loop.at \in {"marked", "sent"} /\ loop' # loop
    BY AtFacts DEF Emits
  <1>3. loop.key \in Keys /\ loop.asset \in Version /\ loop.asset \in Nat
    BY <1>2, LoopKinds DEF Version
  <1>4. Store \/ Answered
    <2>1. ~ Edit /\ ~ Watch
      BY <1>2, LocalFacts, WatchFacts DEF Edit
    <2>2. ~ TakeEvent /\ ~ PollApply
      BY <1>2, TakeFacts, AppliedFacts
    <2>3. ~ (Poll \/ PollOutage \/ PollChecksums \/ Unanswered)
      BY <1>2, AtFacts DEF Poll, PollOutage, PollChecksums, Unanswered
    <2> QED
      BY <2>1, <2>2, <2>3 DEF Next, Loop
  <1>5. loop.asset <= version /\ (disk[loop.key] = 0 \/ disk[loop.key] >= loop.asset)
    BY <1>2 DEF Counted
  <1>6. CASE Store
    <2>1. /\ UNCHANGED <<disk, version>> /\ files'[k] = v
          /\ \/ loop' = Idle /\ v = 0
             \/ loop'.at = "sent" /\ loop'.key = k /\ loop'.asset = v
          /\ UNCHANGED remote
      BY <1>6, StoreFacts
    <2>2. CASE loop' = Idle /\ v = 0
      BY <1>1, <1>3, <1>5, <2>1, <2>2, AtFacts DEF Promised, Has
    <2>3. CASE loop'.at = "sent" /\ loop'.key = k /\ loop'.asset = v
      BY <1>3, <1>5, <2>1, <2>3 DEF Promised
    <2> QED
      BY <1>3, <2>1, <2>2, <2>3
  <1>7. CASE Answered
    <2>1. /\ UNCHANGED <<disk, version, files>> /\ loop' = Idle /\ files[k] = v
          /\ remote'[k] = v \/ k \in errors'
      BY <1>7, AnsweredFacts DEF SentStored
    <2>2. Has(k, v)'
      BY <1>3, <2>1 DEF Has
    <2> QED
      BY <1>3, <1>5, <2>1, <2>2, AtFacts DEF Promised
  <1> QED
    BY <1>3, <1>4, <1>6, <1>7

LEMMA PromisesKept ==
    ASSUME TypeOK, SentStored, Counted, ~ (Sync /\ Rejects), NEW f \in Contents, Promises(f),
           Next \/ UNCHANGED devVars, loop' # Stopped
    PROVE  \A k \in Keys : Promised(k, f[k])' /\ (Has(k, f[k]) => Has(k, f[k])')
  <1> SUFFICES ASSUME NEW k \in Keys
               PROVE  Promised(k, f[k])' /\ (Has(k, f[k]) => Has(k, f[k])')
    OBVIOUS
  <1>1. PICK v \in Nat : v = f[k]
    BY DEF Contents, Version
  <1>2. Promised(k, v)
    BY <1>1 DEF Promises
  <1> QED
    BY <1>1, <1>2, PromiseKept DEF Promised, Has

LEMMA StoppedStays ==
    ASSUME Next \/ UNCHANGED devVars, loop' # Stopped
    PROVE  loop # Stopped
  BY LocalFacts, AtFacts DEF Next, Edit, Watch, Loop, Debounced, devVars,
     LocalWrite, LocalDelete, LocalReplace, LocalMove, LocalRename, RemoteWrite, RemoteDelete,
     TakeEvent, Store, Answered, Unanswered, Poll, PollOutage, PollChecksums, PollApply

\* A step that leaves the tabs alone: an edit, a task of the watcher.
LEMMA TabsKept ==
    ASSUME ServerInv, ~ (Sync /\ Rejects), Next \/ UNCHANGED devVars, loop' # Stopped,
           NEW t \in Tabs, NEW d, d = due'[t], d \in Contents, Promises(d)',
           UNCHANGED <<tab, seen, override, owed>>
    PROVE  TabPromised(t)'
  <1>1. loop # Stopped /\ TabPromised(t)
    BY StoppedStays DEF ServerInv
  <1>2. PICK o : o = owed[t] /\ o \in Contents
    BY DEF ServerInv, TabTypes
  <1>3. Promises(o)
    BY <1>1, <1>2 DEF TabPromised
  <1>4. \A k \in Keys : Promised(k, o[k])' /\ (Has(k, o[k]) => Has(k, o[k])')
    BY <1>2, <1>3, PromisesKept DEF ServerInv, DevInv
  <1>5. Promises(owed[t])' /\ Promises(due[t])'
    BY <1>2, <1>4 DEF Promises
  <1>6. tab[t] \in {"read", "sent"} => \A k \in Keys \ seen[t] : Has(k, o[k])
    BY <1>1, <1>2 DEF TabPromised
  <1>7. (tab[t] \in {"read", "sent"} => \A k \in Keys \ seen[t] : Has(k, owed[t][k]))'
    BY <1>2, <1>4, <1>6 DEF Has
  <1>8. (tab[t] = "sent" =>
             \A k \in seen[t] : override[t][k] = 0 \/ override[t][k] >= owed[t][k])'
    BY <1>1 DEF TabPromised
  <1> QED
    BY <1>5, <1>7, <1>8 DEF TabPromised

\* The handlers and the browser leave the loop and the theme alone.
LEMMA StillPromised ==
    ASSUME UNCHANGED devVars
    PROVE  /\ \A k, v : (Promised(k, v) <=> Promised(k, v)') /\ (Has(k, v) <=> Has(k, v)')
           /\ UNCHANGED <<loop, files, remote, errors, unsynced>>
  BY DEF Promised, Has, devVars, worldVars, stateVars

LEMMA SameTab ==
    ASSUME UNCHANGED devVars, NEW t \in Tabs, TabPromised(t),
           tab'[t] = tab[t], seen'[t] = seen[t], override'[t] = override[t],
           due'[t] = due[t], owed'[t] = owed[t]
    PROVE  TabPromised(t)'
  BY StillPromised DEF TabPromised, Promises

LEMMA EmptyPromised == ASSUME TypeOK PROVE Promises(Empty)
  <1> USE TypeFacts
  <1>1. \A k \in Keys : disk[k] \in Nat /\ remote[k] \in Nat /\ files[k] \in Nat
    BY DEF Version
  <1>2. loop.at \in {"marked", "sent"} => loop.asset \in Nat
    BY LoopKinds DEF Version
  <1>3. \A k \in Keys : Empty[k] = 0
    BY DEF Empty
  <1> QED
    BY <1>1, <1>2, <1>3 DEF Promises, Promised, Has

LEMMA EmptyContents == Empty \in Contents
  BY ThemeDevAssumption DEF Empty, Contents, Version

\* What the step of a handler or of a browser keeps of its own tab.
LEMMA RequestKeeps ==
    ASSUME ServerInv, loop # Stopped, NEW t \in Tabs, Request(t)
    PROVE  TabTypes' /\ \A u \in Tabs : TabPromised(u)'
  <1> USE DEF ServerInv, TabTypes
  <1>1. /\ UNCHANGED <<devVars, seen, override, due>>
        /\ owed' = [owed EXCEPT ![t] = due[t]]
        /\ \/ tab' = [tab EXCEPT ![t] = "shown"]
           \/ tab' = [tab EXCEPT ![t] = "checked"]
    BY DEF Request
  <1>2. ASSUME NEW u \in Tabs, u # t PROVE TabPromised(u)'
    <2>1. owed'[u] = owed[u] /\ tab'[u] = tab[u]
      BY <1>1, <1>2
    <2> QED
      BY <1>1, <2>1, SameTab
  <1>3. TabPromised(t)'
    <2>1. owed'[t] = due[t] /\ tab'[t] \notin {"read", "sent"}
      BY <1>1
    <2> QED
      BY <1>1, <2>1, StillPromised DEF TabPromised, Promises
  <1>4. TabTypes'
    BY <1>1
  <1> QED
    BY <1>2, <1>3, <1>4

LEMMA ReadUnsyncedKeeps ==
    ASSUME ServerInv, loop # Stopped, NEW t \in Tabs, ReadUnsynced(t)
    PROVE  TabTypes' /\ \A u \in Tabs : TabPromised(u)'
  <1> USE DEF ServerInv, TabTypes
  <1>1. /\ UNCHANGED <<devVars, override, owed, due>>
        /\ seen' = [seen EXCEPT ![t] = unsynced]
        /\ tab' = [tab EXCEPT ![t] = "read"]
    BY DEF ReadUnsynced, Moves, streamVars
  <1>2. ASSUME NEW u \in Tabs, u # t PROVE TabPromised(u)'
    <2>1. seen'[u] = seen[u] /\ tab'[u] = tab[u]
      BY <1>1, <1>2
    <2> QED
      BY <1>1, <2>1, SameTab
  <1>3. TabPromised(t)'
    <2>1. seen'[t] = unsynced /\ tab'[t] = "read"
      BY <1>1
    <2>2. \A k \in Keys \ unsynced : Has(k, owed[t][k])
      BY DEF DevInv, TypeOK, TabPromised, Promises, Promised
    <2> QED
      BY <1>1, <2>1, <2>2, StillPromised DEF TabPromised, Promises
  <1>4. unsynced \subseteq Keys
    BY DEF DevInv, TypeOK
  <1>5. TabTypes'
    BY <1>1, <1>4
  <1> QED
    BY <1>2, <1>3, <1>5

LEMMA ReadFilesKeeps ==
    ASSUME ServerInv, loop # Stopped, NEW t \in Tabs, ReadFiles(t)
    PROVE  TabTypes' /\ \A u \in Tabs : TabPromised(u)'
  <1> USE DEF ServerInv, TabTypes
  <1>1. /\ UNCHANGED <<devVars, seen, owed, due>>
        /\ override' = [override EXCEPT ![t] = Replaced(t)]
        /\ tab[t] = "read" /\ tab' = [tab EXCEPT ![t] = "sent"]
    BY DEF ReadFiles, Moves, streamVars
  <1>2. ASSUME NEW u \in Tabs, u # t PROVE TabPromised(u)'
    <2>1. override'[u] = override[u] /\ tab'[u] = tab[u]
      BY <1>1, <1>2
    <2> QED
      BY <1>1, <2>1, SameTab
  <1>3. TabPromised(t)'
    <2>1. override'[t] = Replaced(t) /\ tab'[t] = "sent"
      BY <1>1
    <2>2. \A k \in seen[t] : Replaced(t)[k] = 0 \/ Replaced(t)[k] >= owed[t][k]
      BY DEF Replaced, TabPromised, Promises, Promised
    <2>3. \A k \in Keys \ seen[t] : Has(k, owed[t][k])
      BY <1>1 DEF TabPromised
    <2> QED
      BY <1>1, <2>1, <2>2, <2>3, StillPromised DEF TabPromised, Promises
  <1>4. Replaced(t) \in Contents
    BY TypeFacts DEF Replaced, Contents, DevInv
  <1>5. TabTypes'
    BY <1>1, <1>4
  <1> QED
    BY <1>2, <1>3, <1>5

\* The request of a tab is over, with a page or the redirection to it.
LEMMA AnswerKeeps ==
    ASSUME ServerInv, loop # Stopped, NEW t \in Tabs,
           Rendered(t) \/ RenderFailed(t) \/ Mismatch(t) \/ Subscribe(t) \/ Close(t)
    PROVE  TabTypes' /\ \A u \in Tabs : TabPromised(u)'
  <1> USE DEF ServerInv, TabTypes
  <1>1. /\ UNCHANGED devVars
        /\ tab' = tab \/ \E a \in {"shown", "redirected", "closed"} : tab' = [tab EXCEPT ![t] = a]
        /\ tab'[t] \in {"shown", "redirected", "closed"}
        /\ seen' = seen \/ seen' = [seen EXCEPT ![t] = {}]
        /\ override' = override \/ override' = [override EXCEPT ![t] = Empty]
        /\ owed' = owed \/ owed' = [owed EXCEPT ![t] = Empty]
        /\ due' = due \/ due' = [due EXCEPT ![t] = Empty]
    <2>1. CASE Rendered(t) \/ RenderFailed(t)
      BY <2>1 DEF Rendered, RenderFailed, Show, Moves, streamVars
    <2>2. CASE Mismatch(t)
      BY <2>2 DEF Mismatch, Show, Moves, streamVars
    <2>3. CASE Subscribe(t)
      BY <2>3 DEF Subscribe, requestVars
    <2>4. CASE Close(t)
      BY <2>4 DEF Close
    <2> QED
      BY <2>1, <2>2, <2>3, <2>4
  <1>2. ASSUME NEW u \in Tabs, u # t PROVE TabPromised(u)'
    <2>1. /\ tab'[u] = tab[u] /\ seen'[u] = seen[u] /\ override'[u] = override[u]
          /\ owed'[u] = owed[u] /\ due'[u] = due[u]
      BY <1>1, <1>2
    <2> QED
      BY <1>1, <2>1, SameTab
  <1>3. TabPromised(t)'
    <2>1. /\ owed'[t] = owed[t] \/ owed'[t] = Empty
          /\ due'[t] = due[t] \/ due'[t] = Empty
      BY <1>1
    <2>2. Promises(Empty) /\ Promises(owed[t]) /\ Promises(due[t])
      BY EmptyPromised DEF DevInv, TabPromised
    <2>3. Promises(owed[t])' /\ Promises(due[t])'
      BY <1>1, <2>1, <2>2, StillPromised DEF Promises
    <2> QED
      BY <1>1, <2>3 DEF TabPromised
  <1>4. TabTypes'
    BY <1>1, EmptyContents
  <1> QED
    BY <1>2, <1>3, <1>4

\* The loop announces what it has promised to the subscribed tabs.
LEMMA LoopStepKeeps ==
    ASSUME ServerInv, ~ (Sync /\ Rejects), LoopStep, loop' # Stopped
    PROVE  TabTypes' /\ \A t \in Tabs : TabPromised(t)'
  <1> USE DEF ServerInv, TabTypes
  <1>1. /\ Loop /\ Announce /\ UNCHANGED <<tab, seen, override, owed>>
        /\ Next
    BY DEF LoopStep, requestVars, Next
  <1>2. loop # Stopped
    BY <1>1, StoppedStays
  <1>3. ASSUME NEW t \in Tabs
        PROVE  due'[t] \in Contents /\ TabPromised(t)'
    <2>1. PICK f \in Contents : f = due[t] /\ Promises(f)
      BY <1>2 DEF TabPromised
    <2>2. \A j \in Keys : Promised(j, f[j])'
      BY <1>1, <2>1, PromisesKept DEF DevInv
    <2>3. CASE due'[t] = f
      <3>1. Promises(f)'
        BY <2>2 DEF Promises
      <3> QED
        BY <1>1, <2>1, <2>3, <3>1, TabsKept
    <2>4. CASE Emits /\ due'[t] = [f EXCEPT ![loop.key] = loop.asset]
      <3>1. PICK k, v : k = loop.key /\ v = loop.asset
        OBVIOUS
      <3>2. k \in Keys /\ v \in Version /\ Promised(k, v)'
        BY <1>1, <2>4, <3>1, AnnouncedPromised DEF DevInv
      <3>3. PICK d : d = [f EXCEPT ![k] = v]
        OBVIOUS
      <3>4. d \in Contents /\ due'[t] = d
        BY <2>4, <3>1, <3>2, <3>3 DEF Contents
      <3>5. Promises(d)'
        BY <2>1, <2>2, <3>2, <3>3 DEF Promises, Contents
      <3> QED
        BY <1>1, <3>4, <3>5, TabsKept
    <2>5. \/ due'[t] = f
          \/ Emits /\ due'[t] = [f EXCEPT ![loop.key] = loop.asset]
      BY <1>1, <2>1 DEF Announce
    <2> QED
      BY <2>3, <2>4, <2>5
  <1>4. due' \in [Tabs -> Contents]
    <2>1. \/ due' = due
          \/ due' = [t \in Tabs |-> IF t \in subscribed
                                    THEN [due[t] EXCEPT ![loop.key] = loop.asset] ELSE due[t]]
      BY <1>1 DEF Announce
    <2> QED
      BY <1>3, <2>1
  <1> QED
    BY <1>1, <1>3, <1>4

LEMMA AnnounceTypes ==
    ASSUME ServerInv, LoopStep
    PROVE  TabTypes'
  <1> USE DEF ServerInv, TabTypes
  <1>1. /\ Loop /\ Announce /\ UNCHANGED <<tab, seen, override, owed>>
    BY DEF LoopStep, requestVars
  <1>2. CASE Emits
    <2>1. loop.at \in {"marked", "sent"}
      BY <1>2 DEF Emits
    <2>2. loop.key \in Keys /\ loop.asset \in Version
      BY <2>1, TypeFacts, LoopKinds DEF DevInv
    <2>3. \A f \in Contents : [f EXCEPT ![loop.key] = loop.asset] \in Contents
      BY <2>2 DEF Contents
    <2> QED
      BY <1>1, <1>2, <2>3 DEF Announce
  <1>3. CASE ~ Emits
    BY <1>1, <1>3 DEF Announce
  <1> QED
    BY <1>2, <1>3

\* The end of the server changes nothing the invariants speak of.
LEMMA EndKeeps ==
    ASSUME DevInv, Counted, ServerEnds
    PROVE  DevInv' /\ Counted'
  <1> USE AtFacts
  <1>1. /\ loop = Idle /\ loop' = Stopped
        /\ UNCHANGED <<worldVars, watchVars, stateVars, pollVars>>
    BY DEF ServerEnds
  <1>2. TypeOK' /\ StillPolling'
    BY <1>1 DEF DevInv, TypeOK, StillPolling, worldVars, ghostVars, watchVars, timerVars,
                stateVars, pollVars
  <1>3. TimersTell' /\ ChannelTells'
    BY <1>1, StillTells DEF DevInv, worldVars, ghostVars
  <1>4. LoopTells' /\ FilesTell'
    BY <1>1 DEF DevInv, LoopTells, FilesTell, Asleep, Queued, Handled, Reached, Left,
                worldVars, ghostVars, watchVars, timerVars, stateVars
  <1>5. SentStored' /\ ThemeFollows' /\ FetchHolds'
    BY <1>1 DEF SentStored, ThemeFollows, FetchHolds
  <1>6. Counted'
    BY <1>1 DEF Counted, worldVars, stateVars
  <1> QED
    BY <1>2, <1>3, <1>4, <1>5, <1>6 DEF DevInv

LEMMA ServerStart == ServerInit => ServerInv
  <1> SUFFICES ASSUME ServerInit PROVE ServerInv
    OBVIOUS
  <1>1. DevInv /\ Counted
    BY InitInv, CountedInit DEF ServerInit
  <1>2. TabTypes
    BY EmptyContents DEF ServerInit, TabTypes
  <1>3. \A t \in Tabs : TabPromised(t)
    BY <1>1, EmptyPromised DEF ServerInit, TabPromised, DevInv
  <1> QED
    BY <1>1, <1>2, <1>3 DEF ServerInv

LEMMA ServerStep ==
    ASSUME ~ (Sync /\ Rejects), ServerInv, [ServerNext]_serverVars
    PROVE  ServerInv'
  <1>1. DevInv' /\ Counted'
    <2>1. Next \/ UNCHANGED devVars \/ ServerEnds
      BY DEF ServerNext, LoopStep, CtrlC, Handler, Browser, ReadUnsynced, ReadFiles, Rendered,
             RenderFailed, Mismatch, Show, Request, Subscribe, Close, Next, serverVars
    <2> QED
      BY <2>1, DevStep, CountedKept, EndKeeps DEF ServerInv, DevInv
  <1>2. CASE (Edit \/ Watch) /\ UNCHANGED httpVars
    <2>1. Next /\ UNCHANGED <<tab, seen, override, owed, due>>
      BY <1>2 DEF Next, httpVars, requestVars, streamVars
    <2>2. TabTypes'
      BY <2>1 DEF ServerInv, TabTypes
    <2>3. ASSUME loop' # Stopped, NEW t \in Tabs PROVE TabPromised(t)'
      <3>1. loop # Stopped
        BY <2>1, <2>3, StoppedStays
      <3>2. PICK f \in Contents : f = due[t] /\ Promises(f)
        BY <3>1 DEF ServerInv, TabTypes, TabPromised
      <3>3. Promises(f)'
        BY <2>1, <2>3, <3>2, PromisesKept DEF ServerInv, DevInv, Promises
      <3> QED
        BY <2>1, <2>3, <3>2, <3>3, TabsKept
    <2> QED
      BY <1>1, <2>2, <2>3 DEF ServerInv
  <1>3. CASE LoopStep
    BY <1>1, <1>3, LoopStepKeeps, AnnounceTypes DEF ServerInv
  <1>4. CASE UNCHANGED <<devVars, requestVars, streamVars>>
    <2>1. UNCHANGED <<devVars, tab, seen, override, owed, due, loop>>
      BY <1>4 DEF requestVars, streamVars, devVars
    <2>2. TabTypes' /\ (loop # Stopped => \A t \in Tabs : TabPromised(t)')
      BY <2>1, SameTab DEF ServerInv, TabTypes
    <2> QED
      BY <1>1, <2>1, <2>2 DEF ServerInv
  <1>5. CASE ServerEnds
    BY <1>1, <1>5 DEF ServerEnds, httpVars, requestVars, streamVars, ServerInv, TabTypes
  <1>6. ASSUME NEW t \in Tabs, loop # Stopped,
               Handler(t) \/ RenderFailed(t) \/ Mismatch(t) \/ Browser(t)
        PROVE  ServerInv'
    BY <1>1, <1>6, RequestKeeps, ReadUnsyncedKeeps, ReadFilesKeeps, AnswerKeeps
       DEF Handler, Browser, ServerInv
  <1>7. ASSUME NEW t \in Tabs, loop = Stopped, Close(t) PROVE ServerInv'
    <2>1. UNCHANGED loop
      BY <1>7 DEF Close, devVars
    <2>2. TabTypes'
      BY <1>7, EmptyContents DEF Close, ServerInv, TabTypes
    <2> QED
      BY <1>1, <1>7, <2>1, <2>2 DEF ServerInv
  <1>8. ASSUME NEW t \in Tabs, loop = Stopped,
               Handler(t) \/ RenderFailed(t) \/ Mismatch(t) \/ Browser(t)
        PROVE  Close(t)
    BY <1>8 DEF Handler, Browser, ReadUnsynced, ReadFiles, Rendered, RenderFailed, Mismatch,
                Request, Subscribe, Serving
  <1> QED
    BY <1>2, <1>3, <1>4, <1>5, <1>6, <1>7, <1>8 DEF ServerNext, CtrlC, serverVars, httpVars

LEMMA FreshRendering ==
    ASSUME ServerInv, NEW t \in Tabs, Rendered(t)
    PROVE  Covers([k \in Keys |-> IF k \in errors THEN 0 ELSE Rendering(t)[k]], owed[t])
  <1> SUFFICES ASSUME NEW k \in Keys, k \notin errors
               PROVE  Rendering(t)[k] = 0 \/ Rendering(t)[k] >= owed[t][k]
    BY DEF Covers
  <1>1. loop # Stopped /\ tab[t] = "sent" /\ TabPromised(t)
    BY DEF Rendered, Show, Moves, ServerInv
  <1>2. CASE k \in seen[t]
    BY <1>1, <1>2 DEF Rendering, TabPromised
  <1>3. CASE k \notin seen[t]
    BY <1>1, <1>3 DEF Rendering, TabPromised, Has
  <1> QED
    BY <1>2, <1>3

\* A rendering is never older than what was announced to its tab before the
\* request (dev.rs, render_storefront and hot_reload), with any number of files,
\* edits and tabs.  With --theme-editor-sync it holds where no upload is
\* rejected: a poll may take back a rejected edit that was announced.
THEOREM RendersFresh ==
    ASSUME ~ (Sync /\ Rejects)
    PROVE  ServerSpec => RenderFresh
  <1>1. ServerInit => ServerInv
    BY ServerStart
  <1>2. ServerInv /\ [ServerNext]_serverVars => ServerInv'
    BY ServerStep
  <1>3. ServerInv /\ [ServerNext]_serverVars
        => [\A t \in Tabs : Rendered(t) =>
               Covers([k \in Keys |-> IF k \in errors THEN 0 ELSE Rendering(t)[k]], owed[t])]_serverVars
    BY FreshRendering
  <1> QED
    BY <1>1, <1>2, <1>3, PTL DEF ServerSpec, RenderFresh

=============================================================================
