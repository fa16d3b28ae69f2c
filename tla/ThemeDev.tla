------------------------------ MODULE ThemeDev ------------------------------
(***************************************************************************)
(* `shopify theme dev` keeping a local theme and its remote development    *)
(* theme in step: theme/src/watcher.rs (the debounced file watcher) and    *)
(* theme/src/dev.rs (run_dev_server's loop, handle_file_event and          *)
(* poll_theme_editor_changes).                                             *)
(*                                                                         *)
(* The content of a file is the number of the edit that wrote it, 0 when   *)
(* the file does not exist.  The developer edits the disk, a merchant the  *)
(* remote theme.  The watcher's tasks and the loop are concurrent with     *)
(* both; the loop itself is one task, and awaits every request it sends.   *)
(***************************************************************************)
EXTENDS Naturals, Sequences, FiniteSets, Functions

CONSTANTS
    Keys,             \* theme files
    Json,             \* the .json files among them, the only ones the poll looks at
    MaxVersion,       \* bound: edits
    ChannelCap,       \* capacity of the watch channel (256)
    MaxFailures,      \* MAX_THEME_EDITOR_POLLING_FAILURES
    Sync,             \* --theme-editor-sync; the merchant edits only then
    NoDelete,         \* --nodelete
    Movable,          \* files that may be moved away or renamed
    Replaces,         \* tools that delete and create a file at once, as git checkout does
    Rejects,          \* the remote may reject a file
    Outages           \* requests may fail altogether

ASSUME ThemeDevAssumption ==
    /\ IsFiniteSet(Keys) /\ Cardinality(Keys) <= MaxVersion
    /\ Json \subseteq Keys /\ Movable \subseteq Keys
    /\ MaxVersion \in Nat /\ ChannelCap \in Nat \ {0} /\ MaxFailures \in Nat \ {0}
    /\ {Sync, NoDelete, Replaces, Rejects, Outages} \subseteq BOOLEAN

Version == 0..MaxVersion
Contents == [Keys -> Version]
Empty == [k \in Keys |-> 0]
Event == [kind : {"update", "delete", "rename"}, key : Keys]
Update(k) == [kind |-> "update", key |-> k]
Delete(k) == [kind |-> "delete", key |-> k]
Rename(k) == [kind |-> "rename", key |-> k]

VARIABLES
    disk, remote,     \* the local files, the remote theme
    version,          \* edits so far
    edited, replaced, \* ghosts: the files the merchant edited, those LocalReplace did,
    moved,            \* and those moved away and not written since
    sleeping, before, \* the watcher's tasks, and which of them was armed before which
    channel,          \* watch_tx to watch_rx
    files,            \* ThemeFileSystem.files and AppState.files
    unsynced, errors, \* ThemeWatchState.unsynced_file_keys, .upload_errors
    baseline,         \* remote_checksums
    failures,         \* polling_failures
    loop              \* what run_dev_server's loop awaits

ghostVars == <<edited, replaced, moved>>
worldVars == <<disk, remote, version, ghostVars>>
timerVars == <<sleeping, before>>
watchVars == <<timerVars, channel>>
stateVars == <<files, unsynced, errors>>
pollVars == <<baseline, failures>>
devVars == <<worldVars, watchVars, stateVars, pollVars, loop>>

At(at) == [at |-> at]
Idle == At("select")
Stopped == At("stopped")
Loops ==
    {Idle, Stopped}
    \cup [at : {"marked", "sent"}, key : Keys, asset : Version]
    \cup [at : {"poll"}, keys : SUBSET Keys]
    \cup [at : {"fetch"}, latest : Contents, download : SUBSET Keys,
          deleted : SUBSET Keys, since : Version]

\* push_initial has brought the theme in line with the disk.
Init ==
    /\ version = Cardinality(Keys)
    /\ disk \in {f \in [Keys -> 1..Cardinality(Keys)] : IsInjective(f)}
    /\ remote = disk /\ files = disk
    /\ edited = {} /\ replaced = {} /\ moved = {}
    /\ sleeping = {} /\ before = {} /\ channel = <<>>
    /\ unsynced = {} /\ errors = {}
    /\ baseline = IF Sync THEN remote ELSE Empty
    /\ failures = 0
    /\ loop = Idle

-----------------------------------------------------------------------------
(* The watcher: every event restarts the 250 ms task of its kind and path *)

\* Mutant: a new event forgets what else is pending.
ArmOnlyMutant(S) ==
    /\ sleeping' = IF S = {} THEN sleeping ELSE S
    /\ before' = IF S = {} THEN before ELSE {}

Others(S) == {p \in before : p[1] \notin S /\ p[2] \notin S}

\* The tasks of S start anew, together and behind every other.
Arm(S) ==
    /\ sleeping' = sleeping \cup S
    /\ before' = Others(S) \cup ((sleeping \ S) \X S)

\* The task sends its event, blocked while the channel is full.  Tasks armed
\* in the same instant may wake in any order.
Debounced(e) ==
    /\ e \in sleeping
    /\ \A f \in sleeping : <<f, e>> \notin before
    /\ Len(channel) < ChannelCap
    /\ sleeping' = sleeping \ {e}
    /\ before' = Others({e})
    /\ channel' = Append(channel, e)
    /\ UNCHANGED <<worldVars, stateVars, pollVars, loop>>

-----------------------------------------------------------------------------
(* The developer and the merchant *)

Renewed(S) == moved' = moved \ S

LocalWrite(k) ==
    /\ version < MaxVersion
    /\ version' = version + 1
    /\ disk' = [disk EXCEPT ![k] = version']
    /\ Arm({Update(k)}) /\ Renewed({k})
    /\ UNCHANGED <<remote, edited, replaced, channel, stateVars, pollVars, loop>>

LocalDelete(k) ==
    /\ disk[k] # 0
    /\ disk' = [disk EXCEPT ![k] = 0]
    /\ Arm({Delete(k)})
    /\ UNCHANGED <<remote, version, ghostVars, channel, stateVars, pollVars, loop>>

\* Both events are armed in the same millisecond: their tasks wake together.
LocalReplace(k) ==
    /\ Replaces /\ disk[k] # 0 /\ version < MaxVersion
    /\ version' = version + 1
    /\ disk' = [disk EXCEPT ![k] = version']
    /\ Arm({Delete(k), Update(k)}) /\ Renewed({k})
    /\ replaced' = replaced \cup {k}
    /\ UNCHANGED <<remote, edited, channel, stateVars, pollVars, loop>>

\* Renamed to no file of the theme, as into the trash.
LocalMove(k) ==
    /\ k \in Movable /\ disk[k] # 0
    /\ disk' = [disk EXCEPT ![k] = 0]
    /\ Arm({Rename(k)})
    /\ moved' = moved \cup {k}
    /\ UNCHANGED <<remote, version, edited, replaced, channel, stateVars, pollVars, loop>>

\* Each path has an event of its own; the third one, of both, tells no more.
LocalRename(k, j) ==
    /\ k \in Movable /\ disk[k] # 0 /\ j # k /\ version < MaxVersion
    /\ version' = version + 1
    /\ disk' = [disk EXCEPT ![k] = 0, ![j] = version']
    /\ Arm({Rename(k), Rename(j)})
    /\ moved' = (moved \cup {k}) \ {j}
    /\ UNCHANGED <<remote, edited, replaced, channel, stateVars, pollVars, loop>>

RemoteWrite(k) ==
    /\ Sync /\ version < MaxVersion
    /\ version' = version + 1
    /\ remote' = [remote EXCEPT ![k] = version']
    /\ edited' = edited \cup {k}
    /\ UNCHANGED <<disk, replaced, moved, watchVars, stateVars, pollVars, loop>>

RemoteDelete(k) ==
    /\ Sync /\ remote[k] # 0
    /\ remote' = [remote EXCEPT ![k] = 0]
    /\ edited' = edited \cup {k}
    /\ UNCHANGED <<disk, version, replaced, moved, watchVars, stateVars, pollVars, loop>>

-----------------------------------------------------------------------------
(* handle_file_event: asset 0 is the deletion of the file *)

\* Mutant: the event is applied as it is, without looking at the disk.
BlindMutant ==
    /\ loop = Idle /\ channel # <<>>
    /\ channel' = Tail(channel)
    /\ LET e == Head(channel)
           asset == IF e.kind = "delete" THEN 0 ELSE files[e.key]
       IN /\ unsynced' = unsynced \cup {e.key}
          /\ loop' = [at |-> "marked", key |-> e.key, asset |-> asset]
    /\ UNCHANGED <<worldVars, timerVars, files, errors, pollVars>>

\* normalize_event_with_listing makes an update of a renaming: that of a path
\* that is no file, as of any that has gone again, is dropped.  A deletion is
\* not checked against the disk.
TakeEvent ==
    /\ loop = Idle /\ channel # <<>>
    /\ channel' = Tail(channel)
    /\ LET e == Head(channel)
           asset == IF e.kind = "delete" THEN 0 ELSE disk[e.key]
       IN \/ /\ e.kind # "delete" /\ asset = 0
             /\ UNCHANGED <<unsynced, loop>>
          \/ /\ e.kind = "delete" \/ asset # 0
             /\ unsynced' = unsynced \cup {e.key}
             /\ loop' = [at |-> "marked", key |-> e.key, asset |-> asset]
    /\ UNCHANGED <<worldVars, timerVars, files, errors, pollVars>>

MarkSynced == unsynced' = unsynced \ {loop.key}

\* The files change, the "local" reload event is emitted and the request sent.
Store ==
    /\ loop.at = "marked"
    /\ files' = [files EXCEPT ![loop.key] = loop.asset]
    /\ IF loop.asset = 0 /\ NoDelete
       THEN loop' = Idle /\ MarkSynced
       ELSE loop' = [loop EXCEPT !.at = "sent"] /\ UNCHANGED unsynced
    /\ UNCHANGED <<worldVars, watchVars, errors, pollVars>>

Remember(rejected) ==
    errors' = IF rejected THEN errors \cup {loop.key} ELSE errors \ {loop.key}

\* The answer, then mark_synced whatever it says, and the "remote" reload event.
Answered ==
    /\ loop.at = "sent"
    /\ \/ remote' = [remote EXCEPT ![loop.key] = loop.asset] /\ Remember(FALSE)
       \/ Rejects /\ UNCHANGED remote /\ Remember(TRUE)
    /\ MarkSynced
    /\ loop' = Idle
    /\ UNCHANGED <<disk, version, ghostVars, watchVars, files, pollVars>>

\* A request that fails altogether ends the server.
Unanswered ==
    /\ Outages
    /\ loop.at = "sent"
    /\ loop' = Stopped
    /\ UNCHANGED <<worldVars, watchVars, stateVars, pollVars>>

-----------------------------------------------------------------------------
(* poll_theme_editor_changes *)

Poll ==
    /\ Sync /\ loop = Idle
    /\ loop' = [at |-> "poll", keys |-> Json \ unsynced]
    /\ UNCHANGED <<worldVars, watchVars, stateVars, pollVars>>

PollFailed ==
    /\ failures' = failures + 1
    /\ loop' = IF failures' = MaxFailures THEN Stopped ELSE Idle
    /\ UNCHANGED <<worldVars, watchVars, stateVars, baseline>>

PollOutage == Outages /\ loop.at \in {"poll", "fetch"} /\ PollFailed

Only(S, f) == [k \in Keys |-> IF k \in S THEN f[k] ELSE 0]
Changed(previous, latest) == {k \in Keys : latest[k] # 0 /\ previous[k] # latest[k]}
Deleted(previous, latest) == {k \in Keys : previous[k] # 0 /\ latest[k] = 0}

\* Mutant: changes on both sides do not abort the poll.
NeverMutant(changed) == FALSE

\* abort_if_multiple_sources_changed
BothChanged(changed) ==
    \E k \in changed : files[k] # 0 /\ disk[k] # 0 /\ disk[k] # files[k]

PollChecksums ==
    /\ loop.at = "poll"
    /\ LET previous == Only(loop.keys, baseline)
           latest == Only(loop.keys, remote)
           changed == Changed(previous, latest)
       IN \/ BothChanged(changed) /\ PollFailed
          \/ /\ ~ BothChanged(changed)
             /\ loop' = [at |-> "fetch", latest |-> latest,
                         download |-> {k \in changed : files[k] # latest[k]},
                         deleted |-> Deleted(previous, latest),
                         since |-> version]
             /\ UNCHANGED <<worldVars, watchVars, stateVars, pollVars>>

\* fetch_assets returns what the theme has by now.  The files are written and
\* deleted without another look at the disk, and the watcher sees both.
PollApply ==
    /\ loop.at = "fetch"
    /\ LET written == {k \in loop.download : remote[k] # 0}
           removed == IF NoDelete THEN {} ELSE {k \in loop.deleted : files[k] # 0}
           Apply(f) == [k \in Keys |-> IF k \in written THEN remote[k]
                                      ELSE IF k \in removed THEN 0 ELSE f[k]]
       IN /\ disk' = Apply(disk)
          /\ files' = Apply(files)
          /\ Arm({Update(k) : k \in written}
                 \cup {Delete(k) : k \in {d \in removed : disk[d] # 0}})
          /\ Renewed(written)
    /\ baseline' = loop.latest
    /\ failures' = 0
    /\ loop' = Idle
    /\ UNCHANGED <<remote, version, edited, replaced, channel, unsynced, errors>>

-----------------------------------------------------------------------------

Edit == \E k \in Keys : \/ LocalWrite(k) \/ LocalDelete(k) \/ LocalReplace(k)
                       \/ LocalMove(k) \/ \E j \in Keys : LocalRename(k, j)
                       \/ RemoteWrite(k) \/ RemoteDelete(k)
Watch == \E e \in Event : Debounced(e)
Loop == TakeEvent \/ Store \/ Answered \/ Unanswered
        \/ Poll \/ PollOutage \/ PollChecksums \/ PollApply
Next == Edit \/ Watch \/ Loop

Spec == Init /\ [][Next]_devVars

\* A request is answered one way or the other, and a poll goes on.
Answer == Store \/ Answered \/ PollChecksums \/ PollApply

-----------------------------------------------------------------------------
(* Properties *)

TypeOK ==
    /\ disk \in Contents /\ remote \in Contents /\ files \in Contents
    /\ version \in Version
    /\ edited \subseteq Keys /\ replaced \subseteq Keys /\ moved \subseteq Keys
    /\ sleeping \subseteq Event /\ before \subseteq sleeping \X sleeping
    /\ channel \in Seq(Event) /\ Len(channel) <= ChannelCap
    /\ unsynced \subseteq Keys /\ errors \subseteq Keys
    /\ baseline \in Contents
    /\ failures \in 0..MaxFailures
    /\ loop \in Loops
    /\ loop = Stopped \/ unsynced = (IF loop.at \in {"marked", "sent"} THEN {loop.key} ELSE {})

Quiet == sleeping = {} /\ channel = <<>> /\ loop = Idle

\* Once every event has been handled, a file the merchant did not touch differs
\* from the theme only if its rejection is shown in the error overlay: the
\* restarted timers, the full channel, the polls and the re-read of the disk
\* lose no edit but one.  A file that is moved away or renamed stays, under its
\* old name, in the memory of the server and on the theme: normalize_event makes
\* an update of its event, of a path that is no file any more.  A tool that
\* replaces files may leave one deleted (its two tasks woke in the wrong order,
\* and a deletion is not checked against the disk), never out of date.
Left(k) == k \in moved /\ disk[k] = 0
Reached(k) == files[k] = disk[k] \/ (k \in replaced /\ files[k] = 0) \/ Left(k)
NoSilentDivergence ==
    Quiet =>
        \A k \in Keys \ (errors \cup edited) :
            Reached(k) /\ (remote[k] = files[k] \/ (NoDelete /\ files[k] = 0))

\* A poll never overwrites a local edit of a known file that was on the disk
\* when it compared the two sides; only a younger one, made while it awaited
\* the assets, or a file the server has not met yet.
OverwritesOnlyYounger ==
    [][\A k \in Keys :
        loop.at = "fetch" /\ loop' = Idle /\ k \in loop.download /\ disk'[k] # disk[k]
            => files[k] = 0 \/ disk[k] \in {0, files[k]} \/ disk[k] > loop.since]_devVars

\* When the edits stop, the disk, the theme and the files the server renders
\* with become the same and stay so, unless repeated conflicts stop the server:
\* the echo of every downloaded file dies out.  The exceptions are a file that
\* was moved away (it stays in memory and on the theme), one that is no .json
\* file and that the merchant edited (the poll leaves it out), and one that
\* appeared on the theme and was deleted there between two polls: without an
\* entry in the baseline its deletion is never noticed.
Missed(k) == remote[k] = 0 /\ baseline[k] = 0
Settled ==
    /\ sleeping = {} /\ channel = <<>>
    /\ \A k \in Keys : files[k] = disk[k] \/ Left(k)
    /\ \A k \in Keys \ (edited \ Json) : remote[k] = files[k] \/ Missed(k)
Settles == <>[](loop = Stopped \/ Settled)

=============================================================================
