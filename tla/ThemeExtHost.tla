----------------------------- MODULE ThemeExtHost -----------------------------
(***************************************************************************)
(* The files of a theme app extension that `app dev` serves from memory:   *)
(* theme/src/theme_ext/fs.rs.  A watcher thread handles the events of the  *)
(* operating system one by one; a file it has read is rendered from memory *)
(* until a timer clears its mark, and the open pages are told of it        *)
(* (theme_ext/server.rs).  A file's content is a number, 0 if there is     *)
(* none.                                                                   *)
(***************************************************************************)
EXTENDS Naturals, Sequences

CONSTANTS
    ExtFiles,
    WatchedFiles,    \* those in directories that existed at the start
    MaxExtEdits,     \* bounds the edits
    MaxReadFailures  \* bounds reads that fail

ASSUME ThemeExtHostAssumption ==
    WatchedFiles \subseteq ExtFiles /\ {MaxExtEdits, MaxReadFailures} \subseteq Nat

EmptyFile == 1

VARIABLES
    extDisk, extMemory,  \* content of each file
    extEvents,           \* events the operating system has for the watcher
    handling,            \* the update it handles: [file, content] or NoFile
    unsynced,            \* unsynced_file_keys
    clears,              \* timers of each file that will clear its mark
    told,                \* what the open pages were last told of each file
    movedAway,           \* files that were renamed since they were written
    extEdits, unread     \* edits so far; files whose last read failed

extDiskVars == <<extDisk, extEdits, movedAway>>
extServerVars == <<extMemory, handling, unsynced, clears, told, unread>>
extHostVars == <<extDiskVars, extServerVars, extEvents>>

NoFile == [content |-> 0]

ExtHostInit ==
    /\ extDisk \in [ExtFiles -> {0, 2}] /\ extMemory = extDisk /\ told = extDisk
    /\ extEvents = <<>> /\ handling = NoFile /\ unsynced = {} /\ movedAway = {}
    /\ clears = [f \in ExtFiles |-> 0] /\ extEdits = 0 /\ unread = {}

EditFile(f, content, event) ==
    /\ extEdits < MaxExtEdits /\ extEdits' = extEdits + 1
    /\ extDisk' = [extDisk EXCEPT ![f] = content]
    /\ extEvents' = IF f \in WatchedFiles THEN Append(extEvents, [kind |-> event, file |-> f])
                    ELSE extEvents
    /\ UNCHANGED extServerVars

WriteFile(f) ==
    /\ \E content \in {EmptyFile, 3 + extEdits} : EditFile(f, content, "update")
    /\ movedAway' = movedAway \ {f}

DeleteExtFile(f) ==
    extDisk[f] # 0 /\ EditFile(f, 0, "delete") /\ UNCHANGED movedAway

\* For notify, a file that is renamed is modified.
MoveFile(f) ==
    extDisk[f] # 0 /\ EditFile(f, 0, "update") /\ movedAway' = movedAway \cup {f}

NextEvent(kind) ==
    /\ handling = NoFile /\ extEvents # <<>> /\ Head(extEvents).kind = kind
    /\ extEvents' = Tail(extEvents)

\* handle_file_update reads the file...
ReadExtFile ==
    /\ NextEvent("update")
    /\ handling' = [file |-> Head(extEvents).file, content |-> extDisk[Head(extEvents).file]]
    /\ UNCHANGED <<extDiskVars, extMemory, unsynced, clears, told, unread>>

\* Mutant: an empty file is not kept either.
NonEmptyMutant(old, content) == IF content = EmptyFile THEN old ELSE content

Keep(old, content) == content

\* ... keeps what was read, marks it, and tells of it unless it is empty; if the
\* read fails, what was kept before is marked.
KeepExtFile(failed) ==
    /\ handling # NoFile
    /\ LET f == handling.file
       IN /\ extMemory' = IF failed THEN extMemory
                          ELSE [extMemory EXCEPT ![f] = Keep(@, handling.content)]
          /\ told' = IF failed \/ handling.content \in {0, EmptyFile} THEN told
                     ELSE [told EXCEPT ![f] = handling.content]
          /\ unsynced' = unsynced \cup {f} /\ clears' = [clears EXCEPT ![f] = @ + 1]
          /\ unread' = IF failed THEN unread \cup {f} ELSE unread \ {f}
    /\ handling' = NoFile
    /\ UNCHANGED <<extDiskVars, extEvents>>

\* handle_file_delete does not look at the disk.
ForgetExtFile ==
    /\ NextEvent("delete")
    /\ LET f == Head(extEvents).file
       IN /\ extMemory' = [extMemory EXCEPT ![f] = 0] /\ told' = [told EXCEPT ![f] = 0]
          /\ unsynced' = unsynced \ {f} /\ unread' = unread \ {f}
    /\ UNCHANGED <<extDiskVars, handling, clears>>

\* A timer clears the mark, also the one that a later update has set.
ClearMark(f) ==
    /\ clears[f] > 0 /\ clears' = [clears EXCEPT ![f] = @ - 1]
    /\ unsynced' = unsynced \ {f}
    /\ UNCHANGED <<extDiskVars, extEvents, extMemory, handling, told, unread>>

ExtHostNext ==
    \/ \E f \in ExtFiles : WriteFile(f) \/ DeleteExtFile(f) \/ MoveFile(f) \/ ClearMark(f)
    \/ ReadExtFile \/ KeepExtFile(FALSE) \/ ForgetExtFile
    \/ MaxReadFailures > 0 /\ KeepExtFile(TRUE)

ExtHostSpec == ExtHostInit /\ [][ExtHostNext]_extHostVars

-----------------------------------------------------------------------------
(* Properties *)

\* When all events are handled, what is served is what is on the disk, and what
\* the pages were told last is so too, in directories that existed at the
\* start; but for files that could not be read, and, in the pages, files that
\* were renamed or emptied (handle_file_update, handle_file_delete).
PagesFollowDisk ==
    extEvents = <<>> /\ handling = NoFile =>
        \A f \in WatchedFiles \ unread :
            /\ extMemory[f] = extDisk[f]
            /\ told[f] = extDisk[f] \/ f \in movedAway \/ extDisk[f] = EmptyFile
==============================================================================
