-------------------------- MODULE ThemeEnvironments --------------------------
(***************************************************************************)
(* Theme commands over several environments (-e one -e two) and the file   *)
(* in which the CLI keeps the development theme of each store:             *)
(* commands/theme.rs (ThemeCommandRunner; info, delete, pull and push with *)
(* --development), theme/src/local_storage.rs and                          *)
(* development_theme_manager.rs.  The environments of a group run as tasks *)
(* that interleave at every request and at every access to the file.       *)
(*                                                                         *)
(* A theme is <<store, n>>: the store it is on, and a number.              *)
(***************************************************************************)
EXTENDS Naturals, FiniteSets

CONSTANTS
    Stores,
    NoStore,             \* an environment that lacks a flag; no store was used yet
    EnvironmentCount,
    ThemeCommands,       \* subset of {"info", "delete", "pull", "push"}
    MaxThemeMishaps      \* bounds failed requests, and themes deleted elsewhere

ASSUME ThemeEnvironmentsAssumption ==
    /\ IsFiniteSet(Stores) /\ NoStore \notin Stores /\ EnvironmentCount \in Nat
    /\ ThemeCommands \subseteq {"info", "delete", "pull", "push"} /\ MaxThemeMishaps \in Nat

Environments == 1..EnvironmentCount
NoTheme == <<>>
NoEnvironment == 0

VARIABLES
    run,         \* the command: [name, stores, lastStore, group, at]
    task,        \* of each environment, see NewTask
    references,  \* the file: the development theme of each store
    fileLock,    \* the environment that holds its lock
    onStore,     \* the development themes that exist
    created,     \* how many the command has created
    ledger,      \* what the updates, one after another, make of the file
    themeMishaps

taskVars == <<run, task>>
fileVars == <<references, fileLock, ledger>>
onStoreVars == <<onStore, created, themeMishaps>>
environmentVars == <<taskVars, fileVars, onStoreVars>>

NewTask == [at |-> "begin",
            theme |-> NoTheme,                          \* the reference that was read
            doomed |-> {}, deleted |-> {},              \* the themes `delete` has chosen
            update |-> NoTheme,                         \* what is to be kept
            loaded |-> [s \in Stores |-> NoTheme]]      \* the file, under the lock

EnvironmentsInit ==
    /\ run \in [name : ThemeCommands, stores : [Environments -> Stores \cup {NoStore}],
                lastStore : Stores \cup {NoStore}, group : {1}, at : {"confirm"}]
    /\ task = [e \in Environments |-> NewTask]
    /\ onStore = {<<s, 0>> : s \in Stores}
    /\ \E known \in SUBSET Stores :
          references = [s \in Stores |-> IF s \in known THEN <<s, 0>> ELSE NoTheme]
    /\ fileLock = NoEnvironment /\ created = 0 /\ ledger = references /\ themeMishaps = 0

ThemeMishap == themeMishaps < MaxThemeMishaps /\ themeMishaps' = themeMishaps + 1

\* group_by_unique_store: the first group that has no environment of the store.
Group(e) == 1 + Cardinality({d \in 1..(e - 1) : run.stores[d] = run.stores[e]})

Valid(e) == run.stores[e] # NoStore
Running(e) == run.at = "run" /\ Valid(e) /\ Group(e) = run.group
TaskAt(e, at) == Running(e) /\ task[e].at = at
TaskStep(e, next) == task' = [task EXCEPT ![e] = next] /\ UNCHANGED run
TaskGoto(e, at) == TaskStep(e, [task[e] EXCEPT !.at = at])

\* Commands that write or delete ask first.
ConfirmRun ==
    /\ run.at = "confirm"
    /\ \/ run' = [run EXCEPT !.at = "run"]
       \/ run.name # "info" /\ run' = [run EXCEPT !.at = "done"]
    /\ UNCHANGED <<task, fileVars, onStoreVars>>

NextGroup ==
    /\ run.at = "run"
    /\ \A e \in Environments : Running(e) => task[e].at = "done"
    /\ run' = IF \A e \in Environments : Valid(e) => Group(e) <= run.group
              THEN [run EXCEPT !.at = "done"] ELSE [run EXCEPT !.group = @ + 1]
    /\ UNCHANGED <<task, fileVars, onStoreVars>>

\* development_theme_id_for_store.  `pull` needs one, `delete` takes all
\* development themes of the store if there is none.
ReadReference(e) ==
    /\ TaskAt(e, "begin")
    /\ LET theme == references[run.stores[e]]
       IN TaskStep(e, [task[e] EXCEPT !.theme = theme,
                      !.at = IF run.name \in {"delete", "info"} THEN "list"
                             ELSE IF theme # NoTheme THEN "fetch"
                             ELSE IF run.name = "pull" THEN "done" ELSE "create"])
    /\ UNCHANGED <<fileVars, onStoreVars>>

Here(e, theme) == theme \in onStore /\ theme[1] = run.stores[e]

\* fetch_theme: a theme that is gone leaves its reference to be removed.
FetchTheme(e) ==
    /\ TaskAt(e, "fetch")
    /\ TaskGoto(e, IF Here(e, task[e].theme) THEN "done" ELSE "remove")
    /\ UNCHANGED <<fileVars, onStoreVars>>

\* fetch_themes.  What `info` does not find it creates; `delete` fails if the
\* theme it was asked for is not there.
ListThemes(e) ==
    /\ TaskAt(e, "list")
    /\ LET theme == task[e].theme
           all == {t \in onStore : Here(e, t)}
           asked == IF theme = NoTheme THEN all ELSE all \cap {theme}
       IN TaskStep(e, [task[e] EXCEPT
             !.doomed = IF run.name = "delete" THEN asked ELSE {},
             !.at = IF run.name = "delete" THEN (IF asked = {} THEN "done" ELSE "delete")
                    ELSE IF run.lastStore = NoStore \/ Here(e, theme) THEN "done" ELSE "create"])
    /\ UNCHANGED <<fileVars, onStoreVars>>

CreateTheme(e) ==
    /\ TaskAt(e, "create")
    /\ LET theme == <<run.stores[e], created + 1>>
       IN /\ onStore' = onStore \cup {theme} /\ created' = created + 1
          /\ \/ /\ TaskStep(e, [task[e] EXCEPT !.at = "store", !.update = theme])
                /\ UNCHANGED themeMishaps
             \/ ThemeMishap /\ TaskGoto(e, "done")     \* its answer is lost
    /\ UNCHANGED fileVars

\* The themes are deleted one after the other; then their references.
DeleteTheme(e, theme) ==
    /\ TaskAt(e, "delete") /\ theme \in task[e].doomed
    /\ onStore' = onStore \ {theme}
    /\ LET left == task[e].doomed \ {theme}
       IN TaskStep(e, [task[e] EXCEPT !.doomed = left, !.deleted = @ \cup {theme},
                      !.at = IF theme \notin onStore THEN "done"
                             ELSE IF left = {} THEN "compare" ELSE "delete"])
    /\ UNCHANGED <<fileVars, created, themeMishaps>>

CompareReference(e) ==
    /\ TaskAt(e, "compare")
    /\ TaskGoto(e, IF references[run.stores[e]] \in task[e].deleted THEN "remove" ELSE "done")
    /\ UNCHANGED <<fileVars, onStoreVars>>

\* Mutant: the lock is not waited for.
NoLockMutant == TRUE

LockFree == fileLock = NoEnvironment

\* update: the lock is taken and the file is read...
LoadReferences(e) ==
    /\ TaskAt(e, "store") \/ TaskAt(e, "remove")
    /\ LockFree
    /\ fileLock' = e
    /\ TaskStep(e, [task[e] EXCEPT !.loaded = references,
                   !.at = IF @ = "store" THEN "save" ELSE "save removal"])
    /\ UNCHANGED <<references, ledger, onStoreVars>>

\* The manager of `info` takes the store that was used last, which is in a file,
\* for the store of the task (require_store).
Key(e) == IF run.name = "info" THEN run.lastStore ELSE run.stores[e]

\* ... and the changed file is renamed into place, or the error is dropped.
SaveReferences(e) ==
    /\ TaskAt(e, "save") \/ TaskAt(e, "save removal")
    /\ \/ /\ references' = [task[e].loaded EXCEPT ![Key(e)] = task[e].update]
          /\ ledger' = [ledger EXCEPT ![Key(e)] = task[e].update]
          /\ UNCHANGED themeMishaps
       \/ ThemeMishap /\ UNCHANGED <<references, ledger>>
    /\ fileLock' = NoEnvironment
    /\ TaskGoto(e, IF task[e].at = "save removal" /\ run.name = "push" THEN "create" ELSE "done")
    /\ UNCHANGED <<onStore, created>>

\* Mutant: a theme that cannot be fetched is taken for one that is gone.
TakenForGoneMutant(e) ==
    /\ TaskAt(e, "fetch") /\ ThemeMishap /\ TaskGoto(e, "remove")
    /\ UNCHANGED <<fileVars, onStore, created>>

\* A request fails: the environment's error is printed, the others go on.
FailEnvironment(e) ==
    /\ Running(e) /\ task[e].at \in {"fetch", "list", "create", "delete"}
    /\ ThemeMishap /\ TaskGoto(e, "done")
    /\ UNCHANGED <<fileVars, onStore, created>>

\* Somebody else deletes a theme.
LoseTheme(theme) ==
    /\ ThemeMishap
    /\ onStore' = onStore \ {theme}
    /\ UNCHANGED <<taskVars, fileVars, created>>

EnvironmentsNext ==
    \/ ConfirmRun \/ NextGroup
    \/ \E e \in Environments :
          \/ ReadReference(e) \/ FetchTheme(e) \/ ListThemes(e) \/ CreateTheme(e)
          \/ CompareReference(e) \/ LoadReferences(e) \/ SaveReferences(e) \/ FailEnvironment(e)
          \/ \E theme \in task[e].doomed : DeleteTheme(e, theme)
    \/ \E theme \in onStore : LoseTheme(theme)

EnvironmentsSpec == EnvironmentsInit /\ [][EnvironmentsNext]_environmentVars

-----------------------------------------------------------------------------
(* Properties *)

\* No update of the file is lost to another environment's, of whatever store
\* (update; the test concurrent_store_updates_do_not_lose_entries).
NoUpdateLost == references = ledger

\* Only the reference of a theme that is gone is removed ("Its stale local
\* reference was removed."), though the check and the removal are apart: no
\* environment of the same store runs meanwhile (group_by_unique_store).
OnlyStaleRemoved ==
    [][\A s \in Stores : references[s] # NoTheme /\ references'[s] = NoTheme =>
          references[s] \notin onStore]_environmentVars

\* What is kept for a store is a theme of that store: "Multi-environment
\* commands must not communicate through the process-wide 'last used' store
\* file" (local_storage.rs).  `theme info --development` does.
KeptUnderItsStore == \A s \in Stores : references[s] # NoTheme => references[s][1] = s
==============================================================================
