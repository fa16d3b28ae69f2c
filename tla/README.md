# A TLA+ model of Shopify CLI (Rust)

This directory holds the formal verification of the parts of this repository whose
correctness depends on order: what several processes, tasks, requests, timers and
people do at the same time. Everything is translated from the Rust source; each
definition's lines are in `PROJECT.json` ("map").

Run one check with `tlc -workers 2 -config ThemeDev.cfg MCThemeDev`, one proof with
`tlapm ThemeDev_proofs.tla`. "runs" of `PROJECT.json` lists the module of each `.cfg`.

## 1. The system

One binary, `shopify`, with a crate per product. A command is one process; it keeps
state in files, in the operating system's credential store, on Shopify, and, for the
two `dev` commands, in memory for as long as it runs.

| Component | State | Operations | Interacts with | What is hard | What makes it correct |
|---|---|---|---|---|---|
| **Store auth sessions** `store/src/auth/session_store.rs`, `session_lifecycle.rs` | a JSON map of buckets (one per shop) under a file lock; token secrets in the OS credential store | read and sanitise a bucket, set, clear; load with refresh; browser login; list | all `store` commands, several processes | read and write are two locked operations with awaits between; secrets and metadata are two stores; every error is swallowed | tokens stay with their user, metadata with its token; no session lost but a rejected one |
| **Theme dev synchronisation** `theme/src/dev.rs`, `watcher.rs` | files in memory, unsynced keys, upload errors, baseline checksums | debounced file events, upload/delete, theme editor poll | file system, remote theme, HTTP handlers | four timers and one `select!`; re-reads of the disk; echoes of downloads; two writers | disk and theme converge; only named edits can be lost |
| **Theme dev HTTP server** `theme/src/dev.rs` | hot-reload streams, mismatch counter, session | render with in-memory templates, event stream, shutdown | browser tabs, the synchronisation | a request reads three locks one after the other; streams never end | a page is never older than what was announced; shutdown ends |
| **Theme push** `theme/src/sync.rs` | none; plan and report of one push | plan, two concurrent upload futures with batches and retries, deletions | remote theme, merchant | dependencies between files, partial failures, `try_join!` dropping a request in flight | the report is true; the theme becomes the disk; order causes no failure |
| **Theme pull** `theme/src/sync.rs` | none | plan, download batches, write, delete | file system, remote theme | developer edits meanwhile; fails half way | disk becomes the theme |
| **Theme environments and development themes** `cli-kit/src/commands/theme.rs`, `theme/src/local_storage.rs` | the development theme of each store, in one locked file | find, create, delete, keep, forget, in several environments at once | the stores, other environments | tasks that read and rewrite one file; a check and a removal apart | no update lost; only what is gone is forgotten |
| **Theme app extension host** `theme/src/theme_ext/*` | files in memory, marks with timers, a host theme | file events, serve, tell the pages | remote host theme, browsers | events that overtake the disk, timers | what is served and told is what is on the disk |
| **App dev watching and building** `app/src/services/dev/app_events/*` | watched paths, pending events, the loaded app, the dev bundle | debounce, batch, reload, diff, build, notify | file system, loader, dev session, preview | batches mix kinds of events; a thread with old knowledge; reloads that fail | the app and the bundle follow the disk |
| **App dev session** `processes/dev_session/*` | status; the session on the platform | create, update (inherit what did not change), delete | the watcher, the platform, the terminal | requests that fail or whose answer is lost; cancellation at any point | the session previews the bundle; none is left behind |
| **App dev supervisor** `dev/run.rs`, `processes/*` | a task per process, one cancellation token, the log channel | spawn, select, cancel, join | all processes, Ctrl+C | several ways to end, races between them | runs until stopped, stops everything |
| **App dev extension preview** `dev/extension/*` | payload store, broadcast channel, websocket clients | update, add, delete, broadcast, serve | the watcher, browsers | lagging clients, copies of extensions | clients see what is built |
| **Drafts, webhooks, logs** `processes/draftable_extension.rs`, `app_logs/poll.rs` | cursor, token | push a draft, poll logs | the platform | throttling, token refresh, cursors | no log missed or shown twice |
| **Network and tunnel** `urls.rs`, `tunnel/cloudflare.rs` | a child process, its URL | start, wait, retry | `cloudflared` | output parsing against a timeout | a URL or an error |
| **Deploy and release** `deploy/*`, `context/*`, `release/*` | identifiers in `.shopify/deploy-identifiers.json`, a bundle, a version | match identifiers, upload, create, release | the platform | failing between two requests; a second developer | nothing removed unasked, nothing reported that was not released |
| **Bulk operations** `bulk_operations/*` | an operation id | start, watch, download | Admin API | polling against a timeout | the result of that operation |
| **Identity session** `cli-kit/src/session/*` | sessions of all hosts and accounts, the current id | ensure, refresh, log in, log out | every command, several processes | snapshot across awaits; rotating refresh tokens | no account logged out by another |
| **Local configuration and cache** `util/conf_store.rs`, `cache.rs` | whole JSON files | get, set, cache, rate limit | identity session, most commands | whole-file rewrites; unreadable file is an empty one | nothing lost |
| **HTTP and GraphQL** `http.rs`, `api/graphql.rs`, `util/retry.rs` | attempts, cache, limiter | request with retry, refresh and throttle | all API clients | retries of what may have been done | bounded attempts and delays |
| **Tools of functions** `services/function/binaries.rs` | a downloaded file | check, lock, download, install | builds of several processes | a lock within the process only; kills | a build finds all of the tool or none |
| **Loader, builds, functions, generators, imports, commands, output, codegen** | files | sequential transformations | | little that interleaves | data correctness |

Calls go one way (command → service → API client); feedback comes through channels:
file system → watcher → loop (`mpsc`), loop → browsers (`broadcast`), watcher →
dev session (listener callbacks into an unbounded channel), processes → terminal (log
channel), Ctrl+C → everything (`CancellationToken`, `watch`). `PROJECT.json` lists every
component, with the reason for those that are not modelled, and the hazards of the code.

## 2. The modules

| Module | Models | Extends |
|---|---|---|
| `SessionStorage` | what the store session storage promises: each operation is atomic over file and credential store | |
| `StoreSession` (`MCStoreSession`) | the `store` commands of several processes, step by step between storage operations | `SessionStorage` |
| `AccountLedger` | what the identity session store promises: accounts keep their tokens | |
| `AuthSession` | fetching, refreshing, logging in, switching and logging out over a file rewritten in place | (instance of `AccountLedger`) |
| `ApiRequest` | one GraphQL mutation through its attempts | |
| `ThemeStart` | scan, reconciliation, initial push and baseline of `theme dev` | |
| `ThemeDev` (`MCThemeDev`) | watcher, event loop and theme editor polling | |
| `ThemeDevServer` | rendering, hot reload, shutdown, composed with the loop | `ThemeDev` |
| `ThemePush` (`MCThemePush`) | `theme push` against a theme that checks requirements | |
| `ThemePull` | `theme pull` while both sides edit, failing or killed anywhere | |
| `ThemeEnvironments` | theme commands over several environments and the file of development themes | |
| `ThemeExtHost` | the files `app dev` serves of a theme app extension | |
| `AppWatch` | file watching, batching, reload, build of `app dev` | |
| `AppDevSession` | the dev session, its status and the last words, composed with the watcher | `AppWatch` |
| `AppPreview` | payload store, broadcast channel and websocket clients | |
| `DraftUpdates` | drafts of apps without dev sessions | |
| `ToolDownload` | the download of a function's tools by several builds and processes | |
| `AppLogs` | the log poller | |
| `BulkOperation` | start, watch and cancel of a bulk operation | |
| `Deploy` | `app deploy` and `app release`, with a second developer | |
| `DevRun` | the supervisor of `app dev`'s processes | |
| `WaitingCommands` | one of the commands that wait: `app dev`, `theme dev`, `app logs`, `app bulk execute` | `DevRun`, `ThemeDev`, `AppLogs`, `BulkOperation` |
| `IndependentParts` | one of eleven parts that share no state | `MCStoreSession`, `AuthSession`, ... |
| `StoreSession_proofs` | theorems | `StoreSession` |
| `AuthDeploy_proofs` | theorems | `AuthSession`, `Deploy` |
| `AppDevSession_proofs` | theorems | `AppDevSession`, and so `AppWatch` |
| `AppServices_proofs` | theorems | `AppLogs`, `ApiRequest`, `ToolDownload`, `DraftUpdates`, `ThemeExtHost`, `AppPreview` |
| `ThemeDev_proofs` | theorems | `ThemeDevServer`, and so `ThemeDev` |
| `ThemePush_proofs` | theorems | `ThemePush` |
| `ThemeFiles_proofs` | theorems | `ThemePull`, `ThemeStart`, `ThemeEnvironments` |
| `DevRun_proofs` | theorems | `DevRun` |

`WaitingCommands` and `IndependentParts` compose components that share nothing: the choice
of the command or the part is a variable that never changes, every other part stays as on
a new machine, so that one run checks what would otherwise be a run for each. They add no
behaviour. `ThemeDevServer` and `AppDevSession` are compositions of components that do
interact. Every module has a type invariant where types say something (`TypeOK`, `AuthTypeOK`,
`DeployTypeOK`, `WatchTypeOK`, ...); the runs spend their properties on hazards and check
`StoreSession`'s only. Types are proved with every inductive invariant.

Operators named `...Mutant` are plausible bugs of the definition that follows them; no
specification uses them. `PROJECT.json` names the property each one breaks.

### SessionStorage, StoreSession
A session is the number of the token pair it was saved with (`gen`); its token is in the
metadata (`tok`, plain text of older versions), in the credential store (`secrets`) or
gone. `StorageGet` is `get`: it migrates plain text, saves and hydrates; `StorageSet`
and `StorageDelete` are `set` and `delete`. Each has a `Fault` variant with everything
an error or a crash in the middle can leave behind, because the code logs errors and goes
on. `LoseFile` is the unreadable file that `entries` saves as an empty map; `LoseSecret`
the user's own tools.

A process goes through the stages of its command. `probe`, `unwrap`, `load`, `put`,
`clear`, `list` each are a read of the bucket (`Get`, and `Fix`, the sanitising write that
may follow it) and an action on what was read; `refresh`, `browser`, `use` are awaits on
the server, which issues token pairs. Other processes act between any two of these.
One bucket is modelled, since an operation locks the whole file.

### AccountLedger, AuthSession
`config` is the file: a token pair for each account and the current one, or unreadable.
Each edit of it (`LoadFile`, `Truncate`, `WriteConfig`) is three steps without a lock, and a
process may be killed or the disk be full at any of them. A command (`cmd`) goes
through the steps of `ensure_authenticated_with_options`: `FetchSessions`, `SelectSession`, then
`RefreshSession`, `LogIn` or neither, `Grant`; the server keeps the pairs it still
refreshes (`live`). A process is a terminal, or one of the tasks of a `theme dev` that refresh its
session (`commands/theme.rs:2502`, :2561): they run beside each other over the same file. `behind`
marks a command whose file another has written since it read it, `adrift` one whose account another
changed, `stranded` the pairs that a failure or a command behind leaves in the file. `Ledger` maps the file, as its reader will know it, to `AccountLedger`, whose
steps are: one account gets a new pair, another is selected, all are forgotten.

### ApiRequest
`query` is a request of `GraphqlClient` at its n-th attempt. The server may execute it and lose
the answer, fail, throttle, refuse, or want a new token; `BackOff` adds the delay and ends it
after `RetryTime`. The client's documentation promises retries "for transient errors and 5xx
responses" (`graphql.rs:171`, and again at :291); its code makes a 5xx the end (:467, :525). The model,
and `RepeatsOnlyLost` with it, follow the code.

### ThemeStart, ThemeDev, ThemeDevServer
`ThemeStart` goes from the scan to the loop: `CompareThemes` and `ChooseSides` (the
user decides about JSON files on one side and about conflicts), `RemoveLocal`,
`DownloadRemote`, `DeleteRemote` (`apply_json_reconciliation`), `PlanInitialPush` with a listing of
its own, `UploadLocal`, `StartServer`, `ListBaseline`; both sides are edited in between. Where nothing
was refused or edited, its last state is where `ThemeDev` begins.

The content of a file is the number of the edit that wrote it. `sleeping` are the events whose
250 ms debounce tasks sleep, `before` which of them was started before which, `channel` the bounded watch channel; `LocalWrite` and the others are
the developer, who restarts tasks, `RemoteWrite` and `RemoteDelete` the merchant.
`loop` says where the loop is between awaits: `TakeEvent` (the key becomes unsynced and the
disk is read), `Store`, `Answered`; `Poll`, `PollChecksums` (compare), `PollApply`
(write what was fetched, whose batches of requests are one). The poll sees the .json files (`Json`)
only. A file that is moved away or renamed (`LocalMove`, `LocalRename`) has an event that is handled
as an update, of a path that is no file: inotify's third event, of both paths, tells no more. Moving a
whole directory, of which there are events of the directory only, is not modelled. `edited`,
`replaced` and `moved` only record who touched a file.

`ThemeDevServer` adds tabs. A request is checked against the upload errors, reads the
unsynced keys, reads the files, and is rendered on the remote theme: four actions, as the
code takes four locks. `due` is what was announced to a tab, `owed` what had been when its
request began.

### ThemePush
`Plan` is `plan_push`: `Upload(k)` and `Deleted`. What the code sorts and cuts into lists is a
set here, and an order: `Batch(files)` is the next request, the longest beginning of the first
group that the limits allow, `DeleteBatch(files)` the next deletions, `Place` stands for the order of
the names. `Layer` says which kinds of files a theme requires for which. The two futures of `try_join!` (`Flows`)
send, receive and retry one request each; the theme (`Serve`) takes the files whose
requirements it has, and may reject others, lose a request or an answer. `Abort` drops the
other future, whose request may still be served. The merchant saves and discards files.

### ThemePull, ThemeEnvironments, ThemeExtHost
`ThemePull`: `ScanDisk`, `PlanPull`, then batches (`FetchAssets`) written file by file
(`WriteAsset`) and deletions; `BreakPull` ends it anywhere, with a file half written.
`ThemeEnvironments`: a task for each environment reads the reference of its store, asks the store,
creates or deletes themes, and rewrites the file under a lock (`LoadReferences`,
`SaveReferences`); groups hold each store once (`NextGroup`). `ledger` is what the same updates make
of the file one after the other.
`ThemeExtHost`: the watcher handles events one by one (`ReadExtFile`, `KeepExtFile`,
`ForgetExtFile`) while files are written, emptied, moved and deleted; `told` is what the pages
know, `clears` the timers that unmark a file.

### AppWatch, AppDevSession
Content *n* was written by edit *n*; *-n* does not parse or build. An extension is three files,
`toml`, `source` and `dist` (the `dist/<handle>.js` that `default_build` copies if there is one,
`Input`), which appear and go one by one or together. A failing build keeps the output there is, or
leaves a stub. A build that runs writes `dist/index.js` into the extension's directory: `echoes` are
the directories written to, `Echo` the report of it. `notices`, `pending`,
`batches` are the queues of the watcher; whether 200 ms have passed is a choice of
`TakeNotice`. `ProcessBatch` is the whole of `process_events`: a reload with its diff, or
partial events, then builds, removal of outputs and notification. `unseen` and `unbuilt`
are ghosts that name the edits the code loses by design; the invariants say there are no
others. `AppDevSession` adds `run_dev_session`: the platform pulls what an update does not
inherit from the bundle when it answers. `Answer(applied, good)` separates what the platform did from
what the process takes it for: a refusal with `userErrors` is taken for a success, as
`UserErrorsEnvelope` (`dev_session/mod.rs:65`) reads `user_errors`. The rows of the terminal are left
out.

### AppPreview, DraftUpdates, ToolDownload
`AppPreview`: an update of `payloads` is broadcast to the connections, each with its bounded
queue; a connection subscribes, then is greeted with the whole payload. Instances that come
with the app's events have no `dev_uuid` (`Reload`, `UpdateSource`).
`DraftUpdates`: the process takes an event, reads the script from the disk (`ReadOutput`), sends
both, while builds go on.
`ToolDownload`: each build checks for the tool, takes the lock of its process, downloads to a
temporary file of its own, and renames it, or copies it where that fails; processes are killed.

### AppLogs, BulkOperation, Deploy
`AppLogs`: `PollLogs(n)` returns the logs up to n and moves the cursor; a poll may fail, be
throttled or find its token expired, which leads to `Resubscribe` and its count.
`BulkOperation`: staging, upload, creation, then `PollOperation` and `Wake` until the
operation ends, the short watch is over or the abort token is set.
`Deploy`: `ListRemote`, `CreateExtension` (Partners), `Confirm`, `Uploaded`, `CreateVersion`,
`ReleaseVersion`, `Report`; each request may be refused, fail or lose its answer, and
`OtherRelease` is another developer. `Included` is what the version gets: without
`include_config_on_deploy` the app's own modules (`ConfigExts`) are left out, though the breakdown
counts them. `AnswerNoVersion` is an answer without errors that names no version: nothing is released,
and success is told. `deploy.seen` is what it knew to be remote,
`deploy.shown` what it asked the user about.

### DevRun
`procs` are tasks. `Senders` are those that hold a log sender: spawned tasks, and the
output pumps of web processes. `main` is `dev_with_prompter`'s select (first of: Ctrl+C, end of the
log, failed process), then joining. `tabs` are the theme app extension servers (`Streams`) with a hot
reload stream open: once cancelled such a process is `closing` until its tabs are closed. The future
that copies the log to the terminal (`run.rs:266`) is only its end, `TakeLogsEnd`. The websocket
connections of the UI extension server are upgraded, so its shutdown does not wait for them.

## 3. What is checked

| Run | Bounds | Shows |
|---|---|---|
| `store_session_race` | 2 processes, 2 users, 3 token pairs (one without refresh token), 1 fault; 1.0 M states | `TypeOK`; `CredentialIsolation`: no token under another user; `Paired`: metadata and token belong together, without faults; `NeverRegresses`: the current user never dangles, no token returns to plain text |
| `theme_dev` | 2 .json files, 2 edits beyond the first, any deletions and moves, channel of 1, outages, the first poll that fails ends the server (`waiting_commands` has one more), no rejections; 3.4 M states | `NoSilentDivergence`, `OverwritesOnlyYounger` |
| `theme_dev_server` | 2 files (one of the full-page kind, the other .json and movable), 1 edit beyond the first, 1 tab, 1 mismatch, rejections, `--nodelete`; 455 k states | `RenderFresh`, `TabCatchesUp`, `EndsWhenClosed` |
| `theme_push` | 4 files (2 layouts, a template that needs one, an asset larger than a batch), all pairs of local and remote themes, 3 attempts, 3 faults, 1 merchant edit; 0.75 M states | `ReportTruthful`, `MirrorsDisk`, `PushOrder`: order causes no failure and deletions come last, `PushEnds` |
| `app_dev_session` | a known and a new extension, 2 edits of any kind including the app's own configuration, a watcher that may fail, an inbox of 1, 1 fault; 1.6 M states | `BundleFollowsDisk`, `SessionFollowsBundle`, `NoSessionLeft`, `ComesToRest` |
| `waiting_commands` | `app dev`: 2 web processes, a one-shot, a theme app extension server. `app logs`: 3 logs, 3 refusals. `app bulk`: 2 quick polls. `theme dev`: a .json file and another, 1 edit beyond the first, deletions and moves, channel of 1, outages, 2 poll failures. 171 k states | `RunsUntilStopped`, `NoProcessOutlives`, `EndsWhenStopped`; `EachLogOnce`, `ShowsAll`; `BulkEnds`; `Settles` |
| `independent_parts` | below; 1.2 M states | below |
| `theme_push_ignore` | as `theme_push`, minimum file ignored | **violation** of `CreatesOnlyMissing` |
| `app_watch_delete` | one extension, 2 edits | **violation** of `DeletedLeavesApp` |
| `dev_run_no_web` | no web process | **violation** of `RunsUntilStopped` |
| `app_preview_reload` | 2 extensions, 2 clients | **violation** of `HotReload` |
| `theme_info_store` | 2 stores, 2 environments, `theme info` | **violation** of `KeptUnderItsStore` |

What `independent_parts` checks of each part:

| Part | Bounds | Properties |
|---|---|---|
| store sessions | 1 process, 2 users, 3 pairs, 1 fault | `LosesOnlyRejected`; `StorageBehaviour`: `StoreSession` implements `SessionStorage` |
| identity | 1 process, 2 accounts, 3 pairs, 1 fault | `LedgerBehaviour`: `AuthSession` implements `AccountLedger`; `SameAccount`; `StoredIsLive` |
| request | 5 units of time, delays 1 to 3, 5 faults | `RepeatsOnlyLost` |
| deploy | 2 extensions (one with a uid, the other of the app's configuration), 3 versions, both platforms, all flags | `NothingRemovedUnasked`, `ReportedIsReleased` |
| pull | 2 files, batches of 1, 1 mishap, 1 edit | `PullMirrors` |
| start of `theme dev` | a JSON file and another, every content on both sides, 1 mishap, 1 edit | `StartsInStep` |
| environments | 2 stores, 2 environments, 4 commands, 1 mishap | `NoUpdateLost`, `OnlyStaleRemoved` |
| tool | 2 processes of 2 builds, 3 attempts, 3 faults | `FoundWhole` |
| preview | 2 extensions, 2 clients, channel of 2, 3 changes | `ClientFollowsStore` |
| drafts | a known and a new extension, 2 edits, 2 faults | `DraftFollowsBuild` |
| extension host | a watched file and another, 4 edits, 1 unreadable | `PagesFollowDisk` |

The bounds let every hazard happen: a channel of one is full with two files; two edits
and a poll are enough for every order of read, compare, fetch and overwrite; two processes
and one refresh for every lost update between two locked operations; two edits of any kind for
a batch that mixes a configuration change, a source edit and a deletion; three faults for an
upload that uses up its attempts; a queue of two overflows with three changes; three refusals end
a log session and one less does not. Edits, token pairs, faults and mismatches are bounded;
nothing else is. Symmetry is used over processes (`StoreSession`) and files (`ThemeDev`) in
runs without liveness only. Deadlock is not checked where a command may end.

`LosesOnlyRejected`, `SameAccount`, `StoredIsLive` and `LedgerBehaviour` are checked for the
commands of one process. A second process refutes `LosesOnlyRejected` and `LedgerBehaviour`, because
what is read is written back after an await; the code has nothing against that, and its documents
promise nothing. `SameAccount` and `StoredIsLive` hold for any number, and are proved for any: what
another command or task does to one is their named exception.

**Named exceptions.** Some properties name what the code loses, so that they show there is nothing
else: files moved away and edits of files that are no .json files (`NoSilentDivergence`, `Settles`);
edits before the watcher runs or in a batch that is dropped (`BundleFollowsDisk`); refused and failed
requests (`SessionFollowsBundle`, `NoSessionLeft`); builds that keep setting off builds (`ComesToRest`);
an open tab (`EndsWhenStopped`, `EndsWhenClosed`); modules left out by `include_config_on_deploy`
(`NothingRemovedUnasked`). Each is a hazard in `PROJECT.json`, at its line.

**Refinement.** `StorageBehaviour` says that every step of a `store` command is one of
`SessionStorage`'s atomic operations on the same variables or leaves them alone.
`LedgerBehaviour` uses `INSTANCE AccountLedger WITH` the accounts and the selection as the file's
next reader will see them: between truncation and the end of the write that is the buffer of
the writer, so that the three steps of a save are one step of the ledger; an interrupted
write is the ledger's loss of everything, never of one account.

**Fairness.** *Theme dev*: a sleeping task wakes and a request is answered (weak); tokio's
`select!` picks a ready branch at random, so neither events nor the poll tick starve
(strong for `TakeEvent` and `Poll`). *Server*: handlers go on and a tab reacts to events;
users need never close tabs or press Ctrl+C. *Push*: a request is answered or fails.
*App dev*: the file system reports what builds write, the watcher's thread and the pipeline run, the
platform answers or the request fails and the process goes on (weak, each on its own). *Supervisor*: tasks
start, return once cancelled, and are joined; predev commands, and what the theme app extension's
process requests before it listens, are assumed to end. No tab need ever be closed.
*Logs*: the loop waits and subscribes again (weak); a server that answers again and again gives
the logs some day (strong for `PollLogs`). *Bulk*: requests are answered or fail, a sleep ends.
Developers, merchants, faults, the end of an operation and Ctrl+C are never fair.

**Disagreements** between the code and what it says (`PROJECT.json` "findings"):
1. *A push can overwrite a theme's layout with a stub.* `plan_push` looks for the minimum
   files among the filtered ones (`theme/src/sync.rs:163`).
2. *A deleted extension comes back.* Every event of a batch starts from the same app and
   the last one wins (`app_event_watcher_handler.rs:61`).
3. *`app dev` without a web process ends by itself*, since nobody keeps the log
   channel open (`dev/run.rs:308`).
4. *The preview of a UI extension is never updated.* The extensions in the app's events have no
   `dev_uuid` (`dev/extension/mod.rs:91`).
5. *`theme info --development` keeps a theme under another store*, the one used last
   (`development_theme_manager.rs:51`).

Two more are stated as properties without a run of their own: `Deploy!AdditionsNeedConsent` (with a
remote extension left over, new extensions are released without `--allow-updates` and without being
listed, and reach Partners without an id, as `identifiers.rs:79` drops them) and
`AuthSession!ClearsCurrentOnly` (a refresh that is refused without a prompt logs all accounts out,
`session/mod.rs:344`, where the message at :278 speaks of the current session).

A third is in a passing property: the GraphQL client's documentation says that 5xx answers are retried
(`graphql.rs:171`, :291), its code makes them an error, and `RepeatsOnlyLost` holds because it does.

Seen while modelling, without a property of their own:
* A file renamed or moved away stays, under its old name, in the memory of `theme dev` and on the
  theme (`watcher.rs:166`); a merchant's edit of a file that is no .json file is never downloaded
  (`dev.rs:1045`); a local edit of a file that the theme deleted is removed with it (`dev.rs:1000`).
* `theme dev` listens for Ctrl+C anew in each round of its select (`dev.rs:443`): one that comes while
  it awaits an upload or a poll is lost, and has to be repeated.
* Building a UI extension changes a file in the directory that is watched, which builds it again
  (`build/ui.rs:54`, `file_watcher.rs:275`).
* What the platform refuses with `userErrors` counts as done (`dev_session/mod.rs:65`, :175), the
  deletion of the session at the end too.
* An open tab with hot reload holds up the end of `app dev` (`theme_ext/server.rs:128`).
* `include_config_on_deploy = false` removes the app's own modules from the released app unasked
  (`deploy/mod.rs:97`); an answer that names no version is reported as a release (`upload.rs:85`).
* After a Ready session is deleted, `app dev` prints that the preview is still available
  (`run.rs:377`, `tui.rs:62`); "The active app.toml was deleted, exiting" goes to listeners that
  nobody registers (`app_event_watcher.rs:224`).
* The permit of the request limiter is dropped before the request (`graphql.rs:364`); the seconds of
  `Retry-After` are slept as milliseconds (`graphql.rs:443`).
* `theme pull` prints success whatever its report says (`commands/theme.rs:3608`).
* With `--nodelete`, a deleted file keeps its upload error (`theme/src/dev.rs:603`).
* In the reconciliation of `theme dev`, a file the user chose to download and the theme does not
  return is deleted from the theme by the push that follows (`dev.rs:916`, `sync.rs:386`); the
  merchant's edits between the push's listing and the baseline (`dev.rs:429`) are never noticed.
* A tunnel whose address arrives together with the 40 s timeout is reported as failed and
  recorded as connected (`util/tunnel/cloudflare.rs:194`).

## 4. What is proved

By `tlapm`, in eight modules, for any number of processes, accounts, files, extensions, edits and
faults, from the assumptions the modules name in their `ASSUME`s, which TLC evaluates in the runs.
"theorems" of `PROJECT.json` lists the results. Every safety property and every action property of a
passing run is a theorem but `LedgerBehaviour`, and so is the refinement of `SessionStorage`. Each proof rests on an inductive
invariant, tried with TLC on the runs' instances where it was not evident; it says:

| Theorems | For | The inductive invariant and why the property needs it |
|---|---|---|
| `TypeCorrect`, `IsolationHolds` | `StoreSession` | `IsolationInv`: a bucket read long ago is written back later, so the raw buckets and the sessions that processes hold are isolated too |
| `FileNeverRegresses`, `ImplementsStorage` | `StoreSession` | `FormInv`: who may write well-formed buckets has read one, and the file has been well formed since; then each step is an operation of `SessionStorage` |
| `PairsStayTogether` | `StoreSession` | `PairedInv`: while nothing failed, file, keyring and all that is read or carried are of one pair each, and no process sanitises |
| `AloneLosesOnlyRejected` | `StoreSession`, one process | `AloneInv`: what the process has read is no older than the keyring, and without faults it is the file |
| `OneAccountPerServer`, `StoredSessionsLive` | `AuthSession`, any number of processes | `AuthInv`: what the edits still to make are, that every pair in the file, and in what a command read or is about to write unless it is behind, is live, stranded or about to be replaced (`Accounted`), which account the command goes on with |
| `DeployTypeCorrect`, `RemovesAsked`, `ReportsReleased` | `Deploy` | `DeployInv`: what is to be removed was shown or may be, the version at hand is that of the local files, what was released is active unless overtaken |
| `DevTypeCorrect`, `BundleFollows` | `AppWatch`, `AppDevSession` | `FlowInv`: where app or bundle differ from the disk, a report is in one of the three queues or the edit is accounted for; the reports of a deletion never come after those of the creation that followed it |
| `SessionFollowsApp`, `SessionStopped` | `AppDevSession` | `SessionInv`: a module that differs is in an event still to be sent, whose app agrees with all later ones |
| `LogsShownOnce`, `RepeatsAreOfLostAnswers`, `ToolsFoundWhole`, `OneDownloadPerProcess`, `DraftsFollowBuilds`, `PagesFollow`, `PreviewTypeCorrect`, `ClientsFollow` | six parts of `AppServices_proofs` | the cursor is the length of what is printed; a request that may go on has lost every answer; who downloads has its process's lock; the last event of a kind in a channel (`LastIsIn`) tells the present state |
| `PullsMirror`, `BeginsInStep`, `UpdatesKept`, `StaleRemovals`, `KeptByOwners` | three parts of `ThemeFiles_proofs` | what is not left to do is done or reported, for each stage; who is between load and save has the lock and what it loaded is the file; environments of one store are in different groups |
| `DivergenceShows`, `YoungerOnly` | `ThemeDev` | `DevInv`: of each file the youngest sleeping event, else its last one in the channel, else what the loop has read, else memory tells what the disk has (`TimersTell`, `ChannelTells`, `LoopTells`, `FilesTell`); what the theme lacks is being sent, rejected or edited there (`ThemeFollows`) |
| `RendersFresh` | `ThemeDevServer` | `ServerInv`: no place a file can be rendered from is, or will be, older than what was announced (`Promised`); what a request has not read as unsynced the theme has |
| `ReportIsTrue`, `PushMirrors` | `ThemePush` | `PushInv`: each planned file is left, pending or reported, exactly one of them, and its place says whether the theme has it |
| `OrderPrevents` | `ThemePush` | `OrderInv`: a request is of one group and no earlier one is left, so what its files require is reported, hence on the theme; each attempt but the last has met a fault; what stays on the theme requires nothing that is to be deleted. Within a batch the proof climbs the layers: what could not be deleted is required by something in a higher layer that could not be, and there is none above the last |
| `RunTypeCorrect`, `StoppedOnly`, `NoneOutlives` | `DevRun` | `StopInv`: a web process's log sender keeps the channel open until something is cancelled; `ExitInv`: only ended tasks are joined |

Some need a hypothesis; TLC finds counterexamples without the first three:
* `AloneLosesOnlyRejected` is of one process at a time; a second one refutes it, as it does
  `LedgerBehaviour`, which is checked for one process and not proved.
* `RendersFresh` assumes that the theme editor is not synchronised or that the theme rejects nothing.
  With both, a poll overwrites a rejected edit on the disk with the theme's older one, after the
  edit was announced. The run `theme_dev_server` is without the synchronisation.
* `StoppedOnly` assumes a web process (`dev_run_no_web` is without).
* `OrderPrevents` uses `RequirementsAssumption`: a file requires those of lower layers only, which is
  what the two orders of `sync.rs` are for. The layers are written down apart from the orders, so that
  the theorem is about the orders: it does not hold with templates first, say. That a theme requires
  no more than that is external to this code.

Attempts at these proofs corrected the models:
* `LosesOnlyRejected` did not hold where a plain-text token was still to be migrated, even from a
  bucket read before the file was lost: its first part now says so (`Migrated`).
* `SameAccount` did not hold where the first request could not save its account or the file had
  none in use: the second takes any (`adrift`).
* `ThemeDev` kept the sleeping tasks as a sequence of bursts and `ThemePush` its work as sequences
  made by folds. What a fold computes for every list is out of the prover's reach. Sets with an order
  between their members say the same of the code (the state spaces are the same, state for state) and
  can be reasoned about.

Only model-checked are the liveness properties, as fairness and `ENABLED` are out of the prover's
reach, and `LedgerBehaviour`: `TabCatchesUp`, `EndsWhenClosed`, `ComesToRest`, `PushEnds`, `EndsWhenStopped`, `ShowsAll`,
`BulkEnds`, `Settles`. The properties of the violation runs are false, `KeptUnderItsStore` but for
`info` (`KeptByOwners`), `RunsUntilStopped` but without web processes. Composed specifications
(`WaitingCommands`, `IndependentParts`) are not proved about: their parts are.

## 5. What is not modelled

* Store sessions: field-level validation (a session is complete if it has its token); more
  than one shop. Identity: scopes, several identity servers, automation tokens.
* Requests: the cache around a query, the REST throttler. Configuration: files other than the two
  modelled.
* Theme dev: asset compilation, URL and header rewriting, cookies; the metafield definitions
  that a task of its own writes. The host theme of an extension, its creation and the requests
  forwarded to it.
* Theme push and pull: several pages of checksums are one read; the filters are a set;
  `--publish`. The deletions of a push report what the answer lists (`sync.rs:418`): the model's theme
  lists every file it was asked to delete. `ThemeStart` has no minimum files, batches and retries, which are `ThemePush`'s.
* The hot-reload events that a page too slow for the channel of a theme app extension misses
  (`theme_ext/server.rs:248`), while its stream goes on.
* App dev: the updates of a preview that come with the app's events are rejected, as disagreement 4
  says, so that `ClientFollowsStore` is about direct updates; a draft of an extension that the app gets
  later, and the stub a failing build leaves for its script (`DraftUpdates`).
* App dev: inside a build and the loader; extensions without a uid or with several files;
  `--config` (the reload passes no name); the process setup, the tunnel (one child process and a
  timeout) and the proxy.
* Deploy: the import of dashboard extensions before it, the bundle's contents.
* The components marked `not_modelled` in `PROJECT.json`: generators, imports, console, packaging,
  prompts, output and the GraphQL code generator are sequential transformations of data, and the API
  clients (`partners.rs`, `app_management.rs` and the code generated for them) map requests and
  responses without state of their own. They are most of the lines of the repository and have no
  order of steps to get wrong.

## 6. Plan

Done: the modules above. The pipelines of `dev` and `push` came first because most commands only
feed them; then the session stores, which every command uses; then the rest.

Next, proving:
1. That the compositions keep what their parts promise: `ServerSpec` implies `ThemeDev`'s two
   properties, each disjunct of `WaitingCommands` and `IndependentParts` is a step of its part.
2. Abstract specifications of `ThemeDev` and `AppWatch`, as a register that follows the disk but for the
   named losses, with the invariants above as the refinement.
3. The safety half of the liveness properties: that no state but the named ones is a dead end
   (`PushEnds`: a measure of attempts and work that every step of push decreases).
4. `DraftUpdates`, `ThemeExtHost` and `AppPreview` are about one channel each in the same way; a
   specification of a channel whose last message counts, which all three implement.

Open for modelling: the host theme (kept before the theme is processed, so that a later run
takes one that is not), the tunnel, the polling of `store create`.
