# Ro Sync in TLA+

Ro Sync keeps a Roblox place and a directory of files the same.  A daemon in
Rust (`daemon/`) watches the files and serves HTTP and a WebSocket, a plugin
inside Studio (`plugin/Plugin.luau`) applies what the daemon sends and pushes
what the user edits, a desktop shell (`desktop/`) starts and supervises
daemons, and the command line sends single requests through a running daemon.
This directory holds TLA+ models of the parts where the order of events decides
whether a user's work survives, the TLC runs that check them, and TLAPS proofs
of the properties that matter most.

1. [Inventory](#inventory)
2. [Modules and plan](#modules-and-plan)
3. [The runs](#the-runs)
4. [PluginRouting](#pluginrouting): requests, answers, disconnects
5. [WatchIngress](#watchingress): from the disk to Studio without loss
6. [SourceSync](#sourcesync): one script, two editors, the conflict engine
7. [StreamCommit](#streamcommit): a generation is published whole or not at all
8. [InitialChoice](#initialchoice): one question, one decision, one transfer
9. [SnapshotPull](#snapshotpull): the disk is written into Studio
10. [TreeOps](#treeops) and [LiveEdits](#liveedits): the shape of the tree
11. [PluginLink](#pluginlink): find, compare, go live, start over
12. [DaemonLifecycle](#daemonlifecycle), [ArtifactStore](#artifactstore),
    [WorkflowRun](#workflowrun), [PlaytestRun](#playtestrun),
    [StudioClipboard](#studioclipboard)
13. [The proofs](#the-proofs)
14. [Findings](#findings)
15. [Not modelled, not proved](#not-modelled-not-proved)
16. [Running it](#running-it)

Paths in this file are relative to the repository; `*.rs` without a directory
is in `daemon/src/`.

## Inventory

| Component | State | Operations | Talks to |
|---|---|---|---|
| Request router (`ws.rs`) | connections and their peer kind, active-plugin slot, pending routes with deadlines, a bounded outbound queue and a broadcast receiver per connection | hello, request, response, deadline sweep, cleanup | CLI and agents, plugin, every handler that asks Studio something |
| Filesystem watcher (`watch.rs`) | raw ingress queue of 4 batches, generation and quarantine, retained manifest, broadcast of 16384 events | tag and enqueue a batch, classify, reconcile a service, publish, flush, discard | OS backend, watch bridge |
| Watch bridge (`watch_bridge.rs`) | receiver, push-quiet map, preflight grace of the current burst | emit, preflight a deletion, reset after a lag or a read failure | watcher, conflict engine, event broadcast |
| Conflict engine (`conflict.rs`) | agreed baselines, parked conflicts, pending destructive operations: three maps behind three mutexes | `on_fs_change`, `on_studio_push`, begin and finish a destructive operation, `record_sync`, `forget_path`, `resolve`, checkpoint and restore | watch bridge, push handlers, resolution endpoint |
| Push handlers (`http_apply.rs`) | none between two pushes but what a streamed generation stages: stage directories, backups, a journal | set, update, delete, rename, reparent, streamed generation, resolve | conflict engine, disk, event broadcast |
| Initial compare (`http.rs`, `initial_sync.rs`, `snapshot.rs`, `diff.rs`) | compare sessions, the pending initial choice, transfer grants, selection accumulator, snapshot streams | compare, long poll for a decision, choose, transfer | plugin, desktop |
| Paths and files (`fs_map.rs`, `fs_safety.rs`, `path_resolver.rs`) | none | name mapping, guarded opens, atomic replacement | everything that touches the disk |
| Artifact store (`artifact.rs`) | leases, finalized artifacts and byte budgets in memory, staging and final files on disk | lease, append, finalize, look up, consume, expire, sweep orphans | captures, uploads and the clipboard |
| Lifecycle and manager (`lifecycle.rs`, `daemon_manager.rs`) | runtime record, start lock, port lock | start, adopt, stop, restart, query, recover after a crash | desktop, CLI, daemon processes |
| Workflows and remote calls (`workflow*.rs`, `remote.rs`, `playtest_run.rs`) | cached results by idempotency key, a lock file, a playtest's key | run, replay, cancel | router |
| Commands (`main.rs`, `cli.rs`, capture, upload, lint, query) | none that outlives a command | one request, one answer | router, network |
| Studio clipboard (`studio_clipboard.rs`, `plugin/Clipboard.luau`) | payload files and the manifest that points to one | copy, paste | CLI processes, artifact store, plugin |
| Studio plugin (`plugin/`) | tracked instances and their paths, editor debounces, expected remote texts, queue of operations, write lane, recording, connection | search, connect, compare, capture edits, apply operations, acknowledge, answer requests, reconnect | daemon, user |
| Desktop shell (`desktop/src-tauri/src/`) | ownership claims, broker queue, stored projects | claim, start, supervise, hand over | manager, front end |
| Front end (`app.js`, `bridge.js`, `views/`, `lifecycle-policy.js`) | what the window shows | submit a choice; else none that others depend on | desktop shell, daemon |

What is hard in each of them, and what makes it correct:

- **Router.** Each connection has a receive task, a send task and a cleanup
  that run at the same time and meet in two mutexes; a response, a deadline, a
  failed write and a disconnect may all claim one route.  Correct means: at
  most one answer per request, every registered request ends whatever Studio
  does, the slot and the table do not leak.
- **Watcher and bridge.** Three threads with two lossy hand-overs, plus faults
  of the backend, of a scan and of a read.  Correct means: whatever is dropped
  is covered by a later snapshot; a quarantine is always flushed; a one-sided
  rename is reconciled exactly.
- **Conflict engine, push handler, plugin.** The same message acknowledges a
  remote text and reports an edit; the three maps are locked one at a time; a
  resolution holds its conflict in its hands for up to five seconds.  Correct
  means: no text is taken for agreed that one side has not had; the two sides
  end with the same text or with a conflict that shows; a deletion is not sent
  over unseen work.
- **Streamed push.** A generation replaces several services; a crash or a
  failure half-way must roll all of them back (`docs/SYNC_INVARIANTS.md`).
  Correct means all or nothing, also for the conflict engine's memory.
- **Initial choice and pull.** Three records (pending choice, grant, finished
  compare) change under different locks, while a long poll reads them; a pull
  reads a disk that changes under it.  Correct means: one decision, carried out
  at most once on the trees it was made for, and a pull that is one version of
  each service.
- **Operations on a tree.** Several system calls and no lock, with an editor on
  the same files, and edits said in paths that earlier edits have changed.
  Correct means: nothing Studio does not have is taken from the user, the
  answer is true, every edit lands in its own file.
- **The link.** Coroutines that yield in requests and go on in another world.
  Correct means: nothing falls between comparison, hooks and socket; only the
  daemon that was compared is live; the plugin never waits for nothing.
- **Artifacts, lifecycle.** Several processes share files.  Correct means: one
  owner, exact accounts, and a record that goes only with the process it
  describes.
- **Workflows, playtests, clipboard.** Answers that are lost or late, retries,
  processes that are killed.  Correct means: a retried call does not run
  twice, what is reported is so, and no reader sees half of an update.

`PROJECT.json` lists every hazard at the line where it bites, with the
properties that would catch it.

## Modules and plan

| Module | Contents | Checked in | Proved |
|---|---|---|---|
| `PluginRouting` | router | `routing_safety`, `liveness`, `routing_disconnect` | all its safety |
| `WatchIngress` | watcher, bridge, reconnect | `parts_safety`, `liveness`, `watch_latemanifest` | all its safety |
| `SourceSync` | conflict engine, push handler, resolution, the plugin's editor side, one script | `sync_settings`, `sync_crossing`, `sync_twosaves` | all its safety |
| `StreamCommit`, `Generation` | streamed push; the atomic generation it refines | `stream_atomic`, `liveness`, `stream_partial` | types, no loss; the refinement and baselines while no stream is opened twice |
| `InitialChoice`, `Decision` | comparison, question, windows, grants; the one-shot decision it refines | `choice_safety`, `liveness` | all its safety, the refinement |
| `SnapshotPull` | a pull: the daemon's streams, staging, application, roll-back | `parts_safety` | types, both promises |
| `TreeOps` | rename, move, delete, change of shape, forced replacement, restore | `stream_atomic` | all its safety |
| `LiveEdits` | structural edits in Studio and the paths they are said in | `stream_atomic` | |
| `PluginLink` | discovery, connection, comparison, hooks, socket, recovery | `stream_atomic` | all its safety, without late answers |
| `DaemonLifecycle` | managers, daemons, runtime record, locks | `parts_safety` | types, both promises |
| `ArtifactStore` | leases, chunks, publication, eviction, expiry, restart | `parts_safety` | all its safety |
| `WorkflowRun` | an atomic group under an idempotency key, the write lane | `parts_safety`, `workflow_rolledback` | all its safety |
| `PlaytestRun` | `rosync playtest run` and the plugin's job | `choice_safety` | all its safety |
| `StudioClipboard` | copy and paste by processes that die | `routing_safety` | all its safety |

Modules named `...Proofs` hold the theorems about the module of that name,
`SyncProofs` those about `SourceSync` and `TreeOps`, `DaemonProofs` those about
`DaemonLifecycle`, `ArtifactStore` and `PlaytestRun`, and `PluginProofs` those
about `PluginRouting`, `StudioClipboard` and `PluginLink`; `MC...` modules instantiate for TLC.
Where one module speaks of several parts, `Parts` (pull, daemons, store,
workflow), `SharedClipboard`, `ProjectTrees`, `OwnedPlaytest` and `OwnedLink`
instantiate them under names that do not collide, and say in one property what each promises; runs and
proofs extend them, so both are about the same definition.

Composition.  `SourceSync` joins bridge, engine, handler and plugin for one
path, `PluginLink` what connects them.  The others meet at named boundaries:
`WatchIngress` says what the bridge is told (`StudioFollows`), and
`SourceSync` takes "the watcher reports every change of the file" from it;
`InitialChoice` ends in a grant, and `StreamCommit` (push) and `SnapshotPull`
(pull) are what a grant starts; `PluginLink` takes each of these transfers as
one step and `SourceSync` its comparison (`Reconcile`); `WorkflowRun`,
`PlaytestRun` and `StudioClipboard` take from `PluginRouting` that a request is
answered once or fails.

What the plan has left, in order:

1. `LiveEdits` with the paths of reshaped scripts kept apart, so that what
   holds beyond three edits can be stated and proved.
2. The engine's destructive renames on two paths; `RenameChains`:
   `compose_raw_rename_chains` as a function, against a reference definition.
3. The desktop's ownership claims and the broker's queue.

Conventions: one action is one critical section, or one step between two
awaits; the text above an action names the function it is.  Definitions whose
comment says "mutant" are plausible wrong versions; no behaviour uses them, and
each shows that a property can fail.  No module declares a RECURSIVE operator,
so everything can be proved about.

## The runs

Parts of the system that share no state are checked side by side: a variable
`part` says which one a behaviour is of, and the others stay in their initial
states.  So a run is a sum of instances and never a product.

| Run | Parts | Shows |
|---|---|---|
| `routing_safety` (`MCPluginRouting`) | router, clipboard | `AnsweredAtMostOnce`, `NoOrphanedRoute`, `SlotOwnerIsLive`, `NoLeakedRoute`; `ClipboardHolds` |
| `sync_settings` (`MCSourceSync`) | six settings of `SourceSync` | `BaselineWasShared`, `TurnsAgree`, `ParkedIsCurrent`, `DeleteWaits` |
| `stream_atomic` (`MCStreamCommit`) | push with crashes, push with aborts, two of `TreeOps`, two of `LiveEdits`, link | `NoUserTreeLost`, `BaselineIsPublished`, `GenerationSpec`; `TreeIsKept`; `EditsArrive`; `LinkHolds` |
| `choice_safety` (`MCInitialChoice`) | choice, playtest | `DecisionSpec`, `ToldIsTrue`, `SelectionIsWhole`, `InSyncIsTrue`, `PushIsFenced`; `PlaytestIsTold` |
| `parts_safety` (`MCParts`) | watcher with moves, watcher with faults, pull, daemons, store, workflow | `NoLostWakeup`, `StudioFollows`, `MovesAreExact`; `PullIsWhole`; `DaemonIsKnown`; `StoreIsConsistent`; `GroupIsWhole` |
| `liveness` (`MCLiveness`) | router, watcher, stream, abandoned stream, choice | `EveryRequestEnds`, `SlotIsReleased`, `Converges`, `QuarantineEnds`, `StreamEnds`, `ServiceReturns`, `DecisionLands` |

Six more runs fail on purpose, one for each entry of [Findings](#findings):
`routing_disconnect`, `watch_latemanifest`, `sync_crossing`, `sync_twosaves`,
`stream_partial`, `workflow_rolledback`.

Every run also checks the types of the module it extends.  *Deadlock* is not
checked in any run: a system in which all connections have gone, nobody edits,
or whose bound is used up, stops.  Symmetry is used for safety only.  Some
bounds are joint, in the modules of the runs (`MCParts`, `MCStreamCommit`): where
one budget is spent another may not be, because both at once multiply the
states; the proofs have no such bound.

## PluginRouting

**Code.** `handle_ws`, `recv_loop`, `send_loop`, `register_pending_route`,
`fail_pending_route`, `fail_all_pending_routes`,
`fail_expired_pending_routes` (`ws.rs:366-1024`, `1484-1606`).

**State.** Per connection, `main`, `recv` and `send` are the places of its
three tasks, `kind` its hello, `rejecting` the flag that makes `recv_loop`
ignore everything after a bad or second hello, `outbox` and `closing` its
`OutboundHandle`, `requestRx` and `missed` its receiver of the request
broadcast.  `active` is `AppState.active_plugin`, `routes` is
`AppState.pending_routes`, `expired` the routes past `expires_at`, `stage` the
place of a request's handler, `failing` the snapshot a sweep or a cleanup works
through.  `responses`, `forwarded` and `delivered` only observe.

**Actions.** A request: `ReceiveRequest` (first look at the slot),
`RegisterRoute` or `AtRouteLimit`, `BroadcastRequest`, `RecheckPlugin` (second
look). Towards Studio: `ForwardRequest`, `ForwardFails`, `RequestsLagged`.
Back: `ReceiveResponse`, `WriteResponse`.  Time: `Expire`, `SweepExpired`,
`FailNext`, `SendLoopResumes`.  End of a connection: `PeerCloses`,
`SendLoopBreaks`, `CloseSignalled`, `JoinLoops`, `ReleaseSlot`,
`SnapshotRoutes`, `FailNext`, `AllRoutesFailed`, `PurgeRoutes`.

**Abstractions.** The outbox counts only responses.  Removing a route and
queueing its response is one step, because nothing else can see the route in
between.  A connection id is never used twice (`NEXT_CONN_ID`), so a peer that
reconnects is another element of `Plugins` or `Clients`.  Clients drop what
the request broadcast brings them, so their receivers are no state.  Batches
of live operations, pings and activity events are left out.

*Bounds.* Every race in this code is between two plugins (one leaving, one
arriving) or between two requests for one slot in a queue, so two of each and
queues of one entry reach them all (`routing_safety`: 2 plugins, 1 client, 2
requests, at most one refused connection, and where there is one no route
expires); the proofs remove the bounds for safety.  `liveness` has one plugin
connection, which alone may be refused, and one route per connection, so that overflow and lag are the
rule, since two plugins with two requests are out of TLC's reach; a change of
plugins is in the safety run, whose `NoOrphanedRoute` is what liveness needs of
it.

*Fairness* (`FairSpec`) is weak fairness of the daemon's own tasks: the runtime
polls a ready task, the sweep has a timer, `expires_at` passes, and the
cleanup is straight-line code.  `WriteResponse` and `CloseSignalled` are fair
because a socket write has a deadline that ends the send loop.  Nothing is
asked of Studio, of a client, or of a peer that closes.

## WatchIngress

**Code.** `watch.rs:122-580` (barrier, callback, manifest, resets),
`903-1097` (`drain_loop`, broadcast), and `watch_bridge.rs:48-329`.

**State.** `disk`, `dirty` and `unpaired` are the file system and what the
debouncer still holds.  `generation` and `quarantine` are `RawIngressState`,
`queue` the raw ingress, `discarded` is `discarded_through`.  `callback`,
`drain` and `bridge` are the places of the threads, `tagged`, `held`, `plan`,
`scanned`, `applied`, `handling` and `fresh` what they hold.  `manifest` is the
`ProjectionManifest`, `channel` and `lagged` the bridge's receiver, `studio`
and `linked` the plugin's projection and connection.

**Actions.** Callback: `TagBatch`, `EnqueueBatch`, `BackendFault`,
`CallbackActivates`, `CallbackWakes`.  Drain: `TakeItem`, `CheckItem`,
`PlanBatch`, `DrainFault`, `DrainFlushes`, `PublishOp`, `ApplyToManifest`,
`FinishBatch`.  Bridge: `ReceiveOp`, `EmitOp`, `ReceiveResync`, then the reset
in its five steps and `AnnounceShutdown`.  `Edit`, `Move` and `Reconnect` are
external: other programs, and the plugin that takes a snapshot when it has
been told to.

**Abstractions.** A file is there or it is not (its text is `SourceSync`'s
business); all files are in one service, so a service scan is a scan.  The
conflict engine lets everything through.  `pause_until` is never set by code
that is reached and is left out.  A rename of which both sides are reported
is composed into delete and add before this level (`RenameChains` of the plan).

*Instances.*  The part "moves" of `parts_safety` has 2 files, 3 changes, 2 of
them one-sided renames, queues longer than they need, and nothing that fails;
"faults" has 2 files, queues of 1, 2 edits, 2 faults and a disk that does not
wait.  With queues of one entry the next event always finds the queue full, so
every dropping path is taken; two faults let a quarantine be raised while
another is on its way; two files let one be right while the other is lost.
`liveness` has 2 files, 2 edits, a fault.  The proofs remove all bounds for
safety.

*What is promised.*  `NoLostWakeup`: a quarantine that was raised is on its way
to be flushed.  `StudioFollows`: once all is handed on, Studio has what the
disk has, through every drop, fault and reset, provided no rename was reported
by one side only, or nothing was reset and the disk waited for the manifest.
`MovesAreExact` adds that in the second case the manifest is the disk
too.  `NothingLost`, without the proviso, fails (`watch_latemanifest`).

*Two named assumptions.*  `SlowDrain = FALSE`: a plugin's reconnect, which
takes network round trips, does not overtake a drain thread that has been
woken.  `RacingDisk = FALSE` (only one-sided renames need it): the disk is
still between the publication of an operation and the manifest's second look
at the disk.  `watch_latemanifest` shows what goes wrong without the second.
Without the first `StudioFollows` fails: a batch that is dropped after the
plugin's snapshot and before the flush of a silent quarantine (`watch.rs:505`)
is covered by nothing, against "A transport gap must not silently discard
unacknowledged edits" (`docs/SYNC_INVARIANTS.md:49`).
One-sided renames and resets are not mixed: a reset scans outside the
barrier's lock and stores the scan later (`watch.rs:396-409`), so the manifest
may be behind what the bridge was told, and a later one-sided rename would be
compared with it.  The window is the one of `watch_latemanifest`, entered from
another side.

*Fairness.*  Each of the three threads is weakly fair as a whole, since it
blocks only in a receive, and the plugin reconnects after a shutdown event
(its retry loop).  Edits and faults are not fair.

## SourceSync

**Code.** `conflict.rs` (`on_fs_change`, `on_studio_push`, the preflight,
`record_sync`, `forget_path`, `resolve`), the bridge's `handle_op`,
`apply_update_target` and `apply_source_bytes`, `/resolve` of `http_apply.rs`,
and of the plugin `sourceSyncState`, `queueEditorSourceChanged`, `flushPush`,
`runOpWorker`, `sourceAckForAppliedOp` and the answer to a failed push.

**State.** `disk`, `event` and `quiet` are the file, its pending watcher event
and its push-quiet entry.  `baseline`, `conflict` and `pending` are the three
maps of the engine at this path.  `bridge`, `push` and `choice` say where the
three threads of the daemon are and what they hold.  `toStudio` and `toDaemon`
are the frames on the wire, `script`, `editing` and `expected` the script, its
running debounce and the remote text it expects, `outgoing` the plugin's
queue, `worker` its op worker.  `linked` and `refused` are the connection and a
push result on its way that will end it.  `diskPast` and `scriptPast` only
observe.

**Actions.** Each place name of `BridgeAt`, `PushAt` and `ChoiceAt` is a
critical section of the code, so the maps can change between any two.  The
bridge: `ReceiveOp`, `CheckParked`, `CheckAction`, `CheckBaseline`,
`BridgeRecords`; for a deletion `BeginDelete`, `AttachDelete`,
`FinishDelete`, `DecideDelete`, `EmitOp`, `BridgeForgets`.  A push:
`ReceivePush`, `LookAtTarget`, `ReadTarget`, `CheckPending`, `CheckClean`,
`ParkDelete`, `Decide`, `ApplyPush`, `PushRecords`, `ParkPush`.  A resolution:
`Resolve`, then `SendLocal`, `AwaitAck`, `ParkAgain` (Keep Local),
`WriteChoice`, `WriteChoiceFails`, `ChoiceRecords` (Keep Studio),
`SendDelete`, `ChoiceForgets`, `RestoreFile` (a deletion).  The plugin:
`Type`, `CommitEdit`, `FlushPush`, `ApplyOp`, `WriteScript`, `AckOp`,
`Disconnect`, `Reconcile`.

**Abstractions.** One path.  Texts are model values, compared after the
normalisation of line endings on both sides.  Renames, and the script's own
creation, deletion and move in Studio, are left out (`TreeOps`, `LiveEdits`).
The worker takes one operation at a time, though the code coalesces a batch per
script.  A push result is not ordered against the events of the same
connection.  `UpdateSourceAsync` succeeds; the failure of a broadcast when a
deletion or a local text is sent is left out (it parks the conflict again, as
`ParkAgain` does).  `Reconcile` stands for the close of the connection, the
reconnect and the bounded initial comparison in one step; it is taken when the
daemon has nothing in hand but a choice that waits.

**Races.** `Races` names the windows a run leaves open, so that a run says
under what the property holds:

| Race | Window | What it breaks |
|---|---|---|
| `overlap` | bridge, push handler and resolution use the engine and the file at the same time (no lock spans them, `http_apply.rs:5662-5688`) | `Agreement`, `DeleteIsPreflighted`, `ConflictIsCurrent` |
| `crossing` | an edit already captured, and an event, pass each other | `Agreement` |
| `quiet delete` | the user deletes a file within `PUSH_QUIET_MS` of a push (`watch_bridge.rs:66-82`) | `Agreement` |
| `late choice` | a Keep Local still waits for its acknowledgement when both sides are compared again | `Agreement` |

*Settings.*  A behaviour chooses one of `Settings`: which races are open and
how many saves, edits and resolutions there may be.  `sync_settings` has six:
no race (3 saves, 2 edits and 1 resolution; 2, 2, 2), where `TurnsAgree` bites;
`crossing` (3 saves, 2 edits, no resolution), where `ParkedIsCurrent` and
`DeleteWaits` bite; all races (2, 1, 0), all but `overlap` (2, 1, 1) and all but
`crossing` (2, 1, 1), where `BaselineWasShared` is put to the test by every
interleaving of critical sections.  One text of each side
besides the first is enough to make three different texts meet (baseline,
file, script); `sync_twosaves` has a second disk text because it needs two
saves and no edit.  Three saves let a file go, come back and change; two edits
and two resolutions let a second conflict start from what the first left.

*What they show.*  `BaselineWasShared` is the engine's own promise
(`conflict.rs:6-9`): a text becomes the baseline only if the file and the
script have both had it.  It holds whatever overlaps.  `Agreement` is the
user's: when everything has been handed on and no conflict waits, both sides
have the same text.  `TurnsAgree` says that it holds as long as the daemon's
threads take turns and edits do not cross events; the rows above say what each
race, alone, does to it.  It holds even if the write of Keep Studio fails after
its conflict is gone (`WriteChoiceFails`): a text is parked only when its push
is refused, and the refusal makes the plugin compare both sides again.  The
text both sides agree on need not be the user's last: a file that is put back
to the agreed text while the save before is still being acknowledged is
overwritten by that acknowledgement.

`ParkedIsCurrent` and `DeleteWaits` are `ConflictIsCurrent` and
`DeleteIsPreflighted` for threads that take turns and a user who has not
resolved anything yet (`Undisturbed`), because each fails beyond that:

- a Keep Local that Studio does not acknowledge is parked again with the bytes
  it took out of the engine and the file's present time stamp
  (`http_apply.rs:3347-3355`), so the conflict shows a text the file no longer
  has; and if the file is deleted meanwhile, the deletion does not know of the
  conflict and is sent, though the answer to the user says "conflict remains
  parked" (`http_apply.rs:3517`);
- with `overlap`, a push reads the pending preflight and parks its conflict
  under different locks (`conflict.rs:656-702`), and a preflight that ends in
  between answers Propagate.

The wait before a deletion (`watch_bridge.rs:185-194`) is there to hear a push
in flight.  For a leaf script it hears nothing: an update whose file is gone is
refused before the engine is asked (`LookAtTarget`, `http_apply.rs:5898-5905`),
and the refusal makes the plugin compare both sides again.

No liveness is claimed here: the user decides when a conflict ends.

## StreamCommit

**Code.** `POST /push/stream` with its accumulator, `commit_streamed_service`,
the backups, the rollback and the pruning (`http_apply.rs:236-2422`,
`http.rs:5288-6104`), the engine's checkpoint (`conflict.rs:310-325`) and
`doPushPath` of the plugin (`Plugin.luau:11977-12362`).

**State.** `live` is the directory of each service, `backups` the transactions
of `.rosync-backups` with their marks, `owed` the user's work that must be
somewhere.  `session` is the accumulator, `fence` the fingerprint thread,
`worker` the thread of a commit, `undo` a rollback, `baseline` the engine.
`plugin`, `inflight`, `answer` and `grant` are the client.  A tree is named by
the stream that wrote it (0: the user) and the user's last edit of it.

**Actions.** `UserEdits`, `UserCreates`, `WatchRecords`; `PluginStarts`,
`PluginAnswered`, `PluginTimesOut`, `PluginAborts`; `Lose`, `Receive` (every
refusal, replay and acceptance of a chunk); `Expire`; `FenceCaptures`;
`WorkerStep` (stage, fence, move away, verify, install, or its own rollback,
one rename a step, the last of which may fail twice); `UndoStep`, `UndoEnds`; `Crash` at any of them.

**Abstractions.** The contents of a chunk; one chunk for each structure and
sources phase; the retention of backups by age; `mark_quiet`;
`MAX_STREAM_SESSIONS`; the removal of a service that a generation created is
one step.  The strict revalidation of a service comes after a blocked drop of
an older accumulator instead of before.  One request is handled at a time:
`streamed_push` lets the map of the sessions go before it locks the session
(`http_apply.rs:2190-2261`), so in the code the start of another stream can
displace a session whose next request is about to run.  A crash loses every map; the daemon
starts again with what is on the disk.

*Promises.*  `NoUserTreeLost`: a tree the user has written last is live, or in
a backup, at every step of a commit, of a rollback and of a crash.
`BaselineIsPublished`: the engine takes a tree as a generation wrote it for
agreed only if that generation is complete, so a rollback leaves no trace in
it.  `GenerationSpec`: it
implements `Generation`, in which a stream is published for all its services,
or for none, or reported as partial or crashed.  The mapping takes what the
stream under way has published back (`Base`): until its last service is
installed the abstract disk is the one before it.

*EditsDuringSwap.*  `restore_after_install` looks at the fingerprint of what is
live and then renames it into a stage that is deleted.  With edits between the
look and the rename (`EditsDuringSwap = TRUE`) `NoUserTreeLost` fails; runs and
theorem exclude that one window, and no other.

*Bounds.*  Two services, one of them new, so that a rollback restores one and
removes the other; two streams, so that one evicts the other or goes on after
it; the second is strict.  One edit, one fault, one tick, one backup kept; a
crash in one part; in the other an abort with the edit or the fault, and no
tick.  All of them together are out of reach.  In `liveness` the parts have two faults and an edit, or an abort.

*Fairness.*  The threads run, the timer of a session fires, a handler answers
what has arrived, and the client's calls have deadlines.  `StreamEnds` and
`ServiceReturns` need nothing of the user or the network.

## InitialChoice

**Code.** The compare, decision, choice and selection endpoints and the
transfer grants of `http.rs:1283-4735`, `http_apply.rs:2132-2149`,
`runInitialCompare` and `waitForDecision` (`Plugin.luau:13738-14665`), and the
overwrite dialog (`views/overwrite.js:567-866`).

**State.** `session`, `prep` are the comparison and the thread that reads the
disk for it; `slot` is `pending_initial`, `deciding` the handlers of a Studio
choice between their critical sections, `grants` and `replays` the tables of
grants and receipts, `poll` the handlers of the long poll; `plugin`,
`inflight`, `window`, `mail` the clients.  `verdict`, `done`, `compared`,
`synced` and `told` observe.  A service on the disk is the history of its
trees, and of each only whether it is what Studio has.

**Actions.** `Receive` (a chunk of the comparison), `PrepareReads`, `Handle` (a
request of a window: full choice, first and last chunk of a selection, abort),
`Revalidate` and `ChooseStudio` (the handler outside and inside the lock),
`InitialDecision` in its steps (wait, read, grant, answer), `Plugin`,
`Window`, `Edit`, `Expire`, `Crash`, `Lose`.

**Abstractions.** A comparison, its session and its question have one number.
Each phase of a service is one chunk and a selection two; both sides hold
something, so the push and pull of an empty side do not arise.  Finishing a
comparison is one step because `next_initial_compare_response` holds the map
of sessions (`http.rs:1824-1848`).  The replay limit of 64 and the paging of
details are left out; a script's hash is read between two looks at its
generation, in one step.

*Promises.*  `DecisionSpec`: it implements `Decision` (one question open, one
verdict each, carried out at most once and as decided).  `ToldIsTrue`: a window
that was told that its choice is made made it.  `SelectionIsWhole`: a selection
is every chunk of one submission.  `InSyncIsTrue`: what an in-sync answer
records as agreed was the same on both sides.  `PushIsFenced`: a chosen push
starts only while the disk is the compared one.

*Bounds.*  Two services, windows, polls, comparisons and submissions; eight
budgets (in `MCInitialChoice`) share out edits, losses, expiries and the crash,
because all at once are out of reach.  `liveness`: one service and window, two
polls, one submission, one loss.  *Fairness*: handlers and the plugin's steps;
nobody has to answer the question, so `DecisionLands` starts from an answer.

## SnapshotPull

**Code.** `POST /snapshot/stream` (`http.rs:3944-5040`) and `doPullPath`
(`Plugin.luau:12610-13674`).

**State.** `version` is each service on the disk, `streams` the accumulators and
`current` the project's entry, `cursors` and `handlers` the requests that wait
for and are at work on one, `removing` the failed ones that have yet to take
the entry away; `puller` is the plugin, `studio` per service the pull that
wrote it and the versions of structure and sources it wrote.  `pulls`, `edits`
and `losses` count against their bounds.

**Actions.** `Edit`; `Start`, `Fetch` (a first chunk opens a stream, any other
finds one), `Serve` (an answer, an advance or a refusal), `Remove`; `Thread`
(structure and fingerprint of a service at two moments), `Again`, `Expire`;
the plugin's `Pull`, `Refused`, `TimesOut`, `Accepts`, `Touch`, `Apply`,
`Commit`, `Cancel`.

**Abstractions.** Of a service only its version is kept.  Each phase is one
chunk; the ticks that wait for a thread change nothing but the number of the
next one, so a request waits for the thread instead.

`ServicesAreWhole`: each service in Studio has the structure and the sources of
one version.  `PullIsAtomic`: a pull is written for all its services or, taken
back, for none.  Two services, two pulls, one edit and one lost call: an edit
can fall between any two reads of a service and between two services, and a
retry can meet an answer already given.

## TreeOps

**Code.** Rename and move, deletion, change of representation, forced
replacement and restore in `http_apply.rs:2520-6728`.

**State.** `disk` is a tree at each of two places, `base`, `parked` and
`backup` what the daemon knows, `handler` the operation under way.  `before`,
`touched`, `spent`, `vouched`, `waived` observe.

**Actions.** `Arrives` (an operation), then one action per system call or check
of `Rename`, `Remove`, `Restore`, and `Editor` between any two.

`UserKept`: what the user has written is on the disk or in a backup, unless it
was a baseline, which Studio has, or the user gave it up.  `ReportIsTrue`: the
answer is what happened, when no editor was at work meanwhile.  `TreeIsKept` is
both; it is also proved, for any trees and bounds.

*What the run leaves out.*  `LateEdits = FALSE`: an edit does not hit between a
check and the call it is for (destination check and rename; baseline check and
fresh capture at a removal, `http_apply.rs:5712-5727`, `4167-4200`; look at the
metadata and the three renames; the user's choice and the capture of a
resolution; verification and write of a restore; a forced write after its
removal).  In each of these windows an edit is lost.  Rename and move forget
conflicts and take baselines from the disk without comparing them
(`6032-6055`), which `vouched` records.  Known and kept in the model: a change
of shape whose old tree cannot be removed leaves both (its replay is refused,
`4133`); a failed deletion leaves it half done; a conflict of a child inside a
set is parked but not reported (`4549`); a failure after a rename is reported
though the tree moved (`2995-3005`).  A restore gives up the script it
overwrites (`Script`), and nothing else of the tree.  One operation at a time; writing and
`record_sync`, checking and unlinking are one step; parents, renames that
change only case, sidecar files, pruning and permissions are left out.  Two
operations with two faults, or with an edit and a fault; or one with two edits.

## LiveEdits

**Code.** The handlers of structural edits, `diskPathCache` and the queue
(`Plugin.luau:2012-6013`), `PathHelpers.luau:205-243`, and what the daemon
does with the operations (`http_apply.rs:2602-7045`).

**State.** `tree` is Studio, `cache` the path each script is said to have,
`typing`, `deferred` and `queue` what is still to be sent, `disk` the files,
`echo` the window after a remote apply, `live` that no comparison was asked
for.

`Mirrored`: once everything is sent, the disk has the scripts Studio has, each
below the same scripts and with the same text.  `PathsAreOwn`: no remembered
path is another script's.  Checked for three edits of scripts whose siblings
have different names, and for two where they need not.

*Outside.*  (a) `Grafts = TRUE`: a script with children that is moved into
another service, or inserted again, forgets only its own path
(`Plugin.luau:5248`), and the daemon answers that nothing was to be done
(`http_apply.rs:5958-5963`, `6768-6773`): the children's edits are lost.
(b) `Twins = TRUE` with three edits: ordinals are said of a state two edits
ago (`Plugin.luau:5416`, `5515`; the comments at 2899-2903 and 2932 deny it).
(c) `MaxSteps = 4`, where names differ too.  A rename forgets the paths below
it, and the next one asked for fills in those of its siblings
(`Plugin.luau:3106-3112`, `5515`).  So a script that has just lost its only child
is taken for a file before its directory was turned into one: `onParentChanged`
finds the leaf path remembered and queues nothing (5447-5456).  TLC's trace is:
move `c` below `b`, which is below `a`; rename `a`; move `c` up to `a`; move `b`
out of `a`.  The last names a file that is not there, which the daemon calls
applied (`http_apply.rs:6768-6773`), and `b` stays where it was on the disk; the
README of the code says that "renames and moves stay renames and reparents"
(`README.md:149-150`).  After the third edit the text is still in its place, so
`EditsArrive` says what the first three edits do and no more.  Edits within the 0.1 s window of
`isEchoing` (2298) are lost, which `Settled` excludes.  Names that differ in
case, AvoidSync, containers, oversized batches and edits of the disk at the
same time are left out.

## PluginLink

**Code.** `startConnect`, `beginDaemonConnection`, `runInitialCompare` as one
step of transfers, `startHooksAndWs`, `wsLoop`, `refreshHello` and
`retryInitialCompare` (`Plugin.luau:4726-15400`), and the daemon's hello
(`ws.rs:484-1016`).

**State.** `host`, `held` are the daemons and the slots old connections still
have; `disk`, `studio`, `unheard` the edits each side has; `link` the fields of
the connection state, `ws` the published socket; `pending`, `outbox`, `inbox`
what is on its way; `attempts`, `timers`, `compares`, `restarts`, `loops` the
coroutines, each with the `wsGeneration` it began with.

`LinkAgrees`: while a socket is live, what one side has and the other has not
is on its way.  `LiveIsCompared`: only the daemon Studio was compared with is
live, and it is of the project the user connected to last.  `SomeoneGoesOn`:
while the plugin is busy or connected exactly one coroutine goes on.

*Budgets* (daemons, strokes, saves, faults, clicks, late answers): (2,1,1,0,1),
(2,1,0,1,1), (2,0,1,1,1), (2,0,0,0,3), (3,0,0,0,2), (3,0,1,0,1), and
(2,1,0,0,2) with late answers; two URLs, two projects.

*Outside.*  With late answers and a third click the run fails:
`beginDaemonConnection` (15047-15073) does not look at its attempt again after
`validateDaemonProtocol` and `refreshDaemonConfig`, so a cancelled attempt
takes the new one over, as far as a live link to a project Studio was not
compared with; `refreshHello` writes `baseUrl`, port and capability
(11399-11401) before its caller's check, against the comments at 4371-4377 and
15229-15230; the wrong-game path of a manual URL (15285-15287) ends a busy
state that is another attempt's.  `unheard`: saves broadcast between the
comparison's end and the hello's acceptance are dropped for Studio
(`ws.rs:887`) until the file changes again or the next comparison
(`docs/SYNC_INVARIANTS.md:48-49`).  Terminal rejections, wrong game, project
creation and the unpublished-place dialog are left out; the yield in the
preflight of a large flush (4738-4836), by which a small operation can overtake
a big one, is in the source and not in the model.

## DaemonLifecycle

**Code.** `daemon_manager.rs:29-1127`, `lifecycle.rs:10-393`, the start of
`serve` in `main.rs:990-1266`, `/manager-close` (`http.rs:717-777`).

**State.** `record` is the runtime record, `daemons` each boot's phase and
port, `startLock` and `portLock` the two lock files, `managers` each process's
place and what it has read, `windows` whether the record is deleted through
the handle it was read by.

**Actions.** A manager: `BeginStart`, `BeginOther` (status, stop, restart,
adopt), `ReadRecord`, `ProbeRecord`, `Clean`, `Unlink`, `Scan`, `StartAgain`,
`LockPort`, `Spawn`, `AwaitHello`, `Post`, `Poll`, `Done`, `Kill`.  A daemon:
`Bind`, `WriteRecord`, `Serve`, `CloseListener`, `Drained`, `DropGuard`,
`DropUnlink`, `End`.

`OneDaemon`: while no manager was killed and records go by handle, the project
never has two daemons that take connections or will.  `LiveRecordKept`: the
record of such a daemon is never deleted.

*A daemon that drains* is outside both.  After the signal
`with_graceful_shutdown` (`main.rs:1174-1177`) drops the listener
(`CloseListener`) and then waits for the requests in flight (`Drained`); its
record goes last.  In between the port is free, which a probe takes for a stale
record (`daemon_manager.rs:494-506`): a status, stop or start deletes the record
of a process that runs, and a start spawns a second daemon while the first one
finishes its requests on the same files.  `docs/SYNC_INVARIANTS.md:81-82` says
that records go "only after exact boot/process death is established".  The
order of the shutdown is axum 0.7's, which is not under `src/`.

On the other branch (read, then unlink the name)
`LiveRecordKept` fails, and `OneDaemon` fails once a manager is killed after it
has spawned its child (`docs/client-commands.md:110`).  Two managers, two
boots, two ports, three commands, one kill and one crash (after a crash two
commands) are enough for an
older daemon that ends beside a start and a restart.  Owner tokens, the record
of the metadata, logs, the widget's daemon and an unowned `serve` are left out.

## ArtifactStore

**Code.** `artifact.rs:34-1053`.  **State.** leases, registry, staging and
final files, two byte budgets, `nextAccess`, the clock.  **Actions.** One per
handler, since each holds the store's lock: `CreateLease`, `AppendChunk`,
`Finalize`, `Abort`, `Lookup`, `Consume`, `Expire`; `Tick`, `Restart`.  Calls of
the file system fail at every place.

`PublishedIsWhole`: a published file is what its client was acknowledged, chunk
by chunk, whatever failed half-way or was retried.  `AccountsAreExact`: the
counters are the sums of what they count, and within the budgets.
`UsesAreOrdered`: the order of uses (`later`, a relation between the entries
of the registry) survives the renumbering when the counter is exhausted, so what
was used last is evicted last.  Three uploads, two
leases, files of at most 2 bytes, a total of 2, and one fault or one restart: a
finalize must evict, and anything may fail meanwhile.  `ListedIsOnDisk` is not
checked: with longer lives (`LeaseTtl = FinalTtl = 2`, `MaxTime = 3`) the sweep
by file age removes a listed artifact's file (`artifact.rs:940`, against the
test at 1546).  Tokens, names, the client's checksum and permissions are left
out; the clean-up before an admission, which takes the lock by itself
(`artifact.rs:407-408`), is one step with it: no property tells them apart.

## WorkflowRun

**Code.** `workflow_command.rs:3-475`; `transaction_begin`,
`transaction_finish` and the remote write lane (`Plugin.luau:8600-11283`).

**State.** Per process its step and what it waits for; lock file and record;
the plugin's lane, active handler, recording, and what was committed or written
outside.  A recording is the sequence of the runs' writes in it; those of
other commands that fall into it are not kept, since nothing tells them apart.
**Actions.** The process's look, lock, second look, save, unlock; its
requests; timeouts of waits and handlers; `Take`, `Return`; other commands; a
crash; loss and return of the connection.

`AtomicGroup`: what is committed is the whole group of one run.
`SuccessIsWhole`: success means committed.  `RecordedIsFinal`: once the record
exists nothing of the workflow runs again.  Two runs of two writes, a lane of
one, a timeout or a crash, one each of fault, disconnect and other command.  Holes
that the properties name: after a reconnection writes land outside of a
recording (`workflow_rolledback`); a begin that times out may open a recording
nobody ends; a killed run leaves lock and recording; runs without a key share
the transaction's id, and `AtomicGroup` fails for them; a cleanup behind
another command that overruns cancels an unknown recording (`Alone`).  Studio may refuse to
finish a recording, which then stays (8620-8626, 8696); that the one a reload
finds is finished is taken for granted (8603-8618).  The
proofs assume only that there is a write and that nothing else is called
`None` (`WorkflowAssumption`).

## PlaytestRun

**Code.** `playtest_run.rs:99-1637`, `Playscript.luau:1074-1728`, the handlers
in `Plugin.luau:7272-11065`.

**State.** The command's place, cursor and outcome; requests on their way; the
job, its tombstone, the script, the teardown in three coroutines; the queue of
events.  **Actions.** Send, lose, refuse and answer of start, poll, status and
cancel; the end of a job by itself, by the timer, by force or by others; boots,
emits, completes.

`NothingLeft`: a command that reports an end it was to clean up has left no
playtest behind, nor a start that is still to come.  The tombstone is needed
because a cancel overtakes starts (`Plugin.luau:10839-10846`).
`EventsAccounted`: every frame was printed in order or counted as dropped.
Three budgets: two events with a lost call, three lost calls, and
a stop by somebody else.  Holes: a start lost on both attempts with the plugin
away at the cancel is reported as a failure to boot though the playtest may run
(`ro-sync.md:540-544`); a refused forced stop is reported as failed while the
test runs; both are excluded by `refused`.  Dropped counts may count twice.
Starts without a job id, a closed output stream and heartbeats are left out.
The proofs assume numbers for the limits, a queue that holds something, and
that nothing else is called `None` (`PlaytestAssumption`).

## StudioClipboard

**Code.** `studio_clipboard.rs:16-665`, `Clipboard.luau:13-537`, the lane in
`Plugin.luau:10935-11228`, the locks of `lifecycle.rs:343-451`.

**State.** The directory (manifest and payloads), the lock of updates, each
command's step and artifact, the lane and its active handler with its deadline,
the tree that is copied.  **Actions.** Lease, wait, fetch, lock, write payload,
write manifest, clean up; read manifest, read payload, paste; the handler's
describe, serialize, refresh, upload, download, place; every command may die or
vanish at every step.

`ClipboardIsWhole`: the manifest's payload is there.  `LoadIsOvertaken`: a paste
finds the clipboard unreadable only if two copies overtook it.
`PasteIsOneCopy`: what a paste places is one copy with its own roots.
`PasteIsTold`: reported means placed, refused means not placed, then or later.
`CopyIsFresh`: a copied script is at least as new as its editor was.  Two
copies and a paste, a lane of one, one each of stroke, fault and crash.  A hash
is the payload it is of.  Taken from the code's deadlines: request and answer
take less than the second by which the plugin's deadline is shorter; otherwise
a paste reported as timed out may be placed.  After a disconnect the handler
goes on, and its paste is reported as unknown.  Setting and restoring
Archivable, and serialization, are one step; several scripts' texts may be of
different moments (one is modelled).

## The proofs

TLC checks an instance; the theorems hold for every value of the constants that
the named assumptions of the modules allow.  Each module of proofs first shows
types, then an inductive invariant with one step per action, then the
promises.  All invariants were checked by TLC on the instances above before
they were proved.

**`PluginProofs`**, the router (any connections, requests, positive limits):
`TypeCorrect`, `AtMostOneAnswer`, `NoRouteOrphaned`, `SlotNeverStuck`,
`NoRouteLeaks`.  Two strengthenings carry them: `TaskInv` says how the three
tasks of a connection nest (a handler is only under way while its receive loop
serves, a cleanup only once both loops have ended) and `RouteInv` that a route
that is still in the table has had no answer and one that was never registered
has none.  `NoOrphanedRoute` needs `TaskInv`, because only it says that whoever
emptied the slot still has its snapshot to take.

**`PluginProofs`**, the clipboard (any copies, pastes, lengths of the lane,
edits, faults, crashes, under `ClipboardAssumption`: no command is both, and
the token for nothing is none of the values): `ClipboardIsKept` and
`PastesAreTrue`, and from both `ClipboardStaysTrue` (`ClipboardHolds`).  The invariant is
`ClipInv`.
- `Updates`: who is past the lock has it, and who writes the manifest has the
  payload in place; so a death leaves at worst a payload too many.
- `Reads`: what a paste has read is the manifest on disk, or manifests have
  been installed since its first reading, as many as it has made attempts, and
  one more.  A payload that is missing is of a manifest that was overtaken.
- `LaneOnce`, `AsksOnce`: a command is in the lane at one place or has its
  handler, and only after its first steps.  `Known`, `WorkHolds`: the artifact
  of a paste and what its handler has decoded are of the manifest it read,
  which a copy made.
- `Refusal`: who was refused has placed nothing, and is out of the lane, or
  will be dropped from it, or its handler is past its deadline.  This is why
  the queue's timeout must mark the request and the handler's must come after
  the deadline that `Place` looks at.

**`PluginProofs`**, the link (any URLs, projects and budgets, under
`LinkAssumption`: budgets are numbers, and the token for nothing is no URL,
project or daemon): `LinkIsAlwaysKept` (`LinkHolds`).  The hypothesis is that no
budget lets a request that was under way at a cancel be answered late; it is
the condition the code needs, for with late answers and three clicks TLC finds
`SomeoneGoesOn` violated (see [PluginLink](#pluginlink)).  The invariant is
`LinkInv`.
- `OneGoes`: the link is live, idle, trying or working, and accordingly one
  loop, nobody, one attempt, or one of a comparison, a timer and a restart has
  the newest number.  `Numbered`: no coroutine's number is beyond the link's, so
  whoever raises it leaves all others behind.  Each action hands this role on,
  or is by a coroutine that finds itself out of date and ends.
- `HooksAreOne`: only one comparison installs hooks at a time, also when a
  cancel and a new attempt fall into the installation; hooks are there only
  under it or under a live link, and nothing is queued without them.
- `BootsAreNew`: a daemon that starts is none that any coroutine has heard of.
  So what was learnt of a daemon stays true until it stops, and afterwards is of
  nobody.  `CapIsBase`, `ComparesKnow`, `LoopsKnow`: if the daemon of the
  capability still runs, it is the one at the link's URL, the one whose session
  the comparison has, and the one the socket was opened to.  An attempt, a timer
  or a poll may have read the world before it changed; comparing boots, as
  `SameDaemon` does, is what makes each reading good for the daemon it was of.
- `ComparesKnow` and `LiveAgrees` carry the data: what a comparison nobody has
  touched has found or transferred is the project's disk but for saves no link
  has heard of; after it, a stroke is queued, on its way or on the disk, and a
  save is on its way, in Studio, or unheard of.

**`WatchIngressProofs`** (any files, capacities, numbers of edits and faults):
`TypeCorrect` (with it, that the queues keep their bounds and `discarded` never
passes `generation`); `WakeupNeverLost`, whose invariant is the property
itself: whoever raises a quarantine is at that moment either about to wake the
drain, or is the drain; `StudioIsTheDisk`, that `StudioFollows` always holds
when `SlowDrain` is FALSE; and `MovesAreFollowed`, that `MovesAreExact`
does when `RacingDisk` is FALSE too.  The last two stand on `Follows`.  Its
idea: for each file, either something upstream will still be classified
(`Unplanned`) or is planned; or what was told last of it on the way to Studio
is the disk as it is (`Last`); or nothing was told and a snapshot is to come
(`Mute`, with the plugin gone or about to be sent away); or the whole broadcast
is doomed: it will be emptied, and the snapshot follows.  `SilentHolds` is what
makes the quarantine without a Resync safe: it is the bridge's, which has
emptied the broadcast by the time it announces the shutdown; the hypothesis on
`SlowDrain` is used there and nowhere else.  For one-sided renames, and while
nothing was reset, the manifest is what has been told (`ManifestTells`), the
plan is the disk (`PlanIsDisk`), and a comparison that is under way finds every
file planned or right (`ComparisonHolds`).

**`SyncProofs`**, a text on both sides (any texts, any settings): `TypeCorrect`;
`BaselineShared`; `ParkedStaysCurrent` and `DeletionsWait`; `BothSidesAgree`
(`TurnsAgree`).
- `BaselineWasShared` is not inductive: what is recorded was read or received
  several steps before.  `Traced` follows it: every text on the wire, in the
  plugin's queue and in the handler's hand is one the script has had; every
  text the daemon has read is one the file has had; at the places `record` it
  is one of both.  The pasts only grow (`PastsGrow`), so each action has to be
  looked at only where it hands a text on.
- `Orderly` carries the conflict's promises: one thread uses the engine at a
  time; a push that comes within the grace of a preflight hears of it; whatever
  has changed the file is still to be read, or is in the conflict.
- `Followed` carries agreement.  While the plugin trusts its connection
  (`Trusted`: connected, no refused push on its way) nothing is parked and
  nothing is being resolved, for a push that parks is refused, and a refusal
  ends in a comparison.  So the engine's part falls away, and what is left is
  `FileIsHeard` (the file is the baseline, or its change is on the way through
  the daemon, or Studio is about to overwrite it) and `ScriptIsHeard` (the
  script is the last word of Studio, or a text for it is on the way), with the
  shape of the deletion (`DeletionFollows`) that makes both true when there is
  no text at all.

**`SyncProofs`**, trees (any trees at the start, operations, edits, faults):
`UserWorkIsKept` and `ReportsAreTrue`, together `TreesAreKept` (`TreeIsKept`).
The hypotheses are `TreesAssumption` (a tree at the start is a file or a
directory, its contents numbered) and `~LateEdits`, the condition under which
the code keeps its promise: in the windows listed under
[TreeOps](#treeops) a save is lost.
- `UserKept` is not inductive: what is removed was looked at several steps
  before.  `TreeInv` adds what such a look is still worth.  `RenameHolds`: the
  destination is free when the tree is moved, and the temporary name is nobody
  else's, so neither rename goes over anything.  `RemoveHolds`: what a removal
  is about to take is, text by text, a baseline that Studio has, or in the
  backup, or given up; what was captured is what is removed.  `ReplaceHolds`:
  what is not copied yet is still to be copied, and nothing is removed before
  the copy is complete.  `RestoreHolds` and `TextHolds`: what is written over,
  and what is written, is not the user's.
- `ReportInv` says, for an operation that no editor has met, what the disk is
  at each place it can be at, compared with the disk it found (`before`).
  `RenameReports` names the four stages of a renaming (`Staged`: nothing moved,
  the tree moved, its init file aside, its init file in place), so that the
  roll-back, which starts from whichever was reached, ends where the operation
  began, or has met a second fault.  `RemoveReports`, `WriteReports` and
  `RestoreReports` do it for the others.  From the answer on (`Told`) the
  report stays as true as it was until the next operation or edit.

**`StreamCommitProofs`** (any services, streams, bounds): `TypesHold` and
`NothingIsLost`, under the hypothesis `~EditsDuringSwap` explained above.  The
invariant has the shape of the daemon (`WorkerBelongs`, `FenceBelongs`,
`WorkerHasBackup`, `SessionHolds`, `UndoHolds`: whoever may have to put a tree
back has its backup, receipts name different services, a rollback keeps the
session it answers for) and two facts on trees: only the user's are owed
(`Authored`), and what is about to be moved aside is what the stream has
installed (`LooksHold`), so a rename that destroys never takes the user's work.

The same module proves, with every edit the model has, `GenerationsAreWhole`
(the refinement of `Generation`) and `BaselinesArePublished`, both under the
hypothesis `Opens` that no stream is opened after it has left anything behind,
and `StrictOpensOnce`: for strict streams the hypothesis holds of itself.  A
plain stream can be opened again, by a first chunk that is delivered after its
stream has ended.  `stream_atomic` gets there within its bounds, and both
properties hold in it; for every value of the constants the theorems do not
speak of such behaviours.  The invariant is `Open`.

- `SessionOpen`: the services a session has passed are its stream's and have
  their receipts (`Behind`), those ahead of it are not its stream's and have no
  backup (`Ahead`); each backup holds what was there before the stream, one for
  a service (`Opened`); what the stream has created has no backup (`New`); and
  what is true of the service in hand at each step of the worker (`Held`).
- `UndoOpen`: a roll-back still has to take back all that is its stream's, and
  nothing else (`Remains`, `Apart`); a session that waits for it has not begun
  (`Waiting`).

The mapping calls a service published by what would be live if the stream under
way were taken back; `InIs` gives that without the choice of a backup.  Then
every step `Turns`: it leaves outcomes and published services as they are
(`Stays`), or it settles one stream, for all services or for none, or says that
it is partial or crashed (`Settled`).  For baselines `Agrees` adds that whoever
has a checkpoint to go back to has one in which the property held, and that no
baseline is of a stream that is still open.

**`InitialChoiceProofs`** (any services, windows, polls, budgets): `TypesHold`,
`WindowsAreToldTheTruth`, `SelectionsAreWhole`, `AgreementIsReal`,
`PushesAreFenced` and the refinement `ImplementsDecision`.  The invariant has
four sides: the comparison (`DiskHolds`, `SessionHolds`, `SyncHolds`), the
question (`QuestionsAreNew`, `SlotHolds`, `SelectionIsWhole`), the plugin with
polls and grants (`PluginHolds`, `PollsHold`, `GrantsHold`, `DoneHolds`) and
the windows (`WindowsHold`, `ReceiptsHold`).  The refinement needs
`QuestionsAreNew`: a comparison under way leads to a question nobody has asked
or decided, however often its calls are repeated; and that whatever a poll has
read or a grant allows is the question's verdict, and is carried out only while
`done` has none.

**`DaemonProofs`**, the daemon (any managers, boots, ports, commands, kills,
crashes, under `DaemonAssumption`): `LifecycleHolds` and `OneDaemonIsKnown`
(`DaemonIsKnown`).  `PortsAreOwned`, `RecordIsReal`, `SeenIsReal`, `NoUnlink`
and `StartIsLocked` always hold; on Windows and without kills so do `UpIsKnown`
(a daemon that is up, and does not only drain, is waited for by the start that
spawned it, or is in the record) and `StartIsAlone` (a start that goes on has seen that no other is up),
of which `OneDaemon` is a consequence.

**`DaemonProofs`**, the store (any uploads, chunks, limits, lifetimes, faults,
restarts, under `StoreAssumption`: the limits are numbers):
`PublishedIsAcknowledged`, `EvictionsAreLeastRecent` and `AccountsAreKept`, and
from the three `StoreStaysConsistent` (`StoreIsConsistent`).  The first two need `StoreInv`: a staging
file begins with what its lease has acknowledged (`StagedIsAcknowledged`: a
chunk that was written and not acknowledged may follow, which is why `finalize`
compares lengths), an id is of one upload only and never of a lease and an
artifact at once (`DrawnOnce`), and every number given out is below the next
(`NumbersAreOver`).  `AllocateKeepsOrder` shows that counting the entries with a
smaller number keeps their order and stays below the new counter.

The accounts are sums over sets, in the model folds of the community modules.
The library's induction theorems cannot be instantiated here, but induction over
a finite set needs none of them: the strict subsets of finite sets are well
founded, and a set of counterexamples has a minimal element (`WFMin`), which
`SmallestSet` states once.  From it follow that the fold has a table of its
values (`TablesExist`) and only one (`TablesAgree`), that it does not matter
which element is taken out first (`SumWithout`), and that sums split
(`SumSplits`).  Then each step adds or takes away what it says (`LeasesGo`,
`ArtifactsGo`), which also shows that the `saturating_sub` of the code never
saturates.

**`SnapshotPullProofs`** (any services, pulls, edits, losses, under
`PullAssumption`: there is a service): `PullsStayInStep`, and from it
`ServicesArriveWhole` and `PullsAreAtomic`, together `PullsAreWhole`
(`PullIsWhole`).
The invariant is `Holds`.
- `StreamHolds`: a stream is where its last answer has brought it (`Passed`),
  and what its thread has read later is not older (`ThreadHolds`).  So when the
  tree's generation equals the fingerprint, which was read last, the generation
  of the files lies between two equal numbers, and all three are of one
  version; comparing the fingerprint alone would not do, as `GoodUnchecked`
  shows.
- `CallHolds`: no request of a pull, however delayed, is ahead of the plugin's
  call, and all but starts are for the stream whose start the plugin has
  accepted.  `OwnStreamHolds`: that stream has answered the call, or waits for
  it; a stream made by a repeated start has not gone on.  So a late copy of an
  old request finds its stream beyond it and is refused, or is the last one
  and is answered as before.
- `StagedHolds`: what is staged is whole, but for the service in hand, whose
  structure is of the generation its thread has emitted.
- `StudioHolds`: before a pull is applied Studio is even, and what a cancelled
  recording puts back is what it was then.

**`WorkflowRunProofs`** (any runs, writes, lengths of the queue and bounds,
under `WorkflowAssumption`): `RunsHold`, and from it `GroupsAreAtomic`,
`SuccessesAreWhole` and `RecordsAreFinal`, together `GroupsAreWhole`
(`GroupIsWhole`).
None of them is inductive: what a handler does to the recording was asked for
many steps before, perhaps by a run that has been told of a timeout since, has
been killed, or has lost its lock file.  The invariant is `Holds`.
- `LockHolds`: only the run that made the lock file is past it.  The file is
  removed by hand only when nobody is, so this survives kills.
- `LaneHolds` and `ItemHolds` read the lane with its active item as one queue
  (`Places`).  A run that has heard of a success finds the queue free of all
  runs' requests (`Between`, `Idle`), for it is first in, first out, and only
  the last request can have been answered with success; so a write or a commit
  is always the first request of any run in the queue, and what runs gave up
  earlier was done before it or is dropped.
- `KeptHolds`: hence the recording is as it was when the request was made, or
  is gone, and a commit finds the whole group or fails.
- `CommitHolds`, `DoneHolds`, `FinalHolds`: who knows of what is committed, and
  that the run that writes the record leaves an idle lane and nobody who could
  ask again before it looks.
- `SteadyHolds`: with a plugin that stays and no other commands, a recording
  ends only by a request of its own run.

The steps of the lane are few kinds: an item stays or moves up by one (`Old`),
and runs hear of errors only (`LaneStep`); a request joins behind all that
waits (`AskStep`); a run's handler returns (`ReturnRun`).

**`DaemonProofs`**, the playtest (any attempts, limits, events, losses, faults,
under `PlaytestAssumption`): `PlaytestIsAlwaysTold` (`PlaytestIsTold`).  The
invariant is `PlaytestInv`, in three parts.
- `PlayShape`: requests have numbers of their own and the command waits for the
  last of them (`AnswerIsAwaited`), so an answer it hears is to what it asks
  now; nothing decides, stops or cancels before there is a job (`JobIsBegun`);
  a run is decided once, and a decision that waits is the one under way
  (`DecisionIsOne`); until a stop has failed, the test runs in Studio exactly
  while its job is active (`StudioIsKnown`).
- `OverInv` follows the news of the end from where it is made to where it is
  reported, each hop with its own clause: the audit, the terminal record and the
  confirmed cancellation (`EndIsOver`), the answer on its way (`ReplyIsOver`),
  what the command believes and says (`ToldIsOver`).  Each of them means `Over`:
  nothing runs, and the job or its tombstone keeps every start still on its way
  from running (`OverStays`).
- `ToldInv` accounts for the frames.  The queue and the output are in order, and
  what the command has seen of the queue it has printed (`PrintIsOrdered`); an
  answer has no gaps (`ReplyIsNew`), so printing it keeps that.  So whatever a
  poll removes has been printed, and whatever a full queue displaces is in the
  marker (`MarkedKeeps`): what was emitted is at most what is printed or queued,
  each marker counted for what it stands for, and what is still to be marked
  (`FramesAreKept`).  With an end that says there is no more (`EndIsTold`) the
  queue holds nothing that was not heard.  The sums are those of the store.

## Findings

Where a run fails, the code does something its own text denies.

- `routing_disconnect`: a plugin's cleanup gives the slot up and snapshots the
  routes later (`ws.rs:420-430`); a request that has meanwhile been given to
  the next plugin is failed as "plugin disconnected".
- `watch_latemanifest`: the manifest looks at the disk again after an
  operation was published (`watch.rs:1083`); a file that goes in between is
  missed by the comparison after a one-sided rename, and Studio keeps it.
- `sync_crossing`: an edit that is already queued is neither dropped nor read
  again when a remote text is applied (`Plugin.luau:2318-2323`, `4738`); sent
  after the acknowledgement, it overwrites the file while Studio shows the
  remote text.
- `sync_twosaves`: the acknowledgement of a save is taken for an edit if the
  file has been saved again, and parked as a conflict although nobody typed in
  Studio (`conflict.rs:725-750`).
- `stream_partial`: every partial answer of the daemon has fields that the
  plugin's validation refuses (`http_apply.rs:2337-2339`,
  `Plugin.luau:12008-12021`), so the plugin retries and starts over where its
  comment says it must stop (`12189-12191`).
- `workflow_rolledback`: after a reconnection the next write of a group is made
  outside of any recording, the roll-back finds nothing to do, and the run
  reports the group as rolled back (`Plugin.luau:8682-8704`, `11842-11844`).

## Not modelled, not proved

Only model-checked:

- Liveness (`EveryRequestEnds`, `SlotIsReleased`, `Converges`,
  `QuarantineEnds`, `StreamEnds`, `ServiceReturns`, `DecisionLands`): TLAPS has
  no support for fairness and ENABLED here.
- `LinkHolds` in behaviours with late answers, in the last budget of
  [PluginLink](#pluginlink).
- `EditsArrive`: it holds for three edits and fails with a fourth ([LiveEdits](#liveedits),
  (c)), so no theorem without that bound could be true.

Not modelled: the components marked so in `PROJECT.json`, each with its
reason.  Pure data transformation (names, trees, diffs, source maps),
single-shot commands, formatting and the front end's views are left out because
nothing there depends on an order of events.  The desktop shell
(`desktop/src-tauri/src/`) does: its ownership claims and the broker's queue
are in the plan.  Reading it for that, three orders of events stood out which no
model here covers yet: a toggle off and on while a kill is in flight leaves a
project marked as served without a daemon; a reload during the first start
loses a token that is only in memory; a close of a daemon that is already gone
is reported as a failed stop and serves it again.

A crash of the daemon loses every map of `WatchIngress` and `SourceSync`; it
starts again with a comparison, which is their `Init`, so crashes are in
`StreamCommit`, `InitialChoice`, `ArtifactStore` and `DaemonLifecycle`, whose
state outlives the process or is waited for by others.

## Running it

    tlc -workers 2 -config MCSourceSync_settings.cfg MCSourceSync
    tlapm SyncProofs.tla

A run takes seconds to two minutes; the proofs take up to ten minutes a
module.  The community modules and the TLAPS library must be on the path.
