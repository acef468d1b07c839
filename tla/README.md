# TLA+ models of raft-service-rs

`raft-service-rs` wraps [openraft](https://github.com/databendlabs/openraft) into a service:
RocksDB storage for the Raft log and for snapshots, a gRPC network between the nodes, clients
for the application, and an orchestrator that starts and stops a node's services. openraft and
RocksDB are dependencies; what this repository adds is the storage, the network, the conversions
between protobuf messages and openraft's types, and the life cycle. The modules here model those.

Paths below are relative to the repository's root, so `src/raft/store/log.rs` is the log store.

## 1. The system

| Component | State it keeps | Operations | Talks to |
|---|---|---|---|
| **RocksLogStore** `src/raft/store/log.rs` | column families `meta` (vote, last purged log id) and `logs` (index -> entry) | `save_vote`, `append`, `truncate`, `purge`; reads `get_log_state`, `try_get_log_entries`, `read_vote` | called by RaftCore one call at a time; log readers and detached flush tasks run beside it; the flush task answers the `IOFlushed` callback |
| **StateMachineStore** `src/raft/state_machine/*.rs` | in memory: `last_applied_log`, `last_membership`, application data (`Arc<RwLock<A>>`); in `store`: the one key `snapshot` | `apply`, `get_snapshot_builder`, `build_snapshot` (on a clone), `install_snapshot`, `new` at start-up | called by openraft's state-machine worker; the builder is a task of its own; data clients read the application data |
| **Storage** `src/raft/store.rs` | one RocksDB, shared by both stores | `new_storage` | both stores write through one write-ahead log, so a flush by one makes the other's writes durable |
| **Network client** `src/raft/network/grpc/v2.rs` | a connection per call | `append_entries`, `vote`, `full_snapshot` | gRPC to the handlers of another node |
| **Raft handlers** `src/grpc/internal_service.rs` | none; per call the collected snapshot bytes | `append`, `vote`, `snapshot` | the node's openraft |
| **Controller handlers** `src/grpc/controller_service.rs` | none | `init`, `add_learner`, `change_membership`, `metrics` | the node's openraft |
| **Conversions** `src/raft/pb_impl/*.rs` | none | protobuf <-> openraft types, order of leader ids | used by network and handlers |
| **Clients, RaftServer** `src/server.rs` | handles | `write`, `read`, `read_safe`, control calls | openraft and the application data |
| **Orchestrator** `src/orchestrator.rs` | the slot with the leader services' token and handles, static services, server task | `run`, the start and stop callbacks of `on_leader_change` | openraft's leader watcher, the application's services, the gRPC server |

### What is hard about it, and what makes each part correct

*Log store.* `append` returns before its data is on disk: a blocking task calls `flush_wal(true)`
and then `io_completed`. Tasks of several appends run in any order, beside later `truncate`,
`purge` and `save_vote` calls; `truncate` and `purge` are never synced and `purge` is two writes.
Correct means: what RaftCore was told is durable survives a power loss, a vote for which
`save_vote` returned survives, a reader never skips an entry, every append is answered.

*State machine store.* The builder works on a clone that has its own log id but shares the live
data; an install may run beside it; `apply` and `update_state_machine_` change the metadata first
and can then fail; only the snapshot survives a restart, from which the log is replayed. Correct
means: no applied request is lost, the membership is the one of the log id it is reported with,
and replay ends in the right state.

*The storage as a whole.* The log is purged up to a snapshot; after any crash the snapshot on disk
must reach the purged log id, and the entries after it must be there. An install may run beside a
builder, and both write the one snapshot key.

*Snapshot RPC.* A bidirectional wait between client and handler; a stream that is cut must not be
taken for one that ended.

*Orchestrator.* The callbacks and `run()` share a mutex that stays locked while services are
joined; services may panic; elections continue during shutdown. Correct means: services of two
leaderships never overlap, those of a leadership that ended are stopped, none survives the node,
`run()` returns.

*RPCs and conversions.* A connection per call: requests and replies are lost, and a request may be
handled after its sender has given up and asked again. openraft works on what the conversions make
of its types; leader ids are only partially ordered. Correct means: two nodes are never leader in
one term, an answer says no more than the follower has on disk, the nodes commit one history.

*Clients.* The caller of `write` waits for a log id, through elections that may truncate it and
restarts that forget it; `read_safe` is two awaits with a lock after them; membership changes go
through protobuf as joint configurations. Correct means: `write` and `read_safe` look like one store
(linearizable), a node that answered a write shows it, no call waits for good, joint configurations stay joint.

`PROJECT.json` lists each hazard at its line with the properties that cover it, those that no
property covers yet included.

## 2. Modules

| Module | Models | Composed of |
|---|---|---|
| `RocksDB` | the shared database, as the code uses it (external) | |
| `LogStore` | `RocksLogStore` | extends `RocksDB` |
| `LogStoreProofs` | proofs about `LogStore` | extends `LogStore`, TLAPS |
| `StateMachineStore` | `StateMachineStore`, the builder, start-up | extends `RocksDB` |
| `StateMachineProofs` | proofs about `StateMachineStore` | extends `StateMachineStore`, TLAPS |
| `RaftStorage` | one node's storage as openraft drives it | extends `LogStore` and `StateMachineStore` |
| `RaftStorageProofs` | proofs about `RaftStorage` | extends `RaftStorage`, `LogStoreProofs` and `StateMachineProofs` |
| `SnapshotTransfer` | `full_snapshot` and the `snapshot` handler | |
| `SnapshotTransferProofs` | proofs about `SnapshotTransfer` | extends it, TLAPS |
| `Orchestrator` | `RaftOrchestrator::run` and the leader-change callbacks | |
| `OrchestratorProofs` | proofs about `Orchestrator` | extends it, TLAPS |
| `Messages` | the conversions of `pb_impl` and the order of leader ids | |
| `History` | abstract: one history that every node knows a beginning of | |
| `Cluster` | vote and append RPCs, client and handlers, between nodes with storage | extends `Messages`; implements `History` |
| `ClusterProofs` | proofs about who leads and what a leader believes in `Cluster` | extends it, TLAPS |
| `HistoryProofs` | proof that `Cluster` implements `History` | extends `ClusterProofs` |
| `LinearizableStore` | abstract: what a client of `write` and `read_safe` is promised | |
| `Clients` | `RaftDataClient`, `RaftControlClient`, the controller handlers, the answers of `apply` | extends `Messages`; implements `LinearizableStore` |
| `ClientsProofs` | proofs about what clients read and write, and about memberships | extends `Clients`, TLAPS |
| `MC*` | the constants of the TLC runs | |

### RocksDB

`db` is what the process reads: the vote, the purged log id, the log (index -> term of the entry,
0 for no entry) and the snapshot. `survivors` is the set of the contents a power loss may leave:
the content at the last `flush_wal(true)` and the content after each later write, because the
column families share one write-ahead log and recovery takes a prefix of it. `Put` is one
`put_cf`, `delete_cf` or `delete_range_cf`; `FlushWal` makes the present content the only
survivor; `PowerLoss` chooses one. Recovery flushes what it recovered, so that a second crash
cannot take back what was read after the first.

### LogStore

| Code | Action |
|---|---|
| `save_vote`: `put_cf`, `flush_wal(true)` | `SaveVotePut`, `SaveVoteFlush` |
| `append`: the loop of `put_cf`, `spawn_blocking` | `AppendBegin`, `AppendPut`, `AppendSpawn` |
| the blocking task: `flush_wal(true)`, `io_completed` | `SyncTask`, `IoCompleted` |
| `truncate`: `delete_range_cf` | `Truncate` |
| `purge`: `put_cf` of the purged log id, `delete_range_cf` | `PurgeMark`, `PurgeDelete` |
| `get_log_state`, `try_get_log_entries` | `IsLastLogId`, `TryGetLogEntries` |
| the process stops and starts again | `Crash` |

`logIo` is the call in progress (RaftCore awaits one at a time); `unsynced` and `synced` are the
flush tasks, by the last index they answer for. Two history variables record what the rest of the
system relies on: `reported` (entries RaftCore was told are durable) and `savedVote`.

An I/O error is not an action of its own: openraft stops on the first storage error, and what is
then in the database is what a crash at that point may leave, so `Crash` stands for both. When a
log is truncated, a running task goes on answering only for what stays (`CutTasks`): openraft
drops the answers for the rest.

### StateMachineStore

`sm` is `last_applied_log` and `last_membership`; `appData` is the sequence of the entries applied
to the application, so that a lost entry, a replay and a wrong order can all be seen; `builder` and
`smIo` are the `build_snapshot` task and the `install_snapshot` in progress, step by step. An entry
is its index: only committed entries are applied, and those are the same on every node. `Normal`
are the indexes that carry a request, `Member` those that carry a membership, the others are blank.

| Code | Action |
|---|---|
| `apply`, one entry of the stream | `Apply`, `ApplyFails` |
| `get_snapshot_builder` (`clone`) | `GetSnapshotBuilder` |
| `build_snapshot` | `BuildExport`, `BuildFails`, `BuildPut`, `BuildFlush` |
| `install_snapshot` (`update_state_machine_`, `set_current_snapshot_`) | `InstallUpdate`, `InstallImport`, `InstallFails`, `InstallPut`, `InstallFlush` |
| `new` at start-up | `Restore` in `SMCrash` |

An install may begin while a builder runs: the builder is a task of its own, and openraft does not
hold an install back for it. `MaxAhead` says how far the data of a snapshot received from another node
may be ahead of its log id: that node builds its snapshots with the same code. `known` is the log id
of the snapshot RaftCore counts on; `committed` is the commit index as this process knows it, which a
restart sets to the loaded snapshot's (the store implements no `read_committed`). `overtaken` is a
history variable: the log id of the newest snapshot that a builder wrote an older one over.

Left out: `snapshot_idx`, which only names snapshots, and a stored snapshot that cannot be decoded
(`get_current_snapshot_` reads it as none); no crash of the model produces one.

### RaftStorage

The actions of both stores over one database, with the guards openraft puts on its calls: it
appends after its last log id and never behind the state machine, truncates only what is not
committed, commits and applies what the log holds, and purges only up to a finished snapshot.
A crash takes all of it, and both stores start again from what is left. `Covered(last)` is the last
entry a snapshot with log id `last` stands for, had no builder written an older snapshot over it: the
properties are stated from there on, so that they hold, and say what is kept, although
`SnapshotCoversPurged` does not.

### SnapshotTransfer

A call is a client, a stream and a handler. The calls in `Ours` are those of `full_snapshot` as it is
written: it awaits the response of `client.snapshot(strm)`, then sends, and ends its stream only by
returning. The handler serves any client of `internal.proto`; the other calls are made by a client
outside the repository (external in `PROJECT.json`) that sends, ends its stream and then awaits, so
that the handler is examined beyond the point at which this repository's own client stops. Calls run
beside each other, each with a handler of its own, and connections may break at any step. Messages in
an order `internal.proto` does not allow are not modelled.

### Orchestrator

| Code | Action |
|---|---|
| the `start` callback: spawn, then lock and store | `CallStart`, `StartStores` |
| the `stop` callback: `leader_services_shutdown` | `CallStop`, `StopTakes`, `StopReturns`, `StopPanics` |
| `run()`: address parsed, server spawned | `ParseFails`, `StartServer` |
| `run()`: token, `leader_services_shutdown`, `handle.close()` | `MainTakes`, `MainJoins`, `MainPanics`, `Close`, `Closed` |
| `run()`: static services, application, server, Raft | `JoinStatics`, `ApplicationShutdown`, `AwaitServer`, `RaftShutdown` |
| openraft's watcher leaves its loop | `WatcherEnds` |
| the environment | `WinElection`, `LoseLeadership`, `RequestShutdown`, `ServiceStops`, `ServicePanics`, `StaticsStop`, `ServerStops`, `ServerFails` |

A generation is one leadership of this node. The mutex is held from `TakeSlot` to `Unlock` because
`leader_services_shutdown` locks it in the scrutinee of an `if let`, whose temporaries live to the
end of the block. Names of services are taken to be distinct. Every error with which `run()` returns
is there: a bad address, `application.shutdown()`, the server, `raft.shutdown()`. `late` is a history
variable: the leaderships whose services `run()` could not find when it emptied the slot, because
their callback was called afterwards or had not stored them yet.

### Messages

One operator per `From` implementation. An `Option` is the set of its value; a conversion that
unwraps gives the set of what it returns, empty where the code panics. `LeaderIdCmp` is `partial_cmp`;
the order of votes built on it is openraft's.

### Cluster

| Code | Action |
|---|---|
| `append_entries`, `vote` of `GRPCNetworkConnection` | `SendAppend`, `AppendReply`, `RequestVote`, `VoteReply`; `Lose` for `Unreachable` and `NetworkError` |
| the handlers `append_entries`, `vote` | `HandleAppend`, `HandleVote` |
| `save_vote`, `append`, `truncate` as `LogStore` has them | `Write` (and `Puts`), `Flush` |
| a call dropped by openraft while its request is under way | `GiveUp` |
| the process stops and starts again | `Crash` |
| openraft | `Campaign`, `Count`, `LeaderAppend`, `Grants`, `Appended`, `Progress` |

`calls` holds the RPCs in flight, each at `sent`, `flushing` (entries written, not yet synced) or
`answered`. `survivors` is, per node, the set of logs a crash may leave: a save of another vote
flushes, and so does a flush task, which in `LogStore` syncs and reports in two steps and here in
one (`NoPromiseLost` is what allows that). Votes survive every crash (`VoteDurable`). The blank
entry of a new leader is appended by `LeaderAppend`; a restarted node is a follower until it is
elected; leader leases, snapshots and purges are left out. `ballots`, `elected` and `chosen` are
history variables. `OneHistory` maps the log up to each node's commit index to what `History` says
the node has learned.

### Clients

The cluster below the clients is what `History` promises: `chosen`, of which every node has applied
a beginning; on top of it a leader with the entries it proposed (`tail`), of which the next leader
keeps some part. Log ids are terms and indexes, as `Messages` converts them.

| Code | Action |
|---|---|
| `write` | `Write`, answered by `Apply` |
| `read_safe`: linearizer, `await_ready().unwrap()`, lock | `ReadSafe`, `AwaitReady`, `ReadLocked` |
| `read` | `ReadAt`, which reads a node at any time |
| `is_initialized`, `initialize`, `init` | `CheckInitialized`, `Initialize` |
| `add_learner`, `add_voter`, `change_membership` | `Change` with `AddLearner`, `AddVoter`, `ChangeMembership` |
| `apply`: the responder of each entry | `Apply`, `Responds` |
| `raft.shutdown()`, a restart | `Shutdown`, `Restart` |
| openraft | `Elect`, `StepDown`, `CommitNext`, `Truncated`, `NextMembership`, `ReadIndex` |

`stops`, which counts shutdowns and restarts, is there for its bound only. `future` is what a call's
future holds: the node, which start of it, the read index. A call that
openraft refuses before it does anything (`ForwardToLeader`) is one that was not made. The linearizer
is taken in the step that begins the read, which makes `Linearizable` ask for more: the read must see
what was committed then. A call whose responder is dropped is `dropped`: it never gets a success, and
openraft decides what it gets. Initializing two nodes apart (two clusters) and snapshots that skip
the entry of a caller who waits are left out.

## 3. What TLC checks

| Run | Bounds | Shows |
|---|---|---|
| `log_store` | 3 indexes, 2 terms, 1 vote, batches of 2, 1 crash, 3 contents at the start of a call | `TypeOK`, `NoPromiseLost`, `VoteDurable`, `LogHasNoGap`, `EveryWriteIsAnswered` |
| `state_machine` | 5 indexes (3 requests, 2 memberships), 2 crashes, an install beside a builder, received snapshots up to 4 ahead | `SMTypeOK`, `NothingAppliedIsLost`, `MembershipMatchesLog`, `OverwritesConverge` |
| `raft_storage` | 3 indexes, 1 term, batches of 2, 1 crash, calls begin on a synced log, an install beside a builder | `StorageTypeOK`, `OnlyOvertakingUncovers`, `RestartReplaysAcked`, `ApplyFindsItsEntries` |
| `snapshot_rpc` | 2 calls of up to 2 chunks, one by `full_snapshot`, one by another client | `TypeOK`, `InstalledSnapshotIsWhole` |
| `orchestrator` | 2 leaderships, 2 services | `TypeOK`, `OneGenerationAtATime`, `NoServiceAfterStepDown`, `OnlyLateServicesOutliveRun`, `RunReturns`, `DeposedServicesStop` |
| `cluster` | 3 nodes, quorums of 2, 2 terms, 2 campaigns, 1 index, 1 call waited for, 1 crash or call given up, symmetric nodes | `TypeOK`, `OneLeaderPerTerm`, `MatchedIsDurable`, `OneHistory` |
| `clients` | 2 nodes, a write, a safe read, an initialize and a membership change, 3 entries, 3 terms, 1 restart or shutdown | `TypeOK`, `ReadsOwnWrites`, `JointConfigsSurvive`, `NoCallIsStuck`, `Linearizable` |

And five runs whose property the code violates (section 4).

*Why the bounds are enough.* Three indexes and batches of two give two appends whose tasks overlap,
an append half-way through its puts, a truncate or purge that leaves a rest, and a second append
over truncated indexes with another term. `MaxUnsynced` is a bound on beginning a call only: within
calls the contents a crash may leave go beyond it. In `raft_storage` it is 1: a call of the log store,
a build or an install begins only when everything is synced. The writes of calls that are in progress
together (an append's or a purge's, a builder's and an install's) are still unsynced beside each other;
a call begun over the unsynced writes of an earlier one is what `log_store` examines, and the theorems
of section 5 have no such bound. Safety of the log store against a second crash
follows from the proof, which has no bound. The state machine has two crashes because the data that
runs ahead is compounded only by a restart followed by another snapshot. In the composite one term
is enough: terms tell old entries from new ones at the same index, which `log_store` examines; the
composite relates indexes (snapshot, purged, acknowledged, applied), for which an index built and a
later one installed are enough. Two calls are one of each client; two chunks make a middle that can be
lost. Two leaderships are an old and a new one. In `cluster`
three nodes are the fewest with a quorum that leaves one out; two campaigns are two candidates in one
term or one after the other in two; one index is enough for the entry of one term to be replaced,
lost or committed against that of another, and a call that was given up (which `MaxCalls` does not
count) is in flight beside its successor. In `clients` the nodes may be voters or learners, so that a
change can make a joint configuration; the first entry is the membership, which leaves a write and a
blank entry, a write and a change, or a change and a blank entry, and the second term is the one in
which a proposal of the first is truncated or kept. The third term is for the blank entry of the second
leader, at which a read of that leader was told to wait: the third leader may truncate it, and then the
read waits until the log has grown to that index again, which nothing promises. `NoCallIsStuck` excepts
just that case (`future[c].index > Len(LeaderLog)`) and fails without the exception.

*Deadlock* is not checked: with their bounds used up, and at the end of `run()`, the models stop.

*Fairness* is weak everywhere and only on what the runtime polls. In the log store: a call that was
begun goes on, and tokio's blocking pool runs every task spawned on it; new calls and crashes are
not fair. In `snapshot_rpc_deadlock`: client and handler are polled while they can go on; connections
need not break (`snapshot_rpc` checks safety only). In the orchestrator: the watcher and `run()` are
polled; the server drains once its token is cancelled; a service ends some time after its token is
cancelled. The last is what `on_leader_start(shutdown)` asks of an application; without it `run()` and
the stop callback wait for it by design. That the token is cancelled at all is not assumed:
`DeposedServicesStop` is about that. The other runs check safety only. That calls come to an end is
stated without fairness in `clients`: `GoesOn` is what openraft and the runtime do by themselves, which
ends (each such step shortens the tail, a wait or what is still to apply, or ends the lack of a leader)
unless a leader steps down, a node stops or a client calls; `NoCallIsStuck` says that no call is left
waiting then.

## 4. Where the code departs from what is expected of it

* `snapshot_ahead_of_meta`: `build_snapshot` (`src/raft/state_machine/snapshot.rs:30-39`) exports
  the data it shares with the apply loop and pairs it with the log id of the clone. Entries applied
  in between are in the data and not in the metadata; a node restored from it applies them again.
  `SnapshotMatchesMeta` fails. What still holds is `NothingAppliedIsLost` and, for requests that
  overwrite, `OverwritesConverge`; requests that add up (a counter) are counted twice.
* `snapshot_overtaken`: a builder that ends after a newer snapshot was installed writes its older
  one over it (`src/raft/state_machine/store.rs:100`). With the log purged up to the newer one,
  nothing covers the entries in between: `SnapshotCoversPurged` fails. `OnlyOvertakingUncovers`, in
  `raft_storage` and proved, shows that this is the only way: what was purged is in the snapshot on
  disk or in a newer one that a builder wrote over.
* `snapshot_rpc_deadlock`: `full_snapshot` awaits the response before it sends its first message
  (`src/raft/network/grpc/v2.rs:115-118`), the handler awaits the first message before it answers
  (`src/grpc/internal_service.rs:67`). Neither the cancel future nor the timeout is used, so
  `SnapshotCallEnds` fails.
* `leaked_leader_services`: `run()` empties the slot (`src/orchestrator.rs:179`) before it closes
  the watcher (`:180`). Services that a start callback stores in between are never stopped:
  `NoServiceOutlivesRun` fails. `OnlyLateServicesOutliveRun` shows that no others are left behind.
* `membership_change_unanswered`: `apply` (`src/raft/state_machine/store.rs:157-169`) has a value only
  for an entry with a request and answers only with a value. The responder of a membership entry is
  dropped although the change took effect, so that `add_learner`, `add_voter` and `change_membership`,
  which promises a `Success response with membership change details`
  (`src/grpc/controller_service.rs:109`), have nothing to answer with: `MembershipChangesAnswered`
  fails. (The responder takes the application's response type, which has no value for such entries.)

## 5. What is proved

TLAPS checks the following for every value of the constants that satisfies the named assumptions
(`RocksDBAssumption`, `LogStoreAssumption` and so on, which only give the constants their types).

Every safety property of the passing runs but `NoCallIsStuck` (which needs ENABLED) is proved, type
invariants and both refinements (`OneHistory`, `Linearizable`) included. Liveness is not.

`LogStoreProofs` proves the four safety properties of `log_store` from one inductive invariant,
`LogInv`:

* `DbSurvives`: what is read is among the survivors, so that a property of survivors is one of `db`;
* `NoPromiseLost` is not inductive alone: `IoCompleted` adds promises. `SyncedInv` says that
  whatever a synced task will answer for is the same in every survivor, because writes after its
  sync touch those entries only by `Truncate`, which cuts the task, or `PurgeMark`, which moves
  the purged log id past them; `TasksInv` says that the entry a task answers for is there;
* `VoteDurable` needs `VoteInv`: between put and flush the vote read is the one being saved;
* `LogHasNoGap` follows from `GapInv` (after its purged log id a survivor holds a prefix of the
  indexes), which needs `CallInv` (where an append is among its puts, and that a purge in progress
  deletes up to the purged log id it wrote) and `PurgeInv` (purged log ids only grow).

`StateMachineProofs` proves the four properties of `state_machine` from `StateInv`, with installs
beside a builder and with received snapshots whose data runs ahead:

* `AppliedPrefix` is recursive, and that its values are what its equations say needs induction.
  The library's induction theorems take an operator, which the provers cannot instantiate, so
  `LeastElement` is derived from the well-foundedness of `<` and used instead: once to show that
  the recursive function exists, once (`PrefixFacts`) for what its values are;
* `SnapshotsInv`: every snapshot a crash may leave is good (it covers its log id, its membership
  is the last one up to that id, its requests end in log order) and does not run ahead of the
  commit index, which is what makes the entries to replay the committed ones;
* `WorkerInv`: the same of the worker's state, except while an install has set the metadata and
  not yet imported the data, and after an `apply` that failed (`Consistent` is false there, and
  no snapshot may be started);
* `BuilderInv` carries the point of the interleaving: the data that the builder exports later has
  only grown since its clone took the log id, so it still covers it, although it may hold more;
* `InstallInv`: the snapshot being installed is good and is the one the metadata names.

`RaftStorageProofs` proves the four properties of `raft_storage`. Steps of one store are steps of
its own specification; the work is that they keep the other's invariant although they write and
flush the same database (`LogStepKeepsStateInv`, `SMLogStepKeepsLogInv`, from `LogStepWrites` and
`SMLogStepWrites`, which say which column families each touches). So both stores' properties hold
of the composition (`StoresKeepTheirPromises`). `OnlyOvertakingUncovers` then needs, whether or not a
builder runs beside an install:

* `OrderInv`: what RaftCore counts on (`known`) is covered by the stored snapshot, and the stored
  snapshot is not beyond what is applied;
* `WrittenInv`: a snapshot that was put and not yet flushed by its task is the stored one or covered by
  it, so that the task's flush makes true what it then tells RaftCore;
* `CommittedInv`: the last entry known to be committed is in the log until it is applied.

The purged log id moves only up to `known`, so the cover stays (`LogPutKeepsCover`); a builder that puts
an older snapshot raises `overtaken` in the same step. `RestartReplaysAcked` follows with `NoPromiseLost`
and `GapInv`. `ApplyFindsItsEntries` is about entries that may be committed and not yet answered for as
durable, so it rests on `CommittedInv` and `GapInv` instead: `StorageCommit` establishes the first, and
`StorageTruncate` and `StoragePurge` keep it by their guards (`PurgedIsApplied`).

`SnapshotTransferProofs`: `StreamInv` (what was collected is a beginning of what was sent, and is
all of it once the handler saw the end of the stream) and `UnopenedInv` give that only whole
snapshots are installed, whichever calls are `full_snapshot`'s.

`OrchestratorProofs`: `LockInv` (who holds the mutex, and that nothing is joined without it),
`PlaceInv` (a generation is being stored, in the slot, or taken and joined, never in two places),
`IdleInv` (between callbacks, with no leadership handled, none of these holds one) and `OwnerInv` (the
services that run are being stored, in the slot or taken, and after a panic at least cancelled) make
`OneGenerationAtATime` inductive; `NoServiceAfterStepDown` follows. `LateInv` (once `run()` has emptied
the slot, what is stored in it is late; past the close the watcher has ended) gives
`OnlyLateServicesOutliveRun`.

`ClusterProofs` proves `OneLeaderPerTerm` for every set of nodes and every quorum system whose quorums
meet. A ballot is a grant that outlives crashes, so the argument needs what connects the messages to
it: `BallotsInv` (a node's saved vote is later than each of its ballots, or of the same term and then
committed or for the same leader id; and its ballots of a term name one leader id: this is where the
partial order of leader ids matters, as `VoteGeq` of two ids of one term is only equality),
`CallsInv` (a granting reply in flight comes from a ballot),
`CandidatesInv` (what a candidate counts are ballots for its present leader id) and `ElectedInv` (a
leader id that was elected has the ballots of a quorum). Two quorums share a node, and it granted one.

It also proves `MatchedIsDurable`. `MatchInv(F)` holds for some `F` that gives each leader id that was
elected the log of that leader as far as it got, a history that `Cluster` has no variable for:
`LogsInv` says that every log, and every log a crash may leave, is the log of a leader up to each of
its entries, so that logs that share an entry share all before it (`SoundMatch`: this is what the
handler's comparison at `prev_log_id` relies on); `AppendsInv` that a request carries a part of its
leader's log, and an answer without conflict, rejection or last log id a promise of all of it;
`RolesInv` that a leader believes no more than that. What is promised is `Held`: as long as the node's
vote is that leader's, all that a crash may leave agrees with its log so far (`HeldWrite`: writes keep
this, because a later vote ends the promise and a write of the same leader keeps what is shared).

`HistoryProofs` proves `OneHistory`: `Cluster` implements `History`, for every set of nodes, every quorum
system, every number of terms, entries, calls and faults. The TLC run reaches two terms and one entry;
the cases that make Raft hard (an entry of an old term that a quorum holds and that is still replaced,
a leader that commits an entry of another leader with one of its own) need more of both, so here the
theorem says far more than the run. Its invariant, `HistoryInv(F, H)`, holds for the `F` of `MatchInv`
and an `H` that gives each leader id that was campaigned under the log the candidate had then:

* `BaseInv`: what a candidate asks with is its log (`RequestLogs`), a leader's log begins with the one it
  was elected with and it added only entries of its own term (`LeaderLogs`), no log has an entry of a
  term beyond the saved vote (`LogTerms`);
* `Kept` is what a follower's answer is worth for ever: a node that said that it holds the first k
  entries of the leader `id` holds them in whatever a crash leaves, and has voted for no log without
  them, *unless* a later leader already lacked them. `MatchedIsDurable` is not enough for this, since it
  ends with the node's vote. The exception is what makes `Kept` inductive: a later leader without the
  entries may well overwrite them, and whether there is one is only known once a quorum holds them. Then
  (`Complete`) there is none: the first such leader would have the ballot of a node of that quorum, which
  holds the entries and compared logs before it granted (`GrantHolds`);
* `KeptInv`: every answer on its way and everything in `matched` stands for `Kept` (`KeptByCall`), for
  those entries that are of the leader's own term, the only ones that it may commit by counting;
* `KnownInv`: what is in `chosen`, what a node commits and what a request asks to commit is held by a
  quorum for some leader not later than the node's vote. Two of them agree (`Compatible`), so the node
  knows a beginning of `chosen`.

Each action then moves votes, ballots, logs and requests in a way that `Effect` and `Moves` collect
(`EffectOfStep`, `KeptStep`), so that a log write, a truncation, a crash and a lost call are each looked
at once. A step learns, forgets (a crash) or shows nothing (`HistoryStep`). `ClusterTypeCorrect` follows from
the same invariant: that a node commits no further than its log goes is as hard as `OneHistory`.

`ClientsProofs` proves `Linearizable`, a refinement: every step of `Clients` is a step of
`LinearizableStore` or changes nothing that it shows. `LogInv` says that entry i of the leader's log has
index i, a term not above the present one, and a request that no other entry has; `WaitInv` that whoever
waits for a log id finds its own request under it or nothing, now and, since a log id of an older term
is not given again, later; so the caller that `Apply` answers is the one whose write is in the history.
`ReadInv` says that a read's index is not below what was chosen when it began and that it reads only
when its node has applied that much. `ReadsOwnWrites` needs `OwnInv` in addition, which counts the
starts of a node: an answer given before a restart vouches for nothing after it. `TypeOK` needs `TypesInv`
(one leader, on a node that runs; a node was started no more often than nodes were stopped).

`JointConfigsSurvive` is proved there too. `RoundTrip`: a membership that openraft accepts comes
back from protobuf as it was, voter sets in their order and all. `MembersInv`: an entry carries one such
membership or none, something chosen has a membership, at most one membership is not chosen yet (which
is where openraft's refusal of a second change is used), and each shares a voter set with the one
before it. A change proposes a membership that shares one (`NextShares`); a new leader keeps a
beginning of the log that holds all that is chosen, and by the invariant that still has a membership.
`Node` is assumed finite, because a voter set is built from a sequence of its nodes.

In all of them there is one lemma or step per action and one step per conjunct it disturbs; a
theorem combines them in one PTL step.

Model-checked only: liveness (`EveryWriteIsAnswered`, `RunReturns`, `DeposedServicesStop`) and
`NoCallIsStuck`, which need fairness or ENABLED, both out of the prover's reach. The properties of the five runs of
section 4 are refuted on their instances and are not theorems. The proofs are about the models: that
`Clients` may take `History` for its cluster rests on `OneHistory`, but the two modules are not composed.

## 6. Not modelled, and what comes next

openraft itself is modelled only as far as the code relies on it: its decisions are operators and
actions marked external in `PROJECT.json`. The examples, the generated gRPC code and pure type
declarations have no behaviour of their own to check. Not modelled of the rest:

* snapshots and purges in the cluster: `RaftStorage` has them for one node, `SnapshotTransfer` between
  two, and `Cluster` replicates logs only;
* messages that leave out fields which `internal.proto` makes optional and the handlers unwrap;
* stored values that do not decode, and indexes near 2^64;
* requests in flight at the gRPC server while `run()` waits for it (`src/orchestrator.rs:194`): its
  draining is assumed;
* two leader services of one name.

What comes next: the composition of `Clients` with `Orchestrator`, so that calls in flight meet the
shutdown.
