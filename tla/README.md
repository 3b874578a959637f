# A TLA+ development for zmq-raft

This directory holds TLA+ modules that model zmq-raft, the configurations that
check them with TLC, and proofs that TLAPS checks. File names are given
relative to `src/`; `raft_router.js` and the like are in `src/lib/server`.

## 1. The system

A cluster is a set of *peers*. Each peer is one Node.js process, so that the
code between two asynchronous operations is atomic, and everything that can go
wrong goes wrong between the call of a promise-returning function and its
continuation.

| Part | Files | State | Operations |
|---|---|---|---|
| consensus core | `raft.js`, `raft_leader.js`, `raft_router.js` | role, term, vote, commit index, followed leader, election timer, per-follower progress, debounce cache, tables of pending client requests | election timeout, the handlers of RequestVote, AppendEntries and InstallSnapshot, the continuations of their replies, application to the state machine |
| client handlers | `raft_server.js` | pending updates, entry streams, a pending configuration update | RequestUpdate, ConfigUpdate, RequestEntries, RequestConfig, RequestLogInfo |
| start-up | `builder.js` | – | opens the files, repairs the term, confirms a logged configuration |
| raft state on disk | `common/file_persistence.js`, `raft_persistence.js` | an append-only file of records, a rotation | `update`, `rotate`, recovery |
| log on disk | `filelog.js`, `common/indexfile.js`, `common/log_entry.js`, `logwriter.js`, `logstream.js` | index files, last index and term, the map of request ids, the append queue | `appendEntry`, `appendEntries`, `termAt`, reads, streams, `installSnapshot` |
| snapshots | `common/snapshotfile.js`, `common/snapshot_chunk.js` | a snapshot file, a temporary one | write at an offset, replace, read |
| peer sockets | `zmq_rpc_socket.js` | one pending request, its id, a resend timer | `request`, `reset`, `close` |
| membership | `common/cluster_configuration.js` | old and new peers, the tally of votes | `replace`, `join`, `vote`, majorities |
| state machine | `api/state_machine_base.js`, `broadcast_state_machine.js`, `common/state_machine_writer.js` | last applied index | `applyEntries`, broadcasting |
| clients | `client/*` | request queues, known servers, the stream of a subscriber | requests with timeouts and resends, leader discovery, subscription |
| wire format | `protocol/*`, `utils/bufconv.js` | – | encoding of frames |
| coordination | `utils/lock.js`, `utils/synchronize.js`, `utils/parallel.js` | queues of promises | shared and exclusive locks, serial execution |
| tools | `bin/*`, `webmonitor.js`, `utils/repl*.js`, `utils/monitor.js` | – | command line and web interfaces |

**How they interact.** A peer sends RequestVote, AppendEntries and
InstallSnapshot through one `ZmqRpcSocket` per other peer and receives them
through one ZMQ router. A socket has one pending request, which it sends again
and again until an answer with the same request id arrives or the socket is
reset; every state transition of a candidate or a leader resets all of them
(`_cancelPendingRpcs`). Handlers change the memory of the peer at once
(`_updateState`), queue a write (`persistence.update`), and continue when it
ends. The leader passes client updates to `log.appendEntry`, which flushes what
has accumulated in one batch; the continuation sends AppendEntries to the
followers that are idle. Replies advance `matchIndex` and `commitIndex`, and
`_applyToStateMachine` feeds the state machine. Clients talk to the router of
the leader; subscribers listen to the publishing socket of the leader's
`BroadcastStateMachine` and fetch what they miss with RequestEntries.

**What is hard.** Other events come between a handler and its continuation:
replies, timers and writes are not held back by the paused router. Memory is
ahead of the disk. A request can be handled twice, or after its sender has
given it up. The state machine restarts from what it has stored, the log and
the term from what they have. The list of hazards, each at its line, is in
`PROJECT.json`.

**What makes each part correct.**

- *Core*: one leader in a term; one ballot per peer and term, across restarts;
  log matching; a leader has what is committed; peers feed their state machines
  the same sequence; replies are matched with the question they answer; a
  router that is paused is resumed; a leader that stays commits its log; a peer
  that is not a leader waits for an election.
- *Persisted state*: after a restart, the last acknowledged update or a later
  one, whole; the term and the vote of one record.
- *File log*: the entries acknowledged are the entries recovered; a request id
  is found exactly when its entry is in the log; readers and a truncation do
  not overlap.
- *Sockets*: at most one answer, to the pending request; a handler runs once
  per request id; no request is lost while the socket is open.
- *Membership*: two majorities of the same or of consecutive configurations
  intersect; a peer whose configuration entry is truncated returns to the one
  before.
- *Client handlers*: an update is applied once per request id within the
  window of remembered ids; an entry stream has no gaps and ends.
- *Snapshots*: no file is read after it was closed; a follower installs a whole
  snapshot and catches up; readers do not keep a newer one from being installed.
- *Subscribers*: entries are delivered in order, without gaps or duplicates.
- *Locks*: exclusive excludes all; whoever waits is served when holders leave.

## 2. The modules

| Module | What it is |
|---|---|
| `StateMachines` | abstract: each state machine is fed a growing sequence, and of any two one is a beginning of the other |
| `ZmqRaft` | the consensus core, one action per handler or continuation, with its properties |
| `MCZmqRaft` | instances for TLC: symmetry, initial files left by an earlier part of the cluster's life |
| `Scheduled`, `MCForgottenTerm`, `MCOvertakenRead` | two schedules of `ZmqRaft`, with five peers and with three, for counterexamples |
| `ElectionInvariant`, `LogInvariant`, `CommitInvariant` | the inductive invariants: elections; queues, requests and logs; what has been accepted and committed |
| `ElectionProofs`, `LogProofs` | type correctness; one ballot and one leader in a term; queues and sockets, log matching |
| `CommitProofs` | what each handler does to a log, a request, a reply and a vote; leader completeness, state machine safety and the refinement of `StateMachines` |
| `Membership`, `MCMembership`, `MembershipProofs` | changes of the membership: joint configurations, the state file and the log; its proofs |
| `Updates`, `UpdatesProofs` | an update of a client that must get into the log once, and what is told of it; its proofs |
| `FairLock` | abstract: callbacks are invoked in the order of the calls, none before a conflicting one has completed |
| `Locks` | `lock.js` over one scope, with its two promises |
| `LockProofs` | the invariant of the locks, exclusion, and that `Locks` implements `FairLock` |
| `SnapshotStream` | a client that reads a snapshot, the transfers of the peer, the installation of newer snapshots |
| `SnapshotInstall` | the same snapshots, sent to a follower that needs one (InstallSnapshot) |
| `MCSnapshotStream` | sizes of snapshots for TLC |
| `SnapshotProofs` | snapshots are read while they are open, put together in order and installed whole |
| `DurableLog` | abstract: the entries on the disk move towards those of the write under way, and are those when it has ended |
| `FileLog` | the log of a peer over several index files |
| `IndexFile` | one index file |
| `AtomicStore` | abstract: an update is stored as a whole or not at all |
| `StateFile`, `StateFileProofs` | the file of the term, the vote and the configuration; its proofs |
| `Subscription` | broadcasts of applied entries, and the followers that join them with entries they fetch |

An operator whose name ends in `F`, with a comment that begins "fault:", is a
version of the next definition with a seeded fault. No specification uses it;
it is there to see that the property named beside it in `PROJECT.json` notices.

### `ZmqRaft`

The state has four parts: what is on disk (`diskTerm`, `diskVote`, `log`,
`lastApplied`), the memory of the peer under the names of the code, the
asynchronous work under way (`writes`, the queue of
`FilePersistence`; `pend`, the append queue of `FileLog`; `reading`, a handler
that waits for `log.termAt`; `paused`, the router; `armed`, the election
timer), and the network (`rpc`, what is pending on each socket; `stale`,
requests that left a socket before it was reset).

| Code | Actions |
|---|---|
| `onElectionTimeout` | `ElectionTimeout`, and after the write `ElectionPersisted` |
| `requestVoteHandler` | `VoteRequest` (`DenyVote`, `TakeTerm`), and after the write `VotePersisted` |
| `onVoteResponse`, `becomeLeader`, `becomeFollower` | `VoteResponse` (`BecomeLeader`, `BecomeFollower`) |
| `appendEntryHandler` | `RefuseAppend`, `AppendRequest`, `AppendRequestFails`; `BeginRead` and `EndRead` when the read of the previous term takes time; `AppendPersisted` after the write |
| `sendAppendEntries` | `SendAppend` |
| `onAppendEntriesResponse` | `AppendResponse` |
| `_updateState` | the operator `UpdateState`, and `NothingPersisted` for writes nobody waits for |
| `requestUpdateHandler`, `log.appendEntry` | `ClientUpdate`, `Flush` |
| `_applyToStateMachine` | `Apply` |
| an error event | `Fail` |
| restart, with the term repair of `builder.js` | `Crash` |
| a broken connection | `ConnectionLost` |

Abstractions that matter:

- A request and its reply are the pending request of one socket, because a
  socket never has two and only the first answer is taken. Resending is that the
  request may be handled again: a RequestVote any number of times, an
  AppendEntries request once per connection, as the debounce cache has it.
- `SendAppend` may send any number of the entries that are available; the code
  sends one or as many as fit a message. Heartbeat timers have no duration.
- The election timer is `armed` or not; when it is, it may expire at any time.
- `voted`, `votes`, `nextIndex` and `matchIndex` are reset when the role that
  reads them is left, not when it is entered. No handler reads them in between.
- A follower's `log.appendEntries` is one step with the rest of the handler;
  a leader's append is not, since updates and replies interleave with it.

Switches of the environment: `VoteResendRace` (a RequestVote is repeated while
its vote is being written), `ReadOvertaken` (the read of a previous term takes
time), `AppendRace` (an AppendEntries request is handled in a term that is still
being written) and `StaleRequests` (requests outlive a socket). They separate
behaviours of which some break properties, so that each run and each theorem
says what it assumes.

### `Membership`

Each peer has its configuration in memory, in the state file (`disk`) and, as
an entry, in its log. Elections, replication and commitment are those of
`ZmqRaft` in large steps: a candidate is elected at once by voters that win in
its configuration, and a leader's AppendEntries is handled when it is sent. In
small steps are the writes of a configuration, between which the peer may be
deposed or restarted.

| Code | Actions |
|---|---|
| `configUpdateHandler` | `ConfigUpdate`, `ConfigStored`, `ConfigAppended` |
| `onAppendEntriesResponse` | `Commit`, which begins Cnew when the joint configuration is committed, or steps down when the leader is not a member |
| `appendEntryHandler` | `AppendEntries` without a new configuration, `AppendConfigEntries` and `EntriesAppended` with one |
| `builder.js`, the constructor of `Raft` | `Restart` |
| an election, an update, `becomeFollower` | `Elect`, `Update`, `StepDown` |

`LosesConfig = FALSE` leaves out behaviours in which a log loses a configuration
that its peer goes on using. There are two: an uncommitted configuration entry
is cut off, which the handler does not undo, and a follower restarts after the
configuration is in its state file and before it is in its log.

### `Updates`

It goes from `requestUpdate` of `zmq_raft_client.js` to `_applyToStateMachine`.
`requests` is the leader's table of pending updates, `rids` the log's map of
request ids, `asks` and `answers` are messages under way, `live` as long as the
one who sent the question waits on that connection.

| Code | Actions |
|---|---|
| `requestUpdateHandler` | `RequestUpdate`, and after the write `Resolve` |
| `_writeEntries`, `_truncate` | `Write`, `Replicate` |
| `_applyToStateMachine` | `Apply` |
| `requestUpdate`, `requestConfig`, `request` | `Send`, `Receive`, `Timeout`, `Config`, `ConfigTimeout` |
| `makeHasRequestExpired`, the cleaning of the map | `Tick`, `Forget` |

### `Locks`

A promise is represented by the set of the calls it waits for: `{c}` is what
the call `c` returned, `Promise.all` is a union, and a resolved promise is `{}`.
`exclusive` and `shared` are the two fields of the lock, `waits[c]` the promise
that the callback of `c` was attached to. `SharedFirst`, `SharedAfterExclusive`
and `SharedAgain` are the three branches of `shared()`, `Exclusive` is
`exclusive()`, `Invoke` and `Complete` are the reaction of a promise and the
settling of what the callback returned, either way. `synchronize.js` is the
same as `exclusive()` without shared calls, so what holds for `Locks` holds for
it too.

### `SnapshotStream` and `SnapshotInstall`

| Code | Actions |
|---|---|
| `requestEntriesHandler` | `HandleRequest` (`NewTransfer`, `LockSnapshot`, `Confirms`) |
| the callback of `lockShared`, `sendSnapshot` | `SendSnapshot` |
| `ondata`, `onend`, with `pipe` | `Data`, `End` |
| the cleaning timer, `cancel` | `Expire`, `Cancelled` |
| `_clearClientRequests`, `becomeLeader` | `StepDown`, `BecomeLeader` |
| `installSnapshot` of the peer's own log | `RequestInstall`, `BeginInstall`, `EndInstall` |
| `requestEntries` of `zmq_raft_peer_client.js` | `Receive`, `ReceiveChunk` |
| `requestEntries` of `zmq_raft_client.js` | `Timeout`, `Continue` |
| `sendInstallSnapshot` | `BeginRead`, `EndRead`, `Received` |
| `sendAppendEntries` and its response | `SendSnapshotTo`, `AppendEntries` |
| `installSnapshotHandler` | `Handle` |
| `_cancelPendingRpcs`, `becomeLeader`, with the follower's socket | `StepDownPeer`, `BecomeLeaderPeer`, `Reconnect` |

`locks[s]` are the shared calls over the snapshot `s` whose promises are pending:
those before the exclusive call of the installation, if there is one, and those
that wait for it. A shared call may begin when no exclusive one precedes it, the
exclusive one when it is the first, as `FairLock` has it. A chunk is one unit of a snapshot.
In `SnapshotInstall` the initial state chooses who reads the snapshots, a client or
a follower. `wire` holds copies of a request on their way, `live` if they came
over the connection in use; a repetition over the same connection is answered
from the debounce cache, and changes nothing. The handler is one step because
the follower's router is paused while it writes.

Abstractions: the client talks to one peer (another peer that has the same
snapshot would answer the same); the entries after the snapshot are one last
reply; a reply that the request of a closed key gets is ignored; one leader is
elected again and again, and two snapshots that agree in index, term and size
have the same data, so that those of other leaders need not be distinguished;
AppendEntries is sent, handled and answered in one step.

`Queued` allows a second request with one key to be read while the first waits
for the lock. `SlowRead` allows a read of a chunk to last from one leadership
of the peer to the next. `late` is a history variable: an entry expired while a
confirmation was on its way or a chunk was being read. Expiry, a lost message or
a lost leadership may leave a client without an answer, and it is then up to its
timeout; `ReadAnswered` says that nothing else does.

### `FileLog`, `IndexFile` and `DurableLog`

`FileLog` has the files on the disk (`disk`, `diskSnap`) and the memory of the
log under the names of the code (`snap`, `last`, `rdb`, the cached listings of
directories `names`). A write is a `job` that goes through the code's steps:

| Code | Actions |
|---|---|
| `appendEntry`, `appendEntries` | `appendEntry`, `FlushQueue`, `appendEntries` |
| `LogWriter` | `WriteEntry`, `Commit` |
| `_truncate` | `Truncated`, `LockLast`, `CutLast`, `LeaveLast`, `ClearDropped`, `UnlinkDropped` |
| `_writeEntries`, `_createNewIndexFile` | `NoteEntry`, `FillSlot`, `Written`, `CreateFile` |
| `installSnapshot`, `createNewLogDirectory` | `installSnapshot`, `SnapshotReplaced`, `LogForgotten`, `LogRenamed`, `LogCreated` |
| `readEntries`, `getEntries`, `LogStream` | `StartRead`, `Granted`, `PieceRead` |
| `_readRequestsFromLogs`, the cleaning of the map | `Open`, `Expire`, `CleanUp` |
| the end of the process, `initializeWritableLogFile` | `Crash`, `Open` |

`IndexFile` has one file with its two parts, the table of offsets and the data;
`pending` are the writes that wait for `fdatasync`; a crash loses those from any of them on. It opens the file as
`readIndexFile` does, by looking for the first offset that is zero, and has all
ways of reading ranges of entries, with binary search (`splitb`) and as a stream.
`scan` is `bufferEntryExtractor`, with its list of kept buffers and its place in the
list, in the last buffer and in the table; it is given every division of the bytes into chunks,
also with some missing at the end or too many (`StreamsBack`).
`FileLog` takes from it that the slots of a file are filled one by one and
cleared at once. `TornCreate` and `TornInstall` let the process end while a new
file is created and while a snapshot replaces the whole log; `Reordered` lets
the disk keep a later write and lose an earlier one.

### `StateFile`

A file is what it reads as (`now`), what it may read as after a crash (`maybe`),
and whether a part of a record is at its end (`torn`). `old` are files a crash
may bring back, as long as the directory was not synchronized. The actions are
the steps of `update`, `rotate`, `ready` and `cleanupTempFiles`, each with its
failure. `NameLasts` says that `fdatasync` of a new file makes its name last,
too. The module is not bounded; the size at which a file is replaced is left
open, after any update it may be large enough.

### `Subscription`

`Publisher` is the `BroadcastStateMachine` of the peers (`BeginApply`, `EndApply`,
`Heartbeat`, `Elected`, `StepDown`). `Subscriber` is `ZmqRaftSubscriber`: `Hear`
(`_handleBroadcast`), `Read`, `Answer`, `Data`, `DataEnd` and `Again` (missing
entries), `Timeout` and `Connect`. `Forever` is the stream of `ZmqRaftPeerSub`,
with its own timeout (`PulseTimeout`) and its own rules for what it keeps.
`Consume` is the reader. A push that fills it ends the flush of kept broadcasts,
and what is left of them has to be fetched again (`FlushForever`). The kind of follower is chosen in the initial state.

## 3. The runs

The bounded instances stop when the bounds are used up, so the runs do not look
for deadlocks (`CHECK_DEADLOCK FALSE`); that nothing is stuck is the business of
the liveness properties.

| Run | Instance | Properties |
|---|---|---|
| `raft_faults` | three peers with a leader of term 1 or stopped in term 1, 1 more term, 1 update, a restart at any point or a broken connection | `PendingRpcMatchesRole`, `PanicNeedsReconnect`, `LeaderCompleteness`, `OneBallotPerTerm`, `FeedsStateMachines` (refinement of `StateMachines`) |
| `raft_diverged` | two former leaders with different first entries, 2 more terms, overtaken reads | `LogMatching`, `StateMachineSafety`, `ElectionSafety` |
| `raft_progress` | an entry of a former leader on one peer, 1 more term, fairness | `TypeOK`, `PausedIsResumed`, `LeaderCommitsItsLog` |
| `membership` | three peers of whom one remains, 3 terms, 3 entries, a restart, no lost configuration | `ElectionSafety`, `StateMachineSafety`, `ConfigIsLogged` |
| `membership_cut` | the same with 4 terms and lost configurations, a counterexample | `StateMachineSafety` |
| `updates` | three peers, 2 terms, one update, messages late, repeated or lost | `AppliedOnce`, `RightIndex`, `WillBeTold` |
| `locks` | 5 calls, either kind, either outcome, fairness | `ExclusiveAlone`, `ImplementsFairLock` (refinement of `FairLock`), `EveryCallRuns` |
| `snapshot_stream` | snapshots of 2 and 3 chunks; a client with a window of 1 and 2 requests, or a follower; one message or connection lost, 1 step down, fairness | `SnapshotsOpen`, `Assembled`, `InstalledIsWhole`, `MatchedIsKept`, `InstallProceeds`, `ReadAnswered`, `FollowerCatchesUp` |
| `file_log` | files of 2 slots, up to 6 entries, 1 write, 1 snapshot, 1 reader, 1 restart, fairness | `LogIntact`, `RequestsKnown`, `ReadUndisturbed`, `Durability` (refinement of `DurableLog`), `Answered` |
| `index_file` | a file of 3 slots and 5 bytes, entries of 1 to 3 bytes, 4 operations, a crash | `SurvivesCrash`, `ReadsBack`, `StreamsBack` |
| `state_file` | two properties with two values, no bounds | `MemoryStored`, `Atomic` (refinement of `AtomicStore`) |
| `subscription` | two peers, 3 entries, one fault, fairness | `InOrder`, `Delivered`, `HeardEnds` |

Why the bounds are enough to reach what the properties are about:

- *Core*: with three peers a majority is not everybody, and two majorities may
  meet in one peer. `MaxTerm` caps the elections, `MaxLog` the client updates,
  `MaxFaults` restarts and losses together; `Electable` are the peers whose timer
  may expire. `raft_diverged` starts from files that an earlier part of the
  cluster's life left behind, so that the interesting part fits the bounds. So does
  `raft_faults`: with a leader that all have elected and heard (`Led`, which `Init`
  reaches without a fault), so that an update, a fault and another election follow, or
  with peers that were stopped with empty logs, so that an election with a fault
  comes before the update. Nobody stands in term 1 again, hence other votes in it would
  change nothing.
  With `SPECIFICATION Spec` instead, the same configuration starts from empty files
  and adds what follows in term 2 from a fault in the election of term 1: TLC finds
  1.5 million states and no error, in five times the time.
- *Membership*: from three peers to one, so that the majorities of the old and
  the new configuration may be disjoint; three terms let a change be taken
  over by another leader.
- *Updates*: a second leader that has or has not the entry of the first, and two
  messages of one update under way. `Ttl = 1` lets the id expire.
- *Locks*: an exclusive call before, between and after groups of two shared ones.
- *Snapshots*: a window smaller than a snapshot, so that streams are paused and
  resumed; two requests, of which one goes on where the other stopped; a
  snapshot of two chunks is replaced by one of three at any time.
- *Files*: a write of three entries begins in one file, fills a second and
  creates a third; what is cut off may be in three files.
- *Subscriptions*: entries applied two at a time, a reader that is too slow after
  one, and one room in the queue of the socket.

For every property the table of mutants names a fault of the code (a vote that
ignores the log, half a majority, a listing that is not dropped, a stream that
is not resumed, and so on) that violates it in the same instance.

**Fairness.** In `ZmqRaft`: file operations end, sockets resend until
they are answered so that every pending request is handled and answered, and
leaders send what they have. Election timeouts, updates, crashes and
losses are never required to happen; liveness is stated for a leader that
stays one, since the code gives no bound that would force an election to succeed.
In `Locks`: reactions run, and each callback's promise settles, as `lock.js`
asks of its callers. In `SnapshotStream` and `SnapshotInstall`: the event loop
handles what has arrived, streams and files are read, the cleaning timer and
heartbeats run, an installation that got its lock ends, and what is sent over a
connection that stays open arrives; timeouts, losses and new snapshots are never
required. In `FileLog`: the steps of a job and of a reader. In `Subscription`:
entries are applied, broadcast and consumed, timers expire if there is silence,
a cluster without a leader elects one, and a leader that another one has
overtaken steps down.

`membership_cut` shows a disagreement of the code with its comment that "Cold,new has
been committed. It is now safe for the leader to create a log entry describing
Cnew" (`raft_leader.js:236-238`). A follower whose uncommitted Cold,new is cut off
keeps that configuration and its index, since `appendEntryHandler` replaces a
configuration and never restores the one before. Elected later, it takes the
commitment of another entry at that index for that of its Cold,new and goes on
to Cnew, which no joint majority has agreed to; its peers and a majority of the
old ones commit different entries at one index.

### Results without a run of their own

Each can be reproduced by changing the constants of a configuration as named.

*Core* (`raft_faults`)

- `VoteResendRace = TRUE`: `OneBallotPerTerm` fails. RequestVote is not debounced, and
  `_updateState` does not wait for a write under way when the values are already
  in memory. The second copy is granted before the vote is on disk; after a
  restart the peer votes for somebody else in the same term.
- With `AppendRace = TRUE` and a restart a committed entry may be lost, although
  "as long as the system upholds the fsync guarantees the commits are durable"
  (`ACID.md:7`): `tlc -config raft_forgotten.cfg MCForgottenTerm` violates
  `LeaderCompleteness`. `_updateState` does not wait when the term and the vote
  are already in memory, even if the update that stores them is under way
  (`raft.js:466-477`). A peer takes the term of a new leader from its
  RequestVote, refuses its first AppendEntries request, telling it that its log
  is empty, and ends before the term is on its disk. It returns to the term
  before, accepts what the leader of that term sends, and this leader commits.
  The new leader goes on where the refusal told it to, with the first entry
  alone, and the peer cuts off the rest; then a peer without the committed entry
  can win the vote of this one. Two leaders and their voters have to be distinct
  for that, which takes five peers; the module follows one schedule of 44 steps.
- `NoPanic` fails. The debounce cache knows a request by connection and id. The
  same AppendEntries request over a new connection is handled again; when the
  commit index has passed its previous index the sanity check of
  `appendEntryHandler` ends the process.
- `FollowersWaitForElection` fails. A leader that steps down clears its election
  timer instead of starting it, since `_refreshElectionTimeout` looks at a state
  that changes afterwards.
- With `ReadOvertaken = TRUE` there may be two leaders of one term:
  `tlc -config raft_overtaken.cfg MCOvertakenRead` violates `ElectionSafety`, and
  on the way `TermNeverRegresses` and `OneBallotPerTerm`.
  `appendEntryHandler` captures term and vote (`raft_router.js:226-227`), reads the
  term of an earlier entry from a file, and assigns what it has captured
  (`raft_router.js:267`). While a candidate reads on behalf of the leader of its
  own term, the answer to its RequestVote tells it of a later one, its timer, which
  `becomeFollower` has set again, expires, and it is elected in the term
  after that. Then the handler goes on and takes it back to the captured term and
  vote, and it votes in the term that it leads. The module follows one
  schedule of 27 steps, with a read that takes as long as an election.
  `raft_diverged` has overtaken reads, too, but one term less, which is why the
  property holds there.

*Membership* (`membership`)

- `LosesConfig = TRUE`: `ConfigIsLogged` fails, also by a restart between the two
  writes of a follower. `raft_persistence.js:37-39` says of that state that it
  "never happens on FOLLOWERS". The peer refuses to start, or starts with a
  configuration its log does not have.
- Seen in the code while modelling: the router stays paused when a write of
  Cnew fails; a leader that is elected when the joint configuration is committed
  and nothing is outstanding appends no checkpoint, so that the change waits for
  the next update; a leader outside the new configuration steps down when any
  entry is committed in it, the joint configuration included.

*Snapshots* (`snapshot_stream`)

- `Size <- Shrinking`: `ReadAnswered` fails, with an offset that is the end of the
  snapshot nothing is sent and the client times out. With an offset beyond the
  end, `sendSnapshot` returns without releasing the lock, and `InstallProceeds`
  fails: the next installation waits, and because it waits in the queue of the
  log, so does every write.
- `Assembled` without its premise `current = 1` fails. After a timeout a client goes
  on in whatever snapshot is current. Only offsets are compared, so the receiver
  may be given the beginning of one snapshot and the rest of another. The
  client does not reset its offset after the last chunk either.
- `Size <- Long`, `Pipelines = 2`, one attempt: `PipelineCleanedUp` and
  `CleanedUp` fail. Between `lockShared` and its callback a transfer is in no
  table. If two confirmations arrive for an entry that has expired, two
  transfers start under one key, and each forgets the entry of the other. The
  one that is left has a paused stream and the shared lock, and nothing that
  would end it.
- `SlowRead = TRUE`: `InstalledIsWhole` fails. The calls of all terms read into one
  buffer per follower. A read that outlasts an election overwrites the chunk of
  a request that is sent again, and the follower installs it.
- `Size <- Short`, whose first snapshot is one chunk: `MatchedIsKept` fails. Such a
  request is complete in itself. Handled a second time, over a new connection
  and after the follower has compacted its log further, `termAt` knows no term
  for its index, and `installSnapshot` discards the log with committed entries.
  A longer snapshot takes one lost connection per chunk: `MaxLosses = 2` for one
  of two chunks. (`InstalledIsWhole` holds all the same.)
- The receiver of `requestEntries` is called with status 2 for a snapshot chunk,
  although its comment lists 3 (`zmq_raft_peer_client.js`, lines 419 and 469).

*Files* (`file_log`, `index_file`, `state_file`)

- `TornCreate = TRUE` or `TornInstall = TRUE`: `LogIntact` fails, the log is refused
  at the next start. An index file that is created, and a snapshot that
  replaces the log, are not finished atomically.
- `Directory = 6`, `MaxBatch = 4`, `MaxIndex = 7`: `LogIntact` fails. The listing of a
  directory is dropped before the new file is created (`filelog.js:927`); a reader
  that needs the listing in between keeps one without the file, and its entries
  are looked for in the file before it.
- `DataSize` smaller than `Capacity`: `OutOfBounds`. Whole entries that do not fit
  the data section end a write with an error, as `filelog.js:174-176` warns.
- `IndexFile` with `Survives` instead of `SurvivesCrash`: offsets of several entries
  that are written over leftovers of an interrupted cut may be torn, so that a
  leftover is taken for the end of an entry (`indexfile.js:826`). With
  `Reordered = TRUE` `SurvivesCrash` fails, too.
- `NameLasts = FALSE`: `Atomic` fails, a new state file may be lost with its first
  updates.
- `AssignedWhenStored` fails in `state_file`: `file_persistence.js:294` assigns the
  values before `fdatasync` ends, and keeps them when it fails;
  `persistence_base.js:68` asks for the opposite order. `MemoryStored` is what
  holds: the values are in the file.

*Clients* (`updates`, `subscription`)

- `SlowDisk = TRUE`, `MaxTerm = 3`, `MaxFaults = 0`: `AppliedOnce` fails. The table of
  pending updates is emptied when a leader steps down, while the log's map of
  ids knows an entry when it is written. A leader that is elected again before
  its write has begun appends the repeated update a second time.
- `SnapIndex = 1`: `SnapshotRead` fails. A forever stream that begins with a snapshot
  takes the chunk for entries, since its status was changed before.
- `Kind = {"forever"}`, `MaxFaults = 2`: `ForeverEnds` fails. The timer of a
  forever stream is set again only by a message. After a timeout without a cause, a peer
  that steps down in silence is not noticed, and the stream does not end,
  although `zmq_raft_peer_sub.js:339` says so. `HeardEnds` is what holds.
- Seen in the code while modelling: a stream of missing entries that the peer
  cancels is noticed by a timeout, which ends a forever stream with an error;
  an update whose `fdatasync` fails leaves `lastApplied` of the
  `BroadcastStateMachine` advanced and the entries are never broadcast.

## 4. The proofs

`ElectionProofs` proves `TypeCorrect`: `Spec => []TypeOK`, for any set of at
least two peers and every value of the switches and bounds. It proves that `ElectionInv` is inductive (`ElectionInvariant`)
and from it `OneBallot` and `OneLeader`. They assume `VoteResendRace = FALSE` and
`ReadOvertaken = FALSE`; with either of them `TRUE` the statements are false, as section 3
says. Everything else is arbitrary: peers, terms, logs,
restarts in the middle of a write, broken connections, requests handled long
after their socket was reset.

`OneBallotPerTerm` is not inductive: it says nothing of the memory from which
the next ballot is cast. The argument of `ElectionInv` is:

1. memory is the last queued write, or the disk if nothing is queued
   (`MemoryIsLastWrite`);
2. each write goes forward from the one before: a higher term, or the same
   term and a vote where there was none or the same vote (`WritesAscend`);
3. a ballot leaves a peer only when the disk has it, so each ballot is on the
   disk of its voter or of an earlier term than the disk (`BallotsStored`);
   this and 2 give `OneBallotPerTerm`, and survive a crash, which throws away
   the memory and at most the tail of the queue;
4. a granting reply is a ballot (`RpcOK`), so a tally consists of ballots
   (`VotesAreBallots`) and a leader has a majority of them
   (`LeadersHaveMajorities`);
5. two majorities share a voter, so two leaders of a term are the same peer.

`LockProofs` proves that `LockInvariant` is inductive for any number of calls
(`LockIsConsistent`), and from it `MutualExclusion` and `Refinement`. What
`exclusive` and `shared` stand for is defined from the calls made so far: the
next exclusive call has to follow the *frontier*, which is the last call if it
is exclusive and otherwise the group of shared calls at the end; the next shared
call has to follow the last exclusive one. `LockMatchesCalls` says that the two
fields are these sets, and `WaitsMatchCalls` that each call follows the set that
was right when it was made. Nobody is overtaken (`NoOvertaking`) because it is
enough to look at the call just before: if the callback of `c` may be invoked,
that of `c - 1` has been, or has completed if one of the two is exclusive, and
so by the invariant everything before it. Exclusion and the refinement need
only `NoOvertaking`.

`StateFileProofs` proves `Typed` and `MemoryIsStored` for any properties and
values, and, under `NameLasts`, `FileIsAtomic`: `StateFile` implements
`AtomicStore`. The invariant says where each step of an update stands: that the
file reads as the memory or as the memory with the update, that a torn file is
replaced before anything is appended to it, and that what a crash may bring
back is the file before or after the update under way.

### The core, beyond elections

The remaining proofs of the core build on each other. `Dependable` is what they
assume: `VoteResendRace = FALSE` and `ReadOvertaken = FALSE`, as for the elections,
and, for what is committed, `AppendRace = FALSE` or no restarts; with both the
statements are false, as section 3 shows with `MCForgottenTerm` and, for overtaken
reads, with `MCOvertakenRead`. `NoneAssumption` says that
`None` is neither a peer nor a call. Nothing is assumed of the number of peers
but that there are two, nor of logs, terms, restarts, broken connections and
requests that outlive their sockets.

`LogProofs` proves that `QueueInv` and `FreshInv` (`LogInvariant`) are
inductive: a handler that has paused the router is the last in the queue of writes and
its peer has sent nothing, terms ascend in the queue, the role of a candidate
or leader begins after its write, and what is pending on a socket is of the
peer's present role and term; no request, ballot or election is of a later term than the
disk of its author. `CallsMatchRoles` follows.

It proves that `LogsMatch` holds always: there is a *history* `H`, the
log of the leader of each term when it was longest, into which the logs fit. Every
entry, in a log, under way to it or in a request, is, with all that is before
it, in the history of its term (`Sound`), terms ascend in it, the log of a
leader in office is its history, and a request is a part of that (`SliceOf`).
`H` is not a variable of the specification. The proof takes an `H` that fits the
state and makes from it one that fits the next: the same, or with the term of
the peer that is elected or appends to its log replaced by its log. Two logs with an
entry of one term are both the history of that term up to there, which is
`LogMatching` (`LogsAgree`).

`CommitProofs` does the same with a second history `A`, of what each peer has
*accepted*: the entries of its term that were in its log when its term was safe.
The term of a peer is safe when a restart cannot undo it (`Floor`: the term on the
disk, or that in memory if nobody restarts). An index of a term is *chosen* if a majority
has accepted it, and *dead* if a majority has a later term and has not
accepted it. A step adds to `A` and makes more indices dead, and what is chosen
is never dead since two majorities meet. The invariant `Kept` says:

1. what a peer has accepted is in its log, or dead (`PeerStores`);
2. a leader has, of every earlier term, what is not dead (`LeaderIsComplete`), as had the
   winners of former terms (`WinnersComplete`): a majority has voted for it, and each of
   them only if the candidate has all that the voter has accepted (`CandidateOK`);
3. no request, repeated or late, cuts off what its receiver has accepted, unless
   it is dead (`AppendKeeps`), and neither does what the leader sends next after a
   reply or a refusal (`ReplyOK`, `ProgressOK`);
4. what a leader takes for stored by a follower is accepted by it (`matchIndex`
   in `ProgressOK`);
5. what a peer knows to be committed, or is told, is chosen, and it has it
   (`CommitOK`, `CommitsSent`).

For 3 it matters that the follower has at most one AppendEntries request of a
term on its way and that the leader waits for its answer (`LoneCall`), that an
answered request is handled again only when its term is safe (`SeenOK`), and
that what a leader has not flushed is in no other log (`PendingIsPrivate`). The
step in which a peer refuses is the one that fails with `AppendRace` and
restarts: the refusal says something of a term that the peer may leave again.

The first part of `CommitProofs` describes each action once, by what it does to
logs (`LogStep`: the log stays, grows, is cut by a failure or a restart, or takes
the entries of a request), requests, replies, votes and queues, so that the rest
distinguishes those few cases and not 19 actions in every lemma.

From `Kept` follow `LeadersHaveCommits` (`LeaderCompleteness`), `CommitsAreTheSame`
(`StateMachineSafety`) and `PeersFeedStateMachines`: `Spec` implements
`StateMachines`. For the refinement, the one log that changes in a step keeps
what was applied, as it keeps what was committed, and what two peers have applied
is a part of what they have committed.

Before it was proved, each conjunct of `QueueInv`, `FreshInv`, `LogInv`, `CallsInv`,
`StoreInv` and `CommitInv` was checked by TLC on the instance of `raft_faults`, from `Init` and with
`AppendRace = FALSE`, with `H` and `A` as history variables and the infinite sets of requests replaced by those
under way; the definitions as they stand quantify over all requests and cannot be
evaluated.

### Snapshots

`SnapshotProofs` is about `InstallSpec`, whose reader is a client or a follower, for all
sizes of snapshots, windows, and numbers of requests, lost messages and terms.

`SnapshotsOpen` needs to know who has called `lockShared` and where
the call stands. `StreamInv` and `PeerInv` (`SnapshotInvariant`) say that a transfer that waits is in the
queue of the lock of the snapshot it names, one that reads is before the
installation in that of the current snapshot; that only the calls over the
snapshot that is being replaced wait (`LocksOK`), so that those who get the lock when the
installation ends are those who have to look at `isClosed`; that an entry of the
table leads to a transfer with its key that has the lock (`EntriesOK`); that
the calls of `sendInstallSnapshot` are each in one queue, and none is of a later
term; and that a leader waits for one reply, which one copy of a request can
give, and reads nothing meanwhile (`LinkOK`).

`Assembled` needs an invariant of its own (`Pieces`): as long as the first snapshot
is current, no reply under way has a chunk that begins at or after the end of the
snapshot, and a client without an offset is at the beginning or at the end. A
chunk that comes in order is then the next one, or the first.

`InstalledIsWhole` (`WholeSnapshots`) needs `ChunkInv`: what is sent, and sent
again, is the chunk that the request names, and the temporary file has what its
counter says. The first is a matter of the buffer the calls of all terms share. While a
peer leads, every call of an earlier term is `Overtaken`: it waits for the lock of the current
snapshot behind its installation, or for one that was replaced, and in both cases
will read nothing. That is where `SlowRead = FALSE` is needed: without it
an earlier call may be reading when the peer is elected again.

### Updates

`UpdatesProofs` is about `Updates` for all sets of peers and ids and all bounds. The
assumptions are those of the module: there are finitely many peers, `None` is
not an id, and the margin is at most the time to live (`log_entry.js:64-84` with
its defaults). `UpdatesInv` (`UpdatesInvariant`) is inductive:

1. `LogInv`: who leads, and every entry, has a term that a majority has reached, so the
   next term is new; a term has one leader, the entries of a term come from its log, and
   logs match (`LogsMatch`). All this is said of a log together with what waits to be
   written (`full`), since a follower takes the log of its leader and a leader may be
   deposed before its write;
2. `CommitInv`: what a peer has committed is on a majority, and whoever leads in
   that term or later, or has an entry of a later term, has it (`Chosen`);
3. `TableInv`: the index that a log knows of an id is that of an entry with the id,
   a request waits at a leader only, and until its index is known its entry is on the way
   to the log in the leader's present term. The term is needed since the promises of the
   writes of an earlier leadership are resolved in the next one, and must not answer
   for it;
4. `AnswerInv`: every index on the way to the client, and every one it has taken, is that of a
   committed entry with its id.

`WillBeTold` and `RightIndex` follow from 3 and 4 (`UpdatesAreTold`,
`IndexIsRight`), whether or not a write may last from one leadership of a peer to the next.

`AppliedOnce` needs `OnceInv`, which is inductive beside `UpdatesInv` if
`SlowDisk = FALSE` (`UpdatesApplyOnce`): an id is in `full` once; as long as ids have
not expired, the map knows every one that is in the log (`Knows`); and a leader
has in its table every one that it is about to write (`Lists`). An id that is taken is not in
the table and not in the map, so it is neither in the log nor on its way
there; and it has not expired, so the map can be relied upon: that is what the margin is
for. `Lists` is what fails when a leader is elected again before its write
(section 3).

### Membership

`MembershipProofs` is about `Membership` for any peers, changes one after another,
terms, entries and restarts, and whatever sets of peers the changes ask for. The module
assumes that there are finitely many peers and that `None` is not a configuration or a
write. The theorems assume `LosesConfig = FALSE`; with `TRUE` `ConfigIsLogged` is false
(section 3), and so is `StateMachineSafety` (`membership_cut`).

With a fixed set of peers two majorities meet. Here a leader may have been elected, or
an entry committed, by the majorities of one configuration while another peer uses one several
changes older or newer, and those majorities need not meet. The argument is that such
a peer lacks something that is committed and that too many others have.
`MembershipInv` (`MembershipInvariant`) says it:

1. `LocalInv`: a peer uses the last configuration of its log, or of the log it has taken
   over and is writing (`own`), unless it writes a new one; `peersIndex`, in memory and in the
   state file, is 0 or where the configuration is;
2. `LogInv`: logs match, with what is about to be written (`full`), as in `Updates`;
   `FreshInv`: the configuration about to be written is in no log yet, and a log
   has a configuration once, so that it stands for an index;
3. `TermsInv`, `ChosenInv`, `CommitInv`: every term in a log has had a leader (`U`); of what has
   been committed (`X`), each entry with the log it was in, one log is the beginning of the other;
   whoever leads in its term or later, or has an entry of a later term, has it;
   and a peer commits only what is in `X`;
4. `VotersInv`: for every configuration `f` that a peer uses or has received,
   a. `Rooted`: `f`, and all that follows the last committed joint configuration in the
      log, begin with the peers of that change (or the first ones), and only `f` may be
      joint;
   b. `Barred`: there is something committed that the peer lacks and that a majority of one part of `f`
      has, so that the peer cannot collect its votes; or `Able`: it has
      all that is committed, and each term that had a leader was reached by a majority of
      one part of `f`, so that it cannot be elected in such a term.

`L`, the logs that peers have or had when they committed an entry, `X` and `U` are not
variables: the invariant says that some fit the state, and each step makes from them
ones that fit the next. An election adds its term to `U`, a commit its entry to `X`. That
either leaves every other peer barred or able follows from `MajoritiesCompare`: of two configurations with
the same root, one is the other, or joint and the other its old peers, so that
majorities of all parts of one meet those of some part of the other. The step this is
about is the commit of a joint configuration: from then on the new peers are the root
for those who have it, and those who do not are barred.

`ElectionSafety`, `StateMachineSafety` and `ConfigIsLogged` follow from 2, 3 and 1
(`OneLeaderOfTerm`, `SameCommits`, `ConfigsAreLogged`). The conjuncts were checked by TLC
on the instance of `membership` before they were proved, with histories in the place of
`L`, `X` and `U`.

### What is only model-checked

In the core: `PanicNeedsReconnect`; elections and logs with overtaken reads, as
far as the bounds of `raft_diverged` go; liveness. Outside the core:
the safety of `FileLog`, `IndexFile` and `Subscription`, changes of the membership with
`LosesConfig` and with the messages of `ZmqRaft`, and
`MatchedIsKept` of `SnapshotInstall`, which does not hold for all values of its
constants (section 3). Liveness and everything with ENABLED
is out of reach of the prover's backends. What the recursive
helpers and folds of `FileLog` and `IndexFile` compute for every input would need
induction over data, which they cannot do either.

## 5. What is not modelled

- In the core: a log append of a follower torn by a crash together with the
  protocol (`FileLog` has it by itself); the path of a sole master, which
  increments its term and keeps its vote (`raft.js:312-319`); a batch of
  AppendEntries of a new leader that overtakes entries its log still queues;
  `synchronizeLogEntries` of a non-member; durations of timers, so that a leader
  that waits for the lock of a snapshot and sends no heartbeat meanwhile is not
  deposed for that reason.
- In `Membership` and `Updates`: messages between peers, which are those of `ZmqRaft`; in
  `SnapshotInstall`: several leaders, and reads of log entries, which share the
  follower's buffer with the chunks.
- In the files: the encoding of entries, records and headers; the history of
  rotated files; `cleanupTempFiles` of another process; readers that open a file
  while the log directory is renamed; entries a `LogWriter` leaves uncommitted,
  whose ids stay in the map until the next start.
- Sockets: request ids of 24 bits that wrap around and errors of
  `zmq_rpc_socket.js` that leave a request pending; send queues of the clients.
- The flow control of a stream of log entries (as opposed to snapshots),
  `RequestLogInfo`, tools, the web monitor and helpers.

Components without a module are listed with the reason in `PROJECT.json`.

## 6. Plan

What is left, in this order:

1. Proofs: the refinement of `DurableLog` by the steps of one write; log
   matching in the first terms with overtaken reads; delivery in order of `Subscription`.
2. `RpcSocket`: the pending request with its resends, id wrap-around and errors
   against the debounce cache; abstract specification: a request is answered
   at most once and handled once per connection.
3. `EntriesStream`: the flow control of log entries, and `synchronizeLogEntries`
   with `raft_peer_client.js`.
4. The path of the sole master in the core.
