# Restate's log and what rests on it: specification, model checking and proofs

Restate is a durable-execution engine. Everything that happens to an invocation is a
command in a partitioned, replicated log ("bifrost"); partition processors read the log of
their partition and apply it to a local store. The correctness of the whole system rests
on the log: an acknowledged record is never lost, two readers never see different
records at an offset, and a log that was sealed stays sealed; and on what the processors
make of it: one effective leader, the same state at every replica, messages between
partitions that are applied once. This directory holds TLA+ modules for both, TLC configurations that check them on small instances, and TLAPS
proofs of what matters most for all instances. Paths below are relative to the repository.

## 1. Inventory

| Part | State | Operations | Talks to | What is hard | Correct when |
|---|---|---|---|---|---|
| Replication checker (`crates/types/src/replication/checker.rs`) | tags, counters and replication domains per scope | set, merge, fill an attribute; write quorum; f-majority | called by sequencer, find-tail, seal, repair | incremental bookkeeping over scopes, domains and non-authoritative nodes | answers equal the definition on the nodes; f-majorities meet write quorums |
| Sequencer and appenders (`crates/bifrost/src/providers/replicated_loglet/sequencer*`) | next offset, known global tail, one appender per batch with waves and store tasks, watches of the servers' local tails | enqueue, wave, store, reply, time out, cancel, drain | log servers by RPC; remote sequencers | quorums complete out of order, stores arrive late, seal races with appends | tails only cover committed records; no gap is ever sent |
| Find-tail, seal, check-seal, repair (`.../replicated_loglet/tasks`) | known tails and seals per node, digests, copies | gather, wait, seal, repair, restart | log servers, sequencer | partial information, several finders, stores still in flight | a sealed tail covers every acknowledgement; answers do not go back |
| Log server worker and writer (`crates/log-server/src`) | records, seal, trim point, tails, waiters, writer queue | store, seal, trim, wait-for-tail, info, digest, commit, recover | RPC with the above, RocksDB | staging tail ahead of the disk, watches seen late, failed commits, crashes | acknowledged stores are durable, seal is final, no holes |
| Log chain (`crates/bifrost/src/{bifrost,bifrost_admin,log_chain_writer}.rs`, `crates/types/src/logs/builder.rs`) | segments with base LSN and index in the metadata store | seal and extend, seal the chain, find tail, trim prefix | metadata store (compare and swap), loglets | administrators with stale snapshots | a record has one LSN, segments are disjoint |
| Bifrost reads and writes (`read_stream.rs`, `appender.rs`, `background_appender.rs`, `watchdog.rs`) | read pointer, current loglet, retry state | append with failover, read across segments | chain, loglets | reconfiguration during reads and appends | reads are gapless and never pass the tail |
| Partition processor: leadership and deduplication (`crates/worker/src/partition`) | leader epoch, epoch sequence numbers, dedup table | run for leader, announce, step down, propose | log, invoker, shuffle | announcements travel through the log | effects of an old leader are dropped |
| Outbox and shuffle (`shuffle.rs`, `processor/outbox.rs`) | outbox, in-flight queue, truncation point | send, hint, scan, truncate | ingestion client, other partitions | restarts resend | each message is applied once |
| Trim queue and durability tracker | durable LSNs of replicas and archives | report, trim | log, partition store, snapshots | reports are late | nothing is trimmed before it is durable |
| Invoker, service protocol, vqueues, limiter, timers | invocation state machines, queues, tokens | invoke, retry, abort, schedule | services, partition processor | stale notifications, limits | one live attempt per invocation |
| Partition processor manager, cluster controller | target leaders, placements | start, stop, elect, reconfigure | metadata store, nodes | two controllers | one leader per epoch |
| Metadata server, metadata manager | versioned key-value pairs | read, compare and swap, join, leave | raft library | membership changes | linearizable registers |
| Ingress, storage, query, CLI, tools | - | I/O | - | - | not modelled |

`PROJECT.json` lists the same parts with their files, and under "hazards" the places of
the code where an order of events that no test writes down can go wrong.

## 2. Modules

`NodeSetChecker` - the quorum checker. Its variable `checker` is the Rust struct: the tag
of every node, the counters per scope, failure domain and tag, and the replication domains
per scope and tag. The three actions are the three mutating calls. `CheckWriteQuorum` and
`CheckFMajority` compute the answers from the counters, as the code does; the properties
compare them with definitions on the sets of nodes.

`ReplicatedLoglet` - one loglet: log servers, sequencer with its appenders, and any number
of remote processes that find the tail, seal and repair. Each appender is a small machine
(`ready`, `wave`, and its ends); a store is a message with a tail in its header; a remote
process is in one of the phases of `FindTailTask::run`. Known global tails travel with every
request and reply, as in the code. The sets of write quorums and f-majorities are
constants; the only thing assumed of them is that they intersect, which is what
`NodeSetChecker` shows of the checker.

`LogletWorker` - what `ReplicatedLoglet` abstracts to one step of a log server: the worker's
select loop with its priorities, the requests, the waiters, the channel to the writer, the
group commit, a store that disables writes after a failed commit, and a crash followed by
`load_loglet_state`. `LogServer` is the abstract server without any of these; the
`Abstract` instance of `LogletWorker` maps the records ever written to its `stored`.

`Chains` - a chain of segments as a function from base LSNs to loglets and seal markers, with
what the chain builder does to it (`Put`, `MayExtend`, `MaySeal`, `Trimmed`, `Apply`), the lookup of
a segment by LSN, and the arithmetic between LSNs and loglet offsets.

`LogChain` - one log as a chain of loglets in the `Logs` value of the metadata store.
`versions` holds every version of the chain, `view` the version a process has cached,
`queue` the commands for the `LogChainWriter` of a process, which applies a batch of them
to the cached value and writes the result with a compare-and-swap (`WriteBatch`; with a
lost answer `WriteUnacknowledged`; `WriteFails` after the last retry). Tasks are calls into
`BifrostAdmin` and `Bifrost`: seal and extend, seal, find_tail and trim, one action per part
of the code between two awaits. A loglet is reduced to what the `Loglet` trait promises:
its acknowledged tail, its seal, the lowest sealed tail it has reported, its trim point.
The history variables record acknowledged records, requested trims and answers.

`ReadStream` - one `LogReadStream`. `state` is its `State`; a step of the reader is one round of
the loop in `poll_next`, and a round that returns Pending leaves the wakers it has registered in
`wakers` (`Park`): the reader moves again only when one of these sources fires. `substream` is
the loglet it reads from with the end the chain gave it, `known` and `knownSealed` the
`TailOffsetWatch` of its node, `view` the cached `Logs`. The log around the reader is `LogChain`
with its races resolved: a change of the chain is one step on the latest version. A sealed
loglet may still be repaired to a higher tail (`RepairTail`), as `ReplicatedLoglet` allows.
Left out: filters, bounded streams, errors that end the stream, where records come from.

`PartitionLeadership` - the processors of one partition, their managers, the background
appenders and the log. `pp` is a processor: its role, the epoch and next sequence number of its
self proposer, the open batch with its uncommitted `replica`, the actions collected in it, and
what its actuators were told; `store` is what it has committed. Batches may be stopped at any
record, an announcement or a version barrier commits in the middle of one, and an appender
outlives the leadership it belongs to. A record that is applied is its position in the log;
what commands do is left out. `Upgraded` are the processors that propose a version barrier
before they lead. The controller's requests, gossip and answers of the metadata store come at any
time or never.

`Shuffle` - one sending partition, its outbox and the shuffle of its leader, the ingestion
sessions, and the receiving partitions. Leadership is that of `PartitionLeadership` seen from
afar: the log holds announcements, messages and truncations, and a replica is what it makes of
a prefix of it (`Replay`), kept only while its node leads. A target applies a record as it is
appended. The wait for a permit is part of `Ingest`, an acknowledgement that is lost is a request
that fails before its last record is appended, a hint is sent as the message is applied.
`Channels` is the abstract promise, an ordered lossless channel to each target; the `Promise`
instance of `Shuffle` maps the messages in the sender's log and those applied by the targets to it.

`MC*` modules give the constants. The `*Proofs` modules hold the proofs (section 5), each of the module whose
name it has; `ChainProofs` has the lemmas about `Chains` that `LogChainProofs` and `ReadStreamProofs` share.

How the modules fit together:

    NodeSetChecker    f-majorities meet write quorums    (assumed by)  ReplicatedLoglet
    LogletWorker      refines LogServer                  (assumed by)  ReplicatedLoglet
    ReplicatedLoglet  sealed tails cover acknowledgements (assumed by) LogChain
    LogChain          versions of the chain agree         (assumed by) ReadStream
    ReadStream        readers see the same records        (assumed by) PartitionLeadership
    PartitionLeadership  replicas agree, reigns in order  (assumed by) Shuffle
    Shuffle           refines Channels

The first arrow is `QuorumAssumption` of `ReplicatedLoglet`, which is what `FMajorityIntersects` says of the
checker, for every node set (theorem `FMajorityAlwaysIntersects`).
The second is `ImplementsLogServer`: the actions of `LogServer` are the effects of a
request in `ReplicatedLoglet`, with the same guards. The third is the guard of
`AppendRecord` and of `ReportSealed` in `LogChain`, shown by `SealedTailCoversAcks` - under
the reservation of finding `loglet_restart` below. The fourth is the single step in which
`ReadStream` changes the chain (`VersionsAgree`, `AckedRecordsReadable`). The fifth is the variable `log` of
`PartitionLeadership`, one sequence that every processor reads (`ReadsTheLog`, `NothingSkipped`), under
the reservation of `read_stream_open_tail`. The sixth is `Replay`: all replicas that have read a prefix
have the same outbox (`ReplicasAgree`), and a truncation of an older epoch has no effect
(`ReignsInOrder`).

Abstractions that hold for all of them: record contents, sizes, keys and batches are left
out (an append is one record); so are back-off times, adaptive timeouts, metrics and logs. A
time-out is an event that may happen at any time.

## 3. Runs

Every bound is a constant in a `.cfg` file or in an `MC` module. Deadlock checking is off
where the bounds (offsets, versions) or a sealed, fully answered system leave nothing to do.

| Run | Instance | What it shows |
|---|---|---|
| `node_set_checker` | 4 nodes in up to two zones, replication node 2 and zone 2, all storage states, two tags | the incremental counters give the same answers as the definitions over sets of nodes (`WriteQuorumAnswer`); an f-majority meets every write quorum (`FMajorityIntersects`), and one is recognised as soon as it exists (`FMajorityReached`) |
| `loglet_seal_race` | 3 log servers, replication 2, one remote finder, one append | no append is acknowledged at or above a sealed tail that a finder reported, although the sequencer does not know of the seal; an answer from the log servers is not below what was reported before |
| `loglet_repair` | 2 servers, two appends in flight, servers that forget their known global tail | repairs find what they look for, stores never arrive out of bounds, tails are committed |
| `loglet_sequencer_seals` | 2 servers, one of them read-only, replication 1, one append of two waves, the sequencer's process seals and drains, one remote finder | two processes that find the tail and seal at once: sealed tails cover acknowledgements, and `SealIsObserved`: once an f-majority is sealed, every append ends (also one that no writeable server is left for) and the sequencer reports the seal |
| `worker_stores` | one log server, 2 offsets, writer queue of 2, one trim | acknowledged stores survive crashes and failed commits, no holes, the seal is final; the worker implements `LogServer` |
| `worker_seals` | one offset, all kinds of wait-for-tail queries | every seal request is answered, also after the store has failed |
| `log_chain` | 2 processes with one call and one appender each, 3 versions, 2 records, one trim point | acknowledged records stay reachable from their LSN, sealed answers of find_tail are final, versions of the chain agree on closed segments |
| `leadership` | 2 processors, one upgraded, 2 epochs of 2 proposals, one forwarded record, batches of 2, one repeated append or stop | state and store of a processor are a function of the log it has read (`ReplicasAgree`); epochs are applied as gapless runs that start with the announcement (`ReignsInOrder`); a leader's announcement is the last it has read and no epoch has two candidates (`LeaderIsCurrent`); the arms that the code calls bugs are not reached (`NoImpossibleRecord`); actuators miss no command (`ActuatorsKnowAll`); campaigns end (`CampaignsEnd`), and a manager does not believe in a lost epoch for ever (`ManagerFindsOut`) |
| `shuffle` | 2 nodes, 2 epochs, 2 messages to one or two targets, hint channel of 1, batches of up to 2, one failed request or restart | targets receive as over ordered lossless channels (`DeliversLikeChannels`), nothing undelivered is truncated at any replica (`TruncatedAreDelivered`), and the outbox is emptied again and again (`OutboxDrains`) |
| `read_stream` | 2 loglets and their markers, 3 LSNs, a trim of the first record | a record is handed out at the LSN the chain gives it (`ReadsTheLog`), the pointer passes only what was handed out or trimmed (`NothingSkipped`), and every acknowledged record is passed (`EveryRecordIsRead`) |

Why the bounds are enough. Two waves are what it takes to retry an append, and a read-only server is what it takes for the
spread selector to find no spread although no f-majority is sealed (`loglet_sequencer_seals`); two appends in
flight are what it takes for a quorum to complete out of order and for a store to wait on
its gate; three servers with replication
two have f-majorities of two nodes that overlap in one, two servers have f-majorities of a
single node, so that two finders may decide from disjoint evidence. Two remote finders are not
a run of their own: the sequencer's process and a remote finder seal and repair at once in
`loglet_sequencer_seals`, and `TailsCommitted` is proved for any number of them. In `log_chain`
three versions allow two racing changes after the
initial chain, among them seal and extend, extend twice, an empty segment that is replaced, and a
trim that races with either; LSNs 1 and 2 allow a record on either side of a boundary. In
`read_stream` (where `AwaitingReconfiguration` never finds the chain unchanged: it is entered only
when the chain has a segment after the substream's) three LSNs allow an acknowledged record, one that only a repair finds, and the
first record of the next segment. In `leadership` two epochs are what it takes to preempt, to
retry and to leave a queue behind; with batches of two a commit falls inside a batch; a third epoch
would repeat the second one's role. In `shuffle` two messages and a hint channel of one drop a hint,
two targets commit out of order, and two epochs leave a batch of the first leader under way while
the second scans the outbox.

Every property of every passing run has a mutant in `PROJECT.json`: a plausible bug in the
code, defined beside the definition it replaces, under which the run finds the property
violated.

Two runs end in a violation, on purpose: they check a sentence of the code's own comments.

- `loglet_restart`: `find_tail.rs:218` says that no writer is acknowledged after a sealed
  tail. A log server saves its known global tail only now and then, and answers Ok to stores below
  it that it does not hold. With replication across zones, after a restart a finder that
  hears one zone reports a tail below an append whose replies arrive later. The MC module directs the
  search (`Scenario`); without it the same trace exists in a larger graph.
- `read_stream_open_tail`: `read_stream.rs:462` says that an open tail is safe to be considered as
  a tail. A node may hear of a higher tail in the header of an answer without hearing of the seal. If
  one process reports Sealed(T), the chain is extended at T, and another process then repairs a record
  that was never acknowledged at T, the reader's node may hold Open(T + 1); with an old version
  of `Logs` the reader hands out that record at the LSN of the first record of the next segment.
  `read_stream` is the same model with the one assumption that closes this, `OpenTailsBounded`: a node
  that does not know of the seal knows no tail above the sealed one. `find_tail.rs:215` asks
  that sealed tails be reported at exactly the same offset, which would imply it.

Other comments are stronger than the code. `find_tail.rs:212`: once an offset was reported as
committed, no find-tail reports a lower one; the sequencer answers from its own last known tail, which may be
behind one that another process has found (nothing acknowledged is affected). `appender.rs:174` (of the
sequencer): after a cancelled append no later one can move the global tail; but the gate of a later store
also opens on the server's local tail (what matters, that tails cover committed records only,
is `KnownTailsCommitted`). `loglet_worker.rs:540`: a store that is latched on to a seal is rejected
when the log store fails; it waits among the global-tail waiters, which `on_writes_disabled` does not
drain. `leadership/mod.rs:622`: only an announcement or the barrier can follow while a processor waits for
its barrier; records that an earlier leader has forwarded can come in between, and their
actions are collected and covered by the store on which the actuators start (`ActuatorsKnowAll`).

Two facts about waiting readers. A node that has heard of Sealed(T) stops its periodic tail
checker (`periodic_tail_checker.rs:55`); if the chain was sealed at T + 1, its substream waits for a
tail that nothing has to bring, although `read_stream_task.rs:199` relies on that task.
`EveryRecordIsRead` excepts exactly this case (`BehindChain`). And after an open tail the reader
waits for its substream and for `Logs` only: a seal without a new record does not start the timeout after
which it would seal the chain itself (`read_stream.rs:483`). No record is missed by that: there is
none before the chain changes, and the change wakes the reader.

## 4. Fairness

`FairSpec` of `ReplicatedLoglet` assumes only what the sequencer's own process does by itself:
a cancelled append is dropped by `run_until_cancelled` (`Cancel`), the periodic tail checker
looks for the seal until it sees it and starts the drain (`Drain`), and the drain ends when the
task tracker is empty (`Drained`). Nothing is assumed of the network, of servers or of remote
processes. `FairSpec` of `LogletWorker` assumes that the worker's select loop takes a branch
that stays ready, and that RocksDB writes end, with or without an error. `LogChain` has no
fairness: its calls may fail or hang at any point. `FairSpec` of `ReadStream`: the stream is polled when
one of its wakers fires, the timeout fires, `Logs` are gossiped, the periodic tail checker reports tails
and the seal until the node knows of the seal, and a seal that the reader repeats succeeds some time
(strong fairness, since every attempt may fail). `FairSpec` of `PartitionLeadership`: the event loop of a
running processor reads its target state and the log and ends its batches, and background appenders, whose
retries are unbounded, append; nothing of the controller, gossip or the metadata store.
`FairSpec` of `Shuffle`: the event loop of a processor, its shuffle and each session get on, a request is
answered unless it fails (which happens at most `MaxFaults` times), and the cluster finds a leader
when there is none. Requests that a session has given up may stay where they are for ever.

## 5. Proofs

TLAPS proves every invariant, action property and refinement that the passing runs check, for every value of
the constants that satisfies the named assumption of the module. What is assumed: `LogletAssumption` (shapes of the
constants, finitely many nodes) and `QuorumAssumption` (write quorums and f-majorities meet) of
`ReplicatedLoglet`; `CheckerAssumption` of `NodeSetChecker` (finitely many nodes, domains and tags, replication
factors of at least one); `WorkerAssumption`, `ChainAssumption`, `ReadStreamAssumption`, `LeadershipAssumption` and
`ShuffleAssumption`, which only give the bounds their types. TLC evaluates them in every run. Two theorems have a
premise of their own, `~TailLostOnRestart` and `OpenTailsBounded`; the two runs that end in a violation show that
neither can be dropped. Each inductive invariant was checked with TLC as an invariant of the runs' instances
before it was proved.

`NodeSetChecker` (`NodeSetCheckerProofs`), for every node set, placement in failure domains, assignment of storage
states, replication property and sequence of calls: `BooksAlwaysExact` is the inductive invariant. The code
changes counters and replication domains by increments, one node at a time; `BookInv` says that they are always what
one would count from the tags of the nodes (`Book`). From exact books follow `CheckerTypeCorrect` (no counter passes
zero), `WriteQuorumAlwaysExact` (`WriteQuorumAnswer`), `FMajorityAlwaysIntersects` (`FMajorityIntersects`: if the
matching nodes missed a write quorum, that quorum would lie in failure domains that are not complete, and too few of
those are left in some scope) and `FMajorityAlwaysReached` (`FMajorityReached`: if the checker says no, the
domains that are not complete make a write quorum that the matching nodes miss).

`ReplicatedLoglet` (`ReplicatedLogletProofs`), for every set of nodes, family of quorums, number of finders, offsets and waves, with
and without `SequencerMaySeal` and, except for the last theorem, `TailLostOnRestart`:

- `TypeCorrect`: `Spec => []TypeOK`, inductive as it stands. It has
  content where offsets meet their bounds: the soft limit in `EnqueueBatch`, tails that are
  the successor of an offset.
- `TailsCommitted`: `Spec => []KnownTailsCommitted`. The property
  speaks of tails, but a tail moves because of evidence: an Ok reply, a checker entry, a
  local tail a finder has heard, a copy a digest lists. `TailInv` adds what each piece
  of evidence is worth (`ServersHold`, `RepliesHold`, `AppendersHold`, `FindersHold`, `CopiesHold`),
  in terms of two operators that are monotone in the stored records: `QuorumBelow` and
  `HeldBelow` (a node has every record below t, or a write quorum has it). The second
  is the heart of the argument: an Ok for offset o need not mean that the server holds o,
  only that it holds it or that o is already durable; so a quorum of Ok answers makes o durable.
- `GateKeepsStoresInBounds`: `Spec => []StoresInBounds`. `GateInv`
  adds that what the sequencer watches, or hears in a reply, never runs ahead of a server's
  local tail, and bounds a store without the server's known global tail, which a restart may lower.
- `RepairsAlwaysFindRecords` and `DirectAnswersAreCurrent`:
  `Spec => []RepairFindsRecords` and the action property `Spec => DirectAnswerIsCurrent`. `FinderInv` says of
  every finder that a write quorum had reached the tails reported when its call began and that a node of it,
  if it was heard, has said so (`FloorHeld`); that comes from `TailInv`, because the nodes that hold the last record below a
  durable tail have reached it. An f-majority of answers meets that quorum. The theorem needs no memory of known global tails,
  so it holds with servers that lose them, which the run does not enumerate.
- `SealedTailsCoverAcks`: `~TailLostOnRestart => (Spec => []SealedTailCoversAcks)`.
  The hypothesis is what the run `loglet_restart` shows to be necessary. `SealInv` follows each promise (an Ok that
  an appender has or may still get): whoever asks the node hears of a tail above it, and whoever took the node
  for sealed has heard it (`Seen`). A reported tail is a cover (`Covers`): a sealed f-majority has promised
  nothing from there on, and sealed nodes make no new promises. A repair carries the cover from the tails with which it
  started, and the sequencer's own seal is a cover because its drain leaves no appender to promise anything to.

`LogletWorker` (`LogletWorkerProofs`), for every number of offsets, length of the channel and kind of query:
`WorkerTypeCorrect` (`TypeOK`), `AckedStoresAlwaysSurvive` (`AckedStoresSurvive`), `TailWithoutHoles` (`NoHoles`),
`SealAnswersAreFinal` (`SealIsFinal`) and the refinement `WorkerImplementsLogServer` (`ImplementsLogServer`). The
properties speak of the disk and of answers, but what is promised depends on commands that are still in
the channel to the writer. `WorkerInv` therefore says what each command may still do (`CommandsOK`), that the staging
tail is reached once the channel is empty (`StagingCovered`), that every store that is waiting is behind a
command that covers it (`QueueCovered`), and that nothing follows a seal that could break its answer
(`SealOrdered`, `SealKnown`); and that tails on disk and in memory are known to be committed (`TailsKnown`,
`TailExact`). The refinement maps the records ever written to `stored`; each request, commit and recovery is a
step of `LogServer` or a stutter.

`LogChain` (`LogChainProofs`), for every number of processes, calls, versions, LSNs and commands in a batch:
`TypeCorrect` (`TypeOK`), `AckedRecordsAlwaysReadable` (`AckedRecordsReadable`), `SealedAnswersAlwaysSeparate`
(`SealedAnswersSeparate`) and `VersionsAlwaysAgree` (`VersionsAgree`), from the invariant `ChainInv`
(`TimelineAlways`). Processes act on old versions of the chain, on cached wrappers, and on commands decided long
ago. `ChainInv` says that there is one timeline of base LSNs on which all of these lie: a version is a stretch
of it that a later one extends (`VersionsFit`), a segment ends at or after the lowest sealed tail that was reported of it
(`EndsCover`), a wrapper starts where its segment does (`CachesFit`, `TasksFit`), and a command whose segment is
still open carries the LSN of a sealed tail (`CommandsFit`). A compare-and-swap that succeeds adds at most one point
per command; `BatchKeeps` carries the argument over a batch of any length.

`ReadStream` (`ReadStreamProofs`), for every number of segments and LSNs and every trim point: `ReaderTypeCorrect`
(`TypeOK`), `NothingSkippedAlways` (`NothingSkipped`) and `ReadsTheLogAlways` (`OpenTailsBounded /\ Spec =>
[]ReadsTheLog`), from `ReadInv` (`ReadInvAlways`). The timeline is the same, with segments that end between the lowest
tail reported and the highest one a repair may reach (`EndsFit`), and the substream on it with its end, if it knows one
(`SubstreamFits`). The premise is used for one step only, a record read from a substream whose end is not known
(`SafeTailFits`): nothing is skipped even without it.

`PartitionLeadership` (`PartitionLeadershipProofs`), for every number of processors, epochs, proposals, batch size,
repeated appends and crashes: `LeadershipTypeCorrect` (`TypeOK`), `ReplicasAlwaysAgree` (`ReplicasAgree`),
`LeadersAreCurrent` (`LeaderIsCurrent`), `ImpossibleRecordsNeverRead` (`NoImpossibleRecord`),
`ActuatorsAlwaysKnowAll` (`ActuatorsKnowAll`) and `ReignsAlwaysInOrder` (`ReignsInOrder`). `LeadershipInv` has three
layers. Epochs: one that is claimed is obtained once and used once, by one processor (`TokensOK`, `EpochsOK`).
The log: a proposal is preceded by the earlier ones of its epoch, and a self proposer's next number bounds all of
its epoch (`PredecessorsFirst`, `ProposersOK`). Replicas: what is applied is exactly the records of the prefix that no
earlier record makes a duplicate (`ReplicasOK`), so it is a function of the prefix; an announcement that is not a
duplicate has a higher epoch than everything applied, any other proposal has the epoch of the last announcement,
because its predecessors came first. A leader has read its announcement and every barrier of its epoch (`RolesOK`), and the
actions of its open batch are what its actuators are still to be told (`ActionsOK`).

`Shuffle` (`ShuffleProofs`), for every number of nodes, targets, messages, epochs, faults, length of batches and
capacity of the hint channel: `ShuffleTypes` (`TypeOK`), `CutsOffOnlyDelivered` (`TruncatedAreDelivered`) and the
refinement `ShuffleRefinesChannels` (`DeliversLikeChannels`), from `ShuffleInv` (`ShuffleInvariant`). A target
drops what is not above the last number it has, so a message that arrives before an earlier one for the same target would
lose the latter for good. `ShuffleInv` says why that does not happen: in every queue, batch and request, of any
attempt and of any node that ever led, a message comes only after the earlier ones for its target, or these have
been applied (`Follows`). For that a scan may leave a message behind only if it is applied or held by a session of the same
node (`ScanOK`), and the outbox may lose it only when it is applied (`OutboxOK`, `LogIs`). The refinement maps
`Produce` to a send; the append of a record that is no duplicate to a receive, because by `Follows` it is the next
one in the channel; and everything else to a stutter.

`Replay` and `Destined` in `Shuffle`, and a batch in `LogChain`, are recursive functions, not folds: the proofs show
first, with the least number at which it would fail, that the function exists, and then reason about its single steps.

Only model-checked: liveness (`SealIsObserved`, `SealsAreAnswered`, `CampaignsEnd`, `ManagerFindsOut`,
`OutboxDrains`, `EveryRecordIsRead`), which needs fairness and ENABLED and is out of the prover's reach; and the two
violations.

## 6. Not modelled

Of the log: creation of logs, permanent seals and forced tails of the chain; connections, permits and
leader redirects of the remote sequencer; gray lists and the choice of spreads (any spread
the selector may return is a member of the constant `Spreads`); the local and in-memory
loglets; filters, bounded read streams, read-ahead and the record cache.

Of the processors: what commands do to invocations, journals, state, promises and timers (the
state machine); the tasks of a leader other than the shuffle; RPCs; trim gaps, snapshots and durable LSNs; version
barriers that a binary refuses; the start-up sequence of the manager.

The map covers a few percent of the repository's lines, and most of the rest is not protocol: RocksDB tables
and object stores, protobuf and journal encodings, identifiers and configuration types, HTTP and
Kafka ingress, the SQL engine, the admin API, the CLI and test tooling. These are conversions and I/O without the
concurrency that a model checker reaches. The raft library behind the metadata
server is external; the log chain and the leader epochs use it as a compare-and-swap register.

## 7. Plan

1. Durability tracker and trim queue: the log is never trimmed above what is durable; with it trim
   gaps and snapshots in `PartitionLeadership`.
2. Invoker state machine (attempts, retries, aborts, stale notifications), then vqueues and the limiter.
3. Partition processor manager's life cycle and cluster-controller scheduler on versioned metadata.
