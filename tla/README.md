# Lithosphere: specifications and proofs

Lithosphere indexes two chains, Ethereum (L1) and Mantle (L2), into a PostgreSQL
database, derives bridge transactions from the contract events, follows the
status of withdrawals, state roots and Mantle DA data stores, and serves the
result over an HTTP API. This directory holds TLA+ models of the parts where
several goroutines, two chains and a database have to agree, the TLC runs that
check them, and TLAPS proofs of the theorems that matter most.

All paths below are relative to `src/`.

## 1. The system

### Components

| component | state | operations | behaviour that is hard |
|---|---|---|---|
| Batch producer: `Synchronizer` (`synchronizer/synchronizer.go`) with `HeaderTraversal` (`synchronizer/node/header_traversal.go`) and the RPC client (`synchronizer/node/client.go`), once per chain | the batch not handed over (`headers`), the last traversed header, the latest header | `Start`, `tick`, `processBatch`, `NextHeaders`, `Close` | the chain changes between the RPC calls of one tick; replies are cut off or fail; a batch is kept and retried; the send blocks |
| Batch handlers: `L1Sync`, `L2Sync` (`synchronizer/l1_sync.go`, `l2_sync.go`) | the batch in hand, the attempt of `retry.Do`, the resource context | `Start`, `handleBatch`, `Close` | commit without acknowledgement, ten quick attempts, an error that ends the goroutine, a panic, a crash, the order of closing |
| Tables of headers and contract events (`database/common/blocks.go`, `database/event/contract_events.go`, `database/db.go`) | rows | insert, newest row, filtered queries, `Transaction` | headers and events of a batch must come and go together |
| `EventProcessor` (`event/processors/event.go`) with the bridge, state-root and DA processors | seven in-memory watermarks | two goroutines on 5 s tickers: four L1 streams, three L2 streams | watermark in memory against watermark in the tables after a restart; streams that depend on rows of other streams; legacy and bedrock ranges |
| Bridge tables (`database/business/l1_to_l2.go`, `l2_to_l1.go`, `database/event/withdraw_*.go`, `relay_message.go`) | one row per deposit or withdrawal, one per proven/finalized/relayed event | insert, update by hash, mark proven/finalized | rows updated from two goroutines and two processors in no fixed order |
| Bridge scans (`event/processors/bridge/l1_bridge_processor.go`, `l2_bridge_processor.go`, `legacy_bridge_processor.go`, `event/processors/contracts`) | the rows of one transaction | store a row per portal or message passer log, save what messages and bridge logs say, split at the bedrock height | logs are matched by position, by distance in the block and by transaction; the legacy processors cannot store a transfer |
| `BusinessProcessor` (`business/run.go`) | start id of the DA stores | tickers: deposits, withdrawals, challenge periods, roll-up | status derived from whatever events have been processed so far; time left in the challenge period; updates outside the transaction |
| Mantle DA retrieval (`business/mantle_da`, `synchronizer/mantle-da`) | none beyond the tables | list confirmed data stores, retrieve their frames | a failed retrieval is not asked for again |
| Account check (`business/run.go`, `database/exporter/checkpoint.go`) | `bridge_checkpoints` | a pass over the configured tokens every six hours | balances of the newest headers against rows that lag behind; dropped errors; a pass that ends half-way |
| Application (`lithosphere.go`, `common/cliapp/lifecycle.go`, `common/tasks`) | the services, the cancel functions | start in order, request shutdown, stop in order | goroutines that never end keep `Stop` from returning |
| HTTP API (`api`) with its cache (`cache/cache.go`) | LRU caches with an expiry | one handler per request: look up, query, add, answer | handlers that overtake each other; empty answers and errors in the cache; a cache that panics |
| Exporter (`exporter/exporter.go`), a program of its own | windows, totals, the sequencer's health behind a mutex | a loop per metric | tables that grow between the two queries of a window; an unlock that is left out |
| Metrics, configuration, commands | - | gauges, flags | no state that anything depends on |

### How they interact

The producer of a chain hands batches to the handler of that chain over an
unbuffered channel; the handler writes headers, events (and L2 transactions) in
one database transaction. From there on everything communicates through the
database: the event processor reads headers and events above its watermark and
writes bridge rows; the business processor reads proven, finalized and relayed
rows and updates the status of bridge rows. A restart loses every in-memory
watermark and rebuilds it from the newest rows. A critical failure is supposed
to reach the application through `shutdown`, which then closes the services in
the order they were started.

### What makes each component correct

- **Synchronizers.** The header table is the kept part of a prefix of the final
  chain: no gap, no removed block, no row that changes. The events of a stored
  block are there exactly once. Every final block gets there; `Close` returns.
- **Event processor.** Every event up to the watermark of its stream is stored
  once, although watermarks are in memory only and are rebuilt from rows.
- **Withdrawals.** No proof or finalization is lost between its own table and
  `l2_to_l1`; the status agrees with hashes and time left of the same row,
  whatever order the three writers and five streams take.
- **Deposits.** A claimed row names a relay that happened; every relay of a known
  deposit is taken up.
- **Data stores.** The start id moves past a data store only after asking for it;
  none is stored by two different ticks.
- **State roots.** The status never gets ahead of L1 and is never taken back.
- **Bridge scans.** The table holds the rows of whole blocks; what a row knows of a
  message or a token comes from its own transaction; a bridge log finds its entry
  and message, so that the stream goes on.
- **Account check.** A sound bridge is found aligned, a loss is noticed, and every
  token has a checkpoint after the first pass.
- **API.** An answer is a row that is or was there; what is out of date goes away.
- **Exporter.** Deposits and claims are counted once; a stalled sequencer is reported.
- **Start and stop.** Nothing runs on closed clients or a closed database; a
  failure of a service leads to the stop, and the stop to the end.

## 2. Modules

```
BigInt   Provider            pure range arithmetic; the chain behind an RPC node
    \     /
  Synchronizer -----INSTANCE----> IndexedChain     abstract specification
    /     \
 L1Sync   L2Sync             the two handlers; MCL1Sync, MCL2Sync for TLC

 Withdrawals   Deposits   DataStores   StateRoots   event processor and business
                                                    processor around their tables
 Withdrawals, Deposits --INSTANCE--> EventStream      abstract specification
 BridgeLogs                  the inside of the scans of deposits and withdrawals
 BridgeCheck                 the account check; MCBridgeLogs, MCBridgeCheck for TLC
 StateRoots --INSTANCE--> StatusTable <--EXTENDS-- Api     the table, and who reads it
 Exporter                    totals and health          MCApi for TLC
 Lifecycle                   start and stop of the process; MCLifecycle for TLC

 SynchronizerProofs          of L1Sync and L2Sync
 WithdrawalsProofs  DepositsProofs  DataStoresProofs
 BridgeLogsProofs   BridgeCheckProofs
 StatusTableProofs           of StateRoots, which implements the table, and of Api
 ProcessProofs               of Lifecycle and Exporter
```

`Synchronizer` composes `Provider`, the producer, the unbuffered channel, the
handler's retried transaction and the process; `L1Sync` and `L2Sync` complete it
with a handler each. The modules of the second row compose one or more streams
of the event processor with the ticker of the business processor that reads
their rows; what they take from the synchronizers is `IndexedChain`: header and
event rows of ever longer prefixes of the final chain. `StatusTable` is what the
readers of a table with a status rely on: `StateRoots` implements it, and `Api`
is built on it, so that what is checked of the answers holds of the table that
the business processor writes. `EventStream` is what a stream of the event
processor promises: rows come together with the watermark that passes them, one
for each event, and a watermark that falls back falls over blocks without
events. The streams of deposits, state roots, proofs and finalizations implement
it. The streams of relays and of Mantle DA events do not: relays are stored again
and again, and a restart can pass a DA event over (`NothingSkipped` below); what
holds of them are `RelayNotSkipped` and `PassedWasAsked`.

Definitions whose comment starts with "Mutant of" change one definition the way
a plausible bug would. Nothing uses them; they are there to show that each
property notices such a bug.

### Synchronizer, L1Sync, L2Sync

| module | code |
|---|---|
| `worker`, `last`, `endHeight`, `headers`, `logs` | the producer goroutine: its place in `tick`, `HeaderTraversal.lastTraversedHeader`, the range in progress, `Synchronizer.headers`, the logs of `processBatch` |
| `cons`, `batch`, `attempt` | the handler goroutine and `retry.Do` |
| `store`, `events` | the header table, and how often a block's events are in the event table |
| `life` | up, `Close` called, channel closed, down |
| `RetryBatch`, `NextHeaders`, `BlockHeadersByRange`, `FilterToBlock`, `FilterLogs`, `SendBatch` | one tick, cut at each RPC call, since the chain can change in between |
| `L1HandleBatch`, `L2HandleBatch` | `handleBatch` up to the transaction |
| `PersistCommit`, `PersistFail`, `PersistAckLost`, `PersistAbort` | an attempt: committed, rolled back, committed with the acknowledgement lost, not begun because the context is cancelled |
| `Start`, `StopSignal`, `ExitLoop`, `CloseChannel`, `DrainedChannel`, `Stopped`, `Crash` | `NewL1Sync` and `Start`, `Close` step by step, a kill |

A block is a height, the number of the fork it belongs to and a payload: quiet
or logging on L1; empty, plain, logging or contract-creating on L2. Integers of
`BigInt` are modulo `WordSize`, since `Clamp` computes in a 64-bit word. L2's
handler fetches blocks, transactions and receipts outside the retry, so an error
there ends it; an insert of transactions names columns that the table does not
have and is refused.

### Withdrawals

The rows are those of version 1. The older version is left out because the
schema refuses its rows: the legacy insert sets no `l2_block_number`. `pos`
holds the watermarks of the L1 streams, `copies` how many rows an event has,
`related` the marked events, `row` the table `l2_to_l1`. One L1 block has at
most one of the events modelled, and a scan may end at any block above the
watermark. The stream of state roots shares its goroutine with deposits, the
others share `onL2Data`, one after another; the stream of finalizations is in
two steps (`FinalizedBegin`, `FinalizedCommit`) because it reads rows and saves
them whole at its commit (`UpdateWithdrawFinalizedInfo`), with the ticker
in between. Each statement of the business processor is a step, since the
statements inside its `db.Transaction` go through `bp.db` and commit one by one.
`Restart` is a kill: an orderly stop does not come to its end. Commits are
acknowledged; see *Not modelled*. `ImplementsStreams` takes the three L1 streams
one by one: the events of a kind are their places in `l1Log`, their rows `copies`.

### Deposits

Bridge deposits only. All deposits of one L1 block are taken to be in one
transaction, the case in which their messages can be saved over each other
(`Landing`). Take and Save of one row are one step, because the ticker is the
only writer of rows that are committed. The watermark of the relays becomes nil
when a scan finds nothing, and is nil after each restart, for it is read from a
column that no claim sets: relays are stored again and again, `copies` counts
them. `ImplementsStream` is about the deposits: their blocks, the L1 head and
watermark, and `inserts`. `MaxIdle` bounds the scans that find nothing.

### DataStores

The list of events is read through a package-global handle that every transaction
of any goroutine replaces; so `List` may see the rows of the open transaction of
the stream, or fail because that transaction is over. The rows are ordered by
the second they were made in, so any of them can be last (`LatestListed`).
`Retrieve` is the whole of `DataFromMantleDa` and the inserts; the retriever need
not answer, and then it does not happen. When the query for the newest id fails,
the tick goes on from where the last one left off, in a transaction that can no
longer commit (`ListUnasked`, "doomed"). After a restart
the watermark is the reference block of a data store if that block has a row in
the header table, which only blocks with logs have, and nil otherwise. A data store can be
retrieved while its event is a row of a scan that never commits; a restart then
takes its reference block as the watermark, and what is confirmed up to there
stays unrecorded until the watermark moves back. The history variable `skipped`
remembers such ids; they are exempt from `PassedWasAsked`.

### StateRoots

The second half of the same ticker. The first half succeeds or fails as a whole
(`SyncMantleDaData`, `EndTick`), or waits for a retriever that never answers
(`RetrieverSilent`, "hung"). New rows come between any two of the steps.

`ImplementsStatusTable` maps a row to its status.

### BridgeLogs

A block is a sequence of transfers, each of a kind and of a transaction; `Emitted`
lists the logs of a transfer, `Logs` those of a block. `side` says which of the
two scans runs: they differ in distances and legacy ranges. `draft` is the table
as the open transaction sees it; `StoreRows`, `SaveMessages` and `SaveBridges`
are the three parts of a scan. Rows are found by transaction hash alone, so
any row of the transaction can be the one (`Landings`). A legacy range ends at
its first transfer: with a panic on L1 (`LegacyPanics`, followed by a restart),
with a refused insert on L2 (`LegacyRefused`).

### BridgeCheck

`pass` is a pass in progress: the token it has come to, the checkpoints that were
read when it began, the heights of the token. `ReadHeads` and `Compare` are one
token; `StartBlind` and `CompareUnread` are passes and comparisons whose
database errors are dropped, `Fail` is an error that ends the pass. Balance and
supply are what the two chains hold at the heights read. A transfer moves one
unit, and its row is written and completed some time after; `Lose` takes a unit
from the bridge.

The rows are no better than the code makes them. A relay is recorded without the
hash of its message and without its block (`business/run.go:264-267`):
`RecordRelay` marks any row of `l1_to_l2`, and `l2_block_number` stays unset. So
`Relayed`, which asks for that block, never has rows, and a deposit made before a
checkpoint and relayed after it is found misaligned (`RelayedIsAligned` below).
`RecordProof` and `RecordClaim` share the column `l1_block_number` of `l2_to_l1`,
and the one that comes last stays. `SoundIsAligned` is claimed where no deposit is
half way between the heights (`DepositsSettled`) and a proof in place of a claim
is on the same side of the checkpoint (`WithdrawalsKnown`).

### Api, StatusTable

A handler is idle, about to query or about to add what it got. A cache entry is
whatever was added: null and the zero record of a failed query are entries too,
though nil does not count as a hit. `answer` is the last answer, with a flag that
says whether null was told to somebody who asked when the row was already there.

### Exporter

`from` and `to` are the windows of the two totals, by timestamp for deposits and by
L1 block for claims. `RecordProof` and `RecordClaim` write `l1_block_number` of a
withdrawal in either order. `upset` remembers loops whose newest row could not
be read or was set back. `lock` is the health mutex, "held" once an answer that
is not a number skipped the unlock (exporter.go:212).

### Lifecycle

`main` is where `lifecycleCmd` is; `made`, `started`, `stopped` count the parts
in the order of `initFromConfig`, `Start` and `Stop`. `tasks` counts goroutines
of a service. A handler of a synchronizer can return an error or panic while
its producer waits for it (`stuck`). A processor is only passed in `Stop` when
all its goroutines panicked, for they range over tickers. A blocker that took a
signal leaves its channel registered, so the next signals are dropped.

## 3. What is checked

| run | instance | shows |
|---|---|---|
| `l1_sync` | 5 heights, 1 reorganisation of depth 1, confirmation depth 1, buffer 2, 2 attempts, 1 crash or stop; 62 890 states | the table is a prefix of the final chain, events exactly once, refinement of `IndexedChain`, final blocks are indexed, `Close` returns |
| `l2_sync` | 6 heights, start height 1, the same otherwise; 2 327 473 states | refinement of `IndexedChain` by L2, of which the rest follows (and is proved) |
| `withdrawals` | 1 withdrawal, up to 2 proofs, 4 events, 1 fault; 389 270 states | refinement of `EventStream` by three streams, marked only when recorded, status matches the row, finalization recorded in the end |
| `deposits` | 2 deposits, 2 blocks on each chain, scans of 1 block, 1 idle scan, 1 fault; 1 174 282 states | refinement of `EventStream` by the stream of deposits, no relay skipped, claims traced, relays noticed |
| `bridge_logs` | chains of 3 blocks out of 3 kinds with 2 transfers each and 2 old ones, bedrock at 2, scans of 2 blocks, 1 error, both sides; 17 410 states | rows of whole blocks, messages and tokens in rows of their transaction, the stream catches up |
| `data_stores` | ids 1 to 3, 3 blocks, scans of 2 blocks, start id 1, range 3, 1 fault; 264 203 states | nothing passed without being asked for, no second retrieval, everything in range asked for unless a retrieval never ends |
| `state_roots` | 2 roots, 3 blocks; 7 632 states | status below L1, refinement of `StatusTable`, finalized in the end unless a retrieval never ends |
| `bridge_check` | 2 tokens, 3 blocks, 2 transfers or a transfer and a loss, 3 checkpoints, 1 error; 2 125 805 states | sound is aligned, a loss is noticed, the first pass completes |
| `api` | 2 handlers, 2 rows, 2 statuses, requests for a record and the list of roots; 31 150 states | answers are true, null only where nothing was, the last status and the list come in the end |
| `exporter` | 1 withdrawal, 3 blocks, deposits of 3 in words of 4, 2 heights, 1 fault; 446 598 states | everything counted once, deposits caught up, a stall reported |
| `lifecycle` | 2 and 1 goroutines, 2 signals; 2 518 states | nothing used after it is closed, failed set-up ends, a panic reaches the stop |
| `dep_claimed` | violation | `ClaimedWasRelayed`: a deposit is claimed with a relay that is neither its own nor that of the message in its row |

The invariants of types of the other modules (`ApiTypeOK`, `DepTypeOK`,
`RootTypeOK`, `LifeTypeOK`, and L2's `SyncTypeOK` and `StoreIsPrefix`) hold in
these instances as well and are proved. `LogsTypeOK` and
`ExpTypeOK` are conjuncts of `WholeBlocks` and `CountedOnce`.

### Counterexamples

These properties say what a comment, a document or plain intention says, and do
not hold of the code. Each has a configuration beside the runs:

| configuration | module | property | what happens |
|---|---|---|---|
| `L1DefaultDepth.cfg` | MCL1Sync | `StoredStaysOnChain` | with the default confirmation depth 0 a stored block leaves the chain and is never replaced |
| `L1DeadHandler.cfg` | MCL1Sync | `FailureStops` | after its last attempt the handler returns an error and nobody hears; the service stays up and indexes nothing more |
| `L2PanicStop.cfg` | MCL2Sync | `PanicStops` | the stop asked for by the panic waits for a producer that waits for the panicked handler |
| `L2Transactions.cfg` | MCL2Sync | `BatchStorable` | a batch with a transaction is refused by the schema every time |
| `WdChallenge.cfg` | Withdrawals | `ChallengeBeforeClaim` | a proof processed before the state root makes the withdrawal ready for claim at once |
| `LogsLegacy.cfg` | MCBridgeLogs | `EveryBlockScanned` | a transfer below the bedrock height is never passed |
| `LogsOwnHash.cfg` | MCBridgeLogs | `OwnExtension` | two messages in a block can be hashed with each other's extension |
| `DaStartId.cfg` | DataStores | `ConfiguredStartAsked` | a tick that finds no event sets the start id to 0 |
| `DaCaptured.cfg` | DataStores | `AllCaptured` | a data store whose retrieval timed out is passed for good |
| `CheckWaiting.cfg` | MCBridgeCheck | `WaitingIsAligned` | a deposit waiting for its relay counts with the wrong sign |
| `CheckTokens.cfg` | MCBridgeCheck | `EveryTokenChecked` | after a first pass that was interrupted the other tokens are never checked |
| `CheckBlind.cfg` | MCBridgeCheck | `LossNotAccepted` | a pass whose query for checkpoints failed takes a loss for the starting point |
| `ApiRoots.cfg` | MCApi | `RootsAnswered` | the second request for the list of roots panics in the cache |
| `ExpClaims.cfg` | Exporter | `ClaimsCounted` | a claim that is recorded after a later block was read is never counted |
| `LifeStop.cfg` | MCLifecycle | `StopCompletes` | `Stop` never gets past the bridge processor |

Seven more fail in the instance of the passing run when they are put there as
INVARIANT or PROPERTY: `ProcessedShowsClaimed` (Withdrawals: a proof processed after the
finalization sets the status back), `NothingSkipped` (DataStores: a restart skips an event for good or
until the watermark moves back), `AskedWhenSilent` (DataStores: a retriever that is
silent holds the tick for good), `RelayedIsAligned` (BridgeCheck: the query for
deposits relayed since the checkpoint has no rows), `NotCountedAgain` (Exporter: after one query for
the newest row that failed all deposits are counted again), `TotalIsExact`
(sums are taken in a word) and `HealthAnswered` (the mutex stays locked).

### Bounds, and why they are enough

- *Synchronizers.* One reorganisation, of the depth that the confirmation depth
  just covers, can fall between any two RPC calls of any batch; buffer 2 makes
  batches of one and two headers, cut-off replies and retried batches; heights
  suffice for two full batches and a tail. Two attempts are one retry and the
  giving up. The word of 16 values is longer than the heights, as 2^64 is.
- *Withdrawals.* One withdrawal with two proofs, root and finalization is the
  longest history a row can have; two withdrawals share lists and saves. The
  fault can be an error or a kill at any point. The safety properties are also
  proved for all bounds.
- *Deposits.* Two deposits in one transaction overwrite each other's message, in
  two they do not; two relays of one message come from one idle scan or one
  restart.
- *Data stores.* Three ids in any order, with gaps, below and above the start id,
  in and out of the range of 3.
- *Bridge scans.* Two transfers in a block, of one transaction and of two, give
  every confusion of neighbours; three blocks with scans of two give a scan
  below, across and above the bedrock height.
- *Account check.* Three checkpoints with two tokens are a first pass, a second one
  and one that is interrupted; a transfer and a loss can cancel each other, and two
  transfers are a withdrawal under way and one that is claimed.
- *API.* Two handlers can overtake each other between query and add; an entry can
  expire at any moment. With the requests for a record and the rows of its id
  (`MCBlocks` for `MCRoots`) the same holds in 36 808 states; the product of
  all three is too large for the temporal properties, so the run says
  nothing of the block part of `AnsweredAtLast`.
- *Exporter.* Three blocks are two windows and what comes late; two deposits of 3
  exceed the word of 4.
- *State roots, lifecycle.* Two rows and three blocks give every order of reads
  and updates; two signals are one to stop and one more.

### Fairness

A goroutine that can take a step takes it (weak fairness): they all run on
tickers and nothing stops them. A reply of an RPC that is asked for again and
again comes some time, and so does the case of a `select` that is ready again
and again (strong fairness: `BlockHeadersByRange`, `FilterToBlock`,
`FilterLogs`, `ExitLoop`, and the steps of the state-root tick). Chains,
signals, errors, restarts and the countdown of the challenge are never forced.
Transfers, deposits and blocks are not forced either; the scans of the bridge,
the account check and the loops of the exporter come again by their tickers, and
of the API it is assumed that entries expire, that clients ask again, and that a
query made again and again succeeds at last.
A retrieval of data stores is not forced to end, for neither the query to the
retriever nor the call for the frames has a deadline, and the polling timer is
looked at between two queries only (`business/mantle_da/datastore.go:61-129`):
`RecordedIsAsked` and `FinalizedAtLast` except a tick that hangs for good. The
calls to L1 have deadlines.
Faults are bounded, so that liveness is claimed for runs in which they cease.
`CHECK_DEADLOCK FALSE` stands where the system may really stop: a synchronizer
with a dead handler, a process that has ended or hangs in its stop, chains and
checkpoints at their bounds with nothing left to scan or check. In the
other modules there is always a next step: a fair ticker or an idle one.

## 4. What is proved

TLAPS checks the following for all values of the constants, from the named
assumptions in the modules (`WordAssumption`, `ProviderAssumption`,
`SyncAssumption`, `L2Assumption`, `WithdrawalsAssumption`, `DepositsAssumption`,
`DataStoresAssumption`, `StateRootsAssumption`, `StatusTableAssumption`,
`ApiAssumption`, `BridgeLogsAssumption`, `BridgeCheckAssumption`,
`LifecycleAssumption`, `ExporterAssumption`), which the runs evaluate. What tells
the two synchronizers apart, the blocks that their handlers keep, is a hypothesis
of their theorems: `L1Keeps` and `L2Keeps`, evaluated by MCL1Sync and MCL2Sync.

- **SynchronizerProofs.** `ClampBounds`: the range that `Clamp` cuts off is not empty
  and respects limit and size, for every word size with room for twice the size.
  Types of both synchronizers hold without further conditions. Under `ReorgDepth
  <= ConfDepth` the
  invariant `SyncTypeOK /\ ChainInv /\ ProducerInv /\ PlaceInv /\
  EventsExactlyOnce` is inductive: the final part of the chain is never
  replaced (`ChainInv`), what the producer holds continues the table where the
  handler's batch ends (`ProducerInv`, `PlaceInv`). `StoreIsPrefix` alone is not
  inductive, for it says nothing of headers traversed but not stored. From it
  follow `StoreIsPrefix`, `EventsExactlyOnce` (L1) and the refinement of
  `IndexedChain`: the initial state maps to its initial state, each step to a
  step or a stutter.
- **WithdrawalsProofs.** `WdInv` = types, `FinalOnce`, `TickInv`,
  `StatusMatchesRow`, `RelatedMeansRecorded`. Even the types are not inductive
  by themselves: the row a loop takes exists because the lookup found it, which
  `TickInv` keeps. `StoreInv` adds what is in the tables up to each watermark
  and gives `StoredOnce`, over any number of restarts, and with it
  `ImplementsStreams`: a step grows a stream, scans it or takes its watermark back
  (`StreamGrows`, `StreamScans`, `StreamFalls`). That a restart stores nothing
  again needs `StoreInv` before the step: the newest row is the last event that
  the watermark has passed, so there is no event between it and the watermark.
- **DepositsProofs.** `DepInv` = types, `StreamInv` (the rows are exactly those of
  the deposits up to the watermark, inserted once each), `LoopInv` (a message a
  loop has to come to is stored; in the loops of the claims and the marks its
  deposit was found), `RelayNotSkipped`, `ClaimTraced`. `ClaimTraced` alone is
  not inductive: the row that a claim writes says nothing of the relay, only the
  lookup before it does. `DepositsStoredOnce` follows from `StreamInv`, which a
  restart keeps because no row is above the watermark rebuilt from the rows, and
  so does `ImplementsStream` (`StreamSteps`).
- **DataStoresProofs.** `DaInv` = types, `Confirmed`, `InOrder`, `AskedFirst`,
  `NoneLeftOut`. `PassedWasAsked` is not inductive: it says nothing of what is
  listed but not yet stored, nor of the order in which events were recorded. A
  data store i that is due (above the configured start, not confirmed late, not
  skipped) is on the chain before every larger id that is listed; by `InOrder`
  it is recorded, or a row of the same open scan, so it is in the list, unless
  the start id has passed it, and then `NoneLeftOut` says it was asked for.
  `RetrievedInOneTick` follows from `AskedFirst`: a tick that can still store has
  listed nothing that is stored.
- **StatusTableProofs.** Of StateRoots: types carry the argument, since the blocks
  the ticker has read are below those of L1 because L1 never lowers them.
  `StatusBelowHeads` follows, and `ImplementsStatusTable`: a new root is a new
  row, each of the two updates raises the statuses of its rows, every other step
  is a stutter. Of Api: `ApiInv` = types, `CacheInv`, `HandlerInv`, `AnswerInv`.
  `AnswerTrue` says nothing of the answers to come, which are already in the
  cache or with a handler that has queried; the invariant says of them what
  `TrueOf` says of answers, and that what was true stays so, because rows are
  only added and statuses only rise (`TableRises`: all that is used of the
  table). `NullMeansAbsent` follows from the flag of the row that was there.
- **BridgeLogsProofs.** `LogsInv` = types, `TableInv` (the rows are those of the logs
  of the blocks up to the watermark, on both sides of the bedrock height, and
  every transaction that sent a message above it has a row that knows one) and
  `DraftInv` (what the open transaction holds after each of its parts: the
  table, the rows of the range, their messages). Nothing of the range is in the
  table before (`RangeFacts`), every message that is saved lands in a row of its
  transaction whatever saves go over each other (`Landed`, `MessagesLand`), and
  its extension is its own when the block has no other (`Hashed`). After the panic
  of the legacy processor the watermark falls back only over blocks that have
  neither row nor message (`LegacyPanicsInv`). `WholeBlocks`, `MessageOfTx` and
  `TokenOfTx` follow.
- **BridgeCheckProofs.** `CheckInv` = types, `PassInv`, `DiffInv`: the difference in a
  checkpoint is that of the chains at its heights, and goes on to be, since new
  transfers lie above the heads (`PastStays`). `SoundIsAligned` and `LossIsNoticed`
  are then equations between cardinalities of sets of transfers
  (`SoundDifference`, `LossDifference`): deposits that are settled cancel out,
  and what the tables add and subtract makes up for the withdrawals under way. The
  row types carry what is left of the tables when any row can be marked: no row
  has a relay's block, so `Relayed` is empty, and the block of a claimed withdrawal
  is that of the claim or of a proof before it (`ProvedFirst`).
- **ProcessProofs.** Of Lifecycle: `OrderInv`, nothing is stopped before the stop,
  nothing started before all is made, and a service that the stop has passed has
  no goroutine, whether closed or never made. `NoUseAfterClose` follows, since
  clients and database come after the four services in the order of the stop.
  Of Exporter: `ExpInv` = types, `DepositsInv`, `ClaimsInv`. That no withdrawal is
  added twice is not inductive: `ClaimsInv` adds that those added are behind the
  window, and that the block recorded for a claimed one is that of the claim.
  Deposits need sums over sets of rows. `MapThenSumSet` recurses over sets; that
  there is such a function, that every element can be taken last and that sums
  of disjoint sets add up (`AmountUnion`) is shown by well-foundedness of the
  numbers, for sets of numbers and sets of subsets in place of predicates
  (`AllNumbers`, `AllSubsets`). A window then adds what is missing, modulo the
  word (`ModAdd`).

Every invariant and every action property of the runs is proved, and so are all
refinements: of `IndexedChain` by both synchronizers, of `StatusTable` by
StateRoots, of `EventStream` by Deposits and Withdrawals. Only model-checked:
all liveness (fairness is out of the prover's reach), `BatchStorable` (ENABLED),
the violations and the counterexamples.

## 5. Not modelled

- Of the API: answers to bad parameters, the shape of pages, the health route. Of
  the exporter: gauges that are set from one answer and keep no state. Metrics
  and configuration.
- The token list: a copy of an outside answer.
- Legacy processors of finalized transfers: the first one dereferences a nil
  number, so there is no further state. Messages of version 0 after bedrock.
- The client of Mantle DA (`synchronizer/mantle-da`): it keeps no state, and what
  the indexer does with its answers is in DataStores.
- Generated bindings and protocol buffers (`event/op-bindings`,
  `synchronizer/mantle-da/common/interfaces`): most of the
  lines of the repository, and data only.
- Decoding of events, amounts, tokens and addresses: data that no decision
  modelled here depends on.
- A commit of a stream (not of a synchronizer) whose acknowledgement is lost: the
  scan would be repeated and every row stored again under a new key. `EventStream`
  is implemented for acknowledged commits.
- The optional set-up step that recomputes legacy withdrawals
  (`lithosphere.go:180-184`), off by default.

## 6. Plan

Done, in this order: BigInt, Provider, IndexedChain, Synchronizer, L1Sync and
L2Sync with their proofs; Withdrawals and Deposits with their proofs; DataStores;
StateRoots and Lifecycle with their proofs; StatusTable and Api; BridgeLogs;
BridgeCheck; Exporter; the proofs of DataStores, Api, BridgeCheck, BridgeLogs and
Exporter; EventStream, and the proofs that Deposits and Withdrawals implement it.

Next:

1. Streams with lost acknowledgements: rows of one event told apart, and what
   the related flags and the start id make of duplicates. A weaker abstract
   specification, in which rows may be repeated but none left out, would take in
   the relays as well.
2. The composition of a synchronizer with a stream, in which the header table of
   `IndexedChain` is what the watermark of `EventStream` runs over.
