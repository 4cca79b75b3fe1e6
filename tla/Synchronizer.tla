---------------------------- MODULE Synchronizer ----------------------------
(***************************************************************************)
(* What the L1 and the L2 synchronizer share: the batch producer (type      *)
(* Synchronizer with its HeaderTraversal, one goroutine driven by a ticker),*)
(* the unbuffered channel to the batch handler (a second goroutine), the    *)
(* retried database transaction of the handler, and start, stop and crash   *)
(* of the process.  Modules L1Sync and L2Sync add the handlers.             *)
(***************************************************************************)
EXTENDS Provider, BigInt

CONSTANTS
  Logged,            \* payloads with a log of one of the watched contracts
  Kept,              \* payloads whose block the handler stores
  ConfDepth,         \* Config.ConfirmationDepth
  HeaderBufferSize,  \* Config.HeaderBufferSize
  StartHeight,       \* Config.StartHeight; 0 starts from genesis
  MaxAttempts,       \* attempts of retry.Do, 10 in the code
  MaxFaults          \* bound on crashes and stop signals

ASSUME SyncAssumption ==
  /\ Logged \subseteq Kept /\ Kept \subseteq Payloads /\ Genesis \notin Logged
  /\ ConfDepth \in Nat
  /\ StartHeight \in 0..MaxHeight
  /\ MaxAttempts \in Nat \ {0} /\ MaxFaults \in Nat
  /\ HeaderBufferSize \in Nat \ {0} /\ 2 * HeaderBufferSize <= WordSize
  /\ MaxHeight + 1 < WordSize

VARIABLES
  worker,     \* where the producer goroutine is in its tick
  last,       \* number of HeaderTraversal.lastTraversedHeader, -1 for nil
  endHeight,  \* endHeight of the NextHeaders call in progress
  headers,    \* Synchronizer.headers: the batch not handed over yet
  logs,       \* the headers of the batch FilterLogs returned logs for
  cons,       \* where the batch handler goroutine is
  batch,      \* the SynchronizerBatch it handles
  attempt,    \* failed attempts of retry.Do on that batch
  store,      \* table l1_block_headers or l2_block_headers
  events,     \* how often the logs of a block are in table l*_contract_events
  life,       \* the process: up, Close called, channel closed, down
  faults      \* crashes and stop signals so far

producerVars == <<worker, last, endHeight, headers, logs>>
handlerVars  == <<cons, batch, attempt>>
dbVars       == <<store, events>>
lifeVars     == <<life, faults>>
syncVars     == <<chainVars, producerVars, handlerVars, dbVars, lifeVars>>

NoBatch == [headers |-> {}, logs |-> {}]

(* The first height that is ever traversed: the configured start height is
   itself only the header to continue from. *)
First == IF StartHeight > 0 THEN StartHeight + 1 ELSE 0

IsNewest(h, hs) == h \in hs /\ \A g \in hs : g.number <= h.number

Newest(hs) == CHOOSE h \in hs : IsNewest(h, hs)
Oldest(hs) == CHOOSE h \in hs : \A g \in hs : h.number <= g.number

HasLogs(h) == h.payload \in Logged

SyncTypeOK ==
  /\ ProviderTypeOK
  /\ worker \in {"off", "idle", "range", "filter", "logs", "send", "exited"}
  /\ last \in -1..MaxHeight
  /\ endHeight \in 0..MaxHeight
  /\ headers \subseteq Header /\ logs \subseteq Header
  /\ cons \in {"off", "ready", "handle", "persist", "dead", "panicked", "done"}
  /\ batch \in [headers: SUBSET Header, logs: SUBSET Header]
  /\ attempt \in 0..(MaxAttempts - 1)
  /\ store \subseteq Header
  /\ events \in [Hashes -> Nat]
  /\ life \in {"down", "up", "closing", "closed"}
  /\ faults \in 0..MaxFaults

SyncInit ==
  /\ ProviderInit
  /\ worker = "off" /\ last = -1 /\ endHeight = 0 /\ headers = {} /\ logs = {}
  /\ cons = "off" /\ batch = NoBatch /\ attempt = 0
  /\ store = {} /\ events = [k \in Hashes |-> 0]
  /\ life = "down" /\ faults = 0

-----------------------------------------------------------------------------
(* The producer: one tick is a few actions, because the chain can change and
   the process can stop between the RPC calls. *)

(* Mutant of RetryBatch: the batch is dropped instead of retried. *)
RetryBatchDrops ==
  /\ worker = "idle" /\ headers # {}
  /\ headers' = {}
  /\ UNCHANGED <<worker, last, endHeight, logs, chainVars, handlerVars, dbVars, lifeVars>>

(* A tick with a batch that was not handed over retries it. *)
RetryBatch ==
  /\ worker = "idle" /\ headers # {}
  /\ worker' = "filter"
  /\ UNCHANGED <<last, endHeight, headers, logs, chainVars, handlerVars, dbVars, lifeVars>>

(* Mutant of NextHeaders: the latest header counts as confirmed. *)
NextHeadersToTip ==
  /\ worker = "idle" /\ headers = {}
  /\ last < head
  /\ endHeight' = Clamp(last + 1, head, HeaderBufferSize)
  /\ worker' = "range"
  /\ UNCHANGED <<last, headers, logs, chainVars, handlerVars, dbVars, lifeVars>>

(* A tick without one calls NextHeaders: the latest header, then the range of
   confirmed heights after the last traversed one.  The other returns of the
   call (RPC error, no confirmed block, synced, ahead of the provider) leave no
   trace and end the tick. *)
NextHeaders ==
  LET confirmed == head - ConfDepth IN
  /\ worker = "idle" /\ headers = {}
  /\ confirmed >= 0
  /\ last < confirmed
  /\ endHeight' = Clamp(last + 1, confirmed, HeaderBufferSize)
  /\ worker' = "range"
  /\ UNCHANGED <<last, headers, logs, chainVars, handlerVars, dbVars, lifeVars>>

(* Mutant of BlockHeadersByRange: traversal continues after the range that was
   asked for, not after the last header of the reply. *)
BlockHeadersByRangeSkips ==
  /\ worker = "range"
  /\ endHeight' = 0
  /\ \/ \E to \in (last + 1)..endHeight :
          /\ to <= head
          /\ headers' = Segment(last + 1, to)
          /\ last' = endHeight
          /\ worker' = "filter"
     \/ worker' = "idle" /\ UNCHANGED <<headers, last>>
  /\ UNCHANGED <<logs, chainVars, handlerVars, dbVars, lifeVars>>

(* The reply to the range: the headers up to the first height the provider has
   no answer for, or an error.  A reply whose headers do not follow each other
   is refused, so an accepted one is a segment of one chain. *)
BlockHeadersByRange ==
  /\ worker = "range"
  /\ endHeight' = 0
  /\ \/ \E to \in (last + 1)..endHeight :
          /\ to <= head
          /\ headers' = Segment(last + 1, to)
          /\ last' = to
          /\ worker' = "filter"
     \/ /\ worker' = "idle"
        /\ UNCHANGED <<headers, last>>
  /\ UNCHANGED <<logs, chainVars, handlerVars, dbVars, lifeVars>>

(* processBatch, first half of FilterLogs: the header at the end of the range
   must still be the one the batch ends with.  On an error or a mismatch the
   batch is kept for the next tick. *)
FilterToBlock ==
  LET to == Newest(headers) IN
  /\ worker = "filter"
  /\ \/ to.number <= head /\ Hash(chain[to.number]) = Hash(to) /\ worker' = "logs"
     \/ worker' = "idle"
  /\ UNCHANGED <<last, endHeight, headers, logs, chainVars, handlerVars, dbVars, lifeVars>>

(* Second half of FilterLogs: every log returned must be of a header of the
   batch. *)
FilterLogs ==
  LET to    == IF Newest(headers).number <= head THEN Newest(headers).number ELSE head
      found == {h \in Segment(Oldest(headers).number, to) : HasLogs(h)}
  IN
  /\ worker = "logs"
  /\ \/ found \subseteq headers /\ logs' = found /\ worker' = "send"
     \/ logs' = logs /\ worker' = "idle"
  /\ UNCHANGED <<last, endHeight, headers, chainVars, handlerVars, dbVars, lifeVars>>

(* The send on the unbuffered channel: it blocks until the handler receives. *)
SendBatch ==
  /\ worker = "send" /\ cons = "ready"
  /\ batch' = [headers |-> headers, logs |-> logs]
  /\ cons' = "handle"
  /\ headers' = {} /\ logs' = {}
  /\ worker' = "idle"
  /\ UNCHANGED <<last, endHeight, attempt, chainVars, dbVars, lifeVars>>

Produce ==
  \/ RetryBatch \/ NextHeaders \/ BlockHeadersByRange
  \/ FilterToBlock \/ FilterLogs \/ SendBatch

-----------------------------------------------------------------------------
(* The handler's transaction on the rows it has built, under retry.Do. *)

Finished(outcome) == cons' = outcome /\ batch' = NoBatch /\ attempt' = 0

(* retry.Do looks at the resource context before every attempt: once that is
   cancelled no further attempt begins, but one under way still ends. *)
BeginPersist ==
  IF life = "closed" THEN Finished("dead")
  ELSE cons' = "persist" /\ UNCHANGED <<batch, attempt>>

(* Block numbers are unique, and an event's block must be in the table. *)
Conflict(rows) ==
  \/ \E r \in rows, s \in store : r.number = s.number
  \/ ~ (batch.logs \subseteq rows \cup store)

(* Mutant of Insert: rows that are there already are skipped, their events
   are inserted again. *)
InsertOrSkip(rows) ==
  /\ store' = store \cup rows
  /\ events' = [k \in Hashes |-> IF \E l \in batch.logs : Hash(l) = k
                                 THEN events[k] + 1 ELSE events[k]]

Insert(rows) ==
  /\ ~ Conflict(rows)
  /\ store' = store \cup rows
  /\ events' = [k \in Hashes |-> IF \E l \in batch.logs : Hash(l) = k
                                 THEN events[k] + 1 ELSE events[k]]

(* Mutant of RetryOrGiveUp: retries for ever. *)
RetryForEver == attempt' = attempt + 1 /\ UNCHANGED <<cons, batch>>

(* An attempt failed: the next one follows, or the handler returns the error
   and its goroutine ends.  tasks.Group acts on panics only, so nobody hears. *)
RetryOrGiveUp ==
  IF attempt + 1 < MaxAttempts /\ life # "closed"
  THEN attempt' = attempt + 1 /\ UNCHANGED <<cons, batch>>
  ELSE Finished("dead")

PersistCommit(rows) ==
  /\ cons = "persist"
  /\ Insert(rows)
  /\ Finished("ready")
  /\ UNCHANGED <<chainVars, producerVars, lifeVars>>

(* The database refuses the attempt or is not reached: rolled back. *)
PersistFail ==
  /\ cons = "persist"
  /\ RetryOrGiveUp
  /\ UNCHANGED <<chainVars, producerVars, dbVars, lifeVars>>

(* The commit happened, its acknowledgement was lost. *)
PersistAckLost(rows) ==
  /\ cons = "persist"
  /\ Insert(rows)
  /\ RetryOrGiveUp
  /\ UNCHANGED <<chainVars, producerVars, lifeVars>>

(* The resource context is cancelled between two attempts. *)
PersistAbort ==
  /\ cons = "persist" /\ life = "closed"
  /\ Finished("dead")
  /\ UNCHANGED <<chainVars, producerVars, dbVars, lifeVars>>

Persist(rows) ==
  \/ PersistCommit(rows) \/ PersistFail \/ PersistAckLost(rows) \/ PersistAbort

-----------------------------------------------------------------------------
(* Start, stop and crash. *)

Halt ==
  /\ life' = "down"
  /\ worker' = "off" /\ last' = -1 /\ endHeight' = 0 /\ headers' = {} /\ logs' = {}
  /\ Finished("off")
  /\ UNCHANGED <<chainVars, dbVars>>

(* New and Start: traversal continues from the highest stored header, or from
   the configured start header, which the provider must have. *)
Start ==
  /\ life = "down"
  /\ \/ \E h \in store : IsNewest(h, store) /\ last' = h.number
     \/ /\ store = {}
        /\ StartHeight <= head
        /\ last' = IF StartHeight > 0 THEN StartHeight ELSE -1
  /\ worker' = "idle" /\ cons' = "ready" /\ life' = "up"
  /\ UNCHANGED <<endHeight, headers, logs, batch, attempt, faults, chainVars, dbVars>>

(* Close: the loop's context is cancelled and its goroutine waited for. *)
Close ==
  /\ life = "up"
  /\ life' = "closing"
  /\ UNCHANGED <<chainVars, producerVars, handlerVars, dbVars>>

StopSignal ==
  /\ faults < MaxFaults
  /\ faults' = faults + 1
  /\ Close

(* Between two ticks the loop may notice the cancelled context. *)
ExitLoop ==
  /\ life = "closing" /\ worker = "idle"
  /\ worker' = "exited"
  /\ UNCHANGED <<last, endHeight, headers, logs, chainVars, handlerVars, dbVars, lifeVars>>

(* Mutant of CloseChannel: the handler is waited for first. *)
CloseChannelLate ==
  /\ life = "closing" /\ worker = "exited" /\ cons = "done"
  /\ life' = "closed"
  /\ UNCHANGED <<faults, chainVars, producerVars, handlerVars, dbVars>>

(* The loop is gone: the channel is closed and the resources are cancelled. *)
CloseChannel ==
  /\ life = "closing" /\ worker = "exited"
  /\ life' = "closed"
  /\ UNCHANGED <<faults, chainVars, producerVars, handlerVars, dbVars>>

(* `for batch := range syncerBatches` ends on the closed channel. *)
DrainedChannel ==
  /\ cons = "ready" /\ life = "closed"
  /\ Finished("done")
  /\ UNCHANGED <<chainVars, producerVars, dbVars, lifeVars>>

(* tasks.Wait returns. *)
Stopped ==
  /\ life = "closed" /\ cons \in {"done", "dead", "panicked"}
  /\ UNCHANGED faults
  /\ Halt

Crash ==
  /\ life # "down"
  /\ faults < MaxFaults
  /\ faults' = faults + 1
  /\ Halt

Lifecycle ==
  \/ Start \/ StopSignal \/ ExitLoop \/ CloseChannel \/ DrainedChannel
  \/ Stopped \/ Crash

-----------------------------------------------------------------------------
(* The steps of the process that its goroutines take by themselves.  An RPC
   that is asked again and again is answered some time, and the loop's select
   takes the cancelled context some time: strong fairness. *)
SyncFairness ==
  /\ WF_syncVars(RetryBatch)
  /\ WF_syncVars(NextHeaders)
  /\ SF_syncVars(BlockHeadersByRange /\ worker' = "filter")
  /\ SF_syncVars(FilterToBlock /\ worker' = "logs")
  /\ SF_syncVars(FilterLogs /\ worker' = "send")
  /\ WF_syncVars(SendBatch)
  /\ WF_syncVars(Start)
  /\ SF_syncVars(ExitLoop)
  /\ WF_syncVars(CloseChannel)
  /\ WF_syncVars(DrainedChannel)
  /\ WF_syncVars(Stopped)

-----------------------------------------------------------------------------
(* Properties of both synchronizers. *)

Index == INSTANCE IndexedChain WITH chain <- chain, final <- final, store <- store,
                                    Kept <- Kept, StartHeight <- StartHeight

(* The table of headers is exactly the kept blocks of a prefix of the final
   chain: whatever was retried, dropped by a crash, committed without an
   acknowledgement or reorganised meanwhile, no kept block is missing below a
   stored one and no stored one leaves the chain. *)
StoreIsPrefix == \E n \in -1..final : store = Index!Prefix(n)

(* Every stored block with logs has its events exactly once, and no other block
   has any: header and event rows come and go together. *)
EventsExactlyOnce ==
  events = [k \in Hashes |-> IF \E s \in store : Hash(s) = k /\ HasLogs(s) THEN 1 ELSE 0]

(* The synchronizer implements the promise of IndexedChain. *)
ImplementsIndexedChain == Index!Spec

Indexed(n) == n <= head /\ chain[n] \in store

(* A kept block with ConfDepth final blocks above it gets stored, across errors
   of the provider, crashes and stops, unless the handler ended with an error. *)
FinalBlocksIndexed ==
  \A n \in First..MaxHeight :
    (n <= head /\ n + ConfDepth <= final /\ chain[n].payload \in Kept)
      ~> (Indexed(n) \/ cons = "dead")

(* Close returns, unless the handler ended with an error. *)
CloseReturns == life = "closing" ~> (life = "down" \/ cons = "dead")

(* Every stored block is on the provider's chain: what the traversal takes as
   confirmed does not go away. *)
StoredStaysOnChain == \A h \in store : h.number <= head /\ chain[h.number] = h

(* A handler that ended with an error takes the service down with it. *)
FailureStops == cons = "dead" ~> life # "up"
=============================================================================
