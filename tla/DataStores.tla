------------------------------- MODULE DataStores -------------------------------
(***************************************************************************)
(* How Mantle DA data stores get into the database: the stream of the event *)
(* processor that records ConfirmDataStore events in data_store_event, and  *)
(* the roll-up ticker of the business processor, which lists the events     *)
(* above its start id, retrieves their data stores from the retriever one   *)
(* after another, and stores the answers.                                   *)
(***************************************************************************)
EXTENDS Naturals, Sequences

CONSTANTS
  MaxId,             \* bound: data store ids
  MaxL1,             \* bound: L1 blocks indexed
  BlocksLimit,       \* blocksLimit
  StartDataStoreId,  \* Config.StartDataStoreId
  MaxEpochRange,     \* maxEpochRange
  MaxFaults          \* bound: restarts, failed queries, transactions rolled back

ASSUME DataStoresAssumption ==
  /\ MaxId \in Nat \ {0} /\ MaxL1 \in Nat /\ BlocksLimit \in Nat \ {0}
  /\ StartDataStoreId \in Nat /\ MaxEpochRange \in Nat \ {0} /\ MaxFaults \in Nat

VARIABLES
  chain,    \* the rows of l1_block_headers with what is confirmed in the block
  pos,      \* LatestMantleDAL1Header
  pending,  \* where the open transaction of the stream ends, 0 for none
  events,   \* rows of data_store_event of an id
  stores,   \* rows of data_store, and of data_store_block, of an id
  startId,  \* startDataStoreId
  biz,      \* where the ticker is
  listed,   \* rows of data_store_event that the tick has listed
  asked,    \* ids that were asked for so far
  skipped,  \* history: ids whose event a restart put behind the watermark unrecorded
  faults    \* restarts, failed queries and rolled back transactions so far

streamVars == <<pos, pending, events>>
tickVars   == <<stores, startId, biz, listed, asked>>
daVars     == <<chain, streamVars, tickVars, skipped, faults>>

Id    == 1..MaxId
NoRow == [i \in Id |-> 0]

(* A block that confirms data store id, whose reference block is ref, or 0 and
   0 for a block that confirms none. *)
Block == [id: 0..MaxId, ref: 0..MaxL1]

Upto == IF Len(chain) < pos + BlocksLimit THEN Len(chain) ELSE pos + BlocksLimit

DaTypeOK ==
  /\ chain \in Seq(Block) /\ Len(chain) <= MaxL1
  /\ pos \in 0..Len(chain) /\ pending \in {0} \cup pos+1..Len(chain)
  /\ events \in [Id -> Nat] /\ stores \in [Id -> Nat]
  /\ startId \in Id \cup {0, StartDataStoreId}
  /\ biz \in {"idle", "retrieve", "doomed"} /\ listed \in [Id -> Nat]
  /\ asked \subseteq Id /\ skipped \subseteq Id
  /\ faults \in 0..MaxFaults

DaInit ==
  /\ chain = <<>>
  /\ pos = 0 /\ pending = 0 /\ events = NoRow
  /\ stores = NoRow /\ startId = StartDataStoreId
  /\ biz = "idle" /\ listed = NoRow /\ asked = {}
  /\ skipped = {} /\ faults = 0

-----------------------------------------------------------------------------
(* A block is indexed.  Data stores need not be confirmed in the order of their
   ids, and need not be confirmed at all. *)
NewBlock ==
  /\ Len(chain) < MaxL1
  /\ \E b \in Block :
       /\ chain' = Append(chain, b)
       /\ IF b.id = 0 THEN b.ref = 0
                      ELSE b.ref <= Len(chain) /\ \A n \in DOMAIN chain : chain[n].id # b.id
  /\ UNCHANGED <<streamVars, tickVars, skipped, faults>>

(* A larger id was confirmed before. *)
Late(i) == \E m, n \in DOMAIN chain : m < n /\ chain[n].id = i /\ chain[m].id > i

(* Rows of the scan in progress that data store i has: 0 or 1. *)
Scanned(i, to) == IF \E n \in pos+1..to : chain[n].id = i THEN 1 ELSE 0

(* Mutant of Record: the watermark is the next block. *)
RecordNext(to) ==
  /\ events' = [i \in Id |-> events[i] + Scanned(i, to)]
  /\ pos' = to + 1

Record(to) ==
  /\ events' = [i \in Id |-> events[i] + Scanned(i, to)]
  /\ pos' = to

(* processRollupMantleDA: the transaction has inserted its rows, and then
   commits, or is rolled back and scanned again.  An insert that fails is not
   reported (mantle_da_processor.go:31-34), but it lets the commit fail. *)
ScanBegin ==
  /\ pending = 0 /\ pos < Len(chain) /\ pending' = Upto
  /\ UNCHANGED <<chain, pos, events, tickVars, skipped, faults>>

ScanCommit ==
  /\ pending # 0 /\ Record(pending) /\ pending' = 0
  /\ UNCHANGED <<chain, tickVars, skipped, faults>>

ScanAbort ==
  /\ pending # 0 /\ pending' = 0
  /\ faults < MaxFaults /\ faults' = faults + 1
  /\ UNCHANGED <<chain, pos, events, tickVars, skipped>>

-----------------------------------------------------------------------------
(* LatestDataStoreId: the greatest id stored, 0 without any; see ListUnasked. *)
IsLatest(i) ==
  IF i = 0 THEN stores = NoRow
           ELSE i \in Id /\ stores[i] > 0 /\ \A j \in Id : stores[j] > 0 => j <= i

(* Mutant of StartFrom: the table is not asked. *)
StartFromMemory(s) == s = startId

(* The id the tick starts from: the greatest one stored or, with nothing
   stored, the one the last tick left. *)
StartFrom(s) == \E i \in 0..MaxId : IsLatest(i) /\ s = IF i # 0 THEN i ELSE startId

(* Mutant of InRange: the id after the start id is left out. *)
InRangePast(i, s) == s + 1 < i /\ i < s + MaxEpochRange

(* Mutant of InRange: the range is one too short. *)
InRangeShort(i, s) == s < i /\ i + 1 < s + MaxEpochRange

InRange(i, s) == s < i /\ i < s + MaxEpochRange

(* DataStoreEventListByRange.  The query runs on the handle that gplus.Init was
   given last: NewDataStoreEvnetDB gives it that of every transaction begun, by
   any goroutine.  So it reads committed rows, or those of the open transaction
   of the stream as well, or fails because that transaction is over. *)
ListFrom(s) ==
  /\ biz = "idle"
  /\ \E to \in {pos, pending} :
       listed' = [i \in Id |-> IF InRange(i, s) THEN events[i] + Scanned(i, to) ELSE 0]
  /\ UNCHANGED <<chain, streamVars, stores, asked, skipped>>

List ==
  /\ StartFrom(startId') /\ ListFrom(startId')
  /\ biz' = "retrieve" /\ UNCHANGED faults

(* LatestDataStoreId is 0 after an error too: the list starts where the last tick
   left off.  The error has ended the transaction, so that nothing this tick
   inserts will be committed. *)
ListUnasked ==
  /\ ListFrom(startId) /\ UNCHANGED startId
  /\ biz' = "doomed" /\ faults < MaxFaults /\ faults' = faults + 1

ListFails ==
  /\ biz = "idle" /\ StartFrom(startId')
  /\ UNCHANGED <<chain, streamVars, stores, biz, listed, asked, skipped, faults>>

(* The id of the last event in the list, 0 for an empty list.  The list is
   ordered by the second in which the row was made: any row can be the last. *)
LatestListed(i) == IF listed = NoRow THEN i = 0 ELSE i \in Id /\ listed[i] > 0

(* DataFromMantleDa and the inserts: every row listed is asked for once, and one
   without an answer is left out.  The start id is set before the inserts, and
   keeps its value when they are rolled back. *)
Retrieve ==
  /\ biz # "idle" /\ biz' = "idle" /\ listed' = NoRow
  /\ asked' = asked \cup {i \in Id : listed[i] > 0}
  /\ \E i \in 0..MaxId : LatestListed(i) /\ startId' = i
  /\ \/ /\ biz = "retrieve"
        /\ \E got \in [Id -> UNION {0..listed[i] : i \in Id}] :
             /\ \A i \in Id : got[i] <= listed[i]
             /\ stores' = [i \in Id |-> stores[i] + got[i]]
        /\ UNCHANGED faults
     \/ /\ biz = "retrieve" /\ UNCHANGED stores
        /\ faults < MaxFaults /\ faults' = faults + 1
     \/ biz = "doomed" /\ UNCHANGED <<stores, faults>>
  /\ UNCHANGED <<chain, streamVars, skipped>>

-----------------------------------------------------------------------------
(* DataStoreL1BlockHeader: the header whose number is the greatest
   from_store_number, that is the reference block of a data store; nil if
   nothing is stored or the block has no row. *)
Watermark(b) ==
  \/ b = 0
  \/ LET refs == {chain[n].ref : n \in {m \in DOMAIN chain :
                                          chain[m].id # 0 /\ stores[chain[m].id] > 0}} IN
     b \in refs /\ \A c \in refs : c <= b

Restart ==
  /\ faults < MaxFaults /\ faults' = faults + 1
  /\ pos' \in 0..Len(chain) /\ Watermark(pos') /\ pending' = 0
  /\ skipped' = skipped \cup
       {i \in Id : events[i] = 0 /\ \E n \in 1..pos' : chain[n].id = i}
  /\ startId' = StartDataStoreId /\ biz' = "idle" /\ listed' = NoRow
  /\ UNCHANGED <<chain, events, stores, asked>>

DaNext ==
  \/ NewBlock
  \/ ScanBegin \/ ScanCommit \/ ScanAbort
  \/ List \/ ListUnasked \/ ListFails \/ Retrieve
  \/ Restart

DaSpec == DaInit /\ [][DaNext]_daVars

(* Both goroutines run on tickers, and a list that fails is not the last.  Nothing
   makes a retrieval end: neither the query nor the call for the frames has a
   deadline, and the polling timer is looked at between two queries only
   (business/mantle_da/datastore.go:61-129). *)
DaFairSpec ==
  /\ DaSpec
  /\ WF_daVars(ScanBegin) /\ WF_daVars(ScanCommit) /\ WF_daVars(List)

-----------------------------------------------------------------------------
(* The rows of a data store come from one tick: once it is stored it is not
   retrieved again, although its event may be recorded again after a restart
   and no key refuses a second row (business/run.go:164-171). *)
RetrievedInOneTick ==
  [][\A i \in Id : stores[i] > 0 => stores'[i] = stores[i]]_daVars

(* The start id passes a data store only after asking for it: recorded ids up
   to the newest one stored have been asked for, except those up to the
   configured start id, those confirmed after a larger id, and those that a
   restart skipped (business/run.go:164-181, business/mantle_da/sync.go:81-107). *)
PassedWasAsked ==
  \A i, j \in Id :
    (events[i] > 0 /\ i <= j /\ stores[j] > 0) =>
      i \in asked \/ i <= StartDataStoreId \/ Late(i) \/ i \in skipped

(* The tick has listed and retrieves, and may do so for good. *)
Retrieving == biz # "idle"

(* A data store recorded is asked for, whatever else fails, if its id is within
   the range of a start at 0, unless a retrieval never ends
   (business/run.go:162-192). *)
RecordedIsAsked ==
  \A i \in Id :
    (events[i] > 0 /\ StartDataStoreId < i /\ i < MaxEpochRange /\ ~ Late(i))
      ~> (i \in asked \/ []Retrieving)

(* ... and even then.  Does not hold: a retriever that is silent holds the tick, and
   what is recorded later is never asked for. *)
AskedWhenSilent ==
  \A i \in Id :
    (events[i] > 0 /\ StartDataStoreId < i /\ i < MaxEpochRange /\ ~ Late(i)) ~> i \in asked

(* The retrieval starts with the "Start data store id" configured
   (flag/flag.go:97-102): the first data stores above it are asked for, if every
   retrieval ends.  Does not hold: a tick that finds no event sets the start id
   to 0. *)
ConfiguredStartAsked ==
  \A i \in Id : (events[i] > 0 /\ InRange(i, StartDataStoreId) /\ ~ Late(i))
                   ~> (i \in asked \/ []Retrieving)

(* The stream skips no event: what is confirmed up to the watermark is recorded.
   Does not hold: a data store can be retrieved while its event, and others below
   its reference block, are rows of a scan that never commits, and a restart
   takes that block as the watermark. *)
NothingSkipped == skipped = {}

(* "All relevant information is captured" (architecture.md:24): a data store
   below the newest one stored is stored.  Does not hold: one retrieval that
   fails is not repeated. *)
AllCaptured ==
  \A i, j \in Id :
    (events[i] > 0 /\ StartDataStoreId < i /\ i < j /\ stores[j] > 0 /\ ~ Late(i)) => stores[i] > 0
=============================================================================
