-------------------------------- MODULE Deposits --------------------------------
(***************************************************************************)
(* How the status of a deposit is derived: the stream of the event          *)
(* processor that fills l1_to_l2, the stream that fills relay_message, and  *)
(* the deposit ticker of the business processor, which relates the two in   *)
(* separate statements.  The two streams share a goroutine (onL1Data); a    *)
(* scan is one transaction and its new watermark comes with the commit.  A  *)
(* transaction that is rolled back is scanned again, which is no step here. *)
(* All deposits of one L1 block are taken to be in one transaction.         *)
(***************************************************************************)
EXTENDS Naturals, Sequences, FiniteSets

CONSTANTS
  N,            \* bound: deposits, numbered in the order of L1 blocks
  MaxL1, MaxL2, \* bounds: blocks indexed
  BlocksLimit,  \* blocksLimit
  MaxIdle,      \* bound: scans of relayed messages that find no new block
  MaxFaults     \* bound: restarts and database errors

ASSUME DepositsAssumption ==
  /\ N \in Nat \ {0} /\ MaxL1 \in Nat /\ MaxL2 \in Nat
  /\ BlocksLimit \in Nat \ {0} /\ MaxIdle \in Nat /\ MaxFaults \in Nat

VARIABLES
  block,    \* the L1 blocks of the deposits made, in order
  l1Head,   \* newest row of l1_block_headers
  relayed,  \* the L2 block in which a deposit was relayed, 0 before
  l2Head,   \* newest row of l2_block_headers
  l1Pos,    \* LatestL1L2InitL1Header
  finPos,   \* LatestL1L2FinalizedL2Header, 0 for nil
  row,      \* table l1_to_l2: the deposits stored are DOMAIN row
  inserts,  \* how many rows were inserted for a deposit
  copies,   \* rows of relay_message with the message of a deposit
  related,  \* those of them with related = TRUE
  biz,      \* where the deposit ticker is in its tick
  todo,     \* messages the loop in progress has not come to
  found,    \* messages whose deposit the lookup found
  idle,     \* scans that found no new block so far
  faults    \* restarts and database errors so far

chainVars  == <<block, l1Head, relayed, l2Head>>
streamVars == <<l1Pos, finPos, inserts, copies, idle>>
bizVars    == <<biz, todo, found>>
depVars    == <<chainVars, streamVars, row, related, bizVars, faults>>

Deposit == 1..N
Made    == 1..Len(block)

(* The statuses of common/status.go. *)
Pending == 1
Claimed == 2

(* A row of l1_to_l2: the deposit whose message hash it carries and the deposit
   whose relay its L2 transaction hash names, 0 for the zero hash. *)
Row == [status: {Pending, Claimed}, msg: 0..N, claim: 0..N]

None  == [i \in Deposit |-> 0]
Empty(bag) == \A i \in Deposit : bag[i] = 0
Without(bag, i) == [bag EXCEPT ![i] = @ - 1]

(* L1ToL2TransactionDeposit: some row carries the message of deposit i. *)
Known(i) == \E r \in DOMAIN row : row[r].msg = i

(* The newest of the first BlocksLimit headers above the watermark. *)
Upto(pos, head) == IF head < pos + BlocksLimit THEN head ELSE pos + BlocksLimit

DepTypeOK ==
  /\ block \in Seq(1..l1Head) /\ Len(block) <= N
  /\ l1Head \in 0..MaxL1 /\ l2Head \in 0..MaxL2
  /\ relayed \in [Deposit -> 0..l2Head]
  /\ l1Pos \in 0..l1Head /\ finPos \in 0..l2Head
  /\ DOMAIN row \subseteq Made /\ row \in [DOMAIN row -> Row]
  /\ inserts \in [Deposit -> Nat] /\ copies \in [Deposit -> Nat]
  /\ related \in [Deposit -> Nat] /\ \A i \in Deposit : related[i] <= copies[i]
  /\ biz \in {"idle", "lookup", "claim", "relate"}
  /\ todo \in [Deposit -> Nat] /\ found \in [Deposit -> Nat]
  /\ idle \in 0..MaxIdle /\ faults \in 0..MaxFaults

DepInit ==
  /\ block = <<>> /\ l1Head = 0 /\ relayed = None /\ l2Head = 0
  /\ l1Pos = 0 /\ finPos = 0 /\ inserts = None /\ copies = None /\ idle = 0
  /\ row = <<>> /\ related = None
  /\ biz = "idle" /\ todo = None /\ found = None
  /\ faults = 0

-----------------------------------------------------------------------------
(* The chains as far as they are indexed: a block with some deposits on L1, a
   block that relays some deposits on L2.  The relay can be indexed first. *)

L1Block ==
  /\ l1Head < MaxL1 /\ l1Head' = l1Head + 1
  /\ \E k \in 0..(N - Len(block)) : block' = block \o [j \in 1..k |-> l1Head']
  /\ UNCHANGED <<relayed, l2Head>>

L2Block ==
  /\ l2Head < MaxL2 /\ l2Head' = l2Head + 1
  /\ \E S \in SUBSET {i \in Made : relayed[i] = 0} :
       relayed' = [i \in Deposit |-> IF i \in S THEN l2Head' ELSE relayed[i]]
  /\ UNCHANGED <<block, l1Head>>

ChainStep ==
  /\ L1Block \/ L2Block
  /\ UNCHANGED <<streamVars, row, related, bizVars, faults>>

-----------------------------------------------------------------------------
(* The rows that the SentMessage events of the deposits D are written to.  The
   row is looked up by the L1 transaction alone: with several deposits in the
   transaction, every message is saved in any of their rows, over the message
   that was saved there before. *)
Landing(D) ==
  {m \in [D -> D \cup {0}] :
     \A r \in D :
       /\ m[r] # 0 => /\ block[m[r]] = block[r]
                      /\ \A q \in D \ {r} : m[q] # m[r]
       /\ \E q \in D : block[q] = block[r] /\ m[q] # 0}

(* processInitiatedL1Events: a row for every deposit of the blocks scanned. *)
IndexDeposits ==
  LET to  == Upto(l1Pos, l1Head)
      New == {i \in Made : l1Pos < block[i] /\ block[i] <= to} IN
  /\ l1Pos < l1Head /\ l1Pos' = to
  /\ \E m \in Landing(New) :
       row' = [i \in DOMAIN row \cup New |->
                 IF i \in New THEN [status |-> Pending, msg |-> m[i], claim |-> 0]
                              ELSE row[i]]
  /\ inserts' = [i \in Deposit |-> inserts[i] + IF i \in New THEN 1 ELSE 0]
  /\ UNCHANGED <<chainVars, finPos, copies, idle, related, bizVars, faults>>

(* Mutant of StoreRelays: the blocks start one too high. *)
StoreRelaysPast(from, to) ==
  /\ copies' = [i \in Deposit |->
       copies[i] + IF from + 1 < relayed[i] /\ relayed[i] <= to THEN 1 ELSE 0]
  /\ finPos' = to

(* L2ProcessFinalizedBridgeEvents: a row for every message relayed. *)
StoreRelays(from, to) ==
  /\ copies' = [i \in Deposit |->
       copies[i] + IF from < relayed[i] /\ relayed[i] <= to THEN 1 ELSE 0]
  /\ finPos' = to

(* processFinalizedL2Events: with no block above the watermark the watermark
   becomes nil, and the next scan starts at the configured height again. *)
ScanRelays ==
  /\ \/ finPos < l2Head /\ StoreRelays(finPos, Upto(finPos, l2Head)) /\ UNCHANGED idle
     \/ /\ finPos = l2Head /\ idle < MaxIdle
        /\ finPos' = 0 /\ idle' = idle + 1 /\ UNCHANGED copies
  /\ UNCHANGED <<chainVars, l1Pos, inserts, row, related, bizVars, faults>>

-----------------------------------------------------------------------------
(* The deposit ticker: markedL1ToL2Finalized. *)

EndTick == biz' = "idle" /\ todo' = None /\ found' = None

(* Without rows, and so with an error of the query, the tick has nothing to do. *)
ListUnrelated ==
  /\ biz = "idle"
  /\ todo' = [i \in Deposit |-> copies[i] - related[i]]
  /\ biz' = IF Empty(todo') THEN "idle" ELSE "lookup"
  /\ UNCHANGED <<chainVars, streamVars, row, related, found, faults>>

(* The error of the lookup is dropped: the message counts as not found. *)
Lookup ==
  /\ biz = "lookup"
  /\ \E i \in Deposit :
       /\ todo[i] > 0 /\ todo' = Without(todo, i)
       /\ \/ Known(i) /\ found' = [found EXCEPT ![i] = @ + 1] /\ UNCHANGED faults
          \/ ~ Known(i) /\ UNCHANGED <<found, faults>>
          \/ faults < MaxFaults /\ faults' = faults + 1 /\ UNCHANGED found
  /\ UNCHANGED <<chainVars, streamVars, row, related, biz>>

(* The loops of the update and of the marks run over the messages found. *)
NextLoop ==
  /\ Empty(todo)
  /\ \/ biz = "lookup" /\ Empty(found) /\ EndTick
     \/ biz = "lookup" /\ ~ Empty(found) /\ biz' = "claim" /\ todo' = found /\ UNCHANGED found
     \/ biz = "claim" /\ biz' = "relate" /\ todo' = found /\ UNCHANGED found
     \/ biz = "relate" /\ EndTick
  /\ UNCHANGED <<chainVars, streamVars, row, related, faults>>

(* Mutant of Claim: the transaction of the row is not written. *)
ClaimUnnamed(r, i) == row' = [row EXCEPT ![r].status = Claimed]

Claim(r, i) == row' = [row EXCEPT ![r].status = Claimed, ![r].claim = i]

(* MarkL1ToL2TransactionDepositFinalized: the message hash it looks the row up
   by was never set, so Take returns any row. *)
ClaimRow ==
  /\ biz = "claim"
  /\ \E i \in Deposit, r \in DOMAIN row :
       todo[i] > 0 /\ todo' = Without(todo, i) /\ Claim(r, i)
  /\ UNCHANGED <<chainVars, streamVars, related, biz, found, faults>>

(* Mutant of MarkRelated: the row is saved as it was read. *)
MarkRelatedBefore(i) == UNCHANGED related

(* Take returns any row with the message hash, marked or not. *)
MarkRelated(i) ==
  \/ related[i] < copies[i] /\ related' = [related EXCEPT ![i] = @ + 1]
  \/ related[i] > 0 /\ UNCHANGED related

(* MarkedRelayMessageRelated. *)
Relate ==
  /\ biz = "relate"
  /\ \E i \in Deposit : todo[i] > 0 /\ todo' = Without(todo, i) /\ MarkRelated(i)
  /\ UNCHANGED <<chainVars, streamVars, row, biz, found, faults>>

(* An error ends the tick; what was written stays, for the statements go
   through bp.db and not through the transaction. *)
TickError ==
  /\ biz # "idle" /\ faults < MaxFaults /\ faults' = faults + 1
  /\ EndTick
  /\ UNCHANGED <<chainVars, streamVars, row, related>>

(* Mutant of Watermark: the watermark of the deposits is not rebuilt. *)
WatermarkLost(b) == b = 0

(* L1L2LatestL1BlockHeader: the newest block with a row, 0 without any. *)
Watermark(b) ==
  /\ \A i \in DOMAIN row : block[i] <= b
  /\ b = 0 \/ \E i \in DOMAIN row : block[i] = b

(* A restart: NewBridgeProcessor rebuilds the watermarks from the tables.  That
   of the relays is the newest l2_block_number of a claimed row, which no claim
   sets, and so nil. *)
Restart ==
  /\ faults < MaxFaults /\ faults' = faults + 1
  /\ \E b \in 0..l1Pos : Watermark(b) /\ l1Pos' = b
  /\ finPos' = 0
  /\ EndTick
  /\ UNCHANGED <<chainVars, inserts, copies, idle, row, related>>

Business == ListUnrelated \/ Lookup \/ NextLoop \/ ClaimRow \/ Relate

DepNext ==
  \/ ChainStep \/ IndexDeposits \/ ScanRelays
  \/ Business \/ TickError \/ Restart

DepSpec == DepInit /\ [][DepNext]_depVars

(* Both goroutines run on tickers; the chains, errors and restarts are free. *)
DepFairSpec ==
  DepSpec /\ WF_depVars(IndexDeposits) /\ WF_depVars(ScanRelays) /\ WF_depVars(Business)

-----------------------------------------------------------------------------
(* One row for every deposit up to the watermark, which is what implementing the
   stream comes down to (event.go:178-225). *)
DepositsStoredOnce ==
  \A i \in Made : inserts[i] <= 1 /\ (block[i] <= l1Pos => inserts[i] = 1)

Stream == INSTANCE EventStream WITH
  Event <- Deposit, head <- l1Head, pos <- l1Pos, rows <- inserts

(* The deposits are stored as a stream promises: with the watermark that passes
   them, whole blocks at a time and never again, over any restart (event.go:178-225). *)
ImplementsStream == Stream!Spec

(* No message relayed up to the watermark is missing, however often the
   watermark goes back to nil and the scan starts over (event.go:364-427). *)
RelayNotSkipped ==
  \A i \in Deposit : relayed[i] \in 1..finPos => copies[i] > 0

(* A claimed row names the transaction of a stored relay whose deposit is in
   the table; a pending row names none (l1_to_l2.go:168-192). *)
ClaimTraced ==
  \A r \in DOMAIN row :
    IF row[r].status = Claimed
    THEN \E i \in Deposit : row[r].claim = i /\ copies[i] > 0 /\ Known(i)
    ELSE row[r].claim = 0

(* A relayed message whose deposit is known is taken up by the deposit ticker,
   through errors, restarts and the rows that are stored again and again
   (business/run.go:256-291). *)
RelayNoticed ==
  \A i \in Deposit : (copies[i] > 0 /\ Known(i)) ~> related[i] > 0

(* A row is claimed only when its own deposit was relayed, or the one whose message
   was saved in it: status 2 is "success" and l2TransactionHash "Layer2 claim deposit
   tx hash" (api/README.md:70-72).  Does not hold: a relay claims any row. *)
ClaimedWasRelayed ==
  \A r \in DOMAIN row :
    row[r].status = Claimed => \E i \in {r, row[r].msg} \ {0} : relayed[i] # 0
=============================================================================
