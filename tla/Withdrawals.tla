------------------------------ MODULE Withdrawals ------------------------------
(***************************************************************************)
(* How the status of a withdrawal is derived: the streams of the event      *)
(* processor that fill l2_to_l1, state_root, withdraw_proven and            *)
(* withdraw_finalized, each at its own pace; the withdrawal ticker of the   *)
(* business processor, which relates the events to the withdrawals in       *)
(* separate statements; and the ticker that counts the challenge period     *)
(* down.  All rows have version 1: the insert of version 0 rows is refused  *)
(* by the schema.                                                           *)
(***************************************************************************)
EXTENDS Naturals, Sequences, FiniteSets

CONSTANTS
  N,                  \* bound: withdrawals, numbered in the order of L2 blocks
  MaxLog,             \* bound: events about withdrawals on L1
  MaxProofs,          \* bound: proofs of one withdrawal on L1
  FraudProofWindows,  \* Config.FraudProofWindows
  MaxFaults           \* bound: restarts and database errors

ASSUME WithdrawalsAssumption ==
  /\ N \in Nat \ {0} /\ MaxLog \in Nat /\ MaxProofs \in Nat \ {0}
  /\ FraudProofWindows \in Nat \ {0} /\ MaxFaults \in Nat

VARIABLES
  initiated,  \* withdrawals initiated on L2
  l1Log,      \* the events about withdrawals on L1, in the order of their blocks
  pos,        \* how far into l1Log each stream of the event processor is
  copies,     \* rows of an event in state_root, withdraw_proven, withdraw_finalized
  row,        \* table l2_to_l1: the withdrawals stored are DOMAIN row
  related,    \* the proven and finalized rows with related = TRUE
  finTx,      \* transaction of the finalized stream in progress
  biz,        \* where the withdrawal ticker is in its tick
  phase,      \* whether it relates proven or finalized events
  todo,       \* events the loop in progress has not come to
  found,      \* events whose withdrawal the lookup found
  taken,      \* the row Take returned and Save is going to write
  clock,      \* where UpdateTimeLeft is
  faults      \* restarts and database errors so far

chainVars  == <<initiated, l1Log>>
streamVars == <<pos, copies, finTx>>
bizVars    == <<biz, phase, todo, found, taken>>
wdVars     == <<chainVars, streamVars, row, related, bizVars, clock, faults>>

Withdrawal == 1..N
Kind       == {"root", "proven", "finalized"}
Entry      == [kind: Kind, w: Withdrawal]

(* The statuses of common/status.go. *)
Pending        == 0
ReadyForProved == 1
InChallenge    == 2
ReadyForClaim  == 3
Claimed        == 4

(* A row of l2_to_l1; prove and final stand for the two L1 transaction hashes,
   0 for the zero hash. *)
Row == [status: Pending..Claimed, timeLeft: 0..FraudProofWindows,
        prove: 0..MaxLog, final: 0..MaxLog]

NewRow == [status |-> Pending, timeLeft |-> 0, prove |-> 0, final |-> 0]

NoTx    == [to |-> 0, stale |-> {}]
NoTaken == [event |-> 0, row |-> NewRow]

(* The events of l1Log of a kind, on the chain and in the table. *)
OnChain(k) == {i \in 1..Len(l1Log) : l1Log[i].kind = k}
Stored(k)  == {i \in OnChain(k) : copies[i] > 0}

IsNewest(i, S) == i \in S /\ \A j \in S : j <= i

Events(k, w) == {i \in OnChain(k) : l1Log[i].w = w}

(* The newest of the state roots covers the L2 block of withdrawal w; the
   entry of a root names the last withdrawal it covers. *)
Rooted(w, roots) == \E i \in roots : IsNewest(i, roots) /\ w <= l1Log[i].w

WdTypeOK ==
  /\ initiated \in 0..N
  /\ l1Log \in Seq(Entry) /\ Len(l1Log) <= MaxLog
  /\ pos \in [Kind -> 0..Len(l1Log)]
  /\ copies \in [1..MaxLog -> Nat]
  /\ \E n \in 0..initiated : row \in [1..n -> Row]
  /\ related \subseteq Stored("proven") \cup Stored("finalized")
  /\ finTx \in [to: 0..Len(l1Log), stale: SUBSET Stored("finalized")]
  /\ biz \in {"idle", "list", "lookup", "take", "save", "relate"}
  /\ phase \in {"proven", "finalized"}
  /\ todo \subseteq Stored(phase) /\ found \subseteq Stored(phase)
  /\ taken \in [event: 0..Len(l1Log), row: Row]
  /\ clock \in {"idle", "ready"}
  /\ faults \in 0..MaxFaults

WdInit ==
  /\ initiated = 0 /\ l1Log = <<>>
  /\ pos = [k \in Kind |-> 0] /\ finTx = NoTx
  /\ copies = [i \in 1..MaxLog |-> 0]
  /\ row = <<>> /\ related = {}
  /\ biz = "idle" /\ phase = "proven" /\ todo = {} /\ found = {} /\ taken = NoTaken
  /\ clock = "idle" /\ faults = 0

-----------------------------------------------------------------------------
(* The chains: a withdrawal is initiated, covered by a state root, proven and
   finalized; a proof may be repeated. *)

Emit(k, w) ==
  /\ Len(l1Log) < MaxLog
  /\ l1Log' = Append(l1Log, [kind |-> k, w |-> w])
  /\ UNCHANGED initiated

ChainStep ==
  /\ \/ initiated < N /\ initiated' = initiated + 1 /\ UNCHANGED l1Log
     \/ \E w \in 1..initiated : ~ Rooted(w, OnChain("root")) /\ Emit("root", w)
     \/ \E w \in Withdrawal :
          /\ Rooted(w, OnChain("root"))
          /\ Events("finalized", w) = {}
          /\ Cardinality(Events("proven", w)) < MaxProofs
          /\ Emit("proven", w)
     \/ \E w \in Withdrawal :
          /\ Events("finalized", w) = {} /\ Events("proven", w) # {}
          /\ Emit("finalized", w)
  /\ UNCHANGED <<streamVars, row, related, bizVars, clock, faults>>

-----------------------------------------------------------------------------
(* The streams of the event processor.  A scan takes the blocks up to a limit
   that are there; its rows and its new watermark come with the commit.  A
   transaction that returns an error is rolled back and the scan is repeated,
   which is no step here; the acknowledgement of a commit is not lost.  The
   roots have a goroutine of their own (onL1Data), the other three streams
   share one (onL2Data): none of them moves while a transaction of the
   finalized stream is open. *)

IndexInitiated ==
  /\ finTx = NoTx
  /\ \E n \in 1..initiated \ DOMAIN row :
       row' = [w \in 1..n |-> IF w \in DOMAIN row THEN row[w] ELSE NewRow]
  /\ UNCHANGED <<chainVars, streamVars, related, bizVars, clock, faults>>

(* Mutant of Scan: the watermark is the next block. *)
ScanPast(k, n) ==
  /\ copies' = [i \in 1..MaxLog |->
       copies[i] + IF i \in OnChain(k) /\ pos[k] < i /\ i <= n THEN 1 ELSE 0]
  /\ pos' = [pos EXCEPT ![k] = n + 1]

(* One row for every event of the kind in the blocks scanned. *)
Scan(k, n) ==
  /\ copies' = [i \in 1..MaxLog |->
       copies[i] + IF i \in OnChain(k) /\ pos[k] < i /\ i <= n THEN 1 ELSE 0]
  /\ pos' = [pos EXCEPT ![k] = n]

IndexL1(k) ==
  /\ k = "proven" => finTx = NoTx
  /\ \E n \in pos[k] + 1..Len(l1Log) : Scan(k, n)
  /\ UNCHANGED <<chainVars, finTx, row, related, bizVars, clock, faults>>

(* UpdateWithdrawFinalizedInfo looks rows up by a hash that was never set: it
   takes any rows, and writes them back whole when the range has a bridge
   transfer.  Only rows it read as not related matter. *)
FinalizedBegin ==
  /\ finTx = NoTx
  /\ \E n \in pos["finalized"] + 1..Len(l1Log) :
       \E stale \in SUBSET (Stored("finalized") \ related) :
         /\ stale # {} => \E i \in OnChain("finalized") : pos["finalized"] < i /\ i <= n
         /\ finTx' = [to |-> n, stale |-> stale]
  /\ UNCHANGED <<chainVars, pos, copies, row, related, bizVars, clock, faults>>

FinalizedCommit ==
  /\ finTx # NoTx
  /\ Scan("finalized", finTx.to)
  /\ related' = related \ finTx.stale
  /\ finTx' = NoTx
  /\ UNCHANGED <<chainVars, row, bizVars, clock, faults>>

(* An error rolls the transaction back; the watermark stays. *)
FinalizedAbort ==
  /\ finTx # NoTx /\ faults < MaxFaults
  /\ finTx' = NoTx /\ faults' = faults + 1
  /\ UNCHANGED <<chainVars, pos, copies, row, related, bizVars, clock>>

-----------------------------------------------------------------------------
(* The withdrawal ticker of the business processor, one statement at a time:
   nothing it writes is in a transaction. *)

EndTick == biz' = "idle" /\ phase' = "proven" /\ todo' = {} /\ found' = {} /\ taken' = NoTaken

(* syncL2ToL1StateRoot *)
ReadyRow(r) == [r EXCEPT !.status = ReadyForProved, !.timeLeft = FraudProofWindows]

SyncStateRoot ==
  /\ biz = "idle"
  /\ row' = [w \in DOMAIN row |->
       IF Rooted(w, Stored("root")) /\ row[w].status = Pending THEN ReadyRow(row[w])
       ELSE row[w]]
  /\ biz' = "list"
  /\ UNCHANGED <<chainVars, streamVars, related, phase, todo, found, taken, clock, faults>>

(* WithdrawProvenUnRelatedList, WithdrawFinalizedUnRelatedList; after an error the
   list is empty and the tick goes on. *)
ListUnrelated ==
  /\ biz = "list"
  /\ \/ todo' = Stored(phase) \ related /\ UNCHANGED faults
     \/ faults < MaxFaults /\ faults' = faults + 1 /\ todo' = {}
  /\ biz' = "lookup"
  /\ UNCHANGED <<chainVars, streamVars, row, related, phase, found, taken, clock>>

(* L2ToL1TransactionWithdrawal for one event; its error is ignored, so that a
   failed lookup counts as no withdrawal. *)
Lookup ==
  /\ biz = "lookup"
  /\ \E i \in todo :
       /\ todo' = todo \ {i}
       /\ \/ /\ found' = IF l1Log[i].w \in DOMAIN row THEN found \cup {i} ELSE found
             /\ UNCHANGED faults
          \/ faults < MaxFaults /\ faults' = faults + 1 /\ UNCHANGED found
  /\ UNCHANGED <<chainVars, streamVars, row, related, biz, phase, taken, clock>>

(* Mutant of LookedUp: events without a withdrawal count as related too. *)
LookedUpDropsOthers ==
  /\ biz = "lookup" /\ todo = {}
  /\ todo' = found /\ biz' = "take"
  /\ related' = related \cup (Stored(phase) \ found)
  /\ UNCHANGED <<chainVars, streamVars, row, phase, found, taken, clock, faults>>

(* Mutant of LookedUp: the events are marked related before the withdrawals
   are updated. *)
LookedUpRelatesFirst ==
  /\ biz = "lookup" /\ todo = {}
  /\ todo' = found /\ biz' = "take"
  /\ related' = related \cup found
  /\ UNCHANGED <<chainVars, streamVars, row, phase, found, taken, clock, faults>>

LookedUp ==
  /\ biz = "lookup" /\ todo = {}
  /\ todo' = found /\ biz' = "take"
  /\ UNCHANGED <<chainVars, streamVars, row, related, phase, found, taken, clock, faults>>

TakeRow ==
  /\ biz = "take"
  /\ \E i \in todo : taken' = [event |-> i, row |-> row[l1Log[i].w]]
  /\ biz' = "save"
  /\ UNCHANGED <<chainVars, streamVars, row, related, phase, todo, found, clock, faults>>

(* Mutant of Proven: the time left is not looked at. *)
ProvenAtOnce(r, i) == [r EXCEPT !.prove = i, !.status = ReadyForClaim]

Proven(r, i) ==
  [r EXCEPT !.prove = i,
            !.status = IF r.timeLeft > 0 THEN InChallenge ELSE ReadyForClaim]

Finalized(r, i) == [r EXCEPT !.final = i, !.status = Claimed]

(* Save writes every column of the row Take returned. *)
SaveRow ==
  LET i == taken.event
      w == l1Log[i].w
  IN
  /\ biz = "save"
  /\ row' = [row EXCEPT ![w] =
       IF phase = "proven" THEN Proven(taken.row, i) ELSE Finalized(taken.row, i)]
  /\ todo' = todo \ {i} /\ taken' = NoTaken /\ biz' = "take"
  /\ UNCHANGED <<chainVars, streamVars, related, phase, found, clock, faults>>

Marked ==
  /\ biz = "take" /\ todo = {}
  /\ todo' = found /\ biz' = "relate"
  /\ UNCHANGED <<chainVars, streamVars, row, related, phase, found, taken, clock, faults>>

(* MarkedWithdrawProvenRelated, MarkedWithdrawFinalizedRelated: the row is
   looked up by the withdrawal hash, which a repeated proof shares. *)
Relate ==
  /\ biz = "relate"
  /\ \E i \in todo :
       /\ todo' = todo \ {i}
       /\ \E j \in Stored(phase) \cap Events(phase, l1Log[i].w) : related' = related \cup {j}
  /\ UNCHANGED <<chainVars, streamVars, row, biz, phase, found, taken, clock, faults>>

Related ==
  /\ biz = "relate" /\ todo = {}
  /\ \/ /\ phase = "proven"
        /\ phase' = "finalized" /\ biz' = "list" /\ found' = {}
        /\ UNCHANGED <<todo, taken>>
     \/ phase = "finalized" /\ EndTick
  /\ UNCHANGED <<chainVars, streamVars, row, related, clock, faults>>

(* An error ends the tick; what was written stays. *)
TickError ==
  /\ biz # "idle" /\ faults < MaxFaults
  /\ EndTick /\ faults' = faults + 1
  /\ UNCHANGED <<chainVars, streamVars, row, related, clock>>

-----------------------------------------------------------------------------
(* UpdateTimeLeft, once a second: two statements. *)

CountDown ==
  /\ clock = "idle" /\ clock' = "ready"
  /\ row' = [w \in DOMAIN row |->
       IF row[w].status = InChallenge /\ row[w].timeLeft > 0
       THEN [row[w] EXCEPT !.timeLeft = @ - 1] ELSE row[w]]
  /\ UNCHANGED <<chainVars, streamVars, related, bizVars, faults>>

(* Mutant of ChallengeOver: the time left is not part of the condition. *)
ChallengeOverEarly ==
  /\ clock = "ready" /\ clock' = "idle"
  /\ row' = [w \in DOMAIN row |->
       IF row[w].status = InChallenge
       THEN [row[w] EXCEPT !.status = ReadyForClaim] ELSE row[w]]
  /\ UNCHANGED <<chainVars, streamVars, related, bizVars, faults>>

ChallengeOver ==
  /\ clock = "ready" /\ clock' = "idle"
  /\ row' = [w \in DOMAIN row |->
       IF row[w].status = InChallenge /\ row[w].timeLeft = 0
       THEN [row[w] EXCEPT !.status = ReadyForClaim] ELSE row[w]]
  /\ UNCHANGED <<chainVars, streamVars, related, bizVars, faults>>

(* The first statement failed: the second is left out. *)
ClockError ==
  /\ clock = "ready" /\ faults < MaxFaults
  /\ clock' = "idle" /\ faults' = faults + 1
  /\ UNCHANGED <<chainVars, streamVars, row, related, bizVars>>

-----------------------------------------------------------------------------
(* Mutants of Watermark: the newest block of the chain; nothing. *)
WatermarkAtTip(k, n) == n = Len(l1Log)
WatermarkNil(k, n)   == n = 0

(* The watermark of a stream is the newest block its table has a row of. *)
Watermark(k, n) == IF Stored(k) = {} THEN n = 0 ELSE IsNewest(n, Stored(k))

(* The process is killed and started again: the watermarks come from the
   newest rows.  There is no other stop, Close of both processors waits for
   goroutines that do not end. *)
Restart ==
  /\ faults < MaxFaults /\ faults' = faults + 1
  /\ pos' \in [Kind -> 0..Len(l1Log)] /\ \A k \in Kind : Watermark(k, pos'[k])
  /\ finTx' = NoTx
  /\ EndTick /\ clock' = "idle"
  /\ UNCHANGED <<chainVars, copies, row, related>>

Business == \/ SyncStateRoot \/ ListUnrelated \/ Lookup \/ LookedUp
            \/ TakeRow \/ SaveRow \/ Marked \/ Relate \/ Related

WdNext ==
  \/ ChainStep
  \/ IndexInitiated \/ IndexL1("root") \/ IndexL1("proven")
  \/ FinalizedBegin \/ FinalizedCommit \/ FinalizedAbort
  \/ Business \/ TickError
  \/ CountDown \/ ChallengeOver \/ ClockError
  \/ Restart

WdSpec == WdInit /\ [][WdNext]_wdVars

(* Every goroutine runs on a ticker and takes its steps; the chains need not
   move.  Errors and restarts are bounded. *)
WdFairSpec ==
  /\ WdSpec
  /\ WF_wdVars(IndexInitiated) /\ WF_wdVars(IndexL1("proven"))
  /\ WF_wdVars(FinalizedBegin) /\ WF_wdVars(FinalizedCommit)
  /\ WF_wdVars(Business)

-----------------------------------------------------------------------------
(* Every event up to the watermark of its stream has exactly one row, which is what
   implementing the streams comes down to (event/processors/event.go:274-362). *)
StoredOnce ==
  \A k \in Kind : \A i \in OnChain(k) :
    copies[i] <= 1 /\ (i <= pos[k] => copies[i] = 1)

(* What the stream of a kind sees of the chain, and its table. *)
BlocksOf(k) == [i \in OnChain(k) |-> i]
RowsOf(k)   == [i \in 1..MaxLog |-> IF i \in OnChain(k) THEN copies[i] ELSE 0]

Roots == INSTANCE EventStream WITH Event <- 1..MaxLog, head <- Len(l1Log),
  block <- BlocksOf("root"), pos <- pos["root"], rows <- RowsOf("root")
Proofs == INSTANCE EventStream WITH Event <- 1..MaxLog, head <- Len(l1Log),
  block <- BlocksOf("proven"), pos <- pos["proven"], rows <- RowsOf("proven")
Finalizations == INSTANCE EventStream WITH Event <- 1..MaxLog, head <- Len(l1Log),
  block <- BlocksOf("finalized"), pos <- pos["finalized"], rows <- RowsOf("finalized")

(* The state roots, the proofs and the finalizations are stored as a stream
   promises: with the watermark that passes them and never again, although the
   watermark is only in memory and moves back at a restart, and the tables have no key
   that would refuse a second row (event/processors/event.go:274-362,
   migrations/00001_create_schema.sql:97-125).  Commits are acknowledged. *)
ImplementsStreams == Roots!Spec /\ Proofs!Spec /\ Finalizations!Spec

(* An event is marked related only when its withdrawal shows it: no crash,
   error or overtaking loses an event between the two tables
   (business/run.go:323-333, 386-395). *)
RelatedMeansRecorded ==
  \A i \in related :
    LET w == l1Log[i].w IN
    /\ w \in DOMAIN row
    /\ l1Log[i].kind = "proven"    => row[w].prove # 0
    /\ l1Log[i].kind = "finalized" => row[w].final = i

(* The status agrees with the hashes and the time left of the same row, which
   three writers update (l2_to_l1.go:166-195, 228-253, 282-307). *)
StatusMatchesRow ==
  \A w \in DOMAIN row :
    LET r == row[w] IN
    /\ r.status \in {Pending, ReadyForProved} <=> r.prove = 0 /\ r.final = 0
    /\ r.status = Claimed => r.final # 0
    /\ r.status = ReadyForClaim => r.timeLeft = 0

(* A finalization on L1 is recorded in its withdrawal and marked related,
   whatever the order in which the streams come to the two
   (business/run.go:351-410). *)
FinalizationRecorded ==
  \A w \in Withdrawal :
    Events("finalized", w) # {} ~>
      /\ w \in DOMAIN row /\ row[w].final # 0
      /\ Events("finalized", w) \subseteq related

(* A withdrawal whose finalization has been processed shows Claimed, "relayed"
   (l2_to_l1.go:247).  Does not hold: a proof processed later sets it back. *)
ProcessedShowsClaimed ==
  \A i \in related : l1Log[i].kind = "finalized" => row[l1Log[i].w].status = Claimed

(* A withdrawal becomes ready for claim only out of its challenge period
   (api/README.md:114).  Does not hold when the state root is indexed late. *)
ChallengeBeforeClaim ==
  [][\A w \in DOMAIN row :
       row[w].status \in {Pending, ReadyForProved} => row'[w].status # ReadyForClaim]_wdVars
=============================================================================
