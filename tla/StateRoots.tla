------------------------------- MODULE StateRoots -------------------------------
(***************************************************************************)
(* How a state root becomes safe and finalized: the second half of the      *)
(* roll-up ticker of the business processor, which asks L1 for its safe and *)
(* its finalized block and updates the rows of state_root in two statements *)
(* while the event processor adds rows.  The first half, the data stores,   *)
(* is module DataStores; when it fails the tick does not get here, and it   *)
(* waits for a retriever that need not answer.                              *)
(***************************************************************************)
EXTENDS Naturals, Sequences

CONSTANTS
  MaxRoots,  \* bound: rows of state_root
  MaxHead    \* bound: L1 blocks

ASSUME StateRootsAssumption == MaxRoots \in Nat /\ MaxHead \in Nat

VARIABLES
  head,       \* the newest L1 block
  safe,       \* the block L1 calls safe
  finalized,  \* the block L1 calls finalized
  roots,      \* table state_root: block and status of every row
  biz,        \* where the ticker is
  safeRead,   \* latestSafeBlockHeader
  finalRead   \* latestFinalizedBlockHeader

chainVars == <<head, safe, finalized>>
readVars  == <<safeRead, finalRead>>
rootVars  == <<chainVars, roots, biz, readVars>>

Root == [block: 1..MaxHead, status: 0..2]

RootTypeOK ==
  /\ head \in 0..MaxHead /\ safe \in 0..head /\ finalized \in 0..safe
  /\ roots \in Seq(Root) /\ Len(roots) <= MaxRoots
  /\ biz \in {"idle", "sync", "hung", "readSafe", "readFinal", "updateSafe", "updateFinal"}
  /\ safeRead \in 0..safe /\ finalRead \in 0..finalized

RootInit ==
  /\ head = 0 /\ safe = 0 /\ finalized = 0
  /\ roots = <<>>
  /\ biz = "idle" /\ safeRead = 0 /\ finalRead = 0

ChainStep ==
  /\ \/ head < MaxHead  /\ head' = head + 1           /\ UNCHANGED <<safe, finalized>>
     \/ safe < head     /\ safe' = safe + 1           /\ UNCHANGED <<head, finalized>>
     \/ finalized < safe /\ finalized' = finalized + 1 /\ UNCHANGED <<head, safe>>
  /\ UNCHANGED <<roots, biz, readVars>>

(* The event processor stores the roots in the order of their blocks, some time
   after the block; the status of a new row is 0. *)
StoreRoot ==
  /\ Len(roots) < MaxRoots
  /\ \E b \in 1..head :
       /\ \A n \in DOMAIN roots : roots[n].block <= b
       /\ roots' = Append(roots, [block |-> b, status |-> 0])
  /\ UNCHANGED <<chainVars, biz, readVars>>

OnRollup ==
  /\ biz = "idle" /\ biz' = "sync"
  /\ UNCHANGED <<chainVars, roots, readVars>>

(* The data stores are done; or the retriever is silent, and then nothing ends the
   tick but the end of the process. *)
SyncMantleDaData ==
  /\ biz = "sync" /\ biz' = "readSafe"
  /\ UNCHANGED <<chainVars, roots, readVars>>

RetrieverSilent ==
  /\ biz = "sync" /\ biz' = "hung"
  /\ UNCHANGED <<chainVars, roots, readVars>>

ReadSafe ==
  /\ biz = "readSafe" /\ biz' = "readFinal" /\ safeRead' = safe
  /\ UNCHANGED <<chainVars, roots, finalRead>>

LatestFinalizedBlockHeader == finalized

ReadFinalized ==
  /\ biz = "readFinal" /\ biz' = "updateSafe"
  /\ finalRead' = LatestFinalizedBlockHeader
  /\ UNCHANGED <<chainVars, roots, safeRead>>

SetStatus(S, status) ==
  roots' = [n \in DOMAIN roots |->
              IF n \in S THEN [roots[n] EXCEPT !.status = status] ELSE roots[n]]

(* Mutant of SafeRows: the status is not asked for. *)
BelowSafe == {n \in DOMAIN roots : roots[n].block < safeRead}

SafeRows == {n \in DOMAIN roots : roots[n].block < safeRead /\ roots[n].status = 0}

UpdateSafeStatus ==
  /\ biz = "updateSafe" /\ biz' = "updateFinal"
  /\ SetStatus(SafeRows, 1)
  /\ UNCHANGED <<chainVars, readVars>>

(* Mutants of FinalRows: the safe block is taken; the block below the finalized
   one is left out. *)
FinalWhenSafe == {n \in DOMAIN roots : roots[n].block < safeRead}
FinalSkips    == {n \in DOMAIN roots : roots[n].block + 1 < finalRead}

FinalRows == {n \in DOMAIN roots : roots[n].block < finalRead}

UpdateFinalizedStatus ==
  /\ biz = "updateFinal" /\ biz' = "idle"
  /\ SetStatus(FinalRows, 2)
  /\ UNCHANGED <<chainVars, readVars>>

(* A call or a statement fails, or the process is started anew. *)
EndTick ==
  /\ biz # "idle" /\ biz' = "idle"
  /\ UNCHANGED <<chainVars, roots, readVars>>

RootNext ==
  \/ ChainStep \/ StoreRoot
  \/ OnRollup \/ SyncMantleDaData \/ RetrieverSilent \/ ReadSafe \/ ReadFinalized
  \/ UpdateSafeStatus \/ UpdateFinalizedStatus \/ EndTick

RootSpec == RootInit /\ [][RootNext]_rootVars

(* The ticker comes again and again, and what is asked again and again is answered
   at last: the calls to L1 have deadlines (synchronizer/node/client.go:136-161).
   The retriever has none. *)
RootFairSpec ==
  /\ RootSpec
  /\ WF_rootVars(OnRollup) /\ SF_rootVars(SyncMantleDaData)
  /\ SF_rootVars(ReadSafe) /\ SF_rootVars(ReadFinalized)
  /\ SF_rootVars(UpdateSafeStatus) /\ SF_rootVars(UpdateFinalizedStatus)

-----------------------------------------------------------------------------
(* The status says no more than L1 does, although it is updated some time after
   the blocks were read (stateroot.go:112-128, business/run.go:229-254). *)
StatusBelowHeads ==
  \A n \in DOMAIN roots :
    /\ roots[n].status = 1 => roots[n].block < safe
    /\ roots[n].status = 2 => roots[n].block < finalized

Hung == biz = "hung"

(* A root below the finalized block becomes finalized, although any call can fail
   and end the tick, unless the retriever of the data stores is silent for good
   (business/run.go:162-172, 229-254). *)
FinalizedAtLast ==
  \A n \in 1..MaxRoots :
    (n \in DOMAIN roots /\ roots[n].block < finalized) ~>
      ((n \in DOMAIN roots /\ roots[n].status = 2) \/ []Hung)

(* The table is what its readers take it for: rows are only added, and a status
   only rises (stateroot.go:111-128, api/routes/stateroot.go:48-86). *)
Table == INSTANCE StatusTable WITH
  rows <- [n \in DOMAIN roots |-> roots[n].status], MaxRows <- MaxRoots, MaxStatus <- 2

ImplementsStatusTable == Table!TableSpec
=============================================================================
