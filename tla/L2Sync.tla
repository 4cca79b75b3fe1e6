------------------------------- MODULE L2Sync -------------------------------
(***************************************************************************)
(* The L2 synchronizer: it stores every header, with the events of its logs *)
(* and its transactions, in one transaction.                                *)
(***************************************************************************)
EXTENDS Synchronizer

CONSTANTS
  Txd,      \* payloads with a transaction
  Creating  \* payloads with a transaction that creates a contract

ASSUME L2Assumption ==
  /\ Logged \subseteq Txd /\ Creating \subseteq Txd /\ Txd \subseteq Payloads
  /\ Genesis \notin Txd

(* What the handler keeps: every block. *)
L2Keeps == Kept = Payloads

L2Rows == batch.headers

HasTxs(h) == h.payload \in Txd

(* BuildTransactions dereferences the recipient of a transaction, which is nil
   when the transaction creates a contract. *)
BuildPanics == \E h \in batch.headers : h.payload \in Creating

(* handleBatch up to the transaction: block, transactions and receipts are
   fetched for every header.  None of these calls is retried: an error ends the
   handler. *)
L2HandleBatch ==
  /\ cons = "handle"
  /\ \/ ~ BuildPanics /\ BeginPersist
     \/ BuildPanics /\ Finished("panicked")
     \/ Finished("dead")
  /\ UNCHANGED <<chainVars, producerVars, dbVars, lifeVars>>

(* StoreTransactions: the row type names columns that the table does not have
   (statue, transaction_hash), so an insert into it is always refused. *)
Storable == \A h \in batch.headers : ~ HasTxs(h)

L2Persist ==
  \/ Storable /\ PersistCommit(L2Rows)
  \/ Storable /\ PersistAckLost(L2Rows)
  \/ PersistFail
  \/ PersistAbort

(* HandleCrit: the panic of the handler asks the application to stop. *)
HandleCrit ==
  /\ cons = "panicked"
  /\ UNCHANGED faults
  /\ Close

L2Next ==
  \/ ProviderNext /\ UNCHANGED <<producerVars, handlerVars, dbVars, lifeVars>>
  \/ Produce
  \/ L2HandleBatch
  \/ L2Persist
  \/ HandleCrit
  \/ Lifecycle

L2Spec == SyncInit /\ [][L2Next]_syncVars

(* As for L1; the stop that HandleCrit asks for begins. *)
L2FairSpec ==
  /\ L2Spec
  /\ SyncFairness
  /\ WF_syncVars(L2HandleBatch)
  /\ WF_syncVars(L2Persist)
  /\ WF_syncVars(HandleCrit)

-----------------------------------------------------------------------------
(* A batch whose rows do not conflict with the table can be stored: the failure
   of an attempt is the database's, never that of the batch. *)
BatchStorable ==
  cons = "persist" /\ ~ Conflict(L2Rows) => ENABLED (L2Persist /\ cons' = "ready")

(* After a panic of the handler the service stops. *)
PanicStops == cons = "panicked" ~> life = "down"
=============================================================================
