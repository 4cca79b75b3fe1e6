------------------------------- MODULE L1Sync -------------------------------
(***************************************************************************)
(* The L1 synchronizer: it stores only the headers with logs, with the      *)
(* events of their logs, in one transaction.                                *)
(***************************************************************************)
EXTENDS Synchronizer

(* What the handler keeps: the blocks with logs. *)
L1Keeps == Kept = Logged

(* The headers of the batch that FilterLogs returned a log for. *)
L1Rows == {h \in batch.headers : h \in batch.logs}

(* handleBatch up to the transaction: a batch without logs is done with. *)
L1HandleBatch ==
  /\ cons = "handle"
  /\ IF L1Rows = {} THEN Finished("ready") ELSE BeginPersist
  /\ UNCHANGED <<chainVars, producerVars, dbVars, lifeVars>>

L1Next ==
  \/ ProviderNext /\ UNCHANGED <<producerVars, handlerVars, dbVars, lifeVars>>
  \/ Produce
  \/ L1HandleBatch
  \/ Persist(L1Rows)
  \/ Lifecycle

L1Spec == SyncInit /\ [][L1Next]_syncVars

(* The handler takes its steps; whether an attempt succeeds is the database's
   choice, but it ends. *)
L1FairSpec ==
  /\ L1Spec
  /\ SyncFairness
  /\ WF_syncVars(L1HandleBatch)
  /\ WF_syncVars(Persist(L1Rows))
=============================================================================
