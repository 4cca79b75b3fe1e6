------------------------------ MODULE MCL2Sync ------------------------------
(* Instance of L2Sync for TLC: blocks without a transaction, with one, with one
   that logs, with one that creates a contract. *)
EXTENDS L2Sync

CONSTANTS empty, plain, logging, creating

MCPayloads == {empty, plain, logging, creating}
MCLogged   == {logging}
MCTxd      == {plain, logging, creating}
MCCreating == {creating}

ASSUME MCL2Assumption == L2Keeps
=============================================================================
