------------------------------ MODULE MCL1Sync ------------------------------
(* Instance of L1Sync for TLC: blocks with and without logs. *)
EXTENDS L1Sync

CONSTANTS quiet, logging

MCPayloads == {quiet, logging}
MCLogged   == {logging}

ASSUME MCL1Assumption == L1Keeps
=============================================================================
