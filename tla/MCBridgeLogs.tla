---------------------------- MODULE MCBridgeLogs ----------------------------
(* Instances of BridgeLogs: two transfers in a block, of one
   transaction and of two. *)
EXTENDS BridgeLogs

T(kind, tx) == [kind |-> kind, tx |-> tx]

MCBlocks == {
  <<T("entry", 1), T("mnt", 1)>>,
  <<T("erc20", 1), T("message", 2)>>,
  <<T("message", 1), T("eth", 1)>>}

(* Before bedrock. *)
MCOldBlocks == {<<>>, <<T("message", 1)>>}

=============================================================================
