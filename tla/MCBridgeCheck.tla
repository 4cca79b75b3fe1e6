---------------------------- MODULE MCBridgeCheck ----------------------------
(* Instances of BridgeCheck: two tokens in a fixed order, or one. *)
EXTENDS BridgeCheck

MCTokens == <<"eth", "mnt">>
MCToken  == <<"eth">>

=============================================================================
