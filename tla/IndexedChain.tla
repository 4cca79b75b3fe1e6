---------------------------- MODULE IndexedChain ----------------------------
(***************************************************************************)
(* What a synchronizer promises, with no producer, handler or channel: the  *)
(* table of headers is at every moment the kept part of a prefix of the     *)
(* final chain, and it changes only to the kept part of a longer prefix.    *)
(* So it has no gap, no header that a reorganisation removed, and no row    *)
(* ever changes.                                                            *)
(***************************************************************************)
EXTENDS Integers

CONSTANTS
  Kept,        \* payloads whose blocks belong in the table
  StartHeight  \* the height after which indexing starts; 0 starts at genesis

VARIABLES
  chain,  \* the canonical chain
  final,  \* the height up to which it cannot change
  store   \* the table

First == IF StartHeight > 0 THEN StartHeight + 1 ELSE 0

Prefix(n) == {chain[k] : k \in {m \in First..n : chain[m].payload \in Kept}}

Init == store = {}

Next ==
  /\ final <= final'
  /\ \A n \in 0..final : chain'[n] = chain[n]
  /\ \/ store' = store
     \/ \E n \in First..final : store \subseteq Prefix(n) /\ store' = Prefix(n)

Spec == Init /\ [][Next]_<<chain, final, store>>
=============================================================================
