------------------------------ MODULE Provider ------------------------------
(***************************************************************************)
(* The chain as an RPC provider reports it to the synchronizer of that      *)
(* chain (L1 or L2).  The node is outside the repository: what is modelled  *)
(* is what synchronizer/node/client.go can observe of it.                   *)
(*                                                                          *)
(* A block is mined on the tip, and the tip may be reorganised: blocks with *)
(* fewer than ReorgDepth descendants can be replaced by a shorter or longer *)
(* branch.  `final` is the highest block that has ever had ReorgDepth       *)
(* descendants; nothing up to it is ever replaced.                          *)
(***************************************************************************)
EXTENDS Integers

CONSTANTS
  Payloads,    \* what a block carries, as far as the synchronizers can tell
  Genesis,     \* what the genesis block carries
  MaxHeight,   \* bound on the height of the chain
  MaxForks,    \* bound on the number of reorganisations
  ReorgDepth   \* how many blocks below the tip a reorganisation can replace

ASSUME ProviderAssumption ==
  /\ Genesis \in Payloads
  /\ MaxHeight \in Nat /\ MaxForks \in Nat /\ ReorgDepth \in Nat

VARIABLES
  chain,  \* the canonical chain, a function from heights to headers
  head,   \* the height of its tip
  fork,   \* how many reorganisations have happened
  final   \* the highest height no reorganisation replaces any more

chainVars == <<chain, head, fork, final>>

(* `fork` is the reorganisation after which the block was mined: with the
   number it identifies the block. *)
Header == [number: 0..MaxHeight, fork: 0..MaxForks, payload: Payloads]

Hash(h) == <<h.number, h.fork>>
Hashes  == (0..MaxHeight) \X (0..MaxForks)

(* The canonical headers with the heights from..to. *)
Segment(from, to) == {chain[n] : n \in from..to}

Deeper(n) == IF n - ReorgDepth > final THEN n - ReorgDepth ELSE final

ProviderTypeOK ==
  /\ head \in 0..MaxHeight
  /\ fork \in 0..MaxForks
  /\ final \in 0..head
  /\ chain \in [0..head -> Header]

ProviderInit ==
  /\ head = 0 /\ fork = 0 /\ final = 0
  /\ chain = [n \in 0..0 |-> [number |-> 0, fork |-> 0, payload |-> Genesis]]

(* A new tip at height n, on the present branch or on a new one. *)
Tip(n, f) ==
  /\ \E p \in Payloads :
       chain' = [k \in 0..n |-> IF k = n THEN [number |-> n, fork |-> f, payload |-> p]
                                         ELSE chain[k]]
  /\ head' = n
  /\ fork' = f
  /\ final' = Deeper(n)

Mine ==
  /\ head < MaxHeight
  /\ Tip(head + 1, fork)

(* The blocks above n are replaced by a branch whose first block is n + 1. *)
Reorg(n) ==
  /\ fork < MaxForks
  /\ n < head
  /\ Tip(n + 1, fork + 1)

ProviderNext ==
  \/ Mine
  \/ \E n \in final..head : Reorg(n)
=============================================================================
