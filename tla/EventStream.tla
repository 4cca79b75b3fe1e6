----------------------------- MODULE EventStream -----------------------------
(***************************************************************************)
(* What a stream of the event processor promises, with no transactions, no  *)
(* scans of a limited length and no process: the events up to the watermark *)
(* have one row each, the others none.  The watermark moves ahead together  *)
(* with the rows of what it passes.  When it falls back it falls back over  *)
(* blocks without events, so that nothing is stored a second time.          *)
(***************************************************************************)
EXTENDS Integers

CONSTANT Event  \* the events that can be on the chain

VARIABLES
  block,  \* the blocks of the events that are there
  head,   \* the newest block
  pos,    \* the watermark
  rows    \* how many rows there are of an event

Upto(n) == {e \in DOMAIN block : block[e] <= n}

Init == DOMAIN block = {} /\ pos = 0 /\ rows = [e \in Event |-> 0]

(* Blocks and events come on top. *)
Grow ==
  /\ head <= head'
  /\ \A e \in DOMAIN block : e \in DOMAIN block' /\ block'[e] = block[e]
  /\ \A e \in DOMAIN block' \ DOMAIN block : head < block'[e]
  /\ UNCHANGED <<pos, rows>>

Scan ==
  /\ pos < pos' /\ pos' <= head
  /\ rows' = [e \in Event |-> rows[e] + IF e \in Upto(pos') \ Upto(pos) THEN 1 ELSE 0]
  /\ UNCHANGED <<block, head>>

FallBack ==
  /\ 0 <= pos' /\ pos' <= pos /\ Upto(pos') = Upto(pos)
  /\ UNCHANGED <<block, head, rows>>

Next == Grow \/ Scan \/ FallBack

Spec == Init /\ [][Next]_<<block, head, pos, rows>>
=============================================================================
