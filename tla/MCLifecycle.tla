------------------------------ MODULE MCLifecycle ------------------------------
(* Two goroutines of the event processor and, of the six of the business
   processor, one. *)
EXTENDS Lifecycle

MCWorkers == [s \in Processors |-> IF s = "BridgeProcessor" THEN 2 ELSE 1]
=============================================================================
