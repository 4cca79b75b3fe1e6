------------------------------ MODULE StatusTable ------------------------------
(***************************************************************************)
(* What the readers of a table with a status rely on: rows are added at the *)
(* end and never removed, and the status of a row only rises.  StateRoots   *)
(* implements this specification for the table state_root; Api reads it.    *)
(***************************************************************************)
EXTENDS Naturals, Sequences

CONSTANTS
  MaxRows,   \* bound: rows of the table
  MaxStatus  \* the last status

ASSUME StatusTableAssumption == MaxRows \in Nat /\ MaxStatus \in Nat

VARIABLE rows  \* the status of every row

Status == 0..MaxStatus

TableInit == rows = <<>>

AddRow == Len(rows) < MaxRows /\ rows' = Append(rows, 0)

RaiseStatus ==
  \E S \in SUBSET DOMAIN rows, s \in Status :
    /\ \A n \in S : rows[n] <= s
    /\ rows' = [n \in DOMAIN rows |-> IF n \in S THEN s ELSE rows[n]]

TableNext == AddRow \/ RaiseStatus

TableSpec == TableInit /\ [][TableNext]_rows
=============================================================================
