---------------------------- MODULE MCResultDelivery ---------------------------
(* TLC instances of ResultDelivery. *)
EXTENDS ResultDelivery

CONSTANTS j1, j2

Both == {j1, j2}
SameMove == [j \in Both |-> "move"]
FirstTwice == [j \in Both |-> IF j = j1 THEN 2 ELSE 1]
===============================================================================
