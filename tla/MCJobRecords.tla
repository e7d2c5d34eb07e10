----------------------------- MODULE MCJobRecords -----------------------------
(* TLC instances of JobRecords. *)
EXTENDS JobRecords
===============================================================================
