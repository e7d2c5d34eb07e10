----------------------------- MODULE MCTurnRunner -----------------------------
(* TLC instances of TurnRunner. *)
EXTENDS TurnRunner
===============================================================================
