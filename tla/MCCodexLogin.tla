----------------------------- MODULE MCCodexLogin -----------------------------
(* TLC instances of CodexLogin. *)
EXTENDS CodexLogin
===============================================================================
