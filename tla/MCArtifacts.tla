------------------------------ MODULE MCArtifacts ------------------------------
(* TLC instances of Artifacts. *)
EXTENDS Artifacts
CONSTANTS plan, move, b1
===============================================================================
