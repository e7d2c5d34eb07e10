---------------------------- MODULE MCMoveExecutor ----------------------------
(***************************************************************************)
(* TLC instances of MoveExecutor.  "there" and "again" carry one mutation  *)
(* identity, as a retry minted under a new job id would; "back" undoes it. *)
(***************************************************************************)
EXTENDS MoveExecutor

MCJobs == {"there", "again", "back"}
MCKeys == {"k1", "k2"}
MCKeyOf == [j \in MCJobs |-> IF j = "back" THEN "k2" ELSE "k1"]
MCDeltaOf == [j \in MCJobs |-> IF j = "back" THEN -1 ELSE 1]

===============================================================================
