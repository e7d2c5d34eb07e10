------------------------------ MODULE MCMoveChat ------------------------------
(* TLC instances of MoveChat. *)
EXTENDS MoveChat

Move(value, unit, direction) ==
  [shape |-> "move", target |-> "Cube", value |-> value, unit |-> unit,
   direction |-> direction]

(* Half a metre to the right, said twice; upwards; and what is not understood. *)
MCSentences ==
  {Move(500, "cm", "right"), Move(5, "meters", "right"), Move(500, "cm", "upwards"),
   Move(500, "ft", "right"), Move(500, "cm", "away"), Move(Infinite, "m", "right"),
   [shape |-> "other"]}

MCOtherPlans ==
  {Failure("PROVIDER_UNAVAILABLE"), [ok |-> TRUE, operations |-> <<>>],
   [ok |-> TRUE, operations |-> <<[type |-> "execute_plan"]>>]}
===============================================================================
