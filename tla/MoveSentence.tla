------------------------------ MODULE MoveSentence -----------------------------
(***************************************************************************)
(* From one sentence to one move: RuleBasedProvider.interpret              *)
(* (providers/rule_based.py) over the units and directions of              *)
(* packages/spatial, and the job that JobFactory.build (job_factory.py)    *)
(* and create_move_object_job (contracts/jobs.py) make of it.  Pure        *)
(* operators.                                                              *)
(*                                                                         *)
(* A sentence that has the grammar's one shape is known by its four words; *)
(* "value" counts tenths, so that 5 is the text "0.5".  Lengths are in     *)
(* millimetres, for the code's metres.                                     *)
(***************************************************************************)
EXTENDS Integers, Sequences

Infinite == -1    \* a number of some hundred digits is read as infinity

-------------------------------------------------------------------------------
DirectionWords ==
  [right |-> "right", left |-> "left", up |-> "up", upward |-> "up",
   upwards |-> "up", down |-> "down", downward |-> "down", downwards |-> "down",
   forward |-> "forward", forwards |-> "forward", back |-> "back",
   backward |-> "back", backwards |-> "back"]

UnitWords ==
  [cm |-> "cm", centimeter |-> "cm", centimeters |-> "cm", centimetre |-> "cm",
   centimetres |-> "cm", m |-> "m", meter |-> "m", meters |-> "m", metre |-> "m",
   metres |-> "m"]

(* DIRECTION_TO_AXIS. *)
DirectionToAxis ==
  [right   |-> [axis |-> "x", sign |-> 1], left |-> [axis |-> "x", sign |-> -1],
   forward |-> [axis |-> "y", sign |-> 1], back |-> [axis |-> "y", sign |-> -1],
   up      |-> [axis |-> "z", sign |-> 1], down |-> [axis |-> "z", sign |-> -1]]

(* to_meters, of a finite value. *)
ToMeters(value, unit) == IF unit = "cm" THEN value ELSE value * 100

(* direction_delta_meters, of a magnitude the grammar lets through. *)
DirectionDelta(direction, value, unit) ==
  LET to == DirectionToAxis[direction] IN
  [a \in {"x", "y", "z"} |-> IF a = to.axis THEN to.sign * ToMeters(value, unit) ELSE 0]

-------------------------------------------------------------------------------
Failure(code) == [ok |-> FALSE, code |-> code]
MovePlan(target, delta) ==
  [ok |-> TRUE,
   operations |-> <<[type |-> "move_object", target |-> target, delta |-> delta]>>]

(* RuleBasedProvider.interpret; a sentence of another shape is not a move. *)
Interpret(sentence) ==
  IF sentence.shape # "move" THEN Failure("UNSUPPORTED_INSTRUCTION")
  ELSE IF sentence.direction \notin DOMAIN DirectionWords
    THEN Failure("UNSUPPORTED_INSTRUCTION")
  ELSE IF sentence.unit \notin DOMAIN UnitWords \/ sentence.value = Infinite
    THEN Failure("INVALID_UNITS")
  ELSE MovePlan(sentence.target,
                DirectionDelta(DirectionWords[sentence.direction],
                               sentence.value, UnitWords[sentence.unit]))

(* JobFactory.build for a plan of one operation, whose content is what        *)
(* derive_content_fingerprint is taken of.                                    *)
Buildable(operation) == operation.type = "move_object"
Content(operation) == [target |-> operation.target, delta |-> operation.delta]
===============================================================================
