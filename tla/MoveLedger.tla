------------------------------ MODULE MoveLedger ------------------------------
(***************************************************************************)
(* What the worker's move_object execution promises about the saved        *)
(* project, with no worker, lock, journal phase or crash in sight          *)
(* (blender_worker/executor.py, "THE CENTRAL RULE", lines 13-27).          *)
(*                                                                         *)
(* A job commits ONE plan, made from the position it finds; at most one    *)
(* job of a mutation identity ever commits; and the only way a job changes *)
(* the position is to carry out its committed plan, never twice in a row.  *)
(***************************************************************************)
EXTENDS Integers

CONSTANTS Jobs,             \* job ids of one project
          KeyOf,            \* the idempotency key of each job
          DeltaOf,          \* the requested displacement of each job
          InitialPosition,  \* where the object is in the seed project
          NoPlan,           \* a job that has committed nothing yet
          Void,             \* a job that may never move the object any more
          Other             \* the mover of every change no job made

VARIABLES position,   \* the object's position in the saved .blend
          committed,  \* the plan each job has committed, NoPlan or Void
          lastMover   \* who made the last change of position

ledger == <<position, committed, lastMover>>

Init ==
  /\ position = InitialPosition
  /\ committed = [j \in Jobs |-> NoPlan]
  /\ lastMover = Other

(* A job fixes both endpoints of its move, from the position it finds. *)
Commit(j) ==
  /\ committed[j] = NoPlan
  /\ \A k \in Jobs \ {j} : KeyOf[k] = KeyOf[j] => committed[k] = NoPlan
  /\ committed' = [committed EXCEPT ![j] =
                     [before |-> position, after |-> position + DeltaOf[j]]]
  /\ UNCHANGED <<position, lastMover>>

(* A job carries out its committed plan, from one endpoint to the other. *)
Apply(j) ==
  /\ committed[j] \notin {NoPlan, Void}
  /\ lastMover # j
  /\ position = committed[j].before
  /\ position' = committed[j].after
  /\ lastMover' = j
  /\ UNCHANGED committed

(* What is known of a job is lost: it is out of the game for good. *)
Forget(j) ==
  /\ committed' = [committed EXCEPT ![j] = Void]
  /\ UNCHANGED <<position, lastMover>>

(* The project is changed by something that is not a move job. *)
Edit ==
  /\ position' \in Int
  /\ lastMover' = Other
  /\ UNCHANGED committed

Next ==
  \/ \E j \in Jobs : Commit(j) \/ Apply(j) \/ Forget(j)
  \/ Edit

Spec == Init /\ [][Next]_ledger
===============================================================================
