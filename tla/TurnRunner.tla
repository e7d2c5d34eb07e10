------------------------------- MODULE TurnRunner ------------------------------
(***************************************************************************)
(* TurnRunner (studio_api/turns.py): design turns started in the           *)
(* background on a small thread pool, joined while in flight and polled    *)
(* for their result.  A turn costs one call of the model.                  *)
(*                                                                         *)
(* The tables of the runner are changed under its lock, so start and       *)
(* _remember are one step; handing the turn to the pool is another one,    *)
(* made after the lock is released.                                        *)
(***************************************************************************)
EXTENDS Integers, Sequences, FiniteSets

CONSTANTS
  TurnIds,       \* turn ids, in the order they are drawn
  Keys,        \* requests and approvals, by project
  History,     \* how many turns the runner remembers
  PoolSize,    \* threads of the pool
  NoKey, NoTurn

ASSUME RunnerAssumption ==
  /\ History \in Nat \ {0} /\ PoolSize \in Nat \ {0}
  /\ NoKey \notin Keys /\ NoTurn \notin TurnIds

VARIABLES
  keyOf,      \* the request of each turn that was started
  state,      \* where each turn has got to
  table,      \* _turns: the turns a poll can find
  byRequest,  \* _by_request: the turn a retry of the request joins
  order,      \* _order: the remembered turns, oldest first
  handing,    \* turns remembered, not yet given to the pool
  pool,       \* turns waiting for a thread
  running,    \* turns on a thread
  closed      \* whether the pool was shut down

tables == <<table, byRequest, order>>
runnerVars == <<keyOf, state, tables, handing, pool, running, closed>>

-------------------------------------------------------------------------------
Finished == {"ready", "failed"}
Started == {t \in TurnIds : keyOf[t] # NoKey}

RunnerInit ==
  /\ keyOf = [t \in TurnIds |-> NoKey]
  /\ state = [t \in TurnIds |-> "thinking"]
  /\ table = {} /\ byRequest = [k \in Keys |-> NoTurn] /\ order = <<>>
  /\ handing = {} /\ pool = <<>> /\ running = {} /\ closed = FALSE

(* Mutant of InFlight: only a turn that got a thread is in flight. *)
InFlightOnThread(key) == byRequest[key] \in running

(* _in_flight: the unfinished turn the request has, as the tables know it. *)
InFlight(key) ==
  byRequest[key] \in table /\ state[byRequest[key]] \notin Finished

Without(mapping, oldest) ==
  [k \in Keys |-> IF mapping[k] = oldest THEN NoTurn ELSE mapping[k]]

(* _remember: past the history the oldest turn is dropped, finished or not. *)
Remember(turn, mapping, all) ==
  IF Len(all) <= History
    THEN /\ table' = table \cup {turn}
         /\ byRequest' = mapping
         /\ order' = all
    ELSE /\ table' = (table \cup {turn}) \ {Head(all)}
         /\ byRequest' = Without(mapping, Head(all))
         /\ order' = Tail(all)

-------------------------------------------------------------------------------
(* start, start_decision: a new turn for a request that has none in flight. *)
(* Joining the one in flight changes nothing.                               *)
Start(turn, key) ==
  /\ keyOf[turn] = NoKey /\ ~InFlight(key)
  /\ keyOf' = [keyOf EXCEPT ![turn] = key]
  /\ Remember(turn, [byRequest EXCEPT ![key] = turn], Append(order, turn))
  /\ handing' = handing \cup {turn}
  /\ UNCHANGED <<state, pool, running, closed>>

(* The pool takes the turn, or raises to the caller once it is shut down. *)
HandOver(turn) ==
  /\ turn \in handing
  /\ handing' = handing \ {turn}
  /\ pool' = IF closed THEN pool ELSE Append(pool, turn)
  /\ UNCHANGED <<keyOf, state, tables, running, closed>>

(* A thread takes the turn and calls the model. *)
Run ==
  /\ pool # <<>> /\ Cardinality(running) < PoolSize
  /\ running' = running \cup {Head(pool)}
  /\ pool' = Tail(pool)
  /\ UNCHANGED <<keyOf, state, tables, handing, closed>>

(* Mutant of Finish: a turn that raises is left as it is. *)
FinishUnlessRaised(turn, outcome) ==
  /\ turn \in running
  /\ running' = running \ {turn}
  /\ state' = IF outcome = "ready" THEN [state EXCEPT ![turn] = outcome] ELSE state
  /\ UNCHANGED <<keyOf, tables, handing, pool, closed>>

(* _run: the turn's result, or the failure made of what it raised. *)
Finish(turn, outcome) ==
  /\ turn \in running
  /\ running' = running \ {turn}
  /\ state' = [state EXCEPT ![turn] = outcome]
  /\ UNCHANGED <<keyOf, tables, handing, pool, closed>>

(* GET design-chat/{turn}: where the turn has got to, its outcome, or that   *)
(* it "is no longer being tracked. Send it again."                           *)
Polled(turn) == IF turn \in table THEN state[turn] ELSE "untracked"

(* close: what waits is cancelled, what runs is not waited for. *)
Close ==
  /\ ~closed /\ closed' = TRUE
  /\ pool' = <<>>
  /\ UNCHANGED <<keyOf, state, tables, handing, running>>

-------------------------------------------------------------------------------
PoolWork ==
  \/ \E t \in TurnIds : HandOver(t)
  \/ Run
  \/ \E t \in TurnIds : \E outcome \in Finished : Finish(t, outcome)

RunnerNext ==
  \/ \E t \in TurnIds, k \in Keys : Start(t, k)
  \/ PoolWork
  \/ Close

RunnerSpec == RunnerInit /\ [][RunnerNext]_runnerVars

(* Handlers and pool threads run on, and a model call ends: the providers    *)
(* give it a timeout.  Nobody has to send a request.                         *)
FairRunner == RunnerSpec /\ WF_runnerVars(PoolWork)

-------------------------------------------------------------------------------
(* Properties. *)

RunnerTypeOK ==
  /\ keyOf \in [TurnIds -> Keys \cup {NoKey}]
  /\ state \in [TurnIds -> {"thinking"} \cup Finished]
  /\ table \subseteq TurnIds
  /\ byRequest \in [Keys -> TurnIds \cup {NoTurn}]
  /\ order \in Seq(TurnIds) /\ pool \in Seq(TurnIds)
  /\ handing \subseteq TurnIds /\ running \subseteq TurnIds
  /\ closed \in BOOLEAN

(* Of the turns a poll finds thinking, no two are of one request: a retry     *)
(* joins the turn that is still at work.                                     *)
OneLiveTurnPerRequest ==
  \A t, u \in Started :
    Polled(t) = "thinking" /\ Polled(u) = "thinking" /\ keyOf[t] = keyOf[u] => t = u

(* A turn that was started ends, unless the runner is closed first: nobody    *)
(* polls for ever for one that still thinks.                                 *)
TurnsFinish ==
  \A t \in TurnIds : (t \in Started) ~> (state[t] \in Finished \/ closed)
===============================================================================
