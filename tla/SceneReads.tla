------------------------------- MODULE SceneReads -------------------------------
(***************************************************************************)
(* SceneGrounder (scene_grounding.py) reads the Blender scene before a     *)
(* first turn or when a worker says hello; SceneReporter                   *)
(* (scene_reporting.py) copies what the worker reports into the tables.    *)
(* The worker is here as the order it does its jobs in and what it says of *)
(* them.  A read's own job record is left out: nothing else looks at it.   *)
(***************************************************************************)
EXTENDS WorkspaceStore

VARIABLES
  pc,        \* where each thread is
  inFlight,  \* _in_flight: whether a read of the project is said to be out
  offers,    \* jobs on their way to the worker, and in its hands
  blend,     \* the version of the Blender scene
  reports,   \* results on their way to the event loop
  loop       \* what the event loop has in hand

(* A thread of a turn runs it, or its user's decision on what it parked: the  *)
(* first one, or one made again.                                              *)
Startup == <<Nobody, "startup">>
Threads == (Turns \X {"message", "decision", "again"}) \cup {Startup}

grounding == <<inFlight, offers>>
workerSide == <<blend, reports>>

Free == [at |-> "free"]
ReadJob == [read |-> TRUE]
NoVersion == 0

ReadsInit ==
  /\ pc = [t \in Threads |-> "off"]
  /\ inFlight = FALSE /\ offers = <<>>
  /\ blend = 1 /\ reports = <<>> /\ loop = Free

Goto(thread, place) == pc' = [pc EXCEPT ![thread] = place]

(* A turn goes on without a scene if it has to: _read and ensure never raise. *)
LeaveGrounding(thread) ==
  Goto(thread, IF thread = Startup THEN "over" ELSE "building")

-------------------------------------------------------------------------------
(* observe, on WORKER_HELLO: a configured project with no scene is read ahead. *)
HelloArrives ==
  /\ loop = Free /\ pc[Startup] = "off" /\ Configured
  /\ Goto(Startup, IF scene = NoVersion THEN "reading" ELSE "over")
  /\ UNCHANGED <<store, inFlight, offers, workerSide, loop>>

(* Mutant of Ensure: a read under way is not waited for, and not left to run. *)
EnsureAnew(thread) ==
  /\ pc[thread] = "grounding"
  /\ \/ scene # NoVersion /\ LeaveGrounding(thread)
     \/ scene = NoVersion /\ inFlight /\ UNCHANGED pc
     \/ scene = NoVersion /\ ~inFlight /\ Goto(thread, "reading")
  /\ UNCHANGED <<store, inFlight, offers, workerSide, loop>>

(* ensure: nothing to do, a read to wait for, or a read to make. *)
Ensure(thread) ==
  /\ pc[thread] = "grounding"
  /\ \/ scene # NoVersion /\ LeaveGrounding(thread)
     \/ scene = NoVersion /\ inFlight /\ Goto(thread, "awaiting")
     \/ scene = NoVersion /\ ~inFlight /\ Goto(thread, "reading")
  /\ UNCHANGED <<store, inFlight, offers, workerSide, loop>>

(* _read, to the offer; no worker, or an offer that raises, is no scene. *)
OfferRead(thread) ==
  /\ pc[thread] = "reading"
  /\ \/ offers' = Append(offers, ReadJob) /\ Goto(thread, "marking")
     \/ LeaveGrounding(thread) /\ UNCHANGED offers
  /\ UNCHANGED <<store, inFlight, workerSide, loop>>

(* _read, after the offer: only now is the read known to be in flight. *)
MarkInFlight(thread) ==
  /\ pc[thread] = "marking"
  /\ inFlight' = TRUE
  /\ Goto(thread, IF thread = Startup THEN "over" ELSE "awaiting")
  /\ UNCHANGED <<store, offers, workerSide, loop>>

(* _await_scene: the scene is there, or the time is up. *)
SceneIsThere(thread) ==
  /\ pc[thread] = "awaiting" /\ scene # NoVersion
  /\ inFlight' = FALSE /\ LeaveGrounding(thread)
  /\ UNCHANGED <<store, offers, workerSide, loop>>

WaitIsOver(thread) ==
  /\ pc[thread] = "awaiting"
  /\ inFlight' = FALSE /\ LeaveGrounding(thread)
  /\ UNCHANGED <<store, offers, workerSide, loop>>

-------------------------------------------------------------------------------
(* The worker does its jobs in turn; a plan changes the scene and exports a  *)
(* model, whose bytes are in the artifact store before the result is sent.   *)
Report(version, artifact) == [version |-> version, artifact |-> artifact]

WorkerReads ==
  /\ offers # <<>> /\ Head(offers) = ReadJob
  /\ offers' = Tail(offers)
  /\ reports' = Append(reports, Report(blend, FALSE))
  /\ UNCHANGED <<store, pc, inFlight, blend, loop>>

WorkerRunsPlan ==
  /\ offers # <<>> /\ Head(offers) # ReadJob /\ blend < MaxScene
  /\ offers' = Tail(offers)
  /\ blend' = blend + 1
  /\ artifactBytes' = artifactBytes \cup {blend'}
  /\ reports' = Append(reports, Report(blend', TRUE))
  /\ UNCHANGED <<rows, files, copies, pc, inFlight, loop>>

(* A job that is refused or fails reports no scene. *)
WorkerRefuses ==
  /\ offers # <<>>
  /\ offers' = Tail(offers)
  /\ UNCHANGED <<store, pc, inFlight, workerSide, loop>>

-------------------------------------------------------------------------------
(* SceneReporter on the event loop: the scene, then the artifact. *)
ObserveScene ==
  /\ loop = Free /\ reports # <<>>
  /\ PutScene(Head(reports).version)
  /\ reports' = Tail(reports)
  /\ loop' = IF Head(reports).artifact
               THEN [at |-> "artifact", version |-> Head(reports).version]
               ELSE Free
  /\ UNCHANGED <<project, references, deliveries, facts, transcript,
                 clarifications, approvals, jobs, artifacts, bytes, pc,
                 grounding, blend>>

ObserveArtifact ==
  /\ loop.at = "artifact"
  /\ RecordArtifact(loop.version)
  /\ loop' = Free
  /\ UNCHANGED <<project, references, deliveries, facts, transcript,
                 clarifications, approvals, jobs, scene, bytes, pc, grounding,
                 workerSide>>

-------------------------------------------------------------------------------
ReadStep(thread) ==
  \/ Ensure(thread) \/ OfferRead(thread) \/ MarkInFlight(thread)
  \/ SceneIsThere(thread) \/ WaitIsOver(thread)

WorkerStep == WorkerReads \/ WorkerRunsPlan \/ WorkerRefuses
ReporterStep == ObserveScene \/ ObserveArtifact
===============================================================================
