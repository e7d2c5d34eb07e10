------------------------------- MODULE Workspace --------------------------------
(***************************************************************************)
(* The control plane's work on one project, all of it together: messages   *)
(* and decisions on turn threads, uploads and the worker's reports on the  *)
(* event loop, deletions on the threads of their requests                  *)
(* (routes/projects.py, routes/workspace.py), and restarts.                *)
(***************************************************************************)
EXTENDS DesignTurns

CONSTANTS
  Casts,        \* BOUND: which of the actors take part, one set for each case
  MaxRestarts   \* BOUND: how often the control plane restarts

VARIABLES
  cast,      \* the actors of this behaviour
  opening,   \* where a request to open or rename the project is
  erasing,   \* where the deletion of the project is
  quiet,     \* HISTORY: nothing else was under way while it was deleted
  erased,    \* HISTORY: the project has been deleted
  orphans,   \* HISTORY: the artifacts that a restart kept from being recorded
  restarts

erasure == <<erasing, quiet, erased, orphans>>
vars == <<store, grounding, workerSide, pc, loop, requests, inTurn, opening,
          erasure, restarts, cast>>

Init ==
  /\ StoreInit /\ ReadsInit /\ UploadsInit /\ TurnsInit
  /\ cast \in Casts
  /\ opening = "no"
  /\ erasing = [at |-> "no"] /\ quiet = FALSE /\ erased = FALSE /\ orphans = {}
  /\ restarts = 0

-------------------------------------------------------------------------------
(* Nothing of the project is being done, on the worker neither. *)
AllIdle ==
  /\ \A thread \in Threads : ~Live(thread)
  /\ loop = Free /\ reports = <<>> /\ offers = <<>> /\ opening # "found"
  /\ \A u \in Uploads : uploading[u] # "waits" /\ deleting[u].at \in {"no", "over"}

ErasureLeaves ==
  UNCHANGED <<pc, grounding, workerSide, loop, requests, inTurn, opening,
              orphans, restarts, cast>>

(* delete_project: the name was typed right; its artifacts are listed. *)
ListArtifacts ==
  /\ erasing.at = "no" /\ "erase" \in cast
  /\ KnownProject /\ AdoptProject
  /\ erasing' = [at |-> "rows", listed |-> artifacts]
  /\ quiet' = AllIdle
  /\ UNCHANGED <<references, otherRows, bytes, erased>> /\ ErasureLeaves

(* The rows go in one transaction. *)
EraseRows ==
  /\ erasing.at = "rows"
  /\ DeleteRows
  /\ erasing' = [erasing EXCEPT !.at = "files"]
  /\ erased' = TRUE
  /\ UNCHANGED <<bytes, quiet>> /\ ErasureLeaves

EraseFiles ==
  /\ erasing.at = "files"
  /\ DeleteProjectFiles
  /\ erasing' = [erasing EXCEPT !.at = "artifacts"]
  /\ UNCHANGED <<rows, artifactBytes, quiet, erased>> /\ ErasureLeaves

EraseArtifacts ==
  /\ erasing.at = "artifacts"
  /\ artifactBytes' = artifactBytes \ erasing.listed
  /\ erasing' = [at |-> "over"]
  /\ UNCHANGED <<rows, files, copies, quiet, erased>> /\ ErasureLeaves

-------------------------------------------------------------------------------
Ended(place) == IF place = "off" THEN "off" ELSE "over"

(* The process dies and starts again: threads, requests and messages are     *)
(* gone; the tables and the bytes are there.                                 *)
RestartControlPlane ==
  /\ "restart" \in cast
  /\ restarts < MaxRestarts /\ restarts' = restarts + 1
  /\ pc' = [t \in Threads |-> Ended(pc[t])]
  /\ inFlight' = FALSE /\ offers' = <<>> /\ reports' = <<>> /\ loop' = Free
  /\ uploading' = [u \in Uploads |-> IF uploading[u] = "no" THEN "no" ELSE "over"]
  /\ deleting' = [u \in Uploads |-> [at |-> IF deleting[u].at = "no" THEN "no" ELSE "over"]]
  /\ opening' = IF opening = "no" THEN "no" ELSE "over"
  /\ erasing' = [at |-> IF erasing.at = "no" THEN "no" ELSE "over"]
  /\ quiet' = FALSE /\ orphans' = orphans \cup (artifactBytes \ artifacts)
  /\ UNCHANGED <<store, blend, inTurn, erased, cast>>

-------------------------------------------------------------------------------
(* While a step of another is taken, a deletion under way is not alone. *)
Alongside == quiet' = FALSE /\ UNCHANGED <<erasing, erased, orphans, restarts, cast>>
Besides == Alongside /\ UNCHANGED opening

(* open_project and rename_project, each on a thread of its own: the project  *)
(* is looked up, and then its row is made sure of before it is marked.        *)
OpenProject ==
  /\ "open" \in cast /\ opening = "no"
  /\ AdoptProject
  /\ opening' = IF KnownProject THEN "found" ELSE "over"
  /\ UNCHANGED <<references, otherRows, bytes, pc, grounding, workerSide, loop,
                 requests, inTurn>> /\ Alongside

MarkOpened ==
  /\ opening = "found"
  /\ EnsureProject
  /\ opening' = "over"
  /\ UNCHANGED <<references, otherRows, bytes, pc, grounding, workerSide, loop,
                 requests, inTurn>> /\ Alongside

MessageArrives(t, s) == t \in cast /\ Submit(t, s) /\ Besides

TurnGoesOn(t) == TurnStep(t) /\ Besides
JobGoesOn(thread) == JobStep(thread) /\ Besides
ReadGoesOn(thread) == ReadStep(thread) /\ UNCHANGED <<requests, inTurn>> /\ Besides

UserDecides(t) == \E call \in Calls : call \in cast /\ Decide(t, call) /\ Besides

WorkerSaysHello ==
  "hello" \in cast /\ HelloArrives /\ UNCHANGED <<requests, inTurn>> /\ Besides

WorkerWorks == WorkerStep /\ UNCHANGED <<requests, inTurn>> /\ Besides
ReportIsObserved == ReporterStep /\ UNCHANGED <<requests, inTurn>> /\ Besides

UploadGoesOn(u) == u \in cast /\ UploadStep(u) /\ UNCHANGED inTurn /\ Besides
IngestGoesOn == Ingest /\ UNCHANGED inTurn /\ Besides

Erase == ListArtifacts \/ EraseRows \/ EraseFiles \/ EraseArtifacts

Next ==
  \/ \E t \in Turns, s \in Sessions : MessageArrives(t, s)
  \/ \E t \in Turns : TurnGoesOn(t) \/ UserDecides(t)
  \/ \E thread \in Threads : JobGoesOn(thread) \/ ReadGoesOn(thread)
  \/ WorkerSaysHello \/ WorkerWorks \/ ReportIsObserved
  \/ \E u \in Uploads : UploadGoesOn(u)
  \/ IngestGoesOn
  \/ OpenProject \/ MarkOpened
  \/ Erase
  \/ RestartControlPlane

Spec == Init /\ [][Next]_vars

(* Threads of a live process run on; the model answers or fails in time, and *)
(* a wait for the scene has a deadline.  Nobody has to send anything, and    *)
(* the worker need not answer.                                               *)
FairSpec ==
  /\ Spec
  /\ \A t \in Turns : WF_vars(TurnGoesOn(t))
  /\ \A thread \in Threads : WF_vars(JobGoesOn(thread)) /\ WF_vars(ReadGoesOn(thread))

-------------------------------------------------------------------------------
(* Properties. *)

TypeOK ==
  /\ StoreTypeOK
  /\ inFlight \in BOOLEAN /\ blend \in 1 .. MaxScene

(* Whatever a turn leaves behind - a question, a parked plan, a job - the     *)
(* transcript has the user's words it came from, wherever the process died,  *)
(* until the project is deleted.                                             *)
Said(request) ==
  \E i \in DOMAIN transcript :
    transcript[i] = [role |-> "user", request |-> request]

EffectsAreExplained ==
  \/ erased
  \/ /\ \A i \in DOMAIN clarifications : Said(RequestOf[clarifications[i].turn])
     /\ \A t \in Turns : approvals[t] # Nobody => Said(RequestOf[t])
     /\ \A j \in Identities : jobs[j] # Nobody => Said(j[1])

(* A reference or a page the project lists can be fetched and sent to the     *)
(* model, whatever is uploaded, deleted or interrupted: only the deletion of *)
(* the project can pull the bytes away from under an upload.                 *)
RowsHaveFiles ==
  erased \/ \A r \in references : HasContent(r.id)

(* A plan with a step that needs approval reaches the worker only if the     *)
(* user approved that very plan, though two decisions of it cross; and the   *)
(* row says the contrary only if the user did (ApprovalRepository.decide).    *)
FlaggedRunsOnlyIfApproved ==
  \A i \in DOMAIN offers :
    offers[i] # ReadJob /\ Flagged(offers[i].plan) /\ ~erased
      => LET t == offers[i].plan.turn IN
         /\ approvals[t] # Nobody /\ approvals[t].plan = offers[i].plan
         /\ "approved" \in said[t] /\ approvals[t].decision \in said[t]

(* A deletion nothing else interfered with leaves nothing of the project: no  *)
(* row, no upload, no copy, and of its artifacts only those whose report the *)
(* control plane lost when it was restarted, before a row said they exist.   *)
DeletionIsComplete ==
  [][erasing.at = "artifacts" /\ erasing'.at = "over" /\ quiet'
       => (~project /\ Nothing /\ artifactBytes \subseteq orphans)']_vars

(* A turn ends, whoever else waits for the scene it needs, whether or not a  *)
(* worker ever reports it.                                                   *)
TurnsEnd ==
  \A t \in Turns : pc[Message(t)] = "telling" ~> pc[Message(t)] = "over"

===============================================================================
