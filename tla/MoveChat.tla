-------------------------------- MODULE MoveChat -------------------------------
(***************************************************************************)
(* The deprecated chat: one sentence, one move_object job.  ChatService    *)
(* (chat_service.py) behind POST /api/chat and /api/projects/{id}/chat,    *)
(* the job status route (routes/jobs.py), the selector, and as much of the *)
(* reconciler and the worker as answers to an offer.                       *)
(*                                                                         *)
(* The chat routes are coroutines that never wait, so nothing else of the  *)
(* control plane runs while one does: only the process's end can fall      *)
(* between the commit of store.submit and that of store.save.  The client  *)
(* names the request; the job's id is made of that name, so the same id    *)
(* may be in use in another project.                                       *)
(***************************************************************************)
EXTENDS MoveSentence, FiniteSets

CONSTANTS
  Projects,    \* the projects the registry knows
  Requests,    \* the request ids clients use
  Sentences,   \* what they may write
  OtherPlans,  \* what another AgentProvider could make of one
  Elsewhere,   \* a project the registry does not know
  MaxBreaks    \* BOUND: how often the link or the control plane breaks

ASSUME ChatAssumption == MaxBreaks \in Nat /\ Elsewhere \notin Projects

VARIABLES
  rows,        \* the stored record of each project's job, if there is one
  lost,        \* whether the database was lost
  handling,    \* the chat request between its two commits
  registered,  \* whether the worker is connected
  occupied,    \* whether the manager knows a job the worker is at
  offers,      \* offers the worker has not received
  working,     \* what the worker carries out
  reports,     \* its reports, not yet observed
  journal,     \* how its journal ends each job
  promised,    \* the moves acknowledged under each request
  carried,     \* the moves carried out under each request
  told,        \* the requests a client was told were applied
  breaks

api == <<rows, lost, handling>>
link == <<registered, occupied, breaks>>
worker == <<offers, working, reports, journal>>
history == <<promised, carried, told>>
vars == <<api, link, worker, history>>

-------------------------------------------------------------------------------
(* A job is found by its project and its id, or its project and its key; all  *)
(* are made of the request.                                                   *)
Keys == Projects \X Requests
Terminal == {"succeeded", "failed"}

NoRow == {}
Row(status, move) == [status |-> status, move |-> move]
NoMove == {}    \* an adopted record has no job

Idle == [at |-> "idle"]

Init ==
  /\ rows = [k \in Keys |-> NoRow]
  /\ lost = FALSE
  /\ handling = Idle
  /\ registered = FALSE /\ occupied = FALSE
  /\ offers = {} /\ working = {} /\ reports = <<>>
  /\ journal = [k \in Keys |-> "none"]
  /\ promised = [k \in Keys |-> {}] /\ carried = [k \in Keys |-> {}]
  /\ told = {}
  /\ breaks = 0

(* SqliteJobRecordStore.save: a row is replaced, or put in if there is none.  *)
Saved(key, row) == [rows EXCEPT ![key] = {row}]

-------------------------------------------------------------------------------
(* submit_chat up to the store.                                               *)
Plans == {Interpret(sentence) : sentence \in Sentences} \cup OtherPlans

(* One buildable operation, or the request is refused: none of the providers' *)
(* errors, no plan of several operations and no other kind of job gets on.    *)
Understood(plan) ==
  plan.ok /\ Len(plan.operations) = 1 /\ Buildable(plan.operations[1])

Refuse == UNCHANGED vars

(* The path and the body must name the same project, one the registry knows. *)
WrongProject(path, project, request) ==
  /\ handling = Idle
  /\ path # project \/ project = Elsewhere
  /\ Refuse

NotUnderstood(plan) ==
  /\ handling = Idle
  /\ ~Understood(plan)
  /\ Refuse

(* _conflict: the id was used for another move.  A record without a           *)
(* fingerprint conflicts with none.                                           *)
NeverConflicts(row, move) == FALSE    \* mutant
Conflict(row, move) == row.move # NoMove /\ row.move # move

InFlight == {"claimed", "running"}

(* A queued job is offered again; one that has ended or is with a worker is  *)
(* only reported.                                                            *)
NeverReoffered(row) == FALSE    \* mutant
Reoffered(row) == row.status \notin Terminal \cup InFlight

(* _summary_for. *)
SummaryFor(row) ==
  CASE row.status = "succeeded" -> "applied"
    [] row.status = "failed" -> "not applied"
    [] OTHER -> "known"

(* The answer to a client, as far as it matters here. *)
Answer(summary, key) ==
  told' = IF summary = "applied" THEN told \cup {key} ELSE told

(* A request the store knows, and has no job to offer for. *)
ReportExisting(key, move) ==
  /\ handling = Idle
  /\ \E row \in rows[key] :
       IF Conflict(row, move)
         THEN UNCHANGED <<promised, told>>
         ELSE /\ ~Reoffered(row)
              /\ Answer(SummaryFor(row), key)
              /\ promised' = [promised EXCEPT ![key] = @ \cup move]
  /\ UNCHANGED <<api, link, worker, carried>>

(* store.submit: a new record, or the queued one. *)
Submit(key, move) ==
  /\ handling = Idle
  /\ \A row \in rows[key] : Reoffered(row) /\ ~Conflict(row, move)
  /\ rows' = IF rows[key] = NoRow THEN Saved(key, Row("queued", move)) ELSE rows
  /\ handling' = [at |-> "dispatch", key |-> key, move |-> move]
  /\ UNCHANGED <<lost, link, worker, history>>

-------------------------------------------------------------------------------
(* submit_chat from the selector on.                                          *)

(* No worker is registered and free: the record is kept for the next try. *)
NoWorkerReady ==
  /\ handling.at = "dispatch"
  /\ ~registered \/ occupied
  /\ handling' = Idle
  /\ UNCHANGED <<rows, lost, link, worker, history>>

(* The record's own job is offered; what this request says is the same. *)
OfferRecorded ==
  /\ handling.at = "dispatch"
  /\ registered /\ ~occupied
  /\ \E row \in rows[handling.key] :
       offers' = offers \cup {[key |-> handling.key, move |-> row.move]}
  /\ promised' = [promised EXCEPT ![handling.key] = @ \cup handling.move]
  /\ handling' = Idle
  /\ UNCHANGED <<rows, lost, link, working, reports, journal, carried, told>>

(* chat_response_for, of a record that has ended. *)
ChatResponseFor(row) ==
  IF row.status = "succeeded" THEN "applied" ELSE "not applied"

(* get_project_job, a pure read: a record's state, or that there is none. *)
Found(key) == IF key \in Keys THEN rows[key] ELSE NoRow
Ended(key) == {row \in Found(key) : row.status \in Terminal}

ReadJob(key) ==
  /\ handling = Idle
  /\ \/ Ended(key) = {} /\ UNCHANGED told
     \/ \E row \in Ended(key) : Answer(ChatResponseFor(row), key)
  /\ UNCHANGED <<api, link, worker, promised, carried>>

-------------------------------------------------------------------------------
(* The event loop observes what the worker reports.                           *)

LocateAnywhere(report) ==    \* mutant: the job's id alone
  {k \in Keys : k[2] = report.key[2] /\ rows[k] # NoRow}
Locate(report) == {report.key} \ {k \in Keys : rows[k] = NoRow}

(* The reconciler: a report changes an unfinished record; a result nobody has *)
(* a record of is adopted, and a rejection is not.                            *)
Reconciled(report) ==
  LET found == Locate(report)
      key == CHOOSE k \in found : TRUE
      row == CHOOSE r \in rows[key] : TRUE IN
  CASE found = {} /\ report.says \in Terminal /\ ~report.rejected ->
         Saved(report.key, Row(report.says, NoMove))
    [] found # {} /\ row.status \notin Terminal ->
         Saved(key, [row EXCEPT !.status = report.says])
    [] OTHER -> rows

(* The manager first: an acceptance occupies the worker, a result frees it. *)
Observe ==
  /\ handling = Idle /\ registered /\ reports # <<>>
  /\ LET report == Head(reports) IN
     /\ reports' = Tail(reports)
     /\ occupied' = CASE report.says = "claimed" -> TRUE
                      [] report.says \in Terminal /\ ~report.rejected -> FALSE
                      [] OTHER -> occupied
     /\ rows' = Reconciled(report)
  /\ UNCHANGED <<lost, handling, registered, breaks, offers, working, journal,
                 history>>

-------------------------------------------------------------------------------
(* The worker, one job at a time.  BOUND: it takes the next when its reports  *)
(* are observed.                                                              *)
Report(says, key) == [says |-> says, key |-> key, rejected |-> FALSE]
Rejection(key) == [says |-> "failed", key |-> key, rejected |-> TRUE]

Take(offer) ==
  /\ working = {} /\ reports = <<>>
  /\ offer \in offers
  /\ offers' = offers \ {offer}
  /\ \/ working' = {offer} /\ reports' = <<Report("claimed", offer.key)>>
     \/ working' = {offer} /\ reports' = <<Report("claimed", offer.key),
                                          Report("running", offer.key)>>
     \/ working' = {} /\ reports' = <<Rejection(offer.key)>>
  /\ UNCHANGED <<api, link, journal, history>>

(* What the journal holds as done is told again, not done again. *)
CarryOut(offer) ==
  /\ offer \in working /\ working' = {}
  /\ \/ /\ journal[offer.key] = "succeeded"
        /\ reports' = Append(reports, Report("succeeded", offer.key))
        /\ UNCHANGED <<journal, carried>>
     \/ /\ journal[offer.key] # "succeeded"
        /\ \E end \in Terminal :
             /\ journal' = [journal EXCEPT ![offer.key] = end]
             /\ reports' = Append(reports, Report(end, offer.key))
             /\ carried' = IF end = "succeeded"
                             THEN [carried EXCEPT ![offer.key] = @ \cup offer.move]
                             ELSE carried
  /\ UNCHANGED <<api, link, offers, promised, told>>

-------------------------------------------------------------------------------
(* Breaks.                                                                    *)
Connect ==
  /\ ~registered /\ registered' = TRUE
  /\ UNCHANGED <<api, occupied, breaks, worker, history>>

(* Acceptances and progress are gone with the link; a result, of which there *)
(* is one at most, is kept by the worker until it is sent, and may be lost    *)
(* once it is.                                                                *)
Cut ==
  /\ breaks < MaxBreaks /\ breaks' = breaks + 1
  /\ registered' = FALSE /\ occupied' = FALSE
  /\ offers' \in SUBSET offers
  /\ \/ reports' = <<>>
     \/ \E n \in DOMAIN reports :
          /\ reports[n].says \in Terminal /\ ~reports[n].rejected
          /\ reports' = <<reports[n]>>
  /\ UNCHANGED <<working, journal>>

LinkBreaks ==
  /\ registered
  /\ Cut
  /\ UNCHANGED <<api, history>>

(* The process ends and is started again, on its database or a new one. *)
RestartControlPlane ==
  /\ Cut /\ offers' = {}
  /\ handling' = Idle
  /\ \/ UNCHANGED <<rows, lost>>
     \/ rows' = [k \in Keys |-> NoRow] /\ lost' = TRUE
  /\ UNCHANGED history

-------------------------------------------------------------------------------
Moves == {{Content(plan.operations[1])} : plan \in {p \in Plans : Understood(p)}}

Chat ==
  \/ \E plan \in Plans : NotUnderstood(plan)
  \/ \E key \in Keys, move \in Moves : ReportExisting(key, move) \/ Submit(key, move)

Dispatch == NoWorkerReady \/ OfferRecorded
WorkerStep == \E offer \in offers \cup working : Take(offer) \/ CarryOut(offer)

Next ==
  \/ \E path, project \in Projects \cup {Elsewhere}, request \in Requests :
       WrongProject(path, project, request)
  \/ Chat
  \/ Dispatch
  \/ \E key \in (Projects \cup {Elsewhere}) \X Requests : ReadJob(key)
  \/ Observe \/ WorkerStep
  \/ Connect \/ LinkBreaks \/ RestartControlPlane

Spec == Init /\ [][Next]_vars

(* The machine connects again, the loop and the worker go on, and the client  *)
(* does what it was told: it sends the same request again.                    *)
Retry(key) == \E move \in Moves : Submit(key, move)

FairSpec ==
  /\ Spec
  /\ WF_vars(Connect) /\ WF_vars(Dispatch) /\ SF_vars(Observe) /\ WF_vars(WorkerStep)
  /\ \A key \in Keys : SF_vars(Retry(key))

-------------------------------------------------------------------------------
(* Properties. *)

TypeOK ==
  /\ \A k \in Keys : /\ Cardinality(rows[k]) <= 1
                     /\ \A row \in rows[k] : row.status \in {"queued"} \cup InFlight \cup Terminal
  /\ handling.at \in {"idle", "dispatch"}
  /\ Cardinality(working) <= 1

(* A request id stands for one move: whatever is acknowledged under it, and   *)
(* whatever is carried out for it, is the same, in whichever words it was     *)
(* asked for, however often and in whichever order.  Once the database is     *)
(* lost nobody knows what an id stood for.                                    *)
OneMovePerRequest ==
  ~lost => \A k \in Keys : \A a, b \in promised[k] \cup carried[k] : a = b

(* "A human-readable summary that never overstates what happened"             *)
(* (chat_service.py): a client that is told its change was applied asked for  *)
(* one that was carried out, in its own project, though another project's job *)
(* has the same id.                                                           *)
ToldAsItIs == \A k \in told : journal[k] = "succeeded"

(* "Retry the same request once a worker is connected" (NO_WORKER_MESSAGE):   *)
(* a queued job of a client that does so ends, whatever became of the offers  *)
(* made before, once link and control plane break no more.                    *)
RetriedRequestsEnd ==
  \A k \in Keys :
    (breaks = MaxBreaks /\ \E row \in rows[k] : row.status = "queued")
      ~> \E row \in rows[k] : row.status \in Terminal
===============================================================================
