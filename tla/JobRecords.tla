------------------------------- MODULE JobRecords ------------------------------
(***************************************************************************)
(* The control plane's record of one mutation identity: the turn thread    *)
(* that submits and offers the job (DesignChatService._create_job in       *)
(* design_chat.py) and the event loop that applies the worker's reports to *)
(* the record (JobReconciler in reconciliation.py), over the database      *)
(* store (storage/job_store.py).                                           *)
(*                                                                         *)
(* The two run on different threads; each works on its own copy of the row *)
(* and writes every column back.  TurnRunner lets one turn of a request    *)
(* run at a time, so there is one turn thread.  The worker is here only as *)
(* what it answers to an offer.                                            *)
(***************************************************************************)
EXTENDS Integers, Sequences

CONSTANTS
  Plans,        \* what the model may propose for the request, turn by turn
  MaxTurns,     \* BOUND: how often the user sends the request
  MaxRestarts,  \* BOUND: how often the control plane restarts
  NoRow, NoPlan

ASSUME ConstantsAssumption ==
  /\ MaxTurns \in Nat /\ MaxRestarts \in Nat
  /\ NoPlan \notin Plans

VARIABLES
  row,        \* the stored record of the job
  \* The turn thread.
  pc,         \* where _create_job is
  proposal,   \* the plan the model proposed in this turn
  copy,       \* the record the turn holds
  \* The event loop.
  report,     \* the worker's message being applied, if any
  loaded,     \* the record the reconciler found for it
  \* The worker and the way to it and back.
  toWorker,   \* offers not received
  toApi,      \* reports not observed
  working,    \* the plan being executed
  journal,    \* how the worker's journal ends the job
  \* Counters.
  turns, restarts,
  offered     \* how often the job was offered

turn == <<pc, proposal, copy>>
loop == <<report, loaded>>
worker == <<toWorker, toApi, working, journal>>
counters == <<turns, restarts, offered>>
vars == <<row, turn, loop, worker, counters>>

-------------------------------------------------------------------------------
(* JobRecord: its status, whether it names a worker, and the job it keeps. *)
Terminal == {"succeeded", "failed"}

Record(status, held, plan, adopted) ==
  [status |-> status, held |-> held, plan |-> plan, adopted |-> adopted]

Records == [status : {"queued", "claimed", "running"} \cup Terminal,
            held : BOOLEAN, plan : Plans \cup {NoPlan}, adopted : BOOLEAN]

ASSUME NoRowAssumption == NoRow \notin Records

Kinds == {"accepted", "progress", "rejected", "succeeded", "duplicate", "failed"}

Init ==
  /\ row = NoRow
  /\ pc = "idle" /\ proposal = NoPlan /\ copy = NoRow
  /\ report = "none" /\ loaded = NoRow
  /\ toWorker = <<>> /\ toApi = <<>>
  /\ working = NoPlan /\ journal = "none"
  /\ turns = 0 /\ restarts = 0 /\ offered = 0

-------------------------------------------------------------------------------
(* The turn thread. *)

(* The request is sent, or sent again; the model proposes a plan for it. *)
StartTurn(plan) ==
  /\ pc = "idle" /\ turns < MaxTurns
  /\ turns' = turns + 1
  /\ proposal' = plan
  /\ pc' = "submitting"
  /\ UNCHANGED <<row, copy, loop, worker, restarts, offered>>

EndTurn == pc' = "idle" /\ proposal' = NoPlan /\ copy' = NoRow

(* The store knows the mutation, by its key or, an adopted one, by job id. *)
Known == row # NoRow

SubmitNew ==
  /\ pc = "submitting" /\ ~Known
  /\ row' = Record("queued", FALSE, proposal, FALSE)
  /\ copy' = row'
  /\ pc' = "selecting"
  /\ UNCHANGED <<proposal, loop, worker, counters>>

Taken(record) == record.status \in Terminal \/ record.held

(* A duplicate that is finished or has a worker is reported, not offered. *)
ReportDuplicate ==
  /\ pc = "submitting" /\ Known /\ Taken(row)
  /\ EndTurn
  /\ UNCHANGED <<row, loop, worker, counters>>

(* Mutant of ResubmitQueued: a duplicate is offered whoever has it. *)
ResubmitAny ==
  /\ pc = "submitting" /\ Known
  /\ copy' = row
  /\ pc' = "selecting"
  /\ UNCHANGED <<row, proposal, loop, worker, counters>>

ResubmitQueued ==
  /\ pc = "submitting" /\ Known /\ ~Taken(row)
  /\ copy' = row
  /\ pc' = "selecting"
  /\ UNCHANGED <<row, proposal, loop, worker, counters>>

WorkerSelected ==
  /\ pc = "selecting"
  /\ pc' = "offering"
  /\ UNCHANGED <<row, proposal, copy, loop, worker, counters>>

(* No worker is ready: the record stays queued. *)
NoWorkerReady ==
  /\ pc = "selecting"
  /\ EndTurn
  /\ UNCHANGED <<row, loop, worker, counters>>

(* The job offered is the one built from this turn's proposal. *)
OfferJob ==
  /\ pc = "offering"
  /\ toWorker' = Append(toWorker, proposal)
  /\ offered' = offered + 1
  /\ pc' = "saving"
  /\ UNCHANGED <<row, proposal, copy, loop, toApi, working, journal, turns,
                 restarts>>

(* gateway.offer refuses a job that fails the contract. *)
OfferRaises ==
  /\ pc = "offering"
  /\ EndTurn
  /\ UNCHANGED <<row, loop, worker, counters>>

SaveOffered ==
  /\ pc = "saving"
  /\ row' = [copy EXCEPT !.held = TRUE]
  /\ EndTurn
  /\ UNCHANGED <<loop, worker, counters>>

-------------------------------------------------------------------------------
(* The event loop. *)

(* observe: the message is taken and _locate reads the record. *)
Locate ==
  /\ report = "none" /\ toApi # <<>>
  /\ report' = Head(toApi) /\ toApi' = Tail(toApi)
  /\ loaded' = row
  /\ UNCHANGED <<row, turn, toWorker, working, journal, counters>>

Applied ==
  /\ report' = "none" /\ loaded' = NoRow
  /\ UNCHANGED <<turn, worker, counters>>

(* Mutant of ApplyStatus: a finished record is not protected. *)
ApplyStatusAlways ==
  /\ report \in {"accepted", "progress"}
  /\ row' = IF loaded = NoRow THEN row
            ELSE [loaded EXCEPT
                    !.status = IF report = "accepted" THEN "claimed" ELSE "running",
                    !.held = TRUE]
  /\ Applied

(* _apply_status, for an acceptance and for progress. *)
ApplyStatus ==
  /\ report \in {"accepted", "progress"}
  /\ row' = IF loaded = NoRow \/ loaded.status \in Terminal THEN row
            ELSE [loaded EXCEPT
                    !.status = IF report = "accepted" THEN "claimed" ELSE "running",
                    !.held = TRUE]
  /\ Applied

(* Mutant of ApplyRejection: only a claimed job can be rejected. *)
ApplyClaimedRejection ==
  /\ report = "rejected"
  /\ row' = IF loaded = NoRow \/ loaded.status # "claimed" THEN row
            ELSE [loaded EXCEPT !.status = "failed", !.held = TRUE]
  /\ Applied

(* _apply_rejection. *)
ApplyRejection ==
  /\ report = "rejected"
  /\ row' = IF loaded = NoRow \/ loaded.status \in Terminal THEN row
            ELSE [loaded EXCEPT !.status = "failed", !.held = TRUE]
  /\ Applied

(* CANONICAL_STATUS_BY_WORKER_STATUS: "duplicate" is a success told again. *)
Canonical == IF report = "failed" THEN "failed" ELSE "succeeded"

(* _apply_result on a record: a finished one is at most saved again. *)
ApplyResult ==
  /\ report \in {"succeeded", "duplicate", "failed"}
  /\ loaded # NoRow
  /\ row' = CASE loaded.status \notin Terminal ->
                   [loaded EXCEPT !.status = Canonical, !.held = TRUE]
              [] loaded.status \in Terminal /\ report = "duplicate" -> loaded
              [] OTHER -> row
  /\ Applied

(* _adopt_orphan_result: the outcome of a job this process never recorded. *)
AdoptOrphan ==
  /\ report \in {"succeeded", "duplicate", "failed"}
  /\ loaded = NoRow
  /\ row' = Record(Canonical, TRUE, NoPlan, TRUE)
  /\ Applied

(* The process restarts: threads and unread messages are gone, the rows are  *)
(* there again unless it was given a new database, and the worker may resend *)
(* the result its journal holds.                                             *)
RestartControlPlane ==
  /\ restarts < MaxRestarts
  /\ restarts' = restarts + 1
  /\ row' \in {row, NoRow}
  /\ EndTurn
  /\ report' = "none" /\ loaded' = NoRow
  /\ toWorker' = <<>>
  /\ toApi' \in {<<>>} \cup
       (CASE journal = "succeeded" -> {<<"duplicate">>}
          [] journal = "failed"    -> {<<"failed">>}
          [] OTHER                 -> {})
  /\ UNCHANGED <<working, journal, turns, offered>>

-------------------------------------------------------------------------------
(* The worker, as the control plane sees it. *)

WorkerRejects ==
  /\ working = NoPlan /\ toWorker # <<>>
  /\ toWorker' = Tail(toWorker)
  /\ toApi' = Append(toApi, "rejected")
  /\ UNCHANGED <<row, turn, loop, working, journal, counters>>

WorkerAccepts ==
  /\ working = NoPlan /\ toWorker # <<>>
  /\ working' = Head(toWorker) /\ toWorker' = Tail(toWorker)
  /\ \/ toApi' = Append(toApi, "accepted")
     \/ toApi' = Append(Append(toApi, "accepted"), "progress")
  /\ UNCHANGED <<row, turn, loop, journal, counters>>

(* A result that had to wait for a new connection is told as a duplicate. *)
WorkerFinishes ==
  /\ working # NoPlan
  /\ working' = NoPlan
  /\ \/ /\ journal # "succeeded"
        /\ journal' = "succeeded"
        /\ \E word \in {"succeeded", "duplicate"} :
             toApi' = Append(toApi, word)
     \/ /\ journal # "succeeded"
        /\ journal' = "failed"
        /\ toApi' = Append(toApi, "failed")
     \/ /\ journal = "succeeded"
        /\ toApi' = Append(toApi, "duplicate")
        /\ UNCHANGED <<journal>>
  /\ UNCHANGED <<row, turn, loop, toWorker, counters>>

-------------------------------------------------------------------------------
TurnStep ==
  \/ SubmitNew \/ ReportDuplicate \/ ResubmitQueued \/ WorkerSelected
  \/ NoWorkerReady \/ OfferJob \/ OfferRaises \/ SaveOffered

LoopStep ==
  \/ Locate \/ ApplyStatus \/ ApplyRejection \/ ApplyResult \/ AdoptOrphan

WorkerAnswers == WorkerRejects \/ WorkerAccepts \/ WorkerFinishes

Next ==
  \/ \E plan \in Plans : StartTurn(plan)
  \/ TurnStep \/ LoopStep \/ WorkerAnswers
  \/ RestartControlPlane

Spec == Init /\ [][Next]_vars

(* Threads of a live process run on, and a worker answers what it is offered. *)
FairSpec ==
  Spec /\ WF_vars(TurnStep) /\ WF_vars(LoopStep) /\ WF_vars(WorkerAnswers)

-------------------------------------------------------------------------------
(* Properties. *)

TypeOK ==
  /\ row \in Records \cup {NoRow}
  /\ pc \in {"idle", "submitting", "selecting", "offering", "saving"}
  /\ proposal \in Plans \cup {NoPlan}
  /\ copy \in Records \cup {NoRow} /\ loaded \in Records \cup {NoRow}
  /\ report \in Kinds \cup {"none"}
  /\ toWorker \in Seq(Plans) /\ toApi \in Seq(Kinds)
  /\ working \in Plans \cup {NoPlan}
  /\ journal \in {"none"} \cup Terminal
  /\ turns \in 0 .. MaxTurns /\ restarts \in 0 .. MaxRestarts
  /\ offered \in 0 .. MaxTurns

(* The user is told of a success only if the worker's journal holds one. *)
SuccessIsTheWorkers ==
  row # NoRow /\ row.status = "succeeded" => journal = "succeeded"

(* However often the request is sent, the job is offered once per life of    *)
(* the control plane process.                                                *)
OfferedOnce == offered <= 1 + restarts

(* Only a process that lost its records ever adopts a result: the record is  *)
(* stored before a worker can hear of the job.                               *)
AdoptionMeansLoss == row # NoRow /\ row.adopted => restarts > 0

(* The worker's reports never take a finished record back, late, doubled or   *)
(* out of date as they may be: the turn's save is the only step that does.   *)
ReportsNeverRegress ==
  [][row # NoRow /\ row.status \in Terminal /\ pc # "saving"
       => \/ restarts' > restarts
          \/ row' # NoRow /\ row'.status = row.status]_vars

(* Once the turn has let go of a job that names a worker, the outcome still  *)
(* to come is recorded, unless the process is restarted first.               *)
Outstanding == toWorker # <<>> \/ working # NoPlan \/ toApi # <<>>

OfferedJobsEnd ==
  \A n \in 0 .. MaxRestarts :
    (pc = "idle" /\ row # NoRow /\ row.held /\ Outstanding /\ restarts = n)
      ~> (restarts > n \/ (row # NoRow /\ row.status \in Terminal))

-------------------------------------------------------------------------------
(* The inductive invariant, for the proofs of JobRecords_proofs. *)

(* What tells of a success: a report not yet applied, or a copy of the row. *)
Successes == {"succeeded", "duplicate"}

Says(record) == record # NoRow /\ record.status = "succeeded"

(* Each place a success can be read from holds one only if the journal does: *)
(* the way to the control plane, the report in hand, the two threads' copies *)
(* and the row itself.  SuccessIsTheWorkers is the last of them alone.       *)
HonestInv ==
  \/ journal = "succeeded"
  \/ /\ \A i \in 1 .. Len(toApi) : toApi[i] \notin Successes
     /\ report \notin Successes
     /\ ~Says(copy) /\ ~Says(loaded) /\ ~Says(row)

(* A thread past the store holds a record, unfinished when it read it, and a *)
(* plan; what it will still offer counts as sent.                            *)
PastStore == {"selecting", "offering", "saving"}

TurnInv ==
  /\ pc \in PastStore => copy # NoRow
  /\ copy # NoRow => copy.status \notin Terminal
  /\ pc # "idle" => proposal \in Plans
  /\ offered <= turns
  /\ pc \in {"submitting", "selecting", "offering"} => offered < turns

(* The one offer of this life of the process has left its mark on the row,   *)
(* or is about to; a thread that may still offer comes before it.            *)
OfferInv ==
  \/ offered <= restarts
  \/ /\ offered = 1 + restarts
     /\ pc \notin {"selecting", "offering"}
     /\ pc = "saving" \/ (row # NoRow /\ Taken(row))

(* A process that has all its records has one for whatever it hears of.      *)
AdoptInv ==
  \/ restarts > 0
  \/ /\ (pc \in PastStore \/ toWorker # <<>> \/ working # NoPlan \/ toApi # <<>>)
          => row # NoRow
     /\ report # "none" => loaded # NoRow /\ row # NoRow
     /\ \A record \in {row, copy, loaded} : record # NoRow => ~record.adopted

(* While a report is applied, the row can become unfinished (the turn saves  *)
(* its copy) but not finished: a finished row is as the report found it.     *)
LoopInv ==
  report # "none" /\ row # NoRow /\ row.status \in Terminal
    => loaded # NoRow /\ loaded.status = row.status

(* Row, threads and channels agree: the record is as good as what it is    *)
(* built from.                                                             *)
IndInv == TypeOK /\ HonestInv /\ TurnInv /\ OfferInv /\ AdoptInv /\ LoopInv
===============================================================================
