---------------------------- MODULE ResultDelivery ----------------------------
(***************************************************************************)
(* How the outcome of a job travels from the workstation to the control    *)
(* plane: WorkerLinkClient and the worker's main loop (link/client.py,     *)
(* main.py) with the "result_delivered" flag of the journal at one end,    *)
(* WorkerGateway and JobReconciler (worker_link/gateway.py,                *)
(* reconciliation.py) at the other, and connections that drop in between.  *)
(*                                                                         *)
(* One worker process; what execute() does to Blender is the subject of    *)
(* MoveExecutor and CapabilityExecutor, and is one step here, with the     *)
(* outcomes those modules allow.  Progress reports, heartbeats and pings   *)
(* carry nothing a result depends on and are left out, and so is a worker  *)
(* whose token is refused.                                                 *)
(***************************************************************************)
EXTENDS Integers, Sequences, FiniteSets

CONSTANTS
  Jobs,           \* jobs of one worker
  Identity,       \* the mutation identity of each
  MaxOffers,      \* BOUND: how often each job is offered
  MaxDrops,       \* BOUND: how often the connection is lost
  MaxCrashes,     \* BOUND: how often the worker process dies
  NoJob

ASSUME ConstantsAssumption ==
  /\ MaxOffers \in [Jobs -> Nat] /\ MaxDrops \in Nat /\ MaxCrashes \in Nat
  /\ NoJob \notin Jobs

VARIABLES
  \* The workstation's disk.
  phase,      \* where the journal has each job
  carried,    \* jobs whose record shows all of them carried out, whatever
              \* its phase says
  delivered,  \* the journal's result_delivered flag
  \* The worker process.
  pc,         \* where the main loop is
  job,        \* the job it is handling
  outcome,    \* the status it is about to report
  sent,       \* whether that report could be handed to the transport
  pending,    \* the undelivered results reconcile() has still to resend
  unreachable,\* whether last_error says the control plane was unreachable
  \* The connection.
  link,       \* whether it is alive
  uplink,     \* worker's messages the control plane has not handled yet
  downlink,   \* offers the worker has not received yet
  \* The control plane.
  known,      \* the status of each job record
  chosen,     \* jobs a worker was selected for, not offered yet
  attached,   \* whether the gateway holds a sink for the worker
  busy,       \* whether the manager takes the worker for busy
  queued,     \* offers kept until the worker is back
  \* The world.
  lossy,      \* whether a drop may lose what was already sent, a connection
              \* die before it is registered, and the control plane restart
              \* with messages unread; never changes
  unsupported,\* jobs whose type this worker does not serve; never changes
  offers, drops, crashes

disk == <<phase, carried, delivered>>
worker == <<pc, job, outcome, sent, pending, unreachable>>
channel == <<link, uplink, downlink>>
control == <<known, chosen, attached, busy, queued>>
counters == <<lossy, unsupported, offers, drops, crashes>>
vars == <<disk, worker, channel, control, counters>>

-------------------------------------------------------------------------------
(* The journal's phases, coarsened to what delivery depends on. *)
TerminalPhases == {"completed", "failed"}
Terminal == {"succeeded", "failed"}

Reports == [kind : {"accepted", "rejected"}, job : Jobs]
             \cup [kind : {"result"}, job : Jobs,
                   status : {"succeeded", "duplicate", "failed"}]

Init ==
  /\ phase = [j \in Jobs |-> "absent"]
  /\ carried = {}
  /\ delivered = [j \in Jobs |-> FALSE]
  /\ pc = "connecting" /\ job = NoJob /\ outcome = "none" /\ sent = FALSE
  /\ pending = {} /\ unreachable = FALSE
  /\ link = FALSE /\ uplink = <<>> /\ downlink = <<>>
  /\ known = [j \in Jobs |-> "queued"]
  /\ chosen = {} /\ attached = FALSE /\ busy = FALSE /\ queued = <<>>
  /\ lossy \in BOOLEAN /\ unsupported \in SUBSET Jobs
  /\ offers = [j \in Jobs |-> 0] /\ drops = 0 /\ crashes = 0

Goto(label) == pc' = label

(* _safe_send: a message is handed to a live connection or it is not sent. *)
SafeSend(message) ==
  /\ uplink' = IF link THEN Append(uplink, message) ELSE uplink
  /\ UNCHANGED <<link, downlink>>

Report(j, status) == [kind |-> "result", job |-> j, status |-> status]

-------------------------------------------------------------------------------
(* Connecting: register_with_retry. *)

(* The handshake succeeds: hello, registration, and on the other side the    *)
(* sink is attached and the offers kept for the worker are flushed to it.    *)
Register ==
  /\ pc = "connecting" /\ ~link
  /\ link' = TRUE
  /\ attached' = TRUE /\ busy' = FALSE
  /\ downlink' = queued /\ queued' = <<>>
  /\ Goto("listing")
  /\ UNCHANGED <<disk, job, outcome, sent, pending, unreachable, uplink, known,
                 chosen, counters>>

(* The control plane is not there: retried with backoff. *)
ConnectFails ==
  /\ pc = "connecting" /\ ~link /\ ~unreachable
  /\ unreachable' = TRUE
  /\ UNCHANGED <<disk, pc, job, outcome, sent, pending, channel, control,
                 counters>>

(* The connection opens and dies, or stays silent, before the registration   *)
(* reply: await_registration sets no error, so what last_error held before   *)
(* decides whether the worker tries again.                                   *)
HandshakeDies ==
  /\ lossy
  /\ pc = "connecting" /\ ~link
  /\ ~unreachable
  /\ Goto("exited")
  /\ UNCHANGED <<disk, job, outcome, sent, pending, unreachable, channel,
                 control, counters>>

-------------------------------------------------------------------------------
(* reconcile(): after every registration. *)

(* Mutant of ListUndelivered: failures are not worth resending. *)
ListUndeliveredSuccesses ==
  /\ pc = "listing"
  /\ pending' = {j \in Jobs : phase[j] = "completed" /\ ~delivered[j]}
  /\ Goto("resending")
  /\ UNCHANGED <<disk, job, outcome, sent, unreachable, channel, control,
                 counters>>

(* undelivered_results(): the terminal records not marked as delivered. *)
ListUndelivered ==
  /\ pc = "listing"
  /\ pending' = {j \in Jobs : phase[j] \in TerminalPhases /\ ~delivered[j]}
  /\ Goto("resending")
  /\ UNCHANGED <<disk, job, outcome, sent, unreachable, channel, control,
                 counters>>

(* Mutant of ResendStatus: whatever is in the journal was done. *)
ResendAsDone(j) == "duplicate"

ResendStatus(j) == IF phase[j] = "completed" THEN "duplicate" ELSE "failed"

Resend(j) ==
  /\ pc = "resending" /\ j \in pending
  /\ SafeSend(Report(j, ResendStatus(j)))
  /\ pending' = pending \ {j}
  /\ IF link THEN Goto("marking_resent") /\ job' = j
             ELSE UNCHANGED <<pc, job>>
  /\ UNCHANGED <<disk, outcome, sent, unreachable, control, counters>>

MarkResent ==
  /\ pc = "marking_resent"
  /\ delivered' = [delivered EXCEPT ![job] = TRUE]
  /\ Goto("resending") /\ job' = NoJob
  /\ UNCHANGED <<phase, carried, outcome, sent, pending, unreachable, channel,
                 control, counters>>

Reconciled ==
  /\ pc = "resending" /\ pending = {}
  /\ Goto("ready")
  /\ UNCHANGED <<disk, job, outcome, sent, pending, unreachable, channel,
                 control, counters>>

-------------------------------------------------------------------------------
(* handle_next() and _handle_job_offer(). *)

(* The receive fails: the loop registers again. *)
NoticeDrop ==
  /\ pc = "ready" /\ ~link
  /\ Goto("connecting")
  /\ UNCHANGED <<disk, job, outcome, sent, pending, unreachable, channel,
                 control, counters>>

(* _rejection_reason: nothing of the job is executed or journalled. *)
Reject ==
  /\ pc = "ready" /\ link /\ downlink # <<>>
  /\ Head(downlink) \in unsupported
  /\ uplink' = Append(uplink, [kind |-> "rejected", job |-> Head(downlink)])
  /\ downlink' = Tail(downlink)
  /\ UNCHANGED <<disk, worker, link, control, counters>>

Accept ==
  /\ pc = "ready" /\ link /\ downlink # <<>>
  /\ Head(downlink) \notin unsupported
  /\ job' = Head(downlink)
  /\ uplink' = Append(uplink, [kind |-> "accepted", job |-> Head(downlink)])
  /\ downlink' = Tail(downlink)
  /\ Goto("executing")
  /\ UNCHANGED <<disk, outcome, sent, pending, unreachable, link, control,
                 counters>>

(* executor.execute(job) returns, with the record at some phase. *)
Execute(status, newPhase) ==
  /\ phase' = [phase EXCEPT ![job] = newPhase]
  /\ outcome' = status
  /\ Goto("reporting")
  /\ UNCHANGED <<carried, delivered, job, sent, pending, unreachable, channel,
                 control, counters>>

(* bind_idempotency: another job has this one's mutation identity. *)
Owner(j) == {o \in Jobs \ {j} : Identity[o] = Identity[j] /\ phase[o] # "absent"}

StartExecution ==
  /\ pc = "executing" /\ phase[job] # "completed"
  /\ phase[job] = "absent" => Owner(job) = {}
  /\ phase' = [phase EXCEPT ![job] = "running"]
  /\ Goto("started")
  /\ UNCHANGED <<carried, delivered, job, outcome, sent, pending, unreachable,
                 channel, control, counters>>

(* The last step is on record as applied, or the move as read back from the  *)
(* saved project; the pictures and models of the result are still to come.   *)
CarryOut ==
  /\ pc = "started"
  /\ carried' = carried \cup {job}
  /\ Goto("attaching")
  /\ UNCHANGED <<phase, delivered, job, outcome, sent, pending, unreachable,
                 channel, control, counters>>

(* A job that was carried out before may still fail: the scene cannot be read. *)
FailJob == pc = "started" /\ Execute("failed", "failed")
Succeed == pc = "attaching" /\ Execute("succeeded", "completed")

(* A completed job is answered from the journal.  For a plan whose picture or *)
(* model was missing and is there now, the record is saved at the phase of    *)
(* that attachment, and is not put back to "completed".                       *)
Replay ==
  /\ pc = "executing" /\ phase[job] = "completed"
  /\ \E newPhase \in {"completed", "running"} : Execute("duplicate", newPhase)

(* A move of an identity that another job owns is answered from that job's    *)
(* record, and leaves no record of its own.                                   *)
AnswerForOwner ==
  /\ pc = "executing" /\ phase[job] = "absent"
  /\ \E o \in Owner(job) : phase[o] = "completed"
  /\ Execute("duplicate", "absent")

(* Given up without touching the record: the project's lock is held, the      *)
(* record is unreadable, the identity is another job's.                       *)
Refuse == pc = "executing" /\ Execute("failed", phase[job])

(* Mutant of DeliverResult: a result that was not sent counts as sent. *)
DeliverResultBlindly ==
  /\ pc = "reporting"
  /\ SafeSend(Report(job, outcome))
  /\ sent' = TRUE
  /\ Goto("marking")
  /\ UNCHANGED <<disk, job, outcome, pending, unreachable, control, counters>>

(* _deliver_result, up to the send. *)
DeliverResult ==
  /\ pc = "reporting"
  /\ SafeSend(Report(job, outcome))
  /\ sent' = link
  /\ Goto("marking")
  /\ UNCHANGED <<disk, job, outcome, pending, unreachable, control, counters>>

(* _mark_delivery: the record is loaded, flagged and saved, if there is one. *)
MarkDelivery ==
  /\ pc = "marking"
  /\ delivered' = [delivered EXCEPT ![job] = phase[job] # "absent" /\ sent]
  /\ Goto("ready")
  /\ job' = NoJob /\ outcome' = "none" /\ sent' = FALSE
  /\ UNCHANGED <<phase, carried, pending, unreachable, channel, control, counters>>

-------------------------------------------------------------------------------
(* The control plane. *)

(* The selector finds the worker registered and not busy, for a job that is  *)
(* not claimed, running or finished.                                         *)
Select(j) ==
  /\ known[j] = "queued" /\ j \notin chosen
  /\ offers[j] < MaxOffers[j]
  /\ attached /\ ~busy
  /\ chosen' = chosen \cup {j}
  /\ offers' = [offers EXCEPT ![j] = @ + 1]
  /\ UNCHANGED <<disk, worker, channel, known, attached, busy, queued, lossy,
                 unsupported, drops, crashes>>

(* gateway.offer: to the sink, which takes it whether or not the connection  *)
(* behind it is alive, or into the queue for the worker's return.            *)
Offer(j) ==
  /\ j \in chosen
  /\ chosen' = chosen \ {j}
  /\ downlink' = IF attached /\ link THEN Append(downlink, j) ELSE downlink
  /\ queued' = IF attached THEN queued ELSE Append(queued, j)
  /\ UNCHANGED <<disk, worker, link, uplink, known, attached, busy, counters>>

(* What the record becomes on a report; a terminal one stays. *)
Canonical(report) ==
  CASE report.kind = "accepted" -> "claimed"
    [] report.kind = "rejected" -> "failed"
    [] report.kind = "result"   -> IF report.status = "failed" THEN "failed"
                                                               ELSE "succeeded"

(* gateway.handle_inbound: the manager, then the reconciler. *)
Observe ==
  /\ uplink # <<>>
  /\ LET report == Head(uplink) IN
       /\ known' = IF known[report.job] \in Terminal THEN known
                   ELSE [known EXCEPT ![report.job] = Canonical(report)]
       /\ busy' = IF ~attached \/ report.kind = "rejected" THEN busy
                                          ELSE report.kind = "accepted"
  /\ uplink' = Tail(uplink)
  /\ UNCHANGED <<disk, worker, link, downlink, chosen, attached, queued,
                 counters>>

(* The endpoint reads the end of the connection and detaches its sink. *)
Detach ==
  /\ attached /\ ~link /\ uplink = <<>>
  /\ attached' = FALSE /\ busy' = FALSE
  /\ UNCHANGED <<disk, worker, channel, known, chosen, queued, counters>>

-------------------------------------------------------------------------------
(* Failures. *)

(* What of the worker's messages survives the end of a connection. *)
Surviving == IF lossy THEN {SubSeq(uplink, 1, n) : n \in 0 .. Len(uplink)}
                          ELSE {uplink}

Drop ==
  /\ link /\ drops < MaxDrops
  /\ link' = FALSE /\ downlink' = <<>>
  /\ uplink' \in Surviving
  /\ drops' = drops + 1
  /\ UNCHANGED <<disk, worker, control, lossy, unsupported, offers,
                 crashes>>

(* The control plane restarts: its records are in the database, the offers   *)
(* it queued and the messages it had not handled are gone.                   *)
RestartControlPlane ==
  /\ lossy /\ drops < MaxDrops
  /\ link' = FALSE /\ downlink' = <<>> /\ uplink' = <<>>
  /\ attached' = FALSE /\ busy' = FALSE /\ queued' = <<>> /\ chosen' = {}
  /\ drops' = drops + 1
  /\ UNCHANGED <<disk, worker, known, lossy, unsupported, offers,
                 crashes>>

(* The worker process dies, and its connection with it; somebody may start it *)
(* again.                                                                    *)
Crash ==
  /\ pc \notin {"crashed", "exited"} /\ crashes < MaxCrashes
  /\ crashes' = crashes + 1
  /\ Goto("crashed")
  /\ job' = NoJob /\ outcome' = "none" /\ sent' = FALSE /\ pending' = {}
  /\ unreachable' = FALSE
  /\ link' = FALSE /\ downlink' = <<>> /\ uplink' \in Surviving
  /\ UNCHANGED <<disk, control, lossy, unsupported, offers, drops>>

Restart ==
  /\ pc = "crashed"
  /\ Goto("connecting")
  /\ UNCHANGED <<disk, job, outcome, sent, pending, unreachable, channel,
                 control, counters>>

-------------------------------------------------------------------------------
WorkerStep ==
  \/ Register \/ ListUndelivered \/ MarkResent \/ Reconciled \/ NoticeDrop
  \/ Reject \/ Accept \/ StartExecution \/ CarryOut \/ Succeed \/ FailJob
  \/ Replay \/ AnswerForOwner \/ Refuse \/ DeliverResult \/ MarkDelivery
  \/ \E j \in Jobs : Resend(j)

ControlPlaneStep == Observe \/ Detach

Next ==
  \/ WorkerStep \/ ControlPlaneStep
  \/ \E j \in Jobs : Select(j) \/ Offer(j)
  \/ ConnectFails \/ HandshakeDies
  \/ Drop \/ RestartControlPlane \/ Crash \/ Restart

Spec == Init /\ [][Next]_vars

(* The loop of a worker that is up keeps going (it tries again for ever), and *)
(* the control plane's event loop reads what has arrived.  Nobody has to     *)
(* submit a job or to start a dead worker again, and nothing has to fail.    *)
FairSpec == Spec /\ WF_vars(WorkerStep) /\ WF_vars(ControlPlaneStep)

-------------------------------------------------------------------------------
(* Properties. *)

TypeOK ==
  /\ phase \in [Jobs -> {"absent", "running", "completed", "failed"}]
  /\ carried \subseteq Jobs
  /\ delivered \in [Jobs -> BOOLEAN]
  /\ pc \in {"connecting", "listing", "resending", "marking_resent", "ready",
             "executing", "started", "attaching", "reporting", "marking",
             "crashed", "exited"}
  /\ job \in Jobs \cup {NoJob}
  /\ outcome \in {"none", "succeeded", "duplicate", "failed"}
  /\ sent \in BOOLEAN /\ unreachable \in BOOLEAN /\ link \in BOOLEAN
  /\ pending \subseteq Jobs
  /\ uplink \in Seq(Reports) /\ downlink \in Seq(Jobs) /\ queued \in Seq(Jobs)
  /\ known \in [Jobs -> {"queued", "claimed"} \cup Terminal]
  /\ chosen \subseteq Jobs
  /\ attached \in BOOLEAN /\ busy \in BOOLEAN
  /\ lossy \in BOOLEAN /\ unsupported \subseteq Jobs
  /\ offers \in [Jobs -> Nat] /\ \A j \in Jobs : offers[j] <= MaxOffers[j]
  /\ drops \in 0 .. MaxDrops /\ crashes \in 0 .. MaxCrashes

InFlight(j) == {uplink[i] : i \in {k \in 1 .. Len(uplink) : uplink[k].job = j}}
Answered(j) == known[j] \in Terminal
                 \/ \E report \in InFlight(j) : report.kind = "result"

(* No job is shown, or about to be shown, as done whose change no record of  *)
(* its identity holds as carried out, whatever is lost, resent, repeated, or  *)
(* taken back to an earlier phase on the way.                                 *)
ReportsAreTrue ==
  \A j \in Jobs :
    (known[j] = "succeeded"
       \/ \E report \in InFlight(j) : Canonical(report) = "succeeded")
      => \E o \in carried : Identity[o] = Identity[j]

(* A worker that waits for work on a live connection owes no report: every   *)
(* terminal record was handed over, on this connection or an earlier one.    *)
OwesNothingWhenReady ==
  pc = "ready" /\ link
    => \A j \in Jobs : phase[j] \in TerminalPhases => delivered[j]

(* The flag says what it is documented to say: a result marked as delivered  *)
(* has reached the control plane, or is in flight to it, unless it was lost.  *)
DeliveredMeansReached == ~lossy => \A j \in Jobs : delivered[j] => Answered(j)

(* The control plane learns of every execution that ended, if nothing it was *)
(* sent is lost and somebody starts a worker that died again.                *)
ResultsArrive ==
  []<>(pc # "crashed") =>
    \A j \in Jobs :
      (~lossy /\ phase[j] \in TerminalPhases) ~> (known[j] \in Terminal)
===============================================================================
