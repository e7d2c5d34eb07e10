----------------------------- MODULE MoveExecutor -----------------------------
(***************************************************************************)
(* WorkerExecutor (blender_worker/executor.py): one move_object job run     *)
(* against a saved .blend, under the project's lock, with a journal that   *)
(* survives the process.  The module is about ONE project and the position *)
(* of ONE object in it: journal, bindings and lock are all project-scoped. *)
(*                                                                         *)
(* Every action ends at a durable write, a Blender process or a lock       *)
(* operation, so that Crash may fall between any two of them.  The record  *)
(* a worker holds in memory is always the one it last saved, so the        *)
(* journal stands for both.                                                *)
(***************************************************************************)
EXTENDS Integers, FiniteSets

CONSTANTS
  Workers,          \* worker processes sharing one runtime directory
  Jobs,             \* job ids offered to them
  Keys,             \* idempotency keys (mutation identities)
  KeyOf,            \* the idempotency key a job carries
  DeltaOf,          \* the displacement a job asks for
  InitialPosition,  \* the object's position in the seed project
  EditPositions,    \* where other work on the project may put the object
  PreviewWorkers,   \* workers with a preview generator and store configured
  Damageable,       \* jobs and keys whose journal file may become unreadable
  MaxDeliveries,    \* BOUND: how often jobs are delivered, all told
  MaxEdits,         \* BOUND: how often other work may move the object
  NoPlan, Void, Unbound, Corrupt, Free, Other, NoJob

ASSUME ConstantsAssumption ==
  /\ KeyOf \in [Jobs -> Keys]
  /\ DeltaOf \in [Jobs -> Int]
  /\ InitialPosition \in Int
  /\ EditPositions \subseteq Int
  /\ PreviewWorkers \subseteq Workers
  /\ MaxDeliveries \in Nat /\ MaxEdits \in Nat
  /\ {NoPlan, Void} \cap [before : Int, after : Int] = {}
  /\ NoPlan # Void
  /\ {Unbound, Corrupt, Other, NoJob} \cap Jobs = {}
  /\ Unbound # Corrupt
  /\ Free \notin Workers

VARIABLES
  journal,    \* executions/<project>/<job>.json, one record per job
  binding,    \* idempotency/<project>/<key>.json: the job owning each key
  artifacts,  \* jobs whose preview image is in the artifact store
  position,   \* the object's position in the saved .blend
  lock,       \* who holds the project's flock
  pc,         \* where each worker is in execute()
  job,        \* the job each worker is executing
  deliveries, \* how often a job was handed to a worker
  edits,      \* how often other work moved the object
  \* History: what the properties talk about, read by no action.
  lastMover,  \* whose mutation was the last one
  durable,    \* jobs whose record has ever reached a durable phase
  succeeded   \* jobs ever answered "succeeded"

files == <<journal, binding, artifacts, position>>
control == <<lock, pc, job>>
counters == <<deliveries, edits>>
history == <<lastMover, durable, succeeded>>
vars == <<files, control, counters, history>>

-------------------------------------------------------------------------------
(* The execution record: the fields of ExecutionRecord that execution reads. *)

Plans == [before : Int, after : Int]

(* "absent": there is no file; "corrupt": there is one that cannot be read. *)
Phases == {"absent", "corrupt", "received", "plan_persisted",
           "recovery_created", "executing", "mutation_verified",
           "project_saved", "preview_generated", "completed", "failed"}

Records == [phase : Phases, plan : Plans \cup {NoPlan}, recovered : BOOLEAN,
            preview : BOOLEAN, status : {"running", "succeeded", "failed"}]

NoRecord == [phase |-> "absent", plan |-> NoPlan, recovered |-> FALSE,
             preview |-> FALSE, status |-> "running"]

Init ==
  /\ journal = [j \in Jobs |-> NoRecord]
  /\ binding = [k \in Keys |-> Unbound]
  /\ artifacts = {}
  /\ position = InitialPosition
  /\ lock = Free
  /\ pc = [w \in Workers |-> "idle"]
  /\ job = [w \in Workers |-> NoJob]
  /\ deliveries = 0
  /\ edits = 0
  /\ lastMover = Other
  /\ durable = {}
  /\ succeeded = {}

-------------------------------------------------------------------------------
(* Helpers. *)

Record(w) == journal[job[w]]
Goto(w, label) == pc' = [pc EXCEPT ![w] = label]

(* store.save: the record file is replaced atomically. *)
Save(w, record) == journal' = [journal EXCEPT ![job[w]] = record]

(* execute() returns a WorkerOutcome and the lock is released on the way. *)
Return(w, status) ==
  /\ Goto(w, "idle")
  /\ lock' = IF lock = w THEN Free ELSE lock
  /\ job' = [job EXCEPT ![w] = NoJob]
  /\ succeeded' = IF status = "succeeded" THEN succeeded \cup {job[w]}
                                          ELSE succeeded
  /\ UNCHANGED counters

(* _fail: the record becomes terminal, then the outcome is returned. *)
Fail(w) ==
  /\ Save(w, [Record(w) EXCEPT !.phase = "failed", !.status = "failed"])
  /\ Return(w, "failed")

(* One step inside the locked section that saves the record and goes on. *)
SaveAndGoto(w, record, label) ==
  /\ Save(w, record)
  /\ Goto(w, label)
  /\ UNCHANGED <<binding, artifacts, position, lock, job, counters,
                 lastMover, succeeded>>

-------------------------------------------------------------------------------
(* The entry of execute(). *)

(* A job reaches execute(): it is canonical and its project is known. *)
Deliver(w, j) ==
  /\ pc[w] = "idle"
  /\ deliveries < MaxDeliveries
  /\ deliveries' = deliveries + 1
  /\ job' = [job EXCEPT ![w] = j]
  /\ Goto(w, "locking")
  /\ UNCHANGED <<files, lock, edits, history>>

AcquireLock(w) ==
  /\ pc[w] = "locking"
  /\ lock = Free
  /\ lock' = w
  /\ Goto(w, "loading")
  /\ UNCHANGED <<files, job, counters, history>>

(* The lock is not free in time: LOCK_CONFLICT, and nothing is journalled. *)
LockConflict(w) ==
  /\ pc[w] = "locking"
  /\ lock # Free
  /\ Return(w, "failed")
  /\ UNCHANGED <<files, lastMover, durable>>

-------------------------------------------------------------------------------
(* The locked section: what the journal says of the job. *)

RefuseCorruptRecord(w) ==
  /\ pc[w] = "loading"
  /\ Record(w).phase = "corrupt"
  /\ Return(w, "failed")
  /\ UNCHANGED <<files, lastMover, durable>>

(* A completed job only has its preview attached again. *)
ReplayCompleted(w) ==
  /\ pc[w] = "loading"
  /\ Record(w).phase = "completed"
  /\ Goto(w, "attaching")
  /\ UNCHANGED <<files, lock, job, counters, history>>

(* Mutant of Executable: an unreadable record counts as no record. *)
ExecutableIfCorrupt(w) ==
  /\ pc[w] = "loading"
  /\ Record(w).phase # "completed"

Executable(w) ==
  /\ pc[w] = "loading"
  /\ Record(w).phase \notin {"corrupt", "completed"}

(* Mutant of BindKey: the binding is overwritten without being read. *)
RebindKey(w) ==
  /\ Executable(w)
  /\ binding' = [binding EXCEPT ![KeyOf[job[w]]] = job[w]]
  /\ Goto(w, "receiving")
  /\ UNCHANGED <<journal, artifacts, position, lock, job, counters, history>>

(* bind_idempotency: the key is free, or already this job's. *)
BindKey(w) ==
  /\ Executable(w)
  /\ binding[KeyOf[job[w]]] \in {Unbound, job[w]}
  /\ binding' = [binding EXCEPT ![KeyOf[job[w]]] = job[w]]
  /\ Goto(w, "receiving")
  /\ UNCHANGED <<journal, artifacts, position, lock, job, counters, history>>

(* Mutant of RefuseForeignKey: a job someone else owns counts as done. *)
TrustForeignKey(w) ==
  /\ Executable(w)
  /\ binding[KeyOf[job[w]]] \in Jobs \ {job[w]}
  /\ Return(w, "succeeded")
  /\ UNCHANGED <<files, lastMover, durable>>

(* The key is another job's: that job's success is reported, or a refusal. *)
RefuseForeignKey(w) ==
  /\ Executable(w)
  /\ binding[KeyOf[job[w]]] \in Jobs \ {job[w]}
  /\ Return(w, IF journal[binding[KeyOf[job[w]]]].phase = "completed"
               THEN "succeeded" ELSE "failed")
  /\ UNCHANGED <<files, lastMover, durable>>

RefuseCorruptBinding(w) ==
  /\ Executable(w)
  /\ binding[KeyOf[job[w]]] = Corrupt
  /\ Return(w, "failed")
  /\ UNCHANGED <<files, lastMover, durable>>

(* A record is made, or the old one kept with whatever phase it had. *)
Receive(w) ==
  /\ pc[w] = "receiving"
  /\ SaveAndGoto(w, IF Record(w).phase = "absent"
                    THEN [NoRecord EXCEPT !.phase = "received"]
                    ELSE Record(w),
                 "planning")
  /\ UNCHANGED durable

-------------------------------------------------------------------------------
(* Plan, recovery copy, mutation, confirmation. *)

(* The position is read and the plan is durable before anything moves. *)
MakePlan(w) ==
  /\ pc[w] = "planning"
  /\ Record(w).plan = NoPlan
  /\ SaveAndGoto(w,
       [Record(w) EXCEPT
          !.plan = [before |-> position,
                    after |-> position + DeltaOf[job[w]]],
          !.phase = "plan_persisted"],
       "copying")
  /\ UNCHANGED durable

(* A retry reuses the plan it finds and does not read the scene. *)
ReusePlan(w) ==
  /\ pc[w] = "planning"
  /\ Record(w).plan # NoPlan
  /\ Goto(w, "copying")
  /\ UNCHANGED <<files, lock, job, counters, history>>

(* The scene cannot be read, or the target is not in it. *)
PlanFails(w) ==
  /\ pc[w] = "planning"
  /\ Record(w).plan = NoPlan
  /\ Fail(w)
  /\ UNCHANGED <<binding, artifacts, position, lastMover, durable>>

MakeRecoveryCopy(w) ==
  /\ pc[w] = "copying"
  /\ ~Record(w).recovered
  /\ SaveAndGoto(w,
       [Record(w) EXCEPT !.recovered = TRUE, !.phase = "recovery_created"],
       "starting")
  /\ UNCHANGED durable

KeepRecoveryCopy(w) ==
  /\ pc[w] = "copying"
  /\ Record(w).recovered
  /\ Goto(w, "starting")
  /\ UNCHANGED <<files, lock, job, counters, history>>

RecoveryCopyFails(w) ==
  /\ pc[w] = "copying"
  /\ ~Record(w).recovered
  /\ Fail(w)
  /\ UNCHANGED <<binding, artifacts, position, lastMover, durable>>

StartExecuting(w) ==
  /\ pc[w] = "starting"
  /\ SaveAndGoto(w, [Record(w) EXCEPT !.phase = "executing"], "moving")
  /\ UNCHANGED durable

(* One Blender process: open the project, compare, write, save.             *)
(* Already where the plan ends: nothing is written and success reported.   *)
FindAlreadyApplied(w) ==
  /\ pc[w] = "moving"
  /\ position = Record(w).plan.after
  /\ Goto(w, "verified")
  /\ UNCHANGED <<files, lock, job, counters, history>>

(* Mutant of AtPlanStart: the scene is not compared with expected_before. *)
NotAtPlanEnd(w) ==
  /\ pc[w] = "moving"
  /\ position # Record(w).plan.after

(* Still where the plan starts: the absolute destination is written. *)
AtPlanStart(w) ==
  /\ pc[w] = "moving"
  /\ position = Record(w).plan.before
  /\ position # Record(w).plan.after

Displace(w) ==
  /\ position' = Record(w).plan.after
  /\ lastMover' = job[w]

ApplyMove(w) ==
  /\ AtPlanStart(w)
  /\ Displace(w)
  /\ Goto(w, "verified")
  /\ UNCHANGED <<journal, binding, artifacts, lock, job, counters,
                 durable, succeeded>>

(* The project was saved but Blender's report of it never arrived. *)
ApplyMoveUnreported(w) ==
  /\ AtPlanStart(w)
  /\ Displace(w)
  /\ Fail(w)
  /\ UNCHANGED <<binding, artifacts, durable>>

(* Blender cannot run, or move_object refuses or fails: nothing is saved.   *)
(* In particular the object is at neither endpoint of the plan.            *)
MoveFails(w) ==
  /\ pc[w] = "moving"
  /\ Fail(w)
  /\ UNCHANGED <<binding, artifacts, position, lastMover, durable>>

RecordVerified(w) ==
  /\ pc[w] = "verified"
  /\ SaveAndGoto(w, [Record(w) EXCEPT !.phase = "mutation_verified"],
                 "confirming")
  /\ UNCHANGED durable

(* The saved project is read back; only then is the change called durable. *)
ConfirmSaved(w) ==
  /\ pc[w] = "confirming"
  /\ position = Record(w).plan.after
  /\ SaveAndGoto(w, [Record(w) EXCEPT !.phase = "project_saved"], "attaching")
  /\ durable' = durable \cup {job[w]}

ConfirmFails(w) ==
  /\ pc[w] = "confirming"
  /\ Fail(w)
  /\ UNCHANGED <<binding, artifacts, position, lastMover, durable>>

-------------------------------------------------------------------------------
(* Reporting: the preview, which can fail nothing, and completion. *)

SkipPreview(w) ==
  /\ pc[w] = "attaching"
  /\ w \notin PreviewWorkers
  /\ Goto(w, "completing")
  /\ UNCHANGED <<files, lock, job, counters, history>>

(* The image is in the store already, or cannot be produced: either way    *)
(* what is true of the store is recorded.                                  *)
RecordPreview(w) ==
  /\ pc[w] \in {"attaching", "rendered"}
  /\ w \in PreviewWorkers
  /\ SaveAndGoto(w, [Record(w) EXCEPT !.phase = "preview_generated",
                                      !.preview = job[w] \in artifacts],
                 "completing")
  /\ UNCHANGED durable

(* The image is rendered and stored; the journal does not say so yet. *)
RenderPreview(w) ==
  /\ pc[w] = "attaching"
  /\ w \in PreviewWorkers
  /\ job[w] \notin artifacts
  /\ artifacts' = artifacts \cup {job[w]}
  /\ Goto(w, "rendered")
  /\ UNCHANGED <<journal, binding, position, lock, job, counters, history>>

Complete(w) ==
  /\ pc[w] = "completing"
  /\ Save(w, [Record(w) EXCEPT !.phase = "completed", !.status = "succeeded"])
  /\ Return(w, "succeeded")
  /\ UNCHANGED <<binding, artifacts, position, lastMover, durable>>

-------------------------------------------------------------------------------
(* The environment. *)

(* Mutant of Crash: the lock is a file that outlives the process. *)
CrashHoldingLock(w) ==
  /\ pc[w] # "idle"
  /\ Goto(w, "idle")
  /\ job' = [job EXCEPT ![w] = NoJob]
  /\ UNCHANGED <<files, lock, counters, history>>

(* The process dies, or an exception escapes execute(): the kernel frees    *)
(* the lock, everything on disk stays.                                     *)
Crash(w) ==
  /\ pc[w] # "idle"
  /\ Goto(w, "idle")
  /\ lock' = IF lock = w THEN Free ELSE lock
  /\ job' = [job EXCEPT ![w] = NoJob]
  /\ UNCHANGED <<files, counters, history>>

(* A capability plan, which takes the same lock, moves the same object. *)
EditElsewhere ==
  /\ lock = Free
  /\ edits < MaxEdits
  /\ edits' = edits + 1
  /\ position' \in EditPositions \ {position}
  /\ lastMover' = Other
  /\ UNCHANGED <<journal, binding, artifacts, control, deliveries,
                 durable, succeeded>>

(* A file on disk can no longer be read.  The atomic replace never leaves   *)
(* one half-written, so this is damage from outside, while nobody writes.  *)
DamageRecord(j) ==
  /\ lock = Free
  /\ j \in Damageable
  /\ journal[j].phase # "absent"
  /\ journal' = [journal EXCEPT ![j] = [NoRecord EXCEPT !.phase = "corrupt"]]
  /\ UNCHANGED <<binding, artifacts, position, control, counters, history>>

DamageBinding(k) ==
  /\ lock = Free
  /\ k \in Damageable
  /\ binding[k] # Unbound
  /\ binding' = [binding EXCEPT ![k] = Corrupt]
  /\ UNCHANGED <<journal, artifacts, position, control, counters, history>>

Step(w) ==
  \/ AcquireLock(w) \/ LockConflict(w)
  \/ RefuseCorruptRecord(w) \/ ReplayCompleted(w)
  \/ BindKey(w) \/ RefuseForeignKey(w) \/ RefuseCorruptBinding(w)
  \/ Receive(w)
  \/ MakePlan(w) \/ ReusePlan(w) \/ PlanFails(w)
  \/ MakeRecoveryCopy(w) \/ KeepRecoveryCopy(w) \/ RecoveryCopyFails(w)
  \/ StartExecuting(w)
  \/ FindAlreadyApplied(w) \/ ApplyMove(w) \/ ApplyMoveUnreported(w)
  \/ MoveFails(w)
  \/ RecordVerified(w) \/ ConfirmSaved(w) \/ ConfirmFails(w)
  \/ SkipPreview(w) \/ RecordPreview(w) \/ RenderPreview(w)
  \/ Complete(w)

Environment ==
  \/ \E w \in Workers, j \in Jobs : Deliver(w, j)
  \/ \E w \in Workers : Crash(w)
  \/ EditElsewhere
  \/ \E j \in Jobs : DamageRecord(j)
  \/ \E k \in Keys : DamageBinding(k)

Next == Environment \/ \E w \in Workers : Step(w)

Spec == Init /\ [][Next]_vars

(* execute() runs on its own thread of control until it returns. *)
FairSpec == Spec /\ \A w \in Workers : WF_vars(Step(w))

-------------------------------------------------------------------------------
(* Types. *)

Labels == {"idle", "locking", "loading", "receiving", "planning", "copying",
           "starting", "moving", "verified", "confirming", "attaching",
           "rendered", "completing"}

(* Every variable, and every field of every record, has its type. *)
TypeOK ==
  /\ journal \in [Jobs -> Records]
  /\ binding \in [Keys -> Jobs \cup {Unbound, Corrupt}]
  /\ artifacts \subseteq Jobs
  /\ position \in Int
  /\ lock \in Workers \cup {Free}
  /\ pc \in [Workers -> Labels]
  /\ job \in [Workers -> Jobs \cup {NoJob}]
  /\ \A w \in Workers : pc[w] # "idle" => job[w] \in Jobs
  /\ deliveries \in Nat
  /\ edits \in Nat
  /\ lastMover \in Jobs \cup {Other}
  /\ durable \subseteq Jobs
  /\ succeeded \subseteq Jobs

-------------------------------------------------------------------------------
(* Safety. *)

HasPlan(j) == journal[j].plan # NoPlan

(* A persisted plan is never replaced by another one: a retry reuses it     *)
(* verbatim, whatever the scene looks like by then (executor.py:13-27).    *)
PlanIsNeverRecomputed ==
  [][\A j \in Jobs : HasPlan(j) /\ HasPlan(j)'
                       => journal'[j].plan = journal[j].plan]_vars

(* However often a job is delivered, retried and crashed, it does not move  *)
(* the object twice unless something else moved it in between: the double  *)
(* movement executor.py:18-20 calls unsafe does not happen.                *)
NoConsecutiveMoves ==
  [][position' # position /\ lastMover' \in Jobs
       => lastMover # lastMover']_vars

(* The saved project changes only from the start to the end of a plan that  *)
(* is in the journal already, with a recovery copy already made.           *)
MutationFollowsJournal ==
  [][position' # position /\ lastMover' \in Jobs
       => /\ journal[lastMover'].plan = [before |-> position,
                                         after |-> position']
          /\ journal[lastMover'].recovered]_vars

(* Two jobs carrying one mutation identity never both get as far as a plan, *)
(* whatever the queue delivered (bind_idempotency, under the lock).        *)
OnePlanPerKey ==
  \A i, j \in Jobs :
    KeyOf[i] = KeyOf[j] /\ HasPlan(i) /\ HasPlan(j) => i = j

(* A success is only ever answered for a mutation that was read back from   *)
(* the saved project, by this job or by the owner of its key.              *)
SuccessWasConfirmed ==
  \A j \in succeeded :
    \E i \in durable : KeyOf[i] = KeyOf[j]

(* A record that says a preview exists is right: the image is in the store. *)
PreviewIsStored ==
  \A j \in Jobs : journal[j].preview => j \in artifacts

(* A crashed process cannot leave a project permanently locked              *)
(* (locks.py:56-58), nor can any outcome of execute().                     *)
LockIsReleased == []<>(lock = Free)

-------------------------------------------------------------------------------
(* The inductive invariant: why the properties above hold. *)

Locked == Labels \ {"idle", "locking"}
Bound == {"receiving", "planning", "copying", "starting", "moving",
          "verified", "confirming"}
Planned == {"copying", "starting", "moving", "verified", "confirming"}
Recovered == {"starting", "moving", "verified", "confirming"}
Reporting == {"attaching", "rendered", "completing"}

Exists(j) == journal[j].phase # "absent"

(* The lock is held by whoever is in the locked section. *)
LockInv == \A w \in Workers : pc[w] \in Locked => lock = w

(* A record exists only for the owner of its key. *)
BindingInv ==
  /\ \A k \in Keys : binding[k] \in Jobs => KeyOf[binding[k]] = k
  /\ \A j \in Jobs : Exists(j) => binding[KeyOf[j]] \in {j, Corrupt}
  /\ \A i, j \in Jobs :
       KeyOf[i] = KeyOf[j] /\ Exists(i) /\ Exists(j) => i = j

(* What a worker may rely on where it is. *)
ProgressInv ==
  \A w \in Workers :
    /\ pc[w] \in Bound => binding[KeyOf[job[w]]] = job[w]
    /\ pc[w] \in Bound \cup Reporting => Record(w).phase # "corrupt"
    /\ pc[w] \in (Bound \ {"receiving"}) \cup Reporting => Exists(job[w])
    /\ pc[w] \in Planned => HasPlan(job[w])
    /\ pc[w] \in Recovered => Record(w).recovered
    /\ pc[w] \in Reporting => job[w] \in durable

(* An unreadable record says nothing; a completed one was confirmed; a      *)
(* recorded preview is in the store.                                       *)
RecordInv ==
  \A j \in Jobs :
    /\ journal[j].phase \in {"absent", "corrupt"} => journal[j].plan = NoPlan
    /\ journal[j].phase = "completed" => j \in durable
    /\ journal[j].preview => j \in artifacts

(* The object is where the last job to move it wanted it. *)
LastMoverInv ==
  lastMover \in Jobs =>
    \/ journal[lastMover].phase = "corrupt"
    \/ /\ HasPlan(lastMover)
       /\ position = journal[lastMover].plan.after

(* All of it is an invariant, and it is inductive. *)
IndInv ==
  /\ TypeOK
  /\ LockInv
  /\ BindingInv
  /\ ProgressInv
  /\ RecordInv
  /\ LastMoverInv
  /\ SuccessWasConfirmed

-------------------------------------------------------------------------------
(* The promise kept: what a job has committed is the plan in its record. *)

Committed == [j \in Jobs |-> IF journal[j].phase = "corrupt" THEN Void
                             ELSE journal[j].plan]

Promise == INSTANCE MoveLedger WITH committed <- Committed

PromiseKept == Promise!Spec
===============================================================================
