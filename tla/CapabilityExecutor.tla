-------------------------- MODULE CapabilityExecutor --------------------------
(***************************************************************************)
(* CapabilityPlanExecutor (blender_worker/capability_executor.py): one     *)
(* apply_capability_plan job, an ordered list of steps against one .blend, *)
(* under the project's lock, every step journalled on its own so that a    *)
(* retry resumes where the last attempt stopped.                           *)
(*                                                                         *)
(* An action ends at a durable write or at a call of Blender, so Crash may  *)
(* fall between any two.  What a crash loses is in readout, step, gained.  *)
(***************************************************************************)
EXTENDS Integers, FiniteSets, Sequences

CONSTANTS
  Workers,          \* worker processes sharing one runtime directory
  Jobs,             \* plans offered to them, by job id
  Keys,             \* idempotency keys
  KeyOf,            \* the idempotency key a job carries
  PlanOf,           \* the steps of a job, in order
  Objects,          \* stable object ids
  Places,           \* all a step can set of an object: position, size, colour
  InitialScene,     \* the seed project
  RequiredVersion,  \* the scene a job was planned against, or AnyVersion
  Damageable,       \* jobs whose record, keys whose binding may be damaged
  MaxDeliveries,    \* BOUND: how often jobs are delivered, all told
  MaxEdits,         \* BOUND: how often other work changes an object
  MaxExtras,        \* BOUND: how many objects without an id there can be
  MaxLate,          \* BOUND: how many Blenders given up on run at a time
  Absent, AnyVersion, Unbound, Corrupt, Free, NoJob

(* "create" and "create_unnamed" are the creations with and without a       *)
(* stable id; "set" moves, turns, scales or paints; "blind" is an opening, *)
(* a duplicate or authored code, whose end state nothing declares.         *)
Kinds == {"create", "create_unnamed", "set", "delete", "blind", "read"}
Steps == [kind : Kinds, object : Objects, place : Places]

(* What a read of the project returns; equal scenes have equal versions.   *)
(* "extras" counts what only a creation without an id or a blind step adds. *)
Scenes == [at : [Objects -> Places \cup {Absent}], extras : 0 .. MaxExtras]

ASSUME ConstantsAssumption ==
  /\ KeyOf \in [Jobs -> Keys]
  /\ PlanOf \in [Jobs -> Seq(Steps)]
  /\ InitialScene \in Scenes
  /\ RequiredVersion \in [Jobs -> Scenes \cup {AnyVersion}]
  /\ MaxDeliveries \in Nat /\ MaxEdits \in Nat /\ MaxExtras \in Nat
  /\ MaxLate \in Nat
  /\ Absent \notin Places /\ AnyVersion \notin Scenes
  /\ {Unbound, Corrupt, NoJob} \cap Jobs = {}
  /\ Unbound # Corrupt
  /\ Free \notin Workers

VARIABLES
  journal,    \* executions/<project>/<job>.json, one record per job
  binding,    \* idempotency/<project>/<key>.json: the job owning each key
  artifacts,  \* the previews and models in the artifact store
  scene,      \* the saved .blend
  late,       \* Blenders nobody waits for any more, with what they will save
  lock,       \* who holds the project's flock
  pc,         \* where each worker is in execute()
  job,        \* the job each worker is executing
  readout,    \* the scene as the worker last read it
  step,       \* the step the worker is at
  gained,     \* artifacts attached to the record but not yet saved with it
  deliveries, \* how often a job was handed to a worker
  edits,      \* how often other work changed an object
  \* History: what the properties talk about, read by no action.
  effects,    \* how often each step of each job changed the scene
  missed,     \* workers whose reading such a Blender has saved over
  succeeded   \* jobs ever answered "succeeded"

files == <<journal, binding, artifacts>>
memory == <<readout, missed, step, gained>>
control == <<lock, pc, job>>
counters == <<deliveries, edits>>
touched == <<scene, late, effects>>
vars == <<files, memory, control, counters, touched, succeeded>>

-------------------------------------------------------------------------------
(* The record, and what a step means. *)

Indices(j) == 1 .. Len(PlanOf[j])
Done == {"applied", "already_applied"}

Phases == {"absent", "corrupt", "received", "recovery_created", "executing",
           "project_saved", "scene_inspected", "preview_generated",
           "model_exported", "completed", "failed"}

NewRecord(j, phase) ==
  [phase |-> phase, steps |-> [i \in Indices(j) |-> "none"],
   recovered |-> FALSE, attached |-> {}, status |-> "running"]

(* Mutant of Satisfied: creation is judged by name, never by the id. *)
SatisfiedIfSet(s, sc) ==
  CASE s.kind = "set"    -> sc.at[s.object] = s.place
    [] s.kind = "delete" -> sc.at[s.object] = Absent
    [] OTHER             -> FALSE

(* _find: the object with the step's identifier or name, if there is one. *)
Found(s, sc) == sc.at[s.object]

(* _vec_matches, _colour_matches: a place stands for all the values that are *)
(* within the tolerance of each other; an object that is missing has none.   *)
Matches(observed, desired) == observed # Absent /\ observed = desired

(* _already_satisfied: would the step change nothing? *)
Satisfied(s, sc) ==
  CASE s.kind = "create" -> Found(s, sc) # Absent
    [] s.kind = "delete" -> Found(s, sc) = Absent
    [] s.kind = "set"    -> Matches(Found(s, sc), s.place)
    [] OTHER             -> FALSE

(* _verify: the same question afterwards, where it can be asked. *)
Verified(s, sc) == s.kind \in {"read", "blind"} \/ Satisfied(s, sc)

(* Blender refuses to change or delete what is not there. *)
Possible(s, sc) == s.kind \in {"set", "delete"} => sc.at[s.object] # Absent

(* A creation always adds an object: one too many where there is one.      *)
Adds(s, sc) == \/ s.kind \in {"create_unnamed", "blind"}
               \/ s.kind = "create" /\ sc.at[s.object] # Absent

Effect(s, sc) ==
  CASE Adds(s, sc)        -> [sc EXCEPT !.extras = @ + 1]
    [] s.kind = "delete"  -> [sc EXCEPT !.at[s.object] = Absent]
    [] s.kind = "read"    -> sc
    [] OTHER              -> [sc EXCEPT !.at[s.object] = s.place]

Mutates(j) == \E i \in Indices(j) : PlanOf[j][i].kind # "read"

Init ==
  /\ journal = [j \in Jobs |-> NewRecord(j, "absent")]
  /\ binding = [k \in Keys |-> Unbound]
  /\ artifacts = {}
  /\ scene = InitialScene /\ late = {}
  /\ lock = Free
  /\ pc = [w \in Workers |-> "idle"]
  /\ job = [w \in Workers |-> NoJob]
  /\ readout = [w \in Workers |-> InitialScene] /\ missed = {}
  /\ step = [w \in Workers |-> 1]
  /\ gained = [w \in Workers |-> {}]
  /\ deliveries = 0 /\ edits = 0
  /\ effects = [j \in Jobs |-> [i \in Indices(j) |-> 0]]
  /\ succeeded = {}

-------------------------------------------------------------------------------
(* Helpers. *)

Record(w) == journal[job[w]]
Step(w) == PlanOf[job[w]][step[w]]
AtStep(w) == pc[w] = "stepping" /\ step[w] \in Indices(job[w])
Goto(w, label) == pc' = [pc EXCEPT ![w] = label]
Save(w, record) == journal' = [journal EXCEPT ![job[w]] = record]
ReadAgain(w) ==
  /\ readout' = [readout EXCEPT ![w] = scene]
  /\ missed' = missed \ {w}
(* A step of the locked section that saves the record and goes on. *)
SaveAndGoto(w, record, label) ==
  /\ Save(w, record)
  /\ Goto(w, label)
  /\ UNCHANGED <<binding, artifacts, lock, job, counters>>

(* What a worker knows is gone once it is out of execute(). *)
Leave(w) ==
  /\ Goto(w, "idle")
  /\ lock' = IF lock = w THEN Free ELSE lock
  /\ job' = [job EXCEPT ![w] = NoJob]
  /\ readout' = [readout EXCEPT ![w] = InitialScene] /\ missed' = missed \ {w}
  /\ step' = [step EXCEPT ![w] = 1]
  /\ gained' = [gained EXCEPT ![w] = {}]
  /\ UNCHANGED counters

Return(w, status) ==
  /\ Leave(w)
  /\ succeeded' = IF status = "succeeded" THEN succeeded \cup {job[w]}
                                          ELSE succeeded

(* _fail, after the step at fault (0: none) was recorded "failed". *)
Fail(w, at) ==
  /\ Save(w, [Record(w) EXCEPT
                !.steps = [i \in DOMAIN @ |-> IF i = at THEN "failed" ELSE @[i]],
                !.phase = "failed", !.status = "failed"])
  /\ Return(w, "failed")
  /\ UNCHANGED <<binding, artifacts>>

-------------------------------------------------------------------------------
(* The entry of execute(), and what the journal says of the job. *)

Deliver(w, j) ==
  /\ pc[w] = "idle"
  /\ deliveries < MaxDeliveries
  /\ deliveries' = deliveries + 1
  /\ job' = [job EXCEPT ![w] = j]
  /\ Goto(w, "locking")
  /\ UNCHANGED <<files, memory, lock, edits, touched, succeeded>>

AcquireLock(w) ==
  /\ pc[w] = "locking"
  /\ lock = Free
  /\ lock' = w
  /\ Goto(w, "loading")
  /\ UNCHANGED <<files, memory, job, counters, touched, succeeded>>

LockConflict(w) ==
  /\ pc[w] = "locking"
  /\ lock # Free
  /\ Return(w, "failed")
  /\ UNCHANGED <<files, touched>>

RefuseCorruptRecord(w) ==
  /\ pc[w] = "loading"
  /\ Record(w).phase = "corrupt"
  /\ Return(w, "failed")
  /\ UNCHANGED <<files, touched>>

ReplayCompleted(w) ==
  /\ pc[w] = "loading"
  /\ Record(w).phase = "completed"
  /\ Goto(w, "attaching")
  /\ UNCHANGED <<files, memory, lock, job, counters, touched, succeeded>>

Executable(w) ==
  /\ pc[w] = "loading"
  /\ Record(w).phase \notin {"corrupt", "completed"}

(* Mutant of BindKey: whoever comes last owns the key. *)
RebindKey(w) ==
  /\ Executable(w)
  /\ binding' = [binding EXCEPT ![KeyOf[job[w]]] = job[w]]
  /\ Goto(w, "receiving")
  /\ UNCHANGED <<journal, artifacts, memory, lock, job, counters, touched,
                 succeeded>>

BindKey(w) ==
  /\ Executable(w)
  /\ binding[KeyOf[job[w]]] \in {Unbound, job[w]}
  /\ binding' = [binding EXCEPT ![KeyOf[job[w]]] = job[w]]
  /\ Goto(w, "receiving")
  /\ UNCHANGED <<journal, artifacts, memory, lock, job, counters, touched,
                 succeeded>>

(* Another job's key: refused, whatever became of that job. *)
RefuseForeignKey(w) ==
  /\ Executable(w)
  /\ binding[KeyOf[job[w]]] \in Jobs \ {job[w]}
  /\ Return(w, "failed")
  /\ UNCHANGED <<files, touched>>

(* Nothing catches the unreadable binding: the exception leaves execute(). *)
RaiseOnCorruptBinding(w) ==
  /\ Executable(w)
  /\ binding[KeyOf[job[w]]] = Corrupt
  /\ Leave(w)
  /\ UNCHANGED <<files, touched, succeeded>>

(* Mutant of Receive: every attempt starts from a new record. *)
ReceiveAfresh(w) ==
  /\ pc[w] = "receiving"
  /\ SaveAndGoto(w, NewRecord(job[w], "received"), "reading")
  /\ UNCHANGED <<memory, touched, succeeded>>

Receive(w) ==
  /\ pc[w] = "receiving"
  /\ SaveAndGoto(w, IF Record(w).phase = "absent"
                    THEN NewRecord(job[w], "received")
                    ELSE [Record(w) EXCEPT !.status = "running"],
                 "reading")
  /\ UNCHANGED <<memory, touched, succeeded>>

-------------------------------------------------------------------------------
(* Before the steps: the scene, its version, one recovery point. *)

(* The version is only compared while no step of the job is recorded done. *)
Stale(w) ==
  /\ RequiredVersion[job[w]] \notin {AnyVersion, scene}
  /\ \A i \in DOMAIN Record(w).steps : Record(w).steps[i] \notin Done

ReadScene(w) ==
  /\ pc[w] = "reading"
  /\ ~Stale(w)
  /\ ReadAgain(w)
  /\ Goto(w, "copying")
  /\ UNCHANGED <<files, step, gained, lock, job, counters, touched, succeeded>>

RefuseStaleScene(w) ==
  /\ pc[w] = "reading"
  /\ Stale(w)
  /\ Fail(w, 0)
  /\ UNCHANGED touched

ReadFails(w) ==
  /\ pc[w] = "reading"
  /\ Fail(w, 0)
  /\ UNCHANGED touched

MakeRecoveryCopy(w) ==
  /\ pc[w] = "copying"
  /\ Mutates(job[w]) /\ ~Record(w).recovered
  /\ SaveAndGoto(w, [Record(w) EXCEPT !.recovered = TRUE,
                                      !.phase = "recovery_created"],
                 "starting")
  /\ UNCHANGED <<memory, touched, succeeded>>

KeepRecoveryCopy(w) ==
  /\ pc[w] = "copying"
  /\ Mutates(job[w]) => Record(w).recovered
  /\ Goto(w, "starting")
  /\ UNCHANGED <<files, memory, lock, job, counters, touched, succeeded>>

StartExecuting(w) ==
  /\ pc[w] = "starting"
  /\ SaveAndGoto(w, [Record(w) EXCEPT !.phase = "executing"], "stepping")
  /\ UNCHANGED <<memory, touched, succeeded>>

-------------------------------------------------------------------------------
(* The steps. *)

Advance(w) == step' = [step EXCEPT ![w] = @ + 1]

(* Mutant of SkipDone: the loop is left where it was. *)
SkipNothing(w) ==
  /\ AtStep(w)
  /\ Record(w).steps[step[w]] \in Done
  /\ gained' = [gained EXCEPT ![w] = IF @ = {} THEN {"preview"} ELSE {}]
  /\ UNCHANGED <<files, readout, missed, step, control, counters, touched, succeeded>>

SkipDone(w) ==
  /\ AtStep(w)
  /\ Record(w).steps[step[w]] \in Done
  /\ Advance(w)
  /\ UNCHANGED <<files, readout, missed, gained, control, counters, touched, succeeded>>

(* The desired state holds already: recorded, and nothing is invoked. *)
FindSatisfied(w) ==
  /\ AtStep(w)
  /\ Record(w).steps[step[w]] \notin Done
  /\ Satisfied(Step(w), readout[w])
  /\ Advance(w)
  /\ SaveAndGoto(w, [Record(w) EXCEPT !.steps[step[w]] = "already_applied"],
                 "stepping")
  /\ UNCHANGED <<readout, missed, gained, touched, succeeded>>

MustInvoke(w) ==
  /\ AtStep(w)
  /\ Record(w).steps[step[w]] \notin Done
  /\ ~Satisfied(Step(w), readout[w])

(* Blender carries the step out and saves the project. *)
ChangeScene(w) ==
  /\ Possible(Step(w), scene)
  /\ scene' = Effect(Step(w), scene)
  /\ scene'.extras <= MaxExtras
  /\ effects' = [effects EXCEPT ![job[w]][step[w]] = @ + (IF scene' = scene
                                                          THEN 0 ELSE 1)]
  /\ UNCHANGED late

Invoke(w) ==
  /\ MustInvoke(w)
  /\ ChangeScene(w)
  /\ Goto(w, "invoked")
  /\ UNCHANGED <<files, memory, lock, job, counters, succeeded>>

(* "ok" from a backend that changed nothing. *)
InvokeInVain(w) ==
  /\ MustInvoke(w)
  /\ Goto(w, "invoked")
  /\ UNCHANGED <<files, memory, lock, job, counters, touched, succeeded>>

(* Refused, timed out or failed, with the scene as it was, or changed.      *)
InvokeFails(w) ==
  /\ MustInvoke(w)
  /\ Fail(w, step[w])
  /\ UNCHANGED touched

InvokeUnreported(w) ==
  /\ MustInvoke(w)
  /\ ChangeScene(w)
  /\ Fail(w, step[w])

(* Nobody waits for the call any more, and nothing cancels it: Blender has    *)
(* read the project and will save it.                                       *)
LeaveRunning(w) ==
  /\ Step(w).kind # "read" /\ Possible(Step(w), scene)
  /\ Cardinality(late) < MaxLate
  /\ LET left == Effect(Step(w), scene) IN
       /\ left.extras <= MaxExtras
       /\ late' = late \cup {[job |-> job[w], step |-> step[w], scene |-> left]}
  /\ UNCHANGED <<scene, effects>>

(* The session waits no longer (session.py:228). *)
GiveUp(w) ==
  /\ MustInvoke(w)
  /\ LeaveRunning(w)
  /\ Fail(w, step[w])

(* Mutant of ConfirmStep: the scene read before the step is kept. *)
ConfirmUnread(w) ==
  /\ pc[w] = "invoked"
  /\ Advance(w)
  /\ SaveAndGoto(w, [Record(w) EXCEPT !.steps[step[w]] = "applied",
                                      !.phase = "project_saved"],
                 "stepping")
  /\ UNCHANGED <<readout, missed, gained, touched, succeeded>>

(* The scene is read back, the end state found in it, the step recorded. *)
ConfirmStep(w) ==
  /\ pc[w] = "invoked"
  /\ Verified(Step(w), scene)
  /\ ReadAgain(w)
  /\ Advance(w)
  /\ SaveAndGoto(w, [Record(w) EXCEPT !.steps[step[w]] = "applied",
                                      !.phase = "project_saved"],
                 "stepping")
  /\ UNCHANGED <<gained, touched, succeeded>>

VerifyFails(w) ==
  /\ pc[w] = "invoked"
  /\ ~Verified(Step(w), scene)
  /\ Fail(w, step[w])
  /\ UNCHANGED touched

(* The read back fails: the attempt ends, and says nothing of the step. *)
ReadBackFails(w) ==
  /\ pc[w] = "invoked"
  /\ Fail(w, 0)
  /\ UNCHANGED touched

FinishSteps(w) ==
  /\ pc[w] = "stepping"
  /\ step[w] \notin Indices(job[w])
  /\ SaveAndGoto(w, [Record(w) EXCEPT !.phase = "scene_inspected"],
                 "attaching")
  /\ UNCHANGED <<memory, touched, succeeded>>

-------------------------------------------------------------------------------
(* Artifacts, which can fail nothing: first the preview, then the model. *)

Wanted(w) == IF pc[w] = "attaching" THEN "preview" ELSE "model"
Attaching(w) == pc[w] \in {"attaching", "exporting"}
NextArtifact(w) ==
  Goto(w, IF pc[w] = "attaching" THEN "exporting" ELSE "completing")

(* It is attached already, or cannot be produced. *)
LeaveArtifact(w) ==
  /\ Attaching(w)
  /\ NextArtifact(w)
  /\ UNCHANGED <<files, memory, lock, job, counters, touched, succeeded>>

(* It is in the store, or is produced and put there. *)
AttachArtifact(w) ==
  /\ Attaching(w)
  /\ Wanted(w) \notin Record(w).attached
  /\ artifacts' = artifacts \cup {<<job[w], Wanted(w)>>}
  /\ gained' = [gained EXCEPT ![w] = @ \cup {Wanted(w)}]
  /\ NextArtifact(w)
  /\ UNCHANGED <<journal, binding, readout, missed, step, lock, job, counters,
                 touched, succeeded>>

(* The phase the record has in memory after the artifacts. *)
PhaseGained(w) ==
  CASE "model" \in gained[w]   -> "model_exported"
    [] "preview" \in gained[w] -> "preview_generated"
    [] OTHER                   -> Record(w).phase

Complete(w) ==
  /\ pc[w] = "completing"
  /\ Record(w).phase # "completed"
  /\ Save(w, [Record(w) EXCEPT !.attached = @ \cup gained[w],
                               !.phase = "completed",
                               !.status = "succeeded"])
  /\ Return(w, "succeeded")
  /\ UNCHANGED <<binding, artifacts, touched>>

(* A replay saves the record as the artifacts left it, and answers           *)
(* "succeeded".                                                              *)
FinishReplay(w) ==
  /\ pc[w] = "completing"
  /\ Record(w).phase = "completed"
  /\ Save(w, [Record(w) EXCEPT !.attached = @ \cup gained[w],
                               !.phase = PhaseGained(w)])
  /\ Return(w, "succeeded")
  /\ UNCHANGED <<binding, artifacts, touched>>

-------------------------------------------------------------------------------
(* The environment. *)

(* The process dies, or an exception nothing catches ends the attempt; a     *)
(* Blender it waits for may live on.                                        *)
Crash(w) ==
  /\ pc[w] # "idle"
  /\ Leave(w)
  /\ UNCHANGED touched \/ (MustInvoke(w) /\ LeaveRunning(w))
  /\ UNCHANGED <<files, succeeded>>

(* A Blender given up on saves the project as it read it, with its step:     *)
(* whatever was done since is gone, and no lock keeps it out.                *)
LateSave ==
  \E b \in late :
    /\ late' = late \ {b}
    /\ scene' = b.scene
    /\ effects' = [effects EXCEPT ![b.job][b.step] = @ + (IF b.scene = scene
                                                         THEN 0 ELSE 1)]
    /\ missed' = missed \cup {w \in Workers : pc[w] \in {"copying", "starting", "stepping"}}
    /\ UNCHANGED <<files, readout, step, gained, control, counters, succeeded>>

(* A move job, which takes the same lock, puts an object elsewhere. *)
EditElsewhere(o) ==
  /\ lock = Free
  /\ edits < MaxEdits
  /\ edits' = edits + 1
  /\ scene.at[o] # Absent
  /\ \E p \in Places \ {scene.at[o]} : scene' = [scene EXCEPT !.at[o] = p]
  /\ UNCHANGED <<files, memory, control, deliveries, late, effects, succeeded>>

(* Damage from outside, while nobody writes. *)
DamageRecord(j) ==
  /\ lock = Free
  /\ j \in Damageable
  /\ journal[j].phase # "absent"
  /\ journal' = [journal EXCEPT ![j] = NewRecord(j, "corrupt")]
  /\ UNCHANGED <<binding, artifacts, memory, control, counters, touched,
                 succeeded>>

DamageBinding(k) ==
  /\ lock = Free
  /\ k \in Damageable
  /\ binding[k] # Unbound
  /\ binding' = [binding EXCEPT ![k] = Corrupt]
  /\ UNCHANGED <<journal, artifacts, memory, control, counters, touched,
                 succeeded>>

Execute(w) ==
  \/ AcquireLock(w) \/ LockConflict(w)
  \/ RefuseCorruptRecord(w) \/ ReplayCompleted(w)
  \/ BindKey(w) \/ RefuseForeignKey(w) \/ RaiseOnCorruptBinding(w)
  \/ Receive(w)
  \/ ReadScene(w) \/ RefuseStaleScene(w) \/ ReadFails(w)
  \/ MakeRecoveryCopy(w) \/ KeepRecoveryCopy(w) \/ StartExecuting(w)
  \/ SkipDone(w) \/ FindSatisfied(w)
  \/ Invoke(w) \/ InvokeInVain(w) \/ InvokeFails(w) \/ InvokeUnreported(w)
  \/ GiveUp(w)
  \/ ConfirmStep(w) \/ VerifyFails(w) \/ ReadBackFails(w)
  \/ FinishSteps(w)
  \/ LeaveArtifact(w) \/ AttachArtifact(w)
  \/ Complete(w) \/ FinishReplay(w)

Environment ==
  \/ \E w \in Workers, j \in Jobs : Deliver(w, j)
  \/ \E w \in Workers : Crash(w)
  \/ LateSave
  \/ \E o \in Objects : EditElsewhere(o)
  \/ \E j \in Jobs : DamageRecord(j)
  \/ \E k \in Keys : DamageBinding(k)

Next == Environment \/ \E w \in Workers : Execute(w)

Spec == Init /\ [][Next]_vars

(* execute() runs on its own thread of control until it returns. *)
FairSpec == Spec /\ \A w \in Workers : WF_vars(Execute(w))

-------------------------------------------------------------------------------
(* Properties. *)

Labels == {"idle", "locking", "loading", "receiving", "reading", "copying",
           "starting", "stepping", "invoked", "attaching", "exporting",
           "completing"}
Stepping == {"copying", "starting", "stepping", "invoked"}

Records(j) ==
  [phase : Phases, steps : [Indices(j) -> {"none", "failed"} \cup Done],
   recovered : BOOLEAN, attached : SUBSET {"preview", "model"},
   status : {"running", "succeeded", "failed"}]

(* Every variable, and every field of every record, has its type. *)
TypeOK ==
  /\ DOMAIN journal = Jobs /\ \A j \in Jobs : journal[j] \in Records(j)
  /\ binding \in [Keys -> Jobs \cup {Unbound, Corrupt}]
  /\ artifacts \subseteq Jobs \X {"preview", "model"}
  /\ scene \in Scenes
  /\ \A b \in late : /\ b.job \in Jobs /\ b.step \in Indices(b.job)
                    /\ b.scene \in Scenes
  /\ missed \subseteq Workers
  /\ lock \in Workers \cup {Free}
  /\ pc \in [Workers -> Labels]
  /\ job \in [Workers -> Jobs \cup {NoJob}]
  /\ \A w \in Workers : pc[w] # "idle" => job[w] \in Jobs
  /\ readout \in [Workers -> Scenes]
  /\ step \in [Workers -> Nat]
  /\ gained \in [Workers -> SUBSET {"preview", "model"}]
  /\ deliveries \in 0 .. MaxDeliveries /\ edits \in 0 .. MaxEdits
  /\ DOMAIN effects = Jobs /\ \A j \in Jobs : effects[j] \in [Indices(j) -> Nat]
  /\ succeeded \subseteq Jobs

(* Whether a step is needed is decided on the scene as it is: between the   *)
(* read and the decision nobody changes the project, not even the job's    *)
(* own earlier steps (readout is read again after each of them); nobody but *)
(* a Blender given up on, which takes no lock (session.py:228).             *)
DecidesOnFreshScene ==
  \A w \in Workers :
    pc[w] \in Stepping \ {"invoked"} /\ w \notin missed => readout[w] = scene

(* No attempt adds an object that is there already: a retry finds its walls *)
(* built whether or not the journal knew (capability_executor.py:495-497).  *)
(* It does build a wall twice when the Blender it gave up on saves the first *)
(* between the retry's reading and its step.                                *)
NothingIsBuiltTwice ==
  [][scene'.extras # scene.extras =>
       \/ late' # late
       \/ \E w \in Workers :
            /\ AtStep(w)
            /\ Step(w).kind \in {"create_unnamed", "blind"} \/ w \in missed]_vars

(* The one recovery point of a plan is the project before any of its steps, *)
(* however many attempts it takes.                                         *)
RecoveryIsPristine ==
  [][\A j \in Jobs :
       journal'[j].recovered /\ ~journal[j].recovered
         => \A i \in Indices(j) : effects[j][i] = 0]_vars

(* An attempt that is not cut off returns: the steps are finitely many, and *)
(* no outcome of one leaves the loop where it was.                         *)
AttemptsEnd == \A w \in Workers : []<>(pc[w] = "idle")

===============================================================================
