----------------------- MODULE CapabilityExecutor_proofs -----------------------
(***************************************************************************)
(* Theorems about CapabilityExecutor, for every set of workers, plans and  *)
(* scenes, and every bound.                                                *)
(***************************************************************************)
EXTENDS CapabilityExecutor, TLAPS

-------------------------------------------------------------------------------
(* The inductive invariant. *)

(* Between the lock's acquisition and its release a worker is alone with    *)
(* the project: its journal, its bindings and its .blend.                   *)
Holding == Labels \ {"idle", "locking"}
LockInv == \A w \in Workers : pc[w] \in Holding => lock = w

(* What a worker has seen to before it goes on: the record is readable once *)
(* it was loaded, exists once it was received, and has its recovery point   *)
(* before a step is carried out.                                            *)
WorkInv ==
  \A w \in Workers :
    /\ pc[w] \in Holding \ {"loading"} => Record(w).phase # "corrupt"
    /\ pc[w] \in {"reading"} \cup Stepping => Record(w).phase # "absent"
    /\ pc[w] \in Stepping \ {"copying"} /\ Mutates(job[w]) => Record(w).recovered

(* A job that has changed the scene has a record with a recovery point, if  *)
(* its record can be read at all.                                           *)
CopyInv ==
  \A j \in Jobs :
    \/ journal[j].phase = "corrupt"
    \/ \A i \in Indices(j) : effects[j][i] = 0
    \/ journal[j].phase # "absent" /\ journal[j].recovered

(* So has a job whose step a Blender that nobody waits for will still save.  *)
Covered(j) == \/ journal[j].phase = "corrupt"
              \/ journal[j].phase # "absent" /\ journal[j].recovered
LateInv == \A b \in late : Covered(b.job)

IndInv == TypeOK /\ LockInv /\ WorkInv /\ DecidesOnFreshScene /\ CopyInv /\ LateInv

-------------------------------------------------------------------------------
(* Records. *)

LEMMA BusyHasRecord ==
  ASSUME TypeOK, NEW w \in Workers, pc[w] # "idle"
  PROVE  job[w] \in Jobs /\ Record(w) \in Records(job[w])
BY DEF TypeOK, Record

LEMMA NewRecordType ==
  ASSUME NEW j \in Jobs, NEW phase \in Phases
  PROVE  /\ NewRecord(j, phase) \in Records(j)
         /\ NewRecord(j, phase).phase = phase
         /\ ~NewRecord(j, phase).recovered
BY DEF NewRecord, Records

(* Saving a record replaces that record and no other. *)
Wrote(j, phase, recovered) ==
  /\ DOMAIN journal' = Jobs /\ journal'[j] \in Records(j)
  /\ journal'[j].phase = phase /\ journal'[j].recovered = recovered
  /\ \A k \in Jobs \ {j} : journal'[k] = journal[k]

LEMMA SaveReplaces ==
  ASSUME TypeOK, NEW w \in Workers, job[w] \in Jobs,
         NEW r \in Records(job[w]), Save(w, r)
  PROVE  Wrote(job[w], r.phase, r.recovered)
BY DEF TypeOK, Save, Wrote

(* _fail keeps of the record what it says about its recovery point. *)
LEMMA FailWrites ==
  ASSUME TypeOK, NEW w \in Workers, pc[w] # "idle", NEW at, Fail(w, at)
  PROVE  Wrote(job[w], "failed", Record(w).recovered)
<1> DEFINE r == [Record(w) EXCEPT
                   !.steps = [i \in DOMAIN @ |-> IF i = at THEN "failed" ELSE @[i]],
                   !.phase = "failed", !.status = "failed"]
<1>1. job[w] \in Jobs /\ Record(w) \in Records(job[w])
  BY BusyHasRecord
<1>2. r \in Records(job[w]) /\ r.phase = "failed" /\ r.recovered = Record(w).recovered
  BY <1>1 DEF Records, Phases
<1>3. Save(w, r)
  BY DEF Fail
<1> HIDE DEF r
<1>4. Wrote(job[w], r.phase, r.recovered)
  BY <1>1, <1>2, <1>3, SaveReplaces
<1> QED  BY <1>2, <1>4

(* A record is made where there is none, and taken up again elsewhere. *)
LEMMA ReceiveWrites ==
  ASSUME TypeOK, NEW w \in Workers, Receive(w)
  PROVE  IF Record(w).phase = "absent" THEN Wrote(job[w], "received", FALSE)
         ELSE Wrote(job[w], Record(w).phase, Record(w).recovered)
<1> DEFINE new == NewRecord(job[w], "received")
           old == [Record(w) EXCEPT !.status = "running"]
<1>1. job[w] \in Jobs /\ Record(w) \in Records(job[w])
  BY BusyHasRecord DEF Receive
<1>2. new \in Records(job[w]) /\ new.phase = "received" /\ new.recovered = FALSE
  <2>1. "received" \in Phases
    BY DEF Phases
  <2>2. new \in Records(job[w]) /\ new.phase = "received" /\ ~new.recovered
    BY <1>1, <2>1, NewRecordType
  <2> QED  BY <2>2 DEF Records
<1>3. /\ old \in Records(job[w])
      /\ old.phase = Record(w).phase /\ old.recovered = Record(w).recovered
  BY <1>1 DEF Records
<1>4. Save(w, IF Record(w).phase = "absent" THEN new ELSE old)
  BY DEF Receive, SaveAndGoto
<1> HIDE DEF new, old
<1>5. CASE Record(w).phase = "absent"
  <2>1. Wrote(job[w], new.phase, new.recovered)
    BY <1>1, <1>2, <1>4, <1>5, SaveReplaces
  <2> QED  BY <1>2, <1>5, <2>1
<1>6. CASE Record(w).phase # "absent"
  <2>1. Wrote(job[w], old.phase, old.recovered)
    BY <1>1, <1>3, <1>4, <1>6, SaveReplaces
  <2> QED  BY <1>3, <1>6, <2>1
<1> QED  BY <1>5, <1>6

LEMMA RecoveryWrites ==
  ASSUME TypeOK, NEW w \in Workers, MakeRecoveryCopy(w)
  PROVE  Wrote(job[w], "recovery_created", TRUE)
<1> DEFINE r == [Record(w) EXCEPT !.recovered = TRUE, !.phase = "recovery_created"]
<1>1. job[w] \in Jobs /\ Record(w) \in Records(job[w])
  BY BusyHasRecord DEF MakeRecoveryCopy
<1>2. r \in Records(job[w]) /\ r.phase = "recovery_created" /\ r.recovered = TRUE
  BY <1>1 DEF Records, Phases
<1>3. Save(w, r)
  BY DEF MakeRecoveryCopy, SaveAndGoto
<1> HIDE DEF r
<1>4. Wrote(job[w], r.phase, r.recovered)
  BY <1>1, <1>2, <1>3, SaveReplaces
<1> QED  BY <1>2, <1>4

(* The other saves of an attempt, after which the record is what it was,     *)
(* further on.                                                               *)
Progresses(w) == StartExecuting(w) \/ FindSatisfied(w) \/ ConfirmStep(w)
                 \/ FinishSteps(w) \/ Complete(w) \/ FinishReplay(w)

LEMMA ProgressWrites ==
  ASSUME TypeOK, WorkInv, NEW w \in Workers, Progresses(w)
  PROVE  /\ pc[w] \in Holding
         /\ \E phase \in Phases \ {"absent", "corrupt"} :
              Wrote(job[w], phase, Record(w).recovered)
<1>1. /\ pc[w] \in {"starting", "stepping", "invoked", "completing"}
      /\ pc[w] \in Holding
  BY DEF Progresses, StartExecuting, FindSatisfied, ConfirmStep, FinishSteps,
         Complete, FinishReplay, AtStep, Holding, Labels
<1>2. job[w] \in Jobs /\ Record(w) \in Records(job[w])
  BY <1>1, BusyHasRecord
<1>3. ASSUME NEW r, Save(w, r), r \in Records(job[w]),
             r.phase \notin {"absent", "corrupt"},
             r.recovered = Record(w).recovered
      PROVE  \E phase \in Phases \ {"absent", "corrupt"} :
               Wrote(job[w], phase, Record(w).recovered)
  <2>1. Wrote(job[w], r.phase, r.recovered) /\ r.phase \in Phases
    BY <1>2, <1>3, SaveReplaces DEF Records
  <2> QED  BY <1>3, <2>1
<1> USE DEF Records, Phases, SaveAndGoto
<1>4. CASE StartExecuting(w)
  <2> DEFINE r == [Record(w) EXCEPT !.phase = "executing"]
  <2>1. Save(w, r) /\ r \in Records(job[w])
          /\ r.phase \notin {"absent", "corrupt"} /\ r.recovered = Record(w).recovered
    BY <1>2, <1>4 DEF StartExecuting
  <2> HIDE DEF r
  <2> QED  BY <1>1, <1>3, <2>1
<1>5. CASE FindSatisfied(w)
  <2> DEFINE r == [Record(w) EXCEPT !.steps[step[w]] = "already_applied"]
  <2>1. r \in Records(job[w]) /\ r.phase = Record(w).phase
          /\ r.recovered = Record(w).recovered
    BY <1>2, <1>5 DEF FindSatisfied, AtStep, Done
  <2>2. Save(w, r) /\ pc[w] = "stepping"
    BY <1>5 DEF FindSatisfied, AtStep
  <2>3. Record(w).phase \notin {"absent", "corrupt"}
    BY <2>2 DEF WorkInv, Stepping, Holding, Labels
  <2> HIDE DEF r
  <2> QED  BY <1>1, <1>3, <2>1, <2>2, <2>3
<1>6. CASE ConfirmStep(w)
  <2> DEFINE r == [Record(w) EXCEPT !.steps[step[w]] = "applied",
                                    !.phase = "project_saved"]
  <2>1. r \in Records(job[w]) /\ r.phase = "project_saved"
          /\ r.recovered = Record(w).recovered
    BY <1>2, <1>6 DEF Done
  <2>2. Save(w, r)
    BY <1>6 DEF ConfirmStep
  <2> HIDE DEF r
  <2> QED  BY <1>1, <1>3, <2>1, <2>2
<1>7. CASE FinishSteps(w)
  <2> DEFINE r == [Record(w) EXCEPT !.phase = "scene_inspected"]
  <2>1. Save(w, r) /\ r \in Records(job[w])
          /\ r.phase \notin {"absent", "corrupt"} /\ r.recovered = Record(w).recovered
    BY <1>2, <1>7 DEF FinishSteps
  <2> HIDE DEF r
  <2> QED  BY <1>1, <1>3, <2>1
<1>8. gained[w] \subseteq {"preview", "model"}
  BY DEF TypeOK
<1>9. CASE Complete(w)
  <2> DEFINE r == [Record(w) EXCEPT !.attached = @ \cup gained[w],
                                    !.phase = "completed", !.status = "succeeded"]
  <2>1. r \in Records(job[w]) /\ r.phase = "completed"
          /\ r.recovered = Record(w).recovered
    BY <1>2, <1>8
  <2>2. Save(w, r)
    BY <1>9 DEF Complete
  <2> HIDE DEF r
  <2> QED  BY <1>1, <1>3, <2>1, <2>2
<1>10. CASE FinishReplay(w)
  <2> DEFINE r == [Record(w) EXCEPT !.attached = @ \cup gained[w],
                                    !.phase = PhaseGained(w)]
  <2>1. PhaseGained(w) \in Phases \ {"absent", "corrupt"}
    BY <1>10 DEF FinishReplay, PhaseGained
  <2>2. r \in Records(job[w]) /\ r.phase = PhaseGained(w)
          /\ r.recovered = Record(w).recovered
    BY <1>2, <1>8, <2>1
  <2>3. Save(w, r)
    BY <1>10 DEF FinishReplay
  <2> HIDE DEF r
  <2> QED  BY <1>1, <1>3, <2>1, <2>2, <2>3
<1> QED  BY <1>1, <1>4, <1>5, <1>6, <1>7, <1>9, <1>10 DEF Progresses

(* What an action of execute() does to the journal. *)
LEMMA JournalStep ==
  ASSUME TypeOK, WorkInv, NEW w \in Workers, Execute(w)
  PROVE  \/ journal' = journal
         \/ /\ pc[w] \in Holding
            /\ \E phase \in Phases \ {"absent", "corrupt"}, recovered \in BOOLEAN :
                 /\ Wrote(job[w], phase, recovered)
                 /\ \/ recovered = Record(w).recovered
                    \/ Receive(w) /\ Record(w).phase = "absent" /\ ~recovered
                    \/ MakeRecoveryCopy(w) /\ recovered
<1> DEFINE Saves == \E phase \in Phases \ {"absent", "corrupt"}, recovered \in BOOLEAN :
                      /\ Wrote(job[w], phase, recovered)
                      /\ \/ recovered = Record(w).recovered
                         \/ Receive(w) /\ Record(w).phase = "absent" /\ ~recovered
                         \/ MakeRecoveryCopy(w) /\ recovered
<1>1. CASE Progresses(w)
  <2>1. job[w] \in Jobs /\ Record(w) \in Records(job[w])
    BY <1>1, ProgressWrites, BusyHasRecord DEF Holding
  <2>2. Record(w).recovered \in BOOLEAN
    BY <2>1 DEF Records
  <2> QED  BY <1>1, <2>2, ProgressWrites
<1>2. ASSUME NEW at, Fail(w, at), pc[w] \in Holding PROVE Saves
  <2>1. job[w] \in Jobs /\ Record(w) \in Records(job[w])
    BY <1>2, BusyHasRecord DEF Holding
  <2>2. Record(w).recovered \in BOOLEAN /\ "failed" \in Phases \ {"absent", "corrupt"}
    BY <2>1 DEF Records, Phases
  <2>3. Wrote(job[w], "failed", Record(w).recovered)
    BY <1>2, FailWrites DEF Holding
  <2> QED  BY <2>2, <2>3
<1>3. CASE RefuseStaleScene(w) \/ ReadFails(w) \/ InvokeFails(w) \/ InvokeUnreported(w)
             \/ GiveUp(w) \/ VerifyFails(w) \/ ReadBackFails(w)
  <2>1. pc[w] \in Holding /\ \E at \in Int : Fail(w, at)
    <3>1. TypeOK => step[w] \in Int
      BY DEF TypeOK
    <3> QED  BY <1>3, <3>1 DEF RefuseStaleScene, ReadFails, InvokeFails, InvokeUnreported,
                 GiveUp, VerifyFails, ReadBackFails, MustInvoke, AtStep, Holding, Labels
  <2> QED  BY <1>2, <2>1
<1>4. CASE Receive(w)
  <2>1. pc[w] = "receiving" /\ pc[w] \in Holding
    BY <1>4 DEF Receive, Holding, Labels
  <2>2. job[w] \in Jobs /\ Record(w) \in Records(job[w])
    BY <2>1, BusyHasRecord
  <2>3. Record(w).recovered \in BOOLEAN /\ Record(w).phase \in Phases
          /\ Record(w).phase # "corrupt" /\ "received" \in Phases
    BY <2>1, <2>2 DEF Records, WorkInv, Phases
  <2>4. CASE Record(w).phase = "absent"
    BY <1>4, <2>1, <2>3, <2>4, ReceiveWrites
  <2>5. CASE Record(w).phase # "absent"
    BY <1>4, <2>1, <2>3, <2>5, ReceiveWrites
  <2> QED  BY <2>4, <2>5
<1>5. CASE MakeRecoveryCopy(w)
  <2>1. pc[w] \in Holding /\ "recovery_created" \in Phases
    BY <1>5 DEF MakeRecoveryCopy, Holding, Labels, Phases
  <2> QED  BY <1>5, <2>1, RecoveryWrites
<1>6. CASE AcquireLock(w) \/ LockConflict(w) \/ RefuseCorruptRecord(w) \/ ReplayCompleted(w)
             \/ BindKey(w) \/ RefuseForeignKey(w) \/ RaiseOnCorruptBinding(w)
             \/ ReadScene(w) \/ KeepRecoveryCopy(w) \/ SkipDone(w)
             \/ Invoke(w) \/ InvokeInVain(w) \/ LeaveArtifact(w) \/ AttachArtifact(w)
  BY <1>6 DEF AcquireLock, LockConflict, RefuseCorruptRecord, ReplayCompleted, BindKey,
              RefuseForeignKey, RaiseOnCorruptBinding, ReadScene, KeepRecoveryCopy,
              SkipDone, Invoke, InvokeInVain, LeaveArtifact, AttachArtifact, files
<1> QED  BY <1>1, <1>3, <1>4, <1>5, <1>6 DEF Execute, Progresses

(* What it does to the scene: it carries one step out, or nothing, or leaves *)
(* a Blender behind that will.                                               *)
LEMMA SceneStep ==
  ASSUME NEW w \in Workers, Execute(w)
  PROVE  \/ UNCHANGED touched
         \/ MustInvoke(w) /\ ChangeScene(w)
         \/ GiveUp(w) /\ MustInvoke(w) /\ LeaveRunning(w)
BY DEF Execute, AcquireLock, LockConflict, RefuseCorruptRecord, ReplayCompleted, BindKey,
       RefuseForeignKey, RaiseOnCorruptBinding, Receive, ReadScene, RefuseStaleScene,
       ReadFails, MakeRecoveryCopy, KeepRecoveryCopy, StartExecuting, SkipDone,
       FindSatisfied, Invoke, InvokeInVain, InvokeFails, InvokeUnreported, GiveUp,
       ConfirmStep, VerifyFails, ReadBackFails, FinishSteps, LeaveArtifact,
       AttachArtifact, Complete, FinishReplay

(* A worker whose attempt ends is as if it had never begun it. *)
LEMMA Leaving ==
  ASSUME TypeOK, NEW w \in Workers, Leave(w)
  PROVE  /\ pc' = [pc EXCEPT ![w] = "idle"] /\ job' = [job EXCEPT ![w] = NoJob]
         /\ readout' = [readout EXCEPT ![w] = InitialScene] /\ missed' = missed \ {w}
         /\ step' = [step EXCEPT ![w] = 1] /\ gained' = [gained EXCEPT ![w] = {}]
         /\ lock' = (IF lock = w THEN Free ELSE lock)
BY DEF Leave, Goto

Leaves(w) == LockConflict(w) \/ RefuseCorruptRecord(w) \/ RefuseForeignKey(w)
               \/ RaiseOnCorruptBinding(w) \/ RefuseStaleScene(w) \/ ReadFails(w)
               \/ InvokeFails(w) \/ InvokeUnreported(w) \/ GiveUp(w) \/ VerifyFails(w)
               \/ ReadBackFails(w) \/ Complete(w) \/ FinishReplay(w) \/ Crash(w)

LEMMA LeavesLeave == ASSUME NEW w \in Workers, Leaves(w) PROVE Leave(w)
BY DEF Leaves, LockConflict, RefuseCorruptRecord, RefuseForeignKey, RaiseOnCorruptBinding,
       RefuseStaleScene, ReadFails, InvokeFails, InvokeUnreported, GiveUp, VerifyFails,
       ReadBackFails, Complete, FinishReplay, Crash, Fail, Return

(* What a worker has missed is for itself to see to, by reading again. *)
LEMMA MissedStep ==
  ASSUME NEW w \in Workers, Execute(w) \/ Crash(w)
  PROVE  missed' \in {missed, missed \ {w}}
<1>1. CASE Leaves(w)
  BY <1>1, LeavesLeave DEF Leave
<1>2. CASE ~Leaves(w)
  BY <1>2 DEF Execute, Leaves, AcquireLock, ReplayCompleted, BindKey, Receive, ReadScene,
     ReadAgain, MakeRecoveryCopy, KeepRecoveryCopy, StartExecuting, SkipDone, FindSatisfied,
     Invoke, InvokeInVain, ConfirmStep, FinishSteps, LeaveArtifact, AttachArtifact, memory
<1> QED  BY <1>1, <1>2

(* What a step of one worker may do to the control of any of them. *)
Own(w) ==
  /\ \A v \in Workers \ {w} : /\ pc'[v] = pc[v] /\ job'[v] = job[v]
                              /\ readout'[v] = readout[v]
  /\ lock' = lock \/ lock = Free \/ lock = w
  /\ pc'[w] \in Holding => lock' = w
  /\ pc'[w] # "idle" => job'[w] = job[w]

LEMMA OwnStep ==
  ASSUME TypeOK, LockInv, NEW w \in Workers, Execute(w) \/ Crash(w)
  PROVE  Own(w)
<1> USE DEF TypeOK, Own
<1>1. CASE Leaves(w)
  <2>1. "idle" \notin Holding
    BY DEF Holding
  <2> QED  BY <1>1, <2>1, LeavesLeave, Leaving
<1> USE DEF Goto
<1>2. CASE AcquireLock(w)
  BY <1>2 DEF AcquireLock, memory
<1>3. ASSUME pc[w] \in Holding, lock' = lock, job' = job,
             pc' = [pc EXCEPT ![w] = pc'[w]], readout' = [readout EXCEPT ![w] = readout'[w]]
      PROVE  Own(w)
  BY <1>3 DEF LockInv
<1>4. CASE ReplayCompleted(w) \/ BindKey(w) \/ Receive(w) \/ ReadScene(w)
             \/ MakeRecoveryCopy(w) \/ KeepRecoveryCopy(w) \/ StartExecuting(w)
  <2>1. /\ pc[w] \in Holding /\ lock' = lock /\ job' = job
        /\ pc' = [pc EXCEPT ![w] = pc'[w]]
        /\ readout' = [readout EXCEPT ![w] = readout'[w]]
    BY <1>4 DEF ReplayCompleted, BindKey, Receive, ReadScene, MakeRecoveryCopy, Executable,
                KeepRecoveryCopy, StartExecuting, SaveAndGoto, ReadAgain, memory, Holding, Labels
  <2> QED  BY <1>3, <2>1
<1>5. CASE SkipDone(w) \/ FindSatisfied(w) \/ Invoke(w) \/ InvokeInVain(w) \/ ConfirmStep(w)
  <2>1. /\ pc[w] \in Holding /\ lock' = lock /\ job' = job
        /\ pc' = [pc EXCEPT ![w] = pc'[w]]
        /\ readout' = [readout EXCEPT ![w] = readout'[w]]
    BY <1>5 DEF SkipDone, FindSatisfied, Invoke, InvokeInVain, ConfirmStep, MustInvoke,
                AtStep, SaveAndGoto, ReadAgain, control, memory, Holding, Labels
  <2> QED  BY <1>3, <2>1
<1>6. CASE FinishSteps(w) \/ LeaveArtifact(w) \/ AttachArtifact(w)
  <2>1. /\ pc[w] \in Holding /\ lock' = lock /\ job' = job
        /\ pc' = [pc EXCEPT ![w] = pc'[w]]
        /\ readout' = [readout EXCEPT ![w] = readout'[w]]
    BY <1>6 DEF FinishSteps, LeaveArtifact, AttachArtifact, NextArtifact, Attaching,
                SaveAndGoto, memory, Holding, Labels
  <2> QED  BY <1>3, <2>1
<1> QED  BY <1>1, <1>2, <1>4, <1>5, <1>6 DEF Execute, Leaves

-------------------------------------------------------------------------------
(* Types. *)

LEMMA InitInv == Init => IndInv
<1> SUFFICES ASSUME Init PROVE IndInv
  OBVIOUS
<1>1. \A j \in Jobs : /\ journal[j] \in Records(j) /\ journal[j].phase = "absent"
                      /\ ~journal[j].recovered
  BY NewRecordType DEF Init, Phases
<1>2. TypeOK
  <2>1. \A j \in Jobs : effects[j] \in [Indices(j) -> Nat]
    BY DEF Init
  <2>2. readout \in [Workers -> Scenes] /\ scene \in Scenes
    BY ConstantsAssumption DEF Init
  <2>3. pc \in [Workers -> Labels]
    BY DEF Init, Labels
  <2> QED  BY <1>1, <2>1, <2>2, <2>3, ConstantsAssumption DEF Init, TypeOK
<1>3. \A w \in Workers : pc[w] = "idle"
  BY DEF Init
<1>4. LockInv /\ WorkInv /\ DecidesOnFreshScene
  BY <1>3 DEF LockInv, WorkInv, DecidesOnFreshScene, Holding, Stepping
<1>5. CopyInv /\ LateInv
  BY DEF CopyInv, LateInv, Init
<1> QED  BY <1>2, <1>4, <1>5 DEF IndInv

(* The step a worker is about to carry out is one of its plan. *)
LEMMA StepType ==
  ASSUME TypeOK, NEW w \in Workers, AtStep(w)
  PROVE  job[w] \in Jobs /\ step[w] \in Indices(job[w]) /\ Step(w) \in Steps
<1>1. job[w] \in Jobs /\ step[w] \in Indices(job[w])
  BY DEF TypeOK, AtStep
<1>2. PlanOf[job[w]] \in Seq(Steps)
  BY <1>1, ConstantsAssumption
<1> QED  BY <1>1, <1>2 DEF Step, Indices

LEMMA EffectType ==
  ASSUME TypeOK, NEW s \in Steps, Effect(s, scene).extras <= MaxExtras
  PROVE  Effect(s, scene) \in Scenes
<1> DEFINE left == Effect(s, scene)
<1>1. s.kind \in Kinds /\ s.object \in Objects /\ s.place \in Places
  BY DEF Steps
<1>2. scene \in Scenes
  BY DEF TypeOK
<1>3. CASE left = [scene EXCEPT !.extras = @ + 1]
  <2>1. scene.extras \in 0 .. MaxExtras /\ left.extras = scene.extras + 1
    BY <1>2, <1>3 DEF Scenes
  <2>2. scene.extras + 1 \in 0 .. MaxExtras
    BY <2>1
  <2> QED  BY <1>2, <1>3, <2>2 DEF Scenes
<1>4. CASE left = [scene EXCEPT !.at[s.object] = Absent]
  BY <1>1, <1>2, <1>4 DEF Scenes
<1>5. CASE left = [scene EXCEPT !.at[s.object] = s.place]
  BY <1>1, <1>2, <1>5 DEF Scenes
<1> QED  BY <1>2, <1>3, <1>4, <1>5 DEF Effect

(* Counting one more effect of one step. *)
LEMMA EffectsType ==
  ASSUME TypeOK, NEW j \in Jobs, NEW i \in Indices(j), NEW more \in {0, 1},
         effects' = [effects EXCEPT ![j][i] = @ + more]
  PROVE  /\ DOMAIN effects' = Jobs
         /\ \A k \in Jobs : effects'[k] \in [Indices(k) -> Nat]
         /\ \A k \in Jobs : \A n \in Indices(k) :
              effects'[k][n] # effects[k][n] => k = j /\ n = i /\ more = 1
<1>1. DOMAIN effects = Jobs /\ \A k \in Jobs : effects[k] \in [Indices(k) -> Nat]
  BY DEF TypeOK
<1>2. /\ effects'[j] = [effects[j] EXCEPT ![i] = @ + more]
      /\ DOMAIN effects' = Jobs
      /\ \A k \in Jobs \ {j} : effects'[k] = effects[k]
  BY <1>1
<1>3. /\ effects'[j] \in [Indices(j) -> Nat]
      /\ \A n \in Indices(j) : effects'[j][n] # effects[j][n] => n = i /\ more = 1
  BY <1>1, <1>2
<1> QED  BY <1>1, <1>2, <1>3

LEMMA SceneType ==
  ASSUME TypeOK, NEW w \in Workers, MustInvoke(w), ChangeScene(w)
  PROVE  /\ scene' \in Scenes
         /\ DOMAIN effects' = Jobs
         /\ \A j \in Jobs : effects'[j] \in [Indices(j) -> Nat]
         /\ \A j \in Jobs : \A i \in Indices(j) :
              effects'[j][i] # effects[j][i] =>
                j = job[w] /\ i = step[w] /\ scene' # scene
         /\ late' = late
<1> DEFINE more == IF scene' = scene THEN 0 ELSE 1
<1>1. job[w] \in Jobs /\ step[w] \in Indices(job[w]) /\ Step(w) \in Steps
  BY StepType DEF MustInvoke
<1>2. scene' = Effect(Step(w), scene) /\ scene'.extras <= MaxExtras
        /\ effects' = [effects EXCEPT ![job[w]][step[w]] = @ + more] /\ late' = late
  BY DEF ChangeScene
<1>3. scene' \in Scenes
  BY <1>1, <1>2, EffectType
<1>4. more \in {0, 1} /\ (more = 1 => scene' # scene)
  OBVIOUS
<1> HIDE DEF more
<1> QED  BY <1>1, <1>2, <1>3, <1>4, EffectsType

(* A Blender that is left running is at a step of a plan that has one. *)
LateOk(b) == b.job \in Jobs /\ b.step \in Indices(b.job) /\ b.scene \in Scenes

LEMMA LeftRunning ==
  ASSUME TypeOK, NEW w \in Workers, MustInvoke(w), LeaveRunning(w)
  PROVE  /\ scene' = scene /\ effects' = effects
         /\ job[w] \in Jobs /\ Mutates(job[w])
         /\ \A b \in late' : LateOk(b) /\ (b \in late \/ b.job = job[w])
<1> DEFINE left == Effect(Step(w), scene)
<1>1. job[w] \in Jobs /\ step[w] \in Indices(job[w]) /\ Step(w) \in Steps
  BY StepType DEF MustInvoke
<1>2. /\ scene' = scene /\ effects' = effects /\ Step(w).kind # "read"
      /\ left.extras <= MaxExtras
      /\ late' = late \cup {[job |-> job[w], step |-> step[w], scene |-> left]}
  BY DEF LeaveRunning
<1>3. left \in Scenes
  BY <1>1, <1>2, EffectType
<1>4. Mutates(job[w])
  BY <1>1, <1>2 DEF Mutates, Step
<1> HIDE DEF left
<1>5. \A b \in late : LateOk(b)
  BY DEF TypeOK, LateOk
<1> QED  BY <1>1, <1>2, <1>3, <1>4, <1>5 DEF LateOk

LEMMA LateSaveType ==
  ASSUME TypeOK, NEW b \in late, scene' = b.scene,
         effects' = [effects EXCEPT ![b.job][b.step] = @ + (IF b.scene = scene THEN 0 ELSE 1)]
  PROVE  /\ scene' \in Scenes /\ DOMAIN effects' = Jobs
         /\ \A j \in Jobs : effects'[j] \in [Indices(j) -> Nat]
         /\ \A j \in Jobs : \A i \in Indices(j) :
              effects'[j][i] # effects[j][i] => j = b.job
<1> DEFINE more == IF b.scene = scene THEN 0 ELSE 1
<1>1. b.job \in Jobs /\ b.step \in Indices(b.job) /\ b.scene \in Scenes
  BY DEF TypeOK
<1>2. more \in {0, 1} /\ effects' = [effects EXCEPT ![b.job][b.step] = @ + more]
  OBVIOUS
<1> HIDE DEF more
<1> QED  BY <1>1, <1>2, EffectsType

LEMMA LeavingTypes ==
  ASSUME TypeOK, NEW w \in Workers, Leave(w)
  PROVE  /\ lock' \in Workers \cup {Free} /\ pc' \in [Workers -> Labels]
         /\ job' \in [Workers -> Jobs \cup {NoJob}]
         /\ \A v \in Workers : pc'[v] # "idle" => job'[v] \in Jobs
         /\ readout' \in [Workers -> Scenes] /\ step' \in [Workers -> Nat]
         /\ gained' \in [Workers -> SUBSET {"preview", "model"}]
         /\ missed' \subseteq Workers
<1>1. InitialScene \in Scenes
  BY ConstantsAssumption
<1>2. "idle" \in Labels
  BY DEF Labels
<1> QED  BY <1>1, <1>2, Leaving DEF TypeOK

LEMMA TypeStep ==
  ASSUME TypeOK, WorkInv, [Next]_vars
  PROVE  TypeOK'
<1>1. ASSUME NEW w \in Workers, Execute(w) PROVE TypeOK'
  <2>1. DOMAIN journal' = Jobs /\ \A j \in Jobs : journal'[j] \in Records(j)
    BY <1>1, JournalStep DEF TypeOK, Wrote
  <2>2. /\ scene' \in Scenes /\ DOMAIN effects' = Jobs
        /\ \A j \in Jobs : effects'[j] \in [Indices(j) -> Nat]
        /\ \A b \in late' : /\ b.job \in Jobs /\ b.step \in Indices(b.job)
                              /\ b.scene \in Scenes
    <3> USE DEF LateOk
    <3>1. CASE UNCHANGED touched
      BY <3>1 DEF TypeOK, touched
    <3>2. CASE MustInvoke(w) /\ ChangeScene(w)
      BY <3>2, SceneType DEF TypeOK
    <3>3. CASE MustInvoke(w) /\ LeaveRunning(w)
      BY <3>3, LeftRunning DEF TypeOK
    <3> QED  BY <1>1, <3>1, <3>2, <3>3, SceneStep
  <2>5. missed' \subseteq Workers
    BY <1>1, MissedStep DEF TypeOK
  <2>3. /\ deliveries' = deliveries /\ edits' = edits
        /\ artifacts' \subseteq Jobs \X {"preview", "model"}
        /\ binding' \in [Keys -> Jobs \cup {Unbound, Corrupt}]
        /\ succeeded' \subseteq Jobs
    <3>1. pc[w] # "idle" => job[w] \in Jobs
      BY DEF TypeOK
    <3>2. CASE Leaves(w)
      BY <1>1, <3>1, <3>2 DEF TypeOK, Leaves, LockConflict, RefuseCorruptRecord,
         RefuseForeignKey, RaiseOnCorruptBinding, RefuseStaleScene, ReadFails,
         InvokeFails, InvokeUnreported, GiveUp, VerifyFails, ReadBackFails, Complete,
         FinishReplay, Crash, Fail, Return, Leave, files, counters, MustInvoke, AtStep
    <3>3. CASE BindKey(w)
      BY <3>1, <3>3, ConstantsAssumption DEF TypeOK, BindKey, Executable, counters
    <3>4. CASE AttachArtifact(w)
      BY <3>1, <3>4 DEF TypeOK, AttachArtifact, Attaching, Wanted, counters
    <3>5. CASE ~Leaves(w) /\ ~BindKey(w) /\ ~AttachArtifact(w)
      BY <1>1, <3>5 DEF TypeOK, Execute, Leaves, AcquireLock, ReplayCompleted, Receive,
         ReadScene, MakeRecoveryCopy, KeepRecoveryCopy, StartExecuting, SkipDone,
         FindSatisfied, Invoke, InvokeInVain, ConfirmStep, FinishSteps, LeaveArtifact,
         SaveAndGoto, files, control, counters
    <3> QED  BY <3>2, <3>3, <3>4, <3>5
  <2>4. /\ lock' \in Workers \cup {Free} /\ pc' \in [Workers -> Labels]
        /\ job' \in [Workers -> Jobs \cup {NoJob}]
        /\ \A v \in Workers : pc'[v] # "idle" => job'[v] \in Jobs
        /\ readout' \in [Workers -> Scenes] /\ step' \in [Workers -> Nat]
        /\ gained' \in [Workers -> SUBSET {"preview", "model"}]
    <3> USE DEF TypeOK
    <3>1. CASE Leaves(w)
      BY <3>1, LeavesLeave, LeavingTypes
    <3> USE DEF Goto, Labels
    <3>2. CASE AcquireLock(w) \/ ReplayCompleted(w) \/ BindKey(w) \/ Receive(w)
      BY <3>2 DEF AcquireLock, ReplayCompleted, BindKey, Receive, Executable,
                  SaveAndGoto, memory
    <3>3. CASE ReadScene(w) \/ MakeRecoveryCopy(w) \/ KeepRecoveryCopy(w)
                 \/ StartExecuting(w)
      BY <3>3 DEF ReadScene, MakeRecoveryCopy, KeepRecoveryCopy, StartExecuting,
                  SaveAndGoto, ReadAgain, memory
    <3>4. CASE SkipDone(w) \/ FindSatisfied(w) \/ ConfirmStep(w)
      BY <3>4 DEF SkipDone, FindSatisfied, ConfirmStep, Advance, AtStep, SaveAndGoto,
                  ReadAgain, control
    <3>5. CASE Invoke(w) \/ InvokeInVain(w) \/ FinishSteps(w)
      BY <3>5 DEF Invoke, InvokeInVain, FinishSteps, MustInvoke, AtStep, SaveAndGoto,
                  memory
    <3>6. CASE LeaveArtifact(w) \/ AttachArtifact(w)
      BY <3>6 DEF LeaveArtifact, AttachArtifact, NextArtifact, Attaching, Wanted, memory
    <3> QED  BY <1>1, <3>1, <3>2, <3>3, <3>4, <3>5, <3>6 DEF Execute, Leaves
  <2>7. deliveries' \in 0 .. MaxDeliveries /\ edits' \in 0 .. MaxEdits
    BY <2>3 DEF TypeOK
  <2> QED  BY <2>1, <2>2, <2>3, <2>4, <2>5, <2>7 DEF TypeOK
<1> USE DEF TypeOK
<1>2. ASSUME NEW w \in Workers, NEW j \in Jobs, Deliver(w, j) PROVE TypeOK'
  BY <1>2, ConstantsAssumption DEF Deliver, Goto, Labels, files, memory, touched
<1>3. ASSUME NEW w \in Workers, Crash(w) PROVE TypeOK'
  <2>1. Leave(w) /\ UNCHANGED <<files, counters, succeeded>>
    BY <1>3 DEF Crash, Leave
  <2>2. scene' = scene /\ effects' = effects /\ \A b \in late' : LateOk(b)
    <3>1. CASE UNCHANGED touched
      BY <3>1 DEF touched, LateOk
    <3>2. CASE MustInvoke(w) /\ LeaveRunning(w)
      BY <3>2, LeftRunning
    <3> QED  BY <1>3, <3>1, <3>2 DEF Crash
  <2> QED  BY <2>1, <2>2, LeavingTypes DEF files, counters, LateOk
<1>8. CASE LateSave
  <2>1. PICK b \in late :
          /\ late' = late \ {b} /\ scene' = b.scene
          /\ effects' = [effects EXCEPT ![b.job][b.step] = @ + (IF b.scene = scene THEN 0 ELSE 1)]
          /\ missed' = missed \cup {w \in Workers : pc[w] \in {"copying", "starting", "stepping"}}
          /\ UNCHANGED <<files, readout, step, gained, control, counters, succeeded>>
    BY <1>8 DEF LateSave
  <2>2. scene' \in Scenes /\ DOMAIN effects' = Jobs
          /\ \A j \in Jobs : effects'[j] \in [Indices(j) -> Nat]
    <3> HIDE DEF TypeOK
    <3> QED  BY <2>1, LateSaveType
  <2> QED  BY <2>1, <2>2 DEF files, control, counters
<1>4. ASSUME NEW o \in Objects, EditElsewhere(o) PROVE TypeOK'
  <2>1. scene' \in Scenes
    <3>1. PICK p \in Places : scene' = [scene EXCEPT !.at[o] = p]
      BY <1>4 DEF EditElsewhere
    <3> QED  BY <3>1 DEF Scenes
  <2> QED  BY <1>4, <2>1, ConstantsAssumption DEF EditElsewhere, files, memory, control
<1>5. ASSUME NEW j \in Jobs, DamageRecord(j) PROVE TypeOK'
  <2>1. NewRecord(j, "corrupt") \in Records(j)
    BY NewRecordType DEF Phases
  <2> QED  BY <1>5, <2>1 DEF DamageRecord, memory, control, counters, touched
<1>6. ASSUME NEW k \in Keys, DamageBinding(k) PROVE TypeOK'
  BY <1>6 DEF DamageBinding, memory, control, counters, touched
<1>7. CASE UNCHANGED vars
  BY <1>7 DEF vars, files, memory, control, counters, touched
<1> QED  BY <1>1, <1>2, <1>3, <1>4, <1>5, <1>6, <1>7, <1>8 DEF Next, Environment

-------------------------------------------------------------------------------
(* IndInv is inductive. *)

Holders == {"loading", "receiving", "reading", "copying", "starting", "stepping",
            "invoked", "attaching", "exporting", "completing"}

LEMMA HoldingLabels == Holding = Holders
BY DEF Holding, Labels, Holders

LEMMA LockStep ==
  ASSUME TypeOK, LockInv, [Next]_vars
  PROVE  LockInv'
<1> USE DEF LockInv
<1>1. ASSUME NEW w \in Workers, Execute(w) \/ Crash(w) PROVE LockInv'
  BY <1>1, OwnStep, ConstantsAssumption DEF Own
<1>2. ASSUME NEW w \in Workers, NEW j \in Jobs, Deliver(w, j) PROVE LockInv'
  BY <1>2, HoldingLabels DEF Deliver, Goto, TypeOK, Holders
<1>3. ASSUME \/ \E o \in Objects : EditElsewhere(o)
             \/ \E j \in Jobs : DamageRecord(j)
             \/ \E k \in Keys : DamageBinding(k)
             \/ LateSave
      PROVE  LockInv'
  BY <1>3 DEF LateSave, EditElsewhere, DamageRecord, DamageBinding, control
<1>4. CASE UNCHANGED vars
  BY <1>4 DEF vars, control
<1> QED  BY <1>1, <1>2, <1>3, <1>4 DEF Next, Environment

(* Nobody but the holder of the lock writes the journal, and nobody but the  *)
(* holder, carrying out a step, changes the scene.                           *)
LEMMA OthersAreKept ==
  ASSUME TypeOK, LockInv, WorkInv, NEW w \in Workers, Execute(w) \/ Crash(w),
         NEW v \in Workers \ {w}, pc'[v] \in Holding
  PROVE  /\ journal' = journal /\ scene' = scene
         /\ pc'[v] = pc[v] /\ job'[v] = job[v] /\ readout'[v] = readout[v]
         /\ v \in missed' <=> v \in missed
<1>5. v \in missed' <=> v \in missed
  BY MissedStep
<1>1. pc'[v] = pc[v] /\ job'[v] = job[v] /\ readout'[v] = readout[v]
  BY OwnStep DEF Own
<1>2. pc[w] \notin Holding
  BY <1>1 DEF LockInv
<1>3. CASE Execute(w)
  <2>1. journal' = journal
    BY <1>2, <1>3, JournalStep
  <2>2. scene' = scene
    BY <1>2, <1>3, SceneStep, HoldingLabels DEF MustInvoke, AtStep, Holders, touched
  <2> QED  BY <1>1, <1>5, <2>1, <2>2
<1>4. CASE Crash(w)
  BY <1>1, <1>4, <1>5 DEF Crash, LeaveRunning, files, touched
<1> QED  BY <1>3, <1>4

(* What the record says once the worker itself has saved it. *)
LEMMA SavedRecord ==
  ASSUME TypeOK, WorkInv, NEW w \in Workers, Execute(w), pc[w] \in Holding,
         pc[w] # "receiving", job'[w] = job[w]
  PROVE  /\ Record(w).phase \notin {"absent", "corrupt"}
              => Record(w)'.phase \notin {"absent", "corrupt"}
         /\ Record(w).phase # "corrupt" => Record(w)'.phase # "corrupt"
         /\ Record(w).recovered => Record(w)'.recovered
<1>1. ~Receive(w)
  BY DEF Receive
<1>2. CASE journal' = journal
  BY <1>2 DEF Record
<1>3. ASSUME NEW phase \in Phases \ {"absent", "corrupt"}, NEW recovered \in BOOLEAN,
             Wrote(job[w], phase, recovered),
             recovered = Record(w).recovered \/ recovered
      PROVE  /\ Record(w)'.phase \notin {"absent", "corrupt"}
             /\ Record(w).recovered => Record(w)'.recovered
  BY <1>3 DEF Wrote, Record
<1> QED  BY <1>1, <1>2, <1>3, JournalStep

LEMMA WorkStep ==
  ASSUME TypeOK, LockInv, WorkInv, [Next]_vars
  PROVE  WorkInv'
<1>0. Holding = Holders /\ Stepping \subseteq Holders
  BY HoldingLabels DEF Stepping, Holders
<1>1. ASSUME NEW w \in Workers, Execute(w) \/ Crash(w) PROVE WorkInv'
  <2> DEFINE Ok(v) ==
        /\ pc[v] \in Holding \ {"loading"} => Record(v).phase # "corrupt"
        /\ pc[v] \in {"reading"} \cup Stepping => Record(v).phase # "absent"
        /\ pc[v] \in Stepping \ {"copying"} /\ Mutates(job[v]) => Record(v).recovered
  <2>1. ASSUME NEW v \in Workers \ {w} PROVE Ok(v)'
    <3>1. CASE pc'[v] \in Holding
      <4>1. journal' = journal /\ pc'[v] = pc[v] /\ job'[v] = job[v]
        BY <1>1, <3>1, OthersAreKept
      <4> QED  BY <4>1 DEF WorkInv, Record, Mutates
    <3>2. CASE pc'[v] \notin Holding
      BY <1>0, <3>2 DEF Holders
    <3> QED  BY <3>1, <3>2
  <2>2. Ok(w)'
    <3>1. CASE Leaves(w)
      <4>1. pc'[w] = "idle"
        BY <3>1, LeavesLeave, Leaving DEF TypeOK
      <4> QED  BY <1>0, <4>1 DEF Holders
    <3>2. CASE ~Leaves(w)
      <4>1. Execute(w) /\ (pc'[w] # "idle" => job'[w] = job[w])
        BY <1>1, <3>2, OwnStep DEF Leaves, Own
      <4>2. CASE AcquireLock(w)
        BY <1>0, <4>2 DEF AcquireLock, Goto, TypeOK, Stepping
      <4>3. CASE ReplayCompleted(w) \/ BindKey(w)
        <5>1. /\ pc'[w] \in {"attaching", "receiving"} /\ journal' = journal
              /\ job' = job /\ Record(w).phase # "corrupt"
          BY <4>3 DEF ReplayCompleted, BindKey, Executable, Goto, TypeOK, files
        <5> QED  BY <5>1 DEF Record, Stepping
      <4>4. CASE Receive(w)
        <5>1. pc'[w] = "reading" /\ job' = job /\ job[w] \in Jobs
          BY <4>4, BusyHasRecord DEF Receive, SaveAndGoto, Goto, TypeOK
        <5>2. Record(w).phase \in Phases \ {"corrupt"}
          BY <1>0, <4>4, BusyHasRecord DEF Receive, WorkInv, Records, Holders
        <5>3. Record(w)'.phase \notin {"absent", "corrupt"}
          BY <4>4, <5>1, <5>2, ReceiveWrites DEF Wrote, Record
        <5> QED  BY <5>1, <5>3 DEF Stepping
      <4>5. CASE \/ ReadScene(w) \/ KeepRecoveryCopy(w) \/ StartExecuting(w)
                 \/ MakeRecoveryCopy(w)
        <5>1. /\ pc[w] \in {"reading", "copying", "starting"} /\ job' = job
              /\ pc'[w] \in {"copying", "starting", "stepping"}
              /\ pc'[w] = "stepping" <=> pc[w] = "starting"
              /\ pc'[w] = "copying" <=> pc[w] = "reading"
          BY <4>5 DEF ReadScene, KeepRecoveryCopy, StartExecuting, MakeRecoveryCopy,
                      SaveAndGoto, Goto, TypeOK
        <5>2. Record(w).phase \notin {"absent", "corrupt"}
          BY <1>0, <5>1 DEF WorkInv, Stepping, Holders
        <5>3. /\ Record(w)'.phase \notin {"absent", "corrupt"}
              /\ Record(w).recovered => Record(w)'.recovered
          BY <1>0, <4>1, <5>1, <5>2, SavedRecord DEF Holders
        <5>4. Mutates(job[w]) /\ pc'[w] # "copying" => Record(w)'.recovered
          <6>1. CASE MakeRecoveryCopy(w)
            BY <5>1, <6>1, RecoveryWrites DEF Wrote, Record
          <6>2. CASE KeepRecoveryCopy(w)
            BY <5>3, <6>2 DEF KeepRecoveryCopy
          <6>3. CASE StartExecuting(w)
            BY <5>3, <6>3 DEF StartExecuting, WorkInv, Stepping
          <6>4. CASE ReadScene(w)
            BY <5>1, <6>4 DEF ReadScene
          <6> QED  BY <4>5, <6>1, <6>2, <6>3, <6>4
        <5> QED  BY <5>1, <5>3, <5>4 DEF Mutates
      <4>6. CASE \/ SkipDone(w) \/ FindSatisfied(w) \/ ConfirmStep(w)
                 \/ Invoke(w) \/ InvokeInVain(w)
        <5>1. /\ pc[w] \in {"stepping", "invoked"} /\ job' = job
              /\ pc'[w] \in {"stepping", "invoked"}
          BY <4>6 DEF SkipDone, FindSatisfied, ConfirmStep, Invoke, InvokeInVain,
                      MustInvoke, AtStep, SaveAndGoto, Goto, TypeOK, control
        <5>2. /\ Record(w).phase \notin {"absent", "corrupt"}
              /\ Mutates(job[w]) => Record(w).recovered
          BY <1>0, <5>1 DEF WorkInv, Stepping, Holders
        <5>3. /\ Record(w)'.phase \notin {"absent", "corrupt"}
              /\ Record(w).recovered => Record(w)'.recovered
          BY <1>0, <4>1, <5>1, <5>2, SavedRecord DEF Holders
        <5> QED  BY <5>1, <5>2, <5>3 DEF Mutates
      <4>7. CASE FinishSteps(w) \/ LeaveArtifact(w) \/ AttachArtifact(w)
        <5>1. /\ pc[w] \in {"stepping", "attaching", "exporting"} /\ job' = job
              /\ pc'[w] \in {"attaching", "exporting", "completing"}
          BY <4>7 DEF FinishSteps, LeaveArtifact, AttachArtifact, NextArtifact,
                      Attaching, SaveAndGoto, Goto, TypeOK
        <5>2. Record(w).phase # "corrupt"
          BY <1>0, <5>1 DEF WorkInv, Holders
        <5>3. Record(w)'.phase # "corrupt"
          BY <1>0, <4>1, <5>1, <5>2, SavedRecord DEF Holders
        <5> QED  BY <5>1, <5>3 DEF Stepping
      <4> QED  BY <3>2, <4>1, <4>2, <4>3, <4>4, <4>5, <4>6, <4>7 DEF Execute, Leaves
    <3> QED  BY <3>1, <3>2
  <2> QED  BY <2>1, <2>2 DEF WorkInv
<1>2. ASSUME NEW w \in Workers, NEW j \in Jobs, Deliver(w, j) PROVE WorkInv'
  <2>1. /\ pc'[w] = "locking" /\ journal' = journal
        /\ \A v \in Workers \ {w} : pc'[v] = pc[v] /\ job'[v] = job[v]
    BY <1>2 DEF Deliver, Goto, TypeOK, files
  <2> QED  BY <1>0, <2>1 DEF WorkInv, Record, Stepping, Holders
<1>3. ASSUME NEW j \in Jobs, DamageRecord(j) PROVE WorkInv'
  <2>1. \A v \in Workers : pc'[v] \notin Holding
    BY <1>3, ConstantsAssumption DEF DamageRecord, LockInv, control
  <2> QED  BY <1>0, <2>1 DEF WorkInv, Holders
<1>4. ASSUME \/ \E o \in Objects : EditElsewhere(o)
             \/ \E k \in Keys : DamageBinding(k)
             \/ LateSave
             \/ UNCHANGED vars
      PROVE  WorkInv'
  <2>1. UNCHANGED <<journal, pc, job>>
    BY <1>4 DEF LateSave, EditElsewhere, DamageBinding, vars, files, control
  <2> QED  BY <2>1 DEF WorkInv, Record, Mutates
<1> QED  BY <1>1, <1>2, <1>3, <1>4 DEF Next, Environment

LEMMA FreshStep ==
  ASSUME TypeOK, LockInv, WorkInv, DecidesOnFreshScene, [Next]_vars
  PROVE  DecidesOnFreshScene'
<1> DEFINE Fresh == Stepping \ {"invoked"}
<1>0. Holding = Holders /\ Stepping \subseteq Holders
  BY HoldingLabels DEF Stepping, Holders
<1>1. ASSUME NEW w \in Workers, Execute(w) \/ Crash(w) PROVE DecidesOnFreshScene'
  <2> SUFFICES ASSUME NEW v \in Workers, pc'[v] \in Fresh, v \notin missed'
               PROVE  readout'[v] = scene'
    BY DEF DecidesOnFreshScene
  <2>1. CASE v # w
    BY <1>0, <1>1, <2>1, OthersAreKept DEF DecidesOnFreshScene
  <2>2. CASE v = w
    <3>1. ~Leaves(w)
      <4>1. "idle" \notin Fresh
        BY DEF Stepping
      <4> QED  BY <2>2, <4>1, LeavesLeave, Leaving DEF TypeOK
    <3>2. CASE ReadScene(w) \/ ConfirmStep(w)
      BY <2>2, <3>2 DEF ReadScene, ConfirmStep, ReadAgain, touched, TypeOK
    <3>3. CASE \/ MakeRecoveryCopy(w) \/ KeepRecoveryCopy(w) \/ StartExecuting(w)
               \/ SkipDone(w) \/ FindSatisfied(w)
      <4>1. /\ pc[w] \in Fresh /\ readout' = readout /\ scene' = scene /\ missed' = missed
        BY <3>3 DEF MakeRecoveryCopy, KeepRecoveryCopy, StartExecuting, SkipDone,
                    FindSatisfied, AtStep, Stepping, memory, touched
      <4> QED  BY <2>2, <4>1 DEF DecidesOnFreshScene
    <3>4. CASE \/ AcquireLock(w) \/ ReplayCompleted(w) \/ BindKey(w) \/ Receive(w)
               \/ Invoke(w) \/ InvokeInVain(w) \/ FinishSteps(w) \/ LeaveArtifact(w)
               \/ AttachArtifact(w)
      <4>1. pc'[w] \notin Fresh
        BY <3>4 DEF AcquireLock, ReplayCompleted, BindKey, Receive, Invoke, InvokeInVain,
                    FinishSteps, LeaveArtifact, AttachArtifact, NextArtifact,
                    SaveAndGoto, Goto, Stepping, TypeOK
      <4> QED  BY <2>2, <4>1
    <3> QED  BY <1>1, <3>1, <3>2, <3>3, <3>4 DEF Execute, Leaves
  <2> QED  BY <2>1, <2>2
<1>2. ASSUME NEW w \in Workers, NEW j \in Jobs, Deliver(w, j) PROVE DecidesOnFreshScene'
  BY <1>2 DEF Deliver, Goto, TypeOK, DecidesOnFreshScene, Stepping, memory, touched
<1>3. ASSUME NEW o \in Objects, EditElsewhere(o) PROVE DecidesOnFreshScene'
  <2>1. \A v \in Workers : pc'[v] \notin Holding
    BY <1>3, ConstantsAssumption DEF EditElsewhere, LockInv, control
  <2> QED  BY <1>0, <2>1 DEF DecidesOnFreshScene
<1>4. ASSUME \/ \E j \in Jobs : DamageRecord(j)
             \/ \E k \in Keys : DamageBinding(k)
             \/ UNCHANGED vars
      PROVE  DecidesOnFreshScene'
  BY <1>4 DEF DamageRecord, DamageBinding, vars, memory, control, touched,
              DecidesOnFreshScene
<1>5. CASE LateSave
  <2>1. pc' = pc /\ \A v \in Workers : pc[v] \in {"copying", "starting", "stepping"}
                                         => v \in missed'
    BY <1>5 DEF LateSave, control
  <2> QED  BY <2>1 DEF DecidesOnFreshScene, Stepping
<1> QED  BY <1>1, <1>2, <1>3, <1>4, <1>5 DEF Next, Environment

(* A step that changes the scene, now or late, is of a plan that mutates, so *)
(* its job has a recovery point by then.                                     *)
LEMMA InvokesCovered ==
  ASSUME TypeOK, WorkInv, NEW w \in Workers, MustInvoke(w), Mutates(job[w])
  PROVE  Record(w).phase \notin {"absent", "corrupt"} /\ Record(w).recovered
<1>1. pc[w] \in Stepping \ {"copying"} /\ pc[w] \in Holding \ {"loading"}
  BY HoldingLabels DEF Stepping, Holders, MustInvoke, AtStep
<1> QED  BY <1>1 DEF WorkInv

LEMMA ChangeIsCovered ==
  ASSUME TypeOK, WorkInv, NEW w \in Workers, MustInvoke(w), ChangeScene(w),
         scene' # scene
  PROVE  Record(w).phase \notin {"absent", "corrupt"} /\ Record(w).recovered
<1>1. /\ job[w] \in Jobs /\ step[w] \in Indices(job[w]) /\ Step(w) \in Steps
  BY StepType DEF MustInvoke
<1>2. Step(w).kind # "read"
  BY DEF ChangeScene, Effect, Adds
<1>3. Mutates(job[w])
  BY <1>1, <1>2 DEF Mutates, Step
<1> QED  BY <1>3, InvokesCovered

(* Nothing takes a recovery point away, but what makes the record unreadable. *)
LEMMA CoveredStays ==
  ASSUME TypeOK, WorkInv, NEW j \in Jobs, Covered(j), [Next]_vars
  PROVE  Covered(j)'
<1>1. ASSUME NEW w \in Workers, Execute(w) PROVE Covered(j)'
  <2>1. CASE journal'[j] = journal[j]
    BY <2>1 DEF Covered
  <2>2. CASE journal'[j] # journal[j]
    <3>1. /\ pc[w] \in Holding
          /\ \E phase \in Phases \ {"absent", "corrupt"}, recovered \in BOOLEAN :
               /\ Wrote(job[w], phase, recovered)
               /\ \/ recovered = Record(w).recovered
                  \/ Receive(w) /\ Record(w).phase = "absent" /\ ~recovered
                  \/ MakeRecoveryCopy(w) /\ recovered
      BY <1>1, <2>2, JournalStep
    <3>2. j = job[w] /\ Record(w) = journal[j]
      BY <2>2, <3>1 DEF Wrote, Record
    <3>3. pc[w] # "loading"
      BY <1>1, <2>2 DEF Execute, AcquireLock, LockConflict, RefuseCorruptRecord,
         ReplayCompleted, BindKey, RefuseForeignKey, RaiseOnCorruptBinding, Receive,
         ReadScene, RefuseStaleScene, ReadFails, MakeRecoveryCopy, KeepRecoveryCopy,
         StartExecuting, SkipDone, FindSatisfied, Invoke, InvokeInVain, InvokeFails,
         InvokeUnreported, GiveUp, ConfirmStep, VerifyFails, ReadBackFails, FinishSteps,
         LeaveArtifact, AttachArtifact, Complete, FinishReplay, files, AtStep,
         MustInvoke, Attaching
    <3>4. journal[j].phase # "corrupt"
      BY <3>1, <3>2, <3>3 DEF WorkInv
    <3>5. journal[j].phase # "absent" /\ journal[j].recovered
      BY <3>4 DEF Covered
    <3> QED  BY <3>1, <3>2, <3>5 DEF Wrote, Covered
  <2> QED  BY <2>1, <2>2
<1>2. ASSUME NEW k \in Jobs, DamageRecord(k) PROVE Covered(j)'
  <2>1. NewRecord(k, "corrupt").phase = "corrupt"
    BY NewRecordType DEF Phases
  <2> QED  BY <1>2, <2>1 DEF DamageRecord, TypeOK, Covered
<1>3. ASSUME \/ \E w \in Workers, k \in Jobs : Deliver(w, k)
             \/ \E w \in Workers : Crash(w)
             \/ LateSave
             \/ \E o \in Objects : EditElsewhere(o)
             \/ \E k \in Keys : DamageBinding(k)
             \/ UNCHANGED vars
      PROVE  Covered(j)'
  <2>1. journal' = journal
    BY <1>3 DEF Deliver, Crash, LateSave, EditElsewhere, DamageBinding, vars, files
  <2> QED  BY <2>1 DEF Covered
<1> QED  BY <1>1, <1>2, <1>3 DEF Next, Environment

LEMMA LateStep ==
  ASSUME TypeOK, WorkInv, LateInv, [Next]_vars
  PROVE  LateInv'
<1> SUFFICES ASSUME NEW b \in late' PROVE Covered(b.job)'
  BY DEF LateInv
<1>1. CASE b \in late
  BY <1>1, CoveredStays DEF LateInv, TypeOK
<1>2. ASSUME NEW w \in Workers, MustInvoke(w), LeaveRunning(w), b \notin late
      PROVE  b.job = job[w] /\ job[w] \in Jobs /\ Covered(job[w])
  <2>1. b.job = job[w] /\ job[w] \in Jobs /\ Mutates(job[w])
    BY <1>2, LeftRunning
  <2> QED  BY <1>2, <2>1, InvokesCovered DEF Covered, Record
<1>3. ASSUME NEW w \in Workers, Execute(w), b \notin late PROVE Covered(b.job)'
  <2>1. MustInvoke(w) /\ LeaveRunning(w)
    BY <1>3, SceneStep, SceneType DEF touched
  <2> QED  BY <1>2, <1>3, <2>1, CoveredStays
<1>4. ASSUME NEW w \in Workers, Crash(w), b \notin late PROVE Covered(b.job)'
  <2>1. MustInvoke(w) /\ LeaveRunning(w)
    BY <1>4 DEF Crash, touched
  <2> QED  BY <1>2, <1>4, <2>1, CoveredStays
<1>5. ASSUME \/ \E w \in Workers, k \in Jobs : Deliver(w, k)
             \/ LateSave
             \/ \E o \in Objects : EditElsewhere(o)
             \/ \E k \in Jobs : DamageRecord(k)
             \/ \E k \in Keys : DamageBinding(k)
             \/ UNCHANGED vars
      PROVE  b \in late
  BY <1>5 DEF Deliver, LateSave, EditElsewhere, DamageRecord, DamageBinding, vars, touched
<1> QED  BY <1>1, <1>3, <1>4, <1>5 DEF Next, Environment

LEMMA CopyStep ==
  ASSUME IndInv, [Next]_vars
  PROVE  CopyInv'
<1> USE DEF IndInv
<1> SUFFICES ASSUME NEW j \in Jobs
             PROVE  Covered(j)' \/ \A i \in Indices(j) : effects'[j][i] = 0
  BY DEF CopyInv, Covered
<1>0. Covered(j) \/ \A i \in Indices(j) : effects[j][i] = 0
  BY DEF CopyInv, Covered
<1>1. CASE Covered(j)
  BY <1>1, CoveredStays
<1>2. CASE \A i \in Indices(j) : effects'[j][i] = effects[j][i]
  BY <1>0, <1>1, <1>2
<1>3. ASSUME NEW w \in Workers, Execute(w),
             \E i \in Indices(j) : effects'[j][i] # effects[j][i]
      PROVE  Covered(j)
  <2>1. MustInvoke(w) /\ ChangeScene(w)
    BY <1>3, SceneStep DEF touched, LeaveRunning
  <2>2. j = job[w] /\ scene' # scene
    BY <1>3, <2>1, SceneType
  <2> QED  BY <2>1, <2>2, ChangeIsCovered DEF Covered, Record
<1>4. ASSUME LateSave, \E i \in Indices(j) : effects'[j][i] # effects[j][i]
      PROVE  Covered(j)
  <2>1. PICK b \in late :
          /\ scene' = b.scene
          /\ effects' = [effects EXCEPT ![b.job][b.step] = @ + (IF b.scene = scene THEN 0 ELSE 1)]
    BY <1>4 DEF LateSave
  <2>2. j = b.job
    BY <1>4, <2>1, LateSaveType
  <2> QED  BY <2>2 DEF LateInv
<1>5. ASSUME \/ \E w \in Workers, k \in Jobs : Deliver(w, k)
             \/ \E w \in Workers : Crash(w)
             \/ \E o \in Objects : EditElsewhere(o)
             \/ \E k \in Jobs : DamageRecord(k)
             \/ \E k \in Keys : DamageBinding(k)
             \/ UNCHANGED vars
      PROVE  effects' = effects
  BY <1>5 DEF Deliver, Crash, LeaveRunning, EditElsewhere, DamageRecord, DamageBinding,
              vars, touched
<1> QED  BY <1>1, <1>2, <1>3, <1>4, <1>5 DEF Next, Environment

(* What the executor keeps up at every step: one holder of the lock, a       *)
(* recovery point before the first effect, decisions on the present scene.   *)
THEOREM Invariance == Spec => []IndInv
<1>1. IndInv /\ [Next]_vars => IndInv'
  BY TypeStep, LockStep, WorkStep, FreshStep, CopyStep, LateStep DEF IndInv
<1> QED  BY InitInv, <1>1, PTL DEF Spec

-------------------------------------------------------------------------------
(* What follows from it. *)

(* Every variable has its type, in every reachable state. *)
THEOREM TypeCorrect == Spec => []TypeOK
<1>1. IndInv => TypeOK
  BY DEF IndInv
<1> QED  BY Invariance, <1>1, PTL

(* _run_steps decides whether a step is needed on the scene as it is, for    *)
(* any number of workers and plans, whoever else changes the project under   *)
(* its lock; where a Blender given up on saves, it is the scene as it was.   *)
THEOREM DecisionsAreFresh == Spec => []DecidesOnFreshScene
<1>1. IndInv => DecidesOnFreshScene
  BY DEF IndInv
<1> QED  BY Invariance, <1>1, PTL

(* No attempt, first or retried, adds an object that is there already,       *)
(* whether or not the journal knew that it had been built, unless a Blender  *)
(* given up on saved after it had read the scene.                            *)
THEOREM BuildsOnce == Spec => NothingIsBuiltTwice
<1> DEFINE ByDesign ==
      \/ late' # late
      \/ \E w \in Workers :
           /\ AtStep(w)
           /\ Step(w).kind \in {"create_unnamed", "blind"} \/ w \in missed
<1>1. ASSUME IndInv, Next, scene'.extras # scene.extras PROVE ByDesign
  <2>0. scene \in Scenes
    BY <1>1 DEF IndInv, TypeOK
  <2>1. ASSUME NEW w \in Workers, MustInvoke(w), ChangeScene(w) PROVE ByDesign
    <3>1. AtStep(w) /\ ~Satisfied(Step(w), readout[w]) /\ scene' = Effect(Step(w), scene)
      BY <2>1 DEF MustInvoke, ChangeScene
    <3>5. CASE w \in missed
      BY <3>1, <3>5
    <3>2. CASE w \notin missed
      <4>1. readout[w] = scene
        BY <1>1, <3>1, <3>2 DEF IndInv, DecidesOnFreshScene, AtStep, Stepping
      <4>2. Adds(Step(w), scene)
        BY <1>1, <2>0, <3>1 DEF Effect, Scenes
      <4>3. Step(w).kind \in {"create_unnamed", "blind"}
        BY <3>1, <4>1, <4>2 DEF Adds, Satisfied, Found
      <4> QED  BY <3>1, <4>3
    <3> QED  BY <3>2, <3>5
  <2>2. ASSUME NEW o \in Objects, EditElsewhere(o) PROVE FALSE
    BY <1>1, <2>0, <2>2 DEF EditElsewhere, Scenes
  <2>3. ASSUME \/ \E w \in Workers, j \in Jobs : Deliver(w, j)
               \/ \E w \in Workers : Crash(w)
               \/ \E j \in Jobs : DamageRecord(j)
               \/ \E k \in Keys : DamageBinding(k)
        PROVE  scene' = scene
    BY <2>3 DEF Deliver, Crash, LeaveRunning, DamageRecord, DamageBinding, touched
  <2>4. ASSUME NEW w \in Workers, Execute(w) PROVE ByDesign
    BY <1>1, <2>1, <2>4, SceneStep DEF touched, LeaveRunning
  <2>5. LateSave => late' # late
    BY DEF LateSave
  <2> QED  BY <1>1, <2>2, <2>3, <2>4, <2>5 DEF Next, Environment
<1>2. IndInv /\ [Next]_vars => [scene'.extras # scene.extras => ByDesign]_vars
  BY <1>1
<1> QED  BY Invariance, <1>2, PTL DEF Spec, NothingIsBuiltTwice

(* _ensure_recovery copies the project before the first effect of the plan,  *)
(* never a project that an earlier attempt had already changed.              *)
THEOREM RecoveryPointIsPristine == Spec => RecoveryIsPristine
<1> DEFINE Pristine == \A j \in Jobs :
                         journal'[j].recovered /\ ~journal[j].recovered
                           => \A i \in Indices(j) : effects[j][i] = 0
<1>1. ASSUME IndInv, Next PROVE Pristine
  <2> SUFFICES ASSUME NEW j \in Jobs, journal'[j].recovered, ~journal[j].recovered
               PROVE  \A i \in Indices(j) : effects[j][i] = 0
    OBVIOUS
  <2>1. ASSUME NEW w \in Workers, Execute(w)
        PROVE  MakeRecoveryCopy(w) /\ j = job[w]
    BY <1>1, <2>1, JournalStep DEF IndInv, Wrote, Record
  <2>2. ASSUME NEW w \in Workers, MakeRecoveryCopy(w), j = job[w]
        PROVE  \A i \in Indices(j) : effects[j][i] = 0
    <3>1. pc[w] \in Stepping /\ pc[w] \in Holding \ {"loading"}
      BY <2>2, HoldingLabels DEF MakeRecoveryCopy, Stepping, Holders
    <3>2. journal[j].phase # "corrupt"
      BY <1>1, <2>2, <3>1 DEF IndInv, WorkInv, Record
    <3> QED  BY <1>1, <3>2 DEF IndInv, CopyInv
  <2>3. ASSUME NEW k \in Jobs, DamageRecord(k) PROVE FALSE
    BY <1>1, <2>3, NewRecordType DEF DamageRecord, IndInv, TypeOK, Phases
  <2>4. ASSUME \/ \E w \in Workers, k \in Jobs : Deliver(w, k)
               \/ \E w \in Workers : Crash(w)
               \/ \E o \in Objects : EditElsewhere(o)
               \/ \E k \in Keys : DamageBinding(k)
               \/ LateSave
        PROVE  FALSE
    BY <2>4 DEF LateSave, Deliver, Crash, EditElsewhere, DamageBinding, files
  <2> QED  BY <1>1, <2>1, <2>2, <2>3, <2>4 DEF Next, Environment
<1>2. IndInv /\ [Next]_vars => [Pristine]_vars
  BY <1>1
<1> QED  BY Invariance, <1>2, PTL DEF Spec, RecoveryIsPristine
===============================================================================
