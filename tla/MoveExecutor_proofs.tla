------------------------- MODULE MoveExecutor_proofs --------------------------
(***************************************************************************)
(* Proofs about MoveExecutor, for every set of workers and jobs and every  *)
(* bound.  The order: what each step writes to the journal; that IndInv is *)
(* inductive, one lemma per part; the safety properties; the refinement.   *)
(***************************************************************************)
EXTENDS MoveExecutor, TLAPS

-------------------------------------------------------------------------------
(* What a step writes. *)

(* The record of w's job is the one given, and the other records are as     *)
(* they were.                                                              *)
Wrote(w, phase, plan, recovered, preview) ==
  /\ journal' \in [Jobs -> Records]
  /\ journal'[job[w]].phase = phase
  /\ journal'[job[w]].plan = plan
  /\ journal'[job[w]].recovered = recovered
  /\ journal'[job[w]].preview = preview
  /\ \A j \in Jobs \ {job[w]} : journal'[j] = journal[j]

(* A worker that is not idle has a job, with a well-formed record (save()   *)
(* and load() of journal.py).                                              *)
LEMMA BusyHasRecord ==
  ASSUME TypeOK, NEW w \in Workers, pc[w] # "idle"
  PROVE  job[w] \in Jobs /\ Record(w) \in Records
BY DEF TypeOK, Record

(* Replacing a record file replaces that record and no other.              *)
LEMMA SaveReplaces ==
  ASSUME TypeOK, NEW w \in Workers, job[w] \in Jobs,
         NEW r \in Records, Save(w, r)
  PROVE  Wrote(w, r.phase, r.plan, r.recovered, r.preview)
BY DEF TypeOK, Save, Wrote

(* _fail keeps everything of the record but its phase and its status.      *)
LEMMA FailWrites ==
  ASSUME TypeOK, NEW w \in Workers, pc[w] # "idle", Fail(w)
  PROVE  Wrote(w, "failed", Record(w).plan, Record(w).recovered,
               Record(w).preview)
<1> DEFINE r == [Record(w) EXCEPT !.phase = "failed", !.status = "failed"]
<1>1. job[w] \in Jobs /\ Record(w) \in Records
  BY BusyHasRecord
<1>2. /\ r \in Records
      /\ r.phase = "failed" /\ r.plan = Record(w).plan
      /\ r.recovered = Record(w).recovered /\ r.preview = Record(w).preview
  BY <1>1 DEF Records, Phases
<1>3. Save(w, r)
  BY DEF Fail
<1> HIDE DEF r
<1>4. Wrote(w, r.phase, r.plan, r.recovered, r.preview)
  BY <1>1, <1>2, <1>3, SaveReplaces
<1> QED
  BY <1>2, <1>4

(* A step that only advances the phase keeps the rest of the record.       *)
LEMMA PhaseWrites ==
  ASSUME TypeOK, NEW w \in Workers, pc[w] # "idle", NEW phase \in Phases,
         Save(w, [Record(w) EXCEPT !.phase = phase])
  PROVE  Wrote(w, phase, Record(w).plan, Record(w).recovered,
               Record(w).preview)
<1> DEFINE r == [Record(w) EXCEPT !.phase = phase]
<1>1. job[w] \in Jobs /\ Record(w) \in Records
  BY BusyHasRecord
<1>2. /\ r \in Records
      /\ r.phase = phase /\ r.plan = Record(w).plan
      /\ r.recovered = Record(w).recovered /\ r.preview = Record(w).preview
  BY <1>1 DEF Records
<1> HIDE DEF r
<1>3. Wrote(w, r.phase, r.plan, r.recovered, r.preview)
  BY <1>1, <1>2, SaveReplaces DEF r
<1> QED
  BY <1>2, <1>3

(* Receive makes a record where there is none and rewrites it elsewhere.   *)
LEMMA ReceiveWrites ==
  ASSUME TypeOK, RecordInv, NEW w \in Workers, Receive(w)
  PROVE  \E phase \in Phases \ {"absent"}, recovered, preview \in BOOLEAN :
           /\ Wrote(w, phase, Record(w).plan, recovered, preview)
           /\ Record(w).phase # "absent" =>
                phase = Record(w).phase /\ preview = Record(w).preview
           /\ Record(w).phase = "absent" => phase = "received" /\ ~preview
<1> DEFINE new == [NoRecord EXCEPT !.phase = "received"]
<1>1. job[w] \in Jobs /\ Record(w) \in Records
  BY BusyHasRecord DEF Receive
<1>2. /\ new \in Records
      /\ new.phase = "received" /\ new.plan = NoPlan
      /\ new.recovered = FALSE /\ new.preview = FALSE
  BY DEF NoRecord, Records, Phases
<1> HIDE DEF new
<1>3. CASE Record(w).phase = "absent"
  <2>1. Save(w, new)
    BY <1>3 DEF Receive, SaveAndGoto, new
  <2>2. Record(w).plan = NoPlan
    BY <1>1, <1>3 DEF RecordInv, Record
  <2>3. Wrote(w, "received", NoPlan, FALSE, FALSE)
    BY <1>1, <1>2, <2>1, SaveReplaces
  <2> QED
    BY <1>3, <2>2, <2>3 DEF Phases
<1>4. CASE Record(w).phase # "absent"
  <2>1. Save(w, Record(w))
    BY <1>4 DEF Receive, SaveAndGoto
  <2>2. Wrote(w, Record(w).phase, Record(w).plan, Record(w).recovered,
              Record(w).preview)
    BY <1>1, <2>1, SaveReplaces
  <2>3. /\ Record(w).phase \in Phases \ {"absent"}
        /\ Record(w).recovered \in BOOLEAN /\ Record(w).preview \in BOOLEAN
    BY <1>1, <1>4 DEF Records
  <2> QED
    BY <1>4, <2>2, <2>3
<1> QED
  BY <1>3, <1>4

(* MakePlan puts a well-formed plan into the record.                       *)
LEMMA MakePlanWrites ==
  ASSUME TypeOK, NEW w \in Workers, MakePlan(w)
  PROVE  /\ [before |-> position, after |-> position + DeltaOf[job[w]]] \in Plans
         /\ Wrote(w, "plan_persisted",
                  [before |-> position, after |-> position + DeltaOf[job[w]]],
                  Record(w).recovered, Record(w).preview)
<1> DEFINE plan == [before |-> position, after |-> position + DeltaOf[job[w]]]
           r == [Record(w) EXCEPT !.plan = plan, !.phase = "plan_persisted"]
<1>1. job[w] \in Jobs /\ Record(w) \in Records
  BY BusyHasRecord DEF MakePlan
<1>2. plan \in Plans
  BY <1>1, ConstantsAssumption DEF TypeOK, Plans
<1>3. Save(w, r)
  BY DEF MakePlan, SaveAndGoto
<1> HIDE DEF plan
<1>4. /\ r \in Records
      /\ r.phase = "plan_persisted" /\ r.plan = plan
      /\ r.recovered = Record(w).recovered /\ r.preview = Record(w).preview
  BY <1>1, <1>2 DEF Records, Phases
<1> HIDE DEF r
<1>5. Wrote(w, r.phase, r.plan, r.recovered, r.preview)
  BY <1>1, <1>3, <1>4, SaveReplaces
<1>6. Wrote(w, "plan_persisted", plan, Record(w).recovered, Record(w).preview)
  BY <1>4, <1>5
<1> QED
  BY <1>2, <1>6 DEF plan

(* MakeRecoveryCopy keeps the plan.                                        *)
LEMMA RecoveryWrites ==
  ASSUME TypeOK, NEW w \in Workers, MakeRecoveryCopy(w)
  PROVE  Wrote(w, "recovery_created", Record(w).plan, TRUE, Record(w).preview)
<1> DEFINE r == [Record(w) EXCEPT !.recovered = TRUE,
                                  !.phase = "recovery_created"]
<1>1. job[w] \in Jobs /\ Record(w) \in Records
  BY BusyHasRecord DEF MakeRecoveryCopy
<1>2. /\ r \in Records
      /\ r.phase = "recovery_created" /\ r.plan = Record(w).plan
      /\ r.recovered = TRUE /\ r.preview = Record(w).preview
  BY <1>1 DEF Records, Phases
<1>3. Save(w, r)
  BY DEF MakeRecoveryCopy, SaveAndGoto
<1> HIDE DEF r
<1>4. Wrote(w, r.phase, r.plan, r.recovered, r.preview)
  BY <1>1, <1>2, <1>3, SaveReplaces
<1> QED
  BY <1>2, <1>4

(* RecordPreview records what is true of the store.                        *)
LEMMA PreviewWrites ==
  ASSUME TypeOK, NEW w \in Workers, RecordPreview(w)
  PROVE  Wrote(w, "preview_generated", Record(w).plan, Record(w).recovered,
               job[w] \in artifacts)
<1> DEFINE stored == job[w] \in artifacts
           r == [Record(w) EXCEPT !.phase = "preview_generated",
                                  !.preview = stored]
<1>1. job[w] \in Jobs /\ Record(w) \in Records
  BY BusyHasRecord DEF RecordPreview
<1>2. Save(w, r)
  BY DEF RecordPreview, SaveAndGoto
<1>3. stored \in BOOLEAN
  OBVIOUS
<1> HIDE DEF stored
<1>4. /\ r \in Records
      /\ r.phase = "preview_generated" /\ r.plan = Record(w).plan
      /\ r.recovered = Record(w).recovered /\ r.preview = stored
  BY <1>1, <1>3 DEF Records, Phases
<1> HIDE DEF r
<1>5. Wrote(w, r.phase, r.plan, r.recovered, r.preview)
  BY <1>1, <1>2, <1>4, SaveReplaces
<1>6. Wrote(w, "preview_generated", Record(w).plan, Record(w).recovered, stored)
  BY <1>4, <1>5, Zenon
<1> QED
  BY <1>6, Zenon DEF stored

(* Complete keeps everything of the record but its phase and its status.   *)
LEMMA CompleteWrites ==
  ASSUME TypeOK, NEW w \in Workers, Complete(w)
  PROVE  Wrote(w, "completed", Record(w).plan, Record(w).recovered,
               Record(w).preview)
<1> DEFINE r == [Record(w) EXCEPT !.phase = "completed",
                                  !.status = "succeeded"]
<1>1. job[w] \in Jobs /\ Record(w) \in Records
  BY BusyHasRecord DEF Complete
<1>2. /\ r \in Records
      /\ r.phase = "completed" /\ r.plan = Record(w).plan
      /\ r.recovered = Record(w).recovered /\ r.preview = Record(w).preview
  BY <1>1 DEF Records, Phases
<1>3. Save(w, r)
  BY DEF Complete
<1> HIDE DEF r
<1>4. Wrote(w, r.phase, r.plan, r.recovered, r.preview)
  BY <1>1, <1>2, <1>3, SaveReplaces
<1> QED
  BY <1>2, <1>4

(* Three steps advance the phase and nothing else of the record.           *)
LEMMA AdvanceWrites ==
  ASSUME TypeOK, NEW w \in Workers,
         StartExecuting(w) \/ RecordVerified(w) \/ ConfirmSaved(w)
  PROVE  \E phase \in {"executing", "mutation_verified", "project_saved"} :
           Wrote(w, phase, Record(w).plan, Record(w).recovered,
                 Record(w).preview)
<1>1. pc[w] # "idle"
  BY DEF StartExecuting, RecordVerified, ConfirmSaved
<1>2. CASE StartExecuting(w)
  <2>1. "executing" \in Phases
    BY DEF Phases
  <2>2. Save(w, [Record(w) EXCEPT !.phase = "executing"])
    BY <1>2 DEF StartExecuting, SaveAndGoto
  <2> QED
    BY <1>1, <2>1, <2>2, PhaseWrites
<1>3. CASE RecordVerified(w)
  <2>1. "mutation_verified" \in Phases
    BY DEF Phases
  <2>2. Save(w, [Record(w) EXCEPT !.phase = "mutation_verified"])
    BY <1>3 DEF RecordVerified, SaveAndGoto
  <2> QED
    BY <1>1, <2>1, <2>2, PhaseWrites
<1>4. CASE ConfirmSaved(w)
  <2>1. "project_saved" \in Phases
    BY DEF Phases
  <2>2. Save(w, [Record(w) EXCEPT !.phase = "project_saved"])
    BY <1>4 DEF ConfirmSaved, SaveAndGoto
  <2> QED
    BY <1>1, <2>1, <2>2, PhaseWrites
<1> QED
  BY <1>2, <1>3, <1>4

(* The plan a move carries out has integer endpoints.                      *)
LEMMA PlanIsPlan ==
  ASSUME IndInv, NEW w \in Workers, pc[w] \in Planned
  PROVE  Record(w).plan \in Plans /\ Record(w).plan.after \in Int
<1>1. pc[w] # "idle" /\ HasPlan(job[w])
  BY DEF Planned, IndInv, ProgressInv
<1>2. Record(w) \in Records
  BY <1>1, BusyHasRecord DEF IndInv
<1>3. Record(w).plan \in Plans
  BY <1>1, <1>2 DEF Records, HasPlan, Record
<1> QED
  BY <1>3 DEF Plans

-------------------------------------------------------------------------------
(* IndInv is inductive, part by part. *)

(* Every write keeps records well formed and every label a label.          *)
LEMMA TypeStep ==
  IndInv /\ [Next]_vars => TypeOK'
<1> SUFFICES ASSUME IndInv, [Next]_vars PROVE TypeOK'
  OBVIOUS
<1> USE ConstantsAssumption
<1> USE DEF IndInv, TypeOK, Goto, Record, Wrote, files, control, counters,
            history, Labels
<1>1. ASSUME NEW w \in Workers, AcquireLock(w)
      PROVE  TypeOK'
  BY <1>1
     DEF AcquireLock
<1>2. ASSUME NEW w \in Workers,
             \/ LockConflict(w) \/ RefuseCorruptRecord(w)
             \/ RefuseForeignKey(w) \/ RefuseCorruptBinding(w)
      PROVE  TypeOK'
  BY <1>2
     DEF LockConflict, RefuseCorruptRecord, RefuseForeignKey,
         RefuseCorruptBinding, Return, Executable
<1>3. ASSUME NEW w \in Workers,
             \/ ReusePlan(w) \/ KeepRecoveryCopy(w) \/ FindAlreadyApplied(w)
             \/ SkipPreview(w)
      PROVE  TypeOK'
  BY <1>3
     DEF ReusePlan, KeepRecoveryCopy, FindAlreadyApplied, SkipPreview
<1>4. ASSUME NEW w \in Workers, ReplayCompleted(w)
      PROVE  TypeOK'
  BY <1>4
     DEF ReplayCompleted
<1>5. ASSUME NEW w \in Workers, BindKey(w)
      PROVE  TypeOK'
  BY <1>5
     DEF BindKey, Executable
<1>6. ASSUME NEW w \in Workers, RenderPreview(w)
      PROVE  TypeOK'
  BY <1>6
     DEF RenderPreview
<1>7. ASSUME NEW w \in Workers, ApplyMove(w)
      PROVE  TypeOK'
  BY <1>7, PlanIsPlan
     DEF ApplyMove, AtPlanStart, Displace, Planned
<1>8. ASSUME NEW w \in Workers, Receive(w)
      PROVE  TypeOK'
  <2>1. \E phase \in Phases \ {"absent"}, recovered, preview \in BOOLEAN :
          /\ Wrote(w, phase, Record(w).plan, recovered, preview)
          /\ Record(w).phase # "absent" =>
               phase = Record(w).phase /\ preview = Record(w).preview
          /\ Record(w).phase = "absent" => phase = "received" /\ ~preview
    BY <1>8, ReceiveWrites
  <2> QED
    BY <1>8, <2>1
       DEF Receive, SaveAndGoto
<1>9. ASSUME NEW w \in Workers, MakePlan(w)
      PROVE  TypeOK'
  <2>1. Wrote(w, "plan_persisted",
              [before |-> position, after |-> position + DeltaOf[job[w]]],
              Record(w).recovered, Record(w).preview)
    BY <1>9, MakePlanWrites
  <2> QED
    BY <1>9, <2>1
       DEF MakePlan, SaveAndGoto
<1>10. ASSUME NEW w \in Workers, MakeRecoveryCopy(w)
       PROVE  TypeOK'
  <2>1. Wrote(w, "recovery_created", Record(w).plan, TRUE, Record(w).preview)
    BY <1>10, RecoveryWrites
  <2> QED
    BY <1>10, <2>1
       DEF MakeRecoveryCopy, SaveAndGoto
<1>11. ASSUME NEW w \in Workers,
              \/ StartExecuting(w) \/ RecordVerified(w) \/ ConfirmSaved(w)
       PROVE  TypeOK'
  <2>1. \E phase \in {"executing", "mutation_verified", "project_saved"} :
          Wrote(w, phase, Record(w).plan, Record(w).recovered,
                Record(w).preview)
    BY <1>11, AdvanceWrites
  <2> QED
    BY <1>11, <2>1
       DEF StartExecuting, RecordVerified, ConfirmSaved, SaveAndGoto
<1>12. ASSUME NEW w \in Workers, RecordPreview(w)
       PROVE  TypeOK'
  <2>1. Wrote(w, "preview_generated", Record(w).plan,
              Record(w).recovered, job[w] \in artifacts)
    BY <1>12, PreviewWrites
  <2> QED
    BY <1>12, <2>1
       DEF RecordPreview, SaveAndGoto
<1>13. ASSUME NEW w \in Workers, Complete(w)
       PROVE  TypeOK'
  <2>1. Wrote(w, "completed", Record(w).plan, Record(w).recovered,
              Record(w).preview)
    BY <1>13, CompleteWrites
  <2> QED
    BY <1>13, <2>1
       DEF Complete, Return
<1>14. ASSUME NEW w \in Workers,
              \/ PlanFails(w) \/ RecoveryCopyFails(w) \/ MoveFails(w)
              \/ ConfirmFails(w)
       PROVE  TypeOK'
  <2>1. Wrote(w, "failed", Record(w).plan, Record(w).recovered,
              Record(w).preview)
    BY <1>14, FailWrites DEF PlanFails, RecoveryCopyFails, MoveFails, ConfirmFails
  <2> QED
    BY <1>14, <2>1
       DEF PlanFails, RecoveryCopyFails, MoveFails, ConfirmFails, Fail, Return
<1>15. ASSUME NEW w \in Workers, ApplyMoveUnreported(w)
       PROVE  TypeOK'
  <2>1. Wrote(w, "failed", Record(w).plan, Record(w).recovered,
              Record(w).preview)
    BY <1>15, FailWrites DEF ApplyMoveUnreported, AtPlanStart
  <2> QED
    BY <1>15, <2>1, PlanIsPlan
       DEF ApplyMoveUnreported, Fail, Return, AtPlanStart, Displace, Planned
<1>16. ASSUME NEW w \in Workers, Crash(w)
       PROVE  TypeOK'
  BY <1>16
     DEF Crash
<1>17. ASSUME NEW w \in Workers, NEW j \in Jobs, Deliver(w, j)
       PROVE  TypeOK'
  BY <1>17
     DEF Deliver
<1>18. ASSUME EditElsewhere
       PROVE  TypeOK'
  BY <1>18
     DEF EditElsewhere
<1>19. ASSUME NEW d \in Jobs, DamageRecord(d)
       PROVE  TypeOK'
  BY <1>19
     DEF DamageRecord, NoRecord, Records, Phases
<1>20. ASSUME NEW d \in Keys, DamageBinding(d)
       PROVE  TypeOK'
  BY <1>20
     DEF DamageBinding
<1>21. ASSUME UNCHANGED vars
       PROVE  TypeOK'
  BY <1>21
     DEF vars
<1> QED
  BY <1>1, <1>2, <1>3, <1>4, <1>5, <1>6, <1>7, <1>8, <1>9, <1>10, <1>11,
     <1>12, <1>13, <1>14, <1>15, <1>16, <1>17, <1>18, <1>19, <1>20, <1>21
     DEF Next, Environment, Step

(* Only a free lock is taken, and only its holder gives it up.             *)
LEMMA LockStep ==
  IndInv /\ [Next]_vars => LockInv'
<1> SUFFICES ASSUME IndInv, [Next]_vars PROVE LockInv'
  OBVIOUS
<1> USE ConstantsAssumption
<1> USE DEF IndInv, TypeOK, Goto, Record, Wrote, files, control, counters,
            history, Labels, Locked, LockInv
<1>1. ASSUME NEW w \in Workers, AcquireLock(w)
      PROVE  LockInv'
  BY <1>1
     DEF AcquireLock
<1>2. ASSUME NEW w \in Workers,
             \/ LockConflict(w) \/ RefuseCorruptRecord(w)
             \/ RefuseForeignKey(w) \/ RefuseCorruptBinding(w)
      PROVE  LockInv'
  BY <1>2
     DEF LockConflict, RefuseCorruptRecord, RefuseForeignKey,
         RefuseCorruptBinding, Return, Executable
<1>3. ASSUME NEW w \in Workers,
             \/ ReusePlan(w) \/ KeepRecoveryCopy(w) \/ FindAlreadyApplied(w)
             \/ SkipPreview(w)
      PROVE  LockInv'
  BY <1>3
     DEF ReusePlan, KeepRecoveryCopy, FindAlreadyApplied, SkipPreview
<1>4. ASSUME NEW w \in Workers, ReplayCompleted(w)
      PROVE  LockInv'
  BY <1>4
     DEF ReplayCompleted
<1>5. ASSUME NEW w \in Workers, BindKey(w)
      PROVE  LockInv'
  BY <1>5
     DEF BindKey, Executable
<1>6. ASSUME NEW w \in Workers, RenderPreview(w)
      PROVE  LockInv'
  BY <1>6
     DEF RenderPreview
<1>7. ASSUME NEW w \in Workers, ApplyMove(w)
      PROVE  LockInv'
  BY <1>7
     DEF ApplyMove, AtPlanStart, Displace
<1>8. ASSUME NEW w \in Workers, Receive(w)
      PROVE  LockInv'
  BY <1>8
     DEF Receive, SaveAndGoto
<1>9. ASSUME NEW w \in Workers, MakePlan(w)
      PROVE  LockInv'
  BY <1>9
     DEF MakePlan, SaveAndGoto
<1>10. ASSUME NEW w \in Workers, MakeRecoveryCopy(w)
       PROVE  LockInv'
  BY <1>10
     DEF MakeRecoveryCopy, SaveAndGoto
<1>11. ASSUME NEW w \in Workers,
              \/ StartExecuting(w) \/ RecordVerified(w) \/ ConfirmSaved(w)
       PROVE  LockInv'
  BY <1>11
     DEF StartExecuting, RecordVerified, ConfirmSaved, SaveAndGoto
<1>12. ASSUME NEW w \in Workers, RecordPreview(w)
       PROVE  LockInv'
  BY <1>12
     DEF RecordPreview, SaveAndGoto
<1>13. ASSUME NEW w \in Workers, Complete(w)
       PROVE  LockInv'
  BY <1>13
     DEF Complete, Return
<1>14. ASSUME NEW w \in Workers,
              \/ PlanFails(w) \/ RecoveryCopyFails(w) \/ MoveFails(w)
              \/ ConfirmFails(w)
       PROVE  LockInv'
  BY <1>14
     DEF PlanFails, RecoveryCopyFails, MoveFails, ConfirmFails, Fail, Return
<1>15. ASSUME NEW w \in Workers, ApplyMoveUnreported(w)
       PROVE  LockInv'
  BY <1>15
     DEF ApplyMoveUnreported, Fail, Return, AtPlanStart, Displace
<1>16. ASSUME NEW w \in Workers, Crash(w)
       PROVE  LockInv'
  BY <1>16
     DEF Crash
<1>17. ASSUME NEW w \in Workers, NEW j \in Jobs, Deliver(w, j)
       PROVE  LockInv'
  BY <1>17
     DEF Deliver
<1>18. ASSUME EditElsewhere
       PROVE  LockInv'
  BY <1>18
     DEF EditElsewhere
<1>19. ASSUME NEW d \in Jobs, DamageRecord(d)
       PROVE  LockInv'
  BY <1>19
     DEF DamageRecord, NoRecord, Records, Phases
<1>20. ASSUME NEW d \in Keys, DamageBinding(d)
       PROVE  LockInv'
  BY <1>20
     DEF DamageBinding
<1>21. ASSUME UNCHANGED vars
       PROVE  LockInv'
  BY <1>21
     DEF vars
<1> QED
  BY <1>1, <1>2, <1>3, <1>4, <1>5, <1>6, <1>7, <1>8, <1>9, <1>10, <1>11,
     <1>12, <1>13, <1>14, <1>15, <1>16, <1>17, <1>18, <1>19, <1>20, <1>21
     DEF Next, Environment, Step

(* A key changes hands only from nobody, and only its owner gets a record. *)
LEMMA BindingStep ==
  IndInv /\ [Next]_vars => BindingInv'
<1> SUFFICES ASSUME IndInv, [Next]_vars PROVE BindingInv'
  OBVIOUS
<1> USE ConstantsAssumption
<1> USE DEF IndInv, TypeOK, Goto, Record, Wrote, files, control, counters,
            history, Labels, BindingInv, Exists, ProgressInv, Bound, Planned,
            Recovered, Reporting
<1>1. ASSUME NEW w \in Workers, AcquireLock(w)
      PROVE  BindingInv'
  BY <1>1
     DEF AcquireLock
<1>2. ASSUME NEW w \in Workers,
             \/ LockConflict(w) \/ RefuseCorruptRecord(w)
             \/ RefuseForeignKey(w) \/ RefuseCorruptBinding(w)
      PROVE  BindingInv'
  BY <1>2
     DEF LockConflict, RefuseCorruptRecord, RefuseForeignKey,
         RefuseCorruptBinding, Return, Executable
<1>3. ASSUME NEW w \in Workers,
             \/ ReusePlan(w) \/ KeepRecoveryCopy(w) \/ FindAlreadyApplied(w)
             \/ SkipPreview(w)
      PROVE  BindingInv'
  BY <1>3
     DEF ReusePlan, KeepRecoveryCopy, FindAlreadyApplied, SkipPreview
<1>4. ASSUME NEW w \in Workers, ReplayCompleted(w)
      PROVE  BindingInv'
  BY <1>4
     DEF ReplayCompleted
<1>5. ASSUME NEW w \in Workers, BindKey(w)
      PROVE  BindingInv'
  BY <1>5
     DEF BindKey, Executable
<1>6. ASSUME NEW w \in Workers, RenderPreview(w)
      PROVE  BindingInv'
  BY <1>6
     DEF RenderPreview
<1>7. ASSUME NEW w \in Workers, ApplyMove(w)
      PROVE  BindingInv'
  BY <1>7
     DEF ApplyMove, AtPlanStart, Displace
<1>8. ASSUME NEW w \in Workers, Receive(w)
      PROVE  BindingInv'
  <2>1. \E phase \in Phases \ {"absent"}, recovered, preview \in BOOLEAN :
          /\ Wrote(w, phase, Record(w).plan, recovered, preview)
          /\ Record(w).phase # "absent" =>
               phase = Record(w).phase /\ preview = Record(w).preview
          /\ Record(w).phase = "absent" => phase = "received" /\ ~preview
    BY <1>8, ReceiveWrites
  <2> QED
    BY <1>8, <2>1
       DEF Receive, SaveAndGoto
<1>9. ASSUME NEW w \in Workers, MakePlan(w)
      PROVE  BindingInv'
  <2>1. Wrote(w, "plan_persisted",
              [before |-> position, after |-> position + DeltaOf[job[w]]],
              Record(w).recovered, Record(w).preview)
    BY <1>9, MakePlanWrites
  <2> QED
    BY <1>9, <2>1
       DEF MakePlan, SaveAndGoto
<1>10. ASSUME NEW w \in Workers, MakeRecoveryCopy(w)
       PROVE  BindingInv'
  <2>1. Wrote(w, "recovery_created", Record(w).plan, TRUE, Record(w).preview)
    BY <1>10, RecoveryWrites
  <2> QED
    BY <1>10, <2>1
       DEF MakeRecoveryCopy, SaveAndGoto
<1>11. ASSUME NEW w \in Workers,
              \/ StartExecuting(w) \/ RecordVerified(w) \/ ConfirmSaved(w)
       PROVE  BindingInv'
  <2>1. \E phase \in {"executing", "mutation_verified", "project_saved"} :
          Wrote(w, phase, Record(w).plan, Record(w).recovered,
                Record(w).preview)
    BY <1>11, AdvanceWrites
  <2> QED
    BY <1>11, <2>1
       DEF StartExecuting, RecordVerified, ConfirmSaved, SaveAndGoto
<1>12. ASSUME NEW w \in Workers, RecordPreview(w)
       PROVE  BindingInv'
  <2>1. Wrote(w, "preview_generated", Record(w).plan,
              Record(w).recovered, job[w] \in artifacts)
    BY <1>12, PreviewWrites
  <2> QED
    BY <1>12, <2>1
       DEF RecordPreview, SaveAndGoto
<1>13. ASSUME NEW w \in Workers, Complete(w)
       PROVE  BindingInv'
  <2>1. Wrote(w, "completed", Record(w).plan, Record(w).recovered,
              Record(w).preview)
    BY <1>13, CompleteWrites
  <2> QED
    BY <1>13, <2>1
       DEF Complete, Return
<1>14. ASSUME NEW w \in Workers,
              \/ PlanFails(w) \/ RecoveryCopyFails(w) \/ MoveFails(w)
              \/ ConfirmFails(w)
       PROVE  BindingInv'
  <2>1. Wrote(w, "failed", Record(w).plan, Record(w).recovered,
              Record(w).preview)
    BY <1>14, FailWrites DEF PlanFails, RecoveryCopyFails, MoveFails, ConfirmFails
  <2> QED
    BY <1>14, <2>1
       DEF PlanFails, RecoveryCopyFails, MoveFails, ConfirmFails, Fail, Return
<1>15. ASSUME NEW w \in Workers, ApplyMoveUnreported(w)
       PROVE  BindingInv'
  <2>1. Wrote(w, "failed", Record(w).plan, Record(w).recovered,
              Record(w).preview)
    BY <1>15, FailWrites DEF ApplyMoveUnreported, AtPlanStart
  <2> QED
    BY <1>15, <2>1
       DEF ApplyMoveUnreported, Fail, Return, AtPlanStart, Displace
<1>16. ASSUME NEW w \in Workers, Crash(w)
       PROVE  BindingInv'
  BY <1>16
     DEF Crash
<1>17. ASSUME NEW w \in Workers, NEW j \in Jobs, Deliver(w, j)
       PROVE  BindingInv'
  BY <1>17
     DEF Deliver
<1>18. ASSUME EditElsewhere
       PROVE  BindingInv'
  BY <1>18
     DEF EditElsewhere
<1>19. ASSUME NEW d \in Jobs, DamageRecord(d)
       PROVE  BindingInv'
  BY <1>19
     DEF DamageRecord, NoRecord, Records, Phases
<1>20. ASSUME NEW d \in Keys, DamageBinding(d)
       PROVE  BindingInv'
  BY <1>20
     DEF DamageBinding
<1>21. ASSUME UNCHANGED vars
       PROVE  BindingInv'
  BY <1>21
     DEF vars
<1> QED
  BY <1>1, <1>2, <1>3, <1>4, <1>5, <1>6, <1>7, <1>8, <1>9, <1>10, <1>11,
     <1>12, <1>13, <1>14, <1>15, <1>16, <1>17, <1>18, <1>19, <1>20, <1>21
     DEF Next, Environment, Step

(* What a worker relies on survives the others: they do not hold the lock. *)
LEMMA ProgressStep ==
  IndInv /\ [Next]_vars => ProgressInv'
<1> SUFFICES ASSUME IndInv, [Next]_vars PROVE ProgressInv'
  OBVIOUS
<1> USE ConstantsAssumption
<1> USE DEF IndInv, TypeOK, Goto, Record, Wrote, files, control, counters,
            history, Labels, ProgressInv, LockInv, Locked, Exists, HasPlan,
            Bound, Planned, Recovered, Reporting
<1>1. ASSUME NEW w \in Workers, AcquireLock(w)
      PROVE  ProgressInv'
  BY <1>1
     DEF AcquireLock
<1>2. ASSUME NEW w \in Workers,
             \/ LockConflict(w) \/ RefuseCorruptRecord(w)
             \/ RefuseForeignKey(w) \/ RefuseCorruptBinding(w)
      PROVE  ProgressInv'
  BY <1>2
     DEF LockConflict, RefuseCorruptRecord, RefuseForeignKey,
         RefuseCorruptBinding, Return, Executable
<1>3. ASSUME NEW w \in Workers,
             \/ ReusePlan(w) \/ KeepRecoveryCopy(w) \/ FindAlreadyApplied(w)
             \/ SkipPreview(w)
      PROVE  ProgressInv'
  BY <1>3
     DEF ReusePlan, KeepRecoveryCopy, FindAlreadyApplied, SkipPreview
<1>4. ASSUME NEW w \in Workers, ReplayCompleted(w)
      PROVE  ProgressInv'
  BY <1>4
     DEF ReplayCompleted, RecordInv
<1>5. ASSUME NEW w \in Workers, BindKey(w)
      PROVE  ProgressInv'
  BY <1>5
     DEF BindKey, Executable
<1>6. ASSUME NEW w \in Workers, RenderPreview(w)
      PROVE  ProgressInv'
  BY <1>6
     DEF RenderPreview
<1>7. ASSUME NEW w \in Workers, ApplyMove(w)
      PROVE  ProgressInv'
  BY <1>7
     DEF ApplyMove, AtPlanStart, Displace
<1>8. ASSUME NEW w \in Workers, Receive(w)
      PROVE  ProgressInv'
  <2>1. \E phase \in Phases \ {"absent"}, recovered, preview \in BOOLEAN :
          /\ Wrote(w, phase, Record(w).plan, recovered, preview)
          /\ Record(w).phase # "absent" =>
               phase = Record(w).phase /\ preview = Record(w).preview
          /\ Record(w).phase = "absent" => phase = "received" /\ ~preview
    BY <1>8, ReceiveWrites
  <2> QED
    BY <1>8, <2>1
       DEF Receive, SaveAndGoto
<1>9. ASSUME NEW w \in Workers, MakePlan(w)
      PROVE  ProgressInv'
  <2>1. Wrote(w, "plan_persisted",
              [before |-> position, after |-> position + DeltaOf[job[w]]],
              Record(w).recovered, Record(w).preview)
    BY <1>9, MakePlanWrites
  <2> QED
    BY <1>9, <2>1
       DEF MakePlan, SaveAndGoto
<1>10. ASSUME NEW w \in Workers, MakeRecoveryCopy(w)
       PROVE  ProgressInv'
  <2>1. Wrote(w, "recovery_created", Record(w).plan, TRUE, Record(w).preview)
    BY <1>10, RecoveryWrites
  <2> QED
    BY <1>10, <2>1
       DEF MakeRecoveryCopy, SaveAndGoto
<1>11. ASSUME NEW w \in Workers,
              \/ StartExecuting(w) \/ RecordVerified(w) \/ ConfirmSaved(w)
       PROVE  ProgressInv'
  <2>1. \E phase \in {"executing", "mutation_verified", "project_saved"} :
          Wrote(w, phase, Record(w).plan, Record(w).recovered,
                Record(w).preview)
    BY <1>11, AdvanceWrites
  <2> QED
    BY <1>11, <2>1
       DEF StartExecuting, RecordVerified, ConfirmSaved, SaveAndGoto
<1>12. ASSUME NEW w \in Workers, RecordPreview(w)
       PROVE  ProgressInv'
  <2>1. Wrote(w, "preview_generated", Record(w).plan,
              Record(w).recovered, job[w] \in artifacts)
    BY <1>12, PreviewWrites
  <2> QED
    BY <1>12, <2>1
       DEF RecordPreview, SaveAndGoto
<1>13. ASSUME NEW w \in Workers, Complete(w)
       PROVE  ProgressInv'
  <2>1. Wrote(w, "completed", Record(w).plan, Record(w).recovered,
              Record(w).preview)
    BY <1>13, CompleteWrites
  <2> QED
    BY <1>13, <2>1
       DEF Complete, Return
<1>14. ASSUME NEW w \in Workers,
              \/ PlanFails(w) \/ RecoveryCopyFails(w) \/ MoveFails(w)
              \/ ConfirmFails(w)
       PROVE  ProgressInv'
  <2>1. Wrote(w, "failed", Record(w).plan, Record(w).recovered,
              Record(w).preview)
    BY <1>14, FailWrites DEF PlanFails, RecoveryCopyFails, MoveFails, ConfirmFails
  <2> QED
    BY <1>14, <2>1
       DEF PlanFails, RecoveryCopyFails, MoveFails, ConfirmFails, Fail, Return
<1>15. ASSUME NEW w \in Workers, ApplyMoveUnreported(w)
       PROVE  ProgressInv'
  <2>1. Wrote(w, "failed", Record(w).plan, Record(w).recovered,
              Record(w).preview)
    BY <1>15, FailWrites DEF ApplyMoveUnreported, AtPlanStart
  <2> QED
    BY <1>15, <2>1
       DEF ApplyMoveUnreported, Fail, Return, AtPlanStart, Displace
<1>16. ASSUME NEW w \in Workers, Crash(w)
       PROVE  ProgressInv'
  BY <1>16
     DEF Crash
<1>17. ASSUME NEW w \in Workers, NEW j \in Jobs, Deliver(w, j)
       PROVE  ProgressInv'
  BY <1>17
     DEF Deliver
<1>18. ASSUME EditElsewhere
       PROVE  ProgressInv'
  BY <1>18
     DEF EditElsewhere
<1>19. ASSUME NEW d \in Jobs, DamageRecord(d)
       PROVE  ProgressInv'
  BY <1>19
     DEF DamageRecord, NoRecord, Records, Phases
<1>20. ASSUME NEW d \in Keys, DamageBinding(d)
       PROVE  ProgressInv'
  BY <1>20
     DEF DamageBinding
<1>21. ASSUME UNCHANGED vars
       PROVE  ProgressInv'
  BY <1>21
     DEF vars
<1> QED
  BY <1>1, <1>2, <1>3, <1>4, <1>5, <1>6, <1>7, <1>8, <1>9, <1>10, <1>11,
     <1>12, <1>13, <1>14, <1>15, <1>16, <1>17, <1>18, <1>19, <1>20, <1>21
     DEF Next, Environment, Step

(* A record is completed only after its durable phase, and believes the    *)
(* store.                                                                  *)
LEMMA RecordStep ==
  IndInv /\ [Next]_vars => RecordInv'
<1> SUFFICES ASSUME IndInv, [Next]_vars PROVE RecordInv'
  OBVIOUS
<1> USE ConstantsAssumption
<1> USE DEF IndInv, TypeOK, Goto, Record, Wrote, files, control, counters,
            history, Labels, RecordInv, ProgressInv, Bound, Planned,
            Recovered, Reporting, Exists, HasPlan
<1>1. ASSUME NEW w \in Workers, AcquireLock(w)
      PROVE  RecordInv'
  BY <1>1
     DEF AcquireLock
<1>2. ASSUME NEW w \in Workers,
             \/ LockConflict(w) \/ RefuseCorruptRecord(w)
             \/ RefuseForeignKey(w) \/ RefuseCorruptBinding(w)
      PROVE  RecordInv'
  BY <1>2
     DEF LockConflict, RefuseCorruptRecord, RefuseForeignKey,
         RefuseCorruptBinding, Return, Executable
<1>3. ASSUME NEW w \in Workers,
             \/ ReusePlan(w) \/ KeepRecoveryCopy(w) \/ FindAlreadyApplied(w)
             \/ SkipPreview(w)
      PROVE  RecordInv'
  BY <1>3
     DEF ReusePlan, KeepRecoveryCopy, FindAlreadyApplied, SkipPreview
<1>4. ASSUME NEW w \in Workers, ReplayCompleted(w)
      PROVE  RecordInv'
  BY <1>4
     DEF ReplayCompleted
<1>5. ASSUME NEW w \in Workers, BindKey(w)
      PROVE  RecordInv'
  BY <1>5
     DEF BindKey, Executable
<1>6. ASSUME NEW w \in Workers, RenderPreview(w)
      PROVE  RecordInv'
  BY <1>6
     DEF RenderPreview
<1>7. ASSUME NEW w \in Workers, ApplyMove(w)
      PROVE  RecordInv'
  BY <1>7
     DEF ApplyMove, AtPlanStart, Displace
<1>8. ASSUME NEW w \in Workers, Receive(w)
      PROVE  RecordInv'
  <2>1. \E phase \in Phases \ {"absent"}, recovered, preview \in BOOLEAN :
          /\ Wrote(w, phase, Record(w).plan, recovered, preview)
          /\ Record(w).phase # "absent" =>
               phase = Record(w).phase /\ preview = Record(w).preview
          /\ Record(w).phase = "absent" => phase = "received" /\ ~preview
    BY <1>8, ReceiveWrites
  <2> QED
    BY <1>8, <2>1
       DEF Receive, SaveAndGoto
<1>9. ASSUME NEW w \in Workers, MakePlan(w)
      PROVE  RecordInv'
  <2>1. Wrote(w, "plan_persisted",
              [before |-> position, after |-> position + DeltaOf[job[w]]],
              Record(w).recovered, Record(w).preview)
    BY <1>9, MakePlanWrites
  <2> QED
    BY <1>9, <2>1
       DEF MakePlan, SaveAndGoto
<1>10. ASSUME NEW w \in Workers, MakeRecoveryCopy(w)
       PROVE  RecordInv'
  <2>1. Wrote(w, "recovery_created", Record(w).plan, TRUE, Record(w).preview)
    BY <1>10, RecoveryWrites
  <2> QED
    BY <1>10, <2>1
       DEF MakeRecoveryCopy, SaveAndGoto
<1>11. ASSUME NEW w \in Workers,
              \/ StartExecuting(w) \/ RecordVerified(w) \/ ConfirmSaved(w)
       PROVE  RecordInv'
  <2>1. \E phase \in {"executing", "mutation_verified", "project_saved"} :
          Wrote(w, phase, Record(w).plan, Record(w).recovered,
                Record(w).preview)
    BY <1>11, AdvanceWrites
  <2> QED
    BY <1>11, <2>1
       DEF StartExecuting, RecordVerified, ConfirmSaved, SaveAndGoto
<1>12. ASSUME NEW w \in Workers, RecordPreview(w)
       PROVE  RecordInv'
  <2>1. Wrote(w, "preview_generated", Record(w).plan,
              Record(w).recovered, job[w] \in artifacts)
    BY <1>12, PreviewWrites
  <2> QED
    BY <1>12, <2>1
       DEF RecordPreview, SaveAndGoto
<1>13. ASSUME NEW w \in Workers, Complete(w)
       PROVE  RecordInv'
  <2>1. Wrote(w, "completed", Record(w).plan, Record(w).recovered,
              Record(w).preview)
    BY <1>13, CompleteWrites
  <2> QED
    BY <1>13, <2>1
       DEF Complete, Return
<1>14. ASSUME NEW w \in Workers,
              \/ PlanFails(w) \/ RecoveryCopyFails(w) \/ MoveFails(w)
              \/ ConfirmFails(w)
       PROVE  RecordInv'
  <2>1. Wrote(w, "failed", Record(w).plan, Record(w).recovered,
              Record(w).preview)
    BY <1>14, FailWrites DEF PlanFails, RecoveryCopyFails, MoveFails, ConfirmFails
  <2> QED
    BY <1>14, <2>1
       DEF PlanFails, RecoveryCopyFails, MoveFails, ConfirmFails, Fail, Return
<1>15. ASSUME NEW w \in Workers, ApplyMoveUnreported(w)
       PROVE  RecordInv'
  <2>1. Wrote(w, "failed", Record(w).plan, Record(w).recovered,
              Record(w).preview)
    BY <1>15, FailWrites DEF ApplyMoveUnreported, AtPlanStart
  <2> QED
    BY <1>15, <2>1
       DEF ApplyMoveUnreported, Fail, Return, AtPlanStart, Displace
<1>16. ASSUME NEW w \in Workers, Crash(w)
       PROVE  RecordInv'
  BY <1>16
     DEF Crash
<1>17. ASSUME NEW w \in Workers, NEW j \in Jobs, Deliver(w, j)
       PROVE  RecordInv'
  BY <1>17
     DEF Deliver
<1>18. ASSUME EditElsewhere
       PROVE  RecordInv'
  BY <1>18
     DEF EditElsewhere
<1>19. ASSUME NEW d \in Jobs, DamageRecord(d)
       PROVE  RecordInv'
  BY <1>19
     DEF DamageRecord, NoRecord, Records, Phases
<1>20. ASSUME NEW d \in Keys, DamageBinding(d)
       PROVE  RecordInv'
  BY <1>20
     DEF DamageBinding
<1>21. ASSUME UNCHANGED vars
       PROVE  RecordInv'
  BY <1>21
     DEF vars
<1> QED
  BY <1>1, <1>2, <1>3, <1>4, <1>5, <1>6, <1>7, <1>8, <1>9, <1>10, <1>11,
     <1>12, <1>13, <1>14, <1>15, <1>16, <1>17, <1>18, <1>19, <1>20, <1>21
     DEF Next, Environment, Step

(* Every move ends where its plan ends, and a plan in use is never         *)
(* changed.                                                                *)
LEMMA LastMoverStep ==
  IndInv /\ [Next]_vars => LastMoverInv'
<1> SUFFICES ASSUME IndInv, [Next]_vars PROVE LastMoverInv'
  OBVIOUS
<1> USE ConstantsAssumption
<1> USE DEF IndInv, TypeOK, Goto, Record, Wrote, files, control, counters,
            history, Labels, LastMoverInv, ProgressInv, Bound, Planned,
            Recovered, Reporting, Exists, HasPlan
<1>1. ASSUME NEW w \in Workers, AcquireLock(w)
      PROVE  LastMoverInv'
  BY <1>1
     DEF AcquireLock
<1>2. ASSUME NEW w \in Workers,
             \/ LockConflict(w) \/ RefuseCorruptRecord(w)
             \/ RefuseForeignKey(w) \/ RefuseCorruptBinding(w)
      PROVE  LastMoverInv'
  BY <1>2
     DEF LockConflict, RefuseCorruptRecord, RefuseForeignKey,
         RefuseCorruptBinding, Return, Executable
<1>3. ASSUME NEW w \in Workers,
             \/ ReusePlan(w) \/ KeepRecoveryCopy(w) \/ FindAlreadyApplied(w)
             \/ SkipPreview(w)
      PROVE  LastMoverInv'
  BY <1>3
     DEF ReusePlan, KeepRecoveryCopy, FindAlreadyApplied, SkipPreview
<1>4. ASSUME NEW w \in Workers, ReplayCompleted(w)
      PROVE  LastMoverInv'
  BY <1>4
     DEF ReplayCompleted
<1>5. ASSUME NEW w \in Workers, BindKey(w)
      PROVE  LastMoverInv'
  BY <1>5
     DEF BindKey, Executable
<1>6. ASSUME NEW w \in Workers, RenderPreview(w)
      PROVE  LastMoverInv'
  BY <1>6
     DEF RenderPreview
<1>7. ASSUME NEW w \in Workers, ApplyMove(w)
      PROVE  LastMoverInv'
  BY <1>7
     DEF ApplyMove, AtPlanStart, Displace
<1>8. ASSUME NEW w \in Workers, Receive(w)
      PROVE  LastMoverInv'
  <2>1. \E phase \in Phases \ {"absent"}, recovered, preview \in BOOLEAN :
          /\ Wrote(w, phase, Record(w).plan, recovered, preview)
          /\ Record(w).phase # "absent" =>
               phase = Record(w).phase /\ preview = Record(w).preview
          /\ Record(w).phase = "absent" => phase = "received" /\ ~preview
    BY <1>8, ReceiveWrites
  <2> QED
    BY <1>8, <2>1
       DEF Receive, SaveAndGoto
<1>9. ASSUME NEW w \in Workers, MakePlan(w)
      PROVE  LastMoverInv'
  <2>1. Wrote(w, "plan_persisted",
              [before |-> position, after |-> position + DeltaOf[job[w]]],
              Record(w).recovered, Record(w).preview)
    BY <1>9, MakePlanWrites
  <2> QED
    BY <1>9, <2>1
       DEF MakePlan, SaveAndGoto
<1>10. ASSUME NEW w \in Workers, MakeRecoveryCopy(w)
       PROVE  LastMoverInv'
  <2>1. Wrote(w, "recovery_created", Record(w).plan, TRUE, Record(w).preview)
    BY <1>10, RecoveryWrites
  <2> QED
    BY <1>10, <2>1
       DEF MakeRecoveryCopy, SaveAndGoto
<1>11. ASSUME NEW w \in Workers,
              \/ StartExecuting(w) \/ RecordVerified(w) \/ ConfirmSaved(w)
       PROVE  LastMoverInv'
  <2>1. \E phase \in {"executing", "mutation_verified", "project_saved"} :
          Wrote(w, phase, Record(w).plan, Record(w).recovered,
                Record(w).preview)
    BY <1>11, AdvanceWrites
  <2> QED
    BY <1>11, <2>1
       DEF StartExecuting, RecordVerified, ConfirmSaved, SaveAndGoto
<1>12. ASSUME NEW w \in Workers, RecordPreview(w)
       PROVE  LastMoverInv'
  <2>1. Wrote(w, "preview_generated", Record(w).plan,
              Record(w).recovered, job[w] \in artifacts)
    BY <1>12, PreviewWrites
  <2> QED
    BY <1>12, <2>1
       DEF RecordPreview, SaveAndGoto
<1>13. ASSUME NEW w \in Workers, Complete(w)
       PROVE  LastMoverInv'
  <2>1. Wrote(w, "completed", Record(w).plan, Record(w).recovered,
              Record(w).preview)
    BY <1>13, CompleteWrites
  <2> QED
    BY <1>13, <2>1
       DEF Complete, Return
<1>14. ASSUME NEW w \in Workers,
              \/ PlanFails(w) \/ RecoveryCopyFails(w) \/ MoveFails(w)
              \/ ConfirmFails(w)
       PROVE  LastMoverInv'
  <2>1. Wrote(w, "failed", Record(w).plan, Record(w).recovered,
              Record(w).preview)
    BY <1>14, FailWrites DEF PlanFails, RecoveryCopyFails, MoveFails, ConfirmFails
  <2> QED
    BY <1>14, <2>1
       DEF PlanFails, RecoveryCopyFails, MoveFails, ConfirmFails, Fail, Return
<1>15. ASSUME NEW w \in Workers, ApplyMoveUnreported(w)
       PROVE  LastMoverInv'
  <2>1. Wrote(w, "failed", Record(w).plan, Record(w).recovered,
              Record(w).preview)
    BY <1>15, FailWrites DEF ApplyMoveUnreported, AtPlanStart
  <2> QED
    BY <1>15, <2>1
       DEF ApplyMoveUnreported, Fail, Return, AtPlanStart, Displace
<1>16. ASSUME NEW w \in Workers, Crash(w)
       PROVE  LastMoverInv'
  BY <1>16
     DEF Crash
<1>17. ASSUME NEW w \in Workers, NEW j \in Jobs, Deliver(w, j)
       PROVE  LastMoverInv'
  BY <1>17
     DEF Deliver
<1>18. ASSUME EditElsewhere
       PROVE  LastMoverInv'
  BY <1>18
     DEF EditElsewhere
<1>19. ASSUME NEW d \in Jobs, DamageRecord(d)
       PROVE  LastMoverInv'
  BY <1>19
     DEF DamageRecord, NoRecord, Records, Phases
<1>20. ASSUME NEW d \in Keys, DamageBinding(d)
       PROVE  LastMoverInv'
  BY <1>20
     DEF DamageBinding
<1>21. ASSUME UNCHANGED vars
       PROVE  LastMoverInv'
  BY <1>21
     DEF vars
<1> QED
  BY <1>1, <1>2, <1>3, <1>4, <1>5, <1>6, <1>7, <1>8, <1>9, <1>10, <1>11,
     <1>12, <1>13, <1>14, <1>15, <1>16, <1>17, <1>18, <1>19, <1>20, <1>21
     DEF Next, Environment, Step

(* Success is answered by a job, or for the owner of its key, already      *)
(* durable.                                                                *)
LEMMA SuccessStep ==
  IndInv /\ [Next]_vars => SuccessWasConfirmed'
<1> SUFFICES ASSUME IndInv, [Next]_vars PROVE SuccessWasConfirmed'
  OBVIOUS
<1> USE ConstantsAssumption
<1> USE DEF IndInv, TypeOK, Goto, Record, Wrote, files, control, counters,
            history, Labels, SuccessWasConfirmed, ProgressInv, RecordInv,
            BindingInv, Bound, Planned, Recovered, Reporting, Exists
<1>1. ASSUME NEW w \in Workers, AcquireLock(w)
      PROVE  SuccessWasConfirmed'
  BY <1>1
     DEF AcquireLock
<1>2. ASSUME NEW w \in Workers,
             \/ LockConflict(w) \/ RefuseCorruptRecord(w)
             \/ RefuseForeignKey(w) \/ RefuseCorruptBinding(w)
      PROVE  SuccessWasConfirmed'
  BY <1>2
     DEF LockConflict, RefuseCorruptRecord, RefuseForeignKey,
         RefuseCorruptBinding, Return, Executable
<1>3. ASSUME NEW w \in Workers,
             \/ ReusePlan(w) \/ KeepRecoveryCopy(w) \/ FindAlreadyApplied(w)
             \/ SkipPreview(w)
      PROVE  SuccessWasConfirmed'
  BY <1>3
     DEF ReusePlan, KeepRecoveryCopy, FindAlreadyApplied, SkipPreview
<1>4. ASSUME NEW w \in Workers, ReplayCompleted(w)
      PROVE  SuccessWasConfirmed'
  BY <1>4
     DEF ReplayCompleted
<1>5. ASSUME NEW w \in Workers, BindKey(w)
      PROVE  SuccessWasConfirmed'
  BY <1>5
     DEF BindKey, Executable
<1>6. ASSUME NEW w \in Workers, RenderPreview(w)
      PROVE  SuccessWasConfirmed'
  BY <1>6
     DEF RenderPreview
<1>7. ASSUME NEW w \in Workers, ApplyMove(w)
      PROVE  SuccessWasConfirmed'
  BY <1>7
     DEF ApplyMove, AtPlanStart, Displace
<1>8. ASSUME NEW w \in Workers, Receive(w)
      PROVE  SuccessWasConfirmed'
  BY <1>8
     DEF Receive, SaveAndGoto
<1>9. ASSUME NEW w \in Workers, MakePlan(w)
      PROVE  SuccessWasConfirmed'
  BY <1>9
     DEF MakePlan, SaveAndGoto
<1>10. ASSUME NEW w \in Workers, MakeRecoveryCopy(w)
       PROVE  SuccessWasConfirmed'
  BY <1>10
     DEF MakeRecoveryCopy, SaveAndGoto
<1>11. ASSUME NEW w \in Workers,
              \/ StartExecuting(w) \/ RecordVerified(w) \/ ConfirmSaved(w)
       PROVE  SuccessWasConfirmed'
  BY <1>11
     DEF StartExecuting, RecordVerified, ConfirmSaved, SaveAndGoto
<1>12. ASSUME NEW w \in Workers, RecordPreview(w)
       PROVE  SuccessWasConfirmed'
  BY <1>12
     DEF RecordPreview, SaveAndGoto
<1>13. ASSUME NEW w \in Workers, Complete(w)
       PROVE  SuccessWasConfirmed'
  BY <1>13
     DEF Complete, Return
<1>14. ASSUME NEW w \in Workers,
              \/ PlanFails(w) \/ RecoveryCopyFails(w) \/ MoveFails(w)
              \/ ConfirmFails(w)
       PROVE  SuccessWasConfirmed'
  BY <1>14
     DEF PlanFails, RecoveryCopyFails, MoveFails, ConfirmFails, Fail, Return
<1>15. ASSUME NEW w \in Workers, ApplyMoveUnreported(w)
       PROVE  SuccessWasConfirmed'
  BY <1>15
     DEF ApplyMoveUnreported, Fail, Return, AtPlanStart, Displace
<1>16. ASSUME NEW w \in Workers, Crash(w)
       PROVE  SuccessWasConfirmed'
  BY <1>16
     DEF Crash
<1>17. ASSUME NEW w \in Workers, NEW j \in Jobs, Deliver(w, j)
       PROVE  SuccessWasConfirmed'
  BY <1>17
     DEF Deliver
<1>18. ASSUME EditElsewhere
       PROVE  SuccessWasConfirmed'
  BY <1>18
     DEF EditElsewhere
<1>19. ASSUME NEW d \in Jobs, DamageRecord(d)
       PROVE  SuccessWasConfirmed'
  BY <1>19
     DEF DamageRecord, NoRecord, Records, Phases
<1>20. ASSUME NEW d \in Keys, DamageBinding(d)
       PROVE  SuccessWasConfirmed'
  BY <1>20
     DEF DamageBinding
<1>21. ASSUME UNCHANGED vars
       PROVE  SuccessWasConfirmed'
  BY <1>21
     DEF vars
<1> QED
  BY <1>1, <1>2, <1>3, <1>4, <1>5, <1>6, <1>7, <1>8, <1>9, <1>10, <1>11,
     <1>12, <1>13, <1>14, <1>15, <1>16, <1>17, <1>18, <1>19, <1>20, <1>21
     DEF Next, Environment, Step

-------------------------------------------------------------------------------
(* The invariant. *)

(* An empty runtime directory and the seed project satisfy IndInv.         *)
LEMMA InitInv ==
  Init => IndInv
<1> SUFFICES ASSUME Init PROVE IndInv
  OBVIOUS
<1> USE ConstantsAssumption DEF Init
<1>1. NoRecord \in Records
  BY DEF NoRecord, Records, Phases
<1>2. TypeOK
  BY <1>1 DEF TypeOK, Labels
<1>3. LockInv /\ ProgressInv
  BY DEF LockInv, ProgressInv, Locked, Labels, Bound, Planned, Recovered,
         Reporting
<1>4. BindingInv
  BY DEF BindingInv, Exists, NoRecord
<1>5. RecordInv
  BY DEF RecordInv, NoRecord
<1>6. LastMoverInv /\ SuccessWasConfirmed
  BY DEF LastMoverInv, SuccessWasConfirmed
<1> QED
  BY <1>2, <1>3, <1>4, <1>5, <1>6 DEF IndInv

(* IndInv holds in every reachable state: of the lock, the bindings, the    *)
(* journal and the project's file together, whatever crashes in between.   *)
THEOREM Invariance ==
  Spec => []IndInv
<1>1. IndInv /\ [Next]_vars => IndInv'
  <2> SUFFICES ASSUME IndInv, [Next]_vars PROVE IndInv'
    OBVIOUS
  <2>1. TypeOK' /\ LockInv' /\ BindingInv' /\ ProgressInv'
    BY TypeStep, LockStep, BindingStep, ProgressStep
  <2>2. RecordInv' /\ LastMoverInv' /\ SuccessWasConfirmed'
    BY RecordStep, LastMoverStep, SuccessStep
  <2> QED
    BY <2>1, <2>2 DEF IndInv
<1> QED
  BY InitInv, <1>1, PTL DEF Spec

(* Every variable, and every field of every record, always has its type.   *)
THEOREM TypeCorrect ==
  Spec => []TypeOK
<1>1. IndInv => TypeOK
  BY DEF IndInv
<1> QED
  BY Invariance, <1>1, PTL

(* Of all the jobs that carry one mutation identity, at most one ever has a *)
(* plan (bind_idempotency).                                                *)
THEOREM KeysHaveOnePlan ==
  Spec => []OnePlanPerKey
<1>1. IndInv => OnePlanPerKey
  BY DEF IndInv, BindingInv, RecordInv, OnePlanPerKey, HasPlan, Exists
<1> QED
  BY Invariance, <1>1, PTL

(* Nothing is ever answered "succeeded" before its change was read back    *)
(* from the saved project.                                                 *)
THEOREM SuccessIsHonest ==
  Spec => []SuccessWasConfirmed
<1>1. IndInv => SuccessWasConfirmed
  BY DEF IndInv
<1> QED
  BY Invariance, <1>1, PTL

(* A record that says a preview exists is right.                           *)
THEOREM PreviewIsHonest ==
  Spec => []PreviewIsStored
<1>1. IndInv => PreviewIsStored
  BY DEF IndInv, RecordInv, PreviewIsStored
<1> QED
  BY Invariance, <1>1, PTL

-------------------------------------------------------------------------------
(* What a step may never do. *)

(* Only a move job's Blender process and other work change the project, and *)
(* so who changed it last.                                                 *)
LEMMA WhoMoves ==
  ASSUME [Next]_vars, position' # position \/ lastMover' # lastMover
  PROVE  \/ EditElsewhere
         \/ \E w \in Workers : ApplyMove(w) \/ ApplyMoveUnreported(w)
<1> USE DEF files, history, SaveAndGoto
<1>1. ASSUME NEW w \in Workers, Step(w)
      PROVE  ApplyMove(w) \/ ApplyMoveUnreported(w)
  BY <1>1 DEF Step, AcquireLock, LockConflict, RefuseCorruptRecord,
     ReplayCompleted, BindKey, RefuseForeignKey, RefuseCorruptBinding,
     Receive, MakePlan, ReusePlan, PlanFails, MakeRecoveryCopy,
     KeepRecoveryCopy, RecoveryCopyFails, StartExecuting, FindAlreadyApplied,
     MoveFails, RecordVerified, ConfirmSaved, ConfirmFails, SkipPreview,
     RecordPreview, RenderPreview, Complete
<1>2. ASSUME Environment
      PROVE  EditElsewhere
  BY <1>2 DEF Environment, Deliver, Crash, DamageRecord, DamageBinding
<1> QED
  BY <1>1, <1>2 DEF Next, vars

(* The move of a job goes from one end of its plan to the other, and what   *)
(* was moved last is not this job's doing.                                 *)
LEMMA MoveIsPlanned ==
  ASSUME IndInv, NEW w \in Workers, ApplyMove(w) \/ ApplyMoveUnreported(w)
  PROVE  /\ job[w] \in Jobs
         /\ lastMover' = job[w] /\ lastMover # job[w]
         /\ Record(w).phase # "corrupt"
         /\ Record(w).recovered
         /\ Record(w).plan \in Plans
         /\ position = Record(w).plan.before
         /\ position' = Record(w).plan.after
<1>1. /\ pc[w] = "moving"
      /\ position = Record(w).plan.before
      /\ position # Record(w).plan.after
      /\ position' = Record(w).plan.after
      /\ lastMover' = job[w]
  BY DEF ApplyMove, ApplyMoveUnreported, AtPlanStart, Displace
<1>2. job[w] \in Jobs
  BY <1>1 DEF IndInv, TypeOK
<1>3. Record(w).phase # "corrupt" /\ Record(w).recovered
  BY <1>1 DEF IndInv, ProgressInv, Bound, Recovered
<1>4. Record(w).plan \in Plans
  BY <1>1, PlanIsPlan DEF Planned
<1>5. lastMover # job[w]
  BY <1>1, <1>2, <1>3 DEF IndInv, LastMoverInv, Record
<1> QED
  BY <1>1, <1>2, <1>3, <1>4, <1>5

(* No delivery, retry or crash makes a job move the object twice in a row. *)
THEOREM NoDoubleMovement ==
  Spec => NoConsecutiveMoves
<1>1. IndInv /\ [Next]_vars =>
        [position' # position /\ lastMover' \in Jobs
           => lastMover # lastMover']_vars
  BY WhoMoves, MoveIsPlanned, ConstantsAssumption DEF EditElsewhere
<1> QED
  BY Invariance, <1>1, PTL DEF Spec, NoConsecutiveMoves

(* The saved project is changed only as the journal already says.          *)
THEOREM JournalComesFirst ==
  Spec => MutationFollowsJournal
<1>1. ASSUME IndInv, [Next]_vars, position' # position, lastMover' \in Jobs
      PROVE  /\ journal[lastMover'].plan
                  = [before |-> position, after |-> position']
             /\ journal[lastMover'].recovered
  <2>1. PICK w \in Workers : ApplyMove(w) \/ ApplyMoveUnreported(w)
    BY <1>1, WhoMoves, ConstantsAssumption DEF EditElsewhere
  <2>2. /\ lastMover' = job[w] /\ Record(w).recovered
        /\ Record(w).plan \in Plans
        /\ position = Record(w).plan.before
        /\ position' = Record(w).plan.after
    BY <1>1, <2>1, MoveIsPlanned
  <2>3. Record(w).plan = [before |-> position, after |-> position']
    BY <2>2 DEF Plans
  <2> QED
    BY <2>2, <2>3 DEF Record
<1>2. IndInv /\ [Next]_vars =>
        [position' # position /\ lastMover' \in Jobs
           => /\ journal[lastMover'].plan
                   = [before |-> position, after |-> position']
              /\ journal[lastMover'].recovered]_vars
  BY <1>1
<1> QED
  BY Invariance, <1>2, PTL DEF Spec, MutationFollowsJournal

(* A rewritten record with the same plan commits to nothing new.           *)
LEMMA KeptWhenWritten ==
  ASSUME IndInv, NEW w \in Workers, pc[w] # "idle",
         Record(w).phase # "corrupt",
         NEW phase, phase # "corrupt", NEW recovered, NEW preview,
         Wrote(w, phase, Record(w).plan, recovered, preview)
  PROVE  /\ \A j \in Jobs : journal'[j].plan = journal[j].plan
         /\ Committed' = Committed
<1>1. job[w] \in Jobs
  BY DEF IndInv, TypeOK
<1>2. \A j \in Jobs : /\ journal'[j].plan = journal[j].plan
                      /\ journal'[j].phase = "corrupt"
                           <=> journal[j].phase = "corrupt"
  BY <1>1 DEF Wrote, Record
<1>3. Committed' = Committed
  BY <1>2 DEF Committed
<1> QED
  BY <1>2, <1>3

(* Apart from planning and damage, no step changes what the journal says    *)
(* any job has committed itself to.                                        *)
LEMMA PlansAreKept ==
  ASSUME IndInv, [Next]_vars,
         \A w \in Workers : ~MakePlan(w), \A d \in Jobs : ~DamageRecord(d)
  PROVE  /\ \A j \in Jobs : journal'[j].plan = journal[j].plan
         /\ Committed' = Committed
<1> DEFINE Kept == /\ \A j \in Jobs : journal'[j].plan = journal[j].plan
                   /\ Committed' = Committed
<1>1. ASSUME UNCHANGED journal PROVE Kept
  BY <1>1 DEF Committed
<1>2. ASSUME NEW w \in Workers, Receive(w) PROVE Kept
  <2>1. /\ pc[w] # "idle" /\ Record(w).phase # "corrupt"
        /\ TypeOK /\ RecordInv
    BY <1>2 DEF IndInv, ProgressInv, Bound, Receive
  <2>2. PICK phase \in Phases \ {"absent"}, recovered, preview \in BOOLEAN :
          /\ Wrote(w, phase, Record(w).plan, recovered, preview)
          /\ Record(w).phase # "absent" => phase = Record(w).phase
          /\ Record(w).phase = "absent" => phase = "received"
    BY <1>2, <2>1, ReceiveWrites
  <2> QED
    BY <2>1, <2>2, KeptWhenWritten
<1>3. ASSUME NEW w \in Workers, MakeRecoveryCopy(w) PROVE Kept
  <2>1. /\ pc[w] # "idle" /\ Record(w).phase # "corrupt" /\ TypeOK
    BY <1>3 DEF IndInv, ProgressInv, Bound, MakeRecoveryCopy
  <2> QED
    BY <1>3, <2>1, RecoveryWrites, KeptWhenWritten
<1>4. ASSUME NEW w \in Workers,
             StartExecuting(w) \/ RecordVerified(w) \/ ConfirmSaved(w)
      PROVE  Kept
  <2>1. /\ pc[w] # "idle" /\ Record(w).phase # "corrupt" /\ TypeOK
    BY <1>4 DEF IndInv, ProgressInv, Bound, StartExecuting, RecordVerified,
                ConfirmSaved
  <2> QED
    BY <1>4, <2>1, AdvanceWrites, KeptWhenWritten
<1>5. ASSUME NEW w \in Workers, RecordPreview(w) PROVE Kept
  <2>1. /\ pc[w] # "idle" /\ Record(w).phase # "corrupt" /\ TypeOK
    BY <1>5 DEF IndInv, ProgressInv, Reporting, RecordPreview
  <2> QED
    BY <1>5, <2>1, PreviewWrites, KeptWhenWritten
<1>6. ASSUME NEW w \in Workers, Complete(w) PROVE Kept
  <2>1. /\ pc[w] # "idle" /\ Record(w).phase # "corrupt" /\ TypeOK
    BY <1>6 DEF IndInv, ProgressInv, Reporting, Complete
  <2> QED
    BY <1>6, <2>1, CompleteWrites, KeptWhenWritten
<1>7. ASSUME NEW w \in Workers,
             \/ PlanFails(w) \/ RecoveryCopyFails(w) \/ MoveFails(w)
             \/ ConfirmFails(w) \/ ApplyMoveUnreported(w)
      PROVE  Kept
  <2>1. /\ pc[w] # "idle" /\ Record(w).phase # "corrupt" /\ TypeOK
        /\ Fail(w)
    BY <1>7 DEF IndInv, ProgressInv, Bound, PlanFails, RecoveryCopyFails,
                MoveFails, ConfirmFails, ApplyMoveUnreported, AtPlanStart
  <2> QED
    BY <2>1, FailWrites, KeptWhenWritten
<1> HIDE DEF Kept
<1>8. ASSUME NEW w \in Workers, Step(w) PROVE Kept
  <2>1. \/ UNCHANGED journal \/ Receive(w) \/ MakeRecoveryCopy(w)
        \/ StartExecuting(w) \/ RecordVerified(w) \/ ConfirmSaved(w)
        \/ RecordPreview(w) \/ Complete(w) \/ PlanFails(w)
        \/ RecoveryCopyFails(w) \/ MoveFails(w) \/ ConfirmFails(w)
        \/ ApplyMoveUnreported(w)
    BY <1>8 DEF Step, AcquireLock, LockConflict, RefuseCorruptRecord,
       ReplayCompleted, BindKey, RefuseForeignKey, RefuseCorruptBinding,
       ReusePlan, KeepRecoveryCopy, FindAlreadyApplied, ApplyMove,
       SkipPreview, RenderPreview, files
  <2> QED
    BY <2>1, <1>1, <1>2, <1>3, <1>4, <1>5, <1>6, <1>7
<1>9. ASSUME Environment PROVE Kept
  BY <1>1, <1>9 DEF Environment, Deliver, Crash, EditElsewhere,
                    DamageBinding, files
<1>10. Kept
  BY <1>1, <1>8, <1>9 DEF Next, vars, files
<1> QED
  BY <1>10 DEF Kept

(* A retry carries out the plan it finds and makes no other.               *)
THEOREM PlansAreFinal ==
  Spec => PlanIsNeverRecomputed
<1>1. ASSUME IndInv, [Next]_vars, NEW j \in Jobs, HasPlan(j), HasPlan(j)'
      PROVE  journal'[j].plan = journal[j].plan
  <2>1. CASE \E w \in Workers : MakePlan(w)
    <3>1. PICK w \in Workers : MakePlan(w)
      BY <2>1
    <3>2. job[w] \in Jobs /\ job[w] # j
      BY <1>1, <3>1 DEF MakePlan, HasPlan, Record, IndInv, TypeOK
    <3> QED
      BY <1>1, <3>1, <3>2, MakePlanWrites DEF Wrote, IndInv
  <2>2. CASE \E d \in Jobs : DamageRecord(d)
    <3>1. PICK d \in Jobs : DamageRecord(d)
      BY <2>2
    <3>2. j # d
      BY <1>1, <3>1 DEF DamageRecord, HasPlan, NoRecord, IndInv, TypeOK
    <3> QED
      BY <1>1, <3>1, <3>2 DEF DamageRecord, IndInv, TypeOK
  <2>3. CASE /\ \A w \in Workers : ~MakePlan(w)
             /\ \A d \in Jobs : ~DamageRecord(d)
    BY <1>1, <2>3, PlansAreKept
  <2> QED
    BY <2>1, <2>2, <2>3
<1>2. IndInv /\ [Next]_vars =>
        [\A j \in Jobs : HasPlan(j) /\ HasPlan(j)'
                           => journal'[j].plan = journal[j].plan]_vars
  BY <1>1
<1> QED
  BY Invariance, <1>2, PTL DEF Spec, PlanIsNeverRecomputed

-------------------------------------------------------------------------------
(* The refinement. *)

(* MakePlan commits: until then no job of this identity has a plan.        *)
LEMMA PlanningCommits ==
  ASSUME IndInv, NEW w \in Workers, MakePlan(w)
  PROVE  Promise!Commit(job[w])
<1> DEFINE plan == [before |-> position,
                    after |-> position + DeltaOf[job[w]]]
<1>1. /\ job[w] \in Jobs /\ Record(w).plan = NoPlan
      /\ Exists(job[w]) /\ Record(w).phase # "corrupt"
  BY DEF MakePlan, IndInv, TypeOK, ProgressInv, Bound
<1>2. Wrote(w, "plan_persisted", plan, Record(w).recovered, Record(w).preview)
  BY MakePlanWrites DEF IndInv
<1>3. UNCHANGED <<position, lastMover>>
  BY DEF MakePlan, SaveAndGoto
<1>4. \A k \in Jobs \ {job[w]} :
        KeyOf[k] = KeyOf[job[w]] => Committed[k] = NoPlan
  <2> SUFFICES ASSUME NEW k \in Jobs \ {job[w]}, KeyOf[k] = KeyOf[job[w]]
               PROVE  Committed[k] = NoPlan
    OBVIOUS
  <2>1. journal[k].phase = "absent"
    BY <1>1 DEF IndInv, BindingInv, Exists
  <2> QED
    BY <2>1 DEF IndInv, RecordInv, Committed
<1>5. Committed[job[w]] = NoPlan
  BY <1>1 DEF Committed, Record
<1> HIDE DEF plan
<1>6. Committed' = [Committed EXCEPT ![job[w]] = plan]
  BY <1>1, <1>2 DEF Committed, Wrote, Record
<1> QED
  BY <1>1, <1>3, <1>4, <1>5, <1>6 DEF Promise!Commit, plan

(* The Blender process carries out the committed plan, reported or not.    *)
LEMMA MovingApplies ==
  ASSUME IndInv, NEW w \in Workers, ApplyMove(w) \/ ApplyMoveUnreported(w)
  PROVE  job[w] \in Jobs /\ Promise!Apply(job[w])
<1>1. /\ job[w] \in Jobs
      /\ lastMover' = job[w] /\ lastMover # job[w]
      /\ Record(w).phase # "corrupt" /\ Record(w).plan \in Plans
      /\ position = Record(w).plan.before /\ position' = Record(w).plan.after
  BY MoveIsPlanned
<1>2. Record(w).plan \notin {NoPlan, Void}
  BY <1>1, ConstantsAssumption DEF Plans
<1>3. Committed[job[w]] = Record(w).plan
  BY <1>1 DEF Committed, Record
<1>4. Committed' = Committed
  <2>1. CASE ApplyMove(w)
    BY <2>1 DEF ApplyMove, Committed
  <2>2. CASE ApplyMoveUnreported(w)
    <3>1. pc[w] # "idle" /\ Fail(w)
      BY <2>2 DEF ApplyMoveUnreported, AtPlanStart
    <3> QED
      BY <1>1, <3>1, FailWrites, KeptWhenWritten DEF IndInv
  <2> QED
    BY <2>1, <2>2
<1> QED
  BY <1>1, <1>2, <1>3, <1>4 DEF Promise!Apply

(* A record that can no longer be read binds its job to nothing, for good. *)
LEMMA DamageForgets ==
  ASSUME IndInv, NEW d \in Jobs, DamageRecord(d)
  PROVE  Promise!Forget(d)
<1>1. /\ journal' = [journal EXCEPT ![d] = [NoRecord EXCEPT !.phase = "corrupt"]]
      /\ UNCHANGED <<position, lastMover>>
  BY DEF DamageRecord, history
<1>2. journal'[d].phase = "corrupt"
  BY <1>1 DEF IndInv, TypeOK, NoRecord
<1>3. \A j \in Jobs \ {d} : journal'[j] = journal[j]
  BY <1>1 DEF IndInv, TypeOK
<1>4. Committed' = [Committed EXCEPT ![d] = Void]
  BY <1>2, <1>3 DEF Committed
<1> QED
  BY <1>1, <1>4 DEF Promise!Forget

(* WorkerExecutor keeps the central rule of executor.py:13-27: each of its  *)
(* behaviours, with the lock, the crashes and the retries, is one of       *)
(* MoveLedger's once what a job committed is read off its record.          *)
THEOREM ExecutorKeepsPromise ==
  Spec => PromiseKept
<1>1. Init => Promise!Init
  BY DEF Init, Promise!Init, Committed, NoRecord
<1>2. IndInv /\ [Next]_vars => [Promise!Next]_(Promise!ledger)
  <2> SUFFICES ASSUME IndInv, [Next]_vars
               PROVE  [Promise!Next]_(Promise!ledger)
    OBVIOUS
  <2>1. CASE \E w \in Workers : MakePlan(w)
    <3>1. PICK w \in Workers : MakePlan(w)
      BY <2>1
    <3>2. job[w] \in Jobs /\ Promise!Commit(job[w])
      BY <3>1, PlanningCommits DEF MakePlan, IndInv, TypeOK
    <3> QED
      BY <3>2 DEF Promise!Next
  <2>2. CASE \E d \in Jobs : DamageRecord(d)
    BY <2>2, DamageForgets DEF Promise!Next
  <2>3. CASE \E w \in Workers : ApplyMove(w) \/ ApplyMoveUnreported(w)
    BY <2>3, MovingApplies DEF Promise!Next
  <2>4. CASE EditElsewhere
    <3>1. position' \in Int
      BY <2>4, ConstantsAssumption DEF EditElsewhere
    <3>2. lastMover' = Other /\ Committed' = Committed
      BY <2>4 DEF EditElsewhere, Committed
    <3> QED
      BY <3>1, <3>2 DEF Promise!Next, Promise!Edit
  <2>5. CASE /\ \A w \in Workers : ~MakePlan(w)
             /\ \A d \in Jobs : ~DamageRecord(d)
             /\ \A w \in Workers : ~ApplyMove(w) /\ ~ApplyMoveUnreported(w)
             /\ ~EditElsewhere
    <3>1. Committed' = Committed
      BY <2>5, PlansAreKept
    <3>2. position' = position /\ lastMover' = lastMover
      BY <2>5, WhoMoves
    <3> QED
      BY <3>1, <3>2 DEF Promise!ledger
  <2> QED
    BY <2>1, <2>2, <2>3, <2>4, <2>5
<1> QED
  BY Invariance, <1>1, <1>2, PTL DEF Spec, PromiseKept, Promise!Spec
===============================================================================
