---------------------------- MODULE JobRecords_proofs --------------------------
(***************************************************************************)
(* Theorems about JobRecords, for any set of plans and any number of turns *)
(* and restarts.                                                           *)
(***************************************************************************)
EXTENDS JobRecords, TLAPS

-------------------------------------------------------------------------------
(* Records. *)

Statuses == {"queued", "claimed", "running"} \cup Terminal

LEMMA FreshRecord ==
  ASSUME NEW status \in Statuses, NEW held \in BOOLEAN,
         NEW plan \in Plans \cup {NoPlan}, NEW adopted \in BOOLEAN
  PROVE  /\ Record(status, held, plan, adopted) \in Records
         /\ Record(status, held, plan, adopted).status = status
         /\ Record(status, held, plan, adopted).held = held
         /\ Record(status, held, plan, adopted).adopted = adopted
BY DEF Record, Records, Statuses

LEMMA RecordFields ==
  ASSUME NEW record \in Records
  PROVE  /\ record.status \in Statuses /\ record.held \in BOOLEAN
         /\ record.adopted \in BOOLEAN
         /\ record # NoRow
BY NoRowAssumption DEF Records, Statuses

(* The reconciler's update of a record and the turn's. *)
LEMMA Reported ==
  ASSUME NEW record \in Records, NEW status \in Statuses
  PROVE  LET updated == [record EXCEPT !.status = status, !.held = TRUE]
         IN  /\ updated \in Records
             /\ updated.status = status /\ updated.held
             /\ updated.adopted = record.adopted
BY DEF Records, Statuses

LEMMA Held ==
  ASSUME NEW record \in Records
  PROVE  LET updated == [record EXCEPT !.held = TRUE]
         IN  /\ updated \in Records
             /\ updated.status = record.status /\ updated.held
             /\ updated.adopted = record.adopted
BY DEF Records, Statuses

-------------------------------------------------------------------------------
(* What the reconciler does to the row, whichever report it has in hand.    *)
Applies == ApplyStatus \/ ApplyRejection \/ ApplyResult \/ AdoptOrphan

LEMMA ReportEffect ==
  ASSUME TypeOK, Applies
  PROVE  /\ report # "none" /\ Applied
         /\ \/ row' = row
            \/ /\ row' \in Records /\ Taken(row')
               /\ row'.status = "succeeded"
                    => report \in Successes \/ Says(loaded)
               /\ loaded # NoRow => row'.adopted = loaded.adopted
               /\ loaded # NoRow /\ loaded.status \in Terminal
                    => row'.status = loaded.status
<1> USE DEF Taken, Successes, Says, Statuses, Terminal
<1>1. loaded \in Records \cup {NoRow} /\ report \in Kinds \cup {"none"}
  BY DEF TypeOK
<1>2. loaded # NoRow => loaded.status \in Statuses
  BY <1>1, RecordFields
<1>3. CASE ApplyStatus
  <2>1. report \in {"accepted", "progress"} /\ Applied
    BY <1>3 DEF ApplyStatus
  <2>2. CASE row' = row
    BY <2>1, <2>2
  <2>3. CASE row' # row
    <3> DEFINE status == IF report = "accepted" THEN "claimed" ELSE "running"
    <3>1. /\ loaded \in Records /\ loaded.status \notin Terminal
          /\ row' = [loaded EXCEPT !.status = status, !.held = TRUE]
      BY <1>1, <1>3, <2>3 DEF ApplyStatus
    <3>2. status \in Statuses
      OBVIOUS
    <3> HIDE DEF status
    <3>3. row' \in Records /\ row'.status = status /\ row'.held
            /\ row'.adopted = loaded.adopted
      BY <3>1, <3>2, Reported
    <3> QED  BY <2>1, <3>1, <3>3 DEF status
  <2> QED  BY <2>2, <2>3
<1>4. CASE ApplyRejection
  <2>1. report = "rejected" /\ Applied
    BY <1>4 DEF ApplyRejection
  <2>2. CASE row' = row
    BY <2>1, <2>2
  <2>3. CASE row' # row
    <3>1. /\ loaded \in Records /\ loaded.status \notin Terminal
          /\ row' = [loaded EXCEPT !.status = "failed", !.held = TRUE]
      BY <1>1, <1>4, <2>3 DEF ApplyRejection
    <3>2. row' \in Records /\ row'.status = "failed" /\ row'.held
            /\ row'.adopted = loaded.adopted
      BY <3>1, Reported
    <3> QED  BY <2>1, <3>1, <3>2
  <2> QED  BY <2>2, <2>3
<1>5. Canonical \in Statuses
        /\ (Canonical = "succeeded" /\ report \in Successes \cup {"failed"}
              => report \in Successes)
  BY DEF Canonical
<1>6. CASE ApplyResult
  <2>1. report \in Successes \cup {"failed"} /\ Applied /\ loaded \in Records
    BY <1>1, <1>6 DEF ApplyResult
  <2>2. CASE loaded.status \notin Terminal
    <3>1. row' = [loaded EXCEPT !.status = Canonical, !.held = TRUE]
      BY <1>6, <2>2 DEF ApplyResult
    <3>2. row' \in Records /\ row'.status = Canonical /\ row'.held
            /\ row'.adopted = loaded.adopted
      BY <1>5, <2>1, <3>1, Reported
    <3> QED  BY <1>5, <2>1, <2>2, <3>2
  <2>3. CASE loaded.status \in Terminal
    <3>1. row' = loaded \/ row' = row
      BY <1>6, <2>3 DEF ApplyResult
    <3> QED  BY <2>1, <2>3, <3>1, RecordFields
  <2> QED  BY <2>2, <2>3
<1>7. CASE AdoptOrphan
  <2>1. /\ report \in Successes \cup {"failed"} /\ Applied /\ loaded = NoRow
        /\ row' = Record(Canonical, TRUE, NoPlan, TRUE)
    BY <1>7 DEF AdoptOrphan
  <2>2. row' \in Records /\ row'.status = Canonical /\ row'.held
    BY <1>5, <2>1, FreshRecord
  <2> QED  BY <1>5, <2>1, <2>2
<1> QED  BY <1>3, <1>4, <1>6, <1>7 DEF Applies

-------------------------------------------------------------------------------
(* The inductive invariant, one lemma per conjunct. *)

LEMMA InitInv == Init => IndInv
<1> SUFFICES ASSUME Init PROVE IndInv
  OBVIOUS
<1>1. TypeOK
  BY ConstantsAssumption DEF Init, TypeOK
<1>2. HonestInv
  BY DEF Init, HonestInv, Successes, Says
<1>3. TurnInv /\ OfferInv
  BY ConstantsAssumption DEF Init, TurnInv, OfferInv, PastStore
<1>4. AdoptInv /\ LoopInv
  BY DEF Init, AdoptInv, LoopInv, PastStore
<1> QED  BY <1>1, <1>2, <1>3, <1>4 DEF IndInv

(* The steps that leave the row and the way to and from the worker alone. *)
Quiet == ReportDuplicate \/ WorkerSelected \/ NoWorkerReady \/ OfferRaises

LEMMA NextCases ==
  ASSUME Next
  PROVE  \/ \E plan \in Plans : StartTurn(plan)
         \/ SubmitNew \/ ResubmitQueued \/ OfferJob \/ SaveOffered \/ Quiet
         \/ Locate \/ Applies
         \/ WorkerRejects \/ WorkerAccepts \/ WorkerFinishes
         \/ RestartControlPlane
BY DEF Next, TurnStep, LoopStep, WorkerAnswers, Quiet, Applies

LEMMA TypeStep ==
  ASSUME TypeOK, TurnInv, Next
  PROVE  TypeOK'
<1> USE DEF TypeOK
<1>1. CASE \E plan \in Plans : StartTurn(plan)
  BY <1>1, ConstantsAssumption DEF StartTurn, loop, worker
<1>2. CASE SubmitNew
  <2>1. row' \in Records /\ copy' = row'
    <3>1. proposal \in Plans
      BY <1>2 DEF SubmitNew, TurnInv
    <3> QED  BY <1>2, <3>1, FreshRecord DEF SubmitNew, Statuses
  <2> QED  BY <1>2, <2>1 DEF SubmitNew, loop, worker, counters
<1>3. CASE ResubmitQueued
  BY <1>3 DEF ResubmitQueued, loop, worker, counters
<1>4. CASE OfferJob
  <2>1. toWorker' \in Seq(Plans)
    BY <1>4 DEF OfferJob, TurnInv
  <2>2. offered' \in 0 .. MaxTurns
    BY <1>4, ConstantsAssumption DEF OfferJob, TurnInv
  <2> QED  BY <1>4, <2>1, <2>2 DEF OfferJob, loop
<1>5. CASE SaveOffered
  <2>1. row' \in Records
    <3>1. copy \in Records
      BY <1>5 DEF SaveOffered, TurnInv, PastStore
    <3> QED  BY <1>5, <3>1, Held DEF SaveOffered
  <2> QED  BY <1>5, <2>1 DEF SaveOffered, EndTurn, loop, worker, counters
<1>6. CASE Quiet
  BY <1>6 DEF Quiet, ReportDuplicate, WorkerSelected, NoWorkerReady,
              OfferRaises, EndTurn, loop, worker, counters
<1>7. CASE Locate
  BY <1>7 DEF Locate, turn, counters
<1>8. CASE Applies
  <2>1. Applied /\ row' \in Records \cup {NoRow}
    BY <1>8, ReportEffect
  <2> QED  BY <2>1 DEF Applied, turn, worker, counters
<1>9. CASE WorkerRejects
  <2>1. toWorker' \in Seq(Plans) /\ toApi' \in Seq(Kinds)
    BY <1>9 DEF WorkerRejects, Kinds
  <2> QED  BY <1>9, <2>1 DEF WorkerRejects, turn, loop, counters
<1>10. CASE WorkerAccepts
  <2>1. toWorker' \in Seq(Plans) /\ working' \in Plans
    BY <1>10 DEF WorkerAccepts
  <2>2. toApi' \in Seq(Kinds)
    <3>1. CASE toApi' = Append(toApi, "accepted")
      BY <3>1 DEF Kinds
    <3>2. CASE toApi' = Append(Append(toApi, "accepted"), "progress")
      <4>1. Append(toApi, "accepted") \in Seq(Kinds)
        BY DEF Kinds
      <4> QED  BY <3>2, <4>1 DEF Kinds
    <3> QED  BY <1>10, <3>1, <3>2 DEF WorkerAccepts
  <2> QED  BY <1>10, <2>1, <2>2 DEF WorkerAccepts, turn, loop, counters
<1>11. CASE WorkerFinishes
  <2>1. \E word \in Kinds : toApi' = Append(toApi, word)
    BY <1>11 DEF WorkerFinishes, Kinds
  <2>2. toApi' \in Seq(Kinds)
    BY <2>1
  <2>3. /\ journal' \in {"none"} \cup Terminal
        /\ working' = NoPlan
    BY <1>11 DEF WorkerFinishes, Terminal
  <2> QED  BY <1>11, <2>2, <2>3 DEF WorkerFinishes, turn, loop, counters
<1>12. CASE RestartControlPlane
  <2>1. toApi' \in Seq(Kinds)
    <3>1. \/ toApi' = <<>> \/ toApi' = <<"duplicate">> \/ toApi' = <<"failed">>
      BY <1>12 DEF RestartControlPlane
    <3>2. <<>> \in Seq(Kinds)
      OBVIOUS
    <3>3. <<"duplicate">> \in Seq(Kinds) /\ <<"failed">> \in Seq(Kinds)
      <4>1. \A word \in Kinds : <<word>> \in Seq(Kinds)
        OBVIOUS
      <4> QED  BY <4>1 DEF Kinds
    <3> QED  BY <3>1, <3>2, <3>3
  <2>2. row' \in Records \cup {NoRow} /\ restarts' \in 0 .. MaxRestarts
    BY <1>12, ConstantsAssumption DEF RestartControlPlane
  <2>3. toWorker' \in Seq(Plans)
    BY <1>12 DEF RestartControlPlane
  <2> QED  BY <1>12, <2>1, <2>2, <2>3 DEF RestartControlPlane, EndTurn
<1> QED
  BY NextCases, <1>1, <1>2, <1>3, <1>4, <1>5, <1>6, <1>7, <1>8, <1>9, <1>10,
     <1>11, <1>12

LEMMA HonestStep ==
  ASSUME TypeOK, TurnInv, HonestInv, Next
  PROVE  HonestInv'
<1>1. CASE journal = "succeeded"
  <2>1. journal' = "succeeded"
    BY <1>1, NextCases, ReportEffect
    DEF StartTurn, SubmitNew, ResubmitQueued, OfferJob, SaveOffered, Quiet,
        ReportDuplicate, WorkerSelected, NoWorkerReady, OfferRaises, Locate,
        Applied, WorkerRejects, WorkerAccepts, WorkerFinishes,
        RestartControlPlane, worker
  <2> QED  BY <2>1 DEF HonestInv
<1>2. CASE journal # "succeeded"
  <2>1. /\ \A i \in 1 .. Len(toApi) : toApi[i] \notin Successes
        /\ report \notin Successes
        /\ ~Says(copy) /\ ~Says(loaded) /\ ~Says(row)
    BY <1>2 DEF HonestInv
  <2>2. toApi \in Seq(Kinds)
    BY DEF TypeOK
  <2>3. ASSUME NEW word \in Kinds \ Successes, toApi' = Append(toApi, word)
        PROVE  \A i \in 1 .. Len(toApi') : toApi'[i] \notin Successes
    BY <2>1, <2>2, <2>3
  <2>4. ~Says(NoRow)
    BY DEF Says
  <2>5. CASE \E plan \in Plans : StartTurn(plan)
    BY <2>1, <2>5 DEF HonestInv, StartTurn, loop, worker, Says
  <2>6. CASE SubmitNew
    <3>1. proposal \in Plans
      BY <2>6 DEF SubmitNew, TurnInv
    <3>2. row'.status = "queued" /\ copy' = row'
      BY <2>6, <3>1, FreshRecord DEF SubmitNew, Statuses
    <3> QED  BY <2>1, <2>6, <3>2 DEF HonestInv, SubmitNew, loop, worker, Says
  <2>7. CASE ResubmitQueued
    BY <2>1, <2>7 DEF HonestInv, ResubmitQueued, loop, worker, Says
  <2>8. CASE OfferJob
    BY <2>1, <2>8 DEF HonestInv, OfferJob, loop, Says
  <2>9. CASE SaveOffered
    <3>1. copy \in Records
      BY <2>9 DEF SaveOffered, TypeOK, TurnInv, PastStore
    <3>2. row'.status = copy.status /\ copy # NoRow
      BY <2>9, <3>1, Held, RecordFields DEF SaveOffered
    <3> QED
      BY <2>1, <2>9, <3>2 DEF HonestInv, SaveOffered, EndTurn, loop, worker, Says
  <2>10. CASE Quiet
    BY <2>1, <2>10
    DEF Quiet, ReportDuplicate, WorkerSelected, NoWorkerReady, OfferRaises,
        EndTurn, HonestInv, loop, worker, Says
  <2>11. CASE Locate
    <3>1. report' \notin Successes
            /\ \A i \in 1 .. Len(toApi') : toApi'[i] \notin Successes
      BY <2>1, <2>2, <2>11 DEF Locate
    <3> QED  BY <2>1, <2>11, <3>1 DEF HonestInv, Locate, turn, Says
  <2>12. CASE Applies
    <3>1. Applied /\ ~Says(row')
      BY <2>1, <2>12, ReportEffect DEF Says
    <3> QED
      BY <2>1, <3>1 DEF HonestInv, Applied, turn, worker, Says, Successes
  <2>13. CASE WorkerRejects
    <3>1. \A i \in 1 .. Len(toApi') : toApi'[i] \notin Successes
      BY <2>3, <2>13 DEF WorkerRejects, Kinds, Successes
    <3> QED
      BY <2>1, <2>13, <3>1 DEF HonestInv, WorkerRejects, turn, loop, Says
  <2>14. CASE WorkerAccepts
    <3>1. \A i \in 1 .. Len(toApi') : toApi'[i] \notin Successes
      <4>1. CASE toApi' = Append(toApi, "accepted")
        BY <2>3, <4>1 DEF Kinds, Successes
      <4>2. CASE toApi' = Append(Append(toApi, "accepted"), "progress")
        <5> DEFINE once == Append(toApi, "accepted")
        <5>1. once \in Seq(Kinds)
                /\ \A i \in 1 .. Len(once) : once[i] \notin Successes
          BY <2>1, <2>2 DEF Kinds, Successes
        <5>2. toApi' = Append(once, "progress")
          BY <4>2
        <5> HIDE DEF once
        <5> QED  BY <5>1, <5>2 DEF Kinds, Successes
      <4> QED  BY <2>14, <4>1, <4>2 DEF WorkerAccepts
    <3> QED
      BY <2>1, <2>14, <3>1 DEF HonestInv, WorkerAccepts, turn, loop, Says
  <2>15. CASE WorkerFinishes
    <3>1. CASE journal' = "succeeded"
      BY <3>1 DEF HonestInv
    <3>2. CASE journal' # "succeeded"
      <4>1. toApi' = Append(toApi, "failed")
        BY <1>2, <2>15, <3>2 DEF WorkerFinishes
      <4>2. \A i \in 1 .. Len(toApi') : toApi'[i] \notin Successes
        BY <2>3, <4>1 DEF Kinds, Successes
      <4> QED
        BY <2>1, <2>15, <4>2 DEF HonestInv, WorkerFinishes, turn, loop, Says
    <3> QED  BY <3>1, <3>2
  <2>16. CASE RestartControlPlane
    <3>1. toApi' = <<>> \/ toApi' = <<"failed">>
      BY <1>2, <2>16 DEF RestartControlPlane
    <3>2. \A i \in 1 .. Len(toApi') : toApi'[i] \notin Successes
      BY <3>1 DEF Successes
    <3>3. row' = row \/ row' = NoRow
      BY <2>16 DEF RestartControlPlane
    <3> QED
      BY <2>1, <2>16, <3>2, <3>3
      DEF HonestInv, RestartControlPlane, EndTurn, Says, Successes
  <2> QED
    BY NextCases, <2>5, <2>6, <2>7, <2>8, <2>9, <2>10, <2>11, <2>12, <2>13,
       <2>14, <2>15, <2>16
<1> QED  BY <1>1, <1>2

LEMMA TurnInvStep ==
  ASSUME TypeOK, TurnInv, Next
  PROVE  TurnInv'
<1> USE DEF TurnInv, PastStore
<1>1. CASE \E plan \in Plans : StartTurn(plan)
  BY <1>1 DEF StartTurn, TypeOK
<1>2. CASE SubmitNew
  <2>1. copy' \in Records /\ copy'.status = "queued"
    BY <1>2, FreshRecord DEF SubmitNew, Statuses
  <2> QED  BY <1>2, <2>1, RecordFields DEF SubmitNew, counters, Terminal
<1>3. CASE ResubmitQueued
  BY <1>3 DEF ResubmitQueued, Known, Taken, counters
<1>4. CASE OfferJob
  BY <1>4 DEF OfferJob, TypeOK
<1>5. CASE SaveOffered \/ Quiet
  BY <1>5
  DEF SaveOffered, Quiet, ReportDuplicate, WorkerSelected, NoWorkerReady,
      OfferRaises, EndTurn, counters
<1>6. CASE Locate \/ WorkerRejects \/ WorkerAccepts \/ WorkerFinishes
  BY <1>6 DEF Locate, WorkerRejects, WorkerAccepts, WorkerFinishes, turn,
              counters
<1>7. CASE Applies
  BY <1>7, ReportEffect DEF Applied, turn, counters
<1>8. CASE RestartControlPlane
  BY <1>8 DEF RestartControlPlane, EndTurn
<1> QED
  BY NextCases, <1>1, <1>2, <1>3, <1>4, <1>5, <1>6, <1>7, <1>8

LEMMA OfferStep ==
  ASSUME TypeOK, TurnInv, OfferInv, Next
  PROVE  OfferInv'
<1> USE DEF OfferInv
<1>0. offered \in Nat /\ restarts \in Nat
  BY ConstantsAssumption DEF TypeOK
<1>1. CASE \E plan \in Plans : StartTurn(plan)
  BY <1>1 DEF StartTurn
<1>2. CASE SubmitNew \/ ResubmitQueued
  BY <1>2 DEF SubmitNew, ResubmitQueued, Known, counters
<1>3. CASE OfferJob
  BY <1>0, <1>3 DEF OfferJob
<1>4. CASE SaveOffered
  <2>1. copy \in Records
    BY <1>4 DEF SaveOffered, TypeOK, TurnInv, PastStore
  <2>2. row' \in Records /\ row'.held
    BY <1>4, <2>1, Held DEF SaveOffered
  <2> QED
    BY <1>4, <2>2, RecordFields DEF SaveOffered, EndTurn, Taken, counters
<1>5. CASE Quiet
  BY <1>5 DEF Quiet, ReportDuplicate, WorkerSelected, NoWorkerReady,
              OfferRaises, EndTurn, counters
<1>6. CASE Locate \/ WorkerRejects \/ WorkerAccepts \/ WorkerFinishes
  BY <1>6 DEF Locate, WorkerRejects, WorkerAccepts, WorkerFinishes, turn,
              counters
<1>7. CASE Applies
  <2>1. Applied /\ (row' = row \/ (row' \in Records /\ Taken(row')))
    BY <1>7, ReportEffect
  <2> QED  BY <2>1, RecordFields DEF Applied, turn, counters
<1>8. CASE RestartControlPlane
  BY <1>0, <1>8 DEF RestartControlPlane
<1> QED
  BY NextCases, <1>1, <1>2, <1>3, <1>4, <1>5, <1>6, <1>7, <1>8

LEMMA AdoptStep ==
  ASSUME TypeOK, TurnInv, AdoptInv, Next
  PROVE  AdoptInv'
<1>0. restarts \in Nat
  BY ConstantsAssumption DEF TypeOK
<1>1. CASE RestartControlPlane
  BY <1>0, <1>1 DEF RestartControlPlane, AdoptInv
<1>2. CASE ~RestartControlPlane
  <2>1. restarts' = restarts
    BY <1>2, NextCases, ReportEffect
    DEF StartTurn, SubmitNew, ResubmitQueued, OfferJob, SaveOffered, Quiet,
        ReportDuplicate, WorkerSelected, NoWorkerReady, OfferRaises, Locate,
        Applied, WorkerRejects, WorkerAccepts, WorkerFinishes, counters
  <2>2. CASE restarts > 0
    BY <2>1, <2>2 DEF AdoptInv
  <2>3. CASE ~(restarts > 0)
    <3> USE DEF AdoptInv, PastStore
    <3>1. CASE \E plan \in Plans : StartTurn(plan)
      BY <2>3, <3>1 DEF StartTurn, loop, worker
    <3>2. CASE SubmitNew
      <4>1. row' \in Records /\ ~row'.adopted /\ copy' = row'
        BY <3>2, FreshRecord DEF SubmitNew, Statuses, TypeOK, TurnInv
      <4> QED
        BY <2>3, <3>2, <4>1, RecordFields DEF SubmitNew, loop, worker
    <3>3. CASE ResubmitQueued
      BY <2>3, <3>3 DEF ResubmitQueued, Known, loop, worker
    <3>4. CASE OfferJob
      BY <2>3, <3>4 DEF OfferJob, loop
    <3>5. CASE SaveOffered
      <4>1. copy \in Records
        BY <3>5 DEF SaveOffered, TypeOK, TurnInv
      <4>2. row' \in Records /\ row'.adopted = copy.adopted /\ copy # NoRow
        BY <3>5, <4>1, Held, RecordFields DEF SaveOffered
      <4> QED
        BY <2>3, <3>5, <4>2, RecordFields DEF SaveOffered, EndTurn, loop, worker
    <3>6. CASE Quiet
      BY <2>3, <3>6 DEF Quiet, ReportDuplicate, WorkerSelected, NoWorkerReady,
                        OfferRaises, EndTurn, loop, worker
    <3>7. CASE Locate
      BY <2>3, <3>7 DEF Locate, turn
    <3>8. CASE Applies
      <4>1. /\ report # "none" /\ Applied
            /\ \/ row' = row
               \/ row' \in Records /\ (loaded # NoRow
                                        => row'.adopted = loaded.adopted)
        BY <3>8, ReportEffect
      <4>2. loaded # NoRow /\ ~loaded.adopted /\ row # NoRow
        BY <2>3, <4>1
      <4> QED
        BY <2>3, <4>1, <4>2, RecordFields DEF Applied, turn, worker
    <3>9. CASE WorkerRejects
      BY <2>3, <3>9 DEF WorkerRejects, turn, loop
    <3>10. CASE WorkerAccepts
      BY <2>3, <3>10 DEF WorkerAccepts, turn, loop
    <3>11. CASE WorkerFinishes
      BY <2>3, <3>11 DEF WorkerFinishes, turn, loop
    <3> QED
      BY NextCases, <1>2, <3>1, <3>2, <3>3, <3>4, <3>5, <3>6, <3>7, <3>8, <3>9,
         <3>10, <3>11
  <2> QED  BY <2>2, <2>3
<1> QED  BY <1>1, <1>2

LEMMA LoopInvStep ==
  ASSUME TypeOK, TurnInv, LoopInv, Next
  PROVE  LoopInv'
<1> USE DEF LoopInv
<1>1. CASE \E plan \in Plans : StartTurn(plan)
  BY <1>1 DEF StartTurn, loop
<1>2. CASE SubmitNew
  <2>1. row'.status = "queued"
    BY <1>2, FreshRecord DEF SubmitNew, Statuses, TypeOK, TurnInv
  <2> QED  BY <2>1 DEF Terminal
<1>3. CASE ResubmitQueued \/ OfferJob \/ Quiet
  BY <1>3 DEF ResubmitQueued, OfferJob, Quiet, ReportDuplicate, WorkerSelected,
              NoWorkerReady, OfferRaises, EndTurn, loop
<1>4. CASE SaveOffered
  <2>1. copy \in Records /\ copy.status \notin Terminal
    BY <1>4, RecordFields DEF SaveOffered, TypeOK, TurnInv, PastStore
  <2>2. row'.status = copy.status
    BY <1>4, <2>1, Held DEF SaveOffered
  <2> QED  BY <2>1, <2>2
<1>5. CASE Locate
  BY <1>5 DEF Locate
<1>6. CASE Applies
  BY <1>6, ReportEffect DEF Applied
<1>7. CASE WorkerRejects \/ WorkerAccepts \/ WorkerFinishes
  BY <1>7 DEF WorkerRejects, WorkerAccepts, WorkerFinishes, loop
<1>8. CASE RestartControlPlane
  BY <1>8 DEF RestartControlPlane
<1> QED
  BY NextCases, <1>1, <1>2, <1>3, <1>4, <1>5, <1>6, <1>7, <1>8

LEMMA NextInv == IndInv /\ [Next]_vars => IndInv'
<1>1. CASE IndInv /\ Next
  BY <1>1, TypeStep, HonestStep, TurnInvStep, OfferStep, AdoptStep, LoopInvStep
  DEF IndInv
<1>2. CASE IndInv /\ UNCHANGED vars
  <2> USE <1>2 DEF vars, turn, loop, worker, counters
  <2>1. TypeOK'
    BY DEF IndInv, TypeOK
  <2>2. HonestInv'
    BY DEF IndInv, HonestInv, Says
  <2>3. TurnInv' /\ OfferInv'
    BY DEF IndInv, TurnInv, OfferInv, Taken
  <2>4. AdoptInv' /\ LoopInv'
    BY DEF IndInv, AdoptInv, LoopInv
  <2> QED  BY <2>1, <2>2, <2>3, <2>4 DEF IndInv
<1> QED  BY <1>1, <1>2

-------------------------------------------------------------------------------
(* The two threads, the row and the way to the worker stay consistent in     *)
(* every reachable state, however the turn's save, late reports and restarts *)
(* interleave.                                                               *)
THEOREM RecordsConsistent == Spec => []IndInv
BY InitInv, NextInv, PTL DEF Spec

(* Every variable keeps its type; a stored record is always a whole one.     *)
THEOREM RecordTypes == Spec => []TypeOK
<1>1. IndInv => TypeOK
  BY DEF IndInv
<1> QED  BY <1>1, RecordsConsistent, PTL

(* A recorded success is one the worker's journal holds, even when the       *)
(* report was late, a duplicate, or adopted by a process without its records.*)
THEOREM RecordedSuccessIsReal == Spec => []SuccessIsTheWorkers
<1>1. IndInv => SuccessIsTheWorkers
  BY DEF IndInv, HonestInv, Says, SuccessIsTheWorkers
<1> QED  BY <1>1, RecordsConsistent, PTL

(* One life of the control plane offers the job of a mutation identity at    *)
(* most once, however many turns ask for it: _create_job's duplicate check   *)
(* and the save after the offer leave no way around each other.              *)
THEOREM OneOfferPerLife == Spec => []OfferedOnce
<1>1. IndInv => OfferedOnce
  BY ConstantsAssumption DEF IndInv, TypeOK, OfferInv, OfferedOnce
<1> QED  BY <1>1, RecordsConsistent, PTL

(* Nothing is adopted by a process that has not lost its records: the record *)
(* is written before any worker can hear of the job.                         *)
THEOREM AdoptionIsForLoss == Spec => []AdoptionMeansLoss
<1>1. IndInv => AdoptionMeansLoss
  BY ConstantsAssumption DEF IndInv, TypeOK, AdoptInv, AdoptionMeansLoss
<1> QED  BY <1>1, RecordsConsistent, PTL

(* No report, late, doubled or applied to an outdated copy, takes a finished *)
(* record back; only the turn's save of its own copy can.                    *)
THEOREM ReportsKeepEndings == Spec => ReportsNeverRegress
<1> DEFINE Finished == row # NoRow /\ row.status \in Terminal /\ pc # "saving"
           Stays == \/ restarts' > restarts
                    \/ row' # NoRow /\ row'.status = row.status
<1>1. ASSUME IndInv, [Next]_vars, Finished
      PROVE  Stays
  <2>0. TypeOK /\ LoopInv /\ TurnInv /\ restarts \in Nat
    BY <1>1, ConstantsAssumption DEF IndInv, TypeOK
  <2>1. CASE Applies
    <3>1. row \in Records /\ loaded # NoRow /\ loaded.status = row.status
      BY <1>1, <2>0, <2>1, ReportEffect DEF LoopInv, TypeOK
    <3> QED
      BY <1>1, <2>0, <2>1, <3>1, ReportEffect, RecordFields
  <2>2. CASE SubmitNew \/ SaveOffered
    BY <1>1, <2>2 DEF SubmitNew, SaveOffered, Known
  <2>3. CASE RestartControlPlane
    BY <2>0, <2>3 DEF RestartControlPlane
  <2>4. CASE \/ \E plan \in Plans : StartTurn(plan)
             \/ ResubmitQueued \/ OfferJob \/ Quiet \/ Locate
             \/ WorkerRejects \/ WorkerAccepts \/ WorkerFinishes
    <3>1. row' = row
      BY <2>4 DEF StartTurn, ResubmitQueued, OfferJob, Quiet, ReportDuplicate,
                  WorkerSelected, NoWorkerReady, OfferRaises, Locate,
                  WorkerRejects, WorkerAccepts, WorkerFinishes
    <3> QED  BY <1>1, <3>1
  <2>5. CASE UNCHANGED vars
    BY <1>1, <2>5 DEF vars
  <2> QED  BY <1>1, <2>1, <2>2, <2>3, <2>4, <2>5, NextCases
<1>2. IndInv /\ [Next]_vars => [Finished => Stays]_vars
  BY <1>1
<1> QED
  BY <1>2, RecordsConsistent, PTL DEF Spec, ReportsNeverRegress
===============================================================================
