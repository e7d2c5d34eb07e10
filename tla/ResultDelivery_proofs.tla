------------------------- MODULE ResultDelivery_proofs -------------------------
(***************************************************************************)
(* Theorems about what a worker reports: its results (ResultDelivery), for *)
(* any jobs and any number of offers, drops and crashes, and its scene     *)
(* (SceneVersion), for any objects, places, changes and readings.          *)
(***************************************************************************)
EXTENDS ResultDelivery, SceneVersion, FiniteSetTheorems, TLAPS

-------------------------------------------------------------------------------
(* The messages of a channel, and what sending and receiving make of them.  *)
Elements(s) == {s[i] : i \in 1 .. Len(s)}

LEMMA ElementsOfAppend ==
  ASSUME NEW S, NEW s \in Seq(S), NEW m \in S
  PROVE  Append(s, m) \in Seq(S) /\ Elements(Append(s, m)) = Elements(s) \cup {m}
<1>1. /\ Append(s, m) \in Seq(S) /\ Len(Append(s, m)) = Len(s) + 1
      /\ Append(s, m)[Len(s) + 1] = m
      /\ \A i \in 1 .. Len(s) : Append(s, m)[i] = s[i]
  OBVIOUS
<1>2. Len(s) \in Nat
  OBVIOUS
<1>3. 1 .. Len(Append(s, m)) = (1 .. Len(s)) \cup {Len(s) + 1}
  BY <1>1, <1>2
<1> HIDE DEF Elements
<1>4. ASSUME NEW x \in Elements(Append(s, m)) PROVE x \in Elements(s) \cup {m}
  BY <1>1, <1>3 DEF Elements
<1>5. ASSUME NEW x \in Elements(s) PROVE x \in Elements(Append(s, m))
  BY <1>1, <1>3 DEF Elements
<1>6. m \in Elements(Append(s, m))
  BY <1>1, <1>3 DEF Elements
<1> QED  BY <1>1, <1>4, <1>5, <1>6

LEMMA ElementsOfTail ==
  ASSUME NEW S, NEW s \in Seq(S), s # <<>>
  PROVE  /\ Head(s) \in S /\ Tail(s) \in Seq(S)
         /\ Elements(s) = {Head(s)} \cup Elements(Tail(s))
<1>1. /\ Head(s) \in S /\ Tail(s) \in Seq(S) /\ Len(s) \in Nat \ {0}
      /\ Head(s) = s[1] /\ Len(Tail(s)) = Len(s) - 1
      /\ \A i \in 1 .. Len(Tail(s)) : Tail(s)[i] = s[i + 1]
  OBVIOUS
<1>2. ASSUME NEW x \in Elements(s) PROVE x \in {Head(s)} \cup Elements(Tail(s))
  <2>1. PICK i \in 1 .. Len(s) : x = s[i]
    BY DEF Elements
  <2>2. CASE i = 1
    BY <1>1, <2>1, <2>2
  <2>3. CASE i # 1
    <3>1. i - 1 \in 1 .. Len(Tail(s)) /\ (i - 1) + 1 = i
      BY <1>1, <2>1, <2>3
    <3>2. Tail(s)[i - 1] = s[i]
      BY <1>1, <3>1
    <3> QED  BY <2>1, <3>1, <3>2 DEF Elements
  <2> QED  BY <2>2, <2>3
<1>3. ASSUME NEW x \in Elements(Tail(s)) PROVE x \in Elements(s)
  <2>1. PICK i \in 1 .. Len(Tail(s)) : x = Tail(s)[i]
    BY DEF Elements
  <2>2. i + 1 \in 1 .. Len(s) /\ x = s[i + 1]
    BY <1>1, <2>1
  <2> QED  BY <2>2 DEF Elements
<1>4. Head(s) \in Elements(s)
  BY <1>1 DEF Elements
<1> QED  BY <1>1, <1>2, <1>3, <1>4

LEMMA ElementsOfPrefix ==
  ASSUME NEW S, NEW s \in Seq(S), NEW n \in 0 .. Len(s)
  PROVE  SubSeq(s, 1, n) \in Seq(S) /\ Elements(SubSeq(s, 1, n)) \subseteq Elements(s)
<1>1. /\ Len(s) \in Nat /\ SubSeq(s, 1, n) \in Seq(S) /\ Len(SubSeq(s, 1, n)) = n
      /\ \A i \in 1 .. n : SubSeq(s, 1, n)[i] = s[i]
  OBVIOUS
<1> QED  BY <1>1 DEF Elements

LEMMA ElementsOfNothing == Elements(<<>>) = {}
BY DEF Elements

-------------------------------------------------------------------------------
(* The inductive invariant. *)
Wire == Elements(uplink)

(* The change of a job's identity is on record as carried out. *)
Done(j) == \E o \in carried : Identity[o] = Identity[j]

(* What is on the wire, and what the records hold, was carried out. *)
TruthInv ==
  /\ \A j \in Jobs : known[j] = "succeeded" => Done(j)
  /\ \A r \in Wire : Canonical(r) = "succeeded" => Done(r.job)

(* The journal completes what is carried out.  The worker has a job where it *)
(* handles one; it is running once it started, the outcome it is about to    *)
(* report is so, and "sent" is true of a report made on a connection that    *)
(* lasted.                                                                   *)
Handling == {"marking_resent", "executing", "started", "attaching", "reporting", "marking"}
WorkInv ==
  /\ \A j \in Jobs : phase[j] = "completed" => j \in carried
  /\ pc \in Handling => job \in Jobs
  /\ pc = "started" => phase[job] = "running"
  /\ pc = "attaching" => phase[job] = "running" /\ job \in carried
  /\ pc = "reporting" => /\ outcome # "none"
                         /\ outcome \in {"succeeded", "duplicate"} => Done(job)
  /\ pc = "marking" /\ link => sent

(* On a live connection every ending the journal holds was delivered, or is  *)
(* one that is still to be: of those reconcile() listed, or the job at hand. *)
Owed(j) == phase[j] \in TerminalPhases /\ ~delivered[j]
OweInv ==
  link =>
    /\ pc = "resending" => \A j \in Jobs : Owed(j) => j \in pending
    /\ pc = "marking_resent" => \A j \in Jobs : Owed(j) => j \in pending \cup {job}
    /\ pc \in {"ready", "executing"} => \A j \in Jobs : ~Owed(j)
    /\ pc \in {"started", "attaching", "reporting", "marking"} => \A j \in Jobs : Owed(j) => j = job

(* Where nothing is lost, what is marked as delivered, or about to be, has   *)
(* reached the control plane or is on its way.                               *)
Reached(j) == known[j] \in Terminal \/ \E r \in Wire : r.kind = "result" /\ r.job = j
ReachInv ==
  ~lossy =>
    /\ \A j \in Jobs : delivered[j] => Reached(j)
    /\ pc = "marking_resent" => Reached(job)
    /\ pc = "marking" /\ sent => Reached(job)

IndInv == TypeOK /\ TruthInv /\ WorkInv /\ OweInv /\ ReachInv

-------------------------------------------------------------------------------
(* The wire under each kind of step. *)

LEMMA ReportTypes ==
  /\ \A j \in Jobs : \A status \in {"succeeded", "duplicate", "failed"} :
       /\ Report(j, status) \in Reports /\ Report(j, status).job = j
       /\ Report(j, status).kind = "result" /\ Report(j, status).status = status
  /\ \A j \in Jobs : \A kind \in {"accepted", "rejected"} :
       [kind |-> kind, job |-> j] \in Reports
  /\ \A r \in Reports : r.job \in Jobs
BY DEF Report, Reports

LEMMA Sending ==
  ASSUME TypeOK, NEW m \in Reports, SafeSend(m)
  PROVE  /\ uplink' \in Seq(Reports) /\ link' = link /\ downlink' = downlink
         /\ Wire' = IF link THEN Wire \cup {m} ELSE Wire
<1>1. Append(uplink, m) \in Seq(Reports)
        /\ Elements(Append(uplink, m)) = Elements(uplink) \cup {m}
  BY ElementsOfAppend DEF TypeOK
<1> QED  BY <1>1 DEF SafeSend, Wire, TypeOK

LEMMA WhatSurvives ==
  ASSUME TypeOK, uplink' \in Surviving
  PROVE  /\ uplink' \in Seq(Reports) /\ Wire' \subseteq Wire
         /\ ~lossy => uplink' = uplink
<1>1. CASE ~lossy
  BY <1>1 DEF Surviving, TypeOK, Wire
<1>2. CASE lossy
  <2>1. PICK n \in 0 .. Len(uplink) : uplink' = SubSeq(uplink, 1, n)
    BY <1>2 DEF Surviving
  <2> QED  BY <1>2, <2>1, ElementsOfPrefix DEF TypeOK, Wire
<1> QED  BY <1>1, <1>2

LEMMA Receiving ==
  ASSUME TypeOK, Observe
  PROVE  /\ Head(uplink) \in Reports /\ uplink' \in Seq(Reports)
         /\ Wire = {Head(uplink)} \cup Wire'
<1>1. uplink # <<>> /\ uplink' = Tail(uplink) /\ uplink \in Seq(Reports)
  BY DEF Observe, TypeOK
<1> QED  BY <1>1, ElementsOfTail DEF Wire

(* The steps that leave the wire and the records alone. *)
Silent ==
  \/ Register \/ ListUndelivered \/ MarkResent \/ Reconciled \/ NoticeDrop
  \/ StartExecution \/ CarryOut \/ Succeed \/ FailJob \/ Replay
             \/ AnswerForOwner \/ Refuse \/ MarkDelivery
  \/ Restart \/ ConnectFails \/ HandshakeDies \/ Detach
  \/ \E j \in Jobs : Select(j) \/ Offer(j)

LEMMA SilentStep ==
  ASSUME Silent
  PROVE  uplink' = uplink /\ known' = known
BY DEF Silent, Register, ListUndelivered, MarkResent, Reconciled, NoticeDrop,
       StartExecution, CarryOut, Succeed, FailJob, Replay,
       AnswerForOwner, Refuse, Execute, MarkDelivery, Restart,
       ConnectFails, HandshakeDies, Detach, Select, Offer, channel, control

LEMMA NextCases ==
  ASSUME Next
  PROVE  \/ Silent \/ Reject \/ Accept \/ DeliverResult \/ Observe
         \/ \E j \in Jobs : Resend(j)
         \/ Drop \/ RestartControlPlane \/ Crash
BY DEF Next, WorkerStep, ControlPlaneStep, Silent

-------------------------------------------------------------------------------
(* IndInv is inductive, part by part. *)

LEMMA InitInv == Init => IndInv
<1> SUFFICES ASSUME Init PROVE IndInv
  OBVIOUS
<1>1. Wire = {} /\ uplink \in Seq(Reports)
  BY ElementsOfNothing DEF Init, Wire
<1>2. TypeOK
  <2>1. /\ downlink \in Seq(Jobs) /\ queued \in Seq(Jobs)
        /\ drops \in 0 .. MaxDrops /\ crashes \in 0 .. MaxCrashes
        /\ offers \in [Jobs -> Nat] /\ \A j \in Jobs : offers[j] <= MaxOffers[j]
    BY ConstantsAssumption DEF Init
  <2>2. /\ sent \in BOOLEAN /\ unreachable \in BOOLEAN /\ link \in BOOLEAN
        /\ attached \in BOOLEAN /\ busy \in BOOLEAN
        /\ delivered \in [Jobs -> BOOLEAN]
    BY DEF Init
  <2> QED  BY <1>1, <2>1, <2>2 DEF Init, TypeOK
<1>3. TruthInv /\ WorkInv /\ OweInv /\ ReachInv
  BY <1>1 DEF Init, TruthInv, WorkInv, OweInv, ReachInv, Handling
<1> QED  BY <1>2, <1>3 DEF IndInv

LEMMA TypeStep ==
  ASSUME TypeOK, WorkInv, [Next]_vars
  PROVE  TypeOK'
<1> USE DEF TypeOK, Goto
<1>1. CASE Register
  <2>1. link' \in BOOLEAN /\ attached' \in BOOLEAN /\ busy' \in BOOLEAN
    BY <1>1 DEF Register
  <2>2. downlink' \in Seq(Jobs) /\ queued' \in Seq(Jobs)
    BY <1>1 DEF Register
  <2> QED  BY <1>1, <2>1, <2>2 DEF Register, disk, counters
<1>2. CASE ListUndelivered \/ Reconciled \/ NoticeDrop \/ Restart \/ HandshakeDies
  BY <1>2 DEF ListUndelivered, Reconciled, NoticeDrop, Restart,
              HandshakeDies, disk, channel, control, counters
<1>3. CASE ConnectFails
  <2>1. unreachable' \in BOOLEAN
    BY <1>3 DEF ConnectFails
  <2> QED  BY <1>3, <2>1 DEF ConnectFails, disk, channel, control, counters
<1>4. CASE MarkResent
  BY <1>4 DEF MarkResent, channel, control, counters
<1>5. CASE StartExecution
  BY <1>5 DEF StartExecution, channel, control, counters
<1>6. CASE Succeed \/ FailJob \/ Replay \/ AnswerForOwner \/ Refuse
  <2>1. job \in Jobs
    BY <1>6 DEF WorkInv, Handling, Succeed, FailJob, Replay, AnswerForOwner, Refuse
  <2>2. \E status \in {"succeeded", "duplicate", "failed"},
          new \in {"absent", "running", "completed", "failed"} : Execute(status, new)
    BY <1>6, <2>1 DEF Succeed, FailJob, Replay, AnswerForOwner, Refuse
  <2>3. PICK status \in {"succeeded", "duplicate", "failed"},
             new \in {"absent", "running", "completed", "failed"} : Execute(status, new)
    BY <2>2
  <2>4. phase' \in [Jobs -> {"absent", "running", "completed", "failed"}]
    BY <2>3 DEF Execute
  <2>5. outcome' \in {"none", "succeeded", "duplicate", "failed"}
    BY <2>3 DEF Execute
  <2> QED  BY <2>3, <2>4, <2>5 DEF Execute, channel, control, counters
<1>18. CASE CarryOut
  <2>1. job \in Jobs
    BY <1>18 DEF WorkInv, Handling, CarryOut
  <2> QED  BY <1>18, <2>1 DEF CarryOut, channel, control, counters
<1>7. CASE MarkDelivery
  <2>1. (phase[job] # "absent" /\ sent) \in BOOLEAN
    OBVIOUS
  <2>2. delivered' \in [Jobs -> BOOLEAN]
    BY <1>7, <2>1 DEF MarkDelivery
  <2> QED  BY <1>7, <2>2 DEF MarkDelivery, channel, control, counters
<1>8. CASE Detach
  BY <1>8 DEF Detach, disk, worker, channel, counters
<1>9. ASSUME NEW j \in Jobs, Select(j) PROVE TypeOK'
  <2>1. offers' \in [Jobs -> Nat] /\ \A i \in Jobs : offers'[i] <= MaxOffers[i]
    <3>1. offers \in [Jobs -> Nat] /\ MaxOffers \in [Jobs -> Nat]
            /\ \A i \in Jobs : offers[i] <= MaxOffers[i]
      BY ConstantsAssumption
    <3>2. offers[j] < MaxOffers[j] /\ offers' = [offers EXCEPT ![j] = offers[j] + 1]
      BY <1>9 DEF Select
    <3> HIDE DEF TypeOK
    <3> QED  BY <3>1, <3>2
  <2> QED  BY <1>9, <2>1 DEF Select, disk, worker, channel
<1>10. ASSUME NEW j \in Jobs, Offer(j) PROVE TypeOK'
  <2>1. downlink' \in Seq(Jobs) /\ queued' \in Seq(Jobs)
    BY <1>10 DEF Offer
  <2> QED  BY <1>10, <2>1 DEF Offer, disk, worker, counters
<1>11. CASE Reject \/ Accept
  <2>1. Head(downlink) \in Jobs /\ Tail(downlink) \in Seq(Jobs)
    BY <1>11 DEF Reject, Accept
  <2>2. uplink' \in Seq(Reports)
    <3>1. \A kind \in {"accepted", "rejected"} :
            Append(uplink, [kind |-> kind, job |-> Head(downlink)]) \in Seq(Reports)
      BY <2>1, ReportTypes, ElementsOfAppend
    <3> QED  BY <1>11, <3>1 DEF Reject, Accept
  <2> QED  BY <1>11, <2>1, <2>2 DEF Reject, Accept, disk, worker, control, counters
<1>12. CASE DeliverResult
  <2>1. Report(job, outcome) \in Reports
    BY <1>12, ReportTypes DEF DeliverResult, WorkInv, Handling
  <2>2. /\ uplink' \in Seq(Reports) /\ link' = link /\ downlink' = downlink
    BY <1>12, <2>1, Sending DEF DeliverResult
  <2> QED  BY <1>12, <2>2 DEF DeliverResult, disk, control, counters
<1>13. CASE Observe
  <2>1. Head(uplink) \in Reports /\ uplink' \in Seq(Reports)
    BY <1>13, Receiving
  <2>2. Canonical(Head(uplink)) \in {"queued", "claimed"} \cup Terminal
    BY <2>1 DEF Canonical, Reports, Terminal
  <2>3. known' \in [Jobs -> {"queued", "claimed"} \cup Terminal]
    BY <1>13, <2>1, <2>2 DEF Observe
  <2>4. busy' \in BOOLEAN
    BY <1>13 DEF Observe
  <2> QED  BY <1>13, <2>1, <2>3, <2>4 DEF Observe, disk, worker, counters
<1>14. ASSUME NEW j \in Jobs, Resend(j) PROVE TypeOK'
  <2>1. Report(j, ResendStatus(j)) \in Reports
    BY ReportTypes DEF ResendStatus
  <2>2. /\ uplink' \in Seq(Reports) /\ link' = link /\ downlink' = downlink
    BY <1>14, <2>1, Sending DEF Resend
  <2> QED  BY <1>14, <2>2 DEF Resend, disk, control, counters
<1>15. CASE Drop \/ Crash
  <2>1. uplink' \in Seq(Reports)
    BY <1>15, WhatSurvives DEF Drop, Crash
  <2>2. link' \in BOOLEAN /\ sent' \in BOOLEAN /\ unreachable' \in BOOLEAN
    BY <1>15 DEF Drop, Crash, worker
  <2>3. downlink' \in Seq(Jobs) /\ drops' \in 0 .. MaxDrops /\ crashes' \in 0 .. MaxCrashes
    <3>1. CASE Drop
      BY <3>1, ConstantsAssumption DEF Drop
    <3>2. CASE Crash
      BY <3>2, ConstantsAssumption DEF Crash
    <3> QED  BY <1>15, <3>1, <3>2
  <2> QED  BY <1>15, <2>1, <2>2, <2>3 DEF Drop, Crash, disk, worker, control
<1>16. CASE RestartControlPlane
  <2>1. link' \in BOOLEAN /\ attached' \in BOOLEAN /\ busy' \in BOOLEAN
    BY <1>16 DEF RestartControlPlane
  <2>2. /\ uplink' \in Seq(Reports) /\ downlink' \in Seq(Jobs) /\ queued' \in Seq(Jobs)
        /\ drops' \in 0 .. MaxDrops
    BY <1>16, ConstantsAssumption DEF RestartControlPlane
  <2> QED  BY <1>16, <2>1, <2>2 DEF RestartControlPlane, disk, worker
<1>17. CASE UNCHANGED vars
  BY <1>17 DEF vars, disk, worker, channel, control, counters
<1> QED  BY <1>1, <1>2, <1>4, <1>5, <1>6, <1>7, <1>8, <1>9, <1>10, <1>11, <1>12, <1>13,
            <1>14, <1>15, <1>16, <1>17, <1>18, <1>3, NextCases DEF Silent

(* What was carried out stays so, whatever the record's phase goes back to. *)
LEMMA CarriedStays ==
  ASSUME Next
  PROVE  carried \subseteq carried'
<1>1. CASE CarryOut
  BY <1>1 DEF CarryOut
<1>2. CASE StartExecution \/ Succeed \/ FailJob \/ Replay \/ AnswerForOwner \/ Refuse
  BY <1>2 DEF StartExecution, Succeed, FailJob, Replay, AnswerForOwner, Refuse, Execute
<1>3. CASE Register \/ ListUndelivered \/ MarkResent \/ Reconciled \/ NoticeDrop
             \/ MarkDelivery \/ Restart \/ ConnectFails \/ HandshakeDies \/ Detach
             \/ (\E j \in Jobs : Select(j) \/ Offer(j))
  BY <1>3 DEF Register, ListUndelivered, MarkResent, Reconciled, NoticeDrop,
       MarkDelivery, Restart, ConnectFails, HandshakeDies, Detach, Select, Offer, disk
<1>4. CASE Reject \/ Accept \/ DeliverResult \/ Observe \/ (\E j \in Jobs : Resend(j))
             \/ Drop \/ RestartControlPlane \/ Crash
  BY <1>4 DEF Reject, Accept, DeliverResult, Observe, Resend, Drop,
       RestartControlPlane, Crash, disk
<1> QED  BY <1>1, <1>2, <1>3, <1>4, NextCases DEF Silent

LEMMA TruthStep ==
  ASSUME TypeOK, TruthInv, WorkInv, [Next]_vars
  PROVE  TruthInv'
<1>1. CASE UNCHANGED vars
  BY <1>1 DEF vars, disk, channel, control, TruthInv, Wire, Done
<1>2. CASE Next
  <2>1. \A j \in Jobs : Done(j) => Done(j)'
    BY <1>2, CarriedStays DEF Done
  <2>2. \A r \in Wire : r \in Reports
    BY DEF Wire, Elements, TypeOK
  <2>3. ASSUME known' = known,
               \A r \in Wire' \ Wire : /\ r \in Reports
                                       /\ Canonical(r) = "succeeded"
                                            => Done(r.job)'
        PROVE  TruthInv'
    <3>1. ASSUME NEW r \in Wire', Canonical(r) = "succeeded"
          PROVE  Done(r.job)'
      <4>1. CASE r \in Wire
        BY <2>1, <2>2, <3>1, <4>1, ReportTypes DEF TruthInv
      <4>2. CASE r \notin Wire
        BY <2>3, <3>1, <4>2
      <4> QED  BY <4>1, <4>2
    <3> QED  BY <2>1, <2>3, <3>1 DEF TruthInv, Canonical
  <2>4. CASE Silent
    <3>1. known' = known /\ Wire' = Wire
      BY <2>4, SilentStep DEF Wire
    <3> QED  BY <2>3, <3>1
  <2>5. CASE Reject \/ Accept
    <3>1. PICK kind \in {"accepted", "rejected"} :
            uplink' = Append(uplink, [kind |-> kind, job |-> Head(downlink)])
      BY <2>5 DEF Reject, Accept
    <3> DEFINE m == [kind |-> kind, job |-> Head(downlink)]
    <3>2. Head(downlink) \in Jobs
      BY <2>5 DEF Reject, Accept, TypeOK
    <3>3. m \in Reports /\ Canonical(m) # "succeeded"
      BY <3>2, ReportTypes DEF Canonical
    <3> HIDE DEF m
    <3>4. Wire' = Wire \cup {m}
      BY <3>1, <3>3, ElementsOfAppend DEF Wire, TypeOK, m
    <3>5. known' = known
      BY <2>5 DEF Reject, Accept, control
    <3> QED  BY <2>3, <3>3, <3>4, <3>5
  <2>6. CASE DeliverResult
    <3> DEFINE m == Report(job, outcome)
    <3>1. /\ job \in Jobs /\ outcome \in {"succeeded", "duplicate", "failed"}
          /\ outcome # "failed" => Done(job)
      BY <2>6 DEF DeliverResult, WorkInv, Handling, TypeOK
    <3>2. m \in Reports /\ m.job = job /\ m.kind = "result" /\ m.status = outcome
      BY <3>1, ReportTypes
    <3>3. Canonical(m) = "succeeded" => Done(m.job)
      BY <3>1, <3>2 DEF Canonical
    <3> HIDE DEF m
    <3>4. Wire' \subseteq Wire \cup {m}
      BY <2>6, <3>2, Sending DEF DeliverResult, m
    <3>5. known' = known
      BY <2>6 DEF DeliverResult, control
    <3> QED  BY <2>1, <2>3, <3>1, <3>2, <3>3, <3>4, <3>5
  <2>7. ASSUME NEW j \in Jobs, Resend(j) PROVE TruthInv'
    <3> DEFINE status == ResendStatus(j)
               m == Report(j, status)
    <3>1. /\ status \in {"succeeded", "duplicate", "failed"}
          /\ status # "failed" => Done(j)
      BY DEF ResendStatus, WorkInv, Done
    <3> HIDE DEF status
    <3>2. m \in Reports /\ m.job = j /\ m.kind = "result" /\ m.status = status
      BY <3>1, ReportTypes
    <3>3. Canonical(m) = "succeeded" => Done(m.job)
      BY <3>1, <3>2 DEF Canonical
    <3>4. SafeSend(m) /\ known' = known
      BY <2>7 DEF Resend, status, control
    <3> HIDE DEF m
    <3>5. Wire' \subseteq Wire \cup {m}
      BY <3>2, <3>4, Sending
    <3> QED  BY <2>1, <2>3, <3>2, <3>3, <3>4, <3>5
  <2>8. CASE Observe
    <3> DEFINE head == Head(uplink)
    <3>1. head \in Wire /\ head \in Reports /\ Wire' \subseteq Wire
      BY <2>8, Receiving
    <3>2. \A j \in Jobs : known'[j] = "succeeded" =>
            known[j] = "succeeded" \/ (j = head.job /\ Canonical(head) = "succeeded")
      BY <2>8, <3>1, ReportTypes DEF Observe, TypeOK
    <3> HIDE DEF head
    <3>3. ASSUME NEW j \in Jobs, known'[j] = "succeeded" PROVE Done(j)'
      BY <2>1, <3>1, <3>2, <3>3 DEF TruthInv
    <3>4. ASSUME NEW r \in Wire', Canonical(r) = "succeeded" PROVE Done(r.job)'
      <4>1. r \in Wire
        BY <3>1
      <4> QED  BY <2>1, <2>2, <3>4, <4>1, ReportTypes DEF TruthInv
    <3> QED  BY <3>3, <3>4 DEF TruthInv, Canonical
  <2>9. CASE Drop \/ Crash \/ RestartControlPlane
    <3>1. Wire' \subseteq Wire
      BY <2>9, WhatSurvives, ElementsOfNothing
         DEF Drop, Crash, RestartControlPlane, Wire
    <3>2. known' = known
      BY <2>9 DEF Drop, Crash, RestartControlPlane, control
    <3> QED  BY <2>3, <3>1, <3>2
  <2> QED  BY <1>2, <2>4, <2>5, <2>6, <2>7, <2>8, <2>9, NextCases
<1> QED  BY <1>1, <1>2

LEMMA WorkStep ==
  ASSUME TypeOK, WorkInv, [Next]_vars
  PROVE  WorkInv'
<1> USE DEF WorkInv, TypeOK, Goto, Done
<1>1. CASE Register \/ ListUndelivered \/ Reconciled \/ NoticeDrop \/ Restart
             \/ HandshakeDies \/ MarkResent \/ MarkDelivery \/ Crash
  <2>1. pc' \notin Handling /\ UNCHANGED <<phase, carried>>
    BY <1>1 DEF Register, ListUndelivered, Reconciled, NoticeDrop, Restart, Crash,
                HandshakeDies, MarkResent, MarkDelivery, Handling, disk
  <2> QED  BY <2>1 DEF Handling
<1>2. CASE ConnectFails \/ Detach \/ Observe \/ Reject
             \/ \E j \in Jobs : Select(j) \/ Offer(j)
  <2>1. UNCHANGED <<pc, job, phase, carried, outcome, link, sent>>
    BY <1>2 DEF ConnectFails, Detach, Observe, Reject, Select, Offer, disk, worker, channel
  <2> QED  BY <2>1
<1>3. CASE StartExecution
  BY <1>3 DEF StartExecution, Handling
<1>4. CASE CarryOut
  BY <1>4 DEF CarryOut, Handling
<1>10. CASE Succeed \/ FailJob
  BY <1>10 DEF Succeed, FailJob, Execute, Handling
<1>11. CASE Replay
  BY <1>11 DEF Replay, Execute, Handling
<1>12. CASE AnswerForOwner
  <2>1. PICK o \in Jobs : phase[o] = "completed" /\ Identity[o] = Identity[job]
    BY <1>12 DEF AnswerForOwner, Owner
  <2>2. phase' = phase /\ carried' = carried /\ job' = job /\ pc' = "reporting"
          /\ outcome' = "duplicate" /\ job \in Jobs
    BY <1>12 DEF AnswerForOwner, Execute, Handling
  <2> QED  BY <2>1, <2>2 DEF Handling
<1>13. CASE Refuse
  BY <1>13 DEF Refuse, Execute, Handling
<1>5. CASE Accept
  <2>1. Head(downlink) \in Jobs
    BY <1>5 DEF Accept
  <2> QED  BY <1>5, <2>1 DEF Accept, Handling, disk
<1>6. CASE DeliverResult
  BY <1>6 DEF DeliverResult, SafeSend, Handling, disk
<1>7. ASSUME NEW j \in Jobs, Resend(j) PROVE WorkInv'
  BY <1>7 DEF Resend, Handling, disk
<1>8. CASE Drop \/ RestartControlPlane
  <2>1. UNCHANGED <<pc, job, phase, carried, outcome>> /\ ~link'
    BY <1>8 DEF Drop, RestartControlPlane, disk, worker
  <2> QED  BY <2>1
<1>9. CASE UNCHANGED vars
  BY <1>9 DEF vars, disk, worker, channel
<1> QED  BY <1>1, <1>2, <1>3, <1>4, <1>5, <1>6, <1>7, <1>8, <1>9, <1>10, <1>11,
            <1>12, <1>13, NextCases DEF Silent

LEMMA OweStep ==
  ASSUME TypeOK, WorkInv, OweInv, [Next]_vars
  PROVE  OweInv'
<1> USE DEF OweInv, Owed, TypeOK, Goto
<1>1. CASE \/ Drop \/ RestartControlPlane \/ Crash
  BY <1>1 DEF Drop, RestartControlPlane, Crash
<1>2. CASE Register \/ NoticeDrop \/ Restart \/ HandshakeDies
  BY <1>2 DEF Register, NoticeDrop, Restart, HandshakeDies, channel
<1>3. CASE ConnectFails \/ Detach \/ Observe \/ Reject
             \/ \E j \in Jobs : Select(j) \/ Offer(j)
  <2>1. UNCHANGED <<pc, job, phase, delivered, link, pending>>
    BY <1>3 DEF ConnectFails, Detach, Observe, Reject, Select, Offer, disk, worker, channel
  <2> QED  BY <2>1
<1>4. CASE ListUndelivered
  BY <1>4 DEF ListUndelivered, disk, channel
<1>5. ASSUME NEW j \in Jobs, Resend(j) PROVE OweInv'
  BY <1>5 DEF Resend, SafeSend, disk
<1>6. CASE MarkResent
  BY <1>6 DEF MarkResent, channel
<1>7. CASE Reconciled
  BY <1>7 DEF Reconciled, disk, channel
<1>8. CASE Accept
  BY <1>8 DEF Accept, disk
<1>9. CASE StartExecution
  BY <1>9 DEF StartExecution, channel, WorkInv, Handling
<1>10. CASE CarryOut \/ Succeed \/ FailJob \/ Replay
             \/ AnswerForOwner \/ Refuse
  BY <1>10 DEF CarryOut, Succeed, FailJob, Replay, AnswerForOwner, Refuse, Execute, channel, WorkInv, Handling
<1>11. CASE DeliverResult
  BY <1>11 DEF DeliverResult, SafeSend, disk
<1>12. CASE MarkDelivery
  <2>1. /\ pc = "marking" /\ job \in Jobs /\ link' = link /\ phase' = phase
        /\ pc' = "ready" /\ link => sent
    BY <1>12 DEF MarkDelivery, WorkInv, Handling, channel
  <2>2. ASSUME NEW j \in Jobs, link
        PROVE  phase[j] \in TerminalPhases => delivered'[j]
    BY <1>12, <2>1, <2>2 DEF MarkDelivery, TerminalPhases
  <2> QED  BY <2>1, <2>2
<1>13. CASE UNCHANGED vars
  BY <1>13 DEF vars, disk, worker, channel
<1> QED  BY <1>1, <1>2, <1>3, <1>4, <1>5, <1>6, <1>7, <1>8, <1>9, <1>10, <1>11, <1>12,
            <1>13, NextCases DEF Silent

(* Where nothing is lost, what has reached the control plane stays there.    *)
LEMMA ReachedStays ==
  ASSUME TypeOK, WorkInv, ~lossy, Next
  PROVE  \A j \in Jobs : Reached(j) => Reached(j)'
<1>1. CASE Observe
  <2> DEFINE head == Head(uplink)
  <2>1. head \in Reports /\ Wire = {head} \cup Wire'
    BY <1>1, Receiving
  <2>2. known' = IF known[head.job] \in Terminal THEN known
                 ELSE [known EXCEPT ![head.job] = Canonical(head)]
    BY <1>1 DEF Observe
  <2>3. head.job \in Jobs /\ Canonical(head) \in {"claimed"} \cup Terminal
          /\ (head.kind = "result" => Canonical(head) \in Terminal)
    BY <2>1, ReportTypes DEF Canonical, Terminal, Reports
  <2> HIDE DEF head
  <2>4. \A j \in Jobs : known[j] \in Terminal => known'[j] \in Terminal
    BY <2>2, <2>3 DEF TypeOK
  <2>5. head.kind = "result" => known'[head.job] \in Terminal
    BY <2>2, <2>3 DEF TypeOK
  <2> QED  BY <2>1, <2>4, <2>5 DEF Reached
<1>2. CASE ~Observe
  <2>1. known' = known /\ Wire \subseteq Wire'
    <3>1. CASE Silent
      BY <3>1, SilentStep DEF Wire
    <3>2. CASE Reject \/ Accept
      <4>1. PICK kind \in {"accepted", "rejected"} :
              uplink' = Append(uplink, [kind |-> kind, job |-> Head(downlink)])
        BY <3>2 DEF Reject, Accept
      <4>2. [kind |-> kind, job |-> Head(downlink)] \in Reports
        BY <3>2, ReportTypes DEF Reject, Accept, TypeOK
      <4>3. Wire \subseteq Wire'
        BY <4>1, <4>2, ElementsOfAppend DEF Wire, TypeOK
      <4> QED  BY <3>2, <4>3 DEF Reject, Accept, control
    <3>3. CASE DeliverResult
      <4>1. Report(job, outcome) \in Reports
        BY <3>3, ReportTypes DEF DeliverResult, WorkInv, Handling, TypeOK
      <4> QED  BY <3>3, <4>1, Sending DEF DeliverResult, control
    <3>4. ASSUME NEW j \in Jobs, Resend(j) PROVE known' = known /\ Wire \subseteq Wire'
      <4>1. Report(j, ResendStatus(j)) \in Reports
        BY ReportTypes DEF ResendStatus
      <4> QED  BY <3>4, <4>1, Sending DEF Resend, control
    <3>5. CASE Drop \/ Crash
      BY <3>5, WhatSurvives DEF Drop, Crash, control, Wire
    <3>6. CASE RestartControlPlane
      BY <3>6 DEF RestartControlPlane
    <3> QED  BY <1>2, <3>1, <3>2, <3>3, <3>4, <3>5, <3>6, NextCases
  <2> QED  BY <2>1 DEF Reached
<1> QED  BY <1>1, <1>2

LEMMA ReachStep ==
  ASSUME TypeOK, WorkInv, ReachInv, [Next]_vars
  PROVE  ReachInv'
<1>0. WorkInv'
  BY WorkStep
<1> SUFFICES ASSUME ~lossy', NEW j \in Jobs,
                    \/ delivered'[j]
                    \/ j = job' /\ pc' = "marking_resent"
                    \/ j = job' /\ pc' = "marking" /\ sent'
             PROVE  Reached(j)'
  BY <1>0 DEF ReachInv, WorkInv, Handling
<1>1. CASE UNCHANGED vars
  BY <1>1 DEF vars, disk, worker, channel, control, counters, ReachInv, Reached, Wire
<1>2. CASE Next
  <2>0. ~lossy
    BY <1>2, NextCases DEF Silent, Register, ListUndelivered, MarkResent, Reconciled,
       NoticeDrop, StartExecution, CarryOut, Succeed, FailJob, Replay,
       AnswerForOwner, Refuse, Execute,
       MarkDelivery, Restart, ConnectFails, HandshakeDies, Detach, Select, Offer,
       Reject, Accept, DeliverResult, Observe, Resend, Drop, RestartControlPlane,
       Crash, counters
  <2>1. \A i \in Jobs : Reached(i) => Reached(i)'
    BY <1>2, <2>0, ReachedStays
  <2>2. ASSUME \/ delivered[j]
               \/ j = job /\ pc = "marking_resent"
               \/ j = job /\ pc = "marking" /\ sent
        PROVE  Reached(j)'
    BY <2>0, <2>1, <2>2 DEF ReachInv
  <2> USE DEF TypeOK, Goto
  <2>3. CASE MarkResent
    BY <2>2, <2>3 DEF MarkResent
  <2>4. CASE MarkDelivery
    BY <2>2, <2>4 DEF MarkDelivery
  <2>5. CASE DeliverResult
    <3>1. job \in Jobs /\ outcome \in {"succeeded", "duplicate", "failed"}
      BY <2>5 DEF DeliverResult, WorkInv, Handling
    <3> DEFINE m == Report(job, outcome)
    <3>2. m \in Reports /\ m.kind = "result" /\ m.job = job
      BY <3>1, ReportTypes
    <3>3. link => m \in Wire'
      BY <2>5, <3>2, Sending DEF DeliverResult
    <3> HIDE DEF m
    <3>4. pc' = "marking" /\ job' = job /\ sent' = link /\ delivered' = delivered
      BY <2>5 DEF DeliverResult, disk
    <3> QED  BY <2>2, <3>2, <3>3, <3>4 DEF Reached
  <2>6. ASSUME NEW k \in Jobs, Resend(k)
        PROVE  Reached(j)'
    <3> DEFINE m == Report(k, ResendStatus(k))
    <3>1. m \in Reports /\ m.kind = "result" /\ m.job = k
      BY ReportTypes DEF ResendStatus
    <3>2. link => m \in Wire'
      BY <2>6, <3>1, Sending DEF Resend
    <3> HIDE DEF m
    <3>3. /\ pc = "resending" /\ delivered' = delivered
          /\ IF link THEN pc' = "marking_resent" /\ job' = k ELSE pc' = pc
      BY <2>6 DEF Resend, disk
    <3> QED  BY <2>2, <3>1, <3>2, <3>3 DEF Reached
  <2>7. CASE Silent /\ ~MarkResent /\ ~MarkDelivery
    <3>1. /\ delivered' = delivered
          /\ \/ pc' \notin {"marking_resent", "marking"}
             \/ pc' = pc /\ job' = job /\ sent' = sent
      BY <2>7 DEF Silent, Register, ListUndelivered, Reconciled,
         NoticeDrop, StartExecution, CarryOut, Succeed, FailJob, Replay,
       AnswerForOwner, Refuse, Execute,
         Restart, ConnectFails, HandshakeDies, Detach, Select, Offer, disk, worker
    <3> QED  BY <2>2, <3>1
  <2>8. CASE Reject \/ Accept \/ Observe \/ Drop \/ RestartControlPlane \/ Crash
    <3>1. /\ delivered' = delivered
          /\ \/ pc' \notin {"marking_resent", "marking"}
             \/ pc' = pc /\ job' = job /\ sent' = sent
      BY <2>8 DEF Reject, Accept, Observe, Drop, RestartControlPlane, Crash, disk, worker
    <3> QED  BY <2>2, <3>1
  <2> QED  BY <1>2, <2>3, <2>4, <2>5, <2>6, <2>7, <2>8, NextCases
<1> QED  BY <1>1, <1>2

-------------------------------------------------------------------------------
(* Journal, worker, wire and records agree in every reachable state.         *)
THEOREM Invariance == Spec => []IndInv
<1>1. IndInv /\ [Next]_vars => IndInv'
  BY TypeStep, TruthStep, WorkStep, OweStep, ReachStep DEF IndInv
<1> QED  BY InitInv, <1>1, PTL DEF Spec

(* Every variable has its type, in every reachable state. *)
THEOREM TypeCorrect == Spec => []TypeOK
<1>1. IndInv => TypeOK
  BY DEF IndInv
<1> QED  BY Invariance, <1>1, PTL

LEMMA OnTheWire ==
  ASSUME NEW j \in Jobs
  PROVE  InFlight(j) = {r \in Wire : r.job = j}
BY DEF InFlight, Wire, Elements

(* A record says "succeeded", or a report that will make it say so is under  *)
(* way, only of a job some record of its identity holds as carried out,      *)
(* however often results are lost, resent (reconcile) and repeated, and      *)
(* though the answer to a repeated offer may take a completed record back to *)
(* an earlier phase (capability_executor.py, the pictures of the result).    *)
THEOREM ReportsAreHonest == Spec => []ReportsAreTrue
<1>1. IndInv => ReportsAreTrue
  BY OnTheWire DEF IndInv, TruthInv, ReportsAreTrue, Done
<1> QED  BY Invariance, <1>1, PTL

(* Once reconcile() is through and the connection lives, the worker waits    *)
(* for work with every ending of its journal handed over.                    *)
THEOREM ReadyOwesNothing == Spec => []OwesNothingWhenReady
<1>1. IndInv => OwesNothingWhenReady
  BY DEF IndInv, OweInv, Owed, OwesNothingWhenReady
<1> QED  BY Invariance, <1>1, PTL

(* result_delivered is true of a result only if the control plane has it or  *)
(* is about to read it, unless a failure lost what had been sent.            *)
THEOREM FlagIsTrue == Spec => []DeliveredMeansReached
<1>1. IndInv => DeliveredMeansReached
  BY OnTheWire DEF IndInv, ReachInv, Reached, DeliveredMeansReached, Answered
<1> QED  BY Invariance, <1>1, PTL

-------------------------------------------------------------------------------
(* SceneVersion. *)

(* Numbers. *)

(* Rounding moves a number by half a quantum at most. *)
LEMMA RoundingIsNear ==
  ASSUME NEW value \in Int
  PROVE  /\ RoundHalfEven(value) \in Int
         /\ 2 * Apart(Quantum * RoundHalfEven(value), value) <= Quantum
<1> DEFINE floor == value \div 4
           diff == value - 4 * floor
<1>1. floor \in Int /\ diff \in 0 .. 3
  OBVIOUS
<1>2. RoundHalfEven(value) = CASE 2 * diff > 4 -> floor + 1
                               [] 2 * diff < 4 -> floor
                               [] OTHER -> IF floor % 2 = 0 THEN floor ELSE floor + 1
  BY DEF RoundHalfEven, Quantum
<1>3. \/ diff = 3 /\ RoundHalfEven(value) = floor + 1
      \/ diff \in {0, 1} /\ RoundHalfEven(value) = floor
      \/ diff = 2 /\ RoundHalfEven(value) \in {floor, floor + 1}
  BY <1>1, <1>2
<1>4. value = 4 * floor + diff
  BY <1>1
<1> HIDE DEF floor, diff
<1> QED  BY <1>1, <1>3, <1>4 DEF Apart, Quantum

LEMMA SameRoundingIsNear ==
  ASSUME NEW x \in Int, NEW y \in Int, RoundHalfEven(x) = RoundHalfEven(y)
  PROVE  Apart(x, y) <= Quantum
BY RoundingIsNear DEF Apart, Quantum

-------------------------------------------------------------------------------
(* The order of the digest. *)

Keys == {0, 1} \X Texts

LEMMA KeysAreOrdered ==
  /\ \A k \in Keys : ~Before(k, k)
  /\ \A k, l, m \in Keys : Before(k, l) /\ Before(l, m) => Before(k, m)
  /\ \A k, l \in Keys : k = l \/ Before(k, l) \/ Before(l, k)
<1>1. \A k \in Keys : k[1] \in {0, 1} /\ k[2] \in Texts /\ k = <<k[1], k[2]>>
  BY DEF Keys
<1>2. \A k \in Keys : Rank[k[2]] \in Nat
  BY <1>1, RanksOrder
<1>3. \A k, l \in Keys : Rank[k[2]] = Rank[l[2]] => k[2] = l[2]
  BY <1>1, RanksOrder
<1>4. \A k, l \in Keys : k[1] = l[1] /\ k[2] = l[2] => k = l
  BY <1>1
<1> HIDE DEF Keys
<1> QED  BY <1>1, <1>2, <1>3, <1>4 DEF Before

(* Objects that can be told apart: what the digest insists on. *)
Distinct(a) ==
  /\ a \in Seq(Objects)
  /\ \A i \in DOMAIN a : a[i].name # Blank
  /\ \A i, j \in DOMAIN a : SortKey(a[i]) = SortKey(a[j]) => i = j

Lower(a, i) == {j \in DOMAIN a : Before(SortKey(a[j]), SortKey(a[i]))}
Place(a, i) == Cardinality(Lower(a, i)) + 1

LEMMA KeysOfDistinct ==
  ASSUME NEW a, Distinct(a), NEW i \in DOMAIN a
  PROVE  SortKey(a[i]) \in Keys
<1>1. a[i] \in Objects /\ a[i].name # Blank
  BY DEF Distinct
<1>2. a[i].name \in Texts
  BY <1>1 DEF Objects, Names
<1>3. \/ SortKey(a[i]) = <<0, a[i].id>> /\ a[i].id \in Texts
      \/ SortKey(a[i]) = <<1, a[i].name>>
  BY DEF SortKey, HasStableId
<1>4. \A t \in Texts : <<0, t>> \in Keys /\ <<1, t>> \in Keys
  BY DEF Keys
<1> QED  BY <1>2, <1>3, <1>4

LEMMA LowerIsFinite ==
  ASSUME NEW a, Distinct(a)
  PROVE  /\ IsFiniteSet(DOMAIN a) /\ Cardinality(DOMAIN a) = Len(a)
         /\ \A i \in DOMAIN a : /\ IsFiniteSet(Lower(a, i)) /\ i \notin Lower(a, i)
                                /\ Place(a, i) \in 1 .. Len(a)
<1>1. Len(a) \in Nat /\ DOMAIN a = 1 .. Len(a)
  BY DEF Distinct
<1>2. IsFiniteSet(DOMAIN a) /\ Cardinality(DOMAIN a) = Len(a)
  <2>1. 1 \in Int /\ Len(a) \in Int
    BY <1>1
  <2>2. IsFiniteSet(1 .. Len(a)) /\ Cardinality(1 .. Len(a)) = Len(a)
    BY <1>1, <2>1, FS_Interval, SMTT(30)
  <2> QED  BY <1>1, <2>2
<1>3. ASSUME NEW i \in DOMAIN a
      PROVE  /\ IsFiniteSet(Lower(a, i)) /\ i \notin Lower(a, i)
             /\ Place(a, i) \in 1 .. Len(a)
  <2>1. i \notin Lower(a, i)
    BY KeysOfDistinct, KeysAreOrdered DEF Lower
  <2>2. Lower(a, i) \in SUBSET (DOMAIN a \ {i})
    BY <2>1 DEF Lower
  <2>3. IsFiniteSet(DOMAIN a \ {i}) /\ Cardinality(DOMAIN a \ {i}) = Len(a) - 1
    BY <1>2, FS_RemoveElement
  <2>4. IsFiniteSet(Lower(a, i)) /\ Cardinality(Lower(a, i)) <= Len(a) - 1
    BY <2>2, <2>3, FS_Subset
  <2>5. Cardinality(Lower(a, i)) \in Nat
    BY <2>4, FS_CardinalityType
  <2> QED  BY <1>1, <2>1, <2>4, <2>5 DEF Place
<1> QED  BY <1>2, <1>3

LEMMA PlacesDiffer ==
  ASSUME NEW a, Distinct(a), NEW i \in DOMAIN a, NEW j \in DOMAIN a, Place(a, i) = Place(a, j)
  PROVE  i = j
<1> SUFFICES ASSUME i # j PROVE FALSE
  OBVIOUS
<1>1. SortKey(a[i]) # SortKey(a[j])
  BY DEF Distinct
<1>2. Before(SortKey(a[i]), SortKey(a[j])) \/ Before(SortKey(a[j]), SortKey(a[i]))
  BY <1>1, KeysOfDistinct, KeysAreOrdered
<1>3. ASSUME NEW k \in DOMAIN a, NEW l \in DOMAIN a, Before(SortKey(a[k]), SortKey(a[l]))
      PROVE  Place(a, k) # Place(a, l)
  <2>1. Lower(a, k) \subseteq Lower(a, l)
    BY <1>3, KeysOfDistinct, KeysAreOrdered DEF Lower
  <2>2. k \in Lower(a, l) /\ k \notin Lower(a, k)
    BY <1>3, LowerIsFinite DEF Lower
  <2>3. Cardinality(Lower(a, l)) # Cardinality(Lower(a, k))
    BY <2>1, <2>2, LowerIsFinite, FS_Subset
  <2>4. Cardinality(Lower(a, l)) \in Nat /\ Cardinality(Lower(a, k)) \in Nat
    BY LowerIsFinite, FS_CardinalityType
  <2> QED  BY <2>3, <2>4 DEF Place
<1> QED  BY <1>2, <1>3

(* Every place is taken, so that the digest lists every object once. *)
LEMMA PlacesAreTaken ==
  ASSUME NEW a, Distinct(a), NEW n \in DOMAIN a
  PROVE  \E i \in DOMAIN a : Place(a, i) = n
<1> DEFINE D == 1 .. Len(a)
           f == [i \in D |-> Place(a, i)]
<1>1. Len(a) \in Nat /\ DOMAIN a = D
  BY DEF Distinct
<1>2. f \in Injection(D, D)
  <2>1. f \in [D -> D]
    BY <1>1, LowerIsFinite
  <2>2. \A i, j \in D : f[i] = f[j] => i = j
    BY <1>1, PlacesDiffer
  <2> QED  BY <2>1, <2>2 DEF Injection, IsInjective
<1>3. IsFiniteSet(D)
  BY <1>1, FS_Interval
<1> HIDE DEF D, f
<1>4. f \in Surjection(D, D)
  BY <1>2, <1>3, FS_Injection
<1>5. \E i \in D : f[i] = n
  BY <1>1, <1>4 DEF Surjection
<1> QED  BY <1>1, <1>5 DEF f, D

LEMMA OrderedByPlace ==
  ASSUME NEW a, Distinct(a)
  PROVE  /\ Ordered(a) = [n \in DOMAIN a |-> Ordered(a)[n]]
         /\ \A i \in DOMAIN a : Place(a, i) \in DOMAIN a /\ Ordered(a)[Place(a, i)] = a[i]
<1>1. ASSUME NEW i \in DOMAIN a
      PROVE  Place(a, i) \in DOMAIN a /\ Ordered(a)[Place(a, i)] = a[i]
  <2>1. Place(a, i) \in DOMAIN a
    BY LowerIsFinite DEF Distinct
  <2>2. \A j \in DOMAIN a : Cardinality(Lower(a, j)) \in Nat
    BY LowerIsFinite, FS_CardinalityType
  <2>3. \A j \in DOMAIN a : Cardinality(Lower(a, j)) = Place(a, i) - 1 <=> j = i
    BY <2>2, PlacesDiffer DEF Place
  <2>4. Ordered(a)[Place(a, i)] =
          a[CHOOSE j \in DOMAIN a : Cardinality(Lower(a, j)) = Place(a, i) - 1]
    BY <2>1 DEF Ordered, Lower
  <2> QED  BY <2>1, <2>3, <2>4
<1>2. Ordered(a) = [n \in DOMAIN a |-> Ordered(a)[n]]
  BY DEF Ordered
<1> QED  BY <1>1, <1>2

(* Sequences of objects that can be told apart and of the same objects are as *)
(* long as one another, and so are such parts of them.                        *)
LEMMA SameObjectsSameNumber ==
  ASSUME NEW a, Distinct(a), NEW b, Distinct(b),
         NEW S \in SUBSET DOMAIN a, NEW T \in SUBSET DOMAIN b,
         \A i \in S : \E j \in T : a[i] = b[j],
         \A j \in T : \E i \in S : a[i] = b[j]
  PROVE  Cardinality(S) = Cardinality(T)
<1> DEFINE f == [i \in S |-> CHOOSE j \in T : a[i] = b[j]]
<1>1. \A i \in S : f[i] \in T /\ a[i] = b[f[i]]
  OBVIOUS
<1>2. \A i, j \in DOMAIN a : a[i] = a[j] => i = j
  BY DEF Distinct
<1>3. \A i, j \in DOMAIN b : b[i] = b[j] => i = j
  BY DEF Distinct
<1>4. f \in [S -> T]
  BY <1>1
<1> HIDE DEF f
<1>5. \A i, j \in S : f[i] = f[j] => i = j
  BY <1>1, <1>2
<1>6. \A j \in T : \E i \in S : f[i] = j
  BY <1>1, <1>3
<1>7. f \in Bijection(S, T)
  BY <1>4, <1>5, <1>6 DEF Bijection, Injection, Surjection, IsInjective
<1>8. IsFiniteSet(S)
  BY LowerIsFinite, FS_Subset
<1> QED  BY <1>7, <1>8, FS_Bijection DEF ExistsBijection

(* The digest does not depend on the order in which Blender lists objects. *)
LEMMA OrderedIsOfTheSet ==
  ASSUME NEW a, Distinct(a), NEW b, Distinct(b),
         {a[i] : i \in DOMAIN a} = {b[i] : i \in DOMAIN b}
  PROVE  Ordered(a) = Ordered(b)
<1>1. /\ \A i \in DOMAIN a : \E j \in DOMAIN b : a[i] = b[j]
      /\ \A j \in DOMAIN b : \E i \in DOMAIN a : a[i] = b[j]
  OBVIOUS
<1>2. DOMAIN a = DOMAIN b
  <2>1. Cardinality(DOMAIN a) = Cardinality(DOMAIN b)
    BY <1>1, SameObjectsSameNumber
  <2>2. Len(a) = Len(b)
    BY <2>1, LowerIsFinite
  <2> QED  BY <2>2 DEF Distinct
<1>3. ASSUME NEW i \in DOMAIN a, NEW j \in DOMAIN b, a[i] = b[j]
      PROVE  Place(a, i) = Place(b, j)
  <2>1. Lower(a, i) \in SUBSET DOMAIN a /\ Lower(b, j) \in SUBSET DOMAIN b
    BY DEF Lower
  <2>2. \A k \in Lower(a, i) : \E l \in Lower(b, j) : a[k] = b[l]
    BY <1>1, <1>3 DEF Lower
  <2>3. \A l \in Lower(b, j) : \E k \in Lower(a, i) : a[k] = b[l]
    BY <1>1, <1>3 DEF Lower
  <2>4. Cardinality(Lower(a, i)) = Cardinality(Lower(b, j))
    BY <2>1, <2>2, <2>3, SameObjectsSameNumber
  <2> QED  BY <2>4 DEF Place
<1>4. ASSUME NEW n \in DOMAIN a PROVE Ordered(a)[n] = Ordered(b)[n]
  <2>1. PICK i \in DOMAIN a : Place(a, i) = n
    BY PlacesAreTaken
  <2>2. PICK j \in DOMAIN b : a[i] = b[j]
    BY <1>1
  <2>3. Place(b, j) = n
    BY <1>3, <2>1, <2>2
  <2> QED  BY <2>1, <2>2, <2>3, OrderedByPlace
<1> QED  BY <1>2, <1>4, OrderedByPlace

-------------------------------------------------------------------------------
(* Versions. *)

Scenes == [units : Units, objects : Seq(Objects)]

(* What the worker lets through. *)
Reported(scene) ==
  /\ scene \in Scenes /\ Understood(scene) /\ Digestible(scene)
  /\ \A i \in DOMAIN scene.objects : scene.objects[i].id # Empty

LEMMA ReportedAreDistinct ==
  ASSUME NEW scene, Reported(scene) PROVE Distinct(scene.objects)
BY DEF Reported, Scenes, Digestible, Distinct

LEMMA SameObjectsSameVersion ==
  ASSUME NEW scene, Reported(scene), NEW other, Reported(other),
         scene.units = other.units, Objectlike(scene) = Objectlike(other)
  PROVE  Version(scene) = Version(other)
<1>1. Ordered(scene.objects) = Ordered(other.objects)
  BY ReportedAreDistinct, OrderedIsOfTheSet DEF Objectlike
<1> QED  BY <1>1 DEF Version

(* Objects the digest takes for one differ by a quantum at most. *)
LEMMA SameProjection ==
  ASSUME NEW o \in Objects, NEW p \in Objects, Finite(o), Finite(p),
         Projection(o) = Projection(p)
  PROVE  Kind(o) = Kind(p) /\ Apart(o.at, p.at) <= Quantum
<1>1. /\ o.id = p.id /\ o.name = p.name /\ o.type = p.type
      /\ o.flat = p.flat /\ o.material = p.material
      /\ RoundHalfEven(o.at) = RoundHalfEven(p.at)
  BY DEF Projection
<1>2. o.at \in Int /\ p.at \in Int
  BY ScenesAssumption DEF Objects
<1>3. \A q \in Objects :
        Kind(q) = [name |-> q.name, id |-> q.id, type |-> q.type, at |-> 0,
                   finite |-> q.finite, flat |-> q.flat, material |-> q.material]
  BY DEF Objects, Kind
<1>4. o.finite = p.finite
  BY DEF Finite, Objects
<1>5. Kind(o) = Kind(p)
  BY <1>1, <1>3, <1>4
<1> QED  BY <1>1, <1>2, <1>5, SameRoundingIsNear

LEMMA SameVersionSameScene ==
  ASSUME NEW scene, Reported(scene), NEW other, Reported(other),
         Version(scene) = Version(other)
  PROVE  SameButForAQuantum(scene, other)
<1> DEFINE a == scene.objects
           b == other.objects
<1>1. Distinct(a) /\ Distinct(b)
  BY ReportedAreDistinct
<1>2. DOMAIN Ordered(a) = DOMAIN a /\ DOMAIN Ordered(b) = DOMAIN b
  BY DEF Ordered
<1>3. /\ scene.units = other.units
      /\ [n \in DOMAIN a |-> Projection(Ordered(a)[n])]
           = [n \in DOMAIN b |-> Projection(Ordered(b)[n])]
  BY <1>2 DEF Version
<1>4. DOMAIN a = DOMAIN b
  BY <1>3
<1>5. Len(a) = Len(b)
  BY <1>1, <1>4 DEF Distinct
<1>6. \A n \in DOMAIN a : Projection(Ordered(a)[n]) = Projection(Ordered(b)[n])
  BY <1>3, <1>4
<1>7. ASSUME NEW i \in DOMAIN a
      PROVE  \E j \in DOMAIN b : Kind(a[i]) = Kind(b[j]) /\ Apart(a[i].at, b[j].at) <= Quantum
  <2>1. Place(a, i) \in DOMAIN a /\ Ordered(a)[Place(a, i)] = a[i]
    BY <1>1, OrderedByPlace
  <2>2. PICK j \in DOMAIN b : Place(b, j) = Place(a, i)
    BY <1>1, <1>4, <2>1, PlacesAreTaken
  <2>3. Ordered(b)[Place(a, i)] = b[j]
    BY <1>1, <2>2, OrderedByPlace
  <2>4. Projection(a[i]) = Projection(b[j])
    BY <1>6, <2>1, <2>3
  <2>5. a[i] \in Objects /\ b[j] \in Objects
    BY <1>1 DEF Distinct
  <2>6. Finite(a[i]) /\ Finite(b[j])
    BY DEF Reported, Understood
  <2> QED  BY <2>4, <2>5, <2>6, SameProjection
<1> QED  BY <1>3, <1>5, <1>7 DEF SameButForAQuantum, Objectlike

-------------------------------------------------------------------------------
(* What the worker reads and reports. *)

LEMMA NormalisedIsAScene ==
  ASSUME NEW scene \in Scenes
  PROVE  /\ Normalised(scene) \in Scenes /\ Normalised(scene).units = scene.units
         /\ DOMAIN Normalised(scene).objects = DOMAIN scene.objects
         /\ \A i \in DOMAIN scene.objects :
              /\ Normalised(scene).objects[i].id # Empty
              /\ Normalised(scene).objects[i].finite = scene.objects[i].finite
              /\ Normalised(scene).objects[i].material = scene.objects[i].material
<1> DEFINE objects == [i \in DOMAIN scene.objects |-> Normal(scene.objects[i])]
<1>1. \A o \in Objects : /\ Normal(o) \in Objects /\ Normal(o).id # Empty
                         /\ Normal(o).finite = o.finite /\ Normal(o).material = o.material
  BY DEF Normal, Objects, Ids, Absent, Empty
<1>2. scene.units \in Units /\ scene.objects \in Seq(Objects)
  BY DEF Scenes
<1>3. \A i \in DOMAIN scene.objects : scene.objects[i] \in Objects
  BY <1>2
<1>4. objects \in Seq(Objects) /\ DOMAIN objects = DOMAIN scene.objects
  BY <1>1, <1>2
<1>5. Normalised(scene) = [units |-> scene.units, objects |-> objects]
  BY DEF Normalised, Scenes
<1> HIDE DEF objects
<1>6. Normalised(scene) \in Scenes /\ Normalised(scene).units = scene.units
      /\ Normalised(scene).objects = objects
  BY <1>2, <1>4, <1>5 DEF Scenes
<1>7. \A i \in DOMAIN scene.objects : objects[i] = Normal(scene.objects[i])
  BY DEF objects
<1> QED  BY <1>1, <1>3, <1>4, <1>6, <1>7

LEMMA ReadIsReported ==
  ASSUME NEW scene \in Scenes, Read(scene) PROVE Reported(Normalised(scene))
<1>1. Understood(Normalised(scene))
  BY NormalisedIsAScene DEF Read, Understood, Finite, MaterialOk
<1> QED  BY <1>1, NormalisedIsAScene DEF Read, Reported

-------------------------------------------------------------------------------
(* The inductive invariant. *)

ReportsItsVersion(report) ==
  Reported(report.scene) /\ report.version = Version(report.scene)

SceneInv ==
  /\ blend \in Scenes
  /\ cache = NoSnapshot \/ ReportsItsVersion(cache)
  /\ plan = NoPlan \/ (Reported(plan.seen) /\ plan.version = Version(plan.seen))

LEMMA BecomePreserves ==
  ASSUME SceneInv, NEW objects \in Seq(Objects), Become(objects) PROVE SceneInv'
<1>1. blend' = [blend EXCEPT !.objects = objects] /\ cache' = cache /\ plan' = plan
  BY DEF Become
<1>2. blend' \in Scenes
  BY <1>1 DEF SceneInv, Scenes
<1> QED  BY <1>1, <1>2 DEF SceneInv

LEMMA EditPreserves ==
  ASSUME SceneInv, Edit PROVE SceneInv'
<1>1. blend.objects \in Seq(Objects)
  BY DEF SceneInv, Scenes
<1>2. ASSUME NEW i \in DOMAIN blend.objects, Alter(i) PROVE SceneInv'
  <2>1. blend.objects[i] \in Objects
    BY <1>1
  <2>2. PICK altered \in {[blend.objects[i] EXCEPT !.name = n] : n \in Names}
                           \cup {[blend.objects[i] EXCEPT !.at = p] : p \in Places}
                           \cup {[blend.objects[i] EXCEPT !.material = m] :
                                   m \in {"none", "uncoloured", "black"}} :
               Become([blend.objects EXCEPT ![i] = altered])
    BY <1>2 DEF Alter
  <2>3. altered \in Objects
    BY <2>1, <2>2 DEF Objects
  <2>4. [blend.objects EXCEPT ![i] = altered] \in Seq(Objects)
    BY <1>1, <2>3
  <2> QED  BY <2>2, <2>4, BecomePreserves
<1>3. ASSUME NEW i \in DOMAIN blend.objects, Duplicate(i) PROVE SceneInv'
  <2>1. blend.objects[i] \in Objects
    BY <1>1
  <2>2. PICK n \in Texts, id \in Texts \cup {blend.objects[i].id} :
          Become(Append(blend.objects, [blend.objects[i] EXCEPT !.name = n, !.id = id]))
    BY <1>3 DEF Duplicate
  <2>3. [blend.objects[i] EXCEPT !.name = n, !.id = id] \in Objects
    BY <2>1, <2>2 DEF Objects, Names, Ids
  <2>4. Append(blend.objects, [blend.objects[i] EXCEPT !.name = n, !.id = id]) \in Seq(Objects)
    BY <1>1, <2>3
  <2> QED  BY <2>2, <2>4, BecomePreserves
<1>4. ASSUME NEW i \in DOMAIN blend.objects, Remove(i) PROVE SceneInv'
  <2> DEFINE rest == [n \in 1 .. (Len(blend.objects) - 1) |->
                        IF n < i THEN blend.objects[n] ELSE blend.objects[n + 1]]
  <2>1. Len(blend.objects) \in Nat \ {0} /\ DOMAIN blend.objects = 1 .. Len(blend.objects)
    BY <1>1
  <2>2. \A n \in 1 .. (Len(blend.objects) - 1) :
          blend.objects[n] \in Objects /\ blend.objects[n + 1] \in Objects
    BY <1>1, <2>1
  <2>3. rest \in Seq(Objects)
    BY <2>1, <2>2
  <2>4. Become(rest)
    BY <1>4 DEF Remove
  <2> QED  BY <2>3, <2>4, BecomePreserves
<1>5. ASSUME Reorder PROVE SceneInv'
  <2>1. PICK i \in DOMAIN blend.objects, j \in DOMAIN blend.objects :
          Become([blend.objects EXCEPT ![i] = blend.objects[j], ![j] = blend.objects[i]])
    BY <1>5 DEF Reorder
  <2>2. [blend.objects EXCEPT ![i] = blend.objects[j], ![j] = blend.objects[i]] \in Seq(Objects)
    BY <1>1
  <2> QED  BY <2>1, <2>2, BecomePreserves
<1>6. ASSUME ChangeUnits PROVE SceneInv'
  <2>1. blend.units \in Units
    BY DEF SceneInv, Scenes
  <2>2. /\ \A u \in UnitSystems : [blend.units EXCEPT !.unit_system = u] \in Units
        /\ \A l \in Lengths : [blend.units EXCEPT !.scale_length = l] \in Units
    BY <2>1 DEF Units
  <2>3. PICK units \in {[blend.units EXCEPT !.unit_system = u] : u \in UnitSystems}
                         \cup {[blend.units EXCEPT !.scale_length = l] : l \in Lengths} :
          blend' = [blend EXCEPT !.units = units]
    BY <1>6 DEF ChangeUnits
  <2>4. units \in Units
    BY <2>2, <2>3
  <2>5. blend' \in Scenes
    BY <2>3, <2>4 DEF SceneInv, Scenes
  <2>6. cache' = cache /\ plan' = plan
    BY <1>6 DEF ChangeUnits
  <2> QED  BY <2>5, <2>6 DEF SceneInv
<1> QED  BY <1>2, <1>3, <1>4, <1>5, <1>6 DEF Edit

LEMMA SnapshotReportsItsVersion ==
  ASSUME NEW scene \in Scenes, Read(scene) PROVE ReportsItsVersion(Snapshot(scene))
BY ReadIsReported DEF Snapshot, ReportsItsVersion

LEMMA SceneStep ==
  ASSUME SceneInv, [SceneNext]_sceneVars PROVE SceneInv'
<1>1. CASE Edit
  BY <1>1, EditPreserves
<1>2. CASE ReadRaises
  BY <1>2 DEF ReadRaises, SceneInv
<1>3. CASE RestartWorker
  BY <1>3 DEF RestartWorker, SceneInv
<1>4. CASE Ground
  <2>1. blend' = blend /\ plan' = plan
    BY <1>4 DEF Ground
  <2>2. cache' = NoSnapshot \/ ReportsItsVersion(cache')
    <3>1. blend \in Scenes
      BY DEF SceneInv
    <3>2. CASE Read(blend)
      BY <1>4, <3>1, <3>2, SnapshotReportsItsVersion DEF Ground
    <3>3. CASE ~Read(blend)
      BY <1>4, <3>3 DEF Ground, SceneInv
    <3> QED  BY <3>2, <3>3
  <2> QED  BY <2>1, <2>2 DEF SceneInv
<1>5. CASE PlanOnScene
  <2>1. blend' = blend /\ cache' = cache
    BY <1>5 DEF PlanOnScene
  <2>2. ReportsItsVersion(cache)
    BY <1>5 DEF PlanOnScene, SceneInv
  <2>3. plan'.seen = cache.scene /\ plan'.version = cache.version
    BY <1>5 DEF PlanOnScene, Rebuilt
  <2>4. Reported(plan'.seen) /\ plan'.version = Version(plan'.seen)
    BY <2>2, <2>3 DEF ReportsItsVersion
  <2> QED  BY <2>1, <2>4 DEF SceneInv
<1>6. CASE CheckScene
  BY <1>6 DEF CheckScene, SceneInv
<1>7. CASE UNCHANGED sceneVars
  BY <1>7 DEF sceneVars, SceneInv
<1> QED  BY <1>1, <1>2, <1>3, <1>4, <1>5, <1>6, <1>7 DEF SceneNext

(* What the row holds is a scene the worker let through, named by its own     *)
(* version, and so is what a plan under way was made on.                      *)
THEOREM SceneInvariance == SceneSpec => []SceneInv
<1>1. SceneInit => SceneInv
  BY ScenesAssumption DEF SceneInit, SceneInv, Scenes
<1>2. SceneInv /\ [SceneNext]_sceneVars => SceneInv'
  BY SceneStep
<1> QED  BY <1>1, <1>2, PTL DEF SceneSpec

(* OnlyKnownBreaches: of the rules of the contract (scene.py), what the      *)
(* worker lets through (normalize.py) breaks those alone it does not look at. *)
THEOREM BreachesAreAlwaysKnown == SceneSpec => []OnlyKnownBreaches
<1>1. ASSUME NEW scene, Reported(scene)
      PROVE  Breaches(scene) \subseteq Unchecked
  <2>1. \A o \in Objectlike(scene) :
          o.finite /\ o.material # "glowing" /\ o.name # Blank
    BY <1>1 DEF Reported, Understood, Digestible, Finite, MaterialOk, Objectlike
  <2>2. \A i, j \in DOMAIN scene.objects :
          SortKey(scene.objects[i]) = SortKey(scene.objects[j]) => i = j
    BY <1>1 DEF Reported, Digestible
  <2>3. scene.units.unit_system \in UnitSystems
    BY <1>1 DEF Reported, Understood
  <2>4. /\ Keeps(scene)["unit_system"] /\ Keeps(scene)["numbers"] /\ Keeps(scene)["name"]
        /\ Keeps(scene)["base_color"] /\ Keeps(scene)["order"]
    BY <2>1, <2>2, <2>3, Zenon DEF Keeps
  <2>5. DOMAIN Keeps(scene) = Unchecked \cup {"unit_system", "numbers", "name", "base_color",
                                              "order"}
    BY DEF Keeps, Unchecked
  <2> QED  BY <2>4, <2>5 DEF Breaches
<1>2. SceneInv => OnlyKnownBreaches
  BY <1>1 DEF SceneInv, ReportsItsVersion, OnlyKnownBreaches
<1> QED  BY <1>2, SceneInvariance, PTL

(* A verdict is given by CheckScene, on a scene it could read. *)
LEMMA VerdictIsOnAReport ==
  ASSUME SceneInv, [SceneNext]_sceneVars,
         verdict' # verdict, verdict' \in {"unchanged", "stale"}
  PROVE  /\ Reported(plan.seen) /\ Reported(Normalised(blend))
         /\ verdict' = "unchanged" <=> Version(Normalised(blend)) = Version(plan.seen)
<1>1. CheckScene
  <2>1. ~Edit /\ ~UNCHANGED sceneVars
    BY DEF Edit, Alter, Duplicate, Remove, Reorder, ChangeUnits, Become, sceneVars
  <2>2. ~ReadRaises /\ ~RestartWorker /\ ~Ground /\ ~PlanOnScene
    BY DEF ReadRaises, RestartWorker, Ground, PlanOnScene
  <2> QED  BY <2>1, <2>2 DEF SceneNext
<1>2. Reported(plan.seen) /\ plan.version = Version(plan.seen)
  BY <1>1 DEF CheckScene, SceneInv
<1>3. ~Refused(blend) /\ ~Raises(blend)
  BY <1>1 DEF CheckScene
<1>4. Reported(Normalised(blend))
  BY <1>3, ReadIsReported DEF SceneInv, Read, Refused, Raises
<1>5. verdict' = "unchanged" <=> Version(Normalised(blend)) = plan.version
  BY <1>1, <1>3 DEF CheckScene
<1> QED  BY <1>2, <1>4, <1>5

(* GoesOnOnTheSceneSeen: a plan the worker goes on with (execute,             *)
(* capability_executor.py) is carried out on the scene the agent was shown,   *)
(* to a quantum of the digest.                                                *)
THEOREM PlansGoOnOnTheSceneSeen == SceneSpec => GoesOnOnTheSceneSeen
<1>1. SceneInv /\ [SceneNext]_sceneVars
        => [verdict' = "unchanged" /\ verdict # "unchanged"
              => SameButForAQuantum(plan.seen, Normalised(blend))]_sceneVars
  BY VerdictIsOnAReport, SameVersionSameScene
<1> QED  BY <1>1, SceneInvariance, PTL DEF SceneSpec, GoesOnOnTheSceneSeen

(* UntouchedIsNotStale: the same objects are never called stale, in whatever  *)
(* order Blender lists them and however often they were read (scene.py).      *)
THEOREM UntouchedIsNeverStale == SceneSpec => UntouchedIsNotStale
<1>1. SceneInv /\ [SceneNext]_sceneVars
        => [verdict' = "stale" /\ verdict # "stale"
              => \/ plan.seen.units # blend.units
                 \/ Objectlike(plan.seen) # Objectlike(Normalised(blend))]_sceneVars
  <2> SUFFICES ASSUME SceneInv, [SceneNext]_sceneVars,
                      verdict' = "stale", verdict # "stale",
                      plan.seen.units = blend.units,
                      Objectlike(plan.seen) = Objectlike(Normalised(blend))
               PROVE  FALSE
    OBVIOUS
  <2>1. /\ Reported(plan.seen) /\ Reported(Normalised(blend))
        /\ Version(Normalised(blend)) # Version(plan.seen)
    BY VerdictIsOnAReport
  <2>2. Normalised(blend).units = blend.units
    BY NormalisedIsAScene DEF SceneInv
  <2> QED  BY <2>1, <2>2, SameObjectsSameVersion
<1> QED  BY <1>1, SceneInvariance, PTL DEF SceneSpec, UntouchedIsNotStale
================================================================================
