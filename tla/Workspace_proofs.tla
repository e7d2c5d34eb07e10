---------------------------- MODULE Workspace_proofs ----------------------------
(***************************************************************************)
(* Theorems about the turns of a project and all that goes on beside them. *)
(* First about TurnRunner, which starts them: for any number of turns and  *)
(* requests, any history and any pool.  Then about Workspace, where they   *)
(* run: for any turns, uploads and outcomes, any number of restarts, and   *)
(* actors in any combination, as nothing here depends on Casts.            *)
(***************************************************************************)
EXTENDS TurnRunner, Workspace, TLAPS

-------------------------------------------------------------------------------
(* TurnRunner.                                                               *)

(* The reason why retries join: a turn that a poll finds unfinished is the   *)
(* one its request leads to, however many turns were remembered and dropped. *)
LiveInv ==
  \A t \in table :
    /\ keyOf[t] \in Keys
    /\ state[t] \notin Finished => byRequest[keyOf[t]] = t

RunnerInv == RunnerTypeOK /\ LiveInv

LEMMA RunnerInitInv == RunnerInit => RunnerInv
<1> SUFFICES ASSUME RunnerInit PROVE RunnerInv
  OBVIOUS
<1>1. RunnerTypeOK
  <2>1. order \in Seq(TurnIds) /\ pool \in Seq(TurnIds)
    BY DEF RunnerInit
  <2>2. state \in [TurnIds -> {"thinking"} \cup Finished]
    BY DEF RunnerInit
  <2>3. /\ keyOf \in [TurnIds -> Keys \cup {NoKey}]
        /\ byRequest \in [Keys -> TurnIds \cup {NoTurn}]
        /\ closed \in BOOLEAN
    BY DEF RunnerInit
  <2> QED  BY <2>1, <2>2, <2>3 DEF RunnerInit, RunnerTypeOK
<1>2. LiveInv
  BY DEF RunnerInit, LiveInv
<1> QED  BY <1>1, <1>2 DEF RunnerInv

(* _remember adds the turn and takes away at most the oldest one, with every *)
(* entry that leads to it.                                                   *)
LEMMA Remembered ==
  ASSUME RunnerTypeOK, NEW t \in TurnIds, NEW k \in Keys, Start(t, k)
  PROVE  /\ order' \in Seq(TurnIds) /\ byRequest' \in [Keys -> TurnIds \cup {NoTurn}]
         /\ table' \subseteq table \cup {t}
         /\ \A u \in table' : \A key \in Keys :
              byRequest'[key] = u <=> [byRequest EXCEPT ![k] = t][key] = u
<1> DEFINE all == Append(order, t)
           mapping == [byRequest EXCEPT ![k] = t]
<1>1. all \in Seq(TurnIds) /\ all # <<>> /\ mapping \in [Keys -> TurnIds \cup {NoTurn}]
  BY DEF RunnerTypeOK
<1>2. Remember(t, mapping, all)
  BY DEF Start
<1>3. NoTurn \notin table' /\ table' \subseteq TurnIds
  BY <1>1, <1>2, RunnerAssumption DEF RunnerTypeOK, Remember
<1> HIDE DEF all
<1>4. CASE Len(all) <= History
  BY <1>1, <1>2, <1>4 DEF Remember
<1>5. CASE ~(Len(all) <= History)
  <2>1. Head(all) \in TurnIds /\ Tail(all) \in Seq(TurnIds)
    BY <1>1
  <2>2. /\ table' = (table \cup {t}) \ {Head(all)}
        /\ byRequest' = Without(mapping, Head(all))
        /\ order' = Tail(all)
    BY <1>2, <1>5 DEF Remember
  <2>3. \A u \in table' : \A key \in Keys :
          byRequest'[key] = u <=> mapping[key] = u
    BY <1>3, <2>2 DEF Without
  <2> QED  BY <1>1, <2>1, <2>2, <2>3 DEF Without
<1> QED  BY <1>4, <1>5

LEMMA StartStep ==
  ASSUME RunnerInv, NEW t \in TurnIds, NEW k \in Keys, Start(t, k)
  PROVE  RunnerInv'
<1> USE DEF RunnerInv
<1> DEFINE mapping == [byRequest EXCEPT ![k] = t]
<1>1. /\ keyOf[t] = NoKey /\ ~InFlight(k)
      /\ keyOf' = [keyOf EXCEPT ![t] = k] /\ handing' = handing \cup {t}
      /\ UNCHANGED <<state, pool, running, closed>>
  BY DEF Start
<1>2. /\ order' \in Seq(TurnIds) /\ byRequest' \in [Keys -> TurnIds \cup {NoTurn}]
      /\ table' \subseteq table \cup {t}
      /\ \A u \in table' : \A key \in Keys : byRequest'[key] = u <=> mapping[key] = u
  BY Remembered
<1>3. RunnerTypeOK'
  BY <1>1, <1>2 DEF RunnerTypeOK
<1>4. t \notin table
  BY <1>1, RunnerAssumption DEF LiveInv, RunnerTypeOK
<1>5. LiveInv'
  <2> SUFFICES ASSUME NEW u \in table'
               PROVE  /\ keyOf'[u] \in Keys
                      /\ state'[u] \notin Finished => byRequest'[keyOf'[u]] = u
    BY DEF LiveInv
  <2>1. CASE u = t
    BY <1>1, <1>2, <2>1 DEF RunnerTypeOK
  <2>2. CASE u # t
    <3>1. u \in table /\ u \in TurnIds /\ keyOf'[u] = keyOf[u] /\ keyOf[u] \in Keys
      BY <1>1, <1>2, <2>2 DEF RunnerTypeOK, LiveInv
    <3>2. ASSUME state[u] \notin Finished PROVE mapping[keyOf[u]] = u
      <4>1. byRequest[keyOf[u]] = u
        BY <3>1, <3>2 DEF LiveInv
      <4>2. keyOf[u] # k
        BY <1>1, <3>1, <3>2, <4>1 DEF InFlight
      <4> QED  BY <3>1, <4>1, <4>2 DEF RunnerTypeOK
    <3> QED  BY <1>1, <1>2, <3>1, <3>2
  <2> QED  BY <2>1, <2>2
<1> QED  BY <1>3, <1>5

LEMMA RunnerStep ==
  ASSUME RunnerInv, [RunnerNext]_runnerVars
  PROVE  RunnerInv'
<1> USE DEF RunnerInv
<1>1. ASSUME NEW t \in TurnIds, NEW k \in Keys, Start(t, k) PROVE RunnerInv'
  BY <1>1, StartStep
<1>2. ASSUME NEW t \in TurnIds, HandOver(t) PROVE RunnerInv'
  BY <1>2 DEF HandOver, tables, RunnerTypeOK, LiveInv
<1>3. CASE Run
  <2>1. Head(pool) \in TurnIds /\ Tail(pool) \in Seq(TurnIds)
    BY <1>3 DEF Run, RunnerTypeOK
  <2> QED  BY <1>3, <2>1 DEF Run, tables, RunnerTypeOK, LiveInv
<1>4. ASSUME NEW t \in TurnIds, NEW outcome \in Finished, Finish(t, outcome) PROVE RunnerInv'
  <2>1. RunnerTypeOK'
    BY <1>4 DEF Finish, tables, RunnerTypeOK
  <2>2. \A u \in TurnIds : state'[u] \notin Finished => state[u] \notin Finished
    BY <1>4 DEF Finish, RunnerTypeOK
  <2>3. LiveInv'
    BY <1>4, <2>2 DEF Finish, tables, RunnerTypeOK, LiveInv
  <2> QED  BY <2>1, <2>3
<1>5. CASE Close
  BY <1>5 DEF Close, tables, RunnerTypeOK, LiveInv
<1>6. CASE UNCHANGED runnerVars
  BY <1>6 DEF runnerVars, tables, RunnerTypeOK, LiveInv
<1> QED  BY <1>1, <1>2, <1>3, <1>4, <1>5, <1>6 DEF RunnerNext, PoolWork

LEMMA RunnerInvariance == RunnerSpec => []RunnerInv
<1>1. RunnerInv /\ [RunnerNext]_runnerVars => RunnerInv'
  BY RunnerStep
<1> QED  BY RunnerInitInv, <1>1, PTL DEF RunnerSpec

-------------------------------------------------------------------------------
(* Every variable has its type, in every reachable state. *)
THEOREM RunnerTypeCorrect == RunnerSpec => []RunnerTypeOK
<1>1. RunnerInv => RunnerTypeOK
  BY DEF RunnerInv
<1> QED  BY RunnerInvariance, <1>1, PTL

(* start and start_decision: a retry of a request joins the turn that is     *)
(* still at work for it, whatever was started and dropped in between, so no  *)
(* two turns of one request are ever found thinking.                         *)
THEOREM RetriesJoin == RunnerSpec => []OneLiveTurnPerRequest
<1>1. RunnerInv => OneLiveTurnPerRequest
  <2> SUFFICES ASSUME RunnerInv, NEW t \in Started, NEW u \in Started,
                      Polled(t) = "thinking", Polled(u) = "thinking",
                      keyOf[t] = keyOf[u]
               PROVE  t = u
    BY DEF OneLiveTurnPerRequest
  <2>1. t \in table /\ state[t] \notin Finished
    BY DEF Polled, Finished
  <2>2. u \in table /\ state[u] \notin Finished
    BY DEF Polled, Finished
  <2> QED  BY <2>1, <2>2 DEF RunnerInv, LiveInv
<1> QED  BY RunnerInvariance, <1>1, PTL

-------------------------------------------------------------------------------
(* Types. *)

(* Where a turn is before its model answers, and what the answer may be.     *)
Preparing == {"reading_scene", "grounding", "reading", "marking", "awaiting", "building",
              "delivering", "thinking"}
Answers == {"error", "answer", "question", "parked", "plan"}

MessagePlaces ==
  {"off", "telling"} \cup Preparing \cup Answers
    \cup {"submitting", "offering", "saving", "saying", "over"}
DecisionPlaces == {"off", "deciding", "submitting", "offering", "saving", "saying", "over"}
StartupPlaces == {"off", "reading", "marking", "over"}

Deciders == Turns \X Calls
PlanJobs == [read : {FALSE}, plan : Plans]
Messages == [role : {"user", "assistant"}, request : Requests]
Questions == [turn : Turns, open : BOOLEAN]
Loads == [at : {"write", "derive"}, upload : Uploads, page : 0 .. Pages]
Observed == [at : {"artifact"}, version : Nat]
Results == [version : Nat, artifact : BOOLEAN]

ThreadTypes ==
  /\ pc \in [Threads -> MessagePlaces \cup DecisionPlaces]
  /\ pc[Startup] \in StartupPlaces
  /\ \A t \in Turns : pc[Message(t)] \in MessagePlaces
  /\ \A d \in Deciders : pc[d] \in DecisionPlaces
  /\ plan \in [Threads -> Plans \cup {Nobody}]
  /\ transcript \in Seq(Messages)
  /\ clarifications \in Seq(Questions)
  /\ approvals \in [Turns -> Approvals \cup {Nobody}]
  /\ said \in [Turns -> SUBSET {"approved", "rejected"}]
  /\ jobs \in [Identities -> {"queued", "held", Nobody}]
  /\ offers \in Seq({ReadJob} \cup PlanJobs)

(* The plan a thread goes by is its own turn's, and what has no approval     *)
(* does not need one.                                                        *)
OwnPlan(t) ==
  /\ pc[Message(t)] \in {"parked", "plan", "submitting", "offering"} =>
       plan[Message(t)] \in Plans /\ plan[Message(t)].turn = t
  /\ pc[Message(t)] \in {"submitting", "offering"} => ~Flagged(plan[Message(t)])
  /\ approvals[t] # Nobody =>
       pc[Message(t)] \in {"saying", "over"} /\ approvals[t].plan.turn = t

OwnDecision(d) ==
  pc[d] \in {"deciding", "submitting", "offering"} =>
    plan[d] \in Plans /\ plan[d].turn = d[1]

PlanInv == (\A t \in Turns : OwnPlan(t)) /\ (\A d \in Deciders : OwnDecision(d))

(* Until the project is deleted, a plan the user decides on is the one that  *)
(* is parked, one that goes on was approved, and a row that is not pending   *)
(* says what the user decided, or one of the two things the user decided.    *)
Approved(d) ==
  /\ pc[d] \in {"deciding", "submitting", "offering"} =>
       approvals[d[1]] # Nobody /\ approvals[d[1]].plan = plan[d]
  /\ pc[d] \in {"submitting", "offering"} => "approved" \in said[d[1]]

Settled(row, decisions) ==
  IF row = Nobody THEN decisions = {}
  ELSE IF decisions = {} THEN row.decision = "pending"
  ELSE row.decision \in decisions

ApprovedInv ==
  ~erased => /\ \A d \in Deciders : Approved(d)
             /\ \A t \in Turns : Settled(approvals[t], said[t])

(* Until then, a turn that is past Tell has its words in the transcript.     *)
Untold == {"off", "telling", "over"}
ToldInv ==
  ~erased => /\ \A t \in Turns : pc[Message(t)] \notin Untold => Said(RequestOf[t])
             /\ \A d \in Deciders : pc[d] \notin Untold => Said(RequestOf[d[1]])

TurnsInv ==
  /\ ThreadTypes /\ PlanInv /\ ApprovedInv /\ ToldInv
  /\ EffectsAreExplained /\ FlaggedRunsOnlyIfApproved

-------------------------------------------------------------------------------
(* A reference that got its row, once and for all: its upload is past the    *)
(* routes' checks, and what the event loop has in hand is a later page.      *)
Ingesting == loop.at \in {"write", "derive"}
Added(id) ==
  /\ id \in Ids /\ uploading[id.upload] = "over"
  /\ Ingesting /\ loop.upload = id.upload => id.page < loop.page

FileTypes ==
  /\ loop \in {Free} \cup Observed \cup Loads
  /\ uploading \in [Uploads -> {"no", "waits", "over"}]
  /\ deleting \in [Uploads -> [at : {"no", "over"}]
                                \cup [at : {"reading", "unlinking"}, ids : SUBSET Ids]]

(* Rows, and what a deletion is to unlink, are of references that were       *)
(* added; what it unlinks has no row any more, and gets none again.          *)
AddedInv ==
  /\ Ingesting => uploading[loop.upload] = "over"
  /\ \A r \in references : Added(r.id)
  /\ \A u \in Uploads : deleting[u].at \in {"reading", "unlinking"} =>
       \A id \in deleting[u].ids : id.upload = u /\ Added(id)
  /\ \A u \in Uploads : deleting[u].at = "unlinking" =>
       \A r \in references : r.id \notin deleting[u].ids

FileInv ==
  /\ erasing.at \in {"files", "artifacts"} => erased
  /\ ~erased /\ loop.at = "derive" => Id(loop.upload, loop.page) \in files
  /\ RowsHaveFiles

UploadsInv == FileTypes /\ AddedInv /\ FileInv

-------------------------------------------------------------------------------
(* Until the project is deleted, an artifact with no row is one the event    *)
(* loop will still hear of, or one of which a restart lost the report.       *)
ReportTypes ==
  /\ blend \in Nat /\ artifacts \subseteq Nat
  /\ reports \in Seq(Results)

Accounted(version) ==
  \/ version \in artifacts \cup orphans
  \/ \E i \in 1 .. Len(reports) : reports[i] = Report(version, TRUE)
  \/ loop = [at |-> "artifact", version |-> version]

RecordedInv == ~erased => \A version \in artifactBytes : Accounted(version)

(* What an undisturbed deletion has done at each of its steps.               *)
ErasureTypes ==
  erasing \in [at : {"no", "over"}] \cup [at : {"rows", "files", "artifacts"}, listed : SUBSET Nat]

NoRows ==
  /\ ~project
  /\ references = {} /\ deliveries = {} /\ facts = {} /\ transcript = <<>>
  /\ clarifications = <<>> /\ (\A t \in Turns : approvals[t] = Nobody)
  /\ (\A j \in Identities : jobs[j] = Nobody)
  /\ scene = 0 /\ artifacts = {}

ErasureInv ==
  /\ erasing.at = "no" => ~erased
  /\ quiet =>
       /\ erasing.at \in {"rows", "files", "artifacts"} =>
            artifactBytes \subseteq erasing.listed \cup orphans
       /\ erasing.at \in {"files", "artifacts"} => NoRows
       /\ erasing.at = "artifacts" => files = {} /\ copies = {}

DeletionInv == ReportTypes /\ RecordedInv /\ ErasureTypes /\ ErasureInv

IndInv == TurnsInv /\ UploadsInv /\ DeletionInv

-------------------------------------------------------------------------------
(* Threads. *)

LEMMA ThreadFacts ==
  /\ Startup \in Threads /\ Startup \notin Deciders
  /\ \A t \in Turns : Message(t) \in Threads /\ Message(t) # Startup /\ Message(t) \notin Deciders
  /\ \A t, u \in Turns : Message(t) = Message(u) => t = u
  /\ \A d \in Deciders : d \in Threads /\ d[1] \in Turns
  /\ \A t \in Turns : \A call \in Calls :
       Decision(t, call) \in Deciders /\ Decision(t, call)[1] = t
  /\ \A thread \in Threads :
       thread = Startup \/ thread \in Deciders \/ \E t \in Turns : thread = Message(t)
BY DEF Threads, Startup, Message, Decision, Deciders, Calls

LEMMA IdentityFacts ==
  /\ \A t \in Turns :
       /\ Identity(Message(t)) \in Identities /\ Identity(Message(t))[1] = RequestOf[t]
       /\ RequestOf[Message(t)[1]] = RequestOf[t] /\ RequestOf[t] \in Requests
  /\ \A d \in Deciders :
       /\ Identity(d) \in Identities /\ Identity(d)[1] = RequestOf[d[1]]
       /\ RequestOf[d[1]] \in Requests
<1>1. \A t \in Turns : RequestOf[t] \in Requests
  BY StoreAssumption
<1>2. \A t \in Turns : RequestOf[Message(t)[1]] = RequestOf[t]
  BY DEF Message
<1>3. \A d \in Deciders : d[1] \in Turns
  BY DEF Deciders
<1>4. ASSUME NEW thread, thread[1] \in Turns
      PROVE  Identity(thread) \in Identities /\ Identity(thread)[1] = RequestOf[thread[1]]
  <2>1. (thread[2] \in Calls) \in BOOLEAN
    <3>1. CASE thread[2] \in Calls
      BY <3>1
    <3>2. CASE ~(thread[2] \in Calls)
      BY <3>2
    <3> QED
      BY <3>1, <3>2
  <2>2. RequestOf[thread[1]] \in Requests
    BY <1>1, <1>4
  <2>3. <<RequestOf[thread[1]], thread[2] \in Calls>> \in Requests \X BOOLEAN
    BY <2>1, <2>2, Zenon
  <2> QED
    BY <2>1, <2>3 DEF Identity, Identities
<1>5. \A t \in Turns : Message(t)[1] = t
  BY DEF Message
<1> QED
  BY <1>1, <1>2, <1>3, <1>4, <1>5

(* Going to a place is a matter of the thread that goes. *)
LEMMA WentTo ==
  ASSUME NEW S, pc \in [Threads -> S], NEW thread \in Threads, NEW place, Goto(thread, place)
  PROVE  /\ pc'[thread] = place
         /\ \A other \in Threads : (other # thread => pc'[other] = pc[other])
BY DEF Goto

-------------------------------------------------------------------------------
(* What a step is for the turns: all of the steps, sorted by what they do to *)
(* the threads, what they leave behind and what is under way to the worker.  *)
desk == <<transcript, clarifications, approvals, said, jobs, erased>>

Apart == UNCHANGED <<pc, plan, offers, desk>>

Serves == offers # <<>> /\ offers' = Tail(offers) /\ UNCHANGED <<pc, plan, desk>>

ReadsAhead ==
  /\ \E place \in StartupPlaces : Goto(Startup, place)
  /\ offers' = offers \/ offers' = Append(offers, ReadJob)
  /\ UNCHANGED <<plan, desk>>

Prepares(t) ==
  /\ \/ pc[Message(t)] = "off" /\ \E place \in {"telling", "over"} : Goto(Message(t), place)
     \/ /\ pc[Message(t)] \in Preparing
        /\ \E place \in Preparing : Goto(Message(t), place)
  /\ offers' = offers \/ offers' = Append(offers, ReadJob)
  /\ UNCHANGED <<plan, desk>>

Asks(t) == clarifications' = Append(clarifications, [turn |-> t, open |-> TRUE])
Resolves ==
  /\ clarifications' \in Seq(Questions) /\ Len(clarifications') = Len(clarifications)
  /\ \A i \in 1 .. Len(clarifications) : clarifications'[i].turn = clarifications[i].turn

Concludes(t) ==
  /\ pc[Message(t)] \in {"error", "answer", "question", "plan"}
  /\ \/ Goto(Message(t), "saying") \/ Goto(Message(t), "over")
     \/ Goto(Message(t), "submitting") /\ pc[Message(t)] = "plan" /\ ~Flagged(plan[Message(t)])
  /\ Resolves \/ Asks(t)
  /\ UNCHANGED <<transcript, approvals, said, jobs, erased, plan, offers>>

Parks(t) ==
  /\ pc[Message(t)] \in {"parked", "plan"}
  /\ Resolves
  /\ AddApproval(t, plan[Message(t)])
  /\ Goto(Message(t), "saying")
  /\ UNCHANGED <<transcript, said, jobs, erased, plan, offers>>

Forgets ==
  /\ erased' = TRUE
  /\ transcript' = <<>> /\ clarifications' = <<>>
  /\ approvals' = [t \in Turns |-> Nobody] /\ jobs' = [j \in Identities |-> Nobody]
  /\ UNCHANGED <<pc, plan, said, offers>>

Restarts ==
  /\ pc' = [t \in Threads |-> Ended(pc[t])] /\ offers' = <<>>
  /\ UNCHANGED <<plan, desk>>

Goes(t) ==
  \/ Prepares(t) \/ Tell(t) \/ Concludes(t) \/ Parks(t)
  \/ \E outcome \in Outcomes : Respond(t, outcome)
  \/ \E call \in Calls : Decide(t, call)
  \/ \E call \in Calls, decision \in {"approved", "rejected"} : Settle(t, call, decision)

TurnShape ==
  \/ Apart \/ Serves \/ ReadsAhead \/ Forgets \/ Restarts
  \/ /\ erased' = erased
     /\ \/ \E t \in Turns : Goes(t)
        \/ \E thread \in Threads : JobStep(thread)

LEMMA Resolving ==
  ASSUME clarifications \in Seq(Questions), NEW turn, ResolveQuestion(turn)
  PROVE  Resolves
<1>1. DOMAIN clarifications = 1 .. Len(clarifications) /\ Len(clarifications) \in Nat
  OBVIOUS
<1>2. ASSUME NEW i \in 1 .. Len(clarifications)
      PROVE  /\ clarifications'[i] \in Questions
             /\ clarifications'[i].turn = clarifications[i].turn
  <2>1. clarifications[i] \in Questions
    OBVIOUS
  <2> DEFINE answered == [clarifications[i] EXCEPT !.open = FALSE]
  <2>2. answered \in Questions /\ answered.turn = clarifications[i].turn
    BY <2>1 DEF Questions
  <2>3. clarifications'[i] = answered \/ clarifications'[i] = clarifications[i]
    BY <1>1 DEF ResolveQuestion
  <2> HIDE DEF answered
  <2> QED  BY <2>1, <2>2, <2>3
<1>3. clarifications' = [i \in 1 .. Len(clarifications) |-> clarifications'[i]]
  BY <1>1 DEF ResolveQuestion
<1>4. clarifications' \in [1 .. Len(clarifications) -> Questions]
  BY <1>2, <1>3
<1>5. clarifications' \in Seq(Questions) /\ Len(clarifications') = Len(clarifications)
  BY <1>1, <1>4
<1> QED  BY <1>2, <1>5 DEF Resolves

LEMMA Learning ==
  ASSUME ThreadTypes, NEW t \in Turns, Learnt(t)
  PROVE  Resolves
<1>1. CASE UNCHANGED clarifications
  BY <1>1 DEF Resolves, ThreadTypes
<1>2. CASE ResolveQuestion(asked[t])
  BY <1>2, Resolving DEF ThreadTypes
<1> QED  BY <1>1, <1>2 DEF Learnt

LEMMA ReadShape ==
  ASSUME ThreadTypes, NEW thread \in Threads, ReadStep(thread)
  PROVE  /\ thread = Startup => \E place \in StartupPlaces : Goto(Startup, place)
         /\ \A t \in Turns : thread = Message(t) =>
              /\ pc[Message(t)] \in Preparing
              /\ \E place \in Preparing : Goto(Message(t), place)
         /\ thread \notin Deciders
         /\ offers' = offers \/ offers' = Append(offers, ReadJob)
         /\ UNCHANGED <<transcript, clarifications, approvals, jobs>>
<1>1. pc[thread] \in {"grounding", "reading", "marking", "awaiting"}
  BY DEF ReadStep, Ensure, OfferRead, MarkInFlight, SceneIsThere, WaitIsOver
<1>2. thread \notin Deciders
  BY <1>1 DEF ThreadTypes, DecisionPlaces
<1>3. \A t \in Turns : thread = Message(t) => pc[Message(t)] \in Preparing
  BY <1>1 DEF Preparing
<1>4. CASE thread = Startup
  <2>1. pc[Startup] \in {"reading", "marking"}
    BY <1>1, <1>4 DEF ThreadTypes, StartupPlaces
  <2>2. \E place \in {"marking", "over"} : Goto(Startup, place)
    BY <1>4, <2>1 DEF ReadStep, Ensure, OfferRead, MarkInFlight, SceneIsThere, WaitIsOver,
                      LeaveGrounding
  <2> QED  BY <1>2, <1>4, <2>2, ThreadFacts DEF StartupPlaces, ReadStep, Ensure, OfferRead,
              MarkInFlight, SceneIsThere, WaitIsOver, store, rows
<1>5. CASE thread # Startup
  <2>1. \E place \in {"reading", "marking", "awaiting", "building"} : Goto(thread, place)
    BY <1>5 DEF ReadStep, Ensure, OfferRead, MarkInFlight, SceneIsThere, WaitIsOver, LeaveGrounding
  <2> QED  BY <1>2, <1>3, <1>5, <2>1, ThreadFacts DEF Preparing, ReadStep, Ensure, OfferRead,
              MarkInFlight, SceneIsThere, WaitIsOver, store, rows
<1> QED  BY <1>4, <1>5

LEMMA GoesOn ==
  ASSUME ThreadTypes, erased' = erased, NEW t \in Turns, TurnStep(t)
  PROVE  Goes(t) /\ UNCHANGED offers
<1> USE DEF untouched, elsewhere2, inTurn, store, rows, desk
<1>1. CASE Tell(t)
  BY <1>1 DEF Tell, Goes
<1>2. ASSUME NEW available \in BOOLEAN, ConsiderScene(t, available)
      PROVE  Prepares(t) /\ UNCHANGED offers
  BY <1>2 DEF ConsiderScene, Prepares, Preparing
<1>3. ASSUME NEW available \in BOOLEAN, Plan(t, available)
      PROVE  Concludes(t) /\ UNCHANGED offers
  <2>1. Resolves
    BY <1>3, Learning DEF Plan
  <2>2. Goto(Message(t), "over") \/ (Goto(Message(t), "submitting") /\ ~Flagged(plan[Message(t)]))
    BY <1>3 DEF Plan
  <2> QED  BY <1>3, <2>1, <2>2 DEF Plan, Concludes
<1>4. ASSUME NEW wish \in Wishes, Select(t, wish)
      PROVE  Prepares(t) /\ UNCHANGED offers
  BY <1>4 DEF Select, Prepares, Preparing
<1>5. CASE Deliver(t)
  BY <1>5 DEF Deliver, Prepares, Preparing, Goes
<1>6. ASSUME NEW outcome \in Outcomes, Respond(t, outcome)
      PROVE  Goes(t) /\ UNCHANGED offers
  BY <1>6 DEF Respond, Goes
<1>7. CASE GiveUp(t)
  <2>1. Resolves
    BY <1>7, Learning DEF GiveUp
  <2> QED  BY <1>7, <2>1 DEF GiveUp, Concludes, Goes
<1>8. CASE Answer(t)
  <2>1. Resolves
    BY <1>8, Learning DEF Answer
  <2> QED  BY <1>8, <2>1 DEF Answer, Concludes, Goes
<1>9. CASE Ask(t)
  BY <1>9 DEF Ask, AddQuestion, Asks, Concludes, Goes
<1>10. CASE Park(t)
  <2>1. Resolves
    BY <1>10, Learning DEF Park
  <2> QED  BY <1>10, <2>1 DEF Park, Parks, Goes
<1>11. ASSUME NEW call \in Calls, NEW decision \in {"approved", "rejected"},
              Settle(t, call, decision)
       PROVE  Goes(t) /\ UNCHANGED offers
  BY <1>11 DEF Settle, Goes
<1> QED  BY <1>1, <1>2, <1>3, <1>4, <1>5, <1>6, <1>7, <1>8, <1>9, <1>10, <1>11 DEF TurnStep, Goes

LEMMA Shapes ==
  ASSUME ThreadTypes, [Next]_vars
  PROVE  TurnShape
<1> USE DEF desk, Besides, Alongside, erasure, store, rows, inTurn, otherRows, grounding, elsewhere
<1>0. CASE UNCHANGED vars
  BY <1>0 DEF vars, Apart, TurnShape
<1>1. ASSUME NEW t \in Turns, NEW s \in Sessions, MessageArrives(t, s) PROVE TurnShape
  <2>1. Prepares(t)
    BY <1>1 DEF MessageArrives, Submit, Prepares, untouched
  <2> QED  BY <1>1, <2>1 DEF MessageArrives, TurnShape, Goes
<1>2. ASSUME NEW t \in Turns, TurnGoesOn(t) PROVE TurnShape
  BY <1>2, GoesOn DEF TurnGoesOn, TurnShape
<1>3. ASSUME NEW t \in Turns, UserDecides(t) PROVE TurnShape
  BY <1>3 DEF UserDecides, TurnShape, Goes
<1>4. ASSUME NEW thread \in Threads, JobGoesOn(thread) PROVE TurnShape
  BY <1>4 DEF JobGoesOn, TurnShape
<1>5. ASSUME NEW thread \in Threads, ReadGoesOn(thread) PROVE TurnShape
  <2>1. CASE thread = Startup
    <3>1. ReadsAhead
      BY <1>5, <2>1, ReadShape DEF ReadGoesOn, ReadsAhead
    <3> QED  BY <3>1 DEF TurnShape
  <2>2. ASSUME NEW t \in Turns, thread = Message(t) PROVE TurnShape
    <3>1. Prepares(t)
      BY <1>5, <2>2, ReadShape DEF ReadGoesOn, Prepares
    <3> QED  BY <1>5, <3>1 DEF ReadGoesOn, TurnShape, Goes
  <2> QED  BY <1>5, <2>1, <2>2, ReadShape, ThreadFacts DEF ReadGoesOn
<1>6. CASE WorkerSaysHello
  <2>1. \E place \in StartupPlaces : Goto(Startup, place)
    BY <1>6 DEF WorkerSaysHello, HelloArrives, StartupPlaces
  <2>2. ReadsAhead
    BY <1>6, <2>1 DEF WorkerSaysHello, HelloArrives, ReadsAhead
  <2> QED  BY <2>2 DEF TurnShape
<1>7. CASE WorkerWorks
  <2>1. Serves
    BY <1>7 DEF WorkerWorks, WorkerStep, WorkerReads, WorkerRunsPlan, WorkerRefuses, Serves
  <2> QED  BY <2>1 DEF TurnShape
<1>8. CASE ReportIsObserved
  BY <1>8 DEF ReportIsObserved, ReporterStep, ObserveScene, ObserveArtifact, Apart, TurnShape
<1>9. ASSUME NEW u \in Uploads, UploadGoesOn(u) PROVE TurnShape
  BY <1>9 DEF UploadGoesOn, UploadStep, BeginUpload, TurnAway, TakeIn, BeginDelete, Transact,
              Unlink, Apart, TurnShape
<1>10. CASE IngestGoesOn
  BY <1>10 DEF IngestGoesOn, Ingest, IngestStep, WriteUpload, CannotDerive, AddRow, WriteFails,
               Apart, TurnShape
<1>11. CASE OpenProject \/ MarkOpened
  BY <1>11 DEF OpenProject, MarkOpened, Apart, TurnShape
<1>12. CASE ListArtifacts \/ EraseFiles \/ EraseArtifacts
  BY <1>12 DEF ListArtifacts, EraseFiles, EraseArtifacts, ErasureLeaves, Apart, TurnShape
<1>13. CASE EraseRows
  BY <1>13 DEF EraseRows, DeleteRows, ErasureLeaves, Forgets, TurnShape
<1>14. CASE RestartControlPlane
  BY <1>14 DEF RestartControlPlane, Restarts, TurnShape
<1> QED  BY <1>0, <1>1, <1>2, <1>3, <1>4, <1>5, <1>6, <1>7, <1>8, <1>9, <1>10, <1>11, <1>12,
            <1>13, <1>14 DEF Next, Erase

(* The threads that make jobs are those of turns. *)
LEMMA JobThread ==
  ASSUME ThreadTypes, NEW thread \in Threads, JobStep(thread)
  PROVE  /\ pc[thread] \in {"submitting", "offering", "saving", "saying"}
         /\ thread \in Deciders \/ \E t \in Turns : thread = Message(t)
<1>1. pc[thread] \in {"submitting", "offering", "saving", "saying"}
  BY DEF JobStep, CreateJob, OfferJob, NoOffer, SaveJob, Say
<1>2. thread # Startup
  BY <1>1 DEF ThreadTypes, StartupPlaces
<1> QED  BY <1>1, <1>2, ThreadFacts

(* Going to a place a thread of its kind may be at keeps the places' types. *)
Placed ==
  /\ pc \in [Threads -> MessagePlaces \cup DecisionPlaces]
  /\ pc[Startup] \in StartupPlaces
  /\ \A t \in Turns : pc[Message(t)] \in MessagePlaces
  /\ \A d \in Deciders : pc[d] \in DecisionPlaces

LEMMA PlacesKept ==
  ASSUME Placed, NEW thread \in Threads, NEW place, Goto(thread, place),
         thread = Startup => place \in StartupPlaces,
         \A t \in Turns : thread = Message(t) => place \in MessagePlaces,
         thread \in Deciders => place \in DecisionPlaces
  PROVE  Placed'
<1>1. place \in MessagePlaces \cup DecisionPlaces
  BY ThreadFacts DEF StartupPlaces, MessagePlaces, Preparing
<1>2. pc' \in [Threads -> MessagePlaces \cup DecisionPlaces]
  BY <1>1 DEF Placed, Goto
<1>3. pc'[thread] = place /\ \A other \in Threads : (other # thread => pc'[other] = pc[other])
  BY WentTo DEF Placed
<1> QED  BY <1>2, <1>3, ThreadFacts DEF Placed

LEMMA PlacesStep ==
  ASSUME ThreadTypes, TurnShape
  PROVE  Placed'
<1>0. Placed
  BY DEF ThreadTypes, Placed
<1>1. CASE Apart \/ Serves \/ Forgets
  BY <1>0, <1>1 DEF Apart, Serves, Forgets, Placed
<1>2. CASE ReadsAhead
  BY <1>0, <1>2, PlacesKept, ThreadFacts DEF ReadsAhead
<1>3. CASE Restarts
  <2>1. \A thread \in Threads : pc'[thread] \in {"off", "over"}
    BY <1>3 DEF Restarts, Ended
  <2>2. pc' = [thread \in Threads |-> pc'[thread]]
    BY <1>3 DEF Restarts
  <2>3. {"off", "over"} \subseteq MessagePlaces \cap DecisionPlaces \cap StartupPlaces
    BY DEF MessagePlaces, DecisionPlaces, StartupPlaces
  <2> QED  BY <2>1, <2>2, <2>3, ThreadFacts DEF Placed
<1>4. ASSUME NEW t \in Turns, Goes(t) PROVE Placed'
  <2>1. ASSUME NEW place \in MessagePlaces, Goto(Message(t), place) PROVE Placed'
    BY <1>0, <2>1, PlacesKept, ThreadFacts
  <2>2. ASSUME NEW call \in Calls, NEW place \in DecisionPlaces, Goto(Decision(t, call), place)
        PROVE  Placed'
    BY <1>0, <2>2, PlacesKept, ThreadFacts
  <2>3. CASE Prepares(t)
    BY <2>1, <2>3 DEF Prepares, Preparing, MessagePlaces
  <2>4. CASE Tell(t) \/ Concludes(t) \/ Parks(t)
    BY <2>1, <2>4 DEF Tell, Concludes, Parks, MessagePlaces, Preparing
  <2>5. ASSUME NEW call \in Calls, Decide(t, call) PROVE Placed'
    BY <2>2, <2>5 DEF Decide, DecisionPlaces
  <2>6. ASSUME NEW outcome \in Outcomes, Respond(t, outcome) PROVE Placed'
    <3>1. outcome.says \in MessagePlaces
      BY OutcomesAssumption DEF MessagePlaces, Answers
    <3> QED  BY <2>1, <2>6, <3>1 DEF Respond
  <2>7. ASSUME NEW call \in Calls, NEW decision \in {"approved", "rejected"},
               Settle(t, call, decision)
        PROVE  Placed'
    BY <2>2, <2>7 DEF Settle, DecisionPlaces
  <2> QED  BY <1>4, <2>3, <2>4, <2>5, <2>6, <2>7 DEF Goes
<1>5. ASSUME NEW thread \in Threads, JobStep(thread) PROVE Placed'
  <2>1. \E place \in {"offering", "saving", "saying", "over"} : Goto(thread, place)
    BY <1>5 DEF JobStep, CreateJob, OfferJob, NoOffer, SaveJob, Say
  <2>2. {"offering", "saving", "saying", "over"} \subseteq MessagePlaces \cap DecisionPlaces
    BY DEF MessagePlaces, DecisionPlaces
  <2>3. thread # Startup
    BY <1>5, JobThread, ThreadFacts
  <2> QED  BY <1>0, <2>1, <2>2, <2>3, PlacesKept
<1> QED  BY <1>1, <1>2, <1>3, <1>4, <1>5 DEF TurnShape

LEMMA PlanTypes ==
  ASSUME ThreadTypes, PlanInv, TurnShape
  PROVE  /\ plan' \in [Threads -> Plans \cup {Nobody}]
         /\ approvals' \in [Turns -> Approvals \cup {Nobody}]
         /\ said' \in [Turns -> SUBSET {"approved", "rejected"}]
<1> DEFINE Typed == /\ plan' \in [Threads -> Plans \cup {Nobody}]
                    /\ approvals' \in [Turns -> Approvals \cup {Nobody}]
                    /\ said' \in [Turns -> SUBSET {"approved", "rejected"}]
<1>0. /\ plan \in [Threads -> Plans \cup {Nobody}]
      /\ approvals \in [Turns -> Approvals \cup {Nobody}]
      /\ said \in [Turns -> SUBSET {"approved", "rejected"}]
  BY DEF ThreadTypes
<1>1. CASE UNCHANGED <<plan, approvals, said>>
  BY <1>0, <1>1
<1>2. CASE Forgets
  BY <1>0, <1>2 DEF Forgets
<1>3. ASSUME NEW t \in Turns, Parks(t) PROVE Typed
  <2>1. plan[Message(t)] \in Plans
    BY <1>3 DEF Parks, PlanInv, OwnPlan
  <2>2. Parked(plan[Message(t)]) \in Approvals
    BY <2>1 DEF Parked, Approvals
  <2> QED  BY <1>0, <1>3, <2>2 DEF Parks, AddApproval
<1>4. ASSUME NEW t \in Turns, NEW call \in Calls, Decide(t, call) PROVE Typed
  <2>1. approvals[t].plan \in Plans
    BY <1>0, <1>4 DEF Decide, Approvals
  <2>2. Decision(t, call) \in Threads
    BY ThreadFacts
  <2> QED  BY <1>0, <1>4, <2>1, <2>2 DEF Decide, otherRows
<1>5. ASSUME NEW t \in Turns, NEW outcome \in Outcomes, Respond(t, outcome) PROVE Typed
  <2>1. [turn |-> t, kind |-> outcome.kind] \in Plans
    BY OutcomesAssumption DEF Plans
  <2> QED  BY <1>0, <1>5, <2>1 DEF Respond, store, rows
<1>6. ASSUME NEW t \in Turns, NEW call \in Calls, NEW decision \in {"approved", "rejected"},
             Settle(t, call, decision)
      PROVE  Typed
  <2>1. UNCHANGED plan /\ said' \in [Turns -> SUBSET {"approved", "rejected"}]
    BY <1>0, <1>6 DEF Settle
  <2>2. CASE Undecided(t)
    <3>1. approvals[t] \in Approvals
      BY <1>0, <2>2 DEF Undecided
    <3>2. [approvals[t] EXCEPT !.decision = decision] \in Approvals
      BY <3>1 DEF Approvals
    <3>3. approvals' = [approvals EXCEPT ![t] = [approvals[t] EXCEPT !.decision = decision]]
      BY <1>6, <2>2 DEF Settle, WriteDecision
    <3> QED  BY <1>0, <2>1, <3>2, <3>3
  <2>3. CASE ~Undecided(t)
    BY <1>0, <1>6, <2>1, <2>3 DEF Settle, WriteDecision
  <2> QED  BY <2>2, <2>3
<1>7. ASSUME NEW thread \in Threads, JobStep(thread) PROVE UNCHANGED <<plan, approvals, said>>
  BY <1>7 DEF JobStep, CreateJob, OfferJob, NoOffer, SaveJob, Say, inTurn, store, rows
<1>8. ASSUME NEW t \in Turns, Prepares(t) \/ Tell(t) \/ Concludes(t)
      PROVE  UNCHANGED <<plan, approvals, said>>
  BY <1>8 DEF Prepares, Tell, Concludes, desk, inTurn
<1>9. CASE Apart \/ Serves \/ ReadsAhead \/ Restarts
  BY <1>1, <1>9 DEF Apart, Serves, ReadsAhead, Restarts, desk
<1> QED  BY <1>1, <1>2, <1>3, <1>4, <1>5, <1>6, <1>7, <1>8, <1>9 DEF TurnShape, Goes

LEMMA TraceTypes ==
  ASSUME ThreadTypes, TurnShape
  PROVE  /\ transcript' \in Seq(Messages) /\ clarifications' \in Seq(Questions)
         /\ jobs' \in [Identities -> {"queued", "held", Nobody}]
<1> DEFINE Typed == /\ transcript' \in Seq(Messages) /\ clarifications' \in Seq(Questions)
                    /\ jobs' \in [Identities -> {"queued", "held", Nobody}]
<1>0. /\ transcript \in Seq(Messages) /\ clarifications \in Seq(Questions)
      /\ jobs \in [Identities -> {"queued", "held", Nobody}]
  BY DEF ThreadTypes
<1>1. CASE UNCHANGED <<transcript, clarifications, jobs>>
  BY <1>0, <1>1
<1>2. CASE Forgets
  BY <1>2 DEF Forgets
<1>3. ASSUME NEW t \in Turns, Tell(t) PROVE Typed
  <2>1. [role |-> "user", request |-> RequestOf[t]] \in Messages
    BY IdentityFacts DEF Messages
  <2> QED  BY <1>0, <1>3, <2>1 DEF Tell, AppendMessage
<1>4. ASSUME NEW t \in Turns, Concludes(t) \/ Parks(t) PROVE Typed
  <2>1. [turn |-> t, open |-> TRUE] \in Questions
    BY DEF Questions
  <2>2. UNCHANGED <<transcript, jobs>> /\ (Resolves \/ Asks(t))
    BY <1>4 DEF Concludes, Parks
  <2>3. \A question \in Questions : Append(clarifications, question) \in Seq(Questions)
    BY <1>0
  <2>4. clarifications' \in Seq(Questions)
    BY <2>1, <2>2, <2>3 DEF Asks, Resolves
  <2> QED  BY <1>0, <2>2, <2>4
<1>5. ASSUME NEW t \in Turns, Prepares(t) \/ \E call \in Calls : Decide(t, call)
      PROVE  UNCHANGED <<transcript, clarifications, jobs>>
  BY <1>5 DEF Prepares, Decide, desk, otherRows
<1>6. ASSUME NEW t \in Turns, NEW outcome \in Outcomes, Respond(t, outcome)
      PROVE  UNCHANGED <<transcript, clarifications, jobs>>
  BY <1>6 DEF Respond, store, rows
<1>7. ASSUME NEW t \in Turns, NEW call, NEW decision, Settle(t, call, decision)
      PROVE  UNCHANGED <<transcript, clarifications, jobs>>
  BY <1>7 DEF Settle
<1>8. ASSUME NEW thread \in Threads, JobStep(thread) PROVE Typed
  <2>1. Identity(thread) \in Identities /\ RequestOf[thread[1]] \in Requests
    BY <1>8, JobThread, IdentityFacts
  <2>2. [role |-> "assistant", request |-> RequestOf[thread[1]]] \in Messages
    BY <2>1 DEF Messages
  <2>3. CASE CreateJob(thread)
    BY <1>0, <2>1, <2>3 DEF CreateJob
  <2>4. CASE SaveJob(thread)
    BY <1>0, <2>1, <2>4 DEF SaveJob
  <2>5. CASE Say(thread)
    BY <1>0, <2>2, <2>5 DEF Say, AppendMessage
  <2>6. CASE OfferJob(thread) \/ NoOffer(thread)
    BY <1>1, <2>6 DEF OfferJob, NoOffer, store, rows
  <2> QED  BY <1>8, <2>3, <2>4, <2>5, <2>6 DEF JobStep
<1>9. CASE Apart \/ Serves \/ ReadsAhead \/ Restarts
  BY <1>1, <1>9 DEF Apart, Serves, ReadsAhead, Restarts, desk
<1> QED  BY <1>1, <1>2, <1>3, <1>4, <1>5, <1>6, <1>7, <1>8, <1>9 DEF TurnShape, Goes

(* An offer is made, taken or forgotten. *)
Offering(thread) ==
  /\ pc[thread] = "offering"
  /\ offers' = Append(offers, [read |-> FALSE, plan |-> plan[thread]])
  /\ UNCHANGED <<approvals, said, erased>>

LEMMA OfferShape ==
  ASSUME TurnShape
  PROVE  \/ offers' = offers \/ offers' = <<>>
         \/ offers' = Append(offers, ReadJob)
         \/ offers # <<>> /\ offers' = Tail(offers)
         \/ \E thread \in Threads : JobStep(thread) /\ Offering(thread)
<1>1. ASSUME NEW t \in Turns, Goes(t) PROVE offers' = offers \/ offers' = Append(offers, ReadJob)
  BY <1>1 DEF Goes, Prepares, Tell, Concludes, Parks, Decide, Respond, Settle, untouched
<1>2. ASSUME NEW thread \in Threads, JobStep(thread), erased' = erased
      PROVE  offers' = offers \/ Offering(thread)
  BY <1>2 DEF JobStep, CreateJob, OfferJob, NoOffer, SaveJob, Say, Offering, untouched, inTurn, store, rows
<1>3. CASE Apart \/ Serves \/ ReadsAhead \/ Forgets \/ Restarts
  BY <1>3 DEF Apart, Serves, ReadsAhead, Forgets, Restarts
<1> QED  BY <1>1, <1>2, <1>3 DEF TurnShape

LEMMA OfferTypes ==
  ASSUME ThreadTypes, PlanInv, TurnShape
  PROVE  offers' \in Seq({ReadJob} \cup PlanJobs)
<1> DEFINE Jobs == {ReadJob} \cup PlanJobs
<1>0. offers \in Seq(Jobs) /\ ReadJob \in Jobs
  BY DEF ThreadTypes
<1>1. ASSUME NEW thread \in Threads, JobStep(thread), Offering(thread)
      PROVE  [read |-> FALSE, plan |-> plan[thread]] \in Jobs
  <2>1. plan[thread] \in Plans
    BY <1>1, JobThread DEF PlanInv, OwnPlan, OwnDecision, Offering
  <2> QED  BY <2>1 DEF PlanJobs
<1> HIDE DEF Jobs
<1>2. /\ \A job \in Jobs : Append(offers, job) \in Seq(Jobs)
      /\ offers # <<>> => Tail(offers) \in Seq(Jobs)
      /\ <<>> \in Seq(Jobs)
  BY <1>0
<1>3. ASSUME NEW thread \in Threads, JobStep(thread), Offering(thread)
      PROVE  offers' \in Seq(Jobs)
  BY <1>1, <1>2, <1>3 DEF Offering
<1>4. offers' \in Seq(Jobs)
  BY <1>0, <1>2, <1>3, OfferShape
<1> QED  BY <1>4 DEF Jobs

LEMMA ThreadTypesStep ==
  ASSUME ThreadTypes, PlanInv, TurnShape
  PROVE  ThreadTypes'
<1>1. Placed'
  BY PlacesStep
<1>2. /\ plan' \in [Threads -> Plans \cup {Nobody}]
      /\ approvals' \in [Turns -> Approvals \cup {Nobody}]
      /\ said' \in [Turns -> SUBSET {"approved", "rejected"}]
  BY PlanTypes
<1>3. /\ transcript' \in Seq(Messages) /\ clarifications' \in Seq(Questions)
      /\ jobs' \in [Identities -> {"queued", "held", Nobody}]
  BY TraceTypes
<1>4. offers' \in Seq({ReadJob} \cup PlanJobs)
  BY OfferTypes
<1> QED  BY <1>1, <1>2, <1>3, <1>4 DEF ThreadTypes, Placed

-------------------------------------------------------------------------------
(* Plans and approvals. *)

(* Where other threads are, and what they go by, is left alone. *)
LEMMA OthersStay ==
  ASSUME Placed, NEW thread \in Threads, NEW place, Goto(thread, place), NEW u \in Turns
  PROVE  /\ thread # Message(u) => pc'[Message(u)] = pc[Message(u)]
         /\ \A d \in Deciders : thread # d => pc'[d] = pc[d]
         /\ pc'[thread] = place
BY WentTo, ThreadFacts DEF Placed

LEMMA OwnPlanStep ==
  ASSUME ThreadTypes, PlanInv, TurnShape
  PROVE  \A u \in Turns : OwnPlan(u)'
<1>0. Placed /\ \A u \in Turns : OwnPlan(u)
  BY DEF ThreadTypes, Placed, PlanInv
<1>1. CASE Apart \/ Serves \/ Forgets
  BY <1>0, <1>1 DEF Apart, Serves, Forgets, desk, OwnPlan, Flagged
<1>2. CASE ReadsAhead
  <2>1. \A u \in Turns : pc'[Message(u)] = pc[Message(u)]
    BY <1>0, <1>2, OthersStay, ThreadFacts DEF ReadsAhead
  <2> QED  BY <1>0, <1>2, <2>1 DEF ReadsAhead, desk, OwnPlan, Flagged
<1>3. CASE Restarts
  <2>1. \A u \in Turns : /\ pc'[Message(u)] \in {"off", "over"}
                         /\ (pc[Message(u)] # "off" => pc'[Message(u)] = "over")
    BY <1>3, ThreadFacts DEF Restarts, Ended
  <2> QED  BY <1>0, <1>3, <2>1 DEF Restarts, desk, OwnPlan
<1>4. ASSUME NEW t \in Turns, Goes(t), NEW u \in Turns PROVE OwnPlan(u)'
  <2>0. /\ Message(t) \in Threads
        /\ \A call \in Calls : Decision(t, call) \in Threads /\ Decision(t, call) # Message(u)
    BY ThreadFacts
  <2>1. CASE Prepares(t)
    <3>1. UNCHANGED <<plan, approvals>>
      BY <2>1 DEF Prepares, desk
    <3>2. /\ t # u => pc'[Message(u)] = pc[Message(u)]
          /\ pc'[Message(t)] \in {"telling", "over"} \cup Preparing
      BY <1>0, <2>0, <2>1, OthersStay, ThreadFacts DEF Prepares
    <3>3. approvals[t] = Nobody
      BY <1>0, <2>1 DEF Prepares, Preparing, OwnPlan
    <3> QED  BY <1>0, <3>1, <3>2, <3>3 DEF OwnPlan, Flagged, Preparing
  <2>2. CASE Tell(t)
    <3>1. UNCHANGED <<plan, approvals>>
      BY <2>2 DEF Tell, inTurn
    <3>2. /\ t # u => pc'[Message(u)] = pc[Message(u)]
          /\ pc'[Message(t)] = "reading_scene"
      BY <1>0, <2>0, <2>2, OthersStay, ThreadFacts DEF Tell
    <3>3. approvals[t] = Nobody
      BY <1>0, <2>2 DEF Tell, OwnPlan
    <3> QED  BY <1>0, <3>1, <3>2, <3>3 DEF OwnPlan, Flagged
  <2>3. CASE Concludes(t)
    <3>1. UNCHANGED <<plan, approvals>>
      BY <2>3 DEF Concludes
    <3>2. /\ t # u => pc'[Message(u)] = pc[Message(u)]
          /\ \/ pc'[Message(t)] \in {"saying", "over"}
             \/ /\ pc'[Message(t)] = "submitting"
                /\ pc[Message(t)] = "plan" /\ ~Flagged(plan[Message(t)])
      BY <1>0, <2>0, <2>3, OthersStay, ThreadFacts DEF Concludes
    <3>3. approvals[t] = Nobody
      BY <1>0, <2>3 DEF Concludes, OwnPlan
    <3> QED  BY <1>0, <3>1, <3>2, <3>3 DEF OwnPlan, Flagged
  <2>4. CASE Parks(t)
    <3>1. UNCHANGED plan /\ approvals' = [approvals EXCEPT ![t] = Parked(plan[Message(t)])]
      BY <2>4 DEF Parks, AddApproval
    <3>2. /\ t # u => pc'[Message(u)] = pc[Message(u)]
          /\ pc'[Message(t)] = "saying"
      BY <1>0, <2>0, <2>4, OthersStay, ThreadFacts DEF Parks
    <3>3. approvals'[t].plan.turn = t /\ (t # u => approvals'[u] = approvals[u])
      BY <1>0, <2>4, <3>1 DEF Parks, OwnPlan, Parked, ThreadTypes
    <3> QED  BY <1>0, <3>1, <3>2, <3>3 DEF OwnPlan, Flagged
  <2>5. ASSUME NEW call \in Calls, Decide(t, call) PROVE OwnPlan(u)'
    <3>1. UNCHANGED approvals /\ plan' = [plan EXCEPT ![Decision(t, call)] = approvals[t].plan]
      BY <2>5 DEF Decide, otherRows
    <3>2. pc'[Message(u)] = pc[Message(u)] /\ plan'[Message(u)] = plan[Message(u)]
      BY <1>0, <2>0, <2>5, <3>1, OthersStay, ThreadFacts DEF Decide, ThreadTypes
    <3> QED  BY <1>0, <3>1, <3>2 DEF OwnPlan, Flagged
  <2>6. ASSUME NEW outcome \in Outcomes, Respond(t, outcome) PROVE OwnPlan(u)'
    <3> DEFINE made == IF outcome.says \in {"parked", "plan"}
                         THEN [turn |-> t, kind |-> outcome.kind] ELSE Nobody
    <3>1. UNCHANGED approvals /\ plan' = [plan EXCEPT ![Message(t)] = made]
      BY <2>6 DEF Respond, store, rows
    <3>2. outcome.says \in {"parked", "plan"} => made \in Plans /\ made.turn = t
      BY OutcomesAssumption DEF Plans
    <3> HIDE DEF made
    <3>3. /\ t # u => pc'[Message(u)] = pc[Message(u)] /\ plan'[Message(u)] = plan[Message(u)]
          /\ pc'[Message(t)] = outcome.says /\ plan'[Message(t)] = made
      BY <1>0, <2>0, <2>6, <3>1, OthersStay, ThreadFacts DEF Respond, ThreadTypes
    <3>4. outcome.says \notin {"submitting", "offering"}
      BY OutcomesAssumption
    <3>5. approvals[t] = Nobody
      BY <1>0, <2>6 DEF Respond, OwnPlan
    <3> QED  BY <1>0, <3>1, <3>2, <3>3, <3>4, <3>5 DEF OwnPlan, Flagged
  <2>7. ASSUME NEW call \in Calls, NEW decision \in {"approved", "rejected"},
               Settle(t, call, decision)
        PROVE  OwnPlan(u)'
    <3>1. UNCHANGED plan /\ WriteDecision(t, decision)
      BY <2>7 DEF Settle
    <3>2. pc'[Message(u)] = pc[Message(u)]
      BY <1>0, <2>0, <2>7, OthersStay, ThreadFacts DEF Settle
    <3>3. approvals'[u] # Nobody => approvals[u] # Nobody /\ approvals'[u].plan = approvals[u].plan
      BY <3>1 DEF WriteDecision, Undecided, ThreadTypes, Approvals
    <3> QED  BY <1>0, <3>1, <3>2, <3>3 DEF OwnPlan, Flagged
  <2> QED  BY <1>4, <2>1, <2>2, <2>3, <2>4, <2>5, <2>6, <2>7 DEF Goes
<1>5. ASSUME NEW thread \in Threads, JobStep(thread), NEW u \in Turns PROVE OwnPlan(u)'
  <2>1. UNCHANGED <<plan, approvals>>
    BY <1>5 DEF JobStep, CreateJob, OfferJob, NoOffer, SaveJob, Say, inTurn, store, rows
  <2>2. \/ pc[thread] = "submitting" /\ Goto(thread, "offering")
        \/ /\ pc[thread] \in {"submitting", "offering", "saving", "saying"}
           /\ \E place \in {"saving", "saying", "over"} : Goto(thread, place)
    BY <1>5 DEF JobStep, CreateJob, OfferJob, NoOffer, SaveJob, Say
  <2>3. thread = Message(u) \/ UNCHANGED pc[Message(u)]
    BY <1>0, <2>2, OthersStay, ThreadFacts
  <2>4. \/ pc[thread] = "submitting" /\ pc'[thread] = "offering"
        \/ /\ pc[thread] \in {"submitting", "offering", "saving", "saying"}
           /\ pc'[thread] \in {"saving", "saying", "over"}
    BY <1>0, <2>2, WentTo DEF Placed
  <2>5. pc[thread] = "saying" => pc'[thread] = "over"
    BY <1>0, <1>5, WentTo DEF Placed, JobStep, CreateJob, OfferJob, NoOffer, SaveJob, Say
  <2> QED  BY <1>0, <2>1, <2>3, <2>4, <2>5 DEF OwnPlan, Flagged
<1> QED  BY <1>1, <1>2, <1>3, <1>4, <1>5 DEF TurnShape

(* What a step is for a thread that carries out a decision. *)
Leaves(d) ==
  /\ pc[d] \in {"submitting", "offering", "saving", "saying"}
  /\ \/ pc'[d] \in {"saving", "saying", "over"}
     \/ pc[d] = "submitting" /\ pc'[d] = "offering" /\ plan'[d] = plan[d]
Takes(d) ==
  /\ approvals[d[1]] # Nobody /\ plan'[d] = approvals[d[1]].plan
  /\ pc'[d] \in {"deciding", "over"} /\ UNCHANGED <<approvals, said>>
Settles(d) ==
  /\ pc[d] = "deciding" /\ plan'[d] = plan[d]
  /\ pc'[d] = "saying" \/ (pc'[d] = "submitting" /\ "approved" \in said'[d[1]])

LEMMA DeciderShape ==
  ASSUME ThreadTypes, TurnShape, NEW d \in Deciders
  PROVE  \/ pc'[d] = pc[d] /\ plan'[d] = plan[d]
         \/ pc'[d] \in {"off", "over"}
         \/ Leaves(d) \/ Takes(d) \/ Settles(d)
<1>0. Placed /\ plan \in [Threads -> Plans \cup {Nobody}]
  BY DEF ThreadTypes, Placed
<1>1. CASE Apart \/ Serves \/ Forgets
  BY <1>1 DEF Apart, Serves, Forgets
<1>2. CASE ReadsAhead
  BY <1>0, <1>2, OthersStay, ThreadFacts DEF ReadsAhead
<1>3. CASE Restarts
  <2>1. pc'[d] = Ended(pc[d])
    BY <1>3, ThreadFacts DEF Restarts
  <2> QED  BY <2>1 DEF Ended
<1>4. ASSUME NEW t \in Turns, Prepares(t) \/ Tell(t) \/ Concludes(t) \/ Parks(t)
      PROVE  pc'[d] = pc[d] /\ plan'[d] = plan[d]
  <2>1. plan' = plan
    BY <1>4 DEF Prepares, Tell, Concludes, Parks, inTurn
  <2>2. pc'[d] = pc[d]
    BY <1>0, <1>4, OthersStay, ThreadFacts DEF Prepares, Tell, Concludes, Parks
  <2> QED  BY <2>1, <2>2
<1>5. ASSUME NEW t \in Turns, NEW outcome \in Outcomes, Respond(t, outcome)
      PROVE  pc'[d] = pc[d] /\ plan'[d] = plan[d]
  <2>1. pc'[d] = pc[d]
    BY <1>0, <1>5, OthersStay, ThreadFacts DEF Respond
  <2>2. plan'[d] = plan[d]
    BY <1>0, <1>5, ThreadFacts DEF Respond
  <2> QED  BY <2>1, <2>2
<1>6. ASSUME NEW t \in Turns, NEW call \in Calls, Decide(t, call)
      PROVE  (pc'[d] = pc[d] /\ plan'[d] = plan[d]) \/ Takes(d)
  <2>1. UNCHANGED <<approvals, said>> /\ approvals[t] # Nobody
    BY <1>6 DEF Decide, otherRows
  <2>2. CASE d = Decision(t, call)
    <3>1. d \in Threads /\ d[1] = t
      BY <2>2, ThreadFacts
    <3>2. plan'[d] = approvals[t].plan
      BY <1>0, <1>6, <2>2, <3>1 DEF Decide
    <3>3. pc'[d] = IF Undecided(t) THEN "deciding" ELSE "over"
      BY <1>0, <1>6, <2>2, <3>1, WentTo DEF Decide, Placed
    <3> QED  BY <2>1, <3>1, <3>2, <3>3 DEF Takes
  <2>3. CASE d # Decision(t, call)
    <3>1. pc'[d] = pc[d]
      BY <1>0, <1>6, <2>3, OthersStay, ThreadFacts DEF Decide
    <3>2. plan'[d] = plan[d]
      BY <1>0, <1>6, <2>3, ThreadFacts DEF Decide
    <3> QED  BY <3>1, <3>2
  <2> QED  BY <2>2, <2>3
<1>7. ASSUME NEW t \in Turns, NEW call \in Calls, NEW decision \in {"approved", "rejected"},
             Settle(t, call, decision)
      PROVE  (pc'[d] = pc[d] /\ plan'[d] = plan[d]) \/ Settles(d)
  <2>1. plan' = plan
    BY <1>7 DEF Settle
  <2>2. CASE d = Decision(t, call)
    <3>1. d \in Threads /\ d[1] = t /\ pc[d] = "deciding"
      BY <1>7, <2>2, ThreadFacts DEF Settle
    <3>2. pc'[d] = IF decision = "approved" THEN "submitting" ELSE "saying"
      BY <1>0, <1>7, <2>2, <3>1, WentTo DEF Settle, Placed
    <3>3. said'[t] = said[t] \cup {decision}
      BY <1>7 DEF Settle, ThreadTypes
    <3> QED  BY <2>1, <3>1, <3>2, <3>3 DEF Settles
  <2>3. CASE d # Decision(t, call)
    BY <1>0, <1>7, <2>1, <2>3, OthersStay, ThreadFacts DEF Settle
  <2> QED  BY <2>2, <2>3
<1>8. ASSUME NEW thread \in Threads, JobStep(thread)
      PROVE  (pc'[d] = pc[d] /\ plan'[d] = plan[d]) \/ Leaves(d)
  <2>1. plan' = plan
    BY <1>8 DEF JobStep, CreateJob, OfferJob, NoOffer, SaveJob, Say, inTurn
  <2>2. /\ pc[thread] \in {"submitting", "offering", "saving", "saying"}
        /\ \/ pc[thread] = "submitting" /\ Goto(thread, "offering")
           \/ \E place \in {"saving", "saying", "over"} : Goto(thread, place)
    BY <1>8 DEF JobStep, CreateJob, OfferJob, NoOffer, SaveJob, Say
  <2>3. CASE thread = d
    BY <1>0, <2>1, <2>2, <2>3, WentTo DEF Placed, Leaves
  <2>4. CASE thread # d
    BY <1>0, <2>1, <2>2, <2>4, OthersStay, ThreadFacts
  <2> QED  BY <2>3, <2>4
<1> QED  BY <1>1, <1>2, <1>3, <1>4, <1>5, <1>6, <1>7, <1>8 DEF TurnShape, Goes

LEMMA PlanStep ==
  ASSUME ThreadTypes, PlanInv, TurnShape
  PROVE  PlanInv'
<1>1. ASSUME NEW d \in Deciders PROVE OwnDecision(d)'
  <2>1. OwnDecision(d) /\ OwnPlan(d[1]) /\ d[1] \in Turns
    BY ThreadFacts DEF PlanInv
  <2>2. CASE Takes(d)
    <3>1. approvals[d[1]].plan \in Plans
      BY <2>1, <2>2 DEF Takes, ThreadTypes, Approvals
    <3> QED  BY <2>1, <2>2, <3>1 DEF Takes, OwnPlan, OwnDecision
  <2>3. CASE ~Takes(d)
    BY <2>1, <2>3, DeciderShape DEF Leaves, Settles, OwnDecision
  <2> QED  BY <2>2, <2>3
<1> QED  BY <1>1, OwnPlanStep DEF PlanInv

LEMMA ParkedIsKept ==
  ASSUME NEW some \in Plans, NEW decision \in {"pending", "approved", "rejected"}
  PROVE  /\ [plan |-> some, decision |-> decision] \in Approvals
         /\ [plan |-> some, decision |-> decision] # Nobody
         /\ Parked(some) \in Approvals /\ Parked(some) # Nobody
<1>1. [plan |-> some, decision |-> decision] \in Approvals /\ Parked(some) \in Approvals
  BY DEF Approvals, Parked
<1> QED  BY <1>1, StoreAssumption

(* What a step does to the row of a parked plan, and to what the user said   *)
(* of it, until the project is deleted.                                      *)
RowParks(t) ==
  /\ approvals[t] = Nobody /\ said'[t] = said[t]
  /\ approvals'[t] # Nobody /\ approvals'[t].decision = "pending"
RowSettles(t, decision) ==
  /\ approvals[t] # Nobody /\ approvals'[t] # Nobody
  /\ approvals'[t].plan = approvals[t].plan
  /\ approvals'[t].decision = IF approvals[t].decision = "pending"
                                THEN decision ELSE approvals[t].decision
  /\ said'[t] = said[t] \cup {decision}

LEMMA RowShape ==
  ASSUME ThreadTypes, PlanInv, ApprovedInv, TurnShape, ~erased', NEW u \in Turns
  PROVE  \/ approvals'[u] = approvals[u] /\ said'[u] = said[u]
         \/ RowParks(u)
         \/ \E decision \in {"approved", "rejected"} : RowSettles(u, decision)
<1>0. ~Forgets /\ ~erased
  BY DEF Forgets, TurnShape, Apart, Serves, ReadsAhead, Restarts, desk
<1>1. CASE Apart \/ Serves \/ ReadsAhead \/ Restarts
  BY <1>1 DEF Apart, Serves, ReadsAhead, Restarts, desk
<1>2. ASSUME NEW t \in Turns, Parks(t)
      PROVE  (approvals'[u] = approvals[u] /\ said'[u] = said[u]) \/ RowParks(u)
  <2>1. /\ approvals' = [approvals EXCEPT ![t] = Parked(plan[Message(t)])]
        /\ said' = said /\ approvals[t] = Nobody /\ plan[Message(t)] \in Plans
    BY <1>2 DEF Parks, AddApproval, PlanInv, OwnPlan
  <2>2. CASE t = u
    <3>1. approvals'[u] = Parked(plan[Message(t)])
      BY <2>1, <2>2 DEF ThreadTypes
    <3>2. Parked(plan[Message(t)]) # Nobody /\ Parked(plan[Message(t)]).decision = "pending"
      BY <2>1, ParkedIsKept DEF Parked
    <3> QED  BY <2>1, <2>2, <3>1, <3>2 DEF RowParks
  <2>3. CASE t # u
    BY <2>1, <2>3 DEF ThreadTypes
  <2> QED  BY <2>2, <2>3
<1>3. ASSUME NEW t \in Turns, NEW call \in Calls, NEW decision \in {"approved", "rejected"},
             Settle(t, call, decision)
      PROVE  (approvals'[u] = approvals[u] /\ said'[u] = said[u]) \/ RowSettles(u, decision)
  <2>1. WriteDecision(t, decision) /\ said' = [said EXCEPT ![t] = @ \cup {decision}]
    BY <1>3 DEF Settle
  <2>2. CASE t = u
    <3>1. approvals[u] # Nobody /\ approvals[u] \in Approvals
      <4>1. pc[Decision(t, call)] = "deciding"
        BY <1>3 DEF Settle
      <4>2. Decision(t, call) \in Deciders /\ Decision(t, call)[1] = t
        BY ThreadFacts
      <4>3. Approved(Decision(t, call))
        BY <1>0, <4>2 DEF ApprovedInv
      <4>4. approvals[t] # Nobody
        BY <4>1, <4>2, <4>3 DEF Approved
      <4>5. approvals[t] \in Approvals \cup {Nobody}
        BY DEF ThreadTypes
      <4> QED  BY <2>2, <4>4, <4>5
    <3>2. said'[u] = said[u] \cup {decision}
      BY <2>1, <2>2 DEF ThreadTypes
    <3>3. CASE approvals[u].decision = "pending"
      <4>1. approvals'[u] = [approvals[u] EXCEPT !.decision = decision]
        BY <2>1, <2>2, <3>1, <3>3 DEF WriteDecision, Undecided, ThreadTypes
      <4>2. [approvals[u] EXCEPT !.decision = decision] \in Approvals
        BY <3>1 DEF Approvals
      <4>3. approvals'[u] # Nobody
        BY <4>1, <4>2, StoreAssumption
      <4>4. approvals'[u].plan = approvals[u].plan /\ approvals'[u].decision = decision
        BY <3>1, <4>1 DEF Approvals
      <4> QED  BY <3>1, <3>2, <3>3, <4>3, <4>4 DEF RowSettles
    <3>4. CASE approvals[u].decision # "pending"
      <4>1. approvals' = approvals
        BY <2>1, <2>2, <3>4 DEF WriteDecision, Undecided
      <4> QED  BY <3>1, <3>2, <3>4, <4>1 DEF RowSettles
    <3> QED  BY <3>3, <3>4
  <2>3. CASE t # u
    BY <2>1, <2>3 DEF WriteDecision, ThreadTypes
  <2> QED  BY <2>2, <2>3
<1>4. ASSUME NEW t \in Turns,
             \/ Prepares(t) \/ Tell(t) \/ Concludes(t)
             \/ \E call \in Calls : Decide(t, call)
      PROVE  UNCHANGED <<approvals, said>>
  BY <1>4 DEF Prepares, Tell, Concludes, Decide, desk, otherRows, inTurn
<1>5. ASSUME NEW t \in Turns, NEW outcome \in Outcomes, Respond(t, outcome)
      PROVE  UNCHANGED <<approvals, said>>
  BY <1>5 DEF Respond, store, rows
<1>6. ASSUME NEW thread \in Threads, JobStep(thread) PROVE UNCHANGED <<approvals, said>>
  BY <1>6 DEF JobStep, CreateJob, OfferJob, NoOffer, SaveJob, Say, store, rows, inTurn
<1> QED  BY <1>0, <1>1, <1>2, <1>3, <1>4, <1>5, <1>6 DEF TurnShape, Goes

LEMMA ApprovedStep ==
  ASSUME ThreadTypes, PlanInv, ApprovedInv, TurnShape
  PROVE  ApprovedInv'
<1> SUFFICES ASSUME ~erased'
             PROVE  /\ \A d \in Deciders : Approved(d)'
                    /\ \A t \in Turns : Settled(approvals'[t], said'[t])
  BY DEF ApprovedInv
<1>0. ~erased
  BY DEF Forgets, TurnShape, Apart, Serves, ReadsAhead, Restarts, desk
<1>1. ASSUME NEW t \in Turns PROVE Settled(approvals'[t], said'[t])
  BY <1>0, RowShape DEF ApprovedInv, Settled, RowParks, RowSettles
<1>2. ASSUME NEW d \in Deciders PROVE Approved(d)'
  <2>1. Approved(d) /\ d[1] \in Turns
    BY <1>0, ThreadFacts DEF ApprovedInv
  <2>2. /\ approvals[d[1]] # Nobody =>
             approvals'[d[1]] # Nobody /\ approvals'[d[1]].plan = approvals[d[1]].plan
        /\ said[d[1]] \subseteq said'[d[1]]
    BY <2>1, RowShape DEF RowParks, RowSettles
  <2> QED  BY <2>1, <2>2, DeciderShape DEF Approved, Leaves, Takes, Settles
<1> QED  BY <1>1, <1>2

(* An offer the user has a say in, and whether the user did, by the row of   *)
(* its turn and what the user said of it.                                    *)
Sanctioned(offer, row, decisions) ==
  offer # ReadJob /\ Flagged(offer.plan) =>
    /\ row[offer.plan.turn] # Nobody /\ row[offer.plan.turn].plan = offer.plan
    /\ "approved" \in decisions[offer.plan.turn]
    /\ row[offer.plan.turn].decision \in decisions[offer.plan.turn]

LEMMA SanctionedOffers ==
  ASSUME ~erased, FlaggedRunsOnlyIfApproved
  PROVE  \A i \in DOMAIN offers : Sanctioned(offers[i], approvals, said)
BY DEF Sanctioned, FlaggedRunsOnlyIfApproved

LEMMA FlaggedStep ==
  ASSUME ThreadTypes, PlanInv, ApprovedInv, FlaggedRunsOnlyIfApproved, TurnShape
  PROVE  FlaggedRunsOnlyIfApproved'
<1> SUFFICES ASSUME ~erased'
             PROVE  \A i \in DOMAIN offers' : Sanctioned(offers'[i], approvals', said')
  BY DEF FlaggedRunsOnlyIfApproved, Sanctioned
<1>1. ~erased
  BY DEF TurnShape, Apart, Serves, ReadsAhead, Restarts, Forgets, desk
<1>2. ASSUME NEW offer \in {ReadJob} \cup PlanJobs, Sanctioned(offer, approvals, said)
      PROVE  Sanctioned(offer, approvals', said')
  <2>1. CASE offer # ReadJob /\ Flagged(offer.plan)
    <3> DEFINE t == offer.plan.turn
    <3>1. t \in Turns
      BY <2>1 DEF PlanJobs, Plans
    <3>2. /\ approvals[t] # Nobody /\ approvals[t].plan = offer.plan
          /\ "approved" \in said[t] /\ approvals[t].decision \in said[t]
      BY <1>2, <2>1 DEF Sanctioned
    <3>3. approvals[t].decision # "pending"
      BY <3>1, <3>2 DEF ThreadTypes
    <3>4. /\ approvals'[t] # Nobody /\ approvals'[t].plan = offer.plan
          /\ "approved" \in said'[t] /\ approvals'[t].decision \in said'[t]
      BY <3>1, <3>2, <3>3, RowShape DEF RowParks, RowSettles
    <3> QED  BY <3>4 DEF Sanctioned
  <2>2. CASE ~(offer # ReadJob /\ Flagged(offer.plan))
    BY <2>2 DEF Sanctioned, Flagged
  <2> QED  BY <2>1, <2>2
<1>3. ASSUME NEW thread \in Threads, JobStep(thread), Offering(thread)
      PROVE  LET offer == [read |-> FALSE, plan |-> plan[thread]]
             IN  offer \in {ReadJob} \cup PlanJobs /\ Sanctioned(offer, approvals, said)
  <2>0. pc[thread] = "offering"
    BY <1>3 DEF Offering
  <2>1. ASSUME NEW t \in Turns, thread = Message(t)
        PROVE  plan[thread] \in Plans /\ ~Flagged(plan[thread])
    BY <2>0, <2>1 DEF PlanInv, OwnPlan
  <2>2. CASE thread \in Deciders
    <3>1. /\ plan[thread] \in Plans /\ plan[thread].turn = thread[1] /\ thread[1] \in Turns
      BY <2>0, <2>2, ThreadFacts DEF PlanInv, OwnDecision
    <3>2. /\ approvals[thread[1]] # Nobody /\ approvals[thread[1]].plan = plan[thread]
          /\ "approved" \in said[thread[1]]
      BY <1>1, <2>0, <2>2 DEF ApprovedInv, Approved
    <3>3. approvals[thread[1]].decision \in said[thread[1]]
      BY <1>1, <3>1, <3>2 DEF ApprovedInv, Settled
    <3> QED  BY <3>1, <3>2, <3>3 DEF Sanctioned, PlanJobs
  <2>3. thread \in Deciders \/ \E t \in Turns : thread = Message(t)
    BY <1>3, JobThread
  <2>4. CASE \E t \in Turns : thread = Message(t)
    BY <2>1, <2>4 DEF Sanctioned, PlanJobs
  <2> QED  BY <2>2, <2>3, <2>4
<1>4. /\ offers \in Seq({ReadJob} \cup PlanJobs)
      /\ \A i \in 1 .. Len(offers) : Sanctioned(offers[i], approvals, said)
  BY <1>1, SanctionedOffers DEF ThreadTypes
<1>5. \A i \in 1 .. Len(offers) : Sanctioned(offers[i], approvals', said')
  <2> TAKE i \in 1 .. Len(offers)
  <2>1. offers[i] \in {ReadJob} \cup PlanJobs /\ Sanctioned(offers[i], approvals, said)
    BY <1>4
  <2> QED  BY <1>2, <2>1
<1>6. CASE offers' = offers \/ offers' = <<>>
  BY <1>4, <1>5, <1>6
<1>7. CASE offers # <<>> /\ offers' = Tail(offers)
  <2>1. \A i \in DOMAIN offers' : i + 1 \in 1 .. Len(offers) /\ offers'[i] = offers[i + 1]
    BY <1>4, <1>7
  <2> QED  BY <1>5, <2>1
<1>8. ASSUME NEW offer \in {ReadJob} \cup PlanJobs, Sanctioned(offer, approvals', said'),
             offers' = Append(offers, offer)
      PROVE  \A i \in DOMAIN offers' : Sanctioned(offers'[i], approvals', said')
  <2>1. \A i \in DOMAIN offers' : offers'[i] = offer \/ (i \in 1 .. Len(offers) /\ offers'[i] = offers[i])
    BY <1>4, <1>8
  <2> QED  BY <1>5, <1>8, <2>1
<1>9. Sanctioned(ReadJob, approvals', said')
  BY DEF Sanctioned
<1>10. ASSUME NEW thread \in Threads, JobStep(thread), Offering(thread)
       PROVE  \A i \in DOMAIN offers' : Sanctioned(offers'[i], approvals', said')
  <2> DEFINE made == [read |-> FALSE, plan |-> plan[thread]]
  <2>1. /\ made \in {ReadJob} \cup PlanJobs /\ Sanctioned(made, approvals', said')
        /\ offers' = Append(offers, made)
    BY <1>2, <1>3, <1>10 DEF Offering
  <2> HIDE DEF made
  <2> QED  BY <1>8, <2>1
<1> QED  BY <1>6, <1>7, <1>8, <1>9, <1>10, OfferShape

-------------------------------------------------------------------------------
(* What the user said. *)

LEMMA SaidStays ==
  ASSUME ThreadTypes, TurnShape, ~erased', NEW request, Said(request)
  PROVE  Said(request)'
<1>0. transcript \in Seq(Messages)
  BY DEF ThreadTypes
<1>1. ASSUME NEW t \in Turns, Goes(t)
      PROVE  transcript' = transcript \/ \E message \in Messages : transcript' = Append(transcript, message)
  <2>1. CASE Tell(t)
    <3>1. [role |-> "user", request |-> RequestOf[t]] \in Messages
      BY IdentityFacts DEF Messages
    <3> QED  BY <2>1, <3>1 DEF Tell, AppendMessage
  <2>2. CASE ~Tell(t)
    BY <1>1, <2>2 DEF Goes, Prepares, Concludes, Parks, Decide, Respond, Settle, desk, otherRows,
                      store, rows
  <2> QED  BY <2>1, <2>2
<1>2. ASSUME NEW thread \in Threads, JobStep(thread)
      PROVE  transcript' = transcript \/ \E message \in Messages : transcript' = Append(transcript, message)
  <2>1. CASE Say(thread)
    <3>1. [role |-> "assistant", request |-> RequestOf[thread[1]]] \in Messages
      BY <1>2, JobThread, IdentityFacts DEF Messages
    <3> QED  BY <2>1, <3>1 DEF Say, AppendMessage
  <2>2. CASE ~Say(thread)
    BY <1>2, <2>2 DEF JobStep, CreateJob, OfferJob, NoOffer, SaveJob, store, rows
  <2> QED  BY <2>1, <2>2
<1>3. transcript' = transcript \/ \E message \in Messages : transcript' = Append(transcript, message)
  BY <1>1, <1>2 DEF TurnShape, Apart, Serves, ReadsAhead, Restarts, Forgets, desk
<1>4. PICK i \in 1 .. Len(transcript) : transcript[i] = [role |-> "user", request |-> request]
  BY <1>0 DEF Said
<1>5. i \in DOMAIN transcript' /\ transcript'[i] = transcript[i]
  BY <1>0, <1>3, <1>4
<1> QED  BY <1>4, <1>5 DEF Said

(* A turn gets past Tell by telling, and a decision starts from a parked plan. *)
LEMMA Telling ==
  ASSUME ThreadTypes, TurnShape
  PROVE  /\ \A u \in Turns :
              pc'[Message(u)] \in Untold \/ pc[Message(u)] \notin Untold \/ Tell(u)
         /\ \A d \in Deciders :
              pc'[d] \in Untold \/ pc[d] \notin Untold \/ approvals[d[1]] # Nobody
<1>0. Placed
  BY DEF ThreadTypes, Placed
<1>1. ASSUME NEW d \in Deciders
      PROVE  pc'[d] \in Untold \/ pc[d] \notin Untold \/ approvals[d[1]] # Nobody
  BY DeciderShape DEF Leaves, Takes, Settles, Untold
<1>2. ASSUME NEW u \in Turns
      PROVE  pc'[Message(u)] \in Untold \/ pc[Message(u)] \notin Untold \/ Tell(u)
  <2>1. CASE Apart \/ Serves \/ Forgets
    BY <2>1 DEF Apart, Serves, Forgets
  <2>2. CASE ReadsAhead
    BY <1>0, <2>2, OthersStay, ThreadFacts DEF ReadsAhead
  <2>3. CASE Restarts
    BY <2>3, ThreadFacts DEF Restarts, Ended, Untold
  <2>4. ASSUME NEW t \in Turns, Prepares(t) \/ Tell(t) \/ Concludes(t) \/ Parks(t)
        PROVE  pc'[Message(u)] \in Untold \/ pc[Message(u)] \notin Untold \/ Tell(u)
    BY <1>0, <2>4, OthersStay, ThreadFacts DEF Prepares, Tell, Concludes, Parks, Untold, Preparing
  <2>5. ASSUME NEW t \in Turns, NEW outcome \in Outcomes, Respond(t, outcome)
        PROVE  pc'[Message(u)] = pc[Message(u)] \/ pc[Message(u)] \notin Untold
    BY <1>0, <2>5, OthersStay, ThreadFacts DEF Respond, Untold
  <2>6. ASSUME NEW t \in Turns, NEW call \in Calls,
               \/ Decide(t, call)
               \/ \E decision \in {"approved", "rejected"} : Settle(t, call, decision)
        PROVE  pc'[Message(u)] = pc[Message(u)]
    <3>1. \E place : Goto(Decision(t, call), place)
      BY <2>6 DEF Decide, Settle
    <3> QED  BY <1>0, <3>1, OthersStay, ThreadFacts
  <2>7. ASSUME NEW thread \in Threads, JobStep(thread)
        PROVE  pc'[Message(u)] = pc[Message(u)] \/ pc[Message(u)] \notin Untold
    <3>1. /\ pc[thread] \notin Untold
          /\ \E place : Goto(thread, place)
      BY <2>7 DEF JobStep, CreateJob, OfferJob, NoOffer, SaveJob, Say, Untold
    <3> QED  BY <1>0, <3>1, OthersStay, ThreadFacts
  <2> QED  BY <2>1, <2>2, <2>3, <2>4, <2>5, <2>6, <2>7 DEF TurnShape, Goes
<1> QED  BY <1>1, <1>2

LEMMA ToldStep ==
  ASSUME ThreadTypes, ToldInv, EffectsAreExplained, TurnShape
  PROVE  ToldInv'
<1> SUFFICES ASSUME ~erased'
             PROVE  /\ \A u \in Turns : pc'[Message(u)] \notin Untold => Said(RequestOf[u])'
                    /\ \A d \in Deciders : pc'[d] \notin Untold => Said(RequestOf[d[1]])'
  BY DEF ToldInv
<1>0. ~erased
  BY DEF TurnShape, Apart, Serves, ReadsAhead, Restarts, Forgets, desk
<1>1. ASSUME NEW u \in Turns PROVE Said(RequestOf[u]) => Said(RequestOf[u])'
  BY SaidStays
<1>2. ASSUME NEW u \in Turns, Tell(u) PROVE Said(RequestOf[u])'
  <2>1. transcript' = Append(transcript, [role |-> "user", request |-> RequestOf[u]])
    BY <1>2 DEF Tell, AppendMessage
  <2>2. /\ Len(transcript) + 1 \in DOMAIN transcript'
        /\ transcript'[Len(transcript) + 1] = [role |-> "user", request |-> RequestOf[u]]
    BY <2>1 DEF ThreadTypes
  <2> QED  BY <2>2 DEF Said
<1>3. ASSUME NEW u \in Turns, pc'[Message(u)] \notin Untold PROVE Said(RequestOf[u])'
  BY <1>0, <1>1, <1>2, <1>3, Telling DEF ToldInv
<1>4. ASSUME NEW d \in Deciders, pc'[d] \notin Untold PROVE Said(RequestOf[d[1]])'
  <2>1. d[1] \in Turns
    BY ThreadFacts
  <2>2. Said(RequestOf[d[1]])
    BY <1>0, <1>4, <2>1, Telling DEF ToldInv, EffectsAreExplained
  <2> QED  BY <1>1, <2>1, <2>2
<1> QED  BY <1>3, <1>4

(* Said, of any transcript. *)
Heard(trail, request) ==
  \E i \in DOMAIN trail : trail[i] = [role |-> "user", request |-> request]

LEMMA EffectsStep ==
  ASSUME ThreadTypes, ToldInv, EffectsAreExplained, TurnShape
  PROVE  EffectsAreExplained'
<1> SUFFICES ASSUME ~erased'
             PROVE  /\ \A i \in DOMAIN clarifications' : Heard(transcript', RequestOf[clarifications'[i].turn])
                    /\ \A t \in Turns : approvals'[t] # Nobody => Heard(transcript', RequestOf[t])
                    /\ \A j \in Identities : jobs'[j] # Nobody => Heard(transcript', j[1])
  BY DEF EffectsAreExplained, Said, Heard
<1>0. Placed /\ ~erased /\ ~Forgets
  BY DEF ThreadTypes, Placed, TurnShape, Apart, Serves, ReadsAhead, Restarts, Forgets, desk
<1>1. \A request : Said(request) => Heard(transcript', request)
  BY SaidStays DEF Said, Heard
<1>2. /\ \A i \in DOMAIN clarifications : Said(RequestOf[clarifications[i].turn])
      /\ \A t \in Turns : approvals[t] # Nobody => Said(RequestOf[t])
      /\ \A j \in Identities : jobs[j] # Nobody => Said(j[1])
  BY <1>0 DEF EffectsAreExplained
<1>3. /\ clarifications \in Seq(Questions) /\ approvals \in [Turns -> Approvals \cup {Nobody}]
      /\ jobs \in [Identities -> {"queued", "held", Nobody}]
  BY DEF ThreadTypes
<1>4. \A i \in DOMAIN clarifications' : Heard(transcript', RequestOf[clarifications'[i].turn])
  <2>1. CASE Resolves
    <3>1. \A i \in DOMAIN clarifications' :
            i \in DOMAIN clarifications /\ clarifications'[i].turn = clarifications[i].turn
      BY <1>3, <2>1 DEF Resolves
    <3> QED  BY <1>1, <1>2, <3>1
  <2>2. ASSUME NEW t \in Turns, Concludes(t), Asks(t)
        PROVE  \A i \in DOMAIN clarifications' : Heard(transcript', RequestOf[clarifications'[i].turn])
    <3> DEFINE question == [turn |-> t, open |-> TRUE]
    <3>1. question \in Questions /\ question.turn = t
      BY DEF Questions
    <3>2. clarifications' = Append(clarifications, question)
      BY <2>2 DEF Asks
    <3> HIDE DEF question
    <3>3. \A i \in DOMAIN clarifications' :
            clarifications'[i] = question \/ (i \in DOMAIN clarifications /\ clarifications'[i] = clarifications[i])
      BY <1>3, <3>1, <3>2
    <3>4. Said(RequestOf[t])
      BY <1>0, <2>2 DEF Concludes, ToldInv, Untold
    <3> QED  BY <1>1, <1>2, <3>1, <3>3, <3>4
  <2>3. CASE UNCHANGED clarifications
    BY <1>1, <1>2, <2>3
  <2>4. \/ Resolves \/ UNCHANGED clarifications
        \/ \E t \in Turns : Concludes(t) /\ Asks(t)
    <3>1. ASSUME NEW t \in Turns, Goes(t)
          PROVE  Resolves \/ UNCHANGED clarifications \/ (Concludes(t) /\ Asks(t))
      BY <3>1 DEF Goes, Prepares, Tell, Concludes, Parks, Decide, Respond, Settle, desk, otherRows,
                  store, rows
    <3>2. ASSUME NEW thread \in Threads, JobStep(thread) PROVE UNCHANGED clarifications
      BY <3>2 DEF JobStep, CreateJob, OfferJob, NoOffer, SaveJob, Say, store, rows
    <3> QED  BY <1>0, <3>1, <3>2 DEF TurnShape, Apart, Serves, ReadsAhead, Restarts, desk
  <2> QED  BY <2>1, <2>2, <2>3, <2>4
<1>5. ASSUME NEW u \in Turns, approvals'[u] # Nobody PROVE Heard(transcript', RequestOf[u])
  <2>1. CASE Parks(u)
    BY <1>0, <1>1, <2>1 DEF Parks, ToldInv, Untold
  <2>2. CASE ~Parks(u)
    <3>1. ASSUME NEW t \in Turns, Goes(t) PROVE approvals'[u] # Nobody => approvals[u] # Nobody
      <4>1. CASE Parks(t)
        BY <1>3, <2>2, <4>1 DEF Parks, AddApproval
      <4>2. ASSUME NEW call, NEW decision, Settle(t, call, decision)
            PROVE  approvals'[u] # Nobody => approvals[u] # Nobody
        BY <1>3, <4>2 DEF Settle, WriteDecision, Undecided
      <4>3. ASSUME NEW outcome, Respond(t, outcome) PROVE approvals' = approvals
        BY <4>3 DEF Respond, store, rows
      <4> QED  BY <3>1, <4>1, <4>2, <4>3 DEF Goes, Prepares, Tell, Concludes, Decide, desk, otherRows
    <3>2. ASSUME NEW thread \in Threads, JobStep(thread) PROVE approvals' = approvals
      BY <3>2 DEF JobStep, CreateJob, OfferJob, NoOffer, SaveJob, Say, store, rows
    <3>3. approvals[u] # Nobody
      BY <1>0, <1>5, <3>1, <3>2 DEF TurnShape, Apart, Serves, ReadsAhead, Restarts, desk
    <3> QED  BY <1>1, <1>2, <3>3
  <2> QED  BY <2>1, <2>2
<1>6. ASSUME NEW j \in Identities, jobs'[j] # Nobody PROVE Heard(transcript', j[1])
  <2>1. CASE jobs[j] # Nobody
    BY <1>1, <1>2, <2>1
  <2>2. ASSUME NEW thread \in Threads, JobStep(thread), jobs[j] = Nobody
        PROVE  Heard(transcript', j[1])
    <3>1. PICK t \in Turns : thread = Message(t) \/ (thread \in Deciders /\ thread[1] = t)
      BY <2>2, JobThread, ThreadFacts
    <3>2. Identity(thread) \in Identities /\ Identity(thread)[1] = RequestOf[t]
      BY <3>1, IdentityFacts
    <3>3. j = Identity(thread)
      BY <1>3, <1>6, <2>2, <3>2 DEF JobStep, CreateJob, OfferJob, NoOffer, SaveJob, Say, store, rows
    <3>4. Said(RequestOf[t])
      BY <1>0, <2>2, <3>1, JobThread DEF ToldInv, Untold
    <3> QED  BY <1>1, <3>2, <3>3, <3>4
  <2>3. ASSUME NEW t \in Turns, Goes(t) PROVE jobs' = jobs
    BY <2>3 DEF Goes, Prepares, Tell, Concludes, Parks, Decide, Respond, Settle, desk, otherRows,
                store, rows
  <2> QED  BY <1>0, <1>6, <2>1, <2>2, <2>3 DEF TurnShape, Apart, Serves, ReadsAhead, Restarts, desk
<1> QED  BY <1>4, <1>5, <1>6

LEMMA TurnsStep ==
  ASSUME TurnsInv, [Next]_vars
  PROVE  TurnsInv'
<1>1. TurnShape
  BY Shapes DEF TurnsInv
<1>2. ThreadTypes' /\ PlanInv' /\ ApprovedInv'
  BY <1>1, ThreadTypesStep, PlanStep, ApprovedStep DEF TurnsInv
<1>3. ToldInv' /\ EffectsAreExplained' /\ FlaggedRunsOnlyIfApproved'
  BY <1>1, ToldStep, EffectsStep, FlaggedStep DEF TurnsInv
<1> QED  BY <1>2, <1>3 DEF TurnsInv

-------------------------------------------------------------------------------
(* Uploads: the steps sorted by what they do to the references and their     *)
(* files, to the event loop and to the deletions.                            *)
fileSide == <<references, files, loop, requests>>
erasures == <<erasing, erased>>

Observes ==
  /\ loop' \in {Free} \cup Observed
  /\ UNCHANGED <<references, files, requests, erasures>>

Erases ==
  \/ /\ ListArtifacts \/ EraseArtifacts
     /\ erasing'.at \in {"rows", "over"} /\ UNCHANGED <<fileSide, erased>>
  \/ /\ EraseRows
     /\ references' = {} /\ erased' = TRUE
     /\ UNCHANGED <<files, loop, requests>>
  \/ EraseFiles /\ erasing.at = "files" /\ UNCHANGED <<references, loop, requests, erased>>

FileShape ==
  \/ UNCHANGED <<fileSide, erasures>>
  \/ Observes
  \/ UNCHANGED erasures /\ ((\E u \in Uploads : UploadStep(u)) \/ Ingest)
  \/ Erases \/ RestartControlPlane

LEMMA FileShapes ==
  ASSUME ReportTypes, [Next]_vars
  PROVE  FileShape
<1> USE DEF fileSide, erasures, Besides, Alongside, erasure, store, rows, bytes, inTurn, otherRows,
            grounding, elsewhere, elsewhere2, untouched, requests
<1>0. CASE UNCHANGED vars
  BY <1>0 DEF vars, FileShape
<1>1. ASSUME NEW t \in Turns, NEW s \in Sessions, MessageArrives(t, s) PROVE FileShape
  BY <1>1 DEF MessageArrives, Submit, FileShape
<1>2. ASSUME NEW t \in Turns, TurnGoesOn(t) PROVE FileShape
  <2>1. UNCHANGED fileSide
    BY <1>2 DEF TurnGoesOn, TurnStep, Tell, ConsiderScene, Plan, Select, Deliver, Respond, GiveUp,
                Answer, Ask, Park, Settle
  <2> QED  BY <1>2, <2>1 DEF TurnGoesOn, FileShape
<1>3. ASSUME NEW t \in Turns, UserDecides(t) PROVE FileShape
  BY <1>3 DEF UserDecides, Decide, FileShape
<1>4. ASSUME NEW thread \in Threads, JobGoesOn(thread) PROVE FileShape
  BY <1>4 DEF JobGoesOn, JobStep, CreateJob, OfferJob, NoOffer, SaveJob, Say, FileShape
<1>5. ASSUME NEW thread \in Threads, ReadGoesOn(thread) PROVE FileShape
  BY <1>5 DEF ReadGoesOn, ReadStep, Ensure, OfferRead, MarkInFlight, SceneIsThere, WaitIsOver,
              FileShape
<1>6. CASE WorkerSaysHello
  BY <1>6 DEF WorkerSaysHello, HelloArrives, FileShape
<1>7. CASE WorkerWorks
  BY <1>7 DEF WorkerWorks, WorkerStep, WorkerReads, WorkerRunsPlan, WorkerRefuses, FileShape
<1>8. CASE ReportIsObserved
  <2>1. CASE ObserveScene
    <3>0. reports \in Seq(Results) /\ reports # <<>>
      BY <2>1 DEF ObserveScene, ReportTypes
    <3>1. Head(reports) \in Results
      BY <3>0
    <3>2. [at |-> "artifact", version |-> Head(reports).version] \in Observed
      BY <3>1 DEF Observed, Results
    <3> QED  BY <1>8, <2>1, <3>2 DEF ReportIsObserved, ObserveScene, Observes, FileShape
  <2> QED  BY <1>8, <2>1 DEF ReportIsObserved, ReporterStep, ObserveArtifact, Observes, FileShape
<1>9. ASSUME NEW u \in Uploads, UploadGoesOn(u) PROVE FileShape
  BY <1>9 DEF UploadGoesOn, FileShape
<1>10. CASE IngestGoesOn
  BY <1>10 DEF IngestGoesOn, FileShape
<1>11. CASE OpenProject \/ MarkOpened
  BY <1>11 DEF OpenProject, MarkOpened, FileShape
<1>12. CASE ListArtifacts \/ EraseArtifacts
  BY <1>12 DEF ListArtifacts, EraseArtifacts, ErasureLeaves, Erases, FileShape
<1>13. CASE EraseRows \/ EraseFiles
  BY <1>13 DEF EraseRows, EraseFiles, DeleteRows, ErasureLeaves, Erases, FileShape
<1>14. CASE RestartControlPlane
  BY <1>14 DEF FileShape
<1> QED  BY <1>0, <1>1, <1>2, <1>3, <1>4, <1>5, <1>6, <1>7, <1>8, <1>9, <1>10, <1>11, <1>12,
            <1>13, <1>14 DEF Next, Erase

(* What the event loop has in hand. *)
InHand == Id(loop.upload, loop.page)

LEMMA LoopFacts ==
  ASSUME FileTypes
  PROVE  /\ loop = Free => ~Ingesting
         /\ loop \in Observed => ~Ingesting
         /\ Ingesting => /\ loop \in Loads /\ loop.upload \in Uploads /\ loop.page \in 0 .. Pages
                         /\ InHand \in Ids
                         /\ InHand.upload = loop.upload /\ InHand.page = loop.page
<1>1. loop = Free => ~Ingesting
  BY DEF Free, Ingesting
<1>2. loop \in Observed => ~Ingesting
  BY DEF Observed, Ingesting
<1>3. Ingesting => loop \in Loads
  BY <1>1, <1>2 DEF FileTypes
<1>4. loop \in Loads => loop.upload \in Uploads /\ loop.page \in 0 .. Pages
  BY DEF Loads
<1>5. loop.upload \in Uploads /\ loop.page \in 0 .. Pages => InHand \in Ids
  BY DEF InHand, Id, Ids
<1> QED  BY <1>1, <1>2, <1>3, <1>4, <1>5 DEF InHand, Id

(* A reference that was added is not the page in hand. *)
LEMMA AddedIsPast ==
  ASSUME FileTypes, NEW id, Added(id)
  PROVE  /\ id \in Ids /\ id.upload \in Uploads
         /\ Ingesting => id # InHand
<1>1. id \in Ids /\ id.upload \in Uploads /\ id.page \in Nat
  BY StoreAssumption DEF Added, Ids
<1>2. ASSUME Ingesting, id = InHand PROVE FALSE
  <2>1. id.upload = loop.upload /\ id.page = loop.page
    BY <1>2, LoopFacts
  <2>2. id.page < loop.page
    BY <1>2, <2>1 DEF Added
  <2> QED  BY <1>1, <2>1, <2>2
<1> QED  BY <1>1, <1>2

Deletions == [at : {"no", "over"}] \cup [at : {"reading", "unlinking"}, ids : SUBSET Ids]

(* The next page of a PDF. *)
LEMMA NextPage ==
  ASSUME FileTypes, loop.at = "derive", MorePages,
         loop' = [loop EXCEPT !.at = "write", !.page = @ + 1]
  PROVE  /\ loop' \in Loads /\ loop'.at = "write"
         /\ loop'.upload = loop.upload /\ loop'.page = loop.page + 1
<1>1. loop \in Loads /\ loop.page \in 0 .. Pages /\ loop.page < Pages
  BY LoopFacts DEF Ingesting, MorePages
<1>2. loop.page + 1 \in 0 .. Pages
  BY <1>1, StoreAssumption
<1>3. loop' = [at |-> "write", upload |-> loop.upload, page |-> loop.page + 1]
  BY <1>1 DEF Loads
<1>4. loop.upload \in Uploads
  BY <1>1 DEF Loads
<1> QED  BY <1>2, <1>3, <1>4 DEF Loads

LEMMA FileTypesStep ==
  ASSUME FileTypes, AddedInv, FileShape
  PROVE  FileTypes'
<1> DEFINE Loop == loop' \in {Free} \cup Observed \cup Loads
           Loading == uploading' \in [Uploads -> {"no", "waits", "over"}]
           Deleting == deleting' \in [Uploads -> Deletions]
<1> SUFFICES Loop /\ Loading /\ Deleting
  BY DEF FileTypes, Deletions
<1>0. /\ loop \in {Free} \cup Observed \cup Loads
      /\ uploading \in [Uploads -> {"no", "waits", "over"}]
      /\ deleting \in [Uploads -> Deletions]
  BY DEF FileTypes, Deletions
<1>1. CASE UNCHANGED fileSide \/ Observes \/ Erases
  BY <1>0, <1>1 DEF fileSide, requests, Observes, Erases
<1>2. ASSUME NEW u \in Uploads, UploadStep(u) PROVE Loop /\ Loading /\ Deleting
  <2>1. CASE BeginUpload(u) \/ TurnAway(u)
    BY <1>0, <2>1 DEF BeginUpload, TurnAway
  <2>2. CASE TakeIn(u)
    <3>1. [at |-> "write", upload |-> u, page |-> 0] \in Loads
      BY StoreAssumption DEF Loads
    <3> QED  BY <1>0, <2>2, <3>1 DEF TakeIn
  <2>3. CASE BeginDelete(u)
    <3>1. Id(u, 0) \in Ids
      BY StoreAssumption DEF Id, Ids
    <3>2. \A r \in PagesOf(u) : r.id \in Ids
      BY DEF PagesOf, AddedInv, Added
    <3> DEFINE listed == {Id(u, 0)} \cup {r.id : r \in PagesOf(u)}
    <3>3. listed \in SUBSET Ids
      BY <3>1, <3>2
    <3> HIDE DEF listed
    <3>4. [at |-> "reading", ids |-> listed] \in Deletions
      BY <3>3 DEF Deletions
    <3>5. deleting' = [deleting EXCEPT ![u] = [at |-> "reading", ids |-> listed]]
      BY <2>3 DEF BeginDelete, listed
    <3> QED  BY <1>0, <2>3, <3>4, <3>5 DEF BeginDelete
  <2>4. CASE Transact(u)
    <3>1. deleting[u] \in [at : {"reading", "unlinking"}, ids : SUBSET Ids]
      BY <1>0, <2>4 DEF Transact, Deletions
    <3>2. [deleting[u] EXCEPT !.at = "unlinking"] \in Deletions
      BY <3>1 DEF Deletions
    <3>3. deleting' = [deleting EXCEPT ![u] = [deleting[u] EXCEPT !.at = "unlinking"]]
      BY <2>4 DEF Transact
    <3> QED  BY <1>0, <2>4, <3>2, <3>3 DEF Transact
  <2>5. CASE Unlink(u)
    <3>1. [at |-> "over"] \in Deletions
      BY DEF Deletions
    <3> QED  BY <1>0, <2>5, <3>1 DEF Unlink
  <2> QED  BY <1>2, <2>1, <2>2, <2>3, <2>4, <2>5 DEF UploadStep
<1>3. CASE Ingest
  <2>1. UNCHANGED requests
    BY <1>3 DEF Ingest, WriteUpload, CannotDerive, AddRow, WriteFails, IngestStep
  <2>a. Loading /\ Deleting
    BY <1>0, <2>1 DEF requests
  <2>2. CASE WriteUpload
    <3>1. loop \in Loads
      BY <2>2, LoopFacts DEF WriteUpload, Ingesting
    <3>2. [loop EXCEPT !.at = "derive"] \in Loads
      BY <3>1 DEF Loads
    <3>3. Loop
      BY <2>2, <3>2 DEF WriteUpload
    <3> QED  BY <2>a, <3>3
  <2>3. CASE AddRow
    <3>1. loop' \in Loads \/ loop' = Free
      BY <2>3, NextPage DEF AddRow
    <3>2. Loop
      BY <3>1
    <3> QED  BY <2>a, <3>2
  <2>4. CASE CannotDerive \/ WriteFails
    <3>1. Loop
      BY <2>4 DEF CannotDerive, WriteFails
    <3> QED  BY <2>a, <3>1
  <2> QED  BY <1>3, <2>2, <2>3, <2>4 DEF Ingest
<1>4. CASE RestartControlPlane
  <2>1. \A place \in {"no", "over"} : [at |-> place] \in Deletions
    BY DEF Deletions
  <2>2. Loop /\ Loading
    BY <1>4 DEF RestartControlPlane
  <2>3. Deleting
    BY <1>4, <2>1 DEF RestartControlPlane
  <2> QED  BY <2>2, <2>3
<1> QED  BY <1>1, <1>2, <1>3, <1>4 DEF FileShape

LEMMA AddedStays ==
  ASSUME FileTypes, AddedInv, FileShape, NEW id, Added(id)
  PROVE  Added(id)'
<1>0. id \in Ids /\ id.upload \in Uploads /\ uploading[id.upload] = "over"
  BY AddedIsPast DEF Added
<1>1. CASE UNCHANGED fileSide \/ Observes \/ Erases
  <2>1. UNCHANGED requests /\ (UNCHANGED loop \/ loop' \in {Free} \cup Observed)
    BY <1>1 DEF fileSide, Observes, Erases
  <2>2. UNCHANGED loop \/ ~Ingesting'
    BY <2>1 DEF Free, Observed, Ingesting
  <2> QED  BY <2>1, <2>2 DEF Added, requests, Ingesting
<1>2. ASSUME NEW u \in Uploads, UploadStep(u) PROVE Added(id)'
  <2>1. CASE BeginUpload(u) \/ TurnAway(u)
    BY <1>0, <2>1 DEF BeginUpload, TurnAway, Added, FileTypes, Ingesting
  <2>2. CASE TakeIn(u)
    <3>1. uploading[u] = "waits" /\ uploading' = [uploading EXCEPT ![u] = "over"] /\ loop'.upload = u
      BY <2>2 DEF TakeIn
    <3>2. id.upload # u /\ uploading'[id.upload] = "over"
      BY <1>0, <3>1 DEF FileTypes
    <3> QED  BY <1>0, <3>1, <3>2 DEF Added
  <2>3. CASE BeginDelete(u) \/ Transact(u) \/ Unlink(u)
    BY <2>3 DEF BeginDelete, Transact, Unlink, Added, Ingesting
  <2> QED  BY <1>2, <2>1, <2>2, <2>3 DEF UploadStep
<1>3. CASE Ingest
  <2>1. UNCHANGED uploading
    BY <1>3 DEF Ingest, WriteUpload, CannotDerive, AddRow, WriteFails, IngestStep, requests
  <2>2. CASE WriteUpload
    <3>1. loop \in Loads /\ Ingesting
      BY <2>2, LoopFacts DEF WriteUpload, Ingesting
    <3>2. loop'.upload = loop.upload /\ loop'.page = loop.page
      BY <2>2, <3>1 DEF WriteUpload, Loads
    <3> QED  BY <2>1, <3>1, <3>2 DEF Added
  <2>3. CASE AddRow
    <3>1. CASE loop' = Free
      BY <2>1, <3>1 DEF Added, Ingesting, Free
    <3>2. CASE loop' # Free
      <4>1. loop'.upload = loop.upload /\ loop'.page = loop.page + 1
        BY <2>3, <3>2, NextPage DEF AddRow
      <4>2. Ingesting /\ loop.page \in Nat /\ id.page \in Nat
        BY <1>0, <2>3, LoopFacts, StoreAssumption DEF AddRow, Ingesting, Ids
      <4>3. loop.upload = id.upload => id.page < loop.page
        BY <4>2 DEF Added
      <4>4. loop'.upload = id.upload => id.page < loop'.page
        BY <4>1, <4>2, <4>3
      <4> QED  BY <1>0, <2>1, <4>4 DEF Added
    <3> QED  BY <3>1, <3>2
  <2>4. CASE CannotDerive \/ WriteFails
    BY <2>1, <2>4 DEF CannotDerive, WriteFails, Added, Ingesting, Free
  <2> QED  BY <1>3, <2>2, <2>3, <2>4 DEF Ingest
<1>4. CASE RestartControlPlane
  <2>1. uploading'[id.upload] = "over" /\ ~Ingesting'
    BY <1>0, <1>4 DEF RestartControlPlane, Ingesting, Free
  <2> QED  BY <1>0, <2>1 DEF Added
<1> QED  BY <1>1, <1>2, <1>3, <1>4 DEF FileShape

(* Rows that are new are of the page in hand, which counts as added now. *)
LEMMA RowsAdded ==
  ASSUME FileTypes, AddedInv, FileShape, NEW r \in references'
  PROVE  /\ Added(r.id)'
         /\ r \in references \/ (AddRow /\ r.id = InHand)
<1>1. CASE r \in references
  BY <1>1, AddedStays DEF AddedInv
<1>2. CASE r \notin references
  <2>1. AddRow
    BY <1>2 DEF FileShape, fileSide, Observes, Erases, RestartControlPlane, store, rows, UploadStep,
                BeginUpload, TurnAway, TakeIn, BeginDelete, Transact, Unlink, DropReference,
                Ingest, WriteUpload, CannotDerive, WriteFails
  <2>2. r.id = InHand
    BY <1>2, <2>1 DEF AddRow, AddReference, Row, InHand
  <2>3. Ingesting /\ loop.at = "derive"
    BY <2>1 DEF AddRow, Ingesting
  <2>4. uploading'[loop.upload] = "over"
    BY <2>1, <2>3 DEF AddRow, IngestStep, requests, AddedInv
  <2>5. /\ InHand \in Ids /\ InHand.upload = loop.upload /\ InHand.page = loop.page
        /\ loop.page \in Nat
    BY <2>3, LoopFacts, StoreAssumption
  <2>6. ~Ingesting' \/ (loop'.page = loop.page + 1)
    BY <2>1, <2>3, NextPage DEF AddRow, Ingesting, Free
  <2>7. loop.page < loop.page + 1
    BY <2>5
  <2> QED  BY <2>1, <2>2, <2>4, <2>5, <2>6, <2>7 DEF Added
<1> QED  BY <1>1, <1>2

LEMMA AddedStep ==
  ASSUME FileTypes, AddedInv, FileShape
  PROVE  AddedInv'
<1>1. Ingesting' => uploading'[loop'.upload] = "over"
  <2>1. CASE UNCHANGED fileSide \/ Observes \/ Erases
    <3>1. UNCHANGED requests /\ (UNCHANGED loop \/ loop' \in {Free} \cup Observed)
      BY <2>1 DEF fileSide, Observes, Erases
    <3>2. UNCHANGED loop \/ ~Ingesting'
      BY <3>1 DEF Free, Observed, Ingesting
    <3> QED  BY <3>1, <3>2 DEF AddedInv, requests, Ingesting
  <2>2. ASSUME NEW u \in Uploads, UploadStep(u)
        PROVE  Ingesting' => uploading'[loop'.upload] = "over"
    <3>1. CASE BeginUpload(u) \/ TurnAway(u)
      BY <3>1 DEF BeginUpload, TurnAway, Ingesting, Free
    <3>2. CASE TakeIn(u)
      BY <3>2 DEF TakeIn, FileTypes
    <3>3. CASE BeginDelete(u) \/ Transact(u) \/ Unlink(u)
      BY <3>3 DEF BeginDelete, Transact, Unlink, AddedInv, Ingesting
    <3> QED  BY <2>2, <3>1, <3>2, <3>3 DEF UploadStep
  <2>3. CASE Ingest
    <3>1. UNCHANGED uploading
      BY <2>3 DEF Ingest, WriteUpload, CannotDerive, AddRow, WriteFails, IngestStep, requests
    <3>2. ~Ingesting' \/ (Ingesting /\ loop'.upload = loop.upload)
      <4>1. CASE WriteUpload
        <5>1. loop \in Loads /\ Ingesting
          BY <4>1, LoopFacts DEF WriteUpload, Ingesting
        <5> QED  BY <4>1, <5>1 DEF WriteUpload, Loads
      <4>2. CASE AddRow
        BY <4>2, NextPage DEF AddRow, Ingesting, Free
      <4>3. CASE CannotDerive \/ WriteFails
        BY <4>3 DEF CannotDerive, WriteFails, Ingesting, Free
      <4> QED  BY <2>3, <4>1, <4>2, <4>3 DEF Ingest
    <3> QED  BY <3>1, <3>2 DEF AddedInv
  <2>4. CASE RestartControlPlane
    BY <2>4 DEF RestartControlPlane, Ingesting, Free
  <2> QED  BY <2>1, <2>2, <2>3, <2>4 DEF FileShape
<1>2. \A r \in references' : Added(r.id)'
  BY RowsAdded
<1>3. ASSUME NEW u \in Uploads, deleting'[u].at \in {"reading", "unlinking"}
      PROVE  /\ \A id \in deleting'[u].ids : id.upload = u /\ Added(id)'
             /\ deleting'[u].at = "unlinking" => \A r \in references' : r.id \notin deleting'[u].ids
  <2>1. CASE deleting'[u] = deleting[u]
    <3>1. ASSUME NEW id \in deleting[u].ids PROVE id.upload = u /\ Added(id) /\ Added(id)'
      <4>1. id.upload = u /\ Added(id)
        BY <1>3, <2>1, <3>1 DEF AddedInv
      <4> QED  BY <4>1, AddedStays
    <3>2. ASSUME deleting[u].at = "unlinking", NEW r \in references'
          PROVE  r.id \notin deleting[u].ids
      <4>1. CASE r \in references
        BY <3>2, <4>1 DEF AddedInv
      <4>2. CASE AddRow /\ r.id = InHand
        BY <3>1, <4>2, AddedIsPast DEF AddRow, Ingesting
      <4> QED  BY <4>1, <4>2, RowsAdded
    <3> QED  BY <1>3, <2>1, <3>1, <3>2
  <2>2. CASE deleting'[u] # deleting[u]
    <3>1. BeginDelete(u) \/ Transact(u)
      <4>1. ~RestartControlPlane
        BY <1>3 DEF RestartControlPlane
      <4>2. UNCHANGED deleting \/ \E v \in Uploads : BeginDelete(v) \/ Transact(v) \/ Unlink(v)
        BY <4>1 DEF FileShape, fileSide, requests, Observes, Erases, UploadStep, BeginUpload, TurnAway,
                    TakeIn, Ingest, WriteUpload, CannotDerive, AddRow, WriteFails, IngestStep
      <4>3. PICK v \in Uploads : BeginDelete(v) \/ Transact(v) \/ Unlink(v)
        BY <2>2, <4>2
      <4>4. v # u => deleting'[u] = deleting[u]
        BY <4>3 DEF BeginDelete, Transact, Unlink, FileTypes
      <4>5. Unlink(u) => deleting'[u].at = "over"
        BY DEF Unlink, FileTypes
      <4> QED  BY <1>3, <2>2, <4>3, <4>4, <4>5
    <3>2. CASE BeginDelete(u)
      <4>1. /\ deleting'[u].at = "reading"
            /\ deleting'[u].ids = {Id(u, 0)} \cup {r.id : r \in PagesOf(u)}
        BY <3>2 DEF BeginDelete, FileTypes
      <4>2. \A id \in deleting'[u].ids : id.upload = u /\ \E r \in references : r.id = id
        BY <3>2, <4>1 DEF BeginDelete, HasRow, PagesOf, Id
      <4>3. \A id \in deleting'[u].ids : id.upload = u /\ Added(id)
        BY <4>2 DEF AddedInv
      <4> QED  BY <4>1, <4>3, AddedStays
    <3>3. CASE Transact(u)
      <4>1. /\ deleting[u].at = "reading"
            /\ deleting' = [deleting EXCEPT ![u] = [deleting[u] EXCEPT !.at = "unlinking"]]
        BY <3>3 DEF Transact
      <4>2. deleting[u] \in [at : {"reading", "unlinking"}, ids : SUBSET Ids]
        BY <4>1 DEF FileTypes
      <4>3. deleting'[u].ids = deleting[u].ids
        BY <4>1, <4>2 DEF FileTypes
      <4>4. \A id \in deleting'[u].ids : id.upload = u /\ Added(id)
        BY <4>1, <4>3 DEF AddedInv
      <4>5. \A r \in references' : r.id.upload # u
        BY <3>3 DEF Transact, DropReference
      <4> QED  BY <4>4, <4>5, AddedStays
    <3> QED  BY <3>1, <3>2, <3>3
  <2> QED  BY <2>1, <2>2
<1> QED  BY <1>1, <1>2, <1>3 DEF AddedInv

LEMMA FileStep ==
  ASSUME UploadsInv, FileShape
  PROVE  FileInv'
<1> USE DEF UploadsInv
<1>1. erasing'.at \in {"files", "artifacts"} => erased'
  BY DEF FileInv, FileShape, Observes, erasures, Erases, EraseRows, EraseFiles, RestartControlPlane
<1> SUFFICES ASSUME ~erased'
             PROVE  /\ loop'.at = "derive" => InHand' \in files'
                    /\ \A r \in references' : r.id \in files'
  BY <1>1 DEF FileInv, InHand, Id, RowsHaveFiles, HasContent, HasRow
<1>2. ~erased /\ ~EraseRows /\ ~EraseFiles
  BY DEF FileInv, FileShape, Observes, erasures, Erases, EraseRows, EraseFiles, RestartControlPlane
<1>3. /\ loop.at = "derive" => InHand \in files
      /\ \A r \in references : r.id \in files
  BY <1>2 DEF FileInv, InHand, RowsHaveFiles, HasContent
<1>4. \/ UNCHANGED files
      \/ WriteUpload \/ CannotDerive \/ \E u \in Uploads : Unlink(u)
  BY <1>2 DEF FileShape, fileSide, Observes, Erases, RestartControlPlane, UploadStep, BeginUpload,
              TurnAway, TakeIn, BeginDelete, Transact, Ingest, AddRow, WriteFails, store, bytes
<1>5. ASSUME NEW u \in Uploads, Unlink(u), NEW id \in files, id \notin deleting[u].ids
      PROVE  id \in files'
  BY <1>5 DEF Unlink, DeleteFiles
<1>6. ASSUME NEW u \in Uploads, Unlink(u)
      PROVE  UNCHANGED <<loop, references>> /\ (Ingesting => InHand \notin deleting[u].ids)
  <2>1. UNCHANGED <<loop, references>> /\ deleting[u].at = "unlinking"
    BY <1>6 DEF Unlink, rows
  <2> QED  BY <2>1, AddedIsPast DEF AddedInv
<1>7. ASSUME NEW r \in references PROVE r.id \in files'
  <2>1. CASE UNCHANGED files \/ WriteUpload
    BY <1>3, <2>1 DEF WriteUpload, WriteFile
  <2>2. CASE CannotDerive
    <3>1. loop.page = 0 /\ Ingesting /\ files' = files \ {InHand}
      BY <2>2 DEF CannotDerive, DeleteFiles, Ingesting, InHand
    <3>2. r.id # InHand
      BY <3>1, AddedIsPast DEF AddedInv
    <3> QED  BY <1>3, <3>1, <3>2
  <2>3. ASSUME NEW u \in Uploads, Unlink(u) PROVE r.id \in files'
    <3>1. r.id \notin deleting[u].ids
      BY <2>3 DEF Unlink, AddedInv
    <3> QED  BY <1>3, <1>5, <2>3, <3>1
  <2> QED  BY <1>4, <2>1, <2>2, <2>3
<1>8. \A r \in references' : r.id \in files'
  <2> TAKE r \in references'
  <2>1. CASE AddRow /\ r.id = InHand
    BY <1>3, <2>1 DEF AddRow, bytes
  <2> QED  BY <1>7, <2>1, RowsAdded
<1>9. ASSUME loop'.at = "derive" PROVE InHand' \in files'
  <2>1. CASE WriteUpload
    <3>1. loop \in Loads
      BY <2>1, LoopFacts DEF WriteUpload, Ingesting
    <3>2. loop'.upload = loop.upload /\ loop'.page = loop.page
      BY <2>1, <3>1 DEF WriteUpload, Loads
    <3> QED  BY <2>1, <3>2 DEF WriteUpload, WriteFile, InHand, Id
  <2>2. CASE UNCHANGED loop
    <3>1. Ingesting /\ InHand' = InHand /\ InHand \in files
      BY <1>3, <1>9, <2>2 DEF Ingesting, InHand, Id
    <3>2. ~CannotDerive
      BY <1>9, <2>2 DEF CannotDerive, Free
    <3> QED  BY <1>4, <1>5, <1>6, <2>1, <3>1, <3>2
  <2>3. CASE loop' # loop /\ ~WriteUpload
    <3>1. \/ loop' \in {Free} \cup Observed
          \/ loop'.at = "write"
      BY <2>3, NextPage DEF FileShape, fileSide, Observes, Erases, RestartControlPlane, UploadStep,
             BeginUpload, TurnAway, TakeIn, BeginDelete, Transact, Unlink, Ingest, CannotDerive,
             AddRow, WriteFails
    <3> QED  BY <1>9, <3>1 DEF Free, Observed
  <2> QED  BY <2>1, <2>2, <2>3
<1> QED  BY <1>8, <1>9

LEMMA UploadsStep ==
  ASSUME UploadsInv, ReportTypes, [Next]_vars
  PROVE  UploadsInv'
BY FileShapes, FileTypesStep, AddedStep, FileStep DEF UploadsInv

-------------------------------------------------------------------------------
(* Reports: the steps sorted by what they do to the artifacts and to the     *)
(* results that say they exist.                                              *)
reportSide == <<blend, artifacts, reports, artifactBytes>>
history == <<orphans, erased>>

Reporting ==
  /\ WorkerReads \/ WorkerRunsPlan \/ ObserveScene \/ ObserveArtifact
  /\ UNCHANGED history

Discards ==
  /\ artifactBytes' \subseteq artifactBytes
  /\ UNCHANGED <<blend, artifacts, reports, loop, history>>

ReportShape ==
  \/ UNCHANGED <<reportSide, history>> /\ (UNCHANGED loop \/ loop.at # "artifact")
  \/ Reporting \/ Discards
  \/ erased' /\ artifacts' = {} /\ UNCHANGED <<blend, reports>>
  \/ RestartControlPlane

LEMMA ReportShapes ==
  ASSUME [Next]_vars
  PROVE  ReportShape
<1> USE DEF reportSide, history, Besides, Alongside, erasure, store, rows, bytes, inTurn, otherRows,
            grounding, workerSide, elsewhere, elsewhere2, untouched, requests
<1>0. CASE UNCHANGED vars
  BY <1>0 DEF vars, ReportShape
<1>1. ASSUME NEW t \in Turns, NEW s \in Sessions, MessageArrives(t, s) PROVE ReportShape
  BY <1>1 DEF MessageArrives, Submit, ReportShape
<1>2. ASSUME NEW t \in Turns, TurnGoesOn(t) PROVE ReportShape
  <2>1. UNCHANGED <<reportSide, loop>>
    BY <1>2 DEF TurnGoesOn, TurnStep, Tell, ConsiderScene, Plan, Select, Deliver, Respond, GiveUp,
                Answer, Ask, Park, Settle
  <2> QED  BY <1>2, <2>1 DEF TurnGoesOn, ReportShape
<1>3. ASSUME NEW t \in Turns, UserDecides(t) PROVE ReportShape
  BY <1>3 DEF UserDecides, Decide, ReportShape
<1>4. ASSUME NEW thread \in Threads, JobGoesOn(thread) PROVE ReportShape
  BY <1>4 DEF JobGoesOn, JobStep, CreateJob, OfferJob, NoOffer, SaveJob, Say, ReportShape
<1>5. ASSUME NEW thread \in Threads, ReadGoesOn(thread) PROVE ReportShape
  BY <1>5 DEF ReadGoesOn, ReadStep, Ensure, OfferRead, MarkInFlight, SceneIsThere, WaitIsOver,
              ReportShape
<1>6. CASE WorkerSaysHello
  BY <1>6 DEF WorkerSaysHello, HelloArrives, ReportShape
<1>7. CASE WorkerWorks
  BY <1>7 DEF WorkerWorks, WorkerStep, WorkerRefuses, Reporting, ReportShape
<1>8. CASE ReportIsObserved
  BY <1>8 DEF ReportIsObserved, ReporterStep, Reporting, ReportShape
<1>9. ASSUME NEW u \in Uploads, UploadGoesOn(u) PROVE ReportShape
  BY <1>9 DEF UploadGoesOn, UploadStep, BeginUpload, TurnAway, TakeIn, BeginDelete, Transact, Unlink,
              Free, ReportShape
<1>10. CASE IngestGoesOn
  BY <1>10 DEF IngestGoesOn, Ingest, WriteUpload, CannotDerive, AddRow, WriteFails, IngestStep,
               ReportShape
<1>11. CASE OpenProject \/ MarkOpened
  BY <1>11 DEF OpenProject, MarkOpened, ReportShape
<1>12. CASE ListArtifacts \/ EraseFiles
  BY <1>12 DEF ListArtifacts, EraseFiles, DeleteProjectFiles, ErasureLeaves, ReportShape
<1>13. CASE EraseRows
  BY <1>13 DEF EraseRows, DeleteRows, ErasureLeaves, ReportShape
<1>14. CASE EraseArtifacts
  BY <1>14 DEF EraseArtifacts, ErasureLeaves, Discards, ReportShape
<1>15. CASE RestartControlPlane
  BY <1>15 DEF ReportShape
<1> QED  BY <1>0, <1>1, <1>2, <1>3, <1>4, <1>5, <1>6, <1>7, <1>8, <1>9, <1>10, <1>11, <1>12,
            <1>13, <1>14, <1>15 DEF Next, Erase

LEMMA ReportFacts ==
  \A version \in Nat, artifact \in BOOLEAN :
    /\ Report(version, artifact) \in Results
    /\ Report(version, artifact).version = version
    /\ Report(version, artifact).artifact = artifact
BY DEF Report, Results

LEMMA ReportTypesStep ==
  ASSUME ReportTypes, FileTypes, ReportShape
  PROVE  ReportTypes'
<1>0. blend \in Nat /\ artifacts \subseteq Nat /\ reports \in Seq(Results)
  BY DEF ReportTypes
<1>1. /\ \A result \in Results : Append(reports, result) \in Seq(Results)
      /\ reports # <<>> => Tail(reports) \in Seq(Results)
      /\ <<>> \in Seq(Results)
  BY <1>0
<1>2. CASE UNCHANGED <<blend, artifacts, reports>>
  BY <1>0, <1>2 DEF ReportTypes
<1>3. CASE WorkerReads
  <2>1. Report(blend, FALSE) \in Results
    BY <1>0, ReportFacts
  <2>2. reports' \in Seq(Results)
    BY <1>1, <1>3, <2>1 DEF WorkerReads
  <2> QED  BY <1>0, <1>3, <2>2 DEF WorkerReads, store, rows, ReportTypes
<1>4. CASE WorkerRunsPlan
  <2>1. blend' \in Nat
    BY <1>0, <1>4 DEF WorkerRunsPlan
  <2>2. Report(blend', TRUE) \in Results
    BY <2>1, ReportFacts
  <2>3. reports' \in Seq(Results)
    BY <1>1, <1>4, <2>2 DEF WorkerRunsPlan
  <2> QED  BY <1>0, <1>4, <2>1, <2>3 DEF WorkerRunsPlan, rows, ReportTypes
<1>5. CASE ObserveScene
  <2>1. reports' \in Seq(Results)
    BY <1>1, <1>5 DEF ObserveScene
  <2> QED  BY <1>0, <1>5, <2>1 DEF ObserveScene, ReportTypes
<1>6. CASE ObserveArtifact
  <2>1. loop \in Observed
    BY <1>6 DEF ObserveArtifact, FileTypes, Loads, Free
  <2>2. loop.version \in Nat
    BY <2>1 DEF Observed
  <2>3. artifacts' \subseteq Nat
    BY <1>0, <1>6, <2>2 DEF ObserveArtifact, RecordArtifact
  <2> QED  BY <1>0, <1>6, <2>3 DEF ObserveArtifact, workerSide, ReportTypes
<1>7. CASE erased' /\ artifacts' = {} /\ UNCHANGED <<blend, reports>>
  BY <1>0, <1>7 DEF ReportTypes
<1>8. CASE RestartControlPlane
  BY <1>0, <1>1, <1>8 DEF RestartControlPlane, store, rows, ReportTypes
<1> QED  BY <1>2, <1>3, <1>4, <1>5, <1>6, <1>7, <1>8 DEF ReportShape, reportSide, Reporting, Discards

LEMMA AccountedStays ==
  ASSUME ReportTypes, FileTypes, ReportShape, ~erased', NEW v, Accounted(v),
         v \in artifactBytes'
  PROVE  Accounted(v)'
<1>0. /\ reports \in Seq(Results) /\ Len(reports) \in Nat
  BY DEF ReportTypes
<1>1. CASE v \in artifacts \cup orphans
  BY <1>1 DEF ReportShape, reportSide, history, Reporting, Discards, WorkerReads, WorkerRunsPlan,
              ObserveScene, ObserveArtifact, RecordArtifact, RestartControlPlane, store, rows, Accounted
<1>2. ASSUME NEW i \in 1 .. Len(reports), reports[i] = Report(v, TRUE) PROVE Accounted(v)'
  <2>1. CASE UNCHANGED reports
    BY <1>2, <2>1 DEF Accounted
  <2>2. ASSUME NEW result, reports' = Append(reports, result) PROVE Accounted(v)'
    <3>1. i \in 1 .. Len(reports') /\ reports'[i] = reports[i]
      BY <1>0, <2>2
    <3> QED  BY <1>2, <3>1 DEF Accounted
  <2>3. CASE ObserveScene
    <3>1. reports # <<>> /\ reports' = Tail(reports)
      BY <2>3 DEF ObserveScene
    <3>2. CASE i = 1
      <4>0. Head(reports) = reports[1]
        BY <1>0, <3>1
      <4>1. Head(reports) = Report(v, TRUE)
        BY <1>2, <3>2, <4>0
      <4>2. loop' = [at |-> "artifact", version |-> v]
        BY <2>3, <4>1 DEF ObserveScene, Report
      <4> QED  BY <4>2 DEF Accounted
    <3>3. CASE i # 1
      <4>1. i - 1 \in 1 .. Len(reports') /\ reports'[i - 1] = reports[i]
        BY <1>0, <3>1, <3>3
      <4> QED  BY <1>2, <4>1 DEF Accounted
    <3> QED  BY <3>2, <3>3
  <2>4. CASE RestartControlPlane
    BY <2>4 DEF RestartControlPlane, store, bytes, rows, Accounted
  <2> QED  BY <2>1, <2>2, <2>3, <2>4 DEF ReportShape, reportSide, Reporting, Discards, WorkerReads,
              WorkerRunsPlan, ObserveArtifact, workerSide
<1>3. CASE loop = [at |-> "artifact", version |-> v]
  <2>1. CASE UNCHANGED loop
    BY <1>3, <2>1 DEF Accounted
  <2>2. CASE ObserveArtifact
    BY <1>3, <2>2 DEF ObserveArtifact, RecordArtifact, Accounted
  <2>3. CASE RestartControlPlane
    BY <2>3 DEF RestartControlPlane, store, bytes, rows, Accounted
  <2> QED  BY <1>3, <2>1, <2>2, <2>3 DEF ReportShape, Reporting, Discards, WorkerReads,
              WorkerRunsPlan, ObserveScene, Free
<1> QED  BY <1>1, <1>2, <1>3 DEF Accounted

LEMMA RecordedStep ==
  ASSUME ReportTypes, FileTypes, RecordedInv, ReportShape
  PROVE  RecordedInv'
<1> SUFFICES ASSUME ~erased', NEW v \in artifactBytes' PROVE Accounted(v)'
  BY DEF RecordedInv
<1>1. ~erased
  BY DEF ReportShape, history, Reporting, Discards, RestartControlPlane
<1>2. CASE v \in artifactBytes
  BY <1>1, <1>2, AccountedStays DEF RecordedInv
<1>3. CASE v \notin artifactBytes
  <2>1. WorkerRunsPlan
    BY <1>3 DEF ReportShape, reportSide, Reporting, Discards, WorkerReads, ObserveScene,
                ObserveArtifact, RestartControlPlane, store, bytes
  <2>2. v = blend'
    BY <1>3, <2>1 DEF WorkerRunsPlan
  <2>3. reports \in Seq(Results)
    BY DEF ReportTypes
  <2>4. reports' = Append(reports, Report(v, TRUE))
    BY <2>1, <2>2 DEF WorkerRunsPlan
  <2>5. \A result : /\ Len(reports) + 1 \in 1 .. Len(Append(reports, result))
                     /\ Append(reports, result)[Len(reports) + 1] = result
    BY <2>3
  <2>6. Len(reports) + 1 \in 1 .. Len(reports') /\ reports'[Len(reports) + 1] = Report(v, TRUE)
    BY <2>4, <2>5
  <2> QED  BY <2>6 DEF Accounted
<1> QED  BY <1>2, <1>3

-------------------------------------------------------------------------------
(* The deletion of the project. *)
Disturbed ==
  /\ quiet' = FALSE
  /\ \/ UNCHANGED <<erasing, erased>>
     \/ UNCHANGED erased /\ erasing' = [at |-> IF erasing.at = "no" THEN "no" ELSE "over"]

LEMMA ErasureShapes ==
  ASSUME [Next]_vars
  PROVE  UNCHANGED vars \/ Disturbed \/ Erase
<1> USE DEF Besides, Alongside
<1>1. CASE RestartControlPlane
  BY <1>1 DEF RestartControlPlane, Disturbed
<1>2. CASE Next /\ ~RestartControlPlane /\ ~Erase
  BY <1>2 DEF Next, Disturbed, MessageArrives, TurnGoesOn, UserDecides, JobGoesOn, ReadGoesOn,
              WorkerSaysHello, WorkerWorks, ReportIsObserved, UploadGoesOn, IngestGoesOn, OpenProject,
              MarkOpened
<1> QED  BY <1>1, <1>2

LEMMA ErasureStep ==
  ASSUME ErasureTypes, ErasureInv, ReportTypes, RecordedInv, UNCHANGED vars \/ Disturbed \/ Erase
  PROVE  ErasureTypes' /\ ErasureInv'
<1>1. CASE UNCHANGED vars
  BY <1>1 DEF vars, store, rows, bytes, erasure, ErasureTypes, ErasureInv, NoRows
<1>2. CASE Disturbed
  BY <1>2 DEF Disturbed, ErasureTypes, ErasureInv

<1>3. CASE ListArtifacts
  <2>1. erasing' = [at |-> "rows", listed |-> artifacts] /\ erasing.at = "no"
    BY <1>3 DEF ListArtifacts
  <2>2. ErasureTypes'
    BY <2>1 DEF ReportTypes, ErasureTypes
  <2>3. quiet' => loop = Free /\ reports = <<>>
    BY <1>3 DEF ListArtifacts, AllIdle
  <2>4. quiet' => artifactBytes \subseteq artifacts \cup orphans
    <3>1. quiet' => \A v \in artifactBytes : ~(loop = [at |-> "artifact", version |-> v])
      BY <2>3 DEF Free
    <3>2. quiet' => 1 .. Len(reports) = {}
      BY <2>3
    <3>3. \A v \in artifactBytes : Accounted(v)
      BY <2>1 DEF ErasureInv, RecordedInv
    <3> QED  BY <3>1, <3>2, <3>3 DEF Accounted
  <2>5. UNCHANGED <<artifactBytes, orphans>>
    BY <1>3 DEF ListArtifacts, ErasureLeaves, bytes
  <2> QED  BY <2>1, <2>2, <2>4, <2>5 DEF ErasureInv
<1>4. CASE EraseRows
  <2>1. /\ erasing.at = "rows" /\ erasing' = [erasing EXCEPT !.at = "files"]
        /\ UNCHANGED <<quiet, artifactBytes, orphans>>
    BY <1>4 DEF EraseRows, ErasureLeaves, bytes
  <2>2. erasing \in [at : {"rows", "files", "artifacts"}, listed : SUBSET Nat]
    BY <2>1 DEF ErasureTypes
  <2>3. /\ erasing' \in [at : {"rows", "files", "artifacts"}, listed : SUBSET Nat]
        /\ erasing'.at = "files" /\ erasing'.listed = erasing.listed
    BY <2>1, <2>2
  <2>4. NoRows'
    BY <1>4 DEF EraseRows, DeleteRows, NoRows
  <2> QED  BY <2>1, <2>3, <2>4 DEF ErasureTypes, ErasureInv
<1>5. CASE EraseFiles
  <2>1. /\ erasing.at = "files" /\ erasing' = [erasing EXCEPT !.at = "artifacts"]
        /\ files' = {} /\ copies' = {}
        /\ UNCHANGED <<quiet, artifactBytes, orphans, rows>>
    BY <1>5 DEF EraseFiles, DeleteProjectFiles, ErasureLeaves
  <2>2. erasing \in [at : {"rows", "files", "artifacts"}, listed : SUBSET Nat]
    BY <2>1 DEF ErasureTypes
  <2>3. /\ erasing' \in [at : {"rows", "files", "artifacts"}, listed : SUBSET Nat]
        /\ erasing'.at = "artifacts" /\ erasing'.listed = erasing.listed
    BY <2>1, <2>2
  <2>4. quiet => NoRows'
    BY <2>1 DEF ErasureInv, NoRows, rows
  <2> QED  BY <2>1, <2>3, <2>4 DEF ErasureTypes, ErasureInv
<1>6. CASE EraseArtifacts
  BY <1>6 DEF EraseArtifacts, ErasureTypes, ErasureInv
<1> QED  BY <1>1, <1>2, <1>3, <1>4, <1>5, <1>6 DEF Erase

LEMMA DeletionStep ==
  ASSUME IndInv, [Next]_vars
  PROVE  DeletionInv'
<1>1. ReportShape /\ (UNCHANGED vars \/ Disturbed \/ Erase)
  BY ReportShapes, ErasureShapes
<1>2. ReportTypes' /\ RecordedInv'
  BY <1>1, ReportTypesStep, RecordedStep DEF IndInv, DeletionInv, UploadsInv
<1>3. ErasureTypes' /\ ErasureInv'
  BY <1>1, ErasureStep DEF IndInv, DeletionInv
<1> QED  BY <1>2, <1>3 DEF DeletionInv

-------------------------------------------------------------------------------
(* Theorems. *)

LEMMA InitInv ==
  ASSUME Init
  PROVE  IndInv
<1> USE DEF Init, StoreInit, ReadsInit, UploadsInit, TurnsInit
<1>1. ThreadTypes
  <2>1. \A thread \in Threads : pc[thread] = "off"
    OBVIOUS
  <2>2. /\ pc \in [Threads -> MessagePlaces \cup DecisionPlaces]
        /\ "off" \in MessagePlaces \cap DecisionPlaces \cap StartupPlaces
    BY DEF MessagePlaces, DecisionPlaces, StartupPlaces
  <2>3. /\ pc[Startup] \in StartupPlaces
        /\ \A t \in Turns : pc[Message(t)] \in MessagePlaces
        /\ \A d \in Deciders : pc[d] \in DecisionPlaces
    BY <2>1, <2>2, ThreadFacts
  <2>4. /\ plan \in [Threads -> Plans \cup {Nobody}]
        /\ transcript \in Seq(Messages) /\ clarifications \in Seq(Questions)
        /\ approvals \in [Turns -> Approvals \cup {Nobody}]
        /\ said \in [Turns -> SUBSET {"approved", "rejected"}]
        /\ jobs \in [Identities -> {"queued", "held", Nobody}]
        /\ offers \in Seq({ReadJob} \cup PlanJobs)
    OBVIOUS
  <2> QED  BY <2>2, <2>3, <2>4 DEF ThreadTypes
<1>2. /\ \A t \in Turns : pc[Message(t)] = "off" /\ approvals[t] = Nobody /\ said[t] = {}
      /\ \A d \in Deciders : pc[d] = "off"
  BY ThreadFacts
<1>3. PlanInv /\ ApprovedInv /\ ToldInv
  BY <1>2 DEF PlanInv, OwnPlan, OwnDecision, ApprovedInv, Approved, Settled, ToldInv, Untold
<1>4. EffectsAreExplained /\ FlaggedRunsOnlyIfApproved
  BY DEF EffectsAreExplained, FlaggedRunsOnlyIfApproved
<1>5. FileTypes /\ AddedInv /\ FileInv
  BY DEF FileTypes, AddedInv, FileInv, RowsHaveFiles, Free, Ingesting
<1>6. ReportTypes /\ RecordedInv /\ ErasureTypes /\ ErasureInv
  BY DEF ReportTypes, RecordedInv, ErasureTypes, ErasureInv
<1> QED  BY <1>1, <1>3, <1>4, <1>5, <1>6 DEF IndInv, TurnsInv, UploadsInv, DeletionInv

(* The three parts are kept together: what a deletion finds depends on what  *)
(* the event loop has in hand.                                               *)
THEOREM Invariance == Spec => []IndInv
<1>1. Init => IndInv
  BY InitInv
<1>2. IndInv /\ [Next]_vars => IndInv'
  BY TurnsStep, UploadsStep, DeletionStep DEF IndInv, DeletionInv
<1> QED  BY <1>1, <1>2, PTL DEF Spec

(* Whatever a turn leaves behind, the transcript has the words it came from,  *)
(* wherever the process died.                                                *)
THEOREM EffectsAlwaysExplained == Spec => []EffectsAreExplained
<1>1. IndInv => EffectsAreExplained
  BY DEF IndInv, TurnsInv
<1> QED  BY <1>1, Invariance, PTL

(* What a worker is to run and needs approval, the user approved.            *)
THEOREM FlaggedAlwaysApproved == Spec => []FlaggedRunsOnlyIfApproved
<1>1. IndInv => FlaggedRunsOnlyIfApproved
  BY DEF IndInv, TurnsInv
<1> QED  BY <1>1, Invariance, PTL

(* A reference that is listed has its bytes, however uploads, deletions and   *)
(* restarts fall together.                                                   *)
THEOREM RowsAlwaysHaveFiles == Spec => []RowsHaveFiles
<1>1. IndInv => RowsHaveFiles
  BY DEF IndInv, UploadsInv, FileInv
<1> QED  BY <1>1, Invariance, PTL

(* An undisturbed deletion of the project is complete, but for artifacts     *)
(* whose report a restart had lost.                                          *)
THEOREM DeletionAlwaysComplete == Spec => DeletionIsComplete
<1>1. ASSUME IndInv, [Next]_vars, erasing.at = "artifacts", erasing'.at = "over", quiet'
      PROVE  (~project /\ Nothing /\ artifactBytes \subseteq orphans)'
  <2>1. EraseArtifacts
    <3>1. ~UNCHANGED erasing
      BY <1>1
    <3>2. ~UNCHANGED vars
      BY <3>1 DEF vars, erasure
    <3> QED  BY <1>1, <3>1, <3>2, ErasureShapes
             DEF Erase, ListArtifacts, EraseRows, EraseFiles, Disturbed
  <2>2. /\ UNCHANGED <<rows, files, copies, orphans, quiet>>
        /\ artifactBytes' = artifactBytes \ erasing.listed
    BY <2>1 DEF EraseArtifacts, ErasureLeaves
  <2>3. /\ NoRows /\ files = {} /\ copies = {}
        /\ artifactBytes \subseteq erasing.listed \cup orphans
    BY <1>1, <2>2 DEF IndInv, DeletionInv, ErasureInv
  <2>4. artifactBytes' \subseteq orphans'
    BY <2>2, <2>3
  <2> QED  BY <2>2, <2>3, <2>4 DEF NoRows, Nothing, rows
<1>2. IndInv /\ [Next]_vars =>
        [erasing.at = "artifacts" /\ erasing'.at = "over" /\ quiet'
           => (~project /\ Nothing /\ artifactBytes \subseteq orphans)']_vars
  BY <1>1
<1> QED  BY <1>2, Invariance, PTL DEF Spec, DeletionIsComplete
===============================================================================
