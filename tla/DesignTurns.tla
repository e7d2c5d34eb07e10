------------------------------- MODULE DesignTurns ------------------------------
(***************************************************************************)
(* DesignChatService (design_chat.py) with ContextBuilder                  *)
(* (context_builder.py): a message becomes a turn on a thread of           *)
(* TurnRunner's pool, the model is asked, and its outcome is recorded,     *)
(* parked for approval or made a job.  What becomes of the job's record    *)
(* is the subject of JobRecords; here it is queued or held by a worker.    *)
(***************************************************************************)
EXTENDS Uploads

CONSTANT
  Outcomes  \* what a model may come up with: [says, kind] of a plan's steps

ASSUME OutcomesAssumption ==
  Outcomes \subseteq [says : {"error", "answer", "question", "parked", "plan"}, kind : Kinds]

VARIABLES
  session,  \* the session each turn belongs to
  asked,    \* the question that was pending when the turn began
  context,  \* the references the turn covers, and the images it sends
  plan,     \* the plan each thread works for
  said      \* HISTORY: what the user decided of the plan each turn parked

inTurn == <<session, asked, context, plan, said>>
elsewhere2 == <<inFlight, workerSide, loop, requests>>
untouched == <<offers, elsewhere2>>

NoContext == [covers |-> {}, images |-> <<>>]

TurnsInit ==
  /\ session = [t \in Turns |-> Nobody]
  /\ asked = [t \in Turns |-> Nobody]
  /\ context = [t \in Turns |-> NoContext]
  /\ plan = [t \in Threads |-> Nobody]
  /\ said = [t \in Turns |-> {}]

Calls == {"decision", "again"}
Message(t) == <<t, "message">>
Decision(t, call) == <<t, call>>
Live(thread) == pc[thread] \notin {"off", "over"}

-------------------------------------------------------------------------------
(* submit: the project is known, has a row, and the user's words are kept    *)
(* before anything else is done.  TurnRunner runs one turn of a request.     *)
Submit(t, s) ==
  /\ pc[Message(t)] = "off"
  /\ \A u \in Turns : RequestOf[u] = RequestOf[t] => ~Live(Message(u))
  /\ session' = [session EXCEPT ![t] = s]
  /\ AdoptProject
  /\ Goto(Message(t), IF KnownProject THEN "telling" ELSE "over")
  /\ UNCHANGED <<references, otherRows, bytes, untouched, asked, context, plan, said>>

(* Mutant of Tell: the words are kept with the answer to them. *)
TellLater(t) ==
  /\ pc[Message(t)] = "telling"
  /\ EnsureProject
  /\ Goto(Message(t), "reading_scene")
  /\ UNCHANGED <<references, deliveries, facts, transcript, clarifications,
                 approvals, jobs, scene, artifacts, bytes, untouched, inTurn>>

Tell(t) ==
  /\ pc[Message(t)] = "telling"
  /\ EnsureProject
  /\ AppendMessage("user", RequestOf[t])
  /\ Goto(Message(t), "reading_scene")
  /\ UNCHANGED <<references, deliveries, facts, clarifications, approvals, jobs,
                 scene, artifacts, bytes, untouched, inTurn>>

(* The pending question; and the scene is read first if there is none. *)
ConsiderScene(t, available) ==
  /\ pc[Message(t)] = "reading_scene"
  /\ asked' = [asked EXCEPT ![t] = PendingQuestion]
  /\ Goto(Message(t), IF available /\ scene = NoVersion THEN "grounding"
                                                        ELSE "building")
  /\ UNCHANGED <<store, untouched, session, context, plan, said>>

-------------------------------------------------------------------------------
(* ContextBuilder. *)

(* _include: a PDF stands for its pages. *)
Covered(chosen) ==
  UNION {{r.id} \cup {p.id : p \in PagesOf(r.id.upload)} : r \in ToSet(chosen)}

ImagesOf(r) ==
  CASE Kind(r.id) = "image" -> <<r.id>>
    [] Kind(r.id) = "pdf"   -> LET pages == Oldest(PagesOf(r.id.upload))
                               IN  [i \in DOMAIN pages |-> pages[i].id]
    [] OTHER                -> <<>>

Look == [wish |-> "look"]
NoWish == [wish |-> "nothing"]

Newest(rs) ==
  SubSeq(Reverse(Oldest(rs)), 1, IF Cardinality(rs) < MaxImages THEN Cardinality(rs)
                                                                ELSE MaxImages)

(* What the model has not been given and came after it last spoke. *)
ArrivedSince(t) ==
  {r \in Parents : r.id \notin Delivered(session[t]) /\ r.after >= Spoken}

(* _select_references: what was attached or named, else what is new, else, *)
(* if the message asks to look or the scene is empty, the newest.          *)
SelectReferences(t, wish) ==
  CASE wish \in Parents -> <<wish>>
    [] wish \notin Parents /\ ArrivedSince(t) # {} -> Newest(ArrivedSince(t))
    [] wish \notin Parents /\ ArrivedSince(t) = {}
         -> IF wish = Look \/ scene <= 1 THEN Newest(Parents) ELSE <<>>

(* build, its reads. *)
Select(t, wish) ==
  /\ pc[Message(t)] = "building"
  /\ LET chosen == SelectReferences(t, wish) IN
       context' = [context EXCEPT ![t] =
         [covers |-> Covered(chosen),
          images |-> FlattenSeq([i \in DOMAIN chosen |-> ImagesOf(chosen[i])])]]
  /\ Goto(Message(t), "delivering")
  /\ UNCHANGED <<store, untouched, session, asked, plan, said>>

(* _images: those that still have their bytes, so many at most. *)
Sendable(images) == SelectSeq(images, LAMBDA id : id \in files)
Sent(images) ==
  SubSeq(Sendable(images), 1,
         IF Len(Sendable(images)) < MaxImages THEN Len(Sendable(images))
                                              ELSE MaxImages)

(* build, from the images on: all that the turn covers counts as delivered. *)
Deliver(t) ==
  /\ pc[Message(t)] = "delivering"
  /\ context' = [context EXCEPT ![t].images = Sent(@)]
  /\ MakeCopies(ToSet(context'[t].images))
  /\ RecordDeliveries(session[t], context[t].covers)
  /\ Goto(Message(t), "thinking")
  /\ UNCHANGED <<project, references, facts, transcript, clarifications,
                 approvals, jobs, scene, artifacts, files, artifactBytes,
                 untouched, session, asked, plan, said>>

-------------------------------------------------------------------------------
(* What the model makes of it; an error may be that it was never asked. *)
Respond(t, outcome) ==
  /\ pc[Message(t)] = "thinking"
  /\ plan' = [plan EXCEPT ![Message(t)] =
       IF outcome.says \in {"parked", "plan"}
         THEN [turn |-> t, kind |-> outcome.kind] ELSE Nobody]
  /\ Goto(Message(t), outcome.says)
  /\ UNCHANGED <<store, untouched, session, asked, context, said>>

(* _record_facts; and unless the model asks again, the question it asked     *)
(* before is answered.  An error brings no facts.                           *)
Learnt(t) ==
  /\ IF pc[Message(t)] = "error" THEN UNCHANGED facts ELSE RecordFacts(t)
  /\ IF asked[t] # Nobody /\ pc[Message(t)] # "question"
       THEN ResolveQuestion(asked[t]) ELSE UNCHANGED clarifications

(* _dispatch of an error and of an answer. *)
GiveUp(t) ==
  /\ pc[Message(t)] = "error"
  /\ Learnt(t)
  /\ Goto(Message(t), "over")
  /\ UNCHANGED <<project, references, deliveries, transcript, approvals, jobs,
                 scene, artifacts, bytes, untouched, inTurn>>

Answer(t) ==
  /\ pc[Message(t)] = "answer"
  /\ Learnt(t)
  /\ Goto(Message(t), "saying")
  /\ UNCHANGED <<project, references, deliveries, transcript, approvals, jobs,
                 scene, artifacts, bytes, untouched, inTurn>>

(* _dispatch of a clarification. *)
Ask(t) ==
  /\ pc[Message(t)] = "question"
  /\ RecordFacts(t)
  /\ AddQuestion(t)
  /\ Goto(Message(t), "saying")
  /\ UNCHANGED <<project, references, deliveries, transcript, approvals, jobs,
                 scene, artifacts, bytes, untouched, inTurn>>

(* _park_for_approval: the model said so, or a step of the plan needs it. *)
Park(t) ==
  /\ pc[Message(t)] \in {"parked", "plan"}
  /\ pc[Message(t)] = "plan" => Flagged(plan[Message(t)])
  /\ Learnt(t)
  /\ AddApproval(t, plan[Message(t)])
  /\ Goto(Message(t), "saying")
  /\ UNCHANGED <<project, references, deliveries, transcript, jobs, scene,
                 artifacts, bytes, untouched, inTurn>>

(* _plan: a plan nothing is wrong with, while Blender is there. *)
Plan(t, available) ==
  /\ pc[Message(t)] = "plan"
  /\ available => ~Flagged(plan[Message(t)])
  /\ Learnt(t)
  /\ Goto(Message(t), IF available /\ ~Refused(plan[Message(t)]) THEN "submitting"
                                                                 ELSE "over")
  /\ UNCHANGED <<project, references, deliveries, transcript, approvals, jobs,
                 scene, artifacts, bytes, untouched, inTurn>>

(* _record_assistant. *)
Say(thread) ==
  /\ pc[thread] = "saying"
  /\ AppendMessage("assistant", RequestOf[thread[1]])
  /\ Goto(thread, "over")
  /\ UNCHANGED <<project, references, deliveries, facts, clarifications,
                 approvals, jobs, scene, artifacts, bytes, untouched, inTurn>>

-------------------------------------------------------------------------------
(* _create_job. *)
Identity(thread) == <<RequestOf[thread[1]], thread[2] \in Calls>>

(* A record some worker has is reported, not offered again. *)
CreateJob(thread) ==
  /\ pc[thread] = "submitting"
  /\ jobs' = [jobs EXCEPT ![Identity(thread)] = IF @ = Nobody THEN "queued" ELSE @]
  /\ Goto(thread, IF jobs'[Identity(thread)] = "queued" THEN "offering" ELSE "over")
  /\ UNCHANGED <<project, references, deliveries, facts, transcript,
                 clarifications, approvals, scene, artifacts, bytes, untouched,
                 inTurn>>

(* The worker is offered the job, or none is ready, or the offer raises. *)
OfferJob(thread) ==
  /\ pc[thread] = "offering"
  /\ offers' = Append(offers, [read |-> FALSE, plan |-> plan[thread]])
  /\ Goto(thread, "saving")
  /\ UNCHANGED <<store, elsewhere2, inTurn>>

NoOffer(thread) ==
  /\ pc[thread] = "offering"
  /\ \E place \in {"saying", "over"} : Goto(thread, place)
  /\ UNCHANGED <<store, untouched, inTurn>>

SaveJob(thread) ==
  /\ pc[thread] = "saving"
  /\ jobs' = [jobs EXCEPT ![Identity(thread)] = "held"]
  /\ Goto(thread, "saying")
  /\ UNCHANGED <<project, references, deliveries, facts, transcript,
                 clarifications, approvals, scene, artifacts, bytes, untouched,
                 inTurn>>

-------------------------------------------------------------------------------
(* decide_approval: the record is read, ...  TurnRunner joins a second        *)
(* decision to the first only while it has the first one in its history; so   *)
(* the second may come at any time after it.                                  *)
Decide(t, call) ==
  /\ pc[Decision(t, call)] = "off" /\ KnownProject
  /\ call = "again" => pc[Decision(t, "decision")] # "off"
  /\ approvals[t] # Nobody
  /\ EnsureProject
  /\ plan' = [plan EXCEPT ![Decision(t, call)] = approvals[t].plan]
  /\ Goto(Decision(t, call), IF Undecided(t) THEN "deciding" ELSE "over")
  /\ UNCHANGED <<references, otherRows, bytes, untouched, session, asked,
                 context, said>>

(* Mutant of Settle: what is rejected is run as well. *)
SettleEither(t, call, decision) ==
  /\ pc[Decision(t, call)] = "deciding"
  /\ WriteDecision(t, decision)
  /\ said' = [said EXCEPT ![t] = @ \cup {decision}]
  /\ Goto(Decision(t, call), "submitting")
  /\ UNCHANGED <<project, references, deliveries, facts, transcript, clarifications,
                 jobs, scene, artifacts, bytes, untouched, session, asked, context,
                 plan>>

(* ... and the decision written over a pending one, whether or not there     *)
(* still is one: nobody looks how many rows were written, and a second       *)
(* decision goes on as if it had been the first.  Approved, the plan becomes *)
(* a job of its own, its tokens covering every step; no step is classified   *)
(* again.                                                                    *)
Settle(t, call, decision) ==
  /\ pc[Decision(t, call)] = "deciding"
  /\ WriteDecision(t, decision)
  /\ said' = [said EXCEPT ![t] = @ \cup {decision}]
  /\ Goto(Decision(t, call), IF decision = "approved" THEN "submitting" ELSE "saying")
  /\ UNCHANGED <<project, references, deliveries, facts, transcript, clarifications,
                 jobs, scene, artifacts, bytes, untouched, session, asked, context,
                 plan>>

-------------------------------------------------------------------------------
Wishes == Parents \cup {Look, NoWish}

TurnStep(t) ==
  \/ Tell(t)
  \/ \E available \in BOOLEAN : ConsiderScene(t, available) \/ Plan(t, available)
  \/ \E wish \in Wishes : Select(t, wish)
  \/ Deliver(t)
  \/ \E outcome \in Outcomes : Respond(t, outcome)
  \/ GiveUp(t) \/ Answer(t) \/ Ask(t) \/ Park(t)
  \/ \E call \in Calls, decision \in {"approved", "rejected"} : Settle(t, call, decision)

JobStep(thread) ==
  \/ CreateJob(thread) \/ OfferJob(thread) \/ NoOffer(thread) \/ SaveJob(thread)
  \/ Say(thread)
===============================================================================
