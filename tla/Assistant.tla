------------------------------- MODULE Assistant -------------------------------
(***************************************************************************)
(* A message on its way from the model to Blender: the configured provider *)
(* answers (studio_agent/providers), the control plane makes a job of what *)
(* it proposes (design_chat.py, create_capability_job), and the worker     *)
(* hands the steps to its Blender back end.                                *)
(*                                                                         *)
(* The agent and the back end each hold a table of what a capability       *)
(* takes, written apart; here they meet.                                   *)
(***************************************************************************)
EXTENDS BlenderBackend

CONSTANTS
  Replies,     \* what the model may answer, as the CLI hands it over
  Providers    \* the providers that may be configured

(* A response holds a list of operations. *)
ASSUME RepliesAssumption ==
  \A raw \in Replies : raw.shape = "schema" =>
    DOMAIN raw.operations = 1 .. Len(raw.operations)

VARIABLES
  provider,    \* the configured design provider
  turn,        \* how far the message is
  outcome,     \* the AgentOutcome
  steps        \* what the worker has still to hand to its back end

turnVars == <<provider, turn, outcome, steps>>
assistantVars == <<provider, turn, outcome, steps, backendVars>>

-------------------------------------------------------------------------------
Unknown == [says |-> "nothing yet"]
PlainAnswer == [says |-> "answer"]
ModelPlans == provider \in {"codex_astra", "fake_llm"}
Invalid(result) == result = Failed("VALIDATION_ERROR")

AssistantInit ==
  /\ provider \in Providers
  /\ turn = "asked"
  /\ outcome = Unknown
  /\ steps = <<>>
  /\ BackendInit

Concluded(result) ==
  /\ turn' = "answered"
  /\ outcome' = result

-------------------------------------------------------------------------------
(* complete: the CLI runs out of time, fails, writes nothing or no object;   *)
(* or there is a response to parse.                                          *)
Completions == {Failed("PROVIDER_UNAVAILABLE")} \cup {ParseAgentResponse(raw) : raw \in Replies}

(* CodexAstraProvider.respond.  Nobody signed in: nothing is asked. *)
NotConnected ==
  /\ provider = "codex_astra" /\ turn = "asked"
  /\ Concluded(Failed("PROVIDER_UNAVAILABLE"))
  /\ UNCHANGED <<provider, steps, backendVars>>

AskModel ==
  /\ provider = "codex_astra" /\ turn = "asked"
  /\ \E result \in Completions :
       IF Invalid(result) THEN turn' = "asked again" /\ UNCHANGED outcome
                          ELSE Concluded(result)
  /\ UNCHANGED <<provider, steps, backendVars>>

(* A response that does not fit is shown to the model once, with the reason. *)
AskAgain ==
  /\ turn = "asked again"
  /\ \E result \in Completions : Concluded(result)
  /\ UNCHANGED <<provider, steps, backendVars>>

(* FakeLlmProvider.respond: unavailable, a response it was given, or none.    *)
FakeResponds ==
  /\ provider = "fake_llm" /\ turn = "asked"
  /\ \E result \in Completions \cup {PlainAnswer} : Concluded(result)
  /\ UNCHANGED <<provider, steps, backendVars>>

(* RuleBasedProvider.interpret: the one sentence it knows, with a distance to *)
(* move by; and how LegacyProviderAdapter passes each of its answers on.      *)
MoveBy(name) ==
  <<[capability |-> "move_object", label |-> "move_object",
     arguments |-> [name |-> name, delta_meters |-> "vec3"]]>>
Interpreted ==
  {Failed("VALIDATION_ERROR"), Failed("INVALID_UNITS"), PlainAnswer}
    \cup {Proposed(MoveBy(n)) : n \in Names}

LegacyResponds ==
  /\ turn = "asked"
  /\ \/ /\ provider = "rule_based"
        /\ \E result \in Interpreted : Concluded(result)
     \/ /\ provider \in {"astra", "codex"}
        /\ Concluded(Failed("PROVIDER_UNAVAILABLE"))
  /\ UNCHANGED <<provider, steps, backendVars>>

-------------------------------------------------------------------------------
(* handle_turn and _plan: only a plan can make a job, and flagged code waits  *)
(* for the user.                                                              *)
CodeOf(operation) ==
  IF operation.capability = "execute_blender_python"
    THEN operation.arguments["code"] ELSE "none"
Flagged == \E i \in DOMAIN outcome.operations : CodeOf(outcome.operations[i]) = "flagged"
RefusedCode == \E i \in DOMAIN outcome.operations : CodeOf(outcome.operations[i]) = "refused"

(* The job's operations; those the user approved carry the approval token.    *)
JobSteps(approved) ==
  [i \in DOMAIN outcome.operations |->
     LET operation == outcome.operations[i] IN
     Ask(operation.capability, operation.arguments,
         IF approved /\ CodeOf(operation) = "flagged" THEN "flagged" ELSE NoToken)]

(* _create_job: an invalid job fails the message.  The worker reads the scene *)
(* before the steps, and exports the model after them.                        *)
Read == Ask("inspect_scene", Nothing, NoToken)
Export == Ask("export_glb", [output_path |-> "cube"], NoToken)
CreateJob(approved) ==
  IF JobIsValid(outcome.operations)
    THEN turn' = "working" /\ steps' = <<Read>> \o JobSteps(approved) \o <<Export>>
    ELSE turn' = "not made" /\ UNCHANGED steps

Plan ==
  /\ turn = "answered" /\ outcome.says = "plan"
  /\ IF Flagged THEN turn' = "parked" /\ UNCHANGED steps
     ELSE IF RefusedCode THEN turn' = "refused" /\ UNCHANGED steps
     ELSE CreateJob(FALSE)
  /\ UNCHANGED <<provider, outcome, backendVars>>

(* The machine is not connected: the message fails, and nothing is kept. *)
NoWorker ==
  /\ turn = "answered" /\ outcome.says = "plan"
  /\ turn' = "refused"
  /\ UNCHANGED <<provider, outcome, steps, backendVars>>

Decide ==
  /\ turn = "parked"
  /\ \/ CreateJob(TRUE)
     \/ turn' = "refused" /\ UNCHANGED steps
  /\ UNCHANGED <<provider, outcome, backendVars>>

-------------------------------------------------------------------------------
(* The worker hands on one step after another, and stops at one that fails.   *)
HandStep ==
  /\ turn = "working" /\ steps # <<>>
  /\ stage = "idle" \/ (stage = "answered" /\ answer.ok)
  /\ Invoke(Head(steps))
  /\ steps' = Tail(steps)
  /\ UNCHANGED <<provider, turn, outcome>>

FinishJob ==
  /\ turn = "working" /\ stage = "answered"
  /\ ~answer.ok \/ steps = <<>>
  /\ turn' = "done" /\ steps' = <<>>
  /\ UNCHANGED <<provider, outcome, backendVars>>

Respond == NotConnected \/ AskModel \/ AskAgain \/ FakeResponds \/ LegacyResponds
Work == HandStep \/ FinishJob

AssistantNext ==
  \/ Respond
  \/ Plan \/ NoWorker \/ Decide
  \/ Work
  \/ BackendStep /\ UNCHANGED turnVars

(* A provider answers or runs out of time, the worker's loop goes on, and the *)
(* session gives up on an answer.  The user need not decide.                  *)
Fairness ==
  /\ WF_assistantVars(Respond) /\ WF_assistantVars(Plan) /\ WF_assistantVars(Work)
  /\ WF_assistantVars(Serve /\ UNCHANGED turnVars)

AssistantSpec == AssistantInit /\ [][AssistantNext]_assistantVars /\ Fairness

-------------------------------------------------------------------------------
(* Properties. *)

AssistantTypeOK ==
  /\ BackendTypeOK
  /\ turn \in {"asked", "asked again", "answered", "parked", "refused", "not made",
               "working", "done"}

(* What the agent accepts of a model, the back end understands: no step of    *)
(* such a plan is sent back as invalid, unknown or unapproved once the user   *)
(* has been told that it is being carried out (proposal.py, "the only place   *)
(* it becomes something the platform will act on").  Code the classifier      *)
(* refuses is the exception: beside a flagged step it is not looked for       *)
(* (design_chat.py, _plan).                                                   *)
AcceptedIsUnderstood ==
  turn = "working" /\ ModelPlans /\ stage = "answered" /\ Code # "refused"
    => answer.why # "refused"

(* A plan that was accepted makes a job, unless a step's label is blank: the  *)
(* agent lets such a label through and the job's schema does not.             *)
PlansBecomeJobs ==
  turn = "not made" => \E i \in DOMAIN outcome.operations :
                         ~Labelled(outcome.operations[i])

(* The worker is never stuck in a step: a Blender that runs too long is       *)
(* killed, a server that has stopped is given up.                             *)
StepsAreAnswered == turn = "working" ~> turn = "done"
===============================================================================
