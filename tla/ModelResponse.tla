----------------------------- MODULE ModelResponse -----------------------------
(***************************************************************************)
(* What the platform makes of a model's response: the argument contract of *)
(* every capability and parse_agent_response (studio_agent/proposal.py),   *)
(* and the job that is made of an accepted plan (create_capability_job and *)
(* validate_job in studio_contracts/jobs.py).  Pure operators.             *)
(*                                                                         *)
(* A value is known by what the two validators tell apart: "vec3" is an    *)
(* object of three finite numbers, "vec3_list" a list of them, "over" a    *)
(* colour with a channel above one, "empty" the text "", "blank" a text of *)
(* spaces, and so on; a text that is neither stands for itself, and code   *)
(* is known by what the classifier says of it.                             *)
(***************************************************************************)
EXTENDS Integers, Sequences, FiniteSets

CONSTANTS
  Names,          \* names and stable ids of objects
  MaxOperations   \* of one plan

Primitives == {"cube", "torus"}
Codes == {"safe", "flagged", "refused"}
Texts == Names \cup Primitives \cup Codes

(* `not value`, for the values an identity may have. *)
Falsy == {"null", "empty", "zero"}

-------------------------------------------------------------------------------
(* _coerce: the values each kind of argument takes... *)
Taken ==
  [number   |-> {"number", "zero", "negative"}, positive |-> {"number"},
   text     |-> Texts,                          code     |-> Texts,
   vec2     |-> {"vec2", "vec2_list"},          vec3     |-> {"vec3", "vec3_list"},
   rgba     |-> {"rgba", "rgb"},                polygon  |-> {"polygon", "polygon_of_lists"}]

(* ... and the one shape each is given. *)
CanonicalAsGiven(value) == value    \* mutant: lists are taken and handed on

Canonical(value) ==
  CASE value = "vec2_list" -> "vec2"
    [] value = "vec3_list" -> "vec3"
    [] value = "rgb" -> "rgba"
    [] value = "polygon_of_lists" -> "polygon"
    [] OTHER -> value

(* A name is no list: it is handed on as it is. *)
ASSUME ModelAssumption ==
  /\ MaxOperations \in Nat
  /\ \A name \in Names : Canonical(name) = name

(* SPECS: what each capability takes, by the model's side of the contract. *)
Takes(required, optional, identity) ==
  [required |-> required, optional |-> optional, identity |-> identity]
Nothing == [f \in {} |-> "any"]
Object == {"object_id", "name"}
Slab ==
  Takes([display_name |-> "text", footprint_meters |-> "polygon",
         thickness_meters |-> "positive"],
        [object_id |-> "text", color_linear_srgb |-> "rgba", elevation_meters |-> "number"],
        {})
Placeholder ==
  Takes([display_name |-> "text", centre_meters |-> "vec3", width_meters |-> "positive",
         height_meters |-> "positive"],
        [object_id |-> "text", color_linear_srgb |-> "rgba", depth_meters |-> "positive",
         rotation_z_radians |-> "number"],
        {})

Specs ==
  [inspect_scene   |-> Takes(Nothing, Nothing, {}),
   inspect_object  |-> Takes(Nothing, Nothing, Object),
   move_object     |-> Takes([desired_position_meters |-> "vec3"], Nothing, Object),
   rotate_object   |-> Takes([desired_rotation_radians |-> "vec3"], Nothing, Object),
   scale_object    |-> Takes([desired_scale |-> "vec3"], Nothing, Object),
   set_object_dimensions
                   |-> Takes([desired_dimensions_meters |-> "vec3"], Nothing, Object),
   create_object   |-> Takes([primitive |-> "text", display_name |-> "text",
                              position_meters |-> "vec3"],
                             [dimensions_meters |-> "vec3", object_id |-> "text"], {}),
   duplicate_object
                   |-> Takes([display_name |-> "text"],
                             [offset_meters |-> "vec3", new_object_id |-> "text"], Object),
   delete_object   |-> Takes(Nothing, Nothing, Object),
   set_material_color
                   |-> Takes([color_linear_srgb |-> "rgba"], Nothing, Object),
   create_wall     |-> Takes([display_name |-> "text", start_meters |-> "vec2",
                              end_meters |-> "vec2", height_meters |-> "positive",
                              thickness_meters |-> "positive"],
                             [object_id |-> "text", color_linear_srgb |-> "rgba",
                              base_elevation_meters |-> "number"], {}),
   create_floor    |-> Slab,
   create_ceiling  |-> Slab,
   create_opening  |-> Takes([centre_meters |-> "vec3", width_meters |-> "positive",
                              height_meters |-> "positive"],
                             [wall_thickness_meters |-> "positive"],
                             {"wall_object_id", "wall_name"}),
   create_door_placeholder   |-> Placeholder,
   create_window_placeholder |-> Placeholder,
   execute_blender_python    |-> Takes([code |-> "code"], Nothing, {})]

Proposable == DOMAIN Specs

-------------------------------------------------------------------------------
(* validate_arguments: no key but the known ones, an object to act on, every *)
(* required argument, and every optional one that is there and not null.     *)
Known(spec) == DOMAIN spec.required \cup DOMAIN spec.optional \cup spec.identity
Present(spec, given) ==
  {key \in spec.identity \cap DOMAIN given : given[key] \notin Falsy}
Chosen(spec, given) ==
  {f \in DOMAIN spec.optional \cap DOMAIN given : given[f] # "null"}

ValidArguments(capability, given) ==
  LET spec == Specs[capability] IN
  /\ DOMAIN given \subseteq Known(spec)
  /\ spec.identity # {} => Present(spec, given) # {}
  /\ \A key \in Present(spec, given) : given[key] \in Taken.text
  /\ \A f \in DOMAIN spec.required :
       f \in DOMAIN given /\ given[f] \in Taken[spec.required[f]]
  /\ \A f \in Chosen(spec, given) : given[f] \in Taken[spec.optional[f]]

Validated(capability, given) ==
  LET spec == Specs[capability] IN
  [f \in Present(spec, given) \cup DOMAIN spec.required \cup Chosen(spec, given) |->
     Canonical(given[f])]

-------------------------------------------------------------------------------
(* parse_agent_response.  An operation's label falls back to the name of its *)
(* capability when it is empty, and only then.                               *)
Accepts(entry) ==
  /\ entry.capability \in Proposable
  /\ entry.form = "object"
  /\ ValidArguments(entry.capability, entry.arguments)
Operation(entry) ==
  [capability |-> entry.capability,
   label |-> IF entry.label = "empty" THEN entry.capability ELSE entry.label,
   arguments |-> Validated(entry.capability, entry.arguments)]

Failed(code) == [says |-> "error", code |-> code]
Proposed(operations) == [says |-> "plan", operations |-> operations]

WithinLimit(operations) == Len(operations) <= MaxOperations    \* mutant: an empty plan passes

Sized(operations) == Len(operations) \in 1..MaxOperations

ParseAgentResponse(raw) ==
  CASE raw.shape # "schema" -> Failed("VALIDATION_ERROR")
    [] raw.shape = "schema" /\ raw.kind = "answer" ->
         IF raw.message = "text" THEN [says |-> "answer"]
                                 ELSE Failed("VALIDATION_ERROR")
    [] raw.shape = "schema" /\ raw.kind = "clarification" ->
         IF "text" \in {raw.question, raw.message} THEN [says |-> "clarification"]
                                                   ELSE Failed("VALIDATION_ERROR")
    [] OTHER ->
         IF /\ Sized(raw.operations)
            /\ \A i \in DOMAIN raw.operations : Accepts(raw.operations[i])
           THEN Proposed([i \in DOMAIN raw.operations |-> Operation(raw.operations[i])])
           ELSE Failed("VALIDATION_ERROR")

-------------------------------------------------------------------------------
(* create_capability_job and the schema validate_job holds it against: the   *)
(* labels of a job hold more than spaces, which the agent does not ask.      *)
Labelled(operation) == operation.label # "blank"
JobIsValid(operations) ==
  /\ operations # <<>>
  /\ \A i \in DOMAIN operations :
       operations[i].capability \in Proposable /\ Labelled(operations[i])
===============================================================================
