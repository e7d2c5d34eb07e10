----------------------------- MODULE BlenderBackend ----------------------------
(***************************************************************************)
(* The worker's way into Blender: OfficialBlenderLabBackend                *)
(* (backends/official/backend.py) turns a capability into a script         *)
(* (scripts.py) and hands it through one long-lived session (session.py)   *)
(* to the MCP server, which runs it in a fresh Blender that opens the      *)
(* project file.  Only what the script saves outlives that Blender.        *)
(*                                                                         *)
(* The server runs one Blender at a time and kills it after two minutes;   *)
(* the session waits three for an answer and is opened once.  A server     *)
(* that has stopped leaves its Blender running.                            *)
(***************************************************************************)
EXTENDS ModelResponse

CONSTANTS MaxObjects    \* in the project

VARIABLES
  file,       \* the objects of the saved project
  started,    \* _started: the session has been opened
  server,     \* the MCP server: "absent", "up" or "stopped"
  request,    \* what the worker asks for
  stage,      \* how far the request is: "idle", "handed", "calling", "answered"
  blender,    \* the Blender process: how far it is, its scene, its result
  answer      \* the CapabilityResult of the request

backendVars == <<file, started, server, request, stage, blender, answer>>

-------------------------------------------------------------------------------
NoId == "untagged"
Spare == "spare"    \* the name Blender makes up when a name is taken

SceneObject == [name : Names \cup {Spare}, id : Names \cup {NoId, Spare},
                look : {"old", "new"}]

NoToken == "no token"
Ask(capability, arguments, token) ==
  [capability |-> capability, arguments |-> arguments, token |-> token]
NoRequest == Ask("none", Nothing, NoToken)

Given(asked, f) == IF f \in DOMAIN asked.arguments THEN asked.arguments[f] ELSE "null"
Code == Given(request, "code")

(* A CapabilityResult: its error code, and what its message says went wrong.  *)
Succeeded == [ok |-> TRUE, code |-> "none", why |-> "none"]
Refused(code, why) == [ok |-> FALSE, code |-> code, why |-> why]

NoBlender == [at |-> "none", runs |-> NoRequest, scene |-> {}, status |-> "none"]

BackendInit ==
  /\ file \in {{}, {[name |-> n, id |-> NoId, look |-> "old"] : n \in Names},
                   {[name |-> n, id |-> n, look |-> "old"] : n \in Names}}
  /\ started = FALSE /\ server = "absent"
  /\ request = NoRequest /\ stage = "idle"
  /\ blender = NoBlender
  /\ answer = Succeeded

-------------------------------------------------------------------------------
(* The handlers: what each coerces, argument by argument, and the kind of    *)
(* script it runs.  A text is passed on as it is.                            *)
Handler(script, must, may) == [script |-> script, must |-> must, may |-> may]
SlabHandler ==
  Handler("create", [footprint_meters |-> "polygon", thickness_meters |-> "positive"],
          [color_linear_srgb |-> "rgba", elevation_meters |-> "number"])
PlaceholderHandler ==
  Handler("create", [centre_meters |-> "vec3", width_meters |-> "positive",
                     height_meters |-> "positive"],
          [color_linear_srgb |-> "rgba", depth_meters |-> "positive",
           rotation_z_radians |-> "number"])

Handlers ==
  [inspect_scene   |-> Handler("read", Nothing, Nothing),
   inspect_object  |-> Handler("look", Nothing, Nothing),
   move_object     |-> Handler("change", [desired_position_meters |-> "vec3"], Nothing),
   rotate_object   |-> Handler("change", [desired_rotation_radians |-> "vec3"], Nothing),
   scale_object    |-> Handler("change", [desired_scale |-> "vec3"], Nothing),
   set_object_dimensions
                   |-> Handler("change", [desired_dimensions_meters |-> "vec3"], Nothing),
   create_object   |-> Handler("primitive", [position_meters |-> "vec3"],
                               [dimensions_meters |-> "vec3"]),
   duplicate_object
                   |-> Handler("duplicate", Nothing, [offset_meters |-> "vec3"]),
   delete_object   |-> Handler("delete", Nothing, Nothing),
   set_material_color
                   |-> Handler("paint", [color_linear_srgb |-> "rgba"], Nothing),
   create_wall     |-> Handler("wall", [start_meters |-> "vec2", end_meters |-> "vec2",
                                        height_meters |-> "positive",
                                        thickness_meters |-> "positive"],
                               [color_linear_srgb |-> "rgba",
                                base_elevation_meters |-> "number"]),
   create_floor    |-> SlabHandler,
   create_ceiling  |-> SlabHandler,
   create_opening  |-> Handler("carve", [centre_meters |-> "vec3",
                                         width_meters |-> "positive",
                                         height_meters |-> "positive"],
                               [wall_thickness_meters |-> "number"]),
   create_door_placeholder   |-> PlaceholderHandler,
   create_window_placeholder |-> PlaceholderHandler,
   export_glb                |-> Handler("export", [output_path |-> "text"], Nothing),
   execute_blender_python    |-> Handler("python", [code |-> "code"], Nothing)]

ScriptOf(asked) == Handlers[asked.capability].script
Script == ScriptOf(request)

(* _vec3, _vec2, _rgba, _positive, _number: no other shape than the one the  *)
(* agent gives.  No number is read of a text.                                *)
Coerced ==
  [vec3 |-> {"vec3"}, vec2 |-> {"vec2"}, rgba |-> {"rgba"}, polygon |-> {"polygon"},
   positive |-> {"number"}, number |-> {"number", "zero", "negative"},
   text |-> Texts, code |-> Texts]

Understood(asked) ==
  LET handler == Handlers[asked.capability] IN
  /\ \A f \in DOMAIN handler.must : Given(asked, f) \in Coerced[handler.must[f]]
  /\ \A f \in DOMAIN handler.may \cap DOMAIN asked.arguments :
       Given(asked, f) \in Coerced[handler.may[f]]

Answered(result) ==
  /\ answer' = result
  /\ stage' = "answered"

-------------------------------------------------------------------------------
(* Invoke: the worker hands the backend a request. *)
Invoke(asked) ==
  /\ stage \in {"idle", "answered"}
  /\ request' = asked
  /\ stage' = "handed"
  /\ UNCHANGED <<file, started, server, blender, answer>>

(* invoke and the handlers up to the session.  Code is held against the       *)
(* classifier, and flagged code against the approval of that very code.       *)
Handle ==
  /\ stage = "handed"
  /\ UNCHANGED <<file, started, server, request, blender>>
  /\ CASE request.capability \notin DOMAIN Handlers ->
            Answered(Refused("CAPABILITY_UNAVAILABLE", "refused"))
       [] OTHER ->
            IF ~Understood(request) \/ (Script = "python" /\ Code = "refused")
              THEN Answered(Refused("VALIDATION_ERROR", "refused"))
              ELSE IF Script = "python" /\ Code = "flagged" /\ request.token # Code
                THEN Answered(Refused("APPROVAL_REQUIRED", "refused"))
                ELSE stage' = "calling" /\ UNCHANGED answer

(* start: under the lock, and only ever once that it succeeds. *)
OpenSession ==
  /\ stage = "calling" /\ ~started
  /\ \/ /\ started' = TRUE /\ server' = "up"
        /\ UNCHANGED <<stage, answer>>
     \/ /\ Answered(Refused("BLENDER_UNAVAILABLE", "no server"))
        /\ UNCHANGED <<started, server>>
  /\ UNCHANGED <<file, request, blender>>

(* The server starts a Blender on the project file. *)
StartBlender ==
  /\ stage = "calling" /\ started /\ server = "up"
  /\ blender.at = "none"
  /\ blender' = [at |-> "loaded", runs |-> request, scene |-> file, status |-> "none"]
  /\ UNCHANGED <<file, started, server, request, stage, answer>>

-------------------------------------------------------------------------------
(* The scripts.  _find: by stable id first, then by exact name; of several    *)
(* objects with one id, the first in Blender's own order.                     *)
Found(scene, id, name) ==
  IF \E o \in scene : o.id = id THEN {o \in scene : o.id = id}
                                ELSE {o \in scene : o.name = name}
Target(scene, asked) ==
  CASE ScriptOf(asked) = "carve" ->
         Found(scene, Given(asked, "wall_object_id"), Given(asked, "wall_name"))
    [] ScriptOf(asked) = "duplicate" ->   \* the copy's id overwrites the object's
         Found(scene, Given(asked, "new_object_id"), Given(asked, "name"))
    [] OTHER -> Found(scene, Given(asked, "object_id"), Given(asked, "name"))

FreshName(scene, name) == IF \E o \in scene : o.name = name THEN Spare ELSE name
IdOr(other, id) == IF id = "null" THEN other ELSE id

Added(scene, asked) ==
  [name |-> FreshName(scene, Given(asked, "display_name")),
   id |-> IdOr(NoId, Given(asked, "object_id")), look |-> "new"]
CopyOf(scene, o, asked) ==
  [name |-> FreshName(scene, Given(asked, "display_name")),
   id |-> IdOr(o.id, Given(asked, "new_object_id")), look |-> o.look]
Altered(scene, o) == (scene \ {o}) \cup {[o EXCEPT !.look = "new"]}

(* The platform-owned tail of authored code: every object is given an id.     *)
Tagged(scene) ==
  {IF o.id = NoId THEN [o EXCEPT !.id = o.name] ELSE o : o \in scene}

(* What authored code can make of a scene. *)
Authored(scene) ==
  {scene} \cup {scene \ {o} : o \in scene}
    \cup {scene \cup {[name |-> FreshName(scene, n), id |-> NoId, look |-> "new"]} :
            n \in Names}

(* What a script can leave in Blender, and what it says.  "raised" is an      *)
(* error of Blender's own: the script ends before it saves.                   *)
Result(left, says) == [scene |-> left, status |-> says]
Reads == {"read", "look", "export"}
OnObject == {"look", "change", "paint", "carve", "duplicate", "delete"}

Done(scene, asked) ==
  LET targets == Target(scene, asked)
      script == ScriptOf(asked)
      added == Result(scene \cup {Added(scene, asked)}, "ok")
  IN
  CASE script \in Reads -> {Result(scene, "ok")}
    [] script \in {"change", "carve"} -> {Result(Altered(scene, o), "ok") : o \in targets}
    [] script = "paint" ->
         {Result(Altered(scene, o), "ok") : o \in targets}
           \cup {Result(scene, "object_not_paintable")}
    [] script = "duplicate" ->
         {Result(scene \cup {CopyOf(scene, o, asked)}, "ok") : o \in targets}
    [] script = "delete" -> {Result(scene \ {o}, "ok") : o \in targets}
    [] script = "primitive" ->
         IF Given(asked, "primitive") = "cube" THEN {added}
                                               ELSE {Result(scene, "unsupported_primitive")}
    [] script = "wall" -> {added, Result(scene, "degenerate_wall")}
    [] script = "create" -> {added}
    [] script = "python" ->
         {Result(Tagged(made), status) :
            made \in Authored(scene), status \in {"ok", "partial"}}

Results(scene, asked) ==
  IF ScriptOf(asked) \in OnObject /\ Target(scene, asked) = {}
    THEN {Result(scene, "object_not_found")}
    ELSE LET done == Done(scene, asked) IN
         done \cup {Result(r.scene, "raised") :
                      r \in IF ScriptOf(asked) = "python" THEN {Result(scene, "ok")}
                                                         ELSE done}

(* Authored code may save the project itself while it runs: the classifier    *)
(* flags the operators that open or save another file, not save_mainfile.     *)
CodeSaves ==
  /\ blender.at = "loaded" /\ ScriptOf(blender.runs) = "python"
  /\ \E made \in Authored(blender.scene) :
       /\ Cardinality(made) <= MaxObjects
       /\ file' = made
       /\ blender' = [blender EXCEPT !.scene = made]
  /\ UNCHANGED <<started, server, request, stage, answer>>

RunScript ==
  /\ blender.at = "loaded"
  /\ \E result \in Results(blender.scene, blender.runs) :
       /\ Cardinality(result.scene) <= MaxObjects
       /\ blender' = [blender EXCEPT !.at = "worked", !.scene = result.scene,
                                    !.status = result.status]
  /\ UNCHANGED <<file, started, server, request, stage, answer>>

(* _save: what changed the scene and did not raise saves it, and so does      *)
(* authored code whatever Exception it raised.  Saving may fail, and code the *)
(* user approved may have turned Blender to another file.                     *)
SavesGeometry ==    \* mutant: one script forgets to save
  ScriptOf(blender.runs) \notin Reads \cup {"paint"} /\ blender.status \in {"ok", "partial"}

Saves ==
  ScriptOf(blender.runs) \notin Reads /\ blender.status \in {"ok", "partial"}

SaveScene ==
  /\ blender.at = "worked"
  /\ \/ /\ Saves
        /\ \/ file' = blender.scene
           \/ Given(blender.runs, "code") = "flagged" /\ UNCHANGED file
        /\ blender' = [blender EXCEPT !.at = "ended"]
     \/ /\ Saves
        /\ blender' = [blender EXCEPT !.at = "ended",
                         !.status = IF ScriptOf(blender.runs) = "python"
                                       THEN "error" ELSE "raised"]
        /\ UNCHANGED file
     \/ /\ ~Saves
        /\ blender' = [blender EXCEPT !.at = "ended"]
        /\ UNCHANGED file
  /\ UNCHANGED <<started, server, request, stage, answer>>

(* Blender ends without the script's word: it crashes, the code makes it      *)
(* exit, a line after the save fails, what it prints is not the script's      *)
(* JSON.  The server reports an error, or a text with no status in it.        *)
EndsWithoutWord ==
  /\ blender.at \in {"loaded", "worked", "ended"}
  /\ blender.status \notin {"raised", "no status"}
  /\ \E status \in {"raised", "no status"} :
       blender' = [blender EXCEPT !.at = "ended", !.status = status]
  /\ UNCHANGED <<file, started, server, request, stage, answer>>

-------------------------------------------------------------------------------
(* An error of the server's is a Blender that is not available; else          *)
(* _settled judges by the status, and takes a reply without one for a success *)
(* (a reading of the scene must have its objects).                            *)
ScriptSettled ==
  CASE blender.status = "ok" -> Succeeded
    [] blender.status = "no status" ->
         IF Script = "read" THEN Refused("VALIDATION_ERROR", "no objects") ELSE Succeeded
    [] blender.status = "object_not_found" -> Refused("OBJECT_NOT_FOUND", "object_not_found")
    [] OTHER -> Refused("MUTATION_FAILED", blender.status)

(* _execute_python: code that raised has failed only if nothing is left.      *)
CodeFailed == blender.status = "error" \/ (blender.status = "partial" /\ blender.scene = {})

Settled ==
  CASE blender.status = "raised" -> Refused("BLENDER_UNAVAILABLE", "raised")
    [] blender.status # "raised" /\ Script # "python" -> ScriptSettled
    [] OTHER -> IF CodeFailed THEN Refused("MUTATION_FAILED", blender.status) ELSE Succeeded

Reply ==
  /\ stage = "calling" /\ server = "up"
  /\ blender.at = "ended"
  /\ Answered(Settled)
  /\ blender' = NoBlender
  /\ UNCHANGED <<file, started, server, request>>

(* The server kills a Blender that has run for two minutes, wherever it is,   *)
(* and says so: STEP_TOO_LARGE.                                               *)
KillAtLimit ==
  /\ stage = "calling" /\ server = "up"
  /\ blender.at # "none"
  /\ Answered(Refused("MUTATION_FAILED", "step too large"))
  /\ blender' = NoBlender
  /\ UNCHANGED <<file, started, server, request>>

(* The server crashes or hangs. *)
ServerStops ==
  /\ server = "up"
  /\ server' = "stopped"
  /\ UNCHANGED <<file, started, request, stage, blender, answer>>

CallFailsOnSend ==    \* mutant: no limit on the wait for an answer
  /\ stage = "calling" /\ started /\ server = "stopped" /\ blender.at = "none"
  /\ Answered(Refused("BLENDER_UNAVAILABLE", "no server"))
  /\ UNCHANGED <<file, started, server, request, blender>>
CallFailsEarly ==     \* mutant: the session waits less long than the server
  /\ stage = "calling" /\ started
  /\ Answered(Refused("BLENDER_UNAVAILABLE", "no server"))
  /\ UNCHANGED <<file, started, server, request, blender>>

(* The session has no other server: a call to one that has stopped fails, at  *)
(* once or when the session has waited long enough, and so does every later.  *)
CallFails ==
  /\ stage = "calling" /\ started /\ server = "stopped"
  /\ Answered(Refused("BLENDER_UNAVAILABLE", "no server"))
  /\ UNCHANGED <<file, started, server, request, blender>>

Serve ==
  \/ Handle \/ OpenSession \/ StartBlender \/ RunScript \/ SaveScene
  \/ Reply \/ CallFails

BackendStep ==
  Serve \/ CodeSaves \/ EndsWithoutWord \/ KillAtLimit \/ ServerStops

-------------------------------------------------------------------------------
(* Properties. *)

BackendTypeOK ==
  /\ {file, blender.scene} \subseteq SUBSET SceneObject
  /\ started \in BOOLEAN
  /\ server \in {"absent", "up", "stopped"}
  /\ stage \in {"idle", "handed", "calling", "answered"}
  /\ blender.at \in {"none", "loaded", "worked", "ended"}

(* A step whose script reported it as done is in the file, as Blender had it: *)
(* each step is durable when it is journalled, and a retry skips it           *)
(* (scripts.py).  A reply without a status says nothing of the kind, and      *)
(* where code the user approved saved to is its own affair.                   *)
Mutating == request.capability \in Proposable \ {"inspect_scene", "inspect_object"}
OkIsSaved ==
  [][stage' = "answered" /\ stage = "calling" /\ answer'.ok /\ Mutating
       /\ blender.status # "no status" /\ Code # "flagged"
     => file = blender.scene]_backendVars

(* While the session still gets answers, nothing writes the project but the   *)
(* step it waits for: a Blender that outlives its step, and may save over a   *)
(* later one, is only ever one that a server left behind when it stopped      *)
(* (session.py: three minutes' wait, against the server's limit of two).      *)
LateSavesAreOrphans ==
  [][file' # file /\ stage # "calling" => server = "stopped"]_backendVars

===============================================================================
