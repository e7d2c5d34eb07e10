------------------------------ MODULE SceneVersion ------------------------------
(***************************************************************************)
(* "Did the scene change?"  The worker reads the objects of the Blender    *)
(* file (capability_executor.py), checks what it read (normalize.py) and   *)
(* names it by a digest (studio_contracts/scene.py); the control plane     *)
(* keeps the last scene reported, rebuilds it for the agent                *)
(* (design_chat.py), and sends the plan out with its version; the worker   *)
(* reads again and goes on only if the version is still that one.          *)
(*                                                                         *)
(* A version is the digest's input itself: SHA-256 is taken to have no     *)
(* collisions.  A position, a size, a turn and a scale are one number, in  *)
(* quarters of the digest's quantum.                                       *)
(***************************************************************************)
EXTENDS Integers, Sequences, FiniteSets

CONSTANTS
  Texts,        \* names, and identifiers the platform gives to objects
  Rank,         \* where each stands in the order of strings
  FirstScenes,  \* what may be in Blender at first
  Places,       \* where an object may be put
  MaxEdits,     \* changes made in Blender, at most
  MaxReads      \* reads of the scene, at most

ASSUME RanksOrder ==
  /\ Rank \in [Texts -> Nat]
  /\ \A t, u \in Texts : Rank[t] = Rank[u] => t = u

VARIABLES
  blend,    \* the scene in Blender, objects in the order it lists them
  edits,    \* how often it was changed
  reads,    \* how often it was read: the time of the last reading
  executor, \* "up", or "down" when a read has raised out of the executor
  cache,    \* the row of project_scenes
  plan,     \* the plan under way: its version, and the scene the agent saw
  verdict   \* what the worker made of it: "none", "unchanged", "stale", "failed"

sceneVars == <<blend, edits, reads, executor, cache, plan, verdict>>

-------------------------------------------------------------------------------
Absent == "absent"
Empty == "empty"
Blank == "blank"    \* of white space only

Ids == Texts \cup {Absent, Empty, Blank}
Names == Texts \cup {Blank}

(* _describe: an object as Blender has it.  A colour channel may be over one, *)
(* a scale may be zero, a number may be no number, and the name of a material *)
(* (the material "unnamed") or of a type may be blank.                        *)
Objects ==
  [name : Names, id : Ids, type : {"MESH", "mesh", Blank}, at : Places,
   finite : BOOLEAN, flat : BOOLEAN,
   material : {"none", "uncoloured", "black", "glowing", "unnamed"}]

(* The unit settings, as the reading gives them; whatever they are, it gives  *)
(* lengths in metres.                                                         *)
UnitSystems == {"METRIC", "IMPERIAL", "NONE"}
Lengths == {"one", "zero", "not finite"}
Units == [unit_system : UnitSystems, scale_length : Lengths]
LengthUnit == "m"

ASSUME ScenesAssumption ==
  /\ Places \subseteq Int
  /\ FirstScenes \subseteq [units : Units, objects : Seq(Objects)]

-------------------------------------------------------------------------------
(* What is read, checked (normalize.py).                                      *)
Finite(o) == o.finite
AnyMaterial(o) == TRUE    \* mutant: a channel over one passes
MaterialOk(o) == o.material # "glowing"

(* scene_snapshot_from_backend, before the digest: one odd object and the     *)
(* whole read is refused.                                                     *)
Understood(scene) ==
  /\ scene.units.unit_system \in UnitSystems /\ scene.units.scale_length # "not finite"
  /\ \A i \in DOMAIN scene.objects : Finite(scene.objects[i]) /\ MaterialOk(scene.objects[i])

(* _scene_object: an empty identifier is no identifier. *)
Normal(o) == [o EXCEPT !.id = IF o.id = Empty THEN Absent ELSE o.id]

Normalised(scene) ==
  [scene EXCEPT !.objects = [i \in DOMAIN scene.objects |-> Normal(scene.objects[i])]]

-------------------------------------------------------------------------------
(* The digest (studio_contracts/scene.py).                                    *)
Quantum == 4

(* _round_half_even, in quanta. *)
RoundHalfEven(value) ==
  LET floor == value \div Quantum
      diff == value - Quantum * floor
  IN
  CASE 2 * diff > Quantum -> floor + 1
    [] 2 * diff < Quantum -> floor
    [] OTHER -> IF floor % 2 = 0 THEN floor ELSE floor + 1

HasStableId(o) == o.id \in Texts
SortKey(o) == IF HasStableId(o) THEN <<0, o.id>> ELSE <<1, o.name>>
Before(key, other) ==
  \/ key[1] < other[1]
  \/ key[1] = other[1] /\ Rank[key[2]] < Rank[other[2]]

(* Every object is named and of some type, and no two share a key. *)
Digestible(scene) ==
  /\ \A i \in DOMAIN scene.objects :
       scene.objects[i].name # Blank /\ scene.objects[i].type # Blank
  /\ \A i, j \in DOMAIN scene.objects :
       SortKey(scene.objects[i]) = SortKey(scene.objects[j]) => i = j

Listed(objects) == objects    \* mutant: in the order Blender lists them

Ordered(objects) ==
  [n \in DOMAIN objects |->
     objects[CHOOSE i \in DOMAIN objects :
               Cardinality({j \in DOMAIN objects :
                  Before(SortKey(objects[j]), SortKey(objects[i]))}) = n - 1]]

ProjectionByKey(o) ==    \* mutant: the key stands for the object's name
  [key |-> SortKey(o), type |-> o.type, at |-> RoundHalfEven(o.at), flat |-> o.flat,
   material |-> o.material]

Projection(o) ==
  [id |-> o.id, name |-> o.name, type |-> o.type, at |-> RoundHalfEven(o.at), flat |-> o.flat,
   material |-> o.material]

Version(scene) ==
  LET ordered == Ordered(scene.objects) IN
  [units |-> scene.units,
   objects |-> [n \in DOMAIN ordered |-> Projection(ordered[n])]]

-------------------------------------------------------------------------------
(* A snapshot: the wire document the worker reports and the row holds.        *)
NoUnits == [unit_system |-> "unread", scale_length |-> "unread"]
NoVersion == [units |-> NoUnits, objects |-> <<>>]
NoScene == [units |-> NoUnits, objects |-> <<>>]

Snapshot(scene) ==
  LET normal == Normalised(scene) IN
  [scene |-> normal, version |-> Version(normal), captured_at |-> reads + 1]
NoSnapshot == [scene |-> NoScene, version |-> NoVersion, captured_at |-> 0]

(* What one reading comes to. *)
Refused(scene) == ~Understood(scene)
Raises(scene) == Understood(scene) /\ ~Digestible(Normalised(scene))
Read(scene) == Understood(scene) /\ Digestible(Normalised(scene))

(* _snapshot_from_wire: field by field, an absent colour stays absent.        *)
Rebuilt(wire) == wire.scene

-------------------------------------------------------------------------------
NoPlan == [version |-> NoVersion, seen |-> NoScene]

SceneInit ==
  /\ blend \in FirstScenes
  /\ edits = 0 /\ reads = 0
  /\ executor = "up"
  /\ cache = NoSnapshot /\ plan = NoPlan /\ verdict = "none"

(* Somebody works in Blender, or a plan has done so.  Names stay apart.       *)
Become(objects) ==
  /\ edits < MaxEdits /\ edits' = edits + 1
  /\ \A i, j \in DOMAIN objects : objects[i].name = objects[j].name => i = j
  /\ blend' = [blend EXCEPT !.objects = objects]
  /\ UNCHANGED <<reads, executor, cache, plan, verdict>>

Alter(i) ==
  LET o == blend.objects[i] IN
  \E altered \in {[o EXCEPT !.name = n] : n \in Names}
                   \cup {[o EXCEPT !.at = p] : p \in Places}
                   \cup {[o EXCEPT !.material = m] : m \in {"none", "uncoloured", "black"}} :
    altered # o /\ Become([blend.objects EXCEPT ![i] = altered])

(* DUPLICATE_OBJECT: a copy has the custom properties of its original, its    *)
(* identifier with them, unless it is given one of its own.                   *)
Duplicate(i) ==
  \E n \in Texts, id \in Texts \cup {blend.objects[i].id} :
    Become(Append(blend.objects, [blend.objects[i] EXCEPT !.name = n, !.id = id]))

Remove(i) ==
  Become([n \in 1..(Len(blend.objects) - 1) |->
            IF n < i THEN blend.objects[n] ELSE blend.objects[n + 1]])

Reorder ==
  \E i, j \in DOMAIN blend.objects :
    i < j /\ Become([blend.objects EXCEPT ![i] = blend.objects[j],
                                         ![j] = blend.objects[i]])

ChangeUnits ==
  /\ edits < MaxEdits /\ edits' = edits + 1
  /\ \E units \in {[blend.units EXCEPT !.unit_system = u] : u \in UnitSystems}
                     \cup {[blend.units EXCEPT !.scale_length = l] : l \in Lengths} :
       units # blend.units /\ blend' = [blend EXCEPT !.units = units]
  /\ UNCHANGED <<reads, executor, cache, plan, verdict>>

-------------------------------------------------------------------------------
Reading == executor = "up" /\ reads < MaxReads /\ reads' = reads + 1

(* _read_scene catches what normalize.py refuses; what the digest refuses     *)
(* raises through execute and the link client's loop, and ends the worker.    *)
ReadRaises ==
  /\ Reading
  /\ Raises(blend)
  /\ executor' = "down"
  /\ plan' = NoPlan
  /\ UNCHANGED <<blend, edits, cache, verdict>>

RestartWorker ==
  /\ executor = "down" /\ executor' = "up"
  /\ UNCHANGED <<blend, edits, reads, cache, plan, verdict>>

(* The scene is read and reported, and _record_scene replaces the row.  (A    *)
(* report that is late or lost is a read made earlier, or not at all.)        *)
Ground ==
  /\ Reading
  /\ cache' = IF Read(blend) THEN Snapshot(blend) ELSE cache
  /\ ~Raises(blend)
  /\ UNCHANGED <<blend, edits, executor, plan, verdict>>

(* A turn plans on the scene in the row; its job carries that row's version.  *)
PlanOnScene ==
  /\ cache # NoSnapshot /\ plan = NoPlan
  /\ plan' = [version |-> cache.version, seen |-> Rebuilt(cache)]
  /\ verdict' = "none"
  /\ UNCHANGED <<blend, edits, reads, executor, cache>>

(* execute, up to the precondition. *)
CheckScene ==
  /\ Reading /\ plan # NoPlan
  /\ ~Raises(blend)
  /\ verdict' = IF Refused(blend) THEN "failed"
                ELSE IF Version(Normalised(blend)) = plan.version
                  THEN "unchanged" ELSE "stale"
  /\ plan' = NoPlan
  /\ UNCHANGED <<blend, edits, executor, cache>>

Edit ==
  \/ \E i \in DOMAIN blend.objects : Alter(i) \/ Duplicate(i) \/ Remove(i)
  \/ Reorder \/ ChangeUnits

SceneNext == Edit \/ ReadRaises \/ RestartWorker \/ Ground \/ PlanOnScene \/ CheckScene

SceneSpec == SceneInit /\ [][SceneNext]_sceneVars

-------------------------------------------------------------------------------
Objectlike(scene) == {scene.objects[i] : i \in DOMAIN scene.objects}

(* validate_scene_snapshot: the rules a consumer of the contract holds a      *)
(* snapshot to, its own and those of the schemas.                             *)
Keeps(scene) ==
  [length_unit      |-> LengthUnit \in {"METERS"},    \* a pattern of capitals
   unit_system      |-> scene.units.unit_system \in UnitSystems,
   scale_length     |-> scene.units.scale_length \notin {"zero", "not finite"},
   numbers          |-> \A o \in Objectlike(scene) : o.finite,
   scale            |-> \A o \in Objectlike(scene) : ~o.flat,
   name             |-> \A o \in Objectlike(scene) : o.name # Blank,
   studio_object_id |-> \A o \in Objectlike(scene) : o.id \notin {Empty, Blank},
   object_type      |-> \A o \in Objectlike(scene) : o.type = "MESH",
   material_name    |-> \A o \in Objectlike(scene) : o.material # "unnamed",
   base_color       |-> \A o \in Objectlike(scene) : o.material # "glowing",
   order            |-> \A i, j \in DOMAIN scene.objects :
                          SortKey(scene.objects[i]) = SortKey(scene.objects[j]) => i = j]

Breaches(scene) == {rule \in DOMAIN Keeps(scene) : ~Keeps(scene)[rule]}

-------------------------------------------------------------------------------
(* Properties. *)

(* What the snapshots say of an object, but for where it is.                  *)
Kind(o) == [o EXCEPT !.at = 0]

Apart(a, b) == IF a < b THEN b - a ELSE a - b

SameButForAQuantum(scene, other) ==
  /\ scene.units = other.units
  /\ Len(scene.objects) = Len(other.objects)
  /\ \A o \in Objectlike(scene) :
       \E p \in Objectlike(other) : Kind(o) = Kind(p) /\ Apart(o.at, p.at) <= Quantum

(* The planning-relevant state is all in the version: a plan the worker goes  *)
(* on with is carried out on the scene the agent was shown, to a quantum,     *)
(* through the report, the row and its rebuilding ("the worker's in-lock      *)
(* scene-version check", repositories.py SceneRepository).                    *)
GoesOnOnTheSceneSeen ==
  [][verdict' = "unchanged" /\ verdict # "unchanged"
       => SameButForAQuantum(plan.seen, Normalised(blend))]_sceneVars

(* Reading is not a change, nor is the order Blender lists its objects in:    *)
(* the same objects are never called stale ("refused for no design reason",   *)
(* scene.py).                                                                 *)
UntouchedIsNotStale ==
  [][verdict' = "stale" /\ verdict # "stale"
       => \/ plan.seen.units # blend.units
          \/ Objectlike(plan.seen) # Objectlike(Normalised(blend))]_sceneVars

(* The worker's checks and the contract's were written separately.  What the  *)
(* worker lets through breaks no rule of the contract but six it does not     *)
(* look at - and one of them always, as the validator wants no "m" for the    *)
(* metre - and goes by its own version.                                       *)
Unchecked == {"length_unit", "scale_length", "scale", "studio_object_id", "object_type",
              "material_name"}
OnlyKnownBreaches ==
  cache # NoSnapshot =>
    /\ Breaches(cache.scene) \subseteq Unchecked
    /\ cache.version = Version(cache.scene)

SceneTypeOK ==
  /\ blend.units \in Units /\ Objectlike(blend) \subseteq Objects
  /\ edits \in 0..MaxEdits /\ reads \in 0..MaxReads
  /\ executor \in {"up", "down"}
  /\ cache.captured_at \in 0..MaxReads
  /\ verdict \in {"none", "unchanged", "stale", "failed"}
===============================================================================
