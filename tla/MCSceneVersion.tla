---------------------------- MODULE MCSceneVersion ----------------------------
(* TLC instances of SceneVersion. *)
EXTENDS SceneVersion

Object(n, id, p, m) ==
  [name |-> n, id |-> id, type |-> "MESH", at |-> p, finite |-> TRUE, flat |-> FALSE,
   material |-> m]

MCRank == [t \in Texts |-> CHOOSE r \in 1..Cardinality(Texts) :
             r = Cardinality({u \in Texts : u = "a" \/ (u = "b" /\ t # "a") \/ u = t})]

(* Two good objects, and one of them with everything that may be odd of it.   *)
Second == {Object("b", id, p, "black") : id \in Ids, p \in {1, 2}}
            \cup {Object("b", "a", 1, m) : m \in {"none", "glowing", "unnamed"}}
            \cup {[Object("b", "a", 1, "uncoloured") EXCEPT !.flat = TRUE],
                  [Object("b", Absent, 1, "none") EXCEPT !.finite = FALSE],
                  Object(Blank, "b", 6, "none")}
            \cup {[Object("b", Absent, 1, "none") EXCEPT !.type = t] : t \in {"mesh", Blank}}

MCFirstScenes ==
  {[units |-> [unit_system |-> "METRIC", scale_length |-> "one"], objects |-> objects] :
     objects \in {<<>>} \cup {<<Object("a", id, 3, "uncoloured"), o>> :
                               id \in {Absent, "a"}, o \in Second}}
===============================================================================
