------------------------------ MODULE MCAssistant ------------------------------
(* TLC instances of Assistant. *)
EXTENDS Assistant, TLC

(* One good value of each kind of argument, and of texts as the field's own. *)
Good(f, kind) ==
  CASE f = "primitive" -> Primitives
    [] f = "code" -> Codes
    [] kind = "text" -> Names
    [] kind \in {"positive", "number"} -> {"number"}
    [] OTHER -> {kind}

(* Values of no use, and of use in another place or shape. *)
Odd == {"null", "empty", "blank", "zero", "negative", "infinite", "flag", "over",
        "vec2", "vec3", "vec2_list", "vec3_list", "rgb", "polygon_of_lists",
        "short_list", "number"}

Kinds(spec) ==
  spec.required @@ spec.optional @@ [f \in spec.identity |-> "text"]

(* All a capability requires, with some of its optional arguments. *)
Plain(c) ==
  LET spec == Specs[c] kinds == Kinds(spec) IN
  UNION {
    {given \in [DOMAIN spec.required \cup more \cup named -> UNION {Good(f, kinds[f]) : f \in DOMAIN kinds}] :
       \A f \in DOMAIN given : given[f] \in Good(f, kinds[f])} :
    more \in {{}, DOMAIN spec.optional},
    named \in IF spec.identity = {} THEN {{}} ELSE {{f} : f \in spec.identity} }

First(S) == CHOOSE x \in S : TRUE

(* ... or with one argument that is odd, missing or unknown. *)
Bent(c) ==
  LET plain == First(Plain(c)) IN
  {[plain EXCEPT ![f] = v] : f \in DOMAIN plain, v \in Odd}
    \cup {[f \in DOMAIN plain \ {g} |-> plain[f]] : g \in DOMAIN plain}
    \cup {plain @@ ("size" :> "number")}
    \cup {plain @@ (f :> v) : f \in DOMAIN Specs[c].optional \cup Specs[c].identity, v \in Odd}

Entry(c, label, given) ==
  [capability |-> c, label |-> label, form |-> "object", arguments |-> given]
Said(kind, message, question, operations) ==
  [shape |-> "schema", kind |-> kind, message |-> message, question |-> question,
   operations |-> operations]
Wanting == Entry("inspect_scene", "text", Nothing)

MCReplies ==
  {[shape |-> s] : s \in {"no object", "off schema"}}
    \cup {Said(k, m, q, <<>>) : k \in {"answer", "clarification", "plan"},
                               m \in {"text", "blank"}, q \in {"text", "blank"}}
    \cup UNION {{Said("plan", "text", "blank", <<Entry(c, "text", given)>>) :
                   given \in Plain(c) \cup Bent(c)} : c \in Proposable}
    \cup {Said("plan", "text", "blank", <<e>>) :
            e \in {[Wanting EXCEPT !.label = "blank"], [Wanting EXCEPT !.label = "empty"],
                   [Wanting EXCEPT !.form = "broken"],
                   [Wanting EXCEPT !.capability = "export_glb"]}}
    \cup {Said("plan", "text", "blank", [i \in 1..n |-> Wanting]) : n \in 2..3}
    \cup {Said("plan", "text", "blank",
               <<Entry("execute_blender_python", "text", "code" :> "flagged"),
                 Entry("execute_blender_python", "text", "code" :> code)>>) : code \in Codes}
===============================================================================
