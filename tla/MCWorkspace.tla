------------------------------ MODULE MCWorkspace -------------------------------
(* TLC instances of Workspace. *)
EXTENDS Workspace
CONSTANTS t1, t2, t3, r1, r2, sketch, plans, again

MCRequestOf == [t \in {t1, t2, t3} |-> IF t = t2 THEN r2 ELSE r1]
MCContentOf == [u \in {sketch, plans, again} |-> IF u = sketch THEN "s" ELSE "p"]
MCKindOf == [c \in {"s", "p"} |-> IF c = "s" THEN "image" ELSE "pdf"]

(* Uploads of every form, the good ones of each kind among them. *)
MCForms ==
  [named : {"image", "pdf", "document", "unknown"},
   holds : {"image", "pdf", "text", "other"},
   declared : {"nothing", "image", "pdf", "document"},
   size : {"none", "small", "large"}]

MCOutcomes ==
  {[says |-> s, kind |-> "safe"] : s \in {"error", "answer", "question", "plan"}}
    \cup {[says |-> "plan", kind |-> "both"], [says |-> "plan", kind |-> "refused"],
          [says |-> "parked", kind |-> "flagged"]}

(* Two messages at once; a message while the worker connects; a message sent *)
(* again, with the user's decisions; a decision or an upload when the process *)
(* dies; uploads of the same bytes; an upload during a message; a deletion   *)
(* of the project beside a message, an upload, a first read or a rename, or  *)
(* after a restart that interrupted a message.                               *)
MCCasts ==
  {{t1, t2}, {t1, "hello"}, {t1, t3, "decision"}, {t1, "decision", "restart"},
   {t1, "decision", "again"}, {t1, sketch}, {plans, again, "restart"},
   {plans, sketch}, {t1, "erase", "restart"}, {"erase", "hello"},
   {plans, "erase"}, {"erase", "open"}}
===============================================================================
