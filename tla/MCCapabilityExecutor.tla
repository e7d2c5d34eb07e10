------------------------- MODULE MCCapabilityExecutor -------------------------
(***************************************************************************)
(* TLC instances of CapabilityExecutor.  "build" and "rebuild" carry one   *)
(* mutation identity with different plans, as a request sent again may;    *)
(* "clear" removes what they build.                                        *)
(***************************************************************************)
EXTENDS CapabilityExecutor

MCStep(kind, object, place) ==
  [kind |-> kind, object |-> object, place |-> place]

MCEmpty == [at |-> [o \in Objects |-> Absent], extras |-> 0]

MCJobs == {"build", "rebuild", "clear"}
MCKeyOf == [j \in MCJobs |-> IF j = "clear" THEN "k2" ELSE "k1"]
MCKeys == {"k1", "k2"}
MCBuild == <<MCStep("create", "wall", "p"), MCStep("set", "wall", "q")>>
MCPlanOf == [j \in MCJobs |->
               CASE j = "build"   -> MCBuild
                 [] j = "rebuild" -> <<MCStep("create", "wall", "q")>>
                 [] j = "clear"   -> <<MCStep("delete", "wall", "p"),
                                       MCStep("blind", "wall", "p")>>]
MCRequired == [j \in MCJobs |-> IF j = "build" THEN MCEmpty ELSE AnyVersion]

===============================================================================
