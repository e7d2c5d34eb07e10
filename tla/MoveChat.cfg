\* Two projects that use the same request id; one break.
CONSTANTS
  Projects = {p1, p2}
  Requests = {r1}
  Sentences <- MCSentences
  OtherPlans <- MCOtherPlans
  Elsewhere = elsewhere
  MaxBreaks = 1
SPECIFICATION FairSpec
INVARIANTS
  OneMovePerRequest
  ToldAsItIs
PROPERTIES
  RetriedRequestsEnd
CHECK_DEADLOCK FALSE
