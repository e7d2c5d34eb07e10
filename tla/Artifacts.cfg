SPECIFICATION Spec
CONSTANTS
  plan = plan
  move = move
  b1 = b1
  Jobs = {plan, move}
  MoveJobs = {move}
  Browsers = {b1}
  Absent = Absent
  MaxRenders = 3
  MaxCrashes = 2
  MaxFetches = 2
INVARIANTS
  ServedIsImmutable
  ReportedIsServable
  ProjectFileIsWhole
CHECK_DEADLOCK FALSE
