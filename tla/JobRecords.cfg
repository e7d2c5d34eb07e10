\* Three turns, two plans, two restarts of the control plane.
CONSTANTS
  Plans = {p1, p2}
  MaxTurns = 3
  MaxRestarts = 2
  NoRow = NoRow
  NoPlan = NoPlan
SPECIFICATION FairSpec
INVARIANT
  OfferedOnce
PROPERTIES
  ReportsNeverRegress
  OfferedJobsEnd
CHECK_DEADLOCK FALSE
