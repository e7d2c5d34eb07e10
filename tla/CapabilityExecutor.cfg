\* Three plans, two of them one mutation; two workers; three deliveries; one outside edit.
CONSTANTS
  Workers = {w1, w2}
  Jobs <- MCJobs
  Keys <- MCKeys
  KeyOf <- MCKeyOf
  PlanOf <- MCPlanOf
  RequiredVersion <- MCRequired
  Objects = {"wall"}
  Places = {"p", "q"}
  InitialScene <- MCEmpty
  Damageable = {"build", "k1"}
  MaxDeliveries = 3
  MaxEdits = 1
  MaxExtras = 1
  MaxLate = 1
  Absent = Absent
  AnyVersion = AnyVersion
  Unbound = Unbound
  Corrupt = Corrupt
  Free = Free
  NoJob = NoJob
SPECIFICATION FairSpec
INVARIANT
  DecidesOnFreshScene
PROPERTIES
  NothingIsBuiltTwice
  RecoveryIsPristine
  AttemptsEnd
CHECK_DEADLOCK FALSE
