\* Three jobs, two of them one mutation; two workers, one without previews; three deliveries
\* in all; the first job's record and the first key's binding may be damaged.
CONSTANTS
  Workers = {w1, w2}
  Jobs <- MCJobs
  Keys <- MCKeys
  KeyOf <- MCKeyOf
  DeltaOf <- MCDeltaOf
  InitialPosition = 0
  EditPositions = {0}
  PreviewWorkers = {w1}
  Damageable = {"there", "k1"}
  MaxDeliveries = 3
  MaxEdits = 1
  NoPlan = NoPlan
  Void = Void
  Unbound = Unbound
  Corrupt = Corrupt
  Free = Free
  Other = Other
  NoJob = NoJob
SPECIFICATION FairSpec
INVARIANTS
  OnePlanPerKey
  SuccessWasConfirmed
PROPERTIES
  NoConsecutiveMoves
  PromiseKept
  LockIsReleased
CHECK_DEADLOCK FALSE
