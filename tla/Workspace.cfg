SPECIFICATION FairSpec
CONSTANTS
  t1 = t1
  t2 = t2
  t3 = t3
  r1 = r1
  r2 = r2
  sketch = sketch
  plans = plans
  again = again
  Turns = {t1, t2, t3}
  Requests = {r1, r2}
  RequestOf <- MCRequestOf
  Sessions = {s1}
  Uploads = {sketch, plans, again}
  ContentOf <- MCContentOf
  KindOf <- MCKindOf
  Pages = 1
  Forms <- MCForms
  MaxImages = 2
  MaxScene = 2
  Outcomes <- MCOutcomes
  Configured = TRUE
  Nobody = Nobody
  Casts <- MCCasts
  MaxRestarts = 1
INVARIANTS
  EffectsAreExplained
  RowsHaveFiles
  FlaggedRunsOnlyIfApproved
PROPERTIES
  DeletionIsComplete
  TurnsEnd
CHECK_DEADLOCK FALSE
