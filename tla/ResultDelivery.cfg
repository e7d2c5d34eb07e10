\* Two jobs of one mutation identity, the first offered twice; each of a type
\* the worker serves or not; everything may be lost, or nothing.
CONSTANTS
  j1 = j1
  j2 = j2
  Jobs <- Both
  Identity <- SameMove
  MaxOffers <- FirstTwice
  MaxDrops = 1
  MaxCrashes = 1
  NoJob = NoJob
SPECIFICATION FairSpec
INVARIANTS
  ReportsAreTrue
  OwesNothingWhenReady
  DeliveredMeansReached
PROPERTIES
  ResultsArrive
CHECK_DEADLOCK FALSE
