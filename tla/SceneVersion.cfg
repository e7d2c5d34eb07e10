\* Scenes of up to three objects, two changes and three readings.
CONSTANTS
  Texts = {"a", "b", "c"}
  Rank <- MCRank
  FirstScenes <- MCFirstScenes
  Places = {1, 2, 3, 6}
  MaxEdits = 2
  MaxReads = 3
SPECIFICATION SceneSpec
INVARIANT OnlyKnownBreaches
PROPERTIES
  GoesOnOnTheSceneSeen
  UntouchedIsNotStale
CHECK_DEADLOCK FALSE
