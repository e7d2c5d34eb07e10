SPECIFICATION AssistantSpec
CONSTANTS
  Names = {"Wall", "Lamp"}
  MaxOperations = 2
  MaxObjects = 3
  Replies <- MCReplies
  Providers = {"codex_astra", "fake_llm", "rule_based", "astra"}
INVARIANTS
  AcceptedIsUnderstood
  PlansBecomeJobs
PROPERTIES
  OkIsSaved
  LateSavesAreOrphans
  StepsAreAnswered
CHECK_DEADLOCK FALSE
