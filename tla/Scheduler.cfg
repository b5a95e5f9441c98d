SPECIFICATION SchedSpec
CONSTANTS
  Scene <- MCScene
  StoryOrder <- MCOrder
  DependsOn <- MCDependsOn
  Approved = {"s1", "s3"}
  Scopes <- MCScopes
  Configs <- MCConfigs
  Ticker = {t1}
  MaxRuns = 2
  MaxDags = 2
INVARIANTS DependentsHeld OneDagPerScene
PROPERTIES WithinLimits
CHECK_DEADLOCK FALSE
