SPECIFICATION WritingSpec
CONSTANTS
  Scene = {s1, s2}
  Chapter = chapter
  Key = {"k"}
  MaxRetries = 1
  MaxJobs = 2
  MaxDrafts = 3
  MaxBatches = 2
  MaxSummaries = 3
  MaxChapters = 1
  MaxPacks = 1

PROPERTIES CancelIsFinal
CONSTRAINTS PlansFirst DraftsOrSummaries
SYMMETRY SceneSymmetry
CHECK_DEADLOCK FALSE
