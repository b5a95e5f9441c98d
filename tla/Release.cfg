SPECIFICATION ReleaseSpec
CONSTANTS
  s1 = s1
  s2 = s2
  c1 = c1
  c2 = c2
  Scene = {s1, s2}
  Chapter = {c1, c2}
  ChapterOf <- OneSceneEach
  MaxDrafts = 2
  MaxDigests = 2
  MaxReports = 2
  MaxRepairs = 1
  MaxDues = 1
  MaxChecks = 1
  MaxCancels = 1
  MaxExports = 1
CONSTRAINT OneTrouble
SYMMETRY BookSymmetry
INVARIANTS ReleasedIsApproved
PROPERTIES OutcomeStands
CHECK_DEADLOCK FALSE
