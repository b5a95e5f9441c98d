SPECIFICATION ReviewSpec
CONSTANTS
  Candidate = {c1, c2, c3}
  MaxRuns = 2
  MaxTasks = 2
  MaxItems = 2
CONSTRAINT TwoAtWork
SYMMETRY CandidateSymmetry
INVARIANTS FailedStaysOut RepairEndsInVerdict QueueMatchesVerdicts
CHECK_DEADLOCK FALSE
