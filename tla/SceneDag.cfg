CONSTANTS
  Worker = {w1}
  Candidate = {c1, c2}
  Overlap = FALSE
SPECIFICATION DagSpec
SYMMETRY MCSymmetry
INVARIANTS SuccessInOrder CommitNeedsEditor CommittedAll
PROPERTIES NothingRunsBlocked
CHECK_DEADLOCK FALSE
