CONSTANTS
  EntityId = {e1}
  FactId = {f1, f2, f3}
  SnapshotId = {s1}
  EntityName = {lin}
  EntityType = {character}
  Predicate = {knows}
  Value = {v1, v2}
  StoryTime <- MCStoryTime
  NoFact = NoFact
  NoTime = NoTime
  c1 = c1
  c2 = c2
  v1 = v1
  v2 = v2
  lin = lin
  knows = knows
  Candidate = {c1, c2}
  RunId = {r1, r2}
  Text <- MCText
  Asked = {f1, f2, f3}
  NoSnapshot = NoSnapshot
  Worker = {w1}
  Crashes = FALSE
SPECIFICATION AtomicitySpec
INVARIANTS RejectedNotInCanon ValidatingNotStranded
PROPERTIES HandlersAreAtomic
CHECK_DEADLOCK FALSE
