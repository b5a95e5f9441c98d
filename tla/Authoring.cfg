SPECIFICATION DeskSpec
CONSTANTS
  Scene = {s1, s2, s3}
  Chapter = {c1, c2}
  Place = {1, 2, 3}
  MaxRevs = 3
  MaxVersions = 3
  MaxChecks = 1
INVARIANTS LineageSound StoryStaysOrdered
PROPERTIES NeverEditedInForce JudgedByGuideInForce
CONSTRAINT OneDesk
CHECK_DEADLOCK FALSE
