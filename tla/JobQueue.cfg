CONSTANTS
  Worker = {w1, w2}
  Scene = {s1}
  JobType = {draft, summarize}
  WriteType = {draft}
  Key = {k1}
  NoKey = NoKey
  NoScene = NoScene
  MaxAttempts = 2
  Backoff = TRUE
  MaxJobs = 2
SPECIFICATION FairQueueSpec
INVARIANTS LocksMatchRunning AttemptsLeft OneLiveAttempt
PROPERTIES RecordsKept EveryJobSettles
