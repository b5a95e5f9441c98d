--------------------------- MODULE JobQueueProofs ---------------------------
(***************************************************************************)
(* What JobQueue keeps for any number of threads, jobs, scenes and         *)
(* attempts.  QueueInv strengthens the invariants that TLC checks with     *)
(* what ties a dispatch to the attempts of its job.                        *)
(***************************************************************************)
EXTENDS JobQueue, TLAPS

-----------------------------------------------------------------------------
(* The inductive invariant *)

\* Every attempt that is being dispatched was started, and by one thread only.
AttemptsDistinct ==
  \A w \in Worker : dispatch[w] # Resting =>
    /\ dispatch[w].job \in DOMAIN jobs
    /\ dispatch[w].attempt <= jobs[dispatch[w].job].attempts
    /\ \A v \in Worker : v # w => dispatch[v] # dispatch[w]

\* A job that needs the lock of a scene names one: enqueue refuses it otherwise
\* and a rerun copies it, so claim_one never meets a write job without a scene.
WritesNameScene ==
  \A j \in DOMAIN jobs : IsWrite(jobs[j]) => jobs[j].scene \in Scene

QueueInv ==
  /\ QueueTypeOK
  /\ WritesNameScene
  /\ LocksMatchRunning
  /\ AttemptsLeft
  /\ AttemptsDistinct

-----------------------------------------------------------------------------
(* Rows *)

LEMMA RowType == 
  ASSUME QueueTypeOK, NEW j \in DOMAIN jobs
  PROVE  jobs[j] \in JobRow
  BY DEF QueueTypeOK

\* A row that was given another status and other clock bits.
Restated(row, status, due, overdue) ==
  [row EXCEPT !.status = status, !.due = due, !.overdue = overdue]

LEMMA RestatedType ==
  ASSUME NEW row \in JobRow, NEW status \in Status, NEW due \in BOOLEAN, NEW overdue \in BOOLEAN
  PROVE  /\ Restated(row, status, due, overdue) \in JobRow
         /\ Restated(row, status, due, overdue).attempts = row.attempts
         /\ Restated(row, status, due, overdue).type = row.type
         /\ Restated(row, status, due, overdue).scene = row.scene
         /\ Restated(row, status, due, overdue).status = status
         /\ Restated(row, status, due, overdue).overdue = overdue
<1> DEFINE attempts == 0 .. MaxAttempts
           J == [type: JobType, scene: Scene \cup {NoScene}, key: Key \cup {NoKey},
                 status: Status, attempts: attempts, due: BOOLEAN, overdue: BOOLEAN,
                 rerun_of: Nat]
<1>1. JobRow = J
  BY DEF JobRow
<1> HIDE DEF attempts
<1>2. row \in J
  BY <1>1
<1>3. /\ Restated(row, status, due, overdue) \in J
      /\ Restated(row, status, due, overdue).attempts = row.attempts
      /\ Restated(row, status, due, overdue).type = row.type
      /\ Restated(row, status, due, overdue).scene = row.scene
      /\ Restated(row, status, due, overdue).status = status
      /\ Restated(row, status, due, overdue).overdue = overdue
  BY <1>2 DEF Restated
<1> QED BY <1>1, <1>3

LEMMA RetriedType ==
  ASSUME NEW row \in JobRow
  PROVE  /\ Retried(row) \in JobRow
         /\ Retried(row).attempts = row.attempts
         /\ Retried(row).type = row.type
         /\ Retried(row).scene = row.scene
         /\ Retried(row).status \in {"queued", "dead_letter"}
         /\ Retried(row).status = "queued" => row.attempts < MaxAttempts
         /\ Retried(row).status = "dead_letter" => row.attempts = MaxAttempts
<1>1. /\ row.attempts \in Nat /\ MaxAttempts \in Nat
      /\ row.attempts <= MaxAttempts
  BY QueueAssumption DEF JobRow
<1> DEFINE yes == TRUE
           no == FALSE
           later == ~Backoff
<1>2. /\ {"queued", "dead_letter"} \subseteq Status
      /\ yes \in BOOLEAN /\ no \in BOOLEAN /\ later \in BOOLEAN
  BY DEF Status
<1>3. CASE row.attempts >= MaxAttempts
  <2>1. Retried(row) = Restated(row, "dead_letter", yes, no)
    BY <1>3 DEF Retried, Restated
  <2> HIDE DEF yes, no
  <2>2. /\ Retried(row) \in JobRow
        /\ Retried(row).attempts = row.attempts
        /\ Retried(row).type = row.type
        /\ Retried(row).scene = row.scene
        /\ Retried(row).status = "dead_letter"
    BY <1>2, <2>1, RestatedType
  <2> QED BY <1>1, <1>3, <2>2
<1>4. CASE ~(row.attempts >= MaxAttempts)
  <2>1. Retried(row) = Restated(row, "queued", later, no)
    BY <1>4 DEF Retried, Restated
  <2> HIDE DEF later, no
  <2>2. /\ Retried(row) \in JobRow
        /\ Retried(row).attempts = row.attempts
        /\ Retried(row).type = row.type
        /\ Retried(row).scene = row.scene
        /\ Retried(row).status = "queued"
    BY <1>2, <2>1, RestatedType
  <2> QED BY <1>1, <1>4, <2>2
<1> QED BY <1>3, <1>4

LEMMA StartedType ==
  ASSUME NEW row \in JobRow, row.attempts < MaxAttempts
  PROVE  /\ Started(row) \in JobRow
         /\ Started(row).attempts = row.attempts + 1
         /\ Started(row).type = row.type
         /\ Started(row).scene = row.scene
         /\ Started(row).status = "running"
<1> DEFINE n == row.attempts + 1
<1>1. row.attempts \in 0 .. MaxAttempts /\ MaxAttempts \in Nat
  BY QueueAssumption DEF JobRow
<1>2. n \in 0 .. MaxAttempts
  BY <1>1
<1>3. Started(row) = [row EXCEPT !.status = "running", !.attempts = n]
  BY DEF Started
<1> HIDE DEF n
<1>4. /\ Started(row) \in JobRow
      /\ Started(row).attempts = n
      /\ Started(row).type = row.type
      /\ Started(row).scene = row.scene
      /\ Started(row).status = "running"
  BY <1>2, <1>3 DEF JobRow, Status
<1> QED BY <1>4 DEF n

LEMMA NewJobType ==
  ASSUME NEW type \in JobType, NEW scene \in Scene \cup {NoScene},
         NEW key \in Key \cup {NoKey}, NEW source \in Nat
  PROVE  /\ NewJob(type, scene, key, source) \in JobRow
         /\ NewJob(type, scene, key, source).status = "queued"
         /\ NewJob(type, scene, key, source).attempts = 0
  BY QueueAssumption DEF NewJob, JobRow, Status

-----------------------------------------------------------------------------
(* What a step may do to the tables *)

\* One row of the invariant.
RowOK(row) ==
  /\ row \in JobRow
  /\ row.status = "queued" => row.attempts < MaxAttempts
  /\ row.status = "dead_letter" => row.attempts = MaxAttempts
  /\ IsWrite(row) => row.scene \in Scene

\* Job j holds the lock of scene s only if it may, and if it must.
LockOK(table, s, j) ==
  /\ table[s] = j => /\ jobs[j].status = "running"
                     /\ IsWrite(jobs[j])
                     /\ jobs[j].scene = s
  /\ /\ jobs[j].status = "running" /\ ~jobs[j].overdue
     /\ IsWrite(jobs[j])
     /\ jobs[j].scene = s
     => table[s] = j

LEMMA InvRows ==
  ASSUME QueueInv, NEW j \in DOMAIN jobs
  PROVE  RowOK(jobs[j]) /\ \A s \in Scene : LockOK(locks, s, j)
  BY RowType DEF QueueInv, WritesNameScene, AttemptsLeft, LocksMatchRunning, RowOK, LockOK

\* Appending a queued job disturbs nothing.
LEMMA AppendKeeps ==
  ASSUME QueueInv, NEW row \in JobRow, row.status = "queued", row.attempts = 0,
         IsWrite(row) => row.scene \in Scene, Len(jobs) < MaxJobs, jobs' = Append(jobs, row), UNCHANGED <<locks, claiming, dispatch>>
  PROVE  QueueInv'
<1> USE QueueAssumption
<1>1. /\ DOMAIN jobs' = DOMAIN jobs \cup {Len(jobs) + 1}
      /\ Len(jobs') = Len(jobs) + 1
      /\ jobs' \in Seq(JobRow)
      /\ jobs'[Len(jobs) + 1] = row
      /\ \A j \in DOMAIN jobs : jobs'[j] = jobs[j]
  BY DEF QueueInv, QueueTypeOK
<1>2. Len(jobs) \in Nat /\ DOMAIN jobs = 1 .. Len(jobs)
  BY DEF QueueInv, QueueTypeOK
<1>3. QueueTypeOK'
  BY <1>1, <1>2 DEF QueueInv, QueueTypeOK
<1>4. \A s \in Scene : locks[s] # Len(jobs) + 1
  BY <1>2 DEF QueueInv, QueueTypeOK
<1>5. LocksMatchRunning'
  BY <1>1, <1>4 DEF QueueInv, LocksMatchRunning, IsWrite
<1>6. AttemptsLeft'
  BY <1>1 DEF QueueInv, AttemptsLeft
<1>7. AttemptsDistinct'
  BY <1>1 DEF QueueInv, AttemptsDistinct
<1>8. WritesNameScene'
  BY <1>1 DEF QueueInv, WritesNameScene, IsWrite
<1> QED BY <1>3, <1>5, <1>6, <1>7, <1>8 DEF QueueInv

\* A step that enqueues nothing keeps the invariant if it keeps every row and
\* every lock in order, starts no attempt, and ends at most some.
LEMMA RewriteKeeps ==
  ASSUME QueueInv,
         jobs' \in [DOMAIN jobs -> JobRow],
         \A j \in DOMAIN jobs : RowOK(jobs'[j]) /\ jobs'[j].attempts >= jobs[j].attempts,
         locks' \in [Scene -> 0 .. Len(jobs)],
         \A s \in Scene, j \in DOMAIN jobs : LockOK(locks, s, j)',
         claiming' \subseteq Worker,
         dispatch' \in [Worker -> [job: 0 .. Len(jobs), attempt: 0 .. MaxAttempts]],
         AttemptsDistinct'
  PROVE  QueueInv'
<1>1. DOMAIN jobs = 1 .. Len(jobs) /\ Len(jobs) \in Nat /\ Len(jobs) <= MaxJobs
  BY DEF QueueInv, QueueTypeOK
<1>2. jobs' \in Seq(JobRow) /\ Len(jobs') = Len(jobs) /\ DOMAIN jobs' = DOMAIN jobs
  BY <1>1
<1>3. QueueTypeOK'
  BY <1>1, <1>2 DEF QueueTypeOK
<1>4. LocksMatchRunning'
  BY <1>2 DEF LocksMatchRunning, LockOK
<1>5. AttemptsLeft'
  BY <1>2 DEF AttemptsLeft, RowOK
<1>6. WritesNameScene'
  BY <1>2 DEF WritesNameScene, RowOK, IsWrite
<1> QED BY <1>3, <1>4, <1>5, <1>6 DEF QueueInv

\* Attempts are never uncounted, so ending dispatches keeps them distinct.
LEMMA DistinctKept ==
  ASSUME QueueInv, DOMAIN jobs' = DOMAIN jobs,
         jobs' \in [DOMAIN jobs -> JobRow],
         \A j \in DOMAIN jobs : jobs'[j].attempts >= jobs[j].attempts,
         \/ UNCHANGED dispatch
         \/ \E w \in Worker : dispatch' = [dispatch EXCEPT ![w] = Resting]
  PROVE  /\ AttemptsDistinct'
         /\ dispatch' \in [Worker -> [job: 0 .. Len(jobs), attempt: 0 .. MaxAttempts]]
<1>1. /\ dispatch \in [Worker -> [job: 0 .. Len(jobs), attempt: 0 .. MaxAttempts]]
      /\ Len(jobs) \in Nat
      /\ \A j \in DOMAIN jobs : jobs[j] \in JobRow
  BY DEF QueueInv, QueueTypeOK
<1>2. Resting \in [job: 0 .. Len(jobs), attempt: 0 .. MaxAttempts]
  BY <1>1, QueueAssumption DEF Resting, NoJob
<1>3. dispatch' \in [Worker -> [job: 0 .. Len(jobs), attempt: 0 .. MaxAttempts]]
  BY <1>1, <1>2
<1>4. \A w \in Worker : dispatch'[w] \in {dispatch[w], Resting}
  BY <1>1
<1>5. ASSUME NEW w \in Worker, dispatch'[w] # Resting
      PROVE  /\ dispatch'[w].job \in DOMAIN jobs'
             /\ dispatch'[w].attempt <= jobs'[dispatch'[w].job].attempts
             /\ \A v \in Worker : v # w => dispatch'[v] # dispatch'[w]
  <2>1. dispatch'[w] = dispatch[w]
    BY <1>5, <1>4
  <2>2. /\ dispatch[w].job \in DOMAIN jobs
        /\ dispatch[w].attempt <= jobs[dispatch[w].job].attempts
        /\ \A v \in Worker : v # w => dispatch[v] # dispatch[w]
    BY <1>5, <2>1 DEF QueueInv, AttemptsDistinct
  <2>3. /\ dispatch[w].attempt \in Nat
        /\ jobs[dispatch[w].job].attempts \in Nat
        /\ jobs'[dispatch[w].job].attempts \in Nat
    BY <1>1, <2>2, QueueAssumption DEF JobRow
  <2> QED BY <1>5, <1>4, <2>1, <2>2, <2>3
<1> QED BY <1>3, <1>5 DEF AttemptsDistinct

\* Unlocking j leaves the locks of the others.
LEMMA UnlockedLocks ==
  ASSUME QueueInv, NEW i \in DOMAIN jobs
  PROVE  /\ Unlocked(locks, i) \in [Scene -> 0 .. Len(jobs)]
         /\ \A s \in Scene, j \in DOMAIN jobs :
              Unlocked(locks, i)[s] = j <=> j # i /\ locks[s] = j
<1>1. locks \in [Scene -> 0 .. Len(jobs)] /\ Len(jobs) \in Nat /\ DOMAIN jobs = 1 .. Len(jobs)
  BY DEF QueueInv, QueueTypeOK
<1> QED BY <1>1 DEF Unlocked, NoJob

\* A job that stops running gives up its lock: cancel, success, failure.
LEMMA StopKeeps ==
  ASSUME QueueInv, NEW i \in DOMAIN jobs, NEW row,
         RowOK(row), row.attempts = jobs[i].attempts, row.status # "running",
         jobs' = [jobs EXCEPT ![i] = row],
         locks' = Unlocked(locks, i), UNCHANGED claiming,
         \/ UNCHANGED dispatch
         \/ \E w \in Worker : dispatch' = [dispatch EXCEPT ![w] = Resting]
  PROVE  QueueInv'
<1>1. \A j \in DOMAIN jobs : RowOK(jobs[j]) /\ jobs[j].attempts \in Nat
  BY InvRows, QueueAssumption DEF RowOK, JobRow
<1>2. /\ DOMAIN jobs' = DOMAIN jobs
      /\ jobs' \in [DOMAIN jobs -> JobRow]
      /\ jobs'[i] = row
      /\ \A j \in DOMAIN jobs : j # i => jobs'[j] = jobs[j]
  BY <1>1 DEF RowOK, QueueInv, QueueTypeOK
<1>3. \A j \in DOMAIN jobs : RowOK(jobs'[j]) /\ jobs'[j].attempts >= jobs[j].attempts
  BY <1>1, <1>2
<1>4. ASSUME NEW s \in Scene, NEW j \in DOMAIN jobs
      PROVE  LockOK(locks, s, j)'
  BY <1>2, InvRows, UnlockedLocks DEF LockOK, IsWrite
<1>5. /\ AttemptsDistinct'
      /\ dispatch' \in [Worker -> [job: 0 .. Len(jobs), attempt: 0 .. MaxAttempts]]
  BY <1>2, <1>3, DistinctKept
<1>6. claiming' \subseteq Worker
  BY DEF QueueInv, QueueTypeOK
<1> QED BY <1>2, <1>3, <1>4, <1>5, <1>6, UnlockedLocks, RewriteKeeps

LEMMA CancelKeeps ==
  ASSUME QueueInv, NEW j \in DOMAIN jobs, CancelJob(j)
  PROVE  QueueInv'
<1> DEFINE no == FALSE
           row == Restated(jobs[j], "cancelled", jobs[j].due, no)
<1>1. jobs[j] \in JobRow
  BY InvRows DEF RowOK
<1>2. jobs[j].due \in BOOLEAN /\ no \in BOOLEAN /\ "cancelled" \in Status
  BY <1>1 DEF JobRow, Status
<1>3. jobs' = [jobs EXCEPT ![j] = row]
  BY <1>1 DEF CancelJob, Restated, JobRow
<1> HIDE DEF no
<1>4. /\ row \in JobRow /\ row.attempts = jobs[j].attempts /\ row.status = "cancelled"
      /\ row.type = jobs[j].type /\ row.scene = jobs[j].scene
  BY <1>1, <1>2, RestatedType
<1> HIDE DEF row
<1>5. RowOK(row)
  BY <1>4, InvRows DEF RowOK, IsWrite
<1> QED BY <1>3, <1>4, <1>5, StopKeeps DEF CancelJob

LEMMA SucceedKeeps ==
  ASSUME QueueInv, NEW w \in Worker, Succeed(w)
  PROVE  QueueInv'
<1> DEFINE j == dispatch[w].job
           no == FALSE
           row == Restated(jobs[j], "succeeded", jobs[j].due, no)
<1>1. j \in DOMAIN jobs
  BY DEF Succeed, QueueInv, AttemptsDistinct
<1>2. jobs[j] \in JobRow
  BY <1>1, InvRows DEF RowOK
<1>3. jobs[j].due \in BOOLEAN /\ no \in BOOLEAN /\ "succeeded" \in Status
  BY <1>2 DEF JobRow, Status
<1>4. jobs' = [jobs EXCEPT ![j] = row]
  BY <1>2 DEF Succeed, Restated, JobRow
<1> HIDE DEF no
<1>5. /\ row \in JobRow /\ row.attempts = jobs[j].attempts /\ row.status = "succeeded"
      /\ row.type = jobs[j].type /\ row.scene = jobs[j].scene
  BY <1>2, <1>3, RestatedType
<1>6. /\ locks' = Unlocked(locks, j) /\ UNCHANGED claiming
      /\ dispatch' = [dispatch EXCEPT ![w] = Resting]
  BY DEF Succeed
<1> HIDE DEF row, j
<1>7. RowOK(row)
  BY <1>1, <1>5, InvRows DEF RowOK, IsWrite
<1> QED BY <1>1, <1>4, <1>5, <1>6, <1>7, StopKeeps

LEMMA FailKeeps ==
  ASSUME QueueInv, NEW w \in Worker, Fail(w)
  PROVE  QueueInv'
<1> DEFINE j == dispatch[w].job
<1>1. j \in DOMAIN jobs
  BY DEF Fail, QueueInv, AttemptsDistinct
<1>2. jobs[j] \in JobRow
  BY <1>1, InvRows DEF RowOK
<1>3. /\ RowOK(Retried(jobs[j]))
      /\ Retried(jobs[j]).attempts = jobs[j].attempts
      /\ Retried(jobs[j]).status # "running"
  BY <1>1, <1>2, RetriedType, InvRows DEF RowOK, IsWrite
<1>4. /\ jobs' = [jobs EXCEPT ![j] = Retried(jobs[j])]
      /\ locks' = Unlocked(locks, j) /\ UNCHANGED claiming
      /\ dispatch' = [dispatch EXCEPT ![w] = Resting]
  BY DEF Fail
<1> HIDE DEF j
<1> QED BY <1>1, <1>3, <1>4, StopKeeps

LEMMA AbandonKeeps ==
  ASSUME QueueInv, NEW w \in Worker, Abandon(w)
  PROVE  QueueInv'
<1>1. /\ jobs' \in [DOMAIN jobs -> JobRow]
      /\ DOMAIN jobs' = DOMAIN jobs
      /\ \A j \in DOMAIN jobs : RowOK(jobs'[j]) /\ jobs'[j].attempts >= jobs[j].attempts
  BY InvRows, QueueAssumption DEF Abandon, QueueInv, QueueTypeOK, RowOK, JobRow
<1>2. /\ locks' \in [Scene -> 0 .. Len(jobs)]
      /\ \A s \in Scene, j \in DOMAIN jobs : LockOK(locks, s, j)'
  BY InvRows DEF Abandon, QueueInv, QueueTypeOK, LockOK
<1>3. /\ dispatch' = [dispatch EXCEPT ![w] = Resting]
      /\ claiming' \subseteq Worker
  BY DEF Abandon, QueueInv, QueueTypeOK
<1> QED BY <1>1, <1>2, <1>3, DistinctKept, RewriteKeeps

\* The clock changes no status, and what has timed out stays so.
LEMMA ClockKeeps ==
  ASSUME QueueInv, NEW i \in DOMAIN jobs, NEW row \in JobRow,
         row.status = jobs[i].status, row.attempts = jobs[i].attempts,
         row.type = jobs[i].type, row.scene = jobs[i].scene,
         jobs[i].overdue => row.overdue,
         jobs' = [jobs EXCEPT ![i] = row], UNCHANGED <<locks, claiming, dispatch>>
  PROVE  QueueInv'
<1>1. \A j \in DOMAIN jobs : RowOK(jobs[j]) /\ jobs[j].attempts \in Nat
  BY InvRows, QueueAssumption DEF RowOK, JobRow
<1>2. /\ DOMAIN jobs' = DOMAIN jobs
      /\ jobs' \in [DOMAIN jobs -> JobRow]
      /\ jobs'[i] = row
      /\ \A j \in DOMAIN jobs : j # i => jobs'[j] = jobs[j]
  BY <1>1 DEF RowOK, QueueInv, QueueTypeOK
<1>3. \A j \in DOMAIN jobs : RowOK(jobs'[j]) /\ jobs'[j].attempts >= jobs[j].attempts
  BY <1>1, <1>2 DEF RowOK, IsWrite
<1>4. ASSUME NEW s \in Scene, NEW j \in DOMAIN jobs
      PROVE  LockOK(locks, s, j)'
  BY <1>2, InvRows DEF LockOK, IsWrite
<1>5. locks' \in [Scene -> 0 .. Len(jobs)] /\ claiming' \subseteq Worker
  BY DEF QueueInv, QueueTypeOK
<1> QED BY <1>2, <1>3, <1>4, <1>5, DistinctKept, RewriteKeeps

LEMMA TimeOutKeeps ==
  ASSUME QueueInv, NEW j \in DOMAIN jobs, TimeOut(j)
  PROVE  QueueInv'
<1> DEFINE yes == TRUE
           row == Restated(jobs[j], jobs[j].status, jobs[j].due, yes)
<1>1. jobs[j] \in JobRow
  BY InvRows DEF RowOK
<1>2. jobs[j].due \in BOOLEAN /\ yes \in BOOLEAN /\ jobs[j].status \in Status
  BY <1>1 DEF JobRow
<1>3. jobs' = [jobs EXCEPT ![j] = row]
  BY <1>1 DEF TimeOut, Restated, JobRow
<1> HIDE DEF yes
<1>4. /\ row \in JobRow
      /\ row.status = jobs[j].status
      /\ row.attempts = jobs[j].attempts
      /\ row.type = jobs[j].type
      /\ row.scene = jobs[j].scene
      /\ row.overdue = yes
  BY <1>1, <1>2, RestatedType
<1> HIDE DEF row
<1>5. jobs[j].overdue => row.overdue
  BY <1>4, Zenon DEF yes
<1> QED BY <1>3, <1>4, <1>5, ClockKeeps DEF TimeOut

LEMMA BackoffKeeps ==
  ASSUME QueueInv, NEW j \in DOMAIN jobs, BackoffEnds(j)
  PROVE  QueueInv'
<1> DEFINE yes == TRUE
           late == jobs[j].overdue
           row == Restated(jobs[j], jobs[j].status, yes, late)
<1>1. jobs[j] \in JobRow
  BY InvRows DEF RowOK
<1>2. late \in BOOLEAN /\ yes \in BOOLEAN /\ jobs[j].status \in Status
  BY <1>1 DEF JobRow
<1>3. jobs' = [jobs EXCEPT ![j] = row]
  BY <1>1 DEF BackoffEnds, Restated, JobRow
<1> HIDE DEF yes, late
<1>4. /\ row \in JobRow
      /\ row.status = jobs[j].status
      /\ row.attempts = jobs[j].attempts
      /\ row.type = jobs[j].type
      /\ row.scene = jobs[j].scene
      /\ row.overdue = late
  BY <1>1, <1>2, RestatedType
<1> HIDE DEF row
<1>5. jobs[j].overdue => row.overdue
  BY <1>4, Zenon DEF late
<1> QED BY <1>3, <1>4, <1>5, ClockKeeps DEF BackoffEnds

-----------------------------------------------------------------------------
(* Reclaiming and claiming *)

\* What reclaim_timed_out leaves: the jobs that still run have not timed out and
\* hold their locks.
LEMMA ReclaimKeeps ==
  ASSUME QueueInv
  PROVE  /\ Reclaimed \in [DOMAIN jobs -> JobRow]
         /\ LocksAfterReclaim \in [Scene -> 0 .. Len(jobs)]
         /\ \A j \in DOMAIN jobs :
              /\ RowOK(Reclaimed[j])
              /\ Reclaimed[j].attempts = jobs[j].attempts
              /\ IsWrite(Reclaimed[j]) = IsWrite(jobs[j])
              /\ Reclaimed[j].scene = jobs[j].scene
              /\ \A s \in Scene :
                   LocksAfterReclaim[s] = j <=> /\ Reclaimed[j].status = "running"
                                                /\ IsWrite(jobs[j])
                                                /\ jobs[j].scene = s
<1>1. \A j \in DOMAIN jobs : RowOK(jobs[j])
  BY InvRows
<1>2. ASSUME NEW j \in DOMAIN jobs
      PROVE  /\ RowOK(Reclaimed[j])
             /\ Reclaimed[j].attempts = jobs[j].attempts
             /\ Reclaimed[j].type = jobs[j].type
             /\ Reclaimed[j].scene = jobs[j].scene
             /\ TimedOut(j) => Reclaimed[j].status # "running"
             /\ ~TimedOut(j) => Reclaimed[j] = jobs[j]
  <2>1. CASE TimedOut(j)
    <3>1. Reclaimed[j] = Retried(jobs[j])
      BY <2>1 DEF Reclaimed
    <3> QED BY <2>1, <3>1, <1>1, RetriedType DEF RowOK, IsWrite
  <2>2. CASE ~TimedOut(j)
    BY <1>1, <2>2 DEF Reclaimed
  <2> QED BY <2>1, <2>2
<1>3. Reclaimed \in [DOMAIN jobs -> JobRow]
  <2>1. Reclaimed = [j \in DOMAIN jobs |-> Reclaimed[j]]
    BY DEF Reclaimed
  <2> QED BY <1>2, <2>1 DEF RowOK
<1>4. /\ locks \in [Scene -> 0 .. Len(jobs)]
      /\ Len(jobs) \in Nat /\ DOMAIN jobs = 1 .. Len(jobs)
  BY DEF QueueInv, QueueTypeOK
<1>5. /\ LocksAfterReclaim \in [Scene -> 0 .. Len(jobs)]
      /\ \A s \in Scene, j \in DOMAIN jobs :
           LocksAfterReclaim[s] = j <=> locks[s] = j /\ ~TimedOut(j)
  <2> DEFINE T == {j \in DOMAIN jobs : TimedOut(j)}
  <2>1. \A j \in DOMAIN jobs : j \in T <=> TimedOut(j)
    OBVIOUS
  <2>2. LocksAfterReclaim = [s \in Scene |-> IF locks[s] \in T THEN NoJob ELSE locks[s]]
    BY DEF LocksAfterReclaim
  <2> HIDE DEF T
  <2> QED BY <1>4, <2>1, <2>2 DEF NoJob
<1>6. ASSUME NEW j \in DOMAIN jobs, NEW s \in Scene
      PROVE  LocksAfterReclaim[s] = j <=> /\ Reclaimed[j].status = "running"
                                          /\ IsWrite(jobs[j])
                                          /\ jobs[j].scene = s
  BY <1>2, <1>5, InvRows DEF LockOK, TimedOut
<1> QED BY <1>2, <1>3, <1>5, <1>6 DEF IsWrite

LEMMA ReclaimStepKeeps ==
  ASSUME QueueInv, NEW w \in Worker, Reclaim(w)
  PROVE  QueueInv'
<1>1. /\ jobs' = Reclaimed /\ locks' = LocksAfterReclaim /\ UNCHANGED dispatch
      /\ claiming' \subseteq Worker
  BY DEF Reclaim, QueueInv, QueueTypeOK
<1>2. \A j \in DOMAIN jobs : jobs[j].attempts \in Nat
  BY InvRows, QueueAssumption DEF RowOK, JobRow
<1>3. DOMAIN jobs' = DOMAIN jobs /\ jobs' \in [DOMAIN jobs -> JobRow]
  BY <1>1, ReclaimKeeps
<1>4. \A j \in DOMAIN jobs : RowOK(jobs'[j]) /\ jobs'[j].attempts >= jobs[j].attempts
  BY <1>1, <1>2, ReclaimKeeps
<1>5. \A s \in Scene, j \in DOMAIN jobs : LockOK(locks, s, j)'
  BY <1>1, ReclaimKeeps DEF LockOK, IsWrite
<1>6. locks' \in [Scene -> 0 .. Len(jobs)]
  BY <1>1, ReclaimKeeps
<1> QED BY <1>1, <1>3, <1>4, <1>5, <1>6, DistinctKept, RewriteKeeps

LEMMA FindNothingKeeps ==
  ASSUME QueueInv, NEW w \in Worker, FindNothing(w)
  PROVE  QueueInv'
  BY DEF FindNothing, QueueInv, QueueTypeOK, WritesNameScene, LocksMatchRunning,
         AttemptsLeft, AttemptsDistinct

LEMMA ClaimKeeps ==
  ASSUME QueueInv, NEW w \in Worker, NEW i \in DOMAIN jobs, Claim(w, i)
  PROVE  QueueInv'
<1> DEFINE row == Started(jobs[i])
<1>1. /\ jobs[i] \in JobRow
      /\ jobs[i].status = "queued"
      /\ jobs[i].attempts < MaxAttempts
  BY InvRows DEF Claim, Claimable, RowOK
<1>2. /\ row \in JobRow
      /\ row.attempts = jobs[i].attempts + 1
      /\ row.status = "running"
      /\ IsWrite(row) = IsWrite(jobs[i])
      /\ row.scene = jobs[i].scene
  BY <1>1, StartedType DEF IsWrite
<1>3. /\ jobs' = [jobs EXCEPT ![i] = row]
      /\ claiming' \subseteq Worker
      /\ dispatch' = [dispatch EXCEPT ![w] = [job |-> i, attempt |-> row.attempts]]
  BY DEF Claim, QueueInv, QueueTypeOK
<1>4. IsWrite(jobs[i]) =>
        /\ jobs[i].scene \in Scene
        /\ LockYields(jobs[i].scene, i)
        /\ locks' = [locks EXCEPT ![jobs[i].scene] = i]
  BY InvRows DEF Claim, Claimable, RowOK
<1>5. ~IsWrite(jobs[i]) => locks' = locks
  BY DEF Claim
<1>6. /\ Len(jobs) \in Nat /\ DOMAIN jobs = 1 .. Len(jobs)
      /\ \A j \in DOMAIN jobs : jobs[j].attempts \in 0 .. MaxAttempts
      /\ locks \in [Scene -> 0 .. Len(jobs)]
      /\ dispatch \in [Worker -> [job: 0 .. Len(jobs), attempt: 0 .. MaxAttempts]]
      /\ MaxAttempts \in Nat
  BY InvRows, QueueAssumption DEF RowOK, JobRow, QueueInv, QueueTypeOK
<1> HIDE DEF row
<1>7. /\ DOMAIN jobs' = DOMAIN jobs
      /\ jobs' \in [DOMAIN jobs -> JobRow]
      /\ jobs'[i] = row
      /\ \A j \in DOMAIN jobs : j # i => jobs'[j] = jobs[j]
  BY <1>2, <1>3 DEF QueueInv, QueueTypeOK
<1>8. \A j \in DOMAIN jobs : RowOK(jobs'[j]) /\ jobs'[j].attempts >= jobs[j].attempts
  <2>1. RowOK(row) /\ row.attempts >= jobs[i].attempts
    BY <1>2, <1>4, <1>6 DEF RowOK
  <2>2. ASSUME NEW j \in DOMAIN jobs, j # i
        PROVE  RowOK(jobs[j]) /\ jobs[j].attempts >= jobs[j].attempts
    BY <1>6, InvRows
  <2>3. ASSUME NEW j \in DOMAIN jobs
        PROVE  RowOK(jobs'[j]) /\ jobs'[j].attempts >= jobs[j].attempts
    BY <1>7, <2>1, <2>2
  <2> QED BY <2>3
<1>9. ASSUME NEW s \in Scene, NEW j \in DOMAIN jobs
      PROVE  LockOK(locks, s, j)'
  <2>1. LockOK(locks, s, j)
    BY InvRows
  <2>2. CASE j = i
    <3>1. locks[s] # i
      BY <1>1, <2>1, <2>2 DEF LockOK
    <3>2. locks'[s] = i <=> IsWrite(jobs[i]) /\ jobs[i].scene = s
      BY <1>4, <1>5, <1>6, <3>1
    <3> QED BY <1>2, <1>7, <2>2, <3>2 DEF LockOK
  <2>3. CASE j # i
    <3>1. jobs'[j] = jobs[j]
      BY <1>7, <2>3
    <3>2. locks'[s] = j => locks[s] = j
      BY <1>4, <1>5, <1>6, <2>3
    \* Only a job that has timed out loses its lock.
    <3>3. ASSUME locks[s] = j, locks'[s] # j
          PROVE  jobs[j].overdue
      <4>1. LockYields(s, i)
        BY <1>4, <1>5, <1>6, <3>3
      <4> QED BY <1>6, <2>3, <3>3, <4>1 DEF LockYields, NoJob, TimedOut
    <3> QED BY <2>1, <3>1, <3>2, <3>3 DEF LockOK, IsWrite
  <2> QED BY <2>2, <2>3
<1>10. locks' \in [Scene -> 0 .. Len(jobs)]
  BY <1>4, <1>5, <1>6
<1>11. /\ [job |-> i, attempt |-> row.attempts] # Resting
       /\ [job |-> i, attempt |-> row.attempts] \in [job: 0 .. Len(jobs), attempt: 0 .. MaxAttempts]
  BY <1>2, <1>6, <1>8, <1>7 DEF Resting, NoJob, RowOK, JobRow
<1>12. dispatch' \in [Worker -> [job: 0 .. Len(jobs), attempt: 0 .. MaxAttempts]]
  BY <1>3, <1>6, <1>11
<1>13. AttemptsDistinct'
  <2>1. ASSUME NEW v \in Worker, v # w, dispatch[v] # Resting
        PROVE  /\ dispatch[v].job \in DOMAIN jobs'
               /\ dispatch[v].attempt <= jobs'[dispatch[v].job].attempts
               /\ dispatch[v] # [job |-> i, attempt |-> row.attempts]
               /\ \A u \in Worker : u # v => dispatch[u] # dispatch[v]
    <3>1. /\ dispatch[v].job \in DOMAIN jobs
          /\ dispatch[v].attempt <= jobs[dispatch[v].job].attempts
          /\ \A u \in Worker : u # v => dispatch[u] # dispatch[v]
      BY <2>1 DEF QueueInv, AttemptsDistinct
    <3>2. dispatch[v].attempt \in Nat /\ jobs[dispatch[v].job].attempts \in Nat
      BY <1>6, <3>1
    <3>3. jobs'[dispatch[v].job].attempts \in Nat
      BY <1>6, <1>7, <3>1 DEF JobRow
    <3>4. dispatch[v].attempt <= jobs'[dispatch[v].job].attempts
      BY <1>8, <3>1, <3>2, <3>3
    <3>5. ASSUME dispatch[v] = [job |-> i, attempt |-> row.attempts]
          PROVE  FALSE
      <4>1. dispatch[v].job = i /\ dispatch[v].attempt = jobs[i].attempts + 1
        BY <1>2, <3>5
      <4> QED BY <3>1, <3>2, <4>1
    <3> QED BY <1>7, <3>1, <3>4, <3>5
  <2>2. /\ dispatch'[w] = [job |-> i, attempt |-> row.attempts]
        /\ \A v \in Worker : v # w => dispatch'[v] = dispatch[v]
    BY <1>3, <1>6
  <2>3. /\ dispatch'[w].job \in DOMAIN jobs'
        /\ dispatch'[w].attempt <= jobs'[dispatch'[w].job].attempts
    BY <1>6, <1>7, <1>2, <2>2
  <2>4. ASSUME NEW v \in Worker, v # w
        PROVE  dispatch'[v] # dispatch'[w]
    BY <1>11, <2>1, <2>2, <2>4
  <2> QED BY <2>1, <2>2, <2>3, <2>4 DEF AttemptsDistinct
<1> QED BY <1>3, <1>7, <1>8, <1>9, <1>10, <1>12, <1>13, RewriteKeeps

LEMMA EnqueueKeeps ==
  ASSUME QueueInv, NEW type \in JobType, NEW scene \in Scene \cup {NoScene},
         NEW key \in Key \cup {NoKey}, Enqueue(type, scene, key)
  PROVE  QueueInv'
<1> DEFINE row == NewJob(type, scene, key, NoJob)
<1>1. row \in JobRow /\ row.status = "queued" /\ row.attempts = 0
  BY NewJobType DEF NoJob
<1>2. IsWrite(row) => row.scene \in Scene
  BY DEF NewJob, IsWrite, Enqueue
<1>3. Len(jobs) < MaxJobs /\ jobs' = Append(jobs, row) /\ UNCHANGED <<locks, claiming, dispatch>>
  BY DEF Enqueue
<1> HIDE DEF row
<1> QED BY <1>1, <1>2, <1>3, AppendKeeps

LEMMA RerunKeeps ==
  ASSUME QueueInv, NEW j \in DOMAIN jobs, RerunJob(j)
  PROVE  QueueInv'
<1> DEFINE row == NewJob(jobs[j].type, jobs[j].scene, NoKey, j)
<1>1. /\ jobs[j].type \in JobType
      /\ jobs[j].scene \in Scene \cup {NoScene}
      /\ j \in Nat
      /\ IsWrite(jobs[j]) => jobs[j].scene \in Scene
  BY InvRows DEF RowOK, JobRow, QueueInv, QueueTypeOK
<1>2. row \in JobRow /\ row.status = "queued" /\ row.attempts = 0
  BY <1>1, NewJobType
<1>3. IsWrite(row) => row.scene \in Scene
  BY <1>1 DEF NewJob, IsWrite
<1>4. Len(jobs) < MaxJobs /\ jobs' = Append(jobs, row) /\ UNCHANGED <<locks, claiming, dispatch>>
  BY DEF RerunJob
<1> HIDE DEF row
<1> QED BY <1>2, <1>3, <1>4, AppendKeeps

-----------------------------------------------------------------------------
(* Theorems *)

LEMMA QueueInvariant == QueueSpec => []QueueInv
<1>1. QueueInit => QueueInv
  <2> SUFFICES ASSUME QueueInit PROVE QueueInv
    OBVIOUS
  <2>1. /\ jobs = <<>> /\ DOMAIN jobs = {} /\ Len(jobs) = 0
        /\ jobs \in Seq(JobRow)
    BY DEF QueueInit
  <2>2. QueueTypeOK
    BY <2>1, QueueAssumption DEF QueueInit, QueueTypeOK, Resting, NoJob
  <2> QED BY <2>1, <2>2
          DEF QueueInit, QueueInv, WritesNameScene, LocksMatchRunning, AttemptsLeft,
              AttemptsDistinct
<1>2. QueueInv /\ [QueueNext]_queueVars => QueueInv'
  <2> SUFFICES ASSUME QueueInv, [QueueNext]_queueVars
               PROVE  QueueInv'
    OBVIOUS
  <2>1. CASE UNCHANGED queueVars
    BY <2>1 DEF queueVars, QueueInv, QueueTypeOK, WritesNameScene, LocksMatchRunning,
                AttemptsLeft, AttemptsDistinct
  <2>2. CASE Requests
    BY <2>2, EnqueueKeeps, CancelKeeps, RerunKeeps DEF Requests
  <2>3. ASSUME NEW w \in Worker, RunOnce(w)
        PROVE  QueueInv'
    BY <2>3, ClaimKeeps, ReclaimStepKeeps, FindNothingKeeps DEF RunOnce
  <2>4. ASSUME NEW w \in Worker, Finish(w)
        PROVE  QueueInv'
    BY <2>4, SucceedKeeps, FailKeeps, AbandonKeeps DEF Finish
  <2>5. CASE Clock
    BY <2>5, TimeOutKeeps, BackoffKeeps DEF Clock
  <2> QED BY <2>1, <2>2, <2>3, <2>4, <2>5 DEF QueueNext
<1> QED BY <1>1, <1>2, PTL DEF QueueSpec

\* Whatever overlaps, a lock names a running write job of its scene, and no write
\* job loses the lock of its scene before it ends or times out (worker claim_one,
\* _try_lock, execute, reclaim_timed_out; service cancel_job).
THEOREM LocksAlwaysMatch == QueueSpec => []LocksMatchRunning
<1>1. QueueInv => LocksMatchRunning
  BY DEF QueueInv
<1> QED BY <1>1, QueueInvariant, PTL

\* No job runs more often than max_attempts, and none is given up early.
THEOREM AttemptsAlwaysBounded == QueueSpec => []AttemptsLeft
<1>1. QueueInv => AttemptsLeft
  BY DEF QueueInv
<1> QED BY <1>1, QueueInvariant, PTL

\* At most one live attempt per job, and one live write attempt per scene, although
\* a lock is taken over as soon as it has expired.
THEOREM LiveAttemptsExclude == QueueSpec => []OneLiveAttempt
<1>1. QueueInv => OneLiveAttempt
  <2> SUFFICES ASSUME QueueInv, NEW v \in Worker, NEW w \in Worker,
                      v # w, Live(v), Live(w)
               PROVE  /\ dispatch[v].job # dispatch[w].job
                      /\ IsWrite(jobs[dispatch[v].job]) /\ IsWrite(jobs[dispatch[w].job])
                           => jobs[dispatch[v].job].scene # jobs[dispatch[w].job].scene
    BY DEF OneLiveAttempt
  <2>1. /\ dispatch[v].job \in DOMAIN jobs
        /\ dispatch[w].job \in DOMAIN jobs
        /\ dispatch[v] # dispatch[w]
    BY DEF QueueInv, AttemptsDistinct, Live
  <2>2. dispatch[v].job # dispatch[w].job
    <3>1. /\ dispatch[v] \in [job: 0 .. Len(jobs), attempt: 0 .. MaxAttempts]
          /\ dispatch[w] \in [job: 0 .. Len(jobs), attempt: 0 .. MaxAttempts]
      BY DEF QueueInv, QueueTypeOK
    <3>2. dispatch[v].job = dispatch[w].job => dispatch[v].attempt = dispatch[w].attempt
      BY DEF Live
    <3> QED BY <2>1, <3>1, <3>2
  <2>3. IsWrite(jobs[dispatch[v].job]) => locks[jobs[dispatch[v].job].scene] = dispatch[v].job
    BY <2>1 DEF QueueInv, LocksMatchRunning, WritesNameScene, Live
  <2>4. IsWrite(jobs[dispatch[w].job]) => locks[jobs[dispatch[w].job].scene] = dispatch[w].job
    BY <2>1 DEF QueueInv, LocksMatchRunning, WritesNameScene, Live
  <2> QED BY <2>2, <2>3, <2>4
<1> QED BY <1>1, QueueInvariant, PTL

\* Jobs, locks and dispatches are of their kind, and no lock or dispatch names a
\* job that was never enqueued.
THEOREM QueueTypeCorrect == QueueSpec => []QueueTypeOK
<1>1. QueueInv => QueueTypeOK
  BY DEF QueueInv
<1> QED BY <1>1, QueueInvariant, PTL

\* A settled job that nobody dispatches any more is never written again: not by a
\* request, the reclaim of others, or a claim (rerun_job copies it, cancel_job
\* refuses it).
THEOREM SettledRecordsStay == QueueSpec => RecordsKept
<1>1. QueueInv /\ [QueueNext]_queueVars =>
        [\A j \in DOMAIN jobs :
           /\ jobs[j].status \in Settled
           /\ \A w \in Worker : dispatch[w].job # j
           => jobs'[j] = jobs[j]]_queueVars
  <2> SUFFICES ASSUME QueueInv, QueueNext, NEW j \in DOMAIN jobs, jobs[j].status \in Settled,
                      \A w \in Worker : dispatch[w].job # j
               PROVE  jobs'[j] = jobs[j]
    OBVIOUS
  <2>1. jobs \in Seq(JobRow) /\ DOMAIN jobs = 1 .. Len(jobs) /\ Len(jobs) \in Nat
    BY DEF QueueInv, QueueTypeOK
  <2>2. jobs[j].status \notin {"queued", "running"}
    BY DEF Settled
  <2>3. ASSUME NEW row, jobs' = Append(jobs, row)
        PROVE  jobs'[j] = jobs[j]
    BY <2>1, <2>3
  <2>4. CASE Requests
    BY <2>2, <2>3, <2>4 DEF Requests, Enqueue, CancelJob, RerunJob
  <2>5. Reclaimed[j] = jobs[j]
    BY <2>2 DEF Reclaimed, TimedOut
  <2>6. ASSUME NEW w \in Worker, RunOnce(w)
        PROVE  jobs'[j] = jobs[j]
    <3>1. CASE Reclaim(w) \/ FindNothing(w)
      BY <2>5, <3>1 DEF Reclaim, FindNothing
    <3>2. ASSUME NEW i \in DOMAIN jobs, Claim(w, i)
          PROVE  jobs'[j] = jobs[j]
      <4>1. i # j
        BY <2>2, <3>2 DEF Claim, Claimable
      <4> QED BY <3>2, <4>1 DEF Claim
    <3> QED BY <2>6, <3>1, <3>2 DEF RunOnce
  <2>7. ASSUME NEW w \in Worker, Finish(w)
        PROVE  jobs'[j] = jobs[j]
    BY <2>7 DEF Finish, Succeed, Fail, Abandon
  <2>8. CASE Clock
    BY <2>2, <2>8 DEF Clock, TimeOut, BackoffEnds
  <2> QED BY <2>4, <2>6, <2>7, <2>8 DEF QueueNext
<1> QED BY <1>1, QueueInvariant, PTL DEF QueueSpec, RecordsKept

=============================================================================
