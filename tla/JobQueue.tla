------------------------------ MODULE JobQueue ------------------------------
(***************************************************************************)
(* The job queue and the threads that work on it (jobs/service.py and      *)
(* jobs/worker.py).  Requests enqueue, cancel and rerun jobs; a thread     *)
(* that calls run_once claims a job, dispatches it and records how that    *)
(* ended.  A dispatch takes as long as the service it calls, so between    *)
(* the claim and the record anything may happen to the job: the timeout    *)
(* passes and another thread reclaims it, or the editor cancels it.        *)
(*                                                                         *)
(* A call of run_once reads the clock twice, to reclaim what has timed out *)
(* and then to claim, and anything may happen in between: it is two steps  *)
(* here.  Recording, cancelling, enqueueing and rerunning are one each.    *)
(* Times are kept as what the code asks of them: whether a queued job is   *)
(* due, and whether a running one has timed out.  The lock of a scene is   *)
(* saved in the call that sets started_at, with the same clock reading and *)
(* the same timeout, so it has expired exactly when its job has timed out. *)
(*                                                                         *)
(* An operator named X_Y is a mutant of X that the properties catch.       *)
(***************************************************************************)
EXTENDS Naturals, Sequences

CONSTANTS
  Worker,        \* threads that call run_once
  Scene,
  JobType,
  WriteType,     \* the types that change a scene (plan, draft, extract, repair)
  Key,           \* idempotency keys
  NoKey,         \* Python None, for a key
  NoScene,       \* Python None, for a scene
  MaxAttempts,   \* max_attempts of every job
  Backoff,       \* whether a retry waits (base_backoff_s > 0)
  MaxJobs        \* bound of the model: jobs ever enqueued

ASSUME QueueAssumption ==
  /\ WriteType \subseteq JobType
  /\ NoKey \notin Key
  /\ NoScene \notin Scene
  /\ MaxAttempts \in Nat \ {0}
  /\ Backoff \in BOOLEAN
  /\ MaxJobs \in Nat

VARIABLES
  jobs,       \* the jobs, oldest first; a job is its place in the sequence
  locks,      \* scene -> the job whose lock is on it, or NoJob
  claiming,   \* workers that have reclaimed and are about to claim
  dispatch    \* worker -> the attempt it is dispatching, or Resting

queueVars == <<jobs, locks, claiming, dispatch>>

-----------------------------------------------------------------------------
(* Rows *)

NoJob == 0
Resting == [job |-> NoJob, attempt |-> 0]

Status == {"queued", "running", "succeeded", "cancelled", "dead_letter"}
ActiveStatus == {"queued", "running", "succeeded"}
Settled == {"succeeded", "cancelled", "dead_letter"}

JobRow ==
  [type: JobType, scene: Scene \cup {NoScene}, key: Key \cup {NoKey},
   status: Status, attempts: 0 .. MaxAttempts,
   due: BOOLEAN,        \* scheduled_at has passed
   overdue: BOOLEAN,    \* of a running job: started_at + timeout has passed
   rerun_of: Nat]

QueueTypeOK ==
  /\ jobs \in Seq(JobRow)
  /\ Len(jobs) <= MaxJobs
  /\ locks \in [Scene -> 0 .. Len(jobs)]
  /\ claiming \subseteq Worker
  /\ dispatch \in [Worker -> [job: 0 .. Len(jobs), attempt: 0 .. MaxAttempts]]

QueueInit ==
  /\ jobs = <<>>
  /\ locks = [s \in Scene |-> NoJob]
  /\ claiming = {}
  /\ dispatch = [w \in Worker |-> Resting]

IsWrite(row) == row.type \in WriteType

NewJob(type, scene, key, source) ==
  [type |-> type, scene |-> scene, key |-> key, status |-> "queued",
   attempts |-> 0, due |-> TRUE, overdue |-> FALSE, rerun_of |-> source]

-----------------------------------------------------------------------------
(* Requests *)

SameKey(type, key) ==
  {j \in DOMAIN jobs : key # NoKey /\ jobs[j].type = type /\ jobs[j].key = key}

\* find_by_idempotency_key returns the youngest job with the key; while it is
\* active the request gets that job back and nothing is enqueued.
Answered(type, key) ==
  \E j \in SameKey(type, key) :
    /\ jobs[j].status \in ActiveStatus
    /\ \A i \in SameKey(type, key) : i <= j

\* The scene of a job is the one the request names beside the inputs.  Nothing
\* compares it with the scene of the inputs, which is where the dispatch writes:
\* here they are one.
Enqueue(type, scene, key) ==
  /\ Len(jobs) < MaxJobs
  /\ type \in WriteType => scene # NoScene
  /\ ~Answered(type, key)
  /\ jobs' = Append(jobs, NewJob(type, scene, key, NoJob))
  /\ UNCHANGED <<locks, claiming, dispatch>>

Unlocked_AnyOwner(table, j) ==
  [s \in Scene |-> IF s = jobs[j].scene THEN NoJob ELSE table[s]]

\* delete_lock: only the lock of this job.
Unlocked(table, j) == [s \in Scene |-> IF table[s] = j THEN NoJob ELSE table[s]]

CancelJob(j) ==
  /\ j \in DOMAIN jobs
  /\ jobs[j].status \in {"queued", "running"}
  /\ jobs' = [jobs EXCEPT ![j].status = "cancelled", ![j].overdue = FALSE]
  /\ locks' = Unlocked(locks, j)
  /\ UNCHANGED <<claiming, dispatch>>

RerunJob_InPlace(j) ==
  /\ j \in DOMAIN jobs
  /\ jobs[j].status = "dead_letter"
  /\ jobs' = [jobs EXCEPT ![j].status = "queued", ![j].attempts = 0, ![j].due = TRUE]
  /\ UNCHANGED <<locks, claiming, dispatch>>

RerunJob(j) ==
  /\ j \in DOMAIN jobs
  /\ Len(jobs) < MaxJobs
  /\ jobs[j].status = "dead_letter"
  /\ jobs' = Append(jobs, NewJob(jobs[j].type, jobs[j].scene, NoKey, j))
  /\ UNCHANGED <<locks, claiming, dispatch>>

-----------------------------------------------------------------------------
(* The worker *)

Retried_OneTooMany(row) ==
  IF row.attempts > MaxAttempts
  THEN [row EXCEPT !.status = "dead_letter", !.due = TRUE, !.overdue = FALSE]
  ELSE [row EXCEPT !.status = "queued", !.due = ~Backoff, !.overdue = FALSE]

\* _retry_or_dead_letter, whatever the status of the job is by now.
Retried(row) ==
  IF row.attempts >= MaxAttempts
  THEN [row EXCEPT !.status = "dead_letter", !.due = TRUE, !.overdue = FALSE]
  ELSE [row EXCEPT !.status = "queued", !.due = ~Backoff, !.overdue = FALSE]

TimedOut(j) == jobs[j].status = "running" /\ jobs[j].overdue

\* reclaim_timed_out retries every job that timed out and releases its lock.
Reclaimed ==
  [j \in DOMAIN jobs |-> IF TimedOut(j) THEN Retried(jobs[j]) ELSE jobs[j]]

LocksAfterReclaim ==
  [s \in Scene |-> IF locks[s] \in {j \in DOMAIN jobs : TimedOut(j)} THEN NoJob ELSE locks[s]]

\* The first half of run_once.
Reclaim(w) ==
  /\ dispatch[w] = Resting /\ w \notin claiming
  /\ jobs' = Reclaimed
  /\ locks' = LocksAfterReclaim
  /\ claiming' = claiming \cup {w}
  /\ UNCHANGED dispatch

\* _try_lock: the lock of the scene is free, its own, or has expired since the
\* reclaim, although the job that holds it is still running.
LockYields(s, j) == locks[s] \in {NoJob, j} \/ TimedOut(locks[s])

\* The jobs that claim_one could take: a write job needs the lock of its scene.
Claimable_AnyLock ==
  {j \in DOMAIN jobs : jobs[j].status = "queued" /\ jobs[j].due}

Claimable ==
  {j \in DOMAIN jobs :
     /\ jobs[j].status = "queued" /\ jobs[j].due
     /\ IsWrite(jobs[j]) => LockYields(jobs[j].scene, j)}

Started_Uncounted(row) ==
  [row EXCEPT !.status = "running"]

Started(row) ==
  [row EXCEPT !.status = "running", !.attempts = row.attempts + 1]

\* The second half.  The queue is tried in the order of scheduled_at, which is
\* not kept here.
Claim(w, j) ==
  /\ w \in claiming
  /\ j \in Claimable
  /\ jobs' = [jobs EXCEPT ![j] = Started(jobs[j])]
  /\ locks' = IF IsWrite(jobs[j]) THEN [locks EXCEPT ![jobs[j].scene] = j] ELSE locks
  /\ claiming' = claiming \ {w}
  /\ dispatch' = [dispatch EXCEPT ![w] = [job |-> j, attempt |-> Started(jobs[j]).attempts]]

FindNothing(w) ==
  /\ w \in claiming
  /\ Claimable = {}
  /\ claiming' = claiming \ {w}
  /\ UNCHANGED <<jobs, locks, dispatch>>

\* The service returned: the job succeeds, whatever its status is by now.
Succeed(w) ==
  LET j == dispatch[w].job
  IN /\ dispatch[w] # Resting
     /\ jobs' = [jobs EXCEPT ![j].status = "succeeded", ![j].overdue = FALSE]
     /\ locks' = Unlocked(locks, j)
     /\ dispatch' = [dispatch EXCEPT ![w] = Resting]
     /\ UNCHANGED claiming

\* The service raised one of the errors the worker expects.
Fail(w) ==
  LET j == dispatch[w].job
  IN /\ dispatch[w] # Resting
     /\ jobs' = [jobs EXCEPT ![j] = Retried(jobs[j])]
     /\ locks' = Unlocked(locks, j)
     /\ dispatch' = [dispatch EXCEPT ![w] = Resting]
     /\ UNCHANGED claiming

\* The service raised another error, or the caller claimed and went away: the
\* job stays running, with its lock, until its timeout.
Abandon(w) ==
  /\ dispatch[w] # Resting
  /\ dispatch' = [dispatch EXCEPT ![w] = Resting]
  /\ UNCHANGED <<jobs, locks, claiming>>

-----------------------------------------------------------------------------
(* The clock *)

TimeOut(j) ==
  /\ j \in DOMAIN jobs
  /\ jobs[j].status = "running" /\ ~jobs[j].overdue
  /\ jobs' = [jobs EXCEPT ![j].overdue = TRUE]
  /\ UNCHANGED <<locks, claiming, dispatch>>

BackoffEnds(j) ==
  /\ j \in DOMAIN jobs
  /\ jobs[j].status = "queued" /\ ~jobs[j].due
  /\ jobs' = [jobs EXCEPT ![j].due = TRUE]
  /\ UNCHANGED <<locks, claiming, dispatch>>

-----------------------------------------------------------------------------

RunOnce(w) == Reclaim(w) \/ (\E j \in DOMAIN jobs : Claim(w, j)) \/ FindNothing(w)
Finish(w) == Succeed(w) \/ Fail(w) \/ Abandon(w)
Requests ==
  \/ \E type \in JobType, scene \in Scene \cup {NoScene}, key \in Key \cup {NoKey} :
       Enqueue(type, scene, key)
  \/ \E j \in DOMAIN jobs : CancelJob(j) \/ RerunJob(j)
Clock == \E j \in DOMAIN jobs : TimeOut(j) \/ BackoffEnds(j)

QueueNext ==
  \/ Requests
  \/ \E w \in Worker : RunOnce(w) \/ Finish(w)
  \/ Clock

QueueSpec == QueueInit /\ [][QueueNext]_queueVars

\* A caller keeps calling run_once, every dispatch ends in some way, and time
\* goes on.  Nothing forces a request.
FairQueueSpec ==
  /\ QueueSpec
  /\ \A w \in Worker : WF_queueVars(RunOnce(w)) /\ WF_queueVars(Finish(w))
  /\ WF_queueVars(Clock)

-----------------------------------------------------------------------------
(* Properties *)

\* A lock is never left behind: the job it names is a running write job of the
\* scene.  And as long as a write job runs within its timeout the lock of its
\* scene stays its own, whatever reclaims, cancellations and late answers of other
\* jobs come in between.  Only a job that has timed out may have lost it.
LocksMatchRunning ==
  \A s \in Scene, j \in DOMAIN jobs :
    /\ locks[s] = j => /\ jobs[j].status = "running"
                       /\ IsWrite(jobs[j])
                       /\ jobs[j].scene = s
    /\ /\ jobs[j].status = "running" /\ ~jobs[j].overdue
       /\ IsWrite(jobs[j])
       /\ jobs[j].scene = s
       => locks[s] = j

\* A job that waits to run has an attempt left, and a dead letter has none.
AttemptsLeft ==
  \A j \in DOMAIN jobs :
    /\ jobs[j].status = "queued" => jobs[j].attempts < MaxAttempts
    /\ jobs[j].status = "dead_letter" => jobs[j].attempts = MaxAttempts

\* The dispatch of w is the attempt its job is running, within its timeout.
Live(w) ==
  /\ dispatch[w] # Resting
  /\ jobs[dispatch[w].job].status = "running" /\ ~jobs[dispatch[w].job].overdue
  /\ jobs[dispatch[w].job].attempts = dispatch[w].attempt

\* No two threads hold live attempts that may write to one scene, and no two
\* hold the same attempt: whoever overlaps with a live attempt is a latecomer
\* whose job has timed out, been cancelled or been tried again.
OneLiveAttempt ==
  \A v, w \in Worker :
    /\ v # w /\ Live(v) /\ Live(w)
    => LET i == dispatch[v].job
           j == dispatch[w].job
       IN /\ i # j
          /\ IsWrite(jobs[i]) /\ IsWrite(jobs[j]) => jobs[i].scene # jobs[j].scene

\* Once a job is settled and no thread is still dispatching it, its record
\* never changes again ("Failure / cancel / dead_letter keep the record").
RecordsKept ==
  [][\A j \in DOMAIN jobs :
       /\ jobs[j].status \in Settled
       /\ \A w \in Worker : dispatch[w].job # j
       => jobs'[j] = jobs[j]
    ]_queueVars

\* If run_once keeps being called, every job that is enqueued is settled in
\* the end: retries are bounded and a lock is never lost.
StatusOf(j) == IF j \in DOMAIN jobs THEN jobs[j].status ELSE "none"

EveryJobSettles ==
  \A j \in 1 .. MaxJobs : (StatusOf(j) = "queued") ~> (StatusOf(j) \in Settled)

\* jobs/models.py: write jobs are "mutually exclusive writers for one scene".  No run
\* checks this: a job that times out, or is cancelled, gives its lock away while its
\* dispatch still runs.
WritersExclude ==
  \A v, w \in Worker :
    /\ v # w /\ dispatch[v] # Resting /\ dispatch[w] # Resting
    /\ IsWrite(jobs[dispatch[v].job]) /\ IsWrite(jobs[dispatch[w].job])
    => jobs[dispatch[v].job].scene # jobs[dispatch[w].job].scene

=============================================================================
