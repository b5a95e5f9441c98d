# A TLA+ model of slove-context

slove-context is a server for one author and one book. It keeps the *Canon* of a
story (entities and the facts that hold about them), lets generation jobs
propose plans, drafts, candidate changes and summaries, validates the candidates
with deterministic rules, writes to Canon only what a human editor has
approved and submitted, and releases only drafts the editor has approved. The
modules here model the parts of `src/backend/slove_context` in which order,
interleaving and failure decide whether those promises hold, check them with TLC
and prove the central invariants with TLAPS.

## 1. The system

### How the program runs

The back end is one FastAPI process (`app.py`). Its handlers are plain
functions, so they run on a thread pool: two requests may run at the same time,
and nothing in the services or in the in-memory repositories takes a lock. Rows are
mutable Python objects that handlers read, then change in place; a repository is
a `dict`. With the book store (`persist/store.py`) every `add_*` and `save_*`
also writes the whole book to a file, so what a crash leaves behind is the prefix
of the writes a handler had made. The book holds the story, Canon, scene cards,
plans, drafts and candidates (with the generation jobs of these three) and
context packs. Summaries, validation runs, repairs, the review queue, outlines,
style, worker jobs, DAGs, schedule runs and release checks are not part of it:
they are gone after a restart. There is no background thread: the job worker
runs when a request calls `run_once`, and a generation job runs inside the
request that creates it.

### Components, state, operations, interaction

| Component (source) | State | Operations | Talks to |
| --- | --- | --- | --- |
| Canon ledger (`canon/`) | entities, facts with a version row and a status, snapshots, evidence | create entity and fact, approve, abandon, supersede, create and freeze a snapshot, replay, diff | called by approval, read by validation, context packs, release |
| Candidate extraction (`candidate_change/service.py`) | extract jobs, candidates | create, run, cancel a job; persist a batch | LLM gateway, drafts |
| Validation (`validation/`) | runs, reports, the status of candidates | trigger, execute, cancel | reads Canon or a frozen snapshot and the Story Spec, moves candidates |
| Approval and submit (`candidate_change/approval_service.py`) | verdict and status of candidates | approve, reject, submit | submit writes Canon |
| Repair (`repair/`) | tasks | open, start, complete with a recheck, reject, cancel | runs generation jobs, triggers validation, may reject candidates |
| Review queue (`review_queue/`) | items with a decision | enqueue, approve, reject, request revision, escalate, cancel, mark failed | approves or rejects the subject |
| Job queue and worker (`jobs/`) | jobs, scene locks | enqueue, cancel, rerun, run_once, reclaim | dispatches to the generation, validation, summary and pack services |
| Single-scene DAG (`dags/`) | ten nodes, a blocker, frozen outputs, the human decision | create, advance, human_review, rerun, cancel | job queue, approval, review queue |
| Batch scheduler (`scheduler/`) | runs with their DAGs and failures, the day's tokens, alerts | configure, start, tick, pause, resume, cancel, dry run | DAGs, scene cards |
| Scene cards (`scene/`) | arcs, chapters, cards with order and dependencies | create, patch, approve, set dependencies | gate for generation, waves of the scheduler |
| Plans and drafts (`scene_plan/`, `scene_draft/`) | jobs with idempotency keys, revisions | trigger, run (format repair of a plan), cancel | LLM gateway, packs |
| Context packs (`context_pack/`) | packs | assemble, freeze, cancel | snapshots, drafts |
| Summaries (`summary/`) | jobs, scene and chapter summaries | trigger, run, cancel | LLM gateway, drafts, release |
| Shuttle (`shuttle/`) | none of its own | four prompts, four imports of a pasted answer | writes drafts, candidates, summaries, items of the queue |
| Outline (`outline/`) | revisions with their tree | create, edit, propose, confirm, revise, rework, cancel, fail | dashboard, prompts |
| Style (`style/`, `style_validation/`) | revisions of guides and samples, associations, validations | create, revise, approve or authorize, associate, check, cancel | release reads the reports |
| Story Spec (`story/`) | versions of one Spec | create, patch, submit, approve, next draft | validation and generation |
| Release (`release/`) | checks with a manifest, exports, due items, safety records | check, cancel, export, waive | reads everything |
| Agents (`agents/`) | registry, agent runs | guard of every operation | all services |
| LLM gateway (`llm/`) | none | generate with retries, time-outs, back-off | provider (external) |
| Book store (`persist/`) | the file of the book | flush, load | all book repositories |
| Experiments, evaluations, audit, HTTP layer, front end | records of their own | | read only, or out of the way |

### What is hard

* **No locks.** Every handler checks a status, does its work and writes the
  status later. Two submits, a reject beside a submit, a cancellation beside a
  validation, two threads in `advance`: the second writer wins.
* **Several writes per handler.** `supersede_fact` saves the old fact before it
  adds the new one; submit writes Canon before it saves the candidate; each
  write reaches the book.
* **Half the state survives a restart.** Candidates do, their runs do not.
* **Long calls.** A dispatch may outlive its time-out or its job's
  cancellation and still record its result.
* **Partial work.** human_review and canon_commit of a DAG go candidate by
  candidate; an error in the middle keeps what was done.
* **Stale reads.** Validation reads Canon long before the verdict; a rerun keeps
  what does not depend on its start; a chapter is summarised, a release checked
  and a style judged while what they read is replaced.
* **Answers that come late.** A generation job writes its revision when the model
  has answered, whatever was cancelled, pasted or generated meanwhile.
* **Refused too late.** Scene cards are edited in place and checked afterwards.

### What makes each component correct

* Ledger: supersession links two rows both ways, a retired fact always has an
  heir in effect, Canon is never rewritten, a replay never changes.
* Validation and approval: candidates and runs agree; nothing reaches Canon that
  no run has passed and no editor has approved; a commit is whole; one candidate
  writes one fact.
* Threads and crashes: the steps of one request add up to one handler; what is
  written was approved before, and what ends as submitted is in the ledger, whoever
  else is at work; what a crash leaves is repaired by the next submit or is known
  not to be.
* Job queue: a lock names a running write job of its scene and stays with it until
  it times out, attempts are bounded, no two live attempts write one scene, every
  job is settled.
* DAG: success rests on success, commit rests on a standing approval, a blocked
  DAG does not move, a cancelled one is not advanced.
* Scheduler: a run stays within its concurrency and its budget, has one DAG for a
  scene and does not start prose before what it follows.
* Revisions (outline, guides, samples, Spec): one in force in each lineage, and a
  text that was in force is never edited. Scene cards: places are distinct and
  dependencies acyclic.
* Generation: one current text of a scene, one result for a key, what was
  replaced stays replaced, a chapter is summarised from one moment.
* Review and repair: what failed the rules stays out, a finished repair leaves
  its candidates with the editor, the queue tells what was decided.
* Release: what is released was approved and styled, the gates of a check speak
  once, and its manifest never changes.

## 2. Modules

| Module | Models | State | Actions |
| --- | --- | --- | --- |
| `CanonLedger` | `canon/service.py` on `canon/repository.py` | `entities`, `facts`, `snapshots`: functions whose domain is the set of rows | one per handler: `CreateEntity`, `CreateFact`, `ApproveFact`, `AbandonFact`, `SupersedeFact`, `CreateSnapshot`, `FreezeSnapshot` |
| `CanonPipeline` (extends the ledger) | validation runs, verdicts, submit | + `cands`, `runs`, `autoRun` | `PersistExtracted`, `TriggerRun`, `CancelRun`, `ApproveCandidate`, `RejectCandidate`, `SubmitCandidate`, `SubmitRefused`, `CanonApi` |
| `CanonThreads` (extends the pipeline) | the same handlers, read by read and write by write, on several threads, and the crash | + `task` (where each thread is), `origin` (which candidate a fact was written for) and `approvals` (what the editor has approved), two history variables | one per access, grouped by handler: `Validate`, `Cancel`, `Approve`, `Reject`, `Submit`, `OneAccess`, `Crash` |
| `CanonAtomicity` (extends the threads) | the claim that the steps add up to the handlers | + `settled` (the tables when no request was in flight) | steps of `CanonThreads` |
| `JobQueue` | `jobs/service.py`, `jobs/worker.py` | `jobs`, `locks`, `claiming` (who has reclaimed and is about to claim), `dispatch` (who is dispatching which attempt) | `Enqueue`, `CancelJob`, `RerunJob`, `Reclaim`, `Claim`, `FindNothing`, `Succeed`, `Fail`, `Abandon`, `TimeOut`, `BackoffEnds` |
| `SceneDag` | `dags/service.py`, `dags/graph.py` | `nodes`, `reused`, `dag`, `frozen`, `cands`, `task` | steps of `advance` and `human_review`; `Rerun`, `CancelDag`; `Beside` for what the editor does without the DAG |
| `Scheduler` | `scheduler/service.py`, `scheduler/parallelism.py` | `approved`, `runs`, `dags`, `spent`, `config`, `alerts`, `request` (the start or tick a thread executes) | `StartRun`, `Tick`, `AdvanceRun`, `CreateDag`, `AdvanceDag` and its failures, `DryRun`, `Pause`, `Resume`, `Cancel`, `Configure`; `BesideTicks` for the day, scene cards and DAGs |
| `Authoring` | `story/`, `outline/`, `style/`, `style_validation/service.py` | `spec`, `revs` (one table for the three kinds of revision), `styled`, `checks` | one per handler, grouped by document: `StorySpec`, `Outline`, `Guides`, `Samples`, `Style`; a style validation is two steps |
| `SceneCards` | `scene/service.py` | `arcs`, `chapters`, `cards` | one per handler |
| `Writing` | `context_pack/`, `scene_plan/`, `scene_draft/`, `candidate_change/`, `summary/`, `shuttle/service.py`, `llm/gateway.py` | `planned`, `packs`, `requests` (the jobs), `drafts`, `summaries`, `digests` (of chapters) | trigger and cancel of each kind of job; `Running`: what the model may answer, and what the job then writes; `Packs`; `Shuttle` |
| `ReviewRepair` | `review_queue/`, `repair/service.py` | `status` of the candidates, `verdicts`, `tasks`, `items` | one per handler; the jobs of a repair are steps of their own |
| `Release` | `release/service.py`, `release/gates.py` | what is read (`drafts`, `digests`, `cands`, `repairs`, `dues`, `safety`), `checks`, `exports` | a check in three steps, a cancellation in two (`ReadCancel`, `WriteCancel`), `Export`; `SourcesMove` and `Editor` for what happens beside |
| `CanonProofs` | theorems about `CanonLedger` and about `CanonPipeline` | | |
| `CanonThreadsProofs` | theorems about `CanonThreads`, and the refinement of `CanonAtomicity` | | |
| `JobQueueProofs`, `ReviewRepairProofs`, `ReleaseProofs`, `WritingProofs` | theorems about the module each is named after | | |
| `DagProofs` | theorems about `SceneDag` and about `Scheduler` | | |
| `DeskProofs` | theorems about `Authoring` and about `SceneCards` | | |
| `MC...` | the values of the constants for TLC | | |

`CanonPipeline` is the abstract specification of the approval loop: whole
handlers, one at a time, which is how the code is written to be read.
`CanonThreads` is the detailed one. `CanonAtomicity` instantiates the first with
the tables of the second as they were when no request was in flight.
`MCAuthoring` runs `Authoring` and `SceneCards` side by side. `Writing`,
`ReviewRepair` and `Release` meet in the drafts and candidates: `ReviewRepair`
takes a validation or approval as the one step it is in `CanonPipeline`, and
`Release` moves what it reads in steps that those three modules explain.

A definition called `X_Y` is a variant of `X` with a plausible bug `Y`. No
specification uses it; it documents what the properties are able to catch.

### Abstractions

* **Rows.** Ids are members of a finite set instead of uuid4 values, which bounds
  how many rows there are. Names, predicates and values are only compared, so
  they are model values. Story time is a number. Times of the wall clock are
  kept as what the code asks of them (`due`, `overdue`).
* **Ledger.** Evidence rows and provenance are left out: nothing reads them to
  decide. A supersession may name another entity or predicate, as the payload may.
* **Rules.** The Canon conflict rule is modelled as the engine applies it:
  same predicate, another value, an entity whose name occurs in the candidate.
  Whether a `must_not_write` line of the Story Spec occurs is a free choice, and
  so is whether the engine raises. A report is not kept apart from its run.
* **Settings.** `validation_auto_run` is the variable `autoRun`, chosen at the start.
  `Asked` is the set of facts that a submit may name to be superseded.
* **Callers.** The modelled handlers are past their permission guard: that the
  caller is the human editor is not modelled.
* **Extraction.** A succeeding extract job is `PersistExtracted` in
  `CanonPipeline`; how it comes to succeed is in `Writing`. That a repair may
  reject candidates is in `ReviewRepair`.
* **Job queue.** `run_once` reads the clock twice, to reclaim and then to claim, and
  is two steps. Recording, cancelling and enqueueing are one each. The order of
  `scheduled_at` is left open (any claimable job may be next). A lock has expired
  exactly when its job has timed out, as both are set in one call from one clock
  reading and one setting; if that happens after the reclaim, the claim takes the
  lock over although the job is still running. The scene of a job is the one its
  request names, taken to be the one the dispatch writes to.
* **DAG.** One DAG. The outputs of a node are kept only where a guard reads them,
  the jobs a node enqueues take one step, and the cap of 24 rounds is left out.
* **Scheduler.** Tokens are counted in DAGs, since each is charged the same
  estimate. A DAG is its scene and what the scheduler asks of its status.
  Decisions, which record what was planned, are left out.
* **Authoring.** A text is written in part or in full. What a style validation
  finds is a free choice.
* **Scene cards.** A client may name the id of a new card, also that of a card that
  exists, which is then overwritten.
* **Writing.** A text is which draft or summary it was made from. A job without a
  key is dropped when it ends, since nothing looks it up again, so only the jobs
  that matter to a later request count against `MaxJobs`. The cards of all
  scenes may be generated and the Spec and the snapshot are usable. `stopped` and
  `repaired` are history variables.
* **Review and repair.** A validation is one step with any outcome the rules
  allow; one candidate of a batch may fail the whole batch, as in the engine.
  Snapshots and decision records are left out.
* **Release.** The snapshot and the blockers of the queue are free choices. The
  gate on audit records cannot fail and is left out. So are reports of several
  candidates and a second validation of one. Items that came after the listing are
  not in it, as in the code, except that an approval or a style validation begun
  after it counts for a draft that was listed.

## 3. What TLC checks

| Run | Question | Bounds | Distinct states |
| --- | --- | --- | --- |
| `CanonPipeline` | Do candidates, runs, Canon and snapshots agree, with validation in the request or queued, and with every history of the Canon API beside the loop? | 2 contradicting candidates, 2 runs, 3 facts, 1 entity, 1 snapshot, 2 story times | 264 thousand |
| `CanonAtomicity` | One thread, no crash: is every request one handler of the pipeline, and do the documents' promises hold? | the same with one story time, 1 thread | 37 thousand |
| `CanonCrash` | What survives a kill between any two writes? | 2 candidates, 3 facts, 2 runs, 1 thread | 168 thousand |
| `JobQueue` | Locks, attempts, records, and does every job settle? | 2 jobs, 2 workers, 1 scene, 2 attempts, back-off | 118 thousand |
| `SceneDag` | Order, approval and blocking through failures, reruns and decisions beside the DAG | 2 candidates, 1 thread | 139 thousand |
| `Scheduler` | Do runs keep their limits and the order of the story while the editor and the DAGs move in the middle of a tick? | 3 scenes of which one follows another, 2 runs, 2 DAGs, 2 configurations, 1 thread | 1.39 million |
| `Authoring` | Do the documents and cards a scene rests on stay sound? | 3 revisions of any kind, 3 versions of the Spec, 1 style validation, 3 cards in 2 chapters | 224 thousand |
| `Writing` | Does one text stay current while answers fail, come late or are pasted? | 2 scenes, 2 jobs kept, 1 retry, 3 drafts or 3 summaries and a chapter, 2 batches of a draft, 1 pack, 1 key | 342 thousand |
| `ReviewRepair` | What may a repair and the queue do to candidates that are being decided on? | 3 candidates, 2 runs, 2 tasks or items together | 338 thousand |
| `Release` | Is what is released what was approved, whatever happens while a check runs? | 2 chapters of a scene each, 1 check, 1 export, 2 drafts, 2 summaries, 2 reports, 1 repair, 1 due item, 1 cancellation | 353 thousand |
| `DoubleSubmit` | Can a candidate write Canon twice? | 2 threads | violation |
| `CancelIsFinal` | Does a cancelled job stay cancelled? | as `Writing` | violation |

### Why the bounds are enough for the cases that matter

A supersession chain needs three facts to have an inner link; two candidates on
the same subject and predicate with different values are the smallest case of a
conflict, of a replacement and of two submits that meet; two runs are needed for
a candidate that is released and validated again. Two jobs and two workers are
the smallest case of a lock that is waited for, of a latecomer and of a rerun;
two attempts have a retry and a dead letter. `SceneDag` needs two candidates for
a commit or a review that stops half-way. Two schedule runs share the day's
tokens; with two DAGs a run reaches its concurrency, its budget and its failure
limit, which are all at most two in one of the configurations. Three revisions
are a text in force, the one that replaces it and one that was passed over.
Three drafts are the smallest case of a draft replaced while it is extracted and
replaced again; three summaries of two scenes let one of them be replaced while
the chapter is being written. Three candidates let a repair meet one that it did
not make. With two drafts, or two summaries, or two reports, a check reads one
and its export another.

Four runs have a state constraint, each of which separates things that share
nothing, so that their product is not explored:

* `LaterTimeAlone` (`CanonPipeline`): a second story time is explored as long as
  there is no candidate, where it matters to replays and snapshots.
* `OneDesk` (`Authoring`): the Spec, the revisions and the cards have no variable
  in common; one of them moves at a time.
* `PlansFirst`, `DraftsOrSummaries` (`Writing`): plans and packs are read by
  nothing that comes after the first draft; summaries only read drafts. Either
  three drafts are explored with their extractions, or two pasted drafts with
  their summaries and the chapter.
* `TwoAtWork` (`ReviewRepair`) and `OneTrouble` (`Release`): two tasks, two items
  or one of each; and, since the gates do not look at one another, at most one
  kind of thing that a check reads, or its cancellation, is there in more than the
  least number. Candidates come once the drafts are styled and checked for safety,
  while drafts are still being approved.

Ids that are only compared are declared symmetric where that is sound: nowhere
beside liveness or a refinement, and beside action properties only where these
compare a state with the next one and name no model value.

### The properties

The definitions carry a comment each; those in the lists of the runs are:

* `CanonPipeline`: `LedgerTypeOK`, `SupersessionLinked`, `HistoryEndsInEffect`,
  `SnapshotFromCanon`, `CanonNeverRewritten`, `ReplayIsStable` of the ledger
  (replay reads live rows, so that it is stable rests on nothing ever editing a
  row), and `RunsAgree`, `VerdictNeedsPassedRun`,
  `CommitIsWhole` of the approval loop.
* `CanonAtomicity`: `HandlersAreAtomic`, the refinement of `CanonPipeline` by the
  steps of a request; `RejectedNotInCanon` and `ValidatingNotStranded`, which are
  promises the documents make.
* `CanonCrash`: `WrittenAsApproved` (no fact is written for a candidate that the
  editor had not approved before), `SubmittedIsWritten` (a candidate that ends as
  submitted has its fact in the ledger) and `OneTruthEach`, which holds with crashes
  if facts only come through submit and no request names its target.
* `JobQueue`: `LocksMatchRunning` (a lock is never left behind, and a write job within
  its timeout has the lock of its scene), `AttemptsLeft`, `OneLiveAttempt`,
  `RecordsKept`, `EveryJobSettles`. Note what the first and the third do not say: a
  dispatch that has timed out goes on beside the next one.
* `SceneDag`: `SuccessInOrder`, `CommitNeedsEditor`, `CommittedAll`,
  `NothingRunsBlocked`, requests one at a time.
* `Scheduler`: `WithinLimits` (a run takes a DAG only within the concurrency and
  the budget of the request that takes it), `OneDagPerScene`, `DependentsHeld`.
  The last one is stronger than one would like: prose that follows other prose
  is never started by a run, because the slots of its own DAGs are never freed.
* `Authoring`: `LineageSound` (one text in force, replaced ones lead to it),
  `NeverEditedInForce`, `JudgedByGuideInForce`, `StoryStaysOrdered`.
* `Writing`: `OneCurrentEach`, `SupersededForGood`, `KeyPaysOnce`,
  `SourcesOfOneMoment`.
* `ReviewRepair`: `FailedStaysOut`, `RepairEndsInVerdict`, `QueueMatchesVerdicts`.
* `Release`: `ReleasedIsApproved`, `OutcomeStands` (only a cancellation that had read
  the status before is written over the outcome, and the manifest stays).

Each module has a type invariant (`LedgerTypeOK`, `PipelineTypeOK`, ...), proved for
every module as part of its inductive invariant. One run checks that of the ledger,
on which the other Canon modules are built; the runs spend no time on the others.

### Fairness

Only `EveryJobSettles` needs it. `FairQueueSpec` assumes that each worker keeps
calling `run_once` while something can be claimed or reclaimed, that a dispatch
ends (it returns, it raises, or its thread goes away) and that time passes. The
code has no thread of its own that would call `run_once`: its callers do (the
DAG's `_pump_job`, the jobs API), so the property is about a server that is being
used. Nothing forces a request, and cancellations and reruns stay free.

### What the code does not keep

Two runs expect a violation, and `PROJECT.json` quotes the lines they contradict.

* `DoubleSubmit`: two submits of one candidate pass the status check before either
  saves it, and Canon holds two facts for it.
* `CancelIsFinal`: a job cancelled while its thread waits for the model ends as
  the answer has it. Its candidates, or its draft, are written all the same.

Further properties are stated in the modules although no run checks them,
because the code does not keep them. TLC refutes each under the specification
named here:

| Property | Refuted in | By |
| --- | --- | --- |
| `RetiredIsReplaced` | `CanonThreads` with crashes | a kill between the two writes of a supersession takes a truth out of Canon |
| `ApprovedWithoutConflict` | `CanonPipeline` | a candidate is approved on a validation of an older Canon, which contradicts it by now |
| `WritersExclude` | `JobQueue`, 1 job | a dispatch that has timed out writes beside its successor |
| `CancelledNotAdvanced` | `SceneDag`, 2 threads | `advance` overwrites a cancellation |
| `PausedForNewFailures` | `Scheduler` | resume keeps the count of failures, and the next tick pauses the run at once |
| `NewestOutlineInForce` | `Authoring` | a cancelled revision is reworked and confirmed after a newer one |
| `DepsToldBefore` | `SceneCards` | a card has been written when its order is found to be wrong |
| `ManifestOnlyIfPassed` | `Release` | a cancellation that read that the check is running is written after the gates have passed it |

The models show more of what a reader of the code may want to know:

* *Canon.* A reject that overtakes a submit leaves a Rejected candidate with a
  fact in Canon. A validation run cancelled while its rules execute still ends
  with their outcome. After a restart a candidate may stay Validating for ever,
  because its run was not in the book.
* *DAG.* A rerun from candidate_extraction leaves draft_validation succeeded, so
  the review opens on candidates no run has validated. A canon_commit that
  stopped half-way can never be completed by a rerun, since the first candidate
  is already submitted.
* *Scheduler.* A DAG that has ended keeps its slot, so a run takes at most as many
  DAGs as its concurrency in all. A run cancelled in the middle of a tick goes on
  with its plan. When advancing a new DAG raises, the DAG stays without a decision
  that names it.
* *Writing.* A job whose thread died stays Running; a request with its key gets
  it back for ever, also after a restart, as the job is in the book. A draft may
  be made with the pack of another scene. A text pasted with the key of a running
  job is dropped. The gateway's executor waits for a call that has timed out.
* *Review and repair.* Rejecting the item of a candidate that awaits no verdict yet
  leaves the candidate as it is. No request puts a task in rework.
* *Release.* An export takes the chapter summaries of the day, not those the gates
  have seen. The outcome of the gates is also written over a cancellation, as that
  is over it. A check whose thread raised stays running. A target scene without a
  draft does not keep the other drafts from passing.

## 4. What is proved

Every theorem holds for every value of the constants that satisfies the named
assumptions of its module (`LedgerAssumption`, `QueueAssumption`, ...): any ids,
texts, story times, workers and scenes, and any bound. The theorems about `SceneDag`,
two of those about `Scheduler` and four of those about `CanonThreads` have a
hypothesis besides, named below: each is the setting of the run that checks the
property, and the code gives no guarantee of it, so what they say of a busy
server is exactly that. The runs of section 3 check the same properties on their
instances, and TLC has checked every inductive invariant on instances of that
size.

Each proof module has the same order: the parts of the inductive invariant; what
the operators of the model return; for each action the lemma that it keeps the
parts it can disturb; the invariant; the theorems. A property is rarely inductive
alone. What had to be added says most about why the code works:

* `CanonProofs` on `CanonLedger`: `LedgerTypeCorrect`, `SupersessionAlwaysLinked`,
  `HistoryAlwaysEnds`, `SnapshotsComeFromCanon`, `LedgerNeverRewrites`,
  `ReplayNeverDrifts`. That the fact to be superseded has no heir yet follows from
  its status only through the links. That following heirs ends rests on `FactsAged`:
  facts can be given ages that grow along supersession, since an heir is always a
  new row; so no fact is met twice, and a chain cannot be longer than the table.
  The action properties follow from the invariant and one lemma on `Put`: rows
  are only added or replaced.
* `CanonProofs` on `CanonPipeline`: the same five properties with the approval loop
  beside the Canon API, and `RunsAlwaysAgree`, `VerdictAlwaysRestsOnRun`,
  `SubmittedAlwaysBacked` (a submitted candidate has a fact that says the same),
  `CanonMovesWithSubmit`. `PipelineInv` adds `HeldOnce` (no
  two runs that are not over hold the same candidate: otherwise cancelling one
  would release what the other still holds) and `ApprovedHasVerdict`.
* `CanonThreadsProofs`: seven theorems. Three hold under no hypothesis, the others
  under those without which TLC refutes them (on two predicates, for a named target).
  * For any number of threads and any crash: `ThreadsTypeCorrect`,
    `WhatIsWrittenWasApproved` and `WhatIsSubmittedIsWritten`. `ThreadsInv` adds that
    rows in hand exist. `ApprovalInv` adds that whoever is at a step of submit had read
    an approved candidate, and that an approval, once given, has been given: what a
    second thread does between that read and the writes cannot matter.
    `WrittenInv` says what a submit has written at each of its later steps, that two
    replacements under way have different ids, and that no step of any thread takes
    a fact out of Canon except to supersede it, or revives a superseded one.
  * For one thread (`OneThread`), which may be killed, and no named target
    (`Asked = {}`): `OneTruthAtATime`. `TruthInv` adds what a submit knows of the
    facts in effect between choosing a target and activating the new fact. A kill
    in between leaves no truth, never two.
  * For one thread that is not killed (`~Crashes`): `RejectedStaysOut` and
    `NoneStranded`. `LoneInv` says that what the request has read is still so
    (`Alone`), that a fact is written for a submitted candidate or by the submit
    at work (`Accounted`), and who holds each candidate in validation (`Held`).
  * Under the same hypotheses `RequestsAreHandlers`, the refinement: every
    behaviour of `AtomicitySpec` is one of `CanonPipeline` on the settled tables.
    `FlightInv` says, for each step of each request, how far it has taken the
    tables from those it found (`Triggered`, `Ended`, `Cancelled`, `Resolved`,
    `Chosen`). The step that ends the request then has in hand the witnesses of
    the abstract handler: the batch and its snapshot, the outcome, the entity, the
    fact superseded. Every other step leaves the settled tables alone.
* `JobQueueProofs`: `QueueTypeCorrect`, `LocksAlwaysMatch`, `AttemptsAlwaysBounded`,
  `LiveAttemptsExclude`, `SettledRecordsStay`, with any number of workers between
  their reclaim and their claim. `QueueInv` adds that an attempt being
  dispatched is never ahead of the attempts of its job, that no two workers
  dispatch the same attempt, and that a write job has a scene. The first is what
  makes a live attempt unique: a claim raises the counter above every attempt in
  flight. A claim that takes over an expired lock leaves a running job without one;
  that job has timed out, so its attempt is no longer live.
* `DagProofs` on `SceneDag`, with the hypothesis that requests on the DAG are served
  one at a time (`~Overlap`, as in the run; without it they do not hold):
  `DagTypeCorrect`, `SuccessStaysInOrder`, `CommitFollowsApproval`,
  `CommitIsComplete`, `BlockedStops`. `DagInv` says what a node under way rests on,
  and, for every step of a request, what the request may still rely on there.
* `DagProofs` on `Scheduler`: `SchedTypeCorrect` and `DependentsAreHeld` for any number
  of ticking threads; `OneDagForScene` and `LimitsAreKept` with the hypothesis that
  one thread ticks (`OneTicker`, as in the run: nothing keeps two ticks from giving
  a run the same scene). `SchedInv` says that the DAG a request has in hand is for
  the next scene of its plan and is nobody's yet, so that none is charged twice.
  `AloneInv` adds that a plan goes on to fit its run: other scenes, each once, with
  a slot for each, and within the budget unless the run was cancelled. The planner
  is a recursion over the story; `PlanIsGood` is proved by induction on its length,
  `DirectlyFollows` likewise for the ancestors of a scene.
* `DeskProofs` on `Authoring`: `AuthoringTypeCorrect`, `LineagesStaySound`,
  `ForceIsNeverEdited`, `ForceJudgesStyle`. `RevsInv` adds that a lineage is of one
  kind, that a replaced text names one that has been in force, and that a style
  lineage has one draft.
* `DeskProofs` on `SceneCards`: `CardsTypeCorrect`, `StoryAlwaysOrdered`. A card that
  is saved has passed the checks on the whole story, so `CardsInv` only adds the
  types. A card that is made anew over an existing one has no dependencies, and with
  fewer dependencies less is reached, so no cycle closes.
* `WritingProofs`: `WritingTypeCorrect`, `OneIsCurrent`, `KeysPayOnce`,
  `SourcesShareAMoment`, `SupersededStays`. `WritingInv` says of drafts, summaries
  and chapter digests what the newest of each is made from, of a job what it
  may still write, and that only the newest row of a scene counts.
* `ReviewRepairProofs`: `ReviewTypeCorrect`, `FailedNeverApproved`,
  `RepairsEndInVerdicts`, `QueueAlwaysMatches`, under the assumption that the subject
  of an item that is not a candidate has no candidate's id. The invariant adds
  that a run only moves candidates forward, that a reject stands, and that a
  subject has one open item.
* `ReleaseProofs`: `ReleaseTypeCorrect`, `OnlyApprovedIsReleased`,
  `OutcomesStay`. The invariant adds that what a check has read was approved
  when it was read and that approval is not taken back, that a failed gate blocks,
  and that the outcome is the last thing the thread of a check writes.

Left to TLC alone:

* liveness (`EveryJobSettles`), which is out of the prover's reach;
* the two violations, and the properties the code does not keep.

## 5. What is not modelled

* **Experiments and evaluations, audit, the HTTP layer, migrations, demo data and
  the front end**: records of their own, wiring, or a client. None of them
  decides what the modelled components do; what matters of the HTTP layer, its
  thread pool, is in `CanonThreads` and in every step during which a request waits.
* **Agents and permissions**: a fixed table without state. The modelled handlers
  are past their guard.
* **Text**: prompts, schemas and their validation, style rules, digests of
  contents. Where the outcome decides something it is a free choice.
* **The gateway beyond its retries**: waiting times, redaction, the provider.
* **The file of the book**: what a restart finds is modelled (`Crash`); its format,
  the check for secrets and two flushes that meet are not.
* **Inside a step**: `claim_one` (from its look at the queue to the lock) and
  enqueueing in `JobQueue`, and the handlers of `Authoring`, `SceneCards`, `Writing`
  and `ReviewRepair` that wait for nothing are one step each. `CanonThreads` shows
  what threads without a lock do to handlers of that form.

The reasons are listed per component in `PROJECT.json`.

## 6. Plan

1. `JobThreads`: claim and enqueue read by read, to be compared with `JobQueue` as
   `CanonThreads` is with `CanonPipeline`.
2. `BookStore`: flush, rename and load, with two flushes at a time.
