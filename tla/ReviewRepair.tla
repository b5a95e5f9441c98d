---------------------------- MODULE ReviewRepair ----------------------------
(***************************************************************************)
(* What surrounds the candidates of one scene: the review queue in which   *)
(* the editor decides on them (review_queue/service.py) and the repair     *)
(* tasks opened for what failed validation (repair/service.py).            *)
(*                                                                         *)
(* A candidate is its status, and a validation or an approval is one step: *)
(* CanonPipeline has what they do to Canon, Writing the jobs a repair      *)
(* runs.  A repair waits for those jobs, so others act meanwhile; every    *)
(* other request is one step.  No request makes a task Rework.             *)
(*                                                                         *)
(* An operator named X_Y is a mutant of X that the properties catch.       *)
(***************************************************************************)
EXTENDS Naturals, SequencesExt

CONSTANTS
  Candidate,
  MaxRuns,    \* bounds of the model: validation runs,
  MaxTasks,   \* repair tasks
  MaxItems    \* and items of the queue

\* Plans, drafts, reports, tasks and style reports are decided on the item alone.
Other == "other"

ASSUME ReviewAssumption ==
  /\ {MaxRuns, MaxTasks, MaxItems} \subseteq Nat
  /\ Other \notin Candidate

VARIABLES
  status,   \* candidate -> its status, "none" before it is extracted
  verdicts, \* validation runs that have ended, oldest first
  tasks,    \* repair tasks, oldest first
  items     \* items of the review queue, oldest first

reviewVars == <<status, verdicts, tasks, items>>

-----------------------------------------------------------------------------
(* Records *)

CandStatus == {"none", "Extracted", "FailedValidation", "Failed", "AwaitingVerdict",
               "Approved", "Rejected", "Submitted"}

Outcome == {"Passed", "RuleFailed", "ExecFailed"}

Repair == {"ReviseScenePlan", "Regenerate", "Reextract"}
Action == Repair \cup {"HumanReject"}

TaskState == {"Opened", "InProgress", "Completed", "RecheckPassed", "Failed", "Cancelled"}

\* busy: its jobs are running.  rechecked: the candidates of its recheck.
Task ==
  [action: Action, state: TaskState, on: SUBSET Candidate, produced: SUBSET Candidate,
   rejected: SUBSET Candidate, rechecked: SUBSET Candidate, busy: BOOLEAN]

ItemStatus == {"Opened", "Escalated", "Approved", "Rejected", "RevisionRequested",
               "Failed", "Cancelled"}
Open == {"Opened", "Escalated"}

ReviewTypeOK ==
  /\ status \in [Candidate -> CandStatus]
  /\ verdicts \in Seq([cands: SUBSET Candidate, outcome: Outcome])
  /\ tasks \in Seq(Task)
  /\ items \in Seq([subject: Candidate \cup {Other}, status: ItemStatus])
  /\ \A t \in DOMAIN tasks : \A c \in tasks[t].on \cup tasks[t].produced : status[c] # "none"

ReviewInit ==
  /\ status = [c \in Candidate |-> "none"]
  /\ verdicts = <<>>
  /\ tasks = <<>>
  /\ items = <<>>

-----------------------------------------------------------------------------
(* Candidates: extraction, validation, verdicts *)

With(S, st) == [c \in Candidate |-> IF c \in S THEN st ELSE status[c]]

In(st) == {c \in Candidate : status[c] = st}

Extract(S) ==
  /\ S # {} /\ S \subseteq In("none")
  /\ status' = With(S, "Extracted")
  /\ UNCHANGED <<verdicts, tasks, items>>

StatusAfter(outcome) ==
  CASE outcome = "Passed" -> "AwaitingVerdict"
    [] outcome = "RuleFailed" -> "FailedValidation"
    [] outcome = "ExecFailed" -> "Failed"

\* As if a candidate that failed could be validated once more.
Validatable_Again(S) == S # {} /\ S \subseteq In("Extracted") \cup In("FailedValidation")

Validatable(S) == S # {} /\ S \subseteq In("Extracted")

RunRules(S, outcome) ==
  /\ Len(verdicts) < MaxRuns
  /\ status' = With(S, StatusAfter(outcome))
  /\ verdicts' = Append(verdicts, [cands |-> S, outcome |-> outcome])

Validate(S, outcome) ==
  /\ Validatable(S)
  /\ RunRules(S, outcome)
  /\ UNCHANGED <<tasks, items>>

Approve(c) == status[c] = "AwaitingVerdict" /\ status' = With({c}, "Approved")

Reject(c) == status[c] \in {"AwaitingVerdict", "Approved"} /\ status' = With({c}, "Rejected")

Submit(c) == status[c] = "Approved" /\ status' = With({c}, "Submitted")

Candidates ==
  \/ \E S \in SUBSET Candidate :
       Extract(S) \/ \E outcome \in Outcome : Validate(S, outcome)
  \/ /\ \E c \in Candidate : Approve(c) \/ Reject(c) \/ Submit(c)
     /\ UNCHANGED <<verdicts, tasks, items>>

-----------------------------------------------------------------------------
(* Repair tasks *)

RuleFailed(v) == verdicts[v].outcome = "RuleFailed"

OpenTask(v, action) ==
  /\ RuleFailed(v)
  /\ Len(tasks) < MaxTasks
  /\ tasks' = Append(tasks,
       [action |-> action, state |-> "Opened", on |-> verdicts[v].cands,
        produced |-> {}, rejected |-> {}, rechecked |-> {}, busy |-> FALSE])
  /\ UNCHANGED <<status, verdicts, items>>

SetState(t, state) == tasks' = [tasks EXCEPT ![t].state = state]

\* The jobs are run before the request returns.
StartRepair(t) ==
  /\ tasks[t].state = "Opened"
  /\ tasks[t].action \in Repair
  /\ tasks' = [tasks EXCEPT ![t].state = "InProgress", ![t].busy = TRUE]
  /\ UNCHANGED <<status, verdicts, items>>

Targets(t) == tasks[t].on \cap In("FailedValidation")

StartHumanReject(t) ==
  /\ tasks[t].state = "Opened"
  /\ tasks[t].action = "HumanReject"
  /\ \/ /\ Targets(t) = {}
        /\ SetState(t, "Failed")
        /\ UNCHANGED status
     \/ /\ Targets(t) # {}
        /\ status' = With(Targets(t), "Rejected")
        /\ tasks' = [tasks EXCEPT ![t].state = "InProgress", ![t].rejected = Targets(t)]
  /\ UNCHANGED <<verdicts, items>>

\* The last job extracts S, which may be nothing.  The state of the task is left
\* as it is by then.
JobsSucceed(t, S) ==
  /\ tasks[t].busy
  /\ S \subseteq In("none")
  /\ status' = With(S, "Extracted")
  /\ tasks' = [tasks EXCEPT ![t].produced = S, ![t].busy = FALSE]
  /\ UNCHANGED <<verdicts, items>>

\* A job fails, and so does the task, whatever has become of it by then.
JobsFail(t) ==
  /\ tasks[t].busy
  /\ tasks' = [tasks EXCEPT ![t].state = "Failed", ![t].busy = FALSE]
  /\ UNCHANGED <<status, verdicts, items>>

\* An exception that no service raises: nobody ends the task any more.
JobsDie(t) ==
  /\ tasks[t].busy
  /\ tasks' = [tasks EXCEPT ![t].busy = FALSE]
  /\ UNCHANGED <<status, verdicts, items>>

\* What the repair has extracted or, if that is nothing, all that is extracted.
Rechecked(t) ==
  IF tasks[t].produced # {} THEN tasks[t].produced ELSE In("Extracted")

\* As if validation could be left to a later request.
CompleteRepair_Later(t, outcome) ==
  /\ tasks[t].state = "InProgress"
  /\ tasks[t].action \in Repair
  /\ outcome \in Outcome
  /\ SetState(t, "Completed")
  /\ UNCHANGED <<status, verdicts, items>>

\* Whether the jobs have ended is not looked at.  The recheck follows at once, and
\* is refused if a candidate is no longer, or none is, extracted.
CompleteRepair(t, outcome) ==
  /\ tasks[t].state = "InProgress"
  /\ tasks[t].action \in Repair
  /\ \/ /\ ~Validatable(Rechecked(t))
        /\ SetState(t, "Failed")
        /\ UNCHANGED <<status, verdicts>>
     \/ /\ Validatable(Rechecked(t))
        /\ RunRules(Rechecked(t), outcome)
        /\ tasks' = [tasks EXCEPT
             ![t].state = IF outcome = "Passed" THEN "RecheckPassed" ELSE "Failed",
             ![t].rechecked = Rechecked(t)]
  /\ UNCHANGED items

CompleteHumanReject(t) ==
  /\ tasks[t].state = "InProgress"
  /\ tasks[t].action = "HumanReject"
  /\ SetState(t, "Completed")
  /\ UNCHANGED <<status, verdicts, items>>

CancelTask(t) ==
  /\ tasks[t].state \in {"Opened", "InProgress", "Completed", "Failed"}
  /\ SetState(t, "Cancelled")
  /\ UNCHANGED <<status, verdicts, items>>

Repairs ==
  \/ \E v \in DOMAIN verdicts, action \in Action : OpenTask(v, action)
  \/ \E t \in DOMAIN tasks :
       \/ StartRepair(t) \/ StartHumanReject(t)
       \/ \E S \in SUBSET Candidate : JobsSucceed(t, S)
       \/ JobsFail(t) \/ JobsDie(t)
       \/ \E outcome \in Outcome : CompleteRepair(t, outcome)
       \/ CompleteHumanReject(t)
       \/ CancelTask(t)

-----------------------------------------------------------------------------
(* Review queue *)

OpenItems(subject) ==
  {i \in DOMAIN items : items[i].subject = subject /\ items[i].status \in Open}

SetItem(i, st) == items' = [items EXCEPT ![i].status = st]

\* An open item of the subject is returned instead of a new one.
Enqueue(subject) ==
  /\ subject \in Candidate => status[subject] # "none"
  /\ OpenItems(subject) = {}
  /\ Len(items) < MaxItems
  /\ items' = Append(items, [subject |-> subject, status |-> "Opened"])
  /\ UNCHANGED status

\* As if the refusal of the approval were not passed on.
ApplyApprove_Swallowed(c) ==
  \/ Approve(c)
  \/ status[c] # "AwaitingVerdict" /\ UNCHANGED status

\* A candidate approved already is left alone, any other is refused.
ApplyApprove(c) ==
  \/ Approve(c)
  \/ status[c] = "Approved" /\ UNCHANGED status

\* A candidate that awaits no verdict, and has none to take back, is left alone.
ApplyReject(c) ==
  \/ Reject(c)
  \/ status[c] \notin {"AwaitingVerdict", "Approved"} /\ UNCHANGED status

DecideApprove(i) ==
  /\ items[i].status \in Open
  /\ \/ items[i].subject \in Candidate /\ ApplyApprove(items[i].subject)
     \/ items[i].subject = Other /\ UNCHANGED status
  /\ SetItem(i, "Approved")

DecideReject(i) ==
  /\ items[i].status \in Open
  /\ \/ items[i].subject \in Candidate /\ ApplyReject(items[i].subject)
     \/ items[i].subject = Other /\ UNCHANGED status
  /\ SetItem(i, "Rejected")

RequestRevision(i) ==
  items[i].status \in Open /\ SetItem(i, "RevisionRequested") /\ UNCHANGED status

Escalate(i) == items[i].status = "Opened" /\ SetItem(i, "Escalated") /\ UNCHANGED status

CancelItem(i) == items[i].status \in Open /\ SetItem(i, "Cancelled") /\ UNCHANGED status

MarkFailed(i) == items[i].status \in Open /\ SetItem(i, "Failed") /\ UNCHANGED status

Queue ==
  /\ \/ \E subject \in Candidate \cup {Other} : Enqueue(subject)
     \/ \E i \in DOMAIN items :
          \/ DecideApprove(i) \/ DecideReject(i) \/ RequestRevision(i)
          \/ Escalate(i) \/ CancelItem(i) \/ MarkFailed(i)
  /\ UNCHANGED <<verdicts, tasks>>

-----------------------------------------------------------------------------

ReviewNext == Candidates \/ Repairs \/ Queue

ReviewSpec == ReviewInit /\ [][ReviewNext]_reviewVars

-----------------------------------------------------------------------------
(* Properties *)

\* What failed the rules stays out of Canon for good: neither a repair, nor its
\* recheck, which takes whatever is extracted when the repair made nothing, nor
\* a decision in the queue lets a candidate of a failed run be approved.
FailedStaysOut ==
  \A v \in DOMAIN verdicts : RuleFailed(v) =>
    \A c \in verdicts[v].cands : status[c] \in {"FailedValidation", "Rejected"}

\* A repair that is over has left its candidates with the editor: one that passed
\* its recheck rechecked something, all of which passed and waits for a verdict
\* or has one, and one completed without a recheck rejected what had failed.
RepairEndsInVerdict ==
  \A t \in DOMAIN tasks :
    /\ tasks[t].state = "RecheckPassed" =>
         /\ tasks[t].rechecked # {}
         /\ \A c \in tasks[t].rechecked :
              status[c] \in {"AwaitingVerdict", "Approved", "Rejected", "Submitted"}
    /\ tasks[t].state = "Completed" =>
         tasks[t].rejected # {} /\ tasks[t].rejected \subseteq In("Rejected")

\* The queue tells what was decided: an item marked approved stands for a
\* candidate that was approved, though it may have been rejected or submitted
\* since, and nobody decides on one subject in two open items.
QueueMatchesVerdicts ==
  /\ \A i \in DOMAIN items : items[i].subject \in Candidate /\ items[i].status = "Approved" =>
       status[items[i].subject] \in {"Approved", "Rejected", "Submitted"}
  /\ \A subject \in Candidate \cup {Other} : Cardinality(OpenItems(subject)) <= 1
=============================================================================
