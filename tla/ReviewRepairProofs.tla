-------------------------- MODULE ReviewRepairProofs --------------------------
(***************************************************************************)
(* What holds of any number of candidates, runs, repair tasks and items of *)
(* the review queue.  The heart of it is that a candidate only ever moves  *)
(* forward (Moves); what a run, a task or an item says of a candidate is   *)
(* true of all that it may become.                                         *)
(***************************************************************************)
EXTENDS ReviewRepair, FiniteSetTheorems, SequenceTheorems, TLAPS

-----------------------------------------------------------------------------
(* The inductive invariant *)

\* A task that has rejected candidates and waits to be completed.
RejectsStand ==
  \A t \in DOMAIN tasks :
    tasks[t].action = "HumanReject" /\ tasks[t].state = "InProgress" =>
      tasks[t].rejected # {} /\ tasks[t].rejected \subseteq In("Rejected")

\* Two open items are never about the same subject.
OneOpenEach ==
  \A i, j \in DOMAIN items :
    /\ items[i].status \in Open /\ items[j].status \in Open
    /\ items[i].subject = items[j].subject
    => i = j

ApprovedItemsStand ==
  \A i \in DOMAIN items : items[i].subject \in Candidate /\ items[i].status = "Approved" =>
    status[items[i].subject] \in {"Approved", "Rejected", "Submitted"}

ReviewInv ==
  /\ ReviewTypeOK
  /\ FailedStaysOut
  /\ RepairEndsInVerdict
  /\ RejectsStand
  /\ ApprovedItemsStand
  /\ OneOpenEach

-----------------------------------------------------------------------------
(* Lists of rows *)

LEMMA RowOf ==
  ASSUME NEW T, NEW rows \in Seq(T), NEW i \in DOMAIN rows
  PROVE  rows[i] \in T
  BY LenProperties, ElementOfSeq

LEMMA AppendRow ==
  ASSUME NEW T, NEW rows \in Seq(T), NEW row \in T
  PROVE  /\ Append(rows, row) \in Seq(T)
         /\ DOMAIN Append(rows, row) = DOMAIN rows \cup {Len(rows) + 1}
         /\ Len(rows) + 1 \notin DOMAIN rows
         /\ Append(rows, row)[Len(rows) + 1] = row
         /\ \A i \in DOMAIN rows : Append(rows, row)[i] = rows[i]
<1>1. Len(rows) \in Nat /\ DOMAIN rows = 1 .. Len(rows)
  BY LenProperties
<1>2. /\ Append(rows, row) \in Seq(T)
      /\ Len(Append(rows, row)) = Len(rows) + 1
      /\ Append(rows, row)[Len(rows) + 1] = row
      /\ \A i \in 1 .. Len(rows) : Append(rows, row)[i] = rows[i]
  BY AppendProperties
<1>3. DOMAIN Append(rows, row) = 1 .. Len(rows) + 1
  BY <1>2, LenProperties
<1> QED BY <1>1, <1>2, <1>3

LEMMA SetRow ==
  ASSUME NEW T, NEW rows \in Seq(T), NEW i \in DOMAIN rows, NEW row \in T
  PROVE  /\ [rows EXCEPT ![i] = row] \in Seq(T)
         /\ DOMAIN [rows EXCEPT ![i] = row] = DOMAIN rows
         /\ [rows EXCEPT ![i] = row][i] = row
         /\ \A j \in DOMAIN rows : j # i => [rows EXCEPT ![i] = row][j] = rows[j]
<1>1. DOMAIN rows = 1 .. Len(rows)
  BY LenProperties
<1> QED BY <1>1, ExceptSeq

-----------------------------------------------------------------------------
(* Candidates move forward *)

\* The steps a candidate may take.
Moves ==
  ({"none"} \X {"Extracted"})
    \cup ({"Extracted"} \X {"AwaitingVerdict", "FailedValidation", "Failed"})
    \cup ({"AwaitingVerdict"} \X {"Approved", "Rejected"})
    \cup ({"Approved"} \X {"Rejected", "Submitted"})
    \cup ({"FailedValidation"} \X {"Rejected"})

Forward ==
  /\ status' \in [Candidate -> CandStatus]
  /\ \A c \in Candidate : status'[c] = status[c] \/ <<status[c], status'[c]>> \in Moves

LEMMA WithType ==
  ASSUME status \in [Candidate -> CandStatus], NEW S, NEW st \in CandStatus
  PROVE  /\ With(S, st) \in [Candidate -> CandStatus]
         /\ \A c \in Candidate : /\ c \in S => With(S, st)[c] = st
                                 /\ c \notin S => With(S, st)[c] = status[c]
  BY DEF With

LEMMA StatusAfterType ==
  ASSUME NEW outcome \in Outcome
  PROVE  /\ StatusAfter(outcome) \in {"AwaitingVerdict", "FailedValidation", "Failed"}
         /\ outcome = "Passed" => StatusAfter(outcome) = "AwaitingVerdict"
         /\ outcome = "RuleFailed" => StatusAfter(outcome) = "FailedValidation"
  BY DEF Outcome, StatusAfter

\* Every handler that writes statuses moves candidates along Moves.
LEMMA WithForward ==
  ASSUME ReviewTypeOK, NEW S, NEW st \in CandStatus, status' = With(S, st),
         \A c \in S \cap Candidate : <<status[c], st>> \in Moves
  PROVE  Forward
  BY WithType DEF ReviewTypeOK, Forward

LEMMA VerdictForward ==
  ASSUME ReviewTypeOK, NEW c \in Candidate, Approve(c) \/ Reject(c) \/ Submit(c)
  PROVE  Forward
<1>1. PICK st \in {"Approved", "Rejected", "Submitted"} :
        status' = With({c}, st) /\ <<status[c], st>> \in Moves
  BY DEF Approve, Reject, Submit, Moves
<1> QED BY <1>1, WithForward DEF CandStatus

LEMMA RunForward ==
  ASSUME ReviewTypeOK, NEW S, NEW outcome \in Outcome, Validatable(S), RunRules(S, outcome)
  PROVE  Forward
<1>1. status' = With(S, StatusAfter(outcome)) /\ \A c \in S : status[c] = "Extracted"
  BY DEF RunRules, Validatable, In
<1>2. StatusAfter(outcome) \in {"AwaitingVerdict", "FailedValidation", "Failed"}
  BY StatusAfterType
<1> QED BY <1>1, <1>2, WithForward DEF CandStatus, Moves

LEMMA StepForward ==
  ASSUME ReviewTypeOK, ReviewNext
  PROVE  Forward
<1>1. CASE UNCHANGED status
  BY <1>1 DEF ReviewTypeOK, Forward
<1>2. ASSUME NEW S \in SUBSET Candidate, S \subseteq In("none"), status' = With(S, "Extracted")
      PROVE  Forward
  BY <1>2, WithForward DEF CandStatus, Moves, In
<1>3. ASSUME NEW S, NEW outcome \in Outcome, Validatable(S), RunRules(S, outcome)
      PROVE  Forward
  BY <1>3, RunForward
<1>4. ASSUME NEW c \in Candidate, Approve(c) \/ Reject(c) \/ Submit(c)
      PROVE  Forward
  BY <1>4, VerdictForward
<1>5. CASE Candidates
  BY <1>1, <1>2, <1>3, <1>4, <1>5 DEF Candidates, Extract, Validate
<1>6. ASSUME NEW t \in DOMAIN tasks, StartHumanReject(t)
      PROVE  Forward
  <2>1. ASSUME status' = With(Targets(t), "Rejected")
        PROVE  Forward
    BY <2>1, WithForward DEF CandStatus, Moves, Targets, In
  <2> QED BY <1>1, <1>6, <2>1 DEF StartHumanReject
<1>7. ASSUME NEW t \in DOMAIN tasks, NEW outcome \in Outcome, CompleteRepair(t, outcome)
      PROVE  Forward
  BY <1>1, <1>3, <1>7 DEF CompleteRepair
<1>8. CASE Repairs
  BY <1>1, <1>2, <1>6, <1>7, <1>8
     DEF Repairs, OpenTask, StartRepair, JobsSucceed, JobsFail, JobsDie, CompleteHumanReject,
         CancelTask
<1>9. CASE Queue
  BY <1>1, <1>4, <1>9
     DEF Queue, Enqueue, DecideApprove, DecideReject, ApplyApprove, ApplyReject,
         RequestRevision, Escalate, CancelItem, MarkFailed
<1> QED BY <1>5, <1>8, <1>9 DEF ReviewNext

\* What may be said of a candidate for good.
LEMMA ForGood ==
  ASSUME Forward, NEW c \in Candidate
  PROVE  /\ status[c] # "none" => status'[c] # "none"
         /\ status[c] \in {"FailedValidation", "Rejected"}
              => status'[c] \in {"FailedValidation", "Rejected"}
         /\ status[c] = "Rejected" => status'[c] = "Rejected"
         /\ status[c] \in {"AwaitingVerdict", "Approved", "Rejected", "Submitted"}
              => status'[c] \in {"AwaitingVerdict", "Approved", "Rejected", "Submitted"}
         /\ status[c] \in {"Approved", "Rejected", "Submitted"}
              => status'[c] \in {"Approved", "Rejected", "Submitted"}
  BY DEF Forward, Moves

-----------------------------------------------------------------------------
(* Validation runs *)

RunRow == [cands: SUBSET Candidate, outcome: Outcome]

\* A step ends one run at most, over candidates that were extracted.
RunEnds(S, outcome) ==
  /\ S \subseteq In("Extracted")
  /\ verdicts' = Append(verdicts, [cands |-> S, outcome |-> outcome])
  /\ status' = With(S, StatusAfter(outcome))

LEMMA VerdictsStep ==
  ASSUME ReviewNext
  PROVE  \/ UNCHANGED verdicts
         \/ \E S \in SUBSET Candidate, outcome \in Outcome : RunEnds(S, outcome)
<1>1. \A S, outcome : Validatable(S) /\ RunRules(S, outcome) =>
        S \in SUBSET Candidate /\ RunEnds(S, outcome)
  BY DEF Validatable, RunRules, RunEnds, In
<1>2. CASE Candidates
  BY <1>1, <1>2 DEF Candidates, Extract, Validate
<1>3. CASE Repairs
  BY <1>1, <1>3
     DEF Repairs, OpenTask, StartRepair, StartHumanReject, JobsSucceed, JobsFail, JobsDie,
         CompleteRepair, CompleteHumanReject, CancelTask
<1>4. CASE Queue
  BY <1>4 DEF Queue
<1> QED BY <1>2, <1>3, <1>4 DEF ReviewNext

LEMMA VerdictsStepInv ==
  ASSUME ReviewTypeOK, FailedStaysOut, Forward, ReviewNext
  PROVE  FailedStaysOut' /\ verdicts' \in Seq(RunRow)
<1>1. verdicts \in Seq(RunRow)
  BY DEF ReviewTypeOK, RunRow
<1>2. ASSUME NEW v \in DOMAIN verdicts, RuleFailed(v), NEW c \in verdicts[v].cands
      PROVE  status'[c] \in {"FailedValidation", "Rejected"}
  <2>1. verdicts[v] \in RunRow
    BY <1>1, RowOf
  <2>2. c \in Candidate
    BY <2>1 DEF RunRow
  <2> QED BY <1>2, <2>2, ForGood DEF FailedStaysOut
<1>3. CASE UNCHANGED verdicts
  BY <1>1, <1>2, <1>3 DEF FailedStaysOut, RuleFailed
<1>4. ASSUME NEW S \in SUBSET Candidate, NEW outcome \in Outcome, RunEnds(S, outcome)
      PROVE  FailedStaysOut' /\ verdicts' \in Seq(RunRow)
  <2> DEFINE row == [cands |-> S, outcome |-> outcome]
  <2>1. row \in RunRow /\ row.cands = S /\ row.outcome = outcome
    BY DEF RunRow
  <2>2. verdicts' = Append(verdicts, row)
    BY <1>4 DEF RunEnds
  <2> HIDE DEF row
  <2>3. /\ verdicts' \in Seq(RunRow)
        /\ DOMAIN verdicts' = DOMAIN verdicts \cup {Len(verdicts) + 1}
        /\ verdicts'[Len(verdicts) + 1] = row
        /\ \A v \in DOMAIN verdicts : verdicts'[v] = verdicts[v]
    BY <1>1, <2>1, <2>2, AppendRow
  <2>4. ASSUME outcome = "RuleFailed", NEW c \in S
        PROVE  status'[c] \in {"FailedValidation", "Rejected"}
    BY <1>4, <2>4, WithType, StatusAfterType DEF RunEnds, ReviewTypeOK, CandStatus
  <2> QED BY <1>2, <2>1, <2>3, <2>4 DEF FailedStaysOut, RuleFailed
<1> QED BY <1>3, <1>4, VerdictsStep

-----------------------------------------------------------------------------
(* Repair tasks *)

\* What is said of one task: what it names has been extracted, and its end, or
\* the rejection it waits to complete, is one that its candidates bear out.
TaskStands(row) ==
  /\ \A c \in row.on \cup row.produced : status[c] # "none"
  /\ row.state = "RecheckPassed" =>
       /\ row.rechecked # {}
       /\ \A c \in row.rechecked :
            status[c] \in {"AwaitingVerdict", "Approved", "Rejected", "Submitted"}
  /\ row.state = "Completed" => row.rejected # {} /\ row.rejected \subseteq In("Rejected")
  /\ row.action = "HumanReject" /\ row.state = "InProgress" =>
       row.rejected # {} /\ row.rejected \subseteq In("Rejected")

TasksStand == \A t \in DOMAIN tasks : TaskStands(tasks[t])

LEMMA TasksStandEach ==
  ASSUME ReviewTypeOK
  PROVE  TasksStand <=> RepairEndsInVerdict /\ RejectsStand
  BY DEF ReviewTypeOK, TasksStand, TaskStands, RepairEndsInVerdict, RejectsStand

\* No step of a candidate undoes what a task says.
LEMMA TaskStaysTrue ==
  ASSUME Forward, NEW row \in Task, TaskStands(row)
  PROVE  TaskStands(row)'
  BY ForGood DEF TaskStands, In, Task

LEMMA UntouchedTask ==
  ASSUME tasks \in Seq(Task), TasksStand, Forward, NEW t \in DOMAIN tasks, tasks'[t] = tasks[t]
  PROVE  TaskStands(tasks[t])'
<1> DEFINE row == tasks[t]
<1>1. row \in Task /\ TaskStands(row)
  BY RowOf DEF TasksStand
<1>2. ASSUME NEW r \in Task, TaskStands(r)
      PROVE  TaskStands(r)'
  BY <1>2, TaskStaysTrue
<1>3. PICK r \in Task : r = row /\ TaskStands(r)
  BY <1>1
<1>4. TaskStands(r)' /\ tasks'[t] = r
  BY <1>2, <1>3
<1> QED BY <1>4 DEF TaskStands

LEMMA OneTaskSet ==
  ASSUME tasks \in Seq(Task), TasksStand, Forward, NEW t \in DOMAIN tasks, NEW row \in Task,
         tasks' = [tasks EXCEPT ![t] = row], TaskStands(row)'
  PROVE  tasks' \in Seq(Task) /\ TasksStand'
<1>1. /\ tasks' \in Seq(Task)
      /\ DOMAIN tasks' = DOMAIN tasks
      /\ tasks'[t] = row
      /\ \A u \in DOMAIN tasks : u # t => tasks'[u] = tasks[u]
  BY SetRow
<1>2. ASSUME NEW u \in DOMAIN tasks
      PROVE  TaskStands(tasks[u])'
  <2>1. CASE u = t
    BY <1>1, <2>1 DEF TaskStands
  <2>2. CASE u # t
    BY <1>1, <2>2, UntouchedTask
  <2> QED BY <2>1, <2>2
<1> QED BY <1>1, <1>2 DEF TasksStand

LEMMA TasksUntouched ==
  ASSUME tasks \in Seq(Task), TasksStand, Forward, UNCHANGED tasks
  PROVE  tasks' \in Seq(Task) /\ TasksStand'
<1>1. ASSUME NEW t \in DOMAIN tasks
      PROVE  TaskStands(tasks[t])'
  BY UntouchedTask
<1> QED BY <1>1 DEF TasksStand

LEMMA OpenTaskStands ==
  ASSUME ReviewTypeOK, TasksStand, Forward, FailedStaysOut,
         NEW v \in DOMAIN verdicts, NEW action \in Action, OpenTask(v, action)
  PROVE  tasks' \in Seq(Task) /\ TasksStand'
<1> DEFINE row == [action |-> action, state |-> "Opened", on |-> verdicts[v].cands,
                   produced |-> {}, rejected |-> {}, rechecked |-> {}, busy |-> FALSE]
<1>1. verdicts[v] \in RunRow /\ tasks \in Seq(Task)
  BY RowOf DEF ReviewTypeOK, RunRow
<1>2. row \in Task
  BY <1>1 DEF RunRow, Task, TaskState
<1>3. \A c \in row.on \cup row.produced : status[c] # "none"
  BY DEF OpenTask, FailedStaysOut
<1>4. row.state = "Opened"
  OBVIOUS
<1>5. tasks' = Append(tasks, row) /\ UNCHANGED status
  BY DEF OpenTask
<1> HIDE DEF row
<1>6. PICK r \in Task : r = row
  BY <1>2
<1>7. TaskStands(r)'
  BY <1>3, <1>4, <1>5, <1>6 DEF TaskStands
<1>8. /\ tasks' \in Seq(Task)
      /\ DOMAIN tasks' = DOMAIN tasks \cup {Len(tasks) + 1}
      /\ tasks'[Len(tasks) + 1] = r
      /\ \A t \in DOMAIN tasks : tasks'[t] = tasks[t]
  BY <1>1, <1>5, <1>6, AppendRow
<1>9. \A t \in DOMAIN tasks : TaskStands(tasks[t])'
  BY <1>1, <1>8, UntouchedTask
<1> QED BY <1>7, <1>8, <1>9 DEF TasksStand, TaskStands

\* A task that is under way, failed or cancelled, and is no rejection that waits.
LEMMA RestatedTask ==
  ASSUME ReviewTypeOK, TasksStand, Forward, NEW t \in DOMAIN tasks,
         NEW state \in {"InProgress", "Failed", "Cancelled"}, NEW busy \in BOOLEAN,
         state = "InProgress" => tasks[t].action \in Repair,
         tasks' = [tasks EXCEPT ![t].state = state, ![t].busy = busy]
  PROVE  tasks' \in Seq(Task) /\ TasksStand'
<1>1. tasks \in Seq(Task) /\ tasks[t] \in Task /\ TaskStands(tasks[t])
  BY RowOf DEF ReviewTypeOK, TasksStand
<1>2. PICK row \in Task : row = [tasks[t] EXCEPT !.state = state, !.busy = busy]
  BY <1>1 DEF Task, TaskState
<1>3. row.state = state /\ row.on = tasks[t].on /\ row.produced = tasks[t].produced
      /\ row.action = tasks[t].action
  BY <1>1, <1>2 DEF Task
<1>4. TaskStands(row)
  BY <1>1, <1>3 DEF TaskStands, Repair
<1>5. TaskStands(row)'
  BY <1>4, TaskStaysTrue
<1>6. tasks' = [tasks EXCEPT ![t] = row]
  BY <1>1, <1>2
<1> QED BY <1>1, <1>5, <1>6, OneTaskSet

LEMMA SetStateIsRestated ==
  ASSUME ReviewTypeOK, NEW t \in DOMAIN tasks, NEW state, SetState(t, state)
  PROVE  tasks' = [tasks EXCEPT ![t].state = state, ![t].busy = tasks[t].busy]
<1>1. tasks \in Seq(Task) /\ tasks[t] \in Task
  BY RowOf DEF ReviewTypeOK
<1>2. [tasks[t] EXCEPT !.state = state]
        = [tasks[t] EXCEPT !.state = state, !.busy = tasks[t].busy]
  BY <1>1 DEF Task
<1> QED BY <1>1, <1>2 DEF SetState

LEMMA HumanRejectStands ==
  ASSUME ReviewTypeOK, TasksStand, Forward, NEW t \in DOMAIN tasks,
         Targets(t) # {}, status' = With(Targets(t), "Rejected"),
         tasks' = [tasks EXCEPT ![t].state = "InProgress", ![t].rejected = Targets(t)]
  PROVE  tasks' \in Seq(Task) /\ TasksStand'
<1>1. tasks \in Seq(Task) /\ tasks[t] \in Task /\ TaskStands(tasks[t])
  BY RowOf DEF ReviewTypeOK, TasksStand
<1>2. Targets(t) \in SUBSET Candidate
  BY <1>1 DEF Targets, In
<1>3. PICK row \in Task :
        row = [tasks[t] EXCEPT !.state = "InProgress", !.rejected = Targets(t)]
  BY <1>1, <1>2 DEF Task, TaskState
<1>4. /\ row.state = "InProgress" /\ row.rejected = Targets(t)
      /\ row.on = tasks[t].on /\ row.produced = tasks[t].produced
  BY <1>1, <1>3 DEF Task
<1>5. \A c \in Targets(t) : status'[c] = "Rejected"
  BY <1>2, WithType DEF ReviewTypeOK, CandStatus
<1>6. \A c \in row.on \cup row.produced : status'[c] # "none"
  BY <1>1, <1>4, ForGood DEF TaskStands, Task
<1>7. row.rejected \subseteq In("Rejected")'
  BY <1>2, <1>4, <1>5 DEF In
<1>8. TaskStands(row)'
  BY <1>4, <1>6, <1>7 DEF TaskStands
<1>9. tasks' = [tasks EXCEPT ![t] = row]
  BY <1>1, <1>3
<1> QED BY <1>1, <1>8, <1>9, OneTaskSet

LEMMA JobsSucceedStands ==
  ASSUME ReviewTypeOK, TasksStand, Forward, NEW t \in DOMAIN tasks,
         NEW S \in SUBSET Candidate, JobsSucceed(t, S)
  PROVE  tasks' \in Seq(Task) /\ TasksStand'
<1>1. tasks \in Seq(Task) /\ tasks[t] \in Task /\ TaskStands(tasks[t])
  BY RowOf DEF ReviewTypeOK, TasksStand
<1>2. PICK row \in Task : row = [tasks[t] EXCEPT !.produced = S, !.busy = FALSE]
  BY <1>1 DEF Task
<1>3. /\ row.state = tasks[t].state /\ row.action = tasks[t].action /\ row.on = tasks[t].on
      /\ row.produced = S /\ row.rejected = tasks[t].rejected
      /\ row.rechecked = tasks[t].rechecked
  BY <1>1, <1>2 DEF Task
<1>4. TaskStands(tasks[t]) /\ tasks[t] \in Task => \E r \in Task : r = tasks[t] /\ TaskStands(r)
  OBVIOUS
<1>5. PICK r \in Task : r = tasks[t] /\ TaskStands(r)
  BY <1>1, <1>4
<1>6. TaskStands(r)'
  BY <1>5, TaskStaysTrue
<1>7. \A c \in S : status'[c] # "none"
  BY WithType DEF JobsSucceed, ReviewTypeOK, CandStatus
<1>8. TaskStands(row)'
  BY <1>3, <1>5, <1>6, <1>7 DEF TaskStands
<1>9. tasks' = [tasks EXCEPT ![t] = row]
  BY <1>1, <1>2 DEF JobsSucceed
<1> QED BY <1>1, <1>8, <1>9, OneTaskSet

LEMMA RecheckStands ==
  ASSUME ReviewTypeOK, TasksStand, Forward, NEW t \in DOMAIN tasks, NEW outcome \in Outcome,
         Validatable(Rechecked(t)), RunRules(Rechecked(t), outcome),
         tasks' = [tasks EXCEPT
             ![t].state = IF outcome = "Passed" THEN "RecheckPassed" ELSE "Failed",
             ![t].rechecked = Rechecked(t)]
  PROVE  tasks' \in Seq(Task) /\ TasksStand'
<1> DEFINE state == IF outcome = "Passed" THEN "RecheckPassed" ELSE "Failed"
<1>1. tasks \in Seq(Task) /\ tasks[t] \in Task /\ TaskStands(tasks[t])
  BY RowOf DEF ReviewTypeOK, TasksStand
<1>2. Rechecked(t) \in SUBSET Candidate /\ Rechecked(t) # {}
  BY DEF Validatable, In
<1>3. state \in {"RecheckPassed", "Failed"} /\ (state = "RecheckPassed" => outcome = "Passed")
  OBVIOUS
<1>4. PICK row \in Task : row = [tasks[t] EXCEPT !.state = state, !.rechecked = Rechecked(t)]
  BY <1>1, <1>2, <1>3 DEF Task, TaskState
<1>5. /\ row.state = state /\ row.on = tasks[t].on /\ row.produced = tasks[t].produced
      /\ row.rechecked = Rechecked(t)
  BY <1>1, <1>4 DEF Task
<1>6. \A c \in row.on \cup row.produced : status'[c] # "none"
  BY <1>1, <1>5, ForGood DEF TaskStands, Task
<1>7. outcome = "Passed" => \A c \in Rechecked(t) : status'[c] = "AwaitingVerdict"
  BY <1>2, WithType, StatusAfterType DEF RunRules, ReviewTypeOK, CandStatus
<1>8. TaskStands(row)'
  BY <1>2, <1>3, <1>5, <1>6, <1>7 DEF TaskStands
<1>9. tasks' = [tasks EXCEPT ![t] = row]
  BY <1>1, <1>4
<1> QED BY <1>1, <1>8, <1>9, OneTaskSet

LEMMA CompletedStands ==
  ASSUME ReviewTypeOK, TasksStand, Forward, NEW t \in DOMAIN tasks, CompleteHumanReject(t)
  PROVE  tasks' \in Seq(Task) /\ TasksStand'
<1>1. tasks \in Seq(Task) /\ tasks[t] \in Task /\ TaskStands(tasks[t])
  BY RowOf DEF ReviewTypeOK, TasksStand
<1>2. PICK row \in Task : row = [tasks[t] EXCEPT !.state = "Completed"]
  BY <1>1 DEF Task, TaskState
<1>3. /\ row.state = "Completed" /\ row.on = tasks[t].on /\ row.produced = tasks[t].produced
      /\ row.rejected = tasks[t].rejected
  BY <1>1, <1>2 DEF Task
<1>4. TaskStands(row)
  BY <1>1, <1>3 DEF TaskStands, CompleteHumanReject
<1>5. TaskStands(row)'
  BY <1>4, TaskStaysTrue
<1>6. tasks' = [tasks EXCEPT ![t] = row]
  BY <1>1, <1>2 DEF CompleteHumanReject, SetState
<1> QED BY <1>1, <1>5, <1>6, OneTaskSet

LEMMA TasksStepInv ==
  ASSUME ReviewTypeOK, TasksStand, FailedStaysOut, Forward, ReviewNext
  PROVE  tasks' \in Seq(Task) /\ TasksStand'
<1>0. tasks \in Seq(Task)
  BY DEF ReviewTypeOK
<1>1. CASE UNCHANGED tasks
  BY <1>0, <1>1, TasksUntouched
<1>2. ASSUME NEW t \in DOMAIN tasks, NEW state \in {"Failed", "Cancelled"}, SetState(t, state)
      PROVE  tasks' \in Seq(Task) /\ TasksStand'
  <2>1. tasks[t] \in Task
    BY <1>0, RowOf
  <2>2. tasks[t].busy \in BOOLEAN
    BY <2>1 DEF Task
  <2>3. PICK busy \in BOOLEAN : busy = tasks[t].busy
    BY <2>2
  <2>4. tasks' = [tasks EXCEPT ![t].state = state, ![t].busy = busy]
    BY <1>2, <2>3, SetStateIsRestated
  <2> QED BY <1>2, <2>4, RestatedTask
<1>3. ASSUME NEW v \in DOMAIN verdicts, NEW action \in Action, OpenTask(v, action)
      PROVE  tasks' \in Seq(Task) /\ TasksStand'
  BY <1>3, OpenTaskStands
<1>4. ASSUME NEW t \in DOMAIN tasks, StartRepair(t) \/ JobsFail(t) \/ JobsDie(t)
      PROVE  tasks' \in Seq(Task) /\ TasksStand'
  <2>1. CASE StartRepair(t)
    <3>1. /\ tasks[t].action \in Repair
          /\ tasks' = [tasks EXCEPT ![t].state = "InProgress", ![t].busy = TRUE]
      BY <2>1 DEF StartRepair
    <3> QED BY <3>1, RestatedTask
  <2>2. CASE JobsFail(t)
    <3>1. tasks' = [tasks EXCEPT ![t].state = "Failed", ![t].busy = FALSE]
      BY <2>2 DEF JobsFail
    <3> QED BY <3>1, RestatedTask
  <2>3. CASE JobsDie(t)
    <3>1. tasks[t] \in Task /\ TaskStands(tasks[t])
      BY <1>0, RowOf DEF TasksStand
    <3>2. PICK row \in Task : row = [tasks[t] EXCEPT !.busy = FALSE]
      BY <3>1 DEF Task
    <3>3. TaskStands(row)
      BY <3>1, <3>2 DEF TaskStands, Task
    <3>4. TaskStands(row)'
      BY <3>3, TaskStaysTrue
    <3>5. tasks' = [tasks EXCEPT ![t] = row]
      BY <2>3, <3>2 DEF JobsDie
    <3> QED BY <1>0, <3>4, <3>5, OneTaskSet
  <2> QED BY <1>4, <2>1, <2>2, <2>3
<1>5. ASSUME NEW t \in DOMAIN tasks, StartHumanReject(t)
      PROVE  tasks' \in Seq(Task) /\ TasksStand'
  <2>1. CASE SetState(t, "Failed")
    BY <1>2, <2>1
  <2>2. CASE /\ Targets(t) # {}
             /\ status' = With(Targets(t), "Rejected")
             /\ tasks' = [tasks EXCEPT ![t].state = "InProgress", ![t].rejected = Targets(t)]
    BY <2>2, HumanRejectStands
  <2> QED BY <1>5, <2>1, <2>2 DEF StartHumanReject
<1>6. ASSUME NEW t \in DOMAIN tasks, NEW S \in SUBSET Candidate, JobsSucceed(t, S)
      PROVE  tasks' \in Seq(Task) /\ TasksStand'
  BY <1>6, JobsSucceedStands
<1>7. ASSUME NEW t \in DOMAIN tasks, NEW outcome \in Outcome, CompleteRepair(t, outcome)
      PROVE  tasks' \in Seq(Task) /\ TasksStand'
  BY <1>2, <1>7, RecheckStands DEF CompleteRepair
<1>8. ASSUME NEW t \in DOMAIN tasks, CompleteHumanReject(t) \/ CancelTask(t)
      PROVE  tasks' \in Seq(Task) /\ TasksStand'
  BY <1>2, <1>8, CompletedStands DEF CancelTask
<1>9. CASE Repairs
  BY <1>3, <1>4, <1>5, <1>6, <1>7, <1>8, <1>9 DEF Repairs
<1>10. CASE Candidates \/ Queue
  BY <1>1, <1>10 DEF Candidates, Extract, Validate, Queue
<1> QED BY <1>9, <1>10 DEF ReviewNext

-----------------------------------------------------------------------------
(* Review queue *)

Item == [subject: Candidate \cup {Other}, status: ItemStatus]

\* What is said of one item, and of two.
ItemStands(row) ==
  row.subject \in Candidate /\ row.status = "Approved" =>
    status[row.subject] \in {"Approved", "Rejected", "Submitted"}

BothOpen(row, other) ==
  row.status \in Open /\ other.status \in Open /\ row.subject = other.subject

\* What a decision on item i makes of it.
Decided(i, st) ==
  /\ items[i].status \in Open
  /\ st = "Approved" /\ items[i].subject \in Candidate =>
       status'[items[i].subject] = "Approved"
  /\ SetItem(i, st)

LEMMA ItemsStep ==
  ASSUME ReviewTypeOK, ReviewNext
  PROVE  \/ UNCHANGED items
         \/ \E subject \in Candidate \cup {Other} : Enqueue(subject)
         \/ \E i \in DOMAIN items, st \in ItemStatus : Decided(i, st)
<1>1. CASE Candidates \/ Repairs
  BY <1>1
     DEF Candidates, Extract, Validate, Repairs, OpenTask, StartRepair, StartHumanReject,
         JobsSucceed, JobsFail, JobsDie, CompleteRepair, CompleteHumanReject, CancelTask
<1>2. ASSUME NEW i \in DOMAIN items, DecideApprove(i)
      PROVE  Decided(i, "Approved")
  <2>1. \A c \in Candidate : Approve(c) => status'[c] = "Approved"
    BY WithType DEF Approve, ReviewTypeOK, CandStatus
  <2> QED BY <1>2, <2>1, ReviewAssumption DEF DecideApprove, ApplyApprove, Decided
<1>3. ASSUME NEW i \in DOMAIN items,
             \/ DecideReject(i) \/ RequestRevision(i) \/ Escalate(i)
             \/ CancelItem(i) \/ MarkFailed(i)
      PROVE  \E st \in ItemStatus : Decided(i, st)
  BY <1>3 DEF DecideReject, RequestRevision, Escalate, CancelItem, MarkFailed,
              Decided, Open, ItemStatus
<1>4. CASE Queue
  BY <1>2, <1>3, <1>4 DEF Queue, ItemStatus
<1> QED BY <1>1, <1>4 DEF ReviewNext

LEMMA EnqueueKeepsItems ==
  ASSUME ReviewTypeOK, ApprovedItemsStand, OneOpenEach,
         NEW subject \in Candidate \cup {Other}, Enqueue(subject)
  PROVE  items' \in Seq(Item) /\ ApprovedItemsStand' /\ OneOpenEach'
<1> DEFINE new == [subject |-> subject, status |-> "Opened"]
<1>1. items \in Seq(Item) /\ UNCHANGED status /\ items' = Append(items, new)
  BY DEF ReviewTypeOK, Item, Enqueue
<1>2. new \in Item /\ new.subject = subject /\ new.status = "Opened"
  BY DEF Item, ItemStatus
<1> HIDE DEF new
<1>3. /\ items' \in Seq(Item)
      /\ DOMAIN items' = DOMAIN items \cup {Len(items) + 1}
      /\ items'[Len(items) + 1] = new
      /\ \A i \in DOMAIN items : items'[i] = items[i]
  BY <1>1, <1>2, AppendRow
<1>4. \A i \in DOMAIN items : ~(items[i].subject = subject /\ items[i].status \in Open)
  BY DEF Enqueue, OpenItems
<1> QED BY <1>1, <1>2, <1>3, <1>4 DEF ApprovedItemsStand, OneOpenEach

LEMMA DecideKeepsItems ==
  ASSUME ReviewTypeOK, ApprovedItemsStand, OneOpenEach, Forward,
         NEW i \in DOMAIN items, NEW st \in ItemStatus, Decided(i, st)
  PROVE  items' \in Seq(Item) /\ ApprovedItemsStand' /\ OneOpenEach'
<1>1. items \in Seq(Item) /\ items[i] \in Item
  BY RowOf DEF ReviewTypeOK, Item
<1>2. PICK row \in Item : row = [items[i] EXCEPT !.status = st]
  BY <1>1 DEF Item
<1>3. row.subject = items[i].subject /\ row.status = st
  BY <1>1, <1>2 DEF Item
<1>4. items' = [items EXCEPT ![i] = row]
  BY <1>1, <1>2 DEF Decided, SetItem
<1>5. /\ items' \in Seq(Item)
      /\ DOMAIN items' = DOMAIN items
      /\ items'[i] = row
      /\ \A j \in DOMAIN items : j # i => items'[j] = items[j]
  BY <1>1, <1>4, SetRow
<1>6. ApprovedItemsStand'
  BY <1>3, <1>5, ForGood DEF ApprovedItemsStand, Decided
<1>7. OneOpenEach'
  BY <1>3, <1>5 DEF OneOpenEach, Decided
<1> QED BY <1>5, <1>6, <1>7

LEMMA ItemsStepInv ==
  ASSUME ReviewTypeOK, ApprovedItemsStand, OneOpenEach, Forward, ReviewNext
  PROVE  items' \in Seq(Item) /\ ApprovedItemsStand' /\ OneOpenEach'
<1>1. CASE UNCHANGED items
  <2>1. items' \in Seq(Item)
    BY <1>1 DEF ReviewTypeOK, Item
  <2> QED BY <1>1, <2>1, ForGood DEF ApprovedItemsStand, OneOpenEach
<1> QED BY <1>1, ItemsStep, EnqueueKeepsItems, DecideKeepsItems

-----------------------------------------------------------------------------
(* Theorems *)

LEMMA ReviewInitInv == ReviewInit => ReviewInv
  BY DEF ReviewInit, ReviewInv, ReviewTypeOK, FailedStaysOut, RepairEndsInVerdict,
         RejectsStand, ApprovedItemsStand, OneOpenEach, CandStatus

LEMMA ReviewStepInv == ReviewInv /\ [ReviewNext]_reviewVars => ReviewInv'
<1> SUFFICES ASSUME ReviewInv, [ReviewNext]_reviewVars
             PROVE  ReviewInv'
  OBVIOUS
<1>1. CASE ReviewNext
  <2>1. Forward
    BY <1>1, StepForward DEF ReviewInv
  <2>2. TasksStand
    BY TasksStandEach DEF ReviewInv
  <2>3. FailedStaysOut' /\ verdicts' \in Seq(RunRow)
    BY <1>1, <2>1, VerdictsStepInv DEF ReviewInv
  <2>4. tasks' \in Seq(Task) /\ TasksStand'
    BY <1>1, <2>1, <2>2, TasksStepInv DEF ReviewInv
  <2>5. items' \in Seq(Item) /\ ApprovedItemsStand' /\ OneOpenEach'
    BY <1>1, <2>1, ItemsStepInv DEF ReviewInv
  <2>6. ReviewTypeOK'
    <3>1. \A t \in DOMAIN tasks' : \A c \in tasks'[t].on \cup tasks'[t].produced :
            status'[c] # "none"
      BY <2>4 DEF TasksStand, TaskStands
    <3> QED BY <2>1, <2>3, <2>4, <2>5, <3>1 DEF ReviewTypeOK, Forward, RunRow, Item
  <2>7. RepairEndsInVerdict' /\ RejectsStand'
    BY <2>4 DEF TasksStand, TaskStands, RepairEndsInVerdict, RejectsStand
  <2> QED BY <2>3, <2>5, <2>6, <2>7 DEF ReviewInv
<1>2. CASE UNCHANGED reviewVars
  BY <1>2 DEF reviewVars, ReviewInv, ReviewTypeOK, FailedStaysOut, RuleFailed,
              RepairEndsInVerdict, RejectsStand, In, ApprovedItemsStand, OneOpenEach
<1> QED BY <1>1, <1>2

LEMMA ReviewInvariant == ReviewSpec => []ReviewInv
BY ReviewInitInv, ReviewStepInv, PTL DEF ReviewSpec

\* The statuses, runs, tasks and items are of their kind, and what a task names
\* has been extracted.
THEOREM ReviewTypeCorrect == ReviewSpec => []ReviewTypeOK
<1>1. ReviewInv => ReviewTypeOK
  BY DEF ReviewInv
<1> QED BY <1>1, ReviewInvariant, PTL

\* However many repairs overlap with the runs and the editor's decisions, no
\* candidate of a failed run is ever approved (repair and review queue services).
THEOREM FailedNeverApproved == ReviewSpec => []FailedStaysOut
<1>1. ReviewInv => FailedStaysOut
  BY DEF ReviewInv
<1> QED BY <1>1, ReviewInvariant, PTL

\* A repair that is over left its candidates with the editor, and what became of
\* them since does not belie it (complete_task, recheck).
THEOREM RepairsEndInVerdicts == ReviewSpec => []RepairEndsInVerdict
<1>1. ReviewInv => RepairEndsInVerdict
  BY DEF ReviewInv
<1> QED BY <1>1, ReviewInvariant, PTL

LEMMA AtMostOne ==
  ASSUME NEW S, \A x, y \in S : x = y
  PROVE  Cardinality(S) <= 1
<1>1. CASE S = {}
  BY <1>1, FS_EmptySet
<1>2. CASE S # {}
  <2>1. PICK x \in S : S = {x}
    BY <1>2
  <2> QED BY <2>1, FS_Singleton
<1> QED BY <1>1, <1>2

\* An item marked approved stands for a candidate that was approved, and no
\* subject is ever open twice (enqueue, decide).
THEOREM QueueAlwaysMatches == ReviewSpec => []QueueMatchesVerdicts
<1>1. ReviewInv => QueueMatchesVerdicts
  <2> SUFFICES ASSUME ReviewInv
               PROVE  QueueMatchesVerdicts
    OBVIOUS
  <2>1. ASSUME NEW subject \in Candidate \cup {Other}
        PROVE  Cardinality(OpenItems(subject)) <= 1
    <3>1. \A i, j \in OpenItems(subject) : i = j
      BY DEF ReviewInv, OneOpenEach, OpenItems
    <3> QED BY <3>1, AtMostOne
  <2> QED BY <2>1 DEF ReviewInv, ApprovedItemsStand, QueueMatchesVerdicts
<1> QED BY <1>1, ReviewInvariant, PTL

=============================================================================
