-------------------------- MODULE CanonThreadsProofs --------------------------
(***************************************************************************)
(* What the steps of the handlers keep, for any number of rows.             *)
(* ThreadsInv, ApprovalInv and WrittenInv hold whatever the threads do and  *)
(* wherever the process is killed.  TruthInv needs one thread, which may be *)
(* killed, and no named target.                                             *)
(* LoneInv and FlightInv need one that is not killed; FlightInv says,       *)
(* for every step of a request, how far it has taken the tables from those  *)
(* it found, which is what makes its last step a handler of CanonPipeline.  *)
(***************************************************************************)
EXTENDS CanonAtomicity, CanonProofs

OneThread == \E w : Worker = {w}

-----------------------------------------------------------------------------
(* What a handler may rely on at each of its steps, whoever else is at work *)

TaskStatus == CandStatus \cup Outcome \cup EntityType \cup {NoOne}

Task ==
  [pc: TaskPc, cand: Candidate \cup {NoOne}, run: RunId \cup {NoOne},
   todo: SUBSET Candidate, status: TaskStatus,
   snapshot: SnapshotId \cup {NoSnapshot}, entity: EntityId \cup {NoOne},
   asked: FactId \cup {NoFact}, old: FactId \cup {NoFact}, new: FactId \cup {NoFact}]

SubmitPc ==
  {"resolve", "new_entity", "add_entity", "target", "retire", "replace", "create",
   "activate", "submitted"}

\* The rows it has in hand exist.
Knows(t) ==
  /\ t.todo \subseteq DOMAIN cands
  /\ t.pc = "add_run" => t.run \in RunId
  /\ t.pc \in {"validating", "start_run", "evaluate", "end_run", "cancel", "select"}
       => t.run \in DOMAIN runs
  /\ t.pc = "validating" => t.status = "Validating"
  /\ t.pc = "end_run" => t.status \in Outcome
  /\ t.pc = "verdict" => t.status \in {"AwaitingVerdict", "FailedValidation", "Failed"}
  /\ t.pc = "release" => t.status = "Extracted"
  /\ t.pc \in {"approve", "reject"} \cup SubmitPc => t.cand \in DOMAIN cands
  /\ t.pc \in {"resolve", "new_entity", "add_entity", "target"} => t.asked \in Asked \cup {NoFact}
  /\ t.pc = "add_entity" => t.status \in EntityType
  /\ t.pc \in {"target", "retire", "replace", "create", "activate", "submitted"}
       => t.entity \in EntityId
  /\ t.pc \in {"retire", "replace"} => t.old \in DOMAIN facts
  /\ t.pc = "replace" => t.new \in FactId
  /\ t.pc \in {"create", "activate"} => t.old = NoFact
  /\ t.pc \in {"activate", "submitted"} => t.new \in DOMAIN facts

RunsHoldRows == \A r \in DOMAIN runs : runs[r].cands \subseteq DOMAIN cands

OriginsAreRows ==
  \A f \in DOMAIN origin : f \in DOMAIN facts /\ origin[f] \in DOMAIN cands

ThreadsInv ==
  /\ PipelineTypeOK
  /\ RunsHoldRows
  /\ OriginsAreRows
  /\ task \in [Worker -> Task]
  /\ \A w \in Worker : Knows(task[w])

-----------------------------------------------------------------------------
(* One thread, no named target: between its reads and writes a submit knows  *)
(* what is in effect for the entity and predicate it is about.               *)

Supplants(t) ==
  /\ t.pc = "retire" =>
       /\ facts[t.old].status = "Active"
       /\ facts[t.old].entity = t.entity
       /\ facts[t.old].predicate = Text[t.cand].predicate
  /\ t.pc \in {"replace", "create", "activate"} =>
       InEffect(t.entity, Text[t.cand].predicate) = {}
  /\ t.pc = "activate" =>
       /\ facts[t.new].entity = t.entity
       /\ facts[t.new].predicate = Text[t.cand].predicate

TruthInv == OneTruthEach /\ \A w \in Worker : Supplants(task[w])

-----------------------------------------------------------------------------
(* One thread that is not killed *)

\* What the handler has read is still so.
Alone(t) ==
  /\ t.pc \notin {"add_run", "validating", "verdict", "release"} => t.todo = {}
  /\ t.pc = "add_run" => \A c \in t.todo : cands[c].status = "Extracted"
  /\ t.pc = "validating" =>
       /\ runs[t.run].state = "Queued"
       /\ t.todo \subseteq runs[t.run].cands
       /\ \A c \in runs[t.run].cands :
            cands[c].status = IF c \in t.todo THEN "Extracted" ELSE "Validating"
  /\ t.pc \in {"start_run", "evaluate", "end_run"} =>
       /\ runs[t.run].state \in {"Queued", "Running"}
       /\ \A c \in runs[t.run].cands : cands[c].status = "Validating"
  /\ t.pc \in {"verdict", "release"} => \A c \in t.todo : cands[c].status = "Validating"
  /\ t.pc = "approve" => cands[t.cand].status = "AwaitingVerdict"
  /\ t.pc = "reject" => cands[t.cand].status \in {"AwaitingVerdict", "Approved"}
  /\ t.pc \in SubmitPc => cands[t.cand].status = "Approved"

\* A candidate a fact was written for is submitted, or its submit is about to say so.
Accounted(t) ==
  \A f \in DOMAIN origin :
    \/ cands[origin[f]].status = "Submitted"
    \/ t.pc \in {"activate", "submitted"} /\ t.cand = origin[f]

\* A candidate in validation is held by a run that is not over, or by the request.
Held(t) ==
  \A c \in DOMAIN cands :
    cands[c].status = "Validating"
      => \/ \E r \in DOMAIN runs : Holds(r, c)
         \/ c \in t.todo
         \/ t.pc = "select" /\ c \in runs[t.run].cands

Lone(t) == Alone(t) /\ Accounted(t) /\ Held(t)

LoneInv == \A w \in Worker : Lone(task[w])

-----------------------------------------------------------------------------
(* How far a request has taken the tables *)

LedgerSettled ==
  entities = settled.entities /\ facts = settled.facts /\ snapshots = settled.snapshots

Marked(table, S, status) ==
  [c \in DOMAIN table |->
     IF c \in S THEN [table[c] EXCEPT !.status = status] ELSE table[c]]

\* trigger_run has added run r over the candidates A; all but those of todo are in
\* validation.
Triggered(r, A, sn, state, todo) ==
  /\ LedgerSettled
  /\ r \in RunId \ DOMAIN settled.runs
  /\ Atomic!MayValidate(A, sn)
  /\ todo \subseteq A
  /\ runs = Put(settled.runs, r, [state |-> state, cands |-> A, snapshot |-> sn])
  /\ cands = Marked(settled.cands, A \ todo, "Validating")

OutcomesOf(A, sn) ==
  {Atomic!OutcomeOf(A, sn, forbidden, crashed) : forbidden \in BOOLEAN, crashed \in BOOLEAN}

\* The run has ended, and all but those of todo have been moved on.
Ended(r, A, sn, outcome, todo) ==
  /\ LedgerSettled
  /\ r \in RunId \ DOMAIN settled.runs
  /\ Atomic!MayValidate(A, sn)
  /\ outcome \in OutcomesOf(A, sn)
  /\ todo \subseteq A
  /\ runs = Put(settled.runs, r, [state |-> outcome, cands |-> A, snapshot |-> sn])
  /\ cands = Marked(Marked(settled.cands, A, "Validating"), A \ todo, StatusAfter(outcome))

\* cancel_run has saved the run, and released all but the candidates of todo.
Cancelled(r, todo) ==
  /\ LedgerSettled
  /\ r \in DOMAIN settled.runs
  /\ settled.runs[r].state \in {"Queued", "Running"}
  /\ runs = Put(settled.runs, r, [settled.runs[r] EXCEPT !.state = "Cancelled"])
  /\ todo \subseteq Atomic!StillValidating(settled.runs[r].cands)
  /\ cands = Marked(settled.cands, Atomic!StillValidating(settled.runs[r].cands) \ todo,
                    "Extracted")

\* submit has its entity, and only the ledger has moved.
Resolved(t) ==
  /\ settled.cands = cands /\ settled.runs = runs /\ settled.snapshots = snapshots
  /\ entities \in Atomic!EntitiesAfter(t.cand, t.entity)

\* It has chosen the fact to supersede, which can be superseded.
Chosen(t) ==
  /\ Resolved(t)
  /\ Atomic!TargetUsable(t.old)
  /\ \E asked \in Asked \cup {NoFact} : t.old \in Atomic!SupersedeTarget(t.cand, t.entity, asked)

InTrigger(t) ==
  /\ t.pc = "add_run" => MayValidate(t.todo, t.snapshot)
  /\ t.pc = "validating" =>
       \E A \in SUBSET Candidate : Triggered(t.run, A, t.snapshot, "Queued", t.todo)
  /\ t.pc = "start_run" =>
       autoRun /\ \E A \in SUBSET Candidate : Triggered(t.run, A, t.snapshot, "Queued", {})
  /\ t.pc \in {"evaluate", "end_run"} =>
       /\ autoRun
       /\ \E A \in SUBSET Candidate :
            /\ Triggered(t.run, A, t.snapshot, "Running", {})
            /\ t.pc = "end_run" => t.status \in OutcomesOf(A, t.snapshot)
  /\ t.pc = "verdict" =>
       /\ autoRun
       /\ \E r \in RunId, A \in SUBSET Candidate, sn \in SnapshotId \cup {NoSnapshot},
             outcome \in Outcome :
            Ended(r, A, sn, outcome, t.todo) /\ t.status = StatusAfter(outcome)

InCancel(t) ==
  /\ t.pc = "cancel" => t.run \in DOMAIN runs /\ runs[t.run].state \in {"Queued", "Running"}
  /\ t.pc = "select" =>
       Cancelled(t.run, Atomic!StillValidating(settled.runs[t.run].cands))
  /\ t.pc = "release" => \E r \in RunId : Cancelled(r, t.todo)

InSubmit(t) ==
  /\ t.pc \in {"new_entity", "add_entity"} =>
       \A x \in DOMAIN entities : entities[x].name # Text[t.cand].subject
  /\ t.pc = "target" => Resolved(t)
  /\ t.pc \in {"retire", "replace", "create", "activate", "submitted"} => Chosen(t)
  /\ t.pc \in {"retire", "replace"} => t.old # NoFact
  /\ t.pc \in {"target", "retire", "create"} => facts = settled.facts
  /\ t.pc \in {"replace", "activate", "submitted"} => t.new \in FactId \ DOMAIN settled.facts
  /\ t.pc = "replace" => facts = Atomic!Retired(t.old, t.new)
  /\ t.pc = "activate" => facts = Put(settled.facts, t.new, FactOf(t, "NotInCanon"))
  /\ t.pc = "submitted" => facts = Atomic!Committed(t.cand, t.entity, t.new, t.old)

\* Until its first write a request leaves the tables as it found them.
ReadsOnly ==
  {"idle", "add_run", "cancel", "approve", "reject", "resolve", "new_entity", "add_entity"}

InFlight(t) ==
  /\ t.pc \in ReadsOnly => settled = Tables
  /\ InTrigger(t)
  /\ InCancel(t)
  /\ InSubmit(t)

FlightInv ==
  /\ Atomic!PipelineTypeOK
  /\ settled.autoRun = autoRun
  /\ \A w \in Worker : InFlight(task[w])

-----------------------------------------------------------------------------
(* Rows *)

LEMMA IdleIsTask == Idle \in Task /\ Knows(Idle)
  BY DEF Idle, Task, TaskPc, TaskStatus, Knows, SubmitPc

\* A step moves one thread to a row that may rely on what it has in hand.
StepOf(w) == \E row \in Task : task' = [task EXCEPT ![w] = row] /\ Knows(row)'

\* What the others rely on: rows are never taken away.
Grows ==
  /\ DOMAIN cands \subseteq DOMAIN cands'
  /\ DOMAIN runs \subseteq DOMAIN runs'
  /\ DOMAIN facts \subseteq DOMAIN facts'

LEMMA KnowsStays ==
  ASSUME NEW t, Knows(t), Grows
  PROVE  Knows(t)'
<1> USE DEF Knows, Grows
<1>1. t.pc \in {"approve", "reject"} \cup SubmitPc => t.cand \in DOMAIN cands'
  OBVIOUS
<1>2. t.pc \in {"retire", "replace"} => t.old \in DOMAIN facts'
  OBVIOUS
<1>3. t.pc \in {"activate", "submitted"} => t.new \in DOMAIN facts'
  OBVIOUS
<1> QED BY <1>1, <1>2, <1>3

LEMMA OneMoves ==
  ASSUME task \in [Worker -> Task], \A v \in Worker : Knows(task[v]),
         NEW w \in Worker, StepOf(w), Grows
  PROVE  /\ task' \in [Worker -> Task]
         /\ \A v \in Worker : Knows(task[v])'
<1>1. PICK row \in Task : task' = [task EXCEPT ![w] = row] /\ Knows(row)'
  BY DEF StepOf
<1>2. task' \in [Worker -> Task] /\ task'[w] = row
  BY <1>1
<1>3. ASSUME NEW v \in Worker
      PROVE  Knows(task[v])'
  <2>1. CASE v = w
    <3>1. task'[v] = row
      BY <1>2, <2>1
    <3> QED BY <1>1, <3>1 DEF Knows
  <2>2. CASE v # w
    <3>1. PICK t : t = task[v] /\ Knows(t)
      OBVIOUS
    <3>2. task'[v] = t
      BY <1>1, <2>2, <3>1
    <3>3. Knows(t)'
      BY <3>1, KnowsStays
    <3> QED BY <3>2, <3>3 DEF Knows
  <2> QED BY <2>1, <2>2
<1> QED BY <1>2, <1>3

-----------------------------------------------------------------------------
(* Steps that only read: the tables stay, and so do their properties *)

TablesStand == PipelineTypeOK /\ RunsHoldRows /\ OriginsAreRows

ReadStep(w) == StepOf(w) /\ UNCHANGED <<ledgerVars, cands, runs, origin>>

LEMMA TriggerCheckReads ==
  ASSUME ThreadsInv, NEW w \in Worker, NEW r \in RunId, NEW S \in SUBSET Candidate,
         NEW sn \in SnapshotId \cup {NoSnapshot}, TriggerCheck(w, r, S, sn)
  PROVE  ReadStep(w)
<1> DEFINE row == [Idle EXCEPT !.pc = "add_run", !.run = r, !.todo = S, !.snapshot = sn]
<1>1. row \in Task
  BY IdleIsTask DEF Task, TaskPc
<1>2. UNCHANGED <<ledgerVars, cands, runs, origin>> /\ task' = [task EXCEPT ![w] = row]
  BY DEF TriggerCheck, Goto
<1>3. row.pc = "add_run" /\ row.run = r /\ row.todo = S /\ S \subseteq DOMAIN cands
  BY DEF Idle, TriggerCheck, MayValidate
<1> HIDE DEF row
<1>4. Knows(row)'
  BY <1>2, <1>3 DEF Knows, SubmitPc
<1> QED BY <1>1, <1>2, <1>4 DEF ReadStep, StepOf

LEMMA EvaluateReads ==
  ASSUME ThreadsInv, NEW w \in Worker, NEW forbidden \in BOOLEAN, NEW crashed \in BOOLEAN,
         Evaluate(w, forbidden, crashed)
  PROVE  ReadStep(w)
<1>1. PICK t : t = task[w] /\ t \in Task /\ Knows(t)
  BY DEF ThreadsInv
<1>2. PICK outcome : outcome = OutcomeOf(runs[t.run].cands, t.snapshot, forbidden, crashed)
  OBVIOUS
<1>3. outcome \in Outcome
  BY <1>2, OutcomeType
<1>4. PICK row : row = [t EXCEPT !.pc = "end_run", !.status = outcome]
  OBVIOUS
<1>5. UNCHANGED <<ledgerVars, cands, runs, origin>> /\ task' = [task EXCEPT ![w] = row]
  BY <1>1, <1>2, <1>4 DEF Evaluate, Goto
<1>6. row \in Task
  <2>1. "end_run" \in TaskPc /\ outcome \in TaskStatus
    BY <1>3 DEF TaskPc, TaskStatus
  <2> QED BY <1>1, <1>4, <2>1 DEF Task
<1>7. row.pc = "end_run" /\ row.status = outcome /\ row.run = t.run /\ row.todo = t.todo
  BY <1>1, <1>4 DEF Task
<1>8. t.pc = "evaluate"
  BY <1>1 DEF Evaluate, At
<1>9. Knows(row)'
  BY <1>1, <1>3, <1>5, <1>7, <1>8 DEF Knows, SubmitPc
<1> QED BY <1>5, <1>6, <1>9 DEF ReadStep, StepOf

LEMMA CancelReads ==
  ASSUME ThreadsInv, NEW w \in Worker, (\E r \in RunId : CancelCheck(w, r)) \/ CancelSelect(w)
  PROVE  ReadStep(w)
<1>1. ASSUME NEW r \in RunId, CancelCheck(w, r)
      PROVE  ReadStep(w)
  <2>1. PICK row : row = [Idle EXCEPT !.pc = "cancel", !.run = r]
    OBVIOUS
  <2>2. UNCHANGED <<ledgerVars, cands, runs, origin>> /\ task' = [task EXCEPT ![w] = row]
    BY <1>1, <2>1 DEF CancelCheck, Goto
  <2>3. row \in Task
    BY <2>1, IdleIsTask DEF Task, TaskPc
  <2>4. row.pc = "cancel" /\ row.run \in DOMAIN runs /\ row.todo = {}
    BY <1>1, <2>1 DEF Idle, CancelCheck
  <2>5. Knows(row)'
    BY <2>2, <2>4 DEF Knows, SubmitPc
  <2> QED BY <2>2, <2>3, <2>5 DEF ReadStep, StepOf
<1>2. CASE CancelSelect(w)
  <2>1. PICK S : S = StillValidating(runs[task[w].run].cands)
    OBVIOUS
  <2>2. S \subseteq DOMAIN cands /\ S \subseteq Candidate
    BY <2>1 DEF StillValidating, ThreadsInv, PipelineTypeOK
  <2>3. PICK row : row = IF S = {} THEN Idle
                         ELSE [Idle EXCEPT !.pc = "release", !.status = "Extracted", !.todo = S]
    OBVIOUS
  <2>4. UNCHANGED <<ledgerVars, cands, runs, origin>> /\ task' = [task EXCEPT ![w] = row]
    BY <1>2, <2>1, <2>3 DEF CancelSelect, Goto
  <2>5. row \in Task
    BY <2>2, <2>3, IdleIsTask DEF Task, TaskPc, TaskStatus, CandStatus
  <2>6. \/ row.pc = "idle" /\ row.todo = {}
        \/ row.pc = "release" /\ row.status = "Extracted" /\ row.todo = S
    BY <2>3 DEF Idle
  <2>7. Knows(row)'
    BY <2>2, <2>4, <2>6 DEF Knows, SubmitPc
  <2> QED BY <2>4, <2>5, <2>7 DEF ReadStep, StepOf
<1> QED BY <1>1, <1>2

LEMMA VerdictCheckReads ==
  ASSUME ThreadsInv, NEW w \in Worker, NEW c \in Candidate, NEW pc \in {"approve", "reject"},
         NEW from, VerdictCheck(w, c, pc, from)
  PROVE  ReadStep(w)
<1>1. PICK row : row = [Idle EXCEPT !.pc = pc, !.cand = c]
  OBVIOUS
<1>2. UNCHANGED <<ledgerVars, cands, runs, origin>> /\ task' = [task EXCEPT ![w] = row]
  BY <1>1 DEF VerdictCheck, Goto
<1>3. row \in Task
  BY <1>1, IdleIsTask DEF Task, TaskPc
<1>4. row.pc = pc /\ row.cand \in DOMAIN cands /\ row.todo = {}
  BY <1>1 DEF Idle, VerdictCheck
<1>5. Knows(row)'
  BY <1>2, <1>4 DEF Knows, SubmitPc
<1> QED BY <1>2, <1>3, <1>5 DEF ReadStep, StepOf

LEMMA SubmitCheckReads ==
  ASSUME ThreadsInv, NEW w \in Worker, NEW c \in Candidate, NEW asked \in Asked \cup {NoFact},
         SubmitCheck(w, c, asked)
  PROVE  ReadStep(w)
<1>1. PICK row : row = [Idle EXCEPT !.pc = "resolve", !.cand = c, !.asked = asked]
  OBVIOUS
<1>2. UNCHANGED <<ledgerVars, cands, runs, origin>> /\ task' = [task EXCEPT ![w] = row]
  BY <1>1 DEF SubmitCheck, Goto
<1>3. row \in Task
  BY <1>1, IdleIsTask, PipelineAssumption DEF Task, TaskPc
<1>4. row.pc = "resolve" /\ row.cand = c /\ row.todo = {} /\ row.asked = asked
  BY <1>1 DEF Idle
<1>5. c \in DOMAIN cands
  BY DEF SubmitCheck
<1>6. Knows(row)'
  BY <1>2, <1>4, <1>5 DEF Knows, SubmitPc
<1> QED BY <1>2, <1>3, <1>6 DEF ReadStep, StepOf

LEMMA ResolveReads ==
  ASSUME ThreadsInv, NEW w \in Worker,
         (\E e \in EntityId : ResolveFound(w, e)) \/ ResolveMissing(w)
           \/ (\E y \in EntityType : EntityCheck(w, y))
  PROVE  ReadStep(w)
<1>1. PICK t : t = task[w] /\ t \in Task /\ Knows(t)
  BY DEF ThreadsInv
<1>2. ASSUME NEW e \in EntityId, ResolveFound(w, e)
      PROVE  ReadStep(w)
  <2>1. PICK row : row = [t EXCEPT !.pc = "target", !.entity = e]
    OBVIOUS
  <2>2. /\ UNCHANGED <<ledgerVars, cands, runs, origin>> /\ task' = [task EXCEPT ![w] = row]
        /\ t.pc = "resolve"
    BY <1>1, <1>2, <2>1 DEF ResolveFound, Goto, At
  <2>3. row \in Task
    <3>1. "target" \in TaskPc
      BY DEF TaskPc
    <3> QED BY <1>1, <2>1, <3>1 DEF Task
  <2>4. /\ row.pc = "target" /\ row.entity = e
        /\ row.cand = t.cand /\ row.todo = t.todo /\ row.asked = t.asked
    BY <1>1, <2>1 DEF Task
  <2>5. Knows(row)'
    BY <1>1, <2>2, <2>4 DEF Knows, SubmitPc
  <2> QED BY <2>2, <2>3, <2>5 DEF ReadStep, StepOf
<1>3. CASE ResolveMissing(w)
  <2>1. PICK row : row = [t EXCEPT !.pc = "new_entity"]
    OBVIOUS
  <2>2. /\ UNCHANGED <<ledgerVars, cands, runs, origin>> /\ task' = [task EXCEPT ![w] = row]
        /\ t.pc = "resolve"
    BY <1>1, <1>3, <2>1 DEF ResolveMissing, Advance, Goto, At
  <2>3. row \in Task
    BY <1>1, <2>1 DEF Task, TaskPc
  <2>4. /\ row.pc = "new_entity"
        /\ row.cand = t.cand /\ row.todo = t.todo /\ row.asked = t.asked
    BY <1>1, <2>1 DEF Task
  <2>5. Knows(row)'
    BY <1>1, <2>2, <2>4 DEF Knows, SubmitPc
  <2> QED BY <2>2, <2>3, <2>5 DEF ReadStep, StepOf
<1>4. ASSUME NEW y \in EntityType, EntityCheck(w, y)
      PROVE  ReadStep(w)
  <2>1. PICK row : row = IF NameTaken(Subject(w), y) THEN Idle
                         ELSE [t EXCEPT !.pc = "add_entity", !.status = y]
    OBVIOUS
  <2>2. /\ UNCHANGED <<ledgerVars, cands, runs, origin>> /\ task' = [task EXCEPT ![w] = row]
        /\ t.pc = "new_entity"
    BY <1>1, <1>4, <2>1 DEF EntityCheck, Return, Goto, At
  <2>3. row \in Task
    <3>1. "add_entity" \in TaskPc /\ y \in TaskStatus
      BY DEF TaskPc, TaskStatus
    <3> QED BY <1>1, <2>1, <3>1, IdleIsTask DEF Task
  <2>4. \/ row = Idle
        \/ /\ row.pc = "add_entity" /\ row.status = y
           /\ row.cand = t.cand /\ row.todo = t.todo /\ row.asked = t.asked
    BY <1>1, <2>1 DEF Task
  <2>5. Knows(row)'
    BY <1>1, <2>2, <2>4 DEF Knows, SubmitPc, Idle
  <2> QED BY <2>2, <2>3, <2>5 DEF ReadStep, StepOf
<1> QED BY <1>2, <1>3, <1>4

LEMMA ChooseTargetReads ==
  ASSUME ThreadsInv, NEW w \in Worker, ChooseTarget(w)
  PROVE  ReadStep(w)
<1>1. PICK t : t = task[w] /\ t \in Task /\ Knows(t)
  BY DEF ThreadsInv
<1>2. PICK old \in SupersedeTarget(t.cand, t.entity, t.asked) :
        IF TargetUsable(old)
        THEN Goto(w, [t EXCEPT !.pc = IF old = NoFact THEN "create" ELSE "retire",
                               !.old = old, !.asked = NoFact])
        ELSE Return(w)
  BY <1>1 DEF ChooseTarget
<1>3. UNCHANGED <<ledgerVars, cands, runs, origin>> /\ t.pc = "target"
  BY <1>1 DEF ChooseTarget, At
<1>4. CASE ~TargetUsable(old)
  <2>1. task' = [task EXCEPT ![w] = Idle]
    BY <1>2, <1>4 DEF Return, Goto
  <2>2. Knows(Idle)'
    BY DEF Knows, Idle, SubmitPc
  <2> QED BY <1>3, <2>1, <2>2, IdleIsTask DEF ReadStep, StepOf
<1>5. CASE TargetUsable(old)
  <2>1. PICK row : row = [t EXCEPT !.pc = IF old = NoFact THEN "create" ELSE "retire",
                                   !.old = old, !.asked = NoFact]
    OBVIOUS
  <2>2. task' = [task EXCEPT ![w] = row]
    BY <1>2, <1>5, <2>1 DEF Goto
  <2>3. (old = NoFact \/ old \in DOMAIN facts) /\ DOMAIN facts \subseteq FactId
    BY <1>5 DEF TargetUsable, ThreadsInv, PipelineTypeOK, LedgerTypeOK
  <2>4. row \in Task
    <3>1. {"create", "retire"} \subseteq TaskPc /\ old \in FactId \cup {NoFact}
      BY <2>3 DEF TaskPc
    <3>2. PICK pc : pc = IF old = NoFact THEN "create" ELSE "retire"
      OBVIOUS
    <3>3. pc \in TaskPc /\ row = [t EXCEPT !.pc = pc, !.old = old, !.asked = NoFact]
      BY <2>1, <3>1, <3>2
    <3> QED BY <1>1, <3>1, <3>3 DEF Task
  <2>5. /\ row.pc \in {"create", "retire"} /\ row.old = old /\ (row.pc = "create" <=> old = NoFact)
        /\ row.cand = t.cand /\ row.todo = t.todo /\ row.entity = t.entity
    BY <1>1, <2>1 DEF Task
  <2>6. Knows(row)'
    BY <1>1, <1>3, <2>3, <2>5 DEF Knows, SubmitPc, ledgerVars
  <2> QED BY <1>3, <2>2, <2>4, <2>6 DEF ReadStep, StepOf
<1> QED BY <1>4, <1>5

\* What a thread may do that only reads.
Reads(w) ==
  \/ \E r \in RunId, S \in SUBSET Candidate, sn \in SnapshotId \cup {NoSnapshot} :
       TriggerCheck(w, r, S, sn)
  \/ \E forbidden, crashed \in BOOLEAN : Evaluate(w, forbidden, crashed)
  \/ \E r \in RunId : CancelCheck(w, r)
  \/ CancelSelect(w)
  \/ \E c \in Candidate : VerdictCheck(w, c, "approve", {"AwaitingVerdict"})
  \/ \E c \in Candidate : VerdictCheck(w, c, "reject", {"AwaitingVerdict", "Approved"})
  \/ \E c \in Candidate, asked \in Asked \cup {NoFact} : SubmitCheck(w, c, asked)
  \/ \E e \in EntityId : ResolveFound(w, e)
  \/ ResolveMissing(w)
  \/ \E y \in EntityType : EntityCheck(w, y)
  \/ ChooseTarget(w)

LEMMA ReadsStep ==
  ASSUME ThreadsInv, NEW w \in Worker, Reads(w)
  PROVE  ReadStep(w)
BY TriggerCheckReads, EvaluateReads, CancelReads, VerdictCheckReads, SubmitCheckReads,
   ResolveReads, ChooseTargetReads DEF Reads

-----------------------------------------------------------------------------
(* Steps that write the table of runs *)

WriteStep(w) == StepOf(w) /\ Grows /\ TablesStand'

\* A run that is added or saved holds rows.
LEMMA PutRunStands ==
  ASSUME ThreadsInv, NEW r \in RunId, NEW state \in RunState, NEW S \in SUBSET Candidate,
         NEW sn \in SnapshotId \cup {NoSnapshot}, NEW row,
         row = [state |-> state, cands |-> S, snapshot |-> sn],
         S \subseteq DOMAIN cands, runs' = Put(runs, r, row),
         UNCHANGED <<ledgerVars, cands, origin, autoRun>>
  PROVE  Grows /\ TablesStand'
<1> USE DEF ThreadsInv, ledgerVars
<1>1. row \in Run /\ row.cands = S
  BY DEF Run
<1>2. DOMAIN runs' = DOMAIN runs \cup {r} /\ \A q \in DOMAIN runs' : runs'[q] = IF q = r THEN row ELSE runs[q]
  BY DEF Put
<1>3. PipelineTypeOK'
  <2>1. DOMAIN runs \subseteq RunId /\ runs \in [DOMAIN runs -> Run]
    BY DEF PipelineTypeOK
  <2>2. DOMAIN runs' \subseteq RunId /\ runs' \in [DOMAIN runs' -> Run]
    BY <1>1, <1>2, <2>1 DEF Put
  <2> QED BY <2>2 DEF PipelineTypeOK, LedgerTypeOK
<1>4. RunsHoldRows'
  BY <1>1, <1>2 DEF RunsHoldRows
<1>5. OriginsAreRows'
  BY DEF OriginsAreRows
<1>6. Grows
  BY <1>2 DEF Grows
<1> QED BY <1>3, <1>4, <1>5, <1>6 DEF TablesStand

LEMMA AddRunWrites ==
  ASSUME ThreadsInv, NEW w \in Worker, AddRun(w), UNCHANGED autoRun
  PROVE  WriteStep(w)
<1>1. PICK t : t = task[w] /\ t \in Task /\ Knows(t)
  BY DEF ThreadsInv
<1>2. PICK run : run = [state |-> "Queued", cands |-> t.todo, snapshot |-> t.snapshot]
  OBVIOUS
<1>3. PICK row : row = [t EXCEPT !.pc = "validating", !.status = "Validating"]
  OBVIOUS
<1>4. /\ t.pc = "add_run"
      /\ runs' = Put(runs, t.run, run)
      /\ task' = [task EXCEPT ![w] = row]
      /\ UNCHANGED <<ledgerVars, cands, origin>>
  BY <1>1, <1>2, <1>3 DEF AddRun, At, Goto
<1>5. /\ t.run \in RunId /\ t.todo \in SUBSET Candidate /\ t.todo \subseteq DOMAIN cands
      /\ t.snapshot \in SnapshotId \cup {NoSnapshot} /\ "Queued" \in RunState
  BY <1>1, <1>4 DEF Knows, Task, RunState
<1>6. Grows /\ TablesStand'
  BY <1>2, <1>4, <1>5, PutRunStands
<1>7. row \in Task
  <2>1. {"validating"} \subseteq TaskPc /\ "Validating" \in TaskStatus
    BY DEF TaskPc, TaskStatus, CandStatus
  <2> QED BY <1>1, <1>3, <2>1 DEF Task
<1>8. row.pc = "validating" /\ row.status = "Validating" /\ row.run = t.run /\ row.todo = t.todo
  BY <1>1, <1>3 DEF Task
<1>9. t.run \in DOMAIN runs'
  BY <1>4 DEF Put
<1>10. Knows(row)'
  BY <1>4, <1>5, <1>8, <1>9 DEF Knows, SubmitPc
<1> QED BY <1>4, <1>6, <1>7, <1>10 DEF WriteStep, StepOf

LEMMA SaveRunStands ==
  ASSUME ThreadsInv, NEW r \in DOMAIN runs, NEW state \in RunState, SaveRun(r, state),
         UNCHANGED <<ledgerVars, cands, origin, autoRun>>
  PROVE  Grows /\ TablesStand' /\ DOMAIN runs' = DOMAIN runs
<1>1. r \in RunId /\ runs[r] \in Run
  BY DEF ThreadsInv, PipelineTypeOK
<1>2. PICK S, sn : S = runs[r].cands /\ sn = runs[r].snapshot
  OBVIOUS
<1>3. PICK row : row = [state |-> state, cands |-> S, snapshot |-> sn]
  OBVIOUS
<1>4. runs' = Put(runs, r, row)
  BY <1>1, <1>2, <1>3 DEF SaveRun, Run
<1>5. S \in SUBSET Candidate /\ sn \in SnapshotId \cup {NoSnapshot} /\ S \subseteq DOMAIN cands
  BY <1>1, <1>2 DEF Run, ThreadsInv, RunsHoldRows
<1>6. DOMAIN runs' = DOMAIN runs
  BY <1>4 DEF Put
<1> QED BY <1>1, <1>3, <1>4, <1>5, <1>6, PutRunStands

LEMMA StartRunWrites ==
  ASSUME ThreadsInv, NEW w \in Worker, StartRun(w) \/ CancelSave(w), UNCHANGED autoRun
  PROVE  WriteStep(w)
<1>1. PICK t : t = task[w] /\ t \in Task /\ Knows(t)
  BY DEF ThreadsInv
<1>2. PICK pc \in {"evaluate", "select"}, state \in {"Running", "Cancelled"} :
        /\ t.pc \in {"start_run", "cancel"}
        /\ SaveRun(t.run, state)
        /\ task' = [task EXCEPT ![w] = [t EXCEPT !.pc = pc]]
        /\ UNCHANGED <<ledgerVars, cands, origin>>
  BY <1>1 DEF StartRun, CancelSave, At, Advance, Goto
<1>3. PICK row : row = [t EXCEPT !.pc = pc]
  OBVIOUS
<1>4. t.run \in DOMAIN runs /\ state \in RunState /\ t.todo \subseteq DOMAIN cands
  BY <1>1, <1>2 DEF Knows, RunState
<1>5. Grows /\ TablesStand' /\ DOMAIN runs' = DOMAIN runs
  BY <1>2, <1>4, SaveRunStands
<1>6. row \in Task
  <2>1. pc \in TaskPc
    BY <1>2 DEF TaskPc
  <2> QED BY <1>1, <1>3, <2>1 DEF Task
<1>7. row.pc = pc /\ row.run = t.run /\ row.todo = t.todo
  BY <1>1, <1>3 DEF Task
<1>8. Knows(row)'
  BY <1>2, <1>4, <1>5, <1>7 DEF Knows, SubmitPc
<1> QED BY <1>2, <1>3, <1>5, <1>6, <1>8 DEF WriteStep, StepOf

LEMMA EndRunWrites ==
  ASSUME ThreadsInv, NEW w \in Worker, EndRun(w), UNCHANGED autoRun
  PROVE  WriteStep(w)
<1>1. PICK t : t = task[w] /\ t \in Task /\ Knows(t)
  BY DEF ThreadsInv
<1>2. PICK S, status : S = runs[t.run].cands /\ status = StatusAfter(t.status)
  OBVIOUS
<1>3. PICK row : row = [Idle EXCEPT !.pc = "verdict", !.todo = S, !.status = status]
  OBVIOUS
<1>4. /\ t.pc = "end_run"
      /\ SaveRun(t.run, t.status)
      /\ task' = [task EXCEPT ![w] = row]
      /\ UNCHANGED <<ledgerVars, cands, origin>>
  BY <1>1, <1>2, <1>3 DEF EndRun, At, Goto
<1>5. t.run \in DOMAIN runs /\ t.status \in Outcome /\ t.status \in RunState
  BY <1>1, <1>4 DEF Knows, RunState, Outcome
<1>6. Grows /\ TablesStand' /\ DOMAIN runs' = DOMAIN runs
  BY <1>4, <1>5, SaveRunStands
<1>7. S \subseteq DOMAIN cands /\ S \in SUBSET Candidate
  BY <1>2, <1>5 DEF ThreadsInv, RunsHoldRows, PipelineTypeOK, Run
<1>8. status \in {"AwaitingVerdict", "FailedValidation", "Failed"}
  BY <1>2, <1>5 DEF StatusAfter, Outcome
<1>9. row \in Task
  <2>1. "verdict" \in TaskPc /\ status \in TaskStatus
    BY <1>8 DEF TaskPc, TaskStatus, CandStatus
  <2> QED BY <1>3, <1>7, <2>1, IdleIsTask DEF Task
<1>10. row.pc = "verdict" /\ row.status = status /\ row.todo = S
  BY <1>3 DEF Idle
<1>11. Knows(row)'
  BY <1>4, <1>7, <1>8, <1>10 DEF Knows, SubmitPc
<1> QED BY <1>4, <1>6, <1>9, <1>11 DEF WriteStep, StepOf

-----------------------------------------------------------------------------
(* Steps that write the table of candidates *)

\* Rows are added or replaced.
CandsMove ==
  /\ DOMAIN cands \subseteq DOMAIN cands'
  /\ DOMAIN cands' \subseteq Candidate /\ cands' \in [DOMAIN cands' -> CandidateRow]

LEMMA CandsMoveStands ==
  ASSUME ThreadsInv, CandsMove, UNCHANGED <<ledgerVars, runs, origin, autoRun>>
  PROVE  Grows /\ TablesStand'
<1> USE DEF ThreadsInv, CandsMove, ledgerVars
<1>1. PipelineTypeOK'
  BY DEF PipelineTypeOK, LedgerTypeOK
<1>2. RunsHoldRows'
  BY DEF RunsHoldRows
<1>3. OriginsAreRows'
  BY DEF OriginsAreRows
<1>4. Grows
  BY DEF Grows
<1> QED BY <1>1, <1>2, <1>3, <1>4 DEF TablesStand

LEMMA MoveOneWrites ==
  ASSUME ThreadsInv, NEW w \in Worker, MoveOne(w), UNCHANGED autoRun
  PROVE  WriteStep(w)
<1>1. PICK t : t = task[w] /\ t \in Task /\ Knows(t)
  BY DEF ThreadsInv
<1>2. PICK c \in t.todo :
        /\ t.pc \in {"validating", "verdict", "release"}
        /\ cands' = Move({c}, t.status)
        /\ task' = [task EXCEPT ![w] = AfterMove([t EXCEPT !.todo = t.todo \ {c}])]
        /\ UNCHANGED <<ledgerVars, runs, origin>>
  BY <1>1 DEF MoveOne, Goto
<1>3. t.status \in CandStatus /\ t.status # "Approved" /\ t.todo \subseteq DOMAIN cands
  BY <1>1, <1>2 DEF Knows, CandStatus
<1>4. CandsMove
  <2>1. PipelineTypeOK
    BY DEF ThreadsInv
  <2>2. /\ DOMAIN cands' = DOMAIN cands
        /\ cands' \in [DOMAIN cands -> CandidateRow]
        /\ \A d \in DOMAIN cands : /\ d # c => cands'[d] = cands[d]
                                   /\ d = c => cands'[d].status = t.status
    BY <1>2, <1>3, <2>1, MoveRows
  <2> QED BY <1>3, <2>1, <2>2 DEF CandsMove, PipelineTypeOK, ThreadsInv
<1>5. Grows /\ TablesStand'
  BY <1>2, <1>4, CandsMoveStands
<1>6. PICK rest : rest = t.todo \ {c}
  OBVIOUS
<1>7. PICK u : u = [t EXCEPT !.todo = rest]
  OBVIOUS
<1>8. /\ u \in Task /\ u.pc = t.pc /\ u.todo = rest /\ u.status = t.status /\ u.run = t.run
      /\ rest \subseteq DOMAIN cands
  BY <1>1, <1>3, <1>6, <1>7 DEF Task
<1>9. PICK row : row = AfterMove(u)
  OBVIOUS
<1>10. \/ row = u
       \/ row = [u EXCEPT !.pc = "start_run", !.status = NoOne] /\ u.pc = "validating"
       \/ row = Idle
  BY <1>9 DEF AfterMove
<1>11. row \in Task
  <2>1. "start_run" \in TaskPc /\ NoOne \in TaskStatus
    BY DEF TaskPc, TaskStatus
  <2>2. [u EXCEPT !.pc = "start_run", !.status = NoOne] \in Task
    BY <1>8, <2>1 DEF Task
  <2> QED BY <1>8, <1>10, <2>2, IdleIsTask
<1>12. \/ row = Idle
       \/ /\ row.todo = rest /\ row.run = t.run
          /\ \/ row.pc = t.pc /\ row.status = t.status
             \/ row.pc = "start_run" /\ t.pc = "validating"
  BY <1>8, <1>10 DEF Task
<1>13. Knows(row)'
  <2>1. rest \subseteq DOMAIN cands' /\ runs' = runs
    BY <1>2, <1>4, <1>8 DEF CandsMove
  <2>2. CASE row = Idle
    BY <2>2 DEF Knows, SubmitPc, Idle
  <2>3. CASE row.pc = "start_run" /\ t.pc = "validating" /\ row.todo = rest /\ row.run = t.run
    BY <1>1, <2>1, <2>3 DEF Knows, SubmitPc
  <2>4. CASE row.pc = t.pc /\ row.status = t.status /\ row.todo = rest /\ row.run = t.run
    BY <1>1, <1>2, <2>1, <2>4 DEF Knows, SubmitPc
  <2> QED BY <1>12, <2>2, <2>3, <2>4
<1>14. task' = [task EXCEPT ![w] = row]
  BY <1>2, <1>6, <1>7, <1>9
<1> QED BY <1>5, <1>11, <1>13, <1>14 DEF WriteStep, StepOf

LEMMA VerdictSaveWrites ==
  ASSUME ThreadsInv, NEW w \in Worker,
         \/ VerdictSave(w, "approve", "Approved", "Approve")
         \/ VerdictSave(w, "reject", "Rejected", "Reject"),
         UNCHANGED autoRun
  PROVE  WriteStep(w)
<1>1. PICK c : c = task[w].cand
  OBVIOUS
<1>2. /\ c \in DOMAIN cands
      /\ \/ cands' = Verdict(c, "Approved", "Approve")
         \/ cands' = Verdict(c, "Rejected", "Reject")
      /\ task' = [task EXCEPT ![w] = Idle]
      /\ UNCHANGED <<ledgerVars, runs, origin>>
  BY <1>1 DEF VerdictSave, Return, Goto, At, ThreadsInv, Knows
<1>3. CandsMove
  <2>1. cands[c] \in CandidateRow /\ DOMAIN cands \subseteq Candidate
        /\ cands \in [DOMAIN cands -> CandidateRow]
    BY <1>2 DEF ThreadsInv, PipelineTypeOK
  <2>2. PICK row \in CandidateRow : cands' = Put(cands, c, row)
    <3>1. /\ [cands[c] EXCEPT !.status = "Approved", !.verdict = "Approve"] \in CandidateRow
          /\ [cands[c] EXCEPT !.status = "Rejected", !.verdict = "Reject"] \in CandidateRow
      BY <2>1 DEF CandidateRow, CandStatus
    <3> QED BY <1>2, <3>1 DEF Verdict
  <2> QED BY <1>2, <2>1, <2>2 DEF CandsMove, Put
<1>4. Grows /\ TablesStand'
  BY <1>2, <1>3, CandsMoveStands
<1>5. Idle \in Task /\ Knows(Idle)'
  BY IdleIsTask DEF Knows, Idle, SubmitPc
<1> QED BY <1>2, <1>4, <1>5 DEF WriteStep, StepOf

LEMMA SubmitSaveWrites ==
  ASSUME ThreadsInv, NEW w \in Worker, SubmitSave(w), UNCHANGED autoRun
  PROVE  WriteStep(w)
<1>1. PICK t : t = task[w] /\ t \in Task /\ Knows(t)
  BY DEF ThreadsInv
<1>2. PICK row : row = [cands[t.cand] EXCEPT !.status = "Submitted", !.fact = t.new,
                                              !.superseded = t.old]
  OBVIOUS
<1>3. /\ t.pc = "submitted"
      /\ cands' = Put(cands, t.cand, row)
      /\ task' = [task EXCEPT ![w] = Idle]
      /\ UNCHANGED <<ledgerVars, runs, origin>>
  BY <1>1, <1>2 DEF SubmitSave, Return, Goto, At
<1>4. t.cand \in DOMAIN cands
  BY <1>1, <1>3 DEF Knows, SubmitPc
<1>5. /\ cands[t.cand] \in CandidateRow /\ DOMAIN cands \subseteq Candidate
      /\ cands \in [DOMAIN cands -> CandidateRow]
  BY <1>4 DEF ThreadsInv, PipelineTypeOK
<1>6. row \in CandidateRow
  <2>1. t.new \in FactId \cup {NoFact} /\ t.old \in FactId \cup {NoFact}
    BY <1>1 DEF Task
  <2> QED BY <1>2, <1>4, <1>5, <2>1 DEF CandidateRow, CandStatus
<1>7. CandsMove
  BY <1>3, <1>4, <1>5, <1>6 DEF CandsMove, Put
<1>8. Grows /\ TablesStand'
  BY <1>3, <1>7, CandsMoveStands
<1>9. Idle \in Task /\ Knows(Idle)'
  BY IdleIsTask DEF Knows, Idle, SubmitPc
<1> QED BY <1>3, <1>8, <1>9 DEF WriteStep, StepOf

-----------------------------------------------------------------------------
(* Steps that write the ledger *)

LEMMA AddEntityWrites ==
  ASSUME ThreadsInv, NEW w \in Worker, NEW e \in EntityId, AddEntity(w, e), UNCHANGED autoRun
  PROVE  WriteStep(w)
<1>1. PICK t : t = task[w] /\ t \in Task /\ Knows(t)
  BY DEF ThreadsInv
<1>2. PICK entity : entity = [name |-> Text[t.cand].subject, type |-> t.status]
  OBVIOUS
<1>3. PICK row : row = [t EXCEPT !.pc = "target", !.entity = e, !.status = NoOne]
  OBVIOUS
<1>4. /\ t.pc = "add_entity"
      /\ entities' = Put(entities, e, entity)
      /\ task' = [task EXCEPT ![w] = row]
      /\ UNCHANGED <<facts, snapshots, cands, runs, origin>>
  BY <1>1, <1>2, <1>3 DEF AddEntity, At, Goto, Subject
<1>5. t.cand \in Candidate /\ t.cand \in DOMAIN cands /\ t.status \in EntityType
  BY <1>1, <1>4 DEF Knows, SubmitPc, ThreadsInv, PipelineTypeOK
<1>6. entity \in Entity
  BY <1>2, <1>5, PipelineAssumption DEF CandidateText, Entity
<1>7. DOMAIN entities' \subseteq EntityId /\ entities' \in [DOMAIN entities' -> Entity]
  BY <1>4, <1>6, PutType DEF ThreadsInv, PipelineTypeOK, LedgerTypeOK
<1>8. TablesStand'
  <2>1. PipelineTypeOK'
    BY <1>4, <1>7 DEF ThreadsInv, PipelineTypeOK, LedgerTypeOK
  <2> QED BY <1>4, <2>1 DEF ThreadsInv, TablesStand, RunsHoldRows,
                            OriginsAreRows
<1>9. Grows
  BY <1>4 DEF Grows
<1>10. row \in Task
  <2>1. "target" \in TaskPc /\ NoOne \in TaskStatus
    BY DEF TaskPc, TaskStatus
  <2> QED BY <1>1, <1>3, <2>1 DEF Task
<1>11. /\ row.pc = "target" /\ row.entity = e
       /\ row.cand = t.cand /\ row.todo = t.todo /\ row.asked = t.asked
  BY <1>1, <1>3 DEF Task
<1>12. Knows(row)'
  BY <1>1, <1>4, <1>11 DEF Knows, SubmitPc
<1> QED BY <1>4, <1>8, <1>9, <1>10, <1>12 DEF WriteStep, StepOf

\* Facts are added, or their status moves.
FactsMove ==
  /\ DOMAIN facts \subseteq DOMAIN facts'
  /\ DOMAIN facts' \subseteq FactId /\ facts' \in [DOMAIN facts' -> Fact]

LEMMA FactsMoveStands ==
  ASSUME ThreadsInv, FactsMove, UNCHANGED <<entities, snapshots, cands, runs, autoRun>>,
         \A f \in DOMAIN origin' : f \in DOMAIN facts' /\ origin'[f] \in DOMAIN cands
  PROVE  Grows /\ TablesStand'
<1> USE DEF ThreadsInv, FactsMove
<1>1. PipelineTypeOK'
  BY DEF PipelineTypeOK, LedgerTypeOK
<1>2. RunsHoldRows' /\ OriginsAreRows'
  BY DEF RunsHoldRows, OriginsAreRows
<1>3. Grows
  BY DEF Grows
<1> QED BY <1>1, <1>2, <1>3 DEF TablesStand

LEMMA StatusMoves ==
  ASSUME ThreadsInv, FactsMove, UNCHANGED <<cands, origin>>
  PROVE  \A f \in DOMAIN origin' : f \in DOMAIN facts' /\ origin'[f] \in DOMAIN cands
BY DEF ThreadsInv, OriginsAreRows, FactsMove

LEMMA FactIsAdded ==
  ASSUME ThreadsInv, NEW f \in FactId, NEW t \in Task, NEW status \in FactStatus,
         t.cand \in DOMAIN cands, t.entity \in EntityId,
         facts' = Put(facts, f, FactOf(t, status)), origin' = Put(origin, f, t.cand),
         UNCHANGED <<entities, snapshots, cands, runs, autoRun>>
  PROVE  Grows /\ TablesStand' /\ f \in DOMAIN facts'
<1>1. PICK row : row = FactOf(t, status)
  OBVIOUS
<1>2. t.cand \in Candidate /\ t.old \in FactId \cup {NoFact}
  BY DEF ThreadsInv, PipelineTypeOK, Task
<1>3. row \in Fact
  <2>1. Text[t.cand] \in CandidateText
    BY <1>2, PipelineAssumption
  <2>2. /\ Text[t.cand].predicate \in Predicate /\ Text[t.cand].value \in Value
        /\ Text[t.cand].time \in StoryTime
    BY <2>1 DEF CandidateText
  <2> QED BY <1>1, <1>2, <2>2, NewFactType DEF FactOf, NewFact
<1>4. DOMAIN facts' = DOMAIN facts \cup {f}
  BY DEF Put
<1>5. FactsMove
  BY <1>1, <1>3, <1>4, PutType DEF FactsMove, ThreadsInv, PipelineTypeOK, LedgerTypeOK
<1>6. ASSUME NEW g \in DOMAIN origin'
      PROVE  g \in DOMAIN facts' /\ origin'[g] \in DOMAIN cands
  BY <1>4, <1>6 DEF Put, ThreadsInv, OriginsAreRows
<1> QED BY <1>4, <1>5, <1>6, FactsMoveStands

LEMMA RetireOldWrites ==
  ASSUME ThreadsInv, NEW w \in Worker, NEW f \in FactId, RetireOld(w, f), UNCHANGED autoRun
  PROVE  WriteStep(w)
<1>1. PICK t : t = task[w] /\ t \in Task /\ Knows(t)
  BY DEF ThreadsInv
<1>2. PICK row : row = [t EXCEPT !.pc = "replace", !.new = f]
  OBVIOUS
<1>3. /\ t.pc = "retire"
      /\ facts' = Retired(t.old, f)
      /\ task' = [task EXCEPT ![w] = row]
      /\ UNCHANGED <<entities, snapshots, cands, runs, origin>>
  BY <1>1, <1>2 DEF RetireOld, At, Goto
<1>4. t.old \in DOMAIN facts /\ facts[t.old] \in Fact /\ LedgerTypeOK
  BY <1>1, <1>3 DEF Knows, ThreadsInv, PipelineTypeOK, LedgerTypeOK
<1>5. DOMAIN facts' = DOMAIN facts /\ facts' \in [DOMAIN facts -> Fact]
  BY <1>3, <1>4, RetiredType
<1>6. FactsMove
  BY <1>4, <1>5 DEF FactsMove, LedgerTypeOK
<1>7. Grows /\ TablesStand'
  BY <1>3, <1>6, StatusMoves, FactsMoveStands
<1>8. row \in Task
  <2>1. "replace" \in TaskPc
    BY DEF TaskPc
  <2> QED BY <1>1, <1>2, <2>1 DEF Task
<1>9. /\ row.pc = "replace" /\ row.new = f
       /\ row.cand = t.cand /\ row.todo = t.todo /\ row.entity = t.entity /\ row.old = t.old
  BY <1>1, <1>2 DEF Task
<1>10. Knows(row)'
  BY <1>1, <1>3, <1>5, <1>9 DEF Knows, SubmitPc
<1> QED BY <1>3, <1>7, <1>8, <1>10 DEF WriteStep, StepOf

LEMMA AddFactWrites ==
  ASSUME ThreadsInv, NEW w \in Worker, UNCHANGED autoRun,
         AddReplacement(w) \/ (\E f \in FactId : AddFact(w, f))
  PROVE  WriteStep(w)
<1>1. PICK t : t = task[w] /\ t \in Task /\ Knows(t)
  BY DEF ThreadsInv
<1>2. PICK f \in FactId, status \in FactStatus, pc \in {"activate", "submitted"} :
        /\ t.pc \in {"replace", "create"}
        /\ pc = "activate" => t.pc = "create"
        /\ facts' = Put(facts, f, FactOf(t, status))
        /\ origin' = Put(origin, f, t.cand)
        /\ task' = [task EXCEPT ![w] = [t EXCEPT !.pc = pc, !.new = f]]
        /\ UNCHANGED <<entities, snapshots, cands, runs>>
  <2>1. CASE AddReplacement(w)
    <3>1. t.pc = "replace" /\ t.new \in FactId
      BY <1>1, <2>1 DEF AddReplacement, At, Knows
    <3>2. [t EXCEPT !.pc = "submitted"] = [t EXCEPT !.pc = "submitted", !.new = t.new]
      BY <1>1 DEF Task
    <3>3. "Active" \in FactStatus
      BY DEF FactStatus
    <3>4. /\ facts' = Put(facts, t.new, FactOf(t, "Active"))
          /\ origin' = Put(origin, t.new, t.cand)
          /\ task' = [task EXCEPT ![w] = [t EXCEPT !.pc = "submitted", !.new = t.new]]
          /\ UNCHANGED <<entities, snapshots, cands, runs>>
      BY <1>1, <2>1, <3>2 DEF AddReplacement, Advance, Goto
    <3> QED BY <3>1, <3>3, <3>4
  <2>2. ASSUME NEW f \in FactId, AddFact(w, f)
        PROVE  /\ t.pc = "create"
               /\ facts' = Put(facts, f, FactOf(t, "NotInCanon"))
               /\ origin' = Put(origin, f, t.cand)
               /\ task' = [task EXCEPT ![w] = [t EXCEPT !.pc = "activate", !.new = f]]
               /\ UNCHANGED <<entities, snapshots, cands, runs>>
    BY <1>1, <2>2 DEF AddFact, At, Goto
  <2>3. "NotInCanon" \in FactStatus
    BY DEF FactStatus
  <2> QED BY <2>1, <2>2, <2>3
<1>3. PICK row : row = [t EXCEPT !.pc = pc, !.new = f]
  OBVIOUS
<1>4. t.cand \in DOMAIN cands /\ t.entity \in EntityId
  BY <1>1, <1>2 DEF Knows, SubmitPc
<1>5. Grows /\ TablesStand' /\ f \in DOMAIN facts'
  BY <1>1, <1>2, <1>4, FactIsAdded
<1>6. row \in Task
  <2>1. pc \in TaskPc
    BY <1>2 DEF TaskPc
  <2> QED BY <1>1, <1>3, <2>1 DEF Task
<1>7. /\ row.pc = pc /\ row.new = f
      /\ row.cand = t.cand /\ row.todo = t.todo /\ row.entity = t.entity /\ row.old = t.old
  BY <1>1, <1>3 DEF Task
<1>8. Knows(row)'
  BY <1>1, <1>2, <1>4, <1>5, <1>7 DEF Knows, SubmitPc
<1> QED BY <1>2, <1>3, <1>5, <1>6, <1>8 DEF WriteStep, StepOf

LEMMA ActivateFactWrites ==
  ASSUME ThreadsInv, NEW w \in Worker, ActivateFact(w), UNCHANGED autoRun
  PROVE  WriteStep(w)
<1>1. PICK t : t = task[w] /\ t \in Task /\ Knows(t)
  BY DEF ThreadsInv
<1>2. PICK row : row = [t EXCEPT !.pc = "submitted"]
  OBVIOUS
<1>3. /\ t.pc = "activate"
      /\ facts' = Restatus(t.new, "Active")
      /\ task' = [task EXCEPT ![w] = row]
      /\ UNCHANGED <<entities, snapshots, cands, runs, origin>>
  BY <1>1, <1>2 DEF ActivateFact, At, Advance, Goto
<1>4. t.new \in DOMAIN facts /\ facts[t.new] \in Fact /\ LedgerTypeOK
  BY <1>1, <1>3 DEF Knows, ThreadsInv, PipelineTypeOK, LedgerTypeOK
<1>5. DOMAIN facts' = DOMAIN facts /\ facts' \in [DOMAIN facts -> Fact]
  BY <1>3, <1>4, RestatusType DEF FactStatus
<1>6. FactsMove
  BY <1>4, <1>5 DEF FactsMove, LedgerTypeOK
<1>7. Grows /\ TablesStand'
  BY <1>3, <1>6, StatusMoves, FactsMoveStands
<1>8. row \in Task
  <2>1. "submitted" \in TaskPc
    BY DEF TaskPc
  <2> QED BY <1>1, <1>2, <2>1 DEF Task
<1>9. /\ row.pc = "submitted" /\ row.new = t.new
       /\ row.cand = t.cand /\ row.todo = t.todo /\ row.entity = t.entity /\ row.old = t.old
  BY <1>1, <1>2 DEF Task
<1>10. Knows(row)'
  BY <1>1, <1>3, <1>5, <1>9 DEF Knows, SubmitPc
<1> QED BY <1>3, <1>7, <1>8, <1>10 DEF WriteStep, StepOf

-----------------------------------------------------------------------------
(* Every step *)

\* What a thread may do that writes.
Writes(w) ==
  \/ AddRun(w) \/ MoveOne(w) \/ StartRun(w) \/ EndRun(w) \/ CancelSave(w)
  \/ VerdictSave(w, "approve", "Approved", "Approve")
  \/ VerdictSave(w, "reject", "Rejected", "Reject")
  \/ \E e \in EntityId : AddEntity(w, e)
  \/ \E f \in FactId : RetireOld(w, f) \/ AddFact(w, f)
  \/ AddReplacement(w) \/ ActivateFact(w) \/ SubmitSave(w)

LEMMA ThreadsStep ==
  ThreadsNext => /\ \/ \E w \in Worker : Reads(w) \/ Writes(w) \/ OneAccess(w)
                    \/ Crash
                 /\ UNCHANGED autoRun
BY DEF ThreadsNext, Validate, Cancel, Approve, Reject, Submit, Reads, Writes

LEMMA WritesStep ==
  ASSUME ThreadsInv, NEW w \in Worker, Writes(w), UNCHANGED autoRun
  PROVE  WriteStep(w)
<1>1. CASE AddRun(w) \/ MoveOne(w) \/ StartRun(w) \/ EndRun(w) \/ CancelSave(w)
  BY <1>1, AddRunWrites, MoveOneWrites, StartRunWrites, EndRunWrites
<1>2. CASE \/ VerdictSave(w, "approve", "Approved", "Approve")
           \/ VerdictSave(w, "reject", "Rejected", "Reject")
           \/ SubmitSave(w)
  BY <1>2, VerdictSaveWrites, SubmitSaveWrites
<1>3. CASE \/ \E e \in EntityId : AddEntity(w, e)
           \/ \E f \in FactId : RetireOld(w, f) \/ AddFact(w, f)
           \/ AddReplacement(w) \/ ActivateFact(w)
  BY <1>3, AddEntityWrites, RetireOldWrites, AddFactWrites, ActivateFactWrites
<1> QED BY <1>1, <1>2, <1>3 DEF Writes

LEMMA OneAccessStands ==
  ASSUME ThreadsInv, NEW w \in Worker, OneAccess(w), UNCHANGED autoRun
  PROVE  Grows /\ TablesStand' /\ UNCHANGED task
<1>1. ASSUME NEW S \in SUBSET Candidate, PersistExtracted(S)
      PROVE  Grows /\ TablesStand'
  <2>1. DOMAIN cands \subseteq Candidate /\ cands \in [DOMAIN cands -> CandidateRow]
    BY DEF ThreadsInv, PipelineTypeOK
  <2>2. NewCandidate \in CandidateRow /\ NewCandidate.status = "Extracted"
    BY DEF NewCandidate, CandidateRow, CandStatus
  <2>3. /\ cands' = [c \in DOMAIN cands \cup S |-> IF c \in S THEN NewCandidate ELSE cands[c]]
        /\ S \cap DOMAIN cands = {}
        /\ UNCHANGED <<ledgerVars, runs>>
    BY <1>1 DEF PersistExtracted
  <2>4. CandsMove
    BY <2>1, <2>2, <2>3 DEF CandsMove
  <2> QED BY <2>3, <2>4, CandsMoveStands DEF OneAccess
<1>2. CASE /\ \/ \E s \in SnapshotId, as_of \in StoryTime \cup {NoTime} : CreateSnapshot(s, as_of)
              \/ \E s \in SnapshotId : FreezeSnapshot(s)
           /\ UNCHANGED <<cands, runs>>
  <2>1. LedgerTypeOK'
    BY <1>2, LedgerStepType DEF LedgerNext, ThreadsInv, PipelineTypeOK
  <2>2. UNCHANGED <<facts, cands, runs, origin, task>>
    BY <1>2 DEF CreateSnapshot, FreezeSnapshot, OneAccess
  <2>3. PipelineTypeOK'
    BY <2>1, <2>2 DEF ThreadsInv, PipelineTypeOK
  <2> QED BY <2>2, <2>3 DEF ThreadsInv, TablesStand, RunsHoldRows,
                            OriginsAreRows, Grows
<1> QED BY <1>1, <1>2 DEF OneAccess

LEMMA SameTasks ==
  ASSUME ThreadsInv, Grows, UNCHANGED task
  PROVE  task' \in [Worker -> Task] /\ \A v \in Worker : Knows(task[v])'
<1>1. ASSUME NEW v \in Worker
      PROVE  Knows(task[v])'
  <2>1. PICK t : t = task[v] /\ Knows(t)
    BY DEF ThreadsInv
  <2>2. Knows(t)'
    BY <2>1, KnowsStays
  <2>3. task'[v] = t
    BY <2>1
  <2> QED BY <2>2, <2>3 DEF Knows
<1> QED BY <1>1 DEF ThreadsInv

LEMMA ThreadsStepInv == ThreadsInv /\ [ThreadsNext]_threadVars => ThreadsInv'
<1> SUFFICES ASSUME ThreadsInv, [ThreadsNext]_threadVars
             PROVE  ThreadsInv'
  OBVIOUS
<1>0. TablesStand
  BY DEF ThreadsInv, TablesStand
<1>1. CASE UNCHANGED threadVars
  <2> USE <1>1 DEF threadVars
  <2>1. TablesStand'
    BY <1>0 DEF TablesStand, PipelineTypeOK, LedgerTypeOK, RunsHoldRows, OriginsAreRows
  <2>2. Grows
    BY DEF Grows
  <2> QED BY <2>1, <2>2, SameTasks DEF TablesStand, ThreadsInv
<1>2. ASSUME NEW w \in Worker, Reads(w), UNCHANGED autoRun
      PROVE  ThreadsInv'
  <2>1. StepOf(w) /\ UNCHANGED <<ledgerVars, cands, runs, origin>>
    BY <1>2, ReadsStep DEF ReadStep
  <2>2. TablesStand'
    BY <1>0, <1>2, <2>1
       DEF TablesStand, PipelineTypeOK, LedgerTypeOK, RunsHoldRows, OriginsAreRows, ledgerVars
  <2>3. Grows
    BY <2>1 DEF Grows, ledgerVars
  <2> QED BY <2>1, <2>2, <2>3, OneMoves DEF TablesStand, ThreadsInv
<1>3. ASSUME NEW w \in Worker, Writes(w), UNCHANGED autoRun
      PROVE  ThreadsInv'
  BY <1>3, WritesStep, OneMoves DEF WriteStep, TablesStand, ThreadsInv
<1>4. ASSUME NEW w \in Worker, OneAccess(w), UNCHANGED autoRun
      PROVE  ThreadsInv'
  BY <1>4, OneAccessStands, SameTasks DEF TablesStand, ThreadsInv
<1>5. CASE Crash /\ UNCHANGED autoRun
  <2>1. UNCHANGED <<entities, facts, snapshots, cands, origin, autoRun>>
    BY <1>5 DEF Crash, ledgerVars
  <2>2. runs' = EmptyTable /\ DOMAIN runs' = {} /\ runs' \in [DOMAIN runs' -> Run]
    BY <1>5 DEF Crash, EmptyTable
  <2>3. PipelineTypeOK'
    BY <2>1, <2>2 DEF ThreadsInv, PipelineTypeOK, LedgerTypeOK
  <2>4. RunsHoldRows' /\ OriginsAreRows'
    BY <2>1, <2>2 DEF ThreadsInv, RunsHoldRows, OriginsAreRows
  <2>5. task' = [w \in Worker |-> Idle]
    BY <1>5 DEF Crash
  <2>6. task' \in [Worker -> Task]
    BY <2>5, IdleIsTask
  <2>7. ASSUME NEW v \in Worker
        PROVE  Knows(task[v])'
    <3>1. task'[v] = Idle
      BY <2>5
    <3> QED BY <3>1 DEF Knows, Idle, SubmitPc
  <2> QED BY <2>3, <2>4, <2>6, <2>7 DEF ThreadsInv
<1> QED BY <1>1, <1>2, <1>3, <1>4, <1>5, ThreadsStep

LEMMA ThreadsInitInv == ThreadsInit => ThreadsInv
<1> SUFFICES ASSUME ThreadsInit
             PROVE  ThreadsInv
  OBVIOUS
<1>1. PipelineTypeOK
  BY PipelineInitInv DEF ThreadsInit, PipelineInv
<1>2. RunsHoldRows /\ OriginsAreRows
  BY DEF ThreadsInit, PipelineInit, RunsHoldRows, OriginsAreRows, EmptyTable
<1>3. task \in [Worker -> Task] /\ \A w \in Worker : Knows(task[w])
  BY IdleIsTask DEF ThreadsInit
<1> QED BY <1>1, <1>2, <1>3 DEF ThreadsInv

LEMMA ThreadsInvariant == ThreadsSpec => []ThreadsInv
BY ThreadsInitInv, ThreadsStepInv, PTL DEF ThreadsSpec

-----------------------------------------------------------------------------
(* Approvals come before facts *)

\* A submit was begun for a candidate that was Approved.
ApprovalInv ==
  /\ approvals \subseteq DOMAIN cands
  /\ \A c \in DOMAIN cands : cands[c].status = "Approved" => c \in approvals
  /\ \A w \in Worker : task[w].pc \in SubmitPc => task[w].cand \in approvals
  /\ WrittenAsApproved

\* A thread that is in a submit after its step was in it for the same candidate
\* before, or has just read that the candidate is Approved.
GoesOnFor(w) ==
  task'[w].pc \in SubmitPc =>
    \/ task'[w].cand \in DOMAIN cands /\ cands[task'[w].cand].status = "Approved"
    \/ task[w].pc \in SubmitPc /\ task'[w].cand = task[w].cand

\* The pcs at which a submit has an id for its fact.
FactPc == {"replace", "activate", "submitted"}

\* The steps of a submit that write facts.
FactWrites(w) ==
  \/ \E f \in FactId : RetireOld(w, f) \/ AddFact(w, f)
  \/ AddReplacement(w) \/ ActivateFact(w)

LEMMA ReadsGoOn ==
  ASSUME ThreadsInv, NEW w \in Worker, Reads(w)
  PROVE  GoesOnFor(w) /\ task'[w].pc \notin FactPc
<1>1. PICK t : t = task[w] /\ t \in Task
  BY DEF ThreadsInv
<1>2. ASSUME NEW row, task' = [task EXCEPT ![w] = row]
      PROVE  task'[w] = row
  BY <1>2 DEF ThreadsInv
<1>3. Idle.pc = "idle"
  BY DEF Idle
<1>4. ASSUME NEW r \in RunId, NEW S \in SUBSET Candidate, NEW sn \in SnapshotId \cup {NoSnapshot},
             TriggerCheck(w, r, S, sn)
      PROVE  task'[w].pc = "add_run"
  BY <1>2, <1>4 DEF TriggerCheck, Goto, Idle
<1>5. ASSUME NEW forbidden \in BOOLEAN, NEW crashed \in BOOLEAN, Evaluate(w, forbidden, crashed)
      PROVE  task'[w].pc = "end_run"
  <2>1. PICK status : task' = [task EXCEPT ![w] = [t EXCEPT !.pc = "end_run", !.status = status]]
    BY <1>1, <1>5 DEF Evaluate, Goto
  <2>2. [t EXCEPT !.pc = "end_run", !.status = status].pc = "end_run"
    BY <1>1 DEF Task
  <2> QED BY <1>2, <2>1, <2>2
<1>6. ASSUME NEW r \in RunId, CancelCheck(w, r)
      PROVE  task'[w].pc = "cancel"
  BY <1>2, <1>6 DEF CancelCheck, Goto, Idle
<1>7. CancelSelect(w) => task'[w].pc \in {"idle", "release"}
  BY <1>2 DEF CancelSelect, Goto, Idle
<1>8. ASSUME NEW c \in Candidate, NEW pc \in {"approve", "reject"}, NEW from,
             VerdictCheck(w, c, pc, from)
      PROVE  task'[w].pc = pc
  BY <1>2, <1>8 DEF VerdictCheck, Goto, Idle
<1>9. ASSUME NEW c \in Candidate, NEW asked \in Asked \cup {NoFact}, SubmitCheck(w, c, asked)
      PROVE  GoesOnFor(w) /\ task'[w].pc \notin FactPc
  <2>1. task'[w] = [Idle EXCEPT !.pc = "resolve", !.cand = c, !.asked = asked]
    BY <1>2, <1>9 DEF SubmitCheck, Goto
  <2>2. task'[w].cand = c /\ task'[w].pc = "resolve"
    BY <2>1 DEF Idle
  <2> QED BY <1>9, <2>2 DEF SubmitCheck, GoesOnFor, FactPc
<1>10. ASSUME NEW e \in EntityId, ResolveFound(w, e)
       PROVE  GoesOnFor(w) /\ task'[w].pc \notin FactPc
  <2>1. t.pc = "resolve" /\ task' = [task EXCEPT ![w] = [t EXCEPT !.pc = "target", !.entity = e]]
    BY <1>1, <1>10 DEF ResolveFound, Goto, At
  <2>2. PICK row : row = [t EXCEPT !.pc = "target", !.entity = e]
    OBVIOUS
  <2>3. row.cand = t.cand /\ row.pc = "target"
    BY <1>1, <2>2 DEF Task
  <2> QED BY <1>1, <1>2, <2>1, <2>2, <2>3 DEF GoesOnFor, SubmitPc, FactPc
<1>11. ASSUME ResolveMissing(w)
       PROVE  GoesOnFor(w) /\ task'[w].pc \notin FactPc
  <2>1. t.pc = "resolve" /\ task' = [task EXCEPT ![w] = [t EXCEPT !.pc = "new_entity"]]
    BY <1>1, <1>11 DEF ResolveMissing, Advance, Goto, At
  <2>2. PICK row : row = [t EXCEPT !.pc = "new_entity"]
    OBVIOUS
  <2>3. row.cand = t.cand /\ row.pc = "new_entity"
    BY <1>1, <2>2 DEF Task
  <2> QED BY <1>1, <1>2, <2>1, <2>2, <2>3 DEF GoesOnFor, SubmitPc, FactPc
<1>12. ASSUME NEW y \in EntityType, EntityCheck(w, y)
       PROVE  GoesOnFor(w) /\ task'[w].pc \notin FactPc
  <2>1. /\ t.pc = "new_entity"
        /\ \/ task' = [task EXCEPT ![w] = Idle]
           \/ task' = [task EXCEPT ![w] = [t EXCEPT !.pc = "add_entity", !.status = y]]
    BY <1>1, <1>12 DEF EntityCheck, Return, Goto, At
  <2>2. PICK row : row = [t EXCEPT !.pc = "add_entity", !.status = y]
    OBVIOUS
  <2>3. row.cand = t.cand /\ row.pc = "add_entity"
    BY <1>1, <2>2 DEF Task
  <2> QED BY <1>1, <1>2, <1>3, <2>1, <2>2, <2>3 DEF GoesOnFor, SubmitPc, FactPc
<1>13. ASSUME ChooseTarget(w)
       PROVE  GoesOnFor(w) /\ task'[w].pc \notin FactPc
  <2>0. PICK old :
          /\ t.pc = "target"
          /\ \/ task' = [task EXCEPT ![w] = Idle]
             \/ task' = [task EXCEPT ![w] =
                           [t EXCEPT !.pc = IF old = NoFact THEN "create" ELSE "retire",
                                     !.old = old, !.asked = NoFact]]
    BY <1>1, <1>13 DEF ChooseTarget, Return, Goto, At
  <2>1. PICK pc \in {"create", "retire"} : pc = IF old = NoFact THEN "create" ELSE "retire"
    OBVIOUS
  <2>2. PICK row : row = [t EXCEPT !.pc = pc, !.old = old, !.asked = NoFact]
    OBVIOUS
  <2>3. row.cand = t.cand /\ row.pc = pc
    BY <1>1, <2>2 DEF Task
  <2>4. task'[w] = Idle \/ task'[w] = row
    BY <1>2, <2>0, <2>1, <2>2
  <2> QED BY <1>1, <1>3, <2>0, <2>1, <2>3, <2>4 DEF GoesOnFor, SubmitPc, FactPc
<1> QED BY <1>4, <1>5, <1>6, <1>7, <1>8, <1>9, <1>10, <1>11, <1>12, <1>13
        DEF Reads, GoesOnFor, SubmitPc, FactPc

LEMMA WritesGoOn ==
  ASSUME ThreadsInv, NEW w \in Worker, Writes(w)
  PROVE  GoesOnFor(w) /\ (task'[w].pc \in FactPc => FactWrites(w))
<1>1. PICK t : t = task[w] /\ t \in Task
  BY DEF ThreadsInv
<1>2. ASSUME NEW row, task' = [task EXCEPT ![w] = row]
      PROVE  task'[w] = row
  BY <1>2 DEF ThreadsInv
<1>3. Idle.pc = "idle"
  BY DEF Idle
<1>4. AddRun(w) => task'[w].pc = "validating"
  BY <1>1, <1>2 DEF AddRun, Goto, Task
<1>5. MoveOne(w) => task'[w].pc \notin SubmitPc
  <2> SUFFICES ASSUME MoveOne(w) PROVE task'[w].pc \notin SubmitPc
    OBVIOUS
  <2>1. PICK c \in t.todo :
          /\ t.pc \in {"validating", "verdict", "release"}
          /\ task' = [task EXCEPT ![w] = AfterMove([t EXCEPT !.todo = t.todo \ {c}])]
    BY <1>1 DEF MoveOne, Goto
  <2>2. PICK u : u = [t EXCEPT !.todo = t.todo \ {c}]
    OBVIOUS
  <2>3. u \in Task /\ u.pc = t.pc
    BY <1>1, <2>2 DEF Task
  <2>4. AfterMove(u).pc \in {t.pc, "start_run", "idle"}
    BY <1>3, <2>3 DEF AfterMove, Task
  <2> QED BY <1>2, <2>1, <2>2, <2>4 DEF SubmitPc
<1>6. StartRun(w) => task'[w].pc = "evaluate"
  BY <1>1, <1>2 DEF StartRun, Advance, Goto, Task
<1>7. EndRun(w) => task'[w].pc = "verdict"
  BY <1>2 DEF EndRun, Goto, Idle
<1>8. CancelSave(w) => task'[w].pc = "select"
  BY <1>1, <1>2 DEF CancelSave, Advance, Goto, Task
<1>9. VerdictSave(w, "approve", "Approved", "Approve") \/ VerdictSave(w, "reject", "Rejected", "Reject")
        => task'[w].pc = "idle"
  BY <1>2, <1>3 DEF VerdictSave, Return, Goto
<1>10. SubmitSave(w) => task'[w].pc = "idle"
  BY <1>2, <1>3 DEF SubmitSave, Return, Goto
<1>11. ASSUME NEW row, t.pc \in SubmitPc, row.cand = t.cand, task' = [task EXCEPT ![w] = row]
       PROVE  GoesOnFor(w)
  BY <1>1, <1>2, <1>11 DEF GoesOnFor
<1>12. ASSUME NEW e \in EntityId, AddEntity(w, e)
       PROVE  GoesOnFor(w) /\ task'[w].pc = "target"
  <2>1. /\ t.pc \in SubmitPc
        /\ task' = [task EXCEPT ![w] = [t EXCEPT !.pc = "target", !.entity = e, !.status = NoOne]]
    BY <1>1, <1>12 DEF AddEntity, Goto, At, SubmitPc
  <2>2. PICK row : row = [t EXCEPT !.pc = "target", !.entity = e, !.status = NoOne]
    OBVIOUS
  <2>3. row.cand = t.cand /\ row.pc = "target"
    BY <1>1, <2>2 DEF Task
  <2> QED BY <1>2, <1>11, <2>1, <2>2, <2>3
<1>13. ASSUME NEW f \in FactId, RetireOld(w, f) \/ AddFact(w, f)
       PROVE  GoesOnFor(w)
  <2>1. PICK pc :
          /\ t.pc \in SubmitPc
          /\ task' = [task EXCEPT ![w] = [t EXCEPT !.pc = pc, !.new = f]]
    BY <1>1, <1>13 DEF RetireOld, AddFact, Goto, At, SubmitPc
  <2>2. [t EXCEPT !.pc = pc, !.new = f].cand = t.cand
    BY <1>1 DEF Task
  <2> QED BY <1>11, <2>1, <2>2
<1>14. ASSUME AddReplacement(w) \/ ActivateFact(w)
       PROVE  GoesOnFor(w)
  <2>1. /\ t.pc \in SubmitPc
        /\ task' = [task EXCEPT ![w] = [t EXCEPT !.pc = "submitted"]]
    BY <1>1, <1>14 DEF AddReplacement, ActivateFact, Advance, Goto, At, SubmitPc
  <2>2. [t EXCEPT !.pc = "submitted"].cand = t.cand
    BY <1>1 DEF Task
  <2> QED BY <1>11, <2>1, <2>2
<1> QED BY <1>4, <1>5, <1>6, <1>7, <1>8, <1>9, <1>10, <1>12, <1>13, <1>14
        DEF Writes, FactWrites, GoesOnFor, SubmitPc, FactPc

\* A fact is written for the candidate of the submit that writes it.
LEMMA OriginGrows ==
  ASSUME NEW w \in Worker, Writes(w), NEW f \in DOMAIN origin'
  PROVE  \/ f \in DOMAIN origin /\ origin'[f] = origin[f]
         \/ task[w].pc \in SubmitPc /\ origin'[f] = task[w].cand
<1>1. CASE AddReplacement(w)
  BY <1>1 DEF AddReplacement, Put, At, SubmitPc
<1>2. ASSUME NEW g \in FactId, AddFact(w, g)
      PROVE  \/ f \in DOMAIN origin /\ origin'[f] = origin[f]
             \/ task[w].pc \in SubmitPc /\ origin'[f] = task[w].cand
  BY <1>2 DEF AddFact, Put, At, SubmitPc
<1>3. CASE UNCHANGED origin
  BY <1>3
<1>4. ASSUME NEW g \in FactId, RetireOld(w, g)
      PROVE  UNCHANGED origin
  BY <1>4 DEF RetireOld
<1>5. ASSUME NEW e \in EntityId, AddEntity(w, e)
      PROVE  UNCHANGED origin
  BY <1>5 DEF AddEntity
<1>6. ASSUME \/ AddRun(w) \/ MoveOne(w) \/ StartRun(w) \/ EndRun(w) \/ CancelSave(w)
             \/ VerdictSave(w, "approve", "Approved", "Approve")
             \/ VerdictSave(w, "reject", "Rejected", "Reject")
             \/ ActivateFact(w) \/ SubmitSave(w)
      PROVE  UNCHANGED origin
  BY <1>6 DEF AddRun, MoveOne, StartRun, EndRun, CancelSave, VerdictSave, ActivateFact, SubmitSave
<1> QED BY <1>1, <1>2, <1>3, <1>4, <1>5, <1>6 DEF Writes

\* What all steps have in common: approvals are recorded and never taken back.
LEMMA ApprovalsGrow ==
  ASSUME ThreadsInv, ApprovalInv, ThreadsNext, DOMAIN cands \subseteq DOMAIN cands'
  PROVE  /\ approvals \subseteq approvals' /\ approvals' \subseteq DOMAIN cands'
         /\ \A c \in DOMAIN cands' : cands'[c].status = "Approved" => c \in approvals'
BY DEF ApprovalInv, ThreadsNext

LEMMA ApprovalStep ==
  ASSUME ThreadsInv, ApprovalInv, [ThreadsNext]_threadVars
  PROVE  ApprovalInv'
<1>1. CASE UNCHANGED threadVars
  BY <1>1 DEF threadVars, ApprovalInv, WrittenAsApproved
<1>2. ASSUME ThreadsNext, NEW w \in Worker, Reads(w) \/ Writes(w)
      PROVE  ApprovalInv'
  <2>1. StepOf(w) /\ Grows /\ UNCHANGED autoRun
    BY <1>2, ThreadsStep, ReadsStep, WritesStep DEF ReadStep, WriteStep, Grows, ledgerVars
  <2>2. /\ approvals \subseteq approvals' /\ approvals' \subseteq DOMAIN cands'
        /\ \A c \in DOMAIN cands' : cands'[c].status = "Approved" => c \in approvals'
    BY <1>2, <2>1, ApprovalsGrow DEF Grows
  <2>3. \A v \in Worker : v # w => task'[v] = task[v]
    BY <2>1 DEF StepOf, ThreadsInv
  <2>4. GoesOnFor(w)
    BY <1>2, ReadsGoOn, WritesGoOn
  <2>5. ASSUME NEW v \in Worker, task'[v].pc \in SubmitPc
        PROVE  task'[v].cand \in approvals'
    BY <2>2, <2>3, <2>4, <2>5 DEF ApprovalInv, GoesOnFor
  <2>6. ASSUME NEW f \in DOMAIN origin'
        PROVE  origin'[f] \in approvals'
    <3>1. \/ f \in DOMAIN origin /\ origin'[f] = origin[f]
          \/ task[w].pc \in SubmitPc /\ origin'[f] = task[w].cand
      BY <1>2, <2>6, ReadsStep, OriginGrows DEF ReadStep
    <3> QED BY <2>2, <3>1 DEF ApprovalInv, WrittenAsApproved
  <2> QED BY <2>2, <2>5, <2>6 DEF ApprovalInv, WrittenAsApproved
<1>3. ASSUME ThreadsNext, NEW w \in Worker, OneAccess(w)
      PROVE  ApprovalInv'
  <2>1. DOMAIN cands \subseteq DOMAIN cands' /\ UNCHANGED <<task, origin>>
    BY <1>3, ThreadsStep, OneAccessStands DEF Grows, OneAccess
  <2>2. /\ approvals \subseteq approvals' /\ approvals' \subseteq DOMAIN cands'
        /\ \A c \in DOMAIN cands' : cands'[c].status = "Approved" => c \in approvals'
    BY <1>3, <2>1, ApprovalsGrow
  <2> QED BY <2>1, <2>2 DEF ApprovalInv, WrittenAsApproved
<1>4. ASSUME ThreadsNext, Crash
      PROVE  ApprovalInv'
  <2>1. UNCHANGED <<cands, origin>> /\ task' = [w \in Worker |-> Idle]
    BY <1>4 DEF Crash
  <2>2. /\ approvals \subseteq approvals' /\ approvals' \subseteq DOMAIN cands'
        /\ \A c \in DOMAIN cands' : cands'[c].status = "Approved" => c \in approvals'
    BY <1>4, <2>1, ApprovalsGrow
  <2>3. \A w \in Worker : task'[w].pc \notin SubmitPc
    BY <2>1 DEF Idle, SubmitPc
  <2> QED BY <2>1, <2>2, <2>3 DEF ApprovalInv, WrittenAsApproved
<1> QED BY <1>1, <1>2, <1>3, <1>4, ThreadsStep

LEMMA ApprovalInvariant == ThreadsSpec => []ApprovalInv
<1>1. ThreadsInit => ApprovalInv
  BY DEF ThreadsInit, PipelineInit, ApprovalInv, WrittenAsApproved, EmptyTable, Idle, SubmitPc
<1>2. ThreadsInv /\ ApprovalInv /\ [ThreadsNext]_threadVars => ApprovalInv'
  BY ApprovalStep
<1> QED BY <1>1, <1>2, ThreadsInvariant, PTL DEF ThreadsSpec

-----------------------------------------------------------------------------
(* What is submitted is written *)

\* What a submit has done by the steps that come after its first write.
HasWritten(t) ==
  /\ t.pc = "replace" =>
       /\ t.new \notin DOMAIN facts
       /\ t.old \in DOMAIN facts /\ facts[t.old].status = "Superseded"
  /\ t.pc \in {"activate", "submitted"} => t.new \in DOMAIN origin /\ origin[t.new] = t.cand
  /\ t.pc = "submitted" =>
       /\ facts[t.new].status \in InCanon
       /\ t.old # NoFact => t.old \in DOMAIN facts /\ facts[t.old].status = "Superseded"

\* c is backed by its fact, and what it has superseded is there.
Stands(c) ==
  LET f == cands[c].fact
      old == cands[c].superseded
  IN /\ f \in DOMAIN origin /\ origin[f] = c
     /\ facts[f].status \in InCanon
     /\ old # NoFact => old \in DOMAIN facts /\ facts[old].status = "Superseded"

NewIdsDiffer ==
  \A v, w \in Worker :
    task[v].pc = "replace" /\ task[w].pc = "replace" /\ task[v].new = task[w].new => v = w

WrittenInv ==
  /\ \A w \in Worker : HasWritten(task[w])
  /\ NewIdsDiffer
  /\ \A c \in DOMAIN cands : cands[c].status = "Submitted" => Stands(c)

\* No step takes a fact away or out of Canon, or brings a retired one back.
Lasts ==
  /\ \A f \in DOMAIN facts :
       /\ f \in DOMAIN facts'
       /\ facts[f].status \in InCanon => facts'[f].status \in InCanon
       /\ facts[f].status = "Superseded" => facts'[f].status = "Superseded"
  /\ \A f \in DOMAIN origin : f \in DOMAIN origin' /\ origin'[f] = origin[f]

LEMMA HasWrittenLasts ==
  ASSUME ThreadsInv, NEW t, Knows(t), HasWritten(t), Lasts,
         t.pc = "replace" => t.new \notin DOMAIN facts'
  PROVE  HasWritten(t)'
BY DEF HasWritten, Lasts, Knows

LEMMA StandsLasts ==
  ASSUME ThreadsInv, NEW c \in DOMAIN cands, Stands(c), Lasts, cands'[c] = cands[c]
  PROVE  Stands(c)'
BY DEF Stands, Lasts, ThreadsInv, OriginsAreRows

LEMMA OtherWritesKeepFacts ==
  ASSUME NEW w \in Worker, Writes(w), ~FactWrites(w)
  PROVE  UNCHANGED <<facts, origin>>
<1>1. ASSUME NEW e \in EntityId, AddEntity(w, e)
      PROVE  UNCHANGED <<facts, origin>>
  BY <1>1 DEF AddEntity
<1>2. ASSUME \/ AddRun(w) \/ MoveOne(w) \/ StartRun(w) \/ EndRun(w) \/ CancelSave(w)
             \/ VerdictSave(w, "approve", "Approved", "Approve")
             \/ VerdictSave(w, "reject", "Rejected", "Reject")
             \/ SubmitSave(w)
      PROVE  UNCHANGED <<facts, origin>>
  BY <1>2 DEF AddRun, MoveOne, StartRun, EndRun, CancelSave, VerdictSave, SubmitSave, ledgerVars
<1> QED BY <1>1, <1>2 DEF Writes, FactWrites

\* What a step does to the facts: they last, the thread has written what its next
\* pc says, and a fact that is added is not the one that another is to add.
FactStep(w) ==
  /\ Lasts
  /\ HasWritten(task[w])'
  /\ task'[w].pc = "replace" =>
       \A v \in Worker : v # w /\ task[v].pc = "replace" => task[v].new # task'[w].new
  /\ \A v \in Worker : v # w /\ task[v].pc = "replace" => task[v].new \notin DOMAIN facts'

LEMMA KeepsFacts ==
  ASSUME ThreadsInv, WrittenInv, NEW w \in Worker, task'[w].pc \notin FactPc,
         UNCHANGED <<facts, origin>>
  PROVE  FactStep(w)
<1>1. Lasts
  BY DEF Lasts
<1>2. HasWritten(task[w])'
  BY DEF HasWritten, FactPc
<1> QED BY <1>1, <1>2 DEF FactStep, FactPc, WrittenInv, HasWritten

LEMMA RetireOldKeeps ==
  ASSUME ThreadsInv, WrittenInv, NEW w \in Worker, NEW f \in FactId, RetireOld(w, f)
  PROVE  FactStep(w)
<1>1. PICK t : t = task[w] /\ t \in Task /\ Knows(t)
  BY DEF ThreadsInv
<1>2. PICK row : row = [t EXCEPT !.pc = "replace", !.new = f]
  OBVIOUS
<1>3. /\ t.pc = "retire" /\ t.old \in DOMAIN facts
      /\ f \notin DOMAIN facts /\ \A v \in Worker : task[v].new # f
      /\ facts' = Retired(t.old, f) /\ task' = [task EXCEPT ![w] = row]
      /\ UNCHANGED origin
  BY <1>1, <1>2 DEF RetireOld, Goto, At, Knows
<1>4. row.pc = "replace" /\ row.new = f /\ row.old = t.old /\ task'[w] = row
  BY <1>1, <1>2, <1>3 DEF Task, ThreadsInv
<1>5. facts[t.old] \in Fact
  BY <1>3 DEF ThreadsInv, PipelineTypeOK, LedgerTypeOK
<1>6. /\ DOMAIN facts' = DOMAIN facts /\ facts'[t.old].status = "Superseded"
      /\ \A g \in DOMAIN facts : g # t.old => facts'[g] = facts[g]
  BY <1>3, <1>5 DEF Retired, Put, Fact
<1>7. Lasts
  BY <1>3, <1>6 DEF Lasts, InCanon
<1>8. HasWritten(task[w])'
  BY <1>3, <1>4, <1>6 DEF HasWritten
<1> QED BY <1>3, <1>4, <1>6, <1>7, <1>8 DEF FactStep, WrittenInv, HasWritten

LEMMA AddReplacementKeeps ==
  ASSUME ThreadsInv, WrittenInv, NEW w \in Worker, AddReplacement(w)
  PROVE  FactStep(w)
<1>1. PICK t : t = task[w] /\ t \in Task /\ HasWritten(t)
  BY DEF ThreadsInv, WrittenInv
<1>2. PICK row : row = [t EXCEPT !.pc = "submitted"]
  OBVIOUS
<1>3. /\ t.pc = "replace"
      /\ facts' = Put(facts, t.new, FactOf(t, "Active"))
      /\ origin' = Put(origin, t.new, t.cand)
      /\ task' = [task EXCEPT ![w] = row]
  BY <1>1, <1>2 DEF AddReplacement, Advance, Goto, At
<1>4. /\ row.pc = "submitted" /\ row.new = t.new /\ row.old = t.old /\ row.cand = t.cand
      /\ task'[w] = row
  BY <1>1, <1>2, <1>3 DEF Task, ThreadsInv
<1>5. t.new \notin DOMAIN facts /\ t.old \in DOMAIN facts /\ facts[t.old].status = "Superseded"
  BY <1>1, <1>3 DEF HasWritten
<1>6. /\ DOMAIN facts' = DOMAIN facts \cup {t.new} /\ facts'[t.new].status = "Active"
      /\ \A g \in DOMAIN facts : facts'[g] = facts[g]
  BY <1>3, <1>5 DEF Put, FactOf, NewFact
<1>7. /\ DOMAIN origin' = DOMAIN origin \cup {t.new} /\ origin'[t.new] = t.cand
      /\ \A g \in DOMAIN origin : origin'[g] = origin[g]
  BY <1>3, <1>5 DEF Put, ThreadsInv, OriginsAreRows
<1>8. Lasts
  BY <1>6, <1>7 DEF Lasts
<1>9. HasWritten(task[w])'
  BY <1>4, <1>5, <1>6, <1>7 DEF HasWritten, InCanon
<1>10. \A v \in Worker : v # w /\ task[v].pc = "replace" => task[v].new \notin DOMAIN facts'
  BY <1>1, <1>3, <1>6 DEF WrittenInv, NewIdsDiffer, HasWritten
<1> QED BY <1>4, <1>8, <1>9, <1>10 DEF FactStep

LEMMA AddFactKeeps ==
  ASSUME ThreadsInv, WrittenInv, NEW w \in Worker, NEW f \in FactId, AddFact(w, f)
  PROVE  FactStep(w)
<1>1. PICK t : t = task[w] /\ t \in Task
  BY DEF ThreadsInv
<1>2. PICK row : row = [t EXCEPT !.pc = "activate", !.new = f]
  OBVIOUS
<1>3. /\ f \notin DOMAIN facts /\ \A v \in Worker : task[v].new # f
      /\ facts' = Put(facts, f, FactOf(t, "NotInCanon"))
      /\ origin' = Put(origin, f, t.cand)
      /\ task' = [task EXCEPT ![w] = row]
  BY <1>1, <1>2 DEF AddFact, Goto
<1>4. row.pc = "activate" /\ row.new = f /\ row.cand = t.cand /\ task'[w] = row
  BY <1>1, <1>2, <1>3 DEF Task, ThreadsInv
<1>5. /\ DOMAIN facts' = DOMAIN facts \cup {f} /\ \A g \in DOMAIN facts : facts'[g] = facts[g]
      /\ f \in DOMAIN origin' /\ origin'[f] = t.cand
      /\ \A g \in DOMAIN origin : g \in DOMAIN origin' /\ origin'[g] = origin[g]
  BY <1>3 DEF Put, ThreadsInv, OriginsAreRows
<1>6. Lasts
  BY <1>5 DEF Lasts
<1>7. HasWritten(task[w])'
  BY <1>4, <1>5 DEF HasWritten
<1>8. \A v \in Worker : v # w /\ task[v].pc = "replace" => task[v].new \notin DOMAIN facts'
  BY <1>3, <1>5 DEF WrittenInv, HasWritten
<1> QED BY <1>4, <1>6, <1>7, <1>8 DEF FactStep

LEMMA ActivateFactKeeps ==
  ASSUME ThreadsInv, WrittenInv, NEW w \in Worker, ActivateFact(w)
  PROVE  FactStep(w)
<1>1. PICK t : t = task[w] /\ t \in Task /\ Knows(t) /\ HasWritten(t)
  BY DEF ThreadsInv, WrittenInv
<1>2. PICK row : row = [t EXCEPT !.pc = "submitted"]
  OBVIOUS
<1>3. /\ t.pc = "activate" /\ t.new \in DOMAIN facts /\ t.old = NoFact
      /\ facts[t.new].status \in NotYetActive
      /\ facts' = Restatus(t.new, "Active") /\ task' = [task EXCEPT ![w] = row]
      /\ UNCHANGED origin
  BY <1>1, <1>2 DEF ActivateFact, Advance, Goto, At, Knows
<1>4. /\ row.pc = "submitted" /\ row.new = t.new /\ row.old = t.old /\ row.cand = t.cand
      /\ task'[w] = row
  BY <1>1, <1>2, <1>3 DEF Task, ThreadsInv
<1>5. facts[t.new] \in Fact
  BY <1>3 DEF ThreadsInv, PipelineTypeOK, LedgerTypeOK
<1>6. /\ DOMAIN facts' = DOMAIN facts /\ facts'[t.new].status = "Active"
      /\ \A g \in DOMAIN facts : g # t.new => facts'[g] = facts[g]
  BY <1>3, <1>5 DEF Restatus, Put, Fact
<1>7. Lasts
  BY <1>3, <1>6 DEF Lasts, InCanon, NotYetActive
<1>8. HasWritten(task[w])'
  BY <1>1, <1>3, <1>4, <1>6 DEF HasWritten, InCanon
<1> QED BY <1>4, <1>6, <1>7, <1>8 DEF FactStep, WrittenInv, HasWritten

\* A candidate becomes Submitted by the last step of its submit alone.
LEMMA SubmittedBySave ==
  ASSUME ThreadsInv, NEW w \in Worker, Writes(w), NEW c \in DOMAIN cands',
         cands'[c].status = "Submitted"
  PROVE  \/ c \in DOMAIN cands /\ cands'[c] = cands[c]
         \/ /\ task[w].pc = "submitted" /\ c = task[w].cand
            /\ cands'[c].fact = task[w].new /\ cands'[c].superseded = task[w].old
            /\ UNCHANGED <<facts, origin>>
<1>1. PICK t : t = task[w] /\ t \in Task /\ Knows(t)
  BY DEF ThreadsInv
<1>2. \A d \in DOMAIN cands : cands[d] \in CandidateRow
  BY DEF ThreadsInv, PipelineTypeOK
<1>3. ASSUME MoveOne(w)
      PROVE  c \in DOMAIN cands /\ cands'[c] = cands[c]
  <2>1. PICK d \in t.todo : cands' = Move({d}, t.status)
    BY <1>1, <1>3 DEF MoveOne
  <2>2. t.status # "Submitted"
    BY <1>1, <1>3 DEF MoveOne, Knows
  <2>3. c \in DOMAIN cands /\ cands[c] \in CandidateRow
    BY <1>2, <2>1 DEF Move
  <2> QED BY <2>1, <2>2, <2>3 DEF Move, CandidateRow
<1>4. ASSUME NEW pc, NEW status \in {"Approved", "Rejected"}, NEW verdict,
             pc \in {"approve", "reject"}, VerdictSave(w, pc, status, verdict)
      PROVE  c \in DOMAIN cands /\ cands'[c] = cands[c]
  <2>1. t.cand \in DOMAIN cands /\ cands' = Verdict(t.cand, status, verdict)
    BY <1>1, <1>4 DEF VerdictSave, At, Knows
  <2>2. c \in DOMAIN cands /\ cands[c] \in CandidateRow
    BY <1>2, <2>1 DEF Verdict, Put
  <2> QED BY <2>1, <2>2 DEF Verdict, Put, CandidateRow
<1>5. ASSUME SubmitSave(w)
      PROVE  \/ c \in DOMAIN cands /\ cands'[c] = cands[c]
             \/ /\ task[w].pc = "submitted" /\ c = task[w].cand
                /\ cands'[c].fact = task[w].new /\ cands'[c].superseded = task[w].old
                /\ UNCHANGED <<facts, origin>>
  <2>1. PICK row : row = [cands[t.cand] EXCEPT !.status = "Submitted", !.fact = t.new,
                                               !.superseded = t.old]
    OBVIOUS
  <2>2. /\ t.pc = "submitted" /\ t.cand \in DOMAIN cands /\ cands' = Put(cands, t.cand, row)
        /\ UNCHANGED <<facts, origin>>
    BY <1>1, <1>5, <2>1 DEF SubmitSave, At, Knows, SubmitPc, ledgerVars
  <2>3. row.fact = t.new /\ row.superseded = t.old
    BY <1>2, <2>1, <2>2 DEF CandidateRow
  <2> QED BY <1>1, <2>2, <2>3 DEF Put
<1>6. ASSUME \/ AddRun(w) \/ StartRun(w) \/ EndRun(w) \/ CancelSave(w)
             \/ (\E e \in EntityId : AddEntity(w, e)) \/ FactWrites(w)
      PROVE  UNCHANGED cands
  BY <1>6 DEF AddRun, StartRun, EndRun, CancelSave, AddEntity, FactWrites, RetireOld, AddFact,
              AddReplacement, ActivateFact
<1> QED BY <1>3, <1>4, <1>5, <1>6 DEF Writes, FactWrites

LEMMA WrittenStep ==
  ASSUME ThreadsInv, WrittenInv, [ThreadsNext]_threadVars
  PROVE  WrittenInv'
<1>1. ASSUME UNCHANGED <<facts, origin, task>>,
             \A c \in DOMAIN cands' : cands'[c].status = "Submitted" =>
               c \in DOMAIN cands /\ cands'[c] = cands[c]
      PROVE  WrittenInv'
  BY <1>1 DEF WrittenInv, HasWritten, NewIdsDiffer, Stands
<1>2. CASE UNCHANGED threadVars
  BY <1>1, <1>2 DEF threadVars
<1>3. ASSUME NEW w \in Worker, StepOf(w), FactStep(w),
             \A c \in DOMAIN cands' : cands'[c].status = "Submitted" =>
               \/ c \in DOMAIN cands /\ cands'[c] = cands[c]
               \/ /\ task[w].pc = "submitted" /\ c = task[w].cand
                  /\ cands'[c].fact = task[w].new /\ cands'[c].superseded = task[w].old
                  /\ UNCHANGED <<facts, origin>>
      PROVE  WrittenInv'
  <2>1. \A v \in Worker : v # w => task'[v] = task[v]
    BY <1>3 DEF StepOf, ThreadsInv
  <2>2. ASSUME NEW v \in Worker
        PROVE  HasWritten(task[v])'
    <3>1. CASE v = w
      BY <1>3, <3>1 DEF FactStep
    <3>2. CASE v # w
      <4>1. PICK t : t = task[v] /\ Knows(t) /\ HasWritten(t)
        BY DEF ThreadsInv, WrittenInv
      <4>2. t.pc = "replace" => t.new \notin DOMAIN facts'
        BY <1>3, <3>2, <4>1 DEF FactStep
      <4>3. HasWritten(t)'
        BY <1>3, <4>1, <4>2, HasWrittenLasts DEF FactStep
      <4> QED BY <2>1, <3>2, <4>1, <4>3 DEF HasWritten
    <3> QED BY <3>1, <3>2
  <2>3. NewIdsDiffer'
    BY <1>3, <2>1 DEF FactStep, NewIdsDiffer, WrittenInv
  <2>4. ASSUME NEW c \in DOMAIN cands', cands'[c].status = "Submitted"
        PROVE  Stands(c)'
    <3>1. CASE c \in DOMAIN cands /\ cands'[c] = cands[c]
      BY <1>3, <2>4, <3>1, StandsLasts DEF FactStep, WrittenInv
    <3>2. CASE /\ task[w].pc = "submitted" /\ c = task[w].cand
               /\ cands'[c].fact = task[w].new /\ cands'[c].superseded = task[w].old
               /\ UNCHANGED <<facts, origin>>
      BY <3>2 DEF WrittenInv, HasWritten, Stands
    <3> QED BY <1>3, <2>4, <3>1, <3>2
  <2> QED BY <2>2, <2>3, <2>4 DEF WrittenInv
<1>4. ASSUME NEW w \in Worker, Reads(w)
      PROVE  WrittenInv'
  <2>1. StepOf(w) /\ UNCHANGED <<facts, origin, cands>> /\ task'[w].pc \notin FactPc
    BY <1>4, ReadsStep, ReadsGoOn DEF ReadStep, ledgerVars
  <2> QED BY <1>3, <2>1, KeepsFacts
<1>5. ASSUME NEW w \in Worker, Writes(w), UNCHANGED autoRun
      PROVE  WrittenInv'
  <2>1. StepOf(w) /\ (task'[w].pc \in FactPc => FactWrites(w))
    BY <1>5, WritesStep, WritesGoOn DEF WriteStep
  <2>2. FactWrites(w) => FactStep(w)
    BY RetireOldKeeps, AddReplacementKeeps, AddFactKeeps, ActivateFactKeeps DEF FactWrites
  <2>3. ~FactWrites(w) => FactStep(w)
    BY <1>5, <2>1, OtherWritesKeepFacts, KeepsFacts
  <2> QED BY <1>3, <1>5, <2>1, <2>2, <2>3, SubmittedBySave
<1>6. ASSUME NEW w \in Worker, OneAccess(w)
      PROVE  WrittenInv'
  <2>1. ASSUME NEW S, PersistExtracted(S)
        PROVE  /\ UNCHANGED facts
               /\ \A c \in DOMAIN cands' : cands'[c].status = "Submitted" =>
                    c \in DOMAIN cands /\ cands'[c] = cands[c]
    BY <2>1 DEF PersistExtracted, ledgerVars, NewCandidate
  <2>2. ASSUME \/ \E s \in SnapshotId, as_of \in StoryTime \cup {NoTime} : CreateSnapshot(s, as_of)
               \/ \E s \in SnapshotId : FreezeSnapshot(s)
        PROVE  UNCHANGED facts
    BY <2>2 DEF CreateSnapshot, FreezeSnapshot
  <2>3. UNCHANGED <<task, origin>>
    BY <1>6 DEF OneAccess
  <2>4. UNCHANGED facts /\ \A c \in DOMAIN cands' : cands'[c].status = "Submitted" =>
                             c \in DOMAIN cands /\ cands'[c] = cands[c]
    BY <1>6, <2>1, <2>2 DEF OneAccess
  <2> QED BY <1>1, <2>3, <2>4
<1>7. CASE Crash
  <2>1. UNCHANGED <<facts, origin, cands>> /\ task' = [w \in Worker |-> Idle]
    BY <1>7 DEF Crash, ledgerVars
  <2>2. \A v \in Worker : task'[v].pc = "idle"
    BY <2>1 DEF Idle
  <2> QED BY <2>1, <2>2 DEF WrittenInv, HasWritten, NewIdsDiffer, Stands
<1> QED BY <1>2, <1>4, <1>5, <1>6, <1>7, ThreadsStep

LEMMA WrittenInvariant == ThreadsSpec => []WrittenInv
<1>1. ThreadsInit => WrittenInv
  BY DEF ThreadsInit, PipelineInit, WrittenInv, HasWritten, NewIdsDiffer, EmptyTable, Idle
<1>2. ThreadsInv /\ WrittenInv /\ [ThreadsNext]_threadVars => WrittenInv'
  BY WrittenStep
<1> QED BY <1>1, <1>2, ThreadsInvariant, PTL DEF ThreadsSpec

\* Whatever the threads are in the middle of, every row they have in hand exists
\* and every table holds rows of its kind.
THEOREM ThreadsTypeCorrect == ThreadsSpec => []ThreadsTypeOK
<1>1. ThreadsInv /\ ApprovalInv => ThreadsTypeOK
  <2> SUFFICES ASSUME ThreadsInv, ApprovalInv PROVE ThreadsTypeOK
    OBVIOUS
  <2>1. \A w \in Worker : task[w].pc \in TaskPc /\ task[w].todo \subseteq DOMAIN cands
    BY DEF ThreadsInv, Knows, Task
  <2> QED BY <2>1 DEF ThreadsInv, ThreadsTypeOK, OriginsAreRows, ApprovalInv
<1> QED BY <1>1, ThreadsInvariant, ApprovalInvariant, PTL

\* However many requests interleave, and wherever the process is killed between two
\* writes of a submit: every fact that is written for a candidate is written after
\* the editor has approved that candidate (approval_service submit reads the status
\* once, and writes on whatever becomes of it).
THEOREM WhatIsWrittenWasApproved == ThreadsSpec => []WrittenAsApproved
<1>1. ApprovalInv => WrittenAsApproved
  BY DEF ApprovalInv
<1> QED BY <1>1, ApprovalInvariant, PTL

\* However many requests interleave, and wherever the process is killed: a candidate
\* that ends as Submitted names a fact that was written for it and is or was in
\* effect, and the fact it says to have replaced is out of effect.
THEOREM WhatIsSubmittedIsWritten == ThreadsSpec => []SubmittedIsWritten
<1>1. WrittenInv => SubmittedIsWritten
  BY DEF WrittenInv, SubmittedIsWritten, Stands
<1> QED BY <1>1, WrittenInvariant, PTL

-----------------------------------------------------------------------------
(* One truth for an entity and predicate *)

\* The steps of a submit from its choice of the fact to supersede to the fact
\* it leaves in effect, and all that lies between.
CanonSteps(w) ==
  \/ ChooseTarget(w)
  \/ \E f \in FactId : RetireOld(w, f) \/ AddFact(w, f)
  \/ AddReplacement(w) \/ ActivateFact(w)

CanonPc == {"retire", "replace", "create", "activate"}

LEMMA OtherReads ==
  ASSUME ThreadsInv, NEW w \in Worker, Reads(w)
  PROVE  ChooseTarget(w) \/ (UNCHANGED facts /\ task'[w].pc \notin CanonPc)
<1>1. PICK t : t = task[w] /\ t \in Task
  BY DEF ThreadsInv
<1>2. UNCHANGED facts
  BY ReadsStep DEF ReadStep, ledgerVars
<1>3. ASSUME NEW row, task' = [task EXCEPT ![w] = row]
      PROVE  task'[w] = row
  BY <1>3 DEF ThreadsInv
<1>4. Idle.pc = "idle"
  BY DEF Idle
<1>5. ASSUME NEW r \in RunId, NEW S \in SUBSET Candidate, NEW sn \in SnapshotId \cup {NoSnapshot},
             TriggerCheck(w, r, S, sn)
      PROVE  task'[w].pc = "add_run"
  BY <1>3, <1>5 DEF TriggerCheck, Goto, Idle
<1>6. ASSUME NEW forbidden \in BOOLEAN, NEW crashed \in BOOLEAN, Evaluate(w, forbidden, crashed)
      PROVE  task'[w].pc = "end_run"
  <2>1. PICK status : task' = [task EXCEPT ![w] = [t EXCEPT !.pc = "end_run", !.status = status]]
    BY <1>1, <1>6 DEF Evaluate, Goto
  <2>2. [t EXCEPT !.pc = "end_run", !.status = status].pc = "end_run"
    BY <1>1 DEF Task
  <2> QED BY <1>3, <2>1, <2>2
<1>7. ASSUME NEW r \in RunId, CancelCheck(w, r)
      PROVE  task'[w].pc = "cancel"
  BY <1>3, <1>7 DEF CancelCheck, Goto, Idle
<1>8. CancelSelect(w) => task'[w].pc \in {"idle", "release"}
  BY <1>3 DEF CancelSelect, Goto, Idle
<1>9. ASSUME NEW c \in Candidate, NEW pc \in {"approve", "reject"}, NEW from,
             VerdictCheck(w, c, pc, from)
      PROVE  task'[w].pc = pc
  BY <1>3, <1>9 DEF VerdictCheck, Goto, Idle
<1>10. ASSUME NEW c \in Candidate, NEW asked \in Asked \cup {NoFact}, SubmitCheck(w, c, asked)
       PROVE  task'[w].pc = "resolve"
  BY <1>3, <1>10 DEF SubmitCheck, Goto, Idle
<1>11. ASSUME NEW e \in EntityId, ResolveFound(w, e)
       PROVE  task'[w].pc = "target"
  <2>1. task' = [task EXCEPT ![w] = [t EXCEPT !.pc = "target", !.entity = e]]
    BY <1>1, <1>11 DEF ResolveFound, Goto
  <2>2. [t EXCEPT !.pc = "target", !.entity = e].pc = "target"
    BY <1>1 DEF Task
  <2> QED BY <1>3, <2>1, <2>2
<1>12. ResolveMissing(w) => task'[w].pc = "new_entity"
  BY <1>1, <1>3 DEF ResolveMissing, Advance, Goto, Task
<1>13. ASSUME NEW y \in EntityType, EntityCheck(w, y)
       PROVE  task'[w].pc \in {"idle", "add_entity"}
  BY <1>1, <1>3, <1>4, <1>13 DEF EntityCheck, Return, Goto, Task
<1> QED BY <1>2, <1>5, <1>6, <1>7, <1>8, <1>9, <1>10, <1>11, <1>12, <1>13 DEF Reads, CanonPc

LEMMA OtherWrites ==
  ASSUME ThreadsInv, NEW w \in Worker, Writes(w)
  PROVE  CanonSteps(w) \/ (UNCHANGED facts /\ task'[w].pc \notin CanonPc)
<1>1. PICK t : t = task[w] /\ t \in Task
  BY DEF ThreadsInv
<1>2. ASSUME NEW row, task' = [task EXCEPT ![w] = row]
      PROVE  task'[w] = row
  BY <1>2 DEF ThreadsInv
<1>3. Idle.pc = "idle"
  BY DEF Idle
<1>4. AddRun(w) => UNCHANGED facts /\ task'[w].pc = "validating"
  BY <1>1, <1>2 DEF AddRun, Goto, Task, ledgerVars
<1>5. MoveOne(w) => UNCHANGED facts /\ task'[w].pc \notin CanonPc
  <2> SUFFICES ASSUME MoveOne(w) PROVE UNCHANGED facts /\ task'[w].pc \notin CanonPc
    OBVIOUS
  <2>1. PICK c \in t.todo :
          /\ t.pc \in {"validating", "verdict", "release"}
          /\ task' = [task EXCEPT ![w] = AfterMove([t EXCEPT !.todo = t.todo \ {c}])]
    BY <1>1 DEF MoveOne, Goto
  <2>2. PICK u : u = [t EXCEPT !.todo = t.todo \ {c}]
    OBVIOUS
  <2>3. u \in Task /\ u.pc = t.pc
    BY <1>1, <2>2 DEF Task
  <2>4. AfterMove(u).pc \in {t.pc, "start_run", "idle"}
    BY <1>3, <2>3 DEF AfterMove, Task
  <2> QED BY <1>2, <2>1, <2>2, <2>4 DEF MoveOne, ledgerVars, CanonPc
<1>6. StartRun(w) => UNCHANGED facts /\ task'[w].pc = "evaluate"
  BY <1>1, <1>2 DEF StartRun, Advance, Goto, Task, ledgerVars
<1>7. EndRun(w) => UNCHANGED facts /\ task'[w].pc = "verdict"
  BY <1>2 DEF EndRun, Goto, Idle, ledgerVars
<1>8. CancelSave(w) => UNCHANGED facts /\ task'[w].pc = "select"
  BY <1>1, <1>2 DEF CancelSave, Advance, Goto, Task, ledgerVars
<1>9. VerdictSave(w, "approve", "Approved", "Approve") \/ VerdictSave(w, "reject", "Rejected", "Reject")
        => UNCHANGED facts /\ task'[w].pc = "idle"
  BY <1>2, <1>3 DEF VerdictSave, Return, Goto, ledgerVars
<1>10. ASSUME NEW e \in EntityId, AddEntity(w, e)
       PROVE  UNCHANGED facts /\ task'[w].pc = "target"
  <2>1. /\ task' = [task EXCEPT ![w] = [t EXCEPT !.pc = "target", !.entity = e, !.status = NoOne]]
        /\ UNCHANGED facts
    BY <1>1, <1>10 DEF AddEntity, Goto
  <2>2. [t EXCEPT !.pc = "target", !.entity = e, !.status = NoOne].pc = "target"
    BY <1>1 DEF Task
  <2> QED BY <1>2, <2>1, <2>2
<1>11. SubmitSave(w) => UNCHANGED facts /\ task'[w].pc = "idle"
  BY <1>2, <1>3 DEF SubmitSave, Return, Goto, ledgerVars
<1> QED BY <1>4, <1>5, <1>6, <1>7, <1>8, <1>9, <1>10, <1>11 DEF Writes, CanonSteps, CanonPc

\* No thread is about to write Canon: what is in effect stays so.
LEMMA TruthStays ==
  ASSUME TruthInv, UNCHANGED facts, \A v \in Worker : task'[v].pc \notin CanonPc
  PROVE  TruthInv'
BY DEF TruthInv, OneTruthEach, Supplants, CanonPc

LEMMA CanonStepsTruth ==
  ASSUME ThreadsInv, TruthInv, NEW w, Worker = {w}, Asked = {}, CanonSteps(w), StepOf(w)
  PROVE  TruthInv'
<1>1. PICK t : t = task[w] /\ t \in Task /\ Knows(t) /\ Supplants(t)
  BY DEF ThreadsInv, TruthInv
<1>2. LedgerTypeOK
  BY DEF ThreadsInv, PipelineTypeOK
<1>3. ASSUME NEW row, task' = [task EXCEPT ![w] = row], Supplants(row)', OneTruthEach'
      PROVE  TruthInv'
  <2>1. task'[w] = row
    BY <1>3 DEF ThreadsInv
  <2>2. \A v \in Worker : Supplants(task[v])'
    BY <1>3, <2>1 DEF Supplants
  <2> QED BY <1>3, <2>2 DEF TruthInv
<1>4. OneTruthEach
  BY DEF TruthInv
<1>5. CASE ChooseTarget(w)
  <2>1. UNCHANGED facts /\ t.pc = "target"
    BY <1>1, <1>5 DEF ChooseTarget, ledgerVars, At
  <2>2. OneTruthEach'
    BY <1>4, <2>1 DEF OneTruthEach
  <2>3. t.asked = NoFact
    BY <1>1, <2>1 DEF Knows
  <2>4. PICK old \in SupersedeTarget(t.cand, t.entity, t.asked) :
          IF TargetUsable(old)
          THEN task' = [task EXCEPT ![w] =
                          [t EXCEPT !.pc = IF old = NoFact THEN "create" ELSE "retire",
                                    !.old = old, !.asked = NoFact]]
          ELSE task' = [task EXCEPT ![w] = Idle]
    BY <1>1, <1>5 DEF ChooseTarget, Goto, Return
  <2>5. CASE ~TargetUsable(old)
    <3>1. Supplants(Idle)'
      BY DEF Supplants, Idle
    <3> QED BY <1>3, <2>2, <2>4, <2>5, <3>1
  <2>6. CASE TargetUsable(old)
    <3>1. PICK row : row = [t EXCEPT !.pc = IF old = NoFact THEN "create" ELSE "retire",
                                     !.old = old, !.asked = NoFact]
      OBVIOUS
    <3>2. /\ row.pc = IF old = NoFact THEN "create" ELSE "retire"
          /\ row.old = old /\ row.cand = t.cand /\ row.entity = t.entity
      BY <1>1, <3>1 DEF Task
    <3>3. PICK matching : matching = InEffect(t.entity, Text[t.cand].predicate)
      OBVIOUS
    <3>4. CASE matching = {}
      <4>1. old = NoFact
        BY <2>3, <3>3, <3>4 DEF SupersedeTarget
      <4>2. row.pc = "create"
        BY <3>2, <4>1
      <4>3. InEffect(row.entity, Text[row.cand].predicate)' = {}
        BY <2>1, <3>2, <3>3, <3>4 DEF InEffect
      <4>4. Supplants(row)'
        BY <4>2, <4>3 DEF Supplants
      <4> QED BY <1>3, <2>2, <2>4, <2>6, <3>1, <4>4
    <3>5. CASE matching # {}
      <4>1. old \in matching
        BY <2>3, <3>3, <3>5 DEF SupersedeTarget, Earliest
      <4>2. /\ old \in DOMAIN facts /\ facts[old].status = "Active"
            /\ facts[old].entity = t.entity /\ facts[old].predicate = Text[t.cand].predicate
        BY <3>3, <4>1 DEF InEffect
      <4>3. old # NoFact
        BY <1>2, <4>2, LedgerAssumption DEF LedgerTypeOK
      <4>4. Supplants(row)'
        BY <2>1, <3>2, <4>2, <4>3 DEF Supplants
      <4> QED BY <1>3, <2>2, <2>4, <2>6, <3>1, <4>4
    <3> QED BY <3>4, <3>5
  <2> QED BY <2>5, <2>6
<1>6. ASSUME NEW f \in FactId, RetireOld(w, f)
      PROVE  TruthInv'
  <2>1. PICK row : row = [t EXCEPT !.pc = "replace", !.new = f]
    OBVIOUS
  <2>2. /\ t.pc = "retire"
        /\ facts' = Retired(t.old, f)
        /\ task' = [task EXCEPT ![w] = row]
    BY <1>1, <1>6, <2>1 DEF RetireOld, At, Goto
  <2>3. row.pc = "replace" /\ row.cand = t.cand /\ row.entity = t.entity
    BY <1>1, <2>1 DEF Task
  <2>4. /\ t.old \in DOMAIN facts /\ facts[t.old].status = "Active"
        /\ facts[t.old].entity = t.entity /\ facts[t.old].predicate = Text[t.cand].predicate
    BY <1>1, <2>2 DEF Knows, Supplants
  <2>5. facts[t.old] \in Fact
    BY <1>2, <2>4 DEF LedgerTypeOK
  <2>6. /\ DOMAIN facts' = DOMAIN facts
        /\ facts'[t.old].status = "Superseded"
        /\ \A g \in DOMAIN facts : g # t.old => facts'[g] = facts[g]
    BY <2>2, <2>4, <2>5 DEF Retired, Put, Fact
  <2>7. OneTruthEach'
    BY <1>4, <2>6 DEF OneTruthEach
  <2>8. InEffect(row.entity, Text[row.cand].predicate)' = {}
    BY <1>4, <2>3, <2>4, <2>6 DEF OneTruthEach, InEffect
  <2>9. Supplants(row)'
    BY <2>3, <2>8 DEF Supplants
  <2> QED BY <1>3, <2>2, <2>7, <2>9
<1>7. ASSUME NEW f \in FactId, AddFact(w, f)
      PROVE  TruthInv'
  <2>1. PICK row : row = [t EXCEPT !.pc = "activate", !.new = f]
    OBVIOUS
  <2>2. PICK new : new = FactOf(t, "NotInCanon")
    OBVIOUS
  <2>3. /\ t.pc = "create"
        /\ f \notin DOMAIN facts /\ facts' = Put(facts, f, new)
        /\ task' = [task EXCEPT ![w] = row]
    BY <1>1, <1>7, <2>1, <2>2 DEF AddFact, At, Goto
  <2>4. row.pc = "activate" /\ row.cand = t.cand /\ row.entity = t.entity /\ row.new = f
    BY <1>1, <2>1 DEF Task
  <2>5. /\ new.status = "NotInCanon" /\ new.entity = t.entity
        /\ new.predicate = Text[t.cand].predicate
    BY <2>2 DEF FactOf, NewFact
  <2>6. /\ DOMAIN facts' = DOMAIN facts \cup {f}
        /\ facts'[f] = new
        /\ \A g \in DOMAIN facts : facts'[g] = facts[g]
    BY <2>3 DEF Put
  <2>7. OneTruthEach'
    BY <1>4, <2>5, <2>6 DEF OneTruthEach
  <2>8. InEffect(row.entity, Text[row.cand].predicate)' = {}
    BY <1>1, <2>3, <2>4, <2>5, <2>6 DEF Supplants, InEffect
  <2>9. Supplants(row)'
    BY <2>4, <2>5, <2>6, <2>8 DEF Supplants
  <2> QED BY <1>3, <2>3, <2>7, <2>9
<1>8. CASE AddReplacement(w)
  <2>1. PICK row : row = [t EXCEPT !.pc = "submitted"]
    OBVIOUS
  <2>2. PICK new : new = FactOf(t, "Active")
    OBVIOUS
  <2>3. /\ t.pc = "replace"
        /\ facts' = Put(facts, t.new, new)
        /\ task' = [task EXCEPT ![w] = row]
    BY <1>1, <1>8, <2>1, <2>2 DEF AddReplacement, At, Advance, Goto
  <2>4. row.pc = "submitted"
    BY <1>1, <2>1 DEF Task
  <2>5. new.entity = t.entity /\ new.predicate = Text[t.cand].predicate
    BY <2>2 DEF FactOf, NewFact
  <2>6. /\ DOMAIN facts' = DOMAIN facts \cup {t.new}
        /\ facts'[t.new] = new
        /\ \A g \in DOMAIN facts : g # t.new => facts'[g] = facts[g]
    BY <2>3 DEF Put
  <2>7. InEffect(t.entity, Text[t.cand].predicate) = {}
    BY <1>1, <2>3 DEF Supplants
  <2>8. OneTruthEach'
    BY <1>4, <2>5, <2>6, <2>7 DEF OneTruthEach, InEffect
  <2>9. Supplants(row)'
    BY <2>4 DEF Supplants
  <2> QED BY <1>3, <2>3, <2>8, <2>9
<1>9. CASE ActivateFact(w)
  <2>1. PICK row : row = [t EXCEPT !.pc = "submitted"]
    OBVIOUS
  <2>2. /\ t.pc = "activate"
        /\ facts' = Restatus(t.new, "Active")
        /\ task' = [task EXCEPT ![w] = row]
    BY <1>1, <1>9, <2>1 DEF ActivateFact, At, Advance, Goto
  <2>3. row.pc = "submitted"
    BY <1>1, <2>1 DEF Task
  <2>4. t.new \in DOMAIN facts
    BY <1>1, <2>2 DEF Knows
  <2>5. facts[t.new] \in Fact
    BY <1>2, <2>4 DEF LedgerTypeOK
  <2>6. /\ DOMAIN facts' = DOMAIN facts
        /\ facts'[t.new].entity = facts[t.new].entity
        /\ facts'[t.new].predicate = facts[t.new].predicate
        /\ \A g \in DOMAIN facts : g # t.new => facts'[g] = facts[g]
    BY <2>2, <2>4, <2>5 DEF Restatus, Put, Fact
  <2>7. /\ InEffect(t.entity, Text[t.cand].predicate) = {}
        /\ facts[t.new].entity = t.entity /\ facts[t.new].predicate = Text[t.cand].predicate
    BY <1>1, <2>2 DEF Supplants
  <2>8. OneTruthEach'
    BY <1>4, <2>6, <2>7 DEF OneTruthEach, InEffect
  <2>9. Supplants(row)'
    BY <2>3 DEF Supplants
  <2> QED BY <1>3, <2>2, <2>8, <2>9
<1> QED BY <1>5, <1>6, <1>7, <1>8, <1>9 DEF CanonSteps

LEMMA TruthStep ==
  ASSUME OneThread, Asked = {}, ThreadsInv, TruthInv, [ThreadsNext]_threadVars
  PROVE  TruthInv'
<1>1. PICK w : Worker = {w}
  BY DEF OneThread
<1>2. CASE UNCHANGED threadVars
  BY <1>2 DEF threadVars, TruthInv, OneTruthEach, Supplants, InEffect
<1>3. CASE CanonSteps(w) /\ (Reads(w) \/ Writes(w)) /\ UNCHANGED autoRun
  BY <1>1, <1>3, CanonStepsTruth, ReadsStep, WritesStep DEF ReadStep, WriteStep
<1>4. CASE (Reads(w) \/ Writes(w)) /\ ~CanonSteps(w)
  BY <1>1, <1>4, OtherReads, OtherWrites, TruthStays DEF CanonSteps
<1>5. CASE OneAccess(w)
  <2>1. UNCHANGED <<facts, task>>
    BY <1>5 DEF OneAccess, PersistExtracted, CreateSnapshot, FreezeSnapshot, ledgerVars
  <2> QED BY <2>1 DEF TruthInv, OneTruthEach, Supplants, InEffect
<1>6. CASE Crash
  <2>1. UNCHANGED facts /\ \A v \in Worker : task'[v] = Idle
    BY <1>6 DEF Crash, ledgerVars
  <2>2. \A v \in Worker : task'[v].pc \notin CanonPc
    BY <2>1 DEF Idle, CanonPc
  <2> QED BY <2>1, <2>2, TruthStays
<1> QED BY <1>1, <1>2, <1>3, <1>4, <1>5, <1>6, ThreadsStep

\* A submit that was killed between its two writes leaves an entity and predicate
\* without a truth, never with two: when one request is served at a time and none
\* names the fact to supersede, the next submit finds what is in effect, or finds
\* nothing, and either way leaves one (_commit_canon).
THEOREM OneTruthAtATime ==
  ASSUME OneThread, Asked = {}
  PROVE  ThreadsSpec => []OneTruthEach
<1>1. ThreadsInit => TruthInv
  BY DEF ThreadsInit, PipelineInit, LedgerInit, EmptyTable, TruthInv, OneTruthEach, Supplants,
         Idle
<1>2. ThreadsInv /\ TruthInv /\ [ThreadsNext]_threadVars => TruthInv'
  BY TruthStep
<1>3. TruthInv => OneTruthEach
  BY DEF TruthInv
<1> QED BY <1>1, <1>2, <1>3, ThreadsInvariant, PTL DEF ThreadsSpec

-----------------------------------------------------------------------------
(* One thread that is not killed: what it has read is still so *)

LEMMA LoneReads ==
  ASSUME ThreadsInv, NEW w, Worker = {w}, LoneInv, Reads(w),
         UNCHANGED <<ledgerVars, cands, runs, origin>>
  PROVE  LoneInv'
<1>1. PICK t : t = task[w] /\ t \in Task /\ Knows(t) /\ Lone(t)
  BY DEF ThreadsInv, LoneInv
<1>2. UNCHANGED <<cands, runs, origin>>
  OBVIOUS
\* The request it was goes on, or begins, with what the tables say.
<1>3. ASSUME NEW row, task' = [task EXCEPT ![w] = row], Alone(row)',
             t.pc \notin {"activate", "submitted"},
             \A c \in DOMAIN cands : c \in t.todo => c \in row.todo,
             t.pc = "select" => \A c \in DOMAIN cands :
               c \in runs[t.run].cands /\ cands[c].status = "Validating" => c \in row.todo
      PROVE  LoneInv'
  <2>1. task'[w] = row
    BY <1>3 DEF ThreadsInv
  <2>2. Accounted(row)'
    BY <1>1, <1>2, <1>3 DEF Lone, Accounted
  <2>3. Held(row)'
    BY <1>1, <1>2, <1>3 DEF Lone, Held, Holds
  <2>4. Lone(row)'
    BY <1>3, <2>2, <2>3 DEF Lone
  <2> QED BY <2>1, <2>4 DEF LoneInv, Lone, Alone, Accounted, Held
<1>4. t.pc = "idle" => t.todo = {}
  BY <1>1 DEF Lone, Alone
<1>5. ASSUME Alone(Idle)', t.todo = {}, t.pc \notin {"activate", "submitted", "select"},
             task' = [task EXCEPT ![w] = Idle]
      PROVE  LoneInv'
  BY <1>3, <1>5
<1>6. Alone(Idle)'
  BY DEF Alone, Idle, SubmitPc
<1>7. ASSUME NEW r \in RunId, NEW S \in SUBSET Candidate, NEW sn \in SnapshotId \cup {NoSnapshot},
             TriggerCheck(w, r, S, sn)
      PROVE  LoneInv'
  <2>1. PICK row : row = [Idle EXCEPT !.pc = "add_run", !.run = r, !.todo = S, !.snapshot = sn]
    OBVIOUS
  <2>2. task' = [task EXCEPT ![w] = row] /\ t.pc = "idle" /\ \A c \in S : cands[c].status = "Extracted"
    BY <1>1, <1>7, <2>1 DEF TriggerCheck, Goto, At, MayValidate
  <2>3. row.pc = "add_run" /\ row.todo = S
    BY <2>1 DEF Idle
  <2>4. Alone(row)'
    BY <1>2, <2>2, <2>3 DEF Alone, SubmitPc
  <2> QED BY <1>3, <1>4, <2>2, <2>4
<1>8. ASSUME NEW forbidden \in BOOLEAN, NEW crashed \in BOOLEAN, Evaluate(w, forbidden, crashed)
      PROVE  LoneInv'
  <2>1. PICK status : task' = [task EXCEPT ![w] = [t EXCEPT !.pc = "end_run", !.status = status]]
    BY <1>1, <1>8 DEF Evaluate, Goto
  <2>2. PICK row : row = [t EXCEPT !.pc = "end_run", !.status = status]
    OBVIOUS
  <2>3. row.pc = "end_run" /\ row.run = t.run /\ row.todo = t.todo /\ t.pc = "evaluate"
    BY <1>1, <1>8, <2>2 DEF Task, Evaluate, At
  <2>4. Alone(row)'
    BY <1>1, <1>2, <2>3 DEF Lone, Alone, SubmitPc
  <2> QED BY <1>3, <2>1, <2>2, <2>3, <2>4
<1>9. ASSUME NEW r \in RunId, CancelCheck(w, r)
      PROVE  LoneInv'
  <2>1. PICK row : row = [Idle EXCEPT !.pc = "cancel", !.run = r]
    OBVIOUS
  <2>2. task' = [task EXCEPT ![w] = row] /\ t.pc = "idle"
    BY <1>1, <1>9, <2>1 DEF CancelCheck, Goto, At
  <2>3. row.pc = "cancel" /\ row.todo = {}
    BY <2>1 DEF Idle
  <2>4. Alone(row)'
    BY <2>3 DEF Alone, SubmitPc
  <2> QED BY <1>3, <1>4, <2>2, <2>4
<1>10. CASE CancelSelect(w)
  <2>1. PICK S : S = StillValidating(runs[t.run].cands)
    OBVIOUS
  <2>2. PICK row : row = IF S = {} THEN Idle
                         ELSE [Idle EXCEPT !.pc = "release", !.status = "Extracted", !.todo = S]
    OBVIOUS
  <2>3. task' = [task EXCEPT ![w] = row] /\ t.pc = "select"
    BY <1>1, <1>10, <2>1, <2>2 DEF CancelSelect, Goto, At
  <2>4. /\ row.todo = S
        /\ \A c \in S : cands[c].status = "Validating"
        /\ \A c \in DOMAIN cands :
             c \in runs[t.run].cands /\ cands[c].status = "Validating" => c \in S
    BY <2>1, <2>2 DEF StillValidating, Idle
  <2>5. row = Idle \/ row.pc = "release"
    BY <2>2 DEF Idle
  <2>6. Alone(row)'
    BY <1>2, <1>6, <2>4, <2>5 DEF Alone, SubmitPc
  <2>7. t.todo = {}
    BY <1>1, <2>3 DEF Lone, Alone
  <2> QED BY <1>3, <2>3, <2>4, <2>6, <2>7
<1>11. ASSUME NEW c \in Candidate, NEW pc \in {"approve", "reject"}, NEW from,
             VerdictCheck(w, c, pc, from), cands[c].status \in {"AwaitingVerdict", "Approved"},
             pc = "approve" => cands[c].status = "AwaitingVerdict"
      PROVE  LoneInv'
  <2>1. PICK row : row = [Idle EXCEPT !.pc = pc, !.cand = c]
    OBVIOUS
  <2>2. task' = [task EXCEPT ![w] = row] /\ t.pc = "idle"
    BY <1>1, <1>11, <2>1 DEF VerdictCheck, Goto, At
  <2>3. row.pc = pc /\ row.cand = c /\ row.todo = {}
    BY <2>1 DEF Idle
  <2>4. Alone(row)'
    BY <1>2, <1>11, <2>3 DEF Alone, SubmitPc
  <2> QED BY <1>3, <1>4, <2>2, <2>4
<1>12. ASSUME NEW c \in Candidate, NEW asked \in Asked \cup {NoFact}, SubmitCheck(w, c, asked)
       PROVE  LoneInv'
  <2>1. PICK row : row = [Idle EXCEPT !.pc = "resolve", !.cand = c, !.asked = asked]
    OBVIOUS
  <2>2. task' = [task EXCEPT ![w] = row] /\ t.pc = "idle" /\ cands[c].status = "Approved"
    BY <1>1, <1>12, <2>1 DEF SubmitCheck, Goto, At
  <2>3. row.pc = "resolve" /\ row.cand = c /\ row.todo = {}
    BY <2>1 DEF Idle
  <2>4. Alone(row)'
    BY <1>2, <2>2, <2>3 DEF Alone, SubmitPc
  <2> QED BY <1>3, <1>4, <2>2, <2>4
\* Within a submit.
<1>13. ASSUME NEW row, task' = [task EXCEPT ![w] = row],
              t.pc \in {"resolve", "new_entity", "target"},
              row.pc \in SubmitPc /\ row.cand = t.cand /\ row.todo = t.todo
       PROVE  LoneInv'
  <2>1. t.todo = {} /\ cands[t.cand].status = "Approved"
    BY <1>1, <1>13 DEF Lone, Alone, SubmitPc
  <2>2. Alone(row)'
    BY <1>2, <1>13, <2>1 DEF Alone, SubmitPc
  <2> QED BY <1>3, <1>13, <2>1, <2>2
<1>14. t.pc \in {"resolve", "new_entity", "target"} => t.todo = {}
  BY <1>1 DEF Lone, Alone
<1>15. ASSUME NEW e \in EntityId, ResolveFound(w, e)
       PROVE  LoneInv'
  <2>1. PICK row : row = [t EXCEPT !.pc = "target", !.entity = e]
    OBVIOUS
  <2>2. task' = [task EXCEPT ![w] = row] /\ t.pc = "resolve"
    BY <1>1, <1>15, <2>1 DEF ResolveFound, Goto, At
  <2>3. row.pc = "target" /\ row.cand = t.cand /\ row.todo = t.todo
    BY <1>1, <2>1 DEF Task
  <2> QED BY <1>13, <2>2, <2>3 DEF SubmitPc
<1>16. CASE ResolveMissing(w)
  <2>1. PICK row : row = [t EXCEPT !.pc = "new_entity"]
    OBVIOUS
  <2>2. task' = [task EXCEPT ![w] = row] /\ t.pc = "resolve"
    BY <1>1, <1>16, <2>1 DEF ResolveMissing, Advance, Goto, At
  <2>3. row.pc = "new_entity" /\ row.cand = t.cand /\ row.todo = t.todo
    BY <1>1, <2>1 DEF Task
  <2> QED BY <1>13, <2>2, <2>3 DEF SubmitPc
<1>17. ASSUME NEW y \in EntityType, EntityCheck(w, y)
       PROVE  LoneInv'
  <2>1. t.pc = "new_entity"
    BY <1>1, <1>17 DEF EntityCheck, At
  <2>2. CASE task' = [task EXCEPT ![w] = Idle]
    BY <1>5, <1>6, <1>14, <2>1, <2>2
  <2>3. PICK row : row = [t EXCEPT !.pc = "add_entity", !.status = y]
    OBVIOUS
  <2>4. row.pc = "add_entity" /\ row.cand = t.cand /\ row.todo = t.todo
    BY <1>1, <2>3 DEF Task
  <2>5. CASE task' = [task EXCEPT ![w] = row]
    BY <1>13, <2>1, <2>4, <2>5 DEF SubmitPc
  <2> QED BY <1>1, <1>17, <2>2, <2>3, <2>5 DEF EntityCheck, Return, Goto
<1>18. CASE ChooseTarget(w)
  <2>1. t.pc = "target"
    BY <1>1, <1>18 DEF ChooseTarget, At
  <2>2. CASE task' = [task EXCEPT ![w] = Idle]
    BY <1>5, <1>6, <1>14, <2>1, <2>2
  <2>3. ASSUME NEW old, NEW pc \in {"create", "retire"},
               task' = [task EXCEPT ![w] = [t EXCEPT !.pc = pc, !.old = old, !.asked = NoFact]]
        PROVE  LoneInv'
    <3>1. PICK row : row = [t EXCEPT !.pc = pc, !.old = old, !.asked = NoFact]
      OBVIOUS
    <3>2. row.pc = pc /\ row.cand = t.cand /\ row.todo = t.todo
      BY <1>1, <3>1 DEF Task
    <3> QED BY <1>13, <2>1, <2>3, <3>1, <3>2 DEF SubmitPc
  <2>4. PICK old : \/ task' = [task EXCEPT ![w] = Idle]
                   \/ task' = [task EXCEPT ![w] =
                        [t EXCEPT !.pc = IF old = NoFact THEN "create" ELSE "retire",
                                  !.old = old, !.asked = NoFact]]
    BY <1>1, <1>18 DEF ChooseTarget, Return, Goto
  <2> QED BY <2>2, <2>3, <2>4
<1> QED BY <1>7, <1>8, <1>9, <1>10, <1>11, <1>12, <1>15, <1>16, <1>17, <1>18
        DEF Reads, VerdictCheck

LEMMA LoneRunWrites ==
  ASSUME ThreadsInv, NEW w, Worker = {w}, LoneInv,
         AddRun(w) \/ StartRun(w) \/ EndRun(w) \/ CancelSave(w)
  PROVE  LoneInv'
<1>1. PICK t : t = task[w] /\ t \in Task /\ Knows(t) /\ Lone(t)
  BY DEF ThreadsInv, LoneInv
<1>2. UNCHANGED <<cands, origin>>
  BY DEF AddRun, StartRun, EndRun, CancelSave
<1>3. ASSUME NEW row, task' = [task EXCEPT ![w] = row], Alone(row)', Held(row)',
             t.pc \notin {"activate", "submitted"}
      PROVE  LoneInv'
  <2>1. task'[w] = row
    BY <1>3 DEF ThreadsInv
  <2>2. Accounted(row)'
    BY <1>1, <1>2, <1>3 DEF Lone, Accounted
  <2>3. Lone(row)'
    BY <1>3, <2>2 DEF Lone
  <2> QED BY <2>1, <2>3 DEF LoneInv, Lone, Alone, Accounted, Held
<1>4. Alone(t) /\ Held(t)
  BY <1>1 DEF Lone
<1>5. CASE AddRun(w)
  <2>1. PICK run : run = [state |-> "Queued", cands |-> t.todo, snapshot |-> t.snapshot]
    OBVIOUS
  <2>2. PICK row : row = [t EXCEPT !.pc = "validating", !.status = "Validating"]
    OBVIOUS
  <2>3. /\ t.pc = "add_run" /\ t.run \notin DOMAIN runs
        /\ runs' = Put(runs, t.run, run)
        /\ task' = [task EXCEPT ![w] = row]
    BY <1>1, <1>5, <2>1, <2>2 DEF AddRun, At, Goto
  <2>4. row.pc = "validating" /\ row.run = t.run /\ row.todo = t.todo
    BY <1>1, <2>2 DEF Task
  <2>5. /\ runs'[t.run] = run /\ \A r \in DOMAIN runs : r \in DOMAIN runs' /\ runs'[r] = runs[r]
    BY <2>3 DEF Put
  <2>6. Alone(row)'
    BY <1>2, <1>4, <2>1, <2>3, <2>4, <2>5 DEF Alone, SubmitPc
  <2>7. Held(row)'
    BY <1>2, <1>4, <2>3, <2>4, <2>5 DEF Held, Holds
  <2> QED BY <1>3, <2>3, <2>6, <2>7
<1>6. ASSUME NEW state, SaveRun(t.run, state), t.run \in DOMAIN runs
      PROVE  /\ DOMAIN runs' = DOMAIN runs
             /\ runs'[t.run].state = state /\ runs'[t.run].cands = runs[t.run].cands
             /\ \A r \in DOMAIN runs : r # t.run => runs'[r] = runs[r]
  <2>1. runs[t.run] \in Run
    BY <1>6 DEF ThreadsInv, PipelineTypeOK
  <2> QED BY <1>6, <2>1 DEF SaveRun, Put, Run
<1>7. CASE StartRun(w)
  <2>1. PICK row : row = [t EXCEPT !.pc = "evaluate"]
    OBVIOUS
  <2>2. t.pc = "start_run" /\ SaveRun(t.run, "Running") /\ task' = [task EXCEPT ![w] = row]
    BY <1>1, <1>7, <2>1 DEF StartRun, At, Advance, Goto
  <2>3. t.run \in DOMAIN runs
    BY <1>1, <2>2 DEF Knows
  <2>4. row.pc = "evaluate" /\ row.run = t.run /\ row.todo = t.todo
    BY <1>1, <2>1 DEF Task
  <2>5. Alone(row)'
    BY <1>2, <1>4, <1>6, <2>2, <2>3, <2>4 DEF Alone, SubmitPc
  <2>6. Held(row)'
    BY <1>2, <1>4, <1>6, <2>2, <2>3, <2>4 DEF Held, Holds
  <2> QED BY <1>3, <2>2, <2>5, <2>6
<1>8. CASE EndRun(w)
  <2>1. PICK S, status : S = runs[t.run].cands /\ status = StatusAfter(t.status)
    OBVIOUS
  <2>2. PICK row : row = [Idle EXCEPT !.pc = "verdict", !.todo = S, !.status = status]
    OBVIOUS
  <2>3. t.pc = "end_run" /\ SaveRun(t.run, t.status) /\ task' = [task EXCEPT ![w] = row]
    BY <1>1, <1>8, <2>1, <2>2 DEF EndRun, At, Goto
  <2>4. t.run \in DOMAIN runs
    BY <1>1, <2>3 DEF Knows
  <2>5. row.pc = "verdict" /\ row.todo = S
    BY <2>2 DEF Idle
  <2>6. Alone(row)'
    BY <1>2, <1>4, <2>1, <2>3, <2>5 DEF Alone, SubmitPc
  <2>7. t.todo = {}
    BY <1>4, <2>3 DEF Alone
  <2>8. Held(row)'
    BY <1>2, <1>4, <1>6, <2>1, <2>3, <2>4, <2>5, <2>7 DEF Held, Holds
  <2> QED BY <1>3, <2>3, <2>6, <2>8
<1>9. CASE CancelSave(w)
  <2>1. PICK row : row = [t EXCEPT !.pc = "select"]
    OBVIOUS
  <2>2. t.pc = "cancel" /\ SaveRun(t.run, "Cancelled") /\ task' = [task EXCEPT ![w] = row]
    BY <1>1, <1>9, <2>1 DEF CancelSave, At, Advance, Goto
  <2>3. t.run \in DOMAIN runs
    BY <1>1, <2>2 DEF Knows
  <2>4. row.pc = "select" /\ row.run = t.run /\ row.todo = t.todo
    BY <1>1, <2>1 DEF Task
  <2>5. Alone(row)'
    BY <1>2, <1>4, <2>2, <2>4 DEF Alone, SubmitPc
  <2>6. Held(row)'
    BY <1>2, <1>4, <1>6, <2>2, <2>3, <2>4 DEF Held, Holds
  <2> QED BY <1>3, <2>2, <2>5, <2>6
<1> QED BY <1>5, <1>7, <1>8, <1>9

LEMMA LoneMoveWrites ==
  ASSUME ThreadsInv, NEW w, Worker = {w}, LoneInv, MoveOne(w)
  PROVE  LoneInv'
<1>1. PICK t : t = task[w] /\ t \in Task /\ Knows(t) /\ Lone(t)
  BY DEF ThreadsInv, LoneInv
<1>2. PICK c \in t.todo :
        /\ t.pc \in {"validating", "verdict", "release"}
        /\ cands' = Move({c}, t.status)
        /\ task' = [task EXCEPT ![w] = AfterMove([t EXCEPT !.todo = t.todo \ {c}])]
        /\ UNCHANGED <<ledgerVars, runs, origin>>
  BY <1>1 DEF MoveOne, Goto
<1>3. /\ t.status \in CandStatus /\ c \in DOMAIN cands
      /\ t.pc = "validating" => t.status = "Validating"
      /\ t.pc # "validating" => t.status # "Validating"
  BY <1>1, <1>2 DEF Knows, CandStatus
<1>4. PipelineTypeOK
  BY DEF ThreadsInv
<1>5. /\ DOMAIN cands' = DOMAIN cands /\ cands'[c].status = t.status
      /\ \A d \in DOMAIN cands : d # c => cands'[d] = cands[d]
  BY <1>2, <1>3, <1>4, MoveRows
<1>6. Alone(t) /\ Accounted(t) /\ Held(t)
  BY <1>1 DEF Lone
<1>7. PICK rest : rest = t.todo \ {c}
  OBVIOUS
<1>8. PICK u : u = [t EXCEPT !.todo = rest]
  OBVIOUS
<1>9. u \in Task /\ u.pc = t.pc /\ u.todo = rest /\ u.status = t.status /\ u.run = t.run
  BY <1>1, <1>7, <1>8 DEF Task
<1>10. PICK row : row = AfterMove(u)
  OBVIOUS
<1>11. \/ row = u
       \/ row = [u EXCEPT !.pc = "start_run", !.status = NoOne] /\ u.pc = "validating" /\ rest = {}
       \/ row = Idle /\ rest = {}
  BY <1>9, <1>10 DEF AfterMove
<1>12. /\ row.todo = rest
       /\ \/ row.pc = t.pc /\ row.run = t.run
          \/ row.pc = "start_run" /\ t.pc = "validating" /\ row.run = t.run /\ rest = {}
          \/ row.pc = "idle" /\ rest = {}
  <2>1. CASE row = u
    BY <1>9, <2>1
  <2>2. CASE row = [u EXCEPT !.pc = "start_run", !.status = NoOne] /\ u.pc = "validating" /\ rest = {}
    BY <1>9, <2>2 DEF Task
  <2>3. CASE row = Idle /\ rest = {}
    BY <2>3 DEF Idle
  <2> QED BY <1>11, <2>1, <2>2, <2>3
<1>13. cands[c].status \in {"Extracted", "Validating"}
  BY <1>2, <1>6 DEF Alone
<1>14. t.pc = "validating" =>
         /\ runs[t.run].state = "Queued" /\ t.run \in DOMAIN runs
         /\ t.todo \subseteq runs[t.run].cands /\ runs[t.run].cands \subseteq DOMAIN cands
         /\ \A d \in runs[t.run].cands :
              cands[d].status = IF d \in t.todo THEN "Extracted" ELSE "Validating"
  BY <1>1, <1>6 DEF Alone, Knows, ThreadsInv, RunsHoldRows
<1>15. Alone(row)'
  <2>1. rest \subseteq DOMAIN cands /\ c \notin rest /\ rest \subseteq t.todo /\ runs' = runs
    BY <1>1, <1>2, <1>7 DEF Knows
  <2>2. CASE row.pc = "idle"
    BY <1>2, <1>12, <2>2 DEF Alone, SubmitPc
  <2>3. CASE row.pc = "validating"
    <3>1. t.pc = "validating" /\ row.run = t.run
      BY <1>2, <1>12, <2>3
    <3>2. \A d \in runs[t.run].cands :
            cands'[d].status = IF d \in rest THEN "Extracted" ELSE "Validating"
      BY <1>3, <1>5, <1>7, <1>14, <3>1
    <3> QED BY <1>12, <1>14, <2>1, <2>3, <3>1, <3>2 DEF Alone, SubmitPc
  <2>4. CASE row.pc = "start_run"
    <3>1. t.pc = "validating" /\ row.run = t.run /\ rest = {}
      BY <1>2, <1>12, <2>4
    <3>2. \A d \in runs[t.run].cands : cands'[d].status = "Validating"
      BY <1>3, <1>5, <1>7, <1>14, <3>1
    <3> QED BY <1>12, <1>14, <2>1, <2>4, <3>1, <3>2 DEF Alone, SubmitPc
  <2>5. CASE row.pc \in {"verdict", "release"}
    <3>1. \A d \in rest : cands'[d].status = "Validating"
      BY <1>5, <1>6, <1>12, <2>1, <2>5 DEF Alone
    <3> QED BY <1>12, <2>5, <3>1 DEF Alone, SubmitPc
  <2> QED BY <1>2, <1>12, <2>2, <2>3, <2>4, <2>5
<1>16. Accounted(row)'
  <2>1. \A f \in DOMAIN origin : cands[origin[f]].status = "Submitted" /\ origin[f] \in DOMAIN cands
    BY <1>2, <1>6 DEF Accounted, ThreadsInv, OriginsAreRows
  <2> QED BY <1>2, <1>5, <1>13, <2>1 DEF Accounted
<1>17. Held(row)'
  <2>1. ASSUME NEW d \in DOMAIN cands, cands'[d].status = "Validating"
        PROVE  (\E r \in DOMAIN runs : Holds(r, d)) \/ d \in rest
    <3>1. CASE d = c
      <4>1. t.pc = "validating"
        BY <1>3, <1>5, <2>1, <3>1
      <4> QED BY <1>14, <3>1, <4>1 DEF Holds
    <3>2. CASE d # c
      BY <1>2, <1>5, <1>6, <1>7, <2>1, <3>2 DEF Held
    <3> QED BY <3>1, <3>2
  <2> QED BY <1>2, <1>5, <1>12, <2>1 DEF Held, Holds
<1>18. task'[w] = row
  BY <1>2, <1>7, <1>8, <1>10 DEF ThreadsInv
<1>19. Lone(row)'
  BY <1>15, <1>16, <1>17 DEF Lone
<1> QED BY <1>18, <1>19 DEF LoneInv, Lone, Alone, Accounted, Held

\* A candidate the request was for goes on to status, and the request is over.
LEMMA LoneStatusWrites ==
  ASSUME ThreadsInv, NEW w, Worker = {w}, LoneInv,
         \/ VerdictSave(w, "approve", "Approved", "Approve")
         \/ VerdictSave(w, "reject", "Rejected", "Reject")
         \/ SubmitSave(w)
  PROVE  LoneInv'
<1>1. PICK t : t = task[w] /\ t \in Task /\ Knows(t) /\ Lone(t)
  BY DEF ThreadsInv, LoneInv
<1>2. Alone(t) /\ Accounted(t) /\ Held(t)
  BY <1>1 DEF Lone
<1>3. PICK c : c = t.cand
  OBVIOUS
<1>4. /\ c \in DOMAIN cands
      /\ task' = [task EXCEPT ![w] = Idle]
      /\ UNCHANGED <<runs, origin>>
  BY <1>1, <1>3 DEF VerdictSave, SubmitSave, Knows, SubmitPc, At, Return, Goto
<1>5. \/ /\ t.pc \in {"approve", "reject"}
         /\ \/ cands' = Verdict(c, "Approved", "Approve")
            \/ cands' = Verdict(c, "Rejected", "Reject")
      \/ /\ t.pc = "submitted"
         /\ cands' = Put(cands, c, [cands[c] EXCEPT !.status = "Submitted",
                                                    !.fact = t.new, !.superseded = t.old])
  BY <1>1, <1>3 DEF VerdictSave, SubmitSave, At
<1>6. cands[c] \in CandidateRow
  BY <1>4 DEF ThreadsInv, PipelineTypeOK
<1>7. /\ DOMAIN cands' = DOMAIN cands
      /\ \A d \in DOMAIN cands : d # c => cands'[d] = cands[d]
      /\ cands'[c].status # "Validating"
      /\ t.pc = "submitted" => cands'[c].status = "Submitted"
  <2>1. CASE cands' = Verdict(c, "Approved", "Approve") /\ t.pc \in {"approve", "reject"}
    BY <1>4, <1>6, <2>1 DEF Verdict, Put, CandidateRow
  <2>2. CASE cands' = Verdict(c, "Rejected", "Reject") /\ t.pc \in {"approve", "reject"}
    BY <1>4, <1>6, <2>2 DEF Verdict, Put, CandidateRow
  <2>3. CASE cands' = Put(cands, c, [cands[c] EXCEPT !.status = "Submitted",
                                                     !.fact = t.new, !.superseded = t.old])
    <3>1. cands'[c].status = "Submitted"
      BY <1>4, <1>6, <2>3 DEF Put, CandidateRow
    <3> QED BY <1>4, <2>3, <3>1 DEF Put
  <2> QED BY <1>5, <2>1, <2>2, <2>3
<1>8. Alone(Idle)'
  BY DEF Alone, Idle, SubmitPc
<1>9. Accounted(Idle)'
  <2>1. ASSUME NEW f \in DOMAIN origin
        PROVE  cands'[origin[f]].status = "Submitted"
    <3>1. origin[f] \in DOMAIN cands
      BY <2>1 DEF ThreadsInv, OriginsAreRows
    <3>2. CASE t.pc = "submitted"
      BY <1>2, <1>3, <1>7, <2>1, <3>1, <3>2 DEF Accounted
    <3>3. CASE t.pc \in {"approve", "reject"}
      <4>1. cands[origin[f]].status = "Submitted"
        BY <1>2, <2>1, <3>3 DEF Accounted
      <4>2. cands[c].status # "Submitted"
        BY <1>2, <1>3, <3>3 DEF Alone
      <4> QED BY <1>7, <3>1, <4>1, <4>2
    <3> QED BY <1>5, <3>2, <3>3
  <2> QED BY <1>4, <2>1 DEF Accounted
<1>10. Held(Idle)'
  <2>1. t.todo = {} /\ t.pc # "select"
    BY <1>2, <1>5 DEF Alone
  <2> QED BY <1>2, <1>4, <1>7, <2>1 DEF Held, Holds
<1>11. task'[w] = Idle
  BY <1>4 DEF ThreadsInv
<1>12. Lone(Idle)'
  BY <1>8, <1>9, <1>10 DEF Lone
<1> QED BY <1>11, <1>12 DEF LoneInv, Lone, Alone, Accounted, Held

\* The ledger is written for a candidate whose submit says so at the end.
LEMMA LoneLedgerWrites ==
  ASSUME ThreadsInv, NEW w, Worker = {w}, LoneInv,
         \/ \E e \in EntityId : AddEntity(w, e)
         \/ \E f \in FactId : RetireOld(w, f) \/ AddFact(w, f)
         \/ AddReplacement(w)
         \/ ActivateFact(w)
  PROVE  LoneInv'
<1>1. PICK t : t = task[w] /\ t \in Task /\ Knows(t) /\ Lone(t)
  BY DEF ThreadsInv, LoneInv
<1>2. Alone(t) /\ Accounted(t) /\ Held(t)
  BY <1>1 DEF Lone
<1>3. UNCHANGED <<cands, runs>>
  BY DEF AddEntity, RetireOld, AddFact, AddReplacement, ActivateFact
<1>4. ASSUME NEW row, task' = [task EXCEPT ![w] = row],
             t.pc \in SubmitPc, row.pc \in SubmitPc, row.cand = t.cand, row.todo = t.todo,
             \/ UNCHANGED origin /\ t.pc \notin {"activate", "submitted"}
             \/ /\ row.pc \in {"activate", "submitted"}
                /\ \/ UNCHANGED origin
                   \/ \E f : origin' = Put(origin, f, t.cand)
      PROVE  LoneInv'
  <2>1. t.todo = {} /\ cands[t.cand].status = "Approved" /\ t.pc # "select"
    BY <1>2, <1>4 DEF Alone, SubmitPc
  <2>2. Alone(row)'
    BY <1>3, <1>4, <2>1 DEF Alone, SubmitPc
  <2>3. Accounted(row)'
    <3>1. CASE UNCHANGED origin /\ t.pc \notin {"activate", "submitted"}
      BY <1>2, <1>3, <1>4, <3>1 DEF Accounted
    <3>2. CASE UNCHANGED origin /\ row.pc \in {"activate", "submitted"}
      BY <1>2, <1>3, <1>4, <3>2 DEF Accounted
    <3>3. ASSUME NEW f, origin' = Put(origin, f, t.cand), row.pc \in {"activate", "submitted"}
          PROVE  Accounted(row)'
      <4>1. ASSUME NEW g \in DOMAIN origin'
            PROVE  origin'[g] = t.cand \/ (g \in DOMAIN origin /\ origin'[g] = origin[g])
        BY <3>3, <4>1 DEF Put
      <4> QED BY <1>2, <1>3, <1>4, <3>3, <4>1 DEF Accounted
    <3> QED BY <1>4, <3>1, <3>2, <3>3
  <2>4. Held(row)'
    BY <1>2, <1>3, <1>4, <2>1 DEF Held, Holds
  <2>5. task'[w] = row
    BY <1>4 DEF ThreadsInv
  <2>6. Lone(row)'
    BY <2>2, <2>3, <2>4 DEF Lone
  <2> QED BY <2>5, <2>6 DEF LoneInv, Lone, Alone, Accounted, Held
<1>5. ASSUME NEW e \in EntityId, AddEntity(w, e)
      PROVE  LoneInv'
  <2>1. PICK row : row = [t EXCEPT !.pc = "target", !.entity = e, !.status = NoOne]
    OBVIOUS
  <2>2. t.pc = "add_entity" /\ task' = [task EXCEPT ![w] = row] /\ UNCHANGED origin
    BY <1>1, <1>5, <2>1 DEF AddEntity, At, Goto
  <2>3. row.pc = "target" /\ row.cand = t.cand /\ row.todo = t.todo
    BY <1>1, <2>1 DEF Task
  <2> QED BY <1>4, <2>2, <2>3 DEF SubmitPc
<1>6. ASSUME NEW f \in FactId, RetireOld(w, f)
      PROVE  LoneInv'
  <2>1. PICK row : row = [t EXCEPT !.pc = "replace", !.new = f]
    OBVIOUS
  <2>2. t.pc = "retire" /\ task' = [task EXCEPT ![w] = row] /\ UNCHANGED origin
    BY <1>1, <1>6, <2>1 DEF RetireOld, At, Goto
  <2>3. row.pc = "replace" /\ row.cand = t.cand /\ row.todo = t.todo
    BY <1>1, <2>1 DEF Task
  <2> QED BY <1>4, <2>2, <2>3 DEF SubmitPc
<1>7. ASSUME NEW f \in FactId, AddFact(w, f)
      PROVE  LoneInv'
  <2>1. PICK row : row = [t EXCEPT !.pc = "activate", !.new = f]
    OBVIOUS
  <2>2. /\ t.pc = "create" /\ task' = [task EXCEPT ![w] = row]
        /\ origin' = Put(origin, f, t.cand)
    BY <1>1, <1>7, <2>1 DEF AddFact, At, Goto
  <2>3. row.pc = "activate" /\ row.cand = t.cand /\ row.todo = t.todo
    BY <1>1, <2>1 DEF Task
  <2> QED BY <1>4, <2>2, <2>3 DEF SubmitPc
<1>8. CASE AddReplacement(w) \/ ActivateFact(w)
  <2>1. PICK row : row = [t EXCEPT !.pc = "submitted"]
    OBVIOUS
  <2>2. /\ t.pc \in {"replace", "activate"} /\ task' = [task EXCEPT ![w] = row]
        /\ UNCHANGED origin \/ origin' = Put(origin, t.new, t.cand)
    BY <1>1, <1>8, <2>1 DEF AddReplacement, ActivateFact, At, Advance, Goto
  <2>3. row.pc = "submitted" /\ row.cand = t.cand /\ row.todo = t.todo
    BY <1>1, <2>1 DEF Task
  <2> QED BY <1>4, <2>2, <2>3 DEF SubmitPc
<1> QED BY <1>5, <1>6, <1>7, <1>8

\* A batch arrives when no request is in flight.
LEMMA LoneOneAccess ==
  ASSUME ThreadsInv, NEW w, Worker = {w}, LoneInv, OneAccess(w)
  PROVE  LoneInv'
<1>1. PICK t : t = task[w] /\ t \in Task /\ Knows(t) /\ Lone(t)
  BY DEF ThreadsInv, LoneInv
<1>2. Alone(t) /\ Accounted(t) /\ Held(t)
  BY <1>1 DEF Lone
<1>3. t.pc = "idle" /\ t.todo = {} /\ UNCHANGED <<task, origin>>
  BY <1>1, <1>2 DEF OneAccess, At, Alone
<1>4. /\ UNCHANGED runs
      /\ DOMAIN cands \subseteq DOMAIN cands'
      /\ \A c \in DOMAIN cands : cands'[c] = cands[c]
      /\ \A c \in DOMAIN cands' \ DOMAIN cands : cands'[c].status = "Extracted"
  <2>1. CASE UNCHANGED <<cands, runs>>
    BY <2>1
  <2>2. CASE \E S \in SUBSET Candidate : PersistExtracted(S)
    BY <2>2 DEF PersistExtracted, NewCandidate
  <2> QED BY <2>1, <2>2 DEF OneAccess
<1>5. Alone(t)'
  BY <1>3 DEF Alone, SubmitPc
<1>6. Accounted(t)'
  BY <1>2, <1>3, <1>4 DEF Accounted, ThreadsInv, OriginsAreRows
<1>7. Held(t)'
  BY <1>2, <1>3, <1>4 DEF Held, Holds
<1>8. Lone(t)'
  BY <1>5, <1>6, <1>7 DEF Lone
<1> QED BY <1>1, <1>3, <1>8 DEF LoneInv, Lone, Alone, Accounted, Held

LEMMA LoneStep ==
  ASSUME ThreadsInv, OneThread, ~Crashes, LoneInv, [ThreadsNext]_threadVars
  PROVE  LoneInv'
<1>1. PICK w : Worker = {w}
  BY DEF OneThread
<1>2. CASE UNCHANGED threadVars
  BY <1>2 DEF threadVars, LoneInv, Lone, Alone, Accounted, Held, Holds
<1>3. CASE Reads(w) \/ Writes(w)
  <2>1. CASE Reads(w)
    <3>1. UNCHANGED <<ledgerVars, cands, runs, origin>>
      BY <1>1, <2>1, ReadsStep DEF ReadStep
    <3> QED BY <1>1, <2>1, <3>1, LoneReads
  <2>2. CASE Writes(w)
    BY <1>1, <2>2, LoneRunWrites, LoneMoveWrites, LoneStatusWrites, LoneLedgerWrites DEF Writes
  <2> QED BY <1>3, <2>1, <2>2
<1>4. CASE OneAccess(w)
  BY <1>1, <1>4, LoneOneAccess
<1> QED BY <1>1, <1>2, <1>3, <1>4, ThreadsStep DEF Crash

LEMMA LoneInitInv ==
  ASSUME ThreadsInit
  PROVE  LoneInv
<1>1. \A w \in Worker : task[w] = Idle
  BY DEF ThreadsInit
<1>2. DOMAIN cands = {} /\ DOMAIN origin = {}
  BY DEF ThreadsInit, PipelineInit, EmptyTable
<1>3. Lone(Idle)
  BY <1>2 DEF Lone, Alone, Accounted, Held, Idle, SubmitPc
<1> QED BY <1>1, <1>3 DEF LoneInv
LEMMA LoneInvariant ==
  ASSUME OneThread, ~Crashes
  PROVE  ThreadsSpec => []LoneInv
<1>1. ThreadsInit => LoneInv
  BY LoneInitInv
<1>2. ThreadsInv /\ LoneInv /\ [ThreadsNext]_threadVars => LoneInv'
  BY LoneStep
<1> QED BY <1>1, <1>2, ThreadsInvariant, PTL DEF ThreadsSpec

\* A rejection may come at any moment up to the submit, and a submit does not
\* look at the candidate again before its last write: a request at a time and
\* no crash are what keeps a rejected candidate out of Canon.
THEOREM RejectedStaysOut ==
  ASSUME OneThread, ~Crashes
  PROVE  ThreadsSpec => []RejectedNotInCanon
<1>1. LoneInv => RejectedNotInCanon
  <2> SUFFICES ASSUME LoneInv, NEW c \in DOMAIN cands, cands[c].status = "Rejected",
                      NEW f \in DOMAIN origin, origin[f] = c
               PROVE  FALSE
    BY DEF RejectedNotInCanon
  <2>1. PICK w : w \in Worker /\ Lone(task[w])
    BY DEF OneThread, LoneInv
  <2>2. task[w].pc \in {"activate", "submitted"} /\ task[w].cand = c
    BY <2>1 DEF Lone, Accounted
  <2>3. cands[c].status = "Approved"
    BY <2>1, <2>2 DEF Lone, Alone, SubmitPc
  <2> QED BY <2>3
<1> QED BY <1>1, LoneInvariant, PTL

\* On every path through trigger_run, _run and cancel_run a candidate that is
\* moved to validation is released or sent to its verdict again: a queued or
\* running run holds it, or the request that has ended the run still has it in hand.
THEOREM NoneStranded ==
  ASSUME OneThread, ~Crashes
  PROVE  ThreadsSpec => []ValidatingNotStranded
<1>1. LoneInv => ValidatingNotStranded
  <2> SUFFICES ASSUME LoneInv, NEW c \in DOMAIN cands, cands[c].status = "Validating"
               PROVE  \/ \E r \in DOMAIN runs : /\ c \in runs[r].cands
                                                /\ runs[r].state \in {"Queued", "Running"}
                      \/ \E w \in Worker :
                           \/ c \in task[w].todo
                           \/ At(w, "select") /\ c \in runs[task[w].run].cands
    BY DEF ValidatingNotStranded
  <2>1. PICK w : w \in Worker /\ Lone(task[w])
    BY DEF OneThread, LoneInv
  <2> QED BY <2>1 DEF Lone, Held, Holds, At
<1> QED BY <1>1, LoneInvariant, PTL
-----------------------------------------------------------------------------
(* The steps of a request add up to one handler *)

LEMMA MarkedMore ==
  ASSUME NEW table, table \in [DOMAIN table -> CandidateRow], NEW S, NEW T,
         NEW status \in CandStatus
  PROVE  Marked(Marked(table, S, status), T, status) = Marked(table, S \cup T, status)
<1> DEFINE once == Marked(table, S, status)
<1>1. DOMAIN once = DOMAIN table
  BY DEF Marked
<1>2. ASSUME NEW d \in DOMAIN table
      PROVE  (IF d \in T THEN [once[d] EXCEPT !.status = status] ELSE once[d])
               = IF d \in S \cup T THEN [table[d] EXCEPT !.status = status] ELSE table[d]
  <2>1. once[d] = IF d \in S THEN [table[d] EXCEPT !.status = status] ELSE table[d]
    BY DEF Marked
  <2>2. table[d] \in CandidateRow
    OBVIOUS
  <2>3. [[table[d] EXCEPT !.status = status] EXCEPT !.status = status]
          = [table[d] EXCEPT !.status = status]
    BY <2>2 DEF CandidateRow
  <2> QED BY <2>1, <2>3
<1> HIDE DEF once
<1> QED BY <1>1, <1>2 DEF Marked, once

LEMMA MarkedOver ==
  ASSUME NEW table, table \in [DOMAIN table -> CandidateRow], NEW S,
         NEW first \in CandStatus, NEW status \in CandStatus
  PROVE  Marked(Marked(table, S, first), S, status) = Marked(table, S, status)
<1> DEFINE once == Marked(table, S, first)
<1>1. DOMAIN once = DOMAIN table
  BY DEF Marked
<1>2. ASSUME NEW d \in DOMAIN table
      PROVE  (IF d \in S THEN [once[d] EXCEPT !.status = status] ELSE once[d])
               = IF d \in S THEN [table[d] EXCEPT !.status = status] ELSE table[d]
  <2>1. once[d] = IF d \in S THEN [table[d] EXCEPT !.status = first] ELSE table[d]
    BY DEF Marked
  <2>2. table[d] \in CandidateRow
    OBVIOUS
  <2>3. [[table[d] EXCEPT !.status = first] EXCEPT !.status = status]
          = [table[d] EXCEPT !.status = status]
    BY <2>2 DEF CandidateRow
  <2> QED BY <2>1, <2>3
<1> HIDE DEF once
<1> QED BY <1>1, <1>2 DEF Marked, once

LEMMA MarkedNone ==
  ASSUME NEW table, table \in [DOMAIN table -> CandidateRow], NEW status
  PROVE  Marked(table, {}, status) = table
BY DEF Marked

LEMMA MarkedType ==
  ASSUME NEW table, table \in [DOMAIN table -> CandidateRow], NEW S, NEW status \in CandStatus
  PROVE  /\ DOMAIN Marked(table, S, status) = DOMAIN table
         /\ Marked(table, S, status) \in [DOMAIN table -> CandidateRow]
BY DEF Marked, CandidateRow

Implements == FlightInv' /\ [Atomic!PipelineNext]_(Atomic!pipelineVars)

\* In the middle of a request the abstract tables stand still.
LEMMA GoesOn ==
  ASSUME NEW w, Worker = {w}, FlightInv, AtomicityNext, NEW row, task'[w] = row,
         row.pc # "idle", UNCHANGED settled => InFlight(row)'
  PROVE  Implements
<1>1. ~Quiet'
  BY DEF Quiet, At
<1>2. UNCHANGED settled
  BY <1>1 DEF AtomicityNext
<1>3. UNCHANGED autoRun
  BY DEF AtomicityNext, ThreadsNext
<1>4. UNCHANGED Atomic!pipelineVars
  BY <1>2 DEF Atomic!pipelineVars, Atomic!ledgerVars
<1>5. Atomic!PipelineTypeOK'
  BY <1>2 DEF FlightInv, Atomic!PipelineTypeOK, Atomic!LedgerTypeOK
<1>6. \A v \in Worker : InFlight(task[v])'
  <2>1. InFlight(row)'
    BY <1>2
  <2> QED BY <2>1 DEF InFlight, InTrigger, InCancel, InSubmit
<1> QED BY <1>2, <1>3, <1>4, <1>5, <1>6 DEF Implements, FlightInv
\* With its last step the abstract tables become those of the process.
LEMMA Lands ==
  ASSUME NEW w, Worker = {w}, FlightInv, ThreadsInv', AtomicityNext, task'[w].pc = "idle",
         settled' = Tables' => Atomic!PipelineNext \/ UNCHANGED Atomic!pipelineVars
  PROVE  Implements
<1>1. Quiet'
  BY DEF Quiet, At
<1>2. settled' = Tables'
  BY <1>1 DEF AtomicityNext
<1>3. /\ settled'.entities = entities' /\ settled'.facts = facts'
      /\ settled'.snapshots = snapshots' /\ settled'.cands = cands'
      /\ settled'.runs = runs' /\ settled'.autoRun = autoRun'
  BY <1>2 DEF Tables
<1>4. Atomic!PipelineTypeOK'
  BY <1>3 DEF ThreadsInv, PipelineTypeOK, LedgerTypeOK, Atomic!PipelineTypeOK,
              Atomic!LedgerTypeOK, Entity, Fact, FactStatus, Snapshot, CandidateRow,
              CandStatus, Run, RunState, Atomic!Entity, Atomic!Fact, Atomic!FactStatus,
              Atomic!Snapshot, Atomic!CandidateRow, Atomic!CandStatus, Atomic!Run,
              Atomic!RunState
<1>5. PICK t : t = task'[w]
  OBVIOUS
<1>6. InFlight(t)'
  BY <1>2, <1>5 DEF InFlight, InTrigger, InCancel, InSubmit
<1>7. \A v \in Worker : InFlight(task[v])'
  BY <1>5, <1>6 DEF InFlight, InTrigger, InCancel, InSubmit
<1> QED BY <1>2, <1>3, <1>4, <1>7 DEF Implements, FlightInv

\* A request that only reads, and is over.
LEMMA LandsUnchanged ==
  ASSUME NEW w, Worker = {w}, FlightInv, ThreadsInv', AtomicityNext, task'[w].pc = "idle",
         settled = Tables, UNCHANGED <<ledgerVars, cands, runs>>
  PROVE  Implements
<1>1. UNCHANGED autoRun
  BY DEF AtomicityNext, ThreadsNext
<1>2. Tables' = Tables
  BY <1>1 DEF Tables, ledgerVars
<1>3. settled' = Tables' => UNCHANGED Atomic!pipelineVars
  BY <1>2 DEF Atomic!pipelineVars, Atomic!ledgerVars
<1> QED BY <1>3, Lands

LEMMA SettledTables ==
  ASSUME settled = Tables
  PROVE  /\ settled.entities = entities /\ settled.facts = facts
         /\ settled.snapshots = snapshots /\ settled.cands = cands
         /\ settled.runs = runs /\ settled.autoRun = autoRun
BY DEF Tables

\* What the abstract tables say of their rows, in the words of the process.
LEMMA SettledRows ==
  ASSUME FlightInv
  PROVE  /\ settled.cands \in [DOMAIN settled.cands -> CandidateRow]
         /\ settled.runs \in [DOMAIN settled.runs -> Run]
         /\ settled.facts \in [DOMAIN settled.facts -> Fact]
BY DEF FlightInv, Atomic!PipelineTypeOK, Atomic!LedgerTypeOK, Fact, FactStatus, CandidateRow,
       CandStatus, Run, RunState, Atomic!Fact, Atomic!FactStatus, Atomic!CandidateRow,
       Atomic!CandStatus, Atomic!Run, Atomic!RunState
LEMMA TriggerCheckFlies ==
  ASSUME ThreadsInv, FlightInv, AtomicityNext, NEW w, Worker = {w},
         NEW r \in RunId, NEW S \in SUBSET Candidate, NEW sn \in SnapshotId \cup {NoSnapshot},
         TriggerCheck(w, r, S, sn)
  PROVE  Implements
<1>1. PICK row : row = [Idle EXCEPT !.pc = "add_run", !.run = r, !.todo = S, !.snapshot = sn]
  OBVIOUS
<1>2. /\ task[w].pc = "idle" /\ task' = [task EXCEPT ![w] = row]
      /\ MayValidate(S, sn)
      /\ UNCHANGED <<ledgerVars, cands, runs>>
  BY <1>1 DEF TriggerCheck, At, Goto
<1>3. task'[w] = row
  BY <1>2 DEF ThreadsInv
<1>4. row.pc = "add_run" /\ row.todo = S /\ row.snapshot = sn
  BY <1>1 DEF Idle
<1>5. settled = Tables /\ UNCHANGED autoRun
  BY <1>2 DEF FlightInv, InFlight, ReadsOnly, AtomicityNext, ThreadsNext
<1>6. Tables' = Tables /\ MayValidate(S, sn)'
  BY <1>2, <1>5 DEF Tables, ledgerVars, MayValidate
<1>7. UNCHANGED settled => InFlight(row)'
  BY <1>4, <1>5, <1>6 DEF InFlight, InTrigger, InCancel, InSubmit
<1> QED BY <1>3, <1>4, <1>7, GoesOn

LEMMA AddRunFlies ==
  ASSUME ThreadsInv, FlightInv, AtomicityNext, NEW w, Worker = {w}, AddRun(w)
  PROVE  Implements
<1>1. PICK t : t = task[w] /\ t \in Task /\ Knows(t) /\ InFlight(t)
  BY DEF ThreadsInv, FlightInv
<1>2. PICK row : row = [t EXCEPT !.pc = "validating", !.status = "Validating"]
  OBVIOUS
<1>3. /\ t.pc = "add_run" /\ task' = [task EXCEPT ![w] = row]
      /\ t.run \notin DOMAIN runs
      /\ runs' = Put(runs, t.run, [state |-> "Queued", cands |-> t.todo, snapshot |-> t.snapshot])
      /\ UNCHANGED <<ledgerVars, cands>>
  BY <1>1, <1>2 DEF AddRun, At, Goto
<1>4. task'[w] = row
  BY <1>3 DEF ThreadsInv
<1>5. row.pc = "validating" /\ row.todo = t.todo /\ row.snapshot = t.snapshot /\ row.run = t.run
  BY <1>1, <1>2 DEF Task
<1>6. t.run \in RunId /\ t.todo \in SUBSET Candidate
  BY <1>1, <1>3 DEF Knows, Task
<1>7. /\ settled.entities = entities /\ settled.facts = facts
      /\ settled.snapshots = snapshots /\ settled.cands = cands
      /\ settled.runs = runs
  BY <1>1, <1>3, SettledTables DEF InFlight, ReadsOnly
<1>8. Atomic!MayValidate(t.todo, t.snapshot)
  BY <1>1, <1>3, <1>7 DEF InFlight, InTrigger, MayValidate, Atomic!MayValidate
<1>9. Marked(settled.cands, t.todo \ t.todo, "Validating") = cands
  <2>1. t.todo \ t.todo = {}
    OBVIOUS
  <2> QED BY <1>7, <2>1, MarkedNone, SettledRows
<1>10. ASSUME UNCHANGED settled
       PROVE  Triggered(t.run, t.todo, t.snapshot, "Queued", t.todo)'
  <2>1. Atomic!MayValidate(t.todo, t.snapshot)'
    BY <1>8, <1>10 DEF Atomic!MayValidate
  <2>2. Marked(settled.cands, t.todo \ t.todo, "Validating")' = cands
    BY <1>9, <1>10 DEF Marked
  <2> QED BY <1>3, <1>6, <1>7, <1>10, <2>1, <2>2 DEF Triggered, LedgerSettled, ledgerVars
<1>11. UNCHANGED settled => InFlight(row)'
  BY <1>5, <1>6, <1>10 DEF InFlight, InTrigger, InCancel, InSubmit, ReadsOnly
<1> QED BY <1>4, <1>5, <1>11, GoesOn

LEMMA StartRunFlies ==
  ASSUME ThreadsInv, FlightInv, AtomicityNext, NEW w, Worker = {w}, StartRun(w)
  PROVE  Implements
<1>1. PICK t : t = task[w] /\ t \in Task /\ Knows(t) /\ InFlight(t)
  BY DEF ThreadsInv, FlightInv
<1>2. PICK row : row = [t EXCEPT !.pc = "evaluate"]
  OBVIOUS
<1>3. /\ t.pc = "start_run" /\ task' = [task EXCEPT ![w] = row]
      /\ runs' = Put(runs, t.run, [runs[t.run] EXCEPT !.state = "Running"])
      /\ UNCHANGED <<ledgerVars, cands>>
  BY <1>1, <1>2 DEF StartRun, At, Goto, Advance, SaveRun
<1>4. task'[w] = row
  BY <1>3 DEF ThreadsInv
<1>5. row.pc = "evaluate" /\ row.snapshot = t.snapshot /\ row.run = t.run
  BY <1>1, <1>2 DEF Task
<1>6. PICK A \in SUBSET Candidate : Triggered(t.run, A, t.snapshot, "Queued", {})
  BY <1>1, <1>3 DEF InFlight, InTrigger
<1>7. autoRun /\ UNCHANGED autoRun
  BY <1>1, <1>3 DEF InFlight, InTrigger, AtomicityNext, ThreadsNext
<1>8. runs' = Put(settled.runs, t.run, [state |-> "Running", cands |-> A, snapshot |-> t.snapshot])
  <2>1. runs = Put(settled.runs, t.run, [state |-> "Queued", cands |-> A, snapshot |-> t.snapshot])
    BY <1>6 DEF Triggered
  <2>2. runs[t.run] = [state |-> "Queued", cands |-> A, snapshot |-> t.snapshot]
    BY <2>1 DEF Put
  <2>3. [runs[t.run] EXCEPT !.state = "Running"]
          = [state |-> "Running", cands |-> A, snapshot |-> t.snapshot]
    BY <2>2
  <2> QED BY <1>3, <2>1, <2>3 DEF Put
<1>9. ASSUME UNCHANGED settled
      PROVE  Triggered(t.run, A, t.snapshot, "Running", {})'
  <2>1. Atomic!MayValidate(A, t.snapshot)'
    BY <1>6, <1>9 DEF Atomic!MayValidate, Triggered
  <2>2. Marked(settled.cands, A \ {}, "Validating")' = cands
    BY <1>6, <1>9 DEF Marked, Triggered
  <2> QED BY <1>3, <1>6, <1>8, <1>9, <2>1, <2>2 DEF Triggered, LedgerSettled, ledgerVars
<1>10. UNCHANGED settled => InFlight(row)'
  BY <1>5, <1>7, <1>9 DEF InFlight, InTrigger, InCancel, InSubmit, ReadsOnly
<1> QED BY <1>4, <1>5, <1>10, GoesOn
LEMMA SameOutcome ==
  ASSUME LedgerSettled, NEW S, NEW sn, NEW forbidden, NEW crashed
  PROVE  OutcomeOf(S, sn, forbidden, crashed) = Atomic!OutcomeOf(S, sn, forbidden, crashed)
<1>1. CanonSeenBy(sn) = Atomic!CanonSeenBy(sn)
  BY DEF LedgerSettled, CanonSeenBy, ActiveAsOf, TimeInEffect, Atomic!CanonSeenBy,
         Atomic!ActiveAsOf, Atomic!TimeInEffect
<1>2. \A f, c : Contradicts(f, c) <=> Atomic!Contradicts(f, c)
  BY DEF LedgerSettled, Contradicts, Atomic!Contradicts
<1>3. CanonConflict(S, sn) <=> Atomic!CanonConflict(S, sn)
  BY <1>1, <1>2 DEF CanonConflict, Atomic!CanonConflict
<1> QED BY <1>3 DEF OutcomeOf, Atomic!OutcomeOf

LEMMA EvaluateFlies ==
  ASSUME ThreadsInv, FlightInv, AtomicityNext, NEW w, Worker = {w},
         NEW forbidden \in BOOLEAN, NEW crashed \in BOOLEAN, Evaluate(w, forbidden, crashed)
  PROVE  Implements
<1>1. PICK t : t = task[w] /\ t \in Task /\ Knows(t) /\ InFlight(t)
  BY DEF ThreadsInv, FlightInv
<1>2. PICK outcome : outcome = OutcomeOf(runs[t.run].cands, t.snapshot, forbidden, crashed)
  OBVIOUS
<1>3. PICK row : row = [t EXCEPT !.pc = "end_run", !.status = outcome]
  OBVIOUS
<1>4. /\ t.pc = "evaluate" /\ task' = [task EXCEPT ![w] = row]
      /\ UNCHANGED <<ledgerVars, cands, runs>>
  BY <1>1, <1>2, <1>3 DEF Evaluate, At, Goto
<1>5. task'[w] = row
  BY <1>4 DEF ThreadsInv
<1>6. row.pc = "end_run" /\ row.snapshot = t.snapshot /\ row.run = t.run /\ row.status = outcome
  BY <1>1, <1>3 DEF Task
<1>7. PICK A \in SUBSET Candidate : Triggered(t.run, A, t.snapshot, "Running", {})
  BY <1>1, <1>4 DEF InFlight, InTrigger
<1>8. autoRun /\ UNCHANGED autoRun
  BY <1>1, <1>4 DEF InFlight, InTrigger, AtomicityNext, ThreadsNext
<1>9. outcome = Atomic!OutcomeOf(A, t.snapshot, forbidden, crashed)
  <2>1. runs[t.run].cands = A
    BY <1>7 DEF Triggered, Put
  <2> QED BY <1>2, <1>7, <2>1, SameOutcome DEF Triggered
<1>10. outcome \in OutcomesOf(A, t.snapshot)
  BY <1>9 DEF OutcomesOf
<1>11. ASSUME UNCHANGED settled
       PROVE  Triggered(t.run, A, t.snapshot, "Running", {})'
  BY <1>4, <1>7, <1>11 DEF Triggered, LedgerSettled, ledgerVars, Atomic!MayValidate, Marked
<1>12. ASSUME UNCHANGED settled
       PROVE  OutcomesOf(A, t.snapshot)' = OutcomesOf(A, t.snapshot)
  BY <1>12 DEF OutcomesOf, Atomic!OutcomeOf, Atomic!CanonConflict, Atomic!CanonSeenBy,
               Atomic!Contradicts, Atomic!ActiveAsOf, Atomic!TimeInEffect
<1>13. UNCHANGED settled => InFlight(row)'
  BY <1>6, <1>8, <1>10, <1>11, <1>12 DEF InFlight, InTrigger, InCancel, InSubmit, ReadsOnly
<1> QED BY <1>5, <1>6, <1>13, GoesOn

LEMMA EndRunFlies ==
  ASSUME ThreadsInv, FlightInv, AtomicityNext, NEW w, Worker = {w}, EndRun(w)
  PROVE  Implements
<1>1. PICK t : t = task[w] /\ t \in Task /\ Knows(t) /\ InFlight(t)
  BY DEF ThreadsInv, FlightInv
<1>2. t.pc = "end_run"
  BY <1>1 DEF EndRun, At
<1>3. PICK A \in SUBSET Candidate :
        Triggered(t.run, A, t.snapshot, "Running", {}) /\ t.status \in OutcomesOf(A, t.snapshot)
  BY <1>1, <1>2 DEF InFlight, InTrigger
<1>4. runs = Put(settled.runs, t.run, [state |-> "Running", cands |-> A, snapshot |-> t.snapshot])
  BY <1>3 DEF Triggered
<1>5. runs[t.run] = [state |-> "Running", cands |-> A, snapshot |-> t.snapshot]
  BY <1>4 DEF Put
<1>6. PICK row : row = [Idle EXCEPT !.pc = "verdict", !.todo = A,
                                    !.status = StatusAfter(t.status)]
  OBVIOUS
<1>7. /\ task' = [task EXCEPT ![w] = row]
      /\ runs' = Put(runs, t.run, [runs[t.run] EXCEPT !.state = t.status])
      /\ UNCHANGED <<ledgerVars, cands>>
  BY <1>1, <1>5, <1>6 DEF EndRun, Goto, SaveRun
<1>8. task'[w] = row
  BY <1>7 DEF ThreadsInv
<1>9. row.pc = "verdict" /\ row.todo = A /\ row.status = StatusAfter(t.status)
  BY <1>6 DEF Idle
<1>10. /\ autoRun /\ UNCHANGED autoRun
       /\ t.run \in RunId /\ t.snapshot \in SnapshotId \cup {NoSnapshot} /\ t.status \in Outcome
  BY <1>1, <1>2, <1>3 DEF InFlight, InTrigger, AtomicityNext, ThreadsNext, Knows, Task, Triggered
<1>11. runs' = Put(settled.runs, t.run, [state |-> t.status, cands |-> A, snapshot |-> t.snapshot])
  <2>1. [runs[t.run] EXCEPT !.state = t.status]
          = [state |-> t.status, cands |-> A, snapshot |-> t.snapshot]
    BY <1>5
  <2> QED BY <1>4, <1>7, <2>1 DEF Put
<1>12. cands = Marked(Marked(settled.cands, A, "Validating"), A \ A, StatusAfter(t.status))
  <2>1. A \ {} = A /\ A \ A = {}
    OBVIOUS
  <2>2. cands = Marked(settled.cands, A, "Validating")
    BY <1>3, <2>1 DEF Triggered
  <2>3. cands \in [DOMAIN cands -> CandidateRow]
    BY DEF ThreadsInv, PipelineTypeOK
  <2>4. Marked(cands, {}, StatusAfter(t.status)) = cands
    BY <2>3, MarkedNone
  <2> QED BY <2>1, <2>2, <2>4
<1>13. ASSUME UNCHANGED settled
       PROVE  Ended(t.run, A, t.snapshot, t.status, A)'
  <2>1. OutcomesOf(A, t.snapshot)' = OutcomesOf(A, t.snapshot)
    BY <1>13 DEF OutcomesOf, Atomic!OutcomeOf, Atomic!CanonConflict, Atomic!CanonSeenBy,
                 Atomic!Contradicts, Atomic!ActiveAsOf, Atomic!TimeInEffect
  <2>2. Atomic!MayValidate(A, t.snapshot)'
    BY <1>3, <1>13 DEF Atomic!MayValidate, Triggered
  <2>3. LedgerSettled'
    BY <1>3, <1>7, <1>13 DEF Triggered, LedgerSettled, ledgerVars
  <2>4. cands' = Marked(Marked(settled'.cands, A, "Validating"), A \ A, StatusAfter(t.status))
    BY <1>7, <1>12, <1>13
  <2> QED BY <1>3, <1>11, <1>13, <2>1, <2>2, <2>3, <2>4 DEF Ended, Triggered
<1>14. UNCHANGED settled => InFlight(row)'
  BY <1>9, <1>10, <1>13 DEF InFlight, InTrigger, InCancel, InSubmit, ReadsOnly
<1> QED BY <1>8, <1>9, <1>14, GoesOn
\* More candidates of a list are moved.
LEMMA MoveMarksMore ==
  ASSUME NEW table, table \in [DOMAIN table -> CandidateRow], NEW status \in CandStatus,
         NEW S, NEW T, NEW U, U = S \cup T,
         cands = Marked(table, S, status), cands' = Move(T, status)
  PROVE  cands' = Marked(table, U, status)
<1>1. cands' = Marked(Marked(table, S, status), T, status)
  BY DEF Move, Marked
<1> QED BY <1>1, MarkedMore

\* The last candidate of a triggered run that is not executed at once.
LEMMA TriggerLandsQueued ==
  ASSUME FlightInv, settled' = Tables', UNCHANGED <<ledgerVars, runs, autoRun>>, ~autoRun,
         NEW r \in RunId, NEW A \in SUBSET Candidate, NEW sn \in SnapshotId \cup {NoSnapshot},
         NEW todo, Triggered(r, A, sn, "Queued", todo),
         cands' = Marked(settled.cands, A, "Validating")
  PROVE  Atomic!PipelineNext
<1>1. /\ settled'.entities = entities' /\ settled'.facts = facts'
      /\ settled'.snapshots = snapshots' /\ settled'.cands = cands'
      /\ settled'.runs = runs' /\ settled'.autoRun = autoRun'
  BY DEF Tables
<1>2. LedgerSettled
  BY DEF Triggered
<1>3. /\ r \in RunId \ DOMAIN settled.runs /\ Atomic!MayValidate(A, sn)
      /\ settled'.runs = Atomic!Put(settled.runs, r,
                           [state |-> "Queued", cands |-> A, snapshot |-> sn])
  BY <1>1 DEF Triggered, Put, Atomic!Put
<1>4. settled'.cands = Atomic!Move(A, "Validating")
  BY <1>1 DEF Marked, Atomic!Move
<1>5. UNCHANGED Atomic!ledgerVars /\ settled'.autoRun = settled.autoRun /\ ~settled.autoRun
  BY <1>1, <1>2 DEF Atomic!ledgerVars, ledgerVars, LedgerSettled, FlightInv
<1>6. Atomic!TriggerRun(r, A, sn, FALSE, FALSE)
  BY <1>3, <1>4, <1>5 DEF Atomic!TriggerRun
<1> QED BY <1>5, <1>6 DEF Atomic!PipelineNext

\* The last candidate of an executed run.
LEMMA TriggerLandsEnded ==
  ASSUME FlightInv, settled' = Tables', UNCHANGED <<ledgerVars, runs, autoRun>>, autoRun,
         NEW r \in RunId, NEW A \in SUBSET Candidate, NEW sn \in SnapshotId \cup {NoSnapshot},
         NEW outcome \in Outcome, NEW todo, Ended(r, A, sn, outcome, todo),
         cands' = Marked(settled.cands, A, StatusAfter(outcome))
  PROVE  Atomic!PipelineNext
<1>1. /\ settled'.entities = entities' /\ settled'.facts = facts'
      /\ settled'.snapshots = snapshots' /\ settled'.cands = cands'
      /\ settled'.runs = runs' /\ settled'.autoRun = autoRun'
  BY DEF Tables
<1>2. /\ r \in RunId \ DOMAIN settled.runs /\ Atomic!MayValidate(A, sn)
      /\ settled'.runs = Atomic!Put(settled.runs, r,
                           [state |-> outcome, cands |-> A, snapshot |-> sn])
  BY <1>1 DEF Ended, Put, Atomic!Put
<1>3. settled'.cands = Atomic!Move(A, Atomic!StatusAfter(outcome))
  BY <1>1 DEF Marked, Atomic!Move, StatusAfter, Atomic!StatusAfter
<1>4. UNCHANGED Atomic!ledgerVars /\ settled'.autoRun = settled.autoRun /\ settled.autoRun
  BY <1>1 DEF Atomic!ledgerVars, ledgerVars, Ended, LedgerSettled, FlightInv
<1>5. PICK forbidden \in BOOLEAN, crashed \in BOOLEAN :
        outcome = Atomic!OutcomeOf(A, sn, forbidden, crashed)
  BY DEF Ended, OutcomesOf
<1>6. Atomic!TriggerRun(r, A, sn, forbidden, crashed)
  BY <1>2, <1>3, <1>4, <1>5 DEF Atomic!TriggerRun
<1> QED BY <1>4, <1>6 DEF Atomic!PipelineNext

\* The last candidate a cancelled run gives back.
LEMMA CancelLands ==
  ASSUME FlightInv, settled' = Tables', UNCHANGED <<ledgerVars, runs, autoRun>>,
         NEW r \in RunId, NEW todo, Cancelled(r, todo),
         cands' = Marked(settled.cands, Atomic!StillValidating(settled.runs[r].cands), "Extracted")
  PROVE  Atomic!PipelineNext
<1>1. /\ settled'.entities = entities' /\ settled'.facts = facts'
      /\ settled'.snapshots = snapshots' /\ settled'.cands = cands'
      /\ settled'.runs = runs' /\ settled'.autoRun = autoRun'
  BY DEF Tables
<1>2. /\ r \in DOMAIN settled.runs /\ settled.runs[r].state \in {"Queued", "Running"}
      /\ settled'.runs = Atomic!Put(settled.runs, r, [settled.runs[r] EXCEPT !.state = "Cancelled"])
  BY <1>1 DEF Cancelled, Put, Atomic!Put
<1>3. settled'.cands = Atomic!Move(Atomic!StillValidating(settled.runs[r].cands), "Extracted")
  BY <1>1 DEF Marked, Atomic!Move
<1>4. UNCHANGED Atomic!ledgerVars /\ settled'.autoRun = settled.autoRun
  BY <1>1 DEF Atomic!ledgerVars, ledgerVars, Cancelled, LedgerSettled, FlightInv
<1>5. Atomic!CancelRun(r)
  BY <1>2, <1>3, <1>4 DEF Atomic!CancelRun
<1> QED BY <1>4, <1>5 DEF Atomic!PipelineNext
LEMMA MoveOneFlies ==
  ASSUME ThreadsInv, ThreadsInv', FlightInv, AtomicityNext, NEW w, Worker = {w}, MoveOne(w)
  PROVE  Implements
<1>1. PICK t : t = task[w] /\ t \in Task /\ Knows(t) /\ InFlight(t)
  BY DEF ThreadsInv, FlightInv
<1>2. PICK c \in t.todo :
        /\ t.pc \in {"validating", "verdict", "release"}
        /\ cands' = Move({c}, t.status)
        /\ task' = [task EXCEPT ![w] = AfterMove([t EXCEPT !.todo = t.todo \ {c}])]
        /\ UNCHANGED <<ledgerVars, runs>>
  BY <1>1 DEF MoveOne, Goto
<1>3. PICK rest : rest = t.todo \ {c}
  OBVIOUS
<1>4. PICK u : u = [t EXCEPT !.todo = rest]
  OBVIOUS
<1>5. /\ u.pc = t.pc /\ u.todo = rest /\ u.status = t.status /\ u.run = t.run
      /\ u.snapshot = t.snapshot
  BY <1>1, <1>4 DEF Task
<1>6. u \in Task
  BY <1>1, <1>3, <1>4 DEF Task
<1>7. PICK row : row = AfterMove(u)
  OBVIOUS
<1>8. \/ row = u /\ rest # {}
      \/ row = [u EXCEPT !.pc = "start_run", !.status = NoOne] /\ u.pc = "validating" /\ rest = {} /\ autoRun
      \/ row = Idle /\ rest = {} /\ (u.pc = "validating" => ~autoRun)
  BY <1>5, <1>7 DEF AfterMove
<1>9. task'[w] = row
  BY <1>2, <1>3, <1>4, <1>7 DEF ThreadsInv
<1>10. UNCHANGED autoRun /\ Idle.pc = "idle"
  BY DEF AtomicityNext, ThreadsNext, Idle
<1>11. /\ settled.cands \in [DOMAIN settled.cands -> CandidateRow]
       /\ t.run \in RunId \cup {NoOne} /\ t.snapshot \in SnapshotId \cup {NoSnapshot}
  BY <1>1, SettledRows DEF Task
<1>12. row = Idle => task'[w].pc = "idle"
  BY <1>9, <1>10
<1>13. CASE t.pc = "validating"
  <2>1. PICK A \in SUBSET Candidate : Triggered(t.run, A, t.snapshot, "Queued", t.todo)
    BY <1>1, <1>13 DEF InFlight, InTrigger
  <2>2. t.status = "Validating" /\ "Validating" \in CandStatus /\ t.run \in RunId
    BY <1>1, <1>13, <2>1 DEF Knows, CandStatus, Triggered
  <2>3. t.todo \subseteq A /\ cands = Marked(settled.cands, A \ t.todo, "Validating")
    BY <2>1 DEF Triggered
  <2>4. cands' = Marked(settled.cands, A \ rest, "Validating")
    <3>1. PICK S, T, U : S = A \ t.todo /\ T = {c} /\ U = A \ rest
      OBVIOUS
    <3>2. U = S \cup T
      BY <1>2, <1>3, <3>1, <2>3
    <3>3. cands = Marked(settled.cands, S, "Validating") /\ cands' = Move(T, "Validating")
      BY <1>2, <3>1, <2>2, <2>3
    <3>4. cands' = Marked(settled.cands, U, "Validating")
      BY <1>11, <2>2, <3>2, <3>3, MoveMarksMore
    <3> QED BY <3>1, <3>4
  <2>5. ASSUME UNCHANGED settled
        PROVE  Triggered(t.run, A, t.snapshot, "Queued", rest)'
    <3>1. Atomic!MayValidate(A, t.snapshot)' /\ LedgerSettled'
      BY <1>2, <2>1, <2>5 DEF Atomic!MayValidate, Triggered, LedgerSettled, ledgerVars
    <3>2. cands' = Marked(settled'.cands, A \ rest, "Validating") /\ rest \subseteq A
      BY <1>3, <2>3, <2>4, <2>5
    <3> QED BY <1>2, <2>1, <2>5, <3>1, <3>2 DEF Triggered
  <2>6. CASE row = u
    <3>1. UNCHANGED settled => InFlight(row)'
      BY <1>5, <1>13, <2>5, <2>6 DEF InFlight, InTrigger, InCancel, InSubmit, ReadsOnly
    <3>2. row.pc # "idle"
      BY <1>5, <1>13, <2>6
    <3> QED BY <1>9, <3>1, <3>2, GoesOn
  <2>7. CASE row = [u EXCEPT !.pc = "start_run", !.status = NoOne] /\ rest = {} /\ autoRun
    <3>1. row.pc = "start_run" /\ row.run = t.run /\ row.snapshot = t.snapshot
      BY <1>5, <1>6, <2>7 DEF Task
    <3>2. UNCHANGED settled => InFlight(row)'
      BY <1>10, <2>5, <2>7, <3>1 DEF InFlight, InTrigger, InCancel, InSubmit, ReadsOnly
    <3> QED BY <1>9, <3>1, <3>2, GoesOn
  <2>8. CASE row = Idle /\ rest = {} /\ ~autoRun
    <3>1. A \ rest = A
      BY <2>8
    <3>2. cands' = Marked(settled.cands, A, "Validating")
      BY <2>4, <3>1
    <3>3. settled' = Tables' => Atomic!PipelineNext
      BY <1>2, <1>10, <1>11, <2>1, <2>2, <2>8, <3>2, TriggerLandsQueued
    <3> QED BY <1>12, <2>8, <3>3, Lands
  <2> QED BY <1>5, <1>8, <1>13, <2>6, <2>7, <2>8
<1>14. CASE t.pc = "verdict"
  <2>1. PICK r \in RunId, A \in SUBSET Candidate, sn \in SnapshotId \cup {NoSnapshot},
             outcome \in Outcome :
          Ended(r, A, sn, outcome, t.todo) /\ t.status = StatusAfter(outcome)
    BY <1>1, <1>14 DEF InFlight, InTrigger
  <2>2. autoRun /\ t.status \in CandStatus /\ "Validating" \in CandStatus
    BY <1>1, <1>14, <2>1 DEF InFlight, InTrigger, CandStatus, StatusAfter
  <2>3. PICK table : table = Marked(settled.cands, A, "Validating")
    OBVIOUS
  <2>4. t.todo \subseteq A /\ cands = Marked(table, A \ t.todo, t.status)
    BY <2>1, <2>3 DEF Ended
  <2>5. table \in [DOMAIN table -> CandidateRow]
    BY <1>11, <2>2, <2>3, MarkedType
  <2>6. cands' = Marked(table, A \ rest, t.status)
    <3>1. PICK S, T, U : S = A \ t.todo /\ T = {c} /\ U = A \ rest
      OBVIOUS
    <3>2. U = S \cup T
      BY <1>2, <1>3, <3>1, <2>4
    <3>3. cands = Marked(table, S, t.status) /\ cands' = Move(T, t.status)
      BY <1>2, <3>1, <2>2, <2>4
    <3>4. cands' = Marked(table, U, t.status)
      BY <2>2, <2>5, <3>2, <3>3, MoveMarksMore
    <3> QED BY <3>1, <3>4
  <2>7. ASSUME UNCHANGED settled
        PROVE  Ended(r, A, sn, outcome, rest)'
    <3>1. Atomic!MayValidate(A, sn)' /\ LedgerSettled'
      BY <1>2, <2>1, <2>7 DEF Atomic!MayValidate, Ended, LedgerSettled, ledgerVars
    <3>2. /\ cands' = Marked(Marked(settled'.cands, A, "Validating"), A \ rest, StatusAfter(outcome))
          /\ rest \subseteq A
      BY <1>3, <2>1, <2>3, <2>4, <2>6, <2>7
    <3>3. OutcomesOf(A, sn)' = OutcomesOf(A, sn)
      BY <2>7 DEF OutcomesOf, Atomic!OutcomeOf, Atomic!CanonConflict, Atomic!CanonSeenBy,
                  Atomic!Contradicts, Atomic!ActiveAsOf, Atomic!TimeInEffect
    <3> QED BY <1>2, <2>1, <2>7, <3>1, <3>2, <3>3 DEF Ended
  <2>8. CASE row = u
    <3>1. UNCHANGED settled => InFlight(row)'
      BY <1>5, <1>10, <1>14, <2>1, <2>2, <2>7, <2>8
         DEF InFlight, InTrigger, InCancel, InSubmit, ReadsOnly
    <3>2. row.pc # "idle"
      BY <1>5, <1>14, <2>8
    <3> QED BY <1>9, <3>1, <3>2, GoesOn
  <2>9. CASE row = Idle /\ rest = {}
    <3>1. A \ rest = A
      BY <2>9
    <3>2. cands' = Marked(Marked(settled.cands, A, "Validating"), A, t.status)
      BY <2>3, <2>6, <3>1
    <3>3. cands' = Marked(settled.cands, A, StatusAfter(outcome))
      BY <1>11, <2>1, <2>2, <3>2, MarkedOver
    <3>4. settled' = Tables' => Atomic!PipelineNext
      BY <1>2, <1>10, <2>1, <2>2, <3>3, TriggerLandsEnded
    <3> QED BY <1>12, <2>9, <3>4, Lands
  <2> QED BY <1>5, <1>8, <1>14, <2>8, <2>9
<1>15. CASE t.pc = "release"
  <2>1. PICK r \in RunId : Cancelled(r, t.todo)
    BY <1>1, <1>15 DEF InFlight, InCancel
  <2>2. t.status = "Extracted" /\ "Extracted" \in CandStatus
    BY <1>1, <1>15 DEF Knows, CandStatus
  <2>3. PICK A : A = Atomic!StillValidating(settled.runs[r].cands)
    OBVIOUS
  <2>4. t.todo \subseteq A /\ cands = Marked(settled.cands, A \ t.todo, "Extracted")
    BY <2>1, <2>3 DEF Cancelled
  <2>5. cands' = Marked(settled.cands, A \ rest, "Extracted")
    <3>1. PICK S, T, U : S = A \ t.todo /\ T = {c} /\ U = A \ rest
      OBVIOUS
    <3>2. U = S \cup T
      BY <1>2, <1>3, <3>1, <2>4
    <3>3. cands = Marked(settled.cands, S, "Extracted") /\ cands' = Move(T, "Extracted")
      BY <1>2, <3>1, <2>2, <2>4
    <3>4. cands' = Marked(settled.cands, U, "Extracted")
      BY <1>11, <2>2, <3>2, <3>3, MoveMarksMore
    <3> QED BY <3>1, <3>4
  <2>6. ASSUME UNCHANGED settled
        PROVE  Cancelled(r, rest)'
    <3>1. Atomic!StillValidating(settled.runs[r].cands)' = A /\ LedgerSettled'
      BY <1>2, <2>1, <2>3, <2>6 DEF Atomic!StillValidating, Cancelled, LedgerSettled, ledgerVars
    <3>2. cands' = Marked(settled'.cands, A \ rest, "Extracted") /\ rest \subseteq A
      BY <1>3, <2>4, <2>5, <2>6
    <3> QED BY <1>2, <2>1, <2>6, <3>1, <3>2 DEF Cancelled
  <2>7. CASE row = u
    <3>1. UNCHANGED settled => InFlight(row)'
      BY <1>5, <1>15, <2>1, <2>6, <2>7 DEF InFlight, InTrigger, InCancel, InSubmit, ReadsOnly
    <3>2. row.pc # "idle"
      BY <1>5, <1>15, <2>7
    <3> QED BY <1>9, <3>1, <3>2, GoesOn
  <2>8. CASE row = Idle /\ rest = {}
    <3>1. A \ rest = A
      BY <2>8
    <3>2. cands' = Marked(settled.cands, A, "Extracted")
      BY <2>5, <3>1
    <3>3. settled' = Tables' => Atomic!PipelineNext
      BY <1>2, <1>10, <2>1, <2>3, <3>2, CancelLands
    <3> QED BY <1>12, <2>8, <3>3, Lands
  <2> QED BY <1>5, <1>8, <1>15, <2>7, <2>8
<1> QED BY <1>2, <1>13, <1>14, <1>15
LEMMA CancelCheckFlies ==
  ASSUME ThreadsInv, FlightInv, AtomicityNext, NEW w, Worker = {w}, NEW r \in RunId,
         CancelCheck(w, r)
  PROVE  Implements
<1>1. PICK row : row = [Idle EXCEPT !.pc = "cancel", !.run = r]
  OBVIOUS
<1>2. /\ task[w].pc = "idle" /\ task' = [task EXCEPT ![w] = row]
      /\ r \in DOMAIN runs /\ runs[r].state \in {"Queued", "Running"}
      /\ UNCHANGED <<ledgerVars, cands, runs>>
  BY <1>1 DEF CancelCheck, At, Goto
<1>3. task'[w] = row
  BY <1>2 DEF ThreadsInv
<1>4. row.pc = "cancel" /\ row.run = r
  BY <1>1 DEF Idle
<1>5. settled = Tables /\ UNCHANGED autoRun
  BY <1>2 DEF FlightInv, InFlight, ReadsOnly, AtomicityNext, ThreadsNext
<1>6. Tables' = Tables
  BY <1>2, <1>5 DEF Tables, ledgerVars
<1>7. UNCHANGED settled => InFlight(row)'
  BY <1>2, <1>4, <1>5, <1>6 DEF InFlight, InTrigger, InCancel, InSubmit
<1> QED BY <1>3, <1>4, <1>7, GoesOn

LEMMA CancelSaveFlies ==
  ASSUME ThreadsInv, FlightInv, AtomicityNext, NEW w, Worker = {w}, CancelSave(w)
  PROVE  Implements
<1>1. PICK t : t = task[w] /\ t \in Task /\ Knows(t) /\ InFlight(t)
  BY DEF ThreadsInv, FlightInv
<1>2. PICK row : row = [t EXCEPT !.pc = "select"]
  OBVIOUS
<1>3. /\ t.pc = "cancel" /\ task' = [task EXCEPT ![w] = row]
      /\ runs' = Put(runs, t.run, [runs[t.run] EXCEPT !.state = "Cancelled"])
      /\ UNCHANGED <<ledgerVars, cands>>
  BY <1>1, <1>2 DEF CancelSave, At, Goto, Advance, SaveRun
<1>4. task'[w] = row
  BY <1>3 DEF ThreadsInv
<1>5. row.pc = "select" /\ row.run = t.run
  BY <1>1, <1>2 DEF Task
<1>6. /\ settled.entities = entities /\ settled.facts = facts
      /\ settled.snapshots = snapshots /\ settled.cands = cands
      /\ settled.runs = runs
  BY <1>1, <1>3, SettledTables DEF InFlight, ReadsOnly
<1>7. t.run \in DOMAIN runs /\ runs[t.run].state \in {"Queued", "Running"}
  BY <1>1, <1>3 DEF InFlight, InCancel
<1>8. PICK A : A = Atomic!StillValidating(settled.runs[t.run].cands)
  OBVIOUS
<1>9. Marked(settled.cands, A \ A, "Extracted") = cands
  <2>1. A \ A = {}
    OBVIOUS
  <2> QED BY <1>6, <2>1, MarkedNone, SettledRows
<1>10. ASSUME UNCHANGED settled
       PROVE  Cancelled(t.run, A)'
  <2>1. Atomic!StillValidating(settled.runs[t.run].cands)' = A
    BY <1>8, <1>10 DEF Atomic!StillValidating
  <2>2. LedgerSettled'
    BY <1>3, <1>6, <1>10 DEF LedgerSettled, ledgerVars
  <2>3. cands' = Marked(settled'.cands, A \ A, "Extracted")
    BY <1>3, <1>9, <1>10
  <2> QED BY <1>3, <1>6, <1>7, <1>10, <2>1, <2>2, <2>3 DEF Cancelled
<1>11. ASSUME UNCHANGED settled
       PROVE  Cancelled(t.run, Atomic!StillValidating(settled.runs[t.run].cands))'
  <2>1. Atomic!StillValidating(settled.runs[t.run].cands)' = A
    BY <1>8, <1>11 DEF Atomic!StillValidating
  <2> QED BY <1>10, <1>11, <2>1 DEF Cancelled
<1>12. UNCHANGED settled => InFlight(row)'
  BY <1>5, <1>11 DEF InFlight, InTrigger, InCancel, InSubmit, ReadsOnly
<1> QED BY <1>4, <1>5, <1>12, GoesOn

LEMMA CancelSelectFlies ==
  ASSUME ThreadsInv, ThreadsInv', FlightInv, AtomicityNext, NEW w, Worker = {w}, CancelSelect(w)
  PROVE  Implements
<1>1. PICK t : t = task[w] /\ t \in Task /\ Knows(t) /\ InFlight(t)
  BY DEF ThreadsInv, FlightInv
<1>2. PICK A : A = Atomic!StillValidating(settled.runs[t.run].cands)
  OBVIOUS
<1>3. t.pc = "select" /\ Cancelled(t.run, A)
  BY <1>1, <1>2 DEF CancelSelect, At, InFlight, InCancel
<1>4. cands = settled.cands
  <2>1. A \ A = {}
    OBVIOUS
  <2>2. cands = Marked(settled.cands, A \ A, "Extracted")
    BY <1>2, <1>3 DEF Cancelled
  <2> QED BY <2>1, <2>2, MarkedNone, SettledRows
<1>5. t.run \in RunId
  BY <1>3 DEF Cancelled, FlightInv, Atomic!PipelineTypeOK
<1>6. StillValidating(runs[t.run].cands) = A
  <2>1. settled.runs[t.run] \in Run
    BY <1>3, SettledRows DEF Cancelled
  <2>2. runs[t.run].cands = settled.runs[t.run].cands
    BY <1>3, <2>1 DEF Cancelled, Put, Run
  <2> QED BY <1>2, <1>4, <2>2 DEF StillValidating, Atomic!StillValidating
<1>7. PICK row : row = IF A = {} THEN Idle
                       ELSE [Idle EXCEPT !.pc = "release", !.status = "Extracted", !.todo = A]
  OBVIOUS
<1>8. task' = [task EXCEPT ![w] = row] /\ UNCHANGED <<ledgerVars, cands, runs>>
  BY <1>1, <1>6, <1>7 DEF CancelSelect, Goto
<1>9. task'[w] = row
  BY <1>8 DEF ThreadsInv
<1>10. UNCHANGED autoRun
  BY DEF AtomicityNext, ThreadsNext
<1>11. CASE A = {}
  <2>1. cands' = Marked(settled.cands, A, "Extracted")
    BY <1>4, <1>8, <1>11, MarkedNone, SettledRows
  <2>2. settled' = Tables' => Atomic!PipelineNext
    BY <1>2, <1>3, <1>5, <1>8, <1>10, <2>1, CancelLands
  <2>3. task'[w].pc = "idle"
    BY <1>7, <1>9, <1>11 DEF Idle
  <2> QED BY <2>2, <2>3, Lands
<1>12. CASE A # {}
  <2>1. row.pc = "release" /\ row.todo = A
    BY <1>7, <1>12 DEF Idle
  <2>2. ASSUME UNCHANGED settled
        PROVE  Cancelled(t.run, A)'
    BY <1>3, <1>8, <2>2 DEF Cancelled, LedgerSettled, ledgerVars, Atomic!StillValidating, Marked
  <2>3. UNCHANGED settled => InFlight(row)'
    BY <1>5, <2>1, <2>2 DEF InFlight, InTrigger, InCancel, InSubmit, ReadsOnly
  <2> QED BY <1>9, <2>1, <2>3, GoesOn
<1> QED BY <1>11, <1>12

-----------------------------------------------------------------------------
(* Approve and reject *)

\* A request that begins by reading a candidate.
LEMMA ChecksFly ==
  ASSUME ThreadsInv, FlightInv, AtomicityNext, NEW w, Worker = {w}, NEW row,
         task[w].pc = "idle", task' = [task EXCEPT ![w] = row],
         row.pc \in {"approve", "reject", "resolve"},
         UNCHANGED <<ledgerVars, cands, runs>>
  PROVE  Implements
<1>1. task'[w] = row
  BY DEF ThreadsInv
<1>2. settled = Tables /\ UNCHANGED autoRun
  BY DEF FlightInv, InFlight, ReadsOnly, AtomicityNext, ThreadsNext
<1>3. Tables' = Tables
  BY <1>2 DEF Tables, ledgerVars
<1>4. UNCHANGED settled => InFlight(row)'
  BY <1>2, <1>3 DEF InFlight, InTrigger, InCancel, InSubmit
<1> QED BY <1>1, <1>4, GoesOn

LEMMA VerdictChecksFly ==
  ASSUME ThreadsInv, FlightInv, AtomicityNext, NEW w, Worker = {w}, NEW c \in Candidate,
         NEW pc \in {"approve", "reject"}, NEW from, VerdictCheck(w, c, pc, from)
  PROVE  Implements
<1>1. PICK row : row = [Idle EXCEPT !.pc = pc, !.cand = c]
  OBVIOUS
<1>2. row.pc = pc
  BY <1>1 DEF Idle
<1>3. /\ task[w].pc = "idle" /\ task' = [task EXCEPT ![w] = row]
      /\ UNCHANGED <<ledgerVars, cands, runs>>
  BY <1>1 DEF VerdictCheck, At, Goto
<1> QED BY <1>2, <1>3, ChecksFly

LEMMA SubmitChecksFly ==
  ASSUME ThreadsInv, FlightInv, AtomicityNext, NEW w, Worker = {w}, NEW c \in Candidate,
         NEW asked \in Asked \cup {NoFact}, SubmitCheck(w, c, asked)
  PROVE  Implements
<1>1. PICK row : row = [Idle EXCEPT !.pc = "resolve", !.cand = c, !.asked = asked]
  OBVIOUS
<1>2. row.pc = "resolve"
  BY <1>1 DEF Idle
<1>3. /\ task[w].pc = "idle" /\ task' = [task EXCEPT ![w] = row]
      /\ UNCHANGED <<ledgerVars, cands, runs>>
  BY <1>1 DEF SubmitCheck, At, Goto
<1> QED BY <1>2, <1>3, ChecksFly

LEMMA VerdictSavesFly ==
  ASSUME ThreadsInv, ThreadsInv', LoneInv, FlightInv, AtomicityNext, NEW w, Worker = {w},
         \/ VerdictSave(w, "approve", "Approved", "Approve")
         \/ VerdictSave(w, "reject", "Rejected", "Reject")
  PROVE  Implements
<1>1. PICK t : t = task[w] /\ t \in Task /\ Knows(t) /\ InFlight(t) /\ Alone(t)
  BY DEF ThreadsInv, FlightInv, LoneInv, Lone
<1>2. /\ t.pc \in {"approve", "reject"} /\ task' = [task EXCEPT ![w] = Idle]
      /\ UNCHANGED <<ledgerVars, runs>>
      /\ \/ t.pc = "approve" /\ cands' = Verdict(t.cand, "Approved", "Approve")
         \/ t.pc = "reject" /\ cands' = Verdict(t.cand, "Rejected", "Reject")
  BY <1>1 DEF VerdictSave, At, Return, Goto
<1>3. task'[w].pc = "idle"
  BY <1>2 DEF ThreadsInv, Idle
<1>4. /\ settled.entities = entities /\ settled.facts = facts
      /\ settled.snapshots = snapshots /\ settled.cands = cands
      /\ settled.runs = runs /\ settled.autoRun = autoRun
  BY <1>1, <1>2, SettledTables DEF InFlight, ReadsOnly
<1>5. /\ t.cand \in DOMAIN cands /\ t.cand \in Candidate
      /\ t.pc = "approve" => cands[t.cand].status = "AwaitingVerdict"
      /\ t.pc = "reject" => cands[t.cand].status \in {"AwaitingVerdict", "Approved"}
  BY <1>1, <1>2 DEF Knows, Alone, ThreadsInv, PipelineTypeOK
<1>6. UNCHANGED autoRun
  BY DEF AtomicityNext, ThreadsNext
<1>7. ASSUME settled' = Tables'
      PROVE  Atomic!PipelineNext
  <2>1. /\ settled'.entities = entities' /\ settled'.facts = facts'
        /\ settled'.snapshots = snapshots' /\ settled'.cands = cands'
        /\ settled'.runs = runs' /\ settled'.autoRun = autoRun'
    BY <1>7 DEF Tables
  <2>2. UNCHANGED Atomic!ledgerVars /\ settled'.runs = settled.runs
        /\ settled'.autoRun = settled.autoRun
    BY <1>2, <1>4, <1>6, <2>1 DEF Atomic!ledgerVars, ledgerVars
  <2>3. CASE t.pc = "approve"
    <3>1. settled'.cands = Atomic!Verdict(t.cand, "Approved", "Approve")
      BY <1>2, <1>4, <2>1, <2>3 DEF Verdict, Put, Atomic!Verdict, Atomic!Put
    <3>2. Atomic!ApproveCandidate(t.cand)
      BY <1>4, <1>5, <2>2, <2>3, <3>1 DEF Atomic!ApproveCandidate
    <3> QED BY <1>5, <2>2, <3>2 DEF Atomic!PipelineNext
  <2>4. CASE t.pc = "reject"
    <3>1. settled'.cands = Atomic!Verdict(t.cand, "Rejected", "Reject")
      BY <1>2, <1>4, <2>1, <2>4 DEF Verdict, Put, Atomic!Verdict, Atomic!Put
    <3>2. Atomic!RejectCandidate(t.cand)
      BY <1>4, <1>5, <2>2, <2>4, <3>1 DEF Atomic!RejectCandidate
    <3> QED BY <1>5, <2>2, <3>2 DEF Atomic!PipelineNext
  <2> QED BY <1>2, <2>3, <2>4
<1> QED BY <1>3, <1>7, Lands
-----------------------------------------------------------------------------
(* Submit *)

\* The entity: found, missing, or refused because it is there under another type.
LEMMA ResolveFlies ==
  ASSUME ThreadsInv, ThreadsInv', FlightInv, AtomicityNext, NEW w, Worker = {w},
         \/ \E e \in EntityId : ResolveFound(w, e)
         \/ ResolveMissing(w)
         \/ \E y \in EntityType : EntityCheck(w, y)
  PROVE  Implements
<1>1. PICK t : t = task[w] /\ t \in Task /\ Knows(t) /\ InFlight(t)
  BY DEF ThreadsInv, FlightInv
<1>2. /\ UNCHANGED <<ledgerVars, cands, runs>>
      /\ t.pc \in {"resolve", "new_entity"}
  BY <1>1 DEF ResolveFound, ResolveMissing, EntityCheck, At
<1>3. settled = Tables /\ UNCHANGED autoRun
  BY <1>1, <1>2 DEF InFlight, ReadsOnly, AtomicityNext, ThreadsNext
<1>4. Tables' = Tables
  BY <1>2, <1>3 DEF Tables, ledgerVars
<1>5. /\ settled.entities = entities /\ settled.facts = facts
      /\ settled.snapshots = snapshots /\ settled.cands = cands
      /\ settled.runs = runs
  BY <1>3, SettledTables
<1>6. ASSUME NEW row, task' = [task EXCEPT ![w] = row]
      PROVE  task'[w] = row
  BY <1>6 DEF ThreadsInv
<1>7. ASSUME NEW e \in EntityId, ResolveFound(w, e)
      PROVE  Implements
  <2>1. PICK row : row = [t EXCEPT !.pc = "target", !.entity = e]
    OBVIOUS
  <2>2. row.pc = "target" /\ row.entity = e /\ row.cand = t.cand
    BY <1>1, <2>1 DEF Task
  <2>3. task' = [task EXCEPT ![w] = row] /\ e \in DOMAIN entities
    BY <1>1, <1>7, <2>1 DEF ResolveFound, Goto
  <2>4. entities \in Atomic!EntitiesAfter(t.cand, e)
    BY <1>5, <2>3 DEF Atomic!EntitiesAfter
  <2>5. ASSUME UNCHANGED settled
        PROVE  Resolved(row)'
    <3>1. Atomic!EntitiesAfter(t.cand, e)' = Atomic!EntitiesAfter(t.cand, e)
      BY <2>5 DEF Atomic!EntitiesAfter
    <3> QED BY <1>2, <1>5, <2>2, <2>4, <2>5, <3>1 DEF Resolved, ledgerVars
  <2>6. UNCHANGED settled => InFlight(row)'
    BY <1>2, <1>5, <2>2, <2>5 DEF InFlight, InTrigger, InCancel, InSubmit, ReadsOnly, ledgerVars
  <2> QED BY <1>6, <2>2, <2>3, <2>6, GoesOn
<1>8. CASE ResolveMissing(w)
  <2>1. PICK row : row = [t EXCEPT !.pc = "new_entity"]
    OBVIOUS
  <2>2. row.pc = "new_entity" /\ row.cand = t.cand
    BY <1>1, <2>1 DEF Task
  <2>3. /\ task' = [task EXCEPT ![w] = row]
        /\ \A x \in DOMAIN entities : entities[x].name # Text[t.cand].subject
    BY <1>1, <1>8, <2>1 DEF ResolveMissing, Advance, Goto, Subject
  <2>4. UNCHANGED settled => InFlight(row)'
    BY <1>2, <1>3, <1>4, <2>2, <2>3
       DEF InFlight, InTrigger, InCancel, InSubmit, ReadsOnly, ledgerVars
  <2> QED BY <1>6, <2>2, <2>3, <2>4, GoesOn
<1>9. ASSUME NEW y \in EntityType, EntityCheck(w, y)
      PROVE  Implements
  <2>1. PICK row : row = [t EXCEPT !.pc = "add_entity", !.status = y]
    OBVIOUS
  <2>2. row.pc = "add_entity" /\ row.cand = t.cand
    BY <1>1, <2>1 DEF Task
  <2>3. CASE task' = [task EXCEPT ![w] = row]
    <3>1. \A x \in DOMAIN entities : entities[x].name # Text[t.cand].subject
      BY <1>1, <1>9 DEF EntityCheck, At, InFlight, InSubmit
    <3>2. UNCHANGED settled => InFlight(row)'
      BY <1>2, <1>3, <1>4, <2>2, <3>1
         DEF InFlight, InTrigger, InCancel, InSubmit, ReadsOnly, ledgerVars
    <3> QED BY <1>6, <2>2, <2>3, <3>2, GoesOn
  <2>4. CASE task' = [task EXCEPT ![w] = Idle]
    <3>1. task'[w].pc = "idle"
      BY <1>6, <2>4 DEF Idle
    <3> QED BY <1>2, <1>3, <3>1, LandsUnchanged
  <2> QED BY <1>1, <1>9, <2>1, <2>3, <2>4 DEF EntityCheck, Return, Goto
<1> QED BY <1>7, <1>8, <1>9

LEMMA AddEntityFlies ==
  ASSUME ThreadsInv, FlightInv, AtomicityNext, NEW w, Worker = {w}, NEW e \in EntityId,
         AddEntity(w, e)
  PROVE  Implements
<1>1. PICK t : t = task[w] /\ t \in Task /\ Knows(t) /\ InFlight(t)
  BY DEF ThreadsInv, FlightInv
<1>2. PICK row : row = [t EXCEPT !.pc = "target", !.entity = e, !.status = NoOne]
  OBVIOUS
<1>3. row.pc = "target" /\ row.entity = e /\ row.cand = t.cand
  BY <1>1, <1>2 DEF Task
<1>4. /\ t.pc = "add_entity" /\ task' = [task EXCEPT ![w] = row]
      /\ e \notin DOMAIN entities
      /\ entities' = Put(entities, e, [name |-> Text[t.cand].subject, type |-> t.status])
      /\ UNCHANGED <<facts, snapshots, cands, runs>>
  BY <1>1, <1>2 DEF AddEntity, At, Goto, Subject
<1>5. task'[w] = row
  BY <1>4 DEF ThreadsInv
<1>6. /\ settled.entities = entities /\ settled.facts = facts
      /\ settled.snapshots = snapshots /\ settled.cands = cands
      /\ settled.runs = runs
  BY <1>1, <1>4, SettledTables DEF InFlight, ReadsOnly
<1>7. entities' \in Atomic!EntitiesAfter(t.cand, e)
  <2>1. t.status \in EntityType
    BY <1>1, <1>4 DEF Knows
  <2>2. \A x \in DOMAIN settled.entities : settled.entities[x].name # Text[t.cand].subject
    BY <1>1, <1>4, <1>6 DEF InFlight, InSubmit
  <2>3. entities' = Atomic!Put(settled.entities, e,
                               [name |-> Text[t.cand].subject, type |-> t.status])
    BY <1>4, <1>6 DEF Put, Atomic!Put
  <2> QED BY <1>4, <1>6, <2>1, <2>2, <2>3 DEF Atomic!EntitiesAfter
<1>8. ASSUME UNCHANGED settled
      PROVE  Resolved(row)'
  <2>1. Atomic!EntitiesAfter(t.cand, e)' = Atomic!EntitiesAfter(t.cand, e)
    BY <1>8 DEF Atomic!EntitiesAfter
  <2> QED BY <1>3, <1>4, <1>6, <1>7, <1>8, <2>1 DEF Resolved
<1>9. UNCHANGED settled => InFlight(row)'
  BY <1>3, <1>4, <1>6, <1>8 DEF InFlight, InTrigger, InCancel, InSubmit, ReadsOnly
<1> QED BY <1>3, <1>5, <1>9, GoesOn

\* The rest of a submit has its entity.
LEMMA ResolvedStays ==
  ASSUME NEW t, NEW row, Resolved(t), UNCHANGED <<entities, snapshots, cands, runs, settled>>,
         row.cand = t.cand, row.entity = t.entity
  PROVE  Resolved(row)'
<1>1. Atomic!EntitiesAfter(t.cand, t.entity)' = Atomic!EntitiesAfter(t.cand, t.entity)
  BY DEF Atomic!EntitiesAfter
<1> QED BY <1>1 DEF Resolved

LEMMA ChosenStays ==
  ASSUME NEW t, NEW row, Chosen(t), UNCHANGED <<entities, snapshots, cands, runs, settled>>,
         row.cand = t.cand, row.entity = t.entity, row.old = t.old
  PROVE  Chosen(row)'
<1>1. Resolved(row)'
  BY ResolvedStays DEF Chosen
<1>2. Atomic!TargetUsable(row.old)'
  BY DEF Chosen, Atomic!TargetUsable
<1>3. PICK asked \in Asked \cup {NoFact} :
        t.old \in Atomic!SupersedeTarget(t.cand, t.entity, asked)
  BY DEF Chosen
<1>4. Atomic!SupersedeTarget(t.cand, t.entity, asked)'
        = Atomic!SupersedeTarget(t.cand, t.entity, asked)
  BY DEF Atomic!SupersedeTarget, Atomic!InEffect, Atomic!Earliest
<1> QED BY <1>1, <1>2, <1>3, <1>4 DEF Chosen
LEMMA SameTargets ==
  ASSUME NEW c, NEW e, NEW asked, NEW old, facts = settled.facts
  PROVE  /\ SupersedeTarget(c, e, asked) = Atomic!SupersedeTarget(c, e, asked)
         /\ TargetUsable(old) <=> Atomic!TargetUsable(old)
<1>1. InEffect(e, Text[c].predicate) = Atomic!InEffect(e, Text[c].predicate)
  BY DEF InEffect, Atomic!InEffect
<1>2. \A S : Earliest(S) = Atomic!Earliest(S)
  BY DEF Earliest, Atomic!Earliest
<1> QED BY <1>1, <1>2 DEF SupersedeTarget, Atomic!SupersedeTarget, TargetUsable,
                          Atomic!TargetUsable

\* What the code finds in effect itself can be superseded, so only a fact that the
\* request names is refused.
LEMMA OnlyNamedRefused ==
  ASSUME NEW c, NEW e, NEW asked, NEW old \in SupersedeTarget(c, e, asked), ~TargetUsable(old)
  PROVE  asked # NoFact /\ old = asked
<1>1. CASE asked # NoFact
  BY <1>1 DEF SupersedeTarget
<1>2. CASE asked = NoFact
  <2>1. old \in Earliest(InEffect(e, Text[c].predicate)) \/ old = NoFact
    BY <1>2 DEF SupersedeTarget
  <2> QED BY <2>1 DEF Earliest, InEffect, TargetUsable
<1> QED BY <1>1, <1>2

LEMMA ChooseTargetFlies ==
  ASSUME ThreadsInv, ThreadsInv', LoneInv, FlightInv, AtomicityNext, NEW w, Worker = {w},
         ChooseTarget(w)
  PROVE  Implements
<1>1. PICK t : t = task[w] /\ t \in Task /\ Knows(t) /\ InFlight(t) /\ Alone(t)
  BY DEF ThreadsInv, FlightInv, LoneInv, Lone
<1>2. t.pc = "target" /\ UNCHANGED <<ledgerVars, cands, runs>>
  BY <1>1 DEF ChooseTarget, At
<1>3. PICK old \in SupersedeTarget(t.cand, t.entity, t.asked) :
        IF TargetUsable(old)
        THEN task' = [task EXCEPT ![w] =
               [t EXCEPT !.pc = IF old = NoFact THEN "create" ELSE "retire",
                         !.old = old, !.asked = NoFact]]
        ELSE task' = [task EXCEPT ![w] = Idle]
  BY <1>1 DEF ChooseTarget, Return, Goto
<1>4. Resolved(t) /\ facts = settled.facts
  BY <1>1, <1>2 DEF InFlight, InSubmit
<1>5. /\ t.asked \in Asked \cup {NoFact} /\ t.cand \in DOMAIN cands /\ t.cand \in Candidate
      /\ t.entity \in EntityId /\ cands[t.cand].status = "Approved"
  BY <1>1, <1>2 DEF Knows, SubmitPc, Alone, ThreadsInv, PipelineTypeOK
<1>6. UNCHANGED <<entities, facts, snapshots, autoRun>>
  BY <1>2 DEF ledgerVars, AtomicityNext, ThreadsNext
<1>7. CASE TargetUsable(old)
  <2>1. PICK pc : pc = IF old = NoFact THEN "create" ELSE "retire"
    OBVIOUS
  <2>2. PICK row : row = [t EXCEPT !.pc = pc, !.old = old, !.asked = NoFact]
    OBVIOUS
  <2>3. row.pc = pc /\ row.old = old /\ row.cand = t.cand /\ row.entity = t.entity
    BY <1>1, <2>2 DEF Task
  <2>4. task'[w] = row
    BY <1>3, <1>7, <2>1, <2>2 DEF ThreadsInv
  <2>5. ASSUME UNCHANGED settled
        PROVE  Chosen(row)'
    <3>1. Resolved(row)'
      BY <1>2, <1>4, <1>6, <2>3, <2>5, ResolvedStays
    <3>2. Atomic!TargetUsable(old)
      BY <1>4, <1>7, SameTargets
    <3>3. Atomic!TargetUsable(row.old)'
      BY <2>3, <2>5, <3>2 DEF Atomic!TargetUsable
    <3>4. old \in Atomic!SupersedeTarget(t.cand, t.entity, t.asked)
      BY <1>3, <1>4, SameTargets
    <3>5. Atomic!SupersedeTarget(t.cand, t.entity, t.asked)'
            = Atomic!SupersedeTarget(t.cand, t.entity, t.asked)
      BY <2>5 DEF Atomic!SupersedeTarget, Atomic!InEffect, Atomic!Earliest
    <3> QED BY <1>5, <2>3, <3>1, <3>3, <3>4, <3>5 DEF Chosen
  <2>6. UNCHANGED settled => InFlight(row)'
    BY <1>4, <1>6, <2>1, <2>3, <2>5 DEF InFlight, InTrigger, InCancel, InSubmit, ReadsOnly
  <2> QED BY <2>1, <2>3, <2>4, <2>6, GoesOn
<1>8. CASE ~TargetUsable(old)
  <2>1. task'[w].pc = "idle"
    BY <1>3, <1>8 DEF ThreadsInv, Idle
  <2>2. t.asked \in Asked /\ t.asked # NoFact /\ ~Atomic!TargetUsable(t.asked)
    BY <1>3, <1>4, <1>5, <1>8, OnlyNamedRefused, SameTargets
  <2>3. ASSUME settled' = Tables'
        PROVE  Atomic!PipelineNext
    <3>1. /\ settled'.entities = entities' /\ settled'.facts = facts'
          /\ settled'.snapshots = snapshots' /\ settled'.cands = cands'
          /\ settled'.runs = runs' /\ settled'.autoRun = autoRun'
      BY <2>3 DEF Tables
    <3>2. settled'.entities \in Atomic!EntitiesAfter(t.cand, t.entity)
      BY <1>4, <1>6, <3>1 DEF Resolved
    <3>3. Atomic!SubmitRefused(t.cand, t.entity, t.asked)
      BY <1>2, <1>4, <1>5, <1>6, <2>2, <3>1, <3>2 DEF Atomic!SubmitRefused, Resolved
    <3> QED BY <1>5, <1>6, <2>2, <3>1, <3>3 DEF Atomic!PipelineNext, FlightInv
  <2> QED BY <2>1, <2>3, Lands
<1> QED BY <1>7, <1>8

LEMMA RetireOldFlies ==
  ASSUME ThreadsInv, FlightInv, AtomicityNext, NEW w, Worker = {w}, NEW f \in FactId,
         RetireOld(w, f)
  PROVE  Implements
<1>1. PICK t : t = task[w] /\ t \in Task /\ Knows(t) /\ InFlight(t)
  BY DEF ThreadsInv, FlightInv
<1>2. PICK row : row = [t EXCEPT !.pc = "replace", !.new = f]
  OBVIOUS
<1>3. row.pc = "replace" /\ row.new = f /\ row.old = t.old /\ row.cand = t.cand /\ row.entity = t.entity
  BY <1>1, <1>2 DEF Task
<1>4. /\ t.pc = "retire" /\ task' = [task EXCEPT ![w] = row]
      /\ f \notin DOMAIN facts /\ facts' = Retired(t.old, f)
      /\ UNCHANGED <<entities, snapshots, cands, runs>>
  BY <1>1, <1>2 DEF RetireOld, At, Goto
<1>5. task'[w] = row
  BY <1>4 DEF ThreadsInv
<1>6. Chosen(t) /\ t.old # NoFact /\ facts = settled.facts
  BY <1>1, <1>4 DEF InFlight, InSubmit
<1>7. ASSUME UNCHANGED settled
      PROVE  /\ Chosen(row)'
             /\ facts' = Atomic!Retired(row.old, row.new)'
  <2>1. facts' = Atomic!Retired(t.old, f)
    BY <1>4, <1>6 DEF Retired, Put, Atomic!Retired, Atomic!Put
  <2>2. Atomic!Retired(t.old, f)' = Atomic!Retired(t.old, f)
    BY <1>7 DEF Atomic!Retired
  <2> QED BY <1>3, <1>4, <1>6, <1>7, <2>1, <2>2, ChosenStays
<1>8. UNCHANGED settled => InFlight(row)'
  BY <1>3, <1>4, <1>6, <1>7 DEF InFlight, InTrigger, InCancel, InSubmit, ReadsOnly
<1> QED BY <1>3, <1>5, <1>8, GoesOn

LEMMA AddFactFlies ==
  ASSUME ThreadsInv, FlightInv, AtomicityNext, NEW w, Worker = {w}, NEW f \in FactId,
         AddFact(w, f)
  PROVE  Implements
<1>1. PICK t : t = task[w] /\ t \in Task /\ Knows(t) /\ InFlight(t)
  BY DEF ThreadsInv, FlightInv
<1>2. PICK row : row = [t EXCEPT !.pc = "activate", !.new = f]
  OBVIOUS
<1>3. row.pc = "activate" /\ row.new = f /\ row.old = t.old /\ row.cand = t.cand /\ row.entity = t.entity
  BY <1>1, <1>2 DEF Task
<1>4. /\ t.pc = "create" /\ task' = [task EXCEPT ![w] = row]
      /\ f \notin DOMAIN facts /\ facts' = Put(facts, f, FactOf(t, "NotInCanon"))
      /\ UNCHANGED <<entities, snapshots, cands, runs>>
  BY <1>1, <1>2 DEF AddFact, At, Goto
<1>5. task'[w] = row
  BY <1>4 DEF ThreadsInv
<1>6. Chosen(t) /\ facts = settled.facts
  BY <1>1, <1>4 DEF InFlight, InSubmit
<1>7. FactOf(row, "NotInCanon") = FactOf(t, "NotInCanon")
  BY <1>3 DEF FactOf
<1>8. ASSUME UNCHANGED settled
      PROVE  Chosen(row)'
  BY <1>3, <1>4, <1>6, <1>8, ChosenStays
<1>9. UNCHANGED settled => InFlight(row)'
  BY <1>3, <1>4, <1>6, <1>7, <1>8 DEF InFlight, InTrigger, InCancel, InSubmit, ReadsOnly
<1> QED BY <1>3, <1>5, <1>9, GoesOn
\* The fact is in effect: as one write of the abstract submit leaves it.
LEMMA FactFlies ==
  ASSUME ThreadsInv, FlightInv, AtomicityNext, NEW w, Worker = {w},
         AddReplacement(w) \/ ActivateFact(w)
  PROVE  Implements
<1>1. PICK t : t = task[w] /\ t \in Task /\ Knows(t) /\ InFlight(t)
  BY DEF ThreadsInv, FlightInv
<1>2. PICK row : row = [t EXCEPT !.pc = "submitted"]
  OBVIOUS
<1>3. row.pc = "submitted" /\ row.new = t.new /\ row.old = t.old /\ row.cand = t.cand /\ row.entity = t.entity
  BY <1>1, <1>2 DEF Task
<1>4. /\ t.pc \in {"replace", "activate"} /\ task' = [task EXCEPT ![w] = row]
      /\ UNCHANGED <<entities, snapshots, cands, runs>>
  BY <1>1, <1>2 DEF AddReplacement, ActivateFact, At, Advance, Goto
<1>5. task'[w] = row
  BY <1>4 DEF ThreadsInv
<1>6. Chosen(t) /\ t.new \in FactId \ DOMAIN settled.facts
  BY <1>1, <1>4 DEF InFlight, InSubmit
<1>7. PICK new : new = FactOf(t, "Active")
  OBVIOUS
<1>8. new = Atomic!NewFact(t.entity, Text[t.cand].predicate, Text[t.cand].value,
                           Text[t.cand].time, "Active", t.old)
  BY <1>7 DEF FactOf, NewFact, Atomic!NewFact
<1>9. facts' = Atomic!Committed(t.cand, t.entity, t.new, t.old)
  <2>1. CASE AddReplacement(w)
    <3>1. /\ t.pc = "replace" /\ t.old # NoFact
          /\ facts = Atomic!Retired(t.old, t.new)
          /\ facts' = Put(facts, t.new, new)
      BY <1>1, <1>7, <2>1 DEF AddReplacement, At, InFlight, InSubmit
    <3> QED BY <1>8, <3>1 DEF Atomic!Committed, Put, Atomic!Put
  <2>2. CASE ActivateFact(w)
    <3>1. PICK draft : draft = FactOf(t, "NotInCanon")
      OBVIOUS
    <3>2. /\ t.pc = "activate" /\ t.old = NoFact
          /\ facts = Put(settled.facts, t.new, draft)
          /\ facts' = Restatus(t.new, "Active")
      BY <1>1, <2>2, <3>1 DEF ActivateFact, At, InFlight, InSubmit, Knows
    <3>3. facts[t.new] = draft
      BY <3>2 DEF Put
    <3>4. [draft EXCEPT !.status = "Active", !.version_status = "Active"] = new
      <4>1. PICK e, p, v, time, old :
              /\ e = t.entity /\ p = Text[t.cand].predicate /\ v = Text[t.cand].value
              /\ time = Text[t.cand].time /\ old = t.old
        OBVIOUS
      <4>2. /\ draft = NewFact(e, p, v, time, "NotInCanon", old)
            /\ new = NewFact(e, p, v, time, "Active", old)
        BY <1>7, <3>1, <4>1 DEF FactOf
      <4>3. PICK half : half = [draft EXCEPT !.status = "Active"]
        OBVIOUS
      <4>4. half = [entity |-> e, predicate |-> p, value |-> v, time |-> time,
                    status |-> "Active", version_status |-> "NotInCanon",
                    supersedes |-> old, superseded_by |-> NoFact]
        BY <4>2, <4>3 DEF NewFact
      <4>5. [half EXCEPT !.version_status = "Active"] = new
        BY <4>2, <4>4 DEF NewFact
      <4> QED BY <4>3, <4>5
    <3>5. facts' = Put(settled.facts, t.new, new)
      BY <3>2, <3>3, <3>4 DEF Restatus, Put
    <3> QED BY <1>8, <3>2, <3>5 DEF Atomic!Committed, Put, Atomic!Put
  <2> QED BY <2>1, <2>2
<1>10. ASSUME UNCHANGED settled
       PROVE  /\ Chosen(row)'
              /\ facts' = Atomic!Committed(row.cand, row.entity, row.new, row.old)'
  <2>1. Atomic!Committed(t.cand, t.entity, t.new, t.old)'
          = Atomic!Committed(t.cand, t.entity, t.new, t.old)
    BY <1>10 DEF Atomic!Committed, Atomic!Retired
  <2>2. Chosen(row)'
    BY <1>3, <1>4, <1>6, <1>10, ChosenStays
  <2> QED BY <1>3, <1>9, <2>1, <2>2
<1>11. UNCHANGED settled => InFlight(row)'
  BY <1>3, <1>6, <1>10 DEF InFlight, InTrigger, InCancel, InSubmit, ReadsOnly
<1> QED BY <1>3, <1>5, <1>11, GoesOn

LEMMA SubmitSaveFlies ==
  ASSUME ThreadsInv, ThreadsInv', LoneInv, FlightInv, AtomicityNext, NEW w, Worker = {w},
         SubmitSave(w)
  PROVE  Implements
<1>1. PICK t : t = task[w] /\ t \in Task /\ Knows(t) /\ InFlight(t) /\ Alone(t)
  BY DEF ThreadsInv, FlightInv, LoneInv, Lone
<1>2. /\ t.pc = "submitted" /\ task' = [task EXCEPT ![w] = Idle]
      /\ cands' = Put(cands, t.cand, [cands[t.cand] EXCEPT !.status = "Submitted",
                                        !.fact = t.new, !.superseded = t.old])
      /\ UNCHANGED <<entities, facts, snapshots, runs>>
  BY <1>1 DEF SubmitSave, At, Return, Goto, ledgerVars
<1>3. task'[w].pc = "idle"
  BY <1>2 DEF ThreadsInv, Idle
<1>4. /\ Resolved(t) /\ Atomic!TargetUsable(t.old)
      /\ t.new \in FactId \ DOMAIN settled.facts
      /\ facts = Atomic!Committed(t.cand, t.entity, t.new, t.old)
  BY <1>1, <1>2 DEF InFlight, InSubmit, Chosen
<1>5. PICK asked \in Asked \cup {NoFact} :
        t.old \in Atomic!SupersedeTarget(t.cand, t.entity, asked)
  BY <1>1, <1>2 DEF InFlight, InSubmit, Chosen
<1>6. /\ t.cand \in DOMAIN cands /\ t.cand \in Candidate
      /\ t.entity \in EntityId /\ cands[t.cand].status = "Approved"
  BY <1>1, <1>2 DEF Knows, SubmitPc, Alone, ThreadsInv, PipelineTypeOK
<1>7. UNCHANGED autoRun
  BY DEF AtomicityNext, ThreadsNext
<1>8. ASSUME settled' = Tables'
      PROVE  Atomic!PipelineNext
  <2>1. /\ settled'.entities = entities' /\ settled'.facts = facts'
        /\ settled'.snapshots = snapshots' /\ settled'.cands = cands'
        /\ settled'.runs = runs' /\ settled'.autoRun = autoRun'
    BY <1>8 DEF Tables
  <2>2. settled'.entities \in Atomic!EntitiesAfter(t.cand, t.entity)
        /\ settled'.facts = Atomic!Committed(t.cand, t.entity, t.new, t.old)
    BY <1>2, <1>4, <2>1 DEF Resolved
  <2>3. settled'.cands = Atomic!Put(settled.cands, t.cand,
          [settled.cands[t.cand] EXCEPT !.status = "Submitted", !.fact = t.new,
                                        !.superseded = t.old])
    BY <1>2, <1>4, <2>1 DEF Resolved, Put, Atomic!Put
  <2>4. Atomic!SubmitCandidate(t.cand, t.entity, asked, t.new)
    BY <1>2, <1>4, <1>5, <1>6, <2>1, <2>2, <2>3 DEF Atomic!SubmitCandidate, Resolved
  <2> QED BY <1>4, <1>6, <1>7, <2>1, <2>4 DEF Atomic!PipelineNext, FlightInv
<1> QED BY <1>3, <1>8, Lands

-----------------------------------------------------------------------------
(* The handlers that are one access *)

LEMMA OneAccessFlies ==
  ASSUME ThreadsInv, ThreadsInv', FlightInv, AtomicityNext, NEW w, Worker = {w}, OneAccess(w)
  PROVE  Implements
<1>1. task[w].pc = "idle" /\ UNCHANGED task
  BY DEF OneAccess, At
<1>2. /\ settled.entities = entities /\ settled.facts = facts
      /\ settled.snapshots = snapshots /\ settled.cands = cands
      /\ settled.runs = runs /\ settled.autoRun = autoRun
  BY <1>1, SettledTables DEF FlightInv, InFlight, ReadsOnly
<1>3. UNCHANGED autoRun
  BY DEF AtomicityNext, ThreadsNext
<1>4. ASSUME settled' = Tables'
      PROVE  Atomic!PipelineNext
  <2>1. /\ settled'.entities = entities' /\ settled'.facts = facts'
        /\ settled'.snapshots = snapshots' /\ settled'.cands = cands'
        /\ settled'.runs = runs' /\ settled'.autoRun = settled.autoRun
    BY <1>2, <1>3, <1>4 DEF Tables
  <2>2. ASSUME NEW S \in SUBSET Candidate, PersistExtracted(S)
        PROVE  Atomic!PipelineNext
    <3>1. Atomic!PersistExtracted(S)
      BY <1>2, <2>1, <2>2 DEF PersistExtracted, NewCandidate, ledgerVars,
                              Atomic!PersistExtracted, Atomic!NewCandidate, Atomic!ledgerVars
    <3> QED BY <2>1, <3>1 DEF Atomic!PipelineNext
  <2>3. ASSUME NEW s \in SnapshotId, NEW as_of \in StoryTime \cup {NoTime},
               CreateSnapshot(s, as_of), UNCHANGED <<cands, runs>>
        PROVE  Atomic!PipelineNext
    <3>1. ActiveAsOf(as_of) = Atomic!ActiveAsOf(as_of)
      BY <1>2 DEF ActiveAsOf, TimeInEffect, Atomic!ActiveAsOf, Atomic!TimeInEffect
    <3>2. Atomic!CreateSnapshot(s, as_of)
      BY <1>2, <2>1, <2>3, <3>1 DEF CreateSnapshot, Put, Atomic!CreateSnapshot, Atomic!Put
    <3> QED BY <1>2, <2>1, <2>3, <3>2 DEF Atomic!PipelineNext, Atomic!CanonApi, Atomic!LedgerNext
  <2>4. ASSUME NEW s \in SnapshotId, FreezeSnapshot(s), UNCHANGED <<cands, runs>>
        PROVE  Atomic!PipelineNext
    <3>1. Atomic!FreezeSnapshot(s)
      BY <1>2, <2>1, <2>4 DEF FreezeSnapshot, Put, Atomic!FreezeSnapshot, Atomic!Put
    <3> QED BY <1>2, <2>1, <2>4, <3>1 DEF Atomic!PipelineNext, Atomic!CanonApi, Atomic!LedgerNext
  <2> QED BY <2>2, <2>3, <2>4 DEF OneAccess
<1> QED BY <1>1, <1>4, Lands

LEMMA FlightStands ==
  ASSUME UNCHANGED <<entities, facts, snapshots, cands, runs, autoRun, settled>>,
         NEW t, InFlight(t)
  PROVE  InFlight(t)'
<1>1. ASSUME NEW r, NEW A, NEW sn, NEW state, NEW todo, Triggered(r, A, sn, state, todo)
      PROVE  Triggered(r, A, sn, state, todo)'
  BY <1>1 DEF Triggered, LedgerSettled, Atomic!MayValidate, Marked
<1>2. ASSUME NEW A, NEW sn
      PROVE  OutcomesOf(A, sn)' = OutcomesOf(A, sn)
  BY DEF OutcomesOf, Atomic!OutcomeOf, Atomic!CanonConflict, Atomic!CanonSeenBy,
         Atomic!Contradicts, Atomic!ActiveAsOf, Atomic!TimeInEffect
<1>3. ASSUME NEW r, NEW A, NEW sn, NEW outcome, NEW todo, Ended(r, A, sn, outcome, todo)
      PROVE  Ended(r, A, sn, outcome, todo)'
  BY <1>2, <1>3 DEF Ended, LedgerSettled, Atomic!MayValidate, Marked
<1>4. ASSUME NEW r, NEW todo, Cancelled(r, todo)
      PROVE  Cancelled(r, todo)'
  BY <1>4 DEF Cancelled, LedgerSettled, Atomic!StillValidating, Marked
<1>5. Tables' = Tables
  BY DEF Tables
<1>6. InTrigger(t)'
  <2>1. MayValidate(t.todo, t.snapshot)' <=> MayValidate(t.todo, t.snapshot)
    BY DEF MayValidate
  <2> QED BY <1>1, <1>2, <1>3, <2>1 DEF InFlight, InTrigger
<1>7. InCancel(t)'
  <2>1. Atomic!StillValidating(settled.runs[t.run].cands)'
          = Atomic!StillValidating(settled.runs[t.run].cands)
    BY DEF Atomic!StillValidating
  <2>2. PICK A : A = Atomic!StillValidating(settled.runs[t.run].cands)
    OBVIOUS
  <2>3. t.pc = "select" => Cancelled(t.run, Atomic!StillValidating(settled.runs[t.run].cands))'
    <3>1. t.pc = "select" => Cancelled(t.run, A)
      BY <2>2 DEF InFlight, InCancel
    <3>2. t.pc = "select" => Cancelled(t.run, A)'
      BY <1>4, <3>1
    <3> QED BY <2>1, <2>2, <3>2 DEF Cancelled
  <2> QED BY <1>4, <2>3 DEF InFlight, InCancel
<1>8. InSubmit(t)'
  <2>1. Resolved(t) => Resolved(t)'
    BY ResolvedStays
  <2>2. Chosen(t) => Chosen(t)'
    BY ChosenStays
  <2>3. /\ Atomic!Retired(t.old, t.new)' = Atomic!Retired(t.old, t.new)
        /\ Atomic!Committed(t.cand, t.entity, t.new, t.old)'
             = Atomic!Committed(t.cand, t.entity, t.new, t.old)
    BY DEF Atomic!Retired, Atomic!Committed
  <2> QED BY <2>1, <2>2, <2>3 DEF InFlight, InSubmit
<1> QED BY <1>5, <1>6, <1>7, <1>8 DEF InFlight

LEMMA AtomicityStep ==
  ASSUME OneThread, ~Crashes, ThreadsInv, ThreadsInv', LoneInv, FlightInv,
         [AtomicityNext]_<<threadVars, settled>>
  PROVE  Implements
<1>1. PICK w : Worker = {w}
  BY DEF OneThread
<1>2. CASE UNCHANGED <<threadVars, settled>>
  <2>1. UNCHANGED <<entities, facts, snapshots, cands, runs, autoRun, task, settled>>
    BY <1>2 DEF threadVars
  <2>2. UNCHANGED Atomic!pipelineVars
    BY <2>1 DEF Atomic!pipelineVars, Atomic!ledgerVars
  <2>3. PICK t : t = task[w] /\ InFlight(t)
    BY <1>1 DEF FlightInv
  <2>4. InFlight(t)'
    BY <2>1, <2>3, FlightStands
  <2>5. \A v \in Worker : InFlight(task[v])'
    BY <1>1, <2>1, <2>3, <2>4 DEF InFlight, InTrigger, InCancel, InSubmit
  <2>6. Atomic!PipelineTypeOK'
    BY <2>1 DEF FlightInv, Atomic!PipelineTypeOK, Atomic!LedgerTypeOK
  <2> QED BY <2>1, <2>2, <2>5, <2>6 DEF Implements, FlightInv
<1>3. CASE AtomicityNext
  <2>1. CASE Reads(w)
    BY <1>1, <1>3, <2>1, TriggerCheckFlies, EvaluateFlies, CancelCheckFlies, CancelSelectFlies,
       VerdictChecksFly, SubmitChecksFly, ResolveFlies, ChooseTargetFlies DEF Reads
  <2>2. CASE Writes(w)
    BY <1>1, <1>3, <2>2, AddRunFlies, MoveOneFlies, StartRunFlies, EndRunFlies, CancelSaveFlies,
       VerdictSavesFly, AddEntityFlies, RetireOldFlies, AddFactFlies, FactFlies, SubmitSaveFlies
       DEF Writes
  <2>3. CASE OneAccess(w)
    BY <1>1, <1>3, <2>3, OneAccessFlies
  <2> QED BY <1>1, <1>3, <2>1, <2>2, <2>3, ThreadsStep DEF AtomicityNext, Crash
<1> QED BY <1>2, <1>3

\* A server that runs one request at a time and is not killed is the loop of
\* CanonPipeline: whatever a request reads, writes, refuses or leaves half way, the
\* tables it leaves are those of one handler, or those it found (the routes of
\* validation, approval and submit, down to each save_* and add_*).
THEOREM RequestsAreHandlers ==
  ASSUME OneThread, ~Crashes
  PROVE  AtomicitySpec => HandlersAreAtomic
<1>1. AtomicityInit => Atomic!PipelineInit
  BY DEF AtomicityInit, ThreadsInit, PipelineInit, LedgerInit, EmptyTable, Tables,
         Atomic!PipelineInit, Atomic!LedgerInit, Atomic!EmptyTable
<1>2. AtomicityInit => FlightInv
  <2> SUFFICES ASSUME AtomicityInit
               PROVE  FlightInv
    OBVIOUS
  <2>1. /\ settled.entities = entities /\ settled.facts = facts
        /\ settled.snapshots = snapshots /\ settled.cands = cands
        /\ settled.runs = runs /\ settled.autoRun = autoRun
    BY SettledTables DEF AtomicityInit
  <2>2. PipelineTypeOK
    BY ThreadsInitInv DEF AtomicityInit, ThreadsInv
  <2>3. Atomic!PipelineTypeOK
    BY <2>1, <2>2 DEF PipelineTypeOK, LedgerTypeOK, Atomic!PipelineTypeOK,
              Atomic!LedgerTypeOK, Entity, Fact, FactStatus, Snapshot, CandidateRow,
              CandStatus, Run, RunState, Atomic!Entity, Atomic!Fact, Atomic!FactStatus,
              Atomic!Snapshot, Atomic!CandidateRow, Atomic!CandStatus, Atomic!Run,
              Atomic!RunState
  <2>4. InFlight(Idle)
    BY DEF AtomicityInit, InFlight, InTrigger, InCancel, InSubmit, Idle
  <2>5. \A w \in Worker : InFlight(task[w])
    BY <2>4 DEF AtomicityInit, ThreadsInit
  <2> QED BY <2>1, <2>3, <2>5 DEF FlightInv
<1>3. AtomicityInit => ThreadsInit
  BY DEF AtomicityInit
<1>4. [AtomicityNext]_<<threadVars, settled>> => [ThreadsNext]_threadVars
  BY DEF AtomicityNext
<1>5. AtomicitySpec => ThreadsSpec
  BY <1>3, <1>4, PTL DEF AtomicitySpec, ThreadsSpec
<1>6. AtomicitySpec => []ThreadsInv /\ []LoneInv
  BY <1>5, ThreadsInvariant, LoneInvariant, PTL
<1>7. ThreadsInv /\ ThreadsInv' /\ LoneInv /\ FlightInv /\ [AtomicityNext]_<<threadVars, settled>>
        => FlightInv' /\ [Atomic!PipelineNext]_(Atomic!pipelineVars)
  BY AtomicityStep DEF Implements
<1> QED BY <1>1, <1>2, <1>6, <1>7, PTL DEF AtomicitySpec, HandlersAreAtomic, Atomic!PipelineSpec
=============================================================================
