---------------------------- MODULE CanonThreads ----------------------------
(***************************************************************************)
(* The handlers of CanonPipeline as the threads of the server run them.    *)
(* Routes are plain functions served by a thread pool and no service takes *)
(* a lock, so two requests interleave between any two accesses to a row.   *)
(* One action is one read, or one mutation with its save_* or add_*.       *)
(*                                                                         *)
(* Every such write flushes the whole book to disk before it returns       *)
(* (persist/store.py), so what the process holds is what a restart loads:  *)
(* entities, facts, snapshots and candidates survive a crash.  Validation  *)
(* runs are not part of the book and are lost, and so is every request.    *)
(***************************************************************************)
EXTENDS CanonPipeline

CONSTANTS
  Worker,   \* threads of the pool
  Crashes   \* whether the process may be killed and restarted

VARIABLES
  task,      \* worker -> the handler it is in
  origin,    \* fact id -> the candidate it was written for (observer)
  approvals  \* candidates that the editor has approved at some time (observer)

threadVars == <<entities, facts, snapshots, cands, runs, autoRun, task, origin, approvals>>

-----------------------------------------------------------------------------
(* The local variables of a handler.  pc names the next step; a field that   *)
(* the handler does not use, or no longer uses, has its Idle value.          *)

NoOne == "none"

Idle ==
  [pc |-> "idle", cand |-> NoOne, run |-> NoOne, todo |-> {}, status |-> NoOne,
   snapshot |-> NoSnapshot, entity |-> NoOne, asked |-> NoFact, old |-> NoFact,
   new |-> NoFact]

At(w, pc) == task[w].pc = pc
Goto(w, t) == task' = [task EXCEPT ![w] = t]
Return(w) == Goto(w, Idle)
Advance(w, pc) == Goto(w, [task[w] EXCEPT !.pc = pc])

ThreadsInit ==
  /\ PipelineInit
  /\ task = [w \in Worker |-> Idle]
  /\ origin = EmptyTable
  /\ approvals = {}

SaveRun(r, state) == runs' = Put(runs, r, [runs[r] EXCEPT !.state = state])

-----------------------------------------------------------------------------
(* trigger_run and _run *)

TriggerCheck(w, r, S, sn) ==
  /\ At(w, "idle")
  /\ r \in RunId \ DOMAIN runs
  /\ MayValidate(S, sn)
  /\ Goto(w, [Idle EXCEPT !.pc = "add_run", !.run = r, !.todo = S, !.snapshot = sn])
  /\ UNCHANGED <<ledgerVars, cands, runs, origin>>

AddRun(w) ==
  LET t == task[w]
  IN /\ At(w, "add_run")
     /\ t.run \notin DOMAIN runs
     /\ runs' = Put(runs, t.run,
                    [state |-> "Queued", cands |-> t.todo, snapshot |-> t.snapshot])
     /\ Goto(w, [t EXCEPT !.pc = "validating", !.status = "Validating"])
     /\ UNCHANGED <<ledgerVars, cands, origin>>

\* _move_candidates: one candidate after the other, whatever its status is by
\* now.  pcs "validating", "verdict" and "release" are its three call sites.
AfterMove(t) ==
  CASE t.todo # {} -> t
    [] t.todo = {} /\ t.pc = "validating" /\ autoRun ->
         [t EXCEPT !.pc = "start_run", !.status = NoOne]
    [] OTHER -> Idle

MoveOne(w) ==
  LET t == task[w]
  IN /\ t.pc \in {"validating", "verdict", "release"}
     /\ \E c \in t.todo :
          /\ cands' = Move({c}, t.status)
          /\ Goto(w, AfterMove([t EXCEPT !.todo = t.todo \ {c}]))
     /\ UNCHANGED <<ledgerVars, runs, origin>>

StartRun(w) ==
  /\ At(w, "start_run")
  /\ SaveRun(task[w].run, "Running")
  /\ Advance(w, "evaluate")
  /\ UNCHANGED <<ledgerVars, cands, origin>>

\* The rules read Canon once; what they found is acted upon later.
Evaluate(w, forbidden, crashed) ==
  LET t == task[w]
      S == runs[t.run].cands
  IN /\ At(w, "evaluate")
     /\ Goto(w, [t EXCEPT !.pc = "end_run",
                          !.status = OutcomeOf(S, t.snapshot, forbidden, crashed)])
     /\ UNCHANGED <<ledgerVars, cands, runs, origin>>

EndRun_KeepsCandidates(w) ==
  /\ At(w, "end_run")
  /\ SaveRun(task[w].run, task[w].status)
  /\ Return(w)
  /\ UNCHANGED <<ledgerVars, cands, origin>>

\* The state of the run is not read again: a run cancelled meanwhile still ends.
EndRun(w) ==
  LET t == task[w]
  IN /\ At(w, "end_run")
     /\ SaveRun(t.run, t.status)
     /\ Goto(w, [Idle EXCEPT !.pc = "verdict", !.todo = runs[t.run].cands,
                             !.status = StatusAfter(t.status)])
     /\ UNCHANGED <<ledgerVars, cands, origin>>

Validate(w) ==
  \/ \E r \in RunId, S \in SUBSET Candidate, sn \in SnapshotId \cup {NoSnapshot} :
       TriggerCheck(w, r, S, sn)
  \/ AddRun(w)
  \/ MoveOne(w)
  \/ StartRun(w)
  \/ \E forbidden, crashed \in BOOLEAN : Evaluate(w, forbidden, crashed)
  \/ EndRun(w)

-----------------------------------------------------------------------------
(* cancel_run *)

CancelCheck(w, r) ==
  /\ At(w, "idle")
  /\ r \in DOMAIN runs
  /\ runs[r].state \in {"Queued", "Running"}
  /\ Goto(w, [Idle EXCEPT !.pc = "cancel", !.run = r])
  /\ UNCHANGED <<ledgerVars, cands, runs, origin>>

CancelSave(w) ==
  /\ At(w, "cancel")
  /\ SaveRun(task[w].run, "Cancelled")
  /\ Advance(w, "select")
  /\ UNCHANGED <<ledgerVars, cands, origin>>

CancelSelect(w) ==
  /\ At(w, "select")
  /\ Goto(w, LET S == StillValidating(runs[task[w].run].cands)
             IN IF S = {} THEN Idle
                ELSE [Idle EXCEPT !.pc = "release", !.status = "Extracted", !.todo = S])
  /\ UNCHANGED <<ledgerVars, cands, runs, origin>>

Cancel(w) == (\E r \in RunId : CancelCheck(w, r)) \/ CancelSave(w) \/ CancelSelect(w)

-----------------------------------------------------------------------------
(* approve and reject: the status is read, then the verdict recorded *)

VerdictCheck(w, c, pc, from) ==
  /\ At(w, "idle")
  /\ c \in DOMAIN cands
  /\ cands[c].status \in from
  /\ Goto(w, [Idle EXCEPT !.pc = pc, !.cand = c])
  /\ UNCHANGED <<ledgerVars, cands, runs, origin>>

VerdictSave(w, pc, status, verdict) ==
  /\ At(w, pc)
  /\ cands' = Verdict(task[w].cand, status, verdict)
  /\ Return(w)
  /\ UNCHANGED <<ledgerVars, runs, origin>>

Approve(w) ==
  \/ \E c \in Candidate : VerdictCheck(w, c, "approve", {"AwaitingVerdict"})
  \/ VerdictSave(w, "approve", "Approved", "Approve")

Reject_SubmittedToo(w) ==
  \/ \E c \in Candidate :
       VerdictCheck(w, c, "reject", {"AwaitingVerdict", "Approved", "Submitted"})
  \/ VerdictSave(w, "reject", "Rejected", "Reject")

Reject(w) ==
  \/ \E c \in Candidate : VerdictCheck(w, c, "reject", {"AwaitingVerdict", "Approved"})
  \/ VerdictSave(w, "reject", "Rejected", "Reject")

-----------------------------------------------------------------------------
(* submit *)

SubmitCheck_Unapproved(w, c, asked) ==
  /\ At(w, "idle")
  /\ c \in DOMAIN cands
  /\ cands[c].status \in {"AwaitingVerdict", "Approved"}
  /\ Goto(w, [Idle EXCEPT !.pc = "resolve", !.cand = c, !.asked = asked])
  /\ UNCHANGED <<ledgerVars, cands, runs, origin>>

SubmitCheck(w, c, asked) ==
  /\ At(w, "idle")
  /\ c \in DOMAIN cands
  /\ cands[c].status = "Approved"
  /\ Goto(w, [Idle EXCEPT !.pc = "resolve", !.cand = c, !.asked = asked])
  /\ UNCHANGED <<ledgerVars, cands, runs, origin>>

ResolveFound(w, e) ==
  /\ At(w, "resolve")
  /\ e \in DOMAIN entities
  /\ Goto(w, [task[w] EXCEPT !.pc = "target", !.entity = e])
  /\ UNCHANGED <<ledgerVars, cands, runs, origin>>

Subject(w) == Text[task[w].cand].subject

ResolveMissing(w) ==
  /\ At(w, "resolve")
  /\ \A x \in DOMAIN entities : entities[x].name # Subject(w)
  /\ Advance(w, "new_entity")
  /\ UNCHANGED <<ledgerVars, cands, runs, origin>>

\* create_entity looks for the name and type, refuses (409) when they are
\* taken, and adds the row afterwards.
EntityCheck(w, y) ==
  /\ At(w, "new_entity")
  /\ IF NameTaken(Subject(w), y)
     THEN Return(w)
     ELSE Goto(w, [task[w] EXCEPT !.pc = "add_entity", !.status = y])
  /\ UNCHANGED <<ledgerVars, cands, runs, origin>>

AddEntity(w, e) ==
  /\ At(w, "add_entity")
  /\ e \in EntityId \ DOMAIN entities
  /\ entities' = Put(entities, e, [name |-> Subject(w), type |-> task[w].status])
  /\ Goto(w, [task[w] EXCEPT !.pc = "target", !.entity = e, !.status = NoOne])
  /\ UNCHANGED <<facts, snapshots, cands, runs, origin>>

\* _commit_canon chooses between supersede and create; supersede_fact then
\* reads the status of the old fact in the same access.
ChooseTarget(w) ==
  LET t == task[w]
  IN /\ At(w, "target")
     /\ \E old \in SupersedeTarget(t.cand, t.entity, t.asked) :
          IF TargetUsable(old)
          THEN Goto(w, [t EXCEPT !.pc = IF old = NoFact THEN "create" ELSE "retire",
                                 !.old = old, !.asked = NoFact])
          ELSE Return(w)
     /\ UNCHANGED <<ledgerVars, cands, runs, origin>>

FactOf(t, status) ==
  NewFact(t.entity, Text[t.cand].predicate, Text[t.cand].value, Text[t.cand].time,
          status, t.old)

\* supersede_fact saves the old row before it adds the new one.
RetireOld(w, f) ==
  LET t == task[w]
  IN /\ At(w, "retire")
     /\ f \in FactId \ DOMAIN facts
     /\ \A v \in Worker : task[v].new # f
     /\ facts' = Retired(t.old, f)
     /\ Goto(w, [t EXCEPT !.pc = "replace", !.new = f])
     /\ UNCHANGED <<entities, snapshots, cands, runs, origin>>

AddReplacement(w) ==
  LET t == task[w]
  IN /\ At(w, "replace")
     /\ facts' = Put(facts, t.new, FactOf(t, "Active"))
     /\ origin' = Put(origin, t.new, t.cand)
     /\ Advance(w, "submitted")
     /\ UNCHANGED <<entities, snapshots, cands, runs>>

AddFact_NeverApproved(w, f) ==
  LET t == task[w]
  IN /\ At(w, "create")
     /\ f \in FactId \ DOMAIN facts
     /\ facts' = Put(facts, f, FactOf(t, "NotInCanon"))
     /\ origin' = Put(origin, f, t.cand)
     /\ Goto(w, [t EXCEPT !.pc = "submitted", !.new = f])
     /\ UNCHANGED <<entities, snapshots, cands, runs>>

\* create_fact, then approve_fact.
AddFact(w, f) ==
  LET t == task[w]
  IN /\ At(w, "create")
     /\ f \in FactId \ DOMAIN facts
     /\ \A v \in Worker : task[v].new # f
     /\ facts' = Put(facts, f, FactOf(t, "NotInCanon"))
     /\ origin' = Put(origin, f, t.cand)
     /\ Goto(w, [t EXCEPT !.pc = "activate", !.new = f])
     /\ UNCHANGED <<entities, snapshots, cands, runs>>

ActivateFact(w) ==
  /\ At(w, "activate")
  /\ facts[task[w].new].status \in NotYetActive
  /\ facts' = Restatus(task[w].new, "Active")
  /\ Advance(w, "submitted")
  /\ UNCHANGED <<entities, snapshots, cands, runs, origin>>

\* The status of the candidate is not read again.
SubmitSave(w) ==
  LET t == task[w]
  IN /\ At(w, "submitted")
     /\ cands' = Put(cands, t.cand, [cands[t.cand] EXCEPT !.status = "Submitted",
                                      !.fact = t.new, !.superseded = t.old])
     /\ Return(w)
     /\ UNCHANGED <<ledgerVars, runs, origin>>

Submit(w) ==
  \/ \E c \in Candidate, asked \in Asked \cup {NoFact} : SubmitCheck(w, c, asked)
  \/ \E e \in EntityId : ResolveFound(w, e)
  \/ ResolveMissing(w)
  \/ \E y \in EntityType : EntityCheck(w, y)
  \/ \E e \in EntityId : AddEntity(w, e)
  \/ ChooseTarget(w)
  \/ \E f \in FactId : RetireOld(w, f) \/ AddFact(w, f)
  \/ AddReplacement(w)
  \/ ActivateFact(w)
  \/ SubmitSave(w)

-----------------------------------------------------------------------------
(* The rest of the process *)

\* Handlers that matter here only as one access: a batch that arrives, and the
\* snapshots that may be taken in the middle of a submit.
OneAccess(w) ==
  /\ At(w, "idle")
  /\ \/ \E S \in SUBSET Candidate : PersistExtracted(S)
     \/ /\ \/ \E s \in SnapshotId, as_of \in StoryTime \cup {NoTime} :
                CreateSnapshot(s, as_of)
           \/ \E s \in SnapshotId : FreezeSnapshot(s)
        /\ UNCHANGED <<cands, runs>>
  /\ UNCHANGED <<task, origin>>

\* Kill and restart: the book is loaded again, the runs are gone.
Crash ==
  /\ Crashes
  /\ \/ \E w \in Worker : ~At(w, "idle")
     \/ DOMAIN runs # {}
  /\ task' = [w \in Worker |-> Idle]
  /\ runs' = EmptyTable
  /\ UNCHANGED <<ledgerVars, cands, origin>>

ThreadsNext ==
  /\ \/ \E w \in Worker :
          \/ Validate(w) \/ Cancel(w)
          \/ Approve(w) \/ Reject(w) \/ Submit(w)
          \/ OneAccess(w)
     \/ Crash
  /\ UNCHANGED autoRun
  /\ approvals' = approvals \cup {c \in DOMAIN cands' : cands'[c].status = "Approved"}

ThreadsSpec == ThreadsInit /\ [][ThreadsNext]_threadVars

-----------------------------------------------------------------------------
(* Properties *)

TaskPc ==
  {"idle", "add_run", "validating", "start_run", "evaluate", "end_run", "verdict",
   "cancel", "select", "release", "approve", "reject", "resolve", "new_entity",
   "add_entity", "target", "retire", "replace", "create", "activate", "submitted"}

ThreadsTypeOK ==
  /\ PipelineTypeOK
  /\ DOMAIN task = Worker
  /\ \A w \in Worker : task[w].pc \in TaskPc /\ task[w].todo \subseteq DOMAIN cands
  /\ DOMAIN origin \subseteq DOMAIN facts
  /\ \A f \in DOMAIN origin : origin[f] \in DOMAIN cands
  /\ approvals \subseteq DOMAIN cands

\* "Duplicate submit is rejected (409). It is not idempotent and must not
\* double-write Canon." (candidate_change/approval_service.py): at most one
\* fact is ever written to Canon for a candidate.
NoDoubleWrite ==
  \A f, g \in DOMAIN origin :
    /\ origin[f] = origin[g]
    /\ facts[f].status \in InCanon /\ facts[g].status \in InCanon
    => f = g

\* Canon holds at most one fact in effect per entity and predicate as long as
\* facts come through submit alone, one request at a time, and no request names
\* the fact to supersede: a submit replaces what is in effect, and a submit
\* that a crash cut short is made good by the next one.
OneTruthEach ==
  \A f, g \in DOMAIN facts :
    /\ facts[f].status = "Active" /\ facts[g].status = "Active"
    /\ facts[f].entity = facts[g].entity /\ facts[f].predicate = facts[g].predicate
    => f = g

\* A fact that was retired has its replacement in Canon, unless the request that
\* retires it is still between its two writes: state-machines.md 4.3 retires a fact
\* with its new version in effect.  A kill between the two writes (canon/service.py
\* supersede_fact) breaks it, and no run checks it.
RetiredIsReplaced ==
  \A f \in DOMAIN facts :
    facts[f].status = "Superseded"
      => \/ facts[f].superseded_by \in DOMAIN facts
         \/ \E w \in Worker : At(w, "replace") /\ task[w].new = facts[f].superseded_by

\* Nothing is written to the ledger for a candidate that the editor had not
\* approved before: whatever verdict, validation or crash comes between the status
\* that submit reads and the fact that it adds, an approval had come first
\* (approval_service submit).
WrittenAsApproved == \A f \in DOMAIN origin : origin[f] \in approvals

\* A Submitted candidate is in Canon, wherever the submits of it were cut short and
\* sent again: it names a fact that was written for it and came into effect, and
\* what it says to have superseded is out of effect (approval_service submit, which
\* saves the candidate last).
SubmittedIsWritten ==
  \A c \in DOMAIN cands :
    cands[c].status = "Submitted" =>
      LET f == cands[c].fact
          old == cands[c].superseded
      IN /\ f \in DOMAIN origin /\ origin[f] = c
         /\ facts[f].status \in InCanon
         /\ old # NoFact => facts[old].status = "Superseded"

\* "Reject ... does not write Canon", and a rejected candidate has written
\* nothing before (approval_service.py; state-machines.md 3.3: the editor may
\* still reject an approved candidate before it is submitted).
RejectedNotInCanon ==
  \A c \in DOMAIN cands :
    cands[c].status = "Rejected"
      => \A f \in DOMAIN origin : origin[f] = c => facts[f].status \notin InCanon

\* A candidate in validation is in the hands of a run that can end or be
\* cancelled, or of a request in flight; state-machines.md 3.3 and 5.1 make an
\* interrupted validation Failed.
ValidatingNotStranded ==
  \A c \in DOMAIN cands :
    cands[c].status = "Validating"
      => \/ \E r \in DOMAIN runs : /\ c \in runs[r].cands
                                   /\ runs[r].state \in {"Queued", "Running"}
         \/ \E w \in Worker :
              \/ c \in task[w].todo
              \/ At(w, "select") /\ c \in runs[task[w].run].cands

=============================================================================
