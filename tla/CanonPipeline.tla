---------------------------- MODULE CanonPipeline ----------------------------
(***************************************************************************)
(* From extracted candidate to Canon: the candidate changes and validation *)
(* runs of one scene on top of the ledger.  Extracted candidates are       *)
(* validated against Canon, the human editor approves or rejects them, and *)
(* an approved one is submitted, which writes the fact.  The direct Canon  *)
(* API of CanonLedger stays open beside the loop.                          *)
(*                                                                         *)
(* One handler is one action, as if requests came one at a time: this is   *)
(* what the code promises, and CanonThreads is checked to implement it     *)
(* when it runs with one worker that does not crash.                       *)
(***************************************************************************)
EXTENDS CanonLedger

CONSTANTS
  Candidate,   \* ids of candidate changes
  RunId,       \* ids of validation runs
  Text,        \* what each candidate states, see CandidateText
  Asked,       \* the facts that a submit request may name to be superseded
  NoSnapshot   \* Python None, for a snapshot id

\* mentions: the entity names the rule engine finds in the candidate
CandidateText ==
  [subject: EntityName, mentions: SUBSET EntityName,
   predicate: Predicate, value: Value, time: StoryTime]

ASSUME PipelineAssumption ==
  /\ Text \in [Candidate -> CandidateText]
  /\ Asked \subseteq FactId
  /\ NoSnapshot \notin SnapshotId

VARIABLES
  cands,   \* candidate id -> CandidateRow
  runs,    \* run id -> Run
  autoRun  \* validation_auto_run, a setting of the process: a triggered run
           \* is executed at once

pipelineVars == <<entities, facts, snapshots, cands, runs, autoRun>>

-----------------------------------------------------------------------------
(* Rows *)

CandStatus ==
  {"Extracted", "Validating", "FailedValidation", "Failed",
   "AwaitingVerdict", "Approved", "Rejected", "Submitted"}
RunState == {"Queued", "Running", "Passed", "RuleFailed", "ExecFailed", "Cancelled"}
Outcome == {"Passed", "RuleFailed", "ExecFailed"}

CandidateRow ==
  [status: CandStatus, verdict: {"None", "Approve", "Reject"},
   fact: FactId \cup {NoFact}, superseded: FactId \cup {NoFact}]

Run ==
  [state: RunState, cands: SUBSET Candidate,
   snapshot: SnapshotId \cup {NoSnapshot}]

PipelineTypeOK ==
  /\ LedgerTypeOK
  /\ DOMAIN cands \subseteq Candidate
  /\ cands \in [DOMAIN cands -> CandidateRow]
  /\ DOMAIN runs \subseteq RunId
  /\ runs \in [DOMAIN runs -> Run]
  /\ autoRun \in BOOLEAN

PipelineInit ==
  /\ LedgerInit
  /\ cands = EmptyTable
  /\ runs = EmptyTable
  /\ autoRun \in BOOLEAN

NewCandidate ==
  [status |-> "Extracted", verdict |-> "None", fact |-> NoFact, superseded |-> NoFact]

\* _move_candidates: overwrite the status of every listed candidate.
Move(S, status) ==
  [c \in DOMAIN cands |->
     IF c \in S THEN [cands[c] EXCEPT !.status = status] ELSE cands[c]]

-----------------------------------------------------------------------------
(* The rule engine *)

\* _load_canon: the rows a snapshot names, whatever their status is by now,
\* or the facts in effect when the run names no snapshot.
CanonSeenBy(sn) ==
  IF sn = NoSnapshot THEN ActiveAsOf(NoTime)
  ELSE snapshots[sn].fact_ids \cap DOMAIN facts

Contradicts(f, c) ==
  /\ facts[f].entity \in DOMAIN entities
  /\ entities[facts[f].entity].name \in Text[c].mentions
  /\ facts[f].predicate = Text[c].predicate
  /\ facts[f].value # Text[c].value

CanonConflict(S, sn) == \E c \in S : \E f \in CanonSeenBy(sn) : Contradicts(f, c)

\* Executing the rules over S.  forbidden: a must_not_write line of the Story
\* Spec, which is not modelled, occurs in a candidate; crashed: the rules raised.
OutcomeOf(S, sn, forbidden, crashed) ==
  CASE crashed -> "ExecFailed"
    [] ~crashed /\ (forbidden \/ CanonConflict(S, sn)) -> "RuleFailed"
    [] OTHER -> "Passed"

StatusAfter(outcome) ==
  CASE outcome = "Passed" -> "AwaitingVerdict"
    [] outcome = "RuleFailed" -> "FailedValidation"
    [] OTHER -> "Failed"

-----------------------------------------------------------------------------
(* Handlers *)

\* A succeeding extract job persists its batch of candidates.
PersistExtracted(S) ==
  /\ S # {} /\ S \subseteq Candidate \ DOMAIN cands
  /\ cands' = [c \in DOMAIN cands \cup S |-> IF c \in S THEN NewCandidate ELSE cands[c]]
  /\ UNCHANGED <<ledgerVars, runs>>

MayValidate_AnyStatus(S, sn) ==
  /\ S # {} /\ S \subseteq DOMAIN cands
  /\ sn # NoSnapshot => sn \in DOMAIN snapshots /\ snapshots[sn].frozen

MayValidate(S, sn) ==
  /\ S # {} /\ S \subseteq DOMAIN cands
  /\ \A c \in S : cands[c].status = "Extracted"
  /\ sn # NoSnapshot => sn \in DOMAIN snapshots /\ snapshots[sn].frozen

TriggerRun(r, S, sn, forbidden, crashed) ==
  /\ r \in RunId \ DOMAIN runs
  /\ MayValidate(S, sn)
  /\ LET outcome == OutcomeOf(S, sn, forbidden, crashed)
         state == IF autoRun THEN outcome ELSE "Queued"
     IN /\ runs' = Put(runs, r, [state |-> state, cands |-> S, snapshot |-> sn])
        /\ cands' = Move(S, IF autoRun THEN StatusAfter(outcome) ELSE "Validating")
  /\ UNCHANGED ledgerVars

StillValidating(S) ==
  {c \in S \cap DOMAIN cands : cands[c].status = "Validating"}

CancelRun(r) ==
  /\ r \in DOMAIN runs
  /\ runs[r].state \in {"Queued", "Running"}
  /\ runs' = Put(runs, r, [runs[r] EXCEPT !.state = "Cancelled"])
  /\ cands' = Move(StillValidating(runs[r].cands), "Extracted")
  /\ UNCHANGED ledgerVars

\* _record_verdict
Verdict(c, status, verdict) ==
  Put(cands, c, [cands[c] EXCEPT !.status = status, !.verdict = verdict])

ApproveCandidate_FailedToo(c) ==
  /\ c \in DOMAIN cands
  /\ cands[c].status \in {"AwaitingVerdict", "Failed"}
  /\ cands' = Verdict(c, "Approved", "Approve")
  /\ UNCHANGED <<ledgerVars, runs>>

ApproveCandidate(c) ==
  /\ c \in DOMAIN cands
  /\ cands[c].status = "AwaitingVerdict"
  /\ cands' = Verdict(c, "Approved", "Approve")
  /\ UNCHANGED <<ledgerVars, runs>>

RejectCandidate(c) ==
  /\ c \in DOMAIN cands
  /\ cands[c].status \in {"AwaitingVerdict", "Approved"}
  /\ cands' = Verdict(c, "Rejected", "Reject")
  /\ UNCHANGED <<ledgerVars, runs>>

\* _resolve_entity: the entity the request names (or the only one with the
\* subject's name), or a new one when none has it: the tables it may leave.
EntitiesAfter(c, e) ==
  IF e \in DOMAIN entities THEN {entities}
  ELSE {Put(entities, e, [name |-> Text[c].subject, type |-> y]) :
          y \in {z \in EntityType :
                   \A x \in DOMAIN entities : entities[x].name # Text[c].subject}}

SupersedeTarget_OnlyAsked(c, e, asked) == {asked}

\* _commit_canon: the fact to supersede is the one the request names, or the
\* first one in effect for the entity and predicate, or none.
SupersedeTarget(c, e, asked) ==
  LET matching == InEffect(e, Text[c].predicate)
  IN CASE asked # NoFact -> {asked}
       [] asked = NoFact /\ matching # {} -> Earliest(matching)
       [] OTHER -> {NoFact}

TargetUsable(old) == old # NoFact => old \in DOMAIN facts /\ facts[old].status = "Active"

Committed(c, e, f, old) ==
  LET new == NewFact(e, Text[c].predicate, Text[c].value, Text[c].time, "Active", old)
  IN IF old = NoFact THEN Put(facts, f, new) ELSE Put(Retired(old, f), f, new)

SubmitCandidate_ForgetsOld(c, e, asked, f) ==
  /\ c \in DOMAIN cands
  /\ cands[c].status = "Approved"
  /\ f \in FactId \ DOMAIN facts
  /\ entities' \in EntitiesAfter(c, e)
  /\ \E old \in SupersedeTarget(c, e, asked) :
       /\ TargetUsable(old)
       /\ facts' = Committed(c, e, f, old)
       /\ cands' = Put(cands, c, [cands[c] EXCEPT !.status = "Submitted", !.fact = f])
  /\ UNCHANGED <<snapshots, runs>>

SubmitCandidate(c, e, asked, f) ==
  /\ c \in DOMAIN cands
  /\ cands[c].status = "Approved"
  /\ f \in FactId \ DOMAIN facts
  /\ entities' \in EntitiesAfter(c, e)
  /\ \E old \in SupersedeTarget(c, e, asked) :
       /\ TargetUsable(old)
       /\ facts' = Committed(c, e, f, old)
       /\ cands' = Put(cands, c, [cands[c] EXCEPT !.status = "Submitted",
                                                  !.fact = f, !.superseded = old])
  /\ UNCHANGED <<snapshots, runs>>

\* The request names a fact that cannot be superseded: the handler has already
\* resolved, and maybe created, the entity when supersede_fact refuses.
SubmitRefused(c, e, asked) ==
  /\ c \in DOMAIN cands
  /\ cands[c].status = "Approved"
  /\ asked # NoFact /\ ~TargetUsable(asked)
  /\ entities' \in EntitiesAfter(c, e)
  /\ UNCHANGED <<facts, snapshots, cands, runs>>

-----------------------------------------------------------------------------

CanonApi == LedgerNext /\ UNCHANGED <<cands, runs>>

PipelineNext ==
  /\ \/ CanonApi
     \/ \E S \in SUBSET Candidate : PersistExtracted(S)
     \/ \E r \in RunId, S \in SUBSET Candidate, sn \in SnapshotId \cup {NoSnapshot},
           forbidden, crashed \in BOOLEAN : TriggerRun(r, S, sn, forbidden, crashed)
     \/ \E r \in RunId : CancelRun(r)
     \/ \E c \in Candidate : ApproveCandidate(c)
     \/ \E c \in Candidate : RejectCandidate(c)
     \/ \E c \in Candidate, e \in EntityId, asked \in Asked \cup {NoFact}, f \in FactId :
          SubmitCandidate(c, e, asked, f)
     \/ \E c \in Candidate, e \in EntityId, asked \in Asked : SubmitRefused(c, e, asked)
  /\ UNCHANGED autoRun

PipelineSpec == PipelineInit /\ [][PipelineNext]_pipelineVars

-----------------------------------------------------------------------------
(* Properties *)

\* A run and the candidates it validated never contradict each other: what a
\* Passed run checked went on to the verdict, what a failed run checked did
\* not, and what a queued run holds waits for it (validation _run, cancel_run).
StatusesOf(state) ==
  CASE state \in {"Queued", "Running"} -> {"Validating"}
    [] state = "Passed" -> {"AwaitingVerdict", "Approved", "Rejected", "Submitted"}
    [] state = "RuleFailed" -> {"FailedValidation"}
    [] state = "ExecFailed" -> {"Failed"}
    [] OTHER -> CandStatus

RunsAgree ==
  \A r \in DOMAIN runs : \A c \in runs[r].cands :
    c \in DOMAIN cands /\ cands[c].status \in StatusesOf(runs[r].state)

\* Nothing reaches the verdict, or Canon, that no run has passed.
VerdictNeedsPassedRun ==
  \A c \in DOMAIN cands :
    cands[c].status \in StatusesOf("Passed")
      => \E r \in DOMAIN runs : runs[r].state = "Passed" /\ c \in runs[r].cands

\* A Submitted candidate was approved by the editor and has exactly one fact
\* of its own in Canon, saying what the candidate says; the fact it replaced
\* names that fact (approval_service submit).  It is proved, and not run: CanonThreads
\* checks the like of it step by step (SubmittedIsWritten).
SubmittedBacked ==
  \A c \in DOMAIN cands :
    /\ cands[c].status # "Submitted" => cands[c].fact = NoFact
    /\ cands[c].status = "Submitted" =>
         LET f == cands[c].fact
             old == cands[c].superseded
         IN /\ cands[c].verdict = "Approve"
            /\ f \in DOMAIN facts
            /\ facts[f].status \in InCanon
            /\ facts[f].predicate = Text[c].predicate
            /\ facts[f].value = Text[c].value
            /\ facts[f].supersedes = old

\* Canon moves with a candidate in one step and only on submit: that step adds
\* one fact, in effect, retires at most one, and no other step of a candidate
\* touches a fact ("Approve does not write Canon").
CommitIsWhole ==
  [][\A c \in DOMAIN cands :
       cands'[c] # cands[c] =>
         LET added == DOMAIN facts' \ DOMAIN facts
             retired == {f \in DOMAIN facts : facts'[f] # facts[f]}
         IN IF cands'[c].status = "Submitted"
            THEN /\ added = {cands'[c].fact}
                 /\ facts'[cands'[c].fact].status = "Active"
                 /\ retired = {cands'[c].superseded} \ {NoFact}
            ELSE added = {} /\ retired = {}
    ]_pipelineVars

\* domain-glossary.md: a candidate in conflict with Canon must not enter
\* approval.  No run checks this, as the code does not keep it: the conflict is
\* looked for when the validation run is executed only.
ApprovedWithoutConflict ==
  [][\A c \in DOMAIN cands :
       cands[c].status = "AwaitingVerdict" /\ cands'[c].status = "Approved"
         => ~CanonConflict({c}, NoSnapshot)
    ]_pipelineVars

=============================================================================
