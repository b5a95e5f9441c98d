------------------------------ MODULE Release ------------------------------
(***************************************************************************)
(* Release checks, their eight gates, manifests and exports                *)
(* (release/service.py, release/gates.py), over what they read: drafts,    *)
(* candidates and the reports about them, repairs, chapter summaries.      *)
(*                                                                         *)
(* A check is three steps, since other requests are served while it runs:  *)
(* it is stored, it lists what the targets have, and the gates look at     *)
(* that.  What it listed are the stored rows, seen as they are by then.    *)
(* A cancellation is two: it reads the status, and writes it later.  What  *)
(* a check reads is moved in single steps: Writing, CanonPipeline and      *)
(* ReviewRepair have how.  An approval or a style validation that was      *)
(* begun after the listing is not in it, and a gate fails for want of it:  *)
(* one more way to fail, where a check may fail at any time (openBlocker). *)
(* The audit gate never fails: the check has just been audited.  Reports   *)
(* of one scene are taken to differ in their timestamps.                   *)
(*                                                                         *)
(* An operator named X_Y is a mutant of X that the properties catch.       *)
(***************************************************************************)
EXTENDS Naturals, Sequences, SequencesExt

CONSTANTS
  Chapter,
  Scene,
  ChapterOf,   \* scene -> its chapter
  MaxDrafts,   \* bounds of the model: drafts,
  MaxDigests,  \* chapter summaries,
  MaxReports,  \* candidates, each validated once,
  MaxRepairs,  \* repairs of these,
  MaxDues,     \* foreshadowing items,
  MaxChecks,   \* checks,
  MaxCancels,  \* cancellations under way of one check
  MaxExports   \* and exports

ASSUME ReleaseAssumption ==
  /\ ChapterOf \in [Scene -> Chapter]
  /\ {MaxDrafts, MaxDigests, MaxReports, MaxRepairs, MaxDues, MaxChecks, MaxCancels,
      MaxExports} \subseteq Nat

VARIABLES
  drafts,   \* drafts of all scenes, oldest first
  digests,  \* chapter summaries, oldest first
  cands,    \* candidates that were validated, in the order of their reports
  repairs,  \* repair tasks, oldest first
  dues,     \* foreshadowing items
  safety,   \* whether a safety check or a waiver of one is on record
  checks,   \* release checks, oldest first
  exports   \* formal exports, oldest first

sources == <<drafts, digests, cands, repairs>>
releaseVars == <<drafts, digests, cands, repairs, dues, safety, checks, exports>>

-----------------------------------------------------------------------------
(* Records *)

CandStatus == {"FailedValidation", "Failed", "AwaitingVerdict", "Approved", "Rejected", "Submitted"}

\* A task is open until its recheck passes, it is cancelled, or it has rejected
\* the candidate.
RepairState == {"Open", "RecheckPassed", "Cancelled", "HasRejected"}

DueStatus == {"due", "handled", "waived"}

CheckStatus == {"running", "passed", "failed", "cancelled"}
CheckTerminal == {"passed", "failed", "cancelled"}

\* What a check has yet to do, or "nothing": it is over or an exception ended it.
Step == {"list", "gate", "nothing"}

NoManifest == [drafts |-> {}, digests |-> {}]

\* Drafts, summaries, reports and repairs are named by their places.
Listing == [drafts: SUBSET Nat, digests: SUBSET Nat]

\* reports and repairs: how many of them the list was taken from.  digests, dues
\* and safety are what it has of the others, dropped when the gates are done.
Check ==
  [status: CheckStatus, step: Step, scenes: SUBSET Scene, chapters: SUBSET Chapter,
   drafts: SUBSET Nat, reports: Nat, repairs: Nat,
   digests: SUBSET Nat, dues: Nat, safety: BOOLEAN,
   cancels: Nat,   \* cancellations that have read the status
   manifest: Listing]

ReleaseTypeOK ==
  /\ drafts \in Seq([scene: Scene, live: BOOLEAN, approved: BOOLEAN, styled: BOOLEAN])
  /\ digests \in Seq([chapter: Chapter, live: BOOLEAN])
  /\ cands \in Seq([scene: Scene, blocking: BOOLEAN, status: CandStatus])
  /\ repairs \in Seq([report: DOMAIN cands, state: RepairState])
  /\ dues \in Seq([scope: {"book"} \cup Scene \cup Chapter, status: DueStatus])
  /\ safety \in BOOLEAN
  /\ checks \in Seq(Check)
  /\ \A k \in DOMAIN checks :
       /\ checks[k].drafts \subseteq DOMAIN drafts
       /\ checks[k].reports <= Len(cands) /\ checks[k].repairs <= Len(repairs)
       /\ checks[k].status = "passed" => checks[k].manifest # NoManifest
       /\ checks[k].manifest # NoManifest => checks[k].status \in {"passed", "cancelled"}
  /\ exports \in Seq([check: Nat, drafts: SUBSET Nat, digests: SUBSET Nat])
  /\ \A e \in DOMAIN exports : exports[e].check \in DOMAIN checks

ReleaseInit ==
  /\ drafts = <<>> /\ digests = <<>> /\ cands = <<>> /\ repairs = <<>>
  /\ dues = <<>> /\ safety = FALSE
  /\ checks = <<>> /\ exports = <<>>

-----------------------------------------------------------------------------
(* What is released *)

\* The newest draft of a scene that was not superseded; a scene may have none.
CurrentDrafts(S) ==
  {d \in DOMAIN drafts :
     /\ drafts[d].scene \in S /\ drafts[d].live
     /\ \A e \in DOMAIN drafts : drafts[e].scene = drafts[d].scene /\ drafts[e].live => e <= d}

\* A new draft supersedes the current one of its scene, unless candidates were
\* extracted from that, which then stays beside it.
NewDraft(s, extracted) ==
  /\ Len(drafts) < MaxDrafts
  /\ drafts' = Append([d \in DOMAIN drafts |->
                         [drafts[d] EXCEPT !.live = @ /\ (d \in CurrentDrafts({s}) => extracted)]],
                      [scene |-> s, live |-> TRUE, approved |-> FALSE, styled |-> FALSE])
  /\ UNCHANGED <<digests, cands, repairs>>

\* The editor approves the draft's item in the review queue.
ApproveDraft(d) ==
  /\ drafts' = [drafts EXCEPT ![d].approved = TRUE]
  /\ UNCHANGED <<digests, cands, repairs>>

\* A style validation of the draft succeeds.
StyleDraft(d) ==
  /\ drafts' = [drafts EXCEPT ![d].styled = TRUE]
  /\ UNCHANGED <<digests, cands, repairs>>

NewDigest(c) ==
  /\ Len(digests) < MaxDigests
  /\ digests' = Append([g \in DOMAIN digests |->
                          [digests[g] EXCEPT !.live = @ /\ digests[g].chapter # c]],
                       [chapter |-> c, live |-> TRUE])
  /\ UNCHANGED <<drafts, cands, repairs>>

\* The rules fail a candidate, pass it, or cannot be evaluated, and there is a
\* report in any case; that of a failure has violations that block.  Reports about
\* several candidates, and a second validation of one, are left out.
Validate(s, outcome) ==
  /\ Len(cands) < MaxReports
  /\ cands' = Append(cands,
       [scene |-> s, blocking |-> outcome = "FailedValidation", status |-> outcome])
  /\ UNCHANGED <<drafts, digests, repairs>>

Verdict(i, st) ==
  /\ \/ cands[i].status = "AwaitingVerdict" /\ st \in {"Approved", "Rejected"}
     \/ cands[i].status = "Approved" /\ st \in {"Rejected", "Submitted"}
  /\ cands' = [cands EXCEPT ![i].status = st]
  /\ UNCHANGED <<drafts, digests, repairs>>

OpenRepair(i) ==
  /\ cands[i].blocking
  /\ Len(repairs) < MaxRepairs
  /\ repairs' = Append(repairs, [report |-> i, state |-> "Open"])
  /\ UNCHANGED <<drafts, digests, cands>>

\* Only the repair that rejects moves the candidate it is about.
EndRepair(t, st) ==
  /\ repairs[t].state = "Open"
  /\ st \in RepairState \ {"Open"}
  /\ st = "HasRejected" => cands[repairs[t].report].status = "FailedValidation"
  /\ repairs' = [repairs EXCEPT ![t].state = st]
  /\ cands' = IF st = "HasRejected"
              THEN [cands EXCEPT ![repairs[t].report].status = "Rejected"]
              ELSE cands
  /\ UNCHANGED <<drafts, digests>>

SourcesMove ==
  /\ \/ \E s \in Scene, extracted \in BOOLEAN : NewDraft(s, extracted)
     \/ \E s \in Scene, st \in {"FailedValidation", "Failed", "AwaitingVerdict"} : Validate(s, st)
     \/ \E d \in DOMAIN drafts : ApproveDraft(d) \/ StyleDraft(d)
     \/ \E c \in Chapter : NewDigest(c)
     \/ \E i \in DOMAIN cands : OpenRepair(i) \/ \E st \in CandStatus : Verdict(i, st)
     \/ \E t \in DOMAIN repairs, st \in RepairState : EndRepair(t, st)
  /\ UNCHANGED <<dues, safety, checks, exports>>

CreateDueItem(scope) ==
  /\ Len(dues) < MaxDues
  /\ dues' = Append(dues, [scope |-> scope, status |-> "due"])
  /\ UNCHANGED safety

\* The status the item had is not looked at.
HandleDueItem(i) == dues' = [dues EXCEPT ![i].status = "handled"] /\ UNCHANGED safety
WaiveDueItem(i) == dues' = [dues EXCEPT ![i].status = "waived"] /\ UNCHANGED safety

\* Recorded or waived: the gate makes no difference.
RecordSafetyCheck == safety' = TRUE /\ UNCHANGED dues

Editor ==
  /\ \/ \E scope \in {"book"} \cup Scene \cup Chapter : CreateDueItem(scope)
     \/ \E i \in DOMAIN dues : HandleDueItem(i) \/ WaiveDueItem(i)
     \/ RecordSafetyCheck
  /\ UNCHANGED <<sources, checks, exports>>

-----------------------------------------------------------------------------
(* A check *)

\* The scenes asked for and those of the chapters asked for, or all of them.
TargetScenes(S, C) ==
  IF S \cup C = {} THEN Scene ELSE S \cup {s \in Scene : ChapterOf[s] \in C}

TargetChapters(S, C) == C \cup {ChapterOf[s] : s \in TargetScenes(S, C)}

CurrentDigests(C) == {g \in DOMAIN digests : digests[g].chapter \in C /\ digests[g].live}

StartCheck(S, C) ==
  /\ Len(checks) < MaxChecks
  /\ checks' = Append(checks,
       [status |-> "running", step |-> "list",
        scenes |-> TargetScenes(S, C), chapters |-> TargetChapters(S, C),
        drafts |-> {}, reports |-> 0, repairs |-> 0,
        digests |-> {}, dues |-> 0, safety |-> FALSE,
        cancels |-> 0, manifest |-> NoManifest])
  /\ UNCHANGED exports

ListTargets(k) ==
  /\ checks[k].step = "list"
  /\ checks' = [checks EXCEPT ![k].step = "gate",
       ![k].drafts = CurrentDrafts(checks[k].scenes),
       ![k].reports = Len(cands),
       ![k].repairs = Len(repairs),
       ![k].digests = CurrentDigests(checks[k].chapters),
       ![k].dues = Len(dues),
       ![k].safety = safety]
  /\ UNCHANGED exports

\* What check k listed of each kind.
Reports(k) == {i \in 1 .. checks[k].reports : cands[i].scene \in checks[k].scenes}

Repairs(k) == {t \in 1 .. checks[k].repairs : cands[repairs[t].report].scene \in checks[k].scenes}

LatestReports(k) ==
  {i \in Reports(k) : \A j \in Reports(k) : cands[j].scene = cands[i].scene => j <= i}

\* As if a repair under way were enough.
ViolationsHandled_Opened(k, i) ==
  \/ cands[i].status # "FailedValidation"
  \/ \E t \in Repairs(k) : repairs[t].report = i

ViolationsHandled(k, i) ==
  \/ cands[i].status # "FailedValidation"
  \/ \E t \in Repairs(k) : repairs[t].report = i /\ repairs[t].state = "RecheckPassed"

RepairStillOpen(k, t) == repairs[t].state = "Open" /\ ~ViolationsHandled(k, repairs[t].report)

DraftsHumanApproved(k) ==
  /\ checks[k].drafts # {}
  /\ \A d \in checks[k].drafts : drafts[d].approved

\* Of the reports the newest of each scene counts.  openBlocker: the review queue
\* holds an open item that blocks.
NoUnhandledBlockers(k, openBlocker) ==
  /\ \A i \in LatestReports(k) : cands[i].blocking => ViolationsHandled(k, i)
  /\ ~openBlocker
  /\ \A t \in Repairs(k) : ~RepairStillOpen(k, t)

\* Only a candidate approved and not submitted yet is unresolved.
CandidatesResolved(k) == \A i \in Reports(k) : cands[i].status # "Approved"

ChapterSummaries(k) ==
  /\ checks[k].chapters # {}
  /\ \A c \in checks[k].chapters : \E g \in checks[k].digests : digests[g].chapter = c

Foreshadowing(k) ==
  \A i \in 1 .. checks[k].dues :
    dues[i].scope \in {"book"} \cup checks[k].scenes \cup checks[k].chapters
      => dues[i].status # "due"

StyleAndSafety(k) == checks[k].safety /\ \A d \in checks[k].drafts : drafts[d].styled

AllGates(k, openBlocker, frozen) ==
  /\ DraftsHumanApproved(k)
  /\ NoUnhandledBlockers(k, openBlocker)
  /\ CandidatesResolved(k)
  /\ frozen
  /\ ChapterSummaries(k)
  /\ Foreshadowing(k)
  /\ StyleAndSafety(k)

Manifest(k) == [drafts |-> checks[k].drafts, digests |-> checks[k].digests]

\* The thread of check k is done with it.
Ended(k) ==
  [checks[k] EXCEPT !.step = "nothing", !.digests = {}, !.dues = 0, !.safety = FALSE]

\* frozen: the snapshot named exists and is frozen.  The outcome is written
\* whatever the status has become meanwhile.
FinishCheck(k, openBlocker, frozen) ==
  /\ checks[k].step = "gate"
  /\ checks' = [checks EXCEPT ![k] =
       IF AllGates(k, openBlocker, frozen)
       THEN [Ended(k) EXCEPT !.status = "passed", !.manifest = Manifest(k)]
       ELSE [Ended(k) EXCEPT !.status = "failed"]]
  /\ UNCHANGED exports

\* An exception, as of a list that grows while it is read, ends the request: the
\* check stays running.
CheckDies(k) ==
  /\ checks[k].step # "nothing"
  /\ checks' = [checks EXCEPT ![k] = Ended(k)]
  /\ UNCHANGED exports

\* cancel_check refuses a check that is over ...
ReadCancel(k) ==
  /\ checks[k].status \notin CheckTerminal
  /\ checks[k].cancels < MaxCancels
  /\ checks' = [checks EXCEPT ![k].cancels = @ + 1]
  /\ UNCHANGED exports

\* ... and does not look again: the gates may have ended meanwhile.
WriteCancel(k) ==
  /\ checks[k].cancels > 0
  /\ checks' = [checks EXCEPT ![k].cancels = @ - 1, ![k].status = "cancelled"]
  /\ UNCHANGED exports

\* As if the drafts were looked up anew.
ExportedDrafts_Current(k) == CurrentDrafts(checks[k].scenes)

ExportedDrafts(k) == checks[k].drafts

\* As if the manifest were made anew with the summaries it is exported with.
Export_Remade(k) ==
  /\ Len(exports) < MaxExports
  /\ checks[k].status = "passed"
  /\ exports' = Append(exports,
       [check |-> k, drafts |-> ExportedDrafts(k),
        digests |-> CurrentDigests(checks[k].chapters)])
  /\ checks' = [checks EXCEPT ![k].manifest.digests = CurrentDigests(checks[k].chapters)]

\* The chapter summaries, unlike the drafts, are those of the day.
Export(k) ==
  /\ Len(exports) < MaxExports
  /\ checks[k].status = "passed"
  /\ exports' = Append(exports,
       [check |-> k, drafts |-> ExportedDrafts(k),
        digests |-> CurrentDigests(checks[k].chapters)])
  /\ UNCHANGED checks

ReleaseRequests ==
  /\ \/ \E S \in SUBSET Scene, C \in SUBSET Chapter : StartCheck(S, C)
     \/ \E k \in DOMAIN checks :
          \/ ListTargets(k) \/ CheckDies(k) \/ ReadCancel(k) \/ WriteCancel(k) \/ Export(k)
          \/ \E openBlocker, frozen \in BOOLEAN : FinishCheck(k, openBlocker, frozen)
  /\ UNCHANGED <<sources, dues, safety>>

ReleaseNext == SourcesMove \/ Editor \/ ReleaseRequests

ReleaseSpec == ReleaseInit /\ [][ReleaseNext]_releaseVars

-----------------------------------------------------------------------------
(* Properties *)

\* What leaves the house was approved: the manifest of a check that has passed and
\* every export of it hold the same drafts, one of a scene at most, each approved
\* by the editor and checked for style, though drafts are superseded and approved
\* while the check runs and after it; and what failed the last validation the
\* check knew of was rejected or repaired.  A cancellation that comes too late
\* changes nothing of that.
ReleasedIsApproved ==
  /\ \A k \in DOMAIN checks :
       LET made == checks[k].manifest
       IN made # NoManifest =>
         /\ made.drafts # {}
         /\ \A d \in made.drafts :
              /\ drafts[d].scene \in checks[k].scenes
              /\ drafts[d].approved /\ drafts[d].styled
              /\ \A e \in made.drafts : drafts[e].scene = drafts[d].scene => e = d
         /\ \A i \in LatestReports(k) : cands[i].status = "FailedValidation" =>
              \E t \in DOMAIN repairs : repairs[t] = [report |-> i, state |-> "RecheckPassed"]
  /\ \A e \in DOMAIN exports :
       LET made == checks[exports[e].check].manifest
       IN made # NoManifest /\ exports[e].drafts = made.drafts

\* The gates speak once: a check that has passed or failed gets no other outcome,
\* and its manifest and the drafts it stands for never change, whatever is
\* exported, superseded or checked afterwards.  Only a cancellation that read the
\* status before the gates were done may still be written over it.
OutcomeStands ==
  [][\A k \in DOMAIN checks : checks[k].status \in {"passed", "failed"} =>
       /\ \/ checks'[k].status = checks[k].status
          \/ checks'[k].status = "cancelled" /\ checks[k].cancels > 0
       /\ checks'[k].manifest = checks[k].manifest
       /\ checks'[k].drafts = checks[k].drafts]_releaseVars

\* release/service.py, of a manifest that is asked for: "A Release Manifest exists
\* only for a passed check."  No run checks it: a
\* cancellation written after the gates have passed the check leaves it cancelled,
\* with its manifest.
ManifestOnlyIfPassed ==
  \A k \in DOMAIN checks : checks[k].manifest # NoManifest => checks[k].status = "passed"
=============================================================================
