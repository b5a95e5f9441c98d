----------------------------- MODULE DagProofs -----------------------------
(***************************************************************************)
(* The DAG of a scene, and the scheduler that creates DAGs.                *)
(*                                                                         *)
(* What SceneDag keeps for any number of candidates and of threads, while  *)
(* requests on the DAG are served one at a time (~Overlap): DagInv says    *)
(* what a node under way rests on, and what the request that is being      *)
(* served may rely on between its steps.                                   *)
(*                                                                         *)
(* What Scheduler keeps for any book, limits and number of DAGs: SchedInv  *)
(* for any number of ticking threads, and AloneInv, which says how a plan  *)
(* goes on to fit the run it was made for, for one.                        *)
(***************************************************************************)
EXTENDS SceneDag, Scheduler, FiniteSetTheorems, SequenceTheorems, TLAPS

-----------------------------------------------------------------------------
(* The inductive invariant *)

Pc == {"idle", "scan", "next", "work", "review", "commit", "decide"}
Decision == {"none", "approve", "reject"}

Request ==
  [pc: Pc, todo: SUBSET NodeId, node: NodeId \cup {NoNode}, left: SUBSET Candidate,
   moved: BOOLEAN, decision: Decision]

\* A node that was started, or may be, or has ended well.
UnderWay == {"ready", "running", "waiting_human", "succeeded"}

RestsOn(n) == \A d \in Dependencies(n) : nodes[d] = "succeeded"

\* What a node rests on stands; one whose output was taken over has succeeded
\* by that alone.
NodesStand ==
  /\ reused \subseteq Reusable
  /\ \A n \in reused : nodes[n] = "succeeded"
  /\ \A n \in NodeId \ reused : nodes[n] \in UnderWay => RestsOn(n)

ApprovalStands == nodes["canon_commit"] \in {"running", "succeeded"} => dag.decision = "approve"

\* The node that a request works on, if it is in the middle of one.
Serving(t) ==
  CASE t.pc = "work" -> t.node
    [] t.pc \in {"review", "decide"} -> "human_review"
    [] t.pc = "commit" -> "canon_commit"
    [] OTHER -> NoNode

\* What the request has seen is still so when it goes on.
RequestStands(t) ==
  /\ t.pc = "work" => t.node \in NodeId \ {"human_review", "canon_commit"}
  /\ Serving(t) # NoNode => nodes[Serving(t)] = "running" /\ ~Blocked
  /\ t.pc # "idle" /\ ~Blocked => \A n \in t.todo : nodes[n] = "ready"
  /\ t.pc = "commit" => \A c \in frozen \ t.left : cands[c] = "Submitted"
  /\ t.pc = "decide" => t.decision \in {"approve", "reject"}

OneRequest == \A v, w \in Worker : ~At(v, "idle") /\ ~At(w, "idle") => v = w

DagInv ==
  /\ DagTypeOK
  /\ task \in [Worker -> Request]
  /\ NodesStand
  /\ ApprovalStands
  /\ CommittedAll
  /\ OneRequest
  /\ \A w \in Worker : RequestStands(task[w])

-----------------------------------------------------------------------------
(* The graph *)

LEMMA TenNodes ==
  NodeId = {"context_pack", "scene_plan", "plan_validation", "scene_draft",
            "candidate_extraction", "draft_validation", "human_review", "canon_commit",
            "summary", "downstream_unblock"}
<1>1. DOMAIN NodeIds = 1 .. 10
  BY DEF NodeIds
<1>2. NodeId = {NodeIds[1], NodeIds[2], NodeIds[3], NodeIds[4], NodeIds[5],
                NodeIds[6], NodeIds[7], NodeIds[8], NodeIds[9], NodeIds[10]}
  BY <1>1 DEF NodeId
<1> QED BY <1>2 DEF NodeIds

LEMMA DependenciesAre ==
  /\ Dependencies("context_pack") = {} /\ Dependencies("scene_plan") = {}
  /\ Dependencies("plan_validation") = {"scene_plan"}
  /\ Dependencies("scene_draft") = {"context_pack", "plan_validation"}
  /\ Dependencies("candidate_extraction") = {"scene_draft"}
  /\ Dependencies("draft_validation") = {"scene_draft"}
  /\ Dependencies("human_review") = {"candidate_extraction", "draft_validation"}
  /\ Dependencies("canon_commit") = {"human_review"}
  /\ Dependencies("summary") = {"canon_commit"}
  /\ Dependencies("downstream_unblock") = {"summary"}
BY DEF Dependencies

LEMMA DependenciesAreNodes == \A n \in NodeId : Dependencies(n) \subseteq NodeId
BY TenNodes, DependenciesAre

\* The recursive definition has a solution, as the graph has no cycle.
LEMMA AncestorsExist ==
  \A n \in NodeId : Ancestors[n] = Dependencies(n) \cup UNION {Ancestors[d] : d \in Dependencies(n)}
<1> DEFINE Draft == {"context_pack", "scene_plan", "plan_validation"}
           Extraction == Draft \cup {"scene_draft"}
           Reviewed == Extraction \cup {"candidate_extraction", "draft_validation"}
           Committed == Reviewed \cup {"human_review"}
           Above(n) ==
             CASE n \in {"context_pack", "scene_plan"} -> {}
               [] n = "plan_validation" -> {"scene_plan"}
               [] n = "scene_draft" -> Draft
               [] n \in {"candidate_extraction", "draft_validation"} -> Extraction
               [] n = "human_review" -> Reviewed
               [] n = "canon_commit" -> Committed
               [] n = "summary" -> Committed \cup {"canon_commit"}
               [] n = "downstream_unblock" -> Committed \cup {"canon_commit", "summary"}
           A == [n \in NodeId |-> Above(n)]
           Def(f) == [n \in NodeId |-> Dependencies(n) \cup UNION {f[d] : d \in Dependencies(n)}]
<1>1. /\ A["context_pack"] = {} /\ A["scene_plan"] = {} /\ A["plan_validation"] = {"scene_plan"}
      /\ A["scene_draft"] = Draft
      /\ A["candidate_extraction"] = Extraction /\ A["draft_validation"] = Extraction
      /\ A["human_review"] = Reviewed /\ A["canon_commit"] = Committed
      /\ A["summary"] = Committed \cup {"canon_commit"}
      /\ A["downstream_unblock"] = Committed \cup {"canon_commit", "summary"}
  <2>1. /\ Above("context_pack") = {} /\ Above("scene_plan") = {}
        /\ Above("plan_validation") = {"scene_plan"} /\ Above("scene_draft") = Draft
        /\ Above("candidate_extraction") = Extraction /\ Above("draft_validation") = Extraction
    OBVIOUS
  <2>2. /\ Above("human_review") = Reviewed /\ Above("canon_commit") = Committed
        /\ Above("summary") = Committed \cup {"canon_commit"}
        /\ Above("downstream_unblock") = Committed \cup {"canon_commit", "summary"}
    OBVIOUS
  <2> HIDE DEF Above, Extraction, Reviewed, Committed, Draft
  <2> QED BY <2>1, <2>2, TenNodes
<1> HIDE DEF Above
<1>2. A = [n \in NodeId |-> A[n]]
  OBVIOUS
<1> HIDE DEF A
<1>3. \A n \in NodeId : A[n] = Dependencies(n) \cup UNION {A[d] : d \in Dependencies(n)}
  <2> SUFFICES ASSUME NEW n \in NodeId
               PROVE  A[n] = Dependencies(n) \cup UNION {A[d] : d \in Dependencies(n)}
    OBVIOUS
  <2>1. CASE n \in {"context_pack", "scene_plan"}
    BY <1>1, <2>1, DependenciesAre
  <2>2. CASE n = "plan_validation"
    BY <1>1, <2>2, DependenciesAre
  <2>3. CASE n = "scene_draft"
    BY <1>1, <2>3, DependenciesAre
  <2>4. CASE n \in {"candidate_extraction", "draft_validation"}
    BY <1>1, <2>4, DependenciesAre
  <2>5. CASE n = "human_review"
    BY <1>1, <2>5, DependenciesAre
  <2>6. CASE n = "canon_commit"
    BY <1>1, <2>6, DependenciesAre
  <2>7. CASE n = "summary"
    BY <1>1, <2>7, DependenciesAre
  <2>8. CASE n = "downstream_unblock"
    BY <1>1, <2>8, DependenciesAre
  <2> QED BY <2>1, <2>2, <2>3, <2>4, <2>5, <2>6, <2>7, <2>8, TenNodes
<1>4. A = Def(A)
  BY <1>2, <1>3
<1>5. \E f : f = Def(f)
  BY <1>4
<1>6. Ancestors = Def(Ancestors)
  BY <1>5 DEF Ancestors
<1> QED BY <1>6

LEMMA DescendantsClosed ==
  ASSUME NEW from \in NodeId, NEW n \in NodeId, NEW d \in Dependencies(n), d \in Descendants[from]
  PROVE  n \in Descendants[from]
<1>1. d \in NodeId /\ Descendants[from] = {m \in NodeId : m = from \/ from \in Ancestors[m]}
  BY DependenciesAreNodes DEF Descendants
<1>2. d = from \/ from \in Ancestors[d]
  BY <1>1
<1>3. from \in Ancestors[n]
  BY <1>2, AncestorsExist
<1> QED BY <1>1, <1>3

LEMMA FirstOfIsIn ==
  ASSUME NEW S \in SUBSET NodeId, S # {}
  PROVE  FirstOf(S) \in S
<1> DEFINE Has(i) == NodeIds[i] \in S
<1>1. DOMAIN NodeIds = 1 .. 10
  BY DEF NodeIds
<1>2. \E i \in 1 .. 10 : Has(i)
  BY <1>1 DEF NodeId
<1> HIDE DEF Has
<1>3. \E i \in 1 .. 10 : Has(i) /\ \A j \in 1 .. i - 1 : ~Has(j)
  BY <1>2
<1>4. \E i \in DOMAIN NodeIds : NodeIds[i] \in S /\ \A j \in 1 .. i - 1 : NodeIds[j] \notin S
  BY <1>1, <1>3 DEF Has
<1> QED BY <1>4 DEF FirstOf

-----------------------------------------------------------------------------
(* What a step keeps *)

DagRow == [status: DagStatus, blocker: NodeId \cup {NoNode}, decision: Decision]

NodesGo == nodes' \in [NodeId -> NodeStatus] /\ NodesStand'

CandsGo ==
  /\ DOMAIN cands \subseteq DOMAIN cands'
  /\ DOMAIN cands' \subseteq Candidate
  /\ cands' \in [DOMAIN cands' -> CandStatus]
  /\ frozen' \subseteq DOMAIN cands'

LEMMA Typed ==
  ASSUME DagInv
  PROVE  /\ nodes \in [NodeId -> NodeStatus] /\ dag \in DagRow
         /\ DOMAIN cands \subseteq Candidate /\ cands \in [DOMAIN cands -> CandStatus]
         /\ frozen \subseteq DOMAIN cands
         /\ task \in [Worker -> Request]
         /\ \A w \in Worker : task[w] \in Request /\ task[w].left \subseteq DOMAIN cands
BY DEF DagInv, DagTypeOK, DagRow, Decision

LEMMA Alone ==
  ASSUME ~Overlap, DagInv, NEW w \in Worker, ~At(w, "idle") \/ MayStart(w)
  PROVE  \A v \in Worker : v # w => At(v, "idle")
BY DEF DagInv, OneRequest, MayStart

\* Only w's request moves, so only it has to be looked at.
LEMMA StepKeeps ==
  ASSUME ~Overlap, DagInv, NEW w \in Worker, ~At(w, "idle") \/ MayStart(w),
         NEW t \in Request, Goto(w, t), t.left \subseteq DOMAIN cands',
         dag' \in DagRow, NodesGo, CandsGo, ApprovalStands', CommittedAll', RequestStands(t)'
  PROVE  DagInv'
<1>1. /\ task \in [Worker -> Request]
      /\ \A v \in Worker : task[v].left \subseteq DOMAIN cands
  BY Typed
<1>2. /\ task' \in [Worker -> Request]
      /\ task'[w] = t
      /\ \A v \in Worker : v # w => task'[v] = task[v]
  BY <1>1 DEF Goto
<1>3. \A v \in Worker : v # w => task[v].pc = "idle"
  BY Alone DEF At
<1>4. ASSUME NEW v \in Worker
      PROVE  RequestStands(task[v])' /\ task'[v].left \subseteq DOMAIN cands'
  <2>1. CASE v = w
    <3>1. PICK row : row = task'[v]
      OBVIOUS
    <3>2. RequestStands(row)' /\ row.left \subseteq DOMAIN cands'
      BY <1>2, <2>1, <3>1
    <3> QED BY <3>1, <3>2 DEF RequestStands, Serving, Blocked
  <2>2. CASE v # w
    BY <1>1, <1>2, <1>3, <2>2 DEF RequestStands, Serving, CandsGo
  <2> QED BY <2>1, <2>2
<1>5. OneRequest'
  BY <1>2, <1>3 DEF OneRequest, At
<1>6. DagTypeOK'
  <2>1. reused' \subseteq NodeId
    BY TenNodes DEF NodesGo, NodesStand, Reusable
  <2>2. \A v \in Worker : task'[v] \in Request
    BY <1>2
  <2> QED BY <1>4, <2>1, <2>2 DEF DagTypeOK, NodesGo, CandsGo, DagRow, Decision, Request, Pc
<1> QED BY <1>2, <1>4, <1>5, <1>6 DEF DagInv, NodesGo

\* Node n becomes s, and others at most blocked.
Moves(n, s) ==
  /\ UNCHANGED reused
  /\ nodes' \in [NodeId -> NodeStatus]
  /\ nodes'[n] = s
  /\ \A m \in NodeId \ {n} : nodes'[m] = nodes[m] \/ (nodes[m] \in Open /\ nodes'[m] = "blocked")

LEMMA SetMoves ==
  ASSUME DagInv, UNCHANGED reused, NEW n \in NodeId, NEW s \in NodeStatus,
         nodes' = [nodes EXCEPT ![n] = s]
  PROVE  Moves(n, s)
<1>1. nodes \in [NodeId -> NodeStatus]
  BY Typed
<1>2. nodes' \in [NodeId -> NodeStatus] /\ nodes'[n] = s /\ \A m \in NodeId \ {n} : nodes'[m] = nodes[m]
  BY <1>1
<1> QED BY <1>2 DEF Moves

LEMMA BlockingMoves ==
  ASSUME DagInv, UNCHANGED reused, NEW n \in NodeId, NEW s \in NodeStatus \ Open, NEW S,
         nodes' = BlockedFrom([nodes EXCEPT ![n] = s], S)
  PROVE  Moves(n, s)
<1>1. nodes \in [NodeId -> NodeStatus]
  BY Typed
<1>2. PICK ns : ns = [nodes EXCEPT ![n] = s]
  OBVIOUS
<1>3. ns \in [NodeId -> NodeStatus] /\ ns[n] = s /\ \A m \in NodeId \ {n} : ns[m] = nodes[m]
  BY <1>1, <1>2
<1>4. nodes' = [m \in NodeId |-> IF m \in S /\ ns[m] \in Open THEN "blocked" ELSE ns[m]]
  BY <1>2 DEF BlockedFrom
<1>5. nodes' \in [NodeId -> NodeStatus]
  BY <1>4, <1>3 DEF NodeStatus
<1> QED BY <1>4, <1>5, <1>3 DEF Moves

LEMMA MovesStand ==
  ASSUME DagInv, NEW n \in NodeId, nodes[n] \in UnderWay \ {"succeeded"},
         NEW s \in NodeStatus, Moves(n, s)
  PROVE  NodesGo
<1>1. \A m \in NodeId : nodes[m] = "succeeded" => nodes'[m] = "succeeded"
  BY Typed DEF Moves, Open
<1>2. \A m \in NodeId : nodes'[m] \in UnderWay => nodes[m] \in UnderWay
  BY DEF Moves, UnderWay
<1>3. reused \subseteq NodeId
  BY DEF DagInv, DagTypeOK
<1> QED BY <1>1, <1>2, <1>3, DependenciesAreNodes DEF NodesGo, NodesStand, RestsOn, Moves, DagInv

\* Canon is behind the review, and the review behind the candidates.
LEMMA CommitIsLast ==
  ASSUME DagInv, NEW n \in {"candidate_extraction", "draft_validation", "human_review"},
         nodes[n] # "succeeded"
  PROVE  nodes["canon_commit"] \notin UnderWay
<1>1. {"human_review", "canon_commit"} \subseteq NodeId \ reused
  BY TenNodes DEF DagInv, NodesStand, Reusable
<1>2. nodes["canon_commit"] \in UnderWay => nodes["human_review"] = "succeeded"
  BY <1>1, DependenciesAre DEF DagInv, NodesStand, RestsOn
<1>3. nodes["human_review"] \in UnderWay =>
        nodes["candidate_extraction"] = "succeeded" /\ nodes["draft_validation"] = "succeeded"
  BY <1>1, DependenciesAre DEF DagInv, NodesStand, RestsOn
<1> QED BY <1>2, <1>3 DEF UnderWay

\* Before the commit nothing is claimed of it.
LEMMA BeforeCommit ==
  ASSUME NEW n \in NodeId \ {"canon_commit"}, NEW s, Moves(n, s),
         nodes["canon_commit"] \notin UnderWay
  PROVE  ApprovalStands' /\ CommittedAll'
<1>1. "canon_commit" \in NodeId
  BY TenNodes
<1>2. nodes'["canon_commit"] \notin {"running", "succeeded"}
  BY <1>1 DEF Moves, UnderWay
<1> QED BY <1>2 DEF ApprovalStands, CommittedAll

LEMMA BesideCommit ==
  ASSUME DagInv, NEW n \in NodeId \ {"canon_commit"}, NEW s, Moves(n, s),
         dag'.decision = dag.decision, UNCHANGED <<frozen, cands>>
  PROVE  ApprovalStands' /\ CommittedAll'
<1>1. "canon_commit" \in NodeId
  BY TenNodes
<1>2. nodes'["canon_commit"] \in {"running", "succeeded"} =>
        nodes'["canon_commit"] = nodes["canon_commit"]
  BY <1>1 DEF Moves
<1> QED BY <1>2 DEF ApprovalStands, CommittedAll, DagInv

LEMMA RefreshedRow ==
  ASSUME NEW d \in DagRow, NEW ns
  PROVE  /\ Refreshed(d, ns) \in DagRow
         /\ Refreshed(d, ns).blocker = d.blocker
         /\ Refreshed(d, ns).decision = d.decision
BY DEF Refreshed, DagRow, DagStatus

-----------------------------------------------------------------------------
(* A node ends and the request goes back to its loop *)

LEMMA CandsStay ==
  ASSUME DagInv, UNCHANGED <<frozen, cands>>
  PROVE  CandsGo
BY Typed DEF CandsGo

LEMMA BackKeeps ==
  ASSUME ~Overlap, DagInv, NEW w \in Worker, ~At(w, "idle"), BackToLoop(w),
         NEW n \in NodeId, Serving(task[w]) = n, NEW s \in NodeStatus, Moves(n, s),
         Blocked' \/ nodes' = [nodes EXCEPT ![n] = s],
         dag' \in DagRow, CandsGo, ApprovalStands', CommittedAll'
  PROVE  DagInv'
<1>1. PICK old \in Request : old = task[w]
  BY Typed
<1>2. PICK t \in Request :
        /\ t.pc = "next" /\ t.todo = old.todo /\ t.left = {}
        /\ Goto(w, t)
  <2>1. [old EXCEPT !.pc = "next", !.node = NoNode, !.left = {}] \in Request
    BY DEF Request, Pc
  <2> QED BY <1>1, <2>1 DEF BackToLoop, Request
<1>3. RequestStands(old) /\ old.pc # "idle"
  BY <1>1 DEF DagInv, At
<1>4. nodes[n] = "running" /\ ~Blocked
  BY <1>1, <1>3, TenNodes DEF RequestStands, NoNode
<1>5. ~Blocked' => \A m \in t.todo : nodes'[m] = "ready"
  <2>1. \A m \in t.todo : m \in NodeId /\ nodes[m] = "ready"
    BY <1>2, <1>3, <1>4 DEF RequestStands, Request
  <2>2. nodes \in [NodeId -> NodeStatus]
    BY Typed
  <2> QED BY <1>4, <2>1, <2>2
<1>6. RequestStands(t)'
  BY <1>2, <1>5 DEF RequestStands, Serving
<1>7. NodesGo
  BY <1>4, MovesStand DEF UnderWay
<1>8. t.left \subseteq DOMAIN cands'
  BY <1>2
<1> QED BY <1>2, <1>6, <1>7, <1>8, StepKeeps

\* What a request at work on a node knows.
LEMMA AtWork ==
  ASSUME DagInv, NEW w \in Worker, ~At(w, "idle"), NEW n \in NodeId, Serving(task[w]) = n
  PROVE  nodes[n] = "running" /\ ~Blocked
<1>1. RequestStands(task[w])
  BY DEF DagInv
<1> QED BY <1>1, TenNodes DEF RequestStands, NoNode

LEMMA WorkingOn ==
  ASSUME DagInv, NEW w \in Worker, At(w, "work")
  PROVE  /\ task[w].node \in NodeId \ {"human_review", "canon_commit"}
         /\ Serving(task[w]) = task[w].node
         /\ ~At(w, "idle")
<1>1. RequestStands(task[w])
  BY DEF DagInv
<1> QED BY <1>1 DEF RequestStands, Serving, At

LEMMA FailedMoves ==
  ASSUME DagInv, UNCHANGED reused, NEW n \in NodeId, FailNode(n)
  PROVE  /\ Moves(n, "failed") /\ "failed" \in NodeStatus
         /\ dag' \in DagRow /\ Blocked' /\ dag'.decision = dag.decision
<1>1. Moves(n, "failed") /\ "failed" \in NodeStatus
  BY BlockingMoves DEF FailNode, NodeStatus, Open
<1>2. dag \in DagRow /\ dag' = WithBlocker(n) /\ n # NoNode
  BY Typed, TenNodes DEF FailNode, NoNode
<1> QED BY <1>1, <1>2 DEF WithBlocker, DagRow, DagStatus, Blocked

LEMMA PlainKeeps ==
  ASSUME ~Overlap, DagInv, NEW w \in Worker, PlainSucceeds(w)
  PROVE  DagInv'
<1>1. PICK n \in NodeId : n = task[w].node /\ n # "canon_commit" /\ Serving(task[w]) = n
  BY WorkingOn DEF PlainSucceeds, Working
<1>2. nodes' = [nodes EXCEPT ![n] = "succeeded"] /\ "succeeded" \in NodeStatus
  BY <1>1 DEF PlainSucceeds, NodeStatus
<1>3. Moves(n, "succeeded")
  BY <1>2, SetMoves DEF PlainSucceeds
<1>4. ApprovalStands' /\ CommittedAll'
  BY <1>1, <1>3, BesideCommit DEF PlainSucceeds
<1>5. CandsGo /\ dag' \in DagRow /\ ~At(w, "idle") /\ BackToLoop(w)
  BY CandsStay, Typed DEF PlainSucceeds, Working, At
<1> QED BY <1>1, <1>2, <1>3, <1>4, <1>5, BackKeeps

LEMMA FailsKeeps ==
  ASSUME ~Overlap, DagInv, NEW w \in Worker, NodeFails(w)
  PROVE  DagInv'
<1>1. PICK n \in NodeId : n = task[w].node /\ n # "canon_commit" /\ Serving(task[w]) = n
  BY WorkingOn DEF NodeFails, Working
<1>2. /\ Moves(n, "failed") /\ "failed" \in NodeStatus
      /\ dag' \in DagRow /\ Blocked' /\ dag'.decision = dag.decision
  BY <1>1, FailedMoves DEF NodeFails
<1>3. ApprovalStands' /\ CommittedAll'
  BY <1>1, <1>2, BesideCommit DEF NodeFails
<1>4. CandsGo /\ ~At(w, "idle") /\ BackToLoop(w)
  BY CandsStay DEF NodeFails, Working, At
<1> QED BY <1>1, <1>2, <1>3, <1>4, BackKeeps

LEMMA ExtractedKeeps ==
  ASSUME ~Overlap, DagInv, NEW w \in Worker, NEW S \in SUBSET Candidate, Extracted(w, S)
  PROVE  DagInv'
<1>1. PICK n \in NodeId :
        n = "candidate_extraction" /\ task[w].node = n /\ Serving(task[w]) = n
  BY WorkingOn DEF Extracted, Working
<1>2. /\ nodes' = [nodes EXCEPT ![n] = "succeeded"] /\ "succeeded" \in NodeStatus
      /\ ~At(w, "idle") /\ BackToLoop(w)
  BY <1>1 DEF Extracted, NodeStatus, Working, At
<1>3. Moves(n, "succeeded")
  BY <1>2, SetMoves DEF Extracted
<1>4. nodes[n] = "running"
  BY <1>1, <1>2, AtWork
<1>5. nodes["canon_commit"] \notin UnderWay
  BY <1>1, <1>4, CommitIsLast
<1>6. ApprovalStands' /\ CommittedAll'
  BY <1>1, <1>3, <1>5, BeforeCommit
<1>7. CandsGo
  BY Typed DEF Extracted, CandsGo, CandStatus
<1>8. dag' \in DagRow
  BY Typed DEF Extracted
<1> QED BY <1>1, <1>2, <1>3, <1>6, <1>7, <1>8, BackKeeps

LEMMA ValidatedKeeps ==
  ASSUME ~Overlap, DagInv, NEW w \in Worker, NEW outcome, Validated(w, outcome)
  PROVE  DagInv'
<1>1. PICK n \in NodeId : n = "draft_validation" /\ task[w].node = n /\ Serving(task[w]) = n
  BY WorkingOn DEF Validated, Working
<1>2. ~At(w, "idle") /\ BackToLoop(w) /\ UNCHANGED reused
  BY DEF Validated, Working, At
<1>3. nodes[n] = "running"
  BY <1>1, <1>2, AtWork
<1>4. nodes["canon_commit"] \notin UnderWay
  BY <1>1, <1>3, CommitIsLast
<1>5. CandsGo
  <2>1. ASSUME NEW S, NEW status \in CandStatus, cands' = MovedTo(S, status), UNCHANGED frozen
        PROVE  CandsGo
    BY <2>1, Typed DEF MovedTo, CandsGo
  <2> QED BY <2>1 DEF Validated, CandStatus
<1>6. ASSUME NEW s \in NodeStatus, Moves(n, s), dag' \in DagRow,
             Blocked' \/ nodes' = [nodes EXCEPT ![n] = s]
      PROVE  DagInv'
  <2>1. ApprovalStands' /\ CommittedAll'
    BY <1>1, <1>4, <1>6, BeforeCommit
  <2> QED BY <1>1, <1>2, <1>5, <1>6, <2>1, BackKeeps
<1>7. CASE outcome \in {"Passed", "Queued"}
  <2>1. nodes' = [nodes EXCEPT ![n] = "succeeded"] /\ "succeeded" \in NodeStatus /\ dag' = dag
    BY <1>1, <1>7 DEF Validated, NodeStatus
  <2>2. Moves(n, "succeeded")
    BY <1>2, <2>1, SetMoves
  <2> QED BY <1>6, <2>1, <2>2, Typed
<1>8. CASE outcome = "RuleFailed"
  <2>1. /\ nodes' = BlockedFrom([nodes EXCEPT ![n] = "blocked"], Descendants["human_review"])
        /\ "blocked" \in NodeStatus \ Open
        /\ dag' = WithBlocker(n)
    BY <1>1, <1>8 DEF Validated, NodeStatus, Open
  <2>2. Moves(n, "blocked")
    BY <1>2, <2>1, BlockingMoves
  <2>3. dag' \in DagRow /\ Blocked'
    BY <2>1, Typed, TenNodes DEF WithBlocker, DagRow, DagStatus, Blocked, NoNode
  <2> QED BY <1>6, <2>1, <2>2, <2>3
<1>9. CASE outcome = "ExecFailed"
  <2>1. FailNode(n)
    BY <1>1, <1>9 DEF Validated
  <2> QED BY <1>2, <1>6, <2>1, FailedMoves
<1> QED BY <1>7, <1>8, <1>9 DEF Validated

LEMMA EnterReviewKeeps ==
  ASSUME ~Overlap, DagInv, NEW w \in Worker, EnterReview(w)
  PROVE  DagInv'
<1>1. PICK n \in NodeId : n = "human_review"
  BY TenNodes
<1>2. Serving(task[w]) = n /\ ~At(w, "idle") /\ BackToLoop(w)
  BY <1>1 DEF EnterReview, Serving, At
<1>3. nodes' = [nodes EXCEPT ![n] = "waiting_human"] /\ "waiting_human" \in NodeStatus
  BY <1>1 DEF EnterReview, NodeStatus
<1>4. Moves(n, "waiting_human")
  BY <1>3, SetMoves DEF EnterReview
<1>5. dag' \in DagRow /\ dag'.decision = dag.decision
  BY Typed DEF EnterReview, DagRow, DagStatus
<1>6. ApprovalStands' /\ CommittedAll'
  BY <1>1, <1>4, <1>5, BesideCommit DEF EnterReview
<1>7. CandsGo
  BY CandsStay DEF EnterReview
<1> QED BY <1>2, <1>3, <1>4, <1>5, <1>6, <1>7, BackKeeps

LEMMA CommitEndsKeeps ==
  ASSUME ~Overlap, DagInv, NEW w \in Worker, CommitEnds(w)
  PROVE  DagInv'
<1>1. PICK n \in NodeId : n = "canon_commit"
  BY TenNodes
<1>2. Serving(task[w]) = n /\ ~At(w, "idle") /\ BackToLoop(w)
  BY <1>1 DEF CommitEnds, Serving, At
<1>3. nodes' = [nodes EXCEPT ![n] = "succeeded"] /\ "succeeded" \in NodeStatus
  BY <1>1 DEF CommitEnds, NodeStatus
<1>4. Moves(n, "succeeded")
  BY <1>3, SetMoves DEF CommitEnds
<1>5. nodes[n] = "running"
  BY <1>2, AtWork
<1>6. ApprovalStands'
  BY <1>1, <1>5 DEF ApprovalStands, DagInv, CommitEnds
<1>7. CommittedAll'
  <2>1. RequestStands(task[w])
    BY DEF DagInv
  <2>2. \A c \in frozen : cands[c] = "Submitted"
    BY <2>1 DEF RequestStands, CommitEnds, At
  <2> QED BY <2>2 DEF CommittedAll, CommitEnds
<1>8. CandsGo /\ dag' \in DagRow
  BY CandsStay, Typed DEF CommitEnds
<1> QED BY <1>2, <1>3, <1>4, <1>6, <1>7, <1>8, BackKeeps

-----------------------------------------------------------------------------
(* A request begins, looks around, and ends *)

LEMMA NodesStay ==
  ASSUME DagInv, UNCHANGED <<nodes, reused>>
  PROVE  NodesGo
BY Typed DEF NodesGo, NodesStand, RestsOn, DagInv

LEMMA ClaimsStay ==
  ASSUME DagInv, UNCHANGED <<nodes, frozen, cands>>, dag'.decision = dag.decision
  PROVE  ApprovalStands' /\ CommittedAll'
BY DEF ApprovalStands, CommittedAll, DagInv

LEMMA ReturnKeeps ==
  ASSUME ~Overlap, DagInv, NEW w \in Worker, ~At(w, "idle") \/ MayStart(w), Return(w),
         dag' \in DagRow, NodesGo, CandsGo, ApprovalStands', CommittedAll'
  PROVE  DagInv'
<1>1. PICK t \in Request : t.pc = "idle" /\ t.left = {} /\ Goto(w, t)
  <2>1. Idle \in Request /\ Idle.pc = "idle" /\ Idle.left = {}
    BY DEF Idle, Request, Pc, Decision
  <2> QED BY <2>1 DEF Return
<1>2. RequestStands(t)' /\ t.left \subseteq DOMAIN cands'
  BY <1>1 DEF RequestStands, Serving
<1> QED BY <1>1, <1>2, StepKeeps

\* Requests of one step: no other is being served.
LEMMA AtOnceKeeps ==
  ASSUME ~Overlap, DagInv, NEW w \in Worker, MayStart(w), UNCHANGED task,
         dag' \in DagRow, NodesGo, CandsGo, ApprovalStands', CommittedAll'
  PROVE  DagInv'
<1>1. PICK t \in Request : t = task[w] /\ t.left \subseteq DOMAIN cands
  BY Typed
<1>2. t.pc = "idle"
  BY <1>1 DEF MayStart, At
<1>3. RequestStands(t)' /\ t.left \subseteq DOMAIN cands'
  BY <1>1, <1>2 DEF RequestStands, Serving, CandsGo
<1>4. Goto(w, t)
  BY <1>1, Typed DEF Goto
<1> QED BY <1>3, <1>4, StepKeeps

LEMMA ScanningKeeps ==
  ASSUME ~Overlap, DagInv, NEW w \in Worker, ~At(w, "idle") \/ MayStart(w),
         Goto(w, [Idle EXCEPT !.pc = "scan"]), UNCHANGED <<nodes, reused, dag, frozen, cands>>
  PROVE  DagInv'
<1>1. PICK t \in Request : t.pc = "scan" /\ t.left = {} /\ t.todo = {} /\ Goto(w, t)
  <2>1. /\ [Idle EXCEPT !.pc = "scan"] \in Request
        /\ [Idle EXCEPT !.pc = "scan"].pc = "scan"
        /\ [Idle EXCEPT !.pc = "scan"].left = {} /\ [Idle EXCEPT !.pc = "scan"].todo = {}
    BY DEF Idle, Request, Pc, Decision
  <2> QED BY <2>1
<1>2. RequestStands(t)' /\ t.left \subseteq DOMAIN cands'
  BY <1>1 DEF RequestStands, Serving
<1>3. dag' \in DagRow
  BY Typed
<1> QED BY <1>1, <1>2, <1>3, StepKeeps, NodesStay, CandsStay, ClaimsStay

LEMMA ScanKeeps ==
  ASSUME ~Overlap, DagInv, NEW w \in Worker, Scan(w)
  PROVE  DagInv'
<1>1. ~At(w, "idle") /\ CandsGo /\ UNCHANGED <<reused, frozen, cands>>
  BY CandsStay DEF Scan, At
<1>2. CASE Blocked \/ ReadyNodes = {}
  <2>1. Return(w) /\ UNCHANGED nodes /\ dag' = Refreshed(dag, nodes)
    BY <1>2 DEF Scan
  <2>2. dag' \in DagRow /\ dag'.decision = dag.decision
    BY <2>1, RefreshedRow, Typed
  <2> QED BY <1>1, <2>1, <2>2, ReturnKeeps, NodesStay, ClaimsStay
<1>3. CASE ~(Blocked \/ ReadyNodes = {})
  <2>1. PICK R \in SUBSET NodeId : R = ReadyNodes
    BY DEF ReadyNodes
  <2>2. /\ nodes' = [n \in NodeId |-> IF n \in R THEN "ready" ELSE nodes[n]]
        /\ Goto(w, [Idle EXCEPT !.pc = "next", !.todo = R])
        /\ UNCHANGED dag
    BY <1>3, <2>1 DEF Scan
  <2>3. \A n \in R : nodes[n] \in Open /\ RestsOn(n)
    BY <2>1 DEF ReadyNodes, RestsOn
  <2>4. PICK t \in Request : t.pc = "next" /\ t.left = {} /\ t.todo = R /\ Goto(w, t)
    <3>1. PICK t : t = [Idle EXCEPT !.pc = "next", !.todo = R]
      OBVIOUS
    <3>2. t \in Request /\ t.pc = "next" /\ t.left = {} /\ t.todo = R
      BY <3>1 DEF Idle, Request, Pc, Decision
    <3> QED BY <2>2, <3>1, <3>2
  <2>5. RequestStands(t)' /\ t.left \subseteq DOMAIN cands'
    BY <2>2, <2>4 DEF RequestStands, Serving
  <2>6. NodesGo
    <3>1. nodes' \in [NodeId -> NodeStatus]
      BY <2>2, Typed DEF NodeStatus
    <3>2. \A n \in NodeId : nodes[n] = "succeeded" => nodes'[n] = "succeeded"
      BY <2>2, <2>3 DEF Open
    <3>3. \A n \in NodeId : nodes'[n] \in UnderWay => nodes[n] \in UnderWay \/ RestsOn(n)
      BY <2>2, <2>3
    <3>4. reused \subseteq NodeId
      BY DEF DagInv, DagTypeOK
    <3> QED BY <1>1, <3>1, <3>2, <3>3, <3>4, DependenciesAreNodes
            DEF NodesGo, NodesStand, RestsOn, DagInv
  <2>7. ApprovalStands' /\ CommittedAll'
    <3>1. "canon_commit" \in NodeId
      BY TenNodes
    <3>2. nodes'["canon_commit"] \in {"running", "succeeded"} =>
            nodes'["canon_commit"] = nodes["canon_commit"]
      BY <2>2, <3>1
    <3> QED BY <1>1, <2>2, <3>2 DEF ApprovalStands, CommittedAll, DagInv
  <2>8. dag' \in DagRow
    BY <2>2, Typed
  <2> QED BY <1>1, <2>4, <2>5, <2>6, <2>7, <2>8, StepKeeps
<1> QED BY <1>2, <1>3

LEMMA NextNodeKeeps ==
  ASSUME ~Overlap, DagInv, NEW w \in Worker, NextNode(w)
  PROVE  DagInv'
<1>1. PICK old \in Request : old = task[w] /\ RequestStands(old)
  BY Typed DEF DagInv
<1>2. /\ old.pc = "next" /\ old.todo # {} /\ old.todo \in SUBSET NodeId /\ ~Blocked
      /\ ~At(w, "idle") /\ UNCHANGED <<reused, dag, frozen, cands>>
  BY <1>1 DEF NextNode, At, Request
<1>3. PICK n \in old.todo : n = FirstOf(old.todo)
  BY <1>2, FirstOfIsIn
<1>4. n \in NodeId /\ \A m \in old.todo : nodes[m] = "ready"
  BY <1>1, <1>2, <1>3 DEF RequestStands
<1>5. PICK skip \in Request :
        /\ skip = Skip(w, n)
        /\ skip.pc = "next" /\ skip.todo = old.todo \ {n} /\ skip.left = old.left
  <2>1. PICK T \in SUBSET NodeId : T = old.todo \ {n}
    BY <1>2
  <2>2. PICK t : t = [old EXCEPT !.todo = T]
    OBVIOUS
  <2>3. t \in Request /\ t.pc = old.pc /\ t.todo = T /\ t.left = old.left
    BY <2>2 DEF Request
  <2> QED BY <1>1, <1>2, <2>1, <2>2, <2>3 DEF Skip
<1>6. CandsGo /\ dag' \in DagRow
  BY <1>2, CandsStay, Typed
<1>7. CASE n = "canon_commit" /\ dag.decision # "approve"
  <2>1. Goto(w, skip) /\ UNCHANGED nodes
    BY <1>1, <1>3, <1>5, <1>7 DEF NextNode
  <2>2. RequestStands(skip)'
    BY <1>4, <1>5, <2>1 DEF RequestStands, Serving
  <2>3. skip.left \subseteq DOMAIN cands'
    BY <1>1, <1>2, <1>5, Typed
  <2> QED BY <1>2, <1>6, <2>1, <2>2, <2>3, StepKeeps, NodesStay, ClaimsStay
<1>8. CASE ~(n = "canon_commit" /\ dag.decision # "approve")
  <2>1. Goto(w, Start(w, n)) /\ nodes' = [nodes EXCEPT ![n] = "running"]
    BY <1>1, <1>3, <1>8 DEF NextNode
  <2>2. "running" \in NodeStatus
    BY DEF NodeStatus
  <2>3. Moves(n, "running")
    BY <1>2, <1>4, <2>1, <2>2, SetMoves
  <2>4. NodesGo
    BY <1>3, <1>4, <2>2, <2>3, MovesStand DEF UnderWay
  <2>5. PICK pc \in {"work", "review", "commit"} :
          pc = CASE n = "human_review" -> "review"
                 [] n = "canon_commit" -> "commit"
                 [] OTHER -> "work"
    OBVIOUS
  <2>6. PICK t \in Request :
          /\ Goto(w, t)
          /\ t.pc = pc /\ t.node = n /\ t.todo = old.todo \ {n}
          /\ t.left = IF pc = "commit" THEN frozen ELSE {}
    <3>1. PICK L \in SUBSET Candidate : L = IF pc = "commit" THEN frozen ELSE {}
      BY Typed
    <3>2. PICK t : t = [skip EXCEPT !.pc = pc, !.node = n, !.moved = TRUE, !.left = L]
      OBVIOUS
    <3>3. t \in Request /\ t.pc = pc /\ t.node = n /\ t.todo = skip.todo /\ t.left = L
      BY <1>4, <3>2 DEF Request, Pc
    <3>4. t = Start(w, n)
      BY <1>5, <2>5, <3>1, <3>2 DEF Start
    <3> QED BY <1>5, <2>1, <3>1, <3>3, <3>4
  <2>7. /\ Serving(t) = n
        /\ t.pc = "work" => n \notin {"human_review", "canon_commit"}
    BY <2>5, <2>6 DEF Serving
  <2>8. RequestStands(t)'
    <3>1. nodes'[n] = "running" /\ \A m \in t.todo : nodes'[m] = "ready"
      BY <1>2, <1>4, <2>6, <2>1, Typed
    <3>2. ~Blocked'
      BY <1>2 DEF Blocked
    <3> QED BY <1>2, <1>4, <2>5, <2>6, <2>7, <3>1, <3>2 DEF RequestStands, Serving
  <2>9. t.left \subseteq DOMAIN cands'
    BY <1>2, <2>6, Typed
  <2>10. ApprovalStands' /\ CommittedAll'
    <3>1. CASE n = "canon_commit"
      <4>1. nodes'[n] = "running" /\ dag'.decision = "approve"
        BY <1>2, <1>8, <2>3, <3>1 DEF Moves
      <4> QED BY <3>1, <4>1 DEF ApprovalStands, CommittedAll
    <3>2. CASE n # "canon_commit"
      BY <1>2, <1>4, <2>3, <3>2, BesideCommit
    <3> QED BY <3>1, <3>2
  <2> QED BY <1>2, <1>6, <2>4, <2>6, <2>8, <2>9, <2>10, StepKeeps
<1> QED BY <1>7, <1>8

LEMMA EndRoundKeeps ==
  ASSUME ~Overlap, DagInv, NEW w \in Worker, EndRound(w)
  PROVE  DagInv'
<1>1. ~At(w, "idle") /\ UNCHANGED <<nodes, reused, frozen, cands>>
  BY DEF EndRound, At
<1>2. CASE task[w].moved
  BY <1>1, <1>2, ScanningKeeps DEF EndRound
<1>3. CASE ~task[w].moved
  <2>1. Return(w) /\ dag' = Refreshed(dag, nodes)
    BY <1>3 DEF EndRound
  <2>2. dag' \in DagRow /\ dag'.decision = dag.decision
    BY <2>1, RefreshedRow, Typed
  <2> QED BY <1>1, <2>1, <2>2, ReturnKeeps, NodesStay, CandsStay, ClaimsStay
<1> QED BY <1>2, <1>3

\* A request that an error ends leaves everything as it is.
LEMMA BrokenOffKeeps ==
  ASSUME ~Overlap, DagInv, NEW w \in Worker, ~At(w, "idle"), Return(w),
         UNCHANGED <<nodes, reused, dag, frozen, cands>>
  PROVE  DagInv'
<1>1. dag' \in DagRow
  BY Typed
<1> QED BY <1>1, ReturnKeeps, NodesStay, CandsStay, ClaimsStay

-----------------------------------------------------------------------------
(* Candidates move *)

\* A candidate of the scene gets another status.
LEMMA MovedGo ==
  ASSUME DagInv, NEW c, NEW status \in CandStatus, cands' = MovedTo({c}, status),
         UNCHANGED frozen
  PROVE  CandsGo
BY Typed DEF MovedTo, CandsGo

LEMMA DoneRow ==
  ASSUME DagInv, NEW w \in Worker, NEW c, Done(w, c)
  PROVE  \E t \in Request :
           /\ Goto(w, t)
           /\ t.pc = task[w].pc /\ t.todo = task[w].todo /\ t.node = task[w].node
           /\ t.decision = task[w].decision /\ t.left = task[w].left \ {c}
<1>1. PICK old \in Request : old = task[w]
  BY Typed
<1>2. PICK L \in SUBSET Candidate : L = old.left \ {c}
  BY DEF Request
<1>3. PICK t : t = [old EXCEPT !.left = L]
  OBVIOUS
<1>4. /\ t \in Request
      /\ t.pc = old.pc /\ t.todo = old.todo /\ t.node = old.node
      /\ t.decision = old.decision /\ t.left = L
  BY <1>3 DEF Request
<1> QED BY <1>1, <1>2, <1>3, <1>4 DEF Done

LEMMA CommitOneKeeps ==
  ASSUME ~Overlap, DagInv, NEW w \in Worker, NEW c, CommitOne(w, c)
  PROVE  DagInv'
<1>1. PICK t \in Request :
        /\ Goto(w, t)
        /\ t.pc = task[w].pc /\ t.todo = task[w].todo /\ t.node = task[w].node
        /\ t.left = task[w].left \ {c}
  BY DoneRow DEF CommitOne
<1>2. /\ task[w].pc = "commit" /\ t.pc = "commit" /\ ~At(w, "idle")
      /\ cands' = MovedTo({c}, "Submitted") /\ UNCHANGED <<nodes, reused, dag, frozen>>
  BY <1>1 DEF CommitOne, At
<1>3. RequestStands(task[w])
  BY DEF DagInv
<1>4. nodes["canon_commit"] = "running" /\ ~Blocked
  BY <1>2, <1>3 DEF RequestStands, Serving, NoNode
<1>5. \A d \in frozen \ t.left : cands'[d] = "Submitted"
  BY <1>1, <1>2, <1>3, Typed DEF RequestStands, MovedTo
<1>6. RequestStands(t)'
  BY <1>1, <1>2, <1>3, <1>4, <1>5 DEF RequestStands, Serving, Blocked
<1>7. CandsGo
  BY <1>2, MovedGo DEF CandStatus
<1>8. t.left \subseteq DOMAIN cands'
  BY <1>1, <1>7, Typed DEF CandsGo
<1>9. ApprovalStands' /\ CommittedAll'
  BY <1>2, <1>4 DEF ApprovalStands, CommittedAll, DagInv
<1>10. dag' \in DagRow
  BY <1>2, Typed
<1> QED BY <1>1, <1>2, <1>6, <1>7, <1>8, <1>9, <1>10, StepKeeps, NodesStay

LEMMA StartReviewKeeps ==
  ASSUME ~Overlap, DagInv, NEW w \in Worker, NEW decision \in {"approve", "reject"},
         StartReview(w, decision)
  PROVE  DagInv'
<1>1. PICK n \in NodeId : n = "human_review"
  BY TenNodes
<1>2. /\ MayStart(w) /\ ~Blocked /\ nodes[n] = "waiting_human"
      /\ nodes' = [nodes EXCEPT ![n] = "running"] /\ "running" \in NodeStatus
      /\ UNCHANGED <<reused, dag, frozen, cands>>
  BY <1>1 DEF StartReview, NodeStatus
<1>3. Moves(n, "running")
  BY <1>2, SetMoves
<1>4. NodesGo
  BY <1>2, <1>3, MovesStand DEF UnderWay
<1>5. ApprovalStands' /\ CommittedAll'
  BY <1>1, <1>2, <1>3, BesideCommit
<1>6. PICK t \in Request :
        t.pc = "decide" /\ t.todo = {} /\ t.left = frozen /\ t.decision = decision /\ Goto(w, t)
  <2>1. PICK t : t = [Idle EXCEPT !.pc = "decide", !.left = frozen, !.decision = decision]
    OBVIOUS
  <2>2. frozen \subseteq Candidate
    BY Typed
  <2>3. t \in Request /\ t.pc = "decide" /\ t.todo = {} /\ t.left = frozen /\ t.decision = decision
    BY <2>1, <2>2 DEF Idle, Request, Pc, Decision
  <2> QED BY <2>1, <2>3 DEF StartReview
<1>7. RequestStands(t)'
  <2>1. nodes'["human_review"] = "running" /\ ~Blocked'
    BY <1>1, <1>2, <1>3 DEF Moves, Blocked
  <2> QED BY <1>6, <2>1 DEF RequestStands, Serving
<1>8. CandsGo /\ dag' \in DagRow /\ t.left \subseteq DOMAIN cands'
  BY <1>2, <1>6, CandsStay, Typed
<1> QED BY <1>2, <1>4, <1>5, <1>6, <1>7, <1>8, StepKeeps

\* While the editor decides, the commit is not under way.
LEMMA Deciding ==
  ASSUME DagInv, NEW w \in Worker, At(w, "decide")
  PROVE  /\ "human_review" \in NodeId /\ nodes["human_review"] = "running" /\ ~Blocked
         /\ nodes["canon_commit"] \notin UnderWay
         /\ task[w].decision \in {"approve", "reject"}
         /\ ~At(w, "idle")
<1>1. RequestStands(task[w])
  BY DEF DagInv
<1>2. nodes["human_review"] = "running" /\ ~Blocked /\ task[w].decision \in {"approve", "reject"}
  BY <1>1 DEF RequestStands, Serving, At, NoNode
<1> QED BY <1>2, CommitIsLast, TenNodes DEF At

LEMMA DecideOneKeeps ==
  ASSUME ~Overlap, DagInv, NEW w \in Worker, NEW c, DecideOne(w, c)
  PROVE  DagInv'
<1>1. /\ nodes["human_review"] = "running" /\ ~Blocked /\ nodes["canon_commit"] \notin UnderWay
      /\ task[w].decision \in {"approve", "reject"} /\ task[w].pc = "decide" /\ ~At(w, "idle")
      /\ UNCHANGED <<reused, frozen>>
  BY Deciding DEF DecideOne, At
<1>2. CASE cands[c] \in VerdictFrom(task[w].decision)
  <2>1. /\ cands' = MovedTo({c}, VerdictTo(task[w].decision)) /\ Done(w, c)
        /\ UNCHANGED <<nodes, dag>>
    BY <1>2 DEF DecideOne
  <2>2. PICK t \in Request :
          /\ Goto(w, t)
          /\ t.pc = task[w].pc /\ t.todo = task[w].todo /\ t.node = task[w].node
          /\ t.decision = task[w].decision /\ t.left = task[w].left \ {c}
    BY <2>1, DoneRow
  <2>3. RequestStands(task[w])
    BY DEF DagInv
  <2>4. RequestStands(t)'
    BY <1>1, <2>1, <2>2, <2>3 DEF RequestStands, Serving, Blocked
  <2>5. CandsGo
    <3>1. VerdictTo(task[w].decision) \in CandStatus
      BY DEF VerdictTo, CandStatus
    <3> QED BY <1>1, <2>1, <3>1, MovedGo
  <2>6. t.left \subseteq DOMAIN cands'
    BY <2>2, <2>5, Typed DEF CandsGo
  <2>7. ApprovalStands' /\ CommittedAll'
    BY <1>1, <2>1 DEF ApprovalStands, CommittedAll, UnderWay
  <2>8. dag' \in DagRow
    BY <2>1, Typed
  <2> QED BY <1>1, <2>1, <2>2, <2>4, <2>5, <2>6, <2>7, <2>8, StepKeeps, NodesStay
<1>3. CASE cands[c] \notin VerdictFrom(task[w].decision)
  <2>1. PICK n \in NodeId : n = "human_review"
    BY TenNodes
  <2>2. FailNode(n) /\ Return(w) /\ UNCHANGED cands
    BY <1>3, <2>1 DEF DecideOne
  <2>3. Moves(n, "failed") /\ "failed" \in NodeStatus /\ dag' \in DagRow
    BY <1>1, <2>2, FailedMoves
  <2>4. NodesGo
    BY <1>1, <2>1, <2>3, MovesStand DEF UnderWay
  <2>5. ApprovalStands' /\ CommittedAll'
    BY <1>1, <2>1, <2>3, BeforeCommit
  <2>6. CandsGo
    BY <1>1, <2>2, CandsStay
  <2> QED BY <1>1, <2>2, <2>3, <2>4, <2>5, <2>6, ReturnKeeps
<1> QED BY <1>2, <1>3

LEMMA EndReviewKeeps ==
  ASSUME ~Overlap, DagInv, NEW w \in Worker, EndReview(w)
  PROVE  DagInv'
<1>1. PICK n \in NodeId : n = "human_review"
  BY TenNodes
<1>2. /\ nodes[n] = "running" /\ nodes["canon_commit"] \notin UnderWay /\ ~At(w, "idle")
      /\ task[w].decision \in {"approve", "reject"}
      /\ Return(w) /\ UNCHANGED <<reused, frozen, cands>>
  BY <1>1, Deciding DEF EndReview
<1>3. PICK ns : ns = [nodes EXCEPT ![n] = "succeeded"]
  OBVIOUS
<1>4. PICK d \in DagRow : d = [dag EXCEPT !.decision = task[w].decision]
  BY <1>2, Typed DEF DagRow, Decision
<1>5. "succeeded" \in NodeStatus \ Open
  BY DEF NodeStatus, Open
<1>6. Moves(n, "succeeded") /\ dag' \in DagRow
  <2>1. CASE task[w].decision = "approve"
    <3>1. nodes' = ns /\ dag' = Refreshed(d, ns)
      BY <1>1, <1>3, <1>4, <2>1 DEF EndReview
    <3> QED BY <1>2, <1>3, <1>5, <3>1, SetMoves, RefreshedRow
  <2>2. CASE task[w].decision # "approve"
    <3>1. PICK e \in DagRow : e = [d EXCEPT !.blocker = "human_review"]
      BY <1>1 DEF DagRow
    <3>2. nodes' = BlockedFrom(ns, Descendants["canon_commit"]) /\ dag' = Refreshed(e, nodes')
      BY <1>1, <1>3, <1>4, <2>2, <3>1 DEF EndReview
    <3>3. Moves(n, "succeeded")
      BY <1>2, <1>3, <1>5, <3>2, BlockingMoves
    <3>4. dag' \in DagRow
      BY <3>2, RefreshedRow
    <3> QED BY <3>3, <3>4
  <2> QED BY <2>1, <2>2
<1>7. NodesGo
  BY <1>2, <1>5, <1>6, MovesStand DEF UnderWay
<1>8. ApprovalStands' /\ CommittedAll'
  BY <1>1, <1>2, <1>6, BeforeCommit
<1>9. CandsGo
  BY <1>2, CandsStay
<1> QED BY <1>2, <1>6, <1>7, <1>8, <1>9, ReturnKeeps

-----------------------------------------------------------------------------
(* Requests of one step *)

LEMMA ResetClosed ==
  ASSUME NEW from \in NodeId, NEW rebuild \in BOOLEAN, NEW n \in NodeId,
         NEW d \in Dependencies(n), d \in Reset(from, rebuild)
  PROVE  n \in Reset(from, rebuild)
<1>1. "context_pack" \in NodeId
  BY TenNodes
<1> QED BY <1>1, DescendantsClosed DEF Reset

LEMMA RerunKeeps ==
  ASSUME ~Overlap, DagInv, NEW w \in Worker, NEW from \in NodeId, NEW rebuild \in BOOLEAN,
         Rerun(w, from, rebuild)
  PROVE  DagInv'
<1>1. PICK S : S = Reset(from, rebuild)
  OBVIOUS
<1>2. \A n \in NodeId : \A d \in Dependencies(n) : d \in S => n \in S
  BY <1>1, ResetClosed
<1>3. /\ MayStart(w)
      /\ nodes' = [n \in NodeId |-> IF n \in S THEN "pending" ELSE nodes[n]]
      /\ reused' = reused \ S
      /\ frozen' = IF "candidate_extraction" \in S THEN {} ELSE frozen
      /\ dag' = [status |-> "running",
                 blocker |-> IF dag.blocker \in S THEN NoNode ELSE dag.blocker,
                 decision |-> IF "human_review" \in S THEN "none" ELSE dag.decision]
      /\ UNCHANGED <<cands, task>>
  BY <1>1 DEF Rerun
<1>4. dag' \in DagRow
  BY <1>3, Typed DEF DagRow, DagStatus, Decision
<1>5. CandsGo
  BY <1>3, Typed DEF CandsGo
<1>6. NodesGo
  <2>1. nodes' \in [NodeId -> NodeStatus]
    BY <1>3, Typed DEF NodeStatus
  <2>2. \A n \in NodeId \ S : nodes'[n] = nodes[n]
    BY <1>3
  <2>3. reused \subseteq NodeId /\ reused' \subseteq Reusable /\ \A n \in reused' : nodes'[n] = "succeeded"
    BY <1>3, <2>2 DEF DagInv, DagTypeOK, NodesStand
  <2>4. ASSUME NEW n \in NodeId \ reused', nodes'[n] \in UnderWay
        PROVE  \A d \in Dependencies(n) : nodes'[d] = "succeeded"
    <3>1. n \notin S
      BY <1>3, <2>4 DEF UnderWay
    <3>2. RestsOn(n)
      BY <1>3, <2>2, <2>4, <3>1 DEF DagInv, NodesStand
    <3>3. \A d \in Dependencies(n) : d \in NodeId \ S
      BY <1>2, <3>1, DependenciesAreNodes
    <3> QED BY <2>2, <3>2, <3>3 DEF RestsOn
  <2> QED BY <2>1, <2>3, <2>4 DEF NodesGo, NodesStand, RestsOn
<1>7. ApprovalStands' /\ CommittedAll'
  <2>1. /\ "canon_commit" \in NodeId /\ "human_review" \in NodeId
        /\ "candidate_extraction" \in S => "human_review" \in S
        /\ "human_review" \in S => "canon_commit" \in S
    BY <1>2, TenNodes, DependenciesAre
  <2>2. nodes'["canon_commit"] \in {"running", "succeeded"} =>
          "canon_commit" \notin S /\ nodes'["canon_commit"] = nodes["canon_commit"]
    BY <1>3, <2>1
  <2> QED BY <1>3, <2>1, <2>2 DEF ApprovalStands, CommittedAll, DagInv
<1> QED BY <1>3, <1>4, <1>5, <1>6, <1>7, AtOnceKeeps

LEMMA CancelDagKeeps ==
  ASSUME ~Overlap, DagInv, NEW w \in Worker, CancelDag(w)
  PROVE  DagInv'
<1>1. /\ MayStart(w)
      /\ nodes' = [n \in NodeId |-> IF nodes[n] \in Open \cup {"running", "waiting_human"}
                                    THEN "cancelled" ELSE nodes[n]]
      /\ dag' = [dag EXCEPT !.status = "cancelled"]
      /\ UNCHANGED <<reused, frozen, cands, task>>
  BY DEF CancelDag
<1>2. dag' \in DagRow /\ dag'.decision = dag.decision
  BY <1>1, Typed DEF DagRow, DagStatus
<1>3. NodesGo
  <2>1. nodes' \in [NodeId -> NodeStatus]
    BY <1>1, Typed DEF NodeStatus
  <2>2. \A n \in NodeId : nodes[n] = "succeeded" => nodes'[n] = "succeeded"
    BY <1>1 DEF Open
  <2>3. \A n \in NodeId : nodes'[n] \in UnderWay => nodes[n] \in UnderWay
    BY <1>1 DEF UnderWay
  <2>4. reused \subseteq NodeId
    BY DEF DagInv, DagTypeOK
  <2> QED BY <1>1, <2>1, <2>2, <2>3, <2>4, DependenciesAreNodes
          DEF NodesGo, NodesStand, RestsOn, DagInv
<1>4. ApprovalStands' /\ CommittedAll'
  <2>1. nodes'["canon_commit"] \in {"running", "succeeded"} =>
          nodes'["canon_commit"] = nodes["canon_commit"]
    BY <1>1, TenNodes
  <2> QED BY <1>1, <1>2, <2>1 DEF ApprovalStands, CommittedAll, DagInv
<1>5. CandsGo
  BY <1>1, CandsStay
<1> QED BY <1>1, <1>2, <1>3, <1>4, <1>5, AtOnceKeeps

LEMMA BesideKeeps ==
  ASSUME ~Overlap, DagInv, NEW w \in Worker, NEW c, Beside(w, c)
  PROVE  DagInv'
<1>1. MayStart(w) /\ UNCHANGED <<nodes, reused, dag, frozen, task>>
  BY DEF Beside
<1>2. PICK status \in CandStatus : cands' = MovedTo({c}, status) /\ cands[c] # "Submitted"
  BY DEF Beside, CandStatus
<1>3. CandsGo
  BY <1>1, <1>2, MovedGo
<1>4. ApprovalStands' /\ CommittedAll'
  BY <1>1, <1>2, Typed DEF ApprovalStands, CommittedAll, DagInv, MovedTo
<1>5. dag' \in DagRow
  BY <1>1, Typed
<1> QED BY <1>1, <1>3, <1>4, <1>5, AtOnceKeeps, NodesStay

-----------------------------------------------------------------------------
(* The invariant *)

LEMMA DagInitInv == DagInit => DagInv
<1> SUFFICES ASSUME DagInit PROVE DagInv
  OBVIOUS
<1>1. PICK kept \in SUBSET Reusable :
        /\ reused = kept
        /\ nodes = [n \in NodeId |-> IF n \in kept THEN "succeeded" ELSE "pending"]
  BY DEF DagInit
<1>2. kept \subseteq NodeId
  BY TenNodes DEF Reusable
<1>3. /\ dag = [status |-> "created", blocker |-> NoNode, decision |-> "none"]
      /\ frozen = {} /\ cands = [c \in {} |-> "Extracted"]
      /\ task = [w \in Worker |-> Idle]
  BY DEF DagInit
<1>4. Idle \in Request /\ Idle.pc = "idle" /\ Idle.left = {} /\ Idle.todo = {}
  BY DEF Idle, Request, Pc, Decision
<1>5. task \in [Worker -> Request] /\ \A w \in Worker : task[w].pc = "idle" /\ task[w].left = {}
  BY <1>3, <1>4
<1>6. DagTypeOK
  <2>1. nodes \in [NodeId -> NodeStatus]
    BY <1>1 DEF NodeStatus
  <2>2. dag \in DagRow
    BY <1>3 DEF DagRow, DagStatus, Decision
  <2>3. DOMAIN cands = {} /\ cands \in [DOMAIN cands -> CandStatus]
    BY <1>3
  <2> QED BY <1>1, <1>2, <1>3, <1>5, <2>1, <2>2, <2>3
          DEF DagTypeOK, DagRow, Decision, Request
<1>7. NodesStand
  BY <1>1, <1>2 DEF NodesStand, UnderWay
<1>8. ApprovalStands /\ CommittedAll
  BY <1>1, <1>3, TenNodes DEF ApprovalStands, CommittedAll, Reusable
<1>9. OneRequest /\ \A w \in Worker : RequestStands(task[w])
  BY <1>5 DEF OneRequest, At, RequestStands, Serving
<1> QED BY <1>5, <1>6, <1>7, <1>8, <1>9 DEF DagInv

LEMMA AdvanceKeeps ==
  ASSUME ~Overlap, DagInv, NEW w \in Worker, Advance(w)
  PROVE  DagInv'
<1>1. ASSUME StartAdvance(w) PROVE DagInv'
  BY <1>1, ScanningKeeps DEF StartAdvance
<1>2. ASSUME NodeRaises(w) PROVE DagInv'
  BY <1>2, BrokenOffKeeps DEF NodeRaises, At
<1>3. ASSUME NEW c, CommitRefused(w, c) PROVE DagInv'
  BY <1>3, BrokenOffKeeps DEF CommitRefused, At
<1> QED BY <1>1, <1>2, <1>3, ScanKeeps, NextNodeKeeps, EndRoundKeeps, PlainKeeps, FailsKeeps,
           ExtractedKeeps, ValidatedKeeps, EnterReviewKeeps, CommitOneKeeps, CommitEndsKeeps
        DEF Advance

LEMMA DagStepInv ==
  ASSUME ~Overlap, DagInv, DagNext
  PROVE  DagInv'
<1>1. PICK w \in Worker :
        \/ Advance(w)
        \/ Review(w)
        \/ \E from \in NodeId, rebuild \in BOOLEAN : Rerun(w, from, rebuild)
        \/ CancelDag(w)
        \/ \E c \in Candidate : Beside(w, c)
  BY DEF DagNext
<1>2. CASE Review(w)
  BY <1>2, StartReviewKeeps, DecideOneKeeps, EndReviewKeeps DEF Review
<1> QED BY <1>1, <1>2, AdvanceKeeps, RerunKeeps, CancelDagKeeps, BesideKeeps

LEMMA DagStutterInv ==
  ASSUME DagInv, UNCHANGED dagVars
  PROVE  DagInv'
<1>1. UNCHANGED <<nodes, reused, dag, frozen, cands, task>>
  BY DEF dagVars
<1>2. DagTypeOK' /\ task' \in [Worker -> Request]
  BY <1>1 DEF DagInv, DagTypeOK
<1>3. NodesStand' /\ ApprovalStands' /\ CommittedAll' /\ OneRequest'
  BY <1>1 DEF DagInv, NodesStand, RestsOn, ApprovalStands, CommittedAll, OneRequest, At
<1>4. ASSUME NEW w \in Worker
      PROVE  RequestStands(task[w])'
  BY <1>1 DEF DagInv, RequestStands, Serving, Blocked
<1> QED BY <1>2, <1>3, <1>4 DEF DagInv

LEMMA DagInvariant ==
  ASSUME ~Overlap
  PROVE  DagSpec => []DagInv
<1>1. DagInit => DagInv
  BY DagInitInv
<1>2. DagInv /\ [DagNext]_dagVars => DagInv'
  BY DagStepInv, DagStutterInv
<1> QED BY <1>1, <1>2, PTL DEF DagSpec

-----------------------------------------------------------------------------
(* Theorems *)

\* The DAG, its nodes, the candidates it holds and the requests on it are always
\* what the rows of dags/models.py allow.
THEOREM DagTypeCorrect ==
  ASSUME ~Overlap
  PROVE  DagSpec => []DagTypeOK
<1>1. DagInv => DagTypeOK
  BY DEF DagInv
<1> QED BY <1>1, DagInvariant, PTL

\* Through failures, reruns and cancellations, a node that has run successfully
\* rests on dependencies that have (advance, _fail_node, rerun).
THEOREM SuccessStaysInOrder ==
  ASSUME ~Overlap
  PROVE  DagSpec => []SuccessInOrder
<1>1. DagInv => SuccessInOrder
  BY DEF DagInv, NodesStand, RestsOn, UnderWay, SuccessInOrder
<1> QED BY <1>1, DagInvariant, PTL

\* The commit runs, and has run, only while an editor's approval of this very
\* review stands (_ready_nodes and the look at human_decision in advance).
THEOREM CommitFollowsApproval ==
  ASSUME ~Overlap
  PROVE  DagSpec => []CommitNeedsEditor
<1>1. DagInv => CommitNeedsEditor
  <2>1. "canon_commit" \notin Reusable /\ "canon_commit" \in NodeId
    BY TenNodes DEF Reusable
  <2> QED BY <2>1, DependenciesAre
          DEF DagInv, NodesStand, RestsOn, UnderWay, ApprovalStands, CommitNeedsEditor
<1> QED BY <1>1, DagInvariant, PTL

\* A commit that counts as done has submitted every candidate of the DAG: one that
\* a refusal broke off never does (_run_canon_commit).
THEOREM CommitIsComplete ==
  ASSUME ~Overlap
  PROVE  DagSpec => []CommittedAll
<1>1. DagInv => CommittedAll
  BY DEF DagInv
<1> QED BY <1>1, DagInvariant, PTL

LEMMA BlockedServesNone ==
  ASSUME DagInv, Blocked, NEW w \in Worker
  PROVE  task[w].pc \notin {"work", "review", "commit", "decide"}
<1>1. RequestStands(task[w])
  BY DEF DagInv
<1> QED BY <1>1, TenNodes DEF RequestStands, Serving, NoNode

LEMMA BlockedStep ==
  ASSUME DagInv, Blocked, DagNext, NEW n \in NodeId, nodes'[n] \in {"running", "succeeded"}
  PROVE  nodes'[n] = nodes[n]
<1>1. PICK w \in Worker :
        \/ Advance(w)
        \/ Review(w)
        \/ \E from \in NodeId, rebuild \in BOOLEAN : Rerun(w, from, rebuild)
        \/ CancelDag(w)
        \/ \E c \in Candidate : Beside(w, c)
  BY DEF DagNext
<1>2. task[w].pc \notin {"work", "review", "commit", "decide"}
  BY BlockedServesNone
<1>3. CASE Advance(w)
  <2>1. StartAdvance(w) \/ Scan(w) \/ EndRound(w)
    BY <1>2, <1>3 DEF Advance, NextNode, PlainSucceeds, NodeFails, NodeRaises, Extracted, Validated,
                      EnterReview, CommitOne, CommitRefused, CommitEnds, Working, At
  <2> QED BY <2>1 DEF StartAdvance, Scan, EndRound
<1>4. CASE Review(w)
  BY <1>2, <1>4 DEF Review, StartReview, DecideOne, EndReview, At
<1>5. ASSUME NEW from \in NodeId, NEW rebuild \in BOOLEAN, Rerun(w, from, rebuild)
      PROVE  nodes'[n] = nodes[n]
  <2>1. PICK S : nodes' = [m \in NodeId |-> IF m \in S THEN "pending" ELSE nodes[m]]
    BY <1>5 DEF Rerun
  <2> QED BY <2>1
<1>6. CASE CancelDag(w)
  BY <1>6 DEF CancelDag
<1>7. ASSUME NEW c, Beside(w, c)
      PROVE  nodes'[n] = nodes[n]
  BY <1>7 DEF Beside
<1> QED BY <1>1, <1>3, <1>4, <1>5, <1>6, <1>7

\* While a blocker stands no node starts and none succeeds, whichever had been
\* found ready before (_fail_node, and the looks at blocked in advance).
THEOREM BlockedStops ==
  ASSUME ~Overlap
  PROVE  DagSpec => NothingRunsBlocked
<1> DEFINE Stops == Blocked /\ Blocked' =>
                      \A n \in NodeId :
                        nodes'[n] \in {"running", "succeeded"} => nodes'[n] = nodes[n]
<1>1. DagInv /\ [DagNext]_dagVars => [Stops]_dagVars
  BY BlockedStep
<1> QED BY <1>1, DagInvariant, PTL DEF DagSpec, NothingRunsBlocked

-----------------------------------------------------------------------------
(* The inductive invariant of Scheduler *)

TickRow == [queue: Seq(Nat), limits: Configs \cup {NoLimits}, plan: Seq(Scene), dag: Nat]

SeenRow == [scene: Scene, status: DagSeen]

\* The DAGs that belong to a run: those whose tokens have been charged.
TakenOf(R) == UNION {R[r].dags : r \in DOMAIN R}

RunsStand(R, D) ==
  /\ R \in Seq(RunRow)
  /\ Len(R) <= MaxRuns
  /\ \A r \in DOMAIN R : R[r].dags \subseteq DOMAIN D

SeenStand(D) == D \in Seq(SeenRow) /\ Len(D) <= MaxDags

\* What a request waits for: runs that there are, and scenes that depend on nothing.
Asked(t, R) ==
  /\ t \in TickRow
  /\ \A k \in DOMAIN t.queue : t.queue[k] \in DOMAIN R
  /\ t.queue # <<>> => t.limits \in Configs
  /\ t.plan # <<>> => t.queue # <<>>
  /\ \A k \in DOMAIN t.plan : DependsOn[t.plan[k]] = {}

\* The DAG in hand is for the next scene of the plan, and is nobody's yet.
InHand(t, D, T) ==
  t.dag # NoDag => /\ t.dag \in DOMAIN D
                   /\ t.dag \notin T
                   /\ t.plan # <<>>
                   /\ D[t.dag].scene = Head(t.plan)

OneHand == \A v, w \in Ticker : request[v].dag = request[w].dag => v = w \/ request[v].dag = NoDag

TicksStand ==
  /\ request = [w \in Ticker |-> request[w]]
  /\ \A w \in Ticker : Asked(request[w], runs)
  /\ \A w \in Ticker : InHand(request[w], dags, TakenOf(runs))
  /\ OneHand

TakenFree(R, D) == \A d \in TakenOf(R) : DependsOn[D[d].scene] = {}

SchedInv ==
  /\ approved \subseteq Scene
  /\ config \in Configs
  /\ alerts \subseteq (DOMAIN runs) \X AlertKind
  /\ SeenStand(dags)
  /\ RunsStand(runs, dags)
  /\ TicksStand
  /\ spent \in Nat
  /\ spent <= Cardinality(TakenOf(runs))
  /\ TakenFree(runs, dags)

\* What one ticking thread may rely on in the middle of a plan, whatever the
\* editor and the DAGs have done since it was made.
OneTicker == \A v, w \in Ticker : v = w

OneScene(R, D) ==
  \A r \in DOMAIN R : \A d, e \in R[r].dags : D[d].scene = D[e].scene => d = e

Suits(plan, r, limits, R, D, S) ==
  /\ \A i, j \in DOMAIN plan : plan[i] = plan[j] => i = j
  /\ \A k \in DOMAIN plan : \A d \in R[r].dags : D[d].scene # plan[k]
  /\ Cardinality(R[r].dags) + Len(plan) <= limits.concurrency
  /\ S < limits.budget \/ R[r].status = "cancelled"

PlanFits(t, R, D, S) == t.plan # <<>> => Suits(t.plan, Head(t.queue), t.limits, R, D, S)

AloneInv ==
  /\ SchedInv
  /\ OneScene(runs, dags)
  /\ \A w \in Ticker : PlanFits(request[w], runs, dags, spent)

-----------------------------------------------------------------------------
(* Induction up to a bound, and the recursions that Scheduler is built from *)

LEMMA LeastNat ==
  ASSUME NEW T, T \subseteq Nat, T # {}
  PROVE  \E x \in T : \A y \in T : x <= y
<1> DEFINE Upto == {0 .. n : n \in T}
<1>1. IsWellFoundedOn(StrictSubsetOrdering(Nat), FiniteSubsetsOf(Nat))
  BY FS_StrictSubsetOrderingWellFounded
<1>2. \A n \in T : 0 .. n \in FiniteSubsetsOf(Nat)
  BY FS_Interval DEF FiniteSubsetsOf
<1>3. Upto \subseteq FiniteSubsetsOf(Nat) /\ Upto # {}
  BY <1>2
<1>4. PICK X \in Upto : \A Y \in Upto : ~(<<Y, X>> \in StrictSubsetOrdering(Nat))
  BY <1>1, <1>3, WFMin
<1>5. PICK x \in T : X = 0 .. x
  BY <1>4
<1>6. ASSUME NEW y \in T
      PROVE  x <= y
  <2>1. 0 .. y \in SUBSET Nat /\ 0 .. x \in SUBSET Nat /\ 0 .. y \in Upto
    OBVIOUS
  <2>2. ~(0 .. y \subseteq 0 .. x /\ 0 .. y # 0 .. x)
    BY <1>4, <1>5, <2>1 DEF StrictSubsetOrdering
  <2>3. CASE y < x
    <3>1. x \in Nat /\ y \in Nat /\ x \notin 0 .. y /\ x \in 0 .. x /\ 0 .. y \subseteq 0 .. x
      BY <2>3
    <3> QED BY <2>2, <3>1
  <2> QED BY <2>3
<1> QED BY <1>6

LEMMA UpTo ==
  ASSUME NEW n \in Nat, NEW G, 0 \in G, \A i \in 1 .. n : i - 1 \in G => i \in G
  PROVE  \A i \in 0 .. n : i \in G
<1> DEFINE Bad == {i \in 0 .. n : i \notin G}
<1> SUFFICES ASSUME Bad # {}
             PROVE  FALSE
  OBVIOUS
<1>1. Bad \subseteq Nat
  OBVIOUS
<1>2. PICK b \in Bad : \A i \in Bad : b <= i
  <2> HIDE DEF Bad
  <2> QED BY <1>1, LeastNat
<1>3. b \in 1 .. n /\ b - 1 \in 0 .. n /\ ~(b <= b - 1)
  OBVIOUS
<1>4. b - 1 \notin Bad
  <2> HIDE DEF Bad
  <2> QED BY <1>2, <1>3
<1> QED BY <1>3, <1>4

\* A recursion that takes values to values has a solution.
Steps(V, n) == [V \X (1 .. n) -> V]

Solves(f, V, n, base, step) ==
  /\ f \in [0 .. n -> V]
  /\ f[0] = base
  /\ \A i \in 1 .. n : f[i] = step[<<f[i-1], i>>]

LEMMA Recursion ==
  ASSUME NEW n \in Nat, NEW V, NEW base \in V, NEW step \in Steps(V, n)
  PROVE  \E f : Solves(f, V, n, base, step)
<1> USE DEF Steps, Solves
<1> DEFINE G == {m \in 0 .. n : \E f \in [0 .. m -> V] :
                   f[0] = base /\ \A i \in 1 .. m : f[i] = step[<<f[i-1], i>>]}
<1>1. 0 \in G
  <2> DEFINE f == [i \in 0 .. 0 |-> base]
  <2>1. f \in [0 .. 0 -> V] /\ f[0] = base /\ \A i \in 1 .. 0 : f[i] = step[<<f[i-1], i>>]
    OBVIOUS
  <2> HIDE DEF f
  <2>2. 0 \in 0 .. n
    OBVIOUS
  <2> QED BY <2>1, <2>2
<1>2. ASSUME NEW m \in 1 .. n, m - 1 \in G
      PROVE  m \in G
  <2>1. PICK f \in [0 .. m - 1 -> V] :
          f[0] = base /\ \A i \in 1 .. m - 1 : f[i] = step[<<f[i-1], i>>]
    BY <1>2
  <2>2. PICK v \in V : v = step[<<f[m-1], m>>]
    BY <2>1
  <2> DEFINE g == [i \in 0 .. m |-> IF i = m THEN v ELSE f[i]]
  <2>3. g \in [0 .. m -> V] /\ g[0] = base /\ g[m] = v /\ \A i \in 0 .. m - 1 : g[i] = f[i]
    BY <2>1
  <2> HIDE DEF g
  <2>4. ASSUME NEW i \in 1 .. m
        PROVE  g[i] = step[<<g[i-1], i>>]
    <3>1. g[i-1] = f[i-1]
      BY <2>3
    <3>2. CASE i = m
      BY <2>2, <2>3, <3>1, <3>2
    <3>3. CASE i # m
      BY <2>1, <2>3, <3>1, <3>3
    <3> QED BY <3>2, <3>3
  <2> QED BY <2>3, <2>4
<1>3. n \in G
  <2> HIDE DEF G
  <2> QED BY <1>1, <1>2, UpTo
<1> QED BY <1>3

\* What a card depends on is among the scenes it follows.
LEMMA DirectlyFollows ==
  ASSUME SchedulerAssumption, NEW s \in Scene
  PROVE  DependsOn[s] \subseteq AncestorsOf[s]
<1> DEFINE L == Len(StoryOrder)
           V == [Scene -> SUBSET Scene]
           Wider(v) == [x \in Scene |-> v[x] \cup UNION {DependsOn[t] : t \in v[x]}]
           Def(f) == [n \in 0 .. L |-> IF n = 0 THEN DependsOn ELSE Wider(f[n-1])]
           A == CHOOSE f : f = Def(f)
<1>1. L \in Nat /\ DependsOn \in V
  BY LenProperties DEF SchedulerAssumption
<1>2. \A v \in V : Wider(v) \in V
  BY <1>1
<1>3. \A v : v[s] \subseteq Wider(v)[s]
  OBVIOUS
<1>4. AncestorsOf = A[L]
  BY DEF AncestorsOf
<1> HIDE DEF L, V, Wider
<1>5. \E f : f = Def(f)
  <2> DEFINE step == [x \in V \X (1 .. L) |-> Wider(x[1])]
  <2>1. step \in Steps(V, L)
    BY <1>2 DEF Steps
  <2>2. \A v \in V, i \in 1 .. L : step[<<v, i>>] = Wider(v)
    OBVIOUS
  <2> HIDE DEF step, Def, A
  <2>3. PICK f : Solves(f, V, L, DependsOn, step)
    BY <1>1, <2>1, Recursion
  <2>4. \A i \in 1 .. L : i - 1 \in 0 .. L /\ f[i-1] \in V
    BY <1>1, <2>3 DEF Solves
  <2>5. \A i \in 1 .. L : f[i] = Wider(f[i-1])
    BY <2>2, <2>3, <2>4 DEF Solves
  <2>6. \A n \in 0 .. L : f[n] = IF n = 0 THEN DependsOn ELSE Wider(f[n-1])
    BY <1>1, <2>3, <2>5 DEF Solves
  <2>7. f = Def(f)
    BY <2>3, <2>6 DEF Def, Solves
  <2> QED BY <2>7
<1>6. A = Def(A)
  BY <1>5
<1> HIDE DEF A
<1>7. A[0] = DependsOn /\ \A n \in 1 .. L : A[n] = Wider(A[n-1])
  BY <1>1, <1>6
<1> DEFINE G == {n \in 0 .. L : DependsOn[s] \subseteq A[n][s]}
<1>8. 0 \in G
  BY <1>1, <1>7
<1>9. ASSUME NEW n \in 1 .. L, n - 1 \in G
      PROVE  n \in G
  <2>1. A[n] = Wider(A[n-1])
    BY <1>7
  <2>2. A[n-1][s] \subseteq A[n][s]
    BY <1>3, <2>1
  <2> QED BY <1>9, <2>2
<1>10. L \in G
  <2> HIDE DEF G
  <2>1. \A i \in 0 .. L : i \in G
    BY <1>1, <1>8, <1>9, UpTo
  <2> QED BY <1>1, <2>1
<1> QED BY <1>4, <1>10

\* Every card in a plan depends on nothing, and the plan fits beside the DAGs of
\* its run: other scenes, each once, as many as there are slots.
GoodPlan(r, limits, p) ==
  /\ p \in Seq(Scene)
  /\ \A k \in DOMAIN p : DependsOn[p[k]] = {} /\ p[k] \notin ScenesOf(runs[r].dags)
  /\ \A i, j \in DOMAIN p : p[i] = p[j] => i = j
  /\ p # <<>> => Cardinality(InFlight(r)) + Len(p) <= limits.concurrency

Fits(r, limits, p, s) ==
  /\ s \in runs[r].scope
  /\ s \notin ScenesOf(runs[r].dags)
  /\ MayEnqueue(s, InFlight(r) \cup {p[k] : k \in DOMAIN p}, Completed(r), limits)
  /\ Cardinality(InFlight(r)) + Len(p) < limits.concurrency

\* A plan stays good when a scene that may start is added.
LEMMA PlanGrows ==
  ASSUME SchedulerAssumption, NEW r, NEW limits, limits.concurrency \in Nat,
         Cardinality(InFlight(r)) \in Nat,
         NEW p, GoodPlan(r, limits, p), NEW s \in Scene, Fits(r, limits, p, s)
  PROVE  GoodPlan(r, limits, Append(p, s))
<1> DEFINE q == Append(p, s)
<1>1. p \in Seq(Scene) /\ DOMAIN p = 1 .. Len(p) /\ Len(p) \in Nat
  BY LenProperties DEF GoodPlan
<1>2. /\ q \in Seq(Scene) /\ Len(q) = Len(p) + 1 /\ DOMAIN q = 1 .. Len(p) + 1
      /\ q[Len(p) + 1] = s /\ \A k \in DOMAIN p : q[k] = p[k]
  BY <1>1, AppendProperties, LenProperties
<1> HIDE DEF q
<1>3. s \notin {p[k] : k \in DOMAIN p} /\ s \notin ScenesOf(runs[r].dags)
  BY DEF Fits, MayEnqueue
<1>4. DependsOn[s] = {}
  <2>1. Completed(r) \subseteq InFlight(r)
    BY DEF Completed, InFlight, ScenesOf
  <2>2. AncestorsOf[s] \subseteq Completed(r) \ (InFlight(r) \cup {p[k] : k \in DOMAIN p})
    BY DEF Fits, MayEnqueue
  <2>3. AncestorsOf[s] = {}
    BY <2>1, <2>2
  <2> QED BY <2>3, DirectlyFollows
<1>5. \A k \in DOMAIN q : DependsOn[q[k]] = {} /\ q[k] \notin ScenesOf(runs[r].dags)
  BY <1>1, <1>2, <1>3, <1>4 DEF GoodPlan
<1>6. \A i, j \in DOMAIN q : q[i] = q[j] => i = j
  <2>1. \A k \in DOMAIN p : p[k] # s
    BY <1>3
  <2>2. \A i, j \in DOMAIN p : p[i] = p[j] => i = j
    BY DEF GoodPlan
  <2>3. \A i \in DOMAIN q : i \in DOMAIN p \/ i = Len(p) + 1
    BY <1>1, <1>2
  <2> QED BY <1>2, <2>1, <2>2, <2>3
<1>7. Cardinality(InFlight(r)) + Len(q) <= limits.concurrency
  BY <1>1, <1>2 DEF Fits
<1> QED BY <1>2, <1>5, <1>6, <1>7 DEF GoodPlan, q

\* _plan_scenes returns a good plan.
LEMMA PlanIsGood ==
  ASSUME SchedulerAssumption, NEW r, NEW limits, limits.concurrency \in Nat,
         Cardinality(InFlight(r)) \in Nat
  PROVE  GoodPlan(r, limits, Plan(r, limits))
<1> DEFINE L == Len(StoryOrder)
           V == Seq(Scene)
           Grow(v, i) == IF Fits(r, limits, v, StoryOrder[i]) THEN Append(v, StoryOrder[i]) ELSE v
           Def(f) == [i \in 0 .. L |-> IF i = 0 THEN <<>> ELSE Grow(f[i-1], i)]
           P == CHOOSE f : f = Def(f)
<1>1. L \in Nat /\ <<>> \in V /\ \A i \in 1 .. L : StoryOrder[i] \in Scene
  BY LenProperties, ElementOfSeq, EmptySeq DEF SchedulerAssumption
<1>2. \A v \in V, i \in 1 .. L : Grow(v, i) \in V
  BY <1>1, AppendProperties
<1>3. Plan(r, limits) = P[L]
  BY DEF Plan, Fits
<1>4. \A v, i : Grow(v, i) = IF Fits(r, limits, v, StoryOrder[i]) THEN Append(v, StoryOrder[i]) ELSE v
  OBVIOUS
<1> HIDE DEF L, V, Grow
<1>5. \E f : f = Def(f)
  <2> DEFINE step == [x \in V \X (1 .. L) |-> Grow(x[1], x[2])]
  <2>1. step \in Steps(V, L)
    BY <1>2 DEF Steps
  <2>2. \A v \in V, i \in 1 .. L : step[<<v, i>>] = Grow(v, i)
    OBVIOUS
  <2> HIDE DEF step, Def, P
  <2>3. PICK f : Solves(f, V, L, <<>>, step)
    BY <1>1, <2>1, Recursion
  <2>4. \A i \in 1 .. L : i - 1 \in 0 .. L /\ f[i-1] \in V
    BY <1>1, <2>3 DEF Solves
  <2>5. \A i \in 1 .. L : f[i] = Grow(f[i-1], i)
    BY <2>2, <2>3, <2>4 DEF Solves
  <2>6. \A i \in 0 .. L : f[i] = IF i = 0 THEN <<>> ELSE Grow(f[i-1], i)
    BY <1>1, <2>3, <2>5 DEF Solves
  <2>7. f = Def(f)
    BY <2>3, <2>6 DEF Def, Solves
  <2> QED BY <2>7
<1>6. P = Def(P)
  BY <1>5
<1> HIDE DEF P
<1>7. P[0] = <<>> /\ \A i \in 1 .. L : P[i] = Grow(P[i-1], i)
  BY <1>1, <1>6
<1> DEFINE G == {i \in 0 .. L : GoodPlan(r, limits, P[i])}
<1>8. 0 \in G
  <2>1. GoodPlan(r, limits, <<>>)
    BY EmptySeq DEF GoodPlan
  <2> HIDE DEF GoodPlan
  <2> QED BY <1>1, <1>7, <2>1
<1>9. ASSUME NEW i \in 1 .. L, i - 1 \in G
      PROVE  i \in G
  <2>1. P[i] = Grow(P[i-1], i) /\ StoryOrder[i] \in Scene /\ i \in 0 .. L
    BY <1>1, <1>7
  <2>2. GoodPlan(r, limits, P[i-1])
    BY <1>9
  <2>3. GoodPlan(r, limits, P[i])
    BY <1>4, <2>1, <2>2, PlanGrows
  <2> QED BY <2>1, <2>3
<1>10. L \in G
  <2> HIDE DEF G
  <2>1. \A i \in 0 .. L : i \in G
    BY <1>1, <1>8, <1>9, UpTo
  <2> QED BY <1>1, <2>1
<1> QED BY <1>3, <1>10

\* list_running_runs names runs that there are.
LEMMA RunningRunsExist ==
  ASSUME Len(runs) \in Nat, DOMAIN runs = 1 .. Len(runs)
  PROVE  RunningRuns \in Seq(DOMAIN runs)
<1> DEFINE L == Len(runs)
           V == Seq(DOMAIN runs)
           Grow(v, i) == IF runs[i].status = "running" THEN Append(v, i) ELSE v
           Def(f) == [i \in 0 .. L |-> IF i = 0 THEN <<>> ELSE Grow(f[i-1], i)]
           Q == CHOOSE f : f = Def(f)
<1>1. L \in Nat /\ <<>> \in V
  BY EmptySeq
<1>2. \A v \in V, i \in 1 .. L : Grow(v, i) \in V
  BY AppendProperties
<1>3. RunningRuns = Q[L]
  BY DEF RunningRuns
<1> HIDE DEF L, V, Grow
<1>5. \E f : f = Def(f)
  <2> DEFINE step == [x \in V \X (1 .. L) |-> Grow(x[1], x[2])]
  <2>1. step \in Steps(V, L)
    BY <1>2 DEF Steps
  <2>2. \A v \in V, i \in 1 .. L : step[<<v, i>>] = Grow(v, i)
    OBVIOUS
  <2> HIDE DEF step, Def, Q
  <2>3. PICK f : Solves(f, V, L, <<>>, step)
    BY <1>1, <2>1, Recursion
  <2>4. \A i \in 1 .. L : i - 1 \in 0 .. L /\ f[i-1] \in V
    BY <1>1, <2>3 DEF Solves
  <2>5. \A i \in 1 .. L : f[i] = Grow(f[i-1], i)
    BY <2>2, <2>3, <2>4 DEF Solves
  <2>6. \A i \in 0 .. L : f[i] = IF i = 0 THEN <<>> ELSE Grow(f[i-1], i)
    BY <1>1, <2>3, <2>5 DEF Solves
  <2>7. f = Def(f)
    BY <2>3, <2>6 DEF Def, Solves
  <2> QED BY <2>7
<1>6. Q = Def(Q)
  BY <1>5
<1> HIDE DEF Q
<1>7. Q[0] = <<>> /\ \A i \in 1 .. L : Q[i] = Grow(Q[i-1], i)
  BY <1>1, <1>6
<1> DEFINE G == {i \in 0 .. L : Q[i] \in V}
<1>8. 0 \in G
  BY <1>1, <1>7
<1>9. \A i \in 1 .. L : i - 1 \in G => i \in G
  BY <1>1, <1>2, <1>7
<1>10. L \in G
  <2> HIDE DEF G
  <2>1. \A i \in 0 .. L : i \in G
    BY <1>1, <1>8, <1>9, UpTo
  <2> QED BY <1>1, <2>1
<1> QED BY <1>3, <1>10 DEF V

-----------------------------------------------------------------------------
(* Rows *)

LEMMA AppendRow ==
  ASSUME NEW T, NEW rows \in Seq(T), NEW row \in T
  PROVE  /\ Append(rows, row) \in Seq(T)
         /\ Len(Append(rows, row)) = Len(rows) + 1
         /\ DOMAIN Append(rows, row) = DOMAIN rows \cup {Len(rows) + 1}
         /\ Len(rows) + 1 \notin DOMAIN rows
         /\ Append(rows, row)[Len(rows) + 1] = row
         /\ \A i \in DOMAIN rows : Append(rows, row)[i] = rows[i]
<1>1. Len(rows) \in Nat /\ DOMAIN rows = 1 .. Len(rows)
  BY LenProperties
<1>2. /\ Append(rows, row) \in Seq(T)
      /\ Len(Append(rows, row)) = Len(rows) + 1
      /\ Append(rows, row)[Len(rows) + 1] = row
      /\ \A i \in 1 .. Len(rows) : Append(rows, row)[i] = rows[i]
  BY AppendProperties
<1>3. DOMAIN Append(rows, row) = 1 .. Len(rows) + 1
  BY <1>2, LenProperties
<1> QED BY <1>1, <1>2, <1>3

LEMMA SetRow ==
  ASSUME NEW T, NEW rows \in Seq(T), NEW i \in DOMAIN rows, NEW row \in T
  PROVE  /\ [rows EXCEPT ![i] = row] \in Seq(T)
         /\ Len([rows EXCEPT ![i] = row]) = Len(rows)
         /\ DOMAIN [rows EXCEPT ![i] = row] = DOMAIN rows
         /\ [rows EXCEPT ![i] = row][i] = row
         /\ \A j \in DOMAIN rows : j # i => [rows EXCEPT ![i] = row][j] = rows[j]
<1>1. DOMAIN rows = 1 .. Len(rows)
  BY LenProperties
<1> QED BY <1>1, ExceptSeq


LEMMA TakenFinite ==
  ASSUME SchedulerAssumption, NEW R, NEW D, RunsStand(R, D), SeenStand(D)
  PROVE  /\ TakenOf(R) \subseteq DOMAIN D
         /\ IsFiniteSet(TakenOf(R))
         /\ Cardinality(TakenOf(R)) \in Nat
         /\ Cardinality(TakenOf(R)) <= Len(D)
         /\ \A r \in DOMAIN R : IsFiniteSet(R[r].dags) /\ Cardinality(R[r].dags) \in Nat
<1>1. DOMAIN D = 1 .. Len(D) /\ Len(D) \in Nat
  BY LenProperties DEF SeenStand
<1>2. IsFiniteSet(DOMAIN D) /\ Cardinality(DOMAIN D) = Len(D)
  <2>1. PICK n \in Nat : n = Len(D)
    BY <1>1
  <2>2. IsFiniteSet(1 .. n) /\ Cardinality(1 .. n) = n
    BY FS_Interval
  <2> QED BY <1>1, <2>1, <2>2
<1>3. TakenOf(R) \subseteq DOMAIN D
  BY DEF TakenOf, RunsStand
<1>4. \A r \in DOMAIN R : R[r].dags \subseteq DOMAIN D
  BY DEF RunsStand
<1>5. \A T \in SUBSET (DOMAIN D) :
        IsFiniteSet(T) /\ Cardinality(T) \in Nat /\ Cardinality(T) <= Len(D)
  BY <1>2, FS_Subset, FS_CardinalityType
<1> QED BY <1>3, <1>4, <1>5

LEMMA InFlightFinite ==
  ASSUME SchedulerAssumption, RunsStand(runs, dags), SeenStand(dags), NEW r \in DOMAIN runs
  PROVE  /\ Cardinality(InFlight(r)) \in Nat
         /\ OneScene(runs, dags) => Cardinality(InFlight(r)) = Cardinality(runs[r].dags)
<1> DEFINE T == runs[r].dags
           f == [d \in T |-> dags[d].scene]
<1>1. IsFiniteSet(T)
  BY TakenFinite
<1>2. f \in Surjection(T, InFlight(r))
  BY DEF Surjection, InFlight, ScenesOf
<1>3. OneScene(runs, dags) => \A d, e \in T : f[d] = f[e] => d = e
  BY DEF OneScene
<1>4. T = runs[r].dags
  OBVIOUS
<1> HIDE DEF f, T
<1>5. /\ IsFiniteSet(InFlight(r))
      /\ Cardinality(InFlight(r)) <= Cardinality(T)
      /\ Cardinality(InFlight(r)) = Cardinality(T) <=> f \in Injection(T, InFlight(r))
  BY <1>1, <1>2, FS_Surjection
<1>6. (\A d, e \in T : f[d] = f[e] => d = e) => f \in Injection(T, InFlight(r))
  BY <1>2 DEF Injection, IsInjective, Surjection
<1> QED BY <1>3, <1>4, <1>5, <1>6, FS_CardinalityType

-----------------------------------------------------------------------------
(* Steps that give no DAG to a run *)

RunsKeep(R, S) ==
  /\ S \in Seq(RunRow)
  /\ Len(S) <= MaxRuns
  /\ DOMAIN R \subseteq DOMAIN S
  /\ \A r \in DOMAIN R : S[r].dags = R[r].dags
  /\ \A r \in DOMAIN R : R[r].status = "cancelled" => S[r].status = "cancelled"
  /\ \A r \in (DOMAIN S) \ (DOMAIN R) : S[r].dags = {}

SeenKeep(D, E) ==
  /\ SeenStand(E)
  /\ DOMAIN D \subseteq DOMAIN E
  /\ \A d \in DOMAIN D : E[d].scene = D[d].scene

LEMMA RunsUnchanged ==
  ASSUME NEW R, NEW D, RunsStand(R, D)
  PROVE  RunsKeep(R, R)
BY DEF RunsStand, RunsKeep

LEMMA SeenUnchanged ==
  ASSUME NEW D, SeenStand(D)
  PROVE  SeenKeep(D, D)
BY DEF SeenKeep

LEMMA TakenKept ==
  ASSUME NEW R, NEW S, RunsKeep(R, S)
  PROVE  TakenOf(S) = TakenOf(R)
<1>1. \A d \in TakenOf(S) : d \in TakenOf(R)
  <2> TAKE d \in TakenOf(S)
  <2>1. PICK r \in DOMAIN S : d \in S[r].dags
    BY DEF TakenOf
  <2>2. r \in DOMAIN R /\ d \in R[r].dags
    BY <2>1 DEF RunsKeep
  <2> QED BY <2>2 DEF TakenOf
<1>2. \A d \in TakenOf(R) : d \in TakenOf(S)
  <2> TAKE d \in TakenOf(R)
  <2>1. PICK r \in DOMAIN R : d \in R[r].dags
    BY DEF TakenOf
  <2>2. r \in DOMAIN S /\ d \in S[r].dags
    BY <2>1 DEF RunsKeep
  <2> QED BY <2>2 DEF TakenOf
<1> QED BY <1>1, <1>2

LEMMA TablesKept ==
  ASSUME NEW R, NEW S, NEW D, NEW E, RunsStand(R, D), RunsKeep(R, S), SeenKeep(D, E)
  PROVE  /\ RunsStand(S, E)
         /\ TakenFree(R, D) => TakenFree(S, E)
         /\ OneScene(R, D) => OneScene(S, E)
<1>1. \A r \in DOMAIN S : S[r].dags \subseteq DOMAIN D /\ (r \in DOMAIN R => S[r].dags = R[r].dags)
  BY DEF RunsStand, RunsKeep
<1>2. RunsStand(S, E)
  BY <1>1 DEF RunsStand, RunsKeep, SeenKeep
<1>3. TakenOf(S) = TakenOf(R) /\ TakenOf(R) \subseteq DOMAIN D
  <2>1. TakenOf(S) = TakenOf(R)
    BY TakenKept
  <2>2. TakenOf(R) \subseteq DOMAIN D
    BY DEF TakenOf, RunsStand
  <2> QED BY <2>1, <2>2
<1>4. TakenFree(R, D) => TakenFree(S, E)
  BY <1>3 DEF TakenFree, SeenKeep
<1>5. OneScene(R, D) => OneScene(S, E)
  <2>1. \A d \in DOMAIN D : E[d].scene = D[d].scene
    BY DEF SeenKeep
  <2>2. \A r \in DOMAIN S : r \notin DOMAIN R => S[r].dags = {}
    BY DEF RunsKeep
  <2> QED BY <1>1, <2>1, <2>2 DEF OneScene
<1> QED BY <1>2, <1>4, <1>5

LEMMA AskedKept ==
  ASSUME NEW t, NEW R, NEW S, Asked(t, R), DOMAIN R \subseteq DOMAIN S
  PROVE  Asked(t, S)
BY DEF Asked

LEMMA InHandKept ==
  ASSUME NEW t, NEW D, NEW E, NEW T, NEW U, InHand(t, D, T), SeenKeep(D, E),
         t.dag \in U => t.dag = NoDag \/ t.dag \in T
  PROVE  InHand(t, E, U)
BY DEF InHand, SeenKeep

\* A plan goes on to fit, whatever happens beside it.
LEMMA PlanFitsKept ==
  ASSUME SchedulerAssumption,
         NEW t, NEW R, NEW S, NEW D, NEW E, NEW m, NEW n,
         Asked(t, R), RunsStand(R, D), RunsKeep(R, S), SeenKeep(D, E),
         m \in Nat, n \in {0, m}, PlanFits(t, R, D, m)
  PROVE  PlanFits(t, S, E, n)
<1> SUFFICES ASSUME t.plan # <<>>
             PROVE  Suits(t.plan, Head(t.queue), t.limits, S, E, n)
  BY DEF PlanFits
<1> DEFINE r == Head(t.queue)
<1>1. r \in DOMAIN R
  <2>1. t.queue \in Seq(Nat) /\ t.queue # <<>>
    BY DEF Asked, TickRow
  <2>2. 1 \in DOMAIN t.queue /\ r = t.queue[1]
    BY <2>1, LenProperties, EmptySeq, HeadTailProperties
  <2> QED BY <2>2 DEF Asked
<1>2. Suits(t.plan, r, t.limits, R, D, m)
  BY DEF PlanFits
<1>3. t.limits.budget \in Nat
  BY DEF Asked, SchedulerAssumption, Config
<1>4. /\ S[r].dags = R[r].dags /\ R[r].dags \subseteq DOMAIN D
      /\ R[r].status = "cancelled" => S[r].status = "cancelled"
  BY <1>1 DEF RunsKeep, RunsStand
<1>5. m < t.limits.budget => n < t.limits.budget
  BY <1>3
<1> HIDE DEF r
<1>6. \A d \in DOMAIN D : E[d].scene = D[d].scene
  BY DEF SeenKeep
<1>7. Suits(t.plan, r, t.limits, S, E, n)
  BY <1>2, <1>4, <1>5, <1>6 DEF Suits
<1> QED BY <1>7 DEF r

-----------------------------------------------------------------------------
(* Requests *)

LEMMA TickRowHas ==
  ASSUME NEW t \in TickRow
  PROVE  /\ t.queue \in Seq(Nat) /\ t.plan \in Seq(Scene)
         /\ t.limits \in Configs \cup {NoLimits} /\ t.dag \in Nat
BY DEF TickRow

LEMMA WorkRow ==
  ASSUME NEW q \in Seq(Nat), NEW c \in Configs \cup {NoLimits}
  PROVE  /\ Work(q, c) \in TickRow
         /\ Work(q, c).queue = q
         /\ Work(q, c).limits = c
         /\ Work(q, c).plan = <<>>
         /\ Work(q, c).dag = NoDag
BY EmptySeq DEF Work, TickRow, NoDag

\* A request that has no plan and no DAG in hand.
Bare(t, R) == Asked(t, R) /\ t.plan = <<>> /\ t.dag = NoDag

LEMMA BareServes ==
  ASSUME NEW t, NEW R, Bare(t, R), NEW D, NEW T, NEW n
  PROVE  Asked(t, R) /\ InHand(t, D, T) /\ PlanFits(t, R, D, n) /\ t.dag = NoDag
BY DEF Bare, InHand, PlanFits

LEMMA NewWork ==
  ASSUME NEW R, NEW q \in Seq(Nat), \A k \in DOMAIN q : q[k] \in DOMAIN R, NEW c \in Configs
  PROVE  Bare(Work(q, c), R)
<1>1. /\ Work(q, c) \in TickRow /\ Work(q, c).queue = q /\ Work(q, c).limits = c
      /\ Work(q, c).plan = <<>> /\ Work(q, c).dag = NoDag
  BY WorkRow
<1> QED BY <1>1 DEF Bare, Asked

LEMMA NothingAsked ==
  ASSUME NEW R
  PROVE  Bare(NoRequest, R)
<1>1. <<>> \in Seq(Nat) /\ DOMAIN <<>> = {}
  BY EmptySeq
<1>2. /\ NoRequest \in TickRow /\ NoRequest.queue = <<>>
      /\ NoRequest.plan = <<>> /\ NoRequest.dag = NoDag
  BY <1>1, WorkRow DEF NoRequest
<1> QED BY <1>1, <1>2 DEF Bare, Asked

LEMMA HeadOf ==
  ASSUME NEW S, NEW q \in Seq(S), q # <<>>
  PROVE  /\ 1 \in DOMAIN q /\ Head(q) = q[1] /\ Head(q) \in S
         /\ Tail(q) \in Seq(S) /\ Len(q) \in Nat /\ Len(Tail(q)) = Len(q) - 1
         /\ \A k \in DOMAIN Tail(q) : k + 1 \in DOMAIN q /\ Tail(q)[k] = q[k+1]
<1>1. Len(q) \in Nat /\ Len(q) # 0 /\ DOMAIN q = 1 .. Len(q)
  BY LenProperties, EmptySeq
<1>2. Head(q) = q[1] /\ Head(q) \in S /\ Tail(q) \in Seq(S) /\ Len(Tail(q)) = Len(q) - 1
      /\ \A k \in 1 .. Len(Tail(q)) : Tail(q)[k] = q[k+1]
  BY HeadTailProperties
<1>3. DOMAIN Tail(q) = 1 .. Len(Tail(q))
  BY <1>2, LenProperties
<1> QED BY <1>1, <1>2, <1>3

LEMMA NextRunServes ==
  ASSUME NEW R, NEW t, Asked(t, R), t.queue # <<>>, config \in Configs
  PROVE  Bare(NextRun(t), R)
<1>1. t.queue \in Seq(Nat) /\ \A k \in DOMAIN t.queue : t.queue[k] \in DOMAIN R
  BY DEF Asked, TickRow
<1>2. Tail(t.queue) \in Seq(Nat) /\ \A k \in DOMAIN Tail(t.queue) : Tail(t.queue)[k] \in DOMAIN R
  BY <1>1, HeadOf
<1>3. Bare(Work(Tail(t.queue), config), R)
  BY <1>2, NewWork
<1> QED BY <1>3, NothingAsked DEF NextRun

LEMMA RestServes ==
  ASSUME NEW R, NEW t, Asked(t, R), t.queue # <<>>, config \in Configs,
         NEW plan \in Seq(Scene), \A k \in DOMAIN plan : DependsOn[plan[k]] = {},
         NEW D, NEW T, NEW n
  PROVE  /\ Asked(Rest(t, plan), R)
         /\ InHand(Rest(t, plan), D, T)
         /\ Rest(t, plan).dag = NoDag
         /\ (plan # <<>> => Suits(plan, Head(t.queue), t.limits, R, D, n)) =>
              PlanFits(Rest(t, plan), R, D, n)
<1>1. CASE plan = <<>>
  BY <1>1, NextRunServes, BareServes DEF Rest
<1>2. CASE plan # <<>>
  <2> DEFINE u == [t EXCEPT !.plan = plan, !.dag = NoDag]
  <2>1. t \in TickRow
    BY DEF Asked
  <2>2. /\ u \in TickRow /\ u.queue = t.queue /\ u.limits = t.limits
        /\ u.plan = plan /\ u.dag = NoDag
    BY <2>1 DEF TickRow, NoDag
  <2>3. Rest(t, plan) = u
    BY <1>2 DEF Rest
  <2> HIDE DEF u
  <2>4. Asked(u, R)
    BY <2>2 DEF Asked
  <2>5. /\ InHand(u, D, T)
        /\ Suits(plan, Head(t.queue), t.limits, R, D, n) => PlanFits(u, R, D, n)
    BY <2>2 DEF InHand, PlanFits
  <2> QED BY <1>2, <2>2, <2>3, <2>4, <2>5
<1> QED BY <1>1, <1>2

LEMMA TicksStay ==
  ASSUME SchedInv, SeenKeep(dags, dags'), DOMAIN runs \subseteq DOMAIN runs',
         TakenOf(runs') = TakenOf(runs), request' = request
  PROVE  TicksStand'
<1>1. \A w \in Ticker : Asked(request[w], runs')
  BY AskedKept DEF SchedInv, TicksStand
<1>2. \A w \in Ticker : InHand(request[w], dags', TakenOf(runs'))
  BY InHandKept DEF SchedInv, TicksStand
<1> QED BY <1>1, <1>2 DEF SchedInv, TicksStand, OneHand

\* The request of w goes on to t.
Served(w, t) ==
  /\ request' = [request EXCEPT ![w] = t]
  /\ Asked(t, runs')
  /\ InHand(t, dags', TakenOf(runs'))
  /\ t.dag = NoDag \/ t.dag \notin DOMAIN dags

LEMMA TicksGo ==
  ASSUME SchedInv, SeenKeep(dags, dags'), DOMAIN runs \subseteq DOMAIN runs',
         NEW w \in Ticker, NEW t, Served(w, t),
         TakenOf(runs') \subseteq TakenOf(runs) \cup {request[w].dag}
  PROVE  /\ TicksStand'
         /\ request'[w] = t
         /\ \A v \in Ticker : v # w => request'[v] = request[v]
<1>1. request' = [request EXCEPT ![w] = t] /\ request = [v \in Ticker |-> request[v]]
  BY DEF Served, SchedInv, TicksStand
<1>2. /\ request' = [v \in Ticker |-> request'[v]] /\ request'[w] = t
      /\ \A v \in Ticker : v # w => request'[v] = request[v]
  BY <1>1
<1>3. OneHand /\ \A v \in Ticker : Asked(request[v], runs) /\ InHand(request[v], dags, TakenOf(runs))
  BY DEF SchedInv, TicksStand
<1>4. \A v \in Ticker : Asked(request'[v], runs')
  BY <1>2, <1>3, AskedKept DEF Served
<1>5. \A v \in Ticker : InHand(request'[v], dags', TakenOf(runs'))
  <2> TAKE v \in Ticker
  <2>1. CASE v = w
    BY <1>2, <2>1 DEF Served
  <2>2. CASE v # w
    <3>1. request[v].dag \in TakenOf(runs') => request[v].dag = NoDag \/ request[v].dag \in TakenOf(runs)
      BY <1>3, <2>2 DEF OneHand
    <3>2. InHand(request[v], dags', TakenOf(runs'))
      BY <1>3, <3>1, InHandKept
    <3> QED BY <1>2, <2>2, <3>2
  <2> QED BY <2>1, <2>2
<1>6. OneHand'
  <2>1. \A v \in Ticker : request[v].dag = NoDag \/ request[v].dag \in DOMAIN dags
    BY <1>3 DEF InHand
  <2>2. ASSUME NEW v \in Ticker, NEW u \in Ticker, request'[v].dag = request'[u].dag, v # u
        PROVE  request'[v].dag = NoDag
    BY <1>2, <1>3, <2>1, <2>2 DEF OneHand, Served
  <2> QED BY <2>2 DEF OneHand
<1> QED BY <1>2, <1>4, <1>5, <1>6 DEF TicksStand

-----------------------------------------------------------------------------
(* What a step leaves of the invariants *)

TablesGo ==
  /\ approved' \subseteq Scene
  /\ config' \in Configs
  /\ alerts' \subseteq (DOMAIN runs') \X AlertKind
  /\ SeenKeep(dags, dags')
  /\ RunsKeep(runs, runs')
  /\ spent' \in {0, spent}

LEMMA TablesGoOn ==
  ASSUME SchedulerAssumption, SchedInv, TablesGo, TicksStand'
  PROVE  /\ SchedInv'
         /\ OneScene(runs, dags) => OneScene(runs', dags')
         /\ \A r \in DOMAIN runs : runs'[r].dags = runs[r].dags
<1>1. /\ RunsStand(runs', dags')
      /\ TakenFree(runs', dags')
      /\ OneScene(runs, dags) => OneScene(runs', dags')
  BY TablesKept DEF SchedInv, TablesGo
<1>2. TakenOf(runs') = TakenOf(runs)
  BY TakenKept DEF TablesGo
<1>3. spent' \in Nat /\ spent' <= Cardinality(TakenOf(runs'))
  <2>1. PICK m \in Nat : m = Cardinality(TakenOf(runs))
    BY TakenFinite DEF SchedInv
  <2>2. spent \in Nat /\ spent <= m /\ spent' \in {0, spent}
    BY <2>1 DEF SchedInv, TablesGo
  <2> QED BY <1>2, <2>1, <2>2
<1>4. SeenStand(dags')
  BY DEF TablesGo, SeenKeep
<1> QED BY <1>1, <1>3, <1>4 DEF SchedInv, TablesGo, RunsKeep

\* The step keeps the invariants, and gives no run a DAG.
PlainStep ==
  /\ SchedInv'
  /\ AloneInv => AloneInv'
  /\ \A r \in DOMAIN runs : runs'[r].dags = runs[r].dags

LEMMA OthersFit ==
  ASSUME SchedulerAssumption, AloneInv, TablesGo, NEW v \in Ticker, request'[v] = request[v]
  PROVE  PlanFits(request'[v], runs', dags', spent')
<1>1. /\ Asked(request[v], runs) /\ RunsStand(runs, dags) /\ spent \in Nat
      /\ PlanFits(request[v], runs, dags, spent)
  BY DEF AloneInv, SchedInv, TicksStand
<1>2. RunsKeep(runs, runs') /\ SeenKeep(dags, dags') /\ spent' \in {0, spent}
  BY DEF TablesGo
<1> QED BY <1>1, <1>2, PlanFitsKept

LEMMA TicksWait ==
  ASSUME SchedulerAssumption, SchedInv, TablesGo, request' = request
  PROVE  PlainStep
<1>1. TicksStand'
  <2>1. TakenOf(runs') = TakenOf(runs) /\ DOMAIN runs \subseteq DOMAIN runs' /\ SeenKeep(dags, dags')
    BY TakenKept DEF TablesGo, RunsKeep
  <2> QED BY <2>1, TicksStay
<1>2. ASSUME AloneInv
      PROVE  \A w \in Ticker : PlanFits(request'[w], runs', dags', spent')
  BY <1>2, OthersFit
<1>3. /\ SchedInv'
      /\ OneScene(runs, dags) => OneScene(runs', dags')
      /\ \A r \in DOMAIN runs : runs'[r].dags = runs[r].dags
  BY <1>1, TablesGoOn
<1> QED BY <1>2, <1>3 DEF PlainStep, AloneInv

LEMMA TickServed ==
  ASSUME SchedulerAssumption, SchedInv, TablesGo,
         NEW w \in Ticker, NEW t, Served(w, t),
         AloneInv => PlanFits(t, runs', dags', spent')
  PROVE  PlainStep
<1>1. /\ TicksStand'
      /\ request'[w] = t
      /\ \A v \in Ticker : v # w => request'[v] = request[v]
  <2>1. TakenOf(runs') = TakenOf(runs) /\ DOMAIN runs \subseteq DOMAIN runs' /\ SeenKeep(dags, dags')
    BY TakenKept DEF TablesGo, RunsKeep
  <2> QED BY <2>1, TicksGo
<1>2. ASSUME AloneInv
      PROVE  \A v \in Ticker : PlanFits(request'[v], runs', dags', spent')
  BY <1>1, <1>2, OthersFit
<1>3. /\ SchedInv'
      /\ OneScene(runs, dags) => OneScene(runs', dags')
      /\ \A r \in DOMAIN runs : runs'[r].dags = runs[r].dags
  BY <1>1, TablesGoOn
<1> QED BY <1>2, <1>3 DEF PlainStep, AloneInv

LEMMA SetRun ==
  ASSUME SchedInv, NEW r \in DOMAIN runs, NEW row \in RunRow, row.dags = runs[r].dags,
         runs[r].status = "cancelled" => row.status = "cancelled",
         runs' = [runs EXCEPT ![r] = row]
  PROVE  RunsKeep(runs, runs') /\ DOMAIN runs' = DOMAIN runs /\ runs'[r] = row
<1>1. runs \in Seq(RunRow) /\ Len(runs) <= MaxRuns
  BY DEF SchedInv, RunsStand
<1>2. /\ runs' \in Seq(RunRow) /\ Len(runs') = Len(runs)
      /\ DOMAIN runs' = DOMAIN runs /\ runs'[r] = row
      /\ \A i \in DOMAIN runs : i # r => runs'[i] = runs[i]
  BY <1>1, SetRow
<1> QED BY <1>1, <1>2 DEF RunsKeep

LEMMA AddRun ==
  ASSUME SchedInv, NEW row \in RunRow, row.dags = {}, Len(runs) < MaxRuns,
         runs' = Append(runs, row), MaxRuns \in Nat
  PROVE  /\ RunsKeep(runs, runs') /\ DOMAIN runs' = DOMAIN runs \cup {Len(runs) + 1}
         /\ Len(runs) + 1 \in Nat
<1>1. runs \in Seq(RunRow)
  BY DEF SchedInv, RunsStand
<1>2. /\ runs' \in Seq(RunRow) /\ Len(runs') = Len(runs) + 1
      /\ DOMAIN runs' = DOMAIN runs \cup {Len(runs) + 1}
      /\ Len(runs) + 1 \notin DOMAIN runs
      /\ runs'[Len(runs) + 1] = row
      /\ \A i \in DOMAIN runs : runs'[i] = runs[i]
  BY <1>1, AppendRow
<1>3. Len(runs) \in Nat
  BY <1>1, LenProperties
<1> QED BY <1>2, <1>3 DEF RunsKeep

LEMMA RunIs ==
  ASSUME SchedInv, NEW r \in DOMAIN runs
  PROVE  runs[r] \in RunRow
BY ElementOfSeq, LenProperties DEF SchedInv, RunsStand

LEMMA PausedRow ==
  ASSUME NEW row \in RunRow, NEW reason \in Reason
  PROVE  /\ Paused(row, reason) \in RunRow
         /\ Paused(row, reason).dags = row.dags
         /\ row.status = "cancelled" => Paused(row, reason) = row
         /\ row.status # "cancelled" => Paused(row, reason).status = "paused"
BY DEF Paused, RunRow, RunStatus

-----------------------------------------------------------------------------
(* start, tick and what the loop does before a DAG is the run's *)

\* The request of w, and the run it is at.
LEMMA AtRun ==
  ASSUME SchedInv, NEW w \in Ticker
  PROVE  /\ Asked(request[w], runs)
         /\ InHand(request[w], dags, TakenOf(runs))
         /\ request[w].plan \in Seq(Scene)
         /\ request[w].queue # <<>> =>
              /\ Head(request[w].queue) \in DOMAIN runs
              /\ request[w].limits \in Configs
         /\ request[w].plan # <<>> => request[w].queue # <<>>
<1>1. Asked(request[w], runs) /\ InHand(request[w], dags, TakenOf(runs))
  BY DEF SchedInv, TicksStand
<1>2. request[w].plan \in Seq(Scene) /\ request[w].queue \in Seq(Nat)
  BY <1>1, TickRowHas DEF Asked
<1>3. request[w].queue # <<>> => Head(request[w].queue) \in DOMAIN runs
  BY <1>1, <1>2, HeadOf DEF Asked
<1> QED BY <1>1, <1>2, <1>3 DEF Asked

LEMMA LimitsAre ==
  ASSUME SchedulerAssumption, NEW c \in Configs
  PROVE  c.concurrency \in Nat /\ c.budget \in Nat /\ c.threshold \in Nat
BY DEF SchedulerAssumption, Config

LEMMA StartRunKeeps ==
  ASSUME SchedulerAssumption, SchedInv, NEW w \in Ticker, NEW scope \in Scopes,
         StartRun(w, scope)
  PROVE  PlainStep
<1> DEFINE row == NewRun("running", scope)
<1>1. row \in RunRow /\ row.dags = {} /\ MaxRuns \in Nat
  BY DEF SchedulerAssumption, NewRun, RunRow, RunStatus, Reason
<1>2. runs' = Append(runs, row) /\ Len(runs) < MaxRuns
  BY DEF StartRun
<1> HIDE DEF row
<1>3. RunsKeep(runs, runs') /\ Len(runs) + 1 \in DOMAIN runs' /\ Len(runs) + 1 \in Nat
  BY <1>1, <1>2, AddRun
<1>4. TablesGo
  BY <1>3, SeenUnchanged DEF TablesGo, StartRun, SchedInv, RunsKeep
<1> DEFINE n == Len(runs) + 1
           q == <<n>>
<1>5. q \in Seq(Nat) /\ \A k \in DOMAIN q : q[k] \in DOMAIN runs'
  BY <1>3
<1> HIDE DEF q
<1>6. Bare(Work(q, config), runs')
  BY <1>5, NewWork DEF SchedInv
<1>7. request' = [request EXCEPT ![w] = Work(q, config)]
  BY DEF StartRun, q
<1>8. Served(w, Work(q, config)) /\ PlanFits(Work(q, config), runs', dags', spent')
  BY <1>6, <1>7, BareServes DEF Served
<1> QED BY <1>4, <1>8, TickServed

LEMMA TickKeeps ==
  ASSUME SchedulerAssumption, SchedInv, NEW w \in Ticker, Tick(w)
  PROVE  PlainStep
<1>1. TablesGo
  BY RunsUnchanged, SeenUnchanged DEF TablesGo, Tick, SchedInv
<1> DEFINE q == RunningRuns
<1>2. q \in Seq(Nat) /\ \A k \in DOMAIN q : q[k] \in DOMAIN runs
  <2>1. Len(runs) \in Nat /\ DOMAIN runs = 1 .. Len(runs)
    BY LenProperties DEF SchedInv, RunsStand
  <2>2. q \in Seq(DOMAIN runs)
    BY <2>1, RunningRunsExist
  <2> HIDE DEF q
  <2>3. Len(q) \in Nat /\ DOMAIN q = 1 .. Len(q) /\ \A k \in DOMAIN q : q[k] \in DOMAIN runs
    BY <2>2, LenProperties, ElementOfSeq
  <2>4. q \in [1 .. Len(q) -> DOMAIN runs]
    BY <2>2, LenProperties
  <2>5. q \in [1 .. Len(q) -> Nat]
    BY <2>1, <2>4
  <2> QED BY <2>3, <2>5, SeqDef
<1>3. request' = [request EXCEPT ![w] = Work(q, config)]
  BY DEF Tick
<1> HIDE DEF q
<1>4. Bare(Work(q, config), runs')
  BY <1>2, NewWork DEF SchedInv, Tick
<1>5. Served(w, Work(q, config)) /\ PlanFits(Work(q, config), runs', dags', spent')
  BY <1>3, <1>4, BareServes DEF Served
<1> QED BY <1>1, <1>5, TickServed

LEMMA MovesOn ==
  ASSUME SchedulerAssumption, SchedInv, TablesGo, NEW w \in Ticker,
         request[w].queue # <<>>,
         request' = [request EXCEPT ![w] = NextRun(request[w])]
  PROVE  PlainStep
<1> DEFINE t == NextRun(request[w])
<1>1. Asked(request[w], runs')
  BY AtRun, AskedKept DEF TablesGo, RunsKeep
<1>2. Bare(t, runs')
  BY <1>1, NextRunServes DEF SchedInv
<1> HIDE DEF t
<1>3. request' = [request EXCEPT ![w] = t]
  BY DEF t
<1>4. Served(w, t) /\ PlanFits(t, runs', dags', spent')
  BY <1>2, <1>3, BareServes DEF Served
<1> QED BY <1>4, TickServed

LEMMA PauseRunKeeps ==
  ASSUME SchedInv, NEW r \in DOMAIN runs, NEW row \in RunRow, NEW reason \in AlertKind,
         row.dags = runs[r].dags, row.status = runs[r].status, PauseRun(r, row, reason)
  PROVE  RunsKeep(runs, runs') /\ alerts' \subseteq (DOMAIN runs') \X AlertKind
<1> DEFINE new == Paused(row, reason)
<1>1. new \in RunRow /\ new.dags = row.dags /\ (row.status = "cancelled" => new = row)
  BY PausedRow DEF Reason
<1>2. runs' = [runs EXCEPT ![r] = new]
  BY DEF PauseRun
<1> HIDE DEF new
<1>3. RunsKeep(runs, runs') /\ DOMAIN runs' = DOMAIN runs
  BY <1>1, <1>2, SetRun
<1>4. alerts' \subseteq (DOMAIN runs) \X AlertKind
  BY DEF PauseRun, SchedInv
<1> QED BY <1>3, <1>4

LEMMA AdvanceRunKeeps ==
  ASSUME SchedulerAssumption, SchedInv, NEW w \in Ticker, AdvanceRun(w)
  PROVE  PlainStep
<1> DEFINE t == request[w]
           r == Head(t.queue)
<1>1. /\ t.queue # <<>> /\ t.plan = <<>>
      /\ approved' = approved /\ dags' = dags /\ spent' = spent /\ config' = config
  BY DEF AdvanceRun
<1>2. /\ r \in DOMAIN runs /\ t.limits \in Configs /\ runs[r] \in RunRow
      /\ Asked(t, runs)
  BY <1>1, AtRun, RunIs
<1>3. SeenKeep(dags, dags')
  BY <1>1, SeenUnchanged DEF SchedInv
<1>4. CASE /\ UNCHANGED <<runs, alerts>>
           /\ request' = [request EXCEPT ![w] = NextRun(t)]
  <2>1. TablesGo
    BY <1>1, <1>3, <1>4, RunsUnchanged DEF TablesGo, SchedInv
  <2> QED BY <1>1, <1>4, <2>1, MovesOn
<1>5. CASE /\ \E reason \in AlertKind : PauseRun(r, runs[r], reason)
           /\ request' = [request EXCEPT ![w] = NextRun(t)]
  <2>1. PICK reason \in AlertKind : PauseRun(r, runs[r], reason)
    BY <1>5
  <2>2. RunsKeep(runs, runs') /\ alerts' \subseteq (DOMAIN runs') \X AlertKind
    BY <1>2, <2>1, PauseRunKeeps
  <2>3. TablesGo
    BY <1>1, <1>3, <2>2 DEF TablesGo, SchedInv
  <2> QED BY <1>1, <1>5, <2>3, MovesOn
<1>6. CASE /\ runs[r].status # "cancelled"
           /\ spent < t.limits.budget
           /\ runs' = IF runs[r].scope = {}
                      THEN [runs EXCEPT ![r].status = "succeeded"] ELSE runs
           /\ request' = [request EXCEPT ![w] = Rest(t, Plan(r, t.limits))]
           /\ UNCHANGED alerts
  <2>1. RunsKeep(runs, runs')
    <3>1. CASE runs' = runs
      BY <3>1, RunsUnchanged DEF SchedInv
    <3>2. CASE runs' = [runs EXCEPT ![r].status = "succeeded"]
      <4>1. PICK row : row = [runs[r] EXCEPT !.status = "succeeded"]
        OBVIOUS
      <4>2. row \in RunRow /\ row.dags = runs[r].dags
        BY <1>2, <4>1 DEF RunRow, RunStatus
      <4>3. runs' = [runs EXCEPT ![r] = row]
        BY <3>2, <4>1
      <4> QED BY <1>2, <1>6, <4>2, <4>3, SetRun
    <3> QED BY <1>6, <3>1, <3>2
  <2>2. TablesGo
    BY <1>1, <1>3, <1>6, <2>1 DEF TablesGo, SchedInv, RunsKeep
  <2> DEFINE plan == Plan(r, t.limits)
  <2>3. GoodPlan(r, t.limits, plan)
    <3>1. Cardinality(InFlight(r)) \in Nat
      BY <1>2, InFlightFinite DEF SchedInv
    <3>2. t.limits.concurrency \in Nat
      BY <1>2, LimitsAre
    <3> QED BY <3>1, <3>2, PlanIsGood
  <2>4. AloneInv => Cardinality(InFlight(r)) = Cardinality(runs[r].dags)
    BY <1>2, InFlightFinite DEF SchedInv, AloneInv
  <2>5. Asked(t, runs') /\ runs'[r].dags = runs[r].dags
    BY <1>2, <2>1, AskedKept DEF RunsKeep
  <2> HIDE DEF t, r, plan
  <2>6. AloneInv => (plan # <<>> => Suits(plan, r, t.limits, runs', dags', spent'))
    BY <1>1, <1>6, <2>3, <2>4, <2>5 DEF GoodPlan, Suits, ScenesOf
  <2>7. plan \in Seq(Scene) /\ \A k \in DOMAIN plan : DependsOn[plan[k]] = {}
    BY <2>3 DEF GoodPlan
  <2>8. config \in Configs
    BY DEF SchedInv
  <2>9. /\ Asked(Rest(t, plan), runs')
        /\ InHand(Rest(t, plan), dags', TakenOf(runs'))
        /\ Rest(t, plan).dag = NoDag
        /\ AloneInv => PlanFits(Rest(t, plan), runs', dags', spent')
    BY <1>1, <2>5, <2>6, <2>7, <2>8, RestServes DEF r
  <2>10. Served(w, Rest(t, plan))
    BY <1>6, <2>9 DEF Served, plan, t, r
  <2> QED BY <2>2, <2>9, <2>10, TickServed
<1>7. AlertKind = {"budget_exceeded", "consecutive_failures"}
  BY DEF AlertKind
<1> QED BY <1>4, <1>5, <1>6, <1>7 DEF AdvanceRun

LEMMA CreateDagKeeps ==
  ASSUME SchedulerAssumption, SchedInv, NEW w \in Ticker, CreateDag(w)
  PROVE  PlainStep
<1> DEFINE t == request[w]
           n == Len(dags) + 1
           new == [scene |-> Head(t.plan), status |-> "open"]
<1>1. /\ t.plan # <<>> /\ Len(dags) < MaxDags /\ dags' = Append(dags, new)
      /\ request' = [request EXCEPT ![w].dag = n]
      /\ approved' = approved /\ runs' = runs /\ spent' = spent
      /\ config' = config /\ alerts' = alerts
  BY DEF CreateDag
<1>2. Asked(t, runs) /\ t.plan \in Seq(Scene) /\ InHand(t, dags, TakenOf(runs))
  BY AtRun
<1>3. new \in SeenRow /\ new.scene = Head(t.plan)
  BY <1>1, <1>2, HeadOf DEF SeenRow, DagSeen
<1>4. dags \in Seq(SeenRow)
  BY DEF SchedInv, SeenStand
<1> HIDE DEF new
<1>5. /\ dags' \in Seq(SeenRow) /\ Len(dags') = n
      /\ DOMAIN dags' = DOMAIN dags \cup {n} /\ n \notin DOMAIN dags
      /\ dags'[n] = new /\ \A d \in DOMAIN dags : dags'[d] = dags[d]
  BY <1>1, <1>3, <1>4, AppendRow
<1>6. Len(dags) \in Nat /\ MaxDags \in Nat
  BY <1>4, LenProperties DEF SchedulerAssumption
<1>7. SeenKeep(dags, dags')
  BY <1>1, <1>5, <1>6 DEF SeenKeep, SeenStand
<1>8. TablesGo
  BY <1>1, <1>7, RunsUnchanged DEF TablesGo, SchedInv
<1>9. PICK u : u = [t EXCEPT !.dag = n]
  OBVIOUS
<1>10. /\ u \in TickRow /\ u.queue = t.queue /\ u.limits = t.limits
       /\ u.plan = t.plan /\ u.dag = n
  <2>1. t \in TickRow /\ n \in Nat
    BY <1>2, <1>6 DEF Asked
  <2> HIDE DEF t, n
  <2> QED BY <1>9, <2>1 DEF TickRow
<1>11. request' = [request EXCEPT ![w] = u]
  BY <1>1, <1>9
<1>12. n \notin TakenOf(runs)
  BY <1>5, TakenFinite DEF SchedInv
<1> HIDE DEF n, t
<1>13. Asked(u, runs')
  BY <1>1, <1>2, <1>10 DEF Asked
<1>14. InHand(u, dags', TakenOf(runs'))
  BY <1>1, <1>3, <1>5, <1>10, <1>12 DEF InHand
<1>15. Served(w, u)
  BY <1>5, <1>10, <1>11, <1>13, <1>14 DEF Served
<1>16. ASSUME AloneInv
       PROVE  PlanFits(u, runs', dags', spent')
  <2>1. PlanFits(t, runs, dags, spent) /\ RunsStand(runs, dags) /\ spent \in Nat
    BY <1>16 DEF AloneInv, SchedInv, t
  <2>2. RunsKeep(runs, runs') /\ spent' \in {0, spent}
    BY <1>8 DEF TablesGo
  <2>3. PlanFits(t, runs', dags', spent')
    BY <1>2, <1>7, <2>1, <2>2, PlanFitsKept
  <2> QED BY <1>10, <2>3 DEF PlanFits
<1> QED BY <1>8, <1>15, <1>16, TickServed

LEMMA TailSuits ==
  ASSUME NEW plan \in Seq(Scene), plan # <<>>, NEW r, NEW limits, NEW R, NEW D, NEW n,
         Cardinality(R[r].dags) \in Nat, limits.concurrency \in Nat,
         Suits(plan, r, limits, R, D, n)
  PROVE  Suits(Tail(plan), r, limits, R, D, n)
<1>1. /\ Len(plan) \in Nat /\ Len(Tail(plan)) = Len(plan) - 1
      /\ \A k \in DOMAIN Tail(plan) : k + 1 \in DOMAIN plan /\ Tail(plan)[k] = plan[k+1]
  BY HeadOf
<1>2. \A k \in DOMAIN Tail(plan) : k \in Nat
  BY HeadOf, LenProperties
<1>3. \A i, j \in DOMAIN Tail(plan) : Tail(plan)[i] = Tail(plan)[j] => i = j
  <2> TAKE i, j \in DOMAIN Tail(plan)
  <2>1. /\ i + 1 \in DOMAIN plan /\ j + 1 \in DOMAIN plan /\ i \in Nat /\ j \in Nat
        /\ Tail(plan)[i] = plan[i+1] /\ Tail(plan)[j] = plan[j+1]
    BY <1>1, <1>2
  <2>2. plan[i+1] = plan[j+1] => i + 1 = j + 1
    BY <2>1 DEF Suits
  <2> QED BY <2>1, <2>2
<1>4. \A k \in DOMAIN Tail(plan) : \A d \in R[r].dags : D[d].scene # Tail(plan)[k]
  BY <1>1 DEF Suits
<1>5. Cardinality(R[r].dags) + Len(Tail(plan)) <= limits.concurrency
  BY <1>1 DEF Suits
<1> QED BY <1>3, <1>4, <1>5 DEF Suits

\* The loop goes on with the rest of the plan, or the tick with the next run.
LEMMA LoopServes ==
  ASSUME SchedInv, NEW w \in Ticker, request[w].plan # <<>>,
         config \in Configs, Asked(request[w], runs'),
         LoopOn(w, Head(request[w].queue)),
         AloneInv /\ runs'[Head(request[w].queue)].status # "paused" =>
           Suits(Tail(request[w].plan), Head(request[w].queue), request[w].limits,
                 runs', dags', spent')
  PROVE  \E t : Served(w, t) /\ (AloneInv => PlanFits(t, runs', dags', spent'))
<1> DEFINE t == request[w]
           plan == Tail(t.plan)
<1>1. t.queue # <<>> /\ t.plan \in Seq(Scene)
  BY AtRun
<1>2. plan \in Seq(Scene) /\ \A k \in DOMAIN plan : DependsOn[plan[k]] = {}
  <2>1. \A k \in DOMAIN t.plan : DependsOn[t.plan[k]] = {}
    BY DEF Asked
  <2>2. /\ plan \in Seq(Scene)
        /\ \A k \in DOMAIN plan : k + 1 \in DOMAIN t.plan /\ plan[k] = t.plan[k+1]
    BY <1>1, HeadOf
  <2> QED BY <2>1, <2>2
<1>3. CASE runs'[Head(t.queue)].status = "paused"
  <2>1. Bare(NextRun(t), runs')
    BY <1>1, NextRunServes
  <2>2. request' = [request EXCEPT ![w] = NextRun(t)]
    BY <1>3 DEF LoopOn
  <2>3. /\ Asked(NextRun(t), runs') /\ InHand(NextRun(t), dags', TakenOf(runs'))
        /\ PlanFits(NextRun(t), runs', dags', spent') /\ NextRun(t).dag = NoDag
    BY <2>1, BareServes
  <2> QED BY <2>2, <2>3 DEF Served
<1>4. CASE runs'[Head(t.queue)].status # "paused"
  <2>1. request' = [request EXCEPT ![w] = Rest(t, plan)]
    BY <1>4 DEF LoopOn
  <2> HIDE DEF t, plan
  <2>2. AloneInv => Suits(plan, Head(t.queue), t.limits, runs', dags', spent')
    BY <1>4 DEF t, plan
  <2>3. Asked(t, runs')
    BY DEF t
  <2>4. /\ Asked(Rest(t, plan), runs')
        /\ InHand(Rest(t, plan), dags', TakenOf(runs'))
        /\ Rest(t, plan).dag = NoDag
        /\ AloneInv => PlanFits(Rest(t, plan), runs', dags', spent')
    BY <1>1, <1>2, <2>2, <2>3, RestServes
  <2> QED BY <2>1, <2>4 DEF Served
<1> QED BY <1>3, <1>4

LEMMA AdvanceRefusedKeeps ==
  ASSUME SchedulerAssumption, SchedInv, NEW w \in Ticker, AdvanceRefused(w)
  PROVE  PlainStep
<1> DEFINE t == request[w]
           r == Head(t.queue)
<1>1. /\ t.dag # NoDag /\ LoopOn(w, r)
      /\ approved' = approved /\ dags' = dags /\ spent' = spent /\ config' = config
  BY DEF AdvanceRefused
<1>2. /\ Asked(t, runs) /\ InHand(t, dags, TakenOf(runs))
      /\ t.plan # <<>> /\ t.plan \in Seq(Scene) /\ r \in DOMAIN runs
      /\ t.limits \in Configs /\ runs[r] \in RunRow
  BY <1>1, AtRun, RunIs DEF InHand
<1>3. PICK row : row = [runs[r] EXCEPT !.failures = @ + 1]
  OBVIOUS
<1>4. row \in RunRow /\ row.dags = runs[r].dags /\ row.status = runs[r].status
  BY <1>2, <1>3 DEF RunRow
<1>5. \/ PauseRun(r, row, "consecutive_failures")
      \/ runs' = [runs EXCEPT ![r] = row] /\ alerts' = alerts
  BY <1>3 DEF AdvanceRefused
<1>6. RunsKeep(runs, runs') /\ alerts' \subseteq (DOMAIN runs') \X AlertKind
  <2>1. CASE PauseRun(r, row, "consecutive_failures")
    BY <1>2, <1>4, <2>1, PauseRunKeeps DEF AlertKind
  <2>2. CASE runs' = [runs EXCEPT ![r] = row] /\ alerts' = alerts
    BY <1>2, <1>4, <2>2, SetRun DEF SchedInv
  <2> QED BY <1>5, <2>1, <2>2
<1>7. TablesGo
  BY <1>1, <1>6, SeenUnchanged DEF TablesGo, SchedInv
<1>8. Asked(t, runs')
  BY <1>2, <1>7, AskedKept DEF TablesGo, RunsKeep
<1>9. ASSUME AloneInv
      PROVE  Suits(Tail(t.plan), r, t.limits, runs', dags', spent')
  <2>1. PlanFits(t, runs, dags, spent) /\ RunsStand(runs, dags) /\ spent \in Nat
    BY <1>9 DEF AloneInv, SchedInv
  <2>2. RunsKeep(runs, runs') /\ SeenKeep(dags, dags') /\ spent' \in {0, spent}
    BY <1>7 DEF TablesGo
  <2>3. PlanFits(t, runs', dags', spent')
    BY <1>2, <2>1, <2>2, PlanFitsKept
  <2>4. Suits(t.plan, r, t.limits, runs', dags', spent')
    BY <1>2, <2>3 DEF PlanFits
  <2>5. Cardinality(runs'[r].dags) \in Nat /\ t.limits.concurrency \in Nat
    BY <1>2, <2>2, TakenFinite, LimitsAre DEF SchedInv, RunsKeep
  <2> QED BY <1>2, <2>4, <2>5, TailSuits
<1>10. config \in Configs
  BY DEF SchedInv
<1>11. PICK u : Served(w, u) /\ (AloneInv => PlanFits(u, runs', dags', spent'))
  BY <1>1, <1>2, <1>8, <1>9, <1>10, LoopServes
<1> QED BY <1>7, <1>11, TickServed

LEMMA AdvanceRaisesKeeps ==
  ASSUME SchedulerAssumption, SchedInv, NEW w \in Ticker, AdvanceRaises(w)
  PROVE  PlainStep
<1>1. TablesGo
  BY RunsUnchanged, SeenUnchanged DEF TablesGo, AdvanceRaises, SchedInv
<1>2. Bare(NoRequest, runs')
  BY NothingAsked
<1>3. Served(w, NoRequest) /\ PlanFits(NoRequest, runs', dags', spent')
  BY <1>2, BareServes DEF Served, AdvanceRaises
<1> QED BY <1>1, <1>3, TickServed

-----------------------------------------------------------------------------
(* The other requests, and what happens beside *)

LEMMA DryRunKeeps ==
  ASSUME SchedulerAssumption, SchedInv, NEW scope \in Scopes, DryRun(scope)
  PROVE  PlainStep
<1> DEFINE row == NewRun("planned", scope)
<1>1. row \in RunRow /\ row.dags = {} /\ MaxRuns \in Nat
  BY DEF SchedulerAssumption, NewRun, RunRow, RunStatus, Reason
<1>2. runs' = Append(runs, row) /\ Len(runs) < MaxRuns
  BY DEF DryRun
<1> HIDE DEF row
<1>3. RunsKeep(runs, runs')
  BY <1>1, <1>2, AddRun
<1>4. TablesGo
  BY <1>3, SeenUnchanged DEF TablesGo, DryRun, SchedInv, RunsKeep
<1> QED BY <1>4, TicksWait DEF DryRun

LEMMA PauseKeeps ==
  ASSUME SchedulerAssumption, SchedInv, NEW r, Pause(r)
  PROVE  PlainStep
<1> DEFINE new == Paused(runs[r], "human_pause")
<1>1. r \in DOMAIN runs /\ runs' = [runs EXCEPT ![r] = new]
  BY DEF Pause
<1>2. new \in RunRow /\ new.dags = runs[r].dags /\ (runs[r].status = "cancelled" => new = runs[r])
  BY <1>1, RunIs, PausedRow DEF Reason
<1> HIDE DEF new
<1>3. RunsKeep(runs, runs')
  BY <1>1, <1>2, SetRun
<1>4. TablesGo
  BY <1>3, SeenUnchanged DEF TablesGo, Pause, SchedInv, RunsKeep
<1> QED BY <1>4, TicksWait DEF Pause

LEMMA ResumeKeeps ==
  ASSUME SchedulerAssumption, SchedInv, NEW r, Resume(r)
  PROVE  PlainStep
<1>1. PICK row : row = [runs[r] EXCEPT !.status = "running", !.reason = "none"]
  OBVIOUS
<1>2. r \in DOMAIN runs /\ runs[r] \in RunRow /\ runs[r].status = "paused"
  BY RunIs DEF Resume
<1>3. row \in RunRow /\ row.dags = runs[r].dags
  BY <1>1, <1>2 DEF RunRow, RunStatus, Reason
<1>4. runs' = [runs EXCEPT ![r] = row]
  <2>1. runs' = [runs EXCEPT ![r].status = "running", ![r].reason = "none"]
    BY DEF Resume
  <2> QED BY <1>1, <1>2, <2>1
<1>5. RunsKeep(runs, runs') /\ DOMAIN runs' = DOMAIN runs
  BY <1>2, <1>3, <1>4, SetRun
<1>6. alerts' \subseteq (DOMAIN runs') \X AlertKind
  BY <1>5 DEF Resume, SchedInv
<1>7. TablesGo
  BY <1>5, <1>6, SeenUnchanged DEF TablesGo, Resume, SchedInv
<1> QED BY <1>7, TicksWait DEF Resume

LEMMA CancelRunKeeps ==
  ASSUME SchedulerAssumption, SchedInv, NEW r, Cancel(r)
  PROVE  PlainStep
<1>1. PICK row : row = [runs[r] EXCEPT !.status = "cancelled"]
  OBVIOUS
<1>2. r \in DOMAIN runs /\ runs[r] \in RunRow
  BY RunIs DEF Cancel
<1>3. row \in RunRow /\ row.dags = runs[r].dags /\ row.status = "cancelled"
  BY <1>1, <1>2 DEF RunRow, RunStatus
<1>4. runs' = [runs EXCEPT ![r] = row]
  BY <1>1 DEF Cancel
<1>5. RunsKeep(runs, runs')
  BY <1>2, <1>3, <1>4, SetRun
<1>6. TablesGo
  BY <1>5, SeenUnchanged DEF TablesGo, Cancel, SchedInv, RunsKeep
<1> QED BY <1>6, TicksWait DEF Cancel

LEMMA ConfigureKeeps ==
  ASSUME SchedulerAssumption, SchedInv, NEW c \in Configs, Configure(c)
  PROVE  PlainStep
<1>1. TablesGo
  BY RunsUnchanged, SeenUnchanged DEF TablesGo, Configure, SchedInv
<1> QED BY <1>1, TicksWait DEF Configure

LEMMA NewDayKeeps ==
  ASSUME SchedulerAssumption, SchedInv, NewDay
  PROVE  PlainStep
<1>1. TablesGo
  BY RunsUnchanged, SeenUnchanged DEF TablesGo, NewDay, SchedInv
<1> QED BY <1>1, TicksWait DEF NewDay

LEMMA ApproveSceneKeeps ==
  ASSUME SchedulerAssumption, SchedInv, NEW s \in Scene, ApproveScene(s)
  PROVE  PlainStep
<1>1. TablesGo
  BY RunsUnchanged, SeenUnchanged DEF TablesGo, ApproveScene, SchedInv
<1> QED BY <1>1, TicksWait DEF ApproveScene

LEMMA DagStatusMoves ==
  ASSUME SchedInv, NEW d \in DOMAIN dags, NEW status \in DagSeen,
         dags' = [dags EXCEPT ![d].status = status]
  PROVE  SeenKeep(dags, dags') /\ DOMAIN dags' = DOMAIN dags
<1>1. dags \in Seq(SeenRow) /\ Len(dags) <= MaxDags
  BY DEF SchedInv, SeenStand
<1>2. PICK row : row = [dags[d] EXCEPT !.status = status]
  OBVIOUS
<1>3. dags[d] \in SeenRow
  BY <1>1, LenProperties, ElementOfSeq
<1>4. row \in SeenRow /\ row.scene = dags[d].scene
  BY <1>2, <1>3 DEF SeenRow
<1>5. dags' = [dags EXCEPT ![d] = row]
  BY <1>2
<1>6. /\ dags' \in Seq(SeenRow) /\ Len(dags') = Len(dags) /\ DOMAIN dags' = DOMAIN dags
      /\ dags'[d] = row /\ \A e \in DOMAIN dags : e # d => dags'[e] = dags[e]
  BY <1>1, <1>4, <1>5, SetRow
<1> QED BY <1>1, <1>4, <1>6 DEF SeenKeep, SeenStand

LEMMA DagMovesKeeps ==
  ASSUME SchedulerAssumption, SchedInv, NEW d, NEW status \in DagSeen, DagMoves(d, status)
  PROVE  PlainStep
<1>1. SeenKeep(dags, dags')
  BY DagStatusMoves DEF DagMoves
<1>2. TablesGo
  BY <1>1, RunsUnchanged DEF TablesGo, DagMoves, SchedInv
<1> QED BY <1>2, TicksWait DEF DagMoves

-----------------------------------------------------------------------------
(* A DAG becomes the run's *)

\* The row of the run that takes the DAG d: paused, or the limits allow more.
Takes(old, new, d, n, limits) ==
  /\ new \in RunRow
  /\ new.dags = old.dags \cup {d}
  /\ old.status = "cancelled" => new.status = "cancelled"
  /\ new.status # "paused" => n < limits.budget \/ new.status = "cancelled"

LEMMA ChargedTakes ==
  ASSUME SchedulerAssumption, SchedInv, NEW w \in Ticker, NEW outcome,
         Charged(w, outcome), request[w].dag # NoDag
  PROVE  LET t == request[w]
             r == Head(t.queue)
         IN \E new : /\ Takes(runs[r], new, t.dag, spent + 1, t.limits)
                     /\ runs' = [runs EXCEPT ![r] = new]
                     /\ alerts' \subseteq (DOMAIN runs) \X AlertKind
<1> DEFINE t == request[w]
           r == Head(t.queue)
           row == [runs[r] EXCEPT
                     !.dags = @ \cup {t.dag},
                     !.failures = CASE outcome = "blocked" -> @ + 1
                                    [] outcome = "waiting_human" -> 0
                                    [] OTHER -> @]
<1>1. /\ InHand(t, dags, TakenOf(runs)) /\ t.plan # <<>>
      /\ r \in DOMAIN runs /\ t.limits \in Configs /\ runs[r] \in RunRow
  BY AtRun, RunIs DEF InHand
<1>2. t.dag \in 1 .. MaxDags
  <2>1. dags \in Seq(SeenRow) /\ Len(dags) <= MaxDags /\ MaxDags \in Nat
    BY DEF SchedInv, SeenStand, SchedulerAssumption
  <2>2. Len(dags) \in Nat /\ t.dag \in 1 .. Len(dags)
    BY <1>1, <2>1, LenProperties DEF InHand
  <2> QED BY <2>1, <2>2
<1>3. row \in RunRow /\ row.dags = runs[r].dags \cup {t.dag} /\ row.status = runs[r].status
  <2> DEFINE f == CASE outcome = "blocked" -> runs[r].failures + 1
                    [] outcome = "waiting_human" -> 0
                    [] OTHER -> runs[r].failures
  <2>1. f \in Nat
    BY <1>1 DEF RunRow
  <2>2. row = [runs[r] EXCEPT !.dags = runs[r].dags \cup {t.dag}, !.failures = f]
    BY <1>1 DEF RunRow
  <2> HIDE DEF f, row
  <2> QED BY <1>1, <1>2, <2>1, <2>2 DEF RunRow
<1>4. \/ \E reason \in AlertKind : PauseRun(r, row, reason)
      \/ spent + 1 < t.limits.budget /\ runs' = [runs EXCEPT ![r] = row] /\ alerts' = alerts
  BY DEF Charged, AlertKind
<1> HIDE DEF t, r, row
<1>5. CASE \E reason \in AlertKind : PauseRun(r, row, reason)
  <2>1. PICK reason \in AlertKind : PauseRun(r, row, reason)
    BY <1>5
  <2> DEFINE new == Paused(row, reason)
  <2>2. /\ new \in RunRow /\ new.dags = row.dags
        /\ row.status = "cancelled" => new = row
        /\ row.status # "cancelled" => new.status = "paused"
    BY <1>3, PausedRow DEF Reason
  <2>3. runs' = [runs EXCEPT ![r] = new]
    BY <2>1 DEF PauseRun
  <2> HIDE DEF new
  <2>4. alerts' \subseteq (DOMAIN runs) \X AlertKind
    BY <1>1, <2>1 DEF PauseRun, SchedInv
  <2>5. Takes(runs[r], new, t.dag, spent + 1, t.limits)
    BY <1>3, <2>2 DEF Takes
  <2> QED BY <2>3, <2>4, <2>5 DEF t, r
<1>6. CASE spent + 1 < t.limits.budget /\ runs' = [runs EXCEPT ![r] = row] /\ alerts' = alerts
  <2>1. Takes(runs[r], row, t.dag, spent + 1, t.limits)
    BY <1>3, <1>6 DEF Takes
  <2> QED BY <1>6, <2>1 DEF t, r, SchedInv
<1> QED BY <1>4, <1>5, <1>6

\* Taking a DAG that is nobody's adds it to what is taken.
LEMMA TakenGrows ==
  ASSUME SchedulerAssumption, SchedInv, NEW r \in DOMAIN runs, NEW d \in DOMAIN dags,
         d \notin TakenOf(runs), NEW new \in RunRow, new.dags = runs[r].dags \cup {d},
         runs' = [runs EXCEPT ![r] = new]
  PROVE  /\ runs' \in Seq(RunRow) /\ Len(runs') = Len(runs) /\ DOMAIN runs' = DOMAIN runs
         /\ runs'[r] = new /\ \A i \in DOMAIN runs : i # r => runs'[i] = runs[i]
         /\ TakenOf(runs') = TakenOf(runs) \cup {d}
         /\ Cardinality(TakenOf(runs')) = Cardinality(TakenOf(runs)) + 1
         /\ Cardinality(runs'[r].dags) = Cardinality(runs[r].dags) + 1
<1>1. runs \in Seq(RunRow)
  BY DEF SchedInv, RunsStand
<1>2. /\ runs' \in Seq(RunRow) /\ Len(runs') = Len(runs) /\ DOMAIN runs' = DOMAIN runs
      /\ runs'[r] = new /\ \A i \in DOMAIN runs : i # r => runs'[i] = runs[i]
  BY <1>1, SetRow
<1>3. \A e \in TakenOf(runs') : e \in TakenOf(runs) \cup {d}
  <2> TAKE e \in TakenOf(runs')
  <2>1. PICK i \in DOMAIN runs' : e \in runs'[i].dags
    BY DEF TakenOf
  <2>2. e \in runs[i].dags \/ e = d
    BY <1>2, <2>1
  <2> QED BY <1>2, <2>1, <2>2 DEF TakenOf
<1>4. \A e \in TakenOf(runs) \cup {d} : e \in TakenOf(runs')
  <2> TAKE e \in TakenOf(runs) \cup {d}
  <2>1. CASE e = d
    BY <1>2, <2>1 DEF TakenOf
  <2>2. CASE e \in TakenOf(runs)
    <3>1. PICK i \in DOMAIN runs : e \in runs[i].dags
      BY <2>2 DEF TakenOf
    <3>2. e \in runs'[i].dags
      BY <1>2, <3>1
    <3> QED BY <1>2, <3>2 DEF TakenOf
  <2> QED BY <2>1, <2>2
<1>5. TakenOf(runs') = TakenOf(runs) \cup {d}
  BY <1>3, <1>4
<1>6. IsFiniteSet(TakenOf(runs)) /\ IsFiniteSet(runs[r].dags) /\ d \notin runs[r].dags
  <2>1. IsFiniteSet(TakenOf(runs)) /\ IsFiniteSet(runs[r].dags)
    BY TakenFinite DEF SchedInv
  <2>2. runs[r].dags \subseteq TakenOf(runs)
    BY DEF TakenOf
  <2> QED BY <2>1, <2>2
<1>7. \A S : IsFiniteSet(S) /\ d \notin S => Cardinality(S \cup {d}) = Cardinality(S) + 1
  BY FS_AddElement
<1> QED BY <1>2, <1>5, <1>6, <1>7

\* What WithinLimits says of one step.
LimitsHeld ==
  \A w \in Ticker : \A r \in DOMAIN runs : runs'[r].dags # runs[r].dags =>
    /\ Cardinality(runs'[r].dags) <= request[w].limits.concurrency
    /\ spent < request[w].limits.budget \/ runs[r].status = "cancelled"

\* The run r has taken the DAG d for the scene s.
HasTaken(r, d, s, R, D, S, E) ==
  /\ S[r].dags = R[r].dags \cup {d}
  /\ \A e \in R[r].dags : E[e].scene = D[e].scene
  /\ E[d].scene = s
  /\ Cardinality(R[r].dags) \in Nat
  /\ Cardinality(S[r].dags) = Cardinality(R[r].dags) + 1

\* The next scene of a plan that suits leaves a plan that suits.
LEMMA SuitsAfter ==
  ASSUME NEW plan \in Seq(Scene), plan # <<>>, NEW r, NEW d, NEW limits,
         limits.concurrency \in Nat,
         NEW R, NEW D, NEW n, Suits(plan, r, limits, R, D, n),
         NEW S, NEW E, NEW m, HasTaken(r, d, Head(plan), R, D, S, E),
         m < limits.budget \/ S[r].status = "cancelled"
  PROVE  Suits(Tail(plan), r, limits, S, E, m)
<1> USE DEF HasTaken
<1>1. Suits(Tail(plan), r, limits, R, D, n)
  BY TailSuits
<1>2. /\ Head(plan) = plan[1] /\ 1 \in DOMAIN plan /\ Len(plan) \in Nat
      /\ Len(Tail(plan)) = Len(plan) - 1
      /\ \A k \in DOMAIN Tail(plan) : k + 1 \in DOMAIN plan /\ Tail(plan)[k] = plan[k+1]
  BY HeadOf
<1>3. \A k \in DOMAIN Tail(plan) : k \in Nat /\ k # 0
  BY HeadOf, LenProperties
<1>4. \A k \in DOMAIN Tail(plan) : Tail(plan)[k] # Head(plan)
  <2> TAKE k \in DOMAIN Tail(plan)
  <2>1. plan[k+1] = plan[1] => k + 1 = 1
    BY <1>2 DEF Suits
  <2> QED BY <1>2, <1>3, <2>1
<1>5. \A k \in DOMAIN Tail(plan) : \A e \in S[r].dags : E[e].scene # Tail(plan)[k]
  BY <1>1, <1>4 DEF Suits
<1>6. Cardinality(R[r].dags) + Len(plan) <= limits.concurrency /\ Len(plan) # 0
  BY <1>2, EmptySeq DEF Suits
<1> QED BY <1>1, <1>2, <1>5, <1>6 DEF Suits

LEMMA AdvanceDagKeeps ==
  ASSUME SchedulerAssumption, SchedInv, NEW w \in Ticker,
         NEW outcome \in {"waiting_human", "blocked", "running"}, AdvanceDag(w, outcome)
  PROVE  SchedInv' /\ (OneTicker /\ AloneInv => AloneInv' /\ LimitsHeld)
<1> DEFINE t == request[w]
           r == Head(t.queue)
           d == t.dag
<1>1. /\ d # NoDag /\ Charged(w, outcome) /\ LoopOn(w, r)
      /\ approved' = approved /\ config' = config /\ spent' = spent + 1
  BY DEF AdvanceDag, Charged
<1>2. /\ Asked(t, runs) /\ d \in DOMAIN dags /\ d \notin TakenOf(runs)
      /\ t.plan # <<>> /\ t.plan \in Seq(Scene) /\ dags[d].scene = Head(t.plan)
      /\ r \in DOMAIN runs /\ t.limits \in Configs
  BY <1>1, AtRun DEF InHand
<1>3. PICK new : /\ Takes(runs[r], new, d, spent + 1, t.limits)
                 /\ runs' = [runs EXCEPT ![r] = new]
                 /\ alerts' \subseteq (DOMAIN runs) \X AlertKind
  BY <1>1, ChargedTakes
<1>4. /\ runs' \in Seq(RunRow) /\ Len(runs') = Len(runs) /\ DOMAIN runs' = DOMAIN runs
      /\ runs'[r] = new /\ \A i \in DOMAIN runs : i # r => runs'[i] = runs[i]
      /\ TakenOf(runs') = TakenOf(runs) \cup {d}
      /\ Cardinality(TakenOf(runs')) = Cardinality(TakenOf(runs)) + 1
      /\ Cardinality(runs'[r].dags) = Cardinality(runs[r].dags) + 1
  <2>1. new \in RunRow /\ new.dags = runs[r].dags \cup {d}
    BY <1>3 DEF Takes
  <2> HIDE DEF r, d
  <2> QED BY <1>2, <1>3, <2>1, TakenGrows
<1>5. SeenKeep(dags, dags') /\ DOMAIN dags' = DOMAIN dags
  <2>1. PICK status \in DagSeen : dags' = [dags EXCEPT ![d].status = status]
    BY DEF AdvanceDag, DagSeen
  <2> QED BY <1>2, <2>1, DagStatusMoves
<1>6. /\ RunsStand(runs, dags) /\ SeenStand(dags) /\ TakenFree(runs, dags)
      /\ spent \in Nat /\ spent <= Cardinality(TakenOf(runs))
      /\ Cardinality(TakenOf(runs)) \in Nat /\ TakenOf(runs) \subseteq DOMAIN dags
      /\ Cardinality(runs[r].dags) \in Nat /\ runs[r].dags \subseteq DOMAIN dags
      /\ config \in Configs
  BY <1>2, TakenFinite DEF SchedInv, RunsStand
<1>7. \A e \in DOMAIN dags : dags'[e].scene = dags[e].scene
  BY <1>5 DEF SeenKeep
<1>8. new.dags = runs[r].dags \cup {d}
  BY <1>3 DEF Takes
<1>9. DependsOn[Head(t.plan)] = {}
  <2>1. \A k \in DOMAIN t.plan : DependsOn[t.plan[k]] = {}
    BY <1>2 DEF Asked
  <2>2. Head(t.plan) = t.plan[1] /\ 1 \in DOMAIN t.plan
    BY <1>2, HeadOf
  <2> QED BY <2>1, <2>2
<1> HIDE DEF t, r, d
<1>10. RunsStand(runs', dags')
  <2>1. \A i \in DOMAIN runs : runs[i].dags \subseteq DOMAIN dags
    BY <1>6 DEF RunsStand
  <2>2. \A i \in DOMAIN runs' : runs'[i].dags \subseteq DOMAIN dags'
    BY <1>2, <1>4, <1>5, <1>8, <2>1
  <2> QED BY <1>4, <1>6, <2>2 DEF RunsStand
<1>11. TakenFree(runs', dags')
  BY <1>2, <1>4, <1>6, <1>7, <1>9 DEF TakenFree
<1>12. spent' \in Nat /\ spent' <= Cardinality(TakenOf(runs'))
  BY <1>1, <1>4, <1>6
<1>13. Asked(t, runs')
  BY <1>2, <1>4, AskedKept
<1>14. ASSUME AloneInv, runs'[r].status # "paused"
       PROVE  Suits(Tail(t.plan), r, t.limits, runs', dags', spent')
  <2>1. Suits(t.plan, r, t.limits, runs, dags, spent)
    BY <1>2, <1>14 DEF AloneInv, PlanFits, t, r
  <2>2. spent + 1 < t.limits.budget \/ runs'[r].status = "cancelled"
    BY <1>3, <1>4, <1>14 DEF Takes
  <2>3. t.limits.concurrency \in Nat
    BY <1>2, LimitsAre
  <2>4. HasTaken(r, d, Head(t.plan), runs, dags, runs', dags')
    BY <1>2, <1>4, <1>6, <1>7, <1>8 DEF HasTaken
  <2>5. spent' = spent + 1 /\ t.plan # <<>> /\ t.plan \in Seq(Scene)
    BY <1>1, <1>2
  <2> QED BY <2>1, <2>2, <2>3, <2>4, <2>5, SuitsAfter
<1>15. PICK u : Served(w, u) /\ (AloneInv => PlanFits(u, runs', dags', spent'))
  BY <1>1, <1>2, <1>6, <1>13, <1>14, LoopServes DEF t, r
<1>16. TicksStand' /\ request'[w] = u
  <2>1. TakenOf(runs') \subseteq TakenOf(runs) \cup {request[w].dag}
    BY <1>4 DEF t, d
  <2> QED BY <1>4, <1>5, <1>15, <2>1, TicksGo
<1>17. SchedInv'
  BY <1>1, <1>3, <1>4, <1>5, <1>6, <1>10, <1>11, <1>12, <1>16 DEF SchedInv, SeenKeep
<1>18. ASSUME OneTicker, AloneInv
       PROVE  AloneInv' /\ LimitsHeld
  <2>1. /\ Suits(t.plan, r, t.limits, runs, dags, spent)
        /\ OneScene(runs, dags)
    BY <1>2, <1>18 DEF AloneInv, PlanFits, t, r
  <2>2. OneScene(runs', dags')
    <3>1. \A e \in runs[r].dags : dags[e].scene # Head(t.plan)
      <4>1. Head(t.plan) = t.plan[1] /\ 1 \in DOMAIN t.plan
        BY <1>2, HeadOf
      <4> QED BY <2>1, <4>1 DEF Suits
    <3>2. \A i \in DOMAIN runs : runs[i].dags \subseteq DOMAIN dags
      BY <1>6 DEF RunsStand
    <3>3. ASSUME NEW i \in DOMAIN runs', NEW e \in runs'[i].dags, NEW f \in runs'[i].dags,
                 dags'[e].scene = dags'[f].scene
          PROVE  e = f
      <4>1. CASE i # r
        <5>1. e \in runs[i].dags /\ f \in runs[i].dags /\ i \in DOMAIN runs
          BY <1>4, <3>3, <4>1
        <5>2. dags[e].scene = dags[f].scene
          BY <1>7, <3>2, <3>3, <5>1
        <5> QED BY <2>1, <5>1, <5>2 DEF OneScene
      <4>2. CASE i = r
        <5>1. /\ e \in runs[r].dags \/ e = d
              /\ f \in runs[r].dags \/ f = d
          BY <1>4, <1>8, <3>3, <4>2
        <5>2. dags[e].scene = dags[f].scene
          BY <1>2, <1>7, <3>2, <3>3, <5>1
        <5> QED BY <1>2, <2>1, <3>1, <5>1, <5>2 DEF OneScene
      <4> QED BY <4>1, <4>2
    <3> QED BY <3>3 DEF OneScene
  <2>3. \A v \in Ticker : PlanFits(request'[v], runs', dags', spent')
    BY <1>15, <1>16, <1>18 DEF OneTicker
  <2>4. AloneInv'
    BY <1>17, <2>2, <2>3 DEF AloneInv
  <2>5. /\ Cardinality(runs'[r].dags) <= t.limits.concurrency
        /\ spent < t.limits.budget \/ runs[r].status = "cancelled"
    <3>1. Len(t.plan) \in Nat /\ Len(t.plan) # 0
      BY <1>2, LenProperties, EmptySeq
    <3>2. t.limits.concurrency \in Nat
      BY <1>2, LimitsAre
    <3> QED BY <1>4, <1>6, <2>1, <3>1, <3>2 DEF Suits
  <2>6. LimitsHeld
    BY <1>4, <1>18, <2>5 DEF LimitsHeld, OneTicker, t
  <2> QED BY <2>4, <2>6
<1> QED BY <1>17, <1>18

-----------------------------------------------------------------------------
(* The theorems about Scheduler *)

SchedStep == SchedInv' /\ (OneTicker /\ AloneInv => AloneInv' /\ LimitsHeld)

LEMMA PlainIsStep ==
  ASSUME PlainStep
  PROVE  SchedStep
BY DEF PlainStep, SchedStep, LimitsHeld

LEMMA SchedInitInv == SchedulerAssumption /\ SchedInit => AloneInv
<1> SUFFICES ASSUME SchedulerAssumption, SchedInit
             PROVE  AloneInv
  OBVIOUS
<1>1. /\ runs = <<>> /\ dags = <<>> /\ spent = 0 /\ alerts = {} /\ approved \subseteq Scene
      /\ config \in Configs /\ request = [w \in Ticker |-> NoRequest]
  BY DEF SchedInit, SchedulerAssumption
<1>2. MaxRuns \in Nat /\ MaxDags \in Nat
  BY DEF SchedulerAssumption
<1>3. DOMAIN runs = {} /\ TakenOf(runs) = {}
  BY <1>1 DEF TakenOf
<1>4. SeenStand(dags) /\ RunsStand(runs, dags)
  BY <1>1, <1>2, <1>3, EmptySeq DEF SeenStand, RunsStand
<1>5. Cardinality(TakenOf(runs)) = 0
  BY <1>3, FS_EmptySet
<1>6. \A w \in Ticker : request[w] = NoRequest
  BY <1>1
<1>7. Bare(NoRequest, runs) /\ NoRequest.dag = NoDag
  BY NothingAsked DEF Bare
<1>8. \A w \in Ticker : /\ Asked(request[w], runs)
                        /\ InHand(request[w], dags, TakenOf(runs))
                        /\ PlanFits(request[w], runs, dags, spent)
  BY <1>6, <1>7, BareServes
<1>9. TicksStand
  BY <1>1, <1>6, <1>7, <1>8 DEF TicksStand, OneHand
<1>10. TakenFree(runs, dags) /\ OneScene(runs, dags)
  BY <1>3 DEF TakenFree, OneScene
<1>11. SchedInv
  BY <1>1, <1>4, <1>5, <1>9, <1>10 DEF SchedInv
<1> QED BY <1>8, <1>10, <1>11 DEF AloneInv

LEMMA SchedNextStep ==
  ASSUME SchedulerAssumption, SchedInv, SchedNext
  PROVE  SchedStep
<1>1. ASSUME Ticking
      PROVE  SchedStep
  <2>1. PICK w \in Ticker :
          \/ \E scope \in Scopes : StartRun(w, scope)
          \/ Tick(w) \/ AdvanceRun(w) \/ CreateDag(w)
          \/ AdvanceRefused(w) \/ AdvanceRaises(w)
          \/ \E outcome \in {"waiting_human", "blocked", "running"} : AdvanceDag(w, outcome)
    BY <1>1 DEF Ticking
  <2>2. CASE \E scope \in Scopes : StartRun(w, scope)
    BY <2>2, StartRunKeeps, PlainIsStep
  <2>3. CASE Tick(w)
    BY <2>3, TickKeeps, PlainIsStep
  <2>4. CASE AdvanceRun(w)
    BY <2>4, AdvanceRunKeeps, PlainIsStep
  <2>5. CASE CreateDag(w)
    BY <2>5, CreateDagKeeps, PlainIsStep
  <2>6. CASE AdvanceRefused(w)
    BY <2>6, AdvanceRefusedKeeps, PlainIsStep
  <2>7. CASE AdvanceRaises(w)
    BY <2>7, AdvanceRaisesKeeps, PlainIsStep
  <2>8. CASE \E outcome \in {"waiting_human", "blocked", "running"} : AdvanceDag(w, outcome)
    BY <2>8, AdvanceDagKeeps DEF SchedStep
  <2> QED BY <2>1, <2>2, <2>3, <2>4, <2>5, <2>6, <2>7, <2>8
<1>2. ASSUME EditorRequests
      PROVE  SchedStep
  BY <1>2, DryRunKeeps, PauseKeeps, ResumeKeeps, CancelRunKeeps, ConfigureKeeps, PlainIsStep
     DEF EditorRequests
<1>3. ASSUME BesideTicks
      PROVE  SchedStep
  BY <1>3, NewDayKeeps, ApproveSceneKeeps, DagMovesKeeps, PlainIsStep DEF BesideTicks
<1> QED BY <1>1, <1>2, <1>3 DEF SchedNext

LEMMA SchedStutter ==
  ASSUME SchedulerAssumption, SchedInv, UNCHANGED schedVars
  PROVE  SchedStep
<1>1. TablesGo
  BY RunsUnchanged, SeenUnchanged DEF TablesGo, SchedInv, schedVars
<1>2. PlainStep
  BY <1>1, TicksWait DEF schedVars
<1> QED BY <1>2, PlainIsStep

LEMMA SchedInvariant ==
  ASSUME SchedulerAssumption
  PROVE  SchedSpec => []SchedInv
<1>1. SchedInit => SchedInv
  BY SchedInitInv DEF AloneInv
<1>2. SchedInv /\ [SchedNext]_schedVars => SchedInv'
  BY SchedNextStep, SchedStutter DEF SchedStep
<1> QED BY <1>1, <1>2, PTL DEF SchedSpec

LEMMA AloneInvariant ==
  ASSUME SchedulerAssumption, OneTicker
  PROVE  SchedSpec => []AloneInv
<1>1. SchedInit => AloneInv
  BY SchedInitInv
<1>2. AloneInv /\ [SchedNext]_schedVars => AloneInv'
  BY SchedNextStep, SchedStutter DEF SchedStep, AloneInv
<1> QED BY <1>1, <1>2, PTL DEF SchedSpec

\* Type correctness, for any book, limits and number of ticking threads; that the
\* day's counter stays within the DAGs there are rests on every charged DAG being
\* charged once.
THEOREM SchedTypeCorrect ==
  ASSUME SchedulerAssumption
  PROVE  SchedSpec => []SchedTypeOK
<1>1. ASSUME SchedInv
      PROVE  SchedTypeOK
  <2>1. /\ runs \in Seq(RunRow) /\ Len(runs) <= MaxRuns
        /\ \A r \in DOMAIN runs : runs[r].dags \subseteq DOMAIN dags
        /\ dags \in Seq(SeenRow) /\ Len(dags) <= MaxDags
    BY <1>1 DEF SchedInv, RunsStand, SeenStand
  <2>2. Len(dags) \in Nat /\ DOMAIN dags = 1 .. Len(dags) /\ MaxDags \in Nat
    BY <2>1, LenProperties DEF SchedulerAssumption
  <2>3. spent \in 0 .. MaxDags
    <3>1. /\ Cardinality(TakenOf(runs)) \in Nat
          /\ Cardinality(TakenOf(runs)) <= Len(dags)
      BY <1>1, TakenFinite DEF SchedInv
    <3> QED BY <1>1, <2>1, <2>2, <3>1 DEF SchedInv
  <2>4. ASSUME NEW w \in Ticker
        PROVE  /\ request[w].queue \in Seq(DOMAIN runs)
               /\ request[w].limits \in Configs \cup {NoLimits}
               /\ request[w].plan \in Seq(Scene)
               /\ request[w].dag \in 0 .. Len(dags)
    <3>1. Asked(request[w], runs) /\ InHand(request[w], dags, TakenOf(runs))
      BY <1>1 DEF SchedInv, TicksStand
    <3>2. /\ request[w].queue \in Seq(Nat) /\ request[w].plan \in Seq(Scene)
          /\ request[w].limits \in Configs \cup {NoLimits} /\ request[w].dag \in Nat
      BY <3>1, TickRowHas DEF Asked
    <3>3. request[w].queue \in Seq(DOMAIN runs)
      <4> DEFINE q == request[w].queue
      <4>1. q \in Seq(Nat) /\ \A k \in DOMAIN q : q[k] \in DOMAIN runs
        BY <3>1, <3>2 DEF Asked
      <4> HIDE DEF q
      <4>2. Len(q) \in Nat /\ q \in [1 .. Len(q) -> Nat]
        BY <4>1, LenProperties
      <4>3. q \in [1 .. Len(q) -> DOMAIN runs]
        BY <4>1, <4>2
      <4>4. q \in Seq(DOMAIN runs)
        BY <4>2, <4>3, SeqDef
      <4> QED BY <4>4 DEF q
    <3>4. request[w].dag \in 0 .. Len(dags)
      BY <2>2, <3>1, <3>2 DEF InHand, NoDag
    <3> QED BY <3>2, <3>3, <3>4
  <2> QED BY <1>1, <2>1, <2>3, <2>4 DEF SchedTypeOK, SchedInv, SeenRow
<1> QED BY <1>1, SchedInvariant, PTL

\* Prose that follows other prose is never started by a run, with any number of
\* ticking threads: slots are not given back, so its ancestors never count as
\* finished while it may start (decide of parallelism.py).
THEOREM DependentsAreHeld ==
  ASSUME SchedulerAssumption
  PROVE  SchedSpec => []DependentsHeld
<1>1. SchedInv => DependentsHeld
  BY DEF SchedInv, TakenFree, TakenOf, DependentsHeld, ScenesOf
<1> QED BY <1>1, SchedInvariant, PTL

\* With one ticking thread a run has one DAG for a scene, whatever the editor and
\* the DAGs do in the middle of a tick (_plan_scenes, _advance_run).
THEOREM OneDagForScene ==
  ASSUME SchedulerAssumption, OneTicker
  PROVE  SchedSpec => []OneDagPerScene
<1>1. ASSUME AloneInv
      PROVE  OneDagPerScene
  <2> SUFFICES ASSUME NEW r \in DOMAIN runs
               PROVE  Cardinality(InFlight(r)) = Cardinality(runs[r].dags)
    BY DEF OneDagPerScene, InFlight
  <2> QED BY <1>1, InFlightFinite DEF AloneInv, SchedInv
<1> QED BY <1>1, AloneInvariant, PTL

\* With one ticking thread, a run that is given a DAG stays within the
\* concurrency and the budget of the request that gives it (_advance_run).
THEOREM LimitsAreKept ==
  ASSUME SchedulerAssumption, OneTicker
  PROVE  SchedSpec => WithinLimits
<1>1. AloneInv /\ [SchedNext]_schedVars =>
        [LimitsHeld]_schedVars
  BY SchedNextStep DEF SchedStep, AloneInv
<1>2. [LimitsHeld]_schedVars =>
        [\A w \in Ticker : \A r \in DOMAIN runs : runs'[r].dags # runs[r].dags =>
           /\ Cardinality(runs'[r].dags) <= request[w].limits.concurrency
           /\ spent < request[w].limits.budget \/ runs[r].status = "cancelled"]_schedVars
  BY DEF LimitsHeld
<1> QED BY <1>1, <1>2, AloneInvariant, PTL DEF SchedSpec, WithinLimits

=============================================================================
