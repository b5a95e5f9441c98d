------------------------------ MODULE SceneDag ------------------------------
(***************************************************************************)
(* The single-scene DAG (dags/service.py and dags/graph.py): ten fixed     *)
(* nodes lead from the context pack to the commit into Canon.  A request   *)
(* advances the DAG node by node until nothing is ready, a human editor    *)
(* decides on its candidates, and the DAG may be rerun from a node or      *)
(* cancelled.  Every request works on the one DAG object in memory.        *)
(*                                                                         *)
(* One DAG and the candidates of its scene.  advance and human_review are  *)
(* split into the steps between which another thread may run; Overlap says *)
(* whether one does.  What a worker node produces is kept only where a     *)
(* guard asks for it: the candidate ids.  The loop of advance is not cut   *)
(* off after 24 rounds.  The DAG's jobs are taken as one step: JobQueue    *)
(* is about them.                                                          *)
(*                                                                         *)
(* An operator named X_Y is a mutant of X that the properties catch.       *)
(***************************************************************************)
EXTENDS Naturals, FiniteSets, Sequences

CONSTANTS
  Worker,      \* threads that serve requests on the DAG
  Candidate,   \* ids of candidate changes, the bound on extraction
  Overlap      \* whether requests on the DAG overlap in time

ASSUME DagAssumption == Overlap \in BOOLEAN

VARIABLES
  nodes,    \* node id -> status
  reused,   \* nodes that took over the output of an earlier DAG
  dag,      \* [status, blocker, decision]
  frozen,   \* frozen_outputs["candidate_ids"]
  cands,    \* candidate id -> status
  task      \* worker -> where its request is

dagVars == <<nodes, reused, dag, frozen, cands, task>>

-----------------------------------------------------------------------------
(* The graph *)

NodeIds ==
  <<"context_pack", "scene_plan", "plan_validation", "scene_draft",
    "candidate_extraction", "draft_validation", "human_review", "canon_commit",
    "summary", "downstream_unblock">>

NodeId == {NodeIds[i] : i \in DOMAIN NodeIds}
NoNode == "none"

Dependencies_NoReviewEdge(n) ==
  CASE n \in {"context_pack", "scene_plan"} -> {}
    [] n = "plan_validation" -> {"scene_plan"}
    [] n = "scene_draft" -> {"context_pack", "plan_validation"}
    [] n \in {"candidate_extraction", "draft_validation"} -> {"scene_draft"}
    [] n = "human_review" -> {"candidate_extraction", "draft_validation"}
    [] n = "canon_commit" -> {"draft_validation"}
    [] n = "summary" -> {"canon_commit"}
    [] n = "downstream_unblock" -> {"summary"}

Dependencies(n) ==
  CASE n \in {"context_pack", "scene_plan"} -> {}
    [] n = "plan_validation" -> {"scene_plan"}
    [] n = "scene_draft" -> {"context_pack", "plan_validation"}
    [] n \in {"candidate_extraction", "draft_validation"} -> {"scene_draft"}
    [] n = "human_review" -> {"candidate_extraction", "draft_validation"}
    [] n = "canon_commit" -> {"human_review"}
    [] n = "summary" -> {"canon_commit"}
    [] n = "downstream_unblock" -> {"summary"}

Ancestors[n \in NodeId] ==
  Dependencies(n) \cup UNION {Ancestors[d] : d \in Dependencies(n)}

\* descendants_of includes the node itself.
Descendants == [n \in NodeId |-> {m \in NodeId : m = n \/ n \in Ancestors[m]}]

\* The member of S that comes first in NODE_IDS.
FirstOf(S) ==
  NodeIds[CHOOSE i \in DOMAIN NodeIds :
            NodeIds[i] \in S /\ \A j \in 1 .. i - 1 : NodeIds[j] \notin S]

\* What _fail_node blocks: the first node after n and all that depends on it.
Later ==
  [n \in NodeId |-> IF Descendants[n] = {n} THEN {}
                    ELSE Descendants[FirstOf(Descendants[n] \ {n})]]

-----------------------------------------------------------------------------
(* Rows *)

NodeStatus ==
  {"pending", "ready", "running", "succeeded", "failed", "blocked",
   "waiting_human", "cancelled"}
DagStatus ==
  {"created", "running", "waiting_human", "blocked", "succeeded", "failed", "cancelled"}
CandStatus ==
  {"Extracted", "Validating", "FailedValidation", "Failed",
   "AwaitingVerdict", "Approved", "Rejected", "Submitted"}

Open == {"pending", "ready"}
Idle == [pc |-> "idle", todo |-> {}, node |-> NoNode, left |-> {},
         moved |-> FALSE, decision |-> "none"]

DagTypeOK ==
  /\ nodes \in [NodeId -> NodeStatus]
  /\ reused \subseteq NodeId
  /\ dag \in [status: DagStatus, blocker: NodeId \cup {NoNode},
              decision: {"none", "approve", "reject"}]
  /\ DOMAIN cands \subseteq Candidate
  /\ cands \in [DOMAIN cands -> CandStatus]
  /\ frozen \subseteq DOMAIN cands
  /\ \A w \in Worker :
       /\ task[w].pc \in {"idle", "scan", "next", "work", "review", "commit", "decide"}
       /\ task[w].todo \subseteq NodeId
       /\ task[w].left \subseteq DOMAIN cands

\* dag.blocked is set and cleared together with the blocker.
Blocked == dag.blocker # NoNode

\* create: with start_from, the ancestors of the start reuse what the scene
\* already has.  Only the first four nodes have something to reuse.
Reusable == {"context_pack", "scene_plan", "plan_validation", "scene_draft"}

DagInit ==
  /\ \E start \in NodeId, rebuild \in BOOLEAN :
       LET kept == Ancestors[start] \ (IF rebuild THEN {"context_pack"} ELSE {})
       IN /\ kept \subseteq Reusable
          /\ reused = kept
          /\ nodes = [n \in NodeId |-> IF n \in kept THEN "succeeded" ELSE "pending"]
  /\ dag = [status |-> "created", blocker |-> NoNode, decision |-> "none"]
  /\ frozen = {}
  /\ cands = [c \in {} |-> "Extracted"]
  /\ task = [w \in Worker |-> Idle]

-----------------------------------------------------------------------------
(* Helpers of the service *)

At(w, pc) == task[w].pc = pc
Goto(w, t) == task' = [task EXCEPT ![w] = t]
Return(w) == Goto(w, Idle)

\* A new request may be served by w.
MayStart(w) == At(w, "idle") /\ (Overlap \/ \A v \in Worker : At(v, "idle"))

BlockedFrom(ns, S) ==
  [n \in NodeId |-> IF n \in S /\ ns[n] \in Open THEN "blocked" ELSE ns[n]]

WithBlocker(n) == [dag EXCEPT !.status = "blocked", !.blocker = n]

\* _fail_node
FailNode(n) ==
  /\ nodes' = BlockedFrom([nodes EXCEPT ![n] = "failed"], Later[n])
  /\ dag' = WithBlocker(n)

\* _refresh_dag_status
Refreshed(d, ns) ==
  LET is(S) == \E n \in NodeId : ns[n] \in S
      status ==
        CASE d.status = "cancelled" -> "cancelled"
          [] d.status # "cancelled" /\ d.blocker # NoNode -> "blocked"
          [] OTHER ->
               CASE \A n \in NodeId : ns[n] = "succeeded" -> "succeeded"
                 [] ns["human_review"] = "waiting_human" -> "waiting_human"
                 [] ns["human_review"] # "waiting_human" /\ is({"failed"}) -> "failed"
                 [] OTHER -> IF is({"running", "ready", "succeeded"})
                             THEN "running" ELSE d.status
  IN [d EXCEPT !.status = status]

\* _ready_nodes
ReadyNodes ==
  {n \in NodeId :
     /\ nodes[n] \in Open
     /\ \A d \in Dependencies(n) : nodes[d] = "succeeded"
     /\ n = "draft_validation" =>
          nodes["candidate_extraction"] = "succeeded" /\ frozen # {}
     /\ n = "canon_commit" => dag.decision = "approve" /\ ~Blocked
     /\ n = "human_review" => ~Blocked}

-----------------------------------------------------------------------------
(* advance *)

StartAdvance(w) ==
  /\ MayStart(w)
  /\ dag.status # "cancelled"
  /\ ~(Blocked /\ dag.status = "blocked")
  /\ Goto(w, [Idle EXCEPT !.pc = "scan"])
  /\ UNCHANGED <<nodes, reused, dag, frozen, cands>>

\* One round of the loop, or the end of it.
Scan(w) ==
  /\ At(w, "scan")
  /\ IF Blocked \/ ReadyNodes = {}
     THEN dag' = Refreshed(dag, nodes) /\ Return(w) /\ UNCHANGED nodes
     ELSE /\ nodes' = [n \in NodeId |-> IF n \in ReadyNodes THEN "ready" ELSE nodes[n]]
          /\ Goto(w, [Idle EXCEPT !.pc = "next", !.todo = ReadyNodes])
          /\ UNCHANGED dag
  /\ UNCHANGED <<reused, frozen, cands>>

Skip(w, n) == [task[w] EXCEPT !.todo = @ \ {n}]

Start(w, n) ==
  LET pc == CASE n = "human_review" -> "review"
              [] n = "canon_commit" -> "commit"
              [] OTHER -> "work"
  IN [Skip(w, n) EXCEPT !.pc = pc, !.node = n, !.moved = TRUE,
                        !.left = IF pc = "commit" THEN frozen ELSE {}]

NextNode_Unchecked(w) ==
  LET n == FirstOf(task[w].todo)
  IN /\ At(w, "next") /\ task[w].todo # {}
     /\ IF n = "canon_commit" /\ dag.decision # "approve"
        THEN Goto(w, Skip(w, n)) /\ UNCHANGED nodes
        ELSE Goto(w, Start(w, n)) /\ nodes' = [nodes EXCEPT ![n] = "running"]
     /\ UNCHANGED <<reused, dag, frozen, cands>>

\* The nodes found ready are run in order, whatever became of them meanwhile.
NextNode(w) ==
  LET n == FirstOf(task[w].todo)
  IN /\ At(w, "next") /\ task[w].todo # {} /\ ~Blocked
     /\ IF n = "canon_commit" /\ dag.decision # "approve"
        THEN Goto(w, Skip(w, n)) /\ UNCHANGED nodes
        ELSE Goto(w, Start(w, n)) /\ nodes' = [nodes EXCEPT ![n] = "running"]
     /\ UNCHANGED <<reused, dag, frozen, cands>>

\* The round is over; another follows if this one has run a node.
EndRound(w) ==
  /\ At(w, "next")
  /\ Blocked \/ task[w].todo = {}
  /\ IF task[w].moved
     THEN Goto(w, [Idle EXCEPT !.pc = "scan"]) /\ UNCHANGED dag
     ELSE Return(w) /\ dag' = Refreshed(dag, nodes)
  /\ UNCHANGED <<nodes, reused, frozen, cands>>

-----------------------------------------------------------------------------
(* Running a node *)

BackToLoop(w) == Goto(w, [task[w] EXCEPT !.pc = "next", !.node = NoNode, !.left = {}])

Working(w, S) == At(w, "work") /\ task[w].node \in S

\* Nodes whose output no guard asks for.
Plain == NodeId \ {"candidate_extraction", "draft_validation", "human_review", "canon_commit"}

PlainSucceeds(w) ==
  /\ Working(w, Plain)
  /\ nodes' = [nodes EXCEPT ![task[w].node] = "succeeded"]
  /\ BackToLoop(w)
  /\ UNCHANGED <<reused, dag, frozen, cands>>

\* The job failed or its result is a failure; unblocking downstream cannot fail.
NodeFails(w) ==
  /\ Working(w, NodeId \ {"downstream_unblock"})
  /\ FailNode(task[w].node)
  /\ BackToLoop(w)
  /\ UNCHANGED <<reused, frozen, cands>>

\* An error that is not the service's own ends the request and leaves the node
\* running.
NodeRaises(w) ==
  /\ At(w, "work")
  /\ Return(w)
  /\ UNCHANGED <<nodes, reused, dag, frozen, cands>>

\* The extract job persists its batch; an empty batch falls back on the
\* candidates of the scene that are still under way.
Extracted(w, S) ==
  /\ Working(w, {"candidate_extraction"})
  /\ S \subseteq Candidate \ DOMAIN cands
  /\ cands' = [c \in DOMAIN cands \cup S |-> IF c \in S THEN "Extracted" ELSE cands[c]]
  /\ frozen' = IF S # {} THEN S
               ELSE {c \in DOMAIN cands :
                       cands[c] \in {"Extracted", "AwaitingVerdict", "Approved"}}
  /\ nodes' = [nodes EXCEPT !["candidate_extraction"] = "succeeded"]
  /\ BackToLoop(w)
  /\ UNCHANGED <<reused, dag>>

MovedTo(S, status) == [c \in DOMAIN cands |-> IF c \in S THEN status ELSE cands[c]]

\* The validation run of the candidates, which must all be Extracted; queued
\* when validation_auto_run is off.
Validated(w, outcome) ==
  /\ Working(w, {"draft_validation"})
  /\ \A c \in frozen : cands[c] = "Extracted"
  /\ \/ /\ outcome \in {"Passed", "Queued"}
        /\ cands' = MovedTo(frozen, IF outcome = "Passed" THEN "AwaitingVerdict"
                                                         ELSE "Validating")
        /\ nodes' = [nodes EXCEPT !["draft_validation"] = "succeeded"]
        /\ UNCHANGED dag
     \/ /\ outcome = "RuleFailed"
        /\ cands' = MovedTo(frozen, "FailedValidation")
        /\ nodes' = BlockedFrom([nodes EXCEPT !["draft_validation"] = "blocked"],
                                Descendants["human_review"])
        /\ dag' = WithBlocker("draft_validation")
     \/ /\ outcome = "ExecFailed"
        /\ cands' = MovedTo(frozen, "Failed")
        /\ FailNode("draft_validation")
  /\ BackToLoop(w)
  /\ UNCHANGED <<reused, frozen>>

\* The candidates and the report are put in the review queue.
EnterReview(w) ==
  /\ At(w, "review")
  /\ nodes' = [nodes EXCEPT !["human_review"] = "waiting_human"]
  /\ dag' = [dag EXCEPT !.status = "waiting_human"]
  /\ BackToLoop(w)
  /\ UNCHANGED <<reused, frozen, cands>>

Done(w, c) == Goto(w, [task[w] EXCEPT !.left = @ \ {c}])

CommitOne(w, c) ==
  /\ At(w, "commit")
  /\ c \in task[w].left /\ cands[c] = "Approved"
  /\ cands' = MovedTo({c}, "Submitted")
  /\ Done(w, c)
  /\ UNCHANGED <<nodes, reused, dag, frozen>>

CommitRefused_Swallowed(w, c) ==
  /\ At(w, "commit")
  /\ c \in task[w].left
  /\ Done(w, c)
  /\ UNCHANGED <<nodes, reused, dag, frozen, cands>>

\* submit refuses the candidate (its status, or the entity is ambiguous): the
\* request ends, what was submitted stays, and the node stays running.
CommitRefused(w, c) ==
  /\ At(w, "commit")
  /\ c \in task[w].left
  /\ Return(w)
  /\ UNCHANGED <<nodes, reused, dag, frozen, cands>>

CommitEnds(w) ==
  /\ At(w, "commit")
  /\ task[w].left = {}
  /\ nodes' = [nodes EXCEPT !["canon_commit"] = "succeeded"]
  /\ BackToLoop(w)
  /\ UNCHANGED <<reused, dag, frozen, cands>>

Advance(w) ==
  \/ StartAdvance(w) \/ Scan(w) \/ NextNode(w) \/ EndRound(w)
  \/ PlainSucceeds(w) \/ NodeFails(w) \/ NodeRaises(w)
  \/ \E S \in SUBSET Candidate : Extracted(w, S)
  \/ \E outcome \in {"Passed", "Queued", "RuleFailed", "ExecFailed"} : Validated(w, outcome)
  \/ EnterReview(w)
  \/ \E c \in Candidate : CommitOne(w, c) \/ CommitRefused(w, c)
  \/ CommitEnds(w)

-----------------------------------------------------------------------------
(* human_review, rerun, cancel *)

StartReview(w, decision) ==
  /\ MayStart(w)
  /\ ~Blocked
  /\ nodes["human_review"] = "waiting_human"
  /\ nodes' = [nodes EXCEPT !["human_review"] = "running"]
  /\ Goto(w, [Idle EXCEPT !.pc = "decide", !.left = frozen, !.decision = decision])
  /\ UNCHANGED <<reused, dag, frozen, cands>>

\* The statuses from which the approval service takes the verdict.
VerdictFrom(decision) ==
  IF decision = "approve" THEN {"AwaitingVerdict"} ELSE {"AwaitingVerdict", "Approved"}
VerdictTo(decision) == IF decision = "approve" THEN "Approved" ELSE "Rejected"

DecideOne(w, c) ==
  LET t == task[w]
  IN /\ At(w, "decide")
     /\ c \in t.left
     /\ IF cands[c] \in VerdictFrom(t.decision)
        THEN /\ cands' = MovedTo({c}, VerdictTo(t.decision))
             /\ Done(w, c)
             /\ UNCHANGED <<nodes, dag>>
        ELSE FailNode("human_review") /\ Return(w) /\ UNCHANGED cands
     /\ UNCHANGED <<reused, frozen>>

EndReview(w) ==
  LET t == task[w]
      decided == [nodes EXCEPT !["human_review"] = "succeeded"]
      recorded == [dag EXCEPT !.decision = t.decision]
  IN /\ At(w, "decide")
     /\ t.left = {}
     /\ IF t.decision = "approve"
        THEN nodes' = decided /\ dag' = Refreshed(recorded, decided)
        ELSE /\ nodes' = BlockedFrom(decided, Descendants["canon_commit"])
             /\ dag' = Refreshed([recorded EXCEPT !.blocker = "human_review"], nodes')
     /\ Return(w)
     /\ UNCHANGED <<reused, frozen, cands>>

Review(w) ==
  \/ \E decision \in {"approve", "reject"} : StartReview(w, decision)
  \/ \E c \in Candidate : DecideOne(w, c)
  \/ EndReview(w)

Reset_OnlyNode(from, rebuild) ==
  {from} \cup IF rebuild THEN Descendants["context_pack"] ELSE {}

Reset(from, rebuild) ==
  Descendants[from] \cup IF rebuild THEN Descendants["context_pack"] ELSE {}

Rerun(w, from, rebuild) ==
  LET S == Reset(from, rebuild)
  IN /\ MayStart(w)
     /\ dag.status # "cancelled"
     /\ nodes' = [n \in NodeId |-> IF n \in S THEN "pending" ELSE nodes[n]]
     /\ reused' = reused \ S
     /\ frozen' = IF "candidate_extraction" \in S THEN {} ELSE frozen
     /\ dag' = [status |-> "running",
                blocker |-> IF dag.blocker \in S THEN NoNode ELSE dag.blocker,
                decision |-> IF "human_review" \in S THEN "none" ELSE dag.decision]
     /\ UNCHANGED <<cands, task>>

CancelDag(w) ==
  /\ MayStart(w)
  /\ dag.status # "cancelled"
  /\ nodes' = [n \in NodeId |->
                 IF nodes[n] \in Open \cup {"running", "waiting_human"}
                 THEN "cancelled" ELSE nodes[n]]
  /\ dag' = [dag EXCEPT !.status = "cancelled"]
  /\ UNCHANGED <<reused, frozen, cands, task>>

\* The editor works on a candidate of the scene without the DAG.
Beside(w, c) ==
  /\ MayStart(w)
  /\ c \in DOMAIN cands
  /\ \/ /\ cands[c] = "Extracted"
        /\ \E to \in {"AwaitingVerdict", "FailedValidation", "Failed"} :
             cands' = MovedTo({c}, to)
     \/ cands[c] = "AwaitingVerdict" /\ cands' = MovedTo({c}, "Approved")
     \/ cands[c] = "Approved" /\ cands' = MovedTo({c}, "Submitted")
     \/ cands[c] \in {"AwaitingVerdict", "Approved"} /\ cands' = MovedTo({c}, "Rejected")
  /\ UNCHANGED <<nodes, reused, dag, frozen, task>>

DagNext ==
  \E w \in Worker :
    \/ Advance(w)
    \/ Review(w)
    \/ \E from \in NodeId, rebuild \in BOOLEAN : Rerun(w, from, rebuild)
    \/ CancelDag(w)
    \/ \E c \in Candidate : Beside(w, c)

DagSpec == DagInit /\ [][DagNext]_dagVars

-----------------------------------------------------------------------------
(* Properties *)

\* Through failures and reruns, a node that has run successfully rests on
\* dependencies that have: no output is kept that stands on a node which was
\* reset or has failed since (rerun resets all that depends on its start).
SuccessInOrder ==
  \A n \in NodeId \ reused :
    nodes[n] = "succeeded" => \A d \in Dependencies(n) : nodes[d] = "succeeded"

\* Canon is written only while an editor's approval of this very review stands
\* (architecture.md: canon_commit only calls submit after human approval).
CommitNeedsEditor ==
  nodes["canon_commit"] \in {"running", "succeeded"}
    => nodes["human_review"] = "succeeded" /\ dag.decision = "approve"

\* A commit that counts as done has put every candidate of the DAG in Canon:
\* one that stopped half-way never does.
CommittedAll ==
  nodes["canon_commit"] = "succeeded" => \A c \in frozen : cands[c] = "Submitted"

\* "A blocker stops later automatic submit": while the DAG is blocked no node
\* starts and none succeeds, whichever nodes had been found ready before.
NothingRunsBlocked ==
  [][Blocked /\ Blocked' =>
       \A n \in NodeId :
         nodes'[n] \in {"running", "succeeded"} => nodes'[n] = nodes[n]
    ]_dagVars

\* dags/service.py: "A cancelled DAG is kept and is not advanced."  No run
\* checks this: it holds of requests one at a time, and a cancellation during an
\* advance of another thread is overwritten.
CancelledNotAdvanced ==
  [][dag.status = "cancelled" => dag'.status = "cancelled" /\ nodes' = nodes]_dagVars

=============================================================================
