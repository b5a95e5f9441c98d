----------------------------- MODULE Scheduler -----------------------------
(***************************************************************************)
(* The batch scheduler (scheduler/service.py, scheduler/parallelism.py): a *)
(* run plans which scenes of its scope may start, creates a DAG for each   *)
(* and advances it, and pauses when the day's budget is spent or too many  *)
(* DAGs in a row went wrong.  start and tick work through their runs DAG   *)
(* by DAG, and a DAG takes as long as the model needs to write the scene,  *)
(* so between two DAGs the editor may pause, resume, cancel or reconfigure.*)
(*                                                                         *)
(* Tokens are counted in DAGs, as every DAG is charged the same estimate.  *)
(* A DAG is its scene and its status; what it does inside is SceneDag.     *)
(* Scenes and their dependencies are fixed; approving a scene is an action.*)
(*                                                                         *)
(* An operator named X_Y is a mutant of X that the properties catch.       *)
(***************************************************************************)
EXTENDS Naturals, Sequences, FiniteSets

CONSTANTS
  Scene,
  StoryOrder,   \* the scenes in the order of the story
  DependsOn,    \* scene -> the scenes its card depends on, all told earlier
  Approved,     \* the scenes whose card is approved at the start
  Scopes,       \* the sets of scenes a run may be started for (a chapter, the book)
  Configs,      \* the limits the editor may set
  Ticker,       \* threads that call start and tick
  MaxRuns,      \* bound of the model: runs ever created
  MaxDags       \* bound of the model: DAGs ever created

Config == [concurrency: Nat \ {0}, budget: Nat, threshold: Nat \ {0}, costs: BOOLEAN]

ASSUME SchedulerAssumption ==
  /\ StoryOrder \in Seq(Scene)
  /\ DependsOn \in [Scene -> SUBSET Scene]
  /\ Approved \subseteq Scene
  /\ Scopes \subseteq SUBSET Scene
  /\ Configs \subseteq Config
  /\ Configs # {}
  /\ MaxRuns \in Nat
  /\ MaxDags \in Nat

VARIABLES
  approved,   \* the scenes whose card is approved
  runs,       \* the schedule runs, oldest first
  dags,       \* the DAGs, oldest first
  spent,      \* tokens_used of today's counter, in DAGs
  config,     \* the limits in force
  alerts,     \* <<run, kind>> for which an open alert exists
  request     \* ticker -> the request it executes, or NoRequest

schedVars == <<approved, runs, dags, spent, config, alerts, request>>

-----------------------------------------------------------------------------
(* Rows *)

RunStatus == {"planned", "running", "paused", "succeeded", "cancelled"}
AlertKind == {"budget_exceeded", "consecutive_failures"}
Reason == AlertKind \cup {"human_pause", "none"}

\* What the scheduler asks of a DAG later on: whether it waits for the editor or
\* has succeeded (finished), was cancelled, or neither (open).
DagSeen == {"open", "finished", "cancelled"}

NoDag == 0
NoLimits == [concurrency |-> 0, budget |-> 0, threshold |-> 0, costs |-> FALSE]
Work(queue, limits) == [queue |-> queue, limits |-> limits, plan |-> <<>>, dag |-> NoDag]
NoRequest == Work(<<>>, NoLimits)

RunRow ==
  [status: RunStatus, reason: Reason, dry: BOOLEAN, scope: SUBSET Scene,
   dags: SUBSET (1 .. MaxDags), failures: Nat]

NewRun(status, scope) ==
  [status |-> status, reason |-> "none", dry |-> status = "planned",
   scope |-> scope, dags |-> {}, failures |-> 0]

SchedTypeOK ==
  /\ approved \subseteq Scene
  /\ runs \in Seq(RunRow)
  /\ Len(runs) <= MaxRuns
  /\ dags \in Seq([scene: Scene, status: DagSeen])
  /\ Len(dags) <= MaxDags
  /\ \A r \in DOMAIN runs : runs[r].dags \subseteq DOMAIN dags
  /\ spent \in 0 .. MaxDags
  /\ config \in Configs
  /\ alerts \subseteq (DOMAIN runs) \X AlertKind
  /\ \A w \in Ticker :
       /\ request[w].queue \in Seq(DOMAIN runs)
       /\ request[w].limits \in Configs \cup {NoLimits}
       /\ request[w].plan \in Seq(Scene)
       /\ request[w].dag \in 0 .. Len(dags)

SchedInit ==
  /\ approved = Approved
  /\ runs = <<>>
  /\ dags = <<>>
  /\ spent = 0
  /\ config \in Configs
  /\ alerts = {}
  /\ request = [w \in Ticker |-> NoRequest]

-----------------------------------------------------------------------------
(* Which scenes may start *)

\* The scenes a card depends on, directly or through others.  A dependency is
\* told earlier, so as many rounds as there are scenes find them all.
AncestorsOf ==
  LET A[n \in 0 .. Len(StoryOrder)] ==
        IF n = 0 THEN DependsOn
        ELSE [s \in Scene |-> A[n-1][s] \cup UNION {DependsOn[t] : t \in A[n-1][s]}]
  IN A[Len(StoryOrder)]

Related(s, t) == s \in AncestorsOf[t] \/ t \in AncestorsOf[s]

ScenesOf(D) == {dags[d].scene : d \in D}

Completed(r) == ScenesOf({d \in runs[r].dags : dags[d].status = "finished"})

InFlight_Freed(r) == ScenesOf({d \in runs[r].dags : dags[d].status # "finished"})

\* Every DAG of the run holds a slot, whatever has become of it.
InFlight(r) == ScenesOf(runs[r].dags)

\* decide, for prose: the card and all it depends on are approved, the scene is
\* not too dear, no slot is held by it or by a relative, no ancestor is unfinished.
MayEnqueue(s, active, completed, limits) ==
  /\ {s} \cup DependsOn[s] \subseteq approved
  /\ limits.costs
  /\ s \notin active
  /\ \A t \in active : ~Related(s, t)
  /\ AncestorsOf[s] \subseteq completed \ active

\* _plan_scenes: in story order, until the slots are taken.  A scene with a
\* decision that names its DAG is passed over; those are the scenes of the run.
Plan(r, limits) ==
  LET P[i \in 0 .. Len(StoryOrder)] ==
        IF i = 0 THEN <<>>
        ELSE LET s == StoryOrder[i]
                 chosen == {P[i-1][k] : k \in DOMAIN P[i-1]}
             IN IF /\ s \in runs[r].scope
                   /\ s \notin ScenesOf(runs[r].dags)
                   /\ MayEnqueue(s, InFlight(r) \cup chosen, Completed(r), limits)
                   /\ Cardinality(InFlight(r)) + Len(P[i-1]) < limits.concurrency
                THEN Append(P[i-1], s)
                ELSE P[i-1]
  IN P[Len(StoryOrder)]

-----------------------------------------------------------------------------
(* Pausing *)

\* _pause_run: a cancelled run stays as it is.
Paused(row, reason) ==
  IF row.status = "cancelled" THEN row
  ELSE [row EXCEPT !.status = "paused", !.reason = reason]

PauseRun(r, row, reason) ==
  /\ runs' = [runs EXCEPT ![r] = Paused(row, reason)]
  /\ alerts' = IF row.status = "cancelled" THEN alerts ELSE alerts \cup {<<r, reason>>}

-----------------------------------------------------------------------------
(* start and tick, run by run and DAG by DAG *)

\* On to the next run of the tick, whose limits are read now.
NextRun(t) == IF Len(t.queue) = 1 THEN NoRequest ELSE Work(Tail(t.queue), config)

\* The rest of the plan, or the next run when there is none.
Rest(t, plan) == IF plan = <<>> THEN NextRun(t) ELSE [t EXCEPT !.plan = plan, !.dag = NoDag]

StartRun(w, scope) ==
  /\ request[w].queue = <<>>
  /\ Len(runs) < MaxRuns
  /\ runs' = Append(runs, NewRun("running", scope))
  /\ request' = [request EXCEPT ![w] = Work(<<Len(runs) + 1>>, config)]
  /\ UNCHANGED <<approved, dags, spent, config, alerts>>

\* list_running_runs, oldest first.
RunningRuns ==
  LET Q[n \in 0 .. Len(runs)] ==
        IF n = 0 THEN <<>>
        ELSE IF runs[n].status = "running" THEN Append(Q[n-1], n) ELSE Q[n-1]
  IN Q[Len(runs)]

Tick(w) ==
  /\ request[w].queue = <<>>
  /\ RunningRuns # <<>>
  /\ request' = [request EXCEPT ![w] = Work(RunningRuns, config)]
  /\ UNCHANGED <<approved, runs, dags, spent, config, alerts>>

\* _advance_run up to its loop.
AdvanceRun(w) ==
  LET t == request[w]
      r == Head(t.queue)
      stopped == runs[r].status \in {"cancelled", "paused", "succeeded"} \/ runs[r].dry
  IN /\ t.queue # <<>> /\ t.plan = <<>>
     /\ \/ /\ stopped
           /\ request' = [request EXCEPT ![w] = NextRun(t)]
           /\ UNCHANGED <<runs, alerts>>
        \/ /\ ~stopped /\ spent >= t.limits.budget
           /\ PauseRun(r, runs[r], "budget_exceeded")
           /\ request' = [request EXCEPT ![w] = NextRun(t)]
        \/ /\ ~stopped /\ spent < t.limits.budget
           /\ runs[r].failures >= t.limits.threshold
           /\ PauseRun(r, runs[r], "consecutive_failures")
           /\ request' = [request EXCEPT ![w] = NextRun(t)]
        \/ /\ ~stopped /\ spent < t.limits.budget
           /\ runs[r].failures < t.limits.threshold
           /\ runs' = IF runs[r].scope = {}
                      THEN [runs EXCEPT ![r].status = "succeeded"] ELSE runs
           /\ request' = [request EXCEPT ![w] = Rest(t, Plan(r, t.limits))]
           /\ UNCHANGED alerts
     /\ UNCHANGED <<approved, dags, spent, config>>

CreateDag(w) ==
  LET t == request[w] IN
  /\ t.plan # <<>> /\ t.dag = NoDag
  /\ Len(dags) < MaxDags
  /\ dags' = Append(dags, [scene |-> Head(t.plan), status |-> "open"])
  /\ request' = [request EXCEPT ![w].dag = Len(dags) + 1]
  /\ UNCHANGED <<approved, runs, spent, config, alerts>>

LoopOn_SameScene(w, r) ==
  request' = [request EXCEPT ![w] =
    IF runs'[r].status = "paused" THEN NextRun(request[w])
    ELSE Rest(request[w], request[w].plan)]

\* The loop goes on unless it finds the run paused.
LoopOn(w, r) ==
  request' = [request EXCEPT ![w] =
    IF runs'[r].status = "paused" THEN NextRun(request[w])
    ELSE Rest(request[w], Tail(request[w].plan))]

\* advance refuses a DAG that was cancelled since it was created.
AdvanceRefused(w) ==
  LET t == request[w]
      r == Head(t.queue)
      row == [runs[r] EXCEPT !.failures = @ + 1]
  IN /\ t.dag # NoDag
     /\ dags[t.dag].status = "cancelled"
     /\ IF row.failures >= t.limits.threshold
        THEN PauseRun(r, row, "consecutive_failures")
        ELSE runs' = [runs EXCEPT ![r] = row] /\ UNCHANGED alerts
     /\ LoopOn(w, r)
     /\ UNCHANGED <<approved, dags, spent, config>>

\* The DAG is the run's, its tokens are charged, and the limits are looked at.
\* "blocked" is either of the two statuses counted as a failure; "running" any
\* that leaves the count alone.
Charged(w, outcome) ==
  LET t == request[w]
      r == Head(t.queue)
      row == [runs[r] EXCEPT
                !.dags = @ \cup {t.dag},
                !.failures = CASE outcome = "blocked" -> @ + 1
                               [] outcome = "waiting_human" -> 0
                               [] OTHER -> @]
  IN /\ spent' = spent + 1
     /\ \/ /\ spent + 1 >= t.limits.budget
           /\ PauseRun(r, row, "budget_exceeded")
        \/ /\ spent + 1 < t.limits.budget
           /\ row.failures >= t.limits.threshold
           /\ PauseRun(r, row, "consecutive_failures")
        \/ /\ spent + 1 < t.limits.budget
           /\ row.failures < t.limits.threshold
           /\ runs' = [runs EXCEPT ![r] = row]
           /\ UNCHANGED alerts
     /\ LoopOn(w, r)

AdvanceDag(w, outcome) ==
  /\ request[w].dag # NoDag
  /\ dags[request[w].dag].status # "cancelled"
  /\ dags' = [dags EXCEPT ![request[w].dag].status =
                 IF outcome = "waiting_human" THEN "finished" ELSE "open"]
  /\ Charged(w, outcome)
  /\ UNCHANGED <<approved, config>>

\* Any other error ends the request: the DAG is nobody's, no decision names it.
AdvanceRaises(w) ==
  /\ request[w].dag # NoDag
  /\ request' = [request EXCEPT ![w] = NoRequest]
  /\ UNCHANGED <<approved, runs, dags, spent, config, alerts>>

-----------------------------------------------------------------------------
(* The other requests *)

\* dry_run records a run that was only planned.
DryRun(scope) ==
  /\ Len(runs) < MaxRuns
  /\ runs' = Append(runs, NewRun("planned", scope))
  /\ UNCHANGED <<approved, dags, spent, config, alerts, request>>

Pause(r) ==
  /\ r \in DOMAIN runs
  /\ runs' = [runs EXCEPT ![r] = Paused(@, "human_pause")]
  /\ UNCHANGED <<approved, dags, spent, config, alerts, request>>

\* The failures counted so far are kept; the alerts of the run are acknowledged.
Resume(r) ==
  /\ r \in DOMAIN runs
  /\ runs[r].status = "paused"
  /\ runs' = [runs EXCEPT ![r].status = "running", ![r].reason = "none"]
  /\ alerts' = {a \in alerts : a[1] # r}
  /\ UNCHANGED <<approved, dags, spent, config, request>>

Cancel(r) ==
  /\ r \in DOMAIN runs
  /\ runs' = [runs EXCEPT ![r].status = "cancelled"]
  /\ UNCHANGED <<approved, dags, spent, config, alerts, request>>

Configure(c) ==
  /\ config' = c
  /\ UNCHANGED <<approved, runs, dags, spent, alerts, request>>

\* A counter of tokens is kept per day; tomorrow's starts at zero.
NewDay ==
  /\ spent' = 0
  /\ UNCHANGED <<approved, runs, dags, config, alerts, request>>

\* approve_scene of the scene component.
ApproveScene(s) ==
  /\ DependsOn[s] \subseteq approved
  /\ approved' = approved \cup {s}
  /\ UNCHANGED <<runs, dags, spent, config, alerts, request>>

\* Reviews, reruns and cancellations of the DAG component.
DagMoves(d, status) ==
  /\ d \in DOMAIN dags
  /\ dags[d].status # "cancelled"
  /\ dags' = [dags EXCEPT ![d].status = status]
  /\ UNCHANGED <<approved, runs, spent, config, alerts, request>>

Ticking ==
  \E w \in Ticker :
    \/ \E scope \in Scopes : StartRun(w, scope)
    \/ Tick(w) \/ AdvanceRun(w) \/ CreateDag(w)
    \/ AdvanceRefused(w) \/ AdvanceRaises(w)
    \/ \E outcome \in {"waiting_human", "blocked", "running"} : AdvanceDag(w, outcome)

EditorRequests ==
  \/ \E scope \in Scopes : DryRun(scope)
  \/ \E r \in 1 .. MaxRuns : Pause(r) \/ Resume(r) \/ Cancel(r)
  \/ \E c \in Configs : Configure(c)

BesideTicks ==
  \/ NewDay
  \/ \E s \in Scene : ApproveScene(s)
  \/ \E d \in 1 .. MaxDags, status \in DagSeen : DagMoves(d, status)

SchedNext == Ticking \/ EditorRequests \/ BesideTicks

SchedSpec == SchedInit /\ [][SchedNext]_schedVars

-----------------------------------------------------------------------------
(* Properties *)

\* A run takes a DAG only within the limits of its request: as many DAGs as
\* concurrency allows, counting those that have ended, as no slot is given back;
\* and none when the day's budget is spent.  What the editor does meanwhile does
\* not change that, with one exception: a run cancelled in the middle of a tick
\* cannot be paused any more, and its plan goes on beyond the budget.
WithinLimits ==
  [][\A w \in Ticker : \A r \in DOMAIN runs : runs'[r].dags # runs[r].dags =>
       /\ Cardinality(runs'[r].dags) <= request[w].limits.concurrency
       /\ spent < request[w].limits.budget \/ runs[r].status = "cancelled"]_schedVars

\* Prose that follows other prose is serialized (parallelism.py) so strictly
\* that a run starts it never: its ancestors are finished only if the run has
\* started them, and then they hold their slots for good.
DependentsHeld ==
  \A r \in DOMAIN runs : \A s \in ScenesOf(runs[r].dags) : DependsOn[s] = {}

\* A run has one DAG for a scene, however often it was ticked, paused and
\* resumed in the middle of a tick.
OneDagPerScene ==
  \A r \in DOMAIN runs :
    Cardinality(ScenesOf(runs[r].dags)) = Cardinality(runs[r].dags)

\* What resuming is for: a run is paused for failures only in a step in which one
\* of its DAGs goes wrong.  No run checks this, as the code does not keep it: resume
\* keeps the count of failures, so the next tick pauses the run before it has
\* started anything.
PausedForNewFailures ==
  [][\A r \in DOMAIN runs :
       /\ runs[r].status = "running"
       /\ runs'[r].reason = "consecutive_failures"
       => runs'[r].failures > runs[r].failures]_schedVars
=============================================================================
