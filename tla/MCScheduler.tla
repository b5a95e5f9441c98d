---------------------------- MODULE MCScheduler ----------------------------
(* Scheduler on a book of three scenes, the last of which follows the first. *)
EXTENDS Scheduler, TLC

MCScene == {"s1", "s2", "s3"}
MCOrder == <<"s1", "s2", "s3">>
MCDependsOn == [s \in MCScene |-> IF s = "s3" THEN {"s1"} ELSE {}]
MCScopes == {MCScene, {}}
MCConfigs ==
  {[concurrency |-> 2, budget |-> 2, threshold |-> 2, costs |-> TRUE],
   [concurrency |-> 1, budget |-> 3, threshold |-> 1, costs |-> TRUE]}
=============================================================================
