--------------------------- MODULE CanonAtomicity ---------------------------
(***************************************************************************)
(* The steps of CanonThreads add up to the handlers of CanonPipeline: seen *)
(* only when no request is in flight, the tables change by one handler of  *)
(* the pipeline at a time.  This holds for a server that serves one        *)
(* request at a time and is not killed, and it says what the steps leave   *)
(* behind on every path, early returns and refusals included.              *)
(***************************************************************************)
EXTENDS CanonThreads

VARIABLE settled   \* the tables when last no request was in flight

Tables ==
  [entities |-> entities, facts |-> facts, snapshots |-> snapshots,
   cands |-> cands, runs |-> runs, autoRun |-> autoRun]

Quiet == \A w \in Worker : At(w, "idle")

AtomicityInit == ThreadsInit /\ settled = Tables

AtomicityNext ==
  /\ ThreadsNext
  /\ settled' = IF Quiet' THEN Tables' ELSE settled

AtomicitySpec == AtomicityInit /\ [][AtomicityNext]_<<threadVars, settled>>

Atomic ==
  INSTANCE CanonPipeline
    WITH entities <- settled.entities, facts <- settled.facts,
         snapshots <- settled.snapshots, cands <- settled.cands,
         runs <- settled.runs, autoRun <- settled.autoRun

\* Every request, from its first read to its last write, is one handler of
\* CanonPipeline or changes nothing.
HandlersAreAtomic == Atomic!PipelineSpec

=============================================================================
