------------------------------ MODULE StagePlan ------------------------------
(***************************************************************************)
(* The cache plan of an indexing job (Scheduler::run_prepared): every      *)
(* stage of the DAG is planned as run, replay or skip.  Stages are         *)
(* numbered in topological order, as Dag::build leaves them, so a consumer *)
(* always has a larger number than its producers.                          *)
(*                                                                         *)
(* The code decides in three loops over one array.  One action below is    *)
(* one iteration of a loop; <<pass, i>> is the loop and its index.         *)
(*   pass 1  backwards: what a cached stage's running consumers demand;    *)
(*   pass 2  forwards: a replay with a running producer runs instead;      *)
(*   pass 3  forwards: any stage with a running producer runs.             *)
(* The DAG, the set of stages with a cache marker and the set of operators *)
(* that can replay are inputs: Init chooses them, no step changes them.    *)
(***************************************************************************)
EXTENDS Integers, CachePlan

CONSTANT N    \* number of stages

ASSUME NAssumption == N \in Nat \ {0}

VARIABLES
  consumers,  \* consumers[p]: the stages that take an output of stage p
  cached,     \* the stages whose cache marker exists
  replayable, \* the stages whose operator supports replay
  plan,       \* what each stage will do
  pass,       \* the loop that is running
  i           \* its index

inputs == <<consumers, cached, replayable>>
vars == <<consumers, cached, replayable, plan, pass, i>>

Stages == 1..N

(* The wirings a topological order allows. *)
Wirings == {w \in [Stages -> SUBSET Stages] :
              \A p \in Stages : \A c \in w[p] : p < c}

(* Mutant: any producer that takes part counts. *)
ProducerTakesPart(s) == \E p \in Stages : s \in consumers[p] /\ plan[p] # "skip"

ProducerRuns(s) == \E p \in Stages : s \in consumers[p] /\ plan[p] = "run"

ConsumerNeedsItems(s) == \E c \in consumers[s] : plan[c] = "run"

Init ==
  /\ consumers \in Wirings
  /\ cached \in SUBSET Stages
  /\ replayable \in SUBSET Stages
  /\ plan = [s \in Stages |-> "run"]
  /\ pass = "demand"
  /\ i = N

(* Mutant: a stage that cannot replay is not decoded again. *)
DemandedNeverReruns(s) ==
  IF s \notin cached THEN "run"
  ELSE IF ConsumerNeedsItems(s) /\ s \in replayable THEN "replay"
  ELSE "skip"

(* What the first loop decides for one stage. *)
Demanded(s) ==
  IF s \notin cached THEN "run"
  ELSE IF ~ConsumerNeedsItems(s) THEN "skip"
  ELSE IF s \in replayable THEN "replay"
  ELSE "run"

(* Pass 1, from the last stage to the first: consumers are decided first.  *)
Demand ==
  /\ pass = "demand"
  /\ plan' = [plan EXCEPT ![i] = Demanded(i)]
  /\ IF i = 1
       THEN pass' = "replays" /\ i' = 1
       ELSE pass' = pass /\ i' = i - 1
  /\ UNCHANGED inputs

(* The forward loops turn a stage into a run when a producer runs.         *)
RunIfProducerRuns(candidate) ==
  plan' = IF candidate /\ ProducerRuns(i)
            THEN [plan EXCEPT ![i] = "run"]
            ELSE plan

Advance(next) ==
  /\ IF i = N
       THEN pass' = next /\ i' = 1
       ELSE pass' = pass /\ i' = i + 1
  /\ UNCHANGED inputs

(* Pass 2: a replay whose own producers run.                               *)
Replays ==
  /\ pass = "replays"
  /\ RunIfProducerRuns(plan[i] = "replay")
  /\ Advance("inputs")

(* Pass 3: any stage whose producers run sees new inputs.                  *)
Inputs ==
  /\ pass = "inputs"
  /\ RunIfProducerRuns(plan[i] # "run")
  /\ Advance("done")

Next == Demand \/ Replays \/ Inputs

Spec == Init /\ [][Next]_vars

-----------------------------------------------------------------------------
(* The plan of a finished computation. *)
Done == pass = "done"

TypeOK ==
  /\ consumers \in Wirings
  /\ cached \subseteq Stages
  /\ replayable \subseteq Stages
  /\ plan \in [Stages -> Plan]
  /\ pass \in {"demand", "replays", "inputs", "done"}
  /\ i \in Stages

(* A stage whose outputs are reused (skipped or replayed) has no producer  *)
(* that runs: a running producer rewrites the rows the cached outputs were *)
(* computed from.                                                          *)
CachedOutputsAreCurrent ==
  Done => \A s \in Stages : plan[s] # "run" => ~ProducerRuns(s)

(* A cached stage is only recomputed for a reason: a producer runs, or a   *)
(* running consumer needs items the operator cannot replay.  In particular *)
(* a replay is never a need, which is what keeps a fine pass over a coarse *)
(* index from decoding the video again.                                    *)
NoNeedlessRun ==
  Done => \A s \in cached :
            plan[s] = "run" =>
              \/ ProducerRuns(s)
              \/ s \notin replayable /\ ConsumerNeedsItems(s)

(* A replay always has somebody to replay to, a marker and an operator     *)
(* that can do it (run_stage fails the stage when it cannot).              *)
ReplayIsPossibleAndNeeded ==
  Done => \A s \in Stages :
            plan[s] = "replay" => /\ s \in cached \cap replayable
                                  /\ ConsumerNeedsItems(s)

(* A running stage can only be missing the items of a skipped producer     *)
(* when the forward loops turned it into a run after that producer had     *)
(* been decided: it is cached and another producer runs.                   *)
StarvedOnlyByForcedRun ==
  Done => \A p \in Stages : \A c \in consumers[p] :
            plan[p] = "skip" /\ plan[c] = "run" => c \in cached /\ ProducerRuns(c)

(* The loops, for all their updating in place, compute the function.       *)
LoopsComputeThePlan ==
  Done => plan = PlanFor(N, consumers, cached, replayable)

(* The documented meaning of skip: "cached, no running consumer needs its  *)
(* items" (docs/05-indexing-pipeline.md, the Scheduler section).           *)
SkippedMeansNotNeeded ==
  Done => \A s \in Stages : plan[s] = "skip" => ~ConsumerNeedsItems(s)

(* What run_prepared relies on when it starts the stages of a plan.        *)
PlanIsSound ==
  /\ TypeOK
  /\ CachedOutputsAreCurrent
  /\ NoNeedlessRun
  /\ ReplayIsPossibleAndNeeded
  /\ StarvedOnlyByForcedRun
=============================================================================
