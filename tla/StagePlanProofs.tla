--------------------------- MODULE StagePlanProofs ---------------------------
(***************************************************************************)
(* Proofs about the cache plan, for every number of stages, wiring, set of *)
(* markers and set of replayable operators.                                *)
(*                                                                         *)
(* The inductive invariant says what the three loops have established so   *)
(* far.  In pass 1 the stages above i are decided by what their consumers  *)
(* (all above them) do, and the others still run.  From then on a stage    *)
(* can only turn into a run, which makes ProducerRuns and                  *)
(* ConsumerNeedsItems monotone; pass 3 moves forward, so that what it      *)
(* changes at i can only concern the consumers above i.                    *)
(***************************************************************************)
EXTENDS StagePlan, WellFoundedInduction, TLAPS

Uncached(s) == s \notin cached => plan[s] = "run"

Replayed(s) ==
  plan[s] = "replay" => s \in cached \cap replayable /\ ConsumerNeedsItems(s)

(* Pass 1 decided s. *)
DecidedByDemand(s) ==
  /\ Uncached(s)
  /\ Replayed(s)
  /\ plan[s] = "skip" => ~ConsumerNeedsItems(s)
  /\ s \in cached /\ plan[s] = "run" => s \notin replayable /\ ConsumerNeedsItems(s)

Reason(s) ==
  s \in cached /\ plan[s] = "run" =>
    ProducerRuns(s) \/ (s \notin replayable /\ ConsumerNeedsItems(s))

Starved(p) ==
  \A c \in consumers[p] :
    plan[p] = "skip" /\ plan[c] = "run" => c \in cached /\ ProducerRuns(c)

Settled(s) == plan[s] # "run" => ~ProducerRuns(s)

DemandInv ==
  pass = "demand" => \A s \in Stages : IF s > i THEN DecidedByDemand(s)
                                                ELSE plan[s] = "run"

ForwardInv ==
  pass # "demand" => \A s \in Stages :
                       Uncached(s) /\ Replayed(s) /\ Reason(s) /\ Starved(s)

SettledInv ==
  /\ pass = "inputs" => \A s \in Stages : s < i => Settled(s)
  /\ pass = "done" => \A s \in Stages : Settled(s)

IInv == TypeOK /\ DemandInv /\ ForwardInv /\ SettledInv

-----------------------------------------------------------------------------
(* The three loops only write elements of Plan and keep i an index.        *)
LEMMA TypeCorrect == TypeOK /\ [Next]_vars => TypeOK'
<1> SUFFICES ASSUME TypeOK, [Next]_vars PROVE TypeOK'
  OBVIOUS
<1> USE NAssumption
<1>1. CASE Demand
  <2>1. Demanded(i) \in Plan
    BY DEF Demanded, Plan
  <2>2. plan' \in [Stages -> Plan]
    BY <1>1, <2>1 DEF Demand, TypeOK
  <2>3. QED
    BY <1>1, <2>2 DEF Demand, TypeOK, inputs, Stages
<1>2. CASE Replays
  <2>1. plan' \in [Stages -> Plan]
    BY <1>2 DEF Replays, RunIfProducerRuns, TypeOK, Plan
  <2>2. QED
    BY <1>2, <2>1 DEF Replays, Advance, TypeOK, inputs, Stages
<1>3. CASE Inputs
  <2>1. plan' \in [Stages -> Plan]
    BY <1>3 DEF Inputs, RunIfProducerRuns, TypeOK, Plan
  <2>2. QED
    BY <1>3, <2>1 DEF Inputs, Advance, TypeOK, inputs, Stages
<1>4. CASE UNCHANGED vars
  BY <1>4 DEF TypeOK, vars
<1>5. QED
  BY <1>1, <1>2, <1>3, <1>4 DEF Next

(* One iteration of pass 1 decides stage i.  Its consumers have larger     *)
(* numbers, so that their decisions stand.                                 *)
LEMMA DemandStep ==
  ASSUME IInv, Demand
  PROVE  \A s \in Stages : IF s >= i THEN DecidedByDemand(s)' ELSE plan'[s] = "run"
<1> USE NAssumption
<1>1. /\ consumers' = consumers /\ cached' = cached /\ replayable' = replayable
      /\ plan' = [plan EXCEPT ![i] = Demanded(i)]
      /\ plan \in [Stages -> Plan] /\ i \in Stages /\ pass = "demand"
      /\ consumers \in [Stages -> SUBSET Stages]
      /\ \A p \in Stages : \A c \in consumers[p] : p < c
  BY DEF IInv, TypeOK, Demand, inputs, Wirings
<1>2. ASSUME NEW s \in Stages, s >= i
      PROVE  ConsumerNeedsItems(s)' = ConsumerNeedsItems(s)
  <2>1. \A c \in consumers[s] : c \in Stages /\ c # i
    BY <1>1, <1>2 DEF Stages
  <2>2. \A c \in consumers[s] : plan'[c] = plan[c]
    BY <1>1, <2>1
  <2>3. QED
    BY <1>1, <2>2 DEF ConsumerNeedsItems
<1>3. ASSUME NEW s \in Stages, s > i PROVE DecidedByDemand(s)'
  <2>1. DecidedByDemand(s)
    BY <1>1, <1>3 DEF IInv, DemandInv
  <2>2. plan'[s] = plan[s]
    BY <1>1, <1>3 DEF Stages
  <2>3. ConsumerNeedsItems(s)' = ConsumerNeedsItems(s)
    BY <1>1, <1>2, <1>3 DEF Stages
  <2>4. QED
    BY <1>1, <2>1, <2>2, <2>3 DEF DecidedByDemand, Uncached, Replayed
<1>4. ASSUME NEW s \in Stages, s = i PROVE DecidedByDemand(s)'
  <2>1. ConsumerNeedsItems(s)' = ConsumerNeedsItems(s)
    BY <1>1, <1>2, <1>4 DEF Stages
  <2>2. plan'[s] = Demanded(s)
    BY <1>1, <1>4
  <2>3. QED
    BY <2>1, <2>2, <1>1 DEF DecidedByDemand, Uncached, Replayed, Demanded
<1>5. ASSUME NEW s \in Stages, s < i PROVE plan'[s] = "run"
  BY <1>1, <1>5 DEF IInv, DemandInv, Stages
<1>6. QED
  BY <1>1, <1>3, <1>4, <1>5 DEF Stages

(* A step of pass 2 or 3 leaves the plan alone, or turns stage i, which    *)
(* was no run and has a running producer, into one.                        *)
LEMMA ForwardStep ==
  ASSUME TypeOK, Replays \/ Inputs
  PROVE  /\ consumers' = consumers /\ cached' = cached /\ replayable' = replayable
         /\ i \in Stages
         /\ \/ plan' = plan
            \/ /\ plan[i] # "run" /\ ProducerRuns(i)
               /\ plan' = [plan EXCEPT ![i] = "run"]
<1>1. CASE Replays
  BY <1>1 DEF Replays, RunIfProducerRuns, Advance, inputs, TypeOK
<1>2. CASE Inputs
  BY <1>2 DEF Inputs, RunIfProducerRuns, Advance, inputs, TypeOK
<1>3. QED
  BY <1>1, <1>2

(* Such a step keeps everything pass 1 guarantees: runs are only added.    *)
LEMMA ForwardKeeps ==
  ASSUME TypeOK, Replays \/ Inputs,
         \A s \in Stages : Uncached(s) /\ Replayed(s) /\ Reason(s) /\ Starved(s)
  PROVE  \A s \in Stages : (Uncached(s) /\ Replayed(s) /\ Reason(s) /\ Starved(s))'
<1>1. /\ consumers' = consumers /\ cached' = cached /\ replayable' = replayable
      /\ i \in Stages
      /\ \/ plan' = plan
         \/ /\ plan[i] # "run" /\ ProducerRuns(i)
            /\ plan' = [plan EXCEPT ![i] = "run"]
  BY ForwardStep
<1>2. /\ plan \in [Stages -> Plan] /\ consumers \in [Stages -> SUBSET Stages]
      /\ \A p \in Stages : \A c \in consumers[p] : p < c
  BY DEF TypeOK, Wirings
<1>3. \A s \in Stages : plan[s] = "run" => plan'[s] = "run"
  BY <1>1, <1>2
<1>4. \A s \in Stages : plan'[s] # plan[s] =>
        plan[s] # "run" /\ plan'[s] = "run" /\ ProducerRuns(s)
  BY <1>1, <1>2
<1>5. \A s \in Stages : ProducerRuns(s) => ProducerRuns(s)'
  BY <1>1, <1>3 DEF ProducerRuns
<1>6. \A s \in Stages : ConsumerNeedsItems(s) => ConsumerNeedsItems(s)'
  BY <1>1, <1>2, <1>3 DEF ConsumerNeedsItems
<1>7. ASSUME NEW s \in Stages PROVE Uncached(s)'
  BY <1>1, <1>3 DEF Uncached
<1>8. ASSUME NEW s \in Stages PROVE Replayed(s)'
  BY <1>1, <1>4, <1>6 DEF Replayed
<1>9. ASSUME NEW s \in Stages PROVE Reason(s)'
  BY <1>1, <1>4, <1>5, <1>6 DEF Reason
<1>10. ASSUME NEW p \in Stages PROVE Starved(p)'
  <2> SUFFICES ASSUME NEW c \in consumers[p], plan'[p] = "skip", plan'[c] = "run"
               PROVE  c \in cached /\ ProducerRuns(c)'
    BY <1>1 DEF Starved
  <2>1. c \in Stages /\ plan[p] = "skip"
    BY <1>2, <1>4
  <2>2. CASE plan[c] = "run"
    BY <2>1, <2>2, <1>5 DEF Starved
  <2>3. CASE plan[c] # "run"
    <3>1. ProducerRuns(c)
      BY <2>1, <2>3, <1>4
    <3>2. QED
      BY <2>1, <2>3, <3>1, <1>5 DEF Uncached
  <2>4. QED
    BY <2>2, <2>3
<1>11. QED
  BY <1>7, <1>8, <1>9, <1>10

(* A run added at i cannot unsettle a stage up to i: producers have        *)
(* smaller numbers than their consumers.                                   *)
LEMMA SettledBelow ==
  ASSUME TypeOK, Inputs, \A s \in Stages : s < i => Settled(s)
  PROVE  \A s \in Stages : s <= i => Settled(s)'
<1>1. /\ consumers' = consumers /\ i \in Stages
      /\ plan' = IF plan[i] # "run" /\ ProducerRuns(i)
                   THEN [plan EXCEPT ![i] = "run"] ELSE plan
      /\ plan \in [Stages -> Plan] /\ consumers \in [Stages -> SUBSET Stages]
      /\ \A p \in Stages : \A c \in consumers[p] : p < c
  BY DEF Inputs, RunIfProducerRuns, Advance, inputs, TypeOK, Wirings
<1> SUFFICES ASSUME NEW s \in Stages, s <= i, plan'[s] # "run"
             PROVE  ~ProducerRuns(s)'
  BY DEF Settled
<1>2. ~ProducerRuns(s)
  <2>1. CASE s < i
    BY <2>1, <1>1 DEF Settled, Stages
  <2>2. CASE s = i
    BY <2>2, <1>1
  <2>3. QED
    BY <2>1, <2>2, <1>1 DEF Stages
<1>3. \A p \in Stages : s \in consumers[p] => plan'[p] = plan[p]
  BY <1>1 DEF Stages
<1>4. QED
  BY <1>1, <1>2, <1>3 DEF ProducerRuns

(* The invariant is inductive. *)
LEMMA PlanInductive == IInv /\ [Next]_vars => IInv'
<1> SUFFICES ASSUME IInv, [Next]_vars PROVE IInv'
  OBVIOUS
<1> USE NAssumption
<1>1. TypeOK /\ TypeOK'
  BY TypeCorrect DEF IInv
<1>2. CASE Demand
  <2>1. \A s \in Stages : IF s >= i THEN DecidedByDemand(s)' ELSE plan'[s] = "run"
    BY <1>2, DemandStep
  <2>2. CASE i = 1
    <3>1. pass' = "replays" /\ \A s \in Stages : s >= i
      BY <1>2, <2>2 DEF Demand, Stages
    <3>2. \A s \in Stages : DecidedByDemand(s)'
      BY <2>1, <3>1
    <3>3. ASSUME NEW s \in Stages PROVE (Uncached(s) /\ Replayed(s) /\ Reason(s))'
      BY <3>2 DEF DecidedByDemand, Reason
    <3>4. ASSUME NEW p \in Stages PROVE Starved(p)'
      BY <3>2 DEF DecidedByDemand, Starved, ConsumerNeedsItems
    <3>5. QED
      BY <1>1, <3>1, <3>3, <3>4 DEF IInv, DemandInv, ForwardInv, SettledInv
  <2>3. CASE i # 1
    <3>1. pass' = "demand" /\ i' = i - 1
      BY <1>2, <2>3 DEF Demand
    <3>2. DemandInv'
      BY <1>1, <2>1, <3>1 DEF DemandInv, TypeOK, Stages
    <3>3. QED
      BY <1>1, <3>1, <3>2 DEF IInv, ForwardInv, SettledInv
  <2>4. QED
    BY <2>2, <2>3
<1>3. CASE Replays \/ Inputs
  <2>1. pass # "demand" /\ pass' # "demand"
    BY <1>3 DEF Replays, Inputs, Advance
  <2>2. \A s \in Stages : (Uncached(s) /\ Replayed(s) /\ Reason(s) /\ Starved(s))'
    BY <1>1, <1>3, <2>1, ForwardKeeps DEF IInv, ForwardInv
  <2>3. SettledInv'
    <3>1. CASE Replays
      BY <1>1, <3>1 DEF Replays, Advance, SettledInv, TypeOK, Stages
    <3>2. CASE Inputs
      <4>1. \A s \in Stages : s <= i => Settled(s)'
        BY <1>1, <3>2, SettledBelow DEF IInv, SettledInv, Inputs
      <4>2. CASE i = N
        <5>1. pass' = "done" /\ \A s \in Stages : s <= i
          BY <3>2, <4>2 DEF Inputs, Advance, Stages
        <5>2. QED
          BY <4>1, <5>1 DEF SettledInv
      <4>3. CASE i # N
        <5>1. pass' = "inputs" /\ i' = i + 1
          BY <3>2, <4>3 DEF Inputs, Advance
        <5>2. QED
          BY <1>1, <4>1, <5>1 DEF SettledInv, TypeOK, Stages
      <4>4. QED
        BY <4>2, <4>3
    <3>3. QED
      BY <1>3, <3>1, <3>2
  <2>4. QED
    BY <1>1, <2>1, <2>2, <2>3 DEF IInv, DemandInv, ForwardInv
<1>4. CASE UNCHANGED vars
  BY <1>4 DEF IInv, TypeOK, DemandInv, ForwardInv, SettledInv, DecidedByDemand,
              Uncached, Replayed, Reason, Starved, Settled, ProducerRuns,
              ConsumerNeedsItems, vars
<1>5. QED
  BY <1>2, <1>3, <1>4 DEF Next

(* Before the first iteration every stage runs and none is decided.        *)
LEMMA PlanInitially == Init => IInv
BY NAssumption DEF Init, IInv, TypeOK, DemandInv, ForwardInv, SettledInv,
                   Stages, Plan, DecidedByDemand

(* The invariant holds after every iteration. *)
LEMMA PlanInvariant == Spec => []IInv
<1>1. QED
  BY PlanInitially, PlanInductive, PTL DEF Spec

(* The plan stays a plan, the index an index. *)
THEOREM PlanTypeCorrect == Spec => []TypeOK
<1>1. IInv => TypeOK
  BY DEF IInv
<1>2. QED
  BY <1>1, PlanInvariant, PTL

(* A stage whose outputs are reused has no running producer, whatever the  *)
(* wiring and the markers.                                                 *)
THEOREM PlanUsesCurrentOutputs == Spec => []CachedOutputsAreCurrent
<1>1. IInv => CachedOutputsAreCurrent
  BY DEF IInv, SettledInv, Settled, CachedOutputsAreCurrent, Done
<1>2. QED
  BY <1>1, PlanInvariant, PTL

(* A cached stage is never recomputed without a reason. *)
THEOREM PlanNeverRunsNeedlessly == Spec => []NoNeedlessRun
<1>1. IInv => NoNeedlessRun
  BY DEF IInv, TypeOK, ForwardInv, Reason, NoNeedlessRun, Done
<1>2. QED
  BY <1>1, PlanInvariant, PTL

(* A replay has a marker, an operator that can do it and a consumer that   *)
(* wants it.                                                               *)
THEOREM PlanReplaysForAConsumer == Spec => []ReplayIsPossibleAndNeeded
<1>1. IInv => ReplayIsPossibleAndNeeded
  BY DEF IInv, ForwardInv, Replayed, ReplayIsPossibleAndNeeded, Done
<1>2. QED
  BY <1>1, PlanInvariant, PTL

(* Only a cached stage that a running producer forces to run can miss the  *)
(* items of a skipped producer.                                            *)
THEOREM PlanStarvesOnlyForcedRuns == Spec => []StarvedOnlyByForcedRun
<1>1. IInv => StarvedOnlyByForcedRun
  BY DEF IInv, ForwardInv, Starved, StarvedOnlyByForcedRun, Done
<1>2. QED
  BY <1>1, PlanInvariant, PTL

(* Every plan is sound, for any number of stages, wiring and markers.      *)
THEOREM PlansAreSound == Spec => []PlanIsSound
BY PlanTypeCorrect, PlanUsesCurrentOutputs, PlanNeverRunsNeedlessly,
   PlanReplaysForAConsumer, PlanStarvesOnlyForcedRuns, PTL DEF PlanIsSound

-----------------------------------------------------------------------------
(* The loops and the functions of CachePlan.  A recursive function is a    *)
(* value that satisfies its equation; it is the only one when the equation *)
(* determines it stage by stage, which a least counterexample shows.  The  *)
(* plan at the end of a loop satisfies the equation of that loop, so it is *)
(* the function, and the next loop starts from it.                         *)

(* Every set of naturals has a least element. *)
LEMMA LeastNat ==
  ASSUME NEW T \in SUBSET Nat, T # {}
  PROVE  \E n \in T : \A m \in T : n <= m
<1>1. PICK R : IsWellFoundedOn(R, Nat) /\ \A x, y \in Nat : <<x, y>> \in R <=> x < y
  <2>1. \A x, y \in Nat : <<x, y>> \in OpToRel(<, Nat) <=> x < y
    BY DEF OpToRel
  <2>2. QED
    BY <2>1, NatLessThanWellFounded
<1>2. IsWellFoundedOn(R, Nat)
  BY <1>1
<1>3. PICK n \in T : \A m \in T : ~(<<m, n>> \in R)
  BY <1>2, WFMin
<1>4. \A m \in T : m \in Nat /\ n \in Nat /\ ~(m < n)
  BY <1>1, <1>3
<1>5. QED
  BY <1>4

(* Counting stages from the last one. *)
LEMMA Mirrored ==
  \A c \in Stages : N - c \in 0..N /\ N - (N - c) = c
BY NAssumption DEF Stages

(* Two plans that agree wherever they agree on the stages before agree.    *)
LEMMA AgreeUpwards ==
  ASSUME NEW f, NEW g, f = [s \in Stages |-> f[s]], g = [s \in Stages |-> g[s]],
         \A s \in Stages : (\A p \in 1..(s - 1) : f[p] = g[p]) => f[s] = g[s]
  PROVE  f = g
<1> USE NAssumption DEF Stages
<1> DEFINE T == {s \in Stages : f[s] # g[s]}
<1>1. T = {}
  <2> SUFFICES ASSUME T # {} PROVE FALSE
    OBVIOUS
  <2>1. T \in SUBSET Nat
    OBVIOUS
  <2>2. PICK s \in T : \A m \in T : s <= m
    BY <2>1, LeastNat
  <2>3. \A p \in 1..(s - 1) : f[p] = g[p]
    BY <2>2
  <2>4. QED
    BY <2>2, <2>3
<1>2. QED
  BY <1>1

(* The same from the last stage down. *)
LEMMA AgreeDownwards ==
  ASSUME NEW f, NEW g, f = [s \in Stages |-> f[s]], g = [s \in Stages |-> g[s]],
         \A s \in Stages : (\A c \in Stages : s < c => f[c] = g[c]) => f[s] = g[s]
  PROVE  f = g
<1> USE NAssumption DEF Stages
<1> DEFINE T == {k \in 0..N : N - k \in Stages /\ f[N - k] # g[N - k]}
<1>1. T = {}
  <2> SUFFICES ASSUME T # {} PROVE FALSE
    OBVIOUS
  <2>1. T \in SUBSET Nat
    OBVIOUS
  <2>2. PICK k \in T : \A m \in T : k <= m
    BY <2>1, LeastNat
  <2>3. \A c \in Stages : N - k < c => f[c] = g[c]
    <3> SUFFICES ASSUME NEW c \in Stages, N - k < c, f[c] # g[c] PROVE FALSE
      OBVIOUS
    <3>1. N - c \in 0..N /\ N - (N - c) = c
      BY Mirrored
    <3>2. N - c \in T
      BY <3>1
    <3>3. QED
      BY <2>2, <3>2
  <2>4. QED
    BY <2>2, <2>3
<1>2. \A s \in Stages : f[s] = g[s]
  BY <1>1, Mirrored
<1>3. QED
  BY <1>2

(* The functions the three loops compute. *)
AfterDemand == DemandedPlan(N, consumers, cached, replayable)

AfterReplays == ReplayedPlan(N, consumers, AfterDemand)

AfterInputs == SettledPlan(N, consumers, AfterReplays)

(* A plan in which each stage is as its consumers demand is what pass 1    *)
(* computes.                                                               *)
LEMMA DemandUnique ==
  ASSUME NEW w \in Wirings, NEW marked, NEW able, NEW decided \in [Stages -> Plan],
         \A s \in Stages :
           decided[s] = IF s \notin marked THEN "run"
                   ELSE IF \A c \in w[s] : decided[c] # "run" THEN "skip"
                   ELSE IF s \in able THEN "replay"
                   ELSE "run"
  PROVE  decided = DemandedPlan(N, w, marked, able)
<1> DEFINE E(f) == [s \in 1..N |->
        IF s \notin marked THEN "run"
        ELSE IF \A c \in w[s] : f[c] # "run" THEN "skip"
        ELSE IF s \in able THEN "replay"
        ELSE "run"]
<1>1. w \in [Stages -> SUBSET Stages] /\ decided \in [Stages -> Plan]
      /\ \A p \in Stages : \A c \in w[p] : c \in Stages /\ p < c
  BY DEF Wirings
<1>2. decided = E(decided)
  <2>1. \A s \in Stages : E(decided)[s] = decided[s]
    BY DEF Stages
  <2>2. QED
    BY <1>1, <2>1 DEF Stages
<1>3. ASSUME NEW f, f = E(f) PROVE f = decided
  <2>1. f = [s \in Stages |-> f[s]] /\ decided = [s \in Stages |-> decided[s]]
    BY <1>1, <1>3 DEF Stages
  <2>2. ASSUME NEW s \in Stages, \A c \in Stages : s < c => f[c] = decided[c]
        PROVE  f[s] = decided[s]
    <3>1. \A c \in w[s] : f[c] = decided[c]
      BY <1>1, <2>2
    <3>2. E(f)[s] = E(decided)[s]
      BY <3>1 DEF Stages
    <3>3. f[s] = E(f)[s] /\ decided[s] = E(decided)[s]
      BY <1>2, <1>3
    <3>4. QED
      BY <3>2, <3>3
  <2>3. QED
    BY <2>1, <2>2, AgreeDownwards
<1>4. DemandedPlan(N, w, marked, able) = CHOOSE f : f = E(f)
  BY DEF DemandedPlan
<1> HIDE DEF E
<1>5. QED
  BY <1>2, <1>3, <1>4

(* A plan in which each replay had its chance to run is what pass 2        *)
(* computes.                                                               *)
LEMMA ReplaysUnique ==
  ASSUME NEW w \in Wirings, NEW d, NEW decided \in [Stages -> Plan],
         \A s \in Stages :
           decided[s] = IF /\ d[s] = "replay"
                      /\ \E p \in Stages : s \in w[p] /\ decided[p] = "run"
                   THEN "run" ELSE d[s]
  PROVE  decided = ReplayedPlan(N, w, d)
<1> DEFINE E(f) == [s \in 1..N |->
        IF /\ d[s] = "replay"
           /\ \E p \in 1..(s - 1) : s \in w[p] /\ f[p] = "run"
        THEN "run" ELSE d[s]]
<1>1. w \in [Stages -> SUBSET Stages] /\ decided \in [Stages -> Plan]
      /\ \A p \in Stages : \A c \in w[p] : c \in Stages /\ p < c
  BY DEF Wirings
<1>2. decided = E(decided)
  <2>1. \A s \in Stages :
          (\E p \in Stages : s \in w[p] /\ decided[p] = "run")
            <=> \E p \in 1..(s - 1) : s \in w[p] /\ decided[p] = "run"
    BY <1>1, NAssumption DEF Stages
  <2>2. \A s \in Stages : E(decided)[s] = decided[s]
    BY <2>1 DEF Stages
  <2>3. QED
    BY <1>1, <2>2 DEF Stages
<1>3. ASSUME NEW f, f = E(f) PROVE f = decided
  <2>1. f = [s \in Stages |-> f[s]] /\ decided = [s \in Stages |-> decided[s]]
    BY <1>1, <1>3 DEF Stages
  <2>2. ASSUME NEW s \in Stages, \A p \in 1..(s - 1) : f[p] = decided[p]
        PROVE  f[s] = decided[s]
    <3>1. E(f)[s] = E(decided)[s]
      BY <2>2 DEF Stages
    <3>2. f[s] = E(f)[s] /\ decided[s] = E(decided)[s]
      BY <1>2, <1>3
    <3>3. QED
      BY <3>1, <3>2
  <2>3. QED
    BY <2>1, <2>2, AgreeUpwards
<1>4. ReplayedPlan(N, w, d) = CHOOSE f : f = E(f)
  BY DEF ReplayedPlan
<1> HIDE DEF E
<1>5. QED
  BY <1>2, <1>3, <1>4

(* A plan in which every stage had its chance to run is what pass 3        *)
(* computes.                                                               *)
LEMMA InputsUnique ==
  ASSUME NEW w \in Wirings, NEW r, NEW decided \in [Stages -> Plan],
         \A s \in Stages :
           decided[s] = IF \E p \in Stages : s \in w[p] /\ decided[p] = "run"
                   THEN "run" ELSE r[s]
  PROVE  decided = SettledPlan(N, w, r)
<1> DEFINE E(f) == [s \in 1..N |->
        IF \E p \in 1..(s - 1) : s \in w[p] /\ f[p] = "run"
        THEN "run" ELSE r[s]]
<1>1. w \in [Stages -> SUBSET Stages] /\ decided \in [Stages -> Plan]
      /\ \A p \in Stages : \A c \in w[p] : c \in Stages /\ p < c
  BY DEF Wirings
<1>2. decided = E(decided)
  <2>1. \A s \in Stages :
          (\E p \in Stages : s \in w[p] /\ decided[p] = "run")
            <=> \E p \in 1..(s - 1) : s \in w[p] /\ decided[p] = "run"
    BY <1>1, NAssumption DEF Stages
  <2>2. \A s \in Stages : E(decided)[s] = decided[s]
    BY <2>1 DEF Stages
  <2>3. QED
    BY <1>1, <2>2 DEF Stages
<1>3. ASSUME NEW f, f = E(f) PROVE f = decided
  <2>1. f = [s \in Stages |-> f[s]] /\ decided = [s \in Stages |-> decided[s]]
    BY <1>1, <1>3 DEF Stages
  <2>2. ASSUME NEW s \in Stages, \A p \in 1..(s - 1) : f[p] = decided[p]
        PROVE  f[s] = decided[s]
    <3>1. E(f)[s] = E(decided)[s]
      BY <2>2 DEF Stages
    <3>2. f[s] = E(f)[s] /\ decided[s] = E(decided)[s]
      BY <1>2, <1>3
    <3>3. QED
      BY <3>1, <3>2
  <2>3. QED
    BY <2>1, <2>2, AgreeUpwards
<1>4. SettledPlan(N, w, r) = CHOOSE f : f = E(f)
  BY DEF SettledPlan
<1> HIDE DEF E
<1>5. QED
  BY <1>2, <1>3, <1>4

-----------------------------------------------------------------------------
(* How far the loops are.  A running producer cannot stop running in the   *)
(* forward loops, and what they change at i only concerns stages above i.  *)
ReplaysSoFar(s, bound) ==
  plan[s] = IF s < bound /\ AfterDemand[s] = "replay" /\ ProducerRuns(s)
            THEN "run" ELSE AfterDemand[s]

InputsSoFar(s, bound) ==
  plan[s] = IF s < bound /\ ProducerRuns(s) THEN "run" ELSE AfterReplays[s]

ComputeInv ==
  /\ pass = "demand" => \A s \in Stages : s > i => plan[s] = Demanded(s)
  /\ pass = "replays" => \A s \in Stages : ReplaysSoFar(s, i)
  /\ pass = "inputs" => \A s \in Stages : InputsSoFar(s, i)
  /\ pass = "done" => plan = AfterInputs

(* One iteration of a forward loop leaves the running producers of the     *)
(* stages up to i as they are.                                             *)
LEMMA ProducersBelowStand ==
  ASSUME TypeOK, Replays \/ Inputs, NEW s \in Stages, s <= i
  PROVE  ProducerRuns(s)' = ProducerRuns(s)
<1>1. /\ consumers' = consumers /\ i \in Stages
      /\ plan' = plan \/ plan' = [plan EXCEPT ![i] = "run"]
  BY ForwardStep
<1>2. /\ plan \in [Stages -> Plan] /\ consumers \in [Stages -> SUBSET Stages]
      /\ \A p \in Stages : \A c \in consumers[p] : p < c
  BY DEF TypeOK, Wirings
<1>3. \A p \in Stages : s \in consumers[p] => p # i
  BY <1>1, <1>2, NAssumption DEF Stages
<1>4. \A p \in Stages : s \in consumers[p] => plan'[p] = plan[p]
  BY <1>1, <1>2, <1>3
<1>5. QED
  BY <1>1, <1>4 DEF ProducerRuns

(* The invariant of the loops carries to the next iteration. *)
LEMMA ComputeStep ==
  ASSUME IInv, TypeOK', ComputeInv, [Next]_vars
  PROVE  ComputeInv'
<1> USE NAssumption
<1>1. TypeOK
  BY DEF IInv
<1>2. /\ consumers \in [Stages -> SUBSET Stages] /\ plan \in [Stages -> Plan]
      /\ i \in Stages /\ consumers \in Wirings /\ plan' \in [Stages -> Plan]
      /\ \A p \in Stages : \A c \in consumers[p] : c \in Stages /\ p < c
  BY <1>1 DEF TypeOK, Wirings
<1>3. CASE Demand
  <2>1. /\ consumers' = consumers /\ cached' = cached /\ replayable' = replayable
        /\ plan' = [plan EXCEPT ![i] = Demanded(i)] /\ pass = "demand"
    BY <1>3 DEF Demand, inputs
  <2>2. ASSUME NEW s \in Stages, s >= i PROVE plan'[s] = Demanded(s)'
    <3>1. \A c \in consumers[s] : c \in Stages /\ c # i
      BY <1>2, <2>2 DEF Stages
    <3>2. Demanded(s)' = Demanded(s)
      BY <1>2, <2>1, <3>1 DEF Demanded, ConsumerNeedsItems
    <3>3. plan'[s] = Demanded(s)
      BY <1>2, <2>1, <2>2 DEF ComputeInv, Stages
    <3>4. QED
      BY <3>2, <3>3
  <2>3. CASE i = 1
    <3>1. pass' = "replays" /\ i' = 1
      BY <1>3, <2>3 DEF Demand
    <3>2. \A s \in Stages : plan'[s] = Demanded(s)'
      BY <2>2, <2>3 DEF Stages
    <3>3. plan' = DemandedPlan(N, consumers', cached', replayable')
      BY <1>2, <2>1, <3>2, DemandUnique DEF Demanded, ConsumerNeedsItems
    <3>4. \A s \in Stages : ~(s < i')
      BY <3>1 DEF Stages
    <3>5. QED
      BY <3>1, <3>3, <3>4 DEF ComputeInv, ReplaysSoFar, AfterDemand
  <2>4. CASE i # 1
    <3>1. pass' = "demand" /\ i' = i - 1
      BY <1>3, <2>1, <2>4 DEF Demand
    <3>2. QED
      BY <1>2, <2>2, <3>1 DEF ComputeInv, Stages
  <2>5. QED
    BY <2>3, <2>4
<1>4. CASE Replays
  <2>1. /\ consumers' = consumers /\ cached' = cached /\ replayable' = replayable
        /\ pass = "replays"
        /\ plan' = IF plan[i] = "replay" /\ ProducerRuns(i)
                     THEN [plan EXCEPT ![i] = "run"] ELSE plan
    BY <1>4 DEF Replays, RunIfProducerRuns, Advance, inputs
  <2>2. AfterDemand' = AfterDemand /\ \A s \in Stages : ReplaysSoFar(s, i)
    BY <2>1 DEF AfterDemand, ComputeInv
  <2>3. ASSUME NEW s \in Stages
        PROVE  plan'[s] = IF s < i + 1 /\ AfterDemand[s] = "replay" /\ ProducerRuns(s)'
                          THEN "run" ELSE AfterDemand[s]
    <3>1. CASE s <= i
      <4>1. ProducerRuns(s)' = ProducerRuns(s) /\ s < i + 1
        BY <1>1, <1>2, <1>4, <3>1, ProducersBelowStand DEF Stages
      <4>2. plan'[s] = IF AfterDemand[s] = "replay" /\ ProducerRuns(s)
                        THEN "run" ELSE AfterDemand[s]
        <5>1. CASE s < i
          BY <1>2, <2>1, <2>2, <5>1 DEF ReplaysSoFar, Stages
        <5>2. CASE s = i
          BY <1>2, <2>1, <2>2, <5>2 DEF ReplaysSoFar, Stages
        <5>3. QED
          BY <1>2, <3>1, <5>1, <5>2 DEF Stages
      <4>3. QED
        BY <4>1, <4>2
    <3>2. CASE s > i
      <4>1. ~(s < i) /\ ~(s < i + 1) /\ plan'[s] = plan[s]
        BY <1>2, <2>1, <3>2 DEF Stages
      <4>2. QED
        BY <2>2, <4>1 DEF ReplaysSoFar
    <3>3. QED
      BY <1>2, <3>1, <3>2 DEF Stages
  <2>4. CASE i = N
    <3>1. pass' = "inputs" /\ i' = 1
      BY <1>4, <2>4 DEF Replays, Advance
    <3>2. \A s \in Stages : s < i + 1
      BY <2>4 DEF Stages
    <3>3. \A s \in Stages : plan'[s] = IF AfterDemand[s] = "replay" /\ ProducerRuns(s)'
                                         THEN "run" ELSE AfterDemand[s]
      BY <2>3, <3>2
    <3>4. plan' = ReplayedPlan(N, consumers, AfterDemand)
      BY <1>2, <2>1, <3>3, ReplaysUnique DEF ProducerRuns
    <3>5. plan' = AfterReplays'
      BY <2>1, <2>2, <3>4 DEF AfterReplays
    <3>6. \A s \in Stages : ~(s < i')
      BY <3>1 DEF Stages
    <3>7. QED
      BY <3>1, <3>5, <3>6 DEF ComputeInv, InputsSoFar
  <2>5. CASE i # N
    <3>1. pass' = "replays" /\ i' = i + 1
      BY <1>4, <2>1, <2>5 DEF Replays, Advance
    <3>2. QED
      BY <2>2, <2>3, <3>1 DEF ComputeInv, ReplaysSoFar
  <2>6. QED
    BY <2>4, <2>5
<1>5. CASE Inputs
  <2>1. /\ consumers' = consumers /\ cached' = cached /\ replayable' = replayable
        /\ pass = "inputs"
        /\ plan' = IF plan[i] # "run" /\ ProducerRuns(i)
                     THEN [plan EXCEPT ![i] = "run"] ELSE plan
    BY <1>5 DEF Inputs, RunIfProducerRuns, Advance, inputs
  <2>2. AfterReplays' = AfterReplays /\ \A s \in Stages : InputsSoFar(s, i)
    BY <2>1 DEF AfterDemand, AfterReplays, ComputeInv
  <2>3. ASSUME NEW s \in Stages
        PROVE  plan'[s] = IF s < i + 1 /\ ProducerRuns(s)'
                          THEN "run" ELSE AfterReplays[s]
    <3>1. CASE s <= i
      <4>1. ProducerRuns(s)' = ProducerRuns(s) /\ s < i + 1
        BY <1>1, <1>2, <1>5, <3>1, ProducersBelowStand DEF Stages
      <4>2. plan'[s] = IF ProducerRuns(s) THEN "run" ELSE AfterReplays[s]
        <5>1. CASE s < i
          BY <1>2, <2>1, <2>2, <5>1 DEF InputsSoFar, Stages
        <5>2. CASE s = i
          BY <1>2, <2>1, <2>2, <5>2 DEF InputsSoFar, Stages
        <5>3. QED
          BY <1>2, <3>1, <5>1, <5>2 DEF Stages
      <4>3. QED
        BY <4>1, <4>2
    <3>2. CASE s > i
      <4>1. ~(s < i) /\ ~(s < i + 1) /\ plan'[s] = plan[s]
        BY <1>2, <2>1, <3>2 DEF Stages
      <4>2. QED
        BY <2>2, <4>1 DEF InputsSoFar
    <3>3. QED
      BY <1>2, <3>1, <3>2 DEF Stages
  <2>4. CASE i = N
    <3>1. pass' = "done"
      BY <1>5, <2>4 DEF Inputs, Advance
    <3>2. \A s \in Stages : s < i + 1
      BY <2>4 DEF Stages
    <3>3. \A s \in Stages : plan'[s] = IF ProducerRuns(s)' THEN "run" ELSE AfterReplays[s]
      BY <2>3, <3>2
    <3>4. plan' = SettledPlan(N, consumers, AfterReplays)
      BY <1>2, <2>1, <3>3, InputsUnique DEF ProducerRuns
    <3>5. QED
      BY <2>1, <2>2, <3>1, <3>4 DEF ComputeInv, AfterInputs
  <2>5. CASE i # N
    <3>1. pass' = "inputs" /\ i' = i + 1
      BY <1>5, <2>1, <2>5 DEF Inputs, Advance
    <3>2. QED
      BY <2>2, <2>3, <3>1 DEF ComputeInv, InputsSoFar
  <2>6. QED
    BY <2>4, <2>5
<1>6. CASE UNCHANGED vars
  BY <1>6 DEF ComputeInv, ReplaysSoFar, InputsSoFar, AfterInputs, AfterReplays,
              AfterDemand, ProducerRuns, Demanded, ConsumerNeedsItems, vars
<1>7. QED
  BY <1>3, <1>4, <1>5, <1>6 DEF Next

(* The three loops, updating one array in place, compute PlanFor: no       *)
(* iteration reads a decision that a later one still changes in a way that *)
(* matters.                                                                *)
THEOREM PlanLoopsComputeThePlan == Spec => []LoopsComputeThePlan
<1>1. Init => ComputeInv
  BY NAssumption DEF Init, ComputeInv, Stages
<1>2. IInv /\ IInv' /\ ComputeInv /\ [Next]_vars => ComputeInv'
  BY ComputeStep DEF IInv
<1>3. ComputeInv => LoopsComputeThePlan
  BY DEF ComputeInv, LoopsComputeThePlan, Done, AfterInputs, AfterReplays,
         AfterDemand, PlanFor
<1>4. QED
  BY <1>1, <1>2, <1>3, PlanInvariant, PTL DEF Spec
=============================================================================
