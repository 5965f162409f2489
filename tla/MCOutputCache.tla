---------------------------- MODULE MCOutputCache ----------------------------
(***************************************************************************)
(* Two instances of OutputCache for TLC, side by side: histories in which  *)
(* stages fail and miss inputs, processes are killed and parameters come   *)
(* back (the constants of the configuration), and orderly ones over more   *)
(* stages (Sound); the inductive invariants of both and their proofs.      *)
(***************************************************************************)
EXTENDS OutputCache, WellFoundedInduction, TLAPS

CONSTANTS
  OrderlyN,           \* the stages of the orderly histories,
  OrderlyConsumers,   \* their wiring,
  OrderlyReplayable,  \* those that can replay,
  OrderlyMaxParams,   \* and the bounds: parameters
  OrderlyMaxJobs      \* and jobs

VARIABLE history  \* which of the two a behaviour is about

ASSUME OrderlyAssumption ==
  /\ OrderlyN \in Nat \ {0}
  /\ OrderlyConsumers \in [1..OrderlyN -> SUBSET (1..OrderlyN)]
  /\ \A p \in 1..OrderlyN : \A c \in OrderlyConsumers[p] : p < c
  /\ OrderlyReplayable \subseteq 1..OrderlyN
  /\ OrderlyMaxParams \in Nat \ {0} /\ OrderlyMaxJobs \in Nat

(* A stage over one that can replay. *)
Two == <<{2}, {}>>

(* Two independent chains that meet, for the plan's forward passes.        *)
Four == <<{2, 4}, {4}, {4}, {}>>

CoarseAndFine == {Stages, Stages \ {N}}

(* One policy, parameters that only change to new ones, and no faults.     *)
Sound == INSTANCE OutputCache WITH
  N <- OrderlyN, Consumers <- OrderlyConsumers, Replayable <- OrderlyReplayable,
  Policies <- {1..OrderlyN}, MaxParams <- OrderlyMaxParams, ParamsReturn <- FALSE,
  MaxJobs <- OrderlyMaxJobs,
  MayForce <- TRUE, MayFail <- FALSE, MayCrash <- FALSE

MCInit ==
  \/ history = "faults" /\ Init
  \/ history = "sound" /\ Sound!Init

MCNext ==
  /\ UNCHANGED history
  /\ \/ history = "faults" /\ Next
     \/ history = "sound" /\ Sound!Next

MCSpec == MCInit /\ [][MCNext]_<<vars, history>>

-----------------------------------------------------------------------------
(* The inductive invariants.  The first part holds in every history: who   *)
(* has a task, what the collector has joined, and that --force plans every *)
(* stage as a run.                                                         *)
JobInv ==
  /\ \A s \in Stages : task[s] = "none" <=> s \notin Active
  /\ joined \subseteq Active
  /\ \A s \in joined : Ended(s)
  /\ report = "ok" => \A s \in joined : task[s] # "failed"
  /\ Succeeded => joined = Active
  /\ forced => \A s \in policy : plan[s] = "run"

(* What a stage that ran to its end has left, until the parameters change. *)
Produced(s) ==
  /\ rows[s].params = params[s]
  /\ rows[s].current
  /\ rows[s].starved <=> \E p \in Producers(s) : plan[p] = "skip"
  /\ \A p \in Producers(s) \cap Active : Ended(p)
  /\ \/ task[s] = "partial"
     \/ \E p \in Producers(s) \cap Active : task[p] = "failed"
     \/ rows[s].whole

(* The second part: while a job runs, and after it until the next change,  *)
(* its rows and markers are those of its tasks.                            *)
ResultsInv ==
  running \/ report = "ok" =>
    /\ \A s \in policy : plan[s] = "skip" => <<s, params[s]>> \in markers
    /\ \A s \in joined : task[s] = "ok" => <<s, params[s]>> \in markers
    /\ \A s \in Active :
         /\ task[s] = "partial" => plan[s] = "run"
         /\ task[s] = "working" /\ plan[s] = "run" => rows[s].params = params[s]
         /\ task[s] \in {"ok", "partial"} /\ plan[s] = "run" => Produced(s)

FaultsInv == TypeOK /\ JobInv /\ ResultsInv

(* Orderly histories.  A marker of the configured parameters speaks the    *)
(* truth between jobs; during a job, of the stages that do not run, and a  *)
(* stage that ran to its end has rows as good.                             *)
Good(s) ==
  /\ rows[s].params = params[s] /\ rows[s].whole /\ rows[s].current
  /\ rows[s].starved => \E p, q \in 1..OrderlyN :
                           p # q /\ s \in OrderlyConsumers[p] \cap OrderlyConsumers[q]

OrderlyTasks ==
  /\ policy \in {{}, 1..OrderlyN}
  /\ joined \subseteq Sound!Active
  /\ report # "failed"
  /\ running => policy = 1..OrderlyN
  /\ \A s \in 1..OrderlyN :
       /\ task[s] \notin {"partial", "failed"}
       /\ task[s] = "none" <=> s \notin Sound!Active
       /\ s \in joined => task[s] = "ok"
       /\ \A k \in 1..OrderlyMaxParams : <<s, k>> \in markers => k <= params[s]

OrderlyRows ==
  /\ ~running =>
       \A s \in 1..OrderlyN :
         <<s, params[s]>> \in markers \/ (report = "ok" /\ s \in policy) => Good(s)
  /\ running =>
       \A s \in 1..OrderlyN :
         /\ plan[s] # "run" => <<s, params[s]>> \in markers /\ Good(s)
         /\ plan[s] = "run" /\ task[s] = "working" => rows[s].params = params[s]
         /\ plan[s] = "run" /\ task[s] = "ok" =>
              /\ Good(s)
              /\ \A p \in 1..OrderlyN :
                   s \in OrderlyConsumers[p] => task[p] \in {"none", "ok"}
         /\ \A c \in OrderlyConsumers[s] :
              /\ plan[s] = "run" => plan[c] = "run"
              /\ plan[s] = "skip" /\ plan[c] = "run" =>
                   \E q \in 1..OrderlyN : c \in OrderlyConsumers[q] /\ plan[q] = "run"

OrderlyInv == Sound!TypeOK /\ OrderlyTasks /\ OrderlyRows

-----------------------------------------------------------------------------
(* In an orderly history success means rows that are whole, as configured  *)
(* and of the producers' present rows (run_prepared's plan).               *)
OrderlySuccessMeansFresh == history = "sound" => Sound!SuccessMeansFresh

(* In any history a forced success heals, and a whole success of a policy  *)
(* is remembered by its markers.                                           *)
FaultsHeal == history = "faults" => TypeOK /\ ForceHeals /\ SuccessIsRemembered

-----------------------------------------------------------------------------
(* The plan of a job.  A function that is defined stage by stage exists:   *)
(* rule[s][f] is what stage s gets when f has the other stages, and only   *)
(* depends on the stages that come before s in some order.                 *)

(* A set of numbers has a least one. *)
LEMMA LeastNumber ==
  ASSUME NEW T \in SUBSET Nat, T # {}
  PROVE  \E n \in T : \A m \in T : n <= m
<1>1. PICK R : IsWellFoundedOn(R, Nat) /\ \A x, y \in Nat : <<x, y>> \in R <=> x < y
  <2>1. \A x, y \in Nat : <<x, y>> \in OpToRel(<, Nat) <=> x < y
    BY DEF OpToRel
  <2>2. QED
    BY <2>1, NatLessThanWellFounded
<1>2. IsWellFoundedOn(R, Nat)
  BY <1>1
<1>3. PICK n \in T : \A m \in T : ~(<<m, n>> \in R)
  BY <1>2, WFMin
<1>4. \A m \in T : m \in Nat /\ n \in Nat /\ ~(m < n)
  BY <1>1, <1>3
<1>5. QED
  BY <1>4

Ordered(n, Values, rule, level) ==
  \A s \in 1..n, f, g \in [1..n -> Values] :
    (\A r \in 1..n : level[r] < level[s] => f[r] = g[r]) => rule[s][f] = rule[s][g]

Definable(n, Values, rule) ==
  \E f \in [1..n -> Values] : \A s \in 1..n : f[s] = rule[s][f]

LEMMA DefinedByStages ==
  ASSUME NEW n \in Nat, NEW Values, NEW v \in Values,
         NEW rule \in [1..n -> [[1..n -> Values] -> Values]],
         NEW level \in [1..n -> 1..n], Ordered(n, Values, rule, level)
  PROVE  Definable(n, Values, rule)
<1> DEFINE Settled(k) == \E f \in [1..n -> Values] :
                            \A s \in 1..n : level[s] <= k => f[s] = rule[s][f]
           T == {k \in 0..n : ~Settled(k)}
<1>0. \A s \in 1..n : level[s] \in Nat /\ level[s] >= 1 /\ level[s] <= n
  OBVIOUS
<1>1. T = {}
  <2> SUFFICES ASSUME T # {} PROVE FALSE
    OBVIOUS
  <2>1. PICK k \in T : \A m \in T : k <= m
    <3>1. T \in SUBSET Nat
      OBVIOUS
    <3> QED BY <3>1, LeastNumber
  <2>2. k # 0
    <3>1. [s \in 1..n |-> v] \in [1..n -> Values] /\ \A s \in 1..n : ~(level[s] <= 0)
      BY <1>0
    <3>2. Settled(0)
      BY <3>1
    <3>3. ~Settled(k)
      BY <2>1
    <3> HIDE DEF Settled
    <3> QED BY <3>2, <3>3
  <2>3. k \in 1..n /\ k - 1 \in 0..n /\ ~(k <= k - 1)
    BY <2>1, <2>2
  <2>4. Settled(k - 1)
    BY <2>1, <2>3
  <2>5. PICK f \in [1..n -> Values] : \A s \in 1..n : level[s] <= k - 1 => f[s] = rule[s][f]
    BY <2>4
  <2> DEFINE g == [s \in 1..n |-> IF level[s] = k THEN rule[s][f] ELSE f[s]]
  <2>6. g \in [1..n -> Values] /\ \A s \in 1..n : g[s] = IF level[s] = k THEN rule[s][f] ELSE f[s]
    OBVIOUS
  <2> HIDE DEF g
  <2>7. ASSUME NEW s \in 1..n, level[s] <= k PROVE g[s] = rule[s][g]
    <3>0. level[s] \in Nat /\ k \in Nat
      BY <1>0, <2>3
    <3>1. \A r \in 1..n : level[r] < level[s] => g[r] = f[r]
      <4> SUFFICES ASSUME NEW r \in 1..n, level[r] < level[s] PROVE g[r] = f[r]
        OBVIOUS
      <4>1. level[r] \in Nat /\ level[r] # k
        BY <1>0, <2>7, <3>0
      <4> QED BY <2>6, <4>1
    <3>2. rule[s][g] = rule[s][f]
      BY <2>6, <3>1 DEF Ordered
    <3>3. CASE level[s] = k
      BY <2>6, <3>2, <3>3
    <3>4. CASE level[s] # k
      <4>1. level[s] <= k - 1
        BY <2>7, <3>0, <3>4
      <4>2. g[s] = f[s] /\ f[s] = rule[s][f]
        BY <2>5, <2>6, <3>4, <4>1
      <4> QED BY <3>2, <4>2
    <3> QED BY <3>3, <3>4
  <2>8. Settled(k)
    BY <2>6, <2>7
  <2> HIDE DEF Settled
  <2> QED BY <2>1, <2>8
<1>2. Settled(n)
  <2>1. n \in 0..n
    OBVIOUS
  <2> HIDE DEF Settled
  <2>2. \A k \in 0..n : Settled(k)
    BY <1>1
  <2> QED BY <2>1, <2>2
<1>3. PICK f \in [1..n -> Values] : \A s \in 1..n : level[s] <= n => f[s] = rule[s][f]
  BY <1>2
<1> QED BY <1>0, <1>3 DEF Definable

(* A wiring in topological order. *)
Wired(n, w) ==
  /\ w \in [1..n -> SUBSET (1..n)]
  /\ \A p \in 1..n : \A c \in w[p] : p < c

(* What the demands on a stage decide. *)
OnDemand(s, f, w, marked, able) ==
  IF s \notin marked THEN "run"
  ELSE IF \A c \in w[s] : f[c] # "run" THEN "skip"
  ELSE IF s \in able THEN "replay"
  ELSE "run"

LEMMA DemandedIs ==
  ASSUME NEW n \in Nat, NEW w, Wired(n, w), NEW marked, NEW able,
         NEW d, d = DemandedPlan(n, w, marked, able)
  PROVE  d \in [1..n -> Plan] /\ \A s \in 1..n : d[s] = OnDemand(s, d, w, marked, able)
<1> DEFINE rule == [s \in 1..n |-> [f \in [1..n -> Plan] |-> OnDemand(s, f, w, marked, able)]]
           level == [s \in 1..n |-> n + 1 - s]
           E(f) == [s \in 1..n |-> IF s \notin marked THEN "run"
                                   ELSE IF \A c \in w[s] : f[c] # "run" THEN "skip"
                                   ELSE IF s \in able THEN "replay"
                                   ELSE "run"]
<1>1. rule \in [1..n -> [[1..n -> Plan] -> Plan]] /\ level \in [1..n -> 1..n] /\ "run" \in Plan
  BY DEF OnDemand, Plan
<1>2. Ordered(n, Plan, rule, level)
  <2> SUFFICES ASSUME NEW s \in 1..n, NEW f \in [1..n -> Plan], NEW g \in [1..n -> Plan],
                      \A r \in 1..n : level[r] < level[s] => f[r] = g[r]
               PROVE  OnDemand(s, f, w, marked, able) = OnDemand(s, g, w, marked, able)
    BY DEF Ordered
  <2>1. \A c \in w[s] : c \in 1..n /\ level[c] < level[s]
    BY DEF Wired
  <2>2. \A c \in w[s] : f[c] = g[c]
    BY <2>1
  <2> QED BY <2>2 DEF OnDemand
<1>3. \A s \in 1..n, f \in [1..n -> Plan] : rule[s][f] = OnDemand(s, f, w, marked, able)
  OBVIOUS
<1> HIDE DEF rule, level
<1>35. Definable(n, Plan, rule)
  BY <1>1, <1>2, DefinedByStages, Zenon
<1>4. PICK f \in [1..n -> Plan] : \A s \in 1..n : f[s] = rule[s][f]
  BY <1>35 DEF Definable
<1>5. f = E(f)
  <2>1. \A s \in 1..n : f[s] = E(f)[s]
    BY <1>3, <1>4 DEF OnDemand
  <2> QED BY <2>1
<1>6. d = CHOOSE g : g = E(g)
  BY DEF DemandedPlan
<1> HIDE DEF E
<1>7. d = E(d)
  BY <1>5, <1>6
<1>8. \A s \in 1..n : d[s] = OnDemand(s, d, w, marked, able)
  BY <1>7 DEF E, OnDemand
<1>9. d \in [1..n -> Plan]
  BY <1>7 DEF E, Plan
<1> QED BY <1>8, <1>9

(* What a running producer decides, for the stages it is asked of. *)
Forward(s, f, w, base, asked) ==
  IF asked /\ \E p \in 1..(s - 1) : s \in w[p] /\ f[p] = "run" THEN "run" ELSE base

Forwarded(n, w, base, asked, d) ==
  d \in [1..n -> Plan] /\ \A s \in 1..n : d[s] = Forward(s, d, w, base[s], asked[s])

LEMMA ForwardExists ==
  ASSUME NEW n \in Nat, NEW w, NEW base \in [1..n -> Plan], NEW asked \in [1..n -> BOOLEAN]
  PROVE  \E f : Forwarded(n, w, base, asked, f)
<1> DEFINE rule == [s \in 1..n |-> [f \in [1..n -> Plan] |-> Forward(s, f, w, base[s], asked[s])]]
           level == [s \in 1..n |-> s]
<1>1. rule \in [1..n -> [[1..n -> Plan] -> Plan]] /\ level \in [1..n -> 1..n] /\ "run" \in Plan
  BY DEF Forward, Plan
<1>2. Ordered(n, Plan, rule, level)
  <2> SUFFICES ASSUME NEW s \in 1..n, NEW f \in [1..n -> Plan], NEW g \in [1..n -> Plan],
                      \A r \in 1..n : level[r] < level[s] => f[r] = g[r]
               PROVE  Forward(s, f, w, base[s], asked[s]) = Forward(s, g, w, base[s], asked[s])
    BY DEF Ordered
  <2>1. \A p \in 1..(s - 1) : f[p] = g[p]
    OBVIOUS
  <2> QED BY <2>1 DEF Forward
<1>3. \A s \in 1..n, f \in [1..n -> Plan] : rule[s][f] = Forward(s, f, w, base[s], asked[s])
  OBVIOUS
<1> HIDE DEF rule, level
<1>35. Definable(n, Plan, rule)
  BY <1>1, <1>2, DefinedByStages, Zenon
<1>4. PICK f \in [1..n -> Plan] : \A s \in 1..n : f[s] = rule[s][f]
  BY <1>35 DEF Definable
<1> QED BY <1>3, <1>4 DEF Forwarded

LEMMA ReplayedIs ==
  ASSUME NEW n \in Nat, NEW w, NEW base \in [1..n -> Plan],
         NEW d, d = ReplayedPlan(n, w, base)
  PROVE  Forwarded(n, w, base, [s \in 1..n |-> base[s] = "replay"], d)
<1> DEFINE E(f) == [s \in 1..n |->
                      IF base[s] = "replay" /\ \E p \in 1..(s - 1) : s \in w[p] /\ f[p] = "run"
                      THEN "run" ELSE base[s]]
           asked == [s \in 1..n |-> base[s] = "replay"]
<1>1. asked \in [1..n -> BOOLEAN]
  OBVIOUS
<1> HIDE DEF asked
<1>2. PICK f : Forwarded(n, w, base, asked, f)
  BY <1>1, ForwardExists, Zenon
<1>3. f = E(f)
  <2>1. \A s \in 1..n : f[s] = E(f)[s]
    BY <1>2 DEF Forwarded, Forward, asked
  <2> QED BY <1>2, <2>1 DEF Forwarded
<1>4. d = CHOOSE g : g = E(g)
  BY DEF ReplayedPlan
<1> HIDE DEF E
<1>5. d = E(d)
  BY <1>3, <1>4
<1> QED BY <1>5 DEF E, Forwarded, Forward, Plan

LEMMA SettledIs ==
  ASSUME NEW n \in Nat, NEW w, NEW base \in [1..n -> Plan],
         NEW d, d = SettledPlan(n, w, base)
  PROVE  Forwarded(n, w, base, [s \in 1..n |-> TRUE], d)
<1> DEFINE E(f) == [s \in 1..n |->
                      IF \E p \in 1..(s - 1) : s \in w[p] /\ f[p] = "run"
                      THEN "run" ELSE base[s]]
           asked == [s \in 1..n |-> TRUE]
<1>1. asked \in [1..n -> BOOLEAN]
  OBVIOUS
<1> HIDE DEF asked
<1>2. PICK f : Forwarded(n, w, base, asked, f)
  BY <1>1, ForwardExists, Zenon
<1>3. f = E(f)
  <2>1. \A s \in 1..n : f[s] = E(f)[s]
    BY <1>2 DEF Forwarded, Forward, asked
  <2> QED BY <1>2, <2>1 DEF Forwarded
<1>4. d = CHOOSE g : g = E(g)
  BY DEF SettledPlan
<1> HIDE DEF E
<1>5. d = E(d)
  BY <1>3, <1>4
<1> QED BY <1>5 DEF E, Forwarded, Forward, Plan

(* What a job may rely on in its plan: a stage without a marker runs; a    *)
(* running producer makes its consumers run; and a stage that runs while a *)
(* producer is skipped has a marker, and another producer runs.            *)
PlanFacts(n, w, marked, pl) ==
  /\ pl \in [1..n -> Plan]
  /\ \A s \in 1..n : s \notin marked => pl[s] = "run"
  /\ \A p \in 1..n : \A c \in w[p] : pl[p] = "run" => pl[c] = "run"
  /\ \A p \in 1..n : \A c \in w[p] :
       pl[p] = "skip" /\ pl[c] = "run" =>
         c \in marked /\ \E q \in 1..n : c \in w[q] /\ pl[q] = "run"

LEMMA PlansAre ==
  ASSUME NEW n \in Nat, NEW w, Wired(n, w), NEW marked, NEW able,
         NEW pl, pl = PlanFor(n, w, marked, able)
  PROVE  PlanFacts(n, w, marked, pl)
<1>1. PICK d : d = DemandedPlan(n, w, marked, able)
  OBVIOUS
<1>2. PICK r : r = ReplayedPlan(n, w, d)
  OBVIOUS
<1>3. pl = SettledPlan(n, w, r)
  BY <1>1, <1>2 DEF PlanFor
<1>4. d \in [1..n -> Plan] /\ \A s \in 1..n : d[s] = OnDemand(s, d, w, marked, able)
  BY <1>1, DemandedIs
<1>45. d \in [1..n -> Plan]
  BY <1>4
<1>50. Forwarded(n, w, d, [s \in 1..n |-> d[s] = "replay"], r)
  BY <1>2, <1>45, ReplayedIs
<1>5. r \in [1..n -> Plan] /\ \A s \in 1..n : r[s] = Forward(s, r, w, d[s], d[s] = "replay")
  BY <1>50 DEF Forwarded
<1>55. r \in [1..n -> Plan]
  BY <1>5
<1>60. Forwarded(n, w, r, [s \in 1..n |-> TRUE], pl)
  BY <1>3, <1>55, SettledIs
<1>6. pl \in [1..n -> Plan] /\ \A s \in 1..n : pl[s] = Forward(s, pl, w, r[s], TRUE)
  BY <1>60 DEF Forwarded
<1>7. \A p \in 1..n : \A c \in w[p] : c \in 1..n /\ p \in 1..(c - 1)
  BY DEF Wired
<1>8. \A s \in 1..n : /\ d[s] = "run" => r[s] = "run"
                      /\ r[s] = "run" => pl[s] = "run"
                      /\ d[s] # "skip" => pl[s] # "skip"
  BY <1>5, <1>6 DEF Forward
<1>9. \A s \in 1..n : s \notin marked => pl[s] = "run"
  BY <1>4, <1>8 DEF OnDemand
<1>10. \A p \in 1..n : \A c \in w[p] : pl[p] = "run" => pl[c] = "run"
  BY <1>6, <1>7 DEF Forward
<1>11. ASSUME NEW p \in 1..n, NEW c \in w[p], pl[p] = "skip", pl[c] = "run"
       PROVE  c \in marked /\ \E q \in 1..n : c \in w[q] /\ pl[q] = "run"
  <2>1. c \in 1..n
    BY <1>7
  <2>2. d[c] # "run"
    <3>1. d[p] = "skip"
      BY <1>8, <1>11
    <3>2. \A x \in w[p] : d[x] # "run"
      BY <1>4, <3>1 DEF OnDemand
    <3> QED BY <3>2
  <2>3. c \in marked
    BY <1>4, <2>1, <2>2 DEF OnDemand
  <2>4. (\E q \in 1..(c - 1) : c \in w[q] /\ r[q] = "run")
        \/ (\E q \in 1..(c - 1) : c \in w[q] /\ pl[q] = "run")
    BY <1>5, <1>6, <1>11, <2>1, <2>2 DEF Forward
  <2>5. \A q \in 1..(c - 1) : q \in 1..n
    BY <2>1
  <2>6. \E q \in 1..n : c \in w[q] /\ pl[q] = "run"
    BY <1>8, <2>4, <2>5
  <2> QED BY <2>3, <2>6
<1> QED BY <1>6, <1>9, <1>10, <1>11 DEF PlanFacts

-----------------------------------------------------------------------------
(* FaultsInv is inductive, one lemma per action. *)
LEMMA Constants ==
  /\ N \in Nat /\ Stages = 1..N /\ Consumers \in [Stages -> SUBSET Stages]
  /\ \A q \in Policies : q \in SUBSET Stages
  /\ \A q \in SUBSET Stages : Wired(N, Wiring(q))
<1>1. /\ N \in Nat /\ Stages = 1..N /\ Consumers \in [Stages -> SUBSET Stages]
      /\ \A p \in Stages : \A c \in Consumers[p] : p < c
      /\ \A q \in Policies : q \in SUBSET Stages
  BY NAssumption, WiringAssumption, PoliciesAssumption DEF Stages
<1>2. \A q \in SUBSET Stages : Wired(N, Wiring(q))
  BY <1>1 DEF Wired, Wiring
<1> QED BY <1>1, <1>2

LEMMA ConfigureKeeps ==
  ASSUME FaultsInv, NEW s \in Stages, NEW k \in Params, Configure(s, k)
  PROVE  FaultsInv'
<1>1. TypeOK'
  BY DEF FaultsInv, TypeOK, Configure
<1>2. JobInv'
  BY DEF FaultsInv, JobInv, Configure, Active, Ended, Succeeded
<1>3. ResultsInv'
  BY DEF ResultsInv, Configure
<1> QED BY <1>1, <1>2, <1>3 DEF FaultsInv

LEMMA StartJobKeeps ==
  ASSUME FaultsInv, NEW q \in Policies, NEW force \in BOOLEAN, StartJob(q, force)
  PROVE  FaultsInv'
<1>0. q \in SUBSET Stages /\ N \in Nat /\ Stages = 1..N /\ Wired(N, Wiring(q))
  BY Constants
<1> DEFINE marked == Cached(q, force) \cup (Stages \ q)
<1>1. /\ jobs' = jobs + 1 /\ jobs < MaxJobs /\ running' = TRUE /\ policy' = q
      /\ forced' = force /\ joined' = {} /\ report' = "ok"
      /\ params' = params /\ markers' = markers /\ rows' = rows
      /\ plan' = PlanFor(N, Wiring(q), marked, Replayable)
      /\ task' = [s \in Stages |-> IF s \in q /\ plan'[s] # "skip" THEN "waiting" ELSE "none"]
  BY DEF StartJob
<1>2. PlanFacts(N, Wiring(q), marked, plan')
  <2> HIDE DEF marked
  <2>1. PICK pl : pl = PlanFor(N, Wiring(q), marked, Replayable)
    OBVIOUS
  <2>2. PlanFacts(N, Wiring(q), marked, pl)
    BY <1>0, <2>1, PlansAre
  <2> QED BY <1>1, <2>1, <2>2
<1>3. plan' \in [Stages -> Plan] /\ \A s \in q : plan'[s] # "run" => s \in Cached(q, force)
  BY <1>0, <1>2 DEF PlanFacts
<1>4. /\ force => Cached(q, force) = {}
      /\ \A s \in Cached(q, force) : <<s, params[s]>> \in markers
  BY DEF Cached
<1>5. TypeOK'
  <2>1. jobs' \in 0..MaxJobs
    BY <1>1, BoundsAssumption DEF FaultsInv, TypeOK
  <2>2. task' \in [Stages -> Tasks]
    BY <1>1 DEF Tasks
  <2> QED BY <1>0, <1>1, <1>3, <2>1, <2>2 DEF FaultsInv, TypeOK
<1>6. JobInv'
  BY <1>0, <1>1, <1>3, <1>4 DEF JobInv, Active, Succeeded
<1>7. ResultsInv'
  BY <1>0, <1>1, <1>3, <1>4 DEF ResultsInv, Active
<1> QED BY <1>5, <1>6, <1>7 DEF FaultsInv

(* A stage that has produced its rows keeps them as long as its producers  *)
(* and it stay as they are.                                                *)
LEMMA ProducedStays ==
  ASSUME NEW r \in Active, Produced(r), rows'[r] = rows[r], task'[r] = task[r],
         UNCHANGED <<params, policy, plan>>,
         \A p \in Producers(r) \cap Active : task'[p] = task[p]
  PROVE  Produced(r)'
<1>1. Producers(r)' = Producers(r) /\ Active' = Active
  BY DEF Producers, Active
<1> QED BY <1>1 DEF Produced, Ended

LEMMA BeginStageKeeps ==
  ASSUME FaultsInv, NEW s \in Stages, BeginStage(s) PROVE FaultsInv'
<1>1. /\ running /\ task[s] = "waiting" /\ task' = [task EXCEPT ![s] = "working"]
      /\ UNCHANGED <<params, markers, jobs, running, policy, forced, plan, joined, report>>
      /\ \/ rows' = rows /\ plan[s] # "run"
         \/ /\ plan[s] = "run"
            /\ rows' = [r \in Stages |->
                          IF r = s THEN RowsUnder(params[s])
                          ELSE IF r \in Consumers[s] THEN [rows[r] EXCEPT !.current = FALSE]
                          ELSE rows[r]]
  BY DEF BeginStage
<1>2. /\ TypeOK /\ params \in [Stages -> Params] /\ rows \in [Stages -> Rows]
      /\ task \in [Stages -> Tasks] /\ policy \in SUBSET Stages
  BY DEF FaultsInv, TypeOK
<1>3. RowsUnder(params[s])
        = [params |-> params[s], whole |-> FALSE, current |-> FALSE, starved |-> FALSE]
  BY DEF RowsUnder
<1>4. rows' \in [Stages -> Rows]
  <2>1. params[s] \in Params
    BY <1>2
  <2>2. \A r \in Stages : [rows[r] EXCEPT !.current = FALSE] \in Rows
    BY <1>2 DEF Rows
  <2>3. [params |-> params[s], whole |-> FALSE, current |-> FALSE, starved |-> FALSE] \in Rows
    BY <2>1 DEF Rows
  <2> QED BY <1>1, <1>2, <1>3, <2>2, <2>3
<1>5. TypeOK'
  BY <1>1, <1>2, <1>4 DEF TypeOK, Tasks
<1>6. s \in Active /\ Active' = Active /\ Active \subseteq Stages
  BY <1>1, <1>2 DEF FaultsInv, JobInv, Active
<1>7. JobInv'
  BY <1>1, <1>2, <1>6 DEF FaultsInv, JobInv, Ended, Succeeded
<1>8. ASSUME NEW r \in Active, task'[r] \in {"ok", "partial"}, plan[r] = "run"
      PROVE  Produced(r)'
  <2>1. r # s /\ task'[r] = task[r] /\ r \in Stages
    BY <1>1, <1>2, <1>6, <1>8
  <2>2. Produced(r)
    BY <1>1, <1>8, <2>1 DEF FaultsInv, ResultsInv
  <2>3. r \notin Consumers[s]
    BY <1>1, <1>6, <1>8, <2>2 DEF Produced, Producers, Ended, Active
  <2>4. rows'[r] = rows[r]
    BY <1>1, <2>1, <2>3
  <2>5. \A p \in Producers(r) \cap Active : p # s
    BY <2>3 DEF Producers
  <2>6. \A p \in Producers(r) \cap Active : task'[p] = task[p]
    BY <1>1, <1>2, <1>6, <2>5
  <2> QED BY <1>1, <2>1, <2>2, <2>4, <2>6, ProducedStays
<1>9. \A r \in Active : task'[r] = "working" /\ plan[r] = "run" => rows'[r].params = params[r]
  <2> SUFFICES ASSUME NEW r \in Active, task'[r] = "working", plan[r] = "run"
               PROVE  rows'[r].params = params[r]
    OBVIOUS
  <2>1. CASE r = s
    BY <1>1, <1>3, <1>6, <2>1
  <2>2. CASE r # s
    <3>1. task[r] = "working" /\ rows[r].params = params[r] /\ r \in Stages
      BY <1>1, <1>2, <1>6, <2>2 DEF FaultsInv, ResultsInv
    <3>2. [rows[r] EXCEPT !.current = FALSE].params = rows[r].params
      BY <1>2, <3>1 DEF Rows
    <3> QED BY <1>1, <2>2, <3>1, <3>2
  <2> QED BY <2>1, <2>2
<1>10. ResultsInv'
  BY <1>1, <1>2, <1>6, <1>8, <1>9 DEF FaultsInv, ResultsInv
<1> QED BY <1>5, <1>7, <1>10 DEF FaultsInv

LEMMA EndStageKeeps ==
  ASSUME FaultsInv, NEW s \in Stages, EndStage(s) PROVE FaultsInv'
<1>1. PICK end \in {"ok", "partial"} :
        /\ end = "partial" => plan[s] = "run"
        /\ task' = [task EXCEPT ![s] = end]
        /\ rows' = IF plan[s] # "run" THEN rows
                   ELSE [rows EXCEPT ![s] =
                           [params  |-> rows[s].params,
                            whole   |-> /\ end = "ok"
                                        /\ \A p \in Producers(s) \cap Active : task[p] # "failed",
                            current |-> TRUE,
                            starved |-> \E p \in Producers(s) : plan[p] = "skip"]]
  BY DEF EndStage
<1>2. /\ running /\ task[s] = "working" /\ \A p \in Producers(s) \cap Active : Ended(p)
      /\ UNCHANGED <<params, markers, jobs, running, policy, forced, plan, joined, report>>
  BY DEF EndStage
<1>3. /\ TypeOK /\ params \in [Stages -> Params] /\ rows \in [Stages -> Rows]
      /\ task \in [Stages -> Tasks] /\ policy \in SUBSET Stages
  BY DEF FaultsInv, TypeOK
<1> DEFINE whole == end = "ok" /\ \A p \in Producers(s) \cap Active : task[p] # "failed"
           starved == \E p \in Producers(s) : plan[p] = "skip"
           ended == [params |-> rows[s].params, whole |-> whole, current |-> TRUE,
                     starved |-> starved]
<1>4. rows' = IF plan[s] # "run" THEN rows ELSE [rows EXCEPT ![s] = ended]
  BY <1>1
<1>5. ended \in Rows /\ ended.params = rows[s].params /\ ended.current
      /\ (ended.whole <=> whole) /\ (ended.starved <=> starved)
  BY <1>3 DEF Rows
<1> HIDE DEF ended
<1>6. TypeOK'
  BY <1>1, <1>2, <1>3, <1>4, <1>5 DEF TypeOK, Tasks
<1>7. s \in Active /\ Active' = Active /\ Active \subseteq Stages
  BY <1>2, <1>3 DEF FaultsInv, JobInv, Active
<1>8. s \notin joined
  BY <1>2 DEF FaultsInv, JobInv, Ended
<1>9. JobInv'
  BY <1>1, <1>2, <1>3, <1>7, <1>8 DEF FaultsInv, JobInv, Ended, Succeeded
<1>10. Producers(s) \subseteq policy /\ s \notin Producers(s)
  BY <1>3, WiringAssumption DEF Producers, Stages
<1>11. ASSUME NEW r \in Active, task'[r] \in {"ok", "partial"}, plan[r] = "run"
       PROVE  Produced(r)'
  <2>1. CASE r = s
    <3>1. rows'[s] = ended /\ task'[s] = end
      BY <1>1, <1>3, <1>4, <1>11, <2>1
    <3>2. \A p \in Producers(s) \cap Active : p # s /\ task'[p] = task[p]
      BY <1>1, <1>3, <1>7, <1>10
    <3>3. rows[s].params = params[s]
      BY <1>2, <1>11, <2>1 DEF FaultsInv, ResultsInv
    <3>4. Producers(s)' = Producers(s)
      BY <1>2 DEF Producers
    <3> QED BY <1>1, <1>2, <1>5, <1>7, <2>1, <3>1, <3>2, <3>3, <3>4 DEF Produced, Ended
  <2>2. CASE r # s
    <3>1. task'[r] = task[r] /\ rows'[r] = rows[r] /\ Produced(r)
      BY <1>1, <1>2, <1>3, <1>4, <1>7, <1>11, <2>2 DEF FaultsInv, ResultsInv
    <3>2. \A p \in Producers(r) \cap Active : p # s
      BY <1>2, <3>1 DEF Produced, Ended
    <3>3. \A p \in Producers(r) \cap Active : task'[p] = task[p]
      BY <1>1, <1>3, <1>7, <3>2
    <3> QED BY <1>2, <3>1, <3>3, ProducedStays
  <2> QED BY <2>1, <2>2
<1>12. \A r \in Active : task'[r] = "working" /\ plan[r] = "run" => rows'[r].params = params[r]
  <2> SUFFICES ASSUME NEW r \in Active, task'[r] = "working", plan[r] = "run"
               PROVE  rows'[r].params = params[r]
    OBVIOUS
  <2>1. r # s /\ task[r] = "working" /\ rows'[r] = rows[r]
    BY <1>1, <1>3, <1>4, <1>7
  <2> QED BY <1>2, <2>1 DEF FaultsInv, ResultsInv
<1>13. \A r \in Active : task'[r] = "partial" => plan[r] = "run"
  BY <1>1, <1>2, <1>3, <1>7 DEF FaultsInv, ResultsInv
<1>14. \A r \in joined : task'[r] = task[r]
  BY <1>1, <1>3, <1>7, <1>8 DEF FaultsInv, JobInv
<1>15. ResultsInv'
  BY <1>2, <1>7, <1>11, <1>12, <1>13, <1>14 DEF FaultsInv, ResultsInv
<1> QED BY <1>6, <1>9, <1>15 DEF FaultsInv

LEMMA FailStageKeeps ==
  ASSUME FaultsInv, NEW s \in Stages, FailStage(s) PROVE FaultsInv'
<1>1. /\ running /\ task[s] \in {"waiting", "working"} /\ task' = [task EXCEPT ![s] = "failed"]
      /\ UNCHANGED <<params, markers, rows, jobs, running, policy, forced, plan, joined, report>>
  BY DEF FailStage
<1>2. /\ TypeOK /\ task \in [Stages -> Tasks] /\ policy \in SUBSET Stages
  BY DEF FaultsInv, TypeOK
<1>3. TypeOK'
  BY <1>1, <1>2 DEF TypeOK, Tasks
<1>4. s \in Active /\ Active' = Active /\ Active \subseteq Stages /\ s \notin joined
  BY <1>1, <1>2 DEF FaultsInv, JobInv, Active, Ended
<1>5. JobInv'
  BY <1>1, <1>2, <1>4 DEF FaultsInv, JobInv, Ended, Succeeded
<1>6. ASSUME NEW r \in Active, task'[r] \in {"ok", "partial"}, plan[r] = "run"
      PROVE  Produced(r)'
  <2>1. r # s /\ task'[r] = task[r] /\ r \in Stages
    BY <1>1, <1>2, <1>4, <1>6
  <2>2. Produced(r)
    BY <1>1, <1>6, <2>1 DEF FaultsInv, ResultsInv
  <2>3. \A p \in Producers(r) \cap Active : p # s
    BY <1>1, <2>2 DEF Produced, Ended
  <2>4. \A p \in Producers(r) \cap Active : task'[p] = task[p]
    BY <1>1, <1>2, <1>4, <2>3
  <2>5. rows'[r] = rows[r]
    BY <1>1
  <2> QED BY <1>1, <2>1, <2>2, <2>4, <2>5, ProducedStays
<1>7. \A r \in joined : task'[r] = task[r]
  BY <1>1, <1>2, <1>4 DEF FaultsInv, JobInv
<1>8. \A r \in Active : task'[r] \in {"working", "partial"} => task'[r] = task[r]
  BY <1>1, <1>2, <1>4
<1>9. ResultsInv'
  BY <1>1, <1>4, <1>6, <1>7, <1>8 DEF FaultsInv, ResultsInv
<1> QED BY <1>3, <1>5, <1>9 DEF FaultsInv

LEMMA CollectKeeps ==
  ASSUME FaultsInv, NEW s \in Stages, Collect(s) PROVE FaultsInv'
<1>1. /\ running /\ s \in Active \ joined /\ Ended(s) /\ joined' = joined \cup {s}
      /\ markers' = IF task[s] = "ok" THEN markers \cup {<<s, params[s]>>} ELSE markers
      /\ report' = IF task[s] = "failed" THEN "failed" ELSE report
      /\ UNCHANGED <<params, rows, jobs, running, policy, forced, plan, task>>
  BY DEF Collect
<1>2. TypeOK'
  BY <1>1 DEF FaultsInv, TypeOK
<1>3. Active' = Active
  BY <1>1 DEF Active
<1>4. JobInv'
  BY <1>1, <1>3 DEF FaultsInv, JobInv, Ended, Succeeded
<1>5. \A r \in Active : Produced(r) => Produced(r)'
  BY <1>1, <1>3 DEF Produced, Producers, Ended
<1>6. ResultsInv'
  BY <1>1, <1>3, <1>5 DEF FaultsInv, ResultsInv
<1> QED BY <1>2, <1>4, <1>6 DEF FaultsInv

LEMMA FinishJobKeeps == ASSUME FaultsInv, FinishJob PROVE FaultsInv'
<1>1. /\ running /\ joined = Active /\ running' = FALSE
      /\ UNCHANGED <<params, markers, rows, jobs, policy, forced, plan, task, joined, report>>
  BY DEF FinishJob
<1>2. TypeOK'
  BY <1>1 DEF FaultsInv, TypeOK
<1>3. Active' = Active /\ \A r \in Active : Produced(r) => Produced(r)'
  BY <1>1 DEF Active, Produced, Producers, Ended
<1>4. JobInv'
  BY <1>1, <1>3 DEF FaultsInv, JobInv, Ended, Succeeded
<1>5. ResultsInv'
  BY <1>1, <1>3 DEF FaultsInv, ResultsInv
<1> QED BY <1>2, <1>4, <1>5 DEF FaultsInv

LEMMA CrashKeeps == ASSUME FaultsInv, Crash PROVE FaultsInv'
<1>1. TypeOK'
  BY DEF FaultsInv, TypeOK, Crash
<1>2. JobInv'
  BY DEF FaultsInv, JobInv, Crash, Active, Ended, Succeeded
<1>3. ResultsInv'
  BY DEF ResultsInv, Crash
<1> QED BY <1>1, <1>2, <1>3 DEF FaultsInv

LEMMA FaultsInitially == Init => FaultsInv
<1> SUFFICES ASSUME Init PROVE FaultsInv
  OBVIOUS
<1>1. 1 \in Params /\ 0 \in 0..MaxJobs
  BY BoundsAssumption DEF Params
<1>2. TypeOK
  BY <1>1 DEF Init, TypeOK, Rows, NoRows, RowsUnder, Tasks, Plan
<1>3. JobInv /\ ResultsInv
  BY DEF Init, JobInv, ResultsInv, Active, Succeeded
<1> QED BY <1>2, <1>3 DEF FaultsInv

LEMMA FaultsUnchanged == ASSUME FaultsInv, UNCHANGED vars PROVE FaultsInv'
BY DEF FaultsInv, TypeOK, JobInv, ResultsInv, Produced, Active, Producers, Ended, Succeeded, vars

LEMMA FaultsInductive == ASSUME FaultsInv, [Next]_vars PROVE FaultsInv'
BY ConfigureKeeps, StartJobKeeps, BeginStageKeeps, EndStageKeeps, FailStageKeeps,
   CollectKeeps, FinishJobKeeps, CrashKeeps, FaultsUnchanged DEF Next

(* What the invariant says of a forced success and of markers. *)
LEMMA FaultsEnd == FaultsInv => TypeOK /\ ForceHeals /\ SuccessIsRemembered
<1> SUFFICES ASSUME FaultsInv PROVE TypeOK /\ ForceHeals /\ SuccessIsRemembered
  OBVIOUS
<1>1. TypeOK /\ policy \subseteq Stages /\ task \in [Stages -> Tasks]
  BY DEF FaultsInv, TypeOK
<1>2. ASSUME Succeeded, NEW s \in policy, plan[s] # "skip"
      PROVE  s \in joined /\ s \in Active /\ task[s] \in {"ok", "partial"}
  BY <1>2 DEF FaultsInv, JobInv, Active, Ended, Succeeded
<1>3. ForceHeals
  <2> SUFFICES ASSUME Succeeded, forced, NEW s \in policy
               PROVE  /\ rows[s].params = params[s]
                      /\ rows[s].current /\ ~rows[s].starved
                      /\ rows[s].whole \/ task[s] = "partial"
    BY DEF ForceHeals
  <2>1. \A r \in policy : plan[r] = "run" /\ r \in joined /\ task[r] \in {"ok", "partial"}
    BY <1>2 DEF FaultsInv, JobInv
  <2>2. s \in Active /\ Produced(s)
    BY <1>2, <2>1 DEF FaultsInv, ResultsInv, Succeeded
  <2>3. \A p \in Producers(s) : plan[p] # "skip" /\ task[p] # "failed"
    BY <2>1 DEF Producers
  <2> QED BY <2>2, <2>3 DEF Produced
<1>4. SuccessIsRemembered
  <2> SUFFICES ASSUME Succeeded, \A s \in policy : task[s] # "partial", NEW s \in policy
               PROVE  <<s, params[s]>> \in markers
    BY DEF SuccessIsRemembered
  <2>1. CASE plan[s] = "skip"
    BY <2>1 DEF FaultsInv, ResultsInv, Succeeded
  <2>2. CASE plan[s] # "skip"
    BY <1>2, <2>2 DEF FaultsInv, ResultsInv, Succeeded
  <2> QED BY <2>1, <2>2
<1> QED BY <1>1, <1>3, <1>4

-----------------------------------------------------------------------------
(* OrderlyInv is inductive. *)
OrderlyStages == 1..OrderlyN

LEMMA OrderlyConstants ==
  /\ OrderlyN \in Nat /\ Sound!Stages = OrderlyStages
  /\ Sound!Params = 1..OrderlyMaxParams
  /\ OrderlyConsumers \in [OrderlyStages -> SUBSET OrderlyStages]
  /\ Sound!Wiring(OrderlyStages) = OrderlyConsumers /\ Wired(OrderlyN, OrderlyConsumers)
<1>1. /\ OrderlyN \in Nat /\ Sound!Stages = OrderlyStages
      /\ Sound!Params = 1..OrderlyMaxParams
      /\ OrderlyConsumers \in [OrderlyStages -> SUBSET OrderlyStages]
      /\ Wired(OrderlyN, OrderlyConsumers)
  BY OrderlyAssumption DEF Sound!Stages, Sound!Params, Wired, OrderlyStages
<1>2. Sound!Wiring(OrderlyStages) = OrderlyConsumers
  BY <1>1 DEF Sound!Wiring
<1> QED BY <1>1, <1>2

LEMMA OrderlyTypes ==
  ASSUME OrderlyInv
  PROVE  /\ params \in [OrderlyStages -> 1..OrderlyMaxParams]
         /\ rows \in [OrderlyStages -> Sound!Rows]
         /\ plan \in [OrderlyStages -> Plan]
         /\ task \in [OrderlyStages -> Sound!Tasks]
         /\ policy \in SUBSET OrderlyStages
<1>1. /\ params \in [Sound!Stages -> Sound!Params] /\ rows \in [Sound!Stages -> Sound!Rows]
      /\ plan \in [Sound!Stages -> Sound!Plan] /\ task \in [Sound!Stages -> Sound!Tasks]
      /\ policy \in SUBSET Sound!Stages
  BY DEF OrderlyInv, Sound!TypeOK
<1>2. Sound!Plan = Plan
  BY DEF Sound!Plan, Plan
<1> QED BY <1>1, <1>2, OrderlyConstants

(* The instance plans as CachePlan does. *)
LEMMA OrderlyPlan ==
  ASSUME NEW n, NEW w, NEW marked, NEW able
  PROVE  Sound!PlanFor(n, w, marked, able) = PlanFor(n, w, marked, able)
<1>1. Sound!DemandedPlan(n, w, marked, able) = DemandedPlan(n, w, marked, able)
  BY DEF Sound!DemandedPlan, DemandedPlan
<1>2. \A d : Sound!ReplayedPlan(n, w, d) = ReplayedPlan(n, w, d)
  BY DEF Sound!ReplayedPlan, ReplayedPlan
<1>3. \A d : Sound!SettledPlan(n, w, d) = SettledPlan(n, w, d)
  BY DEF Sound!SettledPlan, SettledPlan
<1> QED BY <1>1, <1>2, <1>3 DEF Sound!PlanFor, PlanFor

LEMMA OrderlyConfigureKeeps ==
  ASSUME OrderlyInv, NEW s \in Sound!Stages, NEW k \in Sound!Params, Sound!Configure(s, k)
  PROVE  OrderlyInv'
<1>1. /\ ~running /\ k > params[s] /\ params' = [params EXCEPT ![s] = k] /\ report' = "none"
      /\ UNCHANGED <<markers, rows, jobs, running, policy, forced, plan, task, joined>>
  BY DEF Sound!Configure
<1>2. /\ params \in [OrderlyStages -> 1..OrderlyMaxParams] /\ s \in OrderlyStages
      /\ k \in 1..OrderlyMaxParams
  BY OrderlyTypes, OrderlyConstants
<1>3. \A r \in OrderlyStages : params[r] \in Nat /\ params'[r] \in Nat /\ params[r] <= params'[r]
  BY <1>1, <1>2
<1>4. Sound!TypeOK'
  BY <1>1 DEF OrderlyInv, Sound!TypeOK
<1>5. OrderlyTasks'
  <2>1. \A r \in OrderlyStages, m \in 1..OrderlyMaxParams :
          <<r, m>> \in markers => m <= params'[r]
    BY <1>3 DEF OrderlyInv, OrderlyTasks, OrderlyStages
  <2>2. Sound!Active' = Sound!Active
    BY <1>1 DEF Sound!Active
  <2> QED BY <1>1, <2>1, <2>2 DEF OrderlyInv, OrderlyTasks, OrderlyStages, Sound!Succeeded
<1>6. <<s, k>> \notin markers
  BY <1>1, <1>2 DEF OrderlyInv, OrderlyTasks, OrderlyStages
<1>7. \A r \in OrderlyStages : <<r, params'[r]>> \in markers => r # s
  BY <1>1, <1>2, <1>6
<1>8. \A r \in OrderlyStages : r # s /\ Good(r) => Good(r)'
  BY <1>1, <1>2 DEF Good
<1>9. OrderlyRows'
  BY <1>1, <1>2, <1>7, <1>8 DEF OrderlyInv, OrderlyRows, OrderlyStages
<1> QED BY <1>4, <1>5, <1>9 DEF OrderlyInv

LEMMA OrderlyStartJobKeeps ==
  ASSUME OrderlyInv, NEW q \in {OrderlyStages}, NEW force \in BOOLEAN, Sound!StartJob(q, force)
  PROVE  OrderlyInv'
<1> DEFINE cached == Sound!Cached(q, force)
<1>1. /\ ~running /\ jobs' = jobs + 1 /\ jobs < OrderlyMaxJobs /\ running' = TRUE /\ policy' = q
      /\ forced' = force /\ joined' = {} /\ report' = "ok"
      /\ params' = params /\ markers' = markers /\ rows' = rows
      /\ plan' = PlanFor(OrderlyN, OrderlyConsumers, cached, OrderlyReplayable)
      /\ task' = [s \in OrderlyStages |-> IF s \in q /\ plan'[s] # "skip" THEN "waiting" ELSE "none"]
  <2>1. cached \cup (Sound!Stages \ q) = cached /\ Sound!Wiring(q) = OrderlyConsumers
    BY OrderlyConstants
  <2>2. /\ ~running /\ jobs' = jobs + 1 /\ jobs < OrderlyMaxJobs /\ running' = TRUE /\ policy' = q
        /\ forced' = force /\ joined' = {} /\ report' = "ok"
        /\ params' = params /\ markers' = markers /\ rows' = rows
        /\ plan' = Sound!PlanFor(OrderlyN, Sound!Wiring(q), cached \cup (Sound!Stages \ q),
                                  OrderlyReplayable)
        /\ task' = [s \in Sound!Stages |-> IF s \in q /\ plan'[s] # "skip" THEN "waiting" ELSE "none"]
    BY DEF Sound!StartJob
  <2> HIDE DEF cached
  <2> QED BY <2>1, <2>2, OrderlyPlan, OrderlyConstants
<1>2. PlanFacts(OrderlyN, OrderlyConsumers, cached, plan')
  <2> HIDE DEF cached
  <2>1. PICK pl : pl = PlanFor(OrderlyN, OrderlyConsumers, cached, OrderlyReplayable)
    OBVIOUS
  <2>2. OrderlyN \in Nat /\ Wired(OrderlyN, OrderlyConsumers)
    BY OrderlyConstants
  <2>3. PlanFacts(OrderlyN, OrderlyConsumers, cached, pl)
    BY <2>1, <2>2, PlansAre
  <2> QED BY <1>1, <2>1, <2>3
<1>3. /\ plan' \in [OrderlyStages -> Plan]
      /\ \A s \in OrderlyStages : plan'[s] # "run" => <<s, params[s]>> \in markers
      /\ \A p \in OrderlyStages : \A c \in OrderlyConsumers[p] :
           /\ plan'[p] = "run" => plan'[c] = "run"
           /\ plan'[p] = "skip" /\ plan'[c] = "run" =>
                \E r \in OrderlyStages : c \in OrderlyConsumers[r] /\ plan'[r] = "run"
  BY <1>2 DEF PlanFacts, OrderlyStages, Sound!Cached
<1>4. Sound!TypeOK'
  <2>1. jobs' \in 0..OrderlyMaxJobs
    BY <1>1, OrderlyAssumption DEF OrderlyInv, Sound!TypeOK
  <2>2. task' \in [OrderlyStages -> Sound!Tasks]
    BY <1>1 DEF Sound!Tasks
  <2>3. plan' \in [Sound!Stages -> Sound!Plan] /\ task' \in [Sound!Stages -> Sound!Tasks]
        /\ policy' \in SUBSET Sound!Stages
    BY <1>1, <1>3, <2>2, OrderlyConstants DEF Sound!Plan, Plan
  <2> QED BY <1>1, <2>1, <2>3 DEF OrderlyInv, Sound!TypeOK
<1>5. OrderlyTasks'
  BY <1>1 DEF OrderlyInv, OrderlyTasks, OrderlyStages, Sound!Active, Sound!Succeeded
<1>6. \A s \in OrderlyStages : Good(s)' <=> Good(s)
  BY <1>1 DEF Good
<1>7. OrderlyRows'
  BY <1>1, <1>3, <1>6 DEF OrderlyInv, OrderlyRows, OrderlyStages
<1> QED BY <1>4, <1>5, <1>7 DEF OrderlyInv

LEMMA OrderlyBeginStageKeeps ==
  ASSUME OrderlyInv, NEW s \in Sound!Stages, Sound!BeginStage(s) PROVE OrderlyInv'
<1> DEFINE begun == [params |-> params[s], whole |-> FALSE, current |-> FALSE, starved |-> FALSE]
<1>1. /\ running /\ task[s] = "waiting" /\ task' = [task EXCEPT ![s] = "working"]
      /\ UNCHANGED <<params, markers, jobs, running, policy, forced, plan, joined, report>>
      /\ \/ rows' = rows /\ plan[s] # "run"
         \/ /\ plan[s] = "run"
            /\ rows' = [r \in OrderlyStages |->
                          IF r = s THEN begun
                          ELSE IF r \in OrderlyConsumers[s] THEN [rows[r] EXCEPT !.current = FALSE]
                          ELSE rows[r]]
  BY OrderlyConstants DEF Sound!BeginStage, Sound!RowsUnder
<1>2. /\ params \in [OrderlyStages -> 1..OrderlyMaxParams] /\ rows \in [OrderlyStages -> Sound!Rows]
      /\ task \in [OrderlyStages -> Sound!Tasks] /\ policy \in SUBSET OrderlyStages
      /\ s \in OrderlyStages
  BY OrderlyTypes, OrderlyConstants
<1>3. rows' \in [OrderlyStages -> Sound!Rows]
  <2>1. begun \in Sound!Rows
    BY <1>2, OrderlyConstants DEF Sound!Rows
  <2>2. \A r \in OrderlyStages : [rows[r] EXCEPT !.current = FALSE] \in Sound!Rows
    BY <1>2 DEF Sound!Rows
  <2> HIDE DEF begun
  <2> QED BY <1>1, <1>2, <2>1, <2>2
<1>4. Sound!TypeOK'
  <2>1. task' \in [OrderlyStages -> Sound!Tasks]
    BY <1>1, <1>2 DEF Sound!Tasks
  <2> QED BY <1>1, <1>3, <2>1, OrderlyConstants DEF OrderlyInv, Sound!TypeOK
<1>5. Sound!Active' = Sound!Active /\ s \in Sound!Active /\ s \notin joined
  BY <1>1, <1>2 DEF OrderlyInv, OrderlyTasks, OrderlyStages, Sound!Active
<1>6. OrderlyTasks'
  BY <1>1, <1>2, <1>5 DEF OrderlyInv, OrderlyTasks, OrderlyStages, Sound!Succeeded
<1>7. \A r \in OrderlyStages : rows'[r] = rows[r] /\ Good(r) => Good(r)'
  BY <1>1 DEF Good
<1>8. ASSUME NEW r \in OrderlyStages PROVE
        /\ plan[r] # "run" => <<r, params[r]>> \in markers /\ Good(r)'
        /\ plan[r] = "run" /\ task'[r] = "working" => rows'[r].params = params[r]
        /\ plan[r] = "run" /\ task'[r] = "ok" =>
             /\ Good(r)'
             /\ \A p \in 1..OrderlyN : r \in OrderlyConsumers[p] => task'[p] \in {"none", "ok"}
  <2>1. /\ plan[r] # "run" => <<r, params[r]>> \in markers /\ Good(r)
        /\ plan[r] = "run" /\ task[r] = "working" => rows[r].params = params[r]
        /\ plan[r] = "run" /\ task[r] = "ok" =>
             /\ Good(r)
             /\ \A p \in 1..OrderlyN : r \in OrderlyConsumers[p] => task[p] \in {"none", "ok"}
        /\ r \in OrderlyConsumers[s] /\ plan[s] = "run" => plan[r] = "run"
    BY <1>1, <1>2, <1>8 DEF OrderlyInv, OrderlyRows, OrderlyStages
  <2>2. CASE r = s
    BY <1>1, <1>2, <1>7, <2>1, <2>2
  <2>3. CASE r # s
    <3>1. task'[r] = task[r]
      BY <1>1, <1>2, <2>3
    <3>2. plan[r] # "run" \/ task[r] = "ok" => rows'[r] = rows[r]
      BY <1>1, <1>2, <1>8, <2>1, <2>3 DEF OrderlyStages
    <3>3. rows'[r].params = rows[r].params
      <4>1. [rows[r] EXCEPT !.current = FALSE].params = rows[r].params
        BY <1>2, <1>8 DEF Sound!Rows
      <4> QED BY <1>1, <1>8, <2>3, <4>1
    <3>4. task[r] = "ok" /\ plan[r] = "run" =>
            \A p \in 1..OrderlyN : r \in OrderlyConsumers[p] => task'[p] \in {"none", "ok"}
      BY <1>1, <1>2, <2>1 DEF OrderlyStages
    <3> QED BY <1>7, <2>1, <3>1, <3>2, <3>3, <3>4
  <2> QED BY <2>2, <2>3
<1>9. OrderlyRows'
  BY <1>1, <1>8 DEF OrderlyInv, OrderlyRows, OrderlyStages
<1> QED BY <1>4, <1>6, <1>9 DEF OrderlyInv

LEMMA OrderlyEndStageKeeps ==
  ASSUME OrderlyInv, NEW s \in Sound!Stages, Sound!EndStage(s) PROVE OrderlyInv'
<1> DEFINE whole == \A p \in Sound!Producers(s) \cap Sound!Active : task[p] # "failed"
           starved == \E p \in Sound!Producers(s) : plan[p] = "skip"
           ended == [params |-> rows[s].params, whole |-> whole, current |-> TRUE,
                     starved |-> starved]
<1>1. /\ running /\ task[s] = "working" /\ task' = [task EXCEPT ![s] = "ok"]
      /\ \A p \in Sound!Producers(s) \cap Sound!Active : Sound!Ended(p)
      /\ rows' = IF plan[s] # "run" THEN rows ELSE [rows EXCEPT ![s] = ended]
      /\ UNCHANGED <<params, markers, jobs, running, policy, forced, plan, joined, report>>
  BY DEF Sound!EndStage
<1>2. /\ params \in [OrderlyStages -> 1..OrderlyMaxParams] /\ rows \in [OrderlyStages -> Sound!Rows]
      /\ task \in [OrderlyStages -> Sound!Tasks] /\ policy \in SUBSET OrderlyStages
      /\ s \in OrderlyStages
  BY OrderlyTypes, OrderlyConstants
<1>3. ended \in Sound!Rows /\ ended.params = rows[s].params /\ ended.current
      /\ (ended.whole <=> whole) /\ (ended.starved <=> starved)
  BY <1>2 DEF Sound!Rows
<1> HIDE DEF ended
<1>4. Sound!TypeOK'
  <2>1. task' \in [OrderlyStages -> Sound!Tasks]
    BY <1>1, <1>2 DEF Sound!Tasks
  <2>2. rows' \in [OrderlyStages -> Sound!Rows]
    BY <1>1, <1>2, <1>3
  <2> QED BY <1>1, <2>1, <2>2, OrderlyConstants DEF OrderlyInv, Sound!TypeOK
<1>5. Sound!Active' = Sound!Active /\ s \in Sound!Active /\ s \notin joined
  BY <1>1, <1>2 DEF OrderlyInv, OrderlyTasks, OrderlyStages, Sound!Active
<1>6. OrderlyTasks'
  BY <1>1, <1>2, <1>5 DEF OrderlyInv, OrderlyTasks, OrderlyStages, Sound!Succeeded
<1>7. \A p \in OrderlyStages : /\ task[p] \notin {"partial", "failed"}
                               /\ p # s => task'[p] = task[p]
                               /\ task[p] \in {"none", "ok"} => task'[p] = task[p]
  BY <1>1, <1>2 DEF OrderlyInv, OrderlyTasks, OrderlyStages
<1>8. policy = OrderlyStages
      /\ \A p \in OrderlyStages : p \in Sound!Producers(s) <=> s \in OrderlyConsumers[p]
  BY <1>1 DEF OrderlyInv, OrderlyTasks, OrderlyStages, Sound!Producers
<1>9. \A r \in OrderlyStages : rows'[r] = rows[r] /\ Good(r) => Good(r)'
  BY <1>1 DEF Good
<1>10. ASSUME plan[s] = "run"
       PROVE  /\ Good(s)'
              /\ \A p \in 1..OrderlyN : s \in OrderlyConsumers[p] => task'[p] \in {"none", "ok"}
  <2>1. rows'[s] = ended /\ rows[s].params = params[s]
    BY <1>1, <1>2, <1>10 DEF OrderlyInv, OrderlyRows, OrderlyStages
  <2>2. whole
    BY <1>7, <1>8 DEF Sound!Producers
  <2>3. starved => \E p, q \in 1..OrderlyN :
                      p # q /\ s \in OrderlyConsumers[p] \cap OrderlyConsumers[q]
    <3> SUFFICES ASSUME NEW p \in OrderlyStages, s \in OrderlyConsumers[p], plan[p] = "skip"
                 PROVE  \E x, q \in 1..OrderlyN :
                           x # q /\ s \in OrderlyConsumers[x] \cap OrderlyConsumers[q]
      BY <1>8 DEF Sound!Producers
    <3>1. PICK q \in OrderlyStages : s \in OrderlyConsumers[q] /\ plan[q] = "run"
      BY <1>1, <1>10 DEF OrderlyInv, OrderlyRows, OrderlyStages
    <3>2. p # q
      BY <3>1
    <3> QED BY <3>1, <3>2 DEF OrderlyStages
  <2>4. Good(s)'
    BY <1>1, <1>3, <2>1, <2>2, <2>3 DEF Good
  <2>5. ASSUME NEW p \in OrderlyStages, s \in OrderlyConsumers[p]
        PROVE  task'[p] \in {"none", "ok"}
    <3>1. CASE p \in Sound!Active
      <4>1. Sound!Ended(p)
        BY <1>1, <1>8, <2>5, <3>1
      <4> QED BY <1>7, <4>1 DEF Sound!Ended
    <3>2. CASE p \notin Sound!Active
      <4>1. task[p] = "none"
        BY <3>2 DEF OrderlyInv, OrderlyTasks, OrderlyStages
      <4> QED BY <1>7, <4>1
    <3> QED BY <3>1, <3>2
  <2> QED BY <2>4, <2>5 DEF OrderlyStages
<1>11. ASSUME NEW r \in OrderlyStages PROVE
         /\ plan[r] # "run" => <<r, params[r]>> \in markers /\ Good(r)'
         /\ plan[r] = "run" /\ task'[r] = "working" => rows'[r].params = params[r]
         /\ plan[r] = "run" /\ task'[r] = "ok" =>
              /\ Good(r)'
              /\ \A p \in 1..OrderlyN : r \in OrderlyConsumers[p] => task'[p] \in {"none", "ok"}
  <2>1. /\ plan[r] # "run" => <<r, params[r]>> \in markers /\ Good(r)
        /\ plan[r] = "run" /\ task[r] = "working" => rows[r].params = params[r]
        /\ plan[r] = "run" /\ task[r] = "ok" =>
             /\ Good(r)
             /\ \A p \in 1..OrderlyN : r \in OrderlyConsumers[p] => task[p] \in {"none", "ok"}
    BY <1>1, <1>11 DEF OrderlyInv, OrderlyRows, OrderlyStages
  <2>2. CASE r = s
    BY <1>1, <1>2, <1>9, <1>10, <2>1, <2>2
  <2>3. CASE r # s
    <3>1. task'[r] = task[r] /\ rows'[r] = rows[r]
      BY <1>1, <1>2, <1>11, <2>3
    <3>2. \A p \in 1..OrderlyN : task[p] \in {"none", "ok"} => task'[p] \in {"none", "ok"}
      BY <1>7 DEF OrderlyStages
    <3> QED BY <1>9, <2>1, <3>1, <3>2
  <2> QED BY <2>2, <2>3
<1>12. OrderlyRows'
  BY <1>1, <1>11 DEF OrderlyInv, OrderlyRows, OrderlyStages
<1> QED BY <1>4, <1>6, <1>12 DEF OrderlyInv

LEMMA OrderlyCollectKeeps ==
  ASSUME OrderlyInv, NEW s \in Sound!Stages, Sound!Collect(s) PROVE OrderlyInv'
<1>1. /\ running /\ s \in Sound!Active \ joined /\ Sound!Ended(s) /\ joined' = joined \cup {s}
      /\ markers' = IF task[s] = "ok" THEN markers \cup {<<s, params[s]>>} ELSE markers
      /\ report' = IF task[s] = "failed" THEN "failed" ELSE report
      /\ UNCHANGED <<params, rows, jobs, running, policy, forced, plan, task>>
  BY DEF Sound!Collect
<1>2. params \in [OrderlyStages -> 1..OrderlyMaxParams] /\ s \in OrderlyStages
  BY OrderlyTypes, OrderlyConstants
<1>3. task[s] = "ok"
  BY <1>1, <1>2 DEF OrderlyInv, OrderlyTasks, OrderlyStages, Sound!Ended
<1>4. Sound!TypeOK'
  BY <1>1, <1>2, OrderlyConstants DEF OrderlyInv, Sound!TypeOK
<1>5. Sound!Active' = Sound!Active
  BY <1>1 DEF Sound!Active
<1>6. OrderlyTasks'
  <2>1. \A r \in OrderlyStages, k \in 1..OrderlyMaxParams : <<r, k>> \in markers' => k <= params[r]
    BY <1>1, <1>2 DEF OrderlyInv, OrderlyTasks, OrderlyStages
  <2> QED BY <1>1, <1>3, <1>5, <2>1 DEF OrderlyInv, OrderlyTasks, OrderlyStages, Sound!Succeeded
<1>7. \A r \in OrderlyStages : Good(r)' <=> Good(r)
  BY <1>1 DEF Good
<1>8. OrderlyRows'
  BY <1>1, <1>7 DEF OrderlyInv, OrderlyRows, OrderlyStages
<1> QED BY <1>4, <1>6, <1>8 DEF OrderlyInv

LEMMA OrderlyFinishJobKeeps == ASSUME OrderlyInv, Sound!FinishJob PROVE OrderlyInv'
<1>1. /\ running /\ joined = Sound!Active /\ running' = FALSE
      /\ UNCHANGED <<params, markers, rows, jobs, policy, forced, plan, task, joined, report>>
  BY DEF Sound!FinishJob
<1>2. Sound!TypeOK'
  BY <1>1 DEF OrderlyInv, Sound!TypeOK
<1>3. Sound!Active' = Sound!Active
  BY <1>1 DEF Sound!Active
<1>4. OrderlyTasks'
  BY <1>1, <1>3 DEF OrderlyInv, OrderlyTasks, Sound!Succeeded, Sound!Active, OrderlyStages
<1>5. \A r \in OrderlyStages : Good(r)
  <2> SUFFICES ASSUME NEW r \in OrderlyStages PROVE Good(r)
    OBVIOUS
  <2>1. CASE plan[r] = "run"
    <3>1. r \in joined /\ task[r] = "ok"
      BY <1>1, <2>1 DEF OrderlyInv, OrderlyTasks, OrderlyStages, Sound!Active
    <3> QED BY <1>1, <2>1, <3>1 DEF OrderlyInv, OrderlyRows, OrderlyStages
  <2>2. CASE plan[r] # "run"
    BY <1>1, <2>2 DEF OrderlyInv, OrderlyRows, OrderlyStages
  <2> QED BY <2>1, <2>2
<1>6. \A r \in OrderlyStages : Good(r)' <=> Good(r)
  BY <1>1 DEF Good
<1>7. OrderlyRows'
  BY <1>1, <1>5, <1>6 DEF OrderlyRows, OrderlyStages
<1> QED BY <1>2, <1>4, <1>7 DEF OrderlyInv

LEMMA OrderlyInitially == Sound!Init => OrderlyInv
<1> SUFFICES ASSUME Sound!Init PROVE OrderlyInv
  OBVIOUS
<1>1. 1 \in Sound!Params /\ 0 \in 0..OrderlyMaxJobs
  BY OrderlyAssumption DEF Sound!Params
<1>2. Sound!TypeOK
  BY <1>1 DEF Sound!Init, Sound!TypeOK, Sound!Rows, Sound!NoRows, Sound!RowsUnder, Sound!Tasks, Sound!Plan
<1>3. OrderlyTasks /\ OrderlyRows
  BY OrderlyConstants DEF Sound!Init, OrderlyTasks, OrderlyRows, OrderlyStages, Sound!Active,
     Sound!Succeeded
<1> QED BY <1>2, <1>3 DEF OrderlyInv

LEMMA OrderlyUnchanged == ASSUME OrderlyInv, UNCHANGED vars PROVE OrderlyInv'
<1>1. UNCHANGED <<params, markers, rows, jobs, running, policy, forced, plan, task, joined, report>>
  BY DEF vars
<1>2. Sound!TypeOK' /\ OrderlyTasks'
  BY <1>1 DEF OrderlyInv, Sound!TypeOK, OrderlyTasks, Sound!Active, Sound!Succeeded
<1>3. \A r \in OrderlyStages : Good(r)' <=> Good(r)
  BY <1>1 DEF Good
<1>4. OrderlyRows'
  BY <1>1, <1>3 DEF OrderlyInv, OrderlyRows, OrderlyStages
<1> QED BY <1>2, <1>4 DEF OrderlyInv

LEMMA OrderlyInductive == ASSUME OrderlyInv, Sound!Next \/ UNCHANGED vars PROVE OrderlyInv'
<1>1. ASSUME NEW s \in Sound!Stages, Sound!FailStage(s) PROVE FALSE
  BY <1>1 DEF Sound!FailStage
<1>2. ~Sound!Crash
  BY DEF Sound!Crash
<1>3. ASSUME NEW q \in {1..OrderlyN}, NEW force \in BOOLEAN, Sound!StartJob(q, force)
      PROVE  OrderlyInv'
  BY <1>3, OrderlyStartJobKeeps DEF OrderlyStages
<1> QED BY <1>1, <1>2, <1>3, OrderlyConfigureKeeps, OrderlyBeginStageKeeps, OrderlyEndStageKeeps,
     OrderlyCollectKeeps, OrderlyFinishJobKeeps, OrderlyUnchanged DEF Sound!Next

LEMMA OrderlyEnd == OrderlyInv => Sound!SuccessMeansFresh
<1> SUFFICES ASSUME OrderlyInv, Sound!Succeeded, NEW s \in policy
             PROVE  /\ Sound!Fresh(s)
                    /\ rows[s].starved => \E p, q \in Sound!Producers(s) : p # q
  BY DEF Sound!SuccessMeansFresh
<1>1. policy = OrderlyStages
  BY DEF OrderlyInv, OrderlyTasks, OrderlyStages
<1>2. Good(s)
  BY <1>1 DEF OrderlyInv, OrderlyRows, OrderlyStages, Sound!Succeeded
<1>3. \A p \in OrderlyStages : s \in OrderlyConsumers[p] => p \in Sound!Producers(s)
  BY <1>1 DEF Sound!Producers
<1> QED BY <1>2, <1>3 DEF Good, OrderlyStages, Sound!Fresh, Sound!Whole

-----------------------------------------------------------------------------
HistoryInv ==
  /\ history = "faults" => FaultsInv
  /\ history = "sound" => OrderlyInv

LEMMA HistoryInvariant == MCSpec => []HistoryInv
<1>1. MCInit => HistoryInv
  BY FaultsInitially, OrderlyInitially DEF MCInit, HistoryInv
<1>2. HistoryInv /\ [MCNext]_<<vars, history>> => HistoryInv'
  <2> SUFFICES ASSUME HistoryInv, [MCNext]_<<vars, history>> PROVE HistoryInv'
    OBVIOUS
  <2>1. history' = history
    BY DEF MCNext
  <2>2. CASE history = "faults"
    <3>1. FaultsInv /\ (Next \/ UNCHANGED vars)
      BY <2>2 DEF HistoryInv, MCNext
    <3> QED BY <2>1, <2>2, <3>1, FaultsInductive DEF HistoryInv
  <2>3. CASE history = "sound"
    <3>1. OrderlyInv /\ (Sound!Next \/ UNCHANGED vars)
      BY <2>3 DEF HistoryInv, MCNext
    <3> QED BY <2>1, <2>3, <3>1, OrderlyInductive DEF HistoryInv
  <2> QED BY <2>1, <2>2, <2>3 DEF HistoryInv
<1> QED BY <1>1, <1>2, PTL DEF MCSpec

(* Whatever the wiring and the number of stages, jobs and parameters: in   *)
(* an orderly history success means rows that are whole, as configured and *)
(* of the producers' present rows, and only a stage with several producers *)
(* can have done without one.                                              *)
THEOREM SuccessIsFresh == MCSpec => []OrderlySuccessMeansFresh
<1>1. HistoryInv => OrderlySuccessMeansFresh
  BY OrderlyEnd DEF HistoryInv, OrderlySuccessMeansFresh
<1> QED BY <1>1, HistoryInvariant, PTL

(* In any history, with stages that fail, processes that are killed and    *)
(* parameters that come back: a forced success heals, and a whole success  *)
(* is remembered by the markers of its policy.                             *)
THEOREM ForceHealsEveryHistory == MCSpec => []FaultsHeal
<1>1. HistoryInv => FaultsHeal
  BY FaultsEnd DEF HistoryInv, FaultsHeal
<1> QED BY <1>1, HistoryInvariant, PTL

(* One step of PartialIsRetried. *)
Retried ==
  \A s \in Stages :
    /\ task[s] # "ok" => \A k \in Params : <<s, k>> \in markers' => <<s, k>> \in markers
    /\ ~running /\ running' /\ s \in policy' /\ <<s, params[s]>> \notin markers
         => plan'[s] = "run"

LEMMA NoStart == markers' = markers /\ (running \/ ~running') => Retried
BY DEF Retried

LEMMA FaultsRetry == ASSUME Next PROVE Retried
<1>1. ASSUME NEW s \in Stages, NEW k \in Params, Configure(s, k) PROVE Retried
  BY <1>1, NoStart DEF Configure
<1>2. ASSUME NEW q \in Policies, NEW force \in BOOLEAN, StartJob(q, force) PROVE Retried
  <2> DEFINE marked == Cached(q, force) \cup (Stages \ q)
  <2>1. /\ markers' = markers /\ policy' = q
        /\ plan' = PlanFor(N, Wiring(q), marked, Replayable)
    BY <1>2 DEF StartJob
  <2> HIDE DEF marked
  <2>2. N \in Nat /\ Wired(N, Wiring(q)) /\ Stages = 1..N
    BY Constants
  <2>3. PICK pl : pl = PlanFor(N, Wiring(q), marked, Replayable)
    OBVIOUS
  <2>4. PlanFacts(N, Wiring(q), marked, pl)
    BY <2>2, <2>3, PlansAre
  <2>5. \A s \in q : s \in Stages /\ s \notin Cached(q, force) => plan'[s] = "run"
    BY <2>1, <2>2, <2>3, <2>4 DEF PlanFacts, marked
  <2> QED BY <2>1, <2>5 DEF Retried, Cached
<1>3. ASSUME NEW s \in Stages, Collect(s) PROVE Retried
  <2>1. /\ running
        /\ markers' = IF task[s] = "ok" THEN markers \cup {<<s, params[s]>>} ELSE markers
    BY <1>3 DEF Collect
  <2>2. \A r \in Stages : task[r] # "ok" =>
          \A k \in Params : <<r, k>> \in markers' => <<r, k>> \in markers
    BY <2>1
  <2> QED BY <2>1, <2>2 DEF Retried
<1>4. ASSUME NEW s \in Stages, BeginStage(s) \/ EndStage(s) \/ FailStage(s) PROVE Retried
  BY <1>4, NoStart DEF BeginStage, EndStage, FailStage
<1>5. ASSUME FinishJob \/ Crash PROVE Retried
  BY <1>5, NoStart DEF FinishJob, Crash
<1> QED BY <1>1, <1>2, <1>3, <1>4, <1>5 DEF Next

LEMMA OrderlyRetry == ASSUME Sound!Next PROVE Retried
<1>1. ASSUME NEW s \in Sound!Stages, NEW k \in Sound!Params, Sound!Configure(s, k) PROVE Retried
  BY <1>1, NoStart DEF Sound!Configure
<1>2. ASSUME NEW q \in {1..OrderlyN}, NEW force \in BOOLEAN, Sound!StartJob(q, force) PROVE Retried
  <2> DEFINE cached == Sound!Cached(q, force)
  <2>0. q = OrderlyStages
    BY DEF OrderlyStages
  <2>1. /\ markers' = markers /\ policy' = q
        /\ plan' = PlanFor(OrderlyN, OrderlyConsumers, cached, OrderlyReplayable)
    <3>1. cached \cup (Sound!Stages \ q) = cached /\ Sound!Wiring(q) = OrderlyConsumers
      BY <2>0, OrderlyConstants
    <3>2. /\ markers' = markers /\ policy' = q
          /\ plan' = Sound!PlanFor(OrderlyN, Sound!Wiring(q), cached \cup (Sound!Stages \ q),
                                   OrderlyReplayable)
      BY <1>2 DEF Sound!StartJob
    <3> HIDE DEF cached
    <3> QED BY <3>1, <3>2, OrderlyPlan
  <2> HIDE DEF cached
  <2>2. OrderlyN \in Nat /\ Wired(OrderlyN, OrderlyConsumers)
    BY OrderlyConstants
  <2>3. PICK pl : pl = PlanFor(OrderlyN, OrderlyConsumers, cached, OrderlyReplayable)
    OBVIOUS
  <2>4. PlanFacts(OrderlyN, OrderlyConsumers, cached, pl)
    BY <2>2, <2>3, PlansAre
  <2>5. \A s \in q : s \notin cached => plan'[s] = "run"
    BY <2>0, <2>1, <2>3, <2>4 DEF PlanFacts, OrderlyStages
  <2> QED BY <2>1, <2>5 DEF Retried, Sound!Cached, cached
<1>3. ASSUME NEW s \in Sound!Stages, Sound!Collect(s) PROVE Retried
  <2>1. /\ running
        /\ markers' = IF task[s] = "ok" THEN markers \cup {<<s, params[s]>>} ELSE markers
    BY <1>3 DEF Sound!Collect
  <2>2. \A r \in Stages : task[r] # "ok" =>
          \A k \in Params : <<r, k>> \in markers' => <<r, k>> \in markers
    BY <2>1
  <2> QED BY <2>1, <2>2 DEF Retried
<1>4. ASSUME NEW s \in Sound!Stages,
             Sound!BeginStage(s) \/ Sound!EndStage(s) \/ Sound!FailStage(s)
      PROVE  Retried
  BY <1>4, NoStart DEF Sound!BeginStage, Sound!EndStage, Sound!FailStage
<1>5. ASSUME Sound!FinishJob \/ Sound!Crash PROVE Retried
  BY <1>5, NoStart DEF Sound!FinishJob, Sound!Crash
<1> QED BY <1>1, <1>2, <1>3, <1>4, <1>5 DEF Sound!Next

(* A stage that missed inputs is tried again by the next job that has it:  *)
(* only a whole run leaves a marker, and a stage without one runs.         *)
THEOREM MissedIsRetried == MCSpec => PartialIsRetried
<1>1. ASSUME [MCNext]_<<vars, history>> PROVE [Retried]_vars
  <2>1. CASE MCNext
    BY <2>1, FaultsRetry, OrderlyRetry DEF MCNext
  <2>2. CASE UNCHANGED <<vars, history>>
    BY <2>2
  <2> QED BY <1>1, <2>1, <2>2
<1>2. MCSpec => [][Retried]_vars
  BY <1>1, PTL DEF MCSpec
<1> QED BY <1>2 DEF PartialIsRetried, Retried
=============================================================================
