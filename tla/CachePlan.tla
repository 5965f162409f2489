------------------------------ MODULE CachePlan ------------------------------
(***************************************************************************)
(* What the planning loops of Scheduler::run_prepared compute, as          *)
(* functions: the plan of an indexing job for n stages in topological      *)
(* order.  StagePlan has the loops themselves and shows that they compute  *)
(* this; OutputCache plans its jobs with it.                               *)
(***************************************************************************)
EXTENDS Naturals

Plan == {"run", "replay", "skip"}

(* Pass 1: consumers first. *)
DemandedPlan(n, consumers, cached, replayable) ==
  LET demanded[s \in 1..n] ==
        IF s \notin cached THEN "run"
        ELSE IF \A c \in consumers[s] : demanded[c] # "run" THEN "skip"
        ELSE IF s \in replayable THEN "replay"
        ELSE "run"
  IN demanded

(* Pass 2: a replay after its producers. *)
ReplayedPlan(n, consumers, demanded) ==
  LET replays[s \in 1..n] ==
        IF /\ demanded[s] = "replay"
           /\ \E p \in 1..(s - 1) : s \in consumers[p] /\ replays[p] = "run"
        THEN "run" ELSE demanded[s]
  IN replays

(* Pass 3: everything else after its producers. *)
SettledPlan(n, consumers, replayed) ==
  LET settled[s \in 1..n] ==
        IF \E p \in 1..(s - 1) : s \in consumers[p] /\ settled[p] = "run"
        THEN "run" ELSE replayed[s]
  IN settled

PlanFor(n, consumers, cached, replayable) ==
  SettledPlan(n, consumers,
    ReplayedPlan(n, consumers, DemandedPlan(n, consumers, cached, replayable)))
=============================================================================
