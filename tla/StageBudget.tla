----------------------------- MODULE StageBudget -----------------------------
(***************************************************************************)
(* The spending limits of an indexing job.  The workers of its stages ask  *)
(* before each provider call and record its cost when it returns.          *)
(*                                                                         *)
(*   batch  a cost ceiling and a deadline, both fixed at the start         *)
(*   live   limits over a trailing window of stream time, kept in two      *)
(*          pruned lists: what was spent at which stream time, and when    *)
(*          the stream head was where                                      *)
(***************************************************************************)
EXTENDS Integers, Sequences

CONSTANTS
  Workers,   \* callers of providers
  MaxCost,   \* cost ceiling (live: per window), 0: none
  MaxWall,   \* wall-clock limit (live: per window), 0: none
  Window,    \* ROLLING_WINDOW_SECS
  MinSpan,   \* shortest stream time the wall-clock rule divides by
  MaxHead,   \* bound: stream time
  MaxClock,  \* bound: wall time
  MaxSpend   \* bound: cost entries

VARIABLES
  mode,      \* "batch" or "live"
  calling,   \* workers with a call in flight
  spent,     \* total spend
  exhausted, \* the flag of a batch budget
  wall,      \* wall time since the start
  head,      \* stream time reached
  costs,     \* <<stream time, cost>>, oldest first, pruned
  heads,     \* <<stream time, wall time>> of each advance, oldest first, pruned
  allCosts,  \* history: costs, never pruned
  allHeads   \* history: heads, never pruned

vars == <<mode, calling, spent, exhausted, wall, head, costs, heads, allCosts, allHeads>>
live == <<head, costs, heads, allCosts, allHeads>>

Init ==
  /\ mode \in {"batch", "live"}
  /\ calling = {} /\ spent = 0 /\ exhausted = FALSE /\ wall = 0 /\ head = 0
  /\ costs = <<>> /\ heads = <<>> /\ allCosts = <<>> /\ allHeads = <<>>

InWindow(entry) == entry[1] > head - Window

SpentInWindow(entries) ==
  LET sum[k \in 0..Len(entries)] ==
        IF k = 0 THEN 0
        ELSE sum[k - 1] + (IF InWindow(entries[k]) THEN entries[k][2] ELSE 0)
  IN sum[Len(entries)]

(* Budget::rolling_over, over a list of costs and a list of heads.         *)
CostOver(entries) == MaxCost > 0 /\ SpentInWindow(entries) >= MaxCost
WallOver(since) ==
  LET span == IF head - since[1] > MinSpan THEN head - since[1] ELSE MinSpan IN
  MaxWall > 0 /\ (wall - since[2]) * Window > MaxWall * span
RollingOver == CostOver(costs) \/ (heads # <<>> /\ WallOver(heads[1]))

BatchOver == (MaxCost > 0 /\ spent >= MaxCost) \/ (MaxWall > 0 /\ wall >= MaxWall)

(* Budget::allow_call.  A live budget opens again by itself.               *)
Allowed == IF mode = "live" THEN ~RollingOver ELSE ~exhausted /\ ~BatchOver

Call(w) ==
  /\ w \notin calling
  /\ exhausted' = (IF mode = "live" THEN RollingOver ELSE exhausted \/ BatchOver)
  /\ calling' = IF Allowed THEN calling \cup {w} ELSE calling
  /\ UNCHANGED <<mode, spent, wall, live>>

(* A call returns; add_cost books it at the stream head of now.            *)
Return(w) ==
  /\ w \in calling
  /\ calling' = calling \ {w}
  /\ \E usd \in 0..1 :
       IF usd = 0 \/ Len(allCosts) = MaxSpend
         THEN UNCHANGED <<spent, costs, allCosts>>
         ELSE /\ spent' = spent + usd
              /\ costs' = IF mode = "live" THEN Append(costs, <<head, usd>>) ELSE costs
              /\ allCosts' = Append(allCosts, <<head, usd>>)
  /\ UNCHANGED <<mode, exhausted, wall, head, heads, allHeads>>

(* Mutant: no head before the window is kept.                              *)
NoOldHeads(hs, floor) == SelectSeq(hs, LAMBDA h : h[1] > floor)

(* Budget::advance: the head moves on, and entries before the window go    *)
(* from the front, but for one head at or before its start.                *)
KeptHeads(hs, floor) ==
  LET first == CHOOSE k \in 1..Len(hs) :
                 /\ k = Len(hs) \/ hs[k + 1][1] > floor
                 /\ \A m \in 2..k : hs[m][1] <= floor
  IN SubSeq(hs, first, Len(hs))

KeptCosts(cs, floor) ==
  LET first == CHOOSE k \in 1..(Len(cs) + 1) :
                 /\ k = Len(cs) + 1 \/ cs[k][1] > floor
                 /\ \A m \in 1..(k - 1) : cs[m][1] <= floor
  IN SubSeq(cs, first, Len(cs))

Advance(t) ==
  /\ mode = "live"
  /\ t > head \/ heads = <<>>
  /\ head' = t
  /\ heads' = KeptHeads(Append(heads, <<t, wall>>), t - Window)
  /\ allHeads' = Append(allHeads, <<t, wall>>)
  /\ costs' = KeptCosts(costs, t - Window)
  /\ UNCHANGED <<mode, calling, spent, exhausted, wall, allCosts>>

Tick ==
  /\ wall < MaxClock
  /\ wall' = wall + 1
  /\ UNCHANGED <<mode, calling, spent, exhausted, live>>

Next ==
  \/ Tick
  \/ \E t \in head..MaxHead : Advance(t)
  \/ \E w \in Workers : Call(w) \/ Return(w)

Spec == Init /\ [][Next]_vars

-----------------------------------------------------------------------------
(* The window as the whole history tells it: the costs booked in it, and   *)
(* the time since the last head at or before its start (else the first).   *)
ReallySince ==
  LET before == {k \in DOMAIN allHeads : allHeads[k][1] <= head - Window} IN
  allHeads[IF before = {} THEN 1 ELSE CHOOSE k \in before : \A m \in before : m <= k]

ReallyOver ==
  IF mode = "live"
    THEN CostOver(allCosts) \/ (allHeads # <<>> /\ WallOver(ReallySince))
    ELSE BatchOver

(* Pruning loses nothing: a live budget is closed exactly while the spend  *)
(* or the wall time of its trailing window is over the limit, so that it   *)
(* opens again, and not too early (operator.rs:451, for_live).             *)
WindowIsExact == mode = "live" => (Allowed <=> ~ReallyOver)

(* Once a batch budget refused a call it refuses every call, whatever is   *)
(* still in flight; and over the limit no call starts in either mode.      *)
ClosedStaysClosed ==
  [][ReallyOver \/ (mode = "batch" /\ exhausted) => calling' \subseteq calling]_vars
=============================================================================
