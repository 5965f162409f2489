--------------------------- MODULE CustomOperators ---------------------------
(***************************************************************************)
(* Operators from outside the core: how a policy's names become a graph of *)
(* operators (vi-pipeline/src/scheduler.rs: plan_with; dag.rs: build), and *)
(* how the rows a callback returns are stored and sent along that graph    *)
(* (vi-pipeline/src/callback.rs; bindings/python/src/callback.rs; run_stage*)
(* and Emitter).  An operator is its declaration: an id, the kinds it      *)
(* takes, those of them it can do without, the kinds it gives, and the     *)
(* provider role it needs.                                                 *)
(***************************************************************************)
EXTENDS Naturals, Sequences, FiniteSets, Functions

CONSTANTS
  Available,     \* by name: the declarations this build constructs
  Custom,        \* by name: the declarations registered from outside
  Planned,       \* names of the design that nothing constructs yet
  Full, Local,   \* the operators of the policies coarse_only and coarse_local
  RolesFor,      \* the roles the config looks for, by operator name
  Needed,        \* the operator that gives what vlm_describe describes
  Bindings,      \* bound: sets of roles with a provider
  MaxOps,        \* bound: operators of a policy
  MaxCalls       \* bound: items the custom operator is called with

VARIABLES
  bound,         \* roles with a provider
  policy,        \* the names, coarse then fine; none is named: Auto
  phase,         \* "plan", "sort", "run", "store", "emit", "ended" or "refused"
  ops,           \* the declarations, in policy order
  indeg,         \* producers not yet placed, by operator
  ready,         \* operators whose producers are placed: a stack
  order,         \* operators placed
  custom,        \* the custom operator whose calls are followed
  rows,          \* what its call returned, not yet through: [n, kind]
  calls,
  declared,      \* whether a provenance row says where the rows come from
  stored,        \* rows in the index
  sent,          \* rows sent on
  got            \* rows received, by operator

vars == <<bound, policy, phase, ops, indeg, ready, order, custom, rows, calls, declared,
          stored, sent, got>>
Graph == <<bound, policy, ops, indeg, ready, order>>
Flow == <<custom, rows, calls, declared, stored, sent, got>>

Auto == <<"auto">>
NamesInUse == DOMAIN Available \cup DOMAIN Custom \cup Planned \cup {"typo"}
RowKinds == {"transcript_span", "shot", "description"}

Init ==
  /\ bound \in Bindings
  /\ policy \in (UNION {[1..n -> NamesInUse] : n \in 0..MaxOps}) \cup {Auto}
  /\ phase = "plan" /\ ops = <<>> /\ indeg = <<>> /\ ready = <<>> /\ order = <<>>
  /\ custom = 0 /\ rows = <<>> /\ calls = 0 /\ declared = FALSE
  /\ stored = {} /\ sent = {} /\ got = <<>>

-----------------------------------------------------------------------------
Ops == DOMAIN ops

\* The last operator that gives a kind.
LastProducer(k) ==
  {i \in Ops : k \in ops[i].gives /\ \A j \in Ops : k \in ops[j].gives => j <= i}

Producers(k) == {i \in Ops : k \in ops[i].gives}

IsRoot(i) == "media" \in ops[i].takes
Deps(i) == UNION {Producers(k) : k \in ops[i].takes \ {"media"}}
Consumers(i) == {j \in Ops : i \in Deps(j)}

\* A custom operator replaces the built-in one of its name.
Declaration(name) == IF name \in DOMAIN Custom THEN Custom[name] ELSE Available[name]
Known(name) == name \in DOMAIN Custom \cup DOMAIN Available

\* resolve_default_policy: all of the coarse operators when their roles are bound.
DefaultPolicy ==
  IF \A i \in DOMAIN Full : RolesFor[Full[i]] \subseteq bound THEN Full ELSE Local
Chosen == IF policy = Auto THEN DefaultPolicy ELSE policy

\* IndexPolicy::validate: what vlm_describe describes is made by the policy.
Valid(names) == "vlm_describe" \in Range(names) => Needed \in Range(names)

\* plan_with: every name constructs an operator and every role has a provider.
Plannable(names) ==
  /\ names # <<>> /\ Valid(names)
  /\ \A i \in DOMAIN names : Known(names[i]) /\ Declaration(names[i]).roles \subseteq bound
Resolve ==
  /\ phase = "plan" /\ ops = <<>>
  /\ IF Plannable(Chosen)
     THEN ops' = [i \in DOMAIN Chosen |-> Declaration(Chosen[i])] /\ UNCHANGED phase
     ELSE phase' = "refused" /\ UNCHANGED ops
  /\ UNCHANGED <<bound, policy, indeg, ready, order, Flow>>

\* The operators of a set in policy order.
InPolicyOrder(set) ==
  CHOOSE s \in [1..Cardinality(set) -> set] : \A i, j \in DOMAIN s : i < j => s[i] < s[j]

\* Dag::build: ids differ, each kind taken is given, an operator has some input.
Fed(i) ==
  /\ \A k \in ops[i].takes \ ({"media"} \cup ops[i].optional) : Producers(k) # {}
  /\ IsRoot(i) \/ Deps(i) # {}

CountDeps ==
  /\ phase = "plan" /\ ops # <<>>
  /\ IF IsInjective([i \in Ops |-> ops[i].id]) /\ \A i \in Ops : Fed(i)
     THEN /\ indeg' = [i \in Ops |-> Cardinality(Deps(i))]
          /\ ready' = InPolicyOrder({i \in Ops : Deps(i) = {}})
          /\ phase' = "sort"
     ELSE phase' = "refused" /\ UNCHANGED <<indeg, ready>>
  /\ UNCHANGED <<bound, policy, ops, order, Flow>>

\* Kahn's algorithm: place the operator readied last.
Place ==
  /\ phase = "sort" /\ ready # <<>>
  /\ LET i == ready[Len(ready)]
         freed == InPolicyOrder({j \in Ops : i \in Deps(j) /\ indeg[j] = 1})
     IN /\ order' = Append(order, i)
        /\ indeg' = [j \in Ops |-> IF i \in Deps(j) THEN indeg[j] - 1 ELSE indeg[j]]
        /\ ready' = SubSeq(ready, 1, Len(ready) - 1) \o freed
  /\ UNCHANGED <<bound, policy, phase, ops, Flow>>

\* Every operator placed: the graph runs.  A custom one is looked at, if there is any.
Placed ==
  /\ phase = "sort" /\ ready = <<>>
  /\ IF Len(order) = Len(ops)
     THEN /\ phase' = "run" /\ got' = [i \in Ops |-> {}]
          /\ \E i \in Ops : custom' = i /\
               (ops[i] \in {Custom[n] : n \in DOMAIN Custom} \/
                \A j \in Ops : ops[j] \notin {Custom[n] : n \in DOMAIN Custom})
     ELSE phase' = "refused" /\ UNCHANGED <<custom, got>>
  /\ UNCHANGED <<Graph, rows, calls, declared, stored, sent>>

-----------------------------------------------------------------------------
IsCustom == ops[custom] \in {Custom[n] : n \in DOMAIN Custom}

\* run or finish of the callback: rows, or an exception.  The job's provenance is
\* written on the first rows.  A kind the operator did not declare fails the stage
\* before any row of the call is stored.
Call ==
  /\ phase = "run" /\ IsCustom /\ calls < MaxCalls
  /\ calls' = calls + 1
  /\ \E kinds \in UNION {[1..n -> RowKinds] : n \in 0..2} :
       LET new == [i \in DOMAIN kinds |-> [n |-> 10 * calls + i, kind |-> kinds[i]]]
       IN IF \E i \in DOMAIN kinds : kinds[i] \notin ops[custom].gives
          THEN phase' = "ended" /\ declared' = TRUE /\ UNCHANGED rows
          ELSE /\ rows' = new
               /\ declared' = (declared \/ kinds # <<>>)
               /\ phase' = IF kinds = <<>> THEN "run" ELSE "store"
  /\ UNCHANGED <<Graph, custom, stored, sent, got>>

Raise ==
  /\ phase = "run" /\ phase' = "ended" /\ UNCHANGED <<Graph, Flow>>

\* store_rows writes the spans, then the segments, then the descriptions; a write that
\* fails ends the stage, and what was written before stays.
Group(kind) == {rows[i] : i \in {i \in DOMAIN rows : rows[i].kind = kind}}
Before(kind) == CASE kind = "transcript_span" -> {} [] kind = "shot" -> {"transcript_span"}
                  [] OTHER -> {"transcript_span", "shot"}

Store(kind) ==
  /\ phase = "store" /\ Group(kind) \ stored # {}
  /\ \A k \in Before(kind) : Group(k) \subseteq stored
  /\ \/ stored' = stored \cup Group(kind)
        /\ phase' = IF Range(rows) \subseteq stored' THEN "emit" ELSE "store"
     \/ phase' = "ended" /\ UNCHANGED stored
  /\ UNCHANGED <<Graph, custom, rows, calls, declared, sent, got>>

\* Emitter: to each consumer that takes the kind.  A cancelled job emits no more.
Emit ==
  /\ phase = "emit" /\ rows # <<>>
  /\ sent' = sent \cup {Head(rows)}
  /\ got' = [j \in Ops |->
       IF j \in Consumers(custom) /\ Head(rows).kind \in ops[j].takes
       THEN got[j] \cup {Head(rows)} ELSE got[j]]
  /\ rows' = Tail(rows)
  /\ phase' = IF Tail(rows) = <<>> THEN "run" ELSE "emit"
  /\ UNCHANGED <<Graph, custom, calls, declared, stored>>

Cancel ==
  /\ phase \in {"store", "emit"} /\ phase' = "ended" /\ UNCHANGED <<Graph, Flow>>

Next ==
  \/ Resolve \/ CountDeps \/ Place \/ Placed
  \/ Call \/ Raise \/ Emit \/ Cancel
  \/ \E kind \in RowKinds : Store(kind)

Spec == Init /\ [][Next]_vars

-----------------------------------------------------------------------------
Gives(i, j) == ops[i].gives \cap ops[j].takes # {}

\* An order in which every operator follows those that give what it takes.
Orderly(o) == \A a, b \in DOMAIN o : Gives(o[a], o[b]) => a < b

Sound ==
  /\ ops # <<>> /\ IsInjective([i \in Ops |-> ops[i].id])
  /\ \A i \in Ops : ops[i].takes \cap ({"media"} \cup UNION {ops[j].gives : j \in Ops}) # {}
  /\ \A i \in Ops : ops[i].takes \subseteq
       {"media"} \cup ops[i].optional \cup UNION {ops[j].gives : j \in Ops}
  /\ \E o \in [Ops -> Ops] : IsInjective(o) /\ Orderly(o)

(* A job that names no policy is never refused, whatever roles are bound   *)
(* (config.rs: resolve_default_policy beside each operator's own roles).   *)
(* A policy is refused exactly when its operators cannot be put in an order*)
(* in which everything they take is given; when it runs, a row a custom    *)
(* operator sends is in the index with its provenance, and has reached each*)
(* operator of the job that takes its kind, whoever else gives that kind:  *)
(* none was declared away from the graph (callback.rs: store_rows, "the    *)
(* DAG was built from that declaration").                                  *)
RowsReachTheirReaders ==
  /\ phase = "refused" => ~Sound /\ policy # Auto
  /\ phase \in {"run", "store", "emit"} =>
       /\ Sound /\ Orderly(order)
       /\ sent \subseteq stored /\ (stored # {} => declared)
       /\ \A r \in sent, j \in Ops : r.kind \in ops[j].takes => r \in got[j]
=============================================================================
