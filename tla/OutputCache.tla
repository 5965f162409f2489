----------------------------- MODULE OutputCache -----------------------------
(***************************************************************************)
(* The operator output cache over the history of one video: indexing jobs  *)
(* with different policies, --force, changing operator parameters (model,  *)
(* prompt, thresholds), failing stages and killed processes.               *)
(*                                                                         *)
(* A stage's marker is a file named after its cache key: the content hash, *)
(* the operator and its parameters.  Here the video and the operator are   *)
(* fixed, so a key is <<stage, parameters>>.  Nothing ever removes one.    *)
(* The rows a stage leaves in the index are one set: a re-run replaces     *)
(* them whatever the key they were computed under.  The module is about    *)
(* how far the two tell the same story.                                    *)
(*                                                                         *)
(* Inside a job the stages run as in Pipeline: all at once, a stage ends   *)
(* after its producers, and the collector joins them in order.             *)
(***************************************************************************)
EXTENDS Naturals, FiniteSets, CachePlan

CONSTANTS
  N,             \* number of stages
  Consumers,     \* Consumers[p]: the stages that take an output of stage p
  Replayable,    \* the stages whose operator supports replay
  Policies,      \* the sets of stages a job may be run with
  MaxParams,     \* bound: parameters are numbered 1..MaxParams
  ParamsReturn,  \* whether a configuration may go back to earlier parameters
  MaxJobs,       \* bound on the number of jobs
  MayForce,      \* whether jobs may be run with --force
  MayFail,       \* whether a stage may fail, or have failed or skipped inputs
  MayCrash       \* whether the process may be killed

Stages == 1..N
Params == 1..MaxParams

ASSUME NAssumption == N \in Nat \ {0}
ASSUME WiringAssumption ==
  /\ Consumers \in [Stages -> SUBSET Stages]
  /\ \A p \in Stages : \A c \in Consumers[p] : p < c
  /\ Replayable \subseteq Stages
ASSUME PoliciesAssumption == Policies \subseteq SUBSET Stages
ASSUME BoundsAssumption == MaxParams \in Nat \ {0} /\ MaxJobs \in Nat
ASSUME SwitchesAssumption == {ParamsReturn, MayForce, MayFail, MayCrash} \subseteq BOOLEAN

VARIABLES
  params,   \* params[s]: the parameters the configuration gives stage s
  markers,  \* the markers in the cache directory: pairs <<stage, parameters>>
  rows,     \* rows[s]: the rows stage s has in the index
  jobs,     \* jobs started
  running,  \* a job is running
  policy,   \* its stages (or those of the last job)
  forced,   \* it was run with --force
  plan,     \* its plan
  task,     \* task[s]: how far the task of stage s is
  joined,   \* the stages whose task the collector has joined
  report    \* what the last job reported: "none", "ok" or "failed"

vars == <<params, markers, rows, jobs, running, policy, forced, plan, task, joined, report>>

(* A stage's rows: the parameters they were computed with, whether the     *)
(* computation went through, whether the rows they were computed from are  *)
(* still the producers' rows, and whether the computation did without the  *)
(* items of a producer that was skipped.                                   *)
Rows == [params : Params \cup {0}, whole : BOOLEAN, current : BOOLEAN, starved : BOOLEAN]
RowsUnder(k) == [params |-> k, whole |-> FALSE, current |-> FALSE, starved |-> FALSE]
NoRows == RowsUnder(0)

Tasks == {"none", "waiting", "working", "ok", "partial", "failed"}
Ended(s) == task[s] \in {"ok", "partial", "failed"}

Active == {s \in policy : plan[s] # "skip"}
Producers(s) == {p \in policy : s \in Consumers[p]}

(* The wiring Dag::build gives the stages of a policy. *)
Wiring(q) == [p \in Stages |-> IF p \in q THEN Consumers[p] \cap q ELSE {}]

Init ==
  /\ params = [s \in Stages |-> 1]
  /\ markers = {}
  /\ rows = [s \in Stages |-> NoRows]
  /\ jobs = 0
  /\ running = FALSE
  /\ policy = {}
  /\ forced = FALSE
  /\ plan = [s \in Stages |-> "skip"]
  /\ task = [s \in Stages |-> "none"]
  /\ joined = {}
  /\ report = "none"

-----------------------------------------------------------------------------
(* The user edits the configuration between jobs. *)
Configure(s, k) ==
  /\ ~running
  /\ k # params[s]
  /\ ParamsReturn \/ k > params[s]
  /\ params' = [params EXCEPT ![s] = k]
  /\ report' = "none"
  /\ UNCHANGED <<markers, rows, jobs, running, policy, forced, plan, task, joined>>

(* Mutants: the key leaves the parameters out; --force is not heeded. *)
CachedAnyParams(q, force) ==
  IF force THEN {} ELSE {s \in q : \E k \in Params : <<s, k>> \in markers}

CachedEvenForced(q, force) == {s \in q : <<s, params[s]>> \in markers}

(* A job looks its markers up, unless forced, and plans its stages.        *)
Cached(q, force) == IF force THEN {} ELSE {s \in q : <<s, params[s]>> \in markers}

StartJob(q, force) ==
  /\ ~running
  /\ jobs < MaxJobs
  /\ jobs' = jobs + 1
  /\ running' = TRUE
  /\ policy' = q
  /\ forced' = force
  /\ plan' = PlanFor(N, Wiring(q), Cached(q, force) \cup (Stages \ q), Replayable)
  /\ task' = [s \in Stages |-> IF s \in q /\ plan'[s] # "skip" THEN "waiting" ELSE "none"]
  /\ joined' = {}
  /\ report' = "ok"
  /\ UNCHANGED <<params, markers, rows>>

(* A running stage starts to rewrite its rows; what others computed from   *)
(* the old ones is out of date from here on.                               *)
BeginStage(s) ==
  /\ running
  /\ task[s] = "waiting"
  /\ task' = [task EXCEPT ![s] = "working"]
  /\ rows' = IF plan[s] = "run"
               THEN [r \in Stages |->
                       IF r = s THEN RowsUnder(params[s])
                       ELSE IF r \in Consumers[s] THEN [rows[r] EXCEPT !.current = FALSE]
                       ELSE rows[r]]
               ELSE rows
  /\ UNCHANGED <<params, markers, jobs, running, policy, forced, plan, joined, report>>

(* A stage reaches its end after its producers have.  "partial" is a stage *)
(* that went past failed inputs or inputs it skipped for the budget.  A    *)
(* replayed producer sends its rows again, a skipped one sends nothing.    *)
EndStage(s) ==
  /\ running
  /\ task[s] = "working"
  /\ \A p \in Producers(s) \cap Active : Ended(p)
  /\ \E end \in {"ok"} \cup (IF MayFail /\ plan[s] = "run" THEN {"partial"} ELSE {}) :
       /\ task' = [task EXCEPT ![s] = end]
       /\ rows' = IF plan[s] # "run" THEN rows
                  ELSE [rows EXCEPT ![s] =
                          [params  |-> rows[s].params,
                           whole   |-> /\ end = "ok"
                                       /\ \A p \in Producers(s) \cap Active : task[p] # "failed",
                           current |-> TRUE,
                           starved |-> \E p \in Producers(s) : plan[p] = "skip"]]
  /\ UNCHANGED <<params, markers, jobs, running, policy, forced, plan, joined, report>>

(* An error of the stage, or the cancellation that another stage's failure *)
(* (or the caller) caused.  The rows stay as they are.                     *)
FailStage(s) ==
  /\ running
  /\ MayFail
  /\ task[s] \in {"waiting", "working"}
  /\ task' = [task EXCEPT ![s] = "failed"]
  /\ UNCHANGED <<params, markers, rows, jobs, running, policy, forced, plan, joined, report>>

(* Mutant: a stage that missed inputs is remembered. *)
CollectPartial(s) ==
  /\ running
  /\ s \in Active \ joined
  /\ \A r \in Active \ joined : s <= r
  /\ Ended(s)
  /\ joined' = joined \cup {s}
  /\ markers' = IF task[s] # "failed" THEN markers \cup {<<s, params[s]>>} ELSE markers
  /\ report' = IF task[s] = "failed" THEN "failed" ELSE report
  /\ UNCHANGED <<params, rows, jobs, running, policy, forced, plan, task>>

(* The collector joins the next task and writes its marker.                *)
Collect(s) ==
  /\ running
  /\ s \in Active \ joined
  /\ \A r \in Active \ joined : s <= r
  /\ Ended(s)
  /\ joined' = joined \cup {s}
  /\ markers' = IF task[s] = "ok" THEN markers \cup {<<s, params[s]>>} ELSE markers
  /\ report' = IF task[s] = "failed" THEN "failed" ELSE report
  /\ UNCHANGED <<params, rows, jobs, running, policy, forced, plan, task>>

FinishJob ==
  /\ running
  /\ joined = Active
  /\ running' = FALSE
  /\ UNCHANGED <<params, markers, rows, jobs, policy, forced, plan, task, joined, report>>

(* The process is killed.  Markers and rows are on disk.                   *)
Crash ==
  /\ MayCrash
  /\ running
  /\ running' = FALSE
  /\ report' = "none"
  /\ UNCHANGED <<params, markers, rows, jobs, policy, forced, plan, task, joined>>

Next ==
  \/ \E s \in Stages, k \in Params : Configure(s, k)
  \/ \E q \in Policies, force \in BOOLEAN : (force => MayForce) /\ StartJob(q, force)
  \/ \E s \in Stages : BeginStage(s) \/ EndStage(s) \/ FailStage(s) \/ Collect(s)
  \/ FinishJob
  \/ Crash

Spec == Init /\ [][Next]_vars

-----------------------------------------------------------------------------
TypeOK ==
  /\ params \in [Stages -> Params]
  /\ markers \subseteq Stages \X Params
  /\ rows \in [Stages -> Rows]
  /\ jobs \in 0..MaxJobs
  /\ running \in BOOLEAN
  /\ policy \in SUBSET Stages
  /\ forced \in BOOLEAN
  /\ plan \in [Stages -> Plan]
  /\ task \in [Stages -> Tasks]
  /\ joined \subseteq Stages
  /\ report \in {"none", "ok", "failed"}

(* The last job said it was successful, and nothing changed since. *)
Succeeded == ~running /\ report = "ok"

Whole(s) == rows[s].whole /\ rows[s].params = params[s]
Fresh(s) == Whole(s) /\ rows[s].current

(* What a user takes a successful job for: the rows of every stage of the  *)
(* policy are complete, computed with the configured parameters and from   *)
(* the producers' present rows.  It holds while nothing fails, every job   *)
(* uses one policy and parameters only ever change to new ones: then the   *)
(* plan of run_prepared re-runs what a change reaches.  Only a stage with  *)
(* several producers can have done without the items of one of them (the   *)
(* last loop of the plan makes it run for another).                        *)
SuccessMeansFresh ==
  Succeeded => \A s \in policy :
                 /\ Fresh(s)
                 /\ rows[s].starved => \E p, q \in Producers(s) : p # q

(* --force is the way out of every history, as docs/05 recommends after a  *)
(* killed job: when a forced job succeeds, its stages are fresh, except    *)
(* the rows of stages that had failed or skipped inputs, and no stage did  *)
(* without a producer.                                                     *)
ForceHeals ==
  Succeeded /\ forced =>
    \A s \in policy : /\ rows[s].params = params[s]
                      /\ rows[s].current /\ ~rows[s].starved
                      /\ rows[s].whole \/ task[s] = "partial"

(* A stage that had failed or skipped inputs is tried again: only a whole  *)
(* run is remembered, and as long as a stage has no such run with its      *)
(* parameters, no job that includes it skips or replays it.                *)
PartialIsRetried ==
  [][\A s \in Stages :
       /\ task[s] # "ok" => \A k \in Params : <<s, k>> \in markers' => <<s, k>> \in markers
       /\ ~running /\ running' /\ s \in policy' /\ <<s, params[s]>> \notin markers
            => plan'[s] = "run"]_vars

(* A job that ran every stage to a whole end is remembered: the same job   *)
(* again, without --force, has nothing to do.                              *)
SuccessIsRemembered ==
  Succeeded /\ (\A s \in policy : task[s] # "partial") =>
    \A s \in policy : <<s, params[s]>> \in markers

(* The comment in run_prepared: "A marker means these outputs are in the   *)
(* index" (looked at between jobs).                                        *)
MarkerMeansOutputs ==
  ~running => \A s \in Stages : <<s, params[s]>> \in markers => Whole(s)
=============================================================================
