------------------------------- MODULE Pipeline -------------------------------
(***************************************************************************)
(* One indexing job from the wired DAG to its report: the stage tasks      *)
(* (run_stage), the bounded channels between them (Emitter, tokio mpsc),   *)
(* the cancellation that a failing stage triggers, and the loop of         *)
(* Scheduler::run_prepared that joins the tasks in topological order,      *)
(* records their status, writes cache markers and closes the job.          *)
(*                                                                         *)
(* Stages are numbered in topological order.  An item is the pair of its   *)
(* producer and its number among that producer's items; the media item the *)
(* scheduler seeds is item 1 of the pseudo-producer Media.                 *)
(***************************************************************************)
EXTENDS Integers, Sequences, FiniteSets

CONSTANTS
  N,            \* number of stages
  Consumers,    \* Consumers[p]: the stages that take an output of stage p
  Roots,        \* the stages that take the media item
  Plans,        \* the cache plans to start from (StagePlan computes one)
  Capacity,     \* channel capacity: max_in_flight_frames / 2, in 2..16
  MaxEmit,      \* bound: MaxEmit[s] items at most are emitted by stage s
  Outcomes,     \* Outcomes[s]: what handling one item can come to
  MayError,     \* the stages whose operator can return an error
  MayPanic,     \* the stages whose operator can panic
  MayCancel,    \* whether the caller may cancel the job
  CheckpointMayFail, \* whether writing a job checkpoint can fail
  LiveModes,    \* the values of JobOptions.live to start with
  HasFine,      \* whether the policy has fine operators
  InitialStates \* index states the video can have when the job starts

Stages == 1..N
Media == 0
Outcome == {"ok", "stored", "failed", "skipped"}
IndexState == {"acquired", "coarse", "fine", "failed"}

ASSUME NAssumption == N \in Nat \ {0}
ASSUME WiringAssumption ==
  /\ Consumers \in [Stages -> SUBSET Stages]
  /\ \A p \in Stages : \A c \in Consumers[p] : p < c
  /\ Roots \subseteq Stages
ASSUME PlansAssumption == Plans \subseteq [Stages -> {"run", "replay", "skip"}]
ASSUME BoundsAssumption ==
  /\ Capacity \in Nat \ {0}
  /\ MaxEmit \in [Stages -> Nat]
ASSUME FaultsAssumption ==
  /\ Outcomes \in [Stages -> SUBSET Outcome]
  /\ MayError \subseteq Stages
  /\ MayPanic \subseteq Stages
  /\ MayCancel \in BOOLEAN
  /\ CheckpointMayFail \in BOOLEAN
  /\ LiveModes \subseteq BOOLEAN
  /\ HasFine \in BOOLEAN
  /\ InitialStates \subseteq IndexState

VARIABLES
  plan,      \* what each stage does; fixed for the job
  live,      \* whether the job is a live one; fixed too
  chan,      \* chan[s]: the items waiting for stage s
  pc,        \* where the task of stage s is
  todo,      \* todo[s]: consumers the item being emitted has not reached
  emitted,   \* emitted[s]: items stage s has emitted
  got,       \* got[s][p]: items of p that stage s has received
  tally,     \* tally[s]: the outcomes stage s recorded
  res,       \* res[s]: what run_stage returned
  cancelled, \* the job's cancellation token
  status,    \* status[s]: the stage's status in the job report
  marked,    \* the stages whose cache marker this job wrote
  ok,        \* the job's success so far
  report,    \* "running", "finished", or "aborted" (run_prepared failed)
  indexState \* the video's index state

stageVars == <<chan, pc, todo, emitted, got, tally, res>>
jobVars == <<status, marked, ok, report, indexState>>
vars == <<plan, live, stageVars, cancelled, jobVars>>

Producers(s) == {p \in Stages : s \in Consumers[p]}
Active == {s \in Stages : plan[s] # "skip"}

Item == (Stages \cup {Media}) \X Nat

(* The task has let go of its receiver and of its emitter. *)
Gone(s) == pc[s] \in {"returned", "done", "panicked"}

(* The consumers that have a channel: a skipped stage has none. *)
Targets(s) == Consumers[s] \cap Active

Seeded(s) == s \in Active /\ (s \in Roots \/ plan[s] = "replay")

Init ==
  /\ plan \in Plans
  /\ live \in LiveModes
  /\ chan = [s \in Stages |-> IF Seeded(s) THEN <<<<Media, 1>>>> ELSE <<>>]
  /\ pc = [s \in Stages |-> IF s \in Active THEN "recv" ELSE "skipped"]
  /\ todo = [s \in Stages |-> {}]
  /\ emitted = [s \in Stages |-> 0]
  /\ got = [s \in Stages |-> [p \in Stages \cup {Media} |-> 0]]
  /\ tally = [s \in Stages |-> {}]
  /\ res = [s \in Stages |-> "none"]
  /\ cancelled = FALSE
  /\ status = [s \in Stages |-> IF s \in Active THEN "pending" ELSE "skipped"]
  /\ marked = {}
  /\ ok = TRUE
  /\ report = "running"
  /\ indexState \in InitialStates

-----------------------------------------------------------------------------
(* The body of run_stage returned r: the receiver is closed, and with the  *)
(* context the stage's senders are dropped.  The job is not cancelled yet. *)
Return(s, r) ==
  /\ pc' = [pc EXCEPT ![s] = "returned"]
  /\ res' = [res EXCEPT ![s] = r]
  /\ chan' = [chan EXCEPT ![s] = <<>>]
  /\ UNCHANGED <<todo, emitted, got, tally>>

(* The select between cancellation and the channel is biased: a cancelled  *)
(* stage receives nothing more.                                            *)
RecvCancelled(s) ==
  /\ pc[s] = "recv"
  /\ cancelled
  /\ Return(s, "cancelled")

(* A running stage hands the item to its operator; a replaying one answers *)
(* the first media item by re-emitting its rows and ignores anything else. *)
Recv(s) ==
  /\ pc[s] = "recv"
  /\ ~cancelled
  /\ chan[s] # <<>>
  /\ LET p == Head(chan[s])[1]
     IN /\ chan' = [chan EXCEPT ![s] = Tail(@)]
        /\ got' = [got EXCEPT ![s][p] = @ + 1]
        /\ pc' = [pc EXCEPT ![s] =
                    IF plan[s] = "run" \/ (p = Media /\ got[s][Media] = 0)
                      THEN "run" ELSE "recv"]
  /\ UNCHANGED <<todo, emitted, tally, res>>

(* Mutants: an empty channel is taken for a closed one; the channels of    *)
(* panicked producers keep their senders.                                  *)
RecvEmpty(s) ==
  /\ pc[s] = "recv"
  /\ ~cancelled
  /\ chan[s] = <<>>
  /\ pc' = [pc EXCEPT ![s] = "finish"]
  /\ UNCHANGED <<chan, todo, emitted, got, tally, res>>

RecvClosedByReturn(s) ==
  /\ pc[s] = "recv"
  /\ ~cancelled
  /\ chan[s] = <<>>
  /\ \A p \in Producers(s) \cap Active : pc[p] \in {"returned", "done"}
  /\ IF plan[s] = "run"
       THEN /\ pc' = [pc EXCEPT ![s] = "finish"]
            /\ UNCHANGED <<chan, todo, emitted, got, tally, res>>
       ELSE Return(s, "ok")

(* recv() gives None: the channel is empty and every sender is gone.       *)
RecvClosed(s) ==
  /\ pc[s] = "recv"
  /\ ~cancelled
  /\ chan[s] = <<>>
  /\ \A p \in Producers(s) \cap Active : Gone(p)
  /\ IF plan[s] = "run"
       THEN /\ pc' = [pc EXCEPT ![s] = "finish"]
            /\ UNCHANGED <<chan, todo, emitted, got, tally, res>>
       ELSE Return(s, "ok")

InOperator(s) == pc[s] \in {"run", "finish"} /\ todo[s] = {}

(* OpContext::emit refuses when the job is cancelled, and the operator     *)
(* passes the error on.                                                    *)
Emit(s) ==
  /\ InOperator(s)
  /\ emitted[s] < MaxEmit[s]
  /\ ~cancelled
  /\ emitted' = [emitted EXCEPT ![s] = @ + 1]
  /\ todo' = [todo EXCEPT ![s] = Targets(s)]
  /\ UNCHANGED <<chan, pc, got, tally, res>>

(* Mutant: a full channel loses the item (try_send). *)
SendOrDrop(s) ==
  \E c \in todo[s] :
    /\ \A d \in todo[s] : c <= d
    /\ chan' = IF Gone(c) \/ Len(chan[c]) >= Capacity THEN chan
               ELSE [chan EXCEPT ![c] = Append(@, <<s, emitted[s]>>)]
    /\ todo' = [todo EXCEPT ![s] = @ \ {c}]
    /\ UNCHANGED <<pc, emitted, got, tally, res>>

(* Emitter::emit sends to its consumers one after the other, in order,     *)
(* waits while a channel is full, and passes over a consumer that is gone. *)
Send(s) ==
  \E c \in todo[s] :
    /\ \A d \in todo[s] : c <= d
    /\ \/ /\ Gone(c)
          /\ UNCHANGED chan
       \/ /\ ~Gone(c)
          /\ Len(chan[c]) < Capacity
          /\ chan' = [chan EXCEPT ![c] = Append(@, <<s, emitted[s]>>)]
    /\ todo' = [todo EXCEPT ![s] = @ \ {c}]
    /\ UNCHANGED <<pc, emitted, got, tally, res>>

(* Operator::run (or replay) returns; the operator may have recorded a     *)
(* failed input, inputs skipped for the budget, or stored rows.            *)
RunReturns(s) ==
  /\ InOperator(s)
  /\ pc[s] = "run"
  /\ pc' = [pc EXCEPT ![s] = "recv"]
  /\ \E o \in Outcomes[s] :
       tally' = IF plan[s] = "run" THEN [tally EXCEPT ![s] = @ \cup {o}] ELSE tally
  /\ UNCHANGED <<chan, todo, emitted, got, res>>

FinishReturns(s) ==
  /\ InOperator(s)
  /\ pc[s] = "finish"
  /\ Return(s, "ok")

(* The operator gives up: an error of its own, or the cancellation it met  *)
(* in emit or check_cancelled.                                             *)
OperatorFails(s) ==
  /\ InOperator(s)
  /\ \/ s \in MayError /\ Return(s, "err")
     \/ cancelled /\ Return(s, "cancelled")

(* A panic unwinds the task: its channels go, nobody cancels the job.      *)
Panic(s) ==
  /\ InOperator(s)
  /\ s \in MayPanic
  /\ pc' = [pc EXCEPT ![s] = "panicked"]
  /\ chan' = [chan EXCEPT ![s] = <<>>]
  /\ UNCHANGED <<todo, emitted, got, tally, res>>

(* The spawned block after run_stage: a failing stage cancels the job.     *)
TaskEnds(s) ==
  /\ pc[s] = "returned"
  /\ pc' = [pc EXCEPT ![s] = "done"]
  /\ cancelled' = (cancelled \/ res[s] # "ok")
  /\ UNCHANGED <<chan, todo, emitted, got, tally, res>>

StageStep(s) ==
  /\ \/ /\ \/ RecvCancelled(s) \/ Recv(s) \/ RecvClosed(s)
           \/ Emit(s) \/ Send(s)
           \/ RunReturns(s) \/ FinishReturns(s) \/ OperatorFails(s) \/ Panic(s)
        /\ UNCHANGED cancelled
     \/ TaskEnds(s)
  /\ UNCHANGED <<plan, live, jobVars>>

UserCancel ==
  /\ MayCancel
  /\ ~cancelled
  /\ cancelled' = TRUE
  /\ UNCHANGED <<plan, live, stageVars, jobVars>>

-----------------------------------------------------------------------------
(* The tasks are joined in topological order. *)
NextHandle(s) ==
  /\ status[s] = "pending"
  /\ \A r \in Stages : r < s => status[r] # "pending"

(* Failures were recorded and nothing succeeded. *)
EveryInputFailed(s) ==
  "failed" \in tally[s] /\ emitted[s] = 0 /\ "stored" \notin tally[s]

Completes(s) ==
  \/ res[s] = "ok" /\ ~EveryInputFailed(s)
  \/ res[s] = "cancelled" /\ live

LeavesMarker(s) ==
  /\ res[s] = "ok" /\ ~EveryInputFailed(s)
  /\ ~live
  /\ tally[s] \cap {"failed", "skipped"} = {}

(* Join one task, record its status, checkpoint.  An error from the        *)
(* checkpoint ends run_prepared with the other tasks still running.        *)
Collect(s) ==
  /\ report = "running"
  /\ NextHandle(s)
  /\ pc[s] = "done"
  /\ status' = [status EXCEPT ![s] = IF Completes(s) THEN "complete" ELSE "failed"]
  /\ ok' = (ok /\ Completes(s))
  /\ marked' = IF LeavesMarker(s) THEN marked \cup {s} ELSE marked
  /\ report' \in IF CheckpointMayFail THEN {"running", "aborted"} ELSE {"running"}
  /\ UNCHANGED <<plan, live, stageVars, cancelled, indexState>>

(* Joining a panicked task ends run_prepared with an error. *)
JoinPanicked(s) ==
  /\ report = "running"
  /\ NextHandle(s)
  /\ pc[s] = "panicked"
  /\ report' = "aborted"
  /\ UNCHANGED <<plan, live, stageVars, cancelled, status, marked, ok, indexState>>

(* Every stage is cached: nothing runs, and a video that was not indexed   *)
(* becomes coarse.  Otherwise the state follows from the job.              *)
FinalState ==
  IF Active = {} THEN IF indexState \in {"acquired", "failed"} THEN "coarse"
                                                               ELSE indexState
  ELSE IF live THEN indexState
  ELSE IF ~ok THEN "failed"
  ELSE IF HasFine THEN "fine"
  ELSE "coarse"

FinishJob ==
  /\ report = "running"
  /\ \A s \in Stages : status[s] # "pending"
  /\ report' = "finished"
  /\ indexState' = FinalState
  /\ UNCHANGED <<plan, live, stageVars, cancelled, status, marked, ok>>

JobStep == (\E s \in Stages : Collect(s) \/ JoinPanicked(s)) \/ FinishJob

Next == (\E s \in Stages : StageStep(s)) \/ UserCancel \/ JobStep

Spec == Init /\ [][Next]_vars

(* Tokio polls every ready task and the job's own future; operators and    *)
(* provider calls return (every provider call has a timeout).              *)
Fairness == (\A s \in Stages : WF_vars(StageStep(s))) /\ WF_vars(JobStep)

FairSpec == Spec /\ Fairness

-----------------------------------------------------------------------------
TypeOK ==
  /\ plan \in Plans
  /\ live \in LiveModes
  /\ chan \in [Stages -> Seq(Item)]
  /\ pc \in [Stages -> {"skipped", "recv", "run", "finish", "returned", "done",
                        "panicked"}]
  /\ todo \in [Stages -> SUBSET Stages]
  /\ emitted \in [Stages -> Nat]
  /\ got \in [Stages -> [Stages \cup {Media} -> Nat]]
  /\ tally \in [Stages -> SUBSET Outcome]
  /\ res \in [Stages -> {"none", "ok", "err", "cancelled"}]
  /\ cancelled \in BOOLEAN
  /\ status \in [Stages -> {"pending", "skipped", "complete", "failed"}]
  /\ marked \subseteq Stages
  /\ ok \in BOOLEAN
  /\ report \in {"running", "finished", "aborted"}
  /\ indexState \in IndexState

(* A job that reports success lost nothing on the way: every stage ran to  *)
(* the end and received every item each of its producers emitted.          *)
SuccessLostNothing ==
  report = "finished" /\ ok /\ ~live =>
    \A c \in Active : /\ res[c] = "ok"
                      /\ \A p \in Producers(c) : got[c][p] = emitted[p]

(* Once the job is cancelled no stage takes another item: what is in the   *)
(* channels is dropped (the biased select of run_stage).                   *)
CancelStopsIntake == [][cancelled => got' = got]_vars

(* A cache marker is only written for a stage whose inputs were whole:     *)
(* every producer that took part ended well and all its items arrived.     *)
(* (It is not so: an operator's error closes the channels before it        *)
(* cancels the job.)                                                       *)
MarkerMeansWholeInput ==
  \A c \in marked : \A p \in Producers(c) \cap Active :
    res[p] = "ok" /\ got[c][p] = emitted[p]

(* It is so as long as no operator returned an error, whatever was         *)
(* cancelled or panicked: a panicked producer ends the job before its      *)
(* consumers are joined, a cancelled one before they can see its end.      *)
MarkerIsWholeWithoutErrors == (\A s \in Stages : res[s] # "err") => MarkerMeansWholeInput

(* The edge from p to c as an ItemStream.  An edge with a skipped end has  *)
(* no channel; it is a stream on which nothing happens.                    *)
EdgeConsumer(p, c) ==
  IF p \notin Active THEN "receiving"
  ELSE IF pc[c] = "finish" \/ res[c] = "ok" THEN "ended"
  ELSE IF Gone(c) THEN "gone"
  ELSE "receiving"

Edge(p, c) == INSTANCE ItemStream WITH
  sent <- emitted[p],
  received <- got[c][p],
  open <- ~Gone(p),
  consumer <- EdgeConsumer(p, c)

(* Every edge implements the stream: nothing an operator emits is lost,    *)
(* duplicated or overtaken on its way to a consumer, and no stage takes    *)
(* the end of its input for granted while a producer still has items.      *)
EdgesAreStreams ==
  /\ \A p \in Stages : \A c \in Consumers[p] : Edge(p, c)!Init
  /\ [][\A p \in Stages : \A c \in Consumers[p] :
           [Edge(p, c)!Next]_(Edge(p, c)!vars)]_vars

(* What no step of a job may do: lose, repeat or reorder an item on its    *)
(* way, or take one after the job was cancelled.                           *)
StepsAreOrderly == EdgesAreStreams /\ CancelStopsIntake

(* A live job ends by being stopped: its stages then count as complete,    *)
(* and only an error of a stage of its own makes the job a failure.        *)
StopIsNoFailure ==
  report = "finished" /\ live =>
    (ok <=> \A s \in Active : res[s] # "err" /\ ~(res[s] = "ok" /\ EveryInputFailed(s)))

(* The job ends: bounded channels, slow consumers, failing stages and      *)
(* cancellation leave nobody waiting for ever.                             *)
JobEnds == <>(report # "running")

(* So do the tasks, even when the job gave up on them after an error of    *)
(* its own: none is left behind.                                           *)
TasksEnd == <>[](\A s \in Active : Gone(s))

JobAndTasksEnd == JobEnds /\ TasksEnd

(* What a caller may take for granted of a job at any moment.              *)
JobIsSound ==
  /\ TypeOK
  /\ SuccessLostNothing
  /\ MarkerIsWholeWithoutErrors
  /\ StopIsNoFailure
=============================================================================
