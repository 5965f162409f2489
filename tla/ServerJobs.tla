----------------------------- MODULE ServerJobs -----------------------------
(***************************************************************************)
(* Indexing jobs of the HTTP server: the registry with its bounded history,*)
(* one task per job over the job's sources, cancellation, and the event    *)
(* streams that follow a job.  What a job costs is in ServerQuota.         *)
(*                                                                         *)
(* A task and a stream share the job's entry: status, reports and error    *)
(* are locked one at a time, so a stream may read them between two writes. *)
(***************************************************************************)
EXTENDS Naturals, FiniteSets

CONSTANTS
  Jobs,         \* jobs posted, in the order of their start times
  Streams,      \* event streams
  Sources,      \* sources of a job, each one video
  KeepFinished  \* JobRegistry::KEEP_FINISHED

VARIABLES
  registry,  \* the jobs the registry knows
  job,       \* job[j]: where its task is and the fields of its entry
  stream     \* stream[s]: where it is, its job, whether it has events to read, its snapshot

vars == <<registry, job, stream>>

NoSnapshot == [status |-> "none", reports |-> 0, error |-> FALSE]

Init ==
  /\ registry = {}
  /\ job = [j \in Jobs |->
       [at |-> "none", status |-> "running", reports |-> 0, error |-> FALSE,
        cancel |-> FALSE, left |-> Sources, errors |-> 0, succeeded |-> 0]]
  /\ stream = [s \in Streams |-> [at |-> "none", job |-> 0, unread |-> FALSE, snap |-> NoSnapshot, last |-> FALSE]]

Final == {"finished", "cancelled", "failed"}
Finished(js) == {j \in js : job[j].status \in Final}
Newest(js, n) == {j \in js : Cardinality({k \in js : k > j}) < n}

-----------------------------------------------------------------------------
(* add_videos makes the entry, then registers it: the registry drops the   *)
(* oldest finished jobs beyond KeepFinished, never a running one.          *)
Post(j) ==
  /\ job[j].at = "none"
  /\ \A k \in Jobs : k < j => job[k].at # "none"
  /\ job' = [job EXCEPT ![j].at = "posted"]
  /\ UNCHANGED <<registry, stream>>

Insert(j) ==
  LET known == registry \cup {j} IN
  /\ job[j].at = "posted"
  /\ job' = [job EXCEPT ![j].at = "loop"]
  /\ registry' = known \ (Finished(known) \ Newest(Finished(known), KeepFinished))
  /\ UNCHANGED stream

(* The job takes a source; one that is cancelled stops here.               *)
Taken(e) ==
  IF e.cancel THEN [e EXCEPT !.at = "end"] ELSE [e EXCEPT !.left = @ - 1, !.at = "run"]

(* The next source, if there is one; its expansion may fail.               *)
NextSource(j) ==
  /\ job[j].at = "loop"
  /\ \/ /\ job[j].left = 0
        /\ job' = [job EXCEPT ![j].at = "end"]
     \/ /\ job[j].left > 0
        /\ job' = [job EXCEPT ![j].left = @ - 1, ![j].errors = @ + 1]
     \/ /\ job[j].left > 0
        /\ job' = [job EXCEPT ![j] = Taken(@)]
  /\ UNCHANGED <<registry, stream>>

(* An event for every subscriber.                                          *)
EmitEvent(j) ==
  /\ job[j].at = "run"
  /\ \E s \in Streams : stream[s].job = j
  /\ stream' = [s \in Streams |-> [stream[s] EXCEPT !.unread = @ \/ stream[s].job = j]]
  /\ UNCHANGED <<registry, job>>

(* The scheduler is done with a video and its report is pushed.            *)
Report(j) ==
  /\ job[j].at = "run"
  /\ \E ok \in BOOLEAN :
       job' = [job EXCEPT ![j].at = "loop", ![j].reports = @ + 1,
                          ![j].succeeded = IF ok THEN @ + 1 ELSE @,
                          ![j].errors = IF ok THEN @ ELSE @ + 1]
  /\ UNCHANGED <<registry, stream>>

(* The scheduler gives an error.  A cancellation ends the job, another     *)
(* error goes on with the next source.                                     *)
RunFails(j) ==
  /\ job[j].at = "run"
  /\ \/ job[j].cancel /\ job' = [job EXCEPT ![j].at = "end"]
     \/ job' = [job EXCEPT ![j].at = "loop", ![j].errors = @ + 1]
  /\ UNCHANGED <<registry, stream>>

FinalStatus(e) ==
  IF e.cancel THEN "cancelled"
  ELSE IF e.succeeded = 0 /\ e.errors > 0 THEN "failed" ELSE "finished"

(* The error text is set before the status, and the task is over.          *)
SetError(j) ==
  /\ job[j].at = "end"
  /\ job' = [job EXCEPT ![j].at = "status", ![j].error = @ \/ job[j].errors > 0]
  /\ UNCHANGED <<registry, stream>>

SetStatus(j) ==
  /\ job[j].at = "status"
  /\ job' = [job EXCEPT ![j].at = "over", ![j].left = 0, ![j].errors = 0, ![j].succeeded = 0,
                        ![j].status = FinalStatus(job[j])]
  /\ UNCHANGED <<registry, stream>>

(* DELETE /v1/jobs/{job}                                                   *)
CancelJob(j) ==
  /\ j \in registry /\ ~job[j].cancel
  /\ job' = [job EXCEPT ![j].cancel = TRUE]
  /\ UNCHANGED <<registry, stream>>

-----------------------------------------------------------------------------
Move(s, at) == stream' = [stream EXCEPT ![s].at = at]
Frame == UNCHANGED <<registry, job>>

(* A stream subscribes, sends a snapshot of the entry, then follows.       *)
Subscribe(s) ==
  /\ stream[s].at = "none"
  /\ \E j \in registry :
       stream' = [stream EXCEPT ![s].job = j, ![s].at = "snap"]
  /\ Frame

(* JobEntry::to_json reads the status, then the reports, then the error.   *)
SnapStatus(s) ==
  /\ stream[s].at = "snap"
  /\ stream' = [stream EXCEPT ![s].at = "snapReports", ![s].snap.status = job[stream[s].job].status]
  /\ Frame

SnapReports(s) ==
  /\ stream[s].at = "snapReports"
  /\ stream' = [stream EXCEPT ![s].at = "snapError", ![s].snap.reports = job[stream[s].job].reports]
  /\ Frame

(* Mutant: the status is read last.                                        *)
SnapStatusLast(s) ==
  /\ stream[s].at = "snapError"
  /\ stream' = [stream EXCEPT ![s].at = IF stream[s].last THEN "closed" ELSE "check",
                              ![s].snap.status = job[stream[s].job].status,
                              ![s].snap.error = job[stream[s].job].error]
  /\ Frame

SnapError(s) ==
  /\ stream[s].at = "snapError"
  /\ stream' = [stream EXCEPT ![s].at = IF stream[s].last THEN "closed" ELSE "check",
                              ![s].snap.error = job[stream[s].job].error]
  /\ Frame

(* The top of the loop: a job that is over gets its last snapshot, without *)
(* the events still in the channel.                                        *)
Check(s) ==
  /\ stream[s].at = "check"
  /\ stream' = [stream EXCEPT ![s] = IF job[@.job].status = "running"
                                     THEN [@ EXCEPT !.at = "recv", !.snap = NoSnapshot]
                                     ELSE [@ EXCEPT !.at = "snap", !.snap = NoSnapshot, !.last = TRUE]]
  /\ Frame

(* An event, or the notice that events were lost; there may be more.       *)
Receive(s) ==
  /\ stream[s].at = "recv" /\ stream[s].unread
  /\ \E more \in BOOLEAN : stream' = [stream EXCEPT ![s].at = "check", ![s].unread = more]
  /\ Frame

(* Mutant: no timeout, the stream waits for an event of its job.           *)
QuietForever(s) ==
  /\ stream[s].at = "recv" /\ ~stream[s].unread
  /\ UNCHANGED <<registry, job, stream>>

(* Nothing for half a second: look at the status again.                    *)
Quiet(s) ==
  /\ stream[s].at = "recv" /\ ~stream[s].unread
  /\ Move(s, "check")
  /\ Frame

(* The client goes away.                                                   *)
Hangup(s) ==
  /\ stream[s].at \notin {"none", "closed"}
  /\ stream' = [stream EXCEPT ![s] = [at |-> "closed", job |-> 0, unread |-> FALSE,
                                     snap |-> NoSnapshot, last |-> FALSE]]
  /\ Frame

-----------------------------------------------------------------------------
Task(j) ==
  \/ Insert(j) \/ NextSource(j) \/ EmitEvent(j) \/ Report(j)
  \/ RunFails(j) \/ SetError(j) \/ SetStatus(j)

Follow(s) ==
  \/ SnapStatus(s) \/ SnapReports(s) \/ SnapError(s)
  \/ Check(s) \/ Receive(s) \/ Quiet(s)

Next ==
  \/ \E j \in Jobs : Post(j) \/ Task(j) \/ CancelJob(j)
  \/ \E s \in Streams : Subscribe(s) \/ Follow(s) \/ Hangup(s)

(* The runtime polls every task and every stream; the scheduler's run ends *)
(* (Pipeline: JobEnds).                                                    *)
Fairness == /\ \A j \in Jobs : WF_vars(Task(j))
            /\ \A s \in Streams : WF_vars(Follow(s))

Spec == Init /\ [][Next]_vars /\ Fairness

-----------------------------------------------------------------------------
TypeOK ==
  /\ registry \subseteq Jobs
  /\ \A j \in Jobs : job[j].status \in Final \cup {"running"}
  /\ \A j \in Jobs : job[j].reports <= Sources /\ job[j].succeeded <= Sources

(* A snapshot with a final status is the whole story: every report and     *)
(* whether there was an error, though the fields are written and read one  *)
(* lock at a time (jobs.rs: to_json, add_videos).                          *)
LastSnapshotIsWhole ==
  \A s \in Streams :
    LET snap == stream[s].snap IN
    stream[s].at \in {"check", "closed"} /\ snap.status \in Final =>
      LET e == job[stream[s].job] IN snap.reports = e.reports /\ snap.error = e.error

(* A job that is not over is known to the registry, whatever was posted    *)
(* and finished since: it can be followed and cancelled.                   *)
RunningIsListed ==
  \A j \in Jobs : job[j].at \in {"loop", "run", "end", "status"} => j \in registry

(* A stream of a job ends with the job, though the job's event channel is  *)
(* never closed.                                                           *)
StreamsEnd ==
  \A s \in Streams :
    stream[s].job # 0 /\ job[stream[s].job].status \in Final ~> stream[s].at = "closed"
=============================================================================
