----------------------------- MODULE SegmentRows -----------------------------
(***************************************************************************)
(* The shots, scenes, chapters and descriptions of one video over the      *)
(* indexing jobs that write them: `import_chapters` and the plan of        *)
(* scheduler.rs, and what `finish` and `replay` of the operators           *)
(* shot_boundary, scenes, chapters and vlm_describe do to the rows.  A job *)
(* may be forced, may use other parameters, may run out of budget, and may *)
(* fail or crash between any two writes; rows and markers stay.            *)
(***************************************************************************)
EXTENDS Naturals, FiniteSets

CONSTANTS
  MaxRuns,   \* bound: jobs over the video
  NumShots,  \* bound: shots a detector pass finds (each a second long)
  Asks       \* bound: [thresholds, model] a job's policy and providers may give

VARIABLES
  level,       \* policy.describe_level: "scene" or "shot"
  source,      \* whether the file or its sidecar lists chapters
  shots,       \* stored Shot rows: id -> [at, parent, summary]
  scenes,      \* stored Scene rows: id -> [from, to, summary]
  chapters,    \* stored Chapter rows: who wrote them, and from which rows
  described,   \* stored descriptions: [target, model, run, kind]
  markers,     \* operator-output cache markers
  runs,        \* jobs begun
  job          \* the job under way, or the last one

vars == <<level, source, shots, scenes, chapters, described, markers, runs, job>>

Planner == INSTANCE CachePlan

(* The four stages, in topological order, and who reads whose items. *)
ShotBoundary == 1
Scenes == 2
Chapters == 3
Describe == 4
Stages == 1..4
consumers == <<{Scenes, Describe}, {Chapters, Describe}, {}, {}>>
Producers(s) == {p \in Stages : s \in consumers[p]}

None == <<>>
NoRows == [id \in {} |-> None]
NoChapters == [by |-> "nobody", of |-> {}]

(* operators' cache_params: the shot thresholds, and the model and level   *)
(* of the descriptions.                                                    *)
Key(s, asked) ==
  CASE s = ShotBoundary -> <<s, asked.thresholds>>
    [] s = Describe -> <<s, level, asked.model>>
    [] OTHER -> <<s>>

NoJob == [phase |-> "idle"]

Init ==
  /\ level \in {"scene", "shot"}
  /\ source \in BOOLEAN
  /\ shots = NoRows /\ scenes = NoRows /\ chapters = NoChapters
  /\ described = {} /\ markers = {} /\ runs = 0
  /\ job = NoJob

-----------------------------------------------------------------------------
(* run, import_chapters: the chapters of the video go, and the ones of the *)
(* source come, before anything is planned.                                *)
Begin(force, asked) ==
  /\ runs < MaxRuns /\ job.phase \in {"idle", "ended", "crashed"}
  /\ runs' = runs + 1
  /\ chapters' = NoChapters
  /\ job' = [phase |-> "imports", force |-> force, asked |-> asked]
  /\ UNCHANGED <<level, source, shots, scenes, described, markers>>

(* The end of import_chapters, and the plan of run_prepared. *)
PlanOf(cached) == Planner!PlanFor(4, consumers, cached, Stages)
ImportAndPlan ==
  /\ job.phase = "imports"
  /\ chapters' = IF source THEN [by |-> "import", of |-> {}] ELSE chapters
  /\ LET cached == {s \in Stages : ~job.force /\ Key(s, job.asked) \in markers}
         plan == PlanOf(cached)
     IN job' = [phase |-> "works", asked |-> job.asked, plan |-> plan,
                at |-> [s \in Stages |-> IF plan[s] = "skip" THEN "done" ELSE "waits"],
                emitted |-> [s \in {ShotBoundary, Scenes} |-> NoRows],
                todo |-> {}, stored |-> NoRows, unclean |-> {}, joined |-> 0]
  /\ UNCHANGED <<level, source, shots, scenes, described, markers, runs>>

(* A stage's finish comes when its channel closed: its producers are done. *)
Due(s, mode) ==
  /\ job.phase = "works" /\ job.at[s] = "waits" /\ job.plan[s] = mode
  /\ \A p \in Producers(s) : job.at[p] \notin {"waits", "half", "rows"}
Within(s, pc) == job.phase = "works" /\ job.at[s] = pc
Move(s, pc) == job' = [job EXCEPT !.at[s] = pc]
Emit(s, rows) == job' = [job EXCEPT !.at[s] = "done", !.emitted[s] = rows]

(* replay: the stored rows are emitted again; a replayed stage that emits  *)
(* nothing anyone keeps (chapters, descriptions) only ends.                *)
Replay(s) ==
  /\ Due(s, "replay")
  /\ CASE s = ShotBoundary -> Emit(s, shots)
       [] s = Scenes -> Emit(s, scenes)
       [] OTHER -> Move(s, "done")
  /\ UNCHANGED <<level, source, shots, scenes, chapters, described, markers, runs>>

(* shot_boundary.finish: the level is deleted, then the new rows are put   *)
(* and emitted.                                                            *)
DeleteShots ==
  /\ Due(ShotBoundary, "run")
  /\ shots' = NoRows /\ Move(ShotBoundary, "half")
  /\ UNCHANGED <<level, source, scenes, chapters, described, markers, runs>>
NewShots == [id \in {runs} \X (1..NumShots) |-> [at |-> id[2], parent |-> None, summary |-> 0]]
PutShots ==
  /\ Within(ShotBoundary, "half")
  /\ shots' = NewShots /\ Emit(ShotBoundary, NewShots)
  /\ UNCHANGED <<level, source, scenes, chapters, described, markers, runs>>

-----------------------------------------------------------------------------
(* scenes.finish: the scenes go; the shots that came, or the stored ones   *)
(* when none did, are grouped; the scenes are put; last, the shots that    *)
(* came are put again with their parent.                                   *)
DeleteScenes ==
  /\ Due(Scenes, "run")
  /\ scenes' = NoRows /\ Move(Scenes, "half")
  /\ UNCHANGED <<level, source, shots, chapters, described, markers, runs>>

Grouped ==
  LET came == job.emitted[ShotBoundary] IN IF DOMAIN came = {} THEN shots ELSE came
TimesOf(rows) == {rows[id].at : id \in DOMAIN rows}
(* A grouping of `group`: a cut after some of the shots. *)
NewScenes(cuts) ==
  LET starts == {t \in TimesOf(Grouped) : t = 1 \/ t - 1 \in cuts}
  IN [id \in {<<runs, t>> : t \in starts} |->
        [from |-> id[2], summary |-> 0,
         to |-> CHOOSE e \in TimesOf(Grouped) \cup {NumShots} :
                  /\ e >= id[2] /\ (e \in cuts \/ e = NumShots)
                  /\ \A c \in cuts : c >= id[2] => c >= e]]
Group(cuts) ==
  /\ Within(Scenes, "half") /\ DOMAIN Grouped # {}
  /\ scenes' = NewScenes(cuts)
  /\ job' = [job EXCEPT !.at[Scenes] = "rows", !.stored = Grouped]
  /\ UNCHANGED <<level, source, shots, chapters, described, markers, runs>>
NothingToGroup ==
  /\ Within(Scenes, "half") /\ DOMAIN Grouped = {}
  /\ Move(Scenes, "done")
  /\ UNCHANGED <<level, source, shots, scenes, chapters, described, markers, runs>>

Over(at) == CHOOSE id \in DOMAIN scenes : scenes[id].from <= at /\ at <= scenes[id].to
Parented == [id \in DOMAIN job.stored |->
               [job.stored[id] EXCEPT !.parent = Over(job.stored[id].at)]]
(* put_segments replaces rows by id and keeps the others. *)
Put(new, old) ==
  [id \in DOMAIN new \cup DOMAIN old |-> IF id \in DOMAIN new THEN new[id] ELSE old[id]]
SetParents ==
  /\ Within(Scenes, "rows")
  /\ shots' = Put(Parented, shots) /\ Emit(Scenes, scenes)
  /\ UNCHANGED <<level, source, scenes, chapters, described, markers, runs>>

(* chapters.finish: chapters there are "imported" and win; else they are   *)
(* made of the scenes that came, the stored scenes, or the stored shots.   *)
MakeChapters ==
  LET came == job.emitted[Scenes]
      from == IF DOMAIN came # {} THEN came ELSE scenes
  IN CASE DOMAIN from # {} -> [by |-> "scenes", of |-> DOMAIN from]
       [] DOMAIN from = {} /\ DOMAIN shots # {} -> [by |-> "shots", of |-> DOMAIN shots]
       [] OTHER -> NoChapters
PutChapters ==
  /\ Due(Chapters, "run") /\ Move(Chapters, "done")
  /\ chapters' = IF chapters.by # "nobody" THEN chapters ELSE MakeChapters
  /\ UNCHANGED <<level, source, shots, scenes, described, markers, runs>>

-----------------------------------------------------------------------------
NeverDescribed(id) == FALSE  \* a pass that takes every shot again

(* vlm_describe.finish.  Of a shot pass, the shots described before with   *)
(* this prompt and model are re-emitted; the others are described.         *)
AlreadyDescribed(id) == \E d \in described : d.target = id /\ d.model = job.asked.model
Pending ==
  IF level = "shot"
  THEN {id \in DOMAIN job.emitted[ShotBoundary] : ~AlreadyDescribed(id)}
  ELSE DOMAIN job.emitted[Scenes]
StoredShots == shots
BeginDescribing ==
  /\ Due(Describe, "run")
  /\ job' = [job EXCEPT !.at[Describe] = "half", !.todo = Pending, !.stored = StoredShots]
  /\ UNCHANGED <<level, source, shots, scenes, chapters, described, markers, runs>>

InOrder(id) == id \in job.todo /\ \A other \in job.todo : id[2] <= other[2]
Describable(id) == Within(Describe, "half") /\ InOrder(id)

(* Outcome::Skipped and Outcome::Nothing: the budget, no frames, a failed  *)
(* call.                                                                   *)
NotDescribed(id, unclean) ==
  /\ Describable(id)
  /\ job' = [job EXCEPT !.todo = @ \ {id},
                        !.unclean = IF unclean THEN @ \cup {Describe} ELSE @]
  /\ UNCHANGED <<level, source, shots, scenes, chapters, described, markers, runs>>

(* An answer that is no JSON is a caption, and has no summary. *)
Described(id, kind) ==
  /\ Describable(id)
  /\ described' = described \cup
       {[target |-> id, model |-> job.asked.model, run |-> runs, kind |-> kind]}
  /\ \/ kind = "structured" /\ Move(Describe, "rows")
     \/ kind = "caption" /\ job' = [job EXCEPT !.todo = @ \ {id}]
  /\ UNCHANGED <<level, source, shots, scenes, chapters, markers, runs>>

(* The summary goes into the row: the shot as stored when the stage began, *)
(* the scene as it came.                                                   *)
PutSummary(id) ==
  /\ Within(Describe, "rows") /\ InOrder(id)
  /\ IF level = "shot"
     THEN /\ shots' = IF id \in DOMAIN job.stored
                      THEN Put([i \in {id} |-> [job.stored[id] EXCEPT !.summary = runs]], shots)
                      ELSE shots
          /\ UNCHANGED scenes
     ELSE /\ scenes' = Put([i \in {id} |-> [job.emitted[Scenes][id] EXCEPT !.summary = runs]],
                           scenes)
          /\ UNCHANGED shots
  /\ job' = [job EXCEPT !.todo = @ \ {id}, !.at[Describe] = "half"]
  /\ UNCHANGED <<level, source, chapters, described, markers, runs>>

EndDescribing ==
  /\ Within(Describe, "half") /\ job.todo = {} /\ Move(Describe, "done")
  /\ UNCHANGED <<level, source, shots, scenes, chapters, described, markers, runs>>

-----------------------------------------------------------------------------
(* A stage returns an error; every stage that waits stops with it. *)
Fail(s) ==
  /\ job.phase = "works" /\ job.at[s] \notin {"done", "failed"}
  /\ job' = [job EXCEPT !.at = [t \in Stages |-> IF job.at[t] = "done" THEN "done" ELSE "failed"]]
  /\ UNCHANGED <<level, source, shots, scenes, chapters, described, markers, runs>>

(* run_prepared joins the stages in order; a stage that ended well, with   *)
(* nothing failed or skipped, gets its marker.                             *)
Join ==
  /\ job.phase = "works" /\ job.joined < 4
  /\ \A s \in Stages : job.at[s] \in {"done", "failed"}
  /\ LET s == job.joined + 1
         clean == job.at[s] = "done" /\ s \notin job.unclean /\ job.plan[s] # "skip"
     IN /\ markers' = IF clean THEN markers \cup {Key(s, job.asked)} ELSE markers
        /\ job' = [job EXCEPT !.joined = s]
  /\ UNCHANGED <<level, source, shots, scenes, chapters, described, runs>>
EndJob ==
  /\ job.phase = "works" /\ job.joined = 4
  /\ job' = [job EXCEPT !.phase = "ended"]
  /\ UNCHANGED <<level, source, shots, scenes, chapters, described, markers, runs>>

Crash ==
  /\ job.phase \in {"imports", "works"}
  /\ job' = [phase |-> "crashed"]
  /\ UNCHANGED <<level, source, shots, scenes, chapters, described, markers, runs>>

JobSteps ==
  \/ \E force \in BOOLEAN, asked \in Asks : Begin(force, asked)
  \/ ImportAndPlan \/ Join \/ EndJob \/ Crash
  \/ \E s \in Stages : Replay(s) \/ Fail(s)
Rows ==
  \/ DeleteShots \/ PutShots
  \/ DeleteScenes \/ NothingToGroup \/ SetParents \/ PutChapters
  \/ \E cuts \in SUBSET (1..(NumShots - 1)) : Group(cuts)
Descriptions ==
  \/ BeginDescribing \/ EndDescribing
  \/ \E id \in job.todo : \/ PutSummary(id)
                          \/ \E kind \in {"structured", "caption"} : Described(id, kind)
                          \/ \E unclean \in BOOLEAN : NotDescribed(id, unclean)
Next == JobSteps \/ Rows \/ (job.phase = "works" /\ Descriptions)

Spec == Init /\ [][Next]_vars

-----------------------------------------------------------------------------
EndedOk == job.phase = "ended" /\ \A s \in Stages : job.at[s] = "done"

(* However a shot pass is cut short -- by the budget, a failed call, an    *)
(* error or a crash -- and taken up again, a shot is described at most     *)
(* once with a prompt and model (already_described, vlm_describe.rs:246:   *)
(* "instead of being paid for twice and stored twice").                    *)
OneDescriptionPerShot ==
  level = "shot" =>
    \A d, e \in described : d.target = e.target /\ d.model = e.model => d = e

(* Three stages write the same shot rows: when a job that grouped them     *)
(* ends well, every shot is under a stored scene that covers it, and a     *)
(* shot this job described has its summary (vlm_describe.rs:586: the       *)
(* summary update must keep the parent).                                   *)
ShotRowsAreWhole ==
  EndedOk /\ job.plan[Scenes] = "run" /\ level = "shot" =>
    \A id \in DOMAIN shots :
      /\ shots[id].parent \in DOMAIN scenes
      /\ LET over == scenes[shots[id].parent]
         IN over.from <= shots[id].at /\ shots[id].at <= over.to
      /\ (\E d \in described : d.target = id /\ d.run = runs /\ d.kind = "structured") =>
           shots[id].summary = runs

(* scheduler.rs:503: a marker means "these outputs are in the index".  The *)
(* chapters a job computed are not: the next job deletes every chapter     *)
(* before it plans, and then skips the stage whose marker it finds.        *)
MarkersMeanChapters ==
  EndedOk /\ Key(Chapters, job.asked) \in markers /\ DOMAIN shots # {} =>
    chapters.by # "nobody"
=============================================================================
