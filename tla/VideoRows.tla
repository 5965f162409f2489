------------------------------ MODULE VideoRows ------------------------------
(***************************************************************************)
(* A job registers its video and stores its frames                         *)
(* (vi-pipeline/src/scheduler.rs: run; ops/sample.rs, phash.rs,            *)
(* thumbnail.rs, image_embed.rs, ocr.rs; vi-index/src/embedded.rs and the  *)
(* tables, foreign keys and triggers of schema.rs).  All jobs here are     *)
(* about one content.  A job may crash, and another one may run beside it. *)
(* A consumer reads the frames in the order they are sent; of the columns  *)
(* the frame stages fill, `Columns` are followed.                          *)
(***************************************************************************)
EXTENDS Naturals, Sequences, FiniteSets

CONSTANTS
  Jobs,          \* indexing jobs, in the order they start: 1..n
  Columns,       \* stages that fill a column of the frame rows ("phash", "thumbnail")
  MaxFrames,     \* frames the content is sampled at
  Batch          \* updates written together

VARIABLES
  videos,        \* number of videos registered with this content hash
  tracks,        \* video tracks: [id, video]
  frames,        \* frame samples: [id, track, filled]
  spans,         \* OCR spans: [id, frame], a span's id being its frame's
  fts,           \* ids in the text index of the OCR spans
  vectors,       \* embeddings: [kind, target]
  job,           \* by job: at, video, track, put, sent, done, pending, finished, failed
  overlap        \* two jobs have run at once

vars == <<videos, tracks, frames, spans, fts, vectors, job, overlap>>

Consumers == Columns \cup {"ocr", "embed"}
Idle == [at |-> "idle", video |-> 0, track |-> 0, put |-> 0, sent |-> 0,
         done |-> [c \in Consumers |-> 0], pending |-> [c \in Columns |-> {}],
         finished |-> {}, failed |-> FALSE]
Over == {"idle", "clean", "failed", "crashed"}

Init ==
  /\ videos = 0 /\ tracks = {} /\ frames = {} /\ spans = {} /\ fts = {} /\ vectors = {}
  /\ job = [j \in Jobs |-> Idle] /\ overlap = FALSE

-----------------------------------------------------------------------------
Set(j, r) == job' = [job EXCEPT ![j] = r]
At(j, where) == job[j].at = where
Rows == <<videos, tracks, frames, spans, fts, vectors>>
FrameId(j, k) == <<j, k>>

\* find_video_by_hash: the earliest registered, if any.
Find(j) ==
  /\ At(j, "idle") /\ \A i \in Jobs : i < j => job[i].at # "idle"
  /\ overlap' = (overlap \/ \E i \in Jobs \ {j} : job[i].at \notin Over)
  /\ Set(j, [job[j] EXCEPT !.at = IF videos = 0 THEN "new" ELSE "known",
                           !.video = IF videos = 0 THEN 0 ELSE 1])
  /\ UNCHANGED Rows

TracksOf(v) == {t \in tracks : t.video = v}

\* put_tracks of a probe: ids of their own.
NewTrack(j, v) == [id |-> Cardinality(tracks) + 1, video |-> v]

\* Content no video has: the video first, then its tracks.
PutVideo(j) ==
  /\ At(j, "new") /\ videos' = videos + 1
  /\ Set(j, [job[j] EXCEPT !.at = "tracks", !.video = videos + 1])
  /\ UNCHANGED <<tracks, frames, spans, fts, vectors, overlap>>

\* Known content keeps its tracks when it has any.
Keep(v) == TracksOf(v) # {}

Register(j) ==
  /\ At(j, "tracks") \/ (At(j, "known") /\ ~Keep(job[j].video))
  /\ tracks' = tracks \cup {NewTrack(j, job[j].video)}
  /\ Set(j, [job[j] EXCEPT !.at = "begin", !.track = NewTrack(j, job[j].video).id])
  /\ UNCHANGED <<videos, frames, spans, fts, vectors, overlap>>

UseTracks(j) ==
  /\ At(j, "known") /\ Keep(job[j].video)
  /\ \E t \in TracksOf(job[j].video) :
       Set(j, [job[j] EXCEPT !.at = "begin", !.track = t.id])
  /\ UNCHANGED <<Rows, overlap>>

-----------------------------------------------------------------------------
\* Rows that go with frames: OCR spans by the foreign key, their index entries by the
\* trigger.  Embeddings have no foreign key; delete_frame_samples drops them first.
Cascade(gone) ==
  /\ frames' = {f \in frames : f.id \notin gone}
  /\ spans' = {s \in spans : s.frame \notin gone}
  /\ fts' = {i \in fts : i \notin gone}

\* Embeddings of the frames and of the text on them.
Dropped(gone) ==
  {v \in vectors : v.target \in gone /\ (v.kind = "frame" \/ \E s \in spans : s.id = v.target)}

\* sample begins: drop the samples of an earlier attempt.
DeleteSamples(j) ==
  LET gone == {f.id : f \in {f \in frames : f.track = job[j].track}}
  IN /\ At(j, "begin")
     /\ Cascade(gone) /\ vectors' = vectors \ Dropped(gone)
     /\ Set(j, [job[j] EXCEPT !.at = "run"])
     /\ UNCHANGED <<videos, tracks, overlap>>

\* put_frame_samples, one row a frame.
PutFrame(j) ==
  /\ At(j, "run") /\ job[j].put < MaxFrames
  /\ frames' = frames \cup
       {[id |-> FrameId(j, job[j].put + 1), track |-> job[j].track, filled |-> {}]}
  /\ Set(j, [job[j] EXCEPT !.put = @ + 1])
  /\ UNCHANGED <<videos, tracks, spans, fts, vectors, overlap>>

\* A frame is sent, its row following with the next batch.
Sooner(j) == job[j].sent < MaxFrames

\* The row exists before consumers see the frame.
Ready(j) == job[j].sent < job[j].put

Emit(j) ==
  /\ At(j, "run") /\ Ready(j)
  /\ Set(j, [job[j] EXCEPT !.sent = @ + 1])
  /\ UNCHANGED <<Rows, overlap>>

Takes(j, c) == At(j, "run") /\ job[j].done[c] < job[j].sent
NextFrame(j, c) == FrameId(j, job[j].done[c] + 1)
Exists(id) == \E f \in frames : f.id = id

\* UPDATE by id: rows that are gone stay gone.
Fill(c, ids) ==
  frames' = {IF f.id \in ids THEN [f EXCEPT !.filled = @ \cup {c}] ELSE f : f \in frames}

\* A column stage takes a frame, and writes what waits when a batch is full.
FillNext(j, c) ==
  LET waiting == job[j].pending[c] \cup {NextFrame(j, c)}
      full == Cardinality(waiting) >= Batch
  IN /\ Takes(j, c)
     /\ IF full THEN Fill(c, waiting) ELSE UNCHANGED frames
     /\ Set(j, [job[j] EXCEPT !.done[c] = @ + 1,
                              !.pending[c] = IF full THEN {} ELSE waiting])
     /\ UNCHANGED <<videos, tracks, spans, fts, vectors, overlap>>

\* A live job's tick writes what waits.
Tick(j, c) ==
  /\ At(j, "run") /\ job[j].pending[c] # {} /\ c \notin job[j].finished
  /\ Fill(c, job[j].pending[c])
  /\ Set(j, [job[j] EXCEPT !.pending[c] = {}])
  /\ UNCHANGED <<videos, tracks, spans, fts, vectors, overlap>>

\* ocr reads a frame: its text is stored and, by the trigger, indexed; text_embed stores
\* its vector.  A span of a frame that is gone breaks the foreign key: the stage fails.
Read(j) ==
  /\ Takes(j, "ocr")
  /\ IF Exists(NextFrame(j, "ocr")) /\ ~job[j].failed
     THEN /\ spans' = spans \cup {[id |-> NextFrame(j, "ocr"), frame |-> NextFrame(j, "ocr")]}
          /\ fts' = fts \cup {NextFrame(j, "ocr")}
          /\ vectors' = vectors \cup {[kind |-> "ocr", target |-> NextFrame(j, "ocr")]}
          /\ Set(j, [job[j] EXCEPT !.done["ocr"] = @ + 1])
     ELSE /\ Set(j, [job[j] EXCEPT !.done["ocr"] = @ + 1, !.failed = TRUE])
          /\ UNCHANGED <<spans, fts, vectors>>
  /\ UNCHANGED <<videos, tracks, frames, overlap>>

\* image_embed stores a frame's vector, whether its row is still there or not.
Embed(j) ==
  /\ Takes(j, "embed")
  /\ vectors' = vectors \cup {[kind |-> "frame", target |-> NextFrame(j, "embed")]}
  /\ Set(j, [job[j] EXCEPT !.done["embed"] = @ + 1])
  /\ UNCHANGED <<videos, tracks, frames, spans, fts, overlap>>

\* finish: a partial batch is written too.
Finish(j, c) ==
  /\ At(j, "run") /\ job[j].sent = MaxFrames /\ job[j].done[c] = MaxFrames
  /\ c \notin job[j].finished
  /\ Fill(c, job[j].pending[c])
  /\ Set(j, [job[j] EXCEPT !.finished = @ \cup {c}, !.pending[c] = {}])
  /\ UNCHANGED <<videos, tracks, spans, fts, vectors, overlap>>

End(j) ==
  /\ At(j, "run") /\ job[j].put = MaxFrames /\ job[j].sent = MaxFrames
  /\ \A c \in Consumers : job[j].done[c] = MaxFrames
  /\ job[j].finished = Columns
  /\ Set(j, [Idle EXCEPT !.at = IF job[j].failed THEN "failed" ELSE "clean",
                         !.video = job[j].video, !.track = job[j].track])
  /\ UNCHANGED <<Rows, overlap>>

\* The process ends, in whatever step a job is.
Crash(j) ==
  /\ job[j].at \notin Over
  /\ Set(j, [Idle EXCEPT !.at = "crashed"])
  /\ UNCHANGED <<Rows, overlap>>

Next ==
  \E j \in Jobs :
    \/ Find(j) \/ PutVideo(j) \/ Register(j) \/ UseTracks(j)
    \/ DeleteSamples(j) \/ PutFrame(j) \/ Emit(j)
    \/ \E c \in Columns : FillNext(j, c) \/ Tick(j, c) \/ Finish(j, c)
    \/ Read(j) \/ Embed(j) \/ End(j) \/ Crash(j)

Spec == Init /\ [][Next]_vars

-----------------------------------------------------------------------------
(* A re-index keeps the video's identity: one content is one video         *)
(* (scheduler.rs:352).                                                     *)
OneVideoPerContent == videos <= 1

Latest(j) == \A i \in Jobs : i > j => job[i].at = "idle"

(* Whatever crashes came before: while jobs follow one another, a content  *)
(* is one video with one track; after a clean job its frames are the ones  *)
(* that job sampled, each with its hash, its thumbnail, its text and its   *)
(* vectors, and no vector belongs to anything else.  At every moment, even *)
(* with two jobs at once, a span has its frame and the text index has the  *)
(* spans (sample.rs:62, schema.rs).                                        *)
FramesAreWhole ==
  /\ {s.id : s \in spans} = fts
  /\ \A s \in spans : Exists(s.frame)
  /\ ~overlap =>
       /\ OneVideoPerContent /\ Cardinality(tracks) <= 1
       /\ \A j \in Jobs : ~At(j, "failed")
       /\ \A j \in Jobs : At(j, "clean") /\ Latest(j) =>
            /\ frames = {[id |-> FrameId(j, k), track |-> job[j].track, filled |-> Columns] :
                         k \in 1..MaxFrames}
            /\ fts = {f.id : f \in frames}
            /\ vectors = [kind : {"frame", "ocr"}, target : fts]
=============================================================================
