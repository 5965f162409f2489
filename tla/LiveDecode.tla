------------------------------ MODULE LiveDecode ------------------------------
(***************************************************************************)
(* decode_live (decode.rs:1665-1876): one pass over a recording whose      *)
(* writer appends segments while the worker reads them.  The worker opens  *)
(* the listed segments in order, samples their frames, cuts their audio in *)
(* chunks over segment boundaries, reports holes and sends ticks; with     *)
(* `follow` it polls the index until the writer has ended the recording.   *)
(*                                                                         *)
(* A segment is its index entry and what its file holds: a frame every 2   *)
(* units from t0, and `audio` samples, one per unit, in packets of two.    *)
(* The entry's length and its audio's may differ: the index need not       *)
(* follow the PTS.  A video decoder holds one frame back until it is       *)
(* drained; an audio decoder none.  The sampling rate is above half the    *)
(* source's, where no frame is skipped inside the decoder.                 *)
(***************************************************************************)
EXTENDS MediaClock, FiniteSets

CONSTANTS
  Recordings,    \* sequences of [t0, t1, discontinuity, codec, audio]
  Interval,      \* units between sampling targets
  Chunk,         \* samples in an audio chunk
  TickEvery,     \* tick_secs
  Reanchor,      \* AUDIO_REANCHOR_SECS
  Never          \* t_end: beyond every time of a recording

VARIABLES
  recording,     \* what the writer will have written in the end
  follow,        \* SegmentFeed.follow
  store,         \* index.json: [exists, listed, ended]
  at,            \* "load", "find", "packets", "done", "failed", "cancelled"
  index,         \* the worker's copy of the index: [listed, ended]
  last,          \* last_seq
  video, audio,  \* packets of the open segment read so far
  sampler, chunker,
  codec,         \* of the open audio decoder, "none" without one
  firstAudio, nextTick, lastTick,
  frames, chunks, gaps

vars == <<recording, follow, store, at, index, last, video, audio, sampler, chunker,
          codec, firstAudio, nextTick, lastTick, frames, chunks, gaps>>

Period == 2
Eps == 1

FramesOf(s) == [i \in 1..((s.t1 - s.t0 + 1) \div Period) |-> s.t0 + Period * (i - 1)]
PacketsOf(s) == (s.audio + 1) \div 2
SamplesOf(k) == [i \in 1..recording[k].audio |-> <<k, i - 1>>]
Packet(k, i) == SelectSeq(SamplesOf(k), LAMBDA x : x[2] \div 2 = i)

\* rec_time of a sample.
TimeOf(x) == recording[x[1]].t0 + x[2]

Init ==
  /\ recording \in Recordings
  /\ follow \in BOOLEAN
  /\ store \in {[exists |-> FALSE, listed |-> 0, ended |-> FALSE],
                [exists |-> TRUE, listed |-> Len(recording), ended |-> TRUE]}
  /\ at = "load" /\ index = [listed |-> 0, ended |-> FALSE] /\ last = 0
  /\ video = 0 /\ audio = 0
  /\ sampler = Sampler(-1, Interval, Never, Eps)
  /\ chunker = Chunker(Chunk, Chunk)
  /\ codec = "none" /\ firstAudio = TRUE /\ nextTick = -1 /\ lastTick = -1
  /\ frames = <<>> /\ chunks = <<>> /\ gaps = {}

-----------------------------------------------------------------------------
(* The writer (outside the repository; segments.rs:6-9).                   *)

Write ==
  /\ ~store.ended
  /\ \/ /\ store.listed < Len(recording)
        /\ store' = [store EXCEPT !.exists = TRUE, !.listed = @ + 1]
     \/ store' = [store EXCEPT !.exists = TRUE, !.ended = TRUE]
  /\ UNCHANGED <<recording, follow, at, index, last, video, audio, sampler, chunker,
                 codec, firstAudio, nextTick, lastTick, frames, chunks, gaps>>

-----------------------------------------------------------------------------
(* The worker.                                                             *)

\* load_index_for: a following feed may be read before it is created.
Load ==
  /\ at = "load"
  /\ IF store.exists \/ follow
     THEN index' = [listed |-> store.listed, ended |-> store.ended] /\ at' = "find"
     ELSE UNCHANGED index /\ at' = "failed"
  /\ UNCHANGED <<recording, follow, store, last, video, audio, sampler, chunker, codec,
                 firstAudio, nextTick, lastTick, frames, chunks, gaps>>

Entry == recording[last + 1]

Hole == last > 0 /\ Entry.t0 > recording[last].t1

\* The hole, the discontinuity and the codec change end an audio run.
EndsRun ==
  \/ Hole
  \/ Entry.discontinuity
  \/ codec # "none" /\ Entry.audio > 0 /\ codec # Entry.codec

Open ==
  /\ at = "find" /\ last < index.listed
  /\ LET e == IF EndsRun THEN FlushAndReset(chunker) ELSE [out |-> <<>>, c |-> chunker]
     IN chunker' = e.c /\ chunks' = chunks \o e.out
  /\ gaps' = IF Hole THEN gaps \cup {<<recording[last].t1, Entry.t0>>} ELSE gaps
  /\ codec' = IF Entry.audio > 0 THEN Entry.codec
              ELSE IF Hole \/ Entry.discontinuity THEN "none" ELSE codec
  /\ sampler' = IF sampler.next = -1 THEN [sampler EXCEPT !.next = Entry.t0] ELSE sampler
  /\ nextTick' = IF nextTick = -1 THEN Entry.t0 + TickEvery ELSE nextTick
  /\ video' = 0 /\ audio' = 0 /\ firstAudio' = TRUE
  /\ at' = "packets"
  /\ UNCHANGED <<recording, follow, store, index, last, lastTick, frames>>

\* The frame a decoder sent frames 1..i + 1 gives back.
HeldBack(i) == IF i = 0 THEN <<>> ELSE <<FramesOf(Entry)[i]>>

VideoPacket ==
  /\ at = "packets" /\ video < Len(FramesOf(Entry))
  /\ video' = video + 1
  /\ LET r == Sample(sampler, HeldBack(video))
     IN sampler' = r.s /\ frames' = frames \o r.kept
  /\ UNCHANGED <<recording, follow, store, at, index, last, audio, chunker, codec,
                 firstAudio, nextTick, lastTick, chunks, gaps>>

\* The samples not yet cut are dropped with the clock.
AnchoredUnflushed(t) ==
  IF firstAudio /\ ExpectedNext(chunker) # <<>> /\ Apart(t, ExpectedNext(chunker)[1]) > Reanchor
  THEN ResetOnly(chunker) ELSE [out |-> <<>>, c |-> chunker]

\* receive_audio_frames: the first frame of a segment checks the sample clock
\* against the index.
Anchored(t) ==
  IF firstAudio /\ ExpectedNext(chunker) # <<>> /\ Apart(t, ExpectedNext(chunker)[1]) > Reanchor
  THEN FlushAndReset(chunker) ELSE [out |-> <<>>, c |-> chunker]

AudioPacket ==
  /\ at = "packets" /\ audio < PacketsOf(Entry)
  /\ audio' = audio + 1 /\ firstAudio' = FALSE
  /\ LET t == Entry.t0 + 2 * audio
         a == Anchored(t)
         p == Push(a.c, t, Packet(last + 1, audio))
     IN chunker' = p.c /\ chunks' = chunks \o a.out \o p.out
  /\ UNCHANGED <<recording, follow, store, at, index, last, video, sampler, codec,
                 nextTick, lastTick, frames, gaps>>

\* The first due tick after a head.
TickAfter(head) == nextTick + TickEvery * ((head - nextTick) \div TickEvery + 1)

\* The video decoder is drained, the tick sent when the head passed its time.
EndSegment ==
  /\ at = "packets" /\ video = Len(FramesOf(Entry)) /\ audio = PacketsOf(Entry)
  /\ LET r == Sample(sampler, HeldBack(video))
     IN sampler' = r.s /\ frames' = frames \o r.kept
  /\ IF Entry.t1 >= nextTick
     THEN lastTick' = Entry.t1 /\ nextTick' = TickAfter(Entry.t1)
     ELSE UNCHANGED <<lastTick, nextTick>>
  /\ last' = last + 1 /\ at' = "find"
  /\ UNCHANGED <<recording, follow, store, index, video, audio, chunker, codec,
                 firstAudio, chunks, gaps>>

\* Nothing new in this copy of the index: wait for more, or finish.
Wait ==
  /\ at = "find" /\ last = index.listed /\ follow /\ ~index.ended
  /\ at' = "load"
  /\ UNCHANGED <<recording, follow, store, index, last, video, audio, sampler, chunker,
                 codec, firstAudio, nextTick, lastTick, frames, chunks, gaps>>

Finish ==
  /\ at = "find" /\ last = index.listed /\ (index.ended \/ ~follow)
  /\ IF last = 0 THEN at' = "failed" /\ UNCHANGED <<chunker, chunks, lastTick>>
     ELSE /\ at' = "done"
          /\ chunker' = Flush(chunker).c /\ chunks' = chunks \o Flush(chunker).out
          /\ lastTick' = recording[last].t1
  /\ UNCHANGED <<recording, follow, store, index, last, video, audio, sampler, codec,
                 firstAudio, nextTick, frames, gaps>>

\* poll_cancel, while waiting and every 64 packets.
Cancel ==
  /\ at \in {"find", "packets"}
  /\ at' = "cancelled"
  /\ UNCHANGED <<recording, follow, store, index, last, video, audio, sampler, chunker,
                 codec, firstAudio, nextTick, lastTick, frames, chunks, gaps>>

Next ==
  \/ Write \/ Load \/ Open \/ VideoPacket \/ AudioPacket \/ EndSegment \/ Wait \/ Finish
  \/ Cancel

Spec == Init /\ [][Next]_vars

-----------------------------------------------------------------------------
FramesUpTo(n) == FlattenSeq([k \in 1..n |-> FramesOf(recording[k])])

(* (P1) Wherever segments are cut, whatever holes lie between them, and    *)
(* however late the writer lists them: the frames of the segments read are *)
(* the first at or after each target (decode.rs:1130), none twice, and every*)
(* one before the last tick was sent before it (decode.rs:1845).  A pass   *)
(* that follows ends with the last segment the writer listed, however that *)
(* and the end mark fall between two polls.                                *)
FramesAsSampled ==
  LET wanted(n) == FirstAtTargets(recording[1].t0, Interval, Never, Eps, FramesUpTo(n))
  IN /\ at \in {"load", "find", "done"} => frames = wanted(last)
     /\ lastTick # -1 =>
          \A i \in DOMAIN wanted(Len(recording)) :
             LET f == wanted(Len(recording))[i]
             IN f < lastTick => \E j \in DOMAIN frames : frames[j] = f
     /\ \A i \in 2..Len(frames) : frames[i - 1] < frames[i]
     /\ at = "done" /\ follow => store.ended /\ last = store.listed

(* (P2) Over holes, discontinuities, codec changes and clocks that disagree*)
(* with the index: each sample read is in exactly one chunk or still to be *)
(* cut, in order, and the time a chunk claims for it is off by at most what*)
(* makes the clock re-anchor (decode.rs:1189, 937).                        *)
AudioIsWhole ==
  LET heard == FlattenSeq([i \in DOMAIN chunks |-> chunks[i].samples])
      whole == FlattenSeq([k \in 1..last |-> SamplesOf(k)])
      part == IF at = "packets"
              THEN SelectSeq(SamplesOf(last + 1), LAMBDA x : x[2] < 2 * audio) ELSE <<>>
  IN /\ at \notin {"cancelled", "failed"} => heard \o chunker.pending = whole \o part
     /\ at = "done" => chunker.pending = <<>>
     /\ \A i \in DOMAIN chunks : \A j \in DOMAIN chunks[i].samples :
          Apart(chunks[i].t0 + (j - 1), TimeOf(chunks[i].samples[j])) <= Reanchor

(* What protocol.rs:342 says of a tick, of the audio too.                  *)
AudioBeforeTicks ==
  \A k \in 1..last : \A i \in 1..recording[k].audio :
     TimeOf(<<k, i - 1>>) < lastTick =>
       \E c \in DOMAIN chunks : \E j \in DOMAIN chunks[c].samples :
          chunks[c].samples[j] = <<k, i - 1>>
=============================================================================
