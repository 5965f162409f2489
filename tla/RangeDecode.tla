------------------------------ MODULE RangeDecode ------------------------------
(***************************************************************************)
(* The decodes of a window [t0, t1) (decode.rs): frames and audio of a     *)
(* file and of a recording in segments.  Each is a function of its input;  *)
(* a behaviour is one call and its answer.  Media as in LiveDecode: frames *)
(* every 2 units, one sample per unit in packets of two; the file holds    *)
(* the same frames, a keyframe first and then every KeyEvery frames.       *)
(***************************************************************************)
EXTENDS MediaClock

CONSTANTS
  Media,         \* sequences of [t0, t1, discontinuity, codec, audio]
  Windows,       \* pairs <<t0, t1>>; t1 = None for the rest of the media
  Intervals,     \* units between sampling targets
  KeyEvery, KeyframeHint,
  Piece, Overlaps, Reanchor, Lead, Never, None

VARIABLES call, answer

Period == 2
Eps == 1

FramesOf(s) == [i \in 1..((s.t1 - s.t0 + 1) \div Period) |-> s.t0 + Period * (i - 1)]
AllFrames(segments) == FlattenSeq([k \in DOMAIN segments |-> FramesOf(segments[k])])

End(t1) == IF t1 = None THEN Never ELSE t1

-----------------------------------------------------------------------------
(* Frames.                                                                 *)

\* seek: the frames from the last keyframe at or before a time.
From(frames, time) ==
  LET key(i) == (i - 1) % KeyEvery = 0 /\ frames[i] <= time
      at == CHOOSE i \in DOMAIN frames :
              key(i) /\ \A j \in DOMAIN frames : key(j) => j <= i
  IN SubSeq(frames, at, Len(frames))

\* t_end of a file: the window's end or the media's, whichever is first.
FileEnd(c) ==
  LET d == c.media[Len(c.media)].t1 IN IF End(c.t1) < d THEN End(c.t1) ELSE d

Seeking(c) == c.interval >= 2 * KeyframeHint

SequentialFrames(c) ==
  Sample(Sampler(c.t0, c.interval, FileEnd(c), Eps), From(AllFrames(c.media), c.t0)).kept

\* One seek per target; the first target no frame satisfies ends it.
SeekedFrames(c) ==
  LET target(k) == c.t0 + k * c.interval
      hits(k) == SelectSeq(From(AllFrames(c.media), target(k)),
                           LAMBDA t : t + Eps >= target(k))
      n == IF target(0) >= FileEnd(c) THEN 0 ELSE (FileEnd(c) - 1 - c.t0) \div c.interval + 1
      found == {m \in 0..n : \A k \in 0..(m - 1) : hits(k) # <<>>}
  IN [k \in 1..(CHOOSE m \in found : m + 1 \notin found) |-> hits(k - 1)[1]]

FileFrames(c) == IF Seeking(c) THEN SeekedFrames(c) ELSE SequentialFrames(c)

\* SegmentIndex::covering: the segments overlapping [t0, t1).
Covering(c) ==
  LET t1 == IF c.t1 = None THEN c.media[Len(c.media)].t1 ELSE c.t1
  IN SelectSeq(c.media, LAMBDA s : s.t1 > c.t0 /\ s.t0 < t1 /\ c.t0 < t1)

\* Only segments that hold a target are opened.
SegmentFrames(c) ==
  FoldLeft(LAMBDA st, e :
             IF Done(st.s) \/ st.s.next >= e.t1 THEN st
             ELSE LET r == Sample(st.s, FramesOf(e))
                  IN [s |-> r.s, kept |-> st.kept \o r.kept],
           [s |-> Sampler(c.t0, c.interval, End(c.t1), Eps), kept |-> <<>>],
           Covering(c)).kept

-----------------------------------------------------------------------------
(* Audio.  A run is what one sample clock times: the samples between two   *)
(* resets.                                                                 *)

PacketsOf(k, e) ==
  [i \in 1..((e.audio + 1) \div 2) |->
     [t |-> e.t0 + 2 * (i - 1),
      samples |-> SelectSeq([j \in 1..e.audio |-> <<k, e.t0 + j - 1>>],
                            LAMBDA x : (x[2] - e.t0) \div 2 = i - 1)]]

NewPass(c) ==
  [c |-> Chunker(Piece, Piece - c.overlap), chunks |-> <<>>, runs |-> <<<<>>>>,
   first |-> TRUE, prev |-> -1, codec |-> "none", stopped |-> FALSE]

\* The flush and reset that end a run.
NewRun(st) ==
  LET e == FlushAndReset(st.c)
  IN [st EXCEPT !.c = e.c, !.chunks = @ \o e.out, !.runs = Append(@, <<>>)]

\* receive_audio_frames under a range; `anchors` is whether it checks the
\* clock at the first frame of a segment, as only segments do.
Hear(c, anchors, st, p) ==
  IF st.stopped \/ p.t < c.t0 - Lead THEN st
  ELSE IF p.t >= End(c.t1) THEN [st EXCEPT !.stopped = TRUE]
  ELSE LET x == ExpectedNext(st.c)
           s == IF anchors /\ st.first /\ x # <<>> /\ Apart(p.t, x[1]) > Reanchor
                THEN NewRun(st) ELSE st
           e == Push(s.c, p.t, p.samples)
       IN [s EXCEPT !.c = e.c, !.chunks = @ \o e.out, !.first = FALSE,
                    !.runs[Len(s.runs)] = @ \o p.samples]

\* One segment: a hole, a discontinuity or another codec ends the run.
HearSegment(c, st, k) ==
  LET e == c.media[k]
      ends == \/ st.prev # -1 /\ e.t0 > st.prev
              \/ e.discontinuity
              \/ st.codec # "none" /\ st.codec # e.codec
      s == [IF ends THEN NewRun(st) ELSE st EXCEPT !.first = TRUE, !.codec = e.codec]
  IN IF st.stopped THEN st
     ELSE [FoldLeft(LAMBDA a, p : Hear(c, TRUE, a, p), s, PacketsOf(k, e)) EXCEPT !.prev = e.t1]

Heard(st) == [chunks |-> st.chunks \o Flush(st.c).out, runs |-> st.runs]

SegmentAudio(c) ==
  LET covered == {k \in DOMAIN c.media : \E i \in DOMAIN Covering(c) : Covering(c)[i] = c.media[k]}
      order == SelectSeq([k \in DOMAIN c.media |-> k], LAMBDA k : k \in covered)
  IN Heard(FoldLeft(LAMBDA st, k : HearSegment(c, st, k), NewPass(c), order))

\* A file's audio is that of its first segment, on one clock.
FileAudio(c) ==
  Heard(FoldLeft(LAMBDA st, p : Hear(c, FALSE, st, p), NewPass(c), PacketsOf(1, c.media[1])))

-----------------------------------------------------------------------------
Init ==
  /\ call \in [media : Media, t0 : {w[1] : w \in Windows}, t1 : {w[2] : w \in Windows},
               interval : Intervals, overlap : Overlaps]
  /\ <<call.t0, call.t1>> \in Windows
  /\ answer = None

Decode ==
  /\ answer = None
  /\ answer' = [file |-> FileFrames(call), segments |-> SegmentFrames(call),
                fileAudio |-> FileAudio(call), audio |-> SegmentAudio(call)]
  /\ UNCHANGED call

Next == Decode

Spec == Init /\ [][Next]_<<call, answer>>

-----------------------------------------------------------------------------
\* The segments of the media a window touches, found without `covering`.
Touched == SelectSeq(call.media, LAMBDA s : \E t \in call.t0..(End(call.t1) - 1) :
                                              s.t0 <= t /\ t < s.t1)

(* (P1) Seeking or reading on, from a file or from segments opened one by  *)
(* one or skipped: a window has the frames that are the first at or after  *)
(* a target in it (decode.rs:1130, 1536).                                  *)
WindowsAgree ==
  answer # None =>
    /\ answer.segments = FirstAtTargets(call.t0, call.interval, End(call.t1), Eps,
                                        AllFrames(Touched))
    /\ ToSet(answer.file) = ToSet(FirstAtTargets(call.t0, call.interval, FileEnd(call), Eps,
                                                 AllFrames(call.media)))

InSome(chunks, x) == \E i \in DOMAIN chunks : \E j \in DOMAIN chunks[i].samples :
                       chunks[i].samples[j] = x

\* A file's samples and a recording's are on the clock they claim.
OnClock(chunks) ==
  \A i \in DOMAIN chunks : \A j \in DOMAIN chunks[i].samples :
     Apart(chunks[i].t0 + (j - 1), chunks[i].samples[j][2]) <= Reanchor

(* (P2) Over segment cuts, holes, codec changes and drift: each chunk says *)
(* when its samples were recorded, every sample of the window is heard by  *)
(* some run, and all of a run that is longer than the overlap, or is the   *)
(* first, reaches a chunk (decode.rs:1314, 1588).                          *)
AudioWindowsAreWhole ==
  answer # None =>
    /\ OnClock(answer.audio.chunks) /\ OnClock(answer.fileAudio.chunks)
    /\ \A k \in DOMAIN call.media : \A i \in DOMAIN PacketsOf(k, call.media[k]) :
         LET p == PacketsOf(k, call.media[k])[i]
         IN \A j \in DOMAIN p.samples :
              p.samples[j][2] >= call.t0 /\ p.t < End(call.t1)
              /\ (\E m \in DOMAIN Touched : Touched[m] = call.media[k]) =>
                \E r \in DOMAIN answer.audio.runs :
                  Contains(answer.audio.runs[r], p.samples[j])
    /\ \A a \in {answer.audio, answer.fileAudio} : \A r \in DOMAIN a.runs :
         Len(a.runs[r]) > call.overlap \/ r = 1 =>
           \A i \in DOMAIN a.runs[r] : InSome(a.chunks, a.runs[r][i])

(* What decode.rs:1313 says a final piece no longer than the overlap is:   *)
(* "entirely inside the previous chunk".                                   *)
DroppedTailsWereHeard ==
  answer # None =>
    \A r \in DOMAIN answer.audio.runs : \A i \in DOMAIN answer.audio.runs[r] :
       InSome(answer.audio.chunks, answer.audio.runs[r][i])
=============================================================================
