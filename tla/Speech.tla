------------------------------- MODULE Speech -------------------------------
(***************************************************************************)
(* Voice activity detection over one stream of audio, twice: as the batch  *)
(* operator computes it (vi-perceive/src/vad.rs: segment) and as the live  *)
(* one does, chunk by chunk (ops/vad_stream.rs).  Time is counted in model *)
(* windows; a chunk is one window, and what a window scores is "off" below *)
(* neg_threshold, "on" from threshold, "between" otherwise.                *)
(***************************************************************************)
EXTENDS Integers, Sequences, SequencesExt, FiniteSets

CONSTANTS
  MinSilence, MinSpeech, Pad,   \* of VadConfig, in windows
  MaxUtterance,                 \* MAX_UTTERANCE_SECS
  FlushAfter,                   \* FLUSH_AFTER_SILENCE_SECS
  MaxSegment,                   \* max_segment_secs of the batch detector
  MaxWindows,                   \* bound: windows in the stream
  Slack,                        \* windows trim keeps beyond the rest
  MaxStretches,                 \* bound: stretches of audio between jumps
  MaxJump,                      \* bound: windows a chunk's time jumps by
  MaxLag                        \* audio a tick's head may be ahead of: what the
                                \* decoder has not cut into a chunk yet

VARIABLES
  heard,         \* sequence of stretches [t, levels] without a jump
  clock,         \* Segmenter: the time of the next window
  inSpeech, run, \* run: <<start, end>> or <<>>
  pcmStart, pcmEnd,
  lastEnd,       \* end of the last utterance emitted
  closed,        \* every run closed so far, before the short ones are dropped
  out,           \* what was emitted: [said |-> the run, t0, t1]
  ticked,        \* the latest head a tick brought
  ended

vars == <<heard, clock, inSpeech, run, pcmStart, pcmEnd, lastEnd, closed, out, ticked,
          ended>>

Least(a, b) == IF a < b THEN a ELSE b
Most(a, b) == IF a > b THEN a ELSE b

-----------------------------------------------------------------------------
(* The batch operator decodes the whole track: chunks follow each other    *)
(* from the time of the first (ops/vad.rs).  The last window may be short. *)
Track == [start |-> heard[1].t, levels |-> heard[1].levels]

\* score_batched: parts of the track are scored in lockstep, window j of each
\* part at once; windows of a part past the end are silence, and are cut off.
Scores(levels, batch) ==
  LET perPart == (Len(levels) + batch - 1) \div batch
      parts == (Len(levels) + perPart - 1) \div perPart
      at(i) == IF i <= Len(levels) THEN levels[i] ELSE "off"
      lockstep == FoldLeft(LAMBDA scored, j :
                             [i \in DOMAIN scored |->
                                IF (i - 1) % perPart = j - 1 THEN at(i) ELSE scored[i]],
                           [i \in 1..(parts * perPart) |-> "off"], [j \in 1..perPart |-> j])
  IN IF levels = <<>> THEN <<>> ELSE SubSeq(lockstep, 1, Len(levels))

(* The batch detector.  A run is <<start, end>>, end exclusive.            *)

\* Hysteresis: a run starts at "on" and ends at "off".
RawRuns(levels) ==
  LET step(st, i) ==
        IF ~st.speech /\ levels[i] = "on" THEN [st EXCEPT !.speech = TRUE, !.start = i - 1]
        ELSE IF st.speech /\ levels[i] = "off"
        THEN [st EXCEPT !.speech = FALSE, !.runs = Append(@, <<st.start, i - 1>>)]
        ELSE st
      last == FoldLeft(step, [speech |-> FALSE, start |-> 0, runs |-> <<>>],
                       [i \in DOMAIN levels |-> i])
  IN IF last.speech THEN Append(last.runs, <<last.start, Len(levels)>>) ELSE last.runs

\* Runs closer than min_silence are one.
MergedRuns(levels) ==
  FoldLeft(LAMBDA runs, r :
             IF runs # <<>> /\ r[1] - Last(runs)[2] < MinSilence
             THEN [runs EXCEPT ![Len(runs)][2] = r[2]] ELSE Append(runs, r),
           <<>>, RawRuns(levels))

KeptRuns(levels) == SelectSeq(MergedRuns(levels), LAMBDA r : r[2] - r[1] >= Most(MinSpeech, 1))

Loudness(l) == CASE l = "off" -> 0 [] l = "between" -> 1 [] OTHER -> 2

\* A run over max_segment_secs is cut at its quietest window from a third on.
RECURSIVE Split(_, _)
Split(levels, r) ==
  LET max == Most(MaxSegment, 2 * Most(MinSpeech, 1))
      lo == r[1] + Least(r[2] - r[1], max) \div 3
      hi == Least(r[1] + max, r[2] - 1)
      quiet(i) == \A j \in lo..(hi - 1) :
                    \/ Loudness(levels[i + 1]) < Loudness(levels[j + 1])
                    \/ Loudness(levels[i + 1]) = Loudness(levels[j + 1]) /\ i <= j
      cut == IF lo < hi THEN CHOOSE i \in lo..(hi - 1) : quiet(i) ELSE hi
  IN IF r[2] - r[1] <= max THEN <<r>>
     ELSE <<<<r[1], cut>>>> \o Split(levels, <<cut, r[2]>>)

Pieces(levels) ==
  LET kept == KeptRuns(levels)
  IN FlattenSeq([i \in DOMAIN kept |-> Split(levels, kept[i])])

\* In half windows.
Padded(levels, r) == [t0 |-> 2 * Most(r[1] - Pad, 0),
                      t1 |-> 2 * Least(r[2] + Pad, Len(levels))]

Middle(levels, p, q) == (Padded(levels, p).t1 + Padded(levels, q).t0) \div 2

\* Padded, and neighbours that then overlap share the middle.
BatchSegments(levels) ==
  LET pieces == Pieces(levels)
      own(i) == Padded(levels, pieces[i])
      meet(i) == i \in 1..(Len(pieces) - 1) /\ own(i + 1).t0 < own(i).t1
  IN [i \in DOMAIN pieces |->
        [t0 |-> IF meet(i - 1) THEN Middle(levels, pieces[i - 1], pieces[i]) ELSE own(i).t0,
         t1 |-> IF meet(i) THEN Middle(levels, pieces[i], pieces[i + 1]) ELSE own(i).t1]]

\* What vad emits of a track of `total` half windows of samples: the speech
\* ranges with the samples from `a` to `b`, a range past the samples left out.
SpeechItems(segments, total) ==
  LET a(i) == Least(segments[i].t0, total)
      b(i) == Most(a(i), Least(segments[i].t1, total))
      item(i) == [t0 |-> segments[i].t0, t1 |-> segments[i].t1, a |-> a(i), b |-> b(i),
                  index |-> i]
  IN SelectSeq([i \in DOMAIN segments |-> item(i)], LAMBDA s : s.a < s.b)

-----------------------------------------------------------------------------
(* The live detector.                                                      *)

Init ==
  /\ heard = <<>> /\ clock = 0 /\ inSpeech = FALSE /\ run = <<>>
  /\ pcmStart = 0 /\ pcmEnd = 0 /\ lastEnd = -1
  /\ closed = <<>> /\ out = <<>> /\ ticked = 0 /\ ended = FALSE

\* The silence is measured from the start of the run.
ScoredFromStart(r, speech, t, level) ==
  IF r # <<>> /\ ~speech /\ level = "on"
  THEN IF t - r[1] < MinSilence
       THEN [run |-> <<r[1], t + 1>>, inSpeech |-> TRUE, ready |-> <<>>]
       ELSE [run |-> <<t, t + 1>>, inSpeech |-> TRUE, ready |-> <<r>>]
  ELSE IF r = <<>>
  THEN IF level = "on" THEN [run |-> <<t, t + 1>>, inSpeech |-> TRUE, ready |-> <<>>]
       ELSE [run |-> <<>>, inSpeech |-> speech, ready |-> <<>>]
  ELSE [run |-> IF speech /\ level # "off" THEN <<r[1], t + 1>> ELSE r,
        inSpeech |-> speech /\ level # "off", ready |-> <<>>]

\* Segmenter::push for the window [t, t + 1): [run, inSpeech, ready].
Scored(r, speech, t, level) ==
  CASE r = <<>> ->
         IF level = "on" THEN [run |-> <<t, t + 1>>, inSpeech |-> TRUE, ready |-> <<>>]
         ELSE [run |-> <<>>, inSpeech |-> speech, ready |-> <<>>]
    [] r # <<>> /\ speech ->
         IF level = "off" THEN [run |-> r, inSpeech |-> FALSE, ready |-> <<>>]
         ELSE IF t + 1 - r[1] > MaxUtterance
         THEN [run |-> <<t, t + 1>>, inSpeech |-> TRUE, ready |-> <<r>>]
         ELSE [run |-> <<r[1], t + 1>>, inSpeech |-> TRUE, ready |-> <<>>]
    [] OTHER ->
         IF level = "on"
         THEN IF t - r[2] < MinSilence
              THEN [run |-> <<r[1], t + 1>>, inSpeech |-> TRUE, ready |-> <<>>]
              ELSE [run |-> <<t, t + 1>>, inSpeech |-> TRUE, ready |-> <<r>>]
         ELSE IF t + 1 - r[2] >= FlushAfter
         THEN [run |-> <<>>, inSpeech |-> FALSE, ready |-> <<r>>]
         ELSE [run |-> r, inSpeech |-> FALSE, ready |-> <<>>]

\* emit_ready: short runs dropped, the rest padded within the audio kept, after
\* the utterance before and to the longest utterance.
Emitted(ready, from, to, after) ==
  FoldLeft(LAMBDA st, r :
             LET t0 == Most(Most(r[1] - Pad, from), st.last)
                 t1 == Least(Least(r[2] + Pad, to), t0 + MaxUtterance)
             IN IF r[2] - r[1] < Most(MinSpeech, 1) \/ t1 <= t0 THEN st
                ELSE [out |-> Append(st.out, [said |-> r, t0 |-> t0, t1 |-> t1]), last |-> t1],
           [out |-> <<>>, last |-> after], ready)

\* The oldest audio an utterance still open can need.
Keep == MaxUtterance + FlushAfter + 2 * Pad + Slack
Floor(r, end) == IF r = <<>> THEN end - Keep ELSE Least(r[1] - Pad, end - Keep)

\* A chunk at the time expected, or after a jump, which ends what was said.
TakeChunk(level, jump) ==
  /\ ~ended /\ clock < MaxWindows /\ clock + jump + MaxLag >= ticked
  /\ jump > 0 => Len(heard) < MaxStretches
  /\ LET anchored == heard # <<>>
         fresh == jump > 0 \/ ~anchored
         t == clock + jump
         left == IF fresh /\ run # <<>> THEN <<run>> ELSE <<>>
         e1 == Emitted(left, pcmStart, pcmEnd, lastEnd)
         s == IF fresh THEN Scored(<<>>, FALSE, t, level) ELSE Scored(run, inSpeech, t, level)
         from == IF fresh THEN t ELSE pcmStart
         e2 == Emitted(s.ready, from, t + 1, e1.last)
     IN /\ heard' = IF fresh THEN Append(heard, [t |-> t, levels |-> <<level>>])
                    ELSE [heard EXCEPT ![Len(heard)].levels = Append(@, level)]
        /\ run' = s.run /\ inSpeech' = s.inSpeech
        /\ closed' = closed \o left \o s.ready
        /\ out' = out \o e1.out \o e2.out /\ lastEnd' = e2.last
        /\ clock' = t + 1 /\ pcmEnd' = t + 1
        /\ pcmStart' = Most(from, Floor(s.run, t + 1))
  /\ UNCHANGED <<ticked, ended>>

\* A tick flushes a run whose speech ended long enough before the head.
Tick(head) ==
  /\ ~ended /\ heard # <<>> /\ run # <<>> /\ ~inSpeech /\ head - run[2] >= FlushAfter
  /\ LET e == Emitted(<<run>>, pcmStart, pcmEnd, lastEnd)
     IN out' = out \o e.out /\ lastEnd' = e.last
  /\ closed' = Append(closed, run) /\ run' = <<>> /\ ticked' = head
  /\ UNCHANGED <<heard, clock, inSpeech, pcmStart, pcmEnd, ended>>

Finish ==
  /\ ~ended /\ ended' = TRUE
  /\ LET e == Emitted(IF run = <<>> THEN <<>> ELSE <<run>>, pcmStart, pcmEnd, lastEnd)
     IN out' = out \o e.out /\ lastEnd' = e.last
  /\ closed' = IF run = <<>> THEN closed ELSE Append(closed, run)
  /\ run' = <<>> /\ inSpeech' = FALSE
  /\ UNCHANGED <<heard, clock, pcmStart, pcmEnd, ticked>>

Next ==
  \/ \E level \in {"on", "off", "between"}, jump \in 0..MaxJump : TakeChunk(level, jump)
  \/ \E head \in clock..(clock + FlushAfter) : Tick(head)
  \/ Finish

Spec == Init /\ [][Next]_vars

-----------------------------------------------------------------------------
WindowsOf(r) == r[1]..(r[2] - 1)
Windows(runs) == UNION {WindowsOf(runs[i]) : i \in DOMAIN runs}
Shifted(runs, t) == {t + w : w \in Windows(runs)}

(* (P1) Whatever the chunks, ticks and jumps: the windows the live detector*)
(* counts to utterances are those the batch detector merges into runs over *)
(* the same scores; what it emits is in order, disjoint, at most the       *)
(* longest utterance; and no run waits longer than the flush allows        *)
(* (vad_stream.rs:4-7).                                                    *)
LiveHearsAsBatch ==
  LET live == Windows(closed) \cup (IF run = <<>> THEN {} ELSE WindowsOf(run))
      batch == UNION {Shifted(MergedRuns(heard[i].levels), heard[i].t) : i \in DOMAIN heard}
  IN /\ live = batch
     /\ \A i \in DOMAIN out : /\ out[i].t0 < out[i].t1
                              /\ out[i].t1 - out[i].t0 <= MaxUtterance
                              /\ i > 1 => out[i - 1].t1 <= out[i].t0
     /\ run # <<>> /\ ~inSpeech => clock - run[2] < FlushAfter

(* (P2) Scoring in parts, cutting, padding and sharing of paddings by the  *)
(* batch detector lose no window of a run it keeps and leave the segments  *)
(* disjoint (vad.rs:262-290): however the samples end within the last      *)
(* window, every sample of kept speech is in one range that goes           *)
(* downstream, at its time.                                                *)
BatchKeepsSpeech ==
  ended /\ heard # <<>> =>
    LET n == Len(Track.levels)
    IN \A segments \in {BatchSegments(Scores(Track.levels, 3))}, total \in {2 * n - 1, 2 * n} :
         \A s \in {SpeechItems(segments, total)} :
           /\ \A w \in Windows(KeptRuns(Track.levels)) : \A half \in {2 * w, 2 * w + 1} :
                half < total => Cardinality({i \in DOMAIN s : s[i].a <= half /\ half < s[i].b}) = 1
           /\ \A i \in DOMAIN s : s[i].a = s[i].t0
           /\ \A i \in 2..Len(s) : s[i - 1].t1 <= s[i].t0

(* What vad_stream.rs:137 says of speech cut at the longest utterance: the *)
(* pieces stay contiguous.                                                 *)
PiecesStayContiguous ==
  \A i \in 2..Len(out) :
    out[i].said[1] = out[i - 1].said[2] => out[i - 1].t1 = out[i].t0
=============================================================================
