------------------------------ MODULE MediaClock ------------------------------
(***************************************************************************)
(* The two clocks every decode runs on (decode.rs): FrameSampler picks the *)
(* frames a fixed rate keeps, AudioChunker cuts samples into overlapping   *)
(* chunks and times them by counting.  Times are integers.  A sample is    *)
(* whatever the caller says it is; resampling is the identity on the       *)
(* samples, their number at the output rate being the only thing counted.  *)
(***************************************************************************)
EXTENDS Integers, Sequences, SequencesExt

Apart(a, b) == IF a > b THEN a - b ELSE b - a

-----------------------------------------------------------------------------
Sampler(start, interval, end, eps) ==
  [next |-> start, interval |-> interval, end |-> end, eps |-> eps]

Done(s) == s.next >= s.end

Takes(s, t) == ~Done(s) /\ t + s.eps >= s.next

\* Past every target the frame satisfies.
AfterTake(s, t) ==
  [s EXCEPT !.next = @ + s.interval * ((t + s.eps - @) \div s.interval + 1)]

\* The frames of a sequence a sampler keeps, and the sampler after them.
Sample(s, frames) ==
  FoldLeft(LAMBDA st, t :
             IF Takes(st.s, t)
             THEN [s |-> AfterTake(st.s, t), kept |-> Append(st.kept, t)] ELSE st,
           [s |-> s, kept |-> <<>>], frames)

\* What a sampler should keep, without its state: the first frame at or after
\* each target, up to half a frame before it.
FirstAtTargets(start, interval, end, eps, frames) ==
  LET first(i, g) == /\ frames[i] + eps >= g
                     /\ \A j \in 1..(i - 1) : frames[j] + eps < g
      hit(i) == \E k \in 0..(frames[i] + eps) :
                  LET g == start + k * interval IN g < end /\ first(i, g)
  IN SelectSeq([i \in DOMAIN frames |-> IF hit(i) THEN frames[i] ELSE -1],
               LAMBDA t : t # -1)

-----------------------------------------------------------------------------
\* `base` is <<t>> once the first sample's time is known.
Chunker(chunk, hop) ==
  [chunk |-> chunk, hop |-> hop, pending |-> <<>>, start |-> 0, base |-> <<>>,
   chunks |-> 0]

Overlap(c) == c.chunk - c.hop

\* What expected_next returns: <<t>>, or <<>> with no clock yet.
ExpectedNext(c) ==
  IF c.base = <<>> THEN <<>> ELSE <<c.base[1] + c.start + Len(c.pending)>>

\* One chunk of the first n pending samples; the next one starts a hop later.
EmitChunk(c, n) ==
  LET drop == IF c.hop < n THEN c.hop ELSE n
  IN [out |-> [t0 |-> c.base[1] + c.start, samples |-> SubSeq(c.pending, 1, n)],
      c |-> [c EXCEPT !.pending = SubSeq(@, drop + 1, Len(@)), !.start = @ + drop,
                      !.chunks = @ + 1]]

\* Every full chunk: [out |-> the chunks, c |-> the chunker after them].
EmitFull(c) ==
  LET n == IF Len(c.pending) < c.chunk THEN 0 ELSE (Len(c.pending) - c.chunk) \div c.hop + 1
  IN FoldLeft(LAMBDA st, i : LET e == EmitChunk(st.c, c.chunk)
                             IN [out |-> Append(st.out, e.out), c |-> e.c],
              [out |-> <<>>, c |-> c], [i \in 1..n |-> i])

\* push: the first sample of the decoded frame sits at t.
Push(c, t, samples) ==
  EmitFull([c EXCEPT !.base = IF @ = <<>> THEN <<t>> ELSE @, !.pending = @ \o samples])

\* A partial chunk goes out when it holds more than the overlap.
Flush(c) ==
  LET e == EmitFull(c)
      n == Len(e.c.pending)
      l == EmitChunk(e.c, n)
  IN IF n > 0 /\ (e.c.chunks = 0 \/ n > Overlap(c))
     THEN [out |-> Append(e.out, l.out), c |-> l.c] ELSE e

\* Forget the clock; `chunks` goes on counting.
Reset(c) == [c EXCEPT !.pending = <<>>, !.start = 0, !.base = <<>>]

FlushAndReset(c) == LET e == Flush(c) IN [e EXCEPT !.c = Reset(@)]

\* The run that ends is dropped instead of flushed.
ResetOnly(c) == [out |-> <<>>, c |-> Reset(c)]
=============================================================================
