-------------------------------- MODULE Shots --------------------------------
(***************************************************************************)
(* Cut detection and the shots written from it: ShotDetector               *)
(* (vi-perceive/src/shot.rs:249-370) and the shot_boundary operator        *)
(* (ops/shot_boundary.rs), which a batch job runs to its finish and a live *)
(* job also ticks.  Distances are whole percents and times whole numbers,  *)
(* so that mean and deviation are compared without rounding.               *)
(***************************************************************************)
EXTENDS Integers, Sequences, SequencesExt, FiniteSets

CONSTANTS
  MinDistance, HardDistance,   \* percent
  Remembered,                  \* ShotParams::window
  MinShotSamples,
  Distances,                   \* what two consecutive samples may differ by
  MaxSamples, MaxHead          \* bounds: samples, and ticks ahead of the last

VARIABLES
  live,          \* the job ticks
  samples,       \* times of the frames seen
  cuts,          \* ordinals of the samples that start a shot, from 0
  since, recent, \* since_cut and the distances remembered
  head,          \* of the last tick; 0 before the first
  shots,         \* rows of the shot level: [t0, t1, key], their ids their places
  ticked,        \* whether the job has LiveShots
  emitted,       \* shots sent downstream: [id, t0, t1]
  replayed,      \* shots a later job's replay sends
  stage          \* "running", "finished", "replayed"

vars == <<live, samples, cuts, since, recent, head, shots, ticked, emitted, replayed, stage>>

Sum(s) == FoldLeft(+, 0, s)
Most(a, b) == IF a > b THEN a ELSE b

\* d above 2.5 times the mean of r, the mean taken for 2 percent at least.
AboveRatio(d, r) == 2 * Len(r) * d > 5 * Most(Sum(r), 2 * Len(r))

\* d above the mean of r and three deviations: both sides times Len(r).
AboveDeviation(d, r) ==
  LET n == Len(r)
      squares == Sum([i \in DOMAIN r |-> r[i] * r[i]])
  IN /\ n * d > Sum(r)
     /\ (n * d - Sum(r)) * (n * d - Sum(r)) > 9 * (n * squares - Sum(r) * Sum(r))

\* ShotDetector::push: whether a sample at distance d from the one before cuts.
Cuts(d, r, sinceCut) ==
  /\ d >= MinDistance
  /\ \/ d >= HardDistance
     \/ IF Len(r) >= 3 THEN AboveDeviation(d, r) /\ AboveRatio(d, r)
        ELSE 2 * d >= MinDistance + HardDistance
  /\ sinceCut > MinShotSamples

Init ==
  /\ live \in BOOLEAN
  /\ samples = <<>> /\ cuts = <<>> /\ since = 0 /\ recent = <<>>
  /\ head = 0 /\ shots = <<>> /\ ticked = FALSE /\ emitted = <<>> /\ replayed = <<>>
  /\ stage = "running"

Frame(gap, d) ==
  /\ stage = "running" /\ Len(samples) < MaxSamples
  /\ samples' = Append(samples, IF samples = <<>> THEN gap - 1 ELSE Last(samples) + gap)
  /\ IF samples = <<>> THEN since' = since + 1 /\ UNCHANGED <<cuts, recent>>
     ELSE IF Cuts(d, recent, since + 1)
     THEN cuts' = Append(cuts, Len(samples)) /\ since' = 0 /\ recent' = <<>>
     ELSE /\ since' = since + 1 /\ UNCHANGED cuts
          /\ recent' = IF Len(recent) < Remembered THEN Append(recent, d)
                       ELSE Append(Tail(recent), d)
  /\ UNCHANGED <<live, head, shots, ticked, emitted, replayed, stage>>

Starts == <<0>> \o cuts
At(i) == samples[Starts[i] + 1]

Shot(i, from, end) ==
  [t0 |-> IF i = 1 THEN from ELSE At(i),
   t1 |-> IF i < Len(Starts) THEN At(i + 1) ELSE Most(end, Last(samples)),
   key |-> Starts[i] + 1]

\* A shot of no length is passed over, one that has a row gets its new end.
Put(rows, i, s) ==
  IF s.t1 <= s.t0 THEN rows
  ELSE IF i \in DOMAIN rows THEN [rows EXCEPT ![i].t1 = s.t1] ELSE Append(rows, s)

Putting(rows, from, end) ==
  LET put[i \in 0..Len(Starts)] ==
        IF i = 0 THEN rows ELSE Put(put[i - 1], i, Shot(i, from, end))
  IN put

\* The rows once the shots of the samples and cuts are written over them.
Written(rows, from, end) == Putting(rows, from, end)[Len(Starts)]

\* All the shots written are counted as closed.
ClosedAtOnce(count, all) == count

\* Every shot but the last is closed, all when the stream ended.
Closed(count, all) == IF all \/ count = 0 THEN count ELSE count - 1

Row(i, rows) == [id |-> i, t0 |-> rows[i].t0, t1 |-> rows[i].t1]

\* sync_live: what was not sent yet of the closed shots is sent.
SyncLive(end, all) ==
  LET level == Written(shots, samples[1], end)
      sent == Len(emitted)
      closed == Most(Closed(Len(level), all), sent)
  IN /\ shots' = level /\ ticked' = TRUE
     /\ emitted' = [i \in 1..closed |-> IF i <= sent THEN emitted[i] ELSE Row(i, level)]

Tick(ahead) ==
  /\ stage = "running" /\ live
  /\ LET now == (IF samples = <<>> THEN 0 ELSE Last(samples)) + ahead
     IN /\ now >= head
        /\ IF samples = <<>> THEN UNCHANGED <<head, shots, ticked, emitted>>
           ELSE head' = now /\ SyncLive(now, FALSE)
  /\ UNCHANGED <<live, samples, cuts, since, recent, replayed, stage>>

\* finish of a job that ticked: the open shot ends at the head.
FinishLive ==
  /\ stage = "running" /\ ticked
  /\ SyncLive(head, TRUE)
  /\ stage' = "finished"
  /\ UNCHANGED <<live, samples, cuts, since, recent, head, replayed>>

\* finish of one that did not: the level is replaced, from 0 to the duration.
FinishBatch(duration) ==
  /\ stage = "running" /\ ~ticked
  /\ IF samples = <<>> THEN shots' = <<>> /\ UNCHANGED emitted
     ELSE /\ shots' = Written(<<>>, 0, duration)
          /\ emitted' = [i \in DOMAIN shots' |-> Row(i, shots')]
  /\ stage' = "finished"
  /\ UNCHANGED <<live, samples, cuts, since, recent, head, ticked, replayed>>

\* A later job that takes the stage from the cache.
Replay ==
  /\ stage = "finished" /\ stage' = "replayed"
  /\ replayed' = [i \in DOMAIN shots |-> Row(i, shots)]
  /\ UNCHANGED <<live, samples, cuts, since, recent, head, shots, ticked, emitted>>

Next ==
  \/ \E gap \in {1, 2}, d \in Distances : Frame(gap, d)
  \/ \E ahead \in 0..MaxHead : Tick(ahead)
  \/ FinishLive
  \/ \E duration \in {0, 2 * MaxSamples + 1} : FinishBatch(duration)
  \/ Replay

Spec == Init /\ [][Next]_vars

-----------------------------------------------------------------------------
(* (P1) However ticks fall between frames and cuts: what was sent          *)
(* downstream is what is stored, each shot once, in order and without a    *)
(* gap; a finished job sent every shot, a replay sends the same again; and *)
(* the shots are those one pass over all the samples makes.                *)
ShotsAreFinal ==
  /\ \A i \in DOMAIN emitted :
       i \in DOMAIN shots /\ emitted[i] = Row(i, shots)
  /\ \A i \in 2..Len(shots) : shots[i].t0 = shots[i - 1].t1
  /\ stage # "running" =>
       /\ Len(emitted) = Len(shots)
       /\ \A i \in DOMAIN cuts : shots[i].t1 = samples[cuts[i] + 1]
       /\ \A i \in DOMAIN shots : shots[i].key = Starts[i] + 1
       /\ shots # <<>> => Last(shots).t1 >= Last(samples)
  /\ stage = "replayed" => replayed = emitted
=============================================================================
