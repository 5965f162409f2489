---------------------------- MODULE Segmentation ----------------------------
(***************************************************************************)
(* How a video's shots become scenes and its scenes chapters: the pure     *)
(* parts of ops/scenes.rs (split_long_shots, group, the ranges and parents *)
(* finish writes) and of ops/chapters.rs (choose_boundaries, the ranges).  *)
(* `group` edits a list in place while it walks over it; its two loops are *)
(* actions here.  Times are whole units; a similarity is one of three      *)
(* looks, and a boundary's strength is counted in twentieths.              *)
(***************************************************************************)
EXTENDS Naturals, Sequences, FiniteSets, SequencesExt

CONSTANTS
  MinScene, MaxScene,        \* MIN_SCENE_SECS, MAX_SCENE_SECS
  MinChapter, TargetChapter, \* MIN_CHAPTER_SECS, TARGET_CHAPTER_SECS
  Snap,                      \* how far a cut moves to a span's start (10 s)
  ShotLengths,               \* bound: the lengths of a shot
  MaxShots,                  \* bound: the shots of a video
  Spans                      \* bound: transcript spans <<start, end>> a video may have

VARIABLES
  shots,    \* the shots: <<start, end>>, without gaps from 0 to the duration
  spans,    \* the transcript spans
  pieces,   \* the shots, the long ones cut
  looks,    \* of each boundary of two pieces: "alike", "unknown", "different"
  scenes,   \* the groups: <<first piece, piece after the last>>
  at,       \* `i`, the scene a loop looks at
  merged,   \* whether this pass over the scenes merged any
  phase,    \* "merging", "joining", "choosing", "done"
  untried,  \* the scenes that may start a chapter, not yet tried
  starts    \* the scenes that start a chapter

vars == <<shots, spans, pieces, looks, scenes, at, merged, phase, untried, starts>>

Duration(ranges) == ranges[Len(ranges)][2]
Distance(x, y) == IF x > y THEN x - y ELSE y - x
Rounded(a, b) == (2 * a + b) \div (2 * b)
AtLeast(x, y) == IF x > y THEN x ELSE y

-----------------------------------------------------------------------------
(* split_long_shots: equal pieces of about two thirds of MaxScene, each    *)
(* cut moved to the nearest span start within Snap, inside the shot.       *)
Snapped(cut, shot) ==
  LET near == {s \in {span[1] : span \in spans} :
                 Distance(s, cut) <= Snap /\ s > shot[1] + 1 /\ s + 1 < shot[2]}
  IN IF near = {} THEN cut
     ELSE CHOOSE s \in near : \A other \in near : Distance(s, cut) <= Distance(other, cut)
PiecesOf(shot) ==
  LET length == shot[2] - shot[1]
      n == IF length <= MaxScene THEN 1 ELSE AtLeast(Rounded(3 * length, 2 * MaxScene), 2)
      edge(i) == IF i = 0 THEN shot[1] ELSE IF i = n THEN shot[2]
                 ELSE Snapped(shot[1] + (length * i) \div n, shot)
  IN [i \in 1..n |-> <<edge(i - 1), edge(i)>>]
SplitLongShots == FlattenSeq([k \in 1..Len(shots) |-> PiecesOf(shots[k])])

(* boundary_strength, and the crossing of finish. *)
Crossed(b) == \E s \in spans : s[1] < pieces[b][2] /\ pieces[b][2] < s[2]
Strength(b) ==
  LET look == CASE looks[b] = "alike" -> 2
                [] looks[b] = "unknown" -> 10
                [] looks[b] = "different" -> 18
  IN IF Crossed(b) THEN look \div 2 ELSE look
Weak(b) == Strength(b) < 10

Length(first, next) == pieces[next - 1][2] - pieces[first][1]
SceneLength(i) == Length(scenes[i][1], scenes[i][2])
Short(i) == SceneLength(i) < MinScene
(* Scenes i and i + 1 become one. *)
WithNext(i) ==
  SubSeq(scenes, 1, i - 1) \o << <<scenes[i][1], scenes[i + 1][2]>> >>
    \o SubSeq(scenes, i + 2, Len(scenes))

-----------------------------------------------------------------------------
Ranges(lengths) ==
  [k \in 1..Len(lengths) |->
     LET before == FoldLeft(LAMBDA a, b : a + b, 0, SubSeq(lengths, 1, k - 1))
     IN <<before, before + lengths[k]>>]
Init ==
  /\ \E n \in 1..MaxShots : \E lengths \in [1..n -> ShotLengths] : shots = Ranges(lengths)
  /\ spans \in SUBSET Spans
  /\ pieces = SplitLongShots
  /\ looks \in [1..(Len(pieces) - 1) -> {"alike", "unknown", "different"}]
  /\ scenes = [i \in 1..Len(pieces) |-> <<i, i + 1>>]
  /\ at = 1 /\ merged = FALSE /\ phase = "merging"
  /\ untried = {} /\ starts = {}

(* group, step 1: neighbours merge over a weak boundary, or when one of    *)
(* them is short, while the result stays under the longest scene.          *)
Merges(i) ==
  /\ Weak(scenes[i][2] - 1) \/ Short(i) \/ Short(i + 1)
  /\ Length(scenes[i][1], scenes[i + 1][2]) <= MaxScene
Merge ==
  /\ phase = "merging" /\ at < Len(scenes)
  /\ IF Merges(at)
     THEN scenes' = WithNext(at) /\ merged' = TRUE /\ UNCHANGED at
     ELSE at' = at + 1 /\ UNCHANGED <<scenes, merged>>
  /\ UNCHANGED <<shots, spans, pieces, looks, phase, untried, starts>>
NextPass ==
  /\ phase = "merging" /\ at >= Len(scenes)
  /\ phase' = IF merged THEN "merging" ELSE "joining"
  /\ at' = 1 /\ merged' = FALSE
  /\ UNCHANGED <<shots, spans, pieces, looks, scenes, untried, starts>>

(* group, step 2: a scene still short joins the neighbour its boundary is  *)
(* weaker to, past the longest scene if need be.                           *)
JoinsLeft(i) ==
  i > 1 /\ (i = Len(scenes) \/ Strength(scenes[i][1] - 1) <= Strength(scenes[i][2] - 1))
Join ==
  /\ phase = "joining" /\ Len(scenes) > 1 /\ at <= Len(scenes)
  /\ IF Short(at)
     THEN scenes' = WithNext(IF JoinsLeft(at) THEN at - 1 ELSE at) /\ UNCHANGED at
     ELSE at' = at + 1 /\ UNCHANGED scenes
  /\ UNCHANGED <<shots, spans, pieces, looks, merged, phase, untried, starts>>

-----------------------------------------------------------------------------
(* The rows finish writes: the first scene starts at 0, the last ends at   *)
(* the duration; a shot's parent is the scene its start is in.             *)
SceneRow(i) ==
  <<IF i = 1 THEN 0 ELSE pieces[scenes[i][1]][1],
    IF i = Len(scenes) THEN AtLeast(pieces[scenes[i][2] - 1][2], Duration(shots))
    ELSE pieces[scenes[i][2] - 1][2]>>
Parents(shot) ==
  {i \in 1..Len(scenes) : SceneRow(i)[1] <= shot[1] /\ shot[1] < SceneRow(i)[2]}

(* choose_boundaries: as many chapters as the duration asks for, the       *)
(* boundaries taken by score (here in any order), none that makes a        *)
(* chapter too short.                                                      *)
Wanted ==
  LET total == SceneRow(Len(scenes))[2] - SceneRow(1)[1]
  IN AtLeast(Rounded(total, TargetChapter), 1)
LongEnoughButLast(chosen) ==  \* the last chapter is not measured
  \A s, e \in chosen : s < e => SceneRow(e)[1] - SceneRow(s)[1] >= MinChapter
LongEnough(chosen) ==
  /\ \A s, e \in chosen : s < e => SceneRow(e)[1] - SceneRow(s)[1] >= MinChapter
  /\ \A s \in chosen : SceneRow(Len(scenes))[2] - SceneRow(s)[1] >= MinChapter
Choose ==
  /\ phase = "joining" /\ (Len(scenes) <= 1 \/ at > Len(scenes))
  /\ phase' = "choosing" /\ starts' = {1}
  /\ untried' = 2..Len(scenes)
  /\ UNCHANGED <<shots, spans, pieces, looks, scenes, at, merged>>
TakeBoundary ==
  /\ phase = "choosing"
  /\ IF untried = {} \/ Cardinality(starts) >= Wanted
     THEN phase' = "done" /\ UNCHANGED <<untried, starts>>
     ELSE \E best \in untried :
            /\ starts' = IF LongEnough(starts \cup {best}) THEN starts \cup {best} ELSE starts
            /\ untried' = untried \ {best}
            /\ UNCHANGED phase
  /\ UNCHANGED <<shots, spans, pieces, looks, scenes, at, merged>>

Next == Merge \/ NextPass \/ Join \/ Choose \/ TakeBoundary

Spec == Init /\ [][Next]_vars

-----------------------------------------------------------------------------
StartsInOrder == SetToSortSeq(starts, <)
ChapterRow(k) ==
  LET s == StartsInOrder[k]
      last == IF k = Len(StartsInOrder) THEN Len(scenes) ELSE StartsInOrder[k + 1] - 1
  IN <<IF k = 1 THEN 0 ELSE SceneRow(s)[1],
       IF k = Len(StartsInOrder) THEN AtLeast(SceneRow(last)[2], Duration(shots))
       ELSE SceneRow(last)[2]>>

Covers(n, Row(_), least) ==
  /\ Row(1)[1] = 0 /\ Row(n)[2] = Duration(shots)
  /\ \A i \in 1..(n - 1) : Row(i)[2] = Row(i + 1)[1]
  /\ n > 1 => \A i \in 1..n : Row(i)[2] - Row(i)[1] >= least

(* Whatever the shots, the speech and the scores: the scenes and the       *)
(* chapters each span the video without gaps (docs/04-data-model.md:55),   *)
(* none is too short beside another, no scene runs past the longest by     *)
(* more than a short scene on either side, and each shot has one parent.   *)
LevelsCoverTheVideo ==
  phase = "done" =>
    /\ Covers(Len(scenes), SceneRow, MinScene)
    /\ Covers(Cardinality(starts), ChapterRow, MinChapter)
    /\ \A i \in 1..Len(scenes) : SceneLength(i) < MaxScene + 2 * MinScene
    /\ \A k \in 1..Len(shots) : Cardinality(Parents(shots[k])) = 1
=============================================================================
