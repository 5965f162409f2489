------------------------------- MODULE MCRows -------------------------------
(***************************************************************************)
(* Instances for TLC of the stages of an indexing job and the rows they    *)
(* store: frames, transcript, text, shots, scenes, chapters, descriptions, *)
(* extractions, and operators registered from outside. They are checked    *)
(* side by side.                                                           *)
(***************************************************************************)
EXTENDS Naturals, Sequences, FiniteSets, FiniteSetTheorems,
        WellFoundedInduction, TLAPS

CONSTANTS
  MaxRuns, NumShots, Models,
  Jobs, Columns, MaxFrames, MaxSampled, Batch,
  Lines, MaxGap,
  MaxPasses, NumRanges, SpanSecs, Gap, WordGap, WordSpan, Concurrency,
  Window, Totals, Times, Names,
  MinScene, MaxScene, MinChapter, TargetChapter, Snap, ShotLengths, MaxShots,
  Planned, Needed, Bindings, MaxOps, MaxCalls

(* Jobs start in order; a column stage is neither `ocr` nor `image_embed`. *)
ASSUME JobsAssumption ==
  Jobs \subseteq Nat /\ MaxSampled \in Nat /\ "ocr" \notin Columns /\ "embed" \notin Columns
ASSUME PoliciesAssumption == MaxOps \in Nat
ASSUME ShotsAssumption == NumShots \in Nat
ASSUME TextAssumption == MaxFrames \in Nat /\ MaxGap \in Nat /\ IsFiniteSet(Lines)
(* Times of extraction windows: a window and a recording are a second, two *)
(* half seconds, at least.                                                 *)
ASSUME TimesAreTimes ==
  Window \in Nat /\ Window >= 2 /\ Totals \subseteq Nat \ {0} /\ Times \subseteq Nat

VARIABLES
  part,  \* the part this behaviour is about; the others stay as they start
  level, source, levelsShots, levelsScenes, chapters, described, markers,
  levelsRuns, levelsJob,
  videos, tracks, frames, framesSpans, fts, framesVectors, framesJob,
  overlap,
  screen, textOpen, gate, onScreen, reading, seen, textRows, waiting, taken,
  textVectors, look, pictures, looked, images, textMissed, state,
  answer, humans, speechRuns, speechPhase, next, admitted, flying,
  speechMissed, speechOpen, speechStored,
  total, notes, linesRuns, linesPhase, w0, linesOpen, asked, failed,
  skipped, gathered, linesStored,
  segmentsShots, segmentsSpans, pieces, looks, segmentsScenes, at, merged,
  segmentsPhase, untried, starts,
  bound, policy, planPhase, ops, indeg, ready, order, custom, planRows,
  calls, declared, planStored, sent, got

(* A job may ask for another model than the one before it.                 *)
Asks == [thresholds : {1}, model : Models]

(* What a range is answered with: nothing; words with a full stop, in one  *)
(* segment; words beside segments, one blank, one long; words alone, with  *)
(* a long one and pauses; a mere text.                                     *)
Word(from, to, stop) == [start |-> from, end |-> to, stop |-> stop]
Stretch(from, to, text, words) == [start |-> from, end |-> to, text |-> text, words |-> words]
Body(segments, words, text) ==
  [segments |-> segments, words |-> words, text |-> text, duration |-> 5]
Steady ==
  <<Word(0, 1, FALSE), Word(1, 2, FALSE), Word(3, 4, TRUE), Word(4, 6, FALSE), Word(6, 7, FALSE)>>
Halting ==
  <<Word(0, 1, FALSE), Word(1, 2, FALSE), Word(3, 4, FALSE), Word(5, 11, FALSE),
    Word(11, 12, FALSE), Word(12, 13, FALSE), Word(16, 17, TRUE)>>
Silence == Body(<<>>, <<>>, <<>>)
Answers ==
  {Silence,
   Body(<<Stretch(0, 7, Steady, Steady)>>, <<>>, Steady),
   Body(<<Stretch(0, 0, <<>>, <<>>), Stretch(0, 12, SubSeq(Halting, 1, 5), <<>>),
          Stretch(12, 17, SubSeq(Halting, 6, 7), <<>>)>>, Halting, Halting),
   Body(<<>>, Halting, Halting),
   Body(<<>>, <<>>, Steady)}

Spans == {<<5, 8>>}

(* Operators of this build, and of one registered from outside: a stage of *)
(* its own, cycles, and the names of built-in ones with other inputs.      *)
Decl(id, takes, optional, gives, roles) ==
  [id |-> id, takes |-> takes, optional |-> optional, gives |-> gives, roles |-> roles]

BuiltIn ==
  [sample |-> Decl("sample", {"media"}, {}, {"frame"}, {}),
   asr |-> Decl("asr", {"media"}, {}, {"transcript_span"}, {"asr"}),
   shot_boundary |-> Decl("shot_boundary", {"frame", "tick"}, {"tick"}, {"shot"}, {}),
   scenes |-> Decl("scenes", {"shot", "transcript_span"}, {"transcript_span"}, {"scene"}, {}),
   vlm_describe |-> Decl("vlm_describe", {"media", "scene", "shot", "transcript_span"},
     {"scene", "shot", "transcript_span"}, {"description"}, {"vlm"})]
RolesFor ==
  [n \in DOMAIN BuiltIn |->
     CASE n = "asr" -> {"asr"} [] n = "vlm_describe" -> {"vlm"} [] OTHER -> {}]
Full == <<"asr", "sample", "shot_boundary">>
Local == <<"sample">>

Outside ==
  [mine |-> Decl("mine", {"frame"}, {}, {"transcript_span", "shot"}, {}),
   loop |-> Decl("loop", {"shot"}, {}, {"transcript_span"}, {}),
   back |-> Decl("back", {"transcript_span", "shot"}, {"transcript_span"}, {"shot"}, {}),
   again |-> Decl("sample", {"tick"}, {"tick"}, {}, {}),
   scenes |-> Decl("scenes", {"shot"}, {}, {"description"}, {"vlm"})]

L == INSTANCE SegmentRows WITH
  shots <- levelsShots, scenes <- levelsScenes, runs <- levelsRuns,
  job <- levelsJob
F == INSTANCE VideoRows WITH
  MaxFrames <- MaxSampled, spans <- framesSpans, vectors <- framesVectors,
  job <- framesJob
T == INSTANCE TextStages WITH
  open <- textOpen, rows <- textRows, vectors <- textVectors,
  missed <- textMissed
S == INSTANCE Transcribing WITH
  MaxRuns <- MaxPasses, runs <- speechRuns, phase <- speechPhase,
  missed <- speechMissed, open <- speechOpen, stored <- speechStored
E == INSTANCE Extraction WITH
  MaxRuns <- MaxPasses, runs <- linesRuns, phase <- linesPhase,
  open <- linesOpen, stored <- linesStored
G == INSTANCE Segmentation WITH
  shots <- segmentsShots, spans <- segmentsSpans, scenes <- segmentsScenes,
  phase <- segmentsPhase
P == INSTANCE CustomOperators WITH
  Available <- BuiltIn, Custom <- Outside, phase <- planPhase,
  rows <- planRows, stored <- planStored

levelsVars == <<level, source, levelsShots, levelsScenes, chapters, described,
  markers, levelsRuns, levelsJob>>
framesVars == <<videos, tracks, frames, framesSpans, fts, framesVectors,
  framesJob, overlap>>
textVars == <<screen, textOpen, gate, onScreen, reading, seen, textRows,
  waiting, taken, textVectors, look, pictures, looked, images, textMissed,
  state>>
speechVars == <<answer, humans, speechRuns, speechPhase, next, admitted,
  flying, speechMissed, speechOpen, speechStored>>
linesVars == <<total, notes, linesRuns, linesPhase, w0, linesOpen, asked,
  failed, skipped, gathered, linesStored>>
segmentsVars == <<segmentsShots, segmentsSpans, pieces, looks, segmentsScenes,
  at, merged, segmentsPhase, untried, starts>>
planVars == <<bound, policy, planPhase, ops, indeg, ready, order, custom,
  planRows, calls, declared, planStored, sent, got>>
vars == <<part, levelsVars, framesVars, textVars, speechVars, linesVars, segmentsVars, planVars>>

Parts == {"levels", "frames", "text", "speech", "lines", "segments", "plan"}

Init ==
  /\ part \in Parts
  /\ IF part = "levels" THEN TRUE ELSE level = "scene" /\ source = FALSE
  /\ L!Init
  /\ F!Init
  /\ IF part = "text" THEN TRUE ELSE screen = [i \in 1..MaxFrames |-> [look |-> 1, lines |-> {}]]
  /\ T!Init
  /\ IF part = "speech" THEN TRUE ELSE answer = [i \in 1..NumRanges |-> Silence]
  /\ S!Init
  /\ IF part = "lines" THEN TRUE ELSE total = 1 /\ notes = {}
  /\ E!Init
  /\ G!Init /\ (part # "segments" => Len(segmentsShots) = 1 /\ segmentsShots[1][2] = MinScene - 1 /\ segmentsSpans = {})
  /\ IF part = "plan" THEN TRUE ELSE policy = <<>> /\ bound = {"vlm"}
  /\ P!Init

LevelsSteps ==
  /\ part = "levels" /\ L!Next
  /\ UNCHANGED <<part, framesVars, textVars, speechVars, linesVars,
                segmentsVars, planVars>>

FramesSteps ==
  /\ part = "frames" /\ F!Next
  /\ UNCHANGED <<part, levelsVars, textVars, speechVars, linesVars,
                segmentsVars, planVars>>

TextSteps ==
  /\ part = "text" /\ T!Next
  /\ UNCHANGED <<part, levelsVars, framesVars, speechVars, linesVars,
                segmentsVars, planVars>>

SpeechSteps ==
  /\ part = "speech" /\ S!Next
  /\ UNCHANGED <<part, levelsVars, framesVars, textVars, linesVars,
                segmentsVars, planVars>>

LinesSteps ==
  /\ part = "lines" /\ E!Next
  /\ UNCHANGED <<part, levelsVars, framesVars, textVars, speechVars,
                segmentsVars, planVars>>

SegmentsSteps ==
  /\ part = "segments" /\ G!Next
  /\ UNCHANGED <<part, levelsVars, framesVars, textVars, speechVars,
                linesVars, planVars>>

PlanSteps ==
  /\ part = "plan" /\ P!Next
  /\ UNCHANGED <<part, levelsVars, framesVars, textVars, speechVars,
                linesVars, segmentsVars>>

Next ==
  \/ LevelsSteps
  \/ FramesSteps
  \/ TextSteps
  \/ SpeechSteps
  \/ LinesSteps
  \/ SegmentsSteps
  \/ PlanSteps

Spec == Init /\ [][Next]_vars

-----------------------------------------------------------------------------
(* After jobs in any order of crashes, forced runs and model changes, a    *)
(* shot has one description by a model, and when a job that grouped the    *)
(* shots has ended well every one lies in the stored scene it names, with  *)
(* the summary of the description this job made of it.                     *)
ShotRowsAreWhole == L!OneDescriptionPerShot /\ L!ShotRowsAreWhole

(* scheduler.rs:503 of a marker, for the chapters: "A marker means "these  *)
(* outputs are in the index"".                                             *)
MarkersMeanChapters == L!MarkersMeanChapters

(* A frame row has what the stages that wrote it found, and what is stored *)
(* of a frame is of one that is stored, while jobs run one at a time.      *)
FramesAreWhole == F!FramesAreWhole

(* scheduler.rs:352 of a video id, with several jobs: "Stable video id     *)
(* across re-indexing of the same content".                                *)
OneVideoPerContent == F!OneVideoPerContent

(* A stage that finished without a miss read and embedded all it had to.   *)
CleanStagesMissNothing == T!CleanStagesMissNothing

(* A transcript without misses says what was heard, once, in order.        *)
TranscriptIsWhole == S!TranscriptIsWhole

(* Every line in reach of the windows is shown to the model once.          *)
EveryLineIsShownOnce == E!EveryLineIsShownOnce

(* Scenes and chapters cover a video without holes or overlaps.            *)
LevelsCoverTheVideo == G!LevelsCoverTheVideo

(* Rows a custom operator returns reach every operator that reads them.    *)
RowsReachTheirReaders == P!RowsReachTheirReaders

-----------------------------------------------------------------------------
(* The instances count as this module does. *)
LEMMA SameCount ==
  /\ \A set : E!Cardinality(set) = Cardinality(set)
  /\ \A set : F!Cardinality(set) = Cardinality(set)
  /\ \A set : P!Cardinality(set) = Cardinality(set)
  /\ \A set : T!Cardinality(set) = Cardinality(set)
<1>1. \A set : E!Cardinality(set) = Cardinality(set)
  BY DEF E!Cardinality, Cardinality
<1>2. \A set : F!Cardinality(set) = Cardinality(set)
  BY DEF F!Cardinality, Cardinality
<1>3. \A set : P!Cardinality(set) = Cardinality(set)
  BY DEF P!Cardinality, Cardinality
<1>4. \A set : T!Cardinality(set) = Cardinality(set)
  BY DEF T!Cardinality, Cardinality
<1> QED BY <1>1, <1>2, <1>3, <1>4

(* A set of numbers has a least one. *)
LEMMA LeastNat ==
  ASSUME NEW Few \in SUBSET Nat, Few # {}
  PROVE  \E n \in Few : \A m \in Few : n <= m
<1>1. PICK R : IsWellFoundedOn(R, Nat) /\ \A x, y \in Nat : <<x, y>> \in R <=> x < y
  <2>1. \A x, y \in Nat : <<x, y>> \in OpToRel(<, Nat) <=> x < y
    BY DEF OpToRel
  <2>2. QED
    BY <2>1, NatLessThanWellFounded
<1>2. IsWellFoundedOn(R, Nat)
  BY <1>1
<1>3. PICK n \in Few : \A m \in Few : ~(<<m, n>> \in R)
  BY <1>2, WFMin
<1>4. \A m \in Few : m \in Nat /\ n \in Nat /\ ~(m < n)
  BY <1>1, <1>3
<1>5. QED
  BY <1>4

(* Sequences put together. *)
LEMMA Joined ==
  ASSUME NEW Any, NEW a \in Seq(Any), NEW b \in Seq(Any)
  PROVE  /\ a \o b \in Seq(Any) /\ Len(a \o b) = Len(a) + Len(b)
         /\ \A i \in 1..Len(a) : (a \o b)[i] = a[i]
         /\ \A i \in 1..Len(b) : (a \o b)[Len(a) + i] = b[i]
<1>1. Len(a) \in Nat /\ Len(b) \in Nat
  OBVIOUS
<1>2. a \o b \in Seq(Any) /\ Len(a \o b) = Len(a) + Len(b)
  OBVIOUS
<1>3. \A i \in 1..Len(a) : (a \o b)[i] = a[i]
  BY <1>1
<1>4. \A i \in 1..Len(b) : (a \o b)[Len(a) + i] = b[i]
  BY <1>1
<1> QED BY <1>2, <1>3, <1>4
-----------------------------------------------------------------------------
(* What follows proves the properties of `Extraction` in the run above.    *)
ShownIn(n) == {w \in DOMAIN asked : n \in asked[w]}
Working == linesPhase \in {"windows", "writing", "events"}
Whole(r) == r = [entities |-> r.entities, mentions |-> r.mentions, events |-> r.events]
Closed(es, ms, vs) ==
  /\ \A e \in es : e.run = linesRuns
  /\ \A m \in ms : m[1] \in es
  /\ \A v \in vs : v[2] \subseteq es

(* The windows asked about lie before the next one; each line before it was*)
(* shown in one of them, no line behind it in any.  The windows left out   *)
(* are on record.                                                          *)
ShownOnce ==
  \A n \in E!NoteLines : n.at < E!AtLeast(total, E!Second) =>
    \/ \E w \in DOMAIN asked : ShownIn(n) = {w}
    \/ ShownIn(n) = {} /\ (linesPhase = "windows" => w0 <= n.at) /\ (linesPhase # "windows" => skipped > 0)
Ahead == \A n \in E!NoteLines : linesPhase = "windows" /\ w0 <= n.at => ShownIn(n) = {}
ExtractionInv ==
  /\ total \in Totals /\ w0 \in Nat /\ (w0 = 0 \/ w0 >= E!Second) /\ skipped \in Nat
  /\ \A n \in notes : n.at \in Nat
  /\ linesPhase \in {"idle", "windows", "writing", "events", "ended", "cached", "stopped"}
  /\ linesPhase \in {"windows", "writing"} => linesStored = E!Nothing
  /\ \A w \in DOMAIN asked : w \in Nat /\ w < w0
  /\ linesPhase \in {"windows", "writing", "events", "ended"} => E!NoteLines # {}
  /\ Working \/ linesPhase \in {"ended", "cached"} => ShownOnce
  /\ Ahead
  /\ Working => Closed(gathered.entities, gathered.mentions, gathered.events)
  /\ linesPhase \in {"events", "ended", "cached"} /\ E!NoteLines # {} =>
       Closed(linesStored.entities, linesStored.mentions, linesStored.events)
  /\ linesPhase = "events" => linesStored.entities = gathered.entities
  /\ Whole(gathered) /\ Whole(linesStored)

LEMMA CeilingIsPositive ==
  ASSUME NEW a \in Nat \ {0}, NEW b \in Nat \ {0} PROVE E!Ceiling(a, b) \in Nat \ {0}
BY DEF E!Ceiling

LEMMA WindowAdvances ==
  ASSUME ExtractionInv
  PROVE  E!WindowEnd \in Nat /\ w0 < E!WindowEnd /\ E!Second <= E!WindowEnd
<1>1. w0 \in Nat /\ total \in Nat /\ Window \in Nat /\ Window >= 2
  BY TimesAreTimes DEF ExtractionInv, E!Second
<1> QED BY <1>1 DEF E!WindowEnd, E!AtMost, E!AtLeast, E!Second

(* A window that is asked about, answered or not, shows what lies in it.   *)
LEMMA WindowIsShown ==
  ASSUME ExtractionInv, linesPhase = "windows",
         UNCHANGED <<total, notes, linesPhase, skipped>>, w0' = E!WindowEnd,
         asked' = [w \in DOMAIN asked \cup {w0} |-> IF w = w0 THEN E!Shown ELSE asked[w]]
  PROVE  ShownOnce' /\ Ahead' /\ \A w \in DOMAIN asked' : w \in Nat /\ w < w0'
<1>1. w0 \in Nat /\ E!WindowEnd \in Nat /\ w0 < E!WindowEnd
  BY WindowAdvances DEF ExtractionInv
<1>2. \A w \in DOMAIN asked : w \in Nat /\ w < w0
  BY DEF ExtractionInv
<1>3. DOMAIN asked' = DOMAIN asked \cup {w0} /\ w0 \notin DOMAIN asked
  BY <1>1, <1>2
<1>4. \A w \in DOMAIN asked' : w \in Nat /\ w < w0'
  <2> TAKE w \in DOMAIN asked'
  <2>1. CASE w = w0
    BY <1>1, <2>1
  <2>2. CASE w \in DOMAIN asked
    <3>1. w \in Nat /\ w < w0
      BY <1>2, <2>2
    <3> QED BY <1>1, <3>1, <2>2
  <2> QED BY <1>3, <2>1, <2>2
<1>5. E!NoteLines' = E!NoteLines /\ E!AtLeast(total, E!Second)' = E!AtLeast(total, E!Second)
  BY DEF E!NoteLines, E!AtLeast
<1>6. ASSUME NEW n \in E!NoteLines
      PROVE  ShownIn(n)' = IF n \in E!Shown THEN ShownIn(n) \cup {w0} ELSE ShownIn(n)
  BY <1>3 DEF ShownIn
<1>7. ASSUME NEW n \in E!NoteLines, w0 <= n.at PROVE ShownIn(n) = {}
  BY <1>7 DEF ExtractionInv, Ahead
<1>8. \A n \in E!NoteLines : n.at \in Nat /\ (n \in E!Shown <=> w0 <= n.at /\ n.at < E!WindowEnd)
  BY DEF ExtractionInv, E!NoteLines, E!Shown
<1>9. Ahead'
  <2> SUFFICES ASSUME NEW n \in E!NoteLines, E!WindowEnd <= n.at PROVE ShownIn(n)' = {}
    BY <1>5 DEF Ahead
  <2>1. w0 <= n.at /\ n \notin E!Shown
    BY <1>1, <1>8
  <2> QED BY <2>1, <1>6, <1>7
<1>10. ShownOnce'
  <2> SUFFICES ASSUME NEW n \in E!NoteLines, n.at < E!AtLeast(total, E!Second)
               PROVE  \/ \E w \in DOMAIN asked' : ShownIn(n)' = {w}
                      \/ ShownIn(n)' = {} /\ E!WindowEnd <= n.at
    BY <1>5 DEF ShownOnce
  <2>1. CASE n.at < w0
    <3>1. \E w \in DOMAIN asked : ShownIn(n) = {w}
      BY <2>1, <1>1, <1>8 DEF ExtractionInv, ShownOnce, Working
    <3>2. n \notin E!Shown
      BY <2>1, <1>1, <1>8
    <3> QED BY <3>1, <3>2, <1>3, <1>6
  <2>2. CASE n \in E!Shown
    BY <2>2, <1>3, <1>6, <1>7, <1>8
  <2>3. CASE E!WindowEnd <= n.at
    BY <2>3, <1>9, <1>5 DEF Ahead
  <2> QED BY <2>1, <2>2, <2>3, <1>1, <1>8
<1> QED BY <1>4, <1>9, <1>10

LEMMA ExtractionStarts == ASSUME E!Init PROVE ExtractionInv
<1>1. \A n \in notes : n.at \in Nat
  <2>1. CASE notes \in SUBSET [at : Times, of : {"span"}]
    BY <2>1, TimesAreTimes
  <2>2. CASE notes \in {{[at |-> t, of |-> o] : o \in {"span", "scene", "shot"}} : t \in Times}
    <3>1. PICK t \in Times : notes = {[at |-> t, of |-> o] : o \in {"span", "scene", "shot"}}
      BY <2>2
    <3>2. \A n \in notes : n.at = t
      BY <3>1
    <3> QED BY <3>2, TimesAreTimes
  <2> QED BY <2>1, <2>2 DEF E!Init
<1> QED BY <1>1, TimesAreTimes DEF E!Init, ExtractionInv, E!NoWindows, Ahead, ShownIn, Working, E!Nothing, Whole

(* A window leaves what is on the way as it is, or adds to it whole.       *)
LEMMA WindowIsKept ==
  ASSUME ExtractionInv, linesPhase = "windows",
         UNCHANGED <<total, notes, linesPhase, linesRuns, skipped, linesStored>>, w0' = E!WindowEnd,
         ShownOnce', Ahead', \A w \in DOMAIN asked' : w \in Nat /\ w < w0',
         Closed(gathered.entities, gathered.mentions, gathered.events)', Whole(gathered)'
  PROVE  ExtractionInv'
BY WindowAdvances DEF ExtractionInv, Working, E!NoteLines, E!Nothing

LEMMA ExtractionIsKept == ASSUME ExtractionInv, [E!Next]_linesVars PROVE ExtractionInv'
<1>1. CASE E!Begin
  <2>1. CASE E!NoteLines = {}
    BY <1>1, <2>1 DEF E!Begin, ExtractionInv, E!NoteLines, Ahead, ShownOnce, E!NoWindows, Working, E!Nothing, Whole
  <2>2. CASE E!NoteLines # {}
    <3>1. \A n : ShownIn(n)' = {}
      BY <1>1 DEF E!Begin, ShownIn, E!NoWindows
    <3>2. E!NoteLines' = E!NoteLines /\ linesPhase' = "windows" /\ w0' = 0 /\ \A n \in E!NoteLines : n.at \in Nat
      BY <1>1, <2>2 DEF E!Begin, E!NoteLines, ExtractionInv
    <3>3. ShownOnce' /\ Ahead'
      BY <3>1, <3>2 DEF ShownOnce, Ahead
    <3> QED BY <1>1, <2>2, <3>2, <3>3 DEF E!Begin, ExtractionInv, E!NoWindows, Working, Closed, E!Nothing, Whole
  <2> QED BY <2>1, <2>2
<1>2. CASE E!EmptyWindow
  <2>1. linesPhase = "windows" /\ E!Shown = {} /\ w0' = E!WindowEnd
        /\ UNCHANGED <<total, notes, linesRuns, linesPhase, asked, skipped, gathered, linesStored>>
    BY <1>2 DEF E!EmptyWindow
  <2>2. E!WindowEnd \in Nat /\ w0 < E!WindowEnd /\ w0 \in Nat
    BY WindowAdvances DEF ExtractionInv
  <2>3. ASSUME NEW n \in E!NoteLines PROVE n.at \in Nat /\ (n.at < w0 \/ E!WindowEnd <= n.at)
    BY <2>1, <2>2 DEF ExtractionInv, E!NoteLines, E!Shown
  <2>4. E!NoteLines' = E!NoteLines /\ \A n : ShownIn(n)' = ShownIn(n)
    BY <2>1 DEF E!NoteLines, ShownIn
  <2>5. Ahead'
    BY <2>1, <2>2, <2>3, <2>4 DEF Ahead, ExtractionInv
  <2>6. ShownOnce'
    <3>1. ShownOnce
      BY <2>1 DEF ExtractionInv, Working
    <3> QED BY <3>1, <2>1, <2>2, <2>3, <2>4 DEF ShownOnce
  <2>7. \A w \in DOMAIN asked' : w \in Nat /\ w < w0'
    <3> SUFFICES ASSUME NEW w \in DOMAIN asked PROVE w \in Nat /\ w < E!WindowEnd
      BY <2>1
    <3>1. w \in Nat /\ w < w0
      BY DEF ExtractionInv
    <3> QED BY <3>1, <2>2
  <2>8. Closed(gathered.entities, gathered.mentions, gathered.events)' /\ Whole(gathered)'
    BY <2>1 DEF ExtractionInv, Working, Closed, Whole
  <2> QED BY <2>1, <2>5, <2>6, <2>7, <2>8, WindowIsKept
<1>3. CASE E!SkipTheRest
  <2>1. /\ linesPhase = "windows" /\ linesPhase' = "writing" /\ E!MoreWindows
        /\ skipped' = skipped + E!Ceiling(total - w0, Window)
        /\ UNCHANGED <<total, notes, linesRuns, w0, asked, gathered, linesStored>>
    BY <1>3 DEF E!SkipTheRest
  <2>2. E!Ceiling(total - w0, Window) \in Nat \ {0}
    <3>1. total \in Nat \ {0} /\ w0 \in Nat /\ (w0 = 0 \/ w0 >= 2) /\ Window \in Nat /\ Window >= 2
      BY TimesAreTimes DEF ExtractionInv, E!Second
    <3>2. total - w0 \in Nat \ {0}
      BY <3>1, <2>1 DEF E!MoreWindows, E!AtLeast, E!Second
    <3> QED BY <3>1, <3>2, CeilingIsPositive
  <2>3. skipped' \in Nat /\ skipped' > 0
    BY <2>1, <2>2 DEF ExtractionInv
  <2>4. E!NoteLines' = E!NoteLines /\ \A n : ShownIn(n)' = ShownIn(n)
    BY <2>1 DEF E!NoteLines, ShownIn
  <2>5. ShownOnce'
    BY <2>1, <2>3, <2>4 DEF ShownOnce, ExtractionInv, Working
  <2>6. Closed(gathered.entities, gathered.mentions, gathered.events)'
    BY <2>1 DEF ExtractionInv, Working, Closed
  <2> QED BY <2>1, <2>3, <2>4, <2>5, <2>6 DEF ExtractionInv, Ahead, E!Nothing, Working, Whole
<1>4. CASE E!WindowFails
  <2>1. Closed(gathered.entities, gathered.mentions, gathered.events)' /\ Whole(gathered)'
    BY <1>4 DEF E!WindowFails, ExtractionInv, Working, Closed, Whole
  <2> QED BY <1>4, <2>1, WindowIsShown, WindowIsKept DEF E!WindowFails
<1>5. CASE E!LastWindow
  <2>1. /\ linesPhase = "windows" /\ linesPhase' = "writing" /\ ~E!MoreWindows
        /\ UNCHANGED <<total, notes, linesRuns, w0, asked, skipped, gathered, linesStored>>
    BY <1>5 DEF E!LastWindow
  <2>2. E!NoteLines' = E!NoteLines /\ \A n : ShownIn(n)' = ShownIn(n)
    BY <2>1 DEF E!NoteLines, ShownIn
  <2>3. w0 \in Nat /\ total \in Nat /\ \A n \in E!NoteLines : n.at \in Nat
    BY TimesAreTimes DEF ExtractionInv, E!NoteLines
  <2>4. ShownOnce'
    <3>1. ShownOnce
      BY <2>1 DEF ExtractionInv, Working
    <3> QED BY <3>1, <2>1, <2>2, <2>3 DEF ShownOnce, E!MoreWindows, E!AtLeast, E!Second
  <2>5. Closed(gathered.entities, gathered.mentions, gathered.events)'
    BY <2>1 DEF ExtractionInv, Working, Closed
  <2> QED BY <2>1, <2>2, <2>4, <2>5 DEF ExtractionInv, Ahead, E!Nothing, Working, Whole
<1>6. ASSUME NEW entities \in SUBSET Names, NEW participants \in SUBSET Names,
             E!WindowAnswered(entities, participants)
      PROVE  ExtractionInv'
  <2> DEFINE known == gathered.entities \cup {E!Entity(n) : n \in entities}
  <2>1. /\ linesRuns' = linesRuns /\ gathered'.entities = known
        /\ gathered'.mentions = gathered.mentions \cup {<<E!Entity(n), w0>> : n \in entities}
        /\ gathered'.events = gathered.events \cup
             {<<w0, {E!Entity(n) : n \in participants} \cap known>>}
    BY <1>6 DEF E!WindowAnswered
  <2>2. Closed(gathered.entities, gathered.mentions, gathered.events)
    BY <1>6 DEF E!WindowAnswered, ExtractionInv, Working
  <2>3. \A e \in gathered'.entities : e.run = linesRuns
    BY <2>1, <2>2 DEF Closed, E!Entity
  <2>4. \A m \in gathered'.mentions : m[1] \in gathered'.entities
    BY <2>1, <2>2 DEF Closed
  <2>5. \A v \in gathered'.events : v[2] \subseteq gathered'.entities
    BY <2>1, <2>2 DEF Closed
  <2>6. Closed(gathered.entities, gathered.mentions, gathered.events)' /\ Whole(gathered)'
    BY <1>6, <2>1, <2>3, <2>4, <2>5 DEF Closed, Whole, E!WindowAnswered
  <2> QED BY <1>6, <2>6, WindowIsShown, WindowIsKept DEF E!WindowAnswered
<1>7. CASE E!PutEntities
  <2>1. /\ linesPhase = "writing" /\ linesPhase' = "events" /\ linesStored = E!Nothing
        /\ linesStored' = [gathered EXCEPT !.events = linesStored.events]
        /\ UNCHANGED <<total, notes, linesRuns, w0, asked, failed, skipped, gathered>>
    BY <1>7 DEF E!PutEntities, ExtractionInv
  <2>2. Closed(gathered.entities, gathered.mentions, gathered.events)
    BY <2>1 DEF ExtractionInv, Working
  <2>3. linesStored' = [entities |-> gathered.entities, mentions |-> gathered.mentions, events |-> {}]
    BY <2>1 DEF ExtractionInv, Whole, E!Nothing
  <2>4. E!NoteLines' = E!NoteLines /\ \A n : ShownIn(n)' = ShownIn(n)
    BY <2>1 DEF E!NoteLines, ShownIn
  <2>5. ShownOnce'
    BY <2>1, <2>4 DEF ShownOnce, ExtractionInv, Working
  <2>6. Closed(linesStored.entities, linesStored.mentions, linesStored.events)'
    BY <2>1, <2>2, <2>3 DEF Closed
  <2>7. Whole(gathered)' /\ Whole(linesStored)'
    BY <2>1, <2>3 DEF ExtractionInv, Whole
  <2> QED BY <2>1, <2>2, <2>3, <2>4, <2>5, <2>6, <2>7 DEF ExtractionInv, Ahead, Closed
<1>8. CASE E!PutEvents
  <2>1. /\ linesPhase = "events" /\ linesPhase' \in {"cached", "ended"}
        /\ linesStored' = [linesStored EXCEPT !.events = gathered.events]
        /\ UNCHANGED <<total, notes, linesRuns, w0, asked, skipped, gathered>>
    BY <1>8 DEF E!PutEvents
  <2>2. /\ Closed(gathered.entities, gathered.mentions, gathered.events)
        /\ Closed(linesStored.entities, linesStored.mentions, linesStored.events)
        /\ linesStored.entities = gathered.entities /\ E!NoteLines # {}
    BY <2>1 DEF ExtractionInv, Working
  <2>3. linesStored' = [entities |-> linesStored.entities, mentions |-> linesStored.mentions,
                   events |-> gathered.events]
    BY <2>1 DEF ExtractionInv, Whole
  <2>4. E!NoteLines' = E!NoteLines /\ \A n : ShownIn(n)' = ShownIn(n)
    BY <2>1 DEF E!NoteLines, ShownIn
  <2>5. ShownOnce'
    BY <2>1, <2>4 DEF ShownOnce, ExtractionInv, Working
  <2>6. Closed(linesStored.entities, linesStored.mentions, linesStored.events)'
    BY <2>1, <2>2, <2>3 DEF Closed
  <2>7. Whole(gathered)' /\ Whole(linesStored)'
    BY <2>1, <2>3 DEF ExtractionInv, Whole
  <2> QED BY <2>1, <2>2, <2>4, <2>5, <2>6, <2>7 DEF ExtractionInv, Ahead, Working
<1>9. CASE E!Exhaust
  BY <1>9 DEF E!Exhaust, ExtractionInv, ShownOnce, Ahead, ShownIn, E!NoteLines, Working, Closed, E!Nothing, Whole
<1>10. CASE E!Stop
  BY <1>10 DEF E!Stop, ExtractionInv, ShownOnce, Ahead, ShownIn, E!NoteLines, Working, Closed, E!Nothing, Whole
<1>11. CASE UNCHANGED linesVars
  BY <1>11 DEF linesVars, ExtractionInv, ShownOnce, Ahead, ShownIn, E!NoteLines, Working, Closed, E!Nothing, Whole
<1> QED BY <1>1, <1>2, <1>3, <1>4, <1>5, <1>6, <1>7, <1>8, <1>9, <1>10, <1>11 DEF E!Next

LEMMA ExtractionMeans == ASSUME ExtractionInv PROVE E!EveryLineIsShownOnce
<1>1. ASSUME linesPhase \in {"ended", "cached"}, NEW n \in E!NoteLines, n.at < E!AtLeast(total, E!Second)
      PROVE  LET times == E!Cardinality({w \in DOMAIN asked : n \in asked[w]})
             IN times = 1 \/ (times = 0 /\ skipped > 0)
  <2>1. (\E w \in DOMAIN asked : ShownIn(n) = {w}) \/ (ShownIn(n) = {} /\ skipped > 0)
    BY <1>1 DEF ExtractionInv, ShownOnce
  <2> QED BY <2>1, FS_Singleton, FS_EmptySet, SameCount DEF ShownIn
<1> QED BY <1>1 DEF E!EveryLineIsShownOnce, ExtractionInv, Closed


LEMMA LinesAreKept ==
  ASSUME ExtractionInv, [Next]_vars PROVE ExtractionInv'
<1>1. CASE LinesSteps
  BY <1>1, ExtractionIsKept DEF LinesSteps
<1>2. CASE UNCHANGED linesVars
  BY <1>2, ExtractionIsKept
<1> QED BY <1>1, <1>2 DEF Next, vars, LevelsSteps, FramesSteps, TextSteps, SpeechSteps, SegmentsSteps, PlanSteps

(* For every recording, window, set of lines and order of answers, failures*)
(* and crashes: a job of entities_events that ends showed each line once or*)
(* counted it as skipped, and stored rows that are its own and closed.     *)
THEOREM LinesAreShownOnce == Spec => []EveryLineIsShownOnce
<1>1. Init => ExtractionInv
  BY ExtractionStarts DEF Init
<1>2. ExtractionInv /\ [Next]_vars => ExtractionInv'
  BY LinesAreKept
<1>3. ExtractionInv => EveryLineIsShownOnce
  BY ExtractionMeans DEF EveryLineIsShownOnce
<1> QED BY <1>1, <1>2, <1>3, PTL DEF Spec

-----------------------------------------------------------------------------
(* `VideoRows`.  What the rows of the video are while jobs follow one      *)
(* another, and while one of them runs: of the frames put so far, the ones *)
(* a stage is done with, less those it has yet to write, have its column;  *)
(* the text and the vectors are those of the frames done.                  *)
Places == {"idle", "new", "known", "tracks", "begin", "run", "clean", "failed", "crashed"}
FrameIds == Jobs \X Nat
JobRecords ==
  [at : Places, video : Nat, track : Nat, put : Nat, sent : Nat,
   done : [F!Consumers -> Nat], pending : [Columns -> SUBSET FrameIds],
   finished : SUBSET Columns, failed : BOOLEAN]
FramesTyped ==
  /\ videos \in Nat /\ overlap \in BOOLEAN
  /\ IsFiniteSet(tracks) /\ tracks \in SUBSET [id : Nat, video : Nat]
  /\ frames \in SUBSET [id : FrameIds, track : Nat, filled : SUBSET Columns]
  /\ framesJob \in [Jobs -> JobRecords]

SpansHaveFrames ==
  /\ fts = {s.id : s \in framesSpans}
  /\ \A s \in framesSpans : s.id = s.frame /\ F!Exists(s.frame)

InTurn ==
  /\ \A i, j \in Jobs : i < j /\ framesJob[j].at # "idle" => framesJob[i].at # "idle"
  /\ \A j \in Jobs : framesJob[j].at = "idle" => framesJob[j] = F!Idle
LastRuns ==
  ~overlap => \A j \in Jobs : /\ framesJob[j].at \notin F!Over => F!Latest(j)
                              /\ framesJob[j].at # "failed"

TheTrack == [id |-> 1, video |-> 1]
OneVideoRows ==
  /\ videos \in {0, 1} /\ tracks \in {{}, {TheTrack}}
  /\ tracks # {} => videos = 1
  /\ \A f \in frames : f.track = 1
  /\ \A v \in framesVectors :
       \/ v = [kind |-> "frame", target |-> v.target] /\ F!Exists(v.target)
       \/ v = [kind |-> "ocr", target |-> v.target] /\ v.target \in fts

Row(j, k) ==
  [id |-> <<j, k>>, track |-> 1,
   filled |-> {c \in Columns : /\ k <= framesJob[j].done[c]
                               /\ <<j, k>> \notin framesJob[j].pending[c]}]
Counted(j) ==
  /\ framesJob[j].put <= MaxSampled /\ framesJob[j].sent <= framesJob[j].put
  /\ \A c \in F!Consumers : framesJob[j].done[c] <= framesJob[j].sent
  /\ ~framesJob[j].failed
  /\ \A c \in Columns : \A id \in framesJob[j].pending[c] :
       id[1] = j /\ 1 <= id[2] /\ id[2] <= framesJob[j].done[c]
  /\ \A c \in framesJob[j].finished :
       framesJob[j].done[c] = MaxSampled /\ framesJob[j].pending[c] = {}
Put(j) == frames = {Row(j, k) : k \in 1..framesJob[j].put}
TextOf(j, n) == {<<j, k>> : k \in 1..n}
VectorsOf(j, n, m) ==
  {[kind |-> "ocr", target |-> id] : id \in TextOf(j, n)} \cup
  {[kind |-> "frame", target |-> id] : id \in TextOf(j, m)}
Written(j) ==
  /\ fts = TextOf(j, framesJob[j].done["ocr"])
  /\ framesVectors = VectorsOf(j, framesJob[j].done["ocr"], framesJob[j].done["embed"])
Sampled(j) ==
  /\ frames = {[id |-> <<j, k>>, track |-> 1, filled |-> Columns] : k \in 1..MaxSampled}
  /\ fts = TextOf(j, MaxSampled)
  /\ framesVectors = VectorsOf(j, MaxSampled, MaxSampled)
JobOk(j) ==
  /\ framesJob[j].at = "new" => videos = 0
  /\ framesJob[j].at = "known" => videos = 1 /\ framesJob[j].video = 1
  /\ framesJob[j].at = "tracks" => videos = 1 /\ framesJob[j].video = 1 /\ tracks = {}
  /\ framesJob[j].at \in {"begin", "run"} => tracks = {TheTrack} /\ framesJob[j].track = 1
  /\ framesJob[j].at \in {"new", "known", "tracks", "begin"} =>
       /\ framesJob[j].put = 0 /\ framesJob[j].sent = 0 /\ ~framesJob[j].failed
       /\ framesJob[j].done = [c \in F!Consumers |-> 0]
       /\ framesJob[j].pending = [c \in Columns |-> {}] /\ framesJob[j].finished = {}
  /\ framesJob[j].at = "run" => Counted(j) /\ Put(j) /\ Written(j)
  /\ framesJob[j].at = "clean" /\ F!Latest(j) => framesJob[j].track = 1 /\ Sampled(j)
RowsInv == ~overlap => OneVideoRows /\ \A j \in Jobs : JobOk(j)

FramesInv == FramesTyped /\ SpansHaveFrames /\ InTurn /\ LastRuns /\ RowsInv

LEMMA FramesStart == ASSUME F!Init PROVE FramesInv
<1>1. F!Idle \in JobRecords
  BY DEF F!Idle, JobRecords, Places
<1>2. \A j \in Jobs : framesJob[j] = F!Idle /\ framesJob[j].at = "idle"
  BY DEF F!Init, F!Idle
<1>3. FramesTyped
  BY <1>1, FS_EmptySet DEF F!Init, FramesTyped
<1>4. SpansHaveFrames /\ InTurn
  BY <1>2 DEF F!Init, SpansHaveFrames, InTurn
<1>5. LastRuns
  BY <1>2 DEF LastRuns, F!Over
<1>6. RowsInv
  BY <1>2 DEF F!Init, RowsInv, OneVideoRows, JobOk
<1> QED BY <1>3, <1>4, <1>5, <1>6 DEF FramesInv

(* A step of one job changes its record, or some fields of it. *)
LEMMA JobSet ==
  ASSUME FramesTyped, NEW j \in Jobs, NEW r \in JobRecords, F!Set(j, r)
  PROVE  framesJob' \in [Jobs -> JobRecords] /\ framesJob'[j] = r
         /\ \A i \in Jobs \ {j} : framesJob'[i] = framesJob[i]
BY DEF FramesTyped, F!Set

(* While jobs follow one another, the other jobs are over, and none of     *)
(* them is the latest.                                                     *)
LEMMA OthersRest ==
  ASSUME FramesInv, ~overlap, NEW j \in Jobs, framesJob[j].at \notin F!Over,
         \A i \in Jobs \ {j} : framesJob'[i] = framesJob[i],
         framesJob'[j].at \notin {"idle", "failed"}, overlap' = overlap
  PROVE  LastRuns' /\ InTurn' /\ \A i \in Jobs \ {j} : JobOk(i)'
<1>1. F!Latest(j) /\ framesJob[j].at # "idle"
  BY DEF FramesInv, LastRuns, F!Over
<1>2. ASSUME NEW i \in Jobs, i # j PROVE framesJob[i].at \in F!Over /\ (i < j \/ framesJob[i].at = "idle")
  <2>1. i < j \/ j < i
    BY <1>2, JobsAssumption
  <2>2. j < i => framesJob[i].at = "idle"
    BY <1>1 DEF F!Latest
  <2>3. F!Latest(i) => j < i
    BY <1>1, <2>1 DEF F!Latest
  <2>4. framesJob[i].at \notin F!Over => j < i
    BY <2>3 DEF FramesInv, LastRuns
  <2> QED BY <2>1, <2>2, <2>4 DEF F!Over
<1>3. F!Latest(j)'
  <2> SUFFICES ASSUME NEW i \in Jobs, i > j PROVE framesJob'[i].at = "idle"
    BY DEF F!Latest
  <2>1. i # j /\ framesJob[i].at = "idle"
    BY <1>1, JobsAssumption DEF F!Latest
  <2> QED BY <2>1
<1>4. LastRuns'
  <2> SUFFICES ASSUME NEW i \in Jobs
               PROVE  (framesJob'[i].at \notin F!Over => F!Latest(i)') /\ framesJob'[i].at # "failed"
    BY DEF LastRuns, F!Over
  <2>1. CASE i = j
    BY <2>1, <1>3
  <2>2. CASE i # j
    BY <2>2, <1>2 DEF FramesInv, LastRuns
  <2> QED BY <2>1, <2>2
<1>5. InTurn'
  BY <1>1 DEF FramesInv, InTurn
<1>6. ASSUME NEW i \in Jobs \ {j} PROVE JobOk(i)'
  <2>1. framesJob'[i].at \in F!Over /\ (framesJob'[i].at = "idle" \/ ~F!Latest(i)')
    BY <1>2, <1>6 DEF F!Latest
  <2> QED BY <2>1 DEF JobOk, F!Over
<1> QED BY <1>4, <1>5, <1>6

(* Identifiers of a step of job j. *)
LEMMA NextFrameTyped ==
  ASSUME FramesTyped, NEW j \in Jobs, NEW c \in F!Consumers
  PROVE  F!NextFrame(j, c) \in FrameIds
BY DEF FramesTyped, JobRecords, F!NextFrame, F!FrameId, FrameIds

LEMMA FilledTyped ==
  ASSUME FramesTyped, NEW c \in Columns, NEW ids, F!Fill(c, ids)
  PROVE  /\ frames' \in SUBSET [id : FrameIds, track : Nat, filled : SUBSET Columns]
         /\ \A id : F!Exists(id) => F!Exists(id)'
<1>1. \A f \in frames : f \in [id : FrameIds, track : Nat, filled : SUBSET Columns]
  BY DEF FramesTyped
<1> DEFINE filled(f) == IF f.id \in ids THEN [f EXCEPT !.filled = @ \cup {c}] ELSE f
<1>2. frames' = {filled(f) : f \in frames}
  BY DEF F!Fill
<1>3. ASSUME NEW f \in frames
      PROVE  filled(f) \in [id : FrameIds, track : Nat, filled : SUBSET Columns] /\ filled(f).id = f.id
  <2>1. f \in [id : FrameIds, track : Nat, filled : SUBSET Columns]
    BY <1>1, <1>3
  <2> QED BY <2>1
<1>4. ASSUME NEW id, F!Exists(id) PROVE F!Exists(id)'
  <2>1. PICK f \in frames : f.id = id
    BY <1>4 DEF F!Exists
  <2> QED BY <2>1, <1>2, <1>3, ZenonT(40) DEF F!Exists
<1> HIDE DEF filled
<1> QED BY <1>2, <1>3, <1>4

(* The spans keep their frames where the frames stay. *)
LEMMA SpansStay ==
  ASSUME SpansHaveFrames, \A id : F!Exists(id) => F!Exists(id)',
         UNCHANGED <<framesSpans, fts>>
  PROVE  SpansHaveFrames'
BY DEF SpansHaveFrames

LEMMA InTurnStays ==
  ASSUME InTurn, NEW j \in Jobs, framesJob[j].at # "idle", framesJob'[j].at # "idle",
         \A i \in Jobs \ {j} : framesJob'[i] = framesJob[i]
  PROVE  InTurn'
BY DEF InTurn

(* What one action of a job keeps whether jobs overlap or not. *)
Kept(j) == FramesTyped' /\ SpansHaveFrames' /\ InTurn'
           /\ \A i \in Jobs \ {j} : framesJob'[i] = framesJob[i]

LEMMA FindKeeps ==
  ASSUME FramesInv, NEW j \in Jobs, F!Find(j)
  PROVE  Kept(j) /\ framesJob'[j].at \in {"new", "known"}
<1> DEFINE r == [framesJob[j] EXCEPT !.at = IF videos = 0 THEN "new" ELSE "known",
                                     !.video = IF videos = 0 THEN 0 ELSE 1]
<1>1. FramesTyped /\ framesJob[j] \in JobRecords
  BY DEF FramesInv, FramesTyped
<1>2. r \in JobRecords /\ r.at \in {"new", "known"}
  BY <1>1 DEF JobRecords, Places
<1>3. F!Set(j, r) /\ UNCHANGED <<videos, tracks, frames, framesSpans, fts, framesVectors>>
      /\ overlap' \in BOOLEAN
  BY <1>1 DEF F!Find, F!Rows, FramesTyped, F!At
<1>4. framesJob' \in [Jobs -> JobRecords] /\ framesJob'[j] = r
      /\ \A i \in Jobs \ {j} : framesJob'[i] = framesJob[i]
  BY <1>1, <1>2, <1>3, JobSet
<1>5. FramesTyped'
  BY <1>1, <1>3, <1>4 DEF FramesTyped
<1>6. SpansHaveFrames'
  BY <1>3 DEF FramesInv, SpansHaveFrames, F!Exists
<1>7. InTurn'
  <2>1. \A i \in Jobs : i < j => framesJob[i].at # "idle"
    BY DEF F!Find, F!At
  <2> QED BY <2>1, <1>2, <1>4, JobsAssumption DEF FramesInv, InTurn
<1> QED BY <1>2, <1>4, <1>5, <1>6, <1>7 DEF Kept

LEMMA TracksAdded ==
  ASSUME FramesTyped, NEW v \in Nat
  PROVE  /\ F!NewTrack(0, v) \in [id : Nat, video : Nat]
         /\ \A j : F!NewTrack(j, v) = F!NewTrack(0, v)
         /\ IsFiniteSet(tracks \cup {F!NewTrack(0, v)})
<1>1. F!Cardinality(tracks) \in Nat
  BY FS_CardinalityType, SameCount DEF FramesTyped
<1>2. IsFiniteSet(tracks \cup {F!NewTrack(0, v)})
  BY FS_AddElement DEF FramesTyped
<1> QED BY <1>1, <1>2 DEF F!NewTrack

(* An action that changes the record of j, and rows in a typed way that    *)
(* leaves the spans theirs.                                                *)
LEMMA StepKeeps ==
  ASSUME FramesInv, NEW j \in Jobs, NEW r \in JobRecords, F!Set(j, r),
         framesJob[j].at # "idle", r.at # "idle", overlap' = overlap,
         videos' \in Nat, IsFiniteSet(tracks'), tracks' \in SUBSET [id : Nat, video : Nat],
         frames' \in SUBSET [id : FrameIds, track : Nat, filled : SUBSET Columns],
         SpansHaveFrames'
  PROVE  Kept(j) /\ framesJob'[j] = r
<1>1. framesJob' \in [Jobs -> JobRecords] /\ framesJob'[j] = r
      /\ \A i \in Jobs \ {j} : framesJob'[i] = framesJob[i]
  BY JobSet DEF FramesInv
<1>2. FramesTyped'
  BY <1>1 DEF FramesInv, FramesTyped
<1>3. InTurn'
  BY <1>1, InTurnStays DEF FramesInv
<1> QED BY <1>1, <1>2, <1>3 DEF Kept

(* What a step of a job under way comes to. *)
Moved(j) ==
  /\ Kept(j) /\ overlap' = overlap
  /\ framesJob[j].at \notin F!Over /\ framesJob'[j].at # "idle"
  /\ ~overlap => framesJob'[j].at # "failed" /\ OneVideoRows' /\ JobOk(j)'

LEMMA MovedKeeps == ASSUME FramesInv, NEW j \in Jobs, Moved(j) PROVE FramesInv'
<1>1. CASE overlap
  BY <1>1 DEF Moved, Kept, FramesInv, LastRuns, RowsInv
<1>2. CASE ~overlap
  <2>1. LastRuns' /\ \A i \in Jobs \ {j} : JobOk(i)'
    BY <1>2, OthersRest DEF Moved, Kept
  <2> QED BY <1>2, <2>1 DEF Moved, Kept, FramesInv, RowsInv
<1>3. overlap \in BOOLEAN
  BY DEF FramesInv, FramesTyped
<1> QED BY <1>1, <1>2, <1>3

LEMMA RecordOf ==
  ASSUME FramesInv, NEW j \in Jobs
  PROVE  /\ framesJob[j] \in JobRecords /\ FramesTyped /\ SpansHaveFrames
         /\ ~overlap => OneVideoRows /\ JobOk(j)
BY DEF FramesInv, FramesTyped, RowsInv

LEMMA PutVideoMoves == ASSUME FramesInv, NEW j \in Jobs, F!PutVideo(j) PROVE Moved(j)
<1> DEFINE r == [framesJob[j] EXCEPT !.at = "tracks", !.video = videos + 1]
<1>1. framesJob[j] \in JobRecords /\ FramesTyped /\ SpansHaveFrames
  BY RecordOf
<1>2. r \in JobRecords /\ r.at = "tracks" /\ framesJob[j].at = "new" /\ F!Set(j, r)
      /\ videos' = videos + 1 /\ UNCHANGED <<tracks, frames, framesSpans, fts, framesVectors, overlap>>
  <2>1. videos + 1 \in Nat
    BY <1>1 DEF FramesTyped
  <2>2. r \in JobRecords /\ r.at = "tracks"
    BY <1>1, <2>1 DEF JobRecords, Places
  <2> QED BY <2>2 DEF F!PutVideo, F!At
<1>3. SpansHaveFrames'
  BY <1>1, <1>2 DEF SpansHaveFrames, F!Exists
<1>4. Kept(j) /\ framesJob'[j] = r
  <2> HIDE DEF r
  <2>1. videos' \in Nat
    BY <1>1, <1>2 DEF FramesTyped
  <2> QED BY <1>1, <1>2, <1>3, <2>1, StepKeeps DEF FramesTyped
<1>5. ASSUME ~overlap PROVE OneVideoRows' /\ JobOk(j)'
  <2>1. OneVideoRows /\ JobOk(j) /\ videos = 0
    BY <1>5, <1>2, RecordOf DEF JobOk
  <2>2. tracks = {} /\ videos' = 1
    BY <2>1, <1>2 DEF OneVideoRows
  <2>3. OneVideoRows'
    BY <2>1, <2>2, <1>2 DEF OneVideoRows, F!Exists
  <2>4. JobOk(j)'
    BY <2>1, <2>2, <1>2, <1>4 DEF JobOk
  <2> QED BY <2>3, <2>4
<1> QED BY <1>2, <1>4, <1>5 DEF Moved, F!Over

LEMMA RegisterMoves == ASSUME FramesInv, NEW j \in Jobs, F!Register(j) PROVE Moved(j)
<1> DEFINE t == F!NewTrack(j, framesJob[j].video)
           r == [framesJob[j] EXCEPT !.at = "begin", !.track = t.id]
<1>1. framesJob[j] \in JobRecords /\ FramesTyped /\ SpansHaveFrames
  BY RecordOf
<1>2. framesJob[j].video \in Nat
  BY <1>1 DEF JobRecords
<1>3. t \in [id : Nat, video : Nat] /\ IsFiniteSet(tracks \cup {t}) /\ t.id \in Nat
  BY <1>1, <1>2, TracksAdded
<1>4. r \in JobRecords /\ r.at = "begin"
  <2> HIDE DEF t
  <2> QED BY <1>1, <1>3 DEF JobRecords, Places
<1>5. framesJob[j].at \in {"tracks", "known"} /\ F!Set(j, r) /\ tracks' = tracks \cup {t}
      /\ UNCHANGED <<videos, frames, framesSpans, fts, framesVectors, overlap>>
  BY DEF F!Register, F!At
<1>6. SpansHaveFrames'
  BY <1>1, <1>5 DEF SpansHaveFrames, F!Exists
<1>7. Kept(j) /\ framesJob'[j] = r
  <2> HIDE DEF t, r
  <2>1. tracks' \in SUBSET [id : Nat, video : Nat]
    BY <1>1, <1>3, <1>5 DEF FramesTyped
  <2> QED BY <1>1, <1>3, <1>4, <1>5, <1>6, <2>1, StepKeeps DEF FramesTyped
<1>8. ASSUME ~overlap PROVE OneVideoRows' /\ JobOk(j)'
  <2>1. OneVideoRows /\ JobOk(j)
    BY <1>8, RecordOf
  <2>2. tracks = {} /\ framesJob[j].video = 1 /\ videos = 1
    <3>1. CASE framesJob[j].at = "tracks"
      BY <3>1, <2>1 DEF JobOk
    <3>2. CASE framesJob[j].at = "known"
      <4>1. framesJob[j].video = 1 /\ videos = 1
        BY <3>2, <2>1 DEF JobOk
      <4>2. {x \in tracks : x.video = framesJob[j].video} = {}
        BY <3>2 DEF F!Register, F!At, F!Keep, F!TracksOf
      <4>3. tracks \in {{}, {TheTrack}}
        BY <2>1 DEF OneVideoRows
      <4> QED BY <4>1, <4>2, <4>3 DEF TheTrack
    <3> QED BY <3>1, <3>2, <1>5
  <2>3. t = TheTrack
    BY <2>2, FS_EmptySet, SameCount DEF F!NewTrack, TheTrack
  <2>4. tracks' = {TheTrack} /\ r.track = 1
    <3>1. r.track = t.id
      BY <1>1 DEF JobRecords
    <3> QED BY <3>1, <2>2, <2>3, <1>5 DEF TheTrack
  <2>5. OneVideoRows'
    BY <2>1, <2>2, <2>4, <1>5 DEF OneVideoRows, F!Exists
  <2>6. JobOk(j)'
    <3>1. framesJob'[j].at = "begin" /\ framesJob'[j].track = 1
      BY <1>7, <1>4, <2>4
    <3>2. framesJob'[j].put = framesJob[j].put /\ framesJob'[j].sent = framesJob[j].sent
          /\ framesJob'[j].failed = framesJob[j].failed /\ framesJob'[j].done = framesJob[j].done
          /\ framesJob'[j].pending = framesJob[j].pending
          /\ framesJob'[j].finished = framesJob[j].finished
      BY <1>7, <1>1 DEF JobRecords
    <3> QED BY <3>1, <3>2, <2>1, <2>4, <1>5 DEF JobOk
  <2> QED BY <2>5, <2>6
<1>9. framesJob[j].at \notin F!Over /\ framesJob'[j].at = "begin"
  BY <1>5, <1>7, <1>4 DEF F!Over
<1> QED BY <1>5, <1>7, <1>8, <1>9 DEF Moved

LEMMA UseTracksMoves == ASSUME FramesInv, NEW j \in Jobs, F!UseTracks(j) PROVE Moved(j)
<1>1. framesJob[j] \in JobRecords /\ FramesTyped /\ SpansHaveFrames
  BY RecordOf
<1>2. PICK t \in F!TracksOf(framesJob[j].video) :
             F!Set(j, [framesJob[j] EXCEPT !.at = "begin", !.track = t.id])
  BY DEF F!UseTracks
<1>3. t \in tracks /\ t.id \in Nat
  BY <1>1, <1>2 DEF F!TracksOf, FramesTyped
<1> DEFINE r == [framesJob[j] EXCEPT !.at = "begin", !.track = t.id]
<1>4. r \in JobRecords /\ r.at = "begin"
  BY <1>1, <1>3 DEF JobRecords, Places
<1>5. framesJob[j].at = "known" /\ F!Set(j, r)
      /\ UNCHANGED <<videos, tracks, frames, framesSpans, fts, framesVectors, overlap>>
  BY <1>2 DEF F!UseTracks, F!At, F!Rows
<1>6. SpansHaveFrames'
  BY <1>1, <1>5 DEF SpansHaveFrames, F!Exists
<1>7. Kept(j) /\ framesJob'[j] = r
  <2> HIDE DEF r
  <2> QED BY <1>1, <1>4, <1>5, <1>6, StepKeeps DEF FramesTyped
<1>8. ASSUME ~overlap PROVE OneVideoRows' /\ JobOk(j)'
  <2>1. OneVideoRows /\ JobOk(j)
    BY <1>8, RecordOf
  <2>2. tracks = {TheTrack} /\ t.id = 1
    BY <2>1, <1>3 DEF OneVideoRows, TheTrack
  <2>3. OneVideoRows'
    BY <2>1, <1>5 DEF OneVideoRows, F!Exists
  <2>4. framesJob'[j].at = "begin" /\ framesJob'[j].track = 1
        /\ framesJob'[j].put = framesJob[j].put /\ framesJob'[j].sent = framesJob[j].sent
        /\ framesJob'[j].failed = framesJob[j].failed /\ framesJob'[j].done = framesJob[j].done
        /\ framesJob'[j].pending = framesJob[j].pending
        /\ framesJob'[j].finished = framesJob[j].finished
    BY <1>7, <1>1, <2>2 DEF JobRecords
  <2>5. JobOk(j)'
    BY <2>4, <2>1, <2>2, <1>5 DEF JobOk
  <2> QED BY <2>3, <2>5
<1>9. framesJob[j].at \notin F!Over /\ framesJob'[j].at = "begin"
  BY <1>5, <1>7, <1>4 DEF F!Over
<1> QED BY <1>5, <1>7, <1>8, <1>9 DEF Moved

LEMMA DeleteSamplesMoves == ASSUME FramesInv, NEW j \in Jobs, F!DeleteSamples(j) PROVE Moved(j)
<1> DEFINE gone == {f.id : f \in {f \in frames : f.track = framesJob[j].track}}
           r == [framesJob[j] EXCEPT !.at = "run"]
<1>1. framesJob[j] \in JobRecords /\ FramesTyped /\ SpansHaveFrames
  BY RecordOf
<1>2. r \in JobRecords /\ r.at = "run"
  BY <1>1 DEF JobRecords, Places
<1>3. framesJob[j].at = "begin" /\ F!Set(j, r) /\ UNCHANGED <<videos, tracks, overlap>>
      /\ F!Cascade(gone) /\ framesVectors' = framesVectors \ F!Dropped(gone)
  BY DEF F!DeleteSamples, F!At
<1>4. SpansHaveFrames'
  <2> HIDE DEF gone
  <2>1. /\ frames' = {f \in frames : f.id \notin gone}
        /\ framesSpans' = {s \in framesSpans : s.frame \notin gone}
        /\ fts' = {i \in fts : i \notin gone}
    BY <1>3 DEF F!Cascade
  <2>2. fts' = {s.id : s \in framesSpans'}
    BY <2>1, <1>1 DEF SpansHaveFrames
  <2>3. ASSUME NEW s \in framesSpans' PROVE s.id = s.frame /\ F!Exists(s.frame)'
    BY <2>1, <2>3, <1>1 DEF SpansHaveFrames, F!Exists
  <2> QED BY <2>2, <2>3 DEF SpansHaveFrames
<1>5. Kept(j) /\ framesJob'[j] = r
  <2>1. frames' \subseteq frames
    BY <1>3 DEF F!Cascade
  <2> HIDE DEF r
  <2> QED BY <1>1, <1>2, <1>3, <1>4, <2>1, StepKeeps DEF FramesTyped
<1>6. ASSUME ~overlap PROVE OneVideoRows' /\ JobOk(j)'
  <2>1. OneVideoRows /\ JobOk(j)
    BY <1>6, RecordOf
  <2>2. tracks = {TheTrack} /\ framesJob[j].track = 1
        /\ framesJob[j].put = 0 /\ framesJob[j].sent = 0 /\ ~framesJob[j].failed
        /\ framesJob[j].done = [c \in F!Consumers |-> 0]
        /\ framesJob[j].pending = [c \in Columns |-> {}] /\ framesJob[j].finished = {}
    BY <2>1, <1>3 DEF JobOk
  <2>3. gone = {f.id : f \in frames}
    BY <2>1, <2>2 DEF OneVideoRows
  <2> HIDE DEF gone
  <2>4. frames' = {}
    BY <2>3, <1>3 DEF F!Cascade
  <2>5. framesSpans' = {} /\ fts' = {}
    BY <2>4, <1>4 DEF SpansHaveFrames, F!Exists
  <2>6. framesVectors' = {}
    <3> SUFFICES ASSUME NEW v \in framesVectors PROVE v \in F!Dropped(gone)
      BY <1>3
    <3>1. CASE v = [kind |-> "frame", target |-> v.target] /\ F!Exists(v.target)
      <4>1. v.kind = "frame" /\ v.target \in gone
        BY <3>1, <2>3 DEF F!Exists
      <4> QED BY <4>1 DEF F!Dropped
    <3>2. CASE v = [kind |-> "ocr", target |-> v.target] /\ v.target \in fts
      <4>1. PICK s \in framesSpans : s.id = v.target /\ F!Exists(s.frame) /\ s.frame = s.id
        BY <3>2, <1>1 DEF SpansHaveFrames
      <4>2. v.target \in gone
        BY <4>1, <2>3 DEF F!Exists
      <4> QED BY <4>1, <4>2 DEF F!Dropped
    <3> QED BY <3>1, <3>2, <2>1 DEF OneVideoRows
  <2>7. OneVideoRows'
    BY <2>1, <2>4, <2>6, <1>3 DEF OneVideoRows
  <2>8. framesJob'[j].at = "run" /\ framesJob'[j].track = 1 /\ framesJob'[j].put = 0
        /\ framesJob'[j].sent = 0 /\ ~framesJob'[j].failed
        /\ framesJob'[j].done = [c \in F!Consumers |-> 0]
        /\ framesJob'[j].pending = [c \in Columns |-> {}] /\ framesJob'[j].finished = {}
    BY <1>5, <1>1, <2>2 DEF JobRecords
  <2>9. Counted(j)'
    BY <2>8, JobsAssumption DEF Counted, F!Consumers
  <2>10. Put(j)' /\ Written(j)'
    BY <2>8, <2>4, <2>5, <2>6 DEF Put, Written, TextOf, VectorsOf, F!Consumers
  <2> QED BY <2>2, <2>7, <2>8, <2>9, <2>10, <1>3 DEF JobOk
<1>7. framesJob[j].at \notin F!Over /\ framesJob'[j].at = "run"
  BY <1>3, <1>5, <1>2 DEF F!Over
<1> QED BY <1>3, <1>5, <1>6, <1>7 DEF Moved

(* A step of a running job keeps the rest of what is said of it. *)
LEMMA RunsOn ==
  ASSUME FramesInv, ~overlap, NEW j \in Jobs, framesJob[j].at = "run", framesJob'[j].at = "run",
         framesJob'[j].track = framesJob[j].track, UNCHANGED <<videos, tracks>>,
         Kept(j), Counted(j)', Put(j)', Written(j)'
  PROVE  OneVideoRows' /\ JobOk(j)'
<1>1. OneVideoRows /\ JobOk(j)
  BY RecordOf
<1>2. JobOk(j)'
  BY <1>1 DEF JobOk
<1>3. \A f \in frames' : f.track = 1
  <2> TAKE f \in frames'
  <2>1. PICK k \in 1..framesJob'[j].put : f = Row(j, k)'
    BY DEF Put
  <2> QED BY <2>1 DEF Row
<1>4. \A v \in framesVectors' :
       \/ v = [kind |-> "frame", target |-> v.target] /\ F!Exists(v.target)'
       \/ v = [kind |-> "ocr", target |-> v.target] /\ v.target \in fts'
  <2> TAKE v \in framesVectors'
  <2> DEFINE n == framesJob'[j].done["ocr"]
             m == framesJob'[j].done["embed"]
  <2>1. framesVectors' = VectorsOf(j, n, m) /\ fts' = TextOf(j, n)
    BY DEF Written
  <2>2. CASE v \in {[kind |-> "ocr", target |-> id] : id \in TextOf(j, n)}
    BY <2>1, <2>2
  <2>3. CASE v \in {[kind |-> "frame", target |-> id] : id \in TextOf(j, m)}
    <3>1. PICK k \in 1..m : v = [kind |-> "frame", target |-> <<j, k>>]
      BY <2>3 DEF TextOf
    <3>2. m <= framesJob'[j].sent /\ framesJob'[j].sent <= framesJob'[j].put
      BY DEF Counted, F!Consumers
    <3>3. framesJob'[j] \in JobRecords
      BY DEF Kept, FramesTyped
    <3>4. k \in 1..framesJob'[j].put
      BY <3>1, <3>2, <3>3 DEF JobRecords, F!Consumers
    <3>5. Row(j, k)' \in frames' /\ (Row(j, k)').id = <<j, k>>
      BY <3>4 DEF Put, Row
    <3> QED BY <3>1, <3>5 DEF F!Exists
  <2> QED BY <2>1, <2>2, <2>3 DEF VectorsOf
<1>5. OneVideoRows'
  BY <1>1, <1>3, <1>4 DEF OneVideoRows
<1> QED BY <1>2, <1>5

LEMMA RunRecord ==
  ASSUME FramesInv, NEW j \in Jobs, framesJob[j].at = "run"
  PROVE  /\ framesJob[j] \in JobRecords /\ FramesTyped /\ SpansHaveFrames
         /\ framesJob[j].put \in Nat /\ framesJob[j].sent \in Nat
         /\ framesJob[j].done \in [F!Consumers -> Nat]
         /\ framesJob[j].pending \in [Columns -> SUBSET FrameIds]
         /\ framesJob[j].finished \in SUBSET Columns
         /\ framesJob[j].at \notin F!Over
         /\ ~overlap => Counted(j) /\ Put(j) /\ Written(j) /\ framesJob[j].track = 1
BY RecordOf DEF JobRecords, JobOk, F!Over

LEMMA PutFrameMoves == ASSUME FramesInv, NEW j \in Jobs, F!PutFrame(j) PROVE Moved(j)
<1> DEFINE r == [framesJob[j] EXCEPT !.put = @ + 1]
           k1 == framesJob[j].put + 1
           new == [id |-> <<j, k1>>, track |-> framesJob[j].track, filled |-> {}]
<1>1. framesJob[j].at = "run" /\ framesJob[j].put < MaxSampled /\ F!Set(j, r)
      /\ frames' = frames \cup {new}
      /\ UNCHANGED <<videos, tracks, framesSpans, fts, framesVectors, overlap>>
  BY DEF F!PutFrame, F!At, F!FrameId
<1>2. framesJob[j] \in JobRecords /\ FramesTyped /\ SpansHaveFrames /\ framesJob[j].put \in Nat
      /\ framesJob[j].at \notin F!Over
  BY <1>1, RunRecord
<1>3. r \in JobRecords /\ r.at = "run" /\ k1 \in Nat
  BY <1>1, <1>2 DEF JobRecords
<1>4. new \in [id : FrameIds, track : Nat, filled : SUBSET Columns]
  BY <1>2, <1>3 DEF FrameIds, JobRecords
<1>5. SpansHaveFrames'
  BY <1>1, <1>2 DEF SpansHaveFrames, F!Exists
<1>6. Kept(j) /\ framesJob'[j] = r
  <2> HIDE DEF r, new
  <2>1. frames' \in SUBSET [id : FrameIds, track : Nat, filled : SUBSET Columns]
    BY <1>1, <1>2, <1>4 DEF FramesTyped
  <2> QED BY <1>1, <1>2, <1>3, <1>5, <2>1, StepKeeps DEF FramesTyped, F!Over
<1>7. framesJob'[j].at = "run" /\ framesJob'[j].track = framesJob[j].track /\ framesJob'[j].put = k1
      /\ framesJob'[j].sent = framesJob[j].sent /\ framesJob'[j].done = framesJob[j].done
      /\ framesJob'[j].pending = framesJob[j].pending /\ framesJob'[j].finished = framesJob[j].finished
      /\ framesJob'[j].failed = framesJob[j].failed
  BY <1>1, <1>2, <1>6 DEF JobRecords
<1>8. ASSUME ~overlap PROVE OneVideoRows' /\ JobOk(j)'
  <2>1. Counted(j) /\ Put(j) /\ Written(j) /\ framesJob[j].track = 1
        /\ framesJob[j].sent \in Nat /\ framesJob[j].done \in [F!Consumers -> Nat]
        /\ framesJob[j].pending \in [Columns -> SUBSET FrameIds]
    BY <1>8, <1>1, RunRecord
  <2>2. Counted(j)'
    <3>1. k1 <= MaxSampled /\ framesJob[j].sent <= k1
      BY <1>1, <1>2, <2>1, JobsAssumption DEF Counted
    <3> QED BY <3>1, <1>7, <2>1 DEF Counted
  <2>3. \A k : Row(j, k)' = Row(j, k)
    BY <1>7 DEF Row
  <2>4. Row(j, k1) = new
    <3>1. ASSUME NEW c \in Columns PROVE ~(k1 <= framesJob[j].done[c])
      <4>1. framesJob[j].done[c] \in Nat /\ framesJob[j].done[c] <= framesJob[j].sent
            /\ framesJob[j].sent <= framesJob[j].put
        BY <2>1 DEF Counted, F!Consumers
      <4> QED BY <4>1, <2>1, <1>2
    <3> HIDE DEF k1
    <3> QED BY <3>1, <2>1 DEF Row
  <2>5. Put(j)'
    <3>1. 1..k1 = 1..framesJob[j].put \cup {k1}
      BY <1>2
    <3> HIDE DEF k1, new
    <3>2. {Row(j, k) : k \in 1..k1} = {Row(j, k) : k \in 1..framesJob[j].put} \cup {new}
      BY <3>1, <2>4
    <3>3. {Row(j, k)' : k \in 1..k1} = {Row(j, k) : k \in 1..k1}
      BY <2>3
    <3> QED BY <3>2, <3>3, <2>1, <1>1, <1>7 DEF Put
  <2>6. Written(j)'
    BY <2>1, <1>1, <1>7 DEF Written
  <2> QED BY <1>1, <1>6, <1>7, <1>8, <2>2, <2>5, <2>6, RunsOn
<1> QED BY <1>1, <1>2, <1>6, <1>7, <1>8 DEF Moved

LEMMA EmitMoves == ASSUME FramesInv, NEW j \in Jobs, F!Emit(j) PROVE Moved(j)
<1> DEFINE r == [framesJob[j] EXCEPT !.sent = @ + 1]
<1>1. framesJob[j].at = "run" /\ framesJob[j].sent < framesJob[j].put /\ F!Set(j, r)
      /\ UNCHANGED <<videos, tracks, frames, framesSpans, fts, framesVectors, overlap>>
  BY DEF F!Emit, F!At, F!Ready, F!Rows
<1>2. framesJob[j] \in JobRecords /\ FramesTyped /\ SpansHaveFrames /\ framesJob[j].put \in Nat
      /\ framesJob[j].sent \in Nat /\ framesJob[j].at \notin F!Over
  BY <1>1, RunRecord
<1>3. r \in JobRecords /\ r.at = "run"
  BY <1>1, <1>2 DEF JobRecords
<1>4. SpansHaveFrames'
  BY <1>1, <1>2 DEF SpansHaveFrames, F!Exists
<1>5. Kept(j) /\ framesJob'[j] = r
  <2> HIDE DEF r
  <2> QED BY <1>1, <1>2, <1>3, <1>4, StepKeeps DEF FramesTyped, F!Over
<1>6. framesJob'[j].at = "run" /\ framesJob'[j].track = framesJob[j].track
      /\ framesJob'[j].put = framesJob[j].put
      /\ framesJob'[j].sent = framesJob[j].sent + 1 /\ framesJob'[j].done = framesJob[j].done
      /\ framesJob'[j].pending = framesJob[j].pending /\ framesJob'[j].finished = framesJob[j].finished
      /\ framesJob'[j].failed = framesJob[j].failed
  BY <1>1, <1>2, <1>5 DEF JobRecords
<1>7. ASSUME ~overlap PROVE OneVideoRows' /\ JobOk(j)'
  <2>1. Counted(j) /\ Put(j) /\ Written(j) /\ framesJob[j].done \in [F!Consumers -> Nat]
    BY <1>7, <1>1, RunRecord
  <2>2. Counted(j)'
    <3>1. framesJob[j].sent + 1 <= framesJob[j].put
      BY <1>1, <1>2
    <3>2. ASSUME NEW c \in F!Consumers PROVE framesJob[j].done[c] <= framesJob[j].sent + 1
      <4>1. framesJob[j].done[c] \in Nat /\ framesJob[j].done[c] <= framesJob[j].sent
        BY <2>1 DEF Counted
      <4> QED BY <4>1, <1>2
    <3> QED BY <3>1, <3>2, <1>6, <2>1 DEF Counted
  <2>3. Put(j)' /\ Written(j)'
    BY <1>1, <1>6, <2>1 DEF Put, Written, Row
  <2> QED BY <1>1, <1>5, <1>6, <1>7, <2>2, <2>3, RunsOn
<1> QED BY <1>1, <1>2, <1>5, <1>6, <1>7 DEF Moved

(* The rows follow what a column stage wrote. *)
LEMMA RowsFilled ==
  ASSUME NEW j \in Jobs, NEW c \in Columns, NEW ids, Put(j), F!Fill(c, ids),
         framesJob'[j].put = framesJob[j].put,
         \A k \in 1..framesJob[j].put :
           Row(j, k)' = [id |-> <<j, k>>, track |-> 1,
                         filled |-> Row(j, k).filled \cup (IF <<j, k>> \in ids THEN {c} ELSE {})]
  PROVE  Put(j)'
<1> DEFINE filled(f) == IF f.id \in ids THEN [f EXCEPT !.filled = @ \cup {c}] ELSE f
<1>1. frames' = {filled(f) : f \in frames}
  BY DEF F!Fill
<1>2. ASSUME NEW k \in 1..framesJob[j].put PROVE filled(Row(j, k)) = Row(j, k)'
  BY DEF Row
<1> HIDE DEF filled
<1>3. frames' = {filled(Row(j, k)) : k \in 1..framesJob[j].put}
  BY <1>1 DEF Put
<1>4. frames' = {Row(j, k)' : k \in 1..framesJob[j].put}
  BY <1>2, <1>3
<1> QED BY <1>4 DEF Put

LEMMA FillMoves ==
  ASSUME FramesInv, NEW j \in Jobs, NEW c \in Columns, NEW ids, NEW r \in JobRecords,
         framesJob[j].at = "run", F!Set(j, r), F!Fill(c, ids),
         UNCHANGED <<videos, tracks, framesSpans, fts, framesVectors, overlap>>,
         r.at = "run", r.track = framesJob[j].track, r.put = framesJob[j].put,
         r.done["ocr"] = framesJob[j].done["ocr"], r.done["embed"] = framesJob[j].done["embed"],
         framesJob'[j] = r /\ ~overlap => Counted(j)',
         framesJob'[j] = r /\ ~overlap => \A k \in 1..framesJob[j].put :
           Row(j, k)' = [id |-> <<j, k>>, track |-> 1,
                         filled |-> Row(j, k).filled \cup (IF <<j, k>> \in ids THEN {c} ELSE {})]
  PROVE  Moved(j)
<1>1. framesJob[j] \in JobRecords /\ FramesTyped /\ SpansHaveFrames /\ framesJob[j].at \notin F!Over
  BY RunRecord
<1>2. frames' \in SUBSET [id : FrameIds, track : Nat, filled : SUBSET Columns]
      /\ \A id : F!Exists(id) => F!Exists(id)'
  BY <1>1, FilledTyped
<1>3. SpansHaveFrames'
  BY <1>1, <1>2, SpansStay
<1>4. Kept(j) /\ framesJob'[j] = r
  BY <1>1, <1>2, <1>3, StepKeeps DEF FramesTyped, F!Over
<1>5. ASSUME ~overlap PROVE OneVideoRows' /\ JobOk(j)'
  <2>1. Put(j) /\ Written(j)
    BY <1>5, RunRecord
  <2>2. Put(j)'
    BY <1>4, <1>5, <2>1, RowsFilled
  <2>3. Written(j)'
    BY <1>4, <2>1 DEF Written
  <2> QED BY <1>4, <1>5, <2>2, <2>3, RunsOn
<1> QED BY <1>1, <1>4, <1>5 DEF Moved

(* What a column stage still has to write lies before the next frame.      *)
LEMMA PendingLies ==
  ASSUME FramesInv, ~overlap, NEW j \in Jobs, NEW c \in Columns, framesJob[j].at = "run"
  PROVE  /\ framesJob[j].done[c] \in Nat
         /\ \A k \in Nat : <<j, k>> \in framesJob[j].pending[c] => 1 <= k /\ k <= framesJob[j].done[c]
<1>1. Counted(j) /\ framesJob[j].done \in [F!Consumers -> Nat]
  BY RunRecord
<1>2. ASSUME NEW k \in Nat, <<j, k>> \in framesJob[j].pending[c]
      PROVE  1 <= k /\ k <= framesJob[j].done[c]
  <2>1. 1 <= <<j, k>>[2] /\ <<j, k>>[2] <= framesJob[j].done[c]
    BY <1>1, <1>2 DEF Counted
  <2> QED BY <2>1
<1> QED BY <1>1, <1>2 DEF F!Consumers

LEMMA TickMoves ==
  ASSUME FramesInv, NEW j \in Jobs, NEW c \in Columns, F!Tick(j, c) PROVE Moved(j)
<1> DEFINE r == [framesJob[j] EXCEPT !.pending[c] = {}]
<1>1. framesJob[j].at = "run" /\ F!Set(j, r) /\ F!Fill(c, framesJob[j].pending[c])
      /\ UNCHANGED <<videos, tracks, framesSpans, fts, framesVectors, overlap>>
  BY DEF F!Tick, F!At
<1>2. framesJob[j] \in JobRecords
  BY RecordOf
<1>3. /\ r \in JobRecords /\ r.at = "run" /\ r.track = framesJob[j].track
      /\ r.put = framesJob[j].put /\ r.sent = framesJob[j].sent
      /\ r.done = framesJob[j].done /\ r.finished = framesJob[j].finished
      /\ r.failed = framesJob[j].failed
      /\ r.pending = [framesJob[j].pending EXCEPT ![c] = {}]
  BY <1>1, <1>2 DEF JobRecords
<1>4. framesJob[j].pending \in [Columns -> SUBSET FrameIds]
  BY <1>2 DEF JobRecords
<1>5. ASSUME ~overlap, framesJob'[j] = r PROVE Counted(j)'
  <2>1. Counted(j) /\ framesJob[j].finished \in SUBSET Columns
    BY <1>1, <1>5, RunRecord
  <2> HIDE DEF r
  <2>2. \A d \in Columns : framesJob'[j].pending[d] =
                             IF d = c THEN {} ELSE framesJob[j].pending[d]
    BY <1>3, <1>4, <1>5
  <2> QED BY <1>3, <1>5, <2>1, <2>2 DEF Counted
<1>6. ASSUME ~overlap, framesJob'[j] = r, NEW k \in 1..framesJob[j].put
      PROVE  Row(j, k)' = [id |-> <<j, k>>, track |-> 1, filled |-> Row(j, k).filled \cup
               (IF <<j, k>> \in framesJob[j].pending[c] THEN {c} ELSE {})]
  <2>1. <<j, k>> \in framesJob[j].pending[c] => k <= framesJob[j].done[c]
    BY <1>1, <1>6, PendingLies
  <2>2. \A d \in Columns : framesJob'[j].pending[d] =
                             IF d = c THEN {} ELSE framesJob[j].pending[d]
    BY <1>3, <1>4, <1>6
  <2>3. framesJob'[j].done = framesJob[j].done
    BY <1>3, <1>6
  <2> HIDE DEF r
  <2> QED BY <2>1, <2>2, <2>3 DEF Row
<1> HIDE DEF r
<1> QED BY <1>1, <1>3, <1>5, <1>6, FillMoves

LEMMA FinishMoves ==
  ASSUME FramesInv, NEW j \in Jobs, NEW c \in Columns, F!Finish(j, c) PROVE Moved(j)
<1> DEFINE r == [framesJob[j] EXCEPT !.finished = @ \cup {c}, !.pending[c] = {}]
<1>1. framesJob[j].at = "run" /\ F!Set(j, r) /\ F!Fill(c, framesJob[j].pending[c])
      /\ framesJob[j].done[c] = MaxSampled
      /\ UNCHANGED <<videos, tracks, framesSpans, fts, framesVectors, overlap>>
  BY DEF F!Finish, F!At
<1>2. framesJob[j] \in JobRecords
  BY RecordOf
<1>3. /\ r \in JobRecords /\ r.at = "run" /\ r.track = framesJob[j].track
      /\ r.put = framesJob[j].put /\ r.sent = framesJob[j].sent
      /\ r.done = framesJob[j].done /\ r.finished = framesJob[j].finished \cup {c}
      /\ r.failed = framesJob[j].failed
      /\ r.pending = [framesJob[j].pending EXCEPT ![c] = {}]
  BY <1>1, <1>2 DEF JobRecords
<1>4. framesJob[j].pending \in [Columns -> SUBSET FrameIds]
  BY <1>2 DEF JobRecords
<1>5. ASSUME ~overlap, framesJob'[j] = r PROVE Counted(j)'
  <2>1. Counted(j) /\ framesJob[j].finished \in SUBSET Columns
    BY <1>1, <1>5, RunRecord
  <2> HIDE DEF r
  <2>2. \A d \in Columns : framesJob'[j].pending[d] =
                             IF d = c THEN {} ELSE framesJob[j].pending[d]
    BY <1>3, <1>4, <1>5
  <2>3. \A d \in framesJob'[j].finished :
           framesJob'[j].done[d] = MaxSampled /\ framesJob'[j].pending[d] = {}
    BY <1>1, <1>3, <1>5, <2>1, <2>2 DEF Counted
  <2> QED BY <1>3, <1>5, <2>1, <2>2, <2>3 DEF Counted
<1>6. ASSUME ~overlap, framesJob'[j] = r, NEW k \in 1..framesJob[j].put
      PROVE  Row(j, k)' = [id |-> <<j, k>>, track |-> 1, filled |-> Row(j, k).filled \cup
               (IF <<j, k>> \in framesJob[j].pending[c] THEN {c} ELSE {})]
  <2>1. <<j, k>> \in framesJob[j].pending[c] => k <= framesJob[j].done[c]
    BY <1>1, <1>6, PendingLies
  <2>2. \A d \in Columns : framesJob'[j].pending[d] =
                             IF d = c THEN {} ELSE framesJob[j].pending[d]
    BY <1>3, <1>4, <1>6
  <2>3. framesJob'[j].done = framesJob[j].done
    BY <1>3, <1>6
  <2> HIDE DEF r
  <2> QED BY <2>1, <2>2, <2>3 DEF Row
<1> HIDE DEF r
<1> QED BY <1>1, <1>3, <1>5, <1>6, FillMoves

LEMMA FillNextMoves ==
  ASSUME FramesInv, NEW j \in Jobs, NEW c \in Columns, F!FillNext(j, c) PROVE Moved(j)
<1> DEFINE next1 == <<j, framesJob[j].done[c] + 1>>
           all == framesJob[j].pending[c] \cup {next1}
           full == F!Cardinality(all) >= Batch
           ids == IF full THEN all ELSE {}
           rest == IF full THEN {} ELSE all
           r == [framesJob[j] EXCEPT !.done[c] = @ + 1, !.pending[c] = rest]
<1>1. framesJob[j].at = "run" /\ framesJob[j].done[c] < framesJob[j].sent /\ F!Set(j, r)
      /\ (IF full THEN F!Fill(c, all) ELSE UNCHANGED frames)
      /\ UNCHANGED <<videos, tracks, framesSpans, fts, framesVectors, overlap>>
  BY DEF F!FillNext, F!At, F!Takes, F!NextFrame, F!FrameId
<1>2. framesJob[j] \in JobRecords /\ framesJob[j].done \in [F!Consumers -> Nat]
      /\ framesJob[j].pending \in [Columns -> SUBSET FrameIds] /\ c \in F!Consumers
      /\ framesJob[j].sent \in Nat /\ framesJob[j].put \in Nat
  BY <1>1, RunRecord DEF F!Consumers
<1>3. next1 \in FrameIds
  BY <1>2 DEF FrameIds
<1>4. all \in SUBSET FrameIds /\ ids \in SUBSET FrameIds /\ rest \in SUBSET FrameIds
  BY <1>2, <1>3
<1>5. F!Fill(c, ids)
  <2>1. CASE full
    BY <1>1, <2>1
  <2>2. CASE ~full
    BY <1>1, <2>2 DEF F!Fill
  <2> QED BY <2>1, <2>2
<1>6. ids \cup rest = all /\ ids \cap rest = {}
  OBVIOUS
<1> HIDE DEF full, rest, ids
<1>7. /\ r \in JobRecords /\ r.at = "run" /\ r.track = framesJob[j].track
      /\ r.put = framesJob[j].put /\ r.sent = framesJob[j].sent
      /\ r.done = [framesJob[j].done EXCEPT ![c] = @ + 1]
      /\ r.finished = framesJob[j].finished
      /\ r.failed = framesJob[j].failed
      /\ r.pending = [framesJob[j].pending EXCEPT ![c] = rest]
  <2> DEFINE done1 == [framesJob[j].done EXCEPT ![c] = @ + 1]
             pending1 == [framesJob[j].pending EXCEPT ![c] = rest]
  <2>1. done1 \in [F!Consumers -> Nat]
    BY <1>2
  <2>2. pending1 \in [Columns -> SUBSET FrameIds]
    BY <1>2, <1>4
  <2>3. r = [framesJob[j] EXCEPT !.done = done1, !.pending = pending1]
    BY <1>2 DEF JobRecords
  <2> HIDE DEF done1, pending1, r
  <2>4. r \in JobRecords /\ r.at = "run" /\ r.track = framesJob[j].track
        /\ r.put = framesJob[j].put /\ r.sent = framesJob[j].sent
        /\ r.done = done1 /\ r.finished = framesJob[j].finished
        /\ r.failed = framesJob[j].failed /\ r.pending = pending1
    BY <1>1, <1>2, <2>1, <2>2, <2>3 DEF JobRecords
  <2> QED BY <2>4 DEF done1, pending1
<1>8. /\ \A d \in F!Consumers : r.done[d] = IF d = c THEN framesJob[j].done[c] + 1
                                             ELSE framesJob[j].done[d]
      /\ \A d \in Columns : r.pending[d] = IF d = c THEN rest ELSE framesJob[j].pending[d]
  <2> HIDE DEF r
  <2> QED BY <1>2, <1>7
<1>9. r.done["ocr"] = framesJob[j].done["ocr"] /\ r.done["embed"] = framesJob[j].done["embed"]
  <2> HIDE DEF r
  <2> QED BY <1>8, JobsAssumption DEF F!Consumers
<1> HIDE DEF r
<1>10. ASSUME ~overlap, framesJob'[j] = r PROVE Counted(j)'
  <2>1. Counted(j) /\ framesJob[j].finished \in SUBSET Columns
    BY <1>1, <1>10, RunRecord
  <2>2. c \notin framesJob[j].finished
    <3>1. framesJob[j].done[c] \in Nat /\ framesJob[j].done[c] < MaxSampled
      BY <1>1, <1>2, <2>1, JobsAssumption DEF Counted
    <3> QED BY <3>1, <2>1, JobsAssumption DEF Counted
  <2>3. \A d \in F!Consumers : r.done[d] <= framesJob[j].sent
    BY <1>1, <1>2, <1>8, <2>1 DEF Counted
  <2>4. ASSUME NEW d \in Columns, NEW id \in r.pending[d]
        PROVE  id[1] = j /\ 1 <= id[2] /\ id[2] <= r.done[d]
    <3>1. CASE d # c
      BY <1>8, <2>1, <2>4, <3>1 DEF Counted, F!Consumers
    <3>2. CASE d = c
      <4>1. id \in framesJob[j].pending[c] \/ id = next1
        BY <1>6, <1>8, <2>4, <3>2
      <4>2. CASE id = next1
        BY <1>2, <1>8, <3>2, <4>2
      <4>3. CASE id \in framesJob[j].pending[c]
        <5>1. id \in FrameIds /\ id[1] = j /\ 1 <= id[2] /\ id[2] <= framesJob[j].done[c]
          BY <4>3, <1>2, <2>1 DEF Counted
        <5>2. id[2] \in Nat /\ framesJob[j].done[c] \in Nat
          BY <5>1, <1>2 DEF FrameIds
        <5> QED BY <5>1, <5>2, <1>2, <1>8, <3>2
      <4> QED BY <4>1, <4>2, <4>3
    <3> QED BY <3>1, <3>2
  <2>5. \A d \in r.finished : r.done[d] = MaxSampled /\ r.pending[d] = {}
    BY <1>7, <1>8, <2>1, <2>2 DEF Counted, F!Consumers
  <2> QED BY <1>7, <1>10, <2>1, <2>3, <2>4, <2>5 DEF Counted
<1>11. ASSUME ~overlap, framesJob'[j] = r, NEW k \in 1..framesJob[j].put
       PROVE  Row(j, k)' = [id |-> <<j, k>>, track |-> 1, filled |-> Row(j, k).filled \cup
                (IF <<j, k>> \in ids THEN {c} ELSE {})]
  <2>1. k \in Nat /\ framesJob[j].done[c] \in Nat
    BY <1>2
  <2>2. <<j, k>> \in framesJob[j].pending[c] => k <= framesJob[j].done[c]
    BY <1>1, <1>11, <2>1, PendingLies
  <2>3. <<j, k>> = next1 <=> k = framesJob[j].done[c] + 1
    OBVIOUS
  <2>4. /\ k <= framesJob[j].done[c] + 1 /\ <<j, k>> \notin rest
        <=> (k <= framesJob[j].done[c] /\ <<j, k>> \notin framesJob[j].pending[c])
             \/ <<j, k>> \in ids
    <3>1. <<j, k>> \in all <=> <<j, k>> \in framesJob[j].pending[c] \/ k = framesJob[j].done[c] + 1
      BY <2>3
    <3>2. (<<j, k>> \in ids \/ <<j, k>> \in rest <=> <<j, k>> \in all)
          /\ ~(<<j, k>> \in ids /\ <<j, k>> \in rest)
      BY <1>6
    <3> HIDE DEF all, next1
    <3>3. CASE ids = {}
      BY <2>1, <2>2, <3>1, <3>2, <3>3
    <3>4. CASE rest = {}
      BY <2>1, <2>2, <3>1, <3>2, <3>4
    <3> QED BY <3>3, <3>4 DEF ids, rest
  <2>5. ASSUME NEW d \in Columns
        PROVE  d \in (Row(j, k)').filled <=>
                 d \in Row(j, k).filled \/ (d = c /\ <<j, k>> \in ids)
    <3>1. framesJob'[j].done[d] = IF d = c THEN framesJob[j].done[c] + 1 ELSE framesJob[j].done[d]
      BY <1>8, <1>11 DEF F!Consumers
    <3>2. framesJob'[j].pending[d] = IF d = c THEN rest ELSE framesJob[j].pending[d]
      BY <1>8, <1>11
    <3> HIDE DEF all, next1
    <3>3. CASE d = c
      BY <3>1, <3>2, <3>3, <2>4 DEF Row
    <3>4. CASE d # c
      BY <3>1, <3>2, <3>4 DEF Row
    <3> QED BY <3>3, <3>4
  <2> HIDE DEF all, next1
  <2>6. (Row(j, k)').filled = Row(j, k).filled \cup (IF <<j, k>> \in ids THEN {c} ELSE {})
    <3>1. (Row(j, k)').filled \subseteq Columns /\ Row(j, k).filled \subseteq Columns
      BY DEF Row
    <3> QED BY <2>5, <3>1
  <2>7. Row(j, k)' = [id |-> <<j, k>>, track |-> 1, filled |-> (Row(j, k)').filled]
    BY DEF Row
  <2> QED BY <2>6, <2>7
<1> HIDE DEF all, next1
<1> QED BY <1>1, <1>5, <1>7, <1>9, <1>10, <1>11, FillMoves

(* Text and vectors of one frame more. *)
LEMMA OneMore ==
  ASSUME NEW j, NEW n \in Nat
  PROVE  TextOf(j, n + 1) = TextOf(j, n) \cup {<<j, n + 1>>}
<1>1. 1..(n + 1) = 1..n \cup {n + 1}
  OBVIOUS
<1> QED BY <1>1 DEF TextOf

LEMMA IdsOfOneMore ==
  ASSUME NEW A, NEW id
  PROVE  {s.id : s \in A \cup {[id |-> id, frame |-> id]}} = {s.id : s \in A} \cup {id}
<1> DEFINE x == [id |-> id, frame |-> id]
<1>1. x.id = id
  OBVIOUS
<1> HIDE DEF x
<1>2. {s.id : s \in A \cup {x}} = {s.id : s \in A} \cup {x.id}
  OBVIOUS
<1> QED BY <1>1, <1>2 DEF x

LEMMA ReadMoves == ASSUME FramesInv, NEW j \in Jobs, F!Read(j) PROVE Moved(j)
<1> DEFINE id1 == F!NextFrame(j, "ocr")
           r == [framesJob[j] EXCEPT !.done["ocr"] = @ + 1]
           r2 == [framesJob[j] EXCEPT !.done["ocr"] = @ + 1, !.failed = TRUE]
           n == framesJob[j].done["ocr"]
           m == framesJob[j].done["embed"]
           ok == F!Exists(id1) /\ ~framesJob[j].failed
<1>1. framesJob[j].at = "run" /\ n < framesJob[j].sent
      /\ UNCHANGED <<videos, tracks, frames, overlap>>
  BY DEF F!Read, F!At, F!Takes
<1>2. framesJob[j] \in JobRecords /\ framesJob[j].done \in [F!Consumers -> Nat]
      /\ "ocr" \in F!Consumers /\ "embed" \in F!Consumers /\ SpansHaveFrames
      /\ framesJob[j].sent \in Nat /\ framesJob[j].put \in Nat /\ FramesTyped
      /\ framesJob[j].at \notin F!Over /\ n \in Nat /\ m \in Nat
  BY <1>1, RunRecord DEF F!Consumers
<1>3. id1 = <<j, n + 1>>
  BY DEF F!NextFrame, F!FrameId
<1> HIDE DEF id1
<1>4. /\ r \in JobRecords /\ r.at = "run" /\ r.track = framesJob[j].track
      /\ r.put = framesJob[j].put /\ r.sent = framesJob[j].sent
      /\ r.done = [framesJob[j].done EXCEPT !["ocr"] = @ + 1]
      /\ r.finished = framesJob[j].finished /\ r.pending = framesJob[j].pending
      /\ r.failed = framesJob[j].failed
  <2> DEFINE done1 == [framesJob[j].done EXCEPT !["ocr"] = @ + 1]
  <2>1. done1 \in [F!Consumers -> Nat]
    BY <1>2
  <2>2. r = [framesJob[j] EXCEPT !.done = done1]
    BY <1>2 DEF JobRecords
  <2> HIDE DEF done1, r
  <2>3. r \in JobRecords /\ r.at = "run" /\ r.track = framesJob[j].track
        /\ r.put = framesJob[j].put /\ r.sent = framesJob[j].sent
        /\ r.done = done1 /\ r.finished = framesJob[j].finished
        /\ r.failed = framesJob[j].failed /\ r.pending = framesJob[j].pending
    BY <1>1, <1>2, <2>1, <2>2 DEF JobRecords
  <2> QED BY <2>3 DEF done1
<1>5. r2 \in JobRecords /\ r2.at = "run"
  <2> DEFINE done1 == [framesJob[j].done EXCEPT !["ocr"] = @ + 1]
  <2>1. done1 \in [F!Consumers -> Nat]
    BY <1>2
  <2>2. r2 = [framesJob[j] EXCEPT !.done = done1, !.failed = TRUE]
    BY <1>2 DEF JobRecords
  <2> HIDE DEF done1, r2
  <2> QED BY <1>1, <1>2, <2>1, <2>2 DEF JobRecords
<1>6. IF ok
      THEN /\ framesSpans' = framesSpans \cup {[id |-> id1, frame |-> id1]}
           /\ fts' = fts \cup {id1}
           /\ framesVectors' = framesVectors \cup {[kind |-> "ocr", target |-> id1]}
           /\ F!Set(j, r)
      ELSE F!Set(j, r2) /\ UNCHANGED <<framesSpans, fts, framesVectors>>
  BY DEF F!Read, id1
<1> HIDE DEF ok, r2
<1>7. CASE ok
  <2> HIDE DEF r
  <2>1. SpansHaveFrames'
    <3>1. fts' = {s.id : s \in framesSpans'}
      <4>1. framesSpans' = framesSpans \cup {[id |-> id1, frame |-> id1]} /\ fts' = fts \cup {id1}
        BY <1>6, <1>7
      <4>2. {s.id : s \in framesSpans'} = {s.id : s \in framesSpans} \cup {id1}
        BY <4>1, IdsOfOneMore
      <4> QED BY <4>1, <4>2, <1>2 DEF SpansHaveFrames
    <3>2. ASSUME NEW s \in framesSpans' PROVE s.id = s.frame /\ F!Exists(s.frame)'
      <4>1. F!Exists(id1)
        BY <1>7 DEF ok
      <4>2. \A id : F!Exists(id) => F!Exists(id)'
        BY <1>1 DEF F!Exists
      <4>3. CASE s \in framesSpans
        BY <1>2, <4>2, <4>3 DEF SpansHaveFrames
      <4>4. CASE s = [id |-> id1, frame |-> id1]
        BY <4>1, <4>2, <4>4
      <4> QED BY <1>6, <1>7, <3>2, <4>3, <4>4
    <3> QED BY <3>1, <3>2 DEF SpansHaveFrames
  <2>2. Kept(j) /\ framesJob'[j] = r
    BY <1>1, <1>2, <1>4, <1>6, <1>7, <2>1, StepKeeps DEF FramesTyped, F!Over
  <2>3. \A d \in F!Consumers : r.done[d] = IF d = "ocr" THEN n + 1 ELSE framesJob[j].done[d]
    BY <1>2, <1>4
  <2>4. ASSUME ~overlap PROVE OneVideoRows' /\ JobOk(j)'
    <3>1. Counted(j) /\ Put(j) /\ Written(j)
      BY <1>1, <2>4, RunRecord
    <3>2. \A c \in Columns : r.done[c] = framesJob[j].done[c]
      BY <2>3, JobsAssumption DEF F!Consumers
    <3>3. Counted(j)'
      <4>1. \A d \in F!Consumers : r.done[d] <= framesJob[j].sent
        BY <1>1, <1>2, <2>3, <3>1 DEF Counted
      <4>2. framesJob[j].finished \in SUBSET Columns
        BY <1>2 DEF JobRecords
      <4> QED BY <1>4, <2>2, <3>1, <3>2, <4>1, <4>2, ZenonT(40) DEF Counted
    <3>4. \A k : Row(j, k)' = Row(j, k)
      BY <1>4, <2>2, <3>2 DEF Row
    <3>5. Put(j)'
      BY <1>1, <1>4, <2>2, <3>1, <3>4 DEF Put
    <3>6. Written(j)'
      <4>1. r.done["ocr"] = n + 1 /\ r.done["embed"] = m
        BY <1>2, <2>3
      <4>2. fts' = TextOf(j, n + 1)
        BY <1>2, <1>3, <1>6, <1>7, <3>1, OneMore DEF Written
      <4>3. framesVectors' = VectorsOf(j, n + 1, m)
        <5>1. TextOf(j, n + 1) = TextOf(j, n) \cup {id1}
          BY <1>2, <1>3, OneMore
        <5> HIDE DEF n, m
        <5> QED BY <1>6, <1>7, <3>1, <5>1 DEF Written, VectorsOf, n, m
      <4> QED BY <2>2, <4>1, <4>2, <4>3 DEF Written
    <3> QED BY <1>1, <1>4, <2>2, <2>4, <3>3, <3>5, <3>6, RunsOn
  <2> QED BY <1>1, <1>2, <1>4, <2>2, <2>4 DEF Moved
<1>8. CASE ~ok
  <2>1. SpansHaveFrames'
    BY <1>1, <1>2, <1>6, <1>8 DEF SpansHaveFrames, F!Exists
  <2>2. Kept(j) /\ framesJob'[j] = r2
    BY <1>1, <1>2, <1>5, <1>6, <1>8, <2>1, StepKeeps DEF FramesTyped, F!Over
  <2>3. overlap
    <3> SUFFICES ASSUME ~overlap PROVE FALSE
      BY <1>2 DEF FramesTyped
    <3>1. Counted(j) /\ Put(j)
      BY <1>1, RunRecord
    <3>2. n + 1 \in 1..framesJob[j].put
      BY <1>1, <1>2, <3>1 DEF Counted
    <3>3. Row(j, n + 1) \in frames /\ Row(j, n + 1).id = id1
      BY <1>3, <3>1, <3>2 DEF Put, Row
    <3> QED BY <1>8, <3>1, <3>3 DEF ok, F!Exists, Counted
  <2> QED BY <1>1, <1>2, <1>5, <2>2, <2>3 DEF Moved
<1> QED BY <1>7, <1>8

LEMMA EmbedMoves == ASSUME FramesInv, NEW j \in Jobs, F!Embed(j) PROVE Moved(j)
<1> DEFINE id1 == F!NextFrame(j, "embed")
           r == [framesJob[j] EXCEPT !.done["embed"] = @ + 1]
           n == framesJob[j].done["ocr"]
           m == framesJob[j].done["embed"]
<1>1. framesJob[j].at = "run" /\ m < framesJob[j].sent /\ F!Set(j, r)
      /\ framesVectors' = framesVectors \cup {[kind |-> "frame", target |-> id1]}
      /\ UNCHANGED <<videos, tracks, frames, framesSpans, fts, overlap>>
  BY DEF F!Embed, F!At, F!Takes
<1>2. framesJob[j] \in JobRecords /\ framesJob[j].done \in [F!Consumers -> Nat]
      /\ "ocr" \in F!Consumers /\ "embed" \in F!Consumers /\ SpansHaveFrames
      /\ framesJob[j].sent \in Nat /\ framesJob[j].put \in Nat /\ FramesTyped
      /\ framesJob[j].at \notin F!Over /\ n \in Nat /\ m \in Nat
  BY <1>1, RunRecord DEF F!Consumers
<1>3. id1 = <<j, m + 1>>
  BY DEF F!NextFrame, F!FrameId
<1> HIDE DEF id1
<1>4. /\ r \in JobRecords /\ r.at = "run" /\ r.track = framesJob[j].track
      /\ r.put = framesJob[j].put /\ r.sent = framesJob[j].sent
      /\ r.done = [framesJob[j].done EXCEPT !["embed"] = @ + 1]
      /\ r.finished = framesJob[j].finished /\ r.pending = framesJob[j].pending
      /\ r.failed = framesJob[j].failed
  <2> DEFINE done1 == [framesJob[j].done EXCEPT !["embed"] = @ + 1]
  <2>1. done1 \in [F!Consumers -> Nat]
    BY <1>2
  <2>2. r = [framesJob[j] EXCEPT !.done = done1]
    BY <1>2 DEF JobRecords
  <2> HIDE DEF done1, r
  <2>3. r \in JobRecords /\ r.at = "run" /\ r.track = framesJob[j].track
        /\ r.put = framesJob[j].put /\ r.sent = framesJob[j].sent
        /\ r.done = done1 /\ r.finished = framesJob[j].finished
        /\ r.failed = framesJob[j].failed /\ r.pending = framesJob[j].pending
    BY <1>1, <1>2, <2>1, <2>2 DEF JobRecords
  <2> QED BY <2>3 DEF done1
<1> HIDE DEF r
<1>5. SpansHaveFrames'
  BY <1>1, <1>2 DEF SpansHaveFrames, F!Exists
<1>6. Kept(j) /\ framesJob'[j] = r
  BY <1>1, <1>2, <1>4, <1>5, StepKeeps DEF FramesTyped, F!Over
<1>7. \A d \in F!Consumers : r.done[d] = IF d = "embed" THEN m + 1 ELSE framesJob[j].done[d]
  BY <1>2, <1>4
<1>8. ASSUME ~overlap PROVE OneVideoRows' /\ JobOk(j)'
  <2>1. Counted(j) /\ Put(j) /\ Written(j)
    BY <1>1, <1>8, RunRecord
  <2>2. \A c \in Columns : r.done[c] = framesJob[j].done[c]
    BY <1>7, JobsAssumption DEF F!Consumers
  <2>3. Counted(j)'
    <3>1. \A d \in F!Consumers : r.done[d] <= framesJob[j].sent
      BY <1>1, <1>2, <1>7, <2>1 DEF Counted
    <3>2. framesJob[j].finished \in SUBSET Columns
      BY <1>2 DEF JobRecords
    <3> QED BY <1>4, <1>6, <2>1, <2>2, <3>1, <3>2, ZenonT(40) DEF Counted
  <2>4. \A k : Row(j, k)' = Row(j, k)
    BY <1>4, <1>6, <2>2 DEF Row
  <2>5. Put(j)'
    BY <1>1, <1>4, <1>6, <2>1, <2>4 DEF Put
  <2>6. Written(j)'
    <3>1. r.done["ocr"] = n /\ r.done["embed"] = m + 1
      BY <1>2, <1>7
    <3>2. framesVectors' = VectorsOf(j, n, m + 1)
      <4>1. TextOf(j, m + 1) = TextOf(j, m) \cup {id1}
        BY <1>2, <1>3, OneMore
      <4> HIDE DEF n, m
      <4> QED BY <1>1, <2>1, <4>1 DEF Written, VectorsOf, n, m
    <3> QED BY <1>1, <1>6, <2>1, <3>1, <3>2 DEF Written
  <2> QED BY <1>1, <1>4, <1>6, <1>8, <2>3, <2>5, <2>6, RunsOn
<1> QED BY <1>1, <1>2, <1>4, <1>6, <1>8 DEF Moved

LEMMA EndMoves ==
  ASSUME FramesInv, NEW j \in Jobs, F!End(j)
  PROVE  FramesInv'
<1> DEFINE r == [F!Idle EXCEPT !.at = IF framesJob[j].failed THEN "failed" ELSE "clean",
                               !.video = framesJob[j].video, !.track = framesJob[j].track]
<1>1. /\ framesJob[j].at = "run" /\ framesJob[j].put = MaxSampled
      /\ \A c \in F!Consumers : framesJob[j].done[c] = MaxSampled
      /\ framesJob[j].finished = Columns /\ F!Set(j, r)
      /\ UNCHANGED <<videos, tracks, frames, framesSpans, fts, framesVectors, overlap>>
  BY DEF F!End, F!At, F!Rows
<1>2. framesJob[j] \in JobRecords /\ FramesTyped /\ SpansHaveFrames /\ framesJob[j].at \notin F!Over
  BY <1>1, RunRecord
<1>3. r \in JobRecords /\ r.at \in {"failed", "clean"} /\ r.track = framesJob[j].track
      /\ (~framesJob[j].failed => r.at = "clean")
  BY <1>2 DEF JobRecords, Places, F!Idle
<1>4. SpansHaveFrames'
  BY <1>1, <1>2 DEF SpansHaveFrames, F!Exists
<1>5. Kept(j) /\ framesJob'[j] = r
  <2> HIDE DEF r
  <2> QED BY <1>1, <1>2, <1>3, <1>4, StepKeeps DEF FramesTyped, F!Over
<1>6. ASSUME ~overlap
      PROVE  framesJob'[j].at # "failed" /\ OneVideoRows' /\ JobOk(j)'
  <2>1. OneVideoRows /\ Counted(j) /\ Put(j) /\ Written(j) /\ framesJob[j].track = 1
    BY <1>1, <1>6, RunRecord, RecordOf
  <2>2. framesJob'[j].at = "clean" /\ framesJob'[j].track = 1
    BY <1>3, <1>5, <2>1 DEF Counted
  <2>3. OneVideoRows'
    BY <1>1, <2>1 DEF OneVideoRows, F!Exists
  <2>4. ASSUME NEW k \in 1..MaxSampled
        PROVE  Row(j, k) = [id |-> <<j, k>>, track |-> 1, filled |-> Columns]
    <3>1. \A c \in Columns : k <= framesJob[j].done[c] /\ <<j, k>> \notin framesJob[j].pending[c]
      BY <1>1, <2>1, <2>4, JobsAssumption DEF Counted, F!Consumers
    <3> QED BY <3>1 DEF Row
  <2>5. Sampled(j)'
    <3>1. frames = {[id |-> <<j, k>>, track |-> 1, filled |-> Columns] : k \in 1..MaxSampled}
      BY <1>1, <2>1, <2>4 DEF Put
    <3>2. framesJob[j].done["ocr"] = MaxSampled /\ framesJob[j].done["embed"] = MaxSampled
      BY <1>1 DEF F!Consumers
    <3> QED BY <1>1, <2>1, <3>1, <3>2 DEF Sampled, Written
  <2> QED BY <2>2, <2>3, <2>5 DEF JobOk
<1>7. Moved(j)
  BY <1>1, <1>2, <1>3, <1>5, <1>6 DEF Moved
<1> QED BY <1>7, MovedKeeps

LEMMA CrashMoves == ASSUME FramesInv, NEW j \in Jobs, F!Crash(j) PROVE FramesInv'
<1> DEFINE r == [F!Idle EXCEPT !.at = "crashed"]
<1>1. framesJob[j].at \notin F!Over /\ F!Set(j, r)
      /\ UNCHANGED <<videos, tracks, frames, framesSpans, fts, framesVectors, overlap>>
  BY DEF F!Crash, F!Rows
<1>2. framesJob[j] \in JobRecords /\ FramesTyped /\ SpansHaveFrames
  BY RecordOf
<1>3. r \in JobRecords /\ r.at = "crashed"
  BY DEF JobRecords, Places, F!Idle
<1>4. SpansHaveFrames'
  BY <1>1, <1>2 DEF SpansHaveFrames, F!Exists
<1>5. Kept(j) /\ framesJob'[j] = r
  <2> HIDE DEF r
  <2> QED BY <1>1, <1>2, <1>3, <1>4, StepKeeps DEF FramesTyped, F!Over
<1>6. ASSUME ~overlap
      PROVE  framesJob'[j].at # "failed" /\ OneVideoRows' /\ JobOk(j)'
  <2>1. framesJob'[j].at = "crashed"
    BY <1>3, <1>5
  <2>2. OneVideoRows'
    BY <1>1, <1>6, RecordOf DEF OneVideoRows, F!Exists
  <2> QED BY <2>1, <2>2 DEF JobOk
<1>7. Moved(j)
  BY <1>1, <1>3, <1>5, <1>6 DEF Moved
<1> QED BY <1>7, MovedKeeps

LEMMA FindMoves == ASSUME FramesInv, NEW j \in Jobs, F!Find(j) PROVE FramesInv'
<1>1. Kept(j) /\ framesJob'[j].at \in {"new", "known"}
  BY FindKeeps
<1>2. framesJob[j].at = "idle"
  BY DEF F!Find, F!At
<1>3. ASSUME ~overlap' PROVE LastRuns' /\ OneVideoRows' /\ \A i \in Jobs : JobOk(i)'
  <2>1. ~overlap /\ \A i \in Jobs \ {j} : framesJob[i].at \in F!Over
    BY <1>3 DEF F!Find
  <2>2. \A i \in Jobs : i < j => framesJob[i].at # "idle"
    BY DEF F!Find, F!At
  <2>3. ASSUME NEW i \in Jobs, i > j PROVE framesJob[i].at = "idle"
    BY <1>2, <2>3, JobsAssumption DEF FramesInv, InTurn, F!Find, F!At
  <2>4. F!Latest(j)'
    <3> SUFFICES ASSUME NEW i \in Jobs, i > j PROVE framesJob'[i].at = "idle"
      BY DEF F!Latest
    <3> QED BY <1>1, <2>3, JobsAssumption DEF Kept
  <2>5. ASSUME NEW i \in Jobs \ {j}
        PROVE  framesJob'[i].at \in F!Over /\ (framesJob'[i].at = "idle" \/ ~F!Latest(i)')
    <3>1. framesJob'[i] = framesJob[i]
      BY <1>1 DEF Kept
    <3>2. i < j \/ i > j
      BY JobsAssumption
    <3>3. i < j => ~F!Latest(i)'
      BY <1>1, JobsAssumption DEF F!Latest
    <3> QED BY <2>1, <2>3, <3>1, <3>2, <3>3
  <2>6. LastRuns'
    <3> SUFFICES ASSUME NEW i \in Jobs
                 PROVE  (framesJob'[i].at \notin F!Over => F!Latest(i)') /\ framesJob'[i].at # "failed"
      BY DEF LastRuns, F!Over
    <3>1. CASE i = j
      BY <1>1, <2>4, <3>1
    <3>2. CASE i # j
      BY <1>1, <2>1, <2>5, <3>2 DEF Kept, FramesInv, LastRuns
    <3> QED BY <3>1, <3>2
  <2>7. OneVideoRows /\ UNCHANGED <<videos, tracks, frames, framesSpans, fts, framesVectors>>
    BY <2>1, RecordOf DEF F!Find, F!Rows
  <2>8. OneVideoRows'
    BY <2>7 DEF OneVideoRows, F!Exists
  <2>9. JobOk(j)'
    <3> DEFINE r == [framesJob[j] EXCEPT !.at = IF videos = 0 THEN "new" ELSE "known",
                                         !.video = IF videos = 0 THEN 0 ELSE 1]
    <3>1. framesJob'[j] = r
      BY DEF F!Find, F!Set, FramesInv, FramesTyped
    <3>2. framesJob[j] \in JobRecords /\ framesJob[j] = F!Idle
      BY RecordOf DEF FramesInv, InTurn, F!Find, F!At
    <3>3. /\ r.put = 0 /\ r.sent = 0 /\ r.failed = FALSE
          /\ r.done = [c \in F!Consumers |-> 0]
          /\ r.pending = [c \in Columns |-> {}] /\ r.finished = {}
      BY <3>2 DEF F!Idle
    <3>4. /\ videos = 0 => r.at = "new"
          /\ videos # 0 => r.at = "known" /\ r.video = 1
      BY <3>2 DEF F!Idle
    <3>5. videos \in {0, 1} /\ videos' = videos
      BY <2>7 DEF OneVideoRows
    <3> HIDE DEF r
    <3> QED BY <3>1, <3>3, <3>4, <3>5 DEF JobOk
  <2>10. ASSUME NEW i \in Jobs \ {j} PROVE JobOk(i)'
    BY <2>5 DEF JobOk, F!Over
  <2> QED BY <2>6, <2>8, <2>9, <2>10
<1> QED BY <1>1, <1>3 DEF FramesInv, Kept, LastRuns, RowsInv

LEMMA FramesAreKept == ASSUME FramesInv, [F!Next]_framesVars PROVE FramesInv'
<1>1. CASE UNCHANGED framesVars
  <2>1. UNCHANGED <<videos, tracks, frames, framesSpans, fts, framesVectors, framesJob, overlap>>
    BY <1>1 DEF framesVars
  <2>2. FramesTyped' /\ SpansHaveFrames' /\ InTurn'
    BY <2>1 DEF FramesInv, FramesTyped, SpansHaveFrames, F!Exists, InTurn
  <2>3. LastRuns' /\ \A j \in Jobs : F!Latest(j)' = F!Latest(j)
    BY <2>1 DEF FramesInv, LastRuns, F!Latest
  <2>4. ASSUME NEW j \in Jobs, JobOk(j) PROVE JobOk(j)'
    <3>1. \A k : Row(j, k)' = Row(j, k)
      BY <2>1 DEF Row
    <3>2. (Counted(j) => Counted(j)') /\ (Put(j) => Put(j)')
      BY <2>1, <3>1 DEF Counted, Put
    <3>3. (Written(j) => Written(j)') /\ (Sampled(j) => Sampled(j)')
      BY <2>1 DEF Written, Sampled
    <3> QED BY <2>1, <2>3, <2>4, <3>2, <3>3 DEF JobOk
  <2>5. OneVideoRows => OneVideoRows'
    BY <2>1 DEF OneVideoRows, F!Exists
  <2>6. RowsInv'
    BY <2>1, <2>4, <2>5 DEF FramesInv, RowsInv
  <2> QED BY <2>2, <2>3, <2>6 DEF FramesInv
<1>2. CASE F!Next
  <2>1. PICK j \in Jobs :
          \/ F!Find(j) \/ F!PutVideo(j) \/ F!Register(j) \/ F!UseTracks(j)
          \/ F!DeleteSamples(j) \/ F!PutFrame(j) \/ F!Emit(j)
          \/ \E c \in Columns : F!FillNext(j, c) \/ F!Tick(j, c) \/ F!Finish(j, c)
          \/ F!Read(j) \/ F!Embed(j) \/ F!End(j) \/ F!Crash(j)
    BY <1>2 DEF F!Next
  <2>2. CASE \/ F!PutVideo(j) \/ F!Register(j) \/ F!UseTracks(j) \/ F!DeleteSamples(j)
             \/ F!PutFrame(j) \/ F!Emit(j) \/ F!Read(j) \/ F!Embed(j)
    BY <2>2, PutVideoMoves, RegisterMoves, UseTracksMoves, DeleteSamplesMoves, PutFrameMoves,
       EmitMoves, ReadMoves, EmbedMoves, MovedKeeps
  <2>3. CASE \E c \in Columns : F!FillNext(j, c) \/ F!Tick(j, c) \/ F!Finish(j, c)
    BY <2>3, FillNextMoves, TickMoves, FinishMoves, MovedKeeps
  <2>4. CASE F!Find(j) \/ F!End(j) \/ F!Crash(j)
    BY <2>4, FindMoves, EndMoves, CrashMoves
  <2> QED BY <2>1, <2>2, <2>3, <2>4
<1> QED BY <1>1, <1>2

LEMMA FramesMean == ASSUME FramesInv PROVE F!FramesAreWhole
<1>1. {s.id : s \in framesSpans} = fts /\ \A s \in framesSpans : F!Exists(s.frame)
  BY DEF FramesInv, SpansHaveFrames
<1>2. ASSUME ~overlap PROVE F!OneVideoPerContent /\ F!Cardinality(tracks) <= 1
  <2>1. videos \in {0, 1} /\ (tracks = {} \/ tracks = {TheTrack})
    BY <1>2 DEF FramesInv, RowsInv, OneVideoRows
  <2>2. Cardinality(tracks) \in {0, 1}
    BY <2>1, FS_EmptySet, FS_Singleton
  <2> QED BY <2>1, <2>2, SameCount DEF F!OneVideoPerContent
<1>3. ASSUME ~overlap, NEW j \in Jobs PROVE ~F!At(j, "failed")
  BY <1>3 DEF FramesInv, LastRuns, F!At
<1>4. ASSUME ~overlap, NEW j \in Jobs, F!At(j, "clean"), F!Latest(j)
      PROVE  /\ frames = {[id |-> F!FrameId(j, k), track |-> framesJob[j].track,
                           filled |-> Columns] : k \in 1..MaxSampled}
             /\ fts = {f.id : f \in frames}
             /\ framesVectors = [kind : {"frame", "ocr"}, target : fts]
  <2>1. framesJob[j].track = 1 /\ Sampled(j)
    BY <1>4 DEF FramesInv, RowsInv, JobOk, F!At
  <2>2. frames = {[id |-> <<j, k>>, track |-> 1, filled |-> Columns] : k \in 1..MaxSampled}
    BY <2>1 DEF Sampled
  <2>3. fts = {f.id : f \in frames}
    <3>1. ASSUME NEW id \in fts PROVE id \in {f.id : f \in frames}
      <4>1. PICK k \in 1..MaxSampled : id = <<j, k>>
        BY <2>1, <3>1 DEF Sampled, TextOf
      <4>2. [id |-> <<j, k>>, track |-> 1, filled |-> Columns] \in frames
        BY <2>2
      <4> QED BY <4>1, <4>2
    <3>2. ASSUME NEW f \in frames PROVE f.id \in fts
      <4>1. PICK k \in 1..MaxSampled : f = [id |-> <<j, k>>, track |-> 1, filled |-> Columns]
        BY <2>2, <3>2
      <4>2. f.id = <<j, k>>
        BY <4>1
      <4> QED BY <2>1, <4>2 DEF Sampled, TextOf
    <3> QED BY <3>1, <3>2
  <2>4. framesVectors = {[kind |-> "ocr", target |-> id] : id \in fts} \cup
                        {[kind |-> "frame", target |-> id] : id \in fts}
    BY <2>1 DEF Sampled, VectorsOf
  <2>5. framesVectors = [kind : {"frame", "ocr"}, target : fts]
    <3>1. ASSUME NEW v \in [kind : {"frame", "ocr"}, target : fts] PROVE v \in framesVectors
      <4>1. v = [kind |-> v.kind, target |-> v.target] /\ v.target \in fts
        OBVIOUS
      <4>2. v.kind = "frame" \/ v.kind = "ocr"
        OBVIOUS
      <4> QED BY <4>1, <4>2, <2>4
    <3>2. ASSUME NEW v \in framesVectors PROVE v \in [kind : {"frame", "ocr"}, target : fts]
      BY <2>4, <3>2
    <3> QED BY <3>1, <3>2
  <2> QED BY <2>1, <2>2, <2>3, <2>5 DEF F!FrameId
<1> QED BY <1>1, <1>2, <1>3, <1>4 DEF F!FramesAreWhole

LEMMA FramesStep == ASSUME [Next]_vars PROVE [F!Next]_framesVars
BY DEF Next, vars, framesVars, LevelsSteps, FramesSteps, TextSteps, SpeechSteps, LinesSteps,
       SegmentsSteps, PlanSteps

(* For any number of jobs, frames and column stages, wherever jobs crash:  *)
(* every text span has its frame and is in the text index; and while jobs  *)
(* follow one another, a content is one video with one track, and a job    *)
(* that ends leaves exactly its frames, whole.                             *)
THEOREM FrameRowsAreWhole == Spec => []FramesAreWhole
<1>1. Init => FramesInv
  BY FramesStart DEF Init
<1>2. FramesInv /\ [Next]_vars => FramesInv'
  BY FramesAreKept, FramesStep
<1>3. FramesInv => FramesAreWhole
  BY FramesMean DEF FramesAreWhole
<1> QED BY <1>1, <1>2, <1>3, PTL DEF Spec

-----------------------------------------------------------------------------
(* `SegmentRows`.  The stored shots are none or all of one pass.  While a  *)
(* job is at work, what its stages hold is of these shots: what came from  *)
(* the detector, what waits for its parent, what waits for a summary; the  *)
(* shots still to be described have no description by this model, but the  *)
(* one whose summary is about to be stored.                                *)
OfOnePass(rows) ==
  /\ \E r \in Nat : DOMAIN rows = {r} \X (1..NumShots)
  /\ \A id \in DOMAIN rows : /\ rows[id].at = id[2]
                             /\ rows[id] = [at |-> rows[id].at, parent |-> rows[id].parent,
                                            summary |-> rows[id].summary]
AllOrNone(rows) == DOMAIN rows = {} \/ OfOnePass(rows)

JobShaped ==
  /\ levelsJob = [phase |-> levelsJob.phase, asked |-> levelsJob.asked, plan |-> levelsJob.plan,
                  at |-> levelsJob.at, emitted |-> levelsJob.emitted, todo |-> levelsJob.todo,
                  stored |-> levelsJob.stored, unclean |-> levelsJob.unclean,
                  joined |-> levelsJob.joined]
  /\ levelsJob.at = [s \in 1..4 |-> levelsJob.at[s]]
  /\ levelsJob.emitted = [s \in {1, 2} |-> levelsJob.emitted[s]]
  /\ \A s \in 1..4 : levelsJob.at[s] \in {"waits", "half", "rows", "done", "failed"}

AtWork == levelsJob.phase \in {"works", "ended"}
Ended(s) == levelsJob.at[s] \in {"done", "failed"}
Began(s) == levelsJob.at[s] \in {"half", "rows"} \/ (levelsJob.at[s] = "done" /\ levelsJob.plan[s] = "run")
InStages ==
  /\ Began(2) => Ended(1)
  /\ Began(4) => Ended(1) /\ Ended(2)
  /\ levelsJob.at[4] \in {"half", "rows"} => levelsJob.plan[4] = "run"
Came ==
  DOMAIN levelsJob.emitted[1] # {} =>
    /\ levelsJob.at[1] = "done" /\ AllOrNone(levelsJob.emitted[1])
    /\ DOMAIN levelsJob.emitted[1] = DOMAIN levelsShots
Covers(sc, t) == sc \in DOMAIN levelsScenes /\ levelsScenes[sc].from <= t /\ t <= levelsScenes[sc].to
Covered(rows) == \A id \in DOMAIN rows : Covers(rows[id].parent, rows[id].at)
Grouping ==
  levelsJob.at[2] = "rows" =>
    /\ AllOrNone(levelsJob.stored) /\ DOMAIN levelsJob.stored = DOMAIN levelsShots
    /\ \A id \in DOMAIN levelsJob.stored : \E sc : Covers(sc, levelsJob.stored[id].at)
WasGrouped == levelsJob.plan[2] = "run" /\ levelsJob.at[2] = "done" /\ level = "shot"
Parents == WasGrouped => Covered(levelsShots)
Describing ==
  levelsJob.at[4] \in {"half", "rows"} /\ level = "shot" =>
    /\ AllOrNone(levelsJob.stored) /\ DOMAIN levelsJob.stored = DOMAIN levelsShots
    /\ WasGrouped => Covered(levelsJob.stored)
    /\ levelsJob.todo \subseteq DOMAIN levelsJob.emitted[1]
    /\ \A d \in described : d.target \in levelsJob.todo /\ d.model = levelsJob.asked.model =>
         levelsJob.at[4] = "rows" /\ L!InOrder(d.target)
Summed ==
  /\ levelsJob.at[4] = "waits" \/ levelsJob.plan[4] # "run" => \A d \in described : d.run # levelsRuns
  /\ level = "shot" /\ levelsJob.at[4] # "failed" =>
       \A d \in described : d.run = levelsRuns /\ d.kind = "structured" /\ d.target \in DOMAIN levelsShots =>
         \/ levelsShots[d.target].summary = levelsRuns
         \/ levelsJob.at[4] = "rows" /\ L!InOrder(d.target)
WorkInv ==
  AtWork => JobShaped /\ InStages /\ Came /\ Grouping /\ Parents /\ Describing /\ Summed

LevelsInv ==
  /\ levelsRuns \in Nat /\ AllOrNone(levelsShots)
  /\ \A d \in described : d.run \in Nat /\ d.run <= levelsRuns
  /\ levelsJob.phase \in {"idle", "imports", "works", "ended", "crashed"}
  /\ levelsJob.phase = "imports" => \A d \in described : d.run # levelsRuns
  /\ L!OneDescriptionPerShot
  /\ WorkInv

Pcs == {"waits", "half", "rows", "done", "failed"}
(* A step of a job at work, by what it makes of the fields that matter.    *)
Turned(at1, emitted1, todo1, stored1) ==
  /\ JobShaped' /\ levelsJob'.phase = levelsJob.phase
  /\ levelsJob'.asked = levelsJob.asked /\ levelsJob'.plan = levelsJob.plan
  /\ levelsJob'.at = at1 /\ levelsJob'.emitted = emitted1
  /\ levelsJob'.todo = todo1 /\ levelsJob'.stored = stored1

LEMMA FieldsSet ==
  ASSUME JobShaped, NEW at1 \in [1..4 -> Pcs],
         NEW emitted1, emitted1 = [s \in {1, 2} |-> emitted1[s]],
         NEW todo1, NEW stored1, NEW unclean1, NEW joined1,
         levelsJob' = [levelsJob EXCEPT !.at = at1, !.emitted = emitted1, !.todo = todo1,
                                        !.stored = stored1, !.unclean = unclean1,
                                        !.joined = joined1]
  PROVE  Turned(at1, emitted1, todo1, stored1)
<1>1. levelsJob' = [phase |-> levelsJob.phase, asked |-> levelsJob.asked, plan |-> levelsJob.plan,
                    at |-> at1, emitted |-> emitted1, todo |-> todo1,
                    stored |-> stored1, unclean |-> unclean1, joined |-> joined1]
  BY DEF JobShaped
<1>2. at1 = [s \in 1..4 |-> at1[s]] /\ \A s \in 1..4 : at1[s] \in Pcs
  OBVIOUS
<1> QED BY <1>1, <1>2 DEF Turned, JobShaped, Pcs

LEMMA AtIs == ASSUME JobShaped PROVE levelsJob.at \in [1..4 -> Pcs]
BY DEF JobShaped, Pcs

LEMMA Moves ==
  ASSUME JobShaped, NEW s \in 1..4, NEW pc \in Pcs, L!Move(s, pc)
  PROVE  Turned([levelsJob.at EXCEPT ![s] = pc], levelsJob.emitted, levelsJob.todo, levelsJob.stored)
<1> DEFINE at1 == [levelsJob.at EXCEPT ![s] = pc]
<1>1. at1 \in [1..4 -> Pcs]
  BY AtIs
<1>2. levelsJob' = [levelsJob EXCEPT !.at = at1]
  BY DEF L!Move
<1> HIDE DEF at1
<1>3. levelsJob' = [levelsJob EXCEPT !.at = at1, !.emitted = levelsJob.emitted,
                      !.todo = levelsJob.todo, !.stored = levelsJob.stored,
                      !.unclean = levelsJob.unclean, !.joined = levelsJob.joined]
  BY <1>2 DEF JobShaped
<1>4. levelsJob.emitted = [e \in {1, 2} |-> levelsJob.emitted[e]]
  BY DEF JobShaped
<1> QED BY <1>1, <1>3, <1>4, FieldsSet DEF at1

LEMMA Emits ==
  ASSUME JobShaped, NEW s \in {1, 2}, NEW given, L!Emit(s, given)
  PROVE  Turned([levelsJob.at EXCEPT ![s] = "done"], [levelsJob.emitted EXCEPT ![s] = given],
                levelsJob.todo, levelsJob.stored)
<1> DEFINE at1 == [levelsJob.at EXCEPT ![s] = "done"]
           emitted1 == [levelsJob.emitted EXCEPT ![s] = given]
<1>1. at1 \in [1..4 -> Pcs]
  BY AtIs DEF Pcs
<1>2. emitted1 = [e \in {1, 2} |-> emitted1[e]]
  BY DEF JobShaped
<1>3. levelsJob' = [levelsJob EXCEPT !.at = at1, !.emitted = emitted1]
  BY DEF L!Emit, JobShaped
<1> HIDE DEF at1, emitted1
<1>4. levelsJob' = [levelsJob EXCEPT !.at = at1, !.emitted = emitted1,
                      !.todo = levelsJob.todo, !.stored = levelsJob.stored,
                      !.unclean = levelsJob.unclean, !.joined = levelsJob.joined]
  BY <1>3 DEF JobShaped
<1> QED BY <1>1, <1>2, <1>4, FieldsSet DEF at1, emitted1

(* What holds of the work, one part at a time. *)
LEMMA AtWorkMeans ==
  ASSUME LevelsInv, levelsJob.phase = "works"
  PROVE  /\ JobShaped /\ InStages /\ Came /\ Grouping /\ Parents /\ Describing /\ Summed
         /\ levelsRuns \in Nat /\ AllOrNone(levelsShots) /\ L!OneDescriptionPerShot
         /\ \A d \in described : d.run \in Nat /\ d.run <= levelsRuns
         /\ levelsJob.at \in [1..4 -> Pcs]
BY AtIs DEF LevelsInv, WorkInv, AtWork

(* A stage that waits has not begun; when it ends, only it has changed.    *)
LEMMA StillAtWork ==
  ASSUME LevelsInv, levelsJob.phase = "works", levelsJob'.phase \in {"works", "ended"},
         UNCHANGED levelsRuns, JobShaped', AllOrNone(levelsShots)', L!OneDescriptionPerShot',
         \A d \in described' : d.run \in Nat /\ d.run <= levelsRuns,
         InStages', Came', Grouping', Parents', Describing', Summed'
  PROVE  LevelsInv'
BY DEF LevelsInv, WorkInv, AtWork

LEMMA ReplayKeeps ==
  ASSUME LevelsInv, NEW s \in 1..4, L!Replay(s) PROVE LevelsInv'
<1>1. /\ levelsJob.phase = "works" /\ levelsJob.at[s] = "waits" /\ levelsJob.plan[s] = "replay"
      /\ UNCHANGED <<level, levelsShots, levelsScenes, described, levelsRuns>>
  BY DEF L!Replay, L!Due
<1>2. /\ JobShaped /\ InStages /\ Came /\ Grouping /\ Parents /\ Describing /\ Summed
      /\ levelsRuns \in Nat /\ AllOrNone(levelsShots) /\ L!OneDescriptionPerShot
      /\ \A d \in described : d.run \in Nat /\ d.run <= levelsRuns
      /\ levelsJob.at \in [1..4 -> Pcs]
  BY <1>1, AtWorkMeans
<1> DEFINE at1 == [levelsJob.at EXCEPT ![s] = "done"]
<1>3. at1 \in [1..4 -> Pcs] /\ at1[s] = "done" /\ \A t \in 1..4 \ {s} : at1[t] = levelsJob.at[t]
  BY <1>2 DEF Pcs
<1> HIDE DEF at1
<1>4. L!OneDescriptionPerShot' /\ AllOrNone(levelsShots)' /\ \A d \in described' : d.run \in Nat /\ d.run <= levelsRuns
  BY <1>1, <1>2 DEF L!OneDescriptionPerShot, AllOrNone, OfOnePass
<1>5. CASE s = 1
  <2>1. Turned(at1, [levelsJob.emitted EXCEPT ![1] = levelsShots], levelsJob.todo, levelsJob.stored)
    <3>1. L!Emit(1, levelsShots)
      BY <1>5 DEF L!Replay, L!ShotBoundary, L!Scenes
    <3> QED BY <1>2, <1>5, <3>1, Emits DEF at1
  <2>2. levelsJob'.emitted[1] = levelsShots
    BY <1>2, <2>1 DEF Turned, JobShaped
  <2>3. ~Began(2) /\ ~Began(4) /\ ~Began(2)' /\ ~Began(4)'
    BY <1>1, <1>2, <1>3, <1>5, <2>1 DEF InStages, Began, Ended, Turned
  <2>4. InStages' /\ Came' /\ Grouping' /\ Parents' /\ Describing'
    BY <1>1, <1>2, <1>3, <1>5, <2>1, <2>2, <2>3
       DEF InStages, Came, Grouping, Parents, Describing, WasGrouped, Turned, Began, AllOrNone, OfOnePass
  <2>5. Summed'
    BY <1>1, <1>2, <1>3, <1>5, <2>1 DEF Summed, Turned, L!InOrder
  <2> QED BY <1>1, <1>4, <2>1, <2>4, <2>5, StillAtWork DEF Turned
<1>6. CASE s = 2
  <2>1. Turned(at1, [levelsJob.emitted EXCEPT ![2] = levelsScenes], levelsJob.todo, levelsJob.stored)
    <3>1. L!Emit(2, levelsScenes)
      BY <1>6 DEF L!Replay, L!ShotBoundary, L!Scenes
    <3> QED BY <1>2, <1>6, <3>1, Emits DEF at1
  <2>2. levelsJob'.emitted[1] = levelsJob.emitted[1]
    BY <1>2, <2>1 DEF Turned, JobShaped
  <2>3. ~Began(4) /\ ~Began(2)' /\ ~Began(4)'
    BY <1>1, <1>2, <1>3, <1>6, <2>1 DEF InStages, Began, Ended, Turned
  <2>4. InStages' /\ Grouping' /\ Parents' /\ Describing'
    BY <1>1, <1>2, <1>3, <1>6, <2>1, <2>2, <2>3
       DEF InStages, Grouping, Parents, Describing, WasGrouped, Turned, Began
  <2>6. Came'
    BY <1>1, <1>2, <1>3, <1>6, <2>1, <2>2, SMTT(40) DEF Came, Turned, AllOrNone, OfOnePass
  <2>5. Summed'
    BY <1>1, <1>2, <1>3, <1>6, <2>1 DEF Summed, Turned, L!InOrder
  <2> QED BY <1>1, <1>4, <2>1, <2>4, <2>5, <2>6, StillAtWork DEF Turned
<1>7. CASE s \in {3, 4}
  <2>1. Turned(at1, levelsJob.emitted, levelsJob.todo, levelsJob.stored)
    <3>1. L!Move(s, "done")
      BY <1>7 DEF L!Replay, L!ShotBoundary, L!Scenes
    <3>2. "done" \in Pcs
      BY DEF Pcs
    <3> QED BY <1>2, <3>1, <3>2, Moves DEF at1
  <2>2. at1[1] = levelsJob.at[1] /\ at1[2] = levelsJob.at[2]
        /\ (at1[4] = levelsJob.at[4] \/ (at1[4] = "done" /\ levelsJob.plan[4] = "replay"
                                        /\ levelsJob.at[4] = "waits"))
    BY <1>1, <1>3, <1>7
  <2>3. InStages'
    BY <1>2, <2>1, <2>2 DEF InStages, Began, Ended, Turned
  <2>4. Came' /\ Grouping'
    BY <1>1, <1>2, <2>1, <2>2 DEF Came, Grouping, Turned, AllOrNone, OfOnePass, Covers
  <2>5. Parents'
    BY <1>1, <1>2, <2>1, <2>2 DEF Parents, WasGrouped, Turned, Covered, Covers
  <2>6. Describing'
    BY <1>1, <1>2, <2>1, <2>2 DEF Describing, WasGrouped, Turned, Covered, Covers, AllOrNone, OfOnePass, L!InOrder
  <2>7. Summed'
    BY <1>1, <1>2, <2>1, <2>2 DEF Summed, Turned, L!InOrder
  <2> QED BY <1>1, <1>4, <2>1, <2>3, <2>4, <2>5, <2>6, <2>7, StillAtWork DEF Turned
<1> QED BY <1>5, <1>6, <1>7

(* The rows stay, and no stage gets further than it was.                   *)
LEMMA RowsStand ==
  ASSUME LevelsInv, levelsJob.phase = "works", levelsJob'.phase \in {"works", "ended"},
         UNCHANGED <<level, levelsShots, levelsScenes, described, levelsRuns>>,
         JobShaped', levelsJob'.plan = levelsJob.plan, levelsJob'.asked = levelsJob.asked,
         levelsJob'.emitted = levelsJob.emitted, levelsJob'.todo = levelsJob.todo,
         levelsJob'.stored = levelsJob.stored,
         \A t \in {1, 2, 4} : levelsJob'.at[t] = levelsJob.at[t]
                              \/ (levelsJob.at[t] # "done" /\ levelsJob'.at[t] = "failed"),
         (\A t \in {1, 2} : levelsJob'.at[t] = levelsJob.at[t])
           \/ \A t \in {1, 2, 4} : levelsJob'.at[t] \in {"done", "failed"}
  PROVE  LevelsInv'
<1>1. /\ JobShaped /\ InStages /\ Came /\ Grouping /\ Parents /\ Describing /\ Summed
      /\ levelsRuns \in Nat /\ AllOrNone(levelsShots) /\ L!OneDescriptionPerShot
      /\ \A d \in described : d.run \in Nat /\ d.run <= levelsRuns
  BY AtWorkMeans
<1>2. L!OneDescriptionPerShot' /\ AllOrNone(levelsShots)'
      /\ \A d \in described' : d.run \in Nat /\ d.run <= levelsRuns
  BY <1>1 DEF L!OneDescriptionPerShot, AllOrNone, OfOnePass
<1>3. InStages'
  BY <1>1 DEF InStages, Began, Ended
<1>4. Came'
  BY <1>1 DEF Came, AllOrNone, OfOnePass
<1>5. Grouping'
  BY <1>1 DEF Grouping, AllOrNone, OfOnePass, Covers
<1>6. WasGrouped' => WasGrouped
  BY DEF WasGrouped
<1>7. Parents'
  BY <1>1, <1>6 DEF Parents, Covered, Covers
<1>8. Describing'
  BY <1>1, <1>6, SMTT(40) DEF Describing, Covered, Covers, AllOrNone, OfOnePass, L!InOrder
<1>9. Summed'
  BY <1>1 DEF Summed, L!InOrder
<1> QED BY <1>2, <1>3, <1>4, <1>5, <1>7, <1>8, <1>9, StillAtWork

LEMMA FailKeeps ==
  ASSUME LevelsInv, NEW s \in 1..4, L!Fail(s) PROVE LevelsInv'
<1> DEFINE at1 == [t \in 1..4 |-> IF levelsJob.at[t] = "done" THEN "done" ELSE "failed"]
<1>1. /\ levelsJob.phase = "works" /\ levelsJob' = [levelsJob EXCEPT !.at = at1]
      /\ UNCHANGED <<level, levelsShots, levelsScenes, described, levelsRuns>>
  BY DEF L!Fail, L!Stages
<1>2. JobShaped /\ levelsJob.at \in [1..4 -> Pcs]
  BY <1>1, AtWorkMeans
<1>3. at1 \in [1..4 -> Pcs]
  BY DEF Pcs
<1>4. \A t \in {1, 2, 4} : at1[t] = levelsJob.at[t]
                              \/ (levelsJob.at[t] # "done" /\ at1[t] = "failed")
  BY <1>2
<1>5. \A t \in {1, 2, 4} : at1[t] \in {"done", "failed"}
  OBVIOUS
<1> HIDE DEF at1
<1>6. levelsJob' = [levelsJob EXCEPT !.at = at1, !.emitted = levelsJob.emitted,
                      !.todo = levelsJob.todo, !.stored = levelsJob.stored,
                      !.unclean = levelsJob.unclean, !.joined = levelsJob.joined]
  BY <1>1, <1>2 DEF JobShaped
<1>7. levelsJob.emitted = [e \in {1, 2} |-> levelsJob.emitted[e]]
  BY <1>2 DEF JobShaped
<1>8. Turned(at1, levelsJob.emitted, levelsJob.todo, levelsJob.stored)
  BY <1>2, <1>3, <1>6, <1>7, FieldsSet
<1> QED BY <1>1, <1>4, <1>5, <1>8, RowsStand DEF Turned

LEMMA JoinKeeps ==
  ASSUME LevelsInv, L!Join \/ L!EndJob \/ L!PutChapters PROVE LevelsInv'
<1>1. levelsJob.phase = "works" /\ UNCHANGED <<level, levelsShots, levelsScenes, described, levelsRuns>>
  BY DEF L!Join, L!EndJob, L!PutChapters, L!Due
<1>2. JobShaped /\ levelsJob.at \in [1..4 -> Pcs]
  BY <1>1, AtWorkMeans
<1>3. CASE L!Join
  <2>1. levelsJob' = [levelsJob EXCEPT !.joined = levelsJob.joined + 1]
    BY <1>3 DEF L!Join
  <2>2. levelsJob' = [phase |-> levelsJob.phase, asked |-> levelsJob.asked, plan |-> levelsJob.plan,
                      at |-> levelsJob.at, emitted |-> levelsJob.emitted, todo |-> levelsJob.todo,
                      stored |-> levelsJob.stored, unclean |-> levelsJob.unclean,
                      joined |-> levelsJob.joined + 1]
    BY <2>1, <1>2 DEF JobShaped
  <2>3. JobShaped'
    BY <2>2, <1>2 DEF JobShaped
  <2> QED BY <1>1, <2>2, <2>3, RowsStand
<1>4. CASE L!EndJob
  <2>1. levelsJob' = [levelsJob EXCEPT !.phase = "ended"]
    BY <1>4 DEF L!EndJob
  <2>2. levelsJob' = [phase |-> "ended", asked |-> levelsJob.asked, plan |-> levelsJob.plan,
                      at |-> levelsJob.at, emitted |-> levelsJob.emitted, todo |-> levelsJob.todo,
                      stored |-> levelsJob.stored, unclean |-> levelsJob.unclean,
                      joined |-> levelsJob.joined]
    BY <2>1, <1>2 DEF JobShaped
  <2>3. JobShaped'
    BY <2>2, <1>2 DEF JobShaped
  <2> QED BY <1>1, <2>2, <2>3, RowsStand
<1>5. CASE L!PutChapters
  <2>1. Turned([levelsJob.at EXCEPT ![3] = "done"], levelsJob.emitted, levelsJob.todo, levelsJob.stored)
    BY <1>2, <1>5, Moves DEF L!PutChapters, L!Chapters, Pcs
  <2>2. \A t \in {1, 2, 4} : levelsJob'.at[t] = levelsJob.at[t]
    BY <1>2, <2>1 DEF Turned
  <2> QED BY <1>1, <2>1, <2>2, RowsStand DEF Turned
<1> QED BY <1>3, <1>4, <1>5

LEMMA ShotsBegin ==
  ASSUME LevelsInv, L!DeleteShots \/ L!PutShots PROVE LevelsInv'
<1> DEFINE pc == IF L!DeleteShots THEN "half" ELSE "done"
<1>1. /\ levelsJob.phase = "works" /\ levelsJob.at[1] \in {"waits", "half"}
      /\ UNCHANGED <<level, levelsScenes, described, levelsRuns>>
  BY DEF L!DeleteShots, L!PutShots, L!Due, L!Within, L!ShotBoundary
<1>2. /\ JobShaped /\ InStages /\ Came /\ Grouping /\ Parents /\ Describing /\ Summed
      /\ levelsRuns \in Nat /\ AllOrNone(levelsShots) /\ L!OneDescriptionPerShot
      /\ \A d \in described : d.run \in Nat /\ d.run <= levelsRuns
      /\ levelsJob.at \in [1..4 -> Pcs]
  BY <1>1, AtWorkMeans
<1>3. ~Began(2) /\ ~Began(4) /\ DOMAIN levelsJob.emitted[1] = {}
  BY <1>1, <1>2 DEF InStages, Ended, Came
<1>4. levelsJob.at[4] # "failed" => \A d \in described : d.run # levelsRuns
  <2>1. levelsJob.at[4] \in Pcs
    BY <1>2
  <2> QED BY <1>2, <1>3, <2>1 DEF Summed, Began, Pcs
<1>5. L!OneDescriptionPerShot' /\ \A d \in described' : d.run \in Nat /\ d.run <= levelsRuns
  BY <1>1, <1>2 DEF L!OneDescriptionPerShot
<1>6. ASSUME AllOrNone(levelsShots)', JobShaped', levelsJob'.phase = "works",
             levelsJob'.plan = levelsJob.plan, levelsJob'.at[1] # "waits",
             \A t \in {2, 3, 4} : levelsJob'.at[t] = levelsJob.at[t], Came'
      PROVE  LevelsInv'
  <2>1. ~Began(2)' /\ ~Began(4)' /\ levelsJob'.at[4] \notin {"half", "rows"}
        /\ levelsJob'.at[2] # "rows"
    BY <1>3, <1>6 DEF Began
  <2>2. InStages' /\ Grouping' /\ Parents' /\ Describing'
    BY <2>1 DEF InStages, Grouping, Parents, Describing, WasGrouped, Began
  <2>3. Summed'
    BY <1>1, <1>2, <1>4, <1>6 DEF Summed
  <2> QED BY <1>1, <1>5, <1>6, <2>2, <2>3, StillAtWork
<1>7. CASE L!DeleteShots
  <2>1. Turned([levelsJob.at EXCEPT ![1] = "half"], levelsJob.emitted, levelsJob.todo, levelsJob.stored)
    BY <1>2, <1>7, Moves DEF L!DeleteShots, L!ShotBoundary, Pcs
  <2>2. DOMAIN levelsShots' = {}
    BY <1>7 DEF L!DeleteShots, L!NoRows
  <2>3. AllOrNone(levelsShots)'
    BY <2>2 DEF AllOrNone
  <2>4. levelsJob'.at[1] = "half" /\ \A t \in {2, 3, 4} : levelsJob'.at[t] = levelsJob.at[t]
    BY <1>2, <2>1 DEF Turned
  <2>5. Came'
    BY <1>3, <2>1 DEF Came, Turned
  <2> QED BY <1>1, <1>6, <2>1, <2>3, <2>4, <2>5 DEF Turned
<1>8. CASE L!PutShots
  <2>1. L!Emit(1, L!NewShots) /\ levelsShots' = L!NewShots
    BY <1>8 DEF L!PutShots, L!ShotBoundary
  <2>2. Turned([levelsJob.at EXCEPT ![1] = "done"], [levelsJob.emitted EXCEPT ![1] = L!NewShots],
               levelsJob.todo, levelsJob.stored)
    BY <1>2, <2>1, Emits
  <2>3. OfOnePass(L!NewShots)
    <3>1. DOMAIN L!NewShots = {levelsRuns} \X (1..NumShots)
      BY DEF L!NewShots
    <3>2. \A id \in DOMAIN L!NewShots :
             L!NewShots[id] = [at |-> id[2], parent |-> L!None, summary |-> 0]
      BY DEF L!NewShots
    <3> QED BY <1>2, <3>1, <3>2 DEF OfOnePass
  <2>4. AllOrNone(levelsShots)'
    BY <2>1, <2>3 DEF AllOrNone, OfOnePass
  <2>5. levelsJob'.at[1] = "done" /\ (\A t \in {2, 3, 4} : levelsJob'.at[t] = levelsJob.at[t])
        /\ levelsJob'.emitted[1] = L!NewShots
    BY <1>2, <2>2 DEF Turned, JobShaped
  <2>6. Came'
    BY <2>1, <2>4, <2>5 DEF Came, AllOrNone, OfOnePass
  <2> QED BY <1>1, <1>6, <2>2, <2>4, <2>5, <2>6 DEF Turned
<1> QED BY <1>7, <1>8

(* What is grouped is all that is stored. *)
LEMMA GroupedIsStored ==
  ASSUME LevelsInv, levelsJob.phase = "works"
  PROVE  AllOrNone(L!Grouped) /\ DOMAIN L!Grouped = DOMAIN levelsShots
<1>1. Came /\ AllOrNone(levelsShots)
  BY AtWorkMeans
<1> QED BY <1>1 DEF L!Grouped, L!ShotBoundary, Came

(* A shot lies in the scene that starts last before it, as no cut is       *)
(* between them.                                                           *)
LEMMA CutsLeaveNone ==
  ASSUME NEW n \in Nat, NEW cuts \in SUBSET (1..(n - 1)), NEW k \in 1..n
  PROVE  \E s \in 1..k : (s = 1 \/ s - 1 \in cuts) /\ \A c \in cuts : ~(s <= c /\ c < k)
<1> DEFINE Hits == {m \in 0..(k - 1) : k - m = 1 \/ (k - m) - 1 \in cuts}
<1>1. Hits \in SUBSET Nat /\ k - 1 \in Hits
  OBVIOUS
<1>2. PICK m \in Hits : \A o \in Hits : m <= o
  BY <1>1, LeastNat
<1>3. m \in 0..(k - 1) /\ (k - m = 1 \/ (k - m) - 1 \in cuts)
  BY <1>2
<1>4. ASSUME NEW c \in cuts, k - m <= c, c < k PROVE FALSE
  <2>1. c \in Nat /\ k - (c + 1) \in 0..(k - 1) /\ (k - (k - (c + 1))) - 1 = c
    BY <1>3, <1>4
  <2>2. k - (c + 1) \in Hits
    BY <1>4, <2>1
  <2>3. m <= k - (c + 1)
    BY <1>2, <2>2
  <2> QED BY <1>3, <1>4, <2>1, <2>3
<1>5. k - m \in 1..k
  BY <1>3
<1> QED BY <1>3, <1>4, <1>5

LEMMA NextCut ==
  ASSUME NEW n \in Nat, NEW cuts \in SUBSET (1..(n - 1)), NEW s \in 1..n
  PROVE  \E e \in 1..n : e >= s /\ (e \in cuts \/ e = n) /\ \A c \in cuts : c >= s => c >= e
<1> DEFINE Hits == {e \in s..n : e \in cuts \/ e = n}
<1>1. Hits \in SUBSET Nat /\ n \in Hits
  OBVIOUS
<1>2. PICK e \in Hits : \A o \in Hits : e <= o
  BY <1>1, LeastNat
<1>3. ASSUME NEW c \in cuts, c >= s PROVE c >= e
  <2>1. c \in Hits
    BY <1>3
  <2> QED BY <1>2, <2>1
<1> QED BY <1>2, <1>3

LEMMA ScenesCover ==
  ASSUME LevelsInv, levelsJob.phase = "works", NEW cuts \in SUBSET (1..(NumShots - 1)),
         levelsScenes' = L!NewScenes(cuts), NEW id \in DOMAIN L!Grouped
  PROVE  \E sc \in DOMAIN levelsScenes' :
           /\ levelsScenes'[sc].from <= L!Grouped[id].at
           /\ L!Grouped[id].at <= levelsScenes'[sc].to
<1> DEFINE k == L!Grouped[id].at
<1>1. AllOrNone(L!Grouped)
  BY GroupedIsStored
<1>2. PICK r \in Nat : DOMAIN L!Grouped = {r} \X (1..NumShots)
  BY <1>1 DEF AllOrNone, OfOnePass
<1>3. \A i \in DOMAIN L!Grouped : L!Grouped[i].at = i[2]
  BY <1>1 DEF AllOrNone, OfOnePass
<1>4. L!TimesOf(L!Grouped) = 1..NumShots
  <2>1. ASSUME NEW t \in 1..NumShots PROVE t \in L!TimesOf(L!Grouped)
    <3>1. <<r, t>> \in DOMAIN L!Grouped /\ L!Grouped[<<r, t>>].at = t
      BY <1>2, <1>3
    <3> QED BY <3>1 DEF L!TimesOf
  <2>2. ASSUME NEW t \in L!TimesOf(L!Grouped) PROVE t \in 1..NumShots
    <3>1. PICK i \in DOMAIN L!Grouped : t = L!Grouped[i].at
      BY <2>2 DEF L!TimesOf
    <3> QED BY <1>2, <1>3, <3>1
  <2> QED BY <2>1, <2>2
<1>5. k \in 1..NumShots
  BY <1>2, <1>3
<1>6. PICK s \in 1..k : (s = 1 \/ s - 1 \in cuts) /\ \A c \in cuts : ~(s <= c /\ c < k)
  BY <1>5, ShotsAssumption, CutsLeaveNone
<1>7. s \in 1..NumShots
  BY <1>5, <1>6, ShotsAssumption
<1> DEFINE Starts == {t \in L!TimesOf(L!Grouped) : t = 1 \/ t - 1 \in cuts}
           IsEnd(e, b) == /\ e >= b /\ (e \in cuts \/ e = NumShots)
                          /\ \A c \in cuts : c >= b => c >= e
           Ends(b) == CHOOSE e \in L!TimesOf(L!Grouped) \cup {NumShots} : IsEnd(e, b)
<1>8. s \in Starts
  BY <1>4, <1>6, <1>7
<1>9. Ends(s) \in L!TimesOf(L!Grouped) \cup {NumShots} /\ IsEnd(Ends(s), s)
  <2>1. PICK e \in 1..NumShots : e >= s /\ (e \in cuts \/ e = NumShots)
                                /\ \A c \in cuts : c >= s => c >= e
    BY <1>7, ShotsAssumption, NextCut
  <2>2. e \in L!TimesOf(L!Grouped) \cup {NumShots} /\ IsEnd(e, s)
    BY <1>4, <2>1
  <2> HIDE DEF IsEnd
  <2> QED BY <2>2
<1>10. k <= Ends(s)
  <2>1. Ends(s) \in 1..NumShots \cup {NumShots}
    BY <1>4, <1>9
  <2>2. Ends(s) \in cuts \/ Ends(s) = NumShots
    BY <1>9
  <2>3. Ends(s) >= s
    BY <1>9
  <2> HIDE DEF Ends
  <2> QED BY <1>5, <1>6, <2>1, <2>2, <2>3, ShotsAssumption
<1>11. L!NewScenes(cuts) = [i \in {<<levelsRuns, t>> : t \in Starts} |->
                              [from |-> i[2], summary |-> 0, to |-> Ends(i[2])]]
  BY DEF L!NewScenes
<1> HIDE DEF Ends, Starts
<1>12. <<levelsRuns, s>> \in DOMAIN levelsScenes'
       /\ levelsScenes'[<<levelsRuns, s>>] = [from |-> s, summary |-> 0, to |-> Ends(s)]
  BY <1>8, <1>11
<1>13. /\ <<levelsRuns, s>> \in DOMAIN levelsScenes'
       /\ levelsScenes'[<<levelsRuns, s>>].from <= k /\ k <= levelsScenes'[<<levelsRuns, s>>].to
  BY <1>6, <1>10, <1>12
<1> QED BY <1>13

LEMMA ScenesBegin ==
  ASSUME LevelsInv, L!DeleteScenes \/ L!NothingToGroup PROVE LevelsInv'
<1>1. /\ levelsJob.phase = "works"
      /\ UNCHANGED <<level, levelsShots, described, levelsRuns>>
      /\ levelsJob.at[2] \in {"waits", "half"}
  BY DEF L!DeleteScenes, L!NothingToGroup, L!Due, L!Within, L!Scenes
<1>2. /\ JobShaped /\ InStages /\ Came /\ Grouping /\ Parents /\ Describing /\ Summed
      /\ levelsRuns \in Nat /\ AllOrNone(levelsShots) /\ L!OneDescriptionPerShot
      /\ \A d \in described : d.run \in Nat /\ d.run <= levelsRuns
      /\ levelsJob.at \in [1..4 -> Pcs]
  BY <1>1, AtWorkMeans
<1>3. Ended(1)
  <2>1. CASE L!DeleteScenes
    <3>1. levelsJob.at[1] \notin {"waits", "half", "rows"}
      BY <2>1 DEF L!DeleteScenes, L!Due, L!Producers, L!Stages, L!consumers, L!Scenes, L!Chapters,
                  L!Describe
    <3>2. levelsJob.at[1] \in Pcs
      BY <1>2
    <3> QED BY <3>1, <3>2 DEF Pcs, Ended
  <2>2. CASE L!NothingToGroup
    BY <1>2, <2>2 DEF L!NothingToGroup, L!Within, L!Scenes, InStages, Began
  <2> QED BY <2>1, <2>2
<1>4. ~Began(4)
  BY <1>1, <1>2 DEF InStages, Ended
<1> DEFINE pc == IF L!DeleteScenes THEN "half" ELSE "done"
<1>5. pc \in Pcs /\ L!Move(2, pc)
  BY DEF Pcs, L!DeleteScenes, L!NothingToGroup, L!Scenes
<1>6. pc = "done" => DOMAIN levelsShots = {}
  BY <1>1, GroupedIsStored DEF L!NothingToGroup
<1> HIDE DEF pc
<1>7. Turned([levelsJob.at EXCEPT ![2] = pc], levelsJob.emitted, levelsJob.todo, levelsJob.stored)
  BY <1>2, <1>5, Moves
<1>8. levelsJob'.at[2] = pc /\ \A t \in {1, 3, 4} : levelsJob'.at[t] = levelsJob.at[t]
  BY <1>2, <1>7 DEF Turned
<1>9. pc \in {"half", "done"}
  BY DEF pc
<1>10. InStages' /\ Grouping' /\ Describing'
  BY <1>3, <1>4, <1>7, <1>8, <1>9 DEF InStages, Began, Ended, Grouping, Describing, Turned
<1>11. L!OneDescriptionPerShot' /\ \A d \in described' : d.run \in Nat /\ d.run <= levelsRuns
  BY <1>1, <1>2 DEF L!OneDescriptionPerShot
<1>14. AllOrNone(levelsShots)'
  BY <1>1, <1>2 DEF AllOrNone, OfOnePass
<1>15. Came'
  BY <1>1, <1>2, <1>7, <1>8 DEF Came, AllOrNone, OfOnePass, Turned
<1>12. Parents'
  BY <1>1, <1>6, <1>8, <1>9 DEF Parents, WasGrouped, Covered
<1>13. Summed'
  BY <1>1, <1>2, <1>7, <1>8 DEF Summed, Turned, L!InOrder
<1> QED BY <1>1, <1>7, <1>10, <1>11, <1>12, <1>13, <1>14, <1>15, StillAtWork DEF Turned

LEMMA GroupKeeps ==
  ASSUME LevelsInv, NEW cuts \in SUBSET (1..(NumShots - 1)), L!Group(cuts) PROVE LevelsInv'
<1>1. /\ levelsJob.phase = "works" /\ levelsJob.at[2] = "half"
      /\ levelsScenes' = L!NewScenes(cuts)
      /\ levelsJob' = [levelsJob EXCEPT !.at[2] = "rows", !.stored = L!Grouped]
      /\ UNCHANGED <<level, levelsShots, described, levelsRuns>>
  BY DEF L!Group, L!Within, L!Scenes
<1>2. /\ JobShaped /\ InStages /\ Came /\ Grouping /\ Parents /\ Describing /\ Summed
      /\ levelsRuns \in Nat /\ AllOrNone(levelsShots) /\ L!OneDescriptionPerShot
      /\ \A d \in described : d.run \in Nat /\ d.run <= levelsRuns
      /\ levelsJob.at \in [1..4 -> Pcs]
  BY <1>1, AtWorkMeans
<1>3. Ended(1) /\ ~Began(4)
  BY <1>1, <1>2 DEF InStages, Began, Ended
<1>4. AllOrNone(L!Grouped) /\ DOMAIN L!Grouped = DOMAIN levelsShots
  BY <1>1, GroupedIsStored
<1>5. \A id \in DOMAIN L!Grouped : \E sc \in DOMAIN levelsScenes' :
           /\ levelsScenes'[sc].from <= L!Grouped[id].at
           /\ L!Grouped[id].at <= levelsScenes'[sc].to
  BY <1>1, ScenesCover
<1> DEFINE at1 == [levelsJob.at EXCEPT ![2] = "rows"]
           stored1 == L!Grouped
<1>6. at1 \in [1..4 -> Pcs]
  BY <1>2 DEF Pcs
<1>7. levelsJob' = [levelsJob EXCEPT !.at = at1, !.stored = stored1]
  BY <1>1, <1>2 DEF JobShaped
<1>8. at1[2] = "rows" /\ \A t \in {1, 3, 4} : at1[t] = levelsJob.at[t]
  BY <1>2
<1> HIDE DEF at1, stored1
<1>9. levelsJob' = [levelsJob EXCEPT !.at = at1, !.emitted = levelsJob.emitted,
                      !.todo = levelsJob.todo, !.stored = stored1,
                      !.unclean = levelsJob.unclean, !.joined = levelsJob.joined]
  BY <1>2, <1>7 DEF JobShaped
<1>10. Turned(at1, levelsJob.emitted, levelsJob.todo, stored1)
  <2>1. levelsJob.emitted = [e \in {1, 2} |-> levelsJob.emitted[e]]
    BY <1>2 DEF JobShaped
  <2> QED BY <1>2, <1>6, <1>9, <2>1, FieldsSet
<1>11. InStages' /\ Parents' /\ Describing'
  BY <1>3, <1>8, <1>10 DEF InStages, Began, Ended, Parents, WasGrouped, Describing, Turned
<1>12. L!OneDescriptionPerShot' /\ \A d \in described' : d.run \in Nat /\ d.run <= levelsRuns
  BY <1>1, <1>2 DEF L!OneDescriptionPerShot
<1>15. AllOrNone(levelsShots)'
  BY <1>1, <1>2 DEF AllOrNone, OfOnePass
<1>16. Came'
  BY <1>1, <1>2, <1>8, <1>10 DEF Came, AllOrNone, OfOnePass, Turned
<1>13. Grouping'
  <2>1. AllOrNone(stored1) /\ DOMAIN stored1 = DOMAIN levelsShots'
        /\ \A id \in DOMAIN stored1 : \E sc \in DOMAIN levelsScenes' :
           levelsScenes'[sc].from <= stored1[id].at /\ stored1[id].at <= levelsScenes'[sc].to
    BY <1>1, <1>4, <1>5 DEF stored1
  <2> QED BY <1>10, <2>1 DEF Grouping, Turned, Covers, AllOrNone, OfOnePass
<1>14. Summed'
  BY <1>1, <1>2, <1>8, <1>10 DEF Summed, Turned, L!InOrder
<1> QED BY <1>1, <1>10, <1>11, <1>12, <1>13, <1>14, <1>15, <1>16, StillAtWork DEF Turned

LEMMA SetParentsKeeps == ASSUME LevelsInv, L!SetParents PROVE LevelsInv'
<1>1. /\ levelsJob.phase = "works" /\ levelsJob.at[2] = "rows"
      /\ levelsShots' = L!Put(L!Parented, levelsShots) /\ L!Emit(2, levelsScenes)
      /\ UNCHANGED <<level, levelsScenes, described, levelsRuns>>
  BY DEF L!SetParents, L!Within, L!Scenes
<1>2. /\ JobShaped /\ InStages /\ Came /\ Grouping /\ Parents /\ Describing /\ Summed
      /\ levelsRuns \in Nat /\ AllOrNone(levelsShots) /\ L!OneDescriptionPerShot
      /\ \A d \in described : d.run \in Nat /\ d.run <= levelsRuns
      /\ levelsJob.at \in [1..4 -> Pcs]
  BY <1>1, AtWorkMeans
<1>3. Ended(1) /\ ~Began(4)
  BY <1>1, <1>2 DEF InStages, Began, Ended
<1>4. AllOrNone(levelsJob.stored) /\ DOMAIN levelsJob.stored = DOMAIN levelsShots
      /\ \A id \in DOMAIN levelsJob.stored : \E sc : Covers(sc, levelsJob.stored[id].at)
  BY <1>1, <1>2 DEF Grouping
<1>5. levelsShots' = [id \in DOMAIN levelsShots |->
                        [levelsJob.stored[id] EXCEPT !.parent = L!Over(levelsJob.stored[id].at)]]
  BY <1>1, <1>4 DEF L!Put, L!Parented
<1>6. ASSUME NEW id \in DOMAIN levelsShots
      PROVE  /\ levelsShots'[id] = [at |-> levelsJob.stored[id].at,
                                    parent |-> L!Over(levelsJob.stored[id].at),
                                    summary |-> levelsJob.stored[id].summary]
             /\ levelsJob.stored[id].at = id[2]
  <2>1. id \in DOMAIN levelsJob.stored
    BY <1>4, <1>6
  <2>2. levelsJob.stored[id] = [at |-> levelsJob.stored[id].at, parent |-> levelsJob.stored[id].parent,
                                summary |-> levelsJob.stored[id].summary]
        /\ levelsJob.stored[id].at = id[2]
    BY <1>4, <2>1 DEF AllOrNone, OfOnePass
  <2>3. levelsShots'[id] = [levelsJob.stored[id] EXCEPT !.parent = L!Over(levelsJob.stored[id].at)]
    BY <1>5, <1>6
  <2> QED BY <2>2, <2>3
<1>7. DOMAIN levelsShots' = DOMAIN levelsShots
  BY <1>5
<1>8. AllOrNone(levelsShots)'
  <2>1. CASE DOMAIN levelsShots = {}
    BY <1>7, <2>1 DEF AllOrNone
  <2>2. CASE DOMAIN levelsShots # {}
    <3>1. PICK r \in Nat : DOMAIN levelsShots = {r} \X (1..NumShots)
      BY <1>2, <2>2 DEF AllOrNone, OfOnePass
    <3>2. \A id \in DOMAIN levelsShots' : /\ levelsShots'[id].at = id[2]
             /\ levelsShots'[id] = [at |-> levelsShots'[id].at, parent |-> levelsShots'[id].parent,
                                    summary |-> levelsShots'[id].summary]
      BY <1>6, <1>7
    <3> QED BY <1>7, <3>1, <3>2 DEF AllOrNone, OfOnePass
  <2> QED BY <2>1, <2>2
<1>9. ASSUME NEW id \in DOMAIN levelsShots
      PROVE  Covers(levelsShots'[id].parent, levelsShots'[id].at)
  <2>1. \E sc \in DOMAIN levelsScenes : levelsScenes[sc].from <= levelsJob.stored[id].at
                                        /\ levelsJob.stored[id].at <= levelsScenes[sc].to
    BY <1>4, <1>9 DEF Covers
  <2>2. /\ L!Over(levelsJob.stored[id].at) \in DOMAIN levelsScenes
        /\ levelsScenes[L!Over(levelsJob.stored[id].at)].from <= levelsJob.stored[id].at
        /\ levelsJob.stored[id].at <= levelsScenes[L!Over(levelsJob.stored[id].at)].to
    BY <2>1 DEF L!Over
  <2> DEFINE row == levelsShots'[id]
             t == levelsJob.stored[id].at
             over == L!Over(t)
  <2>5. row = [at |-> t, parent |-> over, summary |-> levelsJob.stored[id].summary]
    BY <1>6, <1>9
  <2> HIDE DEF row, t, over
  <2>6. row.parent = over /\ row.at = t
    BY <2>5
  <2>3. levelsShots'[id].parent = L!Over(levelsJob.stored[id].at)
    BY <2>6 DEF row, t, over
  <2>4. levelsShots'[id].at = levelsJob.stored[id].at
    BY <2>6 DEF row, t
  <2> QED BY <2>2, <2>3, <2>4 DEF Covers
<1> DEFINE at1 == [levelsJob.at EXCEPT ![2] = "done"]
           emitted1 == [levelsJob.emitted EXCEPT ![2] = levelsScenes]
<1>10. Turned(at1, emitted1, levelsJob.todo, levelsJob.stored)
  BY <1>1, <1>2, Emits
<1>11. at1[2] = "done" /\ (\A t \in {1, 3, 4} : at1[t] = levelsJob.at[t])
       /\ emitted1[1] = levelsJob.emitted[1]
  BY <1>2 DEF JobShaped
<1> HIDE DEF at1, emitted1
<1>12. InStages' /\ Grouping' /\ Describing'
  BY <1>3, <1>10, <1>11 DEF InStages, Began, Ended, Grouping, Describing, Turned
<1>13. L!OneDescriptionPerShot' /\ \A d \in described' : d.run \in Nat /\ d.run <= levelsRuns
  BY <1>1, <1>2 DEF L!OneDescriptionPerShot
<1>14. Came'
  BY <1>2, <1>7, <1>10, <1>11 DEF Came, AllOrNone, OfOnePass, Turned
<1>15. Parents'
  BY <1>1, <1>7, <1>9 DEF Parents, Covered, Covers
<1>16. levelsJob.at[4] # "failed" => \A d \in described : d.run # levelsRuns
  <2>1. levelsJob.at[4] \in Pcs
    BY <1>2
  <2> QED BY <1>2, <1>3, <2>1 DEF Summed, Began, Pcs
<1>17. Summed'
  BY <1>1, <1>2, <1>10, <1>11, <1>16 DEF Summed, Turned
<1> QED BY <1>1, <1>8, <1>10, <1>12, <1>13, <1>14, <1>15, <1>17, StillAtWork DEF Turned

LEMMA DescribingBegins == ASSUME LevelsInv, L!BeginDescribing PROVE LevelsInv'
<1> DEFINE at1 == [levelsJob.at EXCEPT ![4] = "half"]
           todo1 == L!Pending
<1>1. /\ levelsJob.phase = "works" /\ levelsJob.at[4] = "waits" /\ levelsJob.plan[4] = "run"
      /\ levelsJob' = [levelsJob EXCEPT !.at[4] = "half", !.todo = todo1, !.stored = levelsShots]
      /\ UNCHANGED <<level, levelsShots, levelsScenes, described, levelsRuns>>
  BY DEF L!BeginDescribing, L!Due, L!Describe, L!StoredShots
<1>2. /\ JobShaped /\ InStages /\ Came /\ Grouping /\ Parents /\ Describing /\ Summed
      /\ levelsRuns \in Nat /\ AllOrNone(levelsShots) /\ L!OneDescriptionPerShot
      /\ \A d \in described : d.run \in Nat /\ d.run <= levelsRuns
      /\ levelsJob.at \in [1..4 -> Pcs]
  BY <1>1, AtWorkMeans
<1>3. Ended(1) /\ Ended(2)
  <2>1. levelsJob.at[1] \notin {"waits", "half", "rows"} /\ levelsJob.at[2] \notin {"waits", "half", "rows"}
    BY DEF L!BeginDescribing, L!Due, L!Producers, L!Stages, L!consumers, L!Scenes, L!Chapters,
           L!Describe
  <2>2. levelsJob.at[1] \in Pcs /\ levelsJob.at[2] \in Pcs
    BY <1>2
  <2> QED BY <2>1, <2>2 DEF Pcs, Ended
<1>4. level = "shot" =>
        /\ todo1 \subseteq DOMAIN levelsJob.emitted[1]
        /\ \A d \in described : ~(d.target \in todo1 /\ d.model = levelsJob.asked.model)
  BY DEF L!Pending, L!AlreadyDescribed, L!ShotBoundary
<1>5. at1 \in [1..4 -> Pcs] /\ at1[4] = "half" /\ \A t \in {1, 2, 3} : at1[t] = levelsJob.at[t]
  BY <1>2 DEF Pcs
<1>6. levelsJob' = [levelsJob EXCEPT !.at = at1, !.todo = todo1, !.stored = levelsShots]
  BY <1>1, <1>2 DEF JobShaped
<1> HIDE DEF at1, todo1
<1>7. Turned(at1, levelsJob.emitted, todo1, levelsShots)
  <2>1. levelsJob' = [levelsJob EXCEPT !.at = at1, !.emitted = levelsJob.emitted,
                        !.todo = todo1, !.stored = levelsShots,
                        !.unclean = levelsJob.unclean, !.joined = levelsJob.joined]
    BY <1>2, <1>6 DEF JobShaped
  <2>2. levelsJob.emitted = [e \in {1, 2} |-> levelsJob.emitted[e]]
    BY <1>2 DEF JobShaped
  <2> QED BY <1>2, <1>5, <2>1, <2>2, FieldsSet
<1>8. InStages'
  BY <1>1, <1>2, <1>3, <1>5, <1>7 DEF InStages, Began, Ended, Turned
<1>9. Came'
  BY <1>1, <1>2, <1>5, <1>7 DEF Came, AllOrNone, OfOnePass, Turned
<1>10. Grouping'
  BY <1>3, <1>5, <1>7 DEF Grouping, Ended, Turned
<1>11. WasGrouped' => WasGrouped
  BY <1>1, <1>5, <1>7 DEF WasGrouped, Turned
<1>12. Parents'
  BY <1>1, <1>2, <1>11 DEF Parents, Covered, Covers
<1>13. Describing'
  <2>1. level = "shot" => AllOrNone(levelsJob.stored)' /\ DOMAIN levelsJob'.stored = DOMAIN levelsShots'
    BY <1>1, <1>2, <1>7, ZenonT(40) DEF AllOrNone, OfOnePass, Turned
  <2>2. WasGrouped' => Covered(levelsJob.stored)'
    BY <1>1, <1>2, <1>7, <1>11 DEF Parents, Covered, Covers, Turned
  <2>3. level = "shot" => /\ levelsJob'.todo \subseteq DOMAIN levelsJob'.emitted[1]
                          /\ \A d \in described' :
                               ~(d.target \in levelsJob'.todo /\ d.model = levelsJob'.asked.model)
    BY <1>1, <1>4, <1>7 DEF Turned
  <2> QED BY <1>1, <2>1, <2>2, <2>3 DEF Describing
<1>14. Summed'
  BY <1>1, <1>2, <1>5, <1>7 DEF Summed, Turned
<1>15. L!OneDescriptionPerShot' /\ \A d \in described' : d.run \in Nat /\ d.run <= levelsRuns
  BY <1>1, <1>2 DEF L!OneDescriptionPerShot
<1>16. AllOrNone(levelsShots)'
  BY <1>1, <1>2 DEF AllOrNone, OfOnePass
<1> QED BY <1>1, <1>7, <1>8, <1>9, <1>10, <1>12, <1>13, <1>14, <1>15, <1>16, StillAtWork DEF Turned

(* A step of the descriptions that leaves the rows, the stages before it   *)
(* and what it stands on alone.                                            *)
LEMMA OnlyDescribing ==
  ASSUME LevelsInv, levelsJob.phase = "works", levelsJob.at[4] \in {"half", "rows"},
         NEW at1, NEW todo1, Turned(at1, levelsJob.emitted, todo1, levelsJob.stored),
         \A t \in {1, 2, 3} : at1[t] = levelsJob.at[t], at1[4] \in {"half", "rows", "done"},
         UNCHANGED <<level, levelsShots, levelsScenes, levelsRuns>>
  PROVE  InStages' /\ Came' /\ Grouping' /\ Parents' /\ AllOrNone(levelsShots)'
         /\ (WasGrouped' => WasGrouped)
<1>1. InStages /\ Came /\ Grouping /\ Parents /\ AllOrNone(levelsShots)
  BY AtWorkMeans
<1>2. Ended(1) /\ Ended(2) /\ levelsJob.plan[4] = "run"
  BY <1>1 DEF InStages, Began
<1>3. InStages'
  BY <1>1, <1>2 DEF InStages, Began, Ended, Turned
<1>4. Came'
  BY <1>1 DEF Came, AllOrNone, OfOnePass, Turned
<1>5. Grouping'
  BY <1>2 DEF Grouping, Ended, Turned
<1>6. WasGrouped' => WasGrouped
  BY DEF WasGrouped, Turned
<1>7. Parents'
  BY <1>1, <1>6 DEF Parents, Covered, Covers
<1>8. AllOrNone(levelsShots)'
  BY <1>1 DEF AllOrNone, OfOnePass
<1> QED BY <1>3, <1>4, <1>5, <1>6, <1>7, <1>8

(* Taking shots off the list, or ending with none on it. *)
LEMMA LeftOff ==
  ASSUME LevelsInv, levelsJob.phase = "works", levelsJob.at[4] = "half",
         NEW at1, NEW todo1, Turned(at1, levelsJob.emitted, todo1, levelsJob.stored),
         todo1 \subseteq levelsJob.todo,
         \A t \in {1, 2, 3} : at1[t] = levelsJob.at[t], at1[4] \in {"half", "done"},
         UNCHANGED <<level, levelsShots, levelsScenes, described, levelsRuns>>
  PROVE  LevelsInv'
<1>1. /\ Describing /\ Summed /\ L!OneDescriptionPerShot /\ levelsRuns \in Nat
      /\ \A d \in described : d.run \in Nat /\ d.run <= levelsRuns
  BY AtWorkMeans
<1>2. InStages' /\ Came' /\ Grouping' /\ Parents' /\ AllOrNone(levelsShots)'
      /\ (WasGrouped' => WasGrouped)
  BY OnlyDescribing
<1>3. L!OneDescriptionPerShot' /\ \A d \in described' : d.run \in Nat /\ d.run <= levelsRuns
  BY <1>1 DEF L!OneDescriptionPerShot
<1>4. Summed'
  BY <1>1 DEF Summed, Turned
<1>5. Describing'
  <2>1. level = "shot" => AllOrNone(levelsJob.stored)' /\ DOMAIN levelsJob'.stored = DOMAIN levelsShots'
    BY <1>1 DEF Describing, AllOrNone, OfOnePass, Turned
  <2>2. level = "shot" => (WasGrouped' => Covered(levelsJob.stored)')
    BY <1>1, <1>2 DEF Describing, Covered, Covers, Turned
  <2>3. level = "shot" => /\ levelsJob'.todo \subseteq DOMAIN levelsJob'.emitted[1]
                          /\ \A d \in described' :
                               ~(d.target \in levelsJob'.todo /\ d.model = levelsJob'.asked.model)
    BY <1>1 DEF Describing, Turned
  <2> QED BY <2>1, <2>2, <2>3 DEF Describing
<1> QED BY <1>2, <1>3, <1>4, <1>5, StillAtWork DEF Turned

LEMMA LeavingOffKeeps ==
  ASSUME LevelsInv,
         L!EndDescribing \/ \E id \in levelsJob.todo, unclean \in BOOLEAN : L!NotDescribed(id, unclean)
  PROVE  LevelsInv'
<1>1. /\ levelsJob.phase = "works" /\ levelsJob.at[4] = "half"
      /\ UNCHANGED <<level, levelsShots, levelsScenes, described, levelsRuns>>
  BY DEF L!EndDescribing, L!NotDescribed, L!Describable, L!Within, L!Describe
<1>2. JobShaped /\ levelsJob.at \in [1..4 -> Pcs]
  BY <1>1, AtWorkMeans
<1>3. CASE L!EndDescribing
  <2> DEFINE at1 == [levelsJob.at EXCEPT ![4] = "done"]
  <2>1. Turned(at1, levelsJob.emitted, levelsJob.todo, levelsJob.stored)
    BY <1>2, <1>3, Moves DEF L!EndDescribing, L!Describe, Pcs
  <2>2. at1[4] = "done" /\ \A t \in {1, 2, 3} : at1[t] = levelsJob.at[t]
    BY <1>2
  <2> HIDE DEF at1
  <2> QED BY <1>1, <2>1, <2>2, LeftOff
<1>4. ASSUME NEW id \in levelsJob.todo, NEW unclean \in BOOLEAN, L!NotDescribed(id, unclean)
      PROVE  LevelsInv'
  <2> DEFINE todo1 == levelsJob.todo \ {id}
             unclean1 == IF unclean THEN levelsJob.unclean \cup {L!Describe} ELSE levelsJob.unclean
  <2>1. levelsJob' = [levelsJob EXCEPT !.todo = todo1, !.unclean = unclean1]
    BY <1>2, <1>4 DEF L!NotDescribed, JobShaped
  <2> HIDE DEF todo1, unclean1
  <2>2. levelsJob' = [levelsJob EXCEPT !.at = levelsJob.at, !.emitted = levelsJob.emitted,
                        !.todo = todo1, !.stored = levelsJob.stored,
                        !.unclean = unclean1, !.joined = levelsJob.joined]
    BY <1>2, <2>1 DEF JobShaped
  <2>3. levelsJob.emitted = [e \in {1, 2} |-> levelsJob.emitted[e]]
    BY <1>2 DEF JobShaped
  <2>4. Turned(levelsJob.at, levelsJob.emitted, todo1, levelsJob.stored)
    BY <1>2, <2>2, <2>3, FieldsSet
  <2>5. todo1 \subseteq levelsJob.todo
    BY DEF todo1
  <2> QED BY <1>1, <2>4, <2>5, LeftOff
<1> QED BY <1>3, <1>4

LEMMA DescribedKeeps ==
  ASSUME LevelsInv, NEW id \in levelsJob.todo, NEW kind \in {"structured", "caption"},
         L!Described(id, kind)
  PROVE  LevelsInv'
<1> DEFINE d0 == [target |-> id, model |-> levelsJob.asked.model, run |-> levelsRuns, kind |-> kind]
           pc == IF kind = "structured" THEN "rows" ELSE "half"
           at1 == [levelsJob.at EXCEPT ![4] = pc]
           todo1 == IF kind = "structured" THEN levelsJob.todo ELSE levelsJob.todo \ {id}
<1>1. /\ levelsJob.phase = "works" /\ levelsJob.at[4] = "half" /\ L!InOrder(id)
      /\ described' = described \cup {d0}
      /\ UNCHANGED <<level, levelsShots, levelsScenes, levelsRuns>>
  BY DEF L!Described, L!Describable, L!Within, L!Describe
<1>2. /\ JobShaped /\ InStages /\ Came /\ Grouping /\ Parents /\ Describing /\ Summed
      /\ levelsRuns \in Nat /\ AllOrNone(levelsShots) /\ L!OneDescriptionPerShot
      /\ \A d \in described : d.run \in Nat /\ d.run <= levelsRuns
      /\ levelsJob.at \in [1..4 -> Pcs]
  BY <1>1, AtWorkMeans
<1>3. levelsJob' = [levelsJob EXCEPT !.at = at1, !.todo = todo1]
  <2>1. CASE kind = "structured"
    <3>1. levelsJob' = [levelsJob EXCEPT !.at[4] = "rows"]
      BY <2>1 DEF L!Described, L!Move, L!Describe
    <3> QED BY <1>2, <2>1, <3>1 DEF JobShaped
  <2>2. CASE kind = "caption"
    <3>1. levelsJob' = [levelsJob EXCEPT !.todo = levelsJob.todo \ {id}]
      BY <2>2 DEF L!Described
    <3>2. at1 = levelsJob.at
      BY <1>1, <1>2, <2>2
    <3> QED BY <1>2, <2>2, <3>1, <3>2 DEF JobShaped
  <2> QED BY <2>1, <2>2
<1>4. at1 \in [1..4 -> Pcs] /\ at1[4] = pc /\ \A t \in {1, 2, 3} : at1[t] = levelsJob.at[t]
  BY <1>2 DEF Pcs
<1>5. pc \in {"half", "rows"} /\ (kind = "structured" <=> pc = "rows")
      /\ (pc = "rows" => todo1 = levelsJob.todo) /\ (pc = "half" => todo1 = levelsJob.todo \ {id})
      /\ todo1 \subseteq levelsJob.todo
  OBVIOUS
<1>6. d0.target = id /\ d0.model = levelsJob.asked.model /\ d0.run = levelsRuns /\ d0.kind = kind
  OBVIOUS
<1> HIDE DEF at1, todo1, pc, d0
<1>7. Turned(at1, levelsJob.emitted, todo1, levelsJob.stored)
  <2>1. levelsJob' = [levelsJob EXCEPT !.at = at1, !.emitted = levelsJob.emitted,
                        !.todo = todo1, !.stored = levelsJob.stored,
                        !.unclean = levelsJob.unclean, !.joined = levelsJob.joined]
    BY <1>2, <1>3 DEF JobShaped
  <2>2. levelsJob.emitted = [e \in {1, 2} |-> levelsJob.emitted[e]]
    BY <1>2 DEF JobShaped
  <2> QED BY <1>2, <1>4, <2>1, <2>2, FieldsSet
<1>8. InStages' /\ Came' /\ Grouping' /\ Parents' /\ AllOrNone(levelsShots)'
      /\ (WasGrouped' => WasGrouped)
  BY <1>1, <1>4, <1>5, <1>7, OnlyDescribing
<1>9. \A d \in described' : d.run \in Nat /\ d.run <= levelsRuns
  BY <1>1, <1>2, <1>6
<1>10. level = "shot" => \A d \in described : ~(d.target \in levelsJob.todo /\ d.model = levelsJob.asked.model)
  BY <1>1, <1>2 DEF Describing
<1>11. L!OneDescriptionPerShot'
  <2>1. ASSUME level = "shot", NEW d \in described', NEW e \in described',
               d.target = e.target /\ d.model = e.model
        PROVE  d = e
    <3>1. \A o \in described : ~(o.target = id /\ o.model = levelsJob.asked.model)
      BY <1>10, <2>1
    <3>2. CASE d \in described /\ e \in described
      BY <1>2, <2>1, <3>2 DEF L!OneDescriptionPerShot
    <3>3. CASE d = d0 \/ e = d0
      BY <1>1, <1>6, <2>1, <3>1, <3>3
    <3> QED BY <1>1, <2>1, <3>2, <3>3
  <2> QED BY <1>1, <2>1 DEF L!OneDescriptionPerShot
<1>12. pc = "rows" => L!InOrder(id)'
  BY <1>1, <1>5, <1>7 DEF Turned, L!InOrder
<1>13. Describing'
  <2>1. level = "shot" => AllOrNone(levelsJob.stored)' /\ DOMAIN levelsJob'.stored = DOMAIN levelsShots'
    BY <1>1, <1>2, <1>7 DEF Describing, AllOrNone, OfOnePass, Turned
  <2>2. level = "shot" => (WasGrouped' => Covered(levelsJob.stored)')
    BY <1>1, <1>2, <1>7, <1>8 DEF Describing, Covered, Covers, Turned
  <2>3. level = "shot" => levelsJob'.todo \subseteq DOMAIN levelsJob'.emitted[1]
    BY <1>1, <1>2, <1>5, <1>7 DEF Describing, Turned
  <2>4. ASSUME level = "shot", NEW d \in described',
               d.target \in levelsJob'.todo /\ d.model = levelsJob'.asked.model
        PROVE  levelsJob'.at[4] = "rows" /\ L!InOrder(d.target)'
    <3>1. levelsJob'.todo = todo1 /\ levelsJob'.asked = levelsJob.asked /\ levelsJob'.at[4] = pc
      BY <1>4, <1>7 DEF Turned
    <3>2. d \notin described
      BY <1>5, <1>10, <2>4, <3>1
    <3>3. d = d0
      BY <1>1, <3>2
    <3>4. pc = "rows"
      BY <1>5, <1>6, <2>4, <3>1, <3>3
    <3> QED BY <1>6, <1>12, <3>1, <3>3, <3>4
  <2> QED BY <1>1, <2>1, <2>2, <2>3, <2>4 DEF Describing
<1>14. Summed'
  <2>1. levelsJob'.at[4] = pc /\ levelsJob'.plan = levelsJob.plan /\ levelsJob.plan[4] = "run"
    BY <1>1, <1>2, <1>4, <1>7 DEF Turned, InStages
  <2>2. ASSUME level = "shot", NEW d \in described', d.run = levelsRuns, d.kind = "structured",
               d.target \in DOMAIN levelsShots
        PROVE  \/ levelsShots[d.target].summary = levelsRuns
               \/ levelsJob'.at[4] = "rows" /\ L!InOrder(d.target)'
    <3>1. CASE d \in described
      BY <1>1, <1>2, <2>2, <3>1 DEF Summed
    <3>2. CASE d = d0
      BY <1>5, <1>6, <1>12, <2>1, <2>2, <3>2
    <3> QED BY <1>1, <2>2, <3>1, <3>2
  <2> QED BY <1>1, <1>5, <2>1, <2>2 DEF Summed
<1> QED BY <1>1, <1>7, <1>8, <1>9, <1>11, <1>13, <1>14, StillAtWork DEF Turned

(* The one whose turn it is. *)
LEMMA OneInOrder ==
  ASSUME LevelsInv, levelsJob.phase = "works", levelsJob.at[4] = "rows", level = "shot",
         NEW id, NEW other, L!InOrder(id), L!InOrder(other)
  PROVE  id = other
<1>1. Describing /\ Came
  BY AtWorkMeans
<1>2. id \in levelsJob.todo /\ other \in levelsJob.todo /\ id[2] <= other[2] /\ other[2] <= id[2]
  BY DEF L!InOrder
<1>3. id \in DOMAIN levelsJob.emitted[1] /\ other \in DOMAIN levelsJob.emitted[1]
  BY <1>1, <1>2 DEF Describing
<1>4. PICK r \in Nat : DOMAIN levelsJob.emitted[1] = {r} \X (1..NumShots)
  BY <1>1, <1>3 DEF Came, AllOrNone, OfOnePass
<1>5. id = <<r, id[2]>> /\ other = <<r, other[2]>> /\ id[2] \in 1..NumShots /\ other[2] \in 1..NumShots
  BY <1>3, <1>4
<1>6. id[2] = other[2]
  BY <1>2, <1>5, ShotsAssumption
<1> QED BY <1>5, <1>6

LEMMA SummaryKeeps ==
  ASSUME LevelsInv, NEW id \in levelsJob.todo, L!PutSummary(id) PROVE LevelsInv'
<1> DEFINE at1 == [levelsJob.at EXCEPT ![4] = "half"]
           todo1 == levelsJob.todo \ {id}
<1>1. /\ levelsJob.phase = "works" /\ levelsJob.at[4] = "rows" /\ L!InOrder(id)
      /\ levelsJob' = [levelsJob EXCEPT !.todo = todo1, !.at[4] = "half"]
      /\ UNCHANGED <<level, described, levelsRuns>>
  BY DEF L!PutSummary, L!Within, L!Describe
<1>2. /\ JobShaped /\ InStages /\ Came /\ Grouping /\ Parents /\ Describing /\ Summed
      /\ levelsRuns \in Nat /\ AllOrNone(levelsShots) /\ L!OneDescriptionPerShot
      /\ \A d \in described : d.run \in Nat /\ d.run <= levelsRuns
      /\ levelsJob.at \in [1..4 -> Pcs]
  BY <1>1, AtWorkMeans
<1>3. at1 \in [1..4 -> Pcs] /\ at1[4] = "half" /\ \A t \in {1, 2, 3} : at1[t] = levelsJob.at[t]
  BY <1>2 DEF Pcs
<1>4. levelsJob' = [levelsJob EXCEPT !.at = at1, !.todo = todo1]
  BY <1>1, <1>2 DEF JobShaped
<1>5. todo1 \subseteq levelsJob.todo /\ id \notin todo1 /\ \A i \in levelsJob.todo : i # id => i \in todo1
  OBVIOUS
<1> HIDE DEF at1, todo1
<1>6. Turned(at1, levelsJob.emitted, todo1, levelsJob.stored)
  <2>1. levelsJob' = [levelsJob EXCEPT !.at = at1, !.emitted = levelsJob.emitted,
                        !.todo = todo1, !.stored = levelsJob.stored,
                        !.unclean = levelsJob.unclean, !.joined = levelsJob.joined]
    BY <1>2, <1>4 DEF JobShaped
  <2>2. levelsJob.emitted = [e \in {1, 2} |-> levelsJob.emitted[e]]
    BY <1>2 DEF JobShaped
  <2> QED BY <1>2, <1>3, <2>1, <2>2, FieldsSet
<1>7. Ended(1) /\ Ended(2) /\ levelsJob.plan[4] = "run"
  BY <1>1, <1>2 DEF InStages, Began
<1>8. InStages'
  BY <1>2, <1>3, <1>6, <1>7 DEF InStages, Began, Ended, Turned
<1>9. Grouping'
  BY <1>3, <1>6, <1>7 DEF Grouping, Ended, Turned
<1>10. WasGrouped' => WasGrouped
  BY <1>1, <1>3, <1>6 DEF WasGrouped, Turned
<1>11. L!OneDescriptionPerShot' /\ \A d \in described' : d.run \in Nat /\ d.run <= levelsRuns
  BY <1>1, <1>2 DEF L!OneDescriptionPerShot
<1>12. CASE level # "shot"
  <2>1. levelsShots' = levelsShots
    BY <1>12 DEF L!PutSummary
  <2>2. AllOrNone(levelsShots)'
    BY <1>2, <2>1 DEF AllOrNone, OfOnePass
  <2>3. Came'
    BY <1>2, <1>3, <1>6, <2>1 DEF Came, AllOrNone, OfOnePass, Turned
  <2>4. Parents' /\ Describing'
    BY <1>1, <1>12 DEF Parents, WasGrouped, Describing
  <2>5. Summed'
    BY <1>1, <1>2, <1>3, <1>6, <1>7, <1>12 DEF Summed, Turned
  <2> QED BY <1>1, <1>6, <1>8, <1>9, <1>11, <2>2, <2>3, <2>4, <2>5, StillAtWork DEF Turned
<1>13. CASE level = "shot"
  <2>1. /\ AllOrNone(levelsJob.stored) /\ DOMAIN levelsJob.stored = DOMAIN levelsShots
        /\ levelsJob.todo \subseteq DOMAIN levelsJob.emitted[1]
        /\ (WasGrouped => Covered(levelsJob.stored))
        /\ \A d \in described : d.target \in levelsJob.todo /\ d.model = levelsJob.asked.model =>
             L!InOrder(d.target)
    BY <1>1, <1>2, <1>13 DEF Describing
  <2>2. UNCHANGED levelsScenes
    BY <1>13 DEF L!PutSummary
  <2>3. id \in DOMAIN levelsJob.stored /\ id \in DOMAIN levelsShots
    BY <1>2, <2>1 DEF Came
  <2>4. levelsShots' = [i \in DOMAIN levelsShots |->
                          IF i = id THEN [levelsJob.stored[id] EXCEPT !.summary = levelsRuns]
                          ELSE levelsShots[i]]
    <3>1. levelsShots' = L!Put([i \in {id} |-> [levelsJob.stored[id] EXCEPT !.summary = levelsRuns]],
                               levelsShots)
      BY <1>13, <2>3 DEF L!PutSummary
    <3>2. {id} \cup DOMAIN levelsShots = DOMAIN levelsShots
      BY <2>3
    <3> QED BY <3>1, <3>2 DEF L!Put
  <2>5. DOMAIN levelsShots' = DOMAIN levelsShots /\ \A i \in DOMAIN levelsShots : i # id => levelsShots'[i] = levelsShots[i]
    BY <2>4
  <2>6. levelsJob.stored[id].at = id[2]
        /\ levelsJob.stored[id] = [at |-> levelsJob.stored[id].at, parent |-> levelsJob.stored[id].parent,
                                   summary |-> levelsJob.stored[id].summary]
    BY <2>1, <2>3 DEF AllOrNone, OfOnePass
  <2>7. levelsShots'[id] = [at |-> levelsJob.stored[id].at, parent |-> levelsJob.stored[id].parent,
                            summary |-> levelsRuns]
    <3>1. levelsShots'[id] = [levelsJob.stored[id] EXCEPT !.summary = levelsRuns]
      BY <2>3, <2>4
    <3> QED BY <2>6, <3>1
  <2>8. levelsShots'[id].at = id[2] /\ levelsShots'[id].parent = levelsJob.stored[id].parent
        /\ levelsShots'[id].summary = levelsRuns
        /\ levelsShots'[id] = [at |-> levelsShots'[id].at, parent |-> levelsShots'[id].parent,
                               summary |-> levelsShots'[id].summary]
    BY <2>6, <2>7
  <2>9. AllOrNone(levelsShots)'
    <3>1. PICK r \in Nat : DOMAIN levelsShots = {r} \X (1..NumShots)
      BY <1>2, <2>3 DEF AllOrNone, OfOnePass
    <3>2. ASSUME NEW i \in DOMAIN levelsShots'
          PROVE  /\ levelsShots'[i].at = i[2]
                 /\ levelsShots'[i] = [at |-> levelsShots'[i].at, parent |-> levelsShots'[i].parent,
                                       summary |-> levelsShots'[i].summary]
      <4>1. CASE i = id
        BY <2>8, <4>1
      <4>2. CASE i # id
        <5>1. levelsShots[i].at = i[2]
              /\ levelsShots[i] = [at |-> levelsShots[i].at, parent |-> levelsShots[i].parent,
                                   summary |-> levelsShots[i].summary]
          BY <1>2, <2>5, <3>2 DEF AllOrNone, OfOnePass
        <5> QED BY <2>5, <3>2, <4>2, <5>1
      <4> QED BY <4>1, <4>2
    <3> QED BY <2>5, <3>1, <3>2 DEF AllOrNone, OfOnePass
  <2>10. Came'
    BY <1>2, <1>3, <1>6, <2>5 DEF Came, AllOrNone, OfOnePass, Turned
  <2>11. Parents'
    <3>1. ASSUME WasGrouped', NEW i \in DOMAIN levelsShots'
          PROVE  Covers(levelsShots'[i].parent, levelsShots'[i].at)
      <4>1. Covered(levelsJob.stored) /\ Covered(levelsShots)
        BY <1>2, <1>10, <2>1, <3>1 DEF Parents
      <4>2. CASE i = id
        <5>1. Covers(levelsJob.stored[id].parent, levelsJob.stored[id].at)
          BY <2>3, <4>1 DEF Covered
        <5> QED BY <2>6, <2>8, <4>2, <5>1
      <4>3. CASE i # id
        BY <2>5, <3>1, <4>1, <4>3 DEF Covered
      <4> QED BY <4>2, <4>3
    <3> QED BY <2>2, <3>1 DEF Parents, Covered, Covers
  <2>12. Describing'
    <3>1. AllOrNone(levelsJob.stored)' /\ DOMAIN levelsJob'.stored = DOMAIN levelsShots'
      BY <1>6, <2>1, <2>5 DEF AllOrNone, OfOnePass, Turned
    <3>2. WasGrouped' => Covered(levelsJob.stored)'
      BY <1>6, <1>10, <2>1, <2>2 DEF Covered, Covers, Turned
    <3>3. levelsJob'.todo \subseteq DOMAIN levelsJob'.emitted[1]
      BY <1>5, <1>6, <2>1 DEF Turned
    <3>4. ASSUME NEW d \in described', d.target \in levelsJob'.todo /\ d.model = levelsJob'.asked.model
          PROVE  FALSE
      <4>1. d.target \in todo1 /\ d.model = levelsJob.asked.model /\ d \in described
        BY <1>1, <1>6, <3>4 DEF Turned
      <4>2. L!InOrder(d.target)
        BY <1>5, <2>1, <4>1
      <4>3. d.target = id
        BY <1>1, <1>13, <4>2, OneInOrder
      <4> QED BY <1>5, <4>1, <4>3
    <3> QED BY <3>1, <3>2, <3>3, <3>4 DEF Describing
  <2>13. Summed'
    <3>1. levelsJob'.at[4] = "half" /\ levelsJob'.plan[4] = "run"
      BY <1>3, <1>6, <1>7 DEF Turned
    <3>2. ASSUME NEW d \in described, d.run = levelsRuns, d.kind = "structured", d.target \in DOMAIN levelsShots
          PROVE  levelsShots'[d.target].summary = levelsRuns
      <4>1. CASE d.target = id
        BY <2>8, <4>1
      <4>2. CASE d.target # id
        <5>1. ~L!InOrder(d.target)
          BY <1>1, <1>13, <4>2, OneInOrder
        <5>2. levelsShots[d.target].summary = levelsRuns
          BY <1>1, <1>2, <1>13, <3>2, <5>1 DEF Summed
        <5> QED BY <2>5, <3>2, <4>2, <5>2
      <4> QED BY <4>1, <4>2
    <3> QED BY <1>1, <2>5, <3>1, <3>2 DEF Summed
  <2> QED BY <1>1, <1>6, <1>8, <1>9, <1>11, <2>9, <2>10, <2>11, <2>12, <2>13, StillAtWork DEF Turned
<1> QED BY <1>12, <1>13

LEMMA JobBegins ==
  ASSUME LevelsInv,
         (\E force \in BOOLEAN, asked1 \in Asks : L!Begin(force, asked1)) \/ L!Crash
  PROVE  LevelsInv'
<1>1. /\ UNCHANGED <<level, levelsShots, levelsScenes, described>>
      /\ \/ levelsJob'.phase = "imports" /\ levelsRuns' = levelsRuns + 1
         \/ levelsJob'.phase = "crashed" /\ levelsRuns' = levelsRuns
  BY DEF L!Begin, L!Crash
<1>2. /\ levelsRuns \in Nat /\ AllOrNone(levelsShots) /\ L!OneDescriptionPerShot
      /\ \A d \in described : d.run \in Nat /\ d.run <= levelsRuns
  BY DEF LevelsInv
<1>3. L!OneDescriptionPerShot'
  BY <1>1, <1>2 DEF L!OneDescriptionPerShot
<1>4. AllOrNone(levelsShots)'
  BY <1>1, <1>2 DEF AllOrNone, OfOnePass
<1>5. ~AtWork'
  BY <1>1 DEF AtWork
<1>6. levelsRuns' \in Nat /\ \A d \in described' : d.run \in Nat /\ d.run <= levelsRuns'
  BY <1>1, <1>2
<1>7. levelsJob'.phase = "imports" => \A d \in described' : d.run # levelsRuns'
  BY <1>1, <1>2
<1> QED BY <1>1, <1>3, <1>4, <1>5, <1>6, <1>7 DEF LevelsInv, WorkInv

LEMMA PlanMade == ASSUME LevelsInv, L!ImportAndPlan PROVE LevelsInv'
<1> DEFINE cached == {s \in L!Stages : ~levelsJob.force /\ L!Key(s, levelsJob.asked) \in markers}
           plan == L!PlanOf(cached)
           at1 == [s \in L!Stages |-> IF plan[s] = "skip" THEN "done" ELSE "waits"]
           emitted1 == [s \in {L!ShotBoundary, L!Scenes} |-> L!NoRows]
<1>1. /\ UNCHANGED <<level, levelsShots, levelsScenes, described, levelsRuns>>
      /\ levelsJob.phase = "imports"
      /\ levelsJob' = [phase |-> "works", asked |-> levelsJob.asked, plan |-> plan,
                       at |-> at1, emitted |-> emitted1, todo |-> {}, stored |-> L!NoRows,
                       unclean |-> {}, joined |-> 0]
  BY DEF L!ImportAndPlan
<1>2. /\ levelsRuns \in Nat /\ AllOrNone(levelsShots) /\ L!OneDescriptionPerShot
      /\ \A d \in described : d.run \in Nat /\ d.run <= levelsRuns /\ d.run # levelsRuns
  BY <1>1 DEF LevelsInv
<1>3. emitted1 = [s \in {1, 2} |-> emitted1[s]] /\ DOMAIN emitted1[1] = {}
  BY DEF L!ShotBoundary, L!Scenes, L!NoRows
<1> HIDE DEF plan, emitted1
<1>4. at1 \in [1..4 -> {"waits", "done"}]
      /\ \A s \in 1..4 : at1[s] = "done" => plan[s] = "skip"
  BY DEF L!Stages
<1> HIDE DEF at1
<1>5. levelsJob'.phase = "works" /\ levelsJob'.plan = plan /\ levelsJob'.at = at1
      /\ levelsJob'.emitted = emitted1
  BY <1>1
<1>6. JobShaped'
  BY <1>1, <1>3, <1>4 DEF JobShaped
<1>7. ~Began(2)' /\ ~Began(4)' /\ ~WasGrouped' /\ levelsJob'.at[2] # "rows"
      /\ levelsJob'.at[4] \notin {"half", "rows", "failed"}
  BY <1>4, <1>5 DEF Began, WasGrouped
<1>8. InStages' /\ Came' /\ Grouping' /\ Parents' /\ Describing'
  BY <1>3, <1>5, <1>7 DEF InStages, Came, Grouping, Parents, Describing
<1>9. Summed'
  BY <1>1, <1>2 DEF Summed
<1>10. L!OneDescriptionPerShot'
  BY <1>1, <1>2 DEF L!OneDescriptionPerShot
<1>11. AllOrNone(levelsShots)'
  BY <1>1, <1>2 DEF AllOrNone, OfOnePass
<1>12. levelsRuns' \in Nat /\ \A d \in described' : d.run \in Nat /\ d.run <= levelsRuns'
  BY <1>1, <1>2
<1> QED BY <1>5, <1>6, <1>8, <1>9, <1>10, <1>11, <1>12 DEF LevelsInv, WorkInv

LEMMA LevelsStand == ASSUME LevelsInv, UNCHANGED levelsVars PROVE LevelsInv'
<1>1. UNCHANGED <<level, levelsShots, levelsScenes, described, levelsRuns, levelsJob>>
  BY DEF levelsVars
<1>2. AllOrNone(levelsShots)' /\ L!OneDescriptionPerShot'
  BY <1>1 DEF LevelsInv, AllOrNone, OfOnePass, L!OneDescriptionPerShot
<1>3. ASSUME AtWork'
      PROVE  JobShaped' /\ InStages' /\ Came' /\ Grouping' /\ Parents' /\ Describing' /\ Summed'
  <2>1. JobShaped /\ InStages /\ Came /\ Grouping /\ Parents /\ Describing /\ Summed
    BY <1>1, <1>3 DEF LevelsInv, WorkInv, AtWork
  <2>2. JobShaped'
    BY <1>1, <2>1 DEF JobShaped
  <2>3. InStages'
    BY <1>1, <2>1 DEF InStages, Began, Ended
  <2>4. Came'
    BY <1>1, <2>1 DEF Came, AllOrNone, OfOnePass
  <2>5. Grouping'
    BY <1>1, <2>1 DEF Grouping, AllOrNone, OfOnePass, Covers
  <2>6. Parents'
    BY <1>1, <2>1 DEF Parents, WasGrouped, Covered, Covers
  <2>7. Describing'
    BY <1>1, <2>1 DEF Describing, WasGrouped, Covered, Covers, AllOrNone, OfOnePass, L!InOrder
  <2>8. Summed'
    BY <1>1, <2>1 DEF Summed, L!InOrder
  <2> QED BY <2>2, <2>3, <2>4, <2>5, <2>6, <2>7, <2>8
<1> QED BY <1>1, <1>2, <1>3 DEF LevelsInv, WorkInv

LEMMA LevelsStart == ASSUME L!Init PROVE LevelsInv
<1>1. levelsRuns = 0 /\ levelsShots = L!NoRows /\ described = {} /\ levelsJob.phase = "idle"
  BY DEF L!Init, L!NoJob
<1>2. AllOrNone(levelsShots)
  BY <1>1 DEF AllOrNone, L!NoRows
<1> QED BY <1>1, <1>2 DEF LevelsInv, WorkInv, AtWork, L!OneDescriptionPerShot

LEMMA LevelsAreKept == ASSUME LevelsInv, [L!Next]_levelsVars PROVE LevelsInv'
<1>1. CASE L!JobSteps
  BY <1>1, JobBegins, PlanMade, JoinKeeps, ReplayKeeps, FailKeeps DEF L!JobSteps, L!Stages
<1>2. CASE L!Rows
  BY <1>2, ShotsBegin, ScenesBegin, SetParentsKeeps, JoinKeeps, GroupKeeps DEF L!Rows
<1>3. CASE L!Descriptions
  BY <1>3, DescribingBegins, LeavingOffKeeps, SummaryKeeps, DescribedKeeps DEF L!Descriptions
<1> QED BY <1>1, <1>2, <1>3, LevelsStand DEF L!Next

LEMMA LevelsMean == ASSUME LevelsInv PROVE L!OneDescriptionPerShot /\ L!ShotRowsAreWhole
<1>1. ASSUME L!EndedOk, levelsJob.plan[2] = "run", level = "shot", NEW id \in DOMAIN levelsShots
      PROVE  /\ Covers(levelsShots[id].parent, levelsShots[id].at)
             /\ (\E d \in described : d.target = id /\ d.run = levelsRuns /\ d.kind = "structured") =>
                  levelsShots[id].summary = levelsRuns
  <2>1. levelsJob.phase = "ended" /\ levelsJob.at[2] = "done" /\ levelsJob.at[4] = "done"
    BY <1>1 DEF L!EndedOk, L!Stages
  <2>2. Parents /\ Summed
    BY <2>1 DEF LevelsInv, WorkInv, AtWork
  <2>3. Covers(levelsShots[id].parent, levelsShots[id].at)
    BY <1>1, <2>1, <2>2 DEF Parents, WasGrouped, Covered
  <2> QED BY <1>1, <2>1, <2>2, <2>3 DEF Summed
<1> QED BY <1>1 DEF LevelsInv, L!ShotRowsAreWhole, L!Scenes, Covers

LEMMA LevelsStep == ASSUME [Next]_vars PROVE [L!Next]_levelsVars
BY DEF Next, vars, levelsVars, LevelsSteps, FramesSteps, TextSteps, SpeechSteps, LinesSteps,
       SegmentsSteps, PlanSteps

(* For any number of jobs and shots, wherever a job fails, crashes or is   *)
(* cut short: a shot is described once by a model, and when a job that     *)
(* grouped the shots has ended well each of them lies in the stored scene  *)
(* it names and has the summary this job made.                             *)
THEOREM ShotsAreDescribedOnce == Spec => []ShotRowsAreWhole
<1>1. Init => LevelsInv
  BY LevelsStart DEF Init
<1>2. LevelsInv /\ [Next]_vars => LevelsInv'
  BY LevelsAreKept, LevelsStep
<1>3. LevelsInv => ShotRowsAreWhole
  BY LevelsMean DEF ShotRowsAreWhole
<1> QED BY <1>1, <1>2, <1>3, PTL DEF Spec

-----------------------------------------------------------------------------
(* `TextStages`.  The gate of `ocr` is at the last frame it let through,   *)
(* less than MaxGap before the frame seen; so while no call was missed, no *)
(* stretch of MaxGap passes unread.  What waits for `text_embed` is the    *)
(* last of what it took, what was taken before is embedded; what           *)
(* `image_embed` has looked at looks like a frame kept before it.          *)
TextTyped ==
  /\ screen \in [1..MaxFrames -> [look : {1, 2}, lines : SUBSET Lines]]
  /\ seen \in 0..MaxFrames /\ gate \in [frame : 0..MaxFrames, look : {0, 1, 2}]
  /\ onScreen \subseteq Lines /\ reading \in 0..MaxFrames
  /\ textRows \in Seq([frame : 1..MaxFrames, line : Lines])
  /\ waiting \in Seq(Nat) /\ taken \in 0..Len(textRows)
  /\ look \in {0, 1, 2} /\ pictures \in Seq(1..MaxFrames) /\ looked \in 0..MaxFrames
  /\ images \subseteq 1..MaxFrames
  /\ textMissed \in [{"ocr", "text", "image"} -> Nat]
  /\ state \in [{"ocr", "text", "image"} -> {"runs", "finished", "failed"}]

Shown(l, t) == \E i \in DOMAIN textRows : textRows[i].line = l /\ textRows[i].frame <= t
ReadAt(t) == \A l \in screen[t].lines : Shown(l, t)
GateFollows ==
  /\ (seen = 0 /\ gate = T!NoGate) \/ gate.frame \in 1..seen
  /\ seen > gate.frame => seen < gate.frame + MaxGap
  /\ reading > 0 => reading = gate.frame
FramesAreRead ==
  /\ gate.frame > 0 /\ reading = 0 => ReadAt(gate.frame)
  /\ \A l \in onScreen : Shown(l, gate.frame)
  /\ \A f \in 1..seen : f + MaxGap <= seen =>
       \E t \in f..(f + MaxGap) : ReadAt(t) \/ t = reading
LinesWait ==
  /\ Len(waiting) <= taken
  /\ \A k \in 1..Len(waiting) : waiting[k] = (taken - Len(waiting)) + k
LinesEmbedded == textVectors = {<<i, i>> : i \in 1..(taken - Len(waiting))}
LooksFollow == IF looked = 0 THEN look = 0 ELSE look = screen[looked].look
Looked == images \cup {pictures[k] : k \in DOMAIN pictures}
Resembles(i, t) == i <= t /\ \A u \in i..t : screen[u].look = screen[t].look
LooksKept == \A t \in 1..looked : \E i \in Looked : Resembles(i, t)
StagesEnd ==
  /\ state["ocr"] = "finished" => seen = MaxFrames /\ reading = 0
  /\ state["text"] = "finished" =>
       state["ocr"] = "finished" /\ taken = Len(textRows) /\ waiting = <<>>
  /\ state["image"] = "finished" => looked = MaxFrames /\ pictures = <<>>
TextInv ==
  /\ TextTyped /\ GateFollows /\ LinesWait /\ LooksFollow /\ StagesEnd
  /\ textMissed["ocr"] = 0 => FramesAreRead
  /\ textMissed["text"] = 0 => LinesEmbedded
  /\ textMissed["image"] = 0 => LooksKept

(* What a stage does not touch stays as it was. *)
LEMMA OcrStands ==
  ASSUME UNCHANGED <<screen, gate, onScreen, reading, seen, textRows>>, GateFollows
  PROVE  GateFollows' /\ (FramesAreRead => FramesAreRead')
<1>1. \A l, t : Shown(l, t)' <=> Shown(l, t)
  BY DEF Shown
<1>2. \A t : ReadAt(t)' <=> ReadAt(t)
  BY <1>1 DEF ReadAt
<1>3. GateFollows'
  BY DEF GateFollows
<1>4. FramesAreRead => FramesAreRead'
  BY <1>1, <1>2 DEF FramesAreRead
<1> QED BY <1>3, <1>4

LEMMA TextStands ==
  ASSUME UNCHANGED <<waiting, taken, textVectors>>, LinesWait
  PROVE  LinesWait' /\ (LinesEmbedded => LinesEmbedded')
BY DEF LinesWait, LinesEmbedded

LEMMA ImageStands ==
  ASSUME UNCHANGED <<screen, look, pictures, looked, images>>, LooksFollow
  PROVE  LooksFollow' /\ (LooksKept => LooksKept')
<1>1. LooksFollow'
  BY DEF LooksFollow
<1>2. LooksKept => LooksKept'
  BY DEF LooksKept, Looked, Resembles
<1> QED BY <1>1, <1>2

LEMMA TextMeans ==
  ASSUME TextInv
  PROVE  /\ TextTyped /\ GateFollows /\ LinesWait /\ LooksFollow /\ StagesEnd
         /\ screen \in [1..MaxFrames -> [look : {1, 2}, lines : SUBSET Lines]]
         /\ seen \in 0..MaxFrames /\ gate \in [frame : 0..MaxFrames, look : {0, 1, 2}]
         /\ onScreen \subseteq Lines /\ reading \in 0..MaxFrames
         /\ textRows \in Seq([frame : 1..MaxFrames, line : Lines])
         /\ waiting \in Seq(Nat) /\ taken \in 0..Len(textRows)
         /\ look \in {0, 1, 2} /\ pictures \in Seq(1..MaxFrames) /\ looked \in 0..MaxFrames
         /\ images \subseteq 1..MaxFrames
         /\ textMissed \in [{"ocr", "text", "image"} -> Nat]
         /\ state \in [{"ocr", "text", "image"} -> {"runs", "finished", "failed"}]
BY DEF TextInv, TextTyped

(* A miss is never taken back, and only the stage's own. *)
LEMMA Misses ==
  ASSUME TextTyped, NEW s \in {"ocr", "text", "image"}, NEW n \in Nat, T!Missed(s, n)
  PROVE  /\ textMissed' \in [{"ocr", "text", "image"} -> Nat]
         /\ textMissed'[s] = textMissed[s] + n
         /\ \A t \in {"ocr", "text", "image"} \ {s} : textMissed'[t] = textMissed[t]
         /\ n > 0 => textMissed'[s] # 0
<1>1. textMissed \in [{"ocr", "text", "image"} -> Nat]
  BY DEF TextTyped
<1>2. textMissed' = [textMissed EXCEPT ![s] = textMissed[s] + n]
  BY DEF T!Missed
<1>3. textMissed[s] \in Nat
  BY <1>1
<1> QED BY <1>1, <1>2, <1>3

LEMMA BudgetCloses == ASSUME TextInv, T!Exhaust PROVE TextInv'
<1>1. UNCHANGED <<screen, gate, onScreen, reading, seen, textRows>>
      /\ UNCHANGED <<waiting, taken, textVectors>>
      /\ UNCHANGED <<look, pictures, looked, images>> /\ UNCHANGED <<textMissed, state>>
  BY DEF T!Exhaust
<1>2. TextTyped'
  BY <1>1 DEF TextInv, TextTyped
<1>3. StagesEnd'
  BY <1>1 DEF TextInv, StagesEnd
<1> QED BY <1>1, <1>2, <1>3, OcrStands, TextStands, ImageStands DEF TextInv

LEMMA TextStageFails == ASSUME TextInv, NEW s \in T!Stages, T!Fail(s) PROVE TextInv'
<1>1. UNCHANGED <<screen, gate, onScreen, reading, seen, textRows>>
      /\ UNCHANGED <<waiting, taken, textVectors>>
      /\ UNCHANGED <<look, pictures, looked, images>> /\ UNCHANGED textMissed
      /\ state[s] = "runs" /\ state' = [state EXCEPT ![s] = "failed"]
      /\ s \in {"ocr", "text", "image"}
  BY DEF T!Fail, T!Stages
<1>2. state \in [{"ocr", "text", "image"} -> {"runs", "finished", "failed"}] /\ StagesEnd
  BY TextMeans
<1>3. state' \in [{"ocr", "text", "image"} -> {"runs", "finished", "failed"}]
  BY <1>1, <1>2
<1>4. TextTyped'
  BY <1>1, <1>3 DEF TextInv, TextTyped
<1>5. \A t \in {"ocr", "text", "image"} : (state'[t] = "finished" <=> state[t] = "finished")
  BY <1>1, <1>2
<1>6. StagesEnd'
  BY <1>1, <1>2, <1>5 DEF StagesEnd
<1> QED BY <1>1, <1>4, <1>6, OcrStands, TextStands, ImageStands DEF TextInv

LEMMA TextStageFinishes ==
  ASSUME TextInv, T!OcrFinishes \/ T!TextFinishes \/ T!ImageFinishes PROVE TextInv'
<1>1. UNCHANGED <<screen, gate, onScreen, reading, seen, textRows>>
      /\ UNCHANGED <<waiting, taken, textVectors>>
      /\ UNCHANGED <<look, pictures, looked, images>> /\ UNCHANGED textMissed
  BY DEF T!OcrFinishes, T!TextFinishes, T!ImageFinishes, T!Others, T!OcrVars, T!TextVars, T!ImageVars
<1>2. state \in [{"ocr", "text", "image"} -> {"runs", "finished", "failed"}] /\ StagesEnd
      /\ Len(screen) = MaxFrames
  BY TextMeans, TextAssumption
<1>3. PICK s \in {"ocr", "text", "image"} : state' = [state EXCEPT ![s] = "finished"]
        /\ (s = "ocr" => T!OcrFinishes) /\ (s = "text" => T!TextFinishes)
        /\ (s = "image" => T!ImageFinishes)
  BY DEF T!OcrFinishes, T!TextFinishes, T!ImageFinishes
<1>4. state' \in [{"ocr", "text", "image"} -> {"runs", "finished", "failed"}]
      /\ state'[s] = "finished"
      /\ \A t \in {"ocr", "text", "image"} \ {s} : state'[t] = state[t]
  BY <1>2, <1>3
<1>5. TextTyped'
  BY <1>1, <1>4 DEF TextInv, TextTyped
<1>6. s = "ocr" => seen = MaxFrames /\ reading = 0
  BY <1>2, <1>3 DEF T!OcrFinishes
<1>7. s = "text" => state["ocr"] = "finished" /\ taken = Len(textRows) /\ waiting = <<>>
  BY <1>3 DEF T!TextFinishes, T!InputEnded, T!TextFlushDue
<1>8. s = "image" => looked = MaxFrames /\ pictures = <<>>
  BY <1>2, <1>3 DEF T!ImageFinishes, T!FramesEnded, T!ImageFlushDue
<1>9. StagesEnd'
  BY <1>1, <1>2, <1>4, <1>6, <1>7, <1>8 DEF StagesEnd
<1> QED BY <1>1, <1>5, <1>9, OcrStands, TextStands, ImageStands DEF TextInv

LEMMA RowsAreTyped ==
  ASSUME TextInv, NEW i \in DOMAIN textRows
  PROVE  i \in 1..Len(textRows) /\ textRows[i].frame \in 1..MaxFrames /\ textRows[i].line \in Lines
<1> DEFINE Row1 == [frame : 1..MaxFrames, line : Lines]
<1>1. textRows \in Seq(Row1)
  BY TextMeans
<1> HIDE DEF Row1
<1>2. i \in 1..Len(textRows) /\ textRows[i] \in Row1
  BY <1>1
<1> QED BY <1>2 DEF Row1

LEMMA OcrTaking == ASSUME TextInv, T!OcrTakes PROVE TextInv'
<1> DEFINE t == seen + 1
           new == [frame |-> t, look |-> screen[t].look]
<1>1. /\ UNCHANGED <<waiting, taken, textVectors>>
      /\ UNCHANGED <<screen, look, pictures, looked, images>>
      /\ UNCHANGED <<onScreen, textRows, state>>
      /\ state["ocr"] = "runs" /\ reading = 0 /\ seen < Len(screen)
      /\ seen' = t /\ gate' = T!GateAfter(t)
      /\ reading' = (IF T!Changed(t) /\ textOpen THEN t ELSE 0)
      /\ IF T!Changed(t) /\ ~textOpen THEN T!Missed("ocr", 1) ELSE UNCHANGED textMissed
  BY DEF T!OcrTakes, T!Others, T!TextVars, T!ImageVars
<1>2. /\ screen \in [1..MaxFrames -> [look : {1, 2}, lines : SUBSET Lines]]
      /\ seen \in 0..MaxFrames /\ gate \in [frame : 0..MaxFrames, look : {0, 1, 2}]
      /\ GateFollows /\ StagesEnd
      /\ textMissed \in [{"ocr", "text", "image"} -> Nat]
  BY TextMeans
<1>3. t \in 1..MaxFrames /\ t \in Nat /\ seen \in Nat /\ MaxGap \in Nat
  BY <1>1, <1>2, TextAssumption
<1>4. new \in [frame : 0..MaxFrames, look : {0, 1, 2}] /\ new.frame = t
  BY <1>2, <1>3, TextAssumption
<1>5. \/ T!Changed(t) /\ gate' = new
      \/ ~T!Changed(t) /\ gate' = gate /\ reading' = 0 /\ gate # T!NoGate /\ t < gate.frame + MaxGap
  BY <1>1, <1>2, <1>3 DEF T!GateAfter, T!Changed
<1> HIDE DEF new
<1>6. /\ textMissed' \in [{"ocr", "text", "image"} -> Nat]
      /\ textMissed'["text"] = textMissed["text"] /\ textMissed'["image"] = textMissed["image"]
      /\ textMissed'["ocr"] = 0 => textMissed["ocr"] = 0 /\ (T!Changed(t) => reading' = t)
  <2>1. CASE T!Changed(t) /\ ~textOpen
    BY <1>1, <1>2, <2>1, Misses, TextMeans, SMTT(40)
  <2>2. CASE ~(T!Changed(t) /\ ~textOpen)
    BY <1>1, <1>2, <2>2
  <2> QED BY <2>1, <2>2
<1>7. TextTyped'
  <2>1. gate' \in [frame : 0..MaxFrames, look : {0, 1, 2}]
    BY <1>2, <1>4, <1>5
  <2>2. seen' \in 0..MaxFrames /\ reading' \in 0..MaxFrames
    BY <1>1, <1>3, TextAssumption
  <2> QED BY <1>1, <1>6, <2>1, <2>2 DEF TextInv, TextTyped
<1>8. gate'.frame \in 1..t /\ (t > gate'.frame => t < gate'.frame + MaxGap)
      /\ (reading' > 0 => reading' = gate'.frame)
      /\ (gate'.frame = t \/ (gate' = gate /\ reading' = 0))
      /\ gate.frame \in 0..seen
  <2>1. gate.frame \in 0..seen /\ (gate # T!NoGate => gate.frame \in 1..seen)
    BY <1>2, <1>3 DEF GateFollows, T!NoGate, T!None
  <2>2. CASE T!Changed(t) /\ gate' = new
    BY <1>1, <1>3, <1>4, <2>1, <2>2
  <2>3. CASE gate' = gate /\ reading' = 0 /\ gate # T!NoGate /\ t < gate.frame + MaxGap
    BY <1>3, <2>1, <2>3
  <2> QED BY <1>5, <2>2, <2>3
<1>9. GateFollows'
  BY <1>1, <1>8 DEF GateFollows
<1>10. ASSUME textMissed'["ocr"] = 0 PROVE FramesAreRead'
  <2>1. FramesAreRead /\ (T!Changed(t) => reading' = t)
    BY <1>6, <1>10 DEF TextInv
  <2>7. PICK g : g = gate'.frame
    OBVIOUS
  <2>8. g \in Nat /\ g > 0 /\ gate.frame \in Nat /\ gate.frame <= g
    BY <1>3, <1>8, <2>7
  <2>2. \A l, u : Shown(l, u)' <=> Shown(l, u)
    BY <1>1 DEF Shown
  <2>3. \A u : ReadAt(u)' <=> ReadAt(u)
    BY <1>1, <2>2 DEF ReadAt
  <2>4. reading' = 0 => ReadAt(g)'
    <3>1. CASE T!Changed(t)
      BY <1>3, <2>1, <3>1
    <3>2. CASE ~T!Changed(t)
      <4>1. gate' = gate /\ reading = 0
        BY <1>1, <1>5, <3>2
      <4> QED BY <2>1, <2>3, <2>7, <2>8, <4>1 DEF FramesAreRead
    <3> QED BY <3>1, <3>2
  <2>5. \A l \in onScreen' : Shown(l, g)'
    <3>1. ASSUME NEW l \in onScreen PROVE Shown(l, g)
      <4>1. PICK i \in DOMAIN textRows : textRows[i].line = l /\ textRows[i].frame <= gate.frame
        BY <2>1, <3>1 DEF FramesAreRead, Shown
      <4>3. textRows[i].frame \in Nat
        BY <4>1, RowsAreTyped, TextAssumption
      <4>4. textRows[i].frame <= g
        BY <2>8, <4>1, <4>3
      <4> QED BY <4>1, <4>4 DEF Shown
    <3> QED BY <1>1, <2>2, <3>1
  <2>6. ASSUME NEW f \in 1..t, f + MaxGap <= t
        PROVE  \E u \in f..(f + MaxGap) : ReadAt(u)' \/ u = reading'
    <3>1. CASE f + MaxGap <= seen
      <4>1. f \in 1..seen
        BY <1>3, <2>6, <3>1
      <4>2. PICK u \in f..(f + MaxGap) : ReadAt(u)
        BY <1>1, <1>3, <2>1, <3>1, <4>1, SMTT(40) DEF FramesAreRead
      <4> QED BY <2>3, <4>2
    <3>2. CASE f + MaxGap > seen
      <4>1. f + MaxGap = t
        BY <1>3, <2>6, <3>2
      <4>2. g \in f..(f + MaxGap)
        BY <1>3, <1>8, <2>6, <2>7, <4>1
      <4>3. ReadAt(g)' \/ g = reading'
        <5>1. reading' \in 0..MaxFrames
          BY <1>7 DEF TextTyped
        <5>2. reading' = 0 \/ reading' > 0
          BY <5>1, TextAssumption
        <5> QED BY <1>8, <2>4, <2>7, <5>1, <5>2
      <4> QED BY <4>2, <4>3
    <3>3. f + MaxGap <= seen \/ f + MaxGap > seen
      BY <1>3, <2>6
    <3> QED BY <3>1, <3>2, <3>3
  <2>9. ReadAt(gate.frame)' <=> ReadAt(g)'
    BY <2>7 DEF ReadAt, Shown
  <2>10. \A l : Shown(l, gate.frame)' <=> Shown(l, g)'
    BY <2>7 DEF Shown
  <2> QED BY <1>1, <2>4, <2>5, <2>6, <2>9, <2>10 DEF FramesAreRead
<1>11. StagesEnd'
  BY <1>1, <1>2 DEF StagesEnd
<1>12. LinesWait' /\ (LinesEmbedded => LinesEmbedded')
  BY <1>1, TextStands DEF TextInv
<1>13. LooksFollow' /\ (LooksKept => LooksKept')
  BY <1>1, ImageStands DEF TextInv
<1> QED BY <1>6, <1>7, <1>9, <1>10, <1>11, <1>12, <1>13 DEF TextInv

LEMMA OcrCallFailing == ASSUME TextInv, T!OcrCallFails PROVE TextInv'
<1>1. /\ UNCHANGED <<waiting, taken, textVectors>>
      /\ UNCHANGED <<screen, look, pictures, looked, images>>
      /\ UNCHANGED <<gate, onScreen, seen, textRows, state>>
      /\ reading > 0 /\ reading' = 0 /\ T!Missed("ocr", 1)
  BY DEF T!OcrCallFails, T!Others, T!TextVars, T!ImageVars
<1>2. GateFollows /\ StagesEnd /\ TextTyped
  BY TextMeans
<1>3. /\ textMissed' \in [{"ocr", "text", "image"} -> Nat] /\ textMissed'["ocr"] # 0
      /\ textMissed'["text"] = textMissed["text"] /\ textMissed'["image"] = textMissed["image"]
  BY <1>1, <1>2, Misses
<1>4. TextTyped'
  BY <1>1, <1>2, <1>3, TextAssumption DEF TextTyped
<1>5. GateFollows' /\ StagesEnd'
  BY <1>1, <1>2 DEF GateFollows, StagesEnd
<1>6. LinesWait' /\ (LinesEmbedded => LinesEmbedded')
  BY <1>1, TextStands DEF TextInv
<1>7. LooksFollow' /\ (LooksKept => LooksKept')
  BY <1>1, ImageStands DEF TextInv
<1> QED BY <1>3, <1>4, <1>5, <1>6, <1>7 DEF TextInv

LEMMA OcrReading == ASSUME TextInv, T!OcrReads PROVE TextInv'
<1> DEFINE new == screen[reading].lines \ onScreen
<1>1. /\ UNCHANGED <<waiting, taken, textVectors>>
      /\ UNCHANGED <<screen, look, pictures, looked, images>>
      /\ UNCHANGED <<gate, seen, textMissed, state>>
      /\ reading > 0 /\ reading' = 0 /\ onScreen' = screen[reading].lines
  BY DEF T!OcrReads, T!Others, T!TextVars, T!ImageVars
<1>2. /\ screen \in [1..MaxFrames -> [look : {1, 2}, lines : SUBSET Lines]]
      /\ reading \in 0..MaxFrames /\ GateFollows /\ StagesEnd /\ TextTyped
      /\ seen \in 0..MaxFrames /\ taken \in 0..Len(textRows)
      /\ textMissed \in [{"ocr", "text", "image"} -> Nat]
  BY TextMeans
<1>3. reading \in 1..MaxFrames /\ reading = gate.frame
  BY <1>1, <1>2, TextAssumption DEF GateFollows
<1>4. new \subseteq Lines /\ IsFiniteSet(new)
  <2>1. screen[reading] \in [look : {1, 2}, lines : SUBSET Lines]
    BY <1>2, <1>3
  <2>2. new \subseteq Lines
    BY <2>1
  <2> QED BY <2>2, TextAssumption, FS_Subset
<1> HIDE DEF new
<1>5. PICK s \in T!LineSeqs(new) :
        textRows' = textRows \o [i \in DOMAIN s |-> [frame |-> reading, line |-> s[i]]]
  BY DEF T!OcrReads, new
<1>6. Cardinality(new) \in Nat /\ T!Cardinality(new) = Cardinality(new)
  BY <1>4, FS_CardinalityType, SameCount
<1>7. DOMAIN s = 1..Cardinality(new) /\ {s[i] : i \in DOMAIN s} = new
  BY <1>5, <1>6 DEF T!LineSeqs
<1> DEFINE Row1 == [frame : 1..MaxFrames, line : Lines]
           found == [i \in DOMAIN s |-> [frame |-> reading, line |-> s[i]]]
<1>8. found \in [1..Cardinality(new) -> Row1]
  <2>1. \A i \in DOMAIN s : s[i] \in Lines
    BY <1>4, <1>7
  <2> QED BY <1>3, <1>7, <2>1
<1>9. \A i \in 1..Cardinality(new) : found[i].line = s[i] /\ found[i].frame = reading
  BY <1>7
<1> HIDE DEF Row1, found
<1>10. found \in Seq(Row1) /\ Len(found) = Cardinality(new)
  BY <1>6, <1>8
<1>11. textRows \in Seq(Row1) /\ textRows' = textRows \o found
  BY <1>2, <1>5 DEF TextTyped, Row1, found
<1>22. /\ textRows \o found \in Seq(Row1) /\ Len(textRows \o found) = Len(textRows) + Len(found)
       /\ \A i \in 1..Len(textRows) : (textRows \o found)[i] = textRows[i]
       /\ \A i \in 1..Len(found) : (textRows \o found)[Len(textRows) + i] = found[i]
  <2>1. PICK a \in Seq(Row1) : a = textRows
    BY <1>11
  <2>2. PICK b \in Seq(Row1) : b = found
    BY <1>10
  <2>3. /\ a \o b \in Seq(Row1) /\ Len(a \o b) = Len(a) + Len(b)
        /\ \A i \in 1..Len(a) : (a \o b)[i] = a[i]
        /\ \A i \in 1..Len(b) : (a \o b)[Len(a) + i] = b[i]
    BY Joined
  <2> QED BY <2>1, <2>2, <2>3
<1>12. /\ textRows' \in Seq(Row1) /\ Len(textRows') = Len(textRows) + Len(found)
       /\ \A i \in 1..Len(textRows) : textRows'[i] = textRows[i]
       /\ \A i \in 1..Len(found) : textRows'[Len(textRows) + i] = found[i]
  BY <1>11, <1>22
<1>13. Len(textRows) \in Nat /\ Len(found) \in Nat /\ DOMAIN textRows = 1..Len(textRows)
       /\ DOMAIN textRows' = 1..Len(textRows')
  BY <1>10, <1>11, <1>12
<1>14. \A l, u : Shown(l, u) => Shown(l, u)'
  <2>1. ASSUME NEW l, NEW u, NEW i \in DOMAIN textRows, textRows[i].line = l, textRows[i].frame <= u
        PROVE  Shown(l, u)'
    <3>1. i \in DOMAIN textRows' /\ textRows'[i] = textRows[i]
      BY <1>12, <1>13, <2>1
    <3> QED BY <2>1, <3>1 DEF Shown
  <2> QED BY <2>1 DEF Shown
<1>15. \A u : ReadAt(u) => ReadAt(u)'
  BY <1>1, <1>14 DEF ReadAt
<1>16. TextTyped'
  <2>1. textRows' \in Seq([frame : 1..MaxFrames, line : Lines])
    BY <1>12 DEF Row1
  <2>2. taken' \in 0..Len(textRows')
    BY <1>1, <1>2, <1>12, <1>13
  <2>3. onScreen' \subseteq Lines /\ reading' \in 0..MaxFrames
    <3>1. screen[reading] \in [look : {1, 2}, lines : SUBSET Lines]
      BY <1>2, <1>3
    <3> QED BY <1>1, <3>1, TextAssumption
  <2> QED BY <1>1, <1>2, <2>1, <2>2, <2>3 DEF TextTyped
<1>17. GateFollows'
  BY <1>1, <1>2 DEF GateFollows
<1>18. StagesEnd'
  <2>1. state["ocr"] # "finished"
    BY <1>1, <1>2 DEF StagesEnd
  <2> QED BY <1>1, <1>2, <2>1 DEF StagesEnd
<1>19. ASSUME FramesAreRead PROVE FramesAreRead'
  <2>1. PICK r \in 1..MaxFrames : r = reading
    BY <1>3
  <2>2. ASSUME NEW l \in screen[r].lines PROVE Shown(l, r)'
    <3>1. CASE l \in onScreen
      BY <1>3, <1>14, <1>19, <2>1, <3>1 DEF FramesAreRead
    <3>2. CASE l \notin onScreen
      <4>1. PICK i \in DOMAIN s : s[i] = l
        BY <1>7, <2>1, <2>2, <3>2 DEF new
      <4>2. i \in 1..Len(found) /\ found[i].line = l /\ found[i].frame = r
        BY <1>7, <1>9, <1>10, <2>1, <4>1
      <4>3. Len(textRows) + i \in DOMAIN textRows' /\ textRows'[Len(textRows) + i] = found[i]
        BY <1>12, <1>13, <4>2
      <4>4. r <= r
        BY <2>1, TextAssumption
      <4> QED BY <4>2, <4>3, <4>4 DEF Shown
    <3> QED BY <3>1, <3>2
  <2>3. ReadAt(r)'
    BY <1>1, <2>2 DEF ReadAt
  <2>4. gate' = gate /\ gate.frame = r
    BY <1>1, <1>3, <2>1
  <2>5. ReadAt(gate.frame)'
    BY <2>3, <2>4
  <2>6. \A l \in onScreen' : Shown(l, gate.frame)'
    BY <1>1, <2>1, <2>2, <2>4
  <2>7. ASSUME NEW f \in 1..seen, f + MaxGap <= seen
        PROVE  \E t \in f..(f + MaxGap) : ReadAt(t)'
    <3>1. PICK t \in f..(f + MaxGap) : ReadAt(t) \/ t = reading
      BY <1>19, <2>7 DEF FramesAreRead
    <3> QED BY <1>15, <2>1, <2>3, <3>1
  <2> QED BY <1>1, <2>5, <2>6, <2>7 DEF FramesAreRead
<1>20. LinesWait' /\ (LinesEmbedded => LinesEmbedded')
  BY <1>1, TextStands DEF TextInv
<1>21. LooksFollow' /\ (LooksKept => LooksKept')
  BY <1>1, ImageStands DEF TextInv
<1> QED BY <1>1, <1>16, <1>17, <1>18, <1>19, <1>20, <1>21 DEF TextInv

LEMMA TextTaking == ASSUME TextInv, T!TextTakes PROVE TextInv'
<1>1. /\ UNCHANGED <<screen, gate, onScreen, reading, seen, textRows>>
      /\ UNCHANGED <<look, pictures, looked, images>>
      /\ UNCHANGED <<textVectors, textMissed, state>>
      /\ state["text"] = "runs" /\ taken < Len(textRows)
      /\ taken' = taken + 1 /\ waiting' = Append(waiting, taken + 1)
  BY DEF T!TextTakes, T!Others, T!OcrVars, T!ImageVars
<1>2. /\ textRows \in Seq([frame : 1..MaxFrames, line : Lines]) /\ LinesWait /\ StagesEnd /\ TextTyped
      /\ waiting \in Seq(Nat) /\ taken \in 0..Len(textRows)
  BY TextMeans
<1>3. Len(textRows) \in Nat /\ Len(waiting) \in Nat /\ taken \in Nat
  BY <1>2
<1>4. taken' \in 0..Len(textRows') /\ waiting' \in Seq(Nat) /\ Len(waiting') = Len(waiting) + 1
      /\ waiting'[Len(waiting) + 1] = taken + 1
      /\ \A k \in 1..Len(waiting) : waiting'[k] = waiting[k]
  BY <1>1, <1>2, <1>3
<1>5. TextTyped'
  BY <1>1, <1>2, <1>4 DEF TextTyped
<1>6. taken' - Len(waiting') = taken - Len(waiting)
  BY <1>1, <1>3, <1>4
<1>7. LinesWait'
  <2>1. Len(waiting') <= taken'
    BY <1>1, <1>2, <1>3, <1>4 DEF LinesWait
  <2>2. ASSUME NEW k \in 1..Len(waiting') PROVE waiting'[k] = (taken' - Len(waiting')) + k
    <3>1. CASE k \in 1..Len(waiting)
      <4>1. waiting'[k] = (taken - Len(waiting)) + k
        BY <1>2, <1>4, <3>1 DEF LinesWait
      <4> QED BY <1>6, <4>1
    <3>2. CASE k = Len(waiting) + 1
      <4>1. waiting'[k] = taken + 1 /\ taken + 1 = (taken - Len(waiting)) + k
        BY <1>3, <1>4, <3>2
      <4> QED BY <1>6, <4>1
    <3>3. k \in 1..Len(waiting) \/ k = Len(waiting) + 1
      BY <1>3, <1>4
    <3> QED BY <3>1, <3>2, <3>3
  <2> QED BY <2>1, <2>2 DEF LinesWait
<1>8. LinesEmbedded => LinesEmbedded'
  BY <1>1, <1>6 DEF LinesEmbedded
<1>9. StagesEnd'
  BY <1>1, <1>2 DEF StagesEnd
<1> QED BY <1>1, <1>5, <1>7, <1>8, <1>9, OcrStands, ImageStands DEF TextInv

(* Onto itself by growing numbers is the identity.                         *)
LEMMA GrowingIsIdentity ==
  ASSUME NEW n \in Nat, NEW g \in [1..n -> 1..n],
         \A i, j \in 1..n : i < j => g[i] < g[j]
  PROVE  \A i \in 1..n : g[i] = i
<1>1. \A i \in 1..n : g[i] >= i
  <2> DEFINE B == {i \in 1..n : g[i] < i}
  <2>1. ASSUME B # {} PROVE FALSE
    <3>1. B \in SUBSET Nat
      OBVIOUS
    <3>2. PICK m \in B : \A o \in B : m <= o
      BY <2>1, <3>1, LeastNat
    <3>3. m \in 1..n /\ g[m] < m /\ g[m] \in 1..n
      BY <3>2
    <3>4. m - 1 \in 1..n /\ g[m - 1] \in 1..n
      BY <3>3
    <3>5. m - 1 \notin B
      BY <3>2, <3>3
    <3>6. g[m - 1] >= m - 1
      BY <3>4, <3>5
    <3>7. g[m - 1] < g[m]
      BY <3>3, <3>4
    <3> QED BY <3>3, <3>4, <3>6, <3>7
  <2>2. \A i \in 1..n : g[i] \in Nat /\ i \in Nat
    OBVIOUS
  <2>3. \A i \in 1..n : ~(g[i] < i)
    BY <2>1
  <2> QED BY <2>2, <2>3
<1>2. \A i \in 1..n : g[i] <= i
  <2> DEFINE B == {k \in 0..(n - 1) : g[n - k] > n - k}
  <2>1. ASSUME B # {} PROVE FALSE
    <3>1. B \in SUBSET Nat
      OBVIOUS
    <3>2. PICK m \in B : \A o \in B : m <= o
      BY <2>1, <3>1, LeastNat
    <3>3. m \in 0..(n - 1) /\ g[n - m] > n - m /\ n - m \in 1..n /\ g[n - m] \in 1..n
      BY <3>2
    <3>4. n - m < n /\ m - 1 \in 0..(n - 1) /\ n - (m - 1) = (n - m) + 1 /\ (n - m) + 1 \in 1..n
          /\ g[(n - m) + 1] \in 1..n
      BY <3>3
    <3>5. m - 1 \notin B
      BY <3>2, <3>3, SMTT(40)
    <3>6. g[(n - m) + 1] <= (n - m) + 1
      BY <3>4, <3>5
    <3>7. g[n - m] < g[(n - m) + 1]
      BY <3>3, <3>4
    <3> QED BY <3>3, <3>4, <3>6, <3>7
  <2>2. ASSUME NEW i \in 1..n PROVE ~(g[i] > i)
    <3>1. n - i \in 0..(n - 1) /\ n - (n - i) = i
      OBVIOUS
    <3> QED BY <2>1, <3>1
  <2>3. \A i \in 1..n : g[i] \in Nat /\ i \in Nat
    OBVIOUS
  <2> QED BY <2>2, <2>3
<1> QED BY <1>1, <1>2

(* Sorted by their index, the rows of an answer are in the order the texts *)
(* were asked in.                                                          *)
LEMMA SortedIsAsked ==
  ASSUME NEW texts \in Seq(Nat), NEW reply \in T!Answered(texts)
  PROVE  \A i \in DOMAIN texts : T!ByIndex(reply)[i].of = texts[i]
<1> DEFINE n == Len(texts)
           D == 1..n
<1>1. n \in Nat /\ DOMAIN texts = D /\ IsFiniteSet(D)
  BY FS_Interval
<1>6. PICK turns \in [DOMAIN texts -> DOMAIN texts] :
        /\ \A i, j \in DOMAIN texts : i = j \/ turns[i] # turns[j]
        /\ reply = [k \in DOMAIN turns |-> [index |-> turns[k] - 1, of |-> texts[turns[k]]]]
  BY DEF T!Answered
<1>2. /\ turns \in [D -> D] /\ \A i, j \in D : i = j \/ turns[i] # turns[j]
      /\ reply = [k \in D |-> [index |-> turns[k] - 1, of |-> texts[turns[k]]]]
  BY <1>1, <1>6
<1>17. \A d \in D : d \in Nat
  BY <1>1
<1> HIDE DEF n, D
<1>3. turns \in Surjection(D, D)
  <2>1. turns \in Injection(D, D)
    BY <1>2 DEF Injection, IsInjective
  <2> QED BY <1>1, <2>1, FS_Injection
<1>4. DOMAIN reply = D
  BY <1>2
<1>5. \A k \in D : reply[k].index = turns[k] - 1 /\ reply[k].of = texts[turns[k]] /\ turns[k] \in D
  BY <1>2
<1>7. PICK back \in [D -> D] : \A k \in D : turns[back[k]] = k
  <2>1. \A k \in D : \E i \in D : turns[i] = k
    BY <1>3 DEF Surjection
  <2> DEFINE inv == [k \in D |-> CHOOSE i \in D : turns[i] = k]
  <2>2. \A k \in D : inv[k] \in D /\ turns[inv[k]] = k
    BY <2>1
  <2>3. inv \in [D -> D]
    BY <2>2
  <2> HIDE DEF inv
  <2> QED BY <2>2, <2>3
<1>8. T!InIndexOrder(back, reply)
  <2>1. \A i \in D : back[turns[i]] = i
    BY <1>2, <1>5, <1>7
  <2>2. {back[i] : i \in DOMAIN back} = D
    <3>1. DOMAIN back = D
      BY <1>7
    <3>2. ASSUME NEW d \in D PROVE d \in {back[i] : i \in DOMAIN back}
      BY <1>5, <2>1, <3>1
    <3>3. ASSUME NEW i \in DOMAIN back PROVE back[i] \in D
      BY <1>7, <3>3
    <3> QED BY <3>2, <3>3
  <2>3. \A i, j \in D : i < j => reply[back[i]].index <= reply[back[j]].index
    <3>1. \A i \in D : reply[back[i]].index = i - 1
      BY <1>5, <1>7
    <3> QED BY <1>17, <3>1
  <2> QED BY <1>4, <1>7, <2>2, <2>3 DEF T!InIndexOrder
<1> DEFINE p == CHOOSE q \in [DOMAIN reply -> DOMAIN reply] : T!InIndexOrder(q, reply)
<1>9. p \in [D -> D] /\ T!InIndexOrder(p, reply)
  <2>1. back \in [DOMAIN reply -> DOMAIN reply]
    BY <1>4, <1>7
  <2> QED BY <1>4, <1>8, <2>1
<1>10. T!ByIndex(reply) = [i \in DOMAIN reply |-> reply[p[i]]]
  BY DEF T!ByIndex
<1> HIDE DEF p
<1>11. {p[i] : i \in D} = D /\ \A i, j \in D : i < j => reply[p[i]].index <= reply[p[j]].index
  BY <1>4, <1>9 DEF T!InIndexOrder
<1>12. \A i, j \in D : p[i] = p[j] => i = j
  <2>1. p \in Surjection(D, D)
    <3>1. ASSUME NEW d \in D PROVE \E i \in D : p[i] = d
      BY <1>11
    <3> QED BY <1>9, <3>1 DEF Surjection
  <2>2. p \in Injection(D, D)
    BY <1>1, <2>1, FS_SurjSameCardinalityImpliesInj
  <2> QED BY <2>2 DEF Injection, IsInjective
<1> DEFINE g == [i \in D |-> turns[p[i]]]
<1>13. g \in [D -> D] /\ \A i \in D : g[i] = turns[p[i]] /\ p[i] \in D
  BY <1>5, <1>9
<1>14. ASSUME NEW i \in D, NEW j \in D, i < j PROVE g[i] < g[j]
  <2>1. g[i] \in Nat /\ g[j] \in Nat
    BY <1>13, <1>17
  <2>2. turns[p[i]] - 1 <= turns[p[j]] - 1
    BY <1>5, <1>11, <1>13, <1>14
  <2>3. turns[p[i]] # turns[p[j]]
    <3>1. i # j
      BY <1>14, <1>17
    <3> QED BY <1>2, <1>12, <1>13, <3>1
  <2>4. g[i] - 1 <= g[j] - 1 /\ g[i] # g[j]
    BY <1>13, <2>2, <2>3
  <2> QED BY <2>1, <2>4, SMTT(40)
<1> HIDE DEF g
<1>15. \A i \in D : g[i] = i
  BY <1>1, <1>13, <1>14, GrowingIsIdentity DEF D
<1>16. \A i \in D : T!ByIndex(reply)[i].of = texts[i]
  <2>1. ASSUME NEW i \in D PROVE T!ByIndex(reply)[i].of = texts[i]
    <3>1. T!ByIndex(reply)[i] = reply[p[i]]
      BY <1>4, <1>10
    <3>2. reply[p[i]].of = texts[turns[p[i]]]
      BY <1>5, <1>13
    <3>3. turns[p[i]] = i
      BY <1>13, <1>15
    <3> QED BY <3>1, <3>2, <3>3
  <2> QED BY <2>1
<1> QED BY <1>1, <1>16

LEMMA PicturesAreTyped ==
  ASSUME pictures \in Seq(1..MaxFrames)
  PROVE  \A k \in DOMAIN pictures : pictures[k] \in 1..MaxFrames
<1> DEFINE S1 == 1..MaxFrames
<1>1. pictures \in Seq(S1)
  OBVIOUS
<1> HIDE DEF S1
<1>2. \A k \in DOMAIN pictures : pictures[k] \in S1
  BY <1>1
<1> QED BY <1>2 DEF S1

LEMMA TextFlushing == ASSUME TextInv, T!TextFlushes PROVE TextInv'
<1> DEFINE n == Len(waiting)
<1>1. /\ UNCHANGED <<screen, gate, onScreen, reading, seen, textRows>>
      /\ UNCHANGED <<look, pictures, looked, images>>
      /\ UNCHANGED <<taken, state>> /\ waiting # <<>> /\ waiting' = <<>>
      /\ state["text"] = "runs"
  BY DEF T!TextFlushes, T!TextFlushDue, T!Others, T!OcrVars, T!ImageVars
<1>2. /\ LinesWait /\ StagesEnd /\ TextTyped /\ waiting \in Seq(Nat) /\ taken \in 0..Len(textRows)
      /\ textRows \in Seq([frame : 1..MaxFrames, line : Lines])
      /\ textMissed \in [{"ocr", "text", "image"} -> Nat]
  BY TextMeans
<1>3. n \in Nat /\ n > 0 /\ DOMAIN waiting = 1..n /\ n <= taken /\ taken \in Nat
      /\ \A k \in 1..n : waiting[k] = (taken - n) + k
  BY <1>1, <1>2 DEF LinesWait
<1>4. Len(waiting') = 0 /\ waiting' \in Seq(Nat)
  BY <1>1
<1> HIDE DEF n
<1>5. LinesWait'
  BY <1>1, <1>3, <1>4 DEF LinesWait
<1>6. StagesEnd'
  BY <1>1, <1>2 DEF StagesEnd
<1>7. \/ T!Missed("text", n) /\ UNCHANGED textVectors
      \/ /\ UNCHANGED textMissed
         /\ \E reply \in T!Answered(waiting) :
              textVectors' = textVectors \cup
                {<<waiting[i], T!ByIndex(reply)[i].of>> : i \in DOMAIN waiting}
  BY DEF T!TextFlushes, n
<1>8. CASE T!Missed("text", n)
  <2>1. /\ textMissed' \in [{"ocr", "text", "image"} -> Nat] /\ textMissed'["text"] # 0
        /\ textMissed'["ocr"] = textMissed["ocr"] /\ textMissed'["image"] = textMissed["image"]
    BY <1>2, <1>3, <1>8, Misses
  <2>2. TextTyped'
    BY <1>1, <1>2, <1>4, <2>1 DEF TextTyped
  <2> QED BY <1>1, <1>5, <1>6, <2>1, <2>2, OcrStands, ImageStands DEF TextInv
<1>9. ASSUME UNCHANGED textMissed, NEW reply \in T!Answered(waiting),
             textVectors' = textVectors \cup
               {<<waiting[i], T!ByIndex(reply)[i].of>> : i \in DOMAIN waiting}
      PROVE  TextInv'
  <2>1. TextTyped'
    BY <1>1, <1>2, <1>4, <1>9 DEF TextTyped
  <2>2. \A i \in 1..n : T!ByIndex(reply)[i].of = waiting[i]
    BY <1>2, <1>3, <1>9, SortedIsAsked
  <2>3. ASSUME LinesEmbedded PROVE LinesEmbedded'
    <3>1. textVectors = {<<i, i>> : i \in 1..(taken - n)}
      BY <2>3 DEF LinesEmbedded, n
    <3>2. ASSUME NEW v \in textVectors' PROVE v \in {<<i, i>> : i \in 1..taken}
      <4>1. CASE v \in textVectors
        <5>1. PICK i \in 1..(taken - n) : v = <<i, i>>
          BY <3>1, <4>1
        <5>2. i \in 1..taken
          BY <1>3
        <5> QED BY <5>1, <5>2
      <4>2. CASE v \notin textVectors
        <5>1. PICK i \in 1..n : v = <<waiting[i], T!ByIndex(reply)[i].of>>
          BY <1>3, <1>9, <3>2, <4>2
        <5>2. v = <<waiting[i], waiting[i]>>
          BY <2>2, <5>1
        <5>3. waiting[i] \in 1..taken
          BY <1>3
        <5> QED BY <5>2, <5>3
      <4> QED BY <4>1, <4>2
    <3>3. ASSUME NEW i \in 1..taken PROVE <<i, i>> \in textVectors'
      <4>1. CASE i <= taken - n
        BY <1>3, <1>9, <3>1, <4>1
      <4>2. CASE i > taken - n
        <5>1. i - (taken - n) \in 1..n /\ waiting[i - (taken - n)] = i
          BY <1>3, <4>2
        <5>2. <<waiting[i - (taken - n)], T!ByIndex(reply)[i - (taken - n)].of>> = <<i, i>>
          BY <2>2, <5>1
        <5>3. <<waiting[i - (taken - n)], T!ByIndex(reply)[i - (taken - n)].of>> \in textVectors'
          BY <1>3, <1>9, <5>1
        <5> QED BY <5>2, <5>3
      <4> QED BY <1>3, <4>1, <4>2
    <3>4. taken' - Len(waiting') = taken
      BY <1>1, <1>3, <1>4
    <3>5. textVectors' = {<<i, i>> : i \in 1..taken}
      BY <3>2, <3>3
    <3> QED BY <3>4, <3>5 DEF LinesEmbedded
  <2> QED BY <1>1, <1>5, <1>6, <1>9, <2>1, <2>3, OcrStands, ImageStands DEF TextInv
<1> QED BY <1>7, <1>8, <1>9

LEMMA ImageTaking == ASSUME TextInv, T!ImageTakes PROVE TextInv'
<1>10. PICK t : t = looked + 1
  OBVIOUS
<1>1. /\ UNCHANGED <<screen, gate, onScreen, reading, seen, textRows>>
      /\ UNCHANGED <<waiting, taken, textVectors>>
      /\ UNCHANGED <<images, textMissed, state>>
      /\ state["image"] = "runs" /\ looked < Len(screen) /\ looked' = t
      /\ \/ screen[t].look = look /\ look' = look /\ pictures' = pictures
         \/ screen[t].look # look /\ look' = screen[t].look /\ pictures' = Append(pictures, t)
  BY <1>10 DEF T!ImageTakes, T!Others, T!OcrVars, T!TextVars
<1>2. /\ screen \in [1..MaxFrames -> [look : {1, 2}, lines : SUBSET Lines]]
      /\ looked \in 0..MaxFrames /\ pictures \in Seq(1..MaxFrames) /\ images \subseteq 1..MaxFrames
      /\ LooksFollow /\ StagesEnd /\ TextTyped
  BY TextMeans
<1>3. t \in 1..MaxFrames /\ looked \in Nat /\ t \in Nat /\ Len(pictures) \in Nat
  BY <1>1, <1>2, <1>10, TextAssumption
<1>11. \A k \in DOMAIN pictures : pictures[k] \in 1..MaxFrames
  BY <1>2, PicturesAreTyped
<1>4. screen[t].look \in {1, 2} /\ look' = screen[t].look /\ pictures' \in Seq(1..MaxFrames)
  <2>1. screen[t] \in [look : {1, 2}, lines : SUBSET Lines]
    BY <1>2, <1>3
  <2>2. screen[t].look \in {1, 2}
    BY <2>1
  <2>3. Append(pictures, t) \in Seq(1..MaxFrames)
    BY <1>2, <1>3
  <2> QED BY <1>1, <1>2, <2>2, <2>3
<1>5. TextTyped'
  <2>1. look' \in {0, 1, 2} /\ looked' \in 0..MaxFrames
    BY <1>1, <1>3, <1>4, TextAssumption
  <2> QED BY <1>1, <1>2, <1>4, <2>1 DEF TextTyped
<1>6. LooksFollow'
  BY <1>1, <1>3, <1>4, <1>10 DEF LooksFollow
<1>7. StagesEnd'
  BY <1>1, <1>2 DEF StagesEnd
<1>8. Looked \subseteq Looked'
  <2>1. CASE pictures' = pictures
    BY <1>1, <2>1 DEF Looked
  <2>2. CASE pictures' = Append(pictures, t)
    <3>1. \A k \in DOMAIN pictures : k \in DOMAIN pictures' /\ pictures'[k] = pictures[k]
      BY <1>2, <1>3, <2>2
    <3> QED BY <1>1, <3>1 DEF Looked
  <2> QED BY <1>1, <2>1, <2>2
<1>9. ASSUME LooksKept PROVE LooksKept'
  <2>1. \A i, u : Resembles(i, u) => Resembles(i, u)'
    BY <1>1 DEF Resembles
  <2>2. \E i \in Looked' : Resembles(i, t)'
    <3>1. CASE screen[t].look = look
      <4>1. looked \in 1..looked /\ screen[looked].look = screen[t].look
        BY <1>2, <1>3, <1>4, <1>10, <3>1 DEF LooksFollow
      <4>2. PICK i \in Looked : Resembles(i, looked)
        BY <1>9, <4>1 DEF LooksKept
      <4>3. i \in 1..MaxFrames
        BY <1>2, <1>11, <4>2 DEF Looked
      <4>4. Resembles(i, t)
        <5>1. i <= t
          BY <1>3, <1>10, <4>2, <4>3 DEF Resembles
        <5>2. ASSUME NEW u \in i..t PROVE screen[u].look = screen[t].look
          <6>1. u \in i..looked \/ u = t
            BY <1>3, <1>10, <4>3
          <6> QED BY <4>1, <4>2, <6>1 DEF Resembles
        <5> QED BY <5>1, <5>2 DEF Resembles
      <4> QED BY <1>8, <2>1, <4>2, <4>4
    <3>2. CASE pictures' = Append(pictures, t)
      <4>1. Len(pictures) + 1 \in DOMAIN pictures' /\ pictures'[Len(pictures) + 1] = t
        BY <1>2, <1>3, <3>2
      <4>2. t \in Looked'
        BY <4>1 DEF Looked
      <4>3. Resembles(t, t)'
        <5>1. \A u \in t..t : u = t
          BY <1>3
        <5> QED BY <1>1, <1>3, <5>1 DEF Resembles
      <4> QED BY <4>2, <4>3
    <3> QED BY <1>1, <3>1, <3>2
  <2>3. ASSUME NEW u \in 1..looked PROVE \E i \in Looked' : Resembles(i, u)'
    BY <1>8, <1>9, <2>1 DEF LooksKept
  <2>4. \A u \in 1..t : u \in 1..looked \/ u = t
    BY <1>3, <1>10
  <2> QED BY <1>1, <2>2, <2>3, <2>4 DEF LooksKept
<1> QED BY <1>1, <1>5, <1>6, <1>7, <1>9, OcrStands, TextStands DEF TextInv

LEMMA ImageFlushing == ASSUME TextInv, T!ImageFlushes PROVE TextInv'
<1>1. /\ UNCHANGED <<screen, gate, onScreen, reading, seen, textRows>>
      /\ UNCHANGED <<waiting, taken, textVectors>>
      /\ UNCHANGED <<look, looked, state>> /\ pictures # <<>> /\ pictures' = <<>>
      /\ state["image"] = "runs"
      /\ \/ images' = images \cup {pictures[i] : i \in DOMAIN pictures} /\ UNCHANGED textMissed
         \/ T!Missed("image", Len(pictures)) /\ UNCHANGED images
  BY DEF T!ImageFlushes, T!ImageFlushDue, T!Others, T!OcrVars, T!TextVars
<1>2. /\ pictures \in Seq(1..MaxFrames) /\ images \subseteq 1..MaxFrames
      /\ LooksFollow /\ StagesEnd /\ TextTyped
  BY TextMeans
<1>3. Len(pictures) \in Nat /\ Len(pictures) > 0
  BY <1>1, <1>2
<1>4. LooksFollow' /\ StagesEnd'
  BY <1>1, <1>2 DEF LooksFollow, StagesEnd
<1>5. CASE T!Missed("image", Len(pictures)) /\ UNCHANGED images
  <2>1. /\ textMissed' \in [{"ocr", "text", "image"} -> Nat] /\ textMissed'["image"] # 0
        /\ textMissed'["ocr"] = textMissed["ocr"] /\ textMissed'["text"] = textMissed["text"]
    BY <1>2, <1>3, <1>5, Misses
  <2>2. TextTyped'
    BY <1>1, <1>2, <1>5, <2>1 DEF TextTyped
  <2> QED BY <1>1, <1>4, <2>1, <2>2, OcrStands, TextStands DEF TextInv
<1>6. CASE images' = images \cup {pictures[i] : i \in DOMAIN pictures} /\ UNCHANGED textMissed
  <2>5. \A k \in DOMAIN pictures : pictures[k] \in 1..MaxFrames
    BY <1>2, PicturesAreTyped
  <2>1. images' \subseteq 1..MaxFrames
    BY <1>2, <1>6, <2>5
  <2>2. TextTyped'
    BY <1>1, <1>2, <1>6, <2>1 DEF TextTyped
  <2>3. Looked' = Looked
    BY <1>1, <1>6 DEF Looked
  <2>4. LooksKept => LooksKept'
    BY <1>1, <2>3 DEF LooksKept, Resembles
  <2> QED BY <1>1, <1>4, <1>6, <2>2, <2>4, OcrStands, TextStands DEF TextInv
<1> QED BY <1>1, <1>5, <1>6

LEMMA TextStarts == ASSUME T!Init PROVE TextInv
<1>1. /\ screen \in [1..MaxFrames -> [look : {1, 2}, lines : SUBSET Lines]]
      /\ gate = [frame |-> 0, look |-> 0] /\ onScreen = {} /\ reading = 0 /\ seen = 0 /\ textRows = <<>>
      /\ waiting = <<>> /\ taken = 0 /\ textVectors = {}
      /\ look = 0 /\ pictures = <<>> /\ looked = 0 /\ images = {}
      /\ textMissed = [s \in {"ocr", "text", "image"} |-> 0]
      /\ state = [s \in {"ocr", "text", "image"} |-> "runs"]
  BY DEF T!Init, T!NoGate, T!None, T!Stages
<1>2. gate \in [frame : 0..MaxFrames, look : {0, 1, 2}] /\ gate.frame = 0 /\ gate = T!NoGate
  BY <1>1, TextAssumption DEF T!NoGate, T!None
<1>3. Len(textRows) = 0 /\ Len(waiting) = 0
  BY <1>1
<1>4. TextTyped
  BY <1>1, <1>2, <1>3, TextAssumption DEF TextTyped
<1>5. GateFollows /\ LinesWait /\ LooksFollow /\ StagesEnd
  BY <1>1, <1>2, <1>3 DEF GateFollows, LinesWait, LooksFollow, StagesEnd
<1>6. FramesAreRead
  BY <1>1, <1>2 DEF FramesAreRead
<1>7. LinesEmbedded
  BY <1>1, <1>3 DEF LinesEmbedded
<1>8. LooksKept
  BY <1>1 DEF LooksKept
<1> QED BY <1>4, <1>5, <1>6, <1>7, <1>8 DEF TextInv

LEMMA TextIsKept == ASSUME TextInv, [T!Next]_textVars PROVE TextInv'
<1>1. CASE T!Next
  BY <1>1, BudgetCloses, TextStageFails, TextStageFinishes, OcrTaking, OcrReading, OcrCallFailing,
     TextTaking, TextFlushing, ImageTaking, ImageFlushing DEF T!Next
<1>2. CASE UNCHANGED textVars
  <2>1. UNCHANGED <<screen, gate, onScreen, reading, seen, textRows>>
        /\ UNCHANGED <<waiting, taken, textVectors>>
        /\ UNCHANGED <<look, pictures, looked, images>> /\ UNCHANGED <<textMissed, state>>
    BY <1>2 DEF textVars
  <2>2. TextTyped' /\ StagesEnd'
    BY <2>1 DEF TextInv, TextTyped, StagesEnd
  <2> QED BY <2>1, <2>2, OcrStands, TextStands, ImageStands DEF TextInv
<1> QED BY <1>1, <1>2

LEMMA TextMiss == ASSUME TextInv PROVE T!CleanStagesMissNothing
<1>1. /\ screen \in [1..MaxFrames -> [look : {1, 2}, lines : SUBSET Lines]] /\ StagesEnd
      /\ GateFollows /\ seen \in 0..MaxFrames
      /\ Len(screen) = MaxFrames
  BY TextMeans, TextAssumption
<1>2. ASSUME T!Clean("ocr"), NEW l \in Lines, NEW from \in 1..Len(screen),
             NEW to \in (from + MaxGap)..Len(screen), \A t \in from..to : l \in screen[t].lines
      PROVE  \E i \in DOMAIN textRows : textRows[i].line = l /\ textRows[i].frame <= to
  <2>1. FramesAreRead /\ seen = MaxFrames /\ reading = 0
    BY <1>1, <1>2 DEF T!Clean, TextInv, StagesEnd
  <2>2. from \in 1..MaxFrames /\ to \in Nat /\ from \in Nat /\ from + MaxGap <= to /\ to <= MaxFrames
    BY <1>1, <1>2, TextAssumption
  <2>7. from \in 1..seen /\ from + MaxGap <= seen
    BY <2>1, <2>2, TextAssumption
  <2>3. PICK t \in from..(from + MaxGap) : ReadAt(t) \/ t = 0
    BY <2>1, <2>7 DEF FramesAreRead
  <2>4. t \in from..to /\ t # 0 /\ t <= to /\ t \in Nat
    BY <2>2, <2>3, TextAssumption
  <2>5. PICK i \in DOMAIN textRows : textRows[i].line = l /\ textRows[i].frame <= t
    BY <1>2, <2>3, <2>4 DEF ReadAt, Shown
  <2>6. textRows[i].frame \in Nat
    BY <2>5, RowsAreTyped, TextAssumption
  <2> QED BY <2>2, <2>4, <2>5, <2>6
<1>3. ASSUME T!Clean("text") PROVE textVectors = {<<i, i>> : i \in DOMAIN textRows}
  <2>1. LinesEmbedded /\ taken = Len(textRows) /\ waiting = <<>>
    BY <1>1, <1>3 DEF T!Clean, TextInv, StagesEnd
  <2>2. Len(waiting) = 0 /\ DOMAIN textRows = 1..Len(textRows) /\ Len(textRows) \in Nat
    BY <2>1, TextMeans
  <2>3. taken - Len(waiting) = Len(textRows)
    BY <2>1, <2>2
  <2> QED BY <2>1, <2>2, <2>3 DEF LinesEmbedded
<1>4. ASSUME T!Clean("image"), NEW t \in 1..Len(screen)
      PROVE  \E i \in images : i <= t /\ \A u \in i..t : screen[u].look = screen[t].look
  <2>1. LooksKept /\ looked = MaxFrames /\ pictures = <<>>
    BY <1>1, <1>4 DEF T!Clean, TextInv, StagesEnd
  <2>2. Looked = images
    BY <2>1 DEF Looked
  <2> QED BY <1>1, <1>4, <2>1, <2>2 DEF LooksKept, Resembles
<1> QED BY <1>2, <1>3, <1>4 DEF T!CleanStagesMissNothing

LEMMA TextStep == ASSUME [Next]_vars PROVE [T!Next]_textVars
BY DEF Next, vars, textVars, LevelsSteps, FramesSteps, TextSteps, SpeechSteps, LinesSteps,
       SegmentsSteps, PlanSteps

(* Whatever is on the screen, however answers are ordered, and whenever    *)
(* the budget closes: a stage that ends with no call missed has read what  *)
(* stays on the screen for MaxGap, has embedded each line as itself, and   *)
(* has embedded a frame like each frame.                                   *)
THEOREM CleanStagesAreComplete == Spec => []CleanStagesMissNothing
<1>1. Init => TextInv
  BY TextStarts DEF Init
<1>2. TextInv /\ [Next]_vars => TextInv'
  BY TextIsKept, TextStep
<1>3. TextInv => CleanStagesMissNothing
  BY TextMiss DEF CleanStagesMissNothing
<1> QED BY <1>1, <1>2, <1>3, PTL DEF Spec

-----------------------------------------------------------------------------
(* `CustomOperators`.  What a job runs are the declarations of the names   *)
(* its policy resolved to.  While they are sorted, `indeg` counts the      *)
(* producers not yet placed, and `ready` holds the operators whose         *)
(* producers all are; so the sort gets stuck only where no order is.       *)
OrderSet == {order[a] : a \in DOMAIN order}
ReadySet == {ready[k] : k \in DOMAIN ready}
OneToOne(s) == \A a, b \in DOMAIN s : s[a] = s[b] => a = b
Sorting ==
  /\ order \in Seq(P!Ops) /\ OneToOne(order)
  /\ ready \in Seq(P!Ops) /\ OneToOne(ready)
  /\ ReadySet = {j \in P!Ops : j \notin OrderSet /\ P!Deps(j) \subseteq OrderSet}
  /\ indeg = [j \in P!Ops |-> Cardinality(P!Deps(j) \ OrderSet)]
  /\ \A b \in DOMAIN order : \A i \in P!Deps(order[b]) : \E a \in DOMAIN order : a < b /\ order[a] = i
Accepted ==
  P!IsInjective([i \in P!Ops |-> ops[i].id]) /\ \A i \in P!Ops : P!Fed(i)
Named == policy = P!Auto \/ \E n \in Nat : policy \in [1..n -> P!NamesInUse]
Resolved ==
  P!Plannable(P!Chosen) /\ ops = [i \in DOMAIN P!Chosen |-> P!Declaration(P!Chosen[i])]
CallRow == [n : Nat, kind : P!RowKinds]
RowsFlow ==
  /\ custom \in P!Ops /\ got = [j \in P!Ops |-> got[j]]
  /\ planRows \in Seq(CallRow)
  /\ planPhase \in {"store", "emit"} =>
       declared /\ \A i \in DOMAIN planRows : planRows[i].kind \in ops[custom].gives
  /\ planPhase = "emit" => \A i \in DOMAIN planRows : planRows[i] \in planStored
  /\ sent \subseteq planStored /\ (planStored # {} => declared)
  /\ \A r \in sent, j \in P!Ops : r.kind \in ops[j].takes => r \in got[j]
PlanInv ==
  /\ Named /\ calls \in Nat /\ planPhase \in {"plan", "sort", "run", "store", "emit", "ended", "refused"}
  /\ ops = <<>> \/ Resolved
  /\ planPhase \in {"plan", "sort"} => planStored = {} /\ sent = {} /\ planRows = <<>>
  /\ planPhase = "plan" => order = <<>>
  /\ planPhase = "sort" => ops # <<>> /\ Accepted /\ Sorting
  /\ planPhase = "refused" => ~P!Sound /\ policy # P!Auto
  /\ planPhase \in {"run", "store", "emit"} => ops # <<>> /\ P!Sound /\ P!Orderly(order) /\ RowsFlow

LEMMA NamesOfBuiltIn == DOMAIN BuiltIn = {"sample", "asr", "shot_boundary", "scenes", "vlm_describe"}
BY DEF BuiltIn

LEMMA NamesOutside == DOMAIN Outside = {"mine", "loop", "back", "again", "scenes"}
BY DEF Outside

(* No operator gives the media. *)
LEMMA MediaIsNotGiven ==
  ASSUME NEW name, P!Known(name) PROVE "media" \notin P!Declaration(name).gives
<1>1. CASE name \in DOMAIN Outside
  <2>1. P!Declaration(name) = Outside[name]
    BY <1>1 DEF P!Declaration
  <2>2. \A n \in {"mine", "loop", "back", "again", "scenes"} : "media" \notin Outside[n].gives
    BY DEF Outside, Decl
  <2> QED BY <1>1, <2>1, <2>2, NamesOutside
<1>2. CASE name \notin DOMAIN Outside
  <2>1. P!Declaration(name) = BuiltIn[name] /\ name \in DOMAIN BuiltIn
    BY <1>2 DEF P!Declaration, P!Known
  <2>2. \A n \in {"sample", "asr", "shot_boundary", "scenes", "vlm_describe"} :
          "media" \notin BuiltIn[n].gives
    BY DEF BuiltIn, Decl
  <2> QED BY <2>1, <2>2, NamesOfBuiltIn
<1> QED BY <1>1, <1>2

LEMMA DefaultDeclared ==
  /\ P!Declaration("sample") = Decl("sample", {"media"}, {}, {"frame"}, {})
  /\ P!Declaration("asr") = Decl("asr", {"media"}, {}, {"transcript_span"}, {"asr"})
  /\ P!Declaration("shot_boundary") = Decl("shot_boundary", {"frame", "tick"}, {"tick"}, {"shot"}, {})
  /\ P!Known("sample") /\ P!Known("asr") /\ P!Known("shot_boundary")
<1>1. "sample" \notin DOMAIN Outside /\ "asr" \notin DOMAIN Outside /\ "shot_boundary" \notin DOMAIN Outside
  BY NamesOutside
<1>2. P!Known("sample") /\ P!Known("asr") /\ P!Known("shot_boundary")
  BY NamesOfBuiltIn DEF P!Known
<1>3. P!Declaration("sample") = BuiltIn["sample"] /\ P!Declaration("asr") = BuiltIn["asr"]
      /\ P!Declaration("shot_boundary") = BuiltIn["shot_boundary"]
  BY <1>1 DEF P!Declaration
<1> QED BY <1>2, <1>3 DEF BuiltIn

(* What is resolved is a row of known declarations. *)
LEMMA OpsAreNamed ==
  ASSUME Named, Resolved
  PROVE  /\ \E n \in Nat \ {0} : P!Ops = 1..n /\ Len(ops) = n
         /\ \A i \in P!Ops : "media" \notin ops[i].gives
<1>1. \E n \in Nat : DOMAIN P!Chosen = 1..n
  <2>1. CASE policy = P!Auto
    <3>1. P!Chosen = Full \/ P!Chosen = Local
      BY <2>1 DEF P!Chosen, P!DefaultPolicy
    <3>2. DOMAIN Full = 1..3 /\ DOMAIN Local = 1..1
      BY DEF Full, Local
    <3> QED BY <3>1, <3>2
  <2>2. CASE policy # P!Auto
    BY <2>2 DEF Named, P!Chosen
  <2> QED BY <2>1, <2>2
<1>2. PICK n \in Nat : DOMAIN P!Chosen = 1..n
  BY <1>1
<1>3. DOMAIN ops = 1..n /\ P!Ops = 1..n
  BY <1>2 DEF Resolved, P!Ops
<1>4. ops \in Seq({ops[i] : i \in 1..n}) /\ Len(ops) = n
  BY <1>3 DEF Resolved
<1>5. n # 0
  <2>1. P!Chosen # <<>>
    BY DEF Resolved, P!Plannable
  <2>2. n = 0 => P!Chosen = <<>>
    <3>1. ASSUME n = 0 PROVE P!Chosen = <<>>
      <4>1. CASE policy = P!Auto
        <5>1. DOMAIN Full = 1..3 /\ DOMAIN Local = 1..1
          BY DEF Full, Local
        <5> QED BY <1>2, <3>1, <4>1, <5>1 DEF P!Chosen, P!DefaultPolicy
      <4>2. CASE policy # P!Auto
        <5>1. PICK m \in Nat : policy \in [1..m -> P!NamesInUse]
          BY <4>2 DEF Named
        <5>2. DOMAIN policy = {}
          BY <1>2, <3>1, <4>2, SMTT(40) DEF P!Chosen
        <5>3. policy = <<>>
          BY <5>1, <5>2
        <5> QED BY <4>2, <5>3 DEF P!Chosen
      <4> QED BY <4>1, <4>2
    <3> QED BY <3>1
  <2> QED BY <2>1, <2>2
<1>6. ASSUME NEW i \in P!Ops PROVE "media" \notin ops[i].gives
  <2>1. i \in DOMAIN P!Chosen /\ ops[i] = P!Declaration(P!Chosen[i])
    BY <1>2, <1>3, <1>6 DEF Resolved
  <2>2. P!Known(P!Chosen[i])
    BY <2>1 DEF Resolved, P!Plannable
  <2> QED BY <2>1, <2>2, MediaIsNotGiven
<1> QED BY <1>3, <1>4, <1>5, <1>6

LEMMA AutoIsPlannable == ASSUME policy = P!Auto PROVE P!Plannable(P!Chosen)
<1>1. P!Chosen = P!DefaultPolicy
  BY DEF P!Chosen
<1>2. CASE \A i \in DOMAIN Full : RolesFor[Full[i]] \subseteq bound
  <2>1. P!Chosen = Full
    BY <1>1, <1>2 DEF P!DefaultPolicy
  <2>2. DOMAIN Full = {1, 2, 3} /\ Full[1] = "asr" /\ Full[2] = "sample" /\ Full[3] = "shot_boundary"
        /\ Full # <<>>
    BY DEF Full
  <2>3. {"asr"} \subseteq bound
    <3>1. RolesFor["asr"] = {"asr"}
      BY NamesOfBuiltIn DEF RolesFor
    <3> QED BY <1>2, <2>2, <3>1
  <2>4. P!Valid(Full)
    <3>1. "vlm_describe" \notin P!Range(Full)
      BY <2>2 DEF P!Range
    <3> QED BY <3>1 DEF P!Valid
  <2>5. ASSUME NEW i \in DOMAIN Full
        PROVE  P!Known(Full[i]) /\ P!Declaration(Full[i]).roles \subseteq bound
    BY <2>2, <2>3, <2>5, DefaultDeclared DEF Decl
  <2> QED BY <2>1, <2>2, <2>4, <2>5 DEF P!Plannable
<1>3. CASE ~(\A i \in DOMAIN Full : RolesFor[Full[i]] \subseteq bound)
  <2>1. P!Chosen = Local
    BY <1>1, <1>3 DEF P!DefaultPolicy
  <2>2. DOMAIN Local = {1} /\ Local[1] = "sample" /\ Local # <<>>
    BY DEF Local
  <2>4. P!Valid(Local)
    <3>1. "vlm_describe" \notin P!Range(Local)
      BY <2>2 DEF P!Range
    <3> QED BY <3>1 DEF P!Valid
  <2>5. ASSUME NEW i \in DOMAIN Local
        PROVE  P!Known(Local[i]) /\ P!Declaration(Local[i]).roles \subseteq bound
    BY <2>2, <2>5, DefaultDeclared DEF Decl
  <2> QED BY <2>1, <2>2, <2>4, <2>5 DEF P!Plannable
<1> QED BY <1>2, <1>3

(* The policies nobody has to name are sound. *)
LEMMA AutoIsSound == ASSUME policy = P!Auto, Resolved PROVE P!Sound
<1>1. P!Chosen = Full \/ P!Chosen = Local
  BY DEF P!Chosen, P!DefaultPolicy
<1>2. CASE P!Chosen = Local
  <2>1. DOMAIN Local = {1} /\ Local[1] = "sample"
    BY DEF Local
  <2>2. P!Ops = {1} /\ ops[1] = Decl("sample", {"media"}, {}, {"frame"}, {})
    BY <1>2, <2>1, DefaultDeclared DEF Resolved, P!Ops
  <2>3. ops[1].takes = {"media"} /\ ops[1].gives = {"frame"}
    BY <2>2 DEF Decl
  <2>4. P!IsInjective([i \in P!Ops |-> ops[i].id]) /\ ops # <<>>
    BY <2>2 DEF P!IsInjective, P!Ops
  <2>5. \E o \in [P!Ops -> P!Ops] : P!IsInjective(o) /\ P!Orderly(o)
    <3>1. [i \in {1} |-> 1] \in [P!Ops -> P!Ops] /\ P!IsInjective([i \in {1} |-> 1])
      BY <2>2 DEF P!IsInjective
    <3>2. P!Orderly([i \in {1} |-> 1])
      BY <2>3 DEF P!Orderly, P!Gives
    <3> QED BY <3>1, <3>2
  <2>6. \A i \in P!Ops : ops[i].takes = {"media"}
    BY <2>2, <2>3
  <2> QED BY <2>4, <2>5, <2>6 DEF P!Sound
<1>3. CASE P!Chosen = Full
  <2>1. DOMAIN Full = {1, 2, 3} /\ Full[1] = "asr" /\ Full[2] = "sample" /\ Full[3] = "shot_boundary"
    BY DEF Full
  <2>2. /\ P!Ops = {1, 2, 3}
        /\ ops[1] = Decl("asr", {"media"}, {}, {"transcript_span"}, {"asr"})
        /\ ops[2] = Decl("sample", {"media"}, {}, {"frame"}, {})
        /\ ops[3] = Decl("shot_boundary", {"frame", "tick"}, {"tick"}, {"shot"}, {})
    BY <1>3, <2>1, DefaultDeclared DEF Resolved, P!Ops
  <2>3. /\ ops[1].takes = {"media"} /\ ops[1].gives = {"transcript_span"} /\ ops[1].id = "asr"
        /\ ops[2].takes = {"media"} /\ ops[2].gives = {"frame"} /\ ops[2].id = "sample"
        /\ ops[3].takes = {"frame", "tick"} /\ ops[3].optional = {"tick"} /\ ops[3].gives = {"shot"}
        /\ ops[3].id = "shot_boundary"
    BY <2>2 DEF Decl
  <2>4. P!IsInjective([i \in P!Ops |-> ops[i].id]) /\ ops # <<>>
    BY <2>2, <2>3 DEF P!IsInjective, P!Ops
  <2>5. \E o \in [P!Ops -> P!Ops] : P!IsInjective(o) /\ P!Orderly(o)
    <3> DEFINE o == [i \in {1, 2, 3} |-> i]
    <3>1. o \in [P!Ops -> P!Ops] /\ P!IsInjective(o)
      BY <2>2 DEF P!IsInjective
    <3>2. ASSUME NEW a \in {1, 2, 3}, NEW b \in {1, 2, 3}, P!Gives(a, b) PROVE a < b
      <4>1. PICK k \in ops[a].gives : k \in ops[b].takes
        BY <3>2 DEF P!Gives
      <4> QED BY <2>3, <4>1
    <3>3. P!Orderly(o)
      BY <3>2 DEF P!Orderly
    <3> QED BY <3>1, <3>3
  <2>6. ASSUME NEW i \in P!Ops
        PROVE /\ ops[i].takes \cap ({"media"} \cup UNION {ops[j].gives : j \in P!Ops}) # {}
              /\ ops[i].takes \subseteq {"media"} \cup ops[i].optional \cup UNION {ops[j].gives : j \in P!Ops}
    <3>1. "frame" \in UNION {ops[j].gives : j \in P!Ops}
      BY <2>2, <2>3
    <3> QED BY <2>2, <2>3, <2>6, <3>1
  <2> QED BY <2>4, <2>5, <2>6 DEF P!Sound
<1> QED BY <1>1, <1>2, <1>3

(* What gives something is given by; but for the media.                    *)
LEMMA DepsGive ==
  ASSUME \A i \in P!Ops : "media" \notin ops[i].gives, NEW i \in P!Ops, NEW j \in P!Ops
  PROVE  i \in P!Deps(j) <=> P!Gives(i, j)
<1>1. i \in P!Deps(j) <=> \E k \in ops[j].takes \ {"media"} : k \in ops[i].gives
  BY DEF P!Deps, P!Producers
<1> QED BY <1>1 DEF P!Gives

LEMMA SoundIsAccepted == ASSUME P!Sound PROVE Accepted
<1>1. ASSUME NEW i \in P!Ops PROVE P!Fed(i)
  <2>1. ASSUME NEW k \in ops[i].takes \ ({"media"} \cup ops[i].optional) PROVE P!Producers(k) # {}
    <3>1. k \in UNION {ops[j].gives : j \in P!Ops}
      BY <1>1, <2>1 DEF P!Sound
    <3>2. PICK j \in P!Ops : k \in ops[j].gives
      BY <3>1
    <3> QED BY <3>2 DEF P!Producers
  <2>2. P!IsRoot(i) \/ P!Deps(i) # {}
    <3>1. PICK k \in ops[i].takes : k = "media" \/ k \in UNION {ops[j].gives : j \in P!Ops}
      BY <1>1 DEF P!Sound
    <3>2. CASE k = "media"
      BY <3>1, <3>2 DEF P!IsRoot
    <3>3. CASE k # "media"
      <4>1. PICK j \in P!Ops : k \in ops[j].gives
        BY <3>1, <3>3
      <4>2. j \in P!Deps(i)
        BY <3>1, <3>3, <4>1 DEF P!Deps, P!Producers
      <4> QED BY <4>2
    <3> QED BY <3>2, <3>3
  <2> QED BY <2>1, <2>2 DEF P!Fed
<1>2. P!IsInjective([i \in P!Ops |-> ops[i].id])
  BY DEF P!Sound
<1> QED BY <1>1, <1>2 DEF Accepted

LEMMA AcceptedIsSound ==
  ASSUME Accepted, ops # <<>>, NEW o \in [P!Ops -> P!Ops], P!IsInjective(o), P!Orderly(o)
  PROVE  P!Sound
<1>1. ASSUME NEW i \in P!Ops
      PROVE /\ ops[i].takes \cap ({"media"} \cup UNION {ops[j].gives : j \in P!Ops}) # {}
            /\ ops[i].takes \subseteq {"media"} \cup ops[i].optional \cup UNION {ops[j].gives : j \in P!Ops}
  <2>1. P!Fed(i)
    BY <1>1 DEF Accepted
  <2>2. ASSUME NEW k \in ops[i].takes, k \notin {"media"} \cup ops[i].optional
        PROVE  k \in UNION {ops[j].gives : j \in P!Ops}
    <3>1. PICK j : j \in P!Producers(k)
      BY <2>1, <2>2 DEF P!Fed
    <3> QED BY <3>1 DEF P!Producers
  <2>3. ops[i].takes \cap ({"media"} \cup UNION {ops[j].gives : j \in P!Ops}) # {}
    <3>1. CASE P!IsRoot(i)
      BY <3>1 DEF P!IsRoot
    <3>2. CASE P!Deps(i) # {}
      <4>1. PICK j \in P!Ops, k \in ops[i].takes : k \in ops[j].gives
        BY <3>2 DEF P!Deps, P!Producers
      <4> QED BY <4>1
    <3> QED BY <2>1, <3>1, <3>2 DEF P!Fed
  <2> QED BY <2>2, <2>3
<1>2. P!IsInjective([i \in P!Ops |-> ops[i].id])
  BY DEF Accepted
<1>3. \E o1 \in [P!Ops -> P!Ops] : P!IsInjective(o1) /\ P!Orderly(o1)
  OBVIOUS
<1> QED BY <1>1, <1>2, <1>3 DEF P!Sound

(* A set of positions has an enumeration in policy order.                  *)
LEMMA Enumerated ==
  ASSUME NEW n \in Nat, NEW Part \in SUBSET (1..n)
  PROVE  /\ Cardinality(Part) \in Nat
         /\ P!InPolicyOrder(Part) \in [1..Cardinality(Part) -> Part]
         /\ OneToOne(P!InPolicyOrder(Part))
         /\ \A x \in Part : \E i \in 1..Cardinality(Part) : P!InPolicyOrder(Part)[i] = x
<1> DEFINE Rising(s) == \A i, j \in DOMAIN s : i < j => s[i] < s[j]
           Listed(X) == \E s \in [1..Cardinality(X) -> X] : Rising(s)
           Short == {m \in Nat : \E X \in SUBSET (1..n) : Cardinality(X) = m /\ ~Listed(X)}
<1>1. IsFiniteSet(1..n) /\ \A X \in SUBSET (1..n) : IsFiniteSet(X) /\ Cardinality(X) \in Nat
  <2>1. IsFiniteSet(1..n)
    BY FS_Interval
  <2>2. \A X \in SUBSET (1..n) : IsFiniteSet(X)
    BY <2>1, FS_Subset
  <2> QED BY <2>1, <2>2, FS_CardinalityType
<1>2. ASSUME NEW X \in SUBSET (1..n), ~Listed(X) PROVE FALSE
  <2> HIDE DEF Listed
  <2>1. Short \in SUBSET Nat /\ Short # {}
    BY <1>1, <1>2
  <2>2. PICK m \in Short : \A o \in Short : m <= o
    BY <2>1, LeastNat
  <2>3. PICK Y \in SUBSET (1..n) : Cardinality(Y) = m /\ ~Listed(Y)
    BY <2>2
  <2>4. m \in Nat /\ IsFiniteSet(Y)
    BY <1>1, <2>2
  <2>5. Y # {}
    <3>1. ASSUME Y = {} PROVE Listed(Y)
      <4>1. Cardinality(Y) = 0
        BY <3>1, FS_EmptySet
      <4>2. 1..Cardinality(Y) = {}
        BY <4>1
      <4>3. [i \in {} |-> 0] \in [1..Cardinality(Y) -> Y] /\ Rising([i \in {} |-> 0])
        BY <4>2
      <4> HIDE DEF Rising
      <4> QED BY <4>3 DEF Listed
    <3> QED BY <2>3, <3>1
  <2>6. PICK x \in Y : \A y \in Y : y <= x
    <3> DEFINE Gaps == {n - y : y \in Y}
    <3>0. \A y \in Y : n - y \in Nat
      <4>1. \A y \in 1..n : n - y \in Nat
        OBVIOUS
      <4> QED BY <4>1
    <3>1. Gaps \in SUBSET Nat /\ Gaps # {}
      <4>1. PICK y \in Y : TRUE
        BY <2>5
      <4>2. n - y \in Gaps
        OBVIOUS
      <4> QED BY <3>0, <4>2
    <3>2. PICK g \in Gaps : \A h \in Gaps : g <= h
      BY <3>1, LeastNat
    <3>3. PICK x \in Y : g = n - x
      BY <3>2
    <3>4. ASSUME NEW y \in Y PROVE y <= x
      <4>1. n - y \in Gaps
        OBVIOUS
      <4>2. n - x <= n - y
        BY <3>2, <3>3, <4>1
      <4>3. x \in Int /\ y \in Int
        BY <3>3, <3>4
      <4> QED BY <4>2, <4>3
    <3> QED BY <3>4
  <2> DEFINE Z == Y \ {x}
  <2>7. Z \in SUBSET (1..n) /\ Cardinality(Z) = m - 1 /\ m > 0 /\ Cardinality(Z) \in Nat
    <3>1. Z \in SUBSET (1..n)
      OBVIOUS
    <3>2. Cardinality(Z) = m - 1
      BY <2>3, <2>4, <2>6, FS_RemoveElement
    <3>3. Cardinality(Z) \in Nat
      BY <1>1, <3>1
    <3> QED BY <2>4, <3>1, <3>2, <3>3
  <2>8. Listed(Z)
    <3>1. m - 1 \notin Short
      BY <2>2, <2>4, <2>7
    <3> HIDE DEF Z
    <3> QED BY <2>4, <2>7, <3>1
  <2> HIDE DEF Z
  <2>9. PICK s \in [1..(m - 1) -> Z] : Rising(s)
    BY <2>7, <2>8 DEF Listed
  <2> DEFINE t == [i \in 1..m |-> IF i < m THEN s[i] ELSE x]
  <2>10. t \in [1..m -> Y] /\ Rising(t)
    <3>1. \A i \in 1..m : i < m => i \in 1..(m - 1)
      BY <2>4, <2>7
    <3>2. \A i \in 1..(m - 1) : s[i] \in Y /\ s[i] # x /\ s[i] \in Int /\ s[i] <= x
      <4>1. \A i \in 1..(m - 1) : s[i] \in Z
        BY <2>9
      <4>2. \A z \in Z : z \in Y /\ z # x
        BY DEF Z
      <4>3. \A z \in Y : z \in Int
        OBVIOUS
      <4> QED BY <2>6, <4>1, <4>2, <4>3
    <3>3. x \in Int
      BY <2>6
    <3>4. t \in [1..m -> Y]
      BY <2>6, <3>1, <3>2
    <3>5. ASSUME NEW i \in 1..m, NEW j \in 1..m, i < j PROVE t[i] < t[j]
      <4>1. i < m /\ t[i] = s[i] /\ i \in 1..(m - 1)
        BY <2>4, <3>1, <3>5
      <4>2. CASE j < m
        <5>1. j \in 1..(m - 1) /\ t[j] = s[j]
          BY <3>1, <4>2
        <5> QED BY <2>9, <3>5, <4>1, <5>1
      <4>3. CASE ~(j < m)
        <5>1. t[j] = x
          BY <4>3
        <5> QED BY <3>2, <3>3, <4>1, <5>1
      <4> QED BY <4>2, <4>3
    <3> QED BY <3>4, <3>5
  <2> HIDE DEF t, Rising
  <2>11. Listed(Y)
    BY <2>3, <2>10 DEF Listed
  <2> QED BY <2>3, <2>11
<1> DEFINE list == P!InPolicyOrder(Part)
<1>3. Cardinality(Part) \in Nat /\ P!Cardinality(Part) = Cardinality(Part) /\ IsFiniteSet(Part)
  BY <1>1, SameCount
<1>4. list \in [1..Cardinality(Part) -> Part] /\ Rising(list)
  <2>1. \E s \in [1..Cardinality(Part) -> Part] : \A i, j \in DOMAIN s : i < j => s[i] < s[j]
    BY <1>2
  <2> QED BY <1>3, <2>1 DEF P!InPolicyOrder
<1> HIDE DEF list
<1>5. ASSUME NEW i \in 1..Cardinality(Part), NEW j \in 1..Cardinality(Part), list[i] = list[j]
      PROVE  i = j
  <2>0. list[i] \in Part /\ list[j] \in Part
    BY <1>4
  <2>1. list[i] \in Int /\ list[j] \in Int
    <3>1. \A z \in Part : z \in Int
      OBVIOUS
    <3> QED BY <2>0, <3>1
  <2>2. ~(i < j) /\ ~(j < i)
    BY <1>4, <1>5, <2>1
  <2> QED BY <1>3, <2>2
<1>6. list \in Injection(1..Cardinality(Part), Part)
  BY <1>4, <1>5 DEF Injection, IsInjective
<1>7. list \in Surjection(1..Cardinality(Part), Part)
  <2>1. IsFiniteSet(1..Cardinality(Part)) /\ Cardinality(1..Cardinality(Part)) = Cardinality(Part)
    <3>1. PICK c \in Nat : c = Cardinality(Part)
      BY <1>3
    <3>2. IsFiniteSet(1..c) /\ Cardinality(1..c) = c
      BY FS_Interval
    <3> QED BY <3>1, <3>2
  <2> QED BY <1>3, <1>6, <2>1, FS_Injection
<1> QED BY <1>3, <1>4, <1>5, <1>7 DEF Surjection, OneToOne, list

(* What is said of the operators stays while the operators do.             *)
LEMMA OpsStay ==
  ASSUME ops' = ops
  PROVE  /\ P!Ops' = P!Ops /\ \A j : P!Deps(j)' = P!Deps(j)
         /\ (Accepted' <=> Accepted) /\ (P!Sound' <=> P!Sound)
         /\ \A o : P!Orderly(o)' <=> P!Orderly(o)
<1>1. P!Ops' = P!Ops /\ \A j : P!Deps(j)' = P!Deps(j)
  BY DEF P!Ops, P!Deps, P!Producers
<1>2. Accepted' <=> Accepted
  BY DEF Accepted, P!Ops, P!Deps, P!Producers, P!Fed, P!IsRoot
<1>3. \A o : P!Orderly(o)' <=> P!Orderly(o)
  BY DEF P!Orderly, P!Gives
<1>4. P!Sound' <=> P!Sound
  BY <1>1, <1>3 DEF P!Sound
<1> QED BY <1>1, <1>2, <1>3, <1>4

(* The top of a stack gives way to new ones. *)
Has(s, x) == \E a \in DOMAIN s : s[a] = x
StackMoved(Base, s, f, h) ==
  /\ h \in Seq(Base) /\ OneToOne(h)
  /\ \A x : Has(h, x) <=> (x # s[Len(s)] /\ Has(s, x)) \/ Has(f, x)

LEMMA StackMoves ==
  ASSUME NEW Base, NEW s \in Seq(Base), s # <<>>, OneToOne(s),
         NEW k \in Nat, NEW f \in [1..k -> Base], OneToOne(f),
         \A x : ~(Has(s, x) /\ Has(f, x)),
         NEW g, g = SubSeq(s, 1, Len(s) - 1), NEW h, h = g \o f
  PROVE  StackMoved(Base, s, f, h)
<1> DEFINE l == Len(s)
<1>1. l \in Nat \ {0} /\ s \in [1..l -> Base]
  OBVIOUS
<1>0. l = Len(s) /\ DOMAIN s = 1..l
  OBVIOUS
<1>3. g \in Seq(Base) /\ Len(g) = l - 1 /\ \A a \in 1..(l - 1) : g[a] = s[a]
  BY <1>1
<1> HIDE DEF l
<1>4. f \in Seq(Base) /\ Len(f) = k
  OBVIOUS
<1>5. h = g \o f
  OBVIOUS
<1>6. /\ h \in Seq(Base) /\ Len(h) = (l - 1) + k /\ DOMAIN h = 1..((l - 1) + k)
      /\ \A a \in 1..(l - 1) : h[a] = s[a]
      /\ \A b \in 1..k : h[(l - 1) + b] = f[b]
  <2>1. h \in Seq(Base) /\ Len(h) = Len(g) + Len(f)
    <3>1. g \in Seq(Base) /\ f \in Seq(Base)
      BY <1>3, <1>4
    <3>2. g \o f \in Seq(Base) /\ Len(g \o f) = Len(g) + Len(f)
      BY <3>1, Joined
    <3> QED BY <1>5, <3>2
  <2>0. Len(h) = (l - 1) + k
    BY <1>3, <1>4, <2>1
  <2>2. DOMAIN h = 1..((l - 1) + k)
    BY <2>0, <2>1
  <2>3. \A a \in 1..(l - 1) : h[a] = s[a]
    BY <1>1, <1>3, <1>4, <1>5
  <2>4. ASSUME NEW b \in 1..k PROVE h[(l - 1) + b] = f[b]
    <3>1. h[Len(g) + b] = f[b]
      BY <1>3, <1>4, <1>5
    <3> QED BY <1>3, <3>1
  <2> QED BY <2>0, <2>1, <2>2, <2>3, <2>4
<1>7. \A a \in 1..((l - 1) + k) : a \in 1..(l - 1) \/ \E b \in 1..k : a = (l - 1) + b
  <2>1. ASSUME NEW a \in 1..((l - 1) + k), a \notin 1..(l - 1) PROVE \E b \in 1..k : a = (l - 1) + b
    <3>1. a - (l - 1) \in 1..k /\ a = (l - 1) + (a - (l - 1))
      BY <1>1, <2>1
    <3> QED BY <3>1
  <2> QED BY <2>1
<1>8. DOMAIN s = 1..l /\ l = Len(s) /\ \A a \in 1..(l - 1) : a \in 1..l /\ a # l
  BY <1>0, <1>1
<1>9. OneToOne(h)
  <2>1. ASSUME NEW a \in DOMAIN h, NEW b \in DOMAIN h, h[a] = h[b] PROVE a = b
    <3>1. CASE a \in 1..(l - 1) /\ b \in 1..(l - 1)
      BY <1>6, <1>8, <2>1, <3>1, ZenonT(40) DEF OneToOne
    <3>2. CASE a \in 1..(l - 1) /\ b \notin 1..(l - 1)
      <4>1. PICK d \in 1..k : b = (l - 1) + d
        BY <1>6, <1>7, <2>1, <3>2
      <4>2. s[a] = f[d] /\ a \in DOMAIN s
        BY <1>6, <1>8, <2>1, <3>2, <4>1
      <4> QED BY <4>2 DEF Has
    <3>3. CASE a \notin 1..(l - 1) /\ b \in 1..(l - 1)
      <4>1. PICK d \in 1..k : a = (l - 1) + d
        BY <1>6, <1>7, <2>1, <3>3
      <4>2. s[b] = f[d] /\ b \in DOMAIN s
        BY <1>6, <1>8, <2>1, <3>3, <4>1
      <4> QED BY <4>2 DEF Has
    <3>4. CASE a \notin 1..(l - 1) /\ b \notin 1..(l - 1)
      <4>1. PICK d \in 1..k, e \in 1..k : a = (l - 1) + d /\ b = (l - 1) + e
        BY <1>6, <1>7, <2>1, <3>4
      <4>2. f[d] = f[e]
        BY <1>6, <2>1, <4>1
      <4>3. d = e
        BY <4>2 DEF OneToOne
      <4> QED BY <4>1, <4>3
    <3> QED BY <3>1, <3>2, <3>3, <3>4
  <2> QED BY <2>1 DEF OneToOne
<1>10. ASSUME NEW x
       PROVE (\E a \in DOMAIN h : h[a] = x)
               <=> \/ x # s[Len(s)] /\ \E a \in DOMAIN s : s[a] = x
                   \/ \E b \in 1..k : f[b] = x
  <2>1. ASSUME NEW a \in DOMAIN h, h[a] = x
        PROVE  \/ x # s[Len(s)] /\ \E c \in DOMAIN s : s[c] = x
               \/ \E b \in 1..k : f[b] = x
    <3>1. CASE a \in 1..(l - 1)
      <4>1. s[a] = x /\ a \in DOMAIN s /\ a # l /\ l \in DOMAIN s
        <5>1. l \in 1..l
          BY <1>1
        <5> QED BY <1>6, <1>8, <2>1, <3>1, <5>1
      <4>2. s[a] # s[l]
        BY <4>1 DEF OneToOne
      <4> QED BY <1>8, <4>1, <4>2
    <3>2. CASE a \notin 1..(l - 1)
      BY <1>6, <1>7, <2>1, <3>2
    <3> QED BY <3>1, <3>2
  <2>2. ASSUME x # s[Len(s)], NEW a \in DOMAIN s, s[a] = x PROVE \E c \in DOMAIN h : h[c] = x
    <3>1. a \in 1..l /\ a # l
      BY <1>8, <2>2
    <3>2. a \in 1..(l - 1) /\ a \in 1..((l - 1) + k)
      BY <1>1, <3>1
    <3> QED BY <1>6, <2>2, <3>2
  <2>3. ASSUME NEW b \in 1..k, f[b] = x PROVE \E c \in DOMAIN h : h[c] = x
    <3>1. (l - 1) + b \in 1..((l - 1) + k)
      BY <1>1, <2>3
    <3> QED BY <1>6, <2>3, <3>1
  <2> QED BY <2>1, <2>2, <2>3
<1>11. \A x : Has(h, x) <=> (x # s[Len(s)] /\ Has(s, x)) \/ Has(f, x)
  BY <1>10 DEF Has
<1> QED BY <1>6, <1>9, <1>11 DEF StackMoved

(* Before any operator is placed, the ready ones are those nobody feeds.   *)
LEMMA SortStarts ==
  ASSUME NEW n \in Nat, P!Ops = 1..n, ops' = ops, order' = <<>>,
         indeg' = [i \in P!Ops |-> P!Cardinality(P!Deps(i))],
         ready' = P!InPolicyOrder({i \in P!Ops : P!Deps(i) = {}})
  PROVE  Sorting'
<1> DEFINE Roots == {i \in P!Ops : P!Deps(i) = {}}
<1>1. Roots \in SUBSET (1..n)
  OBVIOUS
<1>2. PICK k, s : k = Cardinality(Roots) /\ s = P!InPolicyOrder(Roots)
  OBVIOUS
<1>3. ready' = s
  BY <1>2
<1> HIDE DEF Roots
<1>4. /\ k \in Nat /\ s \in [1..k -> Roots] /\ OneToOne(s)
      /\ \A x \in Roots : \E a \in 1..k : s[a] = x
  BY <1>1, <1>2, Enumerated
<1>5. s \in Seq(P!Ops)
  <2>1. s \in [1..k -> P!Ops]
    BY <1>4 DEF Roots
  <2> QED BY <1>4, <2>1
<1>6. P!Ops' = P!Ops /\ \A j : P!Deps(j)' = P!Deps(j)
  BY OpsStay
<1>7. OrderSet' = {} /\ order' \in Seq(P!Ops) /\ OneToOne(order') /\ DOMAIN order' = {}
  BY DEF OrderSet, OneToOne
<1>8. ReadySet' = {j \in P!Ops : j \notin OrderSet' /\ P!Deps(j) \subseteq OrderSet'}
  <2>1. \A x : x \in ReadySet' <=> x \in Roots
    BY <1>3, <1>4 DEF ReadySet
  <2> QED BY <1>7, <2>1 DEF Roots
<1>9. indeg' = [j \in P!Ops |-> Cardinality(P!Deps(j) \ OrderSet')]
  <2>1. \A j \in P!Ops : P!Deps(j) \ OrderSet' = P!Deps(j)
    BY <1>7
  <2> QED BY <2>1, SameCount
<1>10. ready' \in Seq(P!Ops') /\ OneToOne(ready') /\ order' \in Seq(P!Ops')
  BY <1>3, <1>4, <1>5, <1>6, <1>7
<1>11. ReadySet' = {j \in P!Ops' : j \notin OrderSet' /\ P!Deps(j)' \subseteq OrderSet'}
  BY <1>6, <1>8
<1>12. indeg' = [j \in P!Ops' |-> Cardinality(P!Deps(j)' \ OrderSet')]
  BY <1>6, <1>9
<1> QED BY <1>7, <1>10, <1>11, <1>12 DEF Sorting

(* Placing the operator on the stack counts it off at its consumers.       *)
LEMMA PlaceKeeps ==
  ASSUME NEW n \in Nat, P!Ops = 1..n, Sorting, P!Place
  PROVE  Sorting' /\ ops' = ops
<1> DEFINE i == ready[Len(ready)]
           Freed == {j \in P!Ops : i \in P!Deps(j) /\ indeg[j] = 1}
<1>1. /\ ops' = ops /\ order' = Append(order, i) /\ ready # <<>>
      /\ indeg' = [j \in P!Ops |-> IF i \in P!Deps(j) THEN indeg[j] - 1 ELSE indeg[j]]
      /\ ready' = SubSeq(ready, 1, Len(ready) - 1) \o P!InPolicyOrder(Freed)
  BY DEF P!Place
<1>2. i = ready[Len(ready)] /\ Len(ready) \in DOMAIN ready /\ i \in P!Ops
  BY <1>1 DEF Sorting
<1>3. P!Ops' = P!Ops /\ \A j : P!Deps(j)' = P!Deps(j)
  BY <1>1, OpsStay
<1> HIDE DEF i, Freed
<1>4. i \in P!Ops /\ i \notin OrderSet /\ P!Deps(i) \subseteq OrderSet
  <2>1. i \in ReadySet
    BY <1>2 DEF ReadySet
  <2> QED BY <2>1 DEF Sorting
<1>5. \A j : P!Deps(j) \subseteq P!Ops
  BY DEF P!Deps, P!Producers
<1>6. order \in Seq(P!Ops) /\ order' \in Seq(P!Ops) /\ Len(order) \in Nat
      /\ DOMAIN order = 1..Len(order) /\ DOMAIN order' = 1..(Len(order) + 1)
      /\ (\A a \in 1..Len(order) : order'[a] = order[a]) /\ order'[Len(order) + 1] = i
  BY <1>1, <1>4 DEF Sorting
<1>7. OrderSet' = OrderSet \cup {i}
  <2>1. ASSUME NEW j \in OrderSet PROVE j \in OrderSet'
    <3>1. PICK a \in 1..Len(order) : j = order[a]
      BY <1>6, <2>1 DEF OrderSet
    <3>2. a \in DOMAIN order' /\ order'[a] = j
      BY <1>6, <3>1
    <3> QED BY <3>2 DEF OrderSet
  <2>2. i \in OrderSet'
    <3>1. Len(order) + 1 \in DOMAIN order' /\ order'[Len(order) + 1] = i
      BY <1>6
    <3> QED BY <3>1 DEF OrderSet
  <2>3. ASSUME NEW j \in OrderSet' PROVE j \in OrderSet \cup {i}
    <3>1. PICK a \in 1..(Len(order) + 1) : j = order'[a]
      BY <1>6, <2>3 DEF OrderSet
    <3>2. a = Len(order) + 1 \/ a \in 1..Len(order)
      BY <1>6
    <3> QED BY <1>6, <3>1, <3>2 DEF OrderSet
  <2> QED BY <2>1, <2>2, <2>3
<1>8. OneToOne(order')
  <2>1. ASSUME NEW a \in DOMAIN order', NEW b \in DOMAIN order', order'[a] = order'[b] PROVE a = b
    <3>1. (a = Len(order) + 1 \/ a \in 1..Len(order)) /\ (b = Len(order) + 1 \/ b \in 1..Len(order))
      BY <1>6
    <3>2. \A c \in 1..Len(order) : order'[c] = order[c] /\ order[c] # i
      BY <1>4, <1>6 DEF OrderSet
    <3>3. CASE a \in 1..Len(order) /\ b \in 1..Len(order)
      BY <1>6, <2>1, <3>2, <3>3 DEF Sorting, OneToOne
    <3> QED BY <1>6, <2>1, <3>1, <3>2, <3>3
  <2> QED BY <2>1 DEF OneToOne
<1>9. \A b \in DOMAIN order' : \A j \in P!Deps(order'[b]) :
        \E a \in DOMAIN order' : a < b /\ order'[a] = j
  <2>1. ASSUME NEW b \in 1..Len(order), NEW j \in P!Deps(order'[b])
        PROVE  \E a \in DOMAIN order' : a < b /\ order'[a] = j
    <3>1. b \in DOMAIN order /\ j \in P!Deps(order[b])
      BY <1>6, <2>1
    <3>2. PICK a \in DOMAIN order : a < b /\ order[a] = j
      BY <3>1 DEF Sorting
    <3>3. a \in DOMAIN order' /\ order'[a] = j
      BY <1>6, <3>2
    <3> QED BY <3>2, <3>3
  <2>2. ASSUME NEW j \in P!Deps(i) PROVE \E a \in DOMAIN order' : a < Len(order) + 1 /\ order'[a] = j
    <3>1. PICK a \in 1..Len(order) : order[a] = j
      BY <1>4, <1>6, <2>2 DEF OrderSet
    <3>2. a \in DOMAIN order' /\ order'[a] = j /\ a < Len(order) + 1
      BY <1>6, <3>1
    <3> QED BY <3>2
  <2>3. ASSUME NEW b \in DOMAIN order' PROVE b = Len(order) + 1 \/ b \in 1..Len(order)
    BY <1>6, <2>3
  <2> QED BY <1>6, <2>1, <2>2, <2>3
<1>10. \A j \in OrderSet : P!Deps(j) \subseteq OrderSet
  <2>1. ASSUME NEW b \in DOMAIN order, NEW k \in P!Deps(order[b]) PROVE k \in OrderSet
    <3>1. PICK a \in DOMAIN order : order[a] = k
      BY <2>1 DEF Sorting
    <3> QED BY <3>1 DEF OrderSet
  <2> QED BY <2>1 DEF OrderSet
<1>11. ASSUME NEW j \in P!Ops
       PROVE /\ indeg[j] = Cardinality(P!Deps(j) \ OrderSet)
             /\ IsFiniteSet(P!Deps(j) \ OrderSet) /\ indeg[j] \in Nat
  <2>1. IsFiniteSet(1..n)
    BY FS_Interval
  <2>2. P!Deps(j) \ OrderSet \in SUBSET (1..n)
    BY <1>5
  <2>3. IsFiniteSet(P!Deps(j) \ OrderSet)
    BY <2>1, <2>2, FS_Subset
  <2>4. indeg[j] = Cardinality(P!Deps(j) \ OrderSet)
    BY <1>11 DEF Sorting
  <2> QED BY <2>3, <2>4, FS_CardinalityType
<1>12. indeg' = [j \in P!Ops |-> Cardinality(P!Deps(j) \ (OrderSet \cup {i}))]
  <2>1. ASSUME NEW j \in P!Ops
        PROVE  (IF i \in P!Deps(j) THEN indeg[j] - 1 ELSE indeg[j]) = Cardinality(P!Deps(j) \ (OrderSet \cup {i}))
    <3> DEFINE Left == P!Deps(j) \ OrderSet
    <3>1. P!Deps(j) \ (OrderSet \cup {i}) = Left \ {i} /\ (i \in P!Deps(j) <=> i \in Left)
      BY <1>4
    <3>2. IsFiniteSet(Left) /\ indeg[j] = Cardinality(Left)
      BY <1>11
    <3> HIDE DEF Left
    <3>3. CASE i \in Left
      <4>1. Cardinality(Left \ {i}) = Cardinality(Left) - 1
        BY <3>2, <3>3, FS_RemoveElement
      <4> QED BY <3>1, <3>2, <3>3, <4>1
    <3>4. CASE i \notin Left
      <4>1. Left \ {i} = Left
        BY <3>4
      <4> QED BY <3>1, <3>2, <3>4, <4>1
    <3> QED BY <3>3, <3>4
  <2> QED BY <1>1, <2>1
<1>13. Freed = {j \in P!Ops : i \in P!Deps(j) /\ P!Deps(j) \subseteq OrderSet \cup {i}}
  <2>1. ASSUME NEW j \in P!Ops, i \in P!Deps(j)
        PROVE  indeg[j] = 1 <=> P!Deps(j) \subseteq OrderSet \cup {i}
    <3> DEFINE Left == P!Deps(j) \ OrderSet
    <3>1. i \in Left /\ (P!Deps(j) \subseteq OrderSet \cup {i} <=> Left = {i})
      BY <1>4, <2>1
    <3>2. IsFiniteSet(Left) /\ indeg[j] = Cardinality(Left)
      BY <1>11
    <3> HIDE DEF Left
    <3>3. Left = {i} => Cardinality(Left) = 1
      BY FS_Singleton
    <3>4. ASSUME Cardinality(Left) = 1 PROVE Left = {i}
      <4>1. PICK x : Left = {x}
        BY <3>2, <3>4, FS_Singleton
      <4> QED BY <3>1, <4>1
    <3> QED BY <3>1, <3>2, <3>3, <3>4
  <2> QED BY <2>1 DEF Freed
<1>14. PICK k : k = Cardinality(Freed)
  OBVIOUS
<1>15. PICK f : f = P!InPolicyOrder(Freed)
  OBVIOUS
<1>16. /\ k \in Nat /\ f \in [1..k -> Freed] /\ OneToOne(f)
       /\ \A x \in Freed : \E a \in 1..k : f[a] = x
  <2>1. Freed \in SUBSET (1..n)
    BY <1>13
  <2> QED BY <2>1, <1>14, <1>15, Enumerated
<1>17. ready' \in Seq(P!Ops) /\ OneToOne(ready')
       /\ \A x : x \in ReadySet' <=> (x # i /\ x \in ReadySet) \/ x \in Freed
  <2>1. ready \in Seq(P!Ops) /\ OneToOne(ready)
    BY DEF Sorting
  <2>2. f \in [1..k -> P!Ops]
    BY <1>13, <1>16
  <2>3. \A a \in DOMAIN ready, b \in 1..k : ready[a] # f[b]
    <3>1. ASSUME NEW a \in DOMAIN ready, NEW b \in 1..k, ready[a] = f[b] PROVE FALSE
      <4>1. ready[a] \in ReadySet /\ f[b] \in Freed
        BY <1>16 DEF ReadySet
      <4>2. P!Deps(f[b]) \subseteq OrderSet /\ i \in P!Deps(f[b])
        BY <1>13, <3>1, <4>1 DEF Sorting
      <4> QED BY <1>4, <4>2
    <3> QED BY <3>1
  <2>4. PICK s, h : s = ready /\ h = ready'
    OBVIOUS
  <2>5. h \in Seq(P!Ops) /\ OneToOne(h) /\ \A x : Has(h, x) <=> (x # s[Len(s)] /\ Has(s, x)) \/ Has(f, x)
    <3>1. PICK Base : Base = P!Ops
      OBVIOUS
    <3>2. s \in Seq(Base) /\ s # <<>> /\ k \in Nat /\ f \in [1..k -> Base]
      BY <1>1, <1>16, <2>1, <2>2, <2>4, <3>1
    <3>3. OneToOne(s) /\ OneToOne(f)
      BY <1>16, <2>1, <2>4
    <3>4. \A x : ~(Has(s, x) /\ Has(f, x))
      BY <2>2, <2>3, <2>4 DEF Has
    <3>5. PICK g : g = SubSeq(s, 1, Len(s) - 1)
      OBVIOUS
    <3>6. h = g \o f
      BY <1>1, <1>15, <2>4, <3>5
    <3>7. StackMoved(Base, s, f, h)
      BY <3>2, <3>3, <3>4, <3>5, <3>6, StackMoves
    <3> QED BY <3>1, <3>7 DEF StackMoved
  <2>6. ready' \in Seq(P!Ops) /\ OneToOne(ready')
        /\ \A x : Has(h, x) <=> (x # i /\ Has(s, x)) \/ Has(f, x)
    BY <1>2, <2>4, <2>5
  <2>7. \A x : x \in ReadySet' <=> Has(h, x)
    BY <2>4 DEF ReadySet, Has
  <2>8. \A x : x \in ReadySet <=> Has(s, x)
    BY <2>4 DEF ReadySet, Has
  <2>9. \A x : x \in Freed <=> Has(f, x)
    BY <1>16 DEF Has
  <2> QED BY <2>6, <2>7, <2>8, <2>9
<1>18. ReadySet' = {j \in P!Ops : j \notin OrderSet' /\ P!Deps(j) \subseteq OrderSet'}
  <2>1. ReadySet = {j \in P!Ops : j \notin OrderSet /\ P!Deps(j) \subseteq OrderSet}
    BY DEF Sorting
  <2>2. ASSUME NEW x
        PROVE  x \in ReadySet' <=> x \in P!Ops /\ x \notin OrderSet \cup {i} /\ P!Deps(x) \subseteq OrderSet \cup {i}
    <3>1. CASE i \in P!Deps(x)
      <4>1. x \notin OrderSet /\ x # i /\ x \notin ReadySet
        BY <1>4, <1>10, <2>1, <3>1
      <4> QED BY <1>13, <1>17, <3>1, <4>1
    <3>2. CASE i \notin P!Deps(x)
      <4>1. x \notin Freed /\ (P!Deps(x) \subseteq OrderSet \cup {i} <=> P!Deps(x) \subseteq OrderSet)
        BY <1>13, <3>2
      <4> QED BY <1>17, <2>1, <4>1
    <3> QED BY <3>1, <3>2
  <2> QED BY <1>7, <2>2
<1>19. order' \in Seq(P!Ops') /\ ready' \in Seq(P!Ops')
  BY <1>3, <1>6, <1>17
<1>20. ReadySet' = {j \in P!Ops' : j \notin OrderSet' /\ P!Deps(j)' \subseteq OrderSet'}
  BY <1>3, <1>18
<1>21. indeg' = [j \in P!Ops' |-> Cardinality(P!Deps(j)' \ OrderSet')]
  BY <1>3, <1>7, <1>12
<1>22. \A b \in DOMAIN order' : \A j \in P!Deps(order[b])' : \E a \in DOMAIN order' : a < b /\ order'[a] = j
  BY <1>3, <1>9
<1> QED BY <1>1, <1>8, <1>17, <1>19, <1>20, <1>21, <1>22 DEF Sorting

(* All placed, the order is one in which givers come first.                *)
LEMMA SortedIsOrderly ==
  ASSUME NEW n \in Nat, P!Ops = 1..n, \A i \in P!Ops : "media" \notin ops[i].gives,
         Sorting, Len(order) = n
  PROVE  order \in [P!Ops -> P!Ops] /\ P!IsInjective(order) /\ P!Orderly(order)
<1>1. order \in [P!Ops -> P!Ops] /\ DOMAIN order = P!Ops
  BY DEF Sorting
<1>2. P!IsInjective(order)
  BY DEF Sorting, OneToOne, P!IsInjective
<1>3. ASSUME NEW a \in DOMAIN order, NEW b \in DOMAIN order, P!Gives(order[a], order[b])
      PROVE  a < b
  <2>1. order[a] \in P!Deps(order[b])
    BY <1>1, <1>3, DepsGive
  <2>2. PICK c \in DOMAIN order : c < b /\ order[c] = order[a]
    BY <1>3, <2>1 DEF Sorting
  <2>3. c = a
    BY <1>2, <1>3, <2>2 DEF P!IsInjective
  <2> QED BY <2>2, <2>3
<1> QED BY <1>1, <1>2, <1>3 DEF P!Orderly

(* The sort is stuck on a cycle only: in an order that suits the operators *)
(* the first of those not placed would be ready.                           *)
LEMMA StuckIsUnsound ==
  ASSUME NEW n \in Nat, P!Ops = 1..n, \A i \in P!Ops : "media" \notin ops[i].gives,
         Sorting, ready = <<>>, Len(order) # n
  PROVE  ~P!Sound
<1>1. IsFiniteSet(1..n) /\ Cardinality(1..n) = n
  BY FS_Interval
<1>2. \E u \in 1..n : u \notin OrderSet
  <2> SUFFICES ASSUME \A u \in 1..n : u \in OrderSet PROVE FALSE
    OBVIOUS
  <2>0. order \in Seq(P!Ops)
    BY DEF Sorting
  <2>1. PICK l \in Nat : l = Len(order) /\ order \in [1..l -> 1..n]
    <3>1. Len(order) \in Nat /\ order \in [1..Len(order) -> 1..n]
      BY <2>0
    <3> QED BY <3>1
  <2>2. IsFiniteSet(1..l) /\ Cardinality(1..l) = l
    BY FS_Interval
  <2>3. order \in Injection(1..l, 1..n)
    BY <2>1 DEF Sorting, OneToOne, Injection, IsInjective
  <2>4. order \in Surjection(1..l, 1..n)
    BY <2>1 DEF OrderSet, Surjection
  <2>5. l <= n
    BY <1>1, <2>2, <2>3, FS_Injection
  <2>6. n <= l
    <3>1. Cardinality(1..n) <= Cardinality(1..l)
      BY <2>2, <2>4, FS_Surjection
    <3> QED BY <1>1, <2>2, <3>1
  <2>7. l = n
    BY <2>5, <2>6
  <2> QED BY <2>1, <2>7
<1>3. ASSUME P!Sound PROVE FALSE
  <2>1. PICK o \in [1..n -> 1..n] : P!IsInjective(o) /\ P!Orderly(o)
    BY <1>3 DEF P!Sound
  <2>2. o \in Surjection(1..n, 1..n)
    <3>1. o \in Injection(1..n, 1..n)
      BY <2>1 DEF P!IsInjective, Injection, IsInjective
    <3> QED BY <1>1, <3>1, FS_Injection
  <2> DEFINE Unplaced == {a \in 1..n : o[a] \notin OrderSet}
  <2>3. Unplaced \in SUBSET Nat /\ Unplaced # {}
    <3>1. PICK u \in 1..n : u \notin OrderSet
      BY <1>2
    <3>2. PICK a \in 1..n : o[a] = u
      BY <2>2 DEF Surjection
    <3>3. a \in Unplaced
      BY <3>1, <3>2
    <3> QED BY <3>3
  <2>4. PICK a \in Unplaced : \A b \in Unplaced : a <= b
    BY <2>3, LeastNat
  <2>5. a \in 1..n /\ o[a] \in P!Ops /\ o[a] \notin OrderSet
    BY <2>1, <2>4
  <2>6. ReadySet = {}
    BY DEF ReadySet
  <2>7. PICK d \in P!Deps(o[a]) : d \notin OrderSet
    BY <2>5, <2>6 DEF Sorting
  <2>8. d \in 1..n
    BY <2>7 DEF P!Deps, P!Producers
  <2>9. PICK c \in 1..n : o[c] = d
    BY <2>2, <2>8 DEF Surjection
  <2>10. P!Gives(o[c], o[a])
    BY <2>5, <2>7, <2>8, <2>9, DepsGive
  <2>11. c < a
    BY <2>1, <2>5, <2>9, <2>10 DEF P!Orderly
  <2>12. c \in Unplaced
    BY <2>7, <2>9
  <2> QED BY <2>4, <2>5, <2>9, <2>11, <2>12
<1> QED BY <1>3

LEMMA ResolveKeeps == ASSUME PlanInv, P!Resolve PROVE PlanInv'
<1>1. /\ planPhase = "plan" /\ ops = <<>> /\ order = <<>>
      /\ UNCHANGED <<bound, policy, order, calls, planRows, planStored, sent>>
  BY DEF P!Resolve, P!Flow, PlanInv
<1>2. P!Chosen' = P!Chosen /\ (P!Plannable(P!Chosen)' <=> P!Plannable(P!Chosen)) /\ Named'
  BY <1>1 DEF PlanInv, Named, P!Chosen, P!DefaultPolicy, P!Plannable, P!Valid, P!Known, P!Declaration
<1>3. CASE P!Plannable(P!Chosen)
  <2>1. ops' = [i \in DOMAIN P!Chosen |-> P!Declaration(P!Chosen[i])] /\ planPhase' = "plan"
    BY <1>1, <1>3 DEF P!Resolve
  <2>2. Resolved'
    BY <1>1, <1>2, <1>3, <2>1 DEF Resolved, P!Declaration
  <2> QED BY <1>1, <1>2, <2>1, <2>2 DEF PlanInv
<1>4. CASE ~P!Plannable(P!Chosen)
  <2>1. ops' = ops /\ planPhase' = "refused"
    BY <1>1, <1>4 DEF P!Resolve
  <2>2. policy # P!Auto
    BY <1>4, AutoIsPlannable
  <2>3. ~P!Sound'
    BY <1>1, <2>1 DEF P!Sound
  <2>4. policy' # P!Auto
    BY <1>1, <2>2
  <2> QED BY <1>1, <1>2, <2>1, <2>3, <2>4 DEF PlanInv
<1> QED BY <1>3, <1>4

(* What is resolved stays so. *)
LEMMA GraphStays ==
  ASSUME PlanInv, ops # <<>>, UNCHANGED <<bound, policy, ops>>
  PROVE  /\ Resolved /\ Resolved' /\ Named' /\ ops' # <<>>
         /\ \A i \in P!Ops : "media" \notin ops[i].gives
         /\ \E n \in Nat : P!Ops = 1..n /\ Len(ops) = n
<1>1. Resolved /\ Named
  BY DEF PlanInv
<1>2. Resolved'
  BY <1>1 DEF Resolved, P!Chosen, P!DefaultPolicy, P!Plannable, P!Valid, P!Known, P!Declaration
<1> QED BY <1>1, <1>2, OpsAreNamed DEF Named

LEMMA CountKeeps == ASSUME PlanInv, P!CountDeps PROVE PlanInv'
<1>1. /\ planPhase = "plan" /\ ops # <<>> /\ order = <<>> /\ calls \in Nat
      /\ planStored = {} /\ sent = {} /\ planRows = <<>>
      /\ UNCHANGED <<bound, policy, ops, order, calls, planRows, planStored, sent>>
  BY DEF P!CountDeps, P!Flow, PlanInv
<1>2. Resolved /\ Resolved' /\ Named' /\ ops' # <<>>
  BY <1>1, GraphStays
<1>3. PICK n \in Nat : P!Ops = 1..n
  BY <1>1, GraphStays
<1>4. CASE Accepted
  <2>1. /\ indeg' = [i \in P!Ops |-> P!Cardinality(P!Deps(i))]
        /\ ready' = P!InPolicyOrder({i \in P!Ops : P!Deps(i) = {}}) /\ planPhase' = "sort"
    BY <1>4 DEF P!CountDeps, Accepted
  <2>2. Accepted' /\ P!Ops' = P!Ops /\ \A j : P!Deps(j)' = P!Deps(j)
    BY <1>1, <1>4, OpsStay
  <2>3. Sorting'
    <3>1. order' = <<>>
      BY <1>1
    <3> QED BY <1>1, <1>3, <2>1, <3>1, SortStarts
  <2> QED BY <1>1, <1>2, <2>1, <2>2, <2>3 DEF PlanInv
<1>5. CASE ~Accepted
  <2>1. planPhase' = "refused"
    BY <1>5 DEF P!CountDeps, Accepted
  <2>2. ~P!Sound
    BY <1>5, SoundIsAccepted
  <2>3. policy # P!Auto
    BY <1>2, <2>2, AutoIsSound
  <2>4. ~P!Sound' /\ policy' # P!Auto
    BY <1>1, <2>2, <2>3, OpsStay
  <2> QED BY <1>1, <1>2, <2>1, <2>4 DEF PlanInv
<1> QED BY <1>4, <1>5

LEMMA PlaceIsKept == ASSUME PlanInv, P!Place PROVE PlanInv'
<1>1. /\ planPhase = "sort" /\ planPhase' = "sort" /\ ops # <<>> /\ calls \in Nat /\ Accepted /\ Sorting
      /\ planStored = {} /\ sent = {} /\ planRows = <<>>
      /\ UNCHANGED <<bound, policy, ops, calls, planRows, planStored, sent>>
  BY DEF P!Place, P!Flow, PlanInv
<1>2. Resolved' /\ Named' /\ ops' # <<>>
  BY <1>1, GraphStays
<1>3. PICK n \in Nat : P!Ops = 1..n
  BY <1>1, GraphStays
<1>4. Sorting' /\ Accepted'
  BY <1>1, <1>3, PlaceKeeps, OpsStay
<1> QED BY <1>1, <1>2, <1>4 DEF PlanInv

LEMMA PlacedKeeps == ASSUME PlanInv, P!Placed PROVE PlanInv'
<1>1. /\ planPhase = "sort" /\ ready = <<>> /\ ops # <<>> /\ calls \in Nat /\ Accepted /\ Sorting
      /\ planStored = {} /\ sent = {} /\ planRows = <<>>
      /\ UNCHANGED <<bound, policy, ops, order, calls, planRows, planStored, sent>>
  BY DEF P!Placed, P!Graph, PlanInv
<1>2. Resolved /\ Resolved' /\ Named' /\ ops' # <<>> /\ \A i \in P!Ops : "media" \notin ops[i].gives
  BY <1>1, GraphStays
<1>3. PICK n \in Nat : P!Ops = 1..n /\ Len(ops) = n
  BY <1>1, GraphStays
<1>4. CASE Len(order) = Len(ops)
  <2>1. /\ planPhase' = "run" /\ got' = [i \in P!Ops |-> {}]
        /\ custom' \in P!Ops
    BY <1>4 DEF P!Placed
  <2>2. order \in [P!Ops -> P!Ops] /\ P!IsInjective(order) /\ P!Orderly(order)
    BY <1>1, <1>2, <1>3, <1>4, SortedIsOrderly
  <2>3. P!Sound
    BY <1>1, <2>2, AcceptedIsSound
  <2>4. P!Ops' = P!Ops /\ P!Sound' /\ \A o : P!Orderly(o)' <=> P!Orderly(o)
    BY <1>1, <2>3, OpsStay
  <2>5. P!Orderly(order)'
    BY <1>1, <2>2 DEF P!Orderly, P!Gives
  <2>6. RowsFlow'
    BY <1>1, <2>1, <2>4 DEF RowsFlow
  <2> QED BY <1>1, <1>2, <2>1, <2>4, <2>5, <2>6 DEF PlanInv
<1>5. CASE Len(order) # Len(ops)
  <2>1. planPhase' = "refused"
    BY <1>5 DEF P!Placed
  <2>2. ~P!Sound
    BY <1>1, <1>2, <1>3, <1>5, StuckIsUnsound
  <2>3. policy # P!Auto
    BY <1>2, <2>2, AutoIsSound
  <2>4. ~P!Sound' /\ policy' # P!Auto
    BY <1>1, <2>2, <2>3, OpsStay
  <2> QED BY <1>1, <1>2, <2>1, <2>4 DEF PlanInv
<1> QED BY <1>4, <1>5

LEMMA CallKeeps == ASSUME PlanInv, P!Call PROVE PlanInv'
<1>1. /\ planPhase = "run" /\ calls' = calls + 1 /\ ops # <<>> /\ calls \in Nat
      /\ UNCHANGED <<bound, policy, ops, order, custom, planStored, sent, got>>
      /\ P!Sound /\ P!Orderly(order) /\ RowsFlow
  BY DEF P!Call, P!Graph, PlanInv
<1>2. Resolved /\ Resolved' /\ Named' /\ ops' # <<>> /\ calls' \in Nat
  BY <1>1, GraphStays
<1>3. P!Ops' = P!Ops /\ P!Sound' /\ P!Orderly(order)'
  BY <1>1, OpsStay DEF P!Orderly, P!Gives
<1>4. PICK kinds \in UNION {[1..n -> P!RowKinds] : n \in 0..2} :
        LET new == [i \in DOMAIN kinds |-> [n |-> 10 * calls + i, kind |-> kinds[i]]]
        IN  IF \E i \in DOMAIN kinds : kinds[i] \notin ops[custom].gives
            THEN planPhase' = "ended" /\ declared' = TRUE /\ UNCHANGED planRows
            ELSE /\ planRows' = new
                 /\ declared' = (declared \/ kinds # <<>>)
                 /\ planPhase' = IF kinds = <<>> THEN "run" ELSE "store"
  BY DEF P!Call
<1>5. CASE \E i \in DOMAIN kinds : kinds[i] \notin ops[custom].gives
  BY <1>1, <1>2, <1>4, <1>5 DEF PlanInv
<1>6. CASE ~\E i \in DOMAIN kinds : kinds[i] \notin ops[custom].gives
  <2>1. /\ planRows' = [i \in DOMAIN kinds |-> [n |-> 10 * calls + i, kind |-> kinds[i]]]
        /\ declared' = (declared \/ kinds # <<>>)
        /\ planPhase' = IF kinds = <<>> THEN "run" ELSE "store"
    BY <1>4, <1>6
  <2>2. PICK m \in 0..2 : kinds \in [1..m -> P!RowKinds]
    BY <1>4
  <2>3. planRows' \in Seq(CallRow)
    <3>1. \A i \in 1..m : 10 * calls + i \in Nat
      BY <1>1, <2>2
    <3>2. planRows' \in [1..m -> CallRow]
      BY <2>1, <2>2, <3>1 DEF CallRow
    <3> QED BY <2>2, <3>2
  <2>4. planPhase' = "store" => declared' /\ \A i \in DOMAIN planRows' : planRows'[i].kind \in ops[custom].gives
    BY <1>6, <2>1, <2>2
  <2>5. planPhase' \in {"run", "store"}
    BY <2>1
  <2>6. planStored' # {} => declared'
    BY <1>1, <2>1 DEF RowsFlow
  <2>7. RowsFlow'
    BY <1>1, <1>3, <2>3, <2>4, <2>5, <2>6 DEF RowsFlow
  <2> QED BY <1>1, <1>2, <1>3, <2>5, <2>7 DEF PlanInv
<1> QED BY <1>5, <1>6

LEMMA StoreKeeps == ASSUME PlanInv, NEW kind \in P!RowKinds, P!Store(kind) PROVE PlanInv'
<1>1. /\ planPhase = "store" /\ ops # <<>> /\ calls \in Nat
      /\ UNCHANGED <<bound, policy, ops, order, custom, planRows, calls, declared, sent, got>>
      /\ P!Sound /\ P!Orderly(order) /\ RowsFlow
  BY DEF P!Store, P!Graph, PlanInv
<1>2. Resolved /\ Resolved' /\ Named' /\ ops' # <<>> /\ calls' \in Nat
  BY <1>1, GraphStays
<1>3. P!Ops' = P!Ops /\ P!Sound' /\ P!Orderly(order)'
  BY <1>1, OpsStay DEF P!Orderly, P!Gives
<1>4. CASE planPhase' = "ended"
  BY <1>1, <1>2, <1>4 DEF PlanInv
<1>5. CASE planPhase' # "ended"
  <2>1. /\ planStored' = planStored \cup P!Group(kind)
        /\ planPhase' = IF P!Range(planRows) \subseteq planStored' THEN "emit" ELSE "store"
    BY <1>5 DEF P!Store
  <2>2. planPhase' = "emit" => \A i \in DOMAIN planRows : planRows[i] \in planStored'
    BY <2>1 DEF P!Range
  <2>3. RowsFlow'
    BY <1>1, <1>3, <2>1, <2>2 DEF RowsFlow
  <2> QED BY <1>1, <1>2, <1>3, <2>1, <2>3 DEF PlanInv
<1> QED BY <1>4, <1>5

LEMMA EmitKeeps == ASSUME PlanInv, P!Emit PROVE PlanInv'
<1> DEFINE r0 == Head(planRows)
<1>1. /\ planPhase = "emit" /\ planRows # <<>> /\ ops # <<>> /\ calls \in Nat
      /\ UNCHANGED <<bound, policy, ops, order, custom, calls, declared, planStored>>
      /\ P!Sound /\ P!Orderly(order) /\ RowsFlow
      /\ sent' = sent \cup {r0} /\ planRows' = Tail(planRows)
      /\ got' = [j \in P!Ops |->
           IF j \in P!Consumers(custom) /\ r0.kind \in ops[j].takes
           THEN got[j] \cup {r0} ELSE got[j]]
      /\ planPhase' = IF Tail(planRows) = <<>> THEN "run" ELSE "emit"
  BY DEF P!Emit, P!Graph, PlanInv
<1>2. Resolved /\ Resolved' /\ Named' /\ ops' # <<>> /\ calls' \in Nat
  BY <1>1, GraphStays
<1>3. P!Ops' = P!Ops /\ P!Sound' /\ P!Orderly(order)'
  BY <1>1, OpsStay DEF P!Orderly, P!Gives
<1>4. planRows \in Seq(CallRow) /\ r0 = planRows[1] /\ 1 \in DOMAIN planRows /\ r0 \in CallRow
  BY <1>1 DEF RowsFlow
<1> HIDE DEF r0
<1>5. Tail(planRows) \in Seq(CallRow) /\ \A i \in DOMAIN Tail(planRows) :
        i + 1 \in DOMAIN planRows /\ Tail(planRows)[i] = planRows[i + 1]
  BY <1>1, <1>4
<1>6. r0 \in planStored /\ r0.kind \in ops[custom].gives /\ custom \in P!Ops
  BY <1>1, <1>4 DEF RowsFlow
<1>7. r0.kind # "media"
  BY <1>4 DEF CallRow, P!RowKinds
<1>8. ASSUME NEW r \in sent', NEW j \in P!Ops, r.kind \in ops[j].takes PROVE r \in got'[j]
  <2>1. CASE r = r0
    <3>1. custom \in P!Deps(j)
      BY <1>6, <1>7, <1>8, <2>1 DEF P!Deps, P!Producers
    <3> QED BY <1>1, <1>8, <2>1, <3>1 DEF P!Consumers
  <2>2. CASE r # r0
    <3>1. r \in got[j]
      BY <1>1, <1>8, <2>2 DEF RowsFlow
    <3> QED BY <1>1, <3>1
  <2> QED BY <2>1, <2>2
<1>9. declared /\ \A i \in DOMAIN planRows : planRows[i].kind \in ops[custom].gives /\ planRows[i] \in planStored
  BY <1>1 DEF RowsFlow
<1>10. \A i \in DOMAIN planRows' : planRows'[i].kind \in ops[custom].gives /\ planRows'[i] \in planStored
  BY <1>1, <1>5, <1>9
<1>11. got' = [j \in P!Ops |-> got'[j]]
  BY <1>1
<1>12. sent' \subseteq planStored
  BY <1>1, <1>6 DEF RowsFlow
<1>13. RowsFlow'
  BY <1>1, <1>3, <1>5, <1>6, <1>8, <1>9, <1>10, <1>11, <1>12 DEF RowsFlow
<1> QED BY <1>1, <1>2, <1>3, <1>13 DEF PlanInv

LEMMA PlanIsKept == ASSUME PlanInv, P!Next \/ UNCHANGED planVars PROVE PlanInv'
<1>1. CASE P!Raise \/ P!Cancel
  <2>1. /\ planPhase \in {"run", "store", "emit"} /\ planPhase' = "ended" /\ ops # <<>> /\ calls \in Nat
        /\ UNCHANGED <<bound, policy, ops, calls>>
    BY <1>1 DEF P!Raise, P!Cancel, P!Graph, P!Flow, PlanInv
  <2>2. Resolved' /\ Named'
    BY <2>1, GraphStays
  <2> QED BY <2>1, <2>2 DEF PlanInv
<1>2. CASE UNCHANGED planVars
  <2>1. UNCHANGED <<bound, policy, planPhase, ops, indeg, ready, order, custom, planRows, calls,
                    declared, planStored, sent, got>>
    BY <1>2 DEF planVars
  <2>2. Named' /\ (Resolved' <=> Resolved) /\ (RowsFlow' <=> RowsFlow)
    BY <2>1 DEF PlanInv, Named, Resolved, RowsFlow, P!Chosen, P!DefaultPolicy, P!Plannable, P!Valid,
                P!Known, P!Declaration, P!Ops
  <2>3. P!Ops' = P!Ops /\ (\A j : P!Deps(j)' = P!Deps(j)) /\ (Accepted' <=> Accepted) /\ (P!Sound' <=> P!Sound)
    BY <2>1, OpsStay
  <2>4. P!Orderly(order)' <=> P!Orderly(order)
    BY <2>1 DEF P!Orderly, P!Gives
  <2>5. Sorting' <=> Sorting
    BY <2>1 DEF Sorting, OrderSet, ReadySet, OneToOne, P!Ops, P!Deps, P!Producers
  <2> QED BY <2>1, <2>2, <2>3, <2>4, <2>5 DEF PlanInv
<1> QED BY <1>1, <1>2, ResolveKeeps, CountKeeps, PlaceIsKept, PlacedKeeps, CallKeeps, StoreKeeps, EmitKeeps
        DEF P!Next

LEMMA PlanStarts == ASSUME P!Init PROVE PlanInv
<1>1. Named
  <2>1. CASE policy = P!Auto
    BY <2>1 DEF Named
  <2>2. CASE policy # P!Auto
    <3>1. PICK n \in 0..MaxOps : policy \in [1..n -> P!NamesInUse]
      <4>1. policy \in UNION {[1..n -> P!NamesInUse] : n \in 0..MaxOps}
        BY <2>2 DEF P!Init
      <4>2. PICK some \in {[1..n -> P!NamesInUse] : n \in 0..MaxOps} : policy \in some
        BY <4>1
      <4> QED BY <4>2
    <3>2. n \in Nat
      BY <3>1, PoliciesAssumption
    <3> QED BY <3>1, <3>2 DEF Named
  <2> QED BY <2>1, <2>2
<1> QED BY <1>1 DEF P!Init, PlanInv

(* For every set of bound roles and every policy, of however many names: a *)
(* policy is refused exactly when its operators have no order in which     *)
(* what they take is given, never the one nobody names, and rows sent on   *)
(* are stored, declared and where they are read.                           *)
THEOREM PoliciesRunInOrder == Spec => []RowsReachTheirReaders
<1>1. Init => PlanInv
  BY PlanStarts DEF Init
<1>2. PlanInv /\ [Next]_vars => PlanInv'
  <2> SUFFICES ASSUME PlanInv, [Next]_vars PROVE PlanInv'
    OBVIOUS
  <2>1. P!Next \/ UNCHANGED planVars
    BY DEF Next, vars, LevelsSteps, FramesSteps, TextSteps, SpeechSteps, LinesSteps, SegmentsSteps, PlanSteps
  <2> QED BY <2>1, PlanIsKept
<1>3. PlanInv => RowsReachTheirReaders
  BY DEF PlanInv, RowsFlow, RowsReachTheirReaders, P!RowsReachTheirReaders
<1> QED BY <1>1, <1>2, <1>3, PTL DEF Spec
=============================================================================
