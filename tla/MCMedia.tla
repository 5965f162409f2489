------------------------------ MODULE MCMedia ------------------------------
(***************************************************************************)
(* Instances for TLC of the path of media into the pipeline: the subtitles *)
(* beside media, decodes of a window and of a recording in progress, and   *)
(* the detectors of speech and text that run on what they yield.           *)
(* They are checked side by side.                                          *)
(***************************************************************************)
EXTENDS Naturals, Sequences, FiniteSets

CONSTANTS
  Interval, Chunk, TickEvery, Reanchor, Never,
  Intervals, KeyEvery, KeyframeHint, Piece, Overlaps, Lead, None,
  MinSilence, MinSpeech, Pad, MaxUtterance, FlushAfter, MaxSegment, MaxWindows,
  Slack, MaxStretches, MaxJump, MaxLag,
  Width, Height, DetThreshold, MinSide, MinCrop, Batch,
  MaxLines, Target, MaxGap

VARIABLES
  part,  \* the part this behaviour is about; the others stay as they start
  recording, follow, store, at, index, last, video, audio, sampler, chunker,
  codec, firstAudio, nextTick, lastTick, frames, chunks, gaps,
  call, answer,
  heard, clock, inSpeech, run, pcmStart, pcmEnd, lastEnd, closed, out,
  ticked, ended,
  prob, labels, region, stack, boxes, phase, order, waiting, results,
  screenLines,
  dir, lines, style, job, cached, spans

Segment(from, to, jump, c, n) ==
  [t0 |-> from, t1 |-> to, discontinuity |-> jump, codec |-> c, audio |-> n]

(* Three segments: the second may be a discontinuity, another codec, short *)
(* of audio or ahead of its clock; the third may follow a hole, and may    *)
(* have no audio.                                                          *)
Recordings ==
  {<<Segment(0, 4, FALSE, "aac", 4), Segment(4, 8, d, c, n), Segment(h, h + 4, FALSE, c, m)>> :
     d \in BOOLEAN, c \in {"aac", "ac3"}, n \in {2, 3, 6}, h \in {8, 9, 14}, m \in {0, 4}}

Usual == CHOOSE r \in Recordings : TRUE

(* Windows within a segment, over cuts, from a cut, in a hole, past the    *)
(* end, and all of it.                                                     *)
Windows == {<<0, None>>, <<0, 8>>, <<3, 10>>, <<5, 7>>, <<5, 16>>, <<16, 18>>, <<20, 30>>}

AnyCall == [media : {Usual}, t0 : {0}, t1 : {None}, interval : Intervals, overlap : Overlaps]

(* Maps of blocks of text that stand apart, touch or overlap, one corner   *)
(* of which may be faint; a frame that is no multiple of its map.          *)
Block(x, y, w, h) == {j * Width + i : i \in x..(x + w - 1), j \in y..(y + h - 1)}
Blocks ==
  {Block(4, 0, 1, 4), Block(2, 2, 1, 1), Block(0, 3, 1, 1), Block(0, 0, 2, 2),
   Block(1, 1, 2, 2), Block(0, 1, 1, 3), Block(3, 0, 2, 1), Block(2, 3, 2, 1)}
Maps ==
  {[c \in 0..(Width * Height - 1) |->
      IF c \notin UNION blocks THEN 0 ELSE IF c \in Block(0, 0, 3, 2) THEN corner ELSE 2] :
     blocks \in SUBSET Blocks, corner \in {1, 2}}
BoxThreshold == <<3, 4>>
Unclip == <<16, 10>>
Source == <<7, 8>>

Stems == {<<"talk">>, <<"demo">>}
Words == {<<"a">>, <<"a", "b">>}

L == INSTANCE LiveDecode
R == INSTANCE RangeDecode WITH
  Media <- Recordings
S == INSTANCE Speech
O == INSTANCE ScreenText WITH
  lines <- screenLines
C == INSTANCE Sidecars

liveVars == <<recording, follow, store, at, index, last, video, audio,
  sampler, chunker, codec, firstAudio, nextTick, lastTick, frames, chunks,
  gaps>>
windowVars == <<call, answer>>
speechVars == <<heard, clock, inSpeech, run, pcmStart, pcmEnd, lastEnd,
  closed, out, ticked, ended>>
screenVars == <<prob, labels, region, stack, boxes, phase, order, waiting,
  results, screenLines>>
subtitlesVars == <<dir, lines, style, job, cached, spans>>
vars == <<part, liveVars, windowVars, speechVars, screenVars, subtitlesVars>>

Parts == {"live", "window", "speech", "screen", "subtitles"}

Init ==
  /\ part \in Parts
  /\ L!Init /\ (part # "live" => recording = Usual /\ follow /\ ~store.exists)
  /\ R!Init /\ (part # "window" => call = CHOOSE c \in AnyCall : TRUE)
  /\ S!Init
  /\ IF part = "screen" THEN TRUE ELSE prob = [c \in 0..(Width * Height - 1) |-> 0]
  /\ O!Init
  /\ C!Init /\ (part # "subtitles" => Cardinality(dir) = 2 /\ style = "plain" /\ lines = <<<<<<"a">>>>>>)

LiveSteps ==
  /\ part = "live" /\ L!Next
  /\ UNCHANGED <<part, windowVars, speechVars, screenVars, subtitlesVars>>

WindowSteps ==
  /\ part = "window" /\ R!Next
  /\ UNCHANGED <<part, liveVars, speechVars, screenVars, subtitlesVars>>

SpeechSteps ==
  /\ part = "speech" /\ S!Next
  /\ UNCHANGED <<part, liveVars, windowVars, screenVars, subtitlesVars>>

ScreenSteps ==
  /\ part = "screen" /\ O!Next
  /\ UNCHANGED <<part, liveVars, windowVars, speechVars,
                subtitlesVars>>

SubtitlesSteps ==
  /\ part = "subtitles" /\ C!Next
  /\ UNCHANGED <<part, liveVars, windowVars, speechVars,
                screenVars>>

Next ==
  \/ LiveSteps
  \/ WindowSteps
  \/ SpeechSteps
  \/ ScreenSteps
  \/ SubtitlesSteps

Spec == Init /\ [][Next]_vars

-----------------------------------------------------------------------------
(* A live pass emits the first frame at or after each target, once, and    *)
(* before the tick that passes it; every sample of its audio is in one     *)
(* chunk, at the time it claims.                                           *)
LivePassIsWhole == L!FramesAsSampled /\ L!AudioIsWhole

(* protocol.rs:342 of a tick, for the audio.                               *)
AudioBeforeTicks == L!AudioBeforeTicks

(* Frames of a window, whichever of the three ways it is decoded; the      *)
(* samples of its audio, from a file and from segments.                    *)
WindowsAgree == R!WindowsAgree /\ R!AudioWindowsAreWhole

(* What the decoder's clients take for granted of both kinds of decode.    *)
DecodesAreWhole == LivePassIsWhole /\ WindowsAgree

(* decode.rs:1313 of the tail a flush drops.                               *)
DroppedTailsWereHeard == R!DroppedTailsWereHeard

(* Live speech detection counts the windows the batch detector counts, and *)
(* the batch detector cuts and pads without losing speech.                 *)
SpeechIsHeard == S!LiveHearsAsBatch /\ S!BatchKeepsSpeech

(* vad_stream.rs:137 of speech cut at the longest utterance.               *)
PiecesStayContiguous == S!PiecesStayContiguous

(* However text lies on a frame, each region is read once, in order.       *)
ScreenIsReadInOrder == O!ScreenIsReadInOrder

(* Imported subtitles say what was spoken, under the right media.          *)
SubtitlesSayTheLines == C!SubtitlesSayTheLines

(* sidecar.rs:367 of a cue that extends the one before.                    *)
OnlyWordsAreLeft == C!OnlyWordsAreLeft
=============================================================================
