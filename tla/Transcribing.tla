---------------------------- MODULE Transcribing ----------------------------
(***************************************************************************)
(* The `asr` stage over the jobs of one video (ops/asr.rs): a request for  *)
(* each speech range, several in flight and answered in any order, each    *)
(* answer cut into spans (split_long_segments, group_segments), stored and *)
(* emitted; reap folds finished requests in.  A request may fail, the      *)
(* budget may close, the stage may fail, the process may crash; a job that *)
(* left nothing out has a marker and is not run again.                     *)
(*                                                                         *)
(* An answer is the body of a transcription, [segments, words, text,       *)
(* duration] (adapters/openai_compat.rs, which turns it into segments): a  *)
(* server gives segments with or without words, words alone, or only text. *)
(* A segment is [start, end, text, words].  A word is [start, end, stop],  *)
(* stop when it ends a sentence; a text is the sequence of its words.      *)
(***************************************************************************)
EXTENDS Naturals, Sequences, FiniteSets, SequencesExt

CONSTANTS
  Answers,      \* bound: the bodies a range may be answered with
  NumRanges,    \* bound: speech ranges
  SpanSecs,     \* models.asr.span_secs
  Gap,          \* a pause that starts a new span (1.5 s)
  WordGap,      \* the adapter's, between words without segments (1 s)
  WordSpan,     \* and the longest segment it makes of them (15 s)
  Concurrency,  \* models.asr.concurrency
  MaxRuns       \* bound: jobs

VARIABLES
  answer,   \* what the provider hears in each range
  humans,   \* whether human-authored subtitles are there (skip_if_human_subtitles)
  runs, phase,   \* jobs begun; "idle", "hears", "finishes", "ended", "failed", "cached"
  next,     \* the range the stage takes next
  admitted, \* whether the budget let that range pass
  flying,   \* requests under way: range -> "called", "heard", "stored"
  missed,   \* ranges failed or skipped in this job
  open,     \* whether the budget allows a call
  stored    \* the transcript: [range, run, spans]

vars == <<answer, humans, runs, phase, next, admitted, flying, missed, open, stored>>

MostOf(S) == CHOOSE x \in S : \A y \in S : y <= x
AtLeastOne(n) == IF n = 0 THEN 1 ELSE n
NoCalls == [r \in {} |-> "called"]

-----------------------------------------------------------------------------
SegmentOf(words) ==
  [start |-> words[1].start, end |-> Last(words).end, text |-> words, words |-> words]

(* segments_from_verbose: segments with text are taken as they come;       *)
(* without any, words are cut at pauses and when they get too long, and a  *)
(* mere text is one segment.  Words beside segments that have none go to   *)
(* the first segment around their middle.                                  *)
StartsSegment(cur, w) == w.start > Last(cur).end + WordGap \/ w.end > cur[1].start + WordSpan
CutAtPauses(words) ==
  LET add(runsOfWords, w) ==
        IF runsOfWords = <<>> \/ StartsSegment(Last(runsOfWords), w)
        THEN Append(runsOfWords, <<w>>)
        ELSE [runsOfWords EXCEPT ![Len(runsOfWords)] = Append(@, w)]
      cut == FoldLeft(add, <<>>, words)
  IN [k \in 1..Len(cut) |-> SegmentOf(cut[k])]
Around(s, w) ==
  LET middle == w.start + w.end  \* twice the time
  IN 2 * s.start <= middle /\ (middle < 2 * s.end \/ (s.end = s.start /\ middle = 2 * s.end))
Attached(segs, words) ==
  [k \in 1..Len(segs) |->
     [segs[k] EXCEPT !.words =
        SelectSeq(words, LAMBDA w : Around(segs[k], w) /\ \A j \in 1..(k - 1) : ~Around(segs[j], w))]]
SegmentsFromVerbose(body) ==
  LET said == SelectSeq(body.segments, LAMBDA s : s.text # <<>>)
  IN CASE said = <<>> /\ body.words # <<>> -> CutAtPauses(body.words)
       [] said = <<>> /\ body.words = <<>> /\ body.text # <<>> ->
            << [start |-> 0, end |-> body.duration, text |-> body.text, words |-> <<>>] >>
       [] said # <<>> /\ body.words # <<>> /\ (\A k \in 1..Len(said) : said[k].words = <<>>) ->
            Attached(said, body.words)
       [] OTHER -> said
\* OpenAiCompat::transcribe.
Transcribe(r) == SegmentsFromVerbose(answer[r])

-----------------------------------------------------------------------------
(* split_long_segments: the last word of the piece that starts at word i.  *)
Piece(words, i) ==
  LET lastFit == MostOf({j \in i..Len(words) :
                   \A k \in (i + 1)..j : words[k].end <= words[i].start + SpanSecs})
      lo == i + (lastFit - i) \div 2
      stops == {k \in lo..lastFit : words[k].stop}
      pause(k) == words[k + 1].start - words[k].end
      pauses == {k \in lo..(lastFit - 1) : \A j \in lo..(lastFit - 1) : pause(j) <= pause(k)}
  IN CASE lastFit = Len(words) -> lastFit
       [] lastFit < Len(words) /\ stops # {} -> MostOf(stops)
       [] lastFit < Len(words) /\ stops = {} /\ pauses # {} -> MostOf(pauses)
       [] OTHER -> lastFit
Pieces(seg) ==
  LET words == seg.words
      from[i \in 1..(Len(words) + 1)] ==
        IF i > Len(words) THEN <<>>
        ELSE LET end == Piece(words, i)
             IN <<SegmentOf(SubSeq(words, i, end))>> \o from[end + 1]
  IN IF seg.end - seg.start <= SpanSecs \/ Len(words) < 4 THEN <<seg>>
     ELSE from[1]
SplitLongSegments(segs) == FlattenSeq([k \in 1..Len(segs) |-> Pieces(segs[k])])

(* group_segments: a span ends at a pause, and before it gets too long;    *)
(* blank segments are left out.                                            *)
StartsSpan(cur, s) == s.start > Last(cur).end + Gap \/ s.end > cur[1].start + SpanSecs
GroupSegments(segs) ==
  LET said == SelectSeq(SplitLongSegments(segs), LAMBDA s : s.text # <<>>)
      add(spans, s) ==
        IF spans = <<>> \/ StartsSpan(Last(spans), s) THEN Append(spans, <<s>>)
        ELSE [spans EXCEPT ![Len(spans)] = Append(@, s)]
  IN FoldLeft(add, <<>>, said)
WordsOf(segs) == FlattenSeq([k \in 1..Len(segs) |-> segs[k].text])

-----------------------------------------------------------------------------
Init ==
  /\ answer \in [1..NumRanges -> Answers] /\ humans = FALSE
  /\ runs = 0 /\ phase = "idle" /\ next = 1 /\ admitted = FALSE
  /\ flying = NoCalls /\ missed = {} /\ open = TRUE /\ stored = {}

NothingEarlier == {}  \* a stage that does not replace its transcript

(* The media item: an earlier transcript of this operator is deleted,      *)
(* unless human subtitles make the stage skip everything.                  *)
EarlierTranscript == stored
Begin(human) ==
  /\ runs < MaxRuns /\ phase \in {"idle", "ended", "failed"}
  /\ runs' = runs + 1 /\ humans' = human
  /\ stored' = IF human THEN stored ELSE stored \ EarlierTranscript
  /\ phase' = "hears" /\ next' = 1 /\ admitted' = FALSE
  /\ flying' = NoCalls /\ missed' = {} /\ open' = TRUE
  /\ UNCHANGED answer

(* run, a speech range: the budget is asked, then the stage waits for room.*)
Hear ==
  /\ phase = "hears" /\ next <= NumRanges /\ ~admitted
  /\ IF humans THEN next' = next + 1 /\ UNCHANGED <<admitted, missed>>
     ELSE IF open THEN admitted' = TRUE /\ UNCHANGED <<next, missed>>
     ELSE next' = next + 1 /\ missed' = missed \cup {next} /\ UNCHANGED admitted
  /\ UNCHANGED <<answer, humans, runs, phase, flying, open, stored>>
Room(limit) == Cardinality(DOMAIN flying) < AtLeastOne(limit)
Spawn ==
  /\ phase = "hears" /\ admitted /\ Room(Concurrency)
  /\ flying' = [r \in DOMAIN flying \cup {next} |-> IF r = next THEN "called" ELSE flying[r]]
  /\ admitted' = FALSE /\ next' = next + 1
  /\ UNCHANGED <<answer, humans, runs, phase, missed, open, stored>>

(* TranscribeJob::run: the call, the spans stored, the spans emitted. *)
Under == phase \in {"hears", "finishes"}
CallAnswered(r) ==
  /\ Under /\ flying[r] = "called"
  /\ flying' = [flying EXCEPT ![r] = "heard"]
  /\ UNCHANGED <<answer, humans, runs, phase, next, admitted, missed, open, stored>>
CallFails(r) ==
  /\ Under /\ flying[r] = "called"
  /\ flying' = [flying EXCEPT ![r] = "stored"] /\ missed' = missed \cup {r}
  /\ UNCHANGED <<answer, humans, runs, phase, next, admitted, open, stored>>
StoreSpans(r) ==
  /\ Under /\ flying[r] = "heard"
  /\ stored' = stored \cup
       {[range |-> r, run |-> runs, spans |-> spans] :
          spans \in {GroupSegments(Transcribe(r))} \ {<<>>}}
  /\ flying' = [flying EXCEPT ![r] = "stored"]
  /\ UNCHANGED <<answer, humans, runs, phase, next, admitted, missed, open>>
(* reap takes a request that ended, when there is no room or at the end. *)
Reap(r) ==
  /\ Under /\ flying[r] = "stored"
  /\ phase = "finishes" \/ (admitted /\ ~Room(Concurrency))
  /\ flying' = [o \in DOMAIN flying \ {r} |-> flying[o]]
  /\ UNCHANGED <<answer, humans, runs, phase, next, admitted, missed, open, stored>>

Finish ==
  /\ phase = "hears" /\ next > NumRanges /\ ~admitted /\ phase' = "finishes"
  /\ UNCHANGED <<answer, humans, runs, next, admitted, flying, missed, open, stored>>
(* The end of finish, and the marker run_prepared writes. *)
End ==
  /\ phase = "finishes" /\ DOMAIN flying = {}
  /\ phase' = IF missed = {} THEN "cached" ELSE "ended"
  /\ UNCHANGED <<answer, humans, runs, next, admitted, flying, missed, open, stored>>
Exhaust ==
  /\ Under /\ open /\ open' = FALSE
  /\ UNCHANGED <<answer, humans, runs, phase, next, admitted, flying, missed, stored>>
(* A storage error in a request, another stage's failure, or a crash: the  *)
(* requests under way are dropped where they are.                          *)
Stop ==
  /\ Under /\ phase' = "failed" /\ flying' = NoCalls
  /\ UNCHANGED <<answer, humans, runs, next, admitted, missed, open, stored>>

Next ==
  \/ \E human \in BOOLEAN : Begin(human)
  \/ Hear \/ Spawn \/ Finish \/ End \/ Exhaust \/ Stop
  \/ \E r \in DOMAIN flying : CallAnswered(r) \/ CallFails(r) \/ StoreSpans(r) \/ Reap(r)

Spec == Init /\ [][Next]_vars

-----------------------------------------------------------------------------
SpanLength(span) == Last(span).end - span[1].start
(* When a job that transcribed ends, with requests answered in any order,  *)
(* after jobs that failed half-way: the stored words are the ones heard in *)
(* each range that was not missed, whatever shape the server gave them,    *)
(* each once and in order, none of an earlier job is left, and no span is  *)
(* longer than span_secs unless it is a segment that cannot be cut or one  *)
(* word.                                                                   *)
TranscriptIsWhole ==
  phase \in {"ended", "cached"} /\ ~humans =>
    /\ \A t \in stored : t.run = runs
    /\ \A r \in 1..NumRanges :
         LET spans == {t.spans : t \in {u \in stored : u.range = r}}
             words == answer[r].text
         IN IF r \in missed \/ words = <<>> THEN spans = {}
            ELSE \E s \in spans : /\ spans = {s} /\ WordsOf(FlattenSeq(s)) = words
                                  /\ \A k \in 1..Len(s) : \/ SpanLength(s[k]) <= SpanSecs
                                                          \/ Len(s[k]) = 1
=============================================================================
