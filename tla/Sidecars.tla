------------------------------ MODULE Sidecars ------------------------------
(***************************************************************************)
(* Subtitles beside a media file: found (sidecar.rs: find), moved into the *)
(* cache with the media (acquire.rs: move_into_cache) and imported         *)
(* (ops/subtitle_import.rs) after the repetitions of rolling captions are  *)
(* taken out (dedup_rolling_captions) and short cues grouped (group_cues). *)
(*                                                                         *)
(* A file name is a sequence of tokens, a text one of letters and spaces:  *)
(* what is matched by prefix is.                                           *)
(***************************************************************************)
EXTENDS Naturals, Sequences, SequencesExt, FiniteSets

CONSTANTS
  Stems,         \* stems of the media files in the directory, token sequences
  Words,         \* letter sequences
  MaxLines,      \* bound: lines spoken
  Target, MaxGap \* GROUP_SECS and GAP_SECS

VARIABLES
  dir,           \* names of the subtitle files beside the media
  lines,         \* what is spoken, one sequence of words per line
  style,         \* how the captions of the site show it
  job,           \* stem -> [at, found, moved]
  cached,        \* subtitles under a hash: [of |-> stem, language]
  spans          \* stem -> imported spans: [t0, t1, text, cues]

vars == <<dir, lines, style, job, cached, spans>>

Dots(s) == Cardinality({i \in DOMAIN s : s[i] = "."})

\* The language a name's rest shows: what is between the dots, if anything.
Language(rest) ==
  LET bare == IF rest # <<>> /\ rest[1] = "." THEN Tail(rest) ELSE rest
  IN IF Dots(bare) = 0 THEN <<>> ELSE SubSeq(bare, 1, Len(bare) - 2)

Rest(stem, name) == SubSeq(name, Len(stem) + 1, Len(name))

\* sidecar::find.
Find(stem, files) ==
  {name \in files : /\ IsPrefix(stem, name) /\ Last(name) = "srt"
                    /\ Dots(Rest(stem, name)) <= 2}

-----------------------------------------------------------------------------
\* Captions are cues [t0, t1, text].

Spaced(words) ==
  FoldLeft(LAMBDA text, w : IF text = <<>> THEN w ELSE text \o <<" ">> \o w, <<>>, words)

\* One cue per line, two seconds each, the third line after a pause.
Time(i) == 2 * i + (IF i > 2 THEN MaxGap + 1 ELSE 0)
PlainCues(said) ==
  [i \in DOMAIN said |-> [t0 |-> Time(i), t1 |-> Time(i) + 2, text |-> Spaced(said[i])]]

\* Rolling: A, A B, B, B C, C.
RollingCues(said) ==
  FlattenSeq([i \in DOMAIN said |->
    LET alone == [t0 |-> Time(i), t1 |-> Time(i) + 1, text |-> Spaced(said[i])]
        both == [t0 |-> Time(i) + 1, t1 |-> Time(i + 1),
                 text |-> Spaced(said[i]) \o <<" ">> \o Spaced(said[i + 1])]
    IN IF i < Len(said) THEN <<alone, both>> ELSE <<alone>>])

Captions(said, how) == IF how = "rolling" THEN RollingCues(said) ELSE PlainCues(said)

Later(a, b) == IF a > b THEN a ELSE b
Extended(cues, t) == [cues EXCEPT ![Len(cues)].t1 = Later(@, t)]
Unspaced(text) == IF text # <<>> /\ text[1] = " " THEN Tail(text) ELSE text

\* The tail of the cue before is not looked for.
DedupedHeads(cues) ==
  FoldLeft(LAMBDA st, c :
    IF st.out # <<>> /\ c.text = st.full
    THEN [st EXCEPT !.out = Extended(@, c.t1)]
    ELSE IF st.out # <<>> /\ IsPrefix(st.full, c.text)
    THEN [full |-> c.text,
          out |-> Append(st.out, [c EXCEPT !.text = Unspaced(Rest(st.full, c.text))])]
    ELSE [full |-> c.text, out |-> Append(st.out, c)],
    [full |-> <<>>, out |-> <<>>], cues).out

\* dedup_rolling_captions: full is the whole text of the cue before.
Deduped(cues) ==
  FoldLeft(LAMBDA st, c :
    IF st.out # <<>> /\ c.text = st.full
    THEN [st EXCEPT !.out = Extended(@, c.t1)]
    ELSE IF st.out # <<>> /\ IsStrictSuffix(c.text, st.full)
            /\ st.full[Len(st.full) - Len(c.text)] = " "
    THEN [full |-> c.text, out |-> Extended(st.out, c.t1)]
    ELSE IF st.out # <<>> /\ IsPrefix(st.full, c.text)
    THEN [full |-> c.text,
          out |-> Append(st.out, [c EXCEPT !.text = Unspaced(Rest(st.full, c.text))])]
    ELSE [full |-> c.text, out |-> Append(st.out, c)],
    [full |-> <<>>, out |-> <<>>], cues).out

\* group_cues, the cues a span is made of counted.
Grouped(cues) ==
  FoldLeft(LAMBDA out, c :
    IF /\ out # <<>> /\ c.t1 - Last(out).t0 <= Target
       /\ (c.t0 > Last(out).t1 => c.t0 - Last(out).t1 <= MaxGap)
    THEN [out EXCEPT ![Len(out)] = [t0 |-> @.t0, t1 |-> Later(@.t1, c.t1),
                                    text |-> @.text \o <<" ">> \o c.text, cues |-> @.cues + 1]]
    ELSE Append(out, [t0 |-> c.t0, t1 |-> c.t1, text |-> c.text, cues |-> 1]),
    <<>>, cues)

-----------------------------------------------------------------------------
\* Every media file has its own subtitles; one has them in two languages, with
\* the same captions in both (en and en-orig).
Files == {s \o <<".", "en", ".", "srt">> : s \in Stems}
         \cup {s \o <<".", "srt">> : s \in Stems}

Init ==
  /\ dir \in {Files, {s \o <<".", "srt">> : s \in Stems}}
  /\ lines \in UNION {[1..n -> {<<w>> : w \in Words} \cup {<<w, v>> : w, v \in Words}] :
                        n \in 1..MaxLines}
  /\ style \in {"rolling", "plain"}
  /\ job = [s \in Stems |-> [at |-> "new", found |-> {}, moved |-> {}]]
  /\ cached = {} /\ spans = [s \in Stems |-> <<>>]

Look(s) ==
  /\ job[s].at = "new"
  /\ job' = [job EXCEPT ![s].at = "found", ![s].found = Find(s, dir)]
  /\ UNCHANGED <<dir, lines, style, cached, spans>>

\* move_into_cache, one file after the other; a file that is gone fails it.
Move(s, name) ==
  /\ job[s].at = "found" /\ name \in job[s].found
  /\ IF name \in dir
     THEN /\ dir' = dir \ {name}
          /\ cached' = cached \cup {[of |-> s, language |-> Language(Rest(s, name))]}
          /\ job' = [job EXCEPT ![s].found = @ \ {name}, ![s].moved = @ \cup {name}]
     ELSE job' = [job EXCEPT ![s].at = "failed"] /\ UNCHANGED <<dir, cached>>
  /\ UNCHANGED <<lines, style, spans>>

\* subtitle_import: files with the same captions as an earlier one are skipped.
Import(s) ==
  /\ job[s].at = "found" /\ job[s].found = {}
  /\ spans' = [spans EXCEPT ![s] = IF job[s].moved = {} THEN <<>>
                                   ELSE Grouped(Deduped(Captions(lines, style)))]
  /\ job' = [job EXCEPT ![s].at = "imported"]
  /\ UNCHANGED <<dir, lines, style, cached>>

Next == \E s \in Stems : Look(s) \/ (\E name \in Files : Move(s, name)) \/ Import(s)

Spec == Init /\ [][Next]_vars

-----------------------------------------------------------------------------
TextOf(s) == Spaced([i \in DOMAIN spans[s] |-> spans[s][i].text])

(* (P1) Rolling captions come out as the lines spoken, each once, whatever *)
(* they repeat of one another; spans are in order, short unless they are   *)
(* one cue (sidecar.rs:364-450).  And media whose names do not start alike *)
(* keep their subtitles, in whatever order and between whatever steps of   *)
(* another they are acquired.                                              *)
SubtitlesSayTheLines ==
  \A s \in Stems :
    /\ job[s].at = "imported" /\ style = "rolling" => TextOf(s) = Spaced(FlattenSeq(lines))
    /\ \A i \in DOMAIN spans[s] :
         /\ spans[s][i].cues > 1 => spans[s][i].t1 - spans[s][i].t0 <= Target
         /\ i > 1 => spans[s][i - 1].t1 <= spans[s][i].t0
    /\ (\A t \in Stems : s = t \/ ~IsPrefix(t, s)) =>
         job[s].at # "failed" /\ (job[s].at = "imported" => spans[s] # <<>>)

Split(text) ==
  FoldLeft(LAMBDA words, x : IF x = " " THEN Append(words, <<>>)
                             ELSE [words EXCEPT ![Len(words)] = Append(@, x)],
           <<<<>>>>, text)

(* What sidecar.rs:367 says of a cue that extends the one before: it       *)
(* becomes the new material only.  That is words of what was said.         *)
OnlyWordsAreLeft ==
  \A s \in Stems : \A i \in DOMAIN spans[s] : ToSet(Split(spans[s][i].text)) \subseteq Words
=============================================================================
