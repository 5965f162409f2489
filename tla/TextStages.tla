----------------------------- MODULE TextStages -----------------------------
(***************************************************************************)
(* Three stages that call a provider for what they are given: `ocr` reads  *)
(* the frames whose picture changed, `text_embed` embeds the lines it      *)
(* emits in batches, `image_embed` embeds the frames that look new         *)
(* (ops/ocr.rs, ops/text_embed.rs, ops/image_embed.rs).  They share the    *)
(* job's budget, which may close at any call; a call that fails is         *)
(* recorded and the stage goes on.  Texts are embedded by a server whose   *)
(* rows come in any order (adapters/openai_compat.rs).                     *)
(***************************************************************************)
EXTENDS Naturals, Sequences, FiniteSets

CONSTANTS
  MaxFrames,  \* bound: sampled frames, one a second
  Lines,      \* bound: texts that may be on the screen
  MaxGap,     \* models.ocr.max_gap_secs
  Batch       \* max_batch of the embedders

VARIABLES
  screen,   \* the sampled frames: [look, lines]; looks stand for hash and pixels
  open,     \* whether the budget allows another provider call
  gate,     \* ocr: last_hash, last_sig and last_t, as [frame, look]
  onScreen, \* ocr: last_lines
  reading,  \* ocr: the frame whose call is under way, 0 when none
  seen,     \* ocr: frames taken
  rows,     \* ocr: the stored spans, as emitted: [frame, line]
  waiting,  \* text_embed: st.pending
  taken,    \* text_embed: spans taken from the channel
  vectors,  \* text_embed: the embeddings stored, <<span, the span embedded>>
  look,     \* image_embed: last_hash, 0 when none
  pictures, \* image_embed: st.pending
  looked,   \* image_embed: frames taken
  images,   \* image_embed: the frames embedded
  missed,   \* what each stage recorded as failed or skipped
  state     \* each stage: "runs", "finished", "failed"

vars == <<screen, open, gate, onScreen, reading, seen, rows, waiting, taken,
          vectors, look, pictures, looked, images, missed, state>>

Stages == {"ocr", "text", "image"}
None == 0
NoGate == [frame |-> 0, look |-> None]

Init ==
  /\ screen \in [1..MaxFrames -> [look : {1, 2}, lines : SUBSET Lines]]
  /\ screen[1].look = 1 /\ open = TRUE
  /\ gate = NoGate /\ onScreen = {} /\ reading = 0 /\ seen = 0 /\ rows = <<>>
  /\ waiting = <<>> /\ taken = 0 /\ vectors = {}
  /\ look = None /\ pictures = <<>> /\ looked = 0 /\ images = {}
  /\ missed = [s \in Stages |-> 0]
  /\ state = [s \in Stages |-> "runs"]

Missed(s, n) == missed' = [missed EXCEPT ![s] = @ + n]
AllRun == \A s \in Stages : state[s] # "failed"

-----------------------------------------------------------------------------
(* Spending reached a limit, or the time is over. *)
Exhaust ==
  /\ open /\ open' = FALSE
  /\ UNCHANGED <<screen, gate, onScreen, reading, seen, rows, waiting, taken,
                 vectors, look, pictures, looked, images, missed, state>>
(* An answer a stage cannot use, such as too few vectors, ends the job. *)
Fail(s) ==
  /\ state[s] = "runs" /\ AllRun
  /\ state' = [state EXCEPT ![s] = "failed"]
  /\ UNCHANGED <<screen, open, gate, onScreen, reading, seen, rows, waiting, taken,
                 vectors, look, pictures, looked, images, missed>>

-----------------------------------------------------------------------------
ImageVars == <<look, pictures, looked, images>>
TextVars == <<waiting, taken, vectors>>
Others == <<screen, open>>

GateAtEveryFrame(t) == [frame |-> t, look |-> screen[t].look]  \* also when nothing is read

(* Ocr::run: a frame is read when the picture changed since the frame the  *)
(* gate is at, or that frame is MaxGap old; the gate moves before the call.*)
Changed(t) ==
  gate = NoGate \/ screen[t].look # gate.look \/ t - gate.frame >= MaxGap
GateAfter(t) == IF Changed(t) THEN [frame |-> t, look |-> screen[t].look] ELSE gate
OcrTakes ==
  /\ AllRun /\ state["ocr"] = "runs" /\ reading = 0 /\ seen < Len(screen)
  /\ LET t == seen + 1
     IN /\ seen' = t /\ gate' = GateAfter(t)
        /\ reading' = IF Changed(t) /\ open THEN t ELSE 0
        /\ IF Changed(t) /\ ~open THEN Missed("ocr", 1) ELSE UNCHANGED missed
  /\ UNCHANGED <<onScreen, rows, state, Others, TextVars, ImageVars>>

(* The call's answer: the lines that were not in the last answer are stored*)
(* and emitted.                                                            *)
LineSeqs(set) == {s \in [1..Cardinality(set) -> set] : {s[i] : i \in DOMAIN s} = set}
OcrReads ==
  /\ AllRun /\ reading > 0
  /\ LET new == screen[reading].lines \ onScreen
     IN \E s \in LineSeqs(new) :
          rows' = rows \o [i \in DOMAIN s |-> [frame |-> reading, line |-> s[i]]]
  /\ onScreen' = screen[reading].lines /\ reading' = 0
  /\ UNCHANGED <<gate, seen, missed, state, Others, TextVars, ImageVars>>
OcrCallFails ==
  /\ AllRun /\ reading > 0 /\ reading' = 0 /\ Missed("ocr", 1)
  /\ UNCHANGED <<gate, onScreen, seen, rows, state, Others, TextVars, ImageVars>>
OcrFinishes ==
  /\ AllRun /\ state["ocr"] = "runs" /\ seen = Len(screen) /\ reading = 0
  /\ state' = [state EXCEPT !["ocr"] = "finished"]
  /\ UNCHANGED <<gate, onScreen, reading, seen, rows, missed, Others, TextVars, ImageVars>>
OcrVars == <<gate, onScreen, reading, seen, rows>>

-----------------------------------------------------------------------------
(* TextEmbed::run: a span joins what waits; a full batch is flushed before *)
(* the next is taken, the rest when the input ended.                       *)
TextTakes ==
  /\ AllRun /\ state["text"] = "runs" /\ taken < Len(rows) /\ Len(waiting) < Batch
  /\ taken' = taken + 1 /\ waiting' = Append(waiting, taken + 1)
  /\ UNCHANGED <<vectors, missed, state, Others, OcrVars, ImageVars>>
InputEnded == state["ocr"] = "finished" /\ taken = Len(rows)
TextFlushDue == waiting # <<>> /\ (Len(waiting) >= Batch \/ InputEnded)
(* embed: each row has the index of its text; the rows are sorted by it,   *)
(* and too few rows are a failed call.                                     *)
Answered(texts) ==
  {[k \in DOMAIN order |-> [index |-> order[k] - 1, of |-> texts[order[k]]]] :
     order \in {o \in [DOMAIN texts -> DOMAIN texts] : \A i, j \in DOMAIN texts : i = j \/ o[i] # o[j]}}
InIndexOrder(p, answer) ==
  /\ {p[i] : i \in DOMAIN p} = DOMAIN answer
  /\ \A i, j \in DOMAIN p : i < j => answer[p[i]].index <= answer[p[j]].index
ByIndex(answer) ==
  LET p == CHOOSE p \in [DOMAIN answer -> DOMAIN answer] : InIndexOrder(p, answer)
  IN [i \in DOMAIN answer |-> answer[p[i]]]
(* flush: the budget is asked once a batch; a batch fails as a whole; the  *)
(* vectors are stored under the spans by position.                         *)
TextFlushes ==
  /\ AllRun /\ state["text"] = "runs" /\ TextFlushDue
  /\ \/ /\ open /\ UNCHANGED missed
        /\ \E answer \in Answered(waiting) :
             vectors' = vectors \cup {<<waiting[i], ByIndex(answer)[i].of>> : i \in DOMAIN waiting}
     \/ Missed("text", Len(waiting)) /\ UNCHANGED vectors
  /\ waiting' = <<>>
  /\ UNCHANGED <<taken, state, Others, OcrVars, ImageVars>>
TextFinishes ==
  /\ AllRun /\ state["text"] = "runs" /\ InputEnded /\ ~TextFlushDue
  /\ state' = [state EXCEPT !["text"] = "finished"]
  /\ UNCHANGED <<missed, Others, OcrVars, TextVars, ImageVars>>

(* ImageEmbed::run and flush: a frame that looks like the last one kept is *)
(* dropped; a batch is embedded, skipped or failed as a whole.             *)
ImageTakes ==
  /\ AllRun /\ state["image"] = "runs" /\ looked < Len(screen) /\ Len(pictures) < Batch
  /\ LET t == looked + 1
     IN /\ looked' = t
        /\ IF screen[t].look = look THEN UNCHANGED <<look, pictures>>
           ELSE look' = screen[t].look /\ pictures' = Append(pictures, t)
  /\ UNCHANGED <<images, missed, state, Others, OcrVars, TextVars>>
FramesEnded == looked = Len(screen)
ImageFlushDue == pictures # <<>> /\ (Len(pictures) >= Batch \/ FramesEnded)
ImageFlushes ==
  /\ AllRun /\ state["image"] = "runs" /\ ImageFlushDue
  /\ \/ open /\ images' = images \cup {pictures[i] : i \in DOMAIN pictures} /\ UNCHANGED missed
     \/ Missed("image", Len(pictures)) /\ UNCHANGED images
  /\ pictures' = <<>>
  /\ UNCHANGED <<look, looked, state, Others, OcrVars, TextVars>>
ImageFinishes ==
  /\ AllRun /\ state["image"] = "runs" /\ FramesEnded /\ ~ImageFlushDue
  /\ state' = [state EXCEPT !["image"] = "finished"]
  /\ UNCHANGED <<missed, Others, OcrVars, TextVars, ImageVars>>

Next ==
  \/ Exhaust \/ \E s \in Stages : Fail(s)
  \/ OcrTakes \/ OcrReads \/ OcrCallFails \/ OcrFinishes
  \/ TextTakes \/ TextFlushes \/ TextFinishes
  \/ ImageTakes \/ ImageFlushes \/ ImageFinishes

Spec == Init /\ [][Next]_vars

-----------------------------------------------------------------------------
Clean(s) == state[s] = "finished" /\ missed[s] = 0

(* A stage that ended well with nothing failed or skipped gets a marker    *)
(* and is never asked again, so it must have missed nothing: a text that   *)
(* stayed on the screen for MaxGap was read, although most frames are not; *)
(* every line read has an embedding, its own, in whatever order the server *)
(* answers; every frame has an embedded frame before it that looked the    *)
(* same, all the way to it.                                                *)
CleanStagesMissNothing ==
  /\ Clean("ocr") =>
       \A l \in Lines, from \in 1..Len(screen) : \A to \in (from + MaxGap)..Len(screen) :
         (\A t \in from..to : l \in screen[t].lines) =>
           \E i \in DOMAIN rows : rows[i].line = l /\ rows[i].frame <= to
  /\ Clean("text") => vectors = {<<i, i>> : i \in DOMAIN rows}
  /\ Clean("image") =>
       \A t \in 1..Len(screen) :
         \E i \in images : i <= t /\ \A u \in i..t : screen[u].look = screen[t].look
=============================================================================
