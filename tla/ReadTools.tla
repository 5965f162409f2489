------------------------------ MODULE ReadTools ------------------------------
(***************************************************************************)
(* The agent's reading tools over one video (vi-agent tools.rs, view.rs):  *)
(* get_transcript and its kin, view, zoom and describe. A call names one   *)
(* range or several windows; windows are merged, cut to the limits, read   *)
(* or decoded each on its own, and answered row by row. Times are whole    *)
(* seconds scaled down, a frame is the time it shows.                      *)
(***************************************************************************)
EXTENDS Integers, Sequences, FiniteSets, Functions

CONSTANTS
  Duration,          \* of the video
  Asked,             \* the windows a call may name: sequences of <<t0, t1>>
  Lines,             \* the rows of text: [t0, t1]
  ShotLists,         \* the shots the index may hold, sets of <<t0, t1>>
  MaxWindows,        \* windows of a call
  MaxText, MinText,  \* lines of a call, and lines any window may have
  ViewText, MinViewText,  \* those of a view
  MaxWindow, MultiWindow, DetailWindow, MaxFrames, DetailFrames,
  MinCrop, Sides     \* least side of a crop, sides of frames, in pixels

VARIABLES
  call,     \* the call: [tool, windows, multi, detail]
  at,       \* "asked", "reading", "answered", "refused" or "failed"
  wins,     \* the windows read: [t0, t1, cut]
  grids,    \* per window: Decoding, Nothing when it failed, or its grid
  rows,     \* the rows of the answer: [t0, t1, cut, text, truncated, shown]
  shots,    \* the shots in the index
  stored,   \* where a description was stored: [shot, shots, mid], or empty
  crop      \* the crop of a zoom: [from, to, side, start, len], or empty

vars == <<call, at, wins, grids, rows, shots, stored, crop>>

Least(a, b) == IF a < b THEN a ELSE b
Most(a, b) == IF a > b THEN a ELSE b
Half == 1            \* the half second a range is stretched by

Decoding == [t0 |-> 0, t1 |-> 0, frames |-> -1]
Nothing == [t0 |-> 0, t1 |-> 0, frames |-> 0]

Single == {w \in Asked : Len(w) = 1}

Init ==
  /\ call \in [tool : {"text", "view"}, windows : Asked, multi : {TRUE}, detail : BOOLEAN]
       \cup [tool : {"text", "view", "describe"}, windows : Single, multi : {FALSE}, detail : {FALSE}]
       \cup [tool : {"zoom"}, windows : {<<>>}, multi : {FALSE}, detail : {FALSE}]
  /\ at = "asked" /\ wins = <<>> /\ grids = <<>> /\ rows = <<>>
  /\ shots \in ShotLists /\ stored = <<>> /\ crop = <<>>

-----------------------------------------------------------------------------
(* Ranges *)

RangeArgs(w) == [t0 |-> Least(Most(w[1], 0), Duration),
                 t1 |-> Least(w[2], Most(Duration, w[1] + Half)),
                 cut |-> FALSE]

(* Mutant: a window that is merged takes the end of the later one.         *)
MergedIntoLast(last, w) == [last EXCEPT !.t1 = w.t1]

MergedInto(last, w) == [last EXCEPT !.t1 = Most(last.t1, w.t1)]

(* Sorted by start; sort_by keeps the order of windows that start together.*)
Sortings(ws) ==
  {[i \in DOMAIN ws |-> ws[p[i]]] : p \in
     {p \in Bijection(DOMAIN ws, DOMAIN ws) : \A i, j \in DOMAIN ws : i < j =>
        ws[p[i]].t0 < ws[p[j]].t0 \/ (ws[p[i]].t0 = ws[p[j]].t0 /\ p[i] < p[j])}}

(* Overlapping and touching windows merged.                                *)
MergedWith(done, w) ==
  IF done # <<>> /\ w.t0 <= done[Len(done)].t1
  THEN [done EXCEPT ![Len(done)] = MergedInto(done[Len(done)], w)]
  ELSE Append(done, w)

Merging(ws) ==
  LET merged[n \in 0..Len(ws)] == IF n = 0 THEN <<>> ELSE MergedWith(merged[n - 1], ws[n])
  IN merged

Ranges == [i \in DOMAIN call.windows |-> RangeArgs(call.windows[i])]

(* The windows a call comes to (there is one way to sort them).            *)
WindowsArgs ==
  IF call.multi THEN {Merging(ws)[Len(ws)] : ws \in Sortings(Ranges)} ELSE {Ranges}

(* The longest window of a view: a detail is short, and several windows    *)
(* are shorter than one.                                                   *)
CutTo(cap, ws) ==
  [i \in DOMAIN ws |-> IF ws[i].t1 - ws[i].t0 > cap
                       THEN [ws[i] EXCEPT !.t1 = ws[i].t0 + cap, !.cut = TRUE] ELSE ws[i]]

ViewWindows(ws) ==
  IF call.detail THEN CutTo(DetailWindow, ws)
  ELSE IF Len(ws) > 1 THEN CutTo(MultiWindow, ws) ELSE ws

(* ViewRequest::clamped: what is decoded of a window.                      *)
Clamped(w) ==
  LET t0 == Least(w.t0, Duration)
      t1 == Most(t0 + Half, Least(w.t1, Most(Duration, t0 + Half)))
  IN [t0 |-> t0, t1 |-> Least(t1, t0 + MaxWindow)]

-----------------------------------------------------------------------------
(* Calls *)

Refuse ==
  /\ at = "asked" /\ call.tool # "zoom"
  /\ \/ \E i \in DOMAIN call.windows : call.windows[i][2] <= call.windows[i][1]
     \/ call.multi /\ (call.windows = <<>> \/ \E ws \in WindowsArgs : Len(ws) > MaxWindows)
  /\ at' = "refused"
  /\ UNCHANGED <<call, wins, grids, rows, shots, stored, crop>>

Begin ==
  /\ at = "asked" /\ call.tool # "zoom"
  /\ \A i \in DOMAIN call.windows : call.windows[i][1] < call.windows[i][2]
  /\ \E ws \in WindowsArgs :
       /\ call.multi => call.windows # <<>> /\ Len(ws) <= MaxWindows
       /\ wins' = IF call.tool = "view" THEN ViewWindows(ws) ELSE ws
  /\ grids' = IF call.tool = "text" THEN <<>> ELSE [i \in DOMAIN wins' |-> Decoding]
  /\ at' = "reading"
  /\ UNCHANGED <<call, rows, shots, stored, crop>>

Within(w) == {l \in Lines : l.t0 < w.t1 /\ l.t1 > w.t0}

(* The first lines of a window, as many as fit, and a word about the rest. *)
FirstLines(w, cap) ==
  {text \in SUBSET Within(w) :
     /\ Cardinality(text) = Least(Cardinality(Within(w)), cap)
     /\ \A l \in text, other \in Within(w) \ text : l.t0 <= other.t0}

Row(w, cap, text, grid) ==
  [t0 |-> w.t0, t1 |-> w.t1, cut |-> w.cut, shown |-> grid,
   text |-> text, truncated |-> Cardinality(Within(w)) > cap]

(* What a window may hold when all share what the call may.                *)
Share(most, least) == Most(most \div Len(wins), least)

ReadText ==
  /\ at = "reading" /\ call.tool = "text" /\ Len(rows) < Len(wins)
  /\ LET w == wins[Len(rows) + 1]
         cap == Share(MaxText, MinText)
     IN \E text \in FirstLines(w, cap) : rows' = Append(rows, Row(w, cap, text, Nothing))
  /\ at' = IF Len(rows') = Len(wins) THEN "answered" ELSE at
  /\ UNCHANGED <<call, wins, grids, shots, stored, crop>>

(* The windows are decoded together, each by a worker of its own.          *)
Decode(i) ==
  /\ at = "reading" /\ i \in DOMAIN grids /\ grids[i] = Decoding
  /\ LET w == Clamped(wins[i])
         frames == IF call.detail THEN DetailFrames ELSE MaxFrames
     IN \/ \E n \in 1..Least(frames, w.t1 - w.t0) :
             grids' = [grids EXCEPT ![i] = [t0 |-> w.t0, t1 |-> w.t1, frames |-> n]]
        \/ grids' = [grids EXCEPT ![i] = Nothing]
  /\ UNCHANGED <<call, at, wins, rows, shots, stored, crop>>

Decoded == at = "reading" /\ grids # <<>> /\ \A i \in DOMAIN grids : grids[i] # Decoding

(* Rows in window order; the first grid that failed fails the call.        *)
AnswerView ==
  /\ Decoded /\ call.tool = "view"
  /\ IF \E i \in DOMAIN grids : grids[i] = Nothing
     THEN at' = "failed" /\ rows' = rows
     ELSE /\ \E texts \in [DOMAIN wins -> SUBSET Lines] :
               LET cap == Share(ViewText, MinViewText)
               IN /\ \A i \in DOMAIN wins : texts[i] \in FirstLines(wins[i], cap)
                  /\ rows' = [i \in DOMAIN wins |-> Row(wins[i], cap, texts[i], grids[i])]
          /\ at' = "answered"
  /\ UNCHANGED <<call, wins, grids, shots, stored, crop>>

(* describe: after the model answered, the shots are read anew, and the    *)
(* text is stored under the one that holds the middle of the range, else   *)
(* under a frame, if there is one.                                         *)
Describe ==
  /\ Decoded /\ call.tool = "describe"
  /\ IF grids[1] = Nothing
     THEN at' = "failed" /\ UNCHANGED <<rows, stored>>
     ELSE LET w == wins[1]
              holding == {s \in shots : 2 * s[1] <= w.t0 + w.t1 /\ w.t0 + w.t1 < 2 * s[2]}
          IN /\ \/ \E s \in holding : stored' = [shot |-> s, shots |-> shots, mid |-> w.t0 + w.t1]
                \/ holding = {} /\ stored' = stored
             /\ \E text \in FirstLines(w, ViewText) :
                  rows' = <<Row(w, ViewText, text, grids[1])>>
             /\ at' = "answered"
  /\ UNCHANGED <<call, wins, grids, shots, crop>>

(* A job that runs meanwhile replaces the shots.                           *)
ReplaceShots ==
  /\ at = "reading" /\ call.tool = "describe"
  /\ shots' \in ShotLists \ {shots}
  /\ UNCHANGED <<call, at, wins, grids, rows, stored, crop>>

(* zoom: one axis of Region::pixels, in quarters of a pixel. A side below  *)
(* the least is widened around its centre and moved into the frame.        *)
Axis(from, to, side) ==
  LET mid == (from + to) \div 2
      wide == to - from >= 4 * MinCrop
      a0 == IF wide THEN from ELSE mid - 2 * MinCrop
      b0 == IF wide THEN to ELSE mid + 2 * MinCrop
      a1 == Most(a0, 0)
      b1 == b0 + (a1 - a0)
      b2 == Least(b1, 4 * side)
      a2 == Most(a1 - (b1 - b2), 0)
      start == a2 \div 4
      end == Least((b2 + 3) \div 4, side)
  IN [from |-> from, to |-> to, side |-> side, start |-> start, len |-> Most(end - start, 1)]

Zoom ==
  /\ at = "asked" /\ call.tool = "zoom"
  /\ \E side \in Sides :
       \E from \in {2 * n : n \in 0..(2 * side - 1)} :
         \E to \in {2 * n : n \in (from \div 2 + 1)..(2 * side)} : crop' = Axis(from, to, side)
  /\ at' = "answered"
  /\ UNCHANGED <<call, wins, grids, rows, shots, stored>>

Next ==
  \/ Refuse \/ Begin \/ ReadText \/ AnswerView \/ Describe \/ ReplaceShots \/ Zoom
  \/ \E i \in 1..MaxWindows : Decode(i)

Spec == Init /\ [][Next]_vars

-----------------------------------------------------------------------------
(* Nothing of what was asked is left out without a word. Every second of   *)
(* the video that a window of the call names is in exactly one row, or     *)
(* behind one that says it was cut; a row's text holds every line that is  *)
(* said there, or says so; its frames are frames of it; a description is   *)
(* stored under a shot there was, which holds the middle of the range; and *)
(* a crop holds the region asked for, inside the frame and no smaller than *)
(* the least side.                                                         *)
Names(second) == \E i \in DOMAIN call.windows :
                   call.windows[i][1] <= second /\ second < call.windows[i][2]
InRow(second, r) == r.t0 <= second /\ second < r.t1
CutBefore(second, r) == r.cut /\ r.t0 <= second /\ r.t1 <= second

SecondsShown ==
  \A second \in 0..(Duration - 1) :
    LET showing == {i \in DOMAIN rows : InRow(second, rows[i])}
    IN /\ Cardinality(showing) <= 1
       /\ Names(second) => showing # {} \/ \E i \in DOMAIN rows : CutBefore(second, rows[i])

RowHolds(r) ==
  /\ r.truncated \/ Within(r) \subseteq r.text
  /\ r.shown = Nothing \/ (r.t0 = r.shown.t0 /\ r.shown.frames <= MaxFrames)

CropHolds ==
  /\ 4 * crop.start <= crop.from /\ crop.to <= 4 * (crop.start + crop.len)
  /\ crop.start + crop.len <= crop.side
  /\ crop.len >= Least(MinCrop, crop.side)

NothingIsSilentlyLeftOut ==
  at = "answered" =>
    /\ call.tool # "zoom" => SecondsShown /\ \A i \in DOMAIN rows : RowHolds(rows[i])
    /\ stored # <<>> => stored.shot \in stored.shots /\ 2 * stored.shot[1] <= stored.mid
    /\ call.tool = "zoom" => CropHolds
=============================================================================
