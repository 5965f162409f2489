----------------------------- MODULE ScreenText -----------------------------
(***************************************************************************)
(* Reading the text of one frame (vi-perceive/src/ocr.rs): regions of the  *)
(* detector's probability map are filled cell by cell and become boxes, the*)
(* boxes are put in reading order, recognised in batches of similar shape, *)
(* and what is recognised with confidence becomes a line.                  *)
(*                                                                         *)
(* A cell of the map is its index, row by row.  The models are external:   *)
(* the detector gives any map of Maps, the recogniser spells what is in a  *)
(* box, which the box itself stands for, with or without confidence.       *)
(***************************************************************************)
EXTENDS Naturals, Sequences, SequencesExt, FiniteSets, FiniteSetsExt

CONSTANTS
  Width, Height,       \* of the probability map
  Maps,                \* bound: maps, functions of the cells to 0..2
  DetThreshold,        \* det_threshold: least probability of text
  BoxThreshold,        \* box_threshold, of <<n, d>>: n / d
  MinSide,             \* least side of a region, in cells (3)
  Unclip,              \* unclip_ratio, of <<n, d>>: n / d
  Source,              \* width and height of the image
  MinCrop,             \* a box is wider and higher than this, in pixels (2)
  Batch                \* boxes recognised at once (8)

VARIABLES
  prob,      \* the map
  labels,    \* of each cell: 0, or the region it is in
  region,    \* the region being filled: its bounding box, or NoRegion
  stack,     \* its cells not visited yet
  boxes,     \* the boxes found
  phase,     \* "filling", "recognising", "read"
  order,     \* the boxes in reading order, in pixels of the image
  waiting,   \* indices of `order` not recognised yet, by shape
  results,   \* what was recognised in each
  lines      \* what read returns

vars == <<prob, labels, region, stack, boxes, phase, order, waiting, results, lines>>

Cells == 0..(Width * Height - 1)
Ink == {i \in Cells : prob[i] >= DetThreshold}
Col(i) == i % Width
Row(i) == i \div Width
NoRegion == [x0 |-> 0, y0 |-> 0, x1 |-> Width, y1 |-> Height]  \* no region
Nothing == [text |-> <<>>, sure |-> FALSE]
Least(a, b) == IF a < b THEN a ELSE b
Most(a, b) == IF a > b THEN a ELSE b
Ceil(n, d) == (n + d - 1) \div d

Init ==
  /\ prob \in Maps
  /\ labels = [i \in Cells |-> 0] /\ region = NoRegion /\ stack = <<>> /\ boxes = <<>>
  /\ phase = "filling" /\ order = <<>> /\ waiting = <<>> /\ results = <<>> /\ lines = <<>>

-----------------------------------------------------------------------------
(* boxes_from_prob_map                                                     *)

\* The first cell of text in no region yet starts the next one.
Unlabelled == {i \in Ink : labels[i] = 0}
Seed ==
  /\ phase = "filling" /\ region = NoRegion /\ Unlabelled # {}
  /\ LET start == Min(Unlabelled)
     IN /\ labels' = [labels EXCEPT ![start] = Max({labels[i] : i \in Cells}) + 1]
        /\ region' = [x0 |-> Width, y0 |-> Height, x1 |-> 0, y1 |-> 0]
        /\ stack' = <<start>>
  /\ UNCHANGED <<prob, boxes, phase, order, waiting, results, lines>>

\* A cell is popped; its neighbours of text in no region are labelled and pushed.
Neighbours(i) ==
  (IF Col(i) > 0 THEN <<i - 1>> ELSE <<>>) \o (IF Col(i) + 1 < Width THEN <<i + 1>> ELSE <<>>)
    \o (IF Row(i) > 0 THEN <<i - Width>> ELSE <<>>)
    \o (IF Row(i) + 1 < Height THEN <<i + Width>> ELSE <<>>)
Visit ==
  /\ stack # <<>>
  /\ LET i == Last(stack)
         pushed == SelectSeq(Neighbours(i), LAMBDA j : j \in Unlabelled)
     IN /\ region' = [x0 |-> Least(region.x0, Col(i)), y0 |-> Least(region.y0, Row(i)),
                      x1 |-> Most(region.x1, Col(i)), y1 |-> Most(region.y1, Row(i))]
        /\ labels' = [j \in Cells |-> IF j \in ToSet(pushed) THEN labels[i] ELSE labels[j]]
        /\ stack' = Front(stack) \o pushed
  /\ UNCHANGED <<prob, boxes, phase, order, waiting, results, lines>>

\* The score over the bounding box, and the box grown by area * ratio over
\* perimeter, within the map.
Across(r) == r.x1 - r.x0 + 1
Down(r) == r.y1 - r.y0 + 1
Within(r) == {i \in Cells : Col(i) \in r.x0..r.x1 /\ Row(i) \in r.y0..r.y1}
Kept(r) ==
  /\ Across(r) >= MinSide /\ Down(r) >= MinSide
  /\ BoxThreshold[2] * MapThenSumSet(LAMBDA i : prob[i], Within(r))
       >= BoxThreshold[1] * Across(r) * Down(r)
Growth(r) ==
  LET n == Across(r) * Down(r) * Unclip[1]
      d == 2 * (Across(r) + Down(r)) * Unclip[2]
  IN (2 * n + d) \div (2 * d)
Grown(r) ==
  [x0 |-> Most(r.x0, Growth(r)) - Growth(r), y0 |-> Most(r.y0, Growth(r)) - Growth(r),
   x1 |-> Least(r.x1 + 1 + Growth(r), Width), y1 |-> Least(r.y1 + 1 + Growth(r), Height)]
Close ==
  /\ region # NoRegion /\ stack = <<>>
  /\ boxes' = IF Kept(region) THEN Append(boxes, Grown(region)) ELSE boxes
  /\ region' = NoRegion
  /\ UNCHANGED <<prob, labels, stack, phase, order, waiting, results, lines>>

-----------------------------------------------------------------------------
(* detect: the boxes in pixels, the tiny ones left out.                    *)
InPixels(b) ==
  [x0 |-> Least((b.x0 * Source[1]) \div Width, Source[1] - 1),
   y0 |-> Least((b.y0 * Source[2]) \div Height, Source[2] - 1),
   x1 |-> Least(Ceil(b.x1 * Source[1], Width), Source[1]),
   y1 |-> Least(Ceil(b.y1 * Source[2], Height), Source[2])]
Detected ==
  SelectSeq([k \in 1..Len(boxes) |-> InPixels(boxes[k])],
            LAMBDA b : b.x1 > b.x0 + MinCrop /\ b.y1 > b.y0 + MinCrop)

(* read: by their centres, into rows, each from left to right.  A box joins*)
(* the last row when its centre is near that of the row's first box.       *)
Centre(b) == b.y0 + b.y1
Tall(b) == b.y1 - b.y0
Apart(b, r) == IF Centre(b) > Centre(r) THEN Centre(b) - Centre(r) ELSE Centre(r) - Centre(b)
\* "within half the row's box height" (ocr.rs:298), whatever the box's own.
JoinsByRow(b, r) == Apart(b, r) <= Tall(r)
Joins(b, r) == Apart(b, r) <= Least(Tall(r), Tall(b))
IntoRows(rows, b) ==
  IF rows # <<>> /\ Joins(b, Last(rows)[1])
  THEN [rows EXCEPT ![Len(rows)] = Append(@, b)] ELSE Append(rows, <<b>>)
\* A stable sort.
Sorted(s, Below(_, _)) ==
  LET before(i, j) == Below(s[i], s[j]) \/ (~Below(s[j], s[i]) /\ i < j)
      nth(k) == CHOOSE i \in DOMAIN s : Cardinality({j \in DOMAIN s : before(j, i)}) = k - 1
  IN [k \in DOMAIN s |-> s[nth(k)]]
ReadingOrder(s) ==
  LET rows == FoldLeft(IntoRows, <<>>, Sorted(s, LAMBDA a, b : Centre(a) < Centre(b)))
  IN FlattenSeq([k \in DOMAIN rows |-> Sorted(rows[k], LAMBDA a, b : a.x0 < b.x0)])

(* recognize: by their shapes, so that batches pad little.                 *)
Narrower(a, b) == (a.x1 - a.x0) * Tall(b) < (b.x1 - b.x0) * Tall(a)
ByShape(s) == Sorted([k \in DOMAIN s |-> k], LAMBDA i, j : Narrower(s[i], s[j]))

Arrange ==
  /\ phase = "filling" /\ region = NoRegion /\ Unlabelled = {}
  /\ order' = ReadingOrder(Detected) /\ waiting' = ByShape(order')
  /\ results' = [k \in DOMAIN order' |-> Nothing]
  /\ phase' = "recognising"
  /\ UNCHANGED <<prob, labels, region, stack, boxes, lines>>

\* ctc_decode: a class that is not blank and not the one before is a character.
CtcDecode(steps) ==
  FoldLeft(LAMBDA text, i :
             IF steps[i] # <<>> /\ (i = 1 \/ steps[i] # steps[i - 1]) THEN text \o steps[i]
             ELSE text,
           <<>>, [i \in DOMAIN steps |-> i])

\* What the recogniser spells of a box: a letter held for two steps, twice.
Spelled(b) == <<<<>>, <<b>>, <<b>>, <<>>, <<b>>>>

\* The text of each box goes to the place of the box.
Placed(done, chunk, sure) ==
  [k \in DOMAIN done |->
     IF k \in ToSet(chunk)
     THEN [text |-> CtcDecode(Spelled(order[k])), sure |-> k \in sure]
     ELSE done[k]]

\* A batch of the recogniser, which is more or less sure of each text.
Recognise ==
  /\ phase = "recognising" /\ waiting # <<>>
  /\ LET n == Least(Batch, Len(waiting))
         chunk == SubSeq(waiting, 1, n)
     IN /\ \E sure \in SUBSET ToSet(chunk) : results' = Placed(results, chunk, sure)
        /\ waiting' = SubSeq(waiting, n + 1, Len(waiting))
  /\ UNCHANGED <<prob, labels, region, stack, boxes, phase, order, lines>>

\* Lines the recogniser is sure of, with their boxes.
Read ==
  /\ phase = "recognising" /\ waiting = <<>>
  /\ lines' = FlattenSeq([k \in DOMAIN order |->
       IF results[k].sure THEN <<[text |-> results[k].text, at |-> order[k]]>> ELSE <<>>])
  /\ phase' = "read"
  /\ UNCHANGED <<prob, labels, region, stack, boxes, order, waiting, results>>

Next == Seed \/ Visit \/ Close \/ Arrange \/ Recognise \/ Read

Spec == Init /\ [][Next]_vars

-----------------------------------------------------------------------------
(* The reference: cells of text that touch, by repeated steps.             *)
Joined(S) == S \cup {j \in Ink : ToSet(Neighbours(j)) \cap S # {}}
Touching(i) == FoldLeft(LAMBDA S, n : Joined(S), {i}, [n \in 1..Cardinality(Ink) |-> n])
Regions == {Touching(i) : i \in Ink}
Bounds(C) == [x0 |-> Min({Col(i) : i \in C}), y0 |-> Min({Row(i) : i \in C}),
              x1 |-> Max({Col(i) : i \in C}), y1 |-> Max({Row(i) : i \in C})]

(* (P1) Whatever the map, each region of text that is large and clear      *)
(* enough gives one box, and nothing else does; a line has the text of its *)
(* own box, though boxes are recognised in another order; every box the    *)
(* recogniser is sure of gives one line; and no line is read before one    *)
(* that is wholly above it (ocr.rs:295-323).                               *)
ScreenIsReadInOrder ==
  /\ phase = "recognising" /\ results = [k \in DOMAIN order |-> Nothing] =>
       LET clear == {D \in Regions : Kept(Bounds(D))}
       IN /\ ToSet(boxes) = {Grown(Bounds(D)) : D \in clear}
          /\ Len(boxes) = Cardinality(clear)
          /\ Len(order) = Len(Detected) /\ ToSet(order) = ToSet(Detected)
  /\ phase = "read" =>
       /\ \A k \in DOMAIN lines : lines[k].text = <<lines[k].at, lines[k].at>>
       /\ Len(lines) = Cardinality({k \in DOMAIN results : results[k].sure})
       /\ \A i, j \in DOMAIN lines : i < j => ~(lines[j].at.y1 <= lines[i].at.y0)
=============================================================================
