------------------------------- MODULE Search -------------------------------
(***************************************************************************)
(* Hybrid search with temporal fusion (vi-query search.rs): ranked lists   *)
(* of rows are fetched one storage call after the other while the index is *)
(* being written, fused by row, and grouped into temporal units of their   *)
(* video, which are read in calls of their own. A storage call holds the   *)
(* connection and is one step; the vector list takes two, the files and    *)
(* then the rows. Scores are left open: a list holds any of the rows it    *)
(* may hold, and what a cut keeps is any choice. Times are in ticks.       *)
(***************************************************************************)
EXTENDS Naturals, Sequences, FiniteSets

CONSTANTS
  Videos, Live,        \* the videos, and those that are live streams
  Registered,          \* videos with a row when the search starts
  Rows,                \* all rows there can be: [id, video, kind, at]
  Layouts,             \* segment lists a level of a video can have
  Unit, Week,          \* UNIT_SECS and the cap of the fallback grid
  Duration,            \* duration of a video, the head of a live one at most
  Bounds, Caps, K,     \* until, per_video_k, and k
  Scope, AskedKinds,   \* ToolContext::videos ({}: all), and kinds asked for
  PerList, None,
  MaxWrites            \* bound on what is written during a search

VARIABLES
  known, rows, segments,   \* videos, rows and segments in the index
  head,                    \* duration in the row of a live video
  writes,
  until, asked,            \* the request: [videos, kinds, cap], {} or None: any
  at,                      \* the next call of the search
  raw,                     \* rows a vector list found in the files
  fused,                   \* rows found, by row id
  left,                    \* videos whose evidence is not grouped yet
  of, chapters, units,     \* the video being grouped, and what is read of it
  extents,                 \* the ranges its units cut
  hits

vars == <<known, rows, segments, head, writes, until, asked, at, raw, fused, left, of, chapters,
          units, extents, hits>>

Levels == {"chapter", "scene", "shot"}
TextKinds == {"transcript", "ocr", "description"}
Calls == <<"transcript", "ocr", "description", "text_files", "text_rows",
           "image_files", "image_rows">>
NextCall == [c \in {Calls[i] : i \in 1..Len(Calls)} |->
               LET i == CHOOSE i \in 1..Len(Calls) : Calls[i] = c
               IN IF i = Len(Calls) THEN "group" ELSE Calls[i + 1]]

Over(n) == IF n > 0 THEN n ELSE 1
Below(r) == until = None \/ r.at < until
Wanted(r) == /\ asked.videos = {} \/ r.video \in asked.videos
             /\ asked.kinds = {} \/ r.kind \in asked.kinds
Any == [videos |-> {}, kinds |-> {}, cap |-> None]

(* The tool of an ask: one video is searched in depth, several are spread. *)
ToolSearch(video, kind, per) ==
  LET videos == IF video = None THEN Scope ELSE {video}
  IN [videos |-> videos, kinds |-> {kind} \ {None},
      cap |-> IF Cardinality(videos) = 1 THEN None ELSE per]

-----------------------------------------------------------------------------
(* Temporal units *)

(* A shot of up to one and a half units, or equal pieces of about one.     *)
ShotPieces(s) ==
  LET len == s.t1 - s.t0
      n == IF 2 * len <= 3 * Unit THEN 1 ELSE (2 * len + Unit) \div (2 * Unit)
      edge(i) == s.t0 + (2 * len * i + n) \div (2 * n)
  IN {[t0 |-> edge(i), t1 |-> IF i + 1 = n THEN s.t1 ELSE edge(i + 1)] : i \in 0..(n - 1)}

(* The grid of a video without segments ends after a week.                 *)
Capped(extent) == IF extent > Week THEN Week ELSE extent
WindowUnits(extent) ==
  LET total == IF extent < Unit THEN Unit ELSE Capped(extent)
      n == (total + Unit - 1) \div Unit
      end(i) == IF (i + 1) * Unit < total THEN (i + 1) * Unit ELSE total
  IN {[t0 |-> i * Unit, t1 |-> end(i)] : i \in 0..(n - 1)}

(* A live video's duration is its head, which moves: its grid ends at the  *)
(* bound of the request instead.                                           *)
Extent(v) ==
  IF v \in Live THEN IF until # None THEN until ELSE head[v] ELSE Duration[v]

Holds(u, r) == u.t0 <= r.at /\ r.at < u.t1

(* The first unit that holds the row, else the last unit.                  *)
UnitOf(r, us) ==
  LET holding == {u \in us : Holds(u, r)}
  IN IF holding # {} THEN CHOOSE u \in holding : \A w \in holding : u.t0 <= w.t0
     ELSE CHOOSE u \in us : \A w \in us : w.t0 <= u.t0

-----------------------------------------------------------------------------
Init ==
  /\ known = Registered /\ rows \in SUBSET Rows
  /\ \E alike \in [Levels -> Layouts] : segments = [v \in Videos |-> alike]  \* a bound
  /\ head = [v \in Live |-> Duration[v] \div 2]
  /\ writes = 0 /\ until \in Bounds
  /\ asked \in {Any} \cup {ToolSearch(v, k, per) : v \in Videos \cup {None}, k \in AskedKinds, per \in Caps}
  /\ at = Calls[1] /\ raw = {} /\ fused = {} /\ left = {}
  /\ of = None /\ chapters = {} /\ units = {} /\ extents = {} /\ hits = {}

request == <<until, asked>>
index == <<known, rows, segments, head, writes>>
answering == <<of, chapters, units, extents, hits>>
grouping == <<left, answering>>

(* BM25: one list per kind, bounded in the query.                          *)
TextSearch ==
  /\ at \in TextKinds
  /\ \E found \in SUBSET {r \in rows : r.kind = at /\ r.video \in known /\ Wanted(r) /\ Below(r)} :
       Cardinality(found) <= PerList /\ fused' = fused \cup found
  /\ at' = NextCall[at]
  /\ UNCHANGED <<index, request, raw, grouping>>

(* A vector list first scores the files: they carry no time, so more rows  *)
(* are taken than asked for, three times as many under a bound.  No kinds  *)
(* would mean all: a list none is asked of is left out.                    *)
KindsOfList ==
  LET kinds == IF at = "text_files" THEN TextKinds ELSE {"frame"}
  IN IF asked.kinds = {} THEN kinds ELSE kinds \cap asked.kinds
VectorFiles ==
  /\ at \in {"text_files", "image_files"} /\ KindsOfList # {}
  /\ \E found \in SUBSET {r \in rows : Wanted(r) /\ r.kind \in KindsOfList} :
       /\ Cardinality(found) <= PerList * (IF until = None THEN 2 ELSE 3)
       /\ raw' = found
  /\ at' = NextCall[at]
  /\ UNCHANGED <<index, request, fused, grouping>>

(* Mutant: the bound is left to the files, which carry no time.            *)
ResolvedAtAnyTime(r) == r \in rows

(* Then it looks each one up: the vanished and those past the bound go.    *)
Resolved(r) == r \in rows /\ Below(r)

VectorRows ==
  /\ at \in {"text_rows", "image_rows"}
  /\ LET there == {r \in raw : Resolved(r)}
     IN \E found \in SUBSET there :
          /\ Cardinality(found) = IF Cardinality(there) < PerList
                                  THEN Cardinality(there) ELSE PerList
          /\ fused' = fused \cup found
  /\ at' = NextCall[at] /\ raw' = {}
  /\ left' = IF at' = "group" THEN {r.video : r \in fused'} ELSE left
  /\ UNCHANGED <<index, request, answering>>

(* No embedder is configured or asked for, or it failed.                   *)
NoEmbedder ==
  /\ at \in {"text_files", "image_files"}
  /\ at' = NextCall[NextCall[at]]
  /\ left' = IF at' = "group" THEN {r.video : r \in fused} ELSE left
  /\ UNCHANGED <<index, request, raw, fused, answering>>

(* Hits of an unknown video are dropped: an embedding may name none.       *)
ReadVideo ==
  /\ at = "group"
  /\ \E v \in left :
       IF v \in known
       THEN /\ of' = v /\ at' = "chapters" /\ left' = left
            /\ units' = WindowUnits(Extent(v)) /\ extents' = {[t0 |-> 0, t1 |-> Capped(Extent(v))]}
       ELSE /\ left' = left \ {v}
            /\ UNCHANGED <<of, at, units, extents>>
  /\ UNCHANGED <<index, request, raw, fused, chapters, hits>>

ReadChapters ==
  /\ at = "chapters" /\ at' = "scenes"
  /\ chapters' = segments[of]["chapter"]
  /\ UNCHANGED <<index, request, raw, fused, left, of, units, extents, hits>>

(* Scenes, else shots, else chapters, else windows.                        *)
ReadScenes ==
  /\ at = "scenes"
  /\ LET scenes == segments[of]["scene"]
     IN IF scenes # {}
        THEN units' = scenes /\ extents' = scenes /\ at' = "answer"
        ELSE at' = "shots" /\ UNCHANGED <<units, extents>>
  /\ UNCHANGED <<index, request, raw, fused, left, of, chapters, hits>>

ReadShots ==
  /\ at = "shots" /\ at' = "answer"
  /\ LET shots == segments[of]["shot"]
     IN IF shots # {}
        THEN units' = UNION {ShotPieces(s) : s \in shots} /\ extents' = shots
        ELSE IF chapters # {} THEN units' = chapters /\ extents' = chapters
        ELSE UNCHANGED <<units, extents>>
  /\ UNCHANGED <<index, request, raw, fused, left, of, chapters, hits>>

(* One hit per unit with evidence; at most per_video_k of them stay.       *)
Groups ==
  LET mine == {r \in fused : r.video = of}
  IN {[video |-> of, t0 |-> u.t0, t1 |-> u.t1, among |-> extents,
       evidence |-> {r \in mine : UnitOf(r, units) = u}] : u \in {UnitOf(r, units) : r \in mine}}

Kept(all, n) == {s \in SUBSET all : Cardinality(s) = IF Cardinality(all) < n
                                                     THEN Cardinality(all) ELSE n}

AnswerVideo ==
  /\ at = "answer" /\ at' = "group"
  /\ \E kept \in IF asked.cap = None THEN {Groups} ELSE Kept(Groups, Over(asked.cap)) :
       hits' = hits \cup kept
  /\ left' = left \ {of}
  /\ of' = None /\ chapters' = {} /\ units' = {} /\ extents' = {}
  /\ UNCHANGED <<index, request, raw, fused>>

(* The k best of all videos.                                               *)
Respond ==
  /\ at = "group" /\ left = {} /\ at' = "done"
  /\ \E kept \in Kept(hits, Over(K)) : hits' = kept
  /\ UNCHANGED <<index, request, raw, fused, left, of, chapters, units, extents>>

SearchStep ==
  \/ TextSearch \/ VectorFiles \/ VectorRows \/ NoEmbedder
  \/ ReadVideo \/ ReadChapters \/ ReadScenes \/ ReadShots \/ AnswerVideo \/ Respond

-----------------------------------------------------------------------------
(* Jobs and sessions that write meanwhile *)

PutRow ==
  /\ at # "done"
  /\ \E r \in Rows \ rows : rows' = rows \cup {r}
  /\ UNCHANGED <<known, segments, head, request, at, raw, fused, grouping>>

DeleteRow ==
  /\ at # "done"
  /\ \E r \in rows : rows' = rows \ {r}
  /\ UNCHANGED <<known, segments, head, request, at, raw, fused, grouping>>

ReplaceSegments ==
  /\ at # "done"
  /\ \E v \in known, level \in Levels, layout \in Layouts :
       segments' = [segments EXCEPT ![v][level] = layout]
  /\ UNCHANGED <<known, rows, head, request, at, raw, fused, grouping>>

PutVideo ==
  /\ at # "done"
  /\ \E v \in Videos \ known : known' = known \cup {v}
  /\ UNCHANGED <<rows, segments, head, request, at, raw, fused, grouping>>

HeadMoves ==
  /\ at # "done"
  /\ \E v \in Live : head[v] < Duration[v] /\ head' = [head EXCEPT ![v] = Duration[v]]
  /\ UNCHANGED <<known, rows, segments, request, at, raw, fused, grouping>>

Write ==
  /\ writes < MaxWrites /\ writes' = writes + 1
  /\ PutRow \/ DeleteRow \/ ReplaceSegments \/ PutVideo \/ HeadMoves

Next == SearchStep \/ Write

Spec == Init /\ [][Next]_vars

-----------------------------------------------------------------------------
(* Whatever is written while a search reads, its answer is coherent: all   *)
(* evidence is of the hit's video, of the videos and kinds asked for, and  *)
(* starts below the bound, no row backs two hits, no video has more hits   *)
(* than its cap, and a row that lies in what the units cut (the stored     *)
(* segments, or the video's first week) lies in the range of its hit, so   *)
(* that pieces and windows leave no gap.                                   *)
Coherent(h) ==
  \A r \in h.evidence :
    /\ r.video = h.video /\ Wanted(r) /\ Below(r)
    /\ \A other \in hits \ {h} : r \notin other.evidence
    /\ Holds(h, r) \/ \A u \in h.among : ~ Holds(u, r)

HitsHoldTheirEvidence ==
  at = "done" =>
    /\ Cardinality(hits) <= Over(K)
    /\ \A h \in hits : h.evidence # {} /\ Coherent(h)
    /\ asked.cap # None =>
         \A v \in Videos : Cardinality({h \in hits : h.video = v}) <= Over(asked.cap)
=============================================================================
