------------------------------ MODULE Mentions ------------------------------
(***************************************************************************)
(* Exhaustive mention tables over a library: find_mentions of the index    *)
(* (embedded.rs) under the tools find_mentions, count_mentions and         *)
(* library_stats (vi-agent tools.rs). A tool asks the index for the table, *)
(* in one call, and then for the list of videos, in another; jobs register *)
(* videos, add and delete rows in between. Times are in ticks of a minute.      *)
(***************************************************************************)
EXTENDS Naturals, Sequences, FiniteSets, FiniteSetsExt, SequencesExt

CONSTANTS
  Videos, Channel,      \* the videos and the channel of each
  Rows,                 \* [id, video, kind, at, text, terms]: rows with text
  TermLists,            \* sequences of terms a call may name
  Kinds,                \* kinds in the order they are searched
  Minute,               \* ticks of a minute
  PerVideo,             \* values of per_video
  RowSize, BaseSize, MaxSize,  \* sizes of a sample, of a table without, the cap
  MaxWrites             \* bound on writes

VARIABLES
  known, rows, writes,  \* the index
  call,                 \* [tool, terms, per, group]
  found,                \* the table: per video [video, counts, samples]
  asOf,                 \* the rows of the index when the table was made
  per,                  \* samples a video still shows
  at,
  answer                \* what the tool says

vars == <<known, rows, writes, call, found, asOf, per, at, answer>>

Total(counts) == FoldLeft(LAMBDA n, c : n + c.count, 0, counts)

-----------------------------------------------------------------------------
(* The table *)

(* The matching rows of one term, kind and video, earliest first. On-screen*)
(* text that stays up is one row per minute, at its first time.            *)
Grouped(rs) ==
  LET same(r) == {q \in rs : q.text = r.text /\ q.at \div Minute = r.at \div Minute}
  IN {CHOOSE q \in same(r) : \A p \in same(r) : q.at < p.at \/ (q.at = p.at /\ q.id <= p.id)
        : r \in rs}

Matching(v, term, kind) ==
  LET rs == {r \in rows : r.video = v /\ r.kind = kind /\ term \in r.terms}
  IN IF kind = "ocr" THEN Grouped(rs) ELSE rs

(* Mutant: as many rows as samples are asked for.                          *)
KeptAsAsked(samples) == samples

(* ROW_NUMBER() <= MAX(samples, 1): the first row carries the count.       *)
Kept(samples) == IF samples > 1 THEN samples ELSE 1

Numbered(v, term, kind, samples) ==
  LET all == SetToSortSeq(Matching(v, term, kind),
                          LAMBDA a, b : a.at < b.at \/ (a.at = b.at /\ a.id < b.id))
  IN [i \in 1..Min({Len(all), Kept(samples)}) |-> [row |-> all[i], n |-> Len(all), rn |-> i]]

(* A video's counts and samples over all terms and kinds, samples by time. *)
MentionsOf(v, terms, samples) ==
  LET asks == [i \in 1..(Len(terms) * Len(Kinds)) |->
                 [term |-> terms[((i - 1) \div Len(Kinds)) + 1],
                  kind |-> Kinds[((i - 1) % Len(Kinds)) + 1]]]
      numbered(a) == Numbered(v, a.term, a.kind, samples)
      counts(a) == [i \in DOMAIN SelectSeq(numbered(a), LAMBDA x : x.rn = 1) |->
                      [term |-> a.term, kind |-> a.kind, count |-> numbered(a)[i].n]]
      hits(a) == IF samples = 0 THEN <<>>
                 ELSE [i \in DOMAIN numbered(a) |-> [term |-> a.term, row |-> numbered(a)[i].row]]
  IN [video |-> v,
      counts |-> FoldLeft(LAMBDA s, a : s \o counts(a), <<>>, asks),
      samples |-> SortSeq(FoldLeft(LAMBDA s, a : s \o hits(a), <<>>, asks),
                          LAMBDA a, b : a.row.at < b.row.at)]

(* Videos with a mention, most mentions first.                             *)
FindMentions(terms, samples) ==
  SetToSortSeq({m \in {MentionsOf(v, terms, samples) : v \in known} : m.counts # <<>>},
               LAMBDA a, b : Total(a.counts) > Total(b.counts))

-----------------------------------------------------------------------------
Nothing == [total |-> 0, searched |-> 0, with |-> 0, groups |-> {}, perTerm |-> {}]

Init ==
  /\ known \in SUBSET Videos /\ rows \in SUBSET {r \in Rows : r.video \in known} /\ writes = 0
  /\ call \in [tool : {"find"}, terms : TermLists, per : PerVideo, group : {"library"}]
       \cup [tool : {"count"}, terms : TermLists, per : {0}, group : {"library", "video", "channel"}]
       \cup [tool : {"stats"}, terms : {<<>>}, per : {0}, group : {"channel"}]
  /\ found = <<>> /\ asOf = {} /\ per = call.per /\ at = "asked" /\ answer = Nothing

index == <<known, rows, writes>>

Find ==
  /\ at = "asked" /\ call.tool # "stats"
  /\ found' = FindMentions(call.terms, call.per) /\ asOf' = rows
  /\ at' = "found"
  /\ UNCHANGED <<index, call, per, answer>>

AllTotal == FoldLeft(LAMBDA n, m : n + Total(m.counts), 0, found)

Of(counts, term) == SelectSeq(counts, LAMBDA c : c.term = term)

(* Per term: its rows and the videos that have one.                        *)
PerTerm ==
  {[term |-> t,
    total |-> FoldLeft(LAMBDA n, m : n + Total(Of(m.counts, t)), 0, found),
    videos |-> Cardinality({i \in DOMAIN found : Of(found[i].counts, t) # <<>>})]
     : t \in ToSet(call.terms)}

MentioningIn(c) == {i \in DOMAIN found : Channel[found[i].video] = c}

(* Per channel: its videos in the library, those with a mention, mentions. *)
ByChannel ==
  {[name |-> c,
    videos |-> Cardinality({v \in known : Channel[v] = c}),
    with |-> Cardinality(MentioningIn(c)),
    total |-> MapThenSumSet(LAMBDA i : Total(found[i].counts), MentioningIn(c))]
     : c \in {Channel[v] : v \in known} \cup {Channel[found[i].video] : i \in DOMAIN found}}

ByVideo == {[name |-> found[i].video, videos |-> 1, with |-> 1, total |-> Total(found[i].counts)]
              : i \in DOMAIN found}

CountMentions ==
  /\ at = "found" /\ call.tool = "count"
  /\ answer' = [total |-> AllTotal, searched |-> Cardinality(known), with |-> Len(found),
                perTerm |-> PerTerm,
                groups |-> CASE call.group = "channel" -> ByChannel
                             [] call.group = "video" -> ByVideo
                             [] OTHER -> {}]
  /\ at' = "answered"
  /\ UNCHANGED <<index, call, found, asOf, per>>

Shown(n) == [i \in DOMAIN found |-> Min({Len(found[i].samples), n})]
Size(n) == Len(found) * BaseSize + FoldLeft(LAMBDA s, k : s + k * RowSize, 0, Shown(n))

(* Samples are dropped until the table fits, the counts never.             *)
ListVideos ==
  /\ at = "found" /\ call.tool = "find"
  /\ answer' = [Nothing EXCEPT !.total = AllTotal, !.searched = Cardinality(known), !.with = Len(found)]
  /\ at' = "fitting"
  /\ UNCHANGED <<index, call, found, asOf, per>>

Shrink ==
  /\ at = "fitting" /\ Size(per) > MaxSize /\ per > 0 /\ per' = per - 1
  /\ UNCHANGED <<index, call, found, asOf, at, answer>>

Fits ==
  /\ at = "fitting" /\ (Size(per) <= MaxSize \/ per = 0)
  /\ at' = "answered"
  /\ UNCHANGED <<index, call, found, asOf, per, answer>>

LibraryStats ==
  /\ at = "asked" /\ call.tool = "stats" /\ at' = "answered"
  /\ answer' = [Nothing EXCEPT !.searched = Cardinality(known), !.groups = ByChannel]
  /\ UNCHANGED <<index, call, found, asOf, per>>

Write ==
  /\ at # "answered" /\ writes < MaxWrites /\ writes' = writes + 1
  /\ \/ \E r \in Rows : r.video \in known /\ rows' = rows \cup {r} /\ known' = known
     \/ \E r \in rows : rows' = rows \ {r} /\ known' = known
     \/ \E v \in Videos : known' = known \cup {v} /\ rows' = rows
  /\ UNCHANGED <<call, found, asOf, per, at, answer>>

Next == Find \/ CountMentions \/ ListVideos \/ Shrink \/ Fits \/ LibraryStats \/ Write

Spec == Init /\ [][Next]_vars

-----------------------------------------------------------------------------
(* However few samples are asked for or fit, and however the library       *)
(* changes while a tool works, its counts are those of one moment: a row   *)
(* counts once per term that it contains (on-screen text once per minute), *)
(* the total is that of the terms and that of the groups, and the samples  *)
(* of a video are its earliest rows.                                       *)
Distinct(v, term) ==
  LET rs == {r \in asOf : r.video = v /\ term \in r.terms}
      seen == {r \in rs : r.kind = "ocr"}
  IN Cardinality(rs \ seen) + Cardinality({<<r.text, r.at \div Minute>> : r \in seen})

Mentioned ==
  MapThenSumSet(LAMBDA v :
    FoldLeft(LAMBDA n, t : n + Distinct(v, t), 0, call.terms), Videos)

EarliestFirst(m) ==
  \A r \in asOf, i \in DOMAIN m.samples :
    (/\ r.video = m.video /\ r.kind = m.samples[i].row.kind
     /\ m.samples[i].term \in r.terms /\ r.at < m.samples[i].row.at)
    => \E j \in 1..(i - 1) : /\ m.samples[j].term = m.samples[i].term
                             /\ m.samples[j].row.kind = r.kind
                             /\ m.samples[j].row.at <= r.at

CountsAreOfOneMoment ==
  at = "answered" /\ call.tool # "stats" =>
    /\ answer.total = Mentioned
    /\ call.tool = "count" /\ IsInjective(call.terms) =>
         answer.total = MapThenSumSet(LAMBDA p : p.total, answer.perTerm)
    /\ answer.groups # {} => answer.total = MapThenSumSet(LAMBDA g : g.total, answer.groups)
    /\ \A i \in DOMAIN found : EarliestFirst(found[i])
=============================================================================
