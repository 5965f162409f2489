----------------------------- MODULE Extraction -----------------------------
(***************************************************************************)
(* The `entities_events` stage over the jobs of one video                  *)
(* (ops/entities_events.rs): what was said and described, put on the       *)
(* video's time line, is given to a language model a window at a time; the *)
(* entities, mentions and events of the answers are gathered over the      *)
(* windows and stored at the end, in place of the earlier ones, which are  *)
(* deleted before the first call.  Times are in half seconds.              *)
(***************************************************************************)
EXTENDS Naturals, FiniteSets

CONSTANTS
  Window,    \* WINDOW_SECS
  Totals,    \* bound: the durations
  Times,     \* bound: the times of what was said and described
  Names,     \* bound: canonical names an answer may give
  MaxRuns    \* bound: jobs

VARIABLES
  total,     \* video.duration
  notes,     \* what arrived: [at, of], of a "span", a "scene" or a "shot" described
  runs, phase,  \* jobs begun; "idle", "windows", "writing", "ended", "cached", "stopped"
  w0,        \* the start of the next window
  open,      \* whether the budget allows a call
  asked,     \* the windows asked about: start -> the lines shown
  failed,    \* the starts of the windows whose call or answer failed
  skipped,   \* what record_skipped counted
  gathered,  \* [entities, mentions, events] of the answers so far
  stored     \* the stored ones; mentions and events name [name, run] entities

vars == <<total, notes, runs, phase, w0, open, asked, failed, skipped, gathered, stored>>

Second == 2
AtLeast(x, y) == IF x > y THEN x ELSE y
AtMost(x, y) == IF x < y THEN x ELSE y
Ceiling(a, b) == (a + b - 1) \div b
Nothing == [entities |-> {}, mentions |-> {}, events |-> {}]
NoWindows == [w \in {} |-> {}]

(* A description of a scene gets the scene's time; one of a shot has no    *)
(* scene to take it from, and is left out.                                 *)
NoteLines == {n \in notes : n.of # "shot"}

Init ==
  /\ total \in Totals
  /\ notes \in (SUBSET [at : Times, of : {"span"}]) \cup {{[at |-> t, of |-> o] :
       o \in {"span", "scene", "shot"}} : t \in Times}
  /\ runs = 0 /\ phase = "idle" /\ w0 = 0 /\ open = TRUE
  /\ asked = NoWindows /\ failed = {} /\ skipped = 0
  /\ gathered = Nothing /\ stored = Nothing

-----------------------------------------------------------------------------
(* finish: nothing to show changes nothing; else the rows of earlier jobs  *)
(* go (delete_extractions; the mentions with their entities).              *)
Begin ==
  /\ runs < MaxRuns /\ phase \in {"idle", "ended", "stopped"}
  /\ runs' = runs + 1 /\ w0' = 0 /\ open' = TRUE
  /\ asked' = NoWindows /\ failed' = {} /\ skipped' = 0 /\ gathered' = Nothing
  /\ IF NoteLines = {} THEN phase' = "cached" /\ UNCHANGED stored
     ELSE phase' = "windows" /\ stored' = Nothing
  /\ UNCHANGED <<total, notes>>

MoreWindows == w0 < AtLeast(total, Second)
WindowEnd == AtMost(w0 + Window, AtLeast(total, w0 + Second))
WithBothEnds == {n \in NoteLines : w0 <= n.at /\ n.at <= WindowEnd}  \* the end counted twice
Shown == {n \in NoteLines : w0 <= n.at /\ n.at < WindowEnd}

EmptyWindow ==
  /\ phase = "windows" /\ MoreWindows /\ Shown = {}
  /\ w0' = WindowEnd
  /\ UNCHANGED <<total, notes, runs, phase, open, asked, failed, skipped, gathered, stored>>
(* The budget is spent: the windows left are counted, and none is tried.   *)
SkipTheRest ==
  /\ phase = "windows" /\ MoreWindows /\ Shown # {} /\ ~open
  /\ skipped' = skipped + Ceiling(total - w0, Window)
  /\ phase' = "writing"
  /\ UNCHANGED <<total, notes, runs, w0, open, asked, failed, gathered, stored>>
(* The call fails, or its answer is no JSON. *)
WindowFails ==
  /\ phase = "windows" /\ MoreWindows /\ Shown # {} /\ open
  /\ failed' = failed \cup {w0} /\ w0' = WindowEnd
  /\ asked' = [w \in DOMAIN asked \cup {w0} |-> IF w = w0 THEN Shown ELSE asked[w]]
  /\ UNCHANGED <<total, notes, runs, phase, open, skipped, gathered, stored>>
(* An answer: entities are entered once by canonical name; an event's      *)
(* participants are the ones entered so far.                               *)
Entity(name) == [name |-> name, run |-> runs]
WindowAnswered(entities, participants) ==
  /\ phase = "windows" /\ MoreWindows /\ Shown # {} /\ open
  /\ LET known == gathered.entities \cup {Entity(n) : n \in entities}
     IN gathered' =
          [entities |-> known,
           mentions |-> gathered.mentions \cup {<<Entity(n), w0>> : n \in entities},
           events |-> gathered.events \cup
             {<<w0, {Entity(n) : n \in participants} \cap known>>}]
  /\ asked' = [w \in DOMAIN asked \cup {w0} |-> IF w = w0 THEN Shown ELSE asked[w]]
  /\ w0' = WindowEnd
  /\ UNCHANGED <<total, notes, runs, phase, open, failed, skipped, stored>>
LastWindow ==
  /\ phase = "windows" /\ ~MoreWindows /\ phase' = "writing"
  /\ UNCHANGED <<total, notes, runs, w0, open, asked, failed, skipped, gathered, stored>>

(* put_entities, with the mentions, then put_events. *)
PutEntities ==
  /\ phase = "writing"
  /\ stored' = [gathered EXCEPT !.events = stored.events] /\ phase' = "events"
  /\ UNCHANGED <<total, notes, runs, w0, open, asked, failed, skipped, gathered>>
PutEvents ==
  /\ phase = "events"
  /\ stored' = [stored EXCEPT !.events = gathered.events]
  /\ phase' = IF failed = {} /\ skipped = 0 THEN "cached" ELSE "ended"
  /\ UNCHANGED <<total, notes, runs, w0, open, asked, failed, skipped, gathered>>
Exhaust ==
  /\ phase = "windows" /\ open /\ open' = FALSE
  /\ UNCHANGED <<total, notes, runs, phase, w0, asked, failed, skipped, gathered, stored>>
(* The stage fails, or the process crashes. *)
Stop ==
  /\ phase \in {"windows", "writing", "events"} /\ phase' = "stopped"
  /\ UNCHANGED <<total, notes, runs, w0, open, asked, failed, skipped, gathered, stored>>

Next ==
  \/ Begin \/ EmptyWindow \/ SkipTheRest \/ WindowFails \/ LastWindow
  \/ \E entities, participants \in SUBSET Names : WindowAnswered(entities, participants)
  \/ PutEntities \/ PutEvents \/ Exhaust \/ Stop

Spec == Init /\ [][Next]_vars

-----------------------------------------------------------------------------
(* When a job of this stage ends, each line before the video's end was     *)
(* shown in exactly one window, or a skip is on record; a job that leaves  *)
(* a marker left nothing out; and the stored rows are this job's, closed   *)
(* in themselves: mentions and participants name stored entities.          *)
EveryLineIsShownOnce ==
  /\ phase \in {"ended", "cached"} =>
       \A n \in NoteLines : n.at < AtLeast(total, Second) =>
         LET times == Cardinality({w \in DOMAIN asked : n \in asked[w]})
         IN times = 1 \/ (times = 0 /\ skipped > 0)
  /\ phase \in {"ended", "cached"} /\ NoteLines # {} =>
       /\ \A e \in stored.entities : e.run = runs
       /\ \A m \in stored.mentions : m[1] \in stored.entities
       /\ \A e \in stored.events : e[2] \subseteq stored.entities
=============================================================================
