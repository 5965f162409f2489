------------------------------ MODULE Citations ------------------------------
(***************************************************************************)
(* Citation markers in a streamed answer: Scanner (vi-agent/src/           *)
(* citations.rs) fed by generate_turn (agent.rs:899-978), which sends on   *)
(* the citations of videos the index knows.  The text is a sequence of     *)
(* tokens; the model's stream cuts it anywhere.  "V" and "W" are the ids   *)
(* and times of a known and an unknown video, "y" is a character of three  *)
(* bytes.                                                                  *)
(***************************************************************************)
EXTENDS Naturals, Sequences, SequencesExt, FiniteSets

CONSTANTS
  MaxParts,      \* bound: parts of a text
  MaxMarker      \* bytes of a marker held back

VARIABLES
  parts,         \* what the model means: words, links and markers
  fed,           \* tokens of it streamed
  held,          \* Scanner::held
  sent,          \* events: tokens of text, citations
  state          \* "streaming", "finished" or "panicked"

vars == <<parts, fed, held, sent, state>>

Words == {<<"x">>, <<"[", "x">>, <<"y", "]">>}
Links == {<<"[", "[", "y", "y", "]", "]">>}
Item(v) == <<"ci", "te:", v>>
Markers ==
  {<<"[", "[">> \o Item(v) \o <<"]", "]">> : v \in {"V", "W"}}
  \cup {<<"[", "[">> \o Item("V") \o <<",">> \o Item("V") \o <<"]", "]">>,
        <<"[", "[">> \o Item("W") \o <<"]", ",", "[">> \o Item("V") \o <<"]", "]">>}

Text == FlattenSeq(parts)

Width(x) == CASE x = "ci" -> 2 [] x \in {"te:", "y"} -> 3 [] x \in {"V", "W"} -> 30
              [] OTHER -> 1
Cited(v) == IF v = "V" THEN "cite V" ELSE "cite W"

Bytes(s) == FoldLeft(LAMBDA n, x : n + Width(x), 0, s)

-----------------------------------------------------------------------------
\* The first place two tokens x stand together, 0 if none.
Pair(s, x) == LET at == {i \in 1..(Len(s) - 1) : s[i] = x /\ s[i + 1] = x}
              IN IF at = {} THEN 0 ELSE CHOOSE i \in at : \A j \in at : i <= j

\* Items between commas.
Items(inner) ==
  FoldLeft(LAMBDA items, x : IF x = "," THEN Append(items, <<>>)
                             ELSE [items EXCEPT ![Len(items)] = Append(@, x)],
           <<<<>>>>, inner)

Bare(item) ==
  LET open == IF item # <<>> /\ item[1] = "[" THEN Tail(item) ELSE item
  IN IF open # <<>> /\ Last(open) = "]" THEN Front(open) ELSE open

\* parse_markers: all items or none.
Cites(marker) ==
  LET items == Items(SubSeq(marker, 3, Len(marker) - 2))
      bare(i) == Bare(items[i])
  IN IF \A i \in DOMAIN items : bare(i) \in {Item("V"), Item("W")}
     THEN [i \in DOMAIN items |-> Cited(bare(i)[3])] ELSE <<>>

\* What may still become a marker: after the brackets, a start of "cite:".
Body(s) == LET b == SubSeq(s, 3, Len(s)) IN IF b # <<>> /\ b[1] = "[" THEN Tail(b) ELSE b
Plausible(s) == \/ Body(s) \in {<<>>, <<"ci">>} \/ IsPrefix(<<"ci", "te:">>, Body(s))

\* The body is cut after five bytes, which may be inside a character.
CutsCharacter(s) ==
  \E i \in DOMAIN Body(s) :
    LET before == Bytes(SubSeq(Body(s), 1, i - 1))
    IN Body(s)[i] = "y" /\ before < 5 /\ 5 < before + Width("y")

Taken(s, n) == SubSeq(s, n + 1, Len(s))

\* A bracket at the very end is not kept back.
FinalBracketGoes(s) == [held |-> <<>>, out |-> s]

\* No marker has begun; one may be about to.
FinalBracketStays(s) ==
  IF s # <<>> /\ Last(s) = "[" THEN [held |-> <<"[">>, out |-> Front(s)]
  ELSE [held |-> <<>>, out |-> s]

\* One pass of push's loop over what is left of the text: [left, out, over, panic].
Pass(r) ==
  LET s == r.left
      start == Pair(s, "[")
      close == Pair(s, "]")
      marker == SubSeq(s, 1, close + 1)
      GoOn(n, events) == [r EXCEPT !.left = Taken(s, n), !.out = @ \o events]
      Stop(rest, text) == [r EXCEPT !.left = rest, !.out = @ \o text, !.over = TRUE]
  IN CASE r.over -> r
       [] ~r.over /\ start = 0 -> Stop(FinalBracketStays(s).held, FinalBracketStays(s).out)
       [] ~r.over /\ start > 1 -> GoOn(start - 1, SubSeq(s, 1, start - 1))
       [] ~r.over /\ start = 1 /\ close > 0 ->
            GoOn(close + 1, IF Cites(marker) = <<>> THEN marker ELSE Cites(marker))
       [] ~r.over /\ start = 1 /\ close = 0 /\ CutsCharacter(s) ->
            [Stop(s, <<>>) EXCEPT !.panic = TRUE]
       [] OTHER -> IF Plausible(s) /\ Bytes(s) <= MaxMarker THEN Stop(s, <<>>)
                   ELSE GoOn(2, <<"[", "[">>)

\* Scanner::push: every pass but the last takes a token at least.
Scan(s) ==
  LET pass[n \in 0..Len(s) + 1] ==
        IF n = 0 THEN [left |-> s, out |-> <<>>, over |-> FALSE, panic |-> FALSE]
        ELSE Pass(pass[n - 1])
  IN pass[Len(s) + 1]

-----------------------------------------------------------------------------
Init ==
  /\ parts \in UNION {[1..n -> Words \cup Links \cup Markers] : n \in 1..MaxParts}
  /\ fed = 0 /\ held = <<>> /\ sent = <<>> /\ state = "streaming"

\* Citations of videos not in the index are not sent on.
Known(events) == SelectSeq(events, LAMBDA e : e # Cited("W"))

Token(n) ==
  /\ state = "streaming" /\ fed + n <= Len(Text)
  /\ LET s == Scan(held \o SubSeq(Text, fed + 1, fed + n))
     IN /\ held' = s.left
        /\ sent' = IF s.panic THEN sent ELSE sent \o Known(s.out)
        /\ state' = IF s.panic THEN "panicked" ELSE "streaming"
  /\ fed' = fed + n
  /\ UNCHANGED parts

\* Scanner::finish, at the end of the answer.
Finish ==
  /\ state = "streaming" /\ fed = Len(Text)
  /\ sent' = sent \o held /\ held' = <<>> /\ state' = "finished"
  /\ UNCHANGED <<parts, fed>>

Next == (\E n \in 1..7 : Token(n)) \/ Finish

Spec == Init /\ [][Next]_vars

-----------------------------------------------------------------------------
Meant(part) ==
  IF part \in Markers
  THEN Known([i \in 1..Cardinality({k \in DOMAIN part : part[k] = "ci"}) |->
                Cited(part[CHOOSE k \in DOMAIN part :
                   /\ part[k] \in {"V", "W"}
                   /\ Cardinality({j \in 1..k : part[j] \in {"V", "W"}}) = i])])
  ELSE part

(* (P1) However the stream cuts it, an answer of words and markers comes   *)
(* out as its words and, in their places, its citations.                   *)
CitationsAsWritten ==
  state = "finished" /\ (\A i \in DOMAIN parts : parts[i] \notin Links) =>
    sent = FlattenSeq([i \in DOMAIN parts |-> Meant(parts[i])])

(* What agent.rs:245 says of an ask: the stream ends with Done.  A panic   *)
(* ends the task that would send it.                                       *)
StreamEndsWithDone == state # "panicked"
=============================================================================
