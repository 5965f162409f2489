------------------------------ MODULE SseStream ------------------------------
(***************************************************************************)
(* Server-sent events out of the chunks of a response body.  A byte is a   *)
(* character of a line, "x", or one of "\n" and "\r"; the network may cut  *)
(* the body anywhere, between "\r" and "\n" too.  An event is its lines,   *)
(* each its length.                                                        *)
(***************************************************************************)
EXTENDS Naturals, Sequences, FiniteSets, SequencesExt

CONSTANT MaxTokens  \* bound: characters and line ends of a body

Bodies ==
  UNION {{FlattenSeq(b) : b \in [1..n -> {<<"x">>, <<"\n">>, <<"\r", "\n">>}]}
          : n \in 1..MaxTokens}

VARIABLES
  body,    \* what the server sends
  arrived, \* the bytes that arrived so far
  buf,     \* the bytes not yet part of an event
  events,  \* the events so far
  ended    \* the body has ended and the buffer was flushed

vars == <<body, arrived, buf, events, ended>>

Init == body \in Bodies /\ arrived = 0 /\ buf = <<>> /\ events = <<>> /\ ended = FALSE

(* Where an event ends in a buffer: the line end before its blank line and *)
(* the last byte of the blank line.                                        *)
EventEnds(b) ==
  {e \in (1..Len(b)) \X (1..Len(b)) :
     /\ b[e[1]] = "\n" /\ b[e[2]] = "\n"
     /\ e[2] = e[1] + 1 \/ (e[2] = e[1] + 2 /\ b[e[1] + 1] = "\r")}

HasEvent(b) == EventEnds(b) # {}
FirstEnd(b) == CHOOSE e \in EventEnds(b) : \A f \in EventEnds(b) : e[1] <= f[1]

(* The lengths of the lines of a block, empty lines left out.              *)
Lines(block) ==
  LET step(acc, c) ==
        IF c = "x" THEN [acc EXCEPT !.cur = @ + 1]
        ELSE IF c = "\n" /\ acc.cur > 0 THEN [lines |-> Append(acc.lines, acc.cur), cur |-> 0]
        ELSE acc
      all == FoldLeft(step, [lines |-> <<>>, cur |-> 0], block)
  IN IF all.cur > 0 THEN Append(all.lines, all.cur) ELSE all.lines

(* A block without a field is no event.                                    *)
Parsed(block) == IF Lines(block) = <<>> THEN <<>> ELSE <<Lines(block)>>

(* The complete events of a buffer, taken off it one after the other.      *)
Drain(b) ==
  LET drained[k \in 0..Len(b)] ==
        IF k = 0 THEN [rest |-> b, found |-> <<>>]
        ELSE LET d == drained[k - 1] IN
             IF ~HasEvent(d.rest) THEN d
             ELSE LET e == FirstEnd(d.rest) IN
                  [rest  |-> SubSeq(d.rest, e[2] + 1, Len(d.rest)),
                   found |-> d.found \o Parsed(SubSeq(d.rest, 1, e[1] - 1))]
  IN drained[Len(b)]

Chunk(n) ==
  LET d == Drain(buf \o SubSeq(body, arrived + 1, arrived + n)) IN
  /\ arrived + n <= Len(body)
  /\ arrived' = arrived + n
  /\ buf' = d.rest
  /\ events' = events \o d.found
  /\ UNCHANGED <<body, ended>>

(* The end of the body completes the event left in the buffer.             *)
Flush ==
  /\ arrived = Len(body) /\ ~ended
  /\ ended' = TRUE
  /\ LET d == Drain(buf) IN events' = events \o d.found \o Parsed(d.rest)
  /\ buf' = <<>>
  /\ UNCHANGED <<body, arrived>>

Stopped == ended /\ UNCHANGED vars

Next == Flush \/ Stopped \/ \E n \in 1..Len(body) : Chunk(n)

-----------------------------------------------------------------------------
(* The events of a body are the runs of lines between its blank lines,     *)
(* however the network cut it into chunks.                                 *)
ChunksDoNotMatter ==
  LET plain == SelectSeq(body, LAMBDA c : c # "\r")
      Blank(k) == k < Len(plain) /\ plain[k] = "\n" /\ plain[k + 1] = "\n"
      starts == {k \in DOMAIN plain :
                   /\ plain[k] = "x"
                   /\ (\A m \in 1..k - 1 : plain[m] = "\n") \/ (k > 2 /\ Blank(k - 2))}
      end(k) == CHOOSE m \in k..Len(plain) :
                  /\ m = Len(plain) \/ Blank(m)
                  /\ \A o \in k..m - 1 : ~Blank(o)
  IN ended => events = [n \in 1..Cardinality(starts) |->
                          LET k == SetToSortSeq(starts, <)[n] IN Lines(SubSeq(plain, k, end(k)))]
=============================================================================
