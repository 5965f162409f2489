----------------------------- MODULE ChatStream -----------------------------
(***************************************************************************)
(* One streamed answer of a chat model, as the three adapters assemble it: *)
(* the server's events are turned into tokens, whole tool calls, the usage *)
(* and one Done.                                                           *)
(*                                                                         *)
(*   openai     call fragments carry an index; calls are emitted at the end*)
(*   anthropic  a call is a block that is started, filled and stopped      *)
(*   gemini     a call arrives whole, and is emitted at once               *)
(*                                                                         *)
(* The server may send anything its protocol allows, interleave the calls  *)
(* it opened, break off at any point, or answer with an error.  A text or  *)
(* an argument fragment is its place in the server's stream.               *)
(***************************************************************************)
EXTENDS Naturals, Sequences, FiniteSets, SequencesExt

CONSTANTS
  Adapters,   \* the adapters looked at: "openai", "anthropic", "gemini"
  Indexes,    \* indexes of the tool calls the server may make
  MaxEvents   \* bound: events the server sends

Reasons == {"stop", "tool", "length", "other"}

VARIABLES
  adapter,  \* the adapter this stream belongs to
  building, \* building[i]: fragments collected for call i; absent: no builder
  opened,   \* the indexes with a builder
  calls,    \* tool calls emitted (gemini's counter)
  finish,   \* last finish reason received, "none" before
  out,      \* the events handed to the caller, in order
  done,     \* the adapter reads no further
  \* what the server did, for the properties
  sent,     \* number of events sent
  frags,    \* frags[i]: the fragments of call i, in the order sent
  begun,    \* the calls the server began
  closed,   \* those it completed
  ending    \* how the server's stream stands: "open", "eof", "broken", "error"

vars == <<adapter, building, opened, calls, finish, out, done, sent, frags, begun, closed, ending>>
server == <<sent, frags, begun, closed>>

Init ==
  /\ adapter \in Adapters
  /\ building = [i \in Indexes |-> <<>>]
  /\ opened = {} /\ calls = 0
  /\ finish = "none" /\ out = <<>> /\ done = FALSE
  /\ sent = 0
  /\ frags = [i \in Indexes |-> <<>>]
  /\ begun = {} /\ closed = {} /\ ending = "open"

Emit(ev) == out' = Append(out, ev)
Token(n) == [kind |-> "token", part |-> n]
Call(args) == [kind |-> "call", args |-> args]
Failure == [kind |-> "error"]

(* The server sends its next event while the adapter reads.                *)
Sends == ~done /\ ending = "open" /\ sent < MaxEvents /\ sent' = sent + 1

Text ==
  /\ Sends
  /\ Emit(Token(sent'))
  /\ UNCHANGED <<adapter, building, opened, calls, finish, done, frags, begun, closed, ending>>

(* anthropic: content_block_start of a tool_use block.                     *)
BlockStart(i) ==
  /\ adapter = "anthropic" /\ Sends
  /\ i \notin opened \cup closed
  /\ opened' = opened \cup {i}
  /\ building' = [building EXCEPT ![i] = <<>>]
  /\ begun' = begun \cup {i}
  /\ UNCHANGED <<adapter, calls, finish, out, done, frags, closed, ending>>

(* Mutant: fragments go to the call begun last, their index is not read.   *)
FragmentOfLast(i) ==
  LET last == IF opened = {} \/ adapter = "anthropic" THEN i
              ELSE CHOOSE k \in opened : \A m \in opened : m <= k IN
  /\ adapter \in {"openai", "anthropic"} /\ Sends
  /\ i \notin closed
  /\ adapter = "anthropic" => i \in opened
  /\ opened' = opened \cup {i}
  /\ building' = [building EXCEPT ![last] = Append(@, sent')]
  /\ frags' = [frags EXCEPT ![i] = Append(@, sent')]
  /\ begun' = begun \cup {i}
  /\ UNCHANGED <<adapter, calls, finish, out, done, closed, ending>>

(* A fragment of the arguments of call i.                                  *)
Fragment(i) ==
  /\ adapter \in {"openai", "anthropic"} /\ Sends
  /\ i \notin closed
  /\ adapter = "anthropic" => i \in opened
  /\ opened' = opened \cup {i}
  /\ building' = [building EXCEPT ![i] = Append(@, sent')]
  /\ frags' = [frags EXCEPT ![i] = Append(@, sent')]
  /\ begun' = begun \cup {i}
  /\ UNCHANGED <<adapter, calls, finish, out, done, closed, ending>>

(* anthropic: content_block_stop; the builder is finished and forgotten.   *)
BlockStop(i) ==
  /\ adapter = "anthropic" /\ Sends
  /\ i \in opened
  /\ opened' = opened \ {i}
  /\ Emit(Call(building[i]))
  /\ closed' = closed \cup {i}
  /\ UNCHANGED <<adapter, building, calls, finish, done, frags, begun, ending>>

(* gemini: a functionCall part.                                            *)
WholeCall(i) ==
  /\ adapter = "gemini" /\ Sends
  /\ i \notin closed
  /\ calls' = calls + 1
  /\ Emit(Call(<<sent'>>))
  /\ frags' = [frags EXCEPT ![i] = <<sent'>>]
  /\ begun' = begun \cup {i}
  /\ closed' = closed \cup {i}
  /\ UNCHANGED <<adapter, building, opened, finish, done, ending>>

(* finish_reason, message_delta or finishReason; the server has completed  *)
(* the calls it opened.                                                    *)
Finish(r) ==
  /\ Sends
  /\ finish = "none"
  /\ adapter = "anthropic" => opened = {}
  /\ finish' = r
  /\ closed' = closed \cup opened
  /\ UNCHANGED <<adapter, building, opened, calls, out, done, frags, begun, ending>>

(* A chunk that is no JSON, an error object, a broken connection: one      *)
(* error, after what was queued, and nothing after it.                     *)
Breaks(how) ==
  /\ ~done /\ ending = "open"
  /\ ending' = how
  /\ done' = TRUE
  /\ Emit(Failure)
  /\ UNCHANGED <<adapter, building, opened, calls, finish, server>>

(* The reason the caller is given.  Gemini's reason gives way to a call.   *)
Reported ==
  IF adapter = "gemini"
    THEN IF calls > 0 THEN "tool_use" ELSE IF finish = "none" THEN "stop" ELSE finish
    ELSE IF adapter = "anthropic" /\ finish \notin {"tool", "length"} THEN "stop"
    ELSE IF finish = "none" THEN "stop"
    ELSE IF finish = "tool" THEN "tool_use" ELSE finish

(* The body ends: the builders still open are finished in the order of     *)
(* their indexes, then the usage and Done.  A body that was cut short      *)
(* without an error looks like any other.                                  *)
Eof ==
  LET open == [k \in 1..Len(SetToSortSeq(opened, <)) |-> Call(building[SetToSortSeq(opened, <)[k]])]
  IN
  /\ ~done /\ ending = "open"
  /\ ending' = "eof"
  /\ done' = TRUE
  /\ opened' = {}
  /\ out' = out \o open \o <<[kind |-> "usage"], [kind |-> "done", reason |-> Reported]>>
  /\ UNCHANGED <<adapter, building, calls, finish, server>>

Stopped == done /\ UNCHANGED vars

Next ==
  \/ Text \/ Eof \/ Stopped
  \/ \E i \in Indexes : BlockStart(i) \/ Fragment(i) \/ BlockStop(i) \/ WholeCall(i)
  \/ \E r \in Reasons : Finish(r)
  \/ \E how \in {"broken", "error"} : Breaks(how)

-----------------------------------------------------------------------------
EmittedCalls == SelectSeq(out, LAMBDA ev : ev.kind = "call")

(* The caller gets the calls the server made: at the end, each with its    *)
(* own fragments in the order sent, once, however the server interleaved   *)
(* calls, blocks and text; before the end, none that is not complete.      *)
CallsAsSent ==
  LET emitted == EmittedCalls
      args == {emitted[k].args : k \in DOMAIN emitted}
  IN
  /\ args \subseteq {frags[i] : i \in begun}
  /\ ~done => Len(emitted) <= Cardinality(closed)
  /\ ending = "eof" => /\ {frags[i] : i \in begun} = args
                       /\ Len(emitted) = Cardinality(begun)
=============================================================================
