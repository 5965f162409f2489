---------------------------- MODULE ChatRequests ----------------------------
(***************************************************************************)
(* What an ask sends to a chat provider: the messages the agent's loop     *)
(* collects (vi-agent/src/agent.rs: run), and the request bodies the three *)
(* adapters make of them (vi-providers/src/adapters: openai_compat.rs,     *)
(* anthropic.rs, gemini.rs).  Which turn follows which is AgentLoop's      *)
(* subject; here any turn may follow any other.  A message is a role and   *)
(* parts; a part is text, an image, a call or the result of a call.        *)
(***************************************************************************)
EXTENDS Naturals, Sequences, SequencesExt

CONSTANTS
  MaxTurns,      \* bound: turns of one ask
  MaxCalls,      \* bound: tools one turn calls
  MaxSession     \* bound: earlier asks a session replays (20 in the code)

VARIABLES
  adapter,       \* "openai", "anthropic" or "gemini"
  fixed,         \* a fixed policy chooses the tools
  session,       \* asks answered before in this session
  messages,      \* what the loop has collected
  steps,         \* calls executed
  turn,          \* turns begun
  request,       \* messages of the request the model is answering, <<>> when none is
  tools          \* its tools: "open", "closed" (tool_choice none) or "absent"

vars == <<adapter, fixed, session, messages, steps, turn, request, tools>>

-----------------------------------------------------------------------------
Part(kind, id, t) == [kind |-> kind, id |-> id, turn |-> t]
Text == Part("text", 0, 0)
Image == Part("image", 0, 0)
Message(role, parts) == [role |-> role, parts |-> parts]
User == Message("user", <<Text>>)

\* Ids of a turn's calls: Gemini gives none, and its adapter counts from 1 in each turn.
CallId(t, i) == IF adapter = "gemini" THEN i ELSE MaxCalls * t + i

Calls(t, n) == [i \in 1..n |-> Part("call", CallId(t, i), t)]
Results(t, n) ==
  [i \in 1..n |-> Message("tool", <<Part("result", CallId(t, i), t)>>)]

OfKind(parts, kind) == SelectSeq(parts, LAMBDA p : p.kind = kind)
HasCalls(ms) == \E i \in DOMAIN ms : OfKind(ms[i].parts, "call") # <<>>

-----------------------------------------------------------------------------
\* chat_body: results are messages of their own, calls stand beside the content.
OpenAiEntries(m) ==
  LET results == OfKind(m.parts, "result")
      tool == [i \in DOMAIN results |-> Message("tool", <<results[i]>>)]
      rest == SelectSeq(m.parts, LAMBDA p : p.kind # "result")
  IN IF m.role = "tool" THEN tool ELSE Append(tool, Message(m.role, rest))

OpenAi(ms) == FlattenSeq([i \in DOMAIN ms |-> OpenAiEntries(ms[i])])

\* anthropic body and gemini body: system texts are hoisted, results are the user's.
Spoken(m) == IF m.role = "assistant" THEN "assistant" ELSE "user"

\* One entry a message.
Unmerged(done, m) == Append(done, Message(Spoken(m), m.parts))

\* Consecutive messages of one role are one entry.
Merged(done, m) ==
  IF done # <<>> /\ Last(done).role = Spoken(m)
  THEN Append(Front(done), Message(Spoken(m), Last(done).parts \o m.parts))
  ELSE Append(done, Message(Spoken(m), m.parts))

Alternating(ms) ==
  FoldLeft(Merged, <<>>, SelectSeq(ms, LAMBDA m : m.role # "system"))

Body == IF adapter = "openai" THEN OpenAi(request) ELSE Alternating(request)

-----------------------------------------------------------------------------
\* A session replays its questions and answers before the new question.
Opening(n) ==
  <<Message("system", <<Text>>)>>
    \o FlattenSeq([i \in 1..n |-> <<User, Message("assistant", <<Text>>)>>]) \o <<User>>

Init ==
  /\ adapter \in {"openai", "anthropic", "gemini"} /\ fixed \in BOOLEAN
  /\ session \in 0..MaxSession
  /\ messages = Opening(session)
  /\ steps = 0 /\ turn = 0 /\ request = <<>> /\ tools = "absent"

More == turn < MaxTurns

\* The policy's tool: its result is told as the user's, its images after it.
PolicyStep ==
  /\ fixed /\ request = <<>> /\ More
  /\ turn' = turn + 1 /\ steps' = steps + 1
  /\ \E images \in 0..1 :
       messages' = messages \o <<User>>
                     \o [i \in 1..images |-> Message("user", <<Image>>)]
  /\ UNCHANGED <<adapter, fixed, session, request, tools>>

\* The request of a generation turn.  Tools withheld are still defined when some were
\* called, and a last message, not kept, says that no calls are left.
Ask(allowed, over) ==
  /\ request = <<>> /\ More
  /\ over => ~allowed
  /\ allowed => ~fixed
  /\ turn' = turn + 1
  /\ tools' = IF allowed THEN "open" ELSE IF steps > 0 THEN "closed" ELSE "absent"
  /\ request' = IF over \/ (~allowed /\ steps > 0) THEN Append(messages, User) ELSE messages
  /\ UNCHANGED <<adapter, fixed, session, messages, steps>>

Answering == request # <<>>
Over(more) == messages' = messages \o more /\ request' = <<>>

\* Calls, of which the first `run` are executed; every one of them gets a result, in
\* order, and what the executed ones looked at follows in one message.
CallTurn(said, n, run, images) ==
  /\ Answering /\ tools = "open"
  /\ images = 1 => run > 0
  /\ Over(<<Message("assistant", (IF said THEN <<Text>> ELSE <<>>) \o Calls(turn, n))>>
            \o Results(turn, n) \o [i \in 1..images |-> Message("user", <<Image>>)])
  /\ steps' = steps + run
  /\ UNCHANGED <<adapter, fixed, session, turn, tools>>

\* Calls none were allowed, or an empty turn: neither is kept, the text is asked for.
AskAgain ==
  /\ Answering /\ Over(<<User>>)
  /\ UNCHANGED <<adapter, fixed, session, steps, turn, tools>>

\* An answer cut at the output limit is kept, and the rest asked for.
Continue ==
  /\ Answering /\ Over(<<Message("assistant", <<Text>>), User>>)
  /\ UNCHANGED <<adapter, fixed, session, steps, turn, tools>>

\* The last resort: a request of its own made of the notes.
FromNotes ==
  /\ Answering /\ Len(request) > 2
  /\ request' = <<Head(messages), User>> /\ tools' = "absent"
  /\ UNCHANGED <<adapter, fixed, session, messages, steps, turn>>

\* The answer: the session keeps the last asks, and the next one starts over.
Answer ==
  /\ Answering
  /\ session' = IF session < MaxSession THEN session + 1 ELSE session
  /\ messages' = Opening(session')
  /\ steps' = 0 /\ turn' = 0 /\ request' = <<>> /\ tools' = "absent"
  /\ UNCHANGED <<adapter, fixed>>

Next ==
  \/ PolicyStep
  \/ \E allowed, over \in BOOLEAN : Ask(allowed, over)
  \/ \E said \in BOOLEAN, n \in 1..MaxCalls, run \in 1..MaxCalls, images \in 0..1 :
       run <= n /\ CallTurn(said, n, run, images)
  \/ AskAgain \/ Continue \/ FromNotes \/ Answer

Spec == Init /\ [][Next]_vars

-----------------------------------------------------------------------------
\* The next entries are the results of an entry's calls, in their order.
ResultsFollow(es, i) ==
  LET calls == OfKind(es[i].parts, "call")
  IN \A k \in DOMAIN calls :
       /\ i + k <= Len(es)
       /\ es[i + k].role = "tool" /\ es[i + k].parts[1].id = calls[k].id

\* The next entry opens with one result for each call of an entry, in their order.
ResultsOpenTheNext(es, i) ==
  LET calls == OfKind(es[i].parts, "call")
  IN calls # <<>> =>
       /\ i < Len(es)
       /\ Len(calls) = Len(OfKind(es[i + 1].parts, "result"))
       /\ \A k \in DOMAIN calls :
            es[i + 1].parts[k].kind = "result" /\ es[i + 1].parts[k].id = calls[k].id

(* Whatever turns an ask goes through, and whatever a session replays, the *)
(* body an adapter sends is one its API takes: for the chat completions a  *)
(* message with calls is followed by their results; for Anthropic and      *)
(* Gemini the roles alternate from the user's on, each call's result opens *)
(* the next entry, and one entry's calls are of one turn, so signatures of *)
(* two turns never meet (gemini.rs:180); and no history with calls is sent *)
(* without tools (agent.rs:469).                                           *)
RequestsAreAccepted ==
  Answering =>
    /\ HasCalls(request) => tools # "absent"
    /\ adapter = "openai" =>
         /\ \A i \in DOMAIN Body : ResultsFollow(Body, i)
         /\ \A i \in DOMAIN Body : Body[i].role = "tool" =>
              i > 1 /\ (Body[i - 1].role = "tool" \/ OfKind(Body[i - 1].parts, "call") # <<>>)
    /\ adapter # "openai" =>
         /\ \A i \in DOMAIN Body :
              /\ Body[i].role = IF i % 2 = 1 THEN "user" ELSE "assistant"
              /\ ResultsOpenTheNext(Body, i)
              /\ \A p, q \in ToSet(OfKind(Body[i].parts, "call")) : p.turn = q.turn
=============================================================================
