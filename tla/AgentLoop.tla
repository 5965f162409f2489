------------------------------ MODULE AgentLoop ------------------------------
(***************************************************************************)
(* The loop of one ask (vi-agent/src/agent.rs: run, run_tool,              *)
(* record_tool_result, generate_turn; policy.rs): look, read, answer, under*)
(* a budget of tool calls and of tokens.  A turn of the model is what its  *)
(* text comes to, how many tools it calls and why it stopped.  Text is     *)
(* "some" that reaches the answer, "held" when the citation scanner still  *)
(* waits for the end of a marker, or "none".                               *)
(***************************************************************************)
EXTENDS Naturals, Sequences, Functions

CONSTANTS
  MaxToolCalls, MaxTokens,   \* AskBudget
  CallsPerTurn               \* bound: tools one turn calls

VARIABLES
  fixed,         \* a fixed policy chooses the tools (RetrievalOnlyPolicy)
  toolCalls, tokens, late,   \* AskUsage, and the wall clock being over
  history,       \* messages after the question
  steps,         \* calls executed, in the order recorded
  retriedEmpty, retriedLength, forceText,
  answer,        \* turns whose text the answer is made of
  held,          \* turns whose text the scanner holds
  turn,          \* turns begun: [calls, text] by turn
  textTurns,     \* turns begun with the tools withheld
  partial, reason,
  ended          \* "no", "done" or "error": what AskEvent::Done says

vars == <<fixed, toolCalls, tokens, late, history, steps, retriedEmpty, retriedLength,
          forceText, answer, held, turn, textTurns, partial, reason, ended>>

Reply == [text : {"none", "held", "some"}, calls : 0..CallsPerTurn,
          finish : {"stop", "length"}]

Init ==
  /\ fixed \in BOOLEAN
  /\ toolCalls = 0 /\ tokens = 0 /\ late = FALSE
  /\ history = <<>> /\ steps = <<>>
  /\ retriedEmpty = FALSE /\ retriedLength = FALSE /\ forceText = FALSE
  /\ answer = <<>> /\ held = <<>> /\ turn = <<>> /\ textTurns = 0
  /\ partial = FALSE /\ reason = FALSE /\ ended = "no"

-----------------------------------------------------------------------------
\* budget_exceeded, and what is left of the calls.
Over == tokens >= MaxTokens \/ late
Left == MaxToolCalls - toolCalls

\* The cap is looked at, and the whole turn runs.
RunnableAll(n) == IF Left > 0 THEN n ELSE 0

\* Calls past the cap are answered without being run.
Runnable(n) == IF n < Left THEN n ELSE Left

\* The policy's own step: one search, then the answer.
PolicyWantsTool == fixed /\ ~Over /\ steps = <<>> /\ Left > 0

PolicyTool ==
  /\ ended = "no" /\ PolicyWantsTool
  /\ turn' = Append(turn, [calls |-> 1, text |-> "none"])
  /\ toolCalls' = toolCalls + 1
  /\ steps' = Append(steps, Len(turn'))
  /\ history' = Append(history, [role |-> "user", calls |-> 0, ran |-> FALSE])
  /\ UNCHANGED <<fixed, tokens, late, retriedEmpty, retriedLength, forceText, answer, held,
                 textTurns, partial, reason, ended>>

AllowTools == ~fixed /\ ~Over /\ Left > 0 /\ ~forceText

User == [role |-> "user", calls |-> 0, ran |-> FALSE]
Assistant(n) == [role |-> "assistant", calls |-> n, ran |-> FALSE]
Results(n, run) == [i \in 1..n |-> [role |-> "tool", calls |-> 0, ran |-> i <= run]]

\* The scanner releases what it held before any later text.
Released(text, me) == IF text = "some" THEN Append(held, me) ELSE <<>>
HeldNow(text, me) ==
  CASE text = "some" -> <<>> [] text = "held" -> Append(held, me) [] OTHER -> held

\* The text beside calls is dropped from the answer, streamed as it was.
AnswerWithCalls(text, me) == answer

\* Tokens of a turn, as its Done event tells.
Spend(t) == tokens' = IF tokens + t > MaxTokens THEN MaxTokens ELSE tokens + t

\* A generation turn begins: partial and reason say when a budget cut it short.
Generate(r, t) ==
  /\ ended = "no" /\ ~PolicyWantsTool
  /\ turn' = Append(turn, [calls |-> r.calls, text |-> r.text])
  /\ textTurns' = IF AllowTools THEN textTurns ELSE textTurns + 1
  /\ Spend(t)
  /\ UNCHANGED <<fixed, late>>

Stop(p, why) ==
  /\ ended' = "done"
  /\ partial' = (partial \/ Over \/ p) /\ reason' = (reason \/ Over \/ why)
  /\ held' = <<>>

GoOn == ended' = "no" /\ partial' = (partial \/ Over) /\ reason' = (reason \/ Over)

\* Calls with the tools allowed: all announced, run at once, recorded in order.
\* Text of such a turn is no answer; what the scanner held goes with it.
CallTurn(r, t) ==
  /\ Generate(r, t) /\ r.calls > 0 /\ AllowTools
  /\ LET run == Runnable(r.calls)
     IN /\ toolCalls' = toolCalls + run
        /\ steps' = steps \o [i \in 1..run |-> Len(turn')]
        /\ history' = Append(history, Assistant(r.calls)) \o Results(r.calls, run)
  /\ answer' = AnswerWithCalls(r.text, Len(turn')) /\ held' = <<>>
  /\ forceText' = FALSE
  /\ GoOn /\ UNCHANGED <<retriedEmpty, retriedLength>>

\* Calls although none were allowed: asked for text once, then stop.
CallsRefused(r, t) ==
  /\ Generate(r, t) /\ r.calls > 0 /\ ~AllowTools
  /\ answer' = AnswerWithCalls(r.text, Len(turn'))
  /\ forceText' = FALSE /\ UNCHANGED <<toolCalls, steps, retriedLength>>
  /\ IF retriedEmpty
     THEN Stop(TRUE, TRUE) /\ UNCHANGED <<retriedEmpty, history>>
     ELSE /\ retriedEmpty' = TRUE /\ history' = Append(history, User) /\ held' = <<>> /\ GoOn

Empty(r) == r.text = "none" /\ answer = <<>>

\* An answer cut by the output limit: continued once.
Continue(r, t) ==
  /\ Generate(r, t) /\ r.calls = 0 /\ r.finish = "length" /\ ~Empty(r) /\ ~retriedLength
  /\ retriedLength' = TRUE /\ forceText' = TRUE
  /\ history' = history \o <<Assistant(0), User>>
  /\ answer' = answer \o Released(r.text, Len(turn')) /\ held' = HeldNow(r.text, Len(turn'))
  /\ GoOn /\ UNCHANGED <<toolCalls, steps, retriedEmpty>>

\* Nothing at all: asked again once.
AskAgain(r, t) ==
  /\ Generate(r, t) /\ r.calls = 0 /\ Empty(r) /\ ~retriedEmpty
  /\ retriedEmpty' = TRUE /\ forceText' = FALSE
  /\ history' = Append(history, User)
  /\ GoOn /\ UNCHANGED <<toolCalls, steps, answer, held, retriedLength>>

\* Nothing twice: one more request, from the notes alone.
FromNotes(r, t, text) ==
  /\ Generate(r, t) /\ r.calls = 0 /\ Empty(r) /\ retriedEmpty
  /\ answer' = answer \o Released(text, Len(turn') + 1)
               \o (IF text = "held" THEN Append(held, Len(turn') + 1)
                   ELSE IF text = "none" THEN held ELSE <<>>)
  /\ Stop(text = "none", TRUE)
  /\ forceText' = FALSE /\ UNCHANGED <<toolCalls, steps, history, retriedEmpty, retriedLength>>

\* The answer; cut by the output limit twice it is partial.
Answer(r, t) ==
  /\ Generate(r, t) /\ r.calls = 0 /\ ~Empty(r) /\ (r.finish = "length" => retriedLength)
  /\ answer' = answer \o Released(r.text, Len(turn')) \o HeldNow(r.text, Len(turn'))
  /\ Stop(r.finish = "length", r.finish = "length")
  /\ forceText' = FALSE /\ UNCHANGED <<toolCalls, steps, history, retriedEmpty, retriedLength>>

\* A provider or the index fails: `?` out of the loop, and Done says so.
Fail ==
  /\ ended = "no" /\ ended' = "error" /\ partial' = TRUE /\ reason' = TRUE
  /\ UNCHANGED <<fixed, toolCalls, tokens, late, history, steps, retriedEmpty, retriedLength,
                 forceText, answer, held, turn, textTurns>>

TimePasses ==
  /\ ended = "no" /\ ~late /\ late' = TRUE
  /\ UNCHANGED <<fixed, toolCalls, tokens, history, steps, retriedEmpty, retriedLength,
                 forceText, answer, held, turn, textTurns, partial, reason, ended>>

Next ==
  \/ PolicyTool
  \/ \E r \in Reply, t \in {0, 1} :
       \/ CallTurn(r, t) \/ CallsRefused(r, t) \/ Continue(r, t) \/ AskAgain(r, t)
       \/ \E text \in {"none", "held", "some"} : FromNotes(r, t, text)
       \/ Answer(r, t)
  \/ Fail
  \/ TimePasses

Spec == Init /\ [][Next]_vars

-----------------------------------------------------------------------------
(* (P1) Whatever the model does: the cap on tool calls is hard             *)
(* (agent.rs:676); every call in the history is answered by a result right *)
(* after it, in order, run or not, so that the history stays one a provider*)
(* takes; and the loop ends: without tools at most three turns and the one *)
(* from the notes are asked for.                                           *)
AskIsBounded ==
  /\ toolCalls <= MaxToolCalls /\ Len(steps) = toolCalls
  /\ \A i \in DOMAIN history :
       LET n == history[i].calls
       IN /\ Len(history) >= i + n
          /\ \A k \in 1..n : history[i + k].role = "tool"
          /\ n > 0 /\ Len(history) > i + n => history[i + n + 1].role # "tool"
  /\ textTurns <= 3
  /\ Len(turn) <= MaxToolCalls + 3

(* (P2) What a turn says beside its tool calls is never part of the answer *)
(* (agent.rs:505), the answer keeps its order, an ask that ends without a  *)
(* word of excuse has one, and one cut short says why.                     *)
AnswerIsNoAside ==
  /\ \A i \in DOMAIN answer :
       /\ answer[i] <= Len(turn) => turn[answer[i]].calls = 0
       /\ i > 1 => answer[i - 1] < answer[i]
  /\ ended = "done" /\ ~reason => answer # <<>>
  /\ partial => reason
  /\ ended = "done" => \A n \in DOMAIN turn :
       turn[n].calls = 0 /\ turn[n].text = "some" => n \in Range(answer)
=============================================================================
