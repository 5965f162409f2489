--------------------------- MODULE ProviderCalls ---------------------------
(***************************************************************************)
(* Calls to one provider: the adapter registry (several roles may use one  *)
(* provider under different models), the governor every call passes (a     *)
(* fair semaphore and two token buckets), the bounded retry of a request,  *)
(* and the response, during which the permit stays with its stream.        *)
(*                                                                         *)
(* The registry looks adapters up, builds and publishes them in separate   *)
(* critical sections, so two calls may build the same adapter.             *)
(***************************************************************************)
EXTENDS Integers, Sequences, FiniteSets

CONSTANTS
  Calls,       \* the calls made to the provider
  Key,         \* Key[c]: the adapter a call asks for (provider, model, URL)
  Estimate,    \* Estimate[c]: the tokens the call says it will use
  Concurrency, \* permits of a governor
  PerMinute,   \* capacity of the request bucket
  TokenCap,    \* capacity of the token bucket
  MaxRetries   \* retries after the first attempt

Governors == 1..Cardinality(Calls)

VARIABLES
  adapters,  \* adapters[k]: the governor of the published adapter k, 0: none
  governor,  \* the governor registered for the provider, 0: none yet
  made,      \* governors made
  free,      \* free[g]: free permits of a governor
  waiting,   \* waiting[g]: the calls queued for a permit, in order
  requests,  \* requests[g]: level of its request bucket
  tokens,    \* tokens[g]: level of its token bucket (may be negative)
  refilled,  \* units the request buckets gained since they were full
  call,      \* call[c]: where the call is, its governor and its attempts
  cancelled  \* the registry's cancellation token

vars == <<adapters, governor, made, free, waiting, requests, tokens, refilled,
          call, cancelled>>
buckets == <<requests, tokens, refilled>>
registry == <<adapters, governor, made>>

Ended == {"ok", "error", "dropped"}
(* Where a call holds a permit: from the semaphore to the end of its stream. *)
Admitted == {"pace", "paceTokens", "body", "attempt", "sent", "backoff", "streaming"}

Init ==
  /\ adapters = [k \in {Key[c] : c \in Calls} |-> 0]
  /\ governor = 0 /\ made = 0
  /\ free = [g \in Governors |-> Concurrency]
  /\ waiting = [g \in Governors |-> <<>>]
  /\ requests = [g \in Governors |-> PerMinute]
  /\ tokens = [g \in Governors |-> TokenCap]
  /\ refilled = 0
  /\ call = [c \in Calls |-> [at |-> "new", gov |-> 0, attempt |-> 0]]
  /\ cancelled = FALSE

Goto(c, at) == call' = [call EXCEPT ![c].at = at]

(* A call is over: whatever way it ends, its permit goes back.  A call that *)
(* is dropped while it queues leaves the queue.                             *)
End(c, how) ==
  /\ Goto(c, how)
  /\ free' = IF call[c].at \in Admitted THEN [free EXCEPT ![call[c].gov] = @ + 1] ELSE free
  /\ waiting' = [g \in Governors |-> SelectSeq(waiting[g], LAMBDA d : d # c)]
  /\ UNCHANGED <<registry, buckets, cancelled>>

(* The role's adapter, if it is published; else the call builds one.       *)
Resolve(c) ==
  /\ call[c].at = "new"
  /\ call' = [call EXCEPT ![c] = IF adapters[Key[c]] # 0
                                 THEN [@ EXCEPT !.at = "resolved", !.gov = adapters[Key[c]]]
                                 ELSE [@ EXCEPT !.at = "building"]]
  /\ UNCHANGED <<registry, free, waiting, buckets, cancelled>>

(* Mutant: a governor for every adapter that is built. *)
GetGovernorAlways(c) ==
  /\ call[c].at = "building"
  /\ governor' = made + 1 /\ made' = made + 1
  /\ call' = [call EXCEPT ![c].at = "built", ![c].gov = made + 1]
  /\ UNCHANGED <<adapters, free, waiting, buckets, cancelled>>

(* The provider's governor is made once, under the lock of the map.        *)
GetGovernor(c) ==
  /\ call[c].at = "building"
  /\ IF governor # 0 THEN UNCHANGED <<governor, made>>
                     ELSE governor' = made + 1 /\ made' = made + 1
  /\ call' = [call EXCEPT ![c].at = "built", ![c].gov = governor']
  /\ UNCHANGED <<adapters, free, waiting, buckets, cancelled>>

(* The last call to build an adapter is the one whose adapter stays.       *)
Publish(c) ==
  /\ call[c].at = "built"
  /\ adapters' = [adapters EXCEPT ![Key[c]] = call[c].gov]
  /\ Goto(c, "resolved")
  /\ UNCHANGED <<governor, made, free, waiting, buckets, cancelled>>

Acquire(c) ==
  /\ call[c].at = "resolved"
  /\ Goto(c, "queued")
  /\ waiting' = [waiting EXCEPT ![call[c].gov] = Append(@, c)]
  /\ UNCHANGED <<registry, free, buckets, cancelled>>

Admit(c) ==
  LET g == call[c].gov IN
  /\ call[c].at = "queued"
  /\ free[g] > 0 /\ Head(waiting[g]) = c
  /\ free' = [free EXCEPT ![g] = @ - 1]
  /\ waiting' = [waiting EXCEPT ![g] = Tail(@)]
  /\ Goto(c, "pace")
  /\ UNCHANGED <<registry, buckets, cancelled>>

(* Bucket::take: a call sleeps until the level reaches what it needs.  A   *)
(* request larger than the bucket takes a full one and leaves a debt.      *)
TakeRequest(c) ==
  LET g == call[c].gov IN
  /\ call[c].at = "pace" /\ requests[g] >= 1
  /\ requests' = [requests EXCEPT ![g] = @ - 1]
  /\ Goto(c, IF Estimate[c] > 0 THEN "paceTokens" ELSE "body")
  /\ UNCHANGED <<registry, free, waiting, tokens, refilled, cancelled>>

Need(n) == IF n < TokenCap THEN n ELSE TokenCap

TakeTokens(c) ==
  LET g == call[c].gov IN
  /\ call[c].at = "paceTokens" /\ tokens[g] >= Need(Estimate[c])
  /\ tokens' = [tokens EXCEPT ![g] = @ - Estimate[c]]
  /\ Goto(c, "body")
  /\ UNCHANGED <<registry, free, waiting, requests, refilled, cancelled>>

(* Time passes: a bucket below its capacity gains a unit.                  *)
RefillRequests(g) ==
  /\ requests[g] < PerMinute
  /\ requests' = [requests EXCEPT ![g] = @ + 1]
  /\ refilled' = refilled + 1
  /\ UNCHANGED <<registry, free, waiting, tokens, call, cancelled>>

RefillTokens(g) ==
  /\ tokens[g] < TokenCap
  /\ tokens' = [tokens EXCEPT ![g] = @ + 1]
  /\ UNCHANGED <<registry, free, waiting, requests, refilled, call, cancelled>>

(* The request body is built once, before the first attempt; a part the    *)
(* adapter cannot send ends the call.                                      *)
BuildBody(c) ==
  /\ call[c].at = "body"
  /\ \/ End(c, "error")
     \/ Goto(c, "attempt") /\ UNCHANGED <<registry, free, waiting, buckets, cancelled>>

(* The top of the retry loop.                                              *)
Attempt(c) ==
  /\ call[c].at = "attempt"
  /\ IF cancelled THEN End(c, "error")
     ELSE /\ call' = [call EXCEPT ![c].at = "sent", ![c].attempt = @ + 1]
          /\ UNCHANGED <<registry, free, waiting, buckets, cancelled>>

(* A response that is not a success ends the call or is waited out.        *)
Refused(c, retryable) ==
  /\ call[c].at = "sent"
  /\ IF retryable /\ call[c].attempt <= MaxRetries
     THEN Goto(c, "backoff") /\ UNCHANGED <<registry, free, waiting, buckets, cancelled>>
     ELSE End(c, "error")

(* The body of a success is streamed; the permit is moved into the stream. *)
Accepted(c) ==
  /\ call[c].at = "sent"
  /\ Goto(c, "streaming")
  /\ UNCHANGED <<registry, free, waiting, buckets, cancelled>>

(* The delay after a refusal is cut short by a cancellation.  When both    *)
(* are ready, either may win; the loop's top then sees the cancellation.   *)
Wake(c) ==
  /\ call[c].at = "backoff"
  /\ \/ cancelled /\ End(c, "error")
     \/ /\ Goto(c, "attempt")
        /\ UNCHANGED <<registry, free, waiting, buckets, cancelled>>

(* The stream ends, breaks or times out; nothing of it is retried.         *)
StreamEnds(c) == call[c].at = "streaming" /\ \E how \in {"ok", "error"} : End(c, how)

(* The caller drops the call or its stream, whatever it awaits.            *)
Dropped(c) == call[c].at \in Admitted \cup {"queued"} /\ End(c, "dropped")

Cancel ==
  /\ ~cancelled /\ cancelled' = TRUE
  /\ UNCHANGED <<registry, free, waiting, buckets, call>>

Step(c) ==
  \/ Resolve(c) \/ GetGovernor(c) \/ Publish(c)
  \/ Acquire(c) \/ Admit(c) \/ TakeRequest(c) \/ TakeTokens(c)
  \/ BuildBody(c) \/ Attempt(c) \/ Accepted(c) \/ Wake(c)
  \/ \E retryable \in BOOLEAN : Refused(c, retryable)
  \/ StreamEnds(c)

Refill == \E g \in Governors : RefillRequests(g) \/ RefillTokens(g)

Done == (\A c \in Calls : call[c].at \in Ended) /\ UNCHANGED vars

Next == Cancel \/ Refill \/ Done \/ \E c \in Calls : Step(c) \/ Dropped(c)

Fairness ==
  /\ WF_vars(Refill)
  /\ \A c \in Calls : WF_vars(Step(c))

Spec == Init /\ [][Next]_vars /\ Fairness

-----------------------------------------------------------------------------
(* The requests sent so far: the attempts of every call.                   *)
Sent == UNION {{c} \X (1..call[c].attempt) : c \in Calls}

(* However many adapters the roles have and however their construction     *)
(* races, the provider sees at most Concurrency requests at a time, the    *)
(* responses still being read included.                                    *)
InFlightWithinLimit ==
  Cardinality({c \in Calls : call[c].at \in {"sent", "streaming"}}) <= Concurrency

(* The request bucket is paid once per call, not per attempt: what the     *)
(* provider sees is bounded by the calls let through times the attempts of *)
(* each, whatever is retried, dropped or cancelled.                        *)
RequestsWithinRate ==
  Cardinality(Sent) <= (MaxRetries + 1) * (PerMinute + refilled)

(* A call ends unless its provider never answers: no permit is lost by a   *)
(* call that was refused, dropped or cancelled, and nobody waits for ever. *)
CallsEnd == \A c \in Calls : <>(call[c].at \in Ended)
=============================================================================
