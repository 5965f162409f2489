----------------------------- MODULE MCServices -----------------------------
(***************************************************************************)
(* Instances for TLC of the components around a request: provider calls,   *)
(* the streams of their answers, the registries of the HTTP server,        *)
(* quotas, budgets, the downloads of media and the shots found in it. They *)
(* share no state and are checked side by side; the theorems about them,   *)
(* for every value of the constants, are at the end.                       *)
(***************************************************************************)
EXTENDS Naturals, Sequences, FiniteSets, FiniteSetTheorems,
        WellFoundedInduction, TLAPS

CONSTANTS
  Calls, Key, Estimate, Concurrency, PerMinute, TokenCap, MaxRetries,
  Adapters, Indexes, MaxEvents,
  MaxTokens,
  Openers, Creators,
  Jobs, Streams, Sources, KeepFinished,
  Work, Asks, Cap, Cost,
  Workers, MaxCost, MaxWall, Window, MinSpan, MaxHead, MaxClock, MaxSpend,
  Fetchers, Size, MaxVersion, MaxAttempts,
  MinDistance, HardDistance, Remembered, MinShotSamples, Distances, MaxSamples,
  MaxAhead

ASSUME CallsAssumption ==
  /\ IsFiniteSet(Calls) /\ Calls # {}
  /\ Concurrency \in Nat /\ PerMinute \in Nat /\ MaxRetries \in Nat

ASSUME SourcesAssumption == Sources \in Nat

ASSUME QuotaAssumption ==
  /\ IsFiniteSet(DOMAIN Work) /\ Work \in [DOMAIN Work -> Nat]
  /\ Cost \in Nat /\ Cap \in Nat

ASSUME WindowAssumption == Window \in Nat /\ MaxHead \in Nat

ASSUME SizeAssumption == Size \in Nat \ {0}

ASSUME SamplesAssumption == MaxSamples \in Nat /\ MaxAhead \in Nat

VARIABLES
  part,  \* the part this behaviour is about; the others stay as they start
  adapters, governor, made, free, waiting, requests, tokens, refilled, call,
  cancelled,
  adapter, building, opened, calls, finish, out, done, sent, frags, begun,
  closed, ending,
  body, arrived, buf, events, ended,
  onDisk, registered, request, openings, instances,
  registry, job, stream,
  asked, left, charged,
  mode, calling, spent, exhausted, wall, head, costs, heads, allCosts,
  allHeads,
  scheme, version, inodes, partFile, dest, cache, fetch, attempts, archive,
  stray,
  ticks, samples, cuts, since, recent, tip, shots, ticked, emitted, replayed,
  stage

P == INSTANCE ProviderCalls
C == INSTANCE ChatStream
E == INSTANCE SseStream
I == INSTANCE IndexRegistry
J == INSTANCE ServerJobs
Q == INSTANCE ServerQuota
B == INSTANCE StageBudget
D == INSTANCE Downloads WITH
  part <- partFile
V == INSTANCE Shots WITH
  live <- ticks, head <- tip, MaxHead <- MaxAhead

callsVars == <<adapters, governor, made, free, waiting, requests, tokens,
  refilled, call, cancelled>>
chatVars == <<adapter, building, opened, calls, finish, out, done, sent,
  frags, begun, closed, ending>>
sseVars == <<body, arrived, buf, events, ended>>
indexesVars == <<onDisk, registered, request, openings, instances>>
jobsVars == <<registry, job, stream>>
quotaVars == <<asked, left, charged>>
budgetVars == <<mode, calling, spent, exhausted, wall, head, costs, heads,
  allCosts, allHeads>>
downloadVars == <<scheme, version, inodes, partFile, dest, cache, fetch,
  attempts, archive, stray>>
shotsVars == <<ticks, samples, cuts, since, recent, tip, shots, ticked, emitted,
  replayed, stage>>
vars == <<part, callsVars, chatVars, sseVars, indexesVars, jobsVars, quotaVars, budgetVars,
          downloadVars, shotsVars>>

Parts == {"calls", "chat", "sse", "indexes", "jobs", "quota", "budget", "download", "shots"}

Init ==
  /\ part \in Parts
  /\ P!Init
  /\ C!Init /\ (part # "chat" => adapter = "openai")
  /\ E!Init /\ (part # "sse" => body = <<"x">>)
  /\ I!Init /\ (part # "indexes" => onDisk = "nothing")
  /\ J!Init
  /\ Q!Init
  /\ B!Init /\ (part # "budget" => mode = "batch")
  /\ D!Init /\ (part # "download" => scheme = "http")
  /\ V!Init /\ (part # "shots" => ticks)

CallsSteps ==
  /\ part = "calls" /\ P!Next
  /\ UNCHANGED <<part, chatVars, sseVars, indexesVars, jobsVars, quotaVars,
                budgetVars, downloadVars, shotsVars>>

ChatSteps ==
  /\ part = "chat" /\ C!Next
  /\ UNCHANGED <<part, callsVars, sseVars, indexesVars, jobsVars,
                quotaVars, budgetVars, downloadVars, shotsVars>>

SseSteps ==
  /\ part = "sse" /\ E!Next
  /\ UNCHANGED <<part, callsVars, chatVars, indexesVars, jobsVars,
                quotaVars, budgetVars, downloadVars, shotsVars>>

IndexesSteps ==
  /\ part = "indexes" /\ I!Next
  /\ UNCHANGED <<part, callsVars, chatVars, sseVars, jobsVars, quotaVars,
                budgetVars, downloadVars, shotsVars>>

JobsSteps ==
  /\ part = "jobs" /\ J!Next
  /\ UNCHANGED <<part, callsVars, chatVars, sseVars, indexesVars,
                quotaVars, budgetVars, downloadVars, shotsVars>>

QuotaSteps ==
  /\ part = "quota" /\ Q!Next
  /\ UNCHANGED <<part, callsVars, chatVars, sseVars, indexesVars, jobsVars,
                budgetVars, downloadVars, shotsVars>>

BudgetSteps ==
  /\ part = "budget" /\ B!Next
  /\ UNCHANGED <<part, callsVars, chatVars, sseVars, indexesVars, jobsVars,
                quotaVars, downloadVars, shotsVars>>

DownloadSteps ==
  /\ part = "download" /\ D!Next
  /\ UNCHANGED <<part, callsVars, chatVars, sseVars, indexesVars, jobsVars,
                quotaVars, budgetVars, shotsVars>>

ShotsSteps ==
  /\ part = "shots" /\ V!Next
  /\ UNCHANGED <<part, callsVars, chatVars, sseVars, indexesVars, jobsVars,
                quotaVars, budgetVars, downloadVars>>

Next ==
  \/ CallsSteps
  \/ ChatSteps
  \/ SseSteps
  \/ IndexesSteps
  \/ JobsSteps
  \/ QuotaSteps
  \/ BudgetSteps
  \/ DownloadSteps
  \/ ShotsSteps

Fairness ==
  /\ WF_callsVars(part = "calls" /\ P!Refill)
  /\ \A c \in Calls : WF_callsVars(part = "calls" /\ P!Step(c))
  /\ \A j \in Jobs : WF_jobsVars(part = "jobs" /\ J!Task(j))
  /\ \A s \in Streams : WF_jobsVars(part = "jobs" /\ J!Follow(s))

Spec == Init /\ [][Next]_vars /\ Fairness

-----------------------------------------------------------------------------
(* Values of the configuration. *)

(* Two roles of one provider: call 1 asks for another model than the rest. *)
Keys == [c \in Calls |-> IF c = 1 THEN "a" ELSE "b"]

(* A call larger than the token bucket, and calls that do not say.         *)
Estimates == [c \in Calls |-> IF c = 1 THEN TokenCap + 1 ELSE 0]

(* Two indexing jobs of two videos, and the asks.                          *)
Works == [r \in {"job1", "job2"} \cup Asks |-> IF r \in Asks THEN 1 ELSE 2]

-----------------------------------------------------------------------------
(* Over every race of building adapters and every mix of refusals, retries *)
(* and drops: at most Concurrency requests are with the provider, the      *)
(* responses being read included, and no more attempts were made than the  *)
(* calls the request bucket let through account for.                       *)
ProviderLimitsHold == P!InFlightWithinLimit /\ P!RequestsWithinRate

(* However the network cuts a body its events are the same, and however    *)
(* a server interleaves the tool calls it streams, the caller gets each    *)
(* whole call once.                                                        *)
BodiesAreReadWhole == E!ChunksDoNotMatter /\ C!CallsAsSent

(* Racing first requests open an index once (state.rs: index).             *)
OpenedOnce == I!OpenedOnce

(* Requests at work on an index share one instance (state.rs:121).         *)
OneInstanceInUse == I!OneInstanceInUse

(* The last snapshot of an event stream is the whole job, and a job that   *)
(* is not over can be followed and cancelled.                              *)
LastSnapshotIsWhole == J!TypeOK /\ J!LastSnapshotIsWhole /\ J!RunningIsListed

(* Past the daily cap, spend and outstanding work only shrink; a closed    *)
(* batch budget stays closed, and no closed budget starts a call.          *)
SpentLimitsHold == Q!OverspendOnlyShrinks /\ B!ClosedStaysClosed

(* The pruned window of a live budget decides like the whole history.      *)
WindowIsExact == B!WindowIsExact

(* Downloads by one job at a time end up whole under their hash.           *)
CachedMediaIsWhole == D!CachedMediaIsWhole

(* acquire.rs:5 of the media cache, with several jobs.                     *)
CacheIsContentAddressed == D!CacheIsContentAddressed

(* Shots go downstream once, final, as stored and as one pass makes them.  *)
ShotsAreFinal == V!ShotsAreFinal

(* Under fair scheduling every call of an answering provider ends, and an  *)
(* event stream ends when its job does.                                    *)
CallsEnd == \A c \in Calls : <>(part = "calls" => call[c].at \in P!Ended)
StreamsEnd ==
  \A s \in Streams :
    stream[s].job # 0 /\ job[stream[s].job].status \in J!Final ~> stream[s].at = "closed"
CallsAndStreamsEnd == CallsEnd /\ StreamsEnd

-----------------------------------------------------------------------------
(* The proofs, one component after the other.                              *)

(* The instances count as this module does. *)
LEMMA SameCount ==
  /\ \A S : I!Cardinality(S) = Cardinality(S)
  /\ \A S : P!Cardinality(S) = Cardinality(S)
  /\ \A S : Q!Cardinality(S) = Cardinality(S)
<1>1. \A S : I!Cardinality(S) = Cardinality(S)
  BY DEF I!Cardinality, Cardinality
<1>2. \A S : P!Cardinality(S) = Cardinality(S)
  BY DEF P!Cardinality, Cardinality
<1>3. \A S : Q!Cardinality(S) = Cardinality(S)
  BY DEF Q!Cardinality, Cardinality
<1>4. QED
  BY <1>1, <1>2, <1>3

(* A behaviour of the composition is, for the part it is about, one of that *)
(* part, and leaves the others where they started.                          *)
LEMMA IndexesStep == [Next]_vars => [I!Next]_indexesVars
BY DEF Next, CallsSteps, ChatSteps, SseSteps, IndexesSteps, JobsSteps, QuotaSteps,
       BudgetSteps, DownloadSteps, ShotsSteps, vars, indexesVars

LEMMA JobsStep == [Next]_vars => [J!Next]_jobsVars
BY DEF Next, CallsSteps, ChatSteps, SseSteps, IndexesSteps, JobsSteps, QuotaSteps,
       BudgetSteps, DownloadSteps, ShotsSteps, vars, jobsVars

-----------------------------------------------------------------------------
(* Provider calls.  Only one governor is ever made, whatever the race, so  *)
(* that its permits and its bucket count every call: a permit is free or   *)
(* with a call, and a call that reached the provider has paid once.        *)
CallPlaces ==
  {"new", "building", "built", "resolved", "queued", "pace", "paceTokens", "body",
   "attempt", "sent", "backoff", "streaming", "ok", "error", "dropped"}

CallRecords == [at : CallPlaces, gov : {0, 1}, attempt : Nat]

CallOk(e) ==
  /\ e \in CallRecords
  /\ e.at \in {"new", "building", "built", "resolved", "queued", "pace", "paceTokens", "body"}
       => e.attempt = 0
  /\ e.at \in {"attempt", "backoff"} => e.attempt <= MaxRetries
  /\ e.attempt <= MaxRetries + 1
  /\ e.at \notin {"new", "building"} => e.gov = 1

Holds(e) == e.at \in P!Admitted

Paid(e) == e.attempt > 0 \/ (Holds(e) /\ e.at # "pace")

Holders == {c \in Calls : Holds(call[c])}

Payers == {c \in Calls : Paid(call[c])}

OneGovernor ==
  /\ made \in {0, 1} /\ governor = made
  /\ adapters \in [{Key[c] : c \in Calls} -> {0, 1}]

LevelsTyped ==
  /\ free \in [P!Governors -> Nat] /\ requests \in [P!Governors -> Nat]
  /\ refilled \in Nat

PermitsAddUp == free[1] + Cardinality(Holders) = Concurrency

PaymentsAddUp == requests[1] + Cardinality(Payers) <= PerMinute + refilled

CallsTyped == call \in [Calls -> CallRecords] /\ \A c \in Calls : CallOk(call[c])

CallsInv == OneGovernor /\ LevelsTyped /\ CallsTyped /\ PermitsAddUp /\ PaymentsAddUp

(* There is a governor 1. *)
LEMMA FirstGovernor == 1 \in P!Governors
<1>1. Cardinality(Calls) \in Nat /\ Cardinality(Calls) # 0
  BY CallsAssumption, FS_CardinalityType, FS_EmptySet
<1>2. QED
  BY <1>1, SameCount DEF P!Governors

(* At first every permit is free and every bucket full. *)
LEMMA CallsStart == P!Init => CallsInv
<1> SUFFICES ASSUME P!Init PROVE CallsInv
  OBVIOUS
<1> USE CallsAssumption, FirstGovernor DEF P!Init
<1>1. OneGovernor /\ LevelsTyped
  BY DEF OneGovernor, LevelsTyped
<1>2. call = [c \in Calls |-> [at |-> "new", gov |-> 0, attempt |-> 0]]
  OBVIOUS
<1>3. CallsTyped
  BY <1>2 DEF CallsTyped, CallOk, CallRecords, CallPlaces
<1>4. Holders = {} /\ Payers = {}
  BY <1>2 DEF Holders, Payers, Holds, Paid, P!Admitted
<1>5. PermitsAddUp /\ PaymentsAddUp
  BY <1>4, FS_EmptySet DEF PermitsAddUp, PaymentsAddUp
<1>6. QED
  BY <1>1, <1>3, <1>5 DEF CallsInv

(* When one call moves, the holders and payers change by it alone. *)
LEMMA CountsMove ==
  ASSUME CallsTyped, NEW c \in Calls, NEW e \in CallRecords,
         call' = [call EXCEPT ![c] = e]
  PROVE  /\ Cardinality(Holders) \in Nat /\ Cardinality(Payers) \in Nat
         /\ Cardinality(Holders)' = Cardinality(Holders) - (IF Holds(call[c]) THEN 1 ELSE 0)
                                      + (IF Holds(e) THEN 1 ELSE 0)
         /\ Cardinality(Payers)' = Cardinality(Payers) - (IF Paid(call[c]) THEN 1 ELSE 0)
                                     + (IF Paid(e) THEN 1 ELSE 0)
<1> USE DEF CallsTyped
<1>1. IsFiniteSet(Holders) /\ IsFiniteSet(Payers)
  BY CallsAssumption, FS_Subset DEF Holders, Payers
<1>2. IsFiniteSet(Holders \ {c}) /\ IsFiniteSet(Payers \ {c})
  BY <1>1, FS_RemoveElement
<1>3. call'[c] = e /\ \A d \in Calls : d # c => call'[d] = call[d]
  OBVIOUS
<1>4. Holders' = IF Holds(e) THEN (Holders \ {c}) \cup {c} ELSE Holders \ {c}
  BY <1>3 DEF Holders, Holds
<1>5. Payers' = IF Paid(e) THEN (Payers \ {c}) \cup {c} ELSE Payers \ {c}
  BY <1>3 DEF Payers, Paid, Holds
<1>6. /\ Cardinality(Holders) \in Nat /\ Cardinality(Payers) \in Nat
      /\ Cardinality(Holders \ {c}) \in Nat /\ Cardinality(Payers \ {c}) \in Nat
  BY <1>1, <1>2, FS_CardinalityType
<1>7. /\ c \in Holders <=> Holds(call[c])
      /\ c \in Payers <=> Paid(call[c])
  BY DEF Holders, Payers
<1>8. Cardinality(Holders \ {c}) = Cardinality(Holders) - (IF Holds(call[c]) THEN 1 ELSE 0)
  <2>1. Cardinality(Holders \ {c}) = IF c \in Holders THEN Cardinality(Holders) - 1 ELSE Cardinality(Holders)
    BY <1>1, FS_RemoveElement
  <2>2. QED
    BY <1>6, <1>7, <2>1
<1>9. Cardinality(Payers \ {c}) = Cardinality(Payers) - (IF Paid(call[c]) THEN 1 ELSE 0)
  <2>1. Cardinality(Payers \ {c}) = IF c \in Payers THEN Cardinality(Payers) - 1 ELSE Cardinality(Payers)
    BY <1>1, FS_RemoveElement
  <2>2. QED
    BY <1>6, <1>7, <2>1
<1>10. Cardinality((Holders \ {c}) \cup {c}) = Cardinality(Holders \ {c}) + 1
  BY <1>2, FS_AddElement
<1>11. Cardinality((Payers \ {c}) \cup {c}) = Cardinality(Payers \ {c}) + 1
  BY <1>2, FS_AddElement
<1>12. Cardinality(Holders)' = Cardinality(Holders \ {c}) + (IF Holds(e) THEN 1 ELSE 0)
  BY <1>4, <1>6, <1>10
<1>13. Cardinality(Payers)' = Cardinality(Payers \ {c}) + (IF Paid(e) THEN 1 ELSE 0)
  BY <1>5, <1>6, <1>11
<1>14. QED
  BY <1>6, <1>8, <1>9, <1>12, <1>13

(* A move of one call that gives and takes what it should keeps the        *)
(* invariant.                                                              *)
LEMMA MoveIsSound ==
  ASSUME CallsInv, NEW c \in Calls, NEW e, CallOk(e), call' = [call EXCEPT ![c] = e],
         OneGovernor', LevelsTyped', refilled' = refilled,
         free'[1] = free[1] + (IF Holds(call[c]) THEN 1 ELSE 0) - (IF Holds(e) THEN 1 ELSE 0),
         requests'[1] + (IF Paid(e) THEN 1 ELSE 0)
           <= requests[1] + (IF Paid(call[c]) THEN 1 ELSE 0)
  PROVE  CallsInv'
<1>1. CallsTyped /\ e \in CallRecords
  BY DEF CallsInv, CallOk
<1>2. CallsTyped'
  BY <1>1 DEF CallsTyped
<1>3. /\ Cardinality(Holders) \in Nat /\ Cardinality(Payers) \in Nat
      /\ Cardinality(Holders)' = Cardinality(Holders) - (IF Holds(call[c]) THEN 1 ELSE 0)
                                   + (IF Holds(e) THEN 1 ELSE 0)
      /\ Cardinality(Payers)' = Cardinality(Payers) - (IF Paid(call[c]) THEN 1 ELSE 0)
                                  + (IF Paid(e) THEN 1 ELSE 0)
  BY <1>1, CountsMove
<1>4. free[1] \in Nat /\ free'[1] \in Nat /\ requests[1] \in Nat /\ requests'[1] \in Nat
  BY FirstGovernor DEF CallsInv, LevelsTyped
<1>5. /\ free[1] + Cardinality(Holders) = Concurrency
      /\ requests[1] + Cardinality(Payers) <= PerMinute + refilled
      /\ refilled \in Nat
  BY DEF CallsInv, PermitsAddUp, PaymentsAddUp, LevelsTyped
<1>6. PermitsAddUp'
  BY <1>3, <1>4, <1>5, CallsAssumption DEF PermitsAddUp
<1>7. PaymentsAddUp'
  BY <1>3, <1>4, <1>5, CallsAssumption DEF PaymentsAddUp
<1>8. QED
  BY <1>2, <1>6, <1>7 DEF CallsInv

(* How one call moves: it changes its place, and what is not named stays.  *)
LEMMA GotoMoves ==
  ASSUME CallsTyped, NEW c \in Calls, NEW at, P!Goto(c, at)
  PROVE  call' = [call EXCEPT ![c] =
                    [at |-> at, gov |-> call[c].gov, attempt |-> call[c].attempt]]
<1>1. call[c] \in CallRecords
  BY DEF CallsTyped
<1>2. [call[c] EXCEPT !.at = at] = [at |-> at, gov |-> call[c].gov, attempt |-> call[c].attempt]
  BY <1>1 DEF CallRecords
<1>3. call' = [call EXCEPT ![c] = [call[c] EXCEPT !.at = at]]
  BY DEF P!Goto
<1>4. QED
  BY <1>2, <1>3

LEMMA TwoFields ==
  ASSUME NEW e \in CallRecords, NEW at, NEW g
  PROVE  [e EXCEPT !.at = at, !.gov = g] = [at |-> at, gov |-> g, attempt |-> e.attempt]
<1>1. [e EXCEPT !.at = at] = [at |-> at, gov |-> e.gov, attempt |-> e.attempt]
  BY DEF CallRecords
<1>2. [[at |-> at, gov |-> e.gov, attempt |-> e.attempt] EXCEPT !.gov = g]
        = [at |-> at, gov |-> g, attempt |-> e.attempt]
  OBVIOUS
<1>3. [e EXCEPT !.at = at, !.gov = g]
        = [[at |-> at, gov |-> e.gov, attempt |-> e.attempt] EXCEPT !.gov = g]
  BY <1>1
<1>4. QED
  BY <1>2, <1>3

(* Whatever way a call ends, the permit it held goes back. *)
LEMMA EndIsSound ==
  ASSUME CallsInv, NEW c \in Calls, NEW how \in P!Ended, P!End(c, how),
         call[c].at \notin {"new", "building"}
  PROVE  CallsInv'
<1> DEFINE e == [at |-> how, gov |-> call[c].gov, attempt |-> call[c].attempt]
<1>1. CallsTyped /\ CallOk(call[c]) /\ call[c] \in CallRecords
  BY DEF CallsInv, CallsTyped
<1>2. call' = [call EXCEPT ![c] = e]
  BY <1>1, GotoMoves DEF P!End
<1>3. CallOk(e) /\ ~Holds(e) /\ call[c].gov = 1
  BY <1>1 DEF CallOk, CallRecords, CallPlaces, Holds, P!Ended, P!Admitted
<1>4. Paid(e) => Paid(call[c])
  BY <1>3 DEF Paid
<1>5. free \in [P!Governors -> Nat] /\ 1 \in P!Governors
  BY FirstGovernor DEF CallsInv, LevelsTyped
<1>6. free' = IF Holds(call[c]) THEN [free EXCEPT ![1] = @ + 1] ELSE free
  BY <1>3 DEF P!End, Holds
<1>7. UNCHANGED <<requests, refilled, adapters, governor, made>>
  BY DEF P!End, P!registry, P!buckets
<1>8. OneGovernor' /\ LevelsTyped'
  BY <1>5, <1>6, <1>7 DEF CallsInv, OneGovernor, LevelsTyped, P!Governors
<1>9. free'[1] = free[1] + (IF Holds(call[c]) THEN 1 ELSE 0)
  BY <1>5, <1>6
<1>10. free[1] \in Nat /\ requests[1] \in Nat
  BY <1>5 DEF CallsInv, LevelsTyped
<1> HIDE DEF e
<1>11. free'[1] = free[1] + (IF Holds(call[c]) THEN 1 ELSE 0) - (IF Holds(e) THEN 1 ELSE 0)
  BY <1>3, <1>9, <1>10
<1>12. requests'[1] + (IF Paid(e) THEN 1 ELSE 0)
         <= requests[1] + (IF Paid(call[c]) THEN 1 ELSE 0)
  BY <1>4, <1>7, <1>10
<1>13. QED
  BY <1>2, <1>3, <1>7, <1>8, <1>11, <1>12, MoveIsSound

(* Getting an adapter: only the first call to ask makes a governor. *)
LEMMA AdapterIsSound ==
  ASSUME CallsInv, NEW c \in Calls, P!Resolve(c) \/ P!GetGovernor(c) \/ P!Publish(c)
  PROVE  CallsInv'
<1>1. CallsTyped /\ CallOk(call[c]) /\ call[c] \in CallRecords
  BY DEF CallsInv, CallsTyped
<1>2. UNCHANGED <<free, requests, refilled>>
  BY DEF P!Resolve, P!GetGovernor, P!Publish, P!buckets
<1>3. Key[c] \in {Key[d] : d \in Calls} /\ adapters[Key[c]] \in {0, 1}
  BY DEF CallsInv, OneGovernor
<1>4. LevelsTyped' /\ free[1] \in Nat /\ requests[1] \in Nat
  BY <1>2, FirstGovernor DEF CallsInv, LevelsTyped, P!Governors
<1>5. ~Holds(call[c])
  BY DEF P!Resolve, P!GetGovernor, P!Publish, Holds, P!Admitted
<1>6. ASSUME NEW at \in {"resolved", "building", "built"}, NEW g \in {0, 1},
             at # "building" => g = 1, OneGovernor',
             call' = [call EXCEPT ![c] = [at |-> at, gov |-> g, attempt |-> call[c].attempt]]
      PROVE  CallsInv'
  <2> DEFINE e == [at |-> at, gov |-> g, attempt |-> call[c].attempt]
  <2>1. call[c].attempt = 0
    BY <1>1 DEF CallOk, P!Resolve, P!GetGovernor, P!Publish
  <2>2. CallOk(e) /\ ~Holds(e) /\ ~Paid(e)
    BY <1>6, <2>1, CallsAssumption DEF CallOk, CallRecords, CallPlaces, Holds, Paid, P!Admitted
  <2>3. call' = [call EXCEPT ![c] = e]
    BY <1>6
  <2> HIDE DEF e
  <2>4. requests'[1] + (IF Paid(e) THEN 1 ELSE 0)
          <= requests[1] + (IF Paid(call[c]) THEN 1 ELSE 0)
    BY <1>2, <1>4, <2>2
  <2>5. free'[1] = free[1] + (IF Holds(call[c]) THEN 1 ELSE 0) - (IF Holds(e) THEN 1 ELSE 0)
    BY <1>2, <1>4, <1>5, <2>2
  <2>6. QED
    BY <1>2, <1>4, <1>6, <2>2, <2>3, <2>4, <2>5, MoveIsSound
<1>7. CASE P!Resolve(c)
  <2>1. OneGovernor'
    BY <1>7 DEF P!Resolve, P!registry, CallsInv, OneGovernor
  <2>2. CASE adapters[Key[c]] # 0
    <3>1. call' = [call EXCEPT ![c] = [call[c] EXCEPT !.at = "resolved", !.gov = adapters[Key[c]]]]
      BY <1>7, <2>2 DEF P!Resolve
    <3>2. [call[c] EXCEPT !.at = "resolved", !.gov = adapters[Key[c]]]
            = [at |-> "resolved", gov |-> adapters[Key[c]], attempt |-> call[c].attempt]
      BY <1>1, TwoFields
    <3>3. QED
      BY <1>3, <1>6, <2>1, <2>2, <3>1, <3>2
  <2>3. CASE adapters[Key[c]] = 0
    <3>1. call' = [call EXCEPT ![c] = [call[c] EXCEPT !.at = "building"]]
      BY <1>7, <2>3 DEF P!Resolve
    <3>2. [call[c] EXCEPT !.at = "building"]
            = [at |-> "building", gov |-> call[c].gov, attempt |-> call[c].attempt]
      BY <1>1 DEF CallRecords
    <3>3. call[c].gov \in {0, 1}
      BY <1>1 DEF CallRecords
    <3>4. QED
      BY <1>6, <2>1, <3>1, <3>2, <3>3
  <2>4. QED
    BY <2>2, <2>3
<1>8. CASE P!GetGovernor(c)
  <2>1. governor' = 1 /\ made' = 1 /\ adapters' = adapters
    BY <1>8 DEF P!GetGovernor, CallsInv, OneGovernor
  <2>2. OneGovernor'
    BY <2>1 DEF CallsInv, OneGovernor
  <2>3. call' = [call EXCEPT ![c] = [call[c] EXCEPT !.at = "built", !.gov = 1]]
    BY <1>1, <1>8, <2>1 DEF P!GetGovernor, CallsTyped
  <2>4. [call[c] EXCEPT !.at = "built", !.gov = 1]
          = [at |-> "built", gov |-> 1, attempt |-> call[c].attempt]
    BY <1>1, TwoFields
  <2>5. QED
    BY <1>6, <2>2, <2>3, <2>4
<1>9. CASE P!Publish(c)
  <2>1. call[c].gov = 1 /\ P!Goto(c, "resolved")
    BY <1>1, <1>9 DEF P!Publish, CallOk
  <2>2. adapters' = [adapters EXCEPT ![Key[c]] = 1] /\ governor' = governor /\ made' = made
    BY <1>9, <2>1 DEF P!Publish
  <2>3. OneGovernor'
    BY <1>3, <2>2 DEF CallsInv, OneGovernor
  <2>4. QED
    BY <1>1, <1>6, <2>1, <2>3, GotoMoves
<1>10. QED
  BY <1>7, <1>8, <1>9

(* A place in the queue, a permit, then a request from the bucket. *)
LEMMA AdmissionIsSound ==
  ASSUME CallsInv, NEW c \in Calls,
         P!Acquire(c) \/ P!Admit(c) \/ P!TakeRequest(c) \/ P!TakeTokens(c)
  PROVE  CallsInv'
<1>1. CallsTyped /\ CallOk(call[c]) /\ call[c] \in CallRecords
  BY DEF CallsInv, CallsTyped
<1>2. call[c].gov = 1 /\ call[c].attempt = 0
  BY <1>1 DEF CallOk, P!Acquire, P!Admit, P!TakeRequest, P!TakeTokens
<1>3. OneGovernor' /\ refilled' = refilled
  BY DEF P!Acquire, P!Admit, P!TakeRequest, P!TakeTokens, P!registry, P!buckets,
         CallsInv, OneGovernor
<1>4. /\ 1 \in P!Governors /\ free \in [P!Governors -> Nat]
      /\ requests \in [P!Governors -> Nat] /\ refilled \in Nat
      /\ free[1] \in Nat /\ requests[1] \in Nat
  BY FirstGovernor DEF CallsInv, LevelsTyped
<1>5. ASSUME NEW at \in {"queued", "pace", "paceTokens", "body"}, P!Goto(c, at), LevelsTyped',
             free'[1] = free[1] + (IF Holds(call[c]) THEN 1 ELSE 0)
                          - (IF at = "queued" THEN 0 ELSE 1),
             requests'[1] + (IF at \in {"paceTokens", "body"} THEN 1 ELSE 0)
               <= requests[1] + (IF Paid(call[c]) THEN 1 ELSE 0)
      PROVE  CallsInv'
  <2> DEFINE e == [at |-> at, gov |-> call[c].gov, attempt |-> call[c].attempt]
  <2>1. call' = [call EXCEPT ![c] = e]
    BY <1>1, <1>5, GotoMoves
  <2>2. CallOk(e)
    BY <1>2, CallsAssumption DEF CallOk, CallRecords, CallPlaces
  <2>3. Holds(e) <=> at # "queued"
    BY DEF Holds, P!Admitted
  <2>4. Paid(e) <=> at \in {"paceTokens", "body"}
    BY <1>2 DEF Paid, Holds, P!Admitted
  <2> HIDE DEF e
  <2>5. free'[1] = free[1] + (IF Holds(call[c]) THEN 1 ELSE 0) - (IF Holds(e) THEN 1 ELSE 0)
    BY <1>5, <2>3
  <2>6. requests'[1] + (IF Paid(e) THEN 1 ELSE 0)
          <= requests[1] + (IF Paid(call[c]) THEN 1 ELSE 0)
    BY <1>5, <2>4
  <2>7. QED
    BY <1>3, <1>5, <2>1, <2>2, <2>5, <2>6, MoveIsSound
<1>6. CASE P!Acquire(c)
  <2>1. ~Holds(call[c]) /\ UNCHANGED <<free, requests, refilled>>
    BY <1>6 DEF P!Acquire, P!buckets, Holds, P!Admitted
  <2>2. ~Paid(call[c]) /\ LevelsTyped'
    BY <1>2, <1>4, <2>1 DEF Paid, LevelsTyped, P!Governors
  <2>3. P!Goto(c, "queued")
    BY <1>6 DEF P!Acquire
  <2>4. QED
    BY <1>4, <1>5, <2>1, <2>2, <2>3
<1>7. CASE P!Admit(c)
  <2>1. /\ ~Holds(call[c]) /\ UNCHANGED <<requests, refilled>> /\ free[1] > 0
        /\ free' = [free EXCEPT ![1] = @ - 1]
    BY <1>2, <1>7 DEF P!Admit, P!buckets, Holds, P!Admitted
  <2>2. ~Paid(call[c]) /\ free[1] - 1 \in Nat
    BY <1>2, <1>4, <2>1 DEF Paid
  <2>3. free' \in [P!Governors -> Nat] /\ free'[1] = free[1] - 1
    BY <1>4, <2>1, <2>2
  <2>4. LevelsTyped'
    BY <1>4, <2>1, <2>3 DEF LevelsTyped, P!Governors
  <2>5. P!Goto(c, "pace")
    BY <1>7 DEF P!Admit
  <2>6. QED
    BY <1>4, <1>5, <2>1, <2>2, <2>3, <2>4, <2>5
<1>8. CASE P!TakeRequest(c)
  <2>1. /\ Holds(call[c]) /\ ~Paid(call[c]) /\ UNCHANGED <<free, refilled>>
        /\ requests[1] >= 1 /\ requests' = [requests EXCEPT ![1] = @ - 1]
    BY <1>2, <1>8 DEF P!TakeRequest, Holds, Paid, P!Admitted
  <2>2. requests[1] - 1 \in Nat
    BY <1>4, <2>1
  <2>3. requests' \in [P!Governors -> Nat] /\ requests'[1] = requests[1] - 1
    BY <1>4, <2>1, <2>2
  <2>4. LevelsTyped'
    BY <1>4, <2>1, <2>3 DEF LevelsTyped, P!Governors
  <2>5. P!Goto(c, "paceTokens") \/ P!Goto(c, "body")
    BY <1>8 DEF P!TakeRequest
  <2>6. QED
    BY <1>4, <1>5, <2>1, <2>3, <2>4, <2>5
<1>9. CASE P!TakeTokens(c)
  <2>1. /\ Holds(call[c]) /\ Paid(call[c]) /\ UNCHANGED <<free, requests, refilled>>
        /\ P!Goto(c, "body")
    BY <1>9 DEF P!TakeTokens, Holds, Paid, P!Admitted
  <2>2. LevelsTyped'
    BY <1>4, <2>1 DEF LevelsTyped, P!Governors
  <2>3. QED
    BY <1>4, <1>5, <2>1, <2>2
<1>10. QED
  BY <1>6, <1>7, <1>8, <1>9

(* The attempts of a call, from its body to the end of its stream. *)
LEMMA AttemptsAreSound ==
  ASSUME CallsInv, NEW c \in Calls,
         \/ P!BuildBody(c) \/ P!Attempt(c) \/ P!Accepted(c) \/ P!Wake(c)
         \/ \E retryable \in BOOLEAN : P!Refused(c, retryable)
         \/ P!StreamEnds(c) \/ P!Dropped(c)
  PROVE  CallsInv'
<1>1. CallsTyped /\ CallOk(call[c]) /\ call[c] \in CallRecords
  BY DEF CallsInv, CallsTyped
<1>2. call[c].at \notin {"new", "building"}
  BY DEF P!BuildBody, P!Attempt, P!Accepted, P!Wake, P!Refused, P!StreamEnds, P!Dropped,
         P!Admitted
<1>3. ASSUME NEW how \in {"ok", "error", "dropped"}, P!End(c, how) PROVE CallsInv'
  BY <1>2, <1>3, EndIsSound DEF P!Ended
<1>4. ASSUME NEW at \in {"attempt", "sent", "backoff", "streaming"}, NEW n \in Nat,
             n >= call[c].attempt, n <= MaxRetries + 1,
             at \in {"attempt", "backoff"} => n <= MaxRetries,
             Holds(call[c]), Paid(call[c]),
             UNCHANGED <<adapters, governor, made, free, requests, refilled>>,
             call' = [call EXCEPT ![c] = [at |-> at, gov |-> call[c].gov, attempt |-> n]]
      PROVE  CallsInv'
  <2> DEFINE e == [at |-> at, gov |-> call[c].gov, attempt |-> n]
  <2>1. CallOk(e) /\ Holds(e) /\ Paid(e)
    BY <1>1, <1>2, <1>4 DEF CallOk, CallRecords, CallPlaces, Holds, Paid, P!Admitted
  <2>2. call' = [call EXCEPT ![c] = e] /\ refilled' = refilled
    BY <1>4
  <2>3. OneGovernor' /\ LevelsTyped' /\ free[1] \in Nat /\ requests[1] \in Nat
    BY <1>4, FirstGovernor DEF CallsInv, OneGovernor, LevelsTyped, P!Governors
  <2> HIDE DEF e
  <2>4. free'[1] = free[1] + (IF Holds(call[c]) THEN 1 ELSE 0) - (IF Holds(e) THEN 1 ELSE 0)
    BY <1>4, <2>1, <2>3
  <2>5. requests'[1] + (IF Paid(e) THEN 1 ELSE 0)
          <= requests[1] + (IF Paid(call[c]) THEN 1 ELSE 0)
    BY <1>4, <2>1, <2>3
  <2>6. QED
    BY <2>1, <2>2, <2>3, <2>4, <2>5, MoveIsSound
<1>5. ASSUME NEW at \in {"attempt", "backoff", "streaming"}, P!Goto(c, at),
             call[c].at \in {"body", "sent", "backoff"},
             at \in {"attempt", "backoff"} => call[c].attempt <= MaxRetries,
             UNCHANGED <<adapters, governor, made, free, requests, refilled>>
      PROVE  CallsInv'
  <2>1. Holds(call[c]) /\ Paid(call[c])
    BY <1>1, <1>5 DEF Holds, Paid, P!Admitted
  <2>2. call[c].attempt \in Nat /\ call[c].attempt <= MaxRetries + 1
    BY <1>1 DEF CallOk, CallRecords
  <2>3. QED
    BY <1>1, <1>4, <1>5, <2>1, <2>2, GotoMoves
<1>6. CASE P!BuildBody(c)
  <2>1. CASE P!End(c, "error")
    BY <1>3, <2>1
  <2>2. CASE P!Goto(c, "attempt") /\ UNCHANGED <<P!registry, free, waiting, P!buckets, cancelled>>
    <3>1. call[c].at = "body" /\ call[c].attempt <= MaxRetries
      BY <1>1, <1>6, CallsAssumption DEF P!BuildBody, CallOk
    <3>2. UNCHANGED <<adapters, governor, made, free, requests, refilled>>
      BY <2>2 DEF P!registry, P!buckets
    <3>3. QED
      BY <1>5, <2>2, <3>1, <3>2
  <2>3. QED
    BY <1>6, <2>1, <2>2 DEF P!BuildBody
<1>7. CASE P!Attempt(c)
  <2>1. CASE cancelled
    BY <1>3, <1>7, <2>1 DEF P!Attempt
  <2>2. CASE ~cancelled
    <3>1. /\ call[c].at = "attempt"
          /\ call' = [call EXCEPT ![c].at = "sent", ![c].attempt = @ + 1]
          /\ UNCHANGED <<adapters, governor, made, free, requests, refilled>>
      BY <1>7, <2>2 DEF P!Attempt, P!registry, P!buckets
    <3>2. call[c].attempt \in Nat /\ call[c].attempt <= MaxRetries
      BY <1>1, <3>1 DEF CallOk, CallRecords
    <3>3. call' = [call EXCEPT ![c] =
                     [at |-> "sent", gov |-> call[c].gov, attempt |-> call[c].attempt + 1]]
      BY <1>1, <3>1 DEF CallsTyped, CallRecords
    <3>4. Holds(call[c]) /\ Paid(call[c])
      BY <3>1 DEF Holds, Paid, P!Admitted
    <3>5. /\ call[c].attempt + 1 \in Nat /\ call[c].attempt + 1 >= call[c].attempt
          /\ call[c].attempt + 1 <= MaxRetries + 1
      BY <3>2, CallsAssumption
    <3>6. QED
      BY <1>4, <3>1, <3>3, <3>4, <3>5
  <2>3. QED
    BY <2>1, <2>2
<1>8. CASE P!Accepted(c)
  BY <1>5, <1>8 DEF P!Accepted, P!registry, P!buckets
<1>9. CASE P!Wake(c)
  <2>1. CASE P!End(c, "error")
    BY <1>3, <2>1
  <2>2. CASE P!Goto(c, "attempt") /\ UNCHANGED <<P!registry, free, waiting, P!buckets, cancelled>>
    <3>1. call[c].at = "backoff" /\ call[c].attempt <= MaxRetries
      BY <1>1, <1>9 DEF P!Wake, CallOk
    <3>2. UNCHANGED <<adapters, governor, made, free, requests, refilled>>
      BY <2>2 DEF P!registry, P!buckets
    <3>3. QED
      BY <1>5, <2>2, <3>1, <3>2
  <2>3. QED
    BY <1>9, <2>1, <2>2 DEF P!Wake
<1>10. ASSUME NEW retryable \in BOOLEAN, P!Refused(c, retryable) PROVE CallsInv'
  <2>1. CASE retryable /\ call[c].attempt <= MaxRetries
    BY <1>5, <1>10, <2>1 DEF P!Refused, P!registry, P!buckets
  <2>2. CASE ~(retryable /\ call[c].attempt <= MaxRetries)
    BY <1>3, <1>10, <2>2 DEF P!Refused
  <2>3. QED
    BY <2>1, <2>2
<1>11. CASE P!StreamEnds(c)
  BY <1>3, <1>11 DEF P!StreamEnds
<1>12. CASE P!Dropped(c)
  BY <1>3, <1>12 DEF P!Dropped
<1>13. QED
  BY <1>6, <1>7, <1>8, <1>9, <1>10, <1>11, <1>12

(* Time and a cancellation: a bucket gains what refilled counts. *)
LEMMA RefillIsSound ==
  ASSUME CallsInv, P!Refill \/ P!Cancel \/ P!Done \/ UNCHANGED callsVars
  PROVE  CallsInv'
<1>1. /\ 1 \in P!Governors /\ requests \in [P!Governors -> Nat] /\ refilled \in Nat
      /\ free \in [P!Governors -> Nat] /\ requests[1] \in Nat
  BY FirstGovernor DEF CallsInv, LevelsTyped
<1>2. CASE UNCHANGED <<adapters, governor, made, free, requests, refilled, call>>
  BY <1>2 DEF CallsInv, OneGovernor, LevelsTyped, CallsTyped, PermitsAddUp, PaymentsAddUp,
              Holders, Payers, P!Governors
<1>3. ASSUME NEW g \in P!Governors, P!RefillRequests(g) PROVE CallsInv'
  <2>1. /\ requests' = [requests EXCEPT ![g] = @ + 1] /\ refilled' = refilled + 1
        /\ UNCHANGED <<adapters, governor, made, free, call>>
    BY <1>3 DEF P!RefillRequests, P!registry
  <2>2. requests' \in [P!Governors -> Nat] /\ refilled' \in Nat
    BY <1>1, <2>1
  <2>3. requests'[1] <= requests[1] + 1 /\ requests'[1] \in Nat
    BY <1>1, <2>1, <2>2
  <2>4. Holders' = Holders /\ Payers' = Payers
    BY <2>1 DEF Holders, Payers
  <2>5. IsFiniteSet(Payers)
    BY CallsAssumption, FS_Subset DEF Payers
  <2>6. Cardinality(Payers) \in Nat
    BY <2>5, FS_CardinalityType
  <2>7. PaymentsAddUp'
    BY <1>1, <2>1, <2>3, <2>4, <2>6, CallsAssumption DEF CallsInv, PaymentsAddUp
  <2>8. QED
    BY <2>1, <2>2, <2>4, <2>7
       DEF CallsInv, OneGovernor, LevelsTyped, CallsTyped, PermitsAddUp, P!Governors
<1>4. ASSUME NEW g \in P!Governors, P!RefillTokens(g) PROVE CallsInv'
  BY <1>2, <1>4 DEF P!RefillTokens, P!registry
<1>5. CASE P!Cancel
  BY <1>2, <1>5 DEF P!Cancel, P!registry, P!buckets
<1>6. CASE P!Done \/ UNCHANGED callsVars
  BY <1>2, <1>6 DEF P!Done, P!vars, callsVars
<1>7. QED
  BY <1>3, <1>4, <1>5, <1>6 DEF P!Refill

LEMMA CallsAreKept == CallsInv /\ [P!Next]_callsVars => CallsInv'
<1> SUFFICES ASSUME CallsInv, [P!Next]_callsVars PROVE CallsInv'
  OBVIOUS
<1>1. ASSUME NEW c \in Calls, P!Step(c) \/ P!Dropped(c) PROVE CallsInv'
  BY <1>1, AdapterIsSound, AdmissionIsSound, AttemptsAreSound DEF P!Step
<1>2. QED
  BY <1>1, RefillIsSound DEF P!Next

(* The calls with the provider hold a permit; each request is one of at    *)
(* most MaxRetries + 1 attempts of a call that paid.                       *)
LEMMA LimitsMean == CallsInv => ProviderLimitsHold
<1> SUFFICES ASSUME CallsInv PROVE P!InFlightWithinLimit /\ P!RequestsWithinRate
  BY DEF ProviderLimitsHold
<1>1. IsFiniteSet(Holders) /\ IsFiniteSet(Payers)
  BY CallsAssumption, FS_Subset DEF Holders, Payers
<1>2. Cardinality(Holders) \in Nat /\ Cardinality(Payers) \in Nat
  BY <1>1, FS_CardinalityType
<1>3. free[1] \in Nat /\ requests[1] \in Nat /\ refilled \in Nat
  BY FirstGovernor DEF CallsInv, LevelsTyped
<1>4. P!InFlightWithinLimit
  <2> DEFINE T == {c \in Calls : call[c].at \in {"sent", "streaming"}}
  <2>1. T \in SUBSET Holders
    BY DEF Holders, Holds, P!Admitted
  <2>2. Cardinality(T) <= Cardinality(Holders) /\ IsFiniteSet(T)
    BY <1>1, <2>1, FS_Subset
  <2>3. Cardinality(T) \in Nat
    BY <2>2, FS_CardinalityType
  <2>4. Cardinality(T) <= Concurrency
    BY <1>2, <1>3, <2>2, <2>3, CallsAssumption DEF CallsInv, PermitsAddUp
  <2>5. QED
    BY <2>4, SameCount DEF P!InFlightWithinLimit
<1>5. P!RequestsWithinRate
  <2> DEFINE Tries == 1..(MaxRetries + 1)
  <2>1. P!Sent \in SUBSET (Payers \X Tries)
    <3>1. ASSUME NEW c \in Calls, NEW n \in 1..call[c].attempt
          PROVE  c \in Payers /\ n \in Tries
      <4>1. call[c].attempt \in Nat /\ call[c].attempt <= MaxRetries + 1
        BY DEF CallsInv, CallsTyped, CallOk, CallRecords
      <4>2. QED
        BY <3>1, <4>1, CallsAssumption DEF Payers, Paid
    <3>2. QED
      BY <3>1 DEF P!Sent
  <2>2. IsFiniteSet(Tries) /\ Cardinality(Tries) = MaxRetries + 1
    BY CallsAssumption, FS_Interval
  <2>3. /\ IsFiniteSet(Payers \X Tries)
        /\ Cardinality(Payers \X Tries) = Cardinality(Payers) * Cardinality(Tries)
    BY <1>1, <2>2, FS_Product
  <2>4. Cardinality(P!Sent) <= Cardinality(Payers \X Tries) /\ IsFiniteSet(P!Sent)
    BY <2>1, <2>3, FS_Subset
  <2>5. Cardinality(P!Sent) \in Nat
    BY <2>4, FS_CardinalityType
  <2>6. Cardinality(Payers) <= PerMinute + refilled
    BY <1>2, <1>3, CallsAssumption DEF CallsInv, PaymentsAddUp
  <2>7. Cardinality(Payers) * (MaxRetries + 1) <= (MaxRetries + 1) * (PerMinute + refilled)
    <3>1. ASSUME NEW a \in Nat, NEW b \in Nat, NEW m \in Nat, a <= b
          PROVE  a * m <= m * b
      BY <3>1
    <3>2. QED
      BY <1>2, <1>3, <2>6, <3>1, CallsAssumption
  <2>8. Cardinality(P!Sent) <= (MaxRetries + 1) * (PerMinute + refilled)
    BY <1>2, <1>3, <2>2, <2>3, <2>4, <2>5, <2>7, CallsAssumption
  <2>9. QED
    BY <2>8, SameCount DEF P!RequestsWithinRate
<1>6. QED
  BY <1>4, <1>5

LEMMA CallsStep == [Next]_vars => [P!Next]_callsVars
BY DEF Next, CallsSteps, ChatSteps, SseSteps, IndexesSteps, JobsSteps, QuotaSteps,
       BudgetSteps, DownloadSteps, ShotsSteps, vars, callsVars

(* For any number of calls, roles and adapters, however their construction *)
(* races and whatever is refused, retried, dropped or cancelled: at most   *)
(* Concurrency requests are with the provider, and no more were sent than  *)
(* the bucket let calls through, times the attempts of a call (Governor,   *)
(* Bucket::take, Transport::send).                                         *)
THEOREM ProviderLimitsAlwaysHold == Spec => []ProviderLimitsHold
<1>1. Init => CallsInv
  BY CallsStart DEF Init
<1>2. CallsInv /\ [Next]_vars => CallsInv'
  BY CallsAreKept, CallsStep
<1>3. QED
  BY <1>1, <1>2, LimitsMean, PTL DEF Spec
-----------------------------------------------------------------------------
(* What the write lock protects: an instance opened stays registered, or   *)
(* gives way to one a creator made, but the place is never empty again.    *)
Opened ==
  /\ registered = I!None => openings = {}
  /\ openings = {} \/ \E i \in Nat : openings = {i}

Places ==
  {"start", "missed", "open", "using", "done", "notFound", "create", "conflict",
   "files", "made"}

(* A creator that comes to register holds an instance.                     *)
Made ==
  /\ instances \in Nat
  /\ request \in [I!Requests -> [at : Places, holds : Nat]]
  /\ registered \in Nat
  /\ \A r \in I!Requests : request[r].at = "made" => request[r].holds # I!None

RegistryInv == Opened /\ Made

(* Before any request nothing is open.                                     *)
LEMMA RegistryStarts == I!Init => RegistryInv
BY DEF I!Init, RegistryInv, Opened, Made, Places, I!None

(* A request may take any place and any instance; to "made", a real one.   *)
LEMMA UseIsSound ==
  ASSUME Made, registered' \in Nat, instances' \in Nat,
         NEW r \in I!Requests, NEW at \in Places, NEW i \in Nat,
         at = "made" => i # I!None,
         request' = [request EXCEPT ![r] = [at |-> at, holds |-> i]]
  PROVE  Made'
<1>1. request' \in [I!Requests -> [at : Places, holds : Nat]]
  BY DEF Made
<1>2. ASSUME NEW q \in I!Requests, request'[q].at = "made"
      PROVE  request'[q].holds # I!None
  <2>1. CASE q = r
    <3>1. request'[q] = [at |-> at, holds |-> i]
      BY <2>1 DEF Made
    <3> QED BY <1>2, <3>1
  <2>2. CASE q # r
    <3>1. request'[q] = request[q]
      BY <2>2 DEF Made
    <3> QED BY <1>2, <3>1 DEF Made
  <2> QED BY <2>1, <2>2
<1> QED BY <1>1, <1>2 DEF Made

(* A request that only moves, anywhere but to "made", holds what it held.  *)
LEMMA GotoIsSound ==
  ASSUME Made, registered' \in Nat, instances' \in Nat,
         NEW r \in I!Requests, NEW at \in Places, at # "made", I!Goto(r, at)
  PROVE  Made'
<1>1. request[r].holds \in Nat
  BY DEF Made
<1>2. [request[r] EXCEPT !.at = at] = [at |-> at, holds |-> request[r].holds]
  BY DEF Made
<1>3. request' = [request EXCEPT ![r] = [request[r] EXCEPT !.at = at]]
  BY DEF I!Goto
<1>4. request' = [request EXCEPT ![r] = [at |-> at, holds |-> request[r].holds]]
  BY <1>2, <1>3
<1> HIDE DEF Made, I!Goto
<1> QED BY <1>1, <1>4, UseIsSound

(* Every step keeps the invariant; only OpenLocked adds an opening, and    *)
(* only where the place is empty.                                          *)
LEMMA RegistryIsKept == RegistryInv /\ [I!Next]_indexesVars => RegistryInv'
<1> SUFFICES ASSUME RegistryInv, [I!Next]_indexesVars PROVE RegistryInv'
  OBVIOUS
<1> USE DEF RegistryInv
<1>0. registered \in Nat /\ instances \in Nat /\ I!None \in Nat
  BY DEF Made, I!None
<1>a. Places = {"start", "missed", "open", "using", "done", "notFound",
               "create", "conflict", "files", "made"}
  BY DEF Places
<1>1. CASE UNCHANGED indexesVars
  BY <1>1 DEF indexesVars, Opened, Made
<1>2. CASE I!Done
  BY <1>2 DEF I!Done, I!vars, Opened, Made
<1>3. ASSUME NEW r \in I!Requests,
             \/ I!Lookup(r) \/ I!CheckManifest(r) \/ I!OpenLocked(r) \/ I!Release(r)
             \/ I!CheckPath(r) \/ I!MakeDirectory(r) \/ I!WriteManifest(r) \/ I!Register(r)
      PROVE  RegistryInv'
  <2>1. CASE I!Lookup(r)
    <3>1. Opened' /\ registered' \in Nat /\ instances' \in Nat
      BY <1>0, <2>1 DEF I!Lookup, Opened
    <3>2. CASE registered # I!None
      <4>1. I!Use(r, registered)
        BY <2>1, <3>2 DEF I!Lookup
      <4> QED BY <1>a, <1>0, <3>1, <4>1, UseIsSound DEF I!Use
    <3>3. CASE registered = I!None
      <4>1. I!Goto(r, "missed")
        BY <2>1, <3>3 DEF I!Lookup
      <4> QED BY <1>a, <3>1, <4>1, GotoIsSound
    <3> QED BY <3>2, <3>3
  <2>2. CASE I!CheckManifest(r)
    <3>1. Opened' /\ registered' \in Nat /\ instances' \in Nat
      BY <1>0, <2>2 DEF I!CheckManifest, Opened
    <3>2. I!Goto(r, "open") \/ I!Goto(r, "notFound")
      BY <2>2 DEF I!CheckManifest
    <3> QED BY <1>a, <3>1, <3>2, GotoIsSound
  <2>3. CASE I!OpenLocked(r)
    <3>1. CASE registered # I!None
      <4>1. I!Use(r, registered) /\ UNCHANGED <<registered, openings, instances>>
        BY <2>3, <3>1 DEF I!OpenLocked
      <4>2. Opened'
        BY <4>1 DEF Opened
      <4> QED BY <1>a, <1>0, <4>1, <4>2, UseIsSound DEF I!Use
    <3>2. CASE registered = I!None
      <4>1. openings = {} /\ instances' \in Nat /\ instances' # I!None
        BY <1>0, <2>3, <3>2 DEF I!OpenLocked, Opened, I!None
      <4>2. openings' = {instances'} /\ registered' = instances'
        BY <2>3, <3>2, <4>1 DEF I!OpenLocked
      <4>3. Opened'
        BY <4>1, <4>2 DEF Opened
      <4>4. I!Use(r, instances')
        BY <2>3, <3>2 DEF I!OpenLocked
      <4>5. Made'
        BY <1>a, <4>1, <4>2, <4>4, UseIsSound DEF I!Use
      <4> QED BY <4>3, <4>5
    <3> QED BY <3>1, <3>2
  <2>4. CASE I!Release(r)
    <3>1. Opened' /\ registered' \in Nat /\ instances' \in Nat
      BY <1>0, <2>4 DEF I!Release, Opened
    <3>2. request' = [request EXCEPT ![r] = [at |-> "done", holds |-> I!None]]
      BY <2>4 DEF I!Release
    <3> QED BY <1>a, <1>0, <3>1, <3>2, UseIsSound
  <2>5. CASE I!CheckPath(r)
    <3>1. Opened' /\ registered' \in Nat /\ instances' \in Nat
      BY <1>0, <2>5 DEF I!CheckPath, Opened
    <3>2. I!Goto(r, "create") \/ I!Goto(r, "conflict")
      BY <2>5 DEF I!CheckPath
    <3> QED BY <1>a, <3>1, <3>2, GotoIsSound
  <2>6. CASE I!MakeDirectory(r)
    <3>1. Opened' /\ registered' \in Nat /\ instances' \in Nat
      BY <1>0, <2>6 DEF I!MakeDirectory, Opened
    <3>2. I!Goto(r, "conflict") \/ I!Goto(r, "files")
      BY <2>6 DEF I!MakeDirectory
    <3> QED BY <1>a, <3>1, <3>2, GotoIsSound
  <2>7. CASE I!WriteManifest(r)
    <3>1. instances' \in Nat /\ instances' # I!None
      BY <1>0, <2>7 DEF I!WriteManifest, I!None
    <3>2. Opened' /\ registered' \in Nat
      BY <1>0, <2>7 DEF I!WriteManifest, Opened
    <3>3. request' = [request EXCEPT ![r] = [at |-> "made", holds |-> instances']]
      BY <2>7 DEF I!WriteManifest
    <3> QED BY <1>a, <3>1, <3>2, <3>3, UseIsSound
  <2>8. CASE I!Register(r)
    <3>1. request[r].holds \in Nat /\ request[r].holds # I!None
      BY <2>8 DEF I!Register, Made
    <3>2. registered' = request[r].holds /\ UNCHANGED <<openings, instances>>
      BY <2>8 DEF I!Register
    <3>3. Opened'
      BY <3>1, <3>2 DEF Opened
    <3>4. I!Use(r, request[r].holds)
      BY <2>8 DEF I!Register
    <3>5. Made'
      BY <1>a, <1>0, <3>1, <3>2, <3>4, UseIsSound DEF I!Use
    <3> QED BY <3>3, <3>5
  <2> QED BY <1>3, <2>1, <2>2, <2>3, <2>4, <2>5, <2>6, <2>7, <2>8
<1> QED BY <1>1, <1>2, <1>3 DEF I!Next

(* The invariant speaks of sets; the property of how many there are.       *)
LEMMA OpenedMeans == RegistryInv => I!OpenedOnce
<1> SUFFICES ASSUME RegistryInv PROVE Cardinality(openings) <= 1
  BY SameCount DEF I!OpenedOnce
<1>1. CASE openings = {}
  BY <1>1, FS_EmptySet
<1>2. ASSUME NEW i \in Nat, openings = {i} PROVE Cardinality(openings) <= 1
  BY <1>2, FS_Singleton
<1> QED BY <1>1, <1>2 DEF RegistryInv, Opened


(* For any number of requests, creators among them: at most one of them    *)
(* opens the index (state.rs: index).                                      *)
THEOREM IndexIsOpenedOnce == Spec => []OpenedOnce
<1>1. Init => RegistryInv
  BY RegistryStarts DEF Init
<1>2. RegistryInv /\ [Next]_vars => RegistryInv'
  BY RegistryIsKept, IndexesStep
<1>3. RegistryInv => OpenedOnce
  BY OpenedMeans DEF OpenedOnce
<1>4. QED
  BY <1>1, <1>2, <1>3, PTL DEF Spec

-----------------------------------------------------------------------------
Entries == [at : {"none", "posted", "loop", "run", "end", "status", "over"},
            status : J!Final \cup {"running"}, reports : Nat, error : BOOLEAN,
            cancel : BOOLEAN, left : Nat, errors : Nat, succeeded : Nat]
Snapshots == [status : J!Final \cup {"running", "none"}, reports : Nat, error : BOOLEAN]
Followers == [at : {"none", "snap", "snapReports", "snapError", "check", "recv", "closed"},
              job : Jobs \cup {0}, unread : BOOLEAN, snap : Snapshots, last : BOOLEAN]

(* A job is in the registry while its task runs; its status is final when  *)
(* the task is over, and a source is reported once at most.                *)
EntryOk(j) ==
  /\ job[j].status \in J!Final <=> job[j].at = "over"
  /\ job[j].at \in {"loop", "run", "end", "status"} => j \in registry
  /\ job[j].reports + job[j].left + (IF job[j].at = "run" THEN 1 ELSE 0) <= Sources
  /\ job[j].succeeded <= job[j].reports

(* Once a stream has read a final status, what it reads next is settled.   *)
StreamOk(s) ==
  /\ stream[s].at \notin {"none", "closed"} => stream[s].job \in Jobs
  /\ stream[s].at = "recv" => stream[s].snap.status = "none"
  /\ stream[s].at \in {"snapReports", "snapError", "check", "closed"}
     /\ stream[s].snap.status \in J!Final =>
       /\ stream[s].job \in Jobs /\ job[stream[s].job].at = "over"
       /\ stream[s].at # "snapReports" => stream[s].snap.reports = job[stream[s].job].reports
       /\ stream[s].at \in {"check", "closed"} => stream[s].snap.error = job[stream[s].job].error
JobsInv ==
  /\ registry \subseteq Jobs
  /\ job \in [Jobs -> Entries] /\ stream \in [Streams -> Followers]
  /\ \A j \in Jobs : EntryOk(j)
  /\ \A s \in Streams : StreamOk(s)

LEMMA JobsStart == ASSUME J!Init PROVE JobsInv
<1> USE SourcesAssumption
<1>1. job \in [Jobs -> Entries] /\ stream \in [Streams -> Followers]
  BY DEF J!Init, Entries, Followers, Snapshots, J!NoSnapshot
<1>2. \A j \in Jobs : EntryOk(j)
  BY DEF J!Init, EntryOk, J!Final
<1>3. \A s \in Streams : StreamOk(s)
  BY DEF J!Init, StreamOk, J!NoSnapshot, J!Final
<1> QED BY <1>1, <1>2, <1>3 DEF J!Init, JobsInv

(* A step of job j: the entries that are over stay as they are.            *)
LEMMA JobStepIsKept ==
  ASSUME JobsInv, NEW j \in Jobs, NEW e \in Entries, job' = [job EXCEPT ![j] = e],
         UNCHANGED stream, registry' \subseteq Jobs,
         \A k \in registry : job[k].status = "running" => k \in registry',
         EntryOk(j)',
         job[j].at = "over" => e.at = "over" /\ e.reports = job[j].reports /\ e.error = job[j].error
  PROVE  JobsInv'
<1> USE SourcesAssumption
<1>1. job \in [Jobs -> Entries] /\ job' \in [Jobs -> Entries]
  BY DEF JobsInv
<1>2. \A k \in Jobs : k # j => job'[k] = job[k]
  BY <1>1
<1>3. job'[j] = e
  BY <1>1
<1>4. ASSUME NEW k \in Jobs PROVE EntryOk(k)'
  <2>1. CASE k = j
    BY <2>1
  <2>2. CASE k # j
    <3>1. EntryOk(k) /\ job'[k] = job[k] /\ job[k] \in Entries
      BY <2>2, <1>1, <1>2 DEF JobsInv
    <3>2. job[k].at \in {"loop", "run", "end", "status"} => k \in registry'
      BY <3>1 DEF EntryOk, Entries
    <3> QED BY <3>1, <3>2 DEF EntryOk
  <2> QED BY <2>1, <2>2
<1>5. \A k \in Jobs : job[k].at = "over" =>
        job'[k].at = "over" /\ job'[k].reports = job[k].reports /\ job'[k].error = job[k].error
  BY <1>2, <1>3
<1>6. ASSUME NEW s \in Streams PROVE StreamOk(s)'
  BY <1>5 DEF JobsInv, StreamOk
<1> QED BY <1>1, <1>4, <1>6 DEF JobsInv

(* A step of a stream.                                                     *)
LEMMA StreamStepIsKept ==
  ASSUME JobsInv, NEW s \in Streams, NEW f \in Followers, stream' = [stream EXCEPT ![s] = f],
         UNCHANGED <<registry, job>>, StreamOk(s)'
  PROVE  JobsInv'
<1>1. stream' \in [Streams -> Followers]
  BY DEF JobsInv
<1>2. \A t \in Streams : t # s => stream'[t] = stream[t]
  BY DEF JobsInv
<1>3. ASSUME NEW t \in Streams PROVE StreamOk(t)'
  BY <1>2 DEF JobsInv, StreamOk
<1>4. \A j \in Jobs : EntryOk(j)'
  BY DEF JobsInv, EntryOk
<1> QED BY <1>1, <1>3, <1>4 DEF JobsInv

LEMMA JobStepsAreKept ==
  ASSUME JobsInv, NEW j \in Jobs,
         J!Post(j) \/ J!Insert(j) \/ J!NextSource(j) \/ J!Report(j) \/ J!RunFails(j)
           \/ J!SetError(j) \/ J!SetStatus(j) \/ J!CancelJob(j)
  PROVE  JobsInv'
<1> USE SourcesAssumption
<1> DEFINE e == job'[j]
<1>0. job \in [Jobs -> Entries] /\ EntryOk(j) /\ registry \subseteq Jobs /\ job[j] \in Entries
  BY DEF JobsInv
<1> DEFINE Failed == [job EXCEPT ![j].left = @ - 1, ![j].errors = @ + 1]
           Reported(ok) == [job EXCEPT ![j].at = "loop", ![j].reports = @ + 1,
                              ![j].succeeded = IF ok THEN @ + 1 ELSE @,
                              ![j].errors = IF ok THEN @ ELSE @ + 1]
<1>a. ASSUME J!NextSource(j)
      PROVE  \/ job[j].left = 0 /\ job' = [job EXCEPT ![j].at = "end"]
             \/ job[j].left > 0 /\ job' = Failed
             \/ job[j].left > 0 /\ job' = [job EXCEPT ![j] = J!Taken(job[j])]
  BY <1>a, <1>0 DEF J!NextSource
<1>b. ASSUME J!Report(j) PROVE \E ok \in BOOLEAN : job' = Reported(ok)
  BY <1>b DEF J!Report
<1>1. e \in Entries /\ job' = [job EXCEPT ![j] = e]
  <2>1. CASE J!Post(j)
    BY <2>1, <1>0 DEF J!Post, Entries
  <2>2. CASE J!Insert(j)
    BY <2>2, <1>0 DEF J!Insert, Entries
  <2>3. CASE J!NextSource(j)
    <3>1. CASE job[j].left = 0 /\ job' = [job EXCEPT ![j].at = "end"]
      BY <3>1, <1>0 DEF Entries
    <3>2. CASE job[j].left > 0 /\ job' = Failed
      BY <3>2, <1>0 DEF Entries
    <3>3. CASE job[j].left > 0 /\ job' = [job EXCEPT ![j] = J!Taken(job[j])]
      <4>1. J!Taken(job[j]) \in Entries
        <5>1. CASE job[j].cancel = TRUE
          BY <5>1, <1>0 DEF J!Taken, Entries
        <5>2. CASE job[j].cancel = FALSE
          <6>1. job[j].left \in Nat /\ job[j].left - 1 \in Nat
            BY <3>3, <1>0 DEF Entries
          <6>2. J!Taken(job[j]) = [job[j] EXCEPT !.left = job[j].left - 1, !.at = "run"]
            BY <5>2 DEF J!Taken
          <6> QED BY <6>1, <6>2, <1>0 DEF Entries
        <5> QED BY <5>1, <5>2, <1>0 DEF Entries
      <4> QED BY <4>1, <3>3, <1>0
    <3> QED BY <2>3, <1>a, <3>1, <3>2, <3>3
  <2>4. CASE J!Report(j)
    <3>1. ASSUME NEW ok \in BOOLEAN, job' = Reported(ok)
          PROVE  e \in Entries /\ job' = [job EXCEPT ![j] = e]
      <4>1. CASE ok = TRUE
        BY <4>1, <3>1, <1>0 DEF Entries
      <4>2. CASE ok = FALSE
        BY <4>2, <3>1, <1>0 DEF Entries
      <4> QED BY <4>1, <4>2
    <3> QED BY <2>4, <1>b, <3>1
  <2>5. CASE J!RunFails(j)
    BY <2>5, <1>0 DEF J!RunFails, Entries
  <2>6. CASE J!SetError(j)
    BY <2>6, <1>0 DEF J!SetError, Entries
  <2>7. CASE J!SetStatus(j)
    BY <2>7, <1>0 DEF J!SetStatus, Entries, J!FinalStatus, J!Final
  <2>8. CASE J!CancelJob(j)
    BY <2>8, <1>0 DEF J!CancelJob, Entries
  <2> QED BY <2>1, <2>2, <2>3, <2>4, <2>5, <2>6, <2>7, <2>8
<1>2. /\ UNCHANGED stream /\ registry' \subseteq Jobs
      /\ \A k \in registry : job[k].status = "running" => k \in registry'
  <2>1. CASE J!Insert(j)
    BY <2>1, <1>0 DEF J!Insert, J!Finished, J!Final
  <2> QED BY <2>1, <1>0 DEF J!Post, J!NextSource, J!Report, J!RunFails, J!SetError, J!SetStatus, J!CancelJob
<1>3. job[j].at = "over" => e.at = "over" /\ e.reports = job[j].reports /\ e.error = job[j].error
  <2>1. ASSUME job[j].at = "over" PROVE ~(\/ J!Post(j) \/ J!Insert(j) \/ J!NextSource(j) \/ J!Report(j)
                                          \/ J!RunFails(j) \/ J!SetError(j) \/ J!SetStatus(j))
    BY <2>1 DEF J!Post, J!Insert, J!NextSource, J!Report, J!RunFails, J!SetError, J!SetStatus
  <2>2. CASE J!CancelJob(j)
    BY <2>2, <1>0 DEF J!CancelJob, Entries
  <2> QED BY <2>1, <2>2
<1>4. EntryOk(j)'
  <2>1. CASE J!Post(j)
    BY <2>1, <1>0 DEF J!Post, Entries, EntryOk, J!Final
  <2>2. CASE J!Insert(j)
    <3>1. j \in registry'
      BY <2>2, <1>0 DEF J!Insert, J!Finished, EntryOk
    <3> QED BY <2>2, <3>1, <1>0 DEF J!Insert, Entries, EntryOk, J!Final
  <2>3. CASE J!NextSource(j)
    <3>1. job[j].at = "loop" /\ registry' = registry
      BY <2>3 DEF J!NextSource
    <3>2. CASE job[j].left = 0 /\ job' = [job EXCEPT ![j].at = "end"]
      BY <3>1, <3>2, <1>0 DEF Entries, EntryOk, J!Final
    <3>3. CASE job[j].left > 0 /\ job' = Failed
      BY <3>1, <3>3, <1>0 DEF Entries, EntryOk, J!Final
    <3>4. CASE job[j].left > 0 /\ job' = [job EXCEPT ![j] = J!Taken(job[j])]
      BY <3>1, <3>4, <1>0 DEF J!Taken, Entries, EntryOk, J!Final
    <3> QED BY <2>3, <1>a, <3>2, <3>3, <3>4
  <2>4. CASE J!Report(j)
    <3>1. job[j].at = "run" /\ registry' = registry
      BY <2>4 DEF J!Report
    <3>2. ASSUME NEW ok \in BOOLEAN, job' = Reported(ok) PROVE EntryOk(j)'
      <4>1. CASE ok = TRUE
        BY <4>1, <3>1, <3>2, <1>0 DEF Entries, EntryOk, J!Final
      <4>2. CASE ok = FALSE
        BY <4>2, <3>1, <3>2, <1>0 DEF Entries, EntryOk, J!Final
      <4> QED BY <4>1, <4>2
    <3> QED BY <2>4, <1>b, <3>2
  <2>5. CASE J!RunFails(j)
    BY <2>5, <1>0 DEF J!RunFails, Entries, EntryOk, J!Final
  <2>6. CASE J!SetError(j)
    BY <2>6, <1>0 DEF J!SetError, Entries, EntryOk, J!Final
  <2>7. CASE J!SetStatus(j)
    BY <2>7, <1>0 DEF J!SetStatus, Entries, EntryOk, J!FinalStatus, J!Final
  <2>8. CASE J!CancelJob(j)
    BY <2>8, <1>0 DEF J!CancelJob, Entries, EntryOk, J!Final
  <2> QED BY <2>1, <2>2, <2>3, <2>4, <2>5, <2>6, <2>7, <2>8
<1> QED BY <1>1, <1>2, <1>3, <1>4, JobStepIsKept

LEMMA StreamStepsAreKept ==
  ASSUME JobsInv, NEW s \in Streams,
         J!Subscribe(s) \/ J!Follow(s) \/ J!Hangup(s)
  PROVE  JobsInv'
<1> USE SourcesAssumption
<1> DEFINE f == stream'[s]
<1>0. /\ stream \in [Streams -> Followers] /\ StreamOk(s) /\ stream[s] \in Followers
      /\ job \in [Jobs -> Entries] /\ registry \subseteq Jobs /\ \A j \in Jobs : EntryOk(j)
  BY DEF JobsInv
<1>1. f \in Followers /\ stream' = [stream EXCEPT ![s] = f] /\ StreamOk(s)'
  <2>1. CASE J!Subscribe(s)
    <3>1. PICK j \in registry : stream' = [stream EXCEPT ![s].job = j, ![s].at = "snap"]
      BY <2>1 DEF J!Subscribe
    <3>2. j \in Jobs
      BY <1>0
    <3>3. f = [stream[s] EXCEPT !.job = j, !.at = "snap"]
      BY <3>1, <1>0
    <3>4. f \in Followers /\ f.at = "snap" /\ f.job = j
      BY <3>2, <3>3, <1>0 DEF Followers
    <3>5. stream' = [stream EXCEPT ![s] = f]
      BY <3>1, <3>3, <1>0
    <3> QED BY <3>2, <3>4, <3>5 DEF StreamOk
  <2>2. CASE J!SnapStatus(s)
    BY <2>2, <1>0, ZenonT(40) DEF J!SnapStatus, Followers, Snapshots, Entries, StreamOk, EntryOk, J!Frame
  <2>3. CASE J!SnapReports(s)
    BY <2>3, <1>0, ZenonT(40) DEF J!SnapReports, Followers, Snapshots, Entries, StreamOk, J!Frame
  <2>4. CASE J!SnapError(s)
    BY <2>4, <1>0, ZenonT(40) DEF J!SnapError, Followers, Snapshots, Entries, StreamOk, J!Frame
  <2>5. CASE J!Check(s)
    BY <2>5, <1>0, ZenonT(40) DEF J!Check, Followers, Snapshots, J!NoSnapshot, J!Final, StreamOk, J!Frame
  <2>6. CASE J!Receive(s)
    <3>1. PICK more \in BOOLEAN : stream' = [stream EXCEPT ![s].at = "check", ![s].unread = more]
      BY <2>6 DEF J!Receive
    <3>2. stream[s].at = "recv"
      BY <2>6 DEF J!Receive
    <3> QED BY <3>1, <3>2, <1>0 DEF Followers, J!Final, StreamOk
  <2>7. CASE J!Quiet(s)
    BY <2>7, <1>0 DEF J!Quiet, J!Move, Followers, J!Final, StreamOk, J!Frame
  <2>8. CASE J!Hangup(s)
    BY <2>8, <1>0 DEF J!Hangup, Followers, Snapshots, J!NoSnapshot, J!Final, StreamOk, J!Frame
  <2> QED BY <2>1, <2>2, <2>3, <2>4, <2>5, <2>6, <2>7, <2>8 DEF J!Follow
<1>2. UNCHANGED <<registry, job>>
  BY DEF J!Subscribe, J!Follow, J!SnapStatus, J!SnapReports, J!SnapError, J!Check, J!Receive, J!Quiet, J!Hangup, J!Frame
<1> QED BY <1>1, <1>2, StreamStepIsKept

LEMMA EventIsKept == ASSUME JobsInv, NEW j \in Jobs, J!EmitEvent(j) PROVE JobsInv'
<1>1. stream \in [Streams -> Followers]
  BY DEF JobsInv
<1>2. /\ UNCHANGED <<registry, job>>
      /\ stream' = [s \in Streams |-> [stream[s] EXCEPT !.unread = @ \/ stream[s].job = j]]
  BY DEF J!EmitEvent
<1>3. ASSUME NEW s \in Streams
      PROVE  stream'[s] \in Followers /\ StreamOk(s)'
  <2>1. PICK b \in BOOLEAN : stream'[s] = [stream[s] EXCEPT !.unread = b]
    <3>1. (stream[s].unread \/ stream[s].job = j) \in BOOLEAN
      OBVIOUS
    <3> QED BY <1>2, <3>1
  <2>2. stream[s] \in Followers /\ StreamOk(s)
    BY <1>1 DEF JobsInv
  <2>3. stream'[s] \in Followers
    BY <2>1, <2>2 DEF Followers
  <2>4. /\ stream'[s].at = stream[s].at /\ stream'[s].job = stream[s].job
        /\ stream'[s].snap = stream[s].snap
    BY <2>1, <2>2 DEF Followers
  <2> QED BY <1>2, <2>2, <2>3, <2>4 DEF StreamOk
<1>4. stream' \in [Streams -> Followers]
  BY <1>2, <1>3
<1>5. \A k \in Jobs : EntryOk(k)'
  BY <1>2 DEF JobsInv, EntryOk
<1> QED BY <1>2, <1>3, <1>4, <1>5 DEF JobsInv

LEMMA JobsAreKept == ASSUME JobsInv, [J!Next]_jobsVars PROVE JobsInv'
<1> USE SourcesAssumption
<1>1. CASE UNCHANGED jobsVars
  BY <1>1 DEF jobsVars, JobsInv, EntryOk, StreamOk
<1>2. ASSUME NEW j \in Jobs, J!Post(j) \/ J!Task(j) \/ J!CancelJob(j) PROVE JobsInv'
  BY <1>2, JobStepsAreKept, EventIsKept DEF J!Task
<1>3. ASSUME NEW s \in Streams, J!Subscribe(s) \/ J!Follow(s) \/ J!Hangup(s) PROVE JobsInv'
  BY <1>3, StreamStepsAreKept
<1> QED BY <1>1, <1>2, <1>3 DEF J!Next

LEMMA SnapshotsMean ==
  ASSUME JobsInv PROVE J!TypeOK /\ J!LastSnapshotIsWhole /\ J!RunningIsListed
<1> USE SourcesAssumption
<1>1. J!TypeOK
  BY DEF JobsInv, EntryOk, Entries, J!TypeOK
<1>2. J!LastSnapshotIsWhole
  BY DEF JobsInv, StreamOk, J!LastSnapshotIsWhole
<1>3. J!RunningIsListed
  BY DEF JobsInv, EntryOk, J!RunningIsListed
<1> QED BY <1>1, <1>2, <1>3


(* For every number of jobs, streams, sources and kept jobs, though status,*)
(* reports and error are locked one at a time: a snapshot with a final     *)
(* status is the whole job, and a job that is not over is in the registry  *)
(* (JobEntry::to_json, JobRegistry::insert).                               *)
THEOREM SnapshotsAreWhole == Spec => []LastSnapshotIsWhole
<1>1. Init => JobsInv
  BY JobsStart DEF Init
<1>2. JobsInv /\ [Next]_vars => JobsInv'
  BY JobsAreKept, JobsStep
<1>3. JobsInv => LastSnapshotIsWhole
  BY SnapshotsMean DEF LastSnapshotIsWhole
<1>4. QED
  BY <1>1, <1>2, <1>3, PTL DEF Spec

-----------------------------------------------------------------------------
(* The daily spend.  What is owed is finite, and a key at its cap lets     *)
(* nothing in that would add to it.                                        *)
QuotaInv ==
  /\ asked \in [Q!Requests -> {"none", "refused", "working", "over"}]
  /\ left \in [Q!Requests -> Nat]
  /\ charged \in Nat
  /\ IsFiniteSet(Q!Owed)

LEMMA QuotaStarts == Q!Init => QuotaInv
<1> SUFFICES ASSUME Q!Init PROVE QuotaInv
  OBVIOUS
<1>1. Q!Owed = {}
  BY DEF Q!Init, Q!Owed
<1>2. QED
  BY <1>1, FS_EmptySet, QuotaAssumption DEF Q!Init, QuotaInv, Q!Requests

(* A request that comes in owes all its videos. *)
LEMMA AdmittingOwes ==
  ASSUME QuotaInv, NEW r \in Q!Requests, Q!Admit(r)
  PROVE  /\ QuotaInv'
         /\ Cap > 0 /\ charged >= Cap => Q!Owed' = Q!Owed
<1>1. /\ asked[r] = "none" /\ left' = left /\ charged' = charged
      /\ asked' = [asked EXCEPT ![r] = IF Q!UnderCap THEN "working" ELSE "refused"]
  BY DEF Q!Admit
<1>2. CASE ~Q!UnderCap
  <2>1. {q \in Q!Requests : asked'[q] = "working"} = {q \in Q!Requests : asked[q] = "working"}
    BY <1>1, <1>2 DEF QuotaInv
  <2>2. Q!Owed' = Q!Owed
    BY <1>1, <2>1 DEF Q!Owed, Q!Requests
  <2>3. QED
    BY <1>1, <1>2, <2>2 DEF QuotaInv, Q!Requests
<1>3. CASE Q!UnderCap
  <2>1. {q \in Q!Requests : asked'[q] = "working"}
          = {q \in Q!Requests : asked[q] = "working"} \cup {r}
    BY <1>1, <1>3 DEF QuotaInv
  <2>2. Q!Owed' = Q!Owed \cup ({r} \X (1..left[r]))
    BY <1>1, <2>1 DEF Q!Owed, Q!Requests
  <2>3. IsFiniteSet({r}) /\ IsFiniteSet(1..left[r])
    <3>1. 1 \in Int /\ left[r] \in Int
      BY DEF QuotaInv
    <3>2. QED
      BY <3>1, FS_Singleton, FS_Interval
  <2>4. IsFiniteSet({r} \X (1..left[r]))
    BY <2>3, FS_Product
  <2>5. IsFiniteSet(Q!Owed')
    BY <2>2, <2>4, FS_Union DEF QuotaInv
  <2>6. ~(Cap > 0 /\ charged >= Cap)
    BY <1>3, QuotaAssumption DEF Q!UnderCap, QuotaInv
  <2>7. QED
    BY <1>1, <2>5, <2>6 DEF QuotaInv, Q!Requests
<1>4. QED
  BY <1>2, <1>3

(* A video that is done, charged or not, is owed no longer. *)
LEMMA DoneOwesLess ==
  ASSUME QuotaInv, NEW r \in Q!Requests, asked[r] = "working", left[r] > 0,
         left' = [left EXCEPT ![r] = @ - 1], asked' = asked
  PROVE  /\ left' \in [Q!Requests -> Nat]
         /\ IsFiniteSet(Q!Owed') /\ Cardinality(Q!Owed) \in Nat /\ Cardinality(Q!Owed') \in Nat
         /\ Cardinality(Q!Owed') = Cardinality(Q!Owed) - 1
<1>1. left \in [Q!Requests -> Nat] /\ left[r] \in Nat /\ left[r] - 1 \in Nat /\ IsFiniteSet(Q!Owed)
  BY DEF QuotaInv
<1>2. <<r, left[r]>> \in Q!Owed
  BY <1>1 DEF Q!Owed
<1>3. Q!Owed' = Q!Owed \ {<<r, left[r]>>}
  <2> DEFINE W == {q \in Q!Requests : asked[q] = "working"}
  <2>1. Q!Owed = UNION {{q} \X (1..left[q]) : q \in W}
    BY DEF Q!Owed
  <2>2. Q!Owed' = UNION {{q} \X (1..left'[q]) : q \in W}
    BY DEF Q!Owed, Q!Requests
  <2>3. \A q \in W : q # r => left'[q] = left[q]
    BY <1>1
  <2>4. left'[r] = left[r] - 1
    BY <1>1
  <2>5. 1..left'[r] = (1..left[r]) \ {left[r]}
    BY <1>1, <2>4
  <2>6. ASSUME NEW q \in W
        PROVE  {q} \X (1..left'[q]) = ({q} \X (1..left[q])) \ {<<r, left[r]>>}
    BY <2>3, <2>5, <2>6
  <2> HIDE DEF W
  <2>7. QED
    BY <2>1, <2>2, <2>6
<1>4. IsFiniteSet(Q!Owed') /\ Cardinality(Q!Owed') = Cardinality(Q!Owed) - 1
  BY <1>1, <1>2, <1>3, FS_RemoveElement
<1>5. Cardinality(Q!Owed) \in Nat /\ Cardinality(Q!Owed') \in Nat
  BY <1>1, <1>4, FS_CardinalityType
<1>6. QED
  BY <1>1, <1>4, <1>5

Shrinks ==
  Cap > 0 /\ charged >= Cap => charged' + Q!Outstanding' <= charged + Q!Outstanding

(* Every step keeps the invariant, and past the cap only shrinks.          *)
LEMMA QuotaStep == QuotaInv /\ [Q!Next]_quotaVars => QuotaInv' /\ (Shrinks \/ UNCHANGED quotaVars)
<1> SUFFICES ASSUME QuotaInv, [Q!Next]_quotaVars PROVE QuotaInv' /\ (Shrinks \/ UNCHANGED quotaVars)
  OBVIOUS
<1>1. /\ Q!Outstanding = Cost * Cardinality(Q!Owed)
      /\ Q!Outstanding' = Cost * Cardinality(Q!Owed')
  BY SameCount DEF Q!Outstanding
<1>2. Cardinality(Q!Owed) \in Nat /\ charged \in Nat
  BY FS_CardinalityType DEF QuotaInv
<1>3. Cost * Cardinality(Q!Owed) \in Nat
  BY <1>2, QuotaAssumption
<1>4. CASE UNCHANGED quotaVars
  BY <1>4 DEF quotaVars, QuotaInv, Q!Owed, Q!Requests
<1>5. CASE Q!NewDay
  <2>1. charged' = 0 /\ asked' = asked /\ left' = left
    BY <1>5 DEF Q!NewDay
  <2>2. Q!Owed' = Q!Owed
    BY <2>1 DEF Q!Owed, Q!Requests
  <2>3. Shrinks
    BY <1>1, <1>2, <1>3, <2>1, <2>2 DEF Shrinks
  <2>4. QED
    BY <2>1, <2>2, <2>3 DEF QuotaInv, Q!Requests
<1>6. ASSUME NEW r \in Q!Requests, Q!Admit(r) PROVE QuotaInv' /\ Shrinks
  <2>1. charged' = charged
    BY <1>6 DEF Q!Admit
  <2>2. QED
    BY <1>1, <1>2, <1>3, <1>6, <2>1, AdmittingOwes DEF Shrinks
<1>7. ASSUME NEW r \in Q!Requests, asked[r] = "working", left[r] > 0,
             left' = [left EXCEPT ![r] = @ - 1], asked' = asked,
             NEW usd \in 0..Cost, charged' = charged + usd
      PROVE  QuotaInv' /\ Shrinks
  <2>1. /\ left' \in [Q!Requests -> Nat]
        /\ IsFiniteSet(Q!Owed') /\ Cardinality(Q!Owed') \in Nat
        /\ Cardinality(Q!Owed') = Cardinality(Q!Owed) - 1
    BY <1>7, DoneOwesLess
  <2>2. charged' \in Nat /\ usd <= Cost /\ usd \in Nat
    BY <1>2, <1>7, QuotaAssumption
  <2>3. Cost * (Cardinality(Q!Owed) - 1) = Cost * Cardinality(Q!Owed) - Cost
    BY <1>2, QuotaAssumption
  <2>4. Shrinks
    BY <1>1, <1>2, <1>3, <1>7, <2>1, <2>2, <2>3, QuotaAssumption DEF Shrinks
  <2>5. QED
    BY <1>7, <2>1, <2>2, <2>4 DEF QuotaInv, Q!Requests
<1>8. ASSUME NEW r \in Q!Requests, Q!Charge(r) PROVE QuotaInv' /\ Shrinks
  BY <1>7, <1>8 DEF Q!Charge
<1>9. ASSUME NEW r \in Q!Requests, Q!Uncharged(r) PROVE QuotaInv' /\ Shrinks
  <2>1. 0 \in 0..Cost /\ charged' = charged + 0
    BY <1>2, <1>9, QuotaAssumption DEF Q!Uncharged
  <2>2. QED
    BY <1>7, <1>9, <2>1 DEF Q!Uncharged
<1>10. ASSUME NEW r \in Q!Requests, Q!End(r) PROVE QuotaInv' /\ Shrinks
  <2>1. charged' = charged /\ left' = left /\ asked' = [asked EXCEPT ![r] = "over"]
    BY <1>10 DEF Q!End
  <2>2. \A q \in Q!Requests : asked'[q] = "working" => asked[q] = "working"
    BY <2>1 DEF QuotaInv
  <2>3. Q!Owed' \in SUBSET Q!Owed
    BY <2>1, <2>2 DEF Q!Owed, Q!Requests
  <2>4. IsFiniteSet(Q!Owed') /\ Cardinality(Q!Owed') <= Cardinality(Q!Owed)
    BY <2>3, FS_Subset DEF QuotaInv
  <2>5. Cardinality(Q!Owed') \in Nat
    BY <2>4, FS_CardinalityType
  <2>6. Cost * Cardinality(Q!Owed') <= Cost * Cardinality(Q!Owed)
    BY <1>2, <2>4, <2>5, QuotaAssumption
  <2>7. Cost * Cardinality(Q!Owed') \in Nat
    BY <2>5, QuotaAssumption
  <2>8. Shrinks
    BY <1>1, <1>2, <1>3, <2>1, <2>6, <2>7 DEF Shrinks
  <2>9. QED
    BY <2>1, <2>4, <2>8 DEF QuotaInv, Q!Requests
<1>11. QED
  BY <1>4, <1>5, <1>6, <1>8, <1>9, <1>10 DEF Q!Next

LEMMA QuotaSteps1 == [Next]_vars => [Q!Next]_quotaVars
BY DEF Next, CallsSteps, ChatSteps, SseSteps, IndexesSteps, JobsSteps, QuotaSteps,
       BudgetSteps, DownloadSteps, ShotsSteps, vars, quotaVars

-----------------------------------------------------------------------------
(* Budgets.  The pruned lists are the ends of the whole ones, and what was *)
(* pruned is before the window, so that the sums and the oldest head are   *)
(* those of the whole history.                                             *)

(* Every set of naturals has a least element. *)
LEMMA LeastNat ==
  ASSUME NEW T \in SUBSET Nat, T # {}
  PROVE  \E n \in T : \A m \in T : n <= m
<1>1. PICK R : IsWellFoundedOn(R, Nat) /\ \A x, y \in Nat : <<x, y>> \in R <=> x < y
  <2>1. \A x, y \in Nat : <<x, y>> \in OpToRel(<, Nat) <=> x < y
    BY DEF OpToRel
  <2>2. QED
    BY <2>1, NatLessThanWellFounded
<1>2. IsWellFoundedOn(R, Nat)
  BY <1>1
<1>3. PICK n \in T : \A m \in T : ~(<<m, n>> \in R)
  BY <1>2, WFMin
<1>4. \A m \in T : m \in Nat /\ n \in Nat /\ ~(m < n)
  BY <1>1, <1>3
<1>5. QED
  BY <1>4

(* The running sums of any amounts. *)
LEMMA SumsExist ==
  ASSUME NEW n \in Nat, NEW g \in [1..n -> Nat]
  PROVE  \E f \in [0..n -> Nat] :
           f = [k \in 0..n |-> IF k = 0 THEN 0 ELSE f[k - 1] + g[k]]
<1> DEFINE Sums(m, f) == f \in [0..m -> Nat]
                         /\ f = [k \in 0..m |-> IF k = 0 THEN 0 ELSE f[k - 1] + g[k]]
           T == {m \in 0..n : ~\E f : Sums(m, f)}
<1>1. T = {}
  <2> SUFFICES ASSUME T # {} PROVE FALSE
    OBVIOUS
  <2>1. T \in SUBSET Nat
    OBVIOUS
  <2>2. PICK m \in T : \A k \in T : m <= k
    BY <2>1, LeastNat
  <2>3. m # 0
    <3>1. Sums(0, [k \in 0..0 |-> 0])
      OBVIOUS
    <3>2. QED
      BY <3>1
  <2>4. m - 1 \in 0..n /\ ~(m <= m - 1) /\ m \in 1..n /\ m \in Nat
    BY <2>3
  <2>5. PICK f : Sums(m - 1, f)
    BY <2>2, <2>4
  <2> DEFINE h == [k \in 0..m |-> IF k = m THEN f[m - 1] + g[m] ELSE f[k]]
  <2>6. h \in [0..m -> Nat]
    BY <2>4, <2>5
  <2>7. ASSUME NEW k \in 0..m PROVE h[k] = IF k = 0 THEN 0 ELSE h[k - 1] + g[k]
    BY <2>4, <2>5
  <2>8. Sums(m, h)
    BY <2>6, <2>7
  <2>9. QED
    BY <2>2, <2>8
<1>2. n \in 0..n
  OBVIOUS
<1>3. QED
  BY <1>1, <1>2

Entries2 == Seq(Nat \X Nat)

(* What a list spends in the window is the last of its running sums.       *)
LEMMA SpentIsASum ==
  ASSUME NEW s \in Entries2, head \in Int
  PROVE  \E f \in [0..Len(s) -> Nat] :
           /\ f[0] = 0
           /\ \A k \in 1..Len(s) :
                f[k] = f[k - 1] + (IF s[k][1] > head - Window THEN s[k][2] ELSE 0)
           /\ B!SpentInWindow(s) = f[Len(s)]
<1> DEFINE n == Len(s)
           g == [k \in 1..n |-> IF s[k][1] > head - Window THEN s[k][2] ELSE 0]
           E1(f) == [k \in 0..Len(s) |-> IF k = 0 THEN 0
                      ELSE f[k - 1] + (IF B!InWindow(s[k]) THEN s[k][2] ELSE 0)]
<1>1. n \in Nat /\ \A k \in 1..n : s[k] \in Nat \X Nat
  BY DEF Entries2
<1>2. g \in [1..n -> Nat]
  BY <1>1
<1> HIDE DEF g, n
<1>3. PICK f \in [0..n -> Nat] : f = [k \in 0..n |-> IF k = 0 THEN 0 ELSE f[k - 1] + g[k]]
  BY <1>1, <1>2, SumsExist
<1>4. ASSUME NEW k \in 1..n
      PROVE  g[k] = (IF s[k][1] > head - Window THEN s[k][2] ELSE 0)
             /\ (B!InWindow(s[k]) <=> s[k][1] > head - Window)
  BY DEF g, B!InWindow
<1>5. f = E1(f)
  <2>1. f = [k \in 0..n |-> IF k = 0 THEN 0
                      ELSE f[k - 1] + (IF B!InWindow(s[k]) THEN s[k][2] ELSE 0)]
    BY <1>1, <1>3, <1>4
  <2>2. QED
    BY <2>1 DEF n
<1>6. PICK c : c = (CHOOSE x : x = E1(x)) /\ c = E1(c)
  BY <1>5
<1>7. B!SpentInWindow(s) = c[n]
  BY <1>6 DEF B!SpentInWindow, n
<1>8. c[0] = 0 /\ \A k \in 1..n : c[k] = c[k - 1] + g[k]
  <2>1. \A k \in 0..n : E1(c)[k] = IF k = 0 THEN 0
                      ELSE c[k - 1] + (IF B!InWindow(s[k]) THEN s[k][2] ELSE 0)
    BY DEF n
  <2>2. \A k \in 0..n : c[k] = IF k = 0 THEN 0
                      ELSE c[k - 1] + (IF B!InWindow(s[k]) THEN s[k][2] ELSE 0)
    BY <1>6, <2>1
  <2>3. 0 \in 0..n /\ \A k \in 1..n : k \in 0..n /\ k # 0
    BY <1>1
  <2>4. QED
    BY <1>4, <2>2, <2>3
<1>9. c \in [0..n -> Nat]
  <2> DEFINE T == {k \in 0..n : c[k] \notin Nat}
  <2>1. T = {}
    <3> SUFFICES ASSUME T # {} PROVE FALSE
      OBVIOUS
    <3>1. T \in SUBSET Nat
      BY <1>1
    <3>2. PICK m \in T : \A k \in T : m <= k
      BY <3>1, LeastNat
    <3>3. m # 0 /\ m \in Nat
      BY <1>8, <3>1, <3>2
    <3>4. m - 1 \in 0..n /\ ~(m <= m - 1) /\ m \in 1..n
      BY <1>1, <3>2, <3>3
    <3>5. c[m - 1] \in Nat
      BY <3>2, <3>4
    <3>6. c[m] = c[m - 1] + g[m] /\ g[m] \in Nat
      BY <1>2, <1>8, <3>4
    <3>7. c[m] \in Nat
      BY <3>5, <3>6
    <3>8. QED
      BY <3>2, <3>7
  <2>2. c = [k \in 0..n |-> c[k]]
    BY <1>6 DEF n
  <2>3. QED
    BY <2>1, <2>2
<1>10. QED
  BY <1>4, <1>7, <1>8, <1>9 DEF n

(* A list spends what its end spends, if what goes before is too old.      *)
LEMMA OldEntriesDoNotCount ==
  ASSUME NEW a \in Entries2, NEW c \in Entries2, head \in Int, NEW n \in 0..Len(a),
         Len(c) = Len(a) - n, \A k \in 1..Len(c) : c[k] = a[n + k],
         \A m \in 1..n : a[m][1] <= head - Window
  PROVE  B!SpentInWindow(c) = B!SpentInWindow(a)
<1>1. Len(a) \in Nat /\ Len(c) \in Nat /\ n \in Nat
  BY DEF Entries2
<1>2. PICK fa \in [0..Len(a) -> Nat] :
        /\ fa[0] = 0
        /\ \A k \in 1..Len(a) :
             fa[k] = fa[k - 1] + (IF a[k][1] > head - Window THEN a[k][2] ELSE 0)
        /\ B!SpentInWindow(a) = fa[Len(a)]
  BY SpentIsASum
<1>3. PICK fc \in [0..Len(c) -> Nat] :
        /\ fc[0] = 0
        /\ \A k \in 1..Len(c) :
             fc[k] = fc[k - 1] + (IF c[k][1] > head - Window THEN c[k][2] ELSE 0)
        /\ B!SpentInWindow(c) = fc[Len(c)]
  BY SpentIsASum
<1>a. \A k \in 1..Len(a) : a[k][1] \in Nat
  BY DEF Entries2
<1>4. \A k \in 0..n : fa[k] = 0
  <2> DEFINE T == {k \in 0..n : fa[k] # 0}
  <2>1. T = {}
    <3> SUFFICES ASSUME T # {} PROVE FALSE
      OBVIOUS
    <3>1. T \in SUBSET Nat
      BY <1>1
    <3>2. PICK m \in T : \A k \in T : m <= k
      BY <3>1, LeastNat
    <3>3. m # 0 /\ m \in Nat
      BY <1>2, <3>1, <3>2
    <3>4. m - 1 \in 0..n /\ ~(m <= m - 1) /\ m \in 1..n /\ m \in 1..Len(a)
      BY <1>1, <3>2, <3>3
    <3>5. fa[m - 1] = 0
      BY <3>2, <3>4
    <3>6. ~(a[m][1] > head - Window)
      BY <1>a, <3>4, WindowAssumption
    <3>7. fa[m] = 0
      BY <1>2, <3>4, <3>5, <3>6
    <3>8. QED
      BY <3>2, <3>7
  <2>2. QED
    BY <2>1
<1>5. \A k \in 0..Len(c) : fa[n + k] = fc[k]
  <2> DEFINE T == {k \in 0..Len(c) : fa[n + k] # fc[k]}
  <2>1. T = {}
    <3> SUFFICES ASSUME T # {} PROVE FALSE
      OBVIOUS
    <3>1. T \in SUBSET Nat
      BY <1>1
    <3>2. PICK m \in T : \A k \in T : m <= k
      BY <3>1, LeastNat
    <3>3. m # 0
      <4>1. n + 0 = n /\ n \in 0..n
        BY <1>1
      <4>2. QED
        BY <1>3, <1>4, <3>2, <4>1
    <3>4. m \in Nat /\ m - 1 \in 0..Len(c) /\ ~(m <= m - 1) /\ m \in 1..Len(c)
      BY <1>1, <3>1, <3>2, <3>3
    <3>5. n + m \in 1..Len(a) /\ (n + m) - 1 = n + (m - 1)
      BY <1>1, <3>4
    <3>6. fa[n + (m - 1)] = fc[m - 1]
      BY <3>2, <3>4
    <3>7. c[m] = a[n + m]
      BY <3>4
    <3>8. fa[n + m] = fc[m]
      BY <1>2, <1>3, <3>4, <3>5, <3>6, <3>7
    <3>9. QED
      BY <3>2, <3>8
  <2>2. QED
    BY <2>1
<1>6. Len(c) \in 0..Len(c) /\ n + Len(c) = Len(a)
  BY <1>1
<1>7. QED
  BY <1>2, <1>3, <1>5, <1>6

-----------------------------------------------------------------------------
(* c is the end of a after its first n entries. *)
IsEnd(c, a, n) ==
  /\ n \in 0..Len(a) /\ Len(c) = Len(a) - n
  /\ \A k \in 1..Len(c) : c[k] = a[n + k]

(* What was pruned of the costs is before the window; of the heads, all    *)
(* but the last one before the window.                                     *)
CostsPruned(c, a, now) ==
  \E n \in 0..Len(a) : IsEnd(c, a, n) /\ \A m \in 1..n : a[m][1] <= now - Window

HeadsPruned(c, a, now) ==
  IF a = <<>> THEN c = <<>>
  ELSE \E n \in 1..Len(a) :
         /\ IsEnd(c, a, n - 1)
         /\ n = 1 \/ a[n][1] <= now - Window
         /\ \A m \in 1..Len(a) : m > n => a[m][1] > now - Window

HeadsInOrder(a, now) ==
  /\ \A k, m \in 1..Len(a) : k <= m => a[k][1] <= a[m][1]
  /\ \A k \in 1..Len(a) : a[k][1] <= now

BudgetTyped ==
  /\ mode \in {"batch", "live"} /\ head \in Nat /\ wall \in Nat
  /\ costs \in Entries2 /\ allCosts \in Entries2
  /\ heads \in Entries2 /\ allHeads \in Entries2

BudgetInv ==
  /\ BudgetTyped
  /\ mode = "live" => /\ CostsPruned(costs, allCosts, head)
                      /\ HeadsPruned(heads, allHeads, head)
                      /\ HeadsInOrder(allHeads, head)

(* The pruned lists decide like the whole ones. *)
LEMMA WindowMeans == BudgetInv => WindowIsExact
<1> SUFFICES ASSUME BudgetInv, mode = "live" PROVE B!Allowed <=> ~B!ReallyOver
  BY DEF WindowIsExact, B!WindowIsExact
<1>1. /\ BudgetTyped /\ head \in Int
      /\ CostsPruned(costs, allCosts, head) /\ HeadsPruned(heads, allHeads, head)
  BY DEF BudgetInv, BudgetTyped
<1>2. B!SpentInWindow(costs) = B!SpentInWindow(allCosts)
  BY <1>1, OldEntriesDoNotCount DEF CostsPruned, IsEnd, BudgetTyped
<1>3. B!CostOver(costs) <=> B!CostOver(allCosts)
  BY <1>2 DEF B!CostOver
<1>4. CASE allHeads = <<>>
  BY <1>1, <1>3, <1>4 DEF B!Allowed, B!ReallyOver, B!RollingOver, HeadsPruned
<1>5. CASE allHeads # <<>>
  <2>1. PICK n \in 1..Len(allHeads) :
          /\ IsEnd(heads, allHeads, n - 1)
          /\ n = 1 \/ allHeads[n][1] <= head - Window
          /\ \A m \in 1..Len(allHeads) : m > n => allHeads[m][1] > head - Window
    BY <1>1, <1>5 DEF HeadsPruned
  <2>2. /\ Len(allHeads) \in Nat /\ n \in Nat /\ heads # <<>> /\ heads[1] = allHeads[n]
        /\ \A m \in 1..Len(allHeads) : allHeads[m][1] \in Nat
    <3>1. Len(allHeads) \in Nat /\ \A m \in 1..Len(allHeads) : allHeads[m][1] \in Nat
      BY <1>1 DEF BudgetTyped, Entries2
    <3>2. n \in Nat /\ 1 <= n /\ n <= Len(allHeads)
      BY <2>1, <3>1
    <3>3. Len(heads) = Len(allHeads) - (n - 1) /\ \A k \in 1..Len(heads) : heads[k] = allHeads[(n - 1) + k]
      BY <2>1 DEF IsEnd
    <3>4. 1 \in 1..Len(heads) /\ (n - 1) + 1 = n
      BY <3>1, <3>2, <3>3
    <3>5. heads # <<>>
      BY <3>4
    <3>6. heads[1] = allHeads[n]
      BY <3>3, <3>4
    <3>7. QED
      BY <3>1, <3>2, <3>5, <3>6
  <2> DEFINE before == {k \in DOMAIN allHeads : allHeads[k][1] <= head - Window}
  <2>3. DOMAIN allHeads = 1..Len(allHeads)
    BY <1>1 DEF BudgetTyped, Entries2
  <2>4. \A m \in before : m <= n
    BY <1>1, <2>1, <2>2, <2>3, WindowAssumption
  <2>5. B!ReallySince = allHeads[n]
    <3>1. CASE before = {}
      <4>1. n = 1
        BY <2>1, <2>3, <3>1
      <4>2. QED
        BY <3>1, <4>1 DEF B!ReallySince
    <3>2. CASE before # {}
      <4>1. n \in before
        <5>1. CASE n = 1
          <6>1. PICK k \in before : TRUE
            BY <3>2
          <6>2. k <= 1 /\ k \in 1..Len(allHeads)
            BY <2>3, <2>4, <5>1, <6>1
          <6>3. k = n
            BY <2>2, <5>1, <6>2
          <6>4. QED
            BY <6>1, <6>3
        <5>2. CASE n # 1
          BY <2>1, <2>3, <5>2
        <5>3. QED
          BY <5>1, <5>2
      <4>2. \A k \in before : (\A m \in before : m <= k) => k = n
        <5> SUFFICES ASSUME NEW k \in before, \A m \in before : m <= k PROVE k = n
          OBVIOUS
        <5>1. n <= k /\ k <= n /\ k \in Nat
          BY <2>2, <2>3, <2>4, <4>1
        <5>2. QED
          BY <2>2, <5>1
      <4>3. (CHOOSE k \in before : \A m \in before : m <= k) = n
        BY <2>4, <4>1, <4>2
      <4>4. QED
        BY <3>2, <4>3 DEF B!ReallySince
    <3>3. QED
      BY <3>1, <3>2
  <2>6. QED
    BY <1>3, <1>5, <2>2, <2>5 DEF B!Allowed, B!ReallyOver, B!RollingOver
<1>6. QED
  BY <1>4, <1>5

(* What the loops of Budget::advance keep is an end of the list. *)
LEMMA SuffixIsEnd ==
  ASSUME NEW a \in Entries2, NEW k \in 1..(Len(a) + 1)
  PROVE  SubSeq(a, k, Len(a)) \in Entries2 /\ IsEnd(SubSeq(a, k, Len(a)), a, k - 1)
<1>1. Len(a) \in Nat /\ k \in Nat /\ 1 <= k /\ k <= Len(a) + 1
  BY DEF Entries2
<1>2. SubSeq(a, k, Len(a)) \in Entries2
  BY <1>1 DEF Entries2
<1>3. Len(SubSeq(a, k, Len(a))) = Len(a) - (k - 1)
  BY <1>1 DEF Entries2
<1>4. ASSUME NEW m \in 1..Len(SubSeq(a, k, Len(a)))
      PROVE  SubSeq(a, k, Len(a))[m] = a[(k - 1) + m]
  <2>1. SubSeq(a, k, Len(a)) = [i \in 1..(Len(a) - k + 1) |-> a[i + k - 1]]
    BY <1>1 DEF Entries2
  <2>2. m \in 1..(Len(a) - k + 1) /\ m + k - 1 = (k - 1) + m
    BY <1>1, <1>3
  <2>3. QED
    BY <2>1, <2>2
<1>5. k - 1 \in 0..Len(a)
  BY <1>1
<1>6. QED
  BY <1>2, <1>3, <1>4, <1>5 DEF IsEnd

LEMMA CostsKept ==
  ASSUME NEW a \in Entries2, NEW floor \in Int
  PROVE  /\ B!KeptCosts(a, floor) \in Entries2
         /\ \E n \in 0..Len(a) : /\ IsEnd(B!KeptCosts(a, floor), a, n)
                                 /\ \A m \in 1..n : a[m][1] <= floor
<1>1. Len(a) \in Nat /\ \A k \in 1..Len(a) : a[k][1] \in Nat
  BY DEF Entries2
<1> DEFINE Stops(k) == /\ k = Len(a) + 1 \/ a[k][1] > floor
                       /\ \A m \in 1..(k - 1) : a[m][1] <= floor
           first == CHOOSE k \in 1..(Len(a) + 1) : Stops(k)
           T == {k \in 1..(Len(a) + 1) : k = Len(a) + 1 \/ a[k][1] > floor}
<1>2. \E k \in 1..(Len(a) + 1) : Stops(k)
  <2>1. T \in SUBSET Nat /\ Len(a) + 1 \in T
    BY <1>1
  <2>2. PICK k \in T : \A m \in T : k <= m
    BY <2>1, LeastNat
  <2>3. ASSUME NEW m \in 1..(k - 1) PROVE a[m][1] <= floor
    <3>1. m \in 1..Len(a) /\ ~(k <= m) /\ m \in 1..(Len(a) + 1)
      BY <1>1, <2>2
    <3>2. m \notin T
      BY <2>2, <3>1
    <3>3. QED
      BY <1>1, <3>1, <3>2
  <2>4. QED
    BY <2>2, <2>3
<1>3. first \in 1..(Len(a) + 1) /\ Stops(first)
  BY <1>2
<1>4. B!KeptCosts(a, floor) = SubSeq(a, first, Len(a))
  BY DEF B!KeptCosts
<1> HIDE DEF first
<1>5. first - 1 \in 0..Len(a)
  BY <1>1, <1>3
<1>6. QED
  BY <1>3, <1>4, <1>5, SuffixIsEnd

LEMMA HeadsKept ==
  ASSUME NEW a \in Entries2, a # <<>>, NEW floor \in Int
  PROVE  /\ B!KeptHeads(a, floor) \in Entries2
         /\ \E k \in 1..Len(a) : /\ IsEnd(B!KeptHeads(a, floor), a, k - 1)
                                 /\ k = Len(a) \/ a[k + 1][1] > floor
                                 /\ \A m \in 2..k : a[m][1] <= floor
<1>1. Len(a) \in Nat /\ Len(a) # 0 /\ \A k \in 1..Len(a) : a[k][1] \in Nat
  BY DEF Entries2
<1> DEFINE Stops(k) == /\ k = Len(a) \/ a[k + 1][1] > floor
                       /\ \A m \in 2..k : a[m][1] <= floor
           first == CHOOSE k \in 1..Len(a) : Stops(k)
           T == {k \in 1..Len(a) : k = Len(a) \/ a[k + 1][1] > floor}
<1>2. \E k \in 1..Len(a) : Stops(k)
  <2>1. T \in SUBSET Nat /\ Len(a) \in T
    BY <1>1
  <2>2. PICK k \in T : \A m \in T : k <= m
    BY <2>1, LeastNat
  <2>3. ASSUME NEW m \in 2..k PROVE a[m][1] <= floor
    <3>1. m - 1 \in 1..Len(a) /\ ~(k <= m - 1) /\ (m - 1) + 1 = m /\ m \in 1..Len(a) /\ m - 1 # Len(a)
      BY <1>1, <2>2
    <3>2. m - 1 \notin T
      BY <2>2, <3>1
    <3>3. ~(a[m][1] > floor)
      BY <3>1, <3>2
    <3>4. QED
      BY <1>1, <3>1, <3>3
  <2>4. QED
    BY <2>2, <2>3
<1>3. first \in 1..Len(a) /\ Stops(first)
  BY <1>2
<1>4. B!KeptHeads(a, floor) = SubSeq(a, first, Len(a))
  BY DEF B!KeptHeads
<1> HIDE DEF first
<1>5. first \in 1..(Len(a) + 1)
  BY <1>1, <1>3
<1>6. QED
  BY <1>3, <1>4, <1>5, SuffixIsEnd

LEMMA EndOfEnd ==
  ASSUME NEW a \in Entries2, NEW b \in Entries2, NEW c \in Entries2, NEW n, NEW m,
         IsEnd(b, a, n), IsEnd(c, b, m)
  PROVE  IsEnd(c, a, n + m)
<1>1. /\ Len(a) \in Nat /\ n \in 0..Len(a) /\ Len(b) = Len(a) - n
      /\ m \in 0..Len(b) /\ Len(c) = Len(b) - m
  BY DEF IsEnd, Entries2
<1>2. n + m \in 0..Len(a) /\ Len(c) = Len(a) - (n + m)
  BY <1>1
<1>3. ASSUME NEW k \in 1..Len(c) PROVE c[k] = a[(n + m) + k]
  <2>1. m + k \in 1..Len(b) /\ n + (m + k) = (n + m) + k
    BY <1>1
  <2>2. c[k] = b[m + k] /\ b[m + k] = a[n + (m + k)]
    BY <2>1 DEF IsEnd
  <2>3. QED
    BY <2>1, <2>2
<1>4. QED
  BY <1>2, <1>3 DEF IsEnd

LEMMA EndGrows ==
  ASSUME NEW a \in Entries2, NEW c \in Entries2, NEW n, NEW e \in Nat \X Nat, IsEnd(c, a, n)
  PROVE  /\ Append(a, e) \in Entries2 /\ Append(c, e) \in Entries2
         /\ IsEnd(Append(c, e), Append(a, e), n)
         /\ Len(Append(a, e)) = Len(a) + 1 /\ Append(a, e)[Len(a) + 1] = e
         /\ \A k \in 1..Len(a) : Append(a, e)[k] = a[k]
<1>1. /\ Len(a) \in Nat /\ Len(c) \in Nat /\ n \in 0..Len(a) /\ Len(c) = Len(a) - n
  BY DEF IsEnd, Entries2
<1>2. Append(a, e) \in Entries2 /\ Append(c, e) \in Entries2
  BY DEF Entries2
<1>3. /\ Len(Append(a, e)) = Len(a) + 1 /\ Len(Append(c, e)) = Len(c) + 1
      /\ Append(a, e)[Len(a) + 1] = e /\ Append(c, e)[Len(c) + 1] = e
      /\ \A k \in 1..Len(a) : Append(a, e)[k] = a[k]
      /\ \A k \in 1..Len(c) : Append(c, e)[k] = c[k]
  BY <1>1 DEF Entries2
<1>4. ASSUME NEW k \in 1..(Len(c) + 1) PROVE Append(c, e)[k] = Append(a, e)[n + k]
  <2>1. CASE k = Len(c) + 1
    <3>1. n + k = Len(a) + 1
      BY <1>1, <2>1
    <3>2. QED
      BY <1>3, <2>1, <3>1
  <2>2. CASE k # Len(c) + 1
    <3>1. k \in 1..Len(c) /\ n + k \in 1..Len(a)
      BY <1>1, <2>2
    <3>2. QED
      BY <1>3, <3>1 DEF IsEnd
  <2>3. QED
    BY <2>1, <2>2
<1>5. n \in 0..(Len(a) + 1) /\ Len(c) + 1 = (Len(a) + 1) - n
  BY <1>1
<1>6. IsEnd(Append(c, e), Append(a, e), n)
  BY <1>3, <1>4, <1>5 DEF IsEnd
<1>7. QED
  BY <1>2, <1>3, <1>6

(* A cost booked at the head of now, and a head that moves on.             *)
LEMMA CostBooked ==
  ASSUME NEW a \in Entries2, NEW c \in Entries2, NEW now \in Nat, NEW e \in Nat \X Nat,
         CostsPruned(c, a, now)
  PROVE  CostsPruned(Append(c, e), Append(a, e), now)
<1>1. PICK n \in 0..Len(a) : IsEnd(c, a, n) /\ \A m \in 1..n : a[m][1] <= now - Window
  BY DEF CostsPruned
<1>2. /\ IsEnd(Append(c, e), Append(a, e), n) /\ Len(Append(a, e)) = Len(a) + 1
      /\ \A k \in 1..Len(a) : Append(a, e)[k] = a[k]
  BY <1>1, EndGrows
<1>3. Len(a) \in Nat
  BY DEF Entries2
<1>4. n \in 0..Len(Append(a, e)) /\ \A m \in 1..n : Append(a, e)[m][1] <= now - Window
  BY <1>1, <1>2, <1>3
<1>5. QED
  BY <1>2, <1>4 DEF CostsPruned

LEMMA CostsAdvance ==
  ASSUME NEW a \in Entries2, NEW c \in Entries2, NEW now \in Nat, NEW t \in Nat, now <= t,
         CostsPruned(c, a, now)
  PROVE  /\ B!KeptCosts(c, t - Window) \in Entries2
         /\ CostsPruned(B!KeptCosts(c, t - Window), a, t)
<1> DEFINE d == B!KeptCosts(c, t - Window)
<1>1. PICK n \in 0..Len(a) : IsEnd(c, a, n) /\ \A m \in 1..n : a[m][1] <= now - Window
  BY DEF CostsPruned
<1>2. t - Window \in Int /\ now - Window <= t - Window /\ now - Window \in Int
  BY WindowAssumption
<1>3. d \in Entries2 /\ \E k \in 0..Len(c) : IsEnd(d, c, k) /\ \A m \in 1..k : c[m][1] <= t - Window
  BY <1>2, CostsKept
<1>4. PICK k \in 0..Len(c) : IsEnd(d, c, k) /\ \A m \in 1..k : c[m][1] <= t - Window
  BY <1>3
<1> HIDE DEF d
<1>5. IsEnd(d, a, n + k)
  BY <1>1, <1>3, <1>4, EndOfEnd
<1>6. /\ Len(a) \in Nat /\ Len(c) = Len(a) - n /\ \A m \in 1..Len(a) : a[m][1] \in Nat
      /\ n + k \in 0..Len(a)
  BY <1>1, <1>5 DEF IsEnd, Entries2
<1>7. ASSUME NEW m \in 1..(n + k) PROVE a[m][1] <= t - Window
  <2>1. a[m][1] \in Nat
    BY <1>6
  <2>2. CASE m <= n
    <3>1. a[m][1] <= now - Window
      BY <1>1, <2>2
    <3>2. QED
      BY <1>2, <2>1, <3>1
  <2>3. CASE ~(m <= n)
    <3>1. m - n \in 1..k /\ m - n \in 1..Len(c) /\ n + (m - n) = m
      BY <1>6, <2>3
    <3>2. c[m - n] = a[n + (m - n)]
      BY <1>1, <3>1 DEF IsEnd
    <3>3. QED
      BY <1>4, <3>1, <3>2
  <2>4. QED
    BY <2>2, <2>3
<1>8. QED
  BY <1>3, <1>5, <1>6, <1>7 DEF CostsPruned, d

LEMMA HeadsStayInOrder ==
  ASSUME NEW a \in Entries2, NEW now \in Nat, NEW t \in Nat, now <= t, NEW w \in Nat,
         HeadsInOrder(a, now)
  PROVE  Append(a, <<t, w>>) \in Entries2 /\ HeadsInOrder(Append(a, <<t, w>>), t)
<1> DEFINE b == Append(a, <<t, w>>)
<1>1. /\ Len(a) \in Nat /\ \A k \in 1..Len(a) : a[k][1] \in Nat
      /\ b \in Entries2 /\ Len(b) = Len(a) + 1 /\ b[Len(a) + 1] = <<t, w>>
      /\ \A k \in 1..Len(a) : b[k] = a[k]
  BY DEF Entries2
<1> HIDE DEF b
<1>2. b[Len(a) + 1][1] = t
  BY <1>1
<1>3. \A k \in 1..Len(b) : k # Len(a) + 1 => k \in 1..Len(a)
  BY <1>1
<1>4. ASSUME NEW k \in 1..Len(b) PROVE b[k][1] <= t /\ b[k][1] \in Nat
  <2>1. CASE k = Len(a) + 1
    BY <1>2, <2>1
  <2>2. CASE k # Len(a) + 1
    <3>1. k \in 1..Len(a)
      BY <1>3, <2>2
    <3>2. a[k][1] <= now /\ a[k][1] \in Nat /\ b[k] = a[k]
      BY <1>1, <3>1 DEF HeadsInOrder
    <3>3. QED
      BY <3>2
  <2>3. QED
    BY <2>1, <2>2
<1>5. ASSUME NEW k \in 1..Len(b), NEW m \in 1..Len(b), k <= m PROVE b[k][1] <= b[m][1]
  <2>1. CASE m = Len(a) + 1
    BY <1>2, <1>4, <2>1
  <2>2. CASE m # Len(a) + 1
    <3>1. m \in 1..Len(a) /\ k \in 1..Len(a)
      BY <1>1, <1>3, <1>5, <2>2
    <3>2. QED
      BY <1>1, <1>5, <3>1 DEF HeadsInOrder
  <2>3. QED
    BY <2>1, <2>2
<1>6. QED
  BY <1>1, <1>4, <1>5 DEF HeadsInOrder, b

LEMMA HeadsAdvance ==
  ASSUME NEW a \in Entries2, NEW c \in Entries2, NEW now \in Nat, NEW t \in Nat, now <= t,
         NEW w \in Nat, HeadsPruned(c, a, now), HeadsInOrder(a, now)
  PROVE  /\ B!KeptHeads(Append(c, <<t, w>>), t - Window) \in Entries2
         /\ HeadsPruned(B!KeptHeads(Append(c, <<t, w>>), t - Window),
                        Append(a, <<t, w>>), t)
<1> DEFINE e == <<t, w>>
           b == Append(a, e)
           f == Append(c, e)
           d == B!KeptHeads(f, t - Window)
<1>1. /\ Len(a) \in Nat /\ Len(c) \in Nat /\ e \in Nat \X Nat
      /\ \A k \in 1..Len(a) : a[k][1] \in Nat
  BY DEF Entries2
<1>2. \E n \in 1..(Len(a) + 1) :
        /\ IsEnd(c, a, n - 1)
        /\ n = 1 \/ (n \in 1..Len(a) /\ a[n][1] <= now - Window)
  <2>1. CASE a = <<>>
    <3>1. c = <<>> /\ Len(a) = 0 /\ Len(c) = 0
      BY <2>1 DEF HeadsPruned
    <3>2. IsEnd(c, a, 1 - 1)
      BY <3>1 DEF IsEnd
    <3>3. QED
      BY <1>1, <3>2
  <2>2. CASE a # <<>>
    <3>1. PICK n \in 1..Len(a) : IsEnd(c, a, n - 1) /\ (n = 1 \/ a[n][1] <= now - Window)
      BY <2>2 DEF HeadsPruned
    <3>2. n \in 1..(Len(a) + 1)
      BY <1>1
    <3>3. QED
      BY <3>1, <3>2
  <2>3. QED
    BY <2>1, <2>2
<1>3. PICK n \in 1..(Len(a) + 1) :
        /\ IsEnd(c, a, n - 1)
        /\ n = 1 \/ (n \in 1..Len(a) /\ a[n][1] <= now - Window)
  BY <1>2
<1>4. /\ b \in Entries2 /\ f \in Entries2 /\ IsEnd(f, b, n - 1)
      /\ Len(b) = Len(a) + 1 /\ \A k \in 1..Len(a) : b[k] = a[k]
  BY <1>1, <1>3, EndGrows
<1>5. t - Window \in Int /\ now - Window \in Int /\ now - Window <= t - Window
  BY WindowAssumption
<1>6. HeadsInOrder(b, t)
  BY HeadsStayInOrder
<1> HIDE DEF b, f, e
<1>a. b \in Entries2 /\ f \in Entries2
  BY <1>4
<1>b. Len(f) \in Nat /\ Len(b) \in Nat /\ \A m \in 1..Len(b) : b[m] \in Nat \X Nat
  BY <1>a DEF Entries2
<1>c. Len(f) = Len(b) - (n - 1) /\ \A m \in 1..Len(f) : f[m] = b[(n - 1) + m]
  BY <1>4 DEF IsEnd
<1>d. Len(f) # 0
  BY <1>1, <1>4, <1>b, <1>c
<1>e. f # <<>>
  BY <1>d
<1>7. d \in Entries2
  BY <1>a, <1>e, <1>5, HeadsKept
<1>8. PICK k \in 1..Len(f) : /\ IsEnd(d, f, k - 1)
                             /\ k = Len(f) \/ f[k + 1][1] > t - Window
                             /\ \A m \in 2..k : f[m][1] <= t - Window
  BY <1>a, <1>e, <1>5, HeadsKept
<1> HIDE DEF d
<1>9. IsEnd(d, b, (n - 1) + (k - 1))
  BY <1>4, <1>7, <1>8, EndOfEnd
<1>10. /\ Len(f) = Len(b) - (n - 1) /\ Len(f) \in Nat /\ Len(b) \in Nat
       /\ \A m \in 1..Len(f) : f[m] = b[(n - 1) + m]
       /\ \A m \in 1..Len(b) : b[m][1] \in Nat
  BY <1>b, <1>c
<1> DEFINE z == n + (k - 1)
<1>11. z \in 1..Len(b) /\ z - 1 = (n - 1) + (k - 1) /\ z = (n - 1) + k
  BY <1>10
<1>12. z = 1 \/ b[z][1] <= t - Window
  <2>1. CASE k = 1
    <3>1. z = n
      BY <2>1
    <3>2. CASE n # 1
      <4>1. n \in 1..Len(a) /\ a[n][1] <= now - Window /\ b[n] = a[n] /\ a[n][1] \in Nat
        BY <1>1, <1>3, <1>4, <3>2
      <4>2. QED
        BY <1>5, <3>1, <4>1
    <3>3. QED
      BY <3>1, <3>2
  <2>2. CASE k # 1
    <3>1. k \in 2..k
      BY <2>2
    <3>2. f[k] = b[z]
      BY <1>10, <1>11
    <3>3. QED
      BY <1>8, <3>1, <3>2
  <2>3. QED
    BY <2>1, <2>2
<1>13. ASSUME NEW m \in 1..Len(b), m > z PROVE b[m][1] > t - Window
  <2>1. k # Len(f) /\ k + 1 \in 1..Len(f) /\ (n - 1) + (k + 1) = z + 1 /\ z + 1 \in 1..Len(b) /\ z + 1 <= m
    BY <1>10, <1>11, <1>13
  <2>2. f[k + 1] = b[z + 1] /\ f[k + 1][1] > t - Window
    BY <1>8, <1>10, <2>1
  <2>3. b[z + 1][1] <= b[m][1]
    BY <1>6, <2>1 DEF HeadsInOrder
  <2>4. PICK x, y, u : x = b[z + 1][1] /\ y = b[m][1] /\ u = t - Window
    OBVIOUS
  <2>5. x \in Nat /\ y \in Nat /\ u \in Int
    BY <1>5, <1>10, <2>1, <2>4
  <2>6. u < x /\ x <= y
    <3>1. x = f[k + 1][1]
      BY <2>2, <2>4
    <3>2. QED
      BY <2>2, <2>3, <2>4, <3>1
  <2>7. u < y
    BY <2>5, <2>6
  <2>8. QED
    BY <2>4, <2>7
<1>14. b # <<>>
  BY <1>4, <1>1
<1>15. IsEnd(d, b, z - 1)
  BY <1>9, <1>11
<1> HIDE DEF z
<1>16. HeadsPruned(d, b, t)
  BY <1>11, <1>12, <1>13, <1>14, <1>15 DEF HeadsPruned
<1>17. QED
  BY <1>7, <1>16 DEF d, f, b, e

LEMMA BudgetStarts == B!Init => BudgetInv
<1> SUFFICES ASSUME B!Init PROVE BudgetInv
  OBVIOUS
<1>1. /\ mode \in {"batch", "live"} /\ head = 0 /\ wall = 0
      /\ costs = <<>> /\ heads = <<>> /\ allCosts = <<>> /\ allHeads = <<>>
  BY DEF B!Init
<1>2. <<>> \in Entries2 /\ Len(<<>>) = 0
  BY DEF Entries2
<1>3. 0 \in 0..Len(<<>>) /\ IsEnd(<<>>, <<>>, 0)
  BY <1>2 DEF IsEnd
<1>4. CostsPruned(<<>>, <<>>, 0)
  BY <1>3 DEF CostsPruned
<1>5. HeadsPruned(<<>>, <<>>, 0) /\ HeadsInOrder(<<>>, 0)
  BY <1>2 DEF HeadsPruned, HeadsInOrder
<1>6. QED
  BY <1>1, <1>2, <1>4, <1>5 DEF BudgetInv, BudgetTyped

LEMMA BudgetIsKept == BudgetInv /\ [B!Next]_budgetVars => BudgetInv'
<1> SUFFICES ASSUME BudgetInv, [B!Next]_budgetVars PROVE BudgetInv'
  OBVIOUS
<1>1. CASE UNCHANGED budgetVars
  BY <1>1 DEF budgetVars, BudgetInv, BudgetTyped
<1>2. CASE B!Tick
  <2>1. /\ mode' = mode /\ head' = head /\ costs' = costs /\ heads' = heads
        /\ allCosts' = allCosts /\ allHeads' = allHeads /\ wall' = wall + 1
    BY <1>2 DEF B!Tick, B!live
  <2>2. QED
    BY <2>1 DEF BudgetInv, BudgetTyped
<1>3. ASSUME NEW w \in Workers, B!Call(w) PROVE BudgetInv'
  <2>1. /\ mode' = mode /\ head' = head /\ costs' = costs /\ heads' = heads
        /\ allCosts' = allCosts /\ allHeads' = allHeads /\ wall' = wall
    BY <1>3 DEF B!Call, B!live
  <2>2. QED
    BY <2>1 DEF BudgetInv, BudgetTyped
<1>4. ASSUME NEW w \in Workers, B!Return(w) PROVE BudgetInv'
  <2>1. /\ mode' = mode /\ head' = head /\ heads' = heads
        /\ allHeads' = allHeads /\ wall' = wall
    BY <1>4 DEF B!Return
  <2>2. CASE UNCHANGED <<costs, allCosts>>
    BY <2>1, <2>2 DEF BudgetInv, BudgetTyped
  <2>3. CASE ~UNCHANGED <<costs, allCosts>>
    <3>1. PICK usd \in 0..1 :
            /\ costs' = IF mode = "live" THEN Append(costs, <<head, usd>>) ELSE costs
            /\ allCosts' = Append(allCosts, <<head, usd>>)
      BY <1>4, <2>3 DEF B!Return
    <3>2. <<head, usd>> \in Nat \X Nat /\ costs \in Entries2 /\ allCosts \in Entries2 /\ head \in Nat
      BY DEF BudgetInv, BudgetTyped
    <3>3. costs' \in Entries2 /\ allCosts' \in Entries2
      BY <3>1, <3>2 DEF Entries2
    <3>4. ASSUME mode = "live" PROVE CostsPruned(costs', allCosts', head)
      BY <3>1, <3>2, <3>4, CostBooked DEF BudgetInv
    <3>5. QED
      BY <2>1, <3>3, <3>4 DEF BudgetInv, BudgetTyped
  <2>4. QED
    BY <2>2, <2>3
<1>5. ASSUME NEW t \in head..MaxHead, B!Advance(t) PROVE BudgetInv'
  <2>1. /\ mode = "live" /\ mode' = mode /\ head' = t /\ wall' = wall
        /\ heads' = B!KeptHeads(Append(heads, <<t, wall>>), t - Window)
        /\ allHeads' = Append(allHeads, <<t, wall>>)
        /\ costs' = B!KeptCosts(costs, t - Window) /\ allCosts' = allCosts
    BY <1>5 DEF B!Advance
  <2>2. /\ BudgetTyped /\ CostsPruned(costs, allCosts, head)
        /\ HeadsPruned(heads, allHeads, head) /\ HeadsInOrder(allHeads, head)
    BY <2>1 DEF BudgetInv
  <2>3. /\ head \in Nat /\ wall \in Nat /\ costs \in Entries2 /\ allCosts \in Entries2
        /\ heads \in Entries2 /\ allHeads \in Entries2
    BY <2>2 DEF BudgetTyped
  <2>4. t \in Nat /\ head <= t
    BY <2>3, WindowAssumption
  <2>5. costs' \in Entries2 /\ CostsPruned(costs', allCosts', t)
    BY <2>1, <2>2, <2>3, <2>4, CostsAdvance
  <2>6. heads' \in Entries2 /\ HeadsPruned(heads', allHeads', t)
    BY <2>1, <2>2, <2>3, <2>4, HeadsAdvance
  <2>7. allHeads' \in Entries2 /\ HeadsInOrder(allHeads', t)
    BY <2>1, <2>2, <2>3, <2>4, HeadsStayInOrder
  <2>8. QED
    BY <2>1, <2>2, <2>3, <2>4, <2>5, <2>6, <2>7 DEF BudgetInv, BudgetTyped
<1>6. QED
  BY <1>1, <1>2, <1>3, <1>4, <1>5 DEF B!Next

(* A budget that is really over starts no call. *)
LEMMA ClosedStartsNothing ==
  BudgetInv /\ [B!Next]_budgetVars
    => (B!ReallyOver \/ (mode = "batch" /\ exhausted) => calling' \subseteq calling)
<1> SUFFICES ASSUME BudgetInv, [B!Next]_budgetVars,
                    B!ReallyOver \/ (mode = "batch" /\ exhausted)
             PROVE  calling' \subseteq calling
  OBVIOUS
<1>1. ~B!Allowed
  <2>1. CASE mode = "live"
    <3>1. B!Allowed <=> ~B!ReallyOver
      BY <2>1, WindowMeans DEF WindowIsExact, B!WindowIsExact
    <3>2. QED
      BY <2>1, <3>1
  <2>2. CASE mode # "live"
    BY <2>2 DEF B!Allowed, B!ReallyOver
  <2>3. QED
    BY <2>1, <2>2
<1>2. ASSUME NEW w \in Workers, B!Call(w) PROVE calling' \subseteq calling
  BY <1>1, <1>2 DEF B!Call
<1>3. ASSUME NEW w \in Workers, B!Return(w) PROVE calling' \subseteq calling
  BY <1>3 DEF B!Return
<1>4. QED
  BY <1>2, <1>3 DEF B!Next, B!Tick, B!Advance, budgetVars

LEMMA BudgetSteps1 == [Next]_vars => [B!Next]_budgetVars
BY DEF Next, CallsSteps, ChatSteps, SseSteps, IndexesSteps, JobsSteps, QuotaSteps,
       BudgetSteps, DownloadSteps, ShotsSteps, vars, budgetVars

(* For any limits and any window: however calls, their costs and the heads *)
(* of the stream interleave, the pruned lists of a live budget refuse a    *)
(* call exactly when the whole history would (Budget::advance,             *)
(* Budget::rolling_over).                                                  *)
THEOREM PruningLosesNothing == Spec => []WindowIsExact
<1>1. Init => BudgetInv
  BY BudgetStarts DEF Init
<1>2. BudgetInv /\ [Next]_vars => BudgetInv'
  BY BudgetIsKept, BudgetSteps1
<1>3. QED
  BY <1>1, <1>2, WindowMeans, PTL DEF Spec

(* No key gets work past its cap, for any work and cap, and no call starts *)
(* under a closed budget (check_cap, Budget::allow_call).                  *)
THEOREM LimitsCloseForGood == Spec => SpentLimitsHold
<1>1. Init => QuotaInv /\ BudgetInv
  BY QuotaStarts, BudgetStarts DEF Init
<1>2. QuotaInv /\ BudgetInv /\ [Next]_vars => QuotaInv' /\ BudgetInv'
  BY QuotaStep, QuotaSteps1, BudgetIsKept, BudgetSteps1
<1>3. QuotaInv /\ [Next]_vars
        => [Cap > 0 /\ charged >= Cap
              => charged' + Q!Outstanding' <= charged + Q!Outstanding]_(Q!vars)
  BY QuotaStep, QuotaSteps1 DEF Shrinks, Q!vars, quotaVars
<1>4. BudgetInv /\ [Next]_vars
        => [B!ReallyOver \/ (mode = "batch" /\ exhausted) => calling' \subseteq calling]_(B!vars)
  BY ClosedStartsNothing, BudgetSteps1
<1>5. QED
  BY <1>1, <1>2, <1>3, <1>4, PTL
     DEF Spec, SpentLimitsHold, Q!OverspendOnlyShrinks, B!ClosedStaysClosed

-----------------------------------------------------------------------------
(* Downloads.  The one job that is at a URL writes at the end of the       *)
(* partial file it opened, and no file of the cache is the one it writes   *)
(* or the one it is to move; the chunks of a file are in the order their   *)
(* versions were served.                                                   *)

(* Chunks of versions that were served in that order, and a whole file of  *)
(* them, which only a resumed download can make of several.                *)
InOrder(c) == \A k \in 1..Len(c) : c[k] > 0 /\ (k < Len(c) => c[k] <= c[k + 1])
UpTo(c, v) == \A k \in 1..Len(c) : c[k] <= v
AllOf(c, v) == \A k \in 1..Len(c) : c[k] = v
Whole(c, s) ==
  /\ c \in Seq(Nat) /\ Len(c) = Size /\ InOrder(c)
  /\ s # "http" => \E v \in Nat : AllOf(c, v)

Fetching ==
  [at : {"idle", "get", "body", "hash", "move", "acquired", "failed", "tool", "find"},
   have : Nat, file : Nat, append : BOOLEAN, serving : Nat, written : Nat, hash : Seq(Nat)]

FilesOK ==
  /\ version \in Nat \ {0} /\ inodes \in Seq(Seq(Nat))
  /\ partFile \in 0..Len(inodes) /\ dest \in 0..Len(inodes) /\ (partFile # 0 => partFile # dest)
  /\ partFile # 0 => Len(inodes[partFile]) <= Size /\ InOrder(inodes[partFile]) /\ UpTo(inodes[partFile], version)

KeptOK ==
  /\ dest # 0 => Whole(inodes[dest], scheme)
  /\ \A h \in DOMAIN cache :
       /\ cache[h] \in 1..Len(inodes) /\ cache[h] # partFile /\ cache[h] # dest
       /\ inodes[cache[h]] = h /\ Whole(h, scheme)
  /\ archive => dest # 0 \/ DOMAIN cache # {}

(* What the job is about: the partial file it writes at its end, the file  *)
(* it is to move.                                                          *)
WritesOK(file, v, written) ==
  /\ partFile # 0 /\ file = partFile /\ written = Len(inodes[partFile])
  /\ v \in 1..version /\ UpTo(inodes[partFile], v)
  /\ scheme # "http" => AllOf(inodes[partFile], v)

JobOK(f) ==
  /\ f \in Fetching
  /\ f.at = "get" => f.have = IF scheme = "http" THEN Len(D!Content(partFile)) ELSE 0
  /\ f.at = "body" => WritesOK(f.file, f.serving, f.written)
  /\ f.at = "hash" => dest # 0
  /\ f.at = "move" => dest # 0 /\ f.hash = inodes[dest]

JobsOK == fetch = [j \in Fetchers |-> fetch[j]] /\ \A j \in Fetchers : JobOK(fetch[j])

DownloadInv == stray = "never" => FilesOK /\ KeptOK /\ JobsOK

Resting == {"idle", "failed", "tool", "find", "acquired", "hash"}

LEMMA IdleIs ==
  /\ D!Idle \in Fetching /\ D!Idle.at = "idle"
  /\ \A at \in Resting : [D!Idle EXCEPT !.at = at] \in Fetching /\ [D!Idle EXCEPT !.at = at].at = at
<1>1. <<>> \in Seq(Nat)
  OBVIOUS
<1>2. D!Idle \in Fetching /\ D!Idle.at = "idle"
  BY <1>1 DEF D!Idle, Fetching
<1>3. ASSUME NEW at \in Resting
      PROVE  [D!Idle EXCEPT !.at = at] \in Fetching /\ [D!Idle EXCEPT !.at = at].at = at
  BY <1>1 DEF D!Idle, Fetching, Resting
<1> QED BY <1>2, <1>3

LEMMA DownloadBegins == ASSUME D!Init PROVE DownloadInv
<1>1. FilesOK /\ KeptOK
  BY DEF D!Init, FilesOK, KeptOK
<1>2. JobOK(D!Idle)
  BY IdleIs DEF JobOK, D!Idle
<1>3. fetch = [j \in Fetchers |-> D!Idle]
  BY DEF D!Init
<1>4. JobsOK
  BY <1>2, <1>3 DEF JobsOK
<1> QED BY <1>1, <1>4 DEF DownloadInv

(* A file that is made, or written to. *)
LEMMA FileMade ==
  ASSUME NEW files \in Seq(Seq(Nat)), NEW c \in Seq(Nat), NEW after, after = Append(files, c)
  PROVE  /\ after \in Seq(Seq(Nat)) /\ Len(files) \in Nat /\ Len(after) = Len(files) + 1
         /\ after[Len(files) + 1] = c /\ \A i \in 1..Len(files) : after[i] = files[i]
OBVIOUS

LEMMA FileWritten ==
  ASSUME NEW files \in Seq(Seq(Nat)), NEW i \in 1..Len(files), NEW c \in Seq(Nat), NEW after,
         after = [files EXCEPT ![i] = c]
  PROVE  /\ after \in Seq(Seq(Nat)) /\ Len(after) = Len(files) /\ after[i] = c
         /\ \A k \in 1..Len(files) : k # i => after[k] = files[k]
OBVIOUS

(* A chunk written at the end. *)
Longer(d, c, v) ==
  /\ d \in Seq(Nat) /\ Len(c) \in Nat /\ Len(d) = Len(c) + 1 /\ d[Len(c) + 1] = v
  /\ \A k \in 1..Len(c) : d[k] = c[k]

LEMMA ChunkWritten ==
  ASSUME NEW c \in Seq(Nat), NEW v \in Nat
  PROVE  Longer(D!Written(c, Len(c) + 1, v), c, v)
<1>0. PICK d : d = D!Written(c, Len(c) + 1, v)
  OBVIOUS
<1>1. Len(c) \in Nat /\ \A k \in 1..Len(c) : c[k] \in Nat
  OBVIOUS
<1>2. d = [k \in 1..(Len(c) + 1) |-> IF k = Len(c) + 1 THEN v ELSE c[k]]
  BY <1>0, <1>1 DEF D!Written
<1>3. d \in Seq(Nat) /\ Len(d) = Len(c) + 1
  BY <1>1, <1>2
<1>4. d[Len(c) + 1] = v
  BY <1>1, <1>2
<1>5. ASSUME NEW k \in 1..Len(c) PROVE d[k] = c[k]
  BY <1>1, <1>2
<1>6. Longer(d, c, v)
  BY <1>1, <1>3, <1>4, <1>5 DEF Longer
<1> QED BY <1>0, <1>6

(* The one job of a URL moves on. *)
LEMMA JobMoves ==
  ASSUME NEW j, Fetchers = {j}, NEW e, fetch' = [fetch EXCEPT ![j] = e], JobsOK, JobOK(e)'
  PROVE  JobsOK'
BY DEF JobsOK

LEMMA JobRests ==
  ASSUME NEW j, Fetchers = {j}, NEW at \in Resting, D!To(j, at), JobsOK, at = "hash" => dest' # 0
  PROVE  JobsOK'
<1>1. PICK e : e = [D!Idle EXCEPT !.at = at]
  OBVIOUS
<1>2. e \in Fetching /\ e.at = at
  BY <1>1, IdleIs
<1>3. JobOK(e)'
  BY <1>2 DEF JobOK, Resting
<1> QED BY <1>1, <1>3, JobMoves DEF D!To

(* What lies in incoming/ and in the cache stays when only the partial     *)
(* file is written, replaced or removed.                                   *)
LEMMA KeptStays ==
  ASSUME FilesOK, KeptOK, Len(inodes') \in Nat, Len(inodes') >= Len(inodes),
         \A i \in 1..Len(inodes) : i # partFile => inodes'[i] = inodes[i],
         partFile' \in {0, partFile, Len(inodes) + 1},
         UNCHANGED <<scheme, dest, cache, archive>>
  PROVE  KeptOK'
<1>1. Len(inodes) \in Nat /\ partFile \in 0..Len(inodes) /\ dest \in 0..Len(inodes) /\ (partFile # 0 => partFile # dest)
  BY DEF FilesOK
<1>2. dest # 0 => inodes'[dest] = inodes[dest]
  BY <1>1
<1>3. ASSUME NEW h \in DOMAIN cache
      PROVE  /\ cache[h] \in 1..Len(inodes') /\ cache[h] # partFile' /\ cache[h] # dest
             /\ inodes'[cache[h]] = h /\ Whole(h, scheme)
  BY <1>1, <1>3 DEF KeptOK
<1> QED BY <1>2, <1>3 DEF KeptOK

(* The files stay as they are and the job moves on. *)
mediaFiles == <<scheme, version, inodes, partFile, dest, cache, archive>>

LEMMA FilesStay ==
  ASSUME FilesOK, KeptOK, UNCHANGED mediaFiles
  PROVE  FilesOK' /\ KeptOK'
BY DEF FilesOK, KeptOK, mediaFiles

LEMMA StartKeeps ==
  ASSUME NEW j, Fetchers = {j}, FilesOK, KeptOK, JobsOK, D!Start(j)
  PROVE  FilesOK' /\ KeptOK' /\ JobsOK'
<1>1. UNCHANGED mediaFiles
  BY DEF D!Start, mediaFiles, D!siteVars
<1>2. PICK at, have : /\ at = (IF dest # 0 THEN "hash" ELSE "get")
                      /\ have = (IF scheme = "http" THEN Len(D!Content(partFile)) ELSE 0)
  OBVIOUS
<1>3. D!Content(partFile) \in Seq(Nat) /\ have \in Nat
  BY <1>2 DEF FilesOK, D!Content
<1>4. PICK e : e = [D!Idle EXCEPT !.at = at, !.have = have]
  OBVIOUS
<1>5. e = [at |-> at, have |-> have, file |-> 0, append |-> FALSE, serving |-> 0, written |-> 0,
           hash |-> <<>>]
  BY <1>4 DEF D!Idle
<1>6. e \in Fetching /\ e.at = at /\ e.have = have
  BY <1>2, <1>3, <1>5 DEF Fetching
<1>7. JobOK(e)'
  BY <1>1, <1>2, <1>6 DEF JobOK, mediaFiles, D!Content
<1>8. fetch' = [fetch EXCEPT ![j] = e]
  BY <1>2, <1>4 DEF D!Start
<1> QED BY <1>1, <1>7, <1>8, FilesStay, JobMoves

LEMMA RefuseKeeps ==
  ASSUME NEW j, Fetchers = {j}, FilesOK, KeptOK, JobsOK, D!Refuse(j) \/ D!Retry(j) \/ D!ToolFails(j)
  PROVE  FilesOK' /\ KeptOK' /\ JobsOK'
<1>1. UNCHANGED mediaFiles
  BY DEF D!Refuse, D!Retry, D!ToolFails, mediaFiles, D!siteVars
<1>2. \E at \in Resting : at # "hash" /\ D!To(j, at)
  BY DEF D!Refuse, D!Retry, D!ToolFails, Resting
<1> QED BY <1>1, <1>2, FilesStay, JobRests

LEMMA StartSiteKeeps ==
  ASSUME NEW j, Fetchers = {j}, FilesOK, KeptOK, JobsOK, D!StartSite(j) \/ D!FindById(j)
  PROVE  FilesOK' /\ KeptOK' /\ JobsOK'
<1>1. UNCHANGED mediaFiles
  BY DEF D!StartSite, D!FindById, mediaFiles, D!siteVars
<1>2. \E at \in Resting : (at = "hash" => dest' # 0) /\ D!To(j, at)
  BY DEF D!StartSite, D!FindById, Resting
<1> QED BY <1>1, <1>2, FilesStay, JobRests

LEMMA NotSatisfiableKeeps ==
  ASSUME NEW j, Fetchers = {j}, FilesOK, KeptOK, JobsOK, D!NotSatisfiable(j)
  PROVE  FilesOK' /\ KeptOK' /\ JobsOK'
<1>1. /\ partFile' = 0 /\ UNCHANGED <<scheme, version, inodes, dest, cache, archive>>
      /\ fetch[j].at = "get" /\ fetch' = [fetch EXCEPT ![j].have = 0]
  BY DEF D!NotSatisfiable, D!siteVars
<1>2. FilesOK'
  BY <1>1 DEF FilesOK
<1>3. Len(inodes) \in Nat
  BY DEF FilesOK
<1>4. KeptOK'
  BY <1>1, <1>3, KeptStays
<1>5. PICK e : e = [fetch[j] EXCEPT !.have = 0]
  OBVIOUS
<1>6. fetch[j] \in Fetching
  BY DEF JobsOK, JobOK
<1>7. e \in Fetching /\ e.at = "get" /\ e.have = 0
  BY <1>1, <1>5, <1>6 DEF Fetching
<1>8. JobOK(e)'
  BY <1>1, <1>7 DEF JobOK, D!Content
<1>9. fetch' = [fetch EXCEPT ![j] = e]
  BY <1>1, <1>5
<1> QED BY <1>2, <1>4, <1>8, <1>9, JobMoves

(* The job has a file open and is about to write to it. *)
LEMMA JobWrites ==
  ASSUME NEW j, Fetchers = {j}, JobsOK, NEW f \in Nat, NEW a \in BOOLEAN, NEW v \in Nat, NEW w \in Nat,
         fetch' = [fetch EXCEPT ![j].at = "body", ![j].file = f, ![j].append = a,
                                ![j].serving = v, ![j].written = w],
         WritesOK(f, v, w)'
  PROVE  JobsOK'
<1>1. fetch[j] \in Fetching /\ fetch = [i \in Fetchers |-> fetch[i]]
  BY DEF JobsOK, JobOK
<1>2. PICK e : e = fetch'[j]
  OBVIOUS
<1>3. e = [at |-> "body", have |-> fetch[j].have, file |-> f, append |-> a, serving |-> v,
           written |-> w, hash |-> fetch[j].hash]
  BY <1>1, <1>2 DEF Fetching
<1>4. e \in Fetching /\ e.at = "body" /\ e.file = f /\ e.serving = v /\ e.written = w
  BY <1>1, <1>3 DEF Fetching
<1>6. JobOK(e)'
  BY <1>4 DEF JobOK
<1>7. fetch' = [fetch EXCEPT ![j] = e]
  BY <1>1, <1>2
<1> QED BY <1>6, <1>7, JobMoves

LEMMA ResumeKeeps ==
  ASSUME NEW j, Fetchers = {j}, FilesOK, KeptOK, JobsOK, D!Resume(j)
  PROVE  FilesOK' /\ KeptOK' /\ JobsOK'
<1>1. UNCHANGED mediaFiles
  BY DEF D!Resume, mediaFiles, D!siteVars
<1>2. FilesOK' /\ KeptOK'
  BY <1>1, FilesStay
<1>3. CASE partFile = 0
  <2>1. "failed" \in Resting /\ D!To(j, "failed")
    BY <1>3 DEF D!Resume, Resting
  <2> QED BY <1>2, <2>1, JobRests
<1>4. CASE partFile # 0
  <2>1. /\ fetch' = [fetch EXCEPT ![j].at = "body", ![j].file = partFile, ![j].append = TRUE,
                                  ![j].serving = version, ![j].written = fetch[j].have]
        /\ fetch[j].at = "get" /\ fetch[j].have # 0
    BY <1>4, SizeAssumption DEF D!Resume
  <2>2. partFile \in Nat /\ version \in Nat /\ fetch[j].have \in Nat
    BY DEF FilesOK, JobsOK, JobOK, Fetching
  <2>3. scheme = "http" /\ fetch[j].have = Len(inodes[partFile])
    BY <1>4, <2>1 DEF JobsOK, JobOK, D!Content
  <2>4. PICK p, v, w : p = partFile /\ v = version /\ w = fetch[j].have
    OBVIOUS
  <2>5. WritesOK(p, v, w)'
    BY <1>1, <1>4, <2>3, <2>4 DEF WritesOK, mediaFiles, FilesOK
  <2>6. p \in Nat /\ v \in Nat /\ w \in Nat /\ TRUE \in BOOLEAN
    BY <2>2, <2>4
  <2>7. fetch' = [fetch EXCEPT ![j].at = "body", ![j].file = p, ![j].append = TRUE,
                               ![j].serving = v, ![j].written = w]
    BY <2>1, <2>4
  <2>8. JobsOK'
    BY <2>5, <2>6, <2>7, JobWrites
  <2> QED BY <1>2, <2>8
<1> QED BY <1>3, <1>4

LEMMA CreateKeeps ==
  ASSUME NEW j, Fetchers = {j}, FilesOK, KeptOK, JobsOK, D!Create(j)
  PROVE  FilesOK' /\ KeptOK' /\ JobsOK'
<1>1. <<>> \in Seq(Nat) /\ inodes \in Seq(Seq(Nat)) /\ Len(inodes) \in Nat /\ partFile \in 0..Len(inodes)
      /\ version \in Nat \ {0} /\ dest \in 0..Len(inodes)
  BY DEF FilesOK
<1>2. /\ UNCHANGED <<scheme, version, dest, cache, archive>>
      /\ fetch' = [fetch EXCEPT ![j].at = "body", ![j].file = partFile', ![j].append = FALSE,
                                ![j].serving = version, ![j].written = 0]
  BY DEF D!Create, D!siteVars
<1>3. /\ inodes' \in Seq(Seq(Nat)) /\ Len(inodes') \in Nat /\ Len(inodes') >= Len(inodes)
      /\ partFile' \in {partFile, Len(inodes) + 1} /\ partFile' # 0 /\ partFile' \in 1..Len(inodes')
      /\ inodes'[partFile'] = <<>> /\ partFile' # dest
      /\ \A i \in 1..Len(inodes) : i # partFile => inodes'[i] = inodes[i]
  <2>1. CASE partFile = 0
    <3>1. inodes' = Append(inodes, <<>>) /\ partFile' = Len(inodes) + 1
      BY <2>1 DEF D!Create
    <3>2. PICK after : after = inodes'
      OBVIOUS
    <3>3. /\ after \in Seq(Seq(Nat)) /\ Len(after) = Len(inodes) + 1
          /\ after[Len(inodes) + 1] = <<>> /\ \A i \in 1..Len(inodes) : after[i] = inodes[i]
      BY <1>1, <3>1, <3>2, FileMade
    <3> QED BY <1>1, <3>1, <3>2, <3>3
  <2>2. CASE partFile # 0
    <3>1. inodes' = [inodes EXCEPT ![partFile] = <<>>] /\ partFile' = partFile /\ partFile \in 1..Len(inodes)
      BY <1>1, <2>2 DEF D!Create
    <3>2. PICK after : after = inodes'
      OBVIOUS
    <3>3. /\ after \in Seq(Seq(Nat)) /\ Len(after) = Len(inodes) /\ after[partFile] = <<>>
          /\ \A i \in 1..Len(inodes) : i # partFile => after[i] = inodes[i]
      BY <1>1, <3>1, <3>2, FileWritten
    <3>4. partFile # dest
      BY <2>2 DEF FilesOK
    <3> QED BY <1>1, <2>2, <3>1, <3>2, <3>3, <3>4
  <2> QED BY <2>1, <2>2
<1>4. KeptOK'
  BY <1>2, <1>3, KeptStays
<1>5. FilesOK'
  <2>1. Len(inodes'[partFile']) = 0 /\ InOrder(inodes'[partFile']) /\ UpTo(inodes'[partFile'], version)
    BY <1>3 DEF InOrder, UpTo
  <2>2. dest' \in 0..Len(inodes')
    BY <1>1, <1>2, <1>3
  <2>3. Len(inodes'[partFile']) <= Size
    BY <2>1, SizeAssumption
  <2> QED BY <1>1, <1>2, <1>3, <2>1, <2>2, <2>3 DEF FilesOK
<1>6. JobsOK'
  <2>1. PICK f, v : f = partFile' /\ v = version
    OBVIOUS
  <2>2. WritesOK(f, v, 0)'
    <3>1. partFile' # 0 /\ f = partFile' /\ inodes'[partFile'] = <<>>
      BY <1>3, <2>1
    <3>2. version' = version
      BY <1>2
    <3>3. v \in 1..version'
      BY <1>1, <2>1, <3>2
    <3>4. Len(<<>>) = 0 /\ UpTo(<<>>, v) /\ AllOf(<<>>, v)
      BY DEF UpTo, AllOf
    <3> QED BY <3>1, <3>3, <3>4 DEF WritesOK
  <2>3. f \in Nat /\ v \in Nat /\ 0 \in Nat /\ FALSE \in BOOLEAN
    BY <1>1, <1>3, <2>1
  <2>4. fetch' = [fetch EXCEPT ![j].at = "body", ![j].file = f, ![j].append = FALSE,
                               ![j].serving = v, ![j].written = 0]
    BY <1>2, <2>1
  <2> QED BY <2>2, <2>3, <2>4, JobWrites
<1> QED BY <1>4, <1>5, <1>6

LEMMA WriteKeeps ==
  ASSUME NEW j, Fetchers = {j}, FilesOK, KeptOK, JobsOK, D!Write(j)
  PROVE  FilesOK' /\ KeptOK' /\ JobsOK'
<1>1. PICK f, c, v, w : f = fetch[j] /\ c = inodes[partFile] /\ v = f.serving /\ w = f.written
  OBVIOUS
<1>2. /\ f.at = "body" /\ w < Size /\ UNCHANGED <<scheme, version, partFile, dest, cache, archive>>
      /\ inodes' = [inodes EXCEPT ![f.file] = D!Written(@, IF f.append THEN Len(inodes[f.file]) + 1
                                                         ELSE f.written + 1, f.serving)]
      /\ fetch' = [fetch EXCEPT ![j].written = @ + 1]
  BY <1>1 DEF D!Write, D!siteVars
<1>3. f \in Fetching /\ WritesOK(f.file, v, w)
  BY <1>1, <1>2 DEF JobsOK, JobOK
<1>4. /\ partFile \in 1..Len(inodes) /\ f.file = partFile /\ w = Len(c) /\ v \in 1..version /\ c \in Seq(Nat)
      /\ v \in Nat /\ version \in Nat /\ Len(inodes) \in Nat /\ inodes \in Seq(Seq(Nat)) /\ partFile # dest
      /\ dest \in 0..Len(inodes)
  BY <1>1, <1>3 DEF WritesOK, FilesOK
<1>5. InOrder(c) /\ UpTo(c, v) /\ (scheme # "http" => AllOf(c, v))
  BY <1>1, <1>3, <1>4 DEF WritesOK, FilesOK
<1>6. PICK d : d = D!Written(c, Len(c) + 1, v)
  OBVIOUS
<1>7. /\ d \in Seq(Nat) /\ Len(c) \in Nat /\ Len(d) = Len(c) + 1 /\ d[Len(c) + 1] = v
      /\ \A k \in 1..Len(c) : d[k] = c[k]
  <2>1. c \in Seq(Nat) /\ v \in Nat
    BY <1>4
  <2>2. Longer(d, c, v)
    BY <1>6, <2>1, ChunkWritten
  <2> QED BY <2>2 DEF Longer
<1>8. inodes' = [inodes EXCEPT ![partFile] = d]
  BY <1>1, <1>2, <1>4, <1>6
<1>9. /\ inodes' \in Seq(Seq(Nat)) /\ Len(inodes') = Len(inodes) /\ inodes'[partFile] = d
      /\ \A i \in 1..Len(inodes) : i # partFile => inodes'[i] = inodes[i]
  <2>1. PICK after : after = inodes'
    OBVIOUS
  <2>2. /\ after \in Seq(Seq(Nat)) /\ Len(after) = Len(inodes) /\ after[partFile] = d
        /\ \A i \in 1..Len(inodes) : i # partFile => after[i] = inodes[i]
    BY <1>4, <1>7, <1>8, <2>1, FileWritten
  <2> QED BY <2>1, <2>2
<1>10. KeptOK'
  BY <1>2, <1>4, <1>9, KeptStays
<1>11. UpTo(d, v) /\ UpTo(d, version) /\ (scheme # "http" => AllOf(d, v))
  <2>1. ASSUME NEW k \in 1..Len(d)
        PROVE  d[k] <= v /\ d[k] <= version /\ (scheme # "http" => d[k] = v)
    <3>1. CASE k = Len(c) + 1
      BY <1>4, <1>7, <3>1
    <3>2. CASE k # Len(c) + 1
      <4>1. k \in 1..Len(c)
        BY <1>7, <3>2
      <4>2. d[k] = c[k] /\ c[k] <= v /\ (scheme # "http" => c[k] = v)
        BY <1>5, <1>7, <4>1 DEF UpTo, AllOf
      <4>3. c[k] \in Nat
        BY <1>4, <4>1
      <4> QED BY <1>4, <4>2, <4>3
    <3> QED BY <3>1, <3>2
  <2> QED BY <2>1 DEF UpTo, AllOf
<1>12. InOrder(d)
  <2>1. ASSUME NEW k \in 1..Len(d), k < Len(d) PROVE d[k] <= d[k + 1]
    <3>1. CASE k = Len(c)
      <4>1. k \in 1..Len(c) /\ d[k] = c[k] /\ d[k + 1] = v
        BY <1>7, <2>1, <3>1
      <4> QED BY <1>5, <4>1 DEF UpTo
    <3>2. CASE k # Len(c)
      <4>1. k \in 1..Len(c) /\ k + 1 \in 1..Len(c) /\ k < Len(c)
        BY <1>7, <2>1, <3>2
      <4>2. d[k] = c[k] /\ d[k + 1] = c[k + 1]
        BY <1>7, <4>1
      <4> QED BY <1>5, <4>1, <4>2 DEF InOrder
    <3> QED BY <3>1, <3>2
  <2>2. ASSUME NEW k \in 1..Len(d) PROVE d[k] > 0
    <3>1. CASE k = Len(c) + 1
      BY <1>4, <1>7, <3>1
    <3>2. CASE k \in 1..Len(c)
      BY <1>5, <1>7, <3>2 DEF InOrder
    <3> QED BY <1>7, <3>1, <3>2
  <2> QED BY <2>1, <2>2 DEF InOrder
<1>13. FilesOK'
  <2>1. Len(d) <= Size
    BY <1>2, <1>4, <1>7, SizeAssumption
  <2>2. /\ version' = version /\ partFile' = partFile /\ dest' = dest /\ Len(inodes') = Len(inodes)
        /\ inodes'[partFile'] = d /\ inodes' \in Seq(Seq(Nat))
    BY <1>2, <1>9
  <2>3. version \in Nat \ {0} /\ partFile \in 0..Len(inodes) /\ partFile # 0 /\ partFile # dest
    BY <1>4 DEF FilesOK
  <2> QED BY <1>4, <1>11, <1>12, <2>1, <2>2, <2>3 DEF FilesOK
<1>14. JobsOK'
  <2>1. PICK e : e = [f EXCEPT !.written = w + 1]
    OBVIOUS
  <2>2. e \in Fetching /\ e.at = "body" /\ e.written = w + 1 /\ e.file = f.file /\ e.serving = v
    <3>1. f \in Fetching /\ f.at = "body" /\ w = f.written /\ v = f.serving
      BY <1>1, <1>2, <1>3
    <3>2. w + 1 \in Nat
      BY <3>1 DEF Fetching
    <3> QED BY <2>1, <3>1, <3>2 DEF Fetching
  <2>3. WritesOK(e.file, e.serving, e.written)'
    <3>1. partFile' = partFile /\ version' = version /\ scheme' = scheme
      BY <1>2
    <3>2. e.file = partFile' /\ partFile' # 0 /\ inodes'[partFile'] = d
      BY <1>4, <1>9, <2>2, <3>1
    <3>3. e.written = Len(d) /\ e.serving = v /\ v \in 1..version
      BY <1>4, <1>7, <2>2
    <3> QED BY <1>11, <3>1, <3>2, <3>3 DEF WritesOK
  <2>4. JobOK(e)'
    BY <2>2, <2>3 DEF JobOK
  <2>5. fetch' = [fetch EXCEPT ![j] = e]
    BY <1>1, <1>2, <2>1
  <2> QED BY <2>4, <2>5, JobMoves
<1> QED BY <1>10, <1>13, <1>14

LEMMA CutKeeps ==
  ASSUME NEW j, Fetchers = {j}, FilesOK, KeptOK, JobsOK, D!Cut(j)
  PROVE  FilesOK' /\ KeptOK' /\ JobsOK'
<1>1. /\ partFile' \in {partFile, 0} /\ UNCHANGED <<scheme, version, inodes, dest, cache, archive>>
      /\ D!To(j, "failed")
  BY DEF D!Cut, D!siteVars
<1>2. FilesOK' /\ Len(inodes) \in Nat
  BY <1>1 DEF FilesOK
<1>3. KeptOK'
  BY <1>1, <1>2, KeptStays
<1>4. JobsOK'
  <2>1. "failed" \in Resting
    BY DEF Resting
  <2> QED BY <1>1, <2>1, JobRests
<1> QED BY <1>2, <1>3, <1>4

LEMMA RenameKeeps ==
  ASSUME NEW j, Fetchers = {j}, FilesOK, KeptOK, JobsOK, D!Rename(j)
  PROVE  FilesOK' /\ KeptOK' /\ JobsOK'
<1>1. PICK f : f = fetch[j]
  OBVIOUS
<1>2. f.at = "body" /\ f.written = Size /\ UNCHANGED <<scheme, version, inodes, cache, archive>>
  BY <1>1 DEF D!Rename, D!siteVars
<1>3. f \in Fetching /\ WritesOK(f.file, f.serving, f.written) /\ partFile # 0
  BY <1>1, <1>2 DEF JobsOK, JobOK, WritesOK
<1>4. dest' = partFile /\ partFile' = 0 /\ fetch' = [fetch EXCEPT ![j].at = "hash"]
  BY <1>3 DEF D!Rename
<1>5. FilesOK'
  BY <1>2, <1>4 DEF FilesOK
<1>6. Whole(inodes[partFile], scheme)
  <2>1. inodes[partFile] \in Seq(Nat) /\ InOrder(inodes[partFile])
    BY <1>3 DEF FilesOK
  <2>2. Len(inodes[partFile]) = Size /\ (scheme # "http" => AllOf(inodes[partFile], f.serving)) /\ f.serving \in Nat
    BY <1>2, <1>3 DEF WritesOK, Fetching
  <2> QED BY <2>1, <2>2 DEF Whole
<1>7. KeptOK'
  <2>1. /\ dest' # 0 => Whole(inodes'[dest'], scheme')
        /\ \A h \in DOMAIN cache : cache[h] # partFile
    BY <1>2, <1>4, <1>6 DEF KeptOK
  <2>2. dest' # 0
    BY <1>3, <1>4
  <2>3. \A h \in DOMAIN cache : cache[h] \in 1..Len(inodes) /\ cache[h] # 0
    BY DEF KeptOK
  <2> QED BY <1>2, <1>4, <2>1, <2>2, <2>3 DEF KeptOK
<1>8. JobsOK'
  <2>1. PICK e : e = [f EXCEPT !.at = "hash"]
    OBVIOUS
  <2>2. e \in Fetching /\ e.at = "hash"
    BY <1>3, <2>1 DEF Fetching
  <2>3. JobOK(e)'
    BY <1>3, <1>4, <2>2 DEF JobOK
  <2>4. fetch' = [fetch EXCEPT ![j] = e]
    BY <1>1, <1>4, <2>1
  <2> QED BY <2>3, <2>4, JobMoves
<1> QED BY <1>5, <1>7, <1>8

LEMMA HashFileKeeps ==
  ASSUME NEW j, Fetchers = {j}, FilesOK, KeptOK, JobsOK, D!HashFile(j)
  PROVE  FilesOK' /\ KeptOK' /\ JobsOK'
<1>1. UNCHANGED mediaFiles /\ fetch[j].at = "hash"
  BY DEF D!HashFile, mediaFiles, D!siteVars
<1>2. FilesOK' /\ KeptOK'
  BY <1>1, FilesStay
<1>3. fetch[j] \in Fetching /\ dest # 0
  BY <1>1 DEF JobsOK, JobOK
<1>4. fetch' = [fetch EXCEPT ![j].at = "move", ![j].hash = inodes[dest]]
  BY <1>3 DEF D!HashFile, D!Content
<1>5. inodes[dest] \in Seq(Nat)
  BY <1>3 DEF KeptOK, Whole
<1>6. PICK e : e = fetch'[j]
  OBVIOUS
<1>7. fetch = [i \in Fetchers |-> fetch[i]]
  BY DEF JobsOK
<1>8. e = [at |-> "move", have |-> fetch[j].have, file |-> fetch[j].file, append |-> fetch[j].append,
           serving |-> fetch[j].serving, written |-> fetch[j].written, hash |-> inodes[dest]]
  BY <1>3, <1>4, <1>6, <1>7 DEF Fetching
<1>9. e \in Fetching /\ e.at = "move" /\ e.hash = inodes[dest]
  BY <1>3, <1>5, <1>8 DEF Fetching
<1>10. JobOK(e)'
  BY <1>1, <1>3, <1>9 DEF JobOK, mediaFiles
<1>11. fetch' = [fetch EXCEPT ![j] = e]
  BY <1>4, <1>6, <1>7
<1> QED BY <1>2, <1>10, <1>11, JobMoves

LEMMA MoveKeeps ==
  ASSUME NEW j, Fetchers = {j}, FilesOK, KeptOK, JobsOK, D!Move(j)
  PROVE  FilesOK' /\ KeptOK' /\ JobsOK'
<1>1. /\ fetch[j].at = "move" /\ UNCHANGED <<scheme, version, inodes, partFile, archive>>
  BY DEF D!Move, D!siteVars
<1>2. PICK h : h = fetch[j].hash
  OBVIOUS
<1>3. fetch[j] \in Fetching /\ dest # 0 /\ h = inodes[dest]
  BY <1>1, <1>2 DEF JobsOK, JobOK
<1>4. /\ dest' = 0 /\ fetch' = [fetch EXCEPT ![j].at = "acquired"]
      /\ cache' = IF h \in DOMAIN cache THEN cache
                  ELSE [g \in DOMAIN cache \cup {h} |-> IF g = h THEN dest ELSE cache[g]]
  BY <1>2, <1>3 DEF D!Move
<1>5. FilesOK'
  BY <1>1, <1>4 DEF FilesOK
<1>6. Whole(h, scheme) /\ dest \in 1..Len(inodes) /\ dest # partFile
  BY <1>3 DEF FilesOK, KeptOK
<1>7. KeptOK'
  <2>1. h \in DOMAIN cache'
    BY <1>4
  <2>2. ASSUME NEW g \in DOMAIN cache'
        PROVE  /\ cache'[g] \in 1..Len(inodes) /\ cache'[g] # partFile
               /\ inodes[cache'[g]] = g /\ Whole(g, scheme)
    <3>1. CASE g \in DOMAIN cache
      <4>1. cache'[g] = cache[g] \/ (g = h /\ cache'[g] = dest)
        BY <1>4, <3>1
      <4> QED BY <1>3, <1>6, <3>1, <4>1 DEF KeptOK
    <3>2. CASE g \notin DOMAIN cache
      <4>1. g = h /\ cache'[g] = dest
        BY <1>4, <2>2, <3>2
      <4> QED BY <1>3, <1>6, <4>1
    <3> QED BY <3>1, <3>2
  <2>3. \A g \in DOMAIN cache' :
          /\ cache'[g] \in 1..Len(inodes') /\ cache'[g] # partFile' /\ cache'[g] # dest'
          /\ inodes'[cache'[g]] = g /\ Whole(g, scheme')
    <3>1. Len(inodes) \in Nat
      BY DEF FilesOK
    <3>2. ASSUME NEW g \in DOMAIN cache'
          PROVE  /\ cache'[g] \in 1..Len(inodes') /\ cache'[g] # partFile' /\ cache'[g] # dest'
                 /\ inodes'[cache'[g]] = g /\ Whole(g, scheme')
      <4>1. PICK k : k = cache'[g]
        OBVIOUS
      <4>2. k \in 1..Len(inodes) /\ k # partFile /\ inodes[k] = g /\ Whole(g, scheme)
        BY <2>2, <3>2, <4>1
      <4>3. k # 0
        BY <3>1, <4>2
      <4>4. UNCHANGED <<inodes, partFile, scheme>> /\ dest' = 0
        BY <1>1, <1>4
      <4>5. k \in 1..Len(inodes') /\ k # partFile' /\ k # dest' /\ inodes'[k] = g /\ Whole(g, scheme')
        BY <4>2, <4>3, <4>4
      <4> QED BY <4>1, <4>5
    <3> QED BY <3>2
  <2>4. dest' = 0
    BY <1>4
  <2>5. DOMAIN cache' # {}
    BY <2>1
  <2> QED BY <2>3, <2>4, <2>5 DEF KeptOK
<1>8. JobsOK'
  <2>1. PICK e : e = [fetch[j] EXCEPT !.at = "acquired"]
    OBVIOUS
  <2>2. e \in Fetching /\ e.at = "acquired"
    BY <1>3, <2>1 DEF Fetching
  <2>3. JobOK(e)'
    BY <2>2 DEF JobOK
  <2>4. fetch' = [fetch EXCEPT ![j] = e]
    BY <1>4, <2>1
  <2> QED BY <2>3, <2>4, JobMoves
<1> QED BY <1>5, <1>7, <1>8

LEMMA ToolEndsKeeps ==
  ASSUME NEW j, Fetchers = {j}, FilesOK, KeptOK, JobsOK, D!ToolEnds(j)
  PROVE  FilesOK' /\ KeptOK' /\ JobsOK'
<1>1. UNCHANGED <<scheme, version, partFile, cache>>
  BY DEF D!ToolEnds
<1>2. CASE archive
  <2>1. UNCHANGED mediaFiles /\ D!To(j, "find") /\ "find" \in Resting
    BY <1>1, <1>2 DEF D!ToolEnds, mediaFiles, Resting
  <2> QED BY <2>1, FilesStay, JobRests
<1>3. CASE ~archive
  <2>1. PICK c : c = [i \in 1..Size |-> version]
    OBVIOUS
  <2>2. D!To(j, "hash") /\ inodes' = Append(inodes, c) /\ dest' = Len(inodes) + 1
    BY <1>3, <2>1 DEF D!ToolEnds, D!ToolDownloads
  <2>3. version \in Nat \ {0} /\ inodes \in Seq(Seq(Nat)) /\ Len(inodes) \in Nat
        /\ partFile \in 0..Len(inodes) /\ dest \in 0..Len(inodes)
    BY DEF FilesOK
  <2>4. c \in Seq(Nat) /\ Len(c) = Size /\ InOrder(c) /\ AllOf(c, version)
    BY <2>1, <2>3, SizeAssumption DEF InOrder, AllOf
  <2>5. Whole(c, scheme)
    BY <2>3, <2>4 DEF Whole
  <2>6. /\ inodes' \in Seq(Seq(Nat)) /\ Len(inodes') = Len(inodes) + 1
        /\ inodes'[Len(inodes) + 1] = c /\ \A i \in 1..Len(inodes) : inodes'[i] = inodes[i]
    <3>1. PICK after : after = inodes'
      OBVIOUS
    <3>2. /\ after \in Seq(Seq(Nat)) /\ Len(after) = Len(inodes) + 1
          /\ after[Len(inodes) + 1] = c /\ \A i \in 1..Len(inodes) : after[i] = inodes[i]
      BY <2>2, <2>3, <2>4, <3>1, FileMade
    <3> QED BY <3>1, <3>2
  <2>7. FilesOK'
    <3>1. partFile # 0 => inodes'[partFile] = inodes[partFile]
      BY <2>3, <2>6
    <3>2. partFile \in 0..Len(inodes') /\ dest' \in 0..Len(inodes') /\ partFile # dest'
      BY <2>2, <2>3, <2>6
    <3> QED BY <1>1, <2>3, <2>6, <3>1, <3>2 DEF FilesOK
  <2>8. KeptOK'
    <3>1. ASSUME NEW h \in DOMAIN cache
          PROVE  /\ cache[h] \in 1..Len(inodes') /\ cache[h] # partFile /\ cache[h] # dest'
                 /\ inodes'[cache[h]] = h /\ Whole(h, scheme)
      BY <2>2, <2>3, <2>6, <3>1 DEF KeptOK
    <3>2. dest' # 0 /\ Whole(inodes'[dest'], scheme)
      BY <2>2, <2>3, <2>5, <2>6
    <3> QED BY <1>1, <3>1, <3>2 DEF KeptOK
  <2>9. JobsOK'
    <3>1. "hash" \in Resting /\ dest' # 0
      BY <2>2, <2>3 DEF Resting
    <3> QED BY <2>2, <3>1, JobRests
  <2> QED BY <2>7, <2>8, <2>9
<1> QED BY <1>2, <1>3

LEMMA CrashKeeps ==
  ASSUME FilesOK, KeptOK, JobsOK, D!Crash
  PROVE  FilesOK' /\ KeptOK' /\ JobsOK'
<1>1. UNCHANGED mediaFiles /\ fetch' = [i \in Fetchers |-> D!Idle]
  BY DEF D!Crash, mediaFiles
<1>2. JobOK(D!Idle)'
  BY IdleIs DEF JobOK
<1>3. JobsOK'
  BY <1>1, <1>2 DEF JobsOK
<1> QED BY <1>1, <1>3, FilesStay

LEMMA ReplaceKeeps ==
  ASSUME FilesOK, KeptOK, JobsOK, D!Replace
  PROVE  FilesOK' /\ KeptOK' /\ JobsOK'
<1>1. version' = version + 1 /\ UNCHANGED <<scheme, inodes, partFile, dest, cache, archive, fetch>>
  BY DEF D!Replace, D!siteVars
<1>2. version \in Nat \ {0} /\ version' \in Nat \ {0}
  BY <1>1 DEF FilesOK
<1>3. partFile # 0 => UpTo(inodes[partFile], version')
  <2>1. ASSUME partFile # 0 PROVE \A k \in 1..Len(inodes[partFile]) : inodes[partFile][k] \in Nat
    BY <2>1 DEF FilesOK
  <2> QED BY <1>1, <1>2, <2>1 DEF FilesOK, UpTo
<1>4. FilesOK' /\ KeptOK'
  BY <1>1, <1>2, <1>3 DEF FilesOK, KeptOK
<1>5. ASSUME NEW i \in Fetchers PROVE JobOK(fetch[i])'
  <2>1. PICK f : f = fetch[i]
    OBVIOUS
  <2>2. JobOK(f)
    BY <2>1 DEF JobsOK
  <2>3. WritesOK(f.file, f.serving, f.written) => WritesOK(f.file, f.serving, f.written)'
    BY <1>1, <1>2 DEF WritesOK
  <2>4. JobOK(f)'
    BY <1>1, <2>2, <2>3 DEF JobOK, D!Content
  <2> QED BY <1>1, <2>1, <2>4
<1> QED BY <1>1, <1>4, <1>5 DEF JobsOK

LEMMA DownloadIsKept ==
  ASSUME NEW j, Fetchers = {j}
  PROVE  DownloadInv /\ [D!Next]_downloadVars => DownloadInv'
<1> SUFFICES ASSUME DownloadInv, [D!Next]_downloadVars, stray' = "never" PROVE FilesOK' /\ KeptOK' /\ JobsOK'
  BY DEF DownloadInv
<1>1. stray = "never"
  BY DEF D!Next, downloadVars, D!Start, D!Refuse, D!NotSatisfiable, D!Resume, D!Create, D!Write, D!Cut, D!Rename, D!HashFile, D!Move,
         D!Retry, D!StartSite, D!ToolEnds, D!ToolFails, D!FindById, D!Crash, D!StrayEnds, D!Replace, D!siteVars
<1>2. FilesOK /\ KeptOK /\ JobsOK
  BY <1>1 DEF DownloadInv
<1>3. CASE UNCHANGED downloadVars
  BY <1>2, <1>3 DEF downloadVars, FilesOK, KeptOK, JobsOK, JobOK, WritesOK, D!Content
<1>4. CASE D!StrayEnds
  BY <1>1, <1>4 DEF D!StrayEnds
<1> QED BY <1>2, <1>3, <1>4, StartKeeps, RefuseKeeps, NotSatisfiableKeeps, ResumeKeeps, CreateKeeps,
           WriteKeeps, CutKeeps, RenameKeeps, HashFileKeeps, MoveKeeps, StartSiteKeeps, ToolEndsKeeps,
           CrashKeeps, ReplaceKeeps DEF D!Next

LEMMA DownloadHolds == ASSUME DownloadInv PROVE D!CachedMediaIsWhole
<1> SUFFICES ASSUME stray = "never" PROVE
      /\ \A h \in DOMAIN cache :
           /\ inodes[cache[h]] = h
           /\ Len(h) = Size
           /\ \A i \in 1..Size : h[i] > 0 /\ (i < Size => h[i] <= h[i + 1])
           /\ scheme # "http" => \A i \in 1..Size : h[i] = h[1]
      /\ archive => dest # 0 \/ DOMAIN cache # {}
  BY DEF D!CachedMediaIsWhole
<1>1. KeptOK
  BY DEF DownloadInv
<1>2. ASSUME NEW h \in DOMAIN cache
      PROVE  /\ inodes[cache[h]] = h /\ Len(h) = Size
             /\ \A i \in 1..Size : h[i] > 0 /\ (i < Size => h[i] <= h[i + 1])
             /\ scheme # "http" => \A i \in 1..Size : h[i] = h[1]
  <2>1. inodes[cache[h]] = h /\ Whole(h, scheme)
    BY <1>1, <1>2 DEF KeptOK
  <2>2. 1 \in 1..Size
    BY SizeAssumption
  <2> QED BY <2>1, <2>2 DEF Whole, InOrder, AllOf
<1> QED BY <1>1, <1>2 DEF KeptOK

LEMMA DownloadMoves == [Next]_vars => [D!Next]_downloadVars
BY DEF Next, CallsSteps, ChatSteps, SseSteps, IndexesSteps, JobsSteps, QuotaSteps,
       BudgetSteps, DownloadSteps, ShotsSteps, vars, downloadVars

(* However often the one job of a URL is cut short, fails, or dies with    *)
(* the process, and whatever its next attempt finds in incoming/: a file   *)
(* of the cache is the media, chunk for chunk, under the hash of its       *)
(* content (Http::download, Http::acquire, ObjectStore::download,          *)
(* LocalFile::acquire, YtDlp::acquire).                                    *)
THEOREM OneJobDownloadsWhole ==
  ASSUME NEW j, Fetchers = {j}
  PROVE  Spec => []CachedMediaIsWhole
<1>1. Init => DownloadInv
  BY DownloadBegins DEF Init
<1>2. DownloadInv /\ [Next]_vars => DownloadInv'
  BY DownloadMoves, DownloadIsKept
<1>3. DownloadInv => CachedMediaIsWhole
  BY DownloadHolds DEF CachedMediaIsWhole
<1>4. QED
  BY <1>1, <1>2, <1>3, PTL DEF Spec

-----------------------------------------------------------------------------
(* Shots.  Samples come in time order and cuts are places among them, so   *)
(* that the shot between two cuts never changes again; a row is behind the *)
(* samples by its end alone, and only the last row may be.  What was sent  *)
(* while the job ran are rows before the last.                             *)
Growing(s) == \A i, j \in DOMAIN s : i < j => s[i] < s[j]

Sampled(ss, cs) ==
  /\ ss \in Seq(Nat) /\ Growing(ss)
  /\ cs \in Seq(Nat) /\ Growing(cs)
  /\ \A i \in DOMAIN cs : 1 <= cs[i] /\ cs[i] + 1 <= Len(ss)

(* The time at which shot i starts. *)
StartOf(ss, cs, i) == ss[(<<0>> \o cs)[i] + 1]

ShotRows == [t0 : Nat, t1 : Nat, key : Nat]

FollowsAt(rows, from, ss, cs, i) ==
  /\ rows[i].t0 = IF i = 1 THEN from ELSE StartOf(ss, cs, i)
  /\ rows[i].key = (<<0>> \o cs)[i] + 1
  /\ rows[i].t0 < rows[i].t1
  /\ i < Len(rows) => rows[i].t1 = StartOf(ss, cs, i + 1)

Follows(rows, from, ss, cs) ==
  /\ rows \in Seq(ShotRows) /\ Len(rows) <= Len(cs) + 1
  /\ \A i \in DOMAIN rows : FollowsAt(rows, from, ss, cs, i)

(* The rows end where the samples do, or later. *)
EndsWith(rows, ss, cs) ==
  /\ Len(rows) >= Len(cs)
  /\ \A i \in DOMAIN cs : rows[i].t1 = StartOf(ss, cs, i + 1)
  /\ rows # <<>> => rows[Len(rows)].t1 >= ss[Len(ss)]

Emissions == [id : Nat, t0 : Nat, t1 : Nat]

SentAs(es, rows) ==
  /\ es \in Seq(Emissions)
  /\ \A i \in DOMAIN es : i \in DOMAIN rows /\ es[i] = V!Row(i, rows)

RunningShots ==
  IF ticked
  THEN samples # <<>> /\ Follows(shots, samples[1], samples, cuts)
       /\ (emitted = <<>> \/ Len(emitted) < Len(shots))
  ELSE shots = <<>> /\ emitted = <<>>

FinishedShots ==
  /\ \E from \in Nat : Follows(shots, from, samples, cuts)
  /\ Len(emitted) = Len(shots)
  /\ samples = <<>> \/ EndsWith(shots, samples, cuts)
  /\ samples = <<>> => shots = <<>>

ShotsInv ==
  /\ Sampled(samples, cuts)
  /\ tip \in Nat
  /\ stage \in {"running", "finished", "replayed"}
  /\ SentAs(emitted, shots)
  /\ stage = "running" => RunningShots
  /\ stage # "running" => FinishedShots
  /\ stage = "replayed" => replayed = emitted

(* Where the shots start. *)
LEMMA StartsOf ==
  ASSUME NEW ss, NEW cs, Sampled(ss, cs), ss # <<>>
  PROVE  /\ Len(ss) \in Nat /\ Len(ss) >= 1 /\ Len(cs) \in Nat
         /\ Len(<<0>> \o cs) = Len(cs) + 1
         /\ \A i \in 1..(Len(cs) + 1) :
              /\ (<<0>> \o cs)[i] = IF i = 1 THEN 0 ELSE cs[i - 1]
              /\ (<<0>> \o cs)[i] \in Nat
              /\ (<<0>> \o cs)[i] + 1 \in 1..Len(ss)
              /\ StartOf(ss, cs, i) \in Nat
              /\ StartOf(ss, cs, i) <= ss[Len(ss)]
              /\ ss[1] <= StartOf(ss, cs, i)
              /\ i <= Len(cs) => StartOf(ss, cs, i) < StartOf(ss, cs, i + 1)
         /\ StartOf(ss, cs, 1) = ss[1]
         /\ \A i \in DOMAIN cs : StartOf(ss, cs, i + 1) = ss[cs[i] + 1]
<1>1. ss \in Seq(Nat) /\ cs \in Seq(Nat) /\ Growing(ss) /\ Growing(cs)
  BY DEF Sampled
<1>2. Len(ss) \in Nat /\ Len(ss) >= 1 /\ Len(cs) \in Nat /\ DOMAIN ss = 1..Len(ss) /\ DOMAIN cs = 1..Len(cs)
  BY <1>1
<1>3. Len(<<0>> \o cs) = Len(cs) + 1
  BY <1>1
<1>4. ASSUME NEW i \in 1..(Len(cs) + 1)
      PROVE  (<<0>> \o cs)[i] = IF i = 1 THEN 0 ELSE cs[i - 1]
  BY <1>1, <1>2
<1> DEFINE st == <<0>> \o cs
<1>5. \A i \in 1..(Len(cs) + 1) : st[i] = IF i = 1 THEN 0 ELSE cs[i - 1]
  BY <1>4
<1> HIDE DEF st
<1>6. \A i \in 1..(Len(cs) + 1) : i # 1 => i - 1 \in DOMAIN cs
  BY <1>2
<1>7. \A i \in DOMAIN cs : cs[i] \in Nat /\ 1 <= cs[i] /\ cs[i] + 1 <= Len(ss)
  BY <1>1, <1>2 DEF Sampled
<1>8. \A i \in 1..(Len(cs) + 1) : st[i] \in Nat /\ st[i] + 1 \in 1..Len(ss)
  BY <1>2, <1>5, <1>6, <1>7
<1>9. \A i \in 1..(Len(cs) + 1) : i <= Len(cs) => i + 1 \in 1..(Len(cs) + 1) /\ st[i] < st[i + 1]
  <2> SUFFICES ASSUME NEW i \in 1..(Len(cs) + 1), i <= Len(cs)
               PROVE  i + 1 \in 1..(Len(cs) + 1) /\ st[i] < st[i + 1]
    OBVIOUS
  <2>1. i + 1 \in 1..(Len(cs) + 1) /\ i \in DOMAIN cs /\ i + 1 # 1 /\ (i + 1) - 1 = i
    BY <1>2
  <2>2. st[i + 1] = cs[i]
    BY <1>5, <2>1
  <2>3. CASE i = 1
    BY <1>5, <1>7, <2>1, <2>2, <2>3
  <2>4. CASE i # 1
    <3>1. i - 1 \in DOMAIN cs /\ i - 1 < i
      BY <1>2, <2>4
    <3>2. cs[i - 1] < cs[i]
      BY <1>1, <2>1, <3>1 DEF Growing
    <3> QED BY <1>5, <2>1, <2>2, <2>4, <3>2
  <2> QED BY <2>3, <2>4
<1>10. \A k \in 1..Len(ss) : ss[k] \in Nat
  BY <1>1, <1>2
<1>11. \A k, m \in 1..Len(ss) : k < m => ss[k] < ss[m]
  BY <1>1, <1>2 DEF Growing
<1>12. \A k \in 1..Len(ss) : ss[k] <= ss[Len(ss)] /\ ss[1] <= ss[k]
  <2> SUFFICES ASSUME NEW k \in 1..Len(ss) PROVE ss[k] <= ss[Len(ss)] /\ ss[1] <= ss[k]
    OBVIOUS
  <2>0. k \in Nat /\ 1 <= k /\ k <= Len(ss) /\ Len(ss) \in Nat
    BY <1>2
  <2>1. 1 \in 1..Len(ss) /\ Len(ss) \in 1..Len(ss)
    BY <1>2
  <2>2. ss[k] \in Nat /\ ss[1] \in Nat /\ ss[Len(ss)] \in Nat
    BY <1>10, <2>1
  <2>3. k = Len(ss) \/ k < Len(ss)
    BY <2>0
  <2>4. k = 1 \/ 1 < k
    BY <2>0
  <2>5. ss[k] <= ss[Len(ss)]
    BY <1>11, <2>1, <2>2, <2>3
  <2>6. ss[1] <= ss[k]
    BY <1>11, <2>1, <2>2, <2>4
  <2> QED BY <2>5, <2>6
<1>13. \A i \in 1..(Len(cs) + 1) : StartOf(ss, cs, i) = ss[st[i] + 1]
  BY DEF StartOf, st
<1>14. ASSUME NEW i \in 1..(Len(cs) + 1)
       PROVE  /\ StartOf(ss, cs, i) \in Nat
              /\ StartOf(ss, cs, i) <= ss[Len(ss)]
              /\ ss[1] <= StartOf(ss, cs, i)
              /\ i <= Len(cs) => StartOf(ss, cs, i) < StartOf(ss, cs, i + 1)
  <2>1. st[i] + 1 \in 1..Len(ss) /\ StartOf(ss, cs, i) = ss[st[i] + 1]
    BY <1>8, <1>13
  <2>2. ASSUME i <= Len(cs) PROVE StartOf(ss, cs, i) < StartOf(ss, cs, i + 1)
    <3>1. i + 1 \in 1..(Len(cs) + 1) /\ st[i] < st[i + 1]
      BY <1>9, <2>2
    <3>2. st[i] \in Nat /\ st[i + 1] \in Nat /\ st[i + 1] + 1 \in 1..Len(ss)
      BY <1>8, <3>1
    <3>3. st[i] + 1 < st[i + 1] + 1
      BY <3>1, <3>2
    <3>4. StartOf(ss, cs, i + 1) = ss[st[i + 1] + 1]
      BY <1>13, <3>1
    <3> QED BY <1>11, <2>1, <3>2, <3>3, <3>4
  <2>3. /\ StartOf(ss, cs, i) \in Nat
        /\ StartOf(ss, cs, i) <= ss[Len(ss)]
        /\ ss[1] <= StartOf(ss, cs, i)
    BY <1>10, <1>12, <2>1
  <2> QED BY <2>2, <2>3
<1>15. StartOf(ss, cs, 1) = ss[1]
  <2>1. 1 \in 1..(Len(cs) + 1) /\ st[1] = 0
    BY <1>2, <1>5
  <2> QED BY <1>13, <2>1
<1>16. \A i \in DOMAIN cs : StartOf(ss, cs, i + 1) = ss[cs[i] + 1]
  <2> TAKE i \in DOMAIN cs
  <2>1. i + 1 \in 1..(Len(cs) + 1) /\ i + 1 # 1 /\ (i + 1) - 1 = i
    BY <1>2
  <2>2. st[i + 1] = cs[i]
    BY <1>5, <2>1
  <2> QED BY <1>13, <2>1, <2>2
<1> QED BY <1>2, <1>3, <1>4, <1>8, <1>14, <1>15, <1>16 DEF st

(* A row follows the shots when its fields do. *)
LEMMA RowsAre ==
  ASSUME NEW rows \in Seq(ShotRows), NEW i \in DOMAIN rows
  PROVE  /\ i \in Nat /\ 1 <= i /\ i <= Len(rows)
         /\ rows[i] = [t0 |-> rows[i].t0, t1 |-> rows[i].t1, key |-> rows[i].key]
         /\ rows[i].t0 \in Nat /\ rows[i].t1 \in Nat /\ rows[i].key \in Nat
<1>1. DOMAIN rows = 1..Len(rows) /\ Len(rows) \in Nat
  OBVIOUS
<1>2. rows[i] \in ShotRows
  OBVIOUS
<1> QED BY <1>1, <1>2 DEF ShotRows

(* One shot written over rows that follow the shots and have the ends of   *)
(* all the shots before it.                                                *)
Before(rows, ss, cs, k) ==
  Len(rows) >= k /\ \A i \in 1..k : rows[i].t1 = StartOf(ss, cs, i + 1)

LEMMA PutKeeps ==
  ASSUME Sampled(samples, cuts), samples # <<>>,
         NEW from \in Nat, from <= samples[1], NEW end \in Nat,
         NEW rows, Follows(rows, from, samples, cuts),
         NEW k \in 1..(Len(cuts) + 1), Before(rows, samples, cuts, k - 1),
         NEW new, new = V!Put(rows, k, V!Shot(k, from, end))
  PROVE  /\ Follows(new, from, samples, cuts)
         /\ Len(new) >= Len(rows)
         /\ k <= Len(cuts) => Before(new, samples, cuts, k)
         /\ k = Len(cuts) + 1 => EndsWith(new, samples, cuts)
<1> DEFINE n == Len(cuts) + 1
           last == samples[Len(samples)]
           t0 == IF k = 1 THEN from ELSE StartOf(samples, cuts, k)
           t1 == IF k < n THEN StartOf(samples, cuts, k + 1) ELSE V!Most(end, last)
           key == (<<0>> \o cuts)[k] + 1
           s == [t0 |-> t0, t1 |-> t1, key |-> key]
<1>1. /\ Len(samples) \in Nat /\ Len(samples) >= 1 /\ Len(cuts) \in Nat
      /\ Len(<<0>> \o cuts) = Len(cuts) + 1
      /\ \A i \in 1..n : /\ StartOf(samples, cuts, i) \in Nat
                         /\ StartOf(samples, cuts, i) <= last
                         /\ samples[1] <= StartOf(samples, cuts, i)
                         /\ i <= Len(cuts) => StartOf(samples, cuts, i) < StartOf(samples, cuts, i + 1)
                         /\ (<<0>> \o cuts)[i] \in Nat
      /\ StartOf(samples, cuts, 1) = samples[1]
  BY StartsOf
<1>2. samples \in Seq(Nat) /\ last \in Nat /\ samples[1] \in Nat
  BY <1>1 DEF Sampled
<1>3. V!Shot(k, from, end) = s
  <2>1. V!Last(samples) = last
    BY DEF V!Last
  <2> QED BY <1>1, <2>1 DEF V!Shot, V!At, V!Starts, StartOf
<1>4. k \in Nat /\ 1 <= k /\ k <= n /\ n \in Nat /\ Len(cuts) = n - 1
  BY <1>1
<1>5. t0 \in Nat /\ t1 \in Nat /\ key \in Nat
  <2>1. k \in 1..n /\ (k < n => k + 1 \in 1..n)
    BY <1>4
  <2>2. V!Most(end, last) \in Nat
    BY <1>2 DEF V!Most
  <2>3. (<<0>> \o cuts)[k] \in Nat /\ StartOf(samples, cuts, k) \in Nat
    BY <1>1, <2>1
  <2>4. k < n => StartOf(samples, cuts, k + 1) \in Nat
    BY <1>1, <2>1
  <2>5. key \in Nat
    BY <2>3
  <2>6. t0 \in Nat
    BY <2>3
  <2>7. t1 \in Nat
    BY <2>2, <2>4
  <2> QED BY <2>5, <2>6, <2>7
<1>6. t0 <= last
  BY <1>1, <1>2, <1>4
<1>7. t0 <= StartOf(samples, cuts, k)
  BY <1>1, <1>2, <1>4
<1>8. k < n => t1 = StartOf(samples, cuts, k + 1) /\ t0 < t1
  BY <1>1, <1>4, <1>5, <1>7
<1>9. k = n => t1 >= last
  BY <1>2 DEF V!Most
<1>10. s.t0 = t0 /\ s.t1 = t1 /\ s.key = key /\ s \in ShotRows
  BY <1>5 DEF ShotRows
<1>11. k # 1 => t0 = StartOf(samples, cuts, k)
  OBVIOUS
<1>12. k = 1 => t0 = from
  OBVIOUS
<1>13. /\ rows \in Seq(ShotRows) /\ Len(rows) \in Nat /\ Len(rows) <= n /\ DOMAIN rows = 1..Len(rows)
       /\ \A i \in 1..Len(rows) : FollowsAt(rows, from, samples, cuts, i)
  BY DEF Follows
<1>14. Len(rows) >= k - 1 /\ \A i \in 1..(k - 1) : rows[i].t1 = StartOf(samples, cuts, i + 1)
  BY DEF Before
<1>15. \A i \in 1..Len(rows) : rows[i].t0 \in Nat /\ rows[i].t1 \in Nat /\ rows[i].key \in Nat
  BY <1>13, RowsAre
<1> HIDE DEF n, last, t0, t1, key, s
<1>16. CASE t1 <= t0
  <2>1. new = rows
    BY <1>3, <1>10, <1>16 DEF V!Put
  <2>2. k = n
    BY <1>4, <1>5, <1>8, <1>16
  <2>3. t0 = last
    BY <1>2, <1>5, <1>6, <1>9, <1>16, <2>2
  <2>4. EndsWith(rows, samples, cuts)
    <3>1. Len(rows) >= Len(cuts)
      BY <1>4, <1>14, <2>2
    <3>2. \A i \in DOMAIN cuts : rows[i].t1 = StartOf(samples, cuts, i + 1)
      <4>1. DOMAIN cuts = 1..(k - 1)
        BY <1>1, <1>4, <2>2 DEF Sampled
      <4> QED BY <1>14, <4>1
    <3>3. ASSUME rows # <<>> PROVE rows[Len(rows)].t1 >= last
      <4>1. Len(rows) \in 1..Len(rows)
        BY <1>13, <3>3
      <4>2. FollowsAt(rows, from, samples, cuts, Len(rows))
        BY <1>13, <4>1
      <4>3. CASE Len(rows) = n
        <5>1. rows[n].t0 = t0
          BY <4>2, <4>3, <1>11, <1>12, <2>2 DEF FollowsAt
        <5>2. rows[n].t0 < rows[n].t1
          BY <4>2, <4>3 DEF FollowsAt
        <5> QED BY <1>2, <1>15, <2>3, <4>1, <4>3, <5>1, <5>2
      <4>4. CASE Len(rows) # n
        <5>0. Len(rows) \in Nat /\ Len(rows) <= n /\ Len(rows) >= k - 1 /\ Len(rows) >= 1
          BY <1>13, <1>14, <4>1
        <5>1. Len(rows) = k - 1 /\ k # 1 /\ k - 1 \in 1..(k - 1) /\ (k - 1) + 1 = k
          BY <1>4, <2>2, <4>4, <5>0
        <5>2. rows[k - 1].t1 = StartOf(samples, cuts, k)
          BY <1>14, <5>1
        <5> QED BY <1>2, <1>11, <2>3, <5>1, <5>2
      <4> QED BY <4>3, <4>4
    <3> QED BY <3>1, <3>2, <3>3 DEF EndsWith, last
  <2> QED BY <1>4, <1>13, <2>1, <2>2, <2>4 DEF n
<1>17. CASE t1 > t0
  <2>1. new = IF k \in DOMAIN rows THEN [rows EXCEPT ![k].t1 = t1] ELSE Append(rows, s)
    BY <1>3, <1>5, <1>10, <1>17 DEF V!Put
  <2>2. /\ new \in Seq(ShotRows) /\ Len(new) <= n /\ Len(new) >= k /\ Len(new) >= Len(rows)
        /\ Len(new) # Len(rows) => Len(new) = k
        /\ Len(new) \in Nat
        /\ new[k].t0 = t0 /\ new[k].t1 = t1 /\ new[k].key = key
        /\ \A i \in 1..Len(new) : i # k => i \in 1..Len(rows) /\ new[i] = rows[i]
    <3>1. CASE k \in DOMAIN rows
      <4>1. new = [rows EXCEPT ![k].t1 = t1]
        BY <2>1, <3>1
      <4>2. [rows[k] EXCEPT !.t1 = t1] \in ShotRows /\ [rows[k] EXCEPT !.t1 = t1].t0 = rows[k].t0
            /\ [rows[k] EXCEPT !.t1 = t1].key = rows[k].key /\ [rows[k] EXCEPT !.t1 = t1].t1 = t1
        <5>1. rows[k] \in ShotRows
          BY <1>13, <3>1
        <5> QED BY <1>5, <5>1 DEF ShotRows
      <4>3. new[k] = [rows[k] EXCEPT !.t1 = t1]
        BY <3>1, <4>1
      <4>4. \A i \in 1..Len(rows) : i # k => new[i] = rows[i]
        BY <1>13, <4>1
      <4>5. new \in Seq(ShotRows) /\ Len(new) = Len(rows)
        <5>1. \A i \in 1..Len(rows) : rows[i] \in ShotRows
          BY <1>13
        <5>2. DOMAIN new = 1..Len(rows) /\ new = [i \in 1..Len(rows) |-> new[i]]
          BY <1>13, <4>1
        <5>3. \A i \in 1..Len(rows) : new[i] \in ShotRows
          BY <4>2, <4>3, <4>4, <5>1
        <5>4. new \in [1..Len(rows) -> ShotRows]
          BY <5>2, <5>3
        <5> QED BY <1>13, <5>4
      <4>6. FollowsAt(rows, from, samples, cuts, k)
        BY <1>13, <3>1
      <4>7. rows[k].t0 = t0 /\ rows[k].key = key
        BY <4>6, <1>11, <1>12 DEF FollowsAt, key
      <4> QED BY <1>13, <3>1, <4>2, <4>3, <4>4, <4>5, <4>7
    <3>2. CASE k \notin DOMAIN rows
      <4>1. new = Append(rows, s) /\ Len(rows) = k - 1
        <5>1. new = Append(rows, s)
          BY <2>1, <3>2
        <5>2. ~(k <= Len(rows))
          BY <1>4, <1>13, <3>2
        <5>3. Len(rows) >= k - 1
          BY <1>14
        <5> QED BY <1>4, <1>13, <5>1, <5>2, <5>3
      <4>2. new \in Seq(ShotRows) /\ Len(new) = k
        BY <1>4, <1>10, <1>13, <4>1
      <4>3. new[k] = s
        BY <1>4, <1>10, <1>13, <4>1
      <4>4. \A i \in 1..k : i # k => i \in 1..Len(rows)
        BY <1>4, <4>1
      <4>5. \A i \in 1..Len(rows) : new[i] = rows[i]
        BY <1>10, <1>13, <4>1
      <4> QED BY <1>4, <1>10, <4>1, <4>2, <4>3, <4>4, <4>5
    <3> QED BY <3>1, <3>2
  <2>3. Follows(new, from, samples, cuts)
    <3>1. DOMAIN new = 1..Len(new)
      BY <2>2
    <3>2. FollowsAt(new, from, samples, cuts, k)
      <4>1. ASSUME k < Len(new) PROVE new[k].t1 = StartOf(samples, cuts, k + 1)
        <5>1. k < n
          BY <1>4, <2>2, <4>1
        <5> QED BY <1>8, <2>2, <5>1
      <4>2. new[k].t0 < new[k].t1
        BY <1>17, <2>2, <1>5
      <4>3. new[k].t0 = IF k = 1 THEN from ELSE StartOf(samples, cuts, k)
        BY <1>11, <1>12, <2>2
      <4> QED BY <2>2, <4>1, <4>2, <4>3 DEF FollowsAt, key
    <3>3. ASSUME NEW i \in 1..Len(new), i # k PROVE FollowsAt(new, from, samples, cuts, i)
      <4>1. i \in 1..Len(rows) /\ new[i] = rows[i]
        BY <2>2, <3>3
      <4>2. FollowsAt(rows, from, samples, cuts, i)
        BY <1>13, <4>1
      <4>3. ASSUME i < Len(new) PROVE new[i].t1 = StartOf(samples, cuts, i + 1)
        <5>1. CASE i < Len(rows)
          BY <4>1, <4>2, <5>1 DEF FollowsAt
        <5>2. CASE ~(i < Len(rows))
          <6>1. Len(new) = k /\ i \in 1..(k - 1)
            BY <1>4, <1>13, <2>2, <3>3, <4>1, <4>3, <5>2
          <6> QED BY <1>14, <4>1, <6>1
        <5> QED BY <5>1, <5>2
      <4> QED BY <4>1, <4>2, <4>3 DEF FollowsAt
    <3>4. Len(new) <= Len(cuts) + 1
      BY <2>2 DEF n
    <3> QED BY <2>2, <3>1, <3>2, <3>3, <3>4 DEF Follows
  <2>4. \A i \in 1..(k - 1) : new[i].t1 = StartOf(samples, cuts, i + 1)
    <3>1. \A i \in 1..(k - 1) : i \in 1..Len(new) /\ i # k
      BY <1>4, <2>2
    <3> QED BY <1>14, <2>2, <3>1
  <2>5. ASSUME k <= Len(cuts) PROVE Before(new, samples, cuts, k)
    <3>1. k < n
      BY <1>4, <2>5
    <3>2. new[k].t1 = StartOf(samples, cuts, k + 1)
      BY <1>8, <2>2, <3>1
    <3>3. \A i \in 1..k : i = k \/ i \in 1..(k - 1)
      BY <1>4
    <3> QED BY <2>2, <2>4, <3>2, <3>3 DEF Before
  <2>6. ASSUME k = Len(cuts) + 1 PROVE EndsWith(new, samples, cuts)
    <3>1. k = n
      BY <2>6 DEF n
    <3>2. DOMAIN cuts = 1..(k - 1)
      BY <1>1, <1>4, <3>1 DEF Sampled
    <3>3. Len(new) = k /\ Len(new) >= Len(cuts)
      BY <1>4, <2>2, <3>1
    <3>4. new[Len(new)].t1 >= last
      BY <1>9, <2>2, <3>1, <3>3
    <3> QED BY <2>4, <3>2, <3>3, <3>4 DEF EndsWith, last
  <2> QED BY <2>2, <2>3, <2>5, <2>6
<1> QED BY <1>5, <1>16, <1>17

(* The loop that writes the shots, round by round. *)
LEMMA PuttingIs ==
  ASSUME NEW rows, NEW from, NEW end, NEW n \in Nat, Len(V!Starts) = n
  PROVE  /\ V!Putting(rows, from, end)[0] = rows
         /\ \A k \in 1..n : V!Putting(rows, from, end)[k]
                              = V!Put(V!Putting(rows, from, end)[k - 1], k, V!Shot(k, from, end))
<1> DEFINE rule(f, k) == IF k = 0 THEN rows ELSE V!Put(f[k - 1], k, V!Shot(k, from, end))
           Up(m) == \E f : f = [k \in 0..m |-> rule(f, k)]
           missing == {m \in 0..n : ~Up(m)}
<1>1. missing = {}
  <2> SUFFICES ASSUME missing # {} PROVE FALSE
    OBVIOUS
  <2>1. missing \in SUBSET Nat
    OBVIOUS
  <2>2. PICK m \in missing : \A k \in missing : m <= k
    BY <2>1, LeastNat
  <2>3. m \in 0..n /\ ~Up(m)
    BY <2>2
  <2>4. CASE m = 0
    <3>1. [k \in 0..0 |-> rows] = [k \in 0..0 |-> rule([i \in 0..0 |-> rows], k)]
      BY DEF rule
    <3>2. Up(0)
      BY <3>1
    <3> QED BY <2>3, <2>4, <3>2
  <2>5. CASE m # 0
    <3>1. m - 1 \in 0..n /\ m \in Nat /\ m - 1 \in Nat /\ ~(m <= m - 1)
      BY <2>3, <2>5
    <3>2. Up(m - 1)
      BY <2>2, <3>1
    <3>3. PICK f : f = [k \in 0..(m - 1) |-> rule(f, k)]
      BY <3>2
    <3> DEFINE g == [k \in 0..m |-> IF k = m THEN rule(f, m) ELSE f[k]]
    <3> HIDE DEF rule
    <3>4. \A k \in 0..m : k # 0 => k - 1 \in 0..m /\ k - 1 # m
      BY <3>1
    <3>5. \A k \in 0..m : g[k] = IF k = m THEN rule(f, m) ELSE f[k]
      OBVIOUS
    <3>6. \A k \in 0..m : k # m => k \in 0..(m - 1)
      BY <3>1
    <3>7. \A k \in 0..m : g[k] = rule(f, k)
      BY <3>3, <3>5, <3>6
    <3>8. \A k \in 0..m : k # 0 => g[k - 1] = f[k - 1]
      BY <3>4, <3>5
    <3>9. \A k \in 0..m : rule(g, k) = rule(f, k)
      BY <3>8 DEF rule
    <3>10. g = [k \in 0..m |-> rule(g, k)]
      <4>1. g = [k \in 0..m |-> g[k]]
        OBVIOUS
      <4> HIDE DEF g
      <4>2. \A k \in 0..m : g[k] = rule(g, k)
        BY <3>7, <3>9
      <4> QED BY <4>1, <4>2
    <3>11. Up(m)
      BY <3>10
    <3> QED BY <2>3, <3>11
  <2> QED BY <2>4, <2>5
<1>2. Up(n)
  BY <1>1
<1>3. V!Putting(rows, from, end) = CHOOSE f : f = [k \in 0..n |-> rule(f, k)]
  BY DEF V!Putting, rule
<1>4. V!Putting(rows, from, end) = [k \in 0..n |-> rule(V!Putting(rows, from, end), k)]
  <2> HIDE DEF rule
  <2> QED BY <1>2, <1>3
<1>5. \A k \in 0..n : V!Putting(rows, from, end)[k] = rule(V!Putting(rows, from, end), k)
  <2> HIDE DEF rule
  <2> QED BY <1>4
<1> QED BY <1>5 DEF rule

(* What is written follows the shots, ends with the samples and has every  *)
(* row there was; and no row before the last changes.                      *)
LEMMA WritingFollows ==
  ASSUME Sampled(samples, cuts), samples # <<>>,
         NEW from \in Nat, from <= samples[1], NEW end \in Nat,
         NEW rows, Follows(rows, from, samples, cuts)
  PROVE  /\ Follows(V!Written(rows, from, end), from, samples, cuts)
         /\ EndsWith(V!Written(rows, from, end), samples, cuts)
         /\ Len(V!Written(rows, from, end)) >= Len(rows)
<1> DEFINE n == Len(cuts) + 1
           put == V!Putting(rows, from, end)
           Kept(k) == /\ Follows(put[k], from, samples, cuts)
                      /\ Len(put[k]) >= Len(rows)
                      /\ k < n => Before(put[k], samples, cuts, k)
                      /\ k = n => EndsWith(put[k], samples, cuts)
           lost == {k \in 0..n : ~Kept(k)}
<1>1. n \in Nat /\ n >= 1 /\ Len(V!Starts) = n /\ Len(cuts) = n - 1
  BY StartsOf DEF V!Starts
<1>2. put[0] = rows /\ \A k \in 1..n : put[k] = V!Put(put[k - 1], k, V!Shot(k, from, end))
  BY <1>1, PuttingIs
<1> HIDE DEF put
<1>3. Kept(0)
  <2>1. Before(rows, samples, cuts, 0)
    <3>1. Len(rows) >= 0
      BY DEF Follows
    <3> QED BY <3>1 DEF Before
  <2>2. Len(rows) >= Len(rows)
    BY DEF Follows
  <2> QED BY <1>1, <1>2, <2>1, <2>2
<1>4. lost = {}
  <2> SUFFICES ASSUME lost # {} PROVE FALSE
    OBVIOUS
  <2>1. lost \in SUBSET Nat
    BY <1>1
  <2>2. PICK k \in lost : \A m \in lost : k <= m
    BY <2>1, LeastNat
  <2>3. k \in 0..n /\ ~Kept(k)
    BY <2>2
  <2>4. k # 0
    <3> HIDE DEF Kept
    <3> QED BY <1>3, <2>3
  <2>5. k \in 1..n /\ k - 1 \in 0..n /\ k - 1 < n /\ ~(k <= k - 1)
    BY <1>1, <2>3, <2>4
  <2>6. Kept(k - 1)
    <3> HIDE DEF Kept
    <3> QED BY <2>2, <2>5
  <2>7. Follows(put[k - 1], from, samples, cuts) /\ Before(put[k - 1], samples, cuts, k - 1)
    BY <2>5, <2>6
  <2>8. put[k] = V!Put(put[k - 1], k, V!Shot(k, from, end)) /\ k \in 1..(Len(cuts) + 1)
    BY <1>2, <2>5
  <2>9. /\ Follows(put[k], from, samples, cuts)
        /\ Len(put[k]) >= Len(put[k - 1])
        /\ k <= Len(cuts) => Before(put[k], samples, cuts, k)
        /\ k = Len(cuts) + 1 => EndsWith(put[k], samples, cuts)
    BY <2>7, <2>8, PutKeeps
  <2>10. k < n => k <= Len(cuts)
    BY <1>1, <2>5
  <2>11. Len(put[k]) >= Len(rows)
    <3>1. Len(put[k]) \in Nat /\ Len(put[k - 1]) \in Nat /\ Len(rows) \in Nat
      BY <2>7, <2>9 DEF Follows
    <3>2. Len(put[k - 1]) >= Len(rows)
      BY <2>6
    <3> QED BY <2>9, <3>1, <3>2
  <2>12. Kept(k)
    BY <2>9, <2>10, <2>11
  <2> QED BY <2>3, <2>12
<1>5. n \in 0..n
  BY <1>1
<1>6. Kept(n)
  <2> HIDE DEF Kept, n
  <2> QED BY <1>4, <1>5
<1>7. V!Written(rows, from, end) = put[n]
  BY <1>1 DEF V!Written, put
<1> HIDE DEF n
<1> QED BY <1>6, <1>7

LEMMA FinalRowsStay ==
  ASSUME NEW ss, NEW cs, NEW from, NEW rows, NEW new,
         Follows(rows, from, ss, cs), Follows(new, from, ss, cs),
         NEW i \in DOMAIN rows, i < Len(rows), i < Len(new)
  PROVE  i \in DOMAIN new /\ new[i] = rows[i]
<1>1. rows \in Seq(ShotRows) /\ new \in Seq(ShotRows) /\ i \in 1..Len(new) /\ DOMAIN new = 1..Len(new)
  BY DEF Follows
<1>2. /\ rows[i] = [t0 |-> rows[i].t0, t1 |-> rows[i].t1, key |-> rows[i].key]
      /\ new[i] = [t0 |-> new[i].t0, t1 |-> new[i].t1, key |-> new[i].key]
  BY <1>1, RowsAre
<1>3. FollowsAt(rows, from, ss, cs, i) /\ FollowsAt(new, from, ss, cs, i)
  BY <1>1 DEF Follows
<1>4. new[i].t0 = rows[i].t0 /\ new[i].t1 = rows[i].t1 /\ new[i].key = rows[i].key
  BY <1>3 DEF FollowsAt
<1> QED BY <1>1, <1>2, <1>4

(* A sample more, and perhaps a cut at it, leave what is written as right  *)
(* as it was.                                                              *)
LEMMA SampleIsLater ==
  ASSUME Sampled(samples, cuts), NEW t \in Nat, samples # <<>> => samples[Len(samples)] < t,
         NEW ss, ss = Append(samples, t),
         NEW cs, cs = cuts \/ (samples # <<>> /\ cs = Append(cuts, Len(samples)))
  PROVE  /\ Sampled(ss, cs) /\ ss # <<>>
         /\ \A i \in DOMAIN samples : ss[i] = samples[i]
         /\ Len(cs) >= Len(cuts)
         /\ \A i \in DOMAIN cuts : i \in DOMAIN cs /\ cs[i] = cuts[i]
<1> DEFINE n == Len(samples)
           m == Len(cuts)
<1>1. /\ samples \in Seq(Nat) /\ Growing(samples) /\ cuts \in Seq(Nat) /\ Growing(cuts)
      /\ n \in Nat /\ m \in Nat /\ DOMAIN samples = 1..n /\ DOMAIN cuts = 1..m
      /\ \A i \in 1..m : cuts[i] \in Nat /\ 1 <= cuts[i] /\ cuts[i] + 1 <= n
      /\ \A i \in 1..n : samples[i] \in Nat
  <2>1. /\ samples \in Seq(Nat) /\ Growing(samples) /\ cuts \in Seq(Nat) /\ Growing(cuts)
        /\ \A i \in DOMAIN cuts : 1 <= cuts[i] /\ cuts[i] + 1 <= Len(samples)
    BY DEF Sampled
  <2>2. n \in Nat /\ m \in Nat /\ DOMAIN samples = 1..n /\ DOMAIN cuts = 1..m
    BY <2>1
  <2>3. \A i \in 1..m : cuts[i] \in Nat
    BY <2>1, <2>2
  <2>4. \A i \in 1..n : samples[i] \in Nat
    BY <2>1, <2>2
  <2> QED BY <2>1, <2>2, <2>3, <2>4
<1>2. /\ ss \in Seq(Nat) /\ Len(ss) = n + 1 /\ DOMAIN ss = 1..(n + 1)
      /\ ss[n + 1] = t /\ \A i \in 1..n : ss[i] = samples[i]
  BY <1>1
<1>3. samples # <<>> <=> n >= 1
  BY <1>1
<1>7. ss # <<>>
  <2>1. Len(ss) # 0
    BY <1>1, <1>2
  <2> QED BY <2>1
<1> HIDE DEF n, m
<1>4. Growing(ss)
  <2> SUFFICES ASSUME NEW i \in 1..(n + 1), NEW j \in 1..(n + 1), i < j PROVE ss[i] < ss[j]
    BY <1>2 DEF Growing
  <2>1. i \in 1..n /\ ss[i] = samples[i] /\ n \in 1..n /\ samples # <<>>
    BY <1>1, <1>2, <1>3
  <2>2. CASE j \in 1..n
    BY <1>1, <1>2, <2>1, <2>2 DEF Growing
  <2>3. CASE j = n + 1
    <3>1. samples[n] < t /\ samples[n] \in Nat /\ samples[i] \in Nat
      BY <1>1, <2>1 DEF n
    <3>2. i = n \/ i < n
      BY <1>1, <2>1
    <3>3. i < n => samples[i] < samples[n]
      BY <1>1, <2>1 DEF Growing
    <3>4. samples[i] <= samples[n]
      BY <3>1, <3>2, <3>3
    <3> QED BY <1>2, <2>1, <2>3, <3>1, <3>4
  <2>4. j \in 1..n \/ j = n + 1
    BY <1>1
  <2> QED BY <2>2, <2>3, <2>4
<1>5. CASE cs = cuts
  <2>1. \A i \in 1..m : cuts[i] + 1 <= Len(ss)
    BY <1>1, <1>2
  <2>2. Sampled(ss, cs)
    BY <1>1, <1>2, <1>4, <1>5, <2>1 DEF Sampled
  <2> QED BY <1>1, <1>2, <1>5, <1>7, <2>2 DEF m
<1>6. CASE samples # <<>> /\ cs = Append(cuts, n)
  <2>1. /\ cs \in Seq(Nat) /\ Len(cs) = m + 1 /\ DOMAIN cs = 1..(m + 1)
        /\ cs[m + 1] = n /\ \A i \in 1..m : cs[i] = cuts[i]
    <3>1. cuts \in Seq(Nat) /\ n \in Nat /\ m = Len(cuts)
      BY <1>1 DEF m
    <3> QED BY <1>6, <3>1
  <2>2. \A i \in 1..(m + 1) : 1 <= cs[i] /\ cs[i] + 1 <= Len(ss)
    <3> SUFFICES ASSUME NEW i \in 1..(m + 1) PROVE 1 <= cs[i] /\ cs[i] + 1 <= Len(ss)
      OBVIOUS
    <3>1. CASE i = m + 1
      BY <1>1, <1>2, <1>3, <1>6, <2>1, <3>1
    <3>2. CASE i # m + 1
      <4>1. i \in 1..m
        BY <1>1, <3>2
      <4>2. cs[i] \in Nat /\ 1 <= cs[i] /\ cs[i] + 1 <= n
        BY <1>1, <2>1, <4>1
      <4> QED BY <1>1, <1>2, <4>2
    <3> QED BY <3>1, <3>2
  <2>3. Growing(cs)
    <3> SUFFICES ASSUME NEW i \in 1..(m + 1), NEW j \in 1..(m + 1), i < j PROVE cs[i] < cs[j]
      BY <2>1 DEF Growing
    <3>1. i \in 1..m /\ cs[i] = cuts[i]
      BY <1>1, <2>1
    <3>2. CASE j = m + 1
      BY <1>1, <2>1, <3>1, <3>2
    <3>3. CASE j # m + 1
      <4>1. j \in 1..m
        BY <1>1, <3>3
      <4> QED BY <1>1, <2>1, <3>1, <4>1 DEF Growing
    <3> QED BY <3>2, <3>3
  <2>4. Sampled(ss, cs)
    BY <1>2, <1>4, <2>1, <2>2, <2>3 DEF Sampled
  <2>6. \A i \in 1..m : i \in 1..(m + 1)
    BY <1>1
  <2>7. Len(cs) >= Len(cuts)
    BY <1>1, <2>1 DEF m
  <2> QED BY <1>1, <1>2, <2>1, <1>7, <2>4, <2>6, <2>7
<1> QED BY <1>5, <1>6 DEF n

LEMMA RowsStay ==
  ASSUME Sampled(samples, cuts), samples # <<>>,
         NEW rows, NEW from, Follows(rows, from, samples, cuts),
         NEW ss, NEW cs, Sampled(ss, cs), ss # <<>>, Len(cs) >= Len(cuts),
         \A i \in DOMAIN samples : ss[i] = samples[i],
         \A i \in DOMAIN cuts : i \in DOMAIN cs /\ cs[i] = cuts[i]
  PROVE  Follows(rows, from, ss, cs)
<1> DEFINE m == Len(cuts) + 1
           place == <<0>> \o cuts
           later == <<0>> \o cs
<1>1. /\ Len(samples) \in Nat /\ Len(cuts) \in Nat /\ m \in Nat
      /\ \A i \in 1..m : /\ place[i] = IF i = 1 THEN 0 ELSE cuts[i - 1]
                         /\ place[i] \in Nat /\ place[i] + 1 \in 1..Len(samples)
  BY StartsOf
<1>2. /\ Len(cs) \in Nat
      /\ \A i \in 1..(Len(cs) + 1) : later[i] = IF i = 1 THEN 0 ELSE cs[i - 1]
  BY StartsOf
<1>3. DOMAIN cuts = 1..Len(cuts) /\ DOMAIN samples = 1..Len(samples)
  BY DEF Sampled
<1>4. \A i \in 1..m : StartOf(samples, cuts, i) = samples[place[i] + 1]
  BY DEF StartOf
<1>5. \A i \in 1..m : StartOf(ss, cs, i) = ss[later[i] + 1]
  BY DEF StartOf
<1> HIDE DEF place, later
<1>6. ASSUME NEW i \in 1..m PROVE later[i] = place[i]
  <2>1. i \in 1..(Len(cs) + 1)
    BY <1>1, <1>2
  <2>2. CASE i = 1
    BY <1>1, <1>2, <2>1, <2>2
  <2>3. CASE i # 1
    <3>1. i - 1 \in DOMAIN cuts
      BY <1>1, <1>3, <2>3
    <3> QED BY <1>1, <1>2, <2>1, <2>3, <3>1
  <2> QED BY <2>2, <2>3
<1>7. ASSUME NEW i \in 1..m PROVE StartOf(ss, cs, i) = StartOf(samples, cuts, i)
  <2>1. place[i] + 1 \in DOMAIN samples
    BY <1>1, <1>3
  <2>2. ss[place[i] + 1] = samples[place[i] + 1]
    BY <2>1
  <2> QED BY <1>4, <1>5, <1>6, <2>2
<1>8. rows \in Seq(ShotRows) /\ Len(rows) \in Nat /\ Len(rows) <= m /\ DOMAIN rows = 1..Len(rows)
  BY DEF Follows
<1>9. ASSUME NEW i \in DOMAIN rows PROVE FollowsAt(rows, from, ss, cs, i)
  <2>1. FollowsAt(rows, from, samples, cuts, i)
    BY DEF Follows
  <2>2. i \in 1..m /\ (i < Len(rows) => i + 1 \in 1..m)
    BY <1>1, <1>8
  <2>3. later[i] = place[i] /\ StartOf(ss, cs, i) = StartOf(samples, cuts, i)
    BY <1>6, <1>7, <2>2
  <2>4. i < Len(rows) => StartOf(ss, cs, i + 1) = StartOf(samples, cuts, i + 1)
    BY <1>7, <2>2
  <2> QED BY <2>1, <2>3, <2>4 DEF FollowsAt, place, later
<1>10. Len(rows) <= Len(cs) + 1
  BY <1>1, <1>2, <1>8
<1> QED BY <1>8, <1>9, <1>10 DEF Follows

LEMMA ShotsBegin == ASSUME V!Init PROVE ShotsInv
<1> USE DEF V!Init
<1>1. Sampled(samples, cuts)
  BY DEF Sampled, Growing
<1>2. SentAs(emitted, shots)
  BY DEF SentAs
<1>3. RunningShots
  BY DEF RunningShots
<1> QED BY <1>1, <1>2, <1>3 DEF ShotsInv

LEMMA FrameKeeps == ASSUME ShotsInv, NEW gap \in {1, 2}, NEW d, V!Frame(gap, d) PROVE ShotsInv'
<1> DEFINE t == IF samples = <<>> THEN gap - 1 ELSE V!Last(samples) + gap
<1>1. /\ stage = "running" /\ stage' = stage /\ tip' = tip /\ shots' = shots /\ ticked' = ticked
      /\ emitted' = emitted /\ replayed' = replayed
  BY DEF V!Frame
<1>2. Sampled(samples, cuts) /\ tip \in Nat /\ SentAs(emitted, shots) /\ RunningShots
  BY <1>1 DEF ShotsInv
<1>3. samples' = Append(samples, t)
  BY DEF V!Frame
<1>4. cuts' = cuts \/ (samples # <<>> /\ cuts' = Append(cuts, Len(samples)))
  BY DEF V!Frame
<1>5. t \in Nat /\ (samples # <<>> => samples[Len(samples)] < t)
  <2>1. CASE samples = <<>>
    BY <2>1
  <2>2. CASE samples # <<>>
    <3>1. samples[Len(samples)] \in Nat
      BY <1>2, <2>2 DEF Sampled
    <3> QED BY <2>2, <3>1 DEF V!Last
  <2> QED BY <2>1, <2>2
<1> HIDE DEF t
<1>6. /\ Sampled(samples', cuts') /\ samples' # <<>>
      /\ \A i \in DOMAIN samples : samples'[i] = samples[i]
      /\ Len(cuts') >= Len(cuts)
      /\ \A i \in DOMAIN cuts : i \in DOMAIN cuts' /\ cuts'[i] = cuts[i]
  BY <1>2, <1>3, <1>4, <1>5, SampleIsLater
<1>7. RunningShots'
  <2>1. CASE ~ticked
    BY <1>1, <1>2, <2>1 DEF RunningShots
  <2>2. CASE ticked
    <3>1. samples # <<>> /\ Follows(shots, samples[1], samples, cuts)
      BY <1>2, <2>2 DEF RunningShots
    <3>2. samples'[1] = samples[1]
      <4>1. 1 \in DOMAIN samples
        BY <1>2, <3>1 DEF Sampled
      <4> QED BY <1>6, <4>1
    <3>3. Follows(shots, samples[1], samples', cuts')
      BY <1>2, <1>6, <3>1, RowsStay
    <3> QED BY <1>1, <1>2, <1>6, <2>2, <3>2, <3>3 DEF RunningShots
  <2> QED BY <2>1, <2>2
<1> QED BY <1>1, <1>2, <1>6, <1>7 DEF ShotsInv

LEMMA NothingFollows == ASSUME NEW ss, NEW cs \in Seq(Nat), NEW from PROVE Follows(<<>>, from, ss, cs)
<1>1. <<>> \in Seq(ShotRows) /\ Len(<<>>) = 0 /\ DOMAIN <<>> = {}
  OBVIOUS
<1>2. Len(cs) \in Nat
  OBVIOUS
<1> QED BY <1>1, <1>2 DEF Follows

(* A synchronisation sends rows that will not change.                      *)
LEMMA SyncSends ==
  ASSUME ShotsInv, stage = "running", samples # <<>>,
         NEW end \in Nat, NEW all \in BOOLEAN, V!SyncLive(end, all)
  PROVE  /\ Follows(shots', samples[1], samples, cuts)
         /\ EndsWith(shots', samples, cuts)
         /\ SentAs(emitted', shots')
         /\ all => Len(emitted') = Len(shots')
         /\ ~all => emitted' = <<>> \/ Len(emitted') < Len(shots')
         /\ ticked' = TRUE
<1> DEFINE level == V!Written(shots, samples[1], end)
           old == Len(emitted)
           count == Len(level)
           upTo == V!Most(V!Closed(count, all), old)
<1>1. Sampled(samples, cuts) /\ SentAs(emitted, shots) /\ RunningShots
  BY DEF ShotsInv
<1>2. shots' = level /\ ticked' = TRUE
  BY DEF V!SyncLive
<1>3. emitted' = [i \in 1..upTo |-> IF i <= old THEN emitted[i] ELSE V!Row(i, level)]
  BY DEF V!SyncLive
<1>4. Follows(shots, samples[1], samples, cuts) /\ (emitted = <<>> \/ old < Len(shots))
  <2>1. cuts \in Seq(Nat)
    BY <1>1 DEF Sampled
  <2>2. CASE ticked
    BY <1>1, <2>2 DEF RunningShots
  <2>3. CASE ~ticked
    BY <1>1, <2>1, <2>3, NothingFollows DEF RunningShots
  <2> QED BY <2>2, <2>3
<1>5. samples[1] \in Nat /\ samples[1] <= samples[1]
  <2>1. samples[1] \in Nat
    BY <1>1 DEF Sampled
  <2> QED BY <2>1
<1>6. Follows(level, samples[1], samples, cuts) /\ EndsWith(level, samples, cuts) /\ count >= Len(shots)
  BY <1>1, <1>4, <1>5, WritingFollows
<1> HIDE DEF level
<1>7. level \in Seq(ShotRows) /\ count \in Nat /\ Len(shots) \in Nat /\ DOMAIN level = 1..count
      /\ DOMAIN shots = 1..Len(shots)
  BY <1>4, <1>6 DEF Follows
<1>8. emitted \in Seq(Emissions) /\ old \in Nat /\ DOMAIN emitted = 1..old
  BY <1>1 DEF SentAs
<1>9. old = 0 \/ old < Len(shots)
  BY <1>4, <1>8
<1> HIDE DEF count, old
<1>10. upTo \in Nat /\ upTo <= count /\ (all => upTo = count) /\ (~all => upTo = 0 \/ upTo < count)
  BY <1>6, <1>7, <1>8, <1>9 DEF V!Most, V!Closed
<1> HIDE DEF upTo
<1>11. ASSUME NEW i \in 1..upTo
       PROVE  i \in 1..count /\ V!Row(i, level) \in Emissions /\ emitted'[i] = V!Row(i, level)
  <2>1. i \in 1..count /\ i \in DOMAIN level
    BY <1>7, <1>10
  <2>2. V!Row(i, level) \in Emissions
    BY <1>7, <2>1, RowsAre DEF V!Row, Emissions
  <2>3. CASE i <= old
    <3>1. i \in 1..old /\ i \in 1..Len(shots) /\ i < Len(shots) /\ i < count
      BY <1>6, <1>7, <1>8, <1>9, <1>10, <2>3
    <3>2. emitted'[i] = emitted[i] /\ emitted[i] = V!Row(i, shots)
      BY <1>1, <1>3, <1>8, <2>3, <3>1 DEF SentAs
    <3>3. level[i] = shots[i]
      <4>1. i \in DOMAIN shots
        BY <1>7, <3>1
      <4> QED BY <1>4, <1>6, <3>1, <4>1, FinalRowsStay DEF count
    <3> QED BY <2>1, <2>2, <3>2, <3>3 DEF V!Row
  <2>4. CASE ~(i <= old)
    BY <1>3, <2>1, <2>2, <2>4
  <2> QED BY <2>3, <2>4
<1>12. DOMAIN emitted' = 1..upTo /\ emitted' \in Seq(Emissions) /\ Len(emitted') = upTo
  <2>1. emitted' = [i \in 1..upTo |-> emitted'[i]]
    BY <1>3
  <2>2. \A i \in 1..upTo : emitted'[i] \in Emissions
    BY <1>11
  <2>3. emitted' \in [1..upTo -> Emissions]
    BY <2>1, <2>2
  <2> QED BY <1>10, <2>3
<1>13. SentAs(emitted', level)
  BY <1>7, <1>11, <1>12 DEF SentAs
<1>14. upTo = 0 => emitted' = <<>>
  BY <1>12
<1> QED BY <1>2, <1>6, <1>10, <1>12, <1>13, <1>14 DEF count

LEMMA TickKeeps == ASSUME ShotsInv, NEW ahead \in Nat, V!Tick(ahead) PROVE ShotsInv'
<1> DEFINE now == (IF samples = <<>> THEN 0 ELSE V!Last(samples)) + ahead
<1>1. /\ stage = "running" /\ stage' = stage /\ samples' = samples /\ cuts' = cuts
      /\ replayed' = replayed
  BY DEF V!Tick
<1>2. Sampled(samples, cuts) /\ tip \in Nat /\ SentAs(emitted, shots) /\ RunningShots
  BY <1>1 DEF ShotsInv
<1>3. CASE samples = <<>>
  <2>1. tip' = tip /\ shots' = shots /\ ticked' = ticked /\ emitted' = emitted
    BY <1>3 DEF V!Tick
  <2> QED BY <1>1, <1>2, <2>1 DEF ShotsInv, RunningShots
<1>4. CASE samples # <<>>
  <2>1. tip' = now /\ V!SyncLive(now, FALSE)
    BY <1>4 DEF V!Tick
  <2>2. now \in Nat
    <3>1. samples[Len(samples)] \in Nat
      BY <1>2, <1>4 DEF Sampled
    <3> QED BY <1>4, <3>1 DEF V!Last
  <2> HIDE DEF now
  <2>3. /\ Follows(shots', samples[1], samples, cuts) /\ SentAs(emitted', shots')
        /\ emitted' = <<>> \/ Len(emitted') < Len(shots')
        /\ ticked' = TRUE
    BY <1>1, <1>4, <2>1, <2>2, SyncSends
  <2>4. RunningShots'
    BY <1>1, <1>4, <2>3 DEF RunningShots
  <2> QED BY <1>1, <1>2, <2>1, <2>2, <2>3, <2>4 DEF ShotsInv
<1> QED BY <1>3, <1>4

LEMMA FinishLiveKeeps == ASSUME ShotsInv, V!FinishLive PROVE ShotsInv'
<1>1. /\ stage = "running" /\ stage' = "finished" /\ ticked /\ V!SyncLive(tip, TRUE)
      /\ samples' = samples /\ cuts' = cuts /\ tip' = tip
  BY DEF V!FinishLive
<1>2. Sampled(samples, cuts) /\ tip \in Nat /\ RunningShots
  BY <1>1 DEF ShotsInv
<1>3. samples # <<>>
  BY <1>1, <1>2 DEF RunningShots
<1>4. /\ Follows(shots', samples[1], samples, cuts) /\ EndsWith(shots', samples, cuts)
      /\ SentAs(emitted', shots') /\ Len(emitted') = Len(shots')
  BY <1>1, <1>2, <1>3, SyncSends
<1>5. samples[1] \in Nat
  BY <1>2, <1>3 DEF Sampled
<1>6. FinishedShots'
  BY <1>1, <1>3, <1>4, <1>5 DEF FinishedShots
<1> QED BY <1>1, <1>2, <1>4, <1>6 DEF ShotsInv

(* What sends every row as it is. *)
LEMMA AllSent ==
  ASSUME NEW rows \in Seq(ShotRows), NEW es, es = [i \in DOMAIN rows |-> V!Row(i, rows)]
  PROVE  SentAs(es, rows) /\ Len(es) = Len(rows)
<1>1. Len(rows) \in Nat /\ DOMAIN rows = 1..Len(rows)
  OBVIOUS
<1>2. \A i \in 1..Len(rows) : V!Row(i, rows) \in Emissions
  BY <1>1, RowsAre DEF V!Row, Emissions
<1>3. es \in [1..Len(rows) -> Emissions]
  BY <1>1, <1>2
<1>4. es \in Seq(Emissions) /\ Len(es) = Len(rows) /\ DOMAIN es = 1..Len(rows)
  BY <1>1, <1>3
<1> QED BY <1>1, <1>4 DEF SentAs

LEMMA FinishBatchKeeps == ASSUME ShotsInv, NEW duration \in Nat, V!FinishBatch(duration) PROVE ShotsInv'
<1>1. /\ stage = "running" /\ stage' = "finished" /\ ~ticked
      /\ samples' = samples /\ cuts' = cuts /\ tip' = tip
  BY DEF V!FinishBatch
<1>2. Sampled(samples, cuts) /\ tip \in Nat /\ shots = <<>> /\ emitted = <<>> /\ cuts \in Seq(Nat)
  BY <1>1 DEF ShotsInv, RunningShots, Sampled
<1>3. Follows(<<>>, 0, samples, cuts)
  BY <1>2, NothingFollows
<1>4. CASE samples = <<>>
  <2>1. shots' = <<>> /\ emitted' = <<>>
    BY <1>2, <1>4 DEF V!FinishBatch
  <2>2. SentAs(<<>>, <<>>)
    BY DEF SentAs
  <2>3. FinishedShots'
    BY <1>1, <1>3, <1>4, <2>1 DEF FinishedShots
  <2> QED BY <1>1, <1>2, <2>1, <2>2, <2>3 DEF ShotsInv
<1>5. CASE samples # <<>>
  <2>1. shots' = V!Written(<<>>, 0, duration) /\ emitted' = [i \in DOMAIN shots' |-> V!Row(i, shots')]
    BY <1>5 DEF V!FinishBatch
  <2>2. 0 <= samples[1]
    <3>1. samples[1] \in Nat
      BY <1>2, <1>5 DEF Sampled
    <3> QED BY <3>1
  <2>3. Follows(shots', 0, samples, cuts) /\ EndsWith(shots', samples, cuts)
    BY <1>2, <1>3, <1>5, <2>1, <2>2, WritingFollows
  <2>4. SentAs(emitted', shots') /\ Len(emitted') = Len(shots')
    <3>1. shots' \in Seq(ShotRows)
      BY <2>3 DEF Follows
    <3> QED BY <2>1, <3>1, AllSent
  <2>5. FinishedShots'
    BY <1>1, <1>5, <2>3, <2>4 DEF FinishedShots
  <2> QED BY <1>1, <1>2, <2>4, <2>5 DEF ShotsInv
<1> QED BY <1>4, <1>5

LEMMA ReplayKeeps == ASSUME ShotsInv, V!Replay PROVE ShotsInv'
<1>1. /\ stage = "finished" /\ stage' = "replayed" /\ samples' = samples /\ cuts' = cuts
      /\ tip' = tip /\ shots' = shots /\ emitted' = emitted
      /\ replayed' = [i \in DOMAIN shots |-> V!Row(i, shots)]
  BY DEF V!Replay
<1>2. Sampled(samples, cuts) /\ tip \in Nat /\ SentAs(emitted, shots) /\ FinishedShots
  BY <1>1 DEF ShotsInv
<1>3. replayed' = emitted
  <2>1. emitted \in Seq(Emissions) /\ shots \in Seq(ShotRows) /\ Len(emitted) = Len(shots)
    BY <1>2 DEF SentAs, FinishedShots, Follows
  <2>2. DOMAIN emitted = DOMAIN shots
    BY <2>1
  <2>3. emitted = [i \in DOMAIN shots |-> emitted[i]]
    BY <2>1, <2>2
  <2> QED BY <1>1, <1>2, <2>2, <2>3 DEF SentAs
<1>4. FinishedShots'
  BY <1>1, <1>2 DEF FinishedShots
<1> QED BY <1>1, <1>2, <1>3, <1>4 DEF ShotsInv

LEMMA ShotsAreKept == ShotsInv /\ [V!Next]_shotsVars => ShotsInv'
<1> SUFFICES ASSUME ShotsInv, [V!Next]_shotsVars PROVE ShotsInv'
  OBVIOUS
<1>1. ASSUME NEW gap \in {1, 2}, NEW d \in Distances, V!Frame(gap, d) PROVE ShotsInv'
  BY <1>1, FrameKeeps
<1>2. ASSUME NEW ahead \in 0..MaxAhead, V!Tick(ahead) PROVE ShotsInv'
  <2>1. ahead \in Nat
    BY SamplesAssumption
  <2> QED BY <1>2, <2>1, TickKeeps
<1>3. ASSUME NEW duration \in {0, 2 * MaxSamples + 1}, V!FinishBatch(duration) PROVE ShotsInv'
  <2>1. duration \in Nat
    BY SamplesAssumption
  <2> QED BY <1>3, <2>1, FinishBatchKeeps
<1>4. CASE UNCHANGED shotsVars
  BY <1>4 DEF shotsVars, ShotsInv, RunningShots, FinishedShots
<1> QED BY <1>1, <1>2, <1>3, <1>4, FinishLiveKeeps, ReplayKeeps DEF V!Next

LEMMA ShotsHold == ASSUME ShotsInv PROVE V!ShotsAreFinal
<1>1. Sampled(samples, cuts) /\ SentAs(emitted, shots)
  BY DEF ShotsInv
<1>2. \A i \in DOMAIN emitted : i \in DOMAIN shots /\ emitted[i] = V!Row(i, shots)
  BY <1>1 DEF SentAs
<1>3. \E from : Follows(shots, from, samples, cuts)
  <2>1. CASE stage = "running" /\ ~ticked
    <3>1. shots = <<>> /\ cuts \in Seq(Nat)
      BY <2>1 DEF ShotsInv, RunningShots, Sampled
    <3> QED BY <3>1, NothingFollows
  <2>2. CASE ~(stage = "running" /\ ~ticked)
    BY <2>2 DEF ShotsInv, RunningShots, FinishedShots
  <2> QED BY <2>1, <2>2
<1>4. shots \in Seq(ShotRows) /\ Len(shots) \in Nat /\ DOMAIN shots = 1..Len(shots)
  BY <1>3 DEF Follows
<1>5. PICK from : \A i \in 1..Len(shots) : FollowsAt(shots, from, samples, cuts, i)
  BY <1>3, <1>4 DEF Follows
<1>6. ASSUME NEW i \in 2..Len(shots) PROVE shots[i].t0 = shots[i - 1].t1
  <2>1. i \in 1..Len(shots) /\ i # 1 /\ i - 1 \in 1..Len(shots) /\ i - 1 < Len(shots) /\ (i - 1) + 1 = i
    BY <1>4
  <2>2. shots[i].t0 = StartOf(samples, cuts, i)
    BY <1>5, <2>1 DEF FollowsAt
  <2>3. shots[i - 1].t1 = StartOf(samples, cuts, (i - 1) + 1)
    BY <1>5, <2>1 DEF FollowsAt
  <2> QED BY <2>1, <2>2, <2>3
<1>7. ASSUME stage # "running"
      PROVE  /\ Len(emitted) = Len(shots)
             /\ \A i \in DOMAIN cuts : shots[i].t1 = samples[cuts[i] + 1]
             /\ \A i \in DOMAIN shots : shots[i].key = V!Starts[i] + 1
             /\ shots # <<>> => V!Last(shots).t1 >= V!Last(samples)
  <2>1. FinishedShots
    BY <1>7 DEF ShotsInv
  <2>2. \A i \in DOMAIN shots : shots[i].key = V!Starts[i] + 1
    BY <1>4, <1>5 DEF FollowsAt, V!Starts
  <2>3. CASE samples = <<>>
    <3>1. DOMAIN cuts = {}
      <4> SUFFICES ASSUME NEW i \in DOMAIN cuts PROVE FALSE
        OBVIOUS
      <4>1. cuts \in Seq(Nat) /\ 1 <= cuts[i] /\ cuts[i] + 1 <= 0
        BY <1>1, <2>3 DEF Sampled
      <4>2. cuts[i] \in Nat
        BY <4>1
      <4> QED BY <4>1, <4>2
    <3> QED BY <2>1, <2>2, <2>3, <3>1 DEF FinishedShots
  <2>4. CASE samples # <<>>
    <3>1. EndsWith(shots, samples, cuts)
      BY <2>1, <2>4 DEF FinishedShots
    <3>2. \A i \in DOMAIN cuts : StartOf(samples, cuts, i + 1) = samples[cuts[i] + 1]
      BY <1>1, <2>4, StartsOf
    <3>3. shots # <<>> => V!Last(shots).t1 >= V!Last(samples)
      BY <3>1 DEF EndsWith, V!Last
    <3> QED BY <2>1, <2>2, <3>1, <3>2, <3>3 DEF FinishedShots, EndsWith
  <2> QED BY <2>3, <2>4
<1>8. stage = "replayed" => replayed = emitted
  BY DEF ShotsInv
<1> QED BY <1>2, <1>6, <1>7, <1>8 DEF V!ShotsAreFinal

LEMMA ShotsMove == [Next]_vars => [V!Next]_shotsVars
BY DEF Next, CallsSteps, ChatSteps, SseSteps, IndexesSteps, JobsSteps, QuotaSteps,
       BudgetSteps, DownloadSteps, ShotsSteps, vars, shotsVars

(* For whatever distances of frames and wherever ticks fall between them:  *)
(* a shot sent downstream is as it is stored and stays so, shots leave no  *)
(* gap, a job that ended sent each of them, and a replay sends the same    *)
(* (ShotDetector::push, ShotBoundary::sync_live, finish and replay).       *)
THEOREM ShotsStayAsSent == Spec => []ShotsAreFinal
<1>1. Init => ShotsInv
  BY ShotsBegin DEF Init
<1>2. ShotsInv /\ [Next]_vars => ShotsInv'
  BY ShotsMove, ShotsAreKept
<1>3. ShotsInv => ShotsAreFinal
  BY ShotsHold DEF ShotsAreFinal
<1>4. QED
  BY <1>1, <1>2, <1>3, PTL DEF Spec
=============================================================================
