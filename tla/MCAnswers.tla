----------------------------- MODULE MCAnswers -----------------------------
(***************************************************************************)
(* Instances for TLC of what makes an answer: the loop of an ask with the  *)
(* model, the requests its history becomes, the tools it calls with the    *)
(* bound they keep, search, and the citations read from its text. They are *)
(* checked side by side.                                                   *)
(***************************************************************************)
EXTENDS Integers, Sequences, FiniteSets, SequenceTheorems, FiniteSetTheorems,
        WellFoundedInduction, TLAPS

CONSTANTS
  MaxToolCalls, MaxTokens, CallsPerTurn,
  MaxTurns, MaxCalls, MaxSession,
  Times, FrameTimes, Last1, None,
  Videos, Minute, PerVideo, RowSize, BaseSize, MaxSize, MaxWrites,
  Length, Asked, Lines, ShotLists,
  MaxWindows, MaxText, MinText, ViewText, MinViewText, MaxWindow, MultiWindow, DetailWindow,
  MaxFrames, DetailFrames, MinCrop, Sides,
  Rows, Layouts, Duration,
  Live, Registered, Unit, Week, Bounds, Caps, Scope, AskedKinds, K, PerList, MaxSearchWrites,
  MaxParts, MaxMarker

(* The limits of an ask are numbers.                                       *)
ASSUME LoopAssumption ==
  MaxToolCalls \in Nat /\ MaxTokens \in Nat /\ CallsPerTurn \in Nat

(* Times of a recording run from its start to its last time.               *)
ASSUME TimesAreTimes == Last1 \in Nat /\ Times \subseteq 0..Last1 /\ None \notin Int

(* Rows have times, segments do not end before they start, and a grid has  *)
(* a step.                                                                 *)
ASSUME SearchAssumption ==
  /\ Registered \subseteq Videos /\ Live \subseteq Videos /\ Duration \in [Videos -> Nat]
  /\ IsFiniteSet(Rows) /\ \A r \in Rows : r.at \in Nat
  /\ \A layout \in Layouts : layout \subseteq {s \in [t0 : Nat, t1 : Nat] : s.t0 <= s.t1}
  /\ Unit \in Nat \ {0} /\ Week \in Nat /\ K \in Nat
  /\ Bounds \subseteq Nat \cup {None} /\ Caps \subseteq Nat

(* Windows are pairs of times, in any order and anywhere; rows are finitely *)
(* many; limits are numbers, and a crop has a least side.                  *)
ASSUME ToolsAssumption ==
  /\ Length \in Nat /\ \A ws \in Asked : ws \in Seq(Int \X Int)
  /\ IsFiniteSet(Lines) /\ \A l \in Lines : l.t0 \in Int /\ l.t1 \in Int
  /\ MaxText \in Nat /\ MinText \in Nat /\ ViewText \in Nat /\ MinViewText \in Nat
  /\ MaxWindow \in Nat /\ MultiWindow \in Nat /\ DetailWindow \in Nat
  /\ MaxFrames \in Nat /\ DetailFrames \in 0..MaxFrames
  /\ MinCrop \in Nat \ {0} /\ Sides \subseteq Nat \ {0}

VARIABLES
  part,  \* the part this behaviour is about; the others stay as they start
  loopFixed, toolCalls, tokens, late, history, loopSteps, retriedEmpty,
  retriedLength, forceText, loopAnswer, loopHeld, loopTurn, textTurns,
  partial, reason, ended,
  adapter, requestsFixed, session, messages, requestsSteps, requestsTurn,
  request, tools,
  boundUntil, video, mark, told, tool, shown, cited,
  mentionsKnown, mentionsRows, mentionsWrites, mentionsCall, found, asOf,
  per, mentionsAt, mentionsAnswer,
  toolsCall, toolsAt, wins, grids, toolsRows, shots, stored, crop,
  searchKnown, searchRows, segments, head, searchWrites, searchUntil, asked,
  searchAt, raw, fused, left, of, chapters, units, extents, hits,
  parts, fed, citationsHeld, sent, state

(* What is said and shown in two videos of two channels.                   *)
Channel == [v \in Videos |-> IF v = "v1" THEN "c" ELSE "d"]

Text(i, v, k, t, x, ts) ==
  [id |-> i, video |-> v, kind |-> k, at |-> t, text |-> x, terms |-> ts]

Texts ==
  {Text(1, "v1", "ocr", 1, "x", {"a"}), Text(2, "v1", "ocr", 3, "x", {"a"}),
   Text(3, "v1", "ocr", 5, "x", {"a"}), Text(4, "v1", "transcript", 2, "y", {"a", "b"}),
   Text(5, "v2", "transcript", 2, "y", {"b"}), Text(6, "v1", "transcript", 6, "z", {"a"})}

TermLists == {<<"a">>, <<"a", "b">>, <<"b", "b">>}
Kinds == <<"transcript", "ocr">>

(* Calls of up to three windows, one more than a call may read.            *)
Windows == {<<0, 2>>, <<2, 5>>, <<1, 9>>, <<7, 9>>, <<4, 4>>, <<12, 14>>, <<4, 6>>}
SomeCalls == {<<>>} \cup {<<w>> : w \in Windows} \cup {<<w, x>> : w, x \in Windows}
           \cup {<<w, x, y>> : w, x, y \in Windows}
Span(from, to) == [t0 |-> from, t1 |-> to]
SomeLines == {Span(0, 2), Span(2, 3), Span(3, 4), Span(8, 9)}
SomeShots == {{}, {<<0, 5>>, <<5, 10>>}, {<<0, 10>>}}

(* One piece of evidence of each kind, in and out of the segments.         *)
Row(i, v, k, t) == [id |-> i, video |-> v, kind |-> k, at |-> t]
SomeRows == {Row(1, "v1", "transcript", 3), Row(2, "v1", "frame", 9), Row(3, "v2", "description", 5)}
SomeLayouts == {{}, {Span(0, 2), Span(2, 10)}}
TenTicks == [v \in Videos |-> 10]

A == INSTANCE AgentLoop WITH
  fixed <- loopFixed, steps <- loopSteps, answer <- loopAnswer,
  held <- loopHeld, turn <- loopTurn
R == INSTANCE ChatRequests WITH
  fixed <- requestsFixed, steps <- requestsSteps, turn <- requestsTurn
B == INSTANCE AskBound WITH
  until <- boundUntil
M == INSTANCE Mentions WITH
  Rows <- Texts, known <- mentionsKnown, rows <- mentionsRows,
  writes <- mentionsWrites, call <- mentionsCall, at <- mentionsAt,
  answer <- mentionsAnswer
T == INSTANCE ReadTools WITH
  Duration <- Length, call <- toolsCall, at <- toolsAt, rows <- toolsRows
S == INSTANCE Search WITH
  MaxWrites <- MaxSearchWrites, known <- searchKnown, rows <- searchRows,
  writes <- searchWrites, until <- searchUntil, at <- searchAt
C == INSTANCE Citations WITH
  held <- citationsHeld

loopVars == <<loopFixed, toolCalls, tokens, late, history, loopSteps,
  retriedEmpty, retriedLength, forceText, loopAnswer, loopHeld, loopTurn,
  textTurns, partial, reason, ended>>
requestsVars == <<adapter, requestsFixed, session, messages, requestsSteps,
  requestsTurn, request, tools>>
boundVars == <<boundUntil, video, mark, told, tool, shown, cited>>
mentionsVars == <<mentionsKnown, mentionsRows, mentionsWrites, mentionsCall,
  found, asOf, per, mentionsAt, mentionsAnswer>>
toolsVars == <<toolsCall, toolsAt, wins, grids, toolsRows, shots, stored,
  crop>>
searchVars == <<searchKnown, searchRows, segments, head, searchWrites,
  searchUntil, asked, searchAt, raw, fused, left, of, chapters, units,
  extents, hits>>
citationsVars == <<parts, fed, citationsHeld, sent, state>>
vars == <<part, loopVars, requestsVars, boundVars, mentionsVars, toolsVars, searchVars, citationsVars>>

Parts == {"loop", "requests", "bound", "mentions", "tools", "search", "citations"}

Init ==
  /\ part \in Parts
  /\ IF part = "loop" THEN TRUE ELSE loopFixed = FALSE
  /\ A!Init
  /\ IF part = "requests" THEN TRUE ELSE adapter = "openai" /\ requestsFixed = FALSE /\ session = 0
  /\ R!Init
  /\ B!Init /\ (part # "bound" => boundUntil = None /\ ~video.live)
  /\ IF part = "mentions" THEN TRUE ELSE mentionsKnown = {} /\ mentionsRows = {} /\ mentionsCall = [tool |-> "stats", terms |-> <<>>, per |-> 0, group |-> "channel"]
  /\ M!Init
  /\ IF part = "tools" THEN TRUE ELSE toolsCall = [tool |-> "zoom", windows |-> <<>>, multi |-> FALSE, detail |-> FALSE] /\ shots = {}
  /\ T!Init
  /\ IF part = "search" THEN TRUE ELSE searchRows = {} /\ segments = [v \in Videos |-> [l \in {"chapter", "scene", "shot"} |-> {}]] /\ searchUntil = None /\ asked = [videos |-> {}, kinds |-> {}, cap |-> None]
  /\ S!Init
  /\ IF part = "citations" THEN TRUE ELSE parts = <<<<"x">>>>
  /\ C!Init

LoopSteps ==
  /\ part = "loop" /\ A!Next
  /\ UNCHANGED <<part, requestsVars, boundVars, mentionsVars, toolsVars,
                searchVars, citationsVars>>

RequestsSteps ==
  /\ part = "requests" /\ R!Next
  /\ UNCHANGED <<part, loopVars, boundVars, mentionsVars, toolsVars,
                searchVars, citationsVars>>

BoundSteps ==
  /\ part = "bound" /\ B!Next
  /\ UNCHANGED <<part, loopVars, requestsVars, mentionsVars, toolsVars,
                searchVars, citationsVars>>

MentionsSteps ==
  /\ part = "mentions" /\ M!Next
  /\ UNCHANGED <<part, loopVars, requestsVars, boundVars, toolsVars,
                searchVars, citationsVars>>

ToolsSteps ==
  /\ part = "tools" /\ T!Next
  /\ UNCHANGED <<part, loopVars, requestsVars, boundVars, mentionsVars,
                searchVars, citationsVars>>

SearchSteps ==
  /\ part = "search" /\ S!Next
  /\ UNCHANGED <<part, loopVars, requestsVars, boundVars, mentionsVars,
                toolsVars, citationsVars>>

CitationsSteps ==
  /\ part = "citations" /\ C!Next
  /\ UNCHANGED <<part, loopVars, requestsVars, boundVars, mentionsVars,
                toolsVars, searchVars>>

Next ==
  \/ LoopSteps
  \/ RequestsSteps
  \/ BoundSteps
  \/ MentionsSteps
  \/ ToolsSteps
  \/ SearchSteps
  \/ CitationsSteps

Spec == Init /\ [][Next]_vars

-----------------------------------------------------------------------------
(* Whatever the model calls and however turns are cut short, an ask stays  *)
(* within its budget and ends in three turns of text at most, its answer   *)
(* is the text of turns that called nothing.                               *)
AskIsBounded == A!AskIsBounded /\ A!AnswerIsNoAside

(* Every request an adapter makes of a history is one its API takes.       *)
RequestsAreAccepted == R!RequestsAreAccepted

(* No tool of an ask with a bound shows what lies past it.                 *)
TextStaysBelowTheBound == B!TextStaysBelowTheBound

(* Tables of mentions count each row once, as the index was at a moment,   *)
(* and show as many of the rows as fit.                                    *)
CountsAreOfOneMoment == M!CountsAreOfOneMoment

(* A tool that reads windows says what it left out.                        *)
NothingIsSilentlyLeftOut == T!NothingIsSilentlyLeftOut

(* A hit shows the evidence it was found by, in the unit it is in.         *)
HitsHoldTheirEvidence == S!HitsHoldTheirEvidence

(* However the model's text is cut into tokens, a caller gets its text and *)
(* one citation per marker.                                                *)
CitationsAsWritten == C!CitationsAsWritten

-----------------------------------------------------------------------------
(* A step of the whole is a step of each part, or leaves it alone.         *)
LEMMA LoopStep == [Next]_vars => [A!Next]_loopVars
BY DEF Next, LoopSteps, RequestsSteps, BoundSteps, MentionsSteps, ToolsSteps, SearchSteps,
       CitationsSteps, vars, loopVars

LEMMA SearchMoves == [Next]_vars => [S!Next]_searchVars
BY DEF Next, LoopSteps, RequestsSteps, BoundSteps, MentionsSteps, ToolsSteps, SearchSteps,
       CitationsSteps, vars, searchVars

LEMMA BoundStep == [Next]_vars => [B!Next]_boundVars
BY DEF Next, LoopSteps, RequestsSteps, BoundSteps, MentionsSteps, ToolsSteps, SearchSteps,
       CitationsSteps, vars, boundVars

-----------------------------------------------------------------------------
(* What a tool may read.                                                   *)
(* What the steps keep: a live video has a watermark up to its head, which *)
(* the turn's mark does not pass, and the prompt tells of no more than     *)
(* either.                                                                 *)
BoundInv ==
  /\ boundUntil \in Times \cup {None}
  /\ video \in [live : BOOLEAN, duration : 0..Last1, watermark : 0..Last1 \cup {None}]
  /\ mark \in 0..Last1 \cup {None}
  /\ video.live => /\ video.watermark # None /\ video.watermark <= video.duration
                   /\ mark # None /\ mark <= video.watermark
  /\ ~video.live => video.duration = Last1
  /\ tool \in {None} \cup [duration : Int]
  /\ told \in Int /\ told <= video.duration
  /\ B!ForId # None => told <= B!ForId

(* clamp_secs gives a time, never above the duration, and no less than the *)
(* prompt tells of.                                                        *)
LEMMA ClampIsATime ==
  ASSUME BoundInv
  PROVE  B!ClampSecs \in Int /\ told <= B!ClampSecs /\ B!ClampSecs <= video.duration
BY TimesAreTimes DEF TimesAreTimes, BoundInv, B!ClampSecs, B!ForId, B!OrElse, B!Least

LEMMA BoundHoldsAtFirst == ASSUME B!Init PROVE BoundInv
<1>1. CASE \E w \in Times, d \in Times :
              w <= d /\ video = [live |-> TRUE, duration |-> d, watermark |-> w]
  <2>1. PICK w \in Times, d \in Times :
          w <= d /\ video = [live |-> TRUE, duration |-> d, watermark |-> w]
    BY <1>1
  <2>2. w \in 0..Last1 /\ d \in 0..Last1 /\ w # None
    BY TimesAreTimes DEF TimesAreTimes
  <2>3. video \in [live : BOOLEAN, duration : 0..Last1, watermark : 0..Last1 \cup {None}]
    BY <2>1, <2>2
  <2> QED BY TimesAreTimes, <2>1, <2>2, <2>3 DEF TimesAreTimes, B!Init, BoundInv, B!ClampSecs, B!ForId, B!OrElse, B!Least
<1>2. CASE video = [live |-> FALSE, duration |-> Last1, watermark |-> None]
  <2>1. video \in [live : BOOLEAN, duration : 0..Last1, watermark : 0..Last1 \cup {None}]
    BY TimesAreTimes, <1>2 DEF TimesAreTimes
  <2> QED BY TimesAreTimes, <1>2, <2>1 DEF TimesAreTimes, B!Init, BoundInv, B!ClampSecs, B!ForId, B!OrElse, B!Least
<1> QED BY <1>1, <1>2 DEF B!Init

LEMMA BoundIsKept == BoundInv /\ [B!Next]_boundVars => BoundInv'
<1> SUFFICES ASSUME BoundInv, [B!Next]_boundVars PROVE BoundInv'
  OBVIOUS
<1> USE TimesAreTimes DEF BoundInv, TimesAreTimes
<1>1. ASSUME NEW d \in Times, NEW w \in Times, B!Advance(d, w) PROVE BoundInv'
  <2>1. d \in 0..Last1 /\ w \in 0..Last1 /\ w # None
    OBVIOUS
  <2>2. video' = [video EXCEPT !.duration = d, !.watermark = w]
    BY <1>1 DEF B!Advance
  <2>3. video' \in [live : BOOLEAN, duration : 0..Last1, watermark : 0..Last1 \cup {None}]
    BY <2>1, <2>2
  <2>4. video'.live = video.live /\ video'.duration = d /\ video'.watermark = w
    BY <2>2
  <2>5. /\ video.live /\ d >= video.duration /\ w >= video.watermark /\ w <= d
        /\ UNCHANGED <<boundUntil, mark, told, tool>>
    BY <1>1 DEF B!Advance
  <2> QED BY <2>1, <2>3, <2>4, <2>5 DEF B!ForId, B!OrElse
<1>2. CASE B!EndLive
  BY <1>2 DEF B!EndLive, B!ForId, B!OrElse
<1>3. CASE B!Refresh
  <2>1. UNCHANGED <<boundUntil, video, tool>>
    BY <1>3 DEF B!Refresh
  <2>2. CASE video.live
    <3>1. mark' = video.watermark /\ told' = B!ClampSecs
      BY <1>3, <2>2 DEF B!Refresh
    <3>2. /\ B!ClampSecs \in Int /\ B!ClampSecs <= video.duration
          /\ B!ClampSecs <= B!OrElse(boundUntil, video.watermark)
      BY <2>2 DEF B!ClampSecs, B!OrElse, B!Least
    <3> QED BY <2>1, <2>2, <3>1, <3>2 DEF B!ForId, B!OrElse
  <2>3. CASE ~video.live
    <3>1. mark' = None /\ told' = told
      BY <1>3, <2>3 DEF B!Refresh
    <3> QED BY <2>1, <2>3, <3>1 DEF B!ForId, B!OrElse
  <2> QED BY <2>2, <2>3
<1>4. CASE B!GetVideo
  BY <1>4, ClampIsATime DEF B!GetVideo, B!ForId, B!OrElse
<1>5. ASSUME NEW t0 \in Times, NEW t1 \in Times, B!ReadText(t0, t1) \/ B!View(t0, t1) \/ B!Cite(t0, t1)
      PROVE  BoundInv'
  BY <1>5 DEF B!ReadText, B!View, B!Cite, B!ForId, B!OrElse
<1>6. ASSUME NEW t \in Times, B!ReadSince(t) \/ B!Zoom(t) PROVE BoundInv'
  BY <1>6 DEF B!ReadSince, B!Zoom, B!ForId, B!OrElse
<1>7. CASE UNCHANGED boundVars
  BY <1>7 DEF boundVars, B!ForId, B!OrElse
<1> QED BY <1>1, <1>2, <1>3, <1>4, <1>5, <1>6, <1>7 DEF B!Next

LEMMA StepsStayBelow ==
  ASSUME BoundInv, BoundInv', B!Next PROVE B!TextIsBelow
<1>1. told' <= B!ClampSecs'
  BY TimesAreTimes DEF TimesAreTimes, BoundInv, B!ClampSecs, B!ForId, B!OrElse, B!Least
<1>2. shown' # shown => \A t \in shown'.rows : t < B!OrElse(B!ForId, Last1)
  <2>1. ASSUME NEW t0 \in Times, NEW t1 \in Times, B!ReadText(t0, t1), NEW t \in shown'.rows
        PROVE  t < B!OrElse(B!ForId, Last1)
    <3>1. tool.duration \in Int
      BY <2>1 DEF BoundInv, B!ReadText
    <3>2. B!RangeOf(t0, t1).t1 \in Int
      BY TimesAreTimes, <3>1 DEF B!RangeOf, B!Least, B!Most, B!Half, TimesAreTimes, BoundInv
    <3>3. t \in B!RowTimes /\ t < B!Below(B!RangeOf(t0, t1).t1)
      BY <2>1 DEF B!ReadText, B!Nothing
    <3> QED BY TimesAreTimes, <3>2, <3>3 DEF B!RowTimes, B!Below, B!Least, B!OrElse, B!ForId, TimesAreTimes, BoundInv
  <2>2. ASSUME NEW t0 \in Times, B!ReadSince(t0), NEW t \in shown'.rows
        PROVE  t < B!OrElse(B!ForId, Last1)
    BY TimesAreTimes, <2>2 DEF B!ReadSince, B!SpansSince, B!RowTimes, B!Nothing, B!OrElse, TimesAreTimes
  <2>3. ASSUME NEW t0 \in Times, NEW t1 \in Times, B!View(t0, t1) \/ B!Zoom(t0)
        PROVE  shown'.rows = {}
    BY <2>3 DEF B!View, B!Zoom, B!Nothing
  <2> QED BY <2>1, <2>2, <2>3 DEF B!Next, B!Advance, B!EndLive, B!Refresh, B!GetVideo, B!Cite
<1>3. cited' # cited /\ cited' # None /\ B!ForId # None => cited'[1] < B!ForId /\ cited'[2] <= B!ForId
  <2>1. ASSUME NEW t0 \in Times, NEW t1 \in Times, B!Cite(t0, t1), cited' # None, B!ForId # None
        PROVE  cited'[1] < B!ForId /\ cited'[2] <= B!ForId
    <3>1. t0 \in Int /\ t1 \in Int
      BY TimesAreTimes DEF TimesAreTimes
    <3>2. mark \in Int \cup {None} /\ boundUntil \in Int \cup {None}
      BY TimesAreTimes DEF TimesAreTimes, BoundInv
    <3>3. B!ForId \in Int
      BY <2>1, <3>2 DEF B!ForId, B!OrElse
    <3>4. t0 < B!ForId /\ cited' = <<t0, B!Least(t1, B!ForId)>>
      BY <2>1, <3>1, <3>3 DEF B!Cite
    <3> QED BY <3>1, <3>3, <3>4 DEF B!Least
  <2> QED BY <2>1 DEF B!Next, B!Advance, B!EndLive, B!Refresh, B!GetVideo, B!ReadText, B!ReadSince, B!View, B!Zoom
<1> QED BY <1>1, <1>2, <1>3 DEF B!TextIsBelow

(* Over every recording, bound and range: a tool reads no text and cites   *)
(* no time at or after the bound, and the prompt never tells the model of  *)
(* more than the tools report (BoundedStorage, clamp_citation,             *)
(* refresh_live).                                                          *)
THEOREM TextIsBounded == Spec => TextStaysBelowTheBound
<1>1. Init => BoundInv
  BY BoundHoldsAtFirst DEF Init
<1>2. BoundInv /\ [Next]_vars => BoundInv'
  BY BoundStep, BoundIsKept
<1>3. BoundInv /\ BoundInv' /\ [Next]_vars => [B!TextIsBelow]_boundVars
  BY BoundStep, StepsStayBelow
<1> QED BY <1>1, <1>2, <1>3, PTL DEF Spec, TextStaysBelowTheBound, B!TextStaysBelowTheBound,
           B!vars, boundVars

-----------------------------------------------------------------------------
(* The loop of an ask.                                                     *)
Messages == [role : {"user", "assistant", "tool"}, calls : Nat, ran : BOOLEAN]
Turns == [calls : Nat, text : {"none", "held", "some"}]

LoopTypeOK ==
  /\ loopFixed \in BOOLEAN /\ late \in BOOLEAN /\ forceText \in BOOLEAN
  /\ retriedEmpty \in BOOLEAN /\ retriedLength \in BOOLEAN
  /\ partial \in BOOLEAN /\ reason \in BOOLEAN
  /\ toolCalls \in Nat /\ tokens \in Nat /\ textTurns \in Nat
  /\ history \in Seq(Messages) /\ loopSteps \in Seq(Nat) /\ loopTurn \in Seq(Turns)
  /\ loopAnswer \in Seq(Nat) /\ loopHeld \in Seq(Nat)
  /\ ended \in {"no", "done", "error"}

(* Each message's calls are answered by the messages after it. *)
CallsAnswered(h) ==
  \A i \in DOMAIN h :
    /\ Len(h) >= i + h[i].calls
    /\ \A k \in 1..h[i].calls : h[i + k].role = "tool"
    /\ h[i].calls > 0 /\ Len(h) > i + h[i].calls => h[i + h[i].calls + 1].role # "tool"

(* What was asked again: at most one turn each without a call. *)
Retried == (IF retriedEmpty THEN 1 ELSE 0) + (IF retriedLength THEN 1 ELSE 0)
LastTurn == IF ended = "done" THEN 1 ELSE 0
LoopCounts ==
  /\ toolCalls <= MaxToolCalls /\ Len(loopSteps) = toolCalls
  /\ textTurns <= Retried + LastTurn
  /\ Len(loopTurn) <= toolCalls + Retried + LastTurn

(* Turns of t without a call, in order. *)
Spoken(s, t) ==
  /\ \A i \in DOMAIN s : s[i] \in 1..Len(t) /\ t[s[i]].calls = 0
  /\ \A i, j \in DOMAIN s : i < j => s[i] < s[j]
SaidBefore(r, s) == \A i \in DOMAIN r, j \in DOMAIN s : r[i] < s[j]

(* Every turn that said something and called nothing. *)
Says(s, t) ==
  \A n \in DOMAIN t : t[n].calls = 0 /\ t[n].text = "some" => \E i \in DOMAIN s : s[i] = n

NoAside(s, t) ==
  /\ \A i \in DOMAIN s : s[i] <= Len(t) => t[s[i]].calls = 0
  /\ \A i, j \in DOMAIN s : i < j => s[i] < s[j]

LoopText ==
  /\ ended = "no" => Spoken(loopAnswer, loopTurn) /\ Spoken(loopHeld, loopTurn) /\ SaidBefore(loopAnswer, loopHeld)
  /\ NoAside(loopAnswer, loopTurn)
  /\ Says(loopAnswer, loopTurn)
  /\ ended = "done" /\ ~reason => loopAnswer # <<>>
  /\ partial => reason

LoopInv == LoopTypeOK /\ LoopCounts /\ CallsAnswered(history) /\ LoopText

(* A message and the results of its calls. *)
LEMMA HistoryGrows ==
  ASSUME NEW h \in Seq(Messages), CallsAnswered(h), NEW m \in Messages, m.role # "tool",
         NEW g \in Seq(Messages), Len(g) = Len(h) + 1 + m.calls,
         \A i \in 1..Len(h) : g[i] = h[i], g[Len(h) + 1] = m,
         \A k \in 1..m.calls : g[Len(h) + 1 + k].role = "tool" /\ g[Len(h) + 1 + k].calls = 0
  PROVE  CallsAnswered(g)
<1>1. Len(h) \in Nat /\ m.calls \in Nat /\ DOMAIN h = 1..Len(h) /\ DOMAIN g = 1..Len(g)
      /\ \A i \in DOMAIN h : h[i].calls \in Nat
  <2>1. \A i \in DOMAIN h : h[i] \in Messages
    OBVIOUS
  <2>2. \A x \in Messages : x.calls \in Nat
    BY DEF Messages
  <2>3. DOMAIN h = 1..Len(h) /\ DOMAIN g = 1..Len(g) /\ Len(h) \in Nat
    OBVIOUS
  <2> QED BY <2>1, <2>2, <2>3
<1>2. ASSUME NEW i \in DOMAIN g
      PROVE /\ Len(g) >= i + g[i].calls
            /\ \A k \in 1..g[i].calls : g[i + k].role = "tool"
            /\ g[i].calls > 0 /\ Len(g) > i + g[i].calls => g[i + g[i].calls + 1].role # "tool"
  <2>1. CASE i \in 1..Len(h)
    <3>1. PICK c : c = h[i].calls
      OBVIOUS
    <3>2. c \in Nat /\ i \in DOMAIN h /\ g[i].calls = c
      BY <1>1, <2>1, <3>1
    <3>3. /\ Len(h) >= i + c
          /\ \A k \in 1..c : h[i + k].role = "tool"
          /\ c > 0 /\ Len(h) > i + c => h[i + c + 1].role # "tool"
      BY <3>1, <3>2 DEF CallsAnswered
    <3>4. \A k \in 1..c : i + k \in 1..Len(h)
      BY <1>1, <2>1, <3>2, <3>3
    <3>5. \A k \in 1..c : g[i + k].role = "tool"
      BY <3>3, <3>4
    <3>6. Len(h) = i + c \/ (Len(h) > i + c /\ i + c + 1 \in 1..Len(h))
      BY <1>1, <2>1, <3>2, <3>3
    <3>7. c > 0 => g[i + c + 1].role # "tool"
      <4>1. CASE Len(h) = i + c
        BY <4>1
      <4>2. CASE Len(h) > i + c /\ i + c + 1 \in 1..Len(h)
        <5>1. g[i + c + 1] = h[i + c + 1]
          BY <4>2
        <5>2. c > 0 => h[i + c + 1].role # "tool"
          BY <3>3, <4>2
        <5> QED BY <5>1, <5>2
      <4> QED BY <3>6, <4>1, <4>2
    <3>8. Len(g) >= i + c
      BY <1>1, <2>1, <3>2, <3>3
    <3> QED BY <3>2, <3>5, <3>7, <3>8
  <2>2. CASE i = Len(h) + 1
    <3>1. g[i].calls = m.calls /\ Len(g) = i + m.calls
      BY <1>1, <2>2
    <3> QED BY <1>1, <2>2, <3>1
  <2>3. CASE i \in DOMAIN g /\ i > Len(h) + 1
    <3>1. PICK k \in 1..m.calls : i = Len(h) + 1 + k
      <4>1. i - (Len(h) + 1) \in 1..m.calls /\ i = Len(h) + 1 + (i - (Len(h) + 1))
        BY <1>1, <2>3
      <4> QED BY <4>1
    <3>2. g[i].calls = 0
      BY <3>1
    <3> QED BY <1>1, <2>3, <3>2
  <2> QED BY <1>1, <2>1, <2>2, <2>3
<1> QED BY <1>2 DEF CallsAnswered

(* One message more that calls nothing. *)
LEMMA HistoryNoted ==
  ASSUME NEW h \in Seq(Messages), CallsAnswered(h), NEW m \in Messages, m.role # "tool", m.calls = 0
  PROVE  Append(h, m) \in Seq(Messages) /\ CallsAnswered(Append(h, m))
<1>1. PICK g : g = Append(h, m)
  OBVIOUS
<1>2. /\ g \in Seq(Messages) /\ Len(g) = Len(h) + 1 /\ Len(h) \in Nat
      /\ \A i \in 1..Len(h) : g[i] = h[i]
      /\ g[Len(h) + 1] = m
  BY <1>1
<1>3. Len(g) = Len(h) + 1 + m.calls
  BY <1>2
<1>4. \A k \in 1..m.calls : g[Len(h) + 1 + k].role = "tool" /\ g[Len(h) + 1 + k].calls = 0
  OBVIOUS
<1>5. CallsAnswered(g)
  BY <1>2, <1>3, <1>4, HistoryGrows
<1> QED BY <1>1, <1>2, <1>5

LEMMA UsersAre == A!User \in Messages /\ A!User.role # "tool" /\ A!User.calls = 0
BY DEF A!User, Messages

LEMMA AssistantsAre ==
  ASSUME NEW n \in Nat
  PROVE  A!Assistant(n) \in Messages /\ A!Assistant(n).role # "tool" /\ A!Assistant(n).calls = n
BY DEF A!Assistant, Messages

(* A turn that calls, with the results of all its calls. *)
LEMMA HistoryCalled ==
  ASSUME NEW h \in Seq(Messages), CallsAnswered(h), NEW n \in Nat, NEW run \in Nat
  PROVE  /\ Append(h, A!Assistant(n)) \o A!Results(n, run) \in Seq(Messages)
         /\ CallsAnswered(Append(h, A!Assistant(n)) \o A!Results(n, run))
<1>1. PICK m, a, r, g : m = A!Assistant(n) /\ a = Append(h, m) /\ r = A!Results(n, run) /\ g = a \o r
  OBVIOUS
<1>2. m \in Messages /\ m.role # "tool" /\ m.calls = n
  BY <1>1, AssistantsAre
<1>3. r \in Seq(Messages) /\ Len(r) = n /\ DOMAIN r = 1..n
      /\ \A k \in 1..n : r[k].role = "tool" /\ r[k].calls = 0
  <2>1. r = [i \in 1..n |-> [role |-> "tool", calls |-> 0, ran |-> i <= run]]
    BY <1>1 DEF A!Results
  <2>2. \A i \in 1..n : [role |-> "tool", calls |-> 0, ran |-> i <= run] \in Messages
    BY DEF Messages
  <2>3. r \in [1..n -> Messages]
    BY <2>1, <2>2
  <2>4. r \in Seq(Messages) /\ Len(r) = n /\ DOMAIN r = 1..n
    BY <2>3
  <2>5. \A k \in 1..n : r[k].role = "tool" /\ r[k].calls = 0
    BY <2>1
  <2> QED BY <2>4, <2>5
<1>4. /\ a \in Seq(Messages) /\ Len(a) = Len(h) + 1 /\ Len(h) \in Nat
      /\ \A i \in 1..Len(h) : a[i] = h[i]
      /\ a[Len(h) + 1] = m
  BY <1>1, <1>2
<1>5. /\ g \in Seq(Messages) /\ Len(g) = Len(a) + n
      /\ \A i \in 1..Len(a) : g[i] = a[i]
      /\ \A k \in 1..n : g[Len(a) + k] = r[k]
  <2>1. g = a \o r /\ a \in Seq(Messages) /\ r \in Seq(Messages) /\ Len(r) = n
    BY <1>1, <1>3, <1>4
  <2>2. /\ g \in Seq(Messages) /\ Len(g) = Len(a) + n /\ Len(a) \in Nat
        /\ \A i \in 1..(Len(a) + n) : g[i] = IF i <= Len(a) THEN a[i] ELSE r[i - Len(a)]
    <3>1. /\ a \o r \in Seq(Messages) /\ Len(a \o r) = Len(a) + Len(r)
          /\ \A i \in 1..(Len(a) + Len(r)) :
               (a \o r)[i] = IF i <= Len(a) THEN a[i] ELSE r[i - Len(a)]
      BY <2>1, ConcatProperties
    <3>2. Len(a) \in Nat
      BY <2>1
    <3> QED BY <2>1, <3>1, <3>2
  <2>3. ASSUME NEW k \in 1..n PROVE g[Len(a) + k] = r[k]
    <3>1. Len(a) + k \in 1..(Len(a) + n) /\ ~(Len(a) + k <= Len(a)) /\ (Len(a) + k) - Len(a) = k
      BY <2>2
    <3> QED BY <2>2, <3>1
  <2> QED BY <2>2, <2>3
<1>6. Len(g) = Len(h) + 1 + m.calls /\ g[Len(h) + 1] = m /\ \A i \in 1..Len(h) : g[i] = h[i]
  BY <1>2, <1>4, <1>5
<1>7. \A k \in 1..m.calls : g[Len(h) + 1 + k].role = "tool" /\ g[Len(h) + 1 + k].calls = 0
  <2>1. ASSUME NEW k \in 1..n PROVE g[Len(h) + 1 + k] = r[k]
    BY <1>4, <1>5
  <2> QED BY <1>2, <1>3, <2>1
<1>8. CallsAnswered(g)
  BY <1>2, <1>5, <1>6, <1>7, HistoryGrows
<1> QED BY <1>1, <1>5, <1>8

(* A turn begins: what every kind of turn keeps. *)
Began(n, w) ==
  /\ loopTurn' \in Seq(Turns) /\ Len(loopTurn') = Len(loopTurn) + 1 /\ Len(loopTurn) \in Nat
  /\ \A k \in 1..Len(loopTurn) : loopTurn'[k] = loopTurn[k]
  /\ loopTurn'[Len(loopTurn')].calls = n /\ loopTurn'[Len(loopTurn')].text = w

LEMMA TurnBegins ==
  ASSUME loopTurn \in Seq(Turns), NEW x \in Turns, loopTurn' = Append(loopTurn, x)
  PROVE  Began(x.calls, x.text)
<1>1. PICK s, t : s = loopTurn /\ t = loopTurn'
  OBVIOUS
<1>2. t \in Seq(Turns) /\ Len(t) = Len(s) + 1 /\ Len(s) \in Nat
      /\ (\A k \in 1..Len(s) : t[k] = s[k]) /\ t[Len(s) + 1] = x
  BY <1>1
<1> QED BY <1>1, <1>2 DEF Began

LEMMA RepliesAre ==
  ASSUME NEW r \in A!Reply
  PROVE  /\ r.calls \in Nat /\ r.calls \in 0..CallsPerTurn /\ r.text \in {"none", "held", "some"}
         /\ r.finish \in {"stop", "length"}
         /\ [calls |-> r.calls, text |-> r.text] \in Turns
BY LoopAssumption DEF A!Reply, Turns

LEMMA TurnIsSpent ==
  ASSUME LoopTypeOK, NEW r \in A!Reply, NEW t \in {0, 1}, A!Generate(r, t)
  PROVE  /\ Began(r.calls, r.text) /\ tokens' \in Nat /\ ended = "no"
         /\ textTurns' = (IF A!AllowTools THEN textTurns ELSE textTurns + 1)
         /\ loopFixed' = loopFixed /\ late' = late
<1> USE LoopAssumption
<1>1. loopTurn \in Seq(Turns) /\ loopTurn' = Append(loopTurn, [calls |-> r.calls, text |-> r.text])
  BY DEF LoopTypeOK, A!Generate
<1>2. Began(r.calls, r.text)
  BY <1>1, TurnBegins, RepliesAre
<1>3. tokens' \in Nat
  BY DEF A!Generate, A!Spend, LoopTypeOK
<1> QED BY <1>2, <1>3 DEF A!Generate

(***************************************************************************)
(* Text: what the answer and the scanner hold.                             *)
(***************************************************************************)
Longer(t, u) ==
  /\ t \in Seq(Turns) /\ u \in Seq(Turns) /\ Len(t) \in Nat /\ Len(u) = Len(t) + 1
  /\ \A k \in 1..Len(t) : u[k] = t[k]

LEMMA SpokenStays ==
  ASSUME NEW s \in Seq(Nat), NEW t, NEW u, Longer(t, u), Spoken(s, t)
  PROVE  Spoken(s, u)
<1>1. ASSUME NEW i \in DOMAIN s PROVE s[i] \in 1..Len(u) /\ u[s[i]].calls = 0
  <2>1. PICK n : n = s[i]
    OBVIOUS
  <2>2. n \in 1..Len(t) /\ t[n].calls = 0
    BY <2>1 DEF Spoken
  <2>3. u[n] = t[n] /\ n \in 1..Len(u)
    BY <2>2 DEF Longer
  <2> QED BY <2>1, <2>2, <2>3
<1> QED BY <1>1 DEF Spoken

LEMMA SpokenGrows ==
  ASSUME NEW s \in Seq(Nat), NEW t, NEW u, Longer(t, u), Spoken(s, t), u[Len(u)].calls = 0
  PROVE  Append(s, Len(u)) \in Seq(Nat) /\ Spoken(Append(s, Len(u)), u)
<1>1. PICK a, m : a = Append(s, m) /\ m = Len(u)
  OBVIOUS
<1>2. m \in Nat /\ m \in 1..Len(u) /\ m = Len(t) + 1 /\ Len(t) \in Nat
  BY <1>1 DEF Longer
<1>3. /\ a \in Seq(Nat) /\ DOMAIN a = 1..(Len(s) + 1) /\ a[Len(s) + 1] = m
      /\ DOMAIN s = 1..Len(s) /\ Len(s) \in Nat /\ \A i \in 1..Len(s) : a[i] = s[i]
  BY <1>1, <1>2
<1>4. Spoken(s, u)
  BY SpokenStays
<1>5. \A i \in DOMAIN a : a[i] \in 1..Len(u) /\ u[a[i]].calls = 0
  <2>1. ASSUME NEW i \in 1..Len(s) PROVE a[i] \in 1..Len(u) /\ u[a[i]].calls = 0
    BY <1>3, <1>4 DEF Spoken
  <2>2. a[Len(s) + 1] \in 1..Len(u) /\ u[a[Len(s) + 1]].calls = 0
    BY <1>1, <1>2, <1>3
  <2>3. DOMAIN a = 1..Len(s) \cup {Len(s) + 1}
    BY <1>3
  <2> QED BY <2>1, <2>2, <2>3
<1>6. ASSUME NEW i \in DOMAIN a, NEW j \in DOMAIN a, i < j PROVE a[i] < a[j]
  <2>1. i \in 1..Len(s) /\ a[i] = s[i] /\ s[i] \in 1..Len(t)
    BY <1>3, <1>6 DEF Spoken
  <2>2. CASE j \in 1..Len(s)
    <3>1. i \in DOMAIN s /\ j \in DOMAIN s /\ a[j] = s[j]
      BY <1>3, <2>1, <2>2
    <3> QED BY <1>6, <2>1, <3>1 DEF Spoken
  <2>3. CASE j = Len(s) + 1
    BY <1>2, <1>3, <2>1, <2>3
  <2>4. DOMAIN a = 1..Len(s) \cup {Len(s) + 1}
    BY <1>3
  <2> QED BY <2>2, <2>3, <2>4
<1> QED BY <1>1, <1>3, <1>5, <1>6 DEF Spoken

LEMMA BeforeGrows ==
  ASSUME NEW r \in Seq(Nat), NEW s \in Seq(Nat), NEW t, NEW u, Longer(t, u),
         Spoken(r, t), SaidBefore(r, s)
  PROVE  SaidBefore(r, Append(s, Len(u)))
<1>1. PICK a, m : a = Append(s, m) /\ m = Len(u)
  OBVIOUS
<1>2. m \in Nat /\ m = Len(t) + 1 /\ Len(t) \in Nat
  BY <1>1 DEF Longer
<1>3. /\ DOMAIN a = 1..(Len(s) + 1) /\ a[Len(s) + 1] = m
      /\ DOMAIN s = 1..Len(s) /\ Len(s) \in Nat /\ \A i \in 1..Len(s) : a[i] = s[i]
  BY <1>1, <1>2
<1>4. ASSUME NEW i \in DOMAIN r, NEW j \in DOMAIN a PROVE r[i] < a[j]
  <2>1. r[i] \in 1..Len(t)
    BY DEF Spoken
  <2>2. CASE j \in 1..Len(s)
    BY <1>3, <2>2 DEF SaidBefore
  <2>3. CASE j = Len(s) + 1
    BY <1>2, <1>3, <2>1, <2>3
  <2> QED BY <1>3, <2>2, <2>3
<1> QED BY <1>1, <1>4 DEF SaidBefore

LEMMA SpokenJoined ==
  ASSUME NEW r \in Seq(Nat), NEW s \in Seq(Nat), NEW t, Spoken(r, t), Spoken(s, t),
         SaidBefore(r, s)
  PROVE  r \o s \in Seq(Nat) /\ Spoken(r \o s, t)
<1>1. PICK a : a = r \o s
  OBVIOUS
<1>2. /\ a \in Seq(Nat) /\ DOMAIN a = 1..(Len(r) + Len(s)) /\ Len(r) \in Nat /\ Len(s) \in Nat
      /\ DOMAIN r = 1..Len(r) /\ DOMAIN s = 1..Len(s)
      /\ \A i \in 1..Len(r) : a[i] = r[i]
      /\ \A j \in (Len(r) + 1)..(Len(r) + Len(s)) : a[j] = s[j - Len(r)] /\ j - Len(r) \in 1..Len(s)
  <2>1. /\ a \in Seq(Nat) /\ Len(a) = Len(r) + Len(s)
        /\ \A i \in 1..(Len(r) + Len(s)) : a[i] = IF i <= Len(r) THEN r[i] ELSE s[i - Len(r)]
    BY <1>1, ConcatProperties
  <2>2. Len(r) \in Nat /\ Len(s) \in Nat /\ DOMAIN r = 1..Len(r) /\ DOMAIN s = 1..Len(s)
        /\ DOMAIN a = 1..(Len(r) + Len(s))
    BY <2>1
  <2> QED BY <2>1, <2>2
<1>3. ASSUME NEW i \in DOMAIN a PROVE a[i] \in 1..Len(t) /\ t[a[i]].calls = 0
  <2>1. CASE i \in 1..Len(r)
    BY <1>2, <2>1 DEF Spoken
  <2>2. CASE i \in (Len(r) + 1)..(Len(r) + Len(s))
    <3>1. PICK k : k = i - Len(r)
      OBVIOUS
    <3>2. k \in DOMAIN s /\ a[i] = s[k]
      BY <1>2, <2>2, <3>1
    <3> QED BY <3>2 DEF Spoken
  <2> QED BY <1>2, <2>1, <2>2
<1>4. ASSUME NEW i \in DOMAIN a, NEW j \in DOMAIN a, i < j PROVE a[i] < a[j]
  <2>1. CASE i \in 1..Len(r) /\ j \in 1..Len(r)
    BY <1>2, <1>4, <2>1 DEF Spoken
  <2>2. CASE i \in 1..Len(r) /\ j \in (Len(r) + 1)..(Len(r) + Len(s))
    BY <1>2, <2>2 DEF SaidBefore
  <2>3. CASE i \in (Len(r) + 1)..(Len(r) + Len(s)) /\ j \in (Len(r) + 1)..(Len(r) + Len(s))
    <3>1. PICK k, l : k = i - Len(r) /\ l = j - Len(r)
      OBVIOUS
    <3>2. k \in DOMAIN s /\ a[i] = s[k]
      BY <1>2, <2>3, <3>1
    <3>3. l \in DOMAIN s /\ a[j] = s[l]
      BY <1>2, <2>3, <3>1
    <3>4. k < l
      BY <1>2, <1>4, <2>3, <3>1
    <3> QED BY <3>2, <3>3, <3>4 DEF Spoken
  <2>4. i \in 1..Len(r) \/ i \in (Len(r) + 1)..(Len(r) + Len(s))
    BY <1>2
  <2>5. j \in 1..Len(r) \/ j \in (Len(r) + 1)..(Len(r) + Len(s))
    BY <1>2
  <2>6. ~(i \in (Len(r) + 1)..(Len(r) + Len(s)) /\ j \in 1..Len(r))
    BY <1>2, <1>4
  <2> QED BY <2>1, <2>2, <2>3, <2>4, <2>5, <2>6
<1> QED BY <1>1, <1>2, <1>3, <1>4 DEF Spoken

LEMMA SpokenIsNoAside == ASSUME NEW s, NEW t, Spoken(s, t) PROVE NoAside(s, t)
BY DEF Spoken, NoAside

(* A turn that says nothing for the answer, or calls. *)
LEMMA SaysStill ==
  ASSUME NEW s, NEW t, NEW u, Longer(t, u), Says(s, t),
         u[Len(u)].calls = 0 => u[Len(u)].text # "some"
  PROVE  Says(s, u)
<1>1. DOMAIN t = 1..Len(t) /\ DOMAIN u = 1..(Len(t) + 1) /\ Len(t) \in Nat /\ Len(u) = Len(t) + 1
  BY DEF Longer
<1>2. ASSUME NEW n \in DOMAIN u, u[n].calls = 0, u[n].text = "some"
      PROVE  \E i \in DOMAIN s : s[i] = n
  <2>1. n \in DOMAIN t
    BY <1>1, <1>2
  <2>2. u[n] = t[n]
    BY <1>1, <2>1 DEF Longer
  <2> QED BY <1>2, <2>1, <2>2 DEF Says
<1> QED BY <1>2 DEF Says

(* The last turn's text goes to the end of the answer. *)
LEMMA SaysMore ==
  ASSUME NEW r \in Seq(Nat), NEW s \in Seq(Nat), NEW t, NEW u, Longer(t, u), Says(r, t)
  PROVE  Says(r \o Append(s, Len(u)), u)
<1>1. PICK a, b, m : m = Len(u) /\ b = Append(s, m) /\ a = r \o b
  OBVIOUS
<1>2. m \in Nat /\ m = Len(t) + 1 /\ Len(t) \in Nat /\ DOMAIN u = 1..m /\ DOMAIN t = 1..Len(t)
  BY <1>1 DEF Longer
<1>3. b \in Seq(Nat) /\ Len(b) = Len(s) + 1 /\ b[Len(s) + 1] = m /\ Len(s) \in Nat
  BY <1>1, <1>2
<1>4. /\ DOMAIN a = 1..(Len(r) + Len(b)) /\ Len(r) \in Nat /\ DOMAIN r = 1..Len(r)
      /\ \A i \in 1..Len(r) : a[i] = r[i]
  BY <1>1, <1>3
<1>5. Len(r) + Len(b) \in DOMAIN a /\ a[Len(r) + Len(b)] = m
  <2>1. a = r \o b /\ r \in Seq(Nat) /\ b \in Seq(Nat) /\ Len(b) \in 1..Len(b)
    BY <1>1, <1>3
  <2>2. a[Len(r) + Len(b)] = b[Len(b)]
    BY <2>1, ConcatProperties
  <2>3. Len(r) + Len(b) \in DOMAIN a
    BY <1>3, <1>4
  <2> QED BY <1>3, <2>2, <2>3
<1>6. ASSUME NEW n \in DOMAIN u, u[n].calls = 0, u[n].text = "some"
      PROVE  \E i \in DOMAIN a : a[i] = n
  <2>1. CASE n = m
    BY <1>5, <2>1
  <2>2. CASE n \in DOMAIN t
    <3>1. u[n] = t[n]
      BY <1>2, <2>2 DEF Longer
    <3>2. PICK i \in DOMAIN r : r[i] = n
      BY <1>6, <2>2, <3>1 DEF Says
    <3>3. i \in DOMAIN a /\ a[i] = n
      BY <1>3, <1>4, <3>2
    <3> QED BY <3>3
  <2> QED BY <1>2, <2>1, <2>2
<1> QED BY <1>1, <1>6 DEF Says

(* Nothing said so far stays in an answer that only grows. *)
LEMMA SaysJoined ==
  ASSUME NEW r \in Seq(Nat), NEW s \in Seq(Nat), NEW t, Says(r, t)
  PROVE  Says(r \o s, t)
<1>1. PICK a : a = r \o s
  OBVIOUS
<1>2. /\ DOMAIN a = 1..(Len(r) + Len(s)) /\ Len(r) \in Nat /\ Len(s) \in Nat /\ DOMAIN r = 1..Len(r)
      /\ \A i \in 1..Len(r) : a[i] = r[i]
  BY <1>1
<1>3. ASSUME NEW n \in DOMAIN t, t[n].calls = 0, t[n].text = "some"
      PROVE  \E i \in DOMAIN a : a[i] = n
  <2>1. PICK i \in DOMAIN r : r[i] = n
    BY <1>3 DEF Says
  <2>2. i \in DOMAIN a /\ a[i] = n
    BY <1>2, <2>1
  <2> QED BY <2>2
<1> QED BY <1>1, <1>3 DEF Says

LEMMA BeganIsLonger ==
  ASSUME loopTurn \in Seq(Turns), NEW n, NEW w, Began(n, w)
  PROVE  Longer(loopTurn, loopTurn') /\ loopTurn'[Len(loopTurn')].calls = n /\ loopTurn'[Len(loopTurn')].text = w
BY DEF Began, Longer

(* A turn that adds nothing to the answer, nor to what is held. *)
LEMMA TextUntouched ==
  ASSUME LoopTypeOK, LoopText, ended = "no", NEW n, NEW w, Began(n, w), n = 0 => w # "some",
         loopAnswer' = loopAnswer, loopHeld' = loopHeld \/ loopHeld' = <<>>,
         ended' # "done" \/ reason', partial' => reason'
  PROVE  LoopText'
<1>1. loopTurn \in Seq(Turns) /\ loopAnswer \in Seq(Nat) /\ loopHeld \in Seq(Nat)
  BY DEF LoopTypeOK
<1>2. Longer(loopTurn, loopTurn') /\ loopTurn'[Len(loopTurn')].calls = n /\ loopTurn'[Len(loopTurn')].text = w
  BY <1>1, BeganIsLonger
<1>3. Spoken(loopAnswer, loopTurn) /\ Spoken(loopHeld, loopTurn) /\ SaidBefore(loopAnswer, loopHeld) /\ Says(loopAnswer, loopTurn)
  BY DEF LoopText
<1>4. Spoken(loopAnswer, loopTurn') /\ Spoken(loopHeld, loopTurn')
  BY <1>1, <1>2, <1>3, SpokenStays
<1>5. Spoken(loopHeld', loopTurn') /\ SaidBefore(loopAnswer, loopHeld')
  <2>1. Spoken(<<>>, loopTurn') /\ SaidBefore(loopAnswer, <<>>)
    BY DEF Spoken, SaidBefore
  <2> QED BY <1>3, <1>4, <2>1
<1>6. NoAside(loopAnswer, loopTurn')
  BY <1>4, SpokenIsNoAside
<1>7. Says(loopAnswer, loopTurn')
  BY <1>2, <1>3, SaysStill
<1>8. Spoken(loopAnswer', loopTurn') /\ SaidBefore(loopAnswer', loopHeld') /\ NoAside(loopAnswer', loopTurn')
      /\ Says(loopAnswer', loopTurn')
  BY <1>4, <1>5, <1>6, <1>7
<1>9. ended' = "done" /\ ~reason' => loopAnswer' # <<>>
  OBVIOUS
<1> QED BY <1>5, <1>8, <1>9 DEF LoopText

(***************************************************************************)
(* The steps.                                                              *)
(***************************************************************************)
LEMMA LoopBegins == ASSUME A!Init PROVE LoopInv
<1>1. LoopTypeOK
  <2>1. history \in Seq(Messages) /\ loopSteps \in Seq(Nat) /\ loopTurn \in Seq(Turns)
        /\ loopAnswer \in Seq(Nat) /\ loopHeld \in Seq(Nat) /\ toolCalls \in Nat /\ tokens \in Nat
        /\ textTurns \in Nat
    BY DEF A!Init
  <2> QED BY <2>1, Zenon DEF A!Init, LoopTypeOK
<1>2. LoopCounts
  BY LoopAssumption DEF A!Init, LoopCounts, Retried, LastTurn
<1>3. CallsAnswered(history)
  BY DEF A!Init, CallsAnswered
<1>4. LoopText
  BY DEF A!Init, LoopText, Spoken, SaidBefore, NoAside, Says
<1> QED BY <1>1, <1>2, <1>3, <1>4 DEF LoopInv

LEMMA PolicyToolKeeps == ASSUME LoopInv, A!PolicyTool PROVE LoopInv'
<1>1. LoopTypeOK /\ LoopCounts /\ CallsAnswered(history) /\ LoopText
  BY DEF LoopInv
<1>2. /\ ended = "no" /\ ended' = "no" /\ A!Left > 0
      /\ loopTurn' = Append(loopTurn, [calls |-> 1, text |-> "none"])
      /\ toolCalls' = toolCalls + 1 /\ loopSteps' = Append(loopSteps, Len(loopTurn'))
      /\ history' = Append(history, A!User)
      /\ UNCHANGED <<loopFixed, tokens, late, retriedEmpty, retriedLength, forceText, loopAnswer, loopHeld,
                 textTurns, partial, reason>>
  BY DEF A!PolicyTool, A!PolicyWantsTool, A!User
<1>3. Began(1, "none")
  <2>1. [calls |-> 1, text |-> "none"] \in Turns
    BY DEF Turns
  <2>2. loopTurn \in Seq(Turns)
    BY <1>1 DEF LoopTypeOK
  <2> QED BY <1>2, <2>1, <2>2, TurnBegins
<1>4. history' \in Seq(Messages) /\ CallsAnswered(history')
  <2>1. history \in Seq(Messages)
    BY <1>1 DEF LoopTypeOK
  <2> QED BY <1>1, <1>2, <2>1, HistoryNoted, UsersAre
<1>5. LoopTypeOK'
  <2>1. loopSteps' \in Seq(Nat) /\ toolCalls' \in Nat
    BY <1>1, <1>2, <1>3 DEF LoopTypeOK, Began
  <2> QED BY <1>1, <1>2, <1>3, <1>4, <2>1 DEF LoopTypeOK, Began
<1>6. LoopCounts'
  <2>1. toolCalls' <= MaxToolCalls
    BY <1>1, <1>2, LoopAssumption DEF A!Left, LoopTypeOK
  <2>2. Len(loopSteps') = Len(loopSteps) + 1
    BY <1>1, <1>2 DEF LoopTypeOK
  <2> QED BY <1>1, <1>2, <1>3, <2>1, <2>2 DEF LoopCounts, LoopTypeOK, Began, Retried, LastTurn
<1>7. LoopText'
  <2>1. 1 = 0 => "none" # "some"
    OBVIOUS
  <2>2. loopAnswer' = loopAnswer /\ (loopHeld' = loopHeld \/ loopHeld' = <<>>) /\ (ended' # "done" \/ reason')
    BY <1>2
  <2>3. partial' => reason'
    BY <1>1, <1>2 DEF LoopText
  <2> QED BY <1>1, <1>2, <1>3, <2>1, <2>2, <2>3, TextUntouched
<1> QED BY <1>4, <1>5, <1>6, <1>7 DEF LoopInv

LEMMA SeqsJoin ==
  ASSUME NEW r \in Seq(Nat), NEW s \in Seq(Nat)
  PROVE  /\ r \o <<>> = r /\ <<>> \o r = r /\ r \o s \in Seq(Nat)
         /\ Len(r \o s) = Len(r) + Len(s)
         /\ s # <<>> => r \o s # <<>>
         /\ r # <<>> => r \o s # <<>>
         /\ \A n \in Nat : Append(s, n) \in Seq(Nat) /\ Append(s, n) # <<>>
<1>1. r \o <<>> = r /\ <<>> \o r = r /\ r \o s \in Seq(Nat)
  OBVIOUS
<1>2. Len(r \o s) = Len(r) + Len(s) /\ Len(r) \in Nat /\ Len(s) \in Nat
  OBVIOUS
<1>3. (s # <<>> => Len(s) > 0) /\ (r # <<>> => Len(r) > 0)
  OBVIOUS
<1>4. \A n \in Nat : Append(s, n) \in Seq(Nat) /\ Append(s, n) # <<>>
  OBVIOUS
<1> QED BY <1>1, <1>2, <1>3, <1>4

(* Text that goes on: released to the answer, held, or none. *)
LEMMA TextGoesOn ==
  ASSUME LoopTypeOK, LoopText, ended = "no", NEW w \in {"none", "held", "some"}, Began(0, w),
         loopAnswer' = loopAnswer \o A!Released(w, Len(loopTurn')), loopHeld' = A!HeldNow(w, Len(loopTurn')),
         ended' = "no", partial' => reason'
  PROVE  LoopText' /\ loopAnswer' \in Seq(Nat) /\ loopHeld' \in Seq(Nat)
<1>1. loopTurn \in Seq(Turns) /\ loopAnswer \in Seq(Nat) /\ loopHeld \in Seq(Nat)
  BY DEF LoopTypeOK
<1>2. Longer(loopTurn, loopTurn') /\ loopTurn'[Len(loopTurn')].calls = 0 /\ loopTurn'[Len(loopTurn')].text = w
  BY <1>1, BeganIsLonger
<1>3. PICK m, ah : m = Len(loopTurn') /\ ah = Append(loopHeld, m)
  OBVIOUS
<1>4. m \in Nat
  BY <1>2, <1>3 DEF Longer
<1>5. Spoken(loopAnswer, loopTurn) /\ Spoken(loopHeld, loopTurn) /\ SaidBefore(loopAnswer, loopHeld) /\ Says(loopAnswer, loopTurn)
  BY DEF LoopText
<1>6. Spoken(loopAnswer, loopTurn') /\ Spoken(loopHeld, loopTurn')
  BY <1>1, <1>2, <1>5, SpokenStays
<1>7. ah \in Seq(Nat) /\ Spoken(ah, loopTurn')
  BY <1>1, <1>2, <1>3, <1>5, SpokenGrows
<1>8. SaidBefore(loopAnswer, ah)
  BY <1>1, <1>2, <1>3, <1>5, BeforeGrows
<1>9. /\ loopAnswer' \in Seq(Nat) /\ loopHeld' \in Seq(Nat)
      /\ Spoken(loopAnswer', loopTurn') /\ Spoken(loopHeld', loopTurn') /\ SaidBefore(loopAnswer', loopHeld')
      /\ Says(loopAnswer', loopTurn')
  <2>1. CASE w = "some"
    <3>1. loopAnswer' = loopAnswer \o ah /\ loopHeld' = <<>>
      BY <1>3, <2>1 DEF A!Released, A!HeldNow
    <3>2. loopAnswer \o ah \in Seq(Nat) /\ Spoken(loopAnswer \o ah, loopTurn')
      BY <1>1, <1>6, <1>7, <1>8, SpokenJoined
    <3>3. Says(loopAnswer \o ah, loopTurn')
      BY <1>1, <1>2, <1>3, <1>5, SaysMore
    <3>4. \A x : Spoken(<<>>, x) /\ SaidBefore(x, <<>>)
      BY DEF Spoken, SaidBefore
    <3> QED BY <3>1, <3>2, <3>3, <3>4
  <2>2. CASE w # "some"
    <3>1. loopAnswer' = loopAnswer
      BY <1>1, <2>2, SeqsJoin DEF A!Released
    <3>2. loopHeld' = loopHeld \/ loopHeld' = ah
      BY <1>3, <2>2 DEF A!HeldNow
    <3>3. Says(loopAnswer, loopTurn')
      BY <1>2, <1>5, <2>2, SaysStill
    <3> QED BY <1>1, <1>5, <1>6, <1>7, <1>8, <3>1, <3>2, <3>3
  <2> QED BY <2>1, <2>2
<1>10. NoAside(loopAnswer', loopTurn')
  BY <1>9, SpokenIsNoAside
<1> QED BY <1>9, <1>10 DEF LoopText

(* The answer is told, with what the scanner holds. *)
LEMMA TextEnds ==
  ASSUME LoopTypeOK, LoopText, ended = "no", NEW w \in {"none", "held", "some"}, Began(0, w),
         loopAnswer' = loopAnswer \o A!Released(w, Len(loopTurn')) \o A!HeldNow(w, Len(loopTurn')),
         ~(w = "none" /\ loopAnswer = <<>>), ended' = "done", partial' => reason'
  PROVE  LoopText' /\ loopAnswer' \in Seq(Nat)
<1>1. loopTurn \in Seq(Turns) /\ loopAnswer \in Seq(Nat) /\ loopHeld \in Seq(Nat)
  BY DEF LoopTypeOK
<1>2. Longer(loopTurn, loopTurn') /\ loopTurn'[Len(loopTurn')].calls = 0 /\ loopTurn'[Len(loopTurn')].text = w
  BY <1>1, BeganIsLonger
<1>3. PICK m, ah : m = Len(loopTurn') /\ ah = Append(loopHeld, m)
  OBVIOUS
<1>4. m \in Nat
  BY <1>2, <1>3 DEF Longer
<1>5. Spoken(loopAnswer, loopTurn) /\ Spoken(loopHeld, loopTurn) /\ SaidBefore(loopAnswer, loopHeld) /\ Says(loopAnswer, loopTurn)
  BY DEF LoopText
<1>6. Spoken(loopAnswer, loopTurn') /\ Spoken(loopHeld, loopTurn')
  BY <1>1, <1>2, <1>5, SpokenStays
<1>7. ah \in Seq(Nat) /\ Spoken(ah, loopTurn')
  BY <1>1, <1>2, <1>3, <1>5, SpokenGrows
<1>8. SaidBefore(loopAnswer, ah)
  BY <1>1, <1>2, <1>3, <1>5, BeforeGrows
<1>9. loopAnswer' \in Seq(Nat) /\ loopAnswer' # <<>> /\ Spoken(loopAnswer', loopTurn') /\ Says(loopAnswer', loopTurn')
  <2>1. CASE w = "none"
    <3>1. loopAnswer' = loopAnswer \o loopHeld
      <4>1. loopAnswer \o <<>> = loopAnswer
        BY <1>1, SeqsJoin
      <4>2. A!Released(w, Len(loopTurn')) = <<>> /\ A!HeldNow(w, Len(loopTurn')) = loopHeld
        BY <2>1 DEF A!Released, A!HeldNow
      <4> QED BY <4>1, <4>2
    <3>2. loopAnswer \o loopHeld \in Seq(Nat) /\ Spoken(loopAnswer \o loopHeld, loopTurn')
      BY <1>1, <1>5, <1>6, SpokenJoined
    <3>3. Says(loopAnswer, loopTurn')
      BY <1>2, <1>5, <2>1, SaysStill
    <3>4. Says(loopAnswer \o loopHeld, loopTurn')
      BY <1>1, <3>3, SaysJoined
    <3>5. loopAnswer \o loopHeld # <<>>
      BY <1>1, <2>1, SeqsJoin
    <3> QED BY <3>1, <3>2, <3>4, <3>5
  <2>2. CASE w # "none"
    <3>1. loopAnswer' = loopAnswer \o ah
      <4>1. CASE w = "some"
        <5>1. A!Released(w, Len(loopTurn')) = ah /\ A!HeldNow(w, Len(loopTurn')) = <<>>
          BY <1>3, <4>1 DEF A!Released, A!HeldNow
        <5>2. loopAnswer \o ah \in Seq(Nat)
          BY <1>1, <1>7, SeqsJoin
        <5>3. (loopAnswer \o ah) \o <<>> = loopAnswer \o ah
          BY <5>2, SeqsJoin
        <5> QED BY <5>1, <5>3
      <4>2. CASE w = "held"
        <5>1. A!Released(w, Len(loopTurn')) = <<>> /\ A!HeldNow(w, Len(loopTurn')) = ah
          BY <1>3, <4>2 DEF A!Released, A!HeldNow
        <5>2. loopAnswer \o <<>> = loopAnswer
          BY <1>1, SeqsJoin
        <5> QED BY <5>1, <5>2
      <4> QED BY <2>2, <4>1, <4>2
    <3>2. loopAnswer \o ah \in Seq(Nat) /\ Spoken(loopAnswer \o ah, loopTurn')
      BY <1>1, <1>6, <1>7, <1>8, SpokenJoined
    <3>3. Says(loopAnswer \o ah, loopTurn')
      BY <1>1, <1>2, <1>3, <1>5, SaysMore
    <3>4. loopAnswer \o ah # <<>>
      <4>1. ah # <<>>
        BY <1>1, <1>3, <1>4, SeqsJoin
      <4> QED BY <1>1, <1>7, <4>1, SeqsJoin
    <3> QED BY <3>1, <3>2, <3>3, <3>4
  <2> QED BY <2>1, <2>2
<1>10. NoAside(loopAnswer', loopTurn')
  BY <1>9, SpokenIsNoAside
<1>11. ended' # "no"
  OBVIOUS
<1> QED BY <1>9, <1>10, <1>11 DEF LoopText

(* An answer from the notes alone: one more turn, after all that were begun. *)
LEMMA TextFromNotes ==
  ASSUME LoopTypeOK, LoopText, ended = "no", Began(0, "none"), loopAnswer = <<>>,
         NEW w \in {"none", "held", "some"},
         loopAnswer' = loopAnswer \o A!Released(w, Len(loopTurn') + 1)
                   \o (IF w = "held" THEN Append(loopHeld, Len(loopTurn') + 1)
                       ELSE IF w = "none" THEN loopHeld ELSE <<>>),
         ended' = "done", reason'
  PROVE  LoopText' /\ loopAnswer' \in Seq(Nat)
<1>1. loopTurn \in Seq(Turns) /\ loopHeld \in Seq(Nat) /\ <<>> \in Seq(Nat)
  BY DEF LoopTypeOK
<1>2. Longer(loopTurn, loopTurn') /\ loopTurn'[Len(loopTurn')].calls = 0 /\ loopTurn'[Len(loopTurn')].text = "none"
  BY <1>1, BeganIsLonger
<1>3. PICK m, ah : m = Len(loopTurn') + 1 /\ ah = Append(loopHeld, m)
  OBVIOUS
<1>4. m \in Nat /\ m = Len(loopTurn') + 1 /\ Len(loopTurn') \in Nat
  BY <1>2, <1>3 DEF Longer
<1>5. Spoken(loopHeld, loopTurn')
  <2>1. Spoken(loopHeld, loopTurn)
    BY DEF LoopText
  <2> QED BY <1>1, <1>2, <2>1, SpokenStays
<1>6. NoAside(loopHeld, loopTurn')
  BY <1>5, SpokenIsNoAside
<1>7. ah \in Seq(Nat) /\ NoAside(ah, loopTurn')
  <2>1. /\ ah \in Seq(Nat) /\ DOMAIN ah = 1..(Len(loopHeld) + 1) /\ ah[Len(loopHeld) + 1] = m
        /\ DOMAIN loopHeld = 1..Len(loopHeld) /\ Len(loopHeld) \in Nat
        /\ \A i \in 1..Len(loopHeld) : ah[i] = loopHeld[i]
    BY <1>1, <1>3, <1>4
  <2>2. \A i \in 1..Len(loopHeld) : ah[i] \in 1..Len(loopTurn') /\ loopTurn'[ah[i]].calls = 0
    BY <1>5, <2>1 DEF Spoken
  <2>3. ASSUME NEW i \in DOMAIN ah, ah[i] <= Len(loopTurn') PROVE loopTurn'[ah[i]].calls = 0
    <3>1. i # Len(loopHeld) + 1
      BY <1>4, <2>1, <2>3
    <3>2. i \in 1..Len(loopHeld)
      BY <2>1, <3>1
    <3> QED BY <2>2, <3>2
  <2>4. ASSUME NEW i \in DOMAIN ah, NEW j \in DOMAIN ah, i < j PROVE ah[i] < ah[j]
    <3>1. i \in 1..Len(loopHeld) /\ ah[i] \in 1..Len(loopTurn')
      BY <2>1, <2>2, <2>4
    <3>2. CASE j \in 1..Len(loopHeld)
      BY <1>5, <2>1, <2>4, <3>1, <3>2 DEF Spoken
    <3>3. CASE j = Len(loopHeld) + 1
      BY <1>4, <2>1, <3>1, <3>3
    <3> QED BY <2>1, <3>2, <3>3
  <2> QED BY <2>1, <2>3, <2>4 DEF NoAside
<1>8. loopAnswer' = ah \/ loopAnswer' = loopHeld
  <2>1. loopAnswer' = <<>> \o A!Released(w, m)
                  \o (IF w = "held" THEN ah ELSE IF w = "none" THEN loopHeld ELSE <<>>)
    BY <1>3
  <2>2. CASE w = "some"
    <3>1. A!Released(w, m) = ah
      BY <1>3, <2>2 DEF A!Released
    <3>2. <<>> \o ah = ah /\ ah \o <<>> = ah
      BY <1>7, SeqsJoin
    <3> QED BY <2>1, <2>2, <3>1, <3>2
  <2>3. CASE w = "held"
    <3>1. A!Released(w, m) = <<>>
      BY <2>3 DEF A!Released
    <3>2. <<>> \o <<>> = <<>> /\ <<>> \o ah = ah
      BY <1>1, <1>7, SeqsJoin
    <3> QED BY <2>1, <2>3, <3>1, <3>2
  <2>4. CASE w = "none"
    <3>1. A!Released(w, m) = <<>>
      BY <2>4 DEF A!Released
    <3>2. <<>> \o <<>> = <<>> /\ <<>> \o loopHeld = loopHeld
      BY <1>1, SeqsJoin
    <3> QED BY <2>1, <2>4, <3>1, <3>2
  <2> QED BY <2>2, <2>3, <2>4
<1>9. loopAnswer' \in Seq(Nat) /\ NoAside(loopAnswer', loopTurn')
  BY <1>1, <1>6, <1>7, <1>8
<1>10. Says(loopAnswer', loopTurn')
  <2>1. Says(<<>>, loopTurn)
    BY DEF LoopText
  <2>2. Says(<<>>, loopTurn')
    BY <1>2, <2>1, SaysStill
  <2> QED BY <2>2 DEF Says
<1>11. ended' # "no"
  OBVIOUS
<1> QED BY <1>9, <1>10, <1>11 DEF LoopText

(* A turn that called nothing that ran takes one of what it may retry, or is the last. *)
LEMMA TurnIsCounted ==
  ASSUME LoopTypeOK, LoopCounts, ended = "no", NEW n, NEW w, Began(n, w),
         textTurns' = textTurns \/ textTurns' = textTurns + 1,
         toolCalls' = toolCalls, loopSteps' = loopSteps,
         (Retried' + LastTurn') = Retried + 1
  PROVE  LoopCounts' /\ textTurns' \in Nat
<1>1. toolCalls \in Nat /\ textTurns \in Nat /\ MaxToolCalls \in Nat
  BY LoopAssumption DEF LoopTypeOK
<1>2. toolCalls <= MaxToolCalls /\ Len(loopSteps) = toolCalls
  BY DEF LoopCounts
<1>3. LastTurn = 0
  BY DEF LastTurn
<1>4. PICK r, q, l, k : r = Retried /\ q = Retried' /\ l = LastTurn' /\ k = Len(loopTurn)
  OBVIOUS
<1>5. r \in Nat /\ q \in Nat /\ l \in Nat /\ q + l = r + 1
  BY <1>4 DEF Retried, LastTurn
<1>6. textTurns <= r /\ k <= toolCalls + r /\ k \in Nat /\ Len(loopTurn') = k + 1
  <2>1. textTurns <= r + 0 /\ k <= toolCalls + r + 0
    BY <1>3, <1>4 DEF LoopCounts
  <2> QED BY <1>1, <1>4, <1>5, <2>1 DEF Began
<1>7. textTurns' \in Nat /\ textTurns' <= q + l /\ Len(loopTurn') <= toolCalls + q + l
  BY <1>1, <1>5, <1>6
<1> QED BY <1>2, <1>4, <1>7 DEF LoopCounts

LEMMA CallTurnKeeps ==
  ASSUME LoopInv, NEW r \in A!Reply, NEW t \in {0, 1}, A!CallTurn(r, t)
  PROVE  LoopInv'
<1>1. LoopTypeOK /\ LoopCounts /\ CallsAnswered(history) /\ LoopText
  BY DEF LoopInv
<1>2. A!Generate(r, t) /\ A!AllowTools
  BY DEF A!CallTurn
<1>3. Began(r.calls, r.text) /\ tokens' \in Nat /\ ended = "no" /\ textTurns' = textTurns
      /\ loopFixed' = loopFixed /\ late' = late
  BY <1>1, <1>2, TurnIsSpent
<1>4. r.calls \in Nat /\ r.calls > 0
  BY RepliesAre DEF A!CallTurn
<1>5. PICK n, run : n = r.calls /\ run = A!Runnable(r.calls)
  OBVIOUS
<1>6. run \in Nat /\ run > 0 /\ toolCalls + run <= MaxToolCalls
  <2>1. toolCalls \in Nat /\ MaxToolCalls \in Nat /\ A!Left > 0
    BY <1>1, <1>2, LoopAssumption DEF LoopTypeOK, A!AllowTools
  <2> QED BY <1>4, <1>5, <2>1 DEF A!Runnable, A!Left
<1>7. /\ toolCalls' = toolCalls + run
      /\ loopSteps' = loopSteps \o [i \in 1..run |-> Len(loopTurn')]
      /\ history' = Append(history, A!Assistant(n)) \o A!Results(n, run)
      /\ loopAnswer' = loopAnswer /\ loopHeld' = <<>> /\ forceText' = FALSE
      /\ ended' = "no" /\ partial' = (partial \/ A!Over) /\ reason' = (reason \/ A!Over)
      /\ retriedEmpty' = retriedEmpty /\ retriedLength' = retriedLength
  BY <1>5 DEF A!CallTurn, A!AnswerWithCalls, A!GoOn
<1>8. history' \in Seq(Messages) /\ CallsAnswered(history')
  <2>1. history \in Seq(Messages) /\ n \in Nat
    BY <1>1, <1>4, <1>5 DEF LoopTypeOK
  <2> QED BY <1>1, <1>6, <1>7, <2>1, HistoryCalled
<1>9. loopSteps' \in Seq(Nat) /\ Len(loopSteps') = Len(loopSteps) + run
  <2>1. PICK m, q : m = Len(loopTurn') /\ q = [i \in 1..run |-> m]
    OBVIOUS
  <2>2. m \in Nat
    BY <1>3, <2>1 DEF Began
  <2>3. q \in Seq(Nat) /\ Len(q) = run
    BY <1>6, <2>1, <2>2
  <2>4. loopSteps \in Seq(Nat) /\ loopSteps' = loopSteps \o q
    BY <1>1, <1>7, <2>1 DEF LoopTypeOK
  <2>5. loopSteps \o q \in Seq(Nat) /\ Len(loopSteps \o q) = Len(loopSteps) + Len(q)
    BY <2>3, <2>4, SeqsJoin
  <2> QED BY <2>3, <2>4, <2>5
<1>10. LoopTypeOK'
  <2>1. loopTurn' \in Seq(Turns) /\ toolCalls' \in Nat /\ textTurns' \in Nat
        /\ loopAnswer' \in Seq(Nat) /\ loopHeld' \in Seq(Nat)
    BY <1>1, <1>3, <1>6, <1>7 DEF LoopTypeOK, Began
  <2>2. loopFixed' \in BOOLEAN /\ late' \in BOOLEAN /\ forceText' \in BOOLEAN
        /\ retriedEmpty' \in BOOLEAN /\ retriedLength' \in BOOLEAN
        /\ partial' \in BOOLEAN /\ reason' \in BOOLEAN
    BY <1>1, <1>3, <1>7, Zenon DEF LoopTypeOK
  <2> QED BY <1>3, <1>7, <1>8, <1>9, <2>1, <2>2 DEF LoopTypeOK
<1>11. LoopCounts'
  <2>1. Retried' = Retried /\ LastTurn = 0 /\ LastTurn' = 0 /\ Retried \in Nat
    BY <1>3, <1>7 DEF Retried, LastTurn
  <2>2. /\ toolCalls \in Nat /\ textTurns \in Nat /\ Len(loopSteps) = toolCalls
        /\ textTurns <= Retried + LastTurn /\ Len(loopTurn) <= toolCalls + Retried + LastTurn
    BY <1>1 DEF LoopTypeOK, LoopCounts
  <2>3. Len(loopTurn') = Len(loopTurn) + 1 /\ Len(loopTurn) \in Nat
    BY <1>3 DEF Began
  <2> QED BY <1>3, <1>6, <1>7, <1>9, <2>1, <2>2, <2>3 DEF LoopCounts
<1>12. LoopText'
  <2>1. r.calls = 0 => r.text # "some"
    BY <1>4
  <2>2. loopAnswer' = loopAnswer /\ (loopHeld' = loopHeld \/ loopHeld' = <<>>) /\ (ended' # "done" \/ reason')
    BY <1>7
  <2>3. partial' => reason'
    BY <1>1, <1>7 DEF LoopText
  <2> QED BY <1>1, <1>3, <2>1, <2>2, <2>3, TextUntouched
<1> QED BY <1>8, <1>10, <1>11, <1>12 DEF LoopInv

LEMMA CallsRefusedKeeps ==
  ASSUME LoopInv, NEW r \in A!Reply, NEW t \in {0, 1}, A!CallsRefused(r, t)
  PROVE  LoopInv'
<1>1. LoopTypeOK /\ LoopCounts /\ CallsAnswered(history) /\ LoopText
  BY DEF LoopInv
<1>2. A!Generate(r, t) /\ ~A!AllowTools
  BY DEF A!CallsRefused
<1>3. Began(r.calls, r.text) /\ tokens' \in Nat /\ ended = "no" /\ textTurns' = textTurns + 1
      /\ loopFixed' = loopFixed /\ late' = late
  BY <1>1, <1>2, TurnIsSpent
<1>4. r.calls \in Nat /\ r.calls > 0
  BY RepliesAre DEF A!CallsRefused
<1>5. /\ loopAnswer' = loopAnswer /\ loopHeld' = <<>> /\ forceText' = FALSE
      /\ toolCalls' = toolCalls /\ loopSteps' = loopSteps /\ retriedLength' = retriedLength
      /\ partial' \in BOOLEAN /\ reason' \in BOOLEAN /\ (partial' => reason')
      /\ \/ /\ retriedEmpty /\ retriedEmpty' = retriedEmpty /\ ended' = "done" /\ reason'
            /\ history' = history
         \/ /\ ~retriedEmpty /\ retriedEmpty' = TRUE /\ ended' = "no"
            /\ history' = Append(history, A!User)
  <2>1. partial => reason
    BY <1>1 DEF LoopText
  <2> QED BY <2>1 DEF A!CallsRefused, A!AnswerWithCalls, A!Stop, A!GoOn
<1>6. history' \in Seq(Messages) /\ CallsAnswered(history')
  <2>1. history \in Seq(Messages)
    BY <1>1 DEF LoopTypeOK
  <2> QED BY <1>1, <1>5, <2>1, HistoryNoted, UsersAre
<1>7. LoopCounts' /\ textTurns' \in Nat
  <2>1. retriedEmpty \in BOOLEAN /\ retriedLength \in BOOLEAN
    BY <1>1 DEF LoopTypeOK
  <2>2. (Retried' + LastTurn') = Retried + 1
    BY <1>5, <2>1 DEF Retried, LastTurn
  <2> QED BY <1>1, <1>3, <1>5, <2>2, TurnIsCounted
<1>8. LoopTypeOK'
  <2>1. loopTurn' \in Seq(Turns) /\ toolCalls' \in Nat /\ loopSteps' \in Seq(Nat)
        /\ loopAnswer' \in Seq(Nat) /\ loopHeld' \in Seq(Nat)
    BY <1>1, <1>3, <1>5 DEF LoopTypeOK, Began
  <2>2. loopFixed' \in BOOLEAN /\ late' \in BOOLEAN /\ forceText' \in BOOLEAN
        /\ retriedEmpty' \in BOOLEAN /\ retriedLength' \in BOOLEAN
    BY <1>1, <1>3, <1>5, Zenon DEF LoopTypeOK
  <2>3. ended' \in {"no", "done", "error"}
    BY <1>5
  <2> QED BY <1>3, <1>5, <1>6, <1>7, <2>1, <2>2, <2>3 DEF LoopTypeOK
<1>9. LoopText'
  <2>1. r.calls = 0 => r.text # "some"
    BY <1>4
  <2>2. loopAnswer' = loopAnswer /\ (loopHeld' = loopHeld \/ loopHeld' = <<>>) /\ (ended' # "done" \/ reason')
    BY <1>5
  <2> QED BY <1>1, <1>3, <1>5, <2>1, <2>2, TextUntouched
<1> QED BY <1>6, <1>7, <1>8, <1>9 DEF LoopInv

LEMMA ContinueKeeps ==
  ASSUME LoopInv, NEW r \in A!Reply, NEW t \in {0, 1}, A!Continue(r, t)
  PROVE  LoopInv'
<1>1. LoopTypeOK /\ LoopCounts /\ CallsAnswered(history) /\ LoopText
  BY DEF LoopInv
<1>2. A!Generate(r, t) /\ r.calls = 0 /\ ~retriedLength
  BY DEF A!Continue
<1>3. Began(0, r.text) /\ tokens' \in Nat /\ ended = "no" /\ loopFixed' = loopFixed /\ late' = late
      /\ (textTurns' = textTurns \/ textTurns' = textTurns + 1)
  BY <1>1, <1>2, TurnIsSpent
<1>4. /\ retriedLength' = TRUE /\ forceText' = TRUE
      /\ history' = history \o <<A!Assistant(0), A!User>>
      /\ loopAnswer' = loopAnswer \o A!Released(r.text, Len(loopTurn')) /\ loopHeld' = A!HeldNow(r.text, Len(loopTurn'))
      /\ toolCalls' = toolCalls /\ loopSteps' = loopSteps /\ retriedEmpty' = retriedEmpty
      /\ ended' = "no" /\ partial' = (partial \/ A!Over) /\ reason' = (reason \/ A!Over)
  BY DEF A!Continue, A!GoOn
<1>5. history' \in Seq(Messages) /\ CallsAnswered(history')
  <2>1. history \in Seq(Messages) /\ CallsAnswered(history)
    BY <1>1 DEF LoopTypeOK
  <2>2. PICK h, m, u : h = history /\ m = A!Assistant(0) /\ u = A!User
    OBVIOUS
  <2>3. m \in Messages /\ m.role # "tool" /\ m.calls = 0
    BY <2>2, AssistantsAre
  <2>4. u \in Messages /\ u.role # "tool" /\ u.calls = 0
    BY <2>2, UsersAre
  <2>5. Append(h, m) \in Seq(Messages) /\ CallsAnswered(Append(h, m))
    BY <2>1, <2>2, <2>3, HistoryNoted
  <2>6. Append(Append(h, m), u) \in Seq(Messages) /\ CallsAnswered(Append(Append(h, m), u))
    BY <2>4, <2>5, HistoryNoted
  <2>7. h \o <<m, u>> = Append(Append(h, m), u)
    BY <2>1, <2>2, <2>3, <2>4
  <2> QED BY <1>4, <2>2, <2>6, <2>7
<1>6. LoopCounts' /\ textTurns' \in Nat
  <2>1. retriedEmpty \in BOOLEAN
    BY <1>1 DEF LoopTypeOK
  <2>2. (Retried' + LastTurn') = Retried + 1
    BY <1>2, <1>4, <2>1 DEF Retried, LastTurn
  <2> QED BY <1>1, <1>3, <1>4, <2>2, TurnIsCounted
<1>7. LoopText' /\ loopAnswer' \in Seq(Nat) /\ loopHeld' \in Seq(Nat)
  <2>1. r.text \in {"none", "held", "some"}
    BY RepliesAre
  <2>2. partial' => reason'
    BY <1>1, <1>4 DEF LoopText
  <2> QED BY <1>1, <1>3, <1>4, <2>1, <2>2, TextGoesOn
<1>8. LoopTypeOK'
  <2>1. loopTurn' \in Seq(Turns) /\ toolCalls' \in Nat /\ loopSteps' \in Seq(Nat)
    BY <1>1, <1>3, <1>4 DEF LoopTypeOK, Began
  <2>2. loopFixed' \in BOOLEAN /\ late' \in BOOLEAN /\ forceText' \in BOOLEAN
        /\ retriedEmpty' \in BOOLEAN /\ retriedLength' \in BOOLEAN
        /\ partial' \in BOOLEAN /\ reason' \in BOOLEAN
    BY <1>1, <1>3, <1>4, Zenon DEF LoopTypeOK
  <2>3. ended' \in {"no", "done", "error"}
    BY <1>4
  <2> QED BY <1>3, <1>5, <1>6, <1>7, <2>1, <2>2, <2>3 DEF LoopTypeOK
<1> QED BY <1>5, <1>6, <1>7, <1>8 DEF LoopInv

LEMMA AskAgainKeeps ==
  ASSUME LoopInv, NEW r \in A!Reply, NEW t \in {0, 1}, A!AskAgain(r, t)
  PROVE  LoopInv'
<1>1. LoopTypeOK /\ LoopCounts /\ CallsAnswered(history) /\ LoopText
  BY DEF LoopInv
<1>2. A!Generate(r, t) /\ r.calls = 0 /\ r.text = "none" /\ ~retriedEmpty
  BY DEF A!AskAgain, A!Empty
<1>3. Began(0, "none") /\ tokens' \in Nat /\ ended = "no" /\ loopFixed' = loopFixed /\ late' = late
      /\ (textTurns' = textTurns \/ textTurns' = textTurns + 1)
  BY <1>1, <1>2, TurnIsSpent
<1>4. /\ retriedEmpty' = TRUE /\ forceText' = FALSE /\ history' = Append(history, A!User)
      /\ toolCalls' = toolCalls /\ loopSteps' = loopSteps /\ retriedLength' = retriedLength
      /\ loopAnswer' = loopAnswer /\ loopHeld' = loopHeld
      /\ ended' = "no" /\ partial' = (partial \/ A!Over) /\ reason' = (reason \/ A!Over)
  BY DEF A!AskAgain, A!GoOn
<1>5. history' \in Seq(Messages) /\ CallsAnswered(history')
  <2>1. history \in Seq(Messages)
    BY <1>1 DEF LoopTypeOK
  <2> QED BY <1>1, <1>4, <2>1, HistoryNoted, UsersAre
<1>6. LoopCounts' /\ textTurns' \in Nat
  <2>1. retriedLength \in BOOLEAN
    BY <1>1 DEF LoopTypeOK
  <2>2. (Retried' + LastTurn') = Retried + 1
    BY <1>2, <1>4, <2>1 DEF Retried, LastTurn
  <2> QED BY <1>1, <1>3, <1>4, <2>2, TurnIsCounted
<1>7. LoopText'
  <2>1. 0 = 0 => "none" # "some"
    OBVIOUS
  <2>2. loopAnswer' = loopAnswer /\ (loopHeld' = loopHeld \/ loopHeld' = <<>>) /\ (ended' # "done" \/ reason')
    BY <1>4
  <2>3. partial' => reason'
    BY <1>1, <1>4 DEF LoopText
  <2> QED BY <1>1, <1>3, <2>1, <2>2, <2>3, TextUntouched
<1>8. LoopTypeOK'
  <2>1. loopTurn' \in Seq(Turns) /\ toolCalls' \in Nat /\ loopSteps' \in Seq(Nat)
        /\ loopAnswer' \in Seq(Nat) /\ loopHeld' \in Seq(Nat)
    BY <1>1, <1>3, <1>4 DEF LoopTypeOK, Began
  <2>2. loopFixed' \in BOOLEAN /\ late' \in BOOLEAN /\ forceText' \in BOOLEAN
        /\ retriedEmpty' \in BOOLEAN /\ retriedLength' \in BOOLEAN
        /\ partial' \in BOOLEAN /\ reason' \in BOOLEAN
    BY <1>1, <1>3, <1>4, Zenon DEF LoopTypeOK
  <2>3. ended' \in {"no", "done", "error"}
    BY <1>4
  <2> QED BY <1>3, <1>5, <1>6, <2>1, <2>2, <2>3 DEF LoopTypeOK
<1> QED BY <1>5, <1>6, <1>7, <1>8 DEF LoopInv

(* What the last turns leave, however the answer was made. *)
LEMMA TheEndKeeps ==
  ASSUME LoopInv, NEW w, Began(0, w), tokens' \in Nat, ended = "no",
         loopFixed' = loopFixed, late' = late, textTurns' = textTurns \/ textTurns' = textTurns + 1,
         LoopText', loopAnswer' \in Seq(Nat), loopHeld' = <<>>, ended' = "done",
         partial' \in BOOLEAN, reason' \in BOOLEAN, forceText' = FALSE,
         toolCalls' = toolCalls, loopSteps' = loopSteps, history' = history,
         retriedEmpty' = retriedEmpty, retriedLength' = retriedLength
  PROVE  LoopInv'
<1>1. LoopTypeOK /\ LoopCounts /\ CallsAnswered(history) /\ LoopText
  BY DEF LoopInv
<1>2. LoopCounts' /\ textTurns' \in Nat
  <2>1. retriedEmpty \in BOOLEAN /\ retriedLength \in BOOLEAN
    BY <1>1 DEF LoopTypeOK
  <2>2. (Retried' + LastTurn') = Retried + 1
    BY <2>1 DEF Retried, LastTurn
  <2> QED BY <1>1, <2>2, TurnIsCounted
<1>3. history' \in Seq(Messages) /\ CallsAnswered(history')
  BY <1>1 DEF LoopTypeOK
<1>4. LoopTypeOK'
  <2>1. loopTurn' \in Seq(Turns) /\ toolCalls' \in Nat /\ loopSteps' \in Seq(Nat) /\ loopHeld' \in Seq(Nat)
    BY <1>1 DEF LoopTypeOK, Began
  <2>2. loopFixed' \in BOOLEAN /\ late' \in BOOLEAN /\ forceText' \in BOOLEAN
        /\ retriedEmpty' \in BOOLEAN /\ retriedLength' \in BOOLEAN
    BY <1>1, Zenon DEF LoopTypeOK
  <2>3. ended' \in {"no", "done", "error"}
    OBVIOUS
  <2> QED BY <1>2, <1>3, <2>1, <2>2, <2>3 DEF LoopTypeOK
<1> QED BY <1>2, <1>3, <1>4 DEF LoopInv

LEMMA FromNotesKeeps ==
  ASSUME LoopInv, NEW r \in A!Reply, NEW t \in {0, 1},
         NEW text \in {"none", "held", "some"}, A!FromNotes(r, t, text)
  PROVE  LoopInv'
<1>1. LoopTypeOK /\ LoopCounts /\ LoopText
  BY DEF LoopInv
<1>2. A!Generate(r, t) /\ r.calls = 0 /\ r.text = "none" /\ loopAnswer = <<>>
  BY DEF A!FromNotes, A!Empty
<1>3. Began(0, "none") /\ tokens' \in Nat /\ ended = "no" /\ loopFixed' = loopFixed /\ late' = late
      /\ (textTurns' = textTurns \/ textTurns' = textTurns + 1)
  BY <1>1, <1>2, TurnIsSpent
<1>4. /\ loopAnswer' = loopAnswer \o A!Released(text, Len(loopTurn') + 1)
                   \o (IF text = "held" THEN Append(loopHeld, Len(loopTurn') + 1)
                       ELSE IF text = "none" THEN loopHeld ELSE <<>>)
      /\ ended' = "done" /\ loopHeld' = <<>> /\ forceText' = FALSE
      /\ toolCalls' = toolCalls /\ loopSteps' = loopSteps /\ history' = history
      /\ retriedEmpty' = retriedEmpty /\ retriedLength' = retriedLength
  BY DEF A!FromNotes, A!Stop
<1>5. reason' /\ partial' \in BOOLEAN /\ reason' \in BOOLEAN
  BY DEF A!FromNotes, A!Stop
<1>6. LoopText' /\ loopAnswer' \in Seq(Nat)
  BY <1>1, <1>2, <1>3, <1>4, <1>5, TextFromNotes
<1> QED BY <1>3, <1>4, <1>5, <1>6, TheEndKeeps

LEMMA AnswerKeeps ==
  ASSUME LoopInv, NEW r \in A!Reply, NEW t \in {0, 1}, A!Answer(r, t)
  PROVE  LoopInv'
<1>1. LoopTypeOK /\ LoopCounts /\ LoopText
  BY DEF LoopInv
<1>2. A!Generate(r, t) /\ r.calls = 0 /\ ~(r.text = "none" /\ loopAnswer = <<>>)
  BY DEF A!Answer, A!Empty
<1>3. Began(0, r.text) /\ tokens' \in Nat /\ ended = "no" /\ loopFixed' = loopFixed /\ late' = late
      /\ (textTurns' = textTurns \/ textTurns' = textTurns + 1)
  BY <1>1, <1>2, TurnIsSpent
<1>4. /\ loopAnswer' = loopAnswer \o A!Released(r.text, Len(loopTurn')) \o A!HeldNow(r.text, Len(loopTurn'))
      /\ ended' = "done" /\ loopHeld' = <<>> /\ forceText' = FALSE
      /\ toolCalls' = toolCalls /\ loopSteps' = loopSteps /\ history' = history
      /\ retriedEmpty' = retriedEmpty /\ retriedLength' = retriedLength
  BY DEF A!Answer, A!Stop
<1>5. (partial' => reason') /\ partial' \in BOOLEAN /\ reason' \in BOOLEAN
  <2>1. partial => reason
    BY <1>1 DEF LoopText
  <2> QED BY <2>1 DEF A!Answer, A!Stop
<1>6. LoopText' /\ loopAnswer' \in Seq(Nat)
  <2>1. r.text \in {"none", "held", "some"}
    BY RepliesAre
  <2> QED BY <1>1, <1>2, <1>3, <1>4, <1>5, <2>1, TextEnds
<1> QED BY <1>3, <1>4, <1>5, <1>6, TheEndKeeps

LEMMA FailKeeps == ASSUME LoopInv, A!Fail PROVE LoopInv'
<1>1. LoopTypeOK /\ LoopCounts /\ CallsAnswered(history) /\ LoopText
  BY DEF LoopInv
<1>2. /\ ended = "no" /\ ended' = "error" /\ partial' = TRUE /\ reason' = TRUE
      /\ UNCHANGED <<loopFixed, toolCalls, tokens, late, history, loopSteps, retriedEmpty,
                     retriedLength, forceText, loopAnswer, loopHeld, loopTurn, textTurns>>
  BY DEF A!Fail
<1>3. LoopTypeOK'
  BY <1>1, <1>2, Zenon DEF LoopTypeOK
<1>4. LoopCounts'
  BY <1>1, <1>2 DEF LoopCounts, Retried, LastTurn
<1>5. LoopText'
  BY <1>1, <1>2 DEF LoopText
<1>6. CallsAnswered(history')
  BY <1>1, <1>2
<1> QED BY <1>3, <1>4, <1>5, <1>6 DEF LoopInv

LEMMA TimePassesKeeps == ASSUME LoopInv, A!TimePasses \/ UNCHANGED loopVars PROVE LoopInv'
<1>1. LoopTypeOK /\ LoopCounts /\ CallsAnswered(history) /\ LoopText
  BY DEF LoopInv
<1>2. /\ late' = late \/ late' = TRUE
      /\ UNCHANGED <<loopFixed, toolCalls, tokens, history, loopSteps, retriedEmpty, retriedLength,
                     forceText, loopAnswer, loopHeld, loopTurn, textTurns, partial, reason, ended>>
  BY DEF A!TimePasses, loopVars
<1>3. LoopTypeOK'
  BY <1>1, <1>2, Zenon DEF LoopTypeOK
<1>4. LoopCounts'
  BY <1>1, <1>2 DEF LoopCounts, Retried, LastTurn
<1>5. LoopText'
  BY <1>1, <1>2 DEF LoopText
<1>6. CallsAnswered(history')
  BY <1>1, <1>2
<1> QED BY <1>3, <1>4, <1>5, <1>6 DEF LoopInv

LEMMA LoopIsKept == LoopInv /\ [A!Next]_loopVars => LoopInv'
<1> SUFFICES ASSUME LoopInv, [A!Next]_loopVars PROVE LoopInv'
  OBVIOUS
<1>1. CASE A!PolicyTool
  BY <1>1, PolicyToolKeeps
<1>2. ASSUME NEW r \in A!Reply, NEW t \in {0, 1},
             \/ A!CallTurn(r, t) \/ A!CallsRefused(r, t) \/ A!Continue(r, t) \/ A!AskAgain(r, t)
             \/ \E text \in {"none", "held", "some"} : A!FromNotes(r, t, text)
             \/ A!Answer(r, t)
      PROVE  LoopInv'
  BY <1>2, CallTurnKeeps, CallsRefusedKeeps, ContinueKeeps, AskAgainKeeps, FromNotesKeeps,
     AnswerKeeps
<1>3. CASE A!Fail
  BY <1>3, FailKeeps
<1>4. CASE A!TimePasses \/ UNCHANGED loopVars
  BY <1>4, TimePassesKeeps
<1> QED BY <1>1, <1>2, <1>3, <1>4 DEF A!Next

LEMMA LoopInvBounds ==
  ASSUME LoopInv PROVE A!AskIsBounded /\ A!AnswerIsNoAside
<1>1. LoopTypeOK /\ LoopCounts /\ CallsAnswered(history) /\ LoopText
  BY DEF LoopInv
<1>2. A!AskIsBounded
  <2>1. toolCalls <= MaxToolCalls /\ Len(loopSteps) = toolCalls
    BY <1>1 DEF LoopCounts
  <2>2. textTurns <= 3 /\ Len(loopTurn) <= MaxToolCalls + 3
    <3>1. Retried \in 0..2 /\ LastTurn \in 0..1
      BY DEF Retried, LastTurn
    <3>2. toolCalls \in Nat /\ textTurns \in Nat /\ MaxToolCalls \in Nat
      BY <1>1, LoopAssumption DEF LoopTypeOK
    <3>3. Len(loopTurn) \in Nat
      BY <1>1 DEF LoopTypeOK
    <3> QED BY <1>1, <2>1, <3>1, <3>2, <3>3 DEF LoopCounts
  <2> QED BY <1>1, <2>1, <2>2 DEF A!AskIsBounded, CallsAnswered
<1>3. A!AnswerIsNoAside
  <2>1. \A i \in DOMAIN loopAnswer :
          /\ loopAnswer[i] <= Len(loopTurn) => loopTurn[loopAnswer[i]].calls = 0
          /\ i > 1 => loopAnswer[i - 1] < loopAnswer[i]
    <3>1. ASSUME NEW i \in DOMAIN loopAnswer, i > 1 PROVE loopAnswer[i - 1] < loopAnswer[i]
      <4>1. i - 1 \in DOMAIN loopAnswer /\ i - 1 < i
        <5>1. loopAnswer \in Seq(Nat)
          BY <1>1 DEF LoopTypeOK
        <5> QED BY <3>1, <5>1
      <4> QED BY <1>1, <4>1 DEF LoopText, NoAside
    <3> QED BY <1>1, <3>1 DEF LoopText, NoAside
  <2>2. \A n \in DOMAIN loopTurn :
          loopTurn[n].calls = 0 /\ loopTurn[n].text = "some" => n \in A!Range(loopAnswer)
    BY <1>1 DEF LoopText, Says, A!Range
  <2> QED BY <1>1, <2>1, <2>2 DEF LoopText, A!AnswerIsNoAside
<1> QED BY <1>2, <1>3

(* Whatever the model answers, for all limits: an ask keeps to its calls   *)
(* and its turns, every call has its result after it, and the answer is    *)
(* the text of turns that called nothing, in order and whole (agent.rs:    *)
(* run).                                                                   *)
THEOREM AskStaysBounded == Spec => []AskIsBounded
<1>1. Init => LoopInv
  BY LoopBegins DEF Init
<1>2. LoopInv /\ [Next]_vars => LoopInv'
  BY LoopStep, LoopIsKept
<1>3. LoopInv => AskIsBounded
  BY LoopInvBounds DEF AskIsBounded
<1> QED BY <1>1, <1>2, <1>3, PTL DEF Spec

-----------------------------------------------------------------------------
(* What a search finds.                                                    *)

Ranges == [t0 : Nat, t1 : Nat]

(* Units that leave no gap in what they cut. *)
Cut(us, xs) ==
  /\ us \subseteq Ranges
  /\ \A x \in xs, n \in Nat : x.t0 <= n /\ n < x.t1 => \E u \in us : u.t0 <= n /\ n < u.t1

LEMMA LeastNat ==
  ASSUME NEW ns \in SUBSET Nat, ns # {}
  PROVE  \E n \in ns : \A m \in ns : n <= m
<1>1. PICK lt : IsWellFoundedOn(lt, Nat) /\ \A x, y \in Nat : <<x, y>> \in lt <=> x < y
  <2>1. \A x, y \in Nat : <<x, y>> \in OpToRel(<, Nat) <=> x < y
    BY DEF OpToRel
  <2> QED BY <2>1, NatLessThanWellFounded
<1>2. IsWellFoundedOn(lt, Nat)
  BY <1>1
<1>3. PICK n \in ns : \A m \in ns : ~(<<m, n>> \in lt)
  BY <1>2, WFMin
<1>4. \A m \in ns : m \in Nat /\ n \in Nat /\ ~(m < n)
  BY <1>1, <1>3
<1> QED BY <1>4

(* The first of the numbers up to n at which b has passed m. *)
LEMMA FirstPast ==
  ASSUME NEW n \in Nat, NEW b, \A i \in 0..n : b[i] \in Nat, NEW m \in Nat,
         b[0] <= m, m < b[n]
  PROVE  \E i \in 0..(n - 1) : b[i] <= m /\ m < b[i + 1]
<1>1. PICK ns : ns = {i \in 0..n : m < b[i]}
  OBVIOUS
<1>2. ns \in SUBSET Nat /\ n \in ns
  BY <1>1
<1>3. PICK i \in ns : \A j \in ns : i <= j
  BY <1>2, LeastNat
<1>4. i \in 0..n /\ m < b[i] /\ i # 0
  BY <1>1, <1>3
<1>5. i - 1 \in 0..n /\ i - 1 \notin ns
  BY <1>3, <1>4
<1>6. ~(m < b[i - 1]) /\ b[i - 1] \in Nat
  BY <1>1, <1>5
<1>7. i - 1 \in 0..(n - 1) /\ b[i - 1] <= m /\ m < b[(i - 1) + 1]
  BY <1>4, <1>6
<1> QED BY <1>7

LEMMA Products ==
  ASSUME NEW a \in Nat, NEW b \in Nat
  PROVE  a * b \in Nat /\ (a + 1) * b = a * b + b /\ (b > 0 => a * b >= a)
OBVIOUS

LEMMA Quotients ==
  ASSUME NEW a \in Nat, NEW b \in Nat \ {0}
  PROVE  a \div b \in Nat /\ (a \div b) * b <= a /\ a < (a \div b) * b + b
OBVIOUS

LEMMA ProductsKeepOrder ==
  ASSUME NEW a \in Nat, NEW b \in Nat, NEW c \in Nat, a * c < b * c
  PROVE  a < b
OBVIOUS

LEMMA WindowsCut ==
  ASSUME NEW extent \in Nat
  PROVE  Cut(S!WindowUnits(extent), {[t0 |-> 0, t1 |-> S!Capped(extent)]})
<1>1. PICK total, n : /\ total = IF extent < Unit THEN Unit ELSE S!Capped(extent)
                      /\ n = (total + Unit - 1) \div Unit
  OBVIOUS
<1>2. Unit \in Nat \ {0} /\ Week \in Nat /\ total \in Nat
  BY <1>1, SearchAssumption DEF S!Capped
<1>3. n \in Nat /\ n * Unit \in Nat /\ total <= n * Unit
  <2>1. total + Unit - 1 \in Nat
    BY <1>2
  <2>2. n \in Nat /\ total + Unit - 1 < n * Unit + Unit
    BY <1>1, <1>2, <2>1, Quotients
  <2>3. n * Unit \in Nat
    BY <1>2, <2>2, Products
  <2> QED BY <1>2, <2>2, <2>3
<1>4. PICK b : b = [i \in 0..n |-> IF i * Unit < total THEN i * Unit ELSE total]
  OBVIOUS
<1>5. \A i \in 0..n : i * Unit \in Nat /\ b[i] \in Nat /\ b[i] <= i * Unit /\ b[i] <= total
  <2>1. ASSUME NEW i \in 0..n PROVE i * Unit \in Nat
    BY <1>2, <1>3, Products
  <2> QED BY <1>2, <1>4, <2>1
<1>6. b[0] = 0 /\ b[n] = total
  <2>1. 0 \in 0..n /\ n \in 0..n /\ 0 * Unit = 0
    BY <1>2, <1>3
  <2> QED BY <1>2, <1>3, <1>4, <2>1
<1>7. S!WindowUnits(extent) =
        {[t0 |-> i * Unit,
          t1 |-> IF (i + 1) * Unit < total THEN (i + 1) * Unit ELSE total] : i \in 0..(n - 1)}
  BY <1>1 DEF S!WindowUnits
<1>8. S!WindowUnits(extent) \subseteq Ranges
  <2>1. ASSUME NEW i \in 0..(n - 1)
        PROVE  [t0 |-> i * Unit,
                t1 |-> IF (i + 1) * Unit < total THEN (i + 1) * Unit ELSE total] \in Ranges
    <3>1. i \in 0..n /\ i + 1 \in 0..n
      BY <1>3
    <3>2. i * Unit \in Nat /\ (i + 1) * Unit \in Nat
      BY <1>5, <3>1
    <3> QED BY <1>2, <3>2 DEF Ranges
  <2> QED BY <1>7, <2>1
<1>9. ASSUME NEW m \in Nat, m < S!Capped(extent)
      PROVE  \E u \in S!WindowUnits(extent) : u.t0 <= m /\ m < u.t1
  <2>1. m < total
    BY <1>1, <1>2, <1>9 DEF S!Capped
  <2>2. PICK i \in 0..(n - 1) : b[i] <= m /\ m < b[i + 1]
    BY <1>3, <1>5, <1>6, <2>1, FirstPast
  <2>3. i \in 0..n /\ i + 1 \in 0..n
    BY <1>3
  <2>4. PICK u : u = [t0 |-> i * Unit,
                      t1 |-> IF (i + 1) * Unit < total THEN (i + 1) * Unit ELSE total]
    OBVIOUS
  <2>5. u \in S!WindowUnits(extent)
    BY <1>7, <2>4
  <2>6. u.t1 = b[i + 1]
    BY <1>4, <2>3, <2>4
  <2>7. u.t0 <= m
    <3>1. b[i] = IF i * Unit < total THEN i * Unit ELSE total
      BY <1>4, <2>3
    <3>2. b[i] = i * Unit
      BY <1>2, <2>1, <2>2, <3>1
    <3> QED BY <2>2, <2>4, <3>2
  <2> QED BY <2>2, <2>5, <2>6, <2>7
<1> QED BY <1>8, <1>9 DEF Cut

(* The pieces of a shot follow one another, each from where the last ended. *)
LEMMA PiecesCut ==
  ASSUME NEW s \in Ranges, s.t0 <= s.t1
  PROVE  Cut(S!ShotPieces(s), {s})
<1>1. PICK t0, t1, len, n :
        /\ t0 = s.t0 /\ t1 = s.t1 /\ len = t1 - t0
        /\ n = IF 2 * len <= 3 * Unit THEN 1 ELSE (2 * len + Unit) \div (2 * Unit)
  OBVIOUS
<1>2. t0 \in Nat /\ t1 \in Nat /\ t0 <= t1 /\ len \in Nat /\ Unit \in Nat \ {0}
  BY <1>1, SearchAssumption DEF Ranges
<1>3. n \in Nat /\ n >= 1
  <2>1. CASE 2 * len <= 3 * Unit
    BY <1>1, <2>1
  <2>2. CASE ~(2 * len <= 3 * Unit)
    <3>1. PICK a, b : a = 2 * len + Unit /\ b = 2 * Unit
      OBVIOUS
    <3>2. a \in Nat /\ b \in Nat \ {0} /\ a >= b
      BY <1>2, <2>2, <3>1
    <3>3. a \div b \in Nat /\ a < (a \div b) * b + b
      BY <3>2, Quotients
    <3>4. a \div b # 0
      BY <3>2, <3>3
    <3> QED BY <1>1, <2>2, <3>1, <3>3, <3>4
  <2> QED BY <2>1, <2>2
<1>4. PICK e : e = [i \in 0..n |-> t0 + (2 * len * i + n) \div (2 * n)]
  OBVIOUS
<1>5. \A i \in 0..n : e[i] \in Nat
  <2>1. ASSUME NEW i \in 0..n PROVE e[i] \in Nat
    <3>1. 2 * len \in Nat /\ i \in Nat
      BY <1>2
    <3>2. (2 * len) * i \in Nat
      BY <3>1, Products
    <3>3. 2 * len * i + n \in Nat /\ 2 * n \in Nat \ {0}
      BY <1>3, <3>2
    <3>4. (2 * len * i + n) \div (2 * n) \in Nat
      BY <3>3, Quotients
    <3> QED BY <1>2, <1>4, <3>4
  <2> QED BY <2>1
<1>6. e[0] = t0
  <2>1. 2 * len * 0 + n = n
    BY <1>2, <1>3
  <2>2. n \div (2 * n) = 0
    <3>1. PICK q : q = n \div (2 * n)
      OBVIOUS
    <3>2. 2 * n \in Nat \ {0}
      BY <1>3
    <3>3. q \in Nat /\ q * (2 * n) <= n
      BY <1>3, <3>1, <3>2, Quotients
    <3>4. q > 0 => (2 * n) * q >= 2 * n
      BY <3>2, <3>3, Products
    <3>5. (2 * n) * q = q * (2 * n)
      BY <3>2, <3>3
    <3> QED BY <1>3, <3>1, <3>3, <3>4, <3>5
  <2>3. 0 \in 0..n
    BY <1>3
  <2> QED BY <1>2, <1>4, <2>1, <2>2, <2>3
<1>7. S!ShotPieces(s) = {[t0 |-> e[i], t1 |-> IF i + 1 = n THEN t1 ELSE e[i + 1]] : i \in 0..(n - 1)}
  <2>1. \A i \in 0..(n - 1) : i \in 0..n /\ i + 1 \in 0..n
    BY <1>3
  <2>2. S!ShotPieces(s) =
          {[t0 |-> t0 + (2 * len * i + n) \div (2 * n),
            t1 |-> IF i + 1 = n THEN t1
                   ELSE t0 + (2 * len * (i + 1) + n) \div (2 * n)] : i \in 0..(n - 1)}
    BY <1>1 DEF S!ShotPieces
  <2>3. \A i \in 0..(n - 1) :
          /\ e[i] = t0 + (2 * len * i + n) \div (2 * n)
          /\ e[i + 1] = t0 + (2 * len * (i + 1) + n) \div (2 * n)
    BY <1>4, <2>1
  <2> QED BY <2>2, <2>3
<1>8. S!ShotPieces(s) \subseteq Ranges
  <2>1. ASSUME NEW i \in 0..(n - 1)
        PROVE  [t0 |-> e[i], t1 |-> IF i + 1 = n THEN t1 ELSE e[i + 1]] \in Ranges
    <3>1. i \in 0..n /\ i + 1 \in 0..n
      BY <1>3
    <3> QED BY <1>2, <1>5, <3>1 DEF Ranges
  <2> QED BY <1>7, <2>1
<1>9. ASSUME NEW m \in Nat, t0 <= m, m < t1
      PROVE  \E u \in S!ShotPieces(s) : u.t0 <= m /\ m < u.t1
  <2>1. PICK b : b = [i \in 0..n |-> IF i = n THEN t1 ELSE e[i]]
    OBVIOUS
  <2>2. (\A i \in 0..n : b[i] \in Nat) /\ b[0] <= m /\ m < b[n]
    <3>1. 0 \in 0..n /\ n \in 0..n /\ n # 0
      BY <1>3
    <3> QED BY <1>2, <1>5, <1>6, <1>9, <2>1, <3>1
  <2>3. PICK i \in 0..(n - 1) : b[i] <= m /\ m < b[i + 1]
    BY <1>3, <2>2, FirstPast
  <2>4. PICK u : u = [t0 |-> e[i], t1 |-> IF i + 1 = n THEN t1 ELSE e[i + 1]]
    OBVIOUS
  <2>5. u \in S!ShotPieces(s)
    BY <1>7, <2>4
  <2>6. b[i] = e[i] /\ b[i + 1] = u.t1
    BY <1>3, <2>1, <2>4
  <2> QED BY <2>3, <2>4, <2>5, <2>6
<1> QED BY <1>1, <1>8, <1>9 DEF Cut

LEMMA ShotsCut ==
  ASSUME NEW these, these \subseteq {s \in Ranges : s.t0 <= s.t1}
  PROVE  Cut(UNION {S!ShotPieces(s) : s \in these}, these)
<1>1. ASSUME NEW s \in these PROVE Cut(S!ShotPieces(s), {s})
  BY PiecesCut
<1>2. UNION {S!ShotPieces(s) : s \in these} \subseteq Ranges
  BY <1>1 DEF Cut
<1>3. ASSUME NEW s \in these, NEW n \in Nat, s.t0 <= n, n < s.t1
      PROVE  \E u \in UNION {S!ShotPieces(x) : x \in these} : u.t0 <= n /\ n < u.t1
  <2>1. PICK u \in S!ShotPieces(s) : u.t0 <= n /\ n < u.t1
    BY <1>1, <1>3 DEF Cut
  <2> QED BY <2>1
<1> QED BY <1>2, <1>3 DEF Cut

LEMMA SegmentsCut ==
  ASSUME NEW us \in SUBSET Ranges PROVE Cut(us, us)
BY DEF Cut

(* The unit of a row that some unit holds holds it. *)
LEMMA UnitHolds ==
  ASSUME NEW us, NEW xs, Cut(us, xs), NEW r, r.at \in Nat, NEW x \in xs, S!Holds(x, r)
  PROVE  S!Holds(S!UnitOf(r, us), r)
<1>1. PICK holding : holding = {u \in us : S!Holds(u, r)}
  OBVIOUS
<1>2. holding # {} /\ holding \subseteq Ranges
  <2>1. x.t0 <= r.at /\ r.at < x.t1
    BY DEF S!Holds
  <2>2. PICK u \in us : u.t0 <= r.at /\ r.at < u.t1
    BY <2>1 DEF Cut
  <2> QED BY <1>1, <2>2 DEF Cut, S!Holds
<1>3. \E u \in holding : \A w \in holding : u.t0 <= w.t0
  <2>1. PICK ns : ns = {u.t0 : u \in holding}
    OBVIOUS
  <2>2. ns \in SUBSET Nat /\ ns # {}
    BY <1>2, <2>1 DEF Ranges
  <2>3. PICK n \in ns : \A m \in ns : n <= m
    BY <2>2, LeastNat
  <2>4. PICK u \in holding : u.t0 = n
    BY <2>1
  <2> QED BY <2>1, <2>3, <2>4
<1>4. S!UnitOf(r, us) = CHOOSE u \in holding : \A w \in holding : u.t0 <= w.t0
  BY <1>1, <1>2 DEF S!UnitOf
<1>5. S!UnitOf(r, us) \in holding
  BY <1>3, <1>4
<1> QED BY <1>1, <1>5

-----------------------------------------------------------------------------
Reading == {"chapters", "scenes", "shots", "answer"}
Fetching == {S!Calls[i] : i \in 1..Len(S!Calls)}

IndexOK ==
  /\ searchKnown \subseteq Videos /\ searchRows \subseteq Rows
  /\ segments \in [Videos -> [S!Levels -> Layouts]] /\ head \in [Live -> Nat]

AskedOK ==
  /\ searchUntil \in Nat \cup {None}
  /\ asked.cap \in Nat \cup {None}

(* Rows found are those asked for; a list of the files may be past the bound. *)
FoundOK ==
  /\ raw \subseteq Rows /\ fused \subseteq Rows
  /\ \A r \in raw : S!Wanted(r)
  /\ \A r \in fused : S!Wanted(r) /\ S!Below(r)

ReadingOK ==
  searchAt \in Reading =>
    /\ of \in left /\ of \in Videos
    /\ Cut(units, extents)
    /\ searchAt \in {"scenes", "shots"} => chapters \in Layouts

Evident(h) ==
  /\ h.evidence # {}
  /\ \A r \in h.evidence : /\ r.video = h.video /\ S!Wanted(r) /\ S!Below(r)
                           /\ S!Holds(h, r) \/ \A u \in h.among : ~S!Holds(u, r)

OfVideo(hs, v) == {h \in hs : h.video = v}

HitsOK ==
  /\ IsFiniteSet(hits)
  /\ \A h \in hits : Evident(h) /\ h.video \notin left
  /\ \A g, h \in hits : g # h => g.evidence \cap h.evidence = {}
  /\ asked.cap # None =>
       \A v \in Videos : /\ IsFiniteSet(OfVideo(hits, v))
                       /\ Cardinality(OfVideo(hits, v)) <= S!Over(asked.cap)
  /\ searchAt \in Fetching => hits = {}
  /\ searchAt = "done" => Cardinality(hits) <= S!Over(K)

SearchInv == IndexOK /\ AskedOK /\ FoundOK /\ ReadingOK /\ HitsOK

LEMMA CallsAre ==
  /\ Len(S!Calls) = 7
  /\ Fetching = {"transcript", "ocr", "description", "text_files", "text_rows",
                 "image_files", "image_rows"}
<1>1. Len(S!Calls) = 7
  BY DEF S!Calls
<1>2. /\ S!Calls[1] = "transcript" /\ S!Calls[2] = "ocr" /\ S!Calls[3] = "description"
      /\ S!Calls[4] = "text_files" /\ S!Calls[5] = "text_rows" /\ S!Calls[6] = "image_files"
      /\ S!Calls[7] = "image_rows"
  BY DEF S!Calls
<1>3. 1..7 = {1, 2, 3, 4, 5, 6, 7}
  OBVIOUS
<1>4. Fetching = {S!Calls[i] : i \in {1, 2, 3, 4, 5, 6, 7}}
  BY <1>1, <1>3 DEF Fetching
<1> QED BY <1>1, <1>2, <1>4

LEMMA NextCalls ==
  ASSUME NEW c \in Fetching
  PROVE  /\ S!NextCall[c] \in Fetching \cup {"group"}
         /\ c \in {"text_files", "image_files"} => S!NextCall[c] \in Fetching
<1>1. PICK i \in 1..7 : S!Calls[i] = c
  BY CallsAre DEF Fetching
<1>2. PICK j : j = CHOOSE k \in 1..7 : S!Calls[k] = c
  OBVIOUS
<1>3. j \in 1..7 /\ S!Calls[j] = c
  BY <1>1, <1>2
<1>4. S!NextCall[c] = IF j = 7 THEN "group" ELSE S!Calls[j + 1]
  BY <1>2, CallsAre DEF S!NextCall, Fetching
<1>5. j # 7 => S!Calls[j + 1] \in Fetching
  BY <1>3, CallsAre DEF Fetching
<1>6. S!Calls[7] = "image_rows"
  BY DEF S!Calls
<1> QED BY <1>3, <1>4, <1>5, <1>6

LEMMA OverIsANumber == ASSUME NEW n \in Nat PROVE S!Over(n) \in Nat
BY DEF S!Over

LEMMA SizesAre == \A set : S!Cardinality(set) = Cardinality(set)
BY DEF S!Cardinality, Cardinality

(* What is kept of some hits is some of them, and no more than n. *)
LEMMA KeptIsSome ==
  ASSUME NEW all, IsFiniteSet(all), NEW n \in Nat, NEW s \in S!Kept(all, n)
  PROVE  s \subseteq all /\ IsFiniteSet(s) /\ Cardinality(s) <= n
<1>1. s \subseteq all /\ Cardinality(s) = IF Cardinality(all) < n THEN Cardinality(all) ELSE n
  BY SizesAre DEF S!Kept
<1>2. IsFiniteSet(s)
  BY <1>1, FS_Subset
<1>3. Cardinality(all) \in Nat
  BY FS_CardinalityType
<1> QED BY <1>1, <1>2, <1>3

LEMMA SearchBegins == ASSUME S!Init PROVE SearchInv
<1>1. IndexOK
  <2>1. PICK alike \in [S!Levels -> Layouts] : segments = [v \in Videos |-> alike]
    BY DEF S!Init
  <2>2. segments \in [Videos -> [S!Levels -> Layouts]]
    BY <2>1
  <2>3. head \in [Live -> Nat]
    <3>1. ASSUME NEW v \in Live PROVE Duration[v] \div 2 \in Nat
      BY SearchAssumption
    <3> QED BY <3>1 DEF S!Init
  <2> QED BY <2>2, <2>3, SearchAssumption DEF S!Init, IndexOK
<1>2. AskedOK
  <2>1. searchUntil \in Nat \cup {None}
    BY SearchAssumption DEF S!Init
  <2>2. asked.cap \in Nat \cup {None}
    <3>1. CASE asked = S!Any
      BY <3>1 DEF S!Any
    <3>2. ASSUME NEW v, NEW k, NEW most \in Caps, asked = S!ToolSearch(v, k, most)
          PROVE  asked.cap \in Nat \cup {None}
      BY <3>2, SearchAssumption DEF S!ToolSearch
    <3> QED BY <3>1, <3>2 DEF S!Init
  <2> QED BY <2>1, <2>2 DEF AskedOK
<1>3. FoundOK
  BY DEF S!Init, FoundOK
<1>4. searchAt \in Fetching
  BY CallsAre DEF S!Init, S!Calls
<1>5. ReadingOK
  BY <1>4, CallsAre DEF ReadingOK, Reading
<1>6. HitsOK
  <2>1. hits = {} /\ IsFiniteSet(hits) /\ searchAt # "done"
    BY <1>4, CallsAre, FS_EmptySet DEF S!Init
  <2>2. \A v : OfVideo(hits, v) = {}
    BY <2>1 DEF OfVideo
  <2>3. \A v : IsFiniteSet(OfVideo(hits, v)) /\ Cardinality(OfVideo(hits, v)) = 0
    BY <2>2, FS_EmptySet
  <2>4. asked.cap # None => 0 <= S!Over(asked.cap)
    BY <1>2, OverIsANumber DEF AskedOK
  <2> QED BY <2>1, <2>3, <2>4 DEF HitsOK
<1> QED BY <1>1, <1>2, <1>3, <1>5, <1>6 DEF SearchInv

(* A call of a list: rows are found, and no video is grouped yet. *)
LEMMA FetchKeeps ==
  ASSUME SearchInv, searchAt \in Fetching, searchAt' \in Fetching \cup {"group"},
         UNCHANGED S!index, UNCHANGED S!request, hits' = hits, FoundOK'
  PROVE  SearchInv'
<1>1. IndexOK /\ AskedOK /\ HitsOK
  BY DEF SearchInv
<1>2. IndexOK' /\ AskedOK'
  BY <1>1 DEF IndexOK, AskedOK, S!index, S!request
<1>3. ReadingOK'
  BY CallsAre DEF ReadingOK, Reading
<1>4. HitsOK'
  <2>1. hits' = {} /\ searchAt' # "done" /\ asked' = asked /\ IsFiniteSet(hits)
    BY <1>1, CallsAre DEF HitsOK, S!request
  <2>2. \A v : OfVideo(hits', v) = OfVideo(hits, v)
    OBVIOUS
  <2> QED BY <1>1, <2>1, <2>2 DEF HitsOK
<1> QED BY <1>2, <1>3, <1>4 DEF SearchInv

LEMMA TextSearchKeeps == ASSUME SearchInv, S!TextSearch PROVE SearchInv'
<1>1. PICK got \in SUBSET {r \in searchRows : r.kind = searchAt /\ r.video \in searchKnown /\ S!Wanted(r) /\ S!Below(r)} :
        fused' = fused \cup got
  BY DEF S!TextSearch
<1>2. searchAt \in Fetching /\ searchAt' \in Fetching \cup {"group"}
  BY CallsAre, NextCalls DEF S!TextSearch, S!TextKinds
<1>3. UNCHANGED S!index /\ UNCHANGED S!request /\ raw' = raw /\ hits' = hits
  BY DEF S!TextSearch, S!grouping, S!answering
<1>4. FoundOK'
  <2>1. IndexOK /\ FoundOK
    BY DEF SearchInv
  <2>2. searchUntil' = searchUntil /\ asked' = asked
    BY <1>3 DEF S!request
  <2> QED BY <1>1, <1>3, <2>1, <2>2 DEF IndexOK, FoundOK, S!Wanted, S!Below
<1> QED BY <1>2, <1>3, <1>4, FetchKeeps

LEMMA VectorFilesKeeps == ASSUME SearchInv, S!VectorFiles PROVE SearchInv'
<1>1. PICK got \in SUBSET {r \in searchRows : S!Wanted(r) /\ r.kind \in S!KindsOfList} : raw' = got
  BY DEF S!VectorFiles
<1>2. searchAt \in Fetching /\ searchAt' \in Fetching \cup {"group"}
  BY CallsAre, NextCalls DEF S!VectorFiles
<1>3. UNCHANGED S!index /\ UNCHANGED S!request /\ fused' = fused /\ hits' = hits
  BY DEF S!VectorFiles, S!grouping, S!answering
<1>4. FoundOK'
  <2>1. IndexOK /\ FoundOK
    BY DEF SearchInv
  <2>2. searchUntil' = searchUntil /\ asked' = asked
    BY <1>3 DEF S!request
  <2> QED BY <1>1, <1>3, <2>1, <2>2 DEF IndexOK, FoundOK, S!Wanted, S!Below
<1> QED BY <1>2, <1>3, <1>4, FetchKeeps

LEMMA VectorRowsKeeps == ASSUME SearchInv, S!VectorRows PROVE SearchInv'
<1>1. PICK got \in SUBSET {r \in raw : S!Resolved(r)} : fused' = fused \cup got
  BY DEF S!VectorRows
<1>2. searchAt \in Fetching /\ searchAt' \in Fetching \cup {"group"}
  BY CallsAre, NextCalls DEF S!VectorRows
<1>3. UNCHANGED S!index /\ UNCHANGED S!request /\ raw' = {} /\ hits' = hits
  BY DEF S!VectorRows, S!answering
<1>4. FoundOK'
  <2>1. FoundOK
    BY DEF SearchInv
  <2>2. searchUntil' = searchUntil /\ asked' = asked
    BY <1>3 DEF S!request
  <2> QED BY <1>1, <1>3, <2>1, <2>2 DEF FoundOK, S!Resolved, S!Wanted, S!Below
<1> QED BY <1>2, <1>3, <1>4, FetchKeeps

LEMMA NoEmbedderKeeps == ASSUME SearchInv, S!NoEmbedder PROVE SearchInv'
<1>1. searchAt \in Fetching /\ searchAt' \in Fetching \cup {"group"}
  BY CallsAre, NextCalls DEF S!NoEmbedder
<1>2. UNCHANGED S!index /\ UNCHANGED S!request /\ raw' = raw /\ fused' = fused /\ hits' = hits
  BY DEF S!NoEmbedder, S!answering
<1>3. FoundOK'
  <2>1. FoundOK
    BY DEF SearchInv
  <2>2. searchUntil' = searchUntil /\ asked' = asked
    BY <1>2 DEF S!request
  <2> QED BY <1>2, <2>1, <2>2 DEF FoundOK, S!Wanted, S!Below
<1> QED BY <1>1, <1>2, <1>3, FetchKeeps

(* A read of the video being grouped: the hits stay. *)
LEMMA ReadingKeeps ==
  ASSUME SearchInv, searchAt \notin Fetching, searchAt' \in Reading \cup {"group"}, left' \subseteq left,
         UNCHANGED S!index, UNCHANGED S!request, raw' = raw, fused' = fused, hits' = hits, ReadingOK'
  PROVE  SearchInv'
<1>1. IndexOK /\ AskedOK /\ FoundOK /\ HitsOK
  BY DEF SearchInv
<1>2. searchUntil' = searchUntil /\ asked' = asked
  BY DEF S!request
<1>3. IndexOK' /\ AskedOK' /\ FoundOK'
  BY <1>1, <1>2 DEF IndexOK, AskedOK, FoundOK, S!Wanted, S!Below, S!index
<1>4. HitsOK'
  <2>1. searchAt' \notin Fetching /\ searchAt' # "done"
    BY CallsAre DEF Reading
  <2>2. \A h \in hits' : Evident(h)' /\ h.video \notin left'
    BY <1>1, <1>2 DEF HitsOK, Evident, S!Wanted, S!Below
  <2>3. \A v : OfVideo(hits', v) = OfVideo(hits, v)
    OBVIOUS
  <2> QED BY <1>1, <1>2, <2>1, <2>2, <2>3 DEF HitsOK
<1> QED BY <1>3, <1>4 DEF SearchInv

LEMMA ReadVideoKeeps == ASSUME SearchInv, S!ReadVideo PROVE SearchInv'
<1>1. searchAt = "group" /\ searchAt \notin Fetching
  BY CallsAre DEF S!ReadVideo
<1>2. UNCHANGED S!index /\ UNCHANGED S!request /\ raw' = raw /\ fused' = fused /\ hits' = hits
  BY DEF S!ReadVideo
<1>3. PICK v \in left :
        \/ /\ v \in searchKnown /\ of' = v /\ searchAt' = "chapters" /\ left' = left
           /\ units' = S!WindowUnits(S!Extent(v)) /\ extents' = {[t0 |-> 0, t1 |-> S!Capped(S!Extent(v))]}
        \/ left' = left \ {v} /\ searchAt' = searchAt
  BY DEF S!ReadVideo
<1>4. CASE /\ v \in searchKnown /\ of' = v /\ searchAt' = "chapters" /\ left' = left
           /\ units' = S!WindowUnits(S!Extent(v)) /\ extents' = {[t0 |-> 0, t1 |-> S!Capped(S!Extent(v))]}
  <2>1. v \in Videos /\ head \in [Live -> Nat] /\ searchUntil \in Nat \cup {None}
    BY <1>4 DEF SearchInv, IndexOK, AskedOK
  <2>2. S!Extent(v) \in Nat
    BY <2>1, SearchAssumption DEF S!Extent
  <2>3. Cut(units', extents')
    BY <1>4, <2>2, WindowsCut
  <2>4. ReadingOK'
    BY <1>4, <2>1, <2>3 DEF ReadingOK
  <2> QED BY <1>1, <1>2, <1>4, <2>4, ReadingKeeps DEF Reading
<1>5. CASE left' = left \ {v} /\ searchAt' = searchAt
  <2>1. ReadingOK'
    BY <1>1, <1>5 DEF ReadingOK, Reading
  <2> QED BY <1>1, <1>2, <1>5, <2>1, ReadingKeeps
<1> QED BY <1>3, <1>4, <1>5

LEMMA SegmentsAre ==
  ASSUME SearchInv, searchAt \in Reading, NEW l \in S!Levels
  PROVE  segments[of][l] \in Layouts
BY DEF SearchInv, IndexOK, ReadingOK

LEMMA LayoutsCut ==
  ASSUME NEW layout \in Layouts
  PROVE  layout \subseteq {s \in Ranges : s.t0 <= s.t1} /\ Cut(layout, layout)
<1>1. layout \subseteq {s \in Ranges : s.t0 <= s.t1}
  BY SearchAssumption DEF Ranges
<1> QED BY <1>1, SegmentsCut

LEMMA ReadSegmentsKeeps ==
  ASSUME SearchInv, S!ReadChapters \/ S!ReadScenes \/ S!ReadShots PROVE SearchInv'
<1>1. searchAt \in Reading /\ searchAt \notin Fetching
  BY CallsAre DEF S!ReadChapters, S!ReadScenes, S!ReadShots, Reading
<1>2. /\ UNCHANGED S!index /\ UNCHANGED S!request
      /\ raw' = raw /\ fused' = fused /\ hits' = hits /\ left' = left /\ of' = of
      /\ searchAt' \in Reading
  BY DEF S!ReadChapters, S!ReadScenes, S!ReadShots, Reading
<1>3. /\ of \in left /\ of \in Videos /\ Cut(units, extents)
      /\ searchAt \in {"scenes", "shots"} => chapters \in Layouts
  BY <1>1 DEF SearchInv, ReadingOK
<1>4. Cut(units', extents') /\ (searchAt' \in {"scenes", "shots"} => chapters' \in Layouts)
  <2>1. CASE S!ReadChapters
    <3>1. segments[of]["chapter"] \in Layouts
      BY <1>1, SegmentsAre DEF S!Levels
    <3> QED BY <1>3, <2>1, <3>1 DEF S!ReadChapters
  <2>2. CASE S!ReadScenes
    <3>1. segments[of]["scene"] \in Layouts
      BY <1>1, SegmentsAre DEF S!Levels
    <3>2. Cut(segments[of]["scene"], segments[of]["scene"])
      BY <3>1, LayoutsCut
    <3>3. chapters \in Layouts /\ chapters' = chapters
      BY <1>3, <2>2 DEF S!ReadScenes
    <3>4. \/ units' = segments[of]["scene"] /\ extents' = segments[of]["scene"]
          \/ units' = units /\ extents' = extents
      BY <2>2 DEF S!ReadScenes
    <3> QED BY <1>3, <3>2, <3>3, <3>4
  <2>3. CASE S!ReadShots
    <3>1. PICK these : these = segments[of]["shot"]
      OBVIOUS
    <3>2. these \in Layouts
      BY <1>1, <3>1, SegmentsAre DEF S!Levels
    <3>3. Cut(UNION {S!ShotPieces(s) : s \in these}, these)
      BY <3>2, LayoutsCut, ShotsCut
    <3>4. Cut(chapters, chapters)
      BY <1>3, <2>3, LayoutsCut DEF S!ReadShots
    <3>5. \/ units' = UNION {S!ShotPieces(s) : s \in these} /\ extents' = these
          \/ units' = chapters /\ extents' = chapters
          \/ units' = units /\ extents' = extents
      BY <2>3, <3>1 DEF S!ReadShots
    <3>6. searchAt' = "answer"
      BY <2>3 DEF S!ReadShots
    <3> QED BY <1>3, <3>3, <3>4, <3>5, <3>6
  <2> QED BY <2>1, <2>2, <2>3
<1>5. ReadingOK'
  BY <1>2, <1>3, <1>4 DEF ReadingOK
<1> QED BY <1>1, <1>2, <1>5, ReadingKeeps

LEMMA ImageIsFinite ==
  ASSUME NEW src, IsFiniteSet(src), NEW f, f = [x \in src |-> f[x]]
  PROVE  IsFiniteSet({f[x] : x \in src})
<1>1. PICK ns : ns = {f[x] : x \in src}
  OBVIOUS
<1>2. f \in Surjection(src, ns)
  BY <1>1 DEF Surjection
<1> QED BY <1>1, <1>2, FS_Surjection

(* The hits of a video are made of its own rows, each row in one of them. *)
LEMMA GroupsAre ==
  ASSUME SearchInv, searchAt = "answer"
  PROVE  /\ IsFiniteSet(S!Groups)
         /\ \A h \in S!Groups : Evident(h) /\ h.video = of
         /\ \A g, h \in S!Groups : g # h => g.evidence \cap h.evidence = {}
<1>1. PICK mine, us : mine = {r \in fused : r.video = of} /\ us = {S!UnitOf(r, units) : r \in mine}
  OBVIOUS
<1>2. PICK G : G = [u \in us |-> [video |-> of, t0 |-> u.t0, t1 |-> u.t1, among |-> extents,
                                 evidence |-> {r \in mine : S!UnitOf(r, units) = u}]]
  OBVIOUS
<1>3. S!Groups = {G[u] : u \in us}
  BY <1>1, <1>2 DEF S!Groups
<1>4. fused \subseteq Rows /\ (\A r \in fused : S!Wanted(r) /\ S!Below(r)) /\ Cut(units, extents)
  BY DEF SearchInv, FoundOK, ReadingOK, Reading
<1>5. IsFiniteSet(S!Groups)
  <2>1. mine \subseteq Rows
    BY <1>1, <1>4
  <2>2. IsFiniteSet(mine)
    BY <2>1, FS_Subset, SearchAssumption
  <2>3. IsFiniteSet(us)
    <3>1. PICK f : f = [r \in mine |-> S!UnitOf(r, units)]
      OBVIOUS
    <3>2. us = {f[r] : r \in mine} /\ DOMAIN f = mine
      BY <1>1, <3>1
    <3> QED BY <2>2, <3>1, <3>2, ImageIsFinite
  <2>4. G = [u \in us |-> G[u]]
    BY <1>2
  <2>5. IsFiniteSet({G[u] : u \in us})
    BY <2>3, <2>4, ImageIsFinite
  <2> QED BY <1>3, <2>5
<1>6. ASSUME NEW u \in us PROVE Evident(G[u]) /\ G[u].video = of
  <2>1. PICK E : E = {r \in mine : S!UnitOf(r, units) = u}
    OBVIOUS
  <2>2. /\ G[u].video = of /\ G[u].t0 = u.t0 /\ G[u].t1 = u.t1 /\ G[u].among = extents
        /\ G[u].evidence = E
    BY <1>2, <2>1
  <2>3. E # {}
    BY <1>1, <2>1
  <2>4. ASSUME NEW r \in E
        PROVE  r.video = of /\ S!Wanted(r) /\ S!Below(r)
               /\ (S!Holds(G[u], r) \/ \A x \in extents : ~S!Holds(x, r))
    <3>1. r \in fused /\ r.video = of /\ S!UnitOf(r, units) = u
      BY <1>1, <2>1
    <3>2. r.at \in Nat
      BY <1>4, <3>1, SearchAssumption
    <3>3. ASSUME NEW x \in extents, S!Holds(x, r) PROVE S!Holds(G[u], r)
      <4>1. S!Holds(u, r)
        BY <1>4, <3>1, <3>2, <3>3, UnitHolds
      <4> QED BY <2>2, <4>1 DEF S!Holds
    <3> QED BY <1>4, <3>1, <3>3
  <2> QED BY <2>2, <2>3, <2>4 DEF Evident
<1>7. ASSUME NEW u \in us, NEW w \in us, G[u] # G[w]
      PROVE  G[u].evidence \cap G[w].evidence = {}
  <2>1. u # w
    BY <1>7
  <2>2. /\ G[u].evidence = {r \in mine : S!UnitOf(r, units) = u}
        /\ G[w].evidence = {r \in mine : S!UnitOf(r, units) = w}
    BY <1>2
  <2> QED BY <2>1, <2>2
<1> QED BY <1>3, <1>5, <1>6, <1>7

LEMMA AnswerVideoKeeps == ASSUME SearchInv, S!AnswerVideo PROVE SearchInv'
<1>1. IndexOK /\ AskedOK /\ FoundOK /\ HitsOK /\ of \in left /\ of \in Videos
  BY DEF SearchInv, ReadingOK, Reading, S!AnswerVideo
<1>2. /\ searchAt = "answer" /\ searchAt' = "group" /\ left' = left \ {of}
      /\ UNCHANGED S!index /\ UNCHANGED S!request /\ raw' = raw /\ fused' = fused
  BY DEF S!AnswerVideo
<1>3. searchUntil' = searchUntil /\ asked' = asked
  BY <1>2 DEF S!request
<1>4. IndexOK' /\ AskedOK' /\ FoundOK'
  BY <1>1, <1>2, <1>3 DEF IndexOK, AskedOK, FoundOK, S!Wanted, S!Below, S!index
<1>5. ReadingOK'
  BY <1>2 DEF ReadingOK, Reading
<1>6. /\ IsFiniteSet(S!Groups)
      /\ \A h \in S!Groups : Evident(h) /\ h.video = of
      /\ \A g, h \in S!Groups : g # h => g.evidence \cap h.evidence = {}
  BY <1>2, GroupsAre
<1>7. PICK kept : /\ hits' = hits \cup kept /\ kept \subseteq S!Groups /\ IsFiniteSet(kept)
                  /\ asked.cap # None => Cardinality(kept) <= S!Over(asked.cap)
  <2>1. CASE asked.cap = None
    BY <1>6, <2>1 DEF S!AnswerVideo
  <2>2. CASE asked.cap # None
    <3>1. S!Over(asked.cap) \in Nat
      BY <1>1, <2>2, OverIsANumber DEF AskedOK
    <3>2. PICK kept \in S!Kept(S!Groups, S!Over(asked.cap)) : hits' = hits \cup kept
      BY <2>2 DEF S!AnswerVideo
    <3> QED BY <1>6, <3>1, <3>2, KeptIsSome
  <2> QED BY <2>1, <2>2
<1>8. HitsOK'
  <2>1. IsFiniteSet(hits')
    BY <1>1, <1>7, FS_Union DEF HitsOK
  <2>2. \A h \in hits' : Evident(h) /\ h.video \notin left'
    BY <1>1, <1>2, <1>6, <1>7 DEF HitsOK
  <2>3. \A h \in hits' : Evident(h)'
    BY <1>3, <2>2 DEF Evident, S!Wanted, S!Below
  <2>4. ASSUME NEW g \in hits', NEW h \in hits', g # h PROVE g.evidence \cap h.evidence = {}
    <3>1. CASE g \in hits /\ h \in hits
      BY <1>1, <2>4, <3>1 DEF HitsOK
    <3>2. CASE g \in kept /\ h \in kept
      BY <1>6, <1>7, <2>4, <3>2
    <3>3. CASE g.video # h.video
      BY <2>2, <3>3 DEF Evident
    <3>4. \A x \in hits : x.video # of
      BY <1>1 DEF HitsOK
    <3>5. \A x \in kept : x.video = of
      BY <1>6, <1>7
    <3> QED BY <1>7, <3>1, <3>2, <3>3, <3>4, <3>5
  <2>5. ASSUME asked.cap # None, NEW v \in Videos
        PROVE  IsFiniteSet(OfVideo(hits', v)) /\ Cardinality(OfVideo(hits', v)) <= S!Over(asked.cap)
    <3>1. CASE v = of
      <4>1. OfVideo(hits', v) = kept
        BY <1>1, <1>6, <1>7, <3>1 DEF HitsOK, OfVideo
      <4> QED BY <1>7, <2>5, <4>1
    <3>2. CASE v # of
      <4>1. OfVideo(hits', v) = OfVideo(hits, v)
        BY <1>6, <1>7, <3>2 DEF OfVideo
      <4> QED BY <1>1, <2>5, <4>1 DEF HitsOK
    <3> QED BY <3>1, <3>2
  <2>6. searchAt' \notin Fetching /\ searchAt' # "done"
    BY <1>2, CallsAre
  <2> QED BY <1>3, <2>1, <2>2, <2>3, <2>4, <2>5, <2>6 DEF HitsOK
<1> QED BY <1>4, <1>5, <1>8 DEF SearchInv

LEMMA RespondKeeps == ASSUME SearchInv, S!Respond PROVE SearchInv'
<1>1. IndexOK /\ AskedOK /\ FoundOK /\ HitsOK
  BY DEF SearchInv
<1>2. /\ searchAt' = "done" /\ left' = left /\ left = {}
      /\ UNCHANGED S!index /\ UNCHANGED S!request /\ raw' = raw /\ fused' = fused
  BY DEF S!Respond
<1>3. searchUntil' = searchUntil /\ asked' = asked
  BY <1>2 DEF S!request
<1>4. IndexOK' /\ AskedOK' /\ FoundOK'
  BY <1>1, <1>2, <1>3 DEF IndexOK, AskedOK, FoundOK, S!Wanted, S!Below, S!index
<1>5. ReadingOK'
  BY <1>2 DEF ReadingOK, Reading
<1>6. hits' \subseteq hits /\ IsFiniteSet(hits') /\ Cardinality(hits') <= S!Over(K)
  <2>1. hits' \in S!Kept(hits, S!Over(K))
    BY DEF S!Respond
  <2> QED BY <1>1, <2>1, KeptIsSome, OverIsANumber, SearchAssumption DEF HitsOK
<1>7. HitsOK'
  <2>1. \A h \in hits' : Evident(h)' /\ h.video \notin left'
    BY <1>1, <1>2, <1>3, <1>6 DEF HitsOK, Evident, S!Wanted, S!Below
  <2>2. \A g, h \in hits' : g # h => g.evidence \cap h.evidence = {}
    BY <1>1, <1>6 DEF HitsOK
  <2>3. ASSUME asked.cap # None, NEW v \in Videos
        PROVE  IsFiniteSet(OfVideo(hits', v)) /\ Cardinality(OfVideo(hits', v)) <= S!Over(asked.cap)
    <3>1. OfVideo(hits', v) \subseteq OfVideo(hits, v)
      BY <1>6 DEF OfVideo
    <3>2. IsFiniteSet(OfVideo(hits, v)) /\ Cardinality(OfVideo(hits, v)) <= S!Over(asked.cap)
      BY <1>1, <2>3 DEF HitsOK
    <3>3. /\ IsFiniteSet(OfVideo(hits', v)) /\ Cardinality(OfVideo(hits', v)) \in Nat
          /\ Cardinality(OfVideo(hits, v)) \in Nat
          /\ Cardinality(OfVideo(hits', v)) <= Cardinality(OfVideo(hits, v))
      BY <3>1, <3>2, FS_Subset, FS_CardinalityType
    <3>4. S!Over(asked.cap) \in Nat
      BY <1>1, <2>3, OverIsANumber DEF AskedOK
    <3> QED BY <3>2, <3>3, <3>4
  <2>4. searchAt' \notin Fetching
    BY <1>2, CallsAre
  <2> QED BY <1>3, <1>6, <2>1, <2>2, <2>3, <2>4 DEF HitsOK
<1> QED BY <1>4, <1>5, <1>7 DEF SearchInv

(* What is written meanwhile changes the index only. *)
LEMMA WriteKeeps == ASSUME SearchInv, S!Write \/ UNCHANGED searchVars PROVE SearchInv'
<1>1. UNCHANGED <<S!request, searchAt, raw, fused, S!grouping>>
  BY DEF S!Write, S!PutRow, S!DeleteRow, S!ReplaceSegments, S!PutVideo, S!HeadMoves, searchVars, S!request, S!grouping,
         S!answering
<1>2. /\ searchUntil' = searchUntil /\ asked' = asked /\ searchAt' = searchAt /\ raw' = raw /\ fused' = fused
      /\ left' = left /\ of' = of /\ chapters' = chapters /\ units' = units
      /\ extents' = extents /\ hits' = hits
  BY <1>1 DEF S!request, S!grouping, S!answering
<1>3. AskedOK' /\ FoundOK' /\ ReadingOK'
  BY <1>2 DEF SearchInv, AskedOK, FoundOK, ReadingOK, S!Wanted, S!Below
<1>4. HitsOK'
  <2>1. HitsOK
    BY DEF SearchInv
  <2>2. \A h \in hits : Evident(h)' /\ h.video \notin left'
    BY <1>2, <2>1 DEF HitsOK, Evident, S!Wanted, S!Below
  <2>3. \A v : OfVideo(hits', v) = OfVideo(hits, v)
    BY <1>2
  <2> QED BY <1>2, <2>1, <2>2, <2>3 DEF HitsOK
<1>5. IndexOK'
  <2>1. IndexOK
    BY DEF SearchInv
  <2>2. CASE UNCHANGED searchVars
    BY <2>1, <2>2 DEF searchVars, IndexOK
  <2>3. CASE S!PutRow \/ S!DeleteRow \/ S!PutVideo
    BY <2>1, <2>3 DEF S!PutRow, S!DeleteRow, S!PutVideo, IndexOK
  <2>4. CASE S!ReplaceSegments
    <3>1. PICK v \in searchKnown, level \in S!Levels, layout \in Layouts :
            segments' = [segments EXCEPT ![v][level] = layout]
      BY <2>4 DEF S!ReplaceSegments
    <3>2. segments' \in [Videos -> [S!Levels -> Layouts]]
      BY <2>1, <3>1 DEF IndexOK
    <3> QED BY <2>1, <2>4, <3>2 DEF S!ReplaceSegments, IndexOK
  <2>5. CASE S!HeadMoves
    <3>1. PICK v \in Live : head' = [head EXCEPT ![v] = Duration[v]]
      BY <2>5 DEF S!HeadMoves
    <3>2. head' \in [Live -> Nat]
      BY <2>1, <3>1, SearchAssumption DEF IndexOK
    <3> QED BY <2>1, <2>5, <3>2 DEF S!HeadMoves, IndexOK
  <2> QED BY <2>2, <2>3, <2>4, <2>5 DEF S!Write
<1> QED BY <1>3, <1>4, <1>5 DEF SearchInv

LEMMA SearchIsKept == SearchInv /\ [S!Next]_searchVars => SearchInv'
BY TextSearchKeeps, VectorFilesKeeps, VectorRowsKeeps, NoEmbedderKeeps, ReadVideoKeeps,
   ReadSegmentsKeeps, AnswerVideoKeeps, RespondKeeps, WriteKeeps DEF S!Next, S!SearchStep

LEMMA HitsHold == ASSUME SearchInv PROVE S!HitsHoldTheirEvidence
<1>1. HitsOK
  BY DEF SearchInv
<1>2. \A h \in hits : h.evidence # {} /\ S!Coherent(h)
  BY <1>1 DEF HitsOK, Evident, S!Coherent
<1>3. asked.cap # None =>
        \A v \in Videos : S!Cardinality({h \in hits : h.video = v}) <= S!Over(asked.cap)
  BY <1>1, SizesAre DEF HitsOK, OfVideo
<1>4. searchAt = "done" => S!Cardinality(hits) <= S!Over(K)
  BY <1>1, SizesAre DEF HitsOK
<1> QED BY <1>2, <1>3, <1>4 DEF S!HitsHoldTheirEvidence

(* Whatever is written between the calls of a search, in whatever order,   *)
(* its hits are of what was asked for and lie before the bound, no row     *)
(* backs two, and the range of a hit is the one its evidence lies in       *)
(* (search, temporal_units).                                               *)
THEOREM HitsAreEvident == Spec => []HitsHoldTheirEvidence
<1>1. Init => SearchInv
  BY SearchBegins DEF Init
<1>2. SearchInv /\ [Next]_vars => SearchInv'
  BY SearchMoves, SearchIsKept
<1>3. SearchInv => HitsHoldTheirEvidence
  BY HitsHold DEF HitsHoldTheirEvidence
<1> QED BY <1>1, <1>2, <1>3, PTL DEF Spec

-----------------------------------------------------------------------------
(* What a reading tool leaves out.                                         *)
TWindows == [t0 : 0..Length, t1 : Int, cut : BOOLEAN]
TGrids == [t0 : Int, t1 : Int, frames : Int]
TRows == [t0 : 0..Length, t1 : Int, cut : BOOLEAN, shown : TGrids,
          text : SUBSET Lines, truncated : BOOLEAN]

(* Windows in order, none of which reaches into the next.                  *)
Apart(ws) == \A i, j \in 1..Len(ws) : i < j => ws[i].t1 <= ws[j].t0

(* Windows that have every second that is asked for, or were cut before it.*)
Reads(ws, windows) ==
  \A i \in 1..Len(windows), second \in 0..(Length - 1) :
    (windows[i][1] <= second /\ second < windows[i][2]) =>
      \E k \in 1..Len(ws) : ws[k].t0 <= second /\ (second < ws[k].t1 \/ ws[k].cut)

RowOf(r, w) == r.t0 = w.t0 /\ r.t1 = w.t1 /\ r.cut = w.cut /\ T!RowHolds(r)

GridOf(g, w) == g \in {T!Decoding, T!Nothing} \/ (g.t0 = w.t0 /\ g.frames <= MaxFrames)

RowsOfWindows == \A i \in 1..Len(toolsRows) : RowOf(toolsRows[i], wins[i])

GridsOfWindows ==
  /\ grids \in [1..Len(wins) -> TGrids]
  /\ \A i \in 1..Len(wins) : GridOf(grids[i], wins[i])

(* The windows of a call are apart and have what was asked; each row is of *)
(* its window and holds its text, each grid of its window and its frames.  *)
WindowsOk ==
  /\ wins \in Seq(TWindows) /\ Apart(wins) /\ Reads(wins, toolsCall.windows)
  /\ toolsCall.tool = "describe" => Len(wins) = 1

RowsOk ==
  /\ toolsRows \in Seq(TRows) /\ Len(toolsRows) <= Len(wins) /\ RowsOfWindows
  /\ toolsAt = "answered" => Len(toolsRows) = Len(wins)

CallOk ==
  /\ toolsCall.tool # "zoom" =>
       toolsCall.windows \in Seq(Int \X Int) /\ (toolsCall.multi \/ Len(toolsCall.windows) = 1)
  /\ toolsCall.tool = "describe" => ~toolsCall.multi

Stored == stored # <<>> => stored.shot \in stored.shots /\ 2 * stored.shot[1] <= stored.mid

ToolsInv ==
  /\ CallOk
  /\ toolsAt = "asked" => toolsRows = <<>>
  /\ toolsCall.tool # "zoom" /\ toolsAt \in {"reading", "answered"} =>
       /\ WindowsOk
       /\ RowsOk
       /\ toolsAt = "reading" /\ toolsCall.tool # "text" => GridsOfWindows
  /\ Stored
  /\ toolsCall.tool = "zoom" /\ toolsAt = "answered" => T!CropHolds

LEMMA ToolsMove == [Next]_vars => [T!Next]_toolsVars
BY DEF Next, LoopSteps, RequestsSteps, BoundSteps, MentionsSteps, ToolsSteps, SearchSteps,
       CitationsSteps, vars, toolsVars

(* A crop holds its region: in quarters of a pixel, one axis. *)
LEMMA CropIsHeld ==
  ASSUME NEW side \in Sides, NEW n \in 0..(2 * side - 1), NEW k \in (n + 1)..(2 * side)
  PROVE  LET c == T!Axis(2 * n, 2 * k, side)
         IN /\ 4 * c.start <= c.from /\ c.to <= 4 * (c.start + c.len)
            /\ c.start + c.len <= c.side /\ c.len >= T!Least(MinCrop, c.side)
<1>1. side \in Nat /\ side > 0 /\ MinCrop \in Nat /\ MinCrop > 0
  BY ToolsAssumption DEF ToolsAssumption
<1>2. n \in Nat /\ k \in Nat /\ n < k /\ k <= 2 * side
  BY <1>1
<1> DEFINE mid == (2 * n + 2 * k) \div 2
           wide == 2 * k - 2 * n >= 4 * MinCrop
           a0 == IF wide THEN 2 * n ELSE mid - 2 * MinCrop
           b0 == IF wide THEN 2 * k ELSE mid + 2 * MinCrop
           a1 == T!Most(a0, 0)
           b1 == b0 + (a1 - a0)
           b2 == T!Least(b1, 4 * side)
           a2 == T!Most(a1 - (b1 - b2), 0)
           start == a2 \div 4
           end == T!Least((b2 + 3) \div 4, side)
<1>3. mid = n + k
  BY <1>2
<1>4. /\ a0 \in Int /\ b0 \in Int /\ a0 <= 2 * n /\ 2 * k <= b0
      /\ b0 - a0 >= 4 * MinCrop /\ (wide => a0 = 2 * n /\ b0 = 2 * k)
      /\ (~wide => b0 - a0 = 4 * MinCrop)
  BY <1>1, <1>2, <1>3
<1> HIDE DEF mid, a0, b0
<1>5. /\ a1 \in Nat /\ a1 <= 2 * n /\ b1 \in Int /\ 2 * k <= b1 /\ b1 - a1 = b0 - a0
  BY <1>2, <1>4 DEF T!Most
<1> HIDE DEF a1, b1
<1>6. /\ b2 \in Int /\ b2 <= 4 * side /\ 2 * k <= b2 /\ b2 <= b1
      /\ b2 = b1 \/ b2 = 4 * side
  BY <1>1, <1>2, <1>5 DEF T!Least
<1> HIDE DEF b2
<1>7. /\ a2 \in Nat /\ a2 <= 2 * n
      /\ a2 = 0 \/ b2 - a2 = b0 - a0
      /\ b2 - a2 >= 4 * MinCrop \/ (a2 = 0 /\ b2 = 4 * side)
  BY <1>1, <1>2, <1>4, <1>5, <1>6 DEF T!Most
<1> HIDE DEF a2, wide
<1>8. start \in Nat /\ 4 * start <= a2 /\ a2 < 4 * start + 4
  BY <1>7
<1>9. end \in Nat /\ b2 <= 4 * end /\ end <= side
  BY <1>1, <1>2, <1>6 DEF T!Least
<1> HIDE DEF start, end
<1>10. start < end
  BY <1>2, <1>6, <1>7, <1>8, <1>9
<1>11. end - start >= T!Least(MinCrop, side)
  <2>1. CASE b2 - a2 >= 4 * MinCrop
    <3>1. 4 * (end - start) >= 4 * MinCrop
      BY <1>1, <1>6, <1>7, <1>8, <1>9, <2>1
    <3> QED BY <1>1, <1>8, <1>9, <3>1 DEF T!Least
  <2>2. CASE a2 = 0 /\ b2 = 4 * side
    <3>1. start = 0
      BY <1>8, <2>2
    <3>2. end >= side
      BY <1>1, <1>9, <2>2
    <3> QED BY <1>1, <1>9, <3>1, <3>2 DEF T!Least
  <2> QED BY <1>7, <2>1, <2>2
<1>12. T!Most(end - start, 1) = end - start
  BY <1>8, <1>9, <1>10 DEF T!Most
<1>13. T!Axis(2 * n, 2 * k, side) =
         [from |-> 2 * n, to |-> 2 * k, side |-> side, start |-> start, len |-> end - start]
  BY <1>12 DEF T!Axis, mid, wide, a0, b0, a1, b1, b2, a2, start, end
<1>14. 4 * start <= 2 * n /\ 2 * k <= 4 * (start + (end - start)) /\ start + (end - start) <= side
  BY <1>2, <1>6, <1>7, <1>8, <1>9
<1> QED BY <1>11, <1>13, <1>14

-----------------------------------------------------------------------------
(* The windows of a call, while they are merged. *)
WholeWindows == [t0 : 0..Length, t1 : Int, cut : {FALSE}]

LEMMA WholeWindowsAre ==
  /\ Length \in Nat
  /\ \A w \in WholeWindows :
       w.t0 \in 0..Length /\ w.t0 \in Int /\ w.t1 \in Int /\ w.cut = FALSE
<1>1. Length \in Nat
  BY ToolsAssumption DEF ToolsAssumption
<1>2. ASSUME NEW w \in WholeWindows
      PROVE  w.t0 \in 0..Length /\ w.t1 \in Int /\ w.cut = FALSE
  BY DEF WholeWindows
<1>3. \A t \in 0..Length : t \in Int
  BY <1>1
<1> QED BY <1>1, <1>2, <1>3

InOrder(ws) == \A i, j \in 1..Len(ws) : i <= j => ws[i].t0 <= ws[j].t0

(* The first n of ws, merged. *)
MergedFirst(done, ws, n) ==
  /\ done \in Seq(WholeWindows) /\ Apart(done)
  /\ n > 0 => done # <<>>
  /\ \A i \in 1..Len(done), k \in n..Len(ws) : k > 0 => done[i].t0 <= ws[k].t0
  /\ \A k \in 1..n : \E i \in 1..Len(done) : done[i].t0 <= ws[k].t0 /\ ws[k].t1 <= done[i].t1

LEMMA MergingGoesOn ==
  ASSUME NEW ws \in Seq(WholeWindows), InOrder(ws), NEW n \in 1..Len(ws), NEW done,
         MergedFirst(done, ws, n - 1)
  PROVE  MergedFirst(T!MergedWith(done, ws[n]), ws, n)
<1> DEFINE w == ws[n]
<1>1. /\ n \in Nat /\ n >= 1 /\ Len(ws) \in Nat /\ w \in WholeWindows
      /\ w.t0 \in Int /\ w.t1 \in Int
  <2>1. n \in Nat /\ n >= 1 /\ Len(ws) \in Nat /\ w \in WholeWindows
    OBVIOUS
  <2> QED BY <2>1, WholeWindowsAre
<1>2. done \in Seq(WholeWindows) /\ Len(done) \in Nat
  BY DEF MergedFirst
<1>3. \A i \in 1..Len(done) : done[i] \in WholeWindows /\ done[i].t0 \in Int /\ done[i].t1 \in Int
  <2>1. \A i \in 1..Len(done) : done[i] \in WholeWindows
    BY <1>2
  <2> QED BY <2>1, WholeWindowsAre
<1>4. \A i \in 1..Len(done) : done[i].t0 <= w.t0
  <2>1. n \in (n - 1)..Len(ws) /\ n > 0
    BY <1>1
  <2> QED BY <2>1 DEF MergedFirst
<1>5. \A k \in n..Len(ws) : ws[k] \in WholeWindows /\ ws[k].t0 \in Int /\ w.t0 <= ws[k].t0
  <2> SUFFICES ASSUME NEW k \in n..Len(ws)
               PROVE  ws[k] \in WholeWindows /\ ws[k].t0 \in Int /\ w.t0 <= ws[k].t0
    OBVIOUS
  <2>1. k \in 1..Len(ws) /\ n <= k
    BY <1>1
  <2>2. ws[k] \in WholeWindows
    BY <2>1
  <2> QED BY <2>1, <2>2, WholeWindowsAre DEF InOrder
<1>6. \A i, j \in 1..Len(done) : i < j => done[i].t1 <= done[j].t0
  BY DEF MergedFirst, Apart
<1>7. \A k \in 1..(n - 1) : \E i \in 1..Len(done) : done[i].t0 <= ws[k].t0 /\ ws[k].t1 <= done[i].t1
  BY DEF MergedFirst
<1>8. \A k \in 1..(n - 1) : ws[k].t0 \in Int /\ ws[k].t1 \in Int
  <2> SUFFICES ASSUME NEW k \in 1..(n - 1) PROVE ws[k].t0 \in Int /\ ws[k].t1 \in Int
    OBVIOUS
  <2>1. k \in 1..Len(ws)
    BY <1>1
  <2>2. ws[k] \in WholeWindows
    BY <2>1
  <2> QED BY <2>2, WholeWindowsAre
<1> HIDE DEF w
<1>9. CASE done # <<>> /\ w.t0 <= done[Len(done)].t1
  <2> DEFINE m == Len(done)
             joined == T!MergedInto(done[m], w)
             next == [done EXCEPT ![m] = joined]
  <2>1. m \in 1..Len(done)
    BY <1>2, <1>9
  <2>2. joined = [done[m] EXCEPT !.t1 = T!Most(done[m].t1, w.t1)]
    BY DEF T!MergedInto
  <2>3. /\ joined \in WholeWindows /\ joined.t0 = done[m].t0
        /\ done[m].t1 <= joined.t1 /\ w.t1 <= joined.t1
    <3>1. done[m] \in WholeWindows /\ done[m].t1 \in Int
      BY <1>3, <2>1
    <3>2. T!Most(done[m].t1, w.t1) \in Int /\ done[m].t1 <= T!Most(done[m].t1, w.t1)
          /\ w.t1 <= T!Most(done[m].t1, w.t1)
      BY <1>1, <3>1 DEF T!Most
    <3>3. joined \in WholeWindows
      BY <2>2, <3>1, <3>2 DEF WholeWindows
    <3>4. joined.t0 = done[m].t0 /\ joined.t1 = T!Most(done[m].t1, w.t1)
      BY <2>2, <3>1 DEF WholeWindows
    <3> QED BY <3>2, <3>3, <3>4
  <2>4. /\ next \in Seq(WholeWindows) /\ Len(next) = m
        /\ \A i \in 1..m : next[i] = IF i = m THEN joined ELSE done[i]
    BY <1>2, <2>1, <2>3
  <2>5. T!MergedWith(done, w) = next
    BY <1>9 DEF T!MergedWith
  <2> HIDE DEF joined, next
  <2>6. Apart(next)
    <3> SUFFICES ASSUME NEW i \in 1..m, NEW j \in 1..m, i < j PROVE next[i].t1 <= next[j].t0
      BY <2>4 DEF Apart
    <3>1. i # m /\ next[i] = done[i]
      BY <2>4, <1>2
    <3>2. next[j].t0 = done[j].t0
      BY <2>3, <2>4
    <3> QED BY <1>6, <3>1, <3>2
  <2>7. \A i \in 1..m : next[i].t0 = done[i].t0
    BY <2>3, <2>4
  <2>8. \A i \in 1..m, k \in n..Len(ws) : next[i].t0 <= ws[k].t0
    <3> SUFFICES ASSUME NEW i \in 1..m, NEW k \in n..Len(ws) PROVE next[i].t0 <= ws[k].t0
      OBVIOUS
    <3>1. next[i].t0 = done[i].t0 /\ done[i].t0 <= w.t0 /\ w.t0 <= ws[k].t0
      BY <1>4, <1>5, <2>7
    <3>2. done[i].t0 \in Int /\ w.t0 \in Int /\ ws[k].t0 \in Int
      BY <1>1, <1>3, <1>5
    <3> QED BY <3>1, <3>2
  <2>9. ASSUME NEW k \in 1..n PROVE \E i \in 1..m : next[i].t0 <= ws[k].t0 /\ ws[k].t1 <= next[i].t1
    <3>1. CASE k = n
      BY <1>4, <2>1, <2>3, <2>4, <3>1 DEF w
    <3>2. CASE k # n
      <4>1. k \in 1..(n - 1)
        BY <1>1, <3>2
      <4>2. PICK i \in 1..m : done[i].t0 <= ws[k].t0 /\ ws[k].t1 <= done[i].t1
        BY <1>7, <4>1
      <4>3. next[i].t0 = done[i].t0
        BY <2>7
      <4>4. done[i].t1 <= next[i].t1 /\ next[i].t1 \in Int /\ done[i].t1 \in Int /\ ws[k].t1 \in Int
        <5>1. next[i] \in WholeWindows
          BY <2>4
        <5>2. next[i].t1 \in Int
          BY <5>1, WholeWindowsAre
        <5>3. done[i].t1 \in Int /\ ws[k].t1 \in Int
          BY <1>3, <1>8, <4>1
        <5>4. done[i].t1 <= next[i].t1
          BY <2>3, <2>4, <5>3
        <5> QED BY <5>2, <5>3, <5>4
      <4> QED BY <4>2, <4>3, <4>4
    <3> QED BY <3>1, <3>2
  <2>10. next # <<>>
    BY <2>1, <2>4
  <2> QED BY <2>4, <2>5, <2>6, <2>8, <2>9, <2>10 DEF MergedFirst, w
<1>10. CASE ~(done # <<>> /\ w.t0 <= done[Len(done)].t1)
  <2> DEFINE m == Len(done)
             next == Append(done, w)
  <2>1. T!MergedWith(done, w) = next
    BY <1>10 DEF T!MergedWith
  <2>2. /\ next \in Seq(WholeWindows) /\ Len(next) = m + 1
        /\ \A i \in 1..m : next[i] = done[i]
        /\ next[m + 1] = w
    BY <1>1, <1>2 DEF w
  <2> HIDE DEF next
  <2>3. \A i \in 1..m : done[i].t1 <= w.t0
    <3> SUFFICES ASSUME NEW i \in 1..m PROVE done[i].t1 <= w.t0
      OBVIOUS
    <3>1. m \in 1..m /\ done # <<>>
      BY <1>2
    <3>2. done[m].t1 < w.t0 /\ done[m].t0 <= w.t0
      BY <1>1, <1>3, <1>4, <1>10, <3>1
    <3>3. CASE i = m
      BY <1>1, <1>3, <3>1, <3>2, <3>3
    <3>4. CASE i # m
      <4>1. done[i].t1 <= done[m].t0
        BY <1>2, <1>6, <3>1, <3>4
      <4> QED BY <1>1, <1>3, <3>1, <3>2, <4>1
    <3> QED BY <3>3, <3>4
  <2>4. Apart(next)
    <3> SUFFICES ASSUME NEW i \in 1..(m + 1), NEW j \in 1..(m + 1), i < j
                 PROVE  next[i].t1 <= next[j].t0
      BY <2>2 DEF Apart
    <3>1. i \in 1..m /\ next[i] = done[i]
      BY <1>2, <2>2
    <3>2. CASE j = m + 1
      BY <2>2, <2>3, <3>1, <3>2
    <3>3. CASE j # m + 1
      <4>1. j \in 1..m
        BY <1>2, <3>3
      <4>2. next[j] = done[j]
        BY <2>2, <4>1
      <4> QED BY <1>6, <3>1, <4>1, <4>2
    <3> QED BY <3>2, <3>3
  <2>5. \A i \in 1..(m + 1), k \in n..Len(ws) : next[i].t0 <= ws[k].t0
    <3> SUFFICES ASSUME NEW i \in 1..(m + 1), NEW k \in n..Len(ws) PROVE next[i].t0 <= ws[k].t0
      OBVIOUS
    <3>1. w.t0 <= ws[k].t0 /\ ws[k].t0 \in Int
      BY <1>5
    <3>2. CASE i = m + 1
      BY <2>2, <3>1, <3>2
    <3>3. CASE i # m + 1
      <4>1. i \in 1..m /\ next[i] = done[i] /\ done[i].t0 <= w.t0 /\ done[i].t0 \in Int
        BY <1>2, <1>3, <1>4, <2>2, <3>3
      <4> QED BY <1>1, <3>1, <4>1
    <3> QED BY <3>2, <3>3
  <2>6. ASSUME NEW k \in 1..n
        PROVE  \E i \in 1..(m + 1) : next[i].t0 <= ws[k].t0 /\ ws[k].t1 <= next[i].t1
    <3>1. CASE k = n
      <4>1. m + 1 \in 1..(m + 1) /\ next[m + 1] = ws[k]
        BY <1>2, <2>2, <3>1 DEF w
      <4>2. ws[k].t0 \in Int /\ ws[k].t1 \in Int
        BY <1>1, <3>1 DEF w
      <4> QED BY <4>1, <4>2
    <3>2. CASE k # n
      <4>1. k \in 1..(n - 1)
        BY <1>1, <3>2
      <4>2. PICK i \in 1..m : done[i].t0 <= ws[k].t0 /\ ws[k].t1 <= done[i].t1
        BY <1>7, <4>1
      <4>3. i \in 1..(m + 1) /\ next[i] = done[i]
        BY <1>2, <2>2
      <4> QED BY <4>2, <4>3
    <3> QED BY <3>1, <3>2
  <2>7. next # <<>>
    BY <1>2, <2>2
  <2> QED BY <2>1, <2>2, <2>4, <2>5, <2>6, <2>7 DEF MergedFirst, w
<1> QED BY <1>9, <1>10 DEF w
LEMMA MergingIs ==
  ASSUME NEW ws \in Seq(WholeWindows)
  PROVE  /\ T!Merging(ws)[0] = <<>>
         /\ \A n \in 1..Len(ws) : T!Merging(ws)[n] = T!MergedWith(T!Merging(ws)[n - 1], ws[n])
<1> DEFINE rule(f, n) == IF n = 0 THEN <<>> ELSE T!MergedWith(f[n - 1], ws[n])
           Up(m) == \E f : f = [n \in 0..m |-> rule(f, n)]
           missing == {m \in 0..Len(ws) : ~Up(m)}
<1>1. Len(ws) \in Nat
  OBVIOUS
<1>2. missing = {}
  <2> SUFFICES ASSUME missing # {} PROVE FALSE
    OBVIOUS
  <2>1. missing \in SUBSET Nat
    BY <1>1
  <2>2. PICK m \in missing : \A k \in missing : m <= k
    BY <2>1, LeastNat
  <2>3. m \in 0..Len(ws) /\ ~Up(m)
    BY <2>2
  <2>4. CASE m = 0
    <3>1. [n \in 0..0 |-> <<>>] = [n \in 0..0 |-> rule([k \in 0..0 |-> <<>>], n)]
      BY DEF rule
    <3>2. Up(0)
      BY <3>1
    <3> QED BY <2>3, <2>4, <3>2
  <2>5. CASE m # 0
    <3>1. m - 1 \in 0..Len(ws) /\ m \in Nat /\ m - 1 \in Nat /\ ~(m <= m - 1)
      BY <1>1, <2>3, <2>5
    <3>2. Up(m - 1)
      BY <2>2, <3>1
    <3>3. PICK f : f = [n \in 0..(m - 1) |-> rule(f, n)]
      BY <3>2
    <3> DEFINE g == [n \in 0..m |-> IF n = m THEN rule(f, m) ELSE f[n]]
    <3> HIDE DEF rule
    <3>4. \A n \in 0..m : n # 0 => n - 1 \in 0..m /\ n - 1 # m
      BY <3>1
    <3>5. \A n \in 0..m : g[n] = IF n = m THEN rule(f, m) ELSE f[n]
      OBVIOUS
    <3>6. \A n \in 0..m : n # m => n \in 0..(m - 1)
      BY <3>1
    <3>7. \A n \in 0..m : g[n] = rule(f, n)
      BY <3>3, <3>5, <3>6
    <3>8. \A n \in 0..m : n # 0 => g[n - 1] = f[n - 1]
      BY <3>4, <3>5
    <3>9. \A n \in 0..m : rule(g, n) = rule(f, n)
      BY <3>8 DEF rule
    <3>10. g = [n \in 0..m |-> rule(g, n)]
      <4>1. g = [n \in 0..m |-> g[n]]
        OBVIOUS
      <4> HIDE DEF g
      <4>2. \A n \in 0..m : g[n] = rule(g, n)
        BY <3>7, <3>9
      <4> QED BY <4>1, <4>2
    <3>11. Up(m)
      BY <3>10
    <3> QED BY <2>3, <3>11
  <2> QED BY <2>4, <2>5
<1>3. Up(Len(ws))
  BY <1>1, <1>2
<1>4. T!Merging(ws) = CHOOSE f : f = [n \in 0..Len(ws) |-> rule(f, n)]
  BY DEF T!Merging, rule
<1>5. T!Merging(ws) = [n \in 0..Len(ws) |-> rule(T!Merging(ws), n)]
  <2> HIDE DEF rule
  <2> QED BY <1>3, <1>4
<1>6. \A n \in 0..Len(ws) : T!Merging(ws)[n] = rule(T!Merging(ws), n)
  <2> HIDE DEF rule
  <2> QED BY <1>5
<1> QED BY <1>1, <1>6 DEF rule

LEMMA MergingMerges ==
  ASSUME NEW ws \in Seq(WholeWindows), InOrder(ws)
  PROVE  MergedFirst(T!Merging(ws)[Len(ws)], ws, Len(ws))
<1> DEFINE missing == {n \in 0..Len(ws) : ~MergedFirst(T!Merging(ws)[n], ws, n)}
<1>1. Len(ws) \in Nat
  OBVIOUS
<1>2. missing = {}
  <2> SUFFICES ASSUME missing # {} PROVE FALSE
    OBVIOUS
  <2>1. missing \in SUBSET Nat
    BY <1>1
  <2>2. PICK n \in missing : \A k \in missing : n <= k
    BY <2>1, LeastNat
  <2>3. n \in 0..Len(ws) /\ ~MergedFirst(T!Merging(ws)[n], ws, n)
    BY <2>2
  <2>4. CASE n = 0
    <3>1. T!Merging(ws)[0] = <<>>
      BY MergingIs
    <3>2. MergedFirst(<<>>, ws, 0)
      BY DEF MergedFirst, Apart
    <3> QED BY <2>3, <2>4, <3>1, <3>2
  <2>5. CASE n # 0
    <3>1. n - 1 \in 0..Len(ws) /\ n \in 1..Len(ws) /\ ~(n <= n - 1)
      BY <1>1, <2>3, <2>5
    <3>2. MergedFirst(T!Merging(ws)[n - 1], ws, n - 1)
      BY <2>2, <3>1
    <3>3. T!Merging(ws)[n] = T!MergedWith(T!Merging(ws)[n - 1], ws[n])
      BY <3>1, MergingIs
    <3> QED BY <2>3, <3>1, <3>2, <3>3, MergingGoesOn
  <2> QED BY <2>4, <2>5
<1> QED BY <1>1, <1>2
LEMMA SortingsSort ==
  ASSUME NEW us \in Seq(WholeWindows), NEW ws \in T!Sortings(us)
  PROVE  /\ ws \in Seq(WholeWindows) /\ Len(ws) = Len(us) /\ InOrder(ws)
         /\ \A k \in 1..Len(us) : \E i \in 1..Len(ws) : ws[i] = us[k]
<1> DEFINE n == Len(us)
<1>1. n \in Nat /\ DOMAIN us = 1..n /\ \A i \in 1..n : us[i] \in WholeWindows
  OBVIOUS
<1>2. PICK p \in T!Bijection(1..n, 1..n) :
        /\ \A i, j \in 1..n : i < j =>
             us[p[i]].t0 < us[p[j]].t0 \/ (us[p[i]].t0 = us[p[j]].t0 /\ p[i] < p[j])
        /\ ws = [i \in 1..n |-> us[p[i]]]
  BY <1>1 DEF T!Sortings
<1>3. p \in [1..n -> 1..n] /\ \A k \in 1..n : \E i \in 1..n : p[i] = k
  BY <1>2 DEF T!Bijection, T!Injection, T!Surjection
<1>4. \A i \in 1..n : p[i] \in 1..n /\ ws[i] = us[p[i]] /\ ws[i] \in WholeWindows
  BY <1>1, <1>2, <1>3
<1>5. ws \in Seq(WholeWindows) /\ Len(ws) = n
  BY <1>1, <1>2, <1>4
<1>6. InOrder(ws)
  <2> SUFFICES ASSUME NEW i \in 1..n, NEW j \in 1..n, i <= j PROVE ws[i].t0 <= ws[j].t0
    BY <1>5 DEF InOrder
  <2>1. ws[i].t0 \in Int /\ ws[j].t0 \in Int
    BY <1>4, WholeWindowsAre
  <2>2. CASE i = j
    BY <2>1, <2>2
  <2>3. CASE i # j
    <3>1. i < j
      BY <2>3
    <3> QED BY <1>2, <1>4, <2>1, <3>1
  <2> QED BY <2>2, <2>3
<1>7. ASSUME NEW k \in 1..n PROVE \E i \in 1..n : ws[i] = us[k]
  <2>1. PICK i \in 1..n : p[i] = k
    BY <1>3
  <2> QED BY <1>4, <2>1
<1>8. 1..Len(us) = 1..n /\ 1..Len(ws) = 1..n /\ Len(ws) = Len(us)
  BY <1>5
<1> HIDE DEF n
<1> QED BY <1>5, <1>6, <1>7, <1>8

LEMMA RangeHasItsSeconds ==
  ASSUME NEW w \in Int \X Int
  PROVE  /\ T!RangeArgs(w) \in WholeWindows
         /\ \A s \in 0..(Length - 1) :
              w[1] <= s /\ s < w[2] => T!RangeArgs(w).t0 <= s /\ s < T!RangeArgs(w).t1
<1>1. w[1] \in Int /\ w[2] \in Int /\ Length \in Nat
  BY WholeWindowsAre
<1> DEFINE t0 == T!Least(T!Most(w[1], 0), Length)
           t1 == T!Least(w[2], T!Most(Length, w[1] + T!Half))
<1>2. t0 \in 0..Length /\ t1 \in Int
  BY <1>1 DEF T!Least, T!Most, T!Half
<1>3. T!RangeArgs(w) = [t0 |-> t0, t1 |-> t1, cut |-> FALSE]
  BY DEF T!RangeArgs
<1>4. \A s \in 0..(Length - 1) : w[1] <= s /\ s < w[2] => t0 <= s /\ s < t1
  BY <1>1 DEF T!Least, T!Most, T!Half
<1> HIDE DEF t0, t1
<1>5. T!RangeArgs(w) \in WholeWindows
  BY <1>2, <1>3 DEF WholeWindows
<1> QED BY <1>3, <1>4, <1>5

(* The windows a call comes to, before a view cuts them. *)
LEMMA ArgsAreWindows ==
  ASSUME toolsCall.windows \in Seq(Int \X Int), toolsCall.multi \/ Len(toolsCall.windows) = 1,
         NEW ws \in T!WindowsArgs
  PROVE  /\ ws \in Seq(WholeWindows) /\ Apart(ws) /\ Reads(ws, toolsCall.windows)
         /\ ~toolsCall.multi => Len(ws) = 1
<1> DEFINE named == toolsCall.windows
           n == Len(named)
           us == T!Ranges
<1>1. n \in Nat /\ DOMAIN named = 1..n /\ \A i \in 1..n : named[i] \in Int \X Int
  OBVIOUS
<1>2. us = [i \in 1..n |-> T!RangeArgs(named[i])]
  BY <1>1 DEF T!Ranges
<1>3. \A i \in 1..n : us[i] = T!RangeArgs(named[i]) /\ us[i] \in WholeWindows
  BY <1>1, <1>2, RangeHasItsSeconds
<1> HIDE DEF us, n
<1>4. us \in Seq(WholeWindows) /\ Len(us) = n
  <2>1. us \in [1..n -> WholeWindows]
    BY <1>2, <1>3
  <2> QED BY <1>1, <2>1
<1>5. \A i \in 1..n, s \in 0..(Length - 1) :
        named[i][1] <= s /\ s < named[i][2] => us[i].t0 <= s /\ s < us[i].t1
  BY <1>1, <1>3, RangeHasItsSeconds
<1>6. CASE ~toolsCall.multi
  <2>1. ws = us /\ n = 1
    BY <1>6 DEF T!WindowsArgs, us, n
  <2>2. Apart(ws)
    <3>1. ~\E i, j \in 1..1 : i < j
      OBVIOUS
    <3> QED BY <1>4, <2>1, <3>1 DEF Apart
  <2>3. Reads(ws, named)
    BY <1>4, <1>5, <2>1 DEF Reads, n
  <2> QED BY <1>4, <2>1, <2>2, <2>3
<1>7. CASE toolsCall.multi
  <2>1. PICK os \in T!Sortings(us) : ws = T!Merging(os)[Len(os)]
    BY <1>7 DEF T!WindowsArgs, us
  <2>2. /\ os \in Seq(WholeWindows) /\ Len(os) = n /\ InOrder(os)
        /\ \A k \in 1..n : \E i \in 1..n : os[i] = us[k]
    <3>1. us \in Seq(WholeWindows) /\ Len(us) = n
      BY <1>4
    <3>2. /\ os \in Seq(WholeWindows) /\ Len(os) = Len(us) /\ InOrder(os)
          /\ \A k \in 1..Len(us) : \E i \in 1..Len(os) : os[i] = us[k]
      BY <2>1, <3>1, SortingsSort
    <3> QED BY <3>1, <3>2
  <2>3. MergedFirst(ws, os, n)
    BY <2>1, <2>2, MergingMerges
  <2>4. ws \in Seq(WholeWindows) /\ Apart(ws)
    BY <2>3 DEF MergedFirst
  <2>5. ASSUME NEW k \in 1..n, NEW s \in 0..(Length - 1), named[k][1] <= s, s < named[k][2]
        PROVE  \E j \in 1..Len(ws) : ws[j].t0 <= s /\ s < ws[j].t1
    <3>1. PICK i \in 1..n : os[i] = us[k]
      BY <2>2
    <3>2. PICK j \in 1..Len(ws) : ws[j].t0 <= os[i].t0 /\ os[i].t1 <= ws[j].t1
      BY <2>3 DEF MergedFirst
    <3>3. us[k].t0 <= s /\ s < us[k].t1
      BY <1>5, <2>5
    <3>4. ws[j] \in WholeWindows /\ us[k] \in WholeWindows
      BY <1>3, <2>4
    <3>5. /\ ws[j].t0 \in Int /\ ws[j].t1 \in Int /\ us[k].t0 \in Int /\ us[k].t1 \in Int
          /\ s \in Int
      BY <3>4, WholeWindowsAre
    <3>6. ws[j].t0 <= s
      <4>1. ws[j].t0 <= us[k].t0 /\ us[k].t0 <= s
        BY <3>1, <3>2, <3>3
      <4> QED BY <3>5, <4>1
    <3>7. s < ws[j].t1
      <4>1. s < us[k].t1 /\ us[k].t1 <= ws[j].t1
        BY <3>1, <3>2, <3>3
      <4> QED BY <3>5, <4>1
    <3> QED BY <3>6, <3>7
  <2>6. Reads(ws, named)
    BY <2>5 DEF Reads, n
  <2> QED BY <1>7, <2>4, <2>6
<1> QED BY <1>6, <1>7

(* Cutting windows keeps them apart, and says so. *)
LEMMA CutWindowsStay ==
  ASSUME NEW ws \in Seq(WholeWindows), Apart(ws), NEW windows, Reads(ws, windows), NEW cap \in Nat
  PROVE  /\ T!CutTo(cap, ws) \in Seq(TWindows) /\ Len(T!CutTo(cap, ws)) = Len(ws)
         /\ Apart(T!CutTo(cap, ws)) /\ Reads(T!CutTo(cap, ws), windows)
<1> DEFINE cut == T!CutTo(cap, ws)
           n == Len(ws)
<1>1. n \in Nat /\ DOMAIN ws = 1..n /\ \A i \in 1..n : ws[i] \in WholeWindows
  OBVIOUS
<1>2. \A i \in 1..n : ws[i].t0 \in 0..Length /\ ws[i].t0 \in Int /\ ws[i].t1 \in Int /\ ws[i].cut = FALSE
  BY <1>1, WholeWindowsAre
<1>3. cut = [i \in 1..n |-> IF ws[i].t1 - ws[i].t0 > cap
                            THEN [ws[i] EXCEPT !.t1 = ws[i].t0 + cap, !.cut = TRUE] ELSE ws[i]]
  BY <1>1 DEF T!CutTo
<1> HIDE DEF cut
<1>4. \A i \in 1..n : cut[i] = IF ws[i].t1 - ws[i].t0 > cap
                            THEN [ws[i] EXCEPT !.t1 = ws[i].t0 + cap, !.cut = TRUE] ELSE ws[i]
  BY <1>3
<1>5. ASSUME NEW i \in 1..n
      PROVE  /\ cut[i] \in TWindows /\ cut[i].t0 = ws[i].t0 /\ cut[i].t1 <= ws[i].t1
             /\ cut[i].cut \/ cut[i].t1 = ws[i].t1
  <2>1. CASE ws[i].t1 - ws[i].t0 > cap
    <3>1. cut[i] = [ws[i] EXCEPT !.t1 = ws[i].t0 + cap, !.cut = TRUE]
      BY <1>4, <2>1
    <3>2. ws[i].t0 + cap \in Int /\ ws[i].t0 + cap <= ws[i].t1
      BY <1>2, <2>1
    <3>3. cut[i] = [t0 |-> ws[i].t0, t1 |-> ws[i].t0 + cap, cut |-> TRUE]
      BY <1>1, <3>1 DEF WholeWindows
    <3> QED BY <1>2, <3>2, <3>3 DEF TWindows
  <2>2. CASE ~(ws[i].t1 - ws[i].t0 > cap)
    <3>1. cut[i] = ws[i]
      BY <1>4, <2>2
    <3>2. ws[i] \in TWindows
      BY <1>1 DEF WholeWindows, TWindows
    <3> QED BY <1>2, <3>1, <3>2
  <2> QED BY <2>1, <2>2
<1>6. cut \in Seq(TWindows) /\ Len(cut) = n
  <2>1. cut \in [1..n -> TWindows]
    BY <1>3, <1>5
  <2> HIDE DEF n
  <2> QED BY <1>1, <2>1
<1>7. \A i \in 1..n : cut[i].t1 \in Int
  BY <1>5 DEF TWindows
<1>8. Apart(cut)
  <2> SUFFICES ASSUME NEW i \in 1..n, NEW j \in 1..n, i < j PROVE cut[i].t1 <= cut[j].t0
    BY <1>6 DEF Apart
  <2>1. ws[i].t1 <= ws[j].t0
    BY DEF Apart
  <2> QED BY <1>2, <1>5, <1>7, <2>1
<1>9. Reads(cut, windows)
  <2> SUFFICES ASSUME NEW i \in 1..Len(windows), NEW s \in 0..(Length - 1),
                      windows[i][1] <= s, s < windows[i][2]
               PROVE  \E k \in 1..n : cut[k].t0 <= s /\ (s < cut[k].t1 \/ cut[k].cut)
    BY <1>6 DEF Reads
  <2>1. PICK k \in 1..n : ws[k].t0 <= s /\ (s < ws[k].t1 \/ ws[k].cut)
    BY DEF Reads
  <2>2. s < ws[k].t1
    BY <1>2, <2>1
  <2> QED BY <1>5, <2>1, <2>2
<1> QED BY <1>6, <1>8, <1>9 DEF cut

(* The first lines of a window are all of them, unless it says otherwise. *)
LEMMA LinesAre == \A set : T!Cardinality(set) = Cardinality(set)
BY DEF T!Cardinality, Cardinality

LEMMA RowsHold ==
  ASSUME NEW w \in TWindows, NEW cap \in Int, NEW text \in T!FirstLines(w, cap), NEW grid \in TGrids,
         GridOf(grid, w), grid # T!Decoding
  PROVE  T!Row(w, cap, text, grid) \in TRows /\ RowOf(T!Row(w, cap, text, grid), w)
<1> DEFINE r == T!Row(w, cap, text, grid)
           all == T!Within(w)
<1>1. all \subseteq Lines /\ IsFiniteSet(all)
  <2>1. all \subseteq Lines
    BY DEF T!Within
  <2>2. IsFiniteSet(Lines)
    BY ToolsAssumption DEF ToolsAssumption
  <2> QED BY <2>1, <2>2, FS_Subset
<1>2. text \subseteq all /\ T!Cardinality(text) = T!Least(T!Cardinality(all), cap)
  BY DEF T!FirstLines
<1>3. Cardinality(all) \in Nat
  BY <1>1, FS_CardinalityType
<1>4. Cardinality(text) = T!Least(Cardinality(all), cap)
  BY <1>2, LinesAre, Zenon
<1>5. r = [t0 |-> w.t0, t1 |-> w.t1, cut |-> w.cut, shown |-> grid,
           text |-> text, truncated |-> Cardinality(all) > cap]
  <2>1. T!Cardinality(all) = Cardinality(all)
    BY LinesAre
  <2> QED BY <2>1 DEF T!Row
<1> HIDE DEF r, all
<1>6. r.t0 = w.t0 /\ r.t1 = w.t1 /\ r.cut = w.cut /\ r.shown = grid /\ r.text = text
      /\ (r.truncated <=> Cardinality(all) > cap)
  BY <1>5
<1>7. r \in TRows
  <2>1. w.t0 \in 0..Length /\ w.t1 \in Int /\ w.cut \in BOOLEAN /\ text \in SUBSET Lines
    BY <1>1, <1>2 DEF TWindows
  <2>2. (Cardinality(all) > cap) \in BOOLEAN
    OBVIOUS
  <2> QED BY <1>5, <2>1, <2>2 DEF TRows
<1>8. ~r.truncated => all \subseteq text
  <2> SUFFICES ASSUME ~r.truncated PROVE all \subseteq text
    OBVIOUS
  <2>1. ~(Cardinality(all) > cap)
    BY <1>6
  <2>2. Cardinality(text) = Cardinality(all)
    BY <1>3, <1>4, <2>1 DEF T!Least
  <2>3. text = all
    BY <1>1, <1>2, <2>2, FS_Subset
  <2> QED BY <2>3
<1>9. T!Within(r) = all
  BY <1>6 DEF T!Within, all
<1>10. grid = T!Nothing \/ (grid.t0 = w.t0 /\ grid.frames <= MaxFrames)
  BY DEF GridOf
<1> QED BY <1>6, <1>7, <1>8, <1>9, <1>10 DEF RowOf, T!RowHolds, r
-----------------------------------------------------------------------------
(* The steps of a call. *)
LEMMA ToolsBegin == ASSUME T!Init PROVE ToolsInv
<1>1. toolsCall.tool # "zoom" => toolsCall.windows \in Asked
  BY DEF T!Init, T!Single
<1>2. toolsCall.tool # "zoom" /\ ~toolsCall.multi => Len(toolsCall.windows) = 1
  BY DEF T!Init, T!Single
<1>3. toolsCall.tool = "describe" => ~toolsCall.multi
  BY DEF T!Init
<1>4. CallOk
  BY <1>1, <1>2, <1>3, ToolsAssumption DEF CallOk, ToolsAssumption
<1> QED BY <1>4 DEF T!Init, ToolsInv, Stored

(* What a view makes of its windows. *)
LEMMA ViewCuts ==
  ASSUME NEW ws \in Seq(WholeWindows), Apart(ws), NEW windows, Reads(ws, windows)
  PROVE  /\ T!ViewWindows(ws) \in Seq(TWindows) /\ Len(T!ViewWindows(ws)) = Len(ws)
         /\ Apart(T!ViewWindows(ws)) /\ Reads(T!ViewWindows(ws), windows)
<1>1. ws \in Seq(TWindows)
  <2>1. WholeWindows \subseteq TWindows
    BY DEF WholeWindows, TWindows
  <2> QED BY <2>1
<1>2. DetailWindow \in Nat /\ MultiWindow \in Nat
  BY ToolsAssumption DEF ToolsAssumption
<1>3. CASE toolsCall.detail
  <2>1. T!ViewWindows(ws) = T!CutTo(DetailWindow, ws)
    BY <1>3 DEF T!ViewWindows
  <2> QED BY <1>2, <2>1, CutWindowsStay
<1>4. CASE ~toolsCall.detail /\ Len(ws) > 1
  <2>1. T!ViewWindows(ws) = T!CutTo(MultiWindow, ws)
    BY <1>4 DEF T!ViewWindows
  <2> QED BY <1>2, <2>1, CutWindowsStay
<1>5. CASE ~toolsCall.detail /\ ~(Len(ws) > 1)
  <2>1. T!ViewWindows(ws) = ws
    BY <1>5 DEF T!ViewWindows
  <2> QED BY <1>1, <2>1
<1> QED BY <1>3, <1>4, <1>5

LEMMA ACallBegins == ASSUME ToolsInv, T!Begin PROVE ToolsInv'
<1>1. /\ toolsAt = "asked" /\ toolsAt' = "reading" /\ toolsCall.tool # "zoom"
      /\ UNCHANGED <<toolsCall, toolsRows, shots, stored, crop>>
  BY DEF T!Begin
<1>2. CallOk /\ toolsRows = <<>> /\ Stored
  BY <1>1 DEF ToolsInv
<1>3. PICK ws \in T!WindowsArgs :
        wins' = IF toolsCall.tool = "view" THEN T!ViewWindows(ws) ELSE ws
  BY DEF T!Begin
<1>4. /\ ws \in Seq(WholeWindows) /\ Apart(ws) /\ Reads(ws, toolsCall.windows)
      /\ ~toolsCall.multi => Len(ws) = 1
  BY <1>1, <1>2, ArgsAreWindows DEF CallOk
<1>5. /\ wins' \in Seq(TWindows) /\ Len(wins') = Len(ws)
      /\ Apart(wins') /\ Reads(wins', toolsCall.windows)
  <2>1. CASE toolsCall.tool = "view"
    BY <1>3, <1>4, <2>1, ViewCuts
  <2>2. CASE toolsCall.tool # "view"
    <3>1. WholeWindows \subseteq TWindows
      BY DEF WholeWindows, TWindows
    <3> QED BY <1>3, <1>4, <2>2, <3>1
  <2> QED BY <2>1, <2>2
<1>6. WindowsOk'
  BY <1>1, <1>2, <1>4, <1>5 DEF WindowsOk, CallOk
<1>7. RowsOk'
  <2>1. Len(wins') \in Nat
    BY <1>5
  <2>2. toolsRows' = <<>> /\ Len(toolsRows') = 0
    BY <1>1, <1>2
  <2> QED BY <1>1, <2>1, <2>2 DEF RowsOk, RowsOfWindows
<1>8. toolsCall.tool # "text" => GridsOfWindows'
  <2> SUFFICES ASSUME toolsCall.tool # "text" PROVE GridsOfWindows'
    OBVIOUS
  <2>1. grids' = [i \in 1..Len(wins') |-> T!Decoding]
    BY <1>5 DEF T!Begin
  <2>2. T!Decoding \in TGrids
    BY DEF T!Decoding, TGrids
  <2> QED BY <2>1, <2>2 DEF GridsOfWindows, GridOf
<1>9. Stored' /\ CallOk'
  BY <1>1, <1>2 DEF Stored, CallOk
<1> QED BY <1>1, <1>6, <1>7, <1>8, <1>9 DEF ToolsInv

LEMMA GridsAreOfWindows ==
  ASSUME ToolsInv, NEW i, T!Decode(i) PROVE ToolsInv'
<1>1. /\ toolsAt = "reading" /\ i \in DOMAIN grids
      /\ UNCHANGED <<toolsCall, toolsAt, wins, toolsRows, shots, stored, crop>>
  BY DEF T!Decode
<1>2. CallOk /\ Stored
  BY DEF ToolsInv
<1>3. CallOk' /\ Stored'
  BY <1>1, <1>2 DEF CallOk, Stored
<1>4. CASE toolsCall.tool = "zoom"
  BY <1>1, <1>3, <1>4 DEF ToolsInv
<1>5. CASE toolsCall.tool # "zoom"
  <2>1. WindowsOk /\ RowsOk /\ (toolsCall.tool # "text" => GridsOfWindows)
    BY <1>1, <1>5 DEF ToolsInv
  <2>2. WindowsOk' /\ RowsOk'
    BY <1>1, <2>1 DEF WindowsOk, RowsOk, RowsOfWindows
  <2>3. ASSUME toolsCall.tool # "text" PROVE GridsOfWindows'
    <3>1. /\ grids \in [1..Len(wins) -> TGrids] /\ \A k \in 1..Len(wins) : GridOf(grids[k], wins[k])
          /\ i \in 1..Len(wins)
      BY <1>1, <2>1, <2>3 DEF GridsOfWindows
    <3>2. wins[i] \in TWindows
      BY <2>1, <3>1 DEF WindowsOk
    <3>3. PICK g : /\ grids' = [grids EXCEPT ![i] = g]
                   /\ \/ g = T!Nothing
                      \/ \E n \in 1..T!Least(IF toolsCall.detail THEN DetailFrames ELSE MaxFrames,
                                             T!Clamped(wins[i]).t1 - T!Clamped(wins[i]).t0) :
                           g = [t0 |-> T!Clamped(wins[i]).t0, t1 |-> T!Clamped(wins[i]).t1, frames |-> n]
      BY DEF T!Decode
    <3>4. Length \in Nat /\ MaxWindow \in Nat /\ MaxFrames \in Nat /\ DetailFrames \in 0..MaxFrames
      BY ToolsAssumption DEF ToolsAssumption
    <3>5. T!Clamped(wins[i]).t0 = wins[i].t0 /\ T!Clamped(wins[i]).t0 \in Int /\ T!Clamped(wins[i]).t1 \in Int
      <4>1. wins[i].t0 \in 0..Length /\ wins[i].t1 \in Int
        BY <3>2 DEF TWindows
      <4> QED BY <3>4, <4>1 DEF T!Clamped, T!Least, T!Most, T!Half
    <3>6. g \in TGrids /\ GridOf(g, wins[i])
      <4>1. CASE g = T!Nothing
        BY <4>1 DEF GridOf, T!Nothing, TGrids
      <4>2. ASSUME NEW n \in 1..T!Least(IF toolsCall.detail THEN DetailFrames ELSE MaxFrames,
                                        T!Clamped(wins[i]).t1 - T!Clamped(wins[i]).t0),
                   g = [t0 |-> T!Clamped(wins[i]).t0, t1 |-> T!Clamped(wins[i]).t1, frames |-> n]
            PROVE  g \in TGrids /\ GridOf(g, wins[i])
        <5> DEFINE frames == IF toolsCall.detail THEN DetailFrames ELSE MaxFrames
                   long == T!Clamped(wins[i]).t1 - T!Clamped(wins[i]).t0
        <5>1. frames \in Int /\ frames <= MaxFrames /\ long \in Int
          BY <3>4, <3>5
        <5> HIDE DEF frames, long
        <5>2. T!Least(frames, long) \in Int /\ T!Least(frames, long) <= frames
          BY <5>1 DEF T!Least
        <5>3. n \in Int /\ n <= T!Least(frames, long)
          BY <4>2, <5>2 DEF frames, long
        <5>4. n <= MaxFrames
          BY <3>4, <5>1, <5>2, <5>3
        <5> QED BY <3>5, <4>2, <5>3, <5>4 DEF GridOf, TGrids
      <4> QED BY <3>3, <4>1, <4>2
    <3>7. grids' \in [1..Len(wins) -> TGrids]
      BY <3>1, <3>3, <3>6
    <3>8. \A k \in 1..Len(wins) : GridOf(grids'[k], wins[k])
      BY <3>1, <3>3, <3>6
    <3> QED BY <1>1, <3>7, <3>8 DEF GridsOfWindows
  <2> QED BY <1>1, <1>3, <1>5, <2>2, <2>3 DEF ToolsInv
<1> QED BY <1>4, <1>5

LEMMA SharesAreInts ==
  ASSUME NEW most \in Nat, NEW least \in Nat, Len(wins) \in Nat, Len(wins) > 0
  PROVE  T!Share(most, least) \in Int
BY DEF T!Share, T!Most

LEMMA TextIsRead == ASSUME ToolsInv, T!ReadText PROVE ToolsInv'
<1>1. /\ toolsAt = "reading" /\ toolsCall.tool = "text" /\ Len(toolsRows) < Len(wins)
      /\ UNCHANGED <<toolsCall, wins, grids, shots, stored, crop>>
      /\ toolsAt' = IF Len(toolsRows') = Len(wins) THEN "answered" ELSE toolsAt
  BY DEF T!ReadText
<1>2. CallOk /\ Stored /\ WindowsOk /\ RowsOk
  BY <1>1 DEF ToolsInv
<1>3. CallOk' /\ Stored' /\ WindowsOk'
  BY <1>1, <1>2 DEF CallOk, Stored, WindowsOk
<1> DEFINE k == Len(toolsRows) + 1
           cap == T!Share(MaxText, MinText)
<1>4. /\ Len(toolsRows) \in Nat /\ Len(wins) \in Nat /\ k \in 1..Len(wins)
      /\ wins[k] \in TWindows
  <2>1. wins \in Seq(TWindows) /\ toolsRows \in Seq(TRows)
    BY <1>2 DEF WindowsOk, RowsOk
  <2>2. Len(toolsRows) \in Nat /\ Len(wins) \in Nat
    BY <2>1
  <2> QED BY <1>1, <2>1, <2>2
<1>5. cap \in Int
  <2>1. Len(wins) > 0 /\ MaxText \in Nat /\ MinText \in Nat
    BY <1>4, ToolsAssumption DEF ToolsAssumption
  <2> QED BY <1>4, <2>1, SharesAreInts
<1>6. PICK text \in T!FirstLines(wins[k], cap) :
        toolsRows' = Append(toolsRows, T!Row(wins[k], cap, text, T!Nothing))
  BY DEF T!ReadText
<1> HIDE DEF cap
<1> DEFINE r == T!Row(wins[k], cap, text, T!Nothing)
<1>7. r \in TRows /\ RowOf(r, wins[k])
  <2>1. T!Nothing \in TGrids /\ GridOf(T!Nothing, wins[k]) /\ T!Nothing # T!Decoding
    BY DEF T!Nothing, T!Decoding, TGrids, GridOf
  <2> QED BY <1>4, <1>5, <2>1, RowsHold
<1> HIDE DEF r
<1>8. toolsRows \in Seq(TRows) /\ RowsOfWindows
  BY <1>2 DEF RowsOk
<1>9. /\ toolsRows' \in Seq(TRows) /\ Len(toolsRows') = k /\ toolsRows'[k] = r
      /\ \A i \in 1..Len(toolsRows) : toolsRows'[i] = toolsRows[i]
  BY <1>6, <1>7, <1>8 DEF r
<1>10. RowsOfWindows'
  <2> SUFFICES ASSUME NEW i \in 1..k PROVE RowOf(toolsRows'[i], wins[i])
    BY <1>1, <1>9 DEF RowsOfWindows
  <2>1. CASE i = k
    BY <1>7, <1>9, <2>1
  <2>2. CASE i # k
    <3>1. i \in 1..Len(toolsRows)
      BY <1>4, <2>2
    <3> QED BY <1>8, <1>9, <3>1 DEF RowsOfWindows
  <2> QED BY <2>1, <2>2
<1>11. RowsOk'
  <2>1. Len(toolsRows') <= Len(wins')
    BY <1>1, <1>4, <1>9
  <2>2. toolsAt' = "answered" => Len(toolsRows') = Len(wins')
    BY <1>1
  <2> QED BY <1>9, <1>10, <2>1, <2>2 DEF RowsOk
<1> QED BY <1>1, <1>3, <1>11 DEF ToolsInv

LEMMA ViewsAreAnswered == ASSUME ToolsInv, T!AnswerView PROVE ToolsInv'
<1>1. /\ toolsAt = "reading" /\ toolsCall.tool = "view" /\ grids # <<>>
      /\ \A i \in DOMAIN grids : grids[i] # T!Decoding
      /\ UNCHANGED <<toolsCall, wins, grids, shots, stored, crop>>
  BY DEF T!AnswerView, T!Decoded
<1>2. CallOk /\ Stored /\ WindowsOk /\ RowsOk /\ GridsOfWindows
  BY <1>1 DEF ToolsInv
<1>3. CallOk' /\ Stored' /\ WindowsOk'
  BY <1>1, <1>2 DEF CallOk, Stored, WindowsOk
<1>4. CASE toolsAt' = "failed"
  BY <1>1, <1>3, <1>4 DEF ToolsInv
<1>5. CASE toolsAt' # "failed"
  <2> DEFINE cap == T!Share(ViewText, MinViewText)
  <2>1. /\ toolsAt' = "answered"
        /\ \E texts \in [DOMAIN wins -> SUBSET Lines] :
             /\ \A i \in DOMAIN wins : texts[i] \in T!FirstLines(wins[i], cap)
             /\ toolsRows' = [i \in DOMAIN wins |-> T!Row(wins[i], cap, texts[i], grids[i])]
    BY <1>5 DEF T!AnswerView
  <2>2. PICK texts \in [DOMAIN wins -> SUBSET Lines] :
          /\ \A i \in DOMAIN wins : texts[i] \in T!FirstLines(wins[i], cap)
          /\ toolsRows' = [i \in DOMAIN wins |-> T!Row(wins[i], cap, texts[i], grids[i])]
    BY <2>1
  <2>3. /\ Len(wins) \in Nat /\ DOMAIN wins = 1..Len(wins)
        /\ \A i \in 1..Len(wins) : wins[i] \in TWindows
    BY <1>2 DEF WindowsOk
  <2>4. /\ DOMAIN grids = 1..Len(wins)
        /\ \A i \in 1..Len(wins) : grids[i] \in TGrids /\ GridOf(grids[i], wins[i])
    BY <1>2 DEF GridsOfWindows
  <2>5. ASSUME NEW i \in 1..Len(wins)
        PROVE  toolsRows'[i] \in TRows /\ RowOf(toolsRows'[i], wins[i])
    <3>1. cap \in Int
      <4>1. Len(wins) > 0 /\ ViewText \in Nat /\ MinViewText \in Nat
        BY <2>3, ToolsAssumption DEF ToolsAssumption
      <4> QED BY <2>3, <4>1, SharesAreInts
    <3>2. toolsRows'[i] = T!Row(wins[i], cap, texts[i], grids[i])
      BY <2>2, <2>3
    <3>3. texts[i] \in T!FirstLines(wins[i], cap) /\ grids[i] # T!Decoding
      BY <1>1, <2>2, <2>3, <2>4
    <3> HIDE DEF cap
    <3> QED BY <2>3, <2>4, <3>1, <3>2, <3>3, RowsHold
  <2>6. toolsRows' \in Seq(TRows) /\ Len(toolsRows') = Len(wins)
    <3> HIDE DEF cap
    <3>1. toolsRows' = [i \in 1..Len(wins) |-> toolsRows'[i]]
      BY <2>2, <2>3
    <3>2. toolsRows' \in [1..Len(wins) -> TRows]
      BY <2>5, <3>1
    <3> QED BY <2>3, <3>2
  <2>7. RowsOk'
    BY <1>1, <2>3, <2>5, <2>6 DEF RowsOk, RowsOfWindows
  <2> QED BY <1>1, <1>3, <2>1, <2>7 DEF ToolsInv
<1> QED BY <1>4, <1>5

LEMMA DescriptionsAreStored == ASSUME ToolsInv, T!Describe PROVE ToolsInv'
<1>1. /\ toolsAt = "reading" /\ toolsCall.tool = "describe" /\ grids # <<>>
      /\ \A i \in DOMAIN grids : grids[i] # T!Decoding
      /\ UNCHANGED <<toolsCall, wins, grids, shots, crop>>
  BY DEF T!Describe, T!Decoded
<1>2. CallOk /\ Stored /\ WindowsOk /\ RowsOk /\ GridsOfWindows
  BY <1>1 DEF ToolsInv
<1>3. CallOk' /\ WindowsOk'
  BY <1>1, <1>2 DEF CallOk, WindowsOk
<1>4. CASE grids[1] = T!Nothing
  <2>1. toolsAt' = "failed" /\ UNCHANGED <<toolsRows, stored>>
    BY <1>4 DEF T!Describe
  <2>2. Stored'
    BY <1>2, <2>1 DEF Stored
  <2> QED BY <1>1, <1>3, <2>1, <2>2 DEF ToolsInv
<1>5. CASE grids[1] # T!Nothing
  <2> DEFINE w == wins[1]
             holding == {s \in shots : 2 * s[1] <= w.t0 + w.t1 /\ w.t0 + w.t1 < 2 * s[2]}
  <2>1. /\ \/ \E s \in holding : stored' = [shot |-> s, shots |-> shots, mid |-> w.t0 + w.t1]
           \/ stored' = stored
        /\ \E text \in T!FirstLines(w, ViewText) : toolsRows' = <<T!Row(w, ViewText, text, grids[1])>>
        /\ toolsAt' = "answered"
    BY <1>5 DEF T!Describe
  <2>2. Stored'
    <3>1. CASE stored' = stored
      BY <1>2, <3>1 DEF Stored
    <3>2. ASSUME NEW s \in holding, stored' = [shot |-> s, shots |-> shots, mid |-> w.t0 + w.t1]
          PROVE  Stored'
      <4>1. s \in shots /\ 2 * s[1] <= w.t0 + w.t1
        OBVIOUS
      <4>2. stored'.shot = s /\ stored'.shots = shots /\ stored'.mid = w.t0 + w.t1
        BY <3>2
      <4> QED BY <4>1, <4>2 DEF Stored
    <3> QED BY <2>1, <3>1, <3>2
  <2>3. PICK text \in T!FirstLines(w, ViewText) : toolsRows' = <<T!Row(w, ViewText, text, grids[1])>>
    BY <2>1
  <2>4. Len(wins) = 1 /\ 1 \in 1..Len(wins) /\ w \in TWindows
    <3>1. Len(wins) = 1 /\ wins \in Seq(TWindows)
      BY <1>1, <1>2 DEF WindowsOk
    <3>2. 1 \in 1..Len(wins)
      BY <3>1
    <3>3. wins[1] \in TWindows
      BY <3>1, <3>2
    <3> QED BY <3>1, <3>2, <3>3
  <2>5. grids[1] \in TGrids /\ GridOf(grids[1], w) /\ grids[1] # T!Decoding
    BY <1>1, <1>2, <2>4 DEF GridsOfWindows
  <2>6. ViewText \in Int
    BY ToolsAssumption DEF ToolsAssumption
  <2> DEFINE r == T!Row(w, ViewText, text, grids[1])
  <2>7. r \in TRows /\ RowOf(r, w)
    BY <2>4, <2>5, <2>6, RowsHold
  <2> HIDE DEF r
  <2>8. toolsRows' = <<r>>
    BY <2>3 DEF r
  <2>9. toolsRows' \in Seq(TRows) /\ Len(toolsRows') = 1 /\ toolsRows'[1] = r
    BY <2>7, <2>8
  <2>10. RowsOk'
    BY <1>1, <2>4, <2>7, <2>9 DEF RowsOk, RowsOfWindows
  <2> QED BY <1>1, <1>3, <2>1, <2>2, <2>10 DEF ToolsInv
<1> QED BY <1>4, <1>5

LEMMA ZoomsHold == ASSUME ToolsInv, T!Zoom PROVE ToolsInv'
<1>1. /\ toolsCall.tool = "zoom" /\ toolsAt' = "answered"
      /\ UNCHANGED <<toolsCall, wins, grids, toolsRows, shots, stored>>
  BY DEF T!Zoom
<1>2. CallOk' /\ Stored'
  BY <1>1 DEF ToolsInv, CallOk, Stored
<1>3. PICK side \in Sides : \E from \in {2 * n : n \in 0..(2 * side - 1)} :
        \E to \in {2 * n : n \in (from \div 2 + 1)..(2 * side)} : crop' = T!Axis(from, to, side)
  BY DEF T!Zoom
<1>4. PICK n \in 0..(2 * side - 1) :
        \E to \in {2 * k : k \in ((2 * n) \div 2 + 1)..(2 * side)} : crop' = T!Axis(2 * n, to, side)
  BY <1>3
<1>5. PICK k \in ((2 * n) \div 2 + 1)..(2 * side) : crop' = T!Axis(2 * n, 2 * k, side)
  BY <1>4
<1>6. (2 * n) \div 2 = n
  OBVIOUS
<1>7. k \in (n + 1)..(2 * side)
  BY <1>5, <1>6
<1>8. T!CropHolds'
  BY <1>5, <1>7, CropIsHeld DEF T!CropHolds
<1> QED BY <1>1, <1>2, <1>8 DEF ToolsInv

LEMMA ToolsAreKept == ToolsInv /\ [T!Next]_toolsVars => ToolsInv'
<1> SUFFICES ASSUME ToolsInv, [T!Next]_toolsVars PROVE ToolsInv'
  OBVIOUS
<1>1. CASE T!Refuse
  <2>1. toolsAt' = "refused" /\ UNCHANGED <<toolsCall, stored>>
    BY <1>1 DEF T!Refuse
  <2>2. CallOk' /\ Stored'
    BY <2>1 DEF ToolsInv, CallOk, Stored
  <2> QED BY <2>1, <2>2 DEF ToolsInv
<1>2. CASE T!ReplaceShots
  <2>1. toolsAt = "reading" /\ UNCHANGED <<toolsCall, toolsAt, wins, grids, toolsRows, stored, crop>>
    BY <1>2 DEF T!ReplaceShots
  <2> QED BY <2>1 DEF ToolsInv, CallOk, Stored, WindowsOk, RowsOk, RowsOfWindows, GridsOfWindows
<1>3. CASE UNCHANGED toolsVars
  BY <1>3 DEF toolsVars, ToolsInv, CallOk, Stored, WindowsOk, RowsOk, RowsOfWindows, GridsOfWindows,
              T!CropHolds
<1> QED BY <1>1, <1>2, <1>3, ACallBegins, GridsAreOfWindows, TextIsRead, ViewsAreAnswered,
           DescriptionsAreStored, ZoomsHold DEF T!Next

LEMMA AnswersHold == ASSUME ToolsInv PROVE T!NothingIsSilentlyLeftOut
<1> SUFFICES ASSUME toolsAt = "answered" PROVE T!NothingIsSilentlyLeftOut
  BY DEF T!NothingIsSilentlyLeftOut
<1>1. ASSUME toolsCall.tool # "zoom"
      PROVE  T!SecondsShown /\ \A i \in DOMAIN toolsRows : T!RowHolds(toolsRows[i])
  <2> DEFINE n == Len(wins)
  <2>1. WindowsOk /\ RowsOk /\ CallOk
    BY <1>1 DEF ToolsInv
  <2>2. toolsRows \in Seq(TRows) /\ Len(toolsRows) = n /\ \A i \in 1..n : RowOf(toolsRows[i], wins[i])
    BY <2>1 DEF RowsOk, RowsOfWindows
  <2>3. DOMAIN toolsRows = 1..n
    BY <2>2
  <2>4. \A i \in 1..n : /\ toolsRows[i].t0 = wins[i].t0 /\ toolsRows[i].t1 = wins[i].t1
                        /\ toolsRows[i].cut = wins[i].cut /\ T!RowHolds(toolsRows[i])
    BY <2>2 DEF RowOf
  <2>5. \A i \in 1..n : wins[i].t0 \in Int /\ wins[i].t1 \in Int
    <3>1. \A i \in 1..n : wins[i] \in TWindows
      BY <2>1 DEF WindowsOk
    <3>2. \A w \in TWindows : w.t0 \in 0..Length /\ w.t1 \in Int
      BY DEF TWindows
    <3> QED BY <3>1, <3>2
  <2>6. toolsCall.windows \in Seq(Int \X Int) /\ DOMAIN toolsCall.windows = 1..Len(toolsCall.windows)
    BY <1>1, <2>1 DEF CallOk
  <2>7. n \in Nat
    BY <2>1 DEF WindowsOk
  <2> HIDE DEF n
  <2>8. ASSUME NEW second \in 0..(Length - 1)
        PROVE  LET showing == {i \in DOMAIN toolsRows : T!InRow(second, toolsRows[i])}
               IN /\ T!Cardinality(showing) <= 1
                  /\ T!Names(second) => showing # {} \/ \E i \in DOMAIN toolsRows : T!CutBefore(second, toolsRows[i])
    <3> DEFINE showing == {i \in DOMAIN toolsRows : T!InRow(second, toolsRows[i])}
    <3>1. showing = {i \in 1..n : wins[i].t0 <= second /\ second < wins[i].t1}
      BY <2>3, <2>4 DEF T!InRow
    <3> HIDE DEF showing
    <3>2. \A i, j \in showing : i = j
      <4>1. \A i, j \in 1..n : i < j => wins[i].t1 <= wins[j].t0
        BY <2>1 DEF WindowsOk, Apart, n
      <4>2. ASSUME NEW i \in showing, NEW j \in showing, i < j PROVE FALSE
        <5>1. i \in 1..n /\ j \in 1..n /\ wins[j].t0 <= second /\ second < wins[i].t1
          BY <3>1
        <5> QED BY <2>5, <4>1, <4>2, <5>1
      <4>3. \A i, j \in showing : i \in Int /\ j \in Int
        BY <3>1
      <4> QED BY <4>2, <4>3
    <3>3. Cardinality(showing) <= 1
      <4>1. CASE showing = {}
        BY <4>1, FS_EmptySet
      <4>2. CASE showing # {}
        <5>1. PICK i : i \in showing
          BY <4>2
        <5>2. showing = {i}
          BY <3>2, <5>1
        <5>3. Cardinality({i}) = 1
          BY FS_Singleton
        <5>4. Cardinality(showing) = 1
          BY <5>2, <5>3
        <5> QED BY <5>4
      <4> QED BY <4>1, <4>2
    <3>4. T!Cardinality(showing) <= 1
      BY <3>3, LinesAre
    <3>5. ASSUME T!Names(second)
          PROVE  showing # {} \/ \E i \in DOMAIN toolsRows : T!CutBefore(second, toolsRows[i])
      <4>1. PICK k \in 1..n : wins[k].t0 <= second /\ (second < wins[k].t1 \/ wins[k].cut)
        BY <2>1, <2>6, <3>5 DEF T!Names, WindowsOk, Reads, n
      <4>2. CASE second < wins[k].t1
        BY <3>1, <4>1, <4>2
      <4>3. CASE ~(second < wins[k].t1)
        <5>1. wins[k].t1 <= second /\ wins[k].cut
          BY <2>5, <4>1, <4>3
        <5>2. T!CutBefore(second, toolsRows[k])
          BY <2>4, <4>1, <5>1 DEF T!CutBefore
        <5> QED BY <2>3, <5>2
      <4> QED BY <4>2, <4>3
    <3> QED BY <3>4, <3>5 DEF showing
  <2>9. T!SecondsShown
    BY <2>8 DEF T!SecondsShown
  <2> QED BY <2>3, <2>4, <2>9
<1>2. Stored /\ (toolsCall.tool = "zoom" => T!CropHolds)
  BY DEF ToolsInv
<1> QED BY <1>1, <1>2 DEF T!NothingIsSilentlyLeftOut, Stored

(* Whatever windows a call names, however they lie and overlap, and        *)
(* whatever the limits: an answer has every second that was asked for in   *)
(* one row, or behind one that was cut and says so, and no text of a row   *)
(* is missing without a word (windows_arg, tool_window, tool_view,         *)
(* tool_describe, Region::pixels).                                         *)
THEOREM NothingIsLeftOutInSilence == Spec => []NothingIsSilentlyLeftOut
<1>1. Init => ToolsInv
  BY ToolsBegin DEF Init
<1>2. ToolsInv /\ [Next]_vars => ToolsInv'
  BY ToolsMove, ToolsAreKept
<1>3. ToolsInv => NothingIsSilentlyLeftOut
  BY AnswersHold DEF NothingIsSilentlyLeftOut
<1> QED BY <1>1, <1>2, <1>3, PTL DEF Spec
=============================================================================
