------------------------------ MODULE AskBound ------------------------------
(***************************************************************************)
(* What an ask may read of a video: Bound and BoundedStorage               *)
(* (vi-agent/src/until.rs) under the tools' own ranges (tools.rs:          *)
(* range_args, windows_arg, tool_window, tool_view, tool_zoom; view.rs:    *)
(* ViewRequest::clamped, decode_frame).  The ask has a bound of its own, or*)
(* the video is live and its watermark is one, read again at every turn    *)
(* while the recording goes on.  Time is in tenths of a second.            *)
(***************************************************************************)
EXTENDS Integers

CONSTANTS
  Times,         \* times a bound, a range or a row may have
  FrameTimes,    \* times of the frames in the media
  Last1,         \* the last time of the recording
  None

VARIABLES
  until,         \* AskRequest::until
  video,         \* the row: [live, duration, watermark]
  mark,          \* Bound::live for the video: its watermark at the turn's start
  told,          \* the extent the system prompt gives for the video
  tool,          \* the tool at work: [duration |-> what get_video gave] or None
  shown,         \* what the last read showed: starts of rows, of frames
  cited          \* the last citation sent on: <<t0, t1>> or None

vars == <<until, video, mark, told, tool, shown, cited>>

Half == 5
Least(a, b) == IF a < b THEN a ELSE b
Most(a, b) == IF a > b THEN a ELSE b
OrElse(a, b) == IF a # None THEN a ELSE b

Nothing == [rows |-> {}, frames |-> {}]

\* Transcript rows: each starts at a time and lasts a second.
RowTimes == {t \in Times : t < Last1}

\* Bound::for_id and Bound::clamp_secs.
ForId == OrElse(until, mark)
ClampSecs ==
  LET watermark == IF video.live THEN video.watermark ELSE mark
      b == OrElse(until, watermark)
  IN IF b = None THEN video.duration ELSE Least(b, video.duration)

\* rewrite_video_lines, by apply_addendum as the ask starts.
Init ==
  /\ until \in Times \cup {None}
  /\ \/ \E w \in Times, d \in Times : w <= d /\ video = [live |-> TRUE, duration |-> d, watermark |-> w]
     \/ video = [live |-> FALSE, duration |-> Last1, watermark |-> None]
  /\ mark = IF video.live THEN video.watermark ELSE None
  /\ told = ClampSecs
  /\ tool = None /\ shown = Nothing /\ cited = None

-----------------------------------------------------------------------------
\* set_live_progress: the head and the watermark only advance.
Advance(d, w) ==
  /\ video.live /\ d >= video.duration /\ w \in video.watermark..d
  /\ video' = [video EXCEPT !.duration = d, !.watermark = w]
  /\ UNCHANGED <<until, mark, told, tool, shown, cited>>

\* The recording ends, and the video is one like any other.
EndLive ==
  /\ video.live
  /\ video' = [live |-> FALSE, duration |-> Last1, watermark |-> None]
  /\ UNCHANGED <<until, mark, told, tool, shown, cited>>

\* refresh_live, at the start of a turn: the line of a video that is no
\* longer live stays as it is.
Refresh ==
  /\ tool = None
  /\ mark' = IF video.live THEN video.watermark ELSE None
  /\ told' = IF video.live THEN ClampSecs ELSE told
  /\ UNCHANGED <<until, video, tool, shown, cited>>

GetVideo ==
  /\ tool = None /\ tool' = [duration |-> ClampSecs]
  /\ UNCHANGED <<until, video, mark, told, shown, cited>>

\* range_args: both ends against the duration, half a second at least.
RangeOf(t0, t1) ==
  LET d == IF until = None THEN tool.duration ELSE Least(tool.duration, until)
  IN [t0 |-> Least(Most(t0, 0), d), t1 |-> Least(t1, Most(d, t0 + Half))]

\* The range a query asks for is only cut when the caller gave a bound.
BelowUntil(t1) == IF until = None THEN t1 ELSE Least(t1, until)

\* time_window, and text_search over the one video: cut at the bound.
Below(t1) == IF ForId = None THEN t1 ELSE Least(t1, ForId)

ReadText(t0, t1) ==
  /\ tool # None /\ t0 < t1
  /\ LET r == RangeOf(t0, t1)
     IN shown' = [Nothing EXCEPT !.rows = {t \in RowTimes : t < Below(r.t1) /\ t + 10 > r.t0}]
  /\ tool' = None
  /\ UNCHANGED <<until, video, mark, told, cited>>

\* Storage::spans_since: what has not ended by then; BoundedStorage keeps
\* what starts below the bound.
SpansSince(t0) == {t \in RowTimes : t + 10 > t0}
ReadSince(t0) ==
  /\ tool # None
  /\ shown' = [Nothing EXCEPT !.rows = {t \in SpansSince(t0) : ForId = None \/ t < ForId}]
  /\ tool' = None
  /\ UNCHANGED <<until, video, mark, told, cited>>

\* tool_view: the range against the duration once more, half a second at least.
View(t0, t1) ==
  /\ tool # None /\ t0 < t1 /\ ~video.live
  /\ LET r == RangeOf(t0, t1)
         a == Least(r.t0, tool.duration)
         b == Most(Least(r.t1, Most(tool.duration, a + Half)), a + Half)
     IN shown' = [Nothing EXCEPT !.frames = {t \in FrameTimes : a <= t /\ t < b}]
  /\ tool' = None
  /\ UNCHANGED <<until, video, mark, told, cited>>

\* tool_zoom: the first frame of 0.6 s from a tenth below the duration at most.
Zoom(t) ==
  /\ tool # None /\ ~video.live
  /\ LET a == Least(t, Most(tool.duration - 1, 0))
         near == {f \in FrameTimes : a <= f /\ f < a + Half + 1}
     IN shown' = [Nothing EXCEPT !.frames = {f \in near : \A g \in near : f <= g}]
  /\ tool' = None
  /\ UNCHANGED <<until, video, mark, told, cited>>

\* clamp_citation: dropped when it starts at the bound, cut when it passes it.
Cite(t0, t1) ==
  /\ tool = None /\ t0 <= t1
  /\ cited' = IF ForId = None THEN <<t0, t1>>
              ELSE IF t0 >= ForId THEN None ELSE <<t0, Least(t1, ForId)>>
  /\ UNCHANGED <<until, video, mark, told, tool, shown>>

Next ==
  \/ \E d, w \in Times : Advance(d, w)
  \/ EndLive \/ Refresh \/ GetVideo
  \/ \E t0, t1 \in Times : ReadText(t0, t1) \/ View(t0, t1) \/ Cite(t0, t1)
  \/ \E t \in Times : ReadSince(t) \/ Zoom(t)

Spec == Init /\ [][Next]_vars

-----------------------------------------------------------------------------
(* However the recording moves between the turns and within a tool, and   *)
(* whatever range the model asks for: the text a tool reads and the times  *)
(* cited stay below the ask's bound, or below the watermark the turn began *)
(* with (until.rs:1-16), and the prompt never tells the model of more than *)
(* the tools report.                                                       *)
TextIsBelow ==
  /\ shown' # shown => \A t \in shown'.rows : t < OrElse(ForId, Last1)
  /\ cited' # cited /\ cited' # None /\ ForId # None =>
       cited'[1] < ForId /\ cited'[2] <= ForId
  /\ told' <= ClampSecs'
TextStaysBelowTheBound == [][TextIsBelow]_vars

(* What the system prompt tells the model (until.rs:244): nothing at or    *)
(* after the time it answers as of can be seen.                            *)
NothingSeenPastTheBound ==
  until # None => \A t \in shown.rows \cup shown.frames : t < until
=============================================================================
