----------------------------- MODULE ServerQuota -----------------------------
(***************************************************************************)
(* The daily spend of one API key of the HTTP server.  A request is let in *)
(* while the key is below its cap and charged as its work gets done: an    *)
(* indexing job video by video, an ask by the last event of its answer.    *)
(***************************************************************************)
EXTENDS Naturals, FiniteSets

CONSTANTS
  Work,   \* Work[r]: the videos of indexing job r, 1 for an ask
  Asks,   \* the requests that are asks
  Cap,    \* daily_cost_cap_usd, 0: none
  Cost    \* the most a video or an answer costs

Requests == DOMAIN Work

VARIABLES
  asked,    \* asked[r]: "none", "refused", "working" or "over"
  left,     \* left[r]: videos or answers not charged yet
  charged   \* charged to the key today

vars == <<asked, left, charged>>

Init ==
  /\ asked = [r \in Requests |-> "none"]
  /\ left = Work
  /\ charged = 0

(* Mutant: one more request at the cap.                                    *)
UnderOrAtCap == Cap = 0 \/ charged <= Cap

(* check_cap: no new work for a key at its cap.                            *)
UnderCap == Cap = 0 \/ charged < Cap

Admit(r) ==
  /\ asked[r] = "none"
  /\ asked' = [asked EXCEPT ![r] = IF UnderCap THEN "working" ELSE "refused"]
  /\ UNCHANGED <<left, charged>>

(* charge: the spend counts when the work is done, over the cap or not; a  *)
(* job goes on with its next video.                                        *)
Charge(r) ==
  /\ asked[r] = "working" /\ left[r] > 0
  /\ \E usd \in 0..Cost : charged' = charged + usd
  /\ left' = [left EXCEPT ![r] = @ - 1]
  /\ UNCHANGED asked

(* A video that fails, or whose run is cancelled, is not charged.          *)
Uncharged(r) ==
  /\ r \notin Asks
  /\ asked[r] = "working" /\ left[r] > 0
  /\ left' = [left EXCEPT ![r] = @ - 1]
  /\ UNCHANGED <<asked, charged>>

(* The request is over: done, cancelled, or, an ask, left by its client    *)
(* before the event that would have charged it.                            *)
End(r) ==
  /\ asked[r] = "working"
  /\ asked' = [asked EXCEPT ![r] = "over"]
  /\ UNCHANGED <<left, charged>>

(* The spend is kept with its date.                                        *)
NewDay == charged > 0 /\ charged' = 0 /\ UNCHANGED <<asked, left>>

Next == NewDay \/ \E r \in Requests : Admit(r) \/ Charge(r) \/ Uncharged(r) \/ End(r)

Spec == Init /\ [][Next]_vars

-----------------------------------------------------------------------------
(* The videos and answers the requests at work have left, and what these   *)
(* may still charge.                                                       *)
Owed == UNION {{r} \X (1..left[r]) : r \in {q \in Requests : asked[q] = "working"}}

Outstanding == Cost * Cardinality(Owed)

(* The cap is checked when a request comes in and charged when its work is *)
(* done, so a key overspends.  By how much is settled when the cap is      *)
(* reached: from then on spend and outstanding work together only shrink.  *)
OverspendOnlyShrinks ==
  [][Cap > 0 /\ charged >= Cap => charged' + Outstanding' <= charged + Outstanding]_vars
=============================================================================
