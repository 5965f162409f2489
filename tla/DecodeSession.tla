----------------------------- MODULE DecodeSession -----------------------------
(***************************************************************************)
(* One decode session between the parent (vi-media client.rs: Session,     *)
(* FrameStream) and its sandboxed worker process (worker.rs, decode.rs),   *)
(* with the shared-memory slots the frames travel in (shm.rs).             *)
(*                                                                         *)
(* A frame is written into a slot, announced over the worker's stdout,     *)
(* wrapped in a SlotGuard that all readers of the frame share, and its     *)
(* slot goes back over the release channel and the worker's stdin when the *)
(* last of them drops it.  The parent maps the region while the worker     *)
(* writes it: nothing but this protocol keeps them apart.                  *)
(*                                                                         *)
(* Which of several free slots is used next does not matter, so the places *)
(* a slot can wait in are counts per slot.  Log, Tick and Gap messages,    *)
(* which carry no slot, are left out.                                      *)
(***************************************************************************)
EXTENDS Integers, Sequences

CONSTANTS
  SlotCount,  \* slots of the region: max_in_flight_frames
  Readers,    \* who may share a delivered frame
  Frames,     \* bound: frames the request produces
  IdleLimit,  \* ticks of silence after which the parent gives the worker up
  MayFail,    \* whether the decoder may fail, hang or die
  MayDrop     \* whether the caller may drop the stream in the middle

Slots == 1..SlotCount
NoSlot == 0

ASSUME BoundsAssumption == SlotCount \in Nat \ {0} /\ Frames \in Nat /\ IdleLimit \in Nat \ {0}
ASSUME SwitchesAssumption == MayFail \in BOOLEAN /\ MayDrop \in BOOLEAN

VARIABLES
  worker,    \* what the worker process is doing
  target,    \* the slot it is writing, or NoSlot
  content,   \* content[s]: the frame whose bytes slot s holds; 0 is torn or empty
  free,      \* free[s]: how often s is in the worker's list of free slots
  sent,      \* frames announced
  replies,   \* the worker's stdout
  freed,     \* freed[s]: SlotFree messages for s in the worker's stdin
  session,   \* "opening", "open", "ended" (stats set), "failed" or "dropped"
  caller,    \* the stream's owner: "busy", "waiting" (in next), "error"
  delivered, \* the last frame handed to the caller
  held,      \* held[s]: the readers that hold the guard of slot s
  promise,   \* promise[s]: the frame that guard was made for
  released,  \* released[s]: how often s is in the release channel
  stopping,  \* the worker was told to shut down, or sent SIGKILL
  idle,      \* ticks the current recv has waited
  waited     \* ticks all recvs of the request have waited, up to IdleLimit + 1

workerVars == <<worker, target, content, free, sent>>
parentVars == <<session, caller, delivered, held, promise, released>>
timeVars == <<idle, waited>>
vars == <<workerVars, replies, freed, parentVars, stopping, timeVars>>

Reply(type, s, n) == [type |-> type, slot |-> s, n |-> n]

Init ==
  /\ worker = "opening"
  /\ target = NoSlot
  /\ content = [s \in Slots |-> 0]
  /\ free = [s \in Slots |-> 1]
  /\ sent = 0
  /\ replies = <<>>
  /\ freed = [s \in Slots |-> 0]
  /\ session = "opening"
  /\ caller = "waiting"
  /\ delivered = 0
  /\ held = [s \in Slots |-> {}]
  /\ promise = [s \in Slots |-> 0]
  /\ released = [s \in Slots |-> 0]
  /\ stopping = FALSE
  /\ idle = 0
  /\ waited = 0

-----------------------------------------------------------------------------
(* The worker maps the region, opens the input and says so.                *)
Start ==
  /\ worker = "opening"
  /\ worker' = "decoding"
  /\ replies' = Append(replies, Reply("started", NoSlot, 0))
  /\ UNCHANGED <<target, content, free, sent, freed>>

(* poll_cancel, and the wait in acquire_slot: SlotFree is put in the list. *)
TakeFreed(s) ==
  /\ worker = "decoding"
  /\ freed[s] > 0
  /\ freed' = [freed EXCEPT ![s] = @ - 1]
  /\ free' = [free EXCEPT ![s] = @ + 1]
  /\ UNCHANGED <<worker, target, content, sent, replies>>

(* A slot is acquired and its bytes are being overwritten.                 *)
Acquire(s) ==
  /\ worker = "decoding"
  /\ sent < Frames
  /\ free[s] > 0
  /\ free' = [free EXCEPT ![s] = @ - 1]
  /\ content' = [content EXCEPT ![s] = 0]
  /\ target' = s
  /\ worker' = "writing"
  /\ UNCHANGED <<sent, replies, freed>>

(* The last row is written and the slot announced: the parent owns it now. *)
Announce ==
  /\ worker = "writing"
  /\ content' = [content EXCEPT ![target] = sent + 1]
  /\ replies' = Append(replies, Reply("frame", target, sent + 1))
  /\ sent' = sent + 1
  /\ target' = NoSlot
  /\ worker' = "decoding"
  /\ UNCHANGED <<free, freed>>

(* finish_session: the range is done, or an error goes out in its place.   *)
(* The process waits for further requests; a late SlotFree is ignored.     *)
Finish ==
  /\ \/ /\ worker = "decoding"
        /\ sent = Frames
        /\ replies' = Append(replies, Reply("end", NoSlot, sent))
     \/ /\ worker \in {"opening", "decoding"}
        /\ MayFail
        /\ replies' = Append(replies, Reply("error", NoSlot, 0))
  /\ worker' = "idle"
  /\ UNCHANGED <<target, content, free, sent, freed>>

(* libav hangs on a broken file, or takes the process down.                *)
Break ==
  /\ MayFail
  /\ worker \in {"opening", "decoding", "writing"}
  /\ worker' \in {"hung", "dead"}
  /\ UNCHANGED <<target, content, free, sent, replies, freed>>

(* The worker leaves after Shutdown, or is killed.                         *)
Exit ==
  /\ stopping
  /\ worker # "dead"
  /\ worker' = "dead"
  /\ UNCHANGED <<target, content, free, sent, replies, freed>>

WorkerWorks == Start \/ (\E s \in Slots : TakeFreed(s) \/ Acquire(s)) \/ Announce \/ Finish

WorkerStep ==
  /\ WorkerWorks \/ Break \/ Exit
  /\ UNCHANGED <<parentVars, stopping, timeVars>>

-----------------------------------------------------------------------------
(* The owner of the stream asks for the next frame.  After the end or a    *)
(* failure next answers at once that there is none.                        *)
Call ==
  /\ session = "open"
  /\ caller = "busy"
  /\ caller' = "waiting"
  /\ idle' = 0
  /\ UNCHANGED <<replies, freed, session, delivered, held, promise, released,
                 stopping, waited>>

(* Mutant: the recv a release interrupts had already taken a message. *)
ForwardAndLose(s) ==
  /\ session = "open"
  /\ caller = "waiting"
  /\ released[s] > 0
  /\ replies # <<>>
  /\ replies' = Tail(replies)
  /\ released' = [released EXCEPT ![s] = @ - 1]
  /\ freed' = [freed EXCEPT ![s] = @ + 1]
  /\ idle' = 0
  /\ UNCHANGED <<session, caller, delivered, held, promise, stopping, waited>>

(* Releases first: they are drained before recv and win the biased select, *)
(* which drops the recv in progress and its timer with it.  A worker that  *)
(* is gone makes the call return the write error.                          *)
Forward(s) ==
  /\ session = "open"
  /\ caller = "waiting"
  /\ released[s] > 0
  /\ released' = [released EXCEPT ![s] = @ - 1]
  /\ IF worker = "dead"
       THEN caller' = "error" /\ UNCHANGED freed
       ELSE freed' = [freed EXCEPT ![s] = @ + 1] /\ UNCHANGED caller
  /\ idle' = 0
  /\ UNCHANGED <<replies, session, delivered, held, promise, stopping, waited>>

Listening ==
  /\ session \in {"opening", "open"}
  /\ caller = "waiting"
  /\ \A s \in Slots : released[s] = 0

(* A frame is wrapped in a guard and handed out, to as many readers as     *)
(* share it.  An audio chunk is copied, an unwanted frame skipped: no one  *)
(* keeps the guard, which drops on the spot.                               *)
ReceiveFrame ==
  /\ Head(replies).type = "frame"
  /\ session = "open"
  /\ \E rs \in SUBSET Readers :
       LET s == Head(replies).slot
       IN /\ held' = [held EXCEPT ![s] = rs]
          /\ promise' = [promise EXCEPT ![s] = Head(replies).n]
          /\ released' = IF rs = {} THEN [released EXCEPT ![s] = @ + 1] ELSE released
  /\ delivered' = Head(replies).n
  /\ caller' = "busy"
  /\ UNCHANGED <<session, stopping>>

(* After End the stream shuts the worker down; Error while the session is  *)
(* being opened does too, later it only marks the session failed.          *)
ReceiveOther ==
  /\ Head(replies).type # "frame"
  /\ session' = CASE Head(replies).type = "started" -> "open"
                  [] Head(replies).type = "end" -> "ended"
                  [] Head(replies).type = "error" -> "failed"
  /\ stopping' = \/ stopping
                 \/ Head(replies).type = "end"
                 \/ Head(replies).type = "error" /\ session = "opening"
  /\ caller' = IF Head(replies).type = "error" THEN "error" ELSE "busy"
  /\ UNCHANGED <<delivered, held, promise, released>>

Receive ==
  /\ Listening
  /\ replies # <<>>
  /\ replies' = Tail(replies)
  /\ ReceiveFrame \/ ReceiveOther
  /\ UNCHANGED <<freed, idle, waited>>

(* Mutant: no timeout. *)
GiveUpAtEof ==
  /\ Listening
  /\ replies = <<>>
  /\ worker = "dead"
  /\ session' = "failed"
  /\ caller' = "error"
  /\ UNCHANGED <<replies, freed, delivered, held, promise, released, stopping, idle, waited>>

(* No message comes: the worker's stdout is closed, or it has been silent  *)
(* for the idle limit and is killed.                                       *)
GiveUp ==
  /\ Listening
  /\ replies = <<>>
  /\ \/ worker = "dead" /\ UNCHANGED stopping
     \/ idle = IdleLimit /\ stopping' = TRUE
  /\ session' = "failed"
  /\ caller' = "error"
  /\ UNCHANGED <<replies, freed, delivered, held, promise, released, idle, waited>>

(* The stream is dropped: kill_on_drop.  Guards outlive it, their releases *)
(* go nowhere.                                                             *)
Drop ==
  /\ session # "dropped"
  /\ MayDrop \/ session \in {"ended", "failed"} \/ caller = "error"
  /\ session' = "dropped"
  /\ stopping' = TRUE
  /\ released' = [s \in Slots |-> 0]
  /\ UNCHANGED <<replies, freed, caller, delivered, held, promise, idle, waited>>

(* Mutant: every reader releases the slot. *)
ReaderReleases(r, s) ==
  /\ r \in held[s]
  /\ held' = [held EXCEPT ![s] = @ \ {r}]
  /\ released' = [released EXCEPT ![s] = @ + 1]
  /\ UNCHANGED <<replies, freed, session, caller, delivered, promise, stopping, idle, waited>>

(* A reader is done with its frame; the last one releases the slot.        *)
ReaderDrops(r, s) ==
  /\ r \in held[s]
  /\ held' = [held EXCEPT ![s] = @ \ {r}]
  /\ released' = IF held[s] = {r} /\ session # "dropped"
                   THEN [released EXCEPT ![s] = @ + 1]
                   ELSE released
  /\ UNCHANGED <<replies, freed, session, caller, delivered, promise, stopping, idle, waited>>

ParentStep ==
  /\ Call \/ (\E s \in Slots : Forward(s)) \/ Receive \/ GiveUp \/ Drop
     \/ (\E r \in Readers, s \in Slots : ReaderDrops(r, s))
  /\ UNCHANGED workerVars

(* Time passes for a waiting recv, which acts as soon as its limit is up.  *)
Tick ==
  /\ session \in {"opening", "open"}
  /\ caller = "waiting"
  /\ idle < IdleLimit
  /\ idle' = idle + 1
  /\ waited' = IF waited <= IdleLimit THEN waited + 1 ELSE waited
  /\ UNCHANGED <<workerVars, replies, freed, parentVars, stopping>>

Next == WorkerStep \/ ParentStep \/ Tick

Spec == Init /\ [][Next]_vars

(* A healthy worker keeps decoding and a stopped one exits; the parent's   *)
(* task is polled; readers get done with their frames; time passes.        *)
Fairness ==
  /\ WF_vars((WorkerWorks \/ Exit) /\ UNCHANGED <<parentVars, stopping, timeVars>>)
  /\ WF_vars((Call \/ (\E s \in Slots : Forward(s)) \/ Receive \/ GiveUp)
             /\ UNCHANGED workerVars)
  /\ WF_vars((session \in {"ended", "failed"} \/ caller = "error") /\ Drop
             /\ UNCHANGED workerVars)
  /\ \A r \in Readers, s \in Slots : WF_vars(ReaderDrops(r, s) /\ UNCHANGED workerVars)
  /\ WF_vars(Tick)

FairSpec == Spec /\ Fairness

-----------------------------------------------------------------------------
ReplySet ==
  [type : {"frame"}, slot : Slots, n : 1..Frames]
    \cup [type : {"started", "end", "error"}, slot : {NoSlot}, n : 0..Frames]

TypeOK ==
  /\ worker \in {"opening", "decoding", "writing", "idle", "hung", "dead"}
  /\ target \in Slots \cup {NoSlot}
  /\ content \in [Slots -> 0..Frames]
  /\ free \in [Slots -> Nat]
  /\ sent \in 0..Frames
  /\ replies \in Seq(ReplySet)
  /\ freed \in [Slots -> Nat]
  /\ session \in {"opening", "open", "ended", "failed", "dropped"}
  /\ caller \in {"busy", "waiting", "error"}
  /\ delivered \in 0..Frames
  /\ held \in [Slots -> SUBSET Readers]
  /\ promise \in [Slots -> 0..Frames]
  /\ released \in [Slots -> Nat]
  /\ stopping \in BOOLEAN
  /\ idle \in 0..IdleLimit
  /\ waited \in 0..(IdleLimit + 1)

(* The announcements on their way, and how often slot s is on its way back.*)
InFlight == {k \in 1..Len(replies) : replies[k].type = "frame"}
Loose(s) == free[s] + freed[s] + released[s]

(* The ownership rule of shm.rs, "No slot is ever written by one side      *)
(* while the other holds it": a slot is in one place at a time, however    *)
(* late its frame is read or its release arrives.                          *)
OneOwner ==
  \A s \in Slots :
    /\ Loose(s) <= 1
    /\ Loose(s) = 1 => held[s] = {} /\ target # s
    /\ held[s] # {} => target # s
    /\ \A k \in InFlight : replies[k].slot = s =>
         /\ Loose(s) = 0 /\ held[s] = {} /\ target # s
         /\ \A m \in InFlight : replies[m].slot = s => m = k

(* What that buys the readers: as long as anybody holds a frame its bytes  *)
(* are those of the frame that was announced, never torn, never a later    *)
(* one, also after the session ended, failed or was dropped.               *)
GuardShowsItsFrame == \A s \in Slots : held[s] # {} => content[s] = promise[s]

(* The stream of frames is an ItemStream.  The parent sees its end only    *)
(* when the worker finished the whole range and every frame was handed     *)
(* out; an error, a dead or a silent worker never looks like an end.       *)
Stream == INSTANCE ItemStream WITH
  sent <- sent,
  received <- delivered,
  open <- worker \in {"opening", "decoding", "writing"},
  consumer <- IF session \in {"failed", "dropped"} THEN "gone"
              ELSE IF session = "ended" THEN "ended" ELSE "receiving"

FramesAreAStream == Stream!Init /\ [][Stream!Next]_(Stream!vars)

CleanEndIsComplete == session = "ended" => delivered = Frames

(* No slot is lost while the session runs: with the readers done and every *)
(* message read the worker has all its slots back.                         *)
NoSlotIsLost ==
  session = "open" /\ caller # "error" =>
    \A s \in Slots : \/ Loose(s) = 1 \/ held[s] # {} \/ target = s
                     \/ \E k \in InFlight : replies[k].slot = s

(* A session comes to an end whatever the worker does, as long as readers  *)
(* let go of their frames, and it leaves no process behind.                *)
SessionEnds == <>(session = "dropped")
WorkerIsReaped == <>[](worker = "dead")

(* config.rs on timeout_secs: "Wall-clock limit per request (probe or      *)
(* decode of one range)".  The time spent waiting for a worker that is     *)
(* still at its request is within that.                                    *)
RequestBounded ==
  session = "open" /\ caller = "waiting" /\ worker \in {"decoding", "writing"} =>
    waited <= IdleLimit

SessionEndsReaped == SessionEnds /\ WorkerIsReaped

(* What holds between a parent and its worker at any moment: the slots are *)
(* owned by one of them and all there, held frames stay as announced, and  *)
(* a clean end is the end of the range.                                    *)
SessionIsSound ==
  /\ TypeOK
  /\ OneOwner
  /\ GuardShowsItsFrame
  /\ NoSlotIsLost
  /\ CleanEndIsComplete
=============================================================================
