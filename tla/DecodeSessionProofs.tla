------------------------- MODULE DecodeSessionProofs -------------------------
(***************************************************************************)
(* Proofs about DecodeSession: for any number of slots, readers and        *)
(* frames, and whatever fails when, a slot has one owner, a guard shows    *)
(* its frame, and the frames reach the caller as an ItemStream.            *)
(***************************************************************************)
EXTENDS DecodeSession, TLAPS

(* The worker writes to a real slot, and only while it is writing. *)
Ready ==
  /\ worker = "writing" => target \in Slots /\ sent < Frames
  /\ worker \in {"opening", "decoding", "idle"} => target = NoSlot

(* What an announced slot holds. *)
Contents ==
  /\ \A k \in InFlight : content[replies[k].slot] = replies[k].n /\ replies[k].n <= sent
  /\ GuardShowsItsFrame

Listens == session \in {"opening", "open"}

(* Messages in front of the first frame. *)
Opening == IF session = "opening" THEN 1 ELSE 0

(* How the messages on their way follow on what was delivered. *)
Order ==
  /\ session = "opening" => delivered = 0
  /\ worker = "opening" => session # "open" /\ session # "ended"
  /\ Listens =>
       /\ worker = "opening" => replies = <<>> /\ sent = 0
       /\ worker \in {"decoding", "writing"} => sent = delivered + Len(replies) - Opening
       /\ session = "opening" /\ replies # <<>> => replies[1].type \in {"started", "error"}
       /\ \A k \in 1..Len(replies) :
            /\ replies[k].type = "started" => session = "opening" /\ k = 1
            /\ replies[k].type = "frame" => replies[k].n = delivered + k - Opening
            /\ replies[k].type \in {"end", "error"} =>
                 k = Len(replies) /\ worker \notin {"opening", "decoding", "writing"}
            /\ replies[k].type = "end" =>
                 /\ sent = Frames
                 /\ sent = delivered + k - 1 - Opening

Complete == session = "ended" => delivered = Frames

NothingLost ==
  Listens /\ caller # "error" =>
    \A s \in Slots : \/ Loose(s) = 1 \/ held[s] # {} \/ target = s
                     \/ \E k \in InFlight : replies[k].slot = s

IInv == TypeOK /\ Ready /\ OneOwner /\ Contents /\ Order /\ Complete /\ NothingLost

-----------------------------------------------------------------------------
(* What Append and Tail do to the messages on their way. *)
LEMMA AppendFacts ==
  ASSUME NEW S, NEW q \in Seq(S), NEW e \in S
  PROVE  /\ Append(q, e) \in Seq(S)
         /\ Len(q) \in Nat
         /\ Len(Append(q, e)) = Len(q) + 1
         /\ \A k \in 1..Len(q) : Append(q, e)[k] = q[k]
         /\ Append(q, e)[Len(q) + 1] = e
  OBVIOUS

LEMMA TailFacts ==
  ASSUME NEW S, NEW q \in Seq(S), q # <<>>
  PROVE  /\ Tail(q) \in Seq(S)
         /\ Len(q) \in Nat \ {0}
         /\ Head(q) = q[1]
         /\ q[1] \in S
         /\ Len(Tail(q)) = Len(q) - 1
         /\ \A k \in 1..Len(Tail(q)) : Tail(q)[k] = q[k + 1]
  OBVIOUS

(* The kinds of messages, by what they carry. *)
LEMMA ReplyFacts ==
  ASSUME NEW r \in ReplySet
  PROVE  /\ r.type \in {"started", "frame", "end", "error"}
         /\ r.type = "frame" => r.slot \in Slots /\ r.n \in 1..Frames
         /\ r.n \in 0..Frames
  BY BoundsAssumption DEF ReplySet

(* Counting a slot in or out of a place keeps the place a count per slot. *)
LEMMA CountFacts ==
  ASSUME NEW f \in [Slots -> Nat], NEW s \in Slots
  PROVE  /\ [f EXCEPT ![s] = @ + 1] \in [Slots -> Nat]
         /\ f[s] > 0 => [f EXCEPT ![s] = @ - 1] \in [Slots -> Nat]
  <1>1. f[s] \in Nat /\ f[s] + 1 \in Nat
    OBVIOUS
  <1>2. f[s] > 0 => f[s] - 1 \in Nat
    BY <1>1
  <1> QED
    BY <1>1, <1>2

(* The next step, one disjunct per action. *)
LEMMA StepCases ==
  ASSUME [Next]_vars
  PROVE  \/ Start /\ UNCHANGED <<parentVars, stopping, timeVars>>
         \/ \E s \in Slots : TakeFreed(s) /\ UNCHANGED <<parentVars, stopping, timeVars>>
         \/ \E s \in Slots : Acquire(s) /\ UNCHANGED <<parentVars, stopping, timeVars>>
         \/ Announce /\ UNCHANGED <<parentVars, stopping, timeVars>>
         \/ Finish /\ UNCHANGED <<parentVars, stopping, timeVars>>
         \/ Break /\ UNCHANGED <<parentVars, stopping, timeVars>>
         \/ Exit /\ UNCHANGED <<parentVars, stopping, timeVars>>
         \/ Call /\ UNCHANGED workerVars
         \/ \E s \in Slots : Forward(s) /\ UNCHANGED workerVars
         \/ Receive /\ UNCHANGED workerVars
         \/ GiveUp /\ UNCHANGED workerVars
         \/ Drop /\ UNCHANGED workerVars
         \/ \E r \in Readers, s \in Slots : ReaderDrops(r, s) /\ UNCHANGED workerVars
         \/ Tick
         \/ UNCHANGED vars
  BY DEF Next, WorkerStep, WorkerWorks, ParentStep

(* The initial state. *)
LEMMA InitInvariant == Init => IInv
  <1> SUFFICES ASSUME Init PROVE IInv
    OBVIOUS
  <1> USE BoundsAssumption
  <1>a. 0 \in 0..Frames /\ 0 \in 0..IdleLimit /\ 0 \in 0..(IdleLimit + 1)
    OBVIOUS
  <1>b. held \in [Slots -> SUBSET Readers] /\ replies \in Seq(ReplySet)
    BY DEF Init
  <1>c. /\ content \in [Slots -> 0..Frames]
        /\ promise \in [Slots -> 0..Frames]
        /\ free \in [Slots -> Nat]
        /\ freed \in [Slots -> Nat]
        /\ released \in [Slots -> Nat]
    BY <1>a DEF Init
  <1>1. TypeOK
    BY <1>a, <1>b, <1>c DEF Init, TypeOK
  <1>2. Ready /\ Complete
    BY DEF Init, Ready, Complete
  <1>3. InFlight = {}
    BY DEF Init, InFlight
  <1>4. \A s \in Slots : Loose(s) = 1 /\ held[s] = {} /\ target # s
    BY DEF Init, Loose, Slots, NoSlot
  <1>5. OneOwner /\ Contents /\ NothingLost
    BY <1>3, <1>4 DEF OneOwner, Contents, GuardShowsItsFrame, NothingLost
  <1>6. Order
    BY DEF Init, Order, Listens, Opening
  <1> QED
    BY <1>1, <1>2, <1>5, <1>6 DEF IInv

(* Types are kept. *)
LEMMA TypeStep ==
  ASSUME IInv, [Next]_vars
  PROVE  TypeOK'
  <1> USE BoundsAssumption DEF vars, workerVars, parentVars, timeVars
  <1> TypeOK /\ Ready
    BY DEF IInv
  <1>1. ASSUME Start, UNCHANGED <<parentVars, stopping, timeVars>>
        PROVE  TypeOK'
    BY <1>1 DEF Start, TypeOK, Reply, ReplySet
  <1>2. ASSUME NEW s \in Slots, TakeFreed(s), UNCHANGED <<parentVars, stopping, timeVars>>
        PROVE  TypeOK'
    <2>1. freed' \in [Slots -> Nat] /\ free' \in [Slots -> Nat]
      BY <1>2, CountFacts DEF TakeFreed, TypeOK
    <2> QED
      BY <1>2, <2>1 DEF TakeFreed, TypeOK
  <1>3. ASSUME NEW s \in Slots, Acquire(s), UNCHANGED <<parentVars, stopping, timeVars>>
        PROVE  TypeOK'
    BY <1>3, SMTT(40) DEF Acquire, TypeOK
  <1>4. ASSUME Announce, UNCHANGED <<parentVars, stopping, timeVars>>
        PROVE  TypeOK'
    BY <1>4 DEF Announce, TypeOK, Ready, Reply, ReplySet
  <1>5. ASSUME Finish, UNCHANGED <<parentVars, stopping, timeVars>>
        PROVE  TypeOK'
    <2>1. Reply("end", NoSlot, sent) \in ReplySet /\ Reply("error", NoSlot, 0) \in ReplySet
      BY DEF TypeOK, Reply, ReplySet
    <2>2. /\ Append(replies, Reply("end", NoSlot, sent)) \in Seq(ReplySet)
          /\ Append(replies, Reply("error", NoSlot, 0)) \in Seq(ReplySet)
      BY <2>1, AppendFacts DEF TypeOK
    <2> QED
      BY <1>5, <2>2 DEF Finish, TypeOK
  <1>6. ASSUME Break \/ Exit, UNCHANGED <<parentVars, stopping, timeVars>>
        PROVE  TypeOK'
    BY <1>6 DEF Break, Exit, TypeOK
  <1>7. ASSUME Call, UNCHANGED workerVars
        PROVE  TypeOK'
    BY <1>7 DEF Call, TypeOK
  <1>8. ASSUME NEW s \in Slots, Forward(s), UNCHANGED workerVars
        PROVE  TypeOK'
    <2>1. released' \in [Slots -> Nat] /\ freed' \in [Slots -> Nat]
      BY <1>8, SMTT(40) DEF Forward, TypeOK
    <2>2. caller' \in {"busy", "waiting", "error"}
      BY <1>8 DEF Forward, TypeOK
    <2>3. /\ UNCHANGED <<replies, session, delivered, held, promise, stopping, waited>>
          /\ idle' \in 0..IdleLimit
      BY <1>8 DEF Forward
    <2> QED
      BY <1>8, <2>1, <2>2, <2>3 DEF TypeOK
  <1>9. ASSUME Receive, UNCHANGED workerVars
        PROVE  TypeOK'
    <2>1. /\ replies # <<>>
          /\ replies' = Tail(replies)
          /\ UNCHANGED <<freed, idle, waited>>
      BY <1>9 DEF Receive
    <2>2. replies' \in Seq(ReplySet) /\ Head(replies) \in ReplySet
      BY <2>1, TailFacts DEF TypeOK
    <2>3. CASE ReceiveFrame
      <3>1. Head(replies).slot \in Slots /\ Head(replies).n \in 1..Frames
        BY <2>2, <2>3, ReplyFacts DEF ReceiveFrame
      <3>2. held' \in [Slots -> SUBSET Readers] /\ promise' \in [Slots -> 0..Frames]
        BY <2>3, <3>1, SMTT(40) DEF ReceiveFrame, TypeOK
      <3>3. released' \in [Slots -> Nat]
        <4>1. PICK s \in Slots : \/ released' = [released EXCEPT ![s] = @ + 1]
                                 \/ released' = released
          BY <2>3, <3>1 DEF ReceiveFrame
        <4>2. released \in [Slots -> Nat] /\ released[s] + 1 \in Nat
          BY DEF TypeOK
        <4> QED
          BY <4>1, <4>2
      <3>4. delivered' \in 0..Frames /\ caller' = "busy" /\ UNCHANGED <<session, stopping>>
        BY <2>3, <3>1 DEF ReceiveFrame
      <3> QED
        BY <1>9, <2>1, <2>2, <3>2, <3>3, <3>4 DEF TypeOK
    <2>4. CASE ReceiveOther
      <3>1. Head(replies).type \in {"started", "end", "error"}
        BY <2>2, <2>4, ReplyFacts DEF ReceiveOther
      <3>2. /\ session' \in {"open", "ended", "failed"}
            /\ caller' \in {"busy", "error"}
            /\ UNCHANGED <<delivered, held, promise, released>>
        BY <2>4, <3>1 DEF ReceiveOther
      <3>3. stopping' \in BOOLEAN
        BY <2>4 DEF ReceiveOther
      <3> QED
        BY <1>9, <2>1, <2>2, <3>2, <3>3 DEF TypeOK
    <2> QED
      BY <1>9, <2>3, <2>4 DEF Receive
  <1>10. ASSUME GiveUp, UNCHANGED workerVars
         PROVE  TypeOK'
    BY <1>10 DEF GiveUp, TypeOK
  <1>11. ASSUME Drop, UNCHANGED workerVars
         PROVE  TypeOK'
    BY <1>11 DEF Drop, TypeOK
  <1>12. ASSUME NEW r \in Readers, NEW s \in Slots, ReaderDrops(r, s), UNCHANGED workerVars
         PROVE  TypeOK'
    <2>1. released' \in [Slots -> Nat]
      BY <1>12, CountFacts DEF ReaderDrops, TypeOK
    <2>2. held' \in [Slots -> SUBSET Readers]
      BY <1>12 DEF ReaderDrops, TypeOK
    <2> QED
      BY <1>12, <2>1, <2>2 DEF ReaderDrops, TypeOK
  <1>13. ASSUME Tick
         PROVE  TypeOK'
    BY <1>13 DEF Tick, TypeOK
  <1>14. ASSUME UNCHANGED vars
         PROVE  TypeOK'
    BY <1>14 DEF TypeOK
  <1> QED
    BY StepCases, <1>1, <1>2, <1>3, <1>4, <1>5, <1>6, <1>7, <1>8, <1>9, <1>10, <1>11, <1>12,
       <1>13, <1>14

(* The worker's slot is a real one while it writes, and none before and    *)
(* after.                                                                  *)
LEMMA ReadyStep ==
  ASSUME IInv, [Next]_vars
  PROVE  Ready'
  <1> USE DEF vars, workerVars, parentVars, timeVars
  <1> TypeOK /\ Ready
    BY DEF IInv
  <1>1. CASE UNCHANGED workerVars
    BY <1>1 DEF Ready
  <1>2. ASSUME NEW s \in Slots, TakeFreed(s)
        PROVE  Ready'
    BY <1>2 DEF TakeFreed, Ready
  <1>4. ASSUME NEW s \in Slots, Acquire(s)
        PROVE  Ready'
    BY <1>4 DEF Acquire, Ready
  <1>3. CASE Start \/ Announce \/ Finish \/ Break \/ Exit
    BY <1>3 DEF Start, Announce, Finish, Break, Exit, Ready
  <1> QED
    BY StepCases, <1>1, <1>2, <1>3, <1>4 DEF Tick

-----------------------------------------------------------------------------
(* The announcements on their way after a message was sent. *)
LEMMA AfterSend ==
  ASSUME TypeOK, NEW e \in ReplySet, replies' = Append(replies, e)
  PROVE  /\ replies'[Len(replies) + 1] = e
         /\ \A k \in InFlight : replies'[k] = replies[k] /\ k # Len(replies) + 1
         /\ e.type = "frame" => InFlight' = InFlight \cup {Len(replies) + 1}
         /\ e.type # "frame" => InFlight' = InFlight
  <1>1. /\ Len(replies) \in Nat
        /\ Len(replies') = Len(replies) + 1
        /\ \A k \in 1..Len(replies) : replies'[k] = replies[k]
        /\ replies'[Len(replies) + 1] = e
    BY AppendFacts DEF TypeOK
  <1>2. 1..Len(replies') = (1..Len(replies)) \cup {Len(replies) + 1}
    BY <1>1
  <1> QED
    BY <1>1, <1>2 DEF InFlight

(* The announcements on their way after the first message was read. *)
LEMMA AfterReceive ==
  ASSUME TypeOK, replies # <<>>, replies' = Tail(replies)
  PROVE  /\ Head(replies) = replies[1] /\ Head(replies) \in ReplySet
         /\ 1 \in InFlight <=> Head(replies).type = "frame"
         /\ InFlight \subseteq Nat
         /\ \A k \in InFlight' : k \in Nat \ {0} /\ k + 1 \in InFlight /\ replies'[k] = replies[k + 1]
         /\ \A k \in InFlight : k # 1 => k - 1 \in InFlight' /\ replies'[k - 1] = replies[k]
  <1>1. /\ Len(replies) \in Nat \ {0}
        /\ Head(replies) = replies[1] /\ Head(replies) \in ReplySet
        /\ Len(replies') = Len(replies) - 1
        /\ \A k \in 1..Len(replies') : replies'[k] = replies[k + 1]
    BY TailFacts DEF TypeOK
  <1>2. \A k \in 1..Len(replies') : k \in Nat \ {0} /\ k + 1 \in 1..Len(replies)
    BY <1>1
  <1>3. \A k \in 1..Len(replies) : k # 1 => /\ k - 1 \in 1..Len(replies')
                                          /\ replies'[k - 1] = replies[k]
    BY <1>1
  <1>4. 1 \in 1..Len(replies)
    BY <1>1
  <1> QED
    BY <1>1, <1>2, <1>3, <1>4 DEF InFlight

(* Announced slots are slots. *)
LEMMA InFlightSlots ==
  ASSUME TypeOK
  PROVE  \A k \in InFlight : /\ replies[k] \in ReplySet
                            /\ replies[k].slot \in Slots
                            /\ replies[k].n \in 1..Frames
  BY ReplyFacts DEF TypeOK, InFlight

(* A slot that is not on its way back is on no leg of that way. *)
LEMMA NotLoose ==
  ASSUME TypeOK, NEW s \in Slots
  PROVE  /\ Loose(s) \in Nat
         /\ Loose(s) = 0 => free[s] = 0 /\ freed[s] = 0 /\ released[s] = 0
  <1>1. free[s] \in Nat /\ freed[s] \in Nat /\ released[s] \in Nat
    BY DEF TypeOK
  <1>2. \A a, b, c \in Nat : a + b + c \in Nat /\ (a + b + c = 0 => a = 0 /\ b = 0 /\ c = 0)
    OBVIOUS
  <1> QED
    BY <1>1, <1>2 DEF Loose

(* A slot keeps having one owner.                                          *)
LEMMA OwnerStep ==
  ASSUME IInv, [Next]_vars
  PROVE  OneOwner'
  <1> USE DEF vars, workerVars, parentVars, timeVars
  <1> TypeOK /\ Ready /\ OneOwner
    BY DEF IInv
  <1>0. \A s \in Slots : free[s] \in Nat /\ freed[s] \in Nat /\ released[s] \in Nat /\ s # NoSlot
    BY DEF TypeOK, Slots, NoSlot
  <1>u. ASSUME UNCHANGED <<free, freed, released, held, target, replies>>
        PROVE  OneOwner'
    BY <1>u DEF OneOwner, InFlight, Loose
  <1>m. ASSUME UNCHANGED <<free, freed, released, held, target>>, InFlight' = InFlight,
               \A k \in InFlight : replies'[k] = replies[k]
        PROVE  OneOwner'
    BY <1>m DEF OneOwner, Loose
  <1>1. CASE Start /\ UNCHANGED <<parentVars, stopping, timeVars>>
    <2>1. Reply("started", NoSlot, 0) \in ReplySet /\ Reply("started", NoSlot, 0).type # "frame"
      BY BoundsAssumption DEF Reply, ReplySet
    <2> QED
      BY <1>1, <1>m, <2>1, AfterSend DEF Start
  <1>2. ASSUME NEW s \in Slots, TakeFreed(s), UNCHANGED <<parentVars, stopping, timeVars>>
        PROVE  OneOwner'
    <2>1. \A t \in Slots : Loose(t)' = Loose(t)
      BY <1>0, <1>2 DEF TakeFreed, Loose, TypeOK
    <2>2. UNCHANGED <<held, target, replies>>
      BY <1>2 DEF TakeFreed
    <2> QED
      BY <2>1, <2>2, InFlightSlots DEF OneOwner, InFlight
  <1>3. ASSUME NEW s \in Slots, Acquire(s), UNCHANGED <<parentVars, stopping, timeVars>>
        PROVE  OneOwner'
    <2>1. Loose(s) = 1 /\ held[s] = {} /\ \A k \in InFlight : replies[k].slot # s
      BY <1>0, <1>3 DEF Acquire, Loose, OneOwner
    <2>2. Loose(s)' = 0 /\ \A t \in Slots : t # s => Loose(t)' = Loose(t)
      BY <1>0, <1>3, <2>1, SMTT(40) DEF Acquire, Loose, TypeOK
    <2>3. target' = s /\ target = NoSlot /\ UNCHANGED <<held, replies>>
      BY <1>3 DEF Acquire, Ready
    <2> QED
      BY <1>0, <2>1, <2>2, <2>3, InFlightSlots DEF OneOwner, InFlight
  <1>4. CASE Announce /\ UNCHANGED <<parentVars, stopping, timeVars>>
    <2>1. target \in Slots /\ sent + 1 \in 1..Frames
      BY <1>4, BoundsAssumption DEF Announce, Ready, TypeOK
    <2>2. Reply("frame", target, sent + 1) \in ReplySet
      BY <2>1 DEF Reply, ReplySet
    <2>3. /\ InFlight' = InFlight \cup {Len(replies) + 1}
          /\ \A k \in InFlight : replies'[k] = replies[k] /\ k # Len(replies) + 1
          /\ replies'[Len(replies) + 1].slot = target
      <3>1. replies' = Append(replies, Reply("frame", target, sent + 1))
        BY <1>4 DEF Announce
      <3>2. Reply("frame", target, sent + 1).type = "frame" /\ Reply("frame", target, sent + 1).slot = target
        BY DEF Reply
      <3> QED
        BY <2>2, <3>1, <3>2, AfterSend
    <2>4. \A s \in Slots : Loose(s) \in Nat
      BY NotLoose
    <2>5. Loose(target) = 0 /\ held[target] = {} /\ \A k \in InFlight : replies[k].slot # target
      BY <2>1, <2>4 DEF OneOwner
    <2>6. target' = NoSlot /\ UNCHANGED <<held>> /\ \A s \in Slots : Loose(s)' = Loose(s)
      BY <1>4 DEF Announce, Loose
    <2> QED
      BY <1>0, <2>1, <2>3, <2>5, <2>6, InFlightSlots DEF OneOwner
  <1>5. CASE Finish /\ UNCHANGED <<parentVars, stopping, timeVars>>
    <2>1. \A type \in {"end", "error"} : \A n \in 0..Frames :
            Reply(type, NoSlot, n) \in ReplySet /\ Reply(type, NoSlot, n).type # "frame"
      BY DEF Reply, ReplySet
    <2>2. sent \in 0..Frames /\ 0 \in 0..Frames
      BY BoundsAssumption DEF TypeOK
    <2>3. PICK e \in ReplySet : e.type # "frame" /\ replies' = Append(replies, e)
      BY <1>5, <2>1, <2>2 DEF Finish
    <2>4. UNCHANGED <<free, freed, released, held, target>>
      BY <1>5 DEF Finish
    <2> QED
      BY <1>m, <2>3, <2>4, AfterSend
  <1>6. CASE \/ Break /\ UNCHANGED <<parentVars, stopping, timeVars>>
             \/ Exit /\ UNCHANGED <<parentVars, stopping, timeVars>>
             \/ Call /\ UNCHANGED workerVars
             \/ GiveUp /\ UNCHANGED workerVars
             \/ Tick
             \/ UNCHANGED vars
    BY <1>6, <1>u DEF Break, Exit, Call, GiveUp, Tick
  <1>7. ASSUME NEW s \in Slots, Forward(s), UNCHANGED workerVars
        PROVE  OneOwner'
    <2>1. \A t \in Slots : t # s => Loose(t)' = Loose(t)
      BY <1>0, <1>7 DEF Forward, Loose, TypeOK
    <2>2. Loose(s) = 1 /\ Loose(s)' <= 1
      BY <1>0, <1>7 DEF Forward, Loose, TypeOK, OneOwner
    <2>3. UNCHANGED <<held, target, replies>>
      BY <1>7 DEF Forward
    <2> QED
      BY <2>1, <2>2, <2>3, InFlightSlots DEF OneOwner, InFlight
  <1>8. CASE Receive /\ UNCHANGED workerVars
    <2>1. /\ replies # <<>> /\ replies' = Tail(replies)
          /\ UNCHANGED <<free, freed, target>>
      BY <1>8 DEF Receive
    <2>b. UNCHANGED <<free, freed, target>>
      BY <2>1
    <2>a. \A t \in Slots : \A k \in InFlight' : replies'[k].slot = t =>
             /\ k + 1 \in InFlight /\ replies[k + 1].slot = t
             /\ \A m \in InFlight' : replies'[m].slot = t => m = k
      <3>1. \A k \in InFlight' : k \in Nat \ {0} /\ k + 1 \in InFlight /\ replies'[k] = replies[k + 1]
        BY <2>1, AfterReceive
      <3> TAKE t \in Slots
      <3> TAKE k \in InFlight'
      <3>2. ASSUME replies'[k].slot = t, NEW m \in InFlight', replies'[m].slot = t
            PROVE  m = k
        <4>1. m + 1 = k + 1
          BY <3>1, <3>2 DEF OneOwner
        <4> QED
          BY <3>1, <4>1
      <3> QED
        BY <3>1, <3>2
    <2>2. CASE ReceiveOther
      <3>1. UNCHANGED <<held, released>> /\ \A s \in Slots : Loose(s)' = Loose(s)
        BY <2>1, <2>2 DEF ReceiveOther, Loose
      <3> QED
        BY <2>b, <2>a, <3>1 DEF OneOwner
    <2>3. CASE ReceiveFrame
      <3> DEFINE s == Head(replies).slot
      <3>1. /\ 1 \in InFlight /\ replies[1].slot = s /\ s \in Slots
            /\ \A k \in InFlight' : k + 1 \in InFlight /\ k \in Nat \ {0} /\ replies'[k] = replies[k + 1]
        BY <2>1, <2>3, AfterReceive, InFlightSlots DEF ReceiveFrame
      <3>2. \A k \in InFlight' : replies'[k].slot # s
        BY <3>1 DEF OneOwner
      <3>3. Loose(s) = 0 /\ held[s] = {} /\ target # s
        BY <3>1 DEF OneOwner
      <3>4. PICK rs \in SUBSET Readers :
              /\ held' = [held EXCEPT ![s] = rs]
              /\ released' = IF rs = {} THEN [released EXCEPT ![s] = @ + 1] ELSE released
        BY <2>3 DEF ReceiveFrame
      <3>5. \A t \in Slots : t # s => held'[t] = held[t] /\ Loose(t)' = Loose(t)
        BY <2>1, <3>4, <3>1 DEF Loose, TypeOK
      <3>6. PICK t \in Slots : t = s
        BY <3>1
      <3>7. free[t] = 0 /\ freed[t] = 0 /\ released[t] = 0
        BY <3>3, <3>6, NotLoose
      <3>8. held'[t] = rs /\ Loose(t)' = IF rs = {} THEN 1 ELSE 0
        BY <2>1, <3>4, <3>6, <3>7 DEF Loose, TypeOK
      <3> HIDE DEF s
      <3>9. ASSUME NEW u \in Slots, u # t
            PROVE  /\ Loose(u)' <= 1
                   /\ Loose(u)' = 1 => held'[u] = {} /\ target' # u
                   /\ held'[u] # {} => target' # u
                   /\ \A k \in InFlight' : replies'[k].slot = u =>
                        /\ Loose(u)' = 0 /\ held'[u] = {} /\ target' # u
                        /\ \A m \in InFlight' : replies'[m].slot = u => m = k
        BY <2>b, <2>a, <3>5, <3>6, <3>9 DEF OneOwner
      <3> QED
        BY <2>b, <3>2, <3>3, <3>6, <3>8, <3>9 DEF OneOwner
    <2> QED
      BY <1>8, <2>2, <2>3 DEF Receive
  <1>9. CASE Drop /\ UNCHANGED workerVars
    <2>1. UNCHANGED <<held, target, replies>>
      BY <1>9 DEF Drop
    <2>2. \A t \in Slots : Loose(t)' <= Loose(t) /\ Loose(t)' \in Nat /\ Loose(t) \in Nat
      BY <1>0, <1>9 DEF Drop, Loose
    <2> QED
      BY <2>1, <2>2, InFlightSlots DEF OneOwner, InFlight
  <1>10. ASSUME NEW r \in Readers, NEW s \in Slots, ReaderDrops(r, s), UNCHANGED workerVars
         PROVE  OneOwner'
    <2>1. UNCHANGED <<target, replies>> /\ held' = [held EXCEPT ![s] = @ \ {r}] /\ r \in held[s]
      BY <1>10 DEF ReaderDrops
    <2>2. \A t \in Slots : t # s => held'[t] = held[t] /\ Loose(t)' = Loose(t)
      BY <1>10 DEF ReaderDrops, Loose, TypeOK
    <2>3. Loose(s) = 0 /\ target # s /\ \A k \in InFlight : replies[k].slot # s
      <3>1. Loose(s) \in Nat
        BY NotLoose
      <3> QED
        BY <2>1, <3>1 DEF OneOwner
    <2>4. Loose(s)' \in {0, 1} /\ (Loose(s)' = 1 => held'[s] = {})
      <3>1. released' = IF held[s] = {r} /\ session # "dropped"
                          THEN [released EXCEPT ![s] = released[s] + 1] ELSE released
        BY <1>10 DEF ReaderDrops
      <3>2. held'[s] = held[s] \ {r}
        BY <2>1 DEF TypeOK
      <3>3. free[s] = 0 /\ freed[s] = 0 /\ released[s] = 0
        BY <2>3, NotLoose
      <3>4. UNCHANGED <<free, freed>>
        BY <1>10 DEF ReaderDrops
      <3> QED
        BY <3>1, <3>2, <3>3, <3>4 DEF Loose, TypeOK
    <2> QED
      BY <2>1, <2>2, <2>3, <2>4, InFlightSlots DEF OneOwner, InFlight
  <1> QED
    BY StepCases, <1>1, <1>2, <1>3, <1>4, <1>5, <1>6, <1>7, <1>8, <1>9, <1>10

(* An announced slot keeps the bytes it was announced with, from the       *)
(* announcement until the last reader lets go.                             *)
LEMMA ContentsStep ==
  ASSUME IInv, [Next]_vars
  PROVE  Contents'
  <1> USE DEF vars, workerVars, parentVars, timeVars
  <1> TypeOK /\ Ready /\ OneOwner /\ Contents
    BY DEF IInv
  <1>k. \A k \in InFlight : replies[k].slot \in Slots
    BY InFlightSlots
  <1>m. ASSUME UNCHANGED <<content, held, promise, sent>>, InFlight' = InFlight,
               \A k \in InFlight : replies'[k] = replies[k]
        PROVE  Contents'
    BY <1>m DEF Contents, GuardShowsItsFrame
  <1>1. CASE Start /\ UNCHANGED <<parentVars, stopping, timeVars>>
    <2>1. Reply("started", NoSlot, 0) \in ReplySet /\ Reply("started", NoSlot, 0).type # "frame"
      BY BoundsAssumption DEF Reply, ReplySet
    <2> QED
      BY <1>1, <1>m, <2>1, AfterSend DEF Start
  <1>2. ASSUME NEW s \in Slots, Acquire(s), UNCHANGED <<parentVars, stopping, timeVars>>
        PROVE  Contents'
    <2>1. free[s] > 0 /\ content' = [content EXCEPT ![s] = 0] /\ UNCHANGED <<held, promise, replies, sent>>
      BY <1>2 DEF Acquire
    <2>2. free[s] \in Nat /\ freed[s] \in Nat /\ released[s] \in Nat
      BY DEF TypeOK
    <2>3. Loose(s) = 1
      BY <2>1, <2>2 DEF Loose, OneOwner
    <2>4. held[s] = {} /\ \A k \in InFlight : replies[k].slot # s
      BY <2>3 DEF OneOwner
    <2> QED
      BY <1>k, <2>1, <2>4 DEF Contents, GuardShowsItsFrame, TypeOK, InFlight
  <1>3. CASE Announce /\ UNCHANGED <<parentVars, stopping, timeVars>>
    <2>1. target \in Slots /\ sent + 1 \in 1..Frames
      BY <1>3, BoundsAssumption DEF Announce, Ready, TypeOK
    <2>2. /\ content' = [content EXCEPT ![target] = sent + 1]
          /\ replies' = Append(replies, Reply("frame", target, sent + 1))
          /\ sent' = sent + 1
          /\ UNCHANGED <<held, promise>>
      BY <1>3 DEF Announce
    <2>3. /\ Reply("frame", target, sent + 1) \in ReplySet
          /\ Reply("frame", target, sent + 1).type = "frame"
          /\ Reply("frame", target, sent + 1).slot = target
          /\ Reply("frame", target, sent + 1).n = sent + 1
      BY <2>1 DEF Reply, ReplySet
    <2>4. /\ InFlight' = InFlight \cup {Len(replies) + 1}
          /\ \A k \in InFlight : replies'[k] = replies[k] /\ k # Len(replies) + 1
          /\ replies'[Len(replies) + 1].slot = target
          /\ replies'[Len(replies) + 1].n = sent + 1
      BY <2>2, <2>3, AfterSend
    <2>5. held[target] = {} /\ \A k \in InFlight : replies[k].slot # target
      BY <2>1 DEF OneOwner
    <2>6. content'[target] = sent + 1 /\ \A s \in Slots : s # target => content'[s] = content[s]
      BY <2>1, <2>2 DEF TypeOK
    <2>7. GuardShowsItsFrame'
      BY <2>2, <2>5, <2>6 DEF Contents, GuardShowsItsFrame
    <2>8. ASSUME NEW k \in InFlight
          PROVE  content'[replies'[k].slot] = replies'[k].n /\ replies'[k].n <= sent'
      <3>1. content'[replies'[k].slot] = replies'[k].n
        BY <1>k, <2>4, <2>5, <2>6 DEF Contents
      <3>2. replies[k].n \in Nat /\ sent \in Nat
        BY InFlightSlots, BoundsAssumption DEF TypeOK
      <3>3. replies[k].n <= sent /\ replies'[k] = replies[k]
        BY <2>4 DEF Contents
      <3>4. sent' = sent + 1
        BY <2>2
      <3>5. \A n, m \in Nat : n <= m => n <= m + 1
        OBVIOUS
      <3> QED
        BY <3>1, <3>2, <3>3, <3>4, <3>5
    <2>9. content'[target] = sent + 1 /\ sent + 1 <= sent'
      BY <2>1, <2>2, <2>6
    <2> QED
      BY <2>4, <2>7, <2>8, <2>9 DEF Contents
  <1>4. CASE Finish /\ UNCHANGED <<parentVars, stopping, timeVars>>
    <2>1. \A type \in {"end", "error"} : \A n \in 0..Frames :
            Reply(type, NoSlot, n) \in ReplySet /\ Reply(type, NoSlot, n).type # "frame"
      BY DEF Reply, ReplySet
    <2>2. sent \in 0..Frames /\ 0 \in 0..Frames
      BY BoundsAssumption DEF TypeOK
    <2>3. PICK e \in ReplySet : e.type # "frame" /\ replies' = Append(replies, e)
      BY <1>4, <2>1, <2>2 DEF Finish
    <2>4. UNCHANGED <<content, held, promise, sent>>
      BY <1>4 DEF Finish
    <2> QED
      BY <1>m, <2>3, <2>4, AfterSend
  <1>5. CASE Receive /\ UNCHANGED workerVars
    <2>1. replies # <<>> /\ replies' = Tail(replies) /\ UNCHANGED <<content, sent>>
      BY <1>5 DEF Receive
    <2>2. \A k \in InFlight' : k + 1 \in InFlight /\ replies'[k] = replies[k + 1]
      BY <2>1, AfterReceive
    <2>3. \A k \in InFlight' : content'[replies'[k].slot] = replies'[k].n /\ replies'[k].n <= sent'
      BY <2>1, <2>2 DEF Contents
    <2>4. GuardShowsItsFrame'
      <3>1. CASE ReceiveOther
        BY <2>1, <3>1 DEF ReceiveOther, Contents, GuardShowsItsFrame
      <3>2. CASE ReceiveFrame
        <4>1. /\ content[Head(replies).slot] = Head(replies).n
              /\ Head(replies).slot \in Slots
          BY <2>1, <3>2, <1>k, AfterReceive DEF ReceiveFrame, Contents
        <4> QED
          BY <2>1, <3>2, <4>1 DEF ReceiveFrame, Contents, GuardShowsItsFrame, TypeOK
      <3> QED
        BY <1>5, <3>1, <3>2 DEF Receive
    <2> QED
      BY <2>3, <2>4 DEF Contents
  <1>6. ASSUME NEW r \in Readers, NEW s \in Slots, ReaderDrops(r, s), UNCHANGED workerVars
        PROVE  Contents'
    BY <1>6 DEF ReaderDrops, Contents, GuardShowsItsFrame, InFlight, TypeOK
  <1>7. ASSUME UNCHANGED <<content, held, promise, replies, sent>>
        PROVE  Contents'
    BY <1>7 DEF Contents, GuardShowsItsFrame, InFlight
  <1>8. ASSUME NEW s \in Slots,
               \/ TakeFreed(s) /\ UNCHANGED <<parentVars, stopping, timeVars>>
               \/ Forward(s) /\ UNCHANGED workerVars
        PROVE  Contents'
    BY <1>7, <1>8 DEF TakeFreed, Forward
  <1>9. CASE \/ Break /\ UNCHANGED <<parentVars, stopping, timeVars>>
             \/ Exit /\ UNCHANGED <<parentVars, stopping, timeVars>>
             \/ Call /\ UNCHANGED workerVars
             \/ GiveUp /\ UNCHANGED workerVars
             \/ Drop /\ UNCHANGED workerVars
             \/ Tick
             \/ UNCHANGED vars
    BY <1>7, <1>9 DEF Break, Exit, Call, GiveUp, Drop, Tick
  <1> QED
    BY StepCases, <1>1, <1>2, <1>3, <1>4, <1>5, <1>6, <1>8, <1>9

(* A clean end stays complete.                                             *)
LEMMA CompleteStep ==
  ASSUME IInv, [Next]_vars
  PROVE  Complete'
  <1> USE DEF vars, workerVars, parentVars, timeVars
  <1> TypeOK /\ Order /\ Complete
    BY DEF IInv
  <1>1. CASE Receive /\ UNCHANGED workerVars
    <2>1. /\ replies # <<>> /\ Listens
          /\ ReceiveFrame \/ ReceiveOther
      BY <1>1 DEF Receive, Listening, Listens
    <2>2. CASE ReceiveFrame
      BY <2>2 DEF ReceiveFrame, Complete
    <2>3. CASE ReceiveOther
      <3>1. /\ Len(replies) \in Nat \ {0} /\ Head(replies) = replies[1] /\ replies[1] \in ReplySet
        BY <2>1, TailFacts DEF TypeOK
      <3>2. CASE Head(replies).type = "end"
        <4>1. /\ sent = Frames /\ sent = delivered + 1 - 1 - Opening
              /\ session # "opening"
          BY <2>1, <3>1, <3>2 DEF Order
        <4> QED
          BY <2>3, <4>1 DEF ReceiveOther, Complete, Opening, TypeOK
      <3>3. CASE Head(replies).type \in {"started", "error"}
        BY <2>3, <3>3 DEF ReceiveOther, Complete
      <3> QED
        BY <2>3, <3>1, <3>2, <3>3, ReplyFacts DEF ReceiveOther
    <2> QED
      BY <2>1, <2>2, <2>3
  <1>2. ASSUME UNCHANGED <<session, delivered>>
        PROVE  Complete'
    BY <1>2 DEF Complete
  <1>3. ASSUME NEW s \in Slots,
               \/ TakeFreed(s) /\ UNCHANGED <<parentVars, stopping, timeVars>>
               \/ Acquire(s) /\ UNCHANGED <<parentVars, stopping, timeVars>>
               \/ Forward(s) /\ UNCHANGED workerVars
        PROVE  Complete'
    BY <1>2, <1>3 DEF Forward
  <1>4. ASSUME NEW r \in Readers, NEW s \in Slots, ReaderDrops(r, s)
        PROVE  Complete'
    BY <1>2, <1>4 DEF ReaderDrops
  <1>5. CASE (GiveUp \/ Drop) /\ UNCHANGED workerVars
    BY <1>5 DEF GiveUp, Drop, Complete
  <1>6. CASE \/ UNCHANGED <<parentVars, stopping, timeVars>>
             \/ Call
             \/ Tick
             \/ UNCHANGED vars
    BY <1>2, <1>6 DEF Call, Tick
  <1> QED
    BY StepCases, <1>1, <1>3, <1>4, <1>5, <1>6

(* The messages on their way keep following on what was delivered.         *)
LEMMA OrderStep ==
  ASSUME IInv, [Next]_vars
  PROVE  Order'
  <1> USE DEF vars, workerVars, parentVars, timeVars
  <1> TypeOK /\ Ready /\ Order
    BY DEF IInv
  <1>0. /\ sent \in Nat /\ delivered \in Nat /\ Len(replies) \in Nat /\ Opening \in {0, 1}
        /\ \A k \in 1..Len(replies) : /\ replies[k] \in ReplySet
                                     /\ replies[k].type \in {"started", "frame", "end", "error"}
        /\ Frames \in Nat
    BY BoundsAssumption, ReplyFacts, SMTT(40) DEF TypeOK, Opening
  <1>n. sent \in Nat /\ delivered \in Nat /\ Len(replies) \in Nat /\ Opening \in {0, 1}
    BY <1>0
  <1>1. CASE Start /\ UNCHANGED <<parentVars, stopping, timeVars>>
    <2>1. /\ worker = "opening" /\ worker' = "decoding"
          /\ replies' = Append(replies, Reply("started", NoSlot, 0))
          /\ UNCHANGED <<sent, session, delivered>>
      BY <1>1 DEF Start
    <2>2. ~Listens => Order'
      BY <2>1 DEF Order, Listens
    <2>3. CASE Listens
      <3>1. session = "opening" /\ replies = <<>> /\ sent = 0 /\ delivered = 0
        BY <2>1, <2>3 DEF Order, Listens
      <3>2. Len(replies') = 1 /\ replies'[1] = Reply("started", NoSlot, 0)
        BY <2>1, <3>1
      <3>3. replies'[1].type = "started"
        BY <3>2 DEF Reply
      <3> QED
        BY <2>1, <3>1, <3>2, <3>3 DEF Order, Listens, Opening
    <2> QED
      BY <2>2, <2>3
  <1>2. CASE Announce /\ UNCHANGED <<parentVars, stopping, timeVars>>
    <2> DEFINE e == Reply("frame", target, sent + 1)
    <2>1. /\ worker = "writing" /\ worker' = "decoding" /\ sent' = sent + 1
          /\ replies' = Append(replies, e)
          /\ UNCHANGED <<session, delivered>>
      BY <1>2 DEF Announce
    <2>2. e.type = "frame" /\ e.n = sent + 1 /\ e \in ReplySet
      BY <2>1, BoundsAssumption DEF Reply, ReplySet, Ready, TypeOK
    <2> HIDE DEF e
    <2>3. /\ Len(replies') = Len(replies) + 1
          /\ \A k \in 1..Len(replies) : replies'[k] = replies[k]
          /\ replies'[Len(replies) + 1] = e
      BY <2>1, <2>2, AppendFacts DEF TypeOK
    <2>4. ~Listens => Order'
      BY <2>1 DEF Order, Listens
    <2>5. CASE Listens
      <3>1. /\ sent = delivered + Len(replies) - Opening /\ Opening' = Opening /\ Listens'
            /\ \A k \in 1..Len(replies) : replies[k].type \notin {"end", "error"}
        BY <2>1, <2>5 DEF Order, Listens, Opening
      <3>2. session = "opening" => 1 \in 1..Len(replies) /\ replies'[1].type \in {"started", "error"}
        <4>1. SUFFICES ASSUME session = "opening"
                       PROVE  1 \in 1..Len(replies) /\ replies'[1].type \in {"started", "error"}
          OBVIOUS
        <4>2. Len(replies) >= 1
          BY <1>0, <3>1, <4>1 DEF Order, Opening
        <4>3. 1 \in 1..Len(replies) /\ replies # <<>>
          BY <1>0, <4>2
        <4> QED
          BY <2>3, <2>5, <4>1, <4>3 DEF Order
      <3>3. ASSUME NEW k \in 1..Len(replies')
            PROVE  /\ replies'[k].type = "started" => session = "opening" /\ k = 1
                   /\ replies'[k].type = "frame" => replies'[k].n = delivered + k - Opening
                   /\ replies'[k].type \notin {"end", "error"}
        <4>1. CASE k \in 1..Len(replies)
          BY <2>3, <2>5, <3>1, <4>1 DEF Order
        <4>2. CASE k = Len(replies) + 1
          BY <1>0, <2>2, <2>3, <3>1, <4>2
        <4> QED
          BY <1>0, <2>3, <4>1, <4>2
      <3>4. sent' = delivered + Len(replies') - Opening
        BY <1>0, <2>1, <2>3, <3>1
      <3> QED
        BY <2>1, <3>1, <3>2, <3>3, <3>4 DEF Order
    <2> QED
      BY <2>4, <2>5
  <1>3. CASE Finish /\ UNCHANGED <<parentVars, stopping, timeVars>>
    <2>1. PICK e \in ReplySet :
            /\ replies' = Append(replies, e)
            /\ \/ e.type = "error" /\ worker \in {"opening", "decoding"}
               \/ e.type = "end" /\ sent = Frames /\ worker = "decoding"
      <3>1. /\ Reply("end", NoSlot, sent) \in ReplySet /\ Reply("end", NoSlot, sent).type = "end"
            /\ Reply("error", NoSlot, 0) \in ReplySet /\ Reply("error", NoSlot, 0).type = "error"
        BY <1>0 DEF Reply, ReplySet, TypeOK
      <3> QED
        BY <1>3, <3>1 DEF Finish
    <2>2. worker' = "idle" /\ UNCHANGED <<sent, session, delivered>>
      BY <1>3 DEF Finish
    <2>3. /\ Len(replies') = Len(replies) + 1
          /\ \A k \in 1..Len(replies) : replies'[k] = replies[k]
          /\ replies'[Len(replies) + 1] = e
      BY <2>1, AppendFacts DEF TypeOK
    <2>4. ~Listens => Order'
      BY <2>2 DEF Order, Listens
    <2>5. CASE Listens
      <3>1. /\ Opening' = Opening /\ Listens'
            /\ \A k \in 1..Len(replies) : replies[k].type \notin {"end", "error"}
        BY <2>1, <2>2, <2>5 DEF Order, Listens, Opening
      <3>2. worker = "decoding" => sent = delivered + Len(replies) - Opening
        BY <2>5 DEF Order
      <3>3. session = "opening" => replies'[1].type \in {"started", "error"}
        <4>1. SUFFICES ASSUME session = "opening" PROVE replies'[1].type \in {"started", "error"}
          OBVIOUS
        <4>2. CASE replies = <<>>
          <5>1. e.type = "error"
            BY <1>0, <2>1, <3>2, <4>1, <4>2 DEF Order, Opening
          <5> QED
            BY <2>3, <4>2, <5>1
        <4>3. CASE replies # <<>>
          <5>1. 1 \in 1..Len(replies)
            BY <4>3, TailFacts DEF TypeOK
          <5> QED
            BY <2>3, <2>5, <4>1, <4>3, <5>1 DEF Order
        <4> QED
          BY <4>2, <4>3
      <3>4. ASSUME NEW k \in 1..Len(replies')
            PROVE  /\ replies'[k].type = "started" => session = "opening" /\ k = 1
                   /\ replies'[k].type = "frame" => replies'[k].n = delivered + k - Opening
                   /\ replies'[k].type \in {"end", "error"} => k = Len(replies')
                   /\ replies'[k].type = "end" => sent = Frames /\ sent = delivered + k - 1 - Opening
        <4>1. CASE k \in 1..Len(replies)
          BY <2>3, <2>5, <3>1, <4>1 DEF Order
        <4>2. CASE k = Len(replies) + 1
          BY <1>0, <2>1, <2>3, <3>2, <4>2
        <4> QED
          BY <1>0, <2>3, <4>1, <4>2
      <3> QED
        BY <2>2, <3>1, <3>3, <3>4, <2>5 DEF Order
    <2> QED
      BY <2>4, <2>5
  <1>4. CASE Receive /\ UNCHANGED workerVars
    <2>1. /\ Listens /\ replies # <<>> /\ replies' = Tail(replies)
          /\ ReceiveFrame \/ ReceiveOther
          /\ UNCHANGED <<worker, sent>>
      BY <1>4 DEF Receive, Listening, Listens
    <2>2. /\ Len(replies) \in Nat \ {0} /\ Head(replies) = replies[1] /\ replies[1] \in ReplySet
          /\ Len(replies') = Len(replies) - 1
          /\ \A k \in 1..Len(replies') : replies'[k] = replies[k + 1] /\ k + 1 \in 1..Len(replies)
          /\ 1 \in 1..Len(replies)
      BY <2>1, TailFacts DEF TypeOK
    <2>3. worker # "opening"
      BY <2>1, <2>2 DEF Order
    <2>4. CASE Head(replies).type \in {"end", "error"}
      <3>1. ~Listens' /\ session' # "opening"
        BY <2>1, <2>4 DEF ReceiveFrame, ReceiveOther, Listens
      <3> QED
        BY <2>1, <2>3, <3>1 DEF Order
    <2>5. CASE Head(replies).type \in {"started", "frame"}
      <3>1. session' = "open" /\ Listens' /\ Opening' = 0
        BY <2>1, <2>5 DEF ReceiveFrame, ReceiveOther, Listens, Opening
      <3>2. delivered' = delivered + 1 - Opening
        <4>1. CASE Head(replies).type = "started"
          <5>1. session = "opening" /\ delivered' = delivered
            BY <2>1, <2>2, <4>1 DEF ReceiveFrame, ReceiveOther, Order
          <5> QED
            BY <1>0, <5>1 DEF Opening
        <4>2. CASE Head(replies).type = "frame"
          <5>1. session = "open" /\ delivered' = replies[1].n
            BY <2>1, <2>2, <4>2 DEF ReceiveFrame, ReceiveOther
          <5>2. replies[1].n = delivered + 1 - Opening
            BY <2>1, <2>2, <4>2 DEF Order
          <5> QED
            BY <5>1, <5>2
        <4> QED
          BY <2>5, <4>1, <4>2
      <3>3. delivered' = delivered + 1 - Opening /\ delivered' \in Nat
        BY <1>0, <3>2
      <3>4. worker \in {"decoding", "writing"} => sent = delivered' + Len(replies')
        <4>1. worker \in {"decoding", "writing"} => sent = delivered + Len(replies) - Opening
          BY <2>1 DEF Order
        <4>2. Len(replies') = Len(replies) - 1
          BY <2>2
        <4> QED
          BY <1>n, <3>3, <4>1, <4>2
      <3>5. ASSUME NEW k \in 1..Len(replies')
            PROVE  /\ replies'[k].type # "started"
                   /\ replies'[k].type = "frame" => replies'[k].n = delivered' + k
                   /\ replies'[k].type \in {"end", "error"} =>
                        k = Len(replies') /\ worker \notin {"opening", "decoding", "writing"}
                   /\ replies'[k].type = "end" => sent = Frames /\ sent = delivered' + k - 1
        <4>1. k \in Nat \ {0} /\ k + 1 \in 1..Len(replies) /\ replies'[k] = replies[k + 1]
          BY <2>2
        <4>2. /\ replies[k + 1].type = "started" => k + 1 = 1
              /\ replies[k + 1].type = "frame" => replies[k + 1].n = delivered + (k + 1) - Opening
              /\ replies[k + 1].type \in {"end", "error"} =>
                   k + 1 = Len(replies) /\ worker \notin {"opening", "decoding", "writing"}
              /\ replies[k + 1].type = "end" =>
                   sent = Frames /\ sent = delivered + (k + 1) - 1 - Opening
          BY <2>1, <4>1 DEF Order
        <4> QED
          BY <1>0, <2>2, <3>3, <4>1, <4>2
      <3>6. worker' = worker /\ sent' = sent /\ 1..Len(replies') \subseteq Nat
        <4>1. worker' = worker /\ sent' = sent
          BY <2>1
        <4>2. 1..Len(replies') \subseteq Nat
          OBVIOUS
        <4> QED
          BY <4>1, <4>2
      <3>7. \A k \in 1..Len(replies') :
              /\ replies'[k].type = "started" => session' = "opening" /\ k = 1
              /\ replies'[k].type = "frame" => replies'[k].n = delivered' + k - Opening'
              /\ replies'[k].type \in {"end", "error"} =>
                   k = Len(replies') /\ worker' \notin {"opening", "decoding", "writing"}
              /\ replies'[k].type = "end" => sent' = Frames /\ sent' = delivered' + k - 1 - Opening'
        <4> TAKE k \in 1..Len(replies')
        <4>1. k \in Nat /\ delivered' + k - Opening' = delivered' + k
                       /\ delivered' + k - 1 - Opening' = delivered' + k - 1
          BY <3>1, <3>3, <3>6
        <4>2. /\ replies'[k].type # "started"
              /\ replies'[k].type = "frame" => replies'[k].n = delivered' + k
              /\ replies'[k].type \in {"end", "error"} =>
                   k = Len(replies') /\ worker \notin {"opening", "decoding", "writing"}
              /\ replies'[k].type = "end" => sent = Frames /\ sent = delivered' + k - 1
          BY <3>5
        <4> QED
          BY <3>6, <4>1, <4>2
      <3>8. worker' \in {"decoding", "writing"} => sent' = delivered' + Len(replies') - Opening'
        BY <3>1, <3>3, <3>4, <3>6
      <3> QED
        BY <2>3, <3>1, <3>6, <3>7, <3>8 DEF Order
    <2> QED
      BY <2>1, <2>2, <2>4, <2>5, ReplyFacts
  <1>5. ASSUME UNCHANGED <<session, delivered, sent, replies>>,
               \/ worker' = worker
               \/ worker' = "writing" /\ worker = "decoding"
               \/ worker' \in {"hung", "dead"}
        PROVE  Order'
    BY <1>5 DEF Order, Listens, Opening
  <1>6. ASSUME NEW s \in Slots,
               \/ TakeFreed(s) /\ UNCHANGED <<parentVars, stopping, timeVars>>
               \/ Acquire(s) /\ UNCHANGED <<parentVars, stopping, timeVars>>
               \/ Forward(s) /\ UNCHANGED workerVars
        PROVE  Order'
    BY <1>5, <1>6 DEF TakeFreed, Acquire, Forward
  <1>7. CASE (Break \/ Exit) /\ UNCHANGED <<parentVars, stopping, timeVars>>
    BY <1>5, <1>7 DEF Break, Exit
  <1>8. ASSUME NEW r \in Readers, NEW s \in Slots, ReaderDrops(r, s), UNCHANGED workerVars
        PROVE  Order'
    BY <1>5, <1>8 DEF ReaderDrops
  <1>9. CASE (GiveUp \/ Drop) /\ UNCHANGED workerVars
    BY <1>9 DEF GiveUp, Drop, Order, Listens
  <1>10. CASE (Call /\ UNCHANGED workerVars) \/ Tick \/ UNCHANGED vars
    BY <1>5, <1>10 DEF Call, Tick
  <1> QED
    BY StepCases, <1>1, <1>2, <1>3, <1>4, <1>6, <1>7, <1>8, <1>9, <1>10

(* No slot drops out of circulation while the session runs.                *)
LEMMA NothingLostStep ==
  ASSUME IInv, [Next]_vars
  PROVE  NothingLost'
  <1> USE DEF vars, workerVars, parentVars, timeVars
  <1> TypeOK /\ Ready /\ OneOwner /\ NothingLost
    BY DEF IInv
  <1>0. \A s \in Slots : free[s] \in Nat /\ freed[s] \in Nat /\ released[s] \in Nat
    BY DEF TypeOK
  <1>k. \A k \in InFlight : replies[k].slot \in Slots
    BY InFlightSlots
  <1>m. ASSUME UNCHANGED <<free, freed, released, held, target, session, caller>>,
               \A k \in InFlight : k \in InFlight' /\ replies'[k] = replies[k]
        PROVE  NothingLost'
    BY <1>m DEF NothingLost, Loose, Listens
  <1>1. CASE Start /\ UNCHANGED <<parentVars, stopping, timeVars>>
    <2>1. Reply("started", NoSlot, 0) \in ReplySet /\ Reply("started", NoSlot, 0).type # "frame"
      BY BoundsAssumption DEF Reply, ReplySet
    <2> QED
      BY <1>1, <1>m, <2>1, AfterSend DEF Start
  <1>2. CASE Finish /\ UNCHANGED <<parentVars, stopping, timeVars>>
    <2>1. \A type \in {"end", "error"} : \A n \in 0..Frames :
            Reply(type, NoSlot, n) \in ReplySet /\ Reply(type, NoSlot, n).type # "frame"
      BY DEF Reply, ReplySet
    <2>2. sent \in 0..Frames /\ 0 \in 0..Frames
      BY BoundsAssumption DEF TypeOK
    <2>3. PICK e \in ReplySet : e.type # "frame" /\ replies' = Append(replies, e)
      BY <1>2, <2>1, <2>2 DEF Finish
    <2>4. UNCHANGED <<free, freed, released, held, target, session, caller>>
      BY <1>2 DEF Finish
    <2> QED
      BY <1>m, <2>3, <2>4, AfterSend
  <1>3. ASSUME NEW s \in Slots, TakeFreed(s), UNCHANGED <<parentVars, stopping, timeVars>>
        PROVE  NothingLost'
    <2>1. \A t \in Slots : Loose(t)' = Loose(t)
      BY <1>0, <1>3 DEF TakeFreed, Loose, TypeOK
    <2>2. UNCHANGED <<held, target, replies, session, caller>>
      BY <1>3 DEF TakeFreed
    <2> QED
      BY <2>1, <2>2 DEF NothingLost, InFlight, Listens
  <1>4. ASSUME NEW s \in Slots, Acquire(s), UNCHANGED <<parentVars, stopping, timeVars>>
        PROVE  NothingLost'
    <2>1. \A t \in Slots : t # s => Loose(t)' = Loose(t)
      BY <1>0, <1>4 DEF Acquire, Loose, TypeOK
    <2>2. target' = s /\ target = NoSlot /\ UNCHANGED <<held, replies, session, caller>>
      BY <1>4 DEF Acquire, Ready
    <2>3. NoSlot \notin Slots
      BY DEF NoSlot, Slots
    <2> QED
      BY <2>1, <2>2, <2>3 DEF NothingLost, InFlight, Listens
  <1>5. CASE Announce /\ UNCHANGED <<parentVars, stopping, timeVars>>
    <2>1. target \in Slots /\ sent + 1 \in 1..Frames
      BY <1>5, BoundsAssumption DEF Announce, Ready, TypeOK
    <2>2. /\ replies' = Append(replies, Reply("frame", target, sent + 1))
          /\ UNCHANGED <<held, session, caller, free, freed, released>>
      BY <1>5 DEF Announce
    <2>3. /\ Reply("frame", target, sent + 1) \in ReplySet
          /\ Reply("frame", target, sent + 1).type = "frame"
          /\ Reply("frame", target, sent + 1).slot = target
      BY <2>1 DEF Reply, ReplySet
    <2>4. /\ InFlight' = InFlight \cup {Len(replies) + 1}
          /\ \A k \in InFlight : replies'[k] = replies[k]
          /\ replies'[Len(replies) + 1].slot = target
      BY <2>2, <2>3, AfterSend
    <2>5. \A t \in Slots : Loose(t)' = Loose(t)
      BY <2>2 DEF Loose
    <2> QED
      BY <2>2, <2>4, <2>5 DEF NothingLost, Listens
  <1>6. ASSUME NEW s \in Slots, Forward(s), UNCHANGED workerVars
        PROVE  NothingLost'
    <2>1. CASE worker = "dead"
      BY <1>6, <2>1 DEF Forward, NothingLost
    <2>2. CASE worker # "dead"
      <3>1. \A t \in Slots : Loose(t)' = Loose(t)
        <4>1. /\ released' = [released EXCEPT ![s] = @ - 1]
              /\ freed' = [freed EXCEPT ![s] = @ + 1]
              /\ UNCHANGED free
          BY <1>6, <2>2 DEF Forward
        <4> QED
          BY <1>0, <4>1 DEF Loose, TypeOK
      <3>2. UNCHANGED <<held, target, replies, session, caller>>
        BY <1>6, <2>2 DEF Forward
      <3> QED
        BY <3>1, <3>2 DEF NothingLost, InFlight, Listens
    <2> QED
      BY <2>1, <2>2
  <1>7. CASE Receive /\ UNCHANGED workerVars
    <2>1. /\ replies # <<>> /\ replies' = Tail(replies) /\ Listens /\ caller = "waiting"
          /\ UNCHANGED <<free, freed, target>>
      BY <1>7 DEF Receive, Listening, Listens
    <2>2. /\ Head(replies) = replies[1]
          /\ 1 \in InFlight <=> Head(replies).type = "frame"
          /\ \A k \in InFlight : k # 1 => k - 1 \in InFlight' /\ replies'[k - 1] = replies[k]
      BY <2>1, AfterReceive
    <2>3. CASE ReceiveOther
      <3>1. UNCHANGED <<held, released>> /\ 1 \notin InFlight
        BY <2>2, <2>3 DEF ReceiveOther
      <3>2. \A t \in Slots : Loose(t)' = Loose(t)
        BY <2>1, <3>1 DEF Loose
      <3> HIDE <2>1
      <3>3. UNCHANGED target /\ Listens /\ caller # "error"
        BY <2>1
      <3> QED
        BY <2>2, <3>1, <3>2, <3>3 DEF NothingLost
    <2>4. CASE ReceiveFrame
      <3>1. 1 \in InFlight /\ replies[1].slot \in Slots
        BY <1>k, <2>2, <2>4 DEF ReceiveFrame
      <3>2. PICK s \in Slots : s = replies[1].slot
        BY <3>1
      <3>3. Loose(s) = 0
        BY <3>1, <3>2 DEF OneOwner
      <3>4. free[s] = 0 /\ freed[s] = 0 /\ released[s] = 0
        BY <3>3, NotLoose
      <3>5. PICK rs \in SUBSET Readers :
              /\ held' = [held EXCEPT ![s] = rs]
              /\ released' = IF rs = {} THEN [released EXCEPT ![s] = @ + 1] ELSE released
        BY <2>2, <2>4, <3>2 DEF ReceiveFrame
      <3>6. held'[s] = rs /\ Loose(s)' = IF rs = {} THEN 1 ELSE 0
        BY <2>1, <3>4, <3>5 DEF Loose, TypeOK
      <3>7. \A t \in Slots : t # s => held'[t] = held[t] /\ Loose(t)' = Loose(t)
        BY <2>1, <3>5 DEF Loose, TypeOK
      <3>8. UNCHANGED target /\ Listens /\ caller # "error"
        BY <2>1
      <3>9. ASSUME NEW t \in Slots, t # s
            PROVE  \/ Loose(t)' = 1 \/ held'[t] # {} \/ target' = t
                   \/ \E k \in InFlight' : replies'[k].slot = t
        BY <2>2, <3>2, <3>7, <3>8, <3>9 DEF NothingLost
      <3> QED
        BY <3>6, <3>9 DEF NothingLost
    <2> QED
      BY <1>7, <2>3, <2>4 DEF Receive
  <1>8. ASSUME NEW r \in Readers, NEW s \in Slots, ReaderDrops(r, s), UNCHANGED workerVars
        PROVE  NothingLost'
    <2>1. CASE held[s] = {r} /\ session # "dropped"
      <3>1. Loose(s) = 0
        <4>1. Loose(s) \in Nat
          BY NotLoose
        <4>2. held[s] # {}
          BY <2>1
        <4>3. Loose(s) <= 1 /\ Loose(s) # 1
          BY <4>2 DEF OneOwner
        <4> QED
          BY <4>1, <4>3
      <3>2. free[s] = 0 /\ freed[s] = 0 /\ released[s] = 0
        BY <3>1, NotLoose
      <3>3. released' = [released EXCEPT ![s] = @ + 1] /\ held' = [held EXCEPT ![s] = @ \ {r}]
        BY <1>8, <2>1 DEF ReaderDrops
      <3>4. UNCHANGED <<free, freed, target, replies, session, caller>>
        BY <1>8 DEF ReaderDrops
      <3>5. Loose(s)' = 1
        BY <3>2, <3>3, <3>4 DEF Loose, TypeOK
      <3>6. \A t \in Slots : t # s => held'[t] = held[t] /\ Loose(t)' = Loose(t)
        BY <3>3, <3>4 DEF Loose, TypeOK
      <3> QED
        BY <3>4, <3>5, <3>6 DEF NothingLost, InFlight, Listens
    <2>2. CASE held[s] # {r} /\ session # "dropped"
      <3>1. UNCHANGED <<free, freed, released, target, replies, session, caller>>
        BY <1>8, <2>2 DEF ReaderDrops
      <3>2. \A t \in Slots : held[t] # {} => held'[t] # {}
        BY <1>8, <2>2 DEF ReaderDrops, TypeOK
      <3>3. \A t \in Slots : Loose(t)' = Loose(t)
        BY <3>1 DEF Loose
      <3> QED
        BY <3>1, <3>2, <3>3 DEF NothingLost, InFlight, Listens
    <2>3. CASE session = "dropped"
      BY <1>8, <2>3 DEF ReaderDrops, NothingLost, Listens
    <2> QED
      BY <2>1, <2>2, <2>3
  <1>9. CASE (GiveUp \/ Drop) /\ UNCHANGED workerVars
    BY <1>9 DEF GiveUp, Drop, NothingLost, Listens
  <1>10. CASE Call /\ UNCHANGED workerVars
    <2>1. UNCHANGED <<free, freed, released, held, target, replies, session>> /\ caller = "busy"
      BY <1>10 DEF Call
    <2>2. \A t \in Slots : Loose(t)' = Loose(t)
      BY <2>1 DEF Loose
    <2> QED
      BY <2>1, <2>2 DEF NothingLost, InFlight, Listens
  <1>11. CASE \/ (Break \/ Exit) /\ UNCHANGED <<parentVars, stopping, timeVars>>
              \/ Tick
              \/ UNCHANGED vars
    <2>1. UNCHANGED <<free, freed, released, held, target, session, caller, replies>>
      BY <1>11 DEF Break, Exit, Tick
    <2>2. \A k \in InFlight : k \in InFlight' /\ replies'[k] = replies[k]
      BY <2>1 DEF InFlight
    <2> QED
      BY <1>m, <2>1, <2>2
  <1> QED
    BY StepCases, <1>1, <1>2, <1>3, <1>4, <1>5, <1>6, <1>7, <1>8, <1>9, <1>10, <1>11

-----------------------------------------------------------------------------
(* The inductive invariant holds in every reachable state.                 *)
LEMMA Inductive == Spec => []IInv
  <1>1. IInv /\ [Next]_vars => IInv'
    BY TypeStep, ReadyStep, OwnerStep, ContentsStep, OrderStep, CompleteStep, NothingLostStep
    DEF IInv
  <1> QED
    BY InitInvariant, <1>1, PTL DEF Spec

(* Every variable keeps its type (the decode session of client.rs and      *)
(* worker.rs).                                                             *)
THEOREM SessionTypeCorrect == Spec => []TypeOK
  BY Inductive, PTL DEF IInv

(* The ownership protocol of shm.rs works: a slot has one owner at a time. *)
THEOREM SlotsHaveOneOwner == Spec => []OneOwner
  BY Inductive, PTL DEF IInv

(* A reader never sees a torn or a later frame through its SlotGuard.      *)
THEOREM GuardsShowTheirFrames == Spec => []GuardShowsItsFrame
  BY Inductive, PTL DEF IInv, Contents

(* No slot leaves circulation while a session runs, so that the worker     *)
(* cannot run out of slots its parent is done with.                        *)
THEOREM SlotsComeBack == Spec => []NoSlotIsLost
  <1>1. IInv => NoSlotIsLost
    BY DEF IInv, NothingLost, NoSlotIsLost, Listens
  <1> QED
    BY Inductive, <1>1, PTL

(* A stream that ended cleanly delivered every frame of the request.       *)
THEOREM CleanEndsAreComplete == Spec => []CleanEndIsComplete
  <1>1. IInv => CleanEndIsComplete
    BY DEF IInv, Complete, CleanEndIsComplete
  <1> QED
    BY Inductive, <1>1, PTL

-----------------------------------------------------------------------------
(* Frames in order, each once, and an end only after all of them: the      *)
(* session implements ItemStream.                                          *)
THEOREM SessionImplementsStream == Spec => FramesAreAStream
  <1>1. Init => Stream!Init
    BY DEF Init, Stream!Init
  <1>2. IInv /\ [Next]_vars => [Stream!Next]_(Stream!vars)
    <2> SUFFICES ASSUME IInv, [Next]_vars
                 PROVE  [Stream!Next]_(Stream!vars)
      OBVIOUS
    <2> USE DEF vars, workerVars, parentVars, timeVars
    <2> TypeOK /\ Order /\ Contents
      BY DEF IInv
    <2>u. ASSUME UNCHANGED <<sent, delivered, session>>,
                 worker \in {"opening", "decoding", "writing"}
                   <=> worker' \in {"opening", "decoding", "writing"}
          PROVE  UNCHANGED Stream!vars
      BY <2>u DEF Stream!vars
    <2>1. CASE Announce /\ UNCHANGED <<parentVars, stopping, timeVars>>
      BY <2>1 DEF Announce, Stream!Next, Stream!Send
    <2>2. CASE (Finish \/ Break) /\ UNCHANGED <<parentVars, stopping, timeVars>>
      BY <2>2 DEF Finish, Break, Stream!Next, Stream!Close
    <2>3. CASE Exit /\ UNCHANGED <<parentVars, stopping, timeVars>>
      BY <2>3 DEF Exit, Stream!Next, Stream!Close, Stream!vars
    <2>4. CASE Start /\ UNCHANGED <<parentVars, stopping, timeVars>>
      BY <2>4, <2>u DEF Start
    <2>5. ASSUME NEW s \in Slots,
                 \/ TakeFreed(s) /\ UNCHANGED <<parentVars, stopping, timeVars>>
                 \/ Acquire(s) /\ UNCHANGED <<parentVars, stopping, timeVars>>
                 \/ Forward(s) /\ UNCHANGED workerVars
          PROVE  [Stream!Next]_(Stream!vars)
      BY <2>5, <2>u DEF TakeFreed, Acquire, Forward
    <2>6. CASE (Call /\ UNCHANGED workerVars) \/ Tick \/ UNCHANGED vars
      BY <2>6, <2>u DEF Call, Tick
    <2>7. ASSUME NEW r \in Readers, NEW s \in Slots, ReaderDrops(r, s), UNCHANGED workerVars
          PROVE  [Stream!Next]_(Stream!vars)
      BY <2>7, <2>u DEF ReaderDrops
    <2>8. CASE (GiveUp \/ Drop) /\ UNCHANGED workerVars
      BY <2>8 DEF GiveUp, Drop, Listening, Stream!Next, Stream!Leave, Stream!vars
    <2>9. CASE Receive /\ UNCHANGED workerVars
      <3>1. /\ Listens /\ replies # <<>> /\ (ReceiveFrame \/ ReceiveOther)
            /\ UNCHANGED <<worker, sent>>
        BY <2>9 DEF Receive, Listening, Listens
      <3>2. /\ Len(replies) \in Nat \ {0} /\ Head(replies) = replies[1] /\ replies[1] \in ReplySet
            /\ 1 \in 1..Len(replies)
        BY <3>1, TailFacts DEF TypeOK
      <3>3. delivered \in Nat /\ sent \in Nat
        BY BoundsAssumption DEF TypeOK
      <3>4. CASE Head(replies).type = "started"
        <4>1. UNCHANGED delivered /\ session = "opening" /\ session' = "open"
          BY <3>1, <3>2, <3>4 DEF Order, ReceiveFrame, ReceiveOther
        <4> QED
          BY <3>1, <4>1 DEF Stream!vars
      <3>5. CASE Head(replies).type = "frame"
        <4>1. session = "open" /\ UNCHANGED session /\ delivered' = replies[1].n
          BY <3>1, <3>2, <3>5 DEF ReceiveFrame, ReceiveOther
        <4>2. replies[1].n = delivered + 1 - 0
          BY <3>1, <3>2, <3>5, <4>1 DEF Order, Opening
        <4>3. replies[1].n <= sent
          BY <3>2, <3>5 DEF Contents, InFlight
        <4> QED
          BY <3>1, <3>3, <4>1, <4>2, <4>3 DEF Stream!Next, Stream!Receive
      <3>6. CASE Head(replies).type = "end"
        <4>1. session' = "ended" /\ UNCHANGED delivered
          BY <3>1, <3>6 DEF ReceiveFrame, ReceiveOther
        <4>2. /\ worker \notin {"opening", "decoding", "writing"}
              /\ sent = delivered + 1 - 1 - Opening
              /\ session # "opening"
          BY <3>1, <3>2, <3>6 DEF Order
        <4>3. sent = delivered /\ session = "open"
          BY <3>1, <3>3, <4>2 DEF Listens, Opening
        <4> QED
          BY <3>1, <4>1, <4>2, <4>3 DEF Stream!Next, Stream!End
      <3>7. CASE Head(replies).type = "error"
        <4>1. session' = "failed" /\ UNCHANGED delivered
          BY <3>1, <3>7 DEF ReceiveFrame, ReceiveOther
        <4> QED
          BY <3>1, <4>1 DEF Listens, Stream!Next, Stream!Leave
      <3> QED
        BY <3>2, <3>4, <3>5, <3>6, <3>7, ReplyFacts
    <2> QED
      BY StepCases, <2>1, <2>2, <2>3, <2>4, <2>5, <2>6, <2>7, <2>8, <2>9
  <1> QED
    BY Inductive, <1>1, <1>2, PTL DEF Spec, FramesAreAStream

(* Every session is sound, for any number of slots, frames and readers.    *)
THEOREM SessionsAreSound == Spec => []SessionIsSound
BY SessionTypeCorrect, SlotsHaveOneOwner, GuardsShowTheirFrames, SlotsComeBack,
   CleanEndsAreComplete, PTL DEF SessionIsSound
=============================================================================
