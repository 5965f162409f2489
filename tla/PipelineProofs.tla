---------------------------- MODULE PipelineProofs ----------------------------
(***************************************************************************)
(* Proofs about an indexing job, for every number of stages, wiring, plan, *)
(* channel capacity and pattern of faults.                                 *)
(*                                                                         *)
(* What an edge has in transit is the heart of the inductive invariant.    *)
(* Last(p, c) is the last item of p that has been put into c's channel:    *)
(* while p is inside Emitter::emit the consumers still to be served are    *)
(* one item behind.  The items of p waiting in the channel of c are then   *)
(* exactly those after got[c][p] up to Last(p, c), in order.  The lemmas   *)
(* about Carries say what putting an item in and taking one out do to it.  *)
(***************************************************************************)
EXTENDS Pipeline, TLAPS

(* The items of p in the queue q are lo + 1, ..., hi, in this order. *)
Carries(q, p, lo, hi) ==
  /\ lo <= hi
  /\ \A j \in 1..Len(q) : q[j][1] = p => lo < q[j][2] /\ q[j][2] <= hi
  /\ \A j, k \in 1..Len(q) :
       j < k /\ q[j][1] = p /\ q[k][1] = p => q[j][2] < q[k][2]
  /\ \A n \in Nat : lo < n /\ n <= hi => \E j \in 1..Len(q) : q[j] = <<p, n>>

Last(p, c) == IF c \in todo[p] THEN emitted[p] - 1 ELSE emitted[p]

InTransit(p, c) == Carries(chan[c], p, got[c][p], Last(p, c))

(* Only an operator that is running has an item half way out. *)
EmitInv ==
  \A s \in Stages :
    /\ todo[s] \subseteq Targets(s)
    /\ todo[s] # {} => pc[s] \in {"run", "finish"} /\ emitted[s] > 0
    /\ pc[s] = "skipped" <=> s \notin Active
    /\ s \notin Active => emitted[s] = 0

(* A live edge has everything in transit. *)
TransitInv ==
  \A p \in Stages : \A c \in Consumers[p] :
    c \in Active /\ ~Gone(c) => InTransit(p, c)

(* A stage that left its receive loop had received everything. *)
EndInv ==
  \A c \in Stages :
    pc[c] = "finish" \/ res[c] = "ok" =>
      \A p \in Producers(c) : /\ p \in Active => Gone(p)
                              /\ got[c][p] = emitted[p]

(* A result is there exactly from the return of run_stage on. *)
ResInv ==
  \A s \in Stages : res[s] # "none" <=> pc[s] \in {"returned", "done"}

(* The report follows the results. *)
JobInv ==
  /\ \A s \in Active : status[s] # "skipped"
  /\ \A s \in Stages : status[s] = "complete" /\ ~live => res[s] = "ok"
  /\ ok => \A s \in Stages : status[s] # "failed"
  /\ report = "finished" => \A s \in Stages : status[s] # "pending"

StageInv == TypeOK /\ EmitInv /\ TransitInv /\ EndInv /\ ResInv

IInv == StageInv /\ JobInv

-----------------------------------------------------------------------------
(* An empty queue carries nothing. *)
LEMMA CarriesNothing ==
  ASSUME NEW p, NEW lo \in Nat, NEW hi \in Int, Carries(<<>>, p, lo, hi)
  PROVE  lo = hi
BY DEF Carries

(* The four parts of Carries, to be used one at a time. *)
LEMMA CarriesParts ==
  ASSUME NEW q, NEW p, NEW lo, NEW hi,
         lo <= hi,
         \A j \in 1..Len(q) : q[j][1] = p => lo < q[j][2] /\ q[j][2] <= hi,
         \A j, k \in 1..Len(q) :
           j < k /\ q[j][1] = p /\ q[k][1] = p => q[j][2] < q[k][2],
         \A n \in Nat : lo < n /\ n <= hi => \E j \in 1..Len(q) : q[j] = <<p, n>>
  PROVE  Carries(q, p, lo, hi)
BY DEF Carries

(* A queued item of p is within the range. *)
LEMMA CarriedBounds ==
  ASSUME NEW q, NEW p, NEW lo, NEW hi, Carries(q, p, lo, hi)
  PROVE  /\ lo <= hi
         /\ \A j \in 1..Len(q) : q[j][1] = p => lo < q[j][2] /\ q[j][2] <= hi
BY DEF Carries

(* Queued items of p are in the order they were emitted. *)
LEMMA CarriedInOrder ==
  ASSUME NEW q, NEW p, NEW lo, NEW hi, Carries(q, p, lo, hi),
         NEW j \in 1..Len(q), NEW k \in 1..Len(q),
         j < k, q[j][1] = p, q[k][1] = p
  PROVE  q[j][2] < q[k][2]
BY DEF Carries

(* Every number in the range is queued. *)
LEMMA CarriedSomewhere ==
  ASSUME NEW q, NEW p, NEW lo, NEW hi, Carries(q, p, lo, hi),
         NEW n \in Nat, lo < n, n <= hi
  PROVE  \E j \in 1..Len(q) : q[j] = <<p, n>>
BY DEF Carries

(* Appending the next item of p. *)
LEMMA CarriesAppend ==
  ASSUME NEW q \in Seq(Item), NEW p \in Stages, NEW lo \in Nat, NEW hi \in Nat,
         Carries(q, p, lo, hi - 1)
  PROVE  Carries(Append(q, <<p, hi>>), p, lo, hi)
<1> DEFINE r == Append(q, <<p, hi>>)
<1>1. /\ Len(r) = Len(q) + 1 /\ r[Len(q) + 1] = <<p, hi>> /\ Len(q) \in Nat
      /\ \A j \in 1..Len(q) : r[j] = q[j]
      /\ \A j \in 1..Len(q) : q[j] \in Item
  OBVIOUS
<1>2. \A j \in 1..Len(q) : q[j][2] \in Nat
  BY <1>1 DEF Item
<1>3. /\ lo <= hi - 1
      /\ \A j \in 1..Len(q) : q[j][1] = p => lo < q[j][2] /\ q[j][2] <= hi - 1
  BY CarriedBounds
<1> HIDE DEF r
<1>4. \A j \in 1..Len(r) : r[j][1] = p => lo < r[j][2] /\ r[j][2] <= hi
  BY <1>1, <1>2, <1>3
<1>5. ASSUME NEW j \in 1..Len(r), NEW k \in 1..Len(r), j < k, r[j][1] = p, r[k][1] = p
      PROVE  r[j][2] < r[k][2]
  <2>1. j \in 1..Len(q) /\ r[j] = q[j]
    BY <1>1, <1>5
  <2>2. CASE k \in 1..Len(q)
    BY <1>1, <1>5, <2>1, <2>2, CarriedInOrder
  <2>3. CASE k = Len(q) + 1
    BY <1>1, <1>2, <1>3, <1>5, <2>1, <2>3
  <2>4. QED
    BY <1>1, <2>2, <2>3
<1>6. ASSUME NEW n \in Nat, lo < n, n <= hi
      PROVE  \E j \in 1..Len(r) : r[j] = <<p, n>>
  <2>1. CASE n = hi
    BY <2>1, <1>1
  <2>2. CASE n # hi
    <3>1. n <= hi - 1
      BY <1>6, <2>2
    <3>2. PICK j \in 1..Len(q) : q[j] = <<p, n>>
      BY <1>6, <3>1, CarriedSomewhere
    <3>3. QED
      BY <3>2, <1>1
  <2>3. QED
    BY <2>1, <2>2
<1>7. lo <= hi
  BY <1>3
<1>8. Carries(r, p, lo, hi)
  BY <1>4, <1>5, <1>6, <1>7, CarriesParts
<1>9. QED
  BY <1>8 DEF r

(* Appending somebody else's item. *)
LEMMA CarriesAppendOther ==
  ASSUME NEW q \in Seq(Item), NEW p, NEW s, NEW n, <<s, n>> \in Item, s # p,
         NEW lo, NEW hi, Carries(q, p, lo, hi)
  PROVE  Carries(Append(q, <<s, n>>), p, lo, hi)
<1> DEFINE r == Append(q, <<s, n>>)
<1>1. /\ Len(r) = Len(q) + 1 /\ r[Len(q) + 1] = <<s, n>> /\ Len(q) \in Nat
      /\ \A j \in 1..Len(q) : r[j] = q[j]
  OBVIOUS
<1> HIDE DEF r
<1>2. \A j \in 1..Len(r) : r[j][1] = p => j \in 1..Len(q) /\ r[j] = q[j]
  BY <1>1
<1>3. lo <= hi /\ \A j \in 1..Len(r) : r[j][1] = p => lo < r[j][2] /\ r[j][2] <= hi
  BY <1>2, CarriedBounds
<1>4. ASSUME NEW j \in 1..Len(r), NEW k \in 1..Len(r), j < k, r[j][1] = p, r[k][1] = p
      PROVE  r[j][2] < r[k][2]
  <2>1. /\ j \in 1..Len(q) /\ r[j] = q[j]
        /\ k \in 1..Len(q) /\ r[k] = q[k]
    BY <1>2, <1>4
  <2>2. QED
    BY <1>4, <2>1, CarriedInOrder
<1>5. ASSUME NEW m \in Nat, lo < m, m <= hi
      PROVE  \E j \in 1..Len(r) : r[j] = <<p, m>>
  <2>1. PICK j \in 1..Len(q) : q[j] = <<p, m>>
    BY <1>5, CarriedSomewhere
  <2>2. QED
    BY <2>1, <1>1
<1>6. Carries(r, p, lo, hi)
  BY <1>3, <1>4, <1>5, CarriesParts
<1>7. QED
  BY <1>6 DEF r

(* Taking an item of p out: it is the next one. *)
LEMMA CarriesTail ==
  ASSUME NEW q \in Seq(Item), q # <<>>, NEW p \in Stages, NEW lo \in Nat, NEW hi \in Int,
         Carries(q, p, lo, hi), Head(q)[1] = p
  PROVE  lo < hi /\ Carries(Tail(q), p, lo + 1, hi)
<1> DEFINE r == Tail(q)
<1>1. /\ Len(q) \in Nat /\ Len(q) > 0 /\ Len(r) = Len(q) - 1 /\ Head(q) = q[1]
      /\ \A j \in 1..Len(r) : r[j] = q[j + 1]
      /\ \A j \in 1..Len(q) : q[j] \in Item
  OBVIOUS
<1> HIDE DEF r
<1>2. \A j \in 1..Len(q) : q[j][2] \in Nat
  BY <1>1 DEF Item
<1>3. lo <= hi /\ \A j \in 1..Len(q) : q[j][1] = p => lo < q[j][2] /\ q[j][2] <= hi
  BY CarriedBounds
<1>4. lo < q[1][2] /\ q[1][2] <= hi /\ q[1][2] \in Nat /\ 1 \in 1..Len(q) /\ q[1][1] = p
  BY <1>1, <1>2, <1>3
<1>5. q[1][2] = lo + 1
  <2>1. lo + 1 \in Nat /\ lo < lo + 1 /\ lo + 1 <= hi
    BY <1>4
  <2>2. PICK j \in 1..Len(q) : q[j] = <<p, lo + 1>>
    BY <2>1 DEF Carries
  <2>3. CASE j = 1
    BY <2>2, <2>3
  <2>4. CASE 1 < j
    <3>1. q[1][2] < q[j][2]
      BY <1>4, <2>2, <2>4, CarriedInOrder
    <3>2. QED
      BY <1>4, <2>2, <3>1
  <2>5. QED
    BY <2>3, <2>4
<1>6. \A j \in 1..Len(r) : j + 1 \in 1..Len(q) /\ 1 < j + 1 /\ r[j] = q[j + 1]
  BY <1>1
<1>7. ASSUME NEW j \in 1..Len(r), r[j][1] = p
      PROVE  lo + 1 < r[j][2] /\ r[j][2] <= hi
  <2>1. j + 1 \in 1..Len(q) /\ 1 < j + 1 /\ r[j] = q[j + 1]
    BY <1>6
  <2>2. q[1][2] < q[j + 1][2]
    BY <1>4, <1>7, <2>1, CarriedInOrder
  <2>3. QED
    BY <1>3, <1>5, <1>7, <2>1, <2>2
<1>8. ASSUME NEW j \in 1..Len(r), NEW k \in 1..Len(r), j < k, r[j][1] = p, r[k][1] = p
      PROVE  r[j][2] < r[k][2]
  <2>1. /\ j + 1 \in 1..Len(q) /\ r[j] = q[j + 1]
        /\ k + 1 \in 1..Len(q) /\ r[k] = q[k + 1]
        /\ j + 1 < k + 1
    BY <1>6, <1>8
  <2>2. QED
    BY <1>8, <2>1, CarriedInOrder
<1>9. ASSUME NEW n \in Nat, lo + 1 < n, n <= hi
      PROVE  \E j \in 1..Len(r) : r[j] = <<p, n>>
  <2>1. lo < n
    BY <1>9
  <2>2. PICK j \in 1..Len(q) : q[j] = <<p, n>>
    BY <1>9, <2>1 DEF Carries
  <2>3. j # 1
    BY <1>5, <1>9, <2>2
  <2>4. j - 1 \in 1..Len(r) /\ r[j - 1] = q[j]
    BY <1>1, <2>3
  <2>5. QED
    BY <2>2, <2>4
<1>10. lo < hi /\ lo + 1 <= hi
  BY <1>4
<1>11. Carries(r, p, lo + 1, hi)
  BY <1>7, <1>8, <1>9, <1>10, CarriesParts
<1>12. QED
  BY <1>10, <1>11 DEF r

(* Taking somebody else's item out. *)
LEMMA CarriesTailOther ==
  ASSUME NEW q \in Seq(Item), q # <<>>, NEW p, NEW lo, NEW hi,
         Carries(q, p, lo, hi), Head(q)[1] # p
  PROVE  Carries(Tail(q), p, lo, hi)
<1> DEFINE r == Tail(q)
<1>1. /\ Len(q) \in Nat /\ Len(q) > 0 /\ Len(r) = Len(q) - 1 /\ Head(q) = q[1]
      /\ \A j \in 1..Len(r) : r[j] = q[j + 1]
  OBVIOUS
<1> HIDE DEF r
<1>2. \A j \in 1..Len(r) : j + 1 \in 1..Len(q) /\ r[j] = q[j + 1]
  BY <1>1
<1>3. lo <= hi /\ \A j \in 1..Len(r) : r[j][1] = p => lo < r[j][2] /\ r[j][2] <= hi
  BY <1>2, CarriedBounds
<1>4. ASSUME NEW j \in 1..Len(r), NEW k \in 1..Len(r), j < k, r[j][1] = p, r[k][1] = p
      PROVE  r[j][2] < r[k][2]
  <2>1. /\ j + 1 \in 1..Len(q) /\ r[j] = q[j + 1]
        /\ k + 1 \in 1..Len(q) /\ r[k] = q[k + 1]
        /\ j + 1 < k + 1
    BY <1>2, <1>4
  <2>2. QED
    BY <1>4, <2>1, CarriedInOrder
<1>5. ASSUME NEW n \in Nat, lo < n, n <= hi
      PROVE  \E j \in 1..Len(r) : r[j] = <<p, n>>
  <2>1. PICK j \in 1..Len(q) : q[j] = <<p, n>>
    BY <1>5, CarriedSomewhere
  <2>2. j # 1
    BY <1>1, <2>1
  <2>3. j - 1 \in 1..Len(r) /\ r[j - 1] = q[j]
    BY <1>1, <2>2
  <2>4. QED
    BY <2>1, <2>3
<1>6. Carries(r, p, lo, hi)
  BY <1>3, <1>4, <1>5, CarriesParts
<1>7. QED
  BY <1>6 DEF r

-----------------------------------------------------------------------------
(* What a task hands back keeps the types. *)
LEMMA ReturnTypes ==
  ASSUME TypeOK, NEW s \in Stages, NEW r \in {"none", "ok", "err", "cancelled"},
         Return(s, r)
  PROVE  /\ chan' \in [Stages -> Seq(Item)]
         /\ pc' \in [Stages -> {"skipped", "recv", "run", "finish", "returned",
                                "done", "panicked"}]
         /\ res' \in [Stages -> {"none", "ok", "err", "cancelled"}]
         /\ UNCHANGED <<todo, emitted, got, tally>>
<1>1. <<>> \in Seq(Item)
  OBVIOUS
<1>2. QED
  BY <1>1 DEF Return, TypeOK

(* A step of a stage keeps the types. *)
LEMMA StageTypes ==
  ASSUME TypeOK, NEW s \in Stages, StageStep(s)
  PROVE  TypeOK'
<1>1. UNCHANGED <<plan, live, jobVars>> /\ cancelled' \in BOOLEAN
  BY DEF StageStep, TaskEnds, TypeOK
<1> SUFFICES (/\ chan \in [Stages -> Seq(Item)]
              /\ pc \in [Stages -> {"skipped", "recv", "run", "finish", "returned",
                                    "done", "panicked"}]
              /\ todo \in [Stages -> SUBSET Stages]
              /\ emitted \in [Stages -> Nat]
              /\ got \in [Stages -> [Stages \cup {Media} -> Nat]]
              /\ tally \in [Stages -> SUBSET Outcome]
              /\ res \in [Stages -> {"none", "ok", "err", "cancelled"}])'
  BY <1>1 DEF TypeOK, jobVars
<1>2. CASE RecvCancelled(s)
  BY <1>2, ReturnTypes DEF RecvCancelled, TypeOK
<1>3. CASE Recv(s)
  <2> DEFINE p == Head(chan[s])[1]
  <2>1. chan[s] \in Seq(Item) /\ chan[s] # <<>>
    BY <1>3 DEF Recv, TypeOK
  <2>2. Tail(chan[s]) \in Seq(Item) /\ Head(chan[s]) \in Item
    BY <2>1
  <2>3. p \in Stages \cup {Media}
    BY <2>2 DEF Item
  <2>4. chan' \in [Stages -> Seq(Item)]
    BY <1>3, <2>2 DEF Recv, TypeOK
  <2>5. got' = [got EXCEPT ![s] = [got[s] EXCEPT ![p] = got[s][p] + 1]]
    BY <1>3 DEF Recv
  <2>6. [got[s] EXCEPT ![p] = got[s][p] + 1] \in [Stages \cup {Media} -> Nat]
    <3>1. got[s] \in [Stages \cup {Media} -> Nat]
      BY DEF TypeOK
    <3>2. QED
      BY <2>3, <3>1
  <2>7. got' \in [Stages -> [Stages \cup {Media} -> Nat]]
    BY <2>5, <2>6 DEF TypeOK
  <2>8. QED
    BY <1>3, <2>4, <2>7 DEF Recv, TypeOK
<1>4. CASE RecvClosed(s)
  BY <1>4, ReturnTypes DEF RecvClosed, TypeOK
<1>5. CASE Emit(s)
  <2>1. Targets(s) \subseteq Stages
    BY WiringAssumption DEF Targets
  <2>2. todo' \in [Stages -> SUBSET Stages]
    BY <1>5, <2>1 DEF Emit, TypeOK
  <2>3. emitted' \in [Stages -> Nat]
    BY <1>5 DEF Emit, TypeOK
  <2>4. QED
    BY <1>5, <2>2, <2>3 DEF Emit, TypeOK
<1>6. CASE Send(s)
  <2>1. PICK c \in todo[s] :
          /\ \/ Gone(c) /\ UNCHANGED chan
             \/ chan' = [chan EXCEPT ![c] = Append(chan[c], <<s, emitted[s]>>)]
          /\ todo' = [todo EXCEPT ![s] = todo[s] \ {c}]
          /\ UNCHANGED <<pc, emitted, got, tally, res>>
    BY <1>6 DEF Send
  <2>2. c \in Stages /\ <<s, emitted[s]>> \in Item /\ chan[c] \in Seq(Item)
    BY DEF TypeOK, Item
  <2>3. Append(chan[c], <<s, emitted[s]>>) \in Seq(Item)
    BY <2>2
  <2>4. chan' \in [Stages -> Seq(Item)]
    BY <2>1, <2>2, <2>3 DEF TypeOK
  <2>5. QED
    BY <2>1, <2>4 DEF TypeOK
<1>7. CASE RunReturns(s)
  <2>1. PICK o \in Outcomes[s] :
          tally' = IF plan[s] = "run" THEN [tally EXCEPT ![s] = tally[s] \cup {o}] ELSE tally
    BY <1>7 DEF RunReturns
  <2>2. o \in Outcome
    BY FaultsAssumption
  <2>4. tally' \in [Stages -> SUBSET Outcome]
    BY <2>1, <2>2 DEF TypeOK
  <2>5. QED
    BY <1>7, <2>4 DEF RunReturns, TypeOK
<1>8. CASE FinishReturns(s)
  BY <1>8, ReturnTypes DEF FinishReturns, TypeOK
<1>9. CASE OperatorFails(s)
  BY <1>9, ReturnTypes DEF OperatorFails, TypeOK
<1>10. CASE Panic(s)
  <2>1. <<>> \in Seq(Item)
    OBVIOUS
  <2>2. QED
    BY <1>10, <2>1 DEF Panic, TypeOK
<1>11. CASE TaskEnds(s)
  BY <1>11 DEF TaskEnds, TypeOK
<1>12. QED
  BY <1>2, <1>3, <1>4, <1>5, <1>6, <1>7, <1>8, <1>9, <1>10, <1>11 DEF StageStep

(* So does a step of the loop that joins the tasks. *)
LEMMA JobTypes ==
  ASSUME TypeOK, JobStep
  PROVE  TypeOK'
<1>1. CASE \E s \in Stages : Collect(s)
  BY <1>1 DEF Collect, TypeOK, stageVars
<1>2. CASE \E s \in Stages : JoinPanicked(s)
  BY <1>2 DEF JoinPanicked, TypeOK, stageVars
<1>3. CASE FinishJob
  <2>1. FinalState \in IndexState
    BY DEF FinalState, IndexState, TypeOK
  <2>2. QED
    BY <1>3, <2>1 DEF FinishJob, TypeOK, stageVars
<1>4. QED
  BY <1>1, <1>2, <1>3 DEF JobStep

(* The types are inductive. *)
LEMMA TypeCorrect == TypeOK /\ [Next]_vars => TypeOK'
<1> SUFFICES ASSUME TypeOK, [Next]_vars PROVE TypeOK'
  OBVIOUS
<1>1. CASE \E s \in Stages : StageStep(s)
  BY <1>1, StageTypes
<1>2. CASE UserCancel
  BY <1>2 DEF UserCancel, TypeOK, stageVars, jobVars
<1>3. CASE JobStep
  BY <1>3, JobTypes
<1>4. CASE UNCHANGED vars
  BY <1>4 DEF TypeOK, vars, stageVars, jobVars
<1>5. QED
  BY <1>1, <1>2, <1>3, <1>4 DEF Next

-----------------------------------------------------------------------------
(* run_stage returning keeps the invariant: the stage has nothing half way *)
(* out and, if it returns ok, it has received everything.                  *)
LEMMA ReturnKeeps ==
  ASSUME StageInv, NEW s \in Stages, NEW r \in {"ok", "err", "cancelled"},
         Return(s, r), plan' = plan, pc[s] \in {"recv", "run", "finish"}, todo[s] = {},
         r = "ok" => \A p \in Producers(s) : /\ p \in Active => Gone(p)
                                             /\ got[s][p] = emitted[p]
  PROVE  (EmitInv /\ TransitInv /\ EndInv /\ ResInv)'
<1>1. /\ pc' = [pc EXCEPT ![s] = "returned"]
      /\ res' = [res EXCEPT ![s] = r]
      /\ chan' = [chan EXCEPT ![s] = <<>>]
      /\ todo' = todo /\ emitted' = emitted /\ got' = got
  BY DEF Return
<1>2. TypeOK /\ EmitInv /\ TransitInv /\ EndInv /\ ResInv
  BY DEF StageInv
<1>3. Active' = Active /\ \A p \in Stages : Targets(p)' = Targets(p)
  BY DEF Active, Targets
<1>4. Gone(s)' /\ \A p \in Stages : p # s => Gone(p)' = Gone(p)
  BY <1>1, <1>2 DEF Gone, TypeOK
<1>5. EmitInv'
  BY <1>1, <1>2, <1>3 DEF EmitInv, TypeOK
<1>6. TransitInv'
  <2> SUFFICES ASSUME NEW p \in Stages, NEW c \in Consumers[p], c \in Active, ~Gone(c)'
               PROVE  InTransit(p, c)'
    BY <1>3 DEF TransitInv
  <2>1. c # s /\ c \in Stages /\ ~Gone(c)
    BY <1>4 DEF Active
  <2>2. InTransit(p, c)
    BY <1>2, <2>1 DEF TransitInv
  <2>3. chan'[c] = chan[c]
    BY <1>1, <1>2, <2>1 DEF TypeOK
  <2>4. QED
    BY <1>1, <2>2, <2>3 DEF InTransit, Last
<1>7. EndInv'
  <2> SUFFICES ASSUME NEW c \in Stages, pc'[c] = "finish" \/ res'[c] = "ok",
                      NEW p \in Producers(c)
               PROVE  (p \in Active => Gone(p)') /\ got[c][p] = emitted[p]
    BY <1>1, <1>3 DEF EndInv, Producers
  <2>1. p \in Active => Gone(p)
    BY <1>1, <1>2 DEF EndInv, TypeOK
  <2>2. got[c][p] = emitted[p]
    BY <1>1, <1>2 DEF EndInv, TypeOK
  <2>3. QED
    BY <2>1, <2>2, <1>4 DEF Producers
<1>8. ResInv'
  BY <1>1, <1>2 DEF ResInv, TypeOK
<1>9. QED
  BY <1>5, <1>6, <1>7, <1>8

(* Receiving: the item taken is the next one of its producer. *)
LEMMA RecvKeeps ==
  ASSUME StageInv, NEW s \in Stages, Recv(s), plan' = plan, res' = res
  PROVE  (EmitInv /\ TransitInv /\ EndInv /\ ResInv)'
<1> DEFINE p0 == Head(chan[s])[1]
<1>1. /\ pc[s] = "recv" /\ chan[s] # <<>>
      /\ chan' = [chan EXCEPT ![s] = Tail(chan[s])]
      /\ got' = [got EXCEPT ![s] = [got[s] EXCEPT ![p0] = got[s][p0] + 1]]
      /\ \E x \in {"run", "recv"} : pc' = [pc EXCEPT ![s] = x]
      /\ todo' = todo /\ emitted' = emitted
  BY DEF Recv
<1>2. TypeOK /\ EmitInv /\ TransitInv /\ EndInv /\ ResInv
  BY DEF StageInv
<1>3. Active' = Active /\ \A p \in Stages : Targets(p)' = Targets(p)
  BY DEF Active, Targets
<1>4. \A p \in Stages : Gone(p)' = Gone(p)
  BY <1>1, <1>2 DEF Gone, TypeOK
<1>5. s \in Active /\ ~Gone(s) /\ res[s] = "none" /\ todo[s] = {}
  BY <1>1, <1>2 DEF EmitInv, ResInv, Gone, TypeOK
<1>6. EmitInv'
  BY <1>1, <1>2, <1>3, <1>5, SMTT(40) DEF EmitInv, TypeOK
<1>7. TransitInv'
  <2> SUFFICES ASSUME NEW p \in Stages, NEW c \in Consumers[p], c \in Active, ~Gone(c)'
               PROVE  InTransit(p, c)'
    BY <1>3 DEF TransitInv
  <2>1. c \in Stages /\ ~Gone(c)
    BY <1>4 DEF Active
  <2>2. Carries(chan[c], p, got[c][p], Last(p, c)) /\ Last(p, c)' = Last(p, c)
    BY <1>1, <1>2, <2>1 DEF TransitInv, InTransit, Last
  <2>3. CASE c # s
    <3>1. chan'[c] = chan[c] /\ got'[c] = got[c]
      BY <1>1, <1>2, <2>1, <2>3 DEF TypeOK
    <3>2. QED
      BY <2>2, <3>1 DEF InTransit
  <2>4. CASE c = s
    <3>1. chan'[c] = Tail(chan[s]) /\ chan[s] \in Seq(Item)
      BY <1>1, <1>2, <2>4 DEF TypeOK
    <3>2. got[s] \in [Stages \cup {Media} -> Nat] /\ got[s][p] \in Nat /\ Last(p, c) \in Int
      <4>1. got[s] \in [Stages \cup {Media} -> Nat] /\ emitted[p] \in Nat
        BY <1>2 DEF TypeOK
      <4>2. QED
        BY <4>1 DEF Last
    <3>3. CASE p = p0
      <4>1. got'[c][p] = got[s][p] + 1
        BY <1>1, <1>2, <2>4, <3>2, <3>3 DEF TypeOK
      <4>2. Carries(Tail(chan[s]), p, got[s][p] + 1, Last(p, c))
        BY <1>1, <2>2, <2>4, <3>1, <3>2, <3>3, CarriesTail
      <4>3. QED
        BY <2>2, <3>1, <4>1, <4>2 DEF InTransit
    <3>4. CASE p # p0
      <4>1. got'[c][p] = got[s][p]
        BY <1>1, <1>2, <2>4, <3>2, <3>4 DEF TypeOK
      <4>2. Carries(Tail(chan[s]), p, got[s][p], Last(p, c))
        BY <1>1, <2>2, <2>4, <3>1, <3>4, CarriesTailOther
      <4>3. QED
        BY <2>2, <3>1, <4>1, <4>2 DEF InTransit
    <3>5. QED
      BY <3>3, <3>4
  <2>5. QED
    BY <2>3, <2>4
<1>8. EndInv'
  <2> SUFFICES ASSUME NEW c \in Stages, pc'[c] = "finish" \/ res[c] = "ok",
                      NEW p \in Producers(c)
               PROVE  (p \in Active => Gone(p)') /\ got'[c][p] = emitted[p]
    BY <1>1, <1>3 DEF EndInv, Producers
  <2>1. c # s /\ (pc[c] = "finish" \/ res[c] = "ok") /\ got'[c] = got[c]
    BY <1>1, <1>2, <1>5 DEF TypeOK
  <2>2. QED
    BY <1>2, <1>4, <2>1 DEF EndInv, Producers
<1>9. ResInv'
  BY <1>1, <1>2 DEF ResInv, TypeOK
<1>10. QED
  BY <1>6, <1>7, <1>8, <1>9

(* A receiver that sees its channel empty and its producers gone has       *)
(* received everything they emitted.                                       *)
LEMMA ClosedMeansWhole ==
  ASSUME StageInv, NEW s \in Stages, RecvClosed(s)
  PROVE  \A p \in Producers(s) : /\ p \in Active => Gone(p)
                                 /\ got[s][p] = emitted[p]
<1>1. TypeOK /\ EmitInv /\ TransitInv
  BY DEF StageInv
<1>2. pc[s] = "recv" /\ chan[s] = <<>> /\ \A p \in Producers(s) \cap Active : Gone(p)
  BY DEF RecvClosed
<1>3. s \in Active /\ ~Gone(s)
  BY <1>1, <1>2 DEF EmitInv, Gone
<1> SUFFICES ASSUME NEW p \in Producers(s) PROVE got[s][p] = emitted[p]
  BY <1>2
<1>4. p \in Stages /\ s \in Consumers[p]
  BY DEF Producers
<1>5. Carries(<<>>, p, got[s][p], Last(p, s))
  BY <1>1, <1>2, <1>3, <1>4 DEF TransitInv, InTransit
<1>6. s \notin todo[p]
  BY <1>1, <1>2, <1>4 DEF EmitInv, Active, Gone
<1>7. got[s][p] \in Nat /\ emitted[p] \in Nat /\ Last(p, s) = emitted[p]
  BY <1>1, <1>4, <1>6 DEF TypeOK, Last
<1>8. QED
  BY <1>5, <1>7, CarriesNothing

(* Emitting: the new item is on its way to every consumer. *)
LEMMA EmitKeeps ==
  ASSUME StageInv, NEW s \in Stages, Emit(s), plan' = plan, res' = res
  PROVE  (EmitInv /\ TransitInv /\ EndInv /\ ResInv)'
<1>1. /\ pc[s] \in {"run", "finish"} /\ todo[s] = {}
      /\ emitted' = [emitted EXCEPT ![s] = emitted[s] + 1]
      /\ todo' = [todo EXCEPT ![s] = Targets(s)]
      /\ chan' = chan /\ pc' = pc /\ got' = got
  BY DEF Emit, InOperator
<1>2. TypeOK /\ EmitInv /\ TransitInv /\ EndInv /\ ResInv
  BY DEF StageInv
<1>3. Active' = Active /\ \A p \in Stages : Targets(p)' = Targets(p)
  BY DEF Active, Targets
<1>4. \A p \in Stages : Gone(p)' = Gone(p)
  BY <1>1 DEF Gone
<1>5. s \in Active /\ ~Gone(s)
  BY <1>1, <1>2 DEF EmitInv, Gone
<1>6. EmitInv'
  BY <1>1, <1>2, <1>3, <1>5 DEF EmitInv, TypeOK
<1>7. TransitInv'
  <2> SUFFICES ASSUME NEW p \in Stages, NEW c \in Consumers[p], c \in Active, ~Gone(c)'
               PROVE  InTransit(p, c)'
    BY <1>3 DEF TransitInv
  <2>1. c \in Stages /\ InTransit(p, c)
    BY <1>2, <1>4 DEF Active, TransitInv
  <2>2. Last(p, c)' = Last(p, c)
    <3>1. CASE p = s
      <4>1. c \in Targets(s) /\ c \notin todo[s]
        BY <3>1, <1>1 DEF Targets
      <4>2. emitted[s] \in Nat /\ c \in todo'[s] /\ emitted'[s] = emitted[s] + 1
        BY <1>1, <1>2, <4>1 DEF TypeOK
      <4>3. QED
        BY <3>1, <4>1, <4>2 DEF Last
    <3>2. CASE p # s
      BY <3>2, <1>1, <1>2 DEF Last, TypeOK
    <3>3. QED
      BY <3>1, <3>2
  <2>3. QED
    BY <1>1, <2>1, <2>2 DEF InTransit
<1>8. EndInv'
  <2> SUFFICES ASSUME NEW c \in Stages, pc[c] = "finish" \/ res[c] = "ok",
                      NEW p \in Producers(c)
               PROVE  (p \in Active => Gone(p)') /\ got[c][p] = emitted'[p]
    BY <1>1, <1>3 DEF EndInv, Producers
  <2>1. p \in Stages /\ (p \in Active => Gone(p)) /\ got[c][p] = emitted[p]
    BY <1>2 DEF EndInv, Producers
  <2>2. p # s
    BY <1>5, <2>1
  <2>3. QED
    BY <1>1, <1>2, <1>4, <2>1, <2>2 DEF TypeOK
<1>9. ResInv'
  BY <1>1, <1>2 DEF ResInv
<1>10. QED
  BY <1>6, <1>7, <1>8, <1>9

(* Sending: the item reaches one more channel, or passes over a consumer   *)
(* that is gone.                                                           *)
LEMMA SendKeeps ==
  ASSUME StageInv, NEW s \in Stages, Send(s), plan' = plan, res' = res
  PROVE  (EmitInv /\ TransitInv /\ EndInv /\ ResInv)'
<1>1. PICK d \in todo[s] :
        /\ \/ Gone(d) /\ chan' = chan
           \/ ~Gone(d) /\ chan' = [chan EXCEPT ![d] = Append(chan[d], <<s, emitted[s]>>)]
        /\ todo' = [todo EXCEPT ![s] = todo[s] \ {d}]
        /\ pc' = pc /\ emitted' = emitted /\ got' = got
  BY DEF Send
<1>2. TypeOK /\ EmitInv /\ TransitInv /\ EndInv /\ ResInv
  BY DEF StageInv
<1>3. Active' = Active /\ \A p \in Stages : Targets(p)' = Targets(p)
  BY DEF Active, Targets
<1>4. \A p \in Stages : Gone(p)' = Gone(p)
  BY <1>1 DEF Gone
<1>5. d \in Stages /\ emitted[s] \in Nat /\ emitted[s] > 0
  BY <1>2 DEF EmitInv, TypeOK
<1>6. EmitInv'
  BY <1>1, <1>2, <1>3 DEF EmitInv, TypeOK
<1>7. TransitInv'
  <2> SUFFICES ASSUME NEW p \in Stages, NEW c \in Consumers[p], c \in Active, ~Gone(c)'
               PROVE  InTransit(p, c)'
    BY <1>3 DEF TransitInv
  <2>1. c \in Stages /\ ~Gone(c) /\ Carries(chan[c], p, got[c][p], Last(p, c))
    BY <1>2, <1>4 DEF Active, TransitInv, InTransit
  <2>2. chan[c] \in Seq(Item) /\ got[c][p] \in Nat /\ emitted[p] \in Nat
    BY <1>2, <2>1 DEF TypeOK
  <2>3. CASE c # d
    <3>1. chan'[c] = chan[c]
      BY <1>1, <1>2, <2>1, <2>3 DEF TypeOK
    <3>2. Last(p, c)' = Last(p, c)
      BY <1>1, <1>2, <2>3 DEF Last, TypeOK
    <3>3. QED
      BY <1>1, <2>1, <3>1, <3>2 DEF InTransit
  <2>4. CASE c = d
    <3>1. chan'[c] = Append(chan[c], <<s, emitted[s]>>)
      BY <1>1, <1>2, <2>1, <2>4 DEF TypeOK
    <3>2. CASE p = s
      <4>1. Last(p, c) = emitted[s] - 1 /\ Last(p, c)' = emitted[s]
        BY <1>1, <1>2, <2>4, <3>2 DEF Last, TypeOK
      <4>2. Carries(chan'[c], p, got[c][p], emitted[s])
        BY <2>1, <2>2, <3>1, <3>2, <4>1, CarriesAppend
      <4>3. QED
        BY <1>1, <4>1, <4>2 DEF InTransit
    <3>3. CASE p # s
      <4>1. Last(p, c)' = Last(p, c)
        BY <1>1, <1>2, <3>3 DEF Last, TypeOK
      <4>2. <<s, emitted[s]>> \in Item
        BY <1>5 DEF Item
      <4>3. Carries(chan'[c], p, got[c][p], Last(p, c))
        BY <2>1, <2>2, <3>1, <3>3, <4>2, CarriesAppendOther
      <4>4. QED
        BY <1>1, <4>1, <4>3 DEF InTransit
    <3>4. QED
      BY <3>2, <3>3
  <2>5. QED
    BY <2>3, <2>4
<1>8. EndInv'
  BY <1>1, <1>2, <1>3, <1>4 DEF EndInv, Producers
<1>9. ResInv'
  BY <1>1, <1>2 DEF ResInv
<1>10. QED
  BY <1>6, <1>7, <1>8, <1>9

(* A panic takes a task that had not returned anything. *)
LEMMA PanicKeeps ==
  ASSUME StageInv, NEW s \in Stages, Panic(s), plan' = plan, res' = res
  PROVE  (EmitInv /\ TransitInv /\ EndInv /\ ResInv)'
<1>1. /\ pc[s] \in {"run", "finish"} /\ todo[s] = {}
      /\ pc' = [pc EXCEPT ![s] = "panicked"]
      /\ chan' = [chan EXCEPT ![s] = <<>>]
      /\ todo' = todo /\ emitted' = emitted /\ got' = got
  BY DEF Panic, InOperator
<1>2. TypeOK /\ EmitInv /\ TransitInv /\ EndInv /\ ResInv
  BY DEF StageInv
<1>3. Active' = Active /\ \A p \in Stages : Targets(p)' = Targets(p)
  BY DEF Active, Targets
<1>4. Gone(s)' /\ \A p \in Stages : p # s => Gone(p)' = Gone(p)
  BY <1>1, <1>2 DEF Gone, TypeOK
<1>5. EmitInv'
  BY <1>1, <1>2, <1>3 DEF EmitInv, TypeOK
<1>6. TransitInv'
  <2> SUFFICES ASSUME NEW p \in Stages, NEW c \in Consumers[p], c \in Active, ~Gone(c)'
               PROVE  InTransit(p, c)'
    BY <1>3 DEF TransitInv
  <2>1. c # s /\ c \in Stages /\ ~Gone(c)
    BY <1>4 DEF Active
  <2>2. InTransit(p, c)
    BY <1>2, <2>1 DEF TransitInv
  <2>3. chan'[c] = chan[c]
    BY <1>1, <1>2, <2>1 DEF TypeOK
  <2>4. QED
    BY <1>1, <2>2, <2>3 DEF InTransit, Last
<1>7. EndInv'
  <2> SUFFICES ASSUME NEW c \in Stages, pc'[c] = "finish" \/ res[c] = "ok",
                      NEW p \in Producers(c)
               PROVE  (p \in Active => Gone(p)') /\ got[c][p] = emitted[p]
    BY <1>1, <1>3 DEF EndInv, Producers
  <2>1. p \in Active => Gone(p)
    BY <1>1, <1>2 DEF EndInv, TypeOK
  <2>2. got[c][p] = emitted[p]
    BY <1>1, <1>2 DEF EndInv, TypeOK
  <2>3. QED
    BY <2>1, <2>2, <1>4 DEF Producers
<1>8. ResInv'
  BY <1>1, <1>2 DEF ResInv, TypeOK
<1>9. QED
  BY <1>5, <1>6, <1>7, <1>8

(* Steps that only move a task on, without touching its queues. *)
LEMMA MoveKeeps ==
  ASSUME StageInv, NEW s \in Stages,
         NEW x \in {"recv", "finish", "done"}, pc' = [pc EXCEPT ![s] = x],
         UNCHANGED <<plan, chan, todo, emitted, got, res>>,
         x = "recv" => pc[s] = "run" /\ todo[s] = {},
         x = "finish" => RecvClosed(s),
         x = "done" => pc[s] = "returned"
  PROVE  (EmitInv /\ TransitInv /\ EndInv /\ ResInv)'
<1>1. TypeOK /\ EmitInv /\ TransitInv /\ EndInv /\ ResInv
  BY DEF StageInv
<1>2. Active' = Active /\ \A p \in Stages : Targets(p)' = Targets(p)
  BY DEF Active, Targets
<1>3. x = "finish" => pc[s] = "recv"
  BY DEF RecvClosed
<1>4. \A p \in Stages : Gone(p)' = Gone(p)
  BY <1>1, <1>3 DEF Gone, TypeOK
<1>5. EmitInv'
  BY <1>1, <1>2, <1>3 DEF EmitInv, TypeOK
<1>6. TransitInv'
  BY <1>1, <1>2, <1>4 DEF TransitInv, InTransit, Last, Active
<1>7. EndInv'
  <2> SUFFICES ASSUME NEW c \in Stages, pc'[c] = "finish" \/ res[c] = "ok",
                      NEW p \in Producers(c)
               PROVE  (p \in Active => Gone(p)) /\ got[c][p] = emitted[p]
    BY <1>2, <1>4 DEF EndInv, Producers
  <2>1. CASE c = s /\ x = "finish"
    BY <2>1, ClosedMeansWhole
  <2>2. CASE ~(c = s /\ x = "finish")
    <3>1. pc[c] = "finish" \/ res[c] = "ok"
      BY <1>1, <2>2 DEF TypeOK
    <3>2. QED
      BY <1>1, <3>1 DEF EndInv
  <2>3. QED
    BY <2>1, <2>2
<1>8. ResInv'
  BY <1>1, <1>3 DEF ResInv, TypeOK
<1>9. QED
  BY <1>5, <1>6, <1>7, <1>8

(* Every step of a stage keeps its part of the invariant. *)
LEMMA StageKeeps ==
  ASSUME StageInv, NEW s \in Stages, StageStep(s)
  PROVE  StageInv'
<1>1. TypeOK'
  BY StageTypes DEF StageInv
<1>2. plan' = plan /\ TypeOK /\ EmitInv
  BY DEF StageStep, StageInv
<1> SUFFICES (EmitInv /\ TransitInv /\ EndInv /\ ResInv)'
  BY <1>1 DEF StageInv
<1>3. CASE RecvCancelled(s)
  <2>1. Return(s, "cancelled") /\ pc[s] = "recv"
    BY <1>3 DEF RecvCancelled
  <2>2. todo[s] = {}
    BY <1>2, <2>1 DEF EmitInv
  <2>3. QED
    BY <1>2, <2>1, <2>2, ReturnKeeps
<1>4. CASE Recv(s)
  BY <1>2, <1>4, RecvKeeps DEF Recv
<1>5. CASE RecvClosed(s)
  <2>1. CASE plan[s] = "run"
    <3>1. pc' = [pc EXCEPT ![s] = "finish"] /\ UNCHANGED <<chan, todo, emitted, got, res>>
      BY <1>5, <2>1 DEF RecvClosed
    <3>2. QED
      BY <1>2, <1>5, <3>1, MoveKeeps
  <2>2. CASE plan[s] # "run"
    <3>1. Return(s, "ok") /\ pc[s] = "recv"
      BY <1>5, <2>2 DEF RecvClosed
    <3>2. todo[s] = {}
      BY <1>2, <3>1 DEF EmitInv
    <3>3. QED
      BY <1>2, <1>5, <3>1, <3>2, ClosedMeansWhole, ReturnKeeps
  <2>3. QED
    BY <2>1, <2>2
<1>6. CASE Emit(s)
  BY <1>2, <1>6, EmitKeeps DEF Emit
<1>7. CASE Send(s)
  BY <1>2, <1>7, SendKeeps DEF Send
<1>8. CASE RunReturns(s)
  <2>1. /\ pc' = [pc EXCEPT ![s] = "recv"] /\ pc[s] = "run" /\ todo[s] = {}
        /\ UNCHANGED <<chan, todo, emitted, got, res>>
    BY <1>8 DEF RunReturns, InOperator
  <2>2. QED
    BY <1>2, <2>1, MoveKeeps
<1>9. CASE FinishReturns(s)
  <2>1. Return(s, "ok") /\ pc[s] = "finish" /\ todo[s] = {}
    BY <1>9 DEF FinishReturns, InOperator
  <2>2. \A p \in Producers(s) : (p \in Active => Gone(p)) /\ got[s][p] = emitted[p]
    BY <2>1 DEF StageInv, EndInv
  <2>3. QED
    BY <1>2, <2>1, <2>2, ReturnKeeps
<1>10. CASE OperatorFails(s)
  <2>1. /\ Return(s, "err") \/ Return(s, "cancelled")
        /\ pc[s] \in {"run", "finish"} /\ todo[s] = {}
    BY <1>10 DEF OperatorFails, InOperator
  <2>2. QED
    BY <1>2, <2>1, ReturnKeeps
<1>11. CASE Panic(s)
  BY <1>2, <1>11, PanicKeeps DEF Panic
<1>12. CASE TaskEnds(s)
  <2>1. /\ pc' = [pc EXCEPT ![s] = "done"] /\ pc[s] = "returned"
        /\ UNCHANGED <<chan, todo, emitted, got, res>>
    BY <1>12 DEF TaskEnds
  <2>2. QED
    BY <1>2, <2>1, MoveKeeps
<1>13. QED
  BY <1>3, <1>4, <1>5, <1>6, <1>7, <1>8, <1>9, <1>10, <1>11, <1>12 DEF StageStep

(* Nothing but a stage's own step touches what StageInv is about. *)
LEMMA OthersKeepStages ==
  ASSUME StageInv, TypeOK', UNCHANGED <<plan, live, stageVars>>
  PROVE  StageInv'
<1>1. /\ chan' = chan /\ pc' = pc /\ todo' = todo /\ emitted' = emitted
      /\ got' = got /\ res' = res /\ plan' = plan /\ Active' = Active
  BY DEF stageVars, Active
<1>2. EmitInv'
  BY <1>1 DEF StageInv, EmitInv, Targets
<1>3. TransitInv'
  BY <1>1 DEF StageInv, TransitInv, InTransit, Last, Gone
<1>4. EndInv'
  BY <1>1 DEF StageInv, EndInv, Gone
<1>5. ResInv'
  BY <1>1 DEF StageInv, ResInv
<1>6. QED
  BY <1>2, <1>3, <1>4, <1>5 DEF StageInv

(* A stage returns once, and only its own task writes its result. *)
LEMMA ReturnsOnce ==
  ASSUME NEW s \in Stages, StageStep(s)
  PROVE  \/ res' = res
         \/ /\ pc[s] \in {"recv", "run", "finish"}
            /\ \E r \in {"ok", "err", "cancelled"} : res' = [res EXCEPT ![s] = r]
<1>1. CASE RecvCancelled(s)
  BY <1>1 DEF RecvCancelled, Return
<1>2. CASE RecvClosed(s)
  BY <1>2 DEF RecvClosed, Return
<1>3. CASE FinishReturns(s)
  BY <1>3 DEF FinishReturns, Return
<1>4. CASE OperatorFails(s)
  BY <1>4 DEF OperatorFails, InOperator, Return
<1>5. CASE Recv(s) \/ Emit(s) \/ Send(s) \/ RunReturns(s) \/ Panic(s) \/ TaskEnds(s)
  BY <1>5 DEF Recv, Emit, Send, RunReturns, Panic, TaskEnds
<1>6. QED
  BY <1>1, <1>2, <1>3, <1>4, <1>5 DEF StageStep

(* Recording results in order keeps the report true. *)
LEMMA JobKeeps ==
  ASSUME IInv, JobStep
  PROVE  JobInv'
<1>1. TypeOK /\ JobInv /\ UNCHANGED <<plan, live>> /\ res' = res /\ Active' = Active
  BY DEF IInv, StageInv, JobStep, Collect, JoinPanicked, FinishJob, stageVars, Active
<1>2. ASSUME NEW s \in Stages, Collect(s) PROVE JobInv'
  <2>1. /\ status' = [status EXCEPT ![s] = IF Completes(s) THEN "complete" ELSE "failed"]
        /\ ok' = (ok /\ Completes(s))
        /\ report' \in {"running", "aborted"}
    BY <1>2 DEF Collect
  <2>2. Completes(s) /\ ~live => res[s] = "ok"
    BY DEF Completes
  <2>3. \A r \in Stages :
          status'[r] = IF r = s THEN IF Completes(s) THEN "complete" ELSE "failed"
                       ELSE status[r]
    BY <1>1, <2>1 DEF TypeOK
  <2>4. \A r \in Active : status'[r] # "skipped"
    BY <1>1, <2>3 DEF JobInv, Active
  <2>5. \A r \in Stages : status'[r] = "complete" /\ ~live => res[r] = "ok"
    BY <1>1, <2>2, <2>3 DEF JobInv
  <2>6. ok' => \A r \in Stages : status'[r] # "failed"
    <3>1. ok' => ok /\ Completes(s)
      BY <2>1, Zenon
    <3>2. QED
      BY <1>1, <2>3, <3>1 DEF JobInv
  <2>7. QED
    BY <1>1, <2>1, <2>4, <2>5, <2>6 DEF JobInv
<1>3. ASSUME NEW s \in Stages, JoinPanicked(s) PROVE JobInv'
  BY <1>1, <1>3 DEF JobInv, JoinPanicked
<1>4. CASE FinishJob
  BY <1>1, <1>4 DEF JobInv, FinishJob
<1>5. QED
  BY <1>2, <1>3, <1>4 DEF JobStep

(* The invariant is inductive: one step per kind of action. *)
LEMMA JobInductive == IInv /\ [Next]_vars => IInv'
<1> SUFFICES ASSUME IInv, [Next]_vars PROVE IInv'
  OBVIOUS
<1>1. TypeOK' /\ StageInv /\ JobInv
  BY TypeCorrect DEF IInv, StageInv
<1>2. ASSUME NEW s \in Stages, StageStep(s) PROVE IInv'
  <2>1. StageInv'
    BY <1>1, <1>2, StageKeeps
  <2>2. UNCHANGED <<plan, live, status, ok, report>>
    BY <1>2 DEF StageStep, jobVars
  <2>3. \A r \in Stages : res[r] = "ok" => res'[r] = "ok"
    <3>1. pc[s] \in {"recv", "run", "finish"} => res[s] = "none"
      BY <1>1 DEF StageInv, ResInv, TypeOK
    <3>2. \/ res' = res
          \/ /\ pc[s] \in {"recv", "run", "finish"}
             /\ \E x \in {"ok", "err", "cancelled"} : res' = [res EXCEPT ![s] = x]
      BY <1>2, ReturnsOnce
    <3>3. res \in [Stages -> {"none", "ok", "err", "cancelled"}]
      BY <1>1 DEF StageInv, TypeOK
    <3>4. QED
      BY <3>1, <3>2, <3>3
  <2>4. JobInv'
    BY <1>1, <2>2, <2>3 DEF JobInv, Active
  <2>5. QED
    BY <2>1, <2>4 DEF IInv
<1>3. CASE UserCancel
  <2>1. StageInv'
    BY <1>1, <1>3, OthersKeepStages DEF UserCancel
  <2>2. JobInv'
    BY <1>1, <1>3 DEF UserCancel, stageVars, jobVars, JobInv, Active
  <2>3. QED
    BY <2>1, <2>2 DEF IInv
<1>4. CASE JobStep
  <2>1. UNCHANGED <<plan, live, stageVars>>
    BY <1>4 DEF JobStep, Collect, JoinPanicked, FinishJob
  <2>2. StageInv'
    BY <1>1, <2>1, OthersKeepStages
  <2>3. QED
    BY <1>4, <2>2, JobKeeps DEF IInv
<1>5. CASE UNCHANGED vars
  <2>1. StageInv'
    BY <1>1, <1>5, OthersKeepStages DEF vars
  <2>2. JobInv'
    BY <1>1, <1>5 DEF vars, stageVars, jobVars, JobInv, Active
  <2>3. QED
    BY <2>1, <2>2 DEF IInv
<1>6. QED
  BY <1>2, <1>3, <1>4, <1>5 DEF Next

(* Before the job starts only the media item is on its way. *)
LEMMA JobInitially == Init => IInv
<1> SUFFICES ASSUME Init PROVE IInv
  OBVIOUS
<1>1. <<Media, 1>> \in Item
  BY DEF Item, Media
<1>2. <<<<Media, 1>>>> \in Seq(Item) /\ <<>> \in Seq(Item)
  BY <1>1
<1>3. TypeOK
  <2>1. chan \in [Stages -> Seq(Item)]
    BY <1>2 DEF Init
  <2>2. got \in [Stages -> [Stages \cup {Media} -> Nat]]
    BY DEF Init
  <2>3. QED
    BY <2>1, <2>2, FaultsAssumption DEF Init, TypeOK
<1>4. EmitInv
  BY DEF Init, EmitInv
<1>5. TransitInv
  <2> SUFFICES ASSUME NEW p \in Stages, NEW c \in Consumers[p], c \in Active
               PROVE  Carries(chan[c], p, got[c][p], Last(p, c))
    BY DEF TransitInv, InTransit
  <2>1. c \in Stages /\ p # Media
    BY DEF Active, Stages, Media
  <2>2. got[c][p] = 0 /\ Last(p, c) = 0
    BY <2>1 DEF Init, Last
  <2>3. chan[c] = <<<<Media, 1>>>> \/ chan[c] = <<>>
    BY <2>1 DEF Init
  <2>4. \A j \in 1..Len(chan[c]) : chan[c][j][1] # p
    BY <2>1, <2>3
  <2>5. QED
    BY <2>2, <2>4, CarriesParts
<1>6. EndInv /\ ResInv
  BY DEF Init, EndInv, ResInv
<1>7. JobInv
  <2>1. \A s \in Stages : status[s] = IF s \in Active THEN "pending" ELSE "skipped"
    BY DEF Init
  <2>2. \A s \in Active : s \in Stages
    BY DEF Active
  <2>3. QED
    BY <2>1, <2>2 DEF Init, JobInv
<1>8. QED
  BY <1>3, <1>4, <1>5, <1>6, <1>7 DEF IInv, StageInv

(* The invariant holds in every state of every job. *)
LEMMA JobInvariant == Spec => []IInv
BY JobInitially, JobInductive, PTL DEF Spec

(* The types hold in every state of every job. *)
THEOREM JobTypeCorrect == Spec => []TypeOK
<1>1. IInv => TypeOK
  BY DEF IInv, StageInv
<1>2. QED
  BY <1>1, JobInvariant, PTL

(* A job that reports success lost no item, whatever the wiring, the plan, *)
(* the capacity, the number of items and the faults.                       *)
THEOREM SuccessIsLossless == Spec => []SuccessLostNothing
<1>1. IInv => SuccessLostNothing
  <2> SUFFICES ASSUME IInv, report = "finished", ok, ~live, NEW c \in Active
               PROVE  /\ res[c] = "ok"
                      /\ \A p \in Producers(c) : got[c][p] = emitted[p]
    BY DEF SuccessLostNothing
  <2>1. c \in Stages /\ status[c] = "complete"
    BY DEF IInv, StageInv, JobInv, TypeOK, Active
  <2>2. res[c] = "ok"
    BY <2>1 DEF IInv, JobInv
  <2>3. QED
    BY <2>1, <2>2 DEF IInv, StageInv, EndInv
<1>2. QED
  BY <1>1, JobInvariant, PTL

(* A cancelled job takes nothing more out of its channels. *)
THEOREM CancelledIntakeStops == Spec => CancelStopsIntake
<1>1. [Next]_vars => [cancelled => got' = got]_vars
  <2> SUFFICES ASSUME Next, cancelled PROVE got' = got
    OBVIOUS
  <2>1. ASSUME NEW s \in Stages, StageStep(s) PROVE got' = got
    BY <2>1 DEF StageStep, RecvCancelled, Recv, RecvClosed, Emit, Send, RunReturns,
                FinishReturns, OperatorFails, Panic, TaskEnds, Return
  <2>2. CASE UserCancel
    BY <2>2 DEF UserCancel, stageVars
  <2>3. CASE JobStep
    BY <2>3 DEF JobStep, Collect, JoinPanicked, FinishJob, stageVars
  <2>4. QED
    BY <2>1, <2>2, <2>3 DEF Next
<1>2. QED
  BY <1>1, PTL DEF Spec, CancelStopsIntake

-----------------------------------------------------------------------------
(* While no operator has returned an error, a stage only ever ends because *)
(* it was cancelled or because its input was whole: the producers of a     *)
(* stage that went on to its end had returned before any cancellation, or  *)
(* panicked, and then the job ends before that stage is joined.            *)
NoErrors == \A s \in Stages : res[s] # "err"

Joined ==
  /\ \A s \in Stages : res[s] = "cancelled" => cancelled
  /\ \A s \in Active : status[s] # "pending" => pc[s] = "done"
  /\ \A c \in marked : res[c] = "ok" /\ \A p \in Producers(c) \cap Active : pc[p] = "done"

Whole ==
  \A c \in Stages : pc[c] = "finish" \/ res[c] = "ok" =>
    \A p \in Producers(c) \cap Active : res[p] = "ok" \/ pc[p] = "panicked"

WholeInv == Joined /\ (NoErrors => Whole)

(* Results, ends and panics are final. *)
LEMMA EndsAreFinal ==
  ASSUME IInv, NEW s \in Stages, StageStep(s)
  PROVE  \A r \in Stages : /\ res[r] # "none" => res'[r] = res[r]
                           /\ pc[r] = "done" => pc'[r] = "done"
                           /\ pc[r] = "panicked" => pc'[r] = "panicked"
<1>1. TypeOK /\ ResInv /\ EmitInv
  BY DEF IInv, StageInv
<1>2. \A r \in Stages : res[r] # "none" => res'[r] = res[r]
  <2>1. \/ res' = res
        \/ /\ pc[s] \in {"recv", "run", "finish"}
           /\ \E x \in {"ok", "err", "cancelled"} : res' = [res EXCEPT ![s] = x]
    BY ReturnsOnce
  <2>2. pc[s] \in {"recv", "run", "finish"} => res[s] = "none"
    BY <1>1 DEF ResInv
  <2>3. QED
    BY <1>1, <2>1, <2>2 DEF TypeOK
<1>3. \/ pc' = pc
      \/ /\ pc[s] \notin {"done", "panicked"}
         /\ \E x \in {"recv", "run", "finish", "returned", "done", "panicked"} :
              pc' = [pc EXCEPT ![s] = x]
  BY DEF StageStep, RecvCancelled, Recv, RecvClosed, Emit, Send, RunReturns,
         FinishReturns, OperatorFails, Panic, TaskEnds, Return, InOperator
<1>4. QED
  BY <1>1, <1>2, <1>3 DEF TypeOK

(* Being joined, or marked, keeps its meaning. *)
LEMMA JoinedInductive ==
  ASSUME IInv, Joined, [Next]_vars
  PROVE  Joined'
<1>1. TypeOK /\ ResInv
  BY DEF IInv, StageInv
<1>2. ASSUME NEW s \in Stages, StageStep(s) PROVE Joined'
  <2>1. marked' = marked /\ status' = status /\ Active' = Active
    BY <1>2 DEF StageStep, jobVars, Active
  <2>2. cancelled => cancelled'
    <3>1. cancelled' = cancelled \/ cancelled' = (cancelled \/ res[s] # "ok")
      BY <1>2 DEF StageStep, TaskEnds
    <3>2. QED
      BY <3>1, Zenon
  <2>3. \A r \in Stages : res'[r] = "cancelled" => res[r] = "cancelled" \/ cancelled
    BY <1>1, <1>2 DEF StageStep, RecvCancelled, Recv, RecvClosed, Emit, Send, RunReturns,
                      FinishReturns, OperatorFails, Panic, TaskEnds, Return, TypeOK
  <2>4. \A r \in Stages : res'[r] = "cancelled" => cancelled'
    BY <2>2, <2>3 DEF Joined
  <2>5. \A r \in Active : status[r] # "pending" => pc'[r] = "done"
    BY <1>2, EndsAreFinal DEF Joined, Active
  <2>6. \A c \in marked : res'[c] = "ok" /\ \A p \in Producers(c) \cap Active : pc'[p] = "done"
    BY <1>1, <1>2, EndsAreFinal DEF Joined, Active, TypeOK
  <2>7. QED
    BY <2>1, <2>4, <2>5, <2>6 DEF Joined, Producers
<1>3. CASE UserCancel
  BY <1>3 DEF UserCancel, stageVars, jobVars, Joined, Producers, Active
<1>4. ASSUME NEW s \in Stages, Collect(s) PROVE Joined'
  <2>1. /\ UNCHANGED <<pc, res, cancelled>> /\ Active' = Active
        /\ pc[s] = "done"
        /\ \A r \in Stages : r < s => status[r] # "pending"
    BY <1>4 DEF Collect, stageVars, NextHandle, Active
  <2>2. \A r \in Stages : r # s => status'[r] = status[r]
    BY <1>1, <1>4 DEF Collect, TypeOK
  <2>3. marked' = marked \/ (marked' = marked \cup {s} /\ res[s] = "ok")
    BY <1>4 DEF Collect, LeavesMarker
  <2>4. \A p \in Producers(s) \cap Active : pc[p] = "done"
    BY <2>1, WiringAssumption DEF Producers, Joined
  <2>5. \A r \in Active : status'[r] # "pending" => pc[r] = "done"
    BY <2>1, <2>2 DEF Joined, Active
  <2>6. \A c \in marked' : res[c] = "ok" /\ \A p \in Producers(c) \cap Active : pc[p] = "done"
    BY <2>3, <2>4 DEF Joined
  <2>7. QED
    BY <2>1, <2>5, <2>6 DEF Joined, Producers
<1>5. ASSUME NEW s \in Stages, JoinPanicked(s) PROVE Joined'
  BY <1>5 DEF JoinPanicked, stageVars, Joined, Producers, Active
<1>6. CASE FinishJob
  BY <1>6 DEF FinishJob, stageVars, Joined, Producers, Active
<1>7. CASE UNCHANGED vars
  BY <1>7 DEF vars, stageVars, jobVars, Joined, Producers, Active
<1>8. QED
  BY <1>2, <1>3, <1>4, <1>5, <1>6, <1>7 DEF Next, JobStep

(* So does being whole, until an operator returns an error. *)
LEMMA WholeInductive ==
  ASSUME IInv, WholeInv, [Next]_vars, NoErrors'
  PROVE  Whole'
<1>1. TypeOK /\ ResInv /\ Joined
  BY DEF IInv, StageInv, WholeInv
<1>2. ASSUME NEW s \in Stages, StageStep(s) PROVE Whole'
  <2>1. NoErrors
    BY <1>2, EndsAreFinal DEF NoErrors
  <2>2. Whole
    BY <2>1 DEF WholeInv
  <2>3. RecvClosed(s) => \A p \in Producers(s) \cap Active : res[p] = "ok" \/ pc[p] = "panicked"
    <3> SUFFICES ASSUME RecvClosed(s), NEW p \in Producers(s) \cap Active, pc[p] # "panicked"
                 PROVE  res[p] = "ok"
      OBVIOUS
    <3>1. Gone(p) /\ ~cancelled /\ p \in Stages
      BY DEF RecvClosed, Producers
    <3>2. pc[p] \in {"returned", "done"}
      BY <3>1 DEF Gone
    <3>3. res[p] # "none" /\ res[p] # "err" /\ res[p] # "cancelled"
      BY <3>1, <3>2, <1>1, <2>1 DEF ResInv, Joined, NoErrors
    <3>4. QED
      BY <3>1, <3>3, <1>1 DEF TypeOK
  <2>4. ASSUME NEW c \in Stages, pc'[c] = "finish" \/ res'[c] = "ok"
        PROVE  (RecvClosed(s) /\ c = s) \/ pc[c] = "finish" \/ res[c] = "ok"
    <3>1. CASE c # s
      <4>1. /\ pc' = pc \/ \E x : pc' = [pc EXCEPT ![s] = x]
            /\ res' = res \/ \E x : res' = [res EXCEPT ![s] = x]
        BY <1>2 DEF StageStep, RecvCancelled, Recv, RecvClosed, Emit, Send, RunReturns,
                    FinishReturns, OperatorFails, Panic, TaskEnds, Return
      <4>2. QED
        BY <1>1, <2>4, <3>1, <4>1 DEF TypeOK
    <3>2. CASE c = s
      <4>1. CASE RecvCancelled(s) \/ OperatorFails(s)
        BY <1>1, <2>4, <3>2, <4>1 DEF RecvCancelled, OperatorFails, Return, TypeOK
      <4>2. CASE FinishReturns(s)
        BY <3>2, <4>2 DEF FinishReturns
      <4>3. CASE RecvClosed(s)
        BY <3>2, <4>3
      <4>4. CASE Recv(s) \/ Emit(s) \/ Send(s) \/ RunReturns(s) \/ Panic(s) \/ TaskEnds(s)
        BY <1>1, <2>4, <3>2, <4>4 DEF Recv, Emit, Send, RunReturns, Panic, TaskEnds, TypeOK
      <4>5. QED
        BY <1>2, <4>1, <4>2, <4>3, <4>4 DEF StageStep
    <3>3. QED
      BY <3>1, <3>2
  <2>5. ASSUME NEW c \in Stages, pc'[c] = "finish" \/ res'[c] = "ok",
               NEW p \in Producers(c) \cap Active
        PROVE  res'[p] = "ok" \/ pc'[p] = "panicked"
    <3>1. res[p] = "ok" \/ pc[p] = "panicked"
      BY <2>2, <2>3, <2>4, <2>5 DEF Whole
    <3>2. p \in Stages
      BY DEF Producers
    <3>3. QED
      BY <1>2, <3>1, <3>2, EndsAreFinal
  <2>6. plan' = plan
    BY <1>2 DEF StageStep
  <2>7. QED
    BY <2>5, <2>6 DEF Whole, Producers, Active
<1>3. CASE UNCHANGED <<plan, pc, res>>
  <2>1. NoErrors
    BY <1>3 DEF NoErrors
  <2>2. QED
    BY <1>3, <2>1 DEF WholeInv, Whole, Producers, Active
<1>4. UserCancel \/ JobStep \/ UNCHANGED vars => UNCHANGED <<plan, pc, res>>
  BY DEF UserCancel, JobStep, Collect, JoinPanicked, FinishJob, vars, stageVars
<1>5. QED
  BY <1>2, <1>3, <1>4 DEF Next

(* As long as no operator has returned an error, cancellation and panics   *)
(* included, a cache marker only goes to stages with whole inputs.  (Once  *)
(* one has it need not: the run job_marker_race.)                          *)
THEOREM MarkersAreWhole == Spec => []MarkerIsWholeWithoutErrors
<1>1. Init => WholeInv
  BY DEF Init, WholeInv, Joined, Whole, Active
<1>2. IInv /\ WholeInv /\ [Next]_vars => WholeInv'
  BY JoinedInductive, WholeInductive DEF WholeInv
<1>3. IInv /\ WholeInv => MarkerIsWholeWithoutErrors
  BY DEF IInv, StageInv, EndInv, TypeOK, WholeInv, Joined, Whole, NoErrors,
         MarkerMeansWholeInput, MarkerIsWholeWithoutErrors
<1>4. QED
  BY <1>1, <1>2, <1>3, JobInvariant, PTL DEF Spec

-----------------------------------------------------------------------------
(* A stage's step changes no other stage's counters, place or result.      *)
LEMMA OnlyItsOwn ==
  ASSUME TypeOK, NEW s \in Stages, StageStep(s), NEW r \in Stages, r # s
  PROVE  /\ emitted'[r] = emitted[r] /\ got'[r] = got[r]
         /\ pc'[r] = pc[r] /\ res'[r] = res[r]
<1>1. CASE RecvCancelled(s) \/ FinishReturns(s) \/ OperatorFails(s)
  BY <1>1 DEF TypeOK, RecvCancelled, FinishReturns, OperatorFails, Return
<1>2. CASE Recv(s)
  BY <1>2 DEF TypeOK, Recv
<1>3. CASE RecvClosed(s)
  BY <1>3 DEF TypeOK, RecvClosed, Return
<1>4. CASE Emit(s) \/ Send(s) \/ RunReturns(s)
  BY <1>4 DEF TypeOK, Emit, Send, RunReturns
<1>5. CASE Panic(s) \/ TaskEnds(s)
  BY <1>5 DEF TypeOK, Panic, TaskEnds
<1>6. QED
  BY <1>1, <1>2, <1>3, <1>4, <1>5 DEF StageStep

(* A joined stage's task has returned, and the job is a success as long as *)
(* every stage joined so far completed.                                    *)
Settles ==
  /\ \A s \in Active : status[s] # "pending" => pc[s] = "done"
  /\ ok <=> \A s \in Active : status[s] # "pending" => Completes(s)

(* A task that is done takes no step, and others' steps leave it alone.    *)
LEMMA DoneIsDone ==
  ASSUME TypeOK, NEW s \in Stages, StageStep(s), NEW r \in Stages, pc[r] = "done"
  PROVE  /\ pc'[r] = "done" /\ res'[r] = res[r]
         /\ tally'[r] = tally[r] /\ emitted'[r] = emitted[r]
<1>1. CASE RecvCancelled(s) \/ FinishReturns(s) \/ OperatorFails(s)
  BY <1>1 DEF TypeOK, RecvCancelled, FinishReturns, OperatorFails, Return, InOperator
<1>2. CASE Recv(s)
  BY <1>2 DEF TypeOK, Recv
<1>3. CASE RecvClosed(s)
  BY <1>3 DEF TypeOK, RecvClosed, Return
<1>4. CASE Emit(s) \/ Send(s)
  <2>1. CASE Emit(s)
    BY <2>1 DEF TypeOK, Emit, InOperator
  <2>2. CASE Send(s)
    BY <2>2 DEF TypeOK, Send
  <2>3. QED
    BY <1>4, <2>1, <2>2
<1>5. CASE RunReturns(s)
  BY <1>5 DEF TypeOK, RunReturns, InOperator
<1>6. CASE Panic(s) \/ TaskEnds(s)
  BY <1>6 DEF TypeOK, Panic, TaskEnds, InOperator
<1>7. QED
  BY <1>1, <1>2, <1>3, <1>4, <1>5, <1>6 DEF StageStep

LEMMA SettlesInductive == IInv /\ Settles /\ [Next]_vars => Settles'
<1> SUFFICES ASSUME IInv, Settles, [Next]_vars PROVE Settles'
  OBVIOUS
<1> USE DEF IInv, StageInv, Active
<1>1. ASSUME NEW s \in Stages, StageStep(s) PROVE Settles'
  <2>1. plan' = plan /\ live' = live /\ status' = status /\ ok' = ok
    BY <1>1 DEF StageStep, jobVars
  <2>2. \A r \in Active : status'[r] # "pending" =>
          pc'[r] = "done" /\ (Completes(r)' <=> Completes(r))
    BY <1>1, <2>1, DoneIsDone DEF Settles, Completes, EveryInputFailed
  <2>3. QED
    BY <2>1, <2>2 DEF Settles
<1>2. ASSUME NEW s \in Stages, Collect(s) PROVE Settles'
  <2>1. UNCHANGED <<plan, live, pc, res, tally, emitted>>
    BY <1>2 DEF Collect, stageVars
  <2>2. /\ status[s] = "pending" /\ pc[s] = "done" /\ s \in Stages
        /\ status' = [status EXCEPT ![s] = IF Completes(s) THEN "complete" ELSE "failed"]
        /\ ok' = (ok /\ Completes(s))
    BY <1>2 DEF Collect, NextHandle
  <2>3. \A r \in Stages : Completes(r)' <=> Completes(r)
    BY <2>1 DEF Completes, EveryInputFailed
  <2>4. status'[s] # "pending" /\ \A r \in Stages : r # s => status'[r] = status[r]
    BY <2>2 DEF TypeOK
  <2>5. s \in Active
    BY <2>2 DEF EmitInv
  <2>6. ok' <=> \A r \in Active : status'[r] # "pending" => Completes(r)
    BY <2>2, <2>4, <2>5 DEF Settles
  <2>7. \A r \in Active : status'[r] # "pending" => pc'[r] = "done"
    BY <2>1, <2>2, <2>4 DEF Settles
  <2>8. QED
    BY <2>1, <2>3, <2>6, <2>7 DEF Settles
<1>3. ASSUME UNCHANGED <<plan, live, pc, res, tally, emitted, status, ok>> PROVE Settles'
  BY <1>3 DEF Settles, Completes, EveryInputFailed
<1>4. QED
  BY <1>1, <1>2, <1>3 DEF Next, JobStep, JoinPanicked, FinishJob, UserCancel, vars,
                          stageVars, jobVars

(* Stopping a live job is no failure, whatever its stages were at; an      *)
(* error of any of them is.                                                *)
THEOREM StopsAreNoFailures == Spec => []StopIsNoFailure
<1>1. Init => Settles
  BY DEF Init, Settles, Active
<1>2. IInv /\ Settles => StopIsNoFailure
  <2> SUFFICES ASSUME IInv, Settles, report = "finished", live
               PROVE  ok <=> \A s \in Active :
                               res[s] # "err" /\ ~(res[s] = "ok" /\ EveryInputFailed(s))
    BY DEF StopIsNoFailure
  <2>1. \A s \in Active : s \in Stages /\ status[s] # "pending" /\ pc[s] = "done"
    BY DEF IInv, JobInv, Settles, Active
  <2>2. \A s \in Active : res[s] \in {"ok", "err", "cancelled"}
    BY <2>1 DEF IInv, StageInv, TypeOK, ResInv
  <2>3. ok <=> \A s \in Active : Completes(s)
    BY <2>1 DEF Settles
  <2>4. \A s \in Active :
          Completes(s) <=> res[s] # "err" /\ ~(res[s] = "ok" /\ EveryInputFailed(s))
    BY <2>2 DEF Completes
  <2>5. QED
    BY <2>3, <2>4
<1>3. QED
  BY <1>1, <1>2, SettlesInductive, JobInvariant, PTL DEF Spec

(* What a caller may take for granted of a job, for every wiring, plan,    *)
(* capacity and fault.                                                     *)
THEOREM JobsAreSound == Spec => []JobIsSound
  BY JobTypeCorrect, SuccessIsLossless, MarkersAreWhole, StopsAreNoFailures, PTL
     DEF JobIsSound

(* As a producer, a stage counts an item while it is there, and once gone  *)
(* it stays away.                                                          *)
LEMMA ProducerSide ==
  ASSUME TypeOK, NEW s \in Stages, StageStep(s)
  PROVE  \/ emitted'[s] = emitted[s] /\ (Gone(s) => Gone(s)')
         \/ emitted'[s] = emitted[s] + 1 /\ ~Gone(s) /\ ~Gone(s)'
<1>1. CASE RecvCancelled(s) \/ FinishReturns(s) \/ OperatorFails(s)
  BY <1>1 DEF TypeOK, RecvCancelled, FinishReturns, OperatorFails, Return, Gone
<1>2. CASE Recv(s)
  BY <1>2 DEF TypeOK, Recv, Gone
<1>3. CASE RecvClosed(s)
  BY <1>3 DEF TypeOK, RecvClosed, Return, Gone
<1>4. CASE Emit(s)
  BY <1>4 DEF TypeOK, Emit, InOperator, Gone
<1>5. CASE Send(s) \/ RunReturns(s)
  BY <1>5 DEF TypeOK, Send, RunReturns, Gone
<1>6. CASE Panic(s) \/ TaskEnds(s)
  BY <1>6 DEF TypeOK, Panic, TaskEnds, Gone
<1>7. QED
  BY <1>1, <1>2, <1>3, <1>4, <1>5, <1>6 DEF StageStep

(* As a consumer, a stage receives the next item, sees the end of a whole  *)
(* stream, leaves, or does nothing the edge can see.                       *)
LEMMA ConsumerSide ==
  ASSUME StageInv, NEW c \in Stages, StageStep(c), NEW p \in Producers(c)
  PROVE  \/ /\ EdgeConsumer(p, c) = "receiving" /\ EdgeConsumer(p, c)' = "receiving"
            /\ got[c][p] < emitted[p] /\ got'[c][p] = got[c][p] + 1
         \/ /\ got'[c][p] = got[c][p]
            /\ \/ EdgeConsumer(p, c)' = EdgeConsumer(p, c)
               \/ /\ EdgeConsumer(p, c) = "receiving" /\ EdgeConsumer(p, c)' = "ended"
                  /\ Gone(p) /\ got[c][p] = emitted[p]
               \/ EdgeConsumer(p, c) # "gone" /\ EdgeConsumer(p, c)' = "gone"
<1>1. TypeOK /\ EmitInv /\ TransitInv /\ ResInv
  BY DEF StageInv
<1>2. p \in Stages /\ c \in Consumers[p] /\ Active' = Active
  BY DEF Producers, StageStep, Active
<1>3. pc[c] \in {"recv", "run", "finish"} => res[c] = "none"
  BY <1>1 DEF ResInv, TypeOK
<1>4. ASSUME NEW r \in {"ok", "err", "cancelled"}, Return(c, r),
             pc[c] \in {"recv", "run", "finish"},
             r = "ok" /\ pc[c] # "finish" => \/ Gone(p) /\ got[c][p] = emitted[p]
                                             \/ p \notin Active
      PROVE  /\ got'[c][p] = got[c][p]
             /\ \/ EdgeConsumer(p, c)' = EdgeConsumer(p, c)
                \/ /\ EdgeConsumer(p, c) = "receiving" /\ EdgeConsumer(p, c)' = "ended"
                   /\ Gone(p) /\ got[c][p] = emitted[p]
                \/ EdgeConsumer(p, c) # "gone" /\ EdgeConsumer(p, c)' = "gone"
  <2>1. got' = got /\ pc'[c] = "returned" /\ res'[c] = r
    BY <1>1, <1>4 DEF Return, TypeOK
  <2>2. QED
    BY <1>2, <1>3, <1>4, <2>1 DEF EdgeConsumer, Gone
<1>5. CASE RecvCancelled(c) \/ FinishReturns(c) \/ OperatorFails(c)
  BY <1>4, <1>5 DEF RecvCancelled, FinishReturns, OperatorFails, InOperator
<1>6. CASE Recv(c)
  <2>1. /\ pc[c] = "recv" /\ chan[c] # <<>> /\ res'[c] = res[c] /\ pc'[c] \in {"run", "recv"}
        /\ got' = [got EXCEPT ![c] = [got[c] EXCEPT ![Head(chan[c])[1]] = @ + 1]]
    BY <1>1, <1>6 DEF Recv, TypeOK
  <2>2. EdgeConsumer(p, c) = "receiving" /\ EdgeConsumer(p, c)' = "receiving"
    BY <1>2, <1>3, <2>1 DEF EdgeConsumer, Gone
  <2>3. got[c] \in [Stages \cup {Media} -> Nat] /\ got[c][p] \in Nat /\ emitted[p] \in Nat
    BY <1>1, <1>2 DEF TypeOK
  <2>4. CASE Head(chan[c])[1] = p
    <3>1. Carries(chan[c], p, got[c][p], Last(p, c))
      BY <1>1, <1>2, <2>1 DEF TransitInv, InTransit, EmitInv, Gone
    <3>2. Last(p, c) \in Int /\ Last(p, c) <= emitted[p]
      BY <2>3 DEF Last
    <3>3. got[c][p] < Last(p, c)
      BY <1>1, <1>2, <2>1, <2>3, <2>4, <3>1, <3>2, CarriesTail DEF TypeOK
    <3>4. got[c][p] < emitted[p]
      BY <2>3, <3>2, <3>3
    <3>5. got'[c][p] = got[c][p] + 1
      BY <1>1, <1>2, <2>1, <2>3, <2>4 DEF TypeOK
    <3>6. QED
      BY <2>2, <3>4, <3>5
  <2>5. CASE Head(chan[c])[1] # p
    <3>1. got'[c][p] = got[c][p]
      BY <1>1, <1>2, <2>1, <2>3, <2>5 DEF TypeOK
    <3>2. QED
      BY <2>2, <3>1
  <2>6. QED
    BY <2>4, <2>5
<1>7. CASE RecvClosed(c)
  <2>1. pc[c] = "recv" /\ (p \in Active => Gone(p)) /\ got[c][p] = emitted[p]
    BY <1>7, ClosedMeansWhole DEF RecvClosed
  <2>2. CASE plan[c] = "run"
    <3>1. got' = got /\ pc'[c] = "finish" /\ res'[c] = res[c]
      BY <1>1, <1>7, <2>2 DEF RecvClosed, TypeOK
    <3>2. QED
      BY <1>2, <1>3, <2>1, <3>1 DEF EdgeConsumer, Gone
  <2>3. CASE plan[c] # "run"
    <3>1. Return(c, "ok")
      BY <1>7, <2>3 DEF RecvClosed
    <3>2. QED
      BY <1>4, <2>1, <3>1
  <2>4. QED
    BY <2>2, <2>3
<1>8. CASE Emit(c) \/ Send(c)
  <2>1. got' = got /\ pc' = pc /\ res' = res
    BY <1>8 DEF Emit, Send
  <2>2. QED
    BY <1>2, <2>1 DEF EdgeConsumer, Gone
<1>9. CASE RunReturns(c)
  <2>1. got' = got /\ res' = res /\ pc[c] = "run" /\ pc'[c] = "recv"
    BY <1>1, <1>9 DEF RunReturns, TypeOK
  <2>2. QED
    BY <1>2, <1>3, <2>1 DEF EdgeConsumer, Gone
<1>10. CASE Panic(c)
  <2>1. got' = got /\ res' = res /\ pc[c] \in {"run", "finish"} /\ pc'[c] = "panicked"
    BY <1>1, <1>10 DEF Panic, InOperator, TypeOK
  <2>2. QED
    BY <1>2, <1>3, <2>1 DEF EdgeConsumer, Gone
<1>11. CASE TaskEnds(c)
  <2>1. got' = got /\ res' = res /\ pc[c] = "returned" /\ pc'[c] = "done"
    BY <1>1, <1>11 DEF TaskEnds, TypeOK
  <2>2. QED
    BY <1>2, <2>1 DEF EdgeConsumer, Gone
<1>12. QED
  BY <1>5, <1>6, <1>7, <1>8, <1>9, <1>10, <1>11 DEF StageStep

(* What every edge sees of a step of the job is a step of its stream.      *)
LEMMA EdgeStep ==
  ASSUME IInv, [Next]_vars, NEW p \in Stages, NEW c \in Consumers[p]
  PROVE  [Edge(p, c)!Next]_(Edge(p, c)!vars)
<1> USE DEF Edge!Next, Edge!vars
<1>1. StageInv /\ TypeOK /\ c \in Stages /\ p # c /\ p \in Producers(c)
  BY WiringAssumption DEF IInv, StageInv, Producers, Stages
<1>2. ASSUME NEW s \in Stages, StageStep(s)
      PROVE  [Edge(p, c)!Next]_(Edge(p, c)!vars)
  <2>0. Active' = Active
    BY <1>2 DEF StageStep, Active
  <2>1. CASE s # p /\ s # c
    <3>1. /\ emitted'[p] = emitted[p] /\ pc'[p] = pc[p]
          /\ got'[c] = got[c] /\ pc'[c] = pc[c] /\ res'[c] = res[c]
      BY <1>1, <1>2, <2>1, OnlyItsOwn
    <3>2. QED
      BY <2>0, <3>1 DEF EdgeConsumer, Gone
  <2>2. CASE s = p
    <3>1. got'[c] = got[c] /\ pc'[c] = pc[c] /\ res'[c] = res[c]
      BY <1>1, <1>2, <2>2, OnlyItsOwn
    <3>2. EdgeConsumer(p, c)' = EdgeConsumer(p, c)
      BY <2>0, <3>1 DEF EdgeConsumer, Gone
    <3>3. \/ emitted'[p] = emitted[p] /\ (Gone(p) => Gone(p)')
          \/ emitted'[p] = emitted[p] + 1 /\ ~Gone(p) /\ ~Gone(p)'
      BY <1>1, <1>2, <2>2, ProducerSide
    <3>4. CASE emitted'[p] = emitted[p] /\ Gone(p)' = Gone(p)
      BY <3>1, <3>2, <3>4
    <3>5. CASE emitted'[p] = emitted[p] /\ ~Gone(p) /\ Gone(p)'
      BY <3>1, <3>2, <3>5 DEF Edge!Close
    <3>6. CASE emitted'[p] = emitted[p] + 1 /\ ~Gone(p) /\ ~Gone(p)'
      BY <3>1, <3>2, <3>6 DEF Edge!Send
    <3>7. QED
      BY <3>3, <3>4, <3>5, <3>6 DEF Gone
  <2>3. CASE s = c
    <3>1. emitted'[p] = emitted[p] /\ pc'[p] = pc[p]
      BY <1>1, <1>2, <2>3, OnlyItsOwn
    <3>2. Gone(p)' = Gone(p)
      BY <3>1 DEF Gone
    <3>3. \/ /\ EdgeConsumer(p, c) = "receiving" /\ EdgeConsumer(p, c)' = "receiving"
             /\ got[c][p] < emitted[p] /\ got'[c][p] = got[c][p] + 1
          \/ /\ got'[c][p] = got[c][p]
             /\ \/ EdgeConsumer(p, c)' = EdgeConsumer(p, c)
                \/ /\ EdgeConsumer(p, c) = "receiving" /\ EdgeConsumer(p, c)' = "ended"
                   /\ Gone(p) /\ got[c][p] = emitted[p]
                \/ EdgeConsumer(p, c) # "gone" /\ EdgeConsumer(p, c)' = "gone"
      BY <1>1, <1>2, <2>3, ConsumerSide
    <3>4. QED
      BY <3>1, <3>2, <3>3 DEF Edge!Receive, Edge!End, Edge!Leave
  <2>4. QED
    BY <2>1, <2>2, <2>3
<1>3. ASSUME UNCHANGED <<plan, stageVars>>
      PROVE  [Edge(p, c)!Next]_(Edge(p, c)!vars)
  BY <1>3 DEF stageVars, EdgeConsumer, Gone, Active
<1>4. CASE UserCancel
  BY <1>3, <1>4 DEF UserCancel
<1>5. CASE JobStep
  BY <1>3, <1>5 DEF JobStep, Collect, JoinPanicked, FinishJob
<1>6. CASE UNCHANGED vars
  BY <1>3, <1>6 DEF vars
<1>7. QED
  BY <1>2, <1>4, <1>5, <1>6 DEF Next

(* Every edge of every job implements ItemStream. *)
THEOREM JobImplementsStreams == Spec => EdgesAreStreams
<1>1. Init => \A p \in Stages : \A c \in Consumers[p] : Edge(p, c)!Init
  <2> SUFFICES ASSUME Init, NEW p \in Stages, NEW c \in Consumers[p]
               PROVE  Edge(p, c)!Init
    OBVIOUS
  <2>1. emitted[p] = 0 /\ got[c][p] = 0 /\ ~Gone(p) /\ EdgeConsumer(p, c) = "receiving"
    BY WiringAssumption DEF Init, Gone, EdgeConsumer, Active
  <2>2. QED
    BY <2>1 DEF Edge!Init
<1>2. IInv /\ [Next]_vars =>
        [\A p \in Stages : \A c \in Consumers[p] :
           [Edge(p, c)!Next]_(Edge(p, c)!vars)]_vars
  BY EdgeStep
<1>3. QED
  BY <1>1, <1>2, JobInvariant, PTL DEF Spec, EdgesAreStreams

(* No step of any job loses, repeats or reorders an item, or takes one     *)
(* after the cancellation.                                                 *)
THEOREM JobStepsAreOrderly == Spec => StepsAreOrderly
  BY CancelledIntakeStops, JobImplementsStreams, PTL DEF StepsAreOrderly
=============================================================================
