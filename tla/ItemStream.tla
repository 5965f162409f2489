------------------------------ MODULE ItemStream ------------------------------
(***************************************************************************)
(* What one edge of an indexing job promises: the items of one producer    *)
(* reach one consumer in the order they were emitted, each once, and the   *)
(* consumer sees the end of the stream only when the producer has gone and *)
(* everything it emitted has been received.  No capacity, no tasks, no     *)
(* cancellation: those are how Pipeline implements it.                     *)
(*                                                                         *)
(* Items are numbered, so that a count stands for the prefix it counts.    *)
(***************************************************************************)
EXTENDS Naturals

VARIABLES
  sent,      \* items emitted so far
  received,  \* items the consumer has received, a prefix of those
  open,      \* the producer may still emit
  consumer   \* "receiving", "ended" (saw the end of the stream) or "gone"

vars == <<sent, received, open, consumer>>

Init ==
  /\ sent = 0
  /\ received = 0
  /\ open = TRUE
  /\ consumer = "receiving"

Send ==
  /\ open
  /\ sent' = sent + 1
  /\ UNCHANGED <<received, open, consumer>>

Receive ==
  /\ consumer = "receiving"
  /\ received < sent
  /\ received' = received + 1
  /\ UNCHANGED <<sent, open, consumer>>

Close ==
  /\ open
  /\ open' = FALSE
  /\ UNCHANGED <<sent, received, consumer>>

(* The end of the stream: nothing is left and nothing can follow.          *)
End ==
  /\ consumer = "receiving"
  /\ ~open
  /\ received = sent
  /\ consumer' = "ended"
  /\ UNCHANGED <<sent, received, open>>

(* The consumer gives up: it failed or was cancelled. *)
Leave ==
  /\ consumer # "gone"
  /\ consumer' = "gone"
  /\ UNCHANGED <<sent, received, open>>

Next == Send \/ Receive \/ Close \/ End \/ Leave

Spec == Init /\ [][Next]_vars
=============================================================================
