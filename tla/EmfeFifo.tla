------------------------------ MODULE EmfeFifo ------------------------------
(***************************************************************************)
(* What a receive buffer promises the guest: the characters typed come out *)
(* once each and in order; one that finds the buffer full is dropped, and  *)
(* the overrun flag says so until the guest clears it.                     *)
(***************************************************************************)
EXTENDS Naturals, Sequences

CONSTANTS Char, Zero, Capacity

VARIABLES queue, overrun, dr

fifoVars == <<queue, overrun, dr>>

Init == queue = <<>> /\ overrun = FALSE /\ dr = Zero

Receive(c) ==
  /\ Len(queue) < Capacity
  /\ queue' = Append(queue, c) /\ UNCHANGED <<overrun, dr>>

Drop ==
  /\ Len(queue) = Capacity
  /\ overrun' = TRUE /\ UNCHANGED <<queue, dr>>

Take ==
  /\ queue # <<>>
  /\ dr' = Head(queue) /\ queue' = Tail(queue) /\ UNCHANGED overrun

TakeNothing == queue = <<>> /\ dr' = Zero /\ UNCHANGED <<queue, overrun>>

Acknowledge == overrun' = FALSE /\ UNCHANGED <<queue, dr>>

Clear == queue' = <<>> /\ overrun' = FALSE /\ UNCHANGED dr

Next == \/ \E c \in Char : Receive(c)
        \/ Drop \/ Take \/ TakeNothing \/ Acknowledge \/ Clear

Spec == Init /\ [][Next]_fifoVars
=============================================================================
