------------------------------ MODULE MCZ8000 ------------------------------
(***************************************************************************)
(* A small guest for the z8000 session: it enables interrupts, calls a     *)
(* subroutine in a loop, and may halt or go on in normal mode.             *)
(***************************************************************************)
EXTENDS Z8000Session, TLC

To(op, a) == [op |-> op, target |-> a, sources |-> {}, touch |-> <<>>]
I(op) == To(op, 0)
Masks(op, sources) == [I(op) EXCEPT !.sources = sources]
Moves(touch) == [I("plain") EXCEPT !.touch = touch]
Reads(a) == [addr |-> a, kind |-> "read"]
Writes(a) == [addr |-> a, kind |-> "write"]

\* 0: the main loop.  5: the subroutine.  7: the program in normal mode.
\* 10: the trap handler.  11: the VI handler.  12: the NVI handler, which calls the
\* subroutine too.
GuestCode ==
     0 :> Masks("ei", {"nvi"})  @@ 1 :> To("call", 5)  @@ 2 :> To("branch", 0)
  @@ 3 :> Masks("ei", {"vi"})   @@ 4 :> To("enter", 7)
  @@ 5 :> I("retcc")            @@ 6 :> I("ret")
  @@ 7 :> To("call", 5)         @@ 8 :> Masks("di", {"vi"})  @@ 9 :> I("halt")
  @@ 10 :> I("iret")            @@ 11 :> I("iret")
  @@ 12 :> Moves(<<Reads(0), Writes(0)>>)  @@ 13 :> To("call", 5)  @@ 14 :> I("iret")

Handler(a) == [pc |-> a, fcw |-> [sn |-> TRUE, vie |-> FALSE, nvie |-> FALSE]]
GuestReset == Handler(0)
GuestPsa == "trap" :> Handler(10) @@ "vi" :> Handler(11) @@ "nvi" :> Handler(12)

GuestParts ==
  [a \in Addr |-> CASE a <= 4 -> "main" [] a \in 5 .. 6 -> "sub" [] a \in 7 .. 9 -> "user"
                   [] a >= 10 -> "handler"]

\* What the proof that its returns pair asks of a program holds of this one.
ASSUME GuestAssumption == Disciplined(GuestParts)
=============================================================================
