--------------------------- MODULE MCEm8Session ---------------------------
(***************************************************************************)
(* Small guest programs for the session model.                             *)
(***************************************************************************)
EXTENDS Em8Session, TLC

I(op) == [op |-> op, target |-> 0]
To(op, a) == [op |-> op, target |-> a]

\* 0: main calls 3 in a loop and may leave it to halt; 3 calls 5.
NestedCode == 0 :> To("jsr", 3) @@ 1 :> To("branch", 0) @@ 2 :> To("jmp", 6)
           @@ 3 :> To("jsr", 5) @@ 4 :> I("rts") @@ 5 :> I("rts") @@ 6 :> I("hlt")

\* The same calls with interrupts on; the handler at 7 makes a call of its own.
InterruptCode == 0 :> I("cli") @@ 1 :> To("jsr", 4) @@ 2 :> To("branch", 1)
              @@ 3 :> To("jmp", 9) @@ 4 :> To("jsr", 6) @@ 5 :> I("rts")
              @@ 6 :> I("rts") @@ 7 :> To("jsr", 6) @@ 8 :> I("rti") @@ 9 :> I("hlt")

\* Main, at 1, calls 0 in a loop and may leave it to halt.
ShortCode == 0 :> I("rts") @@ 1 :> To("jsr", 0) @@ 2 :> To("branch", 1) @@ 3 :> I("hlt")

\* One subroutine call in an endless loop.
LoopCode == 0 :> To("jsr", 2) @@ 1 :> To("jmp", 0) @@ 2 :> I("rts")
=============================================================================
