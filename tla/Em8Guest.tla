------------------------------ MODULE Em8Guest ------------------------------
(***************************************************************************)
(* The guest as the debugger session sees it: the control flow of Em8Cpu   *)
(* (em8/src/Em8Cpu.cpp).  An instruction is known by what it does to PC,   *)
(* to the return addresses on the page-1 stack, to the I flag and to the   *)
(* debugger's shadow stack; every instruction that only computes is        *)
(* "plain".  One model address stands for one instruction, whatever its    *)
(* length in bytes.                                                        *)
(***************************************************************************)
EXTENDS Naturals, Sequences

CONSTANTS
  LastAddr,        \* addresses are 0 .. LastAddr and wrap, as PC does at 2^16
  Code,            \* the loaded program
  ResetPC, IrqPC,  \* the vectors at $FFFC and $FFFE
  StackSlots,      \* return frames the 256-byte stack page can hold
  MaxShadowStack   \* Em8Cpu::MaxShadowStack

Addr == 0 .. LastAddr
Ops == {"plain", "branch", "jmp", "jsr", "rts", "rti", "brk", "cli", "sei",
        "hlt", "undefined"}
Instr == [op : Ops, target : Addr]

ASSUME GuestAssumption ==
  /\ LastAddr \in Nat
  /\ Code \in [Addr -> Instr]
  /\ ResetPC \in Addr /\ IrqPC \in Addr
  /\ StackSlots \in Nat \ {0}
  /\ MaxShadowStack \in Nat \ {0}

\* A call frame holds the return address; an interrupt frame also the flags.
Frame == [kind : {"call", "irq"}, ret : Addr, i : BOOLEAN]

Cpu == [pc : Addr, stack : Seq(Frame), shadow : Seq(Addr), i : BOOLEAN,
        halted : BOOLEAN, irqLine : BOOLEAN]

ResetCpu == [pc |-> ResetPC, stack |-> <<>>, shadow |-> <<>>, i |-> TRUE,
             halted |-> FALSE, irqLine |-> FALSE]

\* Mutant: PC is not truncated to its width.
FallThroughNoWrap(a) == a + 1

FallThrough(a) == IF a = LastAddr THEN 0 ELSE a + 1

\* SP wraps inside page 1: a push into a full page overwrites the oldest frame.
PushFrame(stack, f) ==
  IF Len(stack) < StackSlots THEN Append(stack, f) ELSE Append(Tail(stack), f)

PopFrame(stack) == IF stack = <<>> THEN <<>> ELSE SubSeq(stack, 1, Len(stack) - 1)

\* Frames a pull can see: the top one when it has the shape the instruction
\* expects, otherwise whatever the bytes there happen to decode to.
Pulled(stack, kind) ==
  IF stack # <<>> /\ stack[Len(stack)].kind = kind
  THEN {stack[Len(stack)]} ELSE [kind : {kind}, ret : Addr, i : BOOLEAN]

\* JSR records its return address unless the shadow stack is full.
ShadowPush(shadow, ret) ==
  IF Len(shadow) < MaxShadowStack THEN Append(shadow, ret) ELSE shadow

ShadowPop(shadow) ==
  IF shadow = <<>> THEN shadow ELSE SubSeq(shadow, 1, Len(shadow) - 1)

Interrupt(c, ret) ==
  [c EXCEPT !.stack = PushFrame(@, [kind |-> "irq", ret |-> ret, i |-> c.i]),
            !.i = TRUE, !.pc = IrqPC]

JumpTo(c, a) == [c EXCEPT !.pc = a]

Call(c, target, ret) ==
  [c EXCEPT !.stack = PushFrame(@, [kind |-> "call", ret |-> ret, i |-> c.i]),
            !.shadow = ShadowPush(@, ret), !.pc = target]

Return(c, f) ==
  [c EXCEPT !.stack = PopFrame(@), !.shadow = ShadowPop(@), !.pc = f.ret]

\* Mutant: RTI unwinds the shadow stack as RTS does.
ReturnFromInterruptUnwinds(c, f) ==
  [c EXCEPT !.stack = PopFrame(@), !.shadow = ShadowPop(@), !.i = f.i, !.pc = f.ret]

ReturnFromInterrupt(c, f) ==
  [c EXCEPT !.stack = PopFrame(@), !.i = f.i, !.pc = f.ret]

\* The CPUs that one call of ExecuteOne can leave behind.
Outcomes(c, ins, next) ==
  CASE ins.op = "plain"     -> {JumpTo(c, next)}
    [] ins.op = "branch"    -> {JumpTo(c, next), JumpTo(c, ins.target)}
    [] ins.op = "jmp"       -> {JumpTo(c, ins.target)}
    [] ins.op = "jsr"       -> {Call(c, ins.target, next)}
    [] ins.op = "rts"       -> {Return(c, f) : f \in Pulled(c.stack, "call")}
    [] ins.op = "rti"       -> {ReturnFromInterrupt(c, f) : f \in Pulled(c.stack, "irq")}
    [] ins.op = "brk"       -> {Interrupt(c, next)}
    [] ins.op = "cli"       -> {[JumpTo(c, next) EXCEPT !.i = FALSE]}
    [] ins.op = "sei"       -> {[JumpTo(c, next) EXCEPT !.i = TRUE]}
    [] ins.op = "hlt"       -> {[JumpTo(c, next) EXCEPT !.halted = TRUE]}
    [] ins.op = "undefined" -> {[c EXCEPT !.halted = TRUE]}

ExecuteOne(c) ==
  IF c.halted THEN {c} ELSE Outcomes(c, Code[c.pc], FallThrough(c.pc))

\* IRQ is level-triggered; nothing in the plugin ever raises NMI.
CheckInterrupts(c) ==
  IF ~c.halted /\ c.irqLine /\ ~c.i THEN Interrupt(c, c.pc) ELSE c
-----------------------------------------------------------------------------
(***************************************************************************)
(* How the two stacks of a CPU relate.                                     *)
(***************************************************************************)
\* Entry k of the shadow stack stands for the call frame at pos[k].
StandsFor(pos, shadow, stack) ==
  /\ \A j, k \in 1 .. Len(shadow) : j < k => pos[j] < pos[k]
  /\ \A k \in 1 .. Len(shadow) : /\ stack[pos[k]].kind = "call"
                                 /\ stack[pos[k]].ret = shadow[k]
  /\ \A n \in 1 .. Len(stack) :
       stack[n].kind = "call" => \E k \in 1 .. Len(shadow) : pos[k] = n

\* The shadow stack lists the return addresses of the call frames on the stack,
\* all of them and in their order.
ListsCalls(shadow, stack) ==
  \E pos \in [1 .. Len(shadow) -> 1 .. Len(stack)] : StandsFor(pos, shadow, stack)

TopKind(stack) == IF stack = <<>> THEN "none" ELSE stack[Len(stack)].kind

\* The guest keeps to its stacks: it returns with the instruction that fits the
\* frame on top, and neither stack is full when something is pushed.
Structured(c) ==
  /\ Len(c.stack) < StackSlots
  /\ ~c.halted =>
       /\ Code[c.pc].op = "jsr" => Len(c.shadow) < MaxShadowStack
       /\ Code[c.pc].op = "rts" => TopKind(c.stack) = "call"
       /\ Code[c.pc].op = "rti" => TopKind(c.stack) = "irq"
=============================================================================
