------------------------------ MODULE Z8000Cpu ------------------------------
(***************************************************************************)
(* The Z8000 core's control flow (z8000/src/Z8000Cpu.cpp): the two modes   *)
(* with a stack each, exceptions, IRET and the privileged instructions.    *)
(* An address holds one instruction, known by what it does to PC, FCW and  *)
(* the stacks; one that only computes is "plain".  A stack is the words    *)
(* the guest has pushed, in a region of its own.                           *)
(***************************************************************************)
EXTENDS Naturals, SequencesExt

CONSTANTS
  LastAddr,         \* addresses are 0 .. LastAddr and wrap, as PC does at 2^16
  Code,             \* the loaded program
  ResetVector,      \* FCW and PC at $0002 and $0004
  Psa,              \* the program status area: FCW and PC of each exception
  Wild,             \* addresses that a word which is no PC may be taken for
  MaxShadowStack    \* Z8000Cpu::MaxShadowStack

Addr == 0 .. LastAddr

\* The FCW bits that control: mode and the two interrupt enables.
Fcw == [sn : BOOLEAN, vie : BOOLEAN, nvie : BOOLEAN]
Ops == {"plain", "branch", "call", "ret", "retcc", "iret", "enter", "ei", "di", "io",
        "halt", "unknown"}
Access == [addr : Addr, kind : {"read", "write"}]

\* sources: what EI and DI name.  touch: the accesses to memory, in the order made.
Instr == [op : Ops, target : Addr, sources : SUBSET {"vi", "nvi"}, touch : Seq(Access)]
Vectors == {"trap", "vi", "nvi"}
Status == [fcw : Fcw, pc : Addr]

\* A program status area whose handlers run in system mode.
ASSUME Z8000Assumption ==
  /\ LastAddr \in Nat
  /\ Code \in [Addr -> Instr]
  /\ ResetVector \in Status
  /\ Psa \in [Vectors -> Status] /\ \A v \in Vectors : Psa[v].fcw.sn
  /\ Wild \subseteq Addr
  /\ MaxShadowStack \in Nat \ {0}

\* What a word on a stack is: a program counter, an FCW or an identifier.
Word == [is : {"pc"}, pc : Addr] \cup [is : {"fcw"}, fcw : Fcw] \cup [is : {"id"}]
PcWord(a) == [is |-> "pc", pc |-> a]
FcwWord(f) == [is |-> "fcw", fcw |-> f]
Identifier == [is |-> "id"]

\* bank is the stack in R14/R15, the other one is in ShadowR14/ShadowR15.
Banks == {"system", "normal"}
Cpu == [pc : Addr, fcw : Fcw, bank : Banks, stack : [Banks -> Seq(Word)], shadow : Seq(Addr),
        halted : BOOLEAN, viLine : BOOLEAN, nviLine : BOOLEAN]

\* The vector's FCW with system mode forced.
ResetCpu ==
  [pc |-> ResetVector.pc, fcw |-> [ResetVector.fcw EXCEPT !.sn = TRUE],
   bank |-> "system", stack |-> [b \in Banks |-> <<>>], shadow |-> <<>>,
   halted |-> FALSE, viLine |-> FALSE, nviLine |-> FALSE]

NextPc(a) == IF a = LastAddr THEN 0 ELSE a + 1
SwapStackBanks(c) == [c EXCEPT !.bank = IF @ = "system" THEN "normal" ELSE "system"]

Push(c, w) == [c EXCEPT !.stack[c.bank] = Append(@, w)]
Pop(c) == [c EXCEPT !.stack[c.bank] = IF @ = <<>> THEN @ ELSE Front(@)]

\* What the top word is taken for; a word of another kind may be anything.
Top(c) == IF c.stack[c.bank] = <<>> THEN Identifier ELSE c.stack[c.bank][Len(c.stack[c.bank])]
AsPc(w) == IF w.is = "pc" THEN {w.pc} ELSE Wild
AsFcw(w) == IF w.is = "fcw" THEN {w.fcw} ELSE Fcw

\* Mutant: FCW is pushed below PC.
TakeExceptionSwapped(c, v, pushIdentifier) ==
  LET in == IF c.fcw.sn THEN c ELSE [SwapStackBanks(c) EXCEPT !.fcw.sn = TRUE]
      id == IF pushIdentifier THEN Push(in, Identifier) ELSE in
      saved == Push(Push(id, FcwWord(id.fcw)), PcWord(id.pc))
  IN [saved EXCEPT !.fcw = Psa[v].fcw, !.pc = Psa[v].pc, !.halted = FALSE]

\* FCW is pushed after system mode has been forced on it.
TakeException(c, v, pushIdentifier) ==
  LET in == IF c.fcw.sn THEN c ELSE [SwapStackBanks(c) EXCEPT !.fcw.sn = TRUE]
      id == IF pushIdentifier THEN Push(in, Identifier) ELSE in
      saved == Push(Push(id, PcWord(id.pc)), FcwWord(id.fcw))
  IN [saved EXCEPT !.fcw = Psa[v].fcw, !.pc = Psa[v].pc, !.halted = FALSE]

Trap(c) == TakeException(c, "trap", TRUE)

Call(c, target) ==
  [Push(c, PcWord(c.pc)) EXCEPT !.pc = target,
     !.shadow = IF Len(@) < MaxShadowStack THEN Append(@, c.pc) ELSE @]

\* Mutant: a return leaves the debugger's call stack alone.
ReturnShadowKept(c, a) == [Pop(c) EXCEPT !.pc = a]

Return(c, a) ==
  [Pop(c) EXCEPT !.pc = a, !.shadow = IF @ = <<>> THEN @ ELSE Front(@)]

\* Mutant: the stack banks are not exchanged on the way to normal mode.
InterruptReturnNoSwap(c, f, a) == [Pop(Pop(c)) EXCEPT !.fcw = f, !.pc = a]

\* The stack banks change when the FCW popped says normal mode.
InterruptReturn(c, f, a) ==
  LET back == [Pop(Pop(c)) EXCEPT !.fcw = f, !.pc = a]
  IN IF f.sn THEN back ELSE SwapStackBanks(back)

SetEnables(c, sources, on) ==
  [c EXCEPT !.fcw.vie = IF "vi" \in sources THEN on ELSE @,
            !.fcw.nvie = IF "nvi" \in sources THEN on ELSE @]

EnableInterrupts(c, sources) ==
  IF ~c.fcw.sn THEN Trap(c) ELSE SetEnables(c, sources, TRUE)

\* Mutant: DI is not privileged.
DisableInterruptsAlways(c, sources) == SetEnables(c, sources, FALSE)

DisableInterrupts(c, sources) ==
  IF ~c.fcw.sn THEN Trap(c) ELSE SetEnables(c, sources, FALSE)

Halt(c) == IF ~c.fcw.sn THEN Trap(c) ELSE [c EXCEPT !.halted = TRUE]

InputOutput(c) == IF ~c.fcw.sn THEN Trap(c) ELSE c

\* "enter" is a system program going to normal mode: two PUSHes of a PC and of
\* a normal FCW, and IRET.
Enter(c, target) ==
  IF ~c.fcw.sn THEN Trap(c)
  ELSE InterruptReturn(Push(Push(c, PcWord(target)), FcwWord([c.fcw EXCEPT !.sn = FALSE])),
                       [c.fcw EXCEPT !.sn = FALSE], target)

\* What one call of ExecuteOne can leave; c.pc is past the instruction already.
Outcomes(c, ins) ==
  CASE ins.op = "plain" -> {c}
    [] ins.op = "branch" -> {c, [c EXCEPT !.pc = ins.target]}
    [] ins.op = "call" -> {Call(c, ins.target)}
    [] ins.op = "ret" -> {Return(c, a) : a \in AsPc(Top(c))}
    [] ins.op = "retcc" -> {c} \cup {Return(c, a) : a \in AsPc(Top(c))}
    [] ins.op = "iret" ->
         IF ~c.fcw.sn THEN {Trap(c)}
         ELSE UNION {{InterruptReturn(c, f, a) : a \in AsPc(Top(Pop(c)))} : f \in AsFcw(Top(c))}
    [] ins.op = "enter" -> {Enter(c, ins.target)}
    [] ins.op = "ei" -> {EnableInterrupts(c, ins.sources)}
    [] ins.op = "di" -> {DisableInterrupts(c, ins.sources)}
    [] ins.op = "io" -> {InputOutput(c)}
    [] ins.op = "halt" -> {Halt(c)}
    [] ins.op = "unknown" -> {Trap(c)}

ExecuteOne(c) ==
  IF c.halted THEN {c} ELSE Outcomes([c EXCEPT !.pc = NextPc(@)], Code[c.pc])

\* Nothing in the plugin raises NMI; the UART drives VI and the timer NVI.
CheckInterrupts(c) ==
  CASE c.viLine /\ c.fcw.vie -> TakeException(c, "vi", TRUE)
    [] ~(c.viLine /\ c.fcw.vie) /\ c.nviLine /\ c.fcw.nvie -> TakeException(c, "nvi", FALSE)
    [] OTHER -> c
=============================================================================
