----------------------------- MODULE Z8000Proofs -----------------------------
(***************************************************************************)
(* Proofs about the z8000 core and its session, for every program, every   *)
(* program status area whose handlers run in system mode, and any levels   *)
(* of the devices' lines.                                                  *)
(***************************************************************************)
EXTENDS Z8000Session, SequenceFacts, WellFoundedInduction

\* A processor whose stack bank is that of its mode, and which halts in system
\* mode only.
SoundCpu == {c \in Cpu : (c.bank = "system" <=> c.fcw.sn) /\ (c.halted => c.fcw.sn)}

\* c is in the first instruction of a handler.
Entered(c) == \E v \in Vectors : c.fcw = Psa[v].fcw /\ c.pc = Psa[v].pc

\* What d changed of c is what a normal mode program may change.
Confined(c, d) == d.fcw = c.fcw /\ ~d.halted /\ d.stack["system"] = c.stack["system"]

\* d is c with another current stack.
OtherStack(c, d) ==
  /\ d.pc = c.pc /\ d.fcw = c.fcw /\ d.bank = c.bank /\ d.shadow = c.shadow
  /\ d.halted = c.halted /\ d.viLine = c.viLine /\ d.nviLine = c.nviLine
  /\ \A b \in Banks : b # c.bank => d.stack[b] = c.stack[b]

\* A pushed word changes the current stack only.
LEMMA PushType ==
  ASSUME NEW c \in Cpu, NEW w \in Word
  PROVE  Push(c, w) \in Cpu /\ OtherStack(c, Push(c, w))
<1>1. c.stack \in [Banks -> Seq(Word)] /\ c.bank \in Banks
  BY DEF Cpu
<1>2. Append(c.stack[c.bank], w) \in Seq(Word)
  BY <1>1, AppendProperties
<1>3. Push(c, w) = [c EXCEPT !.stack = [c.stack EXCEPT ![c.bank] = Append(@, w)]]
  BY DEF Push, Cpu
<1>4. [c.stack EXCEPT ![c.bank] = Append(@, w)] \in [Banks -> Seq(Word)]
  BY <1>1, <1>2
<1>5. QED
  BY <1>1, <1>3, <1>4 DEF Cpu, OtherStack

\* A popped word changes the current stack only.
LEMMA PopType ==
  ASSUME NEW c \in Cpu
  PROVE  Pop(c) \in Cpu /\ OtherStack(c, Pop(c))
<1>1. c.stack \in [Banks -> Seq(Word)] /\ c.bank \in Banks
  BY DEF Cpu
<1> DEFINE s == c.stack[c.bank]
           t == IF s = <<>> THEN s ELSE Front(s)
<1>2. t \in Seq(Word)
  <2>1. s \in Seq(Word)
    BY <1>1
  <2>2. s # <<>> => SubSeq(s, 1, Len(s) - 1) \in Seq(Word)
    BY <2>1, PopSeq
  <2>3. QED
    BY <2>1, <2>2 DEF Front
<1>3. Pop(c) = [c EXCEPT !.stack = [c.stack EXCEPT ![c.bank] = t]]
  BY DEF Pop, Cpu
<1> HIDE DEF t
<1>4. [c.stack EXCEPT ![c.bank] = t] \in [Banks -> Seq(Word)]
  BY <1>1, <1>2
<1>5. QED
  BY <1>1, <1>3, <1>4 DEF Cpu, OtherStack

\* The word on top of a stack is a word.
LEMMA TopType ==
  ASSUME NEW c \in Cpu
  PROVE  Top(c) \in Word /\ AsPc(Top(c)) \subseteq Addr /\ AsFcw(Top(c)) \subseteq Fcw
<1>1. c.stack[c.bank] \in Seq(Word)
  BY DEF Cpu
<1>2. Identifier \in Word
  BY DEF Identifier, Word
<1>3. Top(c) \in Word
  <2>1. CASE c.stack[c.bank] = <<>>
    BY <1>2, <2>1 DEF Top
  <2>2. CASE c.stack[c.bank] # <<>>
    <3>1. Len(c.stack[c.bank]) \in 1 .. Len(c.stack[c.bank])
      BY <1>1, <2>2, EmptySeq, LenProperties
    <3>2. QED
      BY <1>1, <2>2, <3>1, ElementOfSeq DEF Top
  <2>3. QED
    BY <2>1, <2>2
<1>4. QED
  BY <1>3, Z8000Assumption DEF Word, AsPc, AsFcw

\* Every exception ends in its handler, in system mode on the system stack.
LEMMA TakeExceptionType ==
  ASSUME NEW c \in SoundCpu, NEW v \in Vectors, NEW pushIdentifier \in BOOLEAN
  PROVE  TakeException(c, v, pushIdentifier) \in SoundCpu /\ Entered(TakeException(c, v, pushIdentifier))
<1> DEFINE in == IF c.fcw.sn THEN c ELSE [SwapStackBanks(c) EXCEPT !.fcw.sn = TRUE]
           id == IF pushIdentifier THEN Push(in, Identifier) ELSE in
           one == Push(id, PcWord(id.pc))
           saved == Push(one, FcwWord(id.fcw))
<1>1. in \in Cpu /\ in.bank = "system"
  BY DEF SoundCpu, Cpu, Fcw, Banks, SwapStackBanks
<1>2. id \in Cpu /\ id.bank = "system"
  <2>1. Identifier \in Word
    BY DEF Identifier, Word
  <2> HIDE DEF in
  <2>2. Push(in, Identifier) \in Cpu /\ Push(in, Identifier).bank = in.bank
    BY <1>1, <2>1, PushType DEF OtherStack
  <2>3. QED
    BY <1>1, <2>2
<1> HIDE DEF id, in
<1>3. PcWord(id.pc) \in Word /\ FcwWord(id.fcw) \in Word
  BY <1>2 DEF PcWord, FcwWord, Word, Cpu
<1>4. one \in Cpu /\ one.bank = "system"
  BY <1>2, <1>3, PushType DEF OtherStack
<1> HIDE DEF one
<1>5. saved \in Cpu /\ saved.bank = "system"
  BY <1>3, <1>4, PushType DEF OtherStack
<1>6. TakeException(c, v, pushIdentifier)
        = [saved EXCEPT !.fcw = Psa[v].fcw, !.pc = Psa[v].pc, !.halted = FALSE]
  BY DEF TakeException, saved, one, id, in
<1> HIDE DEF saved
<1>7. Psa[v].fcw \in Fcw /\ Psa[v].fcw.sn /\ Psa[v].pc \in Addr
  BY Z8000Assumption DEF Status
<1>8. QED
  BY <1>5, <1>6, <1>7 DEF SoundCpu, Cpu, Entered

\* IRET leaves the bank of the mode it goes to.
LEMMA InterruptReturnType ==
  ASSUME NEW c \in SoundCpu, c.fcw.sn, ~c.halted, NEW f \in Fcw, NEW a \in Addr
  PROVE  InterruptReturn(c, f, a) \in SoundCpu
<1> DEFINE one == Pop(c)
           two == Pop(one)
           back == [two EXCEPT !.fcw = f, !.pc = a]
<1>1. c \in Cpu /\ c.bank = "system"
  BY DEF SoundCpu
<1>2. one \in Cpu /\ one.bank = "system" /\ ~one.halted
  BY <1>1, PopType DEF OtherStack
<1> HIDE DEF one
<1>3. two \in Cpu /\ two.bank = "system" /\ ~two.halted
  BY <1>2, PopType DEF OtherStack
<1> HIDE DEF two
<1>4. back \in Cpu /\ back.bank = "system" /\ back.fcw = f /\ ~back.halted
  BY <1>3 DEF Cpu
<1>5. InterruptReturn(c, f, a) = IF f.sn THEN back ELSE SwapStackBanks(back)
  BY DEF InterruptReturn, two, one
<1> HIDE DEF back
<1>6. f.sn \in BOOLEAN
  BY DEF Fcw
<1>7. CASE f.sn
  BY <1>4, <1>5, <1>7 DEF SoundCpu
<1>8. CASE ~f.sn
  <2>1. SwapStackBanks(back) = [back EXCEPT !.bank = "normal"]
    BY <1>4 DEF SwapStackBanks
  <2>2. QED
    BY <1>4, <1>5, <1>8, <2>1 DEF SoundCpu, Cpu, Banks
<1>9. QED
  BY <1>7, <1>8

\* CALL and RET stay in their mode.
LEMMA CallType ==
  ASSUME NEW c \in SoundCpu, NEW a \in Addr
  PROVE  Call(c, a) \in SoundCpu /\ (~c.fcw.sn => Confined(c, Call(c, a)))
<1>1. c \in Cpu
  BY DEF SoundCpu
<1>2. PcWord(c.pc) \in Word
  BY <1>1 DEF PcWord, Word, Cpu
<1> DEFINE p == Push(c, PcWord(c.pc))
           sh == IF Len(p.shadow) < MaxShadowStack THEN Append(p.shadow, c.pc) ELSE p.shadow
<1>3. p \in Cpu /\ OtherStack(c, p)
  BY <1>1, <1>2, PushType
<1>4. Call(c, a) = [p EXCEPT !.pc = a, !.shadow = sh]
  BY DEF Call, Cpu
<1> HIDE DEF p
<1>5. sh \in Seq(Addr)
  BY <1>1, <1>3, AppendProperties DEF Cpu
<1> HIDE DEF sh
<1>6. Call(c, a) \in SoundCpu
  BY <1>3, <1>4, <1>5 DEF SoundCpu, Cpu, OtherStack
<1>7. ASSUME ~c.fcw.sn
      PROVE  Confined(c, Call(c, a))
  BY <1>3, <1>4, <1>7 DEF SoundCpu, Cpu, OtherStack, Confined, Banks
<1>8. QED
  BY <1>6, <1>7

\* The same for RET.
LEMMA ReturnType ==
  ASSUME NEW c \in SoundCpu, NEW a \in Addr
  PROVE  Return(c, a) \in SoundCpu /\ (~c.fcw.sn => Confined(c, Return(c, a)))
<1>1. c \in Cpu
  BY DEF SoundCpu
<1> DEFINE p == Pop(c)
           sh == IF p.shadow = <<>> THEN p.shadow ELSE Front(p.shadow)
<1>2. p \in Cpu /\ OtherStack(c, p)
  BY <1>1, PopType
<1>3. Return(c, a) = [p EXCEPT !.pc = a, !.shadow = sh]
  BY DEF Return, Cpu
<1> HIDE DEF p
<1>4. sh \in Seq(Addr)
  <2>1. p.shadow \in Seq(Addr)
    BY <1>2 DEF Cpu
  <2>2. p.shadow # <<>> => SubSeq(p.shadow, 1, Len(p.shadow) - 1) \in Seq(Addr)
    BY <2>1, PopSeq
  <2>3. QED
    BY <2>1, <2>2 DEF Front
<1> HIDE DEF sh
<1>5. Return(c, a) \in SoundCpu
  BY <1>2, <1>3, <1>4 DEF SoundCpu, Cpu, OtherStack
<1>6. ASSUME ~c.fcw.sn
      PROVE  Confined(c, Return(c, a))
  BY <1>2, <1>3, <1>6 DEF SoundCpu, Cpu, OtherStack, Confined, Banks
<1>7. QED
  BY <1>5, <1>6

\* EI and DI change two bits of FCW.
LEMMA SetEnablesType ==
  ASSUME NEW c \in Cpu, NEW sources, NEW on \in BOOLEAN
  PROVE  LET d == SetEnables(c, sources, on) IN
         /\ d \in Cpu /\ d.fcw.sn = c.fcw.sn /\ d.pc = c.pc /\ d.stack = c.stack
         /\ d.bank = c.bank /\ d.shadow = c.shadow /\ d.halted = c.halted
<1> DEFINE vie == IF "vi" \in sources THEN on ELSE c.fcw.vie
           nvie == IF "nvi" \in sources THEN on ELSE c.fcw.nvie
           f == [c.fcw EXCEPT !.vie = vie, !.nvie = nvie]
<1>1. vie \in BOOLEAN /\ nvie \in BOOLEAN
  BY DEF Cpu, Fcw
<1>2. SetEnables(c, sources, on) = [c EXCEPT !.fcw = [c.fcw EXCEPT !.vie = vie, !.nvie = nvie]]
  BY DEF SetEnables, Cpu, Fcw
<1> HIDE DEF vie, nvie
<1>3. f \in Fcw /\ f.sn = c.fcw.sn
  BY <1>1 DEF Cpu, Fcw
<1> HIDE DEF f
<1>4. SetEnables(c, sources, on) = [c EXCEPT !.fcw = f]
  BY <1>2 DEF f
<1>5. QED
  BY <1>3, <1>4 DEF Cpu

\* One instruction keeps the processor sound, and a normal mode program confined.
LEMMA ExecuteOneType ==
  ASSUME NEW c \in SoundCpu, NEW d \in ExecuteOne(c)
  PROVE  d \in SoundCpu /\ (~c.fcw.sn => Confined(c, d) \/ Entered(d))
<1> DEFINE e == [c EXCEPT !.pc = NextPc(@)]
           ins == Code[c.pc]
<1>1. c.pc \in Addr /\ NextPc(c.pc) \in Addr
  BY Z8000Assumption DEF SoundCpu, Cpu, NextPc, Addr
<1>2. /\ e \in SoundCpu /\ e.fcw = c.fcw /\ e.stack = c.stack /\ e.halted = c.halted
      /\ c.fcw.sn \in BOOLEAN
  BY <1>1 DEF SoundCpu, Cpu, Fcw
<1>3. ins.op \in Ops /\ ins.target \in Addr
  BY <1>1, Z8000Assumption DEF Instr
<1>4. CASE c.halted
  BY <1>4 DEF ExecuteOne, SoundCpu
<1> SUFFICES ASSUME ~c.halted
             PROVE  d \in SoundCpu /\ (~c.fcw.sn => Confined(c, d) \/ Entered(d))
  BY <1>4
<1>5. d \in Outcomes(e, ins)
  BY DEF ExecuteOne
<1> HIDE DEF e, ins
<1>6. Trap(e) \in SoundCpu /\ Entered(Trap(e))
  BY <1>2, TakeExceptionType DEF Trap, Vectors
<1>7. \A f \in SoundCpu : Confined(e, f) => Confined(c, f)
  BY <1>2 DEF Confined
<1>8. CASE ins.op = "plain"
  BY <1>2, <1>5, <1>8 DEF Outcomes, Confined
<1>9. CASE ins.op = "branch"
  <2>1. d = e \/ d = [e EXCEPT !.pc = ins.target]
    BY <1>5, <1>9 DEF Outcomes
  <2>2. QED
    BY <1>2, <1>3, <2>1 DEF Confined, SoundCpu, Cpu
<1>10. CASE ins.op = "call"
  BY <1>2, <1>3, <1>5, <1>7, <1>10, CallType DEF Outcomes
<1>11. CASE ins.op \in {"ret", "retcc"}
  <2>1. d = e \/ \E a \in AsPc(Top(e)) : d = Return(e, a)
    BY <1>5, <1>11 DEF Outcomes
  <2>2. AsPc(Top(e)) \subseteq Addr
    BY <1>2, TopType DEF SoundCpu
  <2>3. CASE d = e
    BY <1>2, <2>3 DEF Confined
  <2>4. QED
    BY <1>2, <1>7, <2>1, <2>2, <2>3, ReturnType
<1>12. CASE ins.op = "iret"
  <2>1. CASE ~e.fcw.sn
    BY <1>5, <1>6, <1>12, <2>1 DEF Outcomes
  <2>2. CASE e.fcw.sn
    <3>1. PICK f \in AsFcw(Top(e)), a \in AsPc(Top(Pop(e))) : d = InterruptReturn(e, f, a)
      BY <1>5, <1>12, <2>2 DEF Outcomes
    <3>2. e \in Cpu /\ Pop(e) \in Cpu
      BY <1>2, PopType DEF SoundCpu
    <3>3. f \in Fcw /\ a \in Addr
      BY <3>2, TopType
    <3>4. QED
      BY <1>2, <2>2, <3>1, <3>3, InterruptReturnType
  <2>3. QED
    BY <2>1, <2>2
<1>13. CASE ins.op = "enter"
  <2>1. d = Enter(e, ins.target)
    BY <1>5, <1>13 DEF Outcomes
  <2>2. CASE ~e.fcw.sn
    BY <1>6, <2>1, <2>2 DEF Enter
  <2>3. CASE e.fcw.sn
    <3> DEFINE f == [e.fcw EXCEPT !.sn = FALSE]
               one == Push(e, PcWord(ins.target))
               two == Push(one, FcwWord(f))
    <3>1. f \in Fcw /\ PcWord(ins.target) \in Word /\ FcwWord(f) \in Word
      BY <1>2, <1>3 DEF SoundCpu, Cpu, Fcw, PcWord, FcwWord, Word
    <3>2. d = InterruptReturn(two, f, ins.target)
      BY <2>1, <2>3 DEF Enter
    <3> HIDE DEF f
    <3>3. one \in SoundCpu /\ OtherStack(e, one)
      BY <1>2, <3>1, PushType DEF SoundCpu, OtherStack
    <3> HIDE DEF one
    <3>4. two \in SoundCpu /\ OtherStack(one, two)
      BY <3>1, <3>3, PushType DEF SoundCpu, OtherStack
    <3> HIDE DEF two
    <3>5. two.fcw.sn /\ ~two.halted
      BY <1>2, <2>3, <3>3, <3>4 DEF OtherStack
    <3>6. QED
      BY <1>2, <1>3, <2>3, <3>1, <3>2, <3>4, <3>5, InterruptReturnType
  <2>4. QED
    BY <2>2, <2>3
<1>14. ASSUME NEW on \in BOOLEAN, e.fcw.sn
       PROVE  SetEnables(e, ins.sources, on) \in SoundCpu
  BY <1>2, <1>14, SetEnablesType DEF SoundCpu
<1>15. CASE ins.op \in {"ei", "di"}
  <2>1. d = EnableInterrupts(e, ins.sources) \/ d = DisableInterrupts(e, ins.sources)
    BY <1>5, <1>15 DEF Outcomes
  <2>2. QED
    BY <1>2, <1>6, <1>14, <2>1 DEF EnableInterrupts, DisableInterrupts
<1>16. CASE ins.op = "halt"
  <2>1. d = Halt(e)
    BY <1>5, <1>16 DEF Outcomes
  <2>2. QED
    BY <1>2, <1>6, <2>1 DEF Halt, SoundCpu, Cpu
<1>17. CASE ins.op = "io"
  BY <1>2, <1>5, <1>6, <1>17 DEF Outcomes, InputOutput
<1>18. CASE ins.op = "unknown"
  BY <1>5, <1>6, <1>18 DEF Outcomes
<1>19. QED
  BY <1>3, <1>8, <1>9, <1>10, <1>11, <1>12, <1>13, <1>15, <1>16, <1>17, <1>18 DEF Ops

\* An interrupt is taken whole or not at all.
LEMMA CheckInterruptsType ==
  ASSUME NEW c \in SoundCpu
  PROVE  /\ CheckInterrupts(c) \in SoundCpu
         /\ CheckInterrupts(c) = c \/ Entered(CheckInterrupts(c))
BY TakeExceptionType DEF CheckInterrupts, Vectors

\* The instruction, the lines and the interrupt together.
LEMMA AfterType ==
  ASSUME NEW c \in SoundCpu, NEW updateLines \in BOOLEAN, NEW d \in After(c, updateLines)
  PROVE  d \in SoundCpu /\ (~c.fcw.sn => Confined(c, d) \/ Entered(d))
<1>0. PICK e \in ExecuteOne(c) :
        \E g \in IF updateLines THEN Lines(e) ELSE {e} : d = CheckInterrupts(g)
  BY DEF After
<1>1. PICK g \in IF updateLines THEN Lines(e) ELSE {e} : d = CheckInterrupts(g)
  BY <1>0
<1>2. e \in SoundCpu /\ (~c.fcw.sn => Confined(c, e) \/ Entered(e))
  BY ExecuteOneType
<1>3. g \in SoundCpu /\ (~c.fcw.sn => Confined(c, g) \/ Entered(g))
  <2>1. CASE ~updateLines
    BY <1>1, <1>2, <2>1
  <2>2. CASE updateLines
    <3>1. PICK l \in Levels : g = [e EXCEPT !.viLine = l.vi, !.nviLine = l.nvi]
      BY <1>1, <2>2 DEF Lines
    <3>2. l.vi \in BOOLEAN /\ l.nvi \in BOOLEAN
      BY Z8000SessionAssumption DEF Levels
    <3>3. g \in SoundCpu /\ g.fcw = e.fcw /\ g.pc = e.pc /\ g.stack = e.stack /\ g.halted = e.halted
      BY <1>2, <3>1, <3>2 DEF SoundCpu, Cpu
    <3>4. QED
      BY <1>2, <3>3 DEF Confined, Entered
  <2>3. QED
    BY <2>1, <2>2
<1>4. d \in SoundCpu /\ (d = g \/ Entered(d))
  BY <1>1, <1>3, CheckInterruptsType
<1>5. QED
  BY <1>3, <1>4
-----------------------------------------------------------------------------
\* Whatever the frontend and the guest do, the processor stays sound.
CpuInv == cpu \in SoundCpu

\* The processor changes by a reset or by an instruction.
LEMMA CpuSteps ==
  ASSUME Next
  PROVE  \/ cpu' = ResetCpu
         \/ cpu' \in After(cpu, TRUE) \/ cpu' \in After(cpu, FALSE)
         \/ cpu' = cpu
BY DEF Next, Step, StepOver, StepOut, Run, RunFromBreakpoint, Stop, Joined, Reset, Launch,
       EditBreakpoints, EditWatchpoints, LoopStop, LoopExecute, Instruction, guestVars

\* A reset leaves a sound processor.
LEMMA ResetType == ResetCpu \in SoundCpu
<1>1. \A b \in Banks : <<>> \in Seq(Word)
  BY EmptySeq
<1>2. <<>> \in Seq(Addr)
  BY EmptySeq
<1>3. ResetVector.pc \in Addr /\ ResetVector.fcw \in Fcw
  BY Z8000Assumption DEF Status
<1>4. QED
  BY <1>1, <1>2, <1>3 DEF ResetCpu, SoundCpu, Cpu, Fcw, Banks

\* So does every step of the session.
LEMMA CpuInvariant == Spec => []CpuInv
<1>1. Init => CpuInv
  BY ResetType DEF Init, CpuInv
<1>2. CpuInv /\ [Next]_vars => CpuInv'
  <2>1. ASSUME CpuInv, Next
        PROVE  CpuInv'
    BY <2>1, CpuSteps, ResetType, AfterType DEF CpuInv
  <2>2. ASSUME CpuInv, UNCHANGED vars
        PROVE  CpuInv'
    BY <2>2 DEF CpuInv, vars, guestVars
  <2>3. QED
    BY <2>1, <2>2
<1>3. QED
  BY <1>1, <1>2, PTL DEF Spec

\* No program in normal mode reaches the system's stack, enables or mode but
\* through an exception's handler.
THEOREM Confinement == Spec => NormalIsConfined
<1>1. ASSUME CpuInv, Next, ~cpu.fcw.sn
      PROVE  \/ Confined(cpu, cpu') \/ Entered(cpu') \/ cpu' = ResetCpu
  <2>1. Confined(cpu, cpu)
    BY <1>1 DEF CpuInv, SoundCpu, Confined
  <2>2. QED
    BY <1>1, <2>1, CpuSteps, AfterType DEF CpuInv
<1>2. CpuInv /\ [Next]_vars =>
        [~cpu.fcw.sn =>
           \/ /\ cpu'.fcw = cpu.fcw /\ ~cpu'.halted
              /\ cpu'.stack["system"] = cpu.stack["system"]
           \/ \E v \in Vectors : cpu'.fcw = Psa[v].fcw /\ cpu'.pc = Psa[v].pc
           \/ cpu' = ResetCpu]_vars
  BY <1>1 DEF Confined, Entered
<1>3. QED
  BY <1>2, CpuInvariant, PTL DEF Spec, NormalIsConfined
-----------------------------------------------------------------------------
\* The user's table, the set the loop tests and the step-over in progress.
Enabled == {a \in BpAddr : breakpoints[a] = "on"}
ArmedInv ==
  /\ breakpoints \in [BpAddr -> Slots]
  /\ temporary \in Addr \cup {NoAddr}
  /\ ArmedIsTable
  /\ state # "RUNNING" => temporary = NoAddr
  /\ temporary \notin Enabled

\* An edit of the tables keeps them together.
LEMMA SetBreakpointArmed ==
  ASSUME ArmedInv, MayEnter, EditBreakpoints
  PROVE  ArmedInv'
<1>1. temporary = NoAddr /\ temporary' = temporary /\ state' = state
  BY DEF ArmedInv, MayEnter, EditBreakpoints, runVars
<1>2. NoAddr \notin BpAddr
  BY Z8000SessionAssumption, Z8000Assumption DEF NoAddr, Addr
<1>3. enabledBreakpoints = Enabled
  BY <1>1 DEF ArmedInv, ArmedIsTable, Enabled
<1>4. ASSUME NEW a \in BpAddr, NEW slot \in Slots, SetBreakpoint(a, slot)
      PROVE  breakpoints' \in [BpAddr -> Slots] /\ enabledBreakpoints' = Enabled'
  <2>1. breakpoints' = [breakpoints EXCEPT ![a] = slot] /\ breakpoints \in [BpAddr -> Slots]
    BY <1>4 DEF SetBreakpoint, ArmedInv
  <2>2. \A b \in BpAddr : breakpoints'[b] = IF b = a THEN slot ELSE breakpoints[b]
    BY <2>1
  <2>3. CASE slot = "on"
    BY <1>3, <1>4, <2>1, <2>2, <2>3 DEF SetBreakpoint, Enabled
  <2>4. CASE slot # "on"
    BY <1>3, <1>4, <2>1, <2>2, <2>4 DEF SetBreakpoint, Enabled
  <2>5. QED
    BY <2>1, <2>3, <2>4
<1>5. breakpoints' \in [BpAddr -> Slots] /\ enabledBreakpoints' = Enabled'
  <2>1. CASE \E a \in BpAddr, slot \in Slots : SetBreakpoint(a, slot)
    BY <1>4, <2>1
  <2>2. CASE breakpoints' = [a \in BpAddr |-> "none"] /\ enabledBreakpoints' = {}
    BY <2>2 DEF Slots, Enabled
  <2>3. CASE breakpoints' = breakpoints /\ enabledBreakpoints' = enabledBreakpoints
    BY <1>3, <2>3 DEF ArmedInv, Enabled
  <2>4. QED
    BY <2>1, <2>2, <2>3 DEF EditBreakpoints, SetBreakpointCondition, Slots
<1>6. QED
  BY <1>1, <1>2, <1>5 DEF ArmedInv, ArmedIsTable, Enabled

\* The end of a run takes its temporary breakpoint with it.
LEMMA LeaveArmed ==
  ASSUME ArmedInv, NEW s, Leave(s)
  PROVE  ArmedInv'
<1>1. NoAddr \notin BpAddr
  BY Z8000SessionAssumption, Z8000Assumption DEF NoAddr, Addr
<1>2. enabledBreakpoints' = Enabled /\ Enabled' = Enabled
  BY <1>1 DEF ArmedInv, ArmedIsTable, Enabled, Leave
<1>3. QED
  BY <1>1, <1>2 DEF ArmedInv, ArmedIsTable, Enabled, Leave

\* After every finished run the plugin stops where the user asked it to and
\* nowhere else: a step-over leaves nothing behind and takes nothing away.
LEMMA ArmedInvariant == Spec => []ArmedInv
<1>1. Init => ArmedInv
  BY Z8000SessionAssumption, Z8000Assumption
  DEF Init, ArmedInv, ArmedIsTable, Enabled, Slots, NoAddr, Addr
<1>2. ASSUME CpuInv, ArmedInv, Next
      PROVE  ArmedInv'
  <2>1. CASE Step
    BY <1>2, <2>1 DEF Step, MayEnter, ArmedInv, ArmedIsTable, Enabled, bpVars
  <2>2. CASE StepOver
    <3> DEFINE next == NextPc(cpu.pc)
    <3>1. next \in Addr /\ NoAddr \notin Addr
      BY <1>2, Z8000Assumption DEF CpuInv, SoundCpu, Cpu, NextPc, Addr, NoAddr
    <3> HIDE DEF next
    <3>2. /\ temporary = NoAddr /\ state' = "RUNNING" /\ breakpoints' = breakpoints
          /\ temporary' = IF next \in enabledBreakpoints THEN NoAddr ELSE next
          /\ enabledBreakpoints' = enabledBreakpoints \cup {next}
      BY <1>2, <2>2 DEF StepOver, Launch, MayEnter, ArmedInv, next
    <3>3. enabledBreakpoints = Enabled /\ Enabled' = Enabled /\ Enabled \subseteq Addr
      BY <1>2, <3>2, Z8000SessionAssumption DEF ArmedInv, ArmedIsTable, Enabled
    <3>4. CASE next \in enabledBreakpoints
      BY <1>2, <3>1, <3>2, <3>3, <3>4 DEF ArmedInv, ArmedIsTable, Enabled
    <3>5. CASE next \notin enabledBreakpoints
      BY <1>2, <3>1, <3>2, <3>3, <3>5 DEF ArmedInv, ArmedIsTable, Enabled
    <3>6. QED
      BY <3>4, <3>5
  <2>3. CASE StepOut \/ Run
    BY <1>2, <2>3 DEF StepOut, Run, Launch, MayEnter, ArmedInv, ArmedIsTable, Enabled
  <2>4. CASE RunFromBreakpoint
    BY <1>2, <2>4 DEF RunFromBreakpoint, MayEnter, ArmedInv, ArmedIsTable, Enabled, bpVars
  <2>5. CASE Stop \/ Joined \/ Reset \/ EditWatchpoints
    BY <1>2, <2>5
    DEF Stop, Joined, Reset, EditWatchpoints, MayEnter, ArmedInv, ArmedIsTable, Enabled, bpVars, runVars
  <2>6. CASE EditBreakpoints
    BY <1>2, <2>6, SetBreakpointArmed DEF EditBreakpoints
  <2>7. CASE LoopStop
    BY <1>2, <2>7, LeaveArmed DEF LoopStop
  <2>8. CASE LoopExecute
    <3>1. (\E s \in {"HALTED", "STOPPED"} : Leave(s)) \/ (GoOn /\ state = "RUNNING")
      BY <2>8 DEF LoopExecute
    <3>2. CASE GoOn /\ state = "RUNNING"
      BY <1>2, <3>2 DEF GoOn, ArmedInv, ArmedIsTable, Enabled, bpVars
    <3>3. QED
      BY <1>2, <3>1, <3>2, LeaveArmed
  <2>9. QED
    BY <1>2, <2>1, <2>2, <2>3, <2>4, <2>5, <2>6, <2>7, <2>8 DEF Next
<1>3. CpuInv /\ ArmedInv /\ [Next]_vars => ArmedInv'
  <2>1. ASSUME ArmedInv, UNCHANGED vars
        PROVE  ArmedInv'
    BY <2>1 DEF ArmedInv, ArmedIsTable, Enabled, vars, bpVars, runVars
  <2>2. QED
    BY <1>2, <2>1
<1>4. QED
  BY <1>1, <1>3, CpuInvariant, PTL DEF Spec
-----------------------------------------------------------------------------
\* The watchpoint table and the two sets of the memory.
WatchInv ==
  /\ watchpoints \in [WatchAddr -> WatchSlot]
  /\ readSet \subseteq WatchAddr /\ writeSet \subseteq WatchAddr
  /\ WatchSetsFollowTable

\* What the memory tests follows the user's table after any sequence of edits.
LEMMA WatchInvariant == Spec => []WatchInv
<1>1. Init => WatchInv
  BY DEF Init, WatchInv, WatchSetsFollowTable, WatchSlot, NoWatch, Kinds
<1>2. ASSUME WatchInv, EditWatchpoints
      PROVE  WatchInv'
  <2>1. CASE \E a \in WatchAddr, kind \in Kinds \ {"none"} : AddWatchpoint(a, kind)
    <3>1. PICK a \in WatchAddr, kind \in Kinds \ {"none"} : AddWatchpoint(a, kind)
      BY <2>1
    <3>2. [kind |-> kind, conditional |-> FALSE] \in WatchSlot
      BY DEF WatchSlot
    <3>3. QED
      BY <1>2, <3>1, <3>2 DEF AddWatchpoint, WatchInv, WatchSetsFollowTable
  <2>2. CASE \E a \in WatchAddr : RemoveWatchpoint(a)
    BY <1>2, <2>2 DEF RemoveWatchpoint, WatchInv, WatchSetsFollowTable, NoWatch, WatchSlot, Kinds
  <2>3. CASE \E a \in WatchAddr, conditional \in BOOLEAN : SetWatchpointCondition(a, conditional)
    <3>1. PICK a \in WatchAddr, conditional \in BOOLEAN : SetWatchpointCondition(a, conditional)
      BY <2>3
    <3>2. /\ watchpoints' \in [WatchAddr -> WatchSlot]
          /\ \A b \in WatchAddr : watchpoints'[b].kind = watchpoints[b].kind
      BY <1>2, <3>1 DEF SetWatchpointCondition, WatchInv, WatchSlot
    <3>3. QED
      BY <1>2, <3>1, <3>2 DEF SetWatchpointCondition, WatchInv, WatchSetsFollowTable
  <2>4. CASE watchpoints' = [a \in WatchAddr |-> NoWatch] /\ readSet' = {} /\ writeSet' = {}
    BY <2>4 DEF WatchInv, WatchSetsFollowTable, NoWatch, WatchSlot, Kinds
  <2>5. QED
    BY <1>2, <2>1, <2>2, <2>3, <2>4 DEF EditWatchpoints
<1>3. Next => EditWatchpoints \/ UNCHANGED watchVars
  BY DEF Next, Step, StepOver, StepOut, Run, RunFromBreakpoint, Stop, Joined, Reset, Launch,
         EditBreakpoints, LoopStop, LoopExecute, watchVars
<1>4. WatchInv /\ [Next]_vars => WatchInv'
  BY <1>2, <1>3 DEF WatchInv, WatchSetsFollowTable, vars, watchVars
<1>5. QED
  BY <1>1, <1>4, PTL DEF Spec
-----------------------------------------------------------------------------
\* A set of places of a sequence has a last one.
LEMMA LastPlace ==
  ASSUME NEW n \in Nat, NEW T, T \subseteq 1 .. n, T # {}
  PROVE  \E i \in T : \A j \in T : j <= i
<1> DEFINE U == {n - i : i \in T}
<1>1. \A i \in T : i \in Nat /\ n - i \in Nat
  OBVIOUS
<1>2. U \subseteq Nat /\ U # {}
  BY <1>1
<1>3. PICK x \in U : \A y \in U : ~(<<y, x>> \in OpToRel(<, Nat))
  <2> HIDE DEF U
  <2>1. QED
    BY ONLY <1>2, NatLessThanWellFounded, WFMin
<1>4. \A y \in U : ~(y < x)
  BY <1>2, <1>3 DEF OpToRel
<1>5. PICK i \in T : x = n - i
  BY <1>3
<1>6. ASSUME NEW j \in T
      PROVE  j <= i
  <2>1. n - j \in U
    BY <1>6
  <2>2. ~(n - j < n - i)
    BY <1>4, <1>5, <2>1
  <2>3. i \in Nat /\ j \in Nat
    BY <1>1, <1>6
  <2>4. QED
    BY <2>2, <2>3
<1>7. QED
  BY <1>6

\* The access that stops the run is one the user watches.
LEMMA TouchedType ==
  ASSUME CpuInv, WatchInv
  PROVE  IF Hits = {} THEN Touched = hit ELSE Touched \in WatchAddr
<1> DEFINE touch == Code[cpu.pc].touch
<1>1. touch \in Seq(Access)
  BY Z8000Assumption DEF CpuInv, SoundCpu, Cpu, Instr
<1>2. Hits \subseteq 1 .. Len(touch) /\ Len(touch) \in Nat
  BY <1>1 DEF Hits
<1>3. CASE Hits # {}
  <2>1. LastHit \in Hits
    BY <1>2, <1>3, LastPlace DEF LastHit
  <2>2. touch[LastHit].addr \in readSet \cup writeSet
    BY <2>1 DEF Hits, Watched
  <2>3. QED
    BY <1>3, <2>2 DEF Touched, WatchInv
<1>4. QED
  BY <1>3 DEF Touched

\* What an exception touches beside it is too.
LEMMA TouchesType ==
  ASSUME CpuInv, WatchInv, NEW d, NEW touched \in Touches(d)
  PROVE  IF Hits = {} THEN touched = hit \/ touched \in WatchAddr ELSE touched \in WatchAddr
BY TouchedType DEF Touches, WatchInv

\* The remaining variables keep their types.
RestInv ==
  /\ state \in {"STOPPED", "HALTED", "RUNNING"}
  /\ stopRequested \in BOOLEAN /\ stopping \in BOOLEAN
  /\ stepOutTargetDepth \in Nat \cup {-1}
  /\ hit \in WatchAddr \cup {NoAddr}
  /\ mixed \in BOOLEAN
  /\ conditions \subseteq BpAddr

LEMMA RestInvariant == Spec => []RestInv
<1>1. Init => RestInv
  BY DEF Init, RestInv
<1>2. ASSUME CpuInv, WatchInv, RestInv, Next
      PROVE  RestInv'
  <2>1. \A d : Touches(d) \subseteq WatchAddr \cup {NoAddr}
    BY <1>2, TouchesType DEF RestInv
  <2>2. \A c, d : Mixes(c, d) \in BOOLEAN
    BY DEF Mixes
  <2>3. CASE Step \/ RunFromBreakpoint
    BY <1>2, <2>1, <2>2, <2>3 DEF Step, RunFromBreakpoint, Instruction, RestInv, bpVars
  <2>4. CASE StepOver \/ Run
    BY <1>2, <2>4 DEF StepOver, Run, Launch, MayEnter, RestInv, guestVars
  <2>5. CASE StepOut
    <3>1. Len(cpu.shadow) \in Nat /\ Len(cpu.shadow) # 0
      BY <1>2, <2>5, EmptySeq DEF StepOut, CpuInv, SoundCpu, Cpu
    <3>2. stepOutTargetDepth' \in Nat
      BY <2>5, <3>1 DEF StepOut
    <3>3. /\ state' = "RUNNING" /\ stopRequested' = FALSE
          /\ stopping' = stopping /\ hit' = hit /\ mixed' = mixed /\ conditions' = conditions
      BY <2>5 DEF StepOut, Launch, guestVars
    <3>4. QED
      BY <1>2, <3>2, <3>3 DEF RestInv
  <2>6. CASE Stop \/ Joined \/ Reset \/ EditBreakpoints \/ EditWatchpoints
    BY <1>2, <2>6
    DEF Stop, Joined, Reset, EditBreakpoints, SetBreakpointCondition, EditWatchpoints, RestInv,
        guestVars, runVars, bpVars
  <2>7. CASE LoopStop
    BY <1>2, <2>7 DEF LoopStop, Leave, RestInv, guestVars
  <2>8. CASE LoopExecute
    <3>1. mixed' \in BOOLEAN /\ hit' \in WatchAddr \cup {NoAddr}
      BY <1>2, <2>1, <2>2, <2>8 DEF LoopExecute, RestInv
    <3>2. stopRequested' = stopRequested /\ stopping' = stopping
      BY <2>8 DEF LoopExecute
    <3>3. Leave("HALTED") \/ Leave("STOPPED") \/ GoOn
      BY <2>8 DEF LoopExecute
    <3>4. QED
      BY <1>2, <3>1, <3>2, <3>3 DEF Leave, GoOn, RestInv, bpVars
  <2>9. QED
    BY <1>2, <2>3, <2>4, <2>5, <2>6, <2>7, <2>8 DEF Next
<1>3. CpuInv /\ WatchInv /\ RestInv /\ [Next]_vars => RestInv'
  <2>1. ASSUME RestInv, UNCHANGED vars
        PROVE  RestInv'
    BY <2>1 DEF RestInv, vars, runVars, guestVars, bpVars
  <2>2. QED
    BY <1>2, <2>1
<1>4. QED
  BY <1>1, <1>3, CpuInvariant, WatchInvariant, PTL DEF Spec

\* Types, the bank of the mode, and both tables with the sets that the loop and
\* the memory test, in every reachable state of every program.
THEOREM SessionSafe == Spec => []SessionInv
<1>1. CpuInv /\ ArmedInv /\ WatchInv /\ RestInv => SessionInv
  <2>1. ASSUME ArmedInv
        PROVE  enabledBreakpoints \subseteq Addr
    BY <2>1, Z8000SessionAssumption DEF ArmedInv, ArmedIsTable
  <2>2. ASSUME CpuInv
        PROVE  cpu \in Cpu /\ BankFollowsMode
    BY <2>2 DEF CpuInv, SoundCpu, BankFollowsMode
  <2>3. QED
    BY <2>1, <2>2 DEF SessionInv, TypeOK, ArmedInv, WatchInv, RestInv
<1>2. QED
  BY <1>1, CpuInvariant, ArmedInvariant, WatchInvariant, RestInvariant, PTL

\* For every program and every set of watched addresses, the worker stops after
\* the instruction that makes a watched access without a condition.
THEOREM WatchedAccessStops == Spec => WatchHonoured
<1>1. ASSUME CpuInv, WatchInv, LoopExecute, ~cpu.halted,
             NEW i \in DOMAIN Code[cpu.pc].touch,
             Code[cpu.pc].touch[i].addr \in WatchAddr,
             watchpoints[Code[cpu.pc].touch[i].addr].kind \in {Code[cpu.pc].touch[i].kind, "both"},
             \A a \in WatchAddr : ~watchpoints[a].conditional
      PROVE  state' # "RUNNING"
  <2> DEFINE x == Code[cpu.pc].touch[i]
  <2>1. x \in Access
    <3>1. Code[cpu.pc].touch \in Seq(Access)
      BY <1>1, Z8000Assumption DEF CpuInv, SoundCpu, Cpu, Instr
    <3>2. QED
      BY <1>1, <3>1
  <2>2. i \in Hits
    BY <1>1, <2>1 DEF Hits, Watched, WatchInv, WatchSetsFollowTable, Access
  <2>3. \A d : \A touched \in Touches(d) : touched \in WatchAddr /\ touched # NoAddr
    BY <1>1, <2>2, TouchesType, Z8000SessionAssumption, Z8000Assumption DEF NoAddr, Addr
  <2>4. \A d : \A touched \in Touches(d) : MayStop(touched) = {TRUE}
    BY <1>1, <2>3 DEF MayStop
  <2>5. \E d \in After(cpu, TRUE) : \E touched \in Touches(d) : \E stops \in MayStop(touched) :
          IF d.halted THEN Leave("HALTED") ELSE IF stops \/ Unwound(d) THEN Leave("STOPPED") ELSE GoOn
    BY <1>1 DEF LoopExecute
  <2>6. PICK d \in After(cpu, TRUE) : \E touched \in Touches(d) : \E stops \in MayStop(touched) :
          IF d.halted THEN Leave("HALTED") ELSE IF stops \/ Unwound(d) THEN Leave("STOPPED") ELSE GoOn
    BY ONLY <2>5
  <2>7. PICK touched \in Touches(d) : \E stops \in MayStop(touched) :
          IF d.halted THEN Leave("HALTED") ELSE IF stops \/ Unwound(d) THEN Leave("STOPPED") ELSE GoOn
    BY ONLY <2>6
  <2>8. MayStop(touched) = {TRUE}
    BY <2>4
  <2>9. IF d.halted THEN Leave("HALTED") ELSE IF TRUE \/ Unwound(d) THEN Leave("STOPPED") ELSE GoOn
    BY ONLY <2>7, <2>8
  <2>10. Leave("HALTED") \/ Leave("STOPPED")
    BY ONLY <2>9
  <2>11. QED
    BY <2>10 DEF Leave
<1>2. CpuInv /\ WatchInv /\ [Next]_vars =>
        [LoopExecute /\ ~cpu.halted =>
           LET touch == Code[cpu.pc].touch
               asks(x) == x.addr \in WatchAddr /\ watchpoints[x.addr].kind \in {x.kind, "both"}
           IN (\E i \in DOMAIN touch : asks(touch[i]))
                /\ (\A a \in WatchAddr : ~watchpoints[a].conditional)
              => state' # "RUNNING"]_vars
  BY <1>1
<1>3. QED
  BY <1>2, CpuInvariant, WatchInvariant, PTL DEF Spec, WatchHonoured
-----------------------------------------------------------------------------
(***************************************************************************)
(* The debugger's call stack.  Calls, returns, an NVI and an IRET change   *)
(* the words at the top of the stack in use; Words puts both stacks under  *)
(* one top, because the normal stack is empty while the system's is used.  *)
(***************************************************************************)
\* A change of the words that leaves the return addresses where they are leaves
\* the list of them.
LEMMA SameReturns ==
  ASSUME NEW h \in Seq(Addr), NEW s \in Seq(Word), NEW t \in Seq(Word), ListsReturns(h, s),
         Returns(t) = Returns(s), \A n \in Returns(s) : t[n] = s[n]
  PROVE  ListsReturns(h, t)
<1>1. PICK pos \in [1 .. Len(h) -> Returns(s)] :
        /\ \A j, k \in 1 .. Len(h) : j < k => pos[j] < pos[k]
        /\ \A n \in Returns(s) : \E k \in 1 .. Len(h) : pos[k] = n
        /\ \A k \in 1 .. Len(h) : s[pos[k]].pc = h[k]
  BY DEF ListsReturns
<1>2. \A k \in 1 .. Len(h) : t[pos[k]].pc = h[k]
  BY <1>1
<1>3. pos \in [1 .. Len(h) -> Returns(t)] /\ \A n \in Returns(t) : \E k \in 1 .. Len(h) : pos[k] = n
  BY <1>1
<1> HIDE DEF Returns
<1>4. QED
  BY <1>1, <1>2, <1>3, Zenon DEF ListsReturns

\* A return address on top of the words.
LEMMA PushedReturn ==
  ASSUME NEW s \in Seq(Word), NEW a \in Addr
  PROVE  /\ Append(s, PcWord(a)) \in Seq(Word)
         /\ Returns(Append(s, PcWord(a))) = Returns(s) \cup {Len(s) + 1}
         /\ \A n \in Returns(s) : n \in 1 .. Len(s) /\ Append(s, PcWord(a))[n] = s[n]
         /\ Append(s, PcWord(a))[Len(s) + 1].pc = a
<1> DEFINE w == PcWord(a)
           t == Append(s, w)
           m == Len(s)
<1>1. w \in Word /\ w.is = "pc" /\ w.pc = a
  BY DEF PcWord, Word
<1> HIDE DEF w
<1>2. t \in Seq(Word) /\ Len(t) = m + 1 /\ t[m + 1] = w /\ \A n \in 1 .. m : t[n] = s[n]
  BY <1>1, AppendProperties
<1>3. m \in Nat /\ DOMAIN s = 1 .. m /\ DOMAIN t = 1 .. m + 1
  BY <1>2, LenProperties
<1> HIDE DEF t, m
<1>4. ASSUME NEW n \in 1 .. m PROVE n \in Returns(t) <=> n \in Returns(s)
  <2>1. n \in 1 .. m + 1 /\ n < m + 1 /\ t[n] = s[n]
    BY <1>2, <1>3
  <2>2. CASE n = m
    BY <2>1, <2>2, <1>1, <1>2, <1>3 DEF Returns, m
  <2>3. CASE n # m
    <3>1. n + 1 \in 1 .. m /\ n < m
      BY <2>3, <1>3
    <3>2. t[n + 1] = s[n + 1]
      BY <3>1, <1>2
    <3>3. QED
      BY <2>1, <3>1, <3>2, <1>2, <1>3 DEF Returns, m
  <2>4. QED
    BY <2>2, <2>3
<1>5. m + 1 \in Returns(t)
  BY <1>1, <1>2, <1>3 DEF Returns
<1>6. Returns(t) \subseteq 1 .. m + 1 /\ Returns(s) \subseteq 1 .. m
  BY <1>3 DEF Returns
<1>7. Returns(t) = Returns(s) \cup {m + 1}
  <2>1. \A n \in 1 .. m + 1 : n \in 1 .. m \/ n = m + 1
    BY <1>3
  <2>2. QED
    BY <1>4, <1>5, <1>6, <2>1
<1>8. QED
  BY <1>1, <1>2, <1>6, <1>7 DEF t, m, w

\* An FCW on top covers the PC below it.
LEMMA PushedFrame ==
  ASSUME NEW s \in Seq(Word), NEW a \in Addr, NEW f \in Fcw
  PROVE  LET t == Append(Append(s, PcWord(a)), FcwWord(f)) IN
         t \in Seq(Word) /\ Returns(t) = Returns(s) /\ \A n \in Returns(s) : t[n] = s[n]
<1> DEFINE u == Append(s, PcWord(a))
           w == FcwWord(f)
           t == Append(u, w)
           m == Len(s)
<1>1. w \in Word /\ w.is = "fcw"
  BY DEF FcwWord, Word
<1>2. PcWord(a) \in Word
  BY DEF PcWord, Word
<1>3. m \in Nat /\ Len(u) = m + 1 /\ u \in Seq(Word) /\ Returns(u) = Returns(s) \cup {m + 1}
      /\ \A n \in Returns(s) : n \in 1 .. m /\ u[n] = s[n]
  BY <1>2, PushedReturn, AppendProperties, LenProperties
<1> HIDE DEF w, u, m
<1>4. t \in Seq(Word) /\ Len(t) = m + 2 /\ t[m + 2] = w /\ \A n \in 1 .. m + 1 : t[n] = u[n]
  BY <1>1, <1>3, AppendProperties
<1>5. DOMAIN t = 1 .. m + 2 /\ DOMAIN u = 1 .. m + 1
  BY <1>3, <1>4, LenProperties
<1> HIDE DEF t
<1>6. ASSUME NEW n \in 1 .. m PROVE n \in Returns(t) <=> n \in Returns(u)
  <2>1. n \in 1 .. m + 1 /\ n + 1 \in 1 .. m + 1 /\ n \in 1 .. m + 2 /\ n < m + 1 /\ n < m + 2
    BY <1>3
  <2>2. t[n] = u[n] /\ t[n + 1] = u[n + 1]
    BY <2>1, <1>4
  <2>3. QED
    BY <2>1, <2>2, <1>3, <1>4, <1>5 DEF Returns
<1>7. m + 2 \notin Returns(t) /\ m + 1 \notin Returns(t)
  BY <1>1, <1>3, <1>4, <1>5 DEF Returns
<1>8. Returns(t) \subseteq 1 .. m + 2 /\ Returns(s) \subseteq 1 .. m
  BY <1>3, <1>5 DEF Returns
<1>9. Returns(t) = Returns(s)
  <2>1. \A n \in 1 .. m + 2 : n \in 1 .. m \/ n = m + 1 \/ n = m + 2
    BY <1>3
  <2>2. m + 1 \notin 1 .. m
    BY <1>3
  <2>3. QED
    BY ZenonT(60), <1>3, <1>6, <1>7, <1>8, <2>1, <2>2
<1>10. \A n \in Returns(s) : t[n] = s[n]
  <2>1. \A n \in Returns(s) : n \in 1 .. m + 1
    BY <1>3
  <2>2. QED
    BY <1>3, <1>4, <2>1
<1>11. QED
  BY <1>4, <1>9, <1>10 DEF t, u, w

\* A return address taken from the top.
LEMMA PoppedReturn ==
  ASSUME NEW s \in Seq(Word), s # <<>>, s[Len(s)].is = "pc"
  PROVE  /\ Front(s) \in Seq(Word)
         /\ Len(s) \in Returns(s) /\ Returns(Front(s)) = Returns(s) \ {Len(s)}
         /\ \A n \in Returns(Front(s)) : n \in 1 .. Len(s) - 1 /\ Front(s)[n] = s[n]
<1> DEFINE t == Front(s)
           m == Len(s)
<1>1. m \in Nat /\ m # 0 /\ DOMAIN s = 1 .. m
  BY EmptySeq, LenProperties
<1>2. t \in Seq(Word) /\ Len(t) = m - 1 /\ \A n \in 1 .. m - 1 : t[n] = s[n]
  BY PopSeq, PopKeeps DEF Front
<1>3. DOMAIN t = 1 .. m - 1
  BY <1>2, LenProperties
<1> HIDE DEF t, m
<1>4. ASSUME NEW n \in 1 .. m - 1 PROVE n \in Returns(t) <=> n \in Returns(s)
  <2>1. n \in 1 .. m /\ n < m /\ t[n] = s[n]
    BY <1>1, <1>2
  <2>2. CASE n = m - 1
    <3>1. ~(n < m - 1) /\ n + 1 = m
      BY <2>2, <1>1
    <3>2. s[n + 1].is # "fcw"
      BY <3>1 DEF m
    <3>3. QED
      BY <2>1, <3>1, <3>2, <1>1, <1>2, <1>3 DEF Returns, m
  <2>3. CASE n # m - 1
    <3>1. n + 1 \in 1 .. m - 1 /\ n < m - 1
      BY <2>3, <1>1
    <3>2. t[n + 1] = s[n + 1]
      BY <3>1, <1>2
    <3>3. QED
      BY <2>1, <3>1, <3>2, <1>1, <1>2, <1>3 DEF Returns, m
  <2>4. QED
    BY <2>2, <2>3
<1>5. m \in Returns(s)
  BY <1>1 DEF Returns, m
<1>6. Returns(t) \subseteq 1 .. m - 1 /\ Returns(s) \subseteq 1 .. m
  BY <1>1, <1>3 DEF Returns
<1>7. Returns(t) = Returns(s) \ {m}
  <2>1. \A n \in 1 .. m : n \in 1 .. m - 1 \/ n = m
    BY <1>1
  <2>2. m \notin 1 .. m - 1
    BY <1>1
  <2>3. QED
    BY <1>4, <1>6, <2>1, <2>2
<1>8. QED
  BY <1>2, <1>5, <1>6, <1>7 DEF t, m

\* An FCW and the PC it covers, taken from the top.
LEMMA PoppedFrame ==
  ASSUME NEW s \in Seq(Word), s # <<>>, s[Len(s)].is = "fcw",
         Front(s) # <<>>, Front(s)[Len(Front(s))].is = "pc"
  PROVE  LET t == Front(Front(s)) IN
         t \in Seq(Word) /\ Returns(t) = Returns(s) /\ \A n \in Returns(s) : t[n] = s[n]
<1> DEFINE u == Front(s)
           t == Front(u)
           m == Len(s)
<1>1. m \in Nat /\ m # 0 /\ DOMAIN s = 1 .. m
  BY EmptySeq, LenProperties
<1>2. u \in Seq(Word) /\ Len(u) = m - 1 /\ \A n \in 1 .. m - 1 : u[n] = s[n]
  BY PopSeq, PopKeeps DEF Front
<1>3. DOMAIN u = 1 .. m - 1
  BY <1>2, LenProperties
<1> HIDE DEF u
<1>4. /\ t \in Seq(Word) /\ m - 1 \in Returns(u) /\ Returns(t) = Returns(u) \ {m - 1}
      /\ \A n \in Returns(t) : n \in 1 .. m - 2 /\ t[n] = u[n]
  BY <1>1, <1>2, PoppedReturn DEF u
<1> HIDE DEF t, m
<1>5. m - 1 \in 1 .. m - 1
  BY <1>3, <1>4 DEF Returns
<1>6. m - 1 \notin Returns(s) /\ m \notin Returns(s)
  <2>1. m - 1 < m /\ (m - 1) + 1 = m
    BY <1>1
  <2>2. QED
    BY <2>1 DEF Returns, m
<1>7. ASSUME NEW n \in 1 .. m - 2 PROVE n \in Returns(s) <=> n \in Returns(u)
  <2>1. n \in 1 .. m - 1 /\ n + 1 \in 1 .. m - 1 /\ n \in 1 .. m /\ n < m - 1 /\ n < m
    BY <1>1
  <2>2. u[n] = s[n] /\ u[n + 1] = s[n + 1]
    BY <2>1, <1>2
  <2>3. QED
    BY <2>1, <2>2, <1>1, <1>2, <1>3 DEF Returns, m
<1>8. Returns(s) \subseteq 1 .. m /\ Returns(u) \subseteq 1 .. m - 1
  BY <1>1, <1>3 DEF Returns
<1>9. Returns(t) = Returns(s)
  <2>1. \A n \in 1 .. m : n \in 1 .. m - 2 \/ n = m - 1 \/ n = m
    BY <1>1
  <2>2. QED
    BY <1>4, <1>6, <1>7, <1>8, <2>1
<1>10. \A n \in Returns(s) : t[n] = s[n]
  <2>1. \A n \in Returns(s) : n \in 1 .. m - 2 /\ t[n] = u[n]
    BY <1>4, <1>9
  <2>2. \A n \in 1 .. m - 2 : n \in 1 .. m - 1
    BY <1>1
  <2>3. QED
    BY <2>1, <2>2, <1>2
<1>11. QED
  BY <1>4, <1>9, <1>10 DEF t, u

\* A call lists its return address ...
LEMMA ListsPushed ==
  ASSUME NEW h \in Seq(Addr), NEW s \in Seq(Word), ListsReturns(h, s), NEW a \in Addr
  PROVE  ListsReturns(Append(h, a), Append(s, PcWord(a)))
<1> DEFINE t == Append(s, PcWord(a))
           g == Append(h, a)
           m == Len(h)
           n == Len(s)
<1>1. PICK pos \in [1 .. m -> Returns(s)] :
        /\ \A j, k \in 1 .. m : j < k => pos[j] < pos[k]
        /\ \A i \in Returns(s) : \E k \in 1 .. m : pos[k] = i
        /\ \A k \in 1 .. m : s[pos[k]].pc = h[k]
  BY DEF ListsReturns
<1>2. m \in Nat /\ n \in Nat /\ Returns(s) \subseteq 1 .. n
  BY LenProperties DEF Returns
<1>3. Len(g) = m + 1 /\ g[m + 1] = a /\ \A k \in 1 .. m : g[k] = h[k]
  BY AppendProperties
<1>4. /\ t \in Seq(Word) /\ Returns(t) = Returns(s) \cup {n + 1} /\ t[n + 1].pc = a
      /\ \A i \in Returns(s) : t[i] = s[i]
  BY PushedReturn
<1> DEFINE p == [k \in 1 .. m + 1 |-> IF k = m + 1 THEN n + 1 ELSE pos[k]]
<1> HIDE DEF m, n, t, g
<1>5. /\ \A k \in 1 .. m + 1 : k = m + 1 \/ k \in 1 .. m
      /\ \A k \in 1 .. m : k \in 1 .. m + 1 /\ k # m + 1
      /\ m + 1 \in 1 .. m + 1
  BY <1>2
<1>6. /\ p \in [1 .. m + 1 -> Returns(t)] /\ p[m + 1] = n + 1
      /\ \A k \in 1 .. m : p[k] = pos[k]
  BY <1>1, <1>4, <1>5
<1> HIDE DEF p
<1>7. \A k \in 1 .. m : pos[k] \in Returns(s) /\ pos[k] < n + 1
  BY <1>1, <1>2
<1>8. ASSUME NEW j \in 1 .. m + 1, NEW k \in 1 .. m + 1, j < k PROVE p[j] < p[k]
  <2>1. j \in 1 .. m
    BY <1>2, <1>8
  <2>2. QED
    BY <2>1, <1>1, <1>5, <1>6, <1>7, <1>8
<1>9. \A i \in Returns(t) : \E k \in 1 .. m + 1 : p[k] = i
  BY <1>1, <1>4, <1>5, <1>6
<1>10. ASSUME NEW k \in 1 .. m + 1 PROVE t[p[k]].pc = g[k]
  <2>1. CASE k = m + 1
    BY <1>3, <1>4, <1>6, <2>1
  <2>2. CASE k \in 1 .. m
    <3>1. p[k] = pos[k] /\ pos[k] \in Returns(s) /\ g[k] = h[k]
      BY <1>3, <1>6, <1>7, <2>2
    <3>2. t[pos[k]] = s[pos[k]] /\ s[pos[k]].pc = h[k]
      BY <1>1, <1>4, <2>2, <3>1
    <3>3. QED
      BY <3>1, <3>2
  <2>3. QED
    BY <1>5, <2>1, <2>2
<1>11. ListsReturns(g, t)
  <2> HIDE DEF Returns
  <2>1. p \in [1 .. Len(g) -> Returns(t)]
    BY <1>3, <1>6
  <2>2. \A j, k \in 1 .. Len(g) : j < k => p[j] < p[k]
    BY <1>3, <1>8
  <2>3. \A i \in Returns(t) : \E k \in 1 .. Len(g) : p[k] = i
    BY <1>3, <1>9
  <2>4. \A k \in 1 .. Len(g) : t[p[k]].pc = g[k]
    BY <1>3, <1>10
  <2>5. QED
    BY <2>1, <2>2, <2>3, <2>4, Zenon DEF ListsReturns
<1>12. QED
  BY <1>11 DEF g, t

\* ... and a return takes the newest one away from both.
LEMMA ListsPopped ==
  ASSUME NEW h \in Seq(Addr), NEW s \in Seq(Word), ListsReturns(h, s),
         s # <<>>, s[Len(s)].is = "pc"
  PROVE  h # <<>> /\ h[Len(h)] = s[Len(s)].pc /\ ListsReturns(Front(h), Front(s))
<1> DEFINE t == Front(s)
           g == Front(h)
           m == Len(h)
           n == Len(s)
<1>1. PICK pos \in [1 .. m -> Returns(s)] :
        /\ \A j, k \in 1 .. m : j < k => pos[j] < pos[k]
        /\ \A i \in Returns(s) : \E k \in 1 .. m : pos[k] = i
        /\ \A k \in 1 .. m : s[pos[k]].pc = h[k]
  BY DEF ListsReturns
<1>2. m \in Nat /\ n \in Nat /\ Returns(s) \subseteq 1 .. n
  BY LenProperties DEF Returns
<1>3. /\ t \in Seq(Word) /\ n \in Returns(s) /\ Returns(t) = Returns(s) \ {n}
      /\ \A i \in Returns(t) : t[i] = s[i]
  BY PoppedReturn
<1>4. PICK top \in 1 .. m : pos[top] = n
  BY <1>1, <1>3
<1>5. top = m /\ m # 0
  <2>1. top \in Nat /\ m \in 1 .. m
    BY <1>2, <1>4
  <2>2. pos[m] \in 1 .. n
    BY <1>1, <1>2, <2>1
  <2>3. QED
    BY <1>1, <1>2, <1>4, <2>1, <2>2
<1>6. h # <<>> /\ h[m] = s[n].pc
  BY <1>1, <1>4, <1>5, EmptySeq
<1>7. /\ g \in Seq(Addr) /\ Len(g) = m - 1 /\ \A k \in 1 .. m - 1 : g[k] = h[k]
  BY <1>6, PopSeq, PopKeeps DEF Front
<1> DEFINE p == [k \in 1 .. m - 1 |-> pos[k]]
<1> HIDE DEF m, n, t, g
<1>8. /\ \A k \in 1 .. m : k = m \/ k \in 1 .. m - 1
      /\ \A k \in 1 .. m - 1 : k \in 1 .. m /\ k < m
      /\ m \in 1 .. m
  BY <1>2, <1>5
<1>9. \A k \in 1 .. m - 1 : pos[k] \in Returns(t)
  <2>1. \A k \in 1 .. m - 1 : pos[k] < n
    BY <1>1, <1>4, <1>5, <1>8
  <2>2. QED
    BY <1>1, <1>2, <1>3, <1>8, <2>1
<1>10. p \in [1 .. m - 1 -> Returns(t)] /\ \A k \in 1 .. m - 1 : p[k] = pos[k]
  BY <1>9
<1> HIDE DEF p
<1>11. \A j, k \in 1 .. m - 1 : j < k => p[j] < p[k]
  BY <1>1, <1>8, <1>10
<1>12. \A i \in Returns(t) : \E k \in 1 .. m - 1 : p[k] = i
  <2>1. ASSUME NEW i \in Returns(t) PROVE \E k \in 1 .. m - 1 : p[k] = i
    <3>1. i \in Returns(s) /\ i # n
      BY <1>3
    <3>2. PICK k \in 1 .. m : pos[k] = i
      BY <1>1, <3>1
    <3>3. k \in 1 .. m - 1
      BY <1>4, <1>5, <1>8, <3>1, <3>2
    <3>4. QED
      BY <1>10, <3>2, <3>3
  <2>2. QED
    BY <2>1
<1>13. \A k \in 1 .. m - 1 : t[p[k]].pc = g[k]
  <2>1. ASSUME NEW k \in 1 .. m - 1 PROVE t[p[k]].pc = g[k]
    <3>1. k \in 1 .. m /\ p[k] = pos[k] /\ pos[k] \in Returns(t) /\ g[k] = h[k]
      BY <1>7, <1>8, <1>9, <1>10
    <3>2. t[pos[k]] = s[pos[k]] /\ s[pos[k]].pc = h[k]
      BY <1>1, <1>3, <3>1
    <3>3. QED
      BY <3>1, <3>2
  <2>2. QED
    BY <2>1
<1>14. ListsReturns(g, t)
  <2> HIDE DEF Returns
  <2>1. p \in [1 .. Len(g) -> Returns(t)]
    BY <1>7, <1>10
  <2>2. \A j, k \in 1 .. Len(g) : j < k => p[j] < p[k]
    BY <1>7, <1>11
  <2>3. \A i \in Returns(t) : \E k \in 1 .. Len(g) : p[k] = i
    BY <1>7, <1>12
  <2>4. \A k \in 1 .. Len(g) : t[p[k]].pc = g[k]
    BY <1>7, <1>13
  <2>5. QED
    BY <2>1, <2>2, <2>3, <2>4, Zenon DEF ListsReturns
<1>15. QED
  BY <1>6, <1>14 DEF g, t, m, n

\* A word more on a sequence is a word more among its words.
LEMMA AppendToSet ==
  ASSUME NEW S, NEW s \in Seq(S), NEW w \in S
  PROVE  w \in ToSet(Append(s, w)) /\ ToSet(s) \subseteq ToSet(Append(s, w))
<1> DEFINE t == Append(s, w)
           m == Len(s)
<1>1. t \in Seq(S) /\ Len(t) = m + 1 /\ t[m + 1] = w /\ \A i \in 1 .. m : t[i] = s[i]
  BY AppendProperties
<1>2. m \in Nat /\ DOMAIN s = 1 .. m /\ DOMAIN t = 1 .. m + 1
  BY <1>1, LenProperties
<1> HIDE DEF t, m
<1>3. m + 1 \in DOMAIN t /\ \A i \in DOMAIN s : i \in DOMAIN t /\ t[i] = s[i]
  BY <1>1, <1>2
<1>4. QED
  BY <1>1, <1>3 DEF ToSet, t

\* In system mode nothing is on the normal stack.
Stacked(c) == c \in Cpu /\ (c.bank = "system" => c.stack["normal"] = <<>>)

\* The stacks are in use one after the other, and the call stack lists their returns.
Tidy(c) == Stacked(c) /\ ListsReturns(c.shadow, Words(c))

\* Both stacks together are words.
LEMMA WordsType ==
  ASSUME NEW c \in Cpu
  PROVE  /\ c.stack["system"] \in Seq(Word) /\ c.stack["normal"] \in Seq(Word)
         /\ Words(c) \in Seq(Word)
BY ConcatProperties DEF Cpu, Banks, Words

\* A push and a pop change the words at their top.
LEMMA PushWords ==
  ASSUME NEW c, Stacked(c), NEW w \in Word
  PROVE  Stacked(Push(c, w)) /\ Words(Push(c, w)) = Append(Words(c), w)
<1> DEFINE d == Push(c, w)
           s == c.stack["system"]
           n == c.stack["normal"]
<1>1. c \in Cpu /\ d \in Cpu /\ OtherStack(c, d)
  BY PushType DEF Stacked
<1>2. d.stack = [c.stack EXCEPT ![c.bank] = Append(@, w)] /\ c.stack \in [Banks -> Seq(Word)]
      /\ c.bank \in Banks
  BY <1>1 DEF Push, Cpu
<1>3. s \in Seq(Word) /\ n \in Seq(Word)
  BY <1>1, WordsType
<1> HIDE DEF d
<1>4. CASE c.bank = "system"
  <2>1. d.stack["system"] = Append(s, w) /\ d.stack["normal"] = <<>> /\ n = <<>>
    BY <1>2, <1>4 DEF Stacked, Banks
  <2>2. Append(s, w) \in Seq(Word)
    BY <1>3, AppendProperties
  <2>3. s \o <<>> = s /\ Append(s, w) \o <<>> = Append(s, w)
    BY <1>3, <2>2, ConcatEmptySeq
  <2>4. Words(c) = s /\ Words(d) = Append(s, w)
    BY <2>1, <2>3 DEF Words
  <2>5. Stacked(d)
    BY <1>1, <2>1 DEF Stacked
  <2>6. QED
    BY <2>4, <2>5 DEF d
<1>5. CASE c.bank = "normal"
  <2>1. d.stack["system"] = s /\ d.stack["normal"] = Append(n, w) /\ d.bank = "normal"
    BY <1>1, <1>2, <1>5 DEF OtherStack, Banks
  <2>2. s \o Append(n, w) = Append(s \o n, w)
    <3> HIDE DEF s, n
    <3>1. QED
      BY <1>3, ConcatAppend
  <2>3. Words(c) = s \o n /\ Words(d) = s \o Append(n, w)
    BY <2>1 DEF Words
  <2>4. Stacked(d)
    BY <1>1, <2>1 DEF Stacked
  <2>5. QED
    BY <2>2, <2>3, <2>4 DEF d
<1>6. QED
  BY <1>2, <1>4, <1>5 DEF Banks

\* The same for a pop, which takes the topmost word of both.
LEMMA PopWords ==
  ASSUME NEW c, Stacked(c), c.stack[c.bank] # <<>>
  PROVE  /\ Stacked(Pop(c)) /\ Words(Pop(c)) = Front(Words(c))
         /\ Words(c) # <<>> /\ Words(c)[Len(Words(c))] = Top(c)
<1> DEFINE d == Pop(c)
           s == c.stack["system"]
           n == c.stack["normal"]
<1>1. c \in Cpu /\ d \in Cpu /\ OtherStack(c, d)
  BY PopType DEF Stacked
<1>2. d.stack = [c.stack EXCEPT ![c.bank] = Front(@)] /\ c.stack \in [Banks -> Seq(Word)]
      /\ c.bank \in Banks
  BY <1>1 DEF Pop, Cpu
<1>3. s \in Seq(Word) /\ n \in Seq(Word)
  BY <1>1, WordsType
<1> HIDE DEF d
<1>4. CASE c.bank = "system"
  <2>1. d.stack["system"] = Front(s) /\ d.stack["normal"] = <<>> /\ n = <<>> /\ s # <<>>
    BY <1>2, <1>4 DEF Stacked, Banks
  <2>2. Front(s) \in Seq(Word)
    BY <1>3, <2>1, PopSeq DEF Front
  <2>3. s \o <<>> = s /\ Front(s) \o <<>> = Front(s)
    BY <1>3, <2>2, ConcatEmptySeq
  <2>4. Top(c) = s[Len(s)]
    BY <1>4, <2>1 DEF Top
  <2>5. QED
    BY <1>1, <2>1, <2>3, <2>4 DEF Words, Stacked, d
<1>5. CASE c.bank = "normal"
  <2>1. /\ d.stack["system"] = s /\ d.stack["normal"] = Front(n) /\ d.bank = "normal"
        /\ n # <<>>
    BY <1>1, <1>2, <1>5 DEF OtherStack, Banks
  <2>2. /\ s \o n # <<>> /\ (s \o n)[Len(s \o n)] = n[Len(n)]
        /\ s \o Front(n) = Front(s \o n)
    BY <1>3, <2>1, ConcatPop DEF Front
  <2>3. Top(c) = n[Len(n)]
    BY <1>5, <2>1 DEF Top
  <2>4. QED
    BY <1>1, <2>1, <2>2, <2>3 DEF Words, Stacked, d
<1>6. QED
  BY <1>2, <1>4, <1>5 DEF Banks

\* A call and the return that fits it keep the lists in step.
LEMMA CallTidy ==
  ASSUME NEW c, Tidy(c), NEW a \in Addr, Len(c.shadow) < MaxShadowStack
  PROVE  Tidy(Call(c, a)) /\ Call(c, a).bank = c.bank
<1> DEFINE p == Push(c, PcWord(c.pc))
           d == Call(c, a)
<1>1. c \in Cpu /\ c.pc \in Addr /\ c.shadow \in Seq(Addr) /\ PcWord(c.pc) \in Word
  BY DEF Tidy, Stacked, Cpu, PcWord, Word
<1>2. Stacked(p) /\ Words(p) = Append(Words(c), PcWord(c.pc)) /\ p.shadow = c.shadow
      /\ p.bank = c.bank
  BY <1>1, PushWords, PushType DEF Tidy, OtherStack
<1> HIDE DEF p
<1>3. d = [p EXCEPT !.pc = a, !.shadow = Append(c.shadow, c.pc)]
  BY <1>2 DEF Call, p, Stacked, Cpu
<1>4. Append(c.shadow, c.pc) \in Seq(Addr)
  BY <1>1, AppendProperties
<1>5. Stacked(d) /\ Words(d) = Words(p) /\ d.shadow = Append(c.shadow, c.pc)
      /\ d.bank = c.bank
  BY <1>2, <1>3, <1>4 DEF Stacked, Cpu, Words
<1>6. ListsReturns(Append(c.shadow, c.pc), Append(Words(c), PcWord(c.pc)))
  BY <1>1, ListsPushed, WordsType DEF Tidy
<1>7. QED
  BY <1>2, <1>5, <1>6 DEF Tidy

\* The return takes the newest entry of both.
LEMMA ReturnTidy ==
  ASSUME NEW c, Tidy(c), NEW a \in Addr, Top(c).is = "pc"
  PROVE  Tidy(Return(c, a)) /\ Return(c, a).bank = c.bank
<1> DEFINE p == Pop(c)
           d == Return(c, a)
<1>1. c \in Cpu /\ c.shadow \in Seq(Addr) /\ c.stack[c.bank] # <<>>
  BY DEF Tidy, Stacked, Cpu, Top, Identifier
<1>2. /\ Stacked(p) /\ Words(p) = Front(Words(c)) /\ p.shadow = c.shadow /\ p.bank = c.bank
      /\ Words(c) # <<>> /\ Words(c)[Len(Words(c))].is = "pc"
  BY <1>1, PopWords, PopType DEF Tidy, OtherStack
<1>3. c.shadow # <<>> /\ ListsReturns(Front(c.shadow), Front(Words(c)))
  BY <1>1, <1>2, ListsPopped, WordsType DEF Tidy
<1> HIDE DEF p
<1>4. d = [p EXCEPT !.pc = a, !.shadow = Front(c.shadow)]
  BY <1>2, <1>3 DEF Return, p, Stacked, Cpu
<1>5. Front(c.shadow) \in Seq(Addr)
  BY <1>1, <1>3, PopSeq DEF Front
<1>6. Stacked(d) /\ Words(d) = Words(p) /\ d.shadow = Front(c.shadow) /\ d.bank = c.bank
  BY <1>2, <1>4, <1>5 DEF Stacked, Cpu, Words
<1>7. QED
  BY <1>2, <1>3, <1>6 DEF Tidy

\* An IRET that finds an FCW over a PC takes what an exception pushed.
LEMMA InterruptReturnTidy ==
  ASSUME NEW c, Tidy(c), c.bank = "system", NEW f \in Fcw, NEW a \in Addr,
         Top(c).is = "fcw", Top(Pop(c)).is = "pc"
  PROVE  Tidy(InterruptReturn(c, f, a)) /\ InterruptReturn(c, f, a).stack["normal"] = <<>>
<1> DEFINE p == Pop(c)
           q == Pop(p)
           back == [q EXCEPT !.fcw = f, !.pc = a]
           d == InterruptReturn(c, f, a)
           s == Words(c)
<1>1. c \in Cpu /\ c.shadow \in Seq(Addr) /\ c.stack[c.bank] # <<>> /\ s \in Seq(Word)
  BY WordsType DEF Tidy, Stacked, Cpu, Top, Identifier
<1>2. /\ Stacked(p) /\ Words(p) = Front(s) /\ p.shadow = c.shadow /\ p.bank = "system"
      /\ s # <<>> /\ s[Len(s)].is = "fcw"
  BY <1>1, PopWords, PopType DEF Tidy, OtherStack
<1> HIDE DEF p, s
<1>3. p \in Cpu /\ p.stack[p.bank] # <<>>
  BY <1>2 DEF Stacked, Top, Identifier, p
<1>4. /\ Stacked(q) /\ Words(q) = Front(Words(p)) /\ q.shadow = c.shadow /\ q.bank = "system"
      /\ Words(p) # <<>> /\ Words(p)[Len(Words(p))] = Top(p)
  BY <1>2, <1>3, PopWords, PopType DEF OtherStack
<1> HIDE DEF q
<1>5. Front(s) # <<>> /\ Front(s)[Len(Front(s))].is = "pc"
  BY <1>2, <1>4 DEF p
<1>6. ListsReturns(c.shadow, Front(Front(s)))
  <2>1. ListsReturns(c.shadow, s)
    BY DEF Tidy, s
  <2>2. LET t == Front(Front(s)) IN
          t \in Seq(Word) /\ Returns(t) = Returns(s) /\ \A n \in Returns(s) : t[n] = s[n]
    BY <1>1, <1>2, <1>5, PoppedFrame
  <2>3. QED
    BY <1>1, <2>1, <2>2, SameReturns
<1>7. /\ Stacked(back) /\ Words(back) = Front(Front(s)) /\ back.shadow = c.shadow
      /\ back.bank = "system" /\ back.stack["normal"] = <<>>
  <2>1. back.stack = q.stack
    BY <1>4 DEF Stacked, Cpu
  <2>2. Stacked(back) /\ back.shadow = q.shadow /\ back.bank = "system"
        /\ back.stack["normal"] = <<>>
    BY <1>4 DEF Stacked, Cpu
  <2>3. Words(back) = Words(q)
    BY <2>1 DEF Words
  <2>4. QED
    BY <1>2, <1>4, <2>2, <2>3
<1> HIDE DEF back
<1>8. d = IF f.sn THEN back ELSE [back EXCEPT !.bank = "normal"]
  BY <1>7 DEF InterruptReturn, SwapStackBanks, back, q, p, Stacked, Cpu
<1>9. Stacked(d) /\ Words(d) = Words(back) /\ d.shadow = c.shadow /\ d.stack["normal"] = <<>>
  BY <1>7, <1>8 DEF Stacked, Cpu, Banks, Words
<1>10. QED
  BY <1>6, <1>7, <1>9 DEF Tidy

\* What an exception leaves on the stacks: everything that was there, an
\* identifier when it pushes one, and a frame over it.
LEMMA ExceptionStacks ==
  ASSUME NEW c \in SoundCpu, NEW v \in Vectors, NEW pushIdentifier \in BOOLEAN
  PROVE  LET d == TakeException(c, v, pushIdentifier)
             s == c.stack["system"]
         IN /\ d \in Cpu /\ d.bank = "system" /\ d.shadow = c.shadow
            /\ d.stack["normal"] = c.stack["normal"]
            /\ \E f \in Fcw :
                 f.sn /\
                 d.stack["system"] =
                   Append(Append(IF pushIdentifier THEN Append(s, Identifier) ELSE s,
                                 PcWord(c.pc)), FcwWord(f))
<1> DEFINE in == IF c.fcw.sn THEN c ELSE [SwapStackBanks(c) EXCEPT !.fcw.sn = TRUE]
           id == IF pushIdentifier THEN Push(in, Identifier) ELSE in
           one == Push(id, PcWord(id.pc))
           saved == Push(one, FcwWord(id.fcw))
           d == TakeException(c, v, pushIdentifier)
           s == c.stack["system"]
           t == IF pushIdentifier THEN Append(s, Identifier) ELSE s
<1>1. /\ in \in Cpu /\ in.bank = "system" /\ in.stack = c.stack /\ in.shadow = c.shadow
      /\ in.pc = c.pc /\ in.fcw.sn
  BY DEF SoundCpu, Cpu, Fcw, Banks, SwapStackBanks
<1> HIDE DEF in
<1>2. \A x \in Cpu, w \in Word : x.bank = "system" =>
        /\ Push(x, w) \in Cpu /\ Push(x, w).bank = "system" /\ Push(x, w).shadow = x.shadow
        /\ Push(x, w).pc = x.pc /\ Push(x, w).fcw = x.fcw
        /\ Push(x, w).stack["normal"] = x.stack["normal"]
        /\ Push(x, w).stack["system"] = Append(x.stack["system"], w)
  <2>1. ASSUME NEW x \in Cpu, NEW w \in Word, x.bank = "system"
        PROVE  /\ Push(x, w).stack["normal"] = x.stack["normal"]
               /\ Push(x, w).stack["system"] = Append(x.stack["system"], w)
    BY <2>1 DEF Push, Cpu, Banks
  <2>2. QED
    BY <2>1, PushType DEF OtherStack
<1>3. Identifier \in Word
  BY DEF Identifier, Word
<1>4. /\ id \in Cpu /\ id.bank = "system" /\ id.shadow = c.shadow /\ id.pc = c.pc
      /\ id.fcw.sn
      /\ id.stack["normal"] = c.stack["normal"] /\ id.stack["system"] = t
  <2>1. CASE pushIdentifier
    <3>1. id = Push(in, Identifier) /\ t = Append(s, Identifier)
      BY <2>1
    <3>2. /\ Push(in, Identifier) \in Cpu /\ Push(in, Identifier).bank = "system"
          /\ Push(in, Identifier).shadow = in.shadow /\ Push(in, Identifier).pc = in.pc
          /\ Push(in, Identifier).fcw = in.fcw
          /\ Push(in, Identifier).stack["normal"] = in.stack["normal"]
          /\ Push(in, Identifier).stack["system"] = Append(in.stack["system"], Identifier)
      BY <1>1, <1>2, <1>3
    <3>3. in.stack["system"] = s
      BY <1>1
    <3> HIDE DEF id, t, s
    <3>4. QED
      BY <1>1, <3>1, <3>2, <3>3 DEF s
  <2>2. CASE ~pushIdentifier
    BY <1>1, <2>2
  <2>3. QED
    BY <2>1, <2>2
<1> HIDE DEF id, t
<1>5. PcWord(c.pc) \in Word /\ id.fcw \in Fcw /\ FcwWord(id.fcw) \in Word
  BY <1>4 DEF PcWord, FcwWord, Word, Cpu
<1>6. /\ one \in Cpu /\ one.bank = "system" /\ one.shadow = c.shadow
      /\ one.stack["normal"] = c.stack["normal"]
      /\ one.stack["system"] = Append(t, PcWord(c.pc))
  BY <1>2, <1>4, <1>5
<1> HIDE DEF one
<1>7. /\ saved \in Cpu /\ saved.bank = "system" /\ saved.shadow = c.shadow
      /\ saved.stack["normal"] = c.stack["normal"]
      /\ saved.stack["system"] = Append(Append(t, PcWord(c.pc)), FcwWord(id.fcw))
  BY SMTT(30), <1>2, <1>5, <1>6
<1>8. d = [saved EXCEPT !.fcw = Psa[v].fcw, !.pc = Psa[v].pc, !.halted = FALSE]
  BY DEF TakeException, saved, one, id, in
<1> HIDE DEF saved, d
<1>9. d.stack = saved.stack /\ d.bank = "system" /\ d.shadow = c.shadow /\ d \in Cpu
  <2>1. Psa[v].fcw \in Fcw /\ Psa[v].pc \in Addr
    BY Z8000Assumption DEF Status
  <2>2. QED
    BY <1>7, <1>8, <2>1 DEF Cpu
<1>10. QED
  BY <1>4, <1>5, <1>7, <1>9 DEF d, t

\* A trap and a VI leave an identifier, which nothing takes away again.
LEMMA ExceptionMarks ==
  ASSUME NEW c \in SoundCpu, NEW v \in Vectors, NEW pushIdentifier \in BOOLEAN,
         pushIdentifier \/ Identifier \in ToSet(c.stack["system"])
  PROVE  Identifier \in ToSet(TakeException(c, v, pushIdentifier).stack["system"])
<1> DEFINE s == c.stack["system"]
           t == IF pushIdentifier THEN Append(s, Identifier) ELSE s
           d == TakeException(c, v, pushIdentifier)
<1>1. PICK f \in Fcw : d.stack["system"] = Append(Append(t, PcWord(c.pc)), FcwWord(f))
  BY ExceptionStacks
<1>2. /\ s \in Seq(Word) /\ Identifier \in Word /\ PcWord(c.pc) \in Word
      /\ FcwWord(f) \in Word
  BY WordsType DEF SoundCpu, Cpu, Identifier, PcWord, FcwWord, Word
<1> HIDE DEF d, s
<1>3. t \in Seq(Word) /\ Identifier \in ToSet(t)
  BY <1>2, AppendProperties, AppendToSet DEF s
<1> HIDE DEF t
<1>4. Append(t, PcWord(c.pc)) \in Seq(Word) /\ Identifier \in ToSet(Append(t, PcWord(c.pc)))
  BY <1>2, <1>3, AppendProperties, AppendToSet
<1>5. Identifier \in ToSet(Append(Append(t, PcWord(c.pc)), FcwWord(f)))
  BY <1>2, <1>4, AppendToSet
<1>6. QED
  BY <1>1, <1>5 DEF d

\* An NVI leaves a frame, which lists nothing.
LEMMA ExceptionTidy ==
  ASSUME NEW c \in SoundCpu, Tidy(c), c.stack["normal"] = <<>>, NEW v \in Vectors
  PROVE  Tidy(TakeException(c, v, FALSE))
<1> DEFINE s == c.stack["system"]
           d == TakeException(c, v, FALSE)
<1>1. PICK f \in Fcw : d.stack["system"] = Append(Append(s, PcWord(c.pc)), FcwWord(f))
  BY ExceptionStacks
<1>2. d \in Cpu /\ d.bank = "system" /\ d.shadow = c.shadow /\ d.stack["normal"] = <<>>
  BY ExceptionStacks
<1>3. s \in Seq(Word) /\ c.pc \in Addr /\ c.shadow \in Seq(Addr)
  BY WordsType DEF SoundCpu, Cpu
<1> DEFINE t == Append(Append(s, PcWord(c.pc)), FcwWord(f))
<1>4. t \in Seq(Word) /\ Returns(t) = Returns(s) /\ \A n \in Returns(s) : t[n] = s[n]
  BY <1>3, PushedFrame
<1> HIDE DEF d, s, t
<1>5. Words(c) = s /\ Words(d) = t
  BY <1>1, <1>2, <1>3, <1>4, ConcatEmptySeq DEF Words, s, t
<1>6. ListsReturns(c.shadow, t)
  BY <1>3, <1>4, <1>5, SameReturns DEF Tidy
<1>7. QED
  BY <1>2, <1>5, <1>6 DEF Tidy, Stacked, d

\* A trap or a VI has happened: its identifier is on the system stack.
Marked(c) == Identifier \in ToSet(c.stack["system"])

\* Only the stacks, the bank and the call stack count.
LEMMA SameTidy ==
  ASSUME NEW c, Tidy(c), NEW d \in Cpu,
         d.stack = c.stack, d.bank = c.bank, d.shadow = c.shadow
  PROVE  Tidy(d)
BY DEF Tidy, Stacked, Words

\* A pop takes the word that was pushed.
LEMMA PushTop ==
  ASSUME NEW c \in Cpu, NEW w \in Word
  PROVE  Top(Push(c, w)) = w /\ Pop(Push(c, w)) = c
<1> DEFINE s == c.stack[c.bank]
           t == Append(s, w)
           d == Push(c, w)
<1>1. c.stack \in [Banks -> Seq(Word)] /\ c.bank \in Banks /\ s \in Seq(Word)
  BY DEF Cpu
<1>2. /\ t \in Seq(Word) /\ Len(t) = Len(s) + 1 /\ t[Len(s) + 1] = w
      /\ \A i \in 1 .. Len(s) : t[i] = s[i]
  BY <1>1, AppendProperties
<1>3. Len(s) \in Nat
  BY <1>1, LenProperties
<1> HIDE DEF t
<1>4. t # <<>> /\ t[Len(t)] = w
  BY <1>2, <1>3, EmptySeq
<1>5. Front(t) = s
  <2>1. /\ Front(t) \in Seq(Word) /\ Len(Front(t)) = Len(s)
        /\ \A i \in 1 .. Len(s) : Front(t)[i] = t[i]
    BY <1>2, <1>3, <1>4, PopSeq, PopKeeps DEF Front
  <2>2. QED
    BY <1>1, <1>2, <2>1, SeqEqual
<1>6. d = [c EXCEPT !.stack = [c.stack EXCEPT ![c.bank] = t]]
  BY DEF Push, Cpu, t
<1> HIDE DEF s
<1>7. d \in Cpu /\ d.bank = c.bank
  BY PushType DEF OtherStack
<1> HIDE DEF d
<1>8. d.stack = [c.stack EXCEPT ![c.bank] = t]
  BY <1>6 DEF Cpu
<1>9. d.stack[d.bank] = t
  BY <1>1, <1>7, <1>8
<1>10. Top(d) = w
  BY <1>4, <1>9 DEF Top
<1>11. Pop(d) = [d EXCEPT !.stack = [d.stack EXCEPT ![c.bank] = s]]
  BY <1>4, <1>5, <1>7, <1>8, <1>9 DEF Pop, Cpu
<1>12. [d.stack EXCEPT ![c.bank] = s] = c.stack
  BY <1>1, <1>8 DEF s
<1>13. Pop(d) = c
  <2>1. Pop(d) = [d EXCEPT !.stack = c.stack]
    BY <1>11, <1>12
  <2>2. [d EXCEPT !.stack = c.stack] = c
    BY <1>6 DEF Cpu
  <2>3. QED
    BY <2>1, <2>2
<1>14. QED
  BY <1>10, <1>13 DEF d

\* An instruction that pops what it needs keeps the lists in step, or is a trap;
\* one of the system's finds the normal stack empty and leaves it empty.
LEMMA ExecuteTidy ==
  ASSUME CpuInv, ReturnsPair, RoomForCalls, ~mixed, Tidy(cpu), NEW d \in ExecuteOne(cpu)
  PROVE  \/ Marked(d)
         \/ Tidy(d) /\ (cpu.fcw.sn => d.stack["normal"] = <<>>)
<1> DEFINE e == [cpu EXCEPT !.pc = NextPc(@)]
           ins == Code[cpu.pc]
           Kept(x) == Tidy(x) /\ (cpu.fcw.sn => x.stack["normal"] = <<>>)
<1>1. cpu \in SoundCpu /\ cpu \in Cpu /\ cpu.pc \in Addr /\ NextPc(cpu.pc) \in Addr
      /\ cpu.fcw.sn \in BOOLEAN /\ (cpu.bank = "system" <=> cpu.fcw.sn)
  BY Z8000Assumption DEF CpuInv, SoundCpu, Cpu, Fcw, NextPc, Addr
<1>2. Kept(cpu)
  BY <1>1 DEF Tidy, Stacked
<1>3. CASE cpu.halted
  BY <1>2, <1>3 DEF ExecuteOne
<1> SUFFICES ASSUME ~cpu.halted PROVE Marked(d) \/ Kept(d)
  BY <1>3
<1>4. /\ e \in SoundCpu /\ e \in Cpu /\ e.fcw = cpu.fcw /\ e.stack = cpu.stack
      /\ e.bank = cpu.bank /\ e.shadow = cpu.shadow
  BY <1>1 DEF SoundCpu, Cpu
<1>5. ins.op \in Ops /\ ins.target \in Addr
  BY <1>1, Z8000Assumption DEF Instr
<1>6. d \in Outcomes(e, ins)
  BY DEF ExecuteOne
<1> HIDE DEF e
<1>7. Tidy(e) /\ (cpu.fcw.sn => e.stack["normal"] = <<>>)
  BY <1>1, <1>2, <1>4, SameTidy
<1>8. Marked(Trap(e))
  BY <1>4, ExceptionMarks DEF Trap, Marked, Vectors
<1>9. Top(e) = Top(cpu) /\ Top(Pop(e)) = Top(Pop(cpu))
  <2>1. Top(e) = Top(cpu)
    BY <1>4 DEF Top
  <2>2. Pop(e).stack = Pop(cpu).stack /\ Pop(e).bank = Pop(cpu).bank
    BY <1>1, <1>4 DEF Pop, Cpu
  <2>3. QED
    BY <2>1, <2>2 DEF Top
<1>10. ASSUME NEW x \in Cpu, x.stack = e.stack, x.bank = e.bank, x.shadow = e.shadow
       PROVE  Kept(x)
  BY <1>7, <1>10, SameTidy
<1>11. CASE ins.op \in {"plain", "branch"} \/ d = e
  <2>1. d = e \/ d = [e EXCEPT !.pc = ins.target]
    BY <1>6, <1>11 DEF Outcomes
  <2>2. d \in Cpu /\ d.stack = e.stack /\ d.bank = e.bank /\ d.shadow = e.shadow
    BY <1>4, <1>5, <2>1 DEF Cpu
  <2>3. QED
    BY <1>10, <2>2
<1>12. CASE ins.op = "call"
  <2>1. d = Call(e, ins.target) /\ Len(e.shadow) < MaxShadowStack
    BY <1>4, <1>6, <1>12 DEF Outcomes, RoomForCalls
  <2>2. Tidy(d) /\ d.bank = cpu.bank
    BY <1>4, <1>5, <1>7, <2>1, CallTidy
  <2>3. QED
    BY <1>1, <2>2 DEF Tidy, Stacked
<1>13. CASE ins.op \in {"ret", "retcc"} /\ d # e
  <2>1. PICK a \in AsPc(Top(e)) : d = Return(e, a)
    BY <1>6, <1>13 DEF Outcomes
  <2>2. a \in Addr
    BY <1>4, TopType
  <2>3. Top(e).is = "pc"
    BY <1>9, <1>13 DEF ReturnsPair
  <2>4. Tidy(d) /\ d.bank = cpu.bank
    BY <1>4, <1>7, <2>1, <2>2, <2>3, ReturnTidy
  <2>5. QED
    BY <1>1, <2>4 DEF Tidy, Stacked
<1>14. CASE ins.op = "iret"
  <2>1. CASE ~e.fcw.sn
    BY <1>6, <1>8, <1>14, <2>1 DEF Outcomes
  <2>2. CASE e.fcw.sn
    <3>1. PICK f \in AsFcw(Top(e)), a \in AsPc(Top(Pop(e))) : d = InterruptReturn(e, f, a)
      BY <1>6, <1>14, <2>2 DEF Outcomes
    <3>2. f \in Fcw /\ a \in Addr
      BY <1>4, TopType, PopType
    <3>3. Top(e).is = "fcw" /\ Top(Pop(e)).is = "pc" /\ e.bank = "system"
      BY <1>1, <1>4, <1>9, <1>14, <2>2 DEF ReturnsPair
    <3>4. QED
      BY <1>7, <3>1, <3>2, <3>3, InterruptReturnTidy
  <2>3. QED
    BY <2>1, <2>2
<1>15. CASE ins.op = "enter"
  <2>1. d = Enter(e, ins.target)
    BY <1>6, <1>15 DEF Outcomes
  <2>2. CASE ~e.fcw.sn
    BY <1>8, <2>1, <2>2 DEF Enter
  <2>3. CASE e.fcw.sn
    <3> DEFINE f == [e.fcw EXCEPT !.sn = FALSE]
               one == Push(e, PcWord(ins.target))
               two == Push(one, FcwWord(f))
    <3>1. /\ f \in Fcw /\ PcWord(ins.target) \in Word /\ FcwWord(f) \in Word
          /\ FcwWord(f).is = "fcw" /\ PcWord(ins.target).is = "pc"
      BY <1>4, <1>5 DEF Cpu, Fcw, PcWord, FcwWord, Word
    <3>2. d = InterruptReturn(two, f, ins.target)
      BY <2>1, <2>3 DEF Enter
    <3>3. e.bank = "system" /\ e.stack["normal"] = <<>> /\ e.stack["system"] \in Seq(Word)
          /\ Stacked(e) /\ e.shadow \in Seq(Addr)
      BY <1>1, <1>4, <1>7, <2>3, WordsType DEF Tidy, Cpu
    <3> HIDE DEF f
    <3>4. /\ Stacked(one) /\ Words(one) = Append(Words(e), PcWord(ins.target))
          /\ one.bank = "system" /\ one.shadow = e.shadow
      BY SMTT(30), <1>4, <3>1, <3>3, PushWords, PushType DEF OtherStack
    <3> HIDE DEF one
    <3>5. /\ Stacked(two) /\ Words(two) = Append(Words(one), FcwWord(f))
          /\ two.bank = "system" /\ two.shadow = e.shadow
      <4>1. one \in Cpu
        BY <3>4 DEF Stacked
      <4>2. two.bank = one.bank /\ two.shadow = one.shadow
        BY <3>1, <4>1, PushType DEF OtherStack
      <4>3. Stacked(two) /\ Words(two) = Append(Words(one), FcwWord(f))
        BY <3>1, <3>4, PushWords
      <4>4. QED
        BY <3>4, <4>2, <4>3
    <3> DEFINE t == Append(Append(Words(e), PcWord(ins.target)), FcwWord(f))
    <3>6. t \in Seq(Word) /\ Returns(t) = Returns(Words(e)) /\ \A n \in Returns(Words(e)) : t[n] = Words(e)[n]
      BY <1>4, <1>5, <3>1, PushedFrame, WordsType
    <3>7. Words(two) = t
      BY <3>4, <3>5
    <3> HIDE DEF t
    <3>8. ListsReturns(e.shadow, t)
      BY <1>4, <1>7, <3>3, <3>6, SameReturns, WordsType DEF Tidy
    <3>9. Tidy(two)
      BY <3>5, <3>7, <3>8 DEF Tidy
    <3>10. Top(two).is = "fcw" /\ Top(Pop(two)).is = "pc"
      <4>1. Top(one) = PcWord(ins.target) /\ one \in Cpu
        BY <1>4, <3>1, <3>4, PushTop DEF one, Stacked
      <4>2. Top(two) = FcwWord(f) /\ Pop(two) = one
        BY <3>1, <4>1, PushTop DEF two
      <4>3. QED
        BY <3>1, <4>1, <4>2
    <3>11. QED
      BY <1>5, <3>1, <3>2, <3>5, <3>9, <3>10, InterruptReturnTidy
  <2>4. QED
    BY <2>2, <2>3
<1>16. CASE ins.op \in {"ei", "di", "io", "halt"}
  <2>1. \/ d = Trap(e) \/ d = e \/ d = [e EXCEPT !.halted = TRUE]
        \/ \E on \in BOOLEAN : d = SetEnables(e, ins.sources, on)
    BY <1>6, <1>16
    DEF Outcomes, EnableInterrupts, DisableInterrupts, InputOutput, Halt
  <2>2. CASE d = Trap(e)
    BY <1>8, <2>2
  <2>3. CASE d = e \/ d = [e EXCEPT !.halted = TRUE]
    <3>1. d \in Cpu /\ d.stack = e.stack /\ d.bank = e.bank /\ d.shadow = e.shadow
      BY <1>4, <2>3 DEF Cpu
    <3>2. QED
      BY <1>10, <3>1
  <2>4. CASE \E on \in BOOLEAN : d = SetEnables(e, ins.sources, on)
    BY <1>4, <1>10, <2>4, SetEnablesType
  <2>5. QED
    BY <2>1, <2>2, <2>3, <2>4
<1>17. CASE ins.op = "unknown"
  BY <1>6, <1>8, <1>17 DEF Outcomes
<1>18. QED
  BY <1>5, <1>11, <1>12, <1>13, <1>14, <1>15, <1>16, <1>17 DEF Ops

\* So does the step of which it is a part, unless the pairing ends with it.
LEMMA AfterTidy ==
  ASSUME CpuInv, ReturnsPair, RoomForCalls, ~mixed, Tidy(cpu),
         NEW updateLines \in BOOLEAN, NEW d \in After(cpu, updateLines), ~Mixes(cpu, d)
  PROVE  Tidy(d)
<1>1. PICK e \in ExecuteOne(cpu) :
        \E g \in IF updateLines THEN Lines(e) ELSE {e} : d = CheckInterrupts(g)
  BY DEF After
<1>2. PICK g \in IF updateLines THEN Lines(e) ELSE {e} : d = CheckInterrupts(g)
  BY <1>1
<1>3. e \in SoundCpu /\ cpu \in SoundCpu
  BY ExecuteOneType DEF CpuInv
<1>4. /\ g \in SoundCpu /\ g \in Cpu /\ g.stack = e.stack /\ g.bank = e.bank
      /\ g.shadow = e.shadow /\ g.fcw = e.fcw
  <2>1. CASE ~updateLines
    BY <1>2, <1>3, <2>1 DEF SoundCpu
  <2>2. CASE updateLines
    <3>1. PICK l \in Levels : g = [e EXCEPT !.viLine = l.vi, !.nviLine = l.nvi]
      BY <1>2, <2>2 DEF Lines
    <3>2. l.vi \in BOOLEAN /\ l.nvi \in BOOLEAN
      BY Z8000SessionAssumption DEF Levels
    <3>3. QED
      BY <1>3, <3>1, <3>2 DEF SoundCpu, Cpu
  <2>3. QED
    BY <2>1, <2>2
<1>5. ~Marked(d) /\ (~cpu.fcw.sn => ~d.fcw.sn)
  BY DEF Mixes, Marked
<1>6. ~Marked(g)
  <2>1. SUFFICES ASSUME Marked(g) PROVE Marked(d)
    BY <1>5
  <2>2. \A v \in Vectors, p \in BOOLEAN : Marked(TakeException(g, v, p))
    BY <1>4, <2>1, ExceptionMarks DEF Marked
  <2>3. QED
    BY <1>2, <2>1, <2>2 DEF CheckInterrupts, Vectors
<1>7. Tidy(e) /\ (cpu.fcw.sn => e.stack["normal"] = <<>>)
  BY <1>1, <1>4, <1>6, ExecuteTidy DEF Marked
<1>8. Tidy(g) /\ (cpu.fcw.sn => g.stack["normal"] = <<>>)
  BY <1>4, <1>7, SameTidy
<1>9. CASE d = g
  BY <1>8, <1>9
<1>10. CASE d = TakeException(g, "vi", TRUE)
  BY <1>4, <1>5, <1>10, ExceptionMarks DEF Marked, Vectors
<1>11. CASE d = TakeException(g, "nvi", FALSE)
  <2>1. d.fcw.sn
    BY <1>4, <1>11, TakeExceptionType, Z8000Assumption DEF Entered, Vectors
  <2>2. cpu.fcw.sn
    BY <1>3, <1>5, <2>1 DEF SoundCpu, Cpu, Fcw
  <2>3. QED
    BY <1>4, <1>8, <1>11, <2>2, ExceptionTidy DEF Vectors
<1>12. QED
  BY <1>2, <1>9, <1>10, <1>11 DEF CheckInterrupts

\* What holds until a trap, a VI or an interrupt of a program in normal mode.
TidyInv == ~mixed => Tidy(cpu)

\* The debugger's call stack lists the return addresses on the guest's stacks,
\* for every program whose returns pair and which nests no more calls than the
\* call stack holds, with calls, handlers, steps and resets in any order.
THEOREM ShadowIsCallStack ==
  Spec /\ []ReturnsPair /\ []RoomForCalls => []ShadowIsCalls
<1>1. Tidy(ResetCpu)
  <2>1. Words(ResetCpu) = <<>> /\ ResetCpu.shadow = <<>> /\ Stacked(ResetCpu)
    BY ResetType DEF ResetCpu, Words, Stacked, SoundCpu, Banks
  <2>2. Returns(<<>>) = {}
    BY DEF Returns
  <2>3. <<>> \in [1 .. Len(<<>>) -> {}]
    OBVIOUS
  <2>4. ListsReturns(<<>>, <<>>)
    BY <2>2, <2>3 DEF ListsReturns
  <2>5. QED
    BY <2>1, <2>4 DEF Tidy
<1>2. Init => TidyInv
  BY <1>1 DEF Init, TidyInv
<1>3. ASSUME CpuInv, TidyInv, ReturnsPair, RoomForCalls, [Next]_vars
      PROVE  TidyInv'
  <2>1. ASSUME NEW updateLines \in BOOLEAN, cpu' \in After(cpu, updateLines),
               mixed' = (mixed \/ Mixes(cpu, cpu'))
        PROVE  TidyInv'
    <3>1. SUFFICES ASSUME ~mixed' PROVE Tidy(cpu')
      BY DEF TidyInv
    <3>2. ~mixed /\ ~Mixes(cpu, cpu')
      BY <2>1, <3>1
    <3>3. Tidy(cpu)
      BY <1>3, <3>2 DEF TidyInv
    <3>4. \A d \in After(cpu, updateLines) : ~Mixes(cpu, d) => Tidy(d)
      BY <1>3, <3>2, <3>3, AfterTidy
    <3>5. QED
      BY <2>1, <3>2, <3>4
  <2>2. CASE Step \/ RunFromBreakpoint
    BY <2>1, <2>2 DEF Step, RunFromBreakpoint, Instruction
  <2>3. CASE Reset
    BY <1>1, <2>3 DEF Reset, TidyInv
  <2>4. CASE LoopExecute
    BY <2>1, <2>4 DEF LoopExecute
  <2>5. CASE UNCHANGED guestVars
    BY <1>3, <2>5 DEF guestVars, TidyInv
  <2>6. QED
    BY <1>3, <2>2, <2>3, <2>4, <2>5
    DEF Next, StepOver, StepOut, Run, Stop, Joined, EditBreakpoints, EditWatchpoints, LoopStop, vars
<1>4. TidyInv => ShadowIsCalls
  BY DEF TidyInv, Tidy, ShadowIsCalls
<1>5. CpuInv /\ TidyInv /\ ReturnsPair /\ RoomForCalls /\ [Next]_vars => TidyInv'
  BY <1>3
<1>6. QED
  BY <1>2, <1>4, <1>5, CpuInvariant, PTL DEF Spec
-----------------------------------------------------------------------------
(***************************************************************************)
(* Returns that pair, from the way the program is written.  part says      *)
(* which part of the program an address belongs to; the words below an     *)
(* address on a stack say which part it must return to.                    *)
(***************************************************************************)
\* What runs on an empty stack of a bank.
Base(bank) == IF bank = "system" THEN "main" ELSE "user"

\* The part that runs when s has n words, on a stack where base runs on none.
Owner(base, s, n) == IF n = 0 THEN base ELSE IF s[n].is = "pc" THEN "sub" ELSE "handler"

\* Every word of s is a return address into the part below it, or the FCW of a
\* frame that an NVI pushed in system mode.
Below(part, base, s) ==
  \A n \in DOMAIN s :
    \/ s[n].is = "pc" /\ part[s[n].pc] = Owner(base, s, n - 1)
    \/ s[n].is = "fcw" /\ s[n].fcw.sn /\ n > 1 /\ s[n - 1].is = "pc"

\* Execution at a fits the stack s.
Linked(part, base, a, s) == part[a] = Owner(base, s, Len(s)) /\ Below(part, base, s)

\* The same of a processor and the stack its mode uses.
Paired(part, c) == Stacked(c) /\ Linked(part, Base(c.bank), c.pc, c.stack[c.bank])

\* A longer stack agrees with the shorter one on what is below.
LEMMA OwnerAppend ==
  ASSUME NEW base, NEW s \in Seq(Word), NEW w \in Word, NEW n \in 0 .. Len(s)
  PROVE  Owner(base, Append(s, w), n) = Owner(base, s, n)
<1>1. \A i \in 1 .. Len(s) : Append(s, w)[i] = s[i]
  BY AppendProperties
<1>2. n = 0 \/ n \in 1 .. Len(s)
  BY LenProperties
<1>3. QED
  BY <1>1, <1>2 DEF Owner

\* A word may be pushed where it fits.
LEMMA BelowAppend ==
  ASSUME NEW part, NEW base, NEW s \in Seq(Word), Below(part, base, s), NEW w \in Word,
         \/ w.is = "pc" /\ part[w.pc] = Owner(base, s, Len(s))
         \/ w.is = "fcw" /\ w.fcw.sn /\ Len(s) > 0 /\ s[Len(s)].is = "pc"
  PROVE  Below(part, base, Append(s, w))
<1> DEFINE t == Append(s, w)
           m == Len(s)
<1>1. t \in Seq(Word) /\ Len(t) = m + 1 /\ t[m + 1] = w /\ \A i \in 1 .. m : t[i] = s[i]
  BY AppendProperties
<1>2. m \in Nat /\ DOMAIN s = 1 .. m /\ DOMAIN t = 1 .. m + 1
  BY <1>1, LenProperties
<1>3. \A n \in 0 .. m : Owner(base, t, n) = Owner(base, s, n)
  BY OwnerAppend
<1> HIDE DEF t
<1> SUFFICES ASSUME NEW n \in DOMAIN t
             PROVE  \/ t[n].is = "pc" /\ part[t[n].pc] = Owner(base, t, n - 1)
                    \/ t[n].is = "fcw" /\ t[n].fcw.sn /\ n > 1 /\ t[n - 1].is = "pc"
  BY DEF Below, t
<1>4. CASE n = m + 1
  <2>1. n - 1 = m /\ m \in 0 .. m /\ (m > 0 => n > 1 /\ m \in 1 .. m)
    BY <1>2, <1>4
  <2>2. QED
    BY <1>1, <1>3, <1>4, <2>1 DEF m
<1>5. CASE n # m + 1
  <2>1. n \in 1 .. m /\ n - 1 \in 0 .. m /\ (n > 1 => n - 1 \in 1 .. m)
    BY <1>2, <1>5
  <2>2. t[n] = s[n] /\ (n > 1 => t[n - 1] = s[n - 1]) /\ Owner(base, t, n - 1) = Owner(base, s, n - 1)
    BY <1>1, <1>3, <2>1
  <2>3. \/ s[n].is = "pc" /\ part[s[n].pc] = Owner(base, s, n - 1)
        \/ s[n].is = "fcw" /\ s[n].fcw.sn /\ n > 1 /\ s[n - 1].is = "pc"
    BY <1>2, <2>1 DEF Below
  <2>4. QED
    BY <2>2, <2>3
<1>6. QED
  BY <1>4, <1>5

\* Below a stack that fits, every shorter one does.
LEMMA BelowFront ==
  ASSUME NEW part, NEW base, NEW s \in Seq(Word), Below(part, base, s), s # <<>>
  PROVE  /\ Front(s) \in Seq(Word) /\ Len(Front(s)) = Len(s) - 1
         /\ Below(part, base, Front(s))
         /\ Owner(base, Front(s), Len(Front(s))) = Owner(base, s, Len(s) - 1)
         /\ \A i \in 1 .. Len(s) - 1 : Front(s)[i] = s[i]
<1> DEFINE t == Front(s)
           m == Len(s)
<1>1. m \in Nat /\ m # 0 /\ DOMAIN s = 1 .. m
  BY EmptySeq, LenProperties
<1>2. t \in Seq(Word) /\ Len(t) = m - 1 /\ \A n \in 1 .. m - 1 : t[n] = s[n]
  BY PopSeq, PopKeeps DEF Front
<1>3. DOMAIN t = 1 .. m - 1
  BY <1>2, LenProperties
<1> HIDE DEF t, m
<1>4. \A n \in 0 .. m - 1 : Owner(base, t, n) = Owner(base, s, n)
  <2>1. \A n \in 0 .. m - 1 : n = 0 \/ n \in 1 .. m - 1
    BY <1>1
  <2>2. QED
    BY <1>2, <2>1 DEF Owner
<1>5. Below(part, base, t)
  <2> SUFFICES ASSUME NEW n \in 1 .. m - 1
               PROVE  \/ t[n].is = "pc" /\ part[t[n].pc] = Owner(base, t, n - 1)
                      \/ t[n].is = "fcw" /\ t[n].fcw.sn /\ n > 1 /\ t[n - 1].is = "pc"
    BY <1>3 DEF Below
  <2>1. n \in 1 .. m /\ n - 1 \in 0 .. m - 1 /\ (n > 1 => n - 1 \in 1 .. m - 1)
    BY <1>1
  <2>2. t[n] = s[n] /\ (n > 1 => t[n - 1] = s[n - 1]) /\ Owner(base, t, n - 1) = Owner(base, s, n - 1)
    BY <1>2, <1>4, <2>1
  <2>3. \/ s[n].is = "pc" /\ part[s[n].pc] = Owner(base, s, n - 1)
        \/ s[n].is = "fcw" /\ s[n].fcw.sn /\ n > 1 /\ s[n - 1].is = "pc"
    BY <1>1, <2>1 DEF Below
  <2>4. QED
    BY <2>2, <2>3
<1>6. m - 1 \in 0 .. m - 1
  BY <1>1
<1>7. QED
  BY <1>2, <1>4, <1>5, <1>6 DEF t, m

\* A subroutine finds a return address on top, into the part that called it.
LEMMA LinkedReturn ==
  ASSUME NEW part, NEW base \in {"main", "user"}, NEW s \in Seq(Word), NEW a,
         Linked(part, base, a, s), part[a] = "sub"
  PROVE  /\ s # <<>> /\ s[Len(s)].is = "pc"
         /\ Linked(part, base, s[Len(s)].pc, Front(s))
<1>1. Len(s) # 0 /\ s[Len(s)].is = "pc"
  BY DEF Linked, Owner
<1>2. s # <<>> /\ Len(s) \in DOMAIN s
  BY <1>1, EmptySeq, LenProperties
<1>3. part[s[Len(s)].pc] = Owner(base, s, Len(s) - 1)
  BY <1>1, <1>2 DEF Linked, Below
<1>4. QED
  BY <1>1, <1>2, <1>3, BelowFront DEF Linked

\* The timer's handler finds a frame on top, into the part that it interrupted.
LEMMA LinkedFrame ==
  ASSUME NEW part, NEW base \in {"main", "user"}, NEW s \in Seq(Word), NEW a,
         Linked(part, base, a, s), part[a] = "handler"
  PROVE  LET t == Front(s) IN
         /\ s # <<>> /\ s[Len(s)].is = "fcw" /\ s[Len(s)].fcw.sn
         /\ t \in Seq(Word) /\ t # <<>> /\ t[Len(t)].is = "pc"
         /\ Linked(part, base, t[Len(t)].pc, Front(t))
<1> DEFINE t == Front(s)
           m == Len(s)
<1>1. m # 0 /\ s[m].is # "pc" /\ m \in Nat
  BY LenProperties DEF Linked, Owner
<1>2. s # <<>> /\ m \in DOMAIN s
  BY <1>1, EmptySeq, LenProperties
<1>3. s[m].is = "fcw" /\ s[m].fcw.sn /\ m > 1 /\ s[m - 1].is = "pc"
  BY <1>1, <1>2 DEF Linked, Below
<1>4. /\ t \in Seq(Word) /\ Len(t) = m - 1 /\ Below(part, base, t)
      /\ \A i \in 1 .. m - 1 : t[i] = s[i]
  BY <1>2, BelowFront DEF Linked
<1> HIDE DEF t, m
<1>5. m - 1 \in 1 .. m - 1
  BY <1>1, <1>3
<1>6. t # <<>> /\ t[Len(t)].is = "pc"
  BY <1>1, <1>3, <1>4, <1>5, EmptySeq
<1>7. Owner(base, t, Len(t)) = "sub"
  BY <1>3, <1>4, <1>5, <1>6 DEF Owner
<1>8. Len(t) \in DOMAIN t
  BY <1>4, <1>5, LenProperties
<1>9. part[t[Len(t)].pc] = Owner(base, t, Len(t) - 1)
  BY <1>4, <1>6, <1>8 DEF Below
<1>10. Linked(part, base, t[Len(t)].pc, Front(t))
  BY <1>4, <1>6, <1>9, BelowFront DEF Linked
<1>11. QED
  BY <1>2, <1>3, <1>4, <1>6, <1>10 DEF t, m

\* The current stack under the operations that use it.
LEMMA CurrentStack ==
  ASSUME NEW c, Stacked(c)
  PROVE  /\ c.stack[c.bank] \in Seq(Word) /\ Base(c.bank) \in {"main", "user"}
         /\ \A w \in Word : /\ Stacked(Push(c, w)) /\ Push(c, w).bank = c.bank
                           /\ Push(c, w).stack[c.bank] = Append(c.stack[c.bank], w)
         /\ c.stack[c.bank] # <<>> =>
              /\ Stacked(Pop(c)) /\ Pop(c).bank = c.bank
              /\ Pop(c).stack[c.bank] = Front(c.stack[c.bank])
              /\ Top(c) = c.stack[c.bank][Len(c.stack[c.bank])]
<1>1. c \in Cpu /\ c.bank \in Banks /\ c.stack \in [Banks -> Seq(Word)]
  BY DEF Stacked, Cpu
<1>2. ASSUME NEW w \in Word
      PROVE  /\ Stacked(Push(c, w)) /\ Push(c, w).bank = c.bank
             /\ Push(c, w).stack[c.bank] = Append(c.stack[c.bank], w)
  <2>1. Push(c, w).stack = [c.stack EXCEPT ![c.bank] = Append(@, w)]
    BY <1>1 DEF Push, Cpu
  <2>2. QED
    BY <1>1, <2>1, PushWords, PushType DEF OtherStack
<1>3. ASSUME c.stack[c.bank] # <<>>
      PROVE  /\ Stacked(Pop(c)) /\ Pop(c).bank = c.bank
             /\ Pop(c).stack[c.bank] = Front(c.stack[c.bank])
             /\ Top(c) = c.stack[c.bank][Len(c.stack[c.bank])]
  <2>1. Pop(c).stack = [c.stack EXCEPT ![c.bank] = Front(@)]
    BY <1>1, <1>3 DEF Pop, Cpu
  <2>2. QED
    BY <1>1, <1>3, <2>1, PopWords, PopType DEF OtherStack, Top
<1>4. QED
  BY <1>1, <1>2, <1>3 DEF Base

\* What a RET of a subroutine takes.
LEMMA PairedReturn ==
  ASSUME NEW part, NEW c, Stacked(c), NEW a, Linked(part, Base(c.bank), a, c.stack[c.bank]),
         part[a] = "sub"
  PROVE  /\ Top(c).is = "pc" /\ Stacked(Pop(c)) /\ Pop(c).bank = c.bank
         /\ Linked(part, Base(c.bank), Top(c).pc, Pop(c).stack[c.bank])
<1> DEFINE s == c.stack[c.bank]
           base == Base(c.bank)
<1>1. s \in Seq(Word) /\ base \in {"main", "user"}
  BY CurrentStack
<1>2. Linked(part, base, a, s)
  OBVIOUS
<1> HIDE DEF s, base
<1>3. /\ s # <<>> /\ s[Len(s)].is = "pc"
      /\ Linked(part, base, s[Len(s)].pc, Front(s))
  BY <1>1, <1>2, LinkedReturn
<1>4. Stacked(Pop(c)) /\ Pop(c).bank = c.bank /\ Pop(c).stack[c.bank] = Front(s) /\ Top(c) = s[Len(s)]
  BY <1>3, CurrentStack DEF s
<1>5. QED
  BY <1>3, <1>4 DEF base

\* What an IRET of the timer's handler takes.
LEMMA PairedFrame ==
  ASSUME NEW part, NEW c, Stacked(c), NEW a, Linked(part, Base(c.bank), a, c.stack[c.bank]),
         part[a] = "handler"
  PROVE  LET p == Pop(c) IN
         /\ Top(c).is = "fcw" /\ Top(c).fcw.sn /\ Top(p).is = "pc"
         /\ Stacked(p) /\ Stacked(Pop(p)) /\ Pop(p).bank = c.bank
         /\ Linked(part, Base(c.bank), Top(p).pc, Pop(p).stack[c.bank])
<1> DEFINE s == c.stack[c.bank]
           t == Front(s)
           base == Base(c.bank)
           p == Pop(c)
<1>1. s \in Seq(Word) /\ base \in {"main", "user"}
  BY CurrentStack
<1>2. Linked(part, base, a, s)
  OBVIOUS
<1> HIDE DEF s, base
<1>3. /\ s # <<>> /\ s[Len(s)].is = "fcw" /\ s[Len(s)].fcw.sn
      /\ t \in Seq(Word) /\ t # <<>> /\ t[Len(t)].is = "pc"
      /\ Linked(part, base, t[Len(t)].pc, Front(t))
  BY <1>1, <1>2, LinkedFrame
<1>4. Stacked(p) /\ p.bank = c.bank /\ p.stack[c.bank] = t /\ Top(c) = s[Len(s)]
  BY <1>3, CurrentStack DEF s
<1> HIDE DEF p, t
<1>5. Stacked(Pop(p)) /\ Pop(p).bank = c.bank /\ Pop(p).stack[c.bank] = Front(t) /\ Top(p) = t[Len(t)]
  <2>1. p.stack[p.bank] # <<>>
    BY <1>3, <1>4
  <2>2. QED
    BY <1>4, <2>1, CurrentStack
<1>6. QED
  BY <1>3, <1>4, <1>5 DEF base, p

\* One instruction of a well-formed program keeps its stack fit, or is a trap.
LEMMA ExecutePaired ==
  ASSUME NEW part \in [Addr -> Parts], Disciplined(part),
         NEW c \in SoundCpu, Paired(part, c), NEW d \in ExecuteOne(c)
  PROVE  Marked(d) \/ Paired(part, d)
<1> DEFINE e == [c EXCEPT !.pc = NextPc(@)]
           ins == Code[c.pc]
           here == part[c.pc]
           s == c.stack[c.bank]
           base == Base(c.bank)
<1>1. /\ c \in Cpu /\ c.pc \in Addr /\ NextPc(c.pc) \in Addr /\ c.fcw.sn \in BOOLEAN
      /\ (c.bank = "system" <=> c.fcw.sn)
  BY Z8000Assumption DEF SoundCpu, Cpu, Fcw, NextPc, Addr
<1>2. CASE c.halted
  BY <1>2 DEF ExecuteOne
<1> SUFFICES ASSUME ~c.halted PROVE Marked(d) \/ Paired(part, d)
  BY <1>2
<1>3. /\ e \in SoundCpu /\ e \in Cpu /\ e.fcw = c.fcw /\ e.stack = c.stack
      /\ e.bank = c.bank /\ e.pc = NextPc(c.pc)
  BY <1>1 DEF SoundCpu, Cpu
<1>4. ins.op \in Ops /\ ins.target \in Addr
  BY <1>1, Z8000Assumption DEF Instr
<1>5. /\ FallsThrough(part, c.pc) => part[e.pc] = here
      /\ ins.op = "branch" => part[ins.target] = here
      /\ ins.op = "call" => part[ins.target] = "sub"
      /\ ins.op = "enter" => part[ins.target] = "user"
      /\ ins.op \in {"ret", "retcc"} => here = "sub"
      /\ ins.op = "iret" => here \in {"handler", "user"}
  BY <1>1, <1>3 DEF Disciplined
<1>6. d \in Outcomes(e, ins)
  BY DEF ExecuteOne
<1>7. c.fcw.sn => here # "user"
  BY <1>1 DEF Paired, Linked, Owner, Base
<1>8. /\ ins.op \in {"plain", "branch", "call", "retcc"} => FallsThrough(part, c.pc)
      /\ c.fcw.sn /\ ins.op \in {"ei", "di", "io", "halt"} => FallsThrough(part, c.pc)
  BY <1>7 DEF FallsThrough
<1> HIDE DEF e, ins
<1>9. /\ Stacked(e) /\ s \in Seq(Word) /\ e.stack[e.bank] = s /\ Base(e.bank) = base
      /\ here = Owner(base, s, Len(s)) /\ Below(part, base, s) /\ Linked(part, base, c.pc, s)
  BY <1>1, <1>3 DEF Paired, Linked, Stacked, Cpu
<1>10. Marked(Trap(e))
  BY <1>3, ExceptionMarks DEF Trap, Marked, Vectors
<1> HIDE DEF s, base
<1>11. ASSUME NEW x \in Cpu, x.stack = e.stack, x.bank = e.bank, part[x.pc] = here
       PROVE  Paired(part, x)
  BY <1>9, <1>11 DEF Paired, Linked, Stacked
<1>12. CASE ins.op \in {"plain", "branch"} \/ (ins.op = "retcc" /\ d = e)
  <2>1. \/ d = e
        \/ d = [e EXCEPT !.pc = ins.target] /\ ins.op = "branch"
    BY <1>6, <1>12 DEF Outcomes
  <2>2. d \in Cpu /\ d.stack = e.stack /\ d.bank = e.bank /\ part[d.pc] = here
    BY <1>3, <1>4, <1>5, <1>8, <1>12, <2>1 DEF Cpu
  <2>3. QED
    BY <1>11, <2>2
<1>13. CASE ins.op = "call"
  <2> DEFINE w == PcWord(e.pc)
             q == Push(e, w)
  <2>1. w \in Word /\ w.is = "pc" /\ part[w.pc] = here
    BY <1>3, <1>5, <1>8, <1>13 DEF PcWord, Word, Cpu
  <2>2. d = Call(e, ins.target)
    BY <1>6, <1>13 DEF Outcomes
  <2> HIDE DEF w
  <2>3. Stacked(q) /\ q.bank = e.bank /\ q.stack[e.bank] = Append(s, w)
    BY <1>9, <2>1, CurrentStack
  <2>4. d \in Cpu /\ d.stack = q.stack /\ d.bank = q.bank /\ d.pc = ins.target
    <3>1. d \in Cpu
      BY <1>3, <1>4, <2>2, CallType DEF SoundCpu
    <3>2. q \in Cpu
      BY <2>3 DEF Stacked
    <3>3. d = [q EXCEPT !.pc = ins.target, !.shadow = d.shadow]
      BY <2>2, <3>2 DEF Call, q, w, Cpu
    <3> HIDE DEF q
    <3>4. QED
      BY <3>1, <3>2, <3>3 DEF Cpu
  <2> HIDE DEF q
  <2>5. Below(part, base, Append(s, w))
    BY <1>9, <2>1, BelowAppend
  <2>6. Owner(base, Append(s, w), Len(Append(s, w))) = "sub"
    BY <1>9, <2>1, AppendProperties, LenProperties DEF Owner
  <2>7. Stacked(d) /\ d.stack[d.bank] = Append(s, w) /\ Base(d.bank) = base
    BY <1>9, <2>3, <2>4 DEF Stacked
  <2>8. QED
    BY <1>5, <1>13, <2>4, <2>5, <2>6, <2>7 DEF Paired, Linked
<1>14. CASE ins.op \in {"ret", "retcc"} /\ ~(ins.op = "retcc" /\ d = e)
  <2>1. PICK a \in AsPc(Top(e)) : d = Return(e, a)
    BY <1>6, <1>14 DEF Outcomes
  <2>2. /\ Top(e).is = "pc" /\ Stacked(Pop(e)) /\ Pop(e).bank = e.bank
        /\ Linked(part, base, Top(e).pc, Pop(e).stack[e.bank])
    BY <1>5, <1>9, <1>14, PairedReturn
  <2>3. a = Top(e).pc /\ a \in Addr
    BY <1>3, <2>1, <2>2, TopType DEF AsPc
  <2>4. d \in Cpu
    BY <1>3, <2>1, <2>3, ReturnType DEF SoundCpu
  <2>5. d = [Pop(e) EXCEPT !.pc = a, !.shadow = d.shadow] /\ Pop(e) \in Cpu
    BY <1>3, <2>1, PopType DEF Return, Cpu
  <2>6. d.stack = Pop(e).stack /\ d.bank = Pop(e).bank /\ d.pc = a
    BY <2>4, <2>5 DEF Cpu
  <2>7. QED
    BY <1>9, <2>2, <2>3, <2>4, <2>6 DEF Paired, Stacked
<1>15. CASE ins.op = "iret"
  <2>1. CASE ~e.fcw.sn
    BY <1>6, <1>10, <1>15, <2>1 DEF Outcomes
  <2>2. CASE e.fcw.sn
    <3> DEFINE p == Pop(e)
               q == Pop(p)
    <3>1. PICK f \in AsFcw(Top(e)), a \in AsPc(Top(p)) : d = InterruptReturn(e, f, a)
      BY <1>6, <1>15, <2>2 DEF Outcomes
    <3>2. here = "handler"
      BY <1>3, <1>5, <1>7, <1>15, <2>2
    <3>3. /\ Top(e).is = "fcw" /\ Top(e).fcw.sn /\ Top(p).is = "pc"
          /\ Stacked(p) /\ Stacked(q) /\ q.bank = e.bank
          /\ Linked(part, base, Top(p).pc, q.stack[e.bank])
      BY <1>9, <3>2, PairedFrame
    <3>4. f.sn /\ f \in Fcw /\ a = Top(p).pc /\ a \in Addr
      BY <1>3, <3>1, <3>3, TopType, PopType DEF AsFcw, AsPc
    <3> HIDE DEF p
    <3>5. d = [q EXCEPT !.fcw = f, !.pc = a]
      BY <3>1, <3>4 DEF InterruptReturn, p
    <3> HIDE DEF q
    <3>6. d \in Cpu /\ d.stack = q.stack /\ d.bank = q.bank /\ d.pc = a
      BY <3>3, <3>4, <3>5 DEF Stacked, Cpu
    <3>7. QED
      BY <1>9, <3>3, <3>4, <3>6 DEF Paired, Stacked
  <2>3. QED
    BY <2>1, <2>2
<1>16. CASE ins.op = "enter"
  <2>1. d = Enter(e, ins.target)
    BY <1>6, <1>16 DEF Outcomes
  <2>2. CASE ~e.fcw.sn
    BY <1>10, <2>1, <2>2 DEF Enter
  <2>3. CASE e.fcw.sn
    <3> DEFINE f == [e.fcw EXCEPT !.sn = FALSE]
               one == Push(e, PcWord(ins.target))
               two == Push(one, FcwWord(f))
    <3>1. f \in Fcw /\ ~f.sn /\ PcWord(ins.target) \in Word /\ FcwWord(f) \in Word
      BY <1>3, <1>4 DEF Cpu, Fcw, PcWord, FcwWord, Word
    <3>2. d = InterruptReturn(two, f, ins.target)
      BY <2>1, <2>3 DEF Enter
    <3> HIDE DEF f
    <3>3. one \in Cpu /\ Pop(one) = e
      BY <1>3, <3>1, PushTop, PushType
    <3> HIDE DEF one
    <3>4. Pop(two) = one
      BY <3>1, <3>3, PushTop
    <3> HIDE DEF two
    <3>5. d = SwapStackBanks([e EXCEPT !.fcw = f, !.pc = ins.target])
      BY <3>1, <3>2, <3>3, <3>4 DEF InterruptReturn
    <3>6. e.bank = "system" /\ e.stack["normal"] = <<>>
      BY <1>1, <1>3, <1>9, <2>3 DEF Stacked
    <3>7. /\ d \in Cpu /\ d.bank = "normal" /\ d.stack = e.stack /\ d.pc = ins.target
      BY <1>3, <1>4, <3>1, <3>5, <3>6 DEF SwapStackBanks, Cpu, Banks
    <3>8. Linked(part, "user", ins.target, <<>>)
      <4>1. Len(<<>>) = 0 /\ DOMAIN <<>> = {}
        OBVIOUS
      <4>2. QED
        BY <1>5, <1>16, <4>1 DEF Linked, Owner, Below
    <3>9. QED
      BY <3>6, <3>7, <3>8 DEF Paired, Stacked, Base
  <2>4. QED
    BY <2>2, <2>3
<1>17. CASE ins.op \in {"ei", "di", "io", "halt"}
  <2>1. CASE ~e.fcw.sn
    <3>1. d = Trap(e)
      BY <1>6, <1>17, <2>1
      DEF Outcomes, EnableInterrupts, DisableInterrupts, InputOutput, Halt
    <3>2. QED
      BY <1>10, <3>1
  <2>2. CASE e.fcw.sn
    <3>1. part[e.pc] = here
      BY <1>3, <1>5, <1>8, <1>17, <2>2
    <3>2. \/ d = e \/ d = [e EXCEPT !.halted = TRUE]
          \/ \E on \in BOOLEAN : d = SetEnables(e, ins.sources, on)
      BY <1>6, <1>17, <2>2
      DEF Outcomes, EnableInterrupts, DisableInterrupts, InputOutput, Halt
    <3>3. CASE d = e \/ d = [e EXCEPT !.halted = TRUE]
      <4>1. d \in Cpu /\ d.stack = e.stack /\ d.bank = e.bank /\ d.pc = e.pc
        BY <1>3, <3>3 DEF Cpu
      <4>2. QED
        BY <1>11, <3>1, <4>1
    <3>4. CASE \E on \in BOOLEAN : d = SetEnables(e, ins.sources, on)
      BY <1>3, <1>11, <3>1, <3>4, SetEnablesType
    <3>5. QED
      BY <3>2, <3>3, <3>4
  <2>3. QED
    BY <2>1, <2>2
<1>18. CASE ins.op = "unknown"
  BY <1>6, <1>10, <1>18 DEF Outcomes
<1>19. QED
  BY <1>4, <1>12, <1>13, <1>14, <1>15, <1>16, <1>17, <1>18 DEF Ops

\* An NVI in system mode puts a frame into the interrupted part on the stack.
LEMMA ExceptionPaired ==
  ASSUME NEW part \in [Addr -> Parts], Disciplined(part),
         NEW c \in SoundCpu, c.fcw.sn, Paired(part, c)
  PROVE  Paired(part, TakeException(c, "nvi", FALSE))
<1> DEFINE d == TakeException(c, "nvi", FALSE)
           s == c.stack["system"]
           one == Append(s, PcWord(c.pc))
<1>1. /\ c.bank = "system" /\ s \in Seq(Word) /\ c.pc \in Addr /\ c.stack["normal"] = <<>>
      /\ part[c.pc] = Owner("main", s, Len(s)) /\ Below(part, "main", s)
  BY WordsType DEF SoundCpu, Cpu, Paired, Stacked, Linked, Base
<1>2. /\ d \in Cpu /\ d.bank = "system" /\ d.stack["normal"] = c.stack["normal"]
      /\ \E f \in Fcw : f.sn /\ d.stack["system"] = Append(one, FcwWord(f))
  BY ExceptionStacks DEF Vectors
<1>3. PICK f \in Fcw : f.sn /\ d.stack["system"] = Append(one, FcwWord(f))
  BY <1>2
<1>4. d.pc = Psa["nvi"].pc
  BY DEF TakeException
<1>5. PcWord(c.pc) \in Word /\ PcWord(c.pc).is = "pc" /\ PcWord(c.pc).pc = c.pc
      /\ FcwWord(f) \in Word /\ FcwWord(f).is = "fcw" /\ FcwWord(f).fcw = f
  BY <1>1 DEF PcWord, FcwWord, Word
<1> HIDE DEF d, s
<1>6. /\ one \in Seq(Word) /\ Len(one) > 0 /\ one[Len(one)].is = "pc"
      /\ Below(part, "main", one)
  BY <1>1, <1>5, BelowAppend, AppendProperties, LenProperties
<1> HIDE DEF one
<1> DEFINE two == Append(one, FcwWord(f))
<1>7. two \in Seq(Word) /\ Len(two) > 0 /\ two[Len(two)].is = "fcw"
      /\ Below(part, "main", two)
  BY <1>3, <1>5, <1>6, BelowAppend, AppendProperties, LenProperties
<1> HIDE DEF two
<1>8. Owner("main", two, Len(two)) = "handler"
  BY <1>7 DEF Owner
<1>9. Linked(part, "main", d.pc, two)
  BY <1>4, <1>7, <1>8 DEF Linked, Disciplined
<1>10. Stacked(d) /\ Base(d.bank) = "main" /\ d.stack[d.bank] = two
  BY <1>1, <1>2, <1>3 DEF Stacked, Base, two
<1>11. Paired(part, d)
  BY <1>9, <1>10 DEF Paired
<1>12. QED
  BY <1>11 DEF d

\* So does the step of which it is a part, while the stacks pair.
LEMMA AfterPaired ==
  ASSUME NEW part \in [Addr -> Parts], Disciplined(part),
         NEW c \in SoundCpu, Paired(part, c),
         NEW updateLines \in BOOLEAN, NEW d \in After(c, updateLines), ~Mixes(c, d)
  PROVE  Paired(part, d)
<1>1. PICK e \in ExecuteOne(c) :
        \E g \in IF updateLines THEN Lines(e) ELSE {e} : d = CheckInterrupts(g)
  BY DEF After
<1>2. PICK g \in IF updateLines THEN Lines(e) ELSE {e} : d = CheckInterrupts(g)
  BY <1>1
<1>3. e \in SoundCpu
  BY ExecuteOneType
<1>4. /\ g \in SoundCpu /\ g \in Cpu /\ g.stack = e.stack /\ g.bank = e.bank
      /\ g.fcw = e.fcw /\ g.pc = e.pc
  <2>1. CASE ~updateLines
    BY <1>2, <1>3, <2>1 DEF SoundCpu
  <2>2. CASE updateLines
    <3>1. PICK l \in Levels : g = [e EXCEPT !.viLine = l.vi, !.nviLine = l.nvi]
      BY <1>2, <2>2 DEF Lines
    <3>2. l.vi \in BOOLEAN /\ l.nvi \in BOOLEAN
      BY Z8000SessionAssumption DEF Levels
    <3>3. QED
      BY <1>3, <3>1, <3>2 DEF SoundCpu, Cpu
  <2>3. QED
    BY <2>1, <2>2
<1>5. ~Marked(d) /\ (d.fcw.sn => e.fcw.sn)
  BY DEF Mixes, Marked
<1>6. ~Marked(g)
  <2>1. SUFFICES ASSUME Marked(g) PROVE Marked(d)
    BY <1>5
  <2>2. \A v \in Vectors, p \in BOOLEAN : Marked(TakeException(g, v, p))
    BY <1>4, <2>1, ExceptionMarks DEF Marked
  <2>3. QED
    BY <1>2, <2>1, <2>2 DEF CheckInterrupts, Vectors
<1>7. Paired(part, e)
  BY <1>4, <1>6, ExecutePaired DEF Marked
<1>8. Paired(part, g)
  BY <1>4, <1>7 DEF Paired, Stacked
<1>9. CASE d = g
  BY <1>8, <1>9
<1>10. CASE d = TakeException(g, "vi", TRUE)
  BY <1>4, <1>5, <1>10, ExceptionMarks DEF Marked, Vectors
<1>11. CASE d = TakeException(g, "nvi", FALSE)
  <2>1. d.fcw.sn
    BY ZenonT(60), <1>4, <1>11, TakeExceptionType, Z8000Assumption DEF Entered, Vectors
  <2>2. QED
    BY <1>4, <1>5, <1>8, <1>11, <2>1, ExceptionPaired
<1>12. QED
  BY <1>2, <1>9, <1>10, <1>11 DEF CheckInterrupts

\* What holds until a trap, a VI or an interrupt of a program in normal mode.
PairedInv(part) == ~mixed => Paired(part, cpu)

\* A fit stack is what the next RET or IRET needs.
LEMMA PairedReturns ==
  ASSUME NEW part \in [Addr -> Parts], Disciplined(part), CpuInv, PairedInv(part)
  PROVE  ReturnsPair
<1> SUFFICES ASSUME ~mixed, ~cpu.halted
             PROVE  /\ Code[cpu.pc].op \in {"ret", "retcc"} => Top(cpu).is = "pc"
                    /\ Code[cpu.pc].op = "iret" /\ cpu.fcw.sn
                         => Top(cpu).is = "fcw" /\ Top(Pop(cpu)).is = "pc"
  BY DEF ReturnsPair
<1>1. /\ cpu \in Cpu /\ cpu.pc \in Addr /\ (cpu.bank = "system" <=> cpu.fcw.sn)
      /\ Stacked(cpu) /\ Linked(part, Base(cpu.bank), cpu.pc, cpu.stack[cpu.bank])
  BY DEF CpuInv, SoundCpu, Cpu, PairedInv, Paired
<1>2. ASSUME Code[cpu.pc].op \in {"ret", "retcc"} PROVE Top(cpu).is = "pc"
  <2>1. part[cpu.pc] = "sub"
    BY <1>1, <1>2 DEF Disciplined
  <2>2. QED
    BY <1>1, <2>1, PairedReturn
<1>3. ASSUME Code[cpu.pc].op = "iret", cpu.fcw.sn
      PROVE  Top(cpu).is = "fcw" /\ Top(Pop(cpu)).is = "pc"
  <2>1. part[cpu.pc] \in {"handler", "user"}
    BY <1>1, <1>3 DEF Disciplined
  <2>2. part[cpu.pc] # "user"
    BY <1>1, <1>3 DEF Linked, Owner, Base
  <2>3. part[cpu.pc] = "handler"
    BY <2>1, <2>2
  <2>4. QED
    BY <1>1, <2>3, PairedFrame
<1>4. QED
  BY <1>2, <1>3

\* A program that is written in parts never returns through the wrong words while
\* its stacks pair, whatever the frontend and the devices do and however deep its
\* calls and the timer's handlers nest.
THEOREM ReturnsTakeTheirWords ==
  ASSUME NEW part \in [Addr -> Parts], Disciplined(part)
  PROVE  Spec => []ReturnsPair
<1>1. Paired(part, ResetCpu)
  <2>1. /\ Stacked(ResetCpu) /\ ResetCpu.bank = "system" /\ ResetCpu.stack["system"] = <<>>
        /\ ResetCpu.pc = ResetVector.pc
    BY ResetType DEF ResetCpu, Stacked, SoundCpu, Banks
  <2>2. Len(<<>>) = 0 /\ DOMAIN <<>> = {}
    OBVIOUS
  <2>3. Linked(part, "main", ResetVector.pc, <<>>)
    BY <2>2 DEF Linked, Owner, Below, Disciplined
  <2>4. QED
    BY <2>1, <2>3 DEF Paired, Base
<1>2. Init => PairedInv(part)
  BY <1>1 DEF Init, PairedInv
<1>3. ASSUME CpuInv, PairedInv(part), [Next]_vars
      PROVE  PairedInv(part)'
  <2>1. ASSUME NEW updateLines \in BOOLEAN, cpu' \in After(cpu, updateLines),
               mixed' = (mixed \/ Mixes(cpu, cpu'))
        PROVE  PairedInv(part)'
    <3>1. SUFFICES ASSUME ~mixed' PROVE Paired(part, cpu')
      BY DEF PairedInv
    <3>2. ~mixed /\ ~Mixes(cpu, cpu')
      BY <2>1, <3>1
    <3>3. Paired(part, cpu) /\ cpu \in SoundCpu
      BY <1>3, <3>2 DEF PairedInv, CpuInv
    <3>4. \A d \in After(cpu, updateLines) : ~Mixes(cpu, d) => Paired(part, d)
      BY <3>3, AfterPaired
    <3>5. QED
      BY <2>1, <3>2, <3>4
  <2>2. CASE Step \/ RunFromBreakpoint
    BY <2>1, <2>2 DEF Step, RunFromBreakpoint, Instruction
  <2>3. CASE Reset
    BY <1>1, <2>3 DEF Reset, PairedInv
  <2>4. CASE LoopExecute
    BY <2>1, <2>4 DEF LoopExecute
  <2>5. CASE UNCHANGED guestVars
    BY <1>3, <2>5 DEF guestVars, PairedInv
  <2>6. QED
    BY <1>3, <2>2, <2>3, <2>4, <2>5
    DEF Next, StepOver, StepOut, Run, Stop, Joined, EditBreakpoints, EditWatchpoints, LoopStop, vars
<1>4. CpuInv /\ PairedInv(part) => ReturnsPair
  BY PairedReturns
<1>5. CpuInv /\ PairedInv(part) /\ [Next]_vars => PairedInv(part)'
  BY <1>3
<1>6. QED
  BY <1>2, <1>4, <1>5, CpuInvariant, PTL DEF Spec

\* The debugger's call stack of such a program, as long as it has room for the calls.
THEOREM CallStackOfParts ==
  ASSUME NEW part \in [Addr -> Parts], Disciplined(part)
  PROVE  Spec /\ []RoomForCalls => []ShadowIsCalls
BY ReturnsTakeTheirWords, ShadowIsCallStack, PTL
=============================================================================
