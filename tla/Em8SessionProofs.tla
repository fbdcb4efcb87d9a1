-------------------------- MODULE Em8SessionProofs --------------------------
(***************************************************************************)
(* Proofs about Em8Session for every program, every size of the guest, any *)
(* number of stopping threads and every habit of the frontend.             *)
(***************************************************************************)
EXTENDS Em8Session, SequenceFacts, FiniteSetTheorems
-----------------------------------------------------------------------------
(***************************************************************************)
(* The guest: what one instruction preserves, for every program: the shape *)
(* of the CPU, the bound of the shadow stack and of the stack page, and    *)
(* the finality of the halted flag.                                        *)
(***************************************************************************)
\* A CPU whose stacks fit their arrays.
BoundedCpu == {c \in Cpu : Len(c.shadow) <= MaxShadowStack /\ Len(c.stack) <= StackSlots}

\* A pushed frame leaves a stack that still fits in the stack page.
LEMMA PushFrameType ==
  ASSUME NEW s \in Seq(Frame), Len(s) <= StackSlots, NEW f \in Frame
  PROVE  PushFrame(s, f) \in Seq(Frame) /\ Len(PushFrame(s, f)) <= StackSlots
<1>1. CASE Len(s) < StackSlots
  BY <1>1, AppendProperties, GuestAssumption DEF PushFrame
<1>2. CASE ~(Len(s) < StackSlots)
  <2>1. s # <<>> /\ Len(s) = StackSlots
    BY <1>2, GuestAssumption, EmptySeq
  <2>2. Tail(s) \in Seq(Frame) /\ Len(Tail(s)) = Len(s) - 1
    BY <2>1, HeadTailProperties
  <2>3. QED
    BY <1>2, <2>1, <2>2, AppendProperties, GuestAssumption DEF PushFrame
<1>3. QED
  BY <1>1, <1>2

\* A popped stack is still a stack that fits.
LEMMA PopFrameType ==
  ASSUME NEW s \in Seq(Frame), Len(s) <= StackSlots
  PROVE  PopFrame(s) \in Seq(Frame) /\ Len(PopFrame(s)) <= StackSlots
<1>1. CASE s = <<>>
  BY <1>1 DEF PopFrame
<1>2. CASE s # <<>>
  BY <1>2, PopSeq, LenProperties, GuestAssumption DEF PopFrame
<1>3. QED
  BY <1>1, <1>2

\* JSR never writes past the shadow stack's array.
LEMMA ShadowPushType ==
  ASSUME NEW s \in Seq(Addr), Len(s) <= MaxShadowStack, NEW a \in Addr
  PROVE  ShadowPush(s, a) \in Seq(Addr) /\ Len(ShadowPush(s, a)) <= MaxShadowStack
<1>1. CASE Len(s) < MaxShadowStack
  BY <1>1, AppendProperties, GuestAssumption DEF ShadowPush
<1>2. CASE ~(Len(s) < MaxShadowStack)
  BY <1>2 DEF ShadowPush
<1>3. QED
  BY <1>1, <1>2

\* RTS never makes the shadow stack's depth negative.
LEMMA ShadowPopType ==
  ASSUME NEW s \in Seq(Addr), Len(s) <= MaxShadowStack
  PROVE  ShadowPop(s) \in Seq(Addr) /\ Len(ShadowPop(s)) <= MaxShadowStack
<1>1. CASE s = <<>>
  BY <1>1 DEF ShadowPop
<1>2. CASE s # <<>>
  BY <1>2, PopSeq, LenProperties, GuestAssumption DEF ShadowPop
<1>3. QED
  BY <1>1, <1>2

\* The next address is an address: PC wraps.
LEMMA FallThroughType ==
  ASSUME NEW a \in Addr
  PROVE  FallThrough(a) \in Addr
BY GuestAssumption DEF FallThrough, Addr

\* A frame that a pull can see has the kind the instruction expects.
LEMMA PulledType ==
  ASSUME NEW s \in Seq(Frame), NEW kind \in {"call", "irq"}, NEW f \in Pulled(s, kind)
  PROVE  f \in Frame
<1>1. CASE s # <<>> /\ s[Len(s)].kind = kind
  <2>1. Len(s) \in 1 .. Len(s)
    BY <1>1, EmptySeq, LenProperties
  <2>2. QED
    BY <1>1, <2>1, ElementOfSeq DEF Pulled
<1>2. CASE ~(s # <<>> /\ s[Len(s)].kind = kind)
  BY <1>2 DEF Pulled, Frame
<1>3. QED
  BY <1>1, <1>2

\* Taking an interrupt keeps the CPU well formed and does not halt it.
LEMMA InterruptType ==
  ASSUME NEW c \in BoundedCpu, NEW ret \in Addr
  PROVE  Interrupt(c, ret) \in BoundedCpu /\ Interrupt(c, ret).halted = c.halted
<1> DEFINE f == [kind |-> "irq", ret |-> ret, i |-> c.i]
<1>1. f \in Frame /\ c.stack \in Seq(Frame) /\ Len(c.stack) <= StackSlots
  BY DEF Frame, BoundedCpu, Cpu
<1>2. PushFrame(c.stack, f) \in Seq(Frame) /\ Len(PushFrame(c.stack, f)) <= StackSlots
  BY <1>1, PushFrameType
<1>3. QED
  BY <1>2, GuestAssumption DEF Interrupt, BoundedCpu, Cpu

\* Whatever an instruction does, it leaves a well-formed CPU.
LEMMA OutcomesType ==
  ASSUME NEW c \in BoundedCpu, NEW ins \in Instr, NEW next \in Addr,
         NEW d \in Outcomes(c, ins, next)
  PROVE  d \in BoundedCpu
<1>1. /\ c \in Cpu /\ c.stack \in Seq(Frame) /\ c.shadow \in Seq(Addr)
      /\ Len(c.stack) <= StackSlots /\ Len(c.shadow) <= MaxShadowStack
      /\ ins.op \in Ops /\ ins.target \in Addr
  BY DEF BoundedCpu, Cpu, Instr
<1>2. \A a \in Addr : JumpTo(c, a) \in BoundedCpu
  BY <1>1 DEF JumpTo, BoundedCpu, Cpu
<1>3. CASE ins.op \in {"plain", "branch", "jmp"}
  BY <1>1, <1>2, <1>3 DEF Outcomes
<1>4. CASE ins.op = "jsr"
  <2> DEFINE f == [kind |-> "call", ret |-> next, i |-> c.i]
  <2>1. f \in Frame
    BY <1>1 DEF Frame, Cpu
  <2>2. PushFrame(c.stack, f) \in Seq(Frame) /\ Len(PushFrame(c.stack, f)) <= StackSlots
    BY <1>1, <2>1, PushFrameType
  <2>3. /\ ShadowPush(c.shadow, next) \in Seq(Addr)
        /\ Len(ShadowPush(c.shadow, next)) <= MaxShadowStack
    BY <1>1, ShadowPushType
  <2>4. d = Call(c, ins.target, next)
    BY <1>4 DEF Outcomes
  <2>5. QED
    BY <1>1, <2>2, <2>3, <2>4 DEF Call, BoundedCpu, Cpu
<1>5. CASE ins.op = "rts"
  <2>1. PICK f \in Pulled(c.stack, "call") : d = Return(c, f)
    BY <1>5 DEF Outcomes
  <2>2. f \in Frame
    BY <1>1, <2>1, PulledType
  <2>3. PopFrame(c.stack) \in Seq(Frame) /\ Len(PopFrame(c.stack)) <= StackSlots
    BY <1>1, PopFrameType
  <2>4. ShadowPop(c.shadow) \in Seq(Addr) /\ Len(ShadowPop(c.shadow)) <= MaxShadowStack
    BY <1>1, ShadowPopType
  <2>5. QED
    BY <1>1, <2>1, <2>2, <2>3, <2>4 DEF Return, BoundedCpu, Cpu, Frame
<1>6. CASE ins.op = "rti"
  <2>1. PICK f \in Pulled(c.stack, "irq") : d = ReturnFromInterrupt(c, f)
    BY <1>6 DEF Outcomes
  <2>2. f \in Frame
    BY <1>1, <2>1, PulledType
  <2>3. PopFrame(c.stack) \in Seq(Frame) /\ Len(PopFrame(c.stack)) <= StackSlots
    BY <1>1, PopFrameType
  <2>4. QED
    BY <1>1, <2>1, <2>2, <2>3 DEF ReturnFromInterrupt, BoundedCpu, Cpu, Frame
<1>7. CASE ins.op = "brk"
  BY <1>1, <1>7, InterruptType DEF Outcomes
<1>8. CASE ins.op \in {"cli", "sei", "hlt"}
  <2>1. PICK v \in BOOLEAN : \/ d = [JumpTo(c, next) EXCEPT !.i = v]
                             \/ d = [JumpTo(c, next) EXCEPT !.halted = v]
    BY <1>8 DEF Outcomes
  <2>2. JumpTo(c, next) \in BoundedCpu
    BY <1>2
  <2>3. QED
    BY <2>1, <2>2 DEF BoundedCpu, Cpu
<1>9. CASE ins.op = "undefined"
  BY <1>1, <1>9 DEF Outcomes, BoundedCpu, Cpu
<1>10. QED
  BY <1>1, <1>3, <1>4, <1>5, <1>6, <1>7, <1>8, <1>9 DEF Ops

\* ExecuteOne keeps the CPU well formed, and a halted CPU stays as it is.
LEMMA ExecuteOneType ==
  ASSUME NEW c \in BoundedCpu, NEW d \in ExecuteOne(c)
  PROVE  d \in BoundedCpu /\ (c.halted => d = c)
<1>1. CASE c.halted
  BY <1>1 DEF ExecuteOne
<1>2. CASE ~c.halted
  <2>1. c.pc \in Addr /\ Code[c.pc] \in Instr /\ FallThrough(c.pc) \in Addr
    BY GuestAssumption, FallThroughType DEF BoundedCpu, Cpu
  <2>2. d \in Outcomes(c, Code[c.pc], FallThrough(c.pc))
    BY <1>2 DEF ExecuteOne
  <2>3. QED
    BY <1>2, <2>1, <2>2, OutcomesType
<1>3. QED
  BY <1>1, <1>2

\* Setting the interrupt line keeps the CPU well formed.
LEMMA IrqLineType ==
  ASSUME NEW c \in BoundedCpu, NEW level \in BOOLEAN
  PROVE  /\ [c EXCEPT !.irqLine = level] \in BoundedCpu
         /\ [c EXCEPT !.irqLine = level].halted = c.halted
BY DEF BoundedCpu, Cpu

\* CheckInterrupts keeps the CPU well formed and never wakes or halts it.
LEMMA CheckInterruptsType ==
  ASSUME NEW c \in BoundedCpu
  PROVE  CheckInterrupts(c) \in BoundedCpu /\ CheckInterrupts(c).halted = c.halted
<1>1. c.pc \in Addr
  BY DEF BoundedCpu, Cpu
<1>2. QED
  BY <1>1, InterruptType DEF CheckInterrupts
-----------------------------------------------------------------------------
(***************************************************************************)
(* What one instruction of a structured guest does to the two stacks.      *)
(***************************************************************************)
\* Two empty stacks agree.
LEMMA ListsNothing == ListsCalls(<<>>, <<>>)
<1>1. <<>> \in [1 .. Len(<<>>) -> 1 .. Len(<<>>)] /\ StandsFor(<<>>, <<>>, <<>>)
  BY EmptySeq DEF StandsFor
<1>2. QED
  BY <1>1 DEF ListsCalls

\* A call that finds room on both keeps them in step.
LEMMA ListsPushedCall ==
  ASSUME NEW h \in Seq(Addr), NEW s \in Seq(Frame), ListsCalls(h, s),
         NEW f \in Frame, f.kind = "call"
  PROVE  ListsCalls(Append(h, f.ret), Append(s, f))
<1> DEFINE m == Len(h)
           n == Len(s)
           hh == Append(h, f.ret)
           ss == Append(s, f)
<1>1. PICK pos \in [1 .. m -> 1 .. n] : StandsFor(pos, h, s)
  BY DEF ListsCalls
<1> DEFINE p == [k \in 1 .. m + 1 |-> IF k = m + 1 THEN n + 1 ELSE pos[k]]
<1>2. m \in Nat /\ n \in Nat
  BY LenProperties
<1>3. /\ Len(hh) = m + 1 /\ hh[m + 1] = f.ret
      /\ \A k \in 1 .. m : hh[k] = h[k]
  BY AppendProperties DEF Frame
<1>4. /\ Len(ss) = n + 1 /\ ss[n + 1] = f
      /\ \A k \in 1 .. n : ss[k] = s[k]
  BY AppendProperties
<1>5. /\ \A j, k \in 1 .. m : j < k => pos[j] < pos[k]
      /\ \A k \in 1 .. m : s[pos[k]].kind = "call" /\ s[pos[k]].ret = h[k]
      /\ \A i \in 1 .. n : s[i].kind = "call" => \E k \in 1 .. m : pos[k] = i
      /\ \A k \in 1 .. m : pos[k] \in 1 .. n
  BY <1>1 DEF StandsFor
<1> HIDE DEF m, n, hh, ss
<1>6. p \in [1 .. m + 1 -> 1 .. n + 1] /\ p[m + 1] = n + 1 /\ \A k \in 1 .. m : p[k] = pos[k]
  BY <1>1, <1>2
<1> HIDE DEF p
<1>7. ASSUME NEW j \in 1 .. m + 1, NEW k \in 1 .. m + 1, j < k PROVE p[j] < p[k]
  <2>1. j \in 1 .. m
    BY <1>2, <1>7
  <2>2. CASE k = m + 1
    BY <2>1, <2>2, <1>2, <1>5, <1>6
  <2>3. CASE k # m + 1
    <3>1. k \in 1 .. m
      BY <2>3, <1>2
    <3>2. QED
      BY <2>1, <3>1, <1>5, <1>6, <1>7
  <2>4. QED
    BY <2>2, <2>3
<1>8. ASSUME NEW k \in 1 .. m + 1 PROVE ss[p[k]].kind = "call" /\ ss[p[k]].ret = hh[k]
  <2>1. CASE k = m + 1
    BY <2>1, <1>3, <1>4, <1>6
  <2>2. CASE k # m + 1
    <3>1. k \in 1 .. m
      BY <2>2, <1>2
    <3>2. ss[p[k]] = s[pos[k]] /\ hh[k] = h[k]
      BY <3>1, <1>3, <1>4, <1>5, <1>6
    <3>3. QED
      BY <3>1, <3>2, <1>5
  <2>3. QED
    BY <2>1, <2>2
<1>9. ASSUME NEW i \in 1 .. n + 1, ss[i].kind = "call" PROVE \E k \in 1 .. m + 1 : p[k] = i
  <2>1. CASE i = n + 1
    <3>1. m + 1 \in 1 .. m + 1 /\ p[m + 1] = i
      BY <2>1, <1>2, <1>6
    <3>2. QED
      BY <3>1
  <2>2. CASE i # n + 1
    <3>1. i \in 1 .. n /\ s[i].kind = "call"
      BY <2>2, <1>2, <1>4, <1>9
    <3>2. PICK k \in 1 .. m : pos[k] = i
      BY <3>1, <1>5
    <3>3. k \in 1 .. m + 1 /\ p[k] = i
      BY <3>2, <1>2, <1>6
    <3>4. QED
      BY <3>3
  <2>3. QED
    BY <2>1, <2>2
<1>10. StandsFor(p, hh, ss)
  BY <1>3, <1>4, <1>7, <1>8, <1>9 DEF StandsFor
<1>11. ListsCalls(hh, ss)
  BY <1>3, <1>4, <1>6, <1>10 DEF ListsCalls
<1>12. QED
  BY <1>11 DEF hh, ss

\* An interrupt frame is no call: the shadow stack stays.
LEMMA ListsPushedInterrupt ==
  ASSUME NEW h \in Seq(Addr), NEW s \in Seq(Frame), ListsCalls(h, s),
         NEW f \in Frame, f.kind = "irq"
  PROVE  ListsCalls(h, Append(s, f))
<1>1. PICK pos \in [1 .. Len(h) -> 1 .. Len(s)] : StandsFor(pos, h, s)
  BY DEF ListsCalls
<1>2. Len(h) \in Nat /\ Len(s) \in Nat
  BY LenProperties
<1>3. /\ Len(Append(s, f)) = Len(s) + 1 /\ Append(s, f)[Len(s) + 1] = f
      /\ \A k \in 1 .. Len(s) : Append(s, f)[k] = s[k]
  BY AppendProperties
<1>4. pos \in [1 .. Len(h) -> 1 .. Len(s) + 1]
  BY <1>1, <1>2
<1>5. StandsFor(pos, h, Append(s, f))
  <2> DEFINE t == Append(s, f)
  <2>1. /\ Len(t) = Len(s) + 1 /\ t[Len(s) + 1].kind # "call"
        /\ \A k \in 1 .. Len(s) : t[k] = s[k]
    BY <1>3
  <2>2. \A k \in 1 .. Len(h) : pos[k] \in 1 .. Len(s)
    BY <1>1
  <2>3. \A k \in 1 .. Len(t) : k \in 1 .. Len(s) \/ k = Len(s) + 1
    BY <1>2, <2>1
  <2> HIDE DEF t
  <2>4. StandsFor(pos, h, t)
    BY <1>1, <2>1, <2>2, <2>3 DEF StandsFor
  <2>5. QED
    BY <2>4 DEF t
<1>6. QED
  BY <1>3, <1>4, <1>5 DEF ListsCalls

\* The newest call frame on top of the stack is the newest shadow entry, and the
\* two leave together.
LEMMA ListsPoppedCall ==
  ASSUME NEW h \in Seq(Addr), NEW s \in Seq(Frame), ListsCalls(h, s), TopKind(s) = "call"
  PROVE  /\ s # <<>> /\ h # <<>> /\ h[Len(h)] = s[Len(s)].ret
         /\ ListsCalls(ShadowPop(h), PopFrame(s))
<1> DEFINE m == Len(h)
           n == Len(s)
           hh == ShadowPop(h)
           ss == PopFrame(s)
<1>1. PICK pos \in [1 .. m -> 1 .. n] : StandsFor(pos, h, s)
  BY DEF ListsCalls
<1>2. s # <<>> /\ s[n].kind = "call" /\ n \in Nat \ {0} /\ m \in Nat
  BY EmptySeq, LenProperties DEF TopKind
<1>3. PICK top \in 1 .. m : pos[top] = n
  BY <1>1, <1>2 DEF StandsFor
<1>4. top = m /\ m # 0
  <2>1. m \in 1 .. m /\ pos[m] \in 1 .. n /\ pos[top] = n
    BY <1>1, <1>2, <1>3
  <2>2. top < m => pos[top] < pos[m]
    BY <1>1, <1>3, <2>1 DEF StandsFor
  <2> HIDE DEF m, n
  <2>3. QED
    BY <1>2, <1>3, <2>1, <2>2
<1>5. h # <<>> /\ h[m] = s[n].ret
  BY <1>1, <1>3, <1>4, EmptySeq DEF StandsFor
<1>6. /\ hh \in Seq(Addr) /\ Len(hh) = m - 1
      /\ \A k \in 1 .. m - 1 : hh[k] = h[k]
  BY <1>4, <1>5, PopSeq, PopKeeps DEF ShadowPop
<1>7. /\ ss \in Seq(Frame) /\ Len(ss) = n - 1
      /\ \A k \in 1 .. n - 1 : ss[k] = s[k]
  BY <1>2, PopSeq, PopKeeps DEF PopFrame
<1> DEFINE p == [k \in 1 .. m - 1 |-> pos[k]]
<1> HIDE DEF m, n, hh, ss
<1>8. \A k \in 1 .. m - 1 : k \in 1 .. m /\ pos[k] \in 1 .. n - 1
  BY <1>1, <1>2, <1>3, <1>4 DEF StandsFor, m, n
<1>9. p \in [1 .. m - 1 -> 1 .. n - 1]
  BY <1>8
<1>10. \A j, k \in 1 .. m - 1 : j < k => p[j] < p[k]
  BY <1>1, <1>8 DEF StandsFor, m
<1>11. \A k \in 1 .. m - 1 : ss[p[k]].kind = "call" /\ ss[p[k]].ret = hh[k]
  BY <1>1, <1>6, <1>7, <1>8 DEF StandsFor, m, n
<1>12. ASSUME NEW i \in 1 .. n - 1, ss[i].kind = "call" PROVE \E k \in 1 .. m - 1 : p[k] = i
  <2>1. i \in 1 .. n /\ s[i].kind = "call" /\ i # n
    BY <1>2, <1>7, <1>12
  <2>2. PICK k \in 1 .. m : pos[k] = i
    BY <2>1, <1>1 DEF StandsFor, m, n
  <2>3. k # m
    BY <2>1, <2>2, <1>3, <1>4
  <2>4. k \in 1 .. m - 1
    BY <2>2, <2>3, <1>2
  <2>5. p[k] = i
    BY <2>2, <2>4
  <2>6. QED
    BY <2>4, <2>5
<1> HIDE DEF p
<1>13. StandsFor(p, hh, ss)
  BY <1>6, <1>7, <1>10, <1>11, <1>12 DEF StandsFor
<1>14. ListsCalls(hh, ss)
  BY <1>6, <1>7, <1>9, <1>13 DEF ListsCalls
<1>15. QED
  BY <1>2, <1>5, <1>14 DEF m, n, hh, ss

\* An interrupt frame leaves alone.
LEMMA ListsPoppedInterrupt ==
  ASSUME NEW h \in Seq(Addr), NEW s \in Seq(Frame), ListsCalls(h, s), TopKind(s) = "irq"
  PROVE  ListsCalls(h, PopFrame(s))
<1> DEFINE m == Len(h)
           n == Len(s)
           ss == PopFrame(s)
<1>1. PICK pos \in [1 .. m -> 1 .. n] : StandsFor(pos, h, s)
  BY DEF ListsCalls
<1>2. s # <<>> /\ s[n].kind = "irq" /\ n \in Nat \ {0} /\ m \in Nat
  BY EmptySeq, LenProperties DEF TopKind
<1>3. /\ ss \in Seq(Frame) /\ Len(ss) = n - 1
      /\ \A k \in 1 .. n - 1 : ss[k] = s[k]
  BY <1>2, PopSeq, PopKeeps DEF PopFrame
<1> HIDE DEF m, n, ss
<1>4. \A k \in 1 .. m : pos[k] \in 1 .. n - 1
  BY <1>1, <1>2 DEF StandsFor, m, n
<1>5. pos \in [1 .. m -> 1 .. n - 1]
  BY <1>1, <1>4
<1>6. /\ \A j, k \in 1 .. m : j < k => pos[j] < pos[k]
      /\ \A k \in 1 .. m : s[pos[k]].kind = "call" /\ s[pos[k]].ret = h[k]
      /\ \A i \in 1 .. n : s[i].kind = "call" => \E k \in 1 .. m : pos[k] = i
  BY <1>1 DEF StandsFor, m, n
<1>7. \A k \in 1 .. m : ss[pos[k]] = s[pos[k]]
  BY <1>3, <1>4
<1>8. ASSUME NEW i \in 1 .. n - 1, ss[i].kind = "call" PROVE \E k \in 1 .. m : pos[k] = i
  <2>1. i \in 1 .. n /\ s[i].kind = "call"
    BY <1>2, <1>3, <1>8
  <2>2. QED
    BY <2>1, <1>6
<1>9. StandsFor(pos, h, ss)
  BY <1>3, <1>6, <1>7, <1>8 DEF StandsFor, m
<1>10. QED
  BY <1>3, <1>5, <1>9 DEF ListsCalls, m, ss

\* How an instruction moves the shadow stack: not at all, by a return address on
\* top, or by the one that was on top, which is then where the guest is.
ShadowMoves(c, d) ==
  \/ d.shadow = c.shadow
  \/ \E a \in Addr : d.shadow = Append(c.shadow, a)
  \/ c.shadow # <<>> /\ d.shadow = ShadowPop(c.shadow) /\ d.pc = c.shadow[Len(c.shadow)]

\* An instruction of a structured guest keeps the two stacks in step.
LEMMA StructuredExecute ==
  ASSUME NEW c \in BoundedCpu, Structured(c), ListsCalls(c.shadow, c.stack),
         NEW d \in ExecuteOne(c)
  PROVE  ListsCalls(d.shadow, d.stack) /\ ShadowMoves(c, d)
<1> DEFINE ins == Code[c.pc]
           next == FallThrough(c.pc)
<1>1. /\ c \in Cpu /\ c.stack \in Seq(Frame) /\ c.shadow \in Seq(Addr) /\ c.i \in BOOLEAN
      /\ Len(c.stack) < StackSlots /\ c.pc \in Addr /\ next \in Addr
      /\ ins \in Instr /\ ins.op \in Ops
  BY GuestAssumption, FallThroughType DEF BoundedCpu, Cpu, Structured, Instr
<1>2. CASE c.halted
  BY <1>2 DEF ExecuteOne, ShadowMoves
<1> SUFFICES ASSUME ~c.halted PROVE ListsCalls(d.shadow, d.stack) /\ ShadowMoves(c, d)
  BY <1>2
<1>3. d \in Outcomes(c, ins, next)
  BY DEF ExecuteOne
<1> HIDE DEF ins, next
<1>4. CASE ins.op \in {"plain", "branch", "jmp", "cli", "sei", "hlt", "undefined"}
  <2>1. d.stack = c.stack /\ d.shadow = c.shadow
    BY <1>1, <1>3, <1>4 DEF Outcomes, JumpTo, Cpu
  <2>2. QED
    BY <2>1 DEF ShadowMoves
<1>5. CASE ins.op = "jsr"
  <2> DEFINE f == [kind |-> "call", ret |-> next, i |-> c.i]
  <2>1. f \in Frame /\ f.kind = "call" /\ f.ret = next
    BY <1>1 DEF Frame
  <2>2. Len(c.shadow) < MaxShadowStack
    BY <1>5 DEF Structured, ins
  <2>3. d = Call(c, ins.target, next)
    BY <1>3, <1>5 DEF Outcomes
  <2>4. d.stack = Append(c.stack, f) /\ d.shadow = Append(c.shadow, next)
    BY <2>2, <2>3, <1>1 DEF Call, PushFrame, ShadowPush, Cpu
  <2> HIDE DEF f
  <2>5. QED
    BY <1>1, <2>1, <2>4, ListsPushedCall DEF ShadowMoves
<1>6. CASE ins.op = "rts"
  <2>1. TopKind(c.stack) = "call"
    BY <1>6 DEF Structured, ins
  <2>2. /\ c.stack # <<>> /\ c.shadow # <<>>
        /\ c.shadow[Len(c.shadow)] = c.stack[Len(c.stack)].ret
        /\ ListsCalls(ShadowPop(c.shadow), PopFrame(c.stack))
    BY <1>1, <2>1, ListsPoppedCall
  <2>3. Pulled(c.stack, "call") = {c.stack[Len(c.stack)]}
    BY <2>1, <2>2 DEF Pulled, TopKind
  <2>4. d = Return(c, c.stack[Len(c.stack)])
    BY <1>3, <1>6, <2>3 DEF Outcomes
  <2>5. /\ d.stack = PopFrame(c.stack) /\ d.shadow = ShadowPop(c.shadow)
        /\ d.pc = c.stack[Len(c.stack)].ret
    BY <2>4, <1>1 DEF Return, Cpu
  <2>6. QED
    BY <2>2, <2>5 DEF ShadowMoves
<1>7. CASE ins.op = "rti"
  <2>1. TopKind(c.stack) = "irq"
    BY <1>7 DEF Structured, ins
  <2>2. PICK f \in Pulled(c.stack, "irq") : d = ReturnFromInterrupt(c, f)
    BY <1>3, <1>7 DEF Outcomes
  <2>3. d.stack = PopFrame(c.stack) /\ d.shadow = c.shadow
    BY <2>2, <1>1 DEF ReturnFromInterrupt, Cpu
  <2>4. QED
    BY <1>1, <2>1, <2>3, ListsPoppedInterrupt DEF ShadowMoves
<1>8. CASE ins.op = "brk"
  <2> DEFINE f == [kind |-> "irq", ret |-> next, i |-> c.i]
  <2>1. f \in Frame /\ f.kind = "irq"
    BY <1>1 DEF Frame
  <2>2. d = Interrupt(c, next)
    BY <1>3, <1>8 DEF Outcomes
  <2>3. d.stack = Append(c.stack, f) /\ d.shadow = c.shadow
    BY <2>2, <1>1 DEF Interrupt, PushFrame, Cpu
  <2> HIDE DEF f
  <2>4. QED
    BY <1>1, <2>1, <2>3, ListsPushedInterrupt DEF ShadowMoves
<1>9. QED
  BY <1>1, <1>4, <1>5, <1>6, <1>7, <1>8 DEF Ops

\* An interrupt frame that leaves the page with room was pushed on what was there.
LEMMA InterruptFits ==
  ASSUME NEW c \in BoundedCpu, CheckInterrupts(c) = Interrupt(c, c.pc),
         Len(CheckInterrupts(c).stack) < StackSlots
  PROVE  CheckInterrupts(c).stack
           = Append(c.stack, [kind |-> "irq", ret |-> c.pc, i |-> c.i])
<1> DEFINE d == CheckInterrupts(c)
           f == [kind |-> "irq", ret |-> c.pc, i |-> c.i]
<1>1. c.stack \in Seq(Frame) /\ f \in Frame /\ Len(c.stack) <= StackSlots
  BY DEF BoundedCpu, Cpu, Frame
<1>2. d.stack = PushFrame(c.stack, f)
  BY DEF Interrupt, BoundedCpu, Cpu
<1> HIDE DEF f, d
<1>3. Len(c.stack) < StackSlots
  <2>1. SUFFICES ASSUME Len(c.stack) = StackSlots PROVE FALSE
    BY <1>1, GuestAssumption, LenProperties
  <2>2. c.stack # <<>> /\ Tail(c.stack) \in Seq(Frame) /\ Len(Tail(c.stack)) = StackSlots - 1
    BY <1>1, <2>1, GuestAssumption, EmptySeq, HeadTailProperties
  <2>3. d.stack = Append(Tail(c.stack), f)
    BY <1>2, <2>1, GuestAssumption DEF PushFrame
  <2>4. Len(d.stack) = StackSlots
    BY <1>1, <2>2, <2>3, AppendProperties, GuestAssumption
  <2>5. QED
    BY <2>4, GuestAssumption DEF d
<1>4. QED
  BY <1>2, <1>3 DEF PushFrame, f, d

\* Taking an interrupt keeps them in step too, if the frame it leaves fitted.
LEMMA StructuredInterrupt ==
  ASSUME NEW c \in BoundedCpu, ListsCalls(c.shadow, c.stack),
         Len(CheckInterrupts(c).stack) < StackSlots
  PROVE  /\ ListsCalls(CheckInterrupts(c).shadow, CheckInterrupts(c).stack)
         /\ CheckInterrupts(c).shadow = c.shadow
         /\ CheckInterrupts(c).pc \in {c.pc, IrqPC}
<1> DEFINE d == CheckInterrupts(c)
           f == [kind |-> "irq", ret |-> c.pc, i |-> c.i]
<1>1. CASE d = c
  BY <1>1
<1>2. CASE d = Interrupt(c, c.pc)
  <2>1. /\ c.stack \in Seq(Frame) /\ c.shadow \in Seq(Addr) /\ f \in Frame /\ f.kind = "irq"
    BY DEF BoundedCpu, Cpu, Frame
  <2>2. d.stack = Append(c.stack, f) /\ d.shadow = c.shadow /\ d.pc = IrqPC
    BY <1>2, InterruptFits DEF Interrupt, BoundedCpu, Cpu
  <2> HIDE DEF f, d
  <2>3. QED
    BY <2>1, <2>2, ListsPushedInterrupt DEF d
<1>3. QED
  BY <1>1, <1>2 DEF CheckInterrupts
-----------------------------------------------------------------------------
(***************************************************************************)
(* The frame that a step-over waits for.                                   *)
(***************************************************************************)
\* How many calls the frame at n of a stack lies above.
CallsBelow(s, n) == Cardinality({m \in 1 .. n - 1 : s[m].kind = "call"})

\* Some frame, with k calls below it, is to return to a.
Outstanding(s, a, k) == \E n \in 1 .. Len(s) : s[n].ret = a /\ CallsBelow(s, n) = k

\* The guest is at the call that will push that frame, or has returned from it.
AtCall(c, a, k) ==
  Code[c.pc].op = "jsr" /\ FallThrough(c.pc) = a /\ Len(c.shadow) = k
Back(c, a, k) == c.pc = a /\ Len(c.shadow) = k

\* The shadow stack is as deep as there are calls on the guest's stack.
LEMMA ListedLength ==
  ASSUME NEW h \in Seq(Addr), NEW s \in Seq(Frame), ListsCalls(h, s)
  PROVE  Len(h) = CallsBelow(s, Len(s) + 1)
<1> DEFINE m == Len(h)
           n == Len(s)
           T == {i \in 1 .. n : s[i].kind = "call"}
<1>1. PICK pos \in [1 .. m -> 1 .. n] : StandsFor(pos, h, s)
  BY DEF ListsCalls
<1>2. m \in Nat /\ n \in Nat
  BY LenProperties
<1>3. /\ \A j, k \in 1 .. m : j < k => pos[j] < pos[k]
      /\ \A k \in 1 .. m : pos[k] \in T
      /\ \A i \in T : \E k \in 1 .. m : pos[k] = i
  BY <1>1 DEF StandsFor
<1>4. (n + 1) - 1 = n
  BY <1>2
<1>5. CallsBelow(s, n + 1) = Cardinality(T)
  BY <1>4 DEF CallsBelow
<1> HIDE DEF m, n, T
<1>6. pos \in [1 .. m -> T]
  BY <1>1, <1>3
<1>7. \A j, k \in 1 .. m : pos[j] = pos[k] => j = k
  <2>1. ASSUME NEW j \in 1 .. m, NEW k \in 1 .. m, j # k PROVE pos[j] # pos[k]
    <3>1. j < k \/ k < j
      BY <1>2, <2>1
    <3>2. pos[j] \in Int /\ pos[k] \in Int
      BY <1>1, <1>2
    <3>3. QED
      BY <3>1, <3>2, <1>3
  <2>2. QED
    BY <2>1
<1>8. pos \in Bijection(1 .. m, T)
  BY <1>3, <1>6, <1>7 DEF Bijection, Injection, Surjection, IsInjective
<1>9. Cardinality(T) = m
  BY <1>2, <1>8, FS_CountingElements DEF ExistsBijection
<1>10. QED
  BY <1>5, <1>9 DEF m, n

\* A count of calls depends on what lies below only.
LEMMA SameBelow ==
  ASSUME NEW s, NEW t, NEW n, \A i \in 1 .. n - 1 : t[i] = s[i]
  PROVE  CallsBelow(t, n) = CallsBelow(s, n)
<1>1. {m \in 1 .. n - 1 : t[m].kind = "call"} = {m \in 1 .. n - 1 : s[m].kind = "call"}
  OBVIOUS
<1>2. QED
  BY <1>1 DEF CallsBelow

\* A frame that is owed stays owed under another.
LEMMA OutstandingPushed ==
  ASSUME NEW s \in Seq(Frame), NEW f \in Frame, NEW a, NEW k, Outstanding(s, a, k)
  PROVE  Outstanding(Append(s, f), a, k)
<1> DEFINE t == Append(s, f)
<1>1. PICK n \in 1 .. Len(s) : s[n].ret = a /\ CallsBelow(s, n) = k
  BY DEF Outstanding
<1>2. Len(s) \in Nat /\ Len(t) = Len(s) + 1 /\ \A i \in 1 .. Len(s) : t[i] = s[i]
  BY LenProperties, AppendProperties
<1> HIDE DEF t
<1>3. n \in 1 .. Len(t) /\ t[n] = s[n] /\ \A i \in 1 .. n - 1 : t[i] = s[i]
  BY <1>2
<1>4. CallsBelow(t, n) = k
  BY <1>1, <1>3, SameBelow
<1>5. QED
  BY <1>1, <1>3, <1>4 DEF Outstanding, t

\* A frame that returns to a, pushed on k calls, is owed.
LEMMA PushedIsOutstanding ==
  ASSUME NEW s \in Seq(Frame), NEW f \in Frame
  PROVE  Outstanding(Append(s, f), f.ret, CallsBelow(s, Len(s) + 1))
<1> DEFINE t == Append(s, f)
           n == Len(s) + 1
<1>1. /\ Len(s) \in Nat /\ Len(t) = n /\ t[n] = f
      /\ \A i \in 1 .. Len(s) : t[i] = s[i]
  BY LenProperties, AppendProperties
<1>2. n \in 1 .. Len(t) /\ n - 1 = Len(s)
  BY <1>1
<1> HIDE DEF t, n
<1>3. CallsBelow(t, n) = CallsBelow(s, n)
  BY <1>1, <1>2, SameBelow
<1>4. QED
  BY <1>1, <1>2, <1>3 DEF Outstanding, t, n

\* A popped frame was not the one that is owed, or there are now k calls left.
LEMMA OutstandingPopped ==
  ASSUME NEW s \in Seq(Frame), s # <<>>, NEW a, NEW k, Outstanding(s, a, k)
  PROVE  \/ Outstanding(PopFrame(s), a, k)
         \/ s[Len(s)].ret = a /\ CallsBelow(PopFrame(s), Len(PopFrame(s)) + 1) = k
<1> DEFINE t == PopFrame(s)
<1>1. PICK n \in 1 .. Len(s) : s[n].ret = a /\ CallsBelow(s, n) = k
  BY DEF Outstanding
<1>2. /\ Len(s) \in Nat /\ Len(t) = Len(s) - 1
      /\ \A i \in 1 .. Len(s) - 1 : t[i] = s[i]
  BY LenProperties, PopSeq, PopKeeps DEF PopFrame
<1> HIDE DEF t
<1>3. \A i \in 1 .. n - 1 : t[i] = s[i]
  BY <1>2
<1>4. CallsBelow(t, n) = k
  BY <1>1, <1>3, SameBelow
<1>5. CASE n = Len(s)
  <2>1. Len(t) + 1 = n
    BY <1>2, <1>5
  <2>2. QED
    BY <1>1, <1>4, <1>5, <2>1 DEF t
<1>6. CASE n # Len(s)
  <2>1. n \in 1 .. Len(t) /\ t[n] = s[n]
    BY <1>2, <1>6
  <2>2. QED
    BY <1>1, <1>4, <2>1 DEF Outstanding, t
<1>7. QED
  BY <1>5, <1>6

\* One instruction takes the guest from the call into what was called, or leaves
\* the frame owed, or returns from it; a halted guest stays at the call.
LEMMA OwedExecute ==
  ASSUME NEW c \in BoundedCpu, Structured(c), ListsCalls(c.shadow, c.stack),
         NEW d \in ExecuteOne(c), NEW a, NEW k,
         AtCall(c, a, k) \/ Outstanding(c.stack, a, k)
  PROVE  \/ c.halted /\ d = c
         \/ Outstanding(d.stack, a, k) \/ Back(d, a, k)
<1> DEFINE ins == Code[c.pc]
           next == FallThrough(c.pc)
<1>1. /\ c \in Cpu /\ c.stack \in Seq(Frame) /\ c.shadow \in Seq(Addr) /\ c.i \in BOOLEAN
      /\ Len(c.stack) < StackSlots /\ c.pc \in Addr /\ next \in Addr
      /\ ins \in Instr /\ ins.op \in Ops
  BY GuestAssumption, FallThroughType DEF BoundedCpu, Cpu, Structured, Instr
<1>2. CASE c.halted
  BY <1>2 DEF ExecuteOne
<1> SUFFICES ASSUME ~c.halted PROVE Outstanding(d.stack, a, k) \/ Back(d, a, k)
  BY <1>2
<1>3. d \in Outcomes(c, ins, next)
  BY DEF ExecuteOne
<1>4. ins.op # "jsr" => Outstanding(c.stack, a, k)
  BY DEF AtCall
<1>5. d \in BoundedCpu /\ ListsCalls(d.shadow, d.stack)
  BY ExecuteOneType, StructuredExecute
<1>6. Len(d.shadow) = CallsBelow(d.stack, Len(d.stack) + 1)
  BY <1>5, ListedLength DEF BoundedCpu, Cpu
<1>7. Len(c.shadow) = CallsBelow(c.stack, Len(c.stack) + 1)
  BY <1>1, ListedLength
<1>8. AtCall(c, a, k) => next = a /\ Len(c.shadow) = k
  BY DEF AtCall
<1> HIDE DEF ins, next
<1>9. CASE ins.op \in {"plain", "branch", "jmp", "cli", "sei", "hlt", "undefined"}
  <2>1. d.stack = c.stack
    BY <1>1, <1>3, <1>9 DEF Outcomes, JumpTo, Cpu
  <2>2. QED
    BY <1>4, <1>9, <2>1
<1>10. CASE ins.op = "jsr"
  <2> DEFINE f == [kind |-> "call", ret |-> next, i |-> c.i]
  <2>1. f \in Frame /\ f.ret = next
    BY <1>1 DEF Frame
  <2>2. d.stack = Append(c.stack, f)
    BY <1>1, <1>3, <1>10 DEF Outcomes, Call, PushFrame, Cpu
  <2> HIDE DEF f
  <2>3. CASE AtCall(c, a, k)
    BY <1>1, <1>7, <1>8, <2>1, <2>2, <2>3, PushedIsOutstanding
  <2>4. CASE Outstanding(c.stack, a, k)
    BY <1>1, <2>1, <2>2, <2>4, OutstandingPushed
  <2>5. QED
    BY <2>3, <2>4
<1>11. CASE ins.op \in {"rts", "rti"}
  <2>1. PICK kind \in {"call", "irq"} :
          /\ TopKind(c.stack) = kind
          /\ \E f \in Pulled(c.stack, kind) : d.stack = PopFrame(c.stack) /\ d.pc = f.ret
    <3>1. CASE ins.op = "rts"
      <4>1. TopKind(c.stack) = "call"
        BY <3>1 DEF Structured, ins
      <4>2. PICK f \in Pulled(c.stack, "call") : d = Return(c, f)
        BY <1>3, <3>1 DEF Outcomes
      <4>3. d.stack = PopFrame(c.stack) /\ d.pc = f.ret
        BY <1>1, <4>2 DEF Return, Cpu
      <4>4. QED
        BY <4>1, <4>2, <4>3
    <3>2. CASE ins.op = "rti"
      <4>1. TopKind(c.stack) = "irq"
        BY <3>2 DEF Structured, ins
      <4>2. PICK f \in Pulled(c.stack, "irq") : d = ReturnFromInterrupt(c, f)
        BY <1>3, <3>2 DEF Outcomes
      <4>3. d.stack = PopFrame(c.stack) /\ d.pc = f.ret
        BY <1>1, <4>2 DEF ReturnFromInterrupt, Cpu
      <4>4. QED
        BY <4>1, <4>2, <4>3
    <3>3. QED
      BY <1>11, <3>1, <3>2
  <2>2. c.stack # <<>> /\ Pulled(c.stack, kind) = {c.stack[Len(c.stack)]}
    BY <2>1 DEF TopKind, Pulled
  <2>3. d.stack = PopFrame(c.stack) /\ d.pc = c.stack[Len(c.stack)].ret
    BY <2>1, <2>2
  <2>4. Outstanding(c.stack, a, k)
    BY <1>4, <1>11
  <2>5. QED
    BY <1>1, <1>6, <2>2, <2>3, <2>4, OutstandingPopped DEF Back
<1>12. CASE ins.op = "brk"
  <2> DEFINE f == [kind |-> "irq", ret |-> next, i |-> c.i]
  <2>1. f \in Frame
    BY <1>1 DEF Frame
  <2>2. d.stack = Append(c.stack, f)
    BY <1>1, <1>3, <1>12 DEF Outcomes, Interrupt, PushFrame, Cpu
  <2> HIDE DEF f
  <2>3. QED
    BY <1>1, <1>4, <1>12, <2>1, <2>2, OutstandingPushed
<1>13. QED
  BY <1>1, <1>9, <1>10, <1>11, <1>12 DEF Ops

\* An interrupt on the way, or just as the guest is back, leaves a frame that
\* returns to where it was.
LEMMA OwedInterrupt ==
  ASSUME NEW c \in BoundedCpu, ListsCalls(c.shadow, c.stack), NEW a, NEW k,
         Len(CheckInterrupts(c).stack) < StackSlots,
         Outstanding(c.stack, a, k) \/ Back(c, a, k)
  PROVE  LET d == CheckInterrupts(c) IN Outstanding(d.stack, a, k) \/ Back(d, a, k)
<1> DEFINE d == CheckInterrupts(c)
           f == [kind |-> "irq", ret |-> c.pc, i |-> c.i]
<1>1. CASE d = c
  BY <1>1
<1>2. CASE d = Interrupt(c, c.pc)
  <2>1. /\ c.stack \in Seq(Frame) /\ c.shadow \in Seq(Addr) /\ f \in Frame /\ f.ret = c.pc
    BY DEF BoundedCpu, Cpu, Frame
  <2>2. d.stack = Append(c.stack, f)
    BY InterruptFits, <1>2
  <2>3. Len(c.shadow) = CallsBelow(c.stack, Len(c.stack) + 1)
    BY <2>1, ListedLength
  <2> HIDE DEF f, d
  <2>4. CASE Outstanding(c.stack, a, k)
    BY <2>1, <2>2, <2>4, OutstandingPushed DEF d
  <2>5. CASE Back(c, a, k)
    <3>1. c.pc = a /\ Len(c.shadow) = k
      BY <2>5 DEF Back
    <3>2. Outstanding(d.stack, f.ret, CallsBelow(c.stack, Len(c.stack) + 1))
      BY <2>1, <2>2, PushedIsOutstanding
    <3>3. QED
      BY <2>1, <2>3, <3>1, <3>2 DEF d
  <2>6. QED
    BY <2>4, <2>5
<1>3. QED
  BY <1>1, <1>2 DEF CheckInterrupts
-----------------------------------------------------------------------------
(***************************************************************************)
(* The session around the guest.                                           *)
(***************************************************************************)
\* The CPU that an instruction leaves is well formed, and stays halted.
LEMMA InstructionType ==
  ASSUME TypeOK, Instruction
  PROVE  cpu' \in BoundedCpu /\ devIrq' \in BOOLEAN /\ (cpu.halted => cpu'.halted)
<1>1. cpu \in BoundedCpu
  BY DEF TypeOK, BoundedCpu
<1>2. PICK c \in ExecuteOne(cpu), irq \in DeviceAfter :
        devIrq' = irq /\ cpu' = CheckInterrupts([c EXCEPT !.irqLine = irq])
  BY DEF Instruction
<1>3. irq \in BOOLEAN
  BY SessionAssumption DEF DeviceAfter, TypeOK
<1>4. c \in BoundedCpu /\ (cpu.halted => c = cpu)
  BY <1>1, ExecuteOneType
<1>5. [c EXCEPT !.irqLine = irq] \in BoundedCpu /\ [c EXCEPT !.irqLine = irq].halted = c.halted
  BY <1>3, <1>4, IrqLineType
<1>6. QED
  BY <1>2, <1>3, <1>4, <1>5, CheckInterruptsType

\* The same for the instruction emfe_run executes by itself.
LEMMA InstructionBeforeRunType ==
  ASSUME TypeOK, InstructionBeforeRun
  PROVE  cpu' \in BoundedCpu /\ devIrq' \in BOOLEAN /\ (cpu.halted => cpu'.halted)
<1>1. cpu \in BoundedCpu
  BY DEF TypeOK, BoundedCpu
<1>2. PICK c \in ExecuteOne(cpu), irq \in DeviceAfter :
        devIrq' = irq /\ cpu' = CheckInterrupts(c)
  BY DEF InstructionBeforeRun
<1>3. irq \in BOOLEAN
  BY SessionAssumption DEF DeviceAfter, TypeOK
<1>4. c \in BoundedCpu /\ (cpu.halted => c = cpu)
  BY <1>1, ExecuteOneType
<1>5. QED
  BY <1>2, <1>3, <1>4, CheckInterruptsType

\* The initial state satisfies the inductive invariant.
LEMMA InitInv == Init => SessionInv
<1> SUFFICES ASSUME Init PROVE SessionInv
  OBVIOUS
<1>1. ResetCpu \in Cpu /\ ResetCpu.stack = <<>> /\ ResetCpu.shadow = <<>>
  BY GuestAssumption DEF ResetCpu, Cpu
<1>2. TypeOK
  <2>1. cpu \in Cpu /\ Len(cpu.shadow) <= MaxShadowStack /\ Len(cpu.stack) <= StackSlots
    BY <1>1, GuestAssumption DEF Init
  <2>2. over \in Over /\ notice \in Notice
    BY GuestAssumption DEF Init, Over, NoOver, Notice, NoNotice, Resting, Reasons
  <2>3. breakpoints \in [Addr -> BpSlot] /\ enabledBreakpoints \subseteq Addr
    BY DEF Init, BpSlot, NoBreakpoint
  <2>4. stepOutTargetDepth \in -1 .. (MaxShadowStack - 1)
    BY GuestAssumption DEF Init
  <2>5. QED
    BY <2>1, <2>2, <2>3, <2>4 DEF Init, TypeOK, States, Resting, Launches, Looping, Leaving
<1>3. QED
  BY <1>2 DEF Init, SessionInv, HandleInv, RunningHasWorker, CallInv, JoinInv, Joining,
              NeverTerminates, WorkerNeverOutlivesInstance, StepOutTargetOwned,
              NoStrayBreakpoint, NoticeInv, HaltedIsReal, Looping, Launches, Leaving

\* The part of the invariant that keeps the threads apart: it speaks of where
\* each thread is and of nothing the guest computes.
ThreadsInv == /\ HandleInv /\ RunningHasWorker /\ CallInv /\ JoinInv
              /\ NeverTerminates /\ WorkerNeverOutlivesInstance

\* Every step keeps the threads apart: a launching call has the worker slot to
\* itself from its join to its spawn, because RUNNING keeps other calls out.
LEMMA ThreadsStep ==
  ASSUME TypeOK, ThreadsInv, [Next]_vars
  PROVE  ThreadsInv'
<1> USE DEF ThreadsInv, HandleInv, RunningHasWorker, CallInv, JoinInv, Joining,
            NeverTerminates, WorkerNeverOutlivesInstance, Looping, Launches,
            hostVars, guestVars, bpVars, workerVars, TypeOK, States, Resting
<1>1. CASE StepBegin
  BY <1>1 DEF StepBegin, MayEnter, HostFree
<1>2. CASE Reset
  BY <1>2 DEF Reset, MayEnter, HostFree, Notify
<1>3. CASE SetRegisters
  BY <1>3 DEF SetRegisters, WriteRegisters, MayEnter, HostFree
<1>4. CASE BreakpointCall
  BY <1>4 DEF BreakpointCall, ClearBreakpoints, AddBreakpoint, RemoveBreakpoint,
             EnableBreakpoint, SetBreakpointCondition, EditBreakpoints, MayEnter, HostFree
<1>5. CASE EnterRun
  BY <1>5 DEF EnterRun, EnterLaunch, EnterLaunchAt, MayEnter, HostFree
<1>6. CASE EnterStepOver
  BY <1>6 DEF EnterStepOver, EnterLaunch, EnterLaunchAt, MayEnter, HostFree
<1>7. CASE EnterStepOut
  BY <1>7 DEF EnterStepOut, EnterLaunch, EnterLaunchAt, MayEnter, HostFree
<1>8. CASE EnterStop("stop")
  BY <1>8 DEF EnterStop, Enter, HostFree
<1>9. CASE EnterDestroy
  BY <1>9 DEF EnterDestroy, EnterStop, Enter, HostFree
<1>10. CASE StepEnd
  BY <1>10 DEF StepEnd, Notify
<1>11. CASE JoinTest
  BY <1>11 DEF JoinTest, AfterJoin, Leave, Proceed
<1>12. CASE JoinDone
  BY <1>12 DEF JoinDone, AfterJoin, Leave, Proceed
<1>13. CASE PrepareRun
  BY <1>13 DEF PrepareRun, HaltBeforeRun, Notify, Leave, Proceed
<1>14. CASE PrepareStepOver
  BY <1>14 DEF PrepareStepOver, Proceed
<1>15. CASE PrepareStepOut
  BY <1>15 DEF PrepareStepOut, Proceed
<1>16. CASE ClearStopRequest
  BY <1>16 DEF ClearStopRequest, Proceed
<1>17. CASE MarkRunning
  BY <1>17 DEF MarkRunning, Proceed
<1>18. CASE Spawn
  BY <1>18 DEF Spawn, Leave
<1>19. CASE InputArrives
  BY <1>19 DEF InputArrives
<1>20. CASE LoopTest
  BY <1>20 DEF LoopTest, LoopFrame, WorkerFrame, WorkerAt, Conclude, Advance
<1>21. CASE LoopCheck
  BY <1>21 DEF LoopCheck, LoopFrame, WorkerFrame, WorkerAt, Conclude, Advance
<1>22. CASE LoopExecute
  BY <1>22 DEF LoopExecute, LoopFrame, WorkerFrame, WorkerAt, Conclude, Advance
<1>23. CASE LoopUnwind
  BY <1>23 DEF LoopUnwind, LoopFrame, WorkerFrame, WorkerAt, Conclude, Advance
<1>24. CASE PublishState
  BY <1>24 DEF PublishState, WorkerFrame, WorkerAt, Advance, Notice
<1>25. CASE RunCallback
  BY <1>25 DEF RunCallback, WorkerFrame, WorkerAt, Advance
<1>26. CASE Epilogue
  BY <1>26 DEF Epilogue, WorkerFrame, WorkerAt
<1>27. ASSUME NEW s \in Stoppers, StopperFlags(s) PROVE ThreadsInv'
  BY <1>27 DEF StopperFlags, MoveStopper
<1>28. ASSUME NEW s \in Stoppers, StopperTests(s) PROVE ThreadsInv'
  BY <1>28 DEF StopperTests, MoveStopper
<1>29. ASSUME NEW s \in Stoppers, StopperJoins(s) PROVE ThreadsInv'
  BY <1>29 DEF StopperJoins, MoveStopper
<1>30. CASE UNCHANGED vars
  BY <1>30 DEF vars
<1>31. QED
  BY <1>1, <1>2, <1>3, <1>4, <1>5, <1>6, <1>7, <1>8, <1>9, <1>10, <1>11,
     <1>12, <1>13, <1>14, <1>15, <1>16, <1>17, <1>18, <1>19, <1>20, <1>21,
     <1>22, <1>23, <1>24, <1>25, <1>26, <1>27, <1>28, <1>29, <1>30
     DEF Next, HostBegins, HostContinues, Worker, StopperContinues


\* Every step keeps every field in its type.
LEMMA TypeStep ==
  ASSUME TypeOK, ThreadsInv, [Next]_vars
  PROVE  TypeOK'
<1> USE DEF TypeOK, ThreadsInv, CallInv, States, Resting, Launches, Looping, Leaving,
            hostVars, guestVars, bpVars, workerVars
<1>1. CASE StepBegin
  BY <1>1 DEF StepBegin, MayEnter, HostFree
<1>2. CASE Reset
  <2>1. ResetCpu \in BoundedCpu
    BY GuestAssumption DEF ResetCpu, BoundedCpu, Cpu
  <2>2. QED
    BY <1>2, <2>1 DEF Reset, MayEnter, HostFree, Notify, BoundedCpu
<1>3. CASE SetRegisters
  <2>1. PICK a \in EntryPC, i \in BOOLEAN : cpu' = [cpu EXCEPT !.pc = a, !.i = i]
    BY <1>3 DEF SetRegisters, WriteRegisters
  <2>2. a \in Addr
    BY SessionAssumption
  <2>3. [cpu EXCEPT !.pc = a, !.i = i] \in BoundedCpu
    BY <2>2 DEF BoundedCpu, Cpu
  <2>4. QED
    BY <1>3, <2>1, <2>3 DEF SetRegisters, WriteRegisters, BoundedCpu
<1>4. CASE BreakpointCall
  <2>1. ASSUME NEW table \in [Addr -> BpSlot], NEW armed \in SUBSET Addr,
               EditBreakpoints(table, armed)
        PROVE  TypeOK'
    BY <2>1 DEF EditBreakpoints
  <2>2. CASE ClearBreakpoints
    <3>1. [a \in Addr |-> NoBreakpoint] \in [Addr -> BpSlot] /\ {} \in SUBSET Addr
      BY DEF NoBreakpoint, BpSlot
    <3>2. QED
      BY <2>1, <2>2, <3>1 DEF ClearBreakpoints
  <2>3. ASSUME NEW a \in Addr, AddBreakpoint(a) PROVE TypeOK'
    <3> DEFINE slot == [present |-> TRUE, enabled |-> TRUE, conditional |-> FALSE]
    <3>1. [breakpoints EXCEPT ![a] = slot] \in [Addr -> BpSlot]
      BY DEF BpSlot
    <3>2. enabledBreakpoints \cup {a} \in SUBSET Addr
      OBVIOUS
    <3>3. EditBreakpoints([breakpoints EXCEPT ![a] = slot], enabledBreakpoints \cup {a})
      BY <2>3 DEF AddBreakpoint
    <3> HIDE DEF TypeOK
    <3>4. QED
      BY <2>1, <3>1, <3>2, <3>3
  <2>4. ASSUME NEW a \in Addr, RemoveBreakpoint(a) PROVE TypeOK'
    <3>1. [breakpoints EXCEPT ![a] = NoBreakpoint] \in [Addr -> BpSlot]
      BY DEF NoBreakpoint, BpSlot
    <3>2. enabledBreakpoints \ {a} \in SUBSET Addr
      OBVIOUS
    <3>3. EditBreakpoints([breakpoints EXCEPT ![a] = NoBreakpoint], enabledBreakpoints \ {a})
      BY <2>4 DEF RemoveBreakpoint
    <3> HIDE DEF TypeOK
    <3>4. QED
      BY <2>1, <3>1, <3>2, <3>3
  <2>5. ASSUME NEW a \in Addr, NEW b \in BOOLEAN, EnableBreakpoint(a, b) PROVE TypeOK'
    <3> DEFINE armed == IF b THEN enabledBreakpoints \cup {a} ELSE enabledBreakpoints \ {a}
    <3>1. [breakpoints EXCEPT ![a].enabled = b] \in [Addr -> BpSlot]
      BY DEF BpSlot
    <3>2. armed \in SUBSET Addr
      OBVIOUS
    <3>3. EditBreakpoints([breakpoints EXCEPT ![a].enabled = b], armed)
      BY <2>5 DEF EnableBreakpoint
    <3> HIDE DEF TypeOK, armed
    <3>4. QED
      BY <2>1, <3>1, <3>2, <3>3
  <2>6. ASSUME NEW a \in Addr, NEW b \in BOOLEAN, SetBreakpointCondition(a, b)
        PROVE TypeOK'
    BY <2>1, <2>6 DEF SetBreakpointCondition, BpSlot
  <2>7. QED
    BY <1>4, <2>2, <2>3, <2>4, <2>5, <2>6, SessionAssumption DEF BreakpointCall
<1>5. CASE EnterRun
  BY <1>5 DEF EnterRun, EnterLaunch, EnterLaunchAt, MayEnter, HostFree
<1>6. CASE EnterStepOver
  BY <1>6 DEF EnterStepOver, EnterLaunch, EnterLaunchAt, MayEnter, HostFree
<1>7. CASE EnterStepOut
  BY <1>7 DEF EnterStepOut, EnterLaunch, EnterLaunchAt, MayEnter, HostFree
<1>8. CASE EnterStop("stop")
  BY <1>8 DEF EnterStop, Enter, HostFree
<1>9. CASE EnterDestroy
  BY <1>9 DEF EnterDestroy, EnterStop, Enter, HostFree
<1>10. CASE StepEnd
  <2>1. cpu' \in BoundedCpu /\ devIrq' \in BOOLEAN
    BY <1>10, InstructionType DEF StepEnd
  <2>2. QED
    BY <1>10, <2>1 DEF BoundedCpu, StepEnd, Notify
<1>11. CASE JoinTest
  <2>1. AfterJoin => ui' \in {"idle", "gone", "prepare"} /\ call' \in {"none", call}
    BY <1>11 DEF JoinTest, AfterJoin, Leave, Proceed
  <2>2. ui' \in {"idle", "gone", "prepare", "joining", "join"} /\ call' \in {"none", call}
    BY <1>11, <2>1 DEF JoinTest, Proceed
  <2>3. fault' \in {"none", "doubleJoin"}
    BY <1>11 DEF JoinTest
  <2>4. QED
    BY <1>11, <2>2, <2>3 DEF JoinTest
<1>12. CASE JoinDone
  BY <1>12 DEF JoinDone, AfterJoin, Leave, Proceed
<1>13. CASE PrepareRun
  <2>1. cpu' \in BoundedCpu /\ devIrq' \in BOOLEAN
    BY <1>13, InstructionBeforeRunType DEF PrepareRun, BoundedCpu
  <2>2. QED
    BY <1>13, <2>1 DEF BoundedCpu, PrepareRun, HaltBeforeRun, Notify, Leave, Proceed
<1>14. CASE PrepareStepOver
  <2>1. cpu.pc \in Addr /\ FallThrough(cpu.pc) \in Addr /\ Len(cpu.shadow) \in Nat
    BY FallThroughType, LenProperties DEF Cpu
  <2>2. over' \in Over /\ enabledBreakpoints' \subseteq Addr
    BY <1>14, <2>1 DEF PrepareStepOver, Over, HadBreakpoint
  <2>3. QED
    BY <1>14, <2>2 DEF PrepareStepOver, Proceed
<1>15. CASE PrepareStepOut
  <2>1. cpu.shadow \in Seq(Addr) /\ cpu.shadow # <<>>
    BY <1>15 DEF PrepareStepOut, Cpu, CallInv
  <2>2. Len(cpu.shadow) \in 1 .. MaxShadowStack /\ cpu.shadow[Len(cpu.shadow)] \in Addr
    BY <2>1, GuestAssumption, EmptySeq, LenProperties, ElementOfSeq
  <2>3. stepOutTargetDepth' \in -1 .. (MaxShadowStack - 1) /\ over' \in Over
    BY <1>15, <2>2, GuestAssumption DEF PrepareStepOut, TargetDepth, Over
  <2>4. QED
    BY <1>15, <2>3 DEF PrepareStepOut, Proceed
<1>16. CASE ClearStopRequest
  BY <1>16 DEF ClearStopRequest, Proceed
<1>17. CASE MarkRunning
  BY <1>17 DEF MarkRunning, Proceed
<1>18. CASE Spawn
  BY <1>18 DEF Spawn, Leave
<1>19. CASE InputArrives
  <2>1. devIrq' \in BOOLEAN
    BY <1>19, SessionAssumption DEF InputArrives
  <2>2. QED
    BY <1>19, <2>1 DEF InputArrives
<1>20. CASE LoopTest
  BY <1>20 DEF LoopTest, LoopFrame, WorkerFrame, WorkerAt, Conclude, Advance, Notice, Reasons
<1>21. CASE LoopCheck
  BY <1>21 DEF LoopCheck, LoopFrame, WorkerFrame, WorkerAt, Conclude, Advance, Notice, Reasons
<1>22. CASE LoopExecute
  <2>1. cpu' \in BoundedCpu /\ devIrq' \in BOOLEAN
    BY <1>22, InstructionType DEF LoopExecute
  <2>2. QED
    BY <1>22, <2>1 DEF BoundedCpu, LoopExecute, LoopFrame, WorkerFrame, WorkerAt, Conclude, Advance, Notice, Reasons
<1>23. CASE LoopUnwind
  BY <1>23, GuestAssumption DEF LoopUnwind, LoopFrame, WorkerFrame, WorkerAt, Conclude, Advance, Notice, Reasons
<1>24. CASE PublishState
  BY <1>24 DEF PublishState, WorkerFrame, WorkerAt, Advance, Notice
<1>25. CASE RunCallback
  BY <1>25 DEF RunCallback, WorkerFrame, WorkerAt, Advance, Notice
<1>26. CASE Epilogue
  <2>1. over' \in Over /\ notice' \in Notice
    BY <1>26, GuestAssumption DEF Epilogue, Over, NoOver, Notice, NoNotice, Reasons
  <2>2. enabledBreakpoints' \subseteq Addr /\ stepOutTargetDepth' \in -1 .. (MaxShadowStack - 1)
    BY <1>26, GuestAssumption DEF Epilogue, ArmedAfter, TargetAfter
  <2>3. QED
    BY <1>26, <2>1, <2>2 DEF Epilogue, WorkerFrame, WorkerAt
<1>27. ASSUME NEW s \in Stoppers, StopperFlags(s) PROVE TypeOK'
  BY <1>27 DEF StopperFlags, MoveStopper
<1>28. ASSUME NEW s \in Stoppers, StopperTests(s) PROVE TypeOK'
  BY <1>28 DEF StopperTests, MoveStopper
<1>29. ASSUME NEW s \in Stoppers, StopperJoins(s) PROVE TypeOK'
  BY <1>29 DEF StopperJoins, MoveStopper
<1>30. CASE UNCHANGED vars
  BY <1>30 DEF vars
<1>31. QED
  BY <1>1, <1>2, <1>3, <1>4, <1>5, <1>6, <1>7, <1>8, <1>9, <1>10, <1>11,
     <1>12, <1>13, <1>14, <1>15, <1>16, <1>17, <1>18, <1>19, <1>20, <1>21,
     <1>22, <1>23, <1>24, <1>25, <1>26, <1>27, <1>28, <1>29, <1>30
     DEF Next, HostBegins, HostContinues, Worker, StopperContinues

\* A step-out depth is cleared by the worker that it was set for: no other call
\* can set one while that worker is in its loop or its epilogue.
LEMMA TargetStep ==
  ASSUME TypeOK, ThreadsInv, StepOutTargetOwned, [Next]_vars
  PROVE  StepOutTargetOwned'
<1> USE DEF ThreadsInv, HandleInv, RunningHasWorker, CallInv, StepOutTargetOwned,
            Looping, Leaving, Launches, hostVars, guestVars, bpVars, workerVars
<1>1. CASE StepBegin
  BY <1>1 DEF StepBegin, MayEnter, HostFree
<1>2. CASE Reset
  BY <1>2 DEF Reset, MayEnter, HostFree, Notify
<1>3. CASE SetRegisters
  BY <1>3 DEF SetRegisters, WriteRegisters, MayEnter, HostFree
<1>4. CASE BreakpointCall
  BY <1>4 DEF BreakpointCall, ClearBreakpoints, AddBreakpoint, RemoveBreakpoint,
             EnableBreakpoint, SetBreakpointCondition, EditBreakpoints, MayEnter, HostFree
<1>5. CASE EnterRun
  BY <1>5 DEF EnterRun, EnterLaunch, EnterLaunchAt, MayEnter, HostFree
<1>6. CASE EnterStepOver
  BY <1>6 DEF EnterStepOver, EnterLaunch, EnterLaunchAt, MayEnter, HostFree
<1>7. CASE EnterStepOut
  BY <1>7 DEF EnterStepOut, EnterLaunch, EnterLaunchAt, MayEnter, HostFree
<1>8. CASE EnterStop("stop")
  BY <1>8 DEF EnterStop, Enter, HostFree
<1>9. CASE EnterDestroy
  BY <1>9 DEF EnterDestroy, EnterStop, Enter, HostFree
<1>10. CASE StepEnd
  BY <1>10 DEF StepEnd, Notify
<1>11. CASE JoinTest
  BY <1>11 DEF JoinTest, AfterJoin, Leave, Proceed
<1>12. CASE JoinDone
  BY <1>12 DEF JoinDone, AfterJoin, Leave, Proceed
<1>13. CASE PrepareRun
  BY <1>13 DEF PrepareRun, HaltBeforeRun, Notify, Leave, Proceed
<1>14. CASE PrepareStepOver
  BY <1>14 DEF PrepareStepOver, Proceed
<1>15. CASE PrepareStepOut
  BY <1>15 DEF PrepareStepOut, Proceed
<1>16. CASE ClearStopRequest
  BY <1>16 DEF ClearStopRequest, Proceed
<1>17. CASE MarkRunning
  BY <1>17 DEF MarkRunning, Proceed
<1>18. CASE Spawn
  BY <1>18 DEF Spawn, Leave
<1>19. CASE InputArrives
  BY <1>19 DEF InputArrives
<1>20. CASE LoopTest
  BY <1>20 DEF LoopTest, LoopFrame, WorkerFrame, WorkerAt, Conclude, Advance
<1>21. CASE LoopCheck
  BY <1>21 DEF LoopCheck, LoopFrame, WorkerFrame, WorkerAt, Conclude, Advance
<1>22. CASE LoopExecute
  BY <1>22 DEF LoopExecute, LoopFrame, WorkerFrame, WorkerAt, Conclude, Advance
<1>23. CASE LoopUnwind
  BY <1>23 DEF LoopUnwind, LoopFrame, WorkerFrame, WorkerAt, Conclude, Advance
<1>24. CASE PublishState
  BY <1>24 DEF PublishState, WorkerFrame, WorkerAt, Advance
<1>25. CASE RunCallback
  BY <1>25 DEF RunCallback, WorkerFrame, WorkerAt, Advance
<1>26. CASE Epilogue
  BY <1>26 DEF Epilogue, WorkerFrame, WorkerAt, TargetAfter
<1>27. ASSUME NEW s \in Stoppers, StopperFlags(s) PROVE StepOutTargetOwned'
  BY <1>27 DEF StopperFlags, MoveStopper
<1>28. ASSUME NEW s \in Stoppers, StopperTests(s) PROVE StepOutTargetOwned'
  BY <1>28 DEF StopperTests, MoveStopper
<1>29. ASSUME NEW s \in Stoppers, StopperJoins(s) PROVE StepOutTargetOwned'
  BY <1>29 DEF StopperJoins, MoveStopper
<1>30. CASE UNCHANGED vars
  BY <1>30 DEF vars
<1>31. QED
  BY <1>1, <1>2, <1>3, <1>4, <1>5, <1>6, <1>7, <1>8, <1>9, <1>10, <1>11,
     <1>12, <1>13, <1>14, <1>15, <1>16, <1>17, <1>18, <1>19, <1>20, <1>21,
     <1>22, <1>23, <1>24, <1>25, <1>26, <1>27, <1>28, <1>29, <1>30
     DEF Next, HostBegins, HostContinues, Worker, StopperContinues

\* An armed address outside the user's table belongs to the step-over in progress.
LEMMA ArmedStep ==
  ASSUME TypeOK, ThreadsInv, NoStrayBreakpoint, [Next]_vars
  PROVE  NoStrayBreakpoint'
<1> USE DEF ThreadsInv, HandleInv, RunningHasWorker, CallInv, NoStrayBreakpoint,
            Looping, Leaving, Launches, hostVars, guestVars, bpVars, workerVars
<1>1. CASE StepBegin
  BY <1>1 DEF StepBegin, MayEnter, HostFree
<1>2. CASE Reset
  BY <1>2 DEF Reset, MayEnter, HostFree, Notify
<1>3. CASE SetRegisters
  BY <1>3 DEF SetRegisters, WriteRegisters, MayEnter, HostFree
<1>4. CASE BreakpointCall
  <2>1. breakpoints \in [Addr -> BpSlot]
    BY DEF TypeOK
  <2>2. UNCHANGED <<hostVars, workerVars>>
    BY <1>4 DEF BreakpointCall, ClearBreakpoints, AddBreakpoint, RemoveBreakpoint,
             EnableBreakpoint, SetBreakpointCondition, EditBreakpoints, MayEnter, HostFree
  <2>3. CASE ClearBreakpoints
    BY <2>3 DEF ClearBreakpoints, EditBreakpoints
  <2>4. ASSUME NEW a \in Addr, AddBreakpoint(a) PROVE NoStrayBreakpoint'
    BY <2>1, <2>2, <2>4 DEF AddBreakpoint, EditBreakpoints, BpSlot
  <2>5. ASSUME NEW a \in Addr, RemoveBreakpoint(a) PROVE NoStrayBreakpoint'
    BY <2>1, <2>2, <2>5 DEF RemoveBreakpoint, EditBreakpoints, BpSlot
  <2>6. ASSUME NEW a \in Addr, NEW b \in BOOLEAN, EnableBreakpoint(a, b)
        PROVE  NoStrayBreakpoint'
    BY <2>1, <2>2, <2>6 DEF EnableBreakpoint, EditBreakpoints, BpSlot
  <2>7. ASSUME NEW a \in Addr, NEW b \in BOOLEAN, SetBreakpointCondition(a, b)
        PROVE  NoStrayBreakpoint'
    BY <2>1, <2>2, <2>7 DEF SetBreakpointCondition, EditBreakpoints, BpSlot
  <2>8. QED
    BY <1>4, <2>3, <2>4, <2>5, <2>6, <2>7, SessionAssumption DEF BreakpointCall
<1>5. CASE EnterRun
  BY <1>5 DEF EnterRun, EnterLaunch, EnterLaunchAt, MayEnter, HostFree
<1>6. CASE EnterStepOver
  BY <1>6 DEF EnterStepOver, EnterLaunch, EnterLaunchAt, MayEnter, HostFree
<1>7. CASE EnterStepOut
  BY <1>7 DEF EnterStepOut, EnterLaunch, EnterLaunchAt, MayEnter, HostFree
<1>8. CASE EnterStop("stop")
  BY <1>8 DEF EnterStop, Enter, HostFree
<1>9. CASE EnterDestroy
  BY <1>9 DEF EnterDestroy, EnterStop, Enter, HostFree
<1>10. CASE StepEnd
  BY <1>10 DEF StepEnd, Notify
<1>11. CASE JoinTest
  BY <1>11 DEF JoinTest, AfterJoin, Leave, Proceed
<1>12. CASE JoinDone
  BY <1>12 DEF JoinDone, AfterJoin, Leave, Proceed
<1>13. CASE PrepareRun
  BY <1>13 DEF PrepareRun, HaltBeforeRun, Notify, Leave, Proceed
<1>14. CASE PrepareStepOver
  BY <1>14 DEF PrepareStepOver, Proceed, HadBreakpoint
<1>15. CASE PrepareStepOut
  BY <1>15 DEF PrepareStepOut, Proceed
<1>16. CASE ClearStopRequest
  BY <1>16 DEF ClearStopRequest, Proceed
<1>17. CASE MarkRunning
  BY <1>17 DEF MarkRunning, Proceed
<1>18. CASE Spawn
  BY <1>18 DEF Spawn, Leave
<1>19. CASE InputArrives
  BY <1>19 DEF InputArrives
<1>20. CASE LoopTest
  BY <1>20 DEF LoopTest, LoopFrame, WorkerFrame, WorkerAt, Conclude, Advance
<1>21. CASE LoopCheck
  BY <1>21 DEF LoopCheck, LoopFrame, WorkerFrame, WorkerAt, Conclude, Advance
<1>22. CASE LoopExecute
  BY <1>22 DEF LoopExecute, LoopFrame, WorkerFrame, WorkerAt, Conclude, Advance
<1>23. CASE LoopUnwind
  BY <1>23 DEF LoopUnwind, LoopFrame, WorkerFrame, WorkerAt, Conclude, Advance
<1>24. CASE PublishState
  BY <1>24 DEF PublishState, WorkerFrame, WorkerAt, Advance
<1>25. CASE RunCallback
  BY <1>25 DEF RunCallback, WorkerFrame, WorkerAt, Advance
<1>26. CASE Epilogue
  BY <1>26 DEF Epilogue, WorkerFrame, WorkerAt, ArmedAfter
<1>27. ASSUME NEW s \in Stoppers, StopperFlags(s) PROVE NoStrayBreakpoint'
  BY <1>27 DEF StopperFlags, MoveStopper
<1>28. ASSUME NEW s \in Stoppers, StopperTests(s) PROVE NoStrayBreakpoint'
  BY <1>28 DEF StopperTests, MoveStopper
<1>29. ASSUME NEW s \in Stoppers, StopperJoins(s) PROVE NoStrayBreakpoint'
  BY <1>29 DEF StopperJoins, MoveStopper
<1>30. CASE UNCHANGED vars
  BY <1>30 DEF vars
<1>31. QED
  BY <1>1, <1>2, <1>3, <1>4, <1>5, <1>6, <1>7, <1>8, <1>9, <1>10, <1>11,
     <1>12, <1>13, <1>14, <1>15, <1>16, <1>17, <1>18, <1>19, <1>20, <1>21,
     <1>22, <1>23, <1>24, <1>25, <1>26, <1>27, <1>28, <1>29, <1>30
     DEF Next, HostBegins, HostContinues, Worker, StopperContinues

\* HALTED, published or about to be, is true of the CPU: nobody but the worker
\* moves the CPU while the worker has the news, and a halted CPU stays halted.
LEMMA HaltedStep ==
  ASSUME TypeOK, ThreadsInv, NoticeInv, HaltedIsReal, [Next]_vars
  PROVE  NoticeInv' /\ HaltedIsReal'
<1> USE DEF ThreadsInv, HandleInv, RunningHasWorker, CallInv, NoticeInv, HaltedIsReal,
            Looping, Leaving, Launches, hostVars, guestVars, bpVars, workerVars
<1>1. CASE StepBegin
  BY <1>1 DEF StepBegin, MayEnter, HostFree
<1>2. CASE Reset
  BY <1>2 DEF Reset, MayEnter, HostFree, Notify
<1>3. CASE SetRegisters
  BY <1>3 DEF SetRegisters, WriteRegisters, MayEnter, HostFree
<1>4. CASE BreakpointCall
  BY <1>4 DEF BreakpointCall, ClearBreakpoints, AddBreakpoint, RemoveBreakpoint,
             EnableBreakpoint, SetBreakpointCondition, EditBreakpoints, MayEnter, HostFree
<1>5. CASE EnterRun
  BY <1>5 DEF EnterRun, EnterLaunch, EnterLaunchAt, MayEnter, HostFree
<1>6. CASE EnterStepOver
  BY <1>6 DEF EnterStepOver, EnterLaunch, EnterLaunchAt, MayEnter, HostFree
<1>7. CASE EnterStepOut
  BY <1>7 DEF EnterStepOut, EnterLaunch, EnterLaunchAt, MayEnter, HostFree
<1>8. CASE EnterStop("stop")
  BY <1>8 DEF EnterStop, Enter, HostFree
<1>9. CASE EnterDestroy
  BY <1>9 DEF EnterDestroy, EnterStop, Enter, HostFree
<1>10. CASE StepEnd
  <2>1. cpu.halted => cpu'.halted
    BY <1>10, InstructionType DEF StepEnd
  <2>2. QED
    BY <1>10, <2>1 DEF StepEnd, Notify
<1>11. CASE JoinTest
  BY <1>11 DEF JoinTest, AfterJoin, Leave, Proceed
<1>12. CASE JoinDone
  BY <1>12 DEF JoinDone, AfterJoin, Leave, Proceed
<1>13. CASE PrepareRun
  <2>1. cpu.halted => cpu'.halted
    BY <1>13, InstructionBeforeRunType DEF PrepareRun
  <2>2. QED
    BY <1>13, <2>1 DEF PrepareRun, HaltBeforeRun, Notify, Leave, Proceed
<1>14. CASE PrepareStepOver
  BY <1>14 DEF PrepareStepOver, Proceed
<1>15. CASE PrepareStepOut
  BY <1>15 DEF PrepareStepOut, Proceed
<1>16. CASE ClearStopRequest
  BY <1>16 DEF ClearStopRequest, Proceed
<1>17. CASE MarkRunning
  BY <1>17 DEF MarkRunning, Proceed
<1>18. CASE Spawn
  BY <1>18 DEF Spawn, Leave
<1>19. CASE InputArrives
  BY <1>19 DEF InputArrives
<1>20. CASE LoopTest
  BY <1>20 DEF LoopTest, LoopFrame, WorkerFrame, WorkerAt, Conclude, Advance
<1>21. CASE LoopCheck
  BY <1>21 DEF LoopCheck, LoopFrame, WorkerFrame, WorkerAt, Conclude, Advance
<1>22. CASE LoopExecute
  <2>1. cpu.halted => cpu'.halted
    BY <1>22, InstructionType DEF LoopExecute
  <2>2. QED
    BY <1>22, <2>1 DEF LoopExecute, LoopFrame, WorkerFrame, WorkerAt, Conclude, Advance
<1>23. CASE LoopUnwind
  BY <1>23 DEF LoopUnwind, LoopFrame, WorkerFrame, WorkerAt, Conclude, Advance
<1>24. CASE PublishState
  BY <1>24 DEF PublishState, WorkerFrame, WorkerAt, Advance
<1>25. CASE RunCallback
  BY <1>25 DEF RunCallback, WorkerFrame, WorkerAt, Advance
<1>26. CASE Epilogue
  BY <1>26 DEF Epilogue, WorkerFrame, WorkerAt, NoNotice
<1>27. ASSUME NEW s \in Stoppers, StopperFlags(s) PROVE NoticeInv' /\ HaltedIsReal'
  BY <1>27 DEF StopperFlags, MoveStopper
<1>28. ASSUME NEW s \in Stoppers, StopperTests(s) PROVE NoticeInv' /\ HaltedIsReal'
  BY <1>28 DEF StopperTests, MoveStopper
<1>29. ASSUME NEW s \in Stoppers, StopperJoins(s) PROVE NoticeInv' /\ HaltedIsReal'
  BY <1>29 DEF StopperJoins, MoveStopper
<1>30. CASE UNCHANGED vars
  BY <1>30 DEF vars
<1>31. QED
  BY <1>1, <1>2, <1>3, <1>4, <1>5, <1>6, <1>7, <1>8, <1>9, <1>10, <1>11,
     <1>12, <1>13, <1>14, <1>15, <1>16, <1>17, <1>18, <1>19, <1>20, <1>21,
     <1>22, <1>23, <1>24, <1>25, <1>26, <1>27, <1>28, <1>29, <1>30
     DEF Next, HostBegins, HostContinues, Worker, StopperContinues

\* The inductive invariant holds in every reachable state, whatever the program,
\* the frontend and the stopping threads do.
THEOREM SessionSafe == Spec => []SessionInv
<1>1. Init => SessionInv
  BY InitInv
<1>2. SessionInv /\ [Next]_vars => SessionInv'
  BY ThreadsStep, TypeStep, TargetStep, ArmedStep, HaltedStep DEF SessionInv, ThreadsInv
<1>3. QED
  BY <1>1, <1>2, PTL DEF Spec

\* Every field keeps its type; in particular the shadow stack's depth stays inside
\* Em8Cpu's array and the step-out depth below it.
THEOREM TypeCorrect == Spec => []TypeOK
<1>1. SessionInv => TypeOK
  BY DEF SessionInv
<1>2. QED
  BY <1>1, SessionSafe, PTL

\* emfe_get_state answers RUNNING exactly while a worker is running or being started.
THEOREM StateIsTruthful == Spec => []RunningHasWorker
<1>1. SessionInv => RunningHasWorker
  BY DEF SessionInv
<1>2. QED
  BY <1>1, SessionSafe, PTL

\* No launching call assigns to a std::thread that still owns a thread, however
\* many threads call emfe_stop meanwhile.
THEOREM LaunchIsSafe == Spec => []NeverTerminates
<1>1. SessionInv => NeverTerminates
  BY DEF SessionInv
<1>2. QED
  BY <1>1, SessionSafe, PTL

\* No step-out depth outlives its step-out.
THEOREM StepOutTargetIsOwned == Spec => []StepOutTargetOwned
<1>1. SessionInv => StepOutTargetOwned
  BY DEF SessionInv
<1>2. QED
  BY <1>1, SessionSafe, PTL

\* No temporary breakpoint outlives its step-over.
THEOREM TemporaryBreakpointIsOwned == Spec => []NoStrayBreakpoint
<1>1. SessionInv => NoStrayBreakpoint
  BY DEF SessionInv
<1>2. QED
  BY <1>1, SessionSafe, PTL

\* HALTED is reported only for a halted CPU.
THEOREM HaltedIsTrue == Spec => []HaltedIsReal
<1>1. SessionInv => HaltedIsReal
  BY DEF SessionInv
<1>2. QED
  BY <1>1, SessionSafe, PTL

\* emfe_destroy returns only when no worker can touch the instance.
THEOREM DestroyIsSafe == Spec => []WorkerNeverOutlivesInstance
<1>1. SessionInv => WorkerNeverOutlivesInstance
  BY DEF SessionInv
<1>2. QED
  BY <1>1, SessionSafe, PTL

\* While the worker is in its loop, only the instruction it executes changes the CPU.
LEMMA OneDriverStep ==
  ASSUME SessionInv, [Next]_vars, worker \in Looping, cpu' # cpu
  PROVE  worker = "execute" /\ worker' # worker
<1> USE DEF SessionInv, RunningHasWorker, CallInv, Looping, Launches,
            hostVars, guestVars, bpVars, workerVars
<1>1. CASE HostBegins
  BY <1>1 DEF HostBegins, StepBegin, MayEnter, HostFree, Reset, Notify,
             SetRegisters, WriteRegisters, BreakpointCall, ClearBreakpoints,
             AddBreakpoint, RemoveBreakpoint, EnableBreakpoint,
             SetBreakpointCondition, EditBreakpoints, EnterRun, EnterLaunch,
             EnterLaunchAt, EnterStepOver, EnterStepOut, EnterStop, Enter,
             EnterDestroy
<1>2. CASE HostContinues
  BY <1>2 DEF HostContinues, StepEnd, Notify, JoinTest, AfterJoin, Leave, Proceed,
             JoinDone, PrepareRun, HaltBeforeRun, PrepareStepOver,
             PrepareStepOut, ClearStopRequest, MarkRunning, Spawn
<1>3. CASE Worker
  BY <1>3 DEF Worker, LoopTest, LoopFrame, WorkerFrame, WorkerAt, Conclude,
             Advance, LoopCheck, LoopExecute, LoopUnwind, PublishState,
             RunCallback, Epilogue
<1>4. CASE InputArrives
  BY <1>4 DEF InputArrives
<1>5. ASSUME NEW s \in Stoppers, StopperFlags(s) \/ StopperContinues(s)
      PROVE  worker = "execute" /\ worker' # worker
  BY <1>5 DEF StopperFlags, StopperContinues, StopperTests, StopperJoins, MoveStopper
<1>6. CASE UNCHANGED vars
  BY <1>6 DEF vars
<1>7. QED
  BY <1>1, <1>2, <1>3, <1>4, <1>5, <1>6 DEF Next

\* A register is written by one thread at a time, for every interleaving.
THEOREM CpuHasOneDriver == Spec => OneDriver
<1>1. SessionInv /\ [Next]_vars
        => [(worker \in Looping /\ cpu' # cpu) => (worker = "execute" /\ worker' # worker)]_vars
  BY OneDriverStep
<1>2. QED
  BY <1>1, SessionSafe, PTL DEF Spec, OneDriver

\* The call that leaves its join finds the worker gone and the state at rest.
LEMMA StopMeansStoppedStep ==
  ASSUME SessionInv, [Next]_vars, ui \in {"join", "joining"}, ui' \notin {"join", "joining"},
         fault' = "none"
  PROVE  state' # "RUNNING" /\ worker' \in {"none"}
<1> USE DEF SessionInv, HandleInv, RunningHasWorker, CallInv, JoinInv, Joining, Looping, Launches,
            hostVars, guestVars, bpVars, workerVars
<1>1. CASE HostBegins
  BY <1>1 DEF HostBegins, StepBegin, MayEnter, HostFree, Reset, Notify,
             SetRegisters, WriteRegisters, BreakpointCall, ClearBreakpoints,
             AddBreakpoint, RemoveBreakpoint, EnableBreakpoint,
             SetBreakpointCondition, EditBreakpoints, EnterRun, EnterLaunch,
             EnterLaunchAt, EnterStepOver, EnterStepOut, EnterStop, Enter,
             EnterDestroy
<1>2. CASE HostContinues
  BY <1>2 DEF HostContinues, StepEnd, Notify, JoinTest, AfterJoin, Leave, Proceed,
             JoinDone, PrepareRun, HaltBeforeRun, PrepareStepOver,
             PrepareStepOut, ClearStopRequest, MarkRunning, Spawn
<1>3. CASE Worker
  BY <1>3 DEF Worker, LoopTest, LoopFrame, WorkerFrame, WorkerAt, Conclude,
             Advance, LoopCheck, LoopExecute, LoopUnwind, PublishState,
             RunCallback, Epilogue
<1>4. CASE InputArrives
  BY <1>4 DEF InputArrives
<1>5. ASSUME NEW s \in Stoppers, StopperFlags(s) \/ StopperContinues(s)
      PROVE  state' # "RUNNING" /\ worker' \in {"none"}
  BY <1>5 DEF StopperFlags, StopperContinues, StopperTests, StopperJoins, MoveStopper
<1>6. CASE UNCHANGED vars
  BY <1>6 DEF vars
<1>7. QED
  BY <1>1, <1>2, <1>3, <1>4, <1>5, <1>6 DEF Next

\* emfe_stop on the UI thread returns only when the machine has stopped.
THEOREM StopIsFinal == Spec => StopMeansStopped
<1>1. SessionInv /\ [Next]_vars
        => [(ui \in {"join", "joining"} /\ ui' \notin {"join", "joining"} /\ fault' = "none")
              => (state' # "RUNNING" /\ worker' \in {"none"})]_vars
  BY StopMeansStoppedStep
<1>2. QED
  BY <1>1, SessionSafe, PTL DEF Spec, StopMeansStopped

\* Every step of the session is a step of the lifecycle or leaves it alone.  The
\* well-formed CPU after the step comes from TypeStep.
LEMMA LifecycleStep ==
  ASSUME SessionInv, [Next]_vars
  PROVE  [L!Next]_(L!lifeVars)
<1>0. cpu' \in Cpu
  BY TypeStep DEF SessionInv, ThreadsInv, TypeOK
<1> USE <1>0 DEF SessionInv, TypeOK, States, RunningHasWorker, CallInv, Resting, Looping,
            Launches, Notice, hostVars, guestVars, bpVars, workerVars,
            L!Next, L!lifeVars, L!Resting, Driver
<1>1. CASE StepBegin
  BY <1>1 DEF StepBegin, MayEnter, HostFree, L!HostBorrows, L!AtRest
<1>2. CASE Reset
  BY <1>2 DEF Reset, MayEnter, HostFree, Notify, L!HostEdits, L!AtRest
<1>3. CASE SetRegisters
  BY <1>3 DEF SetRegisters, WriteRegisters, MayEnter, HostFree, L!HostEdits, L!AtRest
<1>4. CASE BreakpointCall
  BY <1>4 DEF BreakpointCall, ClearBreakpoints, AddBreakpoint, RemoveBreakpoint,
             EnableBreakpoint, SetBreakpointCondition, EditBreakpoints, MayEnter, HostFree
<1>5. CASE EnterRun
  BY <1>5 DEF EnterRun, EnterLaunch, EnterLaunchAt, MayEnter, HostFree
<1>6. CASE EnterStepOver
  BY <1>6 DEF EnterStepOver, EnterLaunch, EnterLaunchAt, MayEnter, HostFree
<1>7. CASE EnterStepOut
  BY <1>7 DEF EnterStepOut, EnterLaunch, EnterLaunchAt, MayEnter, HostFree
<1>8. CASE EnterStop("stop")
  BY <1>8 DEF EnterStop, Enter, HostFree
<1>9. CASE EnterDestroy
  BY <1>9 DEF EnterDestroy, EnterStop, Enter, HostFree
<1>10. CASE StepEnd
  BY <1>10 DEF StepEnd, Notify, L!HostReturns
<1>11. CASE JoinTest
  BY <1>11 DEF JoinTest, AfterJoin, Leave, Proceed
<1>12. CASE JoinDone
  BY <1>12 DEF JoinDone, AfterJoin, Leave, Proceed
<1>13. CASE PrepareRun
  BY <1>13 DEF PrepareRun, HaltBeforeRun, Notify, Leave, Proceed, L!HostEdits, L!AtRest
<1>14. CASE PrepareStepOver
  BY <1>14 DEF PrepareStepOver, Proceed
<1>15. CASE PrepareStepOut
  BY <1>15 DEF PrepareStepOut, Proceed
<1>16. CASE ClearStopRequest
  BY <1>16 DEF ClearStopRequest, Proceed
<1>17. CASE MarkRunning
  BY <1>17 DEF MarkRunning, Proceed, L!Launch, L!AtRest
<1>18. CASE Spawn
  BY <1>18 DEF Spawn, Leave, L!WorkerTakes
<1>19. CASE InputArrives
  BY <1>19 DEF InputArrives
<1>20. CASE LoopTest
  BY <1>20 DEF LoopTest, LoopFrame, WorkerFrame, WorkerAt, Conclude, Advance, L!WorkerRuns
<1>21. CASE LoopCheck
  BY <1>21 DEF LoopCheck, LoopFrame, WorkerFrame, WorkerAt, Conclude, Advance, L!WorkerRuns
<1>22. CASE LoopExecute
  BY <1>22 DEF LoopExecute, LoopFrame, WorkerFrame, WorkerAt, Conclude, Advance, L!WorkerRuns
<1>23. CASE LoopUnwind
  BY <1>23 DEF LoopUnwind, LoopFrame, WorkerFrame, WorkerAt, Conclude, Advance, L!WorkerRuns
<1>24. CASE PublishState
  BY <1>24 DEF PublishState, WorkerFrame, WorkerAt, Advance, L!WorkerReports
<1>25. CASE RunCallback
  BY <1>25 DEF RunCallback, WorkerFrame, WorkerAt, Advance
<1>26. CASE Epilogue
  BY <1>26 DEF Epilogue, WorkerFrame, WorkerAt
<1>27. ASSUME NEW s \in Stoppers, StopperFlags(s) PROVE [L!Next]_(L!lifeVars)
  BY <1>27 DEF StopperFlags, MoveStopper
<1>28. ASSUME NEW s \in Stoppers, StopperTests(s) PROVE [L!Next]_(L!lifeVars)
  BY <1>28 DEF StopperTests, MoveStopper
<1>29. ASSUME NEW s \in Stoppers, StopperJoins(s) PROVE [L!Next]_(L!lifeVars)
  BY <1>29 DEF StopperJoins, MoveStopper
<1>30. CASE UNCHANGED vars
  BY <1>30 DEF vars
<1>31. QED
  BY <1>1, <1>2, <1>3, <1>4, <1>5, <1>6, <1>7, <1>8, <1>9, <1>10, <1>11,
     <1>12, <1>13, <1>14, <1>15, <1>16, <1>17, <1>18, <1>19, <1>20, <1>21,
     <1>22, <1>23, <1>24, <1>25, <1>26, <1>27, <1>28, <1>29, <1>30
     DEF Next, HostBegins, HostContinues, Worker, StopperContinues

\* The session implements the lifecycle the API promises.
THEOREM ImplementsLifecycle == Spec => Lifecycle
<1>1. Init => L!Init
  BY GuestAssumption DEF Init, L!Init, Driver, Looping, ResetCpu, Cpu
<1>2. SessionInv /\ [Next]_vars => [L!Next]_(L!lifeVars)
  BY LifecycleStep
<1>3. QED
  BY <1>1, <1>2, SessionSafe, PTL DEF Spec, Lifecycle, L!Spec
-----------------------------------------------------------------------------
(***************************************************************************)
(* What a patient frontend can rely on: one that waits for the callback of *)
(* a run, or for emfe_stop to return, before its next call.                *)
(***************************************************************************)
\* What the callback told and what emfe_get_state answers agree as soon as no
\* call and no worker is between its store and its callback.
SeenInv ==
  /\ fault = "none" /\ ui \notin {"stepping", "spawn"} /\ worker \in {"none", "epilogue", "exited"}
       => seen = state
  /\ worker = "callback" => notice.state = state
  /\ ui = "stepping" => worker \in {"none", "epilogue", "exited"}

\* A frontend that waits changes nothing between the worker's store and its callback.
LEMMA SeenStep ==
  ASSUME HostWaits \in {"event", "stop"}, TypeOK, ThreadsInv, SeenInv, [Next]_vars
  PROVE  SeenInv'
<1> USE DEF ThreadsInv, HandleInv, RunningHasWorker, CallInv, SeenInv,
            Looping, Leaving, Launches, hostVars, guestVars, bpVars, workerVars
<1>1. CASE StepBegin
  BY <1>1 DEF StepBegin, MayEnter, HostFree, HostReady, TypeOK
<1>2. CASE Reset
  BY <1>2 DEF Reset, MayEnter, HostFree, HostReady, Notify
<1>3. CASE SetRegisters
  BY <1>3 DEF SetRegisters, WriteRegisters, MayEnter, HostFree, HostReady
<1>4. CASE BreakpointCall
  BY <1>4 DEF BreakpointCall, ClearBreakpoints, AddBreakpoint, RemoveBreakpoint,
             EnableBreakpoint, SetBreakpointCondition, EditBreakpoints, MayEnter, HostFree, HostReady
<1>5. CASE EnterRun
  BY <1>5 DEF EnterRun, EnterLaunch, EnterLaunchAt, MayEnter, HostFree, HostReady
<1>6. CASE EnterStepOver
  BY <1>6 DEF EnterStepOver, EnterLaunch, EnterLaunchAt, MayEnter, HostFree, HostReady
<1>7. CASE EnterStepOut
  BY <1>7 DEF EnterStepOut, EnterLaunch, EnterLaunchAt, MayEnter, HostFree, HostReady
<1>8. CASE EnterStop("stop")
  BY <1>8 DEF EnterStop, Enter, HostFree
<1>9. CASE EnterDestroy
  BY <1>9 DEF EnterDestroy, EnterStop, Enter, HostFree
<1>10. CASE StepEnd
  BY <1>10 DEF StepEnd, Notify
<1>11. CASE JoinTest
  BY <1>11 DEF JoinTest, AfterJoin, Leave, Proceed
<1>12. CASE JoinDone
  BY <1>12 DEF JoinDone, AfterJoin, Leave, Proceed
<1>13. CASE PrepareRun
  BY <1>13 DEF PrepareRun, HaltBeforeRun, Notify, Leave, Proceed
<1>14. CASE PrepareStepOver
  BY <1>14 DEF PrepareStepOver, Proceed
<1>15. CASE PrepareStepOut
  BY <1>15 DEF PrepareStepOut, Proceed
<1>16. CASE ClearStopRequest
  BY <1>16 DEF ClearStopRequest, Proceed
<1>17. CASE MarkRunning
  BY <1>17 DEF MarkRunning, Proceed
<1>18. CASE Spawn
  BY <1>18 DEF Spawn, Leave
<1>19. CASE InputArrives
  BY <1>19 DEF InputArrives
<1>20. CASE LoopTest
  BY <1>20 DEF LoopTest, LoopFrame, WorkerFrame, WorkerAt, Conclude, Advance
<1>21. CASE LoopCheck
  BY <1>21 DEF LoopCheck, LoopFrame, WorkerFrame, WorkerAt, Conclude, Advance
<1>22. CASE LoopExecute
  BY <1>22 DEF LoopExecute, LoopFrame, WorkerFrame, WorkerAt, Conclude, Advance
<1>23. CASE LoopUnwind
  BY <1>23 DEF LoopUnwind, LoopFrame, WorkerFrame, WorkerAt, Conclude, Advance
<1>24. CASE PublishState
  BY <1>24 DEF PublishState, WorkerFrame, WorkerAt, Advance
<1>25. CASE RunCallback
  BY <1>25 DEF RunCallback, WorkerFrame, WorkerAt, Advance
<1>26. CASE Epilogue
  BY <1>26 DEF Epilogue, WorkerFrame, WorkerAt
<1>27. ASSUME NEW s \in Stoppers, StopperFlags(s) PROVE SeenInv'
  BY <1>27 DEF StopperFlags, MoveStopper
<1>28. ASSUME NEW s \in Stoppers, StopperTests(s) PROVE SeenInv'
  BY <1>28 DEF StopperTests, MoveStopper
<1>29. ASSUME NEW s \in Stoppers, StopperJoins(s) PROVE SeenInv'
  BY <1>29 DEF StopperJoins, MoveStopper
<1>30. CASE UNCHANGED vars
  BY <1>30 DEF vars
<1>31. QED
  BY <1>1, <1>2, <1>3, <1>4, <1>5, <1>6, <1>7, <1>8, <1>9, <1>10, <1>11,
     <1>12, <1>13, <1>14, <1>15, <1>16, <1>17, <1>18, <1>19, <1>20, <1>21,
     <1>22, <1>23, <1>24, <1>25, <1>26, <1>27, <1>28, <1>29, <1>30
     DEF Next, HostBegins, HostContinues, Worker, StopperContinues

\* For a frontend that waits for the callback, or stops every run, the last
\* callback reported the state the plugin is in whenever no call is in progress.
THEOREM CallbackIsTruthful ==
  ASSUME HostWaits \in {"event", "stop"}
  PROVE  Spec => []LastCallbackIsState
<1>1. Init => SeenInv
  BY DEF Init, SeenInv
<1>2. SessionInv /\ SeenInv /\ [Next]_vars => SeenInv'
  BY SeenStep DEF SessionInv, ThreadsInv
<1>3. SeenInv => LastCallbackIsState
  BY DEF SeenInv, LastCallbackIsState
<1>4. QED
  BY <1>1, <1>2, <1>3, SessionSafe, PTL DEF Spec

\* The temporary breakpoint of a step-over stands where the user's table has
\* no enabled breakpoint.
TemporaryIsNotUsers ==
  /\ \/ call = "over" /\ ui \in {"clear", "mark", "spawn"}
     \/ job = "over" /\ worker \in Looping \cup Leaving
  /\ ~over.hadBP
  => ~(breakpoints[over.nextPC].present /\ breakpoints[over.nextPC].enabled)

\* A frontend that edits only when the worker has been joined never edits while a
\* step-over has still to remove its breakpoint.
LEMMA UsersBreakpointsStep ==
  ASSUME HostWaits = "stop", TypeOK, ThreadsInv, UserBreakpointsArmed, TemporaryIsNotUsers,
         [Next]_vars
  PROVE  UserBreakpointsArmed' /\ TemporaryIsNotUsers'
<1> USE DEF ThreadsInv, HandleInv, RunningHasWorker, CallInv, UserBreakpointsArmed, TemporaryIsNotUsers,
            Looping, Leaving, Launches, hostVars, guestVars, bpVars, workerVars
<1>1. CASE StepBegin
  BY <1>1 DEF StepBegin, MayEnter, HostFree, HostReady
<1>2. CASE Reset
  BY <1>2 DEF Reset, MayEnter, HostFree, HostReady, Notify
<1>3. CASE SetRegisters
  BY <1>3 DEF SetRegisters, WriteRegisters, MayEnter, HostFree, HostReady
<1>4. CASE BreakpointCall
  <2>1. ui = "idle" /\ call = "none" /\ worker = "none" /\ UNCHANGED <<ui, call, worker, job, over>>
    BY <1>4 DEF BreakpointCall, ClearBreakpoints, AddBreakpoint, RemoveBreakpoint,
             EnableBreakpoint, SetBreakpointCondition, EditBreakpoints, MayEnter, HostFree, HostReady
  <2>2. TemporaryIsNotUsers'
    BY <2>1
  <2>3. UserBreakpointsArmed'
    <3> SUFFICES ASSUME NEW b \in Addr, (breakpoints[b].present /\ breakpoints[b].enabled)'
                 PROVE  b \in enabledBreakpoints'
      OBVIOUS
    <3>1. CASE ClearBreakpoints
      BY <3>1 DEF ClearBreakpoints, EditBreakpoints, NoBreakpoint
    <3>2. ASSUME NEW a \in Addr, AddBreakpoint(a) PROVE b \in enabledBreakpoints'
      BY <3>2 DEF AddBreakpoint, EditBreakpoints, TypeOK
    <3>3. ASSUME NEW a \in Addr, RemoveBreakpoint(a) PROVE b \in enabledBreakpoints'
      BY <3>3 DEF RemoveBreakpoint, EditBreakpoints, NoBreakpoint, TypeOK
    <3>4. ASSUME NEW a \in Addr, NEW on \in BOOLEAN, EnableBreakpoint(a, on)
          PROVE  b \in enabledBreakpoints'
      BY <3>4 DEF EnableBreakpoint, EditBreakpoints, TypeOK, BpSlot
    <3>5. ASSUME NEW a \in Addr, NEW has \in BOOLEAN, SetBreakpointCondition(a, has)
          PROVE  b \in enabledBreakpoints'
      BY <3>5 DEF SetBreakpointCondition, EditBreakpoints, TypeOK, BpSlot
    <3>6. QED
      BY <1>4, <3>1, <3>2, <3>3, <3>4, <3>5, SessionAssumption DEF BreakpointCall
  <2>4. QED
    BY <2>2, <2>3
<1>5. CASE EnterRun
  BY <1>5 DEF EnterRun, EnterLaunch, EnterLaunchAt, MayEnter, HostFree, HostReady
<1>6. CASE EnterStepOver
  BY <1>6 DEF EnterStepOver, EnterLaunch, EnterLaunchAt, MayEnter, HostFree, HostReady
<1>7. CASE EnterStepOut
  BY <1>7 DEF EnterStepOut, EnterLaunch, EnterLaunchAt, MayEnter, HostFree, HostReady
<1>8. CASE EnterStop("stop")
  BY <1>8 DEF EnterStop, Enter, HostFree
<1>9. CASE EnterDestroy
  BY <1>9 DEF EnterDestroy, EnterStop, Enter, HostFree
<1>10. CASE StepEnd
  BY <1>10 DEF StepEnd, Notify
<1>11. CASE JoinTest
  <2>1. AfterJoin => ui' \in {"idle", "gone", "prepare"} /\ call' \in {"none", call}
    BY <1>11 DEF JoinTest, AfterJoin, Leave, Proceed, TypeOK
  <2>2. ui' \notin {"clear", "mark", "spawn"}
    BY <1>11, <2>1 DEF JoinTest, Proceed
  <2>3. QED
    BY <1>11, <2>2 DEF JoinTest
<1>12. CASE JoinDone
  <2>1. ui' \notin {"clear", "mark", "spawn"} /\ worker' = "none"
    BY <1>12 DEF JoinDone, AfterJoin, Leave, Proceed, TypeOK
  <2>2. QED
    BY <1>12, <2>1 DEF JoinDone
<1>13. CASE PrepareRun
  BY <1>13 DEF PrepareRun, HaltBeforeRun, Notify, Leave, Proceed
<1>14. CASE PrepareStepOver
  <2>1. FallThrough(cpu.pc) \in Addr
    BY FallThroughType DEF TypeOK, Cpu
  <2>2. QED
    BY <1>14, <2>1 DEF PrepareStepOver, Proceed, HadBreakpoint
<1>15. CASE PrepareStepOut
  BY <1>15 DEF PrepareStepOut, Proceed
<1>16. CASE ClearStopRequest
  BY <1>16 DEF ClearStopRequest, Proceed
<1>17. CASE MarkRunning
  BY <1>17 DEF MarkRunning, Proceed
<1>18. CASE Spawn
  BY <1>18 DEF Spawn, Leave
<1>19. CASE InputArrives
  BY <1>19 DEF InputArrives
<1>20. CASE LoopTest
  BY <1>20 DEF LoopTest, LoopFrame, WorkerFrame, WorkerAt, Conclude, Advance
<1>21. CASE LoopCheck
  BY <1>21 DEF LoopCheck, LoopFrame, WorkerFrame, WorkerAt, Conclude, Advance
<1>22. CASE LoopExecute
  BY <1>22 DEF LoopExecute, LoopFrame, WorkerFrame, WorkerAt, Conclude, Advance
<1>23. CASE LoopUnwind
  BY <1>23 DEF LoopUnwind, LoopFrame, WorkerFrame, WorkerAt, Conclude, Advance
<1>24. CASE PublishState
  BY <1>24 DEF PublishState, WorkerFrame, WorkerAt, Advance
<1>25. CASE RunCallback
  BY <1>25 DEF RunCallback, WorkerFrame, WorkerAt, Advance
<1>26. CASE Epilogue
  BY <1>26 DEF Epilogue, WorkerFrame, WorkerAt, ArmedAfter
<1>27. ASSUME NEW s \in Stoppers, StopperFlags(s) PROVE UserBreakpointsArmed' /\ TemporaryIsNotUsers'
  BY <1>27 DEF StopperFlags, MoveStopper
<1>28. ASSUME NEW s \in Stoppers, StopperTests(s) PROVE UserBreakpointsArmed' /\ TemporaryIsNotUsers'
  BY <1>28 DEF StopperTests, MoveStopper
<1>29. ASSUME NEW s \in Stoppers, StopperJoins(s) PROVE UserBreakpointsArmed' /\ TemporaryIsNotUsers'
  BY <1>29 DEF StopperJoins, MoveStopper
<1>30. CASE UNCHANGED vars
  BY <1>30 DEF vars
<1>31. QED
  BY <1>1, <1>2, <1>3, <1>4, <1>5, <1>6, <1>7, <1>8, <1>9, <1>10, <1>11,
     <1>12, <1>13, <1>14, <1>15, <1>16, <1>17, <1>18, <1>19, <1>20, <1>21,
     <1>22, <1>23, <1>24, <1>25, <1>26, <1>27, <1>28, <1>29, <1>30
     DEF Next, HostBegins, HostContinues, Worker, StopperContinues

\* An instruction is about to execute only where the loop's own test lets it.
TestedInv == worker = "execute" => ~StopsAt(cpu.pc)

\* The loop's test stays true until the instruction executes: while the worker is
\* in its loop the plugin is RUNNING and no call changes the CPU or a breakpoint.
LEMMA TestedStep ==
  ASSUME ThreadsInv, TestedInv, [Next]_vars
  PROVE  TestedInv'
<1> USE DEF ThreadsInv, HandleInv, RunningHasWorker, CallInv, TestedInv, StopsAt,
            Looping, Leaving, Launches, hostVars, guestVars, bpVars, workerVars
<1>1. CASE StepBegin
  BY <1>1 DEF StepBegin, MayEnter, HostFree, HostReady
<1>2. CASE Reset
  BY <1>2 DEF Reset, MayEnter, HostFree, HostReady, Notify
<1>3. CASE SetRegisters
  BY <1>3 DEF SetRegisters, WriteRegisters, MayEnter, HostFree, HostReady
<1>4. CASE BreakpointCall
  BY <1>4 DEF BreakpointCall, ClearBreakpoints, AddBreakpoint, RemoveBreakpoint,
             EnableBreakpoint, SetBreakpointCondition, EditBreakpoints, MayEnter, HostFree, HostReady
<1>5. CASE EnterRun
  BY <1>5 DEF EnterRun, EnterLaunch, EnterLaunchAt, MayEnter, HostFree, HostReady
<1>6. CASE EnterStepOver
  BY <1>6 DEF EnterStepOver, EnterLaunch, EnterLaunchAt, MayEnter, HostFree, HostReady
<1>7. CASE EnterStepOut
  BY <1>7 DEF EnterStepOut, EnterLaunch, EnterLaunchAt, MayEnter, HostFree, HostReady
<1>8. CASE EnterStop("stop")
  BY <1>8 DEF EnterStop, Enter, HostFree
<1>9. CASE EnterDestroy
  BY <1>9 DEF EnterDestroy, EnterStop, Enter, HostFree
<1>10. CASE StepEnd
  BY <1>10 DEF StepEnd, Notify
<1>11. CASE JoinTest
  BY <1>11 DEF JoinTest, AfterJoin, Leave, Proceed
<1>12. CASE JoinDone
  BY <1>12 DEF JoinDone, AfterJoin, Leave, Proceed
<1>13. CASE PrepareRun
  BY <1>13 DEF PrepareRun, HaltBeforeRun, Notify, Leave, Proceed
<1>14. CASE PrepareStepOver
  BY <1>14 DEF PrepareStepOver, Proceed
<1>15. CASE PrepareStepOut
  BY <1>15 DEF PrepareStepOut, Proceed
<1>16. CASE ClearStopRequest
  BY <1>16 DEF ClearStopRequest, Proceed
<1>17. CASE MarkRunning
  BY <1>17 DEF MarkRunning, Proceed
<1>18. CASE Spawn
  BY <1>18 DEF Spawn, Leave
<1>19. CASE InputArrives
  BY <1>19 DEF InputArrives
<1>20. CASE LoopTest
  BY <1>20 DEF LoopTest, LoopFrame, WorkerFrame, WorkerAt, Conclude, Advance
<1>21. CASE LoopCheck
  BY <1>21 DEF LoopCheck, LoopFrame, WorkerFrame, WorkerAt, Conclude, Advance
<1>22. CASE LoopExecute
  BY <1>22 DEF LoopExecute, LoopFrame, WorkerFrame, WorkerAt, Conclude, Advance
<1>23. CASE LoopUnwind
  BY <1>23 DEF LoopUnwind, LoopFrame, WorkerFrame, WorkerAt, Conclude, Advance
<1>24. CASE PublishState
  BY <1>24 DEF PublishState, WorkerFrame, WorkerAt, Advance
<1>25. CASE RunCallback
  BY <1>25 DEF RunCallback, WorkerFrame, WorkerAt, Advance
<1>26. CASE Epilogue
  BY <1>26 DEF Epilogue, WorkerFrame, WorkerAt
<1>27. ASSUME NEW s \in Stoppers, StopperFlags(s) PROVE TestedInv'
  BY <1>27 DEF StopperFlags, MoveStopper
<1>28. ASSUME NEW s \in Stoppers, StopperTests(s) PROVE TestedInv'
  BY <1>28 DEF StopperTests, MoveStopper
<1>29. ASSUME NEW s \in Stoppers, StopperJoins(s) PROVE TestedInv'
  BY <1>29 DEF StopperJoins, MoveStopper
<1>30. CASE UNCHANGED vars
  BY <1>30 DEF vars
<1>31. QED
  BY <1>1, <1>2, <1>3, <1>4, <1>5, <1>6, <1>7, <1>8, <1>9, <1>10, <1>11,
     <1>12, <1>13, <1>14, <1>15, <1>16, <1>17, <1>18, <1>19, <1>20, <1>21,
     <1>22, <1>23, <1>24, <1>25, <1>26, <1>27, <1>28, <1>29, <1>30
     DEF Next, HostBegins, HostContinues, Worker, StopperContinues

\* What a frontend that stops every run before its next call can rely on.
LEMMA PatientSafe ==
  ASSUME HostWaits = "stop"
  PROVE  Spec => [](UserBreakpointsArmed /\ TemporaryIsNotUsers /\ TestedInv)
<1> DEFINE Inv == UserBreakpointsArmed /\ TemporaryIsNotUsers /\ TestedInv
<1>1. Init => Inv
  BY DEF Init, UserBreakpointsArmed, TemporaryIsNotUsers, TestedInv, NoBreakpoint, Looping, Leaving
<1>2. SessionInv /\ Inv /\ [Next]_vars => Inv'
  BY UsersBreakpointsStep, TestedStep DEF SessionInv, ThreadsInv
<1>3. QED
  BY <1>1, <1>2, SessionSafe, PTL DEF Spec

\* For a frontend that stops every run before it edits, every breakpoint that
\* emfe_get_breakpoints shows as enabled is armed.
THEOREM UsersBreakpointsAreArmed ==
  ASSUME HostWaits = "stop"
  PROVE  Spec => []UserBreakpointsArmed
BY PatientSafe, PTL

\* For the same frontend no worker executes the instruction at an enabled
\* breakpoint without a condition.
THEOREM BreakpointsAreHonoured ==
  ASSUME HostWaits = "stop"
  PROVE  Spec => []BreakpointHonoured
<1>1. SessionInv /\ UserBreakpointsArmed /\ TestedInv => BreakpointHonoured
  BY DEF SessionInv, TypeOK, Cpu, UserBreakpointsArmed, TestedInv, StopsAt, BreakpointHonoured
<1>2. QED
  BY <1>1, PatientSafe, SessionSafe, PTL

-----------------------------------------------------------------------------
(***************************************************************************)
(* What the debugger's call stack and step-out show of a structured guest. *)
(***************************************************************************)
\* One instruction of the loop or of emfe_step keeps the two stacks in step, and
\* moves the shadow stack by at most one entry.
LEMMA StructuredInstruction ==
  ASSUME TypeOK, ShadowFaithful, StructuredGuest, StructuredGuest', Instruction
  PROVE  /\ ShadowFaithful'
         /\ \E d : d.shadow = cpu'.shadow /\ cpu'.pc \in {d.pc, IrqPC} /\ ShadowMoves(cpu, d)
<1>1. cpu \in BoundedCpu
  BY DEF TypeOK, BoundedCpu
<1>2. PICK c \in ExecuteOne(cpu), irq \in DeviceAfter :
        devIrq' = irq /\ cpu' = CheckInterrupts([c EXCEPT !.irqLine = irq])
  BY DEF Instruction
<1>3. irq \in BOOLEAN
  BY SessionAssumption DEF DeviceAfter, TypeOK
<1>4. c \in BoundedCpu
  BY <1>1, ExecuteOneType
<1>5. ListsCalls(c.shadow, c.stack) /\ ShadowMoves(cpu, c)
  BY <1>1, StructuredExecute DEF ShadowFaithful, StructuredGuest
<1> DEFINE d == [c EXCEPT !.irqLine = irq]
<1>6. d \in BoundedCpu /\ d.stack = c.stack /\ d.shadow = c.shadow /\ d.pc = c.pc
  BY <1>3, <1>4 DEF BoundedCpu, Cpu
<1>7. cpu' = CheckInterrupts(d)
  BY <1>2
<1> HIDE DEF d
<1>8. Len(CheckInterrupts(d).stack) < StackSlots
  BY <1>7 DEF StructuredGuest, Structured
<1>9. /\ ListsCalls(CheckInterrupts(d).shadow, CheckInterrupts(d).stack)
      /\ CheckInterrupts(d).shadow = d.shadow
      /\ CheckInterrupts(d).pc \in {d.pc, IrqPC}
  BY <1>5, <1>6, <1>8, StructuredInterrupt
<1>10. QED
  BY <1>5, <1>6, <1>7, <1>9 DEF ShadowFaithful

\* The same for the instruction emfe_run executes by itself.
LEMMA StructuredInstructionBeforeRun ==
  ASSUME TypeOK, ShadowFaithful, StructuredGuest, StructuredGuest', InstructionBeforeRun
  PROVE  ShadowFaithful'
<1>1. cpu \in BoundedCpu
  BY DEF TypeOK, BoundedCpu
<1>2. PICK c \in ExecuteOne(cpu) : cpu' = CheckInterrupts(c)
  BY DEF InstructionBeforeRun
<1>3. c \in BoundedCpu /\ ListsCalls(c.shadow, c.stack)
  BY <1>1, ExecuteOneType, StructuredExecute DEF ShadowFaithful, StructuredGuest
<1>4. Len(CheckInterrupts(c).stack) < StackSlots
  BY <1>2 DEF StructuredGuest, Structured
<1>5. QED
  BY <1>2, <1>3, <1>4, StructuredInterrupt DEF ShadowFaithful

\* Nothing but an instruction and a reset touches either stack.
LEMMA ShadowStep ==
  ASSUME TypeOK, ThreadsInv, ShadowFaithful, StructuredGuest, StructuredGuest', [Next]_vars
  PROVE  ShadowFaithful'
<1> USE DEF ShadowFaithful, hostVars, guestVars, bpVars, workerVars
<1>1. CASE StepBegin
  BY <1>1 DEF StepBegin, MayEnter, HostFree, HostReady
<1>2. CASE Reset
  <2>1. cpu'.shadow = <<>> /\ cpu'.stack = <<>>
    BY <1>2 DEF Reset, ResetCpu
  <2>2. QED
    BY <2>1, ListsNothing
<1>3. CASE SetRegisters
  <2>1. cpu'.shadow = cpu.shadow /\ cpu'.stack = cpu.stack
    BY <1>3 DEF SetRegisters, WriteRegisters, TypeOK, Cpu
  <2>2. QED
    BY <2>1
<1>4. CASE BreakpointCall
  BY <1>4 DEF BreakpointCall, ClearBreakpoints, AddBreakpoint, RemoveBreakpoint,
             EnableBreakpoint, SetBreakpointCondition, EditBreakpoints, MayEnter, HostFree, HostReady
<1>5. CASE EnterRun
  BY <1>5 DEF EnterRun, EnterLaunch, EnterLaunchAt, MayEnter, HostFree, HostReady
<1>6. CASE EnterStepOver
  BY <1>6 DEF EnterStepOver, EnterLaunch, EnterLaunchAt, MayEnter, HostFree, HostReady
<1>7. CASE EnterStepOut
  BY <1>7 DEF EnterStepOut, EnterLaunch, EnterLaunchAt, MayEnter, HostFree, HostReady
<1>8. CASE EnterStop("stop")
  BY <1>8 DEF EnterStop, Enter, HostFree
<1>9. CASE EnterDestroy
  BY <1>9 DEF EnterDestroy, EnterStop, Enter, HostFree
<1>10. CASE StepEnd
  BY <1>10, StructuredInstruction DEF StepEnd
<1>11. CASE JoinTest
  BY <1>11 DEF JoinTest, AfterJoin, Leave, Proceed
<1>12. CASE JoinDone
  BY <1>12 DEF JoinDone, AfterJoin, Leave, Proceed
<1>13. CASE PrepareRun
  BY <1>13, StructuredInstructionBeforeRun DEF PrepareRun
<1>14. CASE PrepareStepOver
  BY <1>14 DEF PrepareStepOver, Proceed
<1>15. CASE PrepareStepOut
  BY <1>15 DEF PrepareStepOut, Proceed
<1>16. CASE ClearStopRequest
  BY <1>16 DEF ClearStopRequest, Proceed
<1>17. CASE MarkRunning
  BY <1>17 DEF MarkRunning, Proceed
<1>18. CASE Spawn
  BY <1>18 DEF Spawn, Leave
<1>19. CASE InputArrives
  BY <1>19 DEF InputArrives
<1>20. CASE LoopTest
  BY <1>20 DEF LoopTest, LoopFrame, WorkerFrame, WorkerAt, Conclude, Advance
<1>21. CASE LoopCheck
  BY <1>21 DEF LoopCheck, LoopFrame, WorkerFrame, WorkerAt, Conclude, Advance
<1>22. CASE LoopExecute
  BY <1>22, StructuredInstruction DEF LoopExecute
<1>23. CASE LoopUnwind
  BY <1>23 DEF LoopUnwind, LoopFrame, WorkerFrame, WorkerAt, Conclude, Advance
<1>24. CASE PublishState
  BY <1>24 DEF PublishState, WorkerFrame, WorkerAt, Advance
<1>25. CASE RunCallback
  BY <1>25 DEF RunCallback, WorkerFrame, WorkerAt, Advance
<1>26. CASE Epilogue
  BY <1>26 DEF Epilogue, WorkerFrame, WorkerAt
<1>27. ASSUME NEW s \in Stoppers, StopperFlags(s) PROVE ShadowFaithful'
  BY <1>27 DEF StopperFlags, MoveStopper
<1>28. ASSUME NEW s \in Stoppers, StopperTests(s) PROVE ShadowFaithful'
  BY <1>28 DEF StopperTests, MoveStopper
<1>29. ASSUME NEW s \in Stoppers, StopperJoins(s) PROVE ShadowFaithful'
  BY <1>29 DEF StopperJoins, MoveStopper
<1>30. CASE UNCHANGED vars
  BY <1>30 DEF vars
<1>31. QED
  BY <1>1, <1>2, <1>3, <1>4, <1>5, <1>6, <1>7, <1>8, <1>9, <1>10, <1>11,
     <1>12, <1>13, <1>14, <1>15, <1>16, <1>17, <1>18, <1>19, <1>20, <1>21,
     <1>22, <1>23, <1>24, <1>25, <1>26, <1>27, <1>28, <1>29, <1>30
     DEF Next, HostBegins, HostContinues, Worker, StopperContinues

\* The debugger's call stack lists the return addresses the guest's own stack
\* holds, in order, for every program that keeps to its stacks, whatever is
\* interrupted, stepped, edited or stopped on the way.
THEOREM ShadowIsFaithful == Spec /\ []StructuredGuest => []ShadowFaithful
<1>1. Init => ShadowFaithful
  BY ListsNothing DEF Init, ShadowFaithful, ResetCpu
<1>2. SessionInv /\ ShadowFaithful /\ StructuredGuest /\ StructuredGuest' /\ [Next]_vars
        => ShadowFaithful'
  BY ShadowStep DEF SessionInv, ThreadsInv
<1>3. QED
  BY <1>1, <1>2, SessionSafe, PTL DEF Spec

\* A step-out that is being set up, or whose worker is before its next depth test.
StepOutAsked == \/ call = "out" /\ ui \in {"clear", "mark", "spawn"}
                \/ job = "out" /\ worker \in {"test", "check", "execute"}

\* Until the frame is left, the entry above the target depth is the address the
\* step-out is to reach; when it has been left, the guest is there.
StepOutInv ==
  /\ StepOutAsked =>
       /\ stepOutTargetDepth \in Nat /\ Len(cpu.shadow) > stepOutTargetDepth
       /\ cpu.shadow[stepOutTargetDepth + 1] = over.nextPC
  /\ job = "out" /\ worker = "unwind" =>
       /\ stepOutTargetDepth \in Nat /\ Len(cpu.shadow) >= stepOutTargetDepth
       /\ IF Len(cpu.shadow) > stepOutTargetDepth
          THEN cpu.shadow[stepOutTargetDepth + 1] = over.nextPC
          ELSE cpu.pc \in {over.nextPC, IrqPC}
  /\ StepOutLands

\* The instruction that takes the shadow stack to the target depth is the return
\* from the frame above it.
LEMMA StepOutExecutes ==
  ASSUME TypeOK, ThreadsInv, StepOutInv, ShadowFaithful, StructuredGuest, StructuredGuest',
         LoopExecute
  PROVE  StepOutInv'
<1> USE DEF ThreadsInv, HandleInv, RunningHasWorker, CallInv, Looping, Leaving, Launches
<1>1. /\ worker = "execute" /\ worker' \in {"notify", "unwind"}
      /\ worker' = "notify" => notice'.reason = "HALT"
      /\ UNCHANGED <<ui, call, job, over, stepOutTargetDepth>>
  BY DEF LoopExecute, LoopFrame, WorkerFrame, WorkerAt, Conclude, Advance, hostVars
<1>2. call = "out" => ui \notin {"clear", "mark", "spawn"}
  BY <1>1
<1>3. ~StepOutAsked' /\ StepOutLands'
  BY <1>1, <1>2 DEF StepOutAsked, StepOutLands
<1>4. SUFFICES ASSUME job = "out", worker' = "unwind"
      PROVE  /\ stepOutTargetDepth \in Nat /\ Len(cpu'.shadow) >= stepOutTargetDepth
             /\ IF Len(cpu'.shadow) > stepOutTargetDepth
                THEN cpu'.shadow[stepOutTargetDepth + 1] = over.nextPC
                ELSE cpu'.pc \in {over.nextPC, IrqPC}
  BY <1>1, <1>3 DEF StepOutInv
<1> DEFINE t == stepOutTargetDepth
           h == cpu.shadow
<1>5. t \in Nat /\ Len(h) > t /\ h[t + 1] = over.nextPC /\ h \in Seq(Addr) /\ Len(h) \in Nat
  BY <1>1, <1>4, LenProperties DEF StepOutInv, StepOutAsked, TypeOK, Cpu
<1>6. PICK d : d.shadow = cpu'.shadow /\ cpu'.pc \in {d.pc, IrqPC} /\ ShadowMoves(cpu, d)
  BY StructuredInstruction DEF LoopExecute
<1>7. CASE d.shadow = h
  BY <1>5, <1>6, <1>7
<1>8. ASSUME NEW a \in Addr, d.shadow = Append(h, a)
      PROVE  Len(cpu'.shadow) > t /\ cpu'.shadow[t + 1] = over.nextPC
  <2>1. Len(Append(h, a)) = Len(h) + 1 /\ \A k \in 1 .. Len(h) : Append(h, a)[k] = h[k]
    BY <1>5, AppendProperties
  <2>2. t + 1 \in 1 .. Len(h)
    BY <1>5
  <2>3. QED
    BY <1>5, <1>6, <1>8, <2>1, <2>2
<1>9. CASE h # <<>> /\ d.shadow = ShadowPop(h) /\ d.pc = h[Len(h)]
  <2>1. /\ Len(ShadowPop(h)) = Len(h) - 1
        /\ \A k \in 1 .. Len(h) - 1 : ShadowPop(h)[k] = h[k]
    BY <1>5, <1>9, PopSeq, PopKeeps DEF ShadowPop
  <2>2. CASE Len(h) = t + 1
    BY <1>5, <1>6, <1>9, <2>1, <2>2
  <2>3. CASE Len(h) # t + 1
    <3>1. t + 1 \in 1 .. Len(h) - 1
      BY <1>5, <2>3
    <3>2. QED
      BY <1>5, <1>6, <1>9, <2>1, <3>1
  <2>4. QED
    BY <2>2, <2>3
<1>10. QED
  BY <1>5, <1>6, <1>7, <1>8, <1>9 DEF ShadowMoves

\* The other steps leave the guest's stack, or there is no step-out to mislead.
LEMMA StepOutStep ==
  ASSUME TypeOK, ThreadsInv, StepOutInv, ShadowFaithful, StructuredGuest, StructuredGuest',
         [Next]_vars
  PROVE  StepOutInv'
<1> USE DEF ThreadsInv, HandleInv, RunningHasWorker, CallInv, StepOutInv, StepOutAsked, StepOutLands,
            Looping, Leaving, Launches, hostVars, guestVars, bpVars, workerVars
<1>1. CASE StepBegin
  BY <1>1 DEF StepBegin, MayEnter, HostFree, HostReady
<1>2. CASE Reset
  BY <1>2 DEF Reset, MayEnter, HostFree, HostReady, Notify
<1>3. CASE SetRegisters
  BY <1>3 DEF SetRegisters, WriteRegisters, MayEnter, HostFree, HostReady
<1>4. CASE BreakpointCall
  BY <1>4 DEF BreakpointCall, ClearBreakpoints, AddBreakpoint, RemoveBreakpoint,
             EnableBreakpoint, SetBreakpointCondition, EditBreakpoints, MayEnter, HostFree, HostReady
<1>5. CASE EnterRun
  BY <1>5 DEF EnterRun, EnterLaunch, EnterLaunchAt, MayEnter, HostFree, HostReady
<1>6. CASE EnterStepOver
  BY <1>6 DEF EnterStepOver, EnterLaunch, EnterLaunchAt, MayEnter, HostFree, HostReady
<1>7. CASE EnterStepOut
  BY <1>7 DEF EnterStepOut, EnterLaunch, EnterLaunchAt, MayEnter, HostFree, HostReady
<1>8. CASE EnterStop("stop")
  BY <1>8 DEF EnterStop, Enter, HostFree
<1>9. CASE EnterDestroy
  BY <1>9 DEF EnterDestroy, EnterStop, Enter, HostFree
<1>10. CASE StepEnd
  BY <1>10 DEF StepEnd, Notify
<1>11. CASE JoinTest
  <2>1. AfterJoin => ui' \in {"idle", "gone", "prepare"} /\ call' \in {"none", call}
    BY <1>11 DEF JoinTest, AfterJoin, Leave, Proceed, TypeOK
  <2>2. ui' \notin {"clear", "mark", "spawn"}
    BY <1>11, <2>1 DEF JoinTest, Proceed
  <2>3. QED
    BY <1>11, <2>2 DEF JoinTest
<1>12. CASE JoinDone
  <2>1. ui' \notin {"clear", "mark", "spawn"} /\ worker' = "none"
    BY <1>12 DEF JoinDone, AfterJoin, Leave, Proceed, TypeOK
  <2>2. QED
    BY <1>12, <2>1 DEF JoinDone
<1>13. CASE PrepareRun
  BY <1>13 DEF PrepareRun, HaltBeforeRun, Notify, Leave, Proceed
<1>14. CASE PrepareStepOver
  BY <1>14 DEF PrepareStepOver, Proceed
<1>15. CASE PrepareStepOut
  <2>1. cpu.shadow \in Seq(Addr) /\ cpu.shadow # <<>> /\ over \in Over
    BY <1>15 DEF PrepareStepOut, TypeOK, Cpu
  <2>2. Len(cpu.shadow) \in Nat \ {0}
    BY <2>1, EmptySeq
  <2>3. over'.nextPC = cpu.shadow[Len(cpu.shadow)]
    BY <1>15, <2>1 DEF PrepareStepOut, Over
  <2>4. /\ stepOutTargetDepth' \in Nat /\ Len(cpu.shadow) > stepOutTargetDepth'
        /\ stepOutTargetDepth' + 1 = Len(cpu.shadow)
    BY <1>15, <2>2 DEF PrepareStepOut, TargetDepth
  <2>5. worker = "none" /\ worker' = "none" /\ cpu' = cpu
    BY <1>15 DEF PrepareStepOut
  <2>6. QED
    BY <2>3, <2>4, <2>5
<1>16. CASE ClearStopRequest
  BY <1>16 DEF ClearStopRequest, Proceed
<1>17. CASE MarkRunning
  BY <1>17 DEF MarkRunning, Proceed
<1>18. CASE Spawn
  BY <1>18 DEF Spawn, Leave
<1>19. CASE InputArrives
  BY <1>19 DEF InputArrives
<1>20. CASE LoopTest
  BY <1>20 DEF LoopTest, LoopFrame, WorkerFrame, WorkerAt, Conclude, Advance
<1>21. CASE LoopCheck
  BY <1>21 DEF LoopCheck, LoopFrame, WorkerFrame, WorkerAt, Conclude, Advance
<1>22. CASE LoopExecute
  BY <1>22, StepOutExecutes
<1>23. CASE LoopUnwind
  <2>1. Len(cpu.shadow) \in Nat /\ (job = "out" => stepOutTargetDepth \in Nat)
    BY <1>23, LenProperties DEF LoopUnwind, WorkerAt, TypeOK, Cpu
  <2>2. QED
    BY <1>23, <2>1 DEF LoopUnwind, LoopFrame, WorkerFrame, WorkerAt, Conclude, Advance
<1>24. CASE PublishState
  BY <1>24 DEF PublishState, WorkerFrame, WorkerAt, Advance
<1>25. CASE RunCallback
  BY <1>25 DEF RunCallback, WorkerFrame, WorkerAt, Advance
<1>26. CASE Epilogue
  BY <1>26 DEF Epilogue, WorkerFrame, WorkerAt
<1>27. ASSUME NEW s \in Stoppers, StopperFlags(s) PROVE StepOutInv'
  BY <1>27 DEF StopperFlags, MoveStopper
<1>28. ASSUME NEW s \in Stoppers, StopperTests(s) PROVE StepOutInv'
  BY <1>28 DEF StopperTests, MoveStopper
<1>29. ASSUME NEW s \in Stoppers, StopperJoins(s) PROVE StepOutInv'
  BY <1>29 DEF StopperJoins, MoveStopper
<1>30. CASE UNCHANGED vars
  BY <1>30 DEF vars
<1>31. QED
  BY <1>1, <1>2, <1>3, <1>4, <1>5, <1>6, <1>7, <1>8, <1>9, <1>10, <1>11,
     <1>12, <1>13, <1>14, <1>15, <1>16, <1>17, <1>18, <1>19, <1>20, <1>21,
     <1>22, <1>23, <1>24, <1>25, <1>26, <1>27, <1>28, <1>29, <1>30
     DEF Next, HostBegins, HostContinues, Worker, StopperContinues

\* A step-out stops at the return address of the frame it left, or in the handler
\* of an interrupt taken there, for every program that keeps to its stacks.
THEOREM StepOutReturnsToCaller == Spec /\ []StructuredGuest => []StepOutLands
<1>1. Init => StepOutInv
  BY DEF Init, StepOutInv, StepOutAsked, StepOutLands
<1>2. SessionInv /\ ShadowFaithful /\ StructuredGuest /\ StructuredGuest' /\ StepOutInv
        /\ [Next]_vars => StepOutInv'
  BY StepOutStep DEF SessionInv, ThreadsInv
<1>3. StepOutInv => StepOutLands
  BY DEF StepOutInv
<1>4. QED
  BY <1>1, <1>2, <1>3, SessionSafe, ShadowIsFaithful, PTL DEF Spec
-----------------------------------------------------------------------------
(***************************************************************************)
(* Where a step-over stops.                                                *)
(***************************************************************************)
\* The addresses a step-over can arm: those behind the program's calls.
AfterCall == {FallThrough(a) : a \in {b \in Addr : Code[b].op = "jsr"}}

\* The guest is not behind a call that a frame further down has yet to return
\* from: the subroutine called there is not active twice.
NotReentered ==
  cpu.pc \in AfterCall => \A n \in 1 .. Len(cpu.stack) : cpu.stack[n].ret # cpu.pc

\* A step-over that is being set up, or whose worker is in its loop.
StepOverAsked == \/ call = "over" /\ ui \in {"clear", "mark", "spawn"}
                 \/ job = "over" /\ worker \in Looping \cup {"notify"}

\* The user has no conditional breakpoint where the step-over is to stop: the loop
\* asks the condition of one, even a disabled one, in place of stopping.
PlainReturn ==
  StepOverAsked => ~(breakpoints[over.nextPC].present /\ breakpoints[over.nextPC].conditional)

\* Until the worker has stopped, the guest is at the call, owes the return to the
\* armed address in the frame that asked, or has just returned there.
StepOverInv ==
  /\ call = "over" => Code[cpu.pc].op = "jsr"
  /\ StepOverAsked =>
       /\ over.nextPC \in enabledBreakpoints /\ over.nextPC \in AfterCall
       /\ \/ AtCall(cpu, over.nextPC, over.depth)
          \/ Outstanding(cpu.stack, over.nextPC, over.depth)
          \/ Back(cpu, over.nextPC, over.depth)

\* The worker stops before the instruction behind the call, and no other
\* instruction loses the frame.
LEMMA StepOverExecutes ==
  ASSUME TypeOK, ThreadsInv, TestedInv, StepOverInv, PlainReturn, ShadowFaithful,
         StructuredGuest, StructuredGuest', LoopExecute
  PROVE  StepOverInv'
<1> USE DEF ThreadsInv, HandleInv, RunningHasWorker, CallInv, WorkerNeverOutlivesInstance,
            Looping, Leaving, Launches
<1>1. /\ worker = "execute" /\ worker' \in {"notify", "unwind"}
      /\ UNCHANGED <<ui, call, job, over, enabledBreakpoints>> /\ Instruction
  BY DEF LoopExecute, LoopFrame, WorkerFrame, WorkerAt, Conclude, Advance, hostVars
<1>2. call # "over"
  BY <1>1 DEF TypeOK
<1>3. SUFFICES ASSUME job = "over"
      PROVE  /\ over.nextPC \in enabledBreakpoints /\ over.nextPC \in AfterCall
             /\ \/ AtCall(cpu', over.nextPC, over.depth)
                \/ Outstanding(cpu'.stack, over.nextPC, over.depth)
                \/ Back(cpu', over.nextPC, over.depth)
  BY <1>1, <1>2 DEF StepOverInv, StepOverAsked
<1> DEFINE a == over.nextPC
           k == over.depth
<1>4. /\ a \in enabledBreakpoints /\ a \in AfterCall
      /\ AtCall(cpu, a, k) \/ Outstanding(cpu.stack, a, k) \/ Back(cpu, a, k)
      /\ ~(breakpoints[a].present /\ breakpoints[a].conditional)
  BY <1>1, <1>3 DEF StepOverInv, StepOverAsked, PlainReturn
<1>5. ~Back(cpu, a, k)
  BY <1>1, <1>4 DEF TestedInv, StopsAt, Back
<1> HIDE DEF a, k
<1>6. cpu \in BoundedCpu
  BY DEF TypeOK, BoundedCpu
<1>7. PICK c \in ExecuteOne(cpu), irq \in DeviceAfter :
        devIrq' = irq /\ cpu' = CheckInterrupts([c EXCEPT !.irqLine = irq])
  BY <1>1 DEF Instruction
<1>8. irq \in BOOLEAN
  BY SessionAssumption DEF DeviceAfter, TypeOK
<1>9. c \in BoundedCpu /\ ListsCalls(c.shadow, c.stack)
  BY <1>6, ExecuteOneType, StructuredExecute DEF ShadowFaithful, StructuredGuest
<1> DEFINE d == [c EXCEPT !.irqLine = irq]
<1>10. /\ d \in BoundedCpu /\ d.stack = c.stack /\ d.shadow = c.shadow /\ d.pc = c.pc
       /\ d.halted = c.halted
  BY <1>8, <1>9 DEF BoundedCpu, Cpu
<1>11. cpu' = CheckInterrupts(d)
  BY <1>7
<1> HIDE DEF d
<1>12. \/ cpu.halted /\ c = cpu
       \/ Outstanding(c.stack, a, k) \/ Back(c, a, k)
  BY <1>4, <1>5, <1>6, OwedExecute DEF ShadowFaithful, StructuredGuest
<1>13. CASE cpu.halted /\ c = cpu
  <2>1. cpu' = d
    BY <1>10, <1>11, <1>13 DEF CheckInterrupts
  <2>2. QED
    BY <1>4, <1>10, <1>13, <2>1 DEF AtCall, Back, a, k
<1>14. CASE Outstanding(c.stack, a, k) \/ Back(c, a, k)
  <2>1. Len(CheckInterrupts(d).stack) < StackSlots
    BY <1>11 DEF StructuredGuest, Structured
  <2>2. Outstanding(d.stack, a, k) \/ Back(d, a, k)
    BY <1>10, <1>14 DEF Back
  <2>3. LET e == CheckInterrupts(d) IN Outstanding(e.stack, a, k) \/ Back(e, a, k)
    BY <1>9, <1>10, <2>1, <2>2, OwedInterrupt
  <2>4. QED
    BY <1>4, <1>11, <2>3 DEF a, k
<1>15. QED
  BY <1>12, <1>13, <1>14

\* The other steps leave the guest and the breakpoints, or no step-over is asked.
LEMMA StepOverStep ==
  ASSUME TypeOK, ThreadsInv, TestedInv, StepOverInv, PlainReturn, ShadowFaithful,
         StructuredGuest, StructuredGuest', [Next]_vars
  PROVE  StepOverInv'
<1> USE DEF ThreadsInv, HandleInv, RunningHasWorker, CallInv, WorkerNeverOutlivesInstance,
            StepOverInv, StepOverAsked,
            Looping, Leaving, Launches, hostVars, guestVars, bpVars, workerVars
<1>1. CASE StepBegin
  BY <1>1 DEF StepBegin, MayEnter, HostFree, HostReady
<1>2. CASE Reset
  BY <1>2 DEF Reset, MayEnter, HostFree, HostReady, Notify
<1>3. CASE SetRegisters
  BY <1>3 DEF SetRegisters, WriteRegisters, MayEnter, HostFree, HostReady
<1>4. CASE BreakpointCall
  BY <1>4 DEF BreakpointCall, ClearBreakpoints, AddBreakpoint, RemoveBreakpoint,
             EnableBreakpoint, SetBreakpointCondition, EditBreakpoints, MayEnter, HostFree, HostReady
<1>5. CASE EnterRun
  BY <1>5 DEF EnterRun, EnterLaunch, EnterLaunchAt, MayEnter, HostFree, HostReady
<1>6. CASE EnterStepOver
  BY <1>6 DEF EnterStepOver, EnterLaunch, EnterLaunchAt, MayEnter, HostFree, HostReady
<1>7. CASE EnterStepOut
  BY <1>7 DEF EnterStepOut, EnterLaunch, EnterLaunchAt, MayEnter, HostFree, HostReady
<1>8. CASE EnterStop("stop")
  BY <1>8 DEF EnterStop, Enter, HostFree
<1>9. CASE EnterDestroy
  BY <1>9 DEF EnterDestroy, EnterStop, Enter, HostFree
<1>10. CASE StepEnd
  BY <1>10 DEF StepEnd, Notify
<1>11. CASE JoinTest
  <2>1. AfterJoin => ui' \in {"idle", "gone", "prepare"} /\ call' \in {"none", call}
    BY <1>11 DEF JoinTest, AfterJoin, Leave, Proceed, TypeOK
  <2>2. ui' \notin {"clear", "mark", "spawn"} /\ call' \in {"none", call}
    BY <1>11, <2>1 DEF JoinTest, Proceed
  <2>3. QED
    BY <1>11, <2>2 DEF JoinTest
<1>12. CASE JoinDone
  <2>1. ui' \notin {"clear", "mark", "spawn"} /\ worker' = "none" /\ call' \in {"none", call}
    BY <1>12 DEF JoinDone, AfterJoin, Leave, Proceed, TypeOK
  <2>2. QED
    BY <1>12, <2>1 DEF JoinDone
<1>13. CASE PrepareRun
  BY <1>13 DEF PrepareRun, HaltBeforeRun, Notify, Leave, Proceed
<1>14. CASE PrepareStepOver
  <2>1. /\ over'.nextPC = FallThrough(cpu.pc) /\ over'.depth = Len(cpu.shadow)
        /\ enabledBreakpoints' = enabledBreakpoints \cup {FallThrough(cpu.pc)}
        /\ worker = "none" /\ worker' = "none" /\ cpu' = cpu /\ call = "over" /\ call' = call
    BY <1>14 DEF PrepareStepOver, Proceed
  <2>2. Code[cpu.pc].op = "jsr" /\ cpu.pc \in Addr
    BY <2>1 DEF TypeOK, Cpu
  <2>3. AtCall(cpu, FallThrough(cpu.pc), Len(cpu.shadow)) /\ FallThrough(cpu.pc) \in AfterCall
    BY <2>2 DEF AtCall, AfterCall
  <2>4. QED
    BY <2>1, <2>2, <2>3
<1>15. CASE PrepareStepOut
  BY <1>15 DEF PrepareStepOut, Proceed
<1>16. CASE ClearStopRequest
  BY <1>16 DEF ClearStopRequest, Proceed
<1>17. CASE MarkRunning
  BY <1>17 DEF MarkRunning, Proceed
<1>18. CASE Spawn
  BY <1>18 DEF Spawn, Leave
<1>19. CASE InputArrives
  BY <1>19 DEF InputArrives
<1>20. CASE LoopTest
  BY <1>20 DEF LoopTest, LoopFrame, WorkerFrame, WorkerAt, Conclude, Advance
<1>21. CASE LoopCheck
  BY <1>21 DEF LoopCheck, LoopFrame, WorkerFrame, WorkerAt, Conclude, Advance
<1>22. CASE LoopExecute
  BY <1>22, StepOverExecutes
<1>23. CASE LoopUnwind
  BY <1>23 DEF LoopUnwind, LoopFrame, WorkerFrame, WorkerAt, Conclude, Advance
<1>24. CASE PublishState
  BY <1>24 DEF PublishState, WorkerFrame, WorkerAt, Advance
<1>25. CASE RunCallback
  BY <1>25 DEF RunCallback, WorkerFrame, WorkerAt, Advance
<1>26. CASE Epilogue
  BY <1>26 DEF Epilogue, WorkerFrame, WorkerAt
<1>27. ASSUME NEW s \in Stoppers, StopperFlags(s) PROVE StepOverInv'
  BY <1>27 DEF StopperFlags, MoveStopper
<1>28. ASSUME NEW s \in Stoppers, StopperTests(s) PROVE StepOverInv'
  BY <1>28 DEF StopperTests, MoveStopper
<1>29. ASSUME NEW s \in Stoppers, StopperJoins(s) PROVE StepOverInv'
  BY <1>29 DEF StopperJoins, MoveStopper
<1>30. CASE UNCHANGED vars
  BY <1>30 DEF vars
<1>31. QED
  BY <1>1, <1>2, <1>3, <1>4, <1>5, <1>6, <1>7, <1>8, <1>9, <1>10, <1>11,
     <1>12, <1>13, <1>14, <1>15, <1>16, <1>17, <1>18, <1>19, <1>20, <1>21,
     <1>22, <1>23, <1>24, <1>25, <1>26, <1>27, <1>28, <1>29, <1>30
     DEF Next, HostBegins, HostContinues, Worker, StopperContinues

\* A step-over stopped at the address behind the call is in the frame that made
\* the call, whatever was called and interrupted on the way, for every program
\* that keeps to its stacks and is not inside the called subroutine twice, and
\* with no conditional breakpoint of the user's at that address.
THEOREM StepOverReturnsToFrame ==
  Spec /\ []StructuredGuest /\ []NotReentered /\ []PlainReturn => []StepOverReturns
<1>1. Init => StepOverInv /\ TestedInv
  BY DEF Init, StepOverInv, StepOverAsked, TestedInv, Looping
<1>2. SessionInv /\ ShadowFaithful /\ StructuredGuest /\ StructuredGuest' /\ PlainReturn
        /\ StepOverInv /\ TestedInv /\ [Next]_vars => StepOverInv' /\ TestedInv'
  BY StepOverStep, TestedStep DEF SessionInv, ThreadsInv
<1>3. StepOverInv /\ NotReentered => StepOverReturns
  BY DEF StepOverInv, StepOverAsked, NotReentered, Outstanding, AtCall, Back, StepOverReturns
<1>4. QED
  BY <1>1, <1>2, <1>3, SessionSafe, ShadowIsFaithful, PTL DEF Spec
=============================================================================
