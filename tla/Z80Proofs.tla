------------------------------ MODULE Z80Proofs ------------------------------
(***************************************************************************)
(* Proofs about the z80 session and its disk, for every program and every  *)
(* size of the address space, of the stack and of the images.              *)
(***************************************************************************)
EXTENDS MCZ80, TLAPS

-----------------------------------------------------------------------------
(***************************************************************************)
(* The disk.                                                               *)
(***************************************************************************)
\* A buffer pointer of two bytes is the number of an area.
LEMMA BufPtrType ==
  ASSUME NEW d \in Device
  PROVE  BufPtr(d) \in Area /\ Lba(d) \in Nat
<1> DEFINE lo == d.bufPtr[0]
           hi == d.bufPtr[1]
<1>1. lo \in Nat /\ hi \in Nat /\ lo <= Base - 1 /\ hi <= Base - 1 /\ Base \in Nat
  BY Z80DiskAssumption DEF Device, Byte
<1>2. d.lba[0] \in Nat /\ d.lba[1] \in Nat /\ d.lba[2] \in Nat
  BY <1>1 DEF Device, Byte
<1>3. Base * Base \in Nat /\ Base * hi \in Nat
  BY <1>1
<1>4. Base * hi <= Base * Base - Base
  <2>1. \A b, h \in Nat : h <= b - 1 => b * h <= b * b - b
    OBVIOUS
  <2>2. QED
    BY <1>1, <2>1
<1>5. lo + Base * hi \in 0 .. (Base * Base - 1)
  BY <1>1, <1>3, <1>4
<1>6. Base * d.lba[1] \in Nat /\ Base * Base * d.lba[2] \in Nat
  BY <1>1, <1>2, <1>3
<1>7. QED
  BY <1>2, <1>5, <1>6 DEF BufPtr, Lba, Area

\* What a command may do to an image.
Guarded(d, ram, e) ==
  \/ e.image = d.image
  \/ /\ ~d.protected /\ Len(e.image) = Len(d.image)
     /\ e.image = [d.image EXCEPT ![Lba(d) + 1] = ram[BufPtr(d)]]

\* A reset keeps the image, a mount gives another.
LEMMA DeviceType ==
  ASSUME NEW d \in Device, NEW image \in Seq(Content), NEW protect \in BOOLEAN
  PROVE  /\ DeviceReset(d) \in Device /\ DeviceReset(d).image = d.image
         /\ SetImage(d, image, protect) \in Device
<1>1. 0 \in Byte
  BY Z80DiskAssumption DEF Byte
<1>2. [i \in 0 .. 2 |-> 0] \in [0 .. 2 -> Byte] /\ [i \in 0 .. 1 |-> 0] \in [0 .. 1 -> Byte]
  BY <1>1
<1>3. QED
  BY <1>2 DEF DeviceReset, SetImage, Device

\* A command leaves a device and a memory, and writes at most the sector
\* addressed of an image that is not protected.
LEMMA CommandType ==
  ASSUME NEW d \in Device, NEW ram \in [Area -> Content], NEW cmd \in Commands
  PROVE  LET x == ExecuteCommand(d, ram, cmd) IN
         /\ x.disk \in Device /\ x.ram \in [Area -> Content]
         /\ Guarded(d, ram, x.disk)
<1> DEFINE x == ExecuteCommand(d, ram, cmd)
<1>1. BufPtr(d) \in Area /\ Lba(d) \in Nat /\ ram[BufPtr(d)] \in Content
  BY BufPtrType
<1>2. CASE cmd = "nop"
  BY <1>2 DEF ExecuteCommand, Device, Guarded
<1>3. CASE cmd # "nop" /\ Refused(d, cmd)
  BY <1>3 DEF ExecuteCommand, Device, Guarded
<1>4. CASE cmd = "read" /\ ~Refused(d, cmd)
  <2>1. d.image \in Seq(Content) /\ Lba(d) + 1 \in 1 .. Len(d.image)
    BY <1>1, <1>4 DEF Refused, Device
  <2>2. d.image[Lba(d) + 1] \in Content
    BY <2>1
  <2>3. x = [disk |-> d, ram |-> [ram EXCEPT ![BufPtr(d)] = d.image[Lba(d) + 1]]]
    BY <1>4 DEF ExecuteCommand
  <2> HIDE DEF x
  <2>4. x.disk = d /\ x.ram \in [Area -> Content]
    BY <2>2, <2>3
  <2>5. QED
    BY <2>4 DEF Guarded, x
<1>5. CASE cmd = "write" /\ ~Refused(d, cmd)
  <2>1. d.image \in Seq(Content) /\ Lba(d) + 1 \in 1 .. Len(d.image) /\ ~d.protected
    BY <1>1, <1>5 DEF Refused, Device
  <2> DEFINE image == [d.image EXCEPT ![Lba(d) + 1] = ram[BufPtr(d)]]
  <2>2. image \in Seq(Content) /\ Len(image) = Len(d.image)
    BY <1>1, <2>1
  <2>3. x = [disk |-> [d EXCEPT !.image[Lba(d) + 1] = ram[BufPtr(d)]], ram |-> ram]
    BY <1>5 DEF ExecuteCommand
  <2>4. x.disk = [d EXCEPT !.image = image] /\ x.ram = ram
    BY <2>3
  <2> HIDE DEF image, x
  <2>5. x.disk \in Device /\ x.disk.image = image
    BY <2>2, <2>4 DEF Device
  <2>6. QED
    BY <2>1, <2>2, <2>4, <2>5 DEF Guarded, image, x
<1>6. QED
  BY <1>2, <1>3, <1>4, <1>5 DEF Commands, Refused
-----------------------------------------------------------------------------
(***************************************************************************)
(* The core.                                                               *)
(***************************************************************************)
\* What any instruction does: it keeps the flags of the debugger, and writes at
\* most the sector addressed.
Does(g, e) ==
  /\ e \in Machine /\ e.inStepMode = g.inStepMode /\ e.hit = g.hit
  /\ Guarded(g.disk, g.ram, e.disk)

\* PC wraps.
LEMMA AheadType ==
  ASSUME NEW a \in Addr, NEW n \in Nat
  PROVE  Ahead(a, n) \in Addr
BY Z80CpuAssumption DEF Ahead, Addr

\* An instruction has one to three bytes.
LEMMA LengthType == \A op : Length(op) \in 1 .. 3
BY DEF Length

\* So does SP.
LEMMA CallType ==
  ASSUME NEW g \in Machine, NEW a \in Addr
  PROVE  Does(g, Call(g, a))
<1> DEFINE top == (g.sp + Slots - 1) % Slots
<1>1. top \in 0 .. (Slots - 1)
  BY Z80CpuAssumption DEF Machine
<1> HIDE DEF top
<1>2. Call(g, a) = [g EXCEPT !.sp = top, !.stack[top] = g.pc, !.pc = a]
  BY DEF Call, Push16, top
<1> DEFINE stack == [g.stack EXCEPT ![top] = g.pc]
<1>3. stack \in [0 .. (Slots - 1) -> Addr]
  BY DEF Machine
<1>4. Call(g, a) = [g EXCEPT !.sp = top, !.stack = stack, !.pc = a]
  BY <1>2
<1> HIDE DEF stack
<1>5. QED
  BY <1>1, <1>3, <1>4 DEF Does, Guarded, Machine

\* RET leaves a machine of its type, and the debugger's marks as they are.
LEMMA ReturnType ==
  ASSUME NEW g \in Machine
  PROVE  Does(g, Return(g))
<1>1. (g.sp + 1) % Slots \in 0 .. (Slots - 1) /\ g.stack[g.sp] \in Addr
  BY Z80CpuAssumption DEF Machine
<1>2. QED
  BY <1>1 DEF Return, Does, Guarded, Machine

\* So does the request that the program makes.
LEMMA AskType ==
  ASSUME NEW g \in Machine, NEW e \in Ask(g)
  PROVE  Does(g, e)
<1>1. PICK r \in Requests, v \in Fills : e = Asked(g, r, v)
  BY DEF Ask
<1>2. v \in Content
  BY Z80CpuAssumption DEF Content
<1>3. [g.ram EXCEPT ![r.buf] = v] \in [Area -> Content]
  BY <1>2 DEF Machine
<1>4. QED
  BY <1>1, <1>3 DEF Asked, Does, Guarded, Machine

\* A command to the device guards the image (Does), whether it is refused or not.
LEMMA CommandStep ==
  ASSUME NEW g \in Machine, NEW cmd \in Commands
  PROVE  Does(g, Command(g, cmd))
<1> DEFINE x == ExecuteCommand(g.disk, g.ram, cmd)
           did == IF cmd = "nop" \/ g.did = "disturbed" THEN g.did
                  ELSE IF Refused(g.disk, cmd) THEN "failed"
                  ELSE IF Lba(g.disk) = g.want.lba /\ BufPtr(g.disk) = g.want.buf THEN "done"
                  ELSE "astray"
<1>1. g.disk \in Device /\ g.ram \in [Area -> Content]
  BY DEF Machine
<1>2. x.disk \in Device /\ x.ram \in [Area -> Content] /\ Guarded(g.disk, g.ram, x.disk)
  BY <1>1, CommandType
<1>3. did \in {"nothing", "done", "failed", "astray", "disturbed"}
  BY DEF Machine
<1>4. Command(g, cmd) = [g EXCEPT !.disk = x.disk, !.ram = x.ram, !.did = did]
  BY DEF Command
<1> HIDE DEF x, did
<1>5. QED
  BY <1>2, <1>3, <1>4 DEF Does, Machine

\* A byte of the request goes to a register.
LEMMA DigitType ==
  ASSUME NEW n \in Nat, NEW i \in 0 .. 2
  PROVE  Digit(n, i) \in Byte
<1>1. <<1, Base, Base * Base>>[i + 1] \in Nat \ {0}
  <2>1. Base \in Nat \ {0} /\ Base * Base \in Nat \ {0}
    BY Z80DiskAssumption
  <2>2. QED
    BY <2>1
<1>2. \A m \in Nat \ {0} : n \div m \in Nat
  OBVIOUS
<1>3. QED
  BY SMTT(30), <1>1, <1>2, Z80DiskAssumption DEF Digit, Byte

\* A digit of the request in a register of the device.
LEMMA RegisterType ==
  ASSUME NEW g \in Machine, NEW k
  PROVE  /\ Does(g, [g EXCEPT !.disk.lba[k] = Digit(g.want.lba, k)])
         /\ Does(g, [g EXCEPT !.disk.bufPtr[k] = Digit(g.want.buf, k)])
<1>1. g.want.lba \in Nat /\ g.want.buf \in Nat
  BY Z80CpuAssumption DEF Machine, Area
<1>2. [g.disk.lba EXCEPT ![k] = Digit(g.want.lba, k)] \in [0 .. 2 -> Byte]
  BY <1>1, DigitType DEF Machine, Device
<1>3. [g.disk.bufPtr EXCEPT ![k] = Digit(g.want.buf, k)] \in [0 .. 1 -> Byte]
  <2>1. \A j \in 0 .. 1 : Digit(g.want.buf, j) \in Byte
    BY <1>1, DigitType
  <2>2. g.disk.bufPtr \in [0 .. 1 -> Byte]
    BY DEF Machine, Device
  <2>3. QED
    BY <2>1, <2>2
<1>4. QED
  BY <1>2, <1>3 DEF Does, Guarded, Machine, Device

\* Every instruction: the cases of Effect.
LEMMA EffectType ==
  ASSUME NEW g \in Machine, NEW i \in Instr, NEW e \in Effect(g, i)
  PROVE  Does(g, e)
<1>1. Does(g, g)
  BY DEF Does, Guarded
<1>2. i.to \in Addr /\ i.op \in Ops /\ g.want.cmd \in Commands
  BY Z80CpuAssumption DEF Instr, Machine
<1>3. CASE i.op \in {"plain", "trap"}
  BY <1>1, <1>3 DEF Effect
<1>4. CASE i.op = "ask"
  BY <1>4, AskType DEF Effect
<1>5. CASE i.op \in {"call", "rst", "callcc"}
  BY <1>1, <1>2, <1>5, CallType DEF Effect
<1>6. CASE i.op \in {"ret", "retcc"}
  BY <1>1, <1>6, ReturnType DEF Effect
<1>7. CASE i.op = "retok"
  <2>1. e = g \/ e = [Return(g) EXCEPT !.answer = "ok"]
    BY <1>7 DEF Effect
  <2>2. Does(g, [Return(g) EXCEPT !.answer = "ok"])
    BY ReturnType DEF Does, Guarded, Machine
  <2>3. QED
    BY <1>1, <2>1, <2>2
<1>8. CASE i.op \in {"jump", "status", "fail", "halt"}
  <2>1. Does(g, [g EXCEPT !.pc = i.to])
    BY <1>2 DEF Does, Guarded, Machine
  <2>2. \A b \in BOOLEAN : Does(g, [g EXCEPT !.ok = b])
    BY DEF Does, Guarded, Machine
  <2>3. Does(g, [g EXCEPT !.answer = "error"]) /\ Does(g, [g EXCEPT !.halted = TRUE])
    BY DEF Does, Guarded, Machine
  <2>4. (~g.disk.error) \in BOOLEAN
    OBVIOUS
  <2>5. Does(g, [g EXCEPT !.ok = ~g.disk.error])
    BY <2>2, <2>4
  <2>6. QED
    BY <1>8, <2>1, <2>3, <2>5 DEF Effect
<1>9. CASE i.op \in {"lba", "buf"}
  BY <1>9, RegisterType DEF Effect
<1>10. CASE i.op = "command"
  BY <1>2, <1>10, CommandStep DEF Effect
<1>11. QED
  BY <1>2, <1>3, <1>4, <1>5, <1>6, <1>7, <1>8, <1>9, <1>10 DEF Ops

\* What is fetched is an instruction, also where the program is gone.
LEMMA FetchedType ==
  ASSUME NEW g \in Machine, NEW i \in Fetched(g)
  PROVE  i \in Instr
<1>1. NOP \in Instr /\ [op |-> "trap", to |-> 0] \in Instr
  BY Z80CpuAssumption DEF NOP, Instr, Ops, Addr
<1>2. QED
  BY <1>1, Z80CpuAssumption DEF Fetched

\* An instruction notes the watchpoint it has come across.
LEMMA ExecutedType ==
  ASSUME NEW g \in Machine, NEW i \in Instr, NEW o \in Executed(g, i)
  PROVE  /\ o.ran \in BOOLEAN /\ o.after \in Machine /\ o.after.inStepMode = g.inStepMode
         /\ Guarded(g.disk, g.ram, o.after.disk)
         /\ CheckWatchpoint(Reads(g.pc, i.op), Writes(i.op)) => o.after.hit
<1> DEFINE hit == g.hit \/ CheckWatchpoint(Reads(g.pc, i.op), Writes(i.op))
           h == [g EXCEPT !.hit = hit]
           k == [h EXCEPT !.pc = Ahead(@, Length(i.op))]
<1>1. hit \in BOOLEAN
  OBVIOUS
<1>2. CheckWatchpoint(Reads(g.pc, i.op), Writes(i.op)) => hit = TRUE
  OBVIOUS
<1>3. Executed(g, i) = IF i.op = "trap" THEN {[ran |-> FALSE, after |-> h]}
                       ELSE {[ran |-> TRUE, after |-> e] : e \in Effect(k, i)}
  BY DEF Executed
<1> HIDE DEF hit
<1>4. h \in Machine /\ h.inStepMode = g.inStepMode /\ h.disk = g.disk /\ h.ram = g.ram /\ h.hit = hit
      /\ h.pc \in Addr
  BY <1>1 DEF Machine
<1> HIDE DEF h
<1>5. Ahead(h.pc, Length(i.op)) \in Addr
  <2>1. Length(i.op) \in Nat
    BY LengthType
  <2>2. QED
    BY <1>4, <2>1, AheadType
<1>6. /\ k \in Machine /\ k.inStepMode = g.inStepMode /\ k.disk = g.disk /\ k.ram = g.ram
      /\ k.hit = hit
  BY <1>4, <1>5 DEF Machine
<1> HIDE DEF k
<1>7. CASE i.op = "trap"
  <2>1. o = [ran |-> FALSE, after |-> h]
    BY <1>3, <1>7
  <2>2. o.ran = FALSE /\ o.after = h
    BY <2>1
  <2>3. QED
    BY <1>2, <1>4, <2>2 DEF Guarded
<1>8. CASE i.op # "trap"
  <2>1. PICK e \in Effect(k, i) : o = [ran |-> TRUE, after |-> e]
    BY <1>3, <1>8
  <2>2. Does(k, e)
    BY <1>6, EffectType
  <2>3. o.ran = TRUE /\ o.after = e
    BY <2>1
  <2>4. /\ e \in Machine /\ e.inStepMode = g.inStepMode /\ e.hit = hit
        /\ Guarded(g.disk, g.ram, e.disk)
    BY <1>6, <2>2 DEF Does
  <2>5. QED
    BY <1>2, <2>3, <2>4
<1>9. QED
  BY <1>7, <1>8

\* The address of an instruction is the first it reads.
LEMMA ReadsItself ==
  ASSUME NEW a \in Addr, NEW op
  PROVE  a \in Reads(a, op)
<1>1. 0 \in 0 .. (Length(op) - 1)
  BY LengthType
<1>2. Ahead(a, 0) = a
  BY Z80CpuAssumption DEF Ahead, Addr
<1>3. QED
  BY <1>1, <1>2 DEF Reads

\* ExecuteOne always drops the flag of a step; without it a breakpoint holds the
\* machine as it is.
LEMMA ExecuteOneType ==
  ASSUME NEW g \in Machine, NEW o \in ExecuteOne(g)
  PROVE  /\ o.ran \in BOOLEAN /\ o.after \in Machine /\ ~o.after.inStepMode
         /\ Guarded(g.disk, g.ram, o.after.disk)
         /\ ~g.inStepMode /\ g.pc \in enabledBreakpoints => ~o.ran /\ o.after = g
         /\ ~g.halted
              => \/ ~o.ran
                 \/ \E i \in Fetched(g) :
                      CheckWatchpoint(Reads(g.pc, i.op), Writes(i.op)) => o.after.hit
<1> DEFINE h == [g EXCEPT !.inStepMode = FALSE]
<1>1. CASE ~g.inStepMode /\ g.pc \in enabledBreakpoints
  <2>1. o = [ran |-> FALSE, after |-> g]
    BY <1>1 DEF ExecuteOne
  <2>2. QED
    BY <1>1, <2>1 DEF Guarded
<1>2. CASE ~(~g.inStepMode /\ g.pc \in enabledBreakpoints)
  <2>1. o \in IF h.halted THEN {[ran |-> TRUE, after |-> h]}
              ELSE UNION {Executed(h, i) : i \in Fetched(h)}
    BY <1>2 DEF ExecuteOne
  <2>2. /\ h \in Machine /\ ~h.inStepMode /\ h.disk = g.disk /\ h.ram = g.ram /\ h.pc = g.pc
        /\ h.halted = g.halted
    BY DEF Machine
  <2>3. Fetched(h) = Fetched(g)
    BY <2>2 DEF Fetched
  <2> HIDE DEF h
  <2>4. CASE h.halted
    <3>1. o = [ran |-> TRUE, after |-> h]
      BY <2>1, <2>4
    <3>2. QED
      BY <1>2, <2>2, <2>4, <3>1 DEF Guarded
  <2>5. CASE ~h.halted
    <3>1. PICK i \in Fetched(h) : o \in Executed(h, i)
      BY <2>1, <2>5
    <3>2. i \in Instr
      BY <2>2, <3>1, FetchedType
    <3>3. /\ o.ran \in BOOLEAN /\ o.after \in Machine /\ o.after.inStepMode = h.inStepMode
          /\ Guarded(h.disk, h.ram, o.after.disk)
          /\ CheckWatchpoint(Reads(h.pc, i.op), Writes(i.op)) => o.after.hit
      BY <2>2, <3>1, <3>2, ExecutedType
    <3>4. QED
      BY <1>2, <2>2, <2>3, <3>1, <3>3
  <2>6. QED
    BY <2>4, <2>5
<1>3. QED
  BY <1>1, <1>2
-----------------------------------------------------------------------------
(***************************************************************************)
(* The session.                                                            *)
(***************************************************************************)
\* A call that drives the guest has instructions left.
IInv == SessionInv /\ (host \in {"over", "out"} => budget >= 1)

\* Taking the watchpoint's mark back changes nothing else.
LEMMA TakenType ==
  ASSUME NEW o, o.after \in Machine
  PROVE  /\ Taken(o) \in Machine /\ Taken(o).inStepMode = o.after.inStepMode
         /\ Taken(o).disk = o.after.disk /\ Taken(o).pc = o.after.pc
         /\ ~o.ran => Taken(o) = o.after
         /\ [o.after EXCEPT !.hit = FALSE] \in Machine
         /\ [o.after EXCEPT !.hit = FALSE].inStepMode = o.after.inStepMode
         /\ [o.after EXCEPT !.hit = FALSE].disk = o.after.disk
BY ZenonT(60) DEF Taken, Machine

\* A reset of the core: memory is filled with zeros, the device stays.
LEMMA ResetCpuType ==
  ASSUME NEW g \in Machine
  PROVE  LET h == ResetCpu(g) IN
         /\ h \in Machine /\ h.inStepMode = g.inStepMode /\ h.disk = g.disk
         /\ h.pc = 0 /\ h.did = "disturbed"
<1> DEFINE stack == [k \in DOMAIN g.stack |-> 0]
           ram == [a \in Area |-> Zero]
<1>1. stack \in [0 .. (Slots - 1) -> Addr]
  BY Z80CpuAssumption DEF Machine, Addr
<1>2. ram \in [Area -> Content]
  BY DEF Content
<1>3. 0 \in Addr /\ 0 \in 0 .. (Slots - 1)
  BY Z80CpuAssumption DEF Addr
<1>4. ResetCpu(g) =
        [g EXCEPT !.pc = 0, !.sp = 0, !.stack = stack, !.halted = FALSE, !.ok = FALSE,
           !.answer = "none", !.ram = ram, !.did = "disturbed"]
  BY DEF ResetCpu
<1> HIDE DEF stack, ram
<1>5. QED
  BY ZenonT(60), <1>1, <1>2, <1>3, <1>4 DEF Machine

\* emfe_reset keeps the image unless its settings name another.
LEMMA ResetDiskType ==
  ASSUME NEW d \in Device, NEW s \in Settings
  PROVE  LET e == ApplyDiskImageOnReset(DeviceReset(d), s) IN
         e \in Device /\ (s.path = NoPath => e.image = d.image)
<1> DEFINE r == DeviceReset(d)
           e == ApplyDiskImageOnReset(r, s)
<1>1. r \in Device /\ r.image = d.image
  <2>1. d.image \in Seq(Content)
    BY DEF Device
  <2>2. r \in Device
    BY <2>1, DeviceType
  <2>3. QED
    BY <2>1, <2>2, DeviceType
<1> HIDE DEF r
<1>2. \A image \in Seq(Content), protect \in BOOLEAN : SetImage(r, image, protect) \in Device
  BY <1>1, DeviceType
<1>3. ASSUME s.path = NoPath PROVE e \in Device /\ e.image = d.image
  BY <1>1, <1>3 DEF ApplyDiskImageOnReset
<1>4. ASSUME s.path # NoPath, s.path \in DOMAIN Files PROVE e \in Device
  <2>1. Files[s.path] \in Seq(Content) /\ s.protect \in BOOLEAN
    BY <1>4, Z80DiskAssumption DEF Settings
  <2>2. e = SetImage(r, Files[s.path], s.protect)
    BY <1>4 DEF ApplyDiskImageOnReset
  <2>3. QED
    BY <1>2, <2>1, <2>2
<1>5. ASSUME s.path # NoPath, s.path \notin DOMAIN Files PROVE e \in Device
  <2>1. <<>> \in Seq(Content) /\ FALSE \in BOOLEAN
    OBVIOUS
  <2>2. e = SetImage(r, <<>>, FALSE)
    BY <1>5 DEF ApplyDiskImageOnReset
  <2>3. QED
    BY <1>2, <2>1, <2>2
<1>6. QED
  BY <1>3, <1>4, <1>5 DEF r

\* Booting from disk leaves memory of its type.
LEMMA BootType ==
  ASSUME NEW d \in Device, NEW ram \in [Area -> Content], NEW s
  PROVE  ApplyBootFromDiskOnReset(d, ram, s) \in [Area -> Content]
<1>1. d.image # <<>> => d.image[1] \in Content
  <2>1. d.image \in Seq(Content)
    BY DEF Device
  <2>2. QED
    BY <2>1
<1>2. QED
  BY <1>1 DEF ApplyBootFromDiskOnReset

\* What emfe_reset leaves of the machine.
LEMMA ResetType ==
  ASSUME machine \in Machine, staged \in Settings, Reset
  PROVE  /\ machine' \in Machine /\ machine'.inStepMode = machine.inStepMode
         /\ machine'.pc = 0 /\ machine'.did = "disturbed"
         /\ staged.path = NoPath => machine'.disk.image = machine.disk.image
<1> DEFINE g == ResetCpu(machine)
           disk == ApplyDiskImageOnReset(DeviceReset(g.disk), staged)
           ram == ApplyBootFromDiskOnReset(disk, g.ram, staged)
<1>1. /\ g \in Machine /\ g.inStepMode = machine.inStepMode /\ g.disk = machine.disk
      /\ g.pc = 0 /\ g.did = "disturbed"
  BY ResetCpuType
<1>2. machine' = [g EXCEPT !.disk = disk, !.ram = ram]
  BY DEF Reset
<1>3. g.disk \in Device /\ g.ram \in [Area -> Content]
  BY <1>1 DEF Machine
<1> HIDE DEF g
<1>4. disk \in Device /\ (staged.path = NoPath => disk.image = machine.disk.image)
  BY <1>1, <1>3, ResetDiskType
<1> HIDE DEF disk
<1>5. ram \in [Area -> Content]
  BY <1>3, <1>4, BootType
<1> HIDE DEF ram
<1>6. QED
  BY <1>1, <1>2, <1>4, <1>5 DEF Machine

\* A mount changes nothing of the machine but its device.
LEMMA MountType ==
  ASSUME machine \in Machine, MountDiskImage
  PROVE  /\ machine' \in Machine /\ machine'.inStepMode = machine.inStepMode
         /\ machine'.pc = machine.pc /\ machine'.did = "disturbed"
<1>1. PICK x \in Mounts :
        machine' = [machine EXCEPT !.disk = SetImage(@, x.image, x.protect), !.did = "disturbed"]
  BY DEF MountDiskImage
<1> DEFINE disk == SetImage(machine.disk, x.image, x.protect)
<1>2. machine.disk \in Device /\ x.image \in Seq(Content) /\ x.protect \in BOOLEAN
  BY Z80SessionAssumption DEF Machine
<1>3. disk \in Device
  BY <1>2, DeviceType
<1>4. machine' = [machine EXCEPT !.disk = disk, !.did = "disturbed"]
  BY <1>1
<1> HIDE DEF disk
<1>5. QED
  BY <1>3, <1>4 DEF Machine

\* A poke brings the program back, and changes nothing while it is there.
LEMMA PokeType ==
  ASSUME machine \in Machine, PokeProgram
  PROVE  /\ machine' \in Machine /\ machine'.inStepMode = machine.inStepMode
         /\ machine'.pc = machine.pc /\ machine'.disk = machine.disk
         /\ machine.ram[0] = System => machine' = machine
<1> DEFINE ram == [machine.ram EXCEPT ![0] = System]
<1>1. ram \in [Area -> Content]
  BY Z80DiskAssumption DEF Machine, Content
<1>2. machine' = [machine EXCEPT !.ram = ram]
  BY DEF PokeProgram
<1>3. machine.ram[0] = System => ram = machine.ram
  BY DEF Machine
<1> HIDE DEF ram
<1>4. machine.ram[0] = System => machine' = machine
  BY <1>2, <1>3 DEF Machine
<1>5. QED
  BY <1>1, <1>2, <1>4 DEF Machine

\* The device before anything is mounted.
LEMMA NewDeviceType == NewDevice \in Device
<1>1. 0 \in Byte /\ <<>> \in Seq(Content)
  BY Z80DiskAssumption DEF Byte
<1>2. [i \in 0 .. 2 |-> 0] \in [0 .. 2 -> Byte] /\ [i \in 0 .. 1 |-> 0] \in [0 .. 1 -> Byte]
  BY <1>1
<1> DEFINE lba == [i \in 0 .. 2 |-> 0]
           bufPtr == [i \in 0 .. 1 |-> 0]
           none == <<>>
           made == [image |-> none, protected |-> FALSE, lba |-> none, bufPtr |-> none,
                    error |-> FALSE]
<1>3. NewDevice = [made EXCEPT !.lba = lba, !.bufPtr = bufPtr, !.error = FALSE]
  BY DEF NewDevice, DeviceReset
<1> HIDE DEF lba, bufPtr, none
<1>4. NewDevice = [image |-> none, protected |-> FALSE, lba |-> lba, bufPtr |-> bufPtr,
                   error |-> FALSE]
  BY <1>3
<1>5. none \in Seq(Content) /\ lba \in [0 .. 2 -> Byte] /\ bufPtr \in [0 .. 1 -> Byte]
  BY <1>1, <1>2 DEF none, lba, bufPtr
<1>6. QED
  BY <1>4, <1>5 DEF Device

\* The settings that a dialog may leave.
LEMMA SettingsType == staged \in Edits \cup {Defaults} => staged \in Settings
<1>1. Defaults \in Settings
  BY DEF Defaults, Settings, Paths, NoPath
<1>2. QED
  BY <1>1, Z80SessionAssumption

\* emfe_create.
LEMMA InitHolds == Init => IInv
<1> SUFFICES ASSUME Init PROVE IInv
  OBVIOUS
<1>1. PICK r \in Requests :
        machine = ResetCpu([pc |-> 0, sp |-> 0, stack |-> [k \in 0 .. (Slots - 1) |-> 0],
                            halted |-> FALSE, inStepMode |-> FALSE, ok |-> FALSE,
                            answer |-> "none", want |-> r, ram |-> <<>>,
                            disk |-> NewDevice, hit |-> FALSE, did |-> "nothing"])
  BY DEF Init
<1> DEFINE stack == [k \in 0 .. (Slots - 1) |-> 0]
           ram == [a \in Area |-> Zero]
           disk == NewDevice
<1>2. machine = [pc |-> 0, sp |-> 0, stack |-> stack, halted |-> FALSE, inStepMode |-> FALSE,
                 ok |-> FALSE, answer |-> "none", want |-> r, ram |-> ram, disk |-> disk,
                 hit |-> FALSE, did |-> "disturbed"]
  BY <1>1 DEF ResetCpu
<1>3. stack \in [0 .. (Slots - 1) -> Addr] /\ 0 \in Addr /\ 0 \in 0 .. (Slots - 1)
  BY Z80CpuAssumption DEF Addr
<1>4. ram \in [Area -> Content] /\ disk \in Device
  BY NewDeviceType DEF Content
<1> HIDE DEF stack, ram, disk
<1>5. machine \in Machine /\ ~machine.inStepMode
  BY <1>2, <1>3, <1>4 DEF Machine
<1>6. TypeOK
  <2>1. 0 \in 0 .. StepLimit
    BY Z80SessionAssumption
  <2>2. {} \subseteq BpAddr /\ {} \subseteq Watchpoint
    OBVIOUS
  <2>3. QED
    BY <1>3, <1>5, <2>1, <2>2 DEF Init, TypeOK
<1>7. OneDriver /\ StepModeIsOneShot /\ OneEntryPerAddress
  BY <1>5 DEF Init, OneDriver, StepModeIsOneShot, OneEntryPerAddress
<1>8. host \notin {"over", "out"}
  BY DEF Init
<1>9. QED
  BY <1>6, <1>7, <1>8 DEF IInv, SessionInv

\* The locals of a call are those given, or none.
LEMMA InType ==
  ASSUME NEW call \in {"over", "out"}, NEW ret \in Addr, NEW sp \in 0 .. (Slots - 1),
         NEW left \in 0 .. StepLimit, In(call, ret, sp, left)
  PROVE  /\ host' \in {"idle", call} /\ target' \in Addr /\ startSp' \in 0 .. (Slots - 1)
         /\ budget' \in 0 .. StepLimit
         /\ host' \in {"over", "out"} => budget' >= 1 /\ host' = call /\ budget' = left
BY Z80CpuAssumption, Z80SessionAssumption DEF In, Addr

\* Every call and every step of a thread.
LEMMA StepHolds == IInv /\ [Next]_vars => IInv'
<1> SUFFICES ASSUME IInv, [Next]_vars PROVE IInv'
  OBVIOUS
<1> USE DEF IInv, SessionInv
<1>0. TypeOK /\ machine \in Machine /\ staged \in Settings /\ StepLimit \in Nat \ {0}
  BY SettingsType, Z80SessionAssumption DEF TypeOK
<1>1. CASE Step
  <2>1. [machine EXCEPT !.inStepMode = TRUE] \in Machine
    BY <1>0 DEF Machine
  <2>2. PICK o \in ExecuteOne([machine EXCEPT !.inStepMode = TRUE]) :
          machine' = [o.after EXCEPT !.hit = FALSE]
    BY <1>1 DEF Step
  <2>3. o.after \in Machine /\ ~o.after.inStepMode
    BY <2>1, ExecuteOneType
  <2>4. machine' \in Machine /\ ~machine'.inStepMode
    BY <2>2, <2>3, TakenType
  <2>5. QED
    BY <1>1, <2>4 DEF Step, runVars, callVars, bpVars, TypeOK, OneDriver, StepModeIsOneShot,
                      OneEntryPerAddress
<1>2. CASE StepOver
  <2>1. PICK i \in Fetched(machine) :
          \E o \in IF machine.halted THEN {[ran |-> TRUE, after |-> machine]}
                    ELSE Executed(machine, i) :
            /\ machine' = [o.after EXCEPT !.hit = FALSE]
            /\ In("over", Ahead(machine.pc, CallOpcodeLen(i.op)), machine.sp,
                  IF o.after.hit \/ o.after.pc = Ahead(machine.pc, CallOpcodeLen(i.op)) THEN 0
                  ELSE StepLimit)
    BY <1>2 DEF StepOver
  <2>2. PICK o \in IF machine.halted THEN {[ran |-> TRUE, after |-> machine]}
                   ELSE Executed(machine, i) :
            /\ machine' = [o.after EXCEPT !.hit = FALSE]
            /\ In("over", Ahead(machine.pc, CallOpcodeLen(i.op)), machine.sp,
                  IF o.after.hit \/ o.after.pc = Ahead(machine.pc, CallOpcodeLen(i.op)) THEN 0
                  ELSE StepLimit)
    BY <2>1
  <2>3. ~machine.inStepMode
    BY <1>2 DEF StepOver, MayStep, StepModeIsOneShot
  <2>4. o.after \in Machine /\ ~o.after.inStepMode
    <3>1. CASE machine.halted
      <4>1. o = [ran |-> TRUE, after |-> machine]
        BY <2>2, <3>1
      <4>2. QED
        BY <1>0, <2>3, <4>1
    <3>2. CASE ~machine.halted
      <4>1. o \in Executed(machine, i)
        BY <2>2, <3>2
      <4>2. i \in Instr
        BY <1>0, FetchedType
      <4>3. QED
        BY <1>0, <2>3, <4>1, <4>2, ExecutedType
    <3>3. QED
      BY <3>1, <3>2
  <2>5. machine' \in Machine /\ ~machine'.inStepMode
    BY <2>2, <2>4, TakenType
  <2>6. Ahead(machine.pc, CallOpcodeLen(i.op)) \in Addr /\ machine.sp \in 0 .. (Slots - 1)
    <3>1. CallOpcodeLen(i.op) \in Nat /\ machine.pc \in Addr /\ machine.sp \in 0 .. (Slots - 1)
      BY <1>0 DEF CallOpcodeLen, Machine
    <3>2. QED
      BY <3>1, AheadType
  <2>7. /\ host' \in {"idle", "over"} /\ target' \in Addr /\ startSp' \in 0 .. (Slots - 1)
        /\ budget' \in 0 .. StepLimit
        /\ host' \in {"over", "out"} => budget' >= 1
    <3> DEFINE left == IF o.after.hit \/ o.after.pc = Ahead(machine.pc, CallOpcodeLen(i.op)) THEN 0
                       ELSE StepLimit
    <3>1. left \in 0 .. StepLimit /\ In("over", Ahead(machine.pc, CallOpcodeLen(i.op)), machine.sp, left)
      BY <1>0, <2>2
    <3> HIDE DEF left
    <3>2. QED
      BY <2>6, <3>1, InType
  <2>8. state # "RUNNING"
    BY <1>2 DEF StepOver, MayStep
  <2>9. QED
    BY <1>2, <2>5, <2>7, <2>8
    DEF StepOver, runVars, bpVars, TypeOK, OneDriver, StepModeIsOneShot, OneEntryPerAddress
<1>3. CASE StepOut
  <2>1. machine' \in Machine
    BY <1>0, <1>3 DEF StepOut, Machine
  <2>2. machine.sp \in 0 .. (Slots - 1) /\ 0 \in Addr
    BY <1>0, Z80CpuAssumption DEF Machine, Addr
  <2>3. host' = "out" /\ budget' = StepLimit /\ target' = 0 /\ startSp' = machine.sp
    BY <1>0, <1>3 DEF StepOut, In
  <2>4. QED
    BY <1>0, <1>3, <2>1, <2>2, <2>3
    DEF StepOut, MayStep, runVars, bpVars, TypeOK, OneDriver, StepModeIsOneShot, OneEntryPerAddress
<1>4. CASE Drive
  <2>1. host \in {"over", "out"} /\ budget \in 1 .. StepLimit
    BY <1>4 DEF Drive, TypeOK
  <2>2. PICK o \in ExecuteOne(machine) :
          /\ machine' = Taken(o)
          /\ In(host, target, startSp,
                IF ~o.ran \/ o.after.hit \/ Back(o.after) THEN 0 ELSE budget - 1)
    BY <1>4 DEF Drive
  <2>3. o.after \in Machine /\ ~o.after.inStepMode
    BY <1>0, ExecuteOneType
  <2>4. machine' \in Machine /\ ~machine'.inStepMode
    BY <2>2, <2>3, TakenType
  <2>5. /\ host' \in {"idle", host} /\ target' \in Addr /\ startSp' \in 0 .. (Slots - 1)
        /\ budget' \in 0 .. StepLimit
        /\ host' \in {"over", "out"} => budget' >= 1
    <3> DEFINE left == IF ~o.ran \/ o.after.hit \/ Back(o.after) THEN 0 ELSE budget - 1
    <3>1. left \in 0 .. StepLimit /\ In(host, target, startSp, left)
      BY <1>0, <2>1, <2>2
    <3> HIDE DEF left
    <3>2. target \in Addr /\ startSp \in 0 .. (Slots - 1)
      BY DEF TypeOK
    <3>3. QED
      BY <2>1, <3>1, <3>2, InType
  <2>6. QED
    BY <1>4, <2>1, <2>4, <2>5
    DEF Drive, runVars, bpVars, TypeOK, OneDriver, StepModeIsOneShot, OneEntryPerAddress
<1>5. CASE WorkerExecute
  <2>1. CASE stopRequested
    BY <1>5, <2>1
    DEF WorkerExecute, Looping, callVars, bpVars, TypeOK, OneDriver, StepModeIsOneShot,
        OneEntryPerAddress
  <2>2. CASE ~stopRequested
    <3>1. PICK o \in ExecuteOne(machine) :
            machine' = Taken(o) /\ worker' = IF ~o.ran \/ o.after.hit THEN "leave" ELSE "run"
      BY <1>5, <2>2 DEF WorkerExecute
    <3>2. o.after \in Machine /\ ~o.after.inStepMode
      BY <1>0, ExecuteOneType
    <3>3. machine' \in Machine /\ ~machine'.inStepMode /\ worker' \in {"leave", "run"}
      BY <3>1, <3>2, TakenType
    <3>4. QED
      BY <1>5, <3>3
      DEF WorkerExecute, Looping, callVars, bpVars, TypeOK, OneDriver, StepModeIsOneShot,
        OneEntryPerAddress
  <2>3. QED
    BY <2>1, <2>2 DEF TypeOK
<1>6. CASE Run \/ WorkerLeave \/ Stop \/ Joined \/ UNCHANGED vars
  BY <1>6
  DEF Run, WorkerLeave, Stop, Joined, vars, runVars, callVars, bpVars, TypeOK, OneDriver,
      StepModeIsOneShot, OneEntryPerAddress
<1>7. CASE Reset
  <2>1. machine' \in Machine /\ machine'.inStepMode = machine.inStepMode
    BY <1>0, <1>7, ResetType
  <2>2. QED
    BY <1>7, <2>1
    DEF Reset, runVars, callVars, bpVars, TypeOK, OneDriver, StepModeIsOneShot, OneEntryPerAddress
<1>8. CASE MountDiskImage
  <2>1. machine' \in Machine /\ machine'.inStepMode = machine.inStepMode
    BY <1>0, <1>8, MountType
  <2>2. QED
    BY <1>8, <2>1
    DEF MountDiskImage, runVars, callVars, bpVars, TypeOK, OneDriver, StepModeIsOneShot,
        OneEntryPerAddress
<1>9. CASE PokeProgram
  <2>1. machine' \in Machine /\ machine'.inStepMode = machine.inStepMode
    BY <1>0, <1>9, PokeType
  <2>2. QED
    BY <1>9, <2>1
    DEF PokeProgram, runVars, callVars, bpVars, TypeOK, OneDriver, StepModeIsOneShot,
        OneEntryPerAddress
<1>10. CASE SetSetting
  BY <1>10
  DEF SetSetting, runVars, callVars, bpVars, TypeOK, OneDriver, StepModeIsOneShot,
      OneEntryPerAddress
<1>11. CASE EditBreakpoints
  <2>1. /\ enabledBreakpoints' \subseteq BpAddr /\ disabledBreakpoints' \subseteq BpAddr
        /\ enabledBreakpoints' \cap disabledBreakpoints' = {}
    BY <1>11 DEF EditBreakpoints, EnableBreakpoint, TypeOK, OneEntryPerAddress
  <2>2. QED
    BY <1>11, <2>1
    DEF EditBreakpoints, runVars, callVars, TypeOK, OneDriver, StepModeIsOneShot,
        OneEntryPerAddress
<1>12. CASE EditWatchpoints
  <2>1. watchpoints' \subseteq Watchpoint
        /\ \A v, w \in watchpoints' : v.addr = w.addr => v = w
    <3>1. CASE \E w \in Watchpoints : RoomFor(w.addr) /\ AddWatchpoint(w)
      BY <3>1, Z80SessionAssumption DEF AddWatchpoint, TypeOK, OneEntryPerAddress
    <3>2. CASE \E w \in watchpoints : watchpoints' = watchpoints \ {w}
      BY <3>2 DEF TypeOK, OneEntryPerAddress
    <3>3. CASE \E w \in watchpoints, on \in BOOLEAN : EnableWatchpoint(w, on)
      <4>1. PICK w \in watchpoints, on \in BOOLEAN :
              watchpoints' = (watchpoints \ {w}) \cup {[w EXCEPT !.enabled = on]}
        BY <3>3 DEF EnableWatchpoint
      <4> DEFINE changed == [w EXCEPT !.enabled = on]
      <4>2. changed \in Watchpoint /\ changed.addr = w.addr
        BY DEF TypeOK, Watchpoint
      <4> HIDE DEF changed
      <4>3. watchpoints' = (watchpoints \ {w}) \cup {changed}
        BY <4>1 DEF changed
      <4>4. QED
        BY <4>2, <4>3 DEF TypeOK, OneEntryPerAddress
    <3>4. CASE watchpoints' = {}
      BY <3>4
    <3>5. QED
      BY <1>12, <3>1, <3>2, <3>3, <3>4 DEF EditWatchpoints
  <2>2. QED
    BY <1>12, <2>1
    DEF EditWatchpoints, runVars, callVars, bpVars, TypeOK, OneDriver, StepModeIsOneShot,
        OneEntryPerAddress
<1>13. QED
  BY <1>1, <1>2, <1>3, <1>4, <1>5, <1>6, <1>7, <1>8, <1>9, <1>10, <1>11, <1>12 DEF Next

\* A frontend and a worker share the machine, and the rest of the instance keeps
\* its shape: between any two steps everything has its type, only one of them
\* drives the guest, the flag of a step is set only for the first instruction of a
\* step-out, and no address has two points of a kind.
THEOREM SessionSafe == Spec => []SessionInv
<1>1. IInv => SessionInv
  BY DEF IInv
<1>2. QED
  BY <1>1, InitHolds, StepHolds, PTL DEF Spec

\* SessionInv with what makes it inductive, in every state of a behaviour.
LEMMA Invariance == Spec => []IInv
BY InitHolds, StepHolds, PTL DEF Spec
-----------------------------------------------------------------------------
(***************************************************************************)
(* What a step may do.                                                     *)
(***************************************************************************)
\* ExecuteCommand: between the host's mounts, and resets that load an image, an
\* image changes only by the guest's WRITE, in the sector addressed, to what the
\* buffer holds, and never when it is protected, for every program and every
\* interleaving of the worker with the calls.
THEOREM ImageGuarded == Spec => ImageIsGuarded
<1> DEFINE Kept == LET d == machine.disk  e == machine'.disk IN
                   \/ e.image = d.image
                   \/ MountDiskImage
                   \/ Reset /\ staged.path # NoPath
                   \/ /\ ~d.protected /\ Len(e.image) = Len(d.image)
                      /\ e.image = [d.image EXCEPT ![Lba(d) + 1] = machine.ram[BufPtr(d)]]
<1>1. ASSUME IInv, [Next]_vars PROVE Kept
  <2>1. machine \in Machine /\ staged \in Settings
    BY <1>1, SettingsType DEF IInv, SessionInv, TypeOK
  <2>2. Guarded(machine.disk, machine.ram, machine'.disk) => Kept
    BY DEF Guarded
  <2>3. machine' = machine => Kept
    OBVIOUS
  <2>4. CASE Step
    <3> DEFINE g == [machine EXCEPT !.inStepMode = TRUE]
    <3>1. g \in Machine /\ g.disk = machine.disk /\ g.ram = machine.ram
      BY <2>1 DEF Machine
    <3>2. PICK o \in ExecuteOne(g) : machine' = [o.after EXCEPT !.hit = FALSE]
      BY <2>4 DEF Step
    <3> HIDE DEF g
    <3>3. o.after \in Machine /\ Guarded(g.disk, g.ram, o.after.disk)
      BY <3>1, ExecuteOneType
    <3>4. machine'.disk = o.after.disk
      BY <3>2, <3>3, TakenType
    <3>5. QED
      BY <2>2, <3>1, <3>3, <3>4
  <2>5. CASE StepOver
    <3>1. PICK i \in Fetched(machine) :
            \E o \in IF machine.halted THEN {[ran |-> TRUE, after |-> machine]}
                      ELSE Executed(machine, i) : machine' = [o.after EXCEPT !.hit = FALSE]
      BY <2>5 DEF StepOver
    <3>2. PICK o \in IF machine.halted THEN {[ran |-> TRUE, after |-> machine]}
                     ELSE Executed(machine, i) : machine' = [o.after EXCEPT !.hit = FALSE]
      BY <3>1
    <3>3. o.after \in Machine /\ Guarded(machine.disk, machine.ram, o.after.disk)
      <4>1. CASE machine.halted
        <5>1. o = [ran |-> TRUE, after |-> machine]
          BY <3>2, <4>1
        <5>2. QED
          BY <2>1, <5>1 DEF Guarded
      <4>2. CASE ~machine.halted
        <5>1. o \in Executed(machine, i) /\ i \in Instr
          BY <2>1, <3>2, <4>2, FetchedType
        <5>2. QED
          BY <2>1, <5>1, ExecutedType
      <4>3. QED
        BY <4>1, <4>2
    <3>4. machine'.disk = o.after.disk
      BY <3>2, <3>3, TakenType
    <3>5. QED
      BY <2>2, <3>3, <3>4
  <2>6. CASE StepOut
    <3>1. machine'.disk = machine.disk
      BY <2>1, <2>6 DEF StepOut, Machine
    <3>2. QED
      BY <3>1
  <2>7. ASSUME NEW o \in ExecuteOne(machine), machine' = Taken(o) PROVE Kept
    <3>1. o.after \in Machine /\ Guarded(machine.disk, machine.ram, o.after.disk)
      BY <2>1, ExecuteOneType
    <3>2. machine'.disk = o.after.disk
      BY <2>7, <3>1, TakenType
    <3>3. QED
      BY <2>2, <3>1, <3>2
  <2>8. CASE Drive
    BY <2>7, <2>8 DEF Drive
  <2>9. CASE WorkerExecute
    BY <2>3, <2>7, <2>9 DEF WorkerExecute
  <2>10. CASE Reset
    BY <2>1, <2>10, ResetType
  <2>11. CASE MountDiskImage
    BY <2>11
  <2>12. CASE PokeProgram
    BY <2>1, <2>12, PokeType
  <2>13. CASE Run \/ WorkerLeave \/ Stop \/ Joined \/ SetSetting \/ EditBreakpoints
             \/ EditWatchpoints \/ UNCHANGED vars
    BY <2>3, <2>13
    DEF Run, WorkerLeave, Stop, Joined, SetSetting, EditBreakpoints, EditWatchpoints, vars
  <2>14. QED
    BY <1>1, <2>4, <2>5, <2>6, <2>8, <2>9, <2>10, <2>11, <2>12, <2>13 DEF Next
<1>2. IInv /\ [Next]_vars => [Kept]_vars
  BY <1>1
<1>3. QED
  BY <1>2, Invariance, PTL DEF Spec, ImageIsGuarded

\* ExecuteOne tests the enabled set unless the flag of a step is set: neither the
\* worker nor a call that drives the guest executes an instruction at an enabled
\* breakpoint after its first, whatever points are edited meanwhile.
THEOREM BreakpointStops == Spec => BreakpointHonoured
<1> DEFINE Stays == machine.pc \in enabledBreakpoints /\ machine'.pc # machine.pc
                      => \/ host = "idle" /\ worker = "none"
                         \/ worker = "start"
                         \/ machine.inStepMode
                         \/ Reset
<1>1. ASSUME IInv, [Next]_vars PROVE Stays
  <2>1. machine \in Machine /\ staged \in Settings
    BY <1>1, SettingsType DEF IInv, SessionInv, TypeOK
  <2>2. MayStep => host = "idle" /\ worker = "none"
    BY <1>1 DEF MayStep, IInv, SessionInv, TypeOK, OneDriver
  <2>3. machine'.pc = machine.pc => Stays
    OBVIOUS
  <2>4. CASE Step \/ StepOver \/ StepOut
    BY <2>2, <2>4 DEF Step, StepOver, StepOut
  <2>5. ASSUME NEW o \in ExecuteOne(machine), machine' = Taken(o) PROVE Stays
    <3>1. /\ o.after \in Machine
          /\ ~machine.inStepMode /\ machine.pc \in enabledBreakpoints => ~o.ran /\ o.after = machine
      BY <2>1, ExecuteOneType
    <3>2. machine'.pc = o.after.pc
      BY <2>5, <3>1, TakenType
    <3>3. QED
      BY <3>1, <3>2
  <2>6. CASE Drive
    BY <2>5, <2>6 DEF Drive
  <2>7. CASE WorkerExecute
    BY <2>3, <2>5, <2>7 DEF WorkerExecute
  <2>8. CASE Reset
    BY <2>8
  <2>9. CASE MountDiskImage \/ PokeProgram
    BY <2>1, <2>3, <2>9, MountType, PokeType
  <2>10. CASE Run \/ WorkerLeave \/ Stop \/ Joined \/ SetSetting \/ EditBreakpoints
             \/ EditWatchpoints \/ UNCHANGED vars
    BY <2>3, <2>10
    DEF Run, WorkerLeave, Stop, Joined, SetSetting, EditBreakpoints, EditWatchpoints, vars
  <2>11. QED
    BY <1>1, <2>4, <2>6, <2>7, <2>8, <2>9, <2>10 DEF Next
<1>2. IInv /\ [Next]_vars => [Stays]_vars
  BY <1>1
<1>3. QED
  BY <1>2, Invariance, PTL DEF Spec, BreakpointHonoured

\* CheckWatchpoint and TakeWatchpointHit: after an instruction that read its opcode
\* from, or wrote its variable to, a byte that an enabled watchpoint covers, the
\* worker leaves its loop.
THEOREM WatchedAccessStops == Spec => WatchHonoured
<1> DEFINE Watched == \E w \in watchpoints :
                        /\ w.enabled
                        /\ \/ w.kind # "write" /\ machine.pc \in Covers(w)
                           \/ w.kind # "read" /\ Code[machine.pc].op = "ask" /\ CurSec \in Covers(w)
           Starts == /\ Looping /\ machine' # machine /\ ~machine.halted /\ host' = host
                     /\ machine.ram[0] = System /\ machine.pc \in DOMAIN Code
           Leaves == worker' = "leave" \/ Reset \/ MountDiskImage
<1>1. ASSUME IInv, [Next]_vars, Starts, Watched PROVE Leaves
  <2>1. machine \in Machine /\ staged \in Settings
    BY <1>1, SettingsType DEF IInv, SessionInv, TypeOK
  <2>2. state = "RUNNING" /\ host \notin {"over", "out"}
    BY <1>1 DEF IInv, SessionInv, OneDriver, Looping
  <2>3. CASE WorkerExecute
    <3>1. PICK o \in ExecuteOne(machine) :
            worker' = IF ~o.ran \/ o.after.hit THEN "leave" ELSE "run"
      BY <1>1, <2>3 DEF WorkerExecute
    <3> DEFINE i == Code[machine.pc]
    <3>2. Fetched(machine) = {i}
      BY <1>1, Z80DiskAssumption DEF Fetched
    <3>3. ~o.ran \/ (CheckWatchpoint(Reads(machine.pc, i.op), Writes(i.op)) => o.after.hit)
      BY <1>1, <2>1, <3>2, ExecuteOneType
    <3>4. machine.pc \in Reads(machine.pc, i.op)
      BY <2>1, ReadsItself DEF Machine
    <3>5. i.op = "ask" => CurSec \in Writes(i.op)
      BY DEF Writes
    <3>6. CheckWatchpoint(Reads(machine.pc, i.op), Writes(i.op))
      BY <1>1, <3>4, <3>5 DEF CheckWatchpoint
    <3>7. QED
      BY <3>1, <3>3, <3>6
  <2>4. CASE Reset \/ MountDiskImage
    BY <2>4
  <2>5. CASE PokeProgram
    BY <1>1, <2>1, <2>5, PokeType
  <2>6. ~(Step \/ StepOver \/ StepOut \/ Drive \/ Run)
    BY <2>2 DEF Step, StepOver, StepOut, MayStep, Drive, Run
  <2>7. ~(WorkerLeave \/ Stop \/ Joined \/ SetSetting \/ EditBreakpoints \/ EditWatchpoints
          \/ UNCHANGED vars)
    BY <1>1
    DEF WorkerLeave, Stop, Joined, SetSetting, EditBreakpoints, EditWatchpoints, vars
  <2>8. QED
    BY <1>1, <2>3, <2>4, <2>5, <2>6, <2>7 DEF Next
<1>2. IInv /\ [Next]_vars => [Starts /\ Watched => Leaves]_vars
  BY <1>1
<1>3. QED
  BY <1>2, Invariance, PTL DEF Spec, WatchHonoured
-----------------------------------------------------------------------------
(***************************************************************************)
(* The transfer routines of the CBIOS (cbios.asm), the program Bios of     *)
(* MCZ80: what holds at each of their addresses, and that every call and   *)
(* every step of a thread keeps it.                                        *)
(***************************************************************************)
\* The transfer routines are loaded: they send a read or a write, where they are
\* no address wraps, and the stack has room for their two calls.
CbiosGuest ==
  /\ Code = Bios /\ LastAddr >= 34 /\ Slots >= 2
  /\ \A r \in Requests : r.cmd \in {"read", "write"}

Top(g) == g.stack[g.sp]
Under(g) == g.stack[(g.sp + 1) % Slots]

\* The request is in the variables and nothing has been done about it.
Fresh(g) == g.answer = "none" /\ g.did = "nothing"

\* Where SETUP_DISK has been behind the instruction before p.
Behind(p) == {11} \cup (p .. 29)

\* What holds at each address of the program, from a request on.
Annotated(g) ==
  /\ g.pc \in DOMAIN Bios \/ g.halted
  /\ g.pc \in {1, 8} \cup Behind(19) => Fresh(g)
  /\ g.pc = 32 => Top(g) = 5
  /\ g.pc \in {8, 11, 13, 15, 16, 18} => Top(g) = 4
  /\ g.pc \in 19 .. 29 => Top(g) = 11 /\ Under(g) = 4
  /\ g.pc \in Behind(21) => g.disk.lba[0] = Digit(g.want.lba, 0)
  /\ g.pc \in Behind(23) => g.disk.lba[1] = Digit(g.want.lba, 1)
  /\ g.pc \in Behind(25) => g.disk.lba[2] = Digit(g.want.lba, 2)
  /\ g.pc \in Behind(27) => g.disk.bufPtr[0] = Digit(g.want.buf, 0)
  /\ g.pc \in Behind(29) => g.disk.bufPtr[1] = Digit(g.want.buf, 1)
  /\ g.pc \in {13, 15, 16, 18} => g.answer # "ok"
  /\ g.pc = 13 /\ ~g.disk.error => g.did = "done"
  /\ g.pc = 15 /\ g.ok => g.did = "done"

\* Unless the host has disturbed the transfer, the program goes by its text.
Faithful(g) ==
  g.did # "disturbed" =>
    /\ g.ram[0] = System /\ g.did # "astray"
    /\ g.answer = "ok" => g.did = "done"
    /\ Annotated(g)

\* What the text says at each address.
LEMMA BiosLines ==
  ASSUME CbiosGuest
  PROVE  /\ Code[0] = I("ask") /\ Code[1] = To("callcc", 8) /\ Code[4] = To("rst", 32)
         /\ Code[5] = To("jump", 0)
         /\ Code[8] = To("call", 19) /\ Code[11] = I("command") /\ Code[13] = I("status")
         /\ Code[15] = I("retok") /\ Code[16] = I("fail") /\ Code[18] = I("ret")
         /\ Code[19] = To("lba", 0) /\ Code[21] = To("lba", 1) /\ Code[23] = To("lba", 2)
         /\ Code[25] = To("buf", 0) /\ Code[27] = To("buf", 1) /\ Code[29] = I("ret")
         /\ Code[32] = I("retcc") /\ Code[33] = I("halt")
         /\ DOMAIN Code = {0, 1, 4, 5, 8, 11, 13, 15, 16, 18, 19, 21, 23, 25, 27, 29, 32, 33}
BY DEF CbiosGuest, Bios

\* The slot of a pushed word, and the one above it.
LEMMA SlotOfPush ==
  ASSUME CbiosGuest, NEW sp \in 0 .. (Slots - 1)
  PROVE  LET top == (sp + Slots - 1) % Slots IN
         /\ top \in 0 .. (Slots - 1) /\ top # sp /\ (top + 1) % Slots = sp
<1>1. Slots \in Nat /\ Slots >= 2
  BY Z80CpuAssumption DEF CbiosGuest
<1>2. CASE sp = 0
  <2>1. (sp + Slots - 1) % Slots = Slots - 1 /\ (Slots - 1 + 1) % Slots = 0
    BY <1>1, <1>2
  <2>2. QED
    BY <1>1, <1>2, <2>1
<1>3. CASE sp # 0
  <2>1. sp - 1 \in 0 .. (Slots - 1) /\ sp + Slots - 1 = (sp - 1) + Slots
    BY <1>1, <1>3
  <2>2. (sp + Slots - 1) % Slots = sp - 1
    BY <1>1, <2>1
  <2>3. ((sp - 1) + 1) % Slots = sp
    BY <1>1, <1>3
  <2>4. QED
    BY <1>1, <1>3, <2>1, <2>2, <2>3
<1>4. QED
  BY <1>2, <1>3

\* Registers that hold the digits of a number hold that number.
LEMMA DigitsOf ==
  ASSUME NEW d \in Device, NEW n \in 0 .. (Base * Base - 1),
         NEW b \in 0 .. (Base * Base - 1)
  PROVE  /\ (\A i \in 0 .. 2 : d.lba[i] = Digit(n, i)) => Lba(d) = n
         /\ (\A i \in 0 .. 1 : d.bufPtr[i] = Digit(b, i)) => BufPtr(d) = b
<1>1. Base \in Nat /\ Base >= 2 /\ Base * Base \in Nat /\ Base * Base # 0
  BY Z80DiskAssumption
<1>2. ASSUME NEW m \in 0 .. (Base * Base - 1)
      PROVE  /\ Digit(m, 0) = m % Base /\ Digit(m, 1) = m \div Base /\ Digit(m, 2) = 0
             /\ m = (m % Base) + Base * (m \div Base)
  <2>1. m \in Nat /\ m < Base * Base
    BY <1>1
  <2>2. m \div Base \in Nat /\ m = (m % Base) + Base * (m \div Base) /\ m % Base \in Nat
    BY <1>1, <2>1
  <2>3. m \div Base < Base
    <3>1. SUFFICES ASSUME Base <= m \div Base PROVE FALSE
      BY <1>1, <2>2
    <3>2. \A p, q, r \in Nat : p <= q => r * p <= r * q
      OBVIOUS
    <3>3. Base * Base <= Base * (m \div Base)
      BY <1>1, <2>2, <3>1, <3>2
    <3> DEFINE x == Base * (m \div Base)
               y == Base * Base
    <3>4. x \in Nat /\ y \in Nat
      BY <1>1, <2>2
    <3> HIDE DEF x, y
    <3>5. m = (m % Base) + x /\ m < y /\ y <= x
      BY <2>1, <2>2, <3>3 DEF x, y
    <3>6. QED
      BY <2>1, <2>2, <3>4, <3>5
  <2>4. (m \div Base) % Base = m \div Base
    BY <1>1, <2>2, <2>3
  <2>5. m \div (Base * Base) = 0
    BY <1>1, <2>1
  <2>6. 0 % Base = 0 /\ m \div 1 = m
    BY <1>1, <2>1
  <2>7. /\ Digit(m, 0) = (m \div 1) % Base /\ Digit(m, 1) = (m \div Base) % Base
        /\ Digit(m, 2) = (m \div (Base * Base)) % Base
    BY DEF Digit
  <2>8. QED
    BY <2>2, <2>4, <2>5, <2>6, <2>7
<1>3. ASSUME \A i \in 0 .. 2 : d.lba[i] = Digit(n, i) PROVE Lba(d) = n
  <2>1. d.lba[0] = n % Base /\ d.lba[1] = n \div Base /\ d.lba[2] = 0
    BY <1>2, <1>3
  <2>2. Base * Base * 0 = 0
    BY <1>1
  <2>3. n % Base \in Nat /\ Base * (n \div Base) \in Nat
    BY <1>1
  <2>4. QED
    BY <1>2, <2>1, <2>2, <2>3 DEF Lba
<1>4. ASSUME \A i \in 0 .. 1 : d.bufPtr[i] = Digit(b, i) PROVE BufPtr(d) = b
  BY <1>2, <1>4 DEF BufPtr
<1>5. QED
  BY <1>3, <1>4

\* Two machines that differ in PC and in what the debugger leaves there at most.
Agrees(g, h) ==
  /\ h.sp = g.sp /\ h.stack = g.stack /\ h.halted = g.halted /\ h.ok = g.ok
  /\ h.answer = g.answer /\ h.want = g.want /\ h.ram = g.ram /\ h.disk = g.disk
  /\ h.did = g.did

\* Nothing but what Agrees names counts.
LEMMA AgreesFaithful ==
  ASSUME NEW g, NEW h, Agrees(g, h), h.pc = g.pc, Faithful(g)
  PROVE  Faithful(h)
BY DEF Agrees, Faithful, Annotated, Fresh, Top, Under

\* No address of the program wraps.
LEMMA AheadOf ==
  ASSUME CbiosGuest, NEW a \in 0 .. 33, NEW n \in 1 .. 3, a + n <= 34
  PROVE  Ahead(a, n) = a + n
<1>1. LastAddr \in Nat /\ LastAddr >= 34 /\ a + n \in Nat /\ a + n < LastAddr + 1
  BY Z80CpuAssumption DEF CbiosGuest
<1>2. QED
  BY <1>1 DEF Ahead

\* A call pushes the address behind it on what was on top.
LEMMA CallFields ==
  ASSUME CbiosGuest, NEW g \in Machine, NEW a \in Addr
  PROVE  LET e == Call(g, a) IN
         /\ e.pc = a /\ Top(e) = g.pc /\ Under(e) = Top(g)
         /\ e.answer = g.answer /\ e.want = g.want /\ e.ram = g.ram /\ e.disk = g.disk
         /\ e.did = g.did /\ e.ok = g.ok /\ e.halted = g.halted
<1> DEFINE top == (g.sp + Slots - 1) % Slots
           stack == [g.stack EXCEPT ![top] = g.pc]
<1>1. g.sp \in 0 .. (Slots - 1) /\ g.stack \in [0 .. (Slots - 1) -> Addr]
  BY DEF Machine
<1>2. top \in 0 .. (Slots - 1) /\ top # g.sp /\ (top + 1) % Slots = g.sp
  BY <1>1, SlotOfPush
<1>3. Call(g, a) = [g EXCEPT !.sp = top, !.stack = stack, !.pc = a]
  BY DEF Call, Push16, Machine
<1> HIDE DEF top
<1>4. stack[top] = g.pc /\ stack[g.sp] = g.stack[g.sp]
  BY <1>1, <1>2
<1> HIDE DEF stack
<1>5. QED
  BY <1>2, <1>3, <1>4 DEF Top, Under, Machine

\* A return goes to what was on top and uncovers what was under it.
LEMMA ReturnFields ==
  ASSUME NEW g \in Machine
  PROVE  LET e == Return(g) IN
         /\ e.pc = Top(g) /\ Top(e) = Under(g)
         /\ e.answer = g.answer /\ e.want = g.want /\ e.ram = g.ram /\ e.disk = g.disk
         /\ e.did = g.did /\ e.ok = g.ok /\ e.halted = g.halted
BY DEF Return, Top, Under, Machine

\* A new request leaves the program's text where it was.
LEMMA AskFaithful ==
  ASSUME CbiosGuest, NEW h \in Machine, h.pc = 1, h.ram[0] = System, NEW e \in Ask(h)
  PROVE  Faithful(e)
<1>1. PICK r \in Requests, v \in Fills : e = Asked(h, r, v)
  BY DEF Ask
<1> DEFINE ram == [h.ram EXCEPT ![r.buf] = v]
<1>2. h.ram \in [Area -> Content] /\ r.buf # 0
  BY Z80CpuAssumption DEF Machine
<1>3. e = [h EXCEPT !.want = r, !.ram = ram, !.answer = "none", !.did = "nothing"]
  BY <1>1 DEF Asked, Machine
<1>4. ram[0] = System
  BY <1>2
<1> HIDE DEF ram
<1>5. /\ e.pc = 1 /\ e.ram = ram /\ e.answer = "none" /\ e.did = "nothing"
  BY <1>3 DEF Machine
<1>6. QED
  BY <1>4, <1>5 DEF Faithful, Annotated, Fresh, Behind, Bios

\* A disturbed request stays disturbed until the next one.
LEMMA DisturbedStays ==
  ASSUME NEW h \in Machine, h.did = "disturbed", NEW i \in Instr, i.op # "ask",
         NEW e \in Effect(h, i)
  PROVE  e.did = "disturbed"
<1>1. i.op \in Ops /\ i.to \in Addr
  BY DEF Instr
<1>2. CASE i.op \in {"plain", "trap"}
  BY <1>2 DEF Effect
<1>3. Call(h, i.to).did = "disturbed" /\ Return(h).did = "disturbed"
  BY DEF Call, Push16, Return, Machine
<1>4. CASE i.op \in {"call", "rst", "callcc", "ret", "retcc"}
  BY <1>3, <1>4 DEF Effect
<1>5. CASE i.op = "retok"
  <2>1. [Return(h) EXCEPT !.answer = "ok"].did = "disturbed"
    BY DEF Return, Machine
  <2>2. QED
    BY <1>5, <2>1 DEF Effect
<1>6. CASE i.op \in {"jump", "status", "fail", "halt"}
  BY <1>6 DEF Effect, Machine
<1>7. CASE i.op \in {"lba", "buf"}
  BY <1>7 DEF Effect, Machine
<1>8. CASE i.op = "command"
  BY <1>8 DEF Effect, Command, Machine
<1>9. QED
  BY <1>1, <1>2, <1>4, <1>5, <1>6, <1>7, <1>8 DEF Ops

\* The command moves the sector and the buffer that the registers name, which are
\* those of the request; the error flag is up when it was refused.
LEMMA CommandFields ==
  ASSUME CbiosGuest, NEW h \in Machine, h.did = "nothing", h.ram[0] = System,
         \A i \in 0 .. 2 : h.disk.lba[i] = Digit(h.want.lba, i),
         \A i \in 0 .. 1 : h.disk.bufPtr[i] = Digit(h.want.buf, i)
  PROVE  LET e == Command(h, h.want.cmd) IN
         /\ e.pc = h.pc /\ Top(e) = Top(h) /\ e.answer = h.answer /\ e.halted = h.halted
         /\ e.ram[0] = System /\ e.did \in {"done", "failed"}
         /\ ~e.disk.error => e.did = "done"
<1> DEFINE d == h.disk
           cmd == h.want.cmd
           x == ExecuteCommand(d, h.ram, cmd)
           did == IF cmd = "nop" \/ h.did = "disturbed" THEN h.did
                  ELSE IF Refused(d, cmd) THEN "failed"
                  ELSE IF Lba(d) = h.want.lba /\ BufPtr(d) = h.want.buf THEN "done"
                  ELSE "astray"
<1>1. /\ d \in Device /\ h.ram \in [Area -> Content] /\ cmd \in {"read", "write"}
      /\ h.want.lba \in 0 .. (Base * Base - 1) /\ h.want.buf \in Area \ {0}
  BY Z80CpuAssumption DEF Machine, CbiosGuest
<1>2. Lba(d) = h.want.lba /\ BufPtr(d) = h.want.buf
  BY <1>1, DigitsOf DEF Area
<1>3. did = IF Refused(d, cmd) THEN "failed" ELSE "done"
  BY <1>1, <1>2
<1>4. x.ram[0] = System /\ (Refused(d, cmd) => x.disk.error)
  <2>1. CASE Refused(d, cmd)
    <3>1. x = [disk |-> [d EXCEPT !.error = TRUE], ram |-> h.ram]
      BY <1>1, <2>1 DEF ExecuteCommand
    <3>2. QED
      BY <1>1, <3>1 DEF Device
  <2>2. CASE ~Refused(d, cmd) /\ cmd = "read"
    <3>1. x = [disk |-> d, ram |-> [h.ram EXCEPT ![BufPtr(d)] = d.image[Lba(d) + 1]]]
      BY <2>2 DEF ExecuteCommand
    <3> DEFINE ram == [h.ram EXCEPT ![BufPtr(d)] = d.image[Lba(d) + 1]]
    <3>2. BufPtr(d) # 0 /\ 0 \in Area
      BY <1>1, <1>2, Z80DiskAssumption DEF Area
    <3>3. ram[0] = h.ram[0]
      BY <1>1, <3>2
    <3> HIDE DEF ram
    <3>4. x.ram = ram
      BY <3>1 DEF ram
    <3>5. QED
      BY <2>2, <3>3, <3>4
  <2>3. CASE ~Refused(d, cmd) /\ cmd = "write"
    <3>1. x = [disk |-> [d EXCEPT !.image[Lba(d) + 1] = h.ram[BufPtr(d)]], ram |-> h.ram]
      BY <2>3 DEF ExecuteCommand
    <3>2. QED
      BY <2>3, <3>1
  <2>4. QED
    BY <1>1, <2>1, <2>2, <2>3
<1>5. Command(h, cmd) = [h EXCEPT !.disk = x.disk, !.ram = x.ram, !.did = did]
  BY DEF Command
<1> HIDE DEF x, did, d, cmd
<1>6. LET e == Command(h, cmd) IN
        /\ e.pc = h.pc /\ e.sp = h.sp /\ e.stack = h.stack /\ e.answer = h.answer
        /\ e.halted = h.halted /\ e.ram = x.ram /\ e.disk = x.disk /\ e.did = did
  BY <1>5 DEF Machine
<1>7. QED
  BY <1>3, <1>4, <1>6 DEF Top, cmd

\* The program goes by its text: one step for each address.
LEMMA TextFaithful ==
  ASSUME CbiosGuest, NEW g \in Machine, Faithful(g), g.did # "disturbed", ~g.halted,
         NEW h \in Machine, Agrees(g, h), h.pc = Ahead(g.pc, Length(Code[g.pc].op)),
         NEW e \in Effect(h, Code[g.pc])
  PROVE  Faithful(e)
<1> DEFINE at == g.pc
<1>1. /\ g.ram[0] = System /\ g.did # "astray" /\ Annotated(g)
      /\ g.answer = "ok" => g.did = "done"
      /\ at \in DOMAIN Bios
  BY DEF Faithful, Annotated
<1>2. /\ h.ram[0] = System /\ h.did = g.did /\ h.did # "astray" /\ h.answer = g.answer
      /\ h.want = g.want /\ h.disk = g.disk /\ h.ok = g.ok /\ h.halted = FALSE
      /\ Top(h) = Top(g) /\ Under(h) = Under(g)
  BY <1>1 DEF Agrees, Top, Under, Machine
<1>3. /\ h.answer = "ok" => h.did = "done"
  BY <1>1, <1>2
<1>4. ASSUME NEW a \in {0, 1, 4, 5, 8, 11, 13, 15, 16, 18, 19, 21, 23, 25, 27, 29, 32, 33},
             at = a, NEW n \in 1 .. 3, a + n <= 34, Length(Code[a].op) = n
      PROVE  h.pc = a + n
  BY <1>4, AheadOf
<1>5. CASE at = 0
  <2>1. Code[0].op = "ask" /\ Length("ask") = 1
    BY BiosLines DEF I, Length
  <2>2. h.pc = 1
    BY <1>4, <1>5, <2>1
  <2>3. e \in Ask(h)
    BY <1>5, <2>1 DEF Effect
  <2>4. QED
    BY <1>2, <2>2, <2>3, AskFaithful
<1>6. CASE at = 1
  <2>1. Code[1].op = "callcc" /\ Code[1].to = 8 /\ Length("callcc") = 3 /\ 8 \in Addr
    BY BiosLines, Z80CpuAssumption DEF To, Length, Addr, CbiosGuest
  <2>2. h.pc = 4
    BY <1>4, <1>6, <2>1
  <2>3. e \in {h, Call(h, 8)}
    BY <1>6, <2>1 DEF Effect
  <2>4. Faithful(h)
    BY <1>2, <1>3, <2>2 DEF Faithful, Annotated, Behind, Bios
  <2>5. Fresh(h)
    BY <1>1, <1>2, <1>6 DEF Annotated, Fresh
  <2>6. Faithful(Call(h, 8))
    BY <1>2, <1>3, <2>1, <2>2, <2>5, CallFields DEF Faithful, Annotated, Behind, Bios, Fresh
  <2>7. QED
    BY <2>3, <2>4, <2>6
<1>7. CASE at = 4
  <2>1. Code[4].op = "rst" /\ Code[4].to = 32 /\ Length("rst") = 1 /\ 32 \in Addr
    BY BiosLines, Z80CpuAssumption DEF To, Length, Addr, CbiosGuest
  <2>2. h.pc = 5
    BY <1>4, <1>7, <2>1
  <2>3. e = Call(h, 32)
    BY <1>7, <2>1 DEF Effect
  <2>4. QED
    BY <1>2, <1>3, <2>1, <2>2, <2>3, CallFields DEF Faithful, Annotated, Behind, Bios
<1>8. CASE at = 5
  <2>1. Code[5].op = "jump" /\ Code[5].to = 0
    BY BiosLines DEF To
  <2>2. e = [h EXCEPT !.pc = 0]
    BY <1>8, <2>1 DEF Effect
  <2>3. e.pc = 0 /\ e.ram = h.ram /\ e.did = h.did /\ e.answer = h.answer
    BY <2>2 DEF Machine
  <2>4. QED
    BY <1>2, <1>3, <2>3 DEF Faithful, Annotated, Behind, Bios
<1>9. CASE at = 8
  <2>1. Code[8].op = "call" /\ Code[8].to = 19 /\ Length("call") = 3 /\ 19 \in Addr
    BY BiosLines, Z80CpuAssumption DEF To, Length, Addr, CbiosGuest
  <2>2. h.pc = 11
    BY <1>4, <1>9, <2>1
  <2>3. e = Call(h, 19)
    BY <1>9, <2>1 DEF Effect
  <2>4. Fresh(h) /\ Top(h) = 4
    BY <1>1, <1>2, <1>9 DEF Annotated, Fresh
  <2>5. QED
    BY <1>2, <1>3, <2>1, <2>2, <2>3, <2>4, CallFields
       DEF Faithful, Annotated, Behind, Bios, Fresh
<1>10. CASE at = 11
  <2>1. Code[11].op = "command" /\ Length("command") = 2
    BY BiosLines DEF I, Length
  <2>2. h.pc = 13
    BY <1>4, <1>10, <2>1
  <2>3. e = Command(h, h.want.cmd)
    BY <1>10, <2>1 DEF Effect
  <2>4. /\ Fresh(h) /\ Top(h) = 4
        /\ h.disk.lba[0] = Digit(h.want.lba, 0) /\ h.disk.lba[1] = Digit(h.want.lba, 1)
        /\ h.disk.lba[2] = Digit(h.want.lba, 2)
        /\ h.disk.bufPtr[0] = Digit(h.want.buf, 0) /\ h.disk.bufPtr[1] = Digit(h.want.buf, 1)
    BY <1>1, <1>2, <1>10 DEF Annotated, Fresh, Behind
  <2>5. /\ \A i \in 0 .. 2 : h.disk.lba[i] = Digit(h.want.lba, i)
        /\ \A i \in 0 .. 1 : h.disk.bufPtr[i] = Digit(h.want.buf, i)
    BY <2>4
  <2>6. h.did = "nothing" /\ h.answer = "none"
    BY <2>4 DEF Fresh
  <2>7. /\ e.pc = 13 /\ Top(e) = 4 /\ e.answer = "none" /\ e.halted = FALSE
        /\ e.ram[0] = System /\ e.did \in {"done", "failed"}
        /\ ~e.disk.error => e.did = "done"
    BY <1>2, <2>2, <2>3, <2>4, <2>5, <2>6, CommandFields
  <2>8. QED
    BY <2>7 DEF Faithful, Annotated, Behind, Bios
<1>11. CASE at = 13
  <2>1. Code[13].op = "status" /\ Length("status") = 2
    BY BiosLines DEF I, Length
  <2>2. h.pc = 15
    BY <1>4, <1>11, <2>1
  <2>3. e = [h EXCEPT !.ok = ~h.disk.error]
    BY <1>11, <2>1 DEF Effect
  <2>4. Top(h) = 4 /\ h.answer # "ok" /\ (~h.disk.error => h.did = "done")
    BY <1>1, <1>2, <1>11 DEF Annotated
  <2>5. /\ e.pc = 15 /\ Top(e) = 4 /\ e.answer = h.answer /\ e.ram = h.ram /\ e.did = h.did
        /\ e.ok = ~h.disk.error
    BY <2>2, <2>3, <2>4 DEF Machine, Top
  <2>6. e.ok => e.did = "done"
    BY <2>4, <2>5
  <2>7. e.pc = 15 /\ Top(e) = 4 /\ e.answer # "ok" /\ e.ram[0] = System /\ e.did # "astray"
    BY <1>2, <2>4, <2>5
  <2>8. QED
    BY <2>6, <2>7 DEF Faithful, Annotated, Behind, Bios
<1>12. CASE at = 15
  <2>1. Code[15].op = "retok" /\ Length("retok") = 1
    BY BiosLines DEF I, Length
  <2>2. h.pc = 16
    BY <1>4, <1>12, <2>1
  <2>3. e = IF h.ok THEN [Return(h) EXCEPT !.answer = "ok"] ELSE h
    BY <1>12, <2>1 DEF Effect
  <2>4. Top(h) = 4 /\ h.answer # "ok" /\ (h.ok => h.did = "done")
    BY <1>1, <1>2, <1>12 DEF Annotated
  <2>5. Faithful(h)
    BY <1>2, <2>2, <2>4 DEF Faithful, Annotated, Behind, Bios
  <2>6. ASSUME h.ok PROVE Faithful(e)
    <3>1. e = [Return(h) EXCEPT !.answer = "ok"]
      BY <2>3, <2>6
    <3>2. e.pc = Return(h).pc /\ e.ram = Return(h).ram /\ e.did = Return(h).did
      BY <3>1 DEF Return, Machine
    <3>3. e.pc = 4 /\ e.ram[0] = System /\ e.did = "done"
      BY <1>2, <2>4, <2>6, <3>2, ReturnFields
    <3>4. QED
      BY <3>3 DEF Faithful, Annotated, Behind, Bios
  <2>7. QED
    BY <2>3, <2>5, <2>6
<1>13. CASE at = 16
  <2>1. Code[16].op = "fail" /\ Length("fail") = 2
    BY BiosLines DEF I, Length
  <2>2. h.pc = 18
    BY <1>4, <1>13, <2>1
  <2>3. e = [h EXCEPT !.answer = "error"]
    BY <1>13, <2>1 DEF Effect
  <2>4. Top(h) = 4
    BY <1>1, <1>2, <1>13 DEF Annotated
  <2>5. /\ e.pc = 18 /\ Top(e) = 4 /\ e.answer = "error" /\ e.ram = h.ram /\ e.did = h.did
    BY <2>2, <2>3, <2>4 DEF Machine, Top
  <2>6. QED
    BY <1>2, <2>5 DEF Faithful, Annotated, Behind, Bios
<1>14. CASE at = 18
  <2>1. Code[18].op = "ret"
    BY BiosLines DEF I
  <2>2. e = Return(h)
    BY <1>14, <2>1 DEF Effect
  <2>3. Top(h) = 4
    BY <1>1, <1>2, <1>14 DEF Annotated
  <2>4. QED
    BY <1>2, <1>3, <2>2, <2>3, ReturnFields DEF Faithful, Annotated, Behind, Bios
<1>15. CASE at \in {19, 21, 23}
  <2>1. /\ Code[19] = To("lba", 0) /\ Code[21] = To("lba", 1) /\ Code[23] = To("lba", 2)
        /\ Length("lba") = 2
    BY BiosLines DEF Length
  <2> DEFINE k == Code[at].to
  <2>2. k \in 0 .. 2 /\ at = 19 + 2 * k /\ Code[at].op = "lba"
    BY <1>15, <2>1 DEF To
  <2>3. h.pc = at + 2
    BY <1>4, <1>15, <2>1, <2>2
  <2> DEFINE lba == [h.disk.lba EXCEPT ![k] = Digit(h.want.lba, k)]
  <2>4. e = [h EXCEPT !.disk.lba[k] = Digit(h.want.lba, k)]
    BY <2>2 DEF Effect
  <2>5. e = [h EXCEPT !.disk = [h.disk EXCEPT !.lba = lba]]
    BY <2>4
  <2>6. /\ lba[k] = Digit(h.want.lba, k)
        /\ \A i \in 0 .. 2 : i # k => lba[i] = h.disk.lba[i]
    BY <2>2 DEF Machine, Device
  <2> HIDE DEF k, lba
  <2>7. /\ e.pc = h.pc /\ e.sp = h.sp /\ e.stack = h.stack /\ e.ram = h.ram /\ e.did = h.did
        /\ e.answer = h.answer /\ e.want = h.want /\ e.disk.lba = lba
        /\ e.disk.bufPtr = h.disk.bufPtr /\ e.halted = h.halted /\ e.ok = h.ok
    BY <2>5 DEF Machine, Device
  <2>8. Fresh(h) /\ Top(h) = 11 /\ Under(h) = 4
    BY <1>1, <1>2, <1>15 DEF Annotated, Fresh, Behind
  <2>9. /\ at \in Behind(21) => h.disk.lba[0] = Digit(h.want.lba, 0)
        /\ at \in Behind(23) => h.disk.lba[1] = Digit(h.want.lba, 1)
    BY <1>1, <1>2 DEF Annotated
  <2>10. /\ e.did = "nothing" /\ e.answer = "none" /\ Top(e) = 11 /\ Under(e) = 4
         /\ e.ram[0] = System /\ e.pc = at + 2
    BY <1>2, <2>3, <2>7, <2>8 DEF Fresh, Top, Under
  <2>11. CASE at = 19
    BY <2>2, <2>6, <2>7, <2>10, <2>11 DEF Faithful, Annotated, Behind, Bios, Fresh
  <2>12. CASE at = 21
    BY <2>2, <2>6, <2>7, <2>9, <2>10, <2>12 DEF Faithful, Annotated, Behind, Bios, Fresh
  <2>13. CASE at = 23
    BY <2>2, <2>6, <2>7, <2>9, <2>10, <2>13 DEF Faithful, Annotated, Behind, Bios, Fresh
  <2>14. QED
    BY <1>15, <2>11, <2>12, <2>13
<1>16. CASE at \in {25, 27}
  <2>1. Code[25] = To("buf", 0) /\ Code[27] = To("buf", 1) /\ Length("buf") = 2
    BY BiosLines DEF Length
  <2> DEFINE k == Code[at].to
  <2>2. k \in 0 .. 1 /\ at = 25 + 2 * k /\ Code[at].op = "buf"
    BY <1>16, <2>1 DEF To
  <2>3. h.pc = at + 2
    BY <1>4, <1>16, <2>1, <2>2
  <2> DEFINE buf == [h.disk.bufPtr EXCEPT ![k] = Digit(h.want.buf, k)]
  <2>4. e = [h EXCEPT !.disk.bufPtr[k] = Digit(h.want.buf, k)]
    BY <2>2 DEF Effect
  <2>5. e = [h EXCEPT !.disk = [h.disk EXCEPT !.bufPtr = buf]]
    BY <2>4
  <2>6. /\ buf[k] = Digit(h.want.buf, k)
        /\ \A i \in 0 .. 1 : i # k => buf[i] = h.disk.bufPtr[i]
    BY <2>2 DEF Machine, Device
  <2> HIDE DEF k, buf
  <2>7. /\ e.pc = h.pc /\ e.sp = h.sp /\ e.stack = h.stack /\ e.ram = h.ram /\ e.did = h.did
        /\ e.answer = h.answer /\ e.want = h.want /\ e.disk.lba = h.disk.lba
        /\ e.disk.bufPtr = buf /\ e.halted = h.halted /\ e.ok = h.ok
    BY <2>5 DEF Machine, Device
  <2>8. Fresh(h) /\ Top(h) = 11 /\ Under(h) = 4
    BY <1>1, <1>2, <1>16 DEF Annotated, Fresh, Behind
  <2>9. /\ h.disk.lba[0] = Digit(h.want.lba, 0) /\ h.disk.lba[1] = Digit(h.want.lba, 1)
        /\ h.disk.lba[2] = Digit(h.want.lba, 2)
        /\ at = 27 => h.disk.bufPtr[0] = Digit(h.want.buf, 0)
    BY <1>1, <1>2, <1>16 DEF Annotated, Behind
  <2>10. /\ e.did = "nothing" /\ e.answer = "none" /\ Top(e) = 11 /\ Under(e) = 4
         /\ e.ram[0] = System /\ e.pc = at + 2
    BY <1>2, <2>3, <2>7, <2>8 DEF Fresh, Top, Under
  <2>11. CASE at = 25
    BY <2>2, <2>6, <2>7, <2>9, <2>10, <2>11 DEF Faithful, Annotated, Behind, Bios, Fresh
  <2>12. CASE at = 27
    BY <2>2, <2>6, <2>7, <2>9, <2>10, <2>12 DEF Faithful, Annotated, Behind, Bios, Fresh
  <2>13. QED
    BY <1>16, <2>11, <2>12
<1>17. CASE at = 29
  <2>1. Code[29].op = "ret"
    BY BiosLines DEF I
  <2>2. e = Return(h)
    BY <1>17, <2>1 DEF Effect
  <2>3. /\ Fresh(h) /\ Top(h) = 11 /\ Under(h) = 4
        /\ h.disk.lba[0] = Digit(h.want.lba, 0) /\ h.disk.lba[1] = Digit(h.want.lba, 1)
        /\ h.disk.lba[2] = Digit(h.want.lba, 2)
        /\ h.disk.bufPtr[0] = Digit(h.want.buf, 0) /\ h.disk.bufPtr[1] = Digit(h.want.buf, 1)
    BY <1>1, <1>2, <1>17 DEF Annotated, Fresh, Behind
  <2>4. QED
    BY <1>2, <1>3, <2>2, <2>3, ReturnFields DEF Faithful, Annotated, Behind, Bios, Fresh
<1>18. CASE at = 32
  <2>1. Code[32].op = "retcc" /\ Length("retcc") = 1
    BY BiosLines DEF I, Length
  <2>2. h.pc = 33
    BY <1>4, <1>18, <2>1
  <2>3. e = h \/ e = Return(h)
    BY <1>18, <2>1 DEF Effect
  <2>4. Top(h) = 5
    BY <1>1, <1>2, <1>18 DEF Annotated
  <2>5. Faithful(h) /\ Faithful(Return(h))
    BY <1>2, <1>3, <2>2, <2>4, ReturnFields DEF Faithful, Annotated, Behind, Bios
  <2>6. QED
    BY <2>3, <2>5
<1>19. CASE at = 33
  <2>1. Code[33].op = "halt" /\ Length("halt") = 1
    BY BiosLines DEF I, Length
  <2>2. h.pc = 34
    BY <1>4, <1>19, <2>1
  <2>3. e = [h EXCEPT !.halted = TRUE]
    BY <1>19, <2>1 DEF Effect
  <2>4. /\ e.halted = TRUE /\ e.pc = 34 /\ e.ram = h.ram /\ e.did = h.did /\ e.answer = h.answer
    BY <2>2, <2>3 DEF Machine
  <2>5. QED
    BY <1>2, <1>3, <2>4 DEF Faithful, Annotated, Behind
<1>20. QED
  BY <1>1, <1>5, <1>6, <1>7, <1>8, <1>9, <1>10, <1>11, <1>12, <1>13, <1>14, <1>15, <1>16,
     <1>17, <1>18, <1>19 DEF Bios

\* The program asks at its first address only.
LEMMA AsksAtStart ==
  ASSUME CbiosGuest, NEW a \in DOMAIN Code, Code[a].op = "ask"
  PROVE  a = 0
<1>1. /\ \A b \in DOMAIN Code \ {0} : Code[b].op # "ask"
  BY BiosLines DEF I, To
<1>2. QED
  BY <1>1

\* An instruction keeps to the text, or asks for a new request.
LEMMA EffectFaithful ==
  ASSUME CbiosGuest, NEW g \in Machine, Faithful(g), ~g.halted, NEW i \in Fetched(g),
         NEW h \in Machine, Agrees(g, h), h.pc = Ahead(g.pc, Length(i.op)),
         NEW e \in Effect(h, i)
  PROVE  Faithful(e)
<1>1. i \in Instr
  BY FetchedType
<1>2. CASE g.did = "disturbed"
  <2>1. h.did = "disturbed"
    BY <1>2 DEF Agrees
  <2>2. CASE i.op # "ask"
    BY <1>1, <2>1, <2>2, DisturbedStays DEF Faithful
  <2>3. CASE i.op = "ask"
    <3>1. NOP.op # "ask" /\ [op |-> "trap", to |-> 0].op # "ask"
      BY DEF NOP
    <3>2. g.ram[0] = System /\ g.pc \in DOMAIN Code /\ i = Code[g.pc]
      BY <2>3, <3>1 DEF Fetched
    <3>3. g.pc = 0 /\ Length("ask") = 1
      BY <2>3, <3>2, AsksAtStart DEF Length
    <3>4. h.pc = 1 /\ h.ram[0] = System
      BY <2>3, <3>2, <3>3, AheadOf DEF Agrees
    <3>5. e \in Ask(h)
      BY <2>3 DEF Effect
    <3>6. QED
      BY <3>4, <3>5, AskFaithful
  <2>4. QED
    BY <2>2, <2>3
<1>3. CASE g.did # "disturbed"
  <2>1. g.ram[0] = System /\ g.pc \in DOMAIN Code
    BY <1>3 DEF Faithful, Annotated, CbiosGuest
  <2>2. i = Code[g.pc]
    BY <2>1, Z80DiskAssumption DEF Fetched
  <2>3. QED
    BY <1>3, <2>2, TextFaithful
<1>4. QED
  BY <1>2, <1>3

\* Either the machine is where it was or an instruction has its effect.
Idles(g, e) == Agrees(g, e) /\ e.pc = g.pc
Moves(g, i, e) ==
  \E h \in Machine : Agrees(g, h) /\ h.pc = Ahead(g.pc, Length(i.op)) /\ e \in Effect(h, i)

\* What the core does with an instruction: the trap stops it, any other has its effect.
LEMMA ExecutedMoves ==
  ASSUME NEW g \in Machine, NEW i \in Fetched(g), NEW o \in Executed(g, i)
  PROVE  IF i.op = "trap" THEN Idles(g, o.after) ELSE Moves(g, i, o.after)
<1> DEFINE hit == g.hit \/ CheckWatchpoint(Reads(g.pc, i.op), Writes(i.op))
           h == [g EXCEPT !.hit = hit]
           k == [h EXCEPT !.pc = Ahead(@, Length(i.op))]
<1>1. hit \in BOOLEAN
  OBVIOUS
<1>2. Executed(g, i) = IF i.op = "trap" THEN {[ran |-> FALSE, after |-> h]}
                       ELSE {[ran |-> TRUE, after |-> e] : e \in Effect(k, i)}
  BY DEF Executed
<1> HIDE DEF hit
<1>3. h \in Machine /\ Agrees(g, h) /\ h.pc = g.pc
  BY <1>1 DEF Machine, Agrees
<1>4. Ahead(h.pc, Length(i.op)) \in Addr
  <2>1. h.pc \in Addr /\ Length(i.op) \in Nat
    BY <1>3, LengthType DEF Machine
  <2>2. QED
    BY <2>1, AheadType
<1> HIDE DEF h
<1>5. k \in Machine /\ Agrees(g, k) /\ k.pc = Ahead(g.pc, Length(i.op))
  BY <1>3, <1>4 DEF Machine, Agrees
<1> HIDE DEF k
<1>6. CASE i.op = "trap"
  BY <1>2, <1>3, <1>6 DEF Idles
<1>7. CASE i.op # "trap"
  <2>1. PICK e \in Effect(k, i) : o = [ran |-> TRUE, after |-> e]
    BY <1>2, <1>7
  <2>2. o.after = e
    BY <2>1
  <2>3. QED
    BY <1>5, <1>7, <2>2 DEF Moves
<1>8. QED
  BY <1>6, <1>7

\* ExecuteOne does nothing, or runs the instruction at PC.
LEMMA ExecuteOneMoves ==
  ASSUME NEW g \in Machine, NEW o \in ExecuteOne(g)
  PROVE  Idles(g, o.after) \/ (~g.halted /\ \E i \in Fetched(g) : Moves(g, i, o.after))
<1> DEFINE h == [g EXCEPT !.inStepMode = FALSE]
<1>1. h \in Machine /\ Idles(g, h) /\ h.halted = g.halted /\ h.ram = g.ram
  BY DEF Machine, Idles, Agrees
<1>2. Fetched(h) = Fetched(g)
  BY <1>1 DEF Fetched, Idles
<1>3. \/ o = [ran |-> FALSE, after |-> g]
      \/ o = [ran |-> TRUE, after |-> h]
      \/ ~h.halted /\ \E i \in Fetched(h) : o \in Executed(h, i)
  BY DEF ExecuteOne
<1> HIDE DEF h
<1>4. CASE o = [ran |-> FALSE, after |-> g] \/ o = [ran |-> TRUE, after |-> h]
  BY <1>1, <1>4 DEF Idles, Agrees
<1>5. CASE ~h.halted /\ \E i \in Fetched(h) : o \in Executed(h, i)
  <2>1. PICK i \in Fetched(h) : o \in Executed(h, i)
    BY <1>5
  <2>2. Idles(h, o.after) \/ Moves(h, i, o.after)
    BY <1>1, <2>1, ExecutedMoves
  <2>3. CASE Idles(h, o.after)
    BY <1>1, <2>3 DEF Idles, Agrees
  <2>4. CASE Moves(h, i, o.after)
    <3>1. PICK k \in Machine : /\ Agrees(h, k) /\ k.pc = Ahead(h.pc, Length(i.op))
                               /\ o.after \in Effect(k, i)
      BY <2>4 DEF Moves
    <3>2. Agrees(g, k) /\ k.pc = Ahead(g.pc, Length(i.op))
      BY <1>1, <3>1 DEF Idles, Agrees
    <3>3. Moves(g, i, o.after)
      BY <3>1, <3>2 DEF Moves
    <3>4. QED
      BY <1>1, <1>2, <1>5, <2>1, <3>3
  <2>5. QED
    BY <2>2, <2>3, <2>4
<1>6. QED
  BY <1>3, <1>4, <1>5

\* Whatever the core does with an instruction, what the program has is still its own.
LEMMA ExecutedFaithful ==
  ASSUME CbiosGuest, NEW g \in Machine, Faithful(g), ~g.halted, NEW i \in Fetched(g),
         NEW o \in Executed(g, i)
  PROVE  Faithful(o.after)
<1>1. Idles(g, o.after) \/ Moves(g, i, o.after)
  BY ExecutedMoves
<1>2. CASE Idles(g, o.after)
  BY <1>2, AgreesFaithful DEF Idles
<1>3. CASE Moves(g, i, o.after)
  <2>1. PICK h \in Machine : /\ Agrees(g, h) /\ h.pc = Ahead(g.pc, Length(i.op))
                             /\ o.after \in Effect(h, i)
    BY <1>3 DEF Moves
  <2>2. QED
    BY <2>1, EffectFaithful
<1>4. QED
  BY <1>1, <1>2, <1>3

\* What the debugger leaves in the machine is nothing to the program.
LEMMA MarkedFaithful ==
  ASSUME NEW g \in Machine, Faithful(g), NEW b \in BOOLEAN
  PROVE  /\ [g EXCEPT !.inStepMode = b] \in Machine /\ Faithful([g EXCEPT !.inStepMode = b])
         /\ [g EXCEPT !.inStepMode = b].pc = g.pc
         /\ [g EXCEPT !.inStepMode = b].halted = g.halted
         /\ Fetched([g EXCEPT !.inStepMode = b]) = Fetched(g)
         /\ [g EXCEPT !.hit = b] \in Machine /\ Faithful([g EXCEPT !.hit = b])
<1> DEFINE s == [g EXCEPT !.inStepMode = b]
           w == [g EXCEPT !.hit = b]
<1>1. /\ s \in Machine /\ Agrees(g, s) /\ s.pc = g.pc /\ s.halted = g.halted /\ s.ram = g.ram
      /\ w \in Machine /\ Agrees(g, w) /\ w.pc = g.pc
  BY DEF Machine, Agrees
<1> HIDE DEF s, w
<1>2. Faithful(s) /\ Faithful(w)
  BY <1>1, AgreesFaithful
<1>3. Fetched(s) = Fetched(g)
  BY <1>1 DEF Fetched
<1>4. QED
  BY <1>1, <1>2, <1>3 DEF s, w

\* An instruction of a call that drives the guest, and the loop's marks after it.
LEMMA ExecuteOneFaithful ==
  ASSUME CbiosGuest, NEW g \in Machine, Faithful(g), NEW o \in ExecuteOne(g)
  PROVE  Faithful(o.after) /\ Faithful(Taken(o)) /\ Faithful([o.after EXCEPT !.hit = FALSE])
<1> DEFINE h == [g EXCEPT !.inStepMode = FALSE]
<1>1. h \in Machine /\ Faithful(h)
  BY MarkedFaithful
<1>2. \/ o = [ran |-> FALSE, after |-> g]
      \/ o = [ran |-> TRUE, after |-> h]
      \/ ~h.halted /\ \E i \in Fetched(h) : o \in Executed(h, i)
  BY DEF ExecuteOne
<1> HIDE DEF h
<1>3. Faithful(o.after)
  BY <1>1, <1>2, ExecutedFaithful
<1>4. o.after \in Machine
  BY ExecuteOneType
<1>5. QED
  BY <1>3, <1>4, MarkedFaithful DEF Taken

\* Every call and every step of a thread.
LEMMA FaithfulStep ==
  ASSUME CbiosGuest, IInv, Faithful(machine), [Next]_vars
  PROVE  Faithful(machine')
<1>0. machine \in Machine /\ staged \in Settings
  BY SettingsType DEF IInv, SessionInv, TypeOK
<1>1. CASE Step
  <2> DEFINE g == [machine EXCEPT !.inStepMode = TRUE]
  <2>1. g \in Machine /\ Faithful(g)
    BY <1>0, MarkedFaithful
  <2>2. PICK o \in ExecuteOne(g) : machine' = [o.after EXCEPT !.hit = FALSE]
    BY <1>1 DEF Step
  <2> HIDE DEF g
  <2>3. QED
    BY <2>1, <2>2, ExecuteOneFaithful
<1>2. CASE StepOver
  <2>1. PICK i \in Fetched(machine) :
          \E o \in IF machine.halted THEN {[ran |-> TRUE, after |-> machine]}
                   ELSE Executed(machine, i) :
            machine' = [o.after EXCEPT !.hit = FALSE]
    BY <1>2 DEF StepOver
  <2>2. PICK o \in IF machine.halted THEN {[ran |-> TRUE, after |-> machine]}
                   ELSE Executed(machine, i) :
          machine' = [o.after EXCEPT !.hit = FALSE]
    BY <2>1
  <2>3. CASE machine.halted
    <3>1. o.after = machine
      BY <2>2, <2>3
    <3>2. QED
      BY <1>0, <2>2, <3>1, MarkedFaithful
  <2>4. CASE ~machine.halted
    <3>1. o \in Executed(machine, i) /\ i \in Instr
      BY <1>0, <2>2, <2>4, FetchedType
    <3>2. o.after \in Machine /\ Faithful(o.after)
      BY <1>0, <2>4, <3>1, ExecutedType, ExecutedFaithful
    <3>3. QED
      BY <2>2, <3>2, MarkedFaithful
  <2>5. QED
    BY <2>3, <2>4
<1>3. CASE StepOut
  BY <1>0, <1>3, MarkedFaithful DEF StepOut
<1>4. CASE Drive
  BY <1>0, <1>4, ExecuteOneFaithful DEF Drive
<1>5. CASE WorkerExecute
  BY <1>0, <1>5, ExecuteOneFaithful DEF WorkerExecute
<1>6. CASE Reset
  BY <1>0, <1>6, ResetType DEF Faithful
<1>7. CASE MountDiskImage
  BY <1>0, <1>7, MountType DEF Faithful
<1>8. CASE PokeProgram
  <2>1. CASE machine.ram[0] = System
    BY <1>0, <1>8, <2>1, PokeType
  <2>2. CASE machine.ram[0] # System
    <3>1. machine.did = "disturbed"
      BY <2>2 DEF Faithful
    <3>2. machine'.did = "disturbed"
      BY <1>0, <1>8, <3>1 DEF PokeProgram, Machine
    <3>3. QED
      BY <3>2 DEF Faithful
  <2>3. QED
    BY <2>1, <2>2
<1>9. CASE \/ Run \/ WorkerLeave \/ Stop \/ Joined \/ SetSetting \/ EditBreakpoints
           \/ EditWatchpoints \/ UNCHANGED vars
  <2>1. machine' = machine
    BY <1>9
    DEF Run, WorkerLeave, Stop, Joined, SetSetting, EditBreakpoints, EditWatchpoints, vars
  <2>2. QED
    BY <2>1
<1>10. QED
  BY <1>1, <1>2, <1>3, <1>4, <1>5, <1>6, <1>7, <1>8, <1>9 DEF Next

\* The CBIOS moves the sector and the buffer it was asked for, and reports
\* success only when it did, for every set of requests, image, size of the
\* address space and of the stack: whatever the user stops, steps, edits, resets
\* or mounts between two instructions (cbios.asm, read and write).
THEOREM CbiosTransfers == CbiosGuest => (Spec => []TransferIsTheOneAsked)
<1> SUFFICES ASSUME CbiosGuest PROVE Spec => []TransferIsTheOneAsked
  OBVIOUS
<1>1. Init => Faithful(machine)
  <2>1. ASSUME Init PROVE machine.did = "disturbed"
    BY <2>1 DEF Init, ResetCpu
  <2>2. QED
    BY <2>1 DEF Faithful
<1>2. IInv /\ Faithful(machine) /\ [Next]_vars => Faithful(machine)'
  BY FaithfulStep
<1>3. Faithful(machine) /\ IInv => TransferIsTheOneAsked
  <2> SUFFICES ASSUME Faithful(machine), IInv PROVE TransferIsTheOneAsked
    OBVIOUS
  <2>1. machine.did = "disturbed" \/ (machine.did # "astray"
           /\ (machine.answer = "ok" => machine.did = "done"))
    BY DEF Faithful
  <2>2. QED
    BY <2>1 DEF TransferIsTheOneAsked
<1>4. QED
  BY <1>1, <1>2, <1>3, Invariance, PTL DEF Spec

-----------------------------------------------------------------------------
(***************************************************************************)
(* Where step-over and step-out end, from what the guest does to its stack.*)
(***************************************************************************)
\* A return goes one word up; n words below the one at sp.
Up(sp) == (sp + 1) % Slots
Deep(g, sp, n) ==
  \/ n = 0 /\ g.sp = sp
  \/ n = 1 /\ Up(g.sp) = sp
  \/ n = 2 /\ Up(Up(g.sp)) = sp

\* The routines and where each is called from: READ and WRITE, SETUP_DISK, and
\* what the RST leads to.
Transfer == {8, 11, 13, 15, 16, 18}
Setup == {19, 21, 23, 25, 27, 29}
Leave == {32, 33}
Routines == Transfer \cup Setup \cup Leave
BackTo(a) == IF a \in Transfer THEN 4 ELSE IF a \in Setup THEN 11 ELSE 5

\* The guest is in a routine that its caller has called; in SETUP_DISK for a transfer.
Inside(g) == g.pc \in Routines /\ Top(g) = BackTo(g.pc)
Within(g) == g.pc \in Setup /\ Top(g) = 11 /\ Under(g) = 4

\* The program runs, and the buffer pointer it has set is that of the request.
Live(g) == g.ram[0] = System /\ ~g.halted
Prepared(g) ==
  /\ g.pc \in {27, 29, 11} => g.disk.bufPtr[0] = Digit(g.want.buf, 0)
  /\ g.pc \in {29, 11} => g.disk.bufPtr[1] = Digit(g.want.buf, 1)

\* A step-over from sp that waits for the return to ret.
OverAt(g, ret, sp) ==
  \/ g.halted /\ g.pc # ret
  \/ /\ Live(g) /\ Prepared(g)
     /\ \/ Deep(g, sp, 1) /\ Inside(g) /\ ret = BackTo(g.pc)
        \/ Deep(g, sp, 2) /\ Within(g) /\ ret = 4

\* A step-out from sp, wherever the guest was: only the calls made since are known.
OutAt(g, sp) ==
  \/ Deep(g, sp, 0)
  \/ Deep(g, sp, 1) /\ (Live(g) => Inside(g))
  \/ Deep(g, sp, 2) /\ (Live(g) => Within(g))

\* Where the guest is while a call that steps over or out is waiting.
LandInv ==
  /\ host = "over" => OverAt(machine, target, startSp)
  /\ host = "out" => OutAt(machine, startSp)

\* An instruction that calls, goes on in its routine, or returns from it.
Enters(g, e) ==
  /\ Up(e.sp) = g.sp /\ Under(e) = Top(g) /\ Inside(e) /\ (~g.halted => ~e.halted)
  /\ e.ram = g.ram /\ Prepared(e)

Stays(g, e) ==
  /\ e.sp = g.sp /\ e.stack = g.stack /\ (e.halted => e.pc = 34)
  /\ Live(e) => e.pc \in Routines /\ BackTo(e.pc) = BackTo(g.pc)
  /\ Prepared(g) => e.ram[0] = System /\ Prepared(e)

Returns(g, e) ==
  /\ e.sp = Up(g.sp) /\ e.stack = g.stack /\ e.pc = Top(g) /\ e.ram = g.ram
  /\ e.halted = g.halted

\* The calls of the program.
LEMMA CallEnters ==
  ASSUME CbiosGuest, NEW g \in Machine, g.pc \in {1, 4, 8}, NEW h \in Machine, Agrees(g, h),
         h.pc = Ahead(g.pc, Length(Code[g.pc].op))
  PROVE  LET e == Call(h, Code[g.pc].to) IN
         Enters(g, e) /\ BackTo(e.pc) = h.pc /\ (g.pc = 8 => e.pc \in Setup)
<1> DEFINE a == Code[g.pc].to
           e == Call(h, a)
<1>1. \/ g.pc = 1 /\ a = 8 /\ h.pc = 4
      \/ g.pc = 4 /\ a = 32 /\ h.pc = 5
      \/ g.pc = 8 /\ a = 19 /\ h.pc = 11
  <2>1. Length("callcc") = 3 /\ Length("call") = 3 /\ Length("rst") = 1
    BY DEF Length
  <2>2. Ahead(1, 3) = 4 /\ Ahead(4, 1) = 5 /\ Ahead(8, 3) = 11
    BY AheadOf
  <2>3. QED
    BY <2>1, <2>2, BiosLines DEF To
<1>2. a \in Addr /\ h.sp \in 0 .. (Slots - 1)
  <2>1. LastAddr \in Nat /\ LastAddr >= 34
    BY Z80CpuAssumption DEF CbiosGuest
  <2>2. a \in {8, 19, 32}
    BY <1>1
  <2> HIDE DEF a
  <2>3. a \in Addr
    BY <2>1, <2>2 DEF Addr
  <2>4. QED
    BY <2>3 DEF Machine
<1>3. /\ e.pc = a /\ Top(e) = h.pc /\ Under(e) = Top(h) /\ e.ram = h.ram /\ e.halted = h.halted
  BY <1>2, CallFields
<1>4. Up(e.sp) = h.sp
  <2> DEFINE top == (h.sp + Slots - 1) % Slots
  <2>1. (top + 1) % Slots = h.sp
    BY <1>2, SlotOfPush
  <2> HIDE DEF top
  <2>2. e.sp = top
    BY DEF Call, Push16, Machine, top
  <2>3. QED
    BY <2>1, <2>2 DEF Up
<1>5. h.sp = g.sp /\ Top(h) = Top(g) /\ h.ram = g.ram /\ h.halted = g.halted
  BY DEF Agrees, Top
<1> HIDE DEF e
<1>6. e.pc \in {8, 19, 32} /\ BackTo(e.pc) = h.pc /\ (g.pc = 8 => e.pc = 19)
  BY <1>1, <1>3 DEF BackTo, Transfer, Setup
<1>7. e.pc \in Routines /\ (e.pc = 19 => e.pc \in Setup)
  BY <1>6 DEF Routines, Transfer, Setup, Leave
<1>8. Prepared(e)
  BY <1>6 DEF Prepared
<1>9. QED
  BY <1>3, <1>4, <1>5, <1>6, <1>7, <1>8 DEF Enters, Inside, e

\* A return goes to the word on top, and leaves the rest as it is.
Answer(h) == [Return(h) EXCEPT !.answer = "ok"]

\* RET, also with an answer given.
LEMMA ReturnReturns ==
  ASSUME NEW g, NEW h \in Machine, Agrees(g, h)
  PROVE  Returns(g, Return(h)) /\ Returns(g, Answer(h))
BY DEF Agrees, Returns, Return, Answer, Machine, Up, Top

\* Wherever the guest is, an instruction keeps SP, calls a routine or returns.
LEMMA AnyStep ==
  ASSUME CbiosGuest, NEW g \in Machine, NEW i \in Fetched(g), NEW h \in Machine, Agrees(g, h),
         h.pc = Ahead(g.pc, Length(i.op)), NEW e \in Effect(h, i)
  PROVE  \/ e.sp = g.sp /\ (e.ram = g.ram \/ g.ram[0] = System)
         \/ g.ram[0] = System /\ Enters(g, e)
         \/ g.ram[0] = System /\ Returns(g, e)
<1>1. h.sp = g.sp /\ h.ram = g.ram
  BY DEF Agrees
<1>2. CASE i.op \in {"plain", "trap"}
  BY <1>1, <1>2 DEF Effect
<1>3. CASE i.op \notin {"plain", "trap"}
  <2>1. g.ram[0] = System /\ g.pc \in DOMAIN Code /\ i = Code[g.pc]
    BY <1>3 DEF Fetched, NOP
  <2>2. i.op \in Ops
    BY FetchedType DEF Instr
  <2>3. CASE i.op \in {"call", "callcc", "rst"}
    <3>1. g.pc \in {1, 4, 8}
      BY <2>1, <2>3, BiosLines DEF I, To
    <3>2. Enters(g, Call(h, i.to))
      BY <2>1, <3>1, CallEnters
    <3>3. e = h \/ e = Call(h, i.to)
      BY <2>3 DEF Effect
    <3>4. QED
      BY <1>1, <2>1, <3>2, <3>3
  <2>4. CASE i.op \in {"ret", "retcc", "retok"}
    <3>1. e = h \/ e = Return(h) \/ e = Answer(h)
      BY <2>4 DEF Effect, Answer
    <3>2. QED
      BY <1>1, <2>1, <3>1, ReturnReturns
  <2>5. CASE i.op = "ask"
    <3>1. PICK r \in Requests, v \in Fills : e = Asked(h, r, v)
      BY <2>5 DEF Effect, Ask
    <3>2. e.sp = h.sp
      BY <3>1 DEF Asked, Machine
    <3>3. QED
      BY <1>1, <2>1, <3>2
  <2>6. CASE i.op \in {"jump", "status", "fail", "halt", "lba", "buf"}
    BY <1>1, <2>1, <2>6 DEF Effect, Machine
  <2>7. CASE i.op = "command"
    BY <1>1, <2>1, <2>7 DEF Effect, Command, Machine
  <2>8. QED
    BY <1>3, <2>2, <2>3, <2>4, <2>5, <2>6, <2>7 DEF Ops
<1>4. QED
  BY <1>2, <1>3

\* A command leaves the program in place when the buffer is not over it.
LEMMA CommandKeeps ==
  ASSUME NEW h \in Machine, h.want.cmd \in {"read", "write"},
         \A k \in 0 .. 1 : h.disk.bufPtr[k] = Digit(h.want.buf, k)
  PROVE  Command(h, h.want.cmd).ram[0] = h.ram[0]
<1> DEFINE d == h.disk
           cmd == h.want.cmd
           x == ExecuteCommand(d, h.ram, cmd)
           ram == [h.ram EXCEPT ![BufPtr(d)] = d.image[Lba(d) + 1]]
<1>1. d \in Device /\ h.ram \in [Area -> Content] /\ h.want.buf \in Area \ {0}
  BY Z80CpuAssumption DEF Machine
<1>2. BufPtr(d) = h.want.buf
  <2>1. h.want.buf \in 0 .. (Base * Base - 1)
    BY <1>1 DEF Area
  <2>2. QED
    BY <1>1, <2>1, DigitsOf
<1>3. BufPtr(d) # 0 /\ 0 \in Area
  BY <1>1, <1>2, Z80DiskAssumption DEF Area
<1>4. ram[0] = h.ram[0]
  BY <1>1, <1>3
<1>5. x.ram = h.ram \/ x.ram = ram
  BY DEF ExecuteCommand
<1> HIDE DEF x, ram
<1>6. Command(h, cmd).ram = x.ram
  BY DEF Command, Machine, x
<1>7. QED
  BY <1>4, <1>5, <1>6

\* In a routine, an instruction enters SETUP_DISK, goes on, or returns.
LEMMA InsideStep ==
  ASSUME CbiosGuest, NEW g \in Machine, Live(g), Inside(g), NEW i \in Fetched(g),
         NEW h \in Machine, Agrees(g, h), h.pc = Ahead(g.pc, Length(i.op)),
         NEW e \in Effect(h, i)
  PROVE  \/ Enters(g, e) /\ Within(e) /\ g.pc \in Transfer
         \/ Stays(g, e)
         \/ Returns(g, e) /\ (Prepared(g) => Prepared(e))
<1>1. /\ g.ram[0] = System /\ ~g.halted /\ h.ram = g.ram /\ h.disk = g.disk /\ h.want = g.want
      /\ h.sp = g.sp /\ h.stack = g.stack /\ h.halted = g.halted /\ Top(g) = BackTo(g.pc)
      /\ g.pc \in Routines
  BY DEF Live, Inside, Agrees
<1>2. i = Code[g.pc] /\ g.pc \in DOMAIN Code
  <2>1. g.pc \in DOMAIN Code
    BY <1>1, BiosLines DEF Routines, Transfer, Setup, Leave
  <2>2. QED
    BY <1>1, <2>1, Z80DiskAssumption DEF Fetched
\* What goes on two bytes ahead or one, and touches neither the stack nor the program.
<1>3. ASSUME NEW n \in 1 .. 2, h.pc = g.pc + n, g.pc + n \in Routines,
             BackTo(g.pc + n) = BackTo(g.pc), e.pc = h.pc, e.sp = h.sp, e.stack = h.stack,
             e.halted = h.halted, Prepared(g) => e.ram[0] = System /\ Prepared(e)
      PROVE  Stays(g, e)
  BY <1>1, <1>3 DEF Stays
<1>4. CASE g.pc = 8
  <2>1. i.op = "call" /\ i.to = Code[g.pc].to
    BY <1>2, <1>4, BiosLines DEF To
  <2>2. e = Call(h, i.to)
    BY <2>1 DEF Effect
  <2>3. Enters(g, e) /\ e.pc \in Setup
    BY <1>2, <1>4, <2>1, <2>2, CallEnters
  <2>4. Under(e) = 4 /\ Top(e) = 11 /\ g.pc \in Transfer
    BY <1>1, <1>4, <2>3 DEF Enters, Inside, BackTo, Transfer, Setup
  <2>5. QED
    BY <2>3, <2>4 DEF Within
<1>5. CASE g.pc = 11
  <2>1. i.op = "command"
    BY <1>2, <1>5, BiosLines DEF I
  <2>2. h.pc = 13
    BY <1>5, <2>1, AheadOf DEF Length
  <2>3. e = Command(h, h.want.cmd)
    BY <2>1 DEF Effect
  <2>4. e.pc = h.pc /\ e.sp = h.sp /\ e.stack = h.stack /\ e.halted = h.halted
    BY <2>3 DEF Command, Machine
  <2>5. ASSUME Prepared(g) PROVE e.ram[0] = System
    <3>1. /\ h.disk.bufPtr[0] = Digit(h.want.buf, 0)
          /\ h.disk.bufPtr[1] = Digit(h.want.buf, 1)
      BY <1>1, <1>5, <2>5 DEF Prepared
    <3>2. h.want.cmd \in {"read", "write"}
      BY DEF Machine, CbiosGuest
    <3>3. \A k \in 0 .. 1 : h.disk.bufPtr[k] = Digit(h.want.buf, k)
      BY <3>1
    <3>4. QED
      BY <1>1, <2>3, <3>2, <3>3, CommandKeeps
  <2>6. 13 \in Routines /\ BackTo(13) = BackTo(11)
    BY DEF BackTo, Routines, Transfer
  <2>7. Prepared(e)
    BY <2>2, <2>4 DEF Prepared
  <2>8. QED
    BY <1>3, <1>5, <2>2, <2>4, <2>5, <2>6, <2>7
<1>6. CASE g.pc = 13 \/ g.pc = 16
  <2>1. \/ g.pc = 13 /\ i.op = "status"
        \/ g.pc = 16 /\ i.op = "fail"
    BY <1>2, <1>6, BiosLines DEF I
  <2>2. h.pc = g.pc + 2
    BY <2>1, AheadOf DEF Length
  <2>3. /\ e.pc = h.pc /\ e.sp = h.sp /\ e.stack = h.stack /\ e.ram = h.ram
        /\ e.halted = h.halted
    BY <2>1 DEF Effect, Machine
  <2>4. g.pc + 2 \in Routines /\ BackTo(g.pc + 2) = BackTo(g.pc)
    BY <1>6 DEF BackTo, Routines, Transfer
  <2>5. Prepared(e)
    BY <1>6, <2>2, <2>3 DEF Prepared
  <2>6. QED
    BY <1>1, <1>3, <2>2, <2>3, <2>4, <2>5
<1>7. CASE g.pc \in {15, 18, 29, 32}
  <2>1. /\ g.pc = 15 => i.op = "retok"
        /\ g.pc \in {18, 29} => i.op = "ret"
        /\ g.pc = 32 => i.op = "retcc"
    BY <1>2, <1>7, BiosLines DEF I
  <2>2. \/ g.pc \in {15, 32} /\ e = h
        \/ e = Return(h) \/ e = Answer(h)
    BY <1>7, <2>1 DEF Effect, Answer
  <2>3. CASE g.pc \in {15, 32} /\ e = h
    <3>1. Length(i.op) = 1
      BY <2>1, <2>3 DEF Length
    <3>2. h.pc = g.pc + 1
      BY <2>3, <3>1, AheadOf
    <3>3. g.pc + 1 \in Routines /\ BackTo(g.pc + 1) = BackTo(g.pc)
      BY <2>3 DEF BackTo, Routines, Transfer, Setup, Leave
    <3>4. Prepared(e)
      BY <2>3, <3>2 DEF Prepared
    <3>5. QED
      BY <1>1, <1>3, <2>3, <3>2, <3>3, <3>4
  <2>4. CASE e = Return(h) \/ e = Answer(h)
    <3>1. Returns(g, e)
      BY <2>4, ReturnReturns
    <3>2. e.disk = h.disk /\ e.want = h.want
      BY <2>4 DEF Return, Answer, Machine
    <3>3. e.pc \in {4, 5} \/ (g.pc = 29 /\ e.pc = 11)
      <4>1. e.pc = BackTo(g.pc)
        BY <1>1, <3>1 DEF Returns
      <4>2. BackTo(g.pc) \in {4, 5} \/ (g.pc = 29 /\ BackTo(g.pc) = 11)
        BY <1>7 DEF BackTo, Transfer, Setup
      <4>3. QED
        BY <4>1, <4>2
    <3>4. Prepared(g) => Prepared(e)
      BY <1>1, <3>2, <3>3 DEF Prepared
    <3>5. QED
      BY <3>1, <3>4
  <2>5. QED
    BY <2>2, <2>3, <2>4
<1>8. CASE g.pc \in {19, 21, 23, 25, 27}
  <2>1. /\ i.op \in {"lba", "buf"} /\ (g.pc \in {19, 21, 23} => i.op = "lba")
        /\ g.pc = 25 => i.op = "buf" /\ i.to = 0
        /\ g.pc = 27 => i.op = "buf" /\ i.to = 1
    BY <1>2, <1>8, BiosLines DEF To
  <2>2. h.pc = g.pc + 2
    BY <1>8, <2>1, AheadOf DEF Length
  <2>3. \/ i.op = "lba" /\ e = [h EXCEPT !.disk.lba[i.to] = Digit(h.want.lba, i.to)]
        \/ i.op = "buf" /\ e = [h EXCEPT !.disk.bufPtr[i.to] = Digit(h.want.buf, i.to)]
    BY <2>1 DEF Effect
  <2>4. /\ e.pc = h.pc /\ e.sp = h.sp /\ e.stack = h.stack /\ e.ram = h.ram
        /\ e.want = h.want /\ e.halted = h.halted
    BY <2>3 DEF Machine
  <2>5. g.pc + 2 \in Routines /\ BackTo(g.pc + 2) = BackTo(g.pc)
    BY <1>8 DEF BackTo, Routines, Transfer, Setup
  <2>6. ASSUME Prepared(g) PROVE Prepared(e)
    <3>1. CASE g.pc \in {19, 21, 23}
      BY <2>2, <2>4, <3>1 DEF Prepared
    <3>2. h.disk.bufPtr \in [0 .. 1 -> Byte]
      BY DEF Machine, Device
    <3>3. CASE g.pc = 25
      <4>1. e.disk.bufPtr = [h.disk.bufPtr EXCEPT ![0] = Digit(h.want.buf, 0)]
        BY <2>1, <2>3, <3>3 DEF Machine, Device
      <4>2. e.disk.bufPtr[0] = Digit(h.want.buf, 0)
        BY <3>2, <4>1
      <4>3. QED
        BY <2>2, <2>4, <3>3, <4>2 DEF Prepared
    <3>4. CASE g.pc = 27
      <4>0. e = [h EXCEPT !.disk.bufPtr[1] = Digit(h.want.buf, 1)]
        BY <2>1, <2>3, <3>4
      <4>1. e.disk.bufPtr = [h.disk.bufPtr EXCEPT ![1] = Digit(h.want.buf, 1)]
        BY <4>0 DEF Machine, Device
      <4>2. /\ e.disk.bufPtr[0] = h.disk.bufPtr[0]
            /\ e.disk.bufPtr[1] = Digit(h.want.buf, 1)
        BY <3>2, <4>1
      <4>3. h.disk.bufPtr[0] = Digit(h.want.buf, 0)
        BY <1>1, <2>6, <3>4 DEF Prepared
      <4>4. QED
        BY <2>2, <2>4, <3>4, <4>2, <4>3 DEF Prepared
    <3>5. QED
      BY <1>8, <3>1, <3>3, <3>4
  <2>7. QED
    BY <1>1, <1>3, <2>2, <2>4, <2>5, <2>6
<1>9. CASE g.pc = 33
  <2>1. i.op = "halt" /\ Length(i.op) = 1
    BY <1>2, <1>9, BiosLines DEF I, Length
  <2>2. h.pc = 34
    BY <1>9, <2>1, AheadOf
  <2>3. e = [h EXCEPT !.halted = TRUE]
    BY <2>1 DEF Effect
  <2>4. e.pc = 34 /\ e.sp = h.sp /\ e.stack = h.stack /\ e.ram = h.ram /\ e.halted
    BY <2>2, <2>3 DEF Machine
  <2>5. Prepared(e)
    BY <2>4 DEF Prepared
  <2>6. QED
    BY <1>1, <2>4, <2>5 DEF Stays, Live
<1>10. QED
  BY <1>1, <1>4, <1>5, <1>6, <1>7, <1>8, <1>9 DEF Routines, Transfer, Setup, Leave

\* The word under the top is on top after a return, and its own caller's word with it.
LEMMA Setups ==
  ASSUME NEW a \in Routines
  PROVE  /\ (BackTo(a) = 11 <=> a \in Setup) /\ (a \in Transfer => BackTo(a) = 4)
         /\ BackTo(a) # a /\ BackTo(a) # 34
         /\ 11 \in Routines /\ BackTo(11) = 4
BY DEF BackTo, Routines, Transfer, Setup, Leave

\* A step-over's guest stays below the word it waits for, or comes back to it.
LEMMA OverStep ==
  ASSUME CbiosGuest, NEW ret, NEW sp, NEW g \in Machine, OverAt(g, ret, sp), ~g.halted,
         NEW i \in Fetched(g), NEW h \in Machine, Agrees(g, h),
         h.pc = Ahead(g.pc, Length(i.op)), NEW e \in Effect(h, i)
  PROVE  OverAt(e, ret, sp) \/ (e.sp = sp /\ e.pc = ret)
<1>1. Live(g) /\ Prepared(g)
  BY DEF OverAt
<1>2. CASE Deep(g, sp, 1) /\ Inside(g) /\ ret = BackTo(g.pc)
  <2>1. Up(g.sp) = sp /\ g.pc \in Routines /\ Top(g) = BackTo(g.pc)
    BY <1>2 DEF Deep, Inside
  <2>2. CASE Enters(g, e) /\ Within(e) /\ g.pc \in Transfer
    <3>1. Deep(e, sp, 2) /\ ret = 4
      BY <1>2, <2>1, <2>2, Setups DEF Enters, Deep
    <3>2. Live(e) /\ Prepared(e)
      BY <1>1, <2>2 DEF Live, Enters
    <3>3. QED
      BY <2>2, <3>1, <3>2 DEF OverAt
  <2>3. CASE Stays(g, e)
    <3>1. CASE e.halted
      BY <1>2, <2>1, <2>3, <3>1, Setups DEF Stays, OverAt
    <3>2. CASE ~e.halted
      <4>1. Live(e) /\ Prepared(e) /\ Deep(e, sp, 1)
        BY <1>1, <2>1, <2>3, <3>2 DEF Stays, Live, Deep
      <4>2. e.pc \in Routines /\ BackTo(e.pc) = BackTo(g.pc) /\ Top(e) = Top(g)
        BY <2>3, <4>1 DEF Stays, Top
      <4>3. QED
        BY <1>2, <2>1, <4>1, <4>2 DEF OverAt, Inside
    <3>3. QED
      BY <3>1, <3>2
  <2>4. CASE Returns(g, e)
    BY <1>2, <2>1, <2>4 DEF Returns
  <2>5. QED
    BY <1>1, <1>2, <2>2, <2>3, <2>4, InsideStep
<1>3. CASE Deep(g, sp, 2) /\ Within(g) /\ ret = 4
  <2>1. Up(Up(g.sp)) = sp /\ g.pc \in Setup /\ Top(g) = 11 /\ Under(g) = 4
    BY <1>3 DEF Deep, Within
  <2>2. g.pc \in Routines /\ g.pc \notin Transfer /\ Inside(g)
    BY <2>1, Setups DEF Routines, Setup, Transfer, Inside
  <2>3. CASE Stays(g, e)
    <3>1. CASE e.halted
      BY <1>3, <2>3, <3>1 DEF Stays, OverAt
    <3>2. CASE ~e.halted
      <4>1. Live(e) /\ Prepared(e) /\ Deep(e, sp, 2)
        BY <1>1, <2>1, <2>3, <3>2 DEF Stays, Live, Deep
      <4>2. e.pc \in Setup /\ Top(e) = Top(g) /\ Under(e) = Under(g)
        BY <2>1, <2>2, <2>3, <4>1, Setups DEF Stays, Top, Under
      <4>3. QED
        BY <1>3, <2>1, <4>1, <4>2 DEF OverAt, Within
    <3>3. QED
      BY <3>1, <3>2
  <2>4. CASE Returns(g, e) /\ Prepared(e)
    <3>1. e.pc = 11 /\ Top(e) = 4 /\ Deep(e, sp, 1)
      BY <2>1, <2>4 DEF Returns, Top, Under, Up, Deep
    <3>2. Live(e)
      BY <1>1, <2>4 DEF Returns, Live
    <3>3. QED
      BY <1>3, <2>2, <2>4, <3>1, <3>2, Setups DEF OverAt, Inside
  <2>5. QED
    BY <1>1, <2>2, <2>3, <2>4, InsideStep
<1>4. QED
  BY <1>2, <1>3 DEF OverAt

\* Until it comes back it is elsewhere.
LEMMA OverAway ==
  ASSUME NEW ret, NEW sp, NEW g, OverAt(g, ret, sp)
  PROVE  g.pc # ret
<1>1. CASE Inside(g) /\ ret = BackTo(g.pc)
  BY <1>1, Setups DEF Inside
<1>2. CASE Within(g) /\ ret = 4
  BY <1>2 DEF Within, Setup
<1>3. QED
  BY <1>1, <1>2 DEF OverAt

\* A step-out's guest stays at or below the word it started with, or takes it.
LEMMA OutStep ==
  ASSUME CbiosGuest, NEW sp, NEW g \in Machine, OutAt(g, sp), ~g.halted,
         NEW i \in Fetched(g), NEW h \in Machine, Agrees(g, h),
         h.pc = Ahead(g.pc, Length(i.op)), NEW e \in Effect(h, i)
  PROVE  OutAt(e, sp) \/ (e.sp = Up(sp) /\ e.pc = g.stack[sp])
<1>1. CASE Deep(g, sp, 0)
  <2>1. g.sp = sp
    BY <1>1 DEF Deep
  <2>2. CASE e.sp = g.sp
    BY <2>1, <2>2 DEF OutAt, Deep
  <2>3. CASE Enters(g, e)
    BY <2>1, <2>3 DEF OutAt, Deep, Enters
  <2>4. CASE Returns(g, e)
    BY <2>1, <2>4 DEF Returns, Top
  <2>5. QED
    BY <2>2, <2>3, <2>4, AnyStep
<1>2. CASE ~Live(g) /\ (Deep(g, sp, 1) \/ Deep(g, sp, 2))
  <2>1. g.ram[0] # System
    BY <1>2 DEF Live
  <2>2. e.sp = g.sp /\ ~Live(e)
    BY <2>1, AnyStep DEF Live
  <2>3. QED
    BY <1>2, <2>2 DEF OutAt, Deep
<1>3. CASE Live(g) /\ Deep(g, sp, 1) /\ Inside(g)
  <2>1. Up(g.sp) = sp /\ Top(g) = BackTo(g.pc)
    BY <1>3 DEF Deep, Inside
  <2>2. CASE Enters(g, e) /\ Within(e)
    BY <2>1, <2>2 DEF Enters, Deep, OutAt
  <2>3. CASE Stays(g, e)
    BY <2>1, <2>3 DEF Stays, Deep, OutAt, Inside, Top
  <2>4. CASE Returns(g, e)
    BY <2>1, <2>4 DEF Returns, Deep, OutAt
  <2>5. QED
    BY <1>3, <2>2, <2>3, <2>4, InsideStep
<1>4. CASE Live(g) /\ Deep(g, sp, 2) /\ Within(g)
  <2>1. Up(Up(g.sp)) = sp /\ g.pc \in Setup /\ Top(g) = 11 /\ Under(g) = 4
    BY <1>4 DEF Deep, Within
  <2>2. g.pc \in Routines /\ g.pc \notin Transfer /\ Inside(g)
    BY <2>1, Setups DEF Routines, Setup, Transfer, Inside
  <2>3. CASE Stays(g, e)
    <3>1. Deep(e, sp, 2) /\ Top(e) = 11 /\ Under(e) = 4
      BY <2>1, <2>3 DEF Stays, Deep, Top, Under
    <3>2. Live(e) => e.pc \in Setup
      BY <2>1, <2>2, <2>3, Setups DEF Stays
    <3>3. QED
      BY <3>1, <3>2 DEF OutAt, Within
  <2>4. CASE Returns(g, e)
    <3>1. e.pc = 11 /\ Top(e) = 4 /\ Deep(e, sp, 1)
      BY <2>1, <2>4 DEF Returns, Top, Under, Up, Deep
    <3>2. QED
      BY <2>2, <3>1, Setups DEF OutAt, Inside
  <2>5. QED
    BY <1>4, <2>2, <2>3, <2>4, InsideStep
<1>5. QED
  BY <1>1, <1>2, <1>3, <1>4 DEF OutAt

\* SP at the start, one or two calls below it has not risen; one return above it has.
LEMMA RiseOf ==
  ASSUME Slots >= 4, startSp \in 0 .. (Slots - 1), NEW g, g.sp \in 0 .. (Slots - 1)
  PROVE  /\ \A n \in 0 .. 2 : Deep(g, startSp, n) => ~SpRose(g)
         /\ g.sp = Up(startSp) => SpRose(g)
<1> DEFINE rise == (g.sp + Slots - startSp) % Slots
           half == (Slots - 1) \div 2
<1>1. Slots \in Nat /\ half \in Nat /\ half >= 1 /\ half < Slots - 2
  BY Z80CpuAssumption
<1>2. ASSUME NEW p \in 0 .. (Slots - 1)
      PROVE  Up(p) = IF p = Slots - 1 THEN 0 ELSE p + 1
  BY <1>1, <1>2 DEF Up
<1>3. ASSUME NEW m \in 0 .. (Slots - 1)
      PROVE  m % Slots = m /\ (m + Slots) % Slots = m
  BY <1>1, <1>3
<1>4. rise = IF g.sp < startSp THEN g.sp + Slots - startSp ELSE g.sp - startSp
  <2>1. CASE g.sp < startSp
    <3>1. g.sp + Slots - startSp \in 0 .. (Slots - 1)
      BY <1>1, <2>1
    <3>2. QED
      BY <1>3, <2>1, <3>1
  <2>2. CASE ~(g.sp < startSp)
    <3>1. g.sp - startSp \in 0 .. (Slots - 1) /\ g.sp + Slots - startSp = (g.sp - startSp) + Slots
      BY <1>1, <2>2
    <3>2. QED
      BY <1>3, <2>2, <3>1
  <2>3. QED
    BY <2>1, <2>2
<1>5. SpRose(g) <=> rise \in 1 .. half
  BY DEF SpRose
<1> HIDE DEF rise, half
<1>6. Deep(g, startSp, 0) => rise = 0
  BY <1>1, <1>4 DEF Deep
<1>7. ASSUME Deep(g, startSp, 1) PROVE rise = Slots - 1
  BY <1>1, <1>2, <1>4, <1>7 DEF Deep
<1>8. ASSUME Deep(g, startSp, 2) PROVE rise = Slots - 2
  <2>1. Up(g.sp) \in 0 .. (Slots - 1) /\ Up(Up(g.sp)) = startSp
    BY <1>1, <1>2, <1>8 DEF Deep
  <2>2. QED
    BY <1>1, <1>2, <1>4, <2>1
<1>9. ASSUME g.sp = Up(startSp) PROVE rise = 1
  BY <1>1, <1>2, <1>4, <1>9
<1>10. QED
  BY <1>1, <1>5, <1>6, <1>7, <1>8, <1>9

\* Nothing but the guest's own state counts.
LEMMA AgreesLands ==
  ASSUME NEW g, NEW h, Agrees(g, h), h.pc = g.pc, NEW ret, NEW sp
  PROVE  /\ OverAt(g, ret, sp) => OverAt(h, ret, sp)
         /\ OutAt(g, sp) => OutAt(h, sp)
<1>1. /\ Live(g) <=> Live(h)
      /\ Prepared(g) <=> Prepared(h)
      /\ Inside(g) <=> Inside(h)
      /\ Within(g) <=> Within(h)
      /\ g.halted = h.halted
  BY DEF Agrees, Live, Prepared, Inside, Within, Top, Under
<1>2. \A n \in 0 .. 2 : Deep(g, sp, n) => Deep(h, sp, n)
  BY DEF Agrees, Deep
<1>3. QED
  BY <1>1, <1>2 DEF OverAt, OutAt

\* An instruction of a call that drives the guest.
LEMMA DriveLands ==
  ASSUME CbiosGuest, machine \in Machine, LandInv, NEW o \in ExecuteOne(machine)
  PROVE  /\ host = "over" => \/ OverAt(o.after, target, startSp)
                             \/ o.after.sp = startSp /\ o.after.pc = target
         /\ host = "out" => \/ OutAt(o.after, startSp)
                            \/ /\ o.after.sp = Up(startSp)
                               /\ o.after.pc = machine.stack[startSp]
<1>1. CASE Idles(machine, o.after)
  BY <1>1, AgreesLands DEF Idles, LandInv
<1>2. CASE ~machine.halted /\ \E i \in Fetched(machine) : Moves(machine, i, o.after)
  <2>1. PICK i \in Fetched(machine), h \in Machine :
          /\ Agrees(machine, h) /\ h.pc = Ahead(machine.pc, Length(i.op))
          /\ o.after \in Effect(h, i)
    BY <1>2 DEF Moves
  <2>2. CASE host = "over"
    BY <1>2, <2>1, <2>2, OverStep DEF LandInv
  <2>3. CASE host = "out"
    BY <1>2, <2>1, <2>3, OutStep DEF LandInv
  <2>4. QED
    BY <2>2, <2>3
<1>3. QED
  BY <1>1, <1>2, ExecuteOneMoves

\* The loop's test and the mark it takes back see nothing else of the machine.
LEMMA TakenAgrees ==
  ASSUME NEW o, o.after \in Machine
  PROVE  Idles(o.after, Taken(o)) /\ Idles(o.after, [o.after EXCEPT !.hit = FALSE])
BY DEF Taken, Machine, Idles, Agrees

\* A step-over begins in the routine it has called, or is over at once.
LEMMA StepOverBegins ==
  ASSUME CbiosGuest, machine \in Machine, StepOver, host' = "over"
  PROVE  OverAt(machine', target', startSp')
<1>1. PICK i \in Fetched(machine) :
        LET ret == Ahead(machine.pc, CallOpcodeLen(i.op)) IN
        /\ CallOpcodeLen(i.op) # 0
        /\ \E o \in IF machine.halted THEN {[ran |-> TRUE, after |-> machine]}
                   ELSE Executed(machine, i) :
             /\ machine' = [o.after EXCEPT !.hit = FALSE]
             /\ In("over", ret, machine.sp,
                   IF o.after.hit \/ o.after.pc = ret THEN 0 ELSE StepLimit)
  BY DEF StepOver
<1> DEFINE ret == Ahead(machine.pc, CallOpcodeLen(i.op))
<1>2. i.op \in {"call", "callcc", "rst"} /\ CallOpcodeLen(i.op) = Length(i.op)
  BY <1>1 DEF CallOpcodeLen, Length
<1>3. machine.ram[0] = System /\ machine.pc \in DOMAIN Code /\ i = Code[machine.pc]
  BY <1>2 DEF Fetched, NOP
<1>4. machine.pc \in {1, 4, 8}
  BY <1>2, <1>3, BiosLines DEF I, To
<1>5. ret = Ahead(machine.pc, Length(i.op)) /\ ret # machine.pc
  <2>1. Length(i.op) \in 1 .. 3
    BY LengthType
  <2>2. ret = machine.pc + Length(i.op)
    BY <1>2, <1>4, <2>1, AheadOf
  <2>3. QED
    BY <1>2, <1>4, <2>1, <2>2
<1> HIDE DEF ret
<1>6. PICK o \in IF machine.halted THEN {[ran |-> TRUE, after |-> machine]}
                  ELSE Executed(machine, i) :
             /\ machine' = [o.after EXCEPT !.hit = FALSE]
             /\ In("over", ret, machine.sp,
                   IF o.after.hit \/ o.after.pc = ret THEN 0 ELSE StepLimit)
  BY <1>1 DEF ret
<1>7. target' = ret /\ startSp' = machine.sp /\ o.after.pc # ret
  BY <1>6 DEF In
<1>8. o.after \in Machine
  <2>1. i \in Instr
    BY FetchedType
  <2>2. CASE machine.halted
    BY <1>6, <2>2
  <2>3. CASE ~machine.halted
    BY <1>6, <2>1, <2>3, ExecutedType
  <2>4. QED
    BY <2>2, <2>3
<1>9. Idles(o.after, machine')
  BY <1>6, <1>8, TakenAgrees
<1>10. OverAt(o.after, ret, machine.sp)
  <2>1. CASE machine.halted
    BY <1>5, <1>6, <2>1 DEF OverAt
  <2>2. CASE ~machine.halted
    <3>1. Moves(machine, i, o.after)
      BY <1>2, <1>6, <2>2, ExecutedMoves
    <3>2. PICK h \in Machine : /\ Agrees(machine, h) /\ h.pc = Ahead(machine.pc, Length(i.op))
                               /\ o.after \in Effect(h, i)
      BY <3>1 DEF Moves
    <3>3. o.after = Call(h, i.to)
      BY <1>2, <1>5, <1>7, <3>2 DEF Effect
    <3>4. Enters(machine, o.after) /\ BackTo(o.after.pc) = ret
      BY <1>3, <1>4, <1>5, <3>2, <3>3, CallEnters
    <3>5. QED
      BY <1>3, <2>2, <3>4 DEF Enters, OverAt, Deep, Live
  <2>3. QED
    BY <2>1, <2>2
<1>11. QED
  BY <1>7, <1>9, <1>10, AgreesLands DEF Idles

\* Every call and every step of a thread.
LEMMA LandStep ==
  ASSUME CbiosGuest, Slots >= 4, IInv, LandInv, [Next]_vars
  PROVE  LandInv'
<1>0. machine \in Machine /\ startSp \in 0 .. (Slots - 1)
  BY DEF IInv, SessionInv, TypeOK
<1>1. CASE StepOver
  <2>1. host' \in {"over", "idle"}
    BY <1>1 DEF StepOver, In
  <2>2. QED
    BY <1>0, <1>1, <2>1, StepOverBegins DEF LandInv
<1>2. CASE StepOut
  <2>1. machine'.sp = machine.sp
    BY <1>0, <1>2 DEF StepOut, Machine
  <2>2. host' \in {"out", "idle"} /\ (host' = "out" => startSp' = machine.sp)
    BY <1>2 DEF StepOut, In
  <2>3. QED
    BY <2>1, <2>2 DEF LandInv, OutAt, Deep
<1>3. CASE Drive
  <2>1. PICK o \in ExecuteOne(machine) :
          /\ machine' = Taken(o)
          /\ In(host, target, startSp,
                IF ~o.ran \/ o.after.hit \/ Back(o.after) THEN 0 ELSE budget - 1)
    BY <1>3 DEF Drive
  <2>2. SUFFICES ASSUME host' # "idle" PROVE LandInv'
    BY DEF LandInv
  <2>3. host' = host /\ target' = target /\ startSp' = startSp /\ ~Back(o.after)
    BY <2>1, <2>2 DEF In
  <2>4. o.after \in Machine
    BY <1>0, ExecuteOneType
  <2>5. Idles(o.after, machine')
    BY <2>1, <2>4, TakenAgrees
  <2>6. CASE host = "over"
    <3>1. OverAt(o.after, target, startSp)
      BY <1>0, <2>1, <2>3, <2>6, DriveLands DEF Back
    <3>2. QED
      BY <2>3, <2>5, <2>6, <3>1, AgreesLands DEF LandInv, Idles
  <2>7. CASE host = "out"
    <3>1. o.after.sp # Up(startSp)
      BY <1>0, <2>3, <2>4, <2>7, RiseOf DEF Back, Machine
    <3>2. OutAt(o.after, startSp)
      BY <1>0, <2>1, <2>7, <3>1, DriveLands
    <3>3. QED
      BY <2>3, <2>5, <2>7, <3>2, AgreesLands DEF LandInv, Idles
  <2>8. QED
    BY <1>3, <2>6, <2>7 DEF Drive
<1>4. CASE WorkerExecute \/ WorkerLeave
  <2>1. host' = host /\ host \notin {"over", "out"}
    BY <1>4 DEF WorkerExecute, Looping, WorkerLeave, callVars, IInv, SessionInv, OneDriver
  <2>2. QED
    BY <2>1 DEF LandInv
<1>5. CASE \/ Step \/ Run \/ Stop \/ Joined \/ Reset \/ SetSetting \/ MountDiskImage
           \/ PokeProgram \/ EditBreakpoints \/ EditWatchpoints
  <2>1. host' \in {"idle", "stop"}
    BY <1>5 DEF Step, MayStep, Run, Stop, Joined, Reset, SetSetting, MountDiskImage,
                PokeProgram, EditBreakpoints, EditWatchpoints, callVars
  <2>2. QED
    BY <2>1 DEF LandInv
<1>6. CASE UNCHANGED vars
  BY <1>6 DEF vars, callVars, LandInv, OverAt, OutAt, Deep, Inside, Within, Live, Prepared, Top,
              Under
<1>7. QED
  BY <1>1, <1>2, <1>3, <1>4, <1>5, <1>6 DEF Next

\* A step-over that comes back has the stack as it was, and a step-out comes back
\* where its frame was called from, for every set of requests, image and size of the
\* address space and of the stack, if that holds four words: from any state that
\* stops, steps, resets, mounts and pokes lead to, and whatever is on the stack then
\* (emfe_step_over and emfe_step_out of plugin_z80.cpp).
THEOREM StepsComeBack == CbiosGuest /\ Slots >= 4 => (Spec => StepsLand)
<1> SUFFICES ASSUME CbiosGuest, Slots >= 4 PROVE Spec => StepsLand
  OBVIOUS
<1>1. Init => LandInv
  BY DEF Init, LandInv
<1>2. IInv /\ LandInv /\ [Next]_vars => LandInv'
  BY LandStep
<1>3. IInv /\ LandInv /\ [Next]_vars => [Ends /\ Back(machine') => Lands(machine')]_vars
  <2> SUFFICES ASSUME IInv, LandInv, [Next]_vars, Ends, Back(machine') PROVE Lands(machine')
    OBVIOUS
  <2>1. machine \in Machine /\ startSp \in 0 .. (Slots - 1)
    BY DEF IInv, SessionInv, TypeOK
  <2>2. Drive
    BY DEF Next, vars, callVars, Ends, Step, StepOver, StepOut, MayStep, Run, WorkerExecute,
           WorkerLeave, Stop, Joined, Reset, SetSetting, MountDiskImage, PokeProgram,
           EditBreakpoints, EditWatchpoints
  <2>3. PICK o \in ExecuteOne(machine) : machine' = Taken(o)
    BY <2>2 DEF Drive
  <2>4. o.after \in Machine
    BY <2>1, ExecuteOneType
  <2>5. /\ machine'.pc = o.after.pc /\ machine'.sp = o.after.sp
        /\ machine'.sp \in 0 .. (Slots - 1)
    BY <2>3, <2>4, TakenAgrees DEF Idles, Agrees, Machine
  <2>6. CASE host = "over"
    <3>1. o.after.pc = target
      BY <2>5, <2>6 DEF Back
    <3>2. QED
      BY <2>1, <2>3, <2>5, <2>6, <3>1, DriveLands, OverAway DEF Lands
  <2>7. CASE host = "out"
    <3>1. SpRose(o.after)
      BY <2>5, <2>7 DEF Back, SpRose
    <3>2. ~OutAt(o.after, startSp)
      BY <2>1, <2>4, <3>1, RiseOf DEF OutAt, Machine
    <3>3. QED
      BY <2>1, <2>3, <2>5, <2>7, <3>2, DriveLands DEF Lands
  <2>8. QED
    BY <2>6, <2>7 DEF Ends
<1>4. QED
  BY <1>1, <1>2, <1>3, Invariance, PTL DEF Spec, StepsLand
=============================================================================
