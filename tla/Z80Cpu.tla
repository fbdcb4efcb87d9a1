------------------------------- MODULE Z80Cpu -------------------------------
(***************************************************************************)
(* The Z80 core (z80/src/Z80Cpu.cpp) running a program that drives the     *)
(* sector device of Z80Disk as the CP/M BIOS of the repository does        *)
(* (z80/examples/cpm22/cbios/cbios.asm).  An instruction is known by what  *)
(* it does to PC, the stack and the device.  No device raises an interrupt *)
(* in this plugin, so the core never accepts one.                          *)
(***************************************************************************)
EXTENDS Z80Disk

CONSTANTS
  LastAddr,     \* addresses are 0 .. LastAddr and wrap, as PC does at 2^16
  Code,         \* the program, at the addresses where its instructions start
  Requests,     \* transfers the program asks for: command, sector and buffer
  Fills,        \* what it puts into the buffer before
  CurSec,       \* where it keeps the sector number
  Slots         \* words of stack, around which SP wraps

Addr == 0 .. LastAddr
Commands == {"nop", "read", "write", "unknown"}
Ops == {"plain", "ask", "call", "callcc", "rst", "ret", "retcc", "retok", "jump", "lba", "buf",
        "command", "status", "fail", "halt", "trap"}
Instr == [op : Ops, to : Addr]
NOP == [op |-> "plain", to |-> 0]

ASSUME Z80CpuAssumption ==
  /\ LastAddr \in Nat /\ CurSec \in Addr /\ Slots \in Nat \ {0}
  /\ DOMAIN Code \subseteq Addr /\ \A a \in DOMAIN Code : Code[a] \in Instr
  /\ Requests \subseteq [cmd : Commands, lba : 0 .. (Base * Base - 1), buf : Area \ {0}]
  /\ Fills \subseteq Data

\* ok is the Z flag after "AND DISK_STAT_ERROR", answer what READ and WRITE
\* return in A.  did is no state of the code: it tells what became of the
\* request, "disturbed" when the host has reset the device since.
Machine == [pc : Addr, sp : 0 .. (Slots - 1), stack : [0 .. (Slots - 1) -> Addr],
            halted : BOOLEAN, inStepMode : BOOLEAN, ok : BOOLEAN,
            answer : {"none", "ok", "error"}, want : Requests, ram : [Area -> Content],
            disk : Device, hit : BOOLEAN,
            did : {"nothing", "done", "failed", "astray", "disturbed"}]

Length(op) ==
  CASE op \in {"call", "callcc"} -> 3
    [] op \in {"jump", "lba", "buf", "command", "status", "fail"} -> 2
    [] OTHER -> 1

\* Mutant: PC does not wrap.
AheadUnwrapped(a, n) == a + n

Ahead(a, n) == (a + n) % (LastAddr + 1)

Push16(g, a) ==
  LET top == (g.sp + Slots - 1) % Slots IN [g EXCEPT !.sp = top, !.stack[top] = a]

\* Mutant: SP is left where it is.
ReturnStuck(g) == [g EXCEPT !.pc = g.stack[g.sp]]

Return(g) == [g EXCEPT !.sp = (@ + 1) % Slots, !.pc = g.stack[g.sp]]
Call(g, a) == [Push16(g, g.pc) EXCEPT !.pc = a]

\* The program takes a request from CP/M and leaves it in its variables.
Asked(g, r, v) == [g EXCEPT !.want = r, !.ram[r.buf] = v, !.answer = "none", !.did = "nothing"]
Ask(g) == {Asked(g, r, v) : r \in Requests, v \in Fills}

Command(g, cmd) ==
  LET x == ExecuteCommand(g.disk, g.ram, cmd) IN
  [g EXCEPT !.disk = x.disk, !.ram = x.ram,
     !.did = IF cmd = "nop" \/ @ = "disturbed" THEN @
             ELSE IF Refused(g.disk, cmd) THEN "failed"
             ELSE IF Lba(g.disk) = g.want.lba /\ BufPtr(g.disk) = g.want.buf THEN "done"
             ELSE "astray"]

\* What instruction i does once PC is behind it.
Effect(g, i) ==
  CASE i.op \in {"plain", "trap"} -> {g}
    [] i.op = "ask" -> Ask(g)
    [] i.op = "call" \/ i.op = "rst" -> {Call(g, i.to)}
    [] i.op = "callcc" -> {g, Call(g, i.to)}
    [] i.op = "ret" -> {Return(g)}
    [] i.op = "retcc" -> {g, Return(g)}
    [] i.op = "retok" -> {IF g.ok THEN [Return(g) EXCEPT !.answer = "ok"] ELSE g}
    [] i.op = "jump" -> {[g EXCEPT !.pc = i.to]}
    [] i.op = "lba" -> {[g EXCEPT !.disk.lba[i.to] = Digit(g.want.lba, i.to)]}
    [] i.op = "buf" -> {[g EXCEPT !.disk.bufPtr[i.to] = Digit(g.want.buf, i.to)]}
    [] i.op = "status" -> {[g EXCEPT !.ok = ~g.disk.error]}
    [] i.op = "fail" -> {[g EXCEPT !.answer = "error"]}
    [] i.op = "halt" -> {[g EXCEPT !.halted = TRUE]}
    [] i.op = "command" -> {Command(g, g.want.cmd)}

\* Cleared RAM is a row of NOPs; a data sector that was booted may be anything.
Fetched(g) ==
  CASE g.ram[0] = System -> {IF g.pc \in DOMAIN Code THEN Code[g.pc] ELSE NOP}
    [] g.ram[0] = Zero -> {NOP}
    [] OTHER -> {NOP, [op |-> "trap", to |-> 0]}
=============================================================================
