---------------------------- MODULE Z8000Decode ----------------------------
(***************************************************************************)
(* One Z8000 opcode word as Z8000Cpu::ExecuteOne executes it               *)
(* (z8000/src/Z8000Cpu.cpp) and as Z8000Cpu::Disassemble lists it          *)
(* (z8000/src/Z8000Disasm.cpp): the operation, and the bytes after the     *)
(* word.  hi is the high byte of the word; d1 and d2 are the two register  *)
(* digits of the low one.                                                  *)
(***************************************************************************)
EXTENDS Integers, Sequences

Ins(name, operands) == [does |-> name, n |-> operands]
Trap == Ins("trap", 0)

\* 80 .. 8B: the byte form is even, the word form odd.
RegReg == <<"ADDB", "ADD", "SUBB", "SUB", "ORB", "OR", "ANDB", "AND", "XORB", "XOR",
            "CPB", "CP">>
-----------------------------------------------------------------------------
(***************************************************************************)
(* The core.                                                               *)
(***************************************************************************)
\* The switch on the high byte.
FirstDispatch == (128 .. 139) \cup (58 .. 63) \cup
  {160, 161, 32, 33, 46, 47, 112, 113, 120, 121, 19, 23}

CpuIo(hi, d2) ==
  CASE hi \in {60, 61} -> Ins(IF hi = 60 THEN "INB" ELSE "IN", 0)
    [] hi \in {62, 63} -> Ins(IF hi = 62 THEN "OUTB" ELSE "OUT", 0)
    [] hi \in {58, 59} /\ d2 = 4 -> Ins(IF hi = 58 THEN "INB" ELSE "IN", 2)
    [] hi \in {58, 59} /\ d2 = 6 -> Ins(IF hi = 58 THEN "OUTB" ELSE "OUT", 2)
    [] hi \in {58, 59} /\ d2 \notin {4, 6} -> Ins("trap", 2)

CpuFirst(hi, d1, d2) ==
  CASE hi \in 128 .. 139 -> Ins(RegReg[hi - 127], 0)
    [] hi \in {160, 32, 46} -> Ins("LDB", 0) [] hi \in {161, 47} -> Ins("LD", 0)
    [] hi = 33 -> Ins("LD", IF d1 = 0 THEN 2 ELSE 0)
    [] hi \in {112, 120} -> Ins("LDB", 2) [] hi \in {113, 121} -> Ins("LD", 2)
    [] hi = 19 -> Ins("PUSH", 0) [] hi = 23 -> Ins("POP", 0)
    [] hi \in 58 .. 63 -> CpuIo(hi, d2)

\* Mutant: the direct call is taken for the indirect one.
CpuSecondCall(hi, d1, d2) ==
  CASE hi \div 16 = 12 -> Ins("LDB", 0) [] hi \div 16 = 14 -> Ins("JR", 0)
    [] hi \div 16 = 13 -> Ins("CALR", 0) [] hi = 94 -> Ins("JP", 2)
    [] hi = 95 -> Ins("CALL", 0)
    [] hi = 30 -> IF d1 = 0 THEN Trap ELSE Ins("JP", 0)
    [] hi = 158 -> Ins("RET", 0)
    [] hi = 124 /\ d1 = 0 /\ d2 < 8 -> Ins(IF d2 > 3 THEN "EI" ELSE "DI", 0)
    [] <<hi, d1, d2>> = <<141, 0, 7>> -> Ins("NOP", 0)
    [] <<hi, d1, d2>> = <<122, 0, 0>> -> Ins("HALT", 0)
    [] <<hi, d1, d2>> = <<123, 0, 0>> -> Ins("IRET", 0)
    [] OTHER -> Trap

\* The wider patterns tried next, and the trap for the rest.
CpuSecond(hi, d1, d2) ==
  CASE hi \div 16 = 12 -> Ins("LDB", 0) [] hi \div 16 = 14 -> Ins("JR", 0)
    [] hi \div 16 = 13 -> Ins("CALR", 0) [] hi = 94 -> Ins("JP", 2)
    [] hi = 95 -> IF d1 = 0 /\ d2 = 0 THEN Ins("CALL", 2)
                  ELSE IF d1 = 0 THEN Trap ELSE Ins("CALL", 0)
    [] hi = 30 -> IF d1 = 0 THEN Trap ELSE Ins("JP", 0)
    [] hi = 158 -> Ins("RET", 0)
    [] hi = 124 /\ d1 = 0 /\ d2 < 8 -> Ins(IF d2 > 3 THEN "EI" ELSE "DI", 0)
    [] <<hi, d1, d2>> = <<141, 0, 7>> -> Ins("NOP", 0)
    [] <<hi, d1, d2>> = <<122, 0, 0>> -> Ins("HALT", 0)
    [] <<hi, d1, d2>> = <<123, 0, 0>> -> Ins("IRET", 0)
    [] OTHER -> Trap

Z8000Executes(hi, d1, d2) ==
  IF hi \in FirstDispatch THEN CpuFirst(hi, d1, d2) ELSE CpuSecond(hi, d1, d2)
-----------------------------------------------------------------------------
(***************************************************************************)
(* The listing.                                                            *)
(***************************************************************************)
rr_table == RegReg

ListLoads(hi, d1) ==
  CASE hi \div 16 = 12 -> Ins("LDB", 0)
    [] hi = 33 -> Ins("LD", IF d1 = 0 THEN 2 ELSE 0)
    [] hi \in {160, 32, 46} -> Ins("LDB", 0) [] hi \in {161, 47} -> Ins("LD", 0)
    [] hi \in {112, 120} /\ d1 = 0 -> Ins("LDB", 2)
    [] hi \in {113, 121} /\ d1 = 0 -> Ins("LD", 2)
    [] hi = 19 -> Ins("PUSH", 0) [] hi = 23 -> Ins("POP", 0)
    [] OTHER -> Ins("DW", 0)

ListJumps(hi, d1, d2) ==
  CASE hi \div 16 = 14 -> Ins("JR", 0) [] hi \div 16 = 13 -> Ins("CALR", 0)
    [] hi = 95 -> Ins("CALL", IF d1 = 0 /\ d2 = 0 THEN 2 ELSE 0)
    [] hi = 94 -> Ins("JP", 2) [] hi = 30 -> Ins("JP", 0) [] hi = 158 -> Ins("RET", 0)
    [] OTHER -> Ins("DW", 0)

ListControl(hi, d1, d2) ==
  CASE hi = 124 /\ d1 = 0 /\ d2 < 8 -> Ins(IF d2 > 3 THEN "EI" ELSE "DI", 0)
    [] hi \in 60 .. 63 -> Ins(<<"INB", "IN", "OUTB", "OUT">>[hi - 59], 0)
    [] hi \in {58, 59} /\ d2 \in {4, 6} ->
         Ins(IF d2 = 4 THEN (IF hi = 58 THEN "INB" ELSE "IN")
             ELSE (IF hi = 58 THEN "OUTB" ELSE "OUT"), 2)
    [] <<hi, d1, d2>> = <<141, 0, 7>> -> Ins("NOP", 0)
    [] <<hi, d1, d2>> = <<122, 0, 0>> -> Ins("HALT", 0)
    [] <<hi, d1, d2>> = <<123, 0, 0>> -> Ins("IRET", 0)
    [] OTHER -> Ins("DW", 0)

\* The patterns are disjoint: their order in the code does not matter.
Z8000Lists(hi, d1, d2) ==
  IF hi \in 128 .. 139 THEN Ins(rr_table[hi - 127], 0)
  ELSE IF ListLoads(hi, d1).does # "DW" THEN ListLoads(hi, d1)
  ELSE IF ListJumps(hi, d1, d2).does # "DW" THEN ListJumps(hi, d1, d2)
  ELSE ListControl(hi, d1, d2)

\* The bytes emfe_step_over skips: 0 is not a call.
Z8000StepsOver(hi, d1, d2) ==
  LET line == Z8000Lists(hi, d1, d2)
  IN  IF line.does \in {"CALL", "CALR"} THEN 2 + line.n ELSE 0
=============================================================================
