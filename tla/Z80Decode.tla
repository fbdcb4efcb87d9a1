----------------------------- MODULE Z80Decode -----------------------------
(***************************************************************************)
(* One Z80 instruction as the core executes it (z80/src/Z80Cpu.cpp), and   *)
(* the length of a call as emfe_step_over has it: a reading is the name of *)
(* the operation and the number of bytes after the opcode.  An opcode is   *)
(* split as in the Zilog tables: x, y, z are bits 7:6, 5:3 and 2:0, q is   *)
(* bit 3.                                                                  *)
(***************************************************************************)
EXTENDS Integers, Sequences

X(op) == op \div 64
Y(op) == (op \div 8) % 8
Z(op) == op % 8
Q(op) == Y(op) % 2

I(name, operands) == [does |-> name, n |-> operands]

\* A DD or FD before an opcode it does not change takes one byte and leaves the
\* opcode to be fetched again: counted from the opcode, one byte less than none.
Ineffective == I("prefix", -1)
-----------------------------------------------------------------------------
(***************************************************************************)
(* The core.                                                               *)
(***************************************************************************)
\* The cases of the switch over the three operation bits.
AluCase == <<"ADD", "ADC", "SUB", "SBC", "AND", "XOR", "OR", "CP">>
RotCase == <<"RLC", "RRC", "RL", "RR", "SLA", "SRA", "SLL", "SRL">>

\* 00..3F: loads, increments, 16-bit arithmetic.
CpuLoads(op) ==
  CASE op = 0 -> I("NOP", 0)
    [] Z(op) = 1 -> IF Q(op) = 0 THEN I("LD", 2) ELSE I("ADD", 0)
    [] Z(op) = 3 -> I(IF Q(op) = 0 THEN "INC" ELSE "DEC", 0)
    [] Z(op) = 4 -> I("INC", 0)
    [] Z(op) = 5 -> I("DEC", 0)
    [] Z(op) = 2 -> I("LD", IF Y(op) < 4 THEN 0 ELSE 2)
    [] Z(op) = 6 -> I("LD", 1)

\* 40..BF and the immediate forms: register loads and the accumulator.
CpuAlu(op) ==
  CASE op = 118 -> I("HALT", 0)
    [] X(op) = 1 /\ op # 118 -> I("LD", 0)
    [] X(op) = 2 -> I(AluCase[Y(op) + 1], 0)
    [] X(op) = 3 /\ Z(op) = 6 -> I(AluCase[Y(op) + 1], 1)

\* Mutant: the conditional call has lost its operand.
CpuFlowShort(op) ==
  CASE op = 24 -> I("JR", 1) [] op = 16 -> I("DJNZ", 1)
    [] X(op) = 0 /\ Z(op) = 0 /\ Y(op) > 3 -> I("JRcc", 1)
    [] op = 195 -> I("JP", 2) [] op = 233 -> I("JPrr", 0)
    [] X(op) = 3 /\ Z(op) = 2 -> I("JPcc", 2)
    [] op = 205 -> I("CALL", 2) [] X(op) = 3 /\ Z(op) = 4 -> I("CALLcc", 0)
    [] op = 201 -> I("RET", 0) [] X(op) = 3 /\ Z(op) = 0 -> I("RETcc", 0)
    [] X(op) = 3 /\ Z(op) = 7 -> I("RST", 0)

\* Jumps, calls and returns.
CpuFlow(op) ==
  CASE op = 24 -> I("JR", 1) [] op = 16 -> I("DJNZ", 1)
    [] X(op) = 0 /\ Z(op) = 0 /\ Y(op) > 3 -> I("JRcc", 1)
    [] op = 195 -> I("JP", 2) [] op = 233 -> I("JPrr", 0)
    [] X(op) = 3 /\ Z(op) = 2 -> I("JPcc", 2)
    [] op = 205 -> I("CALL", 2) [] X(op) = 3 /\ Z(op) = 4 -> I("CALLcc", 2)
    [] op = 201 -> I("RET", 0) [] X(op) = 3 /\ Z(op) = 0 -> I("RETcc", 0)
    [] X(op) = 3 /\ Z(op) = 7 -> I("RST", 0)

\* Stack, exchanges, accumulator flags, ports.
CpuMisc(op) ==
  CASE op = 243 -> I("DI", 0) [] op = 251 -> I("EI", 0)
    [] X(op) = 3 /\ Z(op) = 5 /\ Q(op) = 0 -> I("PUSH", 0)
    [] X(op) = 3 /\ Z(op) = 1 /\ Q(op) = 0 -> I("POP", 0)
    [] op = 249 -> I("LD", 0)
    [] op \in {8, 235, 227} -> I("EX", 0) [] op = 217 -> I("EXX", 0)
    [] X(op) = 0 /\ Z(op) = 7 ->
         I(<<"RLCA", "RRCA", "RLA", "RRA", "DAA", "CPL", "SCF", "CCF">>[Y(op) + 1], 0)
    [] op = 219 -> I("IN", 1) [] op = 211 -> I("OUT", 1)

Prefixes == {203, 221, 237, 253}        \* CB, DD, ED, FD
IsFlow(op) == \/ op \in {24, 16, 195, 233, 205, 201}
              \/ X(op) = 0 /\ Z(op) = 0 /\ Y(op) > 3
              \/ X(op) = 3 /\ Z(op) \in {0, 2, 4, 7}
IsMisc(op) == \/ op \in {243, 251, 249, 8, 235, 227, 217, 219, 211}
              \/ X(op) = 3 /\ Z(op) \in {1, 5} /\ Q(op) = 0
              \/ X(op) = 0 /\ Z(op) = 7

CpuPlain(op) == IF IsFlow(op) THEN CpuFlow(op) ELSE IF IsMisc(op) THEN CpuMisc(op)
                ELSE IF X(op) = 0 THEN CpuLoads(op) ELSE CpuAlu(op)

\* The operation byte of the CB forms.
CpuCb(op) == I(CASE X(op) = 0 -> RotCase[Y(op) + 1] [] X(op) = 1 -> "BIT"
                 [] X(op) = 2 -> "RES" [] X(op) = 3 -> "SET", 0)

\* (IXY+d) takes the place of (HL).
Displaced(op) ==
  CASE op = 54 -> I("LD", 2)
    [] op # 118 /\ ((X(op) = 1 /\ Z(op) = 6) \/ (X(op) = 1 /\ Y(op) = 6)) -> I("LD", 1)
    [] op = 52 -> I("INC", 1) [] op = 53 -> I("DEC", 1)
    [] X(op) = 2 /\ Z(op) = 6 -> I(AluCase[Y(op) + 1], 1)

IsDisplaced(op) == \/ op \in {52, 53, 54}
                   \/ op # 118 /\ X(op) = 1 /\ (Z(op) = 6 \/ Y(op) = 6)
                   \/ X(op) = 2 /\ Z(op) = 6

\* IXY takes the place of HL, and its halves of H and L.
WholeIndex(op) ==
  CASE op = 33 -> I("LD", 2) [] op \in {34, 42} -> I("LD", 2)
    [] op = 35 -> I("INC", 0) [] op = 43 -> I("DEC", 0)
    [] X(op) = 0 /\ Z(op) = 1 /\ Q(op) = 1 -> I("ADD", 0)
    [] op = 229 -> I("PUSH", 0) [] op = 225 -> I("POP", 0)
    [] op = 233 -> I("JPrr", 0) [] op = 249 -> I("LD", 0)

IsWholeIndex(op) == \/ op \in {33, 34, 42, 35, 43, 229, 225, 233, 249}
                    \/ X(op) = 0 /\ Z(op) = 1 /\ Q(op) = 1

HalfIndex(op) ==
  CASE op \in {36, 44} -> I("INC", 0) [] op \in {37, 45} -> I("DEC", 0)
    [] op \in {38, 46} -> I("LD", 1)
    [] X(op) = 1 /\ (Y(op) \in {4, 5} \/ Z(op) \in {4, 5}) -> I("LD", 0)
    [] X(op) = 2 /\ Z(op) \in {4, 5} -> I(AluCase[Y(op) + 1], 0)

IsHalfIndex(op) == \/ op \in {36, 44, 37, 45, 38, 46}
                   \/ X(op) = 1 /\ 6 \notin {Y(op), Z(op)}
                      /\ {4, 5} \cap {Y(op), Z(op)} # {}
                   \/ X(op) = 2 /\ Z(op) \in {4, 5}

\* A suffix without HL, H, L or (HL) is an instruction of its own.
CpuIndexed(op) == IF IsDisplaced(op) THEN Displaced(op)
                  ELSE IF IsWholeIndex(op) THEN WholeIndex(op)
                  ELSE IF IsHalfIndex(op) THEN HalfIndex(op) ELSE Ineffective

\* ED 40..7F.
CpuEdMisc(op) ==
  CASE Z(op) = 2 -> I(IF Q(op) = 0 THEN "SBC" ELSE "ADC", 0)
    [] Z(op) = 3 -> I("LD", 2)
    [] Z(op) = 4 -> I("NEG", 0)
    [] Z(op) = 5 -> I("RETN", 0)
    [] Z(op) = 6 -> I(IF op \in {70, 102, 78, 110} THEN "IM0"
                      ELSE IF op \in {86, 118} THEN "IM1" ELSE "IM2", 0)
    [] op \in {71, 79, 87, 95} -> I("LD", 0)
    [] Z(op) = 0 -> I("IN", 0) [] Z(op) = 1 -> I("OUT", 0)
    [] op = 103 -> I("RRD", 0) [] op = 111 -> I("RLD", 0)
    [] op \in {119, 127} -> I("NOP", 0)

\* The block instructions: A0..BB.
CpuEdBlock(op) ==
  I(<<<<"LDI", "LDD", "LDIR", "LDDR">>, <<"CPI", "CPD", "CPIR", "CPDR">>,
      <<"INI", "IND", "INIR", "INDR">>, <<"OUTI", "OUTD", "OTIR", "OTDR">>>>
      [Z(op) + 1][Y(op) - 3], 0)

CpuEd(op) == IF X(op) = 1 THEN CpuEdMisc(op)
             ELSE IF X(op) = 2 /\ Y(op) > 3 /\ Z(op) < 4 THEN CpuEdBlock(op) ELSE I("NOP", 0)

\* table is the prefix: of an indexed CB instruction op is the fourth byte.
Executes(table, op) ==
  CASE table = "plain" -> CpuPlain(op)
    [] table = "CB" -> CpuCb(op)
    [] table = "DD" -> CpuIndexed(op)
    [] table = "DDCB" -> [CpuCb(op) EXCEPT !.n = 2]
    [] table = "ED" -> CpuEd(op)
-----------------------------------------------------------------------------
\* Mutant: a restart is taken for a call with an address.
CallOpcodeLenRst(op) ==
  IF op = 205 \/ (X(op) = 3 /\ Z(op) \in {4, 7}) THEN 3 ELSE 0

\* The plugin's own table (z80/src/plugin_z80.cpp): 0 is not a call.
CallOpcodeLen(op) ==
  IF op = 205 \/ (X(op) = 3 /\ Z(op) = 4) THEN 3 ELSE IF X(op) = 3 /\ Z(op) = 7 THEN 1 ELSE 0

\* emfe_step_over looks at the byte at PC, which may be a prefix; FD is as DD.
Z80StepsOver(table, op) ==
  CallOpcodeLen(CASE table = "plain" -> op [] table = "CB" -> 203
                  [] table \in {"DD", "DDCB"} -> 221 [] table = "ED" -> 237)
=============================================================================
