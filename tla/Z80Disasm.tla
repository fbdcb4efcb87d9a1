----------------------------- MODULE Z80Disasm -----------------------------
(***************************************************************************)
(* The disassembler's own decode (z80/src/Z80Disasm.cpp): mnemonic and the *)
(* bytes listed after the opcode.  Conditional forms carry cc and a jump   *)
(* through a register rr, which the text shows as operands.                *)
(***************************************************************************)
EXTENDS Z80Decode

k_alu_mnem == <<"ADD", "ADC", "SUB", "SBC", "AND", "XOR", "OR", "CP">>
k_rot_mnem == <<"RLC", "RRC", "RL", "RR", "SLA", "SRA", "SLL", "SRL">>

decodeCb(cb) == I(CASE X(cb) = 0 -> k_rot_mnem[Y(cb) + 1] [] X(cb) = 1 -> "BIT"
                    [] X(cb) = 2 -> "RES" [] X(cb) = 3 -> "SET", 0)

\* Mutant: LD (nn), rr is listed without its address.
decodeEdShort(sub) ==
  CASE X(sub) = 1 /\ Z(sub) = 2 -> I(IF Q(sub) = 1 THEN "ADC" ELSE "SBC", 0)
    [] X(sub) = 1 /\ Z(sub) = 3 -> I("LD", IF Q(sub) = 0 THEN 0 ELSE 2)
    [] OTHER -> I("NOP", 0)

BlockOpcodes == (160 .. 163) \cup (168 .. 171) \cup (176 .. 179) \cup (184 .. 187)
BlockMnemonic(sub) ==
  CASE sub = 160 -> "LDI"  [] sub = 168 -> "LDD"  [] sub = 176 -> "LDIR" [] sub = 184 -> "LDDR"
    [] sub = 161 -> "CPI"  [] sub = 169 -> "CPD"  [] sub = 177 -> "CPIR" [] sub = 185 -> "CPDR"
    [] sub = 162 -> "INI"  [] sub = 170 -> "IND"  [] sub = 178 -> "INIR" [] sub = 186 -> "INDR"
    [] sub = 163 -> "OUTI" [] sub = 171 -> "OUTD" [] sub = 179 -> "OTIR" [] sub = 187 -> "OTDR"

decodeEd(sub) ==
  CASE X(sub) = 1 /\ Z(sub) = 2 -> I(IF Q(sub) = 1 THEN "ADC" ELSE "SBC", 0)
    [] X(sub) = 1 /\ Z(sub) = 3 -> I("LD", 2)
    [] X(sub) = 1 /\ Z(sub) = 4 -> I("NEG", 0)
    [] X(sub) = 1 /\ Z(sub) = 5 -> I(IF sub = 77 THEN "RETI" ELSE "RETN", 0)
    [] sub \in {70, 102, 78, 110} -> I("IM0", 0)
    [] sub \in {86, 118} -> I("IM1", 0)
    [] sub \in {94, 126} -> I("IM2", 0)
    [] sub \in {71, 79, 87, 95} -> I("LD", 0)
    [] X(sub) = 1 /\ Z(sub) = 0 -> I("IN", 0)
    [] X(sub) = 1 /\ Z(sub) = 1 -> I("OUT", 0)
    [] sub = 103 -> I("RRD", 0) [] sub = 111 -> I("RLD", 0)
    [] sub \in BlockOpcodes -> I(BlockMnemonic(sub), 0)
    [] OTHER -> I("NOP", 0)

\* The unknown suffix is listed with its prefix, as DB $DD, suffix.
decodeDdFd(op) ==
  CASE op \in {33, 34, 42} -> I("LD", 2)
    [] op = 35 -> I("INC", 0) [] op = 43 -> I("DEC", 0)
    [] X(op) = 0 /\ Z(op) = 1 /\ Q(op) = 1 -> I("ADD", 0)
    [] op = 229 -> I("PUSH", 0) [] op = 225 -> I("POP", 0)
    [] op = 233 -> I("JPrr", 0) [] op = 249 -> I("LD", 0)
    [] op = 54 -> I("LD", 2)
    [] X(op) = 1 /\ op # 118 /\ (Z(op) = 6 \/ Y(op) = 6) -> I("LD", 1)
    [] op = 52 -> I("INC", 1) [] op = 53 -> I("DEC", 1)
    [] X(op) = 2 /\ Z(op) = 6 -> I(k_alu_mnem[Y(op) + 1], 1)
    [] op \in {36, 44} -> I("INC", 0) [] op \in {37, 45} -> I("DEC", 0)
    [] op \in {38, 46} -> I("LD", 1)
    [] X(op) = 1 /\ Z(op) # 6 /\ Y(op) # 6 /\ (Y(op) \in {4, 5} \/ Z(op) \in {4, 5}) ->
         I("LD", 0)
    [] X(op) = 2 /\ Z(op) \in {4, 5} -> I(k_alu_mnem[Y(op) + 1], 0)
    [] OTHER -> I("DB", 0)

\* 00..BF of the plain table, without the jumps.
PlainLow(op) ==
  CASE op = 0 -> I("NOP", 0) [] op = 118 -> I("HALT", 0) [] op = 8 -> I("EX", 0)
    [] X(op) = 0 /\ Z(op) = 7 ->
         I(<<"RLCA", "RRCA", "RLA", "RRA", "DAA", "CPL", "SCF", "CCF">>[Y(op) + 1], 0)
    [] X(op) = 0 /\ Z(op) = 1 -> IF Q(op) = 0 THEN I("LD", 2) ELSE I("ADD", 0)
    [] X(op) = 0 /\ Z(op) = 3 -> I(IF Q(op) = 0 THEN "INC" ELSE "DEC", 0)
    [] X(op) = 0 /\ Z(op) = 4 -> I("INC", 0) [] X(op) = 0 /\ Z(op) = 5 -> I("DEC", 0)
    [] op \in {2, 18, 10, 26} -> I("LD", 0)
    [] op \in {34, 42, 50, 58} -> I("LD", 2)
    [] X(op) = 0 /\ Z(op) = 6 -> I("LD", 1)
    [] X(op) = 1 /\ op # 118 -> I("LD", 0)
    [] X(op) = 2 -> I(k_alu_mnem[Y(op) + 1], 0)

\* Jumps everywhere and C0..FF.
PlainFlow(op) ==
  CASE op = 243 -> I("DI", 0) [] op = 251 -> I("EI", 0) [] op = 217 -> I("EXX", 0)
    [] op \in {227, 235} -> I("EX", 0)
    [] X(op) = 3 /\ Z(op) = 6 -> I(k_alu_mnem[Y(op) + 1], 1)
    [] op = 24 -> I("JR", 1) [] op = 16 -> I("DJNZ", 1)
    [] op \in {32, 40, 48, 56} -> I("JRcc", 1)
    [] op = 195 -> I("JP", 2) [] op = 233 -> I("JPrr", 0)
    [] X(op) = 3 /\ Z(op) = 2 -> I("JPcc", 2)
    [] op = 205 -> I("CALL", 2) [] X(op) = 3 /\ Z(op) = 4 -> I("CALLcc", 2)
    [] op = 201 -> I("RET", 0) [] X(op) = 3 /\ Z(op) = 0 -> I("RETcc", 0)
    [] X(op) = 3 /\ Z(op) = 7 -> I("RST", 0)
    [] X(op) = 3 /\ Z(op) = 5 /\ Q(op) = 0 -> I("PUSH", 0)
    [] X(op) = 3 /\ Z(op) = 1 /\ Q(op) = 0 -> I("POP", 0)
    [] op = 219 -> I("IN", 1) [] op = 211 -> I("OUT", 1)
    [] OTHER -> I("DB", 0)

decodePlain(op) ==
  IF X(op) = 3 \/ (X(op) = 0 /\ Z(op) = 0 /\ op \notin {0, 8}) THEN PlainFlow(op) ELSE PlainLow(op)

Lists(table, op) ==
  CASE table = "plain" -> decodePlain(op)
    [] table = "CB" -> decodeCb(op)
    [] table = "DD" -> decodeDdFd(op)
    [] table = "DDCB" -> [decodeCb(op) EXCEPT !.n = 2]
    [] table = "ED" -> decodeEd(op)
=============================================================================
