----------------------------- MODULE Em8Decode -----------------------------
(***************************************************************************)
(* One em8 instruction as Em8Cpu::ExecuteOne fetches it and as             *)
(* Em8Cpu::Disassemble lists it (em8/src/Em8Cpu.cpp): the operation and    *)
(* the operand bytes.                                                      *)
(***************************************************************************)
EXTENDS Integers

I(name, operands) == [does |-> name, n |-> operands]

\* An unknown opcode halts with PC on it: it takes no operand.
Undefined == I("halt", 0)
-----------------------------------------------------------------------------
(***************************************************************************)
(* The core.  The one switch of the code is cut at its headings.           *)
(***************************************************************************)
\* FetchByte, AddrZpg, AddrZpgX and AddrInd take one operand byte, AddrAbs and
\* AddrAbsX two.
Addressed(name, op, absolute) == I(name, IF op \in absolute THEN 2 ELSE 1)

ExecuteArithmetic(op) ==
  CASE op \in 16 .. 18 -> Addressed("ADD", op, {18})
    [] op \in 20 .. 22 -> Addressed("SUB", op, {22})
    [] op \in 24 .. 25 -> I("AND", 1) [] op \in 28 .. 29 -> I("ORA", 1)
    [] op \in 32 .. 33 -> I("XOR", 1)
    [] op \in 36 .. 38 -> Addressed("CMP", op, {38})
    [] op = 56 -> I("CPX", 1) [] op = 60 -> I("CPY", 1) [] OTHER -> Undefined

ExecuteImplied(op) ==
  CASE op \in 64 .. 67 -> I(<<"ASL", "LSR", "ROL", "ROR">>[op - 63], 0)
    [] op \in 72 .. 77 -> I(<<"INC", "DEC", "INX", "DEX", "INY", "DEY">>[op - 71], 0)
    [] OTHER -> Undefined

Branches == <<"BEQ", "BNE", "BCS", "BCC", "BMI", "BPL", "BVS", "BVC", "BRA">>

\* Mutant: JMP and JSR fetch one byte of their address.
ExecuteControlShort(op) ==
  CASE op \in 80 .. 88 -> I(Branches[op - 79], 1)
    [] op = 96 -> I("JMP", 1) [] op = 97 -> I("JSR", 1)
    [] op = 98 -> I("RTS", 0) [] op = 99 -> I("RTI", 0) [] OTHER -> Undefined

ExecuteControl(op) ==
  CASE op \in 80 .. 88 -> I(Branches[op - 79], 1)
    [] op = 96 -> I("JMP", 2) [] op = 97 -> I("JSR", 2)
    [] op = 98 -> I("RTS", 0) [] op = 99 -> I("RTI", 0) [] OTHER -> Undefined

\* BRK skips a signature byte.
ExecuteRegisters(op) ==
  CASE op \in 112 .. 115 -> I(<<"PHA", "PLA", "PHF", "PLF">>[op - 111], 0)
    [] op \in 128 .. 133 -> I(<<"TAX", "TXA", "TAY", "TYA", "TXS", "TSX">>[op - 127], 0)
    [] op \in 144 .. 148 -> I(<<"CLC", "SEC", "CLI", "SEI", "CLV">>[op - 143], 0)
    [] op = 152 -> I("NOP", 0) [] op = 153 -> I("BRK", 1) [] op = 154 -> I("HLT", 0)
    [] OTHER -> Undefined

ExecuteLoads(op) ==
  CASE op \in 160 .. 165 -> Addressed("LDA", op, {162, 164})
    [] op \in 166 .. 168 -> Addressed("LDX", op, {168})
    [] op \in 169 .. 171 -> Addressed("LDY", op, {171}) [] OTHER -> Undefined

ExecuteStores(op) ==
  CASE op \in 172 .. 176 -> Addressed("STA", op, {173, 175})
    [] op \in 177 .. 178 -> Addressed("STX", op, {178})
    [] op \in 179 .. 180 -> Addressed("STY", op, {180}) [] OTHER -> Undefined

Em8Executes(op) ==
  CASE op < 64 -> ExecuteArithmetic(op)
    [] op \in 64 .. 79 -> ExecuteImplied(op)
    [] op \in 80 .. 111 -> ExecuteControl(op)
    [] op \in 112 .. 159 -> ExecuteRegisters(op)
    [] op \in 160 .. 171 -> ExecuteLoads(op)
    [] op > 171 -> ExecuteStores(op)
-----------------------------------------------------------------------------
(***************************************************************************)
(* The listing.                                                            *)
(***************************************************************************)
\* The opcodes listed with two and with three raw bytes; the others have one.
raw2 == {16, 17, 20, 21, 24, 25, 28, 29, 32, 33, 36, 37, 56, 60} \cup (80 .. 88) \cup
        {160, 161, 163, 165, 166, 167, 169, 170, 172, 174, 176, 177, 179}
raw3 == {18, 22, 38, 96, 97, 162, 164, 168, 171, 173, 175, 178, 180}

Disassemble(op) ==
  CASE op \in {16, 17, 18} -> "ADD" [] op \in {20, 21, 22} -> "SUB"
    [] op \in {24, 25} -> "AND" [] op \in {28, 29} -> "ORA" [] op \in {32, 33} -> "XOR"
    [] op \in {36, 37, 38} -> "CMP" [] op = 56 -> "CPX" [] op = 60 -> "CPY"
    [] op \in 64 .. 67 -> <<"ASL", "LSR", "ROL", "ROR">>[op - 63]
    [] op \in 72 .. 77 -> <<"INC", "DEC", "INX", "DEX", "INY", "DEY">>[op - 71]
    [] op \in 80 .. 88 -> <<"BEQ", "BNE", "BCS", "BCC", "BMI", "BPL", "BVS", "BVC", "BRA">>[op - 79]
    [] op \in 96 .. 99 -> <<"JMP", "JSR", "RTS", "RTI">>[op - 95]
    [] op \in 112 .. 115 -> <<"PHA", "PLA", "PHF", "PLF">>[op - 111]
    [] op \in 128 .. 133 -> <<"TAX", "TXA", "TAY", "TYA", "TXS", "TSX">>[op - 127]
    [] op \in 144 .. 148 -> <<"CLC", "SEC", "CLI", "SEI", "CLV">>[op - 143]
    [] op \in 152 .. 154 -> <<"NOP", "BRK", "HLT">>[op - 151]
    [] op \in 160 .. 165 -> "LDA" [] op \in 166 .. 168 -> "LDX" [] op \in 169 .. 171 -> "LDY"
    [] op \in 172 .. 176 -> "STA" [] op \in 177 .. 178 -> "STX" [] op \in 179 .. 180 -> "STY"
    [] OTHER -> "???"

Em8Lists(op) == I(Disassemble(op), IF op \in raw3 THEN 2 ELSE IF op \in raw2 THEN 1 ELSE 0)

\* The bytes emfe_step_over skips: 0 is not a call.
Em8StepsOver(op) == IF Em8Lists(op).does = "JSR" THEN 1 + Em8Lists(op).n ELSE 0
=============================================================================
