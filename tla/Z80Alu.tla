------------------------------- MODULE Z80Alu -------------------------------
(***************************************************************************)
(* The arithmetic of the Z80 core (z80/src/Z80Cpu.cpp): what each helper   *)
(* returns and the flags it leaves.  F is the set of the flags that are 1; *)
(* Y and X are the undocumented copies of bits 5 and 3.                    *)
(***************************************************************************)
EXTENDS Arith

Byte == 0 .. 255
Digit(v) == v % 16
Low12(v) == v % 4096
Flags == {"S", "Z", "Y", "H", "X", "PV", "N", "C"}

YX(v) == Given("Y", Bit(v, 5)) \cup Given("X", Bit(v, 3))
Shape(r) == Given("S", Bit(r, 7)) \cup Given("Z", r = 0) \cup YX(r)
Parity(r) == Given("PV", EvenParity(r, 8))
Keep(F, names) == F \cap names

\* r is the byte written back, f the flags.
Out(r, f) == [r |-> r, f |-> f]
-----------------------------------------------------------------------------
(***************************************************************************)
(* 8-bit addition and subtraction.                                         *)
(***************************************************************************)
AluAdd(a, b, cy) ==
  LET full == a + b + cy
      r == Wrap(full, 8)
  IN Out(r, Shape(r) \cup Given("H", Digit(a) + Digit(b) + cy > 15) \cup Given("C", full > 255)
            \cup Given("PV", Bit(a, 7) # Bit(r, 7) /\ Bit(b, 7) # Bit(r, 7)))

\* Mutant: the overflow test of the addition.
AluSubOverflow(a, b, by) ==
  LET r == Wrap(a - b - by, 8)
  IN Out(r, {"N"} \cup Shape(r) \cup Given("H", Digit(a) - Digit(b) - by < 0)
            \cup Given("C", a - b - by < 0)
            \cup Given("PV", Bit(a, 7) # Bit(r, 7) /\ Bit(b, 7) # Bit(r, 7)))

AluSub(a, b, by) ==
  LET full == a - b - by
      r == Wrap(full, 8)
  IN Out(r, {"N"} \cup Shape(r) \cup Given("H", Digit(a) - Digit(b) - by < 0)
            \cup Given("C", full < 0)
            \cup Given("PV", Bit(a, 7) # Bit(b, 7) /\ Bit(a, 7) # Bit(r, 7)))

\* The comparison keeps A, and takes Y and X from the operand.
AluCp(a, b) ==
  LET s == AluSub(a, b, 0) IN Out(a, (s.f \ {"Y", "X"}) \cup YX(b))

Inc8(v, F) ==
  LET r == Wrap(v + 1, 8)
  IN Out(r, Keep(F, {"C"}) \cup Shape(r) \cup Given("H", Digit(v) = 15) \cup Given("PV", r = 128))

Dec8(v, F) ==
  LET r == Wrap(v - 1, 8)
  IN Out(r, Keep(F, {"C"}) \cup {"N"} \cup Shape(r) \cup Given("H", Digit(v) = 0)
            \cup Given("PV", r = 127))

Logic(bits, half) ==
  LET r == Word(bits, 8) IN Out(r, Given("H", half) \cup Shape(r) \cup Parity(r))

AluAnd(a, b) == Logic(Ones(a, 8) \cap Ones(b, 8), TRUE)
AluOr(a, b) == Logic(Ones(a, 8) \cup Ones(b, 8), FALSE)

\* Mutant: OR in place of XOR.
AluXorInclusive(a, b) == Logic(Ones(a, 8) \cup Ones(b, 8), FALSE)
AluXor(a, b) == Logic((Ones(a, 8) \cup Ones(b, 8)) \ (Ones(a, 8) \cap Ones(b, 8)), FALSE)

\* ooo of the ALU opcodes; cy is the carry flag before.
Alu(op, a, b, cy) ==
  CASE op = "ADD" -> AluAdd(a, b, 0) [] op = "ADC" -> AluAdd(a, b, cy)
    [] op = "SUB" -> AluSub(a, b, 0) [] op = "SBC" -> AluSub(a, b, cy)
    [] op = "AND" -> AluAnd(a, b)    [] op = "XOR" -> AluXor(a, b)
    [] op = "OR"  -> AluOr(a, b)     [] op = "CP"  -> AluCp(a, b)

\* Mutant: the limit of the high digit.
OpDaaLimit(a, F) ==
  LET sub == "N" \in F
      low == "H" \in F \/ (~sub /\ Digit(a) > 9)
      high == "C" \in F \/ (~sub /\ a > 159)
      by == (IF low THEN 6 ELSE 0) + (IF high THEN 96 ELSE 0)
      r == Wrap(IF sub THEN a - by ELSE a + by, 8)
  IN Out(r, Keep(F, {"N"}) \cup Shape(r) \cup Parity(r) \cup Given("C", high)
            \cup Given("H", IF sub THEN "H" \in F /\ Digit(a) < 6 ELSE Digit(a) > 9))

OpDaa(a, F) ==
  LET sub == "N" \in F
      low == "H" \in F \/ (~sub /\ Digit(a) > 9)
      high == "C" \in F \/ (~sub /\ a > 153)
      by == (IF low THEN 6 ELSE 0) + (IF high THEN 96 ELSE 0)
      r == Wrap(IF sub THEN a - by ELSE a + by, 8)
  IN Out(r, Keep(F, {"N"}) \cup Shape(r) \cup Parity(r) \cup Given("C", high)
            \cup Given("H", IF sub THEN "H" \in F /\ Digit(a) < 6 ELSE Digit(a) > 9))
-----------------------------------------------------------------------------
(***************************************************************************)
(* Rotates and shifts: the bit that leaves goes to C, `in` enters.         *)
(***************************************************************************)
Left(v, in) == Wrap(2 * v, 8) + in
Right(v, in) == v \div 2 + 128 * in
Top(v) == Carry(Bit(v, 7))
Low(v) == Carry(Bit(v, 0))

SetShiftRotateFlags(r, out) == Shape(r) \cup Parity(r) \cup Given("C", out = 1)

RotRLC(v) == Out(Left(v, Top(v)), SetShiftRotateFlags(Left(v, Top(v)), Top(v)))
RotRRC(v) == Out(Right(v, Low(v)), SetShiftRotateFlags(Right(v, Low(v)), Low(v)))
RotRL(v, cy) == Out(Left(v, cy), SetShiftRotateFlags(Left(v, cy), Top(v)))

\* Mutant: the bit that leaves is rotated in, as in RRC.
RotRRCircular(v, cy) == Out(Right(v, Low(v)), SetShiftRotateFlags(Right(v, Low(v)), Low(v)))
RotRR(v, cy) == Out(Right(v, cy), SetShiftRotateFlags(Right(v, cy), Low(v)))
ShiftSLA(v) == Out(Left(v, 0), SetShiftRotateFlags(Left(v, 0), Top(v)))
ShiftSRA(v) == Out(Right(v, Top(v)), SetShiftRotateFlags(Right(v, Top(v)), Low(v)))
ShiftSLL(v) == Out(Left(v, 1), SetShiftRotateFlags(Left(v, 1), Top(v)))
ShiftSRL(v) == Out(Right(v, 0), SetShiftRotateFlags(Right(v, 0), Low(v)))

\* The one-byte forms on A keep S, Z and P/V.
OnA(shift, F) == Out(shift.r, Keep(F, {"S", "Z", "PV"}) \cup Keep(shift.f, {"Y", "X", "C"}))
OpRlca(a, F) == OnA(RotRLC(a), F)
OpRrca(a, F) == OnA(RotRRC(a), F)
OpRla(a, F) == OnA(RotRL(a, Carry("C" \in F)), F)
OpRra(a, F) == OnA(RotRR(a, Carry("C" \in F)), F)

OpCpl(a, F) == Out(255 - a, Keep(F, {"S", "Z", "PV", "C"}) \cup {"H", "N"} \cup YX(255 - a))
OpScf(a, F) == Out(a, Keep(F, {"S", "Z", "PV"}) \cup YX(a) \cup {"C"})
OpCcf(a, F) == Out(a, Keep(F, {"S", "Z", "PV"}) \cup YX(a)
                      \cup (IF "C" \in F THEN {"H"} ELSE {"C"}))

OpBit(b, v, yx, F) ==
  Keep(F, {"C"}) \cup {"H"} \cup YX(yx)
    \cup (IF Bit(v, b) THEN Given("S", b = 7) ELSE {"Z", "PV"})

\* RRD and RLD: a digit of (HL) goes through the low digit of A.
Digits(F, a) == Keep(F, {"C"}) \cup Shape(a) \cup Parity(a)
Rrd(a, m, F) ==
  LET r == 16 * (a \div 16) + Digit(m)
  IN [r |-> r, m |-> 16 * (Digit(a)) + m \div 16, f |-> Digits(F, r)]
Rld(a, m, F) ==
  LET r == 16 * (a \div 16) + m \div 16
  IN [r |-> r, m |-> 16 * (Digit(m)) + Digit(a), f |-> Digits(F, r)]
-----------------------------------------------------------------------------
(***************************************************************************)
(* 16 bits.                                                                *)
(***************************************************************************)
AddPair16(t, d, F) ==
  LET r == Wrap(t + d, 16)
  IN Out(r, Keep(F, {"S", "Z", "PV"}) \cup YX(r \div 256) \cup Given("C", t + d > 65535)
            \cup Given("H", Low12(t) + Low12(d) > 4095))

\* Mutant: the half carry forgets the carry in.
AdcHl16NoHalf(hl, d, F) ==
  LET full == hl + d + Carry("C" \in F)
      r == Wrap(full, 16)
  IN Out(r, Given("S", Bit(r, 15)) \cup Given("Z", r = 0) \cup YX(r \div 256)
            \cup Given("H", Low12(hl) + Low12(d) > 4095) \cup Given("C", full > 65535)
            \cup Given("PV", Bit(hl, 15) # Bit(r, 15) /\ Bit(d, 15) # Bit(r, 15)))

AdcHl16(hl, d, F) ==
  LET cy == Carry("C" \in F)
      full == hl + d + cy
      r == Wrap(full, 16)
  IN Out(r, Given("S", Bit(r, 15)) \cup Given("Z", r = 0) \cup YX(r \div 256)
            \cup Given("H", Low12(hl) + Low12(d) + cy > 4095) \cup Given("C", full > 65535)
            \cup Given("PV", Bit(hl, 15) # Bit(r, 15) /\ Bit(d, 15) # Bit(r, 15)))

SbcHl16(hl, d, F) ==
  LET by == Carry("C" \in F)
      full == hl - d - by
      r == Wrap(full, 16)
  IN Out(r, {"N"} \cup Given("S", Bit(r, 15)) \cup Given("Z", r = 0) \cup YX(r \div 256)
            \cup Given("H", Low12(hl) - Low12(d) - by < 0) \cup Given("C", full < 0)
            \cup Given("PV", Bit(hl, 15) # Bit(d, 15) /\ Bit(hl, 15) # Bit(r, 15)))

CheckCond(F) ==
  [NZ |-> "Z" \notin F, Z |-> "Z" \in F, NC |-> "C" \notin F, C |-> "C" \in F,
   PO |-> "PV" \notin F, PE |-> "PV" \in F, P |-> "S" \notin F, M |-> "S" \in F]
=============================================================================
