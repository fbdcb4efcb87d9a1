------------------------------- MODULE Em8Alu -------------------------------
(***************************************************************************)
(* The arithmetic of the em8 core (em8/src/Em8Cpu.cpp).  F is the set of   *)
(* the flags N, V, Z, C that are 1; C is "no borrow" after a subtraction.  *)
(***************************************************************************)
EXTENDS Arith

Out(r, f) == [r |-> r, f |-> f]
SetNZ(v) == Given("Z", v = 0) \cup Given("N", Bit(v, 7))

DoAdd(a, val, F) ==
  LET sum == a + val + Carry("C" \in F)
      r == Wrap(sum, 8)
  IN Out(r, SetNZ(r) \cup Given("C", sum > 255)
            \cup Given("V", Bit(a, 7) = Bit(val, 7) /\ Bit(a, 7) # Bit(r, 7)))

DoSub(a, val, F) ==
  LET diff == a + (255 - val) + Carry("C" \in F)
      r == Wrap(diff, 8)
  IN Out(r, SetNZ(r) \cup Given("C", diff > 255)
            \cup Given("V", Bit(a, 7) # Bit(val, 7) /\ Bit(a, 7) # Bit(r, 7)))

DoCmp(reg, val, F) ==
  (F \cap {"V"}) \cup Given("C", reg >= val) \cup Given("Z", reg = val)
    \cup Given("N", Bit(Wrap(reg - val, 8), 7))

\* The four shifts: `in` enters, `out` leaves into C.
Shifted(r, out, F) == Out(r, (F \cap {"V"}) \cup SetNZ(r) \cup Given("C", out))

Shift(kind, a, F) ==
  CASE kind = "ASL" -> Shifted(Wrap(2 * a, 8), Bit(a, 7), F)
    [] kind = "LSR" -> Shifted(a \div 2, Bit(a, 0), F)
    [] kind = "ROL" -> Shifted(Wrap(2 * a, 8) + Carry("C" \in F), Bit(a, 7), F)
    [] kind = "ROR" -> Shifted(a \div 2 + 128 * Carry("C" \in F), Bit(a, 0), F)
=============================================================================
