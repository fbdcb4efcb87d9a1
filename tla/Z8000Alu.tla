------------------------------ MODULE Z8000Alu ------------------------------
(***************************************************************************)
(* The arithmetic of the Z8000 core (z8000/src/Z8000Cpu.cpp).  Bytes and   *)
(* words differ in the width w alone; F is the set of FCW flags that are 1.*)
(* DA says that the last operation was a subtraction.                      *)
(***************************************************************************)
EXTENDS Arith

Out(r, f) == [r |-> r, f |-> f]

\* The digit below the top one carries into H.
Below(v, w) == v % 2^(w - 4)
Shape(r, w) == Given("Z", r = 0) \cup Given("S", Bit(r, w - 1))

\* F are the flags before; H and DA are kept.
UpdateFlags(r, w, F) == (F \ {"Z", "S", "PV"}) \cup Shape(r, w) \cup Given("PV", EvenParity(r, w))

LogicOp(kind, a, b, w, F) ==
  LET x == Ones(a, w)
      y == Ones(b, w)
      r == Word(CASE kind = "AND" -> x \cap y [] kind = "OR" -> x \cup y
                  [] kind = "XOR" -> (x \cup y) \ (x \cap y), w)
  IN Out(r, UpdateFlags(r, w, F) \ {"C"})

DoAdd(a, b, c, w) ==
  LET r == Wrap(a + b + c, w)
  IN Out(r, Shape(r, w) \cup Given("C", a + b + c >= 2^w)
            \cup Given("PV", Bit(a, w - 1) = Bit(b, w - 1) /\ Bit(a, w - 1) # Bit(r, w - 1))
            \cup Given("H", Below(a, w) + Below(b, w) + c >= 2^(w - 4)))

\* Mutant: the sign of the result is compared with the wrong operand.
DoSubWrongSign(a, b, c, w) ==
  LET r == Wrap(a - b - c, w)
  IN Out(r, {"DA"} \cup Shape(r, w) \cup Given("C", a - b - c < 0)
            \cup Given("PV", Bit(a, w - 1) # Bit(b, w - 1) /\ Bit(b, w - 1) # Bit(r, w - 1))
            \cup Given("H", Below(a, w) - Below(b, w) - c < 0))

DoSub(a, b, c, w) ==
  LET r == Wrap(a - b - c, w)
  IN Out(r, {"DA"} \cup Shape(r, w) \cup Given("C", a - b - c < 0)
            \cup Given("PV", Bit(a, w - 1) # Bit(b, w - 1) /\ Bit(a, w - 1) # Bit(r, w - 1))
            \cup Given("H", Below(a, w) - Below(b, w) - c < 0))

\* The 16 condition codes.
TestCondition(F) ==
  LET z == "Z" \in F
      c == "C" \in F
      s == "S" \in F
      v == "PV" \in F
  IN [F |-> FALSE, LT |-> v # s, LE |-> z \/ v # s, ULE |-> c \/ z, OV |-> v, MI |-> s,
      EQ |-> z, ULT |-> c, T |-> TRUE, GE |-> v = s, GT |-> ~z /\ v = s,
      UGT |-> ~c /\ ~z, NOV |-> ~v, PL |-> ~s, NE |-> ~z, UGE |-> ~c]
=============================================================================
