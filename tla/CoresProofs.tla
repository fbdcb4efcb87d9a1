----------------------------- MODULE CoresProofs -----------------------------
(***************************************************************************)
(* The arithmetic of the three cores is exact for every operand: what      *)
(* MCCores checks where the flags turn, proved for all bytes and words;    *)
(* and their listings show what they execute.                              *)
(***************************************************************************)
EXTENDS MCCores, FiniteSetTheorems, TLAPS

Byte == 0 .. 255
Wide == 0 .. (2^16 - 1)

\* A remainder takes one turn off, puts one on, or changes nothing.
LEMMA OneTurn ==
  ASSUME NEW n \in Nat, n > 0, NEW v \in Int, -n <= v, v < 2 * n
  PROVE  v % n = IF v < 0 THEN v + n ELSE IF v < n THEN v ELSE v - n
<1>1. v < 0 => v % n = v + n
  OBVIOUS
<1>2. 0 <= v /\ v < n => v % n = v
  OBVIOUS
<1>3. v >= n => v % n = v - n
  OBVIOUS
<1>4. QED
  BY <1>1, <1>2, <1>3

\* The powers the widths need.
LEMMA PowerOf ==
  ASSUME NEW k
  PROVE  /\ k = 7 => 2^k = 128
         /\ k = 8 => 2^k = 256
         /\ k = 15 => 2^k = 32768
         /\ k = 16 => 2^k = 65536
<1>1. k = 7 => 2^k = 128
  OBVIOUS
<1>2. k = 8 => 2^k = 256
  OBVIOUS
<1>3. k = 15 => 2^k = 32768
  OBVIOUS
<1>4. k = 16 => 2^k = 65536
  OBVIOUS
<1>5. QED
  BY <1>1, <1>2, <1>3, <1>4

\* What a step computes, in bytes or in words, is off by one turn at most.
Width(w, h, n) ==
  \/ w = 8 /\ h = 128 /\ n = 256
  \/ w = 16 /\ h = 32768 /\ n = 65536

\* What the width says of the powers, of a remainder and of the sign bit.
LEMMA WidthFacts ==
  ASSUME NEW w, NEW h, NEW n, Width(w, h, n)
  PROVE  /\ h \in Nat /\ n \in Nat /\ n = 2 * h /\ 0 < h /\ 2^w = n /\ 2^(w - 1) = h
         /\ \A v \in Int : -n <= v /\ v < 2 * n =>
              Wrap(v, w) = IF v < 0 THEN v + n ELSE IF v < n THEN v ELSE v - n
         /\ \A v \in Int : Wrap(v, w) \in 0 .. (n - 1)
         /\ \A a \in 0 .. (n - 1) : /\ Bit(a, w - 1) <=> a >= h
                                    /\ Signed(a, w) = IF a >= h THEN a - n ELSE a
<1>1. h \in Nat /\ n \in Nat /\ n = 2 * h /\ 0 < h
  BY DEF Width
<1>2. 2^w = n /\ 2^(w - 1) = h
  <2>1. \/ w = 8 /\ w - 1 = 7 /\ h = 128 /\ n = 256
        \/ w = 16 /\ w - 1 = 15 /\ h = 32768 /\ n = 65536
    BY DEF Width
  <2>2. /\ w = 8 => 2^w = 256
        /\ w = 16 => 2^w = 65536
        /\ w - 1 = 7 => 2^(w - 1) = 128
        /\ w - 1 = 15 => 2^(w - 1) = 32768
    BY PowerOf
  <2>3. QED
    BY <2>1, <2>2
<1>3. \A v \in Int : -n <= v /\ v < 2 * n =>
              Wrap(v, w) = IF v < 0 THEN v + n ELSE IF v < n THEN v ELSE v - n
  BY <1>1, <1>2, OneTurn DEF Wrap
<1>4. \A v \in Int : Wrap(v, w) \in 0 .. (n - 1)
  BY <1>1, <1>2 DEF Wrap
<1>5. ASSUME NEW a \in 0 .. (n - 1) PROVE Bit(a, w - 1) <=> a >= h
  <2>1. a \in Int /\ 0 <= a /\ a < 2 * h
    BY <1>1
  <2>2. CASE h = 128
    <3>1. (a \div 128) % 2 = 1 <=> a >= 128
      BY <2>1, <2>2
    <3>2. QED
      BY <1>2, <2>2, <3>1 DEF Bit
  <2>3. CASE h = 32768
    <3>1. (a \div 32768) % 2 = 1 <=> a >= 32768
      BY <2>1, <2>3
    <3>2. QED
      BY <1>2, <2>3, <3>1 DEF Bit
  <2>4. QED
    BY <2>2, <2>3 DEF Width
<1>6. QED
  BY <1>1, <1>2, <1>3, <1>4, <1>5 DEF Signed

\* The flags of an addition, from its operands and its result.
LEMMA ExactAdd ==
  ASSUME NEW w, NEW h, NEW n, Width(w, h, n),
         NEW a \in 0 .. (n - 1), NEW b \in 0 .. (n - 1), NEW in \in {0, 1}
  PROVE  LET r == Wrap(a + b + in, w)
             signed == Signed(a, w) + Signed(b, w) + in
         IN /\ r = 0 <=> (a + b + in) % 2^w = 0
            /\ Bit(r, w - 1) <=> Signed(r, w) < 0
            /\ a + b + in > n - 1 <=> a + b + in \notin 0 .. (2^w - 1)
            /\ (Bit(a, w - 1) <=> Bit(b, w - 1)) /\ ~(Bit(a, w - 1) <=> Bit(r, w - 1))
                 <=> signed \notin SignedRange(w)
<1> DEFINE v == a + b + in
           r == Wrap(v, w)
<1>1. h \in Nat /\ n = 2 * h /\ 0 < h /\ 2^w = n /\ 2^(w - 1) = h
  BY WidthFacts
<1>2. v \in Int /\ 0 <= v /\ v < 2 * n
  BY <1>1
<1>3. /\ r = IF v < n THEN v ELSE v - n
      /\ r \in 0 .. (n - 1)
  BY <1>1, <1>2, WidthFacts
<1>4. \A x \in 0 .. (n - 1) : /\ Bit(x, w - 1) <=> x >= h
                            /\ Signed(x, w) = IF x >= h THEN x - n ELSE x
  BY WidthFacts
<1>5. r = 0 <=> (a + b + in) % 2^w = 0
  BY DEF Wrap
<1> HIDE DEF r
<1>6. Bit(r, w - 1) <=> Signed(r, w) < 0
  BY <1>1, <1>3, <1>4
<1>7. a + b + in > n - 1 <=> a + b + in \notin 0 .. (2^w - 1)
  BY <1>1
<1>8. (Bit(a, w - 1) <=> Bit(b, w - 1)) /\ ~(Bit(a, w - 1) <=> Bit(r, w - 1))
        <=> Signed(a, w) + Signed(b, w) + in \notin SignedRange(w)
  <2>1. SignedRange(w) = -h .. (h - 1)
    BY <1>1 DEF SignedRange
  <2>2. /\ Bit(a, w - 1) <=> a >= h
        /\ Bit(b, w - 1) <=> b >= h
        /\ Bit(r, w - 1) <=> r >= h
        /\ Signed(a, w) = IF a >= h THEN a - n ELSE a
        /\ Signed(b, w) = IF b >= h THEN b - n ELSE b
    BY <1>3, <1>4
  <2>3. QED
    BY <1>1, <1>3, <2>1, <2>2
<1>9. QED
  BY <1>5, <1>6, <1>7, <1>8 DEF r

\* The same of a subtraction.
LEMMA ExactSub ==
  ASSUME NEW w, NEW h, NEW n, Width(w, h, n),
         NEW a \in 0 .. (n - 1), NEW b \in 0 .. (n - 1), NEW in \in {0, 1}
  PROVE  LET r == Wrap(a - b - in, w)
             signed == Signed(a, w) - Signed(b, w) - in
         IN /\ r = 0 <=> (a - b - in) % 2^w = 0
            /\ Bit(r, w - 1) <=> Signed(r, w) < 0
            /\ a - b - in < 0 <=> a - b - in \notin 0 .. (2^w - 1)
            /\ ~(Bit(a, w - 1) <=> Bit(b, w - 1)) /\ ~(Bit(a, w - 1) <=> Bit(r, w - 1))
                 <=> signed \notin SignedRange(w)
<1> DEFINE v == a - b - in
           r == Wrap(v, w)
<1>1. h \in Nat /\ n = 2 * h /\ 0 < h /\ 2^w = n /\ 2^(w - 1) = h
  BY WidthFacts
<1>2. v \in Int /\ -n <= v /\ v < n
  BY <1>1
<1>3. /\ r = IF v < 0 THEN v + n ELSE v
      /\ r \in 0 .. (n - 1)
  BY <1>1, <1>2, WidthFacts
<1>4. \A x \in 0 .. (n - 1) : /\ Bit(x, w - 1) <=> x >= h
                            /\ Signed(x, w) = IF x >= h THEN x - n ELSE x
  BY WidthFacts
<1>5. r = 0 <=> (a - b - in) % 2^w = 0
  BY DEF Wrap
<1> HIDE DEF r
<1>6. Bit(r, w - 1) <=> Signed(r, w) < 0
  BY <1>1, <1>3, <1>4
<1>7. a - b - in < 0 <=> a - b - in \notin 0 .. (2^w - 1)
  BY <1>1
<1>8. ~(Bit(a, w - 1) <=> Bit(b, w - 1)) /\ ~(Bit(a, w - 1) <=> Bit(r, w - 1))
        <=> Signed(a, w) - Signed(b, w) - in \notin SignedRange(w)
  <2>1. SignedRange(w) = -h .. (h - 1)
    BY <1>1 DEF SignedRange
  <2>2. /\ Bit(a, w - 1) <=> a >= h
        /\ Bit(b, w - 1) <=> b >= h
        /\ Bit(r, w - 1) <=> r >= h
        /\ Signed(a, w) = IF a >= h THEN a - n ELSE a
        /\ Signed(b, w) = IF b >= h THEN b - n ELSE b
    BY <1>3, <1>4
  <2>3. QED
    BY <1>1, <1>3, <2>1, <2>2
<1>9. QED
  BY <1>5, <1>6, <1>7, <1>8 DEF r

\* The flags of an addition as the cores compute them ...
SumFlags(w, n, a, b, in, r, C, V, Z, S) ==
  /\ r = Wrap(a + b + in, w)
  /\ C <=> a + b + in > n - 1
  /\ V <=> (Bit(a, w - 1) <=> Bit(b, w - 1)) /\ ~(Bit(a, w - 1) <=> Bit(r, w - 1))
  /\ Z <=> r = 0
  /\ S <=> Bit(r, w - 1)

\* ... say what the integers say.
LEMMA SumIsExactly ==
  ASSUME NEW w, NEW h, NEW n, Width(w, h, n),
         NEW a \in 0 .. (n - 1), NEW b \in 0 .. (n - 1), NEW in \in {0, 1}, NEW r,
         NEW C \in BOOLEAN, NEW V \in BOOLEAN, NEW Z \in BOOLEAN, NEW S \in BOOLEAN,
         SumFlags(w, n, a, b, in, r, C, V, Z, S)
  PROVE  Exact(Left(w, a, b, in, r, C, V, Z, S), a + b + in, Signed(a, w) + Signed(b, w) + in)
<1> DEFINE x == Left(w, a, b, in, r, C, V, Z, S)
           signed == Signed(a, w) + Signed(b, w) + in
<1>1. x.w = w /\ x.r = r /\ x.C = C /\ x.V = V /\ x.Z = Z /\ x.S = S
  BY DEF Left
<1>2. /\ r = 0 <=> (a + b + in) % 2^w = 0
      /\ Bit(r, w - 1) <=> Signed(r, w) < 0
      /\ a + b + in > n - 1 <=> a + b + in \notin 0 .. (2^w - 1)
      /\ (Bit(a, w - 1) <=> Bit(b, w - 1)) /\ ~(Bit(a, w - 1) <=> Bit(r, w - 1)) <=> signed \notin SignedRange(w)
  BY ExactAdd DEF SumFlags
<1> HIDE DEF x, signed
<1>3. /\ Z = ((a + b + in) % 2^w = 0) /\ S = (Signed(r, w) < 0)
      /\ C = (a + b + in \notin 0 .. (2^w - 1)) /\ V = (signed \notin SignedRange(w))
  BY <1>2 DEF SumFlags
<1>4. Exact(x, a + b + in, signed)
  BY <1>1, <1>3 DEF Exact, SumFlags
<1>5. QED
  BY <1>4 DEF x, signed

\* The same of a subtraction.
DifferenceFlags(w, n, a, b, in, r, C, V, Z, S) ==
  /\ r = Wrap(a - b - in, w)
  /\ C <=> a - b - in < 0
  /\ V <=> ~(Bit(a, w - 1) <=> Bit(b, w - 1)) /\ ~(Bit(a, w - 1) <=> Bit(r, w - 1))
  /\ Z <=> r = 0
  /\ S <=> Bit(r, w - 1)

\* The same of a subtraction.
LEMMA DifferenceIsExactly ==
  ASSUME NEW w, NEW h, NEW n, Width(w, h, n),
         NEW a \in 0 .. (n - 1), NEW b \in 0 .. (n - 1), NEW in \in {0, 1}, NEW r,
         NEW C \in BOOLEAN, NEW V \in BOOLEAN, NEW Z \in BOOLEAN, NEW S \in BOOLEAN,
         DifferenceFlags(w, n, a, b, in, r, C, V, Z, S)
  PROVE  Exact(Left(w, a, b, in, r, C, V, Z, S), a - b - in, Signed(a, w) - Signed(b, w) - in)
<1> DEFINE x == Left(w, a, b, in, r, C, V, Z, S)
           signed == Signed(a, w) - Signed(b, w) - in
<1>1. x.w = w /\ x.r = r /\ x.C = C /\ x.V = V /\ x.Z = Z /\ x.S = S
  BY DEF Left
<1>2. /\ r = 0 <=> (a - b - in) % 2^w = 0
      /\ Bit(r, w - 1) <=> Signed(r, w) < 0
      /\ a - b - in < 0 <=> a - b - in \notin 0 .. (2^w - 1)
      /\ ~(Bit(a, w - 1) <=> Bit(b, w - 1)) /\ ~(Bit(a, w - 1) <=> Bit(r, w - 1)) <=> signed \notin SignedRange(w)
  BY ExactSub DEF DifferenceFlags
<1> HIDE DEF x, signed
<1>3. /\ Z = ((a - b - in) % 2^w = 0) /\ S = (Signed(r, w) < 0)
      /\ C = (a - b - in \notin 0 .. (2^w - 1)) /\ V = (signed \notin SignedRange(w))
  BY <1>2 DEF DifferenceFlags
<1>4. Exact(x, a - b - in, signed)
  BY <1>1, <1>3 DEF Exact, DifferenceFlags
<1>5. QED
  BY <1>4 DEF x, signed

\* So a step that leaves a sum keeps the property ...
LEMMA SumLeft ==
  ASSUME NEW w, NEW h, NEW n, Width(w, h, n),
         NEW a \in 0 .. (n - 1), NEW b \in 0 .. (n - 1), NEW in \in {0, 1}, NEW r,
         NEW C \in BOOLEAN, NEW V \in BOOLEAN, NEW Z \in BOOLEAN, NEW S \in BOOLEAN,
         SumFlags(w, n, a, b, in, r, C, V, Z, S),
         last' = <<"sum", Left(w, a, b, in, r, C, V, Z, S)>>
  PROVE  ResultsAreExact'
<1> DEFINE x == Left(w, a, b, in, r, C, V, Z, S)
<1>1. x.a = a /\ x.b = b /\ x.in = in /\ x.w = w
  BY DEF Left
<1>2. Exact(x, a + b + in, Signed(a, w) + Signed(b, w) + in)
  BY SumIsExactly
<1> HIDE DEF x
<1>3. Exact(x, x.a + x.b + x.in, Signed(x.a, x.w) + Signed(x.b, x.w) + x.in)
  BY <1>1, <1>2
<1>4. last' = <<"sum", x>>
  BY DEF x
<1>5. QED
  BY <1>3, <1>4
  DEF ResultsAreExact, SumIsExact, ComparisonOrders, WideIsTwoBytes, DaaIsDecimal,
      RotationsInvert, LogicAddsUp, Did

\* ... and one that leaves a difference.
LEMMA DifferenceLeft ==
  ASSUME NEW w, NEW h, NEW n, Width(w, h, n),
         NEW a \in 0 .. (n - 1), NEW b \in 0 .. (n - 1), NEW in \in {0, 1}, NEW r,
         NEW C \in BOOLEAN, NEW V \in BOOLEAN, NEW Z \in BOOLEAN, NEW S \in BOOLEAN,
         DifferenceFlags(w, n, a, b, in, r, C, V, Z, S),
         last' = <<"difference", Left(w, a, b, in, r, C, V, Z, S)>>
  PROVE  ResultsAreExact'
<1> DEFINE x == Left(w, a, b, in, r, C, V, Z, S)
<1>1. x.a = a /\ x.b = b /\ x.in = in /\ x.w = w
  BY DEF Left
<1>2. Exact(x, a - b - in, Signed(a, w) - Signed(b, w) - in)
  BY DifferenceIsExactly
<1> HIDE DEF x
<1>3. Exact(x, x.a - x.b - x.in, Signed(x.a, x.w) - Signed(x.b, x.w) - x.in)
  BY <1>1, <1>2
<1>4. last' = <<"difference", x>>
  BY DEF x
<1>5. QED
  BY <1>3, <1>4
  DEF ResultsAreExact, SumIsExact, ComparisonOrders, WideIsTwoBytes, DaaIsDecimal,
      RotationsInvert, LogicAddsUp, Did

\* The carry that goes into an operation is one bit.
LEMMA Carries == \A F : In(F) \in {0, 1}
BY DEF In, Carry
-----------------------------------------------------------------------------
(***************************************************************************)
(* Additions and subtractions.                                             *)
(***************************************************************************)
LEMMA Widths == Width(8, 128, 256) /\ Width(16, 32768, 65536)
BY DEF Width

\* A byte that is off by one turn at most.
LEMMA ByteWraps ==
  \A v \in Int : -256 <= v /\ v < 2 * 256 =>
    Wrap(v, 8) = IF v < 0 THEN v + 256 ELSE IF v < 256 THEN v ELSE v - 256
<1> SUFFICES ASSUME NEW v \in Int, -256 <= v, v < 2 * 256
             PROVE  Wrap(v, 8) = IF v < 0 THEN v + 256 ELSE IF v < 256 THEN v ELSE v - 256
  OBVIOUS
<1>1. v % 256 = IF v < 0 THEN v + 256 ELSE IF v < 256 THEN v ELSE v - 256
  OBVIOUS
<1>2. 2^8 = 256
  OBVIOUS
<1>3. QED
  BY <1>1, <1>2 DEF Wrap

\* The flags that AluAdd and AluSub leave.
LEMMA Z80AddFlags ==
  ASSUME NEW a \in Byte, NEW b \in Byte, NEW cy \in {0, 1}
  PROVE  LET o == Z80!AluAdd(a, b, cy)
             r == Wrap(a + b + cy, 8)
         IN /\ o.r = r
            /\ "C" \in o.f <=> a + b + cy > 255
            /\ "PV" \in o.f <=> ~(Bit(a, 7) <=> Bit(r, 7)) /\ ~(Bit(b, 7) <=> Bit(r, 7))
            /\ "Z" \in o.f <=> r = 0
            /\ "S" \in o.f <=> Bit(r, 7)
            /\ "H" \in o.f <=> (a % 16) + (b % 16) + cy > 15
            /\ "N" \notin o.f
BY DEF Z80!AluAdd, Z80!Out, Z80!Wrap, Wrap, Z80!Bit, Bit, Z80!Shape, Z80!YX, Z80!Given, Z80!Digit

\* The same after AluSub.
LEMMA Z80SubFlags ==
  ASSUME NEW a \in Byte, NEW b \in Byte, NEW cy \in {0, 1}
  PROVE  LET o == Z80!AluSub(a, b, cy)
             r == Wrap(a - b - cy, 8)
         IN /\ o.r = r
            /\ "C" \in o.f <=> a - b - cy < 0
            /\ "PV" \in o.f <=> ~(Bit(a, 7) <=> Bit(b, 7)) /\ ~(Bit(a, 7) <=> Bit(r, 7))
            /\ "Z" \in o.f <=> r = 0
            /\ "S" \in o.f <=> Bit(r, 7)
            /\ "H" \in o.f <=> (a % 16) - (b % 16) - cy < 0
            /\ "N" \in o.f
BY DEF Z80!AluSub, Z80!Out, Z80!Wrap, Wrap, Z80!Bit, Bit, Z80!Shape, Z80!YX, Z80!Given, Z80!Digit

\* The two ways to tell a signed overflow of an addition are one.
LEMMA TwoOverflowTests ==
  ASSUME NEW A \in BOOLEAN, NEW B \in BOOLEAN, NEW R \in BOOLEAN
  PROVE  ~(A <=> R) /\ ~(B <=> R) <=> (A <=> B) /\ ~(A <=> R)
OBVIOUS

\* Bytes, in the terms of the widths.
LEMMA TopBit == 8 - 1 = 7 /\ 256 - 1 = 255 /\ \A v : Bit(v, 7) \in BOOLEAN
BY DEF Bit

\* ADC of the Z80 leaves the exact sum and its flags (ADD is the case without a carry).
LEMMA Z80AddExact ==
  ASSUME NEW a \in Byte, NEW b \in Byte, NEW F, Z80Add(a, b, F)
  PROVE  ResultsAreExact'
<1> DEFINE in == In(F)
           o == Z80!AluAdd(a, b, in)
           r == o.r
           C == "C" \in o.f
           V == "PV" \in o.f
           Z == "Z" \in o.f
           S == "S" \in o.f
<1>1. /\ in \in {0, 1} /\ a \in 0 .. (256 - 1) /\ b \in 0 .. (256 - 1)
      /\ C \in BOOLEAN /\ V \in BOOLEAN /\ Z \in BOOLEAN /\ S \in BOOLEAN
  BY Carries DEF Byte
<1>2. last' = <<"sum", Left(8, a, b, in, r, C, V, Z, S)>>
  BY DEF Z80Add, Z80!Alu, OfZ80
<1>3. SumFlags(8, 256, a, b, in, r, C, V, Z, S)
  BY <1>1, TopBit, Z80AddFlags DEF SumFlags
<1> HIDE DEF in, o, r, C, V, Z, S
<1>4. QED
  BY <1>1, <1>2, <1>3, Widths, SumLeft

\* SBC of the Z80 leaves the exact difference and its flags.
LEMMA Z80SubExact ==
  ASSUME NEW a \in Byte, NEW b \in Byte, NEW F, Z80Sub(a, b, F)
  PROVE  ResultsAreExact'
<1> DEFINE in == In(F)
           o == Z80!AluSub(a, b, in)
           r == o.r
           C == "C" \in o.f
           V == "PV" \in o.f
           Z == "Z" \in o.f
           S == "S" \in o.f
<1>1. /\ in \in {0, 1} /\ a \in 0 .. (256 - 1) /\ b \in 0 .. (256 - 1)
      /\ C \in BOOLEAN /\ V \in BOOLEAN /\ Z \in BOOLEAN /\ S \in BOOLEAN
  BY Carries DEF Byte
<1>2. last' = <<"difference", Left(8, a, b, in, r, C, V, Z, S)>>
  BY DEF Z80Sub, Z80!Alu, OfZ80
<1>3. DifferenceFlags(8, 256, a, b, in, r, C, V, Z, S)
  BY <1>1, TopBit, Z80SubFlags DEF DifferenceFlags
<1> HIDE DEF in, o, r, C, V, Z, S
<1>4. QED
  BY <1>1, <1>2, <1>3, Widths, DifferenceLeft

\* The em8's flags, with C as "no borrow" after a subtraction.
LEMMA Em8AddFlags ==
  ASSUME NEW a \in Byte, NEW b \in Byte, NEW F
  PROVE  LET o == Em8!DoAdd(a, b, F)
             r == Wrap(a + b + In(F), 8)
         IN /\ o.r = r
            /\ "C" \in o.f <=> a + b + In(F) > 255
            /\ "V" \in o.f <=> (Bit(a, 7) <=> Bit(b, 7)) /\ ~(Bit(a, 7) <=> Bit(r, 7))
            /\ "Z" \in o.f <=> r = 0
            /\ "N" \in o.f <=> Bit(r, 7)
BY DEF Em8!DoAdd, Em8!Out, Em8!Wrap, Wrap, Em8!Bit, Bit, Em8!SetNZ, Em8!Given, In, Carry, Em8!Carry

\* DoSub adds the complement; it is a subtraction with the borrow 1 - C.
LEMMA Em8SubFlags ==
  ASSUME NEW a \in Byte, NEW b \in Byte, NEW F
  PROVE  LET o == Em8!DoSub(a, b, F)
             r == Wrap(a - b - (1 - In(F)), 8)
         IN /\ o.r = r
            /\ "C" \notin o.f <=> a - b - (1 - In(F)) < 0
            /\ "V" \in o.f <=> ~(Bit(a, 7) <=> Bit(b, 7)) /\ ~(Bit(a, 7) <=> Bit(r, 7))
            /\ "Z" \in o.f <=> r = 0
            /\ "N" \in o.f <=> Bit(r, 7)
<1> DEFINE in == In(F)
           diff == a + (255 - b) + in
           r == Wrap(diff, 8)
<1>1. in \in {0, 1} /\ a \in Int /\ b \in Int /\ 0 <= a /\ a <= 255 /\ 0 <= b /\ b <= 255
  BY Carries DEF Byte
<1>2. LET o == Em8!DoSub(a, b, F)
      IN /\ o.r = r
         /\ "C" \in o.f <=> diff > 255
         /\ "V" \in o.f <=> ~(Bit(a, 7) <=> Bit(b, 7)) /\ ~(Bit(a, 7) <=> Bit(r, 7))
         /\ "Z" \in o.f <=> r = 0
         /\ "N" \in o.f <=> Bit(r, 7)
  BY DEF Em8!DoSub, Em8!Out, Em8!Wrap, Wrap, Em8!Bit, Bit, Em8!SetNZ, Em8!Given, In, Carry, Em8!Carry
<1>3. r = Wrap(a - b - (1 - in), 8)
  <2>1. \A v \in Int : -256 <= v /\ v < 2 * 256 =>
          Wrap(v, 8) = IF v < 0 THEN v + 256 ELSE IF v < 256 THEN v ELSE v - 256
    BY ByteWraps
  <2> DEFINE v == a - b - (1 - in)
  <2>2. v \in Int /\ -256 <= v /\ v < 256 /\ diff \in Int /\ diff = v + 256
    BY <1>1
  <2> HIDE DEF v, diff
  <2>3. Wrap(diff, 8) = Wrap(v, 8)
    BY <2>1, <2>2
  <2>4. QED
    BY <2>3 DEF v
<1>4. diff > 255 <=> ~(a - b - (1 - in) < 0)
  BY <1>1
<1> HIDE DEF r, diff
<1>5. QED
  BY <1>2, <1>3, <1>4

\* ADC of the em8 leaves the exact sum.
LEMMA Em8AddExact ==
  ASSUME NEW a \in Byte, NEW b \in Byte, NEW F, Em8Add(a, b, F)
  PROVE  ResultsAreExact'
<1> DEFINE in == In(F)
           o == Em8!DoAdd(a, b, F)
           r == o.r
           C == "C" \in o.f
           V == "V" \in o.f
           Z == "Z" \in o.f
           S == "N" \in o.f
<1>1. /\ in \in {0, 1} /\ a \in 0 .. (256 - 1) /\ b \in 0 .. (256 - 1)
      /\ C \in BOOLEAN /\ V \in BOOLEAN /\ Z \in BOOLEAN /\ S \in BOOLEAN
  BY Carries DEF Byte
<1>2. last' = <<"sum", Left(8, a, b, in, r, C, V, Z, S)>>
  BY DEF Em8Add, OfEm8
<1>3. SumFlags(8, 256, a, b, in, r, C, V, Z, S)
  BY <1>1, TopBit, Em8AddFlags DEF SumFlags
<1> HIDE DEF in, o, r, C, V, Z, S
<1>4. QED
  BY <1>1, <1>2, <1>3, Widths, SumLeft

\* SBC of the em8 leaves the exact difference, with C as its complement.
LEMMA Em8SubExact ==
  ASSUME NEW a \in Byte, NEW b \in Byte, NEW F, Em8Sub(a, b, F)
  PROVE  ResultsAreExact'
<1> DEFINE in == 1 - In(F)
           o == Em8!DoSub(a, b, F)
           r == o.r
           C == "C" \notin o.f
           V == "V" \in o.f
           Z == "Z" \in o.f
           S == "N" \in o.f
<1>1. /\ in \in {0, 1} /\ a \in 0 .. (256 - 1) /\ b \in 0 .. (256 - 1)
      /\ C \in BOOLEAN /\ V \in BOOLEAN /\ Z \in BOOLEAN /\ S \in BOOLEAN
  BY Carries DEF Byte
<1>2. last' = <<"difference", Left(8, a, b, in, r, C, V, Z, S)>>
  BY DEF Em8Sub, OfEm8
<1>3. DifferenceFlags(8, 256, a, b, in, r, C, V, Z, S)
  BY <1>1, TopBit, Em8SubFlags DEF DifferenceFlags
<1> HIDE DEF in, o, r, C, V, Z, S
<1>4. QED
  BY <1>1, <1>2, <1>3, Widths, DifferenceLeft

\* The Z8000's flags, of bytes and of words.
LEMMA Z8000AddFlags ==
  ASSUME NEW w, NEW h, NEW n, Width(w, h, n), NEW a \in 0 .. (n - 1), NEW b \in 0 .. (n - 1)
  PROVE  LET o == Z8K!DoAdd(a, b, 0, w)
         IN SumFlags(w, n, a, b, 0, o.r, "C" \in o.f, "PV" \in o.f, "Z" \in o.f, "S" \in o.f)
<1>1. 2^w = n /\ n \in Nat
  BY WidthFacts
<1>2. a + b + 0 >= 2^w <=> a + b + 0 > n - 1
  BY <1>1
<1>3. QED
  BY <1>1, <1>2
  DEF SumFlags, Z8K!DoAdd, Z8K!Out, Z8K!Wrap, Wrap, Z8K!Bit, Bit, Z8K!Shape, Z8K!Given

\* The same after DoSub.
LEMMA Z8000SubFlags ==
  ASSUME NEW w, NEW h, NEW n, Width(w, h, n), NEW a \in 0 .. (n - 1), NEW b \in 0 .. (n - 1)
  PROVE  LET o == Z8K!DoSub(a, b, 0, w)
         IN DifferenceFlags(w, n, a, b, 0, o.r, "C" \in o.f, "PV" \in o.f, "Z" \in o.f, "S" \in o.f)
BY DEF DifferenceFlags, Z8K!DoSub, Z8K!Out, Z8K!Wrap, Wrap, Z8K!Bit, Bit, Z8K!Shape, Z8K!Given
\* ADD and ADDB of the Z8000 leave the exact sum.
LEMMA Z8000AddExact ==
  ASSUME NEW w, NEW h, NEW n, Width(w, h, n), NEW a \in 0 .. (n - 1), NEW b \in 0 .. (n - 1),
         Z8000Add(w, a, b)
  PROVE  ResultsAreExact'
<1> DEFINE o == Z8K!DoAdd(a, b, 0, w)
           r == o.r
           C == "C" \in o.f
           V == "PV" \in o.f
           Z == "Z" \in o.f
           S == "S" \in o.f
<1>1. 0 \in {0, 1} /\ C \in BOOLEAN /\ V \in BOOLEAN /\ Z \in BOOLEAN /\ S \in BOOLEAN
  OBVIOUS
<1>2. last' = <<"sum", Left(w, a, b, 0, r, C, V, Z, S)>>
  BY DEF Z8000Add, OfZ8000
<1>3. SumFlags(w, n, a, b, 0, r, C, V, Z, S)
  BY Z8000AddFlags
<1> HIDE DEF o, r, C, V, Z, S
<1>4. QED
  BY <1>1, <1>2, <1>3, SumLeft

\* SUB and SUBB of the Z8000 leave the exact difference.
LEMMA Z8000SubExact ==
  ASSUME NEW w, NEW h, NEW n, Width(w, h, n), NEW a \in 0 .. (n - 1), NEW b \in 0 .. (n - 1),
         Z8000Sub(w, a, b)
  PROVE  ResultsAreExact'
<1> DEFINE o == Z8K!DoSub(a, b, 0, w)
           r == o.r
           C == "C" \in o.f
           V == "PV" \in o.f
           Z == "Z" \in o.f
           S == "S" \in o.f
<1>1. 0 \in {0, 1} /\ C \in BOOLEAN /\ V \in BOOLEAN /\ Z \in BOOLEAN /\ S \in BOOLEAN
  OBVIOUS
<1>2. last' = <<"difference", Left(w, a, b, 0, r, C, V, Z, S)>>
  BY DEF Z8000Sub, OfZ8000
<1>3. DifferenceFlags(w, n, a, b, 0, r, C, V, Z, S)
  BY Z8000SubFlags
<1> HIDE DEF o, r, C, V, Z, S
<1>4. QED
  BY <1>1, <1>2, <1>3, DifferenceLeft

\* A step of any other kind keeps the property when the conjunct that speaks of it holds.
LEMMA StepLeft ==
  ASSUME NEW o, NEW p, NEW F, last' = <<"step", o, p, F>>,
         o.r = p.r, o.f = (p.f \ {"C"}) \cup F
  PROVE  ResultsAreExact'
BY DEF ResultsAreExact, SumIsExact, ComparisonOrders, WideIsTwoBytes, DaaIsDecimal,
       RotationsInvert, LogicAddsUp, Did

\* INC and DEC of the Z80: the flags are those of an addition or subtraction of 1, the C is kept.
LEMMA Z80StepExact ==
  ASSUME NEW a \in Byte, NEW F \in Flagged, Z80Step(a, F)
  PROVE  ResultsAreExact'
<1>1. F = {} \/ F = {"C"}
  BY DEF Flagged
<1>2. \A v \in Int : -256 <= v /\ v < 2 * 256 =>
          Wrap(v, 8) = IF v < 0 THEN v + 256 ELSE IF v < 256 THEN v ELSE v - 256
  BY ByteWraps
<1>3. \A v \in 0 .. 255 : Bit(v, 7) <=> v >= 128
  BY Widths, WidthFacts, TopBit
<1>4. a \in Int /\ 0 <= a /\ a <= 255
  BY DEF Byte
<1>5. CASE last' = <<"step", Z80!Inc8(a, F), Z80!Alu("ADD", a, 1, 0), F>>
  <2> DEFINE r == Wrap(a + 1, 8)
  <2>1. r = IF a = 255 THEN 0 ELSE a + 1
    BY <1>2, <1>4
  <2>2. /\ a + 1 + 0 = a + 1
        /\ ~(Bit(a, 7) <=> Bit(r, 7)) /\ ~(Bit(1, 7) <=> Bit(r, 7)) <=> r = 128
        /\ (a % 16) + (1 % 16) + 0 > 15 <=> a % 16 = 15
    BY <1>3, <1>4, <2>1
  <2> HIDE DEF r
  <2> DEFINE o == Z80!Inc8(a, F)
             p == Z80!AluAdd(a, 1, 0)
  <2>3. /\ o.r = r /\ p.r = r
        /\ o.f = (F \cap {"C"}) \cup Z80!Shape(r) \cup Z80!Given("H", a % 16 = 15) \cup Z80!Given("PV", r = 128)
        /\ p.f = Z80!Shape(r) \cup Z80!Given("H", a % 16 = 15) \cup Z80!Given("C", a + 1 > 255)
                 \cup Z80!Given("PV", r = 128)
    BY <2>2 DEF r, Z80!Inc8, Z80!AluAdd, Z80!Out, Z80!Keep, Z80!Digit, Z80!Wrap, Wrap, Z80!Bit, Bit
  <2>4. last' = <<"step", o, p, F>>
    BY <1>5 DEF Z80!Alu
  <2> HIDE DEF o, p
  <2>5. o.f = (p.f \ {"C"}) \cup F
    BY <1>1, <2>3 DEF Z80!Given, Z80!Shape, Z80!YX
  <2>6. QED
    BY <2>3, <2>4, <2>5, StepLeft
<1>6. CASE last' = <<"step", Z80!Dec8(a, F), Z80!Alu("SUB", a, 1, 0), F>>
  <2> DEFINE r == Wrap(a - 1, 8)
  <2>1. r = IF a = 0 THEN 255 ELSE a - 1
    BY <1>2, <1>4
  <2>2. /\ a - 1 - 0 = a - 1
        /\ ~(Bit(a, 7) <=> Bit(1, 7)) /\ ~(Bit(a, 7) <=> Bit(r, 7)) <=> r = 127
        /\ (a % 16) - (1 % 16) - 0 < 0 <=> a % 16 = 0
    BY <1>3, <1>4, <2>1
  <2> HIDE DEF r
  <2> DEFINE o == Z80!Dec8(a, F)
             p == Z80!AluSub(a, 1, 0)
  <2>3. /\ o.r = r /\ p.r = r
        /\ o.f = (F \cap {"C"}) \cup {"N"} \cup Z80!Shape(r) \cup Z80!Given("H", a % 16 = 0)
                 \cup Z80!Given("PV", r = 127)
        /\ p.f = {"N"} \cup Z80!Shape(r) \cup Z80!Given("H", a % 16 = 0) \cup Z80!Given("C", a - 1 < 0)
                 \cup Z80!Given("PV", r = 127)
    BY <2>2 DEF r, Z80!Dec8, Z80!AluSub, Z80!Out, Z80!Keep, Z80!Digit, Z80!Wrap, Wrap, Z80!Bit, Bit
  <2>4. last' = <<"step", o, p, F>>
    BY <1>6 DEF Z80!Alu
  <2> HIDE DEF o, p
  <2>5. o.f = (p.f \ {"C"}) \cup F
    BY <1>1, <2>3 DEF Z80!Given, Z80!Shape, Z80!YX
  <2>6. QED
    BY <2>3, <2>4, <2>5, StepLeft
<1>7. QED
  BY <1>5, <1>6 DEF Z80Step
-----------------------------------------------------------------------------
(***************************************************************************)
(* Comparisons.                                                            *)
(***************************************************************************)
\* The flags of a difference order its operands.
LEMMA FlagsOrder ==
  ASSUME NEW w, NEW h, NEW n, Width(w, h, n),
         NEW a \in 0 .. (n - 1), NEW b \in 0 .. (n - 1), NEW r,
         NEW C \in BOOLEAN, NEW V \in BOOLEAN, NEW Z \in BOOLEAN, NEW S \in BOOLEAN,
         DifferenceFlags(w, n, a, b, 0, r, C, V, Z, S)
  PROVE  /\ C <=> a < b
         /\ Z <=> a = b
         /\ ~(V <=> S) <=> Signed(a, w) < Signed(b, w)
         /\ Signed(a, w) = Signed(b, w) <=> a = b
         /\ Signed(a, w) \in Int /\ Signed(b, w) \in Int /\ a \in Int /\ b \in Int
<1>1. h \in Nat /\ n = 2 * h /\ 0 < h
  BY WidthFacts
<1>2. a \in Int /\ 0 <= a /\ a < n /\ b \in Int /\ 0 <= b /\ b < n
  BY <1>1
<1>3. a - b - 0 = a - b /\ a - b \in Int /\ -n <= a - b /\ a - b < 2 * n
  BY <1>1, <1>2
<1>4. /\ r = IF a - b < 0 THEN a - b + n ELSE a - b
      /\ r \in 0 .. (n - 1)
  <2>1. Wrap(a - b, w) = IF a - b < 0 THEN a - b + n ELSE a - b
    BY <1>1, <1>2, <1>3, WidthFacts
  <2>2. r = Wrap(a - b, w)
    BY <1>3 DEF DifferenceFlags
  <2>3. QED
    BY <1>1, <1>2, <2>1, <2>2
<1>5. \A x \in 0 .. (n - 1) : /\ Bit(x, w - 1) <=> x >= h
                            /\ Signed(x, w) = IF x >= h THEN x - n ELSE x
  BY WidthFacts
<1>6. C <=> a < b
  BY <1>2, <1>3 DEF DifferenceFlags
<1>7. Z <=> a = b
  BY <1>1, <1>2, <1>4 DEF DifferenceFlags
<1>8. V <=> ~(a >= h <=> b >= h) /\ ~(a >= h <=> r >= h)
  BY <1>4, <1>5 DEF DifferenceFlags
<1>9. S <=> r >= h
  BY <1>4, <1>5 DEF DifferenceFlags
<1>10. /\ Signed(a, w) = IF a >= h THEN a - n ELSE a
       /\ Signed(b, w) = IF b >= h THEN b - n ELSE b
  BY <1>5
<1>11. ~(V <=> S) <=> Signed(a, w) < Signed(b, w)
  BY <1>1, <1>2, <1>4, <1>8, <1>9, <1>10
<1>12. Signed(a, w) = Signed(b, w) <=> a = b
  BY <1>1, <1>2, <1>10
<1>13. QED
  BY <1>1, <1>2, <1>6, <1>7, <1>10, <1>11, <1>12

\* CP orders its operands and leaves A alone.
LEMMA Z80CompareOrders ==
  ASSUME NEW a \in Byte, NEW b \in Byte, Z80Compare(a, b)
  PROVE  ResultsAreExact'
<1> DEFINE s == Z80!AluSub(a, b, 0)
           f == (s.f \ {"Y", "X"}) \cup Z80!YX(b)
           r == s.r
           C == "C" \in s.f
           V == "PV" \in s.f
           Z == "Z" \in s.f
           S == "S" \in s.f
<1>1. /\ 0 \in {0, 1} /\ a \in 0 .. (256 - 1) /\ b \in 0 .. (256 - 1)
      /\ C \in BOOLEAN /\ V \in BOOLEAN /\ Z \in BOOLEAN /\ S \in BOOLEAN
  BY DEF Byte
<1>2. last' = <<"cp", a, b, a, Z80!CheckCond(f)>>
  BY DEF Z80Compare, Z80!Alu, Z80!AluCp, Z80!Out
<1>3. DifferenceFlags(8, 256, a, b, 0, r, C, V, Z, S)
  <2>1. ASSUME NEW by \in {0, 1}
        PROVE  LET o == Z80!AluSub(a, b, by)
               IN DifferenceFlags(8, 256, a, b, by, o.r, "C" \in o.f, "PV" \in o.f,
                                  "Z" \in o.f, "S" \in o.f)
    BY TopBit, Z80SubFlags DEF DifferenceFlags
  <2>2. QED
    BY <1>1, <2>1
<1>4. "C" \in f <=> C
  BY DEF Z80!YX, Z80!Given
<1>5. "PV" \in f <=> V
  BY DEF Z80!YX, Z80!Given
<1>6. "Z" \in f <=> Z
  BY DEF Z80!YX, Z80!Given
<1>7. "S" \in f <=> S
  BY DEF Z80!YX, Z80!Given
<1> DEFINE cc == Z80!CheckCond(f)
<1>8. /\ cc.C = C /\ cc.NC = ~C /\ cc.Z = Z /\ cc.M = S /\ cc.PE = V
  BY <1>1, <1>4, <1>5, <1>6, <1>7 DEF Z80!CheckCond
<1> HIDE DEF s, r, f, C, V, Z, S
<1>9. /\ C <=> a < b
      /\ Z <=> a = b
      /\ ~(V <=> S) <=> Signed(a, 8) < Signed(b, 8)
      /\ a \in Int /\ b \in Int
  BY <1>1, <1>3, Widths, FlagsOrder
<1> HIDE DEF cc
<1>10. cc.C = (a < b) /\ cc.NC = (a >= b) /\ cc.Z = (a = b)
  BY <1>1, <1>8, <1>9
<1>11. (cc.M # cc.PE) = (Signed(a, 8) < Signed(b, 8))
  BY <1>1, <1>8, <1>9
<1>12. last' = <<"cp", a, b, a, cc>>
  BY <1>2 DEF cc
<1>13. QED
  BY <1>10, <1>11, <1>12
  DEF ResultsAreExact, SumIsExact, ComparisonOrders, WideIsTwoBytes, DaaIsDecimal,
      RotationsInvert, LogicAddsUp, Did

\* DoCmp: C is "not below", Z is equality.
LEMMA Em8CompareOrders ==
  ASSUME NEW a \in Byte, NEW b \in Byte, Em8Compare(a, b)
  PROVE  ResultsAreExact'
<1> DEFINE f == Em8!DoCmp(a, b, {})
<1>1. "C" \in f <=> a >= b
  BY DEF Em8!DoCmp, Em8!Given
<1>2. "Z" \in f <=> a = b
  BY DEF Em8!DoCmp, Em8!Given
<1>3. last' = <<"cmp", a, b, f>>
  BY DEF Em8Compare
<1> HIDE DEF f
<1>4. ("C" \in f) = (a >= b) /\ ("Z" \in f) = (a = b)
  BY <1>1, <1>2
<1>5. QED
  BY <1>3, <1>4
  DEF ResultsAreExact, SumIsExact, ComparisonOrders, WideIsTwoBytes, DaaIsDecimal,
      RotationsInvert, LogicAddsUp, Did

\* The ten condition codes of Z8000Cpu_TestCondition that compare.
LEMMA Z8000CompareOrders ==
  ASSUME NEW w, NEW h, NEW n, Width(w, h, n), NEW a \in 0 .. (n - 1), NEW b \in 0 .. (n - 1),
         Z8000Compare(w, a, b)
  PROVE  ResultsAreExact'
<1> DEFINE o == Z8K!DoSub(a, b, 0, w)
           r == o.r
           C == "C" \in o.f
           V == "PV" \in o.f
           Z == "Z" \in o.f
           S == "S" \in o.f
           cc == Z8K!TestCondition(o.f)
           sa == Signed(a, w)
           sb == Signed(b, w)
<1>1. C \in BOOLEAN /\ V \in BOOLEAN /\ Z \in BOOLEAN /\ S \in BOOLEAN
  OBVIOUS
<1>2. last' = <<"order", sa, sb, a, b, cc>>
  BY DEF Z8000Compare
<1>3. DifferenceFlags(w, n, a, b, 0, r, C, V, Z, S)
  BY Z8000SubFlags
<1>4. /\ cc.LT = (V # S) /\ cc.LE = (Z \/ V # S) /\ cc.GE = (V = S) /\ cc.GT = (~Z /\ V = S)
      /\ cc.ULT = C /\ cc.ULE = (C \/ Z) /\ cc.UGE = ~C /\ cc.UGT = (~C /\ ~Z)
      /\ cc.EQ = Z /\ cc.NE = ~Z
  BY DEF Z8K!TestCondition
<1> HIDE DEF o, r, C, V, Z, S, cc
<1>5. /\ C <=> a < b
      /\ Z <=> a = b
      /\ ~(V <=> S) <=> sa < sb
      /\ sa = sb <=> a = b
      /\ sa \in Int /\ sb \in Int /\ a \in Int /\ b \in Int
  BY <1>1, <1>3, FlagsOrder
<1> HIDE DEF sa, sb
<1>6. cc.LT = (sa < sb) /\ cc.LE = (sa <= sb) /\ cc.GT = (sa > sb) /\ cc.GE = (sa >= sb)
  BY <1>1, <1>4, <1>5
<1>7. cc.ULT = (a < b) /\ cc.ULE = (a <= b) /\ cc.UGT = (a > b) /\ cc.UGE = (a >= b)
  BY <1>1, <1>4, <1>5
<1>8. cc.EQ = (a = b) /\ cc.NE = (a # b)
  BY <1>1, <1>4, <1>5
<1>9. QED
  BY <1>2, <1>6, <1>7, <1>8
  DEF ResultsAreExact, SumIsExact, ComparisonOrders, WideIsTwoBytes, DaaIsDecimal,
      RotationsInvert, LogicAddsUp, Did
-----------------------------------------------------------------------------
(***************************************************************************)
(* Words in two bytes.                                                     *)
(***************************************************************************)
\* A word and its bytes; the half carry of the word is that of the high byte.
LEMMA Halves ==
  ASSUME NEW v \in Wide
  PROVE  /\ v \div 256 \in Byte /\ v % 256 \in Byte
         /\ v = 256 * (v \div 256) + (v % 256)
         /\ v % 4096 = 256 * ((v \div 256) % 16) + (v % 256)
<1>1. v \in Int /\ 0 <= v /\ v <= 65535
  BY DEF Wide
<1>2. 0 <= v \div 256 /\ v \div 256 <= 255 /\ 0 <= v % 256 /\ v % 256 <= 255
  BY <1>1
<1>3. v = 256 * (v \div 256) + (v % 256)
  BY <1>1
<1>4. v % 4096 = 256 * ((v \div 256) % 16) + (v % 256)
  BY <1>1
<1>5. QED
  BY <1>1, <1>2, <1>3, <1>4 DEF Byte

\* The top bits and the turns of both widths, in numbers.
LEMMA TopBits ==
  ASSUME NEW v \in Int, 0 <= v
  PROVE  /\ v < 256 => (Bit(v, 7) <=> v >= 128)
         /\ v < 65536 => (Bit(v, 15) <=> v >= 32768)
<1>1. v < 256 => ((v \div 128) % 2 = 1 <=> v >= 128)
  OBVIOUS
<1>2. v < 65536 => ((v \div 32768) % 2 = 1 <=> v >= 32768)
  OBVIOUS
<1>3. 2^7 = 128 /\ 2^15 = 32768
  OBVIOUS
<1>4. QED
  BY <1>1, <1>2, <1>3 DEF Bit

\* A word that is off by one turn at most.
LEMMA Turns ==
  ASSUME NEW v \in Int
  PROVE  /\ -256 <= v /\ v < 512 =>
              Wrap(v, 8) = IF v < 0 THEN v + 256 ELSE IF v < 256 THEN v ELSE v - 256
         /\ -65536 <= v /\ v < 131072 =>
              Wrap(v, 16) = IF v < 0 THEN v + 65536 ELSE IF v < 65536 THEN v ELSE v - 65536
<1>1. -256 <= v /\ v < 512 => v % 256 = IF v < 0 THEN v + 256 ELSE IF v < 256 THEN v ELSE v - 256
  OBVIOUS
<1>2. -65536 <= v /\ v < 131072 =>
        v % 65536 = IF v < 0 THEN v + 65536 ELSE IF v < 65536 THEN v ELSE v - 65536
  OBVIOUS
<1>3. 2^8 = 256 /\ 2^16 = 65536
  OBVIOUS
<1>4. QED
  BY <1>1, <1>2, <1>3 DEF Wrap

\* What two bytes make is split into them again.
LEMMA Joined ==
  ASSUME NEW x \in Byte, NEW y \in Byte
  PROVE  /\ 256 * x + y \in Wide /\ (256 * x + y) \div 256 = x
         /\ Bit(256 * x + y, 15) <=> Bit(x, 7)
         /\ 256 * x + y = 0 <=> x = 0 /\ y = 0
<1>1. x \in Int /\ 0 <= x /\ x <= 255 /\ y \in Int /\ 0 <= y /\ y <= 255
  BY DEF Byte
<1>2. 256 * x + y \in Int /\ 0 <= 256 * x + y /\ 256 * x + y <= 65535
  BY <1>1
<1>3. (256 * x + y) \div 256 = x
  BY <1>1
<1> DEFINE v == 256 * x + y
<1>4. v \in Int /\ 0 <= v /\ v <= 65535 /\ v < 65536 /\ v = 256 * x + y
  BY <1>1, <1>2
<1> HIDE DEF v
<1>5. Bit(v, 15) <=> v >= 32768
  BY <1>4, TopBits
<1>6. Bit(x, 7) <=> x >= 128
  BY <1>1, TopBits
<1>7. v >= 32768 <=> x >= 128
  BY <1>1, <1>4
<1>8. v \in Wide
  BY <1>4 DEF Wide
<1>9. v = 0 <=> x = 0 /\ y = 0
  BY <1>1, <1>4
<1>10. QED
  BY <1>3, <1>5, <1>6, <1>7, <1>8, <1>9 DEF v

\* A carry or borrow goes from the low byte to the high one.
LEMMA CarryOver ==
  ASSUME NEW hl \in Wide, NEW d \in Wide, NEW cy \in {0, 1}
  PROVE  LET low == (hl % 256) + (d % 256) + cy
             high == (hl \div 256) + (d \div 256) + Carry(low > 255)
         IN /\ Wrap(hl + d + cy, 16) = 256 * Wrap(high, 8) + Wrap(low, 8)
            /\ Wrap(high, 8) \in Byte /\ Wrap(low, 8) \in Byte
            /\ hl + d + cy > 65535 <=> high > 255
            /\ (hl % 4096) + (d % 4096) + cy > 4095
                 <=> ((hl \div 256) % 16) + ((d \div 256) % 16) + Carry(low > 255) > 15
<1> DEFINE h1 == hl \div 256
           h0 == hl % 256
           d1 == d \div 256
           d0 == d % 256
           hd == h1 % 16
           dd == d1 % 16
           low == h0 + d0 + cy
           c == Carry(low > 255)
           high == h1 + d1 + c
<1>1. /\ h1 \in Byte /\ h0 \in Byte /\ d1 \in Byte /\ d0 \in Byte
      /\ hl = 256 * h1 + h0 /\ d = 256 * d1 + d0
      /\ hl % 4096 = 256 * hd + h0 /\ d % 4096 = 256 * dd + d0
  BY Halves
<1>2. hd \in Int /\ dd \in Int
  <2>1. \A x \in Byte : x % 16 \in Int
    BY DEF Byte
  <2>2. QED
    BY <1>1, <2>1
<1> HIDE DEF h1, h0, d1, d0, hd, dd
<1>3. /\ h1 \in Int /\ 0 <= h1 /\ h1 <= 255 /\ h0 \in Int /\ 0 <= h0 /\ h0 <= 255
      /\ d1 \in Int /\ 0 <= d1 /\ d1 <= 255 /\ d0 \in Int /\ 0 <= d0 /\ d0 <= 255
      /\ cy \in Int /\ 0 <= cy /\ cy <= 1
  BY <1>1 DEF Byte
<1>4. c = IF low > 255 THEN 1 ELSE 0
  BY DEF Carry
<1> HIDE DEF c
<1>5. low \in Int /\ 0 <= low /\ low < 512 /\ high \in Int /\ 0 <= high /\ high < 512
  BY <1>3, <1>4
<1>6. hl + d + cy = 256 * (h1 + d1) + low
  BY <1>1, <1>3
<1>7. /\ Wrap(low, 8) = IF low < 256 THEN low ELSE low - 256
      /\ Wrap(high, 8) = IF high < 256 THEN high ELSE high - 256
  BY <1>5, Turns
<1> HIDE DEF low, high
<1>8. high = h1 + d1 + c /\ low = h0 + d0 + cy
  BY DEF high, low
<1>9. ASSUME NEW v, v = hl + d + cy
      PROVE  Wrap(v, 16) = 256 * Wrap(high, 8) + Wrap(low, 8)
  <2>1. v \in Int /\ 0 <= v /\ v < 131072 /\ v = 256 * (h1 + d1) + low
    BY <1>3, <1>5, <1>6, <1>9
  <2>2. Wrap(v, 16) = IF v < 65536 THEN v ELSE v - 65536
    BY <2>1, Turns
  <2>3. QED
    BY <1>3, <1>4, <1>5, <1>7, <1>8, <2>1, <2>2
<1>10. Wrap(high, 8) \in Byte /\ Wrap(low, 8) \in Byte
  BY <1>5, <1>7 DEF Byte
<1>11. hl + d + cy > 65535 <=> high > 255
  BY <1>3, <1>4, <1>6, <1>8
<1>12. (hl % 4096) + (d % 4096) + cy > 4095 <=> hd + dd + c > 15
  BY <1>1, <1>2, <1>3, <1>4, <1>8
<1>13. QED
  BY <1>9, <1>10, <1>11, <1>12 DEF h1, h0, d1, d0, hd, dd, c, low, high

\* And so does a borrow.
LEMMA BorrowOver ==
  ASSUME NEW hl \in Wide, NEW d \in Wide, NEW cy \in {0, 1}
  PROVE  LET low == (hl % 256) - (d % 256) - cy
             high == (hl \div 256) - (d \div 256) - Carry(low < 0)
         IN /\ Wrap(hl - d - cy, 16) = 256 * Wrap(high, 8) + Wrap(low, 8)
            /\ Wrap(high, 8) \in Byte /\ Wrap(low, 8) \in Byte
            /\ hl - d - cy < 0 <=> high < 0
            /\ (hl % 4096) - (d % 4096) - cy < 0
                 <=> ((hl \div 256) % 16) - ((d \div 256) % 16) - Carry(low < 0) < 0
<1> DEFINE h1 == hl \div 256
           h0 == hl % 256
           d1 == d \div 256
           d0 == d % 256
           hd == h1 % 16
           dd == d1 % 16
           low == h0 - d0 - cy
           c == Carry(low < 0)
           high == h1 - d1 - c
<1>1. /\ h1 \in Byte /\ h0 \in Byte /\ d1 \in Byte /\ d0 \in Byte
      /\ hl = 256 * h1 + h0 /\ d = 256 * d1 + d0
      /\ hl % 4096 = 256 * hd + h0 /\ d % 4096 = 256 * dd + d0
  BY Halves
<1>2. hd \in Int /\ dd \in Int
  <2>1. \A x \in Byte : x % 16 \in Int
    BY DEF Byte
  <2>2. QED
    BY <1>1, <2>1
<1> HIDE DEF h1, h0, d1, d0, hd, dd
<1>3. /\ h1 \in Int /\ 0 <= h1 /\ h1 <= 255 /\ h0 \in Int /\ 0 <= h0 /\ h0 <= 255
      /\ d1 \in Int /\ 0 <= d1 /\ d1 <= 255 /\ d0 \in Int /\ 0 <= d0 /\ d0 <= 255
      /\ cy \in Int /\ 0 <= cy /\ cy <= 1
  BY <1>1 DEF Byte
<1>4. c = IF low < 0 THEN 1 ELSE 0
  BY DEF Carry
<1> HIDE DEF c
<1>5. low \in Int /\ -256 <= low /\ low < 256 /\ high \in Int /\ -256 <= high /\ high < 256
  BY <1>3, <1>4
<1>6. hl - d - cy = 256 * (h1 - d1) + low
  BY <1>1, <1>3
<1>7. /\ Wrap(low, 8) = IF low < 0 THEN low + 256 ELSE low
      /\ Wrap(high, 8) = IF high < 0 THEN high + 256 ELSE high
  BY <1>5, Turns
<1> HIDE DEF low, high
<1>8. high = h1 - d1 - c /\ low = h0 - d0 - cy
  BY DEF high, low
<1>9. ASSUME NEW v, v = hl - d - cy
      PROVE  Wrap(v, 16) = 256 * Wrap(high, 8) + Wrap(low, 8)
  <2>1. v \in Int /\ -65536 <= v /\ v < 65536 /\ v = 256 * (h1 - d1) + low
    BY <1>3, <1>5, <1>6, <1>9
  <2>2. Wrap(v, 16) = IF v < 0 THEN v + 65536 ELSE v
    BY <2>1, Turns
  <2>3. QED
    BY <1>3, <1>4, <1>5, <1>7, <1>8, <2>1, <2>2
<1>10. Wrap(high, 8) \in Byte /\ Wrap(low, 8) \in Byte
  BY <1>5, <1>7 DEF Byte
<1>11. hl - d - cy < 0 <=> high < 0
  BY <1>3, <1>4, <1>6, <1>8
<1>12. (hl % 4096) - (d % 4096) - cy < 0 <=> hd - dd - c < 0
  BY <1>1, <1>2, <1>3, <1>4, <1>8
<1>13. QED
  BY <1>9, <1>10, <1>11, <1>12 DEF h1, h0, d1, d0, hd, dd, c, low, high

\* The word operation o agrees with the byte operations low and high.
InTwoBytes(o, low, high) ==
  /\ o.r = 256 * high.r + low.r /\ o.f \ {"Z"} = high.f \ {"Z"}
  /\ "Z" \in o.f <=> "Z" \in low.f /\ "Z" \in high.f

\* The step keeps the property then.
LEMMA WideLeft ==
  ASSUME NEW o, NEW low, NEW high, last' = <<"wide", o, low, high>>,
         InTwoBytes(o, low, high)
  PROVE  ResultsAreExact'
<1>1. /\ o.r = 256 * high.r + low.r /\ o.f \ {"Z"} = high.f \ {"Z"}
      /\ ("Z" \in o.f) = ("Z" \in low.f \cap high.f)
  BY DEF InTwoBytes
<1>2. QED
  BY <1>1
  DEF ResultsAreExact, SumIsExact, ComparisonOrders, WideIsTwoBytes, DaaIsDecimal,
      RotationsInvert, LogicAddsUp, Did

\* ADC HL,rr against two operations on bytes.
LEMMA WideSum ==
  ASSUME NEW hl \in Wide, NEW d \in Wide, NEW F, NEW o, NEW low, NEW high,
         o = Z80!AdcHl16(hl, d, F), low = Z80!AluAdd(hl % 256, d % 256, In(F)),
         high = Z80!AluAdd(hl \div 256, d \div 256, In(low.f))
  PROVE  InTwoBytes(o, low, high)
<1> DEFINE cy == In(F)
           h1 == hl \div 256
           h0 == hl % 256
           d1 == d \div 256
           d0 == d % 256
           lo == h0 + d0 + cy
           c == Carry(lo > 255)
           hi == h1 + d1 + c
           x == Wrap(hi, 8)
           y == Wrap(lo, 8)
           r == Wrap(hl + d + cy, 16)
<1>1. cy \in {0, 1} /\ c \in {0, 1}
  BY Carries DEF Carry
<1>2. /\ r = 256 * x + y /\ x \in Byte /\ y \in Byte
      /\ hl + d + cy > 65535 <=> hi > 255
      /\ (hl % 4096) + (d % 4096) + cy > 4095 <=> (h1 % 16) + (d1 % 16) + c > 15
  BY <1>1, CarryOver
<1>3. /\ h1 \in Byte /\ h0 \in Byte /\ d1 \in Byte /\ d0 \in Byte
      /\ hl = 256 * h1 + h0 /\ d = 256 * d1 + d0
  BY Halves
<1>4. /\ Bit(hl, 15) <=> Bit(h1, 7)
      /\ Bit(d, 15) <=> Bit(d1, 7)
      /\ Bit(r, 15) <=> Bit(x, 7)
      /\ r = 0 <=> x = 0 /\ y = 0
      /\ r \div 256 = x
  BY <1>2, <1>3, Joined
<1>5. low.r = y /\ ("C" \in low.f <=> lo > 255) /\ ("Z" \in low.f <=> y = 0)
  BY <1>1, <1>3, Z80AddFlags
<1>6. In(low.f) = c /\ high = Z80!AluAdd(h1, d1, c)
  BY <1>5 DEF In
<1>7. /\ high.r = x
      /\ high.f = Z80!Shape(x) \cup Z80!Given("H", (h1 % 16) + (d1 % 16) + c > 15)
                  \cup Z80!Given("C", hi > 255)
                  \cup Z80!Given("PV", Bit(h1, 7) # Bit(x, 7) /\ Bit(d1, 7) # Bit(x, 7))
  <2> DEFINE p == Z80!AluAdd(h1, d1, c)
  <2>1. /\ p.r = x
        /\ p.f = Z80!Shape(x) \cup Z80!Given("H", (h1 % 16) + (d1 % 16) + c > 15)
                    \cup Z80!Given("C", hi > 255)
                    \cup Z80!Given("PV", Bit(h1, 7) # Bit(x, 7) /\ Bit(d1, 7) # Bit(x, 7))
    BY DEF Z80!AluAdd, Z80!Out, Z80!Digit, Z80!Wrap, Wrap, Z80!Bit, Bit
  <2>2. high = p
    BY <1>6
  <2> HIDE DEF p
  <2>3. QED
    BY <2>1, <2>2
<1>8. /\ o.r = r
      /\ o.f = Z80!Given("S", Bit(r, 15)) \cup Z80!Given("Z", r = 0) \cup Z80!YX(r \div 256)
                 \cup Z80!Given("H", (hl % 4096) + (d % 4096) + cy > 4095)
                 \cup Z80!Given("C", hl + d + cy > 65535)
                 \cup Z80!Given("PV", Bit(hl, 15) # Bit(r, 15) /\ Bit(d, 15) # Bit(r, 15))
  BY DEF Z80!AdcHl16, Z80!Out, Z80!Low12, Z80!Wrap, Wrap, Z80!Bit, Bit, In, Z80!Carry, Carry
<1> HIDE DEF r, x, y, h1, h0, d1, d0, lo, hi, c, cy
<1>9. o.f = Z80!Given("S", Bit(x, 7)) \cup Z80!Given("Z", x = 0 /\ y = 0) \cup Z80!YX(x)
                 \cup Z80!Given("H", (h1 % 16) + (d1 % 16) + c > 15)
                 \cup Z80!Given("C", hi > 255)
                 \cup Z80!Given("PV", Bit(h1, 7) # Bit(x, 7) /\ Bit(d1, 7) # Bit(x, 7))
  <2>1. Z80!Given("S", Bit(r, 15)) = Z80!Given("S", Bit(x, 7))
    BY <1>4 DEF Z80!Given
  <2>2. Z80!Given("Z", r = 0) = Z80!Given("Z", x = 0 /\ y = 0)
    BY <1>4 DEF Z80!Given
  <2>3. Z80!YX(r \div 256) = Z80!YX(x)
    BY <1>4
  <2>4. Z80!Given("H", (hl % 4096) + (d % 4096) + cy > 4095)
          = Z80!Given("H", (h1 % 16) + (d1 % 16) + c > 15)
    BY <1>2 DEF Z80!Given
  <2>5. Z80!Given("C", hl + d + cy > 65535) = Z80!Given("C", hi > 255)
    BY <1>2 DEF Z80!Given
  <2>6. Z80!Given("PV", Bit(hl, 15) # Bit(r, 15) /\ Bit(d, 15) # Bit(r, 15))
          = Z80!Given("PV", Bit(h1, 7) # Bit(x, 7) /\ Bit(d1, 7) # Bit(x, 7))
    <3>1. \A v, k : Bit(v, k) \in BOOLEAN
      BY DEF Bit
    <3>2. Bit(hl, 15) = Bit(h1, 7) /\ Bit(d, 15) = Bit(d1, 7) /\ Bit(r, 15) = Bit(x, 7)
      BY <1>4, <3>1
    <3>3. QED
      BY <3>2
  <2>7. QED
    BY <1>8, <2>1, <2>2, <2>3, <2>4, <2>5, <2>6
<1>10. o.f \ {"Z"} = high.f \ {"Z"}
  BY <1>7, <1>9 DEF Z80!Shape, Z80!Bit, Bit, Z80!YX, Z80!Given
<1>11. "Z" \in o.f <=> "Z" \in low.f /\ "Z" \in high.f
  BY <1>5, <1>7, <1>9 DEF Z80!Shape, Z80!YX, Z80!Given
<1>12. QED
  BY <1>2, <1>5, <1>7, <1>8, <1>10, <1>11 DEF InTwoBytes

\* SBC HL,rr likewise.
LEMMA WideDifference ==
  ASSUME NEW hl \in Wide, NEW d \in Wide, NEW F, NEW o, NEW low, NEW high,
         o = Z80!SbcHl16(hl, d, F), low = Z80!AluSub(hl % 256, d % 256, In(F)),
         high = Z80!AluSub(hl \div 256, d \div 256, In(low.f))
  PROVE  InTwoBytes(o, low, high)
<1> DEFINE cy == In(F)
           h1 == hl \div 256
           h0 == hl % 256
           d1 == d \div 256
           d0 == d % 256
           lo == h0 - d0 - cy
           c == Carry(lo < 0)
           hi == h1 - d1 - c
           x == Wrap(hi, 8)
           y == Wrap(lo, 8)
           r == Wrap(hl - d - cy, 16)
<1>1. cy \in {0, 1} /\ c \in {0, 1}
  BY Carries DEF Carry
<1>2. /\ r = 256 * x + y /\ x \in Byte /\ y \in Byte
      /\ hl - d - cy < 0 <=> hi < 0
      /\ (hl % 4096) - (d % 4096) - cy < 0 <=> (h1 % 16) - (d1 % 16) - c < 0
  BY <1>1, BorrowOver
<1>3. /\ h1 \in Byte /\ h0 \in Byte /\ d1 \in Byte /\ d0 \in Byte
      /\ hl = 256 * h1 + h0 /\ d = 256 * d1 + d0
  BY Halves
<1>4. /\ Bit(hl, 15) <=> Bit(h1, 7)
      /\ Bit(d, 15) <=> Bit(d1, 7)
      /\ Bit(r, 15) <=> Bit(x, 7)
      /\ r = 0 <=> x = 0 /\ y = 0
      /\ r \div 256 = x
  BY <1>2, <1>3, Joined
<1>5. low.r = y /\ ("C" \in low.f <=> lo < 0) /\ ("Z" \in low.f <=> y = 0)
  BY <1>1, <1>3, Z80SubFlags
<1>6. In(low.f) = c /\ high = Z80!AluSub(h1, d1, c)
  BY <1>5 DEF In
<1>7. /\ high.r = x
      /\ high.f = {"N"} \cup Z80!Shape(x) \cup Z80!Given("H", (h1 % 16) - (d1 % 16) - c < 0)
                  \cup Z80!Given("C", hi < 0)
                  \cup Z80!Given("PV", Bit(h1, 7) # Bit(d1, 7) /\ Bit(h1, 7) # Bit(x, 7))
  <2> DEFINE p == Z80!AluSub(h1, d1, c)
  <2>1. /\ p.r = x
        /\ p.f = {"N"} \cup Z80!Shape(x) \cup Z80!Given("H", (h1 % 16) - (d1 % 16) - c < 0)
                    \cup Z80!Given("C", hi < 0)
                    \cup Z80!Given("PV", Bit(h1, 7) # Bit(d1, 7) /\ Bit(h1, 7) # Bit(x, 7))
    BY DEF Z80!AluSub, Z80!Out, Z80!Digit, Z80!Wrap, Wrap, Z80!Bit, Bit
  <2>2. high = p
    BY <1>6
  <2> HIDE DEF p
  <2>3. QED
    BY <2>1, <2>2
<1>8. /\ o.r = r
      /\ o.f = {"N"} \cup Z80!Given("S", Bit(r, 15)) \cup Z80!Given("Z", r = 0) \cup Z80!YX(r \div 256)
                 \cup Z80!Given("H", (hl % 4096) - (d % 4096) - cy < 0)
                 \cup Z80!Given("C", hl - d - cy < 0)
                 \cup Z80!Given("PV", Bit(hl, 15) # Bit(d, 15) /\ Bit(hl, 15) # Bit(r, 15))
  BY DEF Z80!SbcHl16, Z80!Out, Z80!Low12, Z80!Wrap, Wrap, Z80!Bit, Bit, In, Z80!Carry, Carry
<1> HIDE DEF r, x, y, h1, h0, d1, d0, lo, hi, c, cy
<1>9. o.f = {"N"} \cup Z80!Given("S", Bit(x, 7)) \cup Z80!Given("Z", x = 0 /\ y = 0) \cup Z80!YX(x)
                 \cup Z80!Given("H", (h1 % 16) - (d1 % 16) - c < 0)
                 \cup Z80!Given("C", hi < 0)
                 \cup Z80!Given("PV", Bit(h1, 7) # Bit(d1, 7) /\ Bit(h1, 7) # Bit(x, 7))
  <2>1. Z80!Given("S", Bit(r, 15)) = Z80!Given("S", Bit(x, 7))
    BY <1>4 DEF Z80!Given
  <2>2. Z80!Given("Z", r = 0) = Z80!Given("Z", x = 0 /\ y = 0)
    BY <1>4 DEF Z80!Given
  <2>3. Z80!YX(r \div 256) = Z80!YX(x)
    BY <1>4
  <2>4. Z80!Given("H", (hl % 4096) - (d % 4096) - cy < 0)
          = Z80!Given("H", (h1 % 16) - (d1 % 16) - c < 0)
    BY <1>2 DEF Z80!Given
  <2>5. Z80!Given("C", hl - d - cy < 0) = Z80!Given("C", hi < 0)
    BY <1>2 DEF Z80!Given
  <2>6. Z80!Given("PV", Bit(hl, 15) # Bit(d, 15) /\ Bit(hl, 15) # Bit(r, 15))
          = Z80!Given("PV", Bit(h1, 7) # Bit(d1, 7) /\ Bit(h1, 7) # Bit(x, 7))
    <3>1. \A v, k : Bit(v, k) \in BOOLEAN
      BY DEF Bit
    <3>2. Bit(hl, 15) = Bit(h1, 7) /\ Bit(d, 15) = Bit(d1, 7) /\ Bit(r, 15) = Bit(x, 7)
      BY <1>4, <3>1
    <3>3. QED
      BY <3>2
  <2>7. QED
    BY <1>8, <2>1, <2>2, <2>3, <2>4, <2>5, <2>6
<1>10. o.f \ {"Z"} = high.f \ {"Z"}
  BY <1>7, <1>9 DEF Z80!Shape, Z80!Bit, Bit, Z80!YX, Z80!Given
<1>11. "Z" \in o.f <=> "Z" \in low.f /\ "Z" \in high.f
  BY <1>5, <1>7, <1>9 DEF Z80!Shape, Z80!YX, Z80!Given
<1>12. QED
  BY <1>2, <1>5, <1>7, <1>8, <1>10, <1>11 DEF InTwoBytes

\* ADC HL,rr and SBC HL,rr are two operations on bytes.
LEMMA Z80WideExact ==
  ASSUME NEW hl \in Wide, NEW d \in Wide, NEW F, Z80Wide(hl, d, F)
  PROVE  ResultsAreExact'
<1>1. CASE LET low == Z80!AluAdd(hl % 256, d % 256, In(F))
           IN last' = <<"wide", Z80!AdcHl16(hl, d, F), low,
                        Z80!AluAdd(hl \div 256, d \div 256, In(low.f))>>
  <2> DEFINE o == Z80!AdcHl16(hl, d, F)
             low == Z80!AluAdd(hl % 256, d % 256, In(F))
             high == Z80!AluAdd(hl \div 256, d \div 256, In(low.f))
  <2>1. /\ o = Z80!AdcHl16(hl, d, F) /\ low = Z80!AluAdd(hl % 256, d % 256, In(F))
        /\ high = Z80!AluAdd(hl \div 256, d \div 256, In(low.f))
    OBVIOUS
  <2>2. last' = <<"wide", o, low, high>>
    BY <1>1
  <2> HIDE DEF o, low, high
  <2>3. InTwoBytes(o, low, high)
    BY <2>1, WideSum
  <2>4. QED
    BY <2>2, <2>3, WideLeft
<1>2. CASE LET low == Z80!AluSub(hl % 256, d % 256, In(F))
           IN last' = <<"wide", Z80!SbcHl16(hl, d, F), low,
                        Z80!AluSub(hl \div 256, d \div 256, In(low.f))>>
  <2> DEFINE o == Z80!SbcHl16(hl, d, F)
             low == Z80!AluSub(hl % 256, d % 256, In(F))
             high == Z80!AluSub(hl \div 256, d \div 256, In(low.f))
  <2>1. /\ o = Z80!SbcHl16(hl, d, F) /\ low = Z80!AluSub(hl % 256, d % 256, In(F))
        /\ high = Z80!AluSub(hl \div 256, d \div 256, In(low.f))
    OBVIOUS
  <2>2. last' = <<"wide", o, low, high>>
    BY <1>2
  <2> HIDE DEF o, low, high
  <2>3. InTwoBytes(o, low, high)
    BY <2>1, WideDifference
  <2>4. QED
    BY <2>2, <2>3, WideLeft
<1>3. QED
  BY <1>1, <1>2 DEF Z80Wide

\* ADD HL,rr: S, Z and P/V stay, the others are those of ADC HL,rr without a carry.
LEMMA Z80PairExact ==
  ASSUME NEW t \in Wide, NEW d \in Wide, NEW F \in Flagged, Z80Pair(t, d, F)
  PROVE  ResultsAreExact'
<1> DEFINE o == Z80!AddPair16(t, d, F)
           adc == Z80!AdcHl16(t, d, {})
           r == Wrap(t + d, 16)
<1>1. t + d + 0 = t + d /\ (t % 4096) + (d % 4096) + 0 = (t % 4096) + (d % 4096)
  <2>1. t \in Int /\ d \in Int
    BY DEF Wide
  <2>2. QED
    BY <2>1
<1>2. /\ o.r = r
      /\ o.f = (F \cap {"S", "Z", "PV"}) \cup Z80!YX(r \div 256) \cup Z80!Given("C", t + d > 65535)
                 \cup Z80!Given("H", (t % 4096) + (d % 4096) > 4095)
  BY DEF Z80!AddPair16, Z80!Out, Z80!Keep, Z80!Low12, Z80!Wrap, Wrap
<1>3. /\ adc.r = r
      /\ adc.f = Z80!Given("S", Bit(r, 15)) \cup Z80!Given("Z", r = 0) \cup Z80!YX(r \div 256)
                 \cup Z80!Given("H", (t % 4096) + (d % 4096) > 4095)
                 \cup Z80!Given("C", t + d > 65535)
                 \cup Z80!Given("PV", Bit(t, 15) # Bit(r, 15) /\ Bit(d, 15) # Bit(r, 15))
  BY <1>1 DEF Z80!AdcHl16, Z80!Out, Z80!Low12, Z80!Wrap, Wrap, Z80!Bit, Bit, Z80!Carry
<1>4. last' = <<"pair", o, adc, F>>
  BY DEF Z80Pair
<1> HIDE DEF o, adc, r
<1>5. o.f = (F \cap {"S", "Z", "PV"}) \cup (adc.f \cap {"H", "C", "Y", "X"})
  BY <1>2, <1>3 DEF Z80!YX, Z80!Given
<1>6. QED
  BY <1>2, <1>3, <1>4, <1>5
  DEF ResultsAreExact, SumIsExact, ComparisonOrders, WideIsTwoBytes, DaaIsDecimal,
      RotationsInvert, LogicAddsUp, Did
-----------------------------------------------------------------------------
(***************************************************************************)
(* Rotations.                                                              *)
(***************************************************************************)
\* To the left and to the right again: the byte is back, and so is the bit that came in.
LEMMA ThereAndBack ==
  ASSUME NEW a \in Byte, NEW in \in {0, 1}
  PROVE  LET r == Wrap(2 * a, 8) + in
         IN /\ r \in Byte /\ r \div 2 + 128 * Carry(Bit(a, 7)) = a
            /\ Bit(r, 0) <=> in = 1
<1>1. a \in Int /\ 0 <= a /\ a <= 255 /\ in \in Int /\ (in = 0 \/ in = 1)
  BY DEF Byte
<1>2. Wrap(2 * a, 8) = IF a < 128 THEN 2 * a ELSE 2 * a - 256
  <2>1. 2 * a \in Int /\ 0 <= 2 * a /\ 2 * a < 512
    BY <1>1
  <2>2. QED
    BY <1>1, <2>1, Turns
<1>3. Carry(Bit(a, 7)) = IF a < 128 THEN 0 ELSE 1
  BY <1>1, TopBits DEF Carry
<1>4. ASSUME NEW r, r = Wrap(2 * a, 8) + in
      PROVE  r \in Byte /\ r \div 2 + 128 * Carry(Bit(a, 7)) = a /\ (Bit(r, 0) <=> in = 1)
  <2>1. r = IF a < 128 THEN 2 * a + in ELSE 2 * a - 256 + in
    BY <1>1, <1>2, <1>4
  <2>2. r \in Byte
    BY <1>1, <2>1 DEF Byte
  <2>3. r \div 2 + 128 * Carry(Bit(a, 7)) = a
    BY <1>1, <1>3, <2>1
  <2>4. (r \div 1) % 2 = 1 <=> in = 1
    BY <1>1, <2>1
  <2>5. 2^0 = 1
    OBVIOUS
  <2>6. QED
    BY <2>2, <2>3, <2>4, <2>5 DEF Bit
<1>5. QED
  BY <1>4

\* The step keeps the property when both ways are known.
Restores(a, in, there, back, short) ==
  /\ back.r = a /\ In(back.f) = in
  /\ short.r = there.r /\ In(short.f) = In(there.f)

\* So such a step keeps the property.
LEMMA RotateLeft ==
  ASSUME NEW a, NEW in, NEW there, NEW back, NEW short,
         last' = <<"rotate", a, in, there, back, short>>, Restores(a, in, there, back, short)
  PROVE  ResultsAreExact'
BY DEF ResultsAreExact, SumIsExact, ComparisonOrders, WideIsTwoBytes, DaaIsDecimal,
       RotationsInvert, LogicAddsUp, Did, Restores

\* The helpers of Arith mean the same in each core.
LEMMA CarryOf ==
  /\ \A c \in BOOLEAN : (Carry(c) = 1 <=> c) /\ Carry(c) \in {0, 1}
  /\ \A v, k : Bit(v, k) \in BOOLEAN
  /\ \A v, k : Z80!Bit(v, k) = Bit(v, k) /\ Em8!Bit(v, k) = Bit(v, k)
  /\ \A c : Z80!Carry(c) = Carry(c) /\ Em8!Carry(c) = Carry(c)
  /\ \A v, w : Z80!Wrap(v, w) = Wrap(v, w) /\ Em8!Wrap(v, w) = Wrap(v, w)
BY DEF Carry, Bit, Z80!Bit, Em8!Bit, Z80!Carry, Em8!Carry, Z80!Wrap, Em8!Wrap, Wrap

\* What RL and RLC leave, with the bit that comes in; RR and RRC.
LEMMA Z80Left ==
  ASSUME NEW a \in Byte, NEW in \in {0, 1}, NEW o, o = Z80!RotRL(a, in)
  PROVE  o.r = Wrap(2 * a, 8) + in /\ In(o.f) = Carry(Bit(a, 7))
<1>1. "C" \in o.f <=> Bit(a, 7)
  BY CarryOf DEF Z80!RotRL, Z80!Out, Z80!SetShiftRotateFlags, Z80!Shape, Z80!YX, Z80!Parity,
                 Z80!Given, Z80!Top
<1>2. o.r = Wrap(2 * a, 8) + in
  BY CarryOf DEF Z80!RotRL, Z80!Out, Z80!Left
<1>3. QED
  BY <1>1, <1>2 DEF In, Carry

\* The rotation to the right, likewise.
LEMMA Z80Right ==
  ASSUME NEW a \in Byte, NEW in \in {0, 1}, NEW o, o = Z80!RotRR(a, in)
  PROVE  o.r = a \div 2 + 128 * in /\ In(o.f) = Carry(Bit(a, 0))
<1>1. "C" \in o.f <=> Bit(a, 0)
  BY CarryOf DEF Z80!RotRR, Z80!Out, Z80!SetShiftRotateFlags, Z80!Shape, Z80!YX, Z80!Parity,
                 Z80!Given, Z80!Low
<1>2. o.r = a \div 2 + 128 * in
  BY DEF Z80!RotRR, Z80!Out, Z80!Right
<1>3. QED
  BY <1>1, <1>2 DEF In, Carry

\* The one-byte forms compute what the long ones do.
LEMMA Z80OnA ==
  ASSUME NEW shift, NEW F \in Flagged, NEW o, o = Z80!OnA(shift, F)
  PROVE  o.r = shift.r /\ In(o.f) = In(shift.f)
<1>1. o.r = shift.r /\ ("C" \in o.f <=> "C" \in shift.f)
  BY DEF Z80!OnA, Z80!Out, Z80!Keep, Flagged
<1>2. QED
  BY <1>1 DEF In, Carry

\* RR takes RL back, and RRC takes RLC back.
LEMMA Z80RotateInverts ==
  ASSUME NEW a \in Byte, NEW F \in Flagged, Z80Rotate(a, F)
  PROVE  ResultsAreExact'
<1>1. ASSUME NEW in \in {0, 1}, NEW l, NEW back, NEW short,
             l = Z80!RotRL(a, in), back = Z80!RotRR(l.r, In(l.f)), short = Z80!OnA(l, F)
      PROVE  Restores(a, in, l, back, short)
  <2>1. l.r = Wrap(2 * a, 8) + in /\ In(l.f) = Carry(Bit(a, 7))
    BY <1>1, Z80Left
  <2>2. l.r \in Byte /\ l.r \div 2 + 128 * Carry(Bit(a, 7)) = a /\ (Bit(l.r, 0) <=> in = 1)
    BY <2>1, ThereAndBack
  <2>3. In(l.f) \in {0, 1}
    BY Carries
  <2>4. back.r = l.r \div 2 + 128 * In(l.f) /\ In(back.f) = Carry(Bit(l.r, 0))
    BY <1>1, <2>2, <2>3, Z80Right
  <2>5. back.r = a /\ In(back.f) = in
    BY <2>1, <2>2, <2>4 DEF Carry
  <2>6. short.r = l.r /\ In(short.f) = In(l.f)
    BY <1>1, Z80OnA
  <2>7. QED
    BY <2>5, <2>6 DEF Restores
<1>2. CASE LET l == Z80!RotRL(a, In(F))
           IN last' = <<"rotate", a, In(F), l, Z80!RotRR(l.r, In(l.f)), Z80!OpRla(a, F)>>
  <2> DEFINE l == Z80!RotRL(a, In(F))
             back == Z80!RotRR(l.r, In(l.f))
             short == Z80!OpRla(a, F)
  <2>1. short = Z80!OnA(l, F)
    BY DEF Z80!OpRla, In, Z80!Carry, Carry
  <2>2. last' = <<"rotate", a, In(F), l, back, short>>
    BY <1>2
  <2>3. l = Z80!RotRL(a, In(F)) /\ back = Z80!RotRR(l.r, In(l.f)) /\ In(F) \in {0, 1}
    BY Carries
  <2> HIDE DEF l, back, short
  <2>4. Restores(a, In(F), l, back, short)
    BY <1>1, <2>1, <2>3
  <2>5. QED
    BY <2>2, <2>4, RotateLeft
<1>3. CASE LET c == Z80!RotRLC(a)
           IN last' = <<"rotate", a, Z80!Low(c.r), c, Z80!RotRRC(c.r), Z80!OpRlca(a, F)>>
  <2> DEFINE in == Z80!Top(a)
             l == Z80!RotRLC(a)
             back == Z80!RotRRC(l.r)
             short == Z80!OpRlca(a, F)
  <2>1. in \in {0, 1} /\ in = Carry(Bit(a, 7))
    BY CarryOf DEF Z80!Top
  <2>2. l = Z80!RotRL(a, in) /\ short = Z80!OnA(l, F)
    BY DEF Z80!RotRLC, Z80!RotRL, Z80!OpRlca
  <2>3. back = Z80!RotRR(l.r, Z80!Low(l.r))
    BY DEF Z80!RotRRC, Z80!RotRR
  <2>4. last' = <<"rotate", a, Z80!Low(l.r), l, back, short>>
    BY <1>3
  <2> HIDE DEF in, l, back, short
  <2>5. l.r = Wrap(2 * a, 8) + in /\ In(l.f) = Carry(Bit(a, 7))
    BY <2>1, <2>2, Z80Left
  <2>6. Bit(l.r, 0) <=> in = 1
    BY <2>1, <2>5, ThereAndBack
  <2>7. Z80!Low(l.r) = in /\ In(l.f) = in
    BY <2>1, <2>5, <2>6, CarryOf DEF Z80!Low, Carry
  <2>8. Restores(a, in, l, back, short)
    BY <1>1, <2>1, <2>2, <2>3, <2>7
  <2>9. QED
    BY <2>4, <2>7, <2>8, RotateLeft
<1>4. QED
  BY <1>2, <1>3 DEF Z80Rotate

\* ROL and ROR of the em8.
LEMMA Em8RotateInverts ==
  ASSUME NEW a \in Byte, NEW F \in Flagged, Em8Rotate(a, F)
  PROVE  ResultsAreExact'
<1> DEFINE in == In(F)
           l == Em8!Shift("ROL", a, F)
           back == Em8!Shift("ROR", l.r, l.f)
<1>1. in \in {0, 1} /\ in = Carry("C" \in F)
  BY Carries DEF In
<1>2. l.r = Wrap(2 * a, 8) + in /\ ("C" \in l.f <=> Bit(a, 7))
  BY CarryOf DEF Em8!Shift, Em8!Shifted, Em8!Out, Em8!SetNZ, Em8!Given, In
<1>3. back.r = l.r \div 2 + 128 * In(l.f) /\ ("C" \in back.f <=> Bit(l.r, 0))
  BY CarryOf DEF Em8!Shift, Em8!Shifted, Em8!Out, Em8!SetNZ, Em8!Given, In
<1>4. last' = <<"rotate", a, in, l, back, l>>
  BY DEF Em8Rotate
<1> HIDE DEF in, l, back
<1>5. l.r \in Byte /\ l.r \div 2 + 128 * Carry(Bit(a, 7)) = a /\ (Bit(l.r, 0) <=> in = 1)
  BY <1>1, <1>2, ThereAndBack
<1>6. In(l.f) = Carry(Bit(a, 7)) /\ In(back.f) = Carry(in = 1)
  BY <1>2, <1>3, <1>5, CarryOf DEF In, Carry
<1>7. Restores(a, in, l, back, l)
  BY <1>1, <1>3, <1>5, <1>6 DEF Restores, Carry
<1>8. QED
  BY <1>4, <1>7, RotateLeft

\* RLD and RRD take a digit through the low half of A and back.
LEMMA Z80DigitsInvert ==
  ASSUME NEW a \in Byte, NEW m \in Byte, Z80Digits(a, m)
  PROVE  ResultsAreExact'
<1> DEFINE l == Z80!Rld(a, m, {})
           back == Z80!Rrd(l.r, l.m, {})
           p == 16 * (a \div 16) + m \div 16
           q == 16 * (m % 16) + (a % 16)
<1>1. a \in Int /\ 0 <= a /\ a <= 255 /\ m \in Int /\ 0 <= m /\ m <= 255
  BY DEF Byte
<1>2. l.r = p /\ l.m = q
  BY DEF Z80!Rld, Z80!Digit
<1>3. back.r = 16 * (l.r \div 16) + (l.m % 16) /\ back.m = 16 * (l.r % 16) + l.m \div 16
  BY DEF Z80!Rrd, Z80!Digit
<1>4. 16 * (p \div 16) + (q % 16) = a /\ 16 * (p % 16) + q \div 16 = m
  BY <1>1
<1>5. last' = <<"digits", a, m, back>>
  BY DEF Z80Digits
<1> HIDE DEF l, back, p, q
<1>6. back.r = a /\ back.m = m
  BY <1>2, <1>3, <1>4
<1>7. QED
  BY <1>5, <1>6
  DEF ResultsAreExact, SumIsExact, ComparisonOrders, WideIsTwoBytes, DaaIsDecimal,
      RotationsInvert, LogicAddsUp, Did
-----------------------------------------------------------------------------
(***************************************************************************)
(* Packed decimal: the digits x and y that the sum (difference) of the     *)
(* high and of the low digits leaves, in binary and after the adjustment.  *)
(***************************************************************************)
\* The tens and units of 10 x + y, with one carry or borrow between them and one out.
Units(y) == IF y > 9 THEN y - 10 ELSE IF y < 0 THEN y + 10 ELSE y
Tens(x, y) == LET t == IF y > 9 THEN x + 1 ELSE IF y < 0 THEN x - 1 ELSE x
              IN IF t > 9 THEN t - 10 ELSE IF t < 0 THEN t + 10 ELSE t

\* DAA after an addition.
AdjustsSum(x, y, s, low, high, by, r) ==
  /\ s = IF 16 * x + y < 256 THEN 16 * x + y ELSE 16 * x + y - 256
  /\ low <=> y > 15 \/ s % 16 > 9
  /\ high <=> 16 * x + y > 255 \/ s > 153
  /\ by = (IF low THEN 6 ELSE 0) + (IF high THEN 96 ELSE 0)
  /\ r = IF s + by < 256 THEN s + by ELSE s + (by - 256)

\* The adjustment moves the carries of the binary digits to the decimal ones.
LEMMA AdjustedSum ==
  ASSUME NEW x \in Int, 0 <= x, x <= 18, NEW y \in Int, 0 <= y, y <= 19,
         NEW s, NEW low, NEW high, NEW by, NEW r, AdjustsSum(x, y, s, low, high, by, r)
  PROVE  r = 16 * Tens(x, y) + Units(y) /\ (high <=> 10 * x + y > 99)
<1>1. s % 16 = IF y > 15 THEN y - 16 ELSE y
  BY DEF AdjustsSum
<1>2. low <=> y > 9
  BY <1>1 DEF AdjustsSum
<1>3. high <=> 10 * x + y > 99
  BY DEF AdjustsSum
<1>4. by = (IF y > 9 THEN 6 ELSE 0) + (IF 10 * x + y > 99 THEN 96 ELSE 0)
  BY <1>2, <1>3 DEF AdjustsSum
<1>5. r = 16 * Tens(x, y) + Units(y)
  BY <1>4 DEF AdjustsSum, Tens, Units
<1>6. QED
  BY <1>3, <1>5

\* DAA after a subtraction, which corrects what H and C tell.
AdjustsDifference(x, y, s, low, high, by, r) ==
  /\ s = IF 16 * x + y < 0 THEN 16 * x + y + 256 ELSE 16 * x + y
  /\ low <=> y < 0
  /\ high <=> 16 * x + y < 0
  /\ by = (IF low THEN 6 ELSE 0) + (IF high THEN 96 ELSE 0)
  /\ r = IF s - by < 0 THEN s - by + 256 ELSE s - by

\* The adjustment moves the borrows of the binary digits to the decimal ones.
LEMMA AdjustedDifference ==
  ASSUME NEW x \in Int, -9 <= x, x <= 9, NEW y \in Int, -10 <= y, y <= 9,
         NEW s, NEW low, NEW high, NEW by, NEW r, AdjustsDifference(x, y, s, low, high, by, r)
  PROVE  r = 16 * Tens(x, y) + Units(y) /\ (high <=> 10 * x + y < 0)
<1>1. high <=> 10 * x + y < 0
  BY DEF AdjustsDifference
<1>2. by = (IF y < 0 THEN 6 ELSE 0) + (IF 10 * x + y < 0 THEN 96 ELSE 0)
  BY <1>1 DEF AdjustsDifference
<1>3. r = 16 * Tens(x, y) + Units(y)
  BY <1>2 DEF AdjustsDifference, Tens, Units
<1>4. QED
  BY <1>1, <1>3

\* Two digits in a byte are the number they spell.
LEMMA Spelled ==
  ASSUME NEW x \in Int, -9 <= x, x <= 18, NEW y \in Int, -10 <= y, y <= 19, NEW r,
         r = 16 * Tens(x, y) + Units(y)
  PROVE  IsBcd(r) /\ Decimal(r) = (10 * x + y) % 100
<1>1. /\ Tens(x, y) \in Int /\ 0 <= Tens(x, y) /\ Tens(x, y) <= 9
      /\ Units(y) \in Int /\ 0 <= Units(y) /\ Units(y) <= 9
  BY DEF Tens, Units
<1>2. \/ 10 * Tens(x, y) + Units(y) = 10 * x + y
      \/ 10 * Tens(x, y) + Units(y) = 10 * x + y - 100
      \/ 10 * Tens(x, y) + Units(y) = 10 * x + y + 100
  BY DEF Tens, Units
<1>3. r \div 16 = Tens(x, y) /\ r % 16 = Units(y)
  BY <1>1
<1>4. 10 * Tens(x, y) + Units(y) = (10 * x + y) % 100
  <2>1. ASSUME NEW v \in Int, NEW p \in Int, 0 <= p, p < 100,
               p = v \/ p = v - 100 \/ p = v + 100
        PROVE  p = v % 100
    BY <2>1
  <2>2. /\ 10 * Tens(x, y) + Units(y) \in Int /\ 10 * x + y \in Int
        /\ 0 <= 10 * Tens(x, y) + Units(y) /\ 10 * Tens(x, y) + Units(y) < 100
    BY <1>1
  <2>3. QED
    BY <1>2, <2>1, <2>2
<1>5. QED
  BY <1>1, <1>3, <1>4 DEF IsBcd, Decimal

\* So a step that leaves such a byte keeps the property.
LEMMA DecimalLeft ==
  ASSUME NEW x \in Int, -9 <= x, x <= 18, NEW y \in Int, -10 <= y, y <= 19, NEW o,
         last' = <<"decimal", 10 * x + y, o>>,
         o.r = 16 * Tens(x, y) + Units(y),
         "C" \in o.f <=> 10 * x + y < 0 \/ 10 * x + y > 99
  PROVE  ResultsAreExact'
<1>1. IsBcd(o.r) /\ Decimal(o.r) = (10 * x + y) % 100
  BY Spelled
<1>2. ("C" \in o.f) = (10 * x + y \notin 0 .. 99)
  OBVIOUS
<1>3. QED
  BY <1>1, <1>2
  DEF ResultsAreExact, SumIsExact, ComparisonOrders, WideIsTwoBytes, DaaIsDecimal,
      RotationsInvert, LogicAddsUp, Did

\* DAA as the core computes it.
LEMMA Z80Daa ==
  ASSUME NEW a, NEW F, NEW o, o = Z80!OpDaa(a, F)
  PROVE  LET sub == "N" \in F
             low == "H" \in F \/ (~sub /\ a % 16 > 9)
             high == "C" \in F \/ (~sub /\ a > 153)
             by == (IF low THEN 6 ELSE 0) + (IF high THEN 96 ELSE 0)
         IN /\ o.r = Wrap(IF sub THEN a - by ELSE a + by, 8)
            /\ "C" \in o.f <=> high
BY DEF Z80!OpDaa, Z80!Out, Z80!Digit, Z80!Wrap, Wrap, Z80!Keep, Z80!Shape, Z80!YX, Z80!Parity,
       Z80!Given

\* A packed byte is two digits, below 160.
LEMMA PackedByte ==
  ASSUME NEW a \in Packed
  PROVE  /\ a \in Byte /\ a = 16 * (a \div 16) + (a % 16)
         /\ a \div 16 \in Int /\ 0 <= a \div 16 /\ a \div 16 <= 9
         /\ a % 16 \in Int /\ 0 <= a % 16 /\ a % 16 <= 9
         /\ Decimal(a) = 10 * (a \div 16) + (a % 16)
<1>1. a \in 0 .. 255 /\ IsBcd(a)
  BY CoresAssumption
<1>2. a = 16 * (a \div 16) + (a % 16)
  BY <1>1
<1>3. /\ a \div 16 \in Int /\ 0 <= a \div 16 /\ a \div 16 <= 9
      /\ a % 16 \in Int /\ 0 <= a % 16 /\ a % 16 <= 9
  BY <1>1 DEF IsBcd
<1>4. QED
  BY <1>1, <1>2, <1>3 DEF Byte, Decimal

\* DAA after ADC and after SBC on packed decimal.
LEMMA Z80DecimalExact ==
  ASSUME NEW a \in Packed, NEW b \in Packed, NEW F \in Flagged, Z80Decimal(a, b, F)
  PROVE  ResultsAreExact'
<1> DEFINE a1 == a \div 16
           a0 == a % 16
           b1 == b \div 16
           b0 == b % 16
           cy == In(F)
<1>1. /\ a \in Byte /\ b \in Byte /\ a = 16 * a1 + a0 /\ b = 16 * b1 + b0
      /\ a1 \in Int /\ 0 <= a1 /\ a1 <= 9 /\ a0 \in Int /\ 0 <= a0 /\ a0 <= 9
      /\ b1 \in Int /\ 0 <= b1 /\ b1 <= 9 /\ b0 \in Int /\ 0 <= b0 /\ b0 <= 9
      /\ Decimal(a) = 10 * a1 + a0 /\ Decimal(b) = 10 * b1 + b0
  BY PackedByte
<1>2. cy \in {0, 1} /\ a \in Byte /\ b \in Byte
  BY <1>1, Carries
<1>3. ASSUME NEW s, NEW o, s = Z80!AluAdd(a, b, cy), o = Z80!OpDaa(s.r, s.f),
             last' = <<"decimal", Decimal(a) + Decimal(b) + cy, o>>
      PROVE  ResultsAreExact'
  <2> DEFINE low == "H" \in s.f \/ s.r % 16 > 9
             high == "C" \in s.f \/ s.r > 153
             by == (IF low THEN 6 ELSE 0) + (IF high THEN 96 ELSE 0)
  <2>1. /\ s.r = Wrap(a + b + cy, 8)
        /\ "C" \in s.f <=> a + b + cy > 255
        /\ "H" \in s.f <=> a0 + b0 + cy > 15
        /\ "N" \notin s.f
    BY <1>2, <1>3, Z80AddFlags
  <2>2. o.r = Wrap(s.r + by, 8) /\ ("C" \in o.f <=> high)
    BY <1>3, <2>1, Z80Daa
  <2> DEFINE x == a1 + b1
             y == a0 + b0 + cy
  <2> HIDE DEF a1, a0, b1, b0, cy
  <2>3. /\ x \in Int /\ 0 <= x /\ x <= 18 /\ y \in Int /\ 0 <= y /\ y <= 19
        /\ a + b + cy = 16 * x + y /\ Decimal(a) + Decimal(b) + cy = 10 * x + y
    BY <1>1, <1>2
  <2> HIDE DEF low, high, by
  <2>4. by \in Int /\ 0 <= by /\ by <= 102
    BY DEF by
  <2>5. s.r = IF 16 * x + y < 256 THEN 16 * x + y ELSE 16 * x + y - 256
    <3>1. 16 * x + y \in Int /\ 0 <= 16 * x + y /\ 16 * x + y < 512
      BY <2>3
    <3>2. QED
      BY <2>1, <2>3, <3>1, Turns
  <2>6. s.r \in Int /\ 0 <= s.r /\ s.r <= 255
    BY <2>3, <2>5
  <2>7. o.r = IF s.r + by < 256 THEN s.r + by ELSE s.r + (by - 256)
    <3>1. PICK v \in Int : v = s.r + by
      BY <2>4, <2>6
    <3>2. 0 <= v /\ v < 512 /\ o.r = Wrap(v, 8)
      BY <2>2, <2>4, <2>6, <3>1
    <3>3. o.r = IF v < 256 THEN v ELSE v - 256
      BY <3>2, Turns
    <3>4. QED
      BY <2>4, <2>6, <3>1, <3>3
  <2>8. /\ low \in BOOLEAN /\ high \in BOOLEAN
        /\ low <=> y > 15 \/ s.r % 16 > 9
        /\ high <=> 16 * x + y > 255 \/ s.r > 153
        /\ by = (IF low THEN 6 ELSE 0) + (IF high THEN 96 ELSE 0)
    BY <2>1, <2>3 DEF low, high, by
  <2> HIDE DEF x, y
  <2>9. o.r = 16 * Tens(x, y) + Units(y) /\ (high <=> 10 * x + y > 99)
    <3>1. AdjustsSum(x, y, s.r, low, high, by, o.r)
      BY <2>5, <2>7, <2>8 DEF AdjustsSum
    <3>2. QED
      BY <2>3, <3>1, AdjustedSum
  <2>10. "C" \in o.f <=> 10 * x + y < 0 \/ 10 * x + y > 99
    BY <2>2, <2>3, <2>9
  <2>11. last' = <<"decimal", 10 * x + y, o>>
    BY <1>3, <2>3
  <2>12. x \in Int /\ -9 <= x /\ x <= 18 /\ y \in Int /\ -10 <= y /\ y <= 19
    BY <2>3
  <2>13. QED
    BY <2>9, <2>10, <2>11, <2>12, DecimalLeft
<1>4. ASSUME NEW s, NEW o, s = Z80!AluSub(a, b, cy), o = Z80!OpDaa(s.r, s.f),
             last' = <<"decimal", Decimal(a) - Decimal(b) - cy, o>>
      PROVE  ResultsAreExact'
  <2> DEFINE low == "H" \in s.f
             high == "C" \in s.f
             by == (IF low THEN 6 ELSE 0) + (IF high THEN 96 ELSE 0)
  <2>1. /\ s.r = Wrap(a - b - cy, 8)
        /\ "C" \in s.f <=> a - b - cy < 0
        /\ "H" \in s.f <=> a0 - b0 - cy < 0
        /\ "N" \in s.f
    <3>1. \A k \in {0, 1} : LET p == Z80!AluSub(a, b, k)
                            IN /\ p.r = Wrap(a - b - k, 8)
                               /\ "C" \in p.f <=> a - b - k < 0
                               /\ "H" \in p.f <=> a0 - b0 - k < 0
                               /\ "N" \in p.f
      BY <1>2, Z80SubFlags
    <3> HIDE DEF a0, b0, cy
    <3>2. QED
      BY <1>2, <1>4, <3>1
  <2>2. o.r = Wrap(s.r - by, 8) /\ ("C" \in o.f <=> high)
    BY <1>4, <2>1, Z80Daa
  <2> DEFINE x == a1 - b1
             y == a0 - b0 - cy
  <2> HIDE DEF a1, a0, b1, b0, cy
  <2>3. /\ x \in Int /\ -9 <= x /\ x <= 9 /\ y \in Int /\ -10 <= y /\ y <= 9
        /\ a - b - cy = 16 * x + y /\ Decimal(a) - Decimal(b) - cy = 10 * x + y
    BY <1>1, <1>2
  <2> HIDE DEF low, high, by
  <2>4. by \in Int /\ 0 <= by /\ by <= 102
    BY DEF by
  <2>5. s.r = IF 16 * x + y < 0 THEN 16 * x + y + 256 ELSE 16 * x + y
    <3>1. 16 * x + y \in Int /\ -256 <= 16 * x + y /\ 16 * x + y < 256
      BY <2>3
    <3>2. QED
      BY <2>1, <2>3, <3>1, Turns
  <2>6. s.r \in Int /\ 0 <= s.r /\ s.r <= 255
    BY <2>3, <2>5
  <2>7. o.r = IF s.r - by < 0 THEN s.r - by + 256 ELSE s.r - by
    <3> DEFINE v == s.r - by
    <3>1. v \in Int /\ -256 <= v /\ v < 256 /\ o.r = Wrap(v, 8)
      BY <2>2, <2>4, <2>6
    <3> HIDE DEF v
    <3>2. o.r = IF v < 0 THEN v + 256 ELSE v
      BY <3>1, Turns
    <3>3. QED
      BY <3>2 DEF v
  <2>8. /\ low \in BOOLEAN /\ high \in BOOLEAN
        /\ low <=> y < 0
        /\ high <=> 16 * x + y < 0
        /\ by = (IF low THEN 6 ELSE 0) + (IF high THEN 96 ELSE 0)
    BY <2>1, <2>3 DEF low, high, by
  <2> HIDE DEF x, y
  <2>9. o.r = 16 * Tens(x, y) + Units(y) /\ (high <=> 10 * x + y < 0)
    <3>1. AdjustsDifference(x, y, s.r, low, high, by, o.r)
      BY <2>5, <2>7, <2>8 DEF AdjustsDifference
    <3>2. QED
      BY <2>3, <3>1, AdjustedDifference
  <2>10. "C" \in o.f <=> 10 * x + y < 0 \/ 10 * x + y > 99
    BY <2>2, <2>3, <2>9
  <2>11. last' = <<"decimal", 10 * x + y, o>>
    BY <1>4, <2>3
  <2>12. x \in Int /\ -9 <= x /\ x <= 18 /\ y \in Int /\ -10 <= y /\ y <= 19
    BY <2>3
  <2>13. QED
    BY <2>9, <2>10, <2>11, <2>12, DecimalLeft
<1>5. QED
  BY <1>3, <1>4 DEF Z80Decimal
-----------------------------------------------------------------------------
(***************************************************************************)
(* Bits: a byte is the sum of the weights of its ones.                     *)
(***************************************************************************)
One(k, S) == IF k \in S THEN 1 ELSE 0
Value(S) == One(0, S) + 2 * One(1, S) + 4 * One(2, S) + 8 * One(3, S)
            + 16 * One(4, S) + 32 * One(5, S) + 64 * One(6, S) + 128 * One(7, S)

PowersAre(k) ==
  /\ (k = 0 => 2^k = 1) /\ (k = 1 => 2^k = 2) /\ (k = 2 => 2^k = 4) /\ (k = 3 => 2^k = 8)
  /\ (k = 4 => 2^k = 16) /\ (k = 5 => 2^k = 32) /\ (k = 6 => 2^k = 64) /\ (k = 7 => 2^k = 128)

\* The powers of two in a byte, and its bit numbers.
LEMMA OneFacts ==
  /\ \A k, S : One(k, S) \in Int /\ 0 <= One(k, S) /\ One(k, S) <= 1 /\ (One(k, S) = 1 <=> k \in S)
  /\ \A k : PowersAre(k)
  /\ 0 .. (8 - 1) = {0, 1, 2, 3, 4, 5, 6, 7}
<1>1. \A k, S : One(k, S) \in Int /\ 0 <= One(k, S) /\ One(k, S) <= 1 /\ (One(k, S) = 1 <=> k \in S)
  BY DEF One
<1>2. ASSUME NEW k PROVE PowersAre(k)
  <2>1. k = 0 => 2^k = 1
    OBVIOUS
  <2>2. k = 1 => 2^k = 2
    OBVIOUS
  <2>3. k = 2 => 2^k = 4
    OBVIOUS
  <2>4. k = 3 => 2^k = 8
    OBVIOUS
  <2>5. k = 4 => 2^k = 16
    OBVIOUS
  <2>6. k = 5 => 2^k = 32
    OBVIOUS
  <2>7. k = 6 => 2^k = 64
    OBVIOUS
  <2>8. k = 7 => 2^k = 128
    OBVIOUS
  <2>9. QED
    BY <2>1, <2>2, <2>3, <2>4, <2>5, <2>6, <2>7, <2>8 DEF PowersAre
<1>3. 0 .. (8 - 1) = {0, 1, 2, 3, 4, 5, 6, 7}
  OBVIOUS
<1>4. QED
  BY <1>1, <1>2, <1>3

\* The bits of a sum of weights are the weights in it.
Weighs(v, b0, b1, b2, b3, b4, b5, b6, b7) ==
  v = b0 + 2 * b1 + 4 * b2 + 8 * b3 + 16 * b4 + 32 * b5 + 64 * b6 + 128 * b7

\* Each bit is what division by its weight leaves.
LEMMA WeightsApart ==
  ASSUME NEW b0 \in {0, 1}, NEW b1 \in {0, 1}, NEW b2 \in {0, 1}, NEW b3 \in {0, 1},
         NEW b4 \in {0, 1}, NEW b5 \in {0, 1}, NEW b6 \in {0, 1}, NEW b7 \in {0, 1}, NEW v,
         Weighs(v, b0, b1, b2, b3, b4, b5, b6, b7)
  PROVE  /\ v \in Int /\ 0 <= v /\ v <= 255
         /\ (v \div 1) % 2 = b0 /\ (v \div 2) % 2 = b1
         /\ (v \div 4) % 2 = b2 /\ (v \div 8) % 2 = b3
         /\ (v \div 16) % 2 = b4 /\ (v \div 32) % 2 = b5
         /\ (v \div 64) % 2 = b6 /\ (v \div 128) % 2 = b7
<1>1. v \in Int /\ 0 <= v /\ v <= 255
  BY DEF Weighs
<1>2. (v \div 1) % 2 = b0 /\ (v \div 2) % 2 = b1
  BY DEF Weighs
<1>3. (v \div 4) % 2 = b2 /\ (v \div 8) % 2 = b3
  BY DEF Weighs
<1>4. (v \div 16) % 2 = b4 /\ (v \div 32) % 2 = b5
  BY DEF Weighs
<1>5. (v \div 64) % 2 = b6 /\ (v \div 128) % 2 = b7
  BY DEF Weighs
<1>6. QED
  BY <1>1, <1>2, <1>3, <1>4, <1>5

\* A byte is put together from its bits.
LEMMA WeightsTogether ==
  ASSUME NEW v \in Int, 0 <= v, v <= 255
  PROVE  v = ((v \div 1) % 2) + 2 * ((v \div 2) % 2) + 4 * ((v \div 4) % 2)
             + 8 * ((v \div 8) % 2) + 16 * ((v \div 16) % 2) + 32 * ((v \div 32) % 2)
             + 64 * ((v \div 64) % 2) + 128 * ((v \div 128) % 2)
OBVIOUS

\* So a byte is the value of its ones ...
LEMMA ByteIsValue ==
  ASSUME NEW v \in Byte
  PROVE  v = Value(Ones(v, 8))
<1>1. v \in Int /\ 0 <= v /\ v <= 255
  BY DEF Byte
<1>2. /\ 0 \in Ones(v, 8) <=> (v \div 1) % 2 = 1
      /\ 1 \in Ones(v, 8) <=> (v \div 2) % 2 = 1
      /\ 2 \in Ones(v, 8) <=> (v \div 4) % 2 = 1
      /\ 3 \in Ones(v, 8) <=> (v \div 8) % 2 = 1
  BY OneFacts DEF Ones, Bit
<1>3. /\ 4 \in Ones(v, 8) <=> (v \div 16) % 2 = 1
      /\ 5 \in Ones(v, 8) <=> (v \div 32) % 2 = 1
      /\ 6 \in Ones(v, 8) <=> (v \div 64) % 2 = 1
      /\ 7 \in Ones(v, 8) <=> (v \div 128) % 2 = 1
  BY OneFacts DEF Ones, Bit
<1>4. \A x \in Int : x % 2 = IF x % 2 = 1 THEN 1 ELSE 0
  OBVIOUS
<1>5. /\ One(0, Ones(v, 8)) = (v \div 1) % 2 /\ One(1, Ones(v, 8)) = (v \div 2) % 2
      /\ One(2, Ones(v, 8)) = (v \div 4) % 2 /\ One(3, Ones(v, 8)) = (v \div 8) % 2
  BY <1>1, <1>2, <1>4 DEF One
<1>6. /\ One(4, Ones(v, 8)) = (v \div 16) % 2 /\ One(5, Ones(v, 8)) = (v \div 32) % 2
      /\ One(6, Ones(v, 8)) = (v \div 64) % 2 /\ One(7, Ones(v, 8)) = (v \div 128) % 2
  BY <1>1, <1>3, <1>4 DEF One
<1>7. QED
  BY <1>1, <1>5, <1>6, WeightsTogether DEF Value

\* ... and every set of bits has a byte.
LEMMA ValueHasOnes ==
  ASSUME NEW S \in SUBSET (0 .. (8 - 1))
  PROVE  Value(S) \in Byte /\ Ones(Value(S), 8) = S
<1> DEFINE v == Value(S)
<1>1. /\ One(0, S) \in {0, 1} /\ One(1, S) \in {0, 1} /\ One(2, S) \in {0, 1} /\ One(3, S) \in {0, 1}
      /\ One(4, S) \in {0, 1} /\ One(5, S) \in {0, 1} /\ One(6, S) \in {0, 1} /\ One(7, S) \in {0, 1}
  BY DEF One
<1>2. Weighs(v, One(0, S), One(1, S), One(2, S), One(3, S),
                 One(4, S), One(5, S), One(6, S), One(7, S))
  BY DEF Value, Weighs
<1> HIDE DEF v
<1>3. /\ v \in Int /\ 0 <= v /\ v <= 255
      /\ (v \div 1) % 2 = One(0, S) /\ (v \div 2) % 2 = One(1, S)
      /\ (v \div 4) % 2 = One(2, S) /\ (v \div 8) % 2 = One(3, S)
      /\ (v \div 16) % 2 = One(4, S) /\ (v \div 32) % 2 = One(5, S)
      /\ (v \div 64) % 2 = One(6, S) /\ (v \div 128) % 2 = One(7, S)
  BY <1>1, <1>2, WeightsApart
<1>4. ASSUME NEW k \in {0, 1, 2, 3, 4, 5, 6, 7}
      PROVE  Bit(v, k) <=> k \in S
  <2>1. Bit(v, k) <=> (v \div 2^k) % 2 = 1
    BY DEF Bit
  <2>2. PowersAre(k)
    BY OneFacts
  <2>3. (v \div 2^k) % 2 = One(k, S)
    BY <1>3, <2>2 DEF PowersAre
  <2>4. QED
    BY <2>1, <2>3, OneFacts
<1> DEFINE K == {0, 1, 2, 3, 4, 5, 6, 7}
<1>5. Ones(v, 8) = S
  <2>1. S \subseteq K /\ 0 .. (8 - 1) = K
    BY OneFacts
  <2>2. \A k \in K : Bit(v, k) <=> k \in S
    BY <1>4
  <2> HIDE DEF K
  <2>3. Ones(v, 8) = {k \in K : Bit(v, k)}
    BY <2>1 DEF Ones
  <2>4. QED
    BY <2>1, <2>2, <2>3
<1>6. v \in Byte
  BY <1>3 DEF Byte
<1>7. QED
  BY <1>5, <1>6 DEF v

\* The word of a set of bits is its value: CHOOSE has one candidate.
LEMMA WordIsValue ==
  ASSUME NEW S \in SUBSET (0 .. (8 - 1))
  PROVE  Word(S, 8) = Value(S)
<1>1. 0 .. (2^8 - 1) = Byte
  BY DEF Byte
<1>2. \E v \in Byte : Ones(v, 8) = S
  BY ValueHasOnes
<1>3. Word(S, 8) \in Byte /\ Ones(Word(S, 8), 8) = S
  BY <1>1, <1>2 DEF Word
<1>4. QED
  BY <1>3, ByteIsValue

\* Bit for bit, what is in one set and twice what is in both make the sum.
LEMMA ValuesAddUp ==
  ASSUME NEW X, NEW Y
  PROVE  /\ Value((X \cup Y) \ (X \cap Y)) + 2 * Value(X \cap Y) = Value(X) + Value(Y)
         /\ Value(X \cup Y) = Value((X \cup Y) \ (X \cap Y)) + Value(X \cap Y)
<1> DEFINE D == (X \cup Y) \ (X \cap Y)
           B == X \cap Y
           E == X \cup Y
<1>1. \A k : /\ One(k, D) + 2 * One(k, B) = One(k, X) + One(k, Y)
             /\ One(k, E) = One(k, D) + One(k, B)
  BY DEF One
<1> HIDE DEF D, B, E
<1>2. \A k, S : One(k, S) \in Int
  BY OneFacts
<1>3. Value(D) + 2 * Value(B) = Value(X) + Value(Y)
  BY <1>1, <1>2 DEF Value
<1>4. Value(E) = Value(D) + Value(B)
  BY <1>1, <1>2 DEF Value
<1>5. QED
  BY <1>3, <1>4 DEF D, B, E

\* The parity of what is in one set alone.
LEMMA ParitiesDiffer ==
  ASSUME NEW X \in SUBSET (0 .. (8 - 1)), NEW Y \in SUBSET (0 .. (8 - 1))
  PROVE  Cardinality((X \cup Y) \ (X \cap Y)) % 2 = 0
           <=> (Cardinality(X) % 2 = 0 <=> Cardinality(Y) % 2 = 0)
<1>1. IsFiniteSet(X) /\ IsFiniteSet(Y)
  <2>1. 0 \in Int /\ 8 - 1 \in Int
    OBVIOUS
  <2>2. IsFiniteSet(0 .. (8 - 1))
    BY <2>1, FS_Interval
  <2>3. QED
    BY <2>2, FS_Subset
<1>2. IsFiniteSet(X \cup Y) /\ Cardinality(X \cup Y) = Cardinality(X) + Cardinality(Y) - Cardinality(X \cap Y)
  BY <1>1, FS_Union
<1>3. Cardinality((X \cup Y) \ (X \cap Y)) = Cardinality(X \cup Y) - Cardinality((X \cup Y) \cap (X \cap Y))
  BY <1>2, FS_Difference
<1>4. (X \cup Y) \cap (X \cap Y) = X \cap Y
  OBVIOUS
<1>5. IsFiniteSet(X \cap Y)
  BY <1>1, FS_Intersection
<1>6. Cardinality(X) \in Nat /\ Cardinality(Y) \in Nat /\ Cardinality(X \cap Y) \in Nat
  BY <1>1, <1>5, FS_CardinalityType
<1>7. \A x, y, b \in Nat : (x + (y - b - b)) % 2 = 0 <=> (x % 2 = 0 <=> y % 2 = 0)
  OBVIOUS
<1>8. Cardinality((X \cup Y) \ (X \cap Y))
        = Cardinality(X) + (Cardinality(Y) - Cardinality(X \cap Y) - Cardinality(X \cap Y))
  BY <1>2, <1>3, <1>4, <1>6
<1>9. QED
  BY <1>6, <1>7, <1>8

\* A step that leaves the three words of two operands keeps the property.
LEMMA LogicLeft ==
  ASSUME NEW a \in Byte, NEW b \in Byte, NEW and, NEW or, NEW xor,
         last' = <<"logic", a, b, and, or, xor>>,
         and = Word(Ones(a, 8) \cap Ones(b, 8), 8),
         or = Word(Ones(a, 8) \cup Ones(b, 8), 8),
         xor.r = Word((Ones(a, 8) \cup Ones(b, 8)) \ (Ones(a, 8) \cap Ones(b, 8)), 8),
         "PV" \in xor.f <=> EvenParity(xor.r, 8)
  PROVE  ResultsAreExact'
<1> DEFINE X == Ones(a, 8)
           Y == Ones(b, 8)
           D == (X \cup Y) \ (X \cap Y)
<1>1. X \in SUBSET (0 .. (8 - 1)) /\ Y \in SUBSET (0 .. (8 - 1))
  BY DEF Ones
<1>2. a = Value(X) /\ b = Value(Y)
  BY ByteIsValue
<1> HIDE DEF X, Y
<1>3. /\ X \cap Y \in SUBSET (0 .. (8 - 1)) /\ X \cup Y \in SUBSET (0 .. (8 - 1))
      /\ D \in SUBSET (0 .. (8 - 1))
  BY <1>1
<1>4. and = Value(X \cap Y) /\ or = Value(X \cup Y) /\ xor.r = Value(D)
  <2>1. and = Word(X \cap Y, 8) /\ or = Word(X \cup Y, 8) /\ xor.r = Word(D, 8)
    BY DEF X, Y
  <2>2. QED
    BY <1>3, <2>1, WordIsValue
<1>5. xor.r + 2 * and = a + b /\ or = xor.r + and
  <2>1. /\ Value(D) + 2 * Value(X \cap Y) = Value(X) + Value(Y)
        /\ Value(X \cup Y) = Value(D) + Value(X \cap Y)
    BY ValuesAddUp
  <2> HIDE DEF D
  <2>2. QED
    BY <1>2, <1>4, <2>1
<1>6. Ones(xor.r, 8) = D
  BY <1>3, <1>4, ValueHasOnes
<1>7. "PV" \in xor.f <=> (EvenParity(a, 8) <=> EvenParity(b, 8))
  <2>1. Cardinality(D) % 2 = 0 <=> (Cardinality(X) % 2 = 0 <=> Cardinality(Y) % 2 = 0)
    BY <1>1, ParitiesDiffer
  <2>2. EvenParity(xor.r, 8) <=> Cardinality(D) % 2 = 0
    BY <1>6 DEF EvenParity
  <2>3. /\ EvenParity(a, 8) <=> Cardinality(X) % 2 = 0
        /\ EvenParity(b, 8) <=> Cardinality(Y) % 2 = 0
    BY DEF EvenParity, X, Y
  <2> HIDE DEF D
  <2>4. QED
    BY <2>1, <2>2, <2>3
<1>8. ("PV" \in xor.f) = (EvenParity(a, 8) = EvenParity(b, 8))
  BY <1>7 DEF EvenParity
<1>9. QED
  BY <1>5, <1>8
  DEF ResultsAreExact, SumIsExact, ComparisonOrders, WideIsTwoBytes, DaaIsDecimal,
      RotationsInvert, LogicAddsUp, Did

\* The cores' words of bits are the words of Arith.
LEMMA SameWords ==
  /\ \A v, w : Z80!Ones(v, w) = Ones(v, w) /\ Z8K!Ones(v, w) = Ones(v, w)
  /\ \A S, w : Z80!Word(S, w) = Word(S, w) /\ Z8K!Word(S, w) = Word(S, w)
  /\ \A v, w : (Z80!EvenParity(v, w) <=> EvenParity(v, w))
               /\ (Z8K!EvenParity(v, w) <=> EvenParity(v, w))
<1>1. \A v, w : Z80!Ones(v, w) = Ones(v, w) /\ Z8K!Ones(v, w) = Ones(v, w)
  BY DEF Z80!Ones, Z8K!Ones, Ones, Z80!Bit, Z8K!Bit, Bit
<1>2. ASSUME NEW S, NEW w PROVE Z80!Word(S, w) = Word(S, w)
  BY DEF Z80!Word, Word, Z80!Ones, Ones, Z80!Bit, Bit
<1>3. ASSUME NEW S, NEW w PROVE Z8K!Word(S, w) = Word(S, w)
  BY DEF Z8K!Word, Word, Z8K!Ones, Ones, Z8K!Bit, Bit
<1>4. ASSUME NEW S PROVE Z80!Cardinality(S) = Cardinality(S)
  BY DEF Z80!Cardinality, Cardinality
<1>5. ASSUME NEW S PROVE Z8K!Cardinality(S) = Cardinality(S)
  BY DEF Z8K!Cardinality, Cardinality
<1>6. ASSUME NEW v, NEW w
      PROVE  /\ Z80!EvenParity(v, w) <=> EvenParity(v, w)
             /\ Z8K!EvenParity(v, w) <=> EvenParity(v, w)
  BY <1>1, <1>4, <1>5 DEF Z80!EvenParity, Z8K!EvenParity, EvenParity
<1>7. QED
  BY <1>1, <1>2, <1>3, <1>6

\* The logic helper of the Z80 leaves the word of the bits and its parity.
LEMMA Z80LogicWord ==
  ASSUME NEW bits, NEW half \in BOOLEAN
  PROVE  LET o == Z80!Logic(bits, half)
         IN o.r = Word(bits, 8) /\ ("PV" \in o.f <=> EvenParity(o.r, 8))
BY SameWords
DEF Z80!Logic, Z80!Out, Z80!Shape, Z80!YX, Z80!Parity, Z80!Given

\* AND, OR and XOR of both cores add up.
LEMMA LogicExact ==
  ASSUME NEW a \in Byte, NEW b \in Byte, Logic(a, b)
  PROVE  ResultsAreExact'
<1> DEFINE X == Ones(a, 8)
           Y == Ones(b, 8)
           D == (X \cup Y) \ (X \cap Y)
<1>1. CASE last' = <<"logic", a, b, Z80!AluAnd(a, b).r, Z80!AluOr(a, b).r, Z80!AluXor(a, b)>>
  <2> DEFINE and == Z80!AluAnd(a, b).r
             or == Z80!AluOr(a, b).r
             xor == Z80!AluXor(a, b)
  <2>1. and = Word(X \cap Y, 8)
    BY SameWords, Z80LogicWord DEF Z80!AluAnd
  <2>2. or = Word(X \cup Y, 8)
    BY SameWords, Z80LogicWord DEF Z80!AluOr
  <2>3. xor.r = Word(D, 8) /\ ("PV" \in xor.f <=> EvenParity(xor.r, 8))
    BY SameWords, Z80LogicWord DEF Z80!AluXor
  <2> HIDE DEF and, or, xor
  <2>4. last' = <<"logic", a, b, and, or, xor>>
    BY <1>1 DEF and, or, xor
  <2>5. QED
    BY <2>1, <2>2, <2>3, <2>4, LogicLeft
<1>2. CASE last' = <<"logic", a, b, Z8K!LogicOp("AND", a, b, 8, {}).r,
                     Z8K!LogicOp("OR", a, b, 8, {}).r, Z8K!LogicOp("XOR", a, b, 8, {})>>
  <2> DEFINE and == Z8K!LogicOp("AND", a, b, 8, {}).r
             or == Z8K!LogicOp("OR", a, b, 8, {}).r
             xor == Z8K!LogicOp("XOR", a, b, 8, {})
  <2>1. and = Word(X \cap Y, 8)
    BY SameWords DEF Z8K!LogicOp, Z8K!Out
  <2>2. or = Word(X \cup Y, 8)
    BY SameWords DEF Z8K!LogicOp, Z8K!Out
  <2>3. xor.r = Word(D, 8) /\ ("PV" \in xor.f <=> EvenParity(xor.r, 8))
    BY SameWords DEF Z8K!LogicOp, Z8K!Out, Z8K!UpdateFlags, Z8K!Shape, Z8K!Given
  <2> HIDE DEF and, or, xor
  <2>4. last' = <<"logic", a, b, and, or, xor>>
    BY <1>2 DEF and, or, xor
  <2>5. QED
    BY <2>1, <2>2, <2>3, <2>4, LogicLeft
<1>3. QED
  BY <1>1, <1>2 DEF Logic
-----------------------------------------------------------------------------
(***************************************************************************)
(* The property holds of a fetch and of a line, which compute nothing, and *)
(* after every instruction.                                                *)
(***************************************************************************)
LEMMA NothingComputed ==
  ASSUME NEW x, NEW y, NEW k, NEW n
  PROVE  /\ last = <<"fetch">> => ResultsAreExact
         /\ last' = <<"fetch">> => ResultsAreExact'
         /\ last' = <<"line", x, y, k, n>> => ResultsAreExact'
BY DEF ResultsAreExact, SumIsExact, ComparisonOrders, WideIsTwoBytes, DaaIsDecimal,
       RotationsInvert, LogicAddsUp, Did

\* The operands of a run are bytes and words.
LEMMA Operands ==
  /\ Edge \subseteq Byte /\ WideEdge \subseteq Wide
  /\ \A a \in Byte : a \in 0 .. (256 - 1)
  /\ \A a \in Wide : a \in Int /\ 0 <= a /\ a <= 65535
<1>1. Edge \subseteq Byte /\ WideEdge \subseteq Wide
  BY CoresAssumption DEF Byte, Wide
<1>2. \A a \in Byte : a \in 0 .. (256 - 1)
  BY DEF Byte
<1>3. \A a \in Wide : a \in Int /\ 0 <= a /\ a <= 65535
  BY DEF Wide
<1>4. QED
  BY <1>1, <1>2, <1>3

\* Every instruction of the first group keeps the property,
LEMMA ArithmeticExact == Arithmetic => ResultsAreExact'
<1> SUFFICES ASSUME Arithmetic PROVE ResultsAreExact'
  OBVIOUS
<1>1. PICK F \in Flagged :
        \/ \E a, b \in Edge : \/ Z80Add(a, b, F) \/ Z80Sub(a, b, F)
                              \/ Em8Add(a, b, F) \/ Em8Sub(a, b, F)
        \/ \E a \in Edge : Z80Step(a, F)
        \/ \E a, b \in WideEdge : Z80Wide(a, b, F) \/ Z80Pair(a, b, F)
        \/ \E a, b \in Packed : Z80Decimal(a, b, F)
        \/ \E a \in 0 .. 255 : Z80Rotate(a, F) \/ Em8Rotate(a, F)
  BY DEF Arithmetic
<1>2. ASSUME NEW a \in Edge, NEW b \in Edge,
             \/ Z80Add(a, b, F) \/ Z80Sub(a, b, F) \/ Em8Add(a, b, F) \/ Em8Sub(a, b, F)
      PROVE  ResultsAreExact'
  BY <1>2, Operands, Z80AddExact, Z80SubExact, Em8AddExact, Em8SubExact
<1>3. ASSUME NEW a \in Edge, Z80Step(a, F)
      PROVE  ResultsAreExact'
  BY <1>3, Operands, Z80StepExact
<1>4. ASSUME NEW a \in WideEdge, NEW b \in WideEdge, Z80Wide(a, b, F) \/ Z80Pair(a, b, F)
      PROVE  ResultsAreExact'
  BY <1>4, Operands, Z80WideExact, Z80PairExact
<1>5. ASSUME NEW a \in Packed, NEW b \in Packed, Z80Decimal(a, b, F)
      PROVE  ResultsAreExact'
  BY <1>5, Z80DecimalExact
<1>6. ASSUME NEW a \in 0 .. 255, Z80Rotate(a, F) \/ Em8Rotate(a, F)
      PROVE  ResultsAreExact'
  <2>1. a \in Byte
    BY DEF Byte
  <2>2. QED
    BY <1>6, <2>1, Z80RotateInverts, Em8RotateInverts
<1>7. QED
  BY <1>1, <1>2, <1>3, <1>4, <1>5, <1>6

\* and every one of the second;
LEMMA WordsExact == Words => ResultsAreExact'
<1> SUFFICES ASSUME Words PROVE ResultsAreExact'
  OBVIOUS
<1>1. ASSUME NEW a \in Edge, NEW b \in Edge,
             \/ Z8000Add(8, a, b) \/ Z8000Sub(8, a, b) \/ Z80Compare(a, b)
             \/ Em8Compare(a, b) \/ Z8000Compare(8, a, b)
             \/ Z80Digits(a, b) \/ Logic(a, b)
      PROVE  ResultsAreExact'
  <2>1. a \in Byte /\ b \in Byte /\ a \in 0 .. (256 - 1) /\ b \in 0 .. (256 - 1)
    BY Operands
  <2>2. QED
    BY <1>1, <2>1, Widths, Z8000AddExact, Z8000SubExact, Z80CompareOrders,
       Em8CompareOrders, Z8000CompareOrders, Z80DigitsInvert, LogicExact
<1>2. ASSUME NEW a \in WideEdge, NEW b \in WideEdge,
             Z8000Add(16, a, b) \/ Z8000Sub(16, a, b) \/ Z8000Compare(16, a, b)
      PROVE  ResultsAreExact'
  <2>1. a \in Int /\ 0 <= a /\ a <= 65535 /\ b \in Int /\ 0 <= b /\ b <= 65535
    BY Operands
  <2>2. PICK w, h, n : w = 16 /\ h = 32768 /\ n = 65536
    OBVIOUS
  <2>3. n \in Int /\ a < n /\ b < n
    BY <2>1, <2>2
  <2>4. a \in 0 .. (n - 1) /\ b \in 0 .. (n - 1) /\ Width(w, h, n)
    <3>1. a \in 0 .. (n - 1) /\ b \in 0 .. (n - 1)
      BY <2>1, <2>3
    <3>2. Width(w, h, n)
      BY <2>2 DEF Width
    <3>3. QED
      BY <3>1, <3>2
  <2>5. Z8000Add(w, a, b) \/ Z8000Sub(w, a, b) \/ Z8000Compare(w, a, b)
    BY <1>2, <2>2
  <2>6. QED
    BY <2>4, <2>5, Z8000AddExact, Z8000SubExact, Z8000CompareOrders
<1>3. QED
  BY <1>1, <1>2 DEF Words

\* a line of the listing is about no result.
LEMMA ListingComputesNothing == Listing => ResultsAreExact'
<1> SUFFICES ASSUME Listing PROVE ResultsAreExact'
  OBVIOUS
<1>1. \E x, y, k, n : last' = <<"line", x, y, k, n>>
  BY DEF Listing, Z80Line, Em8Line, Z8000Line
<1>2. QED
  BY <1>1, NothingComputed

\* The additions, subtractions, comparisons, rotations and decimal adjustments of MCCores leave
\* the result and the flags that integer arithmetic asks for, and so do the Z80's and Z8000's
\* AND, OR and XOR, for every byte and word (the helpers of Z80Cpu.cpp, Em8Cpu.cpp and
\* Z8000Cpu.cpp).  Shifts, BIT, NEG, CPL, SCF, CCF, the block instructions and the em8's logic
\* are not among them.
THEOREM EveryResultIsExact == Spec => []ResultsAreExact
<1>1. Init => ResultsAreExact
  BY NothingComputed DEF Init
<1>2. ResultsAreExact /\ [Next]_last => ResultsAreExact'
  <2> SUFFICES ASSUME ResultsAreExact, [Next]_last PROVE ResultsAreExact'
    OBVIOUS
  <2>1. CASE Arithmetic
    BY <2>1, ArithmeticExact
  <2>2. CASE Words
    BY <2>2, WordsExact
  <2>3. CASE Listing
    BY <2>3, ListingComputesNothing
  <2>4. CASE Fetch
    BY <2>4, NothingComputed DEF Fetch
  <2>5. CASE UNCHANGED last
    BY <2>5
    DEF ResultsAreExact, SumIsExact, ComparisonOrders, WideIsTwoBytes, DaaIsDecimal,
        RotationsInvert, LogicAddsUp, Did
  <2>6. QED
    BY <2>1, <2>2, <2>3, <2>4, <2>5 DEF Next, Execute
<1>3. QED
  BY <1>1, <1>2, PTL DEF Spec

-----------------------------------------------------------------------------
(***************************************************************************)
(* The listings.  Core and disassembler cut the opcodes in different ways: *)
(* the cases of one are matched with those of the other.                   *)
(***************************************************************************)
\* op is made of its three parts.
LEMMA Split ==
  ASSUME NEW op \in 0 .. 255
  PROVE  /\ Z80Text!X(op) \in 0 .. 3 /\ Z80Text!Y(op) \in 0 .. 7 /\ Z80Text!Z(op) \in 0 .. 7
         /\ op = 64 * Z80Text!X(op) + 8 * Z80Text!Y(op) + Z80Text!Z(op)
BY DEF Z80Text!X, Z80Text!Y, Z80Text!Z

\* CB, and DD CB with a displacement and the byte itself after it.
LEMMA CbLines == 
  ASSUME NEW op \in 0 .. 255
  PROVE  /\ Same(Z80Text!Executes("CB", op), Z80Text!Lists("CB", op))
         /\ Same(Z80Text!Executes("DDCB", op), Z80Text!Lists("DDCB", op))
<1>1. Z80Text!CpuCb(op) = Z80Text!decodeCb(op)
  BY DEF Z80Text!CpuCb, Z80Text!decodeCb, Z80Text!RotCase, Z80Text!k_rot_mnem
<1>2. /\ Z80Text!Executes("CB", op) = Z80Text!Lists("CB", op)
      /\ Z80Text!Executes("DDCB", op) = Z80Text!Lists("DDCB", op)
  BY <1>1 DEF Z80Text!Executes, Z80Text!Lists
<1>3. QED
  BY <1>2 DEF Same

\* DD and FD: where they change nothing, the listing is out of step.
LEMMA DdLines ==
  ASSUME NEW op \in 0 .. 255, op # 203
  PROVE  \/ Same(Z80Text!CpuIndexed(op), Z80Text!decodeDdFd(op))
         \/ OutOfStep(Z80Text!CpuIndexed(op), Z80Text!decodeDdFd(op))
<1> USE DEF Z80Text!Q
<1>1. /\ Z80Text!X(op) \in 0 .. 3 /\ Z80Text!Y(op) \in 0 .. 7 /\ Z80Text!Z(op) \in 0 .. 7
      /\ op = 64 * Z80Text!X(op) + 8 * Z80Text!Y(op) + Z80Text!Z(op)
  BY Split
<1>2. CASE Z80Text!IsDisplaced(op)
  <2>1. Z80Text!decodeDdFd(op) = Z80Text!Displaced(op)
    BY <1>1, <1>2
    DEF Z80Text!decodeDdFd, Z80Text!IsDisplaced, Z80Text!Displaced, Z80Text!AluCase,
        Z80Text!k_alu_mnem
  <2>2. QED
    BY <1>2, <2>1 DEF Z80Text!CpuIndexed, Same
<1>3. CASE ~Z80Text!IsDisplaced(op) /\ Z80Text!IsWholeIndex(op)
  <2>1. Z80Text!decodeDdFd(op) = Z80Text!WholeIndex(op)
    BY <1>1, <1>3 DEF Z80Text!decodeDdFd, Z80Text!IsWholeIndex, Z80Text!WholeIndex
  <2>2. QED
    BY <1>3, <2>1 DEF Z80Text!CpuIndexed, Same
<1>4. CASE ~Z80Text!IsDisplaced(op) /\ ~Z80Text!IsWholeIndex(op) /\ Z80Text!IsHalfIndex(op)
  <2>1. Z80Text!decodeDdFd(op) = Z80Text!HalfIndex(op)
    BY <1>1, <1>4
    DEF Z80Text!decodeDdFd, Z80Text!IsHalfIndex, Z80Text!HalfIndex, Z80Text!AluCase,
        Z80Text!k_alu_mnem
  <2>2. QED
    BY <1>4, <2>1 DEF Z80Text!CpuIndexed, Same
<1>5. CASE ~(Z80Text!IsDisplaced(op) \/ Z80Text!IsWholeIndex(op) \/ Z80Text!IsHalfIndex(op))
  <2>1. Z80Text!decodeDdFd(op) = Z80Text!I("DB", 0)
    <3>1. CASE Z80Text!X(op) = 0
      BY <1>1, <1>5, <3>1
      DEF Z80Text!decodeDdFd, Z80Text!IsHalfIndex, Z80Text!IsWholeIndex, Z80Text!IsDisplaced
    <3>2. CASE Z80Text!X(op) = 1
      <4>1. op \in 64 .. 127
        BY <1>1, <3>2
      <4>2. CASE op = 118
        <5>1. Z80Text!Y(op) = 6 /\ Z80Text!Z(op) = 6
          BY <1>1, <3>2, <4>2
        <5>2. QED
          BY <3>2, <4>1, <4>2, <5>1 DEF Z80Text!decodeDdFd
      <4>3. CASE op # 118
        <5>1. Z80Text!Y(op) # 6 /\ Z80Text!Z(op) # 6
          BY <1>5, <3>2, <4>3 DEF Z80Text!IsDisplaced
        <5>2. {4, 5} \cap {Z80Text!Y(op), Z80Text!Z(op)} = {}
          BY <1>5, <3>2, <5>1 DEF Z80Text!IsHalfIndex
        <5>3. Z80Text!Y(op) \notin {4, 5, 6} /\ Z80Text!Z(op) \notin {4, 5, 6}
          BY <5>1, <5>2
        <5>4. QED
          BY <1>1, <3>2, <4>1, <4>3, <5>3 DEF Z80Text!decodeDdFd
      <4>4. QED
        BY <4>2, <4>3
    <3>3. CASE Z80Text!X(op) = 2
      BY <1>1, <1>5, <3>3
      DEF Z80Text!decodeDdFd, Z80Text!IsHalfIndex, Z80Text!IsWholeIndex, Z80Text!IsDisplaced
    <3>4. CASE Z80Text!X(op) = 3
      BY <1>1, <1>5, <3>4
      DEF Z80Text!decodeDdFd, Z80Text!IsHalfIndex, Z80Text!IsWholeIndex, Z80Text!IsDisplaced
    <3>5. QED
      BY <1>1, <3>1, <3>2, <3>3, <3>4
  <2>2. Z80Text!CpuIndexed(op) = Z80Text!Ineffective
    BY <1>5 DEF Z80Text!CpuIndexed
  <2>3. QED
    BY <2>1, <2>2 DEF OutOfStep
<1>6. QED
  BY <1>2, <1>3, <1>4, <1>5

\* Opcodes without a prefix.
LEMMA PlainLines == 
  ASSUME NEW op \in 0 .. 255, op \notin Z80Text!Prefixes, op # 249
  PROVE  Z80Text!CpuPlain(op) = Z80Text!decodePlain(op)
<1> USE DEF Z80Text!Q
<1>1. /\ Z80Text!X(op) \in 0 .. 3 /\ Z80Text!Y(op) \in 0 .. 7 /\ Z80Text!Z(op) \in 0 .. 7
      /\ op = 64 * Z80Text!X(op) + 8 * Z80Text!Y(op) + Z80Text!Z(op)
  BY Split
<1>2. CASE Z80Text!IsFlow(op)
  <2>1. Z80Text!CpuPlain(op) = Z80Text!CpuFlow(op)
    BY <1>2 DEF Z80Text!CpuPlain
  <2>2. Z80Text!decodePlain(op) = Z80Text!PlainFlow(op)
    BY <1>1, <1>2 DEF Z80Text!IsFlow, Z80Text!decodePlain
  <2>3. Z80Text!CpuFlow(op) = Z80Text!PlainFlow(op)
    BY <1>1, <1>2 DEF Z80Text!IsFlow, Z80Text!CpuFlow, Z80Text!PlainFlow
  <2>4. QED
    BY <2>1, <2>2, <2>3
<1>3. CASE ~Z80Text!IsFlow(op) /\ Z80Text!IsMisc(op)
  <2>1. Z80Text!CpuPlain(op) = Z80Text!CpuMisc(op)
    BY <1>3 DEF Z80Text!CpuPlain
  <2>2. CASE Z80Text!X(op) = 3
    <3>1. Z80Text!decodePlain(op) = Z80Text!PlainFlow(op)
      BY <2>2 DEF Z80Text!decodePlain
    <3>2. Z80Text!CpuMisc(op) = Z80Text!PlainFlow(op)
      BY <1>1, <1>3, <2>2 DEF Z80Text!IsFlow, Z80Text!IsMisc, Z80Text!CpuMisc, Z80Text!PlainFlow
    <3>3. QED
      BY <2>1, <3>1, <3>2
  <2>3. CASE Z80Text!X(op) # 3
    <3>1. Z80Text!decodePlain(op) = Z80Text!PlainLow(op)
      BY <1>1, <1>3, <2>3 DEF Z80Text!IsFlow, Z80Text!IsMisc, Z80Text!decodePlain
    <3>2. Z80Text!CpuMisc(op) = Z80Text!PlainLow(op)
      BY <1>1, <1>3, <2>3 DEF Z80Text!IsFlow, Z80Text!IsMisc, Z80Text!CpuMisc, Z80Text!PlainLow
    <3>3. QED
      BY <2>1, <3>1, <3>2
  <2>4. QED
    BY <2>2, <2>3
<1>4. CASE ~Z80Text!IsFlow(op) /\ ~Z80Text!IsMisc(op) /\ Z80Text!X(op) = 0
  <2>1. Z80Text!CpuPlain(op) = Z80Text!CpuLoads(op)
    BY <1>4 DEF Z80Text!CpuPlain
  <2>2. Z80Text!decodePlain(op) = Z80Text!PlainLow(op)
    BY <1>1, <1>4 DEF Z80Text!IsFlow, Z80Text!IsMisc, Z80Text!decodePlain
  <2>3. Z80Text!CpuLoads(op) = Z80Text!PlainLow(op)
    BY <1>1, <1>4 DEF Z80Text!IsFlow, Z80Text!IsMisc, Z80Text!CpuLoads, Z80Text!PlainLow
  <2>4. QED
    BY <2>1, <2>2, <2>3
<1>5. CASE ~Z80Text!IsFlow(op) /\ ~Z80Text!IsMisc(op) /\ Z80Text!X(op) # 0
  <2>1. Z80Text!CpuPlain(op) = Z80Text!CpuAlu(op)
    BY <1>5 DEF Z80Text!CpuPlain
  <2>2. CASE Z80Text!X(op) = 3
    <3>1. Z80Text!decodePlain(op) = Z80Text!PlainFlow(op)
      BY <2>2 DEF Z80Text!decodePlain
    <3>2. Z80Text!Z(op) = 6
      BY <1>1, <1>5, <2>2 DEF Z80Text!IsFlow, Z80Text!IsMisc, Z80Text!Prefixes
    <3>3. Z80Text!CpuAlu(op) = Z80Text!PlainFlow(op)
      BY <1>1, <2>2, <3>2 DEF Z80Text!CpuAlu, Z80Text!PlainFlow, Z80Text!AluCase, Z80Text!k_alu_mnem
    <3>4. QED
      BY <2>1, <3>1, <3>3
  <2>3. CASE Z80Text!X(op) # 3
    <3>1. Z80Text!decodePlain(op) = Z80Text!PlainLow(op)
      BY <1>1, <1>5, <2>3 DEF Z80Text!decodePlain
    <3>2. Z80Text!CpuAlu(op) = Z80Text!PlainLow(op)
      BY <1>1, <1>5, <2>3 DEF Z80Text!CpuAlu, Z80Text!PlainLow, Z80Text!AluCase, Z80Text!k_alu_mnem
    <3>3. QED
      BY <2>1, <3>1, <3>2
  <2>4. QED
    BY <2>2, <2>3
<1>6. QED
  BY <1>2, <1>3, <1>4, <1>5

\* ED: the listing tells RETI from RETN, of which the core makes no difference.
LEMMA EdLines ==
  ASSUME NEW op \in 0 .. 255
  PROVE  Same(Z80Text!CpuEd(op), Z80Text!decodeEd(op))
<1> USE DEF Z80Text!Q
<1>1. /\ Z80Text!X(op) \in 0 .. 3 /\ Z80Text!Y(op) \in 0 .. 7 /\ Z80Text!Z(op) \in 0 .. 7
      /\ op = 64 * Z80Text!X(op) + 8 * Z80Text!Y(op) + Z80Text!Z(op)
  BY Split
<1>2. CASE Z80Text!X(op) = 1 /\ op # 77
  <2>1. Z80Text!CpuEd(op) = Z80Text!CpuEdMisc(op)
    BY <1>2 DEF Z80Text!CpuEd
  <2>2. Z80Text!CpuEdMisc(op) = Z80Text!decodeEd(op)
    BY <1>1, <1>2 DEF Z80Text!CpuEdMisc, Z80Text!decodeEd, Z80Text!BlockOpcodes
  <2>3. QED
    BY <2>1, <2>2 DEF Same
<1>3. CASE op = 77
  <2>0. Z80Text!X(op) = 1 /\ Z80Text!Y(op) = 1 /\ Z80Text!Z(op) = 5
    BY <1>1, <1>3
  <2>1. Z80Text!CpuEd(op) = Z80Text!I("RETN", 0)
    BY <1>3, <2>0 DEF Z80Text!CpuEd, Z80Text!CpuEdMisc
  <2>2. Z80Text!decodeEd(op) = Z80Text!I("RETI", 0)
    BY <1>1, <1>3, <2>0 DEF Z80Text!decodeEd, Z80Text!BlockOpcodes, Z80Text!I
  <2>3. QED
    BY <2>1, <2>2 DEF Same, Z80Text!I
<1>4. CASE op \in Z80Text!BlockOpcodes
  <2>1. Z80Text!CpuEd(op) = Z80Text!CpuEdBlock(op)
    BY <1>1, <1>4 DEF Z80Text!CpuEd, Z80Text!BlockOpcodes
  <2>2. Z80Text!decodeEd(op) = Z80Text!I(Z80Text!BlockMnemonic(op), 0)
    BY <1>1, <1>4 DEF Z80Text!decodeEd, Z80Text!BlockOpcodes
  <2>3. Z80Text!CpuEdBlock(op) = Z80Text!I(Z80Text!BlockMnemonic(op), 0)
    BY <1>1, <1>4 DEF Z80Text!CpuEdBlock, Z80Text!BlockMnemonic, Z80Text!BlockOpcodes
  <2>4. QED
    BY <2>1, <2>2, <2>3 DEF Same
<1>5. CASE Z80Text!X(op) # 1 /\ op \notin Z80Text!BlockOpcodes
  <2>1. Z80Text!CpuEd(op) = Z80Text!I("NOP", 0)
    BY <1>1, <1>5 DEF Z80Text!CpuEd, Z80Text!BlockOpcodes
  <2>2. Z80Text!decodeEd(op) = Z80Text!I("NOP", 0)
    BY <1>1, <1>5 DEF Z80Text!decodeEd, Z80Text!BlockOpcodes
  <2>3. QED
    BY <2>1, <2>2 DEF Same
<1>6. QED
  BY <1>2, <1>3, <1>4, <1>5

\* The em8's opcodes, with the operand bytes of their addressing mode.
Bytes(op) == IF op \in Em8Text!raw3 THEN 2 ELSE IF op \in Em8Text!raw2 THEN 1 ELSE 0
Matches(e, op) ==
  /\ e = Em8Text!I(e.does, e.n) /\ e.n = Bytes(op)
  /\ e.does = Em8Text!Disassemble(op) \/ (e.does = "halt" /\ Em8Text!Disassemble(op) = "???")

LEMMA Em8Lines ==
  ASSUME NEW op \in (0 .. 255) \ {153}
  PROVE  Same(Em8Text!Em8Executes(op), Em8Text!Em8Lists(op))
<1>1. ASSUME op < 64 PROVE Matches(Em8Text!Em8Executes(op), op)
  <2>1. Em8Text!Em8Executes(op) = Em8Text!ExecuteArithmetic(op)
    BY <1>1 DEF Em8Text!Em8Executes
  <2>2. LET e == Em8Text!ExecuteArithmetic(op) IN e = Em8Text!I(e.does, e.n)
    BY DEF Em8Text!ExecuteArithmetic, Em8Text!Addressed, Em8Text!Undefined, Em8Text!I
  <2>3. Em8Text!ExecuteArithmetic(op).n = Bytes(op)
    BY <1>1
    DEF Em8Text!ExecuteArithmetic, Em8Text!Addressed, Em8Text!Undefined, Em8Text!I, Bytes,
        Em8Text!raw2, Em8Text!raw3
  <2>4. LET e == Em8Text!ExecuteArithmetic(op) IN
        e.does = Em8Text!Disassemble(op) \/ (e.does = "halt" /\ Em8Text!Disassemble(op) = "???")
    BY <1>1
    DEF Em8Text!ExecuteArithmetic, Em8Text!Addressed, Em8Text!Undefined, Em8Text!I,
        Em8Text!Disassemble
  <2>5. QED
    BY <2>1, <2>2, <2>3, <2>4 DEF Matches
<1>2. ASSUME op \in 64 .. 79 PROVE Matches(Em8Text!Em8Executes(op), op)
  <2>1. Em8Text!Em8Executes(op) = Em8Text!ExecuteImplied(op)
    BY <1>2 DEF Em8Text!Em8Executes
  <2>2. LET e == Em8Text!ExecuteImplied(op) IN e = Em8Text!I(e.does, e.n)
    BY DEF Em8Text!ExecuteImplied, Em8Text!Undefined, Em8Text!I
  <2>3. Em8Text!ExecuteImplied(op).n = Bytes(op)
    BY <1>2
    DEF Em8Text!ExecuteImplied, Em8Text!Undefined, Em8Text!I, Bytes,
        Em8Text!raw2, Em8Text!raw3
  <2>4. LET e == Em8Text!ExecuteImplied(op) IN
        e.does = Em8Text!Disassemble(op) \/ (e.does = "halt" /\ Em8Text!Disassemble(op) = "???")
    BY <1>2
    DEF Em8Text!ExecuteImplied, Em8Text!Undefined, Em8Text!I,
        Em8Text!Disassemble
  <2>5. QED
    BY <2>1, <2>2, <2>3, <2>4 DEF Matches
<1>3. ASSUME op \in 80 .. 111 PROVE Matches(Em8Text!Em8Executes(op), op)
  <2>1. Em8Text!Em8Executes(op) = Em8Text!ExecuteControl(op)
    BY <1>3 DEF Em8Text!Em8Executes
  <2>2. LET e == Em8Text!ExecuteControl(op) IN e = Em8Text!I(e.does, e.n)
    BY DEF Em8Text!ExecuteControl, Em8Text!Branches, Em8Text!Undefined, Em8Text!I
  <2>3. Em8Text!ExecuteControl(op).n = Bytes(op)
    BY <1>3
    DEF Em8Text!ExecuteControl, Em8Text!Branches, Em8Text!Undefined, Em8Text!I, Bytes,
        Em8Text!raw2, Em8Text!raw3
  <2>4. LET e == Em8Text!ExecuteControl(op) IN
        e.does = Em8Text!Disassemble(op) \/ (e.does = "halt" /\ Em8Text!Disassemble(op) = "???")
    BY <1>3
    DEF Em8Text!ExecuteControl, Em8Text!Branches, Em8Text!Undefined, Em8Text!I,
        Em8Text!Disassemble
  <2>5. QED
    BY <2>1, <2>2, <2>3, <2>4 DEF Matches
<1>4. ASSUME op \in 112 .. 159 PROVE Matches(Em8Text!Em8Executes(op), op)
  <2>1. Em8Text!Em8Executes(op) = Em8Text!ExecuteRegisters(op)
    BY <1>4 DEF Em8Text!Em8Executes
  <2>2. LET e == Em8Text!ExecuteRegisters(op) IN e = Em8Text!I(e.does, e.n)
    BY DEF Em8Text!ExecuteRegisters, Em8Text!Undefined, Em8Text!I
  <2>3. Em8Text!ExecuteRegisters(op).n = Bytes(op)
    BY <1>4
    DEF Em8Text!ExecuteRegisters, Em8Text!Undefined, Em8Text!I, Bytes,
        Em8Text!raw2, Em8Text!raw3
  <2>4. LET e == Em8Text!ExecuteRegisters(op) IN
        e.does = Em8Text!Disassemble(op) \/ (e.does = "halt" /\ Em8Text!Disassemble(op) = "???")
    BY <1>4
    DEF Em8Text!ExecuteRegisters, Em8Text!Undefined, Em8Text!I,
        Em8Text!Disassemble
  <2>5. QED
    BY <2>1, <2>2, <2>3, <2>4 DEF Matches
<1>5. ASSUME op \in 160 .. 171 PROVE Matches(Em8Text!Em8Executes(op), op)
  <2>1. Em8Text!Em8Executes(op) = Em8Text!ExecuteLoads(op)
    BY <1>5 DEF Em8Text!Em8Executes
  <2>2. LET e == Em8Text!ExecuteLoads(op) IN e = Em8Text!I(e.does, e.n)
    BY DEF Em8Text!ExecuteLoads, Em8Text!Addressed, Em8Text!Undefined, Em8Text!I
  <2>3. Em8Text!ExecuteLoads(op).n = Bytes(op)
    BY <1>5
    DEF Em8Text!ExecuteLoads, Em8Text!Addressed, Em8Text!Undefined, Em8Text!I, Bytes,
        Em8Text!raw2, Em8Text!raw3
  <2>4. LET e == Em8Text!ExecuteLoads(op) IN
        e.does = Em8Text!Disassemble(op) \/ (e.does = "halt" /\ Em8Text!Disassemble(op) = "???")
    BY <1>5
    DEF Em8Text!ExecuteLoads, Em8Text!Addressed, Em8Text!Undefined, Em8Text!I,
        Em8Text!Disassemble
  <2>5. QED
    BY <2>1, <2>2, <2>3, <2>4 DEF Matches
<1>6. ASSUME op > 171 PROVE Matches(Em8Text!Em8Executes(op), op)
  <2>1. Em8Text!Em8Executes(op) = Em8Text!ExecuteStores(op)
    BY <1>6 DEF Em8Text!Em8Executes
  <2>2. LET e == Em8Text!ExecuteStores(op) IN e = Em8Text!I(e.does, e.n)
    BY DEF Em8Text!ExecuteStores, Em8Text!Addressed, Em8Text!Undefined, Em8Text!I
  <2>3. Em8Text!ExecuteStores(op).n = Bytes(op)
    BY <1>6
    DEF Em8Text!ExecuteStores, Em8Text!Addressed, Em8Text!Undefined, Em8Text!I, Bytes,
        Em8Text!raw2, Em8Text!raw3
  <2>4. LET e == Em8Text!ExecuteStores(op) IN
        e.does = Em8Text!Disassemble(op) \/ (e.does = "halt" /\ Em8Text!Disassemble(op) = "???")
    BY <1>6
    DEF Em8Text!ExecuteStores, Em8Text!Addressed, Em8Text!Undefined, Em8Text!I,
        Em8Text!Disassemble
  <2>5. QED
    BY <2>1, <2>2, <2>3, <2>4 DEF Matches
<1>7. Matches(Em8Text!Em8Executes(op), op)
  BY <1>1, <1>2, <1>3, <1>4, <1>5, <1>6
<1>8. QED
  BY <1>7 DEF Matches, Bytes, Same, Em8Text!Em8Lists, Em8Text!I

\* The Z8000's words, which the core tries in two rounds.
IsListed(hi, d1, d2) ==
  /\ hi \in 0 .. 255 /\ d1 \in 0 .. 15 /\ d2 \in 0 .. 15
  /\ hi \in {95, 30} => d1 # 0 \/ (hi = 95 /\ d2 = 0)
  /\ hi \in {112, 113, 120, 121} => d1 = 0
  /\ hi \in {58, 59} => d2 \in {4, 6}

LEMMA Z8000Words ==
  ASSUME NEW hi, NEW d1, NEW d2, IsListed(hi, d1, d2)
  PROVE  Same(Z8KText!Z8000Executes(hi, d1, d2), Z8KText!Z8000Lists(hi, d1, d2))
<1> USE DEF Z8KText!Ins, Z8KText!Trap, IsListed
<1>1. CASE hi \in 128 .. 139
  BY <1>1
  DEF Same, Z8KText!Z8000Executes, Z8KText!Z8000Lists, Z8KText!CpuFirst,
      Z8KText!FirstDispatch, Z8KText!RegReg, Z8KText!rr_table
<1>2. CASE hi \in Z8KText!FirstDispatch /\ hi \notin 128 .. 139 /\ hi \notin 58 .. 63
  <2>1. /\ Z8KText!Z8000Executes(hi, d1, d2) = Z8KText!ListLoads(hi, d1)
        /\ Z8KText!ListLoads(hi, d1).does # "DW"
    BY <1>2 DEF Z8KText!Z8000Executes, Z8KText!CpuFirst, Z8KText!FirstDispatch, Z8KText!ListLoads
  <2>2. QED
    BY <1>2, <2>1 DEF Z8KText!Z8000Lists, Same
<1>3. CASE hi \in 58 .. 63
  <2>1. Z8KText!ListLoads(hi, d1).does = "DW" /\ Z8KText!ListJumps(hi, d1, d2).does = "DW"
    BY <1>3 DEF Z8KText!ListLoads, Z8KText!ListJumps
  <2>2. Z8KText!CpuIo(hi, d2) = Z8KText!ListControl(hi, d1, d2)
    BY <1>3 DEF Z8KText!CpuIo, Z8KText!ListControl
  <2>3. Z8KText!Z8000Executes(hi, d1, d2) = Z8KText!CpuIo(hi, d2)
    BY <1>3 DEF Z8KText!Z8000Executes, Z8KText!CpuFirst, Z8KText!FirstDispatch
  <2>4. QED
    BY <1>3, <2>1, <2>2, <2>3 DEF Z8KText!Z8000Lists, Same
<1>4. CASE hi \notin Z8KText!FirstDispatch
  <2>1. Z8KText!Z8000Executes(hi, d1, d2) = Z8KText!CpuSecond(hi, d1, d2)
    BY <1>4 DEF Z8KText!Z8000Executes
  <2>2. CASE hi \div 16 = 12
    BY <1>4, <2>1, <2>2 DEF Same, Z8KText!CpuSecond, Z8KText!Z8000Lists, Z8KText!ListLoads
  <2>3. CASE hi \div 16 \in {13, 14} \/ hi \in {94, 95, 30, 158}
    BY <1>4, <2>1, <2>3
    DEF Same, Z8KText!CpuSecond, Z8KText!Z8000Lists, Z8KText!ListLoads, Z8KText!ListJumps,
        Z8KText!FirstDispatch
  <2>4. CASE ~(hi \div 16 \in {12, 13, 14} \/ hi \in {94, 95, 30, 158})
    BY <1>4, <2>1, <2>4
    DEF Same, Z8KText!CpuSecond, Z8KText!Z8000Lists, Z8KText!ListLoads, Z8KText!ListJumps,
        Z8KText!ListControl, Z8KText!FirstDispatch
  <2>5. QED
    BY <2>2, <2>3, <2>4
<1>5. QED
  BY <1>1, <1>2, <1>3, <1>4 DEF Z8KText!FirstDispatch

\* The table of an opcode.
LEMMA Z80LinesMatch ==
  ASSUME NEW l \in Z80Lines
  PROVE  \/ Same(Z80Text!Executes(l[1], l[2]), Z80Text!Lists(l[1], l[2]))
         \/ OutOfStep(Z80Text!Executes(l[1], l[2]), Z80Text!Lists(l[1], l[2]))
<1>1. \/ l[1] = "plain" /\ l[2] \in (0 .. 255) \ (Z80Text!Prefixes \cup {249})
      \/ l[1] \in {"CB", "DDCB", "ED"} /\ l[2] \in 0 .. 255
      \/ l[1] = "DD" /\ l[2] \in (0 .. 255) \ {203}
  BY DEF Z80Lines
<1>2. CASE l[1] = "plain"
  <2>1. Same(Z80Text!CpuPlain(l[2]), Z80Text!decodePlain(l[2]))
    BY <1>1, <1>2, PlainLines DEF Same
  <2>2. QED
    BY <1>2, <2>1 DEF Z80Text!Executes, Z80Text!Lists
<1>3. CASE l[1] \in {"CB", "DDCB"}
  BY <1>1, <1>3, CbLines
<1>4. CASE l[1] = "ED"
  <2>1. Same(Z80Text!CpuEd(l[2]), Z80Text!decodeEd(l[2]))
    BY <1>1, <1>4, EdLines
  <2>2. QED
    BY <1>4, <2>1 DEF Z80Text!Executes, Z80Text!Lists
<1>5. CASE l[1] = "DD"
  <2>1. \/ Same(Z80Text!CpuIndexed(l[2]), Z80Text!decodeDdFd(l[2]))
        \/ OutOfStep(Z80Text!CpuIndexed(l[2]), Z80Text!decodeDdFd(l[2]))
    BY <1>1, <1>5, DdLines
  <2>2. QED
    BY <1>5, <2>1 DEF Z80Text!Executes, Z80Text!Lists
<1>6. QED
  BY <1>1, <1>2, <1>3, <1>4, <1>5

\* The plugin's table of calls has those of the core, with their length, and no other.
Calls == {"CALL", "CALLcc", "RST"}
LEMMA PlainSkips ==
  ASSUME NEW op \in 0 .. 255, op \notin Z80Text!Prefixes, op # 249
  PROVE  Z80Text!CallOpcodeLen(op) = CallBytes(Z80Text!CpuPlain(op), Calls, 1)
<1> USE DEF Z80Text!Q
<1>1. /\ Z80Text!X(op) \in 0 .. 3 /\ Z80Text!Y(op) \in 0 .. 7 /\ Z80Text!Z(op) \in 0 .. 7
      /\ op = 64 * Z80Text!X(op) + 8 * Z80Text!Y(op) + Z80Text!Z(op)
  BY Split
<1>2. CASE Z80Text!IsFlow(op)
  <2>1. Z80Text!CpuPlain(op) = Z80Text!CpuFlow(op)
    BY <1>2 DEF Z80Text!CpuPlain
  <2>2. Z80Text!CallOpcodeLen(op) = CallBytes(Z80Text!CpuFlow(op), Calls, 1)
    BY <1>1, <1>2
    DEF Z80Text!IsFlow, Z80Text!CpuFlow, Z80Text!CallOpcodeLen, CallBytes, Calls, Z80Text!I
  <2>3. QED
    BY <2>1, <2>2
<1>3. CASE ~Z80Text!IsFlow(op)
  <2>1. Z80Text!CallOpcodeLen(op) = 0
    BY <1>1, <1>3 DEF Z80Text!IsFlow, Z80Text!CallOpcodeLen
  <2>2. Z80Text!decodePlain(op).does \notin Calls
    BY <1>1, <1>3
    DEF Z80Text!IsFlow, Z80Text!decodePlain, Z80Text!PlainFlow, Z80Text!PlainLow,
        Z80Text!k_alu_mnem, Z80Text!I, Calls
  <2>3. QED
    BY <2>1, <2>2, PlainLines DEF CallBytes
<1>4. QED
  BY <1>2, <1>3

\* Behind a prefix there is no call.
LEMMA Z80Skips ==
  ASSUME NEW l \in Z80Lines
  PROVE  Z80Text!Z80StepsOver(l[1], l[2])
           = CallBytes(Z80Text!Executes(l[1], l[2]), {"CALL", "CALLcc", "RST"}, 1)
<1> DEFINE e == Z80Text!Executes(l[1], l[2])
<1>1. \/ l[1] = "plain" /\ l[2] \in (0 .. 255) \ (Z80Text!Prefixes \cup {249})
      \/ l[1] \in {"CB", "DDCB", "ED", "DD"} /\ l[2] \in 0 .. 255
  BY DEF Z80Lines
<1>2. CASE l[1] = "plain"
  <2>1. Z80Text!CallOpcodeLen(l[2]) = CallBytes(Z80Text!CpuPlain(l[2]), Calls, 1)
    BY <1>1, <1>2, PlainSkips
  <2>2. QED
    BY <1>2, <2>1 DEF Z80Text!Executes, Z80Text!Z80StepsOver, Calls
<1>3. CASE l[1] \in {"CB", "DDCB", "ED", "DD"}
  <2>1. Z80Text!Z80StepsOver(l[1], l[2]) = 0
    <3>1. /\ Z80Text!CallOpcodeLen(203) = 0 /\ Z80Text!CallOpcodeLen(221) = 0
          /\ Z80Text!CallOpcodeLen(237) = 0
      BY DEF Z80Text!CallOpcodeLen, Z80Text!X, Z80Text!Z
    <3>2. QED
      BY <1>3, <3>1 DEF Z80Text!Z80StepsOver
  <2>2. Z80Text!Lists(l[1], l[2]).does \notin Calls
    <3>1. \A name, n : Z80Text!I(name, n).does = name
      BY DEF Z80Text!I
    <3>2. ASSUME NEW y \in 0 .. 7
          PROVE  Z80Text!k_rot_mnem[y + 1] \notin Calls /\ Z80Text!k_alu_mnem[y + 1] \notin Calls
      <4>1. y \in {0, 1, 2, 3, 4, 5, 6, 7}
        OBVIOUS
      <4>2. QED
        BY <4>1 DEF Z80Text!k_rot_mnem, Z80Text!k_alu_mnem, Calls
    <3>3. CASE l[1] \in {"CB", "DDCB"}
      <4>1. Z80Text!X(l[2]) \in 0 .. 3 /\ Z80Text!Y(l[2]) \in 0 .. 7
        BY <1>1, <3>3, Split
      <4>2. Z80Text!decodeCb(l[2]).does \notin Calls
        BY <3>1, <3>2, <4>1 DEF Z80Text!decodeCb, Calls
      <4>3. [Z80Text!decodeCb(l[2]) EXCEPT !.n = 2].does = Z80Text!decodeCb(l[2]).does
        BY DEF Z80Text!decodeCb, Z80Text!I
      <4>4. QED
        BY <3>3, <4>2, <4>3 DEF Z80Text!Lists
    <3>4. CASE l[1] = "ED"
      <4>1. l[2] \in Z80Text!BlockOpcodes => Z80Text!BlockMnemonic(l[2]) \notin Calls
        BY DEF Z80Text!BlockOpcodes, Z80Text!BlockMnemonic, Calls
      <4>2. Z80Text!decodeEd(l[2]).does \notin Calls
        BY <3>1, <4>1 DEF Z80Text!decodeEd, Calls
      <4>3. QED
        BY <3>4, <4>2 DEF Z80Text!Lists
    <3>5. CASE l[1] = "DD"
      <4>1. Z80Text!Y(l[2]) \in 0 .. 7
        BY <1>1, <3>5, Split
      <4>2. Z80Text!decodeDdFd(l[2]).does \notin Calls
        BY <3>1, <3>2, <4>1 DEF Z80Text!decodeDdFd, Calls
      <4>3. QED
        BY <3>5, <4>2 DEF Z80Text!Lists
    <3>6. QED
      BY <1>3, <3>3, <3>4, <3>5
  <2>3. e.does \notin Calls
    <3> HIDE DEF e
    <3>1. Same(e, Z80Text!Lists(l[1], l[2])) \/ OutOfStep(e, Z80Text!Lists(l[1], l[2]))
      BY Z80LinesMatch DEF e
    <3>2. QED
      BY <2>2, <3>1 DEF Same, OutOfStep, Z80Text!Ineffective, Z80Text!I, Calls
  <2>4. QED
    BY <2>1, <2>3 DEF CallBytes, Calls
<1>4. QED
  BY <1>1, <1>2, <1>3

\* Only the listing writes a line.
LEMMA ArithmeticIsNoLine == Arithmetic => last'[1] # "line"
<1>1. \A a, b, F : /\ Z80Add(a, b, F) => last'[1] = "sum"
                   /\ Z80Sub(a, b, F) => last'[1] = "difference"
                   /\ Em8Add(a, b, F) => last'[1] = "sum"
                   /\ Em8Sub(a, b, F) => last'[1] = "difference"
  BY DEF Z80Add, Z80Sub, Em8Add, Em8Sub
<1>2. \A a, b, F : /\ Z80Step(a, F) => last'[1] = "step"
                   /\ Z80Wide(a, b, F) => last'[1] = "wide"
                   /\ Z80Pair(a, b, F) => last'[1] = "pair"
                   /\ Z80Decimal(a, b, F) => last'[1] = "decimal"
  BY DEF Z80Step, Z80Wide, Z80Pair, Z80Decimal
<1>3. \A a, F : Z80Rotate(a, F) \/ Em8Rotate(a, F) => last'[1] = "rotate"
  BY DEF Z80Rotate, Em8Rotate
<1>4. QED
  BY <1>1, <1>2, <1>3 DEF Arithmetic

LEMMA WordsAreNoLine == Words => last'[1] # "line"
<1>1. \A w, a, b : /\ Z8000Add(w, a, b) => last'[1] = "sum"
                   /\ Z8000Sub(w, a, b) => last'[1] = "difference"
                   /\ Z8000Compare(w, a, b) => last'[1] = "order"
  BY DEF Z8000Add, Z8000Sub, Z8000Compare
<1>2. \A a, b : /\ Z80Compare(a, b) => last'[1] = "cp"
                /\ Em8Compare(a, b) => last'[1] = "cmp"
                /\ Z80Digits(a, b) => last'[1] = "digits"
                /\ Logic(a, b) => last'[1] = "logic"
  BY DEF Z80Compare, Em8Compare, Z80Digits, Logic
<1>3. QED
  BY <1>1, <1>2 DEF Words

LEMMA ListingLists == Listing => ListedIsExecuted'
<1>1. ASSUME NEW x, NEW y, NEW k, last' = <<"line", x, y, k, k>>, Same(x, y) \/ OutOfStep(x, y)
      PROVE  ListedIsExecuted'
  BY <1>1 DEF ListedIsExecuted, Same, OutOfStep
<1>2. ASSUME NEW l \in Z80Lines, Z80Line(l[1], l[2]) PROVE ListedIsExecuted'
  BY <1>1, <1>2, Z80LinesMatch, Z80Skips DEF Z80Line
<1>3. ASSUME NEW op \in (0 .. 255) \ {153}, Em8Line(op) PROVE ListedIsExecuted'
  <2>1. Same(Em8Text!Em8Executes(op), Em8Text!Em8Lists(op))
    BY Em8Lines
  <2>2. Em8Text!Em8StepsOver(op) = CallBytes(Em8Text!Em8Executes(op), {"JSR"}, 1)
    BY <2>1 DEF Same, CallBytes, Em8Text!Em8StepsOver
  <2>3. QED
    BY <1>1, <1>3, <2>1, <2>2 DEF Em8Line
<1>4. ASSUME NEW l \in Z8000Lines, Z8000Line(l[1], l[2], l[3]) PROVE ListedIsExecuted'
  <2> DEFINE e == Z8KText!Z8000Executes(l[1], l[2], l[3])
  <2>1. IsListed(l[1], l[2], l[3])
    BY DEF Z8000Lines, IsListed
  <2>2. Same(e, Z8KText!Z8000Lists(l[1], l[2], l[3]))
    BY <2>1, Z8000Words
  <2>3. Z8KText!Z8000StepsOver(l[1], l[2], l[3]) = CallBytes(e, {"CALL", "CALR"}, 2)
    <3> HIDE DEF e
    <3>1. QED
      BY <2>2 DEF Same, CallBytes, Z8KText!Z8000StepsOver
  <2>4. QED
    BY <1>1, <1>4, <2>2, <2>3 DEF Z8000Line
<1>5. QED
  BY <1>2, <1>3, <1>4 DEF Listing

\* The debugger lists the operation that the core executes, with the length that it
\* fetches, and a step-over skips just the calls with just their length, for the opcodes
\* of the three cores' manuals but F9 and BRK; a DD or FD without effect is the one line
\* longer than what the core fetches.  The opcodes are found by cases and not one by one
\* (Z80Disasm.cpp, Z8000Disasm.cpp, Em8Cpu::Disassemble and emfe_step_over).
THEOREM ListingIsTrue == Spec => []ListedIsExecuted
<1>1. Init => ListedIsExecuted
  BY DEF Init, ListedIsExecuted, Did
<1>2. ListedIsExecuted /\ [Next]_last => ListedIsExecuted'
  <2> SUFFICES ASSUME ListedIsExecuted, [Next]_last PROVE ListedIsExecuted'
    OBVIOUS
  <2>1. CASE Arithmetic
    BY <2>1, ArithmeticIsNoLine DEF ListedIsExecuted, Did
  <2>2. CASE Words
    BY <2>2, WordsAreNoLine DEF ListedIsExecuted, Did
  <2>3. CASE Listing
    BY <2>3, ListingLists
  <2>4. CASE Fetch
    BY <2>4 DEF Fetch, ListedIsExecuted, Did
  <2>5. CASE UNCHANGED last
    BY <2>5 DEF ListedIsExecuted, Did
  <2>6. QED
    BY <2>1, <2>2, <2>3, <2>4, <2>5 DEF Next, Execute
<1>3. QED
  BY <1>1, <1>2, PTL DEF Spec
=============================================================================
