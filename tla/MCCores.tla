------------------------------ MODULE MCCores ------------------------------
(***************************************************************************)
(* The three interpreters at work on the operands where their flags turn,  *)
(* and the listings of the same opcodes.  An action is one instruction, or *)
(* two that belong together; it leaves in `last` what the core computed,   *)
(* which the properties compare with arithmetic on the integers.           *)
(***************************************************************************)
EXTENDS Arith, Sequences, TLC

Z80 == INSTANCE Z80Alu
Em8 == INSTANCE Em8Alu
Z8K == INSTANCE Z8000Alu
Z80Text == INSTANCE Z80Disasm
Em8Text == INSTANCE Em8Decode
Z8KText == INSTANCE Z8000Decode

CONSTANTS
  Edge,      \* bytes around the carries of both digits and of the sign
  WideEdge,  \* the same for words
  Packed     \* packed decimal bytes

ASSUME CoresAssumption ==
  /\ Edge \subseteq 0 .. 255 /\ WideEdge \subseteq 0 .. (2^16 - 1)
  /\ Packed \subseteq {v \in 0 .. 255 : IsBcd(v)}

VARIABLE last

Flagged == {{}, {"C"}}
In(F) == Carry("C" \in F)

\* What an addition or a subtraction left: C as a carry or borrow, the signed
\* overflow, zero and sign.
Left(w, a, b, in, r, C, V, Z, S) ==
  [w |-> w, a |-> a, b |-> b, in |-> in, r |-> r, C |-> C, V |-> V, Z |-> Z, S |-> S]

OfZ80(a, b, in, o) ==
  Left(8, a, b, in, o.r, "C" \in o.f, "PV" \in o.f, "Z" \in o.f, "S" \in o.f)
OfZ8000(w, a, b, o) ==
  Left(w, a, b, 0, o.r, "C" \in o.f, "PV" \in o.f, "Z" \in o.f, "S" \in o.f)
OfEm8(a, b, in, o, C) ==
  Left(8, a, b, in, o.r, C, "V" \in o.f, "Z" \in o.f, "N" \in o.f)
-----------------------------------------------------------------------------
Init == last = <<"fetch">>

Z80Add(a, b, F) == last' = <<"sum", OfZ80(a, b, In(F), Z80!Alu("ADC", a, b, In(F)))>>
Z80Sub(a, b, F) == last' = <<"difference", OfZ80(a, b, In(F), Z80!Alu("SBC", a, b, In(F)))>>
Em8Add(a, b, F) ==
  LET o == Em8!DoAdd(a, b, F) IN last' = <<"sum", OfEm8(a, b, In(F), o, "C" \in o.f)>>

\* C is "no borrow" on the em8, on the way in and on the way out.
Em8Sub(a, b, F) ==
  LET o == Em8!DoSub(a, b, F)
  IN last' = <<"difference", OfEm8(a, b, 1 - In(F), o, "C" \notin o.f)>>
Z8000Add(w, a, b) == last' = <<"sum", OfZ8000(w, a, b, Z8K!DoAdd(a, b, 0, w))>>
Z8000Sub(w, a, b) == last' = <<"difference", OfZ8000(w, a, b, Z8K!DoSub(a, b, 0, w))>>

\* INC and DEC have the flags of ADD and SUB, but for the C they keep.
Z80Step(a, F) ==
  \/ last' = <<"step", Z80!Inc8(a, F), Z80!Alu("ADD", a, 1, 0), F>>
  \/ last' = <<"step", Z80!Dec8(a, F), Z80!Alu("SUB", a, 1, 0), F>>

\* A comparison and the conditions a branch after it would test.
Z80Compare(a, b) ==
  LET o == Z80!Alu("CP", a, b, 0) IN last' = <<"cp", a, b, o.r, Z80!CheckCond(o.f)>>
Em8Compare(a, b) == last' = <<"cmp", a, b, Em8!DoCmp(a, b, {})>>
Z8000Compare(w, a, b) ==
  last' = <<"order", Signed(a, w), Signed(b, w), a, b,
            Z8K!TestCondition(Z8K!DoSub(a, b, 0, w).f)>>

\* A word operation, and the two byte operations that compute the same.
Z80Wide(hl, d, F) ==
  \/ LET low == Z80!AluAdd(hl % 256, d % 256, In(F))
     IN last' = <<"wide", Z80!AdcHl16(hl, d, F), low,
                  Z80!AluAdd(hl \div 256, d \div 256, In(low.f))>>
  \/ LET low == Z80!AluSub(hl % 256, d % 256, In(F))
     IN last' = <<"wide", Z80!SbcHl16(hl, d, F), low,
                  Z80!AluSub(hl \div 256, d \div 256, In(low.f))>>

\* ADD HL,rr against ADC HL,rr without a carry: only H, C, Y and X are new.
Z80Pair(t, d, F) == last' = <<"pair", Z80!AddPair16(t, d, F), Z80!AdcHl16(t, d, {}), F>>

\* An operation on packed decimal and the adjustment after it.
Z80Decimal(a, b, F) ==
  \/ LET s == Z80!AluAdd(a, b, In(F))
     IN last' = <<"decimal", Decimal(a) + Decimal(b) + In(F), Z80!OpDaa(s.r, s.f)>>
  \/ LET s == Z80!AluSub(a, b, In(F))
     IN last' = <<"decimal", Decimal(a) - Decimal(b) - In(F), Z80!OpDaa(s.r, s.f)>>

\* A rotation to the left, the one that takes it back, and the one-byte form.
Z80Rotate(a, F) ==
  \/ LET l == Z80!RotRL(a, In(F))
     IN last' = <<"rotate", a, In(F), l, Z80!RotRR(l.r, In(l.f)), Z80!OpRla(a, F)>>
  \/ LET c == Z80!RotRLC(a)
     IN last' = <<"rotate", a, Z80!Low(c.r), c, Z80!RotRRC(c.r), Z80!OpRlca(a, F)>>
Z80Digits(a, m) ==
  LET l == Z80!Rld(a, m, {}) IN last' = <<"digits", a, m, Z80!Rrd(l.r, l.m, {})>>
Em8Rotate(a, F) ==
  LET l == Em8!Shift("ROL", a, F)
  IN last' = <<"rotate", a, In(F), l, Em8!Shift("ROR", l.r, l.f), l>>

Logic(a, b) ==
  \/ last' = <<"logic", a, b, Z80!AluAnd(a, b).r, Z80!AluOr(a, b).r, Z80!AluXor(a, b)>>
  \/ last' = <<"logic", a, b, Z8K!LogicOp("AND", a, b, 8, {}).r,
               Z8K!LogicOp("OR", a, b, 8, {}).r, Z8K!LogicOp("XOR", a, b, 8, {})>>

\* An opcode: what the core executes, what the debugger lists, the bytes a
\* step-over skips, and the bytes of the opcode and its operands if it is a call.
CallBytes(executed, calls, opcode) ==
  IF executed.does \in calls THEN opcode + executed.n ELSE 0
Z80Line(table, op) ==
  LET e == Z80Text!Executes(table, op)
  IN  last' = <<"line", e, Z80Text!Lists(table, op), Z80Text!Z80StepsOver(table, op),
                CallBytes(e, {"CALL", "CALLcc", "RST"}, 1)>>
Em8Line(op) ==
  LET e == Em8Text!Em8Executes(op)
  IN  last' = <<"line", e, Em8Text!Em8Lists(op), Em8Text!Em8StepsOver(op),
                CallBytes(e, {"JSR"}, 1)>>
Z8000Line(hi, d1, d2) ==
  LET e == Z8KText!Z8000Executes(hi, d1, d2)
  IN  last' = <<"line", e, Z8KText!Z8000Lists(hi, d1, d2), Z8KText!Z8000StepsOver(hi, d1, d2),
                CallBytes(e, {"CALL", "CALR"}, 2)>>
-----------------------------------------------------------------------------
\* A plain opcode is no prefix, the one after DD is not CB, and LD SP,HL (F9) is
\* listed as data.  BRK (153) of the em8 fetches a signature byte that is listed as
\* an instruction of its own.
Z80Lines == ({"plain"} \X ((0 .. 255) \ (Z80Text!Prefixes \cup {249})))
            \cup ({"CB", "DDCB", "ED"} \X (0 .. 255)) \cup ({"DD"} \X ((0 .. 255) \ {203}))

\* Words the manual lists: no pointer R0 in a jump or call, no index in a direct
\* load or store, and the two direct port instructions.
Z8000Lines ==
  {l \in (0 .. 255) \X (0 .. 15) \X (0 .. 15) :
     /\ l[1] \in {95, 30} => l[2] # 0 \/ (l[1] = 95 /\ l[3] = 0)
     /\ l[1] \in {112, 113, 120, 121} => l[2] = 0
     /\ l[1] \in {58, 59} => l[3] \in {4, 6}}

Arithmetic ==
  \E F \in Flagged :
    \/ \E a, b \in Edge : \/ Z80Add(a, b, F) \/ Z80Sub(a, b, F)
                          \/ Em8Add(a, b, F) \/ Em8Sub(a, b, F)
    \/ \E a \in Edge : Z80Step(a, F)
    \/ \E a, b \in WideEdge : Z80Wide(a, b, F) \/ Z80Pair(a, b, F)
    \/ \E a, b \in Packed : Z80Decimal(a, b, F)
    \/ \E a \in 0 .. 255 : Z80Rotate(a, F) \/ Em8Rotate(a, F)

Words ==
  \/ \E a, b \in Edge : \/ Z8000Add(8, a, b) \/ Z8000Sub(8, a, b) \/ Z80Compare(a, b)
                        \/ Em8Compare(a, b) \/ Z8000Compare(8, a, b)
                        \/ Z80Digits(a, b) \/ Logic(a, b)
  \/ \E a, b \in WideEdge : \/ Z8000Add(16, a, b) \/ Z8000Sub(16, a, b)
                            \/ Z8000Compare(16, a, b)

Listing ==
  \/ \E l \in Z80Lines : Z80Line(l[1], l[2])
  \/ \E op \in (0 .. 255) \ {153} : Em8Line(op)
  \/ \E l \in Z8000Lines : Z8000Line(l[1], l[2], l[3])

Execute == last = <<"fetch">> /\ (Arithmetic \/ Words \/ Listing)
Fetch == last # <<"fetch">> /\ last' = <<"fetch">>
Next == Execute \/ Fetch
Spec == Init /\ [][Next]_last
-----------------------------------------------------------------------------
Did(what) == last[1] = what
Exact(x, unsigned, signed) ==
  /\ x.r = Wrap(unsigned, x.w) /\ x.Z = (unsigned % 2^x.w = 0) /\ x.S = (Signed(x.r, x.w) < 0)
  /\ x.C = (unsigned \notin 0 .. (2^x.w - 1))
  /\ x.V = (signed \notin SignedRange(x.w))

(***************************************************************************)
(* Additions and subtractions of all three cores are exact: C says that    *)
(* the unsigned result did not fit, the overflow flag that the signed one  *)
(* did not, whatever borrow convention the core has (DoAdd, DoSub,         *)
(* AluAdd, AluSub, DoAddByte ... DoSubWord).                               *)
(***************************************************************************)
SumIsExact ==
  /\ Did("sum") => LET x == last[2] IN
       Exact(x, x.a + x.b + x.in, Signed(x.a, x.w) + Signed(x.b, x.w) + x.in)
  /\ Did("difference") => LET x == last[2] IN
       Exact(x, x.a - x.b - x.in, Signed(x.a, x.w) - Signed(x.b, x.w) - x.in)
  /\ Did("step") => /\ last[2].r = last[3].r
                    /\ last[2].f = (last[3].f \ {"C"}) \cup last[4]

(***************************************************************************)
(* A branch after a comparison goes the way the numbers are ordered: the   *)
(* condition codes of Z8000Cpu_TestCondition, the Z80's flags after AluCp, *)
(* which leaves A alone, and the em8's after DoCmp.                        *)
(***************************************************************************)
ComparisonOrders ==
  /\ Did("order") =>
       LET sa == last[2] sb == last[3] a == last[4] b == last[5] cc == last[6]
       IN /\ cc.LT = (sa < sb) /\ cc.LE = (sa <= sb) /\ cc.GT = (sa > sb) /\ cc.GE = (sa >= sb)
          /\ cc.ULT = (a < b) /\ cc.ULE = (a <= b) /\ cc.UGT = (a > b) /\ cc.UGE = (a >= b)
          /\ cc.EQ = (a = b) /\ cc.NE = (a # b)
  /\ Did("cp") =>
       LET a == last[2] b == last[3] cc == last[5]
       IN /\ last[4] = a /\ cc.C = (a < b) /\ cc.NC = (a >= b) /\ cc.Z = (a = b)
          /\ (cc.M # cc.PE) = (Signed(a, 8) < Signed(b, 8))
  /\ Did("cmp") => LET a == last[2] b == last[3] F == last[4]
                   IN ("C" \in F) = (a >= b) /\ ("Z" \in F) = (a = b)

(***************************************************************************)
(* A 16-bit operation of the Z80 equals the two byte operations a program  *)
(* would use instead: result, carry, half carry, overflow and sign; and    *)
(* ADD HL,rr changes no other flag (AdcHl16, SbcHl16, AddPair16).          *)
(***************************************************************************)
WideIsTwoBytes ==
  /\ Did("wide") => LET o == last[2] low == last[3] high == last[4] IN
       /\ o.r = 256 * high.r + low.r
       /\ o.f \ {"Z"} = high.f \ {"Z"}
       /\ ("Z" \in o.f) = ("Z" \in low.f \cap high.f)
  /\ Did("pair") => LET o == last[2] adc == last[3] F == last[4] IN
       /\ o.r = adc.r
       /\ o.f = (F \cap {"S", "Z", "PV"}) \cup (adc.f \cap {"H", "C", "Y", "X"})

(***************************************************************************)
(* After an addition or subtraction of packed decimal, DAA leaves the      *)
(* decimal sum or difference and its carry (OpDaa with the H and N that    *)
(* AluAdd and AluSub leave).                                               *)
(***************************************************************************)
DaaIsDecimal ==
  Did("decimal") =>
    /\ IsBcd(last[3].r) /\ Decimal(last[3].r) = last[2] % 100
    /\ ("C" \in last[3].f) = (last[2] \notin 0 .. 99)

(***************************************************************************)
(* A rotation and the opposite one restore the byte and the carry, RLD and *)
(* RRD restore A and the byte in memory, and the one-byte forms on A       *)
(* compute what the long ones do.                                          *)
(***************************************************************************)
RotationsInvert ==
  /\ Did("rotate") => LET there == last[4] back == last[5] short == last[6] IN
       /\ back.r = last[2] /\ In(back.f) = last[3]
       /\ short.r = there.r /\ In(short.f) = In(there.f)
  /\ Did("digits") => last[4].r = last[2] /\ last[4].m = last[3]

(***************************************************************************)
(* AND, OR and XOR are the parts of a sum: a + b is the bits in one        *)
(* operand plus twice the bits in both; and P/V is the parity.             *)
(***************************************************************************)
LogicAddsUp ==
  Did("logic") => LET a == last[2] b == last[3] and == last[4] or == last[5] xor == last[6] IN
    /\ xor.r + 2 * and = a + b /\ or = xor.r + and
    /\ ("PV" \in xor.f) = (EvenParity(a, 8) = EvenParity(b, 8))

(***************************************************************************)
(* The additions, subtractions, comparisons, rotations and decimal         *)
(* adjustments of the cores above leave the result and the flags that      *)
(* integer arithmetic asks for, and AND, OR and XOR those of the Z80 and   *)
(* the Z8000.                                                              *)
(***************************************************************************)
ResultsAreExact ==
  /\ SumIsExact /\ ComparisonOrders /\ WideIsTwoBytes
  /\ DaaIsDecimal /\ RotationsInvert /\ LogicAddsUp

\* RETI is RETN to the core, and what the core does not know is listed as data.
Same(executed, listed) ==
  \/ executed = listed
  \/ executed.n = listed.n /\ <<executed.does, listed.does>>
                              \in {<<"RETN", "RETI">>, <<"halt", "???">>, <<"trap", "DW">>}

\* The core goes on behind a prefix without effect, the listing behind its suffix,
\* which it has put into the DB line: it is out of step with what is executed.
OutOfStep(executed, listed) ==
  executed = Z80Text!Ineffective /\ listed = Z80Text!I("DB", 0)

(***************************************************************************)
(* The debugger lists the operation the core executes, with the length the *)
(* core fetches, but for a DD or FD without effect, which it lists a byte  *)
(* too long; F9 and BRK, which it lists otherwise, are not among the lines *)
(* here.  A step-over skips exactly the bytes of a call, so that it ends   *)
(* where the call returns to, and skips nothing else (emfe_step_over of    *)
(* the three plugins, two of which ask the listing for the length).        *)
(***************************************************************************)
ListedIsExecuted ==
  Did("line") => /\ Same(last[2], last[3]) \/ OutOfStep(last[2], last[3])
                 /\ last[4] = last[5]
=============================================================================
