--------------------------- MODULE Em8TimerProofs ---------------------------
(***************************************************************************)
(* Proofs about the em8 timer for every width of its registers, every      *)
(* guest and instructions of any length: what it counts.                   *)
(***************************************************************************)
EXTENDS MCEm8Timer, WellFoundedInduction, TLAPS

\* Induction over the naturals, as the least element of the set of exceptions.
LEMMA EveryNat ==
  ASSUME NEW T, T \subseteq Nat, 0 \in T, \A n \in T : n + 1 \in T
  PROVE  T = Nat
<1> DEFINE U == Nat \ T
<1>1. SUFFICES ASSUME U # {} PROVE FALSE
  OBVIOUS
<1>2. PICK x \in U : \A y \in U : ~(<<y, x>> \in OpToRel(<, Nat))
  <2>1. U \subseteq Nat
    OBVIOUS
  <2> HIDE DEF U
  <2>2. QED
    BY ONLY <1>1, <2>1, NatLessThanWellFounded, WFMin
<1>3. \A y \in U : ~(y < x)
  BY <1>2 DEF OpToRel
<1>4. x \in Nat /\ x # 0 /\ x - 1 \in Nat /\ x - 1 < x
  OBVIOUS
<1>5. x - 1 \in T
  BY <1>3, <1>4
<1>6. x - 1 + 1 \in T
  BY <1>5
<1>7. QED
  BY <1>4, <1>6

\* Recursion along an initial segment of the naturals has a solution.
Turned(g, t, n) == g = [k \in 0 .. n |-> IF k = 0 THEN t ELSE Cycle(g[k - 1])]

\* ... whatever timer it begins with.
LEMMA TurnedExists == \A t : \A n \in Nat : \E g : Turned(g, t, n)
<1> TAKE t
<1> DEFINE T == {n \in Nat : \E g : Turned(g, t, n)}
<1>1. 0 \in T
  <2>1. Turned([k \in 0 .. 0 |-> t], t, 0)
    BY DEF Turned
  <2>2. QED
    BY <2>1
<1>2. ASSUME NEW n \in T PROVE n + 1 \in T
  <2>1. PICK g : Turned(g, t, n)
    OBVIOUS
  <2> DEFINE h == [k \in 0 .. n + 1 |-> IF k = n + 1 THEN Cycle(g[n]) ELSE g[k]]
  <2>2. ASSUME NEW k \in 0 .. n + 1 PROVE h[k] = IF k = 0 THEN t ELSE Cycle(h[k - 1])
    <3>1. CASE k = n + 1
      <4>1. n \in 0 .. n + 1 /\ n # n + 1 /\ k # 0 /\ k - 1 = n
        BY <3>1
      <4>2. h[n] = g[n] /\ h[k] = Cycle(g[n])
        BY <3>1, <4>1
      <4>3. QED
        BY <4>1, <4>2
    <3>2. CASE k # n + 1
      <4>1. k \in 0 .. n /\ (k # 0 => k - 1 \in 0 .. n + 1 /\ k - 1 # n + 1)
        BY <3>2
      <4>2. h[k] = g[k] /\ (k # 0 => h[k - 1] = g[k - 1])
        BY <3>2, <4>1
      <4>3. g[k] = IF k = 0 THEN t ELSE Cycle(g[k - 1])
        BY <2>1, <4>1 DEF Turned
      <4>4. QED
        BY <4>2, <4>3
    <3>3. QED
      BY <3>1, <3>2
  <2> DEFINE f == [k \in 0 .. n + 1 |-> IF k = 0 THEN t ELSE Cycle(h[k - 1])]
  <2>3. h = f
    <3>1. h = [k \in 0 .. n + 1 |-> h[k]]
      OBVIOUS
    <3>2. f = [k \in 0 .. n + 1 |-> h[k]]
      <4> HIDE DEF h
      <4>1. QED
        BY <2>2
    <3>3. QED
      BY <3>1, <3>2
  <2>4. Turned(h, t, n + 1)
    <3> HIDE DEF h
    <3>1. QED
      BY <2>3 DEF Turned
  <2>5. QED
    BY <2>4
<1>3. T = Nat
  <2> HIDE DEF T
  <2>1. T \subseteq Nat
    BY DEF T
  <2>2. QED
    BY <1>1, <1>2, <2>1, EveryNat
<1>4. QED
  BY <1>3

\* One cycle after another.
LEMMA TickedTurns ==
  ASSUME NEW t, NEW n \in Nat
  PROVE  \E g : Turned(g, t, n) /\ Ticked(t, n) = g[n]
<1> DEFINE c == CHOOSE g : Turned(g, t, n)
<1>1. Turned(c, t, n)
  BY TurnedExists
<1>2. Ticked(t, n) = c[n]
  BY DEF Ticked, Turned
<1>3. QED
  BY <1>1, <1>2

\* A tick ends in the set for its cycles, when each cycle leads from one set to the next.
LEMMA TickedAlong ==
  ASSUME NEW F, NEW t, NEW n \in Nat, t \in F[0],
         \A k \in Nat : \A s \in F[k] : Cycle(s) \in F[k + 1]
  PROVE  Ticked(t, n) \in F[n]
<1>1. PICK g : Turned(g, t, n) /\ Ticked(t, n) = g[n]
  BY TickedTurns
<1> DEFINE T == {k \in Nat : k <= n => g[k] \in F[k]}
<1>2. 0 \in T
  BY <1>1 DEF Turned
<1>3. ASSUME NEW k \in T PROVE k + 1 \in T
  <2>1. SUFFICES ASSUME k + 1 <= n PROVE g[k + 1] \in F[k + 1]
    OBVIOUS
  <2>2. k \in Nat /\ k + 1 \in 0 .. n /\ k + 1 # 0 /\ k + 1 - 1 = k /\ k <= n
    BY <2>1
  <2>3. g[k + 1] = Cycle(g[k + 1 - 1])
    BY <1>1, <2>2 DEF Turned
  <2>4. g[k + 1] = Cycle(g[k]) /\ g[k] \in F[k]
    BY <2>2, <2>3
  <2>5. QED
    BY <2>2, <2>4
<1>4. T = Nat
  <2>1. T \subseteq Nat
    OBVIOUS
  <2> HIDE DEF T
  <2>2. QED
    BY <1>2, <1>3, <2>1, EveryNat
<1>5. n \in T
  BY <1>4
<1>6. QED
  BY <1>1, <1>5

\* The quotient and the remainder of a division by a positive number.
LEMMA DivMod ==
  ASSUME NEW r \in Nat, NEW n \in Nat, n > 0
  PROVE  r \div n \in Nat /\ r % n \in 0 .. n - 1 /\ r = n * (r \div n) + (r % n)
OBVIOUS

\* They are the only ones of their sum.
LEMMA DivUnique ==
  ASSUME NEW n \in Nat, n > 0, NEW q \in Nat, NEW m \in 0 .. n - 1
  PROVE  (n * q + m) \div n = q /\ (n * q + m) % n = m
OBVIOUS

\* One more either goes on to the next remainder or starts the next quotient.
LEMMA DivNext ==
  ASSUME NEW r \in Nat, NEW n \in Nat, n > 0
  PROVE  /\ r % n = n - 1 => (r + 1) % n = 0 /\ (r + 1) \div n = (r \div n) + 1
         /\ r % n # n - 1 => (r + 1) % n = (r % n) + 1 /\ (r + 1) \div n = r \div n
OBVIOUS

\* Two bytes make a word, and a word is two bytes.
LEMMA WordOfBytes ==
  ASSUME NEW a \in Byte, NEW b \in Byte
  PROVE  BYTE * a + b \in Word
BY TimerAssumption DEF Byte, Word

LEMMA BytesOfWord ==
  ASSUME NEW w \in Word
  PROVE  w \div BYTE \in Byte /\ w % BYTE \in Byte
BY TimerAssumption DEF Byte, Word

-----------------------------------------------------------------------------
\* What a timer of a reload value and a mode shows r cycles after its start, when the last
\* acknowledgement was after k of its periods.
Counts(t, reload, autoReload, r, k) ==
  /\ t.reload = reload
  /\ t.autoReload <=> autoReload
  /\ t.enable <=> autoReload \/ r <= reload
  /\ autoReload =>
       /\ t.counter = reload - (r % (reload + 1))
       /\ t.overflow <=> r \div (reload + 1) > k
       /\ k <= r \div (reload + 1)
  /\ ~autoReload =>
       /\ t.counter = IF r <= reload THEN reload - r ELSE 0
       /\ t.overflow <=> (IF r > reload THEN 1 ELSE 0) > k
       /\ k <= IF r > reload THEN 1 ELSE 0

\* A cycle leaves a timer whose registers the guest set as they are.
LEMMA CycleType ==
  ASSUME NEW t \in Timer
  PROVE  /\ Cycle(t) \in Timer
         /\ Cycle(t).reload = t.reload /\ Cycle(t).autoReload = t.autoReload
         /\ Cycle(t).irqEnable = t.irqEnable
         /\ ~t.enable => Cycle(t) = t
<1>1. CASE ~t.enable
  BY <1>1 DEF Cycle
<1>2. CASE t.enable /\ t.counter > 0
  <2>1. t.counter - 1 \in Word
    BY <1>2, TimerAssumption DEF Timer, Word
  <2>2. QED
    BY <1>2, <2>1 DEF Cycle, Timer
<1>3. CASE t.enable /\ ~(t.counter > 0)
  BY <1>3 DEF Cycle, Timer
<1>4. QED
  BY <1>1, <1>2, <1>3

\* A cycle of a timer that has counted r of them makes it one that has counted r + 1.
LEMMA CycleCounts ==
  ASSUME NEW t \in Timer, NEW reload \in Nat, NEW autoReload \in BOOLEAN,
         NEW r \in Nat, NEW k \in Int, Counts(t, reload, autoReload, r, k)
  PROVE  Counts(Cycle(t), reload, autoReload, r + 1, k)
<1>1. t.counter \in Int
  BY TimerAssumption DEF Timer, Word
<1>2. /\ Cycle(t).reload = t.reload /\ Cycle(t).autoReload = t.autoReload
  BY CycleType
<1>3. CASE ~autoReload /\ r < reload
  <2>1. Cycle(t) = [t EXCEPT !.counter = @ - 1]
    BY <1>3 DEF Counts, Cycle
  <2>2. /\ Cycle(t).counter = t.counter - 1
        /\ Cycle(t).enable <=> t.enable
        /\ Cycle(t).overflow <=> t.overflow
    BY <2>1 DEF Timer
  <2>3. QED
    BY <1>1, <1>2, <1>3, <2>2 DEF Counts
<1>4. CASE ~autoReload /\ r = reload
  <2>1. Cycle(t) = [t EXCEPT !.overflow = TRUE, !.enable = FALSE]
    BY <1>4 DEF Counts, Cycle
  <2>2. Cycle(t).counter = t.counter /\ ~Cycle(t).enable /\ Cycle(t).overflow
    BY <2>1 DEF Timer
  <2>3. QED
    BY <1>1, <1>2, <1>4, <2>2 DEF Counts
<1>5. CASE ~autoReload /\ r > reload
  <2>1. Cycle(t) = t
    BY <1>5 DEF Counts, Cycle
  <2>2. QED
    BY <1>5, <2>1 DEF Counts
<1>6. CASE autoReload
  <2> DEFINE n == reload + 1
             q == r \div n
             m == r % n
  <2>1. n \in Nat /\ n > 0 /\ n = reload + 1
    OBVIOUS
  <2>2. q \in Nat /\ m \in 0 .. n - 1
    <3> HIDE DEF n
    <3>1. QED
      BY <2>1, DivMod
  <2>3. /\ m = n - 1 => (r + 1) % n = 0 /\ (r + 1) \div n = q + 1
        /\ m # n - 1 => (r + 1) % n = m + 1 /\ (r + 1) \div n = q
    <3> HIDE DEF n
    <3>1. QED
      BY <2>1, DivNext
  <2>4. /\ t.enable /\ t.autoReload /\ t.reload = reload
        /\ t.counter = reload - m
        /\ t.overflow <=> q > k
        /\ k <= q
    BY <1>6 DEF Counts
  <2>5. ASSUME Cycle(t).enable, Cycle(t).counter = reload - ((r + 1) % n),
               Cycle(t).overflow <=> (r + 1) \div n > k, k <= (r + 1) \div n
        PROVE  Counts(Cycle(t), reload, autoReload, r + 1, k)
    BY <1>2, <1>6, <2>4, <2>5 DEF Counts
  <2> HIDE DEF n, q, m
  <2>6. CASE m = n - 1
    <3>1. Cycle(t) = [t EXCEPT !.overflow = TRUE, !.counter = t.reload]
      BY <2>1, <2>4, <2>6 DEF Cycle
    <3>2. Cycle(t).counter = reload /\ Cycle(t).enable /\ Cycle(t).overflow
      BY <2>4, <3>1 DEF Timer
    <3>3. (r + 1) % n = 0 /\ (r + 1) \div n = q + 1 /\ q + 1 > k /\ k <= q + 1
      BY <2>2, <2>3, <2>4, <2>6
    <3>4. QED
      BY <2>5, <3>2, <3>3
  <2>7. CASE m # n - 1
    <3>1. Cycle(t) = [t EXCEPT !.counter = @ - 1]
      BY <2>1, <2>2, <2>4, <2>7 DEF Cycle
    <3>2. /\ Cycle(t).counter = t.counter - 1 /\ Cycle(t).enable
          /\ Cycle(t).overflow <=> t.overflow
      BY <2>4, <3>1 DEF Timer
    <3>3. (r + 1) % n = m + 1 /\ (r + 1) \div n = q
      BY <2>3, <2>7
    <3>4. Cycle(t).counter = reload - ((r + 1) % n)
      BY <2>1, <2>2, <2>4, <3>2, <3>3
    <3>5. QED
      BY <2>4, <2>5, <3>2, <3>3, <3>4
  <2>8. QED
    BY <2>6, <2>7
<1>7. QED
  BY <1>3, <1>4, <1>5, <1>6

\* The same of the cycles of an instruction.
LEMMA TickedType ==
  ASSUME NEW t \in Timer, NEW n \in Nat
  PROVE  /\ Ticked(t, n) \in Timer
         /\ Ticked(t, n).reload = t.reload /\ Ticked(t, n).autoReload = t.autoReload
         /\ Ticked(t, n).irqEnable = t.irqEnable
         /\ ~t.enable => Ticked(t, n) = t
<1> DEFINE S == {s \in Timer : /\ s.reload = t.reload /\ s.autoReload = t.autoReload
                               /\ s.irqEnable = t.irqEnable
                               /\ ~t.enable => s = t}
           F == [k \in Nat |-> S]
<1>1. t \in S
  OBVIOUS
<1>2. \A s \in S : Cycle(s) \in S
  BY CycleType
<1>3. t \in F[0] /\ \A k \in Nat : \A s \in F[k] : Cycle(s) \in F[k + 1]
  <2> HIDE DEF S
  <2>1. QED
    BY <1>1, <1>2
<1> HIDE DEF F
<1>4. Ticked(t, n) \in F[n]
  BY <1>3, TickedAlong
<1>5. Ticked(t, n) \in S
  <2> HIDE DEF S
  <2>1. QED
    BY <1>4 DEF F
<1>6. QED
  BY <1>5

\* ... and n cycles make it one that has counted r + n.
LEMMA TickedCounts ==
  ASSUME NEW t \in Timer, NEW n \in Nat, NEW reload \in Nat, NEW autoReload \in BOOLEAN,
         NEW r \in Nat, NEW k \in Int, Counts(t, reload, autoReload, r, k)
  PROVE  Counts(Ticked(t, n), reload, autoReload, r + n, k)
<1> DEFINE C(c) == {s \in Timer : Counts(s, reload, autoReload, c, k)}
           F == [i \in Nat |-> C(r + i)]
<1>1. \A c \in Nat : \A s \in C(c) : Cycle(s) \in C(c + 1)
  BY CycleType, CycleCounts
<1>2. \A i \in Nat : r + i \in Nat /\ r + (i + 1) = (r + i) + 1 /\ i + 1 \in Nat
  OBVIOUS
<1>3. t \in C(r) /\ r + 0 = r
  OBVIOUS
<1>4. t \in F[0] /\ \A i \in Nat : \A s \in F[i] : Cycle(s) \in F[i + 1]
  <2> HIDE DEF C
  <2>1. \A i \in Nat : F[i] = C(r + i)
    OBVIOUS
  <2> HIDE DEF F
  <2>2. t \in F[0]
    BY <1>3, <2>1
  <2>3. ASSUME NEW i \in Nat, NEW s \in F[i] PROVE Cycle(s) \in F[i + 1]
    <3>1. s \in C(r + i) /\ Cycle(s) \in C((r + i) + 1)
      BY <1>1, <1>2, <2>1
    <3>2. QED
      BY <1>2, <2>1, <3>1
  <2>4. QED
    BY <2>2, <2>3
<1>5. Ticked(t, n) \in F[n]
  <2> HIDE DEF F
  <2>1. QED
    BY <1>4, TickedAlong
<1>6. Ticked(t, n) \in C(r + n)
  <2> HIDE DEF C
  <2>1. QED
    BY <1>5
<1>7. QED
  BY <1>6

\* A store of a byte leaves words in the timer.
LEMMA WrittenType ==
  ASSUME timer \in Timer, NEW offset, NEW v \in Byte
  PROVE  Written(offset, v) \in Timer
<1>1. timer.reload \in Word
  BY DEF Timer
<1>2. BYTE * (timer.reload \div BYTE) + v \in Word
  BY <1>1, BytesOfWord, WordOfBytes
<1>3. v * BYTE + (timer.reload % BYTE) \in Word
  <2>1. BYTE * v + (timer.reload % BYTE) \in Word
    BY <1>1, BytesOfWord, WordOfBytes
  <2>2. BYTE * v = v * BYTE
    BY TimerAssumption DEF Byte
  <2>3. QED
    BY <2>1, <2>2
<1>4. WithLow(v) \in Timer
  BY <1>2 DEF WithLow, Timer
<1>5. WithHigh(v) \in Timer
  BY <1>3 DEF WithHigh, Timer
<1>6. WithControl(v) \in Timer
  BY DEF WithControl, Timer, Bit
<1>7. [timer EXCEPT !.overflow = FALSE] \in Timer
  BY DEF Timer
<1>8. QED
  BY <1>4, <1>5, <1>6, <1>7 DEF Written

\* The timer at reset.
LEMMA ResetType == AtReset \in Timer
<1>1. 0 \in Byte /\ BYTE * 0 + 0 = 0
  BY TimerAssumption DEF Byte
<1>2. 0 \in Word
  BY <1>1, WordOfBytes
<1>3. QED
  BY <1>2 DEF AtReset, Timer

-----------------------------------------------------------------------------
\* The counted cycles are those of the timer as it was started.
PeriodInv ==
  /\ TimerTypeOK
  /\ start \in [reload : Word, autoReload : BOOLEAN, holds : BOOLEAN]
  /\ ran \in Nat /\ seen \in Int
  /\ start.holds => Counts(timer, start.reload, start.autoReload, ran, seen)

\* A timer at reset has counted nothing.
LEMMA PeriodInit == StartedInit => PeriodInv
<1>1. 0 \in Word
  BY ResetType DEF AtReset, Timer
<1>2. QED
  BY <1>1, ResetType
     DEF StartedInit, PeriodInv, TimerInit, TimerTypeOK, NotStarted

LEMMA WordIsNat == Word \subseteq Nat
BY DEF Word

\* An instruction of any length counts its cycles.
LEMMA RunStep ==
  ASSUME PeriodInv, NEW n \in Cycles, Run(n)
  PROVE  PeriodInv'
<1>1. n \in Nat
  BY DEF Cycles
<1>2. timer \in Timer /\ timer' = Ticked(timer, n) /\ timer' \in Timer
  BY <1>1, TickedType DEF Run, Tick, PeriodInv, TimerTypeOK
<1>3. start' = start /\ seen' = seen /\ ran' = IF start.holds THEN ran + n ELSE 0
  BY DEF Run
<1>4. ASSUME start.holds PROVE Counts(timer', start.reload, start.autoReload, ran + n, seen)
  <2>1. start.reload \in Nat /\ start.autoReload \in BOOLEAN
    BY WordIsNat DEF PeriodInv
  <2>2. QED
    BY <1>1, <1>2, <1>4, <2>1, TickedCounts DEF PeriodInv
<1>5. ran' \in Nat
  BY <1>1, <1>3 DEF PeriodInv
<1>6. start'.holds => Counts(timer', start'.reload, start'.autoReload, ran', seen')
  BY <1>3, <1>4
<1>7. QED
  BY <1>2, <1>3, <1>5, <1>6 DEF PeriodInv, TimerTypeOK

\* A timer that has just been started has counted nothing.
LEMMA StartCounts ==
  ASSUME timer \in Timer, NEW v \in Byte, Bit(v, 0)
  PROVE  Counts(WithControl(v), timer.reload, Bit(v, 1), 0, IF timer.overflow THEN -1 ELSE 0)
<1> DEFINE L == timer.reload
           t == WithControl(v)
<1>1. L \in Nat
  BY WordIsNat DEF Timer
<1>2. /\ t.reload = L /\ t.autoReload = Bit(v, 1)
      /\ t.enable
      /\ t.counter = L
      /\ t.overflow <=> timer.overflow
  BY DEF WithControl, Timer
<1> HIDE DEF L, t
<1>3. 0 % (L + 1) = 0 /\ 0 \div (L + 1) = 0
  BY <1>1
<1>4. Counts(t, L, Bit(v, 1), 0, IF timer.overflow THEN -1 ELSE 0)
  BY <1>1, <1>2, <1>3 DEF Counts
<1>5. QED
  BY <1>4 DEF L, t

\* An acknowledgement forgets the periods that have ended, and no more.
LEMMA AcknowledgedCounts ==
  ASSUME timer \in Timer, PeriodInv, start.holds
  PROVE  Counts([timer EXCEPT !.overflow = FALSE], start.reload, start.autoReload, ran, Ended)
<1> DEFINE t == [timer EXCEPT !.overflow = FALSE]
<1>1. /\ t.reload = timer.reload /\ t.autoReload = timer.autoReload
      /\ t.enable = timer.enable /\ t.counter = timer.counter /\ ~t.overflow
  BY DEF Timer
<1>2. Ended \in Int
  <2>1. start.reload \in Nat /\ ran \in Nat
    BY WordIsNat DEF PeriodInv
  <2>2. ran \div (start.reload + 1) \in Nat
    BY <2>1, DivMod
  <2>3. QED
    BY <2>2 DEF Ended
<1> HIDE DEF t
<1>3. Counts(t, start.reload, start.autoReload, ran, Ended)
  BY <1>1, <1>2 DEF Counts, PeriodInv, Ended
<1>4. QED
  BY <1>3 DEF t

\* A store starts the timer, acknowledges it, stops the counting or changes nothing.
LEMMA StoreStep ==
  ASSUME PeriodInv, NEW offset \in Offset, NEW v \in Byte,
         Store(offset, v)
  PROVE  PeriodInv'
<1>1. timer \in Timer /\ timer' = Written(offset, v) /\ timer' \in Timer
  BY WrittenType DEF Store, Write, PeriodInv, TimerTypeOK
<1>2. 0 \in Word
  BY ResetType DEF AtReset, Timer
<1>3. CASE offset = TMR_CR /\ Bit(v, 0)
  <2>1. Start(v) /\ timer' = WithControl(v)
    BY <1>1, <1>3 DEF Store, Written, TMR_LO, TMR_HI, TMR_CR, TMR_ACK
  <2>2. /\ start' = [reload |-> timer.reload, autoReload |-> Bit(v, 1), holds |-> TRUE]
        /\ ran' = 0 /\ seen' = IF timer.overflow THEN -1 ELSE 0
    BY <2>1 DEF Start
  <2>3. Counts(timer', start'.reload, start'.autoReload, ran', seen')
    BY <1>1, <1>3, <2>1, <2>2, StartCounts
  <2>4. start' \in [reload : Word, autoReload : BOOLEAN, holds : BOOLEAN]
    BY <1>1, <2>2 DEF Timer, Bit
  <2>5. QED
    BY <1>1, <2>2, <2>3, <2>4 DEF PeriodInv, TimerTypeOK
<1>4. CASE offset = TMR_ACK
  <2>1. /\ seen' = IF start.holds THEN Ended ELSE 0
        /\ start' = start /\ ran' = ran
        /\ timer' = [timer EXCEPT !.overflow = FALSE]
    BY <1>1, <1>4 DEF Store, Written, TMR_LO, TMR_HI, TMR_CR, TMR_ACK
  <2>2. Ended \in Int
    <3>1. start.reload \in Nat /\ ran \in Nat
      BY WordIsNat DEF PeriodInv
    <3>2. ran \div (start.reload + 1) \in Nat
      BY <3>1, DivMod
    <3>3. QED
      BY <3>2 DEF Ended
  <2>3. start.holds => Counts(timer', start.reload, start.autoReload, ran, Ended)
    BY <1>1, <2>1, AcknowledgedCounts
  <2>4. QED
    BY <1>1, <2>1, <2>2, <2>3 DEF PeriodInv, TimerTypeOK
<1>5. CASE offset \in {TMR_LO, TMR_HI} \/ (offset = TMR_CR /\ ~Bit(v, 0))
  <2>1. Forget
    BY <1>5 DEF Store, TMR_LO, TMR_HI, TMR_CR, TMR_ACK
  <2>2. QED
    BY <1>1, <1>2, <2>1 DEF Forget, NotStarted, PeriodInv, TimerTypeOK
<1>6. CASE offset \notin {TMR_LO, TMR_HI, TMR_CR, TMR_ACK}
  <2>1. start' = start /\ ran' = ran /\ seen' = seen /\ timer' = timer
    BY <1>1, <1>6 DEF Store, Written, TMR_LO, TMR_HI, TMR_CR, TMR_ACK
  <2>2. QED
    BY <2>1 DEF PeriodInv, TimerTypeOK
<1>7. QED
  BY <1>3, <1>4, <1>5, <1>6

\* Every step keeps what the timer has counted.
LEMMA PeriodStep ==
  ASSUME PeriodInv, [TimerNext]_timerVars
  PROVE  PeriodInv'
<1>1. CASE UNCHANGED timerVars
  BY <1>1 DEF timerVars, PeriodInv, TimerTypeOK, Counts
<1>2. ASSUME NEW n \in Cycles, Run(n) PROVE PeriodInv'
  BY <1>2, RunStep
<1>3. ASSUME NEW offset \in Offset, NEW v \in Stored, Store(offset, v) PROVE PeriodInv'
  BY <1>3, StoreStep, StoredAssumption
<1>4. ASSUME TimerReset, Forget PROVE PeriodInv'
  <2>1. 0 \in Word
    BY ResetType DEF AtReset, Timer
  <2>2. QED
    BY <1>4, <2>1, ResetType
       DEF TimerReset, Forget, NotStarted, PeriodInv, TimerTypeOK
<1>5. QED
  BY <1>1, <1>2, <1>3, <1>4 DEF TimerNext

\* The closed form is the property.
LEMMA PeriodInvExact == PeriodInv => PeriodExact
<1> SUFFICES ASSUME PeriodInv, start.holds
    PROVE  /\ timer.enable = (start.autoReload \/ ran <= start.reload)
           /\ timer.counter = IF start.autoReload THEN start.reload - (ran % (start.reload + 1))
                              ELSE IF ran <= start.reload THEN start.reload - ran ELSE 0
           /\ timer.overflow = (Ended > seen)
  BY DEF PeriodInv, PeriodExact
<1>1. Counts(timer, start.reload, start.autoReload, ran, seen)
  BY DEF PeriodInv
<1>2. timer.enable \in BOOLEAN /\ timer.overflow \in BOOLEAN
  BY DEF PeriodInv, TimerTypeOK, Timer
<1>3. timer.enable <=> start.autoReload \/ ran <= start.reload
  BY <1>1 DEF Counts
<1>4. timer.overflow <=> Ended > seen
  BY <1>1 DEF Counts, Ended
<1>5. timer.counter = IF start.autoReload THEN start.reload - (ran % (start.reload + 1))
                      ELSE IF ran <= start.reload THEN start.reload - ran ELSE 0
  BY <1>1 DEF Counts
<1>6. QED
  BY <1>2, <1>3, <1>4, <1>5

\* However the cycles of a timer are split into instructions, and whatever the guest
\* stores between them, Tick loses no cycle and counts none twice across a reload.
THEOREM PeriodIsExact == TimerSpec => []PeriodExact
<1>1. PeriodInv /\ [TimerNext]_timerVars => PeriodInv'
  BY PeriodStep
<1>2. QED
  BY <1>1, PeriodInit, PeriodInvExact, PTL DEF TimerSpec
=============================================================================
