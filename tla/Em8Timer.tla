------------------------------ MODULE Em8Timer ------------------------------
(***************************************************************************)
(* The em8 interval timer (em8/src/Em8Timer.cpp).  The guest writes its    *)
(* registers one byte at a time, and after each instruction it counts by   *)
(* the cycles that instruction took.                                       *)
(***************************************************************************)
EXTENDS Integers

CONSTANTS
  BYTE,         \* values of a register: 256 in the code
  MAX_CYCLES    \* the longest instruction

ASSUME TimerAssumption == BYTE \in Nat /\ BYTE >= 8 /\ MAX_CYCLES \in Nat \ {0}

VARIABLE timer

Byte == 0 .. BYTE - 1
Word == 0 .. BYTE * BYTE - 1
Cycles == 1 .. MAX_CYCLES

\* The offsets of the registers a store changes (Em8Timer.h).
TMR_LO == 0
TMR_HI == 1
TMR_CR == 4
TMR_ACK == 6
Offset == 0 .. 15

\* m_cr is kept as its three bits.
Timer == [reload : Word, counter : Word, overflow : BOOLEAN,
          enable : BOOLEAN, autoReload : BOOLEAN, irqEnable : BOOLEAN]

AtReset == [reload |-> 0, counter |-> 0, overflow |-> FALSE,
            enable |-> FALSE, autoReload |-> FALSE, irqEnable |-> FALSE]

TimerInit == timer = AtReset

\* Mutant: a one-shot timer is not disabled when it overflows.
CycleKeepsEnabled(t) ==
  IF ~t.enable THEN t
  ELSE IF t.counter > 0 THEN [t EXCEPT !.counter = @ - 1]
  ELSE [t EXCEPT !.overflow = TRUE,
                 !.counter = IF t.autoReload THEN t.reload ELSE 0]

\* One turn of the loop in Tick; a disabled timer does not turn.
Cycle(t) ==
  IF ~t.enable THEN t
  ELSE IF t.counter > 0 THEN [t EXCEPT !.counter = @ - 1]
  ELSE IF t.autoReload THEN [t EXCEPT !.overflow = TRUE, !.counter = t.reload]
  ELSE [t EXCEPT !.overflow = TRUE, !.enable = FALSE]

\* Mutant: the cycles left over when the counter is reloaded are not counted.
TickedDropsRest(t, n) ==
  IF t.enable /\ t.autoReload /\ n > t.counter
  THEN [t EXCEPT !.overflow = TRUE, !.counter = t.reload]
  ELSE LET after[k \in 0 .. n] == IF k = 0 THEN t ELSE Cycle(after[k - 1])
       IN  after[n]

Ticked(t, n) ==
  LET after[k \in 0 .. n] == IF k = 0 THEN t ELSE Cycle(after[k - 1])
  IN  after[n]

Tick(n) == timer' = Ticked(timer, n)

Bit(v, k) == (v \div 2^k) % 2 = 1

\* Mutant: the high byte is added to the old one.
WithHighAdded(v) == [timer EXCEPT !.reload = @ + v * BYTE]

WithLow(v) == [timer EXCEPT !.reload = BYTE * (@ \div BYTE) + v]
WithHigh(v) == [timer EXCEPT !.reload = v * BYTE + (@ % BYTE)]

\* Enabling, even a timer that runs, starts it from the reload value.
WithControl(v) ==
  [timer EXCEPT !.enable = Bit(v, 0), !.autoReload = Bit(v, 1),
                !.irqEnable = Bit(v, 2),
                !.counter = IF Bit(v, 0) THEN timer.reload ELSE @]

\* Em8Timer::Write; a store to any other register is ignored.
Written(offset, v) ==
  CASE offset = TMR_LO -> WithLow(v)
    [] offset = TMR_HI -> WithHigh(v)
    [] offset = TMR_CR -> WithControl(v)
    [] offset = TMR_ACK -> [timer EXCEPT !.overflow = FALSE]
    [] OTHER -> timer

Write(offset, v) == timer' = Written(offset, v)

TimerReset == timer' = AtReset

TimerIrq == timer.overflow /\ timer.irqEnable

-----------------------------------------------------------------------------
\* The reload value and the counter are words, whatever the guest stores.
TimerTypeOK == timer \in Timer
=============================================================================
