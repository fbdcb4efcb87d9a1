----------------------------- MODULE MCEm8Timer -----------------------------
(***************************************************************************)
(* The timer under a guest that makes any stores and runs instructions of  *)
(* any length, with a history of what it has counted since it was started. *)
(***************************************************************************)
EXTENDS Em8Timer

CONSTANTS
  Stored,       \* the values the guest stores
  MaxRan        \* bound on the cycles of one start

ASSUME StoredAssumption == Stored \subseteq Byte

VARIABLES
  start,   \* reload and mode since the timer was started, while they stay the same
  ran,     \* the cycles since
  seen     \* how many periods had ended when the overflow was last acknowledged

startVars == <<start, ran, seen>>
timerVars == <<timer, start, ran, seen>>

NotStarted == [reload |-> 0, autoReload |-> FALSE, holds |-> FALSE]

Forget == start' = NotStarted /\ ran' = 0 /\ seen' = 0

StartedInit == TimerInit /\ start = NotStarted /\ ran = 0 /\ seen = 0

Run(n) ==
  /\ ran + n <= MaxRan
  /\ Tick(n)
  /\ ran' = IF start.holds THEN ran + n ELSE 0
  /\ UNCHANGED <<start, seen>>

\* The periods that have ended since the start.
Ended == IF start.autoReload THEN ran \div (start.reload + 1)
         ELSE IF ran > start.reload THEN 1 ELSE 0

\* A start does not clear an overflow that nobody has acknowledged.
Start(v) ==
  /\ start' = [reload |-> timer.reload, autoReload |-> Bit(v, 1), holds |-> TRUE]
  /\ ran' = 0 /\ seen' = IF timer.overflow THEN -1 ELSE 0

Store(offset, v) ==
  /\ Write(offset, v)
  /\ CASE offset = TMR_CR /\ Bit(v, 0) -> Start(v)
       [] offset = TMR_ACK -> /\ seen' = IF start.holds THEN Ended ELSE 0
                              /\ UNCHANGED <<start, ran>>
       [] offset \in {TMR_LO, TMR_HI} \/ (offset = TMR_CR /\ ~Bit(v, 0)) -> Forget
       [] OTHER -> UNCHANGED <<start, ran, seen>>

TimerNext ==
  \/ \E n \in Cycles : Run(n)
  \/ \E offset \in Offset, v \in Stored : Store(offset, v)
  \/ TimerReset /\ Forget

TimerSpec == StartedInit /\ [][TimerNext]_timerVars
-----------------------------------------------------------------------------
\* However its cycles are split into instructions, a periodic timer counts
\* reload + 1 of them for each overflow and a one-shot timer overflows once and
\* stops: no cycle is lost or counted twice across a reload.
PeriodExact ==
  /\ TimerTypeOK
  /\ start.holds =>
       /\ timer.enable = (start.autoReload \/ ran <= start.reload)
       /\ timer.counter = IF start.autoReload THEN start.reload - (ran % (start.reload + 1))
                          ELSE IF ran <= start.reload THEN start.reload - ran ELSE 0
       /\ timer.overflow = (Ended > seen)
=============================================================================
