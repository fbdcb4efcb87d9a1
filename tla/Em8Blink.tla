------------------------------ MODULE Em8Blink ------------------------------
(***************************************************************************)
(* The shipped timer demo (em8/examples/timer_blink/gen_timer_blink.py) on *)
(* the em8 timer: set the reload value, start the timer, then print a      *)
(* character in each timer interrupt.  Only the instructions that touch    *)
(* the timer, the I flag or the console are kept; an instruction takes any *)
(* number of cycles.                                                       *)
(***************************************************************************)
EXTENDS Em8Timer

CONSTANTS
  High,         \* the reload value's high byte, 16 in the demo; the low one is 0
  MaxElapsed    \* bound on the cycles since the start

\* The registers as the demo and the reference manual have them.
TMR_RELOAD_LO == 2
TMR_RELOAD_HI == 3
TMR_STATUS == 5

VARIABLES
  pc, saved,   \* saved is the interrupt frame's PC
  elapsed,     \* cycles since TMR_CONTROL was written
  printed      \* characters the handler has printed

vars == <<timer, pc, saved, elapsed, printed>>

Init ==
  /\ TimerInit
  /\ pc = "reload_lo" /\ saved = "reload_lo"
  /\ elapsed = 0 /\ printed = 0

\* One turn of EmulationLoop: the instruction has left the timer as t and the
\* I flag set if masked, and goes on at next; Tick, UpdateIrqLine, CheckInterrupts.
Turn(t, masked, next, counting) ==
  \E n \in Cycles :
    /\ elapsed + n <= MaxElapsed
    /\ timer' = Ticked(t, n)
    /\ elapsed' = IF counting THEN elapsed + n ELSE 0
    /\ IF TimerIrq' /\ ~masked
       THEN pc' = "ack" /\ saved' = next
       ELSE pc' = next /\ UNCHANGED saved

SetReload ==
  \/ /\ pc = "reload_lo"
     /\ Turn(Written(TMR_RELOAD_LO, 0), TRUE, "reload_hi", FALSE) /\ UNCHANGED printed
  \/ /\ pc = "reload_hi"
     /\ Turn(Written(TMR_RELOAD_HI, High), TRUE, "control", FALSE) /\ UNCHANGED printed

StartTimer ==
  /\ pc = "control"
  /\ Turn(Written(TMR_CR, 7), TRUE, "cli", TRUE) /\ UNCHANGED printed

\* CLI, then BRA idle for ever.
Cli == pc = "cli" /\ Turn(timer, FALSE, "idle", TRUE) /\ UNCHANGED printed
Idle == pc = "idle" /\ Turn(timer, FALSE, "idle", TRUE) /\ UNCHANGED printed

\* The handler's first store, which is to clear the underflow.
Acknowledge ==
  /\ pc = "ack"
  /\ Turn(Written(TMR_STATUS, 1), TRUE, "print", TRUE) /\ UNCHANGED printed

PrintChar ==
  /\ pc = "print"
  /\ Turn(timer, TRUE, "rti", TRUE) /\ printed' = printed + 1

Rti == pc = "rti" /\ Turn(timer, FALSE, saved, TRUE) /\ UNCHANGED printed

Next == SetReload \/ StartTimer \/ Cli \/ Idle \/ Acknowledge \/ PrintChar \/ Rti

Spec == Init /\ [][Next]_vars
-----------------------------------------------------------------------------
\* What the demo announces ("Timer demo (tick=4096 cycles)"): it prints one
\* character for each period of High * BYTE + 1 cycles, none twice, none lost or
\* late by a whole period.
OnePrintPerTick ==
  LET due == elapsed \div (High * BYTE + 1) IN printed \in {due - 1, due}
=============================================================================
