------------------------------- MODULE Em8Uart -------------------------------
(***************************************************************************)
(* The em8 UART (em8/src/Em8Uart.cpp) between the thread that calls        *)
(* emfe_send_char and the guest.  Every method but HasPendingIrq holds     *)
(* m_mutex from its first access to its last, so it is one step.           *)
(***************************************************************************)
EXTENDS Naturals, Sequences

CONSTANTS
  Char,       \* bytes the frontend may send
  Zero,       \* the byte 0, which an empty UART_DR reads as
  FIFO_SIZE

ASSUME UartAssumption == FIFO_SIZE \in Nat \ {0} /\ Zero \in Char

VARIABLES
  rxFifo, rxHead, rxTail, rxCount, rxOverrun,
  cr,     \* control register: which requests are enabled
  dr,     \* the byte the guest's last read of UART_DR returned
  sr      \* the guest has seen the ready bit and not read UART_DR since

ringVars == <<rxFifo, rxHead, rxTail, rxCount>>
uartVars == <<rxFifo, rxHead, rxTail, rxCount, rxOverrun, cr, dr, sr>>

Slot == 0 .. FIFO_SIZE - 1
Control == [rxIrq : BOOLEAN, txIrq : BOOLEAN]
Quiet == [rxIrq |-> FALSE, txIrq |-> FALSE]

UartInit ==
  /\ rxFifo = [k \in Slot |-> Zero]
  /\ rxHead = 0 /\ rxTail = 0 /\ rxCount = 0 /\ rxOverrun = FALSE
  /\ cr = Quiet /\ dr = Zero /\ sr = FALSE

Following(k) == (k + 1) % FIFO_SIZE

\* Mutant: the full ring is not noticed.
ReceiveCharUnbounded(c) ==
  /\ rxFifo' = [rxFifo EXCEPT ![rxHead] = c]
  /\ rxHead' = Following(rxHead) /\ rxCount' = rxCount + 1
  /\ UNCHANGED <<rxTail, rxOverrun, cr, dr, sr>>

\* Mutant: a full ring is overwritten from its oldest character.
ReceiveCharOverwrites(c) ==
  /\ rxFifo' = [rxFifo EXCEPT ![rxHead] = c]
  /\ rxHead' = Following(rxHead)
  /\ rxCount' = IF rxCount < FIFO_SIZE THEN rxCount + 1 ELSE rxCount
  /\ rxOverrun' = (rxOverrun \/ rxCount = FIFO_SIZE)
  /\ UNCHANGED <<rxTail, cr, dr, sr>>

\* Mutant: the count wraps with the indices.
ReceiveCharCountWraps(c) ==
  /\ rxFifo' = [rxFifo EXCEPT ![rxHead] = c]
  /\ rxHead' = Following(rxHead) /\ rxCount' = Following(rxCount)
  /\ UNCHANGED <<rxTail, rxOverrun, cr, dr, sr>>

ReceiveChar(c) ==
  /\ IF rxCount >= FIFO_SIZE
     THEN rxOverrun' = TRUE /\ UNCHANGED ringVars
     ELSE /\ rxFifo' = [rxFifo EXCEPT ![rxHead] = c]
          /\ rxHead' = Following(rxHead) /\ rxCount' = rxCount + 1
          /\ UNCHANGED <<rxTail, rxOverrun>>
  /\ UNCHANGED <<cr, dr, sr>>

ReadData ==
  /\ IF rxCount = 0
     THEN dr' = Zero /\ UNCHANGED ringVars
     ELSE /\ dr' = rxFifo[rxTail]
          /\ rxTail' = Following(rxTail) /\ rxCount' = rxCount - 1
          /\ UNCHANGED <<rxFifo, rxHead>>
  /\ sr' = FALSE /\ UNCHANGED <<rxOverrun, cr>>

ReadStatus == sr' = (rxCount > 0) /\ UNCHANGED <<ringVars, rxOverrun, cr, dr>>

\* Any write to UART_SR clears the overrun.
WriteStatus == rxOverrun' = FALSE /\ UNCHANGED <<ringVars, cr, dr, sr>>

WriteControl(c) == cr' = c /\ UNCHANGED <<ringVars, rxOverrun, dr, sr>>

\* Mutant: Reset empties the ring but leaves the head where it was.
ResetKeepsHead ==
  /\ rxTail' = 0 /\ rxCount' = 0 /\ rxOverrun' = FALSE /\ cr' = Quiet
  /\ sr' = FALSE /\ UNCHANGED <<rxFifo, rxHead, dr>>

\* emfe_reset; the guest starts again and relies on nothing it has read.
UartReset ==
  /\ rxHead' = 0 /\ rxTail' = 0 /\ rxCount' = 0 /\ rxOverrun' = FALSE
  /\ cr' = Quiet /\ sr' = FALSE /\ UNCHANGED <<rxFifo, dr>>

\* HasPendingIrq; the transmitter is always empty.
HasPendingIrq == (cr.rxIrq /\ rxCount > 0) \/ cr.txIrq

UartNext ==
  \/ \E c \in Char : ReceiveChar(c)
  \/ ReadData \/ ReadStatus \/ WriteStatus
  \/ \E c \in Control : WriteControl(c)
  \/ UartReset

UartSpec == UartInit /\ [][UartNext]_uartVars
-----------------------------------------------------------------------------
Queued == [k \in 1 .. rxCount |-> rxFifo[(rxTail + k - 1) % FIFO_SIZE]]

F == INSTANCE EmfeFifo WITH Capacity <- FIFO_SIZE, queue <- Queued,
                            overrun <- rxOverrun

\* The ring delivers what was typed, once and in order, and drops nothing
\* without raising the overrun flag.
Fifo == F!Spec

\* Every field has its type, and the ring's three indices agree.
UartTypeOK ==
  /\ rxFifo \in [Slot -> Char]
  /\ rxHead \in Slot /\ rxTail \in Slot /\ rxCount \in 0 .. FIFO_SIZE
  /\ rxHead = (rxTail + rxCount) % FIFO_SIZE
  /\ rxOverrun \in BOOLEAN /\ cr \in Control /\ dr \in Char /\ sr \in BOOLEAN

\* A guest that has seen the ready bit finds a character when it reads the data
\* register, however many were typed in between.
ReadyIsKept == sr => rxCount > 0
=============================================================================
