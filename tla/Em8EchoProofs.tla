--------------------------- MODULE Em8EchoProofs ---------------------------
(***************************************************************************)
(* Proofs about the em8 UART for every size of the ring: its indices       *)
(* agree, a ready bit once seen is kept, and the ring implements the       *)
(* bounded queue.  Then about a character's way through em8, for every     *)
(* sequence of keys and every choice of breakpoints that leaves the        *)
(* handler's last instruction alone.                                       *)
(***************************************************************************)
EXTENDS Em8Echo, Integers, SequenceFacts

\* A slot's index below the size of the ring, and one turn beyond it.
LEMMA BelowSize ==
  ASSUME NEW n \in Nat, n > 0, NEW a \in 0 .. n - 1
  PROVE  a % n = a
OBVIOUS

LEMMA OneTurn ==
  ASSUME NEW n \in Nat, n > 0, NEW a \in n .. 2 * n - 1
  PROVE  a % n = a - n
OBVIOUS

\* The slot k places after the tail, without the remainder.
LEMMA SlotAfter ==
  ASSUME NEW n \in Nat, n > 0, NEW t \in 0 .. n - 1, NEW k \in 0 .. n
  PROVE  (t + k) % n = IF t + k < n THEN t + k ELSE t + k - n
<1>1. CASE t + k < n
  BY <1>1, BelowSize
<1>2. CASE t + k >= n
  <2>1. t + k \in n .. 2 * n - 1
    BY <1>2
  <2>2. QED
    BY <1>2, <2>1, OneTurn
<1>3. QED
  BY <1>1, <1>2

\* The index after one of the ring's slots.
LEMMA FollowingSlot ==
  ASSUME NEW k \in Slot
  PROVE  /\ Following(k) = IF k + 1 = FIFO_SIZE THEN 0 ELSE k + 1
         /\ Following(k) \in Slot
<1>1. FIFO_SIZE \in Nat /\ FIFO_SIZE > 0 /\ k \in 0 .. FIFO_SIZE - 1 /\ 1 \in 0 .. FIFO_SIZE
  BY UartAssumption DEF Slot
<1>2. (k + 1) % FIFO_SIZE = IF k + 1 < FIFO_SIZE THEN k + 1 ELSE k + 1 - FIFO_SIZE
  BY <1>1, SlotAfter
<1>3. QED
  BY <1>1, <1>2 DEF Following, Slot

\* Where the head is, without the remainder.
LEMMA HeadSlot ==
  ASSUME UartTypeOK
  PROVE  rxHead = IF rxTail + rxCount < FIFO_SIZE THEN rxTail + rxCount
                                                  ELSE rxTail + rxCount - FIFO_SIZE
BY UartAssumption, SlotAfter DEF UartTypeOK, Slot
-----------------------------------------------------------------------------
\* The inductive invariant: the indices agree, and a guest that has seen the
\* ready bit still has its character.
UartInv == UartTypeOK /\ ReadyIsKept

LEMMA UartInitInv == UartInit => UartInv
<1> SUFFICES ASSUME UartInit PROVE UartInv
  OBVIOUS
<1>1. 0 \in Slot /\ 0 % FIFO_SIZE = 0
  BY UartAssumption, BelowSize DEF Slot
<1>2. rxHead = (rxTail + rxCount) % FIFO_SIZE
  BY <1>1 DEF UartInit
<1>3. Quiet \in Control
  BY DEF Quiet, Control
<1>4. rxFifo \in [Slot -> Char] /\ rxCount \in 0 .. FIFO_SIZE
  BY UartAssumption DEF UartInit
<1>5. QED
  BY <1>1, <1>2, <1>3, <1>4, UartAssumption DEF UartInit, UartInv, UartTypeOK, ReadyIsKept

LEMMA ReceiveCharInv ==
  ASSUME UartInv, NEW c \in Char, ReceiveChar(c)
  PROVE  UartInv'
<1>1. CASE rxCount >= FIFO_SIZE
  BY <1>1 DEF ReceiveChar, ringVars, UartInv, UartTypeOK, ReadyIsKept
<1>2. CASE ~(rxCount >= FIFO_SIZE)
  <2>1. /\ rxFifo' = [rxFifo EXCEPT ![rxHead] = c]
        /\ rxHead' = Following(rxHead) /\ rxCount' = rxCount + 1
        /\ UNCHANGED <<rxTail, rxOverrun, cr, dr, sr>>
    BY <1>2 DEF ReceiveChar
  <2>2. rxCount' \in 0 .. FIFO_SIZE /\ rxHead' \in Slot
    BY <1>2, <2>1, FollowingSlot, UartAssumption DEF UartInv, UartTypeOK
  <2>3. rxHead' = (rxTail + rxCount') % FIFO_SIZE
    <3>1. rxTail \in 0 .. FIFO_SIZE - 1 /\ rxCount' \in 0 .. FIFO_SIZE /\ FIFO_SIZE > 0
      BY <2>2, UartAssumption DEF UartInv, UartTypeOK, Slot
    <3>2. (rxTail + rxCount') % FIFO_SIZE
            = IF rxTail + rxCount' < FIFO_SIZE THEN rxTail + rxCount'
                                               ELSE rxTail + rxCount' - FIFO_SIZE
      BY <3>1, SlotAfter, UartAssumption
    <3>3. rxHead = IF rxTail + rxCount < FIFO_SIZE THEN rxTail + rxCount
                                                   ELSE rxTail + rxCount - FIFO_SIZE
      BY HeadSlot DEF UartInv
    <3>4. rxHead' = IF rxHead + 1 = FIFO_SIZE THEN 0 ELSE rxHead + 1
      BY <2>1, FollowingSlot DEF UartInv, UartTypeOK
    <3>5. rxCount \in Nat /\ rxHead \in 0 .. FIFO_SIZE - 1
      BY DEF UartInv, UartTypeOK, Slot
    <3>6. rxHead' = IF rxTail + rxCount' < FIFO_SIZE THEN rxTail + rxCount'
                                                      ELSE rxTail + rxCount' - FIFO_SIZE
      BY <1>2, <2>1, <3>1, <3>3, <3>4, <3>5, UartAssumption
    <3>7. QED
      BY <3>2, <3>6
  <2>4. QED
    BY <2>1, <2>2, <2>3, UartAssumption DEF UartInv, UartTypeOK, ReadyIsKept
<1>3. QED
  BY <1>1, <1>2

LEMMA ReadDataInv ==
  ASSUME UartInv, ReadData
  PROVE  UartInv'
<1>1. CASE rxCount = 0
  BY <1>1, UartAssumption
     DEF ReadData, ringVars, UartInv, UartTypeOK, ReadyIsKept
<1>2. CASE rxCount # 0
  <2>1. /\ dr' = rxFifo[rxTail] /\ rxTail' = Following(rxTail)
        /\ rxCount' = rxCount - 1 /\ sr' = FALSE
        /\ UNCHANGED <<rxFifo, rxHead, rxOverrun, cr>>
    BY <1>2 DEF ReadData
  <2>2. rxCount' \in 0 .. FIFO_SIZE /\ rxTail' \in Slot
    BY <1>2, <2>1, FollowingSlot, UartAssumption DEF UartInv, UartTypeOK
  <2>3. rxHead' = (rxTail' + rxCount') % FIFO_SIZE
    <3>1. rxTail' \in 0 .. FIFO_SIZE - 1 /\ rxCount' \in 0 .. FIFO_SIZE /\ FIFO_SIZE > 0
      BY <2>2, UartAssumption DEF Slot
    <3>2. (rxTail' + rxCount') % FIFO_SIZE
            = IF rxTail' + rxCount' < FIFO_SIZE THEN rxTail' + rxCount'
                                                ELSE rxTail' + rxCount' - FIFO_SIZE
      BY <3>1, SlotAfter, UartAssumption
    <3>3. rxHead = IF rxTail + rxCount < FIFO_SIZE THEN rxTail + rxCount
                                                   ELSE rxTail + rxCount - FIFO_SIZE
      BY HeadSlot DEF UartInv
    <3>4. rxTail' = IF rxTail + 1 = FIFO_SIZE THEN 0 ELSE rxTail + 1
      BY <2>1, FollowingSlot DEF UartInv, UartTypeOK
    <3>5. QED
      BY <1>2, <2>1, <3>1, <3>2, <3>3, <3>4, UartAssumption DEF UartInv, UartTypeOK, Slot
  <2>4. QED
    BY <2>1, <2>2, <2>3 DEF UartInv, UartTypeOK, ReadyIsKept
<1>3. QED
  BY <1>1, <1>2

LEMMA UartStepInv == UartInv /\ [UartNext]_uartVars => UartInv'
<1> SUFFICES ASSUME UartInv, [UartNext]_uartVars PROVE UartInv'
  OBVIOUS
<1> USE DEF UartInv, UartTypeOK, ReadyIsKept
<1>1. ASSUME NEW c \in Char, ReceiveChar(c) PROVE UartInv'
  BY <1>1, ReceiveCharInv
<1>2. CASE ReadData
  BY <1>2, ReadDataInv
<1>3. CASE ReadStatus
  BY <1>3 DEF ReadStatus, ringVars
<1>4. CASE WriteStatus
  BY <1>4 DEF WriteStatus, ringVars
<1>5. ASSUME NEW c \in Control, WriteControl(c) PROVE UartInv'
  BY <1>5 DEF WriteControl, ringVars
<1>6. CASE UartReset
  <2>1. 0 \in Slot /\ 0 % FIFO_SIZE = 0
    BY UartAssumption, BelowSize DEF Slot
  <2>2. rxHead' = (rxTail' + rxCount') % FIFO_SIZE /\ rxCount' \in 0 .. FIFO_SIZE
    BY <1>6, <2>1, UartAssumption DEF UartReset
  <2>3. Quiet \in Control
    BY DEF Quiet, Control
  <2>4. QED
    BY <1>6, <2>1, <2>2, <2>3 DEF UartReset
<1>7. CASE UNCHANGED uartVars
  BY <1>7 DEF uartVars
<1>8. QED
  BY <1>1, <1>2, <1>3, <1>4, <1>5, <1>6, <1>7 DEF UartNext

\* Every reachable state of the UART satisfies both parts of the invariant.
THEOREM UartSafe == UartSpec => []UartInv
BY UartInitInv, UartStepInv, PTL DEF UartSpec

\* Every field has its type and the ring's three indices agree.
THEOREM UartTypeCorrect == UartSpec => []UartTypeOK
BY UartSafe, PTL DEF UartInv

\* A guest that has seen the ready bit finds a character when it reads.
THEOREM ReadyBitIsKept == UartSpec => []ReadyIsKept
BY UartSafe, PTL DEF UartInv
-----------------------------------------------------------------------------
\* The sequence of n characters a ring f holds from slot t on.
Ring(f, t, n) == [k \in 1 .. n |-> f[(t + k - 1) % FIFO_SIZE]]

Place(t, k) == IF t + k - 1 < FIFO_SIZE THEN t + k - 1 ELSE t + k - 1 - FIFO_SIZE

LEMMA RingType ==
  ASSUME NEW f \in [Slot -> Char], NEW t \in Slot, NEW n \in 0 .. FIFO_SIZE
  PROVE  /\ Ring(f, t, n) \in Seq(Char) /\ Len(Ring(f, t, n)) = n
         /\ \A k \in 1 .. n : Ring(f, t, n)[k] = f[Place(t, k)] /\ Place(t, k) \in Slot
<1>1. t \in 0 .. FIFO_SIZE - 1 /\ n \in Nat /\ FIFO_SIZE \in Nat /\ FIFO_SIZE > 0
  BY UartAssumption DEF Slot
<1>2. ASSUME NEW k \in 1 .. n
      PROVE  (t + k - 1) % FIFO_SIZE = Place(t, k) /\ Place(t, k) \in Slot
  <2>1. k - 1 \in 0 .. FIFO_SIZE /\ t + k - 1 = t + (k - 1)
    BY <1>1
  <2>2. (t + (k - 1)) % FIFO_SIZE
          = IF t + (k - 1) < FIFO_SIZE THEN t + (k - 1) ELSE t + (k - 1) - FIFO_SIZE
    BY <1>1, <2>1, SlotAfter
  <2>3. QED
    BY <1>1, <2>1, <2>2 DEF Place, Slot
<1>3. \A k \in 1 .. n : f[(t + k - 1) % FIFO_SIZE] \in Char
  BY <1>2
<1>4. Ring(f, t, n) \in Seq(Char) /\ Len(Ring(f, t, n)) = n
  BY <1>1, <1>3 DEF Ring
<1>5. QED
  BY <1>2, <1>4 DEF Ring

LEMMA QueuedType ==
  ASSUME UartTypeOK
  PROVE  /\ Queued = Ring(rxFifo, rxTail, rxCount)
         /\ Queued \in Seq(Char) /\ Len(Queued) = rxCount
<1>1. Queued = Ring(rxFifo, rxTail, rxCount)
  BY DEF Queued, Ring
<1>2. QED
  BY <1>1, RingType DEF UartTypeOK

\* A character stored at the head goes to the end of the sequence.
LEMMA RingAppend ==
  ASSUME NEW f \in [Slot -> Char], NEW t \in Slot,
         NEW n \in 0 .. FIFO_SIZE, NEW m \in 0 .. FIFO_SIZE, m = n + 1,
         NEW h \in Slot, h = (t + n) % FIFO_SIZE, NEW c \in Char,
         NEW g \in [Slot -> Char], g[h] = c, \A i \in Slot \ {h} : g[i] = f[i]
  PROVE  Ring(g, t, m) = Append(Ring(f, t, n), c)
<1>1. n \in Nat /\ n < FIFO_SIZE /\ FIFO_SIZE \in Nat /\ FIFO_SIZE > 0
  BY UartAssumption
<1>2. /\ Ring(g, t, m) \in Seq(Char) /\ Len(Ring(g, t, m)) = m
      /\ \A k \in 1 .. m : Ring(g, t, m)[k] = g[Place(t, k)] /\ Place(t, k) \in Slot
  BY RingType
<1>3. /\ Ring(f, t, n) \in Seq(Char) /\ Len(Ring(f, t, n)) = n
      /\ \A k \in 1 .. n : Ring(f, t, n)[k] = f[Place(t, k)]
  BY RingType
<1>4. h = Place(t, m)
  BY <1>1, SlotAfter DEF Place, Slot
<1>5. \A k \in 1 .. n : Place(t, k) # h
  BY <1>1, <1>4 DEF Place, Slot
<1>6. /\ Append(Ring(f, t, n), c) \in Seq(Char) /\ Len(Append(Ring(f, t, n), c)) = m
      /\ Append(Ring(f, t, n), c)[m] = c
      /\ \A k \in 1 .. n : Append(Ring(f, t, n), c)[k] = Ring(f, t, n)[k]
  BY <1>1, <1>3
<1>7. ASSUME NEW k \in 1 .. m
      PROVE  Ring(g, t, m)[k] = Append(Ring(f, t, n), c)[k]
  <2>1. CASE k \in 1 .. n
    <3>1. g[Place(t, k)] = f[Place(t, k)]
      BY <1>2, <1>5, <2>1
    <3>2. QED
      BY <1>2, <1>3, <1>6, <2>1, <3>1
  <2>2. CASE k = m
    <3>1. g[Place(t, k)] = c
      BY <1>4, <2>2
    <3>2. QED
      BY <1>2, <1>6, <2>2, <3>1
  <2>3. k \in 1 .. n \/ k = m
    BY <1>1
  <2>4. QED
    BY <2>1, <2>2, <2>3
<1>8. QED
  BY <1>1, <1>2, <1>6, <1>7

\* The character at the tail is the sequence's head; the rest is its tail.
LEMMA RingTail ==
  ASSUME NEW f \in [Slot -> Char], NEW t \in Slot, NEW n \in 1 .. FIFO_SIZE
  PROVE  /\ Ring(f, t, n) # <<>> /\ Head(Ring(f, t, n)) = f[t]
         /\ Ring(f, Following(t), n - 1) = Tail(Ring(f, t, n))
<1>1. /\ n \in 0 .. FIFO_SIZE /\ n - 1 \in 0 .. FIFO_SIZE /\ n \in Nat
      /\ FIFO_SIZE \in Nat /\ FIFO_SIZE > 0
  BY UartAssumption
<1>2. Following(t) = (IF t + 1 = FIFO_SIZE THEN 0 ELSE t + 1) /\ Following(t) \in Slot
  BY FollowingSlot
<1>3. /\ Ring(f, t, n) \in Seq(Char) /\ Len(Ring(f, t, n)) = n
      /\ \A k \in 1 .. n : Ring(f, t, n)[k] = f[Place(t, k)]
  BY <1>1, RingType
<1>4. /\ Ring(f, Following(t), n - 1) \in Seq(Char)
      /\ Len(Ring(f, Following(t), n - 1)) = n - 1
      /\ \A k \in 1 .. n - 1 : Ring(f, Following(t), n - 1)[k] = f[Place(Following(t), k)]
  BY <1>1, <1>2, RingType
<1>5. Place(t, 1) = t
  BY <1>1 DEF Place, Slot
<1>6. \A k \in 1 .. n - 1 : Place(Following(t), k) = Place(t, k + 1)
  BY <1>1, <1>2 DEF Place, Slot
<1>7. Ring(f, t, n) # <<>> /\ Head(Ring(f, t, n)) = f[t]
  BY <1>1, <1>3, <1>5
<1>8. ASSUME NEW k \in 1 .. n - 1
      PROVE  Ring(f, Following(t), n - 1)[k] = Tail(Ring(f, t, n))[k]
  BY <1>1, <1>3, <1>4, <1>6
<1>9. QED
  BY <1>1, <1>3, <1>4, <1>7, <1>8

\* With no character the ring is the empty sequence.
LEMMA QueuedEmpty == ASSUME rxCount = 0 PROVE Queued = <<>>
BY DEF Queued

LEMMA FifoInit == UartInit => F!Init
BY QueuedEmpty DEF UartInit, F!Init

\* A character received goes to the end of the sequence.
LEMMA ReceiveCharQueues ==
  ASSUME UartInv, UartInv', NEW c \in Char, ReceiveChar(c)
  PROVE  F!Receive(c) \/ F!Drop
<1>1. Queued \in Seq(Char) /\ Len(Queued) = rxCount
  BY QueuedType DEF UartInv
<1>2. CASE rxCount >= FIFO_SIZE
  <2>1. rxCount = FIFO_SIZE
    BY <1>2, UartAssumption DEF UartInv, UartTypeOK
  <2>2. rxOverrun' = TRUE /\ UNCHANGED <<ringVars, dr>> /\ Queued' = Queued
    BY <1>2 DEF ReceiveChar, ringVars, Queued
  <2>3. QED
    BY <1>1, <2>1, <2>2 DEF F!Drop
<1>3. CASE ~(rxCount >= FIFO_SIZE)
  <2>1. /\ rxFifo' = [rxFifo EXCEPT ![rxHead] = c] /\ rxCount' = rxCount + 1
        /\ UNCHANGED <<rxTail, rxOverrun, dr>>
    BY <1>3 DEF ReceiveChar
  <2>2. /\ rxFifo \in [Slot -> Char] /\ rxTail \in Slot /\ rxHead \in Slot
        /\ rxCount \in 0 .. FIFO_SIZE - 1 /\ rxHead = (rxTail + rxCount) % FIFO_SIZE
    BY <1>3, UartAssumption DEF UartInv, UartTypeOK
  <2>3. Ring(rxFifo', rxTail, rxCount') = Append(Ring(rxFifo, rxTail, rxCount), c)
    <3>1. rxFifo' \in [Slot -> Char]
      BY <2>1, <2>2
    <3>2. rxCount \in 0 .. FIFO_SIZE /\ rxCount' \in 0 .. FIFO_SIZE /\ rxCount' = rxCount + 1
      BY <2>1, <2>2, UartAssumption
    <3>3. rxFifo'[rxHead] = c /\ \A i \in Slot \ {rxHead} : rxFifo'[i] = rxFifo[i]
      BY <2>1, <2>2
    <3>4. ASSUME NEW n \in 0 .. FIFO_SIZE, NEW m \in 0 .. FIFO_SIZE, m = n + 1,
                 rxHead = (rxTail + n) % FIFO_SIZE
          PROVE  Ring(rxFifo', rxTail, m) = Append(Ring(rxFifo, rxTail, n), c)
      <4>1. n + 1 \in 0 .. FIFO_SIZE
        BY <3>4
      <4>2. Ring(rxFifo', rxTail, n + 1) = Append(Ring(rxFifo, rxTail, n), c)
        BY <2>2, <3>1, <3>3, <3>4, <4>1, RingAppend
      <4>3. QED
        BY <3>4, <4>2
    <3>5. QED
      BY <2>2, <3>2, <3>4
  <2>4. Queued' = Append(Queued, c)
    BY <2>1, <2>3 DEF Queued, Ring
  <2>5. Len(Queued) < FIFO_SIZE
    BY <1>1, <1>3, UartAssumption DEF UartInv, UartTypeOK
  <2>6. QED
    BY <2>1, <2>4, <2>5 DEF F!Receive
<1>4. QED
  BY <1>2, <1>3

\* A read takes the first character of the sequence.
LEMMA ReadDataTakes ==
  ASSUME UartInv, ReadData
  PROVE  F!Take \/ F!TakeNothing
<1>1. CASE rxCount = 0
  <2>1. dr' = Zero /\ UNCHANGED <<rxFifo, rxTail, rxCount, rxOverrun>>
    BY <1>1 DEF ReadData, ringVars
  <2>2. Queued = <<>> /\ Queued' = Queued
    BY <1>1, <2>1, QueuedEmpty DEF Queued
  <2>3. QED
    BY <2>1, <2>2 DEF F!TakeNothing
<1>2. CASE rxCount # 0
  <2>1. /\ dr' = rxFifo[rxTail] /\ rxTail' = Following(rxTail)
        /\ rxCount' = rxCount - 1 /\ UNCHANGED <<rxFifo, rxOverrun>>
    BY <1>2 DEF ReadData
  <2>2. rxFifo \in [Slot -> Char] /\ rxTail \in Slot /\ rxCount \in 1 .. FIFO_SIZE
    BY <1>2, UartAssumption DEF UartInv, UartTypeOK
  <2>3. /\ Ring(rxFifo, rxTail, rxCount) # <<>>
        /\ Head(Ring(rxFifo, rxTail, rxCount)) = rxFifo[rxTail]
        /\ Ring(rxFifo, Following(rxTail), rxCount - 1) = Tail(Ring(rxFifo, rxTail, rxCount))
    BY <2>2, RingTail
  <2>4. Queued # <<>> /\ dr' = Head(Queued) /\ Queued' = Tail(Queued)
    BY <2>1, <2>3 DEF Queued, Ring
  <2>5. QED
    BY <2>1, <2>4 DEF F!Take
<1>3. QED
  BY <1>1, <1>2

\* Every step of the UART is one of the queue, or leaves it alone.
LEMMA FifoStep == UartInv /\ [UartNext]_uartVars => [F!Next]_F!fifoVars
<1> SUFFICES ASSUME UartInv, [UartNext]_uartVars PROVE [F!Next]_F!fifoVars
  OBVIOUS
<1>1. ASSUME NEW c \in Char, ReceiveChar(c) PROVE F!Next
  <2>1. UartInv'
    BY UartStepInv
  <2>2. F!Receive(c) \/ F!Drop
    BY <1>1, <2>1, ReceiveCharQueues
  <2>3. QED
    BY <2>2 DEF F!Next
<1>2. CASE ReadData
  BY <1>2, ReadDataTakes DEF F!Next
<1>3. CASE ReadStatus
  BY <1>3 DEF ReadStatus, ringVars, Queued, F!fifoVars
<1>4. CASE WriteStatus
  <2>1. F!Acknowledge
    BY <1>4 DEF WriteStatus, ringVars, Queued, F!Acknowledge
  <2>2. QED
    BY <2>1 DEF F!Next
<1>5. ASSUME NEW c \in Control, WriteControl(c) PROVE UNCHANGED F!fifoVars
  BY <1>5 DEF WriteControl, ringVars, Queued, F!fifoVars
<1>6. CASE UartReset
  <2>1. rxCount' = 0 /\ rxOverrun' = FALSE /\ dr' = dr
    BY <1>6 DEF UartReset
  <2>2. Queued' = <<>>
    BY <2>1 DEF Queued
  <2>3. QED
    BY <2>1, <2>2 DEF F!Clear, F!Next
<1>7. CASE UNCHANGED uartVars
  BY <1>7 DEF uartVars, Queued, F!fifoVars
<1>8. QED
  BY <1>1, <1>2, <1>3, <1>4, <1>5, <1>6, <1>7 DEF UartNext

\* The ring implements the bounded queue: what was typed comes out once and in
\* order, and nothing is dropped without the overrun flag.
THEOREM ImplementsFifo == UartSpec => Fifo
BY UartSafe, FifoInit, FifoStep, PTL DEF UartSpec, Fifo, F!Spec

-----------------------------------------------------------------------------
\* What emfe_run's unpolled instruction must not be for these results: at RTI it
\* takes the interrupt line of a character that has been read.
RtiUnpaused == "rti" \notin PausesAt

Byte == Char \cup {"LF", ">", " "}

\* An answer is a sequence of bytes, of at least one.
LEMMA ReplyType ==
  ASSUME NEW c \in Char
  PROVE  Reply(c) \in Seq(Byte) /\ Reply(c) # <<>>
<1>1. c \in Byte /\ CR \in Byte /\ "LF" \in Byte /\ ">" \in Byte /\ " " \in Byte
  BY EchoAssumption DEF Byte
<1>2. \A x \in Byte : <<x>> \in Seq(Byte) /\ <<x>> # <<>>
  OBVIOUS
<1>3. \A x, y, z, w \in Byte : <<x, y, z, w>> \in Seq(Byte) /\ <<x, y, z, w>> # <<>>
  OBVIOUS
<1>4. QED
  BY <1>1, <1>2, <1>3 DEF Reply
-----------------------------------------------------------------------------
(***************************************************************************)
(* The guest: when the line is up, there is a character behind it.         *)
(***************************************************************************)
\* Interrupts are off everywhere but in the idle loop, so a handler is always
\* entered from there, and an interrupt line that has not been polled since a
\* character was read is met only inside the handler.
GuestInv ==
  /\ pc \in Program /\ saved \in Program /\ phase \in {"execute", "poll", "check"}
  /\ iFlag \in BOOLEAN /\ irqLine \in BOOLEAN
  /\ iFlag <=> pc # "idle"
  /\ pc \in {"load", "echo", "rti"} => saved = "idle"
  /\ pc = "load" => phase = "execute" /\ rxCount > 0
  /\ phase # "poll" /\ irqLine /\ pc \in {"sei", "enable", "cli", "idle"} => rxCount > 0
  /\ ~cr.txIrq

\* What the handler has sent for a character and what it still has to send.
EchoInv ==
  /\ accepted \in Seq(Char) /\ output \in Seq(Seq(Byte)) /\ pending \in Seq(Byte)
  /\ Len(accepted) = Len(output) + rxCount
  /\ \A k \in 1 .. rxCount : Queued[k] = accepted[Len(output) + k]
  /\ \A k \in 1 .. Len(output) :
       k < Len(output) \/ pc # "echo" => output[k] = Reply(accepted[k])
  /\ pc = "echo" => /\ output # <<>> /\ pending # <<>>
                    /\ output[Len(output)] \o pending = Reply(accepted[Len(output)])

\* Every step is one of the UART's or leaves it alone.
LEMMA UartInEcho == ASSUME UartInv, [Next]_vars PROVE UartInv'
<1>1. [UartNext]_uartVars
  <2> USE DEF UartNext
  <2>1. ASSUME NEW c \in Char, Type(c) PROVE UartNext
    BY <2>1 DEF Type
  <2>2. CASE Enable
    BY <2>2 DEF Enable, Control
  <2>3. CASE Load
    BY <2>3 DEF Load
  <2>4. CASE Reset
    BY <2>4 DEF Reset
  <2>5. CASE Sei \/ Cli \/ Idle \/ Echo \/ Rti \/ Poll \/ Check \/ UNCHANGED vars
    BY <2>5 DEF Sei, Cli, Idle, Echo, Rti, Poll, Check, uartVars, vars
  <2>6. QED
    BY <2>1, <2>2, <2>3, <2>4, <2>5 DEF Next, Guest
<1>2. QED
  BY <1>1, UartStepInv

LEMMA GuestStep ==
  ASSUME RtiUnpaused, UartInv, GuestInv, [Next]_vars
  PROVE  GuestInv'
<1> USE DEF GuestInv, Program, guestVars, uartVars, ringVars
<1>0. rxCount \in 0 .. FIFO_SIZE /\ FIFO_SIZE \in Nat /\ cr \in Control
  BY UartAssumption DEF UartInv, UartTypeOK
<1>1. ASSUME NEW c \in Char, Type(c) PROVE GuestInv'
  BY <1>0, <1>1 DEF Type, ReceiveChar
<1>2. CASE Sei
  BY <1>2 DEF Sei, At, GoOn, AfterInstruction
<1>3. CASE Enable
  BY <1>3 DEF Enable, At, GoOn, AfterInstruction, WriteControl
<1>4. CASE Cli
  BY <1>4 DEF Cli, At, GoOn, AfterInstruction
<1>5. CASE Idle
  BY <1>5 DEF Idle, At, GoOn, AfterInstruction
<1>6. CASE Load
  BY <1>6 DEF Load, At, GoOn, AfterInstruction, ReadData
<1>7. CASE Echo
  BY <1>7 DEF Echo, At, GoOn, AfterInstruction
<1>8. CASE Rti
  BY <1>8 DEF Rti, At, GoOn, AfterInstruction, RtiUnpaused
<1>9. CASE Poll
  <2>1. irqLine' \in BOOLEAN /\ (irqLine' => rxCount > 0)
    BY <1>0, <1>9 DEF Poll, HasPendingIrq, Control
  <2>2. QED
    BY <1>9, <2>1 DEF Poll, CheckInterrupts
<1>10. CASE Check
  BY <1>10 DEF Check, CheckInterrupts
<1>11. CASE Reset
  BY <1>11 DEF Reset, UartReset, Quiet
<1>12. CASE UNCHANGED vars
  BY <1>12 DEF vars
<1>13. QED
  BY <1>1, <1>2, <1>3, <1>4, <1>5, <1>6, <1>7, <1>8, <1>9, <1>10, <1>11, <1>12
     DEF Next, Guest

LEMMA EchoInitInv == Init => UartInv /\ GuestInv /\ EchoInv
<1> SUFFICES ASSUME Init PROVE UartInv /\ GuestInv /\ EchoInv
  OBVIOUS
<1>1. UartInv
  BY UartInitInv DEF Init
<1>2. GuestInv
  BY DEF Init, UartInit, Quiet, GuestInit, GuestInv, Program
<1>3. EchoInv
  BY DEF Init, UartInit, GuestInit, EchoInv
<1>4. QED
  BY <1>1, <1>2, <1>3

\* The history when the ring, the handler's place and its answer stay.
LEMMA HistoryStays ==
  ASSUME EchoInv, UNCHANGED <<accepted, output, pending, rxFifo, rxTail, rxCount>>,
         pc' = "echo" <=> pc = "echo"
  PROVE  EchoInv'
BY DEF EchoInv, Queued

\* A character that finds room goes to the end of what is queued, and of what is
\* still to be answered.
LEMMA TypeKeepsHistory ==
  ASSUME UartInv, EchoInv, NEW c \in Char, Type(c)
  PROVE  EchoInv'
<1>1. UartInv'
  BY UartInEcho DEF Next
<1>2. F!Receive(c) \/ F!Drop
  BY <1>1, ReceiveCharQueues DEF Type
<1>3. Queued \in Seq(Char) /\ Len(Queued) = rxCount /\ rxCount \in Nat /\ FIFO_SIZE \in Nat
  BY QueuedType, UartAssumption DEF UartInv, UartTypeOK
<1>4. UNCHANGED <<pc, output, pending>>
  BY DEF Type, guestVars
<1>5. CASE rxCount < FIFO_SIZE
  <2> DEFINE n == Len(output)
             q == Queued
             qq == Append(Queued, c)
             acc == Append(accepted, c)
  <2>1. Queued' = qq /\ rxCount' = rxCount + 1 /\ accepted' = acc
    BY <1>2, <1>3, <1>5 DEF F!Receive, F!Drop, Type, ReceiveChar
  <2>2. /\ accepted \in Seq(Char) /\ output \in Seq(Seq(Byte)) /\ pending \in Seq(Byte)
        /\ n \in Nat /\ Len(accepted) = n + rxCount
        /\ \A k \in 1 .. rxCount : q[k] = accepted[n + k]
    BY LenProperties DEF EchoInv
  <2>3. /\ Len(qq) = rxCount + 1 /\ qq[rxCount + 1] = c
        /\ \A k \in 1 .. rxCount : qq[k] = q[k]
    BY <1>3, AppendProperties
  <2>4. /\ acc \in Seq(Char) /\ Len(acc) = n + rxCount + 1 /\ acc[n + rxCount + 1] = c
        /\ \A k \in 1 .. n + rxCount : acc[k] = accepted[k]
    BY <2>2, AppendProperties
  <2> HIDE DEF n, q, qq, acc
  <2>5. ASSUME NEW k \in 1 .. rxCount + 1 PROVE qq[k] = acc[n + k]
    <3>1. CASE k = rxCount + 1
      BY <3>1, <1>3, <2>2, <2>3, <2>4
    <3>2. CASE k # rxCount + 1
      <4>1. k \in 1 .. rxCount /\ n + k \in 1 .. n + rxCount
        BY <3>2, <1>3, <2>2
      <4>2. QED
        BY <4>1, <2>2, <2>3, <2>4
    <3>3. QED
      BY <3>1, <3>2
  <2>6. \A k \in 1 .. n : acc[k] = accepted[k]
    BY <1>3, <2>2, <2>4
  <2>7. output # <<>> => n \in 1 .. n
    BY EmptySeq DEF EchoInv, n
  <2>8. /\ \A k \in 1 .. n : k < n \/ pc # "echo" => output[k] = Reply(accepted[k])
        /\ pc = "echo" => /\ output # <<>> /\ pending # <<>>
                          /\ output[n] \o pending = Reply(accepted[n])
    BY DEF EchoInv, n
  <2>9. /\ \A k \in 1 .. n : k < n \/ pc # "echo" => output[k] = Reply(acc[k])
        /\ pc = "echo" => /\ output # <<>> /\ pending # <<>>
                          /\ output[n] \o pending = Reply(acc[n])
    BY <2>6, <2>7, <2>8
  <2>10. Len(acc) = n + (rxCount + 1)
    BY <1>3, <2>2, <2>4
  <2>11. QED
    BY <1>4, <2>1, <2>2, <2>4, <2>5, <2>9, <2>10 DEF EchoInv, n
<1>6. CASE ~(rxCount < FIFO_SIZE)
  <2>1. rxCount >= FIFO_SIZE
    BY <1>3, <1>6
  <2>2. UNCHANGED <<accepted, rxFifo, rxTail, rxCount>>
    BY <1>6, <2>1 DEF Type, ReceiveChar, ringVars
  <2>3. QED
    BY <1>4, <2>2, HistoryStays
<1>7. QED
  BY <1>5, <1>6

\* The handler reads the oldest character that has no answer.
LEMMA LoadKeepsHistory ==
  ASSUME UartInv, GuestInv, EchoInv, Load
  PROVE  EchoInv'
<1> DEFINE n == Len(output)
           q == Queued
           qq == Tail(Queued)
           outs == Append(output, <<>>)
<1>1. pc = "load" /\ pc' = "echo" /\ rxCount > 0 /\ accepted' = accepted /\ ReadData
      /\ pending' = Reply(dr') /\ output' = outs
  BY DEF Load, At, GoOn, GuestInv
<1>2. /\ q \in Seq(Char) /\ Len(q) = rxCount /\ rxCount \in Nat /\ rxCount # 0
  BY <1>1, QueuedType, UartAssumption DEF UartInv, UartTypeOK
<1>3. q # <<>>
  BY <1>2, EmptySeq
<1>4. dr' = Head(Queued) /\ Queued' = qq
  BY <1>1, <1>3, ReadDataTakes DEF F!Take, F!TakeNothing
<1>5. rxCount' = rxCount - 1
  BY <1>1, <1>2 DEF ReadData
<1>6. dr' = q[1] /\ dr' \in Char
  BY <1>2, <1>3, <1>4
<1>7. /\ accepted \in Seq(Char) /\ output \in Seq(Seq(Byte)) /\ n \in Nat
      /\ Len(accepted) = n + rxCount
      /\ \A k \in 1 .. rxCount : q[k] = accepted[n + k]
      /\ \A k \in 1 .. n : output[k] = Reply(accepted[k])
  BY <1>1, LenProperties DEF EchoInv
<1>8. \A k \in 1 .. rxCount - 1 : qq[k] = q[k + 1]
  BY <1>2, <1>3, HeadTailProperties
<1>9. /\ outs \in Seq(Seq(Byte)) /\ Len(outs) = n + 1 /\ outs[n + 1] = <<>>
      /\ \A k \in 1 .. n : outs[k] = output[k]
  BY <1>7, AppendProperties
<1>10. pending' \in Seq(Byte) /\ pending' # <<>>
  BY <1>1, <1>6, ReplyType
<1>11. <<>> \o pending' = pending'
  BY <1>10, ConcatEmptySeq
<1> HIDE DEF n, q, qq, outs
<1>12. dr' = accepted[n + 1]
  BY <1>2, <1>6, <1>7
<1>13. Len(accepted') = Len(output') + rxCount'
  BY <1>1, <1>2, <1>5, <1>7, <1>9
<1>14. ASSUME NEW k \in 1 .. rxCount' PROVE Queued'[k] = accepted'[Len(output') + k]
  <2>1. k \in 1 .. rxCount - 1 /\ k + 1 \in 1 .. rxCount /\ n + (k + 1) = (n + 1) + k
    BY <1>2, <1>5, <1>7
  <2>2. qq[k] = accepted[n + (k + 1)]
    BY <2>1, <1>7, <1>8
  <2>3. QED
    BY <2>1, <2>2, <1>1, <1>4, <1>9
<1>15. ASSUME NEW k \in 1 .. Len(output'), k < Len(output')
       PROVE  output'[k] = Reply(accepted'[k])
  <2>1. k \in 1 .. n
    BY <1>7, <1>9, <1>1, <1>15
  <2>2. QED
    BY <2>1, <1>1, <1>7, <1>9
<1>16. output' # <<>>
  BY <1>1, <1>7, <1>9, EmptySeq
<1>17. output'[Len(output')] \o pending' = Reply(accepted'[Len(output')])
  BY <1>1, <1>9, <1>11, <1>12
<1>18. QED
  BY <1>1, <1>7, <1>9, <1>10, <1>13, <1>14, <1>15, <1>16, <1>17 DEF EchoInv

\* A byte sent moves from what is left of the answer to what the console shows.
LEMMA EchoKeepsHistory ==
  ASSUME UartInv, GuestInv, EchoInv, Echo
  PROVE  EchoInv'
<1> DEFINE n == Len(output)
           last == output[n]
           more == Append(last, Head(pending))
           outs == [output EXCEPT ![n] = more]
           whole == Reply(accepted[n])
<1>1. /\ pc = "echo" /\ pc' = (IF Len(pending) > 1 THEN "echo" ELSE "rti")
      /\ output' = outs /\ pending' = Tail(pending)
      /\ UNCHANGED <<accepted, rxFifo, rxTail, rxCount>>
  BY DEF Echo, At, GoOn, uartVars
<1>2. /\ accepted \in Seq(Char) /\ output \in Seq(Seq(Byte)) /\ pending \in Seq(Byte)
      /\ Len(accepted) = n + rxCount
      /\ \A k \in 1 .. rxCount : Queued[k] = accepted[n + k]
      /\ \A k \in 1 .. n : k < n => output[k] = Reply(accepted[k])
      /\ output # <<>> /\ pending # <<>> /\ last \o pending = whole
  BY <1>1 DEF EchoInv
<1>3. n \in Nat /\ n \in 1 .. n /\ last \in Seq(Byte)
  BY <1>2, EmptySeq, ElementOfSeq
<1>4. Len(pending) \in Nat /\ Len(pending) # 0 /\ Head(pending) \in Byte
  BY <1>2, EmptySeq
<1>5. Tail(pending) \in Seq(Byte) /\ Len(Tail(pending)) = Len(pending) - 1
  BY <1>2, HeadTailProperties
<1>6. more \in Seq(Byte)
  BY <1>3, <1>4, AppendProperties
<1>7. more \o Tail(pending) = whole
  BY <1>2, <1>3, MoveHead
<1>8. /\ outs \in Seq(Seq(Byte)) /\ Len(outs) = n
      /\ \A k \in 1 .. n : outs[k] = IF k = n THEN more ELSE output[k]
  BY <1>2, <1>3, <1>6, ExceptSeq
<1>9. Queued' = Queued
  BY <1>1 DEF Queued
<1>10. Tail(pending) = <<>> <=> ~(Len(pending) > 1)
  BY <1>4, <1>5, EmptySeq
<1>11. Tail(pending) = <<>> => more = whole
  BY <1>6, <1>7, ConcatEmptySeq
<1> HIDE DEF n, last, more, outs, whole
<1>12. outs # <<>>
  BY <1>3, <1>8, EmptySeq
<1>13. ASSUME NEW k \in 1 .. n, k < n \/ pc' # "echo" PROVE outs[k] = Reply(accepted[k])
  <2>1. CASE k = n
    BY <2>1, <1>1, <1>3, <1>8, <1>10, <1>11, <1>13 DEF whole
  <2>2. CASE k # n
    <3>1. k < n
      BY <2>2, <1>3
    <3>2. output[k] = Reply(accepted[k]) /\ outs[k] = output[k]
      BY <2>2, <3>1, <1>2, <1>8
    <3>3. QED
      BY <3>2
  <2>3. QED
    BY <2>1, <2>2
<1>14. pc' = "echo" => Tail(pending) # <<>>
  BY <1>1, <1>10
<1>15. outs[n] \o Tail(pending) = Reply(accepted[n])
  BY <1>3, <1>7, <1>8 DEF whole
<1>16. QED
  BY <1>1, <1>2, <1>5, <1>8, <1>9, <1>12, <1>13, <1>14, <1>15 DEF EchoInv, n

\* The answers given and the characters to be answered stay in step.
LEMMA EchoStep ==
  ASSUME UartInv, GuestInv, EchoInv, [Next]_vars
  PROVE  EchoInv'
<1> USE DEF uartVars, guestVars
<1>1. ASSUME NEW c \in Char, Type(c) PROVE EchoInv'
  BY <1>1, TypeKeepsHistory
<1>2. CASE Sei
  BY <1>2, HistoryStays DEF Sei, At, GoOn
<1>3. CASE Enable
  BY <1>3, HistoryStays DEF Enable, At, GoOn, WriteControl, ringVars
<1>4. CASE Cli
  BY <1>4, HistoryStays DEF Cli, At, GoOn
<1>5. CASE Idle
  BY <1>5, HistoryStays DEF Idle, At, GoOn
<1>6. CASE Load
  BY <1>6, LoadKeepsHistory
<1>7. CASE Echo
  BY <1>7, EchoKeepsHistory
<1>8. CASE Rti
  BY <1>8, HistoryStays DEF Rti, At, GoOn, GuestInv
<1>9. CASE Poll
  BY <1>9, HistoryStays DEF Poll, CheckInterrupts, GuestInv
<1>10. CASE Check
  BY <1>10, HistoryStays DEF Check, CheckInterrupts, GuestInv
<1>11. CASE Reset
  BY <1>11 DEF Reset, UartReset, EchoInv
<1>12. CASE UNCHANGED vars
  BY <1>12, HistoryStays DEF vars
<1>13. QED
  BY <1>1, <1>2, <1>3, <1>4, <1>5, <1>6, <1>7, <1>8, <1>9, <1>10, <1>11, <1>12
     DEF Next, Guest

\* The invariants hold in every reachable state.
LEMMA EchoSafe ==
  ASSUME RtiUnpaused
  PROVE  Spec => [](UartInv /\ GuestInv /\ EchoInv)
<1>1. UartInv /\ GuestInv /\ EchoInv /\ [Next]_vars => (UartInv /\ GuestInv /\ EchoInv)'
  BY UartInEcho, GuestStep, EchoStep
<1>2. QED
  BY <1>1, EchoInitInv, PTL DEF Spec

\* The handler is entered only when there is a character to read, whenever keys are
\* typed and wherever but at RTI the debugger stops.
THEOREM HandlerFindsInput ==
  ASSUME RtiUnpaused
  PROVE  Spec => []HandlerHasInput
<1>1. GuestInv => HandlerHasInput
  BY DEF GuestInv, HandlerHasInput, At
<1>2. QED
  BY <1>1, EchoSafe, PTL

\* What has been sent of an answer is a beginning of it.
LEMMA BeginningOf ==
  ASSUME NEW S, NEW s \in Seq(S), NEW t \in Seq(S)
  PROVE  IsPrefix(s, s \o t)
<1>1. Len(s) \in Nat /\ Len(t) \in Nat /\ Len(s \o t) = Len(s) + Len(t)
  BY LenProperties, ConcatProperties
<1>2. CASE s = <<>>
  <2>1. 0 < 1 /\ Len(s) = 0
    BY <1>2
  <2>2. SubSeq(s, 1, 0) = <<>> /\ SubSeq(s \o t, 1, 0) = <<>>
    BY SubSeqEmpty
  <2>3. QED
    BY <1>1, <2>1, <2>2 DEF IsPrefix
<1>3. CASE s # <<>>
  <2>1. Len(s) \in 1 .. Len(s) /\ 1 \in 1 .. Len(s)
    BY <1>1, <1>3, EmptySeq
  <2>2. SubSeq(s \o t, 1, Len(s)) = SubSeq(s, 1, Len(s))
    BY <2>1, SubSeqOfConcat1
  <2>3. QED
    BY <1>1, <2>2 DEF IsPrefix
<1>4. QED
  BY <1>2, <1>3

\* The console shows the answers to what was queued, in order, nothing left out
\* and nothing invented.
THEOREM ConsoleIsFaithful ==
  ASSUME RtiUnpaused
  PROVE  Spec => []EchoFaithful
<1>1. UartInv /\ EchoInv => EchoFaithful
  <2> SUFFICES ASSUME UartInv, EchoInv PROVE EchoFaithful
    OBVIOUS
  <2>1. /\ accepted \in Seq(Char) /\ output \in Seq(Seq(Byte)) /\ rxCount \in Nat
        /\ Len(output) \in Nat /\ Len(accepted) = Len(output) + rxCount
    BY UartAssumption, LenProperties DEF UartInv, UartTypeOK, EchoInv
  <2>2. ASSUME NEW k \in 1 .. Len(output) PROVE IsPrefix(output[k], Reply(accepted[k]))
    <3>1. output[k] \in Seq(Byte)
      BY <2>1, ElementOfSeq
    <3>2. CASE output[k] = Reply(accepted[k])
      BY <3>1, <3>2, LenProperties DEF IsPrefix
    <3>3. CASE output[k] # Reply(accepted[k])
      <4>1. pc = "echo" /\ k = Len(output)
        BY <2>1, <3>3 DEF EchoInv
      <4>2. output[k] \o pending = Reply(accepted[k]) /\ pending \in Seq(Byte)
        BY <4>1 DEF EchoInv
      <4>3. IsPrefix(output[k], output[k] \o pending)
        BY <3>1, <4>2, BeginningOf
      <4>4. QED
        BY <4>2, <4>3
    <3>4. QED
      BY <3>2, <3>3
  <2>3. QED
    BY <2>1, <2>2 DEF EchoInv, EchoFaithful
<1>2. QED
  BY <1>1, EchoSafe, PTL
=============================================================================
