-------------------------------- MODULE TxRing --------------------------------
(***************************************************************************)
(* The links to the main computer (target/stm32f4/p1/comm2MainComputer.c)  *)
(* and to the power board (target/stm32f4/p2/comm2pwrBrd.c): a sender that *)
(* waits busily for room in a ring, the DMA that empties the ring behind   *)
(* its back, and the interrupt at the end of each transaction.  The first  *)
(* link drops what is sent while nobody has been heard for three seconds.  *)
(*                                                                         *)
(* There is one sender, the main loop.  Bytes are numbered as they are     *)
(* stored, modulo 2 * Size, so that their order can be told.               *)
(***************************************************************************)
EXTENDS Naturals, FiniteSets

CONSTANTS
  Size,      \* TX_FIFO_SIZE
  Lengths,   \* of what is sent at once
  Gated      \* the link has g_txEnabled

Number == 0 .. 2 * Size - 1
Wrapped(i) == i % Size
Plus(n, k) == (n + k) % (2 * Size)
Least(a, b) == IF a <= b THEN a ELSE b

VARIABLES
  data, start, end, count,   \* g_txFifo
  g_currentTXTransactionSize,
  g_txEnabled,
  timer,                     \* onCommunicationTimeout is registered
  sent,                      \* the bytes the DMA has sent of its transaction
  left,                      \* what the sender has still to store
  triggers,                  \* the sender is about to call trigger_transmision
  stored, out                \* the next number stored, and the next one due on the line

fifo == <<data, start, end, count>>
vars == <<fifo, g_currentTXTransactionSize, g_txEnabled, timer, sent, left, triggers,
          stored, out>>

TypeOK ==
  /\ data \in [0 .. Size - 1 -> Number]
  /\ start \in 0 .. Size - 1 /\ end \in 0 .. Size - 1 /\ count \in 0 .. Size
  /\ g_currentTXTransactionSize \in 0 .. Size
  /\ g_txEnabled \in BOOLEAN /\ timer \in BOOLEAN
  /\ sent \in 0 .. g_currentTXTransactionSize
  /\ left \in Nat /\ triggers \in BOOLEAN
  /\ stored \in Number /\ out \in Number

Init ==
  /\ data = [i \in 0 .. Size - 1 |-> 0]
  /\ start = 0 /\ end = 0 /\ count = 0
  /\ g_currentTXTransactionSize = 0
  /\ g_txEnabled = ~Gated /\ timer = FALSE
  /\ sent = 0
  /\ left = 0 /\ triggers = FALSE
  /\ stored = 0 /\ out = 0

\* trigger_transmision, for a ring that starts at s with n bytes, while the
\* transaction is of "current" bytes.
Trigger(s, n, current) ==
  IF current = 0 THEN g_currentTXTransactionSize' = Least(Size - s, n) /\ sent' = 0
                 ELSE g_currentTXTransactionSize' = current /\ UNCHANGED sent

-------------------------------------------------------------------------------
\* phySendFunction1 and phySendFunction2: nothing is sent through a closed gate.
Send ==
  /\ left = 0 /\ ~triggers
  /\ g_txEnabled
  /\ left' \in Lengths
  /\ UNCHANGED <<fifo, g_currentTXTransactionSize, g_txEnabled, timer, sent, triggers,
                 stored, out>>

\* One round of its loop, that may find no room at all.
MutantRoom == Least(Size - end, Size - count + g_currentTXTransactionSize)

Room == Least(Size - end, Size - count)

Store ==
  /\ left > 0 /\ ~triggers
  /\ LET n == Least(left, Room) IN
       /\ data' = [i \in 0 .. Size - 1 |->
            IF i >= end /\ i < end + n THEN Plus(stored, i - end) ELSE data[i]]
       /\ end' = Wrapped(end + n)
       /\ count' = count + n
       /\ left' = left - n
       /\ stored' = Plus(stored, n)
  /\ triggers' = TRUE
  /\ UNCHANGED <<start, g_currentTXTransactionSize, g_txEnabled, timer, sent, out>>

TriggerTransmission ==
  /\ triggers
  /\ Trigger(start, count, g_currentTXTransactionSize)
  /\ triggers' = FALSE
  /\ UNCHANGED <<fifo, g_txEnabled, timer, left, stored, out>>

\* The DMA sends a byte of its transaction.
SendByte ==
  /\ sent < g_currentTXTransactionSize
  /\ sent' = sent + 1
  /\ out' = Plus(out, 1)
  /\ UNCHANGED <<fifo, g_currentTXTransactionSize, g_txEnabled, timer, left, triggers, stored>>

\* dma2_stream7_isr and dma2_stream6_isr, at the end of a transaction. The
\* sender does not run before they have returned.
MutantDmaIsr ==
  /\ g_currentTXTransactionSize > 0 /\ sent = g_currentTXTransactionSize
  /\ start' = Wrapped(start + g_currentTXTransactionSize)
  /\ count' = count - g_currentTXTransactionSize
  /\ g_currentTXTransactionSize' = 0 /\ sent' = 0
  /\ UNCHANGED <<data, end, g_txEnabled, timer, left, triggers, stored, out>>

DmaIsr ==
  /\ g_currentTXTransactionSize > 0 /\ sent = g_currentTXTransactionSize
  /\ start' = Wrapped(start + g_currentTXTransactionSize)
  /\ count' = count - g_currentTXTransactionSize
  /\ Trigger(start', count', 0)
  /\ UNCHANGED <<data, end, g_txEnabled, timer, left, triggers, stored, out>>

-------------------------------------------------------------------------------
\* onReceivedPacket, for a packet from this interface: a periodic timer.
Heard ==
  /\ Gated
  /\ g_txEnabled' = TRUE /\ timer' = TRUE
  /\ UNCHANGED <<fifo, g_currentTXTransactionSize, sent, left, triggers, stored, out>>

OnCommunicationTimeout ==
  /\ timer
  /\ g_txEnabled' = FALSE
  /\ UNCHANGED <<fifo, g_currentTXTransactionSize, timer, sent, left, triggers, stored, out>>

Next ==
  \/ Send \/ Store \/ TriggerTransmission
  \/ SendByte \/ DmaIsr
  \/ Heard \/ OnCommunicationTimeout

Spec == Init /\ [][Next]_vars

-------------------------------------------------------------------------------
\* What the DMA is still to read is what the sender stored, in order, though
\* the sender stores while the DMA reads, across the wrap of the ring.
BytesInOrder ==
  \A i \in 0 .. count - 1 :
    i >= sent => data[Wrapped(start + i)] = Plus(out, i - sent)

\* A sender that finds the ring full is not left waiting: while there are
\* bytes in the ring the DMA has a transaction, or is about to be given one.
RingIsServed == count > 0 => g_currentTXTransactionSize > 0 \/ triggers

===============================================================================
