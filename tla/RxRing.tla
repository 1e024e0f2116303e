-------------------------------- MODULE RxRing --------------------------------
(***************************************************************************)
(* The reception on the links to the main computer                         *)
(* (target/stm32f4/p1/comm2MainComputer.c, usart1_isr) and to the power    *)
(* board (target/stm32f4/p2/comm2pwrBrd.c, usart6_isr): a circular DMA     *)
(* writes what arrives into a ring, and every byte raises an interrupt     *)
(* whose handler reads until it has caught up with the DMA.                *)
(*                                                                         *)
(* The handler has no other count of what is in the ring than the          *)
(* difference of its index and the DMA's: it must not fall behind by the   *)
(* whole ring, 512 bytes or 5 ms.  The DMA has written a byte before the   *)
(* interrupt that it raises is served.  Bytes are numbered as they arrive, *)
(* modulo 2 * Size.                                                        *)
(***************************************************************************)
EXTENDS Naturals

CONSTANT Size   \* RX_FIFO_SIZE

Number == 0 .. 2 * Size - 1
Next2(n) == (n + 1) % (2 * Size)

VARIABLES
  g_rxFifoBuf,
  g_rxFifoReadIndex,
  sndtr,       \* DMA_SNDTR: how many bytes are left until the ring wraps
  pending,     \* the interrupt
  handler,     \* usart1_isr is off, in its loop, or has read the byte that it hands on
  received,    \* its local
  arrived,     \* the number of the byte that arrives next
  handed       \* and of the one the protocol is due next

vars == <<g_rxFifoBuf, g_rxFifoReadIndex, sndtr, pending, handler, received, arrived, handed>>

Index == 0 .. Size - 1

TypeOK ==
  /\ g_rxFifoBuf \in [Index -> Number]
  /\ g_rxFifoReadIndex \in Index
  /\ sndtr \in 1 .. Size
  /\ pending \in BOOLEAN
  /\ handler \in {"off", "loop", "hand"}
  /\ received \in Number /\ arrived \in Number /\ handed \in Number

Init ==
  /\ g_rxFifoBuf = [i \in Index |-> 0]
  /\ g_rxFifoReadIndex = 0
  /\ sndtr = Size
  /\ pending = FALSE /\ handler = "off" /\ received = 0
  /\ arrived = 0 /\ handed = 0

\* How many bytes have arrived that were not read, while they are less than Size.
Behind == (Size - sndtr + Size - g_rxFifoReadIndex) % Size

\* A byte arrives; SNDTR is reloaded when the DMA has reached the ring's end.
Arrive ==
  /\ Behind < Size - 1
  /\ g_rxFifoBuf' = [g_rxFifoBuf EXCEPT ![Size - sndtr] = arrived]
  /\ sndtr' = IF sndtr = 1 THEN Size ELSE sndtr - 1
  /\ arrived' = Next2(arrived)
  /\ pending' = TRUE
  /\ UNCHANGED <<g_rxFifoReadIndex, handler, received, handed>>

Enter ==
  /\ pending /\ handler = "off"
  /\ pending' = FALSE
  /\ handler' = "loop"
  /\ UNCHANGED <<g_rxFifoBuf, g_rxFifoReadIndex, sndtr, received, arrived, handed>>

\* Mutant: one byte for one interrupt.
MutantReadByte ==
  /\ handler = "loop" /\ g_rxFifoReadIndex # Size - sndtr
  /\ received' = g_rxFifoBuf[g_rxFifoReadIndex]
  /\ g_rxFifoReadIndex' = Size - sndtr
  /\ handler' = "hand"
  /\ UNCHANGED <<g_rxFifoBuf, sndtr, pending, arrived, handed>>

ReadByte ==
  /\ handler = "loop" /\ g_rxFifoReadIndex # Size - sndtr
  /\ received' = g_rxFifoBuf[g_rxFifoReadIndex]
  /\ g_rxFifoReadIndex' = (g_rxFifoReadIndex + 1) % Size
  /\ handler' = "hand"
  /\ UNCHANGED <<g_rxFifoBuf, sndtr, pending, arrived, handed>>

\* flawLess_ReceiveIndication.
Hand ==
  /\ handler = "hand"
  /\ handed' = Next2(received)
  /\ handler' = "loop"
  /\ UNCHANGED <<g_rxFifoBuf, g_rxFifoReadIndex, sndtr, pending, received, arrived>>

Leave ==
  /\ handler = "loop" /\ g_rxFifoReadIndex = Size - sndtr
  /\ handler' = "off"
  /\ UNCHANGED <<g_rxFifoBuf, g_rxFifoReadIndex, sndtr, pending, received, arrived, handed>>

Next == Arrive \/ Enter \/ ReadByte \/ Hand \/ Leave

Spec == Init /\ [][Next]_vars

-------------------------------------------------------------------------------
\* The protocol gets every byte once, in the order they arrived, though the DMA
\* writes while the handler reads; and no byte is left in the ring: when the
\* handler has returned for good there is none.
BytesInOrder ==
  /\ handler = "hand" => received = handed
  /\ handler = "off" /\ ~pending => handed = arrived
===============================================================================
