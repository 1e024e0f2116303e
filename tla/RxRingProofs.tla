---------------------------- MODULE RxRingProofs ----------------------------
(***************************************************************************)
(* Theorems about RxRing, the ring that the DMA of a link receives into,   *)
(* for every size of the ring.                                             *)
(***************************************************************************)
EXTENDS RxRing, Integers, TLAPS

\* What the theorems need to know of the constant.
RingAssumption == Size \in Nat \ {0}

\* The number of the byte that the handler reads next.
Due == IF handler = "hand" THEN Next2(handed) ELSE handed

\* The bytes that were not read lie behind each other from the index of the
\* handler to that of the DMA, and the handler has none of them left when it
\* returns for good.
Unread ==
  /\ arrived = (Due + Behind) % (2 * Size)
  /\ \A i \in 0 .. Behind - 1 :
       g_rxFifoBuf[(g_rxFifoReadIndex + i) % Size] = (Due + i) % (2 * Size)
  /\ handler = "hand" => received = handed
  /\ handler = "off" /\ ~pending => Behind = 0

\* The inductive invariant.
IInv == TypeOK /\ Unread

-----------------------------------------------------------------------------
\* A sum of two numbers below the modulus wraps once at most,
LEMMA Wraps ==
  ASSUME NEW m \in Nat \ {0}, NEW n \in 0 .. 2 * m - 1
  PROVE  /\ n < m => n % m = n
         /\ n >= m => n % m = n - m
         /\ n % m \in 0 .. m - 1
  OBVIOUS

\* and one may be added before or after.
LEMMA NextWraps ==
  ASSUME NEW m \in Nat \ {0}, NEW n \in 0 .. m - 1, NEW a \in 0 .. m - 1
  PROVE  /\ (((n + 1) % m) + a) % m = (n + (a + 1)) % m
         /\ (((n + a) % m) + 1) % m = (n + (a + 1)) % m
<1>1. PICK x \in 0 .. 2 * m - 1 : x = n + (a + 1)
  OBVIOUS
<1>2. (x < m => x % m = x) /\ (x >= m => x % m = x - m)
  BY Wraps
<1>3. (((n + 1) % m) + a) % m = x % m
  <2>1. PICK t \in 0 .. m - 1 : t = (n + 1) % m
    OBVIOUS
  <2>2. (n + 1 < m => t = n + 1) /\ (n + 1 >= m => t = n + 1 - m)
    BY <2>1
  <2>3. PICK y \in 0 .. 2 * m - 1 : y = t + a
    OBVIOUS
  <2>4. (y < m => y % m = y) /\ (y >= m => y % m = y - m)
    BY Wraps
  <2>. QED  BY <1>1, <1>2, <2>1, <2>2, <2>3, <2>4
<1>4. (((n + a) % m) + 1) % m = x % m
  <2>1. PICK t \in 0 .. m - 1 : t = (n + a) % m
    OBVIOUS
  <2>2. (n + a < m => t = n + a) /\ (n + a >= m => t = n + a - m)
    BY <2>1
  <2>3. PICK y \in 0 .. 2 * m - 1 : y = t + 1
    OBVIOUS
  <2>4. (y < m => y % m = y) /\ (y >= m => y % m = y - m)
    BY Wraps
  <2>. QED  BY <1>1, <1>2, <2>1, <2>2, <2>3, <2>4
<1>. QED  BY <1>1, <1>3, <1>4

\* The numbers of bytes.
LEMMA Numbers ==
  ASSUME RingAssumption, NEW n \in Number, NEW a \in 0 .. Size
  PROVE  /\ (n + a) % (2 * Size) \in Number
         /\ (n + 0) % (2 * Size) = n
         /\ Next2(n) \in Number
         /\ (Next2(n) + a) % (2 * Size) = (n + (a + 1)) % (2 * Size)
         /\ Next2((n + a) % (2 * Size)) = (n + (a + 1)) % (2 * Size)
<1>1. PICK m \in Nat \ {0} : m = 2 * Size
  BY DEF RingAssumption
<1>2. n \in 0 .. m - 1 /\ a \in 0 .. m - 1
  BY <1>1 DEF RingAssumption, Number
<1>3. (n + a) % m \in 0 .. m - 1 /\ n % m = n /\ n + 0 = n /\ (n + 1) % m \in 0 .. m - 1
  BY <1>2
<1>4. /\ (((n + 1) % m) + a) % m = (n + (a + 1)) % m
      /\ (((n + a) % m) + 1) % m = (n + (a + 1)) % m
  BY <1>2, NextWraps
<1>. QED  BY <1>1, <1>3, <1>4 DEF Number, Next2

\* The distance from one index of the ring to another.
LEMMA Distance ==
  ASSUME RingAssumption, NEW r \in Index, NEW w \in Index
  PROVE  /\ w >= r => (w + Size - r) % Size = w - r
         /\ w < r => (w + Size - r) % Size = w + Size - r
         /\ (w + Size - r) % Size \in 0 .. Size - 1
<1>1. PICK x \in 0 .. 2 * Size - 1 : x = w + Size - r
  BY DEF RingAssumption, Index
<1>2. (x < Size => x % Size = x) /\ (x >= Size => x % Size = x - Size) /\ x % Size \in 0 .. Size - 1
  BY Wraps DEF RingAssumption
<1>. QED  BY <1>1, <1>2 DEF RingAssumption, Index

\* The index of the DMA, from that of the handler and the bytes not read.
LEMMA WriteIndex ==
  ASSUME RingAssumption, TypeOK
  PROVE  /\ Size - sndtr \in Index
         /\ Behind \in 0 .. Size - 1
         /\ (g_rxFifoReadIndex + Behind) % Size = Size - sndtr
         /\ Behind = 0 <=> g_rxFifoReadIndex = Size - sndtr
         /\ \A i \in 0 .. Behind - 1 : (g_rxFifoReadIndex + i) % Size # Size - sndtr
<1>1. PICK r \in Index : r = g_rxFifoReadIndex
  BY DEF TypeOK
<1>2. PICK w \in Index : w = Size - sndtr
  BY DEF TypeOK, RingAssumption, Index
<1>3. Behind = (w + Size - r) % Size
  BY <1>1, <1>2 DEF Behind
<1>4. PICK b \in 0 .. Size - 1 : b = Behind
  BY <1>3, Distance
<1>5. (w >= r => b = w - r) /\ (w < r => b = w + Size - r)
  BY <1>3, <1>4, Distance
<1>6. \A i \in 0 .. b : /\ r + i < Size => (r + i) % Size = r + i
                        /\ r + i >= Size => (r + i) % Size = r + i - Size
  <2> SUFFICES ASSUME NEW i \in 0 .. b
               PROVE  /\ r + i < Size => (r + i) % Size = r + i
                      /\ r + i >= Size => (r + i) % Size = r + i - Size
    OBVIOUS
  <2>1. PICK x \in 0 .. 2 * Size - 1 : x = r + i
    BY DEF RingAssumption, Index
  <2>2. (x < Size => x % Size = x) /\ (x >= Size => x % Size = x - Size)
    BY Wraps DEF RingAssumption
  <2>. QED  BY <2>1, <2>2 DEF RingAssumption, Index
<1>7. (r + b) % Size = w
  BY <1>5, <1>6 DEF RingAssumption, Index
<1>8. ASSUME NEW i \in 0 .. b - 1 PROVE (r + i) % Size # w
  BY <1>5, <1>6 DEF RingAssumption, Index
<1>9. b = 0 <=> r = w
  BY <1>5 DEF RingAssumption, Index
<1>. QED  BY <1>1, <1>2, <1>4, <1>7, <1>8, <1>9

-----------------------------------------------------------------------------
\* At the start the invariant holds.
LEMMA InitIInv ==
  ASSUME RingAssumption, Init
  PROVE  IInv
<1>1. TypeOK
  <2>1. 0 \in Index /\ 0 \in Number /\ Size \in 1 .. Size
    BY DEF RingAssumption, Index, Number
  <2>2. /\ g_rxFifoBuf \in [Index -> Number] /\ g_rxFifoReadIndex \in Index
        /\ sndtr \in 1 .. Size
        /\ received \in Number /\ arrived \in Number /\ handed \in Number
    BY <2>1 DEF Init
  <2>. QED  BY <2>2 DEF Init, TypeOK
<1>2. Behind = 0
  BY <1>1, WriteIndex DEF RingAssumption, Init
<1>3. Due = 0 /\ (0 + 0) % (2 * Size) = 0
  <2>1. 0 \in Number /\ 0 \in 0 .. Size
    BY DEF RingAssumption, Number
  <2>. QED  BY <2>1, Numbers DEF Init, Due
<1>. QED  BY <1>1, <1>2, <1>3 DEF IInv, Unread, Init

\* What the invariant says of a state, with constants for its numbers.
LEMMA State ==
  ASSUME RingAssumption, IInv
  PROVE  \E r \in Index, w \in Index, b \in 0 .. Size - 1, d \in Number :
           /\ r = g_rxFifoReadIndex /\ w = Size - sndtr /\ b = Behind /\ d = Due
           /\ b = (w + Size - r) % Size
           /\ (r + b) % Size = w
           /\ b = 0 <=> r = w
           /\ \A i \in 0 .. b - 1 : /\ (r + i) % Size # w
                                  /\ g_rxFifoBuf[(r + i) % Size] = (d + i) % (2 * Size)
           /\ arrived = (d + b) % (2 * Size)
<1>1. Due \in Number
  <2>1. 0 \in 0 .. Size
    BY DEF RingAssumption
  <2>. QED  BY <2>1, Numbers DEF IInv, TypeOK, Due
<1>2. g_rxFifoReadIndex \in Index /\ TypeOK /\ Unread
  BY DEF IInv, TypeOK
<1>3. /\ Size - sndtr \in Index
      /\ Behind \in 0 .. Size - 1
      /\ (g_rxFifoReadIndex + Behind) % Size = Size - sndtr
      /\ Behind = 0 <=> g_rxFifoReadIndex = Size - sndtr
      /\ \A i \in 0 .. Behind - 1 : (g_rxFifoReadIndex + i) % Size # Size - sndtr
  BY <1>2, WriteIndex
<1>. QED  BY <1>1, <1>2, <1>3 DEF Unread, Behind

\* Arrive keeps the invariant.
LEMMA ArriveIInv ==
  ASSUME RingAssumption, IInv, Arrive
  PROVE  IInv'
<1>1. PICK r \in Index, w \in Index, b \in 0 .. Size - 1, d \in Number :
           /\ r = g_rxFifoReadIndex /\ w = Size - sndtr /\ b = Behind /\ d = Due
           /\ b = (w + Size - r) % Size
           /\ (r + b) % Size = w
           /\ b = 0 <=> r = w
           /\ \A i \in 0 .. b - 1 : /\ (r + i) % Size # w
                                  /\ g_rxFifoBuf[(r + i) % Size] = (d + i) % (2 * Size)
           /\ arrived = (d + b) % (2 * Size)
  BY State
<1>2. /\ b < Size - 1
      /\ g_rxFifoBuf' = [g_rxFifoBuf EXCEPT ![w] = arrived]
      /\ sndtr' = IF sndtr = 1 THEN Size ELSE sndtr - 1
      /\ arrived' = Next2(arrived)
      /\ pending' = TRUE
      /\ UNCHANGED <<g_rxFifoReadIndex, handler, received, handed>>
  BY <1>1 DEF Arrive
<1>3. PICK x \in Index : /\ sndtr' \in 1 .. Size /\ x = Size - sndtr'
                         /\ w + 1 < Size => x = w + 1
                         /\ w + 1 >= Size => x = 0
  <2>1. PICK n \in 1 .. Size : n = sndtr
    BY DEF IInv, TypeOK
  <2>2. PICK m \in 1 .. Size : m = IF n = 1 THEN Size ELSE n - 1
    BY DEF RingAssumption
  <2>3. /\ w = Size - n /\ sndtr' = m /\ Size - m \in Index
        /\ w + 1 < Size => Size - m = w + 1
        /\ w + 1 >= Size => Size - m = 0
    BY <1>1, <1>2, <2>1, <2>2 DEF RingAssumption, Index
  <2>. QED  BY <2>3
<1>4. Behind' = b + 1 /\ b + 1 \in 0 .. Size
  <2>1. Behind' = (x + Size - r) % Size
    BY <1>1, <1>2, <1>3 DEF Behind
  <2>2. (w >= r => b = w - r) /\ (w < r => b = w + Size - r)
    BY <1>1, Distance
  <2>3. PICK c \in 0 .. Size - 1 : c = (x + Size - r) % Size
    BY Distance
  <2>4. (x >= r => c = x - r) /\ (x < r => c = x + Size - r)
    BY <2>3, Distance
  <2>5. c = b + 1
    BY <1>2, <1>3, <2>2, <2>4 DEF RingAssumption, Index
  <2>6. b + 1 \in 0 .. Size
    BY DEF RingAssumption
  <2>. QED  BY <2>1, <2>3, <2>5, <2>6
<1>5. Due' = d
  BY <1>1, <1>2 DEF Due
<1>6. arrived' = (d + (b + 1)) % (2 * Size) /\ arrived' \in Number
  <2>1. b \in 0 .. Size
    BY DEF RingAssumption
  <2>2. Next2((d + b) % (2 * Size)) = (d + (b + 1)) % (2 * Size)
    BY <2>1, Numbers
  <2>3. (d + (b + 1)) % (2 * Size) \in Number
    BY <1>4, Numbers
  <2>. QED  BY <1>1, <1>2, <2>2, <2>3
<1>7. ASSUME NEW i \in 0 .. b
      PROVE  g_rxFifoBuf'[(r + i) % Size] = (d + i) % (2 * Size)
  <2>1. CASE i = b
    BY <1>1, <1>2, <2>1 DEF IInv, TypeOK
  <2>2. CASE i < b
    <3>1. i \in 0 .. b - 1
      BY <2>2
    <3>2. (r + i) % Size # w /\ g_rxFifoBuf[(r + i) % Size] = (d + i) % (2 * Size)
      BY <1>1, <3>1
    <3>3. (r + i) % Size \in Index
      <4>1. PICK y \in 0 .. 2 * Size - 1 : y = r + i
        BY DEF RingAssumption, Index
      <4>2. y % Size \in 0 .. Size - 1
        BY Wraps DEF RingAssumption
      <4>. QED  BY <4>1, <4>2 DEF Index
    <3>. QED  BY <1>2, <3>2, <3>3 DEF IInv, TypeOK
  <2>. QED  BY <2>1, <2>2
<1>8. Unread'
  <2>1. \A i \in 0 .. b + 1 - 1 : g_rxFifoBuf'[(r + i) % Size] = (d + i) % (2 * Size)
    BY <1>7
  <2>2. g_rxFifoReadIndex' = r
    BY <1>1, <1>2
  <2>3. handler' = "hand" => received' = handed'
    BY <1>2 DEF IInv, Unread
  <2>. QED  BY <1>2, <1>4, <1>5, <1>6, <2>1, <2>2, <2>3 DEF Unread
<1>9. TypeOK'
  <2>1. g_rxFifoBuf' \in [Index -> Number]
    BY <1>2 DEF IInv, TypeOK
  <2>. QED  BY <1>2, <1>3, <1>6, <2>1 DEF IInv, TypeOK
<1>. QED  BY <1>8, <1>9 DEF IInv

\* ReadByte keeps the invariant.
LEMMA ReadByteIInv ==
  ASSUME RingAssumption, IInv, ReadByte
  PROVE  IInv'
<1>1. PICK r \in Index, w \in Index, b \in 0 .. Size - 1, d \in Number :
           /\ r = g_rxFifoReadIndex /\ w = Size - sndtr /\ b = Behind /\ d = Due
           /\ b = (w + Size - r) % Size
           /\ (r + b) % Size = w
           /\ b = 0 <=> r = w
           /\ \A i \in 0 .. b - 1 : /\ (r + i) % Size # w
                                  /\ g_rxFifoBuf[(r + i) % Size] = (d + i) % (2 * Size)
           /\ arrived = (d + b) % (2 * Size)
  BY State
<1>2. /\ d = handed /\ b > 0
      /\ received' = g_rxFifoBuf[r]
      /\ g_rxFifoReadIndex' = (r + 1) % Size
      /\ handler' = "hand"
      /\ UNCHANGED <<g_rxFifoBuf, sndtr, pending, arrived, handed>>
  BY <1>1 DEF ReadByte, Due
<1>3. received' = handed
  <2>1. 0 \in 0 .. b - 1 /\ 0 \in 0 .. Size
    BY <1>2 DEF RingAssumption
  <2>2. r + 0 = r /\ r % Size = r
    BY DEF RingAssumption, Index
  <2>3. (d + 0) % (2 * Size) = d
    BY <2>1, Numbers
  <2>. QED  BY <1>1, <1>2, <2>1, <2>2, <2>3
<1>4. PICK x \in Index : x = g_rxFifoReadIndex' /\ x = (r + 1) % Size
  <2>1. PICK y \in 0 .. 2 * Size - 1 : y = r + 1
    BY DEF RingAssumption, Index
  <2>2. y % Size \in 0 .. Size - 1
    BY Wraps DEF RingAssumption
  <2>. QED  BY <1>2, <2>1, <2>2 DEF Index
<1>5. Behind' = b - 1 /\ b - 1 \in 0 .. Size - 1
  <2>1. Behind' = (w + Size - x) % Size
    BY <1>1, <1>2, <1>4 DEF Behind
  <2>2. (w >= r => b = w - r) /\ (w < r => b = w + Size - r)
    BY <1>1, Distance
  <2>3. PICK c \in 0 .. Size - 1 : c = (w + Size - x) % Size
    BY Distance
  <2>4. (w >= x => c = w - x) /\ (w < x => c = w + Size - x)
    BY <2>3, Distance
  <2>5. (r + 1 < Size => x = r + 1) /\ (r + 1 >= Size => x = 0)
    BY <1>4 DEF RingAssumption, Index
  <2>6. c = b - 1
    BY <1>2, <2>2, <2>4, <2>5 DEF RingAssumption, Index
  <2>. QED  BY <2>1, <2>3, <2>6
<1>6. Due' = Next2(d) /\ Next2(d) \in Number
  <2>1. 0 \in 0 .. Size
    BY DEF RingAssumption
  <2>. QED  BY <1>2, <2>1, Numbers DEF Due
<1>7. ASSUME NEW i \in 0 .. b - 1
      PROVE  (Next2(d) + i) % (2 * Size) = (d + (i + 1)) % (2 * Size)
  <2>1. i \in 0 .. Size
    BY DEF RingAssumption
  <2>. QED  BY <2>1, Numbers
<1>8. arrived' = (Next2(d) + (b - 1)) % (2 * Size)
  <2>1. b - 1 \in 0 .. b - 1 /\ (b - 1) + 1 = b
    BY <1>2
  <2>. QED  BY <1>1, <1>2, <1>7, <2>1
<1>9. ASSUME NEW i \in 0 .. b - 1 - 1
      PROVE  g_rxFifoBuf'[(x + i) % Size] = (Next2(d) + i) % (2 * Size)
  <2>1. i \in 0 .. b - 1 /\ i + 1 \in 0 .. b - 1 /\ i \in 0 .. Size - 1 /\ r \in 0 .. Size - 1
    BY DEF RingAssumption, Index
  <2>2. (((r + 1) % Size) + i) % Size = (r + (i + 1)) % Size
    BY <2>1, NextWraps DEF RingAssumption
  <2>3. g_rxFifoBuf[(r + (i + 1)) % Size] = (d + (i + 1)) % (2 * Size)
    BY <1>1, <2>1
  <2>. QED  BY <1>2, <1>4, <1>7, <2>1, <2>2, <2>3
<1>10. Unread'
  BY <1>2, <1>3, <1>4, <1>5, <1>6, <1>8, <1>9 DEF Unread
<1>11. TypeOK'
  BY <1>2, <1>3, <1>4 DEF IInv, TypeOK
<1>. QED  BY <1>10, <1>11 DEF IInv

\* Every step keeps the invariant.
LEMMA NextIInv ==
  ASSUME RingAssumption, IInv, [Next]_vars
  PROVE  IInv'
<1>1. ASSUME UNCHANGED <<g_rxFifoBuf, g_rxFifoReadIndex, sndtr, arrived>>, Due' = Due,
             TypeOK', handler' = "hand" => received' = handed',
             handler' = "off" /\ ~pending' => Behind = 0
      PROVE  IInv'
  <2>1. Behind' = Behind
    BY <1>1 DEF Behind
  <2>. QED  BY <1>1, <2>1 DEF IInv, Unread
<1>2. CASE Enter
  BY <1>1, <1>2 DEF IInv, TypeOK, Enter, Due
<1>3. CASE Hand
  <2>1. received = handed /\ handed' = Next2(received)
    BY <1>3 DEF IInv, Unread, Hand
  <2>2. Next2(handed) \in Number
    <3>1. 0 \in 0 .. Size
      BY DEF RingAssumption
    <3>. QED  BY <3>1, Numbers DEF IInv, TypeOK
  <2>3. Due' = Due
    BY <1>3, <2>1 DEF Hand, Due
  <2>4. TypeOK'
    BY <1>3, <2>1, <2>2 DEF IInv, TypeOK, Hand
  <2>. QED  BY <1>1, <1>3, <2>3, <2>4 DEF Hand
<1>4. CASE Leave
  <2>1. Behind = 0
    BY <1>4, WriteIndex DEF IInv, Leave
  <2>. QED  BY <1>1, <1>4, <2>1 DEF IInv, TypeOK, Leave, Due
<1>5. CASE UNCHANGED vars
  BY <1>1, <1>5 DEF IInv, TypeOK, Unread, vars, Due
<1>. QED  BY <1>2, <1>3, <1>4, <1>5, ArriveIInv, ReadByteIInv DEF Next

\* Every state of every behaviour satisfies the inductive invariant.
THEOREM Invariance ==
  ASSUME RingAssumption
  PROVE  Spec => []IInv
<1>1. Init => IInv
  BY InitIInv
<1>2. IInv /\ [Next]_vars => IInv'
  BY NextIInv
<1>. QED  BY <1>1, <1>2, PTL DEF Spec

\* The protocol is handed every byte that arrived, once and in order, though the
\* DMA writes while usart1_isr reads, and none is left when the handler is done.
THEOREM HandedAsArrived ==
  ASSUME RingAssumption
  PROVE  Spec => []BytesInOrder
<1>1. IInv => BytesInOrder
  <2> SUFFICES ASSUME IInv, handler = "off", ~pending PROVE handed = arrived
    BY DEF IInv, Unread, BytesInOrder
  <2>1. Due = handed /\ Behind = 0
    BY DEF IInv, Unread, Due
  <2>2. (handed + 0) % (2 * Size) = handed
    <3>1. 0 \in 0 .. Size
      BY DEF RingAssumption
    <3>. QED  BY <3>1, Numbers DEF IInv, TypeOK
  <2>. QED  BY <2>1, <2>2 DEF IInv, Unread
<1>. QED  BY <1>1, Invariance, PTL

=============================================================================
