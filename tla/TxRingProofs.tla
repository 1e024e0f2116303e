---------------------------- MODULE TxRingProofs ----------------------------
(***************************************************************************)
(* Theorems about TxRing, the ring from which the DMA of a link sends, for *)
(* every size of the ring and all lengths of what is sent at once, with    *)
(* the gate of the main computer's link or without.                        *)
(***************************************************************************)
EXTENDS TxRing, Integers, TLAPS

\* What the theorems need to know of the constants.
RingAssumption == Size \in Nat \ {0} /\ Lengths \subseteq Nat

Index == 0 .. Size - 1

\* The DMA's transaction lies in the ring and does not wrap, and the numbers of
\* the bytes between the sender and the line are those in the ring.
Shape ==
  /\ end = Wrapped(start + count)
  /\ g_currentTXTransactionSize <= count
  /\ start + g_currentTXTransactionSize <= Size
  /\ stored = Plus(out, count - sent)

\* The inductive invariant.
IInv == TypeOK /\ Shape /\ BytesInOrder /\ RingIsServed

-----------------------------------------------------------------------------
\* A sum of two numbers below the modulus wraps once at most,
LEMMA Wraps ==
  ASSUME NEW m \in Nat \ {0}, NEW n \in 0 .. 2 * m - 1
  PROVE  /\ n < m => n % m = n
         /\ n >= m => n % m = n - m
         /\ n % m \in 0 .. m - 1
  OBVIOUS

\* and sums of three may be wrapped in between.
LEMMA SumsWrap ==
  ASSUME NEW m \in Nat \ {0}, NEW n \in 0 .. m - 1,
         NEW a \in 0 .. m, NEW b \in 0 .. m, a + b <= m
  PROVE  (((n + a) % m) + b) % m = (n + (a + b)) % m
<1>1. PICK t \in 0 .. m - 1 : t = (n + a) % m
  OBVIOUS
<1>2. (n + a < m => t = n + a) /\ (n + a >= m => t = n + a - m)
  BY <1>1
<1>3. PICK x \in 0 .. 2 * m - 1 : x = n + (a + b)
  OBVIOUS
<1>4. PICK y \in 0 .. 2 * m - 1 : y = t + b
  OBVIOUS
<1>5. y % m = x % m
  <2>1. (x < m => x % m = x) /\ (x >= m => x % m = x - m)
    BY Wraps
  <2>2. (y < m => y % m = y) /\ (y >= m => y % m = y - m)
    BY Wraps
  <2>. QED  BY <1>2, <1>3, <1>4, <2>1, <2>2
<1>. QED  BY <1>1, <1>3, <1>4, <1>5

\* An index one round ahead at most, and moving on from it.
LEMMA WrappedIndex ==
  ASSUME RingAssumption, NEW i \in 0 .. 2 * Size - 1
  PROVE  /\ i < Size => Wrapped(i) = i
         /\ i >= Size => Wrapped(i) = i - Size
         /\ Wrapped(i) \in Index
  BY Wraps DEF RingAssumption, Wrapped, Index

\* Moving ahead twice.
LEMMA WrappedTwice ==
  ASSUME RingAssumption, NEW s \in Index, NEW a \in 0 .. Size, NEW b \in 0 .. Size, a + b <= Size
  PROVE  Wrapped(Wrapped(s + a) + b) = Wrapped(s + (a + b))
  BY SumsWrap DEF RingAssumption, Wrapped, Index

\* The numbers of bytes.
LEMMA PlusPlus ==
  ASSUME RingAssumption, NEW n \in Number, NEW a \in 0 .. Size, NEW b \in 0 .. Size
  PROVE  Plus(Plus(n, a), b) = Plus(n, a + b)
<1>1. PICK m \in Nat \ {0} : m = 2 * Size
  BY DEF RingAssumption
<1>2. n \in 0 .. m - 1 /\ a \in 0 .. m /\ b \in 0 .. m /\ a + b <= m
  BY <1>1 DEF RingAssumption, Number
<1>3. (((n + a) % m) + b) % m = (n + (a + b)) % m
  BY <1>2, SumsWrap
<1>. QED  BY <1>1, <1>3 DEF Plus

\* A number of a byte, moved ahead, is one.
LEMMA PlusType ==
  ASSUME RingAssumption, NEW n \in Number, NEW a \in 0 .. Size
  PROVE  Plus(n, a) \in Number /\ Plus(n, 0) = n
<1>1. PICK m \in Nat \ {0} : m = 2 * Size
  BY DEF RingAssumption
<1>2. n \in 0 .. m - 1 /\ n + a \in 0 .. 2 * m - 1 /\ n + 0 = n /\ n \in 0 .. 2 * m - 1 /\ n < m
  BY <1>1 DEF RingAssumption, Number
<1>3. (n + a) % m \in 0 .. m - 1 /\ n % m = n
  BY <1>2, Wraps
<1>. QED  BY <1>1, <1>2, <1>3 DEF Plus, Number

-----------------------------------------------------------------------------
\* What trigger_transmision gives to the DMA lies in the ring.
LEMMA TriggerShape ==
  ASSUME RingAssumption, NEW s \in Index, NEW n \in 0 .. Size, NEW current \in 0 .. Size,
         current <= n, s + current <= Size,
         Trigger(s, n, current)
  PROVE  /\ g_currentTXTransactionSize' \in 0 .. Size
         /\ g_currentTXTransactionSize' <= n
         /\ s + g_currentTXTransactionSize' <= Size
         /\ n > 0 => g_currentTXTransactionSize' > 0
         /\ sent' = IF current = 0 THEN 0 ELSE sent
         /\ current # 0 => g_currentTXTransactionSize' = current
  BY DEF RingAssumption, Index, Trigger, Least

\* At the start the invariant holds.
LEMMA InitIInv ==
  ASSUME RingAssumption, Init
  PROVE  IInv
<1>1. Wrapped(0) = 0 /\ Plus(0, 0) = 0
  BY WrappedIndex, PlusType DEF RingAssumption, Number
<1>2. TypeOK
  <2>1. g_txEnabled \in BOOLEAN
    BY DEF Init
  <2>2. 0 \in 0 .. Size - 1 /\ 0 \in 0 .. Size /\ 0 \in Number
    BY DEF RingAssumption, Number
  <2>3. data \in [0 .. Size - 1 -> Number]
    BY <2>2 DEF Init
  <2>4. timer \in BOOLEAN /\ triggers \in BOOLEAN
    BY DEF Init
  <2>5. sent \in 0 .. g_currentTXTransactionSize
    BY DEF Init
  <2>6. /\ start \in 0 .. Size - 1 /\ end \in 0 .. Size - 1 /\ count \in 0 .. Size
        /\ g_currentTXTransactionSize \in 0 .. Size
        /\ left \in Nat /\ stored \in Number /\ out \in Number
    BY <2>2 DEF Init
  <2>. QED  BY <2>1, <2>3, <2>4, <2>5, <2>6 DEF TypeOK
<1>3. Shape
  BY <1>1 DEF RingAssumption, Init, Shape
<1>4. BytesInOrder /\ RingIsServed
  BY DEF Init, BytesInOrder, RingIsServed
<1>. QED  BY <1>2, <1>3, <1>4 DEF IInv

\* Store keeps the invariant.
LEMMA StoreIInv ==
  ASSUME RingAssumption, IInv, Store
  PROVE  IInv'
<1> DEFINE n == Least(left, Room)
<1>1. /\ start \in Index /\ end \in Index /\ count \in 0 .. Size
      /\ g_currentTXTransactionSize \in 0 .. Size
      /\ sent \in 0 .. g_currentTXTransactionSize
      /\ left \in Nat /\ stored \in Number /\ out \in Number
      /\ data \in [Index -> Number]
      /\ end = Wrapped(start + count)
      /\ g_currentTXTransactionSize <= count
      /\ start + g_currentTXTransactionSize <= Size
      /\ stored = Plus(out, count - sent)
  BY DEF IInv, TypeOK, Shape, Index
<1>2. n \in 0 .. Size /\ n <= left /\ n <= Size - end /\ n <= Size - count
  BY <1>1 DEF RingAssumption, Index, Least, Room
<1>3. /\ data' = [i \in Index |->
            IF i >= end /\ i < end + n THEN Plus(stored, i - end) ELSE data[i]]
      /\ end' = Wrapped(end + n)
      /\ count' = count + n
      /\ left' = left - n
      /\ stored' = Plus(stored, n)
      /\ triggers' = TRUE
      /\ UNCHANGED <<start, g_currentTXTransactionSize, g_txEnabled, timer, sent, out>>
  BY DEF Store, Index
<1> HIDE DEF n
<1>4. PICK c \in 0 .. Size : c = count' /\ c = count + n
  BY <1>1, <1>2, <1>3 DEF RingAssumption
<1>5. end' = Wrapped(start + c) /\ end' \in Index
  <2>1. Wrapped(Wrapped(start + count) + n) = Wrapped(start + (count + n))
    BY <1>1, <1>2, <1>4, WrappedTwice
  <2>2. start + c \in 0 .. 2 * Size - 1
    BY <1>1 DEF RingAssumption, Index
  <2>. QED  BY <2>1, <2>2, <1>1, <1>3, <1>4, WrappedIndex
<1>6. stored' = Plus(out, c - sent) /\ stored' \in Number
  <2>1. count - sent \in 0 .. Size /\ c - sent \in 0 .. Size /\ (count - sent) + n = c - sent
    BY <1>1, <1>2, <1>4 DEF RingAssumption
  <2>2. Plus(Plus(out, count - sent), n) = Plus(out, (count - sent) + n)
    BY <1>1, <1>2, <2>1, PlusPlus
  <2>. QED  BY <1>1, <1>3, <2>1, <2>2, PlusType
<1>7. data' \in [Index -> Number]
  <2>1. \A i \in Index : i >= end /\ i < end + n => Plus(stored, i - end) \in Number
    BY <1>1, <1>2, PlusType DEF RingAssumption, Index
  <2>. QED  BY <2>1, <1>1, <1>3
<1>8. BytesInOrder'
  <2> SUFFICES ASSUME NEW i \in 0 .. c - 1, i >= sent
               PROVE  data'[Wrapped(start + i)] = Plus(out, i - sent)
    BY <1>3, <1>4 DEF BytesInOrder
  <2>1. PICK x \in 0 .. 2 * Size - 1 : x = start + i
    BY <1>1 DEF RingAssumption, Index
  <2>2. PICK w \in Index : w = Wrapped(x)
    BY WrappedIndex
  <2>3. (x < Size => w = x) /\ (x >= Size => w = x - Size)
    BY <2>2, WrappedIndex
  <2>4. PICK y \in 0 .. 2 * Size - 1 : y = start + count
    BY <1>1, <1>2, <1>4, <2>1 DEF RingAssumption, Index
  <2>5. (y < Size => end = y) /\ (y >= Size => end = y - Size)
    BY <1>1, <2>4, WrappedIndex
  <2>6. CASE i < count
    <3>1. ~(w >= end /\ w < end + n)
      BY <1>1, <1>2, <2>1, <2>3, <2>4, <2>5, <2>6 DEF RingAssumption, Index
    <3>2. data'[w] = data[w]
      BY <1>3, <3>1
    <3>3. data[Wrapped(start + i)] = Plus(out, i - sent)
      BY <1>1, <2>6 DEF IInv, BytesInOrder
    <3>. QED  BY <2>1, <2>2, <3>2, <3>3
  <2>7. CASE i >= count
    <3>1. PICK k \in 0 .. Size : k = i - count
      BY <1>1, <2>7 DEF RingAssumption
    <3>2. k < n
      BY <1>1, <1>2, <1>4, <3>1
    <3>3. w = end + k
      BY <1>1, <1>2, <2>1, <2>3, <2>4, <2>5, <3>1, <3>2 DEF RingAssumption, Index
    <3>4. w >= end /\ w < end + n /\ w - end = k
      BY <1>1, <1>2, <3>2, <3>3 DEF RingAssumption, Index
    <3>5. data'[w] = Plus(stored, k)
      BY <1>3, <3>4
    <3>6. count - sent \in 0 .. Size /\ (count - sent) + k = i - sent
      BY <1>1, <3>1 DEF RingAssumption
    <3>7. Plus(Plus(out, count - sent), k) = Plus(out, (count - sent) + k)
      BY <1>1, <3>6, PlusPlus
    <3>. QED  BY <1>1, <2>1, <2>2, <3>5, <3>6, <3>7
  <2>. QED  BY <2>6, <2>7, <1>1
<1>9. TypeOK'
  BY <1>1, <1>2, <1>3, <1>4, <1>5, <1>6, <1>7 DEF IInv, TypeOK, Index
<1>10. Shape'
  <2>1. g_currentTXTransactionSize <= c
    BY <1>1, <1>2, <1>4 DEF RingAssumption
  <2>2. end' = Wrapped(start' + count') /\ stored' = Plus(out', count' - sent')
    BY <1>3, <1>4, <1>5, <1>6
  <2>. QED  BY <2>1, <2>2, <1>1, <1>3, <1>4 DEF Shape
<1>11. RingIsServed'
  BY <1>3 DEF RingIsServed
<1>. QED  BY <1>8, <1>9, <1>10, <1>11 DEF IInv

\* TriggerTransmission keeps the invariant.
LEMMA TriggerTransmissionIInv ==
  ASSUME RingAssumption, IInv, TriggerTransmission
  PROVE  IInv'
<1>1. /\ start \in Index /\ count \in 0 .. Size
      /\ g_currentTXTransactionSize \in 0 .. Size
      /\ sent \in 0 .. g_currentTXTransactionSize
      /\ g_currentTXTransactionSize <= count
      /\ start + g_currentTXTransactionSize <= Size
  BY DEF IInv, TypeOK, Shape, Index
<1>2. /\ g_currentTXTransactionSize' \in 0 .. Size
      /\ g_currentTXTransactionSize' <= count
      /\ start + g_currentTXTransactionSize' <= Size
      /\ count > 0 => g_currentTXTransactionSize' > 0
      /\ sent' = IF g_currentTXTransactionSize = 0 THEN 0 ELSE sent
      /\ g_currentTXTransactionSize # 0 => g_currentTXTransactionSize' = g_currentTXTransactionSize
  BY <1>1, TriggerShape DEF TriggerTransmission
<1>3. sent' = sent /\ sent' \in 0 .. g_currentTXTransactionSize'
  BY <1>1, <1>2
<1>. QED  BY <1>1, <1>2, <1>3
          DEF IInv, TypeOK, Shape, BytesInOrder, RingIsServed, TriggerTransmission, fifo

\* SendByte keeps the invariant.
LEMMA SendByteIInv ==
  ASSUME RingAssumption, IInv, SendByte
  PROVE  IInv'
<1>1. /\ count \in 0 .. Size /\ g_currentTXTransactionSize \in 0 .. Size
      /\ sent \in 0 .. g_currentTXTransactionSize /\ g_currentTXTransactionSize <= count
      /\ out \in Number
      /\ stored = Plus(out, count - sent)
  BY DEF IInv, TypeOK, Shape
<1>2. /\ sent < g_currentTXTransactionSize
      /\ sent' = sent + 1
      /\ out' = Plus(out, 1)
      /\ UNCHANGED <<fifo, g_currentTXTransactionSize, g_txEnabled, timer, left, triggers, stored>>
  BY DEF SendByte
<1>3. \A k \in 1 .. Size : Plus(out', k - 1) = Plus(out, k)
  <2> SUFFICES ASSUME NEW k \in 1 .. Size PROVE Plus(Plus(out, 1), k - 1) = Plus(out, k)
    BY <1>2
  <2>1. 1 \in 0 .. Size /\ k - 1 \in 0 .. Size /\ 1 + (k - 1) = k
    BY DEF RingAssumption
  <2>. QED  BY <1>1, <2>1, PlusPlus
<1>4. out' \in Number
  <2>1. 1 \in 0 .. Size
    BY DEF RingAssumption
  <2>. QED  BY <1>1, <1>2, <2>1, PlusType
<1>5. stored' = Plus(out', count' - sent')
  <2>1. count - sent \in 1 .. Size /\ (count - sent) - 1 = count - (sent + 1)
    BY <1>1, <1>2 DEF RingAssumption
  <2>. QED  BY <1>1, <1>2, <1>3, <2>1 DEF fifo
<1>6. BytesInOrder'
  <2> SUFFICES ASSUME NEW i \in 0 .. count - 1, i >= sent + 1
               PROVE  data[Wrapped(start + i)] = Plus(out', i - (sent + 1))
    BY <1>2 DEF BytesInOrder, fifo
  <2>1. data[Wrapped(start + i)] = Plus(out, i - sent)
    BY <1>1 DEF IInv, BytesInOrder
  <2>2. i - sent \in 1 .. Size /\ (i - sent) - 1 = i - (sent + 1)
    BY <1>1 DEF RingAssumption
  <2>. QED  BY <1>3, <2>1, <2>2
<1>7. sent' \in 0 .. g_currentTXTransactionSize'
  BY <1>1, <1>2
<1>. QED  BY <1>2, <1>4, <1>5, <1>6, <1>7 DEF IInv, TypeOK, Shape, RingIsServed, fifo

\* DmaIsr keeps the invariant.
LEMMA DmaIsrIInv ==
  ASSUME RingAssumption, IInv, DmaIsr
  PROVE  IInv'
<1> DEFINE c == g_currentTXTransactionSize
<1>1. /\ start \in Index /\ count \in 0 .. Size /\ c \in 0 .. Size /\ sent = c /\ c > 0
      /\ c <= count /\ start + c <= Size
      /\ out \in Number
      /\ end = Wrapped(start + count)
      /\ stored = Plus(out, count - sent)
  BY DEF IInv, TypeOK, Shape, Index, DmaIsr
<1>2. /\ start' = Wrapped(start + c)
      /\ count' = count - c
      /\ Trigger(start', count', 0)
      /\ UNCHANGED <<data, end, g_txEnabled, timer, left, triggers, stored, out>>
  BY DEF DmaIsr
<1>3. start' \in Index /\ count' \in 0 .. Size
  <2>1. start + c \in 0 .. 2 * Size - 1
    BY <1>1 DEF RingAssumption, Index
  <2>. QED  BY <2>1, <1>1, <1>2, WrappedIndex DEF RingAssumption
<1>4. \A i \in 0 .. count' : Wrapped(start' + i) = Wrapped(start + (c + i))
  <2> SUFFICES ASSUME NEW i \in 0 .. count'
               PROVE  Wrapped(Wrapped(start + c) + i) = Wrapped(start + (c + i))
    BY <1>2
  <2>1. i \in 0 .. Size /\ c + i <= Size
    BY <1>1, <1>2, <1>3 DEF RingAssumption
  <2>. QED  BY <1>1, <2>1, WrappedTwice
<1>5. /\ g_currentTXTransactionSize' \in 0 .. Size
      /\ g_currentTXTransactionSize' <= count'
      /\ start' + g_currentTXTransactionSize' <= Size
      /\ count' > 0 => g_currentTXTransactionSize' > 0
      /\ sent' = 0
  BY <1>2, <1>3 DEF RingAssumption, Index, Trigger, Least
<1>6. end' = Wrapped(start' + count')
  <2>1. count' \in 0 .. count' /\ c + count' = count
    BY <1>1, <1>2, <1>3 DEF RingAssumption
  <2>. QED  BY <1>1, <1>2, <1>4, <2>1
<1>7. stored' = Plus(out', count' - sent')
  <2>1. count' - sent' = count - sent
    BY <1>1, <1>2, <1>3, <1>5 DEF RingAssumption
  <2>. QED  BY <1>1, <1>2, <2>1
<1>8. BytesInOrder'
  <2> SUFFICES ASSUME NEW i \in 0 .. count' - 1
               PROVE  data[Wrapped(start' + i)] = Plus(out, i - 0)
    BY <1>2, <1>5 DEF BytesInOrder
  <2>1. i \in 0 .. count' /\ c + i \in 0 .. count - 1 /\ c + i >= sent /\ (c + i) - sent = i - 0
    BY <1>1, <1>2, <1>3 DEF RingAssumption
  <2>2. data[Wrapped(start + (c + i))] = Plus(out, (c + i) - sent)
    BY <2>1 DEF IInv, BytesInOrder
  <2>. QED  BY <1>4, <2>1, <2>2
<1>9. sent' \in 0 .. g_currentTXTransactionSize'
  BY <1>5
<1>. QED  BY <1>2, <1>3, <1>5, <1>6, <1>7, <1>8, <1>9 DEF IInv, TypeOK, Shape, RingIsServed, Index

\* Every step keeps the invariant.
LEMMA NextIInv ==
  ASSUME RingAssumption, IInv, [Next]_vars
  PROVE  IInv'
<1>1. CASE Send
  BY <1>1 DEF RingAssumption, IInv, TypeOK, Shape, BytesInOrder, RingIsServed, Send, fifo
<1>2. CASE Heard
  BY <1>2 DEF IInv, TypeOK, Shape, BytesInOrder, RingIsServed, Heard, fifo
<1>3. CASE OnCommunicationTimeout
  BY <1>3 DEF IInv, TypeOK, Shape, BytesInOrder, RingIsServed, OnCommunicationTimeout, fifo
<1>4. CASE UNCHANGED vars
  BY <1>4 DEF IInv, TypeOK, Shape, BytesInOrder, RingIsServed, vars, fifo
<1>. QED
  BY <1>1, <1>2, <1>3, <1>4, StoreIInv, TriggerTransmissionIInv, SendByteIInv, DmaIsrIInv DEF Next

\* Every state of every behaviour satisfies the inductive invariant.
THEOREM Invariance ==
  ASSUME RingAssumption
  PROVE  Spec => []IInv
<1>1. Init => IInv
  BY InitIInv
<1>2. IInv /\ [Next]_vars => IInv'
  BY NextIInv
<1>. QED  BY <1>1, <1>2, PTL DEF Spec

\* The bytes that the DMA has still to send are those that were stored, in their
\* order, though phySendFunction stores while the DMA reads: it never writes
\* over a byte that is not sent, wherever the ring wraps.
THEOREM SentAsStored ==
  ASSUME RingAssumption
  PROVE  Spec => []BytesInOrder
<1>1. IInv => BytesInOrder
  BY DEF IInv
<1>. QED  BY <1>1, Invariance, PTL

\* Nobody who waits for room in the ring waits for a DMA that has nothing to do:
\* with bytes in the ring there is a transaction, or trigger_transmision is about
\* to be called.
THEOREM RingIsAlwaysServed ==
  ASSUME RingAssumption
  PROVE  Spec => []RingIsServed
<1>1. IInv => RingIsServed
  BY DEF IInv
<1>. QED  BY <1>1, Invariance, PTL

=============================================================================
