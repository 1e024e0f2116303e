---------------------------- MODULE P2PLinkProofs ----------------------------
(***************************************************************************)
(* Theorems about P2PLink, for every size of the ring and of the receiver's*)
(* buffer, all lengths of frames, both processors as the sender and any    *)
(* receiver: the blocks of the DMA lie within the bytes that are in the    *)
(* ring and end at the next end of a frame at the latest, whatever the     *)
(* main loop and the handlers do meanwhile, the second fifo holds ends of  *)
(* what is in the ring, in order, and, as long as no frame fills a buffer  *)
(* and the receiver is punctual, the link is a channel of whole frames.    *)
(***************************************************************************)
EXTENDS P2PLink, GenericFifoProofs, TLAPS, FiniteSetTheorems, SequenceTheorems,
        WellFoundedInduction

\* The bytes of the ring.
RingHoldsBytes ==
  \A k \in 0 .. g_txFifo.count - 1 : Peek(g_txFifo, k) \in Bytes

\* d says how far each queued end lies ahead of the ring's start: no nearer than
\* the end of the block that is transmitted, no farther than the last byte, and
\* the older ones no farther than the younger ones.
AreAhead(d) ==
  /\ d \in [1 .. Len(stops) -> g_currentTransmissionCount .. g_txFifo.count]
  /\ \A k \in 1 .. Len(stops) : stops[k] = (g_txFifo.start + d[k]) % FifoSize
  /\ \A k, m \in 1 .. Len(stops) : k <= m => d[k] <= d[m]

\* What is left of a block when n bytes of it are done with: nothing of it is
\* counted any more, or the rest is.
Leaves(n) == g_currentTransmissionCount' \in {0, g_currentTransmissionCount - n}

StopsAreAhead ==
  \E d \in [1 .. Len(stops) -> g_currentTransmissionCount .. g_txFifo.count] : AreAhead(d)

\* The inductive invariant.
IInv ==
  /\ TypeOK
  /\ RingHoldsBytes
  /\ StopsAreAhead
  /\ rxOn => Len(rx) < MaxPacket
  /\ pc = "put" => next <= frame.len
  /\ pc = "stop" => nextStopIndex = g_txFifo.end

-----------------------------------------------------------------------------
\* An index some places ahead of another one in the ring.
LEMMA PlacesAhead ==
  ASSUME NEW s \in Index, NEW n \in 0 .. FifoSize
  PROVE  /\ (s + n) % FifoSize \in Index
         /\ s + n < FifoSize => (s + n) % FifoSize = s + n
         /\ s + n >= FifoSize => (s + n) % FifoSize = s + n - FifoSize
<1>1. s + n \in 0 .. 2 * FifoSize - 1
  BY FifoAssumption DEF Index
<1>. QED  BY <1>1, Wraps, FifoAssumption DEF Index

\* Moving ahead twice.
LEMMA PlacesAdd ==
  ASSUME NEW s \in Index, NEW n \in 0 .. FifoSize, NEW k \in 0 .. FifoSize, n + k <= FifoSize
  PROVE  (((s + n) % FifoSize) + k) % FifoSize = (s + (n + k)) % FifoSize
<1>1. PICK t \in Index : t = (s + n) % FifoSize
  BY PlacesAhead
<1>2. /\ s + n < FifoSize => t = s + n
      /\ s + n >= FifoSize => t = s + n - FifoSize
  BY <1>1, PlacesAhead
<1>3. PICK u \in Index : u = (t + k) % FifoSize
  BY PlacesAhead
<1>4. /\ t + k < FifoSize => u = t + k
      /\ t + k >= FifoSize => u = t + k - FifoSize
  BY <1>3, PlacesAhead
<1>5. n + k \in 0 .. FifoSize
  BY FifoAssumption
<1>6. PICK v \in Index : v = (s + (n + k)) % FifoSize
  BY <1>5, PlacesAhead
<1>7. /\ s + (n + k) < FifoSize => v = s + (n + k)
      /\ s + (n + k) >= FifoSize => v = s + (n + k) - FifoSize
  BY <1>5, <1>6, PlacesAhead
<1>8. u = v
  BY <1>2, <1>4, <1>7, FifoAssumption DEF Index
<1>. QED  BY <1>1, <1>3, <1>6, <1>8

\* The numbers that the ring and the block of the DMA are described by.
LEMMA RingTypes ==
  ASSUME TypeOK
  PROVE  /\ FifoSize \in Nat \ {0}
         /\ g_txFifo.start \in Index /\ g_txFifo.end \in Index
         /\ g_txFifo.count \in 0 .. FifoSize
         /\ g_currentTransmissionCount \in 0 .. g_txFifo.count
         /\ g_txFifo.start + g_currentTransmissionCount <= FifoSize
         /\ moved \in 0 .. g_currentTransmissionCount
         /\ stops \in Seq(Index)
         /\ g_txFifo.data \in [Index -> Bytes \cup {NULL}]
  BY FifoAssumption DEF TypeOK, Fifos

\* A frame is not longer than the buffers.
LEMMA FrameLength ==
  ASSUME NEW f \in Frames
  PROVE  f.len \in MinPacket .. MaxPacket /\ f.len \in Nat /\ MaxPacket \in Nat /\ 1 < MaxPacket
<1>1. PICK n \in Lengths : n = f.len
  BY DEF Frames
<1>2. n \in 2 .. MaxPacket /\ MaxPacket \in Nat
  BY LinkAssumption DEF MinPacket
<1>. QED  BY <1>1, <1>2 DEF MinPacket

\* When the next end is not ahead of the start before the wrap, it is behind it.
LEMMA BlockToWrap ==
  ASSUME IInv, NEW d, AreAhead(d), ~StopAhead
  PROVE  /\ UntilWrap \in 0 .. g_txFifo.count
         /\ g_txFifo.start + UntilWrap <= FifoSize
         /\ \A k \in 1 .. Len(stops) : UntilWrap <= d[k]
<1>1. PICK s \in Index, c \in 0 .. FifoSize : s = g_txFifo.start /\ c = g_txFifo.count
  BY RingTypes DEF IInv
<1>2. PICK u \in 0 .. c : u = UntilWrap /\ s + u <= FifoSize
  BY <1>1, FifoAssumption DEF UntilWrap, Index
<1>3. ASSUME NEW k \in 1 .. Len(stops)
      PROVE  u <= d[k]
  <2>1. /\ 1 \in 1 .. Len(stops) /\ stops # <<>> /\ Head(stops) = stops[1]
        /\ 1 <= k
    BY RingTypes DEF IInv
  <2>2. PICK h \in Int, o \in 0 .. c : o = d[1] /\ h = stops[1] /\ h < s
    <3>1. d[1] \in g_currentTransmissionCount .. g_txFifo.count
      BY <2>1 DEF AreAhead
    <3>2. g_currentTransmissionCount \in Nat
      BY RingTypes DEF IInv
    <3>3. d[1] \in 0 .. c
      BY <1>1, <3>1, <3>2
    <3>4. stops[1] \in Index
      BY <2>1, RingTypes DEF IInv
    <3>5. stops[1] < s /\ stops[1] \in Int
      BY <1>1, <2>1, <3>4, FifoAssumption DEF StopAhead, Index
    <3>. QED  BY <3>3, <3>5
  <2>3. h = (s + o) % FifoSize
    BY <1>1, <2>1, <2>2 DEF AreAhead
  <2>4. o \in 0 .. FifoSize
    BY <1>1, <2>2, FifoAssumption
  <2>5. s + o >= FifoSize
    <3>1. s + o < FifoSize => h = s + o
      BY <2>3, <2>4, PlacesAhead
    <3>. QED  BY <2>2, <2>4, <3>1, FifoAssumption DEF Index
  <2>6. u <= o
    BY <1>2, <2>5, FifoAssumption DEF Index
  <2>7. o <= d[k]
    BY <2>1, <2>2 DEF AreAhead
  <2>8. d[k] \in Int
    <3>1. d[k] \in g_currentTransmissionCount .. g_txFifo.count
      BY DEF AreAhead
    <3>2. g_currentTransmissionCount \in Int /\ g_txFifo.count \in Int
      BY RingTypes DEF IInv
    <3>. QED  BY <3>1, <3>2
  <2>. QED  BY <1>2, <2>2, <2>6, <2>7, <2>8
<1>. QED  BY <1>1, <1>2, <1>3

\* When the next end is ahead, the block that ends there lies within the bytes.
LEMMA BlockToStop ==
  ASSUME IInv, NEW d, AreAhead(d), StopAhead, Head(stops) > g_txFifo.start
  PROVE  /\ Head(stops) - g_txFifo.start \in 0 .. g_txFifo.count
         /\ g_txFifo.start + (Head(stops) - g_txFifo.start) <= FifoSize
         /\ \A k \in 1 .. Len(stops) : Head(stops) - g_txFifo.start <= d[k]
<1>1. PICK s \in Index, c \in 0 .. FifoSize : s = g_txFifo.start /\ c = g_txFifo.count
  BY RingTypes DEF IInv
<1>2. 1 \in 1 .. Len(stops) /\ Head(stops) = stops[1] /\ stops[1] \in Index
  BY RingTypes DEF IInv, StopAhead
<1>3. PICK h \in Index : h = Head(stops)
  BY <1>2
<1>4. PICK o \in 0 .. c : o = d[1]
  <2>1. d[1] \in g_currentTransmissionCount .. g_txFifo.count
    BY <1>2 DEF AreAhead
  <2>2. g_currentTransmissionCount \in Nat
    BY RingTypes DEF IInv
  <2>. QED  BY <1>1, <2>1, <2>2
<1>5. h = (s + o) % FifoSize /\ h > s
  BY <1>1, <1>2, <1>3, <1>4 DEF AreAhead
<1>6. o \in 0 .. FifoSize
  BY <1>1, <1>4, FifoAssumption
<1>7. h - s = o
  <2>1. /\ s + o < FifoSize => h = s + o
        /\ s + o >= FifoSize => h = s + o - FifoSize
    BY <1>5, <1>6, PlacesAhead
  <2>. QED  BY <1>5, <1>6, <2>1, FifoAssumption DEF Index
<1>8. ASSUME NEW k \in 1 .. Len(stops)
      PROVE  o <= d[k]
  BY <1>2, <1>4 DEF AreAhead
<1>. QED  BY <1>1, <1>3, <1>4, <1>7, <1>8, FifoAssumption DEF Index

\* What a step of the sender leaves to show: the ring and the block on it.
SenderOK ==
  /\ g_txFifo \in Fifos(Bytes \cup {NULL})
  /\ IsConsistent(g_txFifo)
  /\ stops \in Seq(Index) /\ Len(stops) <= FifoSize
  /\ g_currentTransmissionCount \in 0 .. g_txFifo.count
  /\ g_txFifo.start + g_currentTransmissionCount <= FifoSize
  /\ moved \in 0 .. g_currentTransmissionCount
  /\ halted \in BOOLEAN
  /\ g_sendState \in {"IDLE", "PAUSED"}
  /\ flank \in BOOLEAN
  /\ RingHoldsBytes
  /\ StopsAreAhead

\* Setting the DMA up for a block that the ends and the ring allow.
LEMMA SetupKeeps ==
  ASSUME IInv, NEW d, AreAhead(d), NEW n \in 0 .. g_txFifo.count, SetupDMA(n),
         g_txFifo.start + n <= FifoSize, \A k \in 1 .. Len(stops) : n <= d[k],
         UNCHANGED g_txFifo
  PROVE  SenderOK' /\ AreAhead(d)'
<1>1. /\ UNCHANGED <<stops, g_sendState, flank, g_txFifo, halted>>
      /\ g_currentTransmissionCount' = n
  BY DEF SetupDMA
<1>2. moved' \in 0 .. g_currentTransmissionCount'
  BY RingTypes DEF SetupDMA, IInv
<1>3. RingHoldsBytes'
  BY <1>1 DEF IInv, RingHoldsBytes, Peek
<1>4. d \in [1 .. Len(stops') -> g_currentTransmissionCount' .. g_txFifo'.count]
  <2>1. ASSUME NEW k \in 1 .. Len(stops)
        PROVE  d[k] \in n .. g_txFifo.count
    <3>1. d[k] \in g_currentTransmissionCount .. g_txFifo.count /\ n <= d[k]
      BY DEF AreAhead
    <3>2. g_currentTransmissionCount \in Int /\ g_txFifo.count \in Int
      BY RingTypes DEF IInv
    <3>. QED  BY <3>1, <3>2
  <2>2. d = [k \in 1 .. Len(stops) |-> d[k]]
    BY DEF AreAhead
  <2>3. d \in [1 .. Len(stops) -> n .. g_txFifo.count]
    BY <2>1, <2>2
  <2>. QED  BY <1>1, <2>3
<1>5. AreAhead(d)'
  BY <1>1, <1>4 DEF AreAhead
<1>6. StopsAreAhead'
  BY <1>4, <1>5 DEF StopsAreAhead
<1>. QED  BY <1>1, <1>2, <1>3, <1>5, <1>6 DEF SenderOK, IInv, TypeOK

\* The ends that are left after the first one has been taken.
LEMMA TakeStop ==
  ASSUME IInv, NEW d, AreAhead(d), stops # <<>>
  PROVE  /\ Tail(stops) \in Seq(Index) /\ Len(Tail(stops)) = Len(stops) - 1
         /\ Len(stops) \in Nat \ {0}
         /\ \A k \in 1 .. Len(stops) - 1 : Tail(stops)[k] = stops[k + 1]
  BY RingTypes DEF IInv

\* The ring after n bytes have left it.
LEMMA DrainedRing ==
  ASSUME IInv, NEW n \in 0 .. g_currentTransmissionCount,
         g_txFifo' = [g_txFifo EXCEPT !.start = (@ + n) % FifoSize, !.count = @ - n]
  PROVE  /\ n \in 0 .. g_txFifo.count /\ g_txFifo.count - n \in 0 .. FifoSize
         /\ g_txFifo'.start \in Index /\ g_txFifo'.start = (g_txFifo.start + n) % FifoSize
         /\ g_txFifo'.count = g_txFifo.count - n
         /\ g_txFifo'.end = g_txFifo.end /\ g_txFifo' \in Fifos(Bytes \cup {NULL})
         /\ \A k \in 0 .. g_txFifo.count - n :
              (g_txFifo'.start + k) % FifoSize = (g_txFifo.start + (n + k)) % FifoSize
         /\ \A k \in 0 .. g_txFifo.count - n : Peek(g_txFifo', k) = Peek(g_txFifo, n + k)
<1>1. PICK s \in Index, c \in 0 .. FifoSize :
        s = g_txFifo.start /\ c = g_txFifo.count /\ n \in 0 .. c /\ n \in Int
  <2>1. g_txFifo.count \in Nat /\ g_currentTransmissionCount \in Nat
    BY RingTypes DEF IInv
  <2>. QED  BY <2>1, RingTypes DEF IInv
<1>2. n \in 0 .. FifoSize /\ c - n \in 0 .. FifoSize
  BY <1>1, FifoAssumption
<1>3. PICK t \in Index : t = (s + n) % FifoSize
  BY <1>2, PlacesAhead
<1>4. /\ g_txFifo'.start = t /\ g_txFifo'.count = c - n
      /\ g_txFifo'.end = g_txFifo.end /\ g_txFifo'.data = g_txFifo.data
      /\ g_txFifo' \in Fifos(Bytes \cup {NULL})
  BY <1>1, <1>2, <1>3 DEF IInv, TypeOK, Fifos
<1>5. \A k \in 0 .. c - n : (t + k) % FifoSize = (s + (n + k)) % FifoSize
  <2>1. ASSUME NEW k \in 0 .. c - n
        PROVE  k \in 0 .. FifoSize /\ n + k <= FifoSize
    BY <1>1, <1>2, FifoAssumption
  <2>. QED  BY <1>2, <1>3, <2>1, PlacesAdd
<1>6. \A k \in 0 .. c - n : Peek(g_txFifo', k) = Peek(g_txFifo, n + k)
  BY <1>1, <1>4, <1>5 DEF Peek
<1>. QED  BY <1>1, <1>2, <1>3, <1>4, <1>5, <1>6

\* The ends come nearer by the bytes that have left it.
LEMMA DrainAhead ==
  ASSUME IInv, NEW n \in 0 .. g_currentTransmissionCount,
         g_txFifo' = [g_txFifo EXCEPT !.start = (@ + n) % FifoSize, !.count = @ - n],
         Leaves(n), NEW d, AreAhead(d), NEW l \in Nat, l = Len(stops)
  PROVE  /\ stops' = stops => AreAhead([k \in 1 .. l |-> d[k] - n])'
         /\ stops # <<>> /\ stops' = Tail(stops)
              => AreAhead([k \in 1 .. l - 1 |-> d[k + 1] - n])'
<1>1. PICK c \in 0 .. FifoSize :
        /\ c = g_txFifo.count /\ n \in 0 .. c /\ n \in Int
        /\ g_currentTransmissionCount \in n .. c /\ g_txFifo'.count = c - n
        /\ g_currentTransmissionCount' \in 0 .. g_currentTransmissionCount - n
  <2>1. /\ g_txFifo.count \in 0 .. FifoSize
        /\ g_currentTransmissionCount \in 0 .. g_txFifo.count
    BY RingTypes DEF IInv
  <2>2. n \in 0 .. g_txFifo.count /\ g_txFifo'.count = g_txFifo.count - n
    BY DrainedRing
  <2>. QED  BY <2>1, <2>2, FifoAssumption DEF Leaves
<1>2. ASSUME NEW k \in 1 .. l
      PROVE  /\ d[k] \in Int /\ d[k] - n \in g_currentTransmissionCount' .. c - n
             /\ stops[k] = (g_txFifo'.start + (d[k] - n)) % FifoSize
  <2>1. PICK o \in g_currentTransmissionCount .. c : o = d[k]
    BY <1>1 DEF AreAhead
  <2>2. /\ o \in Int /\ o - n \in 0 .. c - n /\ n + (o - n) = o
        /\ o - n \in g_currentTransmissionCount' .. c - n
    BY <1>1, <2>1
  <2>3. stops[k] = (g_txFifo.start + o) % FifoSize
    BY <1>1, <2>1 DEF AreAhead
  <2>4. (g_txFifo'.start + (o - n)) % FifoSize = (g_txFifo.start + (n + (o - n))) % FifoSize
    BY <1>1, <2>2, DrainedRing
  <2>. QED  BY <2>1, <2>2, <2>3, <2>4
<1>3. \A k, m \in 1 .. l : k <= m => d[k] - n <= d[m] - n
  <2>1. ASSUME NEW k \in 1 .. l, NEW m \in 1 .. l, k <= m
        PROVE  d[k] - n <= d[m] - n
    <3>1. d[k] <= d[m]
      BY <2>1 DEF AreAhead
    <3>. QED  BY <1>1, <1>2, <3>1
  <2>. QED  BY <2>1
<1>4. ASSUME stops' = stops
      PROVE  AreAhead([k \in 1 .. l |-> d[k] - n])'
  <2> DEFINE e == [k \in 1 .. l |-> d[k] - n]
  <2>1. Len(stops') = l /\ stops' = stops
    BY <1>4
  <2>2. e \in [1 .. Len(stops') -> g_currentTransmissionCount' .. g_txFifo'.count]
    BY <1>1, <1>2, <2>1
  <2>3. \A k \in 1 .. l : stops'[k] = (g_txFifo'.start + e[k]) % FifoSize
    BY <1>2, <2>1
  <2>4. \A k, m \in 1 .. l : k <= m => e[k] <= e[m]
    BY <1>3
  <2> HIDE DEF e
  <2>5. AreAhead(e)'
    BY <2>1, <2>2, <2>3, <2>4 DEF AreAhead
  <2>. QED  BY <2>5 DEF e
<1>5. ASSUME stops # <<>>, stops' = Tail(stops)
      PROVE  AreAhead([k \in 1 .. l - 1 |-> d[k + 1] - n])'
  <2> DEFINE e == [k \in 1 .. l - 1 |-> d[k + 1] - n]
  <2>1. /\ stops' \in Seq(Index) /\ Len(stops') = l - 1 /\ l \in Nat \ {0}
        /\ \A k \in 1 .. l - 1 : stops'[k] = stops[k + 1]
    BY <1>5, TakeStop
  <2>2. \A k \in 1 .. l - 1 : k + 1 \in 1 .. l
    BY <2>1
  <2>3. e \in [1 .. Len(stops') -> g_currentTransmissionCount' .. g_txFifo'.count]
    BY <1>1, <1>2, <2>1, <2>2
  <2>4. \A k \in 1 .. l - 1 : stops'[k] = (g_txFifo'.start + e[k]) % FifoSize
    BY <1>2, <2>1, <2>2
  <2>5. \A k, m \in 1 .. l - 1 : k <= m => e[k] <= e[m]
    <3>1. \A k, m \in 1 .. l - 1 : k <= m => k + 1 <= m + 1
      OBVIOUS
    <3>. QED  BY <1>3, <2>2, <3>1
  <2>6. 1 .. Len(stops') = 1 .. l - 1
    BY <2>1
  <2> HIDE DEF e
  <2>7. /\ \A k \in 1 .. Len(stops') : stops'[k] = (g_txFifo'.start + e[k]) % FifoSize
        /\ \A k, m \in 1 .. Len(stops') : k <= m => e[k] <= e[m]
    BY <2>4, <2>5, <2>6
  <2>8. AreAhead(e)'
    BY <2>3, <2>7 DEF AreAhead
  <2>. QED  BY <2>8 DEF e
<1>. QED  BY <1>4, <1>5

\* n bytes leave the ring, and the end of a frame they may complete is taken.
LEMMA DrainKeeps ==
  ASSUME IInv, NEW n \in 0 .. g_currentTransmissionCount,
         g_txFifo' = [g_txFifo EXCEPT !.start = (@ + n) % FifoSize, !.count = @ - n],
         Leaves(n), moved' = 0,
         stops' = stops \/ (stops # <<>> /\ stops' = Tail(stops)),
         g_sendState' \in {"IDLE", "PAUSED"}, flank' \in BOOLEAN, halted' \in BOOLEAN
  PROVE  SenderOK'
<1>1. PICK c \in 0 .. FifoSize :
        /\ c = g_txFifo.count /\ n \in 0 .. c /\ n \in Int
        /\ c - n \in 0 .. c - n /\ n + (c - n) = c /\ g_txFifo'.count = c - n
  <2>1. g_txFifo.count \in 0 .. FifoSize
    BY RingTypes DEF IInv
  <2>2. n \in 0 .. g_txFifo.count /\ g_txFifo'.count = g_txFifo.count - n
    BY DrainedRing
  <2>. QED  BY <2>1, <2>2, FifoAssumption
<1>2. IsConsistent(g_txFifo')
  <2>1. g_txFifo.end = (g_txFifo.start + c) % FifoSize
    BY <1>1 DEF IInv, TypeOK, IsConsistent
  <2>2. (g_txFifo'.start + (c - n)) % FifoSize = (g_txFifo.start + (n + (c - n))) % FifoSize
    BY <1>1, DrainedRing
  <2>. QED  BY <1>1, <2>1, <2>2, DrainedRing DEF IsConsistent
<1>3. RingHoldsBytes'
  <2>1. ASSUME NEW k \in 0 .. g_txFifo'.count - 1
        PROVE  Peek(g_txFifo', k) \in Bytes
    <3>1. k \in 0 .. c - n /\ n + k \in 0 .. c - 1
      BY <1>1
    <3>2. Peek(g_txFifo', k) = Peek(g_txFifo, n + k)
      BY <1>1, <3>1, DrainedRing
    <3>. QED  BY <1>1, <3>1, <3>2 DEF IInv, RingHoldsBytes
  <2>. QED  BY <2>1 DEF RingHoldsBytes
<1>4. PICK d : AreAhead(d)
  BY DEF IInv, StopsAreAhead
<1>5. StopsAreAhead'
  <2>. PICK l \in Nat : l = Len(stops)
    BY RingTypes DEF IInv
  <2> DEFINE e == [k \in 1 .. l |-> d[k] - n]
             f == [k \in 1 .. l - 1 |-> d[k + 1] - n]
  <2>1. AreAhead(e)' \/ AreAhead(f)'
    BY <1>4, DrainAhead
  <2> HIDE DEF e, f
  <2>. QED  BY <2>1 DEF AreAhead, StopsAreAhead
<1>6. stops' \in Seq(Index) /\ Len(stops') <= FifoSize
  <2>1. CASE stops' = stops
    BY <2>1 DEF IInv, TypeOK
  <2>2. CASE stops # <<>> /\ stops' = Tail(stops)
    <3>1. Len(stops) \in Nat /\ Len(stops) <= FifoSize
      BY <1>4 DEF IInv, TypeOK
    <3>. QED  BY <1>4, <2>2, <3>1, TakeStop, FifoAssumption
  <2>. QED  BY <2>1, <2>2
<1>7. /\ g_currentTransmissionCount' \in 0 .. g_txFifo'.count
      /\ g_txFifo'.start + g_currentTransmissionCount' <= FifoSize
      /\ moved' \in 0 .. g_currentTransmissionCount'
  <2>1. PICK b \in Nat, s \in Nat, z \in Nat :
          /\ b = g_currentTransmissionCount /\ s = g_txFifo.start /\ z = FifoSize
          /\ b <= c /\ s < z /\ s + b <= z /\ n <= b /\ c <= z
    BY <1>1, RingTypes, FifoAssumption DEF IInv, Index
  <2>2. PICK t \in Nat : t = g_txFifo'.start /\ t = (s + n) % FifoSize
    <3>1. g_txFifo'.start \in Index /\ g_txFifo'.start = (g_txFifo.start + n) % FifoSize
      BY DrainedRing
    <3>. QED  BY <2>1, <3>1, FifoAssumption DEF Index
  <2>3. t = s + n \/ t = 0
    <3>1. s \in Index /\ n \in 0 .. FifoSize /\ s + n <= z
      BY <1>1, <2>1, FifoAssumption DEF Index
    <3>2. /\ s + n < FifoSize => (s + n) % FifoSize = s + n
          /\ s + n >= FifoSize => (s + n) % FifoSize = s + n - FifoSize
      BY <3>1, PlacesAhead
    <3>. QED  BY <1>1, <2>1, <2>2, <3>1, <3>2
  <2>4. t + (b - n) <= z
    BY <1>1, <2>1, <2>2, <2>3
  <2>5. PICK r \in Nat : r = g_currentTransmissionCount' /\ r <= b - n
    BY <1>1, <2>1 DEF Leaves
  <2>6. r \in 0 .. c - n /\ t + r <= z /\ 0 \in 0 .. r
    BY <1>1, <2>1, <2>2, <2>4, <2>5
  <2>. QED  BY <1>1, <2>1, <2>2, <2>5, <2>6
<1>. QED  BY <1>2, <1>3, <1>5, <1>6, <1>7, DrainedRing DEF SenderOK

\* To drain nothing changes nothing.
LEMMA NothingDrained ==
  ASSUME IInv
  PROVE  g_txFifo = [g_txFifo EXCEPT !.start = (@ + 0) % FifoSize, !.count = @ - 0]
<1>1. PICK s \in Index, c \in 0 .. FifoSize : s = g_txFifo.start /\ c = g_txFifo.count
  BY RingTypes DEF IInv
<1>2. s + 0 = s /\ s + 0 < FifoSize /\ 0 \in 0 .. FifoSize /\ c - 0 = c
  BY FifoAssumption DEF Index
<1>3. (s + 0) % FifoSize = s + 0
  BY <1>2, PlacesAhead
<1>. QED  BY <1>1, <1>2, <1>3 DEF IInv, TypeOK, Fifos

\* trigger_transmision.
LEMMA TriggerKeeps ==
  ASSUME IInv, TriggerTransmission, UNCHANGED g_txFifo
  PROVE  SenderOK'
<1>1. PICK d : AreAhead(d)
  BY DEF IInv, StopsAreAhead
<1>2. CASE ~CanTransmit /\ UNCHANGED <<stops, dmaVars, g_sendState, flank>>
  <2>1. /\ UNCHANGED <<stops, g_currentTransmissionCount, moved, halted>>
        /\ UNCHANGED <<g_sendState, flank, g_txFifo>>
    BY <1>2 DEF dmaVars
  <2>2. RingHoldsBytes' /\ StopsAreAhead'
    BY <2>1 DEF IInv, RingHoldsBytes, Peek, StopsAreAhead, AreAhead
  <2>. QED  BY <2>1, <2>2 DEF SenderOK, IInv, TypeOK
<1>3. CASE ~StopAhead /\ SetupDMA(UntilWrap)
  BY <1>1, <1>3, BlockToWrap, SetupKeeps
<1>4. CASE /\ StopAhead
           /\ Head(stops) > g_txFifo.start
           /\ SetupDMA(Head(stops) - g_txFifo.start)
  BY <1>1, <1>4, BlockToStop, SetupKeeps
<1>5. CASE /\ CanTransmit
           /\ StopAhead
           /\ stops' = Tail(stops)
           /\ EndFrame
           /\ UNCHANGED dmaVars
  <2>1. g_currentTransmissionCount = 0
    BY <1>5 DEF CanTransmit, CanTransmitP1, CanTransmitP2
  <2>2. moved = 0
    BY <2>1, RingTypes DEF IInv
  <2>3. Leaves(0) /\ moved' = 0
    BY <1>5, <2>1, <2>2 DEF dmaVars, Leaves
  <2>4. stops # <<>> /\ g_sendState' \in {"IDLE", "PAUSED"}
    BY <1>5 DEF StopAhead, EndFrame
  <2>5. flank' \in BOOLEAN /\ halted' \in BOOLEAN
    BY <1>5 DEF EndFrame, dmaVars, IInv, TypeOK
  <2>6. g_txFifo' = [g_txFifo EXCEPT !.start = (@ + 0) % FifoSize, !.count = @ - 0]
    BY NothingDrained
  <2>7. 0 \in 0 .. g_currentTransmissionCount
    BY <2>1
  <2>. QED  BY <1>5, <2>3, <2>4, <2>5, <2>6, <2>7, DrainKeeps
<1>. QED  BY <1>2, <1>3, <1>4, <1>5 DEF TriggerTransmission

\* The end of a block, of all that has been moved.
LEMMA EndBlockKeeps ==
  ASSUME IInv, EndBlock(moved), Leaves(moved), halted' \in BOOLEAN
  PROVE  SenderOK'
<1>1. moved \in 0 .. g_currentTransmissionCount
  BY RingTypes DEF IInv
<1>2. /\ stops' = stops \/ (stops # <<>> /\ stops' = Tail(stops))
      /\ g_sendState' \in {"IDLE", "PAUSED"}
  BY DEF EndBlock, EndFrame, IInv, TypeOK
<1>3. flank' \in BOOLEAN
  BY DEF EndBlock, EndFrame, IInv, TypeOK
<1>. QED  BY <1>1, <1>2, <1>3, DrainKeeps DEF EndBlock

\* What the main loop and the receiver have.
MainOK ==
  /\ pc \in {"idle", "put", "trigger", "mark", "stop"}
  /\ frame \in Frames
  /\ next \in 1 .. frame.len + 1
  /\ nextStopIndex \in Index
  /\ pc = "put" => next <= frame.len
  /\ pc = "stop" => nextStopIndex = g_txFifo.end

ReceiverOK ==
  /\ g_rxPacket \in BOOLEAN
  /\ rx \in Seq(Bytes) /\ Len(rx) <= MaxPacket
  /\ rxOn \in BOOLEAN
  /\ rxIrq \in BOOLEAN
  /\ dr \in Bytes \cup {NULL}
  /\ overrun \in BOOLEAN
  /\ delivered \in Seq(Bytes)
  /\ excused \in BOOLEAN
  /\ rxOn => Len(rx) < MaxPacket

\* The invariant is that of the sender, the main loop and the receiver.
LEMMA Parts ==
  IInv <=> /\ sender \in {"P1", "P2"} /\ irq \in BOOLEAN
           /\ SenderOK /\ MainOK /\ ReceiverOK
  BY DEF IInv, TypeOK, SenderOK, MainOK, ReceiverOK

\* The same of the next state.
LEMMA NextParts ==
  ASSUME sender' \in {"P1", "P2"}, irq' \in BOOLEAN, SenderOK', MainOK', ReceiverOK'
  PROVE  IInv'
  BY DEF IInv, TypeOK, SenderOK, MainOK, ReceiverOK

\* Steps that leave the ring and its block alone,
LEMMA SenderRests ==
  ASSUME SenderOK, UNCHANGED <<g_txFifo, stops, g_currentTransmissionCount, moved, halted>>,
         g_sendState' \in {"IDLE", "PAUSED"}, flank' \in BOOLEAN
  PROVE  SenderOK'
<1>1. RingHoldsBytes' /\ StopsAreAhead'
  BY DEF SenderOK, RingHoldsBytes, Peek, StopsAreAhead, AreAhead
<1>. QED  BY <1>1 DEF SenderOK

\* the main loop,
LEMMA MainRests ==
  ASSUME MainOK, UNCHANGED mainVars, g_txFifo'.end = g_txFifo.end
  PROVE  MainOK'
  BY DEF MainOK, mainVars

\* or the receiver.
LEMMA ReceiverRests ==
  ASSUME ReceiverOK, UNCHANGED rxVars
  PROVE  ReceiverOK'
  BY DEF ReceiverOK, rxVars

-----------------------------------------------------------------------------
\* The invariant holds at the start and every action keeps it.

\* At the start the invariant holds.
LEMMA InitIInv == Init => IInv
<1> SUFFICES ASSUME Init PROVE IInv
  OBVIOUS
<1> USE DEF Init, InitSender, InitReceiver
<1> DEFINE data == [k \in Index |-> NULL]
<1>1. data \in [Index -> Bytes \cup {NULL}]
  OBVIOUS
<1>2. /\ g_txFifo \in Fifos(Bytes \cup {NULL}) /\ IsConsistent(g_txFifo)
      /\ g_txFifo.start = 0 /\ g_txFifo.count = 0 /\ g_txFifo.end = 0
  BY <1>1, InitIsEmpty DEF InitFifo
<1>3. RingHoldsBytes
  BY <1>2 DEF RingHoldsBytes
<1>4. StopsAreAhead
  <2> DEFINE e == [k \in 1 .. 0 |-> 0]
  <2>1. e \in [1 .. Len(stops) -> g_currentTransmissionCount .. g_txFifo.count]
    BY <1>2
  <2>2. AreAhead(e)
    BY <2>1 DEF AreAhead
  <2>. QED  BY <2>1, <2>2 DEF StopsAreAhead
<1>5. stops \in Seq(Index) /\ Len(stops) <= FifoSize
  BY FifoAssumption
<1>6. SenderOK
  <2>1. /\ g_currentTransmissionCount = 0 /\ moved = 0 /\ halted \in BOOLEAN
        /\ g_sendState \in {"IDLE", "PAUSED"}
    OBVIOUS
  <2>2. flank \in BOOLEAN
    OBVIOUS
  <2>3. /\ 0 \in 0 .. g_txFifo.count /\ g_txFifo.start + 0 <= FifoSize
        /\ 0 \in 0 .. 0
    BY <1>2, FifoAssumption
  <2> HIDE DEF Init, InitSender, InitReceiver, data
  <2>. QED  BY <1>2, <1>3, <1>4, <1>5, <2>1, <2>2, <2>3 DEF SenderOK
<1>7. MainOK
  <2>1. 0 \in Index
    BY FifoAssumption DEF Index
  <2>2. next \in 1 .. frame.len + 1
    BY FrameLength
  <2>. QED  BY <2>1, <2>2 DEF MainOK
<1>8. ReceiverOK
  <2>1. rx \in Seq(Bytes) /\ Len(rx) = 0 /\ delivered \in Seq(Bytes)
    OBVIOUS
  <2>2. 0 < MaxPacket /\ 0 <= MaxPacket
    BY LinkAssumption
  <2>3. g_rxPacket \in BOOLEAN /\ rxOn \in BOOLEAN /\ rxIrq \in BOOLEAN
    OBVIOUS
  <2>4. overrun \in BOOLEAN /\ excused \in BOOLEAN
    OBVIOUS
  <2>5. dr \in Bytes \cup {NULL}
    OBVIOUS
  <2> HIDE DEF Init, InitSender, InitReceiver, data
  <2>. QED  BY <2>1, <2>2, <2>3, <2>4, <2>5 DEF ReceiverOK
<1>. QED  BY <1>6, <1>7, <1>8, Parts

\* StartFrame keeps the invariant.
LEMMA StartFrameIInv ==
  ASSUME IInv, NEW f \in Frames, StartFrame(f)
  PROVE  IInv'
<1> USE DEF StartFrame
<1>1. SenderOK'
  BY Parts, SenderRests DEF dmaVars, IInv, TypeOK
<1>2. MainOK'
  <2>1. 1 \in 1 .. f.len + 1 /\ 1 <= f.len
    BY FrameLength DEF MinPacket
  <2>. QED  BY <2>1 DEF MainOK, IInv, TypeOK
<1>. QED  BY <1>1, <1>2, Parts, NextParts, ReceiverRests

\* The ring after a byte has been put into it.
LEMMA PutRing ==
  ASSUME IInv, PutOkay(g_txFifo), NEW b \in Bytes, g_txFifo' = Put(g_txFifo, b)
  PROVE  /\ g_txFifo' \in Fifos(Bytes \cup {NULL}) /\ IsConsistent(g_txFifo')
         /\ g_txFifo'.start = g_txFifo.start
         /\ g_txFifo'.count = g_txFifo.count + 1 /\ g_txFifo.count \in Nat
         /\ \A k \in 0 .. g_txFifo.count - 1 : Peek(g_txFifo', k) = Peek(g_txFifo, k)
         /\ Peek(g_txFifo', g_txFifo.count) = b
<1>1. /\ g_txFifo' \in Fifos(Bytes \cup {NULL})
      /\ IsConsistent(g_txFifo')
      /\ Contents(g_txFifo') = Append(Contents(g_txFifo), b)
  BY PutAppends DEF IInv, TypeOK
<1>2. /\ g_txFifo'.start = g_txFifo.start
      /\ g_txFifo'.count = g_txFifo.count + 1
      /\ g_txFifo.count \in Nat
  <2>1. /\ g_txFifo.count \in Nat
        /\ g_txFifo \in [data : [Index -> Bytes \cup {NULL}], start : Index, end : Index,
                        count : 0 .. FifoSize]
    BY RingTypes DEF IInv, TypeOK, Fifos
  <2>. QED  BY <2>1 DEF Put
<1>3. /\ Contents(g_txFifo) \in Seq(Bytes \cup {NULL})
      /\ Len(Contents(g_txFifo)) = g_txFifo.count
      /\ \A n \in 1 .. g_txFifo.count : Contents(g_txFifo)[n] = Peek(g_txFifo, n - 1)
  BY ContentsType DEF IInv, TypeOK
<1>4. \A k \in 0 .. g_txFifo.count : Peek(g_txFifo', k) = Contents(g_txFifo')[k + 1]
  BY <1>1, <1>2, PeekIsElement DEF PeekOkay
<1>5. \A k \in 0 .. g_txFifo.count - 1 : Peek(g_txFifo', k) = Peek(g_txFifo, k)
  <2>1. ASSUME NEW k \in 0 .. g_txFifo.count - 1
        PROVE  Peek(g_txFifo', k) = Peek(g_txFifo, k)
    <3>1. k + 1 \in 1 .. g_txFifo.count /\ k + 1 - 1 = k /\ k \in 0 .. g_txFifo.count
      BY <1>2
    <3>2. Contents(g_txFifo')[k + 1] = Contents(g_txFifo)[k + 1]
      BY <1>1, <1>3, <3>1
    <3>3. Contents(g_txFifo)[k + 1] = Peek(g_txFifo, k)
      BY <1>3, <3>1
    <3>. QED  BY <1>4, <3>1, <3>2, <3>3
  <2>. QED  BY <2>1
<1>6. Peek(g_txFifo', g_txFifo.count) = b
  <2>1. g_txFifo.count \in 0 .. g_txFifo.count
    BY <1>2
  <2>2. Contents(g_txFifo')[g_txFifo.count + 1] = b
    BY <1>1, <1>2, <1>3
  <2>. QED  BY <1>4, <2>1, <2>2
<1>. QED  BY <1>1, <1>2, <1>5, <1>6

\* The byte that the main loop puts into the ring is one of its frame.
LEMMA NextByte ==
  ASSUME IInv, pc = "put"
  PROVE  /\ frame \in Frames /\ next \in Nat \ {0} /\ next <= frame.len
         /\ frame.len \in Nat /\ [frame |-> frame, pos |-> next] \in Bytes
<1>1. frame \in Frames /\ next \in Nat \ {0} /\ next <= frame.len
  BY FrameLength DEF IInv, TypeOK
<1>2. next \in 1 .. MaxPacket
  BY <1>1, FrameLength
<1>. QED  BY <1>1, <1>2, FrameLength DEF Bytes

\* PutByte keeps the invariant.
LEMMA PutByteIInv ==
  ASSUME IInv, PutByte
  PROVE  IInv'
<1> USE DEF PutByte
<1> DEFINE b == [frame |-> frame, pos |-> next]
<1>1. CASE ~PutOkay(g_txFifo)
  <2>1. SenderOK'
    BY <1>1, Parts, SenderRests DEF dmaVars, IInv, TypeOK
  <2>2. MainOK'
    BY <1>1 DEF MainOK, IInv, TypeOK
  <2>. QED  BY <2>1, <2>2, Parts, NextParts, ReceiverRests
<1>2. CASE PutOkay(g_txFifo)
  <2>1. frame \in Frames /\ next \in Nat \ {0} /\ next <= frame.len /\ b \in Bytes
    BY NextByte
  <2>2. g_txFifo' = Put(g_txFifo, b)
    BY <1>2
  <2>3. g_txFifo' \in Fifos(Bytes \cup {NULL}) /\ IsConsistent(g_txFifo')
    BY <1>2, <2>1, <2>2, PutRing
  <2>4. /\ g_txFifo'.start = g_txFifo.start
        /\ g_txFifo'.count = g_txFifo.count + 1
        /\ g_txFifo.count \in Nat
    BY <1>2, <2>1, <2>2, PutRing
  <2>5. ASSUME NEW k \in 0 .. g_txFifo'.count - 1
        PROVE  Peek(g_txFifo', k) \in Bytes
    <3>1. CASE k \in 0 .. g_txFifo.count - 1
      BY <1>2, <2>1, <2>2, <3>1, PutRing DEF IInv, RingHoldsBytes
    <3>2. CASE k = g_txFifo.count
      BY <1>2, <2>1, <2>2, <3>2, PutRing
    <3>. QED  BY <2>4, <3>1, <3>2
  <2>6. RingHoldsBytes'
    BY <2>5 DEF RingHoldsBytes
  <2>7. StopsAreAhead'
    <3>1. PICK d : AreAhead(d)
      BY DEF IInv, StopsAreAhead
    <3>2. g_currentTransmissionCount \in Nat
      BY RingTypes DEF IInv
    <3>3. \A n \in g_currentTransmissionCount .. g_txFifo.count :
            n \in g_currentTransmissionCount .. g_txFifo'.count
      BY <2>4, <3>2
    <3>4. d \in [1 .. Len(stops') -> g_currentTransmissionCount' .. g_txFifo'.count]
      BY <3>1, <3>3 DEF AreAhead, dmaVars
    <3>5. AreAhead(d)'
      BY <2>4, <3>1, <3>4 DEF AreAhead
    <3>. QED  BY <3>4, <3>5 DEF StopsAreAhead
  <2>8. g_currentTransmissionCount' \in 0 .. g_txFifo'.count
    BY <2>4, RingTypes DEF dmaVars, IInv
  <2>9. SenderOK'
    BY <2>3, <2>4, <2>6, <2>7, <2>8 DEF SenderOK, dmaVars, IInv, TypeOK
  <2>10. MainOK'
    <3>1. next + 1 \in 1 .. frame.len + 1
      BY <2>1, FrameLength
    <3>. QED  BY <1>2, <3>1 DEF MainOK, IInv, TypeOK
  <2>. QED  BY <2>9, <2>10, Parts, NextParts, ReceiverRests
<1>. QED  BY <1>1, <1>2

\* TriggerByMain keeps the invariant.
LEMMA TriggerByMainIInv ==
  ASSUME IInv, TriggerByMain
  PROVE  IInv'
<1> USE DEF TriggerByMain
<1>1. SenderOK'
  BY TriggerKeeps
<1>2. MainOK'
  BY DEF MainOK, IInv, TypeOK
<1>. QED  BY <1>1, <1>2, Parts, NextParts, ReceiverRests

\* MarkEnd keeps the invariant.
LEMMA MarkEndIInv ==
  ASSUME IInv, MarkEnd
  PROVE  IInv'
<1> USE DEF MarkEnd
<1>1. SenderOK'
  <2>1. g_sendState' \in {"IDLE", "PAUSED"}
    BY DEF EndFrame, IInv, TypeOK
  <2>2. flank' \in BOOLEAN
    BY DEF EndFrame, IInv, TypeOK
  <2>. QED  BY <2>1, <2>2, Parts, SenderRests DEF dmaVars
<1>2. g_txFifo.end \in Index
  BY RingTypes DEF IInv
<1>3. MainOK'
  BY <1>2 DEF MainOK, IInv, TypeOK
<1>. QED  BY <1>1, <1>3, Parts, NextParts, ReceiverRests

\* The end of the frame is queued: it lies behind the last byte of the ring.
LEMMA PutStopAhead ==
  ASSUME IInv, PutStop, NEW d, AreAhead(d), NEW l \in Nat, l = Len(stops),
         NEW c \in Nat, c = g_txFifo.count
  PROVE  /\ stops' \in Seq(Index) /\ Len(stops') = l + 1 /\ l + 1 <= FifoSize
         /\ AreAhead([k \in 1 .. l + 1 |-> IF k <= l THEN d[k] ELSE c])'
<1> USE DEF PutStop
<1>1. l < FifoSize /\ l + 1 <= FifoSize
  BY FifoAssumption
<1>2. c \in 0 .. FifoSize /\ g_currentTransmissionCount \in 0 .. c
  BY RingTypes DEF IInv
<1>3. nextStopIndex \in Index /\ nextStopIndex = (g_txFifo.start + c) % FifoSize
  BY <1>2, RingTypes DEF IInv, TypeOK, IsConsistent
<1>4. /\ stops' \in Seq(Index) /\ Len(stops') = l + 1
      /\ \A k \in 1 .. l + 1 : stops'[k] = IF k <= l THEN stops[k] ELSE nextStopIndex
  BY <1>1, <1>3, RingTypes DEF IInv
<1> DEFINE e == [k \in 1 .. l + 1 |-> IF k <= l THEN d[k] ELSE c]
<1>5. \A k \in 1 .. l : d[k] \in g_currentTransmissionCount .. c
  BY <1>2 DEF AreAhead
<1>6. c \in g_currentTransmissionCount .. c /\ \A k \in 1 .. l + 1 : k <= l => k \in 1 .. l
  BY <1>1, <1>2
<1>7. UNCHANGED <<g_txFifo, g_currentTransmissionCount>>
  BY DEF dmaVars
<1>8. e \in [1 .. Len(stops') -> g_currentTransmissionCount' .. g_txFifo'.count]
  BY <1>2, <1>4, <1>5, <1>6, <1>7
<1>9. \A k \in 1 .. Len(stops') : stops'[k] = (g_txFifo'.start + e[k]) % FifoSize
  <2>1. \A k \in 1 .. l : stops[k] = (g_txFifo.start + d[k]) % FifoSize
    BY DEF AreAhead
  <2>. QED  BY <1>3, <1>4, <1>6, <1>7, <2>1
<1>10. \A k, m \in 1 .. Len(stops') : k <= m => e[k] <= e[m]
  <2>1. ASSUME NEW k \in 1 .. l + 1, NEW m \in 1 .. l + 1, k <= m
        PROVE  e[k] <= e[m]
    <3>1. CASE m <= l
      <4>1. k <= l /\ k \in 1 .. l /\ m \in 1 .. l
        BY <1>1, <2>1, <3>1
      <4>2. d[k] <= d[m]
        BY <2>1, <4>1 DEF AreAhead
      <4>. QED  BY <3>1, <4>1, <4>2
    <3>2. CASE ~(m <= l)
      <4>1. e[m] = c
        BY <3>2
      <4>2. e[k] \in g_currentTransmissionCount .. c
        BY <1>5, <1>6
      <4>3. g_currentTransmissionCount \in Int
        BY <1>2
      <4>. QED  BY <1>2, <4>1, <4>2, <4>3
    <3>. QED  BY <3>1, <3>2
  <2>. QED  BY <1>4, <2>1
<1>11. AreAhead(e)'
  <2> HIDE DEF e
  <2>. QED  BY <1>8, <1>9, <1>10 DEF AreAhead
<1>. QED  BY <1>1, <1>4, <1>11

\* PutStop keeps the invariant.
LEMMA PutStopIInv ==
  ASSUME IInv, PutStop
  PROVE  IInv'
<1> USE DEF PutStop
<1>1. PICK d : AreAhead(d)
  BY DEF IInv, StopsAreAhead
<1>2. PICK l \in Nat, c \in Nat : l = Len(stops) /\ c = g_txFifo.count
  BY RingTypes DEF IInv
<1>3. UNCHANGED <<g_txFifo, g_currentTransmissionCount, moved, halted, g_sendState, flank>>
  BY DEF dmaVars
<1>4. /\ stops' \in Seq(Index) /\ Len(stops') <= FifoSize
      /\ AreAhead([k \in 1 .. l + 1 |-> IF k <= l THEN d[k] ELSE c])'
  BY <1>1, <1>2, PutStopAhead
<1>5. StopsAreAhead'
  BY <1>4 DEF AreAhead, StopsAreAhead
<1>6. RingHoldsBytes'
  BY <1>3 DEF IInv, RingHoldsBytes, Peek
<1>7. SenderOK'
  BY <1>3, <1>4, <1>5, <1>6 DEF SenderOK, IInv, TypeOK
<1>8. MainOK'
  <2>1. 0 \in Index
    BY FifoAssumption DEF Index
  <2>. QED  BY <2>1 DEF MainOK, IInv, TypeOK
<1>. QED  BY <1>7, <1>8, Parts, NextParts, ReceiverRests

\* The DMA moves a byte of the block, which lies within the bytes of the ring.
LEMMA MoveByteIInv ==
  ASSUME IInv, MoveByte
  PROVE  IInv'
<1> USE DEF MoveByte, DMAEnabled
<1>1. PICK s \in Index, m \in Nat, n \in Nat :
        /\ s = g_txFifo.start /\ m = moved /\ n = g_currentTransmissionCount
        /\ m < n /\ s + n <= FifoSize /\ n <= FifoSize
        /\ g_txFifo.count \in Nat /\ n <= g_txFifo.count
  BY RingTypes DEF IInv
<1>2. g_txFifo.data[g_txFifo.start + moved] \in Bytes
  <2>1. m \in 0 .. FifoSize /\ s + m < FifoSize /\ m \in 0 .. g_txFifo.count - 1
    BY <1>1, FifoAssumption DEF Index
  <2>2. (s + m) % FifoSize = s + m
    BY <2>1, PlacesAhead
  <2>3. Peek(g_txFifo, m) = g_txFifo.data[g_txFifo.start + moved]
    BY <1>1, <2>2 DEF Peek
  <2>. QED  BY <2>1, <2>3 DEF IInv, RingHoldsBytes
<1> DEFINE b == g_txFifo.data[g_txFifo.start + moved]
<1>3. SenderOK'
  <2>1. moved' \in 0 .. g_currentTransmissionCount'
    BY <1>1
  <2>2. RingHoldsBytes' /\ StopsAreAhead'
    BY DEF IInv, RingHoldsBytes, Peek, StopsAreAhead, AreAhead
  <2>. QED  BY <2>1, <2>2 DEF SenderOK, IInv, TypeOK
<1>4. ReceiverOK'
  <2>1. b \in Bytes /\ rx \in Seq(Bytes) /\ Len(rx) \in Nat /\ MaxPacket \in Nat
    BY <1>2, LinkAssumption DEF IInv, TypeOK
  <2>2. rx' \in Seq(Bytes) /\ Len(rx') <= MaxPacket /\ (rxOn' => Len(rx') < MaxPacket)
    <3>1. CASE rxOn
      <4>1. Len(rx) < MaxPacket
        BY <3>1 DEF IInv
      <4>2. rx' = Append(rx, b) /\ rxOn' = (Len(rx) + 1 < MaxPacket)
        BY <3>1
      <4> HIDE DEF b, MoveByte
      <4>3. rx' \in Seq(Bytes) /\ Len(rx') = Len(rx) + 1
        BY <2>1, <4>2
      <4>4. Len(rx') <= MaxPacket
        BY <2>1, <4>1, <4>3
      <4>5. ASSUME rxOn' PROVE Len(rx') < MaxPacket
        BY <4>2, <4>3, <4>5
      <4>. QED  BY <4>3, <4>4, <4>5
    <3>2. CASE ~rxOn
      BY <3>2 DEF IInv, TypeOK
    <3>. QED  BY <3>1, <3>2
  <2>3. rxOn' \in BOOLEAN
    <3>1. CASE rxOn
      BY <3>1
    <3>2. CASE ~rxOn
      BY <3>2 DEF IInv, TypeOK
    <3>. QED  BY <3>1, <3>2
  <2>4. rxIrq' \in BOOLEAN
    BY DEF IInv, TypeOK
  <2>5. dr' \in Bytes \cup {NULL}
    BY <1>2 DEF IInv, TypeOK
  <2>6. overrun' \in BOOLEAN
    BY DEF IInv, TypeOK
  <2>7. g_rxPacket' \in BOOLEAN /\ excused' \in BOOLEAN /\ delivered' \in Seq(Bytes)
    BY DEF IInv, TypeOK
  <2> HIDE DEF MoveByte
  <2>. QED  BY <2>2, <2>3, <2>4, <2>5, <2>6, <2>7 DEF ReceiverOK
<1>. QED  BY <1>3, <1>4, Parts, NextParts, MainRests

\* A block of P1 may leave a rest,
LEMMA TransmissionCompleteP1IInv ==
  ASSUME IInv, TransmissionCompleteP1
  PROVE  IInv'
<1> USE DEF TransmissionCompleteP1
<1>1. Leaves(moved) /\ halted' \in BOOLEAN
  BY DEF Leaves
<1>2. SenderOK'
  BY <1>1, EndBlockKeeps
<1>3. g_txFifo'.end = g_txFifo.end
  BY DEF EndBlock, IInv, TypeOK, Fifos
<1>. QED  BY <1>2, <1>3, Parts, NextParts, MainRests, ReceiverRests

\* and one of P2 may end early.
LEMMA TransmissionCompleteP2IInv ==
  ASSUME IInv, TransmissionCompleteP2
  PROVE  IInv'
<1> USE DEF TransmissionCompleteP2
<1>1. SenderOK'
  BY EndBlockKeeps DEF Leaves, IInv, TypeOK
<1>2. g_txFifo'.end = g_txFifo.end
  BY DEF EndBlock, IInv, TypeOK, Fifos
<1>. QED  BY <1>1, <1>2, Parts, NextParts, MainRests, ReceiverRests

\* PauseOver keeps the invariant.
LEMMA PauseOverIInv ==
  ASSUME IInv, PauseOver
  PROVE  IInv'
<1> USE DEF PauseOver
<1>1. SenderOK'
  <2>1. g_sendState' \in {"IDLE", "PAUSED"}
    OBVIOUS
  <2>2. flank' \in BOOLEAN
    BY DEF IInv, TypeOK
  <2>. QED  BY <2>1, <2>2, Parts, SenderRests DEF dmaVars
<1>. QED  BY <1>1, Parts, NextParts, MainRests, ReceiverRests

\* TriggerByHandler keeps the invariant.
LEMMA TriggerByHandlerIInv ==
  ASSUME IInv, TriggerByHandler
  PROVE  IInv'
<1> USE DEF TriggerByHandler
<1>1. SenderOK'
  BY TriggerKeeps
<1>. QED  BY <1>1, Parts, NextParts, MainRests, ReceiverRests

\* The receiver's handler of a packet: whatever becomes of the packet and of the
\* byte that came after it, the DMA is on only while there is room in the buffer.
LEMMA ProcessPacketKeeps ==
  ASSUME IInv, ProcessPacket, rxIrq' \in BOOLEAN
  PROVE  ReceiverOK'
<1> USE DEF ProcessPacket
<1>1. delivered' \in Seq(Bytes)
  BY DEF IInv, TypeOK
<1>2. g_rxPacket' \in BOOLEAN
  BY DEF IInv, TypeOK
<1> DEFINE kept == IF g_rxPacket /\ overrun THEN NULL ELSE dr
<1>3. kept \in Bytes \cup {NULL}
  BY DEF IInv, TypeOK
<1>4. /\ rx' \in Seq(Bytes) /\ Len(rx') <= MaxPacket /\ (rxOn' => Len(rx') < MaxPacket)
      /\ rxOn' \in BOOLEAN
  <2>1. MaxPacket \in Nat /\ 0 < MaxPacket
    BY LinkAssumption
  <2>2. CASE g_rxPacket' /\ ~rxOn
    <3>1. rxOn' = TRUE /\ rx' = IF kept = NULL THEN <<>> ELSE <<kept>>
      BY <2>2
    <3> HIDE DEF kept, ProcessPacket
    <3>2. CASE kept = NULL
      BY <2>1, <3>1, <3>2
    <3>3. CASE kept # NULL
      <4>1. kept \in Bytes
        BY <1>3, <3>3
      <4>2. kept.frame \in Frames
        BY <4>1 DEF Bytes
      <4>3. 1 < MaxPacket
        BY <4>2, FrameLength
      <4>4. rx' = <<kept>>
        BY <3>1, <3>3
      <4>5. rx' \in Seq(Bytes) /\ Len(rx') = 1
        BY <4>1, <4>4
      <4>. QED  BY <2>1, <3>1, <4>3, <4>5
    <3>. QED  BY <3>2, <3>3
  <2>3. CASE ~(g_rxPacket' /\ ~rxOn)
    <3>1. rxOn' = rxOn /\ rx' = IF rxOn THEN rx ELSE <<>>
      BY <2>3
    <3>2. /\ rx \in Seq(Bytes) /\ Len(rx) <= MaxPacket /\ (rxOn => Len(rx) < MaxPacket)
          /\ rxOn \in BOOLEAN
      BY DEF IInv, TypeOK
    <3> HIDE DEF kept, ProcessPacket
    <3>3. CASE rxOn
      BY <3>1, <3>2, <3>3
    <3>4. CASE ~rxOn
      BY <2>1, <3>1, <3>2, <3>4
    <3>. QED  BY <3>3, <3>4
  <2>. QED  BY <2>2, <2>3
<1>5. dr' \in Bytes \cup {NULL}
  BY <1>3
<1>6. overrun' \in BOOLEAN
  BY DEF IInv, TypeOK
<1>7. excused' \in BOOLEAN
  OBVIOUS
<1> HIDE DEF ProcessPacket
<1>. QED  BY <1>1, <1>2, <1>4, <1>5, <1>6, <1>7 DEF ReceiverOK

\* RxSigFlank keeps the invariant.
LEMMA RxSigFlankIInv ==
  ASSUME IInv, RxSigFlank
  PROVE  IInv'
<1> USE DEF RxSigFlank
<1>1. SenderOK'
  <2>1. flank' \in BOOLEAN
    OBVIOUS
  <2>2. g_sendState' \in {"IDLE", "PAUSED"}
    BY DEF IInv, TypeOK
  <2>. QED  BY <2>1, <2>2, Parts, SenderRests DEF dmaVars
<1>2. ReceiverOK'
  <2>1. CASE rxOn
    <3>1. rxOn' = FALSE /\ UNCHANGED <<g_rxPacket, rx, dr, overrun, delivered, excused>>
      BY <2>1
    <3>2. rxIrq' \in BOOLEAN
      BY <2>1
    <3>3. rxOn' \in BOOLEAN /\ ~rxOn'
      BY <3>1
    <3> HIDE DEF RxSigFlank
    <3>. QED  BY <3>1, <3>2, <3>3 DEF ReceiverOK, IInv, TypeOK
  <2>2. CASE ~rxOn
    <3>1. ProcessPacket /\ rxIrq' = rxIrq
      BY <2>2
    <3>2. rxIrq' \in BOOLEAN
      BY <3>1 DEF IInv, TypeOK
    <3>. QED  BY <3>1, <3>2, ProcessPacketKeeps
  <2>. QED  BY <2>1, <2>2
<1>. QED  BY <1>1, <1>2, Parts, NextParts, MainRests

\* RxComplete keeps the invariant.
LEMMA RxCompleteIInv ==
  ASSUME IInv, RxComplete
  PROVE  IInv'
<1> USE DEF RxComplete
<1>1. SenderOK'
  BY Parts, SenderRests DEF dmaVars, IInv, TypeOK
<1>2. rxIrq' \in BOOLEAN
  OBVIOUS
<1>3. ReceiverOK'
  BY <1>2, ProcessPacketKeeps
<1>. QED  BY <1>1, <1>3, Parts, NextParts, MainRests

\* Every step keeps the invariant.
LEMMA NextIInv == IInv /\ [Next]_vars => IInv'
<1> SUFFICES ASSUME IInv, [Next]_vars PROVE IInv'
  OBVIOUS
<1>1. ASSUME NEW f \in Frames, StartFrame(f) PROVE IInv'
  BY <1>1, StartFrameIInv
<1>2. CASE Main
  BY <1>2, PutByteIInv, TriggerByMainIInv, MarkEndIInv, PutStopIInv DEF Main
<1>3. CASE MoveByte
  BY <1>3, MoveByteIInv
<1>4. CASE Handler
  BY <1>4, TransmissionCompleteP1IInv, TransmissionCompleteP2IInv, PauseOverIInv,
     TriggerByHandlerIInv DEF Handler, TransmissionComplete
<1>5. CASE Receiver
  BY <1>5, RxSigFlankIInv, RxCompleteIInv DEF Receiver
<1>6. CASE UNCHANGED vars
  <2>1. SenderOK'
    BY <1>6, Parts, SenderRests DEF vars, dmaVars, IInv, TypeOK
  <2>2. sender' \in {"P1", "P2"} /\ irq' \in BOOLEAN
    BY <1>6 DEF vars, IInv, TypeOK
  <2>3. MainOK' /\ ReceiverOK'
    BY <1>6, Parts, MainRests, ReceiverRests DEF vars
  <2>. QED  BY <2>1, <2>2, <2>3, NextParts
<1>. QED  BY <1>1, <1>2, <1>3, <1>4, <1>5, <1>6 DEF Next

-----------------------------------------------------------------------------
\* The inductive invariant is an invariant.
THEOREM Invariance == Spec => []IInv
  BY InitIInv, NextIInv, PTL DEF Spec

\* The block of the DMA lies within the bytes that are in the ring and does not
\* reach across its wrap, the two indices of the ring agree with its count, and
\* the receiver's DMA does not write behind the buffer, at every step of the main
\* loop, the DMA and the handlers.
THEOREM TypeCorrect == Spec => []TypeOK
<1>1. IInv => TypeOK
  BY DEF IInv
<1>. QED  BY <1>1, Invariance, PTL

\* The second fifo holds ends that lie ahead of the block that is transmitted and
\* not behind the last byte of the ring, in the order in which they come: no
\* block reaches across the end of a frame.
THEOREM BlocksEndAtFrames == Spec => []StopsAreAhead
<1>1. IInv => StopsAreAhead
  BY DEF IInv
<1>. QED  BY <1>1, Invariance, PTL

-----------------------------------------------------------------------------
(***************************************************************************)
(* The second fifo holds the ends of the frames that are in the ring, and  *)
(* no others (StopsTell), as long as no frame fills the ring.  That takes  *)
(* what is known of the bytes themselves.                                  *)
(***************************************************************************)

FramesFit == \A n \in Lengths : n < FifoSize

\* The byte that was put last comes before the one that is next.
NewestIsPut ==
  g_txFifo.count > 0 =>
    /\ next = 1 => IsLast(Peek(g_txFifo, g_txFifo.count - 1))
    /\ next > 1 => Peek(g_txFifo, g_txFifo.count - 1) = [frame |-> frame, pos |-> next - 1]

\* The bytes of a frame lie one behind the other.
BytesFollow ==
  \A i, j \in 0 .. g_txFifo.count - 1 :
    i <= j /\ (\A k \in i .. j - 1 : ~IsLast(Peek(g_txFifo, k)))
      => Peek(g_txFifo, j).pos = Peek(g_txFifo, i).pos + (j - i)

\* A frame is complete before its end is marked, and when there is nothing in the
\* ring by then no end is queued.
EndsAreLate ==
  /\ pc \in {"idle", "mark", "stop"} => next = frame.len + 1
  /\ pc \in {"trigger", "mark", "stop"} /\ g_txFifo.count = 0 => stops = <<>>

\* d says how far each queued end lies ahead, and the ends of frames are there.
Tells(d) ==
  /\ AreAhead(d)
  /\ \A k, m \in 1 .. Len(stops) : k < m => d[k] < d[m]
  /\ \A n \in 1 .. g_txFifo.count : n \in MarkedEnds <=> \E k \in 1 .. Len(stops) : d[k] = n

EndsAreMarked ==
  \E d \in [1 .. Len(stops) -> g_currentTransmissionCount .. g_txFifo.count] : Tells(d)

\* The inductive invariant.
MarksInv ==
  /\ IInv
  /\ NewestIsPut
  /\ BytesFollow
  /\ EndsAreLate
  /\ EndsAreMarked

\* A byte lies within its frame.
LEMMA ByteInFrame ==
  ASSUME NEW b \in Bytes
  PROVE  /\ b.pos \in Nat \ {0} /\ b.frame.len \in Nat /\ b.pos <= b.frame.len
         /\ b.frame.len \in Lengths
<1>1. b.pos \in 1 .. MaxPacket /\ b.frame \in Frames /\ b.pos <= b.frame.len
  BY DEF Bytes
<1>2. b.frame.len \in Lengths
  BY <1>1 DEF Frames
<1>. QED  BY <1>1, <1>2, FrameLength

\* An index comes back to the start after no step or after one round.
LEMMA BackAtStart ==
  ASSUME NEW s \in Index, NEW n \in 0 .. FifoSize
  PROVE  (s + n) % FifoSize = s <=> n = 0 \/ n = FifoSize
<1>1. PICK t \in Index : t = (s + n) % FifoSize
  BY PlacesAhead
<1>2. /\ s + n < FifoSize => t = s + n
      /\ s + n >= FifoSize => t = s + n - FifoSize
  BY <1>1, PlacesAhead
<1>. QED  BY <1>1, <1>2, FifoAssumption DEF Index

\* The numbers that ends are compared by.
LEMMA EndTypes ==
  ASSUME IInv, NEW d, AreAhead(d)
  PROVE  /\ Len(stops) \in Nat /\ g_txFifo.count \in 0 .. FifoSize
         /\ g_currentTransmissionCount \in 0 .. g_txFifo.count
         /\ FifoSize \in Nat \ {0}
         /\ \A k \in 1 .. Len(stops) : /\ d[k] \in Int
                                       /\ g_currentTransmissionCount <= d[k]
                                       /\ d[k] <= g_txFifo.count
<1>1. Len(stops) \in Nat
  BY RingTypes DEF IInv
<1>2. /\ g_txFifo.count \in 0 .. FifoSize /\ FifoSize \in Nat \ {0}
      /\ g_currentTransmissionCount \in 0 .. g_txFifo.count
  BY RingTypes DEF IInv
<1>3. \A k \in 1 .. Len(stops) : d[k] \in g_currentTransmissionCount .. g_txFifo.count
  BY DEF AreAhead
<1>. QED  BY <1>1, <1>2, <1>3

\* Steps that leave the ring and what is put into it alone.
LEMMA RingRests ==
  ASSUME NewestIsPut, BytesFollow, UNCHANGED <<g_txFifo, frame, next>>
  PROVE  NewestIsPut' /\ BytesFollow'
  BY DEF NewestIsPut, BytesFollow, Peek, IsLast

\* The same frames are marked as long as the ring is the same,
LEMMA MarkedRest ==
  ASSUME UNCHANGED g_txFifo, Unmarked' <=> Unmarked
  PROVE  MarkedEnds' = MarkedEnds
  BY DEF MarkedEnds, Peek, IsLast

\* and the second fifo tells of them if it is the same too.
LEMMA TellsRests ==
  ASSUME NEW d, Tells(d), AreAhead(d)', UNCHANGED <<g_txFifo, stops>>, Unmarked' <=> Unmarked
  PROVE  EndsAreMarked'
<1>1. Tells(d)'
  BY MarkedRest DEF Tells
<1>. QED  BY <1>1 DEF EndsAreMarked, Tells, AreAhead

\* Steps of the DMA, the pause and the receiver.
LEMMA MarksRest ==
  ASSUME MarksInv, UNCHANGED <<g_txFifo, stops, g_currentTransmissionCount, mainVars>>
  PROVE  NewestIsPut' /\ BytesFollow' /\ EndsAreLate' /\ EndsAreMarked'
<1>1. NewestIsPut' /\ BytesFollow'
  BY RingRests DEF MarksInv, mainVars
<1>2. EndsAreLate'
  BY DEF MarksInv, EndsAreLate, mainVars
<1>3. PICK d : Tells(d)
  BY DEF MarksInv, EndsAreMarked
<1>4. AreAhead(d)'
  BY <1>3 DEF Tells, AreAhead
<1>5. Unmarked' <=> Unmarked
  BY DEF Unmarked, mainVars
<1>. QED  BY <1>1, <1>2, <1>3, <1>4, <1>5, TellsRests

\* No end is one round ahead: a frame would fill the ring.
LEMMA NotARound ==
  ASSUME MarksInv, FramesFit, NEW d, Tells(d), stops # <<>>
  PROVE  d[1] # FifoSize
<1> SUFFICES ASSUME d[1] = FifoSize
             PROVE  FALSE
  OBVIOUS
<1>1. IInv /\ AreAhead(d)
  BY DEF MarksInv, Tells
<1>2. 1 \in 1 .. Len(stops)
  BY RingTypes DEF MarksInv, IInv
<1>3. g_txFifo.count = FifoSize /\ FifoSize \in Nat \ {0}
  BY <1>1, <1>2, EndTypes
<1>4. ASSUME NEW i \in 0 .. FifoSize - 2
      PROVE  ~IsLast(Peek(g_txFifo, i))
  <2>1. i + 1 \in 1 .. g_txFifo.count /\ i + 1 - 1 = i /\ i + 1 # g_txFifo.count
    BY <1>3
  <2>2. ASSUME IsLast(Peek(g_txFifo, i))
        PROVE  FALSE
    <3>1. i + 1 \in MarkedEnds
      BY <2>1, <2>2 DEF MarkedEnds
    <3>2. PICK k \in 1 .. Len(stops) : d[k] = i + 1
      BY <2>1, <3>1 DEF Tells
    <3>3. d[1] <= d[k]
      BY <1>1, <1>2, <3>2 DEF AreAhead
    <3>. QED  BY <1>3, <3>2, <3>3
  <2>. QED  BY <2>2
<1>5. /\ 0 \in 0 .. g_txFifo.count - 1 /\ FifoSize - 1 \in 0 .. g_txFifo.count - 1
      /\ 0 <= FifoSize - 1 /\ FifoSize - 1 - 1 = FifoSize - 2
  BY <1>3
<1>6. Peek(g_txFifo, FifoSize - 1).pos = Peek(g_txFifo, 0).pos + (FifoSize - 1 - 0)
  BY <1>4, <1>5 DEF MarksInv, BytesFollow
<1>7. PICK b \in Bytes, c \in Bytes : b = Peek(g_txFifo, FifoSize - 1) /\ c = Peek(g_txFifo, 0)
  BY <1>1, <1>5 DEF IInv, RingHoldsBytes
<1>8. b.pos = c.pos + (FifoSize - 1 - 0)
  BY <1>6, <1>7
<1>9. b.pos \in Nat /\ c.pos \in Nat \ {0} /\ b.frame.len \in Nat /\ b.pos <= b.frame.len
  BY ByteInFrame
<1>10. b.frame.len < FifoSize
  BY ByteInFrame DEF FramesFit
<1>. QED  BY <1>3, <1>8, <1>9, <1>10

\* The ends that are left when the first one is taken.
LEMMA TakeTells ==
  ASSUME IInv, NEW d, Tells(d), stops # <<>>
  PROVE  /\ Len(stops) \in Nat \ {0} /\ d[1] \in Int
         /\ \A k, m \in 1 .. Len(stops) - 1 : k < m => d[k + 1] - d[1] < d[m + 1] - d[1]
         /\ \A m \in Nat \ {0} : (\E k \in 1 .. Len(stops) : d[k] = m + d[1])
                                   <=> \E k \in 1 .. Len(stops) - 1 : d[k + 1] - d[1] = m
<1>1. PICK l \in Nat \ {0} : l = Len(stops) /\ AreAhead(d)
  BY RingTypes DEF IInv, Tells
<1>2. \A k \in 1 .. l : d[k] \in Int
  BY <1>1, EndTypes
<1>3. PICK n \in Int : n = d[1]
  BY <1>1, <1>2
<1>4. ASSUME NEW k \in 1 .. l - 1, NEW m \in 1 .. l - 1, k < m
      PROVE  d[k + 1] - n < d[m + 1] - n
  <2>1. k + 1 \in 1 .. l /\ m + 1 \in 1 .. l /\ k + 1 < m + 1
    BY <1>1, <1>4
  <2>2. d[k + 1] < d[m + 1]
    BY <1>1, <2>1 DEF Tells
  <2>. QED  BY <1>2, <2>1, <2>2
<1>5. ASSUME NEW m \in Nat \ {0}, NEW k \in 1 .. l, d[k] = m + n
      PROVE  \E i \in 1 .. l - 1 : d[i + 1] - n = m
  <2>1. k # 1
    BY <1>3, <1>5
  <2>2. k - 1 \in 1 .. l - 1 /\ k - 1 + 1 = k
    BY <1>1, <2>1
  <2>3. d[k - 1 + 1] - n = m
    BY <1>5, <2>2
  <2>. QED  BY <2>2, <2>3
<1>6. ASSUME NEW m \in Nat \ {0}, NEW k \in 1 .. l - 1, d[k + 1] - n = m
      PROVE  \E i \in 1 .. l : d[i] = m + n
  <2>1. k + 1 \in 1 .. l
    BY <1>1
  <2>2. d[k + 1] = m + n
    BY <1>2, <1>6, <2>1
  <2>. QED  BY <2>1, <2>2
<1>. QED  BY <1>1, <1>3, <1>4, <1>5, <1>6

\* trigger_transmision takes an end only where a frame ended before it was queued.
LEMMA TriggerMarks ==
  ASSUME MarksInv, FramesFit, TriggerTransmission, UNCHANGED g_txFifo, Unmarked' <=> Unmarked
  PROVE  EndsAreMarked'
<1>1. PICK d : Tells(d)
  BY DEF MarksInv, EndsAreMarked
<1>2. AreAhead(d) /\ IInv
  BY <1>1 DEF Tells, MarksInv
<1>3. CASE ~CanTransmit /\ UNCHANGED <<stops, dmaVars, g_sendState, flank>>
  <2>1. UNCHANGED <<stops, g_currentTransmissionCount, g_txFifo>>
    BY <1>3 DEF dmaVars
  <2>2. AreAhead(d)'
    BY <1>2, <2>1 DEF AreAhead
  <2>. QED  BY <1>1, <2>1, <2>2, TellsRests
<1>4. CASE ~StopAhead /\ SetupDMA(UntilWrap)
  <2>1. AreAhead(d)'
    BY <1>2, <1>4, BlockToWrap, SetupKeeps
  <2>. QED  BY <1>1, <1>4, <2>1, TellsRests DEF SetupDMA
<1>5. CASE /\ StopAhead
           /\ Head(stops) > g_txFifo.start
           /\ SetupDMA(Head(stops) - g_txFifo.start)
  <2>1. AreAhead(d)'
    BY <1>2, <1>5, BlockToStop, SetupKeeps
  <2>. QED  BY <1>1, <1>5, <2>1, TellsRests DEF SetupDMA
<1>6. CASE /\ CanTransmit
           /\ StopAhead
           /\ Head(stops) = g_txFifo.start
           /\ stops' = Tail(stops)
           /\ UNCHANGED dmaVars
  <2>1. g_currentTransmissionCount = 0 /\ g_currentTransmissionCount' = 0 /\ stops # <<>>
    BY <1>6 DEF CanTransmit, CanTransmitP1, CanTransmitP2, dmaVars, StopAhead
  <2>2. 1 \in 1 .. Len(stops) /\ Head(stops) = stops[1]
    BY <1>2, <2>1, RingTypes DEF IInv
  <2>3. d[1] = 0
    <3>1. g_txFifo.start \in Index /\ d[1] \in 0 .. FifoSize
      BY <1>2, <2>2, EndTypes, RingTypes DEF IInv
    <3>2. (g_txFifo.start + d[1]) % FifoSize = g_txFifo.start
      BY <1>2, <1>6, <2>2 DEF AreAhead
    <3>. QED  BY <1>1, <2>1, <3>1, <3>2, BackAtStart, NotARound
  <2>4. PICK l \in Nat : l = Len(stops)
    BY <1>2, EndTypes
  <2> DEFINE f == [k \in 1 .. l - 1 |-> d[k + 1] - 0]
  <2>5. AreAhead(f)'
    <3>1. g_txFifo' = [g_txFifo EXCEPT !.start = (@ + 0) % FifoSize, !.count = @ - 0]
      BY <1>2, NothingDrained
    <3>2. 0 \in 0 .. g_currentTransmissionCount
      BY <2>1
    <3>. QED  BY <1>2, <1>6, <2>1, <2>4, <3>1, <3>2, DrainAhead DEF Leaves
  <2>6. Len(stops') = l - 1
    BY <1>2, <1>6, <2>1, <2>4, TakeStop
  <2>7. /\ l \in Nat \ {0}
        /\ \A k, m \in 1 .. l - 1 : k < m => d[k + 1] - 0 < d[m + 1] - 0
        /\ \A m \in Nat \ {0} : (\E k \in 1 .. l : d[k] = m + 0)
                                  <=> \E k \in 1 .. l - 1 : d[k + 1] - 0 = m
    <3>1. /\ Len(stops) \in Nat \ {0}
          /\ \A k, m \in 1 .. Len(stops) - 1 : k < m => d[k + 1] - d[1] < d[m + 1] - d[1]
          /\ \A m \in Nat \ {0} : (\E k \in 1 .. Len(stops) : d[k] = m + d[1])
                                    <=> \E k \in 1 .. Len(stops) - 1 : d[k + 1] - d[1] = m
      BY <1>1, <1>2, <2>1, TakeTells
    <3>. QED  BY <2>3, <2>4, <3>1
  <2>8. \A k, m \in 1 .. l - 1 : k < m => f[k] < f[m]
    BY <2>7
  <2>9. ASSUME NEW m \in 1 .. g_txFifo.count
        PROVE  m \in MarkedEnds <=> \E k \in 1 .. l - 1 : f[k] = m
    <3>1. m \in Nat \ {0} /\ m + 0 = m
      BY <1>2, EndTypes
    <3>2. m \in MarkedEnds <=> \E k \in 1 .. l : d[k] = m
      BY <1>1, <2>4 DEF Tells
    <3>. QED  BY <2>7, <3>1, <3>2
  <2>10. MarkedEnds' = MarkedEnds
    BY MarkedRest
  <2> HIDE DEF f
  <2>11. Tells(f)'
    BY <2>5, <2>6, <2>8, <2>9, <2>10 DEF Tells
  <2>. QED  BY <2>11 DEF EndsAreMarked, Tells, AreAhead
<1>. QED  BY <1>3, <1>4, <1>5, <1>6 DEF TriggerTransmission

\* Where the end of a block is that of a frame, the first end is taken: the start
\* comes to it when all bytes before it have been sent, and at no other time.
LEMMA BlockEndsAtStop ==
  ASSUME IInv, EndBlock(moved), moved > 0, NEW d, AreAhead(d), stops # <<>>
  PROVE  g_txFifo'.start = Head(stops) <=> d[1] = moved
<1>1. 1 \in 1 .. Len(stops) /\ Head(stops) = stops[1]
  BY RingTypes DEF IInv
<1>2. PICK o \in 0 .. FifoSize, c \in 0 .. FifoSize, n \in 1 .. FifoSize :
        /\ o = d[1] /\ n = moved /\ c = g_txFifo.count
        /\ n <= o /\ o <= c /\ n \in 0 .. g_currentTransmissionCount
  BY <1>1, EndTypes, RingTypes DEF IInv
<1>3. PICK t \in Index : t = g_txFifo'.start
  BY <1>2, DrainedRing DEF EndBlock
<1>4. o - n \in 0 .. c - n /\ o - n \in 0 .. FifoSize /\ o - n # FifoSize /\ n + (o - n) = o
  BY <1>2, FifoAssumption
<1>5. (t + (o - n)) % FifoSize = (g_txFifo.start + (n + (o - n))) % FifoSize
  BY <1>2, <1>3, <1>4, DrainedRing DEF EndBlock
<1>6. Head(stops) = (t + (o - n)) % FifoSize
  BY <1>1, <1>2, <1>4, <1>5 DEF AreAhead
<1>7. (t + (o - n)) % FifoSize = t <=> o - n = 0
  BY <1>4, BackAtStart
<1>. QED  BY <1>2, <1>3, <1>6, <1>7

\* The bytes that stay in the ring are numbered from the new start.
LEMMA MarkedDrained ==
  ASSUME IInv, EndBlock(moved), NEW m \in 1 .. g_txFifo'.count, Unmarked' <=> Unmarked
  PROVE  m \in MarkedEnds' <=> m + moved \in MarkedEnds
<1>1. PICK c \in Nat, n \in Nat :
        /\ c = g_txFifo.count /\ n = moved /\ n \in 0 .. g_currentTransmissionCount
        /\ n <= c
  BY RingTypes DEF IInv
<1>2. /\ g_txFifo'.count = c - n /\ c - n \in Nat
      /\ \A k \in 0 .. c - n : Peek(g_txFifo', k) = Peek(g_txFifo, n + k)
  <2>1. g_txFifo' = [g_txFifo EXCEPT !.start = (@ + n) % FifoSize, !.count = @ - n]
    BY <1>1 DEF EndBlock
  <2>2. /\ g_txFifo'.count = g_txFifo.count - n
        /\ \A k \in 0 .. g_txFifo.count - n : Peek(g_txFifo', k) = Peek(g_txFifo, n + k)
    BY <1>1, <2>1, DrainedRing
  <2>. QED  BY <1>1, <2>2
<1>3. /\ m - 1 \in 0 .. c - n /\ n + (m - 1) = m + n - 1 /\ m + n \in 1 .. c
      /\ m = c - n <=> m + n = c
  BY <1>1, <1>2
<1>4. Peek(g_txFifo', m - 1) = Peek(g_txFifo, m + n - 1)
  BY <1>2, <1>3
<1>. QED  BY <1>1, <1>2, <1>3, <1>4 DEF MarkedEnds, IsLast

\* The bytes that stay in the ring keep their order.
LEMMA EndBlockRing ==
  ASSUME MarksInv, EndBlock(moved), UNCHANGED <<frame, next>>
  PROVE  NewestIsPut' /\ BytesFollow'
<1>1. PICK c \in Nat, n \in Nat :
        /\ c = g_txFifo.count /\ n = moved /\ n \in 0 .. g_currentTransmissionCount
        /\ n <= c
  BY RingTypes DEF MarksInv, IInv
<1>2. /\ g_txFifo'.count = c - n /\ c - n \in Nat
      /\ \A k \in 0 .. c - n : Peek(g_txFifo', k) = Peek(g_txFifo, n + k)
  <2>1. g_txFifo' = [g_txFifo EXCEPT !.start = (@ + n) % FifoSize, !.count = @ - n] /\ IInv
    BY <1>1 DEF EndBlock, MarksInv
  <2>2. /\ g_txFifo'.count = g_txFifo.count - n
        /\ \A k \in 0 .. g_txFifo.count - n : Peek(g_txFifo', k) = Peek(g_txFifo, n + k)
    BY <1>1, <2>1, DrainedRing
  <2>. QED  BY <1>1, <2>2
<1>3. NewestIsPut'
  <2>1. ASSUME c - n > 0
        PROVE  Peek(g_txFifo', c - n - 1) = Peek(g_txFifo, c - 1) /\ c > 0
    <3>1. c - n - 1 \in 0 .. c - n /\ n + (c - n - 1) = c - 1 /\ c > 0
      BY <1>1, <2>1
    <3>. QED  BY <1>2, <3>1
  <2>. QED  BY <1>1, <1>2, <2>1 DEF MarksInv, NewestIsPut, IsLast
<1>4. BytesFollow'
  <2>1. ASSUME NEW i \in 0 .. c - n - 1, NEW j \in 0 .. c - n - 1, i <= j,
               \A k \in i .. j - 1 : ~IsLast(Peek(g_txFifo', k))
        PROVE  Peek(g_txFifo', j).pos = Peek(g_txFifo', i).pos + (j - i)
    <3>1. /\ n + i \in 0 .. c - 1 /\ n + j \in 0 .. c - 1 /\ n + i <= n + j
          /\ n + j - (n + i) = j - i /\ i \in 0 .. c - n /\ j \in 0 .. c - n
      BY <1>1, <2>1
    <3>2. ASSUME NEW k \in n + i .. n + j - 1
          PROVE  ~IsLast(Peek(g_txFifo, k))
      <4>1. k - n \in i .. j - 1 /\ k - n \in 0 .. c - n /\ n + (k - n) = k
        BY <1>1, <2>1, <3>1
      <4>2. Peek(g_txFifo', k - n) = Peek(g_txFifo, k)
        BY <1>2, <4>1
      <4>. QED  BY <2>1, <4>1, <4>2
    <3>3. Peek(g_txFifo, n + j).pos = Peek(g_txFifo, n + i).pos + (n + j - (n + i))
      BY <1>1, <3>1, <3>2 DEF MarksInv, BytesFollow
    <3>. QED  BY <1>2, <3>1, <3>3
  <2>2. g_txFifo'.count - 1 = c - n - 1
    BY <1>2
  <2>. QED  BY <2>1, <2>2 DEF BytesFollow, IsLast
<1>. QED  BY <1>3, <1>4

\* The end of a block, of at least one byte.
LEMMA EndBlockMarks ==
  ASSUME MarksInv, EndBlock(moved), moved > 0, Leaves(moved),
         UNCHANGED mainVars
  PROVE  NewestIsPut' /\ BytesFollow' /\ EndsAreLate' /\ EndsAreMarked'
<1>1. NewestIsPut' /\ BytesFollow'
  BY EndBlockRing DEF mainVars
<1>2. PICK d : Tells(d)
  BY DEF MarksInv, EndsAreMarked
<1>3. IInv /\ AreAhead(d)
  BY <1>2 DEF MarksInv, Tells
<1>4. PICK l \in Nat, c \in Nat, n \in Nat \ {0} :
        /\ l = Len(stops) /\ c = g_txFifo.count /\ n = moved
        /\ n \in 0 .. g_currentTransmissionCount /\ n <= c
        /\ \A k \in 1 .. l : d[k] \in Int /\ n <= d[k] /\ d[k] <= c
  <2>1. PICK l \in Nat, c \in Nat, n \in Nat \ {0} :
          /\ l = Len(stops) /\ c = g_txFifo.count /\ n = moved
          /\ n \in 0 .. g_currentTransmissionCount /\ g_currentTransmissionCount \in 0 .. c
    BY <1>3, RingTypes DEF IInv
  <2>2. \A k \in 1 .. l : /\ d[k] \in Int /\ g_currentTransmissionCount <= d[k]
                          /\ d[k] <= c
    BY <1>3, <2>1, EndTypes
  <2>3. \A k \in 1 .. l : d[k] \in Int /\ n <= d[k] /\ d[k] <= c
    BY <2>1, <2>2
  <2>4. n <= c
    BY <2>1
  <2>. QED  BY <2>1, <2>3, <2>4
<1>5. /\ g_txFifo' = [g_txFifo EXCEPT !.start = (@ + n) % FifoSize, !.count = @ - n]
      /\ g_txFifo'.count = c - n
  BY <1>3, <1>4, DrainedRing DEF EndBlock
<1>6. /\ stops # <<>> /\ d[1] = n => stops' = Tail(stops)
      /\ ~(stops # <<>> /\ d[1] = n) => stops' = stops
  BY <1>3, <1>4, BlockEndsAtStop DEF EndBlock
<1>7. Unmarked' <=> Unmarked
  BY DEF Unmarked, mainVars
<1>8. EndsAreLate'
  <2>1. ASSUME g_txFifo'.count = 0
        PROVE  stops' = <<>>
    <3>1. CASE l = 0
      <4>1. stops \in Seq(Index)
        BY <1>3, RingTypes DEF IInv
      <4>2. Len(stops) = 0
        BY <1>4, <3>1
      <4>3. stops = <<>>
        BY <4>1, <4>2
      <4>. QED  BY <1>6, <4>3
    <3>2. CASE l # 0
      <4>1. 1 \in 1 .. l /\ stops # <<>> /\ d[1] = n
        BY <1>4, <1>5, <2>1, <3>2
      <4>2. l = 1
        <5>1. ASSUME l # 1
              PROVE  FALSE
          <6>1. 2 \in 1 .. l /\ 1 < 2
            BY <3>2, <5>1
          <6>2. d[1] < d[2]
            BY <1>2, <1>4, <4>1, <6>1 DEF Tells
          <6>. QED  BY <1>4, <1>5, <2>1, <4>1, <6>1, <6>2
        <5>. QED  BY <5>1
      <4>3. stops' \in Seq(Index) /\ Len(stops') = 0
        BY <1>3, <1>4, <1>6, <4>1, <4>2, TakeStop
      <4>. QED  BY <4>3
    <3>. QED  BY <3>1, <3>2
  <2>. QED  BY <2>1 DEF MarksInv, EndsAreLate, mainVars
<1>9. EndsAreMarked'
  <2>1. CASE stops # <<>> /\ d[1] = n
    <3> DEFINE f == [k \in 1 .. l - 1 |-> d[k + 1] - n]
    <3>1. AreAhead(f)'
      BY <1>3, <1>4, <1>5, <1>6, <2>1, DrainAhead
    <3>2. Len(stops') = l - 1
      BY <1>3, <1>4, <1>6, <2>1, TakeStop
    <3>3. /\ Len(stops) \in Nat \ {0}
          /\ \A k, m \in 1 .. Len(stops) - 1 : k < m => d[k + 1] - d[1] < d[m + 1] - d[1]
          /\ \A m \in Nat \ {0} : (\E k \in 1 .. Len(stops) : d[k] = m + d[1])
                                    <=> \E k \in 1 .. Len(stops) - 1 : d[k + 1] - d[1] = m
      BY <1>2, <1>3, <2>1, TakeTells
    <3>4. \A k, m \in 1 .. l - 1 : k < m => f[k] < f[m]
      BY <1>4, <2>1, <3>3
    <3>5. ASSUME NEW m \in 1 .. g_txFifo'.count
          PROVE  m \in MarkedEnds' <=> \E k \in 1 .. l - 1 : f[k] = m
      <4>1. m \in Nat \ {0} /\ m + n \in 1 .. c
        BY <1>4, <1>5
      <4>2. m \in MarkedEnds' <=> m + n \in MarkedEnds
        BY <1>3, <1>4, <1>7, MarkedDrained
      <4>3. m + n \in MarkedEnds <=> \E k \in 1 .. l : d[k] = m + n
        BY <1>2, <1>4, <4>1 DEF Tells
      <4>4. (\E k \in 1 .. l : d[k] = m + n) <=> \E k \in 1 .. l - 1 : d[k + 1] - n = m
        BY <1>4, <2>1, <3>3, <4>1
      <4>. QED  BY <4>2, <4>3, <4>4
    <3> HIDE DEF f
    <3>6. Tells(f)'
      BY <3>1, <3>2, <3>4, <3>5 DEF Tells
    <3>. QED  BY <3>6 DEF EndsAreMarked, Tells, AreAhead
  <2>2. CASE ~(stops # <<>> /\ d[1] = n)
    <3> DEFINE e == [k \in 1 .. l |-> d[k] - n]
    <3>1. AreAhead(e)'
      BY <1>3, <1>4, <1>5, <1>6, <2>2, DrainAhead
    <3>2. Len(stops') = l
      BY <1>4, <1>6, <2>2
    <3>3. \A k, m \in 1 .. l : k < m => e[k] < e[m]
      <4>1. \A k, m \in 1 .. l : k < m => d[k] < d[m]
        BY <1>2, <1>4 DEF Tells
      <4>. QED  BY <1>4, <4>1
    <3>4. ASSUME NEW m \in 1 .. g_txFifo'.count
          PROVE  m \in MarkedEnds' <=> \E k \in 1 .. l : e[k] = m
      <4>1. m \in Nat \ {0} /\ m + n \in 1 .. c
        BY <1>4, <1>5
      <4>2. m \in MarkedEnds' <=> m + n \in MarkedEnds
        BY <1>3, <1>4, <1>7, MarkedDrained
      <4>3. m + n \in MarkedEnds <=> \E k \in 1 .. l : d[k] = m + n
        BY <1>2, <1>4, <4>1 DEF Tells
      <4>4. ASSUME NEW k \in 1 .. l
            PROVE  d[k] = m + n <=> e[k] = m
        <5>1. PICK o \in Int : o = d[k]
          BY <1>4
        <5>2. e[k] = o - n
          BY <5>1
        <5>3. o = m + n <=> o - n = m
          BY <1>4, <4>1
        <5>. QED  BY <5>1, <5>2, <5>3
      <4>. QED  BY <4>2, <4>3, <4>4
    <3> HIDE DEF e
    <3>5. Tells(e)'
      BY <3>1, <3>2, <3>3, <3>4 DEF Tells
    <3>. QED  BY <3>5 DEF EndsAreMarked, Tells, AreAhead
  <2>. QED  BY <2>1, <2>2
<1>. QED  BY <1>1, <1>8, <1>9

-----------------------------------------------------------------------------
\* It holds at the start and every action keeps it.

\* The start.
LEMMA InitMarks == Init => MarksInv
<1> SUFFICES ASSUME Init PROVE MarksInv
  OBVIOUS
<1>1. IInv
  BY InitIInv
<1>2. g_txFifo.count = 0 /\ stops = <<>> /\ g_currentTransmissionCount = 0
  BY DEF Init, InitSender, InitFifo
<1>3. next = frame.len + 1 /\ pc = "idle"
  BY DEF Init
<1>4. NewestIsPut /\ BytesFollow
  BY <1>2 DEF NewestIsPut, BytesFollow
<1>5. EndsAreLate
  BY <1>2, <1>3 DEF EndsAreLate
<1>6. EndsAreMarked
  <2>1. PICK d : AreAhead(d)
    BY <1>1 DEF IInv, StopsAreAhead
  <2>2. 1 .. Len(stops) = {} /\ 1 .. g_txFifo.count = {}
    BY <1>2
  <2>3. Tells(d)
    BY <2>1, <2>2 DEF Tells
  <2>. QED  BY <2>3 DEF EndsAreMarked, Tells, AreAhead
<1>. QED  BY <1>1, <1>4, <1>5, <1>6 DEF MarksInv

\* StartFrame keeps that the ends of frames are told.
LEMMA StartFrameMarks ==
  ASSUME MarksInv, NEW f \in Frames, StartFrame(f)
  PROVE  MarksInv'
<1> USE DEF StartFrame
<1>1. IInv'
  BY StartFrameIInv DEF MarksInv
<1>2. next = frame.len + 1 /\ frame \in Frames /\ frame.len \in Nat \ {0}
  BY FrameLength DEF MarksInv, EndsAreLate, IInv, TypeOK, MinPacket
<1>3. NewestIsPut'
  BY <1>2 DEF MarksInv, NewestIsPut, Peek, IsLast
<1>4. BytesFollow'
  BY DEF MarksInv, BytesFollow, Peek, IsLast
<1>5. EndsAreLate'
  BY DEF EndsAreLate
<1>6. PICK d : Tells(d)
  BY DEF MarksInv, EndsAreMarked
<1>7. AreAhead(d)'
  BY <1>6 DEF Tells, AreAhead, dmaVars
<1>8. Unmarked' <=> Unmarked
  BY DEF Unmarked
<1>. QED  BY <1>1, <1>3, <1>4, <1>5, <1>6, <1>7, <1>8, TellsRests DEF MarksInv

\* PutByte keeps that the ends of frames are told.
LEMMA PutByteMarks ==
  ASSUME MarksInv, PutByte
  PROVE  MarksInv'
<1> USE DEF PutByte
<1>1. IInv' /\ IInv
  BY PutByteIInv DEF MarksInv
<1> DEFINE b == [frame |-> frame, pos |-> next]
<1>2. frame \in Frames /\ next \in Nat \ {0} /\ next <= frame.len /\ b \in Bytes /\ frame.len \in Nat
  BY <1>1, NextByte
<1>3. PICK d : Tells(d)
  BY DEF MarksInv, EndsAreMarked
<1>4. AreAhead(d)
  BY <1>3 DEF Tells
<1>5. PICK c \in 0 .. FifoSize, l \in Nat : c = g_txFifo.count /\ l = Len(stops)
  BY <1>1, RingTypes DEF IInv
<1>6. CASE ~PutOkay(g_txFifo)
  <2>1. UNCHANGED <<g_txFifo, frame, next, stops, g_currentTransmissionCount>>
    BY <1>6 DEF dmaVars
  <2>2. NewestIsPut' /\ BytesFollow'
    BY <2>1, RingRests DEF MarksInv
  <2>3. EndsAreLate'
    <3>1. g_txFifo'.count # 0
      BY <1>5, <1>6, <2>1, FifoAssumption DEF PutOkay
    <3>. QED  BY <3>1 DEF EndsAreLate
  <2>4. Unmarked' <=> Unmarked
    BY <1>2, <2>1 DEF Unmarked
  <2>5. AreAhead(d)'
    BY <1>4, <2>1 DEF AreAhead
  <2>. QED  BY <1>1, <1>3, <2>1, <2>2, <2>3, <2>4, <2>5, TellsRests DEF MarksInv
<1>7. CASE PutOkay(g_txFifo)
  <2>1. g_txFifo' = Put(g_txFifo, b) /\ next' = next + 1 /\ frame' = frame /\ pc' = "trigger"
    BY <1>7
  <2>2. UNCHANGED <<stops, g_currentTransmissionCount>>
    BY DEF dmaVars
  <2>3. /\ g_txFifo'.start = g_txFifo.start /\ g_txFifo'.count = c + 1
        /\ \A k \in 0 .. c - 1 : Peek(g_txFifo', k) = Peek(g_txFifo, k)
        /\ Peek(g_txFifo', c) = b
    BY <1>1, <1>2, <1>5, <1>7, <2>1, PutRing
  <2>4. NewestIsPut'
    <3>1. next' > 1 /\ next' - 1 = next /\ c + 1 - 1 = c
      BY <1>2, <1>5, <2>1
    <3>. QED  BY <2>1, <2>3, <3>1 DEF NewestIsPut
  <2>5. BytesFollow'
    <3>1. ASSUME NEW i \in 0 .. c, NEW j \in 0 .. c, i <= j,
                 \A k \in i .. j - 1 : ~IsLast(Peek(g_txFifo', k))
          PROVE  Peek(g_txFifo', j).pos = Peek(g_txFifo', i).pos + (j - i)
      <4>1. CASE j \in 0 .. c - 1
        <5>1. i \in 0 .. c - 1 /\ \A k \in i .. j - 1 : k \in 0 .. c - 1
          BY <3>1, <4>1
        <5>2. \A k \in i .. j - 1 : ~IsLast(Peek(g_txFifo, k))
          BY <2>3, <3>1, <5>1
        <5>3. Peek(g_txFifo, j).pos = Peek(g_txFifo, i).pos + (j - i)
          BY <1>5, <3>1, <4>1, <5>1, <5>2 DEF MarksInv, BytesFollow
        <5>. QED  BY <2>3, <4>1, <5>1, <5>3
      <4>2. CASE j = c /\ i = c
        <5>1. Peek(g_txFifo', c).pos \in Nat
          BY <1>2, <2>3
        <5>2. c - c = 0
          BY <1>5
        <5>. QED  BY <4>2, <5>1, <5>2
      <4>3. CASE j = c /\ i # c
        <5>1. /\ c - 1 \in 0 .. c - 1 /\ i \in 0 .. c - 1 /\ c > 0 /\ c - 1 \in i .. j - 1
              /\ \A k \in i .. c - 2 : k \in 0 .. c - 1 /\ k \in i .. j - 1
          BY <1>5, <3>1, <4>3
        <5>2. ~IsLast(Peek(g_txFifo, c - 1))
          BY <2>3, <3>1, <5>1
        <5>3. \A k \in i .. c - 1 - 1 : ~IsLast(Peek(g_txFifo, k))
          <6>1. c - 1 - 1 = c - 2
            BY <1>5
          <6>. QED  BY <2>3, <3>1, <5>1, <6>1
        <5>4. next > 1 /\ Peek(g_txFifo, c - 1) = [frame |-> frame, pos |-> next - 1]
          BY <1>2, <1>5, <5>1, <5>2 DEF MarksInv, NewestIsPut
        <5>5. i <= c - 1 /\ c - 1 \in 0 .. g_txFifo.count - 1 /\ i \in 0 .. g_txFifo.count - 1
          BY <1>5, <5>1
        <5>6. Peek(g_txFifo, c - 1).pos = Peek(g_txFifo, i).pos + (c - 1 - i)
          BY <5>3, <5>5 DEF MarksInv, BytesFollow
        <5>7. Peek(g_txFifo', i) = Peek(g_txFifo, i) /\ Peek(g_txFifo', c).pos = next
          BY <2>3, <5>1
        <5>8. PICK p \in Nat : p = Peek(g_txFifo, i).pos
          <6>1. Peek(g_txFifo, i) \in Bytes
            BY <1>1, <5>5 DEF IInv, RingHoldsBytes
          <6>. QED  BY <6>1, ByteInFrame
        <5>9. next - 1 = p + (c - 1 - i)
          BY <5>4, <5>6, <5>8
        <5>10. next = p + (c - i)
          <6>1. next \in Int /\ c \in Int /\ i \in Int
            BY <1>2, <1>5, FifoAssumption
          <6> HIDE DEF PutByte
          <6>. QED  BY <5>9, <6>1
        <5>. QED  BY <4>3, <5>7, <5>8, <5>10
      <4>. QED  BY <1>5, <4>1, <4>2, <4>3
    <3>2. g_txFifo'.count - 1 = c
      BY <1>5, <2>3
    <3>. QED  BY <3>1, <3>2 DEF BytesFollow, IsLast
  <2>6. EndsAreLate'
    <3>1. g_txFifo'.count # 0
      BY <1>5, <2>3
    <3>. QED  BY <2>1, <3>1 DEF EndsAreLate
  <2>7. AreAhead(d)'
    <3>1. ASSUME NEW k \in 1 .. l
          PROVE  d[k] \in g_currentTransmissionCount .. c + 1
      <4>1. d[k] \in Int /\ g_currentTransmissionCount <= d[k] /\ d[k] <= c
        BY <1>1, <1>4, <1>5, EndTypes
      <4>2. g_currentTransmissionCount \in Int
        BY <1>1, RingTypes DEF IInv
      <4>. QED  BY <1>5, <4>1, <4>2
    <3>2. d \in [1 .. l -> g_currentTransmissionCount .. c + 1]
      BY <1>4, <1>5, <3>1 DEF AreAhead
    <3>. QED  BY <1>4, <1>5, <2>2, <2>3, <3>2 DEF AreAhead
  <2>8. ASSUME NEW m \in 1 .. c + 1
        PROVE  m \in MarkedEnds' <=> \E k \in 1 .. l : d[k] = m
    <3>1. \A k \in 1 .. l : d[k] \in Int /\ d[k] <= c
      BY <1>1, <1>4, <1>5, EndTypes
    <3>2. CASE m \in 1 .. c
      <4>1. m - 1 \in 0 .. c - 1 /\ m # c + 1
        BY <1>5, <3>2
      <4>2. m \in MarkedEnds' <=> IsLast(Peek(g_txFifo', m - 1))
        BY <2>3, <4>1 DEF MarkedEnds, IsLast
      <4>3. m \in MarkedEnds <=> IsLast(Peek(g_txFifo, m - 1))
        BY <1>5, <3>2 DEF MarkedEnds, Unmarked
      <4>4. m \in MarkedEnds <=> \E k \in 1 .. l : d[k] = m
        BY <1>3, <1>5, <3>2 DEF Tells
      <4>. QED  BY <2>3, <4>1, <4>2, <4>3, <4>4
    <3>3. CASE m = c + 1
      <4>1. m - 1 = c
        BY <1>5, <3>3
      <4>2. IsLast(b) <=> next = frame.len
        BY DEF IsLast
      <4>3. Unmarked' <=> next + 1 > frame.len
        BY <2>1 DEF Unmarked
      <4>4. m \notin MarkedEnds'
        <5>1. next + 1 > frame.len <=> next = frame.len
          BY <1>2
        <5>2. m \in MarkedEnds' => IsLast(b) /\ ~Unmarked'
          BY <2>3, <3>3, <4>1 DEF MarkedEnds, IsLast
        <5>. QED  BY <4>2, <4>3, <5>1, <5>2
      <4>5. ~ \E k \in 1 .. l : d[k] = m
        BY <1>5, <3>1, <3>3
      <4>. QED  BY <4>4, <4>5
    <3>. QED  BY <1>5, <3>2, <3>3
  <2>9. Tells(d)'
    <3>1. Len(stops') = l /\ \A k, m \in 1 .. l : k < m => d[k] < d[m]
      BY <1>3, <1>5, <2>2 DEF Tells
    <3>. QED  BY <2>3, <2>7, <2>8, <3>1 DEF Tells
  <2>10. EndsAreMarked'
    BY <2>9 DEF EndsAreMarked, Tells, AreAhead
  <2>. QED  BY <1>1, <2>4, <2>5, <2>6, <2>10 DEF MarksInv
<1>. QED  BY <1>6, <1>7

\* TriggerByMain keeps that the ends of frames are told.
LEMMA TriggerByMainMarks ==
  ASSUME MarksInv, FramesFit, TriggerByMain
  PROVE  MarksInv'
<1> USE DEF TriggerByMain
<1>1. IInv'
  BY TriggerByMainIInv DEF MarksInv
<1>2. UNCHANGED <<g_txFifo, frame, next>>
  OBVIOUS
<1>3. frame \in Frames /\ frame.len \in Nat /\ next \in Nat /\ next <= frame.len + 1
  BY FrameLength DEF MarksInv, IInv, TypeOK
<1>4. Unmarked' <=> Unmarked
  BY <1>3 DEF Unmarked
<1>5. EndsAreMarked'
  BY <1>4, TriggerMarks
<1>6. NewestIsPut' /\ BytesFollow'
  BY <1>2, RingRests DEF MarksInv
<1>7. EndsAreLate'
  <2>1. pc' \in {"idle", "mark", "stop"} => next' = frame'.len + 1
    BY <1>2, <1>3
  <2>2. ASSUME g_txFifo.count = 0
        PROVE  stops' = stops
    <3>1. ~(UntilWrap > 0)
      BY <2>2, FifoAssumption, RingTypes DEF UntilWrap, MarksInv, IInv, Index
    <3>2. ~CanTransmit
      BY <3>1 DEF CanTransmit, CanTransmitP1, CanTransmitP2
    <3>. QED  BY <3>2 DEF TriggerTransmission
  <2>. QED  BY <1>2, <2>1, <2>2 DEF MarksInv, EndsAreLate
<1>. QED  BY <1>1, <1>5, <1>6, <1>7 DEF MarksInv

\* TriggerByHandler keeps that the ends of frames are told.
LEMMA TriggerByHandlerMarks ==
  ASSUME MarksInv, FramesFit, TriggerByHandler
  PROVE  MarksInv'
<1> USE DEF TriggerByHandler
<1>1. IInv'
  BY TriggerByHandlerIInv DEF MarksInv
<1>2. UNCHANGED <<g_txFifo, frame, next, pc>>
  BY DEF mainVars
<1>3. Unmarked' <=> Unmarked
  BY <1>2 DEF Unmarked
<1>4. EndsAreMarked'
  BY <1>3, TriggerMarks
<1>5. NewestIsPut' /\ BytesFollow'
  BY <1>2, RingRests DEF MarksInv
<1>6. EndsAreLate'
  <2>1. ASSUME g_txFifo.count = 0
        PROVE  stops' = stops
    <3>1. ~(UntilWrap > 0)
      BY <2>1, FifoAssumption, RingTypes DEF UntilWrap, MarksInv, IInv, Index
    <3>2. ~CanTransmit
      BY <3>1 DEF CanTransmit, CanTransmitP1, CanTransmitP2
    <3>. QED  BY <3>2 DEF TriggerTransmission
  <2>. QED  BY <1>2, <2>1 DEF MarksInv, EndsAreLate
<1>. QED  BY <1>1, <1>4, <1>5, <1>6 DEF MarksInv

\* MarkEnd keeps that the ends of frames are told.
LEMMA MarkEndMarks ==
  ASSUME MarksInv, MarkEnd
  PROVE  MarksInv'
<1> USE DEF MarkEnd
<1>1. IInv'
  BY MarkEndIInv DEF MarksInv
<1>2. UNCHANGED <<g_txFifo, stops, g_currentTransmissionCount, frame, next>>
  BY DEF dmaVars
<1>3. NewestIsPut' /\ BytesFollow'
  BY <1>2, RingRests DEF MarksInv
<1>4. EndsAreLate'
  BY <1>2 DEF MarksInv, EndsAreLate
<1>5. PICK d : Tells(d)
  BY DEF MarksInv, EndsAreMarked
<1>6. AreAhead(d)'
  BY <1>2, <1>5 DEF Tells, AreAhead
<1>7. EndsAreMarked'
  <2>1. CASE g_txFifo.count = 0
    <3>1. 1 .. g_txFifo'.count = {}
      BY <1>2, <2>1
    <3>2. \A k, m \in 1 .. Len(stops') : k < m => d[k] < d[m]
      BY <1>2, <1>5 DEF Tells
    <3>3. Tells(d)'
      BY <1>6, <3>1, <3>2 DEF Tells
    <3>. QED  BY <3>3 DEF EndsAreMarked, Tells, AreAhead
  <2>2. CASE g_txFifo.count # 0
    <3>1. Unmarked' <=> Unmarked
      BY <1>2, <2>2 DEF Unmarked
    <3>. QED  BY <1>2, <1>5, <1>6, <3>1, TellsRests
  <2>. QED  BY <2>1, <2>2
<1>. QED  BY <1>1, <1>3, <1>4, <1>7 DEF MarksInv

\* Until its end is queued a frame has no end among those that are.
LEMMA PutStopMarks ==
  ASSUME MarksInv, PutStop
  PROVE  MarksInv'
<1> USE DEF PutStop
<1>1. IInv' /\ IInv
  BY PutStopIInv DEF MarksInv
<1>2. UNCHANGED <<g_txFifo, g_currentTransmissionCount, frame, next>> /\ pc = "stop" /\ pc' = "idle"
  BY DEF dmaVars
<1>3. NewestIsPut' /\ BytesFollow'
  BY <1>2, RingRests DEF MarksInv
<1>4. EndsAreLate'
  BY <1>2 DEF MarksInv, EndsAreLate
<1>5. PICK d : Tells(d)
  BY DEF MarksInv, EndsAreMarked
<1>6. AreAhead(d)
  BY <1>5 DEF Tells
<1>7. PICK l \in Nat, c \in Nat :
        /\ l = Len(stops) /\ c = g_txFifo.count
        /\ \A k \in 1 .. l : d[k] \in Int /\ d[k] <= c
  <2>1. Len(stops) \in Nat /\ g_txFifo.count \in Nat
    BY <1>1, RingTypes DEF IInv
  <2>2. \A k \in 1 .. Len(stops) : d[k] \in Int /\ d[k] <= g_txFifo.count
    BY <1>1, <1>6, EndTypes
  <2>. QED  BY <2>1, <2>2
<1>8. next = frame.len + 1 /\ frame.len \in Nat \ {0} /\ frame.len + 1 > frame.len
  <2>1. frame \in Frames
    BY <1>1 DEF IInv, TypeOK
  <2>2. frame.len \in Nat \ {0}
    BY <2>1, FrameLength DEF MinPacket
  <2>3. next = frame.len + 1
    BY <1>2 DEF MarksInv, EndsAreLate
  <2>. QED  BY <2>2, <2>3
<1>9. Unmarked /\ ~Unmarked'
  BY <1>2, <1>8 DEF Unmarked
<1>10. \A k \in 1 .. l : d[k] # c
  <2>1. ASSUME NEW k \in 1 .. l, d[k] = c
        PROVE  FALSE
    <3>1. CASE c = 0
      <4>1. stops = <<>>
        BY <1>2, <1>7, <3>1 DEF MarksInv, EndsAreLate
      <4>. QED  BY <1>7, <4>1
    <3>2. CASE c # 0
      <4>1. c \in 1 .. c
        BY <1>7, <3>2
      <4>2. c \in MarkedEnds
        BY <1>5, <1>7, <2>1, <4>1 DEF Tells
      <4>. QED  BY <1>7, <1>9, <4>2 DEF MarkedEnds
    <3>. QED  BY <3>1, <3>2
  <2>. QED  BY <2>1
<1> DEFINE e == [k \in 1 .. l + 1 |-> IF k <= l THEN d[k] ELSE c]
<1>11. Len(stops') = l + 1 /\ AreAhead(e)'
  BY <1>1, <1>6, <1>7, PutStopAhead
<1>12. \A k, m \in 1 .. l + 1 : k < m => e[k] < e[m]
  <2>1. ASSUME NEW k \in 1 .. l + 1, NEW m \in 1 .. l + 1, k < m
        PROVE  e[k] < e[m]
    <3>1. k \in 1 .. l /\ e[k] = d[k]
      BY <1>7, <2>1
    <3>2. CASE m \in 1 .. l
      <4>1. e[m] = d[m]
        BY <1>7, <3>2
      <4>. QED  BY <1>5, <1>7, <2>1, <3>1, <3>2, <4>1 DEF Tells
    <3>3. CASE m = l + 1
      <4>1. e[m] = c
        BY <1>7, <3>3
      <4>. QED  BY <1>7, <1>10, <3>1, <4>1
    <3>. QED  BY <1>7, <3>2, <3>3
  <2>. QED  BY <2>1
<1>13. ASSUME NEW m \in 1 .. c
       PROVE  m \in MarkedEnds' <=> \E k \in 1 .. l + 1 : e[k] = m
  <2>1. CASE m = c
    <3>1. l + 1 \in 1 .. l + 1 /\ e[l + 1] = c
      BY <1>7
    <3>2. IsLast(Peek(g_txFifo, c - 1))
      <4>1. c > 0 /\ next > 1 /\ next - 1 = frame.len
        BY <1>7, <1>8, <2>1
      <4>2. Peek(g_txFifo, c - 1) = [frame |-> frame, pos |-> frame.len]
        BY <1>7, <4>1 DEF MarksInv, NewestIsPut
      <4>. QED  BY <4>2 DEF IsLast
    <3>3. m \in MarkedEnds'
      BY <1>2, <1>7, <1>9, <2>1, <3>2 DEF MarkedEnds, IsLast
    <3>. QED  BY <2>1, <3>1, <3>3
  <2>2. CASE m # c
    <3>1. m \in MarkedEnds' <=> m \in MarkedEnds
      BY <1>2, <1>7, <2>2 DEF MarkedEnds, IsLast
    <3>2. m \in MarkedEnds <=> \E k \in 1 .. l : d[k] = m
      BY <1>5, <1>7 DEF Tells
    <3>3. \A k \in 1 .. l : k \in 1 .. l + 1 /\ e[k] = d[k]
      BY <1>7
    <3>4. \A k \in 1 .. l + 1 : e[k] = m => k \in 1 .. l
      BY <1>7, <2>2
    <3>. QED  BY <3>1, <3>2, <3>3, <3>4
  <2>. QED  BY <2>1, <2>2
<1> HIDE DEF e
<1>14. Tells(e)'
  BY <1>2, <1>7, <1>11, <1>12, <1>13 DEF Tells
<1>15. EndsAreMarked'
  BY <1>14 DEF EndsAreMarked, Tells, AreAhead
<1>. QED  BY <1>1, <1>3, <1>4, <1>15 DEF MarksInv

\* Every step keeps that the ends of frames are told.
LEMMA NextMarks ==
  ASSUME FramesFit
  PROVE  MarksInv /\ [Next]_vars => MarksInv'
<1> SUFFICES ASSUME MarksInv, [Next]_vars PROVE MarksInv'
  OBVIOUS
<1>1. IInv'
  BY NextIInv DEF MarksInv
<1>2. ASSUME UNCHANGED <<g_txFifo, stops, g_currentTransmissionCount, mainVars>>
      PROVE  MarksInv'
  BY <1>1, <1>2, MarksRest DEF MarksInv
<1>3. ASSUME NEW f \in Frames, StartFrame(f) PROVE MarksInv'
  BY <1>3, StartFrameMarks
<1>4. CASE Main
  BY <1>4, PutByteMarks, TriggerByMainMarks, MarkEndMarks, PutStopMarks DEF Main
<1>5. CASE MoveByte
  BY <1>2, <1>5 DEF MoveByte
<1>6. CASE TransmissionCompleteP1
  BY <1>1, <1>6, EndBlockMarks DEF TransmissionCompleteP1, Leaves, MarksInv
<1>7. CASE TransmissionCompleteP2
  BY <1>1, <1>7, EndBlockMarks DEF TransmissionCompleteP2, Leaves, MarksInv
<1>8. CASE PauseOver
  BY <1>2, <1>8 DEF PauseOver, dmaVars
<1>9. CASE TriggerByHandler
  BY <1>9, TriggerByHandlerMarks
<1>10. CASE Receiver
  BY <1>2, <1>10 DEF Receiver, RxSigFlank, RxComplete, dmaVars
<1>11. CASE UNCHANGED vars
  BY <1>2, <1>11 DEF vars, dmaVars
<1>. QED  BY <1>3, <1>4, <1>5, <1>6, <1>7, <1>8, <1>9, <1>10, <1>11
          DEF Next, Handler, TransmissionComplete

-----------------------------------------------------------------------------
\* As long as no frame fills the ring, the second fifo holds the ends of exactly
\* the frames in the ring that are marked, in order, and at most one end more, at
\* the start: every frame is signalled once, after its last byte, however blocks
\* end, the ring wraps and the main loop is interrupted between putting the last
\* byte of a frame and queueing its end.
THEOREM EndsAreTold ==
  ASSUME FramesFit
  PROVE  Spec => []StopsTell
<1>1. Init => MarksInv
  BY InitMarks
<1>2. MarksInv /\ [Next]_vars => MarksInv'
  BY NextMarks
<1>3. MarksInv => StopsTell
  <2> SUFFICES ASSUME MarksInv PROVE StopsTell
    OBVIOUS
  <2>1. PICK d : Tells(d)
    BY DEF MarksInv, EndsAreMarked
  <2>2. IInv /\ AreAhead(d)
    BY <2>1 DEF MarksInv, Tells
  <2>3. ASSUME NEW k \in 1 .. Len(stops)
        PROVE  d[k] \in MarkedEnds \cup {0}
    <3>1. d[k] \in 0 .. g_txFifo.count
      BY <2>2, EndTypes
    <3>2. CASE d[k] # 0
      <4>1. d[k] \in 1 .. g_txFifo.count
        BY <3>1, <3>2
      <4>. QED  BY <2>1, <4>1 DEF Tells
    <3>. QED  BY <3>2
  <2>4. d \in [1 .. Len(stops) -> MarkedEnds \cup {0}]
    BY <2>2, <2>3 DEF AreAhead
  <2>5. \A n \in MarkedEnds : \E k \in 1 .. Len(stops) : d[k] = n
    BY <2>1 DEF Tells, MarkedEnds
  <2>. QED  BY <2>1, <2>2, <2>4, <2>5 DEF StopsTell, Tells, AreAhead
<1>. QED  BY <1>1, <1>2, <1>3, PTL DEF Spec
\* A set of numbers has a least one.
LEMMA LeastOne ==
  ASSUME NEW T, T \subseteq Nat, T # {}
  PROVE  \E x \in T : \A y \in T : x <= y
<1> DEFINE R == {ss \in Nat \X Nat : ss[1] < ss[2]}
<1>1. R = OpToRel(<,Nat)
  BY Zenon DEF OpToRel
<1>2. IsWellFoundedOn(R,Nat)
  BY <1>1, NatLessThanWellFounded, Zenon
<1>3. \A x, y \in Nat : x < y => <<x, y>> \in R
  BY SMT
<1> HIDE DEF R
<1>4. PICK x \in T : \A y \in T : ~(<<y,x>> \in R)
  BY <1>2, WFMin, Zenon
<1>5. ASSUME NEW y \in T
      PROVE  x <= y
  <2>1. x \in Nat /\ y \in Nat
    BY Zenon
  <2>2. ~(y < x)
    BY <2>1, <1>3, <1>4, Zenon
  <2>. QED  BY <2>1, <2>2, SMT
<1>. QED  BY <1>5, Zenon

\* e gives the m members of S, the smaller ones first.
Enumerates(e, m, S) ==
  /\ e \in [1 .. m -> S]
  /\ \A i, j \in 1 .. m : i < j => e[i] < e[j]
  /\ \A k \in S : \E i \in 1 .. m : e[i] = k

\* A set of numbers has no two such orders.
LEMMA OneOrder ==
  ASSUME NEW S \in SUBSET Nat, NEW m \in Nat, NEW e, NEW f,
         Enumerates(e, m, S), Enumerates(f, m, S)
  PROVE  e = f
<1>1. /\ e \in [1 .. m -> S] /\ f \in [1 .. m -> S]
      /\ \A i \in 1 .. m : e[i] \in Nat /\ f[i] \in Nat
  BY DEF Enumerates
<1> DEFINE T == {i \in 1 .. m : e[i] # f[i]}
<1>2. ASSUME T # {}
      PROVE  FALSE
  <2>1. T \subseteq Nat
    OBVIOUS
  <2>2. PICK x \in T : \A y \in T : x <= y
    BY <1>2, <2>1, LeastOne, Zenon
  <2>3. /\ x \in 1 .. m /\ e[x] # f[x]
        /\ \A y \in 1 .. m : y < x => e[y] = f[y]
    BY <2>2
  <2>4. \A g, h : Enumerates(g, m, S) /\ Enumerates(h, m, S) /\ g[x] < h[x]
                    /\ (\A y \in 1 .. m : y < x => g[y] = h[y]) => FALSE
    <3>1. SUFFICES ASSUME NEW g, NEW h, Enumerates(g, m, S), Enumerates(h, m, S), g[x] < h[x],
                          \A y \in 1 .. m : y < x => g[y] = h[y]
                   PROVE  FALSE
      BY Zenon
    <3>2. /\ \A i \in 1 .. m : g[i] \in Nat /\ h[i] \in Nat /\ g[i] \in S
          /\ \A i, j \in 1 .. m : i < j => g[i] < g[j]
          /\ \A i, j \in 1 .. m : i < j => h[i] < h[j]
      BY <3>1 DEF Enumerates
    <3>3. PICK i \in 1 .. m : h[i] = g[x]
      BY <2>3, <3>1, <3>2 DEF Enumerates
    <3>4. i < x
      BY <2>3, <3>1, <3>2, <3>3
    <3>5. h[i] = g[i] /\ g[i] < g[x]
      BY <2>3, <3>1, <3>2, <3>4
    <3>. QED  BY <2>3, <3>2, <3>3, <3>5
  <2>5. e[x] < f[x] \/ f[x] < e[x]
    BY <1>1, <2>3
  <2>. QED  BY <2>3, <2>4, <2>5
<1>3. \A i \in 1 .. m : e[i] = f[i]
  BY <1>2
<1>. QED  BY <1>1, <1>3

\* So InOrder is that order,
LEMMA InOrderIs ==
  ASSUME NEW S \in SUBSET Nat, NEW m \in Nat, NEW e, Enumerates(e, m, S)
  PROVE  Cardinality(S) = m /\ InOrder(S) = e
<1>1. /\ e \in [1 .. m -> S]
      /\ \A i \in 1 .. m : e[i] \in Nat
      /\ \A i, j \in 1 .. m : i < j => e[i] < e[j]
      /\ \A k \in S : \E i \in 1 .. m : e[i] = k
  BY DEF Enumerates
<1>2. \A i, j \in 1 .. m : e[i] = e[j] => i = j
  <2>1. ASSUME NEW i \in 1 .. m, NEW j \in 1 .. m, e[i] = e[j]
        PROVE  i = j
    BY <1>1, <2>1
  <2>. QED  BY <2>1
<1>3. ExistsBijection(1 .. m, S)
  <2>1. e \in Injection(1 .. m, S)
    BY <1>1, <1>2 DEF Injection, IsInjective
  <2>2. e \in Surjection(1 .. m, S)
    BY <1>1 DEF Surjection
  <2>. QED  BY <2>1, <2>2 DEF ExistsBijection, Bijection
<1>4. Cardinality(S) = m
  BY <1>3, FS_CountingElements
<1> DEFINE P(g) == /\ \A i, j \in DOMAIN g : i < j => g[i] < g[j]
                   /\ \A k \in S : \E i \in DOMAIN g : g[i] = k
<1>5. DOMAIN e = 1 .. m
  BY <1>1
<1>6. P(e)
  BY <1>1, <1>5
<1>7. \A g \in [1 .. m -> S] : P(g) => Enumerates(g, m, S)
  BY DEF Enumerates
<1>8. InOrder(S) = CHOOSE g \in [1 .. m -> S] : P(g)
  BY <1>4 DEF InOrder
<1> HIDE DEF P
<1>9. InOrder(S) \in [1 .. m -> S] /\ P(InOrder(S))
  BY <1>1, <1>6, <1>8
<1>10. Enumerates(InOrder(S), m, S)
  BY <1>7, <1>9
<1>11. InOrder(S) = e
  BY <1>10, OneOrder
<1>. QED  BY <1>4, <1>11

\* and there is one.
LEMMA HasOrder ==
  ASSUME NEW n \in Nat, NEW S \in SUBSET (1 .. n)
  PROVE  \E m \in Nat : \E e \in [1 .. m -> S] : Enumerates(e, m, S)
<1> DEFINE Has(U) == \E m \in Nat : \E e \in [1 .. m -> U] : Enumerates(e, m, U)
           T == {k \in Nat : ~ \A U \in SUBSET (1 .. k) : Has(U)}
<1>1. ASSUME T # {}
      PROVE  FALSE
  <2>1. T \subseteq Nat
    OBVIOUS
  <2>2. PICK x \in T : \A y \in T : x <= y
    BY <1>1, <2>1, LeastOne, Zenon
  <2>3. PICK U \in SUBSET (1 .. x) : ~Has(U)
    BY <2>2
  <2>4. x \in Nat
    BY <2>2
  <2>5. x # 0
    <3>1. ASSUME x = 0
          PROVE  Has(U)
      <4>1. U = {}
        BY <3>1
      <4>2. [i \in 1 .. 0 |-> 0] \in [1 .. 0 -> U] /\ 0 \in Nat
        OBVIOUS
      <4>3. Enumerates([i \in 1 .. 0 |-> 0], 0, U)
        BY <4>1 DEF Enumerates
      <4>. QED  BY <4>2, <4>3
    <3>. QED  BY <2>3, <3>1
  <2>6. PICK v \in Nat : v = x - 1 /\ v < x
    BY <2>4, <2>5
  <2>7. \A W \in SUBSET (1 .. x - 1) : Has(W)
    <3>1. ~(v \in T)
      <4>1. v \in T => x <= v
        BY <2>2, Zenon
      <4>2. ~(x <= v)
        BY <2>4, <2>6
      <4>. QED  BY <4>1, <4>2, Zenon
    <3>. QED  BY <2>6, <3>1
  <2>8. U \ {x} \in SUBSET (1 .. x - 1)
    BY <2>4
  <2>9. Has(U \ {x})
    BY <2>7, <2>8, Zenon
  <2>10. x \in U
    <3>1. ASSUME ~(x \in U)
          PROVE  Has(U)
      <4>1. U \ {x} = U
        BY <3>1
      <4>. QED  BY <2>9, <4>1
    <3>. QED  BY <2>3, <3>1
  <2>11. PICK m \in Nat : \E e \in [1 .. m -> U \ {x}] : Enumerates(e, m, U \ {x})
    BY <2>9
  <2>12. PICK e \in [1 .. m -> U \ {x}] : Enumerates(e, m, U \ {x})
    BY <2>11
  <2> DEFINE f == [i \in 1 .. m + 1 |-> IF i = m + 1 THEN x ELSE e[i]]
  <2>13. \A i \in 1 .. m : /\ e[i] \in U \ {x} /\ e[i] \in Nat /\ e[i] < x
                           /\ i \in 1 .. m + 1 /\ f[i] = e[i] /\ i # m + 1
    <3>1. ASSUME NEW i \in 1 .. m
          PROVE  e[i] \in U \ {x} /\ e[i] \in 1 .. x - 1
      BY <2>8
    <3>. QED  BY <2>4, <3>1
  <2>14. m + 1 \in 1 .. m + 1 /\ f[m + 1] = x /\ m + 1 \in Nat
    OBVIOUS
  <2>15. \A i \in 1 .. m + 1 : i = m + 1 \/ i \in 1 .. m
    OBVIOUS
  <2>16. f \in [1 .. m + 1 -> U]
    BY <2>10, <2>13
  <2> HIDE DEF f
  <2>17. \A i, j \in 1 .. m + 1 : i < j => f[i] < f[j]
    <3>1. ASSUME NEW i \in 1 .. m + 1, NEW j \in 1 .. m + 1, i < j
          PROVE  f[i] < f[j]
      <4>1. i \in 1 .. m
        BY <3>1
      <4>2. CASE j = m + 1
        BY <2>13, <2>14, <4>1, <4>2
      <4>3. CASE j \in 1 .. m
        <5>1. e[i] < e[j]
          BY <2>12, <3>1, <4>1, <4>3 DEF Enumerates
        <5>. QED  BY <2>13, <4>1, <4>3, <5>1
      <4>. QED  BY <2>15, <4>2, <4>3
    <3>. QED  BY <3>1
  <2>18. \A k \in U : \E i \in 1 .. m + 1 : f[i] = k
    <3>1. ASSUME NEW k \in U, k # x
          PROVE  \E i \in 1 .. m + 1 : f[i] = k
      <4>1. PICK i \in 1 .. m : e[i] = k
        BY <2>12, <3>1 DEF Enumerates
      <4>. QED  BY <2>13, <4>1
    <3>. QED  BY <2>14, <3>1
  <2>19. Enumerates(f, m + 1, U)
    BY <2>16, <2>17, <2>18 DEF Enumerates
  <2>. QED  BY <2>3, <2>14, <2>16, <2>19
<1>2. ~(n \in T)
  BY <1>1
<1>3. \A U \in SUBSET (1 .. n) : Has(U)
  BY <1>2
<1>. QED  BY <1>3
\* The frames that end in a sequence of bytes, by any order of their last bytes.
LEMMA FramesEndingIs ==
  ASSUME NEW s \in Seq(Bytes), NEW m \in Nat, NEW e, Enumerates(e, m, Ends(s))
  PROVE  /\ FramesEnding[s] \in Seq(Frames) /\ Len(FramesEnding[s]) = m
         /\ \A n \in 1 .. m : FramesEnding[s][n] = s[e[n]].frame
<1>1. Ends(s) \in SUBSET Nat
  BY DEF Ends
<1>2. InOrder(Ends(s)) = e
  BY <1>1, InOrderIs
<1>3. DOMAIN e = 1 .. m
  BY DEF Enumerates
<1>4. FramesEnding[s] = [n \in 1 .. m |-> s[e[n]].frame]
  BY <1>2, <1>3 DEF FramesEnding
<1>5. ASSUME NEW n \in 1 .. m
      PROVE  s[e[n]].frame \in Frames
  <2>1. e[n] \in 1 .. Len(s)
    BY DEF Ends, Enumerates
  <2>2. s[e[n]] \in Bytes
    BY <2>1
  <2>. QED  BY <2>2 DEF Bytes
<1>6. [n \in 1 .. m |-> s[e[n]].frame] \in [1 .. m -> Frames]
  BY <1>5
<1>. QED  BY <1>4, <1>6

\* There is such an order.
LEMMA EndsHaveOrder ==
  ASSUME NEW s \in Seq(Bytes)
  PROVE  \E m \in Nat : \E e \in [1 .. m -> Ends(s)] : Enumerates(e, m, Ends(s))
<1>1. Ends(s) \in SUBSET (1 .. Len(s)) /\ Len(s) \in Nat
  BY DEF Ends
<1>. QED  BY <1>1, HasOrder

\* They are frames.
LEMMA FramesEndingType ==
  ASSUME NEW s \in Seq(Bytes)
  PROVE  FramesEnding[s] \in Seq(Frames)
<1>1. PICK m \in Nat : \E e \in [1 .. m -> Ends(s)] : Enumerates(e, m, Ends(s))
  BY EndsHaveOrder
<1>2. PICK e \in [1 .. m -> Ends(s)] : Enumerates(e, m, Ends(s))
  BY <1>1
<1>. QED  BY <1>2, FramesEndingIs

\* The frames that end in two sequences of bytes, one after the other.
LEMMA FramesEndingConcat ==
  ASSUME NEW s \in Seq(Bytes), NEW t \in Seq(Bytes)
  PROVE  FramesEnding[s \o t] = FramesEnding[s] \o FramesEnding[t]
<1>1. PICK m \in Nat : \E e \in [1 .. m -> Ends(s)] : Enumerates(e, m, Ends(s))
  BY EndsHaveOrder
<1>2. PICK e \in [1 .. m -> Ends(s)] : Enumerates(e, m, Ends(s))
  BY <1>1
<1>3. PICK n \in Nat : \E f \in [1 .. n -> Ends(t)] : Enumerates(f, n, Ends(t))
  BY EndsHaveOrder
<1>4. PICK f \in [1 .. n -> Ends(t)] : Enumerates(f, n, Ends(t))
  BY <1>3
<1>5. PICK l \in Nat, r \in Nat : l = Len(s) /\ r = Len(t)
  <2>1. Len(s) \in Nat /\ Len(t) \in Nat
    OBVIOUS
  <2>. QED  BY <2>1
<1>6. PICK u \in Seq(Bytes) : u = s \o t
  BY ConcatProperties
<1>7. /\ Len(u) = l + r
      /\ \A i \in 1 .. l : u[i] = s[i]
      /\ \A i \in 1 .. r : u[l + i] = t[i]
  BY <1>5, <1>6
<1> DEFINE g == [i \in 1 .. m + n |-> IF i <= m THEN e[i] ELSE l + f[i - m]]
<1>8. \A i \in 1 .. m : /\ i \in 1 .. m + n /\ g[i] = e[i] /\ e[i] \in 1 .. l
                        /\ IsLast(s[e[i]])
  <2>1. ASSUME NEW i \in 1 .. m
        PROVE  i \in 1 .. m + n /\ i <= m
    OBVIOUS
  <2>2. \A i \in 1 .. m : e[i] \in Ends(s)
    OBVIOUS
  <2>. QED  BY <1>5, <2>1, <2>2 DEF Ends
<1>9. \A i \in 1 .. n : /\ m + i \in 1 .. m + n /\ g[m + i] = l + f[i] /\ f[i] \in 1 .. r
                        /\ IsLast(t[f[i]])
  <2>1. ASSUME NEW i \in 1 .. n
        PROVE  m + i \in 1 .. m + n /\ ~(m + i <= m) /\ m + i - m = i
    OBVIOUS
  <2>2. \A i \in 1 .. n : f[i] \in Ends(t)
    OBVIOUS
  <2>. QED  BY <1>5, <2>1, <2>2 DEF Ends
<1>10. \A i \in 1 .. m + n : i \in 1 .. m \/ \E j \in 1 .. n : i = m + j
  <2>1. ASSUME NEW i \in 1 .. m + n, ~(i \in 1 .. m)
        PROVE  i - m \in 1 .. n /\ i = m + (i - m)
    BY <2>1
  <2>. QED  BY <2>1
<1>11. g \in [1 .. m + n -> Ends(u)]
  <2>1. ASSUME NEW i \in 1 .. m + n
        PROVE  g[i] \in Ends(u)
    <3>1. ASSUME i \in 1 .. m
          PROVE  g[i] \in Ends(u)
      <4>1. g[i] = e[i] /\ e[i] \in 1 .. l /\ IsLast(u[e[i]])
        BY <1>7, <1>8, <3>1
      <4>2. e[i] \in 1 .. Len(u)
        BY <1>7, <4>1
      <4>. QED  BY <4>1, <4>2 DEF Ends
    <3>2. ASSUME NEW j \in 1 .. n, i = m + j
          PROVE  g[i] \in Ends(u)
      <4>1. g[i] = l + f[j] /\ f[j] \in 1 .. r /\ IsLast(u[l + f[j]])
        BY <1>7, <1>9, <3>2
      <4>2. l + f[j] \in 1 .. Len(u)
        BY <1>7, <4>1
      <4>. QED  BY <4>1, <4>2 DEF Ends
    <3>. QED  BY <1>10, <3>1, <3>2
  <2>2. g = [i \in 1 .. m + n |-> g[i]]
    OBVIOUS
  <2> HIDE DEF g
  <2>. QED  BY <2>1, <2>2
<1> HIDE DEF g
<1>12. \A i, j \in 1 .. m + n : i < j => g[i] < g[j]
  <2>1. ASSUME NEW i \in 1 .. m + n, NEW j \in 1 .. m + n, i < j
        PROVE  g[i] < g[j]
    <3>1. CASE i \in 1 .. m /\ j \in 1 .. m
      <4>1. e[i] < e[j]
        BY <1>2, <2>1, <3>1 DEF Enumerates
      <4>. QED  BY <1>8, <3>1, <4>1
    <3>2. ASSUME i \in 1 .. m, NEW k \in 1 .. n, j = m + k
          PROVE  g[i] < g[j]
      <4>1. g[i] \in 1 .. l /\ g[j] = l + f[k] /\ f[k] \in 1 .. r
        BY <1>8, <1>9, <3>2
      <4>. QED  BY <4>1
    <3>3. ASSUME NEW h \in 1 .. n, NEW k \in 1 .. n, i = m + h, j = m + k
          PROVE  g[i] < g[j]
      <4>1. h < k
        BY <2>1, <3>3
      <4>2. f[h] < f[k]
        BY <1>4, <4>1 DEF Enumerates
      <4>3. g[i] = l + f[h] /\ g[j] = l + f[k] /\ f[h] \in 1 .. r /\ f[k] \in 1 .. r
        BY <1>9, <3>3
      <4>. QED  BY <4>2, <4>3
    <3>4. ASSUME NEW h \in 1 .. n, i = m + h, j \in 1 .. m
          PROVE  FALSE
      BY <2>1, <3>4
    <3>. QED  BY <1>10, <3>1, <3>2, <3>3, <3>4
  <2>. QED  BY <2>1
<1>13. \A k \in Ends(u) : \E i \in 1 .. m + n : g[i] = k
  <2>1. ASSUME NEW k \in Ends(u)
        PROVE  \E i \in 1 .. m + n : g[i] = k
    <3>1. k \in 1 .. l + r /\ IsLast(u[k])
      BY <1>7 DEF Ends
    <3>2. CASE k <= l
      <4>1. k \in Ends(s)
        BY <1>5, <1>7, <3>1, <3>2 DEF Ends
      <4>2. PICK i \in 1 .. m : e[i] = k
        BY <1>2, <4>1 DEF Enumerates
      <4>. QED  BY <1>8, <4>2
    <3>3. CASE ~(k <= l)
      <4>1. k - l \in 1 .. r /\ k = l + (k - l)
        BY <3>1, <3>3
      <4>2. k - l \in Ends(t)
        BY <1>5, <1>7, <3>1, <4>1 DEF Ends
      <4>3. PICK j \in 1 .. n : f[j] = k - l
        BY <1>4, <4>2 DEF Enumerates
      <4>. QED  BY <1>9, <4>1, <4>3
    <3>. QED  BY <3>2, <3>3
  <2>. QED  BY <2>1
<1>14. m + n \in Nat /\ Enumerates(g, m + n, Ends(u))
  BY <1>11, <1>12, <1>13 DEF Enumerates
<1>15. PICK v \in Seq(Frames) :
         /\ v = FramesEnding[u] /\ Len(v) = m + n
         /\ \A i \in 1 .. m + n : v[i] = u[g[i]].frame
  <2>1. PICK k \in Nat : k = m + n
    BY <1>14
  <2>2. Enumerates(g, k, Ends(u)) /\ u \in Seq(Bytes)
    BY <1>7, <1>14, <2>1
  <2>3. /\ FramesEnding[u] \in Seq(Frames) /\ Len(FramesEnding[u]) = k
        /\ \A i \in 1 .. k : FramesEnding[u][i] = u[g[i]].frame
    BY <2>2, FramesEndingIs
  <2>. QED  BY <2>1, <2>3
<1>16. PICK a \in Seq(Frames) :
         a = FramesEnding[s] /\ Len(a) = m /\ \A i \in 1 .. m : a[i] = s[e[i]].frame
  BY <1>2, FramesEndingIs
<1>17. PICK b \in Seq(Frames) :
         b = FramesEnding[t] /\ Len(b) = n /\ \A i \in 1 .. n : b[i] = t[f[i]].frame
  BY <1>4, FramesEndingIs
<1>18. PICK c \in Seq(Frames) : c = a \o b
  BY ConcatProperties
<1>19. /\ Len(c) = m + n
       /\ \A i \in 1 .. m : c[i] = a[i]
       /\ \A i \in 1 .. n : c[m + i] = b[i]
  <2>1. /\ Len(c) = m + n
        /\ \A i \in 1 .. m + n : c[i] = IF i <= m THEN a[i] ELSE b[i - m]
    <3>1. /\ Len(a \o b) = Len(a) + Len(b)
          /\ \A i \in 1 .. Len(a) + Len(b) :
               (a \o b)[i] = IF i <= Len(a) THEN a[i] ELSE b[i - Len(a)]
      BY ConcatProperties, Zenon
    <3>. QED  BY <1>16, <1>17, <1>18, <3>1
  <2>2. \A i \in 1 .. m : i \in 1 .. m + n /\ i <= m
    OBVIOUS
  <2>3. \A i \in 1 .. n : m + i \in 1 .. m + n /\ ~(m + i <= m) /\ m + i - m = i
    OBVIOUS
  <2>. QED  BY <2>1, <2>2, <2>3
<1>20. ASSUME NEW i \in 1 .. m + n
       PROVE  v[i] = c[i]
  <2>1. CASE i \in 1 .. m
    <3>1. v[i] = u[e[i]].frame /\ e[i] \in 1 .. l
      BY <1>8, <1>15, <2>1
    <3>. QED  BY <1>7, <1>16, <1>19, <2>1, <3>1
  <2>2. ASSUME NEW j \in 1 .. n, i = m + j
        PROVE  v[i] = c[i]
    <3>1. v[i] = u[l + f[j]].frame /\ f[j] \in 1 .. r
      BY <1>9, <1>15, <2>2
    <3>. QED  BY <1>7, <1>17, <1>19, <2>2, <3>1
  <2>. QED  BY <1>10, <2>1, <2>2
<1>21. v = c
  BY <1>15, <1>19, <1>20, SeqEqual
<1>. QED  BY <1>6, <1>15, <1>16, <1>17, <1>18, <1>21

\* No frame ends in a sequence of bytes without a last one,
LEMMA NoFrameEnds ==
  ASSUME NEW s \in Seq(Bytes), \A k \in 1 .. Len(s) : ~IsLast(s[k])
  PROVE  FramesEnding[s] = <<>>
<1> DEFINE e == [i \in 1 .. 0 |-> 0]
<1>1. Enumerates(e, 0, Ends(s))
  BY DEF Enumerates, Ends
<1> HIDE DEF e
<1>2. FramesEnding[s] \in Seq(Frames) /\ Len(FramesEnding[s]) = 0
  BY <1>1, FramesEndingIs
<1>. QED  BY <1>2

\* and one in a sequence whose only last byte is the end.
LEMMA OneFrameEnds ==
  ASSUME NEW s \in Seq(Bytes), NEW m \in Nat \ {0}, m = Len(s), IsLast(s[m]),
         \A k \in 1 .. m - 1 : ~IsLast(s[k])
  PROVE  FramesEnding[s] = <<s[m].frame>>
<1> DEFINE e == [i \in 1 .. 1 |-> m]
<1>1. Ends(s) = {m}
  <2>1. \A k \in 1 .. m : k = m \/ k \in 1 .. m - 1
    OBVIOUS
  <2>. QED  BY <2>1 DEF Ends
<1>2. /\ e \in [1 .. 1 -> {m}] /\ e[1] = m /\ 1 \in 1 .. 1
      /\ \A i \in 1 .. 1 : i = 1
  OBVIOUS
<1> HIDE DEF e
<1>3. Enumerates(e, 1, Ends(s))
  BY <1>1, <1>2 DEF Enumerates
<1>4. /\ FramesEnding[s] \in Seq(Frames) /\ Len(FramesEnding[s]) = 1
      /\ \A n \in 1 .. 1 : FramesEnding[s][n] = s[e[n]].frame
  <2>1. PICK o \in Nat : o = 1
    OBVIOUS
  <2>2. Enumerates(e, o, Ends(s))
    BY <1>3, <2>1
  <2>3. /\ FramesEnding[s] \in Seq(Frames) /\ Len(FramesEnding[s]) = o
        /\ \A n \in 1 .. o : FramesEnding[s][n] = s[e[n]].frame
    BY <2>2, FramesEndingIs
  <2>. QED  BY <2>1, <2>3
<1>5. PICK v \in Seq(Frames) : v = FramesEnding[s]
  BY <1>4, Zenon
<1>6. Len(v) = 1 /\ v[1] = s[m].frame
  BY <1>2, <1>4, <1>5
<1>7. v = <<v[1]>>
  BY <1>6
<1>. QED  BY <1>5, <1>6, <1>7
-----------------------------------------------------------------------------
(***************************************************************************)
(* Where the transfer stands.                                              *)
(***************************************************************************)

\* A byte c may come after a byte b.
Follows(b, c) ==
  IF IsLast(b) THEN c.pos = 1 ELSE c.frame = b.frame /\ c.pos = b.pos + 1

RingFollows ==
  \A i \in 1 .. g_txFifo.count - 1 : Follows(Peek(g_txFifo, i - 1), Peek(g_txFifo, i))

\* The end of the frame that was moved has been signalled, and the receiver has not
\* served it.
Ended == flank \/ (rxIrq /\ ~rxOn /\ g_sendState = "PAUSED")

\* The end is still to be signalled: it is queued, or the main loop will mark it.
StopDue ==
  \/ stops # <<>> /\ Head(stops) = (g_txFifo.start + moved) % FifoSize
  \/ Unmarked /\ moved = g_txFifo.count

\* The byte that is moved next is the one behind the p-th of f, or it starts a frame.
GoesOn(f, p) ==
  /\ moved < g_txFifo.count =>
       IF p \in {0, f.len} THEN Peek(g_txFifo, moved).pos = 1
                           ELSE /\ Peek(g_txFifo, moved).frame = f
                                /\ Peek(g_txFifo, moved).pos = p + 1
  /\ moved = g_txFifo.count =>
       IF p \in {0, f.len} THEN next = 1 \/ next = frame.len + 1
                           ELSE frame = f /\ next = p + 1

\* p bytes of the frame f have been moved since the end that was served last.
SenderAt(f, p) ==
  /\ RingFollows
  /\ GoesOn(f, p)
  /\ StopDue <=> p = f.len /\ ~Ended
  /\ Ended => p = f.len /\ g_sendState = "PAUSED"
  /\ g_sendState = "PAUSED" => g_currentTransmissionCount = 0 /\ (Ended \/ p = 0)

-----------------------------------------------------------------------------
\* The numbers that describe the sender.
LEMMA LinkTypes ==
  ASSUME MarksInv
  PROVE  /\ FifoSize \in Nat \ {0} /\ g_txFifo.start \in Index
         /\ g_txFifo.count \in 0 .. FifoSize /\ g_txFifo.count \in Nat
         /\ g_currentTransmissionCount \in Nat /\ moved \in Nat
         /\ moved <= g_currentTransmissionCount
         /\ g_currentTransmissionCount <= g_txFifo.count
         /\ g_txFifo.count <= FifoSize
         /\ frame \in Frames /\ frame.len \in Nat /\ 1 < frame.len
         /\ next \in Nat /\ 1 <= next /\ next <= frame.len + 1
<1>1. IInv /\ TypeOK
  BY DEF MarksInv, IInv
<1>2. /\ FifoSize \in Nat \ {0} /\ g_txFifo.count \in 0 .. FifoSize
      /\ g_currentTransmissionCount \in 0 .. g_txFifo.count
      /\ moved \in 0 .. g_currentTransmissionCount /\ g_txFifo.start \in Index
  BY <1>1, RingTypes
<1>3. frame \in Frames /\ next \in 1 .. frame.len + 1
  BY <1>1 DEF TypeOK
<1>4. frame.len \in Nat /\ 1 < frame.len
  BY <1>3, FrameLength DEF MinPacket
<1>. QED  BY <1>2, <1>3, <1>4

\* The lengths of a frame.
LEMMA LengthFits ==
  ASSUME FramesFit, NEW f \in Frames
  PROVE  f.len \in Nat /\ 1 < f.len /\ f.len < FifoSize /\ f.len <= MaxPacket
<1>1. f.len \in Lengths
  BY DEF Frames
<1>. QED  BY <1>1, FrameLength DEF FramesFit, MinPacket

\* In a full ring a frame ends before its last byte.
LEMMA RingHasEnd ==
  ASSUME MarksInv, FramesFit, g_txFifo.count = FifoSize
  PROVE  \E n \in MarkedEnds : n < FifoSize
<1>. SUFFICES ASSUME \A n \in MarkedEnds : ~(n < FifoSize)
              PROVE  FALSE
  OBVIOUS
<1>1. IInv /\ FifoSize \in Nat \ {0}
  BY LinkTypes DEF MarksInv
<1>2. ASSUME NEW i \in 0 .. FifoSize - 2
      PROVE  ~IsLast(Peek(g_txFifo, i))
  <2>1. i + 1 \in 1 .. g_txFifo.count /\ i + 1 - 1 = i /\ i + 1 # g_txFifo.count
        /\ i + 1 < FifoSize
    BY <1>1
  <2>. QED  BY <2>1 DEF MarkedEnds
<1>3. /\ 0 \in 0 .. g_txFifo.count - 1 /\ FifoSize - 1 \in 0 .. g_txFifo.count - 1
      /\ 0 <= FifoSize - 1 /\ FifoSize - 1 - 1 = FifoSize - 2
  BY <1>1
<1>4. Peek(g_txFifo, FifoSize - 1).pos = Peek(g_txFifo, 0).pos + (FifoSize - 1 - 0)
  BY <1>2, <1>3 DEF MarksInv, BytesFollow
<1>5. PICK b \in Bytes, c \in Bytes : b = Peek(g_txFifo, FifoSize - 1) /\ c = Peek(g_txFifo, 0)
  BY <1>1, <1>3 DEF IInv, RingHoldsBytes
<1>6. b.pos = c.pos + (FifoSize - 1 - 0)
  BY <1>4, <1>5
<1>7. b.pos \in Nat /\ c.pos \in Nat \ {0} /\ b.frame.len \in Nat /\ b.pos <= b.frame.len
  BY ByteInFrame
<1>8. b.frame.len < FifoSize
  BY ByteInFrame DEF FramesFit
<1>. QED  BY <1>1, <1>6, <1>7, <1>8

\* The first stop that is queued lies so far ahead.
LEMMA FirstStop ==
  ASSUME MarksInv, FramesFit, NEW d, Tells(d), stops # <<>>
  PROVE  /\ 1 \in 1 .. Len(stops) /\ Head(stops) = stops[1]
         /\ d[1] \in Nat /\ g_currentTransmissionCount <= d[1]
         /\ d[1] <= g_txFifo.count /\ d[1] < FifoSize
         /\ Head(stops) = (g_txFifo.start + d[1]) % FifoSize
<1>1. IInv /\ AreAhead(d)
  BY DEF MarksInv, Tells
<1>2. 1 \in 1 .. Len(stops) /\ Head(stops) = stops[1]
  BY RingTypes DEF MarksInv, IInv
<1>3. /\ d[1] \in Int /\ g_currentTransmissionCount <= d[1] /\ d[1] <= g_txFifo.count
  BY <1>1, <1>2, EndTypes
<1>4. d[1] # FifoSize
  BY NotARound
<1>5. Head(stops) = (g_txFifo.start + d[1]) % FifoSize
  BY <1>1, <1>2 DEF AreAhead
<1>6. d[1] \in Nat /\ d[1] < FifoSize
  BY <1>3, <1>4, LinkTypes
<1>. QED  BY <1>2, <1>3, <1>5, <1>6

\* It is n places ahead if it says so.
LEMMA StopAt ==
  ASSUME MarksInv, FramesFit, NEW d, Tells(d), stops # <<>>,
         NEW n \in 0 .. g_currentTransmissionCount
  PROVE  Head(stops) = (g_txFifo.start + n) % FifoSize <=> d[1] = n
<1>1. PICK o \in Nat : /\ o = d[1] /\ n <= o /\ o < FifoSize /\ n \in Nat
                       /\ Head(stops) = (g_txFifo.start + o) % FifoSize
  <2>1. /\ d[1] \in Nat /\ g_currentTransmissionCount <= d[1] /\ d[1] < FifoSize
        /\ Head(stops) = (g_txFifo.start + d[1]) % FifoSize
    BY FirstStop
  <2>. QED  BY <2>1, LinkTypes
<1>2. PICK s \in Index : s = g_txFifo.start
  BY LinkTypes
<1>3. n \in 0 .. FifoSize /\ o \in 0 .. FifoSize
  BY <1>1, FifoAssumption
<1>4. PICK a \in Index, b \in Index : a = (s + n) % FifoSize /\ b = (s + o) % FifoSize
  BY <1>3, PlacesAhead
<1>5. /\ (s + n < FifoSize => a = s + n) /\ (s + n >= FifoSize => a = s + n - FifoSize)
      /\ (s + o < FifoSize => b = s + o) /\ (s + o >= FifoSize => b = s + o - FifoSize)
  BY <1>3, <1>4, PlacesAhead
<1>6. a = b => n = o
  BY <1>1, <1>5, FifoAssumption DEF Index
<1>. QED  BY <1>1, <1>2, <1>4, <1>6

\* No stop is queued for a frame that is not marked.
LEMMA UnmarkedHasNoStop ==
  ASSUME MarksInv, FramesFit, NEW d, Tells(d), Unmarked, NEW k \in 1 .. Len(stops)
  PROVE  g_txFifo.count > 0 /\ d[k] # g_txFifo.count
<1>1. g_txFifo.count > 0
  <2>1. stops # <<>>
    BY RingTypes DEF MarksInv, IInv
  <2>. QED  BY <2>1, LinkTypes DEF MarksInv, EndsAreLate, Unmarked
<1>2. ASSUME d[k] = g_txFifo.count
      PROVE  FALSE
  <2>1. g_txFifo.count \in 1 .. g_txFifo.count
    BY <1>1, LinkTypes
  <2>2. g_txFifo.count \in MarkedEnds
    BY <1>2, <2>1 DEF Tells
  <2>. QED  BY <2>2 DEF MarkedEnds
<1>. QED  BY <1>1, <1>2
-----------------------------------------------------------------------------
\* Steps that leave the ring, what is put into it and the pause alone.
LEMMA SenderAtRests ==
  ASSUME NEW f, NEW p, SenderAt(f, p),
         UNCHANGED <<g_txFifo, stops, g_currentTransmissionCount, moved, frame, next,
                     g_sendState>>,
         Ended' <=> Ended, Unmarked' <=> Unmarked
  PROVE  SenderAt(f, p)'
<1>1. RingFollows'
  BY DEF SenderAt, RingFollows, Follows, Peek, IsLast
<1>2. GoesOn(f, p)'
  BY DEF SenderAt, GoesOn, Peek
<1>3. StopDue' <=> StopDue
  BY DEF StopDue
<1>. QED  BY <1>1, <1>2, <1>3 DEF SenderAt

\* The main loop starts a frame.
LEMMA StartFrameAt ==
  ASSUME MarksInv, NEW f \in Frames, NEW p \in 0 .. f.len, SenderAt(f, p),
         NEW g \in Frames, StartFrame(g)
  PROVE  SenderAt(f, p)'
<1> USE DEF StartFrame
<1>1. RingFollows'
  BY DEF SenderAt, RingFollows, Follows, Peek, IsLast
<1>2. next = frame.len + 1 /\ f.len \in Nat /\ p \in Nat /\ p <= f.len
  BY FrameLength DEF MarksInv, EndsAreLate
<1>3. GoesOn(f, p)'
  <2>1. /\ moved < g_txFifo.count =>
             IF p \in {0, f.len} THEN Peek(g_txFifo, moved).pos = 1
                                 ELSE /\ Peek(g_txFifo, moved).frame = f
                                      /\ Peek(g_txFifo, moved).pos = p + 1
        /\ moved = g_txFifo.count => p \in {0, f.len}
    BY <1>2 DEF SenderAt, GoesOn
  <2>. QED  BY <2>1 DEF GoesOn, Peek, dmaVars
<1>4. StopDue' <=> StopDue
  BY DEF StopDue, Unmarked, dmaVars
<1>5. Ended' <=> Ended
  BY DEF Ended, rxVars
<1>. QED  BY <1>1, <1>3, <1>4, <1>5 DEF SenderAt, dmaVars

\* The main loop puts a byte of it into the ring, when there is room.
LEMMA PutByteAt ==
  ASSUME MarksInv, NEW f \in Frames, NEW p \in 0 .. f.len, SenderAt(f, p), PutByte
  PROVE  SenderAt(f, p)'
<1> USE DEF PutByte
<1>1. Ended' <=> Ended
  BY DEF Ended, rxVars
<1>2. frame \in Frames /\ next \in Nat \ {0} /\ next <= frame.len /\ frame.len \in Nat
  BY NextByte DEF MarksInv
<1>3. CASE ~PutOkay(g_txFifo)
  <2>1. ~Unmarked /\ ~Unmarked'
    BY <1>2, <1>3 DEF Unmarked
  <2>. QED  BY <1>1, <1>3, <2>1, SenderAtRests DEF dmaVars
<1>4. CASE PutOkay(g_txFifo)
  <2>1. PICK b \in Bytes : b = [frame |-> frame, pos |-> next]
    BY NextByte DEF MarksInv
  <2>2. PICK c \in Nat, m \in Nat : c = g_txFifo.count /\ m = moved /\ m <= c
    BY LinkTypes
  <2>3. /\ g_txFifo'.start = g_txFifo.start /\ g_txFifo'.count = c + 1
        /\ \A k \in 0 .. c - 1 : Peek(g_txFifo', k) = Peek(g_txFifo, k)
        /\ Peek(g_txFifo', c) = b
    BY <1>4, <2>1, <2>2, PutRing DEF MarksInv
  <2>4. UNCHANGED <<stops, moved, g_currentTransmissionCount, g_sendState, frame>>
        /\ next' = next + 1
    BY <1>4 DEF dmaVars
  <2>5. RingFollows'
    <3>1. ASSUME NEW i \in 1 .. c
          PROVE  Follows(Peek(g_txFifo', i - 1), Peek(g_txFifo', i))
      <4>1. i - 1 \in 0 .. c - 1
        BY <2>2
      <4>2. CASE i < c
        <5>1. i \in 0 .. c - 1 /\ i \in 1 .. c - 1
          BY <2>2, <4>2
        <5>2. Follows(Peek(g_txFifo, i - 1), Peek(g_txFifo, i))
          BY <2>2, <5>1 DEF SenderAt, RingFollows
        <5>. QED  BY <2>3, <4>1, <5>1, <5>2
      <4>3. CASE i = c
        <5>1. c > 0
          BY <2>2, <4>3
        <5>2. /\ next = 1 => IsLast(Peek(g_txFifo, c - 1))
              /\ next > 1 => Peek(g_txFifo, c - 1) = [frame |-> frame, pos |-> next - 1]
          BY <2>2, <5>1 DEF MarksInv, NewestIsPut
        <5>3. CASE next = 1
          BY <2>1, <2>3, <4>1, <4>3, <5>2, <5>3 DEF Follows
        <5>4. CASE next > 1
          <6>1. PICK a : a = Peek(g_txFifo, c - 1)
            OBVIOUS
          <6>2. a.frame = frame /\ a.pos = next - 1
            BY <5>2, <5>4, <6>1
          <6>3. ~IsLast(a)
            BY <1>2, <6>2 DEF IsLast
          <6>4. b.frame = a.frame /\ b.pos = a.pos + 1
            BY <1>2, <2>1, <6>2
          <6>5. Follows(a, b)
            BY <6>3, <6>4 DEF Follows
          <6>. QED  BY <2>3, <4>1, <4>3, <6>1, <6>5
        <5>. QED  BY <1>2, <5>3, <5>4
      <4>. QED  BY <2>2, <4>2, <4>3
    <3>2. g_txFifo'.count - 1 = c
      BY <2>2, <2>3
    <3>. QED  BY <3>1, <3>2 DEF RingFollows
  <2>6. GoesOn(f, p)'
    <3>1. moved' < g_txFifo'.count /\ moved' # g_txFifo'.count
      BY <2>2, <2>3, <2>4
    <3>2. CASE m < c
      <4>1. Peek(g_txFifo', m) = Peek(g_txFifo, m)
        BY <2>2, <2>3, <3>2
      <4>2. IF p \in {0, f.len} THEN Peek(g_txFifo, m).pos = 1
                                ELSE /\ Peek(g_txFifo, m).frame = f
                                     /\ Peek(g_txFifo, m).pos = p + 1
        BY <2>2, <3>2 DEF SenderAt, GoesOn
      <4>. QED  BY <2>2, <2>4, <3>1, <4>1, <4>2 DEF GoesOn
    <3>3. CASE m = c
      <4>1. IF p \in {0, f.len} THEN next = 1 \/ next = frame.len + 1
                                ELSE frame = f /\ next = p + 1
        BY <2>2, <3>3 DEF SenderAt, GoesOn
      <4>2. b.frame = frame /\ b.pos = next
        BY <2>1
      <4>3. IF p \in {0, f.len} THEN b.pos = 1 ELSE b.frame = f /\ b.pos = p + 1
        BY <1>2, <4>1, <4>2
      <4>4. Peek(g_txFifo', moved') = b
        BY <2>2, <2>3, <2>4, <3>3
      <4>. QED  BY <3>1, <4>3, <4>4 DEF GoesOn
    <3>. QED  BY <2>2, <3>2, <3>3
  <2>7. StopDue' <=> StopDue
    <3>1. ~Unmarked /\ moved' # g_txFifo'.count
      BY <2>2, <2>3, <2>4 DEF Unmarked
    <3>. QED  BY <2>3, <2>4, <3>1 DEF StopDue
  <2>. QED  BY <1>1, <2>4, <2>5, <2>6, <2>7 DEF SenderAt
<1>. QED  BY <1>3, <1>4

\* trigger_transmision sets the DMA up, or signals the end that is due.
LEMMA TriggerAt ==
  ASSUME MarksInv, FramesFit, NEW f \in Frames, NEW p \in 0 .. f.len, SenderAt(f, p),
         TriggerTransmission, UNCHANGED <<g_txFifo, frame, next, rxIrq, rxOn>>,
         Unmarked' <=> Unmarked
  PROVE  SenderAt(f, p)'
<1>1. CASE ~CanTransmit /\ UNCHANGED <<stops, dmaVars, g_sendState, flank>>
  BY <1>1, SenderAtRests DEF Ended, dmaVars
<1>2. ASSUME CanTransmit
      PROVE  g_currentTransmissionCount = 0 /\ moved = 0 /\ g_sendState = "IDLE"
  <2>1. g_currentTransmissionCount = 0 /\ g_sendState = "IDLE"
    BY <1>2 DEF CanTransmit, CanTransmitP1, CanTransmitP2
  <2>. QED  BY <2>1, LinkTypes
<1>3. RingFollows'
  BY DEF SenderAt, RingFollows, Follows, Peek, IsLast
<1>4. ASSUME CanTransmit, NEW n, SetupDMA(n)
      PROVE  SenderAt(f, p)'
  <2>1. UNCHANGED <<stops, moved, g_sendState, flank>>
    BY <1>2, <1>4 DEF SetupDMA
  <2>2. GoesOn(f, p)'
    BY <2>1 DEF SenderAt, GoesOn, Peek
  <2>3. StopDue' <=> StopDue
    BY <2>1 DEF StopDue
  <2>4. Ended' <=> Ended
    BY <2>1 DEF Ended
  <2>. QED  BY <1>2, <1>3, <1>4, <2>1, <2>2, <2>3, <2>4 DEF SenderAt
<1>5. CASE /\ CanTransmit
           /\ StopAhead
           /\ Head(stops) = g_txFifo.start
           /\ stops' = Tail(stops)
           /\ EndFrame
           /\ UNCHANGED dmaVars
  <2>1. /\ stops # <<>> /\ UNCHANGED <<moved, g_currentTransmissionCount>>
        /\ moved = 0 /\ g_currentTransmissionCount = 0
        /\ flank' = TRUE /\ g_sendState' = "PAUSED"
    BY <1>2, <1>5 DEF StopAhead, dmaVars, EndFrame
  <2>2. PICK d : Tells(d)
    BY DEF MarksInv, EndsAreMarked
  <2>3. IInv /\ AreAhead(d)
    BY <2>2 DEF MarksInv, Tells
  <2>4. PICK s \in Index, c \in 0 .. FifoSize : s = g_txFifo.start /\ c = g_txFifo.count
    BY LinkTypes
  <2>5. (s + 0) % FifoSize = s
    <3>1. 0 \in 0 .. FifoSize /\ s + 0 < FifoSize /\ s + 0 = s
      BY FifoAssumption DEF Index
    <3>. QED  BY <3>1, PlacesAhead
  <2>6. d[1] = 0 /\ 1 \in 1 .. Len(stops)
    <3>1. 0 \in 0 .. g_currentTransmissionCount
      BY <2>1
    <3>2. Head(stops) = (g_txFifo.start + 0) % FifoSize
      BY <1>5, <2>4, <2>5
    <3>. QED  BY <2>1, <2>2, <3>1, <3>2, FirstStop, StopAt
  <2>7. StopDue
    BY <1>5, <2>1, <2>4, <2>5 DEF StopDue
  <2>8. p = f.len
    BY <2>7 DEF SenderAt
  <2>9. ~StopDue'
    <3>1. ~(Unmarked /\ moved = g_txFifo.count)
      BY <2>1, <2>2, <2>6, UnmarkedHasNoStop
    <3>2. ASSUME stops' # <<>>, Head(stops') = (g_txFifo'.start + moved') % FifoSize
          PROVE  FALSE
      <4>1. PICK l \in Nat : /\ l = Len(stops) /\ 2 \in 1 .. l /\ 1 \in 1 .. l
                             /\ Head(stops') = stops[2]
        <5>1. /\ Tail(stops) \in Seq(Index) /\ Len(Tail(stops)) = Len(stops) - 1
              /\ Len(stops) \in Nat \ {0}
              /\ \A k \in 1 .. Len(stops) - 1 : Tail(stops)[k] = stops[k + 1]
          BY <2>1, <2>3, TakeStop
        <5>2. PICK t \in Seq(Index) : t = stops'
          BY <1>5, <5>1
        <5>3. t # <<>> /\ Len(t) = Len(stops) - 1 /\ Head(t) = t[1] /\ Len(t) \in Nat
          BY <1>5, <3>2, <5>1, <5>2
        <5>4. Len(t) # 0
          BY <5>3
        <5>5. 1 \in 1 .. Len(stops) - 1 /\ 1 + 1 = 2 /\ 2 \in 1 .. Len(stops)
          BY <5>1, <5>3, <5>4
        <5>6. Tail(stops)[1] = stops[1 + 1]
          BY <5>1, <5>5, Zenon
        <5>. QED  BY <1>5, <2>6, <5>1, <5>2, <5>3, <5>5, <5>6
      <4>2. d[1] < d[2] /\ d[2] \in Int /\ d[2] <= c
        <5>1. d[1] < d[2]
          BY <2>2, <4>1 DEF Tells
        <5>. QED  BY <2>3, <2>4, <4>1, <5>1, EndTypes
      <4>3. PICK o \in 1 .. FifoSize : o = d[2] /\ o <= c
        BY <2>6, <4>2, FifoAssumption
      <4>4. (s + o) % FifoSize = s
        <5>1. stops[2] = (s + o) % FifoSize
          BY <2>3, <2>4, <4>1, <4>3 DEF AreAhead
        <5>. QED  BY <2>1, <2>4, <2>5, <3>2, <4>1, <5>1
      <4>5. o = FifoSize
        BY <4>4, BackAtStart, FifoAssumption
      <4>6. g_txFifo.count = FifoSize
        BY <2>4, <4>3, <4>5, FifoAssumption
      <4>7. PICK n \in MarkedEnds : n < FifoSize
        BY <4>6, RingHasEnd
      <4>8. n \in 1 .. g_txFifo.count
        BY DEF MarkedEnds
      <4>9. PICK k \in 1 .. l : d[k] = n
        BY <2>2, <4>1, <4>7, <4>8 DEF Tells
      <4>10. k = 1 \/ k = 2 \/ 2 < k
        BY <4>1
      <4>11. 2 < k => d[2] < d[k]
        BY <2>2, <4>1, <4>9 DEF Tells
      <4>12. n \in Nat \ {0}
        BY <4>6, <4>8, FifoAssumption
      <4>13. k # 1
        BY <2>6, <4>9, <4>12
      <4>14. k # 2
        <5>1. ASSUME k = 2
              PROVE  n = o
          BY <4>3, <4>9, <5>1
        <5>2. n # o
          BY <4>5, <4>7, <4>12, FifoAssumption
        <5>. QED  BY <5>1, <5>2
      <4>15. ~(2 < k)
        BY <4>3, <4>5, <4>7, <4>9, <4>11, <4>12, FifoAssumption
      <4>. QED  BY <4>10, <4>13, <4>14, <4>15
    <3>. QED  BY <2>1, <3>1, <3>2 DEF StopDue
  <2>10. GoesOn(f, p)'
    BY <2>1 DEF SenderAt, GoesOn, Peek
  <2>11. Ended'
    BY <2>1 DEF Ended
  <2>. QED  BY <1>3, <2>1, <2>8, <2>9, <2>10, <2>11 DEF SenderAt
<1>. QED  BY <1>1, <1>4, <1>5 DEF TriggerTransmission
\* The main loop finds the ring empty and signals the end itself, or will queue it.
LEMMA MarkEndAt ==
  ASSUME MarksInv, FramesFit, NEW f \in Frames, NEW p \in 0 .. f.len, SenderAt(f, p), MarkEnd
  PROVE  SenderAt(f, p)'
<1> USE DEF MarkEnd
<1>1. Unmarked
  BY LinkTypes DEF Unmarked, MarksInv, EndsAreLate
<1>2. UNCHANGED <<g_txFifo, stops, moved, g_currentTransmissionCount, frame, next, rxIrq, rxOn>>
  BY DEF dmaVars, rxVars
<1>3. CASE g_txFifo.count # 0
  <2>1. Unmarked'
    BY <1>1, <1>2, <1>3 DEF Unmarked
  <2>2. Ended' <=> Ended
    BY <1>2, <1>3 DEF Ended
  <2>. QED  BY <1>1, <1>2, <1>3, <2>1, <2>2, SenderAtRests
<1>4. CASE g_txFifo.count = 0
  <2>1. /\ moved = 0 /\ g_currentTransmissionCount = 0
        /\ stops = <<>> /\ flank' = TRUE /\ g_sendState' = "PAUSED" /\ pc' = "idle"
    BY <1>4, LinkTypes DEF MarksInv, EndsAreLate, EndFrame
  <2>2. p = f.len
    BY <1>1, <1>4, <2>1 DEF StopDue, SenderAt
  <2>3. RingFollows'
    BY <1>2 DEF SenderAt, RingFollows, Follows, Peek, IsLast
  <2>4. GoesOn(f, p)'
    BY <1>2 DEF SenderAt, GoesOn, Peek
  <2>5. ~StopDue'
    BY <1>2, <2>1 DEF StopDue, Unmarked
  <2>6. Ended'
    BY <2>1 DEF Ended
  <2>. QED  BY <1>2, <2>1, <2>2, <2>3, <2>4, <2>5, <2>6 DEF SenderAt
<1>. QED  BY <1>3, <1>4

\* The main loop queues the end: it is due as it was before.
LEMMA PutStopAt ==
  ASSUME MarksInv, FramesFit, NEW f \in Frames, NEW p \in 0 .. f.len, SenderAt(f, p), PutStop
  PROVE  SenderAt(f, p)'
<1> USE DEF PutStop
<1>1. Unmarked /\ ~Unmarked'
  BY LinkTypes DEF Unmarked, MarksInv, EndsAreLate
<1>2. UNCHANGED <<g_txFifo, moved, g_currentTransmissionCount, g_sendState, frame, next, flank,
                  rxIrq, rxOn>>
  BY DEF dmaVars, rxVars
<1>3. PICK d : Tells(d)
  BY DEF MarksInv, EndsAreMarked
<1>4. PICK s \in Index, c \in Nat, m \in Nat :
        /\ s = g_txFifo.start /\ c = g_txFifo.count /\ m = moved
        /\ m <= c /\ c <= FifoSize
  BY LinkTypes
<1>5. stops' = Append(stops, nextStopIndex) /\ stops \in Seq(Index)
  BY RingTypes DEF MarksInv, IInv
<1>6. nextStopIndex \in Index /\ nextStopIndex = (s + c) % FifoSize
  <2>1. nextStopIndex = g_txFifo.end /\ g_txFifo.end \in Index
    BY RingTypes DEF MarksInv, IInv
  <2>2. g_txFifo.end = (g_txFifo.start + g_txFifo.count) % FifoSize
    BY DEF MarksInv, IInv, TypeOK, IsConsistent
  <2>. QED  BY <1>4, <2>1, <2>2
<1>7. StopDue' <=> stops' # <<>> /\ Head(stops') = (s + m) % FifoSize
  BY <1>1, <1>2, <1>4 DEF StopDue
<1>8. StopDue' <=> StopDue
  <2>1. CASE stops = <<>>
    <3>1. stops' # <<>> /\ Head(stops') = nextStopIndex
      BY <1>5, <1>6, <2>1
    <3>2. StopDue <=> m = c
      BY <1>1, <1>4, <2>1 DEF StopDue
    <3>3. ASSUME (s + c) % FifoSize = (s + m) % FifoSize
          PROVE  m = c
      <4>1. c = FifoSize => m = c
        <5>1. ASSUME c = FifoSize
              PROVE  FALSE
          <6>1. PICK n \in MarkedEnds : TRUE
            BY <1>4, <5>1, RingHasEnd
          <6>2. n \in 1 .. g_txFifo.count
            BY DEF MarkedEnds
          <6>3. Len(stops) = 0
            BY <2>1
          <6>. QED  BY <1>3, <6>1, <6>2, <6>3 DEF Tells
        <5>. QED  BY <5>1
      <4>2. PICK a \in Index, b \in Index : a = (s + c) % FifoSize /\ b = (s + m) % FifoSize
        BY <1>4, PlacesAhead, FifoAssumption
      <4>3. /\ (s + c < FifoSize => a = s + c) /\ (s + c >= FifoSize => a = s + c - FifoSize)
            /\ (s + m < FifoSize => b = s + m) /\ (s + m >= FifoSize => b = s + m - FifoSize)
        BY <1>4, <4>2, PlacesAhead, FifoAssumption
      <4>4. a = b
        BY <3>3, <4>2
      <4>5. CASE c # FifoSize
        <5>1. c < FifoSize /\ m < FifoSize
          BY <1>4, <4>5, FifoAssumption
        <5>. QED  BY <4>3, <4>4, <5>1, FifoAssumption DEF Index
      <4>. QED  BY <4>1, <4>5
    <3>. QED  BY <1>6, <1>7, <3>1, <3>2, <3>3
  <2>2. CASE stops # <<>>
    <3>1. stops' # <<>> /\ Head(stops') = Head(stops)
      BY <1>5, <1>6, <2>2
    <3>2. m # c
      <4>1. ASSUME m = c
            PROVE  d[1] = g_txFifo.count
        <5>1. d[1] \in Nat /\ g_currentTransmissionCount <= d[1] /\ d[1] <= g_txFifo.count
          BY <1>3, <2>2, FirstStop
        <5>. QED  BY <1>4, <4>1, <5>1, LinkTypes
      <4>2. 1 \in 1 .. Len(stops)
        BY <1>3, <2>2, FirstStop
      <4>. QED  BY <1>1, <1>3, <4>1, <4>2, UnmarkedHasNoStop
    <3>. QED  BY <1>4, <1>7, <2>2, <3>1, <3>2 DEF StopDue
  <2>. QED  BY <2>1, <2>2
<1>9. RingFollows'
  BY <1>2 DEF SenderAt, RingFollows, Follows, Peek, IsLast
<1>10. GoesOn(f, p)'
  BY <1>2 DEF SenderAt, GoesOn, Peek
<1>11. Ended' <=> Ended
  BY <1>2 DEF Ended
<1>. QED  BY <1>2, <1>8, <1>9, <1>10, <1>11 DEF SenderAt

\* The pause ends when the receiver has served the end of the frame.
LEMMA PauseOverAt ==
  ASSUME MarksInv, Punctual, NEW f \in Frames, NEW p \in 0 .. f.len, SenderAt(f, p), PauseOver
  PROVE  SenderAt(f, p)'
<1> USE DEF PauseOver
<1>1. UNCHANGED <<g_txFifo, stops, moved, g_currentTransmissionCount, frame, next, pc, flank,
                  rxIrq, rxOn>>
  BY DEF dmaVars, rxVars, mainVars
<1>2. ~Ended /\ ~Ended' /\ g_sendState' = "IDLE" /\ ~flank /\ ~rxIrq
  BY <1>1 DEF Ended
<1>3. RingFollows'
  BY <1>1 DEF SenderAt, RingFollows, Follows, Peek, IsLast
<1>4. GoesOn(f, p)'
  BY <1>1 DEF SenderAt, GoesOn, Peek
<1>5. StopDue' <=> StopDue
  BY <1>1 DEF StopDue, Unmarked
<1>. QED  BY <1>2, <1>3, <1>4, <1>5 DEF SenderAt

\* While a block is transmitted, there is no pause.
LEMMA BlockIsSent ==
  ASSUME MarksInv, NEW f \in Frames, NEW p \in 0 .. f.len, SenderAt(f, p),
         g_currentTransmissionCount > 0
  PROVE  g_sendState = "IDLE" /\ ~Ended /\ ~flank
<1>1. g_sendState # "PAUSED" /\ g_sendState \in {"IDLE", "PAUSED"}
  BY LinkTypes DEF SenderAt, MarksInv, IInv, TypeOK
<1>. QED  BY <1>1 DEF SenderAt, Ended

\* A block ends, and with it the frame where its end is queued.
LEMMA EndBlockAt ==
  ASSUME MarksInv, FramesFit, NEW f \in Frames, NEW p \in 0 .. f.len, SenderAt(f, p),
         EndBlock(moved), moved > 0, Leaves(moved),
         UNCHANGED <<mainVars, rxIrq, rxOn>>
  PROVE  SenderAt(f, p)'
<1>1. UNCHANGED <<frame, next, pc, rxIrq, rxOn>> /\ moved' = 0
  BY DEF mainVars, EndBlock
<1>2. PICK c \in Nat, n \in Nat \ {0} :
        /\ c = g_txFifo.count /\ n = moved /\ n \in 0 .. g_currentTransmissionCount
        /\ n <= c /\ c <= FifoSize
  BY LinkTypes
<1>3. g_sendState = "IDLE" /\ ~Ended /\ ~flank
  BY <1>2, LinkTypes, BlockIsSent
<1>4. /\ g_txFifo'.count = c - n /\ c - n \in Nat
      /\ \A k \in 0 .. c - n : Peek(g_txFifo', k) = Peek(g_txFifo, n + k)
      /\ g_txFifo'.start \in Index /\ g_txFifo'.start = (g_txFifo.start + n) % FifoSize
      /\ \A k \in 0 .. c - n :
           (g_txFifo'.start + k) % FifoSize = (g_txFifo.start + (n + k)) % FifoSize
  <2>1. g_txFifo' = [g_txFifo EXCEPT !.start = (@ + n) % FifoSize, !.count = @ - n] /\ IInv
    BY <1>2 DEF EndBlock, MarksInv
  <2>2. /\ g_txFifo'.count = g_txFifo.count - n
        /\ \A k \in 0 .. g_txFifo.count - n : Peek(g_txFifo', k) = Peek(g_txFifo, n + k)
        /\ g_txFifo'.start \in Index /\ g_txFifo'.start = (g_txFifo.start + n) % FifoSize
        /\ \A k \in 0 .. g_txFifo.count - n :
             (g_txFifo'.start + k) % FifoSize = (g_txFifo.start + (n + k)) % FifoSize
    BY <1>2, <2>1, DrainedRing
  <2>. QED  BY <1>2, <2>2
<1>5. RingFollows'
  <2>1. ASSUME NEW i \in 1 .. c - n - 1
        PROVE  Follows(Peek(g_txFifo', i - 1), Peek(g_txFifo', i))
    <3>1. /\ i - 1 \in 0 .. c - n /\ i \in 0 .. c - n
          /\ n + (i - 1) = n + i - 1 /\ n + i \in 1 .. c - 1
      BY <1>2
    <3>2. Follows(Peek(g_txFifo, n + i - 1), Peek(g_txFifo, n + i))
      BY <1>2, <3>1 DEF SenderAt, RingFollows
    <3>. QED  BY <1>4, <3>1, <3>2
  <2>2. g_txFifo'.count - 1 = c - n - 1
    BY <1>4
  <2>. QED  BY <2>1, <2>2 DEF RingFollows
<1>6. GoesOn(f, p)'
  <2>1. CASE n < c
    <3>1. 0 \in 0 .. c - n /\ n + 0 = n
      BY <1>2, <2>1
    <3>2. Peek(g_txFifo', 0) = Peek(g_txFifo, n)
      BY <1>4, <3>1
    <3>3. moved' # g_txFifo'.count
      BY <1>1, <1>2, <1>4, <2>1
    <3>4. IF p \in {0, f.len} THEN Peek(g_txFifo, n).pos = 1
                              ELSE /\ Peek(g_txFifo, n).frame = f
                                   /\ Peek(g_txFifo, n).pos = p + 1
      BY <1>2, <2>1 DEF SenderAt, GoesOn
    <3>. QED  BY <1>1, <3>2, <3>3, <3>4 DEF GoesOn
  <2>2. CASE n = c
    <3>1. ~(moved' < g_txFifo'.count)
      BY <1>1, <1>2, <1>4, <2>2
    <3>2. IF p \in {0, f.len} THEN next = 1 \/ next = frame.len + 1
                              ELSE frame = f /\ next = p + 1
      BY <1>2, <2>2 DEF SenderAt, GoesOn
    <3>. QED  BY <1>1, <3>1, <3>2 DEF GoesOn
  <2>. QED  BY <1>2, <2>1, <2>2
<1>7. PICK t \in Index : t = g_txFifo'.start /\ (t + 0) % FifoSize = t
  <2>1. 0 \in 0 .. FifoSize
    BY FifoAssumption
  <2>2. PICK t \in Index : t = g_txFifo'.start
    BY <1>4
  <2>3. (t + 0) % FifoSize = t
    BY <2>1, <2>2, BackAtStart
  <2>. QED  BY <2>2, <2>3
<1>8. PICK d : Tells(d)
  BY DEF MarksInv, EndsAreMarked
<1>9. AreAhead(d) /\ IInv
  BY <1>8 DEF Tells, MarksInv
<1>10. (Unmarked' /\ moved' = g_txFifo'.count) <=> (Unmarked /\ moved = g_txFifo.count)
  BY <1>1, <1>2, <1>4 DEF Unmarked
<1>11. CASE stops # <<>> /\ t = Head(stops)
  <2>1. stops' = Tail(stops) /\ flank' = TRUE /\ g_sendState' = "PAUSED"
    BY <1>7, <1>11 DEF EndBlock, EndFrame
  <2>2. StopDue
    BY <1>2, <1>4, <1>7, <1>11 DEF StopDue
  <2>3. p = f.len
    BY <2>2 DEF SenderAt
  <2>4. d[1] = n /\ 1 \in 1 .. Len(stops)
    BY <1>2, <1>4, <1>7, <1>8, <1>11, FirstStop, StopAt
  <2>5. ~StopDue'
    <3>1. ~(Unmarked /\ moved = g_txFifo.count)
      BY <1>2, <1>8, <2>4, UnmarkedHasNoStop
    <3>2. ASSUME stops' # <<>>, Head(stops') = t
          PROVE  FALSE
      <4>1. PICK l \in Nat : /\ l = Len(stops) /\ 2 \in 1 .. l /\ 1 \in 1 .. l
                             /\ Head(stops') = stops[2]
        <5>1. /\ Tail(stops) \in Seq(Index) /\ Len(Tail(stops)) = Len(stops) - 1
              /\ Len(stops) \in Nat \ {0}
              /\ \A k \in 1 .. Len(stops) - 1 : Tail(stops)[k] = stops[k + 1]
          BY <1>8, <1>9, <1>11, TakeStop
        <5>2. PICK r \in Seq(Index) : r = stops'
          BY <2>1, <5>1
        <5>3. r # <<>> /\ Len(r) = Len(stops) - 1 /\ Head(r) = r[1] /\ Len(r) \in Nat
          BY <2>1, <3>2, <5>1, <5>2
        <5>4. Len(r) # 0
          BY <5>3
        <5>5. 1 \in 1 .. Len(stops) - 1 /\ 1 + 1 = 2 /\ 2 \in 1 .. Len(stops)
          BY <5>1, <5>3, <5>4
        <5>6. Tail(stops)[1] = stops[1 + 1]
          BY <5>1, <5>5, Zenon
        <5>. QED  BY <2>1, <2>4, <5>1, <5>2, <5>3, <5>5, <5>6
      <4>2. d[1] < d[2] /\ d[2] \in Int /\ d[2] <= c
        <5>1. d[1] < d[2]
          BY <1>8, <4>1 DEF Tells
        <5>. QED  BY <1>2, <1>9, <4>1, <5>1, EndTypes
      <4>3. PICK o \in Nat : o = d[2] /\ n < o /\ o <= c
        BY <1>2, <2>4, <4>2
      <4>4. o - n \in 0 .. c - n /\ n + (o - n) = o /\ o - n \in 0 .. FifoSize
            /\ o - n # 0 /\ o - n # FifoSize
        BY <1>2, <4>3, FifoAssumption
      <4>5. (t + (o - n)) % FifoSize = (g_txFifo.start + o) % FifoSize
        <5>1. (g_txFifo'.start + (o - n)) % FifoSize = (g_txFifo.start + (n + (o - n))) % FifoSize
          BY <1>4, <4>4
        <5>. QED  BY <1>7, <4>4, <5>1
      <4>6. stops[2] = (g_txFifo.start + o) % FifoSize
        BY <1>9, <4>1, <4>3 DEF AreAhead
      <4>7. (t + (o - n)) % FifoSize = t
        BY <3>2, <4>1, <4>5, <4>6
      <4>. QED  BY <4>4, <4>7, BackAtStart
    <3>. QED  BY <1>1, <1>7, <1>10, <3>1, <3>2 DEF StopDue
  <2>6. Ended'
    BY <2>1 DEF Ended
  <2>7. g_currentTransmissionCount' = 0
    <3>1. g_currentTransmissionCount <= n
      BY <1>2, <1>9, <2>4, EndTypes
    <3>2. g_currentTransmissionCount = n
      BY <1>2, <3>1, LinkTypes
    <3>. QED  BY <1>2, <3>2 DEF Leaves
  <2>. QED  BY <1>5, <1>6, <2>1, <2>3, <2>5, <2>6, <2>7 DEF SenderAt
<1>12. CASE ~(stops # <<>> /\ t = Head(stops))
  <2>1. UNCHANGED <<stops, g_sendState, flank>>
    BY <1>7, <1>12 DEF EndBlock
  <2>2. StopDue' <=> StopDue
    <3>1. ~(stops' # <<>> /\ Head(stops') = (g_txFifo'.start + moved') % FifoSize)
      BY <1>1, <1>7, <1>12, <2>1
    <3>2. ~(stops # <<>> /\ Head(stops) = (g_txFifo.start + moved) % FifoSize)
      BY <1>2, <1>4, <1>7, <1>12
    <3>. QED  BY <1>10, <3>1, <3>2 DEF StopDue
  <2>3. Ended' <=> Ended
    BY <1>1, <2>1 DEF Ended
  <2>. QED  BY <1>3, <1>5, <1>6, <2>1, <2>2, <2>3 DEF SenderAt
<1>. QED  BY <1>11, <1>12
\* The byte that is moved is the one behind those of its frame that were moved.
LEMMA ByteToMove ==
  ASSUME MarksInv, FramesFit, NEW f \in Frames, NEW p \in 0 .. f.len, SenderAt(f, p),
         moved < g_currentTransmissionCount
  PROVE  /\ Peek(g_txFifo, moved) \in Bytes
         /\ g_txFifo.data[g_txFifo.start + moved] = Peek(g_txFifo, moved)
         /\ p < f.len /\ p \in Nat /\ f.len \in Nat
         /\ Peek(g_txFifo, moved).pos = p + 1
         /\ p # 0 => Peek(g_txFifo, moved).frame = f
         /\ g_sendState = "IDLE" /\ ~flank /\ ~Ended
<1>1. PICK m \in Nat, c \in Nat : /\ m = moved /\ c = g_txFifo.count
                                  /\ m < g_currentTransmissionCount
                                  /\ g_currentTransmissionCount <= c /\ c <= FifoSize
                                  /\ g_currentTransmissionCount > 0
  BY LinkTypes
<1>2. g_sendState = "IDLE" /\ ~flank /\ ~Ended
  BY <1>1, BlockIsSent
<1>3. f.len \in Nat /\ p \in Nat /\ p <= f.len
  BY LengthFits
<1>4. PICK d : Tells(d)
  BY DEF MarksInv, EndsAreMarked
<1>5. ~StopDue
  <2>1. m # c
    BY <1>1, LinkTypes
  <2>2. ASSUME stops # <<>>, Head(stops) = (g_txFifo.start + m) % FifoSize
        PROVE  FALSE
    <3>1. m \in 0 .. g_currentTransmissionCount
      BY <1>1, LinkTypes
    <3>2. d[1] = m
      BY <1>4, <2>2, <3>1, StopAt
    <3>3. d[1] \in Nat /\ g_currentTransmissionCount <= d[1]
      BY <1>4, <2>2, FirstStop
    <3>. QED  BY <1>1, <3>2, <3>3, LinkTypes
  <2>. QED  BY <1>1, <2>1, <2>2 DEF StopDue
<1>6. p # f.len
  BY <1>2, <1>5 DEF SenderAt
<1>7. m \in 0 .. g_txFifo.count - 1
  BY <1>1, LinkTypes
<1>8. Peek(g_txFifo, m) \in Bytes
  BY <1>7 DEF MarksInv, IInv, RingHoldsBytes
<1>9. g_txFifo.data[g_txFifo.start + m] = Peek(g_txFifo, m)
  <2>1. PICK s \in Index : s = g_txFifo.start /\ s + m < FifoSize /\ m \in 0 .. FifoSize
    <3>1. g_txFifo.start + g_currentTransmissionCount <= FifoSize
      BY DEF MarksInv, IInv, TypeOK
    <3>. QED  BY <1>1, <3>1, LinkTypes DEF Index
  <2>2. (s + m) % FifoSize = s + m
    BY <2>1, PlacesAhead
  <2>. QED  BY <2>1, <2>2 DEF Peek
<1>10. IF p \in {0, f.len} THEN Peek(g_txFifo, m).pos = 1
                           ELSE /\ Peek(g_txFifo, m).frame = f
                                /\ Peek(g_txFifo, m).pos = p + 1
  BY <1>1, LinkTypes DEF SenderAt, GoesOn
<1>. QED  BY <1>1, <1>2, <1>3, <1>6, <1>8, <1>9, <1>10

\* One more byte of its frame has been moved.
LEMMA MoveByteAt ==
  ASSUME MarksInv, FramesFit, NEW f \in Frames, NEW p \in 0 .. f.len, SenderAt(f, p),
         MoveByte, NEW b \in Bytes, b = Peek(g_txFifo, moved)
  PROVE  SenderAt(b.frame, p + 1)'
<1>1. /\ moved < g_currentTransmissionCount /\ moved' = moved + 1
      /\ UNCHANGED <<g_txFifo, stops, g_currentTransmissionCount, g_sendState, frame, next,
                     pc, flank>>
  BY DEF MoveByte, DMAEnabled, mainVars
<1>2. /\ p < f.len /\ p \in Nat /\ f.len \in Nat /\ b.pos = p + 1 /\ (p # 0 => b.frame = f)
      /\ g_sendState = "IDLE" /\ ~flank
  BY <1>1, ByteToMove
<1>3. PICK m \in Nat, c \in Nat : /\ m = moved /\ c = g_txFifo.count
                                  /\ m < g_currentTransmissionCount
                                  /\ g_currentTransmissionCount <= c /\ c <= FifoSize
  BY <1>1, LinkTypes
<1>4. PICK g \in Frames, l \in Nat : g = b.frame /\ l = g.len /\ p + 1 <= l /\ 1 < l
  <2>1. b.frame \in Frames
    BY DEF Bytes
  <2>. QED  BY <1>2, <2>1, ByteInFrame, LengthFits
<1>5. IsLast(b) <=> p + 1 = l
  BY <1>2, <1>4 DEF IsLast
<1>6. RingFollows'
  BY <1>1 DEF SenderAt, RingFollows, Follows, Peek, IsLast
<1>7. ~Ended'
  BY <1>1, <1>2 DEF Ended
<1>8. m < c - 1 \/ m = c - 1
  BY <1>3, LinkTypes
<1>9. m = c - 1 => /\ next = 1 => IsLast(b)
                   /\ next > 1 => b.frame = frame /\ b.pos = next - 1
  <2>1. c > 0 /\ b = Peek(g_txFifo, m)
    BY <1>3, LinkTypes
  <2>2. m = c - 1 => /\ next = 1 => IsLast(b)
                     /\ next > 1 => b = [frame |-> frame, pos |-> next - 1]
    BY <1>3, <2>1 DEF MarksInv, NewestIsPut
  <2>. QED  BY <2>2
<1>10. GoesOn(g, p + 1)'
  <2>1. CASE m < c - 1
    <3>1. m + 1 \in 1 .. c - 1 /\ m + 1 - 1 = m /\ m + 1 < c
      BY <1>3, <2>1
    <3>2. Follows(Peek(g_txFifo, m), Peek(g_txFifo, m + 1))
      BY <1>3, <3>1 DEF SenderAt, RingFollows
    <3>3. PICK a : a = Peek(g_txFifo, m + 1)
      OBVIOUS
    <3>4. Follows(b, a)
      BY <1>3, <3>2, <3>3
    <3>5. IF p + 1 \in {0, g.len} THEN a.pos = 1 ELSE a.frame = g /\ a.pos = (p + 1) + 1
      BY <1>2, <1>4, <1>5, <3>4 DEF Follows
    <3>6. Peek(g_txFifo', moved') = a /\ moved' < g_txFifo'.count /\ moved' # g_txFifo'.count
      BY <1>1, <1>3, <3>1, <3>3
    <3>. QED  BY <3>5, <3>6 DEF GoesOn
  <2>2. CASE m = c - 1
    <3>1. moved' = g_txFifo'.count /\ ~(moved' < g_txFifo'.count)
      BY <1>1, <1>3, <2>2
    <3>2. next = 1 \/ next > 1
      BY LinkTypes
    <3>3. IF p + 1 \in {0, g.len} THEN next = 1 \/ next = frame.len + 1
                                  ELSE frame = g /\ next = (p + 1) + 1
      <4>1. CASE next = 1
        BY <1>2, <1>4, <1>5, <1>9, <2>2, <4>1
      <4>2. CASE next > 1
        BY <1>2, <1>4, <1>5, <1>9, <2>2, <4>2, LinkTypes
      <4>. QED  BY <3>2, <4>1, <4>2
    <3>. QED  BY <1>1, <3>1, <3>3 DEF GoesOn
  <2>. QED  BY <1>8, <2>1, <2>2
<1>11. PICK d : Tells(d)
  BY DEF MarksInv, EndsAreMarked
<1>12. m + 1 \in 0 .. g_currentTransmissionCount /\ m + 1 \in 1 .. c
  BY <1>3, LinkTypes
<1>13. StopDue' <=> \/ stops # <<>> /\ d[1] = m + 1
                    \/ Unmarked /\ m + 1 = c
  <2>1. stops # <<>> => (Head(stops) = (g_txFifo.start + (m + 1)) % FifoSize <=> d[1] = m + 1)
    BY <1>11, <1>12, StopAt
  <2>2. Unmarked' <=> Unmarked
    BY <1>1 DEF Unmarked
  <2>. QED  BY <1>1, <1>3, <2>1, <2>2 DEF StopDue
<1>14. ASSUME IsLast(b)
       PROVE  StopDue'
  <2>1. CASE Unmarked /\ m + 1 = c
    BY <1>13, <2>1
  <2>2. CASE ~(Unmarked /\ m + 1 = c)
    <3>1. m + 1 \in MarkedEnds
      <4>1. m + 1 - 1 = m
        BY <1>3
      <4>. QED  BY <1>3, <1>12, <1>14, <2>2, <4>1 DEF MarkedEnds
    <3>2. PICK k \in 1 .. Len(stops) : d[k] = m + 1
      BY <1>3, <1>11, <1>12, <3>1 DEF Tells
    <3>3. stops # <<>> /\ Len(stops) \in Nat
      BY RingTypes DEF MarksInv, IInv
    <3>4. 1 \in 1 .. Len(stops) /\ d[1] \in Nat /\ g_currentTransmissionCount <= d[1]
      BY <1>11, <3>3, FirstStop
    <3>5. d[1] <= d[k]
      <4>1. 1 <= k
        OBVIOUS
      <4>. QED  BY <1>11, <3>4, <4>1 DEF Tells, AreAhead
    <3>6. d[1] = m + 1
      BY <1>3, <1>12, <3>2, <3>4, <3>5, LinkTypes
    <3>. QED  BY <1>13, <3>3, <3>6
  <2>. QED  BY <2>1, <2>2
<1>15. ASSUME StopDue'
       PROVE  IsLast(b)
  <2>1. CASE stops # <<>> /\ d[1] = m + 1
    <3>1. m + 1 \in MarkedEnds
      <4>1. 1 \in 1 .. Len(stops)
        BY <1>11, <2>1, FirstStop
      <4>. QED  BY <1>3, <1>11, <1>12, <2>1, <4>1 DEF Tells
    <3>2. m + 1 - 1 = m
      BY <1>3
    <3>. QED  BY <1>3, <3>1, <3>2 DEF MarkedEnds
  <2>2. CASE Unmarked /\ m + 1 = c
    <3>1. next = frame.len + 1 /\ next > 1
      BY <2>2, LinkTypes DEF Unmarked
    <3>2. m = c - 1
      BY <1>3, <2>2
    <3>3. b.frame = frame /\ b.pos = next - 1
      BY <1>9, <3>1, <3>2
    <3>. QED  BY <3>1, <3>3, LinkTypes DEF IsLast
  <2>. QED  BY <1>13, <1>15, <2>1, <2>2
<1>16. StopDue' <=> p + 1 = g.len
  BY <1>4, <1>5, <1>14, <1>15
<1>17. g_sendState' # "PAUSED"
  BY <1>1, <1>2
<1>. QED  BY <1>4, <1>6, <1>7, <1>10, <1>16, <1>17 DEF SenderAt
-----------------------------------------------------------------------------
(***************************************************************************)
(* What the receiver has of the frame f, of which p bytes have been moved. *)
(***************************************************************************)

PacketsFit == \A n \in Lengths : n < MaxPacket

\* The first p bytes of f.
Upto(f, p) == [k \in 1 .. p |-> [frame |-> f, pos |-> k]]

\* It has them all in its buffer.
HasAll(f, p) ==
  /\ g_rxPacket /\ dr = NULL
  /\ rx = Upto(f, p)
  /\ rxOn /\ rxIrq => p = 0 /\ g_sendState = "PAUSED" /\ ~flank
  /\ ~rxOn => rxIrq /\ p = f.len /\ g_sendState = "PAUSED" /\ ~flank

\* It has them behind the first byte of a frame that is lost.
HasOneMore(f, p) ==
  /\ g_rxPacket /\ dr = NULL /\ excused
  /\ \E b \in Bytes : b.pos = 1 /\ rx = <<b>> \o Upto(f, p)
  /\ rxOn => ~rxIrq
  /\ ~rxOn => rxIrq /\ p = f.len

\* It has no buffer, and the first byte of a lost frame is left in the register.
HasNone(f, p) ==
  /\ ~g_rxPacket /\ excused
  /\ rx = <<>> /\ ~rxOn /\ ~rxIrq
  /\ dr = NULL => p = 0
  /\ dr # NULL => dr.pos = 1

\* The buffer was full with one byte more than the frame has: it was emptied before
\* the end of the frame was signalled.
HasGivenUp(f, p) ==
  /\ g_rxPacket /\ dr = NULL
  /\ rx = <<>> /\ p = f.len
  /\ rxOn => ~rxIrq
  /\ ~rxOn => rxIrq /\ g_sendState = "PAUSED" /\ ~flank

ReceiverAt(f, p) ==
  HasAll(f, p) \/ HasOneMore(f, p) \/ HasNone(f, p) \/ HasGivenUp(f, p)

\* What the receiver has.
Received == rx \o (IF dr = NULL THEN <<>> ELSE <<dr>>)

-----------------------------------------------------------------------------
\* The first bytes of a frame.
LEMMA UptoIs ==
  ASSUME NEW f \in Frames, NEW p \in 0 .. f.len
  PROVE  /\ Upto(f, p) \in Seq(Bytes) /\ Len(Upto(f, p)) = p
         /\ \A k \in 1 .. p : Upto(f, p)[k].frame = f /\ Upto(f, p)[k].pos = k
         /\ p \in Nat /\ f.len \in Nat /\ p <= f.len /\ 1 < f.len
<1>1. p \in Nat /\ f.len \in Nat /\ p <= f.len /\ f.len <= MaxPacket /\ 1 < f.len
  BY FrameLength DEF MinPacket
<1>2. ASSUME NEW k \in 1 .. p
      PROVE  [frame |-> f, pos |-> k] \in Bytes
  <2>1. k \in 1 .. MaxPacket /\ k <= f.len
    BY <1>1, FrameLength
  <2>. QED  BY <2>1 DEF Bytes
<1>3. Upto(f, p) \in [1 .. p -> Bytes]
  BY <1>2 DEF Upto
<1>4. \A k \in 1 .. p : Upto(f, p)[k] = [frame |-> f, pos |-> k]
  BY DEF Upto
<1>. QED  BY <1>1, <1>3, <1>4

\* One more byte of it.
LEMMA UptoAppend ==
  ASSUME NEW f \in Frames, NEW p \in 0 .. f.len, NEW b \in Bytes, b.pos = p + 1,
         p # 0 => b.frame = f, p < f.len
  PROVE  /\ b.frame \in Frames /\ p + 1 \in 0 .. b.frame.len
         /\ Append(Upto(f, p), b) = Upto(b.frame, p + 1)
<1>1. PICK g \in Frames : g = b.frame /\ p + 1 <= g.len /\ g.len \in Nat /\ p \in Nat
  <2>1. b.frame \in Frames
    BY DEF Bytes
  <2>. QED  BY <2>1, ByteInFrame, UptoIs
<1>2. p + 1 \in 0 .. g.len
  BY <1>1
<1>3. PICK s \in Seq(Bytes) :
        /\ s = Upto(f, p) /\ Len(s) = p /\ \A k \in 1 .. p : s[k].frame = f /\ s[k].pos = k
  BY UptoIs
<1>4. PICK t \in Seq(Bytes) :
        /\ t = Upto(g, p + 1) /\ Len(t) = p + 1
        /\ \A k \in 1 .. p + 1 : t[k].frame = g /\ t[k].pos = k
  BY <1>2, UptoIs
<1>5. PICK u \in Seq(Bytes) : u = Append(s, b)
  <2>1. Append(s, b) \in Seq(Bytes)
    BY AppendProperties, Zenon
  <2>. QED  BY <2>1
<1>6. Len(u) = p + 1 /\ (\A k \in 1 .. p : u[k] = s[k]) /\ u[p + 1] = b
  BY <1>1, <1>3, <1>5
<1>7. \A a, c \in Bytes : a.frame = c.frame /\ a.pos = c.pos => a = c
  <2>1. \A a \in [frame : Frames, pos : 1 .. MaxPacket] : a = [frame |-> a.frame, pos |-> a.pos]
    OBVIOUS
  <2>2. \A a \in Bytes : a = [frame |-> a.frame, pos |-> a.pos]
    BY <2>1 DEF Bytes
  <2>. QED  BY <2>2
<1>8. ASSUME NEW k \in 1 .. p + 1
      PROVE  u[k] = t[k]
  <2>1. u[k] \in Bytes /\ t[k] \in Bytes
    BY <1>4, <1>6
  <2>2. CASE k \in 1 .. p
    <3>1. g = f
      BY <1>1, <2>2
    <3>2. u[k].frame = t[k].frame /\ u[k].pos = t[k].pos
      BY <1>3, <1>4, <1>6, <2>2, <3>1
    <3>. QED  BY <1>7, <2>1, <3>2
  <2>3. CASE k = p + 1
    <3>1. u[k].frame = t[k].frame /\ u[k].pos = t[k].pos
      BY <1>1, <1>4, <1>6, <2>3
    <3>. QED  BY <1>7, <2>1, <3>1
  <2>. QED  BY <1>1, <2>2, <2>3
<1>9. u = t
  BY <1>4, <1>6, <1>8, SeqEqual
<1>. QED  BY <1>1, <1>2, <1>3, <1>4, <1>5, <1>9

\* One byte before them.
LEMMA OneMore ==
  ASSUME NEW b \in Bytes, NEW s \in Seq(Bytes), NEW n \in Nat, n = Len(s)
  PROVE  /\ <<b>> \o s \in Seq(Bytes) /\ Len(<<b>> \o s) = n + 1
         /\ (<<b>> \o s)[1] = b
         /\ \A k \in 1 .. n : (<<b>> \o s)[k + 1] = s[k]
<1>1. PICK t \in Seq(Bytes) : t = <<b>> /\ Len(t) = 1 /\ t[1] = b
  <2>1. <<b>> \in Seq(Bytes) /\ Len(<<b>>) = 1 /\ <<b>>[1] = b
    OBVIOUS
  <2>. QED  BY <2>1
<1>2. /\ t \o s \in Seq(Bytes) /\ Len(t \o s) = Len(t) + Len(s)
      /\ \A i \in 1 .. Len(t) + Len(s) :
           (t \o s)[i] = IF i <= Len(t) THEN t[i] ELSE s[i - Len(t)]
  BY ConcatProperties, Zenon
<1>3. 1 \in 1 .. 1 + n /\ \A k \in 1 .. n : k + 1 \in 1 .. 1 + n /\ ~(k + 1 <= 1) /\ k + 1 - 1 = k
  OBVIOUS
<1>. QED  BY <1>1, <1>2, <1>3

\* A frame ends in its bytes when they are complete.
LEMMA UptoEnds ==
  ASSUME NEW f \in Frames, NEW p \in 0 .. f.len
  PROVE  FramesEnding[Upto(f, p)] = IF p = f.len THEN <<f>> ELSE <<>>
<1>1. PICK s \in Seq(Bytes) :
        /\ s = Upto(f, p) /\ Len(s) = p /\ \A k \in 1 .. p : s[k].frame = f /\ s[k].pos = k
  BY UptoIs
<1>2. p \in Nat /\ f.len \in Nat /\ p <= f.len /\ 1 < f.len
  BY UptoIs
<1>3. \A k \in 1 .. p : IsLast(s[k]) <=> k = f.len
  BY <1>1 DEF IsLast
<1>4. CASE p = f.len
  <2>1. p \in Nat \ {0} /\ IsLast(s[p]) /\ s[p].frame = f
    BY <1>1, <1>2, <1>3, <1>4
  <2>2. \A k \in 1 .. p - 1 : ~IsLast(s[k])
    BY <1>2, <1>3, <1>4
  <2>3. FramesEnding[s] = <<s[p].frame>>
    BY <1>1, <2>1, <2>2, OneFrameEnds
  <2>. QED  BY <1>1, <1>4, <2>1, <2>3
<1>5. CASE p # f.len
  <2>1. \A k \in 1 .. Len(s) : ~IsLast(s[k])
    BY <1>1, <1>2, <1>3, <1>5
  <2>. QED  BY <1>1, <1>5, <2>1, NoFrameEnds
<1>. QED  BY <1>4, <1>5

\* No frame ends with its first byte.
LEMMA FirstByteEnds ==
  ASSUME NEW b \in Bytes, b.pos = 1
  PROVE  FramesEnding[<<b>>] = <<>> /\ ~IsLast(b)
<1>1. b.frame \in Frames
  BY DEF Bytes
<1>2. ~IsLast(b)
  BY <1>1, FrameLength DEF IsLast, MinPacket
<1>3. <<b>> \in Seq(Bytes) /\ \A k \in 1 .. Len(<<b>>) : <<b>>[k] = b
  OBVIOUS
<1>. QED  BY <1>2, <1>3, NoFrameEnds

\* It does not matter before other bytes.
LEMMA OneMoreEnds ==
  ASSUME NEW b \in Bytes, b.pos = 1, NEW s \in Seq(Bytes)
  PROVE  FramesEnding[<<b>> \o s] = FramesEnding[s]
<1>1. FramesEnding[<<b>> \o s] = FramesEnding[<<b>>] \o FramesEnding[s]
  <2>1. <<b>> \in Seq(Bytes)
    OBVIOUS
  <2>. QED  BY <2>1, FramesEndingConcat
<1>2. FramesEnding[s] \in Seq(Frames)
  BY FramesEndingType
<1>. QED  BY <1>1, <1>2, FirstByteEnds, ConcatEmptySeq

\* The first bytes that the receiver has.
LEMMA NothingEnds ==
  FramesEnding[<<>>] = <<>>
<1>1. <<>> \in Seq(Bytes) /\ \A k \in 1 .. Len(<<>>) : ~IsLast(<<>>[k])
  OBVIOUS
<1>. QED  BY <1>1, NoFrameEnds
-----------------------------------------------------------------------------
\* What the receiver's variables are.
LEMMA ReceiverTypes ==
  ASSUME MarksInv
  PROVE  /\ rx \in Seq(Bytes) /\ dr \in Bytes \cup {NULL} /\ NULL \notin Bytes
         /\ g_rxPacket \in BOOLEAN /\ rxOn \in BOOLEAN /\ rxIrq \in BOOLEAN
         /\ flank \in BOOLEAN /\ excused \in BOOLEAN
         /\ Received \in Seq(Bytes)
         /\ dr = NULL => Received = rx
         /\ rx = <<>> /\ dr # NULL => Received = <<dr>>
<1>1. /\ rx \in Seq(Bytes) /\ dr \in Bytes \cup {NULL} /\ NULL \notin Bytes
      /\ g_rxPacket \in BOOLEAN /\ rxOn \in BOOLEAN /\ rxIrq \in BOOLEAN
      /\ flank \in BOOLEAN /\ excused \in BOOLEAN
  BY LinkAssumption DEF MarksInv, IInv, TypeOK
<1>2. CASE dr = NULL
  <2>1. Received = rx \o <<>>
    BY <1>2 DEF Received
  <2>2. rx \o <<>> = rx
    BY <1>1, ConcatEmptySeq
  <2>. QED  BY <1>1, <1>2, <2>1, <2>2
<1>3. CASE dr # NULL
  <2>1. PICK s \in Seq(Bytes) : s = <<dr>>
    <3>1. <<dr>> \in Seq(Bytes)
      BY <1>1, <1>3
    <3>. QED  BY <3>1
  <2>2. Received = rx \o s
    BY <1>3, <2>1 DEF Received
  <2>3. rx \o s \in Seq(Bytes)
    BY <1>1, <2>1, ConcatProperties, Zenon
  <2>4. <<>> \o s = s
    BY <2>1, ConcatEmptySeq
  <2>. QED  BY <1>1, <1>3, <2>1, <2>2, <2>3, <2>4
<1>. QED  BY <1>2, <1>3

\* The frame that ends in it.
LEMMA ReceivedEnds ==
  ASSUME MarksInv, NEW f \in Frames, NEW p \in 0 .. f.len
  PROVE  /\ HasAll(f, p) \/ HasOneMore(f, p) =>
              FramesEnding[Received] = IF p = f.len THEN <<f>> ELSE <<>>
         /\ HasNone(f, p) \/ HasGivenUp(f, p) => FramesEnding[Received] = <<>>
<1>1. CASE HasAll(f, p)
  <2>1. Received = Upto(f, p)
    BY <1>1, ReceiverTypes DEF HasAll
  <2>2. FramesEnding[Received] = IF p = f.len THEN <<f>> ELSE <<>>
    BY <2>1, UptoEnds
  <2>3. ~HasNone(f, p)
    BY <1>1 DEF HasAll, HasNone
  <2>4. ASSUME HasGivenUp(f, p)
        PROVE  FALSE
    <3>1. Len(rx) = 0 /\ p = f.len /\ rx = Upto(f, p)
      BY <1>1, <2>4 DEF HasAll, HasGivenUp
    <3>. QED  BY <3>1, UptoIs
  <2>. QED  BY <2>2, <2>3, <2>4
<1>2. CASE HasOneMore(f, p)
  <2>1. PICK b \in Bytes : b.pos = 1 /\ rx = <<b>> \o Upto(f, p)
    BY <1>2 DEF HasOneMore
  <2>2. Received = <<b>> \o Upto(f, p)
    BY <1>2, <2>1, ReceiverTypes DEF HasOneMore
  <2>3. FramesEnding[Received] = IF p = f.len THEN <<f>> ELSE <<>>
    BY <2>1, <2>2, UptoIs, UptoEnds, OneMoreEnds
  <2>4. ~HasNone(f, p)
    BY <1>2 DEF HasOneMore, HasNone
  <2>5. ASSUME HasGivenUp(f, p)
        PROVE  FALSE
    <3>1. Len(<<b>> \o Upto(f, p)) = 0
      BY <2>1, <2>5 DEF HasGivenUp
    <3>2. Len(<<b>> \o Upto(f, p)) = p + 1 /\ p \in Nat
      BY UptoIs, OneMore
    <3>. QED  BY <3>1, <3>2
  <2>. QED  BY <2>3, <2>4, <2>5
<1>3. CASE ~HasAll(f, p) /\ ~HasOneMore(f, p)
  <2>1. CASE HasNone(f, p)
    <3>1. CASE dr = NULL
      BY <2>1, <3>1, ReceiverTypes, NothingEnds, <1>3 DEF HasNone
    <3>2. CASE dr # NULL
      BY <2>1, <3>2, ReceiverTypes, FirstByteEnds, <1>3 DEF HasNone
    <3>. QED  BY <3>1, <3>2
  <2>2. CASE HasGivenUp(f, p)
    BY <2>2, ReceiverTypes, NothingEnds, <1>3 DEF HasGivenUp
  <2>. QED  BY <1>3, <2>1, <2>2
<1>. QED  BY <1>1, <1>2, <1>3

\* Steps of the sender that leave the signal alone, that signal the end of a frame,
\* or that end the pause after it.
LEMMA ReceiverAtRests ==
  ASSUME NEW f \in Frames, NEW p \in 0 .. f.len, SenderAt(f, p)',
         ReceiverAt(f, p), UNCHANGED rxVars,
         \/ flank' = flank /\ g_sendState' = g_sendState
         \/ EndFrame /\ ~Ended
         \/ ~flank /\ ~rxIrq /\ flank' = flank
  PROVE  ReceiverAt(f, p)'
<1>2. UNCHANGED <<g_rxPacket, rx, rxOn, rxIrq, dr, excused>>
  BY DEF rxVars
<1>3. CASE flank' = flank /\ g_sendState' = g_sendState
  BY <1>2, <1>3 DEF ReceiverAt, HasAll, HasOneMore, HasNone, HasGivenUp
<1>4. CASE EndFrame /\ ~Ended
  <2>1. p = f.len /\ p # 0
    <3>1. Ended'
      BY <1>4 DEF EndFrame, Ended
    <3>. QED  BY <3>1, UptoIs DEF SenderAt
  <2>2. CASE HasAll(f, p)
    <3>1. rxOn /\ ~rxIrq
      BY <1>4, <2>1, <2>2 DEF HasAll, Ended
    <3>2. HasAll(f, p)'
      BY <1>2, <2>2, <3>1 DEF HasAll
    <3>. QED  BY <3>2 DEF ReceiverAt
  <2>3. CASE HasGivenUp(f, p)
    <3>1. rxOn /\ ~rxIrq
      BY <1>4, <2>3 DEF HasGivenUp, Ended
    <3>2. HasGivenUp(f, p)'
      BY <1>2, <2>3, <3>1 DEF HasGivenUp
    <3>. QED  BY <3>2 DEF ReceiverAt
  <2>4. CASE HasOneMore(f, p) \/ HasNone(f, p)
    BY <1>2, <2>4 DEF ReceiverAt, HasOneMore, HasNone
  <2>. QED  BY <2>2, <2>3, <2>4 DEF ReceiverAt
<1>5. CASE ~flank /\ ~rxIrq /\ flank' = flank
  BY <1>2, <1>5 DEF ReceiverAt, HasAll, HasOneMore, HasNone, HasGivenUp
<1>. QED  BY <1>3, <1>4, <1>5

\* The receiver has served the end of a frame, or has not.
LEMMA EndServed ==
  ASSUME MarksInv, NEW f \in Frames, NEW p \in 0 .. f.len, SenderAt(f, p),
         UNCHANGED <<g_txFifo, stops, g_currentTransmissionCount, moved, frame, next, pc,
                     g_sendState>>
  PROVE  /\ (Ended' <=> Ended) => SenderAt(f, p)'
         /\ Ended /\ ~Ended' => SenderAt(f, 0)' /\ p = f.len
<1>1. Unmarked' <=> Unmarked
  BY DEF Unmarked
<1>2. ASSUME Ended' <=> Ended
      PROVE  SenderAt(f, p)'
  BY <1>1, <1>2, SenderAtRests
<1>3. ASSUME Ended, ~Ended'
      PROVE  SenderAt(f, 0)' /\ p = f.len
  <2>1. p = f.len /\ f.len # 0
    BY <1>3, UptoIs DEF SenderAt
  <2>2. RingFollows'
    BY DEF SenderAt, RingFollows, Follows, Peek, IsLast
  <2>3. GoesOn(f, 0)'
    BY <2>1 DEF SenderAt, GoesOn, Peek
  <2>4. ~StopDue'
    BY <1>1, <1>3 DEF StopDue, SenderAt
  <2>. QED  BY <1>3, <2>1, <2>2, <2>3, <2>4 DEF SenderAt
<1>. QED  BY <1>2, <1>3
-----------------------------------------------------------------------------
(***************************************************************************)
(* What a step makes of the bytes that the receiver has.                   *)
(***************************************************************************)

\* It keeps the frame that ended, hands it on, or drops it with an excuse.
Keeps == FramesEnding[Received'] = FramesEnding[Received] /\ delivered' = delivered

Takes(f) ==
  /\ FramesEnding[Received] = <<f>>
  /\ FramesEnding[Received'] = <<>>
  /\ \/ delivered' = Upto(f, f.len)
     \/ delivered' = delivered /\ (excused \/ excused')

-----------------------------------------------------------------------------
\* A packet that is too short, or does not end where it should, is not posted.
LEMMA NotPosted ==
  ASSUME MarksInv, ProcessPacket, ~Posted
  PROVE  /\ delivered' = delivered
         /\ g_rxPacket => g_rxPacket'
         /\ g_rxPacket' \in BOOLEAN
         /\ ~g_rxPacket => excused'
         /\ dr = NULL => dr' = NULL
         /\ g_rxPacket /\ dr = NULL /\ ~rxOn => rx' = <<>> /\ rxOn'
         /\ rxOn => rx' = rx /\ rxOn'
<1>1. /\ delivered' = delivered
      /\ g_rxPacket' \in (IF g_rxPacket THEN {TRUE} ELSE BOOLEAN)
      /\ excused' = (~g_rxPacket \/ ~g_rxPacket' \/ (Posted /\ delivered' # rx))
  BY DEF ProcessPacket
<1>2. PICK kept : /\ dr = NULL => kept = NULL
                  /\ IF g_rxPacket' /\ ~rxOn
                       THEN /\ rx' = IF kept = NULL THEN <<>> ELSE <<kept>>
                            /\ rxOn' = TRUE
                            /\ dr' = NULL
                       ELSE /\ rx' = IF rxOn THEN rx ELSE <<>>
                            /\ dr' = kept
                            /\ UNCHANGED rxOn
  BY DEF ProcessPacket
<1>3. g_rxPacket \in BOOLEAN /\ rxOn \in BOOLEAN
  BY ReceiverTypes
<1>4. g_rxPacket' \in BOOLEAN /\ (g_rxPacket => g_rxPacket')
  BY <1>1, <1>3
<1>. QED  BY <1>1, <1>2, <1>3, <1>4

\* The packet of a whole frame is posted.
LEMMA WholeIsPosted ==
  ASSUME MarksInv, NEW f \in Frames, HasAll(f, f.len)
  PROVE  Posted
<1>1. f.len \in Nat /\ f.len \in 0 .. f.len /\ 1 < f.len
  BY FrameLength DEF MinPacket
<1>2. PICK s \in Seq(Bytes) :
        /\ s = rx /\ Len(s) = f.len
        /\ \A k \in 1 .. f.len : s[k].frame = f /\ s[k].pos = k /\ s[k] \in Bytes
  <2>1. rx = Upto(f, f.len)
    BY DEF HasAll
  <2>2. /\ Upto(f, f.len) \in Seq(Bytes) /\ Len(Upto(f, f.len)) = f.len
        /\ \A k \in 1 .. f.len : Upto(f, f.len)[k].frame = f /\ Upto(f, f.len)[k].pos = k
    BY <1>1, UptoIs
  <2>. QED  BY <2>1, <2>2
<1>3. ASSUME NEW k \in 1 .. Len(s)
      PROVE  IF s[k].pos = 1 THEN k = 1 \/ s[k - 1].pos = s[k - 1].frame.len
                             ELSE k > 1 /\ s[k - 1] = [s[k] EXCEPT !.pos = @ - 1]
  <2>1. s[k].pos = k /\ s[k].frame = f /\ s[k] \in Bytes
    BY <1>2, <1>3
  <2>2. CASE k = 1
    BY <2>1, <2>2
  <2>3. CASE k > 1
    <3>1. k - 1 \in 1 .. f.len
      BY <1>1, <1>2, <2>3
    <3>2. s[k - 1].pos = k - 1 /\ s[k - 1].frame = f /\ s[k - 1] \in Bytes
      BY <1>2, <3>1
    <3>3. \A b \in [frame : Frames, pos : 1 .. MaxPacket] :
             b = [frame |-> b.frame, pos |-> b.pos]
      OBVIOUS
    <3>4. \A b \in Bytes : b = [frame |-> b.frame, pos |-> b.pos]
      BY <3>3 DEF Bytes
    <3>5. s[k] = [frame |-> f, pos |-> k] /\ s[k - 1] = [frame |-> f, pos |-> k - 1]
      BY <2>1, <3>2, <3>4
    <3>6. [s[k] EXCEPT !.pos = @ - 1] = [frame |-> f, pos |-> k - 1]
      BY <3>5
    <3>. QED  BY <2>1, <2>3, <3>5, <3>6
  <2>. QED  BY <1>1, <1>2, <2>2, <2>3
<1>4. IsLast(s[Len(s)])
  BY <1>1, <1>2 DEF IsLast
<1>5. ChecksumOK(s)
  BY <1>3, <1>4 DEF ChecksumOK
<1>. QED  BY <1>1, <1>2, <1>5 DEF Posted, HasAll, MinPacket

\* One with a byte more is not.
LEMMA OneMoreIsNotPosted ==
  ASSUME MarksInv, NEW f \in Frames, NEW p \in 0 .. f.len, p # 0, HasOneMore(f, p)
  PROVE  ~Posted
<1>1. PICK b \in Bytes : b.pos = 1 /\ rx = <<b>> \o Upto(f, p)
  BY DEF HasOneMore
<1>2. PICK u \in Seq(Bytes) :
        u = Upto(f, p) /\ Len(u) = p /\ (\A k \in 1 .. p : u[k].pos = k) /\ p \in Nat
  BY UptoIs
<1>3. PICK s \in Seq(Bytes) :
        s = rx /\ Len(s) = p + 1 /\ s[1] = b /\ \A k \in 1 .. p : s[k + 1] = u[k]
  <2>1. /\ <<b>> \o u \in Seq(Bytes) /\ Len(<<b>> \o u) = p + 1
        /\ (<<b>> \o u)[1] = b
        /\ \A k \in 1 .. p : (<<b>> \o u)[k + 1] = u[k]
    BY <1>2, OneMore
  <2>. QED  BY <1>1, <1>2, <2>1
<1>4. 1 \in 1 .. p /\ 2 \in 1 .. Len(s) /\ 1 + 1 = 2 /\ 2 - 1 = 1
  BY <1>2, <1>3
<1>5. s[2].pos = 1
  BY <1>2, <1>3, <1>4
<1>6. ~(s[1].pos = s[1].frame.len)
  BY <1>1, <1>3, FirstByteEnds DEF IsLast
<1>7. ~ChecksumOK(s)
  <2>1. ~(IF s[2].pos = 1 THEN 2 = 1 \/ s[2 - 1].pos = s[2 - 1].frame.len
                          ELSE 2 > 1 /\ s[2 - 1] = [s[2] EXCEPT !.pos = @ - 1])
    BY <1>4, <1>5, <1>6
  <2>. QED  BY <1>4, <2>1 DEF ChecksumOK
<1>. QED  BY <1>3, <1>7 DEF Posted
-----------------------------------------------------------------------------
\* A receiver with nothing starts over.
LEMMA StartsOver ==
  ASSUME NEW f \in Frames, g_rxPacket', (dr = NULL)', (rx = <<>>)', rxOn',
         rxIrq' => g_sendState' = "PAUSED" /\ ~flank'
  PROVE  ReceiverAt(f, 0)'
<1>1. Upto(f, 0) = <<>>
  <2>1. f.len \in Nat
    BY FrameLength
  <2>2. 0 \in 0 .. f.len
    BY <2>1
  <2>3. Upto(f, 0) \in Seq(Bytes) /\ Len(Upto(f, 0)) = 0
    BY <2>2, UptoIs
  <2>. QED  BY <2>3, EmptySeq
<1>2. HasAll(f, 0)'
  BY <1>1 DEF HasAll
<1>. QED  BY <1>2 DEF ReceiverAt

\* What the receiver has, when it has nothing, or the first byte of a frame.
LEMMA HasLittle ==
  ASSUME MarksInv'
  PROVE  /\ (dr = NULL)' /\ (rx = <<>>)' => FramesEnding[Received'] = <<>>
         /\ \A b \in Bytes : b.pos = 1 /\ (dr = NULL)' /\ rx' = <<b>> =>
              FramesEnding[Received'] = <<>>
<1>1. (dr = NULL)' => Received' = rx'
  <2>1. rx' \in Seq(Bytes)
    BY DEF MarksInv, IInv, TypeOK
  <2>2. rx' \o <<>> = rx'
    BY <2>1, ConcatEmptySeq
  <2>. QED  BY <2>2 DEF Received
<1>. QED  BY <1>1, NothingEnds, FirstByteEnds

\* onRxSigFlank: it stops the DMA, or takes note that there was no frame to be had.
LEMMA RxSigFlankAt ==
  ASSUME MarksInv, MarksInv', NEW f \in Frames, NEW p \in 0 .. f.len,
         SenderAt(f, p), ReceiverAt(f, p), RxSigFlank
  PROVE  /\ \E q \in 0 .. f.len : SenderAt(f, q)' /\ ReceiverAt(f, q)'
         /\ Keeps \/ Takes(f)
<1>1. /\ flank /\ flank' = FALSE
      /\ UNCHANGED <<g_txFifo, stops, g_currentTransmissionCount, moved, frame, next, pc,
                     g_sendState>>
  BY DEF RxSigFlank, dmaVars, mainVars
<1>2. Ended /\ p = f.len /\ g_sendState = "PAUSED"
  BY <1>1 DEF Ended, SenderAt
<1>3. p # 0 /\ 0 \in 0 .. f.len /\ f.len \in 0 .. f.len
  BY <1>2, UptoIs
<1>4. /\ (Ended' <=> Ended) => SenderAt(f, p)'
      /\ Ended /\ ~Ended' => SenderAt(f, 0)'
  BY <1>1, EndServed
<1>5. CASE rxOn
  <2>1. /\ rxOn' = FALSE /\ rxIrq' = TRUE
        /\ UNCHANGED <<g_rxPacket, rx, dr, overrun, delivered, excused>>
    BY <1>5 DEF RxSigFlank
  <2>2. SenderAt(f, p)'
    BY <1>1, <1>2, <1>4, <2>1 DEF Ended
  <2>3. ~HasNone(f, p)
    BY <1>5 DEF HasNone
  <2>4. ReceiverAt(f, p)'
    <3>1. CASE HasAll(f, p)
      BY <1>1, <1>2, <2>1, <3>1 DEF ReceiverAt, HasAll
    <3>2. CASE HasOneMore(f, p)
      BY <1>1, <1>2, <2>1, <3>2 DEF ReceiverAt, HasOneMore
    <3>3. CASE HasGivenUp(f, p)
      BY <1>1, <1>2, <2>1, <3>3 DEF ReceiverAt, HasGivenUp
    <3>. QED  BY <2>3, <3>1, <3>2, <3>3 DEF ReceiverAt
  <2>5. Keeps
    BY <2>1 DEF Keeps, Received
  <2>. QED  BY <2>2, <2>4, <2>5
<1>6. CASE ~rxOn
  <2>1. ProcessPacket /\ rxIrq' = rxIrq
    BY <1>6 DEF RxSigFlank
  <2>2. ~HasAll(f, p) /\ ~HasGivenUp(f, p)
    BY <1>1, <1>6 DEF HasAll, HasGivenUp
  <2>3. CASE HasOneMore(f, p)
    <3>1. ~Posted
      BY <1>3, <2>3, OneMoreIsNotPosted
    <3>2. g_rxPacket' /\ dr' = NULL /\ rx' = <<>> /\ rxOn' /\ delivered' = delivered
      BY <1>6, <2>1, <2>3, <3>1, NotPosted DEF HasOneMore
    <3>3. SenderAt(f, 0)'
      BY <1>1, <1>2, <1>4, <3>2 DEF Ended
    <3>4. ReceiverAt(f, 0)'
      BY <1>1, <1>2, <3>2, StartsOver
    <3>5. FramesEnding[Received] = <<f>> /\ FramesEnding[Received'] = <<>>
      BY <1>2, <2>3, <3>2, ReceivedEnds, HasLittle
    <3>6. Takes(f)
      BY <2>3, <3>2, <3>5 DEF Takes, HasOneMore
    <3>. QED  BY <1>3, <3>3, <3>4, <3>6
  <2>4. CASE HasNone(f, p)
    <3>1. /\ ~Posted /\ ~g_rxPacket /\ rx = <<>> /\ ~rxIrq
          /\ dr # NULL /\ dr.pos = 1 /\ dr \in Bytes
      BY <1>3, <2>4, ReceiverTypes DEF Posted, HasNone
    <3>2. excused' /\ delivered' = delivered /\ g_rxPacket' \in BOOLEAN
      BY <2>1, <3>1, NotPosted
    <3>3. IF g_rxPacket'
            THEN rx' = <<dr>> /\ rxOn' /\ dr' = NULL
            ELSE rx' = <<>> /\ ~rxOn' /\ dr' = dr
      BY <1>6, <2>1, <3>1, <3>2 DEF ProcessPacket
    <3>4. SenderAt(f, 0)'
      BY <1>1, <1>2, <1>4, <2>1, <3>1 DEF Ended
    <3>5. FramesEnding[Received] = <<>>
      BY <2>4, ReceivedEnds
    <3>6. CASE g_rxPacket'
      <4>1. <<dr>> \in Seq(Bytes) /\ Upto(f, 0) \in Seq(Bytes) /\ Len(Upto(f, 0)) = 0
        BY <1>3, <3>1, UptoIs
      <4>2. <<dr>> \o <<>> = <<dr>> /\ Upto(f, 0) = <<>>
        BY <4>1, ConcatEmptySeq, EmptySeq
      <4>3. HasOneMore(f, 0)'
        BY <2>1, <3>1, <3>2, <3>3, <3>6, <4>2 DEF HasOneMore
      <4>4. FramesEnding[Received'] = <<>>
        BY <3>1, <3>3, <3>6, HasLittle
      <4>. QED  BY <1>3, <3>2, <3>4, <3>5, <4>3, <4>4 DEF ReceiverAt, Keeps
    <3>7. CASE ~g_rxPacket'
      <4>1. HasNone(f, 0)'
        BY <2>1, <3>1, <3>2, <3>3, <3>7 DEF HasNone
      <4>2. Received' = Received
        BY <3>1, <3>3, <3>7 DEF Received
      <4>. QED  BY <1>3, <3>2, <3>4, <4>1, <4>2 DEF ReceiverAt, Keeps
    <3>. QED  BY <3>6, <3>7
  <2>. QED  BY <2>2, <2>3, <2>4 DEF ReceiverAt
<1>. QED  BY <1>5, <1>6
-----------------------------------------------------------------------------
\* dma1_stream5_isr: the packet in the buffer is posted, or not.
LEMMA RxCompleteAt ==
  ASSUME MarksInv, MarksInv', NEW f \in Frames, NEW p \in 0 .. f.len,
         SenderAt(f, p), ReceiverAt(f, p), RxComplete
  PROVE  /\ \E q \in 0 .. f.len : SenderAt(f, q)' /\ ReceiverAt(f, q)'
         /\ Keeps \/ Takes(f)
<1>1. /\ rxIrq /\ rxIrq' = FALSE /\ flank' = flank /\ ProcessPacket
      /\ UNCHANGED <<g_txFifo, stops, g_currentTransmissionCount, moved, frame, next, pc,
                     g_sendState>>
  BY DEF RxComplete, dmaVars, mainVars
<1>2. 0 \in 0 .. f.len /\ f.len \in 0 .. f.len /\ f.len # 0 /\ p \in Nat
  BY UptoIs
<1>3. /\ (Ended' <=> Ended) => SenderAt(f, p)'
      /\ Ended /\ ~Ended' => SenderAt(f, 0)' /\ p = f.len
  BY <1>1, EndServed
<1>4. Ended' <=> flank
  BY <1>1 DEF Ended
<1>5. ~HasNone(f, p)
  BY <1>1 DEF HasNone
<1>6. CASE HasAll(f, p) /\ rxOn
  <2>1. p = 0 /\ ~flank /\ g_sendState = "PAUSED" /\ dr = NULL /\ g_rxPacket
    BY <1>1, <1>6 DEF HasAll
  <2>2. rx = <<>>
    <3>1. Upto(f, p) \in Seq(Bytes) /\ Len(Upto(f, p)) = 0
      BY <2>1, UptoIs
    <3>. QED  BY <1>6, <3>1, EmptySeq DEF HasAll
  <2>3. ~Posted
    BY <2>2 DEF Posted, MinPacket
  <2>4. g_rxPacket' /\ dr' = NULL /\ rx' = rx /\ rxOn' /\ delivered' = delivered
    BY <1>1, <1>6, <2>1, <2>3, NotPosted
  <2>5. SenderAt(f, p)'
    BY <1>3, <1>4, <1>6, <2>1 DEF Ended
  <2>6. ReceiverAt(f, 0)'
    BY <1>1, <2>2, <2>4, StartsOver
  <2>7. Keeps
    BY <2>1, <2>4 DEF Keeps, Received
  <2>. QED  BY <1>2, <2>1, <2>5, <2>6, <2>7
<1>7. CASE HasAll(f, p) /\ ~rxOn
  <2>1. /\ p = f.len /\ ~flank /\ g_sendState = "PAUSED" /\ dr = NULL /\ g_rxPacket
        /\ rx = Upto(f, f.len)
    BY <1>1, <1>7 DEF HasAll
  <2>2. Posted
    BY <1>7, <2>1, WholeIsPosted
  <2>3. SenderAt(f, 0)'
    BY <1>1, <1>3, <1>4, <1>7, <2>1 DEF Ended
  <2>4. /\ delivered' = rx \/ (delivered' = delivered /\ excused')
        /\ dr' = NULL /\ rx' = <<>> /\ (g_rxPacket' => rxOn')
        /\ ~g_rxPacket' => excused' /\ ~rxOn'
        /\ g_rxPacket' \in BOOLEAN
    <3>1. /\ delivered' \in {rx, delivered}
          /\ g_rxPacket' \in (IF delivered' = rx THEN BOOLEAN ELSE {TRUE})
          /\ excused' = (~g_rxPacket \/ ~g_rxPacket' \/ (Posted /\ delivered' # rx))
      BY <1>1, <2>2 DEF ProcessPacket
    <3>2. PICK kept : /\ kept = NULL
                      /\ IF g_rxPacket' /\ ~rxOn
                           THEN /\ rx' = IF kept = NULL THEN <<>> ELSE <<kept>>
                                /\ rxOn' = TRUE
                                /\ dr' = NULL
                           ELSE /\ rx' = IF rxOn THEN rx ELSE <<>>
                                /\ dr' = kept
                                /\ UNCHANGED rxOn
      BY <1>1, <2>1 DEF ProcessPacket
    <3>. QED  BY <1>7, <2>1, <2>2, <3>1, <3>2
  <2>5. FramesEnding[Received] = <<f>> /\ FramesEnding[Received'] = <<>>
    BY <1>7, <2>1, <2>4, ReceivedEnds, HasLittle
  <2>6. Takes(f)
    BY <2>1, <2>4, <2>5 DEF Takes
  <2>7. ReceiverAt(f, 0)'
    <3>1. CASE g_rxPacket'
      BY <1>1, <2>4, <3>1, StartsOver
    <3>2. CASE ~g_rxPacket'
      <4>1. HasNone(f, 0)'
        BY <1>1, <2>4, <3>2 DEF HasNone
      <4>. QED  BY <4>1 DEF ReceiverAt
    <3>. QED  BY <3>1, <3>2
  <2>. QED  BY <1>2, <2>3, <2>6, <2>7
<1>8. CASE HasOneMore(f, p)
  <2>1. ~rxOn /\ p = f.len /\ dr = NULL /\ g_rxPacket /\ excused
    BY <1>1, <1>8, ReceiverTypes DEF HasOneMore
  <2>2. ~Posted
    BY <1>2, <1>8, <2>1, OneMoreIsNotPosted
  <2>3. g_rxPacket' /\ dr' = NULL /\ rx' = <<>> /\ rxOn' /\ delivered' = delivered
    BY <1>1, <2>1, <2>2, NotPosted
  <2>4. FramesEnding[Received] = <<f>> /\ FramesEnding[Received'] = <<>>
    BY <1>8, <2>1, <2>3, ReceivedEnds, HasLittle
  <2>5. Takes(f)
    BY <2>1, <2>3, <2>4 DEF Takes
  <2>6. CASE g_sendState = "PAUSED" /\ ~flank
    <3>1. SenderAt(f, 0)'
      BY <1>1, <1>3, <1>4, <2>1, <2>6 DEF Ended
    <3>2. ReceiverAt(f, 0)'
      BY <1>1, <2>3, StartsOver
    <3>. QED  BY <1>2, <2>5, <3>1, <3>2
  <2>7. CASE ~(g_sendState = "PAUSED" /\ ~flank)
    <3>1. SenderAt(f, p)'
      BY <1>1, <1>3, <1>4, <2>1, <2>7 DEF Ended
    <3>2. HasGivenUp(f, p)'
      BY <1>1, <2>1, <2>3 DEF HasGivenUp
    <3>. QED  BY <2>5, <3>1, <3>2 DEF ReceiverAt
  <2>. QED  BY <2>6, <2>7
<1>9. CASE HasGivenUp(f, p)
  <2>1. /\ ~rxOn /\ p = f.len /\ dr = NULL /\ g_rxPacket /\ rx = <<>>
        /\ g_sendState = "PAUSED" /\ ~flank
    BY <1>1, <1>9, ReceiverTypes DEF HasGivenUp
  <2>2. ~Posted
    BY <2>1 DEF Posted, MinPacket
  <2>3. g_rxPacket' /\ dr' = NULL /\ rx' = <<>> /\ rxOn' /\ delivered' = delivered
    BY <1>1, <2>1, <2>2, NotPosted
  <2>4. SenderAt(f, 0)'
    BY <1>1, <1>3, <1>4, <2>1 DEF Ended
  <2>5. ReceiverAt(f, 0)'
    BY <1>1, <2>3, StartsOver
  <2>6. Keeps
    BY <2>1, <2>3 DEF Keeps, Received
  <2>. QED  BY <1>2, <2>4, <2>5, <2>6
<1>. QED  BY <1>5, <1>6, <1>7, <1>8, <1>9 DEF ReceiverAt
-----------------------------------------------------------------------------
\* A byte is appended to those the receiver has.
LEMMA ByteIsAppended ==
  ASSUME MarksInv, NEW b \in Bytes, UNCHANGED <<g_rxPacket, dr, excused, delivered>>,
         dr = NULL, rx' = Append(rx, b)
  PROVE  Received' = Received \o <<b>>
<1>1. rx \in Seq(Bytes) /\ Received = rx
  BY ReceiverTypes
<1>2. rx' = rx \o <<b>>
  BY <1>1, AppendIsConcat, Zenon
<1>3. PICK s \in Seq(Bytes) : s = rx'
  <2>1. rx' \in Seq(Bytes)
    BY <1>1, AppendProperties, Zenon
  <2>. QED  BY <2>1
<1>4. Received' = s \o <<>>
  BY <1>3 DEF Received
<1>5. s \o <<>> = s
  BY ConcatEmptySeq
<1>. QED  BY <1>1, <1>2, <1>3, <1>4, <1>5

\* A byte arrives, or is lost in the register while the receiver has no buffer.
LEMMA MoveByteReceiverAt ==
  ASSUME MarksInv, FramesFit, PacketsFit, NEW f \in Frames, NEW p \in 0 .. f.len,
         SenderAt(f, p), ReceiverAt(f, p), MoveByte,
         NEW b \in Bytes, b = Peek(g_txFifo, moved)
  PROVE  /\ ReceiverAt(b.frame, p + 1)'
         /\ b.frame \in Frames /\ p + 1 \in 0 .. b.frame.len
         /\ \/ Received' = Received \o <<b>>
            \/ Received' = Received /\ excused /\ FramesEnding[Received] = <<>>
<1>1. /\ moved < g_currentTransmissionCount
      /\ UNCHANGED <<g_sendState, flank, g_rxPacket, delivered, excused>>
  BY DEF MoveByte, DMAEnabled
<1>2. /\ p < f.len /\ p \in Nat /\ f.len \in Nat /\ b.pos = p + 1 /\ (p # 0 => b.frame = f)
      /\ g_sendState = "IDLE" /\ ~flank
      /\ g_txFifo.data[g_txFifo.start + moved] = b
  BY <1>1, ByteToMove
<1>3. IF rxOn
        THEN /\ rx' = Append(rx, b)
             /\ rxOn' = (Len(rx) + 1 < MaxPacket)
             /\ rxIrq' = (rxIrq \/ Len(rx) + 1 = MaxPacket)
             /\ UNCHANGED <<dr, overrun>>
        ELSE /\ dr' = IF dr = NULL THEN b ELSE dr
             /\ UNCHANGED <<rx, rxOn, rxIrq>>
  BY <1>2 DEF MoveByte
<1>4. PICK g \in Frames, l \in Nat : /\ g = b.frame /\ l = g.len /\ p + 1 \in 0 .. l
                                     /\ l < MaxPacket
                                     /\ Append(Upto(f, p), b) = Upto(g, p + 1)
  <2>1. /\ b.frame \in Frames /\ p + 1 \in 0 .. b.frame.len
        /\ Append(Upto(f, p), b) = Upto(b.frame, p + 1)
    BY <1>2, UptoAppend
  <2>2. b.frame.len \in Nat /\ b.frame.len < MaxPacket
    BY <2>1, FrameLength DEF PacketsFit, Frames
  <2>. QED  BY <2>1, <2>2
<1>5. MaxPacket \in Nat
  BY LinkAssumption
<1>6. PICK u \in Seq(Bytes) : u = Upto(f, p) /\ Len(u) = p
  BY UptoIs
<1>7. CASE HasAll(f, p)
  <2>1. rxOn /\ ~rxIrq /\ dr = NULL /\ rx = u /\ g_rxPacket
    BY <1>2, <1>6, <1>7 DEF HasAll
  <2>2. rxOn' /\ rxIrq' = rxIrq /\ rx' = Upto(g, p + 1) /\ dr' = dr
    <3>1. Len(rx) + 1 < MaxPacket /\ Len(rx) + 1 # MaxPacket
      BY <1>2, <1>4, <1>5, <1>6, <2>1
    <3>2. rxOn' = TRUE /\ rxIrq' = (rxIrq \/ FALSE)
      BY <1>3, <2>1, <3>1
    <3>. QED  BY <1>3, <1>4, <1>6, <2>1, <3>2, ReceiverTypes
  <2>3. HasAll(g, p + 1)'
    BY <1>1, <2>1, <2>2 DEF HasAll
  <2>4. Received' = Received \o <<b>>
    BY <1>1, <1>3, <2>1, <2>2, ByteIsAppended
  <2>. QED  BY <1>4, <2>3, <2>4 DEF ReceiverAt
<1>8. CASE HasOneMore(f, p)
  <2>1. rxOn /\ ~rxIrq /\ dr = NULL /\ g_rxPacket /\ excused
    BY <1>2, <1>8, ReceiverTypes DEF HasOneMore
  <2>2. PICK c \in Bytes : c.pos = 1 /\ rx = <<c>> \o u
    BY <1>6, <1>8 DEF HasOneMore
  <2>3. <<c>> \in Seq(Bytes)
    OBVIOUS
  <2>4. <<c>> \o u \in Seq(Bytes) /\ Len(<<c>> \o u) = p + 1
    BY <1>2, <1>6, OneMore
  <2>5. rx' = <<c>> \o Upto(g, p + 1)
    <3>1. rx' = Append(<<c>> \o u, b)
      BY <1>3, <2>1, <2>2
    <3>2. Append(<<c>> \o u, b) = (<<c>> \o u) \o <<b>>
      BY <2>4, AppendIsConcat, Zenon
    <3>3. (<<c>> \o u) \o <<b>> = <<c>> \o (u \o <<b>>)
      <4>1. <<b>> \in Seq(Bytes)
        OBVIOUS
      <4>2. \A r, s, t \in Seq(Bytes) : (r \o s) \o t = r \o (s \o t)
        BY ConcatAssociative
      <4>. QED  BY <1>6, <2>3, <4>1, <4>2, Zenon
    <3>4. u \o <<b>> = Append(u, b)
      BY <1>6, AppendIsConcat, Zenon
    <3>. QED  BY <1>4, <1>6, <3>1, <3>2, <3>3, <3>4
  <2>6. /\ rxOn' = (p + 1 + 1 < MaxPacket)
        /\ rxIrq' = (rxIrq \/ p + 1 + 1 = MaxPacket) /\ dr' = NULL
    BY <1>3, <2>1, <2>2, <2>4
  <2>7. HasOneMore(g, p + 1)'
    <3>1. CASE p + 1 + 1 < MaxPacket
      <4>1. rxOn' /\ ~rxIrq'
        <5>1. ~(p + 1 + 1 = MaxPacket)
          BY <1>2, <1>5, <3>1
        <5>2. rxOn' = TRUE /\ rxIrq' = (rxIrq \/ FALSE)
          BY <2>6, <3>1, <5>1
        <5>. QED  BY <2>1, <5>2
      <4>. QED  BY <1>1, <2>1, <2>2, <2>5, <2>6, <4>1 DEF HasOneMore
    <3>2. CASE ~(p + 1 + 1 < MaxPacket)
      <4>1. p + 1 + 1 = MaxPacket /\ p + 1 = l
        BY <1>2, <1>4, <1>5, <3>2
      <4>2. ~rxOn' /\ rxIrq'
        BY <2>6, <3>2, <4>1
      <4>. QED  BY <1>1, <1>4, <2>1, <2>2, <2>5, <2>6, <4>1, <4>2 DEF HasOneMore
    <3>. QED  BY <3>1, <3>2
  <2>8. Received' = Received \o <<b>>
    BY <1>1, <1>3, <2>1, <2>6, ByteIsAppended
  <2>. QED  BY <1>4, <2>7, <2>8 DEF ReceiverAt
<1>9. CASE HasNone(f, p)
  <2>1. ~g_rxPacket /\ excused /\ rx = <<>> /\ ~rxOn /\ ~rxIrq
    BY <1>9 DEF HasNone
  <2>2. UNCHANGED <<rx, rxOn, rxIrq>> /\ dr' = IF dr = NULL THEN b ELSE dr
    BY <1>3, <2>1
  <2>3. dr \in Bytes \cup {NULL} /\ b # NULL
    BY ReceiverTypes
  <2>4. dr' # NULL /\ dr'.pos = 1
    BY <1>2, <1>9, <2>2, <2>3 DEF HasNone
  <2>5. HasNone(g, p + 1)'
    BY <1>1, <2>1, <2>2, <2>4 DEF HasNone
  <2>6. CASE dr = NULL
    <3>1. Received = <<>>
      BY <2>1, <2>6, ReceiverTypes
    <3>2. Received' = <<>> \o <<b>>
      BY <2>1, <2>2, <2>3, <2>6 DEF Received
    <3>. QED  BY <1>4, <2>5, <3>1, <3>2 DEF ReceiverAt
  <2>7. CASE dr # NULL
    <3>1. Received' = Received
      BY <2>2, <2>7 DEF Received
    <3>2. FramesEnding[Received] = <<>>
      BY <1>9, ReceivedEnds
    <3>. QED  BY <1>4, <2>1, <2>5, <3>1, <3>2 DEF ReceiverAt
  <2>. QED  BY <2>6, <2>7
<1>10. ~HasGivenUp(f, p)
  BY <1>2 DEF HasGivenUp
<1>. QED  BY <1>7, <1>8, <1>9, <1>10 DEF ReceiverAt
-----------------------------------------------------------------------------
(***************************************************************************)
(* The frames in flight.                                                   *)
(***************************************************************************)

\* The bytes in a ring, from the k-th on.
From(f, k) == SubSeq(Contents(f), k + 1, f.count)

Rings == {f \in Fifos(Bytes \cup {NULL}) : \A k \in 0 .. f.count - 1 : Peek(f, k) \in Bytes}

LEMMA FromIs ==
  ASSUME NEW f \in Rings, NEW k \in 0 .. f.count
  PROVE  /\ From(f, k) \in Seq(Bytes) /\ Len(From(f, k)) = f.count - k
         /\ \A i \in 1 .. f.count - k : From(f, k)[i] = Peek(f, k + i - 1)
<1>1. PICK c \in Nat, n \in Nat : c = f.count /\ n = k /\ n <= c /\ n + 1 \in Int
  BY ContentsType DEF Rings
<1>2. PICK s : s = Contents(f) /\ \A i \in 1 .. c : s[i] = Peek(f, i - 1)
  BY <1>1, ContentsType DEF Rings
<1>3. \A i \in n + 1 .. c : s[i] \in Bytes
  <2>1. \A i \in n + 1 .. c : i \in 1 .. c /\ i - 1 \in 0 .. c - 1
    BY <1>1
  <2>2. \A i \in 0 .. c - 1 : Peek(f, i) \in Bytes
    BY <1>1 DEF Rings
  <2>. QED  BY <1>2, <2>1, <2>2
<1>4. /\ SubSeq(s, n + 1, c) \in Seq(Bytes)
      /\ Len(SubSeq(s, n + 1, c)) = IF n + 1 <= c THEN c - (n + 1) + 1 ELSE 0
      /\ \A i \in 1 .. c - (n + 1) + 1 : SubSeq(s, n + 1, c)[i] = s[(n + 1) + i - 1]
  BY <1>1, <1>3, SubSeqProperties
<1>5. From(f, k) = SubSeq(s, n + 1, c)
  BY <1>1, <1>2 DEF From
<1>6. ASSUME NEW i \in 1 .. c - n
      PROVE  SubSeq(s, n + 1, c)[i] = Peek(f, n + i - 1)
  <2>1. i \in 1 .. c - (n + 1) + 1 /\ (n + 1) + i - 1 \in 1 .. c
        /\ (n + 1) + i - 1 - 1 = n + i - 1
    BY <1>1
  <2>. QED  BY <1>2, <1>4, <2>1
<1>7. Len(SubSeq(s, n + 1, c)) = c - n
  BY <1>1, <1>4
<1>. QED  BY <1>1, <1>4, <1>5, <1>6, <1>7

\* A byte is put into the ring.
LEMMA FromPut ==
  ASSUME NEW f \in Rings, NEW g \in Rings, NEW k \in 0 .. f.count, NEW b \in Bytes,
         g.count = f.count + 1, \A i \in 0 .. f.count - 1 : Peek(g, i) = Peek(f, i),
         Peek(g, f.count) = b
  PROVE  From(g, k) = From(f, k) \o <<b>>
<1>1. PICK c \in Nat, n \in Nat : c = f.count /\ n = k /\ n <= c /\ k \in 0 .. g.count
  BY ContentsType DEF Rings
<1>2. PICK s \in Seq(Bytes) :
        /\ s = From(f, k) /\ Len(s) = c - n /\ \A i \in 1 .. c - n : s[i] = Peek(f, n + i - 1)
  BY <1>1, FromIs
<1>3. PICK t \in Seq(Bytes) :
        /\ t = From(g, k) /\ Len(t) = c + 1 - n
        /\ \A i \in 1 .. c + 1 - n : t[i] = Peek(g, n + i - 1)
  BY <1>1, FromIs
<1>4. PICK u \in Seq(Bytes) :
        /\ u = Append(s, b) /\ Len(u) = Len(s) + 1
        /\ \A i \in 1 .. Len(s) : u[i] = s[i]
        /\ u[Len(s) + 1] = b
  <2>1. /\ Append(s, b) \in Seq(Bytes) /\ Append(s, b) # <<>>
        /\ Len(Append(s, b)) = Len(s) + 1
        /\ \A i \in 1 .. Len(s) : Append(s, b)[i] = s[i]
        /\ Append(s, b)[Len(s) + 1] = b
    BY AppendProperties
  <2>. QED  BY <2>1
<1>5. ASSUME NEW i \in 1 .. c + 1 - n
      PROVE  t[i] = u[i]
  <2>1. CASE i \in 1 .. c - n
    <3>1. n + i - 1 \in 0 .. c - 1
      BY <1>1, <2>1
    <3>. QED  BY <1>1, <1>2, <1>3, <1>4, <2>1, <3>1
  <2>2. CASE i = c - n + 1
    <3>1. n + i - 1 = c /\ c - n + 1 \in 1 .. c + 1 - n
      BY <1>1, <2>2
    <3>2. i = Len(s) + 1
      BY <1>2, <2>2
    <3>. QED  BY <1>1, <1>3, <1>4, <3>1, <3>2
  <2>. QED  BY <1>1, <2>1, <2>2
<1>6. t = u
  <2>1. Len(t) = Len(u)
    BY <1>1, <1>2, <1>3, <1>4
  <2>2. \A i \in 1 .. Len(t) : t[i] = u[i]
    BY <1>3, <1>5
  <2>. QED  BY <2>1, <2>2, SeqEqual
<1>7. u = s \o <<b>>
  BY <1>4, AppendIsConcat
<1>. QED  BY <1>2, <1>3, <1>6, <1>7

\* The next byte in the ring.
LEMMA FromNext ==
  ASSUME NEW f \in Rings, NEW k \in 0 .. f.count - 1
  PROVE  From(f, k) = <<Peek(f, k)>> \o From(f, k + 1) /\ Peek(f, k) \in Bytes
<1>1. PICK c \in Nat, n \in Nat :
        c = f.count /\ n = k /\ n < c /\ k \in 0 .. f.count /\ k + 1 \in 0 .. f.count
  BY ContentsType DEF Rings
<1>2. PICK b \in Bytes : b = Peek(f, k)
  BY DEF Rings
<1>3. PICK s \in Seq(Bytes) :
        /\ s = From(f, k) /\ Len(s) = c - n /\ \A i \in 1 .. c - n : s[i] = Peek(f, n + i - 1)
  BY <1>1, FromIs
<1>4. PICK t \in Seq(Bytes) :
        /\ t = From(f, k + 1) /\ Len(t) = c - (n + 1)
        /\ \A i \in 1 .. c - (n + 1) : t[i] = Peek(f, (n + 1) + i - 1)
  BY <1>1, FromIs
<1>5. PICK u \in Seq(Bytes) :
        /\ u = <<b>> \o t /\ Len(u) = c - n
        /\ u[1] = b /\ \A i \in 1 .. c - (n + 1) : u[i + 1] = t[i]
  <2>1. /\ <<b>> \o t \in Seq(Bytes) /\ Len(<<b>> \o t) = c - (n + 1) + 1
        /\ (<<b>> \o t)[1] = b
        /\ \A i \in 1 .. c - (n + 1) : (<<b>> \o t)[i + 1] = t[i]
    <3>1. c - (n + 1) \in Nat
      BY <1>1
    <3>. QED  BY <1>4, <3>1, OneMore
  <2>2. c - (n + 1) + 1 = c - n
    BY <1>1
  <2>. QED  BY <2>1, <2>2
<1>6. ASSUME NEW i \in 1 .. c - n
      PROVE  s[i] = u[i]
  <2>1. CASE i = 1
    <3>1. n + i - 1 = n
      BY <1>1, <2>1
    <3>. QED  BY <1>1, <1>2, <1>3, <1>5, <2>1, <3>1
  <2>2. CASE i > 1
    <3>1. PICK j \in Nat : j = i - 1
      BY <2>2
    <3>2. j \in 1 .. c - (n + 1) /\ i = j + 1 /\ n + i - 1 = (n + 1) + j - 1
      BY <1>1, <2>2, <3>1
    <3>. QED  BY <1>3, <1>4, <1>5, <3>2
  <2>. QED  BY <1>1, <2>1, <2>2
<1>7. s = u
  BY <1>3, <1>5, <1>6, SeqEqual
<1>. QED  BY <1>2, <1>3, <1>4, <1>5, <1>7

\* The block that was moved is taken out of the ring.
LEMMA FromDrained ==
  ASSUME NEW f \in Rings, NEW g \in Rings, NEW n \in 0 .. f.count, g.count = f.count - n,
         \A i \in 0 .. f.count - n : Peek(g, i) = Peek(f, n + i)
  PROVE  From(g, 0) = From(f, n)
<1>1. PICK c \in Nat, m \in Nat : c = f.count /\ m = n /\ m <= c /\ 0 \in 0 .. g.count
  BY ContentsType DEF Rings
<1>2. PICK s \in Seq(Bytes) :
        /\ s = From(f, n) /\ Len(s) = c - m /\ \A i \in 1 .. c - m : s[i] = Peek(f, m + i - 1)
  BY <1>1, FromIs
<1>3. PICK t \in Seq(Bytes) :
        /\ t = From(g, 0) /\ Len(t) = c - m - 0
        /\ \A i \in 1 .. c - m - 0 : t[i] = Peek(g, 0 + i - 1)
  BY <1>1, FromIs
<1>4. ASSUME NEW i \in 1 .. c - m
      PROVE  t[i] = s[i]
  <2>1. PICK j \in 0 .. c - m : j = i - 1 /\ 0 + i - 1 = j /\ m + i - 1 = m + j
        /\ i \in 1 .. c - m - 0
    BY <1>1
  <2>. QED  BY <1>1, <1>2, <1>3, <2>1
<1>5. t = s
  <2>1. Len(t) = Len(s) /\ Len(t) = c - m
    BY <1>1, <1>2, <1>3
  <2>2. \A i \in 1 .. Len(t) : t[i] = s[i]
    BY <1>4, <2>1
  <2>. QED  BY <2>1, <2>2, SeqEqual
<1>. QED  BY <1>2, <1>3, <1>5

\* The first of some frames.
LEMMA FirstOfSome ==
  ASSUME NEW x \in Frames, NEW s \in Seq(Frames)
  PROVE  /\ <<x>> \o s \in Seq(Frames) /\ <<x>> \o s # <<>>
         /\ Head(<<x>> \o s) = x /\ Tail(<<x>> \o s) = s
<1>1. PICK o \in Seq(Frames) : o = <<x>> /\ Len(o) = 1 /\ o[1] = x
  <2>1. <<x>> \in Seq(Frames) /\ Len(<<x>>) = 1 /\ <<x>>[1] = x
    OBVIOUS
  <2>. QED  BY <2>1
<1>2. PICK n \in Nat : n = Len(s)
  OBVIOUS
<1>3. PICK t \in Seq(Frames) :
        /\ t = o \o s /\ Len(t) = 1 + n
        /\ \A i \in 1 .. 1 + n : t[i] = IF i <= 1 THEN o[i] ELSE s[i - 1]
  <2>1. /\ o \o s \in Seq(Frames) /\ Len(o \o s) = Len(o) + Len(s)
        /\ \A i \in 1 .. Len(o) + Len(s) :
             (o \o s)[i] = IF i <= Len(o) THEN o[i] ELSE s[i - Len(o)]
    BY ConcatProperties, Zenon
  <2>2. /\ o \o s \in Seq(Frames) /\ Len(o \o s) = 1 + n
        /\ \A i \in 1 .. 1 + n : (o \o s)[i] = IF i <= 1 THEN o[i] ELSE s[i - 1]
    BY <1>1, <1>2, <2>1
  <2>. QED  BY <2>2
<1>4. t # <<>> /\ t[1] = x
  BY <1>1, <1>2, <1>3
<1>5. PICK r \in Seq(Frames) :
        r = Tail(t) /\ Len(r) = n /\ \A i \in 1 .. n : r[i] = t[i + 1]
  <2>1. /\ Tail(t) \in Seq(Frames) /\ Len(Tail(t)) = Len(t) - 1
        /\ \A i \in 1 .. Len(Tail(t)) : Tail(t)[i] = t[i + 1]
    BY <1>4, HeadTailProperties
  <2>2. PICK r \in Seq(Frames) :
          /\ r = Tail(t) /\ Len(r) = Len(t) - 1
          /\ \A i \in 1 .. Len(r) : r[i] = t[i + 1]
    BY <2>1
  <2>3. Len(r) = n
    BY <1>2, <1>3, <2>2
  <2>. QED  BY <2>2, <2>3
<1>6. \A i \in 1 .. n : r[i] = s[i]
  <2>1. \A i \in 1 .. n : i + 1 \in 1 .. 1 + n /\ ~(i + 1 <= 1) /\ i + 1 - 1 = i
    BY <1>2
  <2>. QED  BY <1>3, <1>5, <2>1
<1>7. r = s
  BY <1>2, <1>5, <1>6, SeqEqual
<1>8. Head(t) = t[1]
  BY <1>4
<1>. QED  BY <1>1, <1>3, <1>4, <1>5, <1>7, <1>8
-----------------------------------------------------------------------------
\* The frame that the main loop is sending.
Coming == IF next <= frame.len THEN <<frame>> ELSE <<>>

FlightParts ==
  /\ g_txFifo \in Rings /\ moved \in 0 .. g_txFifo.count
  /\ Received \in Seq(Bytes) /\ Coming \in Seq(Frames)
  /\ InFlight = (FramesEnding[Received] \o FramesEnding[From(g_txFifo, moved)]) \o Coming

\* The frames in flight are those with the receiver, those in the ring and that one.
LEMMA FlightHasParts == MarksInv => FlightParts
<1>. SUFFICES ASSUME MarksInv PROVE FlightParts
  OBVIOUS
<1>1. Received \in Seq(Bytes)
  BY ReceiverTypes
<1>2. g_txFifo \in Rings /\ moved \in 0 .. g_txFifo.count
  <2>1. g_txFifo \in Fifos(Bytes \cup {NULL}) /\ RingHoldsBytes
    BY DEF MarksInv, IInv, TypeOK
  <2>. QED  BY <2>1, LinkTypes DEF Rings, RingHoldsBytes
<1>3. Coming \in Seq(Frames)
  BY LinkTypes DEF Coming
<1>4. From(g_txFifo, moved) \in Seq(Bytes)
  BY <1>2, FromIs
<1>5. OnTheWay = Received \o From(g_txFifo, moved)
  BY DEF OnTheWay, Received, InRing, From
<1>6. FramesEnding[OnTheWay] = FramesEnding[Received] \o FramesEnding[From(g_txFifo, moved)]
  BY <1>1, <1>4, <1>5, FramesEndingConcat
<1>. QED  BY <1>1, <1>2, <1>3, <1>6 DEF FlightParts, InFlight, Coming

LEMMA FlightHasPartsNext == MarksInv' => FlightParts'
  BY FlightHasParts, PTL

\* Sequences of frames are put together in any order.
LEMMA FramesAssociate == \A u, v, w \in Seq(Frames) : (u \o v) \o w = u \o (v \o w)
  BY ConcatAssociative

LEMMA FramesConcat == \A u, v \in Seq(Frames) : u \o v \in Seq(Frames)
  BY ConcatProperties, Zenon

\* They are sequences of frames.
LEMMA FlightTypes ==
  ASSUME FlightParts
  PROVE  /\ FramesEnding[Received] \in Seq(Frames)
         /\ FramesEnding[From(g_txFifo, moved)] \in Seq(Frames)
         /\ From(g_txFifo, moved) \in Seq(Bytes)
         /\ FramesEnding[Received] \o FramesEnding[From(g_txFifo, moved)] \in Seq(Frames)
<1>1. From(g_txFifo, moved) \in Seq(Bytes)
  BY FromIs DEF FlightParts
<1>2. /\ FramesEnding[Received] \in Seq(Frames)
      /\ FramesEnding[From(g_txFifo, moved)] \in Seq(Frames)
  BY <1>1, FramesEndingType DEF FlightParts
<1>. QED  BY <1>1, <1>2, FramesConcat

\* A step that leaves the parts alone.
LEMMA FlightRests ==
  ASSUME MarksInv, MarksInv', FramesEnding[Received'] = FramesEnding[Received],
         From(g_txFifo', moved') = From(g_txFifo, moved), UNCHANGED <<frame, next>>
  PROVE  InFlight' = InFlight
<1>1. FlightParts /\ FlightParts'
  BY FlightHasParts, FlightHasPartsNext
<1>2. Coming' = Coming
  BY DEF Coming
<1>3. InFlight = (FramesEnding[Received] \o FramesEnding[From(g_txFifo, moved)]) \o Coming
  BY <1>1 DEF FlightParts
<1>4. InFlight' = (FramesEnding[Received'] \o FramesEnding[From(g_txFifo', moved')]) \o Coming'
  BY <1>1 DEF FlightParts
<1>. QED  BY <1>2, <1>3, <1>4

\* The main loop starts a frame: it is sent.
LEMMA FlightStarts ==
  ASSUME MarksInv, MarksInv', NEW g \in Frames, StartFrame(g)
  PROVE  InFlight' = Append(InFlight, g)
<1>1. FlightParts /\ FlightParts'
  BY FlightHasParts, FlightHasPartsNext
<1>2. PICK s \in Seq(Frames) :
        s = FramesEnding[Received] \o FramesEnding[From(g_txFifo, moved)]
  BY <1>1, FlightTypes
<1>3. Received' = Received /\ From(g_txFifo', moved') = From(g_txFifo, moved)
  BY DEF StartFrame, Received, rxVars, dmaVars
<1>4. Coming = <<>> /\ Coming' = <<g>>
  <2>1. next = frame.len + 1 /\ frame.len \in Nat /\ 1 <= g.len /\ g.len \in Nat
    BY LinkTypes, FrameLength DEF StartFrame, MarksInv, EndsAreLate, MinPacket
  <2>2. frame' = g /\ next' = 1
    BY DEF StartFrame
  <2>3. ~(next <= frame.len) /\ next' <= frame'.len
    BY <2>1, <2>2
  <2>. QED  BY <2>2, <2>3 DEF Coming
<1>5. InFlight = s \o <<>>
  BY <1>1, <1>2, <1>4 DEF FlightParts
<1>6. InFlight' = s \o <<g>>
  BY <1>1, <1>2, <1>3, <1>4 DEF FlightParts
<1>7. s \o <<>> = s /\ Append(s, g) = s \o <<g>>
  BY ConcatEmptySeq, AppendIsConcat
<1>. QED  BY <1>5, <1>6, <1>7

\* It puts a byte of it into the ring: it is still the youngest.
LEMMA FlightPut ==
  ASSUME MarksInv, MarksInv', PutByte
  PROVE  InFlight' = InFlight
<1>1. FlightParts /\ FlightParts'
  BY FlightHasParts, FlightHasPartsNext
<1>2. Received' = Received /\ frame' = frame /\ moved' = moved
  BY DEF PutByte, Received, rxVars, dmaVars
<1>3. CASE ~PutOkay(g_txFifo)
  <2>1. UNCHANGED <<g_txFifo, frame, next>>
    BY <1>3 DEF PutByte
  <2>. QED  BY <1>2, <2>1, FlightRests
<1>4. CASE PutOkay(g_txFifo)
  <2>1. PICK b \in Bytes : b = [frame |-> frame, pos |-> next]
    BY NextByte DEF MarksInv, PutByte
  <2>2. g_txFifo' = Put(g_txFifo, b) /\ next' = next + 1
    BY <1>4, <2>1 DEF PutByte
  <2>3. /\ g_txFifo'.count = g_txFifo.count + 1
        /\ \A k \in 0 .. g_txFifo.count - 1 : Peek(g_txFifo', k) = Peek(g_txFifo, k)
        /\ Peek(g_txFifo', g_txFifo.count) = b
    BY <1>4, <2>2, PutRing DEF MarksInv
  <2>4. PICK y \in Seq(Bytes) : y = From(g_txFifo, moved)
    BY <1>1, FlightTypes
  <2>5. From(g_txFifo', moved') = y \o <<b>>
    BY <1>1, <1>2, <2>3, <2>4, FromPut DEF FlightParts
  <2>6. <<b>> \in Seq(Bytes)
    OBVIOUS
  <2>7. FramesEnding[y \o <<b>>] = FramesEnding[y] \o FramesEnding[<<b>>]
    BY <2>6, FramesEndingConcat
  <2>8. PICK s \in Seq(Frames), t \in Seq(Frames) :
          s = FramesEnding[Received] /\ t = FramesEnding[y] /\ s \o t \in Seq(Frames)
    BY <1>1, <2>4, FlightTypes
  <2>9. InFlight = (s \o t) \o Coming
    BY <1>1, <2>4, <2>8 DEF FlightParts
  <2>10. InFlight' = (s \o (t \o FramesEnding[<<b>>])) \o Coming'
    BY <1>1, <1>2, <2>5, <2>7, <2>8 DEF FlightParts
  <2>11. frame \in Frames /\ next \in Nat \ {0} /\ next <= frame.len /\ frame.len \in Nat
    BY NextByte DEF MarksInv, PutByte
  <2>12. Coming = <<frame>> /\ <<frame>> \in Seq(Frames)
    BY <2>11 DEF Coming
  <2>13. CASE next = frame.len
    <3>1. FramesEnding[<<b>>] = <<frame>>
      <4>1. IsLast(b) /\ b.frame = frame
        BY <2>1, <2>13 DEF IsLast
      <4>2. PICK o \in Seq(Bytes), n \in Nat \ {0} : o = <<b>> /\ n = Len(o) /\ n = 1 /\ o[1] = b
        <5>1. Len(<<b>>) = 1 /\ <<b>>[1] = b /\ 1 \in Nat \ {0}
          OBVIOUS
        <5>. QED  BY <2>6, <5>1
      <4>3. IsLast(o[n]) /\ \A k \in 1 .. n - 1 : ~IsLast(o[k])
        BY <4>1, <4>2
      <4>4. FramesEnding[o] = <<o[n].frame>>
        BY <4>2, <4>3, OneFrameEnds
      <4>. QED  BY <4>1, <4>2, <4>4
    <3>2. Coming' = <<>>
      <4>1. ~(next' <= frame'.len)
        BY <1>2, <2>2, <2>11, <2>13
      <4>. QED  BY <4>1 DEF Coming
    <3>3. s \o (t \o <<frame>>) = (s \o t) \o <<frame>>
      <4>1. s \in Seq(Frames) /\ t \in Seq(Frames) /\ <<frame>> \in Seq(Frames)
        BY <2>12
      <4>. QED  BY <4>1, FramesAssociate, Zenon
    <3>4. ((s \o t) \o <<frame>>) \o <<>> = (s \o t) \o <<frame>>
      <4>1. (s \o t) \o <<frame>> \in Seq(Frames)
        BY <2>8, <2>12, FramesConcat, Zenon
      <4>. QED  BY <4>1, ConcatEmptySeq
    <3>. QED  BY <2>9, <2>10, <2>12, <3>1, <3>2, <3>3, <3>4
  <2>14. CASE next # frame.len
    <3>1. FramesEnding[<<b>>] = <<>>
      <4>1. ~IsLast(b)
        BY <2>1, <2>14 DEF IsLast
      <4>2. PICK o \in Seq(Bytes) : o = <<b>> /\ Len(o) = 1 /\ o[1] = b
        BY <2>6
      <4>3. \A k \in 1 .. Len(o) : ~IsLast(o[k])
        BY <4>1, <4>2
      <4>. QED  BY <4>2, <4>3, NoFrameEnds
    <3>2. Coming' = <<frame>>
      <4>1. next' <= frame'.len
        BY <1>2, <2>2, <2>11, <2>14
      <4>. QED  BY <1>2, <4>1 DEF Coming
    <3>3. t \o <<>> = t
      BY <2>8, ConcatEmptySeq
    <3>. QED  BY <2>9, <2>10, <2>12, <3>1, <3>2, <3>3
  <2>. QED  BY <2>13, <2>14
<1>. QED  BY <1>3, <1>4
-----------------------------------------------------------------------------
\* A byte is moved: it changes hands, or the last one of a lost frame is lost.
LEMMA FlightMoves ==
  ASSUME MarksInv, MarksInv', FramesFit, PacketsFit, NEW f \in Frames, NEW p \in 0 .. f.len,
         SenderAt(f, p), ReceiverAt(f, p), MoveByte
  PROVE  /\ InFlight' = InFlight \/ (excused /\ InFlight # <<>> /\ InFlight' = Tail(InFlight))
         /\ \E g \in Frames : \E q \in 0 .. g.len : SenderAt(g, q)' /\ ReceiverAt(g, q)'
<1>1. FlightParts /\ FlightParts'
  BY FlightHasParts, FlightHasPartsNext
<1>2. /\ moved < g_currentTransmissionCount /\ moved' = moved + 1
      /\ UNCHANGED <<g_txFifo, frame, next>>
  BY DEF MoveByte, DMAEnabled, mainVars
<1>3. PICK b \in Bytes : b = Peek(g_txFifo, moved)
  BY <1>2, ByteToMove
<1>4. /\ ReceiverAt(b.frame, p + 1)'
      /\ b.frame \in Frames /\ p + 1 \in 0 .. b.frame.len
      /\ \/ Received' = Received \o <<b>>
         \/ Received' = Received /\ excused /\ FramesEnding[Received] = <<>>
  BY <1>3, MoveByteReceiverAt
<1>5. SenderAt(b.frame, p + 1)'
  BY <1>3, MoveByteAt
<1>6. moved \in 0 .. g_txFifo.count - 1
  BY <1>2, LinkTypes
<1>7. PICK y \in Seq(Bytes) : y = From(g_txFifo', moved')
  BY <1>1, <1>2, FromIs DEF FlightParts
<1>8. From(g_txFifo, moved) = <<b>> \o y
  BY <1>1, <1>2, <1>3, <1>6, <1>7, FromNext DEF FlightParts
<1>9. PICK o \in Seq(Bytes) : o = <<b>> /\ Len(o) = 1 /\ o[1] = b
  <2>1. <<b>> \in Seq(Bytes) /\ Len(<<b>>) = 1 /\ <<b>>[1] = b
    OBVIOUS
  <2>. QED  BY <2>1
<1>10. PICK r \in Seq(Frames), t \in Seq(Frames), e \in Seq(Frames), c \in Seq(Frames) :
         /\ r = FramesEnding[Received] /\ t = FramesEnding[y] /\ e = FramesEnding[o]
         /\ c = Coming
  BY <1>1, <1>7, <1>9, FramesEndingType DEF FlightParts
<1>11. Coming' = c
  BY <1>2, <1>10 DEF Coming
<1>12. InFlight = (r \o (e \o t)) \o c
  <2>1. FramesEnding[o \o y] = e \o t
    BY <1>10, FramesEndingConcat
  <2>. QED  BY <1>1, <1>8, <1>9, <1>10, <2>1 DEF FlightParts
<1>13. InFlight' = (FramesEnding[Received'] \o t) \o c
  BY <1>1, <1>7, <1>10, <1>11 DEF FlightParts
<1>14. CASE Received' = Received \o <<b>>
  <2>1. FramesEnding[Received'] = r \o e
    BY <1>1, <1>9, <1>10, <1>14, FramesEndingConcat DEF FlightParts
  <2>2. (r \o e) \o t = r \o (e \o t)
    BY FramesAssociate, Zenon
  <2>3. InFlight' = InFlight
    BY <1>12, <1>13, <2>1, <2>2
  <2>. QED  BY <1>4, <1>5, <2>3
<1>15. CASE Received' = Received /\ excused /\ FramesEnding[Received] = <<>>
  <2>1. r = <<>> /\ FramesEnding[Received'] = <<>>
    BY <1>10, <1>15
  <2>2. <<>> \o t = t
    BY <1>10, ConcatEmptySeq
  <2>3. e \o t \in Seq(Frames) /\ t \o c \in Seq(Frames)
    BY FramesConcat, Zenon
  <2>4. <<>> \o (e \o t) = e \o t
    BY <2>3, ConcatEmptySeq
  <2>5. InFlight = (e \o t) \o c /\ InFlight' = t \o c
    BY <1>12, <1>13, <2>1, <2>2, <2>4
  <2>6. CASE IsLast(b)
    <3>1. PICK x \in Frames : x = b.frame
      BY <1>4
    <3>2. e = <<x>>
      <4>1. PICK n \in Nat \ {0} : n = 1
        OBVIOUS
      <4>2. n = Len(o) /\ IsLast(o[n]) /\ \A k \in 1 .. n - 1 : ~IsLast(o[k])
        BY <1>9, <2>6, <4>1
      <4>3. FramesEnding[o] = <<o[n].frame>>
        BY <4>2, OneFrameEnds
      <4>. QED  BY <1>9, <1>10, <3>1, <4>1, <4>3
    <3>3. InFlight = <<x>> \o (t \o c)
      <4>1. (e \o t) \o c = e \o (t \o c)
        BY FramesAssociate, Zenon
      <4>. QED  BY <2>5, <3>2, <4>1
    <3>4. InFlight # <<>> /\ Tail(InFlight) = t \o c
      BY <2>3, <3>3, FirstOfSome
    <3>. QED  BY <1>4, <1>5, <1>15, <2>5, <3>4
  <2>7. CASE ~IsLast(b)
    <3>1. \A k \in 1 .. Len(o) : ~IsLast(o[k])
      BY <1>9, <2>7
    <3>2. e = <<>>
      BY <1>10, <3>1, NoFrameEnds
    <3>3. InFlight' = InFlight
      BY <2>2, <2>5, <3>2
    <3>. QED  BY <1>4, <1>5, <3>3
  <2>. QED  BY <2>6, <2>7
<1>. QED  BY <1>4, <1>14, <1>15

\* A block ends.
LEMMA FlightDrains ==
  ASSUME MarksInv, MarksInv', EndBlock(moved), UNCHANGED <<frame, next>>, UNCHANGED rxVars
  PROVE  InFlight' = InFlight
<1>1. FlightParts /\ FlightParts'
  BY FlightHasParts, FlightHasPartsNext
<1>2. Received' = Received /\ moved' = 0
  BY DEF Received, rxVars, EndBlock
<1>3. PICK n \in Nat : /\ n = moved /\ n \in 0 .. g_currentTransmissionCount
                       /\ n \in 0 .. g_txFifo.count
  BY LinkTypes
<1>4. /\ g_txFifo'.count = g_txFifo.count - n
      /\ \A k \in 0 .. g_txFifo.count - n : Peek(g_txFifo', k) = Peek(g_txFifo, n + k)
  <2>1. g_txFifo' = [g_txFifo EXCEPT !.start = (@ + n) % FifoSize, !.count = @ - n]
        /\ IInv
    BY <1>3 DEF EndBlock, MarksInv
  <2>. QED  BY <1>3, <2>1, DrainedRing
<1>5. From(g_txFifo', 0) = From(g_txFifo, n)
  BY <1>1, <1>3, <1>4, FromDrained DEF FlightParts
<1>. QED  BY <1>2, <1>3, <1>5, FlightRests

\* The receiver takes the first frame, or none.
LEMMA FlightServed ==
  ASSUME MarksInv, MarksInv', NEW f \in Frames, Keeps \/ Takes(f),
         UNCHANGED <<g_txFifo, moved, frame, next>>
  PROVE  \/ InFlight' = InFlight /\ delivered' = delivered
         \/ /\ InFlight # <<>> /\ Head(InFlight) = f /\ InFlight' = Tail(InFlight)
            /\ \/ delivered' = Upto(f, f.len)
               \/ delivered' = delivered /\ (excused \/ excused')
<1>1. FlightParts /\ FlightParts'
  BY FlightHasParts, FlightHasPartsNext
<1>2. From(g_txFifo', moved') = From(g_txFifo, moved) /\ Coming' = Coming
  BY DEF Coming
<1>3. CASE Keeps
  <2>1. InFlight' = InFlight
    BY <1>2, <1>3, FlightRests DEF Keeps
  <2>. QED  BY <1>3, <2>1 DEF Keeps
<1>4. CASE Takes(f)
  <2>1. PICK t \in Seq(Frames), c \in Seq(Frames) :
          t = FramesEnding[From(g_txFifo, moved)] /\ c = Coming
    BY <1>1, FlightTypes DEF FlightParts
  <2>2. InFlight = (<<f>> \o t) \o c
    BY <1>1, <1>4, <2>1 DEF FlightParts, Takes
  <2>3. InFlight' = (<<>> \o t) \o c
    BY <1>1, <1>2, <1>4, <2>1 DEF FlightParts, Takes
  <2>4. <<>> \o t = t
    BY <2>1, ConcatEmptySeq
  <2>5. PICK o \in Seq(Frames) : o = <<f>>
    <3>1. <<f>> \in Seq(Frames)
      OBVIOUS
    <3>. QED  BY <3>1
  <2>6. (o \o t) \o c = o \o (t \o c) /\ t \o c \in Seq(Frames)
    BY FramesAssociate, FramesConcat, Zenon
  <2>7. InFlight # <<>> /\ Head(InFlight) = f /\ Tail(InFlight) = t \o c
    BY <2>2, <2>5, <2>6, FirstOfSome
  <2>8. InFlight' = Tail(InFlight)
    BY <2>3, <2>4, <2>7
  <2>. QED  BY <1>4, <2>7, <2>8 DEF Takes
<1>. QED  BY <1>3, <1>4
-----------------------------------------------------------------------------
(***************************************************************************)
(* The link is the channel.                                                *)
(***************************************************************************)

\* The sender and the receiver agree on how much of which frame has been moved.
TheyAgree == \E f \in Frames : \E p \in 0 .. f.len : SenderAt(f, p) /\ ReceiverAt(f, p)

ChannelInv == MarksInv /\ TheyAgree

\* What a step of the link is for the channel.
ChannelStep ==
  \/ InFlight' = InFlight /\ delivered' = delivered
  \/ \E g \in Frames : InFlight' = Append(InFlight, g) /\ UNCHANGED <<delivered, excused>>
  \/ /\ InFlight # <<>> /\ InFlight' = Tail(InFlight)
     /\ \/ delivered' = Upto(Head(InFlight), Head(InFlight).len)
        \/ delivered' = delivered /\ (excused \/ excused')

-----------------------------------------------------------------------------
\* Nothing has been moved in the beginning.
LEMMA InitChannel == Init => ChannelInv
<1>. SUFFICES ASSUME Init PROVE ChannelInv
  OBVIOUS
<1>1. MarksInv
  BY InitMarks
<1>2. frame \in Frames /\ frame.len \in Nat /\ 1 < frame.len /\ 0 \in 0 .. frame.len
  BY FrameLength DEF Init, MinPacket
<1>3. /\ g_txFifo.count = 0 /\ moved = 0 /\ stops = <<>> /\ g_currentTransmissionCount = 0
      /\ g_sendState = "IDLE" /\ pc = "idle" /\ next = frame.len + 1
      /\ g_rxPacket /\ rx = <<>> /\ rxOn /\ ~rxIrq /\ dr = NULL /\ ~flank
  BY DEF Init, InitSender, InitReceiver, InitFifo
<1>4. SenderAt(frame, 0)
  <2>1. RingFollows
    BY <1>3 DEF RingFollows
  <2>2. GoesOn(frame, 0)
    BY <1>3 DEF GoesOn
  <2>3. ~StopDue /\ ~Ended
    BY <1>3 DEF StopDue, Unmarked, Ended
  <2>. QED  BY <1>2, <1>3, <2>1, <2>2, <2>3 DEF SenderAt
<1>5. ReceiverAt(frame, 0)
  <2>1. Upto(frame, 0) \in Seq(Bytes) /\ Len(Upto(frame, 0)) = 0
    BY <1>2, UptoIs
  <2>2. Upto(frame, 0) = <<>>
    BY <2>1, EmptySeq
  <2>3. HasAll(frame, 0)
    BY <1>3, <2>2 DEF HasAll
  <2>. QED  BY <2>3 DEF ReceiverAt
<1>. QED  BY <1>1, <1>2, <1>4, <1>5 DEF ChannelInv, TheyAgree

\* A step of the sender that moves no byte and leaves the frame alone.
LEMMA SenderStep ==
  ASSUME MarksInv, MarksInv', NEW f \in Frames, NEW p \in 0 .. f.len,
         ReceiverAt(f, p), SenderAt(f, p), SenderAt(f, p)',
         \/ flank' = flank /\ g_sendState' = g_sendState
         \/ EndFrame /\ ~Ended
         \/ ~flank /\ ~rxIrq /\ flank' = flank,
         UNCHANGED <<g_txFifo, moved, frame, next>>, UNCHANGED rxVars
  PROVE  TheyAgree' /\ ChannelStep
<1>1. ReceiverAt(f, p)'
  BY ReceiverAtRests
<1>2. TheyAgree'
  BY <1>1 DEF TheyAgree
<1>3. InFlight' = InFlight
  <2>1. FramesEnding[Received'] = FramesEnding[Received]
    BY DEF Received, rxVars
  <2>2. From(g_txFifo', moved') = From(g_txFifo, moved)
    OBVIOUS
  <2>. QED  BY <2>1, <2>2, FlightRests
<1>4. delivered' = delivered
  BY DEF rxVars
<1>. QED  BY <1>2, <1>3, <1>4 DEF ChannelStep

\* One that starts or ends a frame or a block of the DMA.
LEMMA TriggerStep ==
  ASSUME MarksInv, MarksInv', FramesFit, NEW f \in Frames, NEW p \in 0 .. f.len,
         ReceiverAt(f, p), SenderAt(f, p), TriggerTransmission,
         UNCHANGED <<g_txFifo, frame, next>>, UNCHANGED rxVars, Unmarked' <=> Unmarked
  PROVE  TheyAgree' /\ ChannelStep
<1>1. SenderAt(f, p)'
  <2>1. UNCHANGED <<g_txFifo, frame, next, rxIrq, rxOn>>
    BY DEF rxVars
  <2>. QED  BY <2>1, TriggerAt
<1>2. ASSUME CanTransmit
      PROVE  moved = 0 /\ ~Ended
  <2>1. g_currentTransmissionCount = 0 /\ g_sendState = "IDLE"
    BY <1>2 DEF CanTransmit, CanTransmitP1, CanTransmitP2
  <2>. QED  BY <2>1, LinkTypes DEF SenderAt
<1>3. moved' = moved
  BY <1>2 DEF TriggerTransmission, SetupDMA, dmaVars
<1>4. \/ flank' = flank /\ g_sendState' = g_sendState
      \/ EndFrame /\ ~Ended
  BY <1>2 DEF TriggerTransmission, SetupDMA
<1>. QED  BY <1>1, <1>3, <1>4, SenderStep

\* A block ends.
LEMMA EndBlockStep ==
  ASSUME MarksInv, MarksInv', FramesFit, NEW f \in Frames, NEW p \in 0 .. f.len,
         ReceiverAt(f, p), SenderAt(f, p), EndBlock(moved), moved > 0,
         Leaves(moved), UNCHANGED mainVars, UNCHANGED rxVars
  PROVE  TheyAgree' /\ ChannelStep
<1>1. SenderAt(f, p)'
  <2>1. UNCHANGED <<mainVars, rxIrq, rxOn>>
    BY DEF rxVars
  <2>. QED  BY <2>1, EndBlockAt
<1>2. ~Ended
  <2>1. g_currentTransmissionCount > 0
    BY LinkTypes
  <2>. QED  BY <2>1, BlockIsSent
<1>3. \/ flank' = flank /\ g_sendState' = g_sendState
      \/ EndFrame /\ ~Ended
  BY <1>2 DEF EndBlock
<1>4. ReceiverAt(f, p)'
  BY <1>1, <1>3, ReceiverAtRests
<1>5. TheyAgree'
  BY <1>1, <1>4 DEF TheyAgree
<1>6. InFlight' = InFlight
  BY FlightDrains DEF mainVars
<1>7. delivered' = delivered
  BY DEF rxVars
<1>. QED  BY <1>5, <1>6, <1>7 DEF ChannelStep

\* The receiver serves a signal or an interrupt.
LEMMA ReceiverStep ==
  ASSUME MarksInv, MarksInv', NEW f \in Frames, NEW p \in 0 .. f.len,
         ReceiverAt(f, p), SenderAt(f, p), RxSigFlank \/ RxComplete
  PROVE  TheyAgree' /\ ChannelStep
<1>1. /\ \E q \in 0 .. f.len : SenderAt(f, q)' /\ ReceiverAt(f, q)'
      /\ Keeps \/ Takes(f)
  BY RxSigFlankAt, RxCompleteAt
<1>2. UNCHANGED <<g_txFifo, moved, frame, next>>
  BY DEF RxSigFlank, RxComplete, dmaVars, mainVars
<1>3. \/ InFlight' = InFlight /\ delivered' = delivered
      \/ /\ InFlight # <<>> /\ Head(InFlight) = f /\ InFlight' = Tail(InFlight)
         /\ \/ delivered' = Upto(f, f.len)
            \/ delivered' = delivered /\ (excused \/ excused')
  BY <1>1, <1>2, FlightServed
<1>4. ChannelStep
  BY <1>3 DEF ChannelStep
<1>5. TheyAgree'
  BY <1>1 DEF TheyAgree
<1>. QED  BY <1>4, <1>5

\* Every step keeps the two in agreement, and is a step of the channel.
LEMMA NextAgrees ==
  ASSUME Punctual, FramesFit, PacketsFit, ChannelInv, [Next]_vars
  PROVE  ChannelInv' /\ ChannelStep
<1>1. MarksInv /\ MarksInv'
  BY NextMarks DEF ChannelInv
<1>2. PICK f \in Frames : \E p \in 0 .. f.len : SenderAt(f, p) /\ ReceiverAt(f, p)
  BY DEF ChannelInv, TheyAgree
<1>3. PICK p \in 0 .. f.len : SenderAt(f, p) /\ ReceiverAt(f, p)
  BY <1>2
<1>. SUFFICES TheyAgree' /\ ChannelStep
  BY <1>1 DEF ChannelInv
<1>4. ASSUME NEW g \in Frames, StartFrame(g)
      PROVE  TheyAgree' /\ ChannelStep
  <2>1. SenderAt(f, p)'
    BY <1>1, <1>3, <1>4, StartFrameAt
  <2>2. UNCHANGED rxVars /\ flank' = flank /\ g_sendState' = g_sendState
    BY <1>4 DEF StartFrame
  <2>3. ReceiverAt(f, p)'
    BY <1>3, <2>1, <2>2, ReceiverAtRests
  <2>4. TheyAgree'
    BY <2>1, <2>3 DEF TheyAgree
  <2>5. InFlight' = Append(InFlight, g)
    BY <1>1, <1>4, FlightStarts
  <2>6. UNCHANGED <<delivered, excused>>
    BY <2>2 DEF rxVars
  <2>. QED  BY <2>4, <2>5, <2>6 DEF ChannelStep
<1>5. CASE PutByte
  <2>1. SenderAt(f, p)'
    BY <1>1, <1>3, <1>5, PutByteAt
  <2>2. UNCHANGED rxVars /\ flank' = flank /\ g_sendState' = g_sendState
    BY <1>5 DEF PutByte
  <2>3. ReceiverAt(f, p)'
    BY <1>3, <2>1, <2>2, ReceiverAtRests
  <2>4. TheyAgree'
    BY <2>1, <2>3 DEF TheyAgree
  <2>5. InFlight' = InFlight
    BY <1>1, <1>5, FlightPut
  <2>6. delivered' = delivered
    BY <2>2 DEF rxVars
  <2>. QED  BY <2>4, <2>5, <2>6 DEF ChannelStep
<1>6. CASE TriggerByMain
  <2>1. /\ TriggerTransmission /\ UNCHANGED <<g_txFifo, frame, next>> /\ UNCHANGED rxVars
    BY <1>6 DEF TriggerByMain
  <2>2. Unmarked' <=> Unmarked
    BY <1>1, <1>6, LinkTypes DEF TriggerByMain, Unmarked
  <2>. QED  BY <1>1, <1>3, <2>1, <2>2, TriggerStep
<1>7. CASE MarkEnd
  <2>1. SenderAt(f, p)'
    BY <1>1, <1>3, <1>7, MarkEndAt
  <2>2. UNCHANGED <<g_txFifo, moved, frame, next>> /\ UNCHANGED rxVars
    BY <1>7 DEF MarkEnd, dmaVars
  <2>3. \/ flank' = flank /\ g_sendState' = g_sendState
        \/ EndFrame /\ ~Ended
    <3>1. CASE g_txFifo.count = 0
      <4>1. EndFrame
        BY <1>7, <3>1 DEF MarkEnd
      <4>2. Unmarked /\ moved = g_txFifo.count
        BY <1>1, <1>7, <3>1, LinkTypes DEF MarkEnd, Unmarked, MarksInv, EndsAreLate
      <4>3. ~Ended
        BY <1>3, <4>2 DEF SenderAt, StopDue
      <4>. QED  BY <4>1, <4>3
    <3>2. CASE g_txFifo.count # 0
      BY <1>7, <3>2 DEF MarkEnd
    <3>. QED  BY <3>1, <3>2
  <2>. QED  BY <1>1, <1>3, <2>1, <2>2, <2>3, SenderStep
<1>8. CASE PutStop
  <2>1. SenderAt(f, p)'
    BY <1>1, <1>3, <1>8, PutStopAt
  <2>2. /\ UNCHANGED <<g_txFifo, moved, frame, next>> /\ UNCHANGED rxVars
        /\ flank' = flank /\ g_sendState' = g_sendState
    BY <1>8 DEF PutStop, dmaVars
  <2>. QED  BY <1>1, <1>3, <2>1, <2>2, SenderStep
<1>9. CASE MoveByte
  <2>1. /\ InFlight' = InFlight
           \/ (excused /\ InFlight # <<>> /\ InFlight' = Tail(InFlight))
        /\ \E g \in Frames : \E q \in 0 .. g.len : SenderAt(g, q)' /\ ReceiverAt(g, q)'
    BY <1>1, <1>3, <1>9, FlightMoves
  <2>2. delivered' = delivered
    BY <1>9 DEF MoveByte
  <2>3. TheyAgree'
    BY <2>1 DEF TheyAgree
  <2>. QED  BY <2>1, <2>2, <2>3 DEF ChannelStep
<1>10. CASE TransmissionComplete
  <2>1. /\ EndBlock(moved) /\ moved > 0 /\ Leaves(moved)
        /\ UNCHANGED mainVars /\ UNCHANGED rxVars
    BY <1>10 DEF TransmissionComplete, TransmissionCompleteP1, TransmissionCompleteP2, Leaves
  <2>. QED  BY <1>1, <1>3, <2>1, EndBlockStep
<1>11. CASE PauseOver
  <2>1. SenderAt(f, p)'
    BY <1>1, <1>3, <1>11, PauseOverAt
  <2>2. /\ UNCHANGED <<g_txFifo, moved, frame, next>> /\ UNCHANGED rxVars
        /\ ~flank /\ ~rxIrq /\ flank' = flank
    BY <1>11 DEF PauseOver, dmaVars, mainVars
  <2>. QED  BY <1>1, <1>3, <2>1, <2>2, SenderStep
<1>12. CASE TriggerByHandler
  <2>1. /\ TriggerTransmission /\ UNCHANGED <<g_txFifo, frame, next, pc>> /\ UNCHANGED rxVars
    BY <1>12 DEF TriggerByHandler, mainVars
  <2>2. Unmarked' <=> Unmarked
    BY <2>1 DEF Unmarked
  <2>. QED  BY <1>1, <1>3, <2>1, <2>2, TriggerStep
<1>13. CASE Receiver
  BY <1>1, <1>3, <1>13, ReceiverStep DEF Receiver
<1>14. CASE UNCHANGED vars
  <2>1. /\ UNCHANGED <<g_txFifo, stops, g_currentTransmissionCount, moved, frame, next,
                       g_sendState>>
        /\ UNCHANGED rxVars /\ flank' = flank /\ pc' = pc /\ g_sendState' = g_sendState
    BY <1>14 DEF vars, dmaVars, mainVars
  <2>2. SenderAt(f, p)'
    <3>1. (Ended' <=> Ended) /\ (Unmarked' <=> Unmarked)
      BY <2>1 DEF Ended, Unmarked, rxVars
    <3>. QED  BY <1>3, <2>1, <3>1, SenderAtRests
  <2>. QED  BY <1>1, <1>3, <2>1, <2>2, SenderStep
<1>. QED  BY <1>4, <1>5, <1>6, <1>7, <1>8, <1>9, <1>10, <1>11, <1>12, <1>13, <1>14
          DEF Next, Main, Handler
-----------------------------------------------------------------------------
\* Nothing is in flight in the beginning.
LEMMA InitIsChannelInit == Init => FC!Init
<1>. SUFFICES ASSUME Init PROVE FC!Init
  OBVIOUS
<1>1. FlightParts
  BY InitChannel, FlightHasParts DEF ChannelInv
<1>2. /\ g_txFifo.count = 0 /\ moved = 0 /\ Received = <<>> \o <<>> /\ Coming = <<>>
  <2>1. /\ g_txFifo.count = 0 /\ moved = 0 /\ rx = <<>> /\ dr = NULL
        /\ next = frame.len + 1 /\ frame \in Frames
    BY DEF Init, InitSender, InitReceiver, InitFifo
  <2>2. ~(next <= frame.len)
    BY <2>1, FrameLength
  <2>. QED  BY <2>1, <2>2 DEF Received, Coming
<1>3. From(g_txFifo, moved) = <<>>
  <2>1. From(g_txFifo, moved) \in Seq(Bytes) /\ Len(From(g_txFifo, moved)) = 0
    BY <1>1, <1>2, FromIs DEF FlightParts
  <2>. QED  BY <2>1, EmptySeq
<1>4. <<>> \in Seq(Bytes) /\ <<>> \in Seq(Frames)
  OBVIOUS
<1>5. <<>> \o <<>> = <<>>
  BY <1>4, ConcatEmptySeq
<1>6. InFlight = <<>>
  BY <1>1, <1>2, <1>3, <1>5, NothingEnds DEF FlightParts
<1>. QED  BY <1>6 DEF Init, FC!Init

\* What a step of the link is for the channel, is a step of it.
LEMMA StepIsChannelStep ==
  ASSUME ChannelInv', ChannelStep
  PROVE  [FC!Next]_(FC!vars)
<1>1. excused' \in BOOLEAN
  BY DEF ChannelInv, MarksInv, IInv, TypeOK
<1>2. CASE InFlight' = InFlight /\ delivered' = delivered
  BY <1>1, <1>2 DEF FC!Next, FC!Excuse
<1>3. CASE \E g \in Frames : InFlight' = Append(InFlight, g) /\ UNCHANGED <<delivered, excused>>
  BY <1>3 DEF FC!Next, FC!Send
<1>4. ASSUME InFlight # <<>>, InFlight' = Tail(InFlight),
             delivered' = Upto(Head(InFlight), Head(InFlight).len)
      PROVE  FC!Next
  BY <1>1, <1>4 DEF FC!Next, FC!Deliver, FC!Bytes, Upto
<1>5. ASSUME InFlight # <<>>, InFlight' = Tail(InFlight),
             delivered' = delivered, excused \/ excused'
      PROVE  FC!Next
  BY <1>1, <1>5 DEF FC!Next, FC!Lose
<1>. QED  BY <1>2, <1>3, <1>4, <1>5 DEF ChannelStep

\* For every size of the ring and of the buffer, all lengths of frames that leave room
\* in them, and either processor as the sender, whatever the interleaving of its main
\* loop, its DMA and its handlers with the receiver's, and while buffers run out and
\* posts fail: frames are handed on whole, one at a time, in the order they were sent
\* and at most once, and one is lost only if the receiver had no buffer for it or for
\* the one before, or could not post it. What this needs of the environment is that
\* the receiver serves the end of a frame within the pause.
THEOREM LinkIsChannel ==
  ASSUME Punctual, FramesFit, PacketsFit
  PROVE  Spec => FrameChannelSpec
<1>1. Init => ChannelInv
  BY InitChannel
<1>2. ChannelInv /\ [Next]_vars => ChannelInv'
  BY NextAgrees
<1>3. Init => FC!Init
  BY InitIsChannelInit
<1>4. ChannelInv /\ ChannelInv' /\ [Next]_vars => [FC!Next]_(FC!vars)
  BY NextAgrees, StepIsChannelStep
<1>. QED  BY <1>1, <1>2, <1>3, <1>4, PTL DEF Spec, FrameChannelSpec, FC!Spec

===============================================================================
