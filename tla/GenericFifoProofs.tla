-------------------------- MODULE GenericFifoProofs --------------------------
(***************************************************************************)
(* A generic fifo is a queue of at most FifoSize elements: its operations  *)
(* are those of a sequence, wherever in the ring it starts.                *)
(***************************************************************************)
EXTENDS GenericFifo, TLAPS

\* Indices wrap once at most.
LEMMA Wraps ==
  ASSUME NEW n \in 0 .. 2 * FifoSize - 1
  PROVE  /\ n % FifoSize = IF n < FifoSize THEN n ELSE n - FifoSize
         /\ n % FifoSize \in Index
  BY FifoAssumption DEF Index

LEMMA SumWraps ==
  ASSUME NEW s \in Index, NEW k \in 0 .. FifoSize - 1
  PROVE  /\ s + k < FifoSize => (s + k) % FifoSize = s + k
         /\ s + k >= FifoSize => (s + k) % FifoSize = s + k - FifoSize
<1>1. s + k \in 0 .. 2 * FifoSize - 1
  BY FifoAssumption DEF Index
<1>. QED  BY <1>1, Wraps, FifoAssumption DEF Index

\* The index behind the youngest element moves with the number of elements,
LEMMA EndMoves ==
  ASSUME NEW s \in Index, NEW c \in 0 .. FifoSize - 1
  PROVE  (((s + c) % FifoSize) + 1) % FifoSize = (s + (c + 1)) % FifoSize
<1>1. s + c \in 0 .. 2 * FifoSize - 1
  BY FifoAssumption DEF Index
<1>2. PICK e \in Index : e = (s + c) % FifoSize
  BY <1>1, Wraps
<1>3. e = IF s + c < FifoSize THEN s + c ELSE s + c - FifoSize
  BY <1>1, <1>2, Wraps, FifoAssumption DEF Index
<1>4. e + 1 \in 0 .. 2 * FifoSize - 1 /\ s + (c + 1) \in 0 .. 2 * FifoSize - 1
  BY FifoAssumption DEF Index
<1>5. (e + 1) % FifoSize = (s + (c + 1)) % FifoSize
  BY <1>3, <1>4, Wraps, FifoAssumption, SMTT(30) DEF Index
<1>. QED  BY <1>2, <1>5

\* and is not that of an element while there is room;
LEMMA EndIsFree ==
  ASSUME NEW s \in Index, NEW c \in 0 .. FifoSize - 1, NEW k \in 0 .. c - 1
  PROVE  (s + k) % FifoSize # (s + c) % FifoSize
<1>1. k \in 0 .. FifoSize - 1
  BY FifoAssumption
<1>2. /\ s + k < FifoSize => (s + k) % FifoSize = s + k
      /\ s + k >= FifoSize => (s + k) % FifoSize = s + k - FifoSize
  BY <1>1, SumWraps
<1>3. /\ s + c < FifoSize => (s + c) % FifoSize = s + c
      /\ s + c >= FifoSize => (s + c) % FifoSize = s + c - FifoSize
  BY SumWraps
<1>. QED  BY <1>1, <1>2, <1>3, FifoAssumption DEF Index

\* the indices of the elements behind the oldest one stay what they are when the
\* start moves.
LEMMA StartMoves ==
  ASSUME NEW s \in Index, NEW k \in 0 .. FifoSize - 1
  PROVE  (((s + 1) % FifoSize) + k) % FifoSize = (s + (k + 1)) % FifoSize
<1>1. s + 1 \in 0 .. 2 * FifoSize - 1
  BY FifoAssumption DEF Index
<1>2. PICK t \in Index : t = (s + 1) % FifoSize
  BY <1>1, Wraps
<1>3. t = IF s + 1 < FifoSize THEN s + 1 ELSE s + 1 - FifoSize
  BY <1>1, <1>2, Wraps, FifoAssumption DEF Index
<1>4. t + k \in 0 .. 2 * FifoSize - 1 /\ s + (k + 1) \in 0 .. 2 * FifoSize - 1
  BY FifoAssumption DEF Index
<1>5. (t + k) % FifoSize = (s + (k + 1)) % FifoSize
  BY <1>3, <1>4, Wraps, FifoAssumption, SMTT(30) DEF Index
<1>. QED  BY <1>2, <1>5

LEMMA IndexOfElement ==
  ASSUME NEW s \in Index, NEW k \in 0 .. FifoSize
  PROVE  (s + k) % FifoSize \in Index
<1>1. s + k \in 0 .. 2 * FifoSize - 1
  BY FifoAssumption DEF Index
<1>. QED  BY <1>1, Wraps

\* What is read of a fifo is of its type, and what lies in it is a sequence.
LEMMA PeekType ==
  ASSUME NEW Type, NEW f \in Fifos(Type), NEW i \in 0 .. FifoSize - 1
  PROVE  Peek(f, i) \in Type
<1>1. f.start \in Index /\ f.data \in [Index -> Type] /\ i \in 0 .. FifoSize
  BY FifoAssumption DEF Fifos
<1>2. (f.start + i) % FifoSize \in Index
  BY <1>1, IndexOfElement
<1>. QED  BY <1>1, <1>2 DEF Peek

LEMMA ContentsType ==
  ASSUME NEW Type, NEW f \in Fifos(Type)
  PROVE  /\ Contents(f) \in Seq(Type)
         /\ Len(Contents(f)) = f.count
         /\ f.count \in Nat
         /\ \A n \in 1 .. f.count : Contents(f)[n] = Peek(f, n - 1)
<1>1. \A n \in 1 .. f.count : Peek(f, n - 1) \in Type
  BY PeekType, FifoAssumption DEF Fifos
<1>2. f.count \in Nat
  BY FifoAssumption DEF Fifos
<1>. QED  BY <1>1, <1>2 DEF Contents

\* After CREATE_FIFO_INIT_FCT a fifo is empty.
THEOREM InitIsEmpty ==
  ASSUME NEW Type, NEW data \in [Index -> Type]
  PROVE  /\ InitFifo(data) \in Fifos(Type)
         /\ IsConsistent(InitFifo(data))
         /\ Contents(InitFifo(data)) = << >>
  BY FifoAssumption DEF InitFifo, Fifos, Index, IsConsistent, Contents

\* CREATE_FIFO_PUT_FCT appends; it fails only if there are FifoSize elements.
THEOREM PutAppends ==
  ASSUME NEW Type, NEW f \in Fifos(Type), IsConsistent(f), NEW element \in Type, PutOkay(f)
  PROVE  /\ Put(f, element) \in Fifos(Type)
         /\ IsConsistent(Put(f, element))
         /\ Contents(Put(f, element)) = Append(Contents(f), element)
<1> DEFINE g == Put(f, element)
<1>1. /\ f.start \in Index /\ f.end \in Index /\ f.count \in 0 .. FifoSize - 1
      /\ f.data \in [Index -> Type]
  BY FifoAssumption DEF Fifos, PutOkay
<1>2. f.end = (f.start + f.count) % FifoSize
  BY DEF IsConsistent
<1>3. (f.end + 1) % FifoSize = (f.start + (f.count + 1)) % FifoSize
  BY <1>1, <1>2, EndMoves
<1>4. /\ g.data = [f.data EXCEPT ![f.end] = element]
      /\ g.start = f.start /\ g.end = (f.end + 1) % FifoSize /\ g.count = f.count + 1
  BY DEF Put, Fifos
<1>5. g \in Fifos(Type)
  <2>1. 1 \in 0 .. FifoSize /\ f.count + 1 \in 0 .. FifoSize
    BY <1>1, FifoAssumption
  <2>2. (f.end + 1) % FifoSize \in Index
    BY <2>1, <1>1, IndexOfElement
  <2>. QED  BY <2>1, <2>2, <1>1 DEF Put, Fifos
<1>6. IsConsistent(g)
  BY <1>3, <1>4 DEF IsConsistent
<1>7. \A n \in 1 .. f.count : Peek(g, n - 1) = Peek(f, n - 1)
  <2> SUFFICES ASSUME NEW n \in 1 .. f.count
               PROVE  Peek(g, n - 1) = Peek(f, n - 1)
    OBVIOUS
  <2>1. n - 1 \in 0 .. f.count - 1 /\ n - 1 \in 0 .. FifoSize
    BY <1>1, FifoAssumption
  <2>2. (f.start + (n - 1)) % FifoSize # f.end
    BY <2>1, <1>1, <1>2, EndIsFree
  <2>3. (f.start + (n - 1)) % FifoSize \in Index
    BY <2>1, <1>1, IndexOfElement
  <2>. QED  BY <2>2, <2>3, <1>1, <1>4 DEF Peek
<1>8. Peek(g, f.count) = element
  BY <1>1, <1>2, <1>4 DEF Peek
<1>9. Contents(g) = Append(Contents(f), element)
  <2>1. /\ Contents(f) \in Seq(Type) /\ Len(Contents(f)) = f.count /\ f.count \in Nat
        /\ \A n \in 1 .. f.count : Contents(f)[n] = Peek(f, n - 1)
    BY ContentsType
  <2>2. /\ Contents(g) \in Seq(Type) /\ Len(Contents(g)) = f.count + 1
        /\ \A n \in 1 .. f.count + 1 : Contents(g)[n] = Peek(g, n - 1)
    BY <1>4, <1>5, ContentsType
  <2>3. \A n \in 1 .. f.count : Contents(g)[n] = Contents(f)[n]
    BY <2>1, <2>2, <1>7
  <2>4. Contents(g)[f.count + 1] = element
    <3>1. PICK m \in Nat : m = f.count
      BY <2>1
    <3>2. m + 1 \in 1 .. m + 1 /\ (m + 1) - 1 = m
      BY <3>1
    <3>3. \A n \in 1 .. m + 1 : Contents(g)[n] = Peek(g, n - 1)
      BY <2>2, <3>1
    <3>4. Contents(g)[m + 1] = Peek(g, m)
      BY <3>2, <3>3
    <3>. QED  BY <3>1, <3>4, <1>8
  <2>. QED  BY <2>1, <2>2, <2>3, <2>4
<1>. QED  BY <1>5, <1>6, <1>9

\* CREATE_FIFO_PEEK_FCT copies the element with that index of the queue; it fails
\* for an index at which there is none.
THEOREM PeekIsElement ==
  ASSUME NEW Type, NEW f \in Fifos(Type), NEW i \in Nat, PeekOkay(f, i)
  PROVE  i + 1 \in 1 .. Len(Contents(f)) /\ Peek(f, i) = Contents(f)[i + 1]
<1>1. /\ Len(Contents(f)) = f.count /\ f.count \in Nat
      /\ \A n \in 1 .. f.count : Contents(f)[n] = Peek(f, n - 1)
  BY ContentsType
<1>2. i + 1 \in 1 .. f.count /\ i + 1 - 1 = i
  BY <1>1 DEF PeekOkay
<1>. QED  BY <1>1, <1>2

\* CREATE_FIFO_GET_FCT copies the oldest element and removes it.
THEOREM GetTakesOldest ==
  ASSUME NEW Type, NEW f \in Fifos(Type), IsConsistent(f), GetOkay(f)
  PROVE  /\ Get(f) \in Fifos(Type)
         /\ IsConsistent(Get(f))
         /\ Peek(f, 0) = Head(Contents(f))
         /\ Contents(Get(f)) = Tail(Contents(f))
<1> DEFINE g == Get(f)
<1>1. /\ f.start \in Index /\ f.end \in Index /\ f.count \in 1 .. FifoSize
      /\ f.data \in [Index -> Type]
  BY FifoAssumption DEF Fifos, GetOkay
<1>2. /\ g.data = f.data /\ g.end = f.end
      /\ g.start = (f.start + 1) % FifoSize /\ g.count = f.count - 1
  BY DEF Get, Fifos
<1>3. g \in Fifos(Type)
  <2>1. 1 \in 0 .. FifoSize /\ f.count - 1 \in 0 .. FifoSize
    BY <1>1, FifoAssumption
  <2>2. (f.start + 1) % FifoSize \in Index
    BY <2>1, <1>1, IndexOfElement
  <2>. QED  BY <2>1, <2>2, <1>1 DEF Get, Fifos
<1>4. \A k \in 0 .. f.count - 1 : (g.start + k) % FifoSize = (f.start + (k + 1)) % FifoSize
  <2> SUFFICES ASSUME NEW k \in 0 .. f.count - 1
               PROVE  (g.start + k) % FifoSize = (f.start + (k + 1)) % FifoSize
    OBVIOUS
  <2>1. k \in 0 .. FifoSize - 1
    BY <1>1, FifoAssumption
  <2>. QED  BY <2>1, <1>1, <1>2, StartMoves
<1>5. IsConsistent(g)
  <2>1. f.count - 1 \in 0 .. f.count - 1 /\ f.count - 1 + 1 = f.count
    BY <1>1, FifoAssumption
  <2>2. (g.start + (f.count - 1)) % FifoSize = (f.start + f.count) % FifoSize
    BY <2>1, <1>4
  <2>. QED  BY <2>2, <1>2 DEF IsConsistent
<1>6. /\ Contents(f) \in Seq(Type) /\ Len(Contents(f)) = f.count /\ f.count \in Nat
      /\ \A n \in 1 .. f.count : Contents(f)[n] = Peek(f, n - 1)
  BY ContentsType
<1>7. Peek(f, 0) = Head(Contents(f))
  BY <1>1, <1>6, FifoAssumption
<1>8. Contents(g) = Tail(Contents(f))
  <2>1. /\ Contents(g) \in Seq(Type) /\ Len(Contents(g)) = f.count - 1
        /\ \A n \in 1 .. f.count - 1 : Contents(g)[n] = Peek(g, n - 1)
    BY <1>2, <1>3, ContentsType
  <2>2. \A n \in 1 .. f.count - 1 : Contents(g)[n] = Contents(f)[n + 1]
    <3> SUFFICES ASSUME NEW n \in 1 .. f.count - 1
                 PROVE  Contents(g)[n] = Contents(f)[n + 1]
      OBVIOUS
    <3>1. n - 1 \in 0 .. f.count - 1 /\ n + 1 \in 1 .. f.count /\ n - 1 + 1 = n + 1 - 1
      BY <1>6
    <3>2. (g.start + (n - 1)) % FifoSize = (f.start + (n + 1 - 1)) % FifoSize
      BY <3>1, <1>4
    <3>3. Peek(g, n - 1) = Peek(f, n + 1 - 1)
      BY <3>2, <1>2 DEF Peek
    <3>. QED  BY <3>1, <3>3, <2>1, <1>6
  <2>3. f.count >= 1
    BY <1>1, <1>6, FifoAssumption
  <2>. QED  BY <2>1, <2>2, <2>3, <1>6
<1>. QED  BY <1>3, <1>5, <1>7, <1>8

===============================================================================
