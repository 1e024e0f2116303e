--------------------------- MODULE MsgPumpProofs ---------------------------
(***************************************************************************)
(* Theorems about MsgPump, for every number of buffers, producers and      *)
(* receivers and every size of the queue, a queue that overflows included. *)
(*                                                                         *)
(* They assume that no producer posts through a pointer it should have     *)
(* given up (StaleProducers = {}): every producer of the repository takes  *)
(* a new buffer after a post, or drops its pointer. The last theorem, that *)
(* the pump implements MessageQueue, also assumes what OneProxy says of    *)
(* the callback vectors that the init functions fill.                      *)
(***************************************************************************)
EXTENDS MsgPump, FiniteSetTheorems, TLAPS

\* What the invariants say of one buffer.
BufferOK(b) ==
  /\ refCnt[b] = Used(QueuedAt(b)) + Used(HeldBy(b)) + Cardinality(RetainedBy(b))
                   + Used({b} \cap lost)
  /\ \A i, j \in QueuedAt(b) : i = j
  /\ \A p, q \in HeldBy(b) : p = q
  /\ HeldBy(b) # {} => QueuedAt(b) = {} /\ RetainedBy(b) = {} /\ b \notin lost
  /\ b \in lost => QueuedAt(b) = {}
  /\ flags[b] = IF HeldBy(b) # {} \/ b \in lost \/ (Calling /\ Front.buffer = b)
                  THEN "InUse"
                ELSE IF QueuedAt(b) # {} /\ ~(pc = "unlock" /\ Front.buffer = b)
                  THEN "PostedNotDispatched"
                ELSE "Nothing"

\* The inductive invariant. The counting of references cannot stand alone: that
\* a free buffer is nobody's follows from the count, that the count may be set
\* back to 1 by a post follows from the writer being alone, and that a producer
\* never reaches the recovery of a "lost" buffer follows from the flags.
IInv ==
  /\ TypeOK
  /\ RingShape
  /\ running # NULL <=> pc \in {"body", "unlockAgain", "return"}
  /\ \A b \in Buffers : BufferOK(b)

\* The invariants that the runs check speak of the same, one aspect at a time.
LEMMA BufferWise ==
  (\A b \in Buffers : BufferOK(b)) <=> ReferencesCounted /\ WriterIsAlone /\ FlagsTell
  BY DEF BufferOK, ReferencesCounted, WriterIsAlone, FlagsTell

-----------------------------------------------------------------------------
\* Enqueuing makes exactly the old tail a place of the ring, and it was none.
LEMMA EnqueueRing ==
  ASSUME TypeOK, RingShape, ~QueueFull, NEW b, NEW id, Enqueue(b, id)
  PROVE  /\ g_msgQueueTail' \in Index
         /\ g_msgQueueSize' \in 0 .. QueueSize
         /\ g_msgQueueSize' # 0
         /\ \/ g_msgQueueTail' = g_msgQueueFront' + g_msgQueueSize'
            \/ g_msgQueueTail' = g_msgQueueFront' + g_msgQueueSize' - QueueSize
         /\ ~InRing(g_msgQueueTail)
         /\ \A i \in Index : InRing(i)' <=> InRing(i) \/ i = g_msgQueueTail
<1>1. QueueSize \in Nat \ {0}
  BY ConstantsAssumption
<1>. QED  BY <1>1 DEF TypeOK, RingShape, QueueFull, Enqueue, Succ, Index, InRing

\* The front is a place of a ring that is not empty.
LEMMA FrontInRing ==
  ASSUME TypeOK, RingShape, g_msgQueueSize # 0
  PROVE  InRing(g_msgQueueFront)
  BY DEF TypeOK, RingShape, InRing, Index

\* Advancing the front takes exactly the old front out of the ring.
LEMMA AdvanceRing ==
  ASSUME TypeOK, RingShape, g_msgQueueSize # 0,
         g_msgQueueFront' = Succ(g_msgQueueFront),
         g_msgQueueSize' = g_msgQueueSize - 1,
         g_msgQueueTail' = g_msgQueueTail
  PROVE  /\ g_msgQueueFront' \in Index
         /\ g_msgQueueSize' \in 0 .. QueueSize
         /\ \/ g_msgQueueTail' = g_msgQueueFront' + g_msgQueueSize'
            \/ g_msgQueueTail' = g_msgQueueFront' + g_msgQueueSize' - QueueSize
         /\ \A i \in Index : InRing(i)' <=> InRing(i) /\ i # g_msgQueueFront
<1>1. QueueSize \in Nat \ {0}
  BY ConstantsAssumption
<1>. QED  BY <1>1 DEF TypeOK, RingShape, Succ, Index, InRing

-----------------------------------------------------------------------------
\* Facts about who uses a buffer.

\* There are finitely many receivers, so those that locked a buffer can be counted.
LEMMA RetainedByFinite ==
  ASSUME NEW b \in Buffers
  PROVE  IsFiniteSet(RetainedBy(b)) /\ Cardinality(RetainedBy(b)) \in Nat
  BY ConstantsAssumption, FS_Subset, FS_CardinalityType DEF RetainedBy

\* A buffer whose count is 0 is nobody's.
LEMMA FreeIsUnused ==
  ASSUME NEW b \in Buffers, BufferOK(b), refCnt[b] = 0
  PROVE  QueuedAt(b) = {} /\ HeldBy(b) = {} /\ RetainedBy(b) = {} /\ b \notin lost
<1>1. refCnt[b] = Used(QueuedAt(b)) + Used(HeldBy(b)) + Cardinality(RetainedBy(b))
                    + Used({b} \cap lost)
  BY DEF BufferOK
<1>2. /\ Used(QueuedAt(b)) \in {0, 1}
      /\ Used(HeldBy(b)) \in {0, 1}
      /\ Used({b} \cap lost) \in {0, 1}
  BY DEF Used
<1>3. /\ Used(QueuedAt(b)) = 0
      /\ Used(HeldBy(b)) = 0
      /\ Used({b} \cap lost) = 0
      /\ Cardinality(RetainedBy(b)) = 0
  BY <1>1, <1>2, RetainedByFinite
<1>4. RetainedBy(b) = {}
  BY <1>3, RetainedByFinite, FS_EmptySet
<1>5. QED
  BY <1>3, <1>4 DEF Used

\* The buffer of the entry being handed out is in the ring, and so no producer's.
LEMMA FrontIsQueued ==
  ASSUME IInv, Dispatching, Front.buffer # NULL
  PROVE  /\ Front.buffer \in Buffers
         /\ QueuedAt(Front.buffer) = {g_msgQueueFront}
         /\ HeldBy(Front.buffer) = {}
         /\ Front.buffer \notin lost
<1>1. g_msgQueueSize # 0
  BY DEF IInv, RingShape, Dispatching, Calling
<1>2. g_msgQueueFront \in Index /\ Front \in Entries
  BY DEF IInv, TypeOK, Front
<1>3. Front.buffer \in Buffers
  BY <1>2 DEF Entries
<1>4. Live(g_msgQueueFront)
  BY <1>1, FrontInRing DEF IInv, Live, Dispatching, Calling
<1>5. g_msgQueueFront \in QueuedAt(Front.buffer)
  BY <1>2, <1>4 DEF QueuedAt, Front
<1>6. BufferOK(Front.buffer)
  BY <1>3 DEF IInv
<1>7. /\ \A i, j \in QueuedAt(Front.buffer) : i = j
      /\ HeldBy(Front.buffer) # {} => QueuedAt(Front.buffer) = {}
      /\ Front.buffer \in lost => QueuedAt(Front.buffer) = {}
  BY <1>6 DEF BufferOK
<1>8. QED
  BY <1>3, <1>5, <1>7

-----------------------------------------------------------------------------
\* The message being handed out is x's, or was handed out and not yet unlocked.
FrontCalled(x) == Calling /\ Front.buffer = x
FrontDone(x) == pc = "unlock" /\ Front.buffer = x

\* A step that changes nothing of what the invariants say of a buffer.
LEMMA SameBuffer ==
  ASSUME NEW x \in Buffers, BufferOK(x),
         QueuedAt(x)' = QueuedAt(x),
         HeldBy(x)' = HeldBy(x),
         RetainedBy(x)' = RetainedBy(x),
         x \in lost' <=> x \in lost,
         refCnt'[x] = refCnt[x],
         flags'[x] = flags[x],
         FrontCalled(x)' <=> FrontCalled(x),
         FrontDone(x)' <=> FrontDone(x)
  PROVE  BufferOK(x)'
<1>1. ({x} \cap lost)' = {x} \cap lost
  OBVIOUS
<1>2. QED
  BY <1>1 DEF BufferOK, FrontCalled, FrontDone, Used

\* Steps that stay in the same part of the loop.
SamePhase ==
  /\ Calling' = Calling
  /\ (pc = "poll")' = (pc = "poll")
  /\ (pc = "unlock")' = (pc = "unlock")
  /\ (pc = "advance")' = (pc = "advance")

\* Of these, the ones that change neither the ring, the headers nor whose the
\* buffers are.
LEMMA QuietStep ==
  ASSUME IInv, SamePhase,
         UNCHANGED <<queueVars, refCnt, flags, held, retained, lost>>
  PROVE  RingShape' /\ \A x \in Buffers : BufferOK(x)'
<1>1. RingShape'
  BY DEF IInv, RingShape, SamePhase, queueVars
<1>2. \A x : /\ QueuedAt(x)' = QueuedAt(x)
             /\ HeldBy(x)' = HeldBy(x)
             /\ RetainedBy(x)' = RetainedBy(x)
             /\ FrontCalled(x)' <=> FrontCalled(x)
             /\ FrontDone(x)' <=> FrontDone(x)
  BY DEF QueuedAt, HeldBy, RetainedBy, Live, InRing, FrontCalled, FrontDone, Front,
         SamePhase, queueVars
<1>3. ASSUME NEW x \in Buffers PROVE BufferOK(x)'
  BY <1>2, SameBuffer DEF IInv
<1>4. QED
  BY <1>1, <1>3

-----------------------------------------------------------------------------
\* What a post to the ring changes about whose the buffers are.
LEMMA EnqueueQueued ==
  ASSUME IInv, SamePhase, ~QueueFull,
         NEW b \in Buffers \cup {NULL}, NEW id \in MsgIDs, Enqueue(b, id)
  PROVE  /\ g_msgQueue' \in [Index -> Entries]
         /\ g_msgQueueFront' \in Index
         /\ g_msgQueueTail' \in Index
         /\ g_msgQueueSize' \in 0 .. QueueSize
         /\ RingShape'
         /\ Dispatching => Front' = Front
         /\ \A x \in Buffers : QueuedAt(x)' = IF x = b THEN QueuedAt(x) \cup {g_msgQueueTail}
                                                        ELSE QueuedAt(x)
<1> USE DEF IInv
<1>1. /\ g_msgQueueTail' \in Index
      /\ g_msgQueueSize' \in 0 .. QueueSize
      /\ g_msgQueueSize' # 0
      /\ \/ g_msgQueueTail' = g_msgQueueFront' + g_msgQueueSize'
         \/ g_msgQueueTail' = g_msgQueueFront' + g_msgQueueSize' - QueueSize
      /\ ~InRing(g_msgQueueTail)
      /\ \A i \in Index : InRing(i)' <=> InRing(i) \/ i = g_msgQueueTail
  BY EnqueueRing
<1>2. g_msgQueue' \in [Index -> Entries]
  BY DEF Enqueue, TypeOK, Entries
<1>3. g_msgQueueFront' = g_msgQueueFront /\ g_msgQueueFront \in Index
  BY DEF Enqueue, TypeOK
<1>4. RingShape'
  BY <1>1 DEF RingShape
<1>5. pc # "poll" => g_msgQueueTail # g_msgQueueFront
  BY <1>1, FrontInRing DEF RingShape
<1>6. Dispatching => Front' = Front
  BY <1>3, <1>5 DEF Front, Enqueue, TypeOK, Dispatching, Calling
<1>7. \A i \in Index : Live(i)' <=> Live(i) \/ i = g_msgQueueTail
  BY <1>1, <1>3, <1>5 DEF Live, SamePhase
<1>8. /\ g_msgQueueTail \in Index
      /\ g_msgQueue'[g_msgQueueTail].buffer = b
      /\ \A i \in Index \ {g_msgQueueTail} : g_msgQueue'[i] = g_msgQueue[i]
  BY DEF Enqueue, TypeOK
<1>9. ~Live(g_msgQueueTail)
  BY <1>1 DEF Live
<1>10. ASSUME NEW x \in Buffers
       PROVE  QueuedAt(x)' = IF x = b THEN QueuedAt(x) \cup {g_msgQueueTail} ELSE QueuedAt(x)
  BY <1>7, <1>8, <1>9 DEF QueuedAt
<1>11. QED
  BY <1>1, <1>2, <1>3, <1>4, <1>6, <1>10

\* A buffer that has just been posted is the ring's alone.
LEMMA PostedBuffer ==
  ASSUME NEW b \in Buffers, NEW i,
         QueuedAt(b)' = {i},
         HeldBy(b)' = {},
         RetainedBy(b)' = {},
         b \notin lost',
         refCnt'[b] = 1,
         flags'[b] = "PostedNotDispatched",
         ~FrontCalled(b)',
         ~FrontDone(b)'
  PROVE  BufferOK(b)'
<1>1. ({b} \cap lost)' = {}
  OBVIOUS
<1>2. Used({i}) = 1 /\ Used({}) = 0 /\ Cardinality({}) = 0
  BY FS_EmptySet DEF Used
<1>3. refCnt'[b] = Used(QueuedAt(b)') + Used(HeldBy(b)') + Cardinality(RetainedBy(b)')
                     + Used(({b} \cap lost)')
  BY <1>1, <1>2
<1>4. QED
  BY <1>3 DEF BufferOK, FrontCalled, FrontDone

\* A message copied into a free buffer.
LEMMA PostCopyStep ==
  ASSUME IInv, SamePhase, NEW id \in MsgIDs, NEW v \in Payloads, PostCopy(id, v),
         UNCHANGED clientVars
  PROVE  /\ g_msgQueue' \in [Index -> Entries]
         /\ g_msgQueueFront' \in Index
         /\ g_msgQueueTail' \in Index
         /\ g_msgQueueSize' \in 0 .. QueueSize
         /\ refCnt' \in [Buffers -> 0 .. RefCntMax]
         /\ flags' \in [Buffers -> Flags]
         /\ payload' \in [Buffers -> Payloads]
         /\ g_lockCounter' = g_lockCounter
         /\ RingShape'
         /\ \A x \in Buffers : BufferOK(x)'
<1>1. PICK b \in Buffers :
        /\ IsFree(b)
        /\ refCnt' = [refCnt EXCEPT ![b] = @ + 1]
        /\ flags' = [flags EXCEPT ![b] = "PostedNotDispatched"]
        /\ payload' = [payload EXCEPT ![b] = v]
        /\ Enqueue(b, id)
  BY DEF PostCopy
<1>2. /\ g_msgQueue' \in [Index -> Entries]
      /\ g_msgQueueFront' \in Index
      /\ g_msgQueueTail' \in Index
      /\ g_msgQueueSize' \in 0 .. QueueSize
      /\ RingShape'
      /\ Dispatching => Front' = Front
      /\ \A x \in Buffers : QueuedAt(x)' = IF x = b THEN QueuedAt(x) \cup {g_msgQueueTail}
                                                     ELSE QueuedAt(x)
  BY <1>1, EnqueueQueued DEF PostCopy
<1>3. BufferOK(b) /\ refCnt[b] = 0
  BY <1>1 DEF IInv, IsFree
<1>4. /\ QueuedAt(b) = {}
      /\ HeldBy(b) = {}
      /\ RetainedBy(b) = {}
      /\ b \notin lost
  BY <1>3, FreeIsUnused
<1>5. lost' = lost /\ \A x : HeldBy(x)' = HeldBy(x) /\ RetainedBy(x)' = RetainedBy(x)
  BY DEF HeldBy, RetainedBy, clientVars
<1>6. /\ refCnt'[b] = 1
      /\ flags'[b] = "PostedNotDispatched"
      /\ \A x \in Buffers \ {b} : refCnt'[x] = refCnt[x] /\ flags'[x] = flags[x]
      /\ refCnt' \in [Buffers -> 0 .. RefCntMax]
      /\ flags' \in [Buffers -> Flags]
      /\ payload' \in [Buffers -> Payloads]
  BY <1>1 DEF IInv, TypeOK, IsFree, RefCntMax, Flags
<1>7. \A x \in Buffers : /\ FrontCalled(x)' <=> FrontCalled(x)
                         /\ FrontDone(x)' <=> FrontDone(x)
  BY <1>2 DEF FrontCalled, FrontDone, SamePhase, Dispatching
<1>8. ~FrontCalled(b) /\ ~FrontDone(b)
  BY <1>4, FrontIsQueued, ConstantsAssumption DEF FrontCalled, FrontDone, Dispatching
<1>9. BufferOK(b)'
  <2>1. /\ QueuedAt(b)' = {g_msgQueueTail}
        /\ HeldBy(b)' = {}
        /\ RetainedBy(b)' = {}
        /\ b \notin lost'
    BY <1>2, <1>4, <1>5
  <2>2. ~FrontCalled(b)' /\ ~FrontDone(b)'
    BY <1>7, <1>8
  <2>3. QED
    BY <2>1, <2>2, <1>6, PostedBuffer
<1>10. ASSUME NEW x \in Buffers, x # b PROVE BufferOK(x)'
  BY <1>10, <1>2, <1>5, <1>6, <1>7, SameBuffer DEF IInv
<1>11. QED
  BY <1>2, <1>6, <1>9, <1>10 DEF PostCopy

\* A message posted as NULL is no buffer's.
LEMMA PostNullStep ==
  ASSUME IInv, SamePhase, NEW id \in MsgIDs, PostNull(id), UNCHANGED clientVars
  PROVE  /\ g_msgQueue' \in [Index -> Entries]
         /\ g_msgQueueFront' \in Index
         /\ g_msgQueueTail' \in Index
         /\ g_msgQueueSize' \in 0 .. QueueSize
         /\ RingShape'
         /\ \A x \in Buffers : BufferOK(x)'
<1>1. /\ g_msgQueue' \in [Index -> Entries]
      /\ g_msgQueueFront' \in Index
      /\ g_msgQueueTail' \in Index
      /\ g_msgQueueSize' \in 0 .. QueueSize
      /\ RingShape'
      /\ Dispatching => Front' = Front
      /\ \A x \in Buffers : QueuedAt(x)' = IF x = NULL THEN QueuedAt(x) \cup {g_msgQueueTail}
                                                        ELSE QueuedAt(x)
  BY EnqueueQueued DEF PostNull
<1>2. \A x \in Buffers : x # NULL
  BY ConstantsAssumption
<1>3. lost' = lost /\ \A x : HeldBy(x)' = HeldBy(x) /\ RetainedBy(x)' = RetainedBy(x)
  BY DEF HeldBy, RetainedBy, clientVars
<1>4. refCnt' = refCnt /\ flags' = flags
  BY DEF PostNull, bufferVars
<1>5. \A x \in Buffers : /\ FrontCalled(x)' <=> FrontCalled(x)
                         /\ FrontDone(x)' <=> FrontDone(x)
  BY <1>1 DEF FrontCalled, FrontDone, SamePhase, Dispatching
<1>6. ASSUME NEW x \in Buffers PROVE BufferOK(x)'
  BY <1>1, <1>2, <1>3, <1>4, <1>5, SameBuffer DEF IInv
<1>7. QED
  BY <1>1, <1>6

-----------------------------------------------------------------------------
\* The actions, one lemma each; first those that are quiet steps.

\* The mutex counter stays in its range when it is unlocked,
LEMMA MutexType ==
  ASSUME TypeOK, MutexUnlock
  PROVE  g_lockCounter' \in 0 .. MaxLock
  BY ConstantsAssumption DEF TypeOK, MutexUnlock

\* and when a post finds the queue full and leaves it locked.
LEMMA FullQueueType ==
  ASSUME TypeOK, PostToFullQueue
  PROVE  g_lockCounter' \in 0 .. MaxLock
  BY ConstantsAssumption DEF TypeOK, PostToFullQueue

\* A producer that fills its buffer changes nothing that the invariants speak of,
LEMMA FillBufferStep ==
  ASSUME IInv, NEW p \in Producers, NEW v \in Payloads, FillBuffer(p, v)
  PROVE  IInv'
<1>1. TypeOK'
  BY DEF IInv, TypeOK, FillBuffer, queueVars, pumpVars, clientVars
<1>2. RingShape' /\ \A x \in Buffers : BufferOK(x)'
  BY QuietStep DEF FillBuffer, SamePhase, Calling, queueVars, pumpVars, clientVars
<1>3. QED
  BY <1>1, <1>2 DEF IInv, FillBuffer, pumpVars

\* nor does the timer interrupt where it posts nothing,
LEMMA TimerQuietStep ==
  ASSUME IInv, TimerEnter \/ TimerUnlockAgain \/ TimerPostFails \/ TimerExit
  PROVE  IInv'
<1>1. /\ UNCHANGED <<queueVars, bufferVars, callbackVector, pumpVars, clientVars>>
      /\ g_lockCounter' \in 0 .. MaxLock
      /\ timer' \in {"idle", "run", "unlockAgain"}
  BY MutexType, FullQueueType, ConstantsAssumption
     DEF IInv, TypeOK, TimerEnter, TimerUnlockAgain, TimerPostFails, TimerExit,
         PostToFullQueue
<1>2. TypeOK'
  BY <1>1 DEF IInv, TypeOK, queueVars, bufferVars, pumpVars, clientVars
<1>3. RingShape' /\ \A x \in Buffers : BufferOK(x)'
  BY <1>1, QuietStep DEF SamePhase, Calling, bufferVars, pumpVars, clientVars
<1>4. QED
  BY <1>1, <1>2, <1>3 DEF IInv, pumpVars

\* nor do receivers that come and go,
LEMMA RegistrationStep ==
  ASSUME IInv, NEW r \in ProxyReceivers, NEW id \in MsgIDs,
         BodyRegister(r, id) \/ BodyUnregister(r, id)
  PROVE  IInv'
<1>1. UNCHANGED <<queueVars, bufferVars, g_lockCounter, pumpVars, timer, clientVars>>
  BY DEF BodyRegister, BodyUnregister
<1>2. callbackVector' \in [MsgIDs -> [Slots -> Receivers \cup {NULL}]]
  <2>1. /\ callbackVector \in [MsgIDs -> [Slots -> Receivers \cup {NULL}]]
        /\ r \in Receivers
    BY ConstantsAssumption DEF IInv, TypeOK
  <2>2. PICK s \in Slots, c \in {r, NULL} :
          callbackVector' = [callbackVector EXCEPT ![id][s] = c]
    BY DEF BodyRegister, BodyUnregister
  <2>3. QED
    BY <2>1, <2>2
<1>3. TypeOK'
  BY <1>1, <1>2 DEF IInv, TypeOK, queueVars, bufferVars, pumpVars, clientVars
<1>4. RingShape' /\ \A x \in Buffers : BufferOK(x)'
  BY <1>1, QuietStep DEF SamePhase, Calling, bufferVars, pumpVars, clientVars
<1>5. QED
  BY <1>1, <1>3, <1>4 DEF IInv, pumpVars

\* nor does the call of a receiver,
LEMMA CallReceiverStep ==
  ASSUME IInv, CallReceiver
  PROVE  IInv'
<1> DEFINE callback == callbackVector[Front.id][slot]
<1>1. Front.id \in MsgIDs /\ slot \in Slots
  BY ConstantsAssumption DEF IInv, TypeOK, CallReceiver, Slots, Front, Entries
<1>2. callback \in Receivers \cup {NULL}
  BY <1>1 DEF IInv, TypeOK
<1>3. /\ slot' \in 0 .. MaxReceivers
      /\ \/ callback = NULL /\ UNCHANGED <<pc, running, served>>
         \/ callback # NULL /\ pc' = "body" /\ running' = callback
              /\ served' = served \cup {callback}
      /\ UNCHANGED <<queueVars, bufferVars, callbackVector, g_lockCounter, timer,
                     clientVars>>
  BY <1>1, ConstantsAssumption DEF CallReceiver, Slots
<1>4. TypeOK'
  BY <1>2, <1>3 DEF IInv, TypeOK, queueVars, bufferVars, clientVars
<1>5. pc = "call"
  BY DEF CallReceiver
<1>6. RingShape' /\ \A x \in Buffers : BufferOK(x)'
  BY <1>3, <1>5, QuietStep DEF SamePhase, Calling, bufferVars, clientVars
<1>7. QED
  BY <1>3, <1>4, <1>5, <1>6 DEF IInv

\* nor its return.
LEMMA BackToLoopStep ==
  ASSUME IInv, BodyUnlockAgain \/ Return
  PROVE  IInv'
<1>1. /\ \/ pc = "unlockAgain" /\ pc' = "return" /\ running' = running
         \/ pc \in {"body", "return"} /\ pc' = "call" /\ running' = NULL
      /\ g_lockCounter' \in 0 .. MaxLock
      /\ UNCHANGED <<queueVars, bufferVars, callbackVector, slot, served, timer,
                     clientVars>>
  BY MutexType DEF IInv, TypeOK, BodyUnlockAgain, Return
<1>2. TypeOK'
  BY <1>1 DEF IInv, TypeOK, queueVars, bufferVars, clientVars
<1>3. RingShape' /\ \A x \in Buffers : BufferOK(x)'
  BY <1>1, QuietStep DEF SamePhase, Calling, bufferVars, clientVars
<1>4. QED
  BY <1>1, <1>2, <1>3 DEF IInv

-----------------------------------------------------------------------------
\* The posts.

\* The posts of a handler, the timer or a callback that are copied
LEMMA PostOwnDataStep ==
  ASSUME IInv, NEW id \in CopiedIDs, NEW v \in Payloads,
         InterruptPostCopy(id, v) \/ TimerPostCopy(id, v) \/ BodyPostCopy(id, v)
  PROVE  IInv'
<1>1. id \in MsgIDs
  BY ConstantsAssumption
<1>2. /\ UNCHANGED <<callbackVector, slot, running, served>>
      /\ UNCHANGED clientVars
      /\ timer' \in {"idle", "run", "unlockAgain"}
      /\ \/ pc' = pc
         \/ pc = "body" /\ pc' \in {"unlockAgain", "return"}
  BY DEF IInv, TypeOK, InterruptPostCopy, TimerPostCopy, BodyPostCopy, pumpVars
<1>3. SamePhase
  BY <1>2 DEF SamePhase, Calling
<1>4. CASE PostCopy(id, v)
  <2>1. /\ g_msgQueue' \in [Index -> Entries]
        /\ g_msgQueueFront' \in Index
        /\ g_msgQueueTail' \in Index
        /\ g_msgQueueSize' \in 0 .. QueueSize
        /\ refCnt' \in [Buffers -> 0 .. RefCntMax]
        /\ flags' \in [Buffers -> Flags]
        /\ payload' \in [Buffers -> Payloads]
        /\ g_lockCounter' = g_lockCounter
        /\ RingShape'
        /\ \A x \in Buffers : BufferOK(x)'
    BY <1>1, <1>2, <1>3, <1>4, PostCopyStep
  <2>2. TypeOK'
    BY <2>1, <1>2 DEF IInv, TypeOK, clientVars
  <2>3. QED
    BY <2>1, <2>2, <1>2 DEF IInv
<1>5. CASE PostToFullQueue
  <2>1. g_lockCounter' \in 0 .. MaxLock /\ UNCHANGED <<queueVars, bufferVars>>
    BY <1>5, FullQueueType DEF IInv, PostToFullQueue
  <2>2. TypeOK'
    BY <2>1, <1>2 DEF IInv, TypeOK, queueVars, bufferVars, clientVars
  <2>3. RingShape' /\ \A x \in Buffers : BufferOK(x)'
    BY <2>1, <1>2, <1>3, QuietStep DEF bufferVars, clientVars
  <2>4. QED
    BY <2>2, <2>3, <1>2 DEF IInv
<1>6. QED
  BY <1>4, <1>5 DEF InterruptPostCopy, TimerPostCopy, BodyPostCopy

\* A message posted as NULL takes a place of the ring, and no buffer.
LEMMA TimerPostNullStep ==
  ASSUME IInv, NEW id \in NullIDs, TimerPostNull(id)
  PROVE  IInv'
<1>1. id \in MsgIDs
  BY ConstantsAssumption
<1>2. /\ UNCHANGED <<callbackVector, pumpVars, timer, clientVars, bufferVars, g_lockCounter>>
      /\ PostNull(id)
  BY DEF TimerPostNull, PostNull
<1>3. SamePhase
  BY <1>2 DEF SamePhase, Calling, pumpVars
<1>4. /\ g_msgQueue' \in [Index -> Entries]
      /\ g_msgQueueFront' \in Index
      /\ g_msgQueueTail' \in Index
      /\ g_msgQueueSize' \in 0 .. QueueSize
      /\ RingShape'
      /\ \A x \in Buffers : BufferOK(x)'
  BY <1>1, <1>2, <1>3, PostNullStep
<1>5. TypeOK'
  BY <1>2, <1>4 DEF IInv, TypeOK, pumpVars, clientVars, bufferVars
<1>6. QED
  BY <1>2, <1>4, <1>5 DEF IInv, pumpVars

\* A fetched buffer is its producer's and nobody else's.
LEMMA HeldBuffer ==
  ASSUME IInv, NEW p \in Producers, held[p] # NULL
  PROVE  /\ held[p] \in Buffers
         /\ HeldBy(held[p]) = {p}
         /\ QueuedAt(held[p]) = {}
         /\ RetainedBy(held[p]) = {}
         /\ held[p] \notin lost
         /\ refCnt[held[p]] = 1
         /\ flags[held[p]] = "InUse"
         /\ ~FrontCalled(held[p])
         /\ ~FrontDone(held[p])
<1> DEFINE b == held[p]
<1>1. b \in Buffers
  BY DEF IInv, TypeOK
<1>2. p \in HeldBy(b)
  BY DEF HeldBy
<1>3. BufferOK(b)
  BY <1>1 DEF IInv
<1>4. /\ HeldBy(b) = {p}
      /\ QueuedAt(b) = {} /\ RetainedBy(b) = {} /\ b \notin lost
      /\ flags[b] = "InUse"
  BY <1>2, <1>3 DEF BufferOK
<1>5. {b} \cap lost = {}
  BY <1>4
<1>6. Used({p}) = 1 /\ Used({}) = 0 /\ Cardinality({}) = 0
  BY FS_EmptySet DEF Used
<1>7. refCnt[b] = Used(QueuedAt(b)) + Used(HeldBy(b)) + Cardinality(RetainedBy(b))
                    + Used({b} \cap lost)
  BY <1>3 DEF BufferOK
<1>8. refCnt[b] = 1
  BY <1>4, <1>5, <1>6, <1>7
<1>9. ~FrontCalled(b) /\ ~FrontDone(b)
  BY <1>1, <1>4, FrontIsQueued DEF FrontCalled, FrontDone, Dispatching
<1>10. QED
  BY <1>1, <1>4, <1>8, <1>9

\* A post of a fetched buffer: the producer's reference becomes the ring's.
LEMMA PostHeldStep ==
  ASSUME StaleProducers = {}, IInv, NEW p \in Producers, PostHeld(p)
  PROVE  IInv'
<1>1. PICK b \in Buffers :
      /\ b = held[p]
      /\ HeldBy(b) = {p}
      /\ QueuedAt(b) = {}
      /\ RetainedBy(b) = {}
      /\ b \notin lost
      /\ refCnt[b] = 1
      /\ ~FrontCalled(b) /\ ~FrontDone(b)
  BY HeldBuffer DEF PostHeld
<1>2. /\ ~QueueFull
      /\ flags' = [flags EXCEPT ![b] = "PostedNotDispatched"]
      /\ Enqueue(b, PoolOf[b])
      /\ UNCHANGED <<refCnt, payload, g_lockCounter>>
      /\ held' = [held EXCEPT ![p] = NULL]
      /\ UNCHANGED <<callbackVector, pumpVars, timer, retained, lost>>
  BY <1>1 DEF PostHeld, PostOwnBuffer
<1>3. SamePhase
  BY <1>2 DEF SamePhase, Calling, pumpVars
<1>4. /\ g_msgQueue' \in [Index -> Entries]
      /\ g_msgQueueFront' \in Index
      /\ g_msgQueueTail' \in Index
      /\ g_msgQueueSize' \in 0 .. QueueSize
      /\ RingShape'
      /\ Dispatching => Front' = Front
      /\ \A x \in Buffers : QueuedAt(x)' = IF x = b THEN QueuedAt(x) \cup {g_msgQueueTail}
                                                     ELSE QueuedAt(x)
  <2>1. PoolOf[b] \in MsgIDs
    BY ConstantsAssumption
  <2>2. QED
    BY <2>1, <1>1, <1>2, <1>3, EnqueueQueued
<1>5. TypeOK'
  BY <1>1, <1>2, <1>4 DEF IInv, TypeOK, pumpVars, Flags
<1>6. /\ HeldBy(b)' = {}
      /\ \A x \in Buffers \ {b} : HeldBy(x)' = HeldBy(x)
      /\ \A x : RetainedBy(x)' = RetainedBy(x)
  BY <1>1, <1>2, ConstantsAssumption DEF IInv, TypeOK, HeldBy, RetainedBy
<1>7. /\ flags'[b] = "PostedNotDispatched"
      /\ \A x \in Buffers \ {b} : flags'[x] = flags[x]
  BY <1>1, <1>2 DEF IInv, TypeOK
<1>8. \A x \in Buffers : /\ FrontCalled(x)' <=> FrontCalled(x)
                         /\ FrontDone(x)' <=> FrontDone(x)
  BY <1>3, <1>4 DEF FrontCalled, FrontDone, SamePhase, Dispatching
<1>9. BufferOK(b)'
  <2>1. /\ QueuedAt(b)' = {g_msgQueueTail}
        /\ RetainedBy(b)' = {}
        /\ b \notin lost'
        /\ refCnt'[b] = 1
        /\ ~FrontCalled(b)' /\ ~FrontDone(b)'
    BY <1>1, <1>2, <1>4, <1>6, <1>8
  <2>2. QED
    BY <2>1, <1>6, <1>7, PostedBuffer
<1>10. ASSUME NEW x \in Buffers, x # b PROVE BufferOK(x)'
  BY <1>10, <1>2, <1>4, <1>6, <1>7, <1>8, SameBuffer DEF IInv
<1>11. QED
  BY <1>2, <1>4, <1>5, <1>9, <1>10 DEF IInv, pumpVars

\* A post that fails: the reference stays the producer's, or nobody's for ever.
LEMMA PostHeldFailsStep ==
  ASSUME IInv, NEW p \in Producers, PostHeldFails(p)
  PROVE  IInv'
<1>1. PICK b \in Buffers :
      /\ b = held[p]
      /\ HeldBy(b) = {p}
      /\ QueuedAt(b) = {}
      /\ RetainedBy(b) = {}
      /\ b \notin lost
      /\ refCnt[b] = 1
      /\ flags[b] = "InUse"
  BY HeldBuffer DEF PostHeldFails
<1>2. /\ UNCHANGED <<queueVars, bufferVars, callbackVector, pumpVars, timer, retained>>
      /\ g_lockCounter' \in 0 .. MaxLock
      /\ \/ UNCHANGED <<held, lost>>
         \/ held' = [held EXCEPT ![p] = NULL] /\ lost' = lost \cup {b}
  BY <1>1, FullQueueType DEF IInv, PostHeldFails, PostToFullQueue
<1>3. TypeOK'
  BY <1>2 DEF IInv, TypeOK, queueVars, bufferVars, pumpVars
<1>4. SamePhase
  BY <1>2 DEF SamePhase, Calling, pumpVars
<1>5. CASE UNCHANGED <<held, lost>>
  <2>1. RingShape' /\ \A x \in Buffers : BufferOK(x)'
    BY <1>2, <1>4, <1>5, QuietStep DEF bufferVars
  <2>2. QED
    BY <2>1, <1>2, <1>3 DEF IInv, pumpVars
<1>6. CASE held' = [held EXCEPT ![p] = NULL] /\ lost' = lost \cup {b}
  <2>1. RingShape'
    BY <1>2 DEF IInv, RingShape, queueVars, pumpVars
  <2>2. \A x : /\ QueuedAt(x)' = QueuedAt(x)
               /\ RetainedBy(x)' = RetainedBy(x)
               /\ FrontCalled(x)' <=> FrontCalled(x)
               /\ FrontDone(x)' <=> FrontDone(x)
    BY <1>2, <1>4 DEF QueuedAt, RetainedBy, Live, InRing, FrontCalled, FrontDone, Front,
                      SamePhase, queueVars
  <2>3. /\ HeldBy(b)' = {}
        /\ \A x \in Buffers \ {b} : HeldBy(x)' = HeldBy(x)
    BY <1>1, <1>6, ConstantsAssumption DEF IInv, TypeOK, HeldBy
  <2>4. BufferOK(b)'
    <3>1. ({b} \cap lost)' = {b} /\ b \in lost'
      BY <1>6
    <3>2. Used({b}) = 1 /\ Used({}) = 0 /\ Cardinality({}) = 0
      BY FS_EmptySet DEF Used
    <3>3. /\ QueuedAt(b)' = {} /\ HeldBy(b)' = {} /\ RetainedBy(b)' = {}
          /\ refCnt'[b] = 1 /\ flags'[b] = "InUse"
      BY <1>1, <1>2, <2>2, <2>3 DEF bufferVars
    <3>4. refCnt'[b] = Used(QueuedAt(b)') + Used(HeldBy(b)') + Cardinality(RetainedBy(b)')
                         + Used(({b} \cap lost)')
      BY <3>1, <3>2, <3>3
    <3>5. QED
      BY <3>1, <3>3, <3>4 DEF BufferOK
  <2>5. ASSUME NEW x \in Buffers, x # b PROVE BufferOK(x)'
    BY <2>5, <1>2, <1>6, <2>2, <2>3, SameBuffer DEF IInv, bufferVars
  <2>6. QED
    BY <1>2, <1>3, <2>1, <2>4, <2>5 DEF IInv, pumpVars
<1>7. QED
  BY <1>2, <1>5, <1>6

\* The recovery of a buffer its poster did not own is never reached.
LEMMA PostStaleStep ==
  ASSUME IInv, NEW p \in Producers
  PROVE  ~PostStale(p)
  BY HeldBuffer DEF PostStale, RecoverBuffer

\* A buffer that is fetched was nobody's, and is the producer's.
LEMMA GetFreeBufferStep ==
  ASSUME IInv, NEW p \in Producers, GetFreeBuffer(p)
  PROVE  IInv'
<1>1. PICK b \in Buffers :
        /\ IsFree(b)
        /\ refCnt' = [refCnt EXCEPT ![b] = @ + 1]
        /\ flags' = [flags EXCEPT ![b] = "InUse"]
        /\ held' = [held EXCEPT ![p] = b]
  BY DEF GetFreeBuffer
<1>2. /\ UNCHANGED <<queueVars, payload, callbackVector, g_lockCounter, pumpVars,
                     timer, retained, lost>>
      /\ held[p] = NULL
  BY DEF GetFreeBuffer
<1>3. BufferOK(b) /\ refCnt[b] = 0
  BY <1>1 DEF IInv, IsFree
<1>4. /\ QueuedAt(b) = {}
      /\ HeldBy(b) = {}
      /\ RetainedBy(b) = {}
      /\ b \notin lost
  BY <1>3, FreeIsUnused
<1>5. /\ refCnt'[b] = 1
      /\ flags'[b] = "InUse"
      /\ \A x \in Buffers \ {b} : refCnt'[x] = refCnt[x] /\ flags'[x] = flags[x]
      /\ refCnt' \in [Buffers -> 0 .. RefCntMax]
      /\ flags' \in [Buffers -> Flags]
  BY <1>1 DEF IInv, TypeOK, IsFree, RefCntMax, Flags
<1>6. TypeOK'
  BY <1>1, <1>2, <1>5 DEF IInv, TypeOK, queueVars, pumpVars
<1>7. RingShape'
  BY <1>2 DEF IInv, RingShape, queueVars, pumpVars
<1>8. \A x : /\ QueuedAt(x)' = QueuedAt(x)
             /\ RetainedBy(x)' = RetainedBy(x)
             /\ FrontCalled(x)' <=> FrontCalled(x)
             /\ FrontDone(x)' <=> FrontDone(x)
  BY <1>2 DEF QueuedAt, RetainedBy, Live, InRing, FrontCalled, FrontDone, Front, Calling,
              queueVars, pumpVars
<1>9. /\ HeldBy(b)' = {p}
      /\ \A x \in Buffers \ {b} : HeldBy(x)' = HeldBy(x)
  <2>1. held \in [Producers -> Buffers \cup {NULL}] /\ \A q \in Producers : held[q] # b
    BY <1>4 DEF IInv, TypeOK, HeldBy
  <2>2. QED
    BY <2>1, <1>1, <1>2, ConstantsAssumption DEF HeldBy
<1>10. BufferOK(b)'
  <2>1. ({b} \cap lost)' = {} /\ b \notin lost'
    BY <1>2, <1>4
  <2>2. Used({p}) = 1 /\ Used({}) = 0 /\ Cardinality({}) = 0
    BY FS_EmptySet DEF Used
  <2>3. QueuedAt(b)' = {} /\ HeldBy(b)' = {p} /\ RetainedBy(b)' = {}
    BY <1>4, <1>8, <1>9
  <2>4. refCnt'[b] = Used(QueuedAt(b)') + Used(HeldBy(b)') + Cardinality(RetainedBy(b)')
                       + Used(({b} \cap lost)')
    <3>1. /\ Used(QueuedAt(b)') = 0 /\ Used(HeldBy(b)') = 1
          /\ Cardinality(RetainedBy(b)') = 0 /\ Used(({b} \cap lost)') = 0
      BY <2>1, <2>2, <2>3
    <3>2. QED
      BY <3>1, <1>5
  <2>5. QED
    BY <2>1, <2>3, <2>4, <1>5 DEF BufferOK
<1>11. ASSUME NEW x \in Buffers, x # b PROVE BufferOK(x)'
  BY <1>11, <1>2, <1>5, <1>8, <1>9, SameBuffer DEF IInv
<1>12. QED
  BY <1>2, <1>6, <1>7, <1>10, <1>11 DEF IInv, pumpVars

-----------------------------------------------------------------------------
\* The main loop, and the callbacks that lock and unlock.

\* Taking up the front marks its buffer as in use.
LEMMA TakeStep ==
  ASSUME IInv, Take
  PROVE  IInv'
<1>1. /\ pc = "poll" /\ pc' = "call" /\ g_msgQueueSize # 0
      /\ UNCHANGED <<queueVars, refCnt, payload, callbackVector, g_lockCounter,
                     running, timer, clientVars>>
  BY DEF Take
<1>2. Front \in Entries /\ g_msgQueueFront \in Index
  BY DEF IInv, TypeOK, Front
<1>3. Front.buffer \in Buffers \cup {NULL}
  BY <1>2 DEF Entries
<1>4. flags' = IF Front.buffer = NULL THEN flags ELSE [flags EXCEPT ![Front.buffer] = "InUse"]
  BY DEF Take
<1>5. /\ slot' \in 0 .. MaxReceivers
      /\ served' = {}
      /\ flags' \in [Buffers -> Flags]
  BY <1>3, <1>4, ConstantsAssumption DEF IInv, TypeOK, Take, Flags
<1>6. TypeOK'
  BY <1>1, <1>5 DEF IInv, TypeOK, queueVars, clientVars
<1>7. RingShape'
  BY <1>1 DEF IInv, RingShape, queueVars
<1>8. \A x : /\ QueuedAt(x)' = QueuedAt(x)
             /\ HeldBy(x)' = HeldBy(x)
             /\ RetainedBy(x)' = RetainedBy(x)
  BY <1>1 DEF QueuedAt, HeldBy, RetainedBy, Live, InRing, queueVars, clientVars
<1>9. ASSUME NEW x \in Buffers PROVE BufferOK(x)'
  <2>1. BufferOK(x)
    BY DEF IInv
  <2>2. Front' = Front /\ Calling' /\ ~Calling /\ pc' # "unlock"
    BY <1>1 DEF Front, Calling, queueVars
  <2>3. CASE Front.buffer = x
    <3>1. x # NULL
      BY ConstantsAssumption
    <3>2. flags'[x] = "InUse"
      BY <2>3, <3>1, <1>4 DEF IInv, TypeOK
    <3>3. ({x} \cap lost)' = {x} \cap lost /\ lost' = lost /\ refCnt' = refCnt
      BY <1>1 DEF clientVars
    <3>4. QED
      BY <2>1, <2>2, <2>3, <3>2, <3>3, <1>8 DEF BufferOK, Used
  <2>4. CASE Front.buffer # x
    <3>1. flags'[x] = flags[x]
      BY <2>4, <1>3, <1>4 DEF IInv, TypeOK
    <3>2. /\ FrontCalled(x)' <=> FrontCalled(x)
          /\ FrontDone(x)' <=> FrontDone(x)
      BY <2>2, <2>4 DEF FrontCalled, FrontDone
    <3>3. QED
      BY <2>1, <3>1, <3>2, <1>1, <1>8, SameBuffer DEF clientVars
  <2>5. QED
    BY <2>3, <2>4
<1>10. QED
  BY <1>1, <1>6, <1>7, <1>9 DEF IInv

\* The last receiver has returned: the buffer is only locked any more.
LEMMA EndCallsStep ==
  ASSUME IInv, EndCalls
  PROVE  IInv'
<1>1. /\ pc = "call" /\ pc' = "unlock"
      /\ UNCHANGED <<queueVars, refCnt, payload, callbackVector, g_lockCounter, slot,
                     running, served, timer, clientVars>>
  BY DEF EndCalls
<1>2. Front \in Entries
  BY DEF IInv, TypeOK, Front
<1>3. Front.buffer \in Buffers \cup {NULL}
  BY <1>2 DEF Entries
<1>4. flags' = IF Front.buffer = NULL THEN flags ELSE [flags EXCEPT ![Front.buffer] = "Nothing"]
  BY DEF EndCalls
<1>5. flags' \in [Buffers -> Flags]
  BY <1>3, <1>4 DEF IInv, TypeOK, Flags
<1>6. TypeOK'
  BY <1>1, <1>5 DEF IInv, TypeOK, queueVars, clientVars
<1>7. RingShape'
  BY <1>1 DEF IInv, RingShape, queueVars
<1>8. \A x : /\ QueuedAt(x)' = QueuedAt(x)
             /\ HeldBy(x)' = HeldBy(x)
             /\ RetainedBy(x)' = RetainedBy(x)
  BY <1>1 DEF QueuedAt, HeldBy, RetainedBy, Live, InRing, queueVars, clientVars
<1>9. ASSUME NEW x \in Buffers PROVE BufferOK(x)'
  <2>1. BufferOK(x)
    BY DEF IInv
  <2>2. Front' = Front /\ ~Calling'
    BY <1>1 DEF Front, Calling, queueVars
  <2>3. CASE Front.buffer = x
    <3>1. x # NULL
      BY ConstantsAssumption
    <3>2. flags'[x] = "Nothing"
      BY <2>3, <3>1, <1>4 DEF IInv, TypeOK
    <3>3. HeldBy(x) = {} /\ x \notin lost
      BY <2>3, <3>1, <1>1, FrontIsQueued DEF Dispatching, Calling
    <3>4. ({x} \cap lost)' = {x} \cap lost /\ lost' = lost /\ refCnt' = refCnt
      BY <1>1 DEF clientVars
    <3>5. QED
      BY <2>1, <2>2, <2>3, <3>2, <3>3, <3>4, <1>1, <1>8 DEF BufferOK, Used
  <2>4. CASE Front.buffer # x
    <3>1. flags'[x] = flags[x]
      BY <2>4, <1>3, <1>4 DEF IInv, TypeOK
    <3>2. /\ FrontCalled(x)' <=> FrontCalled(x)
          /\ FrontDone(x)' <=> FrontDone(x)
      BY <2>2, <2>4 DEF FrontCalled, FrontDone
    <3>3. QED
      BY <2>1, <3>1, <3>2, <1>1, <1>8, SameBuffer DEF clientVars
  <2>5. QED
    BY <2>3, <2>4
<1>10. QED
  BY <1>1, <1>6, <1>7, <1>9 DEF IInv

\* Advancing takes an entry out of the ring that does not count any more.
LEMMA AdvanceStep ==
  ASSUME IInv, Advance
  PROVE  IInv'
<1>1. /\ pc = "advance" /\ pc' = "poll"
      /\ UNCHANGED <<g_msgQueue, g_msgQueueTail, bufferVars, callbackVector,
                     g_lockCounter, slot, running, served, timer, clientVars>>
  BY DEF Advance
<1>2. /\ g_msgQueueFront' \in Index
      /\ g_msgQueueSize' \in 0 .. QueueSize
      /\ \/ g_msgQueueTail' = g_msgQueueFront' + g_msgQueueSize'
         \/ g_msgQueueTail' = g_msgQueueFront' + g_msgQueueSize' - QueueSize
      /\ \A i \in Index : InRing(i)' <=> InRing(i) /\ i # g_msgQueueFront
  BY AdvanceRing DEF IInv, RingShape, Advance
<1>3. TypeOK'
  BY <1>1, <1>2 DEF IInv, TypeOK, bufferVars, clientVars
<1>4. RingShape'
  BY <1>1, <1>2 DEF RingShape
<1>5. \A i \in Index : Live(i)' <=> Live(i)
  BY <1>1, <1>2 DEF Live
<1>6. \A x : /\ QueuedAt(x)' = QueuedAt(x)
             /\ HeldBy(x)' = HeldBy(x)
             /\ RetainedBy(x)' = RetainedBy(x)
             /\ FrontCalled(x)' <=> FrontCalled(x)
             /\ FrontDone(x)' <=> FrontDone(x)
  BY <1>1, <1>5 DEF QueuedAt, HeldBy, RetainedBy, FrontCalled, FrontDone, Calling, clientVars
<1>7. ASSUME NEW x \in Buffers PROVE BufferOK(x)'
  BY <1>1, <1>6, SameBuffer DEF IInv, bufferVars, clientVars
<1>8. QED
  BY <1>1, <1>3, <1>4, <1>7 DEF IInv

\* A callback locks the message it is given: one more receiver relies on it.
LEMMA BodyLockStep ==
  ASSUME IInv, BodyLock
  PROVE  IInv'
<1>1. /\ pc = "body" /\ Front.buffer # NULL
      /\ UNCHANGED <<queueVars, flags, payload, callbackVector, g_lockCounter,
                     pumpVars, timer, held, lost>>
  BY DEF BodyLock
<1>2. PICK b \in Buffers :
        /\ b = Front.buffer
        /\ HeldBy(b) = {}
  BY <1>1, FrontIsQueued DEF Dispatching, Calling
<1>3. /\ refCnt[b] < RefCntMax
      /\ refCnt' = [refCnt EXCEPT ![b] = @ + 1]
      /\ retained' = [retained EXCEPT ![running] = b]
      /\ retained[running] = NULL
      /\ running \in Receivers
  BY <1>2, <1>1 DEF BodyLock, Lockable, IInv, TypeOK
<1>4. refCnt' \in [Buffers -> 0 .. RefCntMax] /\ refCnt'[b] = refCnt[b] + 1
  <2>1. refCnt \in [Buffers -> 0 .. RefCntMax] /\ RefCntMax \in Nat
    BY DEF IInv, TypeOK, RefCntMax
  <2>2. refCnt[b] + 1 \in 0 .. RefCntMax
    BY <1>3, <2>1
  <2>3. QED
    BY <1>3, <2>1, <2>2
<1>5. TypeOK'
  BY <1>1, <1>3, <1>4 DEF IInv, TypeOK, queueVars, pumpVars
<1>6. RingShape'
  BY <1>1 DEF IInv, RingShape, queueVars, pumpVars
<1>7. \A x : /\ QueuedAt(x)' = QueuedAt(x)
             /\ HeldBy(x)' = HeldBy(x)
             /\ FrontCalled(x)' <=> FrontCalled(x)
             /\ FrontDone(x)' <=> FrontDone(x)
  BY <1>1 DEF QueuedAt, HeldBy, Live, InRing, FrontCalled, FrontDone, Front, Calling,
              queueVars, pumpVars
<1>8. /\ running \notin RetainedBy(b)
      /\ RetainedBy(b)' = RetainedBy(b) \cup {running}
      /\ \A x \in Buffers \ {b} : RetainedBy(x)' = RetainedBy(x)
  BY <1>3, ConstantsAssumption DEF IInv, TypeOK, RetainedBy
<1>9. Cardinality(RetainedBy(b)') = Cardinality(RetainedBy(b)) + 1
  BY <1>8, RetainedByFinite, FS_AddElement
<1>10. BufferOK(b)'
  <2>1. BufferOK(b)
    BY DEF IInv
  <2>2. ({b} \cap lost)' = {b} \cap lost /\ lost' = lost /\ flags' = flags
    BY <1>1
  <2>3. refCnt'[b] = Used(QueuedAt(b)') + Used(HeldBy(b)') + Cardinality(RetainedBy(b)')
                       + Used(({b} \cap lost)')
    <3>1. refCnt[b] = Used(QueuedAt(b)) + Used(HeldBy(b)) + Cardinality(RetainedBy(b))
                        + Used({b} \cap lost)
      BY <2>1 DEF BufferOK
    <3>2. /\ Used(QueuedAt(b)) \in Nat /\ Used(HeldBy(b)) \in Nat
          /\ Used({b} \cap lost) \in Nat /\ Cardinality(RetainedBy(b)) \in Nat
      BY RetainedByFinite DEF Used
    <3>3. QED
      BY <3>1, <3>2, <1>4, <1>7, <1>9, <2>2
  <2>4. QED
    BY <2>1, <2>2, <2>3, <1>2, <1>7 DEF BufferOK, FrontCalled, FrontDone
<1>11. ASSUME NEW x \in Buffers, x # b PROVE BufferOK(x)'
  BY <1>11, <1>1, <1>3, <1>7, <1>8, SameBuffer DEF IInv, TypeOK
<1>12. QED
  BY <1>1, <1>5, <1>6, <1>10, <1>11 DEF IInv, pumpVars

\* A callback unlocks the message it had locked.
LEMMA BodyUnlockStep ==
  ASSUME IInv, BodyUnlock
  PROVE  IInv'
<1>1. /\ UNCHANGED <<queueVars, flags, payload, callbackVector, pumpVars, timer,
                     held, lost>>
      /\ pc = "body" /\ retained[running] # NULL
      /\ g_lockCounter' \in 0 .. MaxLock
  BY MutexType DEF BodyUnlock, IInv
<1>2. PICK b \in Buffers : b = retained[running]
  BY <1>1 DEF IInv, TypeOK
<1>3. BufferOK(b) /\ running \in Receivers /\ running \in RetainedBy(b)
  BY <1>1, <1>2 DEF IInv, TypeOK, RetainedBy
<1>4. /\ IsFiniteSet(RetainedBy(b))
      /\ Cardinality(RetainedBy(b)) \in Nat
      /\ Cardinality(RetainedBy(b)) # 0
  BY <1>3, RetainedByFinite, FS_EmptySet
<1>5. refCnt[b] = Used(QueuedAt(b)) + Used(HeldBy(b)) + Cardinality(RetainedBy(b))
                    + Used({b} \cap lost)
  BY <1>3 DEF BufferOK
<1>6. /\ Used(QueuedAt(b)) \in Nat /\ Used(HeldBy(b)) \in Nat
      /\ Used({b} \cap lost) \in Nat
  BY DEF Used
<1>7. flags[b] # "NotUsable"
  BY <1>3 DEF BufferOK
<1>8. Unlockable(b)
  BY <1>4, <1>5, <1>6, <1>7 DEF Unlockable
<1>9. /\ refCnt' = [refCnt EXCEPT ![b] = @ - 1]
      /\ retained' = [retained EXCEPT ![running] = NULL]
  BY <1>2, <1>8 DEF BodyUnlock
<1>10. refCnt' \in [Buffers -> 0 .. RefCntMax] /\ refCnt'[b] = refCnt[b] - 1
  BY <1>8, <1>9 DEF IInv, TypeOK, RefCntMax, Unlockable
<1>11. TypeOK'
  BY <1>1, <1>9, <1>10 DEF IInv, TypeOK, queueVars, pumpVars
<1>12. RingShape'
  BY <1>1 DEF IInv, RingShape, queueVars, pumpVars
<1>13. \A x : /\ QueuedAt(x)' = QueuedAt(x)
              /\ HeldBy(x)' = HeldBy(x)
              /\ FrontCalled(x)' <=> FrontCalled(x)
              /\ FrontDone(x)' <=> FrontDone(x)
  BY <1>1 DEF QueuedAt, HeldBy, Live, InRing, FrontCalled, FrontDone, Front, Calling,
              queueVars, pumpVars
<1>14. /\ RetainedBy(b)' = RetainedBy(b) \ {running}
       /\ \A x \in Buffers \ {b} : RetainedBy(x)' = RetainedBy(x)
  BY <1>2, <1>3, <1>9, ConstantsAssumption DEF IInv, TypeOK, RetainedBy
<1>15. Cardinality(RetainedBy(b)') = Cardinality(RetainedBy(b)) - 1
  BY <1>3, <1>4, <1>14, FS_RemoveElement
<1>16. BufferOK(b)'
  <2>1. ({b} \cap lost)' = {b} \cap lost /\ lost' = lost /\ flags' = flags
    BY <1>1
  <2>2. refCnt'[b] = Used(QueuedAt(b)') + Used(HeldBy(b)') + Cardinality(RetainedBy(b)')
                       + Used(({b} \cap lost)')
    BY <1>4, <1>5, <1>6, <1>10, <1>13, <1>15, <2>1
  <2>3. HeldBy(b) = {}
    BY <1>3 DEF BufferOK
  <2>4. QED
    BY <1>3, <1>13, <2>1, <2>2, <2>3 DEF BufferOK, FrontCalled, FrontDone
<1>17. ASSUME NEW x \in Buffers, x # b PROVE BufferOK(x)'
  BY <1>17, <1>1, <1>9, <1>13, <1>14, SameBuffer DEF IInv, TypeOK
<1>18. QED
  BY <1>1, <1>11, <1>12, <1>16, <1>17 DEF IInv, pumpVars

\* The pump's own unlock: the buffer leaves the ring, whatever the front says.
LEMMA UnlockFrontStep ==
  ASSUME IInv, UnlockFront
  PROVE  IInv'
<1>1. /\ pc = "unlock" /\ pc' = "advance" /\ served' = {}
      /\ UNCHANGED <<queueVars, flags, payload, callbackVector, slot, running, timer,
                     clientVars>>
  BY DEF UnlockFront
<1>2. g_lockCounter' \in 0 .. MaxLock
  BY MutexType DEF UnlockFront, IInv, TypeOK
<1>3. Front \in Entries /\ g_msgQueueFront \in Index
  BY DEF IInv, TypeOK, Front
<1>4. Front.buffer \in Buffers \cup {NULL}
  BY <1>3 DEF Entries
<1>5. \A i \in Index : Live(i)' <=> Live(i) /\ i # g_msgQueueFront
  BY <1>1 DEF Live, InRing, queueVars
<1>6. \A x : /\ QueuedAt(x)' = QueuedAt(x) \ {g_msgQueueFront}
             /\ HeldBy(x)' = HeldBy(x)
             /\ RetainedBy(x)' = RetainedBy(x)
             /\ ~FrontCalled(x)' /\ ~FrontCalled(x)
             /\ ~FrontDone(x)'
  BY <1>1, <1>5 DEF QueuedAt, HeldBy, RetainedBy, FrontCalled, FrontDone, Calling,
                    queueVars, clientVars
<1>7. \A x : x # Front.buffer => QueuedAt(x)' = QueuedAt(x) /\ ~FrontDone(x)
  BY <1>6 DEF QueuedAt, Front, FrontDone
<1>8. RingShape'
  BY <1>1 DEF IInv, RingShape, queueVars
<1>9. CASE Front.buffer = NULL
  <2>1. refCnt' = refCnt
    BY <1>9 DEF UnlockFront
  <2>2. TypeOK'
    BY <1>1, <1>2, <2>1 DEF IInv, TypeOK, queueVars, clientVars
  <2>3. ASSUME NEW x \in Buffers PROVE BufferOK(x)'
    <3>1. x # Front.buffer
      BY <1>9, ConstantsAssumption
    <3>2. QED
      BY <3>1, <2>1, <1>1, <1>6, <1>7, SameBuffer DEF IInv, clientVars
  <2>4. QED
    BY <1>1, <1>8, <2>2, <2>3 DEF IInv
<1>10. CASE Front.buffer # NULL
  <2>1. PICK b \in Buffers :
          /\ b = Front.buffer
          /\ QueuedAt(b) = {g_msgQueueFront}
          /\ HeldBy(b) = {}
          /\ b \notin lost
    BY <1>1, <1>10, FrontIsQueued DEF Dispatching
  <2>2. BufferOK(b)
    BY DEF IInv
  <2>3. flags[b] = "Nothing"
    BY <2>1, <2>2, <1>1 DEF BufferOK, Calling
  <2>4. {b} \cap lost = {} /\ Used({}) = 0 /\ Used({g_msgQueueFront}) = 1
    BY <2>1 DEF Used
  <2>5. refCnt[b] = 1 + Cardinality(RetainedBy(b)) /\ Cardinality(RetainedBy(b)) \in Nat
    <3>1. refCnt[b] = Used(QueuedAt(b)) + Used(HeldBy(b)) + Cardinality(RetainedBy(b))
                        + Used({b} \cap lost)
      BY <2>2 DEF BufferOK
    <3>2. Used(QueuedAt(b)) = 1 /\ Used(HeldBy(b)) = 0 /\ Used({b} \cap lost) = 0
      BY <2>1, <2>4
    <3>3. QED
      BY <3>1, <3>2, RetainedByFinite
  <2>6. Unlockable(b)
    BY <2>3, <2>5 DEF Unlockable
  <2>7. refCnt' = [refCnt EXCEPT ![b] = @ - 1]
    BY <2>1, <2>6, <1>10 DEF UnlockFront
  <2>8. refCnt' \in [Buffers -> 0 .. RefCntMax] /\ refCnt'[b] = Cardinality(RetainedBy(b))
    BY <2>5, <2>7 DEF IInv, TypeOK, RefCntMax
  <2>9. TypeOK'
    BY <1>1, <1>2, <2>8 DEF IInv, TypeOK, queueVars, clientVars
  <2>10. BufferOK(b)'
    <3>1. /\ QueuedAt(b)' = {} /\ HeldBy(b)' = {} /\ RetainedBy(b)' = RetainedBy(b)
          /\ ({b} \cap lost)' = {} /\ b \notin lost'
          /\ ~FrontCalled(b)' /\ ~FrontDone(b)'
          /\ flags'[b] = "Nothing"
      BY <1>1, <1>6, <2>1, <2>3, <2>4 DEF clientVars
    <3>2. refCnt'[b] = Used(QueuedAt(b)') + Used(HeldBy(b)') + Cardinality(RetainedBy(b)')
                         + Used(({b} \cap lost)')
      <4>1. /\ Used(QueuedAt(b)') = 0 /\ Used(HeldBy(b)') = 0
            /\ Used(({b} \cap lost)') = 0
            /\ Cardinality(RetainedBy(b)') = Cardinality(RetainedBy(b))
        BY <3>1, <2>4
      <4>2. QED
        BY <4>1, <2>5, <2>8
    <3>3. QED
      BY <3>1, <3>2 DEF BufferOK, FrontCalled, FrontDone
  <2>11. ASSUME NEW x \in Buffers, x # b PROVE BufferOK(x)'
    BY <2>11, <2>1, <2>7, <1>1, <1>6, <1>7, SameBuffer DEF IInv, TypeOK, clientVars
  <2>12. QED
    BY <1>1, <1>8, <2>9, <2>10, <2>11 DEF IInv
<1>11. QED
  BY <1>9, <1>10

-----------------------------------------------------------------------------
\* Nothing is posted, fetched or locked at first.
LEMMA InitIInv ==
  ASSUME Init
  PROVE  IInv
<1>1. TypeOK
  BY ConstantsAssumption DEF Init, TypeOK, Index, Entries, RefCntMax, Flags
<1>2. RingShape
  BY DEF Init, RingShape
<1>3. ASSUME NEW b \in Buffers PROVE BufferOK(b)
  <2>1. QueuedAt(b) = {} /\ HeldBy(b) = {} /\ RetainedBy(b) = {} /\ {b} \cap lost = {}
    BY ConstantsAssumption DEF Init, QueuedAt, Live, InRing, HeldBy, RetainedBy
  <2>2. Used({}) = 0 /\ Cardinality({}) = 0
    BY FS_EmptySet DEF Used
  <2>3. refCnt[b] = 0 /\ flags[b] = "Nothing" /\ ~Calling
    BY DEF Init, Calling
  <2>4. refCnt[b] = Used(QueuedAt(b)) + Used(HeldBy(b)) + Cardinality(RetainedBy(b))
                      + Used({b} \cap lost)
    BY <2>1, <2>2, <2>3
  <2>5. QED
    BY <2>1, <2>3, <2>4 DEF BufferOK
<1>4. QED
  BY <1>1, <1>2, <1>3 DEF IInv, Init

\* What the invariant speaks of are variables of the specification.
LEMMA StutterIInv ==
  ASSUME IInv, UNCHANGED vars
  PROVE  IInv'
<1>1. TypeOK'
  BY DEF IInv, TypeOK, vars, queueVars, bufferVars, pumpVars, clientVars
<1>2. RingShape' /\ \A x \in Buffers : BufferOK(x)'
  BY QuietStep DEF SamePhase, Calling, vars, bufferVars, pumpVars, clientVars
<1>3. QED
  BY <1>1, <1>2 DEF IInv, vars, pumpVars

\* Every step of the pump, its callbacks and the handlers preserves the invariant.
LEMMA NextIInv ==
  ASSUME StaleProducers = {}, IInv, [Next]_vars
  PROVE  IInv'
<1>1. CASE Handler
  <2>1. ASSUME NEW p \in Producers,
               GetFreeBuffer(p) \/ PostHeld(p) \/ PostHeldFails(p) \/ PostStale(p)
        PROVE  IInv'
    BY <2>1, GetFreeBufferStep, PostHeldStep, PostHeldFailsStep, PostStaleStep
  <2>2. ASSUME NEW p \in Producers, NEW v \in Payloads, FillBuffer(p, v) PROVE IInv'
    BY <2>2, FillBufferStep
  <2>3. ASSUME NEW id \in CopiedIDs, NEW v \in Payloads, InterruptPostCopy(id, v)
        PROVE  IInv'
    BY <2>3, PostOwnDataStep
  <2>4. QED
    BY <1>1, <2>1, <2>2, <2>3 DEF Handler
<1>2. CASE TimerHandler
  <2>1. CASE TimerEnter \/ TimerUnlockAgain \/ TimerPostFails \/ TimerExit
    BY <2>1, TimerQuietStep
  <2>2. ASSUME NEW id \in CopiedIDs, NEW v \in Payloads, TimerPostCopy(id, v) PROVE IInv'
    BY <2>2, PostOwnDataStep
  <2>3. ASSUME NEW id \in NullIDs, TimerPostNull(id) PROVE IInv'
    BY <2>3, TimerPostNullStep
  <2>4. QED
    BY <1>2, <2>1, <2>2, <2>3 DEF TimerHandler
<1>3. CASE Callback
  <2>1. ASSUME NEW r \in ProxyReceivers, NEW id \in MsgIDs,
               BodyRegister(r, id) \/ BodyUnregister(r, id)
        PROVE  IInv'
    BY <2>1, RegistrationStep
  <2>2. ASSUME NEW id \in CopiedIDs, NEW v \in Payloads, BodyPostCopy(id, v) PROVE IInv'
    BY <2>2, PostOwnDataStep
  <2>3. QED
    BY <1>3, <2>1, <2>2, BodyLockStep, BodyUnlockStep DEF Callback
<1>4. CASE Pump
  BY <1>4, TakeStep, CallReceiverStep, BackToLoopStep, EndCallsStep, UnlockFrontStep,
     AdvanceStep DEF Pump
<1>5. CASE UNCHANGED vars
  BY <1>5, StutterIInv
<1>6. QED
  BY <1>1, <1>2, <1>3, <1>4, <1>5 DEF Next

\* The pump's data stays in its types, whatever the main loop, the handlers and
\* the callbacks do, as long as no producer posts through a stale pointer.
THEOREM TypeCorrect ==
  ASSUME StaleProducers = {}
  PROVE  Spec => []TypeOK
<1>1. Init => IInv
  BY InitIInv
<1>2. IInv /\ [Next]_vars => IInv'
  BY NextIInv
<1>3. IInv => TypeOK
  BY DEF IInv
<1>4. QED
  BY <1>1, <1>2, <1>3, PTL DEF Spec

\* A buffer's reference count is always the number of its users, over every
\* interleaving of handlers with the loop's unmasked accesses to the headers.
THEOREM ReferencesAreCounted ==
  ASSUME StaleProducers = {}
  PROVE  Spec => []ReferencesCounted
<1>1. Init => IInv
  BY InitIInv
<1>2. IInv /\ [Next]_vars => IInv'
  BY NextIInv
<1>3. IInv => ReferencesCounted
  BY BufferWise DEF IInv
<1>4. QED
  BY <1>1, <1>2, <1>3, PTL DEF Spec

\* Whoever may write to a buffer is the only one who has it.
THEOREM WritersAreAlone ==
  ASSUME StaleProducers = {}
  PROVE  Spec => []WriterIsAlone
<1>1. Init => IInv
  BY InitIInv
<1>2. IInv /\ [Next]_vars => IInv'
  BY NextIInv
<1>3. IInv => WriterIsAlone
  BY BufferWise DEF IInv
<1>4. QED
  BY <1>1, <1>2, <1>3, PTL DEF Spec

\* The flag of a buffer always says where the buffer is.
THEOREM FlagsAreRight ==
  ASSUME StaleProducers = {}
  PROVE  Spec => []FlagsTell
<1>1. Init => IInv
  BY InitIInv
<1>2. IInv /\ [Next]_vars => IInv'
  BY NextIInv
<1>3. IInv => FlagsTell
  BY BufferWise DEF IInv
<1>4. QED
  BY <1>1, <1>2, <1>3, PTL DEF Spec

\* Front, tail and size of the ring agree in every state, overflowing posts and
\* interrupted dispatches included.
THEOREM RingIsConsistent ==
  ASSUME StaleProducers = {}
  PROVE  Spec => []RingShape
<1>1. Init => IInv
  BY InitIInv
<1>2. IInv /\ [Next]_vars => IInv'
  BY NextIInv
<1>3. IInv => RingShape
  BY DEF IInv
<1>4. QED
  BY <1>1, <1>2, <1>3, PTL DEF Spec

\* The pool shrinks only by the buffers whose producers forgot them after a
\* failed post.
THEOREM OnlyForgottenLeaks ==
  ASSUME StaleProducers = {}
  PROVE  Spec => []NothingElseLeaks
<1>1. Init => IInv
  BY InitIInv
<1>2. IInv /\ [Next]_vars => IInv'
  BY NextIInv
<1>3. IInv => NothingElseLeaks
  <2>1. SUFFICES ASSUME IInv, NEW b \in Buffers,
                        QueuedAt(b) = {}, HeldBy(b) = {}, RetainedBy(b) = {}, b \notin lost
                 PROVE  ~(refCnt[b] > 0)
    BY DEF NothingElseLeaks
  <2>2. refCnt[b] = Used(QueuedAt(b)) + Used(HeldBy(b)) + Cardinality(RetainedBy(b))
                      + Used({b} \cap lost)
    BY <2>1 DEF IInv, BufferOK
  <2>3. Cardinality(RetainedBy(b)) = 0
    BY <2>1, FS_EmptySet
  <2>4. /\ Used(QueuedAt(b)) = 0
        /\ Used(HeldBy(b)) = 0
        /\ Used({b} \cap lost) = 0
    BY <2>1 DEF Used
  <2>5. QED
    BY <2>2, <2>3, <2>4
<1>4. QED
  BY <1>1, <1>2, <1>3, PTL DEF Spec

-----------------------------------------------------------------------------
\* The ring never overflows when it has two places more than there are pool
\* elements. The argument is a count: a live place holds a buffer, and no buffer
\* is in two of them; the one place that may not be live is the front's.
FullInv ==
  /\ IInv
  /\ \A i \in Index : InRing(i) => g_msgQueue[i].buffer \in Buffers
  /\ lost = {}

\* Different places hold different buffers, so there are fewer entries than places.
LEMMA RoomLeft ==
  ASSUME Cardinality(Buffers) + 1 < QueueSize, FullInv
  PROVE  ~QueueFull
<1> SUFFICES ASSUME QueueFull
             PROVE  FALSE
  OBVIOUS
<1> DEFINE S == Index \ {g_msgQueueFront}
           f == [i \in S |-> g_msgQueue[i].buffer]
<1>1. g_msgQueueFront \in Index
  BY DEF FullInv, IInv, TypeOK
<1>2. \A i \in Index : InRing(i)
  BY <1>1 DEF QueueFull, InRing, Index, FullInv, IInv, TypeOK
<1>3. \A i \in S : Live(i) /\ g_msgQueue[i].buffer \in Buffers
  BY <1>2 DEF Live, FullInv
<1>4. ASSUME NEW i \in S, NEW j \in S, g_msgQueue[i].buffer = g_msgQueue[j].buffer
      PROVE  i = j
  <2>1. PICK b \in Buffers : b = g_msgQueue[i].buffer
    BY <1>3
  <2>2. i \in QueuedAt(b) /\ j \in QueuedAt(b)
    BY <2>1, <1>3, <1>4 DEF QueuedAt
  <2>3. \A k, l \in QueuedAt(b) : k = l
    BY DEF FullInv, IInv, BufferOK
  <2>4. QED
    BY <2>2, <2>3
<1>5. f \in Injection(S, Buffers)
  <2>1. f \in [S -> Buffers]
    BY <1>3
  <2>2. \A i, j \in S : f[i] = f[j] => i = j
    BY <1>4
  <2>3. QED
    BY <2>1, <2>2 DEF Injection, IsInjective
<1>6. IsFiniteSet(Buffers) /\ Cardinality(Buffers) \in Nat
  BY ConstantsAssumption, FS_CardinalityType
<1>7. Cardinality(S) <= Cardinality(Buffers)
  <2> HIDE DEF f, S
  <2>1. QED
    BY <1>5, <1>6, FS_Injection
<1>8. QueueSize \in Nat \ {0} /\ QueueSize - 1 \in Int /\ 0 \in Int
  BY ConstantsAssumption
<1>9. IsFiniteSet(Index) /\ Cardinality(Index) = QueueSize
  BY <1>8, FS_Interval DEF Index
<1>10. Cardinality(S) = QueueSize - 1
  BY <1>1, <1>8, <1>9, FS_RemoveElement
<1>11. QED
  BY <1>6, <1>7, <1>8, <1>10

\* While every post succeeds nothing is lost, and every post succeeds.
LEMMA NextFullInv ==
  ASSUME StaleProducers = {}, NullIDs = {}, Cardinality(Buffers) + 1 < QueueSize,
         FullInv, [Next]_vars
  PROVE  FullInv'
<1>1. IInv /\ IInv'
  BY NextIInv DEF FullInv
<1>2. ~QueueFull
  BY RoomLeft
<1>3. ASSUME NEW b \in Buffers, NEW id, Enqueue(b, id)
      PROVE  \A i \in Index : InRing(i)' => g_msgQueue'[i].buffer \in Buffers
  <2>1. \A i \in Index : InRing(i)' <=> InRing(i) \/ i = g_msgQueueTail
    BY <1>1, <1>2, <1>3, EnqueueRing DEF IInv
  <2>2. /\ g_msgQueue'[g_msgQueueTail].buffer = b
        /\ \A i \in Index \ {g_msgQueueTail} : g_msgQueue'[i] = g_msgQueue[i]
    BY <1>1, <1>3 DEF IInv, TypeOK, Enqueue
  <2>3. QED
    BY <2>1, <2>2 DEF FullInv
<1>4. ASSUME UNCHANGED queueVars
      PROVE  \A i \in Index : InRing(i)' => g_msgQueue'[i].buffer \in Buffers
  BY <1>4 DEF FullInv, InRing, queueVars
<1>5. ASSUME Advance
      PROVE  \A i \in Index : InRing(i)' => g_msgQueue'[i].buffer \in Buffers
  <2>1. \A i \in Index : InRing(i)' <=> InRing(i) /\ i # g_msgQueueFront
    BY <1>1, <1>5, AdvanceRing DEF IInv, RingShape, Advance
  <2>2. g_msgQueue' = g_msgQueue
    BY <1>5 DEF Advance
  <2>3. QED
    BY <2>1, <2>2 DEF FullInv
<1>6. ASSUME NEW id, NEW v, PostCopy(id, v)
      PROVE  \E b \in Buffers : Enqueue(b, id)
  BY <1>6 DEF PostCopy
<1>7. \/ UNCHANGED queueVars /\ lost' = lost
      \/ Advance /\ lost' = lost
      \/ \E b \in Buffers, id \in MsgIDs : Enqueue(b, id) /\ lost' = lost
  <2>1. CASE Handler
    <3>1. ASSUME NEW p \in Producers, PostHeld(p)
          PROVE  \E b \in Buffers, id \in MsgIDs : Enqueue(b, id) /\ lost' = lost
      BY <3>1, <1>1, ConstantsAssumption DEF PostHeld, PostOwnBuffer, IInv, TypeOK
    <3>2. ASSUME NEW p \in Producers PROVE ~PostHeldFails(p) /\ ~PostStale(p)
      BY <1>1, <1>2, PostStaleStep DEF PostHeldFails, PostToFullQueue
    <3>3. ASSUME NEW p \in Producers, GetFreeBuffer(p)
          PROVE  UNCHANGED queueVars /\ lost' = lost
      BY <3>3 DEF GetFreeBuffer
    <3>4. ASSUME NEW p \in Producers, NEW v \in Payloads, FillBuffer(p, v)
          PROVE  UNCHANGED queueVars /\ lost' = lost
      BY <3>4 DEF FillBuffer, clientVars
    <3>5. ASSUME NEW id \in CopiedIDs, NEW v \in Payloads, InterruptPostCopy(id, v)
          PROVE  \E b \in Buffers, x \in MsgIDs : Enqueue(b, x) /\ lost' = lost
      BY <3>5, <1>2, <1>6, ConstantsAssumption DEF InterruptPostCopy, PostToFullQueue, clientVars
    <3>6. QED
      BY <2>1, <3>1, <3>2, <3>3, <3>4, <3>5 DEF Handler
  <2>2. CASE TimerHandler
    <3>1. ASSUME NEW id \in CopiedIDs, NEW v \in Payloads, TimerPostCopy(id, v)
          PROVE  \E b \in Buffers, x \in MsgIDs : Enqueue(b, x) /\ lost' = lost
      BY <3>1, <1>6, ConstantsAssumption DEF TimerPostCopy, clientVars
    <3>2. CASE TimerEnter \/ TimerUnlockAgain \/ TimerPostFails \/ TimerExit
      BY <3>2 DEF TimerEnter, TimerUnlockAgain, TimerPostFails, PostToFullQueue, TimerExit,
                  clientVars
    <3>3. QED
      BY <2>2, <3>1, <3>2 DEF TimerHandler
  <2>3. CASE Callback
    <3>1. ASSUME NEW id \in CopiedIDs, NEW v \in Payloads, BodyPostCopy(id, v)
          PROVE  \E b \in Buffers, x \in MsgIDs : Enqueue(b, x) /\ lost' = lost
      BY <3>1, <1>2, <1>6, ConstantsAssumption DEF BodyPostCopy, PostToFullQueue, clientVars
    <3>2. ASSUME NEW r \in ProxyReceivers, NEW id \in MsgIDs,
                 BodyRegister(r, id) \/ BodyUnregister(r, id)
          PROVE  UNCHANGED queueVars /\ lost' = lost
      BY <3>2 DEF BodyRegister, BodyUnregister, clientVars
    <3>3. CASE BodyLock \/ BodyUnlock
      BY <3>3 DEF BodyLock, BodyUnlock
    <3>4. QED
      BY <2>3, <3>1, <3>2, <3>3 DEF Callback
  <2>4. CASE Pump
    BY <2>4 DEF Pump, Take, CallReceiver, BodyUnlockAgain, Return, EndCalls, UnlockFront,
                Advance, clientVars
  <2>5. CASE UNCHANGED vars
    BY <2>5 DEF vars, clientVars
  <2>6. QED
    BY <2>1, <2>2, <2>3, <2>4, <2>5 DEF Next
<1>8. QED
  BY <1>1, <1>3, <1>4, <1>5, <1>7 DEF FullInv

\* No post fails for want of a place in the ring and no buffer is lost, when the
\* ring has two places more than the pools have elements and no message is
\* posted as NULL.
THEOREM RingNeverFills ==
  ASSUME StaleProducers = {}, NullIDs = {}, Cardinality(Buffers) + 1 < QueueSize
  PROVE  Spec => []NeverFull
<1>1. Init => FullInv
  BY InitIInv DEF FullInv, Init, InRing
<1>2. FullInv /\ [Next]_vars => FullInv'
  BY NextFullInv
<1>3. FullInv => NeverFull
  BY RoomLeft DEF FullInv, NeverFull
<1>4. QED
  BY <1>1, <1>2, <1>3, PTL DEF Spec
-----------------------------------------------------------------------------
\* What the callback vectors of the repository are like: an init function registers
\* its receiver once, one function (the proxy of the messages) comes and goes at run
\* time, and there is no empty slot before its own at first. Else it could be
\* registered in a second slot, and be called twice for a message.
OneProxy ==
  /\ \A r, q \in ProxyReceivers : r = q
  /\ \A id \in MsgIDs : \A s, t \in Slots :
       /\ InitialCallbacks[id][s] = InitialCallbacks[id][t] /\ InitialCallbacks[id][s] # NULL => s = t
       /\ InitialCallbacks[id][s] \in ProxyReceivers /\ t < s => InitialCallbacks[id][t] # NULL

\* An entry names the pool of its buffer.
EntriesArePooled ==
  \A i \in Index : g_msgQueue[i].buffer # NULL => g_msgQueue[i].id = PoolOf[g_msgQueue[i].buffer]

\* A receiver has one slot of a message, and a proxy the first that it could have.
OneSlotEach ==
  \A id \in MsgIDs : \A s, t \in Slots :
    /\ callbackVector[id][s] = callbackVector[id][t] /\ callbackVector[id][s] # NULL => s = t
    /\ callbackVector[id][s] \in ProxyReceivers /\ t < s => callbackVector[id][t] # NULL

\* A proxy that was called has left, or still has, a slot behind the loop: there it
\* will be if it registers again.
ServedAreBehind ==
  /\ served # {} => Dispatching
  /\ running # NULL => running \in served
  /\ pc = "unlock" => slot = MaxReceivers
  /\ \A r \in served \cap ProxyReceivers :
       \E t \in Slots : t < slot /\ callbackVector[Front.id][t] \in {NULL, r}

\* What is added to the invariant for the refinement.
QueueInv == EntriesArePooled /\ OneSlotEach /\ ServedAreBehind
-----------------------------------------------------------------------------
\* Nothing is written over the entry at the front.
LEMMA FrontStays ==
  ASSUME TypeOK, ~QueueFull, g_msgQueueSize # 0, NEW b, NEW id, Enqueue(b, id)
  PROVE  Front' = Front
  BY DEF TypeOK, QueueFull, Enqueue, Front

\* A step that calls nobody and lets nobody register.
LEMMA NobodyIsCalled ==
  ASSUME QueueInv, EntriesArePooled', UNCHANGED <<callbackVector, served, slot>>,
         running' \in {running, NULL}, Dispatching => Dispatching' /\ Front' = Front,
         pc' = "unlock" => slot = MaxReceivers
  PROVE  QueueInv'
  BY DEF QueueInv, OneSlotEach, ServedAreBehind

\* An entry that is put into the ring has its buffer's pool for its ID.
LEMMA EnqueuedIsPooled ==
  ASSUME TypeOK, EntriesArePooled, NEW b \in Buffers \cup {NULL}, NEW id,
         b # NULL => id = PoolOf[b], Enqueue(b, id)
  PROVE  EntriesArePooled'
  BY DEF TypeOK, EntriesArePooled, Enqueue

\* A post adds an entry of the pool's to the ring, and leaves the loop where it is.
LEMMA PostKeepsQueueInv ==
  ASSUME IInv, QueueInv, ~QueueFull, NEW b \in Buffers \cup {NULL}, NEW id,
         b # NULL => id = PoolOf[b], Enqueue(b, id),
         UNCHANGED <<callbackVector, served, slot, running>>,
         pc' = pc \/ (pc = "body" /\ pc' = "unlockAgain")
  PROVE  QueueInv'
<1>1. EntriesArePooled'
  BY EnqueuedIsPooled DEF IInv, QueueInv
<1>2. Dispatching => Dispatching' /\ Front' = Front
  BY FrontStays DEF IInv, RingShape, Dispatching, Calling
<1>3. pc' = "unlock" => slot = MaxReceivers
  BY DEF QueueInv, ServedAreBehind
<1>. QED  BY <1>1, <1>2, <1>3, NobodyIsCalled

\* A step that leaves the ring and the loop's variables as they are.
LEMMA QuietQueueInv ==
  ASSUME QueueInv, UNCHANGED <<g_msgQueue, g_msgQueueFront, callbackVector, served, slot>>,
         running' \in {running, NULL}, Dispatching => Dispatching',
         pc' = "unlock" => slot = MaxReceivers
  PROVE  QueueInv'
<1>1. EntriesArePooled'
  BY DEF QueueInv, EntriesArePooled
<1>2. Front' = Front
  BY DEF Front
<1>. QED  BY <1>1, <1>2, NobodyIsCalled

\* A proxy registers in the first slot that it could have,
LEMMA RegisterQueueInv ==
  ASSUME OneProxy, IInv, QueueInv, NEW r \in ProxyReceivers, NEW id \in MsgIDs, BodyRegister(r, id)
  PROVE  QueueInv'
<1>1. PICK s \in Slots :
        /\ callbackVector[id][s] \in {NULL, r}
        /\ \A t \in 0 .. s - 1 : callbackVector[id][t] \notin {NULL, r}
        /\ callbackVector' = [callbackVector EXCEPT ![id][s] = r]
  BY DEF BodyRegister
<1>2. /\ r # NULL /\ \A q \in ProxyReceivers : q = r
      /\ s \in Int /\ \A t \in Slots : t \in Int /\ 0 <= t
  BY ConstantsAssumption DEF OneProxy, Slots
<1>3. \A t \in Slots : t < s => t \in 0 .. s - 1
  BY <1>2
<1>4. /\ \A i \in MsgIDs \ {id} : callbackVector'[i] = callbackVector[i]
      /\ callbackVector'[id][s] = r
      /\ \A t \in Slots \ {s} : callbackVector'[id][t] = callbackVector[id][t]
  BY <1>1 DEF IInv, TypeOK
<1>5. \A t \in Slots : t # s => t < s \/ s < t
  BY <1>2
<1>6. ASSUME NEW t \in Slots, callbackVector[id][t] = r PROVE t = s
  <2>1. ~(t < s)
    BY <1>1, <1>3, <1>6
  <2>2. ASSUME s < t PROVE FALSE
    <3>1. callbackVector[id][s] # NULL
      BY <1>6, <2>2 DEF QueueInv, OneSlotEach
    <3>2. callbackVector[id][s] = r
      BY <1>1, <3>1
    <3>3. s = t
      BY <1>6, <3>1, <3>2 DEF QueueInv, OneSlotEach
    <3>. QED  BY <1>2, <2>2, <3>3
  <2>. QED  BY <1>5, <2>1, <2>2
<1>7. OneSlotEach'
  <2> SUFFICES ASSUME NEW i \in MsgIDs, NEW t \in Slots, NEW u \in Slots
               PROVE  /\ callbackVector'[i][t] = callbackVector'[i][u] /\ callbackVector'[i][t] # NULL => t = u
                      /\ callbackVector'[i][t] \in ProxyReceivers /\ u < t => callbackVector'[i][u] # NULL
    BY DEF OneSlotEach
  <2>1. CASE i # id
    BY <1>4, <2>1 DEF QueueInv, OneSlotEach
  <2>2. CASE i = id
    <3>1. ASSUME callbackVector'[id][t] = callbackVector'[id][u], callbackVector'[id][t] # NULL
          PROVE  t = u
      <4>1. CASE t = s /\ u # s
        BY <1>4, <1>6, <3>1, <4>1
      <4>2. CASE t # s /\ u = s
        BY <1>4, <1>6, <3>1, <4>2
      <4>3. CASE t # s /\ u # s
        BY <1>4, <3>1, <4>3 DEF QueueInv, OneSlotEach
      <4>. QED  BY <4>1, <4>2, <4>3
    <3>2. ASSUME callbackVector'[id][t] \in ProxyReceivers, u < t
          PROVE  callbackVector'[id][u] # NULL
      <4>1. callbackVector'[id][t] = r
        BY <1>2, <3>2
      <4>2. t = s
        BY <1>4, <1>6, <4>1
      <4>3. u \in 0 .. s - 1 /\ u # s
        BY <1>2, <1>3, <3>2, <4>2
      <4>. QED  BY <1>1, <1>4, <4>3
    <3>. QED  BY <2>2, <3>1, <3>2
  <2>. QED  BY <2>1, <2>2
<1>8. /\ EntriesArePooled' /\ Front' = Front
      /\ UNCHANGED <<served, running, slot, pc>> /\ (Dispatching <=> Dispatching')
  BY DEF BodyRegister, queueVars, pumpVars, QueueInv, EntriesArePooled, Front, Dispatching, Calling
<1>9. ServedAreBehind'
  <2>1. ASSUME NEW q \in served \cap ProxyReceivers
        PROVE  \E t \in Slots : t < slot /\ callbackVector'[Front.id][t] \in {NULL, q}
    <3>1. PICK t \in Slots : t < slot /\ callbackVector[Front.id][t] \in {NULL, q}
      BY DEF QueueInv, ServedAreBehind
    <3>2. q = r
      BY <1>2
    <3>3. callbackVector'[Front.id][t] = callbackVector[Front.id][t] \/ callbackVector'[Front.id][t] = r
      BY <1>1 DEF IInv, TypeOK
    <3>. QED  BY <3>1, <3>2, <3>3
  <2>. QED  BY <1>8, <2>1 DEF QueueInv, ServedAreBehind
<1>. QED  BY <1>7, <1>8, <1>9 DEF QueueInv

\* and leaves it.
LEMMA UnregisterQueueInv ==
  ASSUME OneProxy, IInv, QueueInv, NEW r \in ProxyReceivers, NEW id \in MsgIDs, BodyUnregister(r, id)
  PROVE  QueueInv'
<1>1. PICK s \in Slots :
        /\ callbackVector[id][s] = r
        /\ callbackVector' = [callbackVector EXCEPT ![id][s] = NULL]
  BY DEF BodyUnregister
<1>2. r # NULL /\ \A q \in ProxyReceivers : q = r
  BY ConstantsAssumption DEF OneProxy
<1>3. \A t \in Slots : callbackVector[id][t] = r => t = s
  BY <1>1, <1>2 DEF QueueInv, OneSlotEach
<1>4. /\ \A i \in MsgIDs \ {id} : callbackVector'[i] = callbackVector[i]
      /\ callbackVector'[id][s] = NULL
      /\ \A t \in Slots \ {s} : callbackVector'[id][t] = callbackVector[id][t]
  BY <1>1 DEF IInv, TypeOK
<1>5. OneSlotEach'
  <2> SUFFICES ASSUME NEW i \in MsgIDs, NEW t \in Slots, NEW u \in Slots
               PROVE  /\ callbackVector'[i][t] = callbackVector'[i][u] /\ callbackVector'[i][t] # NULL => t = u
                      /\ callbackVector'[i][t] \in ProxyReceivers /\ u < t => callbackVector'[i][u] # NULL
    BY DEF OneSlotEach
  <2>1. CASE i # id
    BY <1>4, <2>1 DEF QueueInv, OneSlotEach
  <2>2. CASE i = id
    <3>1. callbackVector'[id][t] \notin ProxyReceivers
      <4>1. CASE t = s
        BY <1>4, <4>1, ConstantsAssumption
      <4>2. CASE t # s
        BY <1>2, <1>3, <1>4, <4>2
      <4>. QED  BY <4>1, <4>2
    <3>2. callbackVector'[id][t] = callbackVector'[id][u] /\ callbackVector'[id][t] # NULL => t = u
      <4>1. CASE t = s \/ u = s
        BY <1>4, <4>1
      <4>2. CASE t # s /\ u # s
        BY <1>4, <4>2 DEF QueueInv, OneSlotEach
      <4>. QED  BY <4>1, <4>2
    <3>. QED  BY <2>2, <3>1, <3>2
  <2>. QED  BY <2>1, <2>2
<1>6. /\ EntriesArePooled' /\ Front' = Front
      /\ UNCHANGED <<served, running, slot, pc>> /\ (Dispatching <=> Dispatching')
  BY DEF BodyUnregister, queueVars, pumpVars, QueueInv, EntriesArePooled, Front, Dispatching, Calling
<1>7. ServedAreBehind'
  <2>1. ASSUME NEW q \in served \cap ProxyReceivers
        PROVE  \E t \in Slots : t < slot /\ callbackVector'[Front.id][t] \in {NULL, q}
    <3>1. PICK t \in Slots : t < slot /\ callbackVector[Front.id][t] \in {NULL, q}
      BY DEF QueueInv, ServedAreBehind
    <3>2. callbackVector'[Front.id][t] = callbackVector[Front.id][t] \/ callbackVector'[Front.id][t] = NULL
      BY <1>1 DEF IInv, TypeOK
    <3>. QED  BY <3>1, <3>2
  <2>. QED  BY <1>6, <2>1 DEF QueueInv, ServedAreBehind
<1>. QED  BY <1>5, <1>6, <1>7 DEF QueueInv

\* The next slot's receiver is called.
LEMMA CallQueueInv ==
  ASSUME IInv, QueueInv, CallReceiver
  PROVE  QueueInv'
<1>1. /\ EntriesArePooled' /\ OneSlotEach' /\ Front' = Front /\ Dispatching'
      /\ slot' = slot + 1 /\ slot \in Slots /\ pc' # "unlock"
      /\ UNCHANGED callbackVector
  BY ConstantsAssumption
  DEF CallReceiver, queueVars, QueueInv, EntriesArePooled, OneSlotEach, Front, Dispatching, Calling,
      IInv, TypeOK, Slots
<1>2. running' # NULL => running' \in served'
  BY DEF CallReceiver, QueueInv, ServedAreBehind, IInv
<1>3. ASSUME NEW r \in served' \cap ProxyReceivers
      PROVE  \E t \in Slots : t < slot + 1 /\ callbackVector[Front.id][t] \in {NULL, r}
  <2>1. CASE r \in served
    <3>1. PICK t \in Slots : t < slot /\ callbackVector[Front.id][t] \in {NULL, r}
      BY <1>3, <2>1 DEF QueueInv, ServedAreBehind
    <3>2. t < slot + 1
      BY <1>1, <3>1, ConstantsAssumption DEF Slots
    <3>. QED  BY <3>1, <3>2
  <2>2. CASE r \notin served
    <3>1. callbackVector[Front.id][slot] = r
      BY <1>3, <2>2 DEF CallReceiver
    <3>2. slot < slot + 1
      BY <1>1, ConstantsAssumption DEF Slots
    <3>. QED  BY <1>1, <3>1, <3>2
  <2>. QED  BY <2>1, <2>2
<1>. QED  BY <1>1, <1>2, <1>3 DEF QueueInv, ServedAreBehind

\* A step with which the handing out begins or is over: nobody was called.
LEMMA NobodyWasCalled ==
  ASSUME QueueInv, UNCHANGED <<g_msgQueue, callbackVector>>, running' = NULL, served' = {},
         pc' # "unlock"
  PROVE  QueueInv'
  BY DEF QueueInv, EntriesArePooled, OneSlotEach, ServedAreBehind

\* The callback vectors are so at first, and in every step after that.
LEMMA InitQueueInv ==
  ASSUME OneProxy, Init
  PROVE  QueueInv
  BY DEF OneProxy, Init, QueueInv, EntriesArePooled, OneSlotEach, ServedAreBehind

\* No step of the pump, its callbacks or a handler changes any of it.
LEMMA NextQueueInv ==
  ASSUME StaleProducers = {}, OneProxy, IInv, QueueInv, [Next]_vars
  PROVE  QueueInv'
<1> USE DEF queueVars, pumpVars
<1>a. ASSUME NEW id, NEW v, PostCopy(id, v), UNCHANGED <<callbackVector, served, slot, running>>,
             pc' = pc \/ (pc = "body" /\ pc' = "unlockAgain")
      PROVE  QueueInv'
  <2>1. PICK b \in Buffers : PoolOf[b] = id /\ Enqueue(b, id)
    BY <1>a DEF PostCopy
  <2>. QED  BY <1>a, <2>1, PostKeepsQueueInv, ConstantsAssumption DEF PostCopy
<1>b. ASSUME UNCHANGED <<queueVars, callbackVector, served, slot>>, running' \in {running, NULL},
             Dispatching => Dispatching', pc' = "unlock" => slot = MaxReceivers
      PROVE  QueueInv'
  BY <1>b, QuietQueueInv
<1>c. pc = "unlock" => slot = MaxReceivers
  BY DEF QueueInv, ServedAreBehind
<1>1. ASSUME NEW p \in Producers, GetFreeBuffer(p) \/ PostHeldFails(p) PROVE QueueInv'
  BY <1>1, <1>b, <1>c DEF GetFreeBuffer, PostHeldFails, PostToFullQueue, Dispatching, Calling
<1>2. ASSUME NEW p \in Producers, PostHeld(p) PROVE QueueInv'
  <2>1. held[p] \in Buffers /\ ~QueueFull /\ Enqueue(held[p], PoolOf[held[p]])
    BY <1>2 DEF PostHeld, PostOwnBuffer, IInv, TypeOK
  <2>2. UNCHANGED <<callbackVector, served, slot, running, pc>>
    BY <1>2 DEF PostHeld
  <2>. QED  BY <2>1, <2>2, PostKeepsQueueInv
<1>3. ASSUME NEW p \in Producers, PostStale(p) PROVE QueueInv'
  BY <1>3, <1>b, <1>c DEF PostStale, RecoverBuffer, Dispatching, Calling
<1>4. ASSUME NEW p \in Producers, NEW v \in Payloads, FillBuffer(p, v) PROVE QueueInv'
  BY <1>4, <1>b, <1>c DEF FillBuffer, Dispatching, Calling
<1>5. ASSUME NEW id \in CopiedIDs, NEW v \in Payloads,
             InterruptPostCopy(id, v) \/ TimerPostCopy(id, v) \/ BodyPostCopy(id, v)
      PROVE  QueueInv'
  <2>1. CASE PostCopy(id, v)
    <3>1. ~PostToFullQueue
      BY <2>1 DEF PostCopy, PostToFullQueue
    <3>2. /\ UNCHANGED <<callbackVector, served, slot, running>>
          /\ pc' = pc \/ (pc = "body" /\ pc' = "unlockAgain")
      BY <1>5, <3>1 DEF InterruptPostCopy, TimerPostCopy, BodyPostCopy
    <3>. QED  BY <1>a, <2>1, <3>2
  <2>2. CASE ~PostCopy(id, v)
    BY <1>5, <1>b, <1>c, <2>2
    DEF InterruptPostCopy, TimerPostCopy, BodyPostCopy, PostToFullQueue, Dispatching, Calling
  <2>. QED  BY <2>1, <2>2
<1>6. CASE TimerEnter \/ TimerUnlockAgain \/ TimerPostFails \/ TimerExit
  BY <1>6, <1>b, <1>c
  DEF TimerEnter, TimerUnlockAgain, TimerPostFails, TimerExit, PostToFullQueue, Dispatching, Calling
<1>7. ASSUME NEW id \in NullIDs, TimerPostNull(id) PROVE QueueInv'
  <2>1. ~QueueFull /\ Enqueue(NULL, id) /\ UNCHANGED <<callbackVector, served, slot, running, pc>>
    BY <1>7 DEF TimerPostNull, PostNull
  <2>. QED  BY <2>1, PostKeepsQueueInv
<1>8. CASE BodyLock \/ BodyUnlock
  BY <1>8, <1>b, <1>c DEF BodyLock, BodyUnlock, Dispatching, Calling
<1>9. CASE BodyUnlockAgain \/ Return \/ EndCalls
  BY <1>9, <1>b, <1>c DEF BodyUnlockAgain, Return, EndCalls, Dispatching, Calling
<1>10. CASE Take \/ UnlockFront \/ Advance
  <2>1. running = NULL
    BY <1>10 DEF Take, UnlockFront, Advance, IInv
  <2>2. served' = {}
    BY <1>10 DEF Take, UnlockFront, Advance, QueueInv, ServedAreBehind, Dispatching, Calling
  <2>. QED  BY <1>10, <2>1, <2>2, NobodyWasCalled DEF Take, UnlockFront, Advance
<1>11. CASE UNCHANGED vars
  BY <1>11, <1>b, <1>c DEF vars, Dispatching, Calling
<1>. QED
  BY <1>1, <1>2, <1>3, <1>4, <1>5, <1>6, <1>7, <1>8, <1>9, <1>10, <1>11,
     RegisterQueueInv, UnregisterQueueInv, CallQueueInv
  DEF Next, Handler, TimerHandler, Callback, Pump
-----------------------------------------------------------------------------
\* The contents of the messages that are in the ring or that receivers have locked
ContentsStay ==
  \A b \in Buffers : QueuedAt(b) # {} \/ RetainedBy(b) # {} => payload'[b] = payload[b]

\* The first places from the front on are the ring's, and the next is the tail.
LEMMA Places ==
  ASSUME TypeOK, RingShape, NEW k \in 0 .. g_msgQueueSize - 1
  PROVE  /\ Place(k) \in Index /\ InRing(Place(k))
         /\ k # 0 => Place(k) # g_msgQueueFront
         /\ ~QueueFull => Place(k) # g_msgQueueTail
  BY ConstantsAssumption DEF TypeOK, RingShape, QueueFull, Index, InRing, Place

\* The place behind the last entry is the tail.
LEMMA TailIsNext ==
  ASSUME TypeOK, RingShape, ~QueueFull
  PROVE  Place(g_msgQueueSize) = g_msgQueueTail
  BY ConstantsAssumption DEF TypeOK, RingShape, QueueFull, Index, Place

\* A pending entry is a message, which is in the ring until it is handed out.
LEMMA PendingIsLive ==
  ASSUME IInv, NEW k \in FirstPending .. g_msgQueueSize - 1
  PROVE  /\ NthEntry(k) \in Entries
         /\ NthEntry(k).buffer # NULL =>
              NthEntry(k).buffer \in Buffers /\ QueuedAt(NthEntry(k).buffer) # {}
<1>1. /\ k \in 0 .. g_msgQueueSize - 1
      /\ pc = "advance" => k # 0
  BY DEF FirstPending, IInv, TypeOK
<1>2. Place(k) \in Index /\ InRing(Place(k)) /\ (pc = "advance" => Place(k) # g_msgQueueFront)
  BY <1>1, Places DEF IInv
<1>3. NthEntry(k) \in Entries /\ NthEntry(k) = g_msgQueue[Place(k)]
  BY <1>2 DEF NthEntry, IInv, TypeOK
<1>4. Place(k) \in QueuedAt(NthEntry(k).buffer)
  BY <1>2, <1>3 DEF QueuedAt, Live
<1>. QED  BY <1>3, <1>4 DEF Entries

\* What is kept is a buffer of a pool that somebody has locked.
LEMMA KeptIsRetained ==
  ASSUME TypeOK, NEW r \in Receivers, retained[r] # NULL
  PROVE  retained[r] \in Buffers /\ RetainedBy(retained[r]) # {}
  BY DEF TypeOK, RetainedBy

\* What an entry is with the contents of pl, and the k-th entry behind the front f
\* of a ring q.
MessageOf(e, pl) == [id |-> e.id, payload |-> IF e.buffer = NULL THEN NULL ELSE pl[e.buffer]]
EntryAt(q, f, k) == LET i == f + k IN q[IF i < QueueSize THEN i ELSE i - QueueSize]
MessageAt(q, f, pl, k) == MessageOf(EntryAt(q, f, k), pl)

\* The pending messages, in these terms
LEMMA PendingAre ==
  /\ Pending = [k \in 1 .. g_msgQueueSize - FirstPending |->
                  MessageAt(g_msgQueue, g_msgQueueFront, payload, k - 1 + FirstPending)]
  /\ Pending' = [k \in 1 .. g_msgQueueSize' - FirstPending' |->
                  MessageAt(g_msgQueue', g_msgQueueFront', payload', k - 1 + FirstPending')]
<1>1. \A k : NthEntry(k) = EntryAt(g_msgQueue, g_msgQueueFront, k)
  BY DEF NthEntry, Place, EntryAt
<1>2. \A k : Message(NthEntry(k).buffer, NthEntry(k).id)
               = MessageAt(g_msgQueue, g_msgQueueFront, payload, k)
  BY <1>1 DEF Message, MessageAt, MessageOf
<1>3. \A k : NthEntry(k)' = EntryAt(g_msgQueue', g_msgQueueFront', k)
  BY DEF NthEntry, Place, EntryAt
<1>4. \A k : Message(NthEntry(k).buffer, NthEntry(k).id)'
               = MessageAt(g_msgQueue', g_msgQueueFront', payload', k)
  BY <1>3 DEF Message, MessageAt, MessageOf
<1>5. Pending = [k \in 1 .. g_msgQueueSize - FirstPending |->
                  MessageAt(g_msgQueue, g_msgQueueFront, payload, k - 1 + FirstPending)]
  BY <1>2 DEF Pending
<1>6. Pending' = [k \in 1 .. g_msgQueueSize' - FirstPending' |->
                  MessageAt(g_msgQueue', g_msgQueueFront', payload', k - 1 + FirstPending')]
  BY <1>4 DEF Pending
<1>. QED  BY <1>5, <1>6

\* Messages stay where the entries and the contents of their buffers do.
LEMMA MessageStays ==
  ASSUME IInv, ContentsStay, NEW k \in FirstPending .. g_msgQueueSize - 1,
         g_msgQueue'[Place(k)] = g_msgQueue[Place(k)]
  PROVE  MessageAt(g_msgQueue', g_msgQueueFront, payload', k)
           = MessageAt(g_msgQueue, g_msgQueueFront, payload, k)
<1> DEFINE e == NthEntry(k)
<1>1. e.buffer # NULL => payload'[e.buffer] = payload[e.buffer]
  BY PendingIsLive DEF ContentsStay
<1>2. /\ EntryAt(g_msgQueue, g_msgQueueFront, k) = e
      /\ EntryAt(g_msgQueue', g_msgQueueFront, k) = e
  BY DEF NthEntry, Place, EntryAt
<1> HIDE DEF e
<1>3. MessageOf(e, payload') = MessageOf(e, payload)
  BY <1>1 DEF MessageOf
<1>. QED  BY <1>2, <1>3 DEF MessageAt

\* While the contents stay, so do the messages that are pending,
LEMMA PendingStays ==
  ASSUME IInv, ContentsStay, UNCHANGED queueVars, FirstPending' = FirstPending
  PROVE  Pending' = Pending
<1> DEFINE n == g_msgQueueSize - FirstPending
<1>1. g_msgQueueSize \in Int /\ FirstPending \in {0, 1}
  BY DEF IInv, TypeOK, FirstPending
<1>2. ASSUME NEW k \in 1 .. n
      PROVE  MessageAt(g_msgQueue', g_msgQueueFront, payload', k - 1 + FirstPending)
               = MessageAt(g_msgQueue, g_msgQueueFront, payload, k - 1 + FirstPending)
  <2>1. k - 1 + FirstPending \in FirstPending .. g_msgQueueSize - 1
    BY <1>1
  <2>. QED  BY <2>1, MessageStays DEF queueVars
<1>. QED  BY <1>2, PendingAre DEF queueVars

\* the one that is handed out,
LEMMA CurrentStays ==
  ASSUME IInv, ContentsStay, Dispatching' = Dispatching, Dispatching => Front' = Front
  PROVE  Current' = Current
<1>1. CASE ~Dispatching
  BY <1>1 DEF Current
<1>2. CASE Dispatching
  <2>1. Front.buffer # NULL => payload'[Front.buffer] = payload[Front.buffer]
    BY <1>2, FrontIsQueued DEF ContentsStay
  <2>2. Message(Front.buffer, Front.id)' = Message(Front.buffer, Front.id)
    BY <1>2, <2>1 DEF Message
  <2>. QED  BY <1>2, <2>2 DEF Current
<1>. QED  BY <1>1, <1>2

\* and those that it is still to be handed to.
LEMMA DueStays ==
  ASSUME Dispatching' = Dispatching, Dispatching => Front' = Front, UNCHANGED <<slot, callbackVector>>
  PROVE  Due' = Due
  BY DEF Due

\* The receivers of each message are those in its callback vector.
LEMMA SubscribedStays ==
  ASSUME UNCHANGED callbackVector
  PROVE  Subscribed' = Subscribed
  BY DEF Subscribed

\* What a receiver has locked keeps its content.
LEMMA KeptStays ==
  ASSUME TypeOK, ContentsStay, UNCHANGED retained
  PROVE  Kept' = Kept
<1>1. ASSUME NEW r \in Receivers, retained[r] # NULL
      PROVE  Message(retained[r], PoolOf[retained[r]])' = Message(retained[r], PoolOf[retained[r]])
  <2>1. payload'[retained[r]] = payload[retained[r]]
    BY <1>1, KeptIsRetained DEF ContentsStay
  <2>. QED  BY <2>1 DEF Message
<1>. QED  BY <1>1 DEF Kept

\* A step that changes none of it is a stutter.
LEMMA QuietIsStutter ==
  ASSUME IInv, ContentsStay, UNCHANGED <<queueVars, callbackVector, slot, served, retained>>,
         Dispatching' = Dispatching, FirstPending' = FirstPending
  PROVE  UNCHANGED MQ!vars
<1>1. Front' = Front
  BY DEF Front, queueVars
<1>. QED
  BY <1>1, PendingStays, CurrentStays, DueStays, SubscribedStays, KeptStays DEF MQ!vars, IInv

\* What is handed out is a message.
LEMMA MessagesAre ==
  ASSUME TypeOK, NEW b \in Buffers \cup {NULL}, NEW id \in MsgIDs
  PROVE  Message(b, id) \in MQ!Messages /\ Message(b, id) # NULL
  BY ConstantsAssumption DEF TypeOK, Message, MQ!Messages

\* A sequence with one element more
LEMMA AppendIs ==
  ASSUME NEW n \in Nat, NEW s, NEW m
  PROVE  Append([k \in 1 .. n |-> s[k]], m) = [k \in 1 .. n + 1 |-> IF k = n + 1 THEN m ELSE s[k]]
  OBVIOUS

\* and how to recognise it
LEMMA AppendOne ==
  ASSUME NEW n \in Nat, NEW s, NEW t, NEW m,
         s = [k \in 1 .. n |-> s[k]], t = [k \in 1 .. n + 1 |-> t[k]],
         \A k \in 1 .. n : t[k] = s[k], t[n + 1] = m
  PROVE  t = Append(s, m)
<1>1. Append([k \in 1 .. n |-> s[k]], m) = [k \in 1 .. n + 1 |-> IF k = n + 1 THEN m ELSE s[k]]
  BY AppendIs
<1>2. ASSUME NEW k \in 1 .. n + 1 PROVE t[k] = IF k = n + 1 THEN m ELSE s[k]
  <2>1. k # n + 1 => k \in 1 .. n
    OBVIOUS
  <2>2. k = n + 1 => t[k] = t[n + 1]
    OBVIOUS
  <2>3. CASE k = n + 1
    BY <2>2, <2>3
  <2>4. CASE k # n + 1
    BY <2>1, <2>4
  <2>. QED  BY <2>3, <2>4
<1>3. t = [k \in 1 .. n + 1 |-> IF k = n + 1 THEN m ELSE s[k]]
  BY <1>2
<1>. QED  BY <1>1, <1>3

\* A post appends a message to those that are pending, with the content that the
\* buffer has then, and changes nothing else.
LEMMA PostIsPost ==
  ASSUME IInv, IInv', ContentsStay, ~QueueFull, NEW b \in Buffers \cup {NULL}, NEW id \in MsgIDs,
         Enqueue(b, id), UNCHANGED <<callbackVector, slot, served, retained>>,
         pc' = pc \/ (pc = "body" /\ pc' = "unlockAgain")
  PROVE  \E m \in MQ!Messages : MQ!Post(m)
<1> DEFINE n == g_msgQueueSize - FirstPending
<1>1. PICK m \in MQ!Messages : m = MessageOf([buffer |-> b, id |-> id], payload')
  <2>1. payload' \in [Buffers -> Payloads]
    BY DEF IInv, TypeOK
  <2>2. MessageOf([buffer |-> b, id |-> id], payload') \in MQ!Messages
    BY <2>1 DEF MessageOf, MQ!Messages
  <2>. QED  BY <2>2
<1>2. /\ Dispatching' = Dispatching /\ FirstPending' = FirstPending /\ FirstPending \in {0, 1}
      /\ Dispatching => Front' = Front
  <2>1. Dispatching => g_msgQueueSize # 0
    BY DEF IInv, RingShape, Dispatching, Calling
  <2>2. Dispatching => Front' = Front
    BY <2>1, FrontStays DEF IInv
  <2>. QED  BY <2>2 DEF Dispatching, Calling, FirstPending
<1>3. /\ n \in Nat /\ g_msgQueueSize \in Nat /\ g_msgQueueSize' = g_msgQueueSize + 1
      /\ (g_msgQueueSize - FirstPending)' = n + 1
  BY <1>2 DEF IInv, TypeOK, RingShape, FirstPending, Enqueue
<1>4. ASSUME NEW k \in FirstPending .. g_msgQueueSize - 1
      PROVE  MessageAt(g_msgQueue', g_msgQueueFront, payload', k)
               = MessageAt(g_msgQueue, g_msgQueueFront, payload, k)
  <2>1. k \in 0 .. g_msgQueueSize - 1
    BY <1>2
  <2>2. Place(k) \in Index /\ Place(k) # g_msgQueueTail
    BY <2>1, Places DEF IInv
  <2>3. g_msgQueue'[Place(k)] = g_msgQueue[Place(k)]
    BY <2>2 DEF Enqueue, IInv, TypeOK
  <2>. QED  BY <2>3, MessageStays
<1>5. MessageAt(g_msgQueue', g_msgQueueFront, payload', g_msgQueueSize) = m
  <2>1. Place(g_msgQueueSize) = g_msgQueueTail
    BY TailIsNext DEF IInv
  <2>2. g_msgQueue'[g_msgQueueTail] = [buffer |-> b, id |-> id]
    BY DEF Enqueue, IInv, TypeOK
  <2>3. EntryAt(g_msgQueue', g_msgQueueFront, g_msgQueueSize) = [buffer |-> b, id |-> id]
    BY <2>1, <2>2 DEF Place, EntryAt
  <2>. QED  BY <1>1, <2>3 DEF MessageAt
<1>6. Pending' = Append(Pending, m)
  <2>1. /\ Pending = [k \in 1 .. n |-> Pending[k]]
        /\ \A k \in 1 .. n : Pending[k] = MessageAt(g_msgQueue, g_msgQueueFront, payload, k - 1 + FirstPending)
    BY PendingAre
  <2>2. Pending' = [k \in 1 .. n + 1 |->
                      MessageAt(g_msgQueue', g_msgQueueFront, payload', k - 1 + FirstPending)]
    BY <1>2, <1>3, PendingAre DEF Enqueue
  <2>3. /\ Pending' = [k \in 1 .. n + 1 |-> Pending'[k]]
        /\ \A k \in 1 .. n + 1 :
             Pending'[k] = MessageAt(g_msgQueue', g_msgQueueFront, payload', k - 1 + FirstPending)
    BY <2>2
  <2>4. ASSUME NEW k \in 1 .. n PROVE Pending'[k] = Pending[k]
    <3>1. k - 1 + FirstPending \in FirstPending .. g_msgQueueSize - 1 /\ k \in 1 .. n + 1
      BY <1>2, <1>3
    <3>. QED  BY <1>4, <2>1, <2>3, <3>1
  <2>5. Pending'[n + 1] = m
    <3>1. \A k \in 1 .. n + 1 : k - 1 + FirstPending = g_msgQueueSize => Pending'[k] = m
      BY <1>5, <2>3
    <3>2. PICK j \in 1 .. n + 1 : j = n + 1 /\ j - 1 + FirstPending = g_msgQueueSize
      BY <1>2, <1>3
    <3>3. Pending'[j] = m
      BY <3>1, <3>2
    <3>4. Pending'[j] = Pending'[n + 1]
      BY <3>2
    <3>. QED  BY <3>3, <3>4
  <2> HIDE DEF n
  <2>. QED  BY <1>3, <2>1, <2>3, <2>4, <2>5, AppendOne
<1>7. UNCHANGED <<Subscribed, Current, Due, served, Kept>>
  BY <1>2, CurrentStays, DueStays, SubscribedStays, KeptStays DEF IInv
<1>. QED  BY <1>1, <1>6, <1>7 DEF MQ!Post
-----------------------------------------------------------------------------
\* Contents are written where nobody reads them: to a free buffer,
LEMMA FreeKeepsContents ==
  ASSUME IInv, NEW b \in Buffers, refCnt[b] = 0, NEW v, payload' = [payload EXCEPT ![b] = v]
  PROVE  ContentsStay
<1>1. BufferOK(b)
  BY DEF IInv
<1>2. QueuedAt(b) = {} /\ RetainedBy(b) = {}
  BY <1>1, FreeIsUnused
<1>. QED  BY <1>2 DEF IInv, TypeOK, ContentsStay

\* or to one that a producer has fetched.
LEMMA HeldKeepsContents ==
  ASSUME IInv, NEW p \in Producers, held[p] # NULL, NEW v, payload' = [payload EXCEPT ![held[p]] = v]
  PROVE  ContentsStay
<1>1. held[p] \in Buffers /\ HeldBy(held[p]) # {}
  BY DEF IInv, TypeOK, HeldBy
<1>2. BufferOK(held[p])
  BY <1>1 DEF IInv
<1>3. QueuedAt(held[p]) = {} /\ RetainedBy(held[p]) = {}
  BY <1>1, <1>2 DEF BufferOK
<1>. QED  BY <1>1, <1>3 DEF IInv, TypeOK, ContentsStay

\* A post of the poster's own data is a post as well: the buffer was free.
LEMMA PostCopyIsPost ==
  ASSUME IInv, IInv', NEW id \in CopiedIDs, NEW v, PostCopy(id, v),
         UNCHANGED <<callbackVector, slot, served, retained>>,
         pc' = pc \/ (pc = "body" /\ pc' = "unlockAgain")
  PROVE  \E m \in MQ!Messages : MQ!Post(m)
<1>1. PICK b \in Buffers :
        refCnt[b] = 0 /\ payload' = [payload EXCEPT ![b] = v] /\ Enqueue(b, id)
  BY DEF PostCopy, IsFree
<1>2. ContentsStay
  BY <1>1, FreeKeepsContents
<1>3. id \in MsgIDs /\ ~QueueFull
  BY ConstantsAssumption DEF PostCopy
<1>. QED  BY <1>1, <1>2, <1>3, PostIsPost

\* The first element of a sequence and the others
LEMMA TailIs ==
  ASSUME NEW n \in Nat \ {0}, NEW s
  PROVE  /\ Head([k \in 1 .. n |-> s[k]]) = s[1]
         /\ Tail([k \in 1 .. n |-> s[k]]) = [k \in 1 .. n - 1 |-> s[k + 1]]
         /\ [k \in 1 .. n |-> s[k]] # <<>>
  OBVIOUS

\* What is handed out is the entry at the front, as a message.
LEMMA FrontIsMessage ==
  ASSUME TypeOK
  PROVE  /\ Front.id \in MsgIDs /\ Front.buffer \in Buffers \cup {NULL}
         /\ Message(Front.buffer, Front.id) \in MQ!Messages
         /\ Message(Front.buffer, Front.id) # NULL
         /\ Message(Front.buffer, Front.id).id = Front.id
         /\ MessageAt(g_msgQueue, g_msgQueueFront, payload, 0) = Message(Front.buffer, Front.id)
<1>1. Front \in Entries
  BY DEF TypeOK, Front
<1>2. Front.id \in MsgIDs /\ Front.buffer \in Buffers \cup {NULL}
  BY <1>1 DEF Entries
<1>3. EntryAt(g_msgQueue, g_msgQueueFront, 0) = Front
  BY ConstantsAssumption DEF TypeOK, Index, EntryAt, Front
<1>4. MessageOf(Front, payload) = Message(Front.buffer, Front.id)
  BY DEF MessageOf, Message
<1>5. Message(Front.buffer, Front.id).id = Front.id
  BY DEF Message
<1>. QED  BY <1>2, <1>3, <1>4, <1>5, MessagesAre DEF MessageAt

\* The message at the front is the first that is pending when the loop takes it up.
LEMMA TakeIsTakeUp ==
  ASSUME IInv, Take
  PROVE  MQ!TakeUp
<1> DEFINE n == g_msgQueueSize
<1>1. /\ pc = "poll" /\ pc' = "call" /\ n \in Nat \ {0} /\ UNCHANGED <<queueVars, payload>>
      /\ slot' = 0 /\ served' = {} /\ UNCHANGED <<callbackVector, retained>>
  BY DEF Take, IInv, TypeOK, clientVars
<1>2. /\ FirstPending = 0 /\ FirstPending' = 1
      /\ ~Dispatching /\ Dispatching' /\ Front' = Front
  BY <1>1 DEF FirstPending, Dispatching, Calling, Front, queueVars
<1>3. /\ Pending = [k \in 1 .. n |-> Pending[k]]
      /\ \A k \in 1 .. n : Pending[k] = MessageAt(g_msgQueue, g_msgQueueFront, payload, k - 1)
  <2>1. Pending = [k \in 1 .. n |-> MessageAt(g_msgQueue, g_msgQueueFront, payload, k - 1)]
    <3>1. \A k \in 1 .. n : k - 1 + FirstPending = k - 1
      BY <1>2
    <3>2. n - FirstPending = n
      BY <1>1, <1>2
    <3>. QED  BY <3>1, <3>2, PendingAre
  <2>. QED  BY <2>1
<1>4. Pending' = [k \in 1 .. n - 1 |-> MessageAt(g_msgQueue, g_msgQueueFront, payload, k)]
  <2>1. \A k \in 1 .. n - 1 : k - 1 + FirstPending' = k
    BY <1>2
  <2>. QED  BY <1>1, <1>2, <2>1, PendingAre DEF queueVars
<1>5. Head(Pending) = Message(Front.buffer, Front.id) /\ Pending # <<>>
  <2>1. 1 \in 1 .. n /\ Pending[1] = MessageAt(g_msgQueue, g_msgQueueFront, payload, 0)
    BY <1>1, <1>3
  <2>. QED  BY <1>1, <1>3, <2>1, TailIs, FrontIsMessage DEF IInv
<1>6. Pending' = Tail(Pending)
  <2>1. Tail(Pending) = [k \in 1 .. n - 1 |-> Pending[k + 1]]
    BY <1>1, <1>3, TailIs
  <2>2. ASSUME NEW k \in 1 .. n - 1
        PROVE  Pending[k + 1] = MessageAt(g_msgQueue, g_msgQueueFront, payload, k)
    <3>1. PICK j \in 1 .. n : j = k + 1 /\ j - 1 = k
      BY <1>1
    <3>2. Pending[j] = MessageAt(g_msgQueue, g_msgQueueFront, payload, k)
      BY <1>3, <3>1
    <3>. QED  BY <3>1, <3>2
  <2>. QED  BY <1>4, <2>1, <2>2
<1>7. Current = NULL /\ Current' = Message(Front.buffer, Front.id)
  BY <1>1, <1>2 DEF Current, Message
<1>8. Due' = Subscribed[Front.id]
  <2>1. Slots = 0 .. MaxReceivers - 1 /\ Front.id \in MsgIDs
    BY FrontIsMessage DEF Slots, IInv
  <2>. QED  BY <1>1, <1>2, <2>1 DEF Due, Subscribed
<1>9. Subscribed' = Subscribed /\ Kept' = Kept
  BY <1>1 DEF Subscribed, Kept, Message
<1>. QED
  BY <1>1, <1>5, <1>6, <1>7, <1>8, <1>9, FrontIsMessage DEF MQ!TakeUp, IInv
-----------------------------------------------------------------------------
\* The rest of the loop. An empty slot is passed over, a receiver gets the message.
LEMMA CallIsHandTo ==
  ASSUME IInv, QueueInv, CallReceiver
  PROVE  \/ UNCHANGED MQ!vars
         \/ \E r \in Receivers : MQ!HandTo(r)
<1> DEFINE callback == callbackVector[Front.id][slot]
<1>1. /\ Front.id \in MsgIDs /\ slot \in Slots /\ slot' = slot + 1
      /\ Dispatching /\ Dispatching' /\ Front' = Front
      /\ UNCHANGED <<queueVars, payload, callbackVector, retained>>
  BY FrontIsMessage, ConstantsAssumption
  DEF CallReceiver, IInv, TypeOK, Slots, Dispatching, Calling, Front, queueVars, bufferVars, clientVars
<1>2. /\ Due = {callbackVector[Front.id][s] : s \in slot .. MaxReceivers - 1} \ {NULL}
      /\ Due' = {callbackVector[Front.id][s] : s \in slot + 1 .. MaxReceivers - 1} \ {NULL}
  BY <1>1 DEF Due
<1>3. /\ \A s \in slot .. MaxReceivers - 1 : s = slot \/ s \in slot + 1 .. MaxReceivers - 1
      /\ \A s \in slot + 1 .. MaxReceivers - 1 : s \in slot .. MaxReceivers - 1 /\ s \in Slots /\ s # slot
      /\ slot \in slot .. MaxReceivers - 1
  BY <1>1, ConstantsAssumption DEF Slots
<1>4. ContentsStay /\ FirstPending' = FirstPending
  BY <1>1 DEF ContentsStay, CallReceiver, FirstPending
<1>5. UNCHANGED <<Subscribed, Pending, Current, Kept>>
  BY <1>1, <1>4, SubscribedStays, PendingStays, CurrentStays, KeptStays DEF IInv
<1>6. CASE callback = NULL
  <2>1. Due' = Due
    BY <1>2, <1>3, <1>6
  <2>2. served' = served
    BY <1>6 DEF CallReceiver
  <2>. QED  BY <1>5, <2>1, <2>2 DEF MQ!vars
<1>7. CASE callback # NULL
  <2>1. served' = served \cup {callback}
    BY <1>7 DEF CallReceiver
  <2>2. callback \in Receivers /\ callback \in Due
    BY <1>1, <1>2, <1>3, <1>7 DEF IInv, TypeOK
  <2>3. \A s \in slot + 1 .. MaxReceivers - 1 : callbackVector[Front.id][s] # callback
    BY <1>1, <1>3, <1>7 DEF QueueInv, OneSlotEach
  <2>4. Due' = Due \ {callback}
    BY <1>2, <1>3, <2>3
  <2>. QED  BY <1>5, <2>1, <2>2, <2>4 DEF MQ!HandTo
<1>. QED  BY <1>6, <1>7

\* When every receiver was called the message is given up,
LEMMA UnlockIsFinish ==
  ASSUME IInv, QueueInv, UnlockFront
  PROVE  MQ!Finish
<1>1. /\ Dispatching /\ ~Dispatching' /\ FirstPending' = FirstPending /\ served' = {}
      /\ slot = MaxReceivers
      /\ UNCHANGED <<queueVars, payload, callbackVector, retained>>
  BY DEF UnlockFront, Dispatching, Calling, FirstPending, QueueInv, ServedAreBehind, clientVars
<1>2. slot .. MaxReceivers - 1 = {}
  BY <1>1 DEF IInv, TypeOK
<1>3. Due = {} /\ Due' = {}
  BY <1>1, <1>2 DEF Due
<1>4. Current # NULL /\ Current' = NULL
  BY <1>1, FrontIsMessage DEF Current, IInv
<1>5. ContentsStay
  BY <1>1 DEF ContentsStay
<1>6. UNCHANGED <<Subscribed, Pending, Kept>>
  BY <1>1, <1>5, SubscribedStays, PendingStays, KeptStays DEF IInv
<1>. QED  BY <1>1, <1>3, <1>4, <1>6 DEF MQ!Finish

\* and then its entry leaves the ring, where it was not pending any more.
LEMMA AdvanceIsStutter ==
  ASSUME IInv, Advance
  PROVE  UNCHANGED MQ!vars
<1> DEFINE n == g_msgQueueSize - 1
<1>1. /\ ~Dispatching /\ ~Dispatching' /\ FirstPending = 1 /\ FirstPending' = 0
      /\ g_msgQueueSize \in Nat \ {0} /\ g_msgQueueSize' = n
      /\ g_msgQueueFront' = Succ(g_msgQueueFront)
      /\ UNCHANGED <<g_msgQueue, payload, callbackVector, retained, served>>
  BY DEF Advance, Dispatching, Calling, FirstPending, IInv, TypeOK, RingShape, bufferVars, clientVars
<1>2. ASSUME NEW k \in 1 .. n
      PROVE  MessageAt(g_msgQueue, Succ(g_msgQueueFront), payload, k - 1)
               = MessageAt(g_msgQueue, g_msgQueueFront, payload, k)
  <2>1. EntryAt(g_msgQueue, Succ(g_msgQueueFront), k - 1) = EntryAt(g_msgQueue, g_msgQueueFront, k)
    <3>1. /\ QueueSize \in Nat /\ g_msgQueueFront \in Nat /\ g_msgQueueFront < QueueSize
          /\ k \in Nat /\ 1 <= k /\ k < QueueSize
      BY <1>1, ConstantsAssumption DEF IInv, TypeOK, Index
    <3>2. CASE g_msgQueueFront = QueueSize - 1
      <4>1. Succ(g_msgQueueFront) = 0
        BY <3>2 DEF Succ
      <4>2. EntryAt(g_msgQueue, 0, k - 1) = g_msgQueue[k - 1]
        <5>1. 0 + (k - 1) = k - 1 /\ k - 1 < QueueSize
          BY <3>1
        <5>. QED  BY <5>1 DEF EntryAt
      <4>3. EntryAt(g_msgQueue, g_msgQueueFront, k) = g_msgQueue[k - 1]
        <5>1. PICK i \in Nat : i = g_msgQueueFront + k /\ ~(i < QueueSize) /\ i - QueueSize = k - 1
          BY <3>1, <3>2
        <5>2. EntryAt(g_msgQueue, g_msgQueueFront, k) = g_msgQueue[i - QueueSize]
          BY <3>1, <5>1 DEF EntryAt
        <5>. QED  BY <5>1, <5>2
      <4>. QED  BY <4>1, <4>2, <4>3
    <3>3. CASE g_msgQueueFront # QueueSize - 1
      <4>1. Succ(g_msgQueueFront) = g_msgQueueFront + 1
        BY <3>3 DEF Succ
      <4>2. g_msgQueueFront + 1 + (k - 1) = g_msgQueueFront + k
        BY <3>1
      <4>. QED  BY <4>1, <4>2 DEF EntryAt
    <3>. QED  BY <3>2, <3>3
  <2>. QED  BY <2>1 DEF MessageAt
<1>3. Pending = [k \in 1 .. n |-> MessageAt(g_msgQueue, g_msgQueueFront, payload, k)]
  <2>1. \A k \in 1 .. n : k - 1 + FirstPending = k
    BY <1>1
  <2>. QED  BY <1>1, <2>1, PendingAre
<1>4. Pending' = [k \in 1 .. n |-> MessageAt(g_msgQueue, Succ(g_msgQueueFront), payload, k - 1)]
  <2>1. \A k \in 1 .. n : k - 1 + FirstPending' = k - 1
    BY <1>1
  <2>2. g_msgQueueSize' - FirstPending' = n
    BY <1>1
  <2>. QED  BY <1>1, <2>1, <2>2, PendingAre
<1>5. Pending' = Pending
  BY <1>2, <1>3, <1>4
<1>6. Current' = Current /\ Due' = Due
  BY <1>1 DEF Current, Due
<1>7. ContentsStay
  BY <1>1 DEF ContentsStay
<1>8. Subscribed' = Subscribed /\ Kept' = Kept
  BY <1>1, <1>7, SubscribedStays, KeptStays DEF IInv
<1>. QED  BY <1>1, <1>5, <1>6, <1>8 DEF MQ!vars

-----------------------------------------------------------------------------
\* The callbacks' calls. A lock keeps the message that is handed out: its entry names
\* the pool of its buffer.
LEMMA LockIsKeep ==
  ASSUME IInv, QueueInv, BodyLock
  PROVE  \E r \in Receivers : MQ!Keep(r)
<1>1. /\ running \in Receivers /\ running \in served /\ retained[running] = NULL
      /\ Front.buffer # NULL /\ retained' = [retained EXCEPT ![running] = Front.buffer]
      /\ Dispatching /\ Dispatching' /\ Front' = Front /\ FirstPending' = FirstPending
      /\ UNCHANGED <<queueVars, payload, callbackVector, slot, served>>
  BY DEF BodyLock, IInv, TypeOK, QueueInv, ServedAreBehind, Dispatching, Calling, Front, FirstPending,
         queueVars, pumpVars
<1>2. Front.buffer \in Buffers /\ Front.id = PoolOf[Front.buffer]
  BY <1>1, FrontIsMessage DEF QueueInv, EntriesArePooled, IInv, TypeOK, Front
<1>3. Current = Message(Front.buffer, PoolOf[Front.buffer])
  BY <1>1, <1>2 DEF Current
<1>4. Current.payload # NULL
  BY <1>1, <1>2, <1>3, ConstantsAssumption DEF Message, IInv, TypeOK
<1>5. Kept[running] = NULL
  BY <1>1 DEF Kept
<1>6. Kept' = [Kept EXCEPT ![running] = Current]
  <2>1. \A r \in Receivers : retained'[r] = IF r = running THEN Front.buffer ELSE retained[r]
    BY <1>1 DEF IInv, TypeOK
  <2>2. \A b, id : Message(b, id)' = [id |-> id, payload |-> IF b = NULL THEN NULL ELSE payload[b]]
    BY <1>1 DEF Message
  <2>3. Kept' = [r \in Receivers |->
                   IF retained'[r] = NULL THEN NULL
                   ELSE [id |-> PoolOf[retained'[r]],
                         payload |-> IF retained'[r] = NULL THEN NULL ELSE payload[retained'[r]]]]
    BY <2>2 DEF Kept
  <2>4. Current = [id |-> PoolOf[Front.buffer], payload |-> payload[Front.buffer]]
    BY <1>1, <1>3 DEF Message
  <2>5. ASSUME NEW r \in Receivers PROVE Kept'[r] = IF r = running THEN Current ELSE Kept[r]
    <3>1. CASE r = running
      BY <1>1, <2>1, <2>3, <2>4, <3>1
    <3>2. CASE r # running
      <4>1. retained'[r] = retained[r]
        BY <2>1, <3>2
      <4>. QED  BY <2>3, <3>2, <4>1 DEF Kept, Message
    <3>. QED  BY <3>1, <3>2
  <2>6. Kept' = [r \in Receivers |-> Kept'[r]]
    BY <2>3
  <2>7. Kept = [r \in Receivers |-> Kept[r]]
    BY DEF Kept
  <2>. QED  BY <2>5, <2>6, <2>7
<1>7. ContentsStay
  BY <1>1 DEF ContentsStay
<1>8. UNCHANGED <<Subscribed, Pending, Current, Due>>
  BY <1>1, <1>7, SubscribedStays, PendingStays, CurrentStays, DueStays
<1>. QED  BY <1>1, <1>4, <1>5, <1>6, <1>8 DEF MQ!Keep

\* An unlock gives the message back that the receiver has kept.
LEMMA UnlockIsGiveBack ==
  ASSUME IInv, BodyUnlock
  PROVE  \E r \in Receivers : MQ!GiveBack(r)
<1>1. /\ running \in Receivers /\ retained[running] # NULL
      /\ retained' = [retained EXCEPT ![running] = NULL]
      /\ Dispatching /\ Dispatching' /\ Front' = Front /\ FirstPending' = FirstPending
      /\ UNCHANGED <<queueVars, payload, callbackVector, slot, served>>
  BY DEF BodyUnlock, IInv, TypeOK, Dispatching, Calling, Front, FirstPending, queueVars, pumpVars
<1>2. retained[running] \in Buffers /\ PoolOf[retained[running]] \in MsgIDs
  BY <1>1, ConstantsAssumption DEF IInv, TypeOK
<1>3. Kept[running] # NULL
  BY <1>1, <1>2, MessagesAre DEF Kept, IInv
<1>4. Kept' = [Kept EXCEPT ![running] = NULL]
  <2>1. \A r \in Receivers : retained'[r] = IF r = running THEN NULL ELSE retained[r]
    BY <1>1 DEF IInv, TypeOK
  <2>2. \A b, id : Message(b, id)' = [id |-> id, payload |-> IF b = NULL THEN NULL ELSE payload[b]]
    BY <1>1 DEF Message
  <2>3. Kept' = [r \in Receivers |->
                   IF retained'[r] = NULL THEN NULL
                   ELSE [id |-> PoolOf[retained'[r]],
                         payload |-> IF retained'[r] = NULL THEN NULL ELSE payload[retained'[r]]]]
    BY <2>2 DEF Kept
  <2>. QED  BY <1>1, <2>1, <2>3 DEF Kept, Message
<1>5. ContentsStay
  BY <1>1 DEF ContentsStay
<1>6. UNCHANGED <<Subscribed, Pending, Current, Due>>
  BY <1>1, <1>5, SubscribedStays, PendingStays, CurrentStays, DueStays
<1>. QED  BY <1>1, <1>3, <1>4, <1>6 DEF MQ!GiveBack
-----------------------------------------------------------------------------
\* A registration may add a receiver that was not called yet to those that are due,
LEMMA RegisterIsSubscribe ==
  ASSUME OneProxy, IInv, QueueInv, NEW r \in ProxyReceivers, NEW id \in MsgIDs, BodyRegister(r, id)
  PROVE  MQ!Subscribe(r, id)
<1>1. PICK s \in Slots :
        /\ callbackVector[id][s] \in {NULL, r}
        /\ \A t \in 0 .. s - 1 : callbackVector[id][t] \notin {NULL, r}
        /\ callbackVector' = [callbackVector EXCEPT ![id][s] = r]
  BY DEF BodyRegister
<1>2. /\ Dispatching /\ Dispatching' /\ Front' = Front /\ FirstPending' = FirstPending
      /\ UNCHANGED <<queueVars, payload, slot, served, retained>>
      /\ r # NULL /\ Front.id \in MsgIDs /\ slot \in Nat
      /\ s \in Int /\ 0 <= s /\ s <= MaxReceivers - 1 /\ \A t \in Slots : t \in Int /\ 0 <= t
  BY FrontIsMessage, ConstantsAssumption
  DEF BodyRegister, Dispatching, Calling, Front, FirstPending, queueVars, bufferVars, pumpVars,
      clientVars, IInv, TypeOK, Slots
<1>3. /\ \A i \in MsgIDs \ {id} : callbackVector'[i] = callbackVector[i]
      /\ callbackVector'[id][s] = r
      /\ \A t \in Slots \ {s} : callbackVector'[id][t] = callbackVector[id][t]
  BY <1>1 DEF IInv, TypeOK
<1>4. Subscribed' = [Subscribed EXCEPT ![id] = @ \cup {r}]
  <2>1. {callbackVector'[id][t] : t \in Slots} \ {NULL}
          = ({callbackVector[id][t] : t \in Slots} \ {NULL}) \cup {r}
    BY <1>1, <1>2, <1>3
  <2>2. ASSUME NEW i \in MsgIDs
        PROVE  Subscribed'[i] = IF i = id THEN Subscribed[id] \cup {r} ELSE Subscribed[i]
    BY <1>3, <2>1 DEF Subscribed
  <2>3. /\ Subscribed = [i \in MsgIDs |-> Subscribed[i]]
        /\ Subscribed' = [i \in MsgIDs |-> Subscribed'[i]]
    BY DEF Subscribed
  <2>. QED  BY <2>2, <2>3
<1>5. /\ Due = {callbackVector[Front.id][t] : t \in slot .. MaxReceivers - 1} \ {NULL}
      /\ Due' = {callbackVector'[Front.id][t] : t \in slot .. MaxReceivers - 1} \ {NULL}
      /\ \A t \in slot .. MaxReceivers - 1 : t \in Slots
  BY <1>2, ConstantsAssumption DEF Due, Slots
<1>6. Current # NULL /\ Current.id = Front.id
  BY <1>2, FrontIsMessage DEF Current, IInv
<1>7. ASSUME Front.id # id \/ s < slot \/ callbackVector[id][s] = r
      PROVE  Due' = Due
  <2>1. \A t \in slot .. MaxReceivers - 1 : callbackVector'[Front.id][t] = callbackVector[Front.id][t]
    <3>1. CASE Front.id # id
      BY <1>2, <1>3, <3>1
    <3>2. CASE Front.id = id /\ s < slot
      <4>1. \A t \in slot .. MaxReceivers - 1 : t # s
        BY <1>2, <3>2
      <4>. QED  BY <1>3, <1>5, <3>2, <4>1
    <3>3. CASE Front.id = id /\ callbackVector[id][s] = r
      BY <1>3, <1>5, <3>3
    <3>. QED  BY <1>7, <3>1, <3>2, <3>3
  <2>. QED  BY <1>5, <2>1
<1>8. ASSUME Front.id = id, ~(s < slot), callbackVector[id][s] = NULL
      PROVE  r \notin served /\ Due' = Due \cup {r}
  <2>1. s \in slot .. MaxReceivers - 1
    BY <1>2, <1>8
  <2>2. Due' = Due \cup {r}
    BY <1>2, <1>3, <1>5, <1>8, <2>1
  <2>3. r \notin served
    <3>1. SUFFICES ASSUME r \in served PROVE FALSE
      OBVIOUS
    <3>2. PICK t \in Slots : t < slot /\ callbackVector[id][t] \in {NULL, r}
      BY <1>8, <3>1 DEF QueueInv, ServedAreBehind
    <3>3. t \in 0 .. s - 1
      BY <1>2, <1>8, <3>2
    <3>. QED  BY <1>1, <3>2, <3>3
  <2>. QED  BY <2>2, <2>3
<1>9. Due' = Due \/ (Front.id = id /\ r \notin served /\ Due' = Due \cup {r})
  BY <1>1, <1>7, <1>8
<1>10. ContentsStay
  BY <1>2 DEF ContentsStay
<1>11. UNCHANGED <<Pending, Current, served, Kept>>
  BY <1>2, <1>10, PendingStays, CurrentStays, KeptStays DEF IInv
<1>. QED  BY <1>4, <1>6, <1>9, <1>11 DEF MQ!Subscribe

\* and an unregistration takes it from them, with its one slot.
LEMMA UnregisterIsUnsubscribe ==
  ASSUME OneProxy, IInv, QueueInv, NEW r \in ProxyReceivers, NEW id \in MsgIDs, BodyUnregister(r, id)
  PROVE  MQ!Unsubscribe(r, id)
<1>1. PICK s \in Slots :
        /\ callbackVector[id][s] = r
        /\ callbackVector' = [callbackVector EXCEPT ![id][s] = NULL]
  BY DEF BodyUnregister
<1>2. /\ Dispatching /\ Dispatching' /\ Front' = Front /\ FirstPending' = FirstPending
      /\ UNCHANGED <<queueVars, payload, slot, served, retained>>
      /\ r # NULL /\ Front.id \in MsgIDs
  BY FrontIsMessage, ConstantsAssumption
  DEF BodyUnregister, Dispatching, Calling, Front, FirstPending, queueVars, bufferVars, pumpVars,
      clientVars, IInv
<1>3. /\ \A i \in MsgIDs \ {id} : callbackVector'[i] = callbackVector[i]
      /\ callbackVector'[id][s] = NULL
      /\ \A t \in Slots \ {s} : callbackVector'[id][t] = callbackVector[id][t]
      /\ \A t \in Slots \ {s} : callbackVector[id][t] # r
  BY <1>1, <1>2 DEF IInv, TypeOK, QueueInv, OneSlotEach
<1>4. Subscribed' = [Subscribed EXCEPT ![id] = @ \ {r}]
  <2>1. {callbackVector'[id][t] : t \in Slots} \ {NULL}
          = ({callbackVector[id][t] : t \in Slots} \ {NULL}) \ {r}
    BY <1>1, <1>3
  <2>2. ASSUME NEW i \in MsgIDs
        PROVE  Subscribed'[i] = IF i = id THEN Subscribed[id] \ {r} ELSE Subscribed[i]
    BY <1>3, <2>1 DEF Subscribed
  <2>3. /\ Subscribed = [i \in MsgIDs |-> Subscribed[i]]
        /\ Subscribed' = [i \in MsgIDs |-> Subscribed'[i]]
    BY DEF Subscribed
  <2>. QED  BY <2>2, <2>3
<1>5. /\ Due = {callbackVector[Front.id][t] : t \in slot .. MaxReceivers - 1} \ {NULL}
      /\ Due' = {callbackVector'[Front.id][t] : t \in slot .. MaxReceivers - 1} \ {NULL}
      /\ \A t \in slot .. MaxReceivers - 1 : t \in Slots
  BY <1>2, ConstantsAssumption DEF Due, Slots, IInv, TypeOK
<1>6. Current # NULL /\ Current.id = Front.id
  BY <1>2, FrontIsMessage DEF Current, IInv
<1>7. Due' = IF Front.id = id THEN Due \ {r} ELSE Due
  <2>1. CASE Front.id = id
    BY <1>1, <1>3, <1>5, <2>1
  <2>2. CASE Front.id # id
    BY <1>2, <1>3, <1>5, <2>2
  <2>. QED  BY <2>1, <2>2
<1>8. ContentsStay
  BY <1>2 DEF ContentsStay
<1>9. UNCHANGED <<Pending, Current, served, Kept>>
  BY <1>2, <1>8, PendingStays, CurrentStays, KeptStays DEF IInv
<1>. QED  BY <1>4, <1>6, <1>7, <1>9 DEF MQ!Unsubscribe

-----------------------------------------------------------------------------
\* At first nothing is pending, handed out or kept.
LEMMA InitIsQueueInit ==
  ASSUME Init
  PROVE  MQ!Init
<1>1. /\ g_msgQueueSize = 0 /\ FirstPending = 0 /\ ~Dispatching /\ served = {}
      /\ \A r \in Receivers : retained[r] = NULL
  BY DEF Init, FirstPending, Dispatching, Calling
<1>2. Pending = <<>>
  BY <1>1, PendingAre
<1>3. Subscribed \in [MsgIDs -> SUBSET Receivers]
  BY ConstantsAssumption DEF Init, Subscribed
<1>4. Current = NULL /\ Due = {}
  BY <1>1 DEF Current, Due
<1>5. Kept = [r \in Receivers |-> NULL]
  BY <1>1 DEF Kept
<1>. QED  BY <1>1, <1>2, <1>3, <1>4, <1>5 DEF MQ!Init

\* Every step of the pump's is one of the queue's, or changes nothing of it.
LEMMA NextIsQueueNext ==
  ASSUME StaleProducers = {}, OneProxy, IInv, IInv', QueueInv, [Next]_vars
  PROVE  [MQ!Next]_(MQ!vars)
<1> DEFINE Post == \E m \in MQ!Messages : MQ!Post(m)
           Quiet == UNCHANGED MQ!vars
<1>s. Quiet => [MQ!Next]_(MQ!vars)
  OBVIOUS
<1> HIDE DEF Quiet
<1>q. ASSUME ContentsStay, UNCHANGED <<queueVars, callbackVector, slot, served, retained>>,
             Dispatching' = Dispatching, FirstPending' = FirstPending
      PROVE  Quiet
  BY <1>q, QuietIsStutter DEF Quiet
<1>p. payload' = payload => ContentsStay
  BY DEF ContentsStay
<1>1. ASSUME NEW p \in Producers, GetFreeBuffer(p) \/ PostHeldFails(p) PROVE Quiet
  BY <1>1, <1>p, <1>q
  DEF GetFreeBuffer, PostHeldFails, PostToFullQueue, Dispatching, Calling, FirstPending, bufferVars, pumpVars
<1>2. ASSUME NEW p \in Producers, PostHeld(p) PROVE Post
  <2>1. /\ held[p] \in Buffers /\ PoolOf[held[p]] \in MsgIDs /\ ~QueueFull /\ Enqueue(held[p], PoolOf[held[p]])
        /\ UNCHANGED <<callbackVector, slot, served, retained, pc, payload>>
    BY <1>2, ConstantsAssumption DEF PostHeld, PostOwnBuffer, IInv, TypeOK, pumpVars
  <2>. QED  BY <1>p, <2>1, PostIsPost
<1>3. ASSUME NEW p \in Producers, PostStale(p) PROVE FALSE
  BY <1>3, PostStaleStep
<1>4. ASSUME NEW p \in Producers, NEW v \in Payloads, FillBuffer(p, v) PROVE Quiet
  <2>1. ContentsStay
    BY <1>4, HeldKeepsContents DEF FillBuffer
  <2>. QED  BY <1>4, <1>q, <2>1 DEF FillBuffer, Dispatching, Calling, FirstPending, pumpVars, clientVars
<1>5. ASSUME NEW id \in CopiedIDs, NEW v \in Payloads,
             InterruptPostCopy(id, v) \/ TimerPostCopy(id, v) \/ BodyPostCopy(id, v)
      PROVE  Post \/ Quiet
  <2>1. CASE PostCopy(id, v)
    <3>1. ~PostToFullQueue
      BY <2>1 DEF PostCopy, PostToFullQueue
    <3>2. /\ UNCHANGED <<callbackVector, slot, served, retained>>
          /\ pc' = pc \/ (pc = "body" /\ pc' = "unlockAgain")
      BY <1>5, <3>1 DEF InterruptPostCopy, TimerPostCopy, BodyPostCopy, pumpVars, clientVars
    <3>. QED  BY <2>1, <3>2, PostCopyIsPost
  <2>2. CASE ~PostCopy(id, v)
    <3>1. /\ UNCHANGED <<queueVars, payload, callbackVector, slot, served, retained>>
          /\ pc' = pc \/ (pc = "body" /\ pc' = "return")
      BY <1>5, <2>2
      DEF InterruptPostCopy, TimerPostCopy, BodyPostCopy, PostToFullQueue, bufferVars, pumpVars, clientVars
    <3>. QED  BY <1>p, <1>q, <3>1 DEF Dispatching, Calling, FirstPending
  <2>. QED  BY <2>1, <2>2
<1>6. CASE TimerEnter \/ TimerUnlockAgain \/ TimerPostFails \/ TimerExit
  <2>1. UNCHANGED <<queueVars, payload, callbackVector, slot, served, retained, pc>>
    BY <1>6
    DEF TimerEnter, TimerUnlockAgain, TimerPostFails, TimerExit, PostToFullQueue,
        bufferVars, pumpVars, clientVars
  <2>2. Quiet
    BY <1>p, <1>q, <2>1 DEF Dispatching, Calling, FirstPending
  <2>. QED  BY <1>s, <2>2
<1>7. ASSUME NEW id \in NullIDs, TimerPostNull(id) PROVE Post
  <2>1. /\ ~QueueFull /\ Enqueue(NULL, id) /\ id \in MsgIDs
        /\ UNCHANGED <<callbackVector, slot, served, retained, pc, payload>>
    BY <1>7, ConstantsAssumption DEF TimerPostNull, PostNull, bufferVars, pumpVars, clientVars
  <2>. QED  BY <1>p, <2>1, PostIsPost
<1>8. CASE BodyUnlockAgain \/ Return \/ EndCalls
  <2>1. /\ UNCHANGED <<queueVars, payload, callbackVector, slot, served, retained>>
        /\ Dispatching' = Dispatching /\ FirstPending' = FirstPending
    BY <1>8
    DEF BodyUnlockAgain, Return, EndCalls, Dispatching, Calling, FirstPending, bufferVars, clientVars
  <2>2. Quiet
    BY <1>p, <1>q, <2>1
  <2>. QED  BY <1>s, <2>2
<1>9. CASE UNCHANGED vars
  <2>1. UNCHANGED <<queueVars, payload, callbackVector, slot, served, retained, pc>>
    BY <1>9 DEF vars, bufferVars, pumpVars, clientVars
  <2>2. Quiet
    BY <1>p, <1>q, <2>1 DEF Dispatching, Calling, FirstPending
  <2>. QED  BY <1>s, <2>2
<1>10. CASE Advance
  BY <1>10, AdvanceIsStutter
<1>11. ASSUME Post PROVE MQ!Next
  BY <1>11 DEF MQ!Next
<1>12. CASE Take
  BY <1>12, TakeIsTakeUp DEF MQ!Next
<1>13. CASE CallReceiver
  <2>1. Quiet \/ \E r \in Receivers : MQ!HandTo(r)
    BY <1>13, CallIsHandTo DEF Quiet
  <2>. QED  BY <2>1 DEF MQ!Next, Quiet
<1>14. CASE UnlockFront
  BY <1>14, UnlockIsFinish DEF MQ!Next
<1>15. CASE BodyLock
  BY <1>15, LockIsKeep DEF MQ!Next
<1>16. CASE BodyUnlock
  BY <1>16, UnlockIsGiveBack DEF MQ!Next
<1>17. ASSUME NEW r \in ProxyReceivers, NEW id \in MsgIDs, BodyRegister(r, id) \/ BodyUnregister(r, id)
       PROVE  MQ!Next
  <2>1. r \in Receivers
    BY ConstantsAssumption
  <2>2. MQ!Subscribe(r, id) \/ MQ!Unsubscribe(r, id)
    BY <1>17, RegisterIsSubscribe, UnregisterIsUnsubscribe
  <2>. QED  BY <2>1, <2>2 DEF MQ!Next
<1> HIDE DEF Post
<1>. QED
  BY <1>1, <1>2, <1>3, <1>4, <1>5, <1>6, <1>7, <1>8, <1>9, <1>10, <1>11, <1>12, <1>13, <1>14,
     <1>15, <1>16, <1>17, <1>s
  DEF Next, Handler, TimerHandler, Callback, Pump

\* The pump keeps what msg_msgPump.h promises its users, as MessageQueue states it,
\* while posts fail, pools run empty and receivers come and go: each posted message
\* is handed out once to every receiver that is registered on it, in the order of the
\* posts and with its content, and a locked message keeps its content.
THEOREM PumpIsQueue ==
  ASSUME StaleProducers = {}, OneProxy
  PROVE  Spec => MessageQueueSpec
<1> DEFINE I == IInv /\ QueueInv
<1>1. Init => I
  BY InitIInv, InitQueueInv
<1>2. I /\ [Next]_vars => I'
  BY NextIInv, NextQueueInv
<1>3. Init => MQ!Init
  BY InitIsQueueInit
<1>4. I /\ I' /\ [Next]_vars => [MQ!Next]_(MQ!vars)
  BY NextIsQueueNext
<1> HIDE DEF I
<1>. QED  BY <1>1, <1>2, <1>3, <1>4, PTL DEF Spec, MessageQueueSpec, MQ!Spec

===============================================================================
