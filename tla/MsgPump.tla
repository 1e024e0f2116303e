------------------------------- MODULE MsgPump -------------------------------
(***************************************************************************)
(* The message pump (framework/flawless/core/msg_msgPump.c) with the       *)
(* interrupt mutex it relies on (target/stm32f4/p1|p2/system.c).           *)
(*                                                                         *)
(* Contexts.  The main loop runs msgPump_pumpMessage and, from it, the     *)
(* receivers' callbacks.  Interrupt handlers fetch buffers, fill them and  *)
(* post them, or post data of their own, which is copied.  The timer       *)
(* interrupt (swTimer_trigger) runs its clients between a lock and an      *)
(* unlock of the mutex, so its posts nest in a critical section.           *)
(*                                                                         *)
(* Steps.  What the code does with interrupts masked is one step; the main *)
(* loop's unmasked accesses are steps of their own.  An interrupt handler  *)
(* runs when the mutex counter is 0: system_mutex_lock masks before it     *)
(* counts up and system_mutex_unlock unmasks after it counted down to 0,   *)
(* so "masked" and "counter above 0" coincide wherever a handler could     *)
(* start.                                                                  *)
(*                                                                         *)
(* Abstractions.  A pool's free element is chosen nondeterministically     *)
(* (the code takes the first one); headerMagic is not modelled (nothing in *)
(* the repository corrupts it); a call that finds nothing to do (no free   *)
(* buffer, an unregistration that finds no slot) is a stuttering step.     *)
(***************************************************************************)
EXTENDS Integers, Sequences, FiniteSets

CONSTANTS
  MsgIDs,            \* the message IDs that have a pool
  Buffers,           \* the pool elements of all the pools
  PoolOf,            \* the message ID whose pool an element belongs to
  QueueSize,         \* MSG_PUMP_MSG_QUEUE_MAX_SIZE
  MaxReceivers,      \* MAX_AMOUNT_OF_MSG_RECERIVER_PER_MESSAGE
  Receivers,         \* the callback functions
  InitialCallbacks,  \* the callback vectors the init functions have filled
  ProxyReceivers,    \* the callbacks registered and unregistered at run time
  Producers,         \* the users of msgPump_getFreeBuffer
  IDOf,              \* the message ID a producer fetches buffers for
  TimerProducers,    \* the producers that are clients of the timer
  RetryingProducers, \* those that keep their buffer when a post fails
  StaleProducers,    \* those that keep their pointer when a post succeeds
  CopiedIDs,         \* the message IDs posted with the poster's own data
  NullIDs,           \* the message IDs posted with a null pointer
  Payloads,          \* what a message may contain
  MaxLock,           \* bound on the mutex counter
  NULL

RefCntMax == 255     \* msgBufRefCount_t is a uint8_t

Index == 0 .. QueueSize - 1
Slots == 0 .. MaxReceivers - 1

ASSUME ConstantsAssumption ==
  /\ QueueSize \in Nat \ {0}
  /\ MaxReceivers \in Nat
  /\ MaxLock \in Nat \ {0}
  /\ PoolOf \in [Buffers -> MsgIDs]
  /\ IDOf \in [Producers -> MsgIDs]
  /\ TimerProducers \subseteq Producers
  /\ RetryingProducers \subseteq Producers
  /\ StaleProducers \subseteq Producers
  /\ ProxyReceivers \subseteq Receivers
  /\ CopiedIDs \subseteq MsgIDs
  /\ NullIDs \subseteq MsgIDs
  /\ InitialCallbacks \in [MsgIDs -> [Slots -> Receivers \cup {NULL}]]
  /\ IsFiniteSet(Buffers)
  /\ IsFiniteSet(Receivers)
  /\ NULL \notin Buffers \cup Receivers \cup Payloads
  /\ NULL \notin [id : MsgIDs, payload : Payloads \cup {NULL}]

VARIABLES
  g_msgQueue,        \* the ring buffer of posted messages
  g_msgQueueFront,
  g_msgQueueTail,
  g_msgQueueSize,
  refCnt,            \* header->refCnt of each pool element
  flags,             \* header->flags of each pool element
  payload,           \* the data of each pool element
  callbackVector,    \* the registered callbacks of each message ID
  g_lockCounter,     \* the mutex: interrupts are masked while it is above 0
  pc,                \* where msgPump_pumpMessage is
  slot,              \* its loop variable i
  running,           \* the callback it is in, or NULL
  timer,             \* where the timer interrupt is
  held,              \* the buffer each producer has fetched and not posted
  retained,          \* the buffer each receiver has locked for later use
  served,            \* history: the receivers this message was handed to
  lost               \* history: buffers whose producer forgot them

queueVars == <<g_msgQueue, g_msgQueueFront, g_msgQueueTail, g_msgQueueSize>>
bufferVars == <<refCnt, flags, payload>>
pumpVars == <<pc, slot, running, served>>
clientVars == <<held, retained, lost>>
vars == <<queueVars, bufferVars, callbackVector, g_lockCounter, pumpVars,
          timer, clientVars>>

Flags == {"Nothing", "PostedNotDispatched", "InUse", "NotUsable"}
Entries == [buffer : Buffers \cup {NULL}, id : MsgIDs]

TypeOK ==
  /\ g_msgQueue \in [Index -> Entries]
  /\ g_msgQueueFront \in Index
  /\ g_msgQueueTail \in Index
  /\ g_msgQueueSize \in 0 .. QueueSize
  /\ refCnt \in [Buffers -> 0 .. RefCntMax]
  /\ flags \in [Buffers -> Flags]
  /\ payload \in [Buffers -> Payloads]
  /\ callbackVector \in [MsgIDs -> [Slots -> Receivers \cup {NULL}]]
  /\ g_lockCounter \in 0 .. MaxLock
  /\ pc \in {"poll", "call", "body", "unlockAgain", "return", "unlock", "advance"}
  /\ slot \in 0 .. MaxReceivers
  /\ running \in Receivers \cup {NULL}
  /\ served \subseteq Receivers
  /\ timer \in {"idle", "run", "unlockAgain"}
  /\ held \in [Producers -> Buffers \cup {NULL}]
  /\ retained \in [Receivers -> Buffers \cup {NULL}]
  /\ lost \subseteq Buffers

Init ==
  /\ \E id \in MsgIDs : g_msgQueue = [i \in Index |-> [buffer |-> NULL, id |-> id]]
  /\ g_msgQueueFront = 0
  /\ g_msgQueueTail = 0
  /\ g_msgQueueSize = 0
  /\ refCnt = [b \in Buffers |-> 0]
  /\ flags = [b \in Buffers |-> "Nothing"]
  /\ \E v \in Payloads : payload = [b \in Buffers |-> v]
  /\ callbackVector = InitialCallbacks
  /\ g_lockCounter = 0
  /\ pc = "poll"
  /\ slot = 0
  /\ running = NULL
  /\ served = {}
  /\ timer = "idle"
  /\ held = [p \in Producers |-> NULL]
  /\ retained = [r \in Receivers |-> NULL]
  /\ lost = {}

-------------------------------------------------------------------------------
\* system_mutex_unlock. With the counter already at 0 it only unmasks again.
MutexUnlock == g_lockCounter' = IF g_lockCounter > 0 THEN g_lockCounter - 1 ELSE 0

\* (Definitions named Mutant... are the following definition with a bug, for
\* PROJECT.json; nothing else refers to them.)
MutantSuccWrapsLate(i) == IF i = QueueSize THEN 0 ELSE i + 1
Succ(i) == IF i = QueueSize - 1 THEN 0 ELSE i + 1

MutantQueueFullLate == g_msgQueueSize > QueueSize
QueueFull == g_msgQueueFront = g_msgQueueTail /\ g_msgQueueSize # 0

Enqueue(b, id) ==
  /\ g_msgQueue' = [g_msgQueue EXCEPT ![g_msgQueueTail] = [buffer |-> b, id |-> id]]
  /\ g_msgQueueTail' = Succ(g_msgQueueTail)
  /\ g_msgQueueSize' = g_msgQueueSize + 1
  /\ UNCHANGED g_msgQueueFront

Front == g_msgQueue[g_msgQueueFront]

MutantIsFreeByFlag(b) == flags[b] = "Nothing"
IsFree(b) == refCnt[b] = 0 /\ flags[b] = "Nothing"

Lockable(b) == refCnt[b] < RefCntMax /\ flags[b] # "NotUsable"
MutantUnlockableKeepsLast(b) == refCnt[b] > 1 /\ flags[b] # "NotUsable"
Unlockable(b) == refCnt[b] > 0 /\ flags[b] # "NotUsable"

-------------------------------------------------------------------------------
\* msgPump_postMessage, one operator for each way through it. Each leaves the
\* callback vectors and the callers' own variables to the action that calls it.

\* The early return: the mutex stays locked.
PostToFullQueue ==
  /\ QueueFull
  /\ g_lockCounter < MaxLock
  /\ g_lockCounter' = g_lockCounter + 1
  /\ UNCHANGED <<queueVars, bufferVars>>

\* An element of the pool that the caller has fetched.
PostOwnBuffer(b) ==
  /\ ~QueueFull
  /\ refCnt[b] = 1
  /\ flags[b] = "InUse"
  /\ flags' = [flags EXCEPT ![b] = "PostedNotDispatched"]
  /\ Enqueue(b, PoolOf[b])
  /\ UNCHANGED <<refCnt, payload, g_lockCounter>>

\* An element of the pool that the caller did not own: it is declared free.
RecoverBuffer(b) ==
  /\ ~QueueFull
  /\ ~(refCnt[b] = 1 /\ flags[b] = "InUse")
  /\ flags' = [flags EXCEPT ![b] = "Nothing"]
  /\ refCnt' = [refCnt EXCEPT ![b] = 0]
  /\ UNCHANGED <<queueVars, payload, g_lockCounter>>

\* The caller's own data is copied into a free element. On this way through the
\* mutex is unlocked twice. This is the step to the first unlock; the second is
\* a step of its own where interrupts may be unmasked in between.
PostCopy(id, v) ==
  /\ ~QueueFull
  /\ \E b \in Buffers :
       /\ PoolOf[b] = id
       /\ IsFree(b)
       /\ refCnt' = [refCnt EXCEPT ![b] = @ + 1]
       /\ flags' = [flags EXCEPT ![b] = "PostedNotDispatched"]
       /\ payload' = [payload EXCEPT ![b] = v]
       /\ Enqueue(b, id)
  /\ UNCHANGED g_lockCounter

PostNull(id) ==
  /\ ~QueueFull
  /\ Enqueue(NULL, id)
  /\ UNCHANGED <<bufferVars, g_lockCounter>>

-------------------------------------------------------------------------------
\* The users of the pool: handlers of interrupts, and clients of the timer.

\* The handler p runs in can run now.
CanRun(p) == IF p \in TimerProducers THEN timer = "run" ELSE g_lockCounter = 0

\* msgPump_getFreeBuffer.
GetFreeBuffer(p) ==
  /\ CanRun(p)
  /\ held[p] = NULL
  /\ \E b \in Buffers :
       /\ PoolOf[b] = IDOf[p]
       /\ IsFree(b)
       /\ refCnt' = [refCnt EXCEPT ![b] = @ + 1]
       /\ flags' = [flags EXCEPT ![b] = "InUse"]
       /\ held' = [held EXCEPT ![p] = b]
  /\ UNCHANGED <<queueVars, payload, callbackVector, g_lockCounter, pumpVars,
                 timer, retained, lost>>

\* The producer writes into the buffer it has fetched.
FillBuffer(p, v) ==
  /\ CanRun(p)
  /\ held[p] # NULL
  /\ payload' = [payload EXCEPT ![held[p]] = v]
  /\ UNCHANGED <<queueVars, refCnt, flags, callbackVector, g_lockCounter,
                 pumpVars, timer, clientVars>>

\* A successful post: the producer gives its pointer up, unless it is careless.
PostHeld(p) ==
  /\ CanRun(p)
  /\ held[p] # NULL
  /\ PostOwnBuffer(held[p])
  /\ held' = IF p \in StaleProducers THEN held ELSE [held EXCEPT ![p] = NULL]
  /\ UNCHANGED <<callbackVector, pumpVars, timer, retained, lost>>

\* A failing post: a retrying producer (p2p_comm.c) keeps the buffer, the others
\* (genericFlawLessProtocol.c, dynamixel.c, motorReader.c) forget it. (The first
\* of these fetches another at once, and keeps the old one like a retrying
\* producer if there is none.)
PostHeldFails(p) ==
  /\ CanRun(p)
  /\ held[p] # NULL
  /\ PostToFullQueue
  /\ IF p \in RetryingProducers
       THEN UNCHANGED <<held, lost>>
       ELSE /\ held' = [held EXCEPT ![p] = NULL]
            /\ lost' = lost \cup {held[p]}
  /\ UNCHANGED <<callbackVector, pumpVars, timer, retained>>

\* A post through a pointer the producer should have given up.
PostStale(p) ==
  /\ CanRun(p)
  /\ held[p] # NULL
  /\ RecoverBuffer(held[p])
  /\ held' = [held EXCEPT ![p] = NULL]
  /\ UNCHANGED <<callbackVector, pumpVars, timer, retained, lost>>

\* An interrupt handler posts its own data: its second unlock changes nothing.
InterruptPostCopy(id, v) ==
  /\ g_lockCounter = 0
  /\ PostCopy(id, v) \/ PostToFullQueue
  /\ UNCHANGED <<callbackVector, pumpVars, timer, clientVars>>

\* tim5_isr: swTimer_trigger locks the mutex, runs its clients and unlocks.
TimerEnter ==
  /\ timer = "idle"
  /\ g_lockCounter = 0
  /\ timer' = "run"
  /\ g_lockCounter' = 1
  /\ UNCHANGED <<queueVars, bufferVars, callbackVector, pumpVars, clientVars>>

TimerPostCopy(id, v) ==
  /\ timer = "run"
  /\ PostCopy(id, v)
  /\ timer' = "unlockAgain"
  /\ UNCHANGED <<callbackVector, pumpVars, clientVars>>

TimerUnlockAgain ==
  /\ timer = "unlockAgain"
  /\ MutexUnlock
  /\ timer' = "run"
  /\ UNCHANGED <<queueVars, bufferVars, callbackVector, pumpVars, clientVars>>

TimerPostFails ==
  /\ timer = "run"
  /\ PostToFullQueue
  /\ UNCHANGED <<callbackVector, pumpVars, timer, clientVars>>

TimerPostNull(id) ==
  /\ timer = "run"
  /\ PostNull(id)
  /\ UNCHANGED <<callbackVector, pumpVars, timer, clientVars>>

TimerExit ==
  /\ timer = "run"
  /\ MutexUnlock
  /\ timer' = "idle"
  /\ UNCHANGED <<queueVars, bufferVars, callbackVector, pumpVars, clientVars>>

-------------------------------------------------------------------------------
\* The main loop, msgPump_pumpMessage. No interrupt handler is half way through
\* when it takes a step.

MainRuns == timer = "idle"

MutantTakeKeepsSlot ==
  /\ MainRuns
  /\ pc = "poll"
  /\ g_msgQueueSize # 0
  /\ flags' = IF Front.buffer = NULL THEN flags
                                     ELSE [flags EXCEPT ![Front.buffer] = "InUse"]
  /\ pc' = "call"
  /\ served' = {}
  /\ UNCHANGED <<queueVars, refCnt, payload, callbackVector, g_lockCounter, slot,
                 running, timer, clientVars>>

MutantTakeLeavesOne == g_msgQueueSize > 1 /\ MutantTakeKeepsSlot

\* For a message posted as NULL the flag is written below address 0; here that
\* write is lost.
Take ==
  /\ MainRuns
  /\ pc = "poll"
  /\ g_msgQueueSize # 0
  /\ flags' = IF Front.buffer = NULL THEN flags
                                     ELSE [flags EXCEPT ![Front.buffer] = "InUse"]
  /\ pc' = "call"
  /\ slot' = 0
  /\ served' = {}
  /\ UNCHANGED <<queueVars, refCnt, payload, callbackVector, g_lockCounter,
                 running, timer, clientVars>>

CallReceiver ==
  /\ MainRuns
  /\ pc = "call"
  /\ slot < MaxReceivers
  /\ LET callback == callbackVector[Front.id][slot] IN
       IF callback = NULL
         THEN UNCHANGED <<pc, running, served>>
         ELSE /\ pc' = "body"
              /\ running' = callback
              /\ served' = served \cup {callback}
  /\ slot' = slot + 1
  /\ UNCHANGED <<queueVars, bufferVars, callbackVector, g_lockCounter, timer,
                 clientVars>>

\* What a callback may do: lock the message it is given,
BodyLock ==
  /\ MainRuns
  /\ pc = "body"
  /\ Front.buffer # NULL
  /\ retained[running] = NULL
  /\ Lockable(Front.buffer)
  /\ refCnt' = [refCnt EXCEPT ![Front.buffer] = @ + 1]
  /\ retained' = [retained EXCEPT ![running] = Front.buffer]
  /\ UNCHANGED <<queueVars, flags, payload, callbackVector, g_lockCounter,
                 pumpVars, timer, held, lost>>

\* unlock a message it locked before (msgPump_unlockMessage ends with an unlock
\* of the mutex that it never locked),
BodyUnlock ==
  /\ MainRuns
  /\ pc = "body"
  /\ retained[running] # NULL
  /\ refCnt' = IF Unlockable(retained[running])
                 THEN [refCnt EXCEPT ![retained[running]] = @ - 1] ELSE refCnt
  /\ retained' = [retained EXCEPT ![running] = NULL]
  /\ MutexUnlock
  /\ UNCHANGED <<queueVars, flags, payload, callbackVector, pumpVars, timer,
                 held, lost>>

\* msgPump_registerOnMessage: the first slot that is empty or already r's,
BodyRegister(r, id) ==
  /\ MainRuns
  /\ pc = "body"
  /\ \E s \in Slots :
       /\ callbackVector[id][s] \in {NULL, r}
       /\ \A t \in 0 .. s - 1 : callbackVector[id][t] \notin {NULL, r}
       /\ callbackVector' = [callbackVector EXCEPT ![id][s] = r]
  /\ UNCHANGED <<queueVars, bufferVars, g_lockCounter, pumpVars, timer, clientVars>>

\* msgPump_unregisterFromMessage: the first slot that is r's,
BodyUnregister(r, id) ==
  /\ MainRuns
  /\ pc = "body"
  /\ \E s \in Slots :
       /\ callbackVector[id][s] = r
       /\ \A t \in 0 .. s - 1 : callbackVector[id][t] # r
       /\ callbackVector' = [callbackVector EXCEPT ![id][s] = NULL]
  /\ UNCHANGED <<queueVars, bufferVars, g_lockCounter, pumpVars, timer, clientVars>>

\* post a message of its own as its last act (L3GD20.c, LSM303.c),
BodyPostCopy(id, v) ==
  /\ MainRuns
  /\ pc = "body"
  /\ \/ PostCopy(id, v) /\ pc' = "unlockAgain"
     \/ PostToFullQueue /\ pc' = "return"
  /\ UNCHANGED <<callbackVector, slot, running, served, timer, clientVars>>

BodyUnlockAgain ==
  /\ MainRuns
  /\ pc = "unlockAgain"
  /\ MutexUnlock
  /\ pc' = "return"
  /\ UNCHANGED <<queueVars, bufferVars, callbackVector, slot, running, served,
                 timer, clientVars>>

\* and return.
Return ==
  /\ MainRuns
  /\ pc \in {"body", "return"}
  /\ pc' = "call"
  /\ running' = NULL
  /\ UNCHANGED <<queueVars, bufferVars, callbackVector, g_lockCounter, slot,
                 served, timer, clientVars>>

MutantEndCallsKeepsFlag ==
  /\ MainRuns
  /\ pc = "call"
  /\ slot = MaxReceivers
  /\ pc' = "unlock"
  /\ UNCHANGED <<queueVars, bufferVars, callbackVector, g_lockCounter, slot, running,
                 served, timer, clientVars>>

EndCalls ==
  /\ MainRuns
  /\ pc = "call"
  /\ slot = MaxReceivers
  /\ flags' = IF Front.buffer = NULL THEN flags
                                     ELSE [flags EXCEPT ![Front.buffer] = "Nothing"]
  /\ pc' = "unlock"
  /\ UNCHANGED <<queueVars, refCnt, payload, callbackVector, g_lockCounter, slot,
                 running, served, timer, clientVars>>

MutantUnlockFrontFrees ==
  /\ MainRuns
  /\ pc = "unlock"
  /\ IF Front.buffer = NULL
       THEN UNCHANGED <<refCnt, g_lockCounter>>
       ELSE refCnt' = [refCnt EXCEPT ![Front.buffer] = 0] /\ MutexUnlock
  /\ pc' = "advance"
  /\ served' = {}
  /\ UNCHANGED <<queueVars, flags, payload, callbackVector, slot, running, timer,
                 clientVars>>

\* msgPump_unlockMessage: from here the buffer may be free again, although the
\* ring still holds its entry. A NULL message returns before the mutex unlock.
UnlockFront ==
  /\ MainRuns
  /\ pc = "unlock"
  /\ IF Front.buffer = NULL
       THEN UNCHANGED <<refCnt, g_lockCounter>>
       ELSE /\ refCnt' = IF Unlockable(Front.buffer)
                           THEN [refCnt EXCEPT ![Front.buffer] = @ - 1] ELSE refCnt
            /\ MutexUnlock
  /\ pc' = "advance"
  /\ served' = {}
  /\ UNCHANGED <<queueVars, flags, payload, callbackVector, slot, running, timer,
                 clientVars>>

MutantAdvanceKeepsSize ==
  /\ MainRuns
  /\ pc = "advance"
  /\ g_msgQueueFront' = Succ(g_msgQueueFront)
  /\ pc' = "poll"
  /\ UNCHANGED <<g_msgQueue, g_msgQueueTail, g_msgQueueSize, bufferVars, callbackVector,
                 g_lockCounter, slot, running, served, timer, clientVars>>

Advance ==
  /\ MainRuns
  /\ pc = "advance"
  /\ g_msgQueueFront' = Succ(g_msgQueueFront)
  /\ g_msgQueueSize' = g_msgQueueSize - 1
  /\ pc' = "poll"
  /\ UNCHANGED <<g_msgQueue, g_msgQueueTail, bufferVars, callbackVector,
                 g_lockCounter, slot, running, served, timer, clientVars>>

-------------------------------------------------------------------------------
Handler ==
  \/ \E p \in Producers : GetFreeBuffer(p) \/ PostHeld(p) \/ PostHeldFails(p) \/ PostStale(p)
  \/ \E p \in Producers, v \in Payloads : FillBuffer(p, v)
  \/ \E id \in CopiedIDs, v \in Payloads : InterruptPostCopy(id, v)

TimerHandler ==
  \/ TimerEnter
  \/ \E id \in CopiedIDs, v \in Payloads : TimerPostCopy(id, v)
  \/ TimerUnlockAgain
  \/ TimerPostFails
  \/ \E id \in NullIDs : TimerPostNull(id)
  \/ TimerExit

Callback ==
  \/ BodyLock
  \/ BodyUnlock
  \/ \E r \in ProxyReceivers, id \in MsgIDs : BodyRegister(r, id) \/ BodyUnregister(r, id)
  \/ \E id \in CopiedIDs, v \in Payloads : BodyPostCopy(id, v)

\* What the main loop does by itself, whatever the callbacks do.
Pump ==
  \/ Take
  \/ CallReceiver
  \/ BodyUnlockAgain
  \/ Return
  \/ EndCalls
  \/ UnlockFront
  \/ Advance

Next == Handler \/ TimerHandler \/ Callback \/ Pump

Spec == Init /\ [][Next]_vars

\* The processor runs the main loop again and again: a handler, the timer's too,
\* returns, and the hardware does not let handlers follow one another for ever
\* (the timer is armed at least 40 ticks ahead). Callbacks return too.
Fairness ==
  /\ SF_vars(Pump)
  /\ WF_vars(TimerUnlockAgain)
  /\ SF_vars(TimerExit)

FairSpec == Spec /\ Fairness

-------------------------------------------------------------------------------
\* The entries between front and tail, and those not yet handed out completely.
InRing(i) ==
  \/ g_msgQueueSize # 0 /\ g_msgQueueFront < g_msgQueueTail
       /\ g_msgQueueFront <= i /\ i < g_msgQueueTail
  \/ g_msgQueueSize # 0 /\ g_msgQueueFront >= g_msgQueueTail
       /\ (g_msgQueueFront <= i \/ i < g_msgQueueTail)

Live(i) == InRing(i) /\ ~(pc = "advance" /\ i = g_msgQueueFront)

\* Receivers are being called; the message of the front is being handed out.
Calling == pc \in {"call", "body", "unlockAgain", "return"}
Dispatching == Calling \/ pc = "unlock"

\* The three indices of the ring agree: the tail is as many places ahead of the
\* front as the size says, and a front equal to the tail is told apart by it.
RingShape ==
  /\ \/ g_msgQueueTail = g_msgQueueFront + g_msgQueueSize
     \/ g_msgQueueTail = g_msgQueueFront + g_msgQueueSize - QueueSize
  /\ pc # "poll" => g_msgQueueSize # 0

QueuedAt(b) == {i \in Index : Live(i) /\ g_msgQueue[i].buffer = b}
HeldBy(b) == {p \in Producers : held[p] = b}
RetainedBy(b) == {r \in Receivers : retained[r] = b}

Used(S) == IF S # {} THEN 1 ELSE 0

\* A reference count is the number of those who rely on the buffer: the ring it
\* is posted in, the producer that fetched it, each receiver that locked it, and
\* one for ever if its producer forgot it. Nobody can free it under the others.
ReferencesCounted ==
  \A b \in Buffers :
    refCnt[b] = Used(QueuedAt(b)) + Used(HeldBy(b)) + Cardinality(RetainedBy(b))
                  + Used({b} \cap lost)

\* A buffer somebody may still write to is nobody else's: it is not in the ring,
\* no receiver reads it and no second producer has it. A buffer is in the ring
\* at most once.
WriterIsAlone ==
  \A b \in Buffers :
    /\ \A i, j \in QueuedAt(b) : i = j
    /\ \A p, q \in HeldBy(b) : p = q
    /\ HeldBy(b) # {} => QueuedAt(b) = {} /\ RetainedBy(b) = {} /\ b \notin lost
    /\ b \in lost => QueuedAt(b) = {}

\* The flag of a buffer says where the buffer is: with its producer or its
\* receivers, waiting in the ring, or neither.
FlagsTell ==
  \A b \in Buffers :
    flags[b] = IF HeldBy(b) # {} \/ b \in lost \/ (Calling /\ Front.buffer = b)
                 THEN "InUse"
               ELSE IF QueuedAt(b) # {} /\ ~(pc = "unlock" /\ Front.buffer = b)
                 THEN "PostedNotDispatched"
               ELSE "Nothing"

\* Every buffer that is not free is somebody's, or known to be lost: no sequence
\* of posts, through a stale pointer or to a full queue either, makes the pool
\* smaller in any other way.
NothingElseLeaks ==
  \A b \in Buffers :
    refCnt[b] > 0 =>
      \/ QueuedAt(b) # {} \/ HeldBy(b) # {} \/ RetainedBy(b) # {}
      \/ b \in lost

\* With two places more in the ring than there are pool elements, and no message
\* posted as NULL, the ring is never full: no post fails for want of a place,
\* and so no buffer is lost and no mutex stays locked.
NeverFull == ~QueueFull /\ lost = {}

\* system.h: the mutex is "safe for recursive usage", so a handler that locked
\* it is in its critical section until its own unlock.
SectionIsMasked == timer # "idle" => g_lockCounter > 0

\* A posted message is handed out.
PostedIsDispatched ==
  \A i \in Index : (InRing(i) ~> ~InRing(i))

\* After a post to a full queue has left the interrupts masked they come back.
InterruptsComeBack == g_lockCounter > 0 ~> g_lockCounter = 0

-------------------------------------------------------------------------------
\* The pump implements the abstract queue: a message is an entry of the ring
\* with the content of its buffer, read when a receiver would read it.
Message(b, id) == [id |-> id, payload |-> IF b = NULL THEN NULL ELSE payload[b]]

Place(k) == LET i == g_msgQueueFront + k IN IF i < QueueSize THEN i ELSE i - QueueSize
NthEntry(k) == g_msgQueue[Place(k)]

\* The entries before the k-th are not pending any more.
FirstPending == IF pc = "poll" THEN 0 ELSE 1

Subscribed == [id \in MsgIDs |-> {callbackVector[id][s] : s \in Slots} \ {NULL}]

Pending ==
  [k \in 1 .. g_msgQueueSize - FirstPending |->
     Message(NthEntry(k - 1 + FirstPending).buffer, NthEntry(k - 1 + FirstPending).id)]

Current == IF Dispatching THEN Message(Front.buffer, Front.id) ELSE NULL

Due ==
  IF Dispatching
    THEN {callbackVector[Front.id][s] : s \in slot .. MaxReceivers - 1} \ {NULL} ELSE {}

Kept ==
  [r \in Receivers |->
     IF retained[r] = NULL THEN NULL ELSE Message(retained[r], PoolOf[retained[r]])]

MQ == INSTANCE MessageQueue WITH
  subscribed <- Subscribed, pending <- Pending, current <- Current, due <- Due, kept <- Kept

MessageQueueSpec == MQ!Spec

===============================================================================
