---------------------------- MODULE SwTimerProofs ----------------------------
(***************************************************************************)
(* Theorems about SwTimer, for every number of clients and handles, all    *)
(* intervals, every way the clients are registered and cancelled and       *)
(* whichever of them post. Once a client has posted, the rest of the loop  *)
(* over the handles can be interrupted, also by a loop of its own.         *)
(***************************************************************************)
EXTENDS SwTimer, FiniteSetTheorems, WellFoundedInduction, TLAPS

InLoop == {"scan", "expired", "call", "after"}

\* One context at most is in the loop over the handles, and the flag says so; the
\* mutex is free when nobody is in the timer's functions; only a handle whose
\* time has come, and which has not yet been rescheduled, has a negative counter.
LoopOK ==
  /\ (\A x \in Contexts : pc[x] = "off") => g_lockCounter = 0
  /\ \A x, y \in Contexts : pc[x] \in InLoop /\ pc[y] \in InLoop => x = y
  /\ isHandlingClients <=> \E x \in Contexts : pc[x] \in InLoop
  /\ \A x \in Contexts : pc[x] \in {"expired", "call", "after"} => i[x] < MaxHandles
  /\ \A h \in Handles :
       tickCounter[h] < 0 => \E x \in Contexts : pc[x] = "expired" /\ i[x] = h

\* The part of the inductive invariant that concerns the loop.
IInv == TypeOK /\ LoopOK

\* Where the locals of the contexts stand. Who has just entered has the mutex. A
\* context that is about to set up the hardware has been over all handles, or has
\* found another one in the loop: that one waits below it until it is done.
Nested ==
  /\ \A x \in Contexts : pc[x] = "start" => g_lockCounter = 1 /\ Runs(x)
  /\ \A x \in Contexts : pc[x] \in {"off", "start"} => i[x] = 0 /\ nextInterval[x] = NULL
  /\ \A x \in Contexts :
       pc[x] = "setup" =>
         \/ i[x] = MaxHandles
         \/ /\ i[x] = 0
            /\ nextInterval[x] = NULL
            /\ \E z \in Contexts : z < x /\ pc[z] \in InLoop
  /\ \A x, y \in Contexts : pc[x] \in InLoop /\ x < y => i[y] = 0 /\ nextInterval[y] = NULL
  /\ \A x \in Contexts : pc[x] \in InLoop => ticksElapsed[x] <= TIM_CNT

\* A client has at most one handle, and it has one only if it is wanted; the one
\* that is about to be called is wanted, and a one shot has left its handle,
\* unless it has been struck.
HandlesAreWanted ==
  /\ \A h \in Handles : callback[h] # NULL => callback[h] \in wanted
  /\ \A h, k \in Handles : callback[h] = callback[k] /\ callback[h] # NULL => h = k
  /\ \A x \in Contexts : pc[x] = "expired" /\ x \notin struck => callback[i[x]] # NULL
  /\ \A x \in Contexts :
       pc[x] = "call" /\ x \notin struck =>
         /\ client[x] \in wanted
         /\ client[x] \in OneShot => \A h \in Handles : callback[h] # client[x]
         /\ client[x] \notin OneShot => callback[i[x]] = client[x]

\* The counter of handle h promises its client no less time than is left, counting
\* from the hardware counter's last reset, or from now.
SinceReset(h) ==
  \/ owed[callback[h]] <= tickCounter[h] - TIM_CNT
  \/ owed[callback[h]] <= -Interval[callback[h]]

FromNow(h) ==
  \/ owed[callback[h]] <= tickCounter[h]
  \/ owed[callback[h]] <= -Interval[callback[h]]

\* A loop has subtracted the time that has passed from the counter of handle h,
\* and the hardware counter will be reset.
Subtracted(h) ==
  \E x \in Contexts :
    \/ pc[x] = "setup" /\ ~isHandlingClients /\ nextInterval[x] # NULL
    \/ pc[x] \in InLoop /\ h < i[x] /\ nextInterval[x] # NULL
    \/ pc[x] \in InLoop \ {"scan"} /\ h = i[x]

\* No counter that has not been rushed runs ahead of the real time.
CountersAreLate ==
  /\ \A c \in Clients : owed[c] <= Interval[c]
  /\ \A h \in Handles :
       callback[h] # NULL /\ callback[h] \notin rushed =>
         SinceReset(h) \/ (FromNow(h) /\ Subtracted(h))
  /\ \A x \in Contexts : pc[x] = "expired" /\ x \notin struck => tickCounter[i[x]] <= 0
  /\ \A x \in Contexts :
       pc[x] = "call" /\ x \notin struck =>
         /\ client[x] \notin rushed => owed[client[x]] <= 0
         /\ client[x] \notin OneShot \cup rushed =>
              owed[client[x]] + Interval[client[x]] <= tickCounter[i[x]]

\* Every client that waits is overlooked.
AllOverlooked == \A h \in Handles : callback[h] # NULL => callback[h] \in overlooked

\* A loop takes the least time of the handles it has been over, but for those that
\* are overlooked. When two contexts have been over the handles, all are.
LeastIsNext ==
  /\ \A x \in Contexts : \A h \in Handles :
       h < i[x] /\ callback[h] # NULL /\ callback[h] \notin overlooked =>
         nextInterval[x] # NULL /\ nextInterval[x] <= tickCounter[h]
  /\ \A x, y \in Contexts : pc[x] = "setup" /\ x < y /\ pc[y] \in InLoop => AllOverlooked
  /\ \A x, y \in Contexts : x < y /\ i[x] > 0 /\ i[y] > 0 => AllOverlooked

-----------------------------------------------------------------------------
\* The greater and the smaller of two numbers.
LEMMA MaxOfTwo ==
  ASSUME NEW a \in Int, NEW b \in Int
  PROVE  \E m \in {a, b} : m = Max({a, b}) /\ m >= a /\ m >= b
<1>1. \E x \in {a, b} : \A y \in {a, b} : x >= y
  OBVIOUS
<1>. QED  BY <1>1 DEF Max

\* The smaller one.
LEMMA MinOfTwo ==
  ASSUME NEW a \in Int, NEW b \in Int
  PROVE  \E m \in {a, b} : m = Min({a, b}) /\ m <= a /\ m <= b
<1>1. \E x \in {a, b} : \A y \in {a, b} : x <= y
  OBVIOUS
<1>. QED  BY <1>1 DEF Min

\* A nonempty set of naturals has its least element in it.
LEMMA MinIsElement ==
  ASSUME NEW T, T \subseteq Nat, T # {}
  PROVE  Min(T) \in T
<1> DEFINE R == {ss \in Nat \X Nat : ss[1] < ss[2]}
<1>1. IsWellFoundedOn(R, Nat)
  BY NatLessThanWellFounded DEF OpToRel
<1>2. PICK x \in T : \A y \in T : ~(<<y, x>> \in R)
  BY <1>1, WFMin
<1>3. ASSUME NEW y \in T PROVE x <= y
  <2>1. x \in Nat /\ y \in Nat
    OBVIOUS
  <2>2. <<y, x>> \in Nat \X Nat
    BY <2>1
  <2>3. y < x => <<y, x>> \in R
    BY <2>2
  <2>. QED  BY <1>2, <2>1, <2>3
<1>. QED  BY <1>3 DEF Min

\* Of finitely many clients one has the longest interval.
LEMMA LongestInterval ==
  ASSUME NEW D, D \subseteq Clients, D # {}
  PROVE  \E c \in D : \A e \in D : Interval[e] <= Interval[c]
<1> DEFINE Bounded(B) == \E c \in B : \A e \in B : Interval[e] <= Interval[c]
           Bad == {B \in SUBSET Clients : B # {} /\ ~Bounded(B)}
<1>. SUFFICES ASSUME Bad # {} PROVE FALSE
  OBVIOUS
<1>1. FiniteSubsetsOf(Clients) = SUBSET Clients
  BY TimerAssumption, FS_FiniteSubsetsOfFinite
<1>2. IsWellFoundedOn(StrictSubsetOrdering(Clients), SUBSET Clients)
  BY <1>1, FS_StrictSubsetOrderingWellFounded
<1>3. Bad \subseteq SUBSET Clients
  OBVIOUS
<1>4. PICK B \in Bad : \A A \in Bad : ~(<<A, B>> \in StrictSubsetOrdering(Clients))
  <2> HIDE DEF Bad
  <2>. QED  BY <1>2, <1>3, WFMin
<1>5. PICK b \in B : TRUE
  OBVIOUS
<1>6. Interval[b] \in Nat /\ \A e \in B : Interval[e] \in Nat
  BY <1>3, <1>5, TimerAssumption
<1> DEFINE A == B \ {b}
<1>7. A \notin Bad
  BY <1>3, <1>4, <1>5 DEF StrictSubsetOrdering
<1>8. CASE A = {}
  <2>1. B = {b}
    BY <1>5, <1>8
  <2>. QED  BY <2>1, <1>6
<1>9. CASE A # {}
  <2>1. PICK c \in A : \A e \in A : Interval[e] <= Interval[c]
    BY <1>7, <1>9
  <2>2. CASE Interval[b] <= Interval[c]
    BY <2>1, <2>2, <1>6
  <2>3. CASE ~(Interval[b] <= Interval[c])
    <3>1. \A e \in B : Interval[e] <= Interval[b]
      BY <2>1, <2>3, <1>6
    <3>. QED  BY <3>1, <1>5
  <2>. QED  BY <2>2, <2>3
<1>. QED  BY <1>8, <1>9

\* Longest bounds what the counters are set to.
LEMMA LongestBounds ==
  /\ Longest \in Nat
  /\ \A c \in Clients : Interval[c] \in 0 .. Longest
  /\ MinOnRegister \in 1 .. Longest
  /\ MinOnTrigger \in 1 .. Longest
<1> DEFINE S == {Interval[c] : c \in Clients} \cup {MinOnRegister, MinOnTrigger}
<1>1. S \subseteq Nat
  BY TimerAssumption
<1>2. \E m \in S : \A n \in S : m >= n
  <2>1. PICK m \in {MinOnRegister, MinOnTrigger} : m >= MinOnRegister /\ m >= MinOnTrigger
    BY TimerAssumption
  <2>2. CASE Clients = {}
    BY <2>1, <2>2, TimerAssumption
  <2>3. CASE Clients # {}
    <3>1. PICK c \in Clients : \A e \in Clients : Interval[e] <= Interval[c]
      BY <2>3, LongestInterval
    <3>2. m \in S /\ Interval[c] \in S /\ m \in Nat /\ Interval[c] \in Nat
      BY <1>1, <2>1
    <3>3. CASE m >= Interval[c]
      <4>1. \A n \in S : m >= n
        BY <2>1, <3>1, <3>2, <3>3, TimerAssumption
      <4>. QED  BY <3>2, <4>1
    <3>4. CASE ~(m >= Interval[c])
      <4>1. \A n \in S : Interval[c] >= n
        BY <2>1, <3>1, <3>2, <3>4, TimerAssumption
      <4>. QED  BY <3>2, <4>1
    <3>. QED  BY <3>3, <3>4
  <2>. QED  BY <2>2, <2>3
<1>3. Longest \in S /\ \A n \in S : Longest >= n
  BY <1>2 DEF Longest, Max
<1>. QED  BY <1>1, <1>3, TimerAssumption

\* A registration takes the client's own handle, or a free one if it has none.
LEMMA OneHandle ==
  ASSUME NEW c
  PROVE  HandleFor(c) = {} \/
           \E h \in Handles :
             /\ HandleFor(c) = {h}
             /\ \/ callback[h] = c
                \/ callback[h] = NULL /\ \A k \in Handles : callback[k] # c
<1> DEFINE own == {h \in Handles : callback[h] = c}
           free == {h \in Handles : callback[h] = NULL}
<1>1. own \subseteq Nat /\ free \subseteq Nat
  BY DEF Handles
<1>2. own # {} => Min(own) \in own
  BY <1>1, MinIsElement
<1>3. free # {} => Min(free) \in free
  BY <1>1, MinIsElement
<1>4. CASE own # {}
  <2>1. HandleFor(c) = {Min(own)}
    BY <1>4 DEF HandleFor
  <2>. QED  BY <1>2, <1>4, <2>1
<1>5. CASE own = {} /\ free # {}
  <2>1. HandleFor(c) = {Min(free)}
    BY <1>5 DEF HandleFor
  <2>. QED  BY <1>3, <1>5, <2>1
<1>6. CASE own = {} /\ free = {}
  BY <1>6 DEF HandleFor
<1>. QED  BY <1>4, <1>5, <1>6

-----------------------------------------------------------------------------
\* The loop over the handles.

\* Nobody is in the timer's functions at the start.
LEMMA InitIInv == Init => IInv
<1> SUFFICES ASSUME Init PROVE IInv
  OBVIOUS
<1> USE DEF Init
<1>1. callback \in [Handles -> Clients \cup {NULL}]
  <2>1. AtStart # {} => (CHOOSE c \in AtStart : TRUE) \in Clients
    BY TimerAssumption
  <2>. QED  BY <2>1
<1>2. /\ tickCounter \in [Handles -> -MaxCount .. Longest + MaxCount]
      /\ \A h \in Handles : tickCounter[h] >= 0
  <2>1. ASSUME NEW h \in Handles
        PROVE  tickCounter[h] \in 0 .. Longest
    BY <1>1, LongestBounds
  <2>2. /\ MaxCount \in Nat
        /\ tickCounter = [h \in Handles |-> tickCounter[h]]
    BY TimerAssumption
  <2>3. ASSUME NEW h \in Handles
        PROVE  tickCounter[h] \in -MaxCount .. Longest + MaxCount /\ tickCounter[h] >= 0
    BY <2>1, <2>2, LongestBounds
  <2>. QED  BY <2>2, <2>3
<1>3. TIM_CCR1 \in 0 .. Longest + MaxCount
  <2>1. 0 \in Handles
    BY TimerAssumption DEF Handles
  <2>2. PICK t \in Int : t = tickCounter[0] /\ t \in -MaxCount .. Longest + MaxCount
    BY <1>2, <2>1
  <2>3. MinOnRegister \in Int /\ MinOnRegister \in 1 .. Longest
    BY LongestBounds
  <2>4. PICK m \in {t, MinOnRegister} : m = Max({t, MinOnRegister}) /\ m >= MinOnRegister
    BY <2>3, MaxOfTwo
  <2>5. m \in 0 .. Longest + MaxCount /\ 0 \in 0 .. Longest + MaxCount
    BY <2>2, <2>3, <2>4, LongestBounds, TimerAssumption
  <2>. QED  BY <2>2, <2>4, <2>5
<1>4. owed \in [Clients -> -Longest .. Longest]
  BY LongestBounds
<1>5. /\ i \in [Contexts -> 0 .. MaxHandles] /\ ticksElapsed \in [Contexts -> 0 .. MaxCount]
      /\ TIM_CNT \in 0 .. MaxCount
  BY TimerAssumption
<1>6. /\ nextInterval \in [Contexts -> (-MaxCount .. Longest + MaxCount) \cup {NULL}]
      /\ client \in [Contexts -> Clients \cup {NULL}]
      /\ wanted \subseteq Clients
  BY TimerAssumption
<1>7. TypeOK
  BY <1>1, <1>2, <1>3, <1>4, <1>5, <1>6 DEF TypeOK
<1>8. LoopOK
  BY <1>2 DEF LoopOK, InLoop
<1>. QED  BY <1>7, <1>8 DEF IInv

\* A tick moves the counter and what is owed, within their bounds.
LEMMA TickIInv ==
  ASSUME IInv, Tick
  PROVE  IInv'
<1> USE DEF Tick
<1>1. TIM_CNT' \in 0 .. MaxCount
  BY TimerAssumption DEF IInv, TypeOK
<1>2. owed' \in [Clients -> -Longest .. Longest]
  BY LongestBounds, TimerAssumption DEF IInv, TypeOK
<1>3. pending' \in BOOLEAN
  BY DEF IInv, TypeOK
<1>4. TypeOK'
  BY <1>1, <1>2, <1>3 DEF IInv, TypeOK, handleVars, localVars
<1>5. LoopOK'
  BY DEF IInv, LoopOK, handleVars, localVars
<1>. QED  BY <1>4, <1>5 DEF IInv

\* Nobody who enters finds the mutex locked.
LEMMA EntersUnlocked ==
  ASSUME IInv, NEW x \in Contexts, CanEnter(x)
  PROVE  g_lockCounter = 0
<1>1. CASE x = Main
  <2>1. \A y \in Contexts : pc[y] = "off"
    BY <1>1 DEF CanEnter, Runs, Contexts, Main
  <2>. QED  BY <2>1 DEF IInv, LoopOK
<1>. QED  BY <1>1 DEF CanEnter

\* Who enters takes the mutex and is not yet in the loop.
LEMMA EnterKeepsLoop ==
  ASSUME IInv, NEW x \in Contexts, CanEnter(x),
         pc' = [pc EXCEPT ![x] = "start"],
         \A h \in Handles : tickCounter'[h] < 0 => tickCounter[h] < 0,
         UNCHANGED <<isHandlingClients, i>>
  PROVE  LoopOK'
<1>1. \A y \in Contexts : pc'[y] = IF y = x THEN "start" ELSE pc[y]
  BY DEF IInv, TypeOK
<1>2. pc[x] = "off"
  BY DEF CanEnter
<1>. QED  BY <1>1, <1>2 DEF IInv, LoopOK, InLoop

\* A registration sets one handle, to no less than now.
LEMMA FillType ==
  ASSUME IInv, NEW c \in Clients, Fill(c)
  PROVE  /\ callback' \in [Handles -> Clients \cup {NULL}]
         /\ tickCounter' \in [Handles -> -MaxCount .. Longest + MaxCount]
         /\ \A h \in Handles : tickCounter'[h] < 0 => tickCounter[h] < 0
<1>1. callback' \in [Handles -> Clients \cup {NULL}]
  BY DEF Fill, IInv, TypeOK
<1>2. /\ Interval[c] + TIM_CNT \in -MaxCount .. Longest + MaxCount
      /\ Interval[c] + TIM_CNT >= 0
  BY LongestBounds, TimerAssumption DEF IInv, TypeOK
<1>3. tickCounter' \in [Handles -> -MaxCount .. Longest + MaxCount]
  BY <1>2 DEF Fill, IInv, TypeOK
<1>4. ASSUME NEW h \in Handles, tickCounter'[h] < 0
      PROVE  tickCounter[h] < 0
  <2>1. CASE h \in HandleFor(c)
    <3>1. tickCounter'[h] = Interval[c] + TIM_CNT
      BY <2>1 DEF Fill
    <3>. QED  BY <3>1, <1>2, <1>4
  <2>2. CASE h \notin HandleFor(c)
    BY <2>2, <1>4 DEF Fill
  <2>. QED  BY <2>1, <2>2
<1>. QED  BY <1>1, <1>3, <1>4

\* Register keeps the invariant.
LEMMA RegisterIInv ==
  ASSUME IInv, NEW x \in Contexts, NEW c \in Clients, RegisterOnTimer(x, c)
  PROVE  IInv'
<1> USE DEF RegisterOnTimer
<1>1. g_lockCounter = 0
  BY EntersUnlocked
<1>2. owed' \in [Clients -> -Longest .. Longest]
  <2>1. Interval[c] \in -Longest .. Longest
    BY LongestBounds
  <2>. QED  BY <2>1 DEF IInv, TypeOK, historyVars
<1>3. /\ wanted' \subseteq Clients /\ struck' \subseteq Contexts
      /\ rushed' \subseteq Clients /\ overlooked' \subseteq Clients
  <2>1. CASE HandleFor(c) # {}
    BY <2>1 DEF IInv, TypeOK, About, Overlooked
  <2>2. CASE HandleFor(c) = {}
    BY <2>2 DEF IInv, TypeOK, historyVars
  <2>. QED  BY <2>1, <2>2
<1>4. TypeOK'
  BY <1>1, <1>2, <1>3, FillType DEF IInv, TypeOK, hwVars, localVars
<1>5. LoopOK'
  BY FillType, EnterKeepsLoop DEF localVars
<1>. QED  BY <1>4, <1>5 DEF IInv

\* UnRegister keeps the invariant.
LEMMA UnRegisterIInv ==
  ASSUME IInv, NEW x \in Contexts, NEW c \in Clients, UnRegisterFromTimer(x, c)
  PROVE  IInv'
<1> USE DEF UnRegisterFromTimer
<1>1. /\ callback' \in [Handles -> Clients \cup {NULL}]
      /\ tickCounter' \in [Handles -> -MaxCount .. Longest + MaxCount]
  <2>1. 0 \in -MaxCount .. Longest + MaxCount
    BY LongestBounds, TimerAssumption
  <2>. QED  BY <2>1 DEF IInv, TypeOK
<1>2. owed' \in [Clients -> -Longest .. Longest]
  <2>1. 0 \in -Longest .. Longest
    BY LongestBounds
  <2>. QED  BY <2>1 DEF IInv, TypeOK
<1>3. TypeOK'
  BY <1>1, <1>2 DEF IInv, TypeOK, hwVars, localVars, About
<1>4. \A k \in Handles : tickCounter'[k] < 0 => tickCounter[k] < 0
  OBVIOUS
<1>5. LoopOK'
  BY <1>4 DEF IInv, LoopOK, localVars
<1>. QED  BY <1>3, <1>5 DEF IInv

\* Trigger keeps the invariant.
LEMMA TriggerIInv ==
  ASSUME IInv, Trigger
  PROVE  IInv'
<1> USE DEF Trigger
<1>1. Timer \in Contexts
  BY DEF Timer, Contexts
<1>2. g_lockCounter = 0
  BY <1>1, EntersUnlocked
<1>3. pc' \in [Contexts -> {"off", "start", "scan", "expired", "call", "after", "setup"}]
  BY <1>1 DEF IInv, TypeOK
<1>4. pending' \in BOOLEAN
  OBVIOUS
<1>5. g_lockCounter' \in {0, 1}
  BY <1>2
<1>6. UNCHANGED <<callback, tickCounter, isHandlingClients, TIM_CNT, TIM_CCR1, enabled>>
  BY DEF handleVars
<1>7. UNCHANGED <<i, ticksElapsed, nextInterval, client, wanted, owed, struck, rushed, overlooked>>
  BY DEF localVars, historyVars
<1>8. TypeOK'
  BY <1>3, <1>4, <1>5, <1>6, <1>7 DEF IInv, TypeOK
<1>9. LoopOK'
  BY <1>1, EnterKeepsLoop DEF handleVars, localVars
<1>. QED  BY <1>8, <1>9 DEF IInv

\* A step of the loop that neither starts nor ends it.
LEMMA StaysInLoop ==
  ASSUME IInv, NEW x \in Contexts, NEW where \in {"scan", "expired", "call", "after"},
         pc[x] \in InLoop, pc' = [pc EXCEPT ![x] = where], isHandlingClients' = isHandlingClients
  PROVE  /\ (\A y \in Contexts : pc'[y] = "off") => g_lockCounter' = 0
         /\ \A y, z \in Contexts : pc'[y] \in InLoop /\ pc'[z] \in InLoop => y = z
         /\ isHandlingClients' <=> \E y \in Contexts : pc'[y] \in InLoop
         /\ pc' \in [Contexts -> {"off", "start", "scan", "expired", "call", "after", "setup"}]
         /\ \A y \in Contexts : pc'[y] = IF y = x THEN where ELSE pc[y]
<1>1. \A y \in Contexts : pc'[y] = IF y = x THEN where ELSE pc[y]
  BY DEF IInv, TypeOK
<1>2. pc' \in [Contexts -> {"off", "start", "scan", "expired", "call", "after", "setup"}]
  BY DEF IInv, TypeOK
<1>3. \A y \in Contexts : pc'[y] \in InLoop <=> pc[y] \in InLoop
  BY <1>1 DEF InLoop
<1>4. pc'[x] # "off"
  BY <1>1 DEF InLoop
<1>. QED  BY <1>1, <1>2, <1>3, <1>4 DEF IInv, LoopOK

\* StartLoop keeps the invariant.
LEMMA StartLoopIInv ==
  ASSUME IInv, NEW x \in Contexts, StartLoop(x)
  PROVE  IInv'
<1> USE DEF StartLoop
<1>1. nextInterval' \in [Contexts -> (-MaxCount .. Longest + MaxCount) \cup {NULL}]
  BY DEF IInv, TypeOK
<1>2. /\ isHandlingClients' \in BOOLEAN
      /\ pc' \in [Contexts -> {"off", "start", "scan", "expired", "call", "after", "setup"}]
  BY DEF IInv, TypeOK
<1>3. /\ i' \in [Contexts -> 0 .. MaxHandles]
      /\ ticksElapsed' \in [Contexts -> 0 .. MaxCount]
  BY TimerAssumption DEF IInv, TypeOK
<1>0. rushed' \subseteq Clients /\ overlooked' \subseteq Clients
  <2>1. Waiting \subseteq Clients
    BY DEF IInv, TypeOK, Waiting
  <2>. QED  BY <2>1 DEF IInv, TypeOK
<1>4. TypeOK'
  BY <1>0, <1>1, <1>2, <1>3 DEF IInv, TypeOK, handleVars, hwVars
<1>5. \A h \in Handles : tickCounter'[h] < 0 => \E y \in Contexts : pc[y] = "expired" /\ i[y] = h
  BY DEF IInv, LoopOK, handleVars
<1>6. CASE isHandlingClients
  <2>1. /\ \A y \in Contexts : pc'[y] = IF y = x THEN "setup" ELSE pc[y]
        /\ i' = i /\ isHandlingClients' = isHandlingClients
    BY <1>6 DEF IInv, TypeOK
  <2>2. \A y \in Contexts : pc'[y] \in InLoop <=> pc[y] \in InLoop
    BY <2>1 DEF InLoop
  <2>3. \A y \in Contexts : pc'[y] \in {"expired", "call", "after"} => i'[y] < MaxHandles
    BY <2>1 DEF IInv, LoopOK
  <2>4. \A h \in Handles : tickCounter'[h] < 0 => \E y \in Contexts : pc'[y] = "expired" /\ i'[y] = h
    BY <1>5, <2>1
  <2>5. pc'[x] # "off"
    BY <2>1
  <2>6. isHandlingClients' <=> \E y \in Contexts : pc'[y] \in InLoop
    BY <2>1, <2>2 DEF IInv, LoopOK
  <2>7. \A y, z \in Contexts : pc'[y] \in InLoop /\ pc'[z] \in InLoop => y = z
    BY <2>2 DEF IInv, LoopOK
  <2>. QED  BY <1>4, <2>3, <2>4, <2>5, <2>6, <2>7 DEF IInv, LoopOK
<1>7. CASE ~isHandlingClients
  <2>1. /\ \A y \in Contexts : pc'[y] = IF y = x THEN "scan" ELSE pc[y]
        /\ \A y \in Contexts : pc[y] \notin InLoop
        /\ isHandlingClients'
    BY <1>7 DEF IInv, TypeOK, LoopOK
  <2>2. \A y \in Contexts : pc'[y] \in InLoop <=> y = x
    BY <2>1 DEF InLoop
  <2>3. \A y \in Contexts : pc'[y] \notin {"expired", "call", "after"}
    BY <2>1 DEF InLoop
  <2>4. \A h \in Handles : ~(tickCounter'[h] < 0)
    BY <1>5, <2>1 DEF InLoop
  <2>5. pc'[x] # "off"
    BY <2>1
  <2>6. isHandlingClients' <=> \E y \in Contexts : pc'[y] \in InLoop
    BY <2>1, <2>2
  <2>7. \A y, z \in Contexts : pc'[y] \in InLoop /\ pc'[z] \in InLoop => y = z
    BY <2>2
  <2>. QED  BY <1>4, <2>3, <2>4, <2>5, <2>6, <2>7 DEF IInv, LoopOK
<1>. QED  BY <1>6, <1>7

\* Scan keeps the invariant.
LEMMA ScanIInv ==
  ASSUME IInv, NEW x \in Contexts, Scan(x)
  PROVE  IInv'
<1> USE DEF Scan
<1>1. /\ i[x] \in 0 .. MaxHandles /\ i[x] < MaxHandles
      /\ MaxHandles \in Nat
  BY TimerAssumption DEF IInv, TypeOK
<1>2. i[x] \in Handles
  BY <1>1 DEF Handles
<1>3. pc[x] \in InLoop
  BY DEF InLoop
<1>4. \A y \in Contexts : pc[y] # "expired"
  BY <1>3 DEF IInv, LoopOK, InLoop
<1>5. \A h \in Handles : tickCounter[h] \in 0 .. Longest + MaxCount
  <2>1. \A h \in Handles : ~(tickCounter[h] < 0)
    BY <1>4 DEF IInv, LoopOK
  <2>. QED  BY <2>1, TimerAssumption, LongestBounds DEF IInv, TypeOK
<1>6. CASE callback[i[x]] = NULL
  <2>1. i' \in [Contexts -> 0 .. MaxHandles]
    BY <1>1, <1>6 DEF IInv, TypeOK
  <2>2. TypeOK'
    BY <1>6, <2>1 DEF IInv, TypeOK, hwVars, historyVars
  <2>3. LoopOK'
    <3>1. \A y \in Contexts : pc[y] \in {"expired", "call", "after"} => y # x
      OBVIOUS
    <3>2. \A y \in Contexts : y # x => i'[y] = i[y]
      BY <1>6 DEF IInv, TypeOK
    <3>3. UNCHANGED <<pc, g_lockCounter, isHandlingClients, tickCounter>>
      BY <1>6
    <3>. QED  BY <3>1, <3>2, <3>3 DEF IInv, LoopOK
  <2>. QED  BY <2>2, <2>3 DEF IInv
<1>7. CASE callback[i[x]] # NULL
  <2>1. tickCounter[i[x]] - ticksElapsed[x] \in -MaxCount .. Longest + MaxCount
    BY <1>2, <1>5, TimerAssumption, LongestBounds DEF IInv, TypeOK
  <2>2. tickCounter' \in [Handles -> -MaxCount .. Longest + MaxCount]
    BY <1>2, <1>7, <2>1 DEF IInv, TypeOK
  <2>3. PICK where \in {"expired", "after"} :
          /\ pc' = [pc EXCEPT ![x] = where]
          /\ tickCounter'[i[x]] <= 0 <=> where = "expired"
    BY <1>7
  <2>4. where \in {"scan", "expired", "call", "after"} /\ isHandlingClients' = isHandlingClients
    OBVIOUS
  <2>5. /\ (\A y \in Contexts : pc'[y] = "off") => g_lockCounter' = 0
        /\ \A y, z \in Contexts : pc'[y] \in InLoop /\ pc'[z] \in InLoop => y = z
        /\ isHandlingClients' <=> \E y \in Contexts : pc'[y] \in InLoop
        /\ pc' \in [Contexts -> {"off", "start", "scan", "expired", "call", "after", "setup"}]
        /\ \A y \in Contexts : pc'[y] = IF y = x THEN where ELSE pc[y]
    BY <1>3, <2>3, <2>4, StaysInLoop
  <2>6. TypeOK'
    BY <1>7, <2>2, <2>5 DEF IInv, TypeOK, hwVars, historyVars
  <2>7. \A y \in Contexts : pc'[y] \in {"expired", "call", "after"} => i'[y] < MaxHandles
    BY <1>1, <1>7, <2>5 DEF IInv, LoopOK
  <2>8. ASSUME NEW h \in Handles, tickCounter'[h] < 0
        PROVE  \E y \in Contexts : pc'[y] = "expired" /\ i'[y] = h
    <3>1. h = i[x]
      BY <1>2, <1>5, <1>7, <2>8 DEF IInv, TypeOK
    <3>2. tickCounter'[i[x]] <= 0
      BY <3>1, <2>2, <2>8, <1>2, TimerAssumption, LongestBounds
    <3>3. pc'[x] = "expired" /\ i'[x] = h
      BY <1>7, <2>3, <2>5, <3>1, <3>2
    <3>. QED  BY <3>3
  <2>9. LoopOK'
    BY <2>5, <2>7, <2>8 DEF LoopOK
  <2>. QED  BY <2>6, <2>9 DEF IInv
<1>. QED  BY <1>6, <1>7

\* Expire keeps the invariant.
LEMMA ExpireIInv ==
  ASSUME IInv, NEW x \in Contexts, Expire(x)
  PROVE  IInv'
<1> USE DEF Expire
<1> DEFINE h == i[x]
           c == callback[h]
<1>1. h \in Handles
  <2>1. i[x] \in 0 .. MaxHandles /\ i[x] < MaxHandles /\ MaxHandles \in Nat
    BY TimerAssumption DEF IInv, TypeOK, LoopOK
  <2>. QED  BY <2>1 DEF Handles
<1>2. c \in Clients \cup {NULL}
  BY <1>1 DEF IInv, TypeOK
<1>3. pc[x] \in InLoop
  BY DEF InLoop
<1>4. /\ (\A y \in Contexts : pc'[y] = "off") => g_lockCounter' = 0
      /\ \A y, z \in Contexts : pc'[y] \in InLoop /\ pc'[z] \in InLoop => y = z
      /\ isHandlingClients' <=> \E y \in Contexts : pc'[y] \in InLoop
      /\ pc' \in [Contexts -> {"off", "start", "scan", "expired", "call", "after", "setup"}]
      /\ \A y \in Contexts : pc'[y] = IF y = x THEN "call" ELSE pc[y]
  BY <1>3, StaysInLoop
<1>5. PICK t \in 0 .. Longest : tickCounter' = [tickCounter EXCEPT ![h] = t]
  <2>1. CASE c \in Clients \ OneShot
    <3>1. Interval[c] \in Nat /\ Interval[c] <= Longest /\ Longest \in Nat
      BY <2>1, LongestBounds
    <3>2. tickCounter[h] \in Int
      BY <1>1 DEF IInv, TypeOK
    <3>3. PICK s \in Int : s = tickCounter[h] + Interval[c]
      BY <3>1, <3>2
    <3>4. PICK m \in {s, 0} : m = Max({s, 0}) /\ m >= 0
      BY 0 \in Int, MaxOfTwo
    <3>5. PICK d \in Nat : d = Interval[c]
      BY <3>1
    <3>6. m \in Int /\ d \in Int
      BY <3>4
    <3>7. PICK t \in {m, d} : t = Min({m, d}) /\ t <= d
      BY <3>6, MinOfTwo
    <3>8. t \in 0 .. Longest
      BY <3>1, <3>4, <3>5, <3>7
    <3>9. tickCounter' = [tickCounter EXCEPT ![h] = t]
      BY <2>1, <1>1, <3>3, <3>4, <3>5, <3>7 DEF IInv, TypeOK
    <3>. QED  BY <3>8, <3>9
  <2>2. CASE ~(c \in Clients \ OneShot)
    <3>1. tickCounter' = [tickCounter EXCEPT ![h] = 0]
      BY <2>2
    <3>2. 0 \in 0 .. Longest
      BY LongestBounds
    <3>. QED  BY <3>1, <3>2
  <2>. QED  BY <2>1, <2>2
<1>6. t \in -MaxCount .. Longest + MaxCount
  BY LongestBounds, TimerAssumption
<1>7. /\ callback' \in [Handles -> Clients \cup {NULL}]
      /\ client' \in [Contexts -> Clients \cup {NULL}]
  BY <1>2 DEF IInv, TypeOK
<1>8. TypeOK'
  BY <1>4, <1>5, <1>6, <1>7 DEF IInv, TypeOK, hwVars, historyVars
<1>9. \A y \in Contexts : pc'[y] \in {"expired", "call", "after"} => i'[y] < MaxHandles
  BY <1>4 DEF IInv, LoopOK
<1>10. ASSUME NEW k \in Handles, tickCounter'[k] < 0
       PROVE  \E y \in Contexts : pc'[y] = "expired" /\ i'[y] = k
  <2>1. k # h
    BY <1>1, <1>5, <1>10 DEF IInv, TypeOK
  <2>2. PICK y \in Contexts : pc[y] = "expired" /\ i[y] = k
    BY <1>5, <1>10, <2>1 DEF IInv, TypeOK, LoopOK
  <2>. QED  BY <1>4, <2>1, <2>2
<1>11. LoopOK'
  BY <1>4, <1>9, <1>10 DEF LoopOK
<1>. QED  BY <1>8, <1>11 DEF IInv

\* What is owed to the clients after a call.
LEMMA CallOwes ==
  ASSUME IInv, NEW c \in Clients
  PROVE  /\ Min({owed[c], 0}) + Interval[c] \in -Longest .. Longest
         /\ 0 \in -Longest .. Longest
         /\ Interval[c] \in -Longest .. Longest
         /\ owed[c] \in -Longest .. Longest
         /\ \A t \in Nat : Min({t, Interval[c]}) \in -Longest .. Longest
<1>4. ASSUME NEW t \in Nat PROVE Min({t, Interval[c]}) \in -Longest .. Longest
  <2>1. PICK n \in Nat : n = Interval[c] /\ n <= Longest
    BY LongestBounds
  <2>2. PICK m \in {t, n} : m = Min({t, n}) /\ m <= n
    BY MinOfTwo
  <2>. QED  BY <2>1, <2>2, LongestBounds
<1>1. owed[c] \in -Longest .. Longest
  BY DEF IInv, TypeOK
<1>2. PICK o \in Int : o = owed[c]
  BY <1>1
<1>3. PICK m \in {o, 0} : m = Min({o, 0}) /\ m <= 0
  BY 0 \in Int, MinOfTwo
<1>. QED  BY <1>1, <1>2, <1>3, <1>4, LongestBounds

\* Call keeps the invariant.
LEMMA CallIInv ==
  ASSUME IInv, NEW x \in Contexts, Call(x)
  PROVE  IInv'
<1> USE DEF Call
<1>1. client[x] \in Clients /\ Registers[client[x]] \subseteq Clients
  BY TimerAssumption DEF IInv, TypeOK
<1>2. pc[x] \in InLoop
  BY DEF InLoop
<1>3. PICK new \in {{}} \cup {{c} : c \in {r \in Registers[client[x]] : HandleFor(r) # {}}},
           over \in SUBSET Clients, anew \in SUBSET Clients :
        /\ IF new = {} THEN UNCHANGED handleVars ELSE \A c \in new : Fill(c)
        /\ wanted' = (wanted \ over) \cup new
        /\ owed' = [d \in Clients |->
                      IF d \in new THEN Interval[d]
                      ELSE IF d \in over THEN 0
                      ELSE IF d \notin anew THEN owed[d]
                      ELSE IF d \in rushed THEN Min({tickCounter[i[x]], Interval[d]})
                      ELSE Min({owed[d], 0}) + Interval[d]]
        /\ rushed' = rushed \ (over \cup anew \cup new)
        /\ overlooked' = Overlooked(new)
  <2> DEFINE c == client[x]
             over == {d \in {c} \cap OneShot : x \notin struck \/ \A h \in Handles : callback[h] # d}
             anew == {d \in {c} \ OneShot : x \notin struck}
  <2>1. over \in SUBSET Clients /\ anew \in SUBSET Clients
    BY <1>1
  <2>. QED  BY <2>1
<1>0. tickCounter[i[x]] \in Nat
  <2>1. i[x] \in Handles
    BY TimerAssumption DEF IInv, TypeOK, LoopOK, Handles
  <2>2. \A y \in Contexts : pc[y] # "expired"
    BY <1>2 DEF IInv, LoopOK, InLoop
  <2>. QED  BY <2>1, <2>2 DEF IInv, TypeOK, LoopOK
<1>4. new \subseteq Clients
  BY <1>1
<1>5. /\ callback' \in [Handles -> Clients \cup {NULL}]
      /\ tickCounter' \in [Handles -> -MaxCount .. Longest + MaxCount]
      /\ \A h \in Handles : tickCounter'[h] < 0 => tickCounter[h] < 0
  <2>1. CASE new = {}
    BY <1>3, <2>1 DEF handleVars, IInv, TypeOK
  <2>2. CASE new # {}
    <3>1. PICK c \in new : Fill(c)
      BY <1>3, <2>2
    <3>. QED  BY <1>4, <3>1, FillType
  <2>. QED  BY <2>1, <2>2
<1>6. /\ (\A y \in Contexts : pc'[y] = "off") => g_lockCounter' = 0
      /\ \A y, z \in Contexts : pc'[y] \in InLoop /\ pc'[z] \in InLoop => y = z
      /\ isHandlingClients' <=> \E y \in Contexts : pc'[y] \in InLoop
      /\ pc' \in [Contexts -> {"off", "start", "scan", "expired", "call", "after", "setup"}]
      /\ \A y \in Contexts : pc'[y] = IF y = x THEN "after" ELSE pc[y]
  BY <1>2, StaysInLoop
<1>7. /\ wanted' \subseteq Clients /\ struck' \subseteq Contexts
      /\ rushed' \subseteq Clients /\ overlooked' \subseteq Clients
  BY <1>3, <1>4 DEF IInv, TypeOK, Overlooked
<1>8. owed' \in [Clients -> -Longest .. Longest]
  BY <1>0, <1>3, CallOwes
<1>9. g_lockCounter' \in {0, 1}
  BY DEF IInv, TypeOK
<1>10. TypeOK'
  BY <1>5, <1>6, <1>7, <1>8, <1>9 DEF IInv, TypeOK, hwVars, localVars
<1>11. \A y \in Contexts : pc'[y] \in {"expired", "call", "after"} => i'[y] < MaxHandles
  BY <1>6 DEF IInv, LoopOK, localVars
<1>12. \A y \in Contexts : pc[y] = "expired" => pc'[y] = "expired"
  BY <1>6
<1>13. LoopOK'
  BY <1>5, <1>6, <1>11, <1>12 DEF IInv, LoopOK, localVars
<1>. QED  BY <1>10, <1>13 DEF IInv

\* NextHandle keeps the invariant.
LEMMA NextHandleIInv ==
  ASSUME IInv, NEW x \in Contexts, NextHandle(x)
  PROVE  IInv'
<1> USE DEF NextHandle
<1>1. /\ i[x] \in Int /\ 0 <= i[x] /\ i[x] < MaxHandles
      /\ MaxHandles \in Nat
  BY TimerAssumption DEF IInv, TypeOK, LoopOK
<1>2. i[x] \in Handles
  BY <1>1 DEF Handles
<1>3. pc[x] \in InLoop
  BY DEF InLoop
<1>4. /\ (\A y \in Contexts : pc'[y] = "off") => g_lockCounter' = 0
      /\ \A y, z \in Contexts : pc'[y] \in InLoop /\ pc'[z] \in InLoop => y = z
      /\ isHandlingClients' <=> \E y \in Contexts : pc'[y] \in InLoop
      /\ pc' \in [Contexts -> {"off", "start", "scan", "expired", "call", "after", "setup"}]
      /\ \A y \in Contexts : pc'[y] = IF y = x THEN "scan" ELSE pc[y]
  BY <1>3, StaysInLoop
<1>5. nextInterval' \in [Contexts -> (-MaxCount .. Longest + MaxCount) \cup {NULL}]
  <2>1. tickCounter[i[x]] \in -MaxCount .. Longest + MaxCount
    BY <1>2 DEF IInv, TypeOK
  <2>. QED  BY <2>1 DEF IInv, TypeOK
<1>6. i' \in [Contexts -> 0 .. MaxHandles]
  BY <1>1 DEF IInv, TypeOK
<1>7. TypeOK'
  BY <1>4, <1>5, <1>6 DEF IInv, TypeOK, handleVars, hwVars, historyVars
<1>8. \A y \in Contexts : y # x => i'[y] = i[y]
  BY DEF IInv, TypeOK
<1>9. \A y \in Contexts : pc'[y] \in {"expired", "call", "after"} => i'[y] < MaxHandles
  BY <1>4, <1>8 DEF IInv, LoopOK
<1>10. \A y \in Contexts : pc[y] = "expired" => pc'[y] = "expired" /\ i'[y] = i[y]
  BY <1>4, <1>8
<1>11. LoopOK'
  BY <1>4, <1>9, <1>10 DEF IInv, LoopOK, handleVars
<1>. QED  BY <1>7, <1>11 DEF IInv

\* EndLoop keeps the invariant.
LEMMA EndLoopIInv ==
  ASSUME IInv, NEW x \in Contexts, EndLoop(x)
  PROVE  IInv'
<1> USE DEF EndLoop
<1>1. \A y \in Contexts : pc'[y] = IF y = x THEN "setup" ELSE pc[y]
  BY DEF IInv, TypeOK
<1>2. TypeOK'
  BY DEF IInv, TypeOK, handleVars, hwVars, localVars, historyVars
<1>3. \A y \in Contexts : pc'[y] \notin InLoop
  BY <1>1 DEF IInv, LoopOK, InLoop
<1>4. \A y \in Contexts : pc'[y] \notin {"expired", "call", "after"} /\ pc[y] # "expired"
  BY <1>1, <1>3 DEF InLoop
<1>5. pc'[x] # "off" /\ isHandlingClients' = FALSE
  BY <1>1
<1>6. \A h \in Handles : ~(tickCounter'[h] < 0)
  BY <1>4 DEF IInv, LoopOK, handleVars
<1>7. LoopOK'
  BY <1>3, <1>4, <1>5, <1>6 DEF LoopOK
<1>. QED  BY <1>2, <1>7 DEF IInv

\* SetupTimer keeps the invariant.
LEMMA SetupTimerIInv ==
  ASSUME IInv, NEW x \in Contexts, SetupTimer(x)
  PROVE  IInv'
<1> USE DEF SetupTimer
<1>1. TIM_CNT' \in 0 .. MaxCount
  BY TimerAssumption DEF IInv, TypeOK
<1>2. TIM_CCR1' \in 0 .. Longest + MaxCount
  <2>1. CASE nextInterval[x] = NULL
    BY <2>1 DEF IInv, TypeOK
  <2>2. CASE nextInterval[x] # NULL
    <3>1. PICK least \in {MinOnTrigger, MinOnRegister} : TIM_CCR1' = Max({nextInterval[x], least})
      BY <2>2
    <3>2. least \in 1 .. Longest
      BY LongestBounds
    <3>3. nextInterval[x] \in -MaxCount .. Longest + MaxCount
      BY <2>2 DEF IInv, TypeOK
    <3>4. PICK n \in Int : n = nextInterval[x]
      BY <3>3
    <3>5. PICK m \in {n, least} : m = Max({n, least}) /\ m >= least
      <4>1. least \in Int
        BY <3>2
      <4>. QED  BY <4>1, MaxOfTwo
    <3>. QED  BY <3>1, <3>2, <3>3, <3>4, <3>5, LongestBounds, TimerAssumption
  <2>. QED  BY <2>1, <2>2
<1>3. enabled' \in BOOLEAN
  BY DEF IInv, TypeOK
<1>4. g_lockCounter' = 0
  BY DEF IInv, TypeOK
<1>5. /\ i' \in [Contexts -> 0 .. MaxHandles]
      /\ ticksElapsed' \in [Contexts -> 0 .. MaxCount]
      /\ nextInterval' \in [Contexts -> (-MaxCount .. Longest + MaxCount) \cup {NULL}]
  BY TimerAssumption DEF IInv, TypeOK
<1>6. /\ client' \in [Contexts -> Clients \cup {NULL}]
      /\ pc' \in [Contexts -> {"off", "start", "scan", "expired", "call", "after", "setup"}]
  BY DEF IInv, TypeOK
<1>7. TypeOK'
  BY <1>1, <1>2, <1>3, <1>4, <1>5, <1>6 DEF IInv, TypeOK, handleVars, historyVars
<1>8. \A y \in Contexts : pc'[y] = IF y = x THEN "off" ELSE pc[y]
  BY DEF IInv, TypeOK
<1>9. \A y \in Contexts : pc'[y] \in InLoop <=> pc[y] \in InLoop
  BY <1>8 DEF InLoop
<1>10. \A y \in Contexts : y # x => i'[y] = i[y]
  BY DEF IInv, TypeOK
<1>11. \A y \in Contexts : pc'[y] \in {"expired", "call", "after"} => i'[y] < MaxHandles
  BY <1>8, <1>10 DEF IInv, LoopOK
<1>12. \A y \in Contexts : pc[y] = "expired" => pc'[y] = "expired" /\ i'[y] = i[y]
  BY <1>8, <1>10
<1>13. LoopOK'
  BY <1>4, <1>9, <1>11, <1>12 DEF IInv, LoopOK, handleVars
<1>. QED  BY <1>7, <1>13 DEF IInv

\* Every step keeps the invariant.
LEMMA NextIInv == IInv /\ [Next]_vars => IInv'
<1> SUFFICES ASSUME IInv, [Next]_vars PROVE IInv'
  OBVIOUS
<1>1. CASE Tick
  BY <1>1, TickIInv
<1>2. CASE Trigger
  BY <1>2, TriggerIInv
<1>3. CASE \/ \E c \in FromMain : RegisterOnTimer(Main, c)
           \/ \E c \in FromInterrupts : RegisterOnTimer(Interrupt, c)
  BY <1>3, RegisterIInv, TimerAssumption DEF Contexts, Main, Interrupt
<1>4. CASE \E c \in Cancelled : UnRegisterFromTimer(Interrupt, c)
  BY <1>4, UnRegisterIInv, TimerAssumption DEF Contexts, Interrupt
<1>5. CASE \E x \in Contexts : Loop(x)
  BY <1>5, StartLoopIInv, ScanIInv, ExpireIInv, CallIInv, NextHandleIInv, EndLoopIInv,
     SetupTimerIInv DEF Loop
<1>6. CASE UNCHANGED vars
  <2>1. UNCHANGED <<callback, tickCounter, isHandlingClients, g_lockCounter, TIM_CNT, TIM_CCR1,
                    enabled, pending, pc, i, ticksElapsed, nextInterval, client, wanted, owed,
                    struck, rushed, overlooked>>
    BY <1>6 DEF vars, handleVars, hwVars, localVars, historyVars
  <2>2. TypeOK'
    BY <2>1 DEF IInv, TypeOK
  <2>3. LoopOK'
    BY <2>1 DEF IInv, LoopOK
  <2>. QED  BY <2>2, <2>3 DEF IInv
<1>. QED  BY <1>1, <1>2, <1>3, <1>4, <1>5, <1>6 DEF Next

\* The invariant holds for every behaviour of the timer, whoever posts.
THEOREM Invariance == Spec => []IInv
  BY InitIInv, NextIInv, PTL DEF Spec

\* The variables have their types and the counters stay within their bounds,
\* also when the loop over the handles is interrupted.
THEOREM TypeCorrect == Spec => []TypeOK
<1>1. IInv => TypeOK
  BY DEF IInv
<1>. QED  BY <1>1, Invariance, PTL

\* One context at most is in the loop over the handles, and the flag says so,
\* also when the loop is interrupted by a registration or by its own timer.
THEOREM OneInLoop == Spec => []LoopOK
<1>1. IInv => LoopOK
  BY DEF IInv
<1>. QED  BY <1>1, Invariance, PTL

-----------------------------------------------------------------------------
\* What the handles and the counters are.

\* The types of what the counters are compared with.
LEMMA CounterTypes ==
  ASSUME IInv
  PROVE  /\ \A h \in Handles : tickCounter[h] \in Int
         /\ TIM_CNT \in Nat
         /\ \A c \in Clients : owed[c] \in Int /\ Interval[c] \in Nat
         /\ \A h \in Handles : callback[h] # NULL => callback[h] \in Clients
         /\ \A x \in Contexts : ticksElapsed[x] \in Nat /\ i[x] \in Nat
         /\ \A x \in Contexts : nextInterval[x] # NULL => nextInterval[x] \in Int
<1> USE DEF IInv, TypeOK
<1>1. \A h \in Handles : tickCounter[h] \in Int
  BY LongestBounds, TimerAssumption
<1>2. TIM_CNT \in Nat /\ \A x \in Contexts : ticksElapsed[x] \in Nat /\ i[x] \in Nat
  BY TimerAssumption
<1>3. \A c \in Clients : owed[c] \in Int /\ Interval[c] \in Nat
  BY LongestBounds
<1>4. \A h \in Handles : callback[h] # NULL => callback[h] \in Clients
  OBVIOUS
<1>5. \A x \in Contexts : nextInterval[x] # NULL => nextInterval[x] \in Int
  BY LongestBounds, TimerAssumption
<1>. QED  BY <1>1, <1>2, <1>3, <1>4, <1>5

\* The time since the reset of the hardware counter is not negative.
LEMMA SinceResetIsLess ==
  ASSUME IInv, NEW h \in Handles, callback[h] # NULL, SinceReset(h)
  PROVE  FromNow(h)
<1>1. owed[callback[h]] \in Int /\ tickCounter[h] \in Int /\ TIM_CNT \in Nat
  BY CounterTypes
<1>2. CASE owed[callback[h]] <= tickCounter[h] - TIM_CNT
  <2>1. owed[callback[h]] <= tickCounter[h]
    BY <1>1, <1>2
  <2>. QED  BY <2>1 DEF FromNow
<1>. QED  BY <1>2 DEF SinceReset, FromNow

\* What a registration does to the handles.
LEMMA FillEffect ==
  ASSUME IInv, NEW c \in Clients, Fill(c)
  PROVE  \/ HandleFor(c) = {} /\ UNCHANGED <<callback, tickCounter>>
         \/ \E h \in Handles :
              /\ HandleFor(c) # {}
              /\ callback' = [callback EXCEPT ![h] = c]
              /\ tickCounter' = [tickCounter EXCEPT ![h] = Interval[c] + TIM_CNT]
              /\ \/ callback[h] = c
                 \/ callback[h] = NULL /\ \A k \in Handles : callback[k] # c
<1>1. CASE HandleFor(c) = {}
  <2>1. callback' = callback /\ tickCounter' = tickCounter
    BY <1>1 DEF Fill, IInv, TypeOK
  <2>. QED  BY <1>1, <2>1
<1>2. CASE HandleFor(c) # {}
  <2>1. PICK h \in Handles : /\ HandleFor(c) = {h}
                             /\ \/ callback[h] = c
                                \/ callback[h] = NULL /\ \A k \in Handles : callback[k] # c
    BY <1>2, OneHandle
  <2>2. callback' = [callback EXCEPT ![h] = c]
    BY <2>1 DEF Fill, IInv, TypeOK
  <2>3. tickCounter' = [tickCounter EXCEPT ![h] = Interval[c] + TIM_CNT]
    BY <2>1 DEF Fill, IInv, TypeOK
  <2>. QED  BY <1>2, <2>1, <2>2, <2>3
<1>. QED  BY <1>1, <1>2

\* The clients' handles after a registration.
LEMMA FillIsWanted ==
  ASSUME IInv, HandlesAreWanted, NEW c \in Clients, Fill(c), NEW W,
         HandleFor(c) # {} => c \in W,
         \A h \in Handles : callback[h] # NULL /\ callback[h] # c => callback[h] \in W
  PROVE  /\ \A h \in Handles : callback'[h] # NULL => callback'[h] \in W
         /\ \A h, k \in Handles : callback'[h] = callback'[k] /\ callback'[h] # NULL => h = k
<1>1. CASE HandleFor(c) = {} /\ UNCHANGED <<callback, tickCounter>>
  <2>1. \A h \in Handles : callback[h] # c
    BY <1>1, OneHandle DEF HandleFor
  <2>. QED  BY <1>1, <2>1 DEF HandlesAreWanted
<1>2. CASE \E h \in Handles :
             /\ HandleFor(c) # {}
             /\ callback' = [callback EXCEPT ![h] = c]
             /\ tickCounter' = [tickCounter EXCEPT ![h] = Interval[c] + TIM_CNT]
             /\ \/ callback[h] = c
                \/ callback[h] = NULL /\ \A k \in Handles : callback[k] # c
  <2>1. PICK h \in Handles :
          /\ HandleFor(c) # {}
          /\ callback' = [callback EXCEPT ![h] = c]
          /\ \/ callback[h] = c
             \/ callback[h] = NULL /\ \A k \in Handles : callback[k] # c
    BY <1>2
  <2>2. c # NULL
    BY TimerAssumption
  <2>3. \A k \in Handles : k # h => callback[k] # c
    BY <2>1, <2>2 DEF HandlesAreWanted
  <2>4. \A k \in Handles : callback'[k] = IF k = h THEN c ELSE callback[k]
    BY <2>1 DEF IInv, TypeOK
  <2>. QED  BY <2>1, <2>2, <2>3, <2>4 DEF HandlesAreWanted
<1>. QED  BY <1>1, <1>2, FillEffect

\* The time of a handle that is taken for the next interval.
LEMMA NextIsSet ==
  ASSUME IInv, NEW x \in Contexts, NextHandle(x)
  PROVE  /\ i[x] \in Handles
         /\ i'[x] = i[x] + 1
         /\ callback[i[x]] # NULL => nextInterval'[x] # NULL
         /\ nextInterval[x] # NULL => nextInterval'[x] # NULL
<1> USE DEF NextHandle
<1>1. i[x] \in Handles
  <2>1. i[x] \in Nat /\ MaxHandles \in Nat /\ i[x] < MaxHandles
    BY CounterTypes, TimerAssumption DEF IInv, LoopOK
  <2>. QED  BY <2>1 DEF Handles
<1>2. tickCounter[i[x]] # NULL
  BY <1>1, CounterTypes, TimerAssumption
<1>. QED  BY <1>1, <1>2 DEF IInv, TypeOK

\* The greatest of three numbers.
LEMMA MaxOfThree ==
  ASSUME NEW a \in Int, NEW b \in Int, NEW c \in Int
  PROVE  \E m \in {a, b, c} : m = Max({a, b, c}) /\ m >= a /\ m >= b /\ m >= c
<1>1. PICK m \in {a, b} : m >= a /\ m >= b
  OBVIOUS
<1>2. \E x \in {a, b, c} : \A y \in {a, b, c} : x >= y
  <2>1. CASE m >= c
    BY <1>1, <2>1
  <2>2. CASE c >= m
    BY <1>1, <2>2
  <2>. QED  BY <1>1, <2>1, <2>2
<1>. QED  BY <1>2 DEF Max

\* Before the loop, at handle 0, no handle has been passed.
LEMMA NoneBeforeFirst == \A h \in Handles : ~(h < 0)
  BY TimerAssumption DEF Handles

\* The hardware has been set up for the handle whose time is t.
LEMMA SetUpForAll ==
  ASSUME NEW t \in Int, NEW n \in Int, n <= t, NEW least \in {MinOnRegister, MinOnTrigger}
  PROVE  /\ 0 < Max({n, least})
         /\ Max({n, least}) <= Max({t, MinOnTrigger, MinOnRegister})
<1>1. MinOnRegister \in Int /\ MinOnTrigger \in Int /\ least \in Int /\ 0 < least
  BY TimerAssumption
<1>2. PICK m \in {n, least} : m = Max({n, least}) /\ m >= least
  BY <1>1, MaxOfTwo
<1>3. PICK g \in {t, MinOnTrigger, MinOnRegister} :
        /\ g = Max({t, MinOnTrigger, MinOnRegister})
        /\ g >= t /\ g >= MinOnTrigger /\ g >= MinOnRegister
  BY <1>1, MaxOfThree
<1>4. m <= g
  BY <1>1, <1>2, <1>3
<1>. QED  BY <1>1, <1>2, <1>3, <1>4
-----------------------------------------------------------------------------
\* Where the contexts stand: Nested.

\* When a context that is in the timer's functions runs, nobody else has just
\* entered.
LEMMA NobodyStarts ==
  ASSUME Nested, NEW x \in Contexts, Runs(x), pc[x] # "off"
  PROVE  \A y \in Contexts : y # x => pc[y] # "start"
<1>1. ASSUME NEW y \in Contexts, y # x, pc[y] = "start"
      PROVE  FALSE
  <2>1. Runs(y)
    BY <1>1 DEF Nested
  <2>2. x > y \/ y > x
    BY <1>1 DEF Contexts
  <2>. QED  BY <1>1, <2>1, <2>2 DEF Runs
<1>. QED  BY <1>1

\* Nobody is anywhere at the start.
LEMMA InitNested == Init => Nested
  BY DEF Init, Nested, InLoop

\* Who enters takes the mutex, and is above all that are in.
LEMMA EnterIsNested ==
  ASSUME IInv, Nested, NEW x \in Contexts, CanEnter(x),
         pc' = [pc EXCEPT ![x] = "start"], g_lockCounter' = g_lockCounter + 1,
         UNCHANGED <<localVars, TIM_CNT>>
  PROVE  Nested'
<1>1. g_lockCounter = 0
  BY EntersUnlocked
<1>2. \A y \in Contexts : pc'[y] = IF y = x THEN "start" ELSE pc[y]
  BY DEF IInv, TypeOK
<1>3. pc[x] = "off" /\ Runs(x)
  BY DEF CanEnter
<1>4. UNCHANGED <<i, nextInterval, ticksElapsed, TIM_CNT>>
  BY DEF localVars
<1>5. \A y \in Contexts : pc[y] # "start"
  BY <1>1 DEF Nested
<1>6. Runs(x)'
  BY <1>2, <1>3 DEF Runs, Contexts
<1>7. \A y \in Contexts : (pc'[y] \in InLoop <=> pc[y] \in InLoop) /\ (pc'[y] = "setup" <=> pc[y] = "setup")
  BY <1>2, <1>3 DEF InLoop
<1>8. \A y \in Contexts : pc'[y] = "start" => g_lockCounter' = 1 /\ Runs(y)'
  BY <1>1, <1>2, <1>5, <1>6
<1>9. \A y \in Contexts : pc'[y] \in {"off", "start"} => i'[y] = 0 /\ nextInterval'[y] = NULL
  BY <1>2, <1>3, <1>4 DEF Nested
<1>10. \A y \in Contexts :
         pc'[y] = "setup" =>
           \/ i'[y] = MaxHandles
           \/ /\ i'[y] = 0
              /\ nextInterval'[y] = NULL
              /\ \E z \in Contexts : z < y /\ pc'[z] \in InLoop
  BY <1>4, <1>7 DEF Nested
<1>11. \A y, z \in Contexts : pc'[y] \in InLoop /\ y < z => i'[z] = 0 /\ nextInterval'[z] = NULL
  BY <1>4, <1>7 DEF Nested
<1>12. \A y \in Contexts : pc'[y] \in InLoop => ticksElapsed'[y] <= TIM_CNT'
  BY <1>4, <1>7 DEF Nested
<1>. QED  BY <1>8, <1>9, <1>10, <1>11, <1>12 DEF Nested

\* A step from one place in the loop to another.
LEMMA StepIsNested ==
  ASSUME IInv, Nested, NEW x \in Contexts, NEW where \in InLoop,
         Runs(x), pc[x] \in InLoop, pc' = [pc EXCEPT ![x] = where],
         \A y \in Contexts : y # x => i'[y] = i[y] /\ nextInterval'[y] = nextInterval[y],
         UNCHANGED <<ticksElapsed, TIM_CNT>>
  PROVE  Nested'
<1>1. \A y \in Contexts : pc'[y] = IF y = x THEN where ELSE pc[y]
  BY DEF IInv, TypeOK
<1>2. where \notin {"off", "start", "setup"} /\ pc[x] \notin {"off", "start", "setup"}
  BY DEF InLoop
<1>3. \A y \in Contexts : pc'[y] # "start"
  BY <1>1, <1>2, NobodyStarts
<1>4. \A y \in Contexts : pc[y] \in InLoop <=> y = x
  BY DEF IInv, LoopOK
<1>5. \A y \in Contexts : pc'[y] \in InLoop <=> y = x
  BY <1>1, <1>4
<1>6. \A y \in Contexts : pc'[y] \in {"off", "start"} => i'[y] = 0 /\ nextInterval'[y] = NULL
  BY <1>1, <1>2 DEF Nested
<1>7. ASSUME NEW y \in Contexts, pc'[y] = "setup"
      PROVE  \/ i'[y] = MaxHandles
             \/ /\ i'[y] = 0
                /\ nextInterval'[y] = NULL
                /\ \E z \in Contexts : z < y /\ pc'[z] \in InLoop
  <2>1. y # x /\ pc[y] = "setup"
    BY <1>1, <1>2, <1>7
  <2>. QED  BY <1>4, <1>5, <2>1 DEF Nested
<1>8. \A y, z \in Contexts : pc'[y] \in InLoop /\ y < z => i'[z] = 0 /\ nextInterval'[z] = NULL
  <2>1. \A z \in Contexts : x < z => z # x
    BY DEF Contexts
  <2>. QED  BY <1>5, <2>1 DEF Nested
<1>9. \A y \in Contexts : pc'[y] \in InLoop => ticksElapsed'[y] <= TIM_CNT'
  BY <1>5 DEF Nested
<1>. QED  BY <1>3, <1>6, <1>7, <1>8, <1>9 DEF Nested

\* Time passes.
LEMMA TickNested ==
  ASSUME IInv, Nested, Tick
  PROVE  Nested'
<1>1. UNCHANGED <<pc, g_lockCounter, i, nextInterval, ticksElapsed>>
  BY DEF Tick, localVars
<1>2. \A x \in Contexts : ticksElapsed[x] <= TIM_CNT => ticksElapsed[x] <= TIM_CNT'
  BY CounterTypes DEF Tick
<1>. QED  BY <1>1, <1>2 DEF Nested, Runs

\* A context finds the loop taken, or takes it.
LEMMA StartLoopNested ==
  ASSUME IInv, Nested, NEW x \in Contexts, StartLoop(x)
  PROVE  Nested'
<1> USE DEF StartLoop
<1>1. Runs(x) /\ i[x] = 0
  BY DEF Nested
<1>2. \A y \in Contexts : y # x => pc[y] # "start"
  BY NobodyStarts
<1>3. UNCHANGED TIM_CNT
  BY DEF hwVars
<1>4. \A y \in Contexts : nextInterval'[y] = IF y = x THEN NULL ELSE nextInterval[y]
  BY DEF IInv, TypeOK
<1>5. isHandlingClients <=> \E z \in Contexts : pc[z] \in InLoop
  BY DEF IInv, LoopOK
<1>6. CASE isHandlingClients
  <2>1. \A y \in Contexts : pc'[y] = IF y = x THEN "setup" ELSE pc[y]
    BY <1>6 DEF IInv, TypeOK
  <2>2. UNCHANGED <<i, ticksElapsed>>
    BY <1>6
  <2>3. \A y \in Contexts : pc'[y] \in InLoop <=> pc[y] \in InLoop
    BY <2>1 DEF InLoop
  <2>4. PICK z \in Contexts : pc[z] \in InLoop
    BY <1>5, <1>6
  <2>5. z < x
    <3>1. ~(z > x) /\ z # x
      BY <2>4 DEF Runs, InLoop
    <3>. QED  BY <3>1 DEF Contexts
  <2>6. \A y \in Contexts : pc'[y] # "start"
    BY <1>2, <2>1
  <2>7. \A y \in Contexts : pc'[y] \in {"off", "start"} => i'[y] = 0 /\ nextInterval'[y] = NULL
    BY <1>4, <2>1, <2>2 DEF Nested
  <2>8. ASSUME NEW y \in Contexts, pc'[y] = "setup"
        PROVE  \/ i'[y] = MaxHandles
               \/ /\ i'[y] = 0
                  /\ nextInterval'[y] = NULL
                  /\ \E w \in Contexts : w < y /\ pc'[w] \in InLoop
    <3>1. CASE y = x
      BY <1>1, <1>4, <2>2, <2>3, <2>4, <2>5, <3>1
    <3>2. CASE y # x
      BY <1>4, <2>1, <2>2, <2>3, <2>8, <3>2 DEF Nested
    <3>. QED  BY <3>1, <3>2
  <2>9. \A y, w \in Contexts : pc'[y] \in InLoop /\ y < w => i'[w] = 0 /\ nextInterval'[w] = NULL
    BY <1>4, <2>2, <2>3 DEF Nested
  <2>10. \A y \in Contexts : pc'[y] \in InLoop => ticksElapsed'[y] <= TIM_CNT'
    BY <1>3, <2>2, <2>3 DEF Nested
  <2>. QED  BY <2>6, <2>7, <2>8, <2>9, <2>10 DEF Nested
<1>7. CASE ~isHandlingClients
  <2>1. \A y \in Contexts : pc'[y] = IF y = x THEN "scan" ELSE pc[y]
    BY <1>7 DEF IInv, TypeOK
  <2>2. /\ \A y \in Contexts : i'[y] = i[y]
        /\ ticksElapsed'[x] = TIM_CNT
    BY <1>1, <1>7 DEF IInv, TypeOK
  <2>3. \A y \in Contexts : pc'[y] \in InLoop <=> y = x
    BY <1>5, <1>7, <2>1 DEF InLoop
  <2>4. \A y \in Contexts : pc'[y] # "start"
    BY <1>2, <2>1
  <2>5. \A y \in Contexts : pc'[y] \in {"off", "start"} => i'[y] = 0 /\ nextInterval'[y] = NULL
    BY <1>4, <2>1, <2>2 DEF Nested
  <2>6. \A y \in Contexts : pc'[y] = "setup" => i'[y] = MaxHandles
    BY <1>5, <1>7, <2>1, <2>2 DEF Nested
  <2>7. \A w \in Contexts : x < w => i'[w] = 0 /\ nextInterval'[w] = NULL
    BY <1>1, <1>4, <2>2 DEF Nested, Runs
  <2>8. TIM_CNT <= TIM_CNT'
    BY <1>3, CounterTypes
  <2>. QED  BY <2>2, <2>3, <2>4, <2>5, <2>6, <2>7, <2>8 DEF Nested
<1>. QED  BY <1>6, <1>7

\* The loop is left.
LEMMA EndLoopNested ==
  ASSUME IInv, Nested, NEW x \in Contexts, EndLoop(x)
  PROVE  Nested'
<1> USE DEF EndLoop
<1>1. UNCHANGED <<i, nextInterval, ticksElapsed, TIM_CNT, g_lockCounter>>
  BY DEF localVars, hwVars
<1>2. \A y \in Contexts : pc[y] \in InLoop <=> y = x
  BY DEF IInv, LoopOK, InLoop
<1>3. \A y \in Contexts : pc'[y] = IF y = x THEN "setup" ELSE pc[y]
  BY DEF IInv, TypeOK
<1>4. \A y \in Contexts : pc'[y] \notin InLoop
  BY <1>2, <1>3 DEF InLoop
<1>5. \A y \in Contexts : pc'[y] # "start"
  BY <1>3, NobodyStarts
<1>6. \A y \in Contexts : pc'[y] \in {"off", "start"} => i'[y] = 0 /\ nextInterval'[y] = NULL
  BY <1>1, <1>3 DEF Nested
<1>7. ASSUME NEW y \in Contexts, pc'[y] = "setup"
      PROVE  i'[y] = MaxHandles
  <2>1. CASE y = x
    BY <1>1, <2>1
  <2>2. CASE y # x
    <3>1. ~(x < y)
      BY <1>3, <1>7, <2>2 DEF Runs, Contexts
    <3>. QED  BY <1>1, <1>2, <1>3, <1>7, <2>2, <3>1 DEF Nested
  <2>. QED  BY <2>1, <2>2
<1>. QED  BY <1>4, <1>5, <1>6, <1>7 DEF Nested

\* Who leaves while another one is in the loop leaves the hardware alone.
LEMMA LeavesItAlone ==
  ASSUME IInv, Nested, NEW x \in Contexts, SetupTimer(x), isHandlingClients
  PROVE  /\ UNCHANGED <<TIM_CNT, TIM_CCR1, enabled>>
         /\ \E z \in Contexts : z < x /\ pc[z] \in InLoop
<1> USE DEF SetupTimer
<1>1. PICK z \in Contexts : pc[z] \in InLoop
  BY DEF IInv, LoopOK
<1>2. z < x
  <2>1. ~(z > x) /\ z # x
    BY <1>1 DEF Runs, InLoop
  <2>. QED  BY <2>1 DEF Contexts
<1>3. nextInterval[x] = NULL
  BY <1>1, <1>2 DEF Nested
<1>. QED  BY <1>1, <1>2, <1>3

\* The section is left.
LEMMA SetupTimerNested ==
  ASSUME IInv, Nested, NEW x \in Contexts, SetupTimer(x)
  PROVE  Nested'
<1> USE DEF SetupTimer
<1>1. \A y \in Contexts : /\ pc'[y] = IF y = x THEN "off" ELSE pc[y]
                          /\ i'[y] = IF y = x THEN 0 ELSE i[y]
                          /\ ticksElapsed'[y] = IF y = x THEN 0 ELSE ticksElapsed[y]
                          /\ nextInterval'[y] = IF y = x THEN NULL ELSE nextInterval[y]
  BY DEF IInv, TypeOK
<1>2. \A y \in Contexts : pc'[y] \in InLoop <=> pc[y] \in InLoop
  BY <1>1 DEF InLoop
<1>3. \A y \in Contexts : pc'[y] # "start"
  BY <1>1, NobodyStarts
<1>4. \A y \in Contexts : pc'[y] \in {"off", "start"} => i'[y] = 0 /\ nextInterval'[y] = NULL
  BY <1>1 DEF Nested
<1>5. ASSUME NEW y \in Contexts, pc'[y] = "setup"
      PROVE  \/ i'[y] = MaxHandles
             \/ /\ i'[y] = 0
                /\ nextInterval'[y] = NULL
                /\ \E z \in Contexts : z < y /\ pc'[z] \in InLoop
  BY <1>1, <1>2, <1>5 DEF Nested
<1>6. \A y, z \in Contexts : pc'[y] \in InLoop /\ y < z => i'[z] = 0 /\ nextInterval'[z] = NULL
  BY <1>1, <1>2 DEF Nested
<1>7. ASSUME NEW y \in Contexts, pc'[y] \in InLoop
      PROVE  ticksElapsed'[y] <= TIM_CNT'
  <2>1. y # x /\ pc[y] \in InLoop
    BY <1>1, <1>2, <1>7 DEF InLoop
  <2>2. TIM_CNT' = TIM_CNT
    <3>1. isHandlingClients
      BY <2>1 DEF IInv, LoopOK
    <3>. QED  BY <3>1, LeavesItAlone
  <2>. QED  BY <1>1, <2>1, <2>2 DEF Nested
<1>. QED  BY <1>3, <1>4, <1>5, <1>6, <1>7 DEF Nested

\* Every step keeps Nested.
LEMMA NextNested ==
  ASSUME IInv, Nested, [Next]_vars
  PROVE  Nested'
<1>1. CASE Tick
  BY <1>1, TickNested
<1>2. CASE Trigger
  <2>1. Timer \in Contexts
    BY DEF Timer, Contexts
  <2>. QED  BY <1>2, <2>1, EnterIsNested DEF Trigger
<1>3. ASSUME NEW x \in Contexts, NEW c \in Clients, RegisterOnTimer(x, c)
      PROVE  Nested'
  BY <1>3, EnterIsNested DEF RegisterOnTimer, hwVars
<1>4. CASE \/ \E c \in FromMain : RegisterOnTimer(Main, c)
           \/ \E c \in FromInterrupts : RegisterOnTimer(Interrupt, c)
  BY <1>3, <1>4, TimerAssumption DEF Contexts, Main, Interrupt
<1>5. CASE UNCHANGED <<pc, g_lockCounter, localVars, TIM_CNT>>
  BY <1>5 DEF Nested, Runs, localVars
<1>6. CASE \E c \in Cancelled : UnRegisterFromTimer(Interrupt, c)
  BY <1>5, <1>6 DEF UnRegisterFromTimer, hwVars
<1>7. ASSUME NEW x \in Contexts, Loop(x)
      PROVE  Nested'
  <2>1. CASE Scan(x)
    <3>1. PICK where \in {"scan", "expired", "after"} : pc' = [pc EXCEPT ![x] = where]
      <4>1. CASE callback[i[x]] = NULL
        <5>1. pc' = [pc EXCEPT ![x] = "scan"]
          BY <2>1, <4>1 DEF Scan, IInv, TypeOK
        <5>. QED  BY <5>1
      <4>. QED  BY <2>1, <4>1 DEF Scan
    <3>2. where \in InLoop /\ pc[x] \in InLoop /\ Runs(x)
      BY <2>1 DEF Scan, InLoop
    <3>3. \A y \in Contexts : y # x => i'[y] = i[y] /\ nextInterval'[y] = nextInterval[y]
      BY <2>1 DEF Scan, IInv, TypeOK
    <3>4. UNCHANGED <<ticksElapsed, TIM_CNT>>
      BY <2>1 DEF Scan, hwVars
    <3>. QED  BY <3>1, <3>2, <3>3, <3>4, StepIsNested
  <2>2. CASE Expire(x)
    <3>1. /\ pc' = [pc EXCEPT ![x] = "call"] /\ UNCHANGED <<i, nextInterval, ticksElapsed, TIM_CNT>>
          /\ pc[x] \in InLoop /\ "call" \in InLoop /\ Runs(x)
      BY <2>2 DEF Expire, hwVars, InLoop
    <3>. QED  BY <3>1, StepIsNested
  <2>3. CASE Call(x)
    <3>1. /\ pc' = [pc EXCEPT ![x] = "after"] /\ UNCHANGED <<i, nextInterval, ticksElapsed, TIM_CNT>>
          /\ pc[x] \in InLoop /\ "after" \in InLoop /\ Runs(x)
      BY <2>3 DEF Call, hwVars, localVars, InLoop
    <3>. QED  BY <3>1, StepIsNested
  <2>4. CASE NextHandle(x)
    <3>1. /\ pc' = [pc EXCEPT ![x] = "scan"] /\ UNCHANGED <<ticksElapsed, TIM_CNT>>
          /\ pc[x] \in InLoop /\ "scan" \in InLoop /\ Runs(x)
      BY <2>4 DEF NextHandle, hwVars, InLoop
    <3>2. \A y \in Contexts : y # x => i'[y] = i[y] /\ nextInterval'[y] = nextInterval[y]
      BY <2>4 DEF NextHandle, IInv, TypeOK
    <3>. QED  BY <3>1, <3>2, StepIsNested
  <2>. QED  BY <1>7, <2>1, <2>2, <2>3, <2>4, StartLoopNested, EndLoopNested, SetupTimerNested
       DEF Loop
<1>8. CASE UNCHANGED vars
  BY <1>5, <1>8 DEF vars, hwVars
<1>. QED  BY <1>1, <1>2, <1>4, <1>6, <1>7, <1>8 DEF Next
-----------------------------------------------------------------------------
\* Who has a handle, and who is called: HandlesAreWanted.

\* The start: the client that the init functions have registered.
LEMMA InitWanted == Init => HandlesAreWanted
<1> SUFFICES ASSUME Init PROVE HandlesAreWanted
  OBVIOUS
<1>1. \A h \in Handles : callback[h] # NULL => h = 0 /\ callback[h] \in AtStart
  BY DEF Init
<1>. QED  BY <1>1 DEF HandlesAreWanted, Init

\* The handle a context is at in the loop.
LEMMA AtHandle ==
  ASSUME IInv, NEW x \in Contexts, pc[x] \in {"expired", "call", "after"}
  PROVE  i[x] \in Handles
<1>1. i[x] \in Nat /\ MaxHandles \in Nat /\ i[x] < MaxHandles
  BY CounterTypes, TimerAssumption DEF IInv, LoopOK
<1>. QED  BY <1>1 DEF Handles

\* A registration strikes whoever is about to call the client, and leaves the
\* handles of the others as they are.
LEMMA RegisterWanted ==
  ASSUME IInv, HandlesAreWanted, NEW x \in Contexts, NEW c \in Clients, RegisterOnTimer(x, c)
  PROVE  HandlesAreWanted'
<1> USE DEF RegisterOnTimer
<1>1. \A y \in Contexts : pc'[y] = IF y = x THEN "start" ELSE pc[y]
  BY DEF IInv, TypeOK
<1>2. UNCHANGED <<i, client>> /\ c # NULL
  BY TimerAssumption DEF localVars
<1>3. CASE HandleFor(c) = {} /\ UNCHANGED <<callback, tickCounter>>
  <2>1. UNCHANGED <<wanted, struck>>
    BY <1>3 DEF historyVars
  <2>. QED  BY <1>1, <1>2, <1>3, <2>1 DEF HandlesAreWanted
<1>4. CASE \E k \in Handles :
             /\ HandleFor(c) # {}
             /\ callback' = [callback EXCEPT ![k] = c]
             /\ tickCounter' = [tickCounter EXCEPT ![k] = Interval[c] + TIM_CNT]
             /\ \/ callback[k] = c
                \/ callback[k] = NULL /\ \A m \in Handles : callback[m] # c
  <2>1. PICK f \in Handles :
          /\ HandleFor(c) # {}
          /\ callback' = [callback EXCEPT ![f] = c]
          /\ callback[f] = c \/ callback[f] = NULL
    BY <1>4
  <2>2. wanted' = wanted \cup {c} /\ struck' = struck \cup About(c)
    BY <2>1
  <2>3. \A k \in Handles : callback'[k] = IF k = f THEN c ELSE callback[k]
    BY <2>1 DEF IInv, TypeOK
  <2>4. /\ \A h \in Handles : callback'[h] # NULL => callback'[h] \in wanted'
        /\ \A h, k \in Handles : callback'[h] = callback'[k] /\ callback'[h] # NULL => h = k
    <3>1. \A h \in Handles : callback[h] # NULL => callback[h] \in wanted'
      BY <2>2 DEF HandlesAreWanted
    <3>. QED  BY <2>2, <3>1, FillIsWanted
  <2>5. ASSUME NEW y \in Contexts, pc'[y] = "expired", y \notin struck'
        PROVE  callback'[i'[y]] # NULL
    <3>1. pc[y] = "expired" /\ y \notin struck
      BY <1>1, <2>2, <2>5
    <3>2. i[y] \in Handles /\ callback[i[y]] # NULL
      BY <3>1, AtHandle DEF HandlesAreWanted
    <3>. QED  BY <1>2, <2>3, <3>2
  <2>6. ASSUME NEW y \in Contexts, pc'[y] = "call", y \notin struck'
        PROVE  /\ client'[y] \in wanted'
               /\ client'[y] \in OneShot => \A h \in Handles : callback'[h] # client'[y]
               /\ client'[y] \notin OneShot => callback'[i'[y]] = client'[y]
    <3>1. pc[y] = "call" /\ y \notin struck /\ client[y] # c
      BY <1>1, <2>2, <2>6 DEF About
    <3>2. /\ client[y] \in wanted
          /\ client[y] \in OneShot => \A h \in Handles : callback[h] # client[y]
          /\ client[y] \notin OneShot => callback[i[y]] = client[y]
      BY <3>1 DEF HandlesAreWanted
    <3>3. i[y] \in Handles /\ client[y] # NULL
      BY <3>1, <3>2, AtHandle, TimerAssumption DEF IInv, TypeOK
    <3>. QED  BY <1>2, <2>1, <2>2, <2>3, <3>1, <3>2, <3>3
  <2>. QED  BY <2>4, <2>5, <2>6 DEF HandlesAreWanted
<1>. QED  BY <1>3, <1>4, FillEffect

\* A client that is unregistered is struck from its handle.
LEMMA UnRegisterWanted ==
  ASSUME IInv, HandlesAreWanted, NEW x \in Contexts, NEW c \in Clients,
         UnRegisterFromTimer(x, c)
  PROVE  HandlesAreWanted'
<1> USE DEF UnRegisterFromTimer
<1>1. UNCHANGED <<pc, i, client>> /\ c # NULL
  BY TimerAssumption DEF localVars
<1>2. \A k \in Handles : callback'[k] = IF callback[k] = c THEN NULL ELSE callback[k]
  OBVIOUS
<1>3. wanted' = wanted \ {c} /\ struck' = struck \cup About(c)
  OBVIOUS
<1>4. \A h \in Handles : callback'[h] # NULL => callback'[h] \in wanted'
  BY <1>2, <1>3 DEF HandlesAreWanted
<1>5. \A h, k \in Handles : callback'[h] = callback'[k] /\ callback'[h] # NULL => h = k
  BY <1>2 DEF HandlesAreWanted
<1>6. ASSUME NEW y \in Contexts, pc'[y] = "expired", y \notin struck'
      PROVE  callback'[i'[y]] # NULL
  <2>1. /\ pc[y] = "expired" /\ y \notin struck /\ callback[i[y]] # c
        /\ i[y] \in Handles /\ callback[i[y]] # NULL
    BY <1>1, <1>3, <1>6, AtHandle DEF About, HandlesAreWanted
  <2>. QED  BY <1>1, <1>2, <2>1
<1>7. ASSUME NEW y \in Contexts, pc'[y] = "call", y \notin struck'
      PROVE  /\ client'[y] \in wanted'
             /\ client'[y] \in OneShot => \A h \in Handles : callback'[h] # client'[y]
             /\ client'[y] \notin OneShot => callback'[i'[y]] = client'[y]
  <2>1. pc[y] = "call" /\ y \notin struck /\ client[y] # c /\ i[y] \in Handles
    BY <1>1, <1>3, <1>7, AtHandle DEF About
  <2>2. /\ client[y] \in wanted
        /\ client[y] \in OneShot => \A h \in Handles : callback[h] # client[y]
        /\ client[y] \notin OneShot => callback[i[y]] = client[y]
    BY <2>1 DEF HandlesAreWanted
  <2>3. client[y] # NULL
    BY <2>2, TimerAssumption DEF IInv, TypeOK
  <2>. QED  BY <1>1, <1>2, <1>3, <2>1, <2>2, <2>3
<1>. QED  BY <1>4, <1>5, <1>6, <1>7 DEF HandlesAreWanted

\* A handle whose time has come is taken to be called.
LEMMA ScanWanted ==
  ASSUME IInv, HandlesAreWanted, NEW x \in Contexts, Scan(x)
  PROVE  HandlesAreWanted'
<1> USE DEF Scan
<1>1. UNCHANGED <<callback, client, wanted, struck>>
  BY DEF historyVars
<1>2. \A y \in Contexts : y # x => i'[y] = i[y] /\ pc'[y] = pc[y]
  BY DEF IInv, TypeOK
<1>3. pc'[x] # "call" /\ (pc'[x] = "expired" => callback'[i'[x]] # NULL)
  BY <1>1 DEF IInv, TypeOK
<1>. QED  BY <1>1, <1>2, <1>3 DEF HandlesAreWanted

\* The client's handle is read again: it is the same client, unless it has been
\* struck.
LEMMA ExpireWanted ==
  ASSUME IInv, HandlesAreWanted, NEW x \in Contexts, Expire(x)
  PROVE  HandlesAreWanted'
<1> USE DEF Expire
<1> DEFINE h == i[x]
           c == callback[h]
<1>1. h \in Handles
  BY AtHandle
<1>2. UNCHANGED <<wanted, struck, i>> /\ client'[x] = c
  BY DEF historyVars, IInv, TypeOK
<1>3. \A y \in Contexts : pc'[y] \in {"expired", "call"} => y = x /\ pc'[y] = "call"
  BY DEF IInv, TypeOK, LoopOK, InLoop
<1>4. /\ c \in Clients /\ c \notin OneShot => callback' = callback
      /\ c \notin Clients \/ c \in OneShot => callback'[h] = NULL
      /\ \A k \in Handles : k # h => callback'[k] = callback[k]
  BY <1>1 DEF IInv, TypeOK
<1>5. \A k \in Handles : callback'[k] # NULL => callback'[k] = callback[k]
  BY <1>4
<1>6. ASSUME x \notin struck
      PROVE  /\ c \in wanted
             /\ c \in OneShot => \A k \in Handles : callback'[k] # c
             /\ c \notin OneShot => callback'[h] = c
  <2>1. c # NULL /\ c \in wanted /\ c \in Clients
    BY <1>1, <1>6, CounterTypes DEF HandlesAreWanted
  <2>2. \A k \in Handles : k # h => callback[k] # c
    BY <1>1, <2>1 DEF HandlesAreWanted
  <2>. QED  BY <1>4, <2>1, <2>2
<1>7. \A k \in Handles : callback'[k] # NULL => callback'[k] \in wanted'
  BY <1>2, <1>5 DEF HandlesAreWanted
<1>8. \A k, m \in Handles : callback'[k] = callback'[m] /\ callback'[k] # NULL => k = m
  BY <1>5 DEF HandlesAreWanted
<1>. QED  BY <1>2, <1>3, <1>6, <1>7, <1>8 DEF HandlesAreWanted

\* The client that is called is no longer wanted, if it is a one shot, and its
\* handle is gone; whom it registers is.
LEMMA CallWanted ==
  ASSUME IInv, HandlesAreWanted, NEW x \in Contexts, Call(x)
  PROVE  HandlesAreWanted'
<1> USE DEF Call
<1> DEFINE c == client[x]
           over == {d \in {c} \cap OneShot : x \notin struck \/ \A h \in Handles : callback[h] # d}
<1>1. c \in Clients
  BY DEF IInv, TypeOK
<1>2. PICK new \in {{}} \cup {{r} : r \in {q \in Registers[c] : HandleFor(q) # {}}} :
        /\ IF new = {} THEN UNCHANGED handleVars ELSE \A r \in new : Fill(r)
        /\ wanted' = (wanted \ over) \cup new
  OBVIOUS
<1>3. \A y \in Contexts : pc'[y] \notin {"expired", "call"}
  BY DEF IInv, TypeOK, LoopOK, InLoop
<1>4. ASSUME NEW k \in Handles, callback[k] # NULL
      PROVE  callback[k] \in wanted'
  <2>1. callback[k] \in wanted
    BY <1>4 DEF HandlesAreWanted
  <2>2. callback[k] \notin over
    BY DEF HandlesAreWanted
  <2>. QED  BY <1>2, <2>1, <2>2
<1>5. CASE new = {}
  <2>1. callback' = callback
    BY <1>2, <1>5 DEF handleVars
  <2>. QED  BY <1>3, <1>4, <2>1 DEF HandlesAreWanted
<1>6. CASE new # {}
  <2>1. PICK r \in Registers[c] : new = {r}
    BY <1>6
  <2>2. r \in Clients /\ Fill(r) /\ r \in wanted'
    BY <1>1, <1>2, <2>1, TimerAssumption
  <2>3. /\ \A k \in Handles : callback'[k] # NULL => callback'[k] \in wanted'
        /\ \A k, m \in Handles : callback'[k] = callback'[m] /\ callback'[k] # NULL => k = m
    BY <1>4, <2>2, FillIsWanted
  <2>. QED  BY <1>3, <2>3 DEF HandlesAreWanted
<1>. QED  BY <1>5, <1>6

\* The steps that leave the handles alone and lead to no call.
LEMMA OthersWanted ==
  ASSUME IInv, HandlesAreWanted, NEW x \in Contexts,
         Trigger \/ StartLoop(x) \/ NextHandle(x) \/ EndLoop(x) \/ SetupTimer(x)
  PROVE  HandlesAreWanted'
<1>1. UNCHANGED <<callback, wanted, struck>>
  BY DEF Trigger, StartLoop, NextHandle, EndLoop, SetupTimer, handleVars, historyVars
<1>2. Timer \in Contexts
  BY DEF Timer, Contexts
<1>3. ASSUME NEW y \in Contexts, pc'[y] \in {"expired", "call"}
      PROVE  pc[y] = pc'[y] /\ i'[y] = i[y] /\ client'[y] = client[y]
  <2>1. CASE Trigger
    BY <1>2, <1>3, <2>1 DEF Trigger, localVars, IInv, TypeOK
  <2>2. CASE StartLoop(x)
    BY <1>3, <2>2 DEF StartLoop, IInv, TypeOK
  <2>3. CASE NextHandle(x)
    BY <1>3, <2>3 DEF NextHandle, IInv, TypeOK
  <2>4. CASE EndLoop(x)
    BY <1>3, <2>4 DEF EndLoop, localVars, IInv, TypeOK
  <2>5. CASE SetupTimer(x)
    BY <1>3, <2>5 DEF SetupTimer, IInv, TypeOK
  <2>. QED  BY <2>1, <2>2, <2>3, <2>4, <2>5
<1>. QED  BY <1>1, <1>3 DEF HandlesAreWanted

\* Every step keeps HandlesAreWanted.
LEMMA NextWanted ==
  ASSUME IInv, HandlesAreWanted, [Next]_vars
  PROVE  HandlesAreWanted'
<1>1. CASE UNCHANGED <<callback, wanted, struck, pc, i, client>>
  BY <1>1 DEF HandlesAreWanted
<1>2. CASE Tick
  BY <1>1, <1>2 DEF Tick, handleVars, localVars
<1>3. CASE Trigger
  <2>1. Timer \in Contexts
    BY DEF Timer, Contexts
  <2>. QED  BY <1>3, <2>1, OthersWanted
<1>4. CASE \/ \E c \in FromMain : RegisterOnTimer(Main, c)
           \/ \E c \in FromInterrupts : RegisterOnTimer(Interrupt, c)
  BY <1>4, RegisterWanted, TimerAssumption DEF Contexts, Main, Interrupt
<1>5. CASE \E c \in Cancelled : UnRegisterFromTimer(Interrupt, c)
  BY <1>5, UnRegisterWanted, TimerAssumption DEF Contexts, Interrupt
<1>6. CASE \E x \in Contexts : Loop(x)
  BY <1>6, ScanWanted, ExpireWanted, CallWanted, OthersWanted DEF Loop
<1>7. CASE UNCHANGED vars
  BY <1>1, <1>7 DEF vars, handleVars, historyVars, localVars
<1>. QED  BY <1>2, <1>3, <1>4, <1>5, <1>6, <1>7 DEF Next
-----------------------------------------------------------------------------
\* The counters against the real time: CountersAreLate.

\* The handles at the start.
LEMMA InitLate == Init => CountersAreLate
<1> SUFFICES ASSUME Init PROVE CountersAreLate
  OBVIOUS
<1>1. \A h \in Handles : callback[h] # NULL => h = 0 /\ callback[h] \in AtStart
  BY DEF Init
<1>2. ASSUME NEW h \in Handles, callback[h] # NULL
      PROVE  SinceReset(h)
  <2>1. callback[h] \in AtStart /\ callback[h] \in Clients
    BY <1>1, <1>2, TimerAssumption
  <2>2. owed[callback[h]] = Interval[callback[h]] /\ Interval[callback[h]] \in Nat
    BY <2>1, TimerAssumption DEF Init
  <2>3. tickCounter[h] = Interval[callback[h]] /\ TIM_CNT = 0
    BY <1>2 DEF Init
  <2>. QED  BY <2>2, <2>3 DEF SinceReset
<1>3. \A c \in Clients : owed[c] <= Interval[c]
  BY TimerAssumption DEF Init
<1>. QED  BY <1>2, <1>3 DEF CountersAreLate, Init

\* While a context is in the loop, what has been subtracted has been subtracted
\* there.
LEMMA SubtractedInLoop ==
  ASSUME IInv, NEW x \in Contexts, pc[x] \in InLoop, NEW h \in Handles
  PROVE  Subtracted(h) <=> \/ h < i[x] /\ nextInterval[x] # NULL
                           \/ h = i[x] /\ pc[x] # "scan"
<1>1. isHandlingClients /\ \A y \in Contexts : pc[y] \in InLoop <=> y = x
  BY DEF IInv, LoopOK
<1>. QED  BY <1>1 DEF Subtracted

\* Time passes for the hardware and for the clients alike.
LEMMA TickLate ==
  ASSUME IInv, HandlesAreWanted, CountersAreLate, Tick
  PROVE  CountersAreLate'
<1> USE DEF Tick
<1>1. UNCHANGED <<callback, tickCounter, isHandlingClients, pc, i, nextInterval, client,
                  wanted, struck, rushed>>
  BY DEF handleVars, localVars
<1>2. ASSUME NEW c \in Clients
      PROVE  /\ owed'[c] \in Int /\ owed'[c] <= owed[c]
             /\ c \in wanted => owed'[c] <= -Interval[c] \/ owed'[c] = owed[c] - 1
  <2>1. owed[c] \in Int /\ Interval[c] \in Nat
    BY CounterTypes
  <2>. QED  BY <2>1
<1>3. \A c \in Clients : owed'[c] <= Interval[c]
  BY <1>2, CounterTypes DEF CountersAreLate
<1>4. ASSUME NEW h \in Handles, callback[h] # NULL, callback[h] \notin rushed
      PROVE  SinceReset(h)' \/ (FromNow(h)' /\ Subtracted(h)')
  <2>1. callback[h] \in Clients /\ callback[h] \in wanted
    BY <1>4, CounterTypes DEF HandlesAreWanted
  <2>2. /\ tickCounter[h] \in Int /\ TIM_CNT \in Nat
        /\ owed[callback[h]] \in Int /\ Interval[callback[h]] \in Nat
    BY <2>1, CounterTypes
  <2>3. CASE SinceReset(h)
    BY <1>1, <1>2, <2>1, <2>2, <2>3 DEF SinceReset
  <2>4. CASE FromNow(h) /\ Subtracted(h)
    <3>1. FromNow(h)'
      BY <1>1, <1>2, <2>1, <2>2, <2>4 DEF FromNow
    <3>2. Subtracted(h)'
      BY <1>1, <2>4 DEF Subtracted
    <3>. QED  BY <3>1, <3>2
  <2>. QED  BY <1>4, <2>3, <2>4 DEF CountersAreLate
<1>5. ASSUME NEW x \in Contexts, pc[x] = "call", x \notin struck
      PROVE  /\ client[x] \notin rushed => owed'[client[x]] <= 0
             /\ client[x] \notin OneShot \cup rushed =>
                  owed'[client[x]] + Interval[client[x]] <= tickCounter[i[x]]
  <2>1. client[x] \in Clients
    BY <1>5 DEF HandlesAreWanted, IInv, TypeOK
  <2>2. /\ owed[client[x]] \in Int /\ owed'[client[x]] \in Int /\ Interval[client[x]] \in Nat
        /\ owed'[client[x]] <= owed[client[x]]
    BY <1>2, <2>1, CounterTypes
  <2>3. tickCounter[i[x]] \in Int
    BY <1>5, AtHandle, CounterTypes
  <2>4. /\ client[x] \notin rushed => owed[client[x]] <= 0
        /\ client[x] \notin OneShot \cup rushed =>
             owed[client[x]] + Interval[client[x]] <= tickCounter[i[x]]
    BY <1>5 DEF CountersAreLate
  <2>5. client[x] \notin rushed => owed'[client[x]] <= 0
    BY <2>2, <2>4
  <2>6. ASSUME client[x] \notin OneShot \cup rushed
        PROVE  owed'[client[x]] + Interval[client[x]] <= tickCounter[i[x]]
    BY <2>2, <2>3, <2>4, <2>6
  <2>. QED  BY <2>5, <2>6
<1>6. \A x \in Contexts : pc[x] = "expired" /\ x \notin struck => tickCounter[i[x]] <= 0
  BY DEF CountersAreLate
<1>. QED  BY <1>1, <1>3, <1>4, <1>5, <1>6 DEF CountersAreLate

\* A client is registered for its whole interval, counting from the last reset.
LEMMA RegisterLate ==
  ASSUME IInv, HandlesAreWanted, CountersAreLate,
         NEW x \in Contexts, NEW c \in Clients, RegisterOnTimer(x, c)
  PROVE  CountersAreLate'
<1> USE DEF RegisterOnTimer
<1>1. \A y \in Contexts : pc'[y] = IF y = x THEN "start" ELSE pc[y]
  BY DEF IInv, TypeOK
<1>2. UNCHANGED <<i, client, nextInterval, TIM_CNT, isHandlingClients>> /\ c # NULL
  BY TimerAssumption DEF localVars, hwVars
<1>3. ASSUME NEW h \in Handles, Subtracted(h)
      PROVE  Subtracted(h)'
  <2>1. PICK y \in Contexts :
          \/ pc[y] = "setup" /\ ~isHandlingClients /\ nextInterval[y] # NULL
          \/ pc[y] \in InLoop /\ h < i[y] /\ nextInterval[y] # NULL
          \/ pc[y] \in InLoop \ {"scan"} /\ h = i[y]
    BY <1>3 DEF Subtracted
  <2>2. pc'[y] = pc[y]
    BY <1>1, <2>1 DEF CanEnter, InLoop
  <2>. QED  BY <1>2, <2>1, <2>2 DEF Subtracted
<1>4. CASE HandleFor(c) = {} /\ UNCHANGED <<callback, tickCounter>>
  <2>1. UNCHANGED <<owed, struck, rushed>>
    BY <1>4 DEF historyVars
  <2>2. \A h \in Handles : callback'[h] # NULL /\ callback'[h] \notin rushed' =>
          SinceReset(h)' \/ (FromNow(h)' /\ Subtracted(h)')
    BY <1>2, <1>3, <1>4, <2>1 DEF CountersAreLate, SinceReset, FromNow
  <2>3. \A y \in Contexts : pc'[y] \in {"expired", "call"} => pc[y] = pc'[y]
    BY <1>1
  <2>. QED  BY <1>2, <1>4, <2>1, <2>2, <2>3 DEF CountersAreLate
<1>5. CASE \E k \in Handles :
             /\ HandleFor(c) # {}
             /\ callback' = [callback EXCEPT ![k] = c]
             /\ tickCounter' = [tickCounter EXCEPT ![k] = Interval[c] + TIM_CNT]
             /\ \/ callback[k] = c
                \/ callback[k] = NULL /\ \A m \in Handles : callback[m] # c
  <2>1. PICK f \in Handles :
          /\ HandleFor(c) # {}
          /\ callback' = [callback EXCEPT ![f] = c]
          /\ tickCounter' = [tickCounter EXCEPT ![f] = Interval[c] + TIM_CNT]
          /\ callback[f] = c \/ (callback[f] = NULL /\ \A m \in Handles : callback[m] # c)
    BY <1>5
  <2>2. /\ struck' = struck \cup About(c) /\ rushed' = rushed \ {c}
        /\ \A d \in Clients : owed'[d] = IF d = c THEN Interval[c] ELSE owed[d]
    BY <2>1 DEF IInv, TypeOK
  <2>3. \A k \in Handles : /\ callback'[k] = IF k = f THEN c ELSE callback[k]
                           /\ tickCounter'[k] = IF k = f THEN Interval[c] + TIM_CNT ELSE tickCounter[k]
    BY <2>1 DEF IInv, TypeOK
  <2>4. \A k \in Handles : k # f => callback[k] # c
    BY <1>2, <2>1 DEF HandlesAreWanted
  <2>5. \A d \in Clients : owed'[d] <= Interval[d]
    BY <2>2, CounterTypes DEF CountersAreLate
  <2>6. ASSUME NEW h \in Handles, callback'[h] # NULL, callback'[h] \notin rushed'
        PROVE  SinceReset(h)' \/ (FromNow(h)' /\ Subtracted(h)')
    <3>1. CASE h = f
      <4>1. callback'[h] = c /\ tickCounter'[h] = Interval[c] + TIM_CNT /\ owed'[c] = Interval[c]
        BY <2>2, <2>3, <3>1
      <4>2. Interval[c] \in Nat /\ TIM_CNT \in Nat
        BY CounterTypes
      <4>. QED  BY <1>2, <4>1, <4>2 DEF SinceReset
    <3>2. CASE h # f
      <4>1. /\ callback'[h] = callback[h] /\ tickCounter'[h] = tickCounter[h]
            /\ callback[h] # c /\ callback[h] \in Clients /\ callback[h] \notin rushed
        BY <2>2, <2>3, <2>4, <2>6, <3>2, CounterTypes
      <4>2. owed'[callback[h]] = owed[callback[h]]
        BY <2>2, <4>1
      <4>3. SinceReset(h) \/ (FromNow(h) /\ Subtracted(h))
        BY <2>6, <4>1 DEF CountersAreLate
      <4>. QED  BY <1>2, <1>3, <4>1, <4>2, <4>3 DEF SinceReset, FromNow
    <3>. QED  BY <3>1, <3>2
  <2>7. ASSUME NEW y \in Contexts, pc'[y] = "expired", y \notin struck'
        PROVE  tickCounter'[i'[y]] <= 0
    <3>1. pc[y] = "expired" /\ y \notin struck /\ callback[i[y]] # c
      BY <1>1, <2>2, <2>7 DEF About
    <3>2. i[y] \in Handles /\ callback[i[y]] # NULL /\ tickCounter[i[y]] <= 0
      BY <3>1, AtHandle DEF HandlesAreWanted, CountersAreLate
    <3>3. i[y] # f
      BY <2>1, <3>1, <3>2
    <3>. QED  BY <1>2, <2>3, <3>2, <3>3
  <2>8. ASSUME NEW y \in Contexts, pc'[y] = "call", y \notin struck'
        PROVE  /\ client'[y] \notin rushed' => owed'[client'[y]] <= 0
               /\ client'[y] \notin OneShot \cup rushed' =>
                    owed'[client'[y]] + Interval[client'[y]] <= tickCounter'[i'[y]]
    <3>1. pc[y] = "call" /\ y \notin struck /\ client[y] # c
      BY <1>1, <2>2, <2>8 DEF About
    <3>2. /\ client[y] \in wanted /\ client[y] \in Clients
          /\ client[y] \notin OneShot => callback[i[y]] = client[y]
      BY <3>1 DEF HandlesAreWanted, IInv, TypeOK
    <3>3. i[y] \in Handles /\ client[y] # NULL
      BY <3>1, <3>2, AtHandle, TimerAssumption
    <3>4. /\ owed'[client[y]] = owed[client[y]]
          /\ client[y] \notin rushed' => client[y] \notin rushed
      BY <2>2, <3>1, <3>2
    <3>5. client[y] \notin OneShot => tickCounter'[i[y]] = tickCounter[i[y]]
      BY <2>1, <2>3, <3>1, <3>2, <3>3
    <3>6. /\ client[y] \notin rushed => owed[client[y]] <= 0
          /\ client[y] \notin OneShot \cup rushed =>
               owed[client[y]] + Interval[client[y]] <= tickCounter[i[y]]
      BY <3>1 DEF CountersAreLate
    <3>. QED  BY <1>2, <3>4, <3>5, <3>6
  <2>. QED  BY <2>5, <2>6, <2>7, <2>8 DEF CountersAreLate
<1>. QED  BY <1>4, <1>5, FillEffect

\* A client is unregistered.
LEMMA UnRegisterLate ==
  ASSUME IInv, HandlesAreWanted, CountersAreLate,
         NEW x \in Contexts, NEW c \in Clients, UnRegisterFromTimer(x, c)
  PROVE  CountersAreLate'
<1> USE DEF UnRegisterFromTimer
<1>1. UNCHANGED <<pc, i, client, nextInterval, TIM_CNT, isHandlingClients>> /\ c # NULL
  BY TimerAssumption DEF localVars, hwVars
<1>2. \A k \in Handles : /\ callback'[k] = IF callback[k] = c THEN NULL ELSE callback[k]
                         /\ tickCounter'[k] = IF callback[k] = c THEN 0 ELSE tickCounter[k]
  OBVIOUS
<1>3. /\ struck' = struck \cup About(c) /\ rushed' = rushed \ {c}
      /\ \A d \in Clients : owed'[d] = IF d = c THEN 0 ELSE owed[d]
  BY DEF IInv, TypeOK
<1>4. \A d \in Clients : owed'[d] <= Interval[d]
  BY <1>3, CounterTypes DEF CountersAreLate
<1>5. ASSUME NEW h \in Handles, callback'[h] # NULL, callback'[h] \notin rushed'
      PROVE  SinceReset(h)' \/ (FromNow(h)' /\ Subtracted(h)')
  <2>1. /\ callback'[h] = callback[h] /\ tickCounter'[h] = tickCounter[h]
        /\ callback[h] # c /\ callback[h] \in Clients /\ callback[h] \notin rushed
    BY <1>2, <1>3, <1>5, CounterTypes
  <2>2. owed'[callback[h]] = owed[callback[h]]
    BY <1>3, <2>1
  <2>3. SinceReset(h) \/ (FromNow(h) /\ Subtracted(h))
    BY <1>5, <2>1 DEF CountersAreLate
  <2>. QED  BY <1>1, <2>1, <2>2, <2>3 DEF SinceReset, FromNow, Subtracted
<1>6. ASSUME NEW y \in Contexts, pc'[y] = "expired", y \notin struck'
      PROVE  tickCounter'[i'[y]] <= 0
  <2>1. pc[y] = "expired" /\ y \notin struck /\ callback[i[y]] # c /\ i[y] \in Handles
    BY <1>1, <1>3, <1>6, AtHandle DEF About
  <2>. QED  BY <1>1, <1>2, <2>1 DEF CountersAreLate
<1>7. ASSUME NEW y \in Contexts, pc'[y] = "call", y \notin struck'
      PROVE  /\ client'[y] \notin rushed' => owed'[client'[y]] <= 0
             /\ client'[y] \notin OneShot \cup rushed' =>
                  owed'[client'[y]] + Interval[client'[y]] <= tickCounter'[i'[y]]
  <2>1. pc[y] = "call" /\ y \notin struck /\ client[y] # c /\ i[y] \in Handles
    BY <1>1, <1>3, <1>7, AtHandle DEF About
  <2>2. /\ client[y] \in Clients
        /\ client[y] \notin OneShot => callback[i[y]] = client[y]
    BY <2>1 DEF HandlesAreWanted, IInv, TypeOK
  <2>3. /\ owed'[client[y]] = owed[client[y]]
        /\ client[y] \notin rushed' => client[y] \notin rushed
        /\ client[y] \notin OneShot => tickCounter'[i[y]] = tickCounter[i[y]]
    BY <1>2, <1>3, <2>1, <2>2
  <2>4. /\ client[y] \notin rushed => owed[client[y]] <= 0
        /\ client[y] \notin OneShot \cup rushed =>
             owed[client[y]] + Interval[client[y]] <= tickCounter[i[y]]
    BY <2>1 DEF CountersAreLate
  <2>. QED  BY <1>1, <2>3, <2>4
<1>. QED  BY <1>4, <1>5, <1>6, <1>7 DEF CountersAreLate

\* The timer interrupt is entered.
LEMMA TriggerLate ==
  ASSUME IInv, CountersAreLate, Trigger
  PROVE  CountersAreLate'
<1> USE DEF Trigger
<1>1. \A y \in Contexts : pc'[y] = IF y = Timer THEN "start" ELSE pc[y]
  BY DEF IInv, TypeOK
<1>2. UNCHANGED <<callback, tickCounter, i, nextInterval, client, TIM_CNT, isHandlingClients,
                  wanted, owed, struck, rushed>>
  BY DEF handleVars, localVars, historyVars
<1>3. pc[Timer] = "off"
  BY DEF CanEnter
<1>4. ASSUME NEW h \in Handles, Subtracted(h)
      PROVE  Subtracted(h)'
  <2>1. PICK y \in Contexts :
          \/ pc[y] = "setup" /\ ~isHandlingClients /\ nextInterval[y] # NULL
          \/ pc[y] \in InLoop /\ h < i[y] /\ nextInterval[y] # NULL
          \/ pc[y] \in InLoop \ {"scan"} /\ h = i[y]
    BY <1>4 DEF Subtracted
  <2>2. pc'[y] = pc[y]
    BY <1>1, <1>3, <2>1 DEF InLoop
  <2>. QED  BY <1>2, <2>1, <2>2 DEF Subtracted
<1>5. \A h \in Handles : callback'[h] # NULL /\ callback'[h] \notin rushed' =>
        SinceReset(h)' \/ (FromNow(h)' /\ Subtracted(h)')
  BY <1>2, <1>4 DEF CountersAreLate, SinceReset, FromNow
<1>6. \A y \in Contexts : pc'[y] \in {"expired", "call"} => pc[y] = pc'[y]
  BY <1>1
<1>. QED  BY <1>2, <1>5, <1>6 DEF CountersAreLate

\* A loop that starts before another one's time has been taken from the hardware
\* counter rushes every client; any other one finds nothing subtracted.
LEMMA StartLoopLate ==
  ASSUME IInv, Nested, CountersAreLate, NEW x \in Contexts, StartLoop(x)
  PROVE  CountersAreLate'
<1> USE DEF StartLoop
<1>1. UNCHANGED <<callback, tickCounter, TIM_CNT, client, owed, struck>>
  BY DEF handleVars, hwVars
<1>2. \A y \in Contexts : /\ y # x => pc'[y] = pc[y]
                          /\ nextInterval'[y] = IF y = x THEN NULL ELSE nextInterval[y]
  BY DEF IInv, TypeOK
<1>3. i[x] = 0 /\ pc'[x] \in {"setup", "scan"}
  BY DEF Nested, IInv, TypeOK
<1>4. \A y \in Contexts : i'[y] = i[y]
  BY <1>3 DEF IInv, TypeOK
<1>5. \A y \in Contexts : pc'[y] \in {"expired", "call"} => pc[y] = pc'[y]
  BY <1>2, <1>3
<1>6. CASE isHandlingClients
  <2>1. isHandlingClients' /\ rushed' = rushed
    BY <1>6
  <2>2. ASSUME NEW h \in Handles, Subtracted(h)
        PROVE  Subtracted(h)'
    <3>1. PICK y \in Contexts :
            \/ pc[y] \in InLoop /\ h < i[y] /\ nextInterval[y] # NULL
            \/ pc[y] \in InLoop \ {"scan"} /\ h = i[y]
      BY <1>6, <2>2 DEF Subtracted
    <3>2. y # x
      BY <3>1 DEF InLoop
    <3>. QED  BY <1>2, <1>4, <3>1, <3>2 DEF Subtracted
  <2>3. \A h \in Handles : callback'[h] # NULL /\ callback'[h] \notin rushed' =>
          SinceReset(h)' \/ (FromNow(h)' /\ Subtracted(h)')
    BY <1>1, <2>1, <2>2 DEF CountersAreLate, SinceReset, FromNow
  <2>. QED  BY <1>1, <1>4, <1>5, <2>1, <2>3 DEF CountersAreLate
<1>7. CASE ~isHandlingClients
  <2>1. \A y \in Contexts : pc[y] \notin InLoop
    BY <1>7 DEF IInv, LoopOK
  <2>2. \A y \in Contexts : pc'[y] \notin {"expired", "call"}
    BY <1>5, <2>1 DEF InLoop
  <2>3. ASSUME NEW h \in Handles, callback[h] # NULL, callback[h] \notin rushed'
        PROVE  SinceReset(h)'
    <3>1. callback[h] \in Waiting
      BY <2>3 DEF Waiting
    <3>2. \A k \in Handles : ~IsPassed(k)
      BY <1>7, <2>3, <3>1
    <3>3. ~Subtracted(h)
      <4>1. SUFFICES ASSUME NEW y \in Contexts, pc[y] = "setup", nextInterval[y] # NULL
                     PROVE  FALSE
        BY <2>1 DEF Subtracted
      <4>2. i[y] = MaxHandles
        BY <4>1 DEF Nested
      <4>3. 0 \in Handles /\ 0 < i[y]
        BY <4>2, TimerAssumption DEF Handles
      <4>. QED  BY <3>2, <4>3 DEF IsPassed
    <3>4. callback[h] \notin rushed
      BY <1>7, <2>3
    <3>5. SinceReset(h)
      BY <2>3, <3>3, <3>4 DEF CountersAreLate
    <3>. QED  BY <1>1, <3>5 DEF SinceReset
  <2>4. \A c \in Clients : owed'[c] <= Interval[c]
    BY <1>1 DEF CountersAreLate
  <2>. QED  BY <1>1, <2>2, <2>3, <2>4 DEF CountersAreLate
<1>. QED  BY <1>6, <1>7

\* The time that has passed is subtracted from the counter of a handle.
LEMMA ScanLate ==
  ASSUME IInv, Nested, HandlesAreWanted, CountersAreLate, NEW x \in Contexts, Scan(x)
  PROVE  CountersAreLate'
<1> USE DEF Scan
<1>1. pc[x] \in InLoop
  BY DEF InLoop
<1>2. i[x] \in Nat /\ i[x] \in Handles
  <2>1. i[x] \in Nat /\ MaxHandles \in Nat
    BY CounterTypes, TimerAssumption
  <2>. QED  BY <2>1 DEF Handles
<1>3. UNCHANGED <<callback, nextInterval, ticksElapsed, client, TIM_CNT, owed, struck, rushed>>
  BY DEF hwVars, historyVars
<1>4. \A y \in Contexts : y # x => pc'[y] \notin InLoop
  BY <1>1 DEF IInv, TypeOK, LoopOK
<1>5. \A h \in Handles : Subtracted(h) <=> h < i[x] /\ nextInterval[x] # NULL
  BY <1>1, SubtractedInLoop
<1>6. \A c \in Clients : owed'[c] <= Interval[c]
  BY <1>3 DEF CountersAreLate
<1>7. CASE callback[i[x]] = NULL
  <2>1. i'[x] = i[x] + 1 /\ pc' = pc /\ tickCounter' = tickCounter
    BY <1>7 DEF IInv, TypeOK
  <2>2. ASSUME NEW h \in Handles, callback'[h] # NULL, callback'[h] \notin rushed'
        PROVE  SinceReset(h)' \/ (FromNow(h)' /\ Subtracted(h)')
    <3>1. CASE SinceReset(h)
      BY <1>3, <2>1, <3>1 DEF SinceReset
    <3>2. CASE FromNow(h) /\ Subtracted(h)
      <4>1. FromNow(h)'
        BY <1>3, <2>1, <3>2 DEF FromNow
      <4>2. h < i[x] /\ nextInterval[x] # NULL /\ h \in Nat
        BY <1>5, <3>2, TimerAssumption DEF Handles
      <4>3. h < i'[x] /\ nextInterval'[x] # NULL
        BY <1>2, <1>3, <2>1, <4>2
      <4>. QED  BY <1>1, <2>1, <4>1, <4>3 DEF Subtracted
    <3>. QED  BY <1>3, <2>2, <3>1, <3>2 DEF CountersAreLate
  <2>3. \A y \in Contexts : pc'[y] \notin {"expired", "call"}
    BY <1>4, <2>1 DEF InLoop
  <2>. QED  BY <1>6, <2>2, <2>3 DEF CountersAreLate
<1>8. CASE callback[i[x]] # NULL
  <2> DEFINE h == i[x]
             c == callback[h]
  <2>1. /\ i' = i /\ tickCounter' = [tickCounter EXCEPT ![h] = @ - ticksElapsed[x]]
        /\ pc'[x] = IF tickCounter'[h] <= 0 THEN "expired" ELSE "after"
    BY <1>8 DEF IInv, TypeOK
  <2>2. /\ c \in Clients /\ owed[c] \in Int /\ Interval[c] \in Nat
        /\ tickCounter[h] \in Int /\ ticksElapsed[x] \in Nat /\ TIM_CNT \in Nat
    BY <1>2, <1>8, CounterTypes
  <2>3. ticksElapsed[x] <= TIM_CNT
    BY <1>1 DEF Nested
  <2>4. tickCounter'[h] = tickCounter[h] - ticksElapsed[x]
    BY <1>2, <2>1 DEF IInv, TypeOK
  <2>5. ASSUME NEW k \in Handles, callback[k] # NULL, callback[k] \notin rushed
        PROVE  SinceReset(k)' \/ (FromNow(k)' /\ Subtracted(k)')
    <3>1. CASE k = h
      <4>1. SinceReset(k)
        <5>1. ~Subtracted(k)
          BY <1>2, <1>5, <3>1
        <5>. QED  BY <2>5, <5>1 DEF CountersAreLate
      <4>2. owed[c] <= tickCounter[h] - TIM_CNT \/ owed[c] <= -Interval[c]
        BY <3>1, <4>1 DEF SinceReset
      <4>3. owed[c] <= tickCounter'[h] \/ owed[c] <= -Interval[c]
        BY <2>2, <2>3, <2>4, <4>2
      <4>4. FromNow(k)'
        BY <1>3, <3>1, <4>3 DEF FromNow
      <4>5. Subtracted(k)'
        BY <2>1, <3>1 DEF Subtracted, InLoop
      <4>. QED  BY <4>4, <4>5
    <3>2. CASE k # h
      <4>1. tickCounter'[k] = tickCounter[k]
        BY <2>1, <3>2 DEF IInv, TypeOK
      <4>2. CASE SinceReset(k)
        BY <1>3, <4>1, <4>2 DEF SinceReset
      <4>3. CASE FromNow(k) /\ Subtracted(k)
        <5>1. FromNow(k)'
          BY <1>3, <4>1, <4>3 DEF FromNow
        <5>2. k < i'[x] /\ nextInterval'[x] # NULL /\ pc'[x] \in InLoop
          BY <1>3, <1>5, <2>1, <4>3 DEF InLoop
        <5>. QED  BY <5>1, <5>2 DEF Subtracted
      <4>. QED  BY <2>5, <4>2, <4>3 DEF CountersAreLate
    <3>. QED  BY <3>1, <3>2
  <2>6. \A y \in Contexts : pc'[y] = "expired" => tickCounter'[i'[y]] <= 0
    BY <1>4, <2>1 DEF InLoop
  <2>7. \A y \in Contexts : pc'[y] # "call"
    BY <1>4, <2>1 DEF InLoop
  <2>. QED  BY <1>3, <1>6, <2>5, <2>6, <2>7 DEF CountersAreLate
<1>. QED  BY <1>7, <1>8

\* A periodic handle is rescheduled, from when it was due.
LEMMA ExpireLate ==
  ASSUME IInv, HandlesAreWanted, CountersAreLate, NEW x \in Contexts, Expire(x)
  PROVE  CountersAreLate'
<1> USE DEF Expire
<1> DEFINE h == i[x]
           c == callback[h]
<1>1. h \in Handles /\ pc[x] \in InLoop
  BY AtHandle DEF InLoop
<1>2. UNCHANGED <<i, nextInterval, TIM_CNT, owed, struck, rushed>>
  BY DEF hwVars, historyVars
<1>3. \A y \in Contexts : y # x => pc'[y] \notin InLoop
  BY <1>1 DEF IInv, TypeOK, LoopOK
<1>4. pc'[x] = "call" /\ client'[x] = c
  BY DEF IInv, TypeOK
<1>5. /\ c \in Clients /\ c \notin OneShot => callback'[h] = c
      /\ c \notin Clients \/ c \in OneShot => callback'[h] = NULL
      /\ \A k \in Handles : k # h => callback'[k] = callback[k] /\ tickCounter'[k] = tickCounter[k]
  BY <1>1 DEF IInv, TypeOK
<1>6. ASSUME c \in Clients, c \notin rushed
      PROVE  owed[c] <= tickCounter[h] \/ owed[c] <= -Interval[c]
  <2>1. c # NULL
    BY <1>6, TimerAssumption
  <2>2. FromNow(h)
    BY <1>1, <1>6, <2>1, SinceResetIsLess DEF CountersAreLate
  <2>. QED  BY <2>2 DEF FromNow
\* The counter of a periodic handle, and what its client is owed.
<1>7. ASSUME c \in Clients, c \notin OneShot, c \notin rushed
      PROVE  /\ owed[c] <= tickCounter'[h]
             /\ owed[c] <= 0 => owed[c] + Interval[c] <= tickCounter'[h]
  <2>1. owed[c] \in Int /\ Interval[c] \in Nat /\ tickCounter[h] \in Int /\ owed[c] <= Interval[c]
    BY <1>1, <1>7, CounterTypes DEF CountersAreLate
  <2>2. tickCounter'[h] = Min({Max({tickCounter[h] + Interval[c], 0}), Interval[c]})
    BY <1>1, <1>7 DEF IInv, TypeOK
  <2>3. PICK s \in Int : s = tickCounter[h] + Interval[c]
    BY <2>1
  <2>4. PICK m \in {s, 0} : m = Max({s, 0}) /\ m >= s /\ m >= 0
    BY 0 \in Int, MaxOfTwo
  <2>5. PICK d \in Nat : d = Interval[c]
    BY <2>1
  <2>6. m \in Int /\ d \in Int
    BY <2>4
  <2>7. PICK t \in {m, d} : t = Min({m, d})
    BY <2>6, MinOfTwo
  <2>8. tickCounter'[h] = t
    BY <2>2, <2>3, <2>4, <2>5, <2>7
  <2>9. owed[c] <= m /\ owed[c] <= d
    BY <1>6, <1>7, <2>1, <2>3, <2>4, <2>5
  <2>10. owed[c] <= 0 => owed[c] + d <= m /\ owed[c] + d <= d
    BY <1>6, <1>7, <2>1, <2>3, <2>4, <2>5
  <2>11. owed[c] <= t /\ (owed[c] <= 0 => owed[c] + d <= t)
    BY <2>7, <2>9, <2>10
  <2>. QED  BY <2>5, <2>8, <2>11
<1>8. ASSUME NEW k \in Handles, callback'[k] # NULL, callback'[k] \notin rushed'
      PROVE  SinceReset(k)' \/ (FromNow(k)' /\ Subtracted(k)')
  <2>1. CASE k = h
    <3>1. c \in Clients /\ c \notin OneShot /\ callback'[k] = c /\ c \notin rushed
      BY <1>2, <1>5, <1>8, <2>1
    <3>2. FromNow(k)'
      BY <1>2, <1>7, <2>1, <3>1 DEF FromNow
    <3>3. Subtracted(k)'
      BY <1>2, <1>4, <2>1 DEF Subtracted, InLoop
    <3>. QED  BY <3>2, <3>3
  <2>2. CASE k # h
    <3>1. callback'[k] = callback[k] /\ tickCounter'[k] = tickCounter[k]
      BY <1>5, <2>2
    <3>2. CASE SinceReset(k)
      BY <1>2, <3>1, <3>2 DEF SinceReset
    <3>3. CASE FromNow(k) /\ Subtracted(k)
      <4>1. FromNow(k)'
        BY <1>2, <3>1, <3>3 DEF FromNow
      <4>2. k < i[x] /\ nextInterval[x] # NULL
        BY <1>1, <2>2, <3>3, SubtractedInLoop
      <4>3. Subtracted(k)'
        BY <1>2, <1>4, <4>2 DEF Subtracted, InLoop
      <4>. QED  BY <4>1, <4>3
    <3>. QED  BY <1>2, <1>8, <3>1, <3>2, <3>3 DEF CountersAreLate
  <2>. QED  BY <2>1, <2>2
<1>9. ASSUME x \notin struck
      PROVE  /\ c \notin rushed => owed[c] <= 0
             /\ c \notin OneShot \cup rushed => owed[c] + Interval[c] <= tickCounter'[h]
  <2>1. c \in Clients /\ tickCounter[h] <= 0
    BY <1>1, <1>9, CounterTypes DEF HandlesAreWanted, CountersAreLate
  <2>2. owed[c] \in Int /\ Interval[c] \in Nat /\ tickCounter[h] \in Int
    BY <1>1, <2>1, CounterTypes
  <2>3. c \notin rushed => owed[c] <= 0
    BY <1>6, <2>1, <2>2
  <2>. QED  BY <1>7, <2>1, <2>3
<1>10. \A y \in Contexts : pc'[y] \in {"expired", "call"} => y = x /\ pc'[y] = "call"
  BY <1>3, <1>4 DEF InLoop
<1>11. \A d \in Clients : owed'[d] <= Interval[d]
  BY <1>2 DEF CountersAreLate
<1>. QED  BY <1>2, <1>4, <1>8, <1>9, <1>10, <1>11 DEF CountersAreLate
\* A client that is called again is owed its whole interval from when it was due,
\* or, if it has been rushed, no more than its counter promises.
LEMMA CallLate ==
  ASSUME IInv, HandlesAreWanted, CountersAreLate, NEW x \in Contexts, Call(x)
  PROVE  CountersAreLate'
<1> USE DEF Call
<1> DEFINE h == i[x]
           c == client[x]
           over == {d \in {c} \cap OneShot : x \notin struck \/ \A k \in Handles : callback[k] # d}
           anew == {d \in {c} \ OneShot : x \notin struck}
<1>1. h \in Handles /\ pc[x] \in InLoop /\ c \in Clients
  BY AtHandle DEF InLoop, IInv, TypeOK
<1>2. PICK new \in {{}} \cup {{r} : r \in {q \in Registers[c] : HandleFor(q) # {}}} :
        /\ IF new = {} THEN UNCHANGED handleVars ELSE \A r \in new : Fill(r)
        /\ owed' = [d \in Clients |->
                      IF d \in new THEN Interval[d]
                      ELSE IF d \in over THEN 0
                      ELSE IF d \notin anew THEN owed[d]
                      ELSE IF d \in rushed THEN Min({tickCounter[h], Interval[d]})
                      ELSE Min({owed[d], 0}) + Interval[d]]
        /\ rushed' = rushed \ (over \cup anew \cup new)
  OBVIOUS
<1>3. UNCHANGED <<i, nextInterval, TIM_CNT>>
  BY DEF localVars, hwVars
<1>4. pc'[x] = "after" /\ \A y \in Contexts : y # x => pc'[y] \notin InLoop
  BY <1>1 DEF IInv, TypeOK, LoopOK
<1>5. \A y \in Contexts : pc'[y] \notin {"expired", "call"}
  BY <1>4 DEF InLoop
<1>6. owed[c] \in Int /\ Interval[c] \in Nat /\ tickCounter[h] \in Int
  BY <1>1, CounterTypes
\* What a periodic client is owed after its call.
<1>7. ASSUME c \in anew, c \notin new
      PROVE  owed'[c] <= Interval[c] /\ owed'[c] <= tickCounter[h]
  <2>1. PICK o \in Int : o = owed[c]
    BY <1>6
  <2>2. PICK t \in Int : t = tickCounter[h]
    BY <1>6
  <2>3. PICK d \in Int : d = Interval[c]
    BY <1>6
  <2>4. CASE c \in rushed
    <3>1. owed'[c] = Min({t, d})
      BY <1>1, <1>2, <1>7, <2>2, <2>3, <2>4
    <3>2. PICK m \in {t, d} : m = Min({t, d}) /\ m <= t /\ m <= d
      BY MinOfTwo
    <3>. QED  BY <2>2, <2>3, <3>1, <3>2
  <2>5. CASE c \notin rushed
    <3>1. owed'[c] = Min({o, 0}) + d
      BY <1>1, <1>2, <1>7, <2>1, <2>3, <2>5
    <3>2. PICK m \in {o, 0} : m = Min({o, 0}) /\ m <= o /\ m <= 0
      BY 0 \in Int, MinOfTwo
    <3>3. o <= 0 /\ o + d <= t
      BY <1>7, <2>1, <2>2, <2>3, <2>5 DEF CountersAreLate
    <3>4. m = o
      BY <3>2, <3>3
    <3>. QED  BY <2>2, <2>3, <3>1, <3>2, <3>3, <3>4
  <2>. QED  BY <2>4, <2>5
<1>8. ASSUME NEW d \in Clients
      PROVE  owed'[d] <= Interval[d]
  <2>1. Interval[d] \in Nat /\ owed[d] <= Interval[d]
    BY CounterTypes DEF CountersAreLate
  <2>2. CASE d \in new
    <3>1. owed'[d] = Interval[d]
      <4> HIDE DEF over, anew
      <4>. QED  BY <1>2, <2>2
    <3>. QED  BY <2>1, <3>1
  <2>3. CASE d \notin new /\ d \in over
    BY <1>2, <2>1, <2>3
  <2>4. CASE d \notin new /\ d \notin over /\ d \notin anew
    <3> HIDE DEF over, anew
    <3>. QED  BY <1>2, <2>1, <2>4
  <2>5. CASE d \in anew /\ d \notin new
    BY <1>7, <2>5
  <2>. QED  BY <2>2, <2>3, <2>4, <2>5
\* A handle that keeps its client and its counter through the call.
<1>9. ASSUME NEW k \in Handles, callback[k] # NULL, callback[k] \notin new,
             callback[k] \notin rushed',
             callback'[k] = callback[k], tickCounter'[k] = tickCounter[k]
      PROVE  SinceReset(k)' \/ (FromNow(k)' /\ Subtracted(k)')
  <2>1. callback[k] \in Clients
    BY <1>9, CounterTypes
  <2>2. callback[k] \notin over
    BY DEF HandlesAreWanted
  <2>3. CASE callback[k] \in anew
    <3>1. callback[k] = c /\ callback[h] = c
      BY <2>3 DEF HandlesAreWanted
    <3>2. k = h
      BY <1>1, <1>9, <3>1 DEF HandlesAreWanted
    <3>3. owed'[c] <= tickCounter'[k]
      BY <1>7, <1>9, <2>3, <3>1, <3>2
    <3>4. FromNow(k)'
      BY <1>9, <3>1, <3>3 DEF FromNow
    <3>5. Subtracted(k)'
      BY <1>3, <1>4, <3>2 DEF Subtracted, InLoop
    <3>. QED  BY <3>4, <3>5
  <2>4. CASE callback[k] \notin anew
    <3>1. owed'[callback[k]] = owed[callback[k]] /\ callback[k] \notin rushed
      BY <1>2, <1>9, <2>1, <2>2, <2>4
    <3>2. CASE SinceReset(k)
      BY <1>3, <1>9, <3>1, <3>2 DEF SinceReset
    <3>3. CASE FromNow(k) /\ Subtracted(k)
      <4>1. FromNow(k)'
        BY <1>9, <3>1, <3>3 DEF FromNow
      <4>2. \/ k < i[x] /\ nextInterval[x] # NULL
            \/ k = i[x]
        BY <1>1, <3>3, SubtractedInLoop
      <4>3. Subtracted(k)'
        BY <1>3, <1>4, <4>2 DEF Subtracted, InLoop
      <4>. QED  BY <4>1, <4>3
    <3>. QED  BY <1>9, <3>1, <3>2, <3>3 DEF CountersAreLate
  <2>. QED  BY <2>3, <2>4
<1>10. ASSUME NEW k \in Handles, callback'[k] # NULL, callback'[k] \notin rushed'
       PROVE  SinceReset(k)' \/ (FromNow(k)' /\ Subtracted(k)')
  <2>1. CASE new = {}
    <3>1. UNCHANGED <<callback, tickCounter>>
      BY <1>2, <2>1 DEF handleVars
    <3>. QED  BY <1>9, <1>10, <2>1, <3>1
  <2>2. CASE new # {}
    <3>1. PICK r \in Registers[c] : new = {r} /\ HandleFor(r) # {}
      BY <2>2
    <3>2. r \in Clients /\ Fill(r) /\ r # NULL
      BY <1>1, <1>2, <2>2, <3>1, TimerAssumption
    <3>3. PICK f \in Handles :
            /\ callback' = [callback EXCEPT ![f] = r]
            /\ tickCounter' = [tickCounter EXCEPT ![f] = Interval[r] + TIM_CNT]
            /\ callback[f] = r \/ (callback[f] = NULL /\ \A m \in Handles : callback[m] # r)
      BY <3>1, <3>2, FillEffect
    <3>4. CASE k = f
      <4>1. callback'[f] = r /\ tickCounter'[f] = Interval[r] + TIM_CNT /\ owed'[r] = Interval[r]
        BY <1>2, <3>1, <3>2, <3>3 DEF IInv, TypeOK
      <4>2. Interval[r] \in Nat /\ TIM_CNT \in Nat
        BY <3>2, CounterTypes
      <4>3. owed'[r] <= tickCounter'[f] - TIM_CNT
        BY <4>1, <4>2
      <4>. QED  BY <1>3, <3>4, <4>1, <4>3 DEF SinceReset
    <3>5. CASE k # f
      <4>1. callback'[k] = callback[k] /\ tickCounter'[k] = tickCounter[k]
        BY <3>3, <3>5 DEF IInv, TypeOK
      <4>2. callback[k] # r
        BY <1>10, <3>2, <3>3, <3>5, <4>1 DEF HandlesAreWanted
      <4>. QED  BY <1>9, <1>10, <3>1, <4>1, <4>2
    <3>. QED  BY <3>4, <3>5
  <2>. QED  BY <2>1, <2>2
<1>. QED  BY <1>5, <1>8, <1>10 DEF CountersAreLate

\* A handle has been gone through.
LEMMA NextHandleLate ==
  ASSUME IInv, CountersAreLate, NEW x \in Contexts, NextHandle(x)
  PROVE  CountersAreLate'
<1> USE DEF NextHandle
<1>1. UNCHANGED <<callback, tickCounter, client, TIM_CNT, owed, struck, rushed>>
  BY DEF handleVars, hwVars, historyVars
<1>2. pc[x] \in InLoop
  BY DEF InLoop
<1>3. pc'[x] = "scan" /\ \A y \in Contexts : y # x => pc'[y] \notin InLoop
  BY <1>2 DEF IInv, TypeOK, LoopOK
<1>4. ASSUME NEW k \in Handles, callback[k] # NULL, callback[k] \notin rushed
      PROVE  SinceReset(k)' \/ (FromNow(k)' /\ Subtracted(k)')
  <2>1. CASE SinceReset(k)
    BY <1>1, <2>1 DEF SinceReset
  <2>2. CASE FromNow(k) /\ Subtracted(k)
    <3>1. FromNow(k)'
      BY <1>1, <2>2 DEF FromNow
    <3>2. \/ k < i[x] /\ nextInterval[x] # NULL
          \/ k = i[x]
      BY <1>2, <2>2, SubtractedInLoop
    <3>3. k \in Int /\ i[x] \in Int
      BY CounterTypes, TimerAssumption DEF Handles
    <3>4. k < i'[x]
      <4>1. i'[x] = i[x] + 1
        BY NextIsSet
      <4>. QED  BY <3>2, <3>3, <4>1
    <3>5. nextInterval'[x] # NULL
      BY <1>4, <3>2, NextIsSet
    <3>. QED  BY <1>3, <3>1, <3>4, <3>5 DEF Subtracted, InLoop
  <2>. QED  BY <1>4, <2>1, <2>2 DEF CountersAreLate
<1>5. \A y \in Contexts : pc'[y] \notin {"expired", "call"}
  BY <1>3 DEF InLoop
<1>6. \A c \in Clients : owed'[c] <= Interval[c]
  BY <1>1 DEF CountersAreLate
<1>. QED  BY <1>1, <1>4, <1>5, <1>6 DEF CountersAreLate

\* The loop is left: the hardware counter will be reset, if anybody waits.
LEMMA EndLoopLate ==
  ASSUME IInv, CountersAreLate, NEW x \in Contexts, EndLoop(x)
  PROVE  CountersAreLate'
<1> USE DEF EndLoop
<1>1. UNCHANGED <<callback, tickCounter, i, nextInterval, client, TIM_CNT, owed, struck, rushed>>
  BY DEF handleVars, hwVars, localVars, historyVars
<1>2. pc[x] \in InLoop
  BY DEF InLoop
<1>3. pc'[x] = "setup" /\ \A y \in Contexts : y # x => pc'[y] \notin InLoop
  BY <1>2 DEF IInv, TypeOK, LoopOK
<1>4. ASSUME NEW k \in Handles, callback[k] # NULL, callback[k] \notin rushed
      PROVE  SinceReset(k)' \/ (FromNow(k)' /\ Subtracted(k)')
  <2>1. CASE SinceReset(k)
    BY <1>1, <2>1 DEF SinceReset
  <2>2. CASE FromNow(k) /\ Subtracted(k)
    <3>1. FromNow(k)'
      BY <1>1, <2>2 DEF FromNow
    <3>2. nextInterval[x] # NULL
      BY <1>2, <2>2, SubtractedInLoop
    <3>. QED  BY <1>1, <1>3, <3>1, <3>2 DEF Subtracted
  <2>. QED  BY <1>4, <2>1, <2>2 DEF CountersAreLate
<1>5. \A y \in Contexts : pc'[y] \notin {"expired", "call"}
  BY <1>3 DEF InLoop
<1>6. \A c \in Clients : owed'[c] <= Interval[c]
  BY <1>1 DEF CountersAreLate
<1>. QED  BY <1>1, <1>4, <1>5, <1>6 DEF CountersAreLate

\* The hardware counter starts again from the time that has been subtracted.
LEMMA SetupTimerLate ==
  ASSUME IInv, Nested, CountersAreLate, NEW x \in Contexts, SetupTimer(x)
  PROVE  CountersAreLate'
<1> USE DEF SetupTimer
<1>1. UNCHANGED <<callback, tickCounter, isHandlingClients, wanted, owed, struck, rushed>>
  BY DEF handleVars, historyVars
<1>2. \A y \in Contexts : y # x => /\ pc'[y] = pc[y] /\ i'[y] = i[y] /\ client'[y] = client[y]
                                   /\ nextInterval'[y] = nextInterval[y]
  BY DEF IInv, TypeOK
<1>3. pc'[x] = "off"
  BY DEF IInv, TypeOK
<1>4. ASSUME NEW k \in Handles, callback[k] # NULL, callback[k] \notin rushed
      PROVE  SinceReset(k)' \/ (FromNow(k)' /\ Subtracted(k)')
  <2>1. FromNow(k)
    BY <1>4, SinceResetIsLess DEF CountersAreLate
  <2>2. CASE nextInterval[x] # NULL
    <3>1. TIM_CNT' = 0
      BY <2>2
    <3>2. tickCounter[k] \in Int
      BY CounterTypes
    <3>3. tickCounter[k] - 0 = tickCounter[k]
      BY <3>2
    <3>. QED  BY <1>1, <2>1, <3>1, <3>3 DEF SinceReset, FromNow
  <2>3. CASE nextInterval[x] = NULL
    <3>1. TIM_CNT' = TIM_CNT
      BY <2>3
    <3>2. CASE SinceReset(k)
      BY <1>1, <3>1, <3>2 DEF SinceReset
    <3>3. CASE Subtracted(k)
      <4>1. PICK y \in Contexts :
              \/ pc[y] = "setup" /\ ~isHandlingClients /\ nextInterval[y] # NULL
              \/ pc[y] \in InLoop /\ k < i[y] /\ nextInterval[y] # NULL
              \/ pc[y] \in InLoop \ {"scan"} /\ k = i[y]
        BY <3>3 DEF Subtracted
      <4>2. y # x
        BY <2>3, <4>1 DEF InLoop
      <4>3. Subtracted(k)'
        BY <1>1, <1>2, <4>1, <4>2 DEF Subtracted
      <4>4. FromNow(k)'
        BY <1>1, <2>1 DEF FromNow
      <4>. QED  BY <4>3, <4>4
    <3>. QED  BY <1>4, <3>2, <3>3 DEF CountersAreLate
  <2>. QED  BY <2>2, <2>3
<1>5. \A y \in Contexts : pc'[y] \in {"expired", "call"} => y # x /\ pc[y] = pc'[y]
  BY <1>2, <1>3
<1>6. \A c \in Clients : owed'[c] <= Interval[c]
  BY <1>1 DEF CountersAreLate
<1>7. \A y \in Contexts : pc'[y] = "expired" /\ y \notin struck' => tickCounter'[i'[y]] <= 0
  BY <1>1, <1>2, <1>5 DEF CountersAreLate
<1>8. \A y \in Contexts :
        pc'[y] = "call" /\ y \notin struck' =>
          /\ client'[y] \notin rushed' => owed'[client'[y]] <= 0
          /\ client'[y] \notin OneShot \cup rushed' =>
               owed'[client'[y]] + Interval[client'[y]] <= tickCounter'[i'[y]]
  BY <1>1, <1>2, <1>5 DEF CountersAreLate
<1>. QED  BY <1>1, <1>4, <1>6, <1>7, <1>8 DEF CountersAreLate

\* Every step keeps CountersAreLate.
LEMMA NextLate ==
  ASSUME IInv, Nested, HandlesAreWanted, CountersAreLate, [Next]_vars
  PROVE  CountersAreLate'
<1>1. CASE Tick
  BY <1>1, TickLate
<1>2. CASE Trigger
  BY <1>2, TriggerLate
<1>3. CASE \/ \E c \in FromMain : RegisterOnTimer(Main, c)
           \/ \E c \in FromInterrupts : RegisterOnTimer(Interrupt, c)
  BY <1>3, RegisterLate, TimerAssumption DEF Contexts, Main, Interrupt
<1>4. CASE \E c \in Cancelled : UnRegisterFromTimer(Interrupt, c)
  BY <1>4, UnRegisterLate, TimerAssumption DEF Contexts, Interrupt
<1>5. CASE \E x \in Contexts : Loop(x)
  BY <1>5, StartLoopLate, ScanLate, ExpireLate, CallLate, NextHandleLate, EndLoopLate,
     SetupTimerLate DEF Loop
<1>6. CASE UNCHANGED vars
  <2>1. UNCHANGED <<callback, tickCounter, isHandlingClients, TIM_CNT, pc, i, nextInterval,
                    client, owed, struck, rushed>>
    BY <1>6 DEF vars, handleVars, hwVars, localVars, historyVars
  <2>. QED  BY <2>1 DEF CountersAreLate, SinceReset, FromNow, Subtracted
<1>. QED  BY <1>1, <1>2, <1>3, <1>4, <1>5, <1>6 DEF Next
-----------------------------------------------------------------------------
\* The hardware and the handles: LeastIsNext and WokenForAll.

\* The start: the hardware has been set up for the client that is registered.
LEMMA InitWoken == Init => LeastIsNext /\ WokenForAll
<1> SUFFICES ASSUME Init PROVE LeastIsNext /\ WokenForAll
  OBVIOUS
<1>1. LeastIsNext
  BY NoneBeforeFirst DEF LeastIsNext, Init, InLoop
<1>2. ASSUME NEW h \in Handles, callback[h] # NULL
      PROVE  /\ enabled /\ TIM_CNT < TIM_CCR1
             /\ TIM_CCR1 <= Max({tickCounter[h], MinOnTrigger, MinOnRegister})
  <2>1. h = 0 /\ AtStart # {}
    BY <1>2 DEF Init
  <2>2. PICK t \in Int : t = tickCounter[h]
    BY InitIInv, CounterTypes
  <2>3. /\ 0 < Max({t, MinOnRegister})
        /\ Max({t, MinOnRegister}) <= Max({t, MinOnTrigger, MinOnRegister})
    <3>1. t <= t /\ MinOnRegister \in {MinOnRegister, MinOnTrigger}
      OBVIOUS
    <3>. QED  BY <3>1, SetUpForAll
  <2>. QED  BY <2>1, <2>2, <2>3 DEF Init
<1>. QED  BY <1>1, <1>2 DEF WokenForAll

\* A handle has been passed when a context is beyond it.
LEMMA PassedIsBeyond ==
  ASSUME IInv, NEW y \in Contexts
  PROVE  \A h \in Handles : h < i[y] => i[y] > 0
<1>1. \A h \in Handles : h \in Nat
  BY DEF Handles
<1>. QED  BY <1>1, CounterTypes

\* A context that has been over handles, and is not in the loop, has been over all
\* of them and is about to set up the hardware.
LEMMA BeyondIsSetup ==
  ASSUME IInv, Nested, NEW y \in Contexts, i[y] > 0, pc[y] \notin InLoop
  PROVE  pc[y] = "setup" /\ i[y] = MaxHandles
<1>1. ~(0 > 0)
  OBVIOUS
<1>2. pc[y] \notin {"off", "start"} /\ i[y] # 0
  BY <1>1 DEF Nested
<1>3. pc[y] = "setup"
  BY <1>2 DEF IInv, TypeOK, InLoop
<1>. QED  BY <1>2, <1>3 DEF Nested

\* When somebody is about to set up the hardware below a context that is in the
\* loop, it has been over all handles.
LEMMA SetupIsBeyond ==
  ASSUME IInv, Nested, NEW y \in Contexts, NEW z \in Contexts,
         pc[y] = "setup", y < z, pc[z] \in InLoop
  PROVE  i[y] = MaxHandles /\ i[y] > 0
<1>1. \A w \in Contexts : pc[w] \in InLoop => ~(w < y)
  BY DEF IInv, LoopOK, Contexts
<1>2. i[y] = MaxHandles
  BY <1>1 DEF Nested
<1>. QED  BY <1>2, TimerAssumption

\* Of two contexts that have been over handles one has been over all.
LEMMA OneHasPassedAll ==
  ASSUME IInv, Nested, NEW y \in Contexts, NEW z \in Contexts, y < z, i[y] > 0, i[z] > 0
  PROVE  i[y] = MaxHandles
<1>1. pc[y] \notin InLoop
  <2>1. ~(0 > 0)
    OBVIOUS
  <2>. QED  BY <2>1 DEF Nested
<1>. QED  BY <1>1, BeyondIsSetup

\* A step from one place in the loop to another.
LEMMA StepKeepsLeast ==
  ASSUME IInv, Nested, LeastIsNext, NEW x \in Contexts, NEW where \in InLoop,
         Runs(x), pc[x] \in InLoop, pc' = [pc EXCEPT ![x] = where],
         \A y \in Contexts : y # x => i'[y] = i[y] /\ nextInterval'[y] = nextInterval[y],
         \A h \in Handles :
           h < i'[x] /\ callback'[h] # NULL /\ callback'[h] \notin overlooked' =>
             nextInterval'[x] # NULL /\ nextInterval'[x] <= tickCounter'[h],
         (\E y \in Contexts : y # x /\ i[y] = MaxHandles) /\ AllOverlooked => AllOverlooked'
  PROVE  LeastIsNext' /\ WokenForAll'
<1>1. \A y \in Contexts : pc'[y] = IF y = x THEN where ELSE pc[y]
  BY DEF IInv, TypeOK
<1>2. \A y \in Contexts : pc[y] \in InLoop <=> y = x
  BY DEF IInv, LoopOK
<1>3. ASSUME NEW y \in Contexts, y # x, i[y] > 0
      PROVE  AllOverlooked'
  <2>1. pc[y] = "setup" /\ i[y] = MaxHandles
    BY <1>2, <1>3, BeyondIsSetup
  <2>2. y < x
    BY <1>3, <2>1 DEF Runs, Contexts
  <2>3. AllOverlooked
    BY <2>1, <2>2 DEF LeastIsNext
  <2>. QED  BY <1>3, <2>1, <2>3
<1>4. ASSUME NEW y \in Contexts, NEW h \in Handles,
             h < i'[y], callback'[h] # NULL, callback'[h] \notin overlooked'
      PROVE  nextInterval'[y] # NULL /\ nextInterval'[y] <= tickCounter'[h]
  <2>1. CASE y = x
    BY <1>4, <2>1
  <2>2. CASE y # x
    <3>1. AllOverlooked'
      BY <1>3, <1>4, <2>2, PassedIsBeyond
    <3>. QED  BY <1>4, <3>1 DEF AllOverlooked
  <2>. QED  BY <2>1, <2>2
<1>5. ASSUME NEW y \in Contexts, NEW z \in Contexts, pc'[y] = "setup", y < z, pc'[z] \in InLoop
      PROVE  AllOverlooked'
  <2>1. where # "setup"
    BY DEF InLoop
  <2>2. y # x /\ pc[y] = "setup" /\ pc[z] \in InLoop
    BY <1>1, <1>2, <1>5, <2>1
  <2>3. i[y] > 0
    BY <1>5, <2>2, SetupIsBeyond
  <2>. QED  BY <1>3, <2>2, <2>3
<1>6. ASSUME NEW y \in Contexts, NEW z \in Contexts, y < z, i'[y] > 0, i'[z] > 0
      PROVE  AllOverlooked'
  <2>1. y # x \/ z # x
    BY <1>6 DEF Contexts
  <2>. QED  BY <1>3, <1>6, <2>1
<1>7. pc'[x] # "off"
  BY <1>1 DEF InLoop
<1>. QED  BY <1>4, <1>5, <1>6, <1>7 DEF LeastIsNext, WokenForAll

\* Time passes: the interrupt is pending when the counter reaches the register.
LEMMA TickWoken ==
  ASSUME IInv, LeastIsNext, WokenForAll, Tick
  PROVE  LeastIsNext' /\ WokenForAll'
<1> USE DEF Tick
<1>1. UNCHANGED <<callback, tickCounter, pc, i, nextInterval, TIM_CCR1, enabled, overlooked>>
  BY DEF handleVars, localVars
<1>2. LeastIsNext'
  BY <1>1 DEF LeastIsNext, AllOverlooked
<1>3. ASSUME \A x \in Contexts : pc[x] = "off",
             NEW h \in Handles, callback[h] # NULL, callback[h] \notin overlooked
      PROVE  \/ pending'
             \/ /\ enabled
                /\ TIM_CNT' < TIM_CCR1
                /\ TIM_CCR1 <= Max({tickCounter[h], MinOnTrigger, MinOnRegister})
  <2>1. CASE pending
    BY <2>1
  <2>2. CASE /\ TIM_CNT < TIM_CCR1
             /\ TIM_CCR1 <= Max({tickCounter[h], MinOnTrigger, MinOnRegister})
    <3>1. TIM_CNT \in Nat /\ TIM_CCR1 \in Int
      BY LongestBounds, TimerAssumption DEF IInv, TypeOK
    <3>2. TIM_CNT' < TIM_CCR1 \/ TIM_CNT' = TIM_CCR1
      BY <2>2, <3>1
    <3>. QED  BY <2>2, <3>2
  <2>. QED  BY <1>3, <2>1, <2>2 DEF WokenForAll
<1>4. WokenForAll'
  BY <1>1, <1>3 DEF WokenForAll
<1>. QED  BY <1>2, <1>4

\* A client that is registered is overlooked if its handle has been passed.
LEMMA RegisterWoken ==
  ASSUME IInv, Nested, HandlesAreWanted, LeastIsNext,
         NEW x \in Contexts, NEW c \in Clients, RegisterOnTimer(x, c)
  PROVE  LeastIsNext' /\ WokenForAll'
<1> USE DEF RegisterOnTimer
<1>1. \A y \in Contexts : pc'[y] = IF y = x THEN "start" ELSE pc[y]
  BY DEF IInv, TypeOK
<1>2. UNCHANGED <<i, nextInterval>> /\ c # NULL
  BY TimerAssumption DEF localVars
<1>3. WokenForAll'
  BY <1>1 DEF WokenForAll
<1>4. \A y \in Contexts : /\ pc'[y] = "setup" => pc[y] = "setup"
                          /\ pc'[y] \in InLoop => pc[y] \in InLoop
  BY <1>1 DEF InLoop
<1>5. CASE HandleFor(c) = {} /\ UNCHANGED <<callback, tickCounter>>
  <2>1. overlooked' = overlooked
    BY <1>5 DEF historyVars
  <2>. QED  BY <1>2, <1>3, <1>4, <1>5, <2>1 DEF LeastIsNext, AllOverlooked
<1>6. CASE \E k \in Handles :
             /\ HandleFor(c) # {}
             /\ callback' = [callback EXCEPT ![k] = c]
             /\ tickCounter' = [tickCounter EXCEPT ![k] = Interval[c] + TIM_CNT]
             /\ \/ callback[k] = c
                \/ callback[k] = NULL /\ \A m \in Handles : callback[m] # c
  <2>1. HandleFor(c) # {}
    BY <1>6
  <2>2. PICK f \in Handles :
          HandleFor(c) = {f} /\ (callback[f] = c \/ \A m \in Handles : callback[m] # c)
    BY <2>1, OneHandle
  <2>3. \A k \in Handles : /\ callback'[k] = IF k = f THEN c ELSE callback[k]
                           /\ k # f => tickCounter'[k] = tickCounter[k]
    BY <2>2 DEF Fill
  <2>4. overlooked' = Overlooked({c})
    BY <2>1
  <2>5. \A k \in Handles : k # f => callback[k] # c
    BY <1>2, <2>2 DEF HandlesAreWanted
  <2>6. IsPassed(f) => c \in overlooked'
    BY <2>2, <2>4 DEF Overlooked
  <2>7. \A d \in overlooked : d # c => d \in overlooked'
    BY <2>4 DEF Overlooked
  <2>8. ASSUME NEW y \in Contexts, NEW h \in Handles,
               h < i[y], callback'[h] # NULL, callback'[h] \notin overlooked'
        PROVE  nextInterval[y] # NULL /\ nextInterval[y] <= tickCounter'[h]
    <3>1. h # f
      BY <2>3, <2>6, <2>8 DEF IsPassed
    <3>2. callback[h] # NULL /\ callback[h] \notin overlooked
      BY <2>3, <2>5, <2>7, <2>8, <3>1
    <3>. QED  BY <2>3, <2>8, <3>1, <3>2 DEF LeastIsNext
  <2>9. ASSUME AllOverlooked, NEW y \in Contexts, i[y] = MaxHandles
        PROVE  AllOverlooked'
    <3>1. IsPassed(f)
      <4>1. f < MaxHandles
        BY TimerAssumption DEF Handles
      <4>. QED  BY <2>9, <4>1 DEF IsPassed
    <3>2. c \in overlooked'
      BY <2>6, <3>1
    <3>. QED  BY <2>3, <2>5, <2>7, <2>9, <3>2 DEF AllOverlooked
  <2>10. ASSUME NEW y \in Contexts, NEW z \in Contexts, pc'[y] = "setup", y < z, pc'[z] \in InLoop
         PROVE  AllOverlooked'
    <3>1. i[y] = MaxHandles
      BY <1>4, <2>10, SetupIsBeyond
    <3>2. AllOverlooked
      BY <1>4, <2>10 DEF LeastIsNext
    <3>. QED  BY <2>9, <3>1, <3>2
  <2>11. ASSUME NEW y \in Contexts, NEW z \in Contexts, y < z, i[y] > 0, i[z] > 0
         PROVE  AllOverlooked'
    <3>1. i[y] = MaxHandles
      BY <2>11, OneHasPassedAll
    <3>2. AllOverlooked
      BY <2>11 DEF LeastIsNext
    <3>. QED  BY <2>9, <3>1, <3>2
  <2>. QED  BY <1>2, <1>3, <2>8, <2>10, <2>11 DEF LeastIsNext
<1>. QED  BY <1>5, <1>6, FillEffect

\* Who is unregistered need not be woken.
LEMMA UnRegisterWoken ==
  ASSUME IInv, LeastIsNext, WokenForAll, NEW x \in Contexts, NEW c \in Clients,
         UnRegisterFromTimer(x, c)
  PROVE  LeastIsNext' /\ WokenForAll'
<1> USE DEF UnRegisterFromTimer
<1>1. UNCHANGED <<i, pc, nextInterval, TIM_CNT, TIM_CCR1, enabled, pending, overlooked>>
  BY DEF localVars, hwVars
<1>2. \A k \in Handles : callback'[k] # NULL =>
        callback'[k] = callback[k] /\ tickCounter'[k] = tickCounter[k]
  OBVIOUS
<1>3. AllOverlooked => AllOverlooked'
  BY <1>1, <1>2 DEF AllOverlooked
<1>4. LeastIsNext'
  BY <1>1, <1>2, <1>3 DEF LeastIsNext
<1>5. WokenForAll'
  BY <1>1, <1>2 DEF WokenForAll
<1>. QED  BY <1>4, <1>5

\* The timer interrupt is entered.
LEMMA TriggerWoken ==
  ASSUME IInv, LeastIsNext, Trigger
  PROVE  LeastIsNext' /\ WokenForAll'
<1> USE DEF Trigger
<1>1. Timer \in Contexts
  BY DEF Timer, Contexts
<1>2. UNCHANGED <<callback, tickCounter, i, nextInterval, overlooked>>
  BY DEF handleVars, localVars, historyVars
<1>3. \A y \in Contexts : pc'[y] = IF y = Timer THEN "start" ELSE pc[y]
  BY DEF IInv, TypeOK
<1>4. \A y \in Contexts : /\ pc'[y] = "setup" => pc[y] = "setup"
                          /\ pc'[y] \in InLoop => pc[y] \in InLoop
  BY <1>3 DEF InLoop
<1>5. LeastIsNext'
  BY <1>2, <1>4 DEF LeastIsNext, AllOverlooked
<1>6. WokenForAll'
  BY <1>1, <1>3 DEF WokenForAll
<1>. QED  BY <1>5, <1>6

\* A loop that starts while another context has been over the handles overlooks
\* every client, any other one nobody.
LEMMA StartLoopWoken ==
  ASSUME IInv, Nested, LeastIsNext, NEW x \in Contexts, StartLoop(x)
  PROVE  LeastIsNext' /\ WokenForAll'
<1> USE DEF StartLoop
<1>1. UNCHANGED <<callback, tickCounter>> /\ Runs(x)
  BY DEF handleVars
<1>2. \A y \in Contexts : /\ y # x => pc'[y] = pc[y] /\ nextInterval'[y] = nextInterval[y]
  BY DEF IInv, TypeOK
<1>3. i[x] = 0 /\ pc'[x] \in {"setup", "scan"} /\ ~(0 > 0)
  BY DEF Nested, IInv, TypeOK
<1>4. \A y \in Contexts : i'[y] = i[y]
  BY <1>3 DEF IInv, TypeOK
<1>5. WokenForAll'
  BY <1>3 DEF WokenForAll
<1>6. CASE isHandlingClients
  <2>1. overlooked' = overlooked /\ pc'[x] = "setup"
    BY <1>6 DEF IInv, TypeOK
  <2>2. \A y \in Contexts : pc'[y] \in InLoop => y # x
    BY <2>1 DEF InLoop
  <2>3. \A z \in Contexts : x < z => pc'[z] \notin InLoop
    BY <1>1, <1>2 DEF Runs, InLoop, Contexts
  <2>4. AllOverlooked => AllOverlooked'
    BY <1>1, <2>1 DEF AllOverlooked
  <2>5. \A y, z \in Contexts : pc'[y] = "setup" /\ y < z /\ pc'[z] \in InLoop => AllOverlooked'
    BY <1>2, <2>2, <2>3, <2>4 DEF LeastIsNext
  <2>6. \A y, z \in Contexts : y < z /\ i'[y] > 0 /\ i'[z] > 0 => AllOverlooked'
    BY <1>4, <2>4 DEF LeastIsNext
  <2>7. \A y \in Contexts : \A h \in Handles :
          h < i'[y] /\ callback'[h] # NULL /\ callback'[h] \notin overlooked' =>
            nextInterval'[y] # NULL /\ nextInterval'[y] <= tickCounter'[h]
    BY <1>1, <1>2, <1>3, <1>4, <2>1, NoneBeforeFirst DEF LeastIsNext
  <2>. QED  BY <1>5, <2>5, <2>6, <2>7 DEF LeastIsNext
<1>7. CASE ~isHandlingClients
  <2>1. \A y \in Contexts : pc[y] \notin InLoop
    BY <1>7 DEF IInv, LoopOK
  <2>2. ASSUME NEW y \in Contexts, i[y] > 0
        PROVE  AllOverlooked'
    <3>1. i[y] = MaxHandles
      BY <2>1, <2>2, BeyondIsSetup
    <3>2. 0 \in Handles /\ 0 < i[y]
      BY <3>1, TimerAssumption DEF Handles
    <3>3. \E h \in Handles : IsPassed(h)
      BY <3>2 DEF IsPassed
    <3>4. overlooked' = Waiting
      BY <1>7, <3>3
    <3>. QED  BY <1>1, <3>4 DEF AllOverlooked, Waiting
  <2>3. \A y \in Contexts : \A h \in Handles :
          h < i'[y] /\ callback'[h] # NULL /\ callback'[h] \notin overlooked' =>
            nextInterval'[y] # NULL /\ nextInterval'[y] <= tickCounter'[h]
    BY <1>4, <2>2, PassedIsBeyond DEF AllOverlooked
  <2>4. ASSUME NEW y \in Contexts, pc'[y] = "setup"
        PROVE  i[y] > 0
    <3>1. y # x
      BY <1>7, <2>4 DEF IInv, TypeOK
    <3>2. i[y] = MaxHandles
      BY <1>2, <2>1, <2>4, <3>1 DEF Nested
    <3>. QED  BY <3>2, TimerAssumption
  <2>. QED  BY <1>4, <1>5, <2>2, <2>3, <2>4 DEF LeastIsNext
<1>. QED  BY <1>6, <1>7
\* The handle whose time is subtracted has not been passed.
LEMMA ScanWoken ==
  ASSUME IInv, Nested, LeastIsNext, NEW x \in Contexts, Scan(x)
  PROVE  LeastIsNext' /\ WokenForAll'
<1> USE DEF Scan
<1>1. i[x] \in Nat
  BY CounterTypes
<1>2. \A y \in Contexts : y # x => i'[y] = i[y] /\ nextInterval'[y] = nextInterval[y]
  BY DEF IInv, TypeOK
<1>3. PICK where \in {"scan", "expired", "after"} : pc' = [pc EXCEPT ![x] = where]
  <2>1. CASE callback[i[x]] = NULL
    <3>1. pc' = [pc EXCEPT ![x] = "scan"]
      BY <2>1 DEF IInv, TypeOK
    <3>. QED  BY <3>1
  <2>. QED  BY <2>1
<1>4. UNCHANGED <<callback, nextInterval, overlooked>>
  BY DEF historyVars
<1>5. ASSUME NEW h \in Handles, h < i'[x], callback'[h] # NULL, callback'[h] \notin overlooked'
      PROVE  nextInterval'[x] # NULL /\ nextInterval'[x] <= tickCounter'[h]
  <2>1. h \in Int
    BY TimerAssumption DEF Handles
  <2>2. h < i[x] /\ tickCounter'[h] = tickCounter[h]
    <3>1. CASE callback[i[x]] = NULL
      <4>1. i'[x] = i[x] + 1 /\ tickCounter' = tickCounter
        BY <3>1 DEF IInv, TypeOK
      <4>2. h # i[x]
        BY <1>4, <1>5, <3>1
      <4>. QED  BY <1>1, <1>5, <2>1, <4>1, <4>2
    <3>2. CASE callback[i[x]] # NULL
      <4>1. i' = i
        BY <3>2
      <4>2. h < i[x] /\ h # i[x]
        BY <1>1, <1>5, <2>1, <4>1
      <4>. QED  BY <3>2, <4>2 DEF IInv, TypeOK
    <3>. QED  BY <3>1, <3>2
  <2>. QED  BY <1>4, <1>5, <2>2 DEF LeastIsNext
<1>6. AllOverlooked => AllOverlooked'
  BY <1>4 DEF AllOverlooked
<1>7. where \in InLoop /\ pc[x] \in InLoop
  BY DEF InLoop
<1>. QED  BY <1>2, <1>3, <1>5, <1>6, <1>7, StepKeepsLeast

\* The handle that is rescheduled has not been passed.
LEMMA ExpireWoken ==
  ASSUME IInv, Nested, LeastIsNext, NEW x \in Contexts, Expire(x)
  PROVE  LeastIsNext' /\ WokenForAll'
<1> USE DEF Expire
<1>1. UNCHANGED <<i, nextInterval, overlooked>>
  BY DEF historyVars
<1>2. i[x] \in Handles /\ \A h \in Handles : h \in Int
  BY AtHandle, TimerAssumption DEF Handles
<1>3. \A h \in Handles : callback'[h] # NULL => callback'[h] = callback[h]
  BY <1>2 DEF IInv, TypeOK
<1>4. ASSUME NEW h \in Handles, h < i'[x], callback'[h] # NULL, callback'[h] \notin overlooked'
      PROVE  nextInterval'[x] # NULL /\ nextInterval'[x] <= tickCounter'[h]
  <2>1. h < i[x] /\ h # i[x]
    BY <1>1, <1>2, <1>4
  <2>2. tickCounter'[h] = tickCounter[h]
    BY <2>1 DEF IInv, TypeOK
  <2>. QED  BY <1>1, <1>3, <1>4, <2>1, <2>2 DEF LeastIsNext
<1>5. AllOverlooked => AllOverlooked'
  BY <1>1, <1>3 DEF AllOverlooked
<1>6. "call" \in InLoop /\ pc[x] \in InLoop
  BY DEF InLoop
<1>. QED  BY <1>1, <1>4, <1>5, <1>6, StepKeepsLeast

\* A client that the client of the loop registers is overlooked if its handle has
\* been passed.
LEMMA CallWoken ==
  ASSUME IInv, Nested, HandlesAreWanted, LeastIsNext, NEW x \in Contexts, Call(x)
  PROVE  LeastIsNext' /\ WokenForAll'
<1> USE DEF Call
<1>1. UNCHANGED <<i, nextInterval>>
  BY DEF localVars
<1>2. client[x] \in Clients
  BY DEF IInv, TypeOK
<1>3. PICK new \in {{}} \cup {{r} : r \in {q \in Registers[client[x]] : HandleFor(q) # {}}} :
        /\ IF new = {} THEN UNCHANGED handleVars ELSE \A r \in new : Fill(r)
        /\ overlooked' = Overlooked(new)
  OBVIOUS
<1>4. "after" \in InLoop /\ pc[x] \in InLoop
  BY DEF InLoop
<1>5. /\ \A h \in Handles :
           h < i'[x] /\ callback'[h] # NULL /\ callback'[h] \notin overlooked' =>
             nextInterval'[x] # NULL /\ nextInterval'[x] <= tickCounter'[h]
      /\ (\E y \in Contexts : y # x /\ i[y] = MaxHandles) /\ AllOverlooked => AllOverlooked'
  <2>1. CASE new = {}
    <3>1. UNCHANGED <<callback, tickCounter, overlooked>>
      BY <1>3, <2>1 DEF handleVars, Overlooked
    <3>. QED  BY <1>1, <3>1 DEF LeastIsNext, AllOverlooked
  <2>2. CASE new # {}
    <3>1. PICK r \in Registers[client[x]] : new = {r} /\ HandleFor(r) # {}
      BY <2>2
    <3>2. r \in Clients /\ Fill(r) /\ r # NULL
      BY <1>2, <1>3, <2>2, <3>1, TimerAssumption
    <3>3. PICK f \in Handles :
            HandleFor(r) = {f} /\ (callback[f] = r \/ \A m \in Handles : callback[m] # r)
      BY <3>1, OneHandle
    <3>4. \A k \in Handles : /\ callback'[k] = IF k = f THEN r ELSE callback[k]
                             /\ k # f => tickCounter'[k] = tickCounter[k]
      BY <3>2, <3>3 DEF Fill
    <3>5. \A k \in Handles : k # f => callback[k] # r
      BY <3>2, <3>3 DEF HandlesAreWanted
    <3>6. /\ IsPassed(f) => r \in overlooked'
          /\ \A d \in overlooked : d # r => d \in overlooked'
      BY <1>3, <3>1, <3>3 DEF Overlooked
    <3>7. ASSUME NEW h \in Handles, h < i[x], callback'[h] # NULL, callback'[h] \notin overlooked'
          PROVE  nextInterval[x] # NULL /\ nextInterval[x] <= tickCounter'[h]
      <4>1. h # f
        BY <3>4, <3>6, <3>7 DEF IsPassed
      <4>2. callback[h] # NULL /\ callback[h] \notin overlooked
        BY <3>4, <3>5, <3>6, <3>7, <4>1
      <4>. QED  BY <3>4, <3>7, <4>1, <4>2 DEF LeastIsNext
    <3>8. ASSUME AllOverlooked, NEW y \in Contexts, i[y] = MaxHandles
          PROVE  AllOverlooked'
      <4>1. IsPassed(f)
        <5>1. f < MaxHandles
          BY TimerAssumption DEF Handles
        <5>. QED  BY <3>8, <5>1 DEF IsPassed
      <4>2. r \in overlooked'
        BY <3>6, <4>1
      <4>. QED  BY <3>4, <3>5, <3>6, <3>8, <4>2 DEF AllOverlooked
    <3>. QED  BY <1>1, <3>7, <3>8
  <2>. QED  BY <2>1, <2>2
<1>. QED  BY <1>1, <1>4, <1>5, StepKeepsLeast

\* The least time is kept.
LEMMA NextHandleWoken ==
  ASSUME IInv, Nested, LeastIsNext, NEW x \in Contexts, NextHandle(x)
  PROVE  LeastIsNext' /\ WokenForAll'
<1> USE DEF NextHandle
<1>1. UNCHANGED <<callback, tickCounter, overlooked>>
  BY DEF handleVars, historyVars
<1>2. \A y \in Contexts : y # x => i'[y] = i[y] /\ nextInterval'[y] = nextInterval[y]
  BY DEF IInv, TypeOK
<1>3. ASSUME NEW h \in Handles, h < i'[x], callback[h] # NULL, callback[h] \notin overlooked
      PROVE  nextInterval'[x] # NULL /\ nextInterval'[x] <= tickCounter[h]
  <2>1. /\ i[x] \in Handles /\ i'[x] = i[x] + 1
        /\ callback[i[x]] # NULL => nextInterval'[x] # NULL
        /\ nextInterval[x] # NULL => nextInterval'[x] # NULL
    BY NextIsSet
  <2>2. h \in Int /\ i[x] \in Nat
    BY CounterTypes, TimerAssumption DEF Handles
  <2>3. tickCounter[h] \in Int /\ tickCounter[i[x]] \in Int
    BY <2>1, CounterTypes
  <2>4. nextInterval[x] # NULL => nextInterval[x] \in Int
    BY CounterTypes
  <2>5. nextInterval'[x] =
          IF callback[i[x]] # NULL
               /\ (nextInterval[x] = NULL \/ tickCounter[i[x]] < nextInterval[x])
            THEN tickCounter[i[x]] ELSE nextInterval[x]
    BY DEF IInv, TypeOK
  <2>6. CASE h < i[x]
    <3>1. nextInterval[x] # NULL /\ nextInterval[x] <= tickCounter[h]
      BY <1>3, <2>6 DEF LeastIsNext
    <3>. QED  BY <2>1, <2>3, <2>4, <2>5, <3>1
  <2>7. CASE h = i[x]
    BY <1>3, <2>1, <2>3, <2>4, <2>5, <2>7
  <2>. QED  BY <1>3, <2>1, <2>2, <2>6, <2>7
<1>4. AllOverlooked => AllOverlooked'
  BY <1>1 DEF AllOverlooked
<1>5. "scan" \in InLoop /\ pc[x] \in InLoop
  BY DEF InLoop
<1>. QED  BY <1>1, <1>2, <1>3, <1>4, <1>5, StepKeepsLeast

\* The loop is left.
LEMMA EndLoopWoken ==
  ASSUME IInv, LeastIsNext, NEW x \in Contexts, EndLoop(x)
  PROVE  LeastIsNext' /\ WokenForAll'
<1> USE DEF EndLoop
<1>1. UNCHANGED <<callback, tickCounter, i, nextInterval, overlooked>>
  BY DEF handleVars, localVars, historyVars
<1>2. \A y \in Contexts : pc'[y] \notin InLoop
  BY DEF IInv, TypeOK, LoopOK, InLoop
<1>3. LeastIsNext'
  BY <1>1, <1>2 DEF LeastIsNext, AllOverlooked
<1>4. pc'[x] # "off"
  BY DEF IInv, TypeOK
<1>. QED  BY <1>3, <1>4 DEF WokenForAll

\* The hardware is set up for the least time.
LEMMA SetupTimerWoken ==
  ASSUME IInv, Nested, LeastIsNext, NEW x \in Contexts, SetupTimer(x)
  PROVE  LeastIsNext' /\ WokenForAll'
<1> USE DEF SetupTimer
<1>1. UNCHANGED <<callback, tickCounter, overlooked>>
  BY DEF handleVars, historyVars
<1>2. \A y \in Contexts : /\ pc'[y] = IF y = x THEN "off" ELSE pc[y]
                          /\ i'[y] = IF y = x THEN 0 ELSE i[y]
                          /\ nextInterval'[y] = IF y = x THEN NULL ELSE nextInterval[y]
  BY DEF IInv, TypeOK
<1>3. LeastIsNext'
  <2>1. \A y \in Contexts : /\ pc'[y] = "setup" => pc[y] = "setup"
                            /\ pc'[y] \in InLoop => pc[y] \in InLoop
    BY <1>2 DEF InLoop
  <2>2. ~(0 > 0) /\ (AllOverlooked => AllOverlooked')
    BY <1>1 DEF AllOverlooked
  <2>3. \A y, z \in Contexts : pc'[y] = "setup" /\ y < z /\ pc'[z] \in InLoop => AllOverlooked'
    BY <2>1, <2>2 DEF LeastIsNext
  <2>4. \A y, z \in Contexts : y < z /\ i'[y] > 0 /\ i'[z] > 0 => AllOverlooked'
    BY <1>2, <2>2 DEF LeastIsNext
  <2>5. \A y \in Contexts : \A h \in Handles :
          h < i'[y] /\ callback'[h] # NULL /\ callback'[h] \notin overlooked' =>
            nextInterval'[y] # NULL /\ nextInterval'[y] <= tickCounter'[h]
    BY <1>1, <1>2, NoneBeforeFirst DEF LeastIsNext
  <2>. QED  BY <2>3, <2>4, <2>5 DEF LeastIsNext
<1>4. ASSUME \A y \in Contexts : pc'[y] = "off",
             NEW h \in Handles, callback[h] # NULL, callback[h] \notin overlooked
      PROVE  /\ enabled' /\ TIM_CNT' < TIM_CCR1'
             /\ TIM_CCR1' <= Max({tickCounter[h], MinOnTrigger, MinOnRegister})
  <2>1. \A y \in Contexts : pc[y] \notin InLoop
    BY <1>2, <1>4 DEF InLoop
  <2>2. i[x] = MaxHandles
    BY <2>1 DEF Nested
  <2>3. h < i[x]
    BY <2>2, TimerAssumption DEF Handles
  <2>4. nextInterval[x] # NULL /\ nextInterval[x] <= tickCounter[h]
    BY <1>4, <2>3 DEF LeastIsNext
  <2>5. nextInterval[x] \in Int /\ tickCounter[h] \in Int
    BY <2>4, CounterTypes
  <2>6. PICK least \in {MinOnRegister, MinOnTrigger} : TIM_CCR1' = Max({nextInterval[x], least})
    BY <2>4
  <2>7. /\ 0 < Max({nextInterval[x], least})
        /\ Max({nextInterval[x], least}) <= Max({tickCounter[h], MinOnTrigger, MinOnRegister})
    BY <2>4, <2>5, SetUpForAll
  <2>8. enabled' /\ TIM_CNT' = 0
    BY <2>4
  <2>. QED  BY <2>6, <2>7, <2>8
<1>5. WokenForAll'
  BY <1>1, <1>4 DEF WokenForAll
<1>. QED  BY <1>3, <1>5

\* Every step keeps LeastIsNext and WokenForAll.
LEMMA NextWoken ==
  ASSUME IInv, Nested, HandlesAreWanted, LeastIsNext, WokenForAll, [Next]_vars
  PROVE  LeastIsNext' /\ WokenForAll'
<1>1. CASE Tick
  BY <1>1, TickWoken
<1>2. CASE Trigger
  BY <1>2, TriggerWoken
<1>3. CASE \/ \E c \in FromMain : RegisterOnTimer(Main, c)
           \/ \E c \in FromInterrupts : RegisterOnTimer(Interrupt, c)
  BY <1>3, RegisterWoken, TimerAssumption DEF Contexts, Main, Interrupt
<1>4. CASE \E c \in Cancelled : UnRegisterFromTimer(Interrupt, c)
  BY <1>4, UnRegisterWoken, TimerAssumption DEF Contexts, Interrupt
<1>5. CASE \E x \in Contexts : Loop(x)
  BY <1>5, StartLoopWoken, ScanWoken, ExpireWoken, CallWoken, NextHandleWoken,
     EndLoopWoken, SetupTimerWoken DEF Loop
<1>6. CASE UNCHANGED vars
  <2>1. UNCHANGED <<callback, tickCounter, TIM_CNT, TIM_CCR1, enabled, pending, pc, i,
                    nextInterval, overlooked>>
    BY <1>6 DEF vars, handleVars, hwVars, localVars, historyVars
  <2>2. LeastIsNext'
    BY <2>1 DEF LeastIsNext, AllOverlooked
  <2>3. WokenForAll'
    BY <2>1 DEF WokenForAll
  <2>. QED  BY <2>2, <2>3
<1>. QED  BY <1>1, <1>2, <1>3, <1>4, <1>5, <1>6 DEF Next

-----------------------------------------------------------------------------
\* The inductive invariant: its parts hold together, whichever clients post.
TimerInv ==
  /\ IInv
  /\ Nested
  /\ HandlesAreWanted
  /\ CountersAreLate
  /\ LeastIsNext
  /\ WokenForAll

\* The contexts, the handles, the counters, the hardware and what the clients are
\* owed fit together at every step, also after a client has posted and the loop
\* can be interrupted.
THEOREM TimerInvariance == Spec => []TimerInv
<1>1. Init => TimerInv
  BY InitIInv, InitNested, InitWanted, InitLate, InitWoken DEF TimerInv
<1>2. TimerInv /\ [Next]_vars => TimerInv'
  BY NextIInv, NextNested, NextWanted, NextLate, NextWoken DEF TimerInv
<1>. QED  BY <1>1, <1>2, PTL DEF Spec

\* Every call is one that somebody is waiting for, unless the client was struck
\* between the test of its time and its call.
THEOREM CallsAreWanted == Spec => []CalledOnlyIfWanted
<1>1. TimerInv => CalledOnlyIfWanted
  BY DEF TimerInv, HandlesAreWanted, CalledOnlyIfWanted
<1>. QED  BY <1>1, TimerInvariance, PTL

\* No client is called before its interval has passed, unless it was struck, or
\* rushed by a second loop.
THEOREM NobodyIsEarly == Spec => []NeverEarly
<1>1. TimerInv => NeverEarly
  BY DEF TimerInv, CountersAreLate, NeverEarly
<1>. QED  BY <1>1, TimerInvariance, PTL

\* Whenever nobody is in the timer's functions the hardware will interrupt in time
\* for every handle, but for those of the clients that the last loop has not seen.
THEOREM HardwareWakesForAll == Spec => []WokenForAll
<1>1. TimerInv => WokenForAll
  BY DEF TimerInv
<1>. QED  BY <1>1, TimerInvariance, PTL


===============================================================================
