------------------------------- MODULE SwTimer -------------------------------
(***************************************************************************)
(* The software timer (framework/flawless/timer/swTimer.c) on top of one   *)
(* hardware timer (target/stm32f4/hwTimer.c, TIM5).                        *)
(*                                                                         *)
(* Contexts.  swTimer_trigger runs in the timer interrupt, the lowest of   *)
(* the interrupts.  swTimer_registerOnTimerUS and                          *)
(* swTimer_unRegisterFromTimer are called by the main loop, by the other   *)
(* interrupts and by the timer's own clients.  A registration that finds   *)
(* nobody in the loop over the handles runs that loop itself, and with it  *)
(* the clients whose time has come, in its caller's context.               *)
(*                                                                         *)
(* The mutex masks the interrupts while its counter is above 0.  A client  *)
(* that posts data of its own unlocks it once more than it locked it (see  *)
(* MsgPump), so the loops can be interrupted from there on: their steps    *)
(* are actions of their own, and time passes between any two.              *)
(*                                                                         *)
(* Abstractions.  A tick of the model stands for some ticks of TIM5.  A    *)
(* client is registered with the same interval every time.  tickCounter is *)
(* 64 bits wide in the code and never near 0x7fffffff for the intervals of *)
(* the repository (25 s), and TIM_PSC is 0 for them. The counter of an     *)
(* empty handle, and a local that is dead, is 0 or NULL.                   *)
(***************************************************************************)
EXTENDS Integers, FiniteSets, FiniteSetsExt

CONSTANTS
  Clients,         \* the callback functions
  Interval,        \* the interval each is registered with, in ticks
  OneShot,         \* the clients that are registered to be called once
  Posting,         \* the clients that post data of their own
  Registers,       \* for each client, the clients it registers when called
  AtStart,         \* the clients the init functions have registered, or {}
  FromInterrupts,  \* the clients that interrupt handlers register
  FromMain,        \* the clients that the main loop registers
  Restarted,       \* the clients that are registered again while waiting
  Cancelled,       \* the clients that interrupt handlers unregister
  MaxHandles,      \* SW_TIMER_MAX_HANDLES
  MinOnRegister,   \* the least time the hardware is set up for, 4 ticks
  MinOnTrigger,    \* the same in swTimer_trigger, 40 ticks
  MaxCount,        \* bound on TIM_CNT
  MaxInLoop,       \* bound on the ticks from TIM_CNT's reading to its reset
  NULL

Handles == 0 .. MaxHandles - 1

\* The contexts, from the lowest to the highest priority.
Contexts == 1 .. 3
Main == 1
Timer == 2
Interrupt == 3

ASSUME TimerAssumption ==
  /\ IsFiniteSet(Clients)
  /\ Interval \in [Clients -> Nat]
  /\ OneShot \subseteq Clients
  /\ Posting \subseteq Clients
  /\ Registers \in [Clients -> SUBSET Clients]
  /\ AtStart \subseteq Clients /\ Cardinality(AtStart) <= 1
  /\ FromInterrupts \subseteq Clients
  /\ FromMain \subseteq Clients
  /\ Restarted \subseteq Clients
  /\ Cancelled \subseteq Clients
  /\ MaxHandles \in Nat \ {0}
  /\ MinOnRegister \in Nat \ {0}
  /\ MinOnTrigger \in Nat \ {0}
  /\ MaxCount \in Nat
  /\ MaxInLoop \in Nat
  /\ NULL \notin Clients /\ NULL \notin Int

VARIABLES
  callback,          \* g_swTimerHandles[].callback
  tickCounter,       \* g_swTimerHandles[].tickCounter
  isHandlingClients,
  g_lockCounter,
  TIM_CNT,
  TIM_CCR1,
  enabled,           \* TIM_CR1_CEN: it counts
  pending,           \* TIM5's interrupt is pending
  pc,                \* where each context is in the functions of swTimer.c
  i,                 \* its loop variable
  ticksElapsed,      \* its local
  nextInterval,      \* its local; NULL is 0x7fffffff, nothing to wait for
  client,            \* its local callback: the client to call
  wanted,            \* history: registered, not yet called or unregistered
  owed,              \* history: the real time until each may be called
  struck,            \* history: the contexts whose client was registered anew or
                     \* unregistered between the test of its time and its call
  rushed,            \* history: the clients from whose counters a second loop has
                     \* subtracted the time the first one had subtracted already
  overlooked         \* history: the clients that the loop under way, or the last
                     \* one, does not set up the hardware for

hwVars == <<TIM_CNT, TIM_CCR1, enabled, pending>>
handleVars == <<callback, tickCounter>>
localVars == <<i, ticksElapsed, nextInterval, client>>
historyVars == <<wanted, owed, struck, rushed, overlooked>>
vars == <<handleVars, isHandlingClients, g_lockCounter, hwVars, pc, localVars, historyVars>>

Longest == Max({Interval[c] : c \in Clients} \cup {MinOnRegister, MinOnTrigger})

TypeOK ==
  /\ callback \in [Handles -> Clients \cup {NULL}]
  /\ tickCounter \in [Handles -> -MaxCount .. Longest + MaxCount]
  /\ isHandlingClients \in BOOLEAN
  /\ g_lockCounter \in {0, 1}
  /\ TIM_CNT \in 0 .. MaxCount
  /\ TIM_CCR1 \in 0 .. Longest + MaxCount
  /\ enabled \in BOOLEAN
  /\ pending \in BOOLEAN
  /\ pc \in [Contexts -> {"off", "start", "scan", "expired", "call", "after", "setup"}]
  /\ i \in [Contexts -> 0 .. MaxHandles]
  /\ ticksElapsed \in [Contexts -> 0 .. MaxCount]
  /\ nextInterval \in [Contexts -> (-MaxCount .. Longest + MaxCount) \cup {NULL}]
  /\ client \in [Contexts -> Clients \cup {NULL}]
  /\ wanted \subseteq Clients
  /\ owed \in [Clients -> -Longest .. Longest]
  /\ struck \subseteq Contexts
  /\ rushed \subseteq Clients
  /\ overlooked \subseteq Clients

\* Nothing is registered, or one client just was.
Init ==
  /\ callback = [h \in Handles |-> IF h = 0 /\ AtStart # {} THEN CHOOSE c \in AtStart : TRUE
                                                            ELSE NULL]
  /\ tickCounter = [h \in Handles |-> IF callback[h] = NULL THEN 0 ELSE Interval[callback[h]]]
  /\ isHandlingClients = FALSE
  /\ g_lockCounter = 0
  /\ TIM_CNT = 0
  /\ TIM_CCR1 = IF AtStart = {} THEN 0 ELSE Max({tickCounter[0], MinOnRegister})
  /\ enabled = (AtStart # {})
  /\ pending = FALSE
  /\ pc = [x \in Contexts |-> "off"]
  /\ i = [x \in Contexts |-> 0]
  /\ ticksElapsed = [x \in Contexts |-> 0]
  /\ nextInterval = [x \in Contexts |-> NULL]
  /\ client = [x \in Contexts |-> NULL]
  /\ wanted = AtStart
  /\ owed = [c \in Clients |-> IF c \in AtStart THEN Interval[c] ELSE 0]
  /\ struck = {} /\ rushed = {} /\ overlooked = {}

-------------------------------------------------------------------------------
\* The hardware: a free running counter with a compare register. The interrupt
\* stays pending until its handler is entered. (The ticks between the reading of
\* TIM_CNT and its reset are lost to the handles.)
Tick ==
  /\ enabled
  /\ TIM_CNT < MaxCount
  /\ \A x \in Contexts :
       pc[x] \notin {"off", "start"} => TIM_CNT - ticksElapsed[x] < MaxInLoop
  /\ TIM_CNT' = TIM_CNT + 1
  /\ pending' = (pending \/ TIM_CNT' = TIM_CCR1)
  /\ owed' = [c \in Clients |-> IF c \in wanted /\ owed[c] > -Interval[c]
                                 THEN owed[c] - 1 ELSE owed[c]]
  /\ UNCHANGED <<handleVars, isHandlingClients, g_lockCounter, TIM_CCR1, enabled, pc,
                 localVars, wanted, struck, rushed, overlooked>>

\* The processor runs context x.
Runs(x) == \A y \in Contexts : y > x => pc[y] = "off"

\* Context x can be entered now: no higher one is active and, for an interrupt,
\* interrupts are not masked.
CanEnter(x) ==
  /\ Runs(x)
  /\ pc[x] = "off"
  /\ x # Main => g_lockCounter = 0

-------------------------------------------------------------------------------
\* The slot for client c: its own one, or else the first free one.
HandleFor(c) ==
  LET own == {h \in Handles : callback[h] = c}
      free == {h \in Handles : callback[h] = NULL}
  IN  IF own # {} THEN {Min(own)} ELSE IF free # {} THEN {Min(free)} ELSE {}

\* Mutant: the time since the counter's last reset is not made up for.
MutantFillIgnoresCount(c) ==
  /\ callback' = [h \in Handles |-> IF h \in HandleFor(c) THEN c ELSE callback[h]]
  /\ tickCounter' = [h \in Handles |-> IF h \in HandleFor(c) THEN Interval[c] ELSE tickCounter[h]]

\* The registration phase, lines 44 to 70.
Fill(c) ==
  /\ callback' = [h \in Handles |-> IF h \in HandleFor(c) THEN c ELSE callback[h]]
  /\ tickCounter' = [h \in Handles |-> IF h \in HandleFor(c) THEN Interval[c] + TIM_CNT
                                                             ELSE tickCounter[h]]

\* A loop has been over handle h, or is about to set up the hardware.
IsPassed(h) == \E x \in Contexts : h < i[x]

\* The clients the hardware is not set up for, once those in new are registered.
Overlooked(new) ==
  (overlooked \ new) \cup {c \in new : \E h \in HandleFor(c) : IsPassed(h)}

\* The contexts that are about to call c.
About(c) == {x \in Contexts : \/ pc[x] = "expired" /\ callback[i[x]] = c
                              \/ pc[x] = "call" /\ client[x] = c}

\* A full table: the registration fails, the loop is run all the same.
RegisterOnTimer(x, c) ==
  /\ CanEnter(x)
  /\ c \in Restarted \/ c \notin wanted
  /\ Fill(c)
  /\ IF HandleFor(c) # {}
       THEN /\ wanted' = wanted \cup {c}
            /\ owed' = [owed EXCEPT ![c] = Interval[c]]
            /\ struck' = struck \cup About(c)
            /\ rushed' = rushed \ {c}
            /\ overlooked' = Overlooked({c})
       ELSE UNCHANGED historyVars
  /\ g_lockCounter' = g_lockCounter + 1
  /\ pc' = [pc EXCEPT ![x] = "start"]
  /\ UNCHANGED <<isHandlingClients, hwVars, localVars>>

\* The client may have left its handle, to be called.
UnRegisterFromTimer(x, c) ==
  /\ CanEnter(x)
  /\ c \in wanted
  /\ callback' = [h \in Handles |-> IF callback[h] = c THEN NULL ELSE callback[h]]
  /\ tickCounter' = [h \in Handles |-> IF callback[h] = c THEN 0 ELSE tickCounter[h]]
  /\ wanted' = wanted \ {c}
  /\ owed' = [owed EXCEPT ![c] = 0]
  /\ struck' = struck \cup About(c)
  /\ rushed' = rushed \ {c}
  /\ UNCHANGED <<isHandlingClients, g_lockCounter, hwVars, pc, localVars, overlooked>>

\* tim5_isr, up to the lock in swTimer_trigger.
Trigger ==
  /\ pending
  /\ CanEnter(Timer)
  /\ pending' = FALSE
  /\ g_lockCounter' = g_lockCounter + 1
  /\ pc' = [pc EXCEPT ![Timer] = "start"]
  /\ UNCHANGED <<handleVars, isHandlingClients, TIM_CNT, TIM_CCR1, enabled, localVars,
                 historyVars>>

Waiting == {callback[h] : h \in Handles} \ {NULL}

\* Only one context is in the loop over the handles. (It can interrupt one that is
\* about to set up the hardware: it takes the same time off the counters again.)
StartLoop(x) ==
  /\ Runs(x)
  /\ pc[x] = "start"
  /\ nextInterval' = [nextInterval EXCEPT ![x] = NULL]
  /\ IF isHandlingClients
       THEN /\ pc' = [pc EXCEPT ![x] = "setup"]
            /\ UNCHANGED <<isHandlingClients, ticksElapsed, i, rushed, overlooked>>
       ELSE /\ isHandlingClients' = TRUE
            /\ ticksElapsed' = [ticksElapsed EXCEPT ![x] = TIM_CNT]
            /\ i' = [i EXCEPT ![x] = 0]
            /\ pc' = [pc EXCEPT ![x] = "scan"]
            /\ LET again == IF \E h \in Handles : IsPassed(h) THEN Waiting ELSE {} IN
                 rushed' = rushed \cup again /\ overlooked' = again
  /\ UNCHANGED <<handleVars, g_lockCounter, hwVars, client, wanted, owed, struck>>

Scan(x) ==
  /\ Runs(x)
  /\ pc[x] = "scan"
  /\ i[x] < MaxHandles
  /\ IF callback[i[x]] = NULL
       THEN /\ i' = [i EXCEPT ![x] = @ + 1]
            /\ UNCHANGED <<tickCounter, pc>>
       ELSE /\ tickCounter' = [tickCounter EXCEPT ![i[x]] = @ - ticksElapsed[x]]
            /\ pc' = [pc EXCEPT ![x] = IF tickCounter'[i[x]] <= 0 THEN "expired" ELSE "after"]
            /\ UNCHANGED i
  /\ UNCHANGED <<callback, isHandlingClients, g_lockCounter, hwVars, ticksElapsed,
                 nextInterval, client, historyVars>>

\* Mutant: one shots are treated as periodic ones are.
MutantExpireKeepsOneShot(x) ==
  /\ Runs(x)
  /\ pc[x] = "expired"
  /\ LET c == callback[i[x]] IN
       /\ client' = [client EXCEPT ![x] = c]
       /\ tickCounter' = [tickCounter EXCEPT ![i[x]] =
                            IF c = NULL THEN 0 ELSE Min({Max({@ + Interval[c], 0}), Interval[c]})]
  /\ pc' = [pc EXCEPT ![x] = "call"]
  /\ UNCHANGED <<callback, isHandlingClients, g_lockCounter, hwVars, i, ticksElapsed,
                 nextInterval, historyVars>>

\* Mutant: a periodic handle is not rescheduled.
MutantExpireKeepsCounter(x) ==
  /\ Runs(x)
  /\ pc[x] = "expired"
  /\ LET c == callback[i[x]] IN
       /\ client' = [client EXCEPT ![x] = c]
       /\ callback' = [callback EXCEPT ![i[x]] = IF c \in OneShot THEN NULL ELSE c]
  /\ pc' = [pc EXCEPT ![x] = "call"]
  /\ UNCHANGED <<tickCounter, isHandlingClients, g_lockCounter, hwVars, i, ticksElapsed,
                 nextInterval, historyVars>>

\* The handle is read again. (A handle somebody emptied meanwhile still has its
\* oneShot flag, its callback is NULL.)
Expire(x) ==
  /\ Runs(x)
  /\ pc[x] = "expired"
  /\ LET h == i[x]
         c == callback[h]
     IN  /\ client' = [client EXCEPT ![x] = c]
         /\ IF c \in Clients \ OneShot
              THEN /\ tickCounter' = [tickCounter EXCEPT ![h] =
                                        Min({Max({@ + Interval[c], 0}), Interval[c]})]
                   /\ UNCHANGED callback
              ELSE /\ callback' = [callback EXCEPT ![h] = NULL]
                   /\ tickCounter' = [tickCounter EXCEPT ![h] = 0]
  /\ pc' = [pc EXCEPT ![x] = "call"]
  /\ UNCHANGED <<isHandlingClients, g_lockCounter, hwVars, i, ticksElapsed, nextInterval,
                 historyVars>>

\* The client runs. A client it registers is only filled in: the loop is taken.
\* NULL cannot be called: the processor faults.
Call(x) ==
  /\ Runs(x)
  /\ pc[x] = "call"
  /\ client[x] # NULL
  /\ \E new \in {{}} \cup {{c} : c \in {r \in Registers[client[x]] : HandleFor(r) # {}}} :
       LET c == client[x]
           over == {d \in {c} \cap OneShot : x \notin struck \/ \A h \in Handles : callback[h] # d}
           anew == {d \in {c} \ OneShot : x \notin struck}
       IN
       /\ IF new = {} THEN UNCHANGED handleVars ELSE \A r \in new : Fill(r)
       /\ wanted' = (wanted \ over) \cup new
       /\ owed' = [d \in Clients |->
                     IF d \in new THEN Interval[d]
                     ELSE IF d \in over THEN 0
                     ELSE IF d \notin anew THEN owed[d]
                     ELSE IF d \in rushed THEN Min({tickCounter[i[x]], Interval[d]})
                     ELSE Min({owed[d], 0}) + Interval[d]]
       /\ rushed' = rushed \ (over \cup anew \cup new)
       /\ overlooked' = Overlooked(new)
  /\ struck' = struck \ {x}
  /\ g_lockCounter' = IF client[x] \in Posting /\ g_lockCounter > 0
                        THEN g_lockCounter - 1 ELSE g_lockCounter
  /\ pc' = [pc EXCEPT ![x] = "after"]
  /\ UNCHANGED <<isHandlingClients, hwVars, localVars>>

\* Mutant: the last handle's time, not the least one.
MutantNextHandleTakesLast(x) ==
  /\ Runs(x)
  /\ pc[x] = "after"
  /\ nextInterval' = IF callback[i[x]] # NULL
                       THEN [nextInterval EXCEPT ![x] = tickCounter[i[x]]] ELSE nextInterval
  /\ i' = [i EXCEPT ![x] = @ + 1]
  /\ pc' = [pc EXCEPT ![x] = "scan"]
  /\ UNCHANGED <<handleVars, isHandlingClients, g_lockCounter, hwVars, ticksElapsed, client,
                 historyVars>>

NextHandle(x) ==
  /\ Runs(x)
  /\ pc[x] = "after"
  /\ LET t == tickCounter[i[x]] IN
       nextInterval' = IF callback[i[x]] # NULL /\ (nextInterval[x] = NULL \/ t < nextInterval[x])
                         THEN [nextInterval EXCEPT ![x] = t] ELSE nextInterval
  /\ i' = [i EXCEPT ![x] = @ + 1]
  /\ pc' = [pc EXCEPT ![x] = "scan"]
  /\ UNCHANGED <<handleVars, isHandlingClients, g_lockCounter, hwVars, ticksElapsed, client,
                 historyVars>>

\* Mutant: the loop is left without saying so.
MutantEndLoopKeepsFlag(x) ==
  /\ Runs(x)
  /\ pc[x] = "scan"
  /\ i[x] = MaxHandles
  /\ pc' = [pc EXCEPT ![x] = "setup"]
  /\ UNCHANGED <<handleVars, isHandlingClients, g_lockCounter, hwVars, localVars, historyVars>>

EndLoop(x) ==
  /\ Runs(x)
  /\ pc[x] = "scan"
  /\ i[x] = MaxHandles
  /\ isHandlingClients' = FALSE
  /\ pc' = [pc EXCEPT ![x] = "setup"]
  /\ UNCHANGED <<handleVars, g_lockCounter, hwVars, localVars, historyVars>>

\* hw_timerSetupTimer, and the unlock.
SetupTimer(x) ==
  /\ Runs(x)
  /\ pc[x] = "setup"
  /\ IF nextInterval[x] = NULL
       THEN UNCHANGED <<TIM_CNT, TIM_CCR1, enabled>>
       ELSE /\ TIM_CNT' = 0
            /\ TIM_CCR1' = Max({nextInterval[x],
                                IF x = Timer THEN MinOnTrigger ELSE MinOnRegister})
            /\ enabled' = TRUE
  /\ g_lockCounter' = IF g_lockCounter > 0 THEN g_lockCounter - 1 ELSE 0
  /\ pc' = [pc EXCEPT ![x] = "off"]
  /\ i' = [i EXCEPT ![x] = 0]
  /\ ticksElapsed' = [ticksElapsed EXCEPT ![x] = 0]
  /\ nextInterval' = [nextInterval EXCEPT ![x] = NULL]
  /\ client' = [client EXCEPT ![x] = NULL]
  /\ UNCHANGED <<handleVars, isHandlingClients, pending, historyVars>>

Loop(x) ==
  \/ StartLoop(x)
  \/ Scan(x)
  \/ Expire(x)
  \/ Call(x)
  \/ NextHandle(x)
  \/ EndLoop(x)
  \/ SetupTimer(x)

Next ==
  \/ Tick
  \/ Trigger
  \/ \E c \in FromMain : RegisterOnTimer(Main, c)
  \/ \E c \in FromInterrupts : RegisterOnTimer(Interrupt, c)
  \/ \E c \in Cancelled : UnRegisterFromTimer(Interrupt, c)
  \/ \E x \in Contexts : Loop(x)

Spec == Init /\ [][Next]_vars

\* Time passes, handlers run to their end, and the timer interrupt is served
\* although it has the lowest priority.
Fairness ==
  /\ WF_vars(Tick)
  /\ SF_vars(Trigger)
  /\ \A x \in Contexts : SF_vars(Loop(x))

FairSpec == Spec /\ Fairness

-------------------------------------------------------------------------------
\* Every call is one that somebody is waiting for: not of NULL, not of a client
\* that has been unregistered, not a second one for one registration. (Once the
\* loop can be interrupted, a handler can strike the client out between the test
\* of its time and its call: see NobodyElseIsCalled.)
CalledOnlyIfWanted ==
  \A x \in Contexts : pc[x] = "call" /\ x \notin struck => client[x] \in wanted

\* The same whatever handlers do in the meantime.
NobodyElseIsCalled ==
  \A x \in Contexts : pc[x] = "call" => client[x] \in wanted

\* No client is called before its interval has passed in real time, counted from
\* its registration or, for a periodic one, from when the last call was due,
\* although the counter is set back to 0 and restarted by every registration.
\* (Not so after a loop that was entered while another one, whose client had ended
\* the section, was about to restart the counter. After that a periodic client is
\* in time again from its next call on.)
NeverEarly ==
  \A x \in Contexts :
    pc[x] = "call" /\ x \notin struck /\ client[x] \notin rushed => owed[client[x]] <= 0

\* While nobody is in the timer's functions, the hardware will interrupt in time
\* for every handle, but for those the last loop has not seen: no other wakeup is
\* lost.
WokenForAll ==
  (\A x \in Contexts : pc[x] = "off") =>
    \A h \in Handles :
      callback[h] # NULL /\ callback[h] \notin overlooked =>
        \/ pending
        \/ /\ enabled
           /\ TIM_CNT < TIM_CCR1
           /\ TIM_CCR1 <= Max({tickCounter[h], MinOnTrigger, MinOnRegister})

\* A client that waits for one call gets it, sooner or later, once its time has
\* come (or is unregistered, or registered anew).
DueIsCalled ==
  \A c \in OneShot : (c \in wanted /\ owed[c] <= 0) ~> (c \notin wanted \/ owed[c] > 0)

===============================================================================
