------------------------------ MODULE Dynamixel ------------------------------
(***************************************************************************)
(* The Dynamixel bus: the job queues, transactions and timeouts of         *)
(* application/p1/dynamixel.c, and the half duplex driver below them,      *)
(* target/stm32f4/p1/dynamixel_phy.c.                                      *)
(*                                                                         *)
(* Contexts, from the lowest priority to the highest: the main loop, the   *)
(* software timer's loop with its clients, and the handlers: the DMA       *)
(* interrupt at the end of a reception and the UART interrupt at the end   *)
(* of a transmission.  The handlers have the same priority (README: the    *)
(* priorities 1, 4 and 5 are one level) and never interrupt each other.    *)
(* The timer's loop starts with interrupts masked, but a client that posts *)
(* data of its own unmasks them (SwTimer), so here the handlers may come   *)
(* between any two steps of the loop and of its clients.  The timer itself *)
(* is what SwTimer shows of it: a client is registered or not, however     *)
(* often it is registered, and is called once, after its handle is empty.  *)
(*                                                                         *)
(* Abstractions.  A job is whether it needs an answer and has a callback;  *)
(* the bytes of its packet are left out, and so a received packet is only  *)
(* valid or broken.  The copy that is posted for every valid packet goes   *)
(* to the message pump (a producer of MsgPump).  The callbacks of this     *)
(* repository add no jobs.  The test of a callback and its call are one    *)
(* step.                                                                   *)
(***************************************************************************)
EXTENDS Integers, Sequences, FiniteSets

CONSTANTS
  PortCnt,     \* DYNAMIXEL_PORT_CNT
  QueueSize,   \* the jobs a queue has room for
  Contexts,    \* those that add jobs, of "main" and "timer"
  Requests,    \* what users ask for: a job, a priority and a set of ports
  NULL

Ports == 0 .. PortCnt - 1
Priorities == {"high", "low"}

\* What an operation asks addJob for.
Jobs == {r.job : r \in Requests}

\* addJob with a job, and the ports it has still to put the job into the queue of.
Adding == [job : Jobs, priority : Priorities, ports : SUBSET Ports, puts : SUBSET Ports]

ASSUME DynamixelAssumption ==
  /\ PortCnt \in Nat \ {0}
  /\ QueueSize \in Nat \ {0}
  /\ Contexts \subseteq {"main", "timer"}
  /\ Requests \subseteq [job : [answer : BOOLEAN, callback : BOOLEAN],
                         priority : Priorities, ports : SUBSET Ports]
  /\ NULL \notin Ports /\ NULL \notin Jobs /\ NULL \notin Adding

\* dynamixel_read, dynamixel_write, ... : what they ask addJob for.
Read(callback) == [answer |-> TRUE, callback |-> callback]
Write(callback, expectsAnswer) == [answer |-> expectsAnswer, callback |-> callback]
RegWrite(callback, expectsAnswer) == Write(callback, expectsAnswer)
Ping(callback) == [answer |-> TRUE, callback |-> callback]
Action == [answer |-> FALSE, callback |-> FALSE]
SyncWrite == [answer |-> FALSE, callback |-> FALSE]

VARIABLES
  jobs,                   \* g_HighPrioJobs and g_LowPrioJobs
  g_currentTransactions,
  g_phyState,
  rtxMode,                \* of g_portModes
  tx,                     \* the UART sends, and interrupts at the end
  rx,                     \* the DMA for reception: off, on, or what it received
  rxPending,              \* its interrupt
  timeout,                \* timeoutInterface is registered with the timer
  adding,                 \* the request a context is in addJob with
  timingOut,              \* the port whose timeoutInterface is called
  told,                   \* it has made its call
  ending,                 \* the port a handler that runs is still to trigger
  called                  \* the call of a callback that the last step has made

phyVars == <<rtxMode, tx, rx, rxPending>>
timeoutVars == <<timeout, timingOut, told>>
vars == <<jobs, g_currentTransactions, g_phyState, phyVars, timeoutVars, adding, ending, called>>

TypeOK ==
  /\ jobs \in [Priorities -> [Ports -> Seq(Jobs)]]
  /\ \A q \in Priorities, p \in Ports : Len(jobs[q][p]) <= QueueSize
  /\ g_currentTransactions \in [Ports -> Jobs \cup {NULL}]
  /\ g_phyState \in [Ports -> {"IDLE", "RX", "TX"}]
  /\ rtxMode \in [Ports -> {"IDLE", "RECEIVING", "TRANSMITTING"}]
  /\ tx \in [Ports -> BOOLEAN]
  /\ rx \in [Ports -> {"off", "on", "valid", "broken"}]
  /\ rxPending \in [Ports -> BOOLEAN]
  /\ timeout \in [Ports -> BOOLEAN]
  /\ adding \in [Contexts -> Adding \cup {NULL}]
  /\ timingOut \in Ports \cup {NULL}
  /\ told \in BOOLEAN
  /\ ending \in Ports \cup {NULL}
  /\ called \in [port : Ports, job : Jobs, success : BOOLEAN] \cup {NULL}

\* dynamixelPhyInitFunction,
PhyInit ==
  /\ rtxMode = [p \in Ports |-> "IDLE"]
  /\ tx = [p \in Ports |-> FALSE]
  /\ rx = [p \in Ports |-> "off"]
  /\ rxPending = [p \in Ports |-> FALSE]

\* and dynamixelInitFunction.
Init ==
  /\ PhyInit
  /\ jobs = [q \in Priorities |-> [p \in Ports |-> <<>>]]
  /\ g_currentTransactions = [p \in Ports |-> NULL]
  /\ g_phyState = [p \in Ports |-> "IDLE"]
  /\ timeout = [p \in Ports |-> FALSE]
  /\ adding = [c \in Contexts |-> NULL]
  /\ timingOut = NULL
  /\ told = FALSE
  /\ ending = NULL
  /\ called = NULL

-------------------------------------------------------------------------------
\* The contexts.

InTimer == timingOut # NULL \/ ("timer" \in Contexts /\ adding["timer"] # NULL)

\* A handler interrupts the others, they never a handler.
MayRun(context) ==
  /\ ending = NULL
  /\ context = "main" => ~InTimer

-------------------------------------------------------------------------------
\* The half duplex driver. These are called with interrupts masked.

\* dynamixel_phy_send for a set of ports: it does nothing where the driver,
\* in "mode" and with the transmissions "send", is not idle.
PhySend(ports, mode, send) ==
  LET sent == {p \in ports : mode[p] = "IDLE"} IN
  /\ rtxMode' = [p \in Ports |-> IF p \in sent THEN "TRANSMITTING" ELSE mode[p]]
  /\ tx' = [p \in Ports |-> send[p] \/ p \in sent]

\* dynamixel_phy_receive, that is called when the driver has just gone idle.
PhyReceive(p) ==
  /\ rtxMode' = [rtxMode EXCEPT ![p] = "RECEIVING"]
  /\ rx' = [rx EXCEPT ![p] = "on"]

-------------------------------------------------------------------------------
\* triggerTransmission, with interrupts masked: every idle port of the set
\* starts the oldest job of the priority it takes first. "phy" is the state of
\* the ports and "mode" that of the driver, as the caller has left them.

\* (Definitions named Mutant... are the following definition with a bug, for
\* PROJECT.json; nothing else refers to them.)
MutantNextPriority(p) == IF jobs["low"][p] # <<>> THEN "low" ELSE "high"

NextPriority(p) == IF jobs["high"][p] # <<>> THEN "high" ELSE "low"

MutantStarted(ports, phy) == {p \in ports : phy[p] = "IDLE" /\ jobs["high"][p] # <<>>}

Started(ports, phy) == {p \in ports : phy[p] = "IDLE" /\ jobs[NextPriority(p)][p] # <<>>}

Trigger(ports, phy, mode, send) ==
  LET started == Started(ports, phy) IN
  /\ jobs' = [q \in Priorities |-> [p \in Ports |->
       IF p \in started /\ q = NextPriority(p) THEN Tail(jobs[q][p]) ELSE jobs[q][p]]]
  /\ g_currentTransactions' = [p \in Ports |->
       IF p \in started THEN Head(jobs[NextPriority(p)][p]) ELSE g_currentTransactions[p]]
  /\ g_phyState' = [p \in Ports |-> IF p \in started THEN "TX" ELSE phy[p]]
  /\ PhySend(started, mode, send)

-------------------------------------------------------------------------------
\* addJob, called by dynamixel_read and the other operations.

Begin(context) ==
  /\ MayRun(context)
  /\ context = "timer" => timingOut = NULL
  /\ adding[context] = NULL
  /\ \E r \in Requests :
       adding' = [adding EXCEPT ![context] =
         [job |-> r.job, priority |-> r.priority, ports |-> r.ports, puts |-> r.ports]]
  /\ UNCHANGED <<jobs, g_currentTransactions, g_phyState, phyVars, timeoutVars, ending>>
  /\ called' = NULL

MutantRoom(q, p) == Len(jobs[q][p]) <= QueueSize

Room(q, p) == Len(jobs[q][p]) < QueueSize

\* One jobs_put, on the next port of the loop; a full queue refuses the job,
\* which addJob reports and its caller may not learn for which port.
Put(context) ==
  /\ MayRun(context)
  /\ adding[context] # NULL
  /\ adding[context].puts # {}
  /\ LET a == adding[context]
         p == CHOOSE x \in a.puts : \A y \in a.puts : x <= y
     IN /\ jobs' = IF Room(a.priority, p)
                     THEN [jobs EXCEPT ![a.priority][p] = Append(@, a.job)] ELSE jobs
        /\ adding' = [adding EXCEPT ![context].puts = @ \ {p}]
  /\ UNCHANGED <<g_currentTransactions, g_phyState, phyVars, timeoutVars, ending>>
  /\ called' = NULL

TriggerAfterPuts(context) ==
  /\ MayRun(context)
  /\ adding[context] # NULL
  /\ adding[context].puts = {}
  /\ Trigger(adding[context].ports, g_phyState, rtxMode, tx)
  /\ adding' = [adding EXCEPT ![context] = NULL]
  /\ UNCHANGED <<rx, rxPending, timeoutVars, ending>>
  /\ called' = NULL

-------------------------------------------------------------------------------
\* A packet is out: wait for its answer or go on.
TransmittComplete(p) ==
  IF g_currentTransactions[p].answer
    THEN /\ g_phyState' = [g_phyState EXCEPT ![p] = "RX"]
         /\ PhyReceive(p)
         /\ timeout' = [timeout EXCEPT ![p] = TRUE]
         /\ UNCHANGED ending
    ELSE /\ g_phyState' = [g_phyState EXCEPT ![p] = "IDLE"]
         /\ rtxMode' = [rtxMode EXCEPT ![p] = "IDLE"]
         /\ ending' = p
         /\ UNCHANGED <<rx, timeout>>

\* uart5_isr, usart3_isr, uart4_isr.
UartIsr(p) ==
  /\ MayRun("handler")
  /\ tx[p]
  /\ tx' = [tx EXCEPT ![p] = FALSE]
  /\ TransmittComplete(p)
  /\ UNCHANGED <<jobs, g_currentTransactions, rxPending, adding, timingOut, told>>
  /\ called' = NULL

\* The bytes of an answer fill the buffer of the DMA, whole or damaged.
Answer(p) ==
  /\ rx[p] = "on"
  /\ \E packet \in {"valid", "broken"} : rx' = [rx EXCEPT ![p] = packet]
  /\ rxPending' = [rxPending EXCEPT ![p] = TRUE]
  /\ UNCHANGED <<jobs, g_currentTransactions, g_phyState, rtxMode, tx, timeoutVars,
                 adding, ending>>
  /\ called' = NULL

\* receptionComplete: the first valid packet ends the transaction.
ReceptionComplete(p) ==
  IF g_phyState[p] = "RX"
    THEN /\ timeout' = [timeout EXCEPT ![p] = FALSE]
         /\ g_phyState' = [g_phyState EXCEPT ![p] = "IDLE"]
         /\ called' = IF g_currentTransactions[p].callback
                        THEN [port |-> p, job |-> g_currentTransactions[p], success |-> TRUE]
                        ELSE NULL
    ELSE called' = NULL /\ UNCHANGED <<timeout, g_phyState>>

\* receiveCompleteCallback, whose last act is TriggerAtEnd.
ReceiveComplete(p) ==
  /\ IF rx[p] = "valid" THEN ReceptionComplete(p)
                        ELSE called' = NULL /\ UNCHANGED <<timeout, g_phyState>>
  /\ ending' = p

\* dma1_stream0_isr, dma1_stream1_isr, dma1_stream2_isr. The driver goes idle
\* even when it finds that the transfer has been reset meanwhile.
DmaIsr(p) ==
  /\ MayRun("handler")
  /\ rxPending[p]
  /\ rxPending' = [rxPending EXCEPT ![p] = FALSE]
  /\ rtxMode' = [rtxMode EXCEPT ![p] = "IDLE"]
  /\ IF rx[p] \in {"valid", "broken"}
       THEN rx' = [rx EXCEPT ![p] = "off"] /\ ReceiveComplete(p)
       ELSE called' = NULL /\ UNCHANGED <<rx, ending, timeout, g_phyState>>
  /\ UNCHANGED <<jobs, g_currentTransactions, tx, adding, timingOut, told>>

\* Both handlers end with a call of triggerTransmission.
TriggerAtEnd ==
  /\ ending # NULL
  /\ Trigger({ending}, g_phyState, rtxMode, tx)
  /\ ending' = NULL
  /\ UNCHANGED <<rx, rxPending, timeoutVars, adding>>
  /\ called' = NULL

-------------------------------------------------------------------------------
\* timeoutInterface1, 2, 3: the timer's loop takes it out of its handle and
\* calls it,
Expire(p) ==
  /\ MayRun("timer")
  /\ ~InTimer
  /\ timeout[p]
  /\ timeout' = [timeout EXCEPT ![p] = FALSE]
  /\ timingOut' = p
  /\ UNCHANGED <<jobs, g_currentTransactions, g_phyState, phyVars, told, adding, ending>>
  /\ called' = NULL

\* it tells the user of the transaction it finds there,
TellTimeout ==
  /\ MayRun("timer")
  /\ timingOut # NULL /\ ~told
  /\ told' = TRUE
  /\ LET job == g_currentTransactions[timingOut] IN
       called' = IF job.callback THEN [port |-> timingOut, job |-> job, success |-> FALSE]
                                 ELSE NULL
  /\ UNCHANGED <<jobs, g_currentTransactions, g_phyState, phyVars, timeout, timingOut,
                 adding, ending>>

\* then resets the driver (dynamixel_phy_resetInterface; the pending interrupt
\* stays) and starts the next job.
MutantResetMode(p) == rtxMode

ResetMode(p) == [rtxMode EXCEPT ![p] = "IDLE"]

Reset ==
  /\ MayRun("timer")
  /\ timingOut # NULL /\ told
  /\ LET p == timingOut IN
       /\ Trigger({p}, [g_phyState EXCEPT ![p] = "IDLE"],
                  ResetMode(p), [tx EXCEPT ![p] = FALSE])
       /\ rx' = [rx EXCEPT ![p] = "off"]
  /\ timingOut' = NULL /\ told' = FALSE
  /\ UNCHANGED <<rxPending, timeout, adding, ending>>
  /\ called' = NULL

-------------------------------------------------------------------------------
AddJob(context) == Begin(context) \/ Put(context) \/ TriggerAfterPuts(context)

Next ==
  \/ \E context \in Contexts : AddJob(context)
  \/ \E p \in Ports : UartIsr(p) \/ Answer(p) \/ DmaIsr(p) \/ Expire(p)
  \/ TriggerAtEnd
  \/ TellTimeout \/ Reset

Spec == Init /\ [][Next]_vars

\* Transmissions end and time passes; a pending interrupt is taken when those
\* that keep it out let go, and a handler or a call of addJob that has begun
\* is carried on. Nothing makes a motor answer or a user ask.
FairSpec ==
  /\ Spec
  /\ \A p \in Ports : SF_vars(UartIsr(p)) /\ SF_vars(DmaIsr(p)) /\ SF_vars(Expire(p))
  /\ WF_vars(TriggerAtEnd) /\ SF_vars(TellTimeout \/ Reset)
  /\ \A context \in Contexts : SF_vars(Put(context) \/ TriggerAfterPuts(context))

-------------------------------------------------------------------------------
\* A port that is not idle waits for something that will come: the end of its
\* transmission or the timeout of its answer. Without it the port hangs, and
\* its queues with it, until the robot is switched off.
NeverHangs ==
  \A p \in Ports :
    /\ g_phyState[p] = "TX" => tx[p]
    /\ g_phyState[p] = "RX" => timeout[p] \/ timingOut = p

\* Jobs never wait at an idle port unless someone is about to trigger it
\* (addJob puts and triggers in two steps, the handlers end a transaction and
\* trigger in two).
NoJobForgotten ==
  \A p \in Ports :
    g_phyState[p] = "IDLE" /\ (\E q \in Priorities : jobs[q][p] # <<>>) =>
      \/ \E context \in Contexts : adding[context] # NULL /\ p \in adding[context].ports
      \/ ending = p

\* The timeout of a port is overtaken when its answer comes while the timer's
\* loop carries it out: the port goes on with its next job, and the timeout
\* tells and resets whatever it finds there. A timeout that this next job has
\* registered may stay registered after the reset, and then it strikes again.
Overtaken(p) ==
  \/ timingOut = p /\ (g_phyState[p] = "RX" => timeout[p])
  \/ timingOut # p /\ timeout[p] /\ g_phyState[p] # "RX"

\* The jobs are carried out as JobService promises: a job is over when its user
\* has been told, for a timeout before the port is reset.
Service == INSTANCE JobService WITH
  waiting <- jobs,
  current <- [p \in Ports |->
    IF g_phyState[p] = "IDLE" \/ (timingOut = p /\ told /\ ~Overtaken(p))
      THEN NULL ELSE g_currentTransactions[p]],
  timeout <- [p \in Ports |-> IF Overtaken(p) THEN "overtaken"
                              ELSE IF timingOut = p THEN "under way" ELSE "none"]

JobServiceSpec == Service!Spec

\* A full queue of jobs of high priority does not stay full, whether the
\* motors answer or not.
QueueDrains ==
  \A p \in Ports : Len(jobs["high"][p]) = QueueSize ~> Len(jobs["high"][p]) < QueueSize

===============================================================================
