--------------------------------- MODULE I2C ---------------------------------
(***************************************************************************)
(* The I2C bus of P2 (target/stm32f4/p2/i2cCommunication.c) and the        *)
(* drivers of the sensors that use it (p2/IMU_phy/L3GD20.c and LSM303.c):  *)
(* a queue of transactions, the event handler's state machine and the      *)
(* error handler.                                                          *)
(*                                                                         *)
(* The peripheral is the environment: whenever its interrupts are enabled  *)
(* it may raise an event, with or without the status the state waits for,  *)
(* or an error.  The two handlers do not interrupt each other.  The polls  *)
(* are clients of the timer; once one of its clients has unmasked the      *)
(* interrupts (SwTimer) the handlers come between any two critical         *)
(* sections of a poll.                                                     *)
(***************************************************************************)
EXTENDS Naturals, Sequences

CONSTANTS
  QueueSize,   \* of g_jobs
  Patience,    \* the failed polls in a row after which the gyroscope resets the bus
  NULL

Devices == {"gyro", "mag"}

\* What the drivers ask for, with fewer bytes than the sensors have.
Transaction == [device : Devices, tx : {0, 2}, rx : {0, 2}]
ReadFrom(device) == [device |-> device, tx |-> 0, rx |-> 2]
WriteTo(device) == [device |-> device, tx |-> 2, rx |-> 0]

\* I2C_STATE_SUB_REGISTER_TX_PENDING is never entered.
States == {"IDLE", "SC_PENDING", "ADDR_TX_PENDING", "TX", "RX_SWAP", "ADDR_RX_PENDING", "RX"}

VARIABLES
  bus,    \* g_jobs, g_currentTransaction (current, tx_sent, rx_reveived),
          \* g_currentState and ITEVTEN (enabled); and, for the property:
          \* the transaction on the bus has not ended (under), its bytes that
          \* have arrived, and how one has ended (outcome)
  poll,   \* the client that runs, or NULL: the transactions it is still to
          \* ask for (todo), the first of them is in the queue (put), it looks
          \* at the result (check), which was this (success)
  ready,  \* the sensors whose polls are registered
  ct      \* the failed polls of the gyroscope in a row

vars == <<bus, poll, ready, ct>>

TypeOK ==
  /\ bus \in [jobs : Seq(Transaction), current : Transaction, tx_sent : 0 .. 2,
              rx_reveived : 0 .. 3, state : States, enabled : BOOLEAN,
              under : BOOLEAN, bytes : 0 .. 2,
              outcome : {"none", "done", "incomplete", "failed", "forgotten"}]
  /\ Len(bus.jobs) <= QueueSize
  /\ \/ poll = NULL
     \/ poll \in [todo : Seq(Transaction), put : BOOLEAN, check : BOOLEAN, success : BOOLEAN]
  /\ ready \subseteq Devices
  /\ ct \in 0 .. Patience

Init ==
  /\ bus = [jobs |-> <<>>, current |-> ReadFrom("gyro"), tx_sent |-> 0, rx_reveived |-> 0,
            state |-> "IDLE", enabled |-> FALSE, under |-> FALSE, bytes |-> 0,
            outcome |-> "none"]
  /\ poll = NULL /\ ready = {} /\ ct = 0

-------------------------------------------------------------------------------
\* A bus whose transaction ends the way "how" says.
Ended(b, how) == [b EXCEPT !.state = "IDLE", !.under = FALSE,
                           !.outcome = IF b.under THEN how ELSE @]

\* triggerTransmission
Start(b) ==
  [jobs |-> Tail(b.jobs), current |-> Head(b.jobs), tx_sent |-> 0, rx_reveived |-> 0,
   state |-> "SC_PENDING", enabled |-> TRUE, under |-> TRUE, bytes |-> 0,
   outcome |-> IF b.under THEN "forgotten" ELSE b.outcome]

MutantTriggered(b) == IF b.state \in {"IDLE", "TX"} /\ b.jobs # <<>> THEN Start(b) ELSE b

Triggered(b) == IF b.state = "IDLE" /\ b.jobs # <<>> THEN Start(b) ELSE b

\* i2cSensorStickForceReset, which starts nothing itself. It is one step: its
\* first write disables the interrupts of the peripheral.
ForceReset(b) == [Ended(b, "failed") EXCEPT !.enabled = FALSE]

\* What the step before has shown is not shown again.
Quiet(b) == [b EXCEPT !.outcome = "none"]

-------------------------------------------------------------------------------
\* i2c_transact, in two critical sections; the first tells whether there was
\* room.
HasRoom(b) == Len(b.jobs) < QueueSize

TransactPut ==
  /\ poll # NULL /\ ~poll.put /\ poll.todo # <<>>
  /\ bus' = IF HasRoom(bus)
               THEN [Quiet(bus) EXCEPT !.jobs = Append(@, Head(poll.todo))] ELSE Quiet(bus)
  /\ poll' = [poll EXCEPT !.put = TRUE, !.success = HasRoom(bus)]
  /\ UNCHANGED <<ready, ct>>

TransactTrigger ==
  /\ poll # NULL /\ poll.put
  /\ bus' = Triggered(Quiet(bus))
  /\ poll' = IF Len(poll.todo) = 1 /\ ~poll.check THEN NULL
              ELSE [poll EXCEPT !.put = FALSE, !.todo = Tail(@)]
  /\ UNCHANGED <<ready, ct>>

Client(transactions, check) ==
  [todo |-> transactions, put |-> FALSE, check |-> check, success |-> FALSE]

\* L3GD20_setupSensor and LSM303_setupSensor
SetupSensor(device) == Client(<<WriteTo(device), ReadFrom(device)>>, FALSE)

\* L3GD20_firstInitSensor and LSM303_firstInitSensor
FirstInitSensor(device) ==
  /\ poll = NULL
  /\ device \notin ready
  /\ ready' = ready \cup {device}
  /\ poll' = SetupSensor(device)
  /\ UNCHANGED <<bus, ct>>

\* pollData of the gyroscope, which looks at the result,
PollData ==
  /\ poll = NULL
  /\ "gyro" \in ready
  /\ poll' = Client(<<ReadFrom("gyro")>>, TRUE)
  /\ UNCHANGED <<bus, ready, ct>>

PollDataChecks ==
  /\ poll # NULL /\ poll.check /\ poll.todo = <<>>
  /\ IF poll.success THEN bus' = bus /\ ct' = 0 /\ poll' = NULL
     ELSE IF ct < Patience THEN bus' = bus /\ ct' = ct + 1 /\ poll' = NULL
     ELSE bus' = ForceReset(Quiet(bus)) /\ ct' = 0 /\ poll' = SetupSensor("gyro")
  /\ UNCHANGED ready

\* and pollAccData and pollMagData, which do not.
PollMagData ==
  /\ poll = NULL
  /\ "mag" \in ready
  /\ poll' = Client(<<ReadFrom("mag")>>, FALSE)
  /\ UNCHANGED <<bus, ready, ct>>

-------------------------------------------------------------------------------
\* The transaction goes on with its reading, or is done.
ReadOrDone(b) == IF b.current.rx # 0 THEN [b EXCEPT !.state = "RX_SWAP"] ELSE Ended(b, "done")

\* A byte arrives; the last one is followed by the callback, with all of them.
\* (The counter has 4 values for 256.)
MutantReceive(b) ==
  LET c == [b EXCEPT !.rx_reveived = (@ + 1) % 4, !.bytes = IF @ < 2 THEN @ + 1 ELSE @] IN
  IF c.rx_reveived + 1 = c.current.rx
    THEN Ended(c, IF c.bytes = c.current.rx THEN "done" ELSE "incomplete")
    ELSE c

Receive(b) ==
  LET c == [b EXCEPT !.rx_reveived = (@ + 1) % 4, !.bytes = IF @ < 2 THEN @ + 1 ELSE @] IN
  IF c.rx_reveived = c.current.rx
    THEN Ended(c, IF c.bytes = c.current.rx THEN "done" ELSE "incomplete")
    ELSE c

\* i2c2_ev_isr in its state; "status" is what the state waits for, "af" that
\* nobody has acknowledged.
Handled(b, status, af) ==
  CASE b.state = "SC_PENDING" ->
         IF status THEN [b EXCEPT !.state = "ADDR_TX_PENDING"] ELSE Ended(b, "failed")
    [] b.state = "ADDR_TX_PENDING" ->
         IF status THEN [b EXCEPT !.state = "TX"]
         ELSE IF af THEN Ended(b, "failed") ELSE b
    [] b.state = "TX" /\ b.tx_sent < b.current.tx ->
         IF status THEN [b EXCEPT !.state = "TX", !.tx_sent = @ + 1] ELSE b
    [] b.state = "TX" /\ b.tx_sent >= b.current.tx -> ReadOrDone(b)
    [] b.state = "RX_SWAP" -> IF status THEN [b EXCEPT !.state = "ADDR_RX_PENDING"] ELSE b
    [] b.state = "ADDR_RX_PENDING" -> IF status THEN [b EXCEPT !.state = "RX"] ELSE b
    [] b.state = "RX" -> IF status THEN Receive(b) ELSE b
    [] b.state = "IDLE" -> [b EXCEPT !.enabled = FALSE]

EvIsr ==
  /\ bus.enabled
  /\ \E status, af \in BOOLEAN :
       /\ af => ~status
       /\ bus' = Triggered(Handled(Quiet(bus), status, af))
  /\ UNCHANGED <<poll, ready, ct>>

\* i2c2_er_isr: nobody has acknowledged, there was an error on the bus, or one
\* it does not look at.
ErIsr ==
  /\ bus.enabled
  /\ LET b == Quiet(bus) IN bus' \in {Triggered(c) : c \in {Ended(b, "failed"), ForceReset(b), b}}
  /\ UNCHANGED <<poll, ready, ct>>

Next ==
  \/ \E device \in Devices : FirstInitSensor(device)
  \/ PollData \/ PollDataChecks \/ PollMagData
  \/ TransactPut \/ TransactTrigger
  \/ EvIsr \/ ErIsr

Spec == Init /\ [][Next]_vars

-------------------------------------------------------------------------------
\* A transaction that was begun ends before the next one begins: it is done, a
\* read with as many bytes as its callback is told, or one of the failures has
\* ended it. Two handlers, the polls and the reset start transactions behind
\* each other's back.
TransactionsEnd == bus.outcome \notin {"incomplete", "forgotten"}
===============================================================================
