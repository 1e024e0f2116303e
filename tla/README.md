# erolf: a verification project

erolf is the firmware of a humanoid robot: a framework ("flawless": message
pump, software timer, framed protocol, RPC, logging) and the applications of two
STM32F4 processors. P1 talks to the main computer, the motors (Dynamixel buses,
RS485) and P2; P2 reads the inertial sensors over I2C and plays sounds. There is
no operating system: a main loop calls `msgPump_pumpMessage` again and again, and
everything else happens in interrupt handlers and in callbacks.

The modules here are translated from the C sources under `src/src/`; paths below
are relative to that directory. `PROJECT.json` maps every definition to its lines.

## 1. Inventory

| component | state | operations | who calls it | what makes it correct |
|---|---|---|---|---|
| message pump (`framework/flawless/core/msg_msgPump.c`) | ring of posted messages, pools with a reference count and a flag per buffer, a callback vector per message ID | post, getFreeBuffer, lock, unlock, register, unregister, pump | all handlers, all callbacks, the main loop | every message handed out once to every receiver, in order, unchanged; a buffer is never reused under a user; no buffer leaks |
| interrupt mutex (`target/stm32f4/p1,p2/system.c`) | a counter; PRIMASK | lock, unlock | everything | sections are not interrupted, and end |
| software timer (`framework/flawless/timer/swTimer.c`) and TIM5 (`target/stm32f4/hwTimer.c`) | handles with a relative countdown; one hardware counter that is restarted | register, unregister, trigger | every context, and the timer's own clients | nobody called early, twice or after cancelling; no wakeup lost |
| generic fifo (`framework/include/flawless/misc/fifo/genericFiFo.h`) | data, start, end, count | put, peek, get | handlers, the main loop, DMA | it is a queue |
| links to the computers (`p1/comm2MainComputer.c`, `p2/comm2pwrBrd.c`) | transmit ring, DMA block, send gate; circular reception ring | send, DMA complete; byte received | protocol | bytes leave and arrive in order; the sender's busy wait ends |
| framed protocol, dispatcher, RPC, msgProxy, data proxies (`framework/flawless/protocol`, `rpc`, `application/*/dataProxy.c`) | receiver state, escape flag, checksum | receive a byte, send a frame, pass a packet on, answer | links | what is received was sent; the receiver synchronises again after a loss; every packet reaches those it is for, once |
| link between the processors (`p1,p2/p2p_comm.c`) | frame ring, frame ends, pause | queue a frame, DMA complete, pause over | protocol | frames are not torn or merged |
| Dynamixel bus (`application/p1/dynamixel.c`, `target/stm32f4/p1/dynamixel_phy.c`) | job queues per port, transaction, timeout; half duplex mode | queue a job, send, receive, time out, reset | motor reader and writer, forwarder | each job answered once, by its own answer or its timeout |
| motor reader, motor writer, forwarder, idle motion (`application/p1`) | positions, failures, offsets, the register being read | periodic reads, goals, packets of the main computer | main loop, bus callbacks | what is sent was read recently; an offset is added once on the way to a motor and removed on the way back |
| user buttons, gpio interrupts (`target/stm32f4/p1/usrButtons.c`, `gpio_interrupts.c`) | configuration, debounced state, the mask all pins share | edge, evaluation, set up | gpio handlers, timer, main loop | every change is reported |
| I2C bus, gyroscope, accelerometer (`target/stm32f4/p2`) | transaction queue, state machine, watchdog | poll, event, error | handlers, timer | a transaction ends with its callback, or the bus is reset |
| inertial data (`application/p2/app_gyroReader.c`, `imu/`) | calibrations, filter state and covariance, equal samples | sample, filter step, calibrate, save | message pump, RPC | a frozen sensor resets the processor; the filter is the filter; calibrations are one whole |
| system time, time synchronisation (`systemTime.c`, `app_timeSync.c`) | overflow count, offset | request, answer | timer, links | the error is at most what the exchange took and what a slow clock loses |
| configuration in flash (`target/stm32f4/configuration.c`, `flash.c`) | one sector | write, load | RPC | what is loaded was saved, as far as a power loss allows |
| sound (`p2/dac.c`, `application/p2/buzzer.c`) | the theme and its next note, the timer's registrations | play, next note, alarm | main loop, timer | a theme is played whole or replaced |
| module initialisation (`framework/.../systemInitializer.h`, every `*_init`) | clocks, pins, streams, interrupts, registrations | one function per module, by level | reset | no table overflows; nothing is used before it is set up |
| logging, boot loader, clocks, C library, libopencm3 | | | | see 8 |

How they interact: handlers call the pump, the timer and each other's services
directly; the pump calls receivers from the main loop only. The mutex masks all
interrupts and nests by counting.

Interrupt priorities. The code hands 1, 4, 5 or nothing (0) to
`nvic_set_priority`, and 0xff for TIM5 (`hwTimer.c:81`). That function writes the byte as
it is (`nvic.c:154`), and a processor has "16 priority levels only, given by the
upper four bits" (`nvic.c:145`): 0 to 15 are all the highest level, 0xff is the lowest.
So no handler interrupts another one, except that all of them interrupt TIM5's, in which the clients
of the software timer run, wherever these are not masked. All modules below have that structure.

The hard behaviours are: the main loop's unmasked accesses to data handlers
change; nested critical sections, where a function of the pump unlocks more or
fewer times than it locked; a timer whose time base is restarted by every
registration; timeouts racing answers; rings a DMA fills or empties behind the
program's back; values that are read again after they were checked; tables that are
filled in the order in which modules happen to be linked. `PROJECT.json` lists
each of them at its line under "hazards".

## 2. Modules

| module | models | state and actions |
|---|---|---|
| `MessageQueue` | nothing of the code: the promise of `msg_msgPump.h` | a sequence of pending messages, the current one, who is still due to get it, and the messages receivers have locked. Reading a message is reading a value, so a buffer reused too early is visible as a changed message |
| `MsgPump` | `msg_msgPump.c`, `system_mutex_*`, and the way the repository's producers and receivers use them | the variables have the code's names. `Handler` (`GetFreeBuffer`, `FillBuffer`, `PostHeld`, ...) runs while the mutex counter is 0; `TimerHandler` is `swTimer_trigger` around clients that post; `Pump` is `msgPump_pumpMessage`, cut at every place where an interrupt may be served; `Callback` is what receivers do |
| `MsgPumpProofs` | theorems about `MsgPump`, and that it implements `MessageQueue` | |
| `SwTimer` | `swTimer.c`, `hwTimer.c` | a context each for main loop, timer interrupt and other interrupts, with a program counter and the locals of the loop over the handles; `Tick` is the hardware. Clients that post (`Posting`) end the loop's section. History variables name the clients to which the code does wrong then (`struck`, `rushed`, `overlooked`) |
| `SwTimerProofs` | theorems about `SwTimer` | |
| `GenericFifo` | `genericFiFo.h` | operators on a fifo: `Put`, `Peek`, `Get`, each with the condition under which it succeeds. No variables |
| `GenericFifoProofs` | theorems about `GenericFifo` | |
| `FrameChannel` | nothing of the code: what the link between the processors is for | the frames on the way and the packet handed out last; a frame is lost only if the receiver is `excused`, without a buffer or refused by the pump at this frame or the one before, and only when it is next; none is torn, merged, repeated or overtaken |
| `P2PLink` | `p2p_comm.c` of both processors, one direction: the sender with its fifo of bytes (a `GenericFifo`) and of frame ends, the receiver. The two files differ in how they take and leave the DMA, so `sender` is P1 or P2 | `PutByte`, `TriggerByMain`, `MarkEnd` and `PutStop` are the main loop sending a frame, `TransmissionComplete` and `PauseOver` the handlers that interrupt it, `MoveByte` the DMA and the line (a block may end early, as the DMA came late for a byte; `halted` says that P1's did), `RxSigFlank` and `RxComplete` the receiver's handlers |
| `P2PLinkProofs` | theorems about `P2PLink` | |
| `JobService` | nothing of the code: what `interfaces/dynamixel.h` promises | per port two queues of jobs, a current one, and the outcome told to its owner; and one exception, the `timeout` that an answer overtakes while it is under way |
| `Dynamixel` | `dynamixel.c`, `dynamixel_phy.c` | per port the queues, the transaction and the driver's mode; contexts main loop, timer and handlers; `PutJob`, `Trigger...`, the two interrupts, and the timeout in three steps: the timer's loop fetches it (`Expire`), it tells the user (`TellTimeout`), it resets the port (`Reset`); the handlers come between any two |
| `DynamixelProofs` | theorems about `Dynamixel`, and that it implements `JobService` | |
| `TxRing`, `RxRing` | the two rings of `comm2MainComputer.c` and `comm2pwrBrd.c` | bytes numbered in the order in which they are stored or arrive; `TxRing` also has the gate of P1's link |
| `TxRingProofs`, `RxRingProofs` | theorems about the two rings | |
| `FlawlessProtocol` | `genericFlawLessProtocol.c` | a sender that escapes and sums up byte by byte, a line that loses and alters bytes, and the receiver's state machine, with bytes of real values |
| `Routing` | dispatcher, `msgProxy.c`, `RPC.c`, both `dataProxy.c` | four boards in a line with the queue of each pump and the frames between them |
| `I2C` | `i2cCommunication.c`, `L3GD20.c`, `LSM303.c` | the queue, the event handler's states, the error handler, the polls of the sensors and the forced reset |
| `MotorReader` | `motorReader.c` | the positions byte by byte, the failures and the idle value, a send that is interrupted by the end of a read |
| `MotorCommands` | `motorWriter.c`, `dynamixelForwarder.c`, `idleMotion.c` | goals, packets and reads with offsets, over the job queues of the bus |
| `Sound` | `dac.c`, `buzzer.c` | `g_musicPtr` and the three callbacks of the timer against a main loop that starts a theme |
| `Buttons` | `usrButtons.c`, `gpio_interrupts.c`, `usrButtonsConfig.c` | edge, evaluation and setup, with the read and the write of the shared mask as two steps |
| `Calibration` | calibrations of `app_gyroReader.c` and `imu/`, `configuration.c`, `flash.c` | RAM and sector field by field; a restart between any two writes |
| `TimeSync` | both `app_timeSync.c`, `systemTime.c` | three clocks, two of which are slow, and the frames between them |
| `ImuWatch` | the watchdog of `app_gyroReader.c` | equal samples, the flag, the timer that resets |
| `Matrix`, `Filter` | `matrix.c`, `quaternion.c`, `kalmanFilter.c`, `offsetCalibration.c` | matrices over a finite field; prediction, updates and the calibration of the mounting |
| `InitFunctions`, `Startup` | every `MODULE_INIT_FUNCTION`; `systemInitializer.h` | a record per init function: level, clocks, pins, streams, interrupts, registrations; `Startup` runs them by level in any order within a level |
| `MCMsgPump`, `MCSwTimer`, `MCP2PLink`, `MCDynamixel` | | values of constants |
| `MCParts` | | the parts that share nothing with each other, in one run: a behaviour chooses a part at its start and leaves the others alone, so what is checked of it is what a run of its own would check. The sizes of the parts are CONSTANTS with assumptions, and have their values in `Parts.cfg` |
| `PartsProofs` | theorems about twelve of the parts | |

Composition. `MsgPump` includes the mutex and the timer's callers, `SwTimer` the
posts that end its section; `P2PLink` uses `GenericFifo`; `Startup` uses
`InitFunctions`; `Filter` uses `Matrix`. Other modules take from one another what
these have been shown to do: `Dynamixel` has the timer as "calls whom it has
registered, once", and the section that the loop may have lost as handlers that come between any two steps;
`MotorCommands` has the bus as `JobService`; queues that are sequences here (`stops`
in `P2PLink`, the jobs of `Dynamixel` and `I2C`) are generic fifos in the code, which
`GenericFifoProofs` justifies; `Routing` has a pump as a queue that may be full.

Granularity. What runs with interrupts masked is one step. In `MsgPump` every
unmasked access of the main loop to shared data is a step of its own. In `SwTimer`
the loop runs in a section, but a client may end that section (finding 2), so its
steps are separate and a nested context may run between any two. In `P2PLink` each
section is a step, and handlers come between any two of them; so in `Dynamixel` and
`I2C`. `Sound`, `Buttons` and `MotorReader` have no sections, or not where it matters:
every access to what two contexts share is a step.

Names beginning with `Mutant` are a definition of the code with a plausible bug
put in. No specification uses them. For every property `PROJECT.json` names one
that must break it.

## 3. Runs

| run | shows | distinct states |
|---|---|---|
| `msg_pump_pools` | with a ring two places larger than the pools: buffers are counted (`ReferencesCounted`), exclusive (`WriterIsAlone`), flagged right (`FlagsTell`), the ring never fills (`NeverFull`), and the pump implements `MessageQueue` | 247,000 |
| `msg_pump_full` | with a ring of two places that overflows, and a producer that posts a stale pointer (none of the repository's does; what holds all the same is more general): the ring stays consistent (`RingShape`), only forgotten buffers leak (`NothingElseLeaks`), and what was posted is handed out (`PostedIsDispatched`) | 76,000 |
| `msg_pump_masked` | finding 1 | |
| `msg_pump_section` | finding 2 | |
| `sw_timer_posting` | with a heart beat that posts, as in both builds: no call of a client that is not waiting (`CalledOnlyIfWanted`), none early in real time (`NeverEarly`), no wakeup lost (`WokenForAll`), but for clients which an interrupt strikes between test and call, or to which a second loop comes before the first has restarted the counter | 2,470,000 |
| `sw_timer_pause` | a one shot that registers itself again and a heart beat that unmasks the loop: what is due is called (`DueIsCalled`) | 46,000 |
| `sw_timer_cancel` | finding 3 | |
| `p2p_frames` | the queued frame ends match the frames in the ring (`StopsTell`), the sender's busy waits end unless P1's DMA was late for a byte (`SenderReturns`), and the link implements `FrameChannel`, whichever processor sends: no frame is lost unless the receiver had no buffer | 583,000 |
| `p2p_assert` | finding 4 | |
| `dynamixel_bus` | no port of the motor buses hangs (`NeverHangs`), no job waits at an idle port (`NoJobForgotten`), and the bus implements `JobService`: each job is carried out in its order of priority and told to its owner once, with its own answer or none, unless an answer overtakes its timeout | 1,028,000 |
| `dynamixel_drains` | a full queue gets room again, whether motors answer or not (`QueueDrains`) | 58,000 |
| `parts` | one of 14 modules in each behaviour, see the next table | 714,000 |

`parts` checks the `TypeOK` of every part and:

| part | shows | distinct states |
|---|---|---|
| `FlawlessProtocol` | the receiver of frames finds its way back after one frame (`FramesFollowNoise`), and a wrong byte is noticed (`WrongByteIsCaught`) | 42,000 |
| `TxRing`, `RxRing` | bytes leave and arrive once and in order (`BytesInOrder`), and the ring's DMA never stops with bytes in it (`RingIsServed`) | 1,500 and 200 |
| `Routing` | a frame reaches every board it is for, once, and no other (`DeliveredAsIntended`) | 6,600 |
| `I2C` | a transaction ends before the next one begins (`TransactionsEnd`) | 21,500 |
| `MotorReader` | a position that is sent is one of the last five reads, or says that the motor is lost (`PositionsAreRecent`) | 8,500 |
| `MotorCommands` | a goal that is read back is the one that was sent, less the offset if it was sent to all (`ReadsBackWhatWasMeant`) | 184,000 |
| `Sound` | a theme is played to its end and leaves silence (`ThemesAreWhole`) | 8,400 |
| `Buttons` | a change of a button is told (`EdgesAreReported`) | 141,000 |
| `Calibration` | P2 starts with calibrations that belong together, whatever a restart cut off (`CalibrationsAreWhole`) | 19,700 |
| `TimeSync` | a synchronised clock is ahead by half a round trip at most, and behind by that or the request's way and by what it has lost, as it is slow (`SyncedWithinPing`) | 275,000 |
| `ImuWatch` | the watchdog rescues nobody (`ResetAfterRecovery`) | 1,800 |
| `Filter` | covariance, gain, length and mounting come out as the filter takes them to be (`FilterIsExact`) | 2,400 |
| `Startup` | no table overflows (`NothingIsRefused`), and what is set up works (`PeripheralsAreUsable`), in any order of linking | 1,070 |

### Bounds

`msg_pump_pools`: one buffer in each of two pools and two producers that compete
for one of them, one in a handler and one a client of the timer; the other pool
takes copies posted by handlers, by the timer and by a callback. One buffer is
enough for contention: every reuse is a reuse of the one somebody else may still
have. Two receivers, of which one registers and unregisters from inside a
callback, in two slots: enough for a slot emptied before and behind the one being
called. Two payloads: a content is the old or the new one. Ring of 4: two
buffers and the two places `NeverFull` needs, so it wraps round with entries of every
age in it. `msg_pump_full` has a ring of 2, which fills with NULL messages.
`MaxLock` 3 bounds the mutex counter: the code nests two deep, and each failed
post adds one; at the bound no further post to a full ring is tried.

`sw_timer_*`: a tick stands for some ticks of TIM5; intervals of 1, 2 and 3 and a
counter up to 3 or 4 let a registration fall before, at and after every expiry.
`MinOnRegister` < `MinOnTrigger` as in the code (4 and 40 ticks). In `sw_timer_posting` the main loop
registers the heart beat, which posts when it is called, and handlers register, restart and cancel a one shot: enough for a
handler's step between any two of the loop's, and for two loops at once. It and `sw_timer_cancel` have one handle more than clients, so that a freed slot before a
taken one occurs; `sw_timer_pause` has as many as clients.
`MaxCount` bounds `TIM_CNT`, and `MaxInLoop` the ticks between the reading of
`TIM_CNT` and its reset. In `sw_timer_pause` it is 1, less than `MinOnTrigger`: one
run through the loop is shorter than the least time the hardware is set up for.
Without that, the ticks lost between reading and resetting the counter would make
a client late for ever, and on a real processor the main loop would not run either.

`p2p_frames`: a ring of four bytes and frames of two and three, so that frames begin and end
at every index, wrap, and fill the ring together. `MaxPacket` is 4, so that two frames
of two would fit into one packet if they were merged, and a frame of three fits behind a
byte that was left over. Frames are shorter than the ring and than the packet, both 128 bytes in
the code: at exactly 128 the link does lose frames, see "Smaller things". (`p2p_assert` has a ring of three.) Consecutive frames have different numbers of two, enough to tell
a frame from its neighbours; all that is on the way is at most the ring, one byte in
the receiver's register and one packet. `Punctual` is an assumption, stated in
`p2p_interface.h:18`: the receiver serves the end of a frame within the pause. The line
alters no byte. It may go quiet (`USART_SR_TC`) inside a block, as the DMA comes late for a byte: P2's handler
makes the rest a block of its own; P1's leaves it counted and never sets a block up again, which is modelled as it is
(`halted`).

`dynamixel_bus` has two ports, so that a job for all of them can find room on one
only, and a queue of one per port and priority, which fills at once; the requests are
those of the repository: a read of all ports with a callback, a write to one without answers, a ping of one.
`dynamixel_drains` has one port and queues of two. In both the handlers come between any two steps of the
timer's clients, as a client that posts has unmasked them (finding 2); only the test of a callback and its call are one step.

`parts`, in the order of the table above:
 - The frames of `FlawlessProtocol` are chosen so that ID, payload and checksum each are a
   control character in one of them; two just fit, two do not, of which one has a `BEGINNING` behind
   the last byte there is room for. Two bytes are lost or altered, to a control character or by 1, at any
   place: enough to spoil an end and a beginning. `FramesAreFound` needs none of these bounds.
 - A ring of 3 for sends of 1, 2 and 4 bytes, and one of 4 for what arrives: every
   index is a start, and the longest send waits for room twice.
 - Two frames of the boards' own are under way at once, of every kind; each frame
   meets itself, a copy and one other.
 - Three places in the queue of `I2C`: the two that a forced reset adds and one. Two failed
   polls in a row reset the bus.
 - One motor in `MotorReader` (motors are independent), with two values to report,
   two offsets and two reads in flight at most; two of its limits, `MaxFailures` 3 and
   `MaxReads` 1, bound the history. In `MotorCommands` one motor, one goal, two offsets (one of them 0) and a
   lifted arm, queues of two, one message to the main loop.
 - `Sound` has the notes of every theme. Two buttons, of which one is set up anew; behaviours of
   `Buttons` end where an old mask is written back (`MaskIsOld`), after which nothing is stated.
 - `Calibration` has one field for each way calibrations change, two half words each.
 - `TimeSync` ends after 4 units of time and two requests, with two tries instead of 10. `Divider` is 3 instead
   of 85: a clock loses one unit of three, and may lose its first one at any of them.
   `Filter` ends after four steps. These two stop at their bounds with a step
   that changes nothing (`TimeIsUp`, `StepsAreDone`); `Routing` idles (`PumpsIdle`).
 - `ImuWatch`: two equal samples for 100, four ticks for 20.
 - `Filter` has the numbers of a field of 7 elements, in which there is a root of 1/2. All
   that is stated are equations between polynomials and quotients, which hold in every field or are
   wrong in most; what rounding does to them is not looked at.
 - `Startup` has the real tables of both processors.

Deadlock is checked everywhere but in the runs of `MsgPump` whose ring can fill
from a place where the mutex counter is at its bound: there the program really may
stop doing anything (finding 1).

### Fairness

`MsgPump`: strong fairness of `Pump`, as the main loop is run for ever and handlers do
not follow each other without end (the timer is armed at least 40 ticks ahead, the
other handlers wait for bytes); the timer's handler returns; callbacks return.
Nothing is assumed of producers: they may never post. `SwTimer`: time passes
(weak), each context that runs takes its steps, and the timer interrupt, pending
again and again, is served in the end (strong: it can be masked in between). `P2PLink`: the main loop goes on
although handlers interrupt it (strong: each handler is caused by a byte or a pause
that ends), the line moves bytes as long as the DMA is on, the receiver serves its interrupts, the pause's timer
expires; the transmission-complete handler is served though other handlers keep it
waiting (strong). Nothing makes the main loop send. `Dynamixel`: a transmission ends, an
answer that has begun or its timeout comes, and a call of `addJob` that has begun is
carried on though interrupts come in between (strong); the second half of a handler
follows its first (weak), and a timeout that the timer has fetched is carried through although handlers interrupt it
(strong: handlers wait for bytes). Nothing makes a motor answer.

The properties of `parts` are safety properties: where something must happen in the end, they say
that it has happened when nothing is left to be done.

## 4. Findings

1. `msgPump_postMessage` returns from a full queue with the mutex locked
   (`msg_msgPump.c:146`). Interrupts can stay masked for ever, and everything that
   depends on them stops (`msg_pump_masked`; only another post of copied data, which unlocks once too often, can open them again): a sender that waits for room in a `TxRing` too,
   in its busy loop.
2. A post of copied data unlocks the mutex twice (`msg_msgPump.c:250` and `277`),
   so a post nested in a critical section ends that section (`msg_pump_section`).
3. Because of 2, `swTimer`'s loop can be interrupted between its test of a handle and
   its second read of it; a client that has been cancelled meanwhile, or NULL, is called
   (`sw_timer_cancel`: `NobodyElseIsCalled`). For the same reason a registration can come between `isHandlingClients =
   false` and the setup of the hardware (`swTimer.c:181`): its loop subtracts the elapsed time a second time (clients are
   called early, `rushed`) and its setup is overwritten by the older one (`overlooked`). `CalledOnlyIfWanted`, `NeverEarly` and `WokenForAll` state
   what is true nevertheless, of everybody else. On the motor buses an answer can come between the timer's test of a
   timeout and its call: the owner of the job is told twice, and the job that the port carries out by then may be dropped. `JobService` has that
   as its exception (`"overtaken"`), and no other.
4. `phySendFunction0_EndOfFrameMarker` reads the end of a frame in a critical section
   (`p2p_comm.c:125`) and queues it after that (`:127`). If the transmission is completed in
   between, the assertion in `trigger_transmision` (`:155`) is false (`p2p_assert`). The
   code goes on correctly, as `StopsTell` and `FrameChannel` show: the end is signalled when the
   next frame begins, so a frame waits until then.

### Smaller things

Met on the way; the models follow the code in all of them, or leave the case out where
the comment of a property says so. No run checks them.

Message pump and timer:
 - `msg_msgPump.h:112` says that a post sets the reference count to the number of
   callbacks and line 121 that each of them decrements it; the code sets it to 1
   and decrements it once, after the last callback.
 - `msgPump_unregisterFromMessage` returns FALSE whatever it did
   (`msg_msgPump.c:103`).
 - For a message posted as NULL the pump writes the flag of a header below address 0
   (`msg_msgPump.c:413`). In `MsgPump` that write is lost.
 - A receiver is not registered twice with the initial vectors of the repository. In general a
   vector `[NULL, r]` and a registration of r gives `[r, r]`.
 - A registration made while another context is in the timer's loop, into a slot
   that the loop has passed, is late by as much as the next expiry of any client, which is why
   `DueIsCalled` says only "sooner or later". The heart beat bounds it in practice.
 - The numbers 1, 4 and 5 given to `nvic_set_priority` all mean level 0, see 1.

Links:
 - If the line goes quiet inside a block, P1's sender on the link between the processors stops for
   ever (`p1/p2p_comm.c:215` leaves a count that is not 0); P2's goes on. `SenderReturns` excepts it (`halted`).
 - A message that came in from outside and that a processor broadcasts itself goes out on all of its interfaces, back to its
   sender too (`msgProxy.c:59`). `DeliveredAsIntended` does not count these echoes (`echoed`).
 - On that link a missing receive buffer costs the frame after it too: the byte left in `USART_DR` is
   the first one of the next packet (`p2p_comm.c:281` and after).
 - A frame of exactly 128 bytes that is queued while the sender pauses has its end taken for that of the
   frame before (`trigger_transmision` finds the stop index equal to `g_txFifo.start` of a full ring and
   ends at once). It runs into the next frame, and both are lost. TLC finds this if `Lengths` contains `FifoSize`.
   Likewise a frame of 128 bytes does not fit behind a byte left in `USART_DR` by a frame that was lost.
 - Two complete frames in one packet have the checksum 0: if the end of a frame is served later than the
   pause lasts, they are handed on as one.
 - The receiver of the framed protocol gives a frame up that is longer than a packet, and then takes an escaped
   `BEGINNING` for one that is not (`genericFlawLessProtocol.c:193` to `225`: too long a frame leaves the state "unknown", in which
   an escape character means nothing). What follows is handed on as a frame if its sum happens to be right.
 - The handlers of the reception rings assume that the DMA has stored a byte before they look,
   and must not be behind by 512 bytes.
 - A frame begun while another one is being sent on the same interface would go into the middle of it.
   In this build all frames are sent by the main loop (logging is compiled out).
 - RPCs are not passed on: a computer reaches the processor next to it only. `sendRPC_responseManually` is not used.
 - 921600 baud are 923076 in fact.

Motors:
 - For a SYNC_WRITE the forwarder adds the offset to the pointer to a value
   (`dynamixelForwarder.c:199`, `208`, `217`), so `ReadsBackWhatWasMeant` leaves goals out that are set by one while there is
   an offset; for a WRITE or REG_WRITE to all motors it adds none, and the goal is read back less the offset, as the property says. A read of only the
   second byte of a position is not adjusted. A second read, for another register, before the first
   one's answer makes that answer be looked at with the wrong register.
 - `initializeMotors` gives motors of the legs the setup of others (`motorWriter.c:203`, `210`).
 - Positions are sent byte by byte while reads end; one may be half old, half new (`motorReader.c:149`).
   `PositionsAreRecent` is about sends that no read has touched (`touched`).
 - `dynamixel_reset` returns at once.

Sensors:
 - `stopMagCalibration` does not save. A save during a calibration of the gyroscope stores the sum.
   `stopGyroCalibration` without a sample stores a NaN, after which the next start replaces all
   calibrations by the defaults.
 - P1's two variables in flash are integers, of which none is checked: after a cut save it loads what
   an erased flash reads as.
 - The watchdog never fires while a sensor is frozen: it fires 100 ms after the sensor has recovered.
 - The I2C counter of received bytes wraps at 256. The setup that is written to the L3GD20
   after a forced reset is lost: the queue is still full. A transaction whose start condition does not appear is dropped
   without a call of its callback (`i2cCommunication.c:234`); `TransactionsEnd` is about those that the bus has begun.
 - `mat_inv` does not pivot: it fails for matrices that have an inverse, or returns `MATRIX_OK`
   with a wrong one if the corner of a minor is 0, as for [[2,0,1],[0,1,1],[1,1,3]]; `kf_update` does not
   look at what it returns. `FilterIsExact` is about matrices with pivots (`HasPivots`).
 - The comment at `kalmanFilter.c:55` says x*w, the matrix F computes w*x. `quat_interpolate` scales what
   was in its result before.

Others:
 - `playTheme` interrupted by the timer of the theme before can read past its theme's last note, or
   delay the beep; an alarm that sounds between the silencing and the end of its registration stays on; `alarm off` silences only channel 1.
 - `EXTI_IMR` is read and written in two steps in several contexts: a button can stay masked
   for ever; `EdgesAreReported` says nothing after such a write (`masked`). An edge between the reading of the port and the unmasking is lost.
 - `systemTime.c:51` sets the prescaler to the clock divided by the resolution, without the 1 that has to be
   subtracted: the timer divides by 85 instead of 84, and the clock loses 1.2 % (`TimeSync` has it so).
 - An answer about the time is taken for the one to the last request; `SyncedWithinPing` bounds what comes of it. P2 counts unanswered requests and
   says after 10 that it is no longer synchronised; P1 counts those it passes on, so if P2 asks no more, P1 says it is synchronised for ever while it
   drifts. `getSystemTimeUS` reads the counter before the high part, so an overflow between them gives a time that is 2^32 us ahead.
 - `gpio_registerFor_interrupt` ors a port's index into `RCC_AHB1ENR` (`gpio_interrupts.c:52`). The
   table of buttons has a fifth entry behind the four that are used; its pins would collide with the link's.
 - The receive interrupts of both computer links are on before `genericProtocol_init` has run: a byte that
   comes then takes one of 20 buffers, which is forgotten. 12 are needed at most.
 - The buzzer may start its theme before `dac_init` (both have level 6): its first tone is lost.
 - The pin of the motor power stays an output, also where the code means to read it.

## 5. Proofs

Eight modules hold theorems: one each for the message pump, the fifo, the software timer, the link between
the processors, the motor buses and the two rings, and `PartsProofs` for parts of `parts`. Each
takes the component's `Spec` as TLC runs it, for all values of its constants.
Where a theorem assumes more than its module's ASSUME, the assumption is in its statement and below.

### Message pump

`MsgPumpProofs` proves, for every number of message IDs, buffers, producers,
receivers and slots and every size of the ring:

| theorem | of `Spec`, always |
|---|---|
| `TypeCorrect` | `TypeOK` |
| `ReferencesAreCounted` | `ReferencesCounted` |
| `WritersAreAlone` | `WriterIsAlone` |
| `FlagsAreRight` | `FlagsTell` |
| `RingIsConsistent` | `RingShape` |
| `OnlyForgottenLeaks` | `NothingElseLeaks` |
| `RingNeverFills` | `NeverFull` |
| `PumpIsQueue` | `MessageQueueSpec`: `MsgPump` implements `MessageQueue` |

Assumptions: `ConstantsAssumption` of `MsgPump`, which TLC evaluates in every run,
and `StaleProducers = {}`: producers give their pointer up when a post succeeds,
which all of the repository's do. A stale post declares a buffer free under its
users, and the second, third and fourth would be false. `msg_pump_full` checks `RingShape` and
`NothingElseLeaks` without that assumption. `RingNeverFills` also assumes
`NullIDs = {}` and `Cardinality(Buffers) + 1 < QueueSize`; the second is what the
pools and `MSG_PUMP_MSG_QUEUE_MAX_SIZE` of a build have to satisfy. P1 does (58
buffers, 128 places, nothing posted as NULL); P2 has fewer buffers (46), but its
`app_timeSync.c` posts NULL.

The inductive invariant `IInv` is `TypeOK`, `RingShape`, "`running` is set exactly
inside a callback", and `BufferOK(b)` for every buffer. Counting is not inductive by
itself: that a buffer taken for a post is nobody's follows from the count; that a
count of 1 is the producer's own follows from its being alone; that the
post of a fetched buffer does not take the branch that declares it free follows from
the flag; and the flag needs the pump's place in the code. So the three are proved
together, buffer by buffer: one lemma per action, each splitting buffers into the
one the action touches and the rest. `EnqueueRing` and `AdvanceRing` say what the two
operations do to the set of places between front and tail and are all that is used of
the ring's arithmetic. `RingNeverFills` strengthens `IInv` by "all
entries hold buffers" and "none is lost": entries not yet handed out hold different
buffers, so a full ring would need as many buffers as places but one.

`PumpIsQueue` holds for rings that fill and pools that run empty, too. It assumes `StaleProducers = {}` and
`OneProxy`: the init functions register a receiver once, one function comes and goes at run time (the `msgCallback` of
`msgProxy.c` is the only one that ever unregisters), and has no empty slot before its own at first. With an empty slot before
its own it could be registered twice and be handed a message twice ("Smaller things"). `QueueInv` adds to `IInv`
what this buys: an entry names the pool of its buffer (`EntriesArePooled`); a receiver has one slot of a message, a
proxy the first it could have (`OneSlotEach`); a proxy that was called for the current message has left, or still has, a slot behind the
loop, so that a new registration does not put it ahead of the loop (`ServedAreBehind`). The contents
stay because `BufferOK` says that a buffer in the ring or locked is no producer's, and that a free one is in neither (`ContentsStay`).
A post then appends one message to those pending (`PostIsPost`), which is again about places of the ring
(`Places`, `TailIsNext`); most other actions change nothing that the queue consists of (`QuietIsStutter`).

### Fifo

`GenericFifoProofs` proves the operators of `GenericFifo` right for every size and every set of
values: `InitIsEmpty`, `PutAppends`, `PeekIsElement` and `GetTakesOldest` say what each operation does to
`Contents`, the sequence of what is in the ring, and that it keeps the fifo consistent. The lemmas are
about positions modulo the size: `Wraps` and `SumWraps`, from which `EndMoves`, `EndIsFree` (the place a
put writes to is none of the contents) and `StartMoves` follow. On these theorems rest the
sequences that stand for fifos in `P2PLink` (`stops`), `Dynamixel` and `I2C`. The only
assumption is that the size is a positive number. Every fifo's operations run under the mutex, so no two
of them overlap.

### Software timer

`SwTimerProofs`, for every number of clients and handles and all intervals:

| theorem | of `Spec`, always |
|---|---|
| `TypeCorrect` | `TypeOK`: counters of handles and hardware within their bounds |
| `OneInLoop` | `LoopOK`: one context at most is in the loop over the handles, the flag says so, and only the handle that the loop is at may have a negative counter |
| `CallsAreWanted` | `CalledOnlyIfWanted`: nobody is called who does not wait for it, unless an interrupt struck the client between the test of its time and its call |
| `NobodyIsEarly` | `NeverEarly`: nobody is called early in real time, unless it was struck or rushed |
| `HardwareWakesForAll` | `WokenForAll`: while nobody is in the timer the hardware will interrupt in time for all clients that were not overlooked |

No theorem assumes anything of the clients: any of them may post, register others or themselves, and be registered and cancelled by any context at any step.
What they except are the very steps of finding 3, each named by a history variable at the action that takes it. A context is in `struck` from the moment at
which a handler registers anew or unregisters the client whose time it has tested until it has called; then a client can be
called that does not wait, and `sw_timer_cancel` shows it. A client is `rushed` when a second loop is entered before the first
one has restarted the counter, until it is registered anew or, if it is periodic, called. A client is `overlooked` by a loop that has passed its handle when it is registered, and
by such a second loop, whose setup the first one's overwrites; the next loop sees it.
Without clients that post, nobody is ever struck or rushed, and only what a client registers is overlooked. So
what finding 2 breaks is not the loop's own exclusion (`OneInLoop`: the flag keeps that) but that a handle may change under it.

The inductive invariant is `TimerInv`, proved in `TimerInvariance`: `IInv`, which is `TypeOK` and `LoopOK`; which contexts can be in the timer above
which others, and with the mutex locked or not (`Nested`); a client in a handle, or fetched from one and not struck, is wanted and
stands in one handle (`HandlesAreWanted`); no counter is ahead of the real time left (`CountersAreLate`); and the least
time the loop has found is no more than that of any handle it has passed (`LeastIsNext`), of which `WokenForAll` is what is left when the loop is done.
`CountersAreLate` says for every place of the loop how the counter, the elapsed time still to be subtracted, and the hardware counter
relate: the hardware counts on between the reading of `TIM_CNT` and its reset, and these lost ticks make clients
late but never early. Each part is one lemma per action.

### Link between the processors

`P2PLinkProofs`, for every size of the ring and all lengths of frames, whichever processor sends:

| theorem | assumes | of `Spec`, always |
|---|---|---|
| `TypeCorrect` | | `TypeOK`: the DMA's block is within the bytes in the ring and does not reach across its wrap; the receiver's DMA stays within its buffer |
| `BlocksEndAtFrames` | | `StopsAreAhead`: the queued ends of frames are in order, none is behind the block's begin or ahead of the ring's contents, so no block reaches across an end |
| `EndsAreTold` | `FramesFit` | `StopsTell`: exactly the marked frames in the ring have their end queued, in order, and one more at most, at the start |
| `LinkIsChannel` | `Punctual`, `FramesFit`, `PacketsFit` | `FrameChannelSpec`: `P2PLink` implements `FrameChannel` |

`FramesFit` says that no frame fills the ring, `PacketsFit` that none fills a packet. A frame that does, of 128 bytes in the
code, does get lost ("Smaller things"). `Punctual` is what `p2p_interface.h:18` asks of the receiver. The state holds absolute indices that wrap, and two ends that are equal modulo the ring
may be different ones; so `IInv` says that there is a function `d` from the queue of ends to distances from the ring's start
with which they are in order (`AreAhead`). `EndsAreTold` takes in addition what the bytes are: the byte that was put last is
before the next one of its frame, neighbours in the ring are neighbours in frames, and the queue of ends,
as distances, is the increasing list of the marked last bytes (`MarksInv`).

For `LinkIsChannel` the two ends of the line must agree (`TheyAgree`, which `ChannelInv` adds to `MarksInv`): there are a frame
f and a number p of its bytes that the line has moved, the ring of the sender begins with the byte after these, and
the receiver has exactly those p bytes in its packet (`HasAll`), or has them behind the first byte of a lost frame, which was left
in `USART_DR` (`HasOneMore`), or is without a buffer (`HasNone`), or has emptied a packet that was full before the frame's end
(`HasGivenUp`). The frames on the way are f, if the receiver
has not answered for it, and those that end in the ring (`FramesEnding`, of which appending and cutting off are the only facts used).
That the ends stay in order is an argument by the least place at which two lists differ.

### Motor buses

`DynamixelProofs`, for every number of ports, length of queues and set of requests:

| theorem | of `Spec` |
|---|---|
| `TypeCorrect` | always `TypeOK`: no queue overflows, and what is carried out was asked for |
| `NoPortHangs` | always `NeverHangs` |
| `JobsAreTriggered` | always `NoJobForgotten` |
| `BusCarriesOutJobs` | `JobServiceSpec`: `Dynamixel` implements `JobService` |

`PortOK` ties a port's transaction, its driver's mode, the UART's interrupts and its timeout to one another, and
`PutsAreTriggered` says that a call of `addJob` which has put a job to a port will still trigger that port. For the
refinement each action of `Dynamixel` is one of `JobService` on one port or a stutter. The timer's loop may have lost its section, so a handler may
come between the fetching of a timeout, its call and the reset of its port; an answer that does has overtaken
the timeout (`Overtaken`), and the refinement maps that to the state of `JobService` in which a user may be told twice and a job
dropped. `Serving(p)` and `Timeout(p)` are what a port's state stands for there; each step of the proof says what becomes of
them at one port, that they stay at the others, and that no port is overtaken but by an answer that comes while the
port's own timeout is under way (`NoneIsOvertaken`, `OvertakenAt`).

### Rings

`TxRingProofs` proves `BytesInOrder` (`SentAsStored`) and `RingIsServed` (`RingIsAlwaysServed`) for every size and all lengths of
sends, with and without the gate; `RxRingProofs` proves `BytesInOrder` (`HandedAsArrived`) for every size. The invariants say that the DMA's
transaction lies between `start` and the end of what is stored, and which numbers the bytes
there have; of the reception ring, that the read index is as far behind the DMA's place as bytes were not yet handed on.
`LinkKeepsOrder` and `LinkIsServed` of `PartsProofs` carry this over to the composition: the parts' formulas there
are instances of the same modules.

### Parts

`PartsProofs` proves of `Spec` of `MCParts`, with constants as its ASSUMEs let them be:

| theorem | states | inductive invariant |
|---|---|---|
| `LinkKeepsOrder` | `BytesInOrder` | those of the rings |
| `LinkIsServed` | `RingIsServed` | that of `TxRing` |
| `WatchRescuesNobody` | `ResetAfterRecovery` | `PutOff`: while a sensor is flagged, the countdown and the silence make up the interval |
| `ClocksAreWithinPing` | `SyncedWithinPing` | `TimeInv`: requests waiting for P1 are in order and newer than those it has passed on; an answer to a request has a time between the request and now; each accepted answer bounds the error by its round trip; a clock has lost no more since then than one unit of every `Divider`, and the one the prescaler is at |
| `TransactionsAllEnd` | `TransactionsEnd` | `BusInv`: a transaction is under way exactly while the state machine is not idle, its byte counter is the number of bytes which have come, and polls put whole transactions |
| `RestartsFindCalibrations` | `CalibrationsAreWhole`, of every step | `Calibrated`: the sector holds a beginning of what was to be saved, all of it unless a restart cut the save off; P2 starts with what it finds there, or with the defaults |
| `ThemesEnd` | `ThemesAreWhole` | `Themes`: how many notes have been sounded goes with the index and with the callback that is left, or the step of `playTheme` (`ThemeAt`); whose tone the channel has, its callback is registered (`ChannelAt`) |
| `NoEdgeIsSwallowed` | `EdgesAreReported` | `ButtonsInv`: a listening button that is masked has an evaluation to come (`Heard`); what is believed of it is true, or is what the evaluation has read (`Believed`) |
| `MotorsAreWhereTold` | `PositionsAreRecent` | `ReaderInv`: the position is the newest answer among the last reads and `failures` counts those after it, or all have failed (`Told`); a send that no read touched has the low byte of it |
| `FramesAreFound`, `SumFindsWrongByte` | `FramesFollowNoise`, `WrongByteIsCaught` | `ProtocolInv`: of a frame to which nothing has happened the receiver has the bytes that were sent, the sum the sender has and a mode that knows of a pending `ESCAPE`, or has given it up as too long (`HasSent`); between frames nobody waits for an escaped byte (`InStep`) |
| `EveryFrameArrives` | `DeliveredAsIntended` | `RouteInv`: of a frame and a board it is due at, the board has it, or exactly one place in exactly one queue is bound for that board (`FrameOK`); a packet waits only where it came in on the side of its sender (`EntryOK`) |
| `GoalsAreReadBack` | `ReadsBackWhatWasMeant` | `CommandsInv`: wherever a goal is - in a queue, registered in a motor, in force - it is what was sent and the motor's offset modulo the width, or without the offset if it was sent to all (`Fits`); all reads that wait ask for `currentRegister` unless they were mixed |

The properties are not inductive because each speaks of the end of a path on which the invariant has to follow the
datum: a goal from the forwarder through a queue and a motor back to an answer, a time from a request to its
answer through three processors. `GoalsAreReadBack` needs facts on remainders that the provers do not have
(`OneRemainder` and what follows from it): that an offset added modulo the width and taken away modulo
the width gives the same value, also below zero.

`FramesAreFound` is about every frame, every size of a packet and every number of lost or altered bytes; a byte may
arrive as any other one (`Differences`). With one wrong byte the two sums differ from then on (`SumsDiffer`), also when later bytes
are escaped, so the sum at the end is not 0.

`EveryFrameArrives` follows every frame through both queues: what a processor passes on is what lies beyond it seen from
the sender (`FloodsOn`), so each board is reached from one side and what the outer boards need is carried by one
packet. An answer is due as soon as its request is sent, and the request is what is bound for it (`NewIsDue`). It
holds for every set of messages and calls and however many frames are on their way.

What these theorems assume is in the ASSUMEs of `MCParts`: `RingsAssumption`, `TimeAssumption`, `BusAssumption`,
`ReaderAssumption`, `CommandsAssumption` and `WatchAssumption` say that sizes are positive and numbers are integers;
`ProtocolAssumption` that frames consist of bytes and a packet has room for one;
`RoutesAssumption` that a call which answers is not one of those which do not;
`CalibrationAssumption` that the default calibration is one; `ButtonsAssumption` and `SoundAssumption` that NULL is no button and no theme.
The exceptions of the properties (`missed`, `masked`, `struck`, `touched`, `mixed`) are ghosts that the models set
where the code goes wrong; they are part of what is stated, see "Smaller things".

### What the attempts showed

`SwTimer.Expire` left out the `MIN` by which the code limits a late client's next countdown; `TypeOK` was not inductive
before it had it. `TypeOK` of the timer needs `Interval` to be numbers and `AtStart` one client at most, which are now assumed
and evaluated. That a frame which fills the ring loses its end is where the step of `EndsAreTold` fails
without `FramesFit`. `StopsTell`, `MotorReader.Known` and
`MotorCommands.Reads` were restated without recursion, to be provable; TLC finds the same states. So was the sender of
`FlawlessProtocol`, byte by byte as in the code instead of one sequence per frame. `FramesFollowNoise` said that a frame which does not
fit is not handed on: `HasSent` was not inductive for a frame with a `BEGINNING` in the part that does not fit, and with such a frame
among `SomeFrames` TLC showed why ("Smaller things"). The refinement of `JobService` was
proved of a timer loop that is masked at first, and the timer's theorems of clients that do not post; neither is true of the builds. Without these assumptions the proofs
fail at exactly the steps that `Overtaken`, `struck`, `rushed` and `overlooked` now name. `FrameChannel` let any frame on the way be lost; the
proof needs no more than the loss of the next one, which is now all it allows.

## 6. Only model-checked

 - Of the parts: `TypeOK`, `NothingIsRefused` and `PeripheralsAreUsable`, the last two because they
   are about given tables.
 - Liveness (`PostedIsDispatched`, `DueIsCalled`, `SenderReturns`, `QueueDrains`) is out of the prover's reach and stays with TLC.
 - So does what needs an induction over data: the determinants of `Matrix` (`FilterIsExact`).

## 7. Plan

The modules that were planned are written; the message pump, the software timer, the rings, the motor buses and the parts are proved, but for what section 6 lists.

Left to model: that the receiver of `P2PLink` recovers from a frame it had no buffer for; frames begun inside frames;
the timers of the motor power.

## 8. Not modelled

 - libopencm3 is vendored: about 9,600 lines that name registers. Register access, the bit patterns of
   peripherals, and the peripherals' behaviour beyond what the modules' headers say.
 - Logging is compiled out (`NO_LOG_OUTPUT`). `logging_init`'s inner loop tests and increments the variable of
   the outer one.
 - The parts of the C library the firmware brings along, printing, random matrices and other
   functions that only tests call.
 - Numbers where they do not steer anything: scaling, axes, rates, Euler angles, frequencies and
   durations of sounds, the values motors are set up with, statistics.
 - The timers that switch the motor power, the counters of presses of a button, the boot loader, the test code.
 - In `MsgPump` the header's magic number: nothing in the repository alters it. In `TimeSync` the wrap of the clocks.

Components marked "partly" in `PROJECT.json` are those of which one of these things is left out; their notes say which.
