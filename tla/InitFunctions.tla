----------------------------- MODULE InitFunctions -----------------------------
(***************************************************************************)
(* The init functions of all modules (MODULE_INIT_FUNCTION), one           *)
(* definition for each: at which level it is called, what it switches on   *)
(* (clocks), what it takes for itself (pins, streams), which interrupts it *)
(* enables with which priority, the speed of its serial lines, what it     *)
(* registers with other modules, what of these registrations it clears,    *)
(* and the buffers for packets that it takes.                              *)
(***************************************************************************)
EXTENDS Integers, TLC

-------------------------------------------------------------------------------
\* What init functions do.

Module(level) ==
  [level |-> level, clocks |-> {}, uses |-> {}, pins |-> {}, streams |-> {}, irqs |-> {},
   serial |-> {}, registers |-> {}, clears |-> {}, buffers |-> 0]

Pins(port, numbers) == {<<port, n>> : n \in numbers}
Streams(dma, numbers) == {<<dma, n>> : n \in numbers}
Irqs(names, priority) == [name : names, priority : {priority}]

\* Registrations: with the timer, for a message, for a pin, of the callbacks of
\* the Dynamixel driver and of the use of a button.
Timer(callback) == <<"timer", callback, callback>>
Message(id, callback) == <<"message", id, callback>>
Exti(port, n, callback) == <<"exti", n, callback, port>>
PhyCallback(callback) == <<"phy", callback, callback>>
ButtonConfig(n, config) == <<"button", n, config>>
Kinds == {"timer", "message", "exti", "phy", "button"}

\* msgProxy_addMsgForBroadcast
Broadcast(id) == Message(id, "msgProxy")

\* gpio_registerFor_interrupt switches on whichever clocks have the bits of the
\* port's index, and enables the interrupt that the pin shares.
ExtiClocks(port) ==
  CASE port = "PORTA" -> {} [] port = "PORTB" -> {"PORTA"} [] port = "PORTC" -> {"PORTB"}

ExtiIrq(n) ==
  CASE n \in 0 .. 4 -> <<"EXTI", n, n>> [] n \in 5 .. 9 -> <<"EXTI", 5, 9>>
    [] n \in 10 .. 15 -> <<"EXTI", 10, 15>>

\* exti0_isr .. exti15_10_isr: the pins whose callbacks they call.
Dispatched(irq) == irq[2] .. irq[3]

Exti_(m) == {r \in m.registers : r[1] = "exti"}
IrqsOf(m) == m.irqs \cup [name : {ExtiIrq(r[2]) : r \in Exti_(m)}, priority : {0}]
ClocksOf(m) == m.clocks \cup UNION {ExtiClocks(r[4]) : r \in Exti_(m)}

\* What must have its clock on.
UsesOf(m) ==
  m.uses \cup {x[1] : x \in m.pins \cup m.streams} \cup {s.uart : s \in m.serial}
         \cup (IF Exti_(m) = {} THEN {} ELSE {"SYSCFG"})

-------------------------------------------------------------------------------
\* Frequencies in Hz: what the registers of the clock mean,
McoDivider(code) == IF code < 4 THEN 1 ELSE code - 2
BusDivider(code) == IF code < 4 THEN 1 ELSE 2 ^ (code - 3)
PllDivider(code) == 2 * code + 2

\* what clock_init writes to them, with the frequency of the oscillator: P1 has
\* a crystal, and P2 runs on what P1 puts out at its pin.
ClockSetupP1 ==
  [hse |-> 8000000, mco |-> 6, m |-> 4, n |-> 168, p |-> 0, q |-> 7, ppre1 |-> 5, ppre2 |-> 4,
   rtcpre |-> 8]
MutantClockSetupP2 ==
  [hse |-> ClockSetupP1.hse \div McoDivider(ClockSetupP1.mco), mco |-> 0,
   m |-> 4, n |-> 168, p |-> 0, q |-> 7, ppre1 |-> 5, ppre2 |-> 4, rtcpre |-> 2]

ClockSetupP2 ==
  [hse |-> ClockSetupP1.hse \div McoDivider(ClockSetupP1.mco), mco |-> 0,
   m |-> 2, n |-> 336, p |-> 0, q |-> 7, ppre1 |-> 5, ppre2 |-> 4, rtcpre |-> 2]

\* and what comes out. The timers run at twice the frequency of a divided bus.
Frequencies(c) ==
  LET vco == (c.hse \div c.m) * c.n
      sys == vco \div PllDivider(c.p)
      apb1 == sys \div BusDivider(c.ppre1)
      apb2 == sys \div BusDivider(c.ppre2)
  IN [sys |-> sys, rng |-> vco \div c.q, apb1 |-> apb1, apb2 |-> apb2,
      apb1timer |-> 2 * apb1, apb2timer |-> 2 * apb2, rtc |-> c.hse \div c.rtcpre]

\* The frequencies all the other modules count on.
Clock ==
  [sys |-> 168000000, rng |-> 48000000, apb1 |-> 42000000, apb2 |-> 84000000,
   apb1timer |-> 84000000, apb2timer |-> 168000000, rtc |-> 1000000]

BusOf(uart) == IF uart \in {"USART1", "USART6"} THEN "apb2" ELSE "apb1"

\* A serial line whose divider is for "speed" if it hangs on "bus".
Serial(uart, bus, speed) == [uart |-> uart, brr |-> Clock[bus] \div speed, speed |-> speed]

\* rtc_firstInit: the second is divided from the clock in two stages.
RtcDividers == <<99 + 1, 9999 + 1>>

-------------------------------------------------------------------------------
\* Init functions of both processors.

MemoryInit == [Module(1) EXCEPT !.clears = Kinds]

MsgPumpInit == Module(2)

FloatingInit == Module(2)

HwTimerInit ==
  [Module(2) EXCEPT !.clocks = {"TIM5"}, !.uses = {"TIM5"}, !.irqs = Irqs({<<"TIM5">>}, 255)]

ConfigurationInit == Module(3)

GpioInterruptsInit == [Module(3) EXCEPT !.clocks = {"SYSCFG"}, !.clears = {"exti"}]

RandomInit == [Module(3) EXCEPT !.clocks = {"RNG"}, !.uses = {"RNG"}]

SystemTimeInit ==
  [Module(3) EXCEPT !.clocks = {"TIM2"}, !.uses = {"TIM2"}, !.irqs = Irqs({<<"TIM2">>}, 4)]

SwTimerInit == [Module(4) EXCEPT !.clears = {"timer"}]

\* Every interface takes a buffer.
InterfacesCount == 10
GenericProtocolInit == [Module(5) EXCEPT !.buffers = InterfacesCount]

MutantDispatcherInit ==
  [Module(2) EXCEPT
     !.registers = {Message("PACKET_READY", "onReceivedPacket_msgPumpCallback")}]

DispatcherInit ==
  [Module(5) EXCEPT
     !.registers = {Message("PACKET_READY", "onReceivedPacket_msgPumpCallback")}]

RpcManagerInit == Module(5)

RtcInit == [Module(5) EXCEPT !.clocks = {"PWR"}, !.uses = {"PWR"}]

BootloaderInit == [Module(9) EXCEPT !.clocks = {"PORTB"}, !.pins = Pins("PORTB", {8})]

HeartBeatInit ==
  [Module(9) EXCEPT !.clocks = {"PORTC"}, !.pins = Pins("PORTC", {3}),
     !.registers = {Timer("heartBeat_timerCB"),
                    Message("HEARTBEAT", "heartBeat_msgPumpCallback")}]

InterfaceStatisticsInit ==
  [Module(9) EXCEPT !.registers = {Message("PACKET_STATISTICS", "onInterfaceStatistics")}]

GenericProtocolLateInit == [Module(9) EXCEPT !.registers = {Timer("onStatisticsTimer")}]

-------------------------------------------------------------------------------
\* Init functions of P1.

ClockInitP1 == [Module(0) EXCEPT !.clocks = {"PORTA"}, !.pins = Pins("PORTA", {8})]

P2RstInit == [Module(1) EXCEPT !.clocks = {"PORTA"}, !.pins = Pins("PORTA", {5})]

SystemInitP1 == Module(2)

\* The ports of the Dynamixel bus, and how one of them is set up.
Interfaces ==
  {[uart |-> "UART5", tx |-> <<"PORTC", 12>>, rx |-> <<"PORTD", 2>>, txe |-> <<"PORTC", 8>>,
    rxe |-> <<"PORTC", 7>>, dma |-> "DMA1", txStream |-> 7, rxStream |-> 0],
   [uart |-> "USART3", tx |-> <<"PORTB", 10>>, rx |-> <<"PORTB", 11>>, txe |-> <<"PORTC", 5>>,
    rxe |-> <<"PORTB", 1>>, dma |-> "DMA1", txStream |-> 3, rxStream |-> 1],
   [uart |-> "UART4", tx |-> <<"PORTC", 10>>, rx |-> <<"PORTC", 11>>, txe |-> <<"PORTC", 0>>,
    rxe |-> <<"PORTC", 1>>, dma |-> "DMA1", txStream |-> 4, rxStream |-> 2]}

InterfacePins(i) == {i.tx, i.rx, i.txe, i.rxe}
EnableClockForUART(i) == {i.uart}
EnableClockForPort(i) == {pin[1] : pin \in InterfacePins(i)}
EnableClockForDMA(i) == {i.dma}
EnableDMAInterrupt(i) == Irqs({<<i.dma, i.rxStream>>}, 5)
EnableUARTInterrupt(i) == Irqs({<<i.uart>>}, 1)
SetupDMA(i) == Streams(i.dma, {i.rxStream, i.txStream})
SetupUART(i) == {Serial(i.uart, BusOf(i.uart), 1000000)}

DynamixelPhyInit ==
  [Module(4) EXCEPT
     !.clocks = UNION {EnableClockForUART(i) \cup EnableClockForPort(i)
                         \cup EnableClockForDMA(i) : i \in Interfaces},
     !.pins = UNION {InterfacePins(i) : i \in Interfaces},
     !.irqs = UNION {EnableUARTInterrupt(i) \cup EnableDMAInterrupt(i) : i \in Interfaces},
     !.streams = UNION {SetupDMA(i) : i \in Interfaces},
     !.serial = UNION {SetupUART(i) : i \in Interfaces},
     !.clears = {"phy"}]

DynamixelInit ==
  [Module(6) EXCEPT !.registers = {PhyCallback("receiveCompleteCallback"),
                                   PhyCallback("transmittCompleteCallback")}]

Com2mainInit ==
  [Module(5) EXCEPT
     !.clocks = {"USART1", "PORTA", "DMA2"}, !.pins = Pins("PORTA", {9, 10}),
     !.streams = Streams("DMA2", {5, 7}), !.irqs = Irqs({<<"USART1">>, <<"DMA2", 7>>}, 0),
     !.serial = {Serial("USART1", "apb2", 921600)},
     !.registers = {Message("PACKET_READY", "onReceivedPacket")}]

P2pInitP1 ==
  [Module(5) EXCEPT
     !.clocks = {"USART2", "PORTA", "DMA1"}, !.pins = Pins("PORTA", 0 .. 3),
     !.streams = Streams("DMA1", {5, 6}), !.irqs = Irqs({<<"USART2">>, <<"DMA1", 5>>}, 0),
     !.serial = {Serial("USART2", "apb1", 1000000)},
     !.registers = {Exti("PORTA", 0, "onRxSigFlank")}, !.buffers = 1]

\* g_usrButtonSetup has one button more than are set up.
ButtonCnt == 4
ButtonMessage == <<"USR_BUTTON_1", "USR_BUTTON_2", "USR_BUTTON_3", "USR_BUTTON_4">>
ButtonPins == <<{5, 4}, {7, 6}, {14, 9}, {12, 13}, {0, 1}>>

UsrButtonsInit ==
  LET pins == UNION {ButtonPins[i] : i \in 1 .. ButtonCnt} IN
  [Module(5) EXCEPT
     !.clocks = {"PORTB"}, !.pins = Pins("PORTB", pins), !.clears = {"button"},
     !.registers = {Exti("PORTB", n, "onButtonPressed") : n \in pins}
                   \cup {Broadcast(ButtonMessage[i]) : i \in 1 .. ButtonCnt}]

DynamixelForwarderInit ==
  [Module(7) EXCEPT !.registers = {Message("FORWARDER_ISR_SWAP", "onForwardMotorReadMsg")}]

UsrButtonApplicationInit ==
  [Module(8) EXCEPT
     !.registers = {ButtonConfig(i, "LED_ON_LISTENING") : i \in 2 .. ButtonCnt}
                   \cup {Message(ButtonMessage[i], "onButtonPressed_app") :
                           i \in 1 .. ButtonCnt}]

IdleMotionInit ==
  [Module(9) EXCEPT !.registers = {Message(ButtonMessage[1], "onButtonPressed_idle"),
                                   ButtonConfig(1, "LED_ON_LISTENING")}]

MotorsInit ==
  [Module(9) EXCEPT
     !.registers = {Timer("triggerReadMotors"), Timer("onTriggerPushUp"),
                    Message("TRIGGER_PUSH_MOTOR_VALUES", "onPushDataToOdroid"),
                    Message("TRIGGER_READ_MOTORS", "onReadMotors")}]

MotorWriterInit ==
  [Module(9) EXCEPT !.registers = {Message("USER_MOTOR_SWITCH", "onUserButtonSwitchChanged"),
                                   Timer("initializeMotors")}]

DynamixelPowerInit ==
  [Module(9) EXCEPT
     !.clocks = {"PORTB", "PORTC"}, !.pins = Pins("PORTC", {13, 14}) \cup Pins("PORTB", {15}),
     !.registers = {Exti("PORTB", 15, "onMtrPwrShutdown"), Broadcast("MOTOR_PWR_FAILURE"),
                    Timer("onReleasePWRLine")}]

-------------------------------------------------------------------------------
\* Init functions of P2.

ClockInitP2 == Module(0)

SystemInitP2 == Module(1)

Comm2pwrBrdInit ==
  [Module(3) EXCEPT
     !.clocks = {"USART6", "PORTC", "DMA2"}, !.pins = Pins("PORTC", {6, 7}),
     !.streams = Streams("DMA2", {1, 6}), !.irqs = Irqs({<<"USART6">>, <<"DMA2", 6>>}, 0),
     !.serial = {Serial("USART6", "apb2", 115200)}]

P2pInitP2 ==
  [Module(5) EXCEPT
     !.clocks = {"USART1", "PORTA", "DMA2"}, !.pins = Pins("PORTA", 9 .. 12),
     !.streams = Streams("DMA2", {5, 7}), !.irqs = Irqs({<<"USART1">>, <<"DMA2", 5>>}, 0),
     !.serial = {Serial("USART1", "apb2", 1000000)},
     !.registers = {Exti("PORTA", 11, "onRxSigFlank")}, !.buffers = 1]

I2cInit ==
  [Module(5) EXCEPT
     !.clocks = {"PORTB", "I2C2"}, !.uses = {"I2C2"}, !.pins = Pins("PORTB", {10, 11}),
     !.irqs = Irqs({<<"I2C2_EV">>}, 1) \cup Irqs({<<"I2C2_ER">>}, 0)]

\* Its theme starts at once: it calls setFreq of the dac, now and in the timer.
BuzzerInit ==
  [Module(6) EXCEPT
     !.uses = {"TIM3", "TIM4", "DMA1"},
     !.registers = {Message("REL_BAT_VOLTAGE", "onRelBatVoltage"),
                    Message("BAT_VOLTAGE", "onAbsBatVoltage"), Timer("onTimerAfterDuration")}]

DacInit ==
  [Module(6) EXCEPT
     !.clocks = {"DAC", "PORTA", "DMA1", "TIM3", "TIM4"}, !.uses = {"DAC", "TIM3", "TIM4"},
     !.pins = Pins("PORTA", {4, 5}), !.streams = Streams("DMA1", {2, 6})]

L3GD20Init ==
  [Module(8) EXCEPT !.registers = {Timer("L3GD20_firstInitSensor"),
                                   Message("GYRO_RAW_DATA", "onNewRawGyroData")}]

LSM303Init ==
  [Module(8) EXCEPT !.registers = {Timer("LSM303_firstInitSensor"),
                                   Message("ACCEL_RAW_DATA", "onNewRawAccData"),
                                   Message("MAGNETO_RAW_DATA", "onNewRawMagData")}]

ImuInit ==
  [Module(9) EXCEPT
     !.registers = {Timer("imu_timerCB"), Message("ACCEL_SCALED_DATA", "app_imu_accel"),
                    Message("GYRO_SCALED_DATA", "app_imu_gyro"),
                    Message("MAGNETO_SCALED_DATA", "app_imu_mag"),
                    Message("IMU_SEND_DATA", "app_imu_send")}]

TimesyncInit ==
  [Module(9) EXCEPT !.registers = {Timer("timeSync_timerCB"),
                                   Message("TRIGGER_TIME_SYNC", "onTriggerTimeSync")}]

-------------------------------------------------------------------------------
CommonModules ==
  [memory |-> MemoryInit, msgPump |-> MsgPumpInit, floating |-> FloatingInit,
   timer |-> HwTimerInit, configuration |-> ConfigurationInit,
   gpio_interrupts |-> GpioInterruptsInit, random |-> RandomInit,
   systemTime |-> SystemTimeInit, swTimer |-> SwTimerInit,
   genericProtocol |-> GenericProtocolInit, dispatcher |-> DispatcherInit,
   rpcManager |-> RpcManagerInit, rtc |-> RtcInit, bootloader |-> BootloaderInit,
   heartBeat |-> HeartBeatInit, interfaceStatistics |-> InterfaceStatisticsInit,
   genericProtocolLate |-> GenericProtocolLateInit]

ModulesP1 ==
  [clock |-> ClockInitP1, p2Rst |-> P2RstInit, system |-> SystemInitP1,
   dynamixelPhy |-> DynamixelPhyInit, com2main |-> Com2mainInit, p2p |-> P2pInitP1,
   usrButtons |-> UsrButtonsInit, dynamixel |-> DynamixelInit,
   dynamixelForwarder |-> DynamixelForwarderInit,
   usrButton_application |-> UsrButtonApplicationInit, idleMotion |-> IdleMotionInit,
   motors |-> MotorsInit, motorWriter |-> MotorWriterInit,
   dynamixelPower |-> DynamixelPowerInit]

ModulesP2 ==
  [clock |-> ClockInitP2, system |-> SystemInitP2, comm2pwrBrd |-> Comm2pwrBrdInit,
   p2p |-> P2pInitP2, i2c |-> I2cInit, buzzer |-> BuzzerInit, dac |-> DacInit,
   L3GD20 |-> L3GD20Init, LSM303 |-> LSM303Init, imu |-> ImuInit, timesync |-> TimesyncInit]

\* The modules that are linked into the program of a board.
ModulesOf == [P1 |-> CommonModules @@ ModulesP1, P2 |-> CommonModules @@ ModulesP2]
===============================================================================
