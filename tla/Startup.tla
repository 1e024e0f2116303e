-------------------------------- MODULE Startup --------------------------------
(***************************************************************************)
(* The start of a board: systemInitialize calls the init functions of all  *)
(* modules by their level, those of one level in the order in which they   *)
(* are linked, which nothing fixes.                                        *)
(*                                                                         *)
(* Interrupts are not masked during the start.  One of them matters here:  *)
(* a byte received before the protocol is initialised makes it take a      *)
(* buffer that it forgets when it is.                                      *)
(***************************************************************************)
EXTENDS InitFunctions, FiniteSets

VARIABLES
  board,    \* the processor: P1 or P2
  done,     \* the modules that are initialised
  inForce,  \* the registrations in force
  taken,    \* buffers of MSG_ID_GENERIC_PROTOCOL_PACKET_READY in use
  early     \* one was taken for a byte that came before the protocol was ready

vars == <<board, done, inForce, taken, early>>

Modules == ModulesOf[board]

MaxHandles == 32     \* SW_TIMER_MAX_HANDLES
MaxReceivers == 4    \* MAX_AMOUNT_OF_MSG_RECERIVER_PER_MESSAGE
BufferCount == 20    \* GENERIC_PROTCOL_BUFFER_COUNT

TypeOK ==
  /\ board \in {"P1", "P2"}
  /\ done \subseteq DOMAIN Modules
  /\ inForce \subseteq UNION {Modules[name].registers : name \in done}
  /\ taken \in 0 .. BufferCount
  /\ early \in BOOLEAN

Init ==
  /\ board \in {"P1", "P2"}
  /\ done = {} /\ inForce = {} /\ taken = 0 /\ early = FALSE

\* Timers and messages have a limited number of places, a message has a pool
\* only after the pump has found it, and a pin has one callback. The modules
\* are not told of a registration that is refused, or do not look.
Accepted(r, m) ==
  CASE r[1] = "timer" ->
         Cardinality({x \in inForce \cup m.registers : x[1] = "timer"}) <= MaxHandles
    [] r[1] = "message" ->
         /\ "msgPump" \in done
         /\ Cardinality({x \in inForce : x[1] = "message" /\ x[2] = r[2]}) < MaxReceivers
    [] r[1] = "exti" -> \A x \in inForce : x[1] = "exti" /\ x[2] = r[2] => x[3] = r[3]
    [] r[1] \in {"phy", "button"} -> TRUE

\* systemInitialize calls the next init function.
InitModule(name) ==
  LET m == Modules[name] IN
  /\ name \notin done
  /\ \A other \in DOMAIN Modules : Modules[other].level < m.level => other \in done
  /\ done' = done \cup {name}
  /\ inForce' = {r \in inForce : r[1] \notin m.clears}
                \cup {r \in m.registers : Accepted(r, m)}
  /\ taken' = taken + m.buffers
  /\ UNCHANGED <<board, early>>

\* A byte from the main computer or from the power board, whose interrupts are
\* enabled before genericProtocol_init or in any order with it.
ReceiveByte ==
  /\ {"com2main", "comm2pwrBrd"} \cap done # {}
  /\ "msgPump" \in done /\ "genericProtocol" \notin done /\ ~early
  /\ early' = TRUE
  /\ taken' = taken + 1
  /\ UNCHANGED <<board, done, inForce>>

\* All are initialised; the message pump takes over.
Started == done = DOMAIN Modules /\ UNCHANGED vars

Next == (\E name \in DOMAIN Modules : InitModule(name)) \/ ReceiveByte \/ Started

Spec == Init /\ [][Next]_vars

-------------------------------------------------------------------------------
\* What an init function has registered, set or asked for it has got and keeps:
\* every timer, receiver and callback of a pin is in force, none was refused
\* and none was cleared by the init function of another module, in whichever
\* order the linker puts the modules of a level; and the buffers suffice.
NothingIsRefused ==
  /\ \A name \in done : Modules[name].registers \subseteq inForce
  /\ taken <= BufferCount

ClocksAreRight ==
  "clock" \in done =>
    /\ Frequencies(IF board = "P1" THEN ClockSetupP1 ELSE ClockSetupP2) = Clock
    /\ RtcDividers[1] * RtcDividers[2] = Clock.rtc

\* (The first tone of the buzzer is lost if the dac is initialised after it.)
AreClocked ==
  LET on == UNION {ClocksOf(Modules[name]) : name \in done} IN
  \A name \in done \ {"buzzer"} : UsesOf(Modules[name]) \subseteq on

AreNotShared ==
  LET held == [name \in {x \in done : Modules[x].pins \cup Modules[x].streams # {}} |->
                 Modules[name].pins \cup Modules[name].streams]
  IN \A one, other \in DOMAIN held : one # other => held[one] \cap held[other] = {}

Baud(s) == Clock[BusOf(s.uart)] \div s.brr

SpeedsAreRight ==
  \A name \in done : \A s \in Modules[name].serial :
    (Baud(s) - s.speed) * 100 \in -s.speed .. s.speed

\* A priority has 16 levels, by its upper four bits.
TimerYields ==
  \A name \in done : \A i \in IrqsOf(Modules[name]) :
    i.priority \div 16 = IF i.name = <<"TIM5">> THEN 15 ELSE 0

PinsAreDispatched ==
  \A r \in inForce : r[1] = "exti" => r[2] \in Dispatched(ExtiIrq(r[2]))

\* What a module has taken for itself works: the clocks have the frequencies
\* the modules count on, every peripheral that is used has its clock on, no two
\* modules use the same pin or stream, a line has the speed that was meant
\* within one percent, every handler except that of the timer has one and the
\* same priority (so that no handler is ever interrupted by another one, which
\* several of them rely on, and the timer's loop by all of them), and a pin's
\* callback is the one its interrupt calls.
PeripheralsAreUsable ==
  /\ ClocksAreRight /\ AreClocked /\ AreNotShared
  /\ SpeedsAreRight /\ TimerYields /\ PinsAreDispatched
===============================================================================
