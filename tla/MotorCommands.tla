---------------------------- MODULE MotorCommands ----------------------------
(***************************************************************************)
(* What moves the motors, on P1: the main computer's goals                 *)
(* (application/p1/motorWriter.c), packets for motors that it has put      *)
(* together itself (dynamixelForwarder.c), the idle pose and the offsets   *)
(* (idleMotion.c). The main computer's positions do not count a motor's    *)
(* offset; offsets are added on the way to a motor and removed on the way  *)
(* back. All of this runs in the main loop, but for the end of a read.     *)
(*                                                                         *)
(* The buses take their jobs one after the other (module JobService).      *)
(* A position has Width values for 2^16. A register is "goal", one of the  *)
(* four that hold positions, or "other"; what a packet reads or writes is  *)
(* one register.                                                           *)
(***************************************************************************)
EXTENDS Integers, Sequences

CONSTANTS
  Motors,        \* numbers as in motorIDs.h
  Goals,         \* the positions the main computer asks for
  IdleValues,
  Middle,        \* for 512
  Width,
  Lifted,        \* IDLE_ADDITIONAL_ARM_OFFSET
  QueueSize,     \* of a port
  MaxMessages,   \* MSG_ID_DYNAMIXEL_FORWARDER_ISR_SWAP's buffers
  NULL

Registers == {"goal", "other"}
All == 254      \* MOTOR_ALL_MOTORS, DYNAMIXEL_BROADCAST_ID

\* MOTORS_TORSO, MOTORS_LEFT_LEG, MOTORS_RIGHT_LEG
PortOf(m) == IF m <= 8 THEN "torso" ELSE IF m % 2 = 1 THEN "left" ELSE "right"
Ports == {PortOf(m) : m \in Motors}

\* What the main computer means by a goal: a position, to which the offset was
\* added (if there is one), or was not.
Meaning == [goal : 0 .. Width - 1, raised : BOOLEAN]

\* What happens to a goal: the motor gets value, which is meant to be what the
\* main computer has sent; NULL if there is nothing it can mean.
Order == [motor : Motors, value : 0 .. Width - 1, meant : Meaning \cup {NULL}]

\* The jobs on the ports, with their parameters.
Job == [kind : {"write", "register"}, orders : SUBSET Order, motor : {NULL}, register : {NULL}]
       \cup [kind : {"action"}, orders : {{}}, motor : {NULL}, register : {NULL}]
       \cup [kind : {"read"}, orders : {{}}, motor : Motors \cup {All}, register : Registers]

VARIABLES
  idle,            \* g_idleValues
  currentRegister, \* g_currentReadRegister
  jobs,            \* of each port
  motor,           \* each motor's goal, the one it has registered, and
                   \* history: what is meant by them
  messages,        \* ISR_SWAP: the answers on the way to the main computer
  mixed            \* history: reads of different registers at once, since none was on the way

vars == <<idle, currentRegister, jobs, motor, messages, mixed>>

Position == 0 .. Width - 1

TypeOK ==
  /\ idle \in [Motors -> IdleValues]
  /\ currentRegister \in Registers \cup {NULL}
  /\ \A p \in Ports :
       /\ Len(jobs[p]) <= QueueSize
       /\ \A k \in DOMAIN jobs[p] : jobs[p][k].kind \in {"write", "register", "action", "read"}
  /\ motor \in [Motors -> [goal : Position, meant : Meaning \cup {NULL},
                           registered : Order \cup {NULL}]]
  /\ Len(messages) <= MaxMessages
  /\ mixed \in BOOLEAN

Init ==
  /\ idle = [m \in Motors |-> Middle]
  /\ currentRegister = "other"
  /\ jobs = [p \in Ports |-> <<>>]
  /\ motor = [m \in Motors |-> [goal |-> 0, meant |-> [goal |-> 0, raised |-> TRUE],
                               registered |-> NULL]]
  /\ messages = <<>>
  /\ mixed = FALSE

-------------------------------------------------------------------------------
\* addOffsets and removeOffsets
AddOffsets(m, value) == (value + (idle[m] - Middle)) % Width
RemoveOffsets(m, value) == (value - (idle[m] - Middle)) % Width

Raised(m, value) == [motor |-> m, value |-> AddOffsets(m, value),
                     meant |-> [goal |-> value, raised |-> TRUE]]
AsSent(m, value) == [motor |-> m, value |-> value,
                     meant |-> [goal |-> value, raised |-> idle[m] = Middle]]

\* dynamixel_*: a job for one port or all, which a full queue refuses.
Queued(js, job, ports) ==
  [p \in Ports |-> IF p \in ports /\ Len(js[p]) < QueueSize THEN Append(js[p], job) ELSE js[p]]

Write(kind, orders) == [kind |-> kind, orders |-> orders, motor |-> NULL, register |-> NULL]
Read(m, register) == [kind |-> "read", orders |-> {}, motor |-> m, register |-> register]

\* writeMotorValues: for each of the ports the motors whose values are in range.
WriteMotorValues ==
  \E inRange \in SUBSET Motors, goal \in [Motors -> Goals] :
    /\ \A m \in Motors \ inRange : goal[m] = CHOOSE g \in Goals : TRUE
    /\ jobs' = [p \in Ports |->
         Queued(jobs, Write("write", {Raised(m, goal[m]) : m \in {n \in inRange : PortOf(n) = p}}),
                {p})[p]]
    /\ UNCHANGED <<idle, currentRegister, motor, messages, mixed>>

\* initializeMotors, at the start, after new setup values and after the switch
\* of the motors: three settings for all motors of each port, one for each motor.
InitializeMotors ==
  LET more(js) == Queued(js, Write("write", {}), Ports) IN
  /\ jobs' = more(more(more(more(jobs))))
  /\ UNCHANGED <<idle, currentRegister, motor, messages, mixed>>

\* performIdlePose, after button 1: the goal is the idle value itself.
PerformIdlePose ==
  LET lifted(m) == IF m = 5 THEN -Lifted ELSE IF m = 6 THEN Lifted ELSE 0
      order(m) == [motor |-> m, value |-> (idle[m] + lifted(m)) % Width,
                   meant |-> [goal |-> (Middle + lifted(m)) % Width, raised |-> TRUE]]
      speeds == Queued(jobs, Write("write", {}), Ports)
  IN /\ jobs' = Queued(speeds, Write("write", {order(m) : m \in Motors}), Ports)
     /\ UNCHANGED <<idle, currentRegister, motor, messages, mixed>>

\* setIdleValues: what has been meant so far means something else now.
SetIdleValues(m, value) ==
  LET forgotten(o) == IF o.motor = m THEN [o EXCEPT !.meant = NULL] ELSE o IN
  /\ idle[m] # value
  /\ idle' = [idle EXCEPT ![m] = value]
  /\ motor' = [motor EXCEPT ![m].meant = NULL,
                            ![m].registered = IF @ = NULL THEN NULL ELSE forgotten(@)]
  /\ jobs' = [p \in Ports |-> [k \in DOMAIN jobs[p] |->
                [jobs[p][k] EXCEPT !.orders = {forgotten(o) : o \in @}]]]
  /\ messages' = [k \in DOMAIN messages |->
       IF messages[k].motor = m THEN [messages[k] EXCEPT !.meant = NULL] ELSE messages[k]]
  /\ UNCHANGED <<currentRegister, mixed>>

-------------------------------------------------------------------------------
\* dynamixelForwardingDataEP. To one motor or to all of them.
DestPorts(dest) == IF dest = All THEN Ports ELSE {PortOf(dest)}

\* WRITE and REG_WRITE of the goal: no offset is added to what goes to all.
MutantForwardWrite(kind, dest, value) ==
  LET orders == IF dest = All THEN {AsSent(m, value) : m \in Motors}
                ELSE {IF kind = "write" THEN Raised(dest, value)
                      ELSE [Raised(dest, value) EXCEPT !.value = value]}
  IN /\ jobs' = Queued(jobs, Write(kind, orders), DestPorts(dest))
     /\ UNCHANGED <<idle, currentRegister, motor, messages, mixed>>

ForwardWrite(kind, dest, value) ==
  LET orders == IF dest = All THEN {AsSent(m, value) : m \in Motors}
                ELSE {Raised(dest, value)}
  IN /\ jobs' = Queued(jobs, Write(kind, orders), DestPorts(dest))
     /\ UNCHANGED <<idle, currentRegister, motor, messages, mixed>>

\* SYNC_WRITE of the goal to a motor, sent to all ports: the offset is added to
\* the address of the value. If it is not 0, the value is read from elsewhere.
ForwardSyncWrite(m, value) ==
  \E written \in IF idle[m] = Middle THEN {value} ELSE Goals :
    /\ jobs' = Queued(jobs, Write("write",
         {[motor |-> m, value |-> written,
           meant |-> IF idle[m] = Middle THEN [goal |-> value, raised |-> TRUE] ELSE NULL]}), Ports)
    /\ UNCHANGED <<idle, currentRegister, motor, messages, mixed>>

ForwardAction(dest) ==
  /\ jobs' = Queued(jobs, Write("action", {}), DestPorts(dest))
  /\ UNCHANGED <<idle, currentRegister, motor, messages, mixed>>

Reads(js) == UNION {{<<p, k>> : k \in {k \in DOMAIN js[p] : js[p][k].kind = "read"}}
                      : p \in Ports}

ForwardRead(dest, register) ==
  /\ currentRegister' = register
  /\ jobs' = Queued(jobs, Read(dest, register), DestPorts(dest))
  /\ mixed' = (mixed \/ \E r \in Reads(jobs) : jobs[r[1]][r[2]].register # register)
  /\ UNCHANGED <<idle, motor, messages>>

-------------------------------------------------------------------------------
\* The first job of a port is done.
Done(p) ==
  /\ jobs' = [jobs EXCEPT ![p] = Tail(@)]
  /\ mixed' = (mixed /\ Reads([jobs EXCEPT ![p] = Tail(@)]) # {})

\* The motors do what they are told, if they have understood it.
Written(p) ==
  /\ jobs[p] # <<>> /\ Head(jobs[p]).kind # "read"
  /\ LET job == Head(jobs[p])
         mine(m) == {o \in job.orders : o.motor = m /\ PortOf(m) = p}
     IN \E deaf \in {m \in Motors : PortOf(m) = p} \cup {NULL} :
          motor' = [m \in Motors |->
            CASE m = deaf -> motor[m]
              [] m # deaf /\ job.kind = "register" /\ mine(m) # {} ->
                   [motor[m] EXCEPT !.registered = CHOOSE o \in mine(m) : TRUE]
              [] m # deaf /\ job.kind = "write" /\ mine(m) # {} ->
                   [motor[m] EXCEPT !.goal = (CHOOSE o \in mine(m) : TRUE).value,
                                    !.meant = (CHOOSE o \in mine(m) : TRUE).meant]
              [] m # deaf /\ job.kind = "action" /\ PortOf(m) = p /\ motor[m].registered # NULL ->
                   [goal |-> motor[m].registered.value, meant |-> motor[m].registered.meant,
                    registered |-> NULL]
              [] OTHER -> motor[m]]
  /\ Done(p)
  /\ UNCHANGED <<idle, currentRegister, messages>>

\* onMotorRead: the answer of a motor, with its value; only a goal's is looked
\* at here. It is copied into a message if there is a buffer.
Posted(told) ==
  messages' = IF Len(messages) < MaxMessages THEN Append(messages, told) ELSE messages

OnMotorRead(p) ==
  /\ jobs[p] # <<>> /\ Head(jobs[p]).kind = "read" /\ Head(jobs[p]).motor # All
  /\ LET job == Head(jobs[p])
         m == job.motor
         adjusted == IF currentRegister = "goal" THEN RemoveOffsets(m, motor[m].goal)
                     ELSE motor[m].goal
     IN IF currentRegister # NULL /\ job.register = "goal"
          THEN Posted([motor |-> m, value |-> adjusted, meant |-> motor[m].meant,
                       mixed |-> mixed])
          ELSE UNCHANGED messages
  /\ currentRegister' = NULL
  /\ Done(p)
  /\ UNCHANGED <<idle, motor>>

\* The same without success; nobody answers what goes to all.
OnMotorNotRead(p) ==
  /\ jobs[p] # <<>> /\ Head(jobs[p]).kind = "read"
  /\ currentRegister' = NULL
  /\ Done(p)
  /\ UNCHANGED <<idle, motor, messages>>

\* onForwardMotorReadMsg
OnForwardMotorReadMsg ==
  /\ messages # <<>>
  /\ messages' = Tail(messages)
  /\ UNCHANGED <<idle, currentRegister, jobs, motor, mixed>>

Next ==
  \/ WriteMotorValues \/ InitializeMotors \/ PerformIdlePose \/ OnForwardMotorReadMsg
  \/ \E m \in Motors : \/ \E value \in IdleValues : SetIdleValues(m, value)
                       \/ \E value \in Goals : ForwardSyncWrite(m, value)
  \/ \E dest \in Motors \cup {All} :
       \/ \E kind \in {"write", "register"}, value \in Goals : ForwardWrite(kind, dest, value)
       \/ \E register \in Registers : ForwardRead(dest, register)
       \/ ForwardAction(dest)
  \/ \E p \in Ports : Written(p) \/ OnMotorRead(p) \/ OnMotorNotRead(p)

Spec == Init /\ [][Next]_vars

-------------------------------------------------------------------------------
\* A goal that the main computer reads back is the one it has set by a write to
\* the motor, a registered write or the array of all goals: offsets are added once
\* and removed once, also if they were changed before, and the answer is looked
\* at with its own question's register, although this is one variable for all
\* questions. A goal set by a write to all motors comes back less the offset,
\* which was not added to it; and when questions for different registers are under
\* way at once the answer may have the offset still in it, but is off by no more
\* than that. (Not of goals set under another offset, or by a SYNC_WRITE while
\* there is one.)
ReadsBackWhatWasMeant ==
  \A k \in DOMAIN messages :
    LET told == messages[k]
        m == told.motor
        back == IF told.meant.raised THEN told.meant.goal ELSE RemoveOffsets(m, told.meant.goal)
    IN told.meant # NULL => \/ told.value = back
                            \/ told.mixed /\ told.value = AddOffsets(m, back)
===============================================================================
