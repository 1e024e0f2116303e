------------------------------- MODULE Routing -------------------------------
(***************************************************************************)
(* Four boards in a line: main computer - P1 - P2 - power board.  What the *)
(* processors do with a packet: the dispatcher                             *)
(* (genericFlawLessProtocolPacketDispatcher.c), the message proxy          *)
(* (msgProxy.c), which floods, the data proxies (application/p1 and        *)
(* p2/dataProxy.c), which pass on, and remote procedure calls (rpc/RPC.c), *)
(* which answer.  The outer boards send and listen.                        *)
(*                                                                         *)
(* A frame is what is sent through it: [endpoint, id, from].  The payload  *)
(* goes with it unchanged.  A frame gets lost when the pump has no room.   *)
(***************************************************************************)
EXTENDS Naturals, Sequences, FiniteSets

CONSTANTS
  Broadcasts,   \* the externalIDs of messages
  Calls,        \* the RPCs that answer
  SilentCalls,  \* the ones that have nothing to tell, or were not asked to
  Probes,       \* RPC_PROBE_..._IDENTIFIER: which RPCs there are
  MaxFrames     \* the frames the boards send of themselves, at most

Processors == {"P1", "P2"}
Boards == Processors \cup {"main", "power"}

\* The interfaces with a cable, of FLAWLESS_PROTOCOL_PHY_INTERFACES_COUNT.
Interfaces == [main |-> {0}, P1 |-> {0, 1}, P2 |-> {0, 2}, power |-> {0}]

Cable(b, i) ==
  CASE <<b, i>> = <<"P1", 0>> -> [board |-> "P2", interface |-> 0]
    [] <<b, i>> = <<"P1", 1>> -> [board |-> "main", interface |-> 0]
    [] <<b, i>> = <<"P2", 0>> -> [board |-> "P1", interface |-> 0]
    [] <<b, i>> = <<"P2", 2>> -> [board |-> "power", interface |-> 0]
    [] b = "main" -> [board |-> "P1", interface |-> 1]
    [] b = "power" -> [board |-> "P2", interface |-> 2]

\* MSG_PROXY_EXT_2_INT_MSG_ID_MAP and the pools of the processor: 1 and 2 are
\* voltages, 3 the switch of the motors, 4 to 8 buttons and the power failure.
Known(b) == IF b = "P1" THEN 3 .. 8 ELSE {1, 2}

\* msgProxy_addMsgForBroadcast, called by usrButtons.c and motorPWR.c.
Registered(b) == IF b = "P1" THEN 4 .. 8 ELSE {}

\* The endpoints that are passed on: 100 to 105 through both processors, 11
\* and 31 through P1 only, for P2 has an endpoint of its own for them.
Passed(b) == IF b = "P1" THEN {"command", "imu"} ELSE {"command"}

Frame == [endpoint : {"proxy"}, id : Broadcasts, from : Boards]
         \cup [endpoint : {"command", "imu"}, id : {0}, from : Boards]
         \cup [endpoint : {"rpc"}, id : Calls \cup SilentCalls \cup Probes, from : Boards]
         \cup [endpoint : {"answer"}, id : Calls \cup Probes, from : Processors]

VARIABLES
  queue,     \* of each processor's message pump: packets and messages
  arrived,   \* how often a frame, or the message in it, was handed to a board
  sent,      \* the frames sent by the board named in them
  lost,      \* some frame found no room
  echoed     \* the messages of others that a processor has broadcast as its own

vars == <<queue, arrived, sent, lost, echoed>>

Entry == [kind : {"packet", "message"}, frame : Frame, interface : 0 .. 2]

TypeOK ==
  /\ queue \in [Processors -> Seq(Entry)]
  /\ arrived \in [Boards \X Frame -> Nat]
  /\ sent \subseteq Frame /\ echoed \subseteq Frame
  /\ lost \in BOOLEAN

Init ==
  /\ queue = [p \in Processors |-> <<>>]
  /\ arrived = [a \in Boards \X Frame |-> 0]
  /\ sent = {} /\ echoed = {}
  /\ lost = FALSE

-------------------------------------------------------------------------------
\* What b sends, on the interfaces is, reaches the neighbours: the processors'
\* queues, or one of the outer boards.
Neighbours(b, is) == {Cable(b, i) : i \in is \cap Interfaces[b]}

Packet(f, i) == [kind |-> "packet", frame |-> f, interface |-> i]

Queued(q, f, ends) ==
  [p \in Processors |-> IF \E e \in ends : e.board = p
     THEN Append(q[p], Packet(f, (CHOOSE e \in ends : e.board = p).interface))
     ELSE q[p]]

Counted(a, f, boards) ==
  [x \in Boards \X Frame |-> IF x[2] = f /\ x[1] \in boards THEN a[x] + 1 ELSE a[x]]

\* b sends f on the interfaces is, having taken from and put into its own
\* queue what makes it q, having been handed what makes arrived a, and having
\* found no room for something if missed.
SendOn(b, is, f, q, a, missed) ==
  LET ends == Neighbours(b, is) IN
  \E reached \in SUBSET ends :
    /\ queue' = Queued(q, f, reached)
    /\ arrived' = Counted(a, f, {e.board : e \in reached} \ Processors)
    /\ lost' = (lost \/ missed \/ reached # ends)

\* The board itself has something to say: a message of its own on P1, the
\* inertial data on P2, anything on the outer boards.
Originate(b, f) ==
  /\ Cardinality(sent) < MaxFrames
  /\ f \notin sent /\ f.from = b
  /\ f.endpoint # "answer"
  /\ b = "P1" => f.endpoint = "proxy" /\ f.id \in Registered("P1")
  /\ b = "P2" => f.endpoint = "imu"
  /\ b \notin Processors => ~(f.endpoint = "imu" /\ b = "power")
  /\ sent' = sent \cup {f}
  /\ IF b = "P1"
       THEN /\ queue' = [queue EXCEPT !["P1"] =
                 Append(@, [kind |-> "message", frame |-> f, interface |-> 0])]
            /\ UNCHANGED <<arrived, lost>>
       ELSE SendOn(b, {0}, f, queue, arrived, FALSE)
  /\ UNCHANGED echoed

\* msgCallback: a message with an external ID goes out on every interface.
MsgCallback(b, e, q) ==
  LET f == [e.frame EXCEPT !.from = b] IN
  /\ SendOn(b, Interfaces[b], f, q, arrived, FALSE)
  /\ echoed' = IF e.frame.from = b THEN echoed ELSE echoed \cup {f}

\* incommingEndpoint. The message it posts is copied into the queue, behind
\* what is there; local receivers get it, and the proxy if it is registered.
MutantIncommingEndpoint(b, e, q) ==
  \E posted \in BOOLEAN :
    LET known == e.frame.id \in Known(b) /\ posted IN
    /\ SendOn(b, Interfaces[b], e.frame,
         IF known /\ e.frame.id \in Registered(b)
           THEN [q EXCEPT ![b] = Append(@, [e EXCEPT !.kind = "message"])] ELSE q,
         IF known THEN Counted(arrived, e.frame, {b}) ELSE arrived,
         ~posted)
    /\ UNCHANGED echoed

IncommingEndpoint(b, e, q) ==
  \E posted \in BOOLEAN :
    LET known == e.frame.id \in Known(b) /\ posted IN
    /\ SendOn(b, Interfaces[b] \ {e.interface}, e.frame,
         IF known /\ e.frame.id \in Registered(b)
           THEN [q EXCEPT ![b] = Append(@, [e EXCEPT !.kind = "message"])] ELSE q,
         IF known THEN Counted(arrived, e.frame, {b}) ELSE arrived,
         ~posted)
    /\ UNCHANGED echoed

\* proxy11Endpoint and the others: to the other side.
Proxy(b, e, q) ==
  /\ SendOn(b, Interfaces[b] \ {e.interface}, e.frame, q, arrived, FALSE)
  /\ UNCHANGED echoed

\* The answer goes out on the interface of the question.
Answer(b, e, q) ==
  SendOn(b, {e.interface}, [endpoint |-> "answer", id |-> e.frame.id, from |-> b],
         q, Counted(arrived, e.frame, {b}), FALSE)

\* rpcProbeSmallFunction and rpcProbeDescriptiveFunction answer themselves,
\* whether a response is required or not, with a frame of any length.
RpcProbeFunction(b, e, q) == e.frame.id \in Probes /\ Answer(b, e, q)

\* rpcEndPoint
RpcEndPoint(b, e, q) ==
  /\ \/ RpcProbeFunction(b, e, q)
     \/ e.frame.id \in Calls /\ Answer(b, e, q)
     \/ /\ e.frame.id \in SilentCalls
        /\ queue' = q
        /\ arrived' = Counted(arrived, e.frame, {b})
        /\ UNCHANGED lost
  /\ UNCHANGED echoed

\* An endpoint of the processor itself: the packet ends here.
OwnEndpoint(b, e, q) ==
  /\ queue' = q
  /\ arrived' = Counted(arrived, e.frame, {b})
  /\ UNCHANGED <<lost, echoed>>

\* msgPump_pumpMessage and onReceivedPacket_msgPumpCallback.
Dispatch(b) ==
  /\ queue[b] # <<>>
  /\ LET e == Head(queue[b])
         q == [queue EXCEPT ![b] = Tail(@)]
     IN \/ e.kind = "message" /\ MsgCallback(b, e, q)
        \/ e.kind = "packet" /\ e.frame.endpoint = "proxy" /\ IncommingEndpoint(b, e, q)
        \/ e.kind = "packet" /\ e.frame.endpoint \in Passed(b) /\ Proxy(b, e, q)
        \/ e.kind = "packet" /\ e.frame.endpoint = "rpc" /\ RpcEndPoint(b, e, q)
        \/ /\ e.kind = "packet" /\ e.frame.endpoint \in {"imu", "command"} \ Passed(b)
           /\ OwnEndpoint(b, e, q)
  /\ UNCHANGED sent

Idle == \A p \in Processors : queue[p] = <<>>

\* Both processors pump nothing, and no board has more to say.
PumpsIdle == Idle /\ UNCHANGED vars

Next ==
  \/ \E b \in Boards, f \in Frame : Originate(b, f)
  \/ \E b \in Processors : Dispatch(b)
  \/ PumpsIdle

Spec == Init /\ [][Next]_vars

-------------------------------------------------------------------------------
Position(b) == CASE b = "main" -> 1 [] b = "P1" -> 2 [] b = "P2" -> 3 [] b = "power" -> 4
NextTo(b) == {c \in Boards : Position(c) - Position(b) = 1 \/ Position(b) - Position(c) = 1}

\* Whom a frame is for.
Intended(f) ==
  CASE f.endpoint = "proxy" ->
         ({"main", "power"} \cup {b \in Processors : f.id \in Known(b)}) \ {f.from}
    [] f.endpoint = "command" -> {"main", "power"} \ {f.from}
    [] f.endpoint = "imu" -> IF f.from = "main" THEN {"P2"} ELSE {"main"}
    [] f.endpoint = "rpc" -> NextTo(f.from) \cap Processors
    [] f.endpoint = "answer" ->
         {b \in NextTo(f.from) : [endpoint |-> "rpc", id |-> f.id, from |-> b] \in sent}

\* A frame reaches every board it is for once, no other board, and comes to
\* an end, though the proxies of both processors flood and pass on to each
\* other. Of a message that P1 broadcasts as its own, a copy more goes round
\* for every time it came in from outside.
DeliveredAsIntended ==
  \A f \in Frame, b \in Boards :
    LET copies == IF b \in Intended(f) /\ (f.endpoint = "answer" \/ f \in sent) THEN 1 ELSE 0
    IN f \notin echoed =>
         /\ arrived[<<b, f>>] <= copies
         /\ Idle /\ ~lost => arrived[<<b, f>>] = copies
===============================================================================
