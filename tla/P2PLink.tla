------------------------------- MODULE P2PLink -------------------------------
(***************************************************************************)
(* The link between the two processors (target/stm32f4/p1|p2/p2p_comm.c),  *)
(* one direction of it: the sender on one processor, the serial line with  *)
(* the signal line beside it, and the receiver on the other processor.     *)
(*                                                                         *)
(* The sender puts the bytes of a frame into a ring, and the index behind  *)
(* its last byte into a second fifo (the generic fifo of genericFiFo.h,    *)
(* whose operations are atomic under the mutex).  A DMA drains the ring in *)
(* blocks that end where a frame ends or the ring wraps.  At the end of a  *)
(* frame the sender toggles the signal line and pauses, so that the        *)
(* receiver can take the frame and set its DMA up for the next one.        *)
(*                                                                         *)
(* The two files differ in how they take and leave the DMA: "sender" tells *)
(* whose code sends, and the other processor's receives.                   *)
(*                                                                         *)
(* Contexts.  Frames are sent by the main loop alone (the users of         *)
(* interface 0 are all callbacks of the pump).  It is interrupted by the   *)
(* transmission-complete handler and by the timer that ends the pause;     *)
(* what they do under the mutex is one step, and they are not interrupted  *)
(* by one another.  The receiver's handlers have the same priority.        *)
(*                                                                         *)
(* Abstractions.  A byte is the frame it belongs to and its position, so   *)
(* the checksum accepts what consists of complete frames: the sum of each  *)
(* is 0, and so is the sum of two.  Coincidences are left out.  The main   *)
(* loop of the receiver is its pool: a post and a getFreeBuffer succeed or *)
(* not.  A byte on the line arrives in the step that sends it.             *)
(***************************************************************************)
EXTENDS GenericFifo, FiniteSets

\* (FifoSize is TX_FIFO_CNT.)
CONSTANTS
  MaxPacket,   \* FLAWLESS_PROTOCOL_MAX_PACKET_LEN
  IDs,         \* the numbers that tell frames apart
  Lengths,     \* the lengths of frames, with protocol ID and checksum
  Punctual,    \* the receiver serves the end of a frame within the pause
  NULL

MinPacket == 2  \* the protocol ID and the checksum

Frames == [id : IDs, len : Lengths]
Bytes == {b \in [frame : Frames, pos : 1 .. MaxPacket] : b.pos <= b.frame.len}

ASSUME LinkAssumption ==
  /\ MaxPacket \in Nat \ {0}
  /\ Lengths \subseteq MinPacket .. MaxPacket
  /\ Punctual \in BOOLEAN
  /\ NULL \notin Bytes \cup Frames

VARIABLES
  sender,                      \* the processor that sends: P1 or P2
  g_txFifo,
  stops,                       \* Contents of g_txFrameStopIndexesFifo, see GenericFifoProofs
  g_currentTransmissionCount,
  moved,                       \* how many of those bytes the DMA has moved
  halted,                      \* it was disabled before the end of a block of P1
  g_sendState,
  irq,                         \* a handler that is still to trigger the DMA
  pc,                          \* where the main loop is in sending a frame
  frame,                       \* the frame it sends, or sent last
  next,                        \* the position of the byte that is next
  nextStopIndex,               \* its local
  flank,                       \* the receiver's interrupt from the signal line
  g_rxPacket,                  \* TRUE: the receiver has a buffer
  rx,                          \* what its DMA has written into the buffer
  rxOn,                        \* that DMA is enabled
  rxIrq,                       \* and its interrupt is pending
  dr,                          \* a byte in USART_DR that nobody has read
  overrun,                     \* USART_SR_ORE
  delivered,                   \* the content of the packet posted last
  excused                      \* history: there was no buffer for the packet that ended
                               \* last or for the next one, or its post failed

dmaVars == <<g_currentTransmissionCount, moved, halted>>
mainVars == <<pc, frame, next, nextStopIndex>>
rxVars == <<g_rxPacket, rx, rxOn, rxIrq, dr, overrun, delivered, excused>>
vars == <<sender, g_txFifo, stops, dmaVars, g_sendState, irq, mainVars, flank, rxVars>>

TypeOK ==
  /\ sender \in {"P1", "P2"}
  /\ g_txFifo \in Fifos(Bytes \cup {NULL})
  /\ IsConsistent(g_txFifo)
  /\ stops \in Seq(Index) /\ Len(stops) <= FifoSize
  /\ g_currentTransmissionCount \in 0 .. g_txFifo.count
  /\ g_txFifo.start + g_currentTransmissionCount <= FifoSize
  /\ moved \in 0 .. g_currentTransmissionCount
  /\ halted \in BOOLEAN
  /\ g_sendState \in {"IDLE", "PAUSED"}
  /\ irq \in BOOLEAN
  /\ pc \in {"idle", "put", "trigger", "mark", "stop"}
  /\ frame \in Frames
  /\ next \in 1 .. frame.len + 1
  /\ nextStopIndex \in Index
  /\ flank \in BOOLEAN
  /\ g_rxPacket \in BOOLEAN
  /\ rx \in Seq(Bytes) /\ Len(rx) <= MaxPacket
  /\ rxOn \in BOOLEAN
  /\ rxIrq \in BOOLEAN
  /\ dr \in Bytes \cup {NULL}
  /\ overrun \in BOOLEAN
  /\ delivered \in Seq(Bytes)
  /\ excused \in BOOLEAN

\* p2p_com_init on both sides.
InitSender ==
  /\ g_txFifo = InitFifo([k \in Index |-> NULL])
  /\ stops = <<>>
  /\ g_currentTransmissionCount = 0 /\ moved = 0 /\ halted = FALSE
  /\ g_sendState = "IDLE" /\ irq = FALSE

InitReceiver ==
  /\ g_rxPacket = TRUE
  /\ rx = <<>> /\ rxOn = TRUE /\ rxIrq = FALSE
  /\ dr = NULL /\ overrun = FALSE
  /\ flank = FALSE

Init ==
  /\ sender \in {"P1", "P2"}
  /\ InitSender /\ InitReceiver
  /\ pc = "idle"
  /\ frame \in Frames /\ next = frame.len + 1
  /\ nextStopIndex = 0
  /\ delivered = <<>> /\ excused = FALSE

-------------------------------------------------------------------------------
\* The end of a frame: gpio_toggle, and the timer is set to call onSendStateTimer.
EndFrame ==
  /\ flank' = TRUE
  /\ g_sendState' = "PAUSED"

SetupDMA(bytes) ==
  /\ g_currentTransmissionCount' = bytes
  /\ moved' = 0
  /\ UNCHANGED <<halted, stops, g_sendState, flank>>

UntilWrap == LET room == FifoSize - g_txFifo.start
             IN  IF room < g_txFifo.count THEN room ELSE g_txFifo.count

\* DMA_CR_EN, which the hardware clears after the last byte and usart2_isr where it is early.
DMAEnabled == moved < g_currentTransmissionCount /\ ~halted

CanTransmitP1 ==
  /\ ~DMAEnabled
  /\ UntilWrap > 0 /\ g_currentTransmissionCount = 0 /\ g_sendState = "IDLE"

\* P2 disables the DMA instead, which may not be done before it has moved all.
CanTransmitP2 == UntilWrap > 0 /\ g_currentTransmissionCount = 0 /\ g_sendState = "IDLE"

CanTransmit == IF sender = "P1" THEN CanTransmitP1 ELSE CanTransmitP2

\* The next frame ends before the ring wraps, or at start.
StopAhead == stops # <<>> /\ g_txFifo.start <= Head(stops)

\* (Definitions named Mutant... are the following definition with a bug, for
\* PROJECT.json; nothing else refers to them.)
MutantTriggerIgnoresStops ==
  IF CanTransmit THEN SetupDMA(UntilWrap)
                 ELSE UNCHANGED <<stops, dmaVars, g_sendState, flank>>

MutantTriggerKeepsStop ==
  \/ /\ ~CanTransmit
     /\ UNCHANGED <<stops, dmaVars, g_sendState, flank>>
  \/ /\ CanTransmit
     /\ SetupDMA(IF StopAhead THEN Head(stops) - g_txFifo.start ELSE UntilWrap)

\* trigger_transmision.
TriggerTransmission ==
  \/ /\ ~CanTransmit
     /\ UNCHANGED <<stops, dmaVars, g_sendState, flank>>
  \/ /\ CanTransmit
     /\ ~StopAhead
     /\ SetupDMA(UntilWrap)
  \/ /\ CanTransmit
     /\ StopAhead
     /\ Head(stops) > g_txFifo.start
     /\ SetupDMA(Head(stops) - g_txFifo.start)
  \/ /\ CanTransmit
     /\ StopAhead
     /\ Head(stops) = g_txFifo.start
     /\ stops' = Tail(stops)
     /\ EndFrame
     /\ UNCHANGED dmaVars

-------------------------------------------------------------------------------
\* The main loop. A handler is not half way through when it takes a step.

StartFrame(f) ==
  /\ ~irq
  /\ pc = "idle"
  /\ f.id # frame.id
  /\ frame' = f
  /\ next' = 1
  /\ pc' = "put"
  /\ UNCHANGED <<sender, g_txFifo, stops, dmaVars, g_sendState, irq, nextStopIndex, flank,
                 rxVars>>

MutantPutByteOverfills ==
  /\ ~irq
  /\ pc = "put"
  /\ g_txFifo' = Put(g_txFifo, [frame |-> frame, pos |-> next])
  /\ next' = next + 1
  /\ pc' = "trigger"
  /\ UNCHANGED <<sender, stops, dmaVars, g_sendState, irq, frame, nextStopIndex, flank,
                 rxVars>>

\* phySendFunction0: p2p_put, which fails while the ring is full,
PutByte ==
  /\ ~irq
  /\ pc = "put"
  /\ IF PutOkay(g_txFifo)
       THEN /\ g_txFifo' = Put(g_txFifo, [frame |-> frame, pos |-> next])
            /\ next' = next + 1
       ELSE UNCHANGED <<g_txFifo, next>>
  /\ pc' = "trigger"
  /\ UNCHANGED <<sender, stops, dmaVars, g_sendState, irq, frame, nextStopIndex, flank,
                 rxVars>>

\* and trigger_transmision, whether it failed or not.
TriggerByMain ==
  /\ ~irq
  /\ pc = "trigger"
  /\ TriggerTransmission
  /\ pc' = IF next <= frame.len THEN "put" ELSE "mark"
  /\ UNCHANGED <<sender, g_txFifo, irq, frame, next, nextStopIndex, rxVars>>

MutantMarkEndOnLastByte ==
  /\ ~irq
  /\ pc = "mark"
  /\ IF g_txFifo.count = 0
       THEN /\ EndFrame
            /\ pc' = "idle"
            /\ UNCHANGED nextStopIndex
       ELSE /\ nextStopIndex' = (g_txFifo.end + FifoSize - 1) % FifoSize
            /\ pc' = "stop"
            /\ UNCHANGED <<g_sendState, flank>>
  /\ UNCHANGED <<sender, g_txFifo, stops, dmaVars, irq, frame, next, rxVars>>

\* phySendFunction0_EndOfFrameMarker, its section,
MarkEnd ==
  /\ ~irq
  /\ pc = "mark"
  /\ IF g_txFifo.count = 0
       THEN /\ EndFrame
            /\ pc' = "idle"
            /\ UNCHANGED nextStopIndex
       ELSE /\ nextStopIndex' = g_txFifo.end
            /\ pc' = "stop"
            /\ UNCHANGED <<g_sendState, flank>>
  /\ UNCHANGED <<sender, g_txFifo, stops, dmaVars, irq, frame, next, rxVars>>

\* and the put after it, tried until it succeeds.
PutStop ==
  /\ ~irq
  /\ pc = "stop"
  /\ Len(stops) < FifoSize
  /\ stops' = Append(stops, nextStopIndex)
  /\ pc' = "idle"
  /\ nextStopIndex' = 0
  /\ UNCHANGED <<sender, g_txFifo, dmaVars, g_sendState, irq, frame, next, flank, rxVars>>

-------------------------------------------------------------------------------
\* The hardware: the DMA moves a byte over the line.
MoveByte ==
  /\ DMAEnabled
  /\ moved' = moved + 1
  /\ LET b == g_txFifo.data[g_txFifo.start + moved] IN
       IF rxOn
         THEN /\ rx' = Append(rx, b)
              /\ rxOn' = (Len(rx) + 1 < MaxPacket)
              /\ rxIrq' = (rxIrq \/ Len(rx) + 1 = MaxPacket)
              /\ UNCHANGED <<dr, overrun>>
         ELSE /\ dr' = IF dr = NULL THEN b ELSE dr
              /\ overrun' = (overrun \/ dr # NULL)
              /\ UNCHANGED <<rx, rxOn, rxIrq>>
  /\ UNCHANGED <<sender, g_txFifo, stops, g_currentTransmissionCount, halted, g_sendState, irq,
                 mainVars, flank, g_rxPacket, delivered, excused>>

\* A block ends after n bytes: the ring is emptied by them, and the frame they
\* may complete is ended.
EndBlock(n) ==
  /\ g_txFifo' = [g_txFifo EXCEPT !.start = (@ + n) % FifoSize, !.count = @ - n]
  /\ moved' = 0
  /\ IF stops # <<>> /\ g_txFifo'.start = Head(stops)
       THEN stops' = Tail(stops) /\ EndFrame
       ELSE UNCHANGED <<stops, g_sendState, flank>>

\* usart2_isr of P1, when the line has gone quiet: after the last byte of a block,
\* or because the DMA came too late for the next byte. In the second case it disables
\* the DMA and leaves a count that is not 0, so that no block is ever set up again.
TransmissionCompleteP1 ==
  /\ ~irq
  /\ sender = "P1"
  /\ moved > 0
  /\ EndBlock(moved)
  /\ g_currentTransmissionCount' = g_currentTransmissionCount - moved
  /\ halted' = (moved < g_currentTransmissionCount)
  /\ irq' = TRUE
  /\ UNCHANGED <<sender, mainVars, rxVars>>

\* usart1_isr of P2, in both cases: the rest of the block becomes a block of its own.
TransmissionCompleteP2 ==
  /\ ~irq
  /\ sender = "P2"
  /\ moved > 0
  /\ EndBlock(moved)
  /\ g_currentTransmissionCount' = 0
  /\ irq' = TRUE
  /\ UNCHANGED <<sender, halted, mainVars, rxVars>>

TransmissionComplete == TransmissionCompleteP1 \/ TransmissionCompleteP2

\* onSendStateTimer.
PauseOver ==
  /\ ~irq
  /\ g_sendState = "PAUSED"
  /\ Punctual => ~flank /\ ~rxIrq
  /\ g_sendState' = "IDLE"
  /\ irq' = TRUE
  /\ UNCHANGED <<sender, g_txFifo, stops, dmaVars, mainVars, flank, rxVars>>

TriggerByHandler ==
  /\ irq
  /\ TriggerTransmission
  /\ irq' = FALSE
  /\ UNCHANGED <<sender, g_txFifo, mainVars, rxVars>>

-------------------------------------------------------------------------------
\* The receiver.

IsLast(b) == b.pos = b.frame.len

\* The checksum of a packet is 0: it consists of complete frames.
ChecksumOK(s) ==
  /\ \A k \in 1 .. Len(s) :
       IF s[k].pos = 1 THEN k = 1 \/ s[k - 1].pos = s[k - 1].frame.len
                       ELSE k > 1 /\ s[k - 1] = [s[k] EXCEPT !.pos = @ - 1]
  /\ IsLast(s[Len(s)])

\* dma1_stream5_isr. A packet is posted if there is a buffer and it is correct.
Posted == g_rxPacket /\ Len(rx) >= MinPacket /\ ChecksumOK(rx)

\* (Writing the DMA's registers has no effect while it is enabled.)
ProcessPacket ==
  /\ IF Posted
       THEN /\ delivered' \in {rx, delivered}
            /\ g_rxPacket' \in (IF delivered' = rx THEN BOOLEAN ELSE {TRUE})
       ELSE /\ UNCHANGED delivered
            /\ g_rxPacket' \in (IF g_rxPacket THEN {TRUE} ELSE BOOLEAN)
  /\ LET kept == IF g_rxPacket /\ overrun THEN NULL ELSE dr IN
       IF g_rxPacket' /\ ~rxOn
         THEN /\ rx' = IF kept = NULL THEN <<>> ELSE <<kept>>
              /\ rxOn' = TRUE
              /\ dr' = NULL
         ELSE /\ rx' = IF rxOn THEN rx ELSE <<>>
              /\ dr' = kept
              /\ UNCHANGED rxOn
  /\ overrun' = (overrun /\ ~g_rxPacket)
  /\ excused' = (~g_rxPacket \/ ~g_rxPacket' \/ (Posted /\ delivered' # rx))

\* onRxSigFlank.
RxSigFlank ==
  /\ flank
  /\ flank' = FALSE
  /\ IF rxOn
       THEN /\ rxOn' = FALSE
            /\ rxIrq' = TRUE
            /\ UNCHANGED <<g_rxPacket, rx, dr, overrun, delivered, excused>>
       ELSE ProcessPacket /\ UNCHANGED rxIrq
  /\ UNCHANGED <<sender, g_txFifo, stops, dmaVars, g_sendState, irq, mainVars>>

RxComplete ==
  /\ rxIrq
  /\ rxIrq' = FALSE
  /\ ProcessPacket
  /\ UNCHANGED <<sender, g_txFifo, stops, dmaVars, g_sendState, irq, mainVars, flank>>

-------------------------------------------------------------------------------
Main == PutByte \/ TriggerByMain \/ MarkEnd \/ PutStop

Handler == TransmissionComplete \/ PauseOver \/ TriggerByHandler

Receiver == RxSigFlank \/ RxComplete

Next ==
  \/ \E f \in Frames : StartFrame(f)
  \/ Main
  \/ MoveByte
  \/ Handler
  \/ Receiver

Spec == Init /\ [][Next]_vars

\* The main loop runs when handlers let it, pending interrupts are served, and
\* the line moves bytes. Nothing makes the main loop start a frame.
Fairness ==
  /\ SF_vars(Main)
  /\ WF_vars(MoveByte)
  /\ SF_vars(TransmissionComplete)
  /\ SF_vars(PauseOver)
  /\ WF_vars(TriggerByHandler)
  /\ WF_vars(RxSigFlank)
  /\ WF_vars(RxComplete)

FairSpec == Spec /\ Fairness

-------------------------------------------------------------------------------
\* The frame that was put into the ring last is not yet marked as complete.
Unmarked == pc \in {"trigger", "mark", "stop"} /\ next > frame.len

\* How far ahead of the ring's start the frames in it end that are marked.
MarkedEnds ==
  {n \in 1 .. g_txFifo.count :
     IsLast(Peek(g_txFifo, n - 1)) /\ ~(Unmarked /\ n = g_txFifo.count)}

\* The second fifo says where the frames in the ring end: every frame has its
\* end there, in order, save for the one the main loop is about to mark. There is
\* at most one end more, of a frame that was sent before its end was marked, and it
\* is at the start. (The end of a frame that fills the whole ring may be missing.)
StopsTell ==
  \E ahead \in [1 .. Len(stops) -> MarkedEnds \cup {0}] :
    /\ \A k \in 1 .. Len(stops) : stops[k] = (g_txFifo.start + ahead[k]) % FifoSize
    /\ \A k, m \in 1 .. Len(stops) : k < m => ahead[k] < ahead[m]
    /\ \A n \in MarkedEnds : \E k \in 1 .. Len(stops) : ahead[k] = n

\* p2p_comm.c asserts that the end of a frame lies ahead of the start when
\* trigger_transmision sets the DMA up.
StopIsAhead ==
  (irq \/ pc = "trigger") /\ CanTransmit /\ StopAhead => Head(stops) > g_txFifo.start

\* The busy waits for room in the fifos end: what the main loop sends is sent.
\* (Unless P1's DMA has halted for ever.)
SenderReturns == pc # "idle" ~> pc = "idle" \/ halted

\* The bytes in the ring, oldest first, from the k-th on.
InRing(k) == SubSeq(Contents(g_txFifo), k + 1, g_txFifo.count)

\* The link implements the channel of frames: what goes into the ring is handed on
\* once, whole and in order, unless the receiver had no buffer. (As long as no
\* frame fills the ring or the receiver's buffer: the end of the one may be taken
\* for that of the frame before, and a byte left from a lost frame is one too many
\* for the other.) In flight are the frames whose last byte is still to be sent or
\* lies with the receiver.
OnTheWay == rx \o (IF dr = NULL THEN <<>> ELSE <<dr>>) \o InRing(moved)

\* Where frames end in a sequence of bytes.
Ends(s) == {k \in 1 .. Len(s) : IsLast(s[k])}

\* The members of a set of numbers, the smaller ones first.
InOrder(S) ==
  CHOOSE e \in [1 .. Cardinality(S) -> S] :
    /\ \A i, j \in DOMAIN e : i < j => e[i] < e[j]
    /\ \A k \in S : \E i \in DOMAIN e : e[i] = k

\* The frames that end in a sequence of bytes.
FramesEnding[s \in Seq(Bytes)] ==
  LET order == InOrder(Ends(s))
  IN  [n \in DOMAIN order |-> s[order[n]].frame]

\* Those in it, and the one that the main loop is sending.
InFlight == FramesEnding[OnTheWay] \o (IF next <= frame.len THEN <<frame>> ELSE <<>>)

FC == INSTANCE FrameChannel WITH inFlight <- InFlight

FrameChannelSpec == FC!Spec

===============================================================================
