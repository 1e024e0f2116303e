--------------------------- MODULE FlawlessProtocol ---------------------------
(***************************************************************************)
(* The framed protocol on a byte stream (the interfaces other than 0) of   *)
(* framework/flawless/protocol/genericFlawLessProtocol.c: one sender, the  *)
(* line, and the receiver's state machine.  The line may lose or alter a   *)
(* byte, and the receiver may be without a buffer.                         *)
(*                                                                         *)
(* Bytes have their real values, for the checksum is a sum modulo 256 that *)
(* must itself be escaped.  The sender is one context: genericProtocol_    *)
(* sendMessage, and BeginTransmittingFrame with SendInsideFrame and        *)
(* EndTransmittingFrame, then send the same bytes.                         *)
(***************************************************************************)
EXTENDS Naturals, Sequences

CONSTANTS
  Frames,        \* what is sent: [id, payload]
  MaxPacketLen,  \* FLAWLESS_PROTOCOL_MAX_PACKET_LEN
  MaxFaults,     \* the bytes that are lost or altered, at most
  Differences,   \* by which an altered byte may differ, if it is no control character
  NULL

BEGINNING == 240
END == 15
ESCAPE == 60
Control == {BEGINNING, END, ESCAPE}

Byte == 0 .. 255

VARIABLES
  sending,       \* NULL, or the frame under way, the place in it that is sent next, if its
                 \* ESCAPE has been sent, and the sum of the bytes since the header
  receiveState,  \* of the interface: buffer (there is one), mode, checkSum and
                 \* the bytes received, of which receivedPayloadBytes is the number
  posted,        \* NULL, or the frame that the last byte has completed and
                 \* whether the message pump has taken it
  history        \* of this frame and of earlier ones, for the properties

vars == <<sending, receiveState, posted, history>>

-------------------------------------------------------------------------------
\* The sender.

\* What is sent as the place at: the header, the id, the payload, the checksum of
\* what was sent before it, the tail.
Symbol ==
  LET frame == sending.frame
      last == Len(frame.payload) + 1
      at == sending.at
  IN CASE at = 0 -> BEGINNING
       [] at = 1 -> frame.id
       [] at \in 2 .. last -> frame.payload[at - 1]
       [] at = last + 1 -> (256 - sending.checkSum) % 256
       [] at = last + 2 -> END

\* All but header and tail (i_escape) are escaped if they have to be.
MustEscape ==
  /\ ~sending.escaped /\ Symbol \in Control
  /\ sending.at \in 1 .. Len(sending.frame.payload) + 2

\* The next byte on the line (the calls of sendFunction in genericProtocol_send and
\* genericProtocol_sendChecksum),
NextByte == IF MustEscape THEN ESCAPE ELSE Symbol

\* and what is left to send after it. The byte that escapes counts as well, the one
\* that escapes the checksum before the checksum is made.
\* (MutantSent, and the other definitions named Mutant... below, are the
\* definition that follows with a bug, for PROJECT.json; nothing refers to them.)
MutantSent ==
  LET sum == IF sending.at \in 1 .. Len(sending.frame.payload) + 1
             THEN (sending.checkSum + NextByte) % 256 ELSE sending.checkSum
  IN IF MustEscape
       THEN [sending EXCEPT !.escaped = TRUE, !.checkSum = sum]
     ELSE IF sending.at = Len(sending.frame.payload) + 3
       THEN NULL
     ELSE [sending EXCEPT !.at = @ + 1, !.escaped = FALSE, !.checkSum = sum]

Sent ==
  LET sum == IF sending.at = 0 THEN 0 ELSE (sending.checkSum + NextByte) % 256
  IN IF MustEscape
       THEN [sending EXCEPT !.escaped = TRUE, !.checkSum = sum]
     ELSE IF sending.at = Len(sending.frame.payload) + 3
       THEN NULL
     ELSE [sending EXCEPT !.at = @ + 1, !.escaped = FALSE, !.checkSum = sum]

-------------------------------------------------------------------------------
\* The receiver. Modes are named for what comes next; "end" stays until a
\* frame begins if the checksum was wrong.

\* genericProtocoll_resetBuffer, with or without a free buffer.
ResetBuffer(r, fetched) ==
  [buffer |-> r.buffer \/ fetched, mode |-> "unknown", received |-> <<>>, checkSum |-> 0]

Begins(r, b) == r.mode # "escaped" /\ b = BEGINNING
Ends(r, b) == r.mode # "escaped" /\ b = END
TooLong(r) == Len(r.received) >= MaxPacketLen

\* A byte that neither begins nor ends a frame.
Store(r, b) ==
  LET counted == [r EXCEPT !.checkSum = (@ + b) % 256] IN
  CASE r.mode = "payload" /\ b = ESCAPE -> [counted EXCEPT !.mode = "escaped"]
    [] r.mode \in {"payload", "escaped"} /\ ~(r.mode = "payload" /\ b = ESCAPE) ->
         [counted EXCEPT !.mode = "payload", !.received = Append(@, b)]
    [] r.mode = "unknown" -> counted
    [] r.mode = "end" -> r   \* taken for one more end of a frame with a wrong checksum

\* The end of a frame that is to be posted: at least an id and a checksum.
MutantAccepts(r, b) == Ends(r, b) /\ ~TooLong(r) /\ Len(r.received) >= 2

Accepts(r, b) == Ends(r, b) /\ ~TooLong(r) /\ r.checkSum = 0 /\ Len(r.received) >= 2

\* genericProtocol_receiveByte, for a byte that does not complete a frame.
ReceiveByte(r, b) ==
  CASE Begins(r, b) -> [r EXCEPT !.mode = "payload", !.checkSum = 0, !.received = <<>>]
    [] ~Begins(r, b) /\ TooLong(r) -> [r EXCEPT !.mode = "unknown"]
    [] Ends(r, b) /\ ~TooLong(r) ->
         [r EXCEPT !.mode = IF r.checkSum = 0 THEN "unknown" ELSE "end",
                   !.checkSum = 0, !.received = <<>>]
    [] OTHER -> Store(r, b)

\* The frame handed to the message pump: the last byte was the checksum.
Received(r) ==
  [id |-> r.received[1], payload |-> SubSeq(r.received, 2, Len(r.received) - 1)]

\* A byte arrives. Whether the pool has a free buffer and the queue has room
\* is up to the message pump (MsgPump); a frame that cannot be posted leaves
\* the receiver the buffer it had.
Receive(b) ==
  \E fetched, queued \in BOOLEAN :
    LET r == IF receiveState.buffer THEN receiveState ELSE ResetBuffer(receiveState, fetched)
    IN IF ~r.buffer
         THEN receiveState' = r /\ posted' = NULL
         ELSE IF Accepts(r, b)
           THEN /\ posted' = [frame |-> Received(r), queued |-> queued]
                /\ receiveState' = ResetBuffer([r EXCEPT !.buffer = ~queued], fetched)
           ELSE receiveState' = ReceiveByte(r, b) /\ posted' = NULL

-------------------------------------------------------------------------------
TypeOK ==
  /\ \/ sending = NULL
     \/ /\ sending \in [frame : Frames, at : Nat, escaped : BOOLEAN, checkSum : Byte]
        /\ sending.at <= Len(sending.frame.payload) + 3
  /\ receiveState \in
       [buffer : BOOLEAN, mode : {"unknown", "payload", "escaped", "end"},
        received : Seq(Byte), checkSum : Byte]
  /\ Len(receiveState.received) <= MaxPacketLen
  /\ posted = NULL \/ posted \in [frame : [id : Byte, payload : Seq(Byte)], queued : BOOLEAN]
  /\ history \in [faults : 0 .. MaxFaults, inRow : 0 .. 2,
                  fault : {"none", "wrong", "other"}, over : Frames \cup {NULL}]

\* genericProtocol_init; a buffer is fetched when there is one.
\* history: the faults in all, the frames in a row that nothing has happened
\* to, what has happened to this one, and the frame that has just ended.
Init ==
  /\ sending = NULL
  /\ \E buffer \in BOOLEAN :
       receiveState = [buffer |-> buffer, mode |-> "unknown", received |-> <<>>, checkSum |-> 0]
  /\ posted = NULL
  /\ history = [faults |-> 0, inRow |-> 0, fault |-> "none", over |-> NULL]

Send ==
  /\ sending = NULL
  /\ \E frame \in Frames :
       sending' = [frame |-> frame, at |-> 0, escaped |-> FALSE, checkSum |-> 0]
  /\ posted' = NULL
  /\ history' = [history EXCEPT !.fault = "none", !.over = NULL]
  /\ UNCHANGED receiveState

\* history, after a byte that "fault" has happened to. The receiver without a
\* buffer is as bad as a line that loses the byte.
Recorded(fault) ==
  LET missed == ~receiveState'.buffer /\ posted' = NULL
      now == IF fault = "none" /\ ~missed THEN history.fault
             ELSE IF fault = "wrong" /\ history.fault = "none" /\ ~missed THEN "wrong"
             ELSE "other"
  IN [faults |-> history.faults + (IF fault = "none" THEN 0 ELSE 1),
      inRow |-> IF now # "none" THEN 0
                ELSE IF Sent = NULL /\ history.inRow < 2 THEN history.inRow + 1
                ELSE history.inRow,
      fault |-> now,
      over |-> IF Sent = NULL THEN sending.frame ELSE NULL]

Deliver ==
  /\ sending # NULL
  /\ Receive(NextByte)
  /\ sending' = Sent
  /\ history' = Recorded("none")

Lose ==
  /\ sending # NULL
  /\ history.faults < MaxFaults
  /\ posted' = NULL
  /\ sending' = Sent
  /\ UNCHANGED receiveState
  /\ history' = Recorded("other")

\* A byte arrives as a control character, or as another byte.
Altered == (Control \cup {(NextByte + d) % 256 : d \in Differences}) \ {NextByte}

Alter ==
  /\ sending # NULL
  /\ history.faults < MaxFaults
  /\ \E b \in Altered :
       /\ Receive(b)
       /\ history' = Recorded(IF {b, NextByte} \cap Control = {} THEN "wrong" ELSE "other")
  /\ sending' = Sent

Next == Send \/ Deliver \/ Lose \/ Alter

Spec == Init /\ [][Next]_vars

-------------------------------------------------------------------------------
Fits(frame) == Len(frame.payload) + 2 < MaxPacketLen

\* The receiver takes an escaped BEGINNING for the beginning of a frame if it has
\* given up the one it is in: behind the last byte it has room for.
BeginsInside(frame) ==
  \E i \in MaxPacketLen .. Len(frame.payload) : frame.payload[i] = BEGINNING

\* Whatever the line did to earlier frames, the second frame that arrives
\* whole is handed on as it was sent, whatever its bytes are; so is the first
\* if nothing has gone wrong before (flawLess_ReceiveIndication finds its way
\* back after at most one frame). A frame that does not fit is not handed on, nor
\* is an end of it, unless that looks like a frame.
FramesFollowNoise ==
  LET frame == history.over IN
  frame # NULL /\ (history.inRow = 2 \/ (history.inRow = 1 /\ history.faults = 0)) =>
    /\ Fits(frame) => posted # NULL /\ posted.frame = frame
    /\ ~Fits(frame) => posted = NULL \/ BeginsInside(frame)

\* The checksum finds one wrong byte.
WrongByteIsCaught ==
  history.over # NULL /\ history.fault = "wrong" /\ history.faults = 1 =>
    posted = NULL \/ BeginsInside(history.over)

===============================================================================
