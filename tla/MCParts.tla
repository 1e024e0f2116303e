------------------------------- MODULE MCParts -------------------------------
(***************************************************************************)
(* The parts of the firmware that share nothing with each other, side by   *)
(* side: a behaviour chooses one of them and leaves the others alone.      *)
(***************************************************************************)
EXTENDS Integers, Sequences

CONSTANTS
  NULL,
  \* the sizes of the rings of the link to the main computer, and what is sent at once
  TxSize, RxSize, TxLengths,
  \* FlawlessProtocol
  FramesSent, MaxPacketLen, MaxFaults, Differences,
  \* Routing
  Broadcasts, Calls, SilentCalls, Probes, MaxFrames,
  \* I2C
  TransactionQueue, Patience,
  \* MotorReader
  ReadMotors, RawPositions, ReadIdleValues, ReadMiddle, Base, MaxFailures, MaxReads,
  \* MotorCommands
  GoalMotors, Goals, GoalIdleValues, GoalMiddle, GoalWidth, Lifted, JobQueue, MaxMessages,
  \* Buttons
  UserButtons, Adjusted,
  \* Calibration
  CalibrationValues,
  \* TimeSync
  AheadOfP1, AheadOfP2, Divider, MaxTries, MaxTime, MaxRequests,
  \* ImuWatch
  EqualLimit, WatchInterval

ASSUME RingsAssumption ==
  /\ TxSize \in Nat \ {0}
  /\ RxSize \in Nat \ {0}
  /\ TxLengths \subseteq Nat
ASSUME ProtocolAssumption ==
  /\ \A frame \in FramesSent :
       /\ frame = [id |-> frame.id, payload |-> frame.payload]
       /\ frame.id \in 0 .. 255 /\ frame.payload \in Seq(0 .. 255)
  /\ MaxPacketLen \in Nat \ {0} /\ MaxFaults \in Nat /\ Differences \subseteq 1 .. 255
  /\ NULL \notin [frame : FramesSent, at : Nat, escaped : BOOLEAN, checkSum : 0 .. 255]
  /\ NULL \notin [frame : [id : 0 .. 255, payload : Seq(0 .. 255)], queued : BOOLEAN]
ASSUME WatchAssumption == WatchInterval \in Nat \ {0} /\ NULL \notin Int
ASSUME TimeAssumption ==
  AheadOfP1 \in Nat /\ AheadOfP2 \in Nat /\ Divider \in Nat \ {0, 1}
ASSUME RoutesAssumption == SilentCalls \cap (Calls \cup Probes) = {}
ASSUME BusAssumption == TransactionQueue \in Nat /\ Patience \in Nat
ASSUME ReaderAssumption ==
  /\ Base \in Nat \ {0} /\ MaxFailures \in Nat \ {0}
  /\ RawPositions \subseteq Int /\ ReadIdleValues \subseteq Int /\ ReadMiddle \in Int
ASSUME CommandsAssumption ==
  /\ GoalWidth \in Nat \ {0} /\ Goals \subseteq 0 .. GoalWidth - 1
  /\ GoalIdleValues \subseteq Int /\ GoalMiddle \in Int /\ Lifted \in Int
ASSUME ButtonsAssumption ==
  /\ Adjusted \subseteq UserButtons
  /\ NULL \notin UserButtons /\ \A read \in SUBSET UserButtons : read # NULL
ASSUME CalibrationAssumption == "default" \in CalibrationValues

VARIABLE part
VARIABLES sending, receiveState, posted, history
VARIABLES data, start, end, count, g_currentTXTransactionSize, g_txEnabled, timer,
          sent, left, triggers, stored, out
VARIABLES g_rxFifoBuf, g_rxFifoReadIndex, sndtr, rxPending, rxHandler,
          receivedByte, bytesArrived, bytesHanded
VARIABLES queue, arrived, sentFrames, lost, echoed
VARIABLES bus, poll, ready, ct
VARIABLES positions, failures, idleValues, reads, push, seen, touched, pushed
VARIABLES idle, currentRegister, jobs, motor, messages, mixed
VARIABLES g_themeIndex, g_musicPtr, g_musicNotesCnt, callbacks, tones,
          isRegistered, step, due, struck
VARIABLES configs, pressed, states, imr, evaluationDue, portRead, setup, missed,
          masked
VARIABLES ram, sector, at, saving, gyro, mag, offset, saved, cut
VARIABLES now, clock, prescaler, frames, begun, ping, diff, synced, tries, asked,
          round, requests
VARIABLES equal, pending, countdown, flags, silent, reset
VARIABLES state, P, Q, Raccel, Rmag, update, turn, mounting, averaged, fixed, steps
VARIABLES board, initialised, inForce, taken, early

\* Frames whose id, payload or checksum is a control character (two of the
\* checksums are), two that just fit, one that does not, and one whose end looks
\* like a frame.
SomeFrames ==
  {[id |-> 60, payload |-> <<15, 240>>], [id |-> 2, payload |-> <<14>>],
   [id |-> 2, payload |-> <<239>>], [id |-> 1, payload |-> <<195>>],
   [id |-> 2, payload |-> <<254>>], [id |-> 1, payload |-> <<>>],
   [id |-> 5, payload |-> <<0, 0, 251>>], [id |-> 5, payload |-> <<0, 0, 0, 251>>],
   [id |-> 212, payload |-> <<0, 0, 0, 0, 0, 240, 1>>]}

\* RPC_PROBE_SMALL_IDENTIFIER
SomeProbes == {-1}

\* The field of 7 elements has a root of 1/2, and a turn besides that by 0.
SomeAngles == LET still == [cos |-> 1, sin |-> 0]
                  half == [cos |-> 2, sin |-> 2]
              IN {<<half, still, still>>, <<still, half, half>>, <<half, half, half>>}
SomeNoise == {[Q |-> 2, R |-> 3]}
UnitVector == [rows |-> 3, cols |-> 1, data |-> [i \in 0 .. 2, j \in 0 .. 0 |-> <<2, 2, 0>>[i + 1]]]

Protocol == INSTANCE FlawlessProtocol WITH
  Frames <- FramesSent
MainLink == INSTANCE TxRing WITH
  Size <- TxSize, Lengths <- TxLengths, Gated <- TRUE
MainRx == INSTANCE RxRing WITH
  Size <- RxSize, pending <- rxPending, handler <- rxHandler, received <- receivedByte,
  arrived <- bytesArrived, handed <- bytesHanded
Route == INSTANCE Routing WITH
  sent <- sentFrames
Bus == INSTANCE I2C WITH
  QueueSize <- TransactionQueue
Reader == INSTANCE MotorReader WITH
  Motors <- ReadMotors, Raw <- RawPositions, IdleValues <- ReadIdleValues,
  Middle <- ReadMiddle
Commands == INSTANCE MotorCommands WITH
  Motors <- GoalMotors, IdleValues <- GoalIdleValues, Middle <- GoalMiddle,
  Width <- GoalWidth, QueueSize <- JobQueue
Music == INSTANCE Sound WITH
  hit <- struck
ASSUME SoundAssumption == NULL \notin Music!Beeps
Keys == INSTANCE Buttons WITH
  Buttons <- UserButtons, due <- evaluationDue, read <- portRead
Imu == INSTANCE Calibration WITH
  Fields <- <<"gyro", "mag", "offset", "R">>, Values <- CalibrationValues
Time == INSTANCE TimeSync WITH
  Ahead <- [P1 |-> AheadOfP1, P2 |-> AheadOfP2]
Watch == INSTANCE ImuWatch WITH
  Limit <- EqualLimit, Interval <- WatchInterval
Kalman == INSTANCE Filter WITH
  Prime <- 7, Angles <- SomeAngles, Passed <- {1}, Measured <- {UnitVector},
  Noise <- [Q |-> 1, R |-> 5, mag |-> 2], Parameters <- SomeNoise, Sqrt2 <- 2,
  MaxSteps <- 4, offset <- mounting, ct <- averaged
Startup == INSTANCE Startup WITH
  done <- initialised

protocol == <<sending, receiveState, posted, history>>
mainLink == <<data, start, end, count, g_currentTXTransactionSize, g_txEnabled,
              timer, sent, left, triggers, stored, out>>
mainRx == <<g_rxFifoBuf, g_rxFifoReadIndex, sndtr, rxPending, rxHandler,
            receivedByte, bytesArrived, bytesHanded>>
route == <<queue, arrived, sentFrames, lost, echoed>>
i2c == <<bus, poll, ready, ct>>
reader == <<positions, failures, idleValues, reads, push, seen, touched, pushed>>
commands == <<idle, currentRegister, jobs, motor, messages, mixed>>
sound == <<g_themeIndex, g_musicPtr, g_musicNotesCnt, callbacks, tones,
           isRegistered, step, due, struck>>
buttons == <<configs, pressed, states, imr, evaluationDue, portRead, setup, missed,
             masked>>
calibration == <<ram, sector, at, saving, gyro, mag, offset, saved, cut>>
time == <<now, clock, prescaler, frames, begun, ping, diff, synced, tries, asked,
          round, requests>>
watch == <<equal, pending, countdown, flags, silent, reset>>
filter == <<state, P, Q, Raccel, Rmag, update, turn, mounting, averaged, fixed,
            steps>>
startup == <<board, initialised, inForce, taken, early>>

Init ==
  /\ part \in {"protocol", "mainLink", "mainRx", "route", "i2c", "reader",
              "commands", "sound", "buttons", "calibration", "time", "watch",
              "filter", "startup"}
  /\ Protocol!Init
  /\ MainLink!Init
  /\ MainRx!Init
  /\ Route!Init
  /\ Bus!Init
  /\ Reader!Init
  /\ Commands!Init
  /\ Music!Init
  /\ Keys!Init
  /\ Imu!Init
  /\ Time!Init
  /\ Watch!Init
  /\ Kalman!Init
  /\ Startup!Init
  /\ part = "protocol" \/ receiveState.buffer
  /\ part = "startup" \/ board = "P1"
  /\ part = "time" \/ \A p \in Time!Processors : prescaler[p] = 0

Next ==
  /\ UNCHANGED part
  /\ \/ /\ part = "protocol" /\ Protocol!Next
        /\ UNCHANGED <<mainLink, mainRx, route, i2c, reader, commands, sound,
              buttons, calibration, time, watch, filter, startup>>
     \/ /\ part = "mainLink" /\ MainLink!Next
        /\ UNCHANGED <<protocol, mainRx, route, i2c, reader, commands, sound,
              buttons, calibration, time, watch, filter, startup>>
     \/ /\ part = "mainRx" /\ MainRx!Next
        /\ UNCHANGED <<protocol, mainLink, route, i2c, reader, commands, sound,
              buttons, calibration, time, watch, filter, startup>>
     \/ /\ part = "route" /\ Route!Next
        /\ UNCHANGED <<protocol, mainLink, mainRx, i2c, reader, commands, sound,
              buttons, calibration, time, watch, filter, startup>>
     \/ /\ part = "i2c" /\ Bus!Next
        /\ UNCHANGED <<protocol, mainLink, mainRx, route, reader, commands, sound,
              buttons, calibration, time, watch, filter, startup>>
     \/ /\ part = "reader" /\ Reader!Next
        /\ UNCHANGED <<protocol, mainLink, mainRx, route, i2c, commands, sound,
              buttons, calibration, time, watch, filter, startup>>
     \/ /\ part = "commands" /\ Commands!Next
        /\ UNCHANGED <<protocol, mainLink, mainRx, route, i2c, reader, sound,
              buttons, calibration, time, watch, filter, startup>>
     \/ /\ part = "sound" /\ Music!Next
        /\ UNCHANGED <<protocol, mainLink, mainRx, route, i2c, reader, commands,
              buttons, calibration, time, watch, filter, startup>>
     \/ /\ part = "buttons" /\ Keys!Next
        /\ UNCHANGED <<protocol, mainLink, mainRx, route, i2c, reader, commands,
              sound, calibration, time, watch, filter, startup>>
     \/ /\ part = "calibration" /\ Imu!Next
        /\ UNCHANGED <<protocol, mainLink, mainRx, route, i2c, reader, commands,
              sound, buttons, time, watch, filter, startup>>
     \/ /\ part = "time" /\ Time!Next
        /\ UNCHANGED <<protocol, mainLink, mainRx, route, i2c, reader, commands,
              sound, buttons, calibration, watch, filter, startup>>
     \/ /\ part = "watch" /\ Watch!Next
        /\ UNCHANGED <<protocol, mainLink, mainRx, route, i2c, reader, commands,
              sound, buttons, calibration, time, filter, startup>>
     \/ /\ part = "filter" /\ Kalman!Next
        /\ UNCHANGED <<protocol, mainLink, mainRx, route, i2c, reader, commands,
              sound, buttons, calibration, time, watch, startup>>
     \/ /\ part = "startup" /\ Startup!Next
        /\ UNCHANGED <<protocol, mainLink, mainRx, route, i2c, reader, commands,
              sound, buttons, calibration, time, watch, filter>>

Spec == Init /\ [][Next]_<<part, protocol, mainLink, mainRx, route, i2c, reader,
              commands, sound, buttons, calibration, time, watch, filter, startup>>

\* Of the part that was chosen; the others are as they were at the start.
TypeOK ==
  /\ part = "protocol" => Protocol!TypeOK
  /\ part = "mainLink" => MainLink!TypeOK
  /\ part = "mainRx" => MainRx!TypeOK
  /\ part = "route" => Route!TypeOK
  /\ part = "i2c" => Bus!TypeOK
  /\ part = "reader" => Reader!TypeOK
  /\ part = "commands" => Commands!TypeOK
  /\ part = "sound" => Music!TypeOK
  /\ part = "buttons" => Keys!TypeOK
  /\ part = "calibration" => Imu!TypeOK
  /\ part = "time" => Time!TypeOK
  /\ part = "watch" => Watch!TypeOK
  /\ part = "filter" => Kalman!TypeOK
  /\ part = "startup" => Startup!TypeOK
FramesFollowNoise == part = "protocol" => Protocol!FramesFollowNoise
WrongByteIsCaught == part = "protocol" => Protocol!WrongByteIsCaught
BytesInOrder ==
  /\ part = "mainLink" => MainLink!BytesInOrder
  /\ part = "mainRx" => MainRx!BytesInOrder
RingIsServed == part = "mainLink" => MainLink!RingIsServed
DeliveredAsIntended == part = "route" => Route!DeliveredAsIntended
TransactionsEnd == part = "i2c" => Bus!TransactionsEnd
PositionsAreRecent == part = "reader" => Reader!PositionsAreRecent
ReadsBackWhatWasMeant == part = "commands" => Commands!ReadsBackWhatWasMeant
ThemesAreWhole == part = "sound" => Music!ThemesAreWhole
EdgesAreReported == part = "buttons" => Keys!EdgesAreReported
SyncedWithinPing == part = "time" => Time!SyncedWithinPing
ResetAfterRecovery == part = "watch" => Watch!ResetAfterRecovery
FilterIsExact == part = "filter" => Kalman!FilterIsExact
NothingIsRefused == part = "startup" => Startup!NothingIsRefused
PeripheralsAreUsable == part = "startup" => Startup!PeripheralsAreUsable
CalibrationsAreWhole == Imu!CalibrationsAreWhole
===============================================================================
