------------------------------ MODULE ImuWatch -------------------------------
(***************************************************************************)
(* How P2 notices that a sensor has frozen (application/p2/app_gyroReader):*)
(* every sample is compared with the one before, every message to the main *)
(* computer says whether too many were equal and, if so, registers the     *)
(* reset of the processor.  A tick is the period of these messages.        *)
(***************************************************************************)
EXTENDS Naturals

CONSTANTS
  Limit,      \* the equal samples that are not too many, for 100
  Interval,   \* the ticks from a registration to the reset, for 20
  NULL

Sensors == {"accel", "gyro"}

VARIABLES
  equal,      \* g_imuAccDataOldCt and g_imuGyroDataOldCt, of which Limit + 1 stands for more
  pending,    \* MSG_ID_IMU_SEND_DATA is in the queue
  countdown,  \* the ticks until imu_restartP2 is called, NULL while it is not registered
  flags,      \* history: the sensors the last message said do not work,
  silent,     \* the ticks without a message since,
  reset       \* and what was so at the last reset

vars == <<equal, pending, countdown, flags, silent, reset>>

TypeOK ==
  /\ equal \in [Sensors -> 0 .. Limit + 1]
  /\ pending \in BOOLEAN
  /\ countdown = NULL \/ countdown \in 1 .. Interval
  /\ flags \subseteq Sensors
  /\ silent \in 0 .. Interval
  /\ reset = NULL \/ reset \in [flags : SUBSET Sensors, silent : 0 .. Interval]

\* loadDefaultValues and imu_init
Started ==
  /\ equal' = [s \in Sensors |-> 0]
  /\ pending' = FALSE
  /\ countdown' = NULL
  /\ flags' = {} /\ silent' = 0

Init ==
  /\ equal = [s \in Sensors |-> 0]
  /\ pending = FALSE
  /\ countdown = NULL
  /\ flags = {} /\ silent = 0 /\ reset = NULL

-------------------------------------------------------------------------------
\* app_imu_accel_msgPumpCallback and app_imu_gyro_msgPumpCallback
OnSample(s, same) ==
  /\ equal' = [equal EXCEPT ![s] = IF ~same THEN 0 ELSE IF @ > Limit THEN @ ELSE @ + 1]
  /\ UNCHANGED <<pending, countdown, flags, silent, reset>>

\* The flags of the outgoing message: the gyroscope is looked at only if the
\* accelerometer works.
Flags == IF equal["accel"] > Limit THEN {"accel"}
         ELSE IF equal["gyro"] > Limit THEN {"gyro"} ELSE {}

\* app_imu_send_msgPumpCallback; swTimer_registerOnTimer starts the interval of
\* a callback that is registered anew.
MutantRegistered == IF Flags = {} THEN countdown
                    ELSE IF countdown = NULL THEN Interval ELSE countdown

Registered == IF Flags = {} THEN countdown ELSE Interval

Send ==
  /\ pending
  /\ pending' = FALSE
  /\ countdown' = Registered
  /\ flags' = Flags /\ silent' = 0
  /\ UNCHANGED <<equal, reset>>

\* The timer: imu_restartP2 if it is time, and imu_timerCB, whose message is
\* posted if the pool's one buffer is free. The main loop may be late with it.
Tick ==
  IF countdown = 1
    THEN /\ reset' = [flags |-> flags, silent |-> silent]
         /\ Started
    ELSE /\ countdown' = IF countdown = NULL THEN NULL ELSE countdown - 1
         /\ pending' = TRUE
         /\ silent' = IF silent < Interval THEN silent + 1 ELSE silent
         /\ UNCHANGED <<equal, flags, reset>>

Next ==
  \/ \E s \in Sensors, same \in BOOLEAN : OnSample(s, same)
  \/ Send
  \/ Tick

Spec == Init /\ [][Next]_vars

-------------------------------------------------------------------------------
\* The watchdog does not rescue a frozen sensor: P2 resets itself only when the
\* sensors have been found to work again, or when no message has been sent for
\* all of the interval. While messages say that a sensor does not work, each
\* one puts the reset off.
ResetAfterRecovery == reset # NULL => reset.flags = {} \/ reset.silent >= Interval - 1
===============================================================================
