----------------------------- MODULE Calibration -----------------------------
(***************************************************************************)
(* The calibrations of P2's inertial sensors and the flash they are kept   *)
(* in (application/p2/app_gyroReader.c, imu/gyroCalibration.c,             *)
(* imu/offsetCalibration.c, target/stm32f4/configuration.c and flash.c).   *)
(*                                                                         *)
(* The sector of the flash holds one record, for the one variable of the   *)
(* configuration: its header, its names, its data and the end, written     *)
(* half word by half word. A restart, by the watchdog of the sensors or a  *)
(* loss of power, comes between any two steps. The header, the names and   *)
(* the end are one step each: a record without all of its header and names *)
(* is not found, and an erased end is an end.                              *)
(***************************************************************************)
EXTENDS Integers, Sequences

CONSTANTS
  Fields,   \* the numbers of calibrationIMU_t in the order of the structure
  Values    \* what a calibration may come to; one is "default", for that of each field

\* The sum of a calibration that is not over, the quotient of no samples, and
\* a number of which the second half word, that has the exponent, is erased.
Odd == {"sum", "quotient", "erased"}
IsNaN(value) == value \in {"quotient", "erased"}

Default == [f \in 1 .. Len(Fields) |-> "default"]

VARIABLES
  ram,      \* g_calibrationIMU
  sector,   \* the record's data, and how many of its half words are written:
            \* 0 for an erased sector, 1 after the header, 2 after the names
  at,       \* the program: where it is
  saving,   \* config_updateToFlash writes
  gyro,     \* g_calibrationGyroMode and whether g_gyroTimeCt is not 0
  mag,      \* g_calibrationMagMode
  offset,   \* g_calibrationOffsetMode
  saved,    \* history: what the last save that began to write was to write
  cut       \* history: a restart has cut it off

vars == <<ram, sector, at, saving, gyro, mag, offset, saved, cut>>

Count == Len(Fields)
Whole == 2 + 2 * Count    \* the steps that write a record, before the end

Calibrations == [1 .. Count -> Values \cup Odd]

TypeOK ==
  /\ ram \in Calibrations /\ sector.data \in Calibrations /\ saved \in Calibrations
  /\ sector.written \in 0 .. Whole
  /\ at \in {"reset", "configured", "running"}
  /\ saving \in BOOLEAN /\ cut \in BOOLEAN
  /\ gyro \in {"off", "on", "sampled"} /\ mag \in 0 .. 2 /\ offset \in BOOLEAN

Init ==
  /\ ram = Default /\ saved = Default
  /\ sector = [data |-> Default, written |-> 0]
  /\ at = "reset" /\ saving = FALSE /\ cut = FALSE
  /\ gyro = "off" /\ mag = 0 /\ offset = FALSE

-------------------------------------------------------------------------------
\* readCurrentConfigurationFromFlash; a number is written when both halves are.
Found == sector.written >= 2
Recorded == [f \in 1 .. Count |-> IF sector.written >= 2 + 2 * f THEN sector.data[f] ELSE "erased"]
Current == IF Found THEN Recorded ELSE Default

\* config_updateToFlash, called with the calibrations c: the sector is erased if
\* it does not hold them,
NeedsUpdate(c) == ~Found \/ Recorded # c

EraseSector(c) == sector' = [data |-> c, written |-> 0]

Update(c) ==
  /\ ram' = c
  /\ IF NeedsUpdate(c)
       THEN saving' = TRUE /\ EraseSector(c) /\ saved' = c /\ cut' = FALSE
       ELSE UNCHANGED <<saving, sector, saved, cut>>

\* and written. The end of the records is written last, and the flash locked.
ProgramHalfWord == sector' = [sector EXCEPT !.written = @ + 1]

WriteWordsToFlash ==
  /\ saving
  /\ IF sector.written < Whole
       THEN ProgramHalfWord /\ UNCHANGED saving
       ELSE saving' = FALSE /\ UNCHANGED sector
  /\ UNCHANGED <<ram, at, gyro, mag, offset, saved, cut>>

-------------------------------------------------------------------------------
\* configuration_init
ConfigurationInit ==
  /\ at = "reset"
  /\ at' = "configured"
  /\ Update(Current)
  /\ UNCHANGED <<gyro, mag, offset>>

\* loadDefaultValues, called by imu_init
MutantLoadDefaultValues ==
  /\ at = "configured" /\ ~saving
  /\ at' = "running"
  /\ ram' = IF IsNaN(ram[1]) THEN Default ELSE ram
  /\ UNCHANGED <<sector, saving, gyro, mag, offset, saved, cut>>

LoadDefaultValues ==
  /\ at = "configured" /\ ~saving
  /\ at' = "running"
  /\ ram' = IF \E f \in 1 .. Count : IsNaN(ram[f]) THEN Default ELSE ram
  /\ UNCHANGED <<sector, saving, gyro, mag, offset, saved, cut>>

\* imu_restartP2, or the power
Restart ==
  /\ at' = "reset"
  /\ saving' = FALSE
  /\ cut' = (cut \/ (saving /\ sector.written < Whole))
  /\ gyro' = "off" /\ mag' = 0 /\ offset' = FALSE
  /\ ram' = Default
  /\ UNCHANGED <<sector, saved>>

-------------------------------------------------------------------------------
\* gyroCtlEndpoint and the callbacks of the sensors' messages: the main loop,
\* while it does not save.
Running == at = "running" /\ ~saving
With(f, value) == [k \in 1 .. Count |-> IF Fields[k] = f THEN value ELSE ram[k]]
Kept == UNCHANGED <<sector, at, saving, saved, cut>>

StartGyroCalibration ==
  /\ Running /\ gyro = "off"
  /\ gyro' = "on"
  /\ ram' = With("gyro", "default")
  /\ UNCHANGED <<mag, offset>> /\ Kept

RunGyroCalibration ==
  /\ Running /\ gyro \in {"on", "sampled"}
  /\ gyro' = "sampled"
  /\ ram' = With("gyro", "sum")
  /\ UNCHANGED <<mag, offset>> /\ Kept

StopGyroCalibration(value) ==
  /\ Running /\ gyro \in {"on", "sampled"}
  /\ gyro' = "off"
  /\ Update(With("gyro", IF gyro = "sampled" THEN value ELSE "quotient"))
  /\ UNCHANGED <<at, mag, offset>>

\* startMagCalibration and stopMagCalibration, which does not save
SetMagCalibration(mode) ==
  /\ Running
  /\ mag' = mode
  /\ UNCHANGED <<ram, gyro, offset>> /\ Kept

RunMagCalibration(value) ==
  /\ Running /\ mag # 0
  /\ mag' = 2
  /\ ram' = With("mag", value)
  /\ UNCHANGED <<gyro, offset>> /\ Kept

\* startOffsetCalibration and runOffsetCalibration take the filter's state
StartOffsetCalibration(value) ==
  /\ Running /\ ~offset
  /\ offset' = TRUE
  /\ ram' = With("offset", value)
  /\ UNCHANGED <<gyro, mag>> /\ Kept

RunOffsetCalibration(value) ==
  /\ Running /\ offset
  /\ ram' = With("offset", value)
  /\ UNCHANGED <<gyro, mag, offset>> /\ Kept

StopOffsetCalibration(value) ==
  /\ Running /\ offset
  /\ offset' = FALSE
  /\ Update(With("offset", value))
  /\ UNCHANGED <<at, gyro, mag>>

\* The parameters of the filter
SetParameters(value) ==
  /\ Running
  /\ Update(With("R", value))
  /\ UNCHANGED <<at, gyro, mag, offset>>

Next ==
  \/ ConfigurationInit \/ LoadDefaultValues \/ WriteWordsToFlash \/ Restart
  \/ StartGyroCalibration \/ RunGyroCalibration
  \/ SetMagCalibration(1) \/ SetMagCalibration(0)
  \/ \E value \in Values :
       StopGyroCalibration(value) \/ RunMagCalibration(value)
         \/ StartOffsetCalibration(value) \/ RunOffsetCalibration(value)
         \/ StopOffsetCalibration(value) \/ SetParameters(value)

Spec == Init /\ [][Next]_vars

-------------------------------------------------------------------------------
\* Whatever step of a save a restart cuts off, P2 comes up with calibrations
\* that belong together and are numbers: those of the last save if it was not
\* cut off, and otherwise these or the defaults, all of them. No number of a
\* record that is half written, and no quotient of a calibration without a
\* sample, is taken for a calibration.
CalibrationsAreWhole ==
  [][LoadDefaultValues =>
       \/ ram' = Default /\ (cut \/ \E f \in 1 .. Count : IsNaN(saved[f]))
       \/ ram' = saved /\ \A f \in 1 .. Count : ~IsNaN(saved[f])]_vars
===============================================================================
