----------------------------- MODULE MotorReader -----------------------------
(***************************************************************************)
(* The cyclic reading of the motors (application/p1/motorReader.c): reads  *)
(* that end in interrupt handlers, with an answer or without, and the main *)
(* loop that sends the array of positions byte by byte meanwhile.          *)
(*                                                                         *)
(* A position has Width values for 2^16 and two digits, of base Base, for  *)
(* its bytes. Speed and load are read and sent like it; the statistics are *)
(* counters that nothing depends on.                                       *)
(***************************************************************************)
EXTENDS Integers, Sequences, FiniteSetsExt

CONSTANTS
  Motors,
  Raw,            \* the positions a motor reports
  IdleValues,     \* and the ones its idle value may have
  Middle,         \* for 512
  Base,
  MaxFailures,    \* MAX_CONSECUTIVE_READ_FAILURES
  MaxReads,       \* the reads of a motor that are in its port's queue, at most
  NULL

Width == Base * Base

VARIABLES
  positions,      \* g_motorPositions, and g_motorPositionsNotAdjustedOffsets
  failures,       \* consecutiveFailedReads
  idleValues,     \* g_idleValues
  reads,          \* how many reads of each motor are in the queues
  push,           \* the main loop sends: motor, digit that is next, the digits it has
  seen,           \* history: how the last reads of each motor ended
  touched,        \* history: a read has ended since the first digit was sent
  pushed          \* history: the last position sent, whose, and whether touched

vars == <<positions, failures, idleValues, reads, push, seen, touched, pushed>>

TypeOK ==
  /\ positions \in [Motors -> [adjusted : 0 .. Width - 1, raw : Raw \cup {Width - 1}]]
  /\ failures \in [Motors -> 0 .. MaxFailures - 1]
  /\ idleValues \in [Motors -> IdleValues]
  /\ reads \in [Motors -> 0 .. MaxReads]
  /\ push = NULL \/ push \in [motor : Motors, low : (0 .. Base - 1) \cup {NULL}]
  /\ \A m \in Motors : seen[m] \in Seq((0 .. Width - 1) \cup {NULL}) /\ Len(seen[m]) <= MaxFailures
  /\ touched \in BOOLEAN
  /\ pushed = NULL \/ pushed \in [motor : Motors, value : 0 .. Width - 1, known : 0 .. Width - 1]

\* motors_init
Init ==
  /\ positions = [m \in Motors |-> [adjusted |-> Width - 1, raw |-> 0]]
  /\ failures = [m \in Motors |-> 0]
  /\ idleValues = [m \in Motors |-> Middle]
  /\ reads = [m \in Motors |-> 0]
  /\ push = NULL
  /\ seen = [m \in Motors |-> <<>>]
  /\ touched = FALSE /\ pushed = NULL

-------------------------------------------------------------------------------
\* removeOffsets
RemoveOffsets(m, value) == (value - (idleValues[m] - Middle)) % Width

\* onReadMotors: every motor whose port's queue has room.
OnReadMotors ==
  /\ push = NULL
  /\ \E queued \in SUBSET {m \in Motors : reads[m] < MaxReads} :
       reads' = [m \in Motors |-> IF m \in queued THEN reads[m] + 1 ELSE reads[m]]
  /\ UNCHANGED <<positions, failures, idleValues, push, seen, touched, pushed>>

\* What the histories make of a read of m that has ended.
Ended(m, outcome) ==
  /\ reads' = [reads EXCEPT ![m] = @ - 1]
  /\ seen' = [seen EXCEPT ![m] =
       LET s == Append(@, outcome) IN IF Len(s) > MaxFailures THEN Tail(s) ELSE s]
  /\ touched' = (touched \/ (push # NULL /\ push.motor = m))
  /\ UNCHANGED <<idleValues, push, pushed>>

\* onMotorRead with success, and the right number of bytes.
MutantOnMotorRead(m, value) ==
  /\ reads[m] > 0
  /\ failures' = failures
  /\ positions' = [positions EXCEPT ![m] = [adjusted |-> RemoveOffsets(m, value), raw |-> value]]
  /\ Ended(m, RemoveOffsets(m, value))

OnMotorRead(m, value) ==
  /\ reads[m] > 0
  /\ failures' = [failures EXCEPT ![m] = 0]
  /\ positions' = [positions EXCEPT ![m] = [adjusted |-> RemoveOffsets(m, value), raw |-> value]]
  /\ Ended(m, RemoveOffsets(m, value))

\* onMotorRead with an answer that has another length
OnOddAnswer(m) ==
  /\ reads[m] > 0
  /\ reads' = [reads EXCEPT ![m] = @ - 1]
  /\ UNCHANGED <<positions, failures, idleValues, push, seen, touched, pushed>>

\* onMotorRead without success
OnMotorNotRead(m) ==
  /\ reads[m] > 0
  /\ IF failures[m] >= MaxFailures - 1
       THEN /\ positions' = [positions EXCEPT ![m] = [adjusted |-> Width - 1, raw |-> Width - 1]]
            /\ UNCHANGED failures
       ELSE /\ failures' = [failures EXCEPT ![m] = @ + 1]
            /\ UNCHANGED positions
  /\ Ended(m, NULL)

\* setIdleValues
SetIdleValues(m, value) ==
  /\ push = NULL
  /\ idleValues' = [idleValues EXCEPT ![m] = value]
  /\ UNCHANGED <<positions, failures, reads, push, seen, touched, pushed>>

-------------------------------------------------------------------------------
\* What is known of m: what the newest of its last reads has told, with the
\* offset there was then; that it is lost if none of them has told anything.
Known(m) ==
  LET told == {k \in DOMAIN seen[m] : seen[m][k] # NULL}
  IN IF told = {} THEN Width - 1 ELSE seen[m][Max(told)]

\* onPushDataToOdroid sends motor after motor; each is independent of the others.
PushLow(m) ==
  /\ push = NULL
  /\ push' = [motor |-> m, low |-> positions[m].adjusted % Base]
  /\ touched' = FALSE
  /\ UNCHANGED <<positions, failures, idleValues, reads, seen, pushed>>

PushHigh ==
  /\ push # NULL
  /\ LET m == push.motor
         value == push.low + Base * (positions[m].adjusted \div Base)
     IN pushed' = IF touched THEN NULL ELSE [motor |-> m, value |-> value, known |-> Known(m)]
  /\ push' = NULL
  /\ UNCHANGED <<positions, failures, idleValues, reads, seen, touched>>

Next ==
  \/ OnReadMotors
  \/ \E m \in Motors : \/ \E value \in Raw : OnMotorRead(m, value)
                       \/ OnMotorNotRead(m)
                       \/ OnOddAnswer(m)
                       \/ \E value \in IdleValues : SetIdleValues(m, value)
                       \/ PushLow(m)
  \/ PushHigh

Spec == Init /\ [][Next]_vars

-------------------------------------------------------------------------------
\* The main computer is told where a motor was by the newest of its last five
\* reads, without the offset of that moment, and that the motor is lost when
\* none of the five has been answered. (A position whose second byte is sent
\* after a read that came between them may be half of each.)
PositionsAreRecent == pushed # NULL => pushed.value = pushed.known
===============================================================================
