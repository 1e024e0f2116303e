------------------------------ MODULE MCDynamixel ------------------------------
(* Instances of Dynamixel for TLC. *)
EXTENDS Dynamixel

\* The users of this repository: the motor reader asks all ports with a
\* callback, the motor writer writes to a port at a time with no answer, and a
\* forwarded ping goes to one.
SomeRequests ==
  {[job |-> Read(TRUE), priority |-> "low", ports |-> Ports],
   [job |-> SyncWrite, priority |-> "high", ports |-> {0}],
   [job |-> Ping(FALSE), priority |-> "high", ports |-> {0}]}
===============================================================================
