------------------------------ MODULE MCSwTimer ------------------------------
(* Model values for the runs of SwTimer. *)
EXTENDS SwTimer

CONSTANTS heartBeat, timeout, pause

\* The heart beat is periodic, the others are called once.
MCInterval == [c \in Clients |-> IF c = heartBeat THEN 3 ELSE IF c = timeout THEN 2 ELSE 1]

\* The pause between two packets registers itself again.
MCRegisters == [c \in Clients |-> IF c = pause THEN {pause} ELSE {}]

===============================================================================
