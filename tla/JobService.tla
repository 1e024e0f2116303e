------------------------------ MODULE JobService ------------------------------
(***************************************************************************)
(* What the Dynamixel bus promises its users (interfaces/dynamixel.h): the *)
(* jobs of a port are carried out one at a time, those of high priority    *)
(* first and in the order they were accepted within a priority.  The       *)
(* callback of a job is called once, with the answer or without.  There is *)
(* one exception.  When the answer of a port comes while the timeout of    *)
(* the port is under way, the timeout is overtaken: the user is told       *)
(* again, and the job that the port carries out by then may be dropped.    *)
(* Dynamixel implements this specification.                                *)
(***************************************************************************)
EXTENDS Naturals, Sequences

CONSTANTS
  Ports,
  Jobs,        \* a job is a record; answer: it needs one, callback: it has one
  NULL

Priorities == {"high", "low"}

VARIABLES
  waiting,     \* the accepted jobs of each priority and port, oldest first
  current,     \* the job a port is carrying out
  timeout,     \* of a port: "none", "under way" or "overtaken"
  called       \* the call of a callback that the last step has made

vars == <<waiting, current, timeout, called>>

Init ==
  /\ waiting = [q \in Priorities |-> [p \in Ports |-> <<>>]]
  /\ current = [p \in Ports |-> NULL]
  /\ timeout = [p \in Ports |-> "none"]
  /\ called = NULL

Accept(p) ==
  /\ \E q \in Priorities, j \in Jobs :
       waiting' = [waiting EXCEPT ![q][p] = Append(@, j)]
  /\ called' = NULL
  /\ UNCHANGED <<current, timeout>>

\* The head of the queues of a port; several ports may start at once.
Starts(p, q) ==
  /\ waiting[q][p] # <<>>
  /\ q = "low" => waiting["high"][p] = <<>>

\* A timeout begins and ends at any time, but only an answer overtakes it.
NoneOvertaken == \A p \in Ports : timeout'[p] = "overtaken" => timeout[p] = "overtaken"

OvertakenAtMost(p) ==
  \A x \in Ports : timeout'[x] = "overtaken" =>
    \/ timeout[x] = "overtaken"
    \/ x = p /\ timeout[x] = "under way"

\* A port starts a job when it has none, or drops the one it has.
Start(ports) ==
  /\ ports # {}
  /\ \A p \in ports : current[p] = NULL \/ timeout[p] = "overtaken"
  /\ \E from \in [ports -> Priorities] :
       /\ \A p \in ports : Starts(p, from[p])
       /\ current' = [p \in Ports |-> IF p \in ports THEN Head(waiting[from[p]][p])
                                                     ELSE current[p]]
       /\ waiting' = [q \in Priorities |-> [p \in Ports |->
            IF p \in ports /\ from[p] = q THEN Tail(waiting[q][p]) ELSE waiting[q][p]]]
  /\ called' = NULL
  /\ NoneOvertaken

\* A job that needs an answer ends with a call, if it has a callback. The user
\* of an answer is told of it even if the timeout of the port is under way.
Finish(p) ==
  /\ current[p] # NULL
  /\ current' = [current EXCEPT ![p] = NULL]
  /\ \E ok \in BOOLEAN :
       /\ called' = IF current[p].answer /\ current[p].callback
                      THEN [port |-> p, job |-> current[p], success |-> ok] ELSE NULL
       /\ IF ok THEN OvertakenAtMost(p) ELSE NoneOvertaken
  /\ UNCHANGED waiting

\* The answer comes after its user was told that there is none,
Answered(p) ==
  /\ current[p] = NULL /\ timeout[p] = "under way" /\ timeout'[p] = "overtaken"
  /\ OvertakenAtMost(p)
  /\ \E j \in Jobs : called' \in {NULL, [port |-> p, job |-> j, success |-> TRUE]}
  /\ UNCHANGED <<waiting, current>>

\* or a timeout that was overtaken tells a user who has been told or still waits,
Again(p) ==
  /\ timeout[p] = "overtaken"
  /\ \E j \in Jobs : called' = [port |-> p, job |-> j, success |-> FALSE]
  /\ NoneOvertaken
  /\ UNCHANGED <<waiting, current>>

\* and the reset of the port drops its job.
Drop(p) ==
  /\ timeout[p] = "overtaken"
  /\ current' = [current EXCEPT ![p] = NULL]
  /\ called' = NULL
  /\ NoneOvertaken
  /\ UNCHANGED waiting

\* Anything else the bus does.
Quiet == called' = NULL /\ NoneOvertaken /\ UNCHANGED <<waiting, current>>

Next ==
  \/ \E p \in Ports : Accept(p) \/ Finish(p) \/ Answered(p) \/ Again(p) \/ Drop(p)
  \/ \E ports \in SUBSET Ports : Start(ports)
  \/ Quiet

Spec == Init /\ [][Next]_vars

===============================================================================
