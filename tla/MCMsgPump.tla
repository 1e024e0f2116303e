------------------------------ MODULE MCMsgPump ------------------------------
(* Model values for the runs of MsgPump. *)
EXTENDS MsgPump

CONSTANTS m1, m2, b1, b2, b3, r1, r2, p1, p2

\* Two pools: m1's is shared by two producers, m2's takes copies.
MCPoolOf == [b \in Buffers |-> IF b = b3 THEN m2 ELSE m1]
MCIDOf == [p \in Producers |-> m1]

\* r1 listens to m1, and to m2 where there is no proxy; r2, the proxy, comes and
\* goes on both, on m2 with more empty slots than it may take.
MCInitialCallbacks ==
  [id \in MsgIDs |-> [s \in Slots |->
     IF s = 0 /\ (id = m1 \/ ProxyReceivers = {}) THEN r1 ELSE NULL]]

===============================================================================
