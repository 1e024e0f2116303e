----------------------------- MODULE FrameChannel -----------------------------
(***************************************************************************)
(* What the link between the processors promises: frames arrive whole, one *)
(* at a time, in the order they were sent and at most once.  They arrive   *)
(* unless the receiver is excused: it could not hand on, or had no buffer  *)
(* for, this frame or the one before.  P2PLink implements this             *)
(* specification.                                                          *)
(***************************************************************************)
EXTENDS Naturals, Sequences

CONSTANT Frames  \* a frame is a record of its number and its length

VARIABLES
  inFlight,      \* the frames sent and neither delivered nor lost
  delivered,     \* what the receiver was handed last, byte by byte
  excused        \* the pool and the message pump have let the receiver down

vars == <<inFlight, delivered, excused>>

Bytes(f) == [k \in 1 .. f.len |-> [frame |-> f, pos |-> k]]

Init ==
  /\ inFlight = <<>>
  /\ delivered = <<>>
  /\ excused = FALSE

Send(f) ==
  /\ inFlight' = Append(inFlight, f)
  /\ UNCHANGED <<delivered, excused>>

Deliver ==
  /\ inFlight # <<>>
  /\ delivered' = Bytes(Head(inFlight))
  /\ inFlight' = Tail(inFlight)
  /\ excused' \in BOOLEAN

\* The frame that is next.
Lose ==
  /\ excused' \in BOOLEAN
  /\ excused \/ excused'
  /\ inFlight # <<>>
  /\ inFlight' = Tail(inFlight)
  /\ UNCHANGED delivered

\* Between frames.
Excuse ==
  /\ excused' \in BOOLEAN
  /\ UNCHANGED <<inFlight, delivered>>

Next ==
  \/ \E f \in Frames : Send(f)
  \/ Deliver
  \/ Lose
  \/ Excuse

Spec == Init /\ [][Next]_vars

===============================================================================
