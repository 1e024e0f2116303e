----------------------------- MODULE MessageQueue -----------------------------
(***************************************************************************)
(* What the message pump of framework/flawless/core promises its users, as *)
(* msg_msgPump.h describes it: messages are handed out one at a time, in   *)
(* the order they were posted, once to every receiver that is registered   *)
(* on the message, with the content they were posted with; a receiver that *)
(* locked a message keeps that content until it unlocks the message.       *)
(* MsgPump implements this specification.                                  *)
(***************************************************************************)
EXTENDS Sequences

CONSTANTS
  MsgIDs,      \* the message IDs
  Receivers,   \* the callback functions
  Payloads,    \* what a message may contain
  NULL         \* no message; also the content of a message posted as NULL

VARIABLES
  subscribed,  \* for each message ID, the receivers registered on it
  pending,     \* the posted messages not yet taken up, oldest first
  current,     \* the message being handed out, or NULL
  due,         \* the receivers the current message is still to be handed to
  served,      \* the receivers it was handed to
  kept         \* for each receiver, the message it has locked, or NULL

vars == <<subscribed, pending, current, due, served, kept>>

Messages == [id : MsgIDs, payload : Payloads \cup {NULL}]

Init ==
  /\ subscribed \in [MsgIDs -> SUBSET Receivers]
  /\ pending = <<>>
  /\ current = NULL
  /\ due = {}
  /\ served = {}
  /\ kept = [r \in Receivers |-> NULL]

Post(m) ==
  /\ pending' = Append(pending, m)
  /\ UNCHANGED <<subscribed, current, due, served, kept>>

TakeUp ==
  /\ current = NULL
  /\ pending # <<>>
  /\ current' = Head(pending)
  /\ pending' = Tail(pending)
  /\ due' = subscribed[Head(pending).id]
  /\ served' = {}
  /\ UNCHANGED <<subscribed, kept>>

HandTo(r) ==
  /\ r \in due
  /\ due' = due \ {r}
  /\ served' = served \cup {r}
  /\ UNCHANGED <<subscribed, pending, current, kept>>

\* Only once every receiver that is due has been called.
Finish ==
  /\ current # NULL
  /\ due = {}
  /\ current' = NULL
  /\ served' = {}
  /\ UNCHANGED <<subscribed, pending, due, kept>>

Keep(r) ==
  /\ r \in served
  /\ kept[r] = NULL
  /\ current.payload # NULL
  /\ kept' = [kept EXCEPT ![r] = current]
  /\ UNCHANGED <<subscribed, pending, current, due, served>>

GiveBack(r) ==
  /\ kept[r] # NULL
  /\ kept' = [kept EXCEPT ![r] = NULL]
  /\ UNCHANGED <<subscribed, pending, current, due, served>>

\* A receiver that registers while a message of that ID is handed out may or
\* may not get this one, but never a second time.
Subscribe(r, id) ==
  /\ subscribed' = [subscribed EXCEPT ![id] = @ \cup {r}]
  /\ \/ UNCHANGED due
     \/ /\ current # NULL
        /\ current.id = id
        /\ r \notin served
        /\ due' = due \cup {r}
  /\ UNCHANGED <<pending, current, served, kept>>

Unsubscribe(r, id) ==
  /\ subscribed' = [subscribed EXCEPT ![id] = @ \ {r}]
  /\ due' = IF current # NULL /\ current.id = id THEN due \ {r} ELSE due
  /\ UNCHANGED <<pending, current, served, kept>>

Next ==
  \/ \E m \in Messages : Post(m)
  \/ TakeUp
  \/ Finish
  \/ \E r \in Receivers : HandTo(r) \/ Keep(r) \/ GiveBack(r)
  \/ \E r \in Receivers, id \in MsgIDs : Subscribe(r, id) \/ Unsubscribe(r, id)

Spec == Init /\ [][Next]_vars

===============================================================================
