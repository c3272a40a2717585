------------------------------ MODULE Delivery ------------------------------
(***************************************************************************)
(* What the event sender of the MiniFilter's user program promises to its  *)
(* caller, whatever happens to the connection: the events on its queue     *)
(* reach the server one after the other, and as long as the server's side  *)
(* of the dialog is in order an event leaves the queue only when the       *)
(* server has it.  That an event may reach the server twice does not show  *)
(* here, because the server keeps a set.                                   *)
(***************************************************************************)
EXTENDS Naturals, Sequences

CONSTANT Event  \* what can be queued

VARIABLES
  accepted,  \* the events that have been put on the queue, in order
  acked,     \* how many of them have left it
  stored,    \* the events that the server has
  orderly    \* whatever the server has sent was an answer

vars == <<accepted, acked, stored, orderly>>

Init == accepted = <<>> /\ acked = 0 /\ stored = {} /\ orderly = TRUE

\* A call of queueMsg may put one place more on the queue than it has events.
Accept ==
  /\ \E e, f \in Event : accepted' \in {Append(accepted, e), accepted \o <<e, f>>}
  /\ UNCHANGED <<acked, stored, orderly>>

\* The oldest event on the queue, or one that has left it, and no other, gets to the server.
Store ==
  /\ \E k \in 1 .. acked + 1 :
       k \in DOMAIN accepted /\ stored' = stored \cup {accepted[k]}
  /\ orderly' \in {orderly, FALSE}
  /\ UNCHANGED <<accepted, acked>>

Disorder == orderly' = FALSE /\ UNCHANGED <<accepted, acked, stored>>

Acknowledge ==
  /\ acked < Len(accepted)
  /\ orderly => accepted[acked + 1] \in stored
  /\ acked' = acked + 1
  /\ UNCHANGED <<accepted, stored, orderly>>

Next == Accept \/ Store \/ Disorder \/ Acknowledge

Spec == Init /\ [][Next]_vars
=============================================================================
