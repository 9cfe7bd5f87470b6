-------------------------- MODULE OrderedDelivery --------------------------
(***************************************************************************)
(* What rpc_on_data promises the dispatcher: the messages of the peer, in  *)
(* the order they were sent, each whole and at most once; a message is     *)
(* skipped only when it was refused memory, which can happen to the next   *)
(* one alone.  The promise ends when bytes of the connection get lost.     *)
(***************************************************************************)
EXTENDS Naturals, Sequences

CONSTANT Total  \* messages are numbered 1 .. Total

VARIABLES
  sent,      \* messages handed to the connection so far
  next,      \* messages taken off it
  delivered, \* messages dispatched, in order
  refused,   \* messages there was no memory for
  broken     \* bytes got lost

vars == <<sent, next, delivered, refused, broken>>

Init ==
  /\ sent = 0 /\ next = 0 /\ delivered = <<>>
  /\ refused = {}
  /\ broken = FALSE

Send ==
  /\ sent < Total
  /\ sent' = sent + 1
  /\ UNCHANGED <<next, delivered, refused>>

Deliver ==
  /\ next < sent
  /\ next' = next + 1
  /\ delivered' = Append(delivered, next')
  /\ UNCHANGED <<sent, refused>>

Refuse ==
  /\ next < sent
  /\ refused' = refused \cup {next + 1}
  /\ UNCHANGED <<sent, next, delivered>>

Skip ==
  /\ next < sent
  /\ next + 1 \in refused
  /\ next' = next + 1
  /\ UNCHANGED <<sent, delivered, refused>>

Next ==
  \/ ~broken /\ ~broken' /\ (Send \/ Deliver \/ Refuse \/ Skip)
  \/ broken'

Spec == Init /\ [][Next]_vars
=============================================================================
