----------------------------- MODULE FifoLinks -----------------------------
(***************************************************************************)
(* What the Network trait of scl-rs promises a protocol about each         *)
(* directed link, whatever the backend: packets are neither lost,          *)
(* duplicated nor reordered.  The k-th packet handed to send_to on a link  *)
(* is the k-th to reach the receiver and the k-th its receives return; a   *)
(* packet is on its way for as long as the backend pleases.                *)
(*                                                                         *)
(* A link is three counters, so that order and identity are the same       *)
(* thing: packet number k is on its way when arrived < k <= sent, queued   *)
(* at the receiver when received < k <= arrived, consumed otherwise.       *)
(***************************************************************************)
EXTENDS Naturals

CONSTANT Link     \* the directed links, self-links included

VARIABLES
  sent,           \* sent[l]: the number of packets handed to send_to on l
  arrived,        \* arrived[l]: how many of them have reached the receiver
  received        \* received[l]: the last packet a receive has returned

vars == <<sent, arrived, received>>

Init ==
  /\ sent = [l \in Link |-> 0]
  /\ arrived = [l \in Link |-> 0]
  /\ received = [l \in Link |-> 0]

Send(l) ==
  /\ sent' = [sent EXCEPT ![l] = @ + 1]
  /\ UNCHANGED <<arrived, received>>

\* A loop-back channel hands a packet over at once.
SendAtOnce(l) ==
  /\ arrived[l] = sent[l]
  /\ sent' = [sent EXCEPT ![l] = @ + 1]
  /\ arrived' = [arrived EXCEPT ![l] = @ + 1]
  /\ UNCHANGED received

Arrive(l) ==
  /\ arrived[l] < sent[l]
  /\ arrived' = [arrived EXCEPT ![l] = @ + 1]
  /\ UNCHANGED <<sent, received>>

Receive(l) ==
  /\ received[l] < arrived[l]
  /\ received' = [received EXCEPT ![l] = @ + 1]
  /\ UNCHANGED <<sent, arrived>>

Next == \E l \in Link : Send(l) \/ SendAtOnce(l) \/ Arrive(l) \/ Receive(l)

Spec == Init /\ [][Next]_vars

=============================================================================
