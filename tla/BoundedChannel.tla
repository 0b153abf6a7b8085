--------------------------- MODULE BoundedChannel ---------------------------
(***************************************************************************)
(* What one direction of a ring promises its two clients: a first-in       *)
(* first-out channel of at most Capacity unacknowledged messages.  The     *)
(* sender publishes messages in batches, the receiver acknowledges them    *)
(* in batches, and what the receiver has acknowledged is exactly what was  *)
(* published, in order, without loss, duplication or corruption.           *)
(*                                                                         *)
(* RingQueue implements this module (see RingQueue!ImplementsChannel).             *)
(***************************************************************************)
EXTENDS Naturals

CONSTANTS
  Capacity   \* how many published messages may await acknowledgement

VARIABLES
  published, \* how many messages the sender has published
  log,       \* log[i], i \in 0 .. published-1: the message published at i
  acked,     \* how many messages the receiver has acknowledged
  delivered  \* delivered[i], i \in 0 .. acked-1: what the receiver got at i

vars == <<published, log, acked, delivered>>

Init ==
  /\ published = 0
  /\ log = [i \in {} |-> i]
  /\ acked = 0
  /\ delivered = [i \in {} |-> i]

\* The sender appends a batch; what is published already stays as it is.
Publish ==
  /\ published' \in published .. acked + Capacity
  /\ DOMAIN log' = 0 .. published' - 1
  /\ \A i \in 0 .. published - 1 : log'[i] = log[i]
  /\ UNCHANGED <<acked, delivered>>

\* The receiver acknowledges the next messages of the log.
Acknowledge ==
  /\ acked' \in acked .. published
  /\ delivered' = [i \in 0 .. acked' - 1 |-> log[i]]
  /\ UNCHANGED <<published, log>>

Next == Publish \/ Acknowledge

Spec == Init /\ [][Next]_vars

(* What the promise amounts to at any time: no more messages await their   *)
(* acknowledgement than there is room for, and what was delivered is what  *)
(* was published in the same place.                                        *)
Faithful ==
  /\ acked <= published /\ published <= acked + Capacity
  /\ \A i \in 0 .. acked - 1 : delivered[i] = log[i]

=============================================================================
