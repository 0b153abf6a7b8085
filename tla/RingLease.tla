------------------------------ MODULE RingLease ------------------------------
(***************************************************************************)
(* What the server and the slots of the shared memory promise to clients:  *)
(* the life of a ring is a sequence of generations, each started from a    *)
(* clean head, in which either side is used by at most one client.         *)
(*                                                                         *)
(* SlotLifecycle implements this module.                                   *)
(***************************************************************************)
EXTENDS Naturals

CONSTANTS
  Ring,     \* the rings of the shared memory
  Client    \* whoever may join one

VARIABLES
  offered,  \* the slots that can be joined
  clients,  \* per slot, the clients that work with it now
  used      \* the slots that were joined in the ring's current generation

vars == <<offered, clients, used>>

Slot == Ring \X {"Left", "Right"}
SlotsOf(r) == {r} \X {"Left", "Right"}

Init ==
  /\ offered \subseteq Slot
  /\ clients = [s \in Slot |-> {}]
  /\ used = {}

\* A client gets a side for itself, in the state a new generation left it.
Join(s, c) ==
  /\ s \in offered /\ clients[s] = {} /\ s \notin used
  /\ offered' = offered \ {s}
  /\ clients' = [clients EXCEPT ![s] = {c}]
  /\ used' = used \cup {s}

\* A client gives up slots: it leaves one, or ends with all it has.
Release(c, S) ==
  /\ clients' = [s \in Slot |-> IF s \in S THEN clients[s] \ {c} ELSE clients[s]]
  /\ UNCHANGED <<offered, used>>

\* The server stops offering a slot ...
Withdraw(s) ==
  /\ s \in offered
  /\ offered' = offered \ {s}
  /\ UNCHANGED <<clients, used>>

\* ... resets a ring that nobody uses or can join ...
Renew(r) ==
  /\ \A s \in SlotsOf(r) : clients[s] = {} /\ s \notin offered
  /\ used' = used \ SlotsOf(r)
  /\ UNCHANGED <<offered, clients>>

\* ... and offers its slots again, one after the other.
Offer(s) ==
  /\ clients[s] = {} /\ s \notin used
  /\ offered' = offered \cup {s}
  /\ UNCHANGED <<clients, used>>

Next ==
  \/ \E s \in Slot, c \in Client : Join(s, c)
  \/ \E c \in Client, S \in SUBSET Slot : Release(c, S)
  \/ \E s \in Slot : Withdraw(s) \/ Offer(s)
  \/ \E r \in Ring : Renew(r)

Spec == Init /\ [][Next]_vars

(* What the promise amounts to at any time: a slot has one client at most, *)
(* whose side was joined in this generation and cannot be joined again;    *)
(* and a slot that can be joined was not yet in this generation.           *)
Exclusive ==
  \A s \in Slot :
    /\ \A c, d \in clients[s] : c = d
    /\ clients[s] # {} => s \in used /\ s \notin offered
    /\ s \in offered => s \notin used

=============================================================================
