------------------------------ MODULE RingQueue ------------------------------
(***************************************************************************)
(* The message queue of one ring: src/src/ring.rs, Producer and Consumer.  *)
(*                                                                         *)
(* Two clients, one on each side, have joined the ring.  Each owns the     *)
(* `producer` counter of its half of the head and the `consumer` counter   *)
(* with which it acknowledges what the other side sent.  Entries of both   *)
(* directions are stored in the one slot array of the ring: Map.ring is    *)
(* the same memory for either side.                                        *)
(*                                                                         *)
(* A client works through a handle, a Producer or a Consumer, that caches  *)
(* both counters in 64 bits while the shared counters have 32.  Handles    *)
(* borrow the client's Ring mutably, so a side has at most one at a time;  *)
(* dropping one forgets whatever was not passed to `sync`.  A step here is *)
(* one access to shared memory: a slot is written or read, a remote        *)
(* counter is loaded, the own counter is stored.                           *)
(*                                                                         *)
(* History variables number messages absolutely, whatever the 32-bit       *)
(* counters do.  A direction is named by its sending side.                 *)
(***************************************************************************)
EXTENDS Integers

CONSTANTS
  Count,      \* entries in the ring: size_ring / size_slot_entry
  Modulus,    \* the shared counters are AtomicU32: 2^32 in the program
  Msg,        \* what a client may send
  NoMsg,      \* content of a slot nobody has written
  Producing,  \* the sides whose client sends at all
  MaxMsgs     \* bound: messages staged per direction

Side == {"Left", "Right"}
Position == 0 .. MaxMsgs - 1

ASSUME RingAssumption ==
  /\ Count \in Nat \ {0}
  /\ Modulus \in Nat \ {0}
  /\ MaxMsgs \in Nat
  /\ Producing \subseteq Side
  /\ NoMsg \notin Msg

VARIABLES
  producer,   \* shared: RingHeadHalf.producer of each side
  consumer,   \* shared: RingHeadHalf.consumer of each side
  ring,       \* shared: the slots
  handle,     \* per side: the Producer or Consumer it holds, if any
  pos,        \* history: absolute position of the handle's own cursor
  sent,       \* history: per direction, the message staged at a position
  published,  \* history: per direction, how many messages were published
  got,        \* history: per direction, what was read from a position
  acked       \* history: per direction, how many were acknowledged

shared == <<producer, consumer, ring>>
history == <<pos, sent, published, got, acked>>
vars == <<shared, handle, history>>

Kind == {"none", "producer", "consumer"}
Handle == [kind : Kind, head : Nat, tail : Nat, syncing : BOOLEAN]
NoHandle == [kind |-> "none", head |-> 0, tail |-> 0, syncing |-> FALSE]

TypeOK ==
  /\ producer \in [Side -> 0 .. Modulus - 1]
  /\ consumer \in [Side -> 0 .. Modulus - 1]
  /\ ring \in [0 .. Count - 1 -> Msg \cup {NoMsg}]
  /\ handle \in [Side -> Handle]
  /\ pos \in [Side -> Nat]
  /\ sent \in [Side -> [Position -> Msg \cup {NoMsg}]]
  /\ published \in [Side -> Nat]
  /\ got \in [Side -> [Position -> Msg \cup {NoMsg}]]
  /\ acked \in [Side -> Nat]

-----------------------------------------------------------------------------
(* ops::Not for ClientSide *)
Other(s) == IF s = "Left" THEN "Right" ELSE "Left"

(* `n & offset_mask`: the entry count is a power of two *)
SlotOfBadMask(n) == (n % Count) - (n % 2)  \* mutant: masks with count - 2
SlotOf(n) == n % Count

(* `n as u32` *)
AsU32(n) == n % Modulus

(* After reinit_holding_as_server, or in a mapping that is still zeroed. *)
Init ==
  /\ producer = [s \in Side |-> 0]
  /\ consumer = [s \in Side |-> 0]
  /\ ring = [i \in 0 .. Count - 1 |-> NoMsg]
  /\ handle = [s \in Side |-> NoHandle]
  /\ pos = [s \in Side |-> 0]
  /\ sent = [s \in Side |-> [i \in Position |-> NoMsg]]
  /\ published = [s \in Side |-> 0]
  /\ got = [s \in Side |-> [i \in Position |-> NoMsg]]
  /\ acked = [s \in Side |-> 0]

-----------------------------------------------------------------------------
Holds(s, kind) == handle[s].kind = kind /\ ~handle[s].syncing

(* Where a producer has to stop: the remote's tail, moved on by the size.   *)
StopAtOffByOne(s) == consumer[Other(s)] + Count + 1  \* mutant
StopAt(s) == consumer[Other(s)] + Count

(* What the two `sync` store in the own counter. *)
PublishLimit(s) == handle[s].tail                    \* mutant: cached_tail
ToPublish(s) == AsU32(handle[s].head)
AcknowledgeSeen(s) == AsU32(handle[s].head)          \* mutant: cached_head
ToAcknowledge(s) == AsU32(handle[s].tail)

(* Producer::new caches the own head and how far it may go. *)
NewProducer(s) ==
  /\ Holds(s, "none")
  /\ handle' = [handle EXCEPT ![s] =
       [kind |-> "producer", head |-> producer[s],
        tail |-> StopAt(s), syncing |-> FALSE]]
  /\ pos' = [pos EXCEPT ![s] = published[s]]
  /\ UNCHANGED <<shared, sent, published, got, acked>>

(* One round of the loop in push_many, for a message of the iterator. *)
PushOne(s, m) ==
  /\ Holds(s, "producer")
  /\ s \in Producing /\ pos[s] < MaxMsgs
  /\ handle[s].head < handle[s].tail
  /\ ring' = [ring EXCEPT ![SlotOf(handle[s].head)] = m]
  /\ handle' = [handle EXCEPT ![s].head = @ + 1]
  /\ sent' = [sent EXCEPT ![s][pos[s]] = m]
  /\ pos' = [pos EXCEPT ![s] = @ + 1]
  /\ UNCHANGED <<producer, consumer, published, got, acked>>

(* Producer::sync first looks how far the remote has read ... *)
ProducerSyncLoad(s) ==
  /\ Holds(s, "producer")
  /\ handle' = [handle EXCEPT ![s].tail = StopAt(s),
                              ![s].syncing = TRUE]
  /\ UNCHANGED <<shared, history>>

(* ... and then publishes everything it has pushed. *)
ProducerSyncStore(s) ==
  /\ handle[s].kind = "producer" /\ handle[s].syncing
  /\ producer' = [producer EXCEPT ![s] = ToPublish(s)]
  /\ handle' = [handle EXCEPT ![s].syncing = FALSE]
  /\ published' = [published EXCEPT ![s] = pos[s]]
  /\ UNCHANGED <<consumer, ring, pos, sent, got, acked>>

(* Consumer::new caches the remote's head and the own tail. *)
NewConsumer(s) ==
  /\ Holds(s, "none")
  /\ handle' = [handle EXCEPT ![s] =
       [kind |-> "consumer", head |-> producer[Other(s)],
        tail |-> consumer[s], syncing |-> FALSE]]
  /\ pos' = [pos EXCEPT ![s] = acked[Other(s)]]
  /\ UNCHANGED <<shared, sent, published, got, acked>>

(* One element of Consumer::iter, over cached_tail .. cached_head. *)
TakeOne(s) ==
  /\ Holds(s, "consumer")
  /\ handle[s].tail < handle[s].head
  /\ handle' = [handle EXCEPT ![s].tail = @ + 1]
  /\ got' = [got EXCEPT ![Other(s)][pos[s]] = ring[SlotOf(handle[s].tail)]]
  /\ pos' = [pos EXCEPT ![s] = @ + 1]
  /\ UNCHANGED <<shared, sent, published, acked>>

(* Consumer::sync first looks for more messages ... *)
ConsumerSyncLoad(s) ==
  /\ Holds(s, "consumer")
  /\ handle' = [handle EXCEPT ![s].head = producer[Other(s)],
                              ![s].syncing = TRUE]
  /\ UNCHANGED <<shared, history>>

(* ... and then gives the slots it has read back to the remote. *)
ConsumerSyncStore(s) ==
  /\ handle[s].kind = "consumer" /\ handle[s].syncing
  /\ consumer' = [consumer EXCEPT ![s] = ToAcknowledge(s)]
  /\ handle' = [handle EXCEPT ![s].syncing = FALSE]
  /\ acked' = [acked EXCEPT ![Other(s)] = pos[s]]
  /\ UNCHANGED <<producer, ring, pos, sent, published, got>>

(* A handle goes out of scope: what was not synced is forgotten. *)
DropHandle(s) ==
  /\ Holds(s, "producer") \/ Holds(s, "consumer")
  /\ handle' = [handle EXCEPT ![s] = NoHandle]
  /\ UNCHANGED <<shared, history>>

Next ==
  \E s \in Side :
    \/ NewProducer(s)
    \/ \E m \in Msg : PushOne(s, m)
    \/ ProducerSyncLoad(s)
    \/ ProducerSyncStore(s)
    \/ NewConsumer(s)
    \/ TakeOne(s)
    \/ ConsumerSyncLoad(s)
    \/ ConsumerSyncStore(s)
    \/ DropHandle(s)

Spec == Init /\ [][Next]_vars

-----------------------------------------------------------------------------
(* Positions of direction d that are published and not yet acknowledged. *)
Unread(d) == acked[d] .. published[d] - 1

(* No entry is overwritten before the remote has acknowledged it: the slot *)
(* of an unread position still holds the message that was published there  *)
(* (ring.rs, push_many: "mark where we need to stop to avoid overwriting   *)
(* any entries not yet read").                                             *)
UnreadIntact ==
  \A d \in Side : \A p \in Unread(d) : ring[SlotOf(p)] = sent[d][p]

(* The slots a handle may touch in its next step. *)
Writable(s) ==
  IF Holds(s, "producer") /\ s \in Producing /\ handle[s].head < handle[s].tail
  THEN {SlotOf(handle[s].head)} ELSE {}
Readable(s) ==
  IF Holds(s, "consumer") /\ handle[s].tail < handle[s].head
  THEN {SlotOf(handle[s].tail)} ELSE {}

(* Slots are plain memory (ptr::write, ptr::read): the two clients are     *)
(* never about to access the same slot when one of the accesses is a write.*)
NoDataRace ==
  \A s \in Side : Writable(s) \cap (Writable(Other(s)) \cup Readable(Other(s))) = {}

(* What a consumer has read so far, acknowledged or not, is what was       *)
(* published at those positions: first in, first out, nothing skipped and  *)
(* nothing invented.                                                       *)
ReadInOrder ==
  \A d \in Side :
    LET reader == Other(d)
        upto == IF handle[reader].kind = "consumer" THEN pos[reader] ELSE acked[d]
    IN  /\ upto <= published[d]
        /\ \A p \in 0 .. upto - 1 : got[d][p] = sent[d][p]

(* The refinement: a direction as a bounded first-in first-out channel.    *)
LeftChannel == INSTANCE BoundedChannel WITH
  Capacity <- Count,
  published <- published["Left"],
  log <- [i \in 0 .. published["Left"] - 1 |-> sent["Left"][i]],
  acked <- acked["Left"],
  delivered <- [i \in 0 .. acked["Left"] - 1 |-> got["Left"][i]]

(* What the left client sends goes through a channel: publishing only ever *)
(* appends, never exceeds the ring, and acknowledging delivers in order.   *)
ImplementsChannel == LeftChannel!Spec

-----------------------------------------------------------------------------
(* The conditions under which the queue keeps these promises: one client   *)
(* sends and the other only acknowledges, and fewer messages are sent than *)
(* the 32-bit counters can number.                                         *)
OneWay == \A s, t \in Producing : s = t
NoWrap == MaxMsgs < Modulus

=============================================================================
