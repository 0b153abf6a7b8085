--------------------------- MODULE RingQueueProofs ---------------------------
(***************************************************************************)
(* Proofs about RingQueue, for every ring size, counter width, message set *)
(* and bound.  Under OneWay and NoWrap no unread entry is overwritten, the *)
(* clients do not race on a slot, what is read is what was sent, and the   *)
(* sending direction implements BoundedChannel.                            *)
(***************************************************************************)
EXTENDS RingQueue, TLAPS

(* The end of what side d has staged, and of what its reader has read. *)
Staged(d) == IF handle[d].kind = "producer" THEN pos[d] ELSE published[d]
ReadUpTo(d) == IF handle[Other(d)].kind = "consumer" THEN pos[Other(d)] ELSE acked[d]

(* The shared counters are the absolute positions: nothing has wrapped. *)
CountersExact ==
  \A d \in Side : producer[d] = published[d] /\ consumer[Other(d)] = acked[d]

(* acked <= read <= published <= staged <= acked + Count. *)
CursorsOrdered ==
  \A d \in Side :
    /\ acked[d] <= ReadUpTo(d)
    /\ ReadUpTo(d) <= published[d]
    /\ published[d] <= Staged(d)
    /\ Staged(d) <= acked[d] + Count
    /\ Staged(d) <= MaxMsgs

(* What a handle caches: its own cursor exactly, the remote's from below. *)
CachesSound ==
  \A s \in Side :
    /\ handle[s].kind = "producer" =>
         handle[s].head = pos[s] /\ handle[s].tail <= acked[s] + Count
    /\ handle[s].kind = "consumer" =>
         handle[s].tail = pos[s] /\ handle[s].head <= published[Other(s)]

(* A side that does not send has staged nothing. *)
SilentEmpty == \A s \in Side \ Producing : Staged(s) = 0

(* Slots from the first unacknowledged to the last staged position. *)
SlotsHold ==
  \A d \in Side : \A p \in acked[d] .. Staged(d) - 1 : ring[SlotOf(p)] = sent[d][p]

ReadsMatch ==
  \A d \in Side : \A p \in 0 .. ReadUpTo(d) - 1 : got[d][p] = sent[d][p]

(* The inductive invariant. *)
IInv ==
  /\ TypeOK
  /\ CountersExact
  /\ CursorsOrdered
  /\ CachesSound
  /\ SilentEmpty
  /\ SlotsHold
  /\ ReadsMatch

-----------------------------------------------------------------------------
(* Fewer than Count positions apart, two positions have different slots.   *)
LEMMA SlotsDiffer ==
  ASSUME NEW p \in Nat, NEW q \in Nat, p < q, q - p < Count
  PROVE  SlotOf(p) # SlotOf(q)
<1>0. Count \in Nat \ {0}
  BY RingAssumption
<1> DEFINE a == p \div Count
           b == q \div Count
<1>1. /\ a \in Nat /\ b \in Nat
      /\ p = Count * a + (p % Count)
      /\ q = Count * b + (q % Count)
  BY <1>0
<1> HIDE DEF a, b
<1>2. SUFFICES ASSUME p % Count = q % Count PROVE FALSE
  BY DEF SlotOf
<1>3. q - p = Count * (b - a)
  BY <1>0, <1>1, <1>2
<1>4. CASE b - a <= 0
  <2>1. Count * (b - a) <= 0
    BY <1>0, <1>1, <1>4
  <2> QED BY <1>3, <2>1
<1>5. CASE b - a >= 1
  <2>1. Count * (b - a) >= Count
    BY <1>0, <1>1, <1>5
  <2> QED BY <1>0, <1>3, <2>1
<1> QED BY <1>1, <1>4, <1>5

LEMMA SlotOfType ==
  ASSUME NEW p \in Nat
  PROVE  SlotOf(p) \in 0 .. Count - 1
BY RingAssumption DEF SlotOf

LEMMA AsU32Type ==
  ASSUME NEW n \in Nat
  PROVE  AsU32(n) \in 0 .. Modulus - 1
BY RingAssumption DEF AsU32

LEMMA SmallAsU32 ==
  ASSUME NEW n \in Nat, n < Modulus
  PROVE  AsU32(n) = n
BY RingAssumption DEF AsU32

LEMMA OtherType ==
  ASSUME NEW s \in Side
  PROVE  Other(s) \in Side /\ Other(s) # s /\ Other(Other(s)) = s
BY DEF Other, Side

(* A handle whose cursor has moved is a handle.                            *)
LEMMA HandleSteps ==
  ASSUME NEW h \in Handle
  PROVE  /\ [h EXCEPT !.head = @ + 1] \in Handle
         /\ [h EXCEPT !.tail = @ + 1] \in Handle
<1>1. h = [kind |-> h.kind, head |-> h.head, tail |-> h.tail, syncing |-> h.syncing]
  BY DEF Handle
<1>2. h.kind \in Kind /\ h.head \in Nat /\ h.tail \in Nat /\ h.syncing \in BOOLEAN
  BY DEF Handle
<1>3. [h EXCEPT !.head = @ + 1]
        = [kind |-> h.kind, head |-> h.head + 1, tail |-> h.tail, syncing |-> h.syncing]
  BY <1>1
<1>4. [h EXCEPT !.tail = @ + 1]
        = [kind |-> h.kind, head |-> h.head, tail |-> h.tail + 1, syncing |-> h.syncing]
  BY <1>1
<1> QED BY <1>2, <1>3, <1>4 DEF Handle

(* Cursors are numbers, in their order.                                    *)
LEMMA Cursors ==
  ASSUME TypeOK, CursorsOrdered, NEW d \in Side
  PROVE  /\ acked[d] \in Nat /\ published[d] \in Nat /\ pos[d] \in Nat
         /\ Staged(d) \in Nat /\ ReadUpTo(d) \in Nat
         /\ acked[d] <= ReadUpTo(d) /\ ReadUpTo(d) <= published[d]
         /\ published[d] <= Staged(d)
         /\ Staged(d) <= acked[d] + Count /\ Staged(d) <= MaxMsgs
<1>1. acked[d] \in Nat /\ published[d] \in Nat /\ pos[d] \in Nat /\ pos[Other(d)] \in Nat
  BY OtherType DEF TypeOK
<1>2. Staged(d) \in Nat /\ ReadUpTo(d) \in Nat
  BY <1>1 DEF Staged, ReadUpTo
<1> QED BY <1>1, <1>2 DEF CursorsOrdered

LEMMA InPosition ==
  ASSUME TypeOK, CursorsOrdered, NEW d \in Side, NEW p \in 0 .. Staged(d) - 1
  PROVE  p \in Position
BY Cursors, RingAssumption DEF Position

(* A history of messages only changes where it is written.                 *)
LEMMA Elsewhere ==
  ASSUME NEW f \in [Side -> [Position -> Msg \cup {NoMsg}]],
         NEW e \in Side, NEW k, NEW v, NEW d \in Side, NEW i \in Position,
         ~(d = e /\ i = k)
  PROVE  [f EXCEPT ![e][k] = v][d][i] = f[d][i]
<1>1. CASE d # e BY <1>1
<1>2. CASE d = e BY <1>2
<1> QED BY <1>1, <1>2

(* A handle's fields.                                                      *)
LEMMA HandleFields ==
  ASSUME TypeOK, NEW t \in Side
  PROVE  /\ handle[t] \in Handle /\ handle[t].kind \in Kind
         /\ handle[t].head \in Nat /\ handle[t].tail \in Nat
BY DEF TypeOK, Handle

LEMMA TypeStep ==
  ASSUME TypeOK, [Next]_vars
  PROVE  TypeOK'
<1> USE DEF TypeOK
<1>1. CASE UNCHANGED vars
  BY <1>1 DEF vars, shared, history
<1>2. ASSUME NEW s \in Side, NewProducer(s) PROVE TypeOK'
  <2>1. consumer[Other(s)] + Count \in Nat
    BY OtherType, RingAssumption
  <2>2. handle' \in [Side -> Handle]
    BY <1>2, <2>1 DEF NewProducer, StopAt, Handle, Kind
  <2> QED BY <1>2, <2>2 DEF NewProducer, shared
<1>3. ASSUME NEW s \in Side, NEW m \in Msg, PushOne(s, m) PROVE TypeOK'
  <2>1. handle' \in [Side -> Handle]
    <3>1. [handle[s] EXCEPT !.head = @ + 1] \in Handle
      BY HandleSteps
    <3> QED BY <1>3, <3>1 DEF PushOne
  <2>2. ring' \in [0 .. Count - 1 -> Msg \cup {NoMsg}]
    BY <1>3 DEF PushOne
  <2>3. sent' \in [Side -> [Position -> Msg \cup {NoMsg}]]
    BY <1>3 DEF PushOne
  <2> QED BY <1>3, <2>1, <2>2, <2>3 DEF PushOne
<1>4. ASSUME NEW s \in Side, ProducerSyncLoad(s) PROVE TypeOK'
  <2>1. consumer[Other(s)] + Count \in Nat
    BY OtherType, RingAssumption
  <2>2. handle' \in [Side -> Handle]
    <3> DEFINE h == [handle[s] EXCEPT !.tail = StopAt(s), !.syncing = TRUE]
    <3>1. handle[s] \in Handle /\ StopAt(s) \in Nat
      BY <2>1 DEF StopAt
    <3>2. h \in Handle
      BY <3>1 DEF Handle
    <3>3. handle' = [handle EXCEPT ![s] = h]
      BY <1>4 DEF ProducerSyncLoad
    <3> HIDE DEF h
    <3> QED BY <3>2, <3>3
  <2> QED BY <1>4, <2>2 DEF ProducerSyncLoad, shared, history
<1>5. ASSUME NEW s \in Side, ProducerSyncStore(s) PROVE TypeOK'
  <2>1. handle' \in [Side -> Handle]
    BY <1>5 DEF ProducerSyncStore, ToPublish, Handle, Kind
  <2>2. AsU32(handle[s].head) \in 0 .. Modulus - 1
    BY AsU32Type DEF Handle
  <2> QED BY <1>5, <2>1, <2>2 DEF ProducerSyncStore, ToPublish
<1>6. ASSUME NEW s \in Side, NewConsumer(s) PROVE TypeOK'
  <2>1. Other(s) \in Side
    BY OtherType
  <2>2. handle' \in [Side -> Handle]
    BY <1>6, <2>1 DEF NewConsumer, Handle, Kind
  <2> QED BY <1>6, <2>1, <2>2 DEF NewConsumer, shared
<1>7. ASSUME NEW s \in Side, TakeOne(s) PROVE TypeOK'
  <2>1. handle' \in [Side -> Handle]
    <3>1. [handle[s] EXCEPT !.tail = @ + 1] \in Handle
      BY HandleSteps
    <3> QED BY <1>7, <3>1 DEF TakeOne
  <2>2. ring[SlotOf(handle[s].tail)] \in Msg \cup {NoMsg}
    BY SlotOfType DEF Handle
  <2>3. got' \in [Side -> [Position -> Msg \cup {NoMsg}]]
    <3> DEFINE v == ring[SlotOf(handle[s].tail)]
    <3>1. got' = [got EXCEPT ![Other(s)][pos[s]] = v] /\ v \in Msg \cup {NoMsg}
      BY <1>7, <2>2 DEF TakeOne
    <3> HIDE DEF v
    <3> QED BY <3>1
  <2>4. pos' \in [Side -> Nat]
    BY <1>7 DEF TakeOne
  <2> QED BY <1>7, <2>1, <2>3, <2>4 DEF TakeOne, shared
<1>8. ASSUME NEW s \in Side, ConsumerSyncLoad(s) PROVE TypeOK'
  <2>1. producer[Other(s)] \in Nat
    BY OtherType, RingAssumption
  <2>2. handle' \in [Side -> Handle]
    <3> DEFINE h == [handle[s] EXCEPT !.head = producer[Other(s)], !.syncing = TRUE]
    <3>1. h \in Handle
      BY <2>1 DEF Handle
    <3>2. handle' = [handle EXCEPT ![s] = h]
      BY <1>8 DEF ConsumerSyncLoad
    <3> HIDE DEF h
    <3> QED BY <3>1, <3>2
  <2> QED BY <1>8, <2>2 DEF ConsumerSyncLoad, shared, history
<1>9. ASSUME NEW s \in Side, ConsumerSyncStore(s) PROVE TypeOK'
  <2>1. handle' \in [Side -> Handle]
    BY <1>9 DEF ConsumerSyncStore, ToAcknowledge, Handle, Kind
  <2>2. AsU32(handle[s].tail) \in 0 .. Modulus - 1
    BY AsU32Type DEF Handle
  <2> QED BY <1>9, <2>1, <2>2, OtherType DEF ConsumerSyncStore, ToAcknowledge
<1>10. ASSUME NEW s \in Side, DropHandle(s) PROVE TypeOK'
  BY <1>10 DEF DropHandle, NoHandle, shared, history, Handle, Kind
<1> QED
  BY <1>1, <1>2, <1>3, <1>4, <1>5, <1>6, <1>7, <1>8, <1>9, <1>10 DEF Next

(* The shared counters, the slots, the handles and the histories keep their *)
(* types, whatever the constants.                                           *)
THEOREM TypeCorrect == Spec => []TypeOK
<1>1. Init => TypeOK
  BY RingAssumption DEF Init, TypeOK, Handle, Kind, NoHandle
<1> QED BY <1>1, TypeStep, PTL DEF Spec

-----------------------------------------------------------------------------
(* A step that moves no cursor and writes nothing keeps the invariant,     *)
(* provided what the handles cache stays sound.                            *)
LEMMA Unmoved ==
  ASSUME IInv, TypeOK', CachesSound',
         UNCHANGED <<shared, sent, published, got, acked>>,
         \A d \in Side : Staged(d)' = Staged(d) /\ ReadUpTo(d)' = ReadUpTo(d)
  PROVE  IInv'
<1> USE DEF IInv, shared
<1>1. CountersExact' BY DEF CountersExact
<1>2. CursorsOrdered' BY DEF CursorsOrdered
<1>3. SilentEmpty' BY DEF SilentEmpty
<1>4. SlotsHold'
  <2> SUFFICES ASSUME NEW d \in Side, NEW p \in acked[d] .. Staged(d) - 1
               PROVE  ring[SlotOf(p)] = sent[d][p]
    BY DEF SlotsHold, SlotOf
  <2> QED BY DEF SlotsHold
<1>5. ReadsMatch' BY DEF ReadsMatch
<1> QED BY <1>1, <1>2, <1>3, <1>4, <1>5

LEMMA InvInit == Init => IInv
<1> SUFFICES ASSUME Init PROVE IInv
  OBVIOUS
<1> USE RingAssumption DEF Init
<1>1. TypeOK
  BY DEF TypeOK, Handle, Kind, NoHandle
<1>2. \A d \in Side : Staged(d) = 0 /\ ReadUpTo(d) = 0
  BY OtherType DEF Staged, ReadUpTo, NoHandle
<1>3. CountersExact BY OtherType DEF CountersExact
<1>4. CursorsOrdered BY <1>2 DEF CursorsOrdered
<1>5. CachesSound BY DEF CachesSound, NoHandle
<1>6. SilentEmpty BY <1>2 DEF SilentEmpty
<1>7. SlotsHold BY <1>2 DEF SlotsHold
<1>8. ReadsMatch BY <1>2 DEF ReadsMatch
<1> QED BY <1>1, <1>3, <1>4, <1>5, <1>6, <1>7, <1>8 DEF IInv

LEMMA InvNewProducer ==
  ASSUME IInv, TypeOK', NEW s \in Side, NewProducer(s)
  PROVE  IInv'
<1> USE DEF NewProducer, StopAt, Holds
<1>1. \A d \in Side : Staged(d)' = Staged(d) /\ ReadUpTo(d)' = ReadUpTo(d)
  BY OtherType DEF IInv, TypeOK, Staged, ReadUpTo
<1>2. CachesSound'
  <2> SUFFICES ASSUME NEW t \in Side
               PROVE  /\ (handle[t].kind = "producer" =>
                            handle[t].head = pos[t] /\ handle[t].tail <= acked[t] + Count)'
                      /\ (handle[t].kind = "consumer" =>
                            handle[t].tail = pos[t] /\ handle[t].head <= published[Other(t)])'
    BY DEF CachesSound
  <2>1. CASE t = s
    <3>1. handle'[s].kind = "producer" /\ handle'[s].head = producer[s]
          /\ handle'[s].tail = consumer[Other(s)] + Count
          /\ pos'[s] = published[s] /\ acked'[s] = acked[s]
      BY DEF IInv, TypeOK
    <3>2. producer[s] = published[s] /\ consumer[Other(s)] = acked[s]
      BY OtherType DEF IInv, CountersExact
    <3>3. acked[s] + Count <= acked[s] + Count
      BY RingAssumption DEF IInv, TypeOK
    <3> QED BY <2>1, <3>1, <3>2, <3>3
  <2>2. CASE t # s
    BY <2>2 DEF IInv, TypeOK, CachesSound, Other
  <2> QED BY <2>1, <2>2
<1> QED BY <1>1, <1>2, Unmoved

LEMMA InvProducerSyncLoad ==
  ASSUME IInv, TypeOK', NEW s \in Side, ProducerSyncLoad(s)
  PROVE  IInv'
<1> USE DEF ProducerSyncLoad, StopAt, Holds, shared, history
<1>1. \A d \in Side : Staged(d)' = Staged(d) /\ ReadUpTo(d)' = ReadUpTo(d)
  <2>1. \A t \in Side : handle'[t].kind = handle[t].kind /\ pos'[t] = pos[t]
    BY DEF IInv, TypeOK, Handle
  <2> QED BY <2>1, OtherType DEF Staged, ReadUpTo
<1>2. CachesSound'
  <2> SUFFICES ASSUME NEW t \in Side
               PROVE  /\ (handle[t].kind = "producer" =>
                            handle[t].head = pos[t] /\ handle[t].tail <= acked[t] + Count)'
                      /\ (handle[t].kind = "consumer" =>
                            handle[t].tail = pos[t] /\ handle[t].head <= published[Other(t)])'
    BY DEF CachesSound
  <2>1. CASE t = s
    <3>1. /\ handle'[s].kind = "producer" /\ handle'[s].head = handle[s].head
          /\ handle'[s].tail = consumer[Other(s)] + Count
          /\ pos'[s] = pos[s] /\ acked'[s] = acked[s]
      BY HandleFields DEF IInv, TypeOK, Handle
    <3>2. handle[s].head = pos[s] /\ consumer[Other(s)] = acked[s]
      BY OtherType DEF IInv, CountersExact, CachesSound
    <3>3. acked[s] + Count <= acked[s] + Count
      BY RingAssumption DEF IInv, TypeOK
    <3> QED BY <2>1, <3>1, <3>2, <3>3
  <2>2. CASE t # s
    BY <2>2 DEF IInv, TypeOK, CachesSound, Other
  <2> QED BY <2>1, <2>2
<1> QED BY <1>1, <1>2, Unmoved DEF shared, history

LEMMA InvNewConsumer ==
  ASSUME IInv, TypeOK', NEW s \in Side, NewConsumer(s)
  PROVE  IInv'
<1> USE DEF NewConsumer, Holds
<1>1. \A d \in Side : Staged(d)' = Staged(d) /\ ReadUpTo(d)' = ReadUpTo(d)
  BY OtherType DEF IInv, TypeOK, Handle, Staged, ReadUpTo
<1>2. CachesSound'
  <2> SUFFICES ASSUME NEW t \in Side
               PROVE  /\ (handle[t].kind = "producer" =>
                            handle[t].head = pos[t] /\ handle[t].tail <= acked[t] + Count)'
                      /\ (handle[t].kind = "consumer" =>
                            handle[t].tail = pos[t] /\ handle[t].head <= published[Other(t)])'
    BY DEF CachesSound
  <2>1. CASE t = s
    <3>1. /\ handle'[s].kind = "consumer" /\ handle'[s].head = producer[Other(s)]
          /\ handle'[s].tail = consumer[s] /\ pos'[s] = acked[Other(s)]
          /\ published'[Other(s)] = published[Other(s)]
      BY DEF IInv, TypeOK
    <3>2. producer[Other(s)] = published[Other(s)] /\ consumer[s] = acked[Other(s)]
      BY OtherType DEF IInv, CountersExact
    <3>3. published[Other(s)] <= published[Other(s)]
      BY OtherType DEF IInv, TypeOK
    <3> QED BY <2>1, <3>1, <3>2, <3>3
  <2>2. CASE t # s
    BY <2>2 DEF IInv, TypeOK, CachesSound, Other
  <2> QED BY <2>1, <2>2
<1> QED BY <1>1, <1>2, Unmoved DEF shared, history

LEMMA InvConsumerSyncLoad ==
  ASSUME IInv, TypeOK', NEW s \in Side, ConsumerSyncLoad(s)
  PROVE  IInv'
<1> USE DEF ConsumerSyncLoad, Holds, shared, history
<1>1. \A d \in Side : Staged(d)' = Staged(d) /\ ReadUpTo(d)' = ReadUpTo(d)
  <2>1. \A t \in Side : handle'[t].kind = handle[t].kind /\ pos'[t] = pos[t]
    BY DEF IInv, TypeOK, Handle
  <2> QED BY <2>1, OtherType DEF Staged, ReadUpTo
<1>2. CachesSound'
  <2> SUFFICES ASSUME NEW t \in Side
               PROVE  /\ (handle[t].kind = "producer" =>
                            handle[t].head = pos[t] /\ handle[t].tail <= acked[t] + Count)'
                      /\ (handle[t].kind = "consumer" =>
                            handle[t].tail = pos[t] /\ handle[t].head <= published[Other(t)])'
    BY DEF CachesSound
  <2>1. CASE t = s
    <3>1. /\ handle'[s].kind = "consumer" /\ handle'[s].head = producer[Other(s)]
          /\ handle'[s].tail = handle[s].tail /\ pos'[s] = pos[s]
          /\ published'[Other(s)] = published[Other(s)]
      BY HandleFields DEF IInv, TypeOK, Handle
    <3>2. handle[s].tail = pos[s] /\ producer[Other(s)] = published[Other(s)]
      BY OtherType DEF IInv, CountersExact, CachesSound
    <3>3. published[Other(s)] <= published[Other(s)]
      BY OtherType DEF IInv, TypeOK
    <3> QED BY <2>1, <3>1, <3>2, <3>3
  <2>2. CASE t # s
    BY <2>2 DEF IInv, TypeOK, CachesSound, Other
  <2> QED BY <2>1, <2>2
<1> QED BY <1>1, <1>2, Unmoved DEF shared, history

(* The only write to a slot: OneWay keeps the other direction out of the   *)
(* way, and the slot is not one of an unacknowledged position.             *)
LEMMA InvPushOne ==
  ASSUME OneWay, IInv, TypeOK', NEW s \in Side, NEW m \in Msg, PushOne(s, m)
  PROVE  IInv'
<1> USE DEF PushOne, Holds
<1>0. /\ TypeOK /\ CountersExact /\ CursorsOrdered /\ CachesSound
      /\ SilentEmpty /\ SlotsHold /\ ReadsMatch
  BY DEF IInv
<1>1. /\ Staged(s) = pos[s] /\ Staged(s)' = pos[s] + 1
      /\ handle[s].head = pos[s] /\ pos[s] < acked[s] + Count
  <2>1. /\ handle[s].kind = "producer" /\ handle[s].head < handle[s].tail
        /\ handle[s].head = pos[s] /\ handle[s].tail <= acked[s] + Count
    BY <1>0 DEF CachesSound
  <2>2. handle'[s].kind = "producer" /\ pos'[s] = pos[s] + 1
    BY <1>0, <2>1, HandleFields DEF TypeOK, Handle
  <2> QED
    BY <1>0, <2>1, <2>2, HandleFields, Cursors, RingAssumption DEF Staged
<1>2. \A d \in Side : d # s => Staged(d)' = Staged(d) /\ Staged(d) = 0
  BY <1>0 DEF TypeOK, Staged, SilentEmpty, OneWay
<1>3. \A d \in Side : ReadUpTo(d)' = ReadUpTo(d)
  <2>1. \A t \in Side : /\ handle'[t].kind = handle[t].kind
                        /\ t # s => pos'[t] = pos[t]
    BY <1>0 DEF TypeOK, Handle
  <2> QED BY <2>1, OtherType DEF ReadUpTo
<1>4. CountersExact'
  BY <1>0 DEF CountersExact
<1>5. CursorsOrdered'
  <2> SUFFICES ASSUME NEW d \in Side
               PROVE  /\ (acked[d] <= ReadUpTo(d))'
                      /\ (ReadUpTo(d) <= published[d])'
                      /\ (published[d] <= Staged(d))'
                      /\ (Staged(d) <= acked[d] + Count)'
                      /\ (Staged(d) <= MaxMsgs)'
    BY DEF CursorsOrdered
  <2>1. CASE d = s
    <3>1. /\ acked'[s] = acked[s] /\ published'[s] = published[s]
          /\ ReadUpTo(s)' = ReadUpTo(s) /\ pos[s] < MaxMsgs
      BY <1>3
    <3> QED BY <1>0, <1>1, <2>1, <3>1, Cursors, RingAssumption
  <2>2. CASE d # s
    BY <1>0, <1>2, <1>3, <2>2 DEF CursorsOrdered
  <2> QED BY <2>1, <2>2
<1>6. CachesSound'
  <2> SUFFICES ASSUME NEW t \in Side
               PROVE  /\ (handle[t].kind = "producer" =>
                            handle[t].head = pos[t] /\ handle[t].tail <= acked[t] + Count)'
                      /\ (handle[t].kind = "consumer" =>
                            handle[t].tail = pos[t] /\ handle[t].head <= published[Other(t)])'
    BY DEF CachesSound
  <2>1. CASE t = s
    BY <1>0, <2>1 DEF TypeOK, Handle, CachesSound
  <2>2. CASE t # s
    BY <1>0, <2>2 DEF TypeOK, CachesSound
  <2> QED BY <2>1, <2>2
<1>7. SilentEmpty'
  BY <1>0, <1>2 DEF SilentEmpty
<1>8. SlotsHold'
  <2> SUFFICES ASSUME NEW d \in Side, NEW p \in acked[d] .. Staged(d)' - 1
               PROVE  ring'[SlotOf(p)] = sent'[d][p]
    BY DEF SlotsHold, SlotOf
  <2>1. d = s /\ acked[d] \in Nat /\ pos[d] \in Nat
    BY <1>0, <1>2 DEF TypeOK
  <2>2. SlotOf(p) \in 0 .. Count - 1 /\ SlotOf(pos[s]) \in 0 .. Count - 1
    BY <2>1, SlotOfType
  <2>3. CASE p = pos[s]
    BY <1>0, <1>1, <2>1, <2>2, <2>3 DEF TypeOK, Position
  <2>4. CASE p # pos[s]
    <3>1. p \in acked[s] .. Staged(s) - 1 /\ p < pos[s] /\ pos[s] - p < Count
      <4>1. /\ p \in acked[s] .. pos[s] /\ acked[s] \in Nat /\ pos[s] \in Nat
            /\ Staged(s) = pos[s] /\ pos[s] < acked[s] + Count
        BY <1>1, <2>1
      <4> QED BY <2>4, <4>1, RingAssumption
    <3>2. SlotOf(p) # SlotOf(pos[s])
      BY <2>1, <3>1, SlotsDiffer
    <3>3. ring'[SlotOf(p)] = ring[SlotOf(p)]
      BY <1>0, <1>1, <2>2, <3>2 DEF TypeOK
    <3>4. sent'[s][p] = sent[s][p]
      <4>1. p \in 0 .. Staged(s) - 1
        BY <2>1, <3>1
      <4>2. p \in Position
        BY <1>0, <4>1, InPosition
      <4> QED BY <1>0, <2>4, <4>2, Elsewhere DEF TypeOK
    <3> QED BY <1>0, <2>1, <3>1, <3>3, <3>4 DEF SlotsHold
  <2> QED BY <2>3, <2>4
<1>9. ReadsMatch'
  <2> SUFFICES ASSUME NEW d \in Side, NEW p \in 0 .. ReadUpTo(d) - 1
               PROVE  got[d][p] = sent'[d][p]
    BY <1>3 DEF ReadsMatch
  <2>1. ~(d = s /\ p = pos[s])
    BY <1>0, <1>1, Cursors
  <2>2. sent'[d][p] = sent[d][p]
    <3>1. p \in Position
      BY <1>0, Cursors, InPosition
    <3> QED BY <1>0, <2>1, <3>1, Elsewhere DEF TypeOK
  <2> QED BY <1>0, <2>2 DEF ReadsMatch
<1> QED BY <1>4, <1>5, <1>6, <1>7, <1>8, <1>9 DEF IInv

(* What is staged becomes published; the counter stays exact by NoWrap.    *)
LEMMA InvProducerSyncStore ==
  ASSUME NoWrap, IInv, TypeOK', NEW s \in Side, ProducerSyncStore(s)
  PROVE  IInv'
<1>0. /\ TypeOK /\ CountersExact /\ CursorsOrdered /\ CachesSound
      /\ SilentEmpty /\ SlotsHold /\ ReadsMatch
  BY DEF IInv
<1>1. \A t \in Side : /\ handle'[t].kind = handle[t].kind
                      /\ handle'[t].head = handle[t].head
                      /\ handle'[t].tail = handle[t].tail
  <2>1. handle' = [handle EXCEPT ![s].syncing = FALSE]
    BY DEF ProducerSyncStore
  <2> QED BY <1>0, <2>1 DEF TypeOK, Handle
<1> USE DEF ProducerSyncStore, ToPublish
<1>2. \A d \in Side : Staged(d)' = Staged(d) /\ ReadUpTo(d)' = ReadUpTo(d)
  BY <1>1, OtherType DEF Staged, ReadUpTo
<1>3. Staged(s) = pos[s] /\ published'[s] = pos[s] /\ handle[s].head = pos[s]
  <2>1. handle[s].kind = "producer" /\ Staged(s) = pos[s]
    BY DEF Holds, Staged
  <2>2. published'[s] = pos[s]
    BY <1>0 DEF TypeOK
  <2> HIDE DEF ProducerSyncStore
  <2> QED BY <1>0, <2>1, <2>2 DEF CachesSound
<1>4. AsU32(handle[s].head) = pos[s]
  <2>1. pos[s] \in Nat /\ pos[s] < Modulus
    BY <1>0, <1>3, RingAssumption DEF NoWrap, TypeOK, CursorsOrdered
  <2> QED BY <1>3, <2>1, SmallAsU32
<1>5. CountersExact'
  <2> SUFFICES ASSUME NEW d \in Side
               PROVE  producer'[d] = published'[d] /\ consumer'[Other(d)] = acked'[d]
    BY DEF CountersExact
  <2>1. consumer'[Other(d)] = acked'[d]
    BY <1>0 DEF CountersExact
  <2>2. CASE d = s
    BY <1>0, <1>4, <2>1, <2>2 DEF TypeOK
  <2>3. CASE d # s
    BY <1>0, <2>1, <2>3 DEF TypeOK, CountersExact
  <2> QED BY <2>2, <2>3
<1>6. CursorsOrdered'
  <2> SUFFICES ASSUME NEW d \in Side
               PROVE  /\ (acked[d] <= ReadUpTo(d))'
                      /\ (ReadUpTo(d) <= published[d])'
                      /\ (published[d] <= Staged(d))'
                      /\ (Staged(d) <= acked[d] + Count)'
                      /\ (Staged(d) <= MaxMsgs)'
    BY DEF CursorsOrdered
  <2>1. CASE d = s
    BY <1>0, <1>2, <1>3, <2>1, OtherType DEF TypeOK, CursorsOrdered, ReadUpTo
  <2>2. CASE d # s
    BY <1>0, <1>2, <2>2 DEF TypeOK, CursorsOrdered
  <2> QED BY <2>1, <2>2
<1>7. CachesSound'
  <2> SUFFICES ASSUME NEW t \in Side
               PROVE  /\ (handle[t].kind = "producer" =>
                            handle[t].head = pos[t] /\ handle[t].tail <= acked[t] + Count)'
                      /\ (handle[t].kind = "consumer" =>
                            handle[t].tail = pos[t] /\ handle[t].head <= published[Other(t)])'
    BY DEF CachesSound
  <2>1. published'[Other(t)] >= published[Other(t)]
    BY <1>0, <1>3, OtherType DEF TypeOK, CursorsOrdered
  <2>2. /\ handle[t].head \in Nat /\ published[Other(t)] \in Nat
        /\ published'[Other(t)] \in Nat /\ pos'[t] = pos[t] /\ acked'[t] = acked[t]
    BY <1>0, OtherType DEF TypeOK, Handle
  <2> QED BY <1>0, <1>1, <2>1, <2>2 DEF CachesSound
<1>8. SilentEmpty'
  BY <1>0, <1>2 DEF SilentEmpty
<1>9. SlotsHold'
  BY <1>0, <1>2 DEF SlotsHold, SlotOf
<1>10. ReadsMatch'
  BY <1>0, <1>2 DEF ReadsMatch
<1> QED BY <1>5, <1>6, <1>7, <1>8, <1>9, <1>10 DEF IInv

(* A read finds the message staged there, because the slots hold it.       *)
LEMMA InvTakeOne ==
  ASSUME IInv, TypeOK', NEW s \in Side, TakeOne(s)
  PROVE  IInv'
<1> USE DEF TakeOne, Holds, shared
<1>0. /\ TypeOK /\ CountersExact /\ CursorsOrdered /\ CachesSound
      /\ SilentEmpty /\ SlotsHold /\ ReadsMatch
  BY DEF IInv
<1> DEFINE o == Other(s)
<1>1. o \in Side /\ o # s /\ Other(o) = s
  BY OtherType
<1>2. \A t \in Side : /\ handle'[t].kind = handle[t].kind
                      /\ t # s => pos'[t] = pos[t]
  BY <1>0 DEF TypeOK, Handle
<1>3. \A d \in Side : Staged(d)' = Staged(d)
  BY <1>0, <1>2 DEF Staged
<1>4. \A d \in Side : d # o => ReadUpTo(d)' = ReadUpTo(d)
  BY <1>2, OtherType DEF ReadUpTo, Side
<1>5. /\ ReadUpTo(o) = pos[s] /\ ReadUpTo(o)' = pos[s] + 1
      /\ handle[s].tail = pos[s] /\ pos[s] < published[o]
  <2>1. /\ handle[s].kind = "consumer" /\ pos'[s] = pos[s] + 1
        /\ handle[s].tail < handle[s].head
    BY <1>0 DEF TypeOK
  <2> HIDE DEF TakeOne
  <2>2. ReadUpTo(o) = pos[s] /\ ReadUpTo(o)' = pos[s] + 1
    BY <1>1, <1>2, <2>1 DEF ReadUpTo
  <2>3. handle[s].tail = pos[s]
    BY <1>0, <2>1 DEF CachesSound
  <2>4. pos[s] < published[o]
    <3>1. handle[s].head <= published[o]
      BY <1>0, <1>1, <2>1 DEF CachesSound
    <3>2. handle[s].head \in Nat /\ pos[s] \in Nat /\ published[o] \in Nat
      BY <1>0, <1>1 DEF TypeOK, Handle
    <3> QED BY <2>1, <2>3, <3>1, <3>2
  <2> QED BY <2>2, <2>3, <2>4
<1>6. CountersExact'
  BY <1>0 DEF CountersExact
<1>7. CursorsOrdered'
  <2> SUFFICES ASSUME NEW d \in Side
               PROVE  /\ (acked[d] <= ReadUpTo(d))'
                      /\ (ReadUpTo(d) <= published[d])'
                      /\ (published[d] <= Staged(d))'
                      /\ (Staged(d) <= acked[d] + Count)'
                      /\ (Staged(d) <= MaxMsgs)'
    BY DEF CursorsOrdered
  <2>1. CASE d = o
    BY <1>0, <1>1, <1>3, <1>5, <2>1 DEF TypeOK, CursorsOrdered
  <2>2. CASE d # o
    BY <1>0, <1>3, <1>4, <2>2 DEF CursorsOrdered
  <2> QED BY <2>1, <2>2
<1>8. CachesSound'
  <2> SUFFICES ASSUME NEW t \in Side
               PROVE  /\ (handle[t].kind = "producer" =>
                            handle[t].head = pos[t] /\ handle[t].tail <= acked[t] + Count)'
                      /\ (handle[t].kind = "consumer" =>
                            handle[t].tail = pos[t] /\ handle[t].head <= published[Other(t)])'
    BY DEF CachesSound
  <2>1. CASE t = s
    <3>1. handle[s].kind = "consumer" /\ handle[s].head <= published[Other(s)]
      BY <1>0 DEF CachesSound
    <3>2. /\ handle'[s].kind = "consumer" /\ handle'[s].head = handle[s].head
          /\ handle'[s].tail = handle[s].tail + 1 /\ pos'[s] = pos[s] + 1
      BY <1>0, <3>1, HandleFields DEF TypeOK, Handle
    <3> QED BY <1>5, <2>1, <3>1, <3>2
  <2>2. CASE t # s
    BY <1>0, <2>2 DEF TypeOK, CachesSound
  <2> QED BY <2>1, <2>2
<1>9. SilentEmpty'
  BY <1>0, <1>3 DEF SilentEmpty
<1>10. SlotsHold'
  <2> SUFFICES ASSUME NEW d \in Side, NEW p \in acked[d] .. Staged(d) - 1
               PROVE  ring[SlotOf(p)] = sent[d][p]
    BY <1>3 DEF SlotsHold, SlotOf
  <2> QED BY <1>0 DEF SlotsHold
<1>11. ReadsMatch'
  <2> SUFFICES ASSUME NEW d \in Side, NEW p \in 0 .. ReadUpTo(d)' - 1
               PROVE  got'[d][p] = sent[d][p]
    BY DEF ReadsMatch
  <2>1. CASE d = o /\ p = pos[s]
    <3>1. ring[SlotOf(pos[s])] = sent[o][pos[s]]
      <4>1. pos[s] \in acked[o] .. Staged(o) - 1
        BY <1>0, <1>1, <1>5, Cursors
      <4> QED BY <1>0, <1>1, <4>1 DEF SlotsHold
    <3>2. pos[s] \in Position
      <4>1. pos[s] \in 0 .. Staged(o) - 1
        BY <1>0, <1>1, <1>5, Cursors
      <4> QED BY <1>0, <1>1, <4>1, InPosition
    <3>3. got'[o][pos[s]] = ring[SlotOf(pos[s])]
      BY <1>0, <1>1, <1>5, <3>2 DEF TypeOK
    <3> QED BY <2>1, <3>1, <3>3
  <2>2. CASE ~(d = o /\ p = pos[s])
    <3>1. p \in 0 .. ReadUpTo(d) - 1
      <4>1. CASE d = o
        BY <1>0, <1>1, <1>5, <2>2, <4>1, Cursors
      <4>2. CASE d # o
        BY <1>4, <4>2
      <4> QED BY <4>1, <4>2
    <3>2. p \in Position
      BY <1>0, <3>1, Cursors, InPosition
    <3>3. got'[d][p] = got[d][p]
      BY <1>0, <1>1, <2>2, <3>2, Elsewhere DEF TypeOK
    <3> QED BY <1>0, <3>1, <3>3 DEF ReadsMatch
  <2> QED BY <2>1, <2>2
<1> QED BY <1>6, <1>7, <1>8, <1>9, <1>10, <1>11 DEF IInv

(* What was read is acknowledged; its slots are the sender's again.        *)
LEMMA InvConsumerSyncStore ==
  ASSUME NoWrap, IInv, TypeOK', NEW s \in Side, ConsumerSyncStore(s)
  PROVE  IInv'
<1> USE DEF ConsumerSyncStore, ToAcknowledge
<1>0. /\ TypeOK /\ CountersExact /\ CursorsOrdered /\ CachesSound
      /\ SilentEmpty /\ SlotsHold /\ ReadsMatch
  BY DEF IInv
<1> DEFINE o == Other(s)
<1>1. o \in Side /\ o # s /\ Other(o) = s
  BY OtherType
<1>2. \A t \in Side : /\ handle'[t].kind = handle[t].kind
                      /\ handle'[t].head = handle[t].head
                      /\ handle'[t].tail = handle[t].tail
  <2> SUFFICES ASSUME NEW t \in Side
               PROVE  /\ handle'[t].kind = handle[t].kind
                      /\ handle'[t].head = handle[t].head
                      /\ handle'[t].tail = handle[t].tail
    OBVIOUS
  <2>1. handle' = [handle EXCEPT ![s].syncing = FALSE] /\ handle \in [Side -> Handle]
    BY <1>0 DEF TypeOK
  <2>2. CASE t = s
    BY <2>1, <2>2 DEF Handle
  <2>3. CASE t # s
    BY <2>1, <2>3
  <2> QED BY <2>2, <2>3
<1>3. ReadUpTo(o) = pos[s] /\ acked'[o] = pos[s] /\ handle[s].tail = pos[s]
  BY <1>0, <1>1 DEF TypeOK, ReadUpTo, CachesSound
<1>4. \A d \in Side : Staged(d)' = Staged(d) /\ ReadUpTo(d)' = ReadUpTo(d)
  <2>1. \A d \in Side : Staged(d)' = Staged(d)
    BY <1>2 DEF Staged
  <2>2. ReadUpTo(o)' = ReadUpTo(o)
    BY <1>1, <1>2, <1>3 DEF ReadUpTo
  <2>3. \A d \in Side : d # o => acked'[d] = acked[d]
    BY <1>0 DEF TypeOK
  <2>4. \A d \in Side : d # o => ReadUpTo(d)' = ReadUpTo(d)
    BY <1>2, <2>3, OtherType DEF ReadUpTo
  <2> QED BY <2>1, <2>2, <2>4
<1>5. AsU32(handle[s].tail) = pos[s]
  <2>1. pos[s] \in Nat /\ pos[s] <= Staged(o) /\ Staged(o) <= MaxMsgs
    BY <1>0, <1>1, <1>3 DEF TypeOK, CursorsOrdered, Staged
  <2>2. MaxMsgs < Modulus /\ MaxMsgs \in Nat /\ Modulus \in Nat
    BY <1>0, RingAssumption DEF NoWrap
  <2>3. Staged(o) \in Nat
    BY <1>0, <1>1 DEF TypeOK, Staged
  <2>4. pos[s] < Modulus
    BY <2>1, <2>2, <2>3
  <2> QED BY <1>3, <2>1, <2>4, SmallAsU32
<1>6. CountersExact'
  BY <1>0, <1>1, <1>3, <1>5, OtherType DEF CountersExact, TypeOK
<1>7. CursorsOrdered'
  <2> SUFFICES ASSUME NEW d \in Side
               PROVE  /\ (acked[d] <= ReadUpTo(d))'
                      /\ (ReadUpTo(d) <= published[d])'
                      /\ (published[d] <= Staged(d))'
                      /\ (Staged(d) <= acked[d] + Count)'
                      /\ (Staged(d) <= MaxMsgs)'
    BY DEF CursorsOrdered
  <2>1. CASE d = o
    <3>1. /\ acked'[o] = ReadUpTo(o) /\ ReadUpTo(o)' = ReadUpTo(o)
          /\ published'[o] = published[o] /\ Staged(o)' = Staged(o)
      BY <1>1, <1>3, <1>4
    <3> QED BY <1>0, <1>1, <2>1, <3>1, Cursors, RingAssumption
  <2>2. CASE d # o
    BY <1>0, <1>4, <2>2 DEF TypeOK, CursorsOrdered
  <2> QED BY <2>1, <2>2
<1>8. CachesSound'
  <2> SUFFICES ASSUME NEW t \in Side
               PROVE  /\ (handle[t].kind = "producer" =>
                            handle[t].head = pos[t] /\ handle[t].tail <= acked[t] + Count)'
                      /\ (handle[t].kind = "consumer" =>
                            handle[t].tail = pos[t] /\ handle[t].head <= published[Other(t)])'
    BY DEF CachesSound
  <2>1. acked'[t] >= acked[t]
    BY <1>0, <1>1, <1>3 DEF TypeOK, CursorsOrdered
  <2>2. /\ handle[t].tail \in Nat /\ acked[t] \in Nat /\ acked'[t] \in Nat
        /\ pos'[t] = pos[t] /\ published'[Other(t)] = published[Other(t)]
    BY <1>0 DEF TypeOK, Handle
  <2> QED BY <1>0, <1>2, <2>1, <2>2, RingAssumption DEF CachesSound
<1>9. SilentEmpty'
  BY <1>0, <1>4 DEF SilentEmpty
<1>10. SlotsHold'
  <2> SUFFICES ASSUME NEW d \in Side, NEW p \in acked'[d] .. Staged(d) - 1
               PROVE  ring[SlotOf(p)] = sent[d][p]
    BY <1>4 DEF SlotsHold, SlotOf
  <2>1. acked'[d] \in Nat /\ acked'[d] >= acked[d]
    <3>1. CASE d = o
      BY <1>0, <1>1, <1>3, <3>1, Cursors
    <3>2. CASE d # o
      BY <1>0, <1>1, <3>2, Cursors DEF TypeOK
    <3> QED BY <3>1, <3>2
  <2>2. p \in acked[d] .. Staged(d) - 1
    BY <1>0, <2>1, Cursors
  <2> QED BY <1>0, <2>2 DEF SlotsHold
<1>11. ReadsMatch'
  BY <1>0, <1>4 DEF ReadsMatch
<1> QED BY <1>6, <1>7, <1>8, <1>9, <1>10, <1>11 DEF IInv

(* What was staged, or read, and not synced no longer counts.              *)
LEMMA InvDropHandle ==
  ASSUME IInv, TypeOK', NEW s \in Side, DropHandle(s)
  PROVE  IInv'
<1> USE DEF DropHandle, NoHandle, shared, history
<1>0. /\ TypeOK /\ CountersExact /\ CursorsOrdered /\ CachesSound
      /\ SilentEmpty /\ SlotsHold /\ ReadsMatch
  BY DEF IInv
<1>1. \A d \in Side : d # s => handle'[d] = handle[d]
  BY <1>0 DEF TypeOK
<1>2. handle'[s].kind = "none"
  BY <1>0 DEF TypeOK
<1>3. \A d \in Side : Staged(d)' = IF d = s THEN published[d] ELSE Staged(d)
  BY <1>1, <1>2 DEF Staged
<1>4. \A d \in Side : ReadUpTo(d)' = IF Other(d) = s THEN acked[d] ELSE ReadUpTo(d)
  BY <1>1, <1>2, OtherType DEF ReadUpTo
<1>5. \A d \in Side : /\ Staged(d)' <= Staged(d) /\ published[d] <= Staged(d)'
                      /\ ReadUpTo(d)' <= ReadUpTo(d) /\ acked[d] <= ReadUpTo(d)'
  BY <1>0, <1>3, <1>4, Cursors
<1>6. \A d \in Side : Staged(d) \in Nat /\ Staged(d)' \in Nat
                      /\ ReadUpTo(d) \in Nat /\ ReadUpTo(d)' \in Nat
  BY <1>0, <1>3, <1>4, Cursors
<1>7. CountersExact'
  BY <1>0 DEF CountersExact
<1>8. CursorsOrdered'
  <2> SUFFICES ASSUME NEW d \in Side
               PROVE  /\ (acked[d] <= ReadUpTo(d))'
                      /\ (ReadUpTo(d) <= published[d])'
                      /\ (published[d] <= Staged(d))'
                      /\ (Staged(d) <= acked[d] + Count)'
                      /\ (Staged(d) <= MaxMsgs)'
    BY DEF CursorsOrdered
  <2>1. acked[d] \in Nat /\ published[d] \in Nat
    BY <1>0 DEF TypeOK
  <2> QED BY <1>0, <1>5, <1>6, <2>1, RingAssumption DEF CursorsOrdered
<1>9. CachesSound'
  BY <1>0, <1>1, <1>2, OtherType DEF CachesSound
<1>10. SilentEmpty'
  BY <1>0, <1>5, <1>6 DEF SilentEmpty
<1>11. SlotsHold'
  <2> SUFFICES ASSUME NEW d \in Side, NEW p \in acked[d] .. Staged(d)' - 1
               PROVE  ring[SlotOf(p)] = sent[d][p]
    BY DEF SlotsHold, SlotOf
  <2>1. acked[d] \in Nat
    BY <1>0 DEF TypeOK
  <2>2. p \in acked[d] .. Staged(d) - 1
    BY <2>1, <1>5, <1>6
  <2> QED BY <1>0, <2>2 DEF SlotsHold
<1>12. ReadsMatch'
  BY <1>0, <1>5, <1>6 DEF ReadsMatch
<1> QED BY <1>7, <1>8, <1>9, <1>10, <1>11, <1>12 DEF IInv

LEMMA InvStep ==
  ASSUME OneWay, NoWrap, IInv, [Next]_vars
  PROVE  IInv'
<1>1. TypeOK'
  BY TypeStep DEF IInv
<1>2. CASE UNCHANGED vars
  <2>1. CachesSound'
    BY <1>2 DEF vars, shared, history, IInv, CachesSound
  <2> QED BY <1>1, <1>2, <2>1, Unmoved DEF vars, history, Staged, ReadUpTo
<1> QED
  BY <1>1, <1>2, InvNewProducer, InvPushOne, InvProducerSyncLoad,
     InvProducerSyncStore, InvNewConsumer, InvTakeOne, InvConsumerSyncLoad,
     InvConsumerSyncStore, InvDropHandle DEF Next

LEMMA Invariance ==
  ASSUME OneWay, NoWrap
  PROVE  Spec => []IInv
BY InvInit, InvStep, PTL DEF Spec

-----------------------------------------------------------------------------
(* No producer overwrites an entry the remote has not acknowledged, as long *)
(* as one side sends and the counters do not wrap.                          *)
THEOREM NothingOverwritten ==
  ASSUME OneWay, NoWrap
  PROVE  Spec => []UnreadIntact
<1>1. IInv => UnreadIntact
  BY DEF IInv, TypeOK, CursorsOrdered, SlotsHold, UnreadIntact, Unread, Staged
<1> QED BY <1>1, Invariance, PTL

(* The consumer's reads are the published messages, first in, first out.   *)
THEOREM FirstInFirstOut ==
  ASSUME OneWay, NoWrap
  PROVE  Spec => []ReadInOrder
<1>1. IInv => ReadInOrder
  BY DEF IInv, CursorsOrdered, ReadsMatch, ReadInOrder, ReadUpTo
<1> QED BY <1>1, Invariance, PTL

(* The two clients never reach for one slot at a time, one of them writing: *)
(* the slots may be plain memory.                                           *)
THEOREM RaceFree ==
  ASSUME OneWay, NoWrap
  PROVE  Spec => []NoDataRace
<1>1. IInv => NoDataRace
  <2> SUFFICES ASSUME IInv, NEW s \in Side,
                      NEW x \in Writable(s) \cap (Writable(Other(s)) \cup Readable(Other(s)))
               PROVE  FALSE
    BY DEF NoDataRace
  <2> USE DEF IInv
  <2>1. /\ s \in Producing /\ x = SlotOf(handle[s].head)
        /\ handle[s].kind = "producer" /\ handle[s].head < handle[s].tail
    BY DEF Writable, Holds
  <2>2. Other(s) \in Side /\ Other(s) \notin Producing
    BY <2>1, OtherType DEF OneWay
  <2>3. /\ x = SlotOf(handle[Other(s)].tail)
        /\ handle[Other(s)].kind = "consumer"
        /\ handle[Other(s)].tail < handle[Other(s)].head
    BY <2>2 DEF Writable, Readable, Holds
  <2> DEFINE w == handle[s].head
             r == handle[Other(s)].tail
  <2>4. w \in Nat /\ r \in Nat
    BY <2>2 DEF TypeOK, Handle
  <2>5. w = pos[s] /\ w < acked[s] + Count /\ w = Staged(s)
    BY <2>1, RingAssumption DEF CachesSound, TypeOK, Handle, Staged
  <2>6. r = ReadUpTo(s) /\ acked[s] <= r /\ r < published[s]
    BY <2>2, <2>3, OtherType DEF CachesSound, CursorsOrdered, TypeOK, Handle, ReadUpTo
  <2>7. acked[s] \in Nat /\ published[s] \in Nat /\ Count \in Nat
    BY RingAssumption DEF TypeOK
  <2>8. published[s] <= w
    BY <2>5 DEF CursorsOrdered
  <2> HIDE DEF w, r
  <2>9. r < w /\ w - r < Count
    BY <2>4, <2>5, <2>6, <2>7, <2>8
  <2> QED BY <2>1, <2>3, <2>4, <2>9, SlotsDiffer DEF w, r
<1> QED BY <1>1, Invariance, PTL

-----------------------------------------------------------------------------
(* What the abstract channel sees of the left side's messages.             *)
Log == [i \in 0 .. published["Left"] - 1 |-> sent["Left"][i]]
Delivered == [i \in 0 .. acked["Left"] - 1 |-> got["Left"][i]]

LEMMA StutterStep ==
  ASSUME UNCHANGED <<published["Left"], acked["Left"]>>,
         \A i \in 0 .. published["Left"] - 1 : sent'["Left"][i] = sent["Left"][i],
         \A i \in 0 .. acked["Left"] - 1 : got'["Left"][i] = got["Left"][i]
  PROVE  UNCHANGED LeftChannel!vars
<1>1. Log' = Log
  BY DEF Log
<1>2. Delivered' = Delivered
  BY DEF Delivered
<1> QED BY <1>1, <1>2 DEF LeftChannel!vars, Log, Delivered

LEMMA PublishStep ==
  ASSUME IInv, IInv', NEW s \in Side, ProducerSyncStore(s)
  PROVE  LeftChannel!Publish \/ UNCHANGED LeftChannel!vars
<1> USE DEF IInv, ProducerSyncStore, ToPublish
<1>1. CASE s # "Left"
  BY <1>1, StutterStep DEF TypeOK, Side
<1>2. CASE s = "Left"
  <2>1. published'["Left"] \in published["Left"] .. acked["Left"] + Count
    <3>1. acked'["Left"] = acked["Left"] /\ published'["Left"] = pos["Left"]
      BY <1>2 DEF TypeOK
    <3>2. Staged("Left") = pos["Left"] /\ "Left" \in Side
      BY <1>2 DEF Staged, Side
    <3>3. /\ published["Left"] <= pos["Left"] /\ pos["Left"] <= acked["Left"] + Count
          /\ published["Left"] \in Nat /\ acked["Left"] \in Nat /\ pos["Left"] \in Nat
      BY <3>2, Cursors
    <3> QED BY <3>1, <3>3, RingAssumption
  <2>2. \A i \in 0 .. published["Left"] - 1 : Log'[i] = Log[i]
    <3> SUFFICES ASSUME NEW i \in 0 .. published["Left"] - 1
                 PROVE  Log'[i] = Log[i]
      OBVIOUS
    <3>1. published["Left"] \in Nat /\ acked["Left"] \in Nat
      BY DEF TypeOK, Side
    <3>2. i \in 0 .. published'["Left"] - 1
      BY <2>1, <3>1, RingAssumption
    <3> QED BY <3>2 DEF Log
  <2>3. DOMAIN Log' = 0 .. published'["Left"] - 1
    BY DEF Log
  <2>4. Delivered' = Delivered
    BY DEF Delivered
  <2> QED BY <2>1, <2>2, <2>3, <2>4 DEF LeftChannel!Publish, Log, Delivered
<1> QED BY <1>1, <1>2

LEMMA AcknowledgeStep ==
  ASSUME IInv, IInv', NEW s \in Side, ConsumerSyncStore(s)
  PROVE  LeftChannel!Acknowledge \/ UNCHANGED LeftChannel!vars
<1> USE DEF IInv, ConsumerSyncStore, ToAcknowledge
<1>1. CASE s # "Right"
  BY <1>1, StutterStep DEF TypeOK, Side, Other
<1>2. CASE s = "Right"
  <2>1. acked'["Left"] \in acked["Left"] .. published["Left"]
    <3>1. acked'["Left"] = pos["Right"] /\ ReadUpTo("Left") = pos["Right"]
      BY <1>2 DEF TypeOK, Side, Other, ReadUpTo
    <3> QED BY <3>1 DEF TypeOK, CursorsOrdered, Side
  <2>2. Log' = Log
    BY DEF Log
  <2>3. Delivered' = [i \in 0 .. acked'["Left"] - 1 |-> Log[i]]
    <3>1. \A i \in 0 .. acked'["Left"] - 1 : got'["Left"][i] = sent["Left"][i]
      <4>1. acked'["Left"] <= ReadUpTo("Left")'
        BY DEF CursorsOrdered, Side
      <4>2. ReadUpTo("Left")' \in Nat /\ acked'["Left"] \in Nat
        BY OtherType DEF TypeOK, ReadUpTo, Side
      <4> QED BY <4>1, <4>2 DEF ReadsMatch, Side
    <3>2. \A i \in 0 .. acked'["Left"] - 1 : Log[i] = sent["Left"][i]
      BY <2>1 DEF Log, TypeOK, Side
    <3> QED BY <3>1, <3>2 DEF Delivered
  <2> QED BY <2>1, <2>2, <2>3 DEF LeftChannel!Acknowledge, Log, Delivered
<1> QED BY <1>1, <1>2

(* Staging and reading a message are invisible to the abstract channel;    *)
(* the two stores of `sync` are its Publish and its Acknowledge.           *)
LEMMA ChannelStep ==
  ASSUME IInv, IInv', [Next]_vars
  PROVE  [LeftChannel!Next]_(LeftChannel!vars)
<1>1. CASE UNCHANGED vars
  BY <1>1, StutterStep DEF vars, history
<1>2. ASSUME NEW s \in Side, NewProducer(s) \/ ProducerSyncLoad(s) \/ NewConsumer(s)
                              \/ ConsumerSyncLoad(s) \/ DropHandle(s)
      PROVE  UNCHANGED LeftChannel!vars
  BY <1>2, StutterStep DEF NewProducer, ProducerSyncLoad, NewConsumer,
                           ConsumerSyncLoad, DropHandle, history
<1>3. ASSUME NEW s \in Side, NEW m \in Msg, PushOne(s, m)
      PROVE  UNCHANGED LeftChannel!vars
  <2>1. published[s] <= pos[s] /\ pos[s] \in Nat /\ published[s] \in Nat
    BY <1>3 DEF PushOne, Holds, IInv, TypeOK, CursorsOrdered, Staged
  <2>2. \A i \in 0 .. published["Left"] - 1 : sent'["Left"][i] = sent["Left"][i]
    BY <1>3, <2>1 DEF PushOne, IInv, TypeOK, Side
  <2> QED BY <1>3, <2>2, StutterStep DEF PushOne
<1>4. ASSUME NEW s \in Side, TakeOne(s)
      PROVE  UNCHANGED LeftChannel!vars
  <2>1. /\ acked[Other(s)] <= pos[s] /\ pos[s] \in Nat
        /\ acked[Other(s)] \in Nat /\ Other(s) \in Side
    BY <1>4, OtherType DEF TakeOne, Holds, IInv, TypeOK, CursorsOrdered, ReadUpTo
  <2>2. \A i \in 0 .. acked["Left"] - 1 : got'["Left"][i] = got["Left"][i]
    <3> SUFFICES ASSUME NEW i \in 0 .. acked["Left"] - 1
                 PROVE  got'["Left"][i] = got["Left"][i]
      OBVIOUS
    <3>1. "Left" \in Side /\ TypeOK /\ CursorsOrdered
      BY DEF Side, IInv
    <3>2. i \in Position
      BY <3>1, Cursors, InPosition
    <3>3. ~("Left" = Other(s) /\ i = pos[s])
      BY <2>1
    <3> QED BY <1>4, <2>1, <3>1, <3>2, <3>3, Elsewhere DEF TakeOne, TypeOK
  <2> QED BY <1>4, <2>2, StutterStep DEF TakeOne
<1> QED
  BY <1>1, <1>2, <1>3, <1>4, PublishStep, AcknowledgeStep DEF Next, LeftChannel!Next

(* What the left side sends goes through a bounded first-in first-out      *)
(* channel: the refinement TLC checks on a small instance.                 *)
THEOREM Refinement ==
  ASSUME OneWay, NoWrap
  PROVE  Spec => ImplementsChannel
<1>1. Init => LeftChannel!Init
  <2> SUFFICES ASSUME Init PROVE LeftChannel!Init
    OBVIOUS
  <2>1. published["Left"] = 0 /\ acked["Left"] = 0
    BY DEF Init, Side
  <2> QED BY <2>1 DEF LeftChannel!Init
<1> QED BY <1>1, Invariance, ChannelStep, PTL DEF Spec, ImplementsChannel, LeftChannel!Spec

(* A log that only grows still agrees with what was delivered from it, and *)
(* what is delivered from a log agrees with it.                            *)
LEMMA GrownLog ==
  ASSUME NEW a \in Nat, NEW p \in Nat, a <= p,
         NEW Sent, NEW More, NEW Got,
         \A i \in 0 .. a - 1 : Got[i] = Sent[i],
         \A i \in 0 .. p - 1 : More[i] = Sent[i]
  PROVE  \A i \in 0 .. a - 1 : Got[i] = More[i]
<1> TAKE i \in 0 .. a - 1
<1>1. i \in 0 .. p - 1
  OBVIOUS
<1> QED BY <1>1

LEMMA ReadLog ==
  ASSUME NEW a \in Nat, NEW Sent, NEW Got,
         Got = [i \in 0 .. a - 1 |-> Sent[i]]
  PROVE  \A i \in 0 .. a - 1 : Got[i] = Sent[i]
OBVIOUS

(* What the receiver of a channel can rely on: at most Count messages wait *)
(* for it, and what it acknowledged is what was sent in that place.        *)
THEOREM ChannelIsFaithful ==
  ASSUME OneWay, NoWrap
  PROVE  Spec => []LeftChannel!Faithful
<1>1. LeftChannel!Init => LeftChannel!Faithful
  BY RingAssumption DEF LeftChannel!Init, LeftChannel!Faithful
<1>2. /\ TypeOK /\ TypeOK' /\ LeftChannel!Faithful
      /\ [LeftChannel!Next]_(LeftChannel!vars)
      => LeftChannel!Faithful'
  <2> SUFFICES ASSUME TypeOK, TypeOK', LeftChannel!Faithful,
                      [LeftChannel!Next]_(LeftChannel!vars)
               PROVE  LeftChannel!Faithful'
    OBVIOUS
  <2> DEFINE a == acked["Left"]
             p == published["Left"]
             log == [i \in 0 .. p - 1 |-> sent["Left"][i]]
             read == [i \in 0 .. a - 1 |-> got["Left"][i]]
  <2>1. a \in Nat /\ p \in Nat /\ a' \in Nat /\ p' \in Nat
    BY DEF TypeOK, Side
  <2>2. a <= p /\ p <= a + Count /\ \A i \in 0 .. a - 1 : read[i] = log[i]
    BY DEF LeftChannel!Faithful
  <2>3. SUFFICES /\ a' <= p' /\ p' <= a' + Count
                 /\ \A i \in 0 .. a' - 1 : read'[i] = log'[i]
    BY DEF LeftChannel!Faithful
  <2>4. CASE LeftChannel!Publish
    <3>1. /\ p' \in p .. a + Count /\ a' = a /\ read' = read
          /\ \A i \in 0 .. p - 1 : log'[i] = log[i]
      BY <2>4 DEF LeftChannel!Publish
    <3> HIDE DEF a, p, log, read
    <3>2. \A i \in 0 .. a - 1 : read[i] = log'[i]
      BY <2>1, <2>2, <3>1, GrownLog
    <3> QED BY <2>1, <2>2, <3>1, <3>2, RingAssumption
  <2>5. CASE LeftChannel!Acknowledge
    <3>1. a' \in a .. p /\ p' = p
      BY <2>5 DEF LeftChannel!Acknowledge
    <3>2. log' = log /\ read' = [i \in 0 .. a' - 1 |-> log[i]]
      BY <2>5 DEF LeftChannel!Acknowledge
    <3>3. a' <= p' /\ p' <= a' + Count
      <4>1. p <= a + Count
        BY <2>2
      <4> QED BY <2>1, <3>1, <4>1, RingAssumption
    <3> HIDE DEF a, p, log, read
    <3>4. \A i \in 0 .. a' - 1 : read'[i] = log[i]
      BY <2>1, <3>2, ReadLog
    <3> QED BY <3>2, <3>3, <3>4
  <2>6. CASE UNCHANGED LeftChannel!vars
    <3>1. a' = a /\ p' = p /\ log' = log /\ read' = read
      BY <2>6 DEF LeftChannel!vars
    <3> HIDE DEF a, p, log, read
    <3> QED BY <2>2, <3>1
  <2> HIDE DEF a, p, log, read
  <2> QED BY <2>4, <2>5, <2>6 DEF LeftChannel!Next
<1>3. Spec => LeftChannel!Spec
  BY Refinement DEF ImplementsChannel
<1>4. LeftChannel!Spec /\ []TypeOK => []LeftChannel!Faithful
  BY <1>1, <1>2, PTL DEF LeftChannel!Spec
<1> QED BY <1>3, <1>4, TypeCorrect, PTL

=============================================================================
