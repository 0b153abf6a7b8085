-------------------------- MODULE StreamCopyProofs --------------------------
(***************************************************************************)
(* Proofs about StreamCopy, for any area, any ring and any number of       *)
(* bytes, if the host flushes after each write and its frames fit into the *)
(* area: then one frame at a time is on the way, the two ends never meet   *)
(* in the entries of the ring although they share them, and together they  *)
(* are a pipe.  The last section is about every host and any frames: the   *)
(* types, and the permits that bound what waits to be read.                *)
(***************************************************************************)
EXTENDS StreamCopy, FiniteSets, Functions, FiniteSetTheorems, TLAPS

Lockstep == Flushing /\ MaxFrame <= Size

(* Where the output task knows the remote to have got to.                  *)
Acked == out.head - Size

(* Each position is where the last frame ended, or where this one does.    *)
Positions ==
  /\ 0 <= Acked /\ written - Acked <= Size
  /\ Acked <= inp.released /\ inp.released <= inp.sequence
  /\ inp.sequence <= inp.head /\ inp.head <= out.released
  /\ out.released <= out.sequence /\ out.sequence <= written
  /\ inp.released = Acked \/ inp.released = written
  /\ inp.sequence = Acked \/ inp.sequence = written
  /\ inp.head = Acked \/ inp.head = written
  /\ out.released = Acked \/ out.released = written
  /\ out.sequence = Acked \/ out.sequence = written

(* At most one message is on the way, of one end or of the other, and it   *)
(* says how far its sender has got.                                        *)
Talk ==
  /\ pushed["out"] = taken["in"] \/ pushed["out"] = taken["in"] + 1
  /\ pushed["in"] = taken["out"] \/ pushed["in"] = taken["out"] + 1
  /\ pushed["out"] = taken["in"] =>
       inp.head = out.released /\ (out.sentEof => inp.eof)
  /\ pushed["out"] # taken["in"] =>
       /\ pushed["in"] = taken["out"]
       /\ slots[taken["in"] % Count] = out.released
       /\ ~inp.eof
       /\ out.sentEof => inp.head = out.released
       /\ ~out.sentEof => inp.head < out.released
  /\ pushed["in"] = taken["out"] => inp.released = Acked
  /\ pushed["in"] # taken["out"] =>
       slots[taken["out"] % Count] = inp.released /\ Acked < inp.released
  /\ inp.eof => out.sentEof

(* The output task has at most one flush at hand, and sends what it copied *)
(* before it looks for acknowledgements again.                             *)
OutInv ==
  /\ out.pc = "fill" => out.outstanding = 0
  /\ out.pc # "fill" => out.flushes = 0
  /\ out.pc = "top" => out.released = out.sequence
  /\ out.flushes + out.outstanding <= 1
  /\ out.sentEof => out.pendingEof
  /\ out.pendingEof => writer = "closed"

(* What waits to be copied: the bytes written last, and a mark behind.     *)
Copying == out.sequence < written
Rest == Data([i \in 1 .. written - out.sequence |-> out.sequence + i - 1])
HasMark == writer = "waiting" /\ out.flushes = 0 /\ out.outstanding = 0
HostInv ==
  /\ writer \in {"open", "closed"} => Acked = written
  /\ writer = "closed" => outbox = <<Eof>> /\ out.flushes = 0
  /\ Copying => outbox # <<>> /\ outbox[1] = Rest /\ out.flushes = 0 /\ out.outstanding = 0
  /\ Copying /\ HasMark => Len(outbox) = 2 /\ outbox[2] = FlushMark
  /\ Copying /\ ~HasMark => Len(outbox) = 1
  /\ ~Copying /\ HasMark => Len(outbox) = 1 /\ outbox[1] = FlushMark
  /\ ~Copying /\ ~HasMark /\ writer # "closed" => outbox = <<>>
  /\ writer \in {"open", "unflushed"} =>
       out.flushes = 0 /\ out.outstanding = 0 /\ flushed = flushLevel
  /\ writer = "waiting" => flushed + 1 = flushLevel

MarksInv ==
  /\ Len(marks) = flushLevel
  /\ \A k \in 1 .. Len(marks) :
       marks[k] <= written /\ (k <= flushed => marks[k] <= Acked)

InInv ==
  /\ inp.pc # "consume" => inp.sequence = inp.head
  /\ inp.pc \in {"top", "wait"} => inp.released = inp.sequence
  /\ inp.pc \in {"top", "consume"} => ~inp.forgot

(* The bytes of the frame that is on the way are in their places.          *)
AreaInv == \A p \in Acked .. out.sequence - 1 : area[p % Size] = p

(* A permit is left, in the hands of the task, or with a frame unread.     *)
Held == IF inp.pc = "top" \/ inp.forgot THEN 0 ELSE 1
Permitted == permits + Held + Len(inbox) = Permits

(* The frames unread follow what was read: the i-th begins at start[i].    *)
Starts(start) ==
  /\ start[1] = Len(received) /\ start[Len(inbox) + 1] = inp.sequence
  /\ \A i \in 1 .. Len(inbox) :
       /\ start[i + 1] = start[i] + Len(inbox[i].bytes)
       /\ start[i + 1] <= inp.sequence
       /\ \A j \in 1 .. Len(inbox[i].bytes) : inbox[i].bytes[j] = start[i] + j - 1
       /\ inbox[i].eof => inp.eof /\ start[i] = inp.sequence
       /\ ~inbox[i].eof => inbox[i].bytes # <<>>
Unread == \E start \in [1 .. Len(inbox) + 1 -> Nat] : Starts(start)
ReadSoFar == \A i \in 1 .. Len(received) : received[i] = i - 1

IInv ==
  /\ TypeOK /\ Positions /\ Talk
  /\ OutInv /\ HostInv /\ MarksInv
  /\ InInv /\ AreaInv
  /\ Permitted /\ Unread /\ ReadSoFar

-----------------------------------------------------------------------------
LEMMA Consts ==
  /\ Size \in Nat \ {0} /\ Count \in Nat \ {0} /\ Permits \in Nat \ {0}
  /\ MaxFrame \in Nat \ {0} /\ MaxBytes \in Nat /\ MaxFlushes \in Nat
BY StreamAssumption

LEMMA Numbers ==
  ASSUME TypeOK
  PROVE  /\ out.sequence \in Nat /\ out.released \in Nat /\ out.head \in Nat
         /\ out.flushes \in Nat /\ out.outstanding \in Nat
         /\ inp.sequence \in Nat /\ inp.released \in Nat /\ inp.head \in Nat
         /\ pushed["out"] \in Nat /\ pushed["in"] \in Nat
         /\ taken["out"] \in Nat /\ taken["in"] \in Nat
         /\ written \in Nat /\ permits \in Nat
         /\ flushLevel \in Nat /\ flushed \in Nat
BY Consts DEF TypeOK, OutTask, InTask, End

LEMMA ModRange ==
  ASSUME NEW n \in Nat, NEW c \in Nat \ {0}
  PROVE  n % c \in 0 .. c - 1
OBVIOUS

LEMMA Element ==
  ASSUME NEW S, NEW s \in Seq(S), NEW k \in 1 .. Len(s)
  PROVE  s[k] \in S
OBVIOUS

(* A message or none, and what an end hears with it.                       *)
LEMMA NoMessage ==
  ASSUME NEW e \in End, TypeOK, pushed[Other(e)] = taken[e]
  PROVE  Messages(e) = <<>>
<1>1. pushed[Other(e)] \in Nat /\ taken[e] \in Nat
  BY DEF TypeOK, End, Other
<1>2. 1 .. pushed[Other(e)] - taken[e] = {}
  BY <1>1
<1> QED BY <1>2 DEF Messages

LEMMA OneMessage ==
  ASSUME NEW e \in End, TypeOK, pushed[Other(e)] = taken[e] + 1
  PROVE  Messages(e) = <<slots[taken[e] % Count]>>
<1>1. pushed[Other(e)] \in Nat /\ taken[e] \in Nat
  BY DEF TypeOK, End, Other
<1>2. 1 .. pushed[Other(e)] - taken[e] = {1}
  BY <1>1
<1>3. taken[e] + 1 - 1 = taken[e]
  BY <1>1
<1> QED BY <1>2, <1>3 DEF Messages

LEMMA HearNothing ==
  ASSUME NEW h \in Nat
  PROVE  /\ InOrder(Heard(h, <<>>)) /\ Latest(Heard(h, <<>>)) = h
         /\ ~Repeats(Heard(h, <<>>))
<1>1. <<h>> \o <<>> = <<h>>
  OBVIOUS
<1> QED BY <1>1 DEF Heard, InOrder, Latest, Repeats

LEMMA HearOne ==
  ASSUME NEW h \in Nat, NEW x \in Nat
  PROVE  /\ h <= x => InOrder(Heard(h, <<x>>))
         /\ Latest(Heard(h, <<x>>)) = x
         /\ Repeats(Heard(h, <<x>>)) <=> h = x
<1>1. <<h>> \in Seq(Nat) /\ <<x>> \in Seq(Nat)
  OBVIOUS
<1>2. Len(<<h>> \o <<x>>) = 2
  BY <1>1
<1>3. (<<h>> \o <<x>>)[1] = h /\ (<<h>> \o <<x>>)[2] = x
  BY <1>1
<1> QED BY <1>2, <1>3 DEF Heard, InOrder, Latest, Repeats

LEMMA OutHears ==
  ASSUME TypeOK, Positions, Talk
  PROVE  /\ InOrder(HeardByOut)
         /\ Latest(HeardByOut) = IF pushed["in"] = taken["out"] THEN out.head
                                 ELSE inp.released + Size
<1>1. /\ "out" \in End /\ Other("out") = "in"
      /\ out.head \in Nat /\ inp.released \in Nat /\ Size \in Nat
  BY Numbers, Consts DEF End, Other
<1>2. CASE pushed["in"] = taken["out"]
  <2>1. Messages("out") = <<>>
    BY <1>1, <1>2, NoMessage
  <2>2. [i \in DOMAIN Messages("out") |-> Credit(Messages("out")[i])] = <<>>
    BY <2>1
  <2>3. HeardByOut = Heard(out.head, <<>>)
    BY <2>2 DEF HeardByOut
  <2> QED BY <1>1, <1>2, <2>3, HearNothing
<1>3. CASE pushed["in"] = taken["out"] + 1
  <2>1. Messages("out") = <<slots[taken["out"] % Count]>>
    BY <1>1, <1>3, OneMessage
  <2>2. slots[taken["out"] % Count] = inp.released /\ Acked < inp.released
    BY <1>1, <1>3, Numbers DEF Talk
  <2>3. [i \in DOMAIN Messages("out") |-> Credit(Messages("out")[i])]
          = <<inp.released + Size>>
    BY <2>1, <2>2 DEF Credit
  <2>4. HeardByOut = Heard(out.head, <<inp.released + Size>>)
    BY <2>3 DEF HeardByOut
  <2>5. out.head <= inp.released + Size /\ inp.released + Size \in Nat
    BY <1>1, <2>2 DEF Acked
  <2> QED BY <1>1, <1>3, <2>4, <2>5, HearOne, Numbers
<1> QED BY <1>2, <1>3 DEF Talk

LEMMA InHears ==
  ASSUME TypeOK, Positions, Talk
  PROVE  /\ InOrder(HeardByIn)
         /\ Latest(HeardByIn) = out.released
         /\ Repeats(HeardByIn) <=> pushed["out"] # taken["in"] /\ out.sentEof
<1>1. /\ "in" \in End /\ Other("in") = "out"
      /\ inp.head \in Nat /\ out.released \in Nat /\ inp.head <= out.released
  BY Numbers DEF End, Other, Positions
<1>2. CASE pushed["out"] = taken["in"]
  <2>1. Messages("in") = <<>>
    BY <1>1, <1>2, NoMessage
  <2>2. HeardByIn = Heard(inp.head, <<>>)
    BY <2>1 DEF HeardByIn
  <2>3. inp.head = out.released
    BY <1>2 DEF Talk
  <2> QED BY <1>1, <1>2, <2>2, <2>3, HearNothing
<1>3. CASE pushed["out"] = taken["in"] + 1
  <2>1. pushed["out"] # taken["in"]
    BY <1>3, Numbers
  <2>2. Messages("in") = <<slots[taken["in"] % Count]>>
    BY <1>1, <1>3, OneMessage
  <2>3. slots[taken["in"] % Count] = out.released
    BY <2>1 DEF Talk
  <2>4. HeardByIn = Heard(inp.head, <<out.released>>)
    BY <2>2, <2>3 DEF HeardByIn
  <2>8. out.sentEof <=> inp.head = out.released
    <3>1. out.sentEof \in BOOLEAN
      BY DEF TypeOK, OutTask
    <3>2. out.sentEof => inp.head = out.released
      BY <2>1 DEF Talk
    <3>3. ~out.sentEof => inp.head # out.released
      BY <1>1, <2>1 DEF Talk
    <3> QED BY <3>1, <3>2, <3>3
  <2> QED BY <1>1, <2>1, <2>4, <2>8, HearOne
<1> QED BY <1>2, <1>3 DEF Talk

-----------------------------------------------------------------------------
(* What a step of one side leaves alone.                                   *)
LEMMA UnreadKept ==
  ASSUME Unread, inbox' = inbox, received' = received,
         inp'.sequence = inp.sequence, inp.eof => inp'.eof
  PROVE  Unread'
<1>1. PICK start \in [1 .. Len(inbox) + 1 -> Nat] : Starts(start)
  BY DEF Unread
<1>2. Starts(start)'
  BY <1>1 DEF Starts
<1>3. start \in [1 .. Len(inbox') + 1 -> Nat]
  BY <1>1
<1> QED BY <1>2, <1>3 DEF Unread

LEMMA InSideKept ==
  ASSUME IInv, UNCHANGED inVars
  PROVE  InInv' /\ Permitted' /\ Unread' /\ ReadSoFar'
<1>1. /\ inbox' = inbox /\ permits' = permits /\ inp' = inp
      /\ reader' = reader /\ received' = received
  BY DEF inVars
<1>2. InInv' /\ Permitted' /\ ReadSoFar'
  BY <1>1 DEF IInv, InInv, Permitted, Held, ReadSoFar
<1>3. Unread'
  BY <1>1, UnreadKept DEF IInv
<1> QED BY <1>2, <1>3

LEMMA OutSideKept ==
  ASSUME IInv, UNCHANGED outVars, area' = area
  PROVE  OutInv' /\ HostInv' /\ MarksInv' /\ AreaInv'
<1>1. /\ outbox' = outbox /\ flushLevel' = flushLevel /\ flushed' = flushed
      /\ out' = out /\ writer' = writer /\ written' = written /\ marks' = marks
  BY DEF outVars
<1>2. OutInv' /\ AreaInv' /\ MarksInv'
  BY <1>1 DEF IInv, OutInv, AreaInv, MarksInv, Acked
<1>3. HostInv'
  BY <1>1 DEF IInv, HostInv, Acked, Copying, Rest, HasMark
<1> QED BY <1>2, <1>3

(* When a host may write again, all of the last frame was acknowledged.    *)
LEMMA Settles ==
  ASSUME IInv, Acked = written
  PROVE  /\ out.sequence = written /\ out.released = written
         /\ inp.head = written /\ inp.sequence = written /\ inp.released = written
         /\ out.head = written + Size /\ ~Copying
         /\ pushed["in"] = taken["out"]
<1>1. TypeOK /\ Positions /\ Talk
  BY DEF IInv
<1> QED BY <1>1, Numbers, Consts DEF Positions, Talk, Acked, Copying

LEMMA InvWrite ==
  ASSUME IInv, Lockstep, NEW n \in 1 .. MaxFrame, Write(n)
  PROVE  IInv'
<1> DEFINE frame == Data([i \in 1 .. n |-> written + i - 1])
<1>1. /\ out.pc = "top" /\ writer = "open" /\ written + n <= MaxBytes
      /\ outbox' = Append(outbox, frame) /\ written' = written + n
      /\ writer' = "unflushed"
      /\ UNCHANGED <<shared, inVars, flushLevel, flushed, out, marks>>
  BY DEF Write, HostMayWrite, Lockstep
<1>2. /\ TypeOK /\ Positions /\ Talk /\ OutInv /\ HostInv /\ MarksInv /\ AreaInv
      /\ written \in Nat /\ n \in Nat \ {0} /\ n <= Size /\ MaxBytes \in Nat
  BY Numbers, Consts DEF IInv, Lockstep
<1>3. Acked = written /\ outbox = <<>> /\ out.flushes = 0 /\ out.outstanding = 0
  BY <1>1, <1>2, Settles DEF HostInv, HasMark
<1>4. /\ out.sequence = written /\ out.released = written
      /\ inp.head = written /\ inp.sequence = written /\ inp.released = written
      /\ out.head = written + Size
  BY <1>3, Settles
<1>5. frame \in Frame /\ frame.bytes = [i \in 1 .. n |-> written + i - 1]
  <2>1. \A i \in 1 .. n : written + i - 1 \in Byte
    BY <1>1, <1>2 DEF Byte
  <2>2. [i \in 1 .. n |-> written + i - 1] \in Seq(Byte \cup {-1})
    BY <1>2, <2>1
  <2> QED BY <2>2 DEF Frame, Data
<1> HIDE DEF frame
<1>6. outbox' \in Seq(Frame) /\ Len(outbox') = 1 /\ outbox'[1] = frame /\ outbox' # <<>>
  BY <1>1, <1>3, <1>5
<1>7. TypeOK'
  BY <1>1, <1>2, <1>6 DEF TypeOK, shared, inVars
<1>8. Positions'
  BY <1>1, <1>2, <1>3, <1>4 DEF Positions, Acked, inVars
<1>9. Talk'
  BY <1>1, <1>2 DEF Talk, Acked, shared, inVars
<1>10. OutInv'
  BY <1>1, <1>2 DEF OutInv
<1>11. HostInv'
  <2>1. Copying' /\ ~HasMark'
    BY <1>1, <1>2, <1>4 DEF Copying, HasMark
  <2>2. written' - out'.sequence = n /\ out'.sequence = written
    BY <1>1, <1>2, <1>4
  <2>3. Rest' = frame
    BY <2>2 DEF Rest, frame
  <2> QED BY <1>1, <1>2, <1>3, <1>6, <2>1, <2>3 DEF HostInv
<1>12. MarksInv' /\ AreaInv'
  BY <1>1, <1>2, <1>3 DEF MarksInv, AreaInv, Acked, shared, TypeOK
<1> QED BY <1>1, <1>7, <1>8, <1>9, <1>10, <1>11, <1>12, InSideKept DEF IInv

LEMMA InvFlush ==
  ASSUME IInv, Flush
  PROVE  IInv'
<1>1. /\ out.pc = "top" /\ writer \in {"open", "unflushed"} /\ flushLevel < MaxFlushes
      /\ flushLevel' = flushLevel + 1 /\ outbox' = Append(outbox, FlushMark)
      /\ marks' = Append(marks, written)
      /\ writer' = AtReady(flushLevel')
      /\ UNCHANGED <<shared, inVars, flushed, out, written>>
  BY DEF Flush, HostMayWrite
<1>2. /\ TypeOK /\ Positions /\ Talk /\ OutInv /\ HostInv /\ MarksInv /\ AreaInv
      /\ written \in Nat /\ flushLevel \in Nat /\ flushed \in Nat /\ MaxFlushes \in Nat
      /\ out.sequence \in Nat
  BY Numbers, Consts DEF IInv
<1>3. flushed = flushLevel /\ out.flushes = 0 /\ out.outstanding = 0 /\ ~HasMark
  BY <1>1, <1>2 DEF HostInv, HasMark
<1>4. writer' = "waiting"
  BY <1>1, <1>2, <1>3 DEF AtReady
<1>5. FlushMark \in Frame
  <2>1. <<>> \in Seq(Byte \cup {-1})
    OBVIOUS
  <2> QED BY <2>1 DEF FlushMark, Frame, Data
<1>6. /\ outbox \in Seq(Frame) /\ outbox' \in Seq(Frame)
      /\ Len(outbox') = Len(outbox) + 1 /\ outbox'[Len(outbox) + 1] = FlushMark
      /\ \A i \in 1 .. Len(outbox) : outbox'[i] = outbox[i]
      /\ outbox' # <<>>
  BY <1>1, <1>2, <1>5 DEF TypeOK
<1>7. /\ marks \in Seq(0 .. MaxBytes) /\ marks' \in Seq(0 .. MaxBytes)
      /\ Len(marks') = Len(marks) + 1 /\ marks'[Len(marks) + 1] = written
      /\ \A i \in 1 .. Len(marks) : marks'[i] = marks[i]
  BY <1>1, <1>2 DEF TypeOK
<1>8. TypeOK'
  BY <1>1, <1>2, <1>4, <1>6, <1>7 DEF TypeOK, shared, inVars
<1>9. Positions' /\ Talk'
  BY <1>1, <1>2 DEF Positions, Talk, Acked, shared, inVars
<1>10. OutInv' /\ AreaInv'
  BY <1>1, <1>2, <1>4 DEF OutInv, AreaInv, Acked, shared
<1>11. HostInv'
  <2>1. HasMark' /\ Copying' = Copying /\ Rest' = Rest
    BY <1>1, <1>3, <1>4 DEF HasMark, Copying, Rest
  <2>2. CASE Copying
    <3>1. Len(outbox) = 1 /\ outbox[1] = Rest
      BY <1>2, <1>3, <2>2 DEF HostInv
    <3>2. Len(outbox') = 2 /\ outbox'[1] = Rest /\ outbox'[2] = FlushMark
      BY <1>6, <3>1
    <3> QED BY <1>1, <1>3, <1>4, <1>6, <2>1, <2>2, <3>2 DEF HostInv
  <2>3. CASE ~Copying
    <3>1. outbox = <<>>
      BY <1>1, <1>2, <1>3, <2>3 DEF HostInv
    <3>2. Len(outbox') = 1 /\ outbox'[1] = FlushMark
      BY <1>6, <3>1
    <3> QED BY <1>1, <1>3, <1>4, <1>6, <2>1, <2>3, <3>2 DEF HostInv
  <2> QED BY <2>2, <2>3
<1>12. MarksInv'
  <2>1. Len(marks') = flushLevel' /\ Acked' = Acked /\ Len(marks) = flushLevel
    BY <1>1, <1>2, <1>7 DEF MarksInv, Acked
  <2>2. ASSUME NEW k \in 1 .. Len(marks')
        PROVE  marks'[k] <= written' /\ (k <= flushed' => marks'[k] <= Acked')
    <3>1. CASE k \in 1 .. Len(marks)
      BY <1>1, <1>2, <1>7, <2>1, <3>1 DEF MarksInv
    <3>2. CASE k = Len(marks) + 1
      BY <1>1, <1>2, <1>3, <1>7, <2>1, <3>2
    <3> QED BY <1>2, <2>1, <3>1, <3>2, <1>7
  <2> QED BY <2>1, <2>2 DEF MarksInv
<1> QED BY <1>1, <1>8, <1>9, <1>10, <1>11, <1>12, InSideKept DEF IInv

LEMMA InvClose ==
  ASSUME IInv, Close
  PROVE  IInv'
<1>1. /\ out.pc = "top" /\ writer = "open" /\ writer' = "closed"
      /\ outbox' = Append(outbox, Eof)
      /\ UNCHANGED <<shared, inVars, flushLevel, flushed, out, written, marks>>
  BY DEF Close, HostMayWrite
<1>2. /\ TypeOK /\ Positions /\ Talk /\ OutInv /\ HostInv /\ MarksInv /\ AreaInv
      /\ written \in Nat
  BY Numbers DEF IInv
<1>3. Acked = written /\ outbox = <<>> /\ out.flushes = 0 /\ out.outstanding = 0
  BY <1>1, <1>2, Settles DEF HostInv, HasMark
<1>4. ~Copying
  BY <1>3, Settles
<1>5. Eof \in Frame
  <2>1. <<>> \in Seq(Byte \cup {-1})
    OBVIOUS
  <2> QED BY <2>1 DEF Eof, Frame
<1>6. outbox' \in Seq(Frame) /\ outbox' = <<Eof>>
  BY <1>1, <1>3, <1>5
<1>7. TypeOK'
  BY <1>1, <1>2, <1>6 DEF TypeOK, shared, inVars
<1>8. Positions' /\ Talk'
  BY <1>1, <1>2 DEF Positions, Talk, Acked, shared, inVars
<1>9. OutInv' /\ AreaInv' /\ MarksInv'
  BY <1>1, <1>2 DEF OutInv, AreaInv, Acked, shared, MarksInv
<1>10. HostInv'
  <2>1. ~Copying' /\ ~HasMark' /\ Acked' = written'
    BY <1>1, <1>3, <1>4 DEF Copying, HasMark, Acked
  <2> QED BY <1>1, <1>3, <1>6, <2>1 DEF HostInv
<1> QED BY <1>1, <1>7, <1>8, <1>9, <1>10, InSideKept DEF IInv

(* The output task learns how far the remote has got.                      *)
LEMMA Acknowledged ==
  ASSUME IInv, OutTakes, out' \in OutTask,
         out'.head = Latest(HeardByOut), out'.sequence = out.sequence,
         out'.released = out.released, out'.sentEof = out.sentEof,
         UNCHANGED <<area, slots, pushed, inVars, written>>
  PROVE  /\ Positions' /\ Talk' /\ AreaInv'
         /\ Acked' = inp.released /\ Acked' \in Int /\ Acked <= Acked'
         /\ Acked = written => Acked' = written
         /\ taken' \in [End -> Nat]
<1>1. /\ TypeOK /\ Positions /\ Talk /\ AreaInv
      /\ taken' = [taken EXCEPT !["out"] = pushed["in"]]
      /\ inp' = inp /\ slots' = slots /\ pushed' = pushed /\ written' = written
      /\ area' = area
  BY DEF IInv, OutTakes, inVars
<1>2. taken'["out"] = pushed["in"] /\ taken'["in"] = taken["in"] /\ taken' \in [End -> Nat]
  BY <1>1 DEF TypeOK, End
<1>3. Acked' = inp.released
  <2>1. CASE pushed["in"] = taken["out"]
    BY <1>1, <2>1, OutHears, Numbers DEF Talk, Acked
  <2>2. CASE pushed["in"] # taken["out"]
    BY <1>1, <2>2, OutHears, Numbers, Consts DEF Acked
  <2> QED BY <2>1, <2>2
<1>4. Positions'
  BY <1>1, <1>3, Numbers, Consts DEF Positions
<1>5. Talk'
  <2>1. pushed'["in"] = taken'["out"]
    BY <1>1, <1>2
  <2>2. /\ slots'[taken'["in"] % Count] = slots[taken["in"] % Count]
        /\ out'.sentEof = out.sentEof /\ out'.released = out.released
    BY <1>1, <1>2
  <2> QED BY <1>1, <1>2, <1>3, <2>1, <2>2 DEF Talk
<1>6. Acked' \in Int /\ Acked <= Acked' /\ (Acked = written => Acked' = written)
  BY <1>1, <1>3, Numbers, Consts DEF Positions, Acked
<1>7. AreaInv'
  <2>1. Acked \in Int /\ Acked' \in Int /\ out.sequence \in Nat
    BY <1>1, <1>3, Numbers, Consts DEF Acked
  <2> QED BY <1>1, <1>6, <2>1 DEF AreaInv
<1> QED BY <1>2, <1>3, <1>4, <1>5, <1>6, <1>7

(* Acknowledgements only make more of the marks true.                      *)
LEMMA MarksKept ==
  ASSUME IInv, Acked' \in Int, Acked <= Acked',
         UNCHANGED <<marks, flushLevel, flushed, written>>
  PROVE  MarksInv'
<1>1. /\ MarksInv /\ TypeOK
      /\ marks' = marks /\ flushLevel' = flushLevel /\ flushed' = flushed
      /\ written' = written
  BY DEF IInv
<1>2. Acked \in Int /\ MaxBytes \in Nat
  BY <1>1, Numbers, Consts DEF Acked
<1>3. ASSUME NEW k \in 1 .. Len(marks')
      PROVE  marks'[k] <= written' /\ (k <= flushed' => marks'[k] <= Acked')
  <2>1. marks[k] \in Nat
    <3>1. marks[k] \in 0 .. MaxBytes
      BY <1>1, <1>3, Element DEF TypeOK
    <3> QED BY <1>2, <3>1
  <2>2. marks[k] <= written /\ (k <= flushed => marks[k] <= Acked)
    BY <1>1, <1>3 DEF MarksInv
  <2> QED BY <1>1, <1>2, <2>1, <2>2
<1>4. Len(marks') = flushLevel'
  BY <1>1 DEF MarksInv
<1> QED BY <1>3, <1>4 DEF MarksInv

LEMMA InvOutReap ==
  ASSUME IInv, OutReap
  PROVE  IInv'
<1>1. /\ OutTakes /\ out.pc = "top" /\ out.outstanding = 0
      /\ out' = [out EXCEPT !.pc = "fill", !.head = Latest(HeardByOut)]
      /\ UNCHANGED <<area, slots, pushed, inVars, outbox, flushLevel, flushed,
                     writer, written, marks>>
  BY DEF OutReap, OutTakes
<1>2. /\ TypeOK /\ Positions /\ Talk /\ OutInv /\ HostInv /\ MarksInv
      /\ out \in OutTask
  BY DEF IInv, TypeOK
<1>3. Latest(HeardByOut) \in Nat
  BY <1>2, OutHears, Numbers, Consts
<1>4. /\ out' \in OutTask /\ out'.pc = "fill" /\ out'.head = Latest(HeardByOut)
      /\ out'.sequence = out.sequence /\ out'.released = out.released
      /\ out'.flushes = out.flushes /\ out'.outstanding = out.outstanding
      /\ out'.pendingEof = out.pendingEof /\ out'.sentEof = out.sentEof
  BY <1>1, <1>2, <1>3 DEF OutTask
<1>5. /\ Positions' /\ Talk' /\ AreaInv' /\ taken' \in [End -> Nat]
      /\ Acked' \in Int /\ Acked <= Acked' /\ (Acked = written => Acked' = written)
  BY <1>1, <1>4, Acknowledged
<1>6. TypeOK'
  BY <1>1, <1>2, <1>4, <1>5 DEF TypeOK, inVars
<1>7. OutInv'
  BY <1>1, <1>2, <1>4 DEF OutInv
<1>8. HostInv'
  <2>1. Copying' = Copying /\ HasMark' = HasMark /\ Rest' = Rest
    BY <1>1, <1>4 DEF Copying, HasMark, Rest
  <2> QED BY <1>1, <1>2, <1>4, <1>5, <2>1 DEF HostInv
<1>9. MarksInv'
  BY <1>1, <1>5, MarksKept
<1> QED BY <1>1, <1>5, <1>6, <1>7, <1>8, <1>9, InSideKept DEF IInv

LEMMA InvOutReapFlushing ==
  ASSUME IInv, OutReapFlushing
  PROVE  IInv'
<1>1. /\ OutTakes /\ out.pc = "top" /\ out.outstanding # 0
      /\ out' = [out EXCEPT !.pc = "announce", !.head = Latest(HeardByOut)]
      /\ UNCHANGED <<area, slots, pushed, inVars, outbox, flushLevel, flushed,
                     writer, written, marks>>
  BY DEF OutReapFlushing, OutTakes
<1>2. /\ TypeOK /\ Positions /\ Talk /\ OutInv /\ HostInv /\ MarksInv
      /\ out \in OutTask
  BY DEF IInv, TypeOK
<1>3. Latest(HeardByOut) \in Nat
  BY <1>2, OutHears, Numbers, Consts
<1>4. /\ out' \in OutTask /\ out'.pc = "announce" /\ out'.head = Latest(HeardByOut)
      /\ out'.sequence = out.sequence /\ out'.released = out.released
      /\ out'.flushes = out.flushes /\ out'.outstanding = out.outstanding
      /\ out'.pendingEof = out.pendingEof /\ out'.sentEof = out.sentEof
  BY <1>1, <1>2, <1>3 DEF OutTask
<1>5. /\ Positions' /\ Talk' /\ AreaInv' /\ taken' \in [End -> Nat]
      /\ Acked' \in Int /\ Acked <= Acked' /\ (Acked = written => Acked' = written)
  BY <1>1, <1>4, Acknowledged
<1>6. TypeOK'
  BY <1>1, <1>2, <1>4, <1>5 DEF TypeOK, inVars
<1>7. OutInv'
  BY <1>1, <1>2, <1>4 DEF OutInv
<1>8. HostInv'
  <2>1. Copying' = Copying /\ HasMark' = HasMark /\ Rest' = Rest
    BY <1>1, <1>4 DEF Copying, HasMark, Rest
  <2> QED BY <1>1, <1>2, <1>4, <1>5, <2>1 DEF HostInv
<1>9. MarksInv'
  BY <1>1, <1>5, MarksKept
<1> QED BY <1>1, <1>5, <1>6, <1>7, <1>8, <1>9, InSideKept DEF IInv

LEMMA InvOutReapFlushed ==
  ASSUME IInv, OutReapFlushed
  PROVE  IInv'
<1>1. /\ OutTakes /\ out.pc = "top" /\ out.outstanding # 0
      /\ Settled(Latest(HeardByOut))
      /\ flushed' = Counted(flushed + out.outstanding)
      /\ writer' = IF writer = "waiting" /\ flushed' >= flushLevel
                   THEN "open" ELSE writer
      /\ out' = [out EXCEPT !.pc = "announce", !.head = Latest(HeardByOut),
                            !.outstanding = 0]
      /\ UNCHANGED <<area, slots, pushed, inVars, outbox, flushLevel, written, marks>>
  BY DEF OutReapFlushed, OutTakes
<1>2. /\ TypeOK /\ Positions /\ Talk /\ OutInv /\ HostInv /\ MarksInv
      /\ out \in OutTask
  BY DEF IInv, TypeOK
<1>3. Latest(HeardByOut) \in Nat
  BY <1>2, OutHears, Numbers, Consts
<1>4. /\ out' \in OutTask /\ out'.pc = "announce" /\ out'.head = Latest(HeardByOut)
      /\ out'.sequence = out.sequence /\ out'.released = out.released
      /\ out'.flushes = out.flushes /\ out'.outstanding = 0
      /\ out'.pendingEof = out.pendingEof /\ out'.sentEof = out.sentEof
  BY <1>1, <1>2, <1>3 DEF OutTask
<1>5. /\ Positions' /\ Talk' /\ AreaInv' /\ taken' \in [End -> Nat]
  BY <1>1, <1>4, Acknowledged
<1>6. /\ out.outstanding = 1 /\ out.flushes = 0 /\ out.released = out.sequence
      /\ ~Copying /\ ~HasMark /\ writer \in {"waiting", "closed"}
      /\ outbox = IF writer = "closed" THEN <<Eof>> ELSE <<>>
  <2>1. out.outstanding = 1 /\ out.flushes = 0 /\ out.released = out.sequence
    BY <1>1, <1>2, Numbers DEF OutInv
  <2>2. ~Copying /\ ~HasMark
    BY <1>1, <1>2 DEF HostInv, HasMark
  <2>3. writer \in {"waiting", "closed"}
    BY <1>1, <1>2 DEF HostInv, TypeOK
  <2> QED BY <1>2, <2>1, <2>2, <2>3 DEF HostInv
<1>7. Acked' = written /\ written' = written
  <2>1. Latest(HeardByOut) = out.released + Size
    BY <1>1 DEF Settled, Credit
  <2>2. Acked' = out.released
    BY <1>2, <1>4, <2>1, Numbers, Consts DEF Acked
  <2>3. out.sequence = written
    BY <1>2, <1>6, Numbers DEF Copying, Positions
  <2> QED BY <1>1, <1>6, <2>2, <2>3
<1>8. /\ flushed' \in 0 .. MaxFlushes
      /\ writer = "waiting" => flushed' = flushLevel
      /\ writer' = IF writer = "waiting" THEN "open" ELSE "closed"
  <2>1. flushed \in Nat /\ MaxFlushes \in Nat /\ flushLevel \in 0 .. MaxFlushes
    BY <1>2, Numbers, Consts DEF TypeOK
  <2>2. flushed' \in 0 .. MaxFlushes
    BY <1>1, <1>6, <2>1 DEF Counted, Least
  <2>3. writer = "waiting" => flushed' = flushLevel
    BY <1>1, <1>2, <1>6, <2>1 DEF Counted, Least, HostInv
  <2> QED BY <1>1, <1>6, <2>1, <2>2, <2>3
<1>9. TypeOK'
  BY <1>1, <1>2, <1>4, <1>5, <1>8 DEF TypeOK, inVars
<1>10. OutInv'
  BY <1>1, <1>2, <1>4, <1>6, <1>8 DEF OutInv
<1>11. HostInv'
  <2>1. ~Copying' /\ ~HasMark'
    BY <1>1, <1>4, <1>6, <1>8 DEF Copying, HasMark
  <2> QED BY <1>1, <1>4, <1>6, <1>7, <1>8, <2>1 DEF HostInv
<1>12. MarksInv'
  BY <1>1, <1>2, <1>7 DEF MarksInv
<1> QED BY <1>1, <1>5, <1>9, <1>10, <1>11, <1>12, InSideKept DEF IInv

-----------------------------------------------------------------------------
(* Within one turn of the area every position has a place of its own.      *)
LEMMA SamePlace ==
  ASSUME NEW a \in Nat, NEW b \in Nat, NEW c \in Nat \ {0},
         a <= b, b - a < c, a % c = b % c
  PROVE  a = b
<1> DEFINE i == a \div c  j == b \div c
<1>1. i \in Nat /\ j \in Nat /\ a = c * i + (a % c) /\ b = c * j + (b % c)
  OBVIOUS
<1> HIDE DEF i, j
<1>2. b - a = c * (j - i)
  BY <1>1
<1>3. CASE j - i >= 1
  <2>1. c * (j - i) >= c
    BY <1>1, <1>3
  <2> QED BY <1>2, <2>1
<1>4. CASE j - i <= 0
  <2>1. c * (j - i) <= 0
    BY <1>1, <1>4
  <2> QED BY <1>2, <2>1
<1> QED BY <1>1, <1>3, <1>4

LEMMA InvFillFrame ==
  ASSUME IInv, FillFrame
  PROVE  IInv'
<1> DEFINE frame == Head(outbox).bytes
           n == Least(Len(frame), out.head - out.sequence)
           At(i) == Place(out.sequence + i - 1)
           Last(a) == CHOOSE i \in 1 .. n : At(i) = a
<1>1. /\ out.pc = "fill" /\ outbox # <<>> /\ ~Head(outbox).eof /\ frame # <<>>
      /\ area' = [a \in Space |-> IF \E i \in 1 .. n : At(i) = a
                                  THEN frame[Last(a)] ELSE area[a]]
      /\ out' = [out EXCEPT !.sequence = @ + n]
      /\ outbox' = Tail(outbox)
      /\ UNCHANGED <<slots, pushed, taken, inVars, flushLevel, flushed, writer,
                     written, marks>>
  BY DEF FillFrame
<1>2. /\ TypeOK /\ Positions /\ Talk /\ OutInv /\ HostInv /\ MarksInv /\ AreaInv
      /\ out \in OutTask /\ outbox \in Seq(Frame)
      /\ written \in Nat /\ out.sequence \in Nat /\ out.head \in Nat /\ Size \in Nat \ {0}
  BY Numbers, Consts DEF IInv, TypeOK
<1>3. Head(outbox) = outbox[1] /\ writer # "closed" /\ Copying
  <2>1. Head(outbox) = outbox[1]
    BY <1>1, <1>2
  <2>2. writer # "closed"
    <3>1. writer = "closed" => Head(outbox) = Eof
      BY <1>2, <2>1 DEF HostInv
    <3> QED BY <1>1, <3>1 DEF Eof
  <2>3. Copying
    <3>1. ~Copying => outbox[1] = FlushMark
      BY <1>1, <1>2, <2>2 DEF HostInv
    <3> QED BY <1>1, <2>1, <3>1 DEF FlushMark, Data
  <2> QED BY <2>1, <2>2, <2>3
<1>4. /\ frame = [i \in 1 .. written - out.sequence |-> out.sequence + i - 1]
      /\ out.flushes = 0 /\ out.outstanding = 0
  <2>1. Head(outbox) = Rest /\ out.flushes = 0 /\ out.outstanding = 0
    BY <1>2, <1>3 DEF HostInv
  <2> QED BY <2>1 DEF Rest, Data
<1> HIDE DEF frame
<1>5. n = written - out.sequence /\ n \in Nat \ {0}
  <2>1. Len(frame) = written - out.sequence
    BY <1>2, <1>3, <1>4 DEF Copying
  <2>2. /\ written - out.sequence \in Nat \ {0}
        /\ written - out.sequence <= out.head - out.sequence
    BY <1>2, <1>3 DEF Positions, Acked, Copying
  <2>3. out.head - out.sequence \in Int
    BY <1>2
  <2> QED BY <2>1, <2>2, <2>3 DEF Least
<1> HIDE DEF n
<1>6. \A i \in 1 .. n : frame[i] = out.sequence + i - 1 /\ frame[i] \in Byte \cup {-1}
  <2>1. written <= MaxBytes /\ MaxBytes \in Nat
    BY <1>2, Consts DEF TypeOK
  <2> SUFFICES ASSUME NEW i \in 1 .. n
               PROVE  frame[i] = out.sequence + i - 1 /\ frame[i] \in Byte \cup {-1}
    OBVIOUS
  <2>2. i \in 1 .. written - out.sequence
    BY <1>5
  <2>3. frame[i] = out.sequence + i - 1
    BY <1>4, <2>2
  <2>4. /\ out.sequence + i - 1 \in Nat /\ out.sequence + i - 1 < MaxBytes
    BY <1>2, <2>1, <2>2
  <2> QED BY <2>1, <2>3, <2>4 DEF Byte
<1>7. /\ out' \in OutTask /\ out'.pc = "fill" /\ out'.sequence = written
      /\ out'.head = out.head /\ out'.released = out.released
      /\ out'.flushes = out.flushes /\ out'.outstanding = out.outstanding
      /\ out'.pendingEof = out.pendingEof /\ out'.sentEof = out.sentEof
  <2>1. out.sequence + n = written
    BY <1>2, <1>5
  <2>2. out' = [out EXCEPT !.sequence = written]
    BY <1>1, <2>1
  <2> QED BY <1>1, <1>2, <2>2 DEF OutTask
<1>8. /\ outbox' \in Seq(Frame) /\ Len(outbox') = Len(outbox) - 1
      /\ \A i \in 1 .. Len(outbox) - 1 : outbox'[i] = outbox[i + 1]
  BY <1>1, <1>2
<1>9. \A i, j \in 1 .. n : At(i) = At(j) => i = j
  <2>1. n <= Size
    BY <1>2, <1>5 DEF Positions, Acked
  <2>2. ASSUME NEW i \in 1 .. n, NEW j \in 1 .. n, i <= j, At(i) = At(j)
        PROVE  i = j
    <3> DEFINE a == out.sequence + i - 1  b == out.sequence + j - 1
    <3>0. i \in Nat \ {0} /\ j \in Nat \ {0} /\ j <= n /\ i <= j
      BY <1>5, <2>2
    <3>3. n \in Nat /\ out.sequence \in Nat /\ Size \in Nat
      BY <1>2, <1>5
    <3>1. a \in Nat /\ b \in Nat /\ a <= b /\ b - a < Size
      BY <2>1, <3>0, <3>3
    <3>2. a % Size = b % Size
      BY <2>2 DEF Place
    <3> HIDE DEF a, b
    <3>4. a = b
      BY <1>2, <3>1, <3>2, SamePlace
    <3> QED BY <3>0, <3>3, <3>4 DEF a, b
  <2> QED BY <1>5, <2>2
<1>10. \A i \in 1 .. n : At(i) \in Space /\ area'[At(i)] = out.sequence + i - 1
  <2> TAKE i \in 1 .. n
  <2>1. At(i) \in Space
    <3>1. out.sequence + i - 1 \in Nat
      BY <1>2, <1>5
    <3> QED BY <1>2, <3>1, ModRange DEF Place, Space
  <2>2. Last(At(i)) \in 1 .. n /\ At(Last(At(i))) = At(i)
    OBVIOUS
  <2>3. Last(At(i)) = i
    BY <1>9, <2>2
  <2>4. area'[At(i)] = frame[Last(At(i))]
    BY <1>1, <2>1
  <2> QED BY <1>6, <2>1, <2>3, <2>4
<1>11. area' \in [Space -> Byte \cup {-1}]
  <2>1. ASSUME NEW a \in Space, \E i \in 1 .. n : At(i) = a
        PROVE  frame[Last(a)] \in Byte \cup {-1}
    <3>1. Last(a) \in 1 .. n
      BY <2>1
    <3> QED BY <1>6, <3>1
  <2>2. area \in [Space -> Byte \cup {-1}]
    BY <1>2 DEF TypeOK
  <2> QED BY <1>1, <2>1, <2>2
<1>12. TypeOK'
  BY <1>1, <1>2, <1>7, <1>8, <1>11 DEF TypeOK, inVars
<1>13. Positions' /\ Talk' /\ OutInv' /\ MarksInv'
  <2>1. Acked' = Acked /\ inp' = inp
    BY <1>1, <1>7 DEF Acked, inVars
  <2>2. Positions'
    BY <1>1, <1>2, <1>7, <2>1 DEF Positions
  <2>3. Talk'
    BY <1>1, <1>2, <1>7, <2>1 DEF Talk
  <2>4. OutInv'
    BY <1>1, <1>2, <1>7 DEF OutInv
  <2>5. MarksInv'
    BY <1>1, <1>2, <2>1 DEF MarksInv
  <2> QED BY <2>2, <2>3, <2>4, <2>5
<1>14. HostInv'
  <2>1. ~Copying' /\ HasMark' = HasMark /\ Acked' = Acked
    BY <1>1, <1>2, <1>7 DEF Copying, HasMark, Acked
  <2>2. CASE HasMark
    <3>1. Len(outbox') = 1 /\ outbox'[1] = FlushMark
      BY <1>2, <1>3, <1>8, <2>2 DEF HostInv
    <3> QED BY <1>1, <1>2, <1>3, <1>4, <1>7, <2>1, <2>2, <3>1 DEF HostInv
  <2>3. CASE ~HasMark
    <3>1. outbox' = <<>>
      BY <1>2, <1>3, <1>8, <2>3 DEF HostInv
    <3> QED BY <1>1, <1>2, <1>3, <1>4, <1>7, <2>1, <2>3, <3>1 DEF HostInv
  <2> QED BY <2>2, <2>3
<1>15. AreaInv'
  <2> SUFFICES ASSUME NEW p \in Acked .. written - 1
               PROVE  area'[p % Size] = p
    BY <1>1, <1>7 DEF AreaInv, Acked
  <2>4. p \in Nat
    BY <1>2 DEF Positions, Acked
  <2>1. p \in Nat /\ p % Size \in Space
    BY <1>2, <2>4, ModRange DEF Space
  <2>2. CASE p < out.sequence
    <3>0. p \in Acked .. out.sequence - 1
      <4>1. Acked \in Int /\ Acked <= p
        BY <1>2 DEF Acked
      <4> QED BY <1>2, <2>1, <2>2, <4>1
    <3>1. area[p % Size] = p
      BY <1>2, <3>0 DEF AreaInv
    <3>2. ASSUME NEW i \in 1 .. n, At(i) = p % Size
          PROVE  FALSE
      <4> DEFINE b == out.sequence + i - 1
      <4>0. i \in 1 .. written - out.sequence
        BY <1>5
      <4>1. Acked \in Int /\ Acked <= p /\ written - Acked <= Size
        BY <1>2, <2>1 DEF Positions, Acked
      <4>2. i \in Nat /\ b \in Nat /\ b < written /\ p < b
        BY <1>2, <2>1, <2>2, <4>0
      <4>3. b - p < Size
        BY <1>2, <2>1, <4>1, <4>2
      <4>4. p % Size = b % Size
        BY <3>2 DEF Place
      <4> HIDE DEF b
      <4>5. p \in Nat /\ p <= b /\ Size \in Nat \ {0}
        BY <1>2, <2>1, <4>2
      <4>6. p = b
        BY <4>2, <4>3, <4>4, <4>5, SamePlace
      <4> QED BY <2>1, <4>2, <4>6
    <3> QED BY <1>1, <2>1, <3>1, <3>2
  <2>3. CASE ~(p < out.sequence)
    <3> DEFINE i == p - out.sequence + 1
    <3>1. i \in 1 .. n /\ out.sequence + i - 1 = p
      BY <1>2, <1>5, <2>1, <2>3
    <3>2. At(i) = p % Size
      BY <3>1 DEF Place
    <3> QED BY <1>10, <3>1, <3>2
  <2> QED BY <2>2, <2>3
<1> QED BY <1>1, <1>12, <1>13, <1>14, <1>15, InSideKept DEF IInv


LEMMA InvFillMark ==
  ASSUME IInv, FillMark
  PROVE  IInv'
<1>1. /\ out.pc = "fill" /\ outbox # <<>> /\ Head(outbox) = FlushMark
      /\ out' = [out EXCEPT !.flushes = @ + 1] /\ outbox' = Tail(outbox)
      /\ UNCHANGED <<shared, inVars, flushLevel, flushed, writer, written, marks>>
  BY DEF FillMark
<1>2. /\ TypeOK /\ Positions /\ Talk /\ OutInv /\ HostInv /\ MarksInv /\ AreaInv
      /\ out \in OutTask /\ outbox \in Seq(Frame)
      /\ written \in Nat /\ out.sequence \in Nat
  BY Numbers DEF IInv, TypeOK
<1>3. Head(outbox) = outbox[1] /\ outbox[1] = FlushMark
  BY <1>1, <1>2
<1>4. ~Copying /\ writer # "closed" /\ HasMark /\ Len(outbox) = 1
  <2>1. ~Copying
    <3>1. ASSUME Copying PROVE FALSE
      <4>1. Rest = FlushMark
        BY <1>2, <1>3, <3>1 DEF HostInv
      <4>2. Rest.bytes = <<>> /\ Len(Rest.bytes) = written - out.sequence
        BY <1>2, <3>1, <4>1 DEF FlushMark, Rest, Data, Copying
      <4> QED BY <1>2, <3>1, <4>2 DEF Copying
    <3> QED BY <3>1
  <2>2. writer # "closed"
    <3>1. writer = "closed" => outbox[1] = Eof
      BY <1>2 DEF HostInv
    <3> QED BY <1>3, <3>1 DEF Eof, FlushMark, Data
  <2> QED BY <1>1, <1>2, <2>1, <2>2 DEF HostInv
<1>5. out.flushes = 0 /\ out.outstanding = 0 /\ writer = "waiting"
  BY <1>4 DEF HasMark
<1>6. /\ out' \in OutTask /\ out'.pc = "fill" /\ out'.sequence = out.sequence
      /\ out'.head = out.head /\ out'.released = out.released
      /\ out'.flushes = 1 /\ out'.outstanding = 0
      /\ out'.pendingEof = out.pendingEof /\ out'.sentEof = out.sentEof
  BY <1>1, <1>2, <1>5 DEF OutTask
<1>7. outbox' \in Seq(Frame) /\ outbox' = <<>>
  BY <1>1, <1>2, <1>4
<1>8. TypeOK'
  BY <1>1, <1>2, <1>6, <1>7 DEF TypeOK, shared, inVars
<1>9. Positions' /\ Talk' /\ OutInv' /\ MarksInv' /\ AreaInv'
  <2>1. Acked' = Acked /\ inp' = inp
    BY <1>1, <1>6 DEF Acked, inVars
  <2>2. Positions' /\ AreaInv' /\ MarksInv'
    BY <1>1, <1>2, <1>6, <2>1 DEF Positions, AreaInv, MarksInv, shared
  <2>3. Talk'
    BY <1>1, <1>2, <1>6, <2>1 DEF Talk, shared
  <2>4. OutInv'
    BY <1>1, <1>2, <1>6 DEF OutInv
  <2> QED BY <2>2, <2>3, <2>4
<1>10. HostInv'
  <2>1. ~Copying' /\ ~HasMark' /\ Acked' = Acked
    BY <1>1, <1>4, <1>6 DEF Copying, HasMark, Acked
  <2> QED BY <1>1, <1>2, <1>5, <1>6, <1>7, <2>1 DEF HostInv
<1> QED BY <1>1, <1>8, <1>9, <1>10, InSideKept DEF IInv

LEMMA InvFillEnds ==
  ASSUME IInv, FillEnds
  PROVE  IInv'
<1> DEFINE atEof == outbox # <<>> /\ Head(outbox).eof
           more == IF atEof THEN 1 ELSE 0
           pending == out.pendingEof \/ atEof
<1>1. /\ out.pc = "fill" /\ (outbox = <<>> \/ atEof)
      /\ out' = [out EXCEPT
           !.pc = "announce", !.flushes = 0,
           !.outstanding = out.flushes + more,
           !.pendingEof = pending]
      /\ UNCHANGED <<shared, inVars, outbox, flushLevel, flushed, writer,
                     written, marks>>
  BY DEF FillEnds
<1>2. /\ TypeOK /\ Positions /\ Talk /\ OutInv /\ HostInv /\ MarksInv /\ AreaInv
      /\ out \in OutTask /\ outbox \in Seq(Frame)
      /\ written \in Nat /\ out.sequence \in Nat /\ out.flushes \in Nat
  BY Numbers DEF IInv, TypeOK
<1>3. atEof <=> writer = "closed"
  <2>1. CASE writer = "closed"
    <3>1. outbox = <<Eof>>
      BY <1>2, <2>1 DEF HostInv
    <3>2. outbox # <<>> /\ Head(outbox) = Eof
      BY <3>1
    <3> QED BY <2>1, <3>2 DEF Eof
  <2>2. CASE writer # "closed"
    <3>1. outbox # <<>> => Head(outbox) = outbox[1]
      BY <1>2
    <3>2. outbox # <<>> => outbox[1] = Rest \/ outbox[1] = FlushMark
      BY <1>2, <2>2 DEF HostInv
    <3>3. ~Rest.eof /\ ~FlushMark.eof
      BY DEF Rest, FlushMark, Data
    <3> QED BY <2>2, <3>1, <3>2, <3>3
  <2> QED BY <2>1, <2>2
<1>4. ~Copying /\ ~HasMark
  <2>1. CASE writer = "closed"
    <3>1. Acked = written
      BY <1>2, <2>1 DEF HostInv
    <3> QED BY <2>1, <3>1, Settles DEF HasMark
  <2>2. CASE outbox = <<>>
    BY <1>2, <2>2 DEF HostInv
  <2> QED BY <1>1, <1>3, <2>1, <2>2
<1>5. /\ out.outstanding = 0
      /\ writer = "closed" => out.flushes = 0
      /\ out.flushes + more \in 0 .. 1
      /\ writer = "closed" => more = 1
      /\ writer # "closed" => more = 0
  BY <1>1, <1>2, <1>3 DEF OutInv, HostInv
<1>6. pending \in BOOLEAN /\ (pending <=> writer = "closed")
  BY <1>2, <1>3 DEF OutTask, OutInv
<1> HIDE DEF atEof, more, pending
<1>7. /\ out' \in OutTask /\ out'.pc = "announce" /\ out'.sequence = out.sequence
      /\ out'.head = out.head /\ out'.released = out.released
      /\ out'.flushes = 0 /\ out'.sentEof = out.sentEof
      /\ out'.outstanding = out.flushes + more
      /\ out'.pendingEof = pending
  <2>1. out.flushes + more \in Nat /\ pending \in BOOLEAN
    BY <1>5, <1>6
  <2> QED BY <1>1, <1>2, <2>1 DEF OutTask
<1>8. TypeOK'
  BY <1>1, <1>2, <1>7 DEF TypeOK, shared, inVars
<1>9. Positions' /\ Talk' /\ OutInv' /\ MarksInv' /\ AreaInv'
  <2>1. Acked' = Acked /\ inp' = inp
    BY <1>1, <1>7 DEF Acked, inVars
  <2>2. Positions' /\ AreaInv' /\ MarksInv'
    BY <1>1, <1>2, <1>7, <2>1 DEF Positions, AreaInv, MarksInv, shared
  <2>3. Talk'
    BY <1>1, <1>2, <1>7, <2>1 DEF Talk, shared
  <2>4. OutInv'
    BY <1>1, <1>2, <1>5, <1>6, <1>7 DEF OutInv
  <2> QED BY <2>2, <2>3, <2>4
<1>10. HostInv'
  <2>1. ~Copying' /\ Acked' = Acked
    BY <1>1, <1>4, <1>7 DEF Copying, Acked
  <2>2. ~HasMark'
    BY <1>1, <1>2, <1>3, <1>4, <1>5, <1>7 DEF HasMark
  <2> QED BY <1>1, <1>2, <1>4, <1>5, <1>7, <2>1, <2>2 DEF HostInv
<1> QED BY <1>1, <1>8, <1>9, <1>10, InSideKept DEF IInv


(* A position is sent when nothing else is on the way, of either end.      *)
LEMMA QuietToAnnounce ==
  ASSUME IInv, News \/ EndIsNews
  PROVE  /\ pushed["out"] = taken["in"] /\ pushed["in"] = taken["out"]
         /\ HasRoom("out") /\ ~out.sentEof
         /\ News => inp.head < out.sequence /\ ~EndIsNews
         /\ EndIsNews => inp.head = out.sequence
<1>1. /\ TypeOK /\ Positions /\ Talk /\ OutInv /\ HostInv
      /\ out.sentEof \in BOOLEAN /\ out.pendingEof \in BOOLEAN
  BY DEF IInv, TypeOK, OutTask
<1>2. out.pendingEof => Acked = written
  BY <1>1 DEF OutInv, HostInv
<1>3. CASE News
  <2>1. /\ out.released = Acked /\ out.sequence = written /\ Acked < written
        /\ inp.head = Acked /\ inp.released = Acked
    BY <1>1, <1>3, Numbers, Consts DEF Positions, News, Acked
  <2>2. ~out.sentEof
    BY <1>1, <1>2, <2>1, Numbers, Consts DEF OutInv, Acked
  <2>3. pushed["out"] = taken["in"] /\ pushed["in"] = taken["out"]
    BY <1>1, <2>1, <2>2, Numbers, Consts DEF Talk, Acked
  <2> QED BY <1>1, <1>3, <2>1, <2>2, <2>3, Numbers, Consts
          DEF HasRoom, Other, EndIsNews
<1>4. CASE EndIsNews
  <2>1. out.pendingEof /\ ~out.sentEof /\ ~News
    BY <1>1, <1>4 DEF EndIsNews, OutInv
  <2>2. /\ out.released = written /\ out.sequence = written
        /\ inp.head = written /\ pushed["in"] = taken["out"]
    BY <1>2, <2>1, Settles
  <2>3. pushed["out"] = taken["in"]
    BY <1>1, <2>1, <2>2, Numbers DEF Talk
  <2>4. HasRoom("out")
    BY <1>1, <2>3, Numbers, Consts DEF HasRoom, Other
  <2> QED BY <1>4, <2>1, <2>2, <2>3, <2>4
<1> QED BY <1>3, <1>4

LEMMA Sent ==
  ASSUME TypeOK, NEW e \in End, NEW message \in Nat, Send(e, message)
  PROVE  /\ pushed' \in [End -> Nat] /\ slots' \in [0 .. Count - 1 -> Nat]
         /\ pushed'[e] = pushed[e] + 1 /\ pushed'[Other(e)] = pushed[Other(e)]
         /\ slots'[pushed[e] % Count] = message
<1>1. /\ slots \in [0 .. Count - 1 -> Nat] /\ pushed \in [End -> Nat]
      /\ slots' = [slots EXCEPT ![pushed[e] % Count] = message]
      /\ pushed' = [pushed EXCEPT ![e] = pushed[e] + 1]
  BY DEF TypeOK, Send
<1>2. pushed[e] \in Nat /\ pushed[e] % Count \in 0 .. Count - 1
  BY <1>1, Consts, ModRange
<1>3. Other(e) \in End /\ Other(e) # e
  BY DEF End, Other
<1>4. slots' \in [0 .. Count - 1 -> Nat] /\ slots'[pushed[e] % Count] = message
  BY <1>1, <1>2
<1>5. /\ pushed' \in [End -> Nat]
      /\ pushed'[e] = pushed[e] + 1 /\ pushed'[Other(e)] = pushed[Other(e)]
  BY <1>1, <1>2, <1>3
<1> QED BY <1>4, <1>5

LEMMA InvOutAnnounce ==
  ASSUME IInv, OutAnnounce
  PROVE  IInv'
<1> DEFINE sent == out.sentEof \/ EndIsNews
<1>1. /\ out.pc = "announce" /\ (News \/ EndIsNews)
      /\ slots' = [slots EXCEPT ![pushed["out"] % Count] = out.sequence]
      /\ pushed' = [pushed EXCEPT !["out"] = @ + 1]
      /\ out' = [out EXCEPT !.pc = "top", !.released = out.sequence,
                            !.sentEof = sent]
      /\ UNCHANGED <<area, taken, inVars, outbox, flushLevel, flushed, writer,
                     written, marks>>
  BY DEF OutAnnounce, Send
<1>2. /\ TypeOK /\ Positions /\ Talk /\ OutInv /\ HostInv /\ MarksInv /\ AreaInv
      /\ out \in OutTask /\ Count \in Nat \ {0}
  BY Consts DEF IInv, TypeOK
<1>3. /\ pushed["out"] = taken["in"] /\ pushed["in"] = taken["out"] /\ ~out.sentEof
      /\ News => inp.head < out.sequence /\ ~EndIsNews
      /\ EndIsNews => inp.head = out.sequence
  BY <1>1, QuietToAnnounce
<1>4. sent \in BOOLEAN /\ (sent <=> EndIsNews)
  BY <1>2, <1>3 DEF EndIsNews
<1>5. EndIsNews => out.pendingEof
  BY <1>2, <1>3 DEF EndIsNews, OutTask
<1> HIDE DEF sent
<1>6. /\ out' \in OutTask /\ out'.pc = "top" /\ out'.sequence = out.sequence
      /\ out'.head = out.head /\ out'.released = out.sequence
      /\ out'.flushes = out.flushes /\ out'.outstanding = out.outstanding
      /\ out'.pendingEof = out.pendingEof /\ out'.sentEof = sent
  <2>1. /\ out.sequence \in Nat /\ out \in OutTask /\ sent \in BOOLEAN
        /\ out' = [out EXCEPT !.pc = "top", !.released = out.sequence, !.sentEof = sent]
    BY <1>1, <1>2, <1>4, Numbers
  <2> QED BY <2>1 DEF OutTask
<1>7. /\ pushed' \in [End -> Nat] /\ slots' \in [0 .. Count - 1 -> Nat]
      /\ pushed'["out"] = taken["in"] + 1 /\ pushed'["in"] = pushed["in"]
      /\ slots'[taken["in"] % Count] = out.sequence
  <2>1. Send("out", out.sequence) /\ "out" \in End /\ Other("out") = "in"
    BY <1>1 DEF Send, End, Other
  <2>2. /\ pushed["out"] = taken["in"] /\ out.sequence \in Nat /\ TypeOK
    BY <1>2, <1>3, Numbers
  <2>3. /\ pushed' \in [End -> Nat] /\ slots' \in [0 .. Count - 1 -> Nat]
        /\ pushed'["out"] = pushed["out"] + 1 /\ pushed'["in"] = pushed["in"]
        /\ slots'[pushed["out"] % Count] = out.sequence
    BY <2>1, <2>2, Sent
  <2> QED BY <2>2, <2>3
<1>8. TypeOK'
  BY <1>1, <1>2, <1>6, <1>7 DEF TypeOK, inVars
<1>9. Acked' = Acked /\ inp' = inp
  BY <1>1, <1>6 DEF Acked, inVars
<1>10. Positions'
  BY <1>1, <1>2, <1>6, <1>9, Numbers, Consts DEF Positions, Acked
<1>11. Talk'
  <2>1. pushed'["out"] # taken'["in"] /\ pushed'["in"] = taken'["out"] /\ taken' = taken
    BY <1>1, <1>2, <1>3, <1>7, Numbers
  <2>2. ~inp'.eof /\ inp'.released = Acked'
    BY <1>2, <1>3, <1>9 DEF Talk
  <2>3. /\ out'.sentEof => inp'.head = out'.released
        /\ ~out'.sentEof => inp'.head < out'.released
    BY <1>1, <1>3, <1>4, <1>6, <1>9
  <2>4. slots'[taken'["in"] % Count] = out'.released
    BY <1>6, <1>7, <2>1
  <2> QED BY <1>7, <2>1, <2>2, <2>3, <2>4 DEF Talk
<1>12. OutInv' /\ AreaInv' /\ MarksInv'
  BY <1>1, <1>2, <1>3, <1>4, <1>5, <1>6, <1>9 DEF OutInv, AreaInv, MarksInv
<1>13. HostInv'
  <2>1. Copying' = Copying /\ HasMark' = HasMark /\ Rest' = Rest
    BY <1>1, <1>6 DEF Copying, HasMark, Rest
  <2> QED BY <1>1, <1>2, <1>6, <1>9, <2>1 DEF HostInv
<1> QED BY <1>1, <1>8, <1>10, <1>11, <1>12, <1>13, InSideKept DEF IInv

LEMMA InvOutAnnounceNothing ==
  ASSUME IInv, OutAnnounceNothing
  PROVE  IInv'
<1>1. /\ out.pc = "announce" /\ ~((News \/ EndIsNews) /\ HasRoom("out"))
      /\ out' = [out EXCEPT !.pc = "top"]
      /\ UNCHANGED <<shared, inVars, outbox, flushLevel, flushed, writer, written,
                     marks>>
  BY DEF OutAnnounceNothing
<1>2. /\ TypeOK /\ Positions /\ Talk /\ OutInv /\ HostInv /\ MarksInv /\ AreaInv
      /\ out \in OutTask
  BY DEF IInv, TypeOK
<1>3. out.released = out.sequence
  BY <1>1, QuietToAnnounce DEF News
<1>4. /\ out' \in OutTask /\ out'.pc = "top" /\ out'.sequence = out.sequence
      /\ out'.head = out.head /\ out'.released = out.released
      /\ out'.flushes = out.flushes /\ out'.outstanding = out.outstanding
      /\ out'.pendingEof = out.pendingEof /\ out'.sentEof = out.sentEof
  BY <1>1, <1>2 DEF OutTask
<1>5. TypeOK'
  BY <1>1, <1>2, <1>4 DEF TypeOK, shared, inVars
<1>6. Acked' = Acked /\ inp' = inp
  BY <1>1, <1>4 DEF Acked, inVars
<1>7. Positions' /\ AreaInv' /\ MarksInv'
  BY <1>1, <1>2, <1>4, <1>6 DEF Positions, AreaInv, MarksInv, shared
<1>8. Talk'
  BY <1>1, <1>2, <1>4, <1>6 DEF Talk, shared
<1>9. OutInv'
  BY <1>1, <1>2, <1>3, <1>4 DEF OutInv
<1>10. HostInv'
  <2>1. Copying' = Copying /\ HasMark' = HasMark /\ Rest' = Rest
    BY <1>1, <1>4 DEF Copying, HasMark, Rest
  <2> QED BY <1>1, <1>2, <1>4, <1>6, <2>1 DEF HostInv
<1> QED BY <1>1, <1>5, <1>7, <1>8, <1>9, <1>10, InSideKept DEF IInv


-----------------------------------------------------------------------------
(* The input task.                                                         *)

(* Once the input task has heard of the end, nothing is on the way.        *)
LEMMA EofSettles ==
  ASSUME IInv, inp.eof
  PROVE  /\ writer = "closed" /\ Acked = written
         /\ inp.head = written /\ inp.sequence = written
<1>1. Talk /\ OutInv /\ HostInv
  BY DEF IInv
<1>2. writer = "closed" /\ Acked = written
  BY <1>1 DEF Talk, OutInv, HostInv
<1> QED BY <1>2, Settles

LEMMA InvInReap ==
  ASSUME IInv, InReap
  PROVE  IInv'
<1> DEFINE eof == inp.eof \/ Repeats(HeardByIn)
<1>1. /\ inp.pc = "top" /\ permits > 0 /\ permits' = permits - 1
      /\ taken' = [taken EXCEPT !["in"] = pushed["out"]]
      /\ inp' = [inp EXCEPT !.pc = "consume", !.head = Latest(HeardByIn), !.eof = eof]
      /\ UNCHANGED <<area, slots, pushed, outVars, inbox, reader, received>>
  BY DEF InReap
<1>2. /\ TypeOK /\ Positions /\ Talk /\ InInv /\ Permitted /\ Unread /\ ReadSoFar
      /\ inp \in InTask /\ inp.eof \in BOOLEAN /\ out.sentEof \in BOOLEAN
      /\ permits \in Nat /\ permits <= Permits /\ Permits \in Nat
  <2>1. TypeOK /\ Positions /\ Talk /\ InInv /\ Permitted /\ Unread /\ ReadSoFar
    BY DEF IInv
  <2>2. inp \in InTask /\ out \in OutTask /\ permits \in 0 .. Permits
    BY <2>1 DEF TypeOK
  <2>3. inp.eof \in BOOLEAN /\ out.sentEof \in BOOLEAN
    BY <2>2 DEF InTask, OutTask
  <2> QED BY <2>1, <2>2, <2>3, Consts
<1>3. Latest(HeardByIn) = out.released /\ out.released \in Nat
  BY <1>2, InHears, Numbers
<1>4. eof \in BOOLEAN /\ (eof <=> out.sentEof) /\ (inp.eof => eof)
  <2>1. Repeats(HeardByIn) <=> pushed["out"] # taken["in"] /\ out.sentEof
    BY <1>2, InHears
  <2> QED BY <1>2, <2>1 DEF Talk
<1> HIDE DEF eof
<1>5. /\ inp' \in InTask /\ inp'.pc = "consume" /\ inp'.head = out.released
      /\ inp'.sequence = inp.sequence /\ inp'.released = inp.released
      /\ inp'.eof = eof /\ inp'.forgot = inp.forgot
  BY <1>1, <1>2, <1>3, <1>4 DEF InTask
<1>6. /\ taken' \in [End -> Nat]
      /\ taken'["in"] = pushed["out"] /\ taken'["out"] = taken["out"]
  <2>1. /\ taken \in [End -> Nat] /\ pushed["out"] \in Nat
        /\ taken' = [taken EXCEPT !["in"] = pushed["out"]]
    BY <1>1, <1>2, Numbers DEF TypeOK
  <2>2. "in" \in End /\ "out" \in End
    BY DEF End
  <2>3. taken' \in [End -> Nat]
    BY <2>1, <2>2
  <2> QED BY <2>1, <2>2, <2>3
<1>7. out' = out /\ written' = written /\ writer' = writer /\ Acked' = Acked
  BY <1>1 DEF outVars, Acked
<1>8. TypeOK'
  <2>1. permits' \in 0 .. Permits
    BY <1>1, <1>2
  <2>2. TypeOK /\ UNCHANGED outVars
    BY <1>1, <1>2
  <2> QED BY <1>1, <1>5, <1>6, <2>1, <2>2 DEF TypeOK, outVars
<1>9. Positions'
  BY <1>2, <1>5, <1>7, Numbers DEF Positions
<1>10. Talk'
  BY <1>1, <1>2, <1>4, <1>5, <1>6, <1>7 DEF Talk
<1>11. InInv' /\ Permitted' /\ ReadSoFar'
  <2>1. ~inp.forgot
    BY <1>1, <1>2 DEF InInv
  <2>2. InInv' /\ ReadSoFar'
    BY <1>1, <1>2, <1>5, <2>1 DEF InInv, ReadSoFar
  <2>3. Len(inbox) \in Nat
    BY <1>2 DEF TypeOK
  <2>4. Permitted'
    BY <1>1, <1>2, <1>5, <2>1, <2>3 DEF Permitted, Held
  <2> QED BY <2>2, <2>4
<1>12. Unread'
  BY <1>1, <1>2, <1>4, <1>5, UnreadKept
<1> QED BY <1>1, <1>8, <1>9, <1>10, <1>11, <1>12, OutSideKept DEF IInv

LEMMA InvInAck ==
  ASSUME IInv, InAck
  PROVE  IInv'
<1>1. /\ inp.pc = "ack" /\ inp.sequence # inp.released
      /\ Send("in", inp.sequence)
      /\ inp' = [inp EXCEPT !.pc = "wait", !.released = inp.sequence]
      /\ UNCHANGED <<area, taken, outVars, inbox, permits, reader, received>>
  BY DEF InAck
<1>2. /\ TypeOK /\ Positions /\ Talk /\ OutInv /\ HostInv /\ InInv
      /\ Permitted /\ Unread /\ ReadSoFar /\ inp \in InTask
  BY DEF IInv, TypeOK
<1>3. /\ inp' \in InTask /\ inp'.pc = "wait" /\ inp'.released = inp.sequence
      /\ inp'.sequence = inp.sequence /\ inp'.head = inp.head
      /\ inp'.eof = inp.eof /\ inp'.forgot = inp.forgot
  BY <1>1, <1>2, Numbers DEF InTask
<1>4. /\ inp.released = Acked /\ inp.sequence = written /\ Acked < written
      /\ inp.head = written /\ out.released = written
  BY <1>1, <1>2, Numbers, Consts DEF Positions, Acked
<1>5. pushed["in"] = taken["out"] /\ pushed["out"] = taken["in"]
  <2>1. out.sentEof => Acked = written
    BY <1>2 DEF OutInv, HostInv
  <2>2. ~out.sentEof
    BY <1>2, <1>4, <2>1, Numbers, Consts DEF Acked
  <2> QED BY <1>2, <1>4, <2>2, Numbers, Consts DEF Talk, Acked
<1>6. /\ pushed' \in [End -> Nat] /\ slots' \in [0 .. Count - 1 -> Nat]
      /\ pushed'["in"] = taken["out"] + 1 /\ pushed'["out"] = pushed["out"]
      /\ slots'[taken["out"] % Count] = inp.sequence
  <2>1. "in" \in End /\ Other("in") = "out"
    BY DEF End, Other
  <2> QED BY <1>1, <1>2, <1>5, <2>1, Numbers, Sent
<1>7. out' = out /\ written' = written /\ Acked' = Acked /\ taken' = taken
  BY <1>1 DEF outVars, Acked
<1>8. TypeOK'
  BY <1>1, <1>2, <1>3, <1>6 DEF TypeOK, outVars
<1>9. Positions'
  BY <1>2, <1>3, <1>4, <1>7, Numbers DEF Positions
<1>10. Talk'
  <2>1. /\ pushed'["out"] = taken'["in"] /\ pushed'["in"] = taken'["out"] + 1
        /\ pushed'["in"] # taken'["out"]
    BY <1>2, <1>5, <1>6, <1>7, Numbers
  <2>2. slots'[taken'["out"] % Count] = inp'.released /\ Acked' < inp'.released
    BY <1>3, <1>4, <1>6, <1>7
  <2>3. /\ inp'.head = out'.released /\ (out'.sentEof => inp'.eof)
        /\ inp'.eof => out'.sentEof
    BY <1>2, <1>3, <1>5, <1>7 DEF Talk
  <2> QED BY <2>1, <2>2, <2>3 DEF Talk
<1>11. InInv' /\ Permitted' /\ ReadSoFar' /\ Unread'
  <2>1. InInv' /\ ReadSoFar'
    BY <1>1, <1>2, <1>3 DEF InInv, ReadSoFar
  <2>2. Permitted'
    BY <1>1, <1>2, <1>3 DEF Permitted, Held
  <2>3. Unread'
    BY <1>1, <1>2, <1>3, UnreadKept
  <2> QED BY <2>1, <2>2, <2>3
<1> QED BY <1>1, <1>8, <1>9, <1>10, <1>11, OutSideKept DEF IInv

LEMMA InvInAckNothing ==
  ASSUME IInv, InAckNothing
  PROVE  IInv'
<1>1. /\ inp.pc = "ack" /\ ~(inp.sequence # inp.released /\ HasRoom("in"))
      /\ inp' = [inp EXCEPT !.pc = "wait"]
      /\ UNCHANGED <<shared, outVars, inbox, permits, reader, received>>
  BY DEF InAckNothing
<1>2. /\ TypeOK /\ Positions /\ Talk /\ InInv
      /\ Permitted /\ Unread /\ ReadSoFar /\ inp \in InTask
  BY DEF IInv, TypeOK
<1>3. /\ inp' \in InTask /\ inp'.pc = "wait" /\ inp'.released = inp.released
      /\ inp'.sequence = inp.sequence /\ inp'.head = inp.head
      /\ inp'.eof = inp.eof /\ inp'.forgot = inp.forgot
  BY <1>1, <1>2 DEF InTask
<1>4. inp.released = inp.sequence
  <2>1. ASSUME inp.sequence # inp.released PROVE HasRoom("in")
    <3>1. inp.released = Acked
      BY <1>2, <2>1, Numbers, Consts DEF Positions, Acked
    <3>2. pushed["in"] = taken["out"]
      BY <1>2, <3>1, Numbers, Consts DEF Talk, Acked
    <3> QED BY <3>2, <1>2, Numbers, Consts DEF HasRoom, Other
  <2> QED BY <1>1, <2>1
<1>5. out' = out /\ written' = written /\ Acked' = Acked
  BY <1>1 DEF outVars, Acked
<1>6. TypeOK'
  BY <1>1, <1>2, <1>3 DEF TypeOK, outVars, shared
<1>7. Positions' /\ Talk'
  BY <1>1, <1>2, <1>3, <1>5 DEF Positions, Talk, shared
<1>8. InInv' /\ Permitted' /\ ReadSoFar' /\ Unread'
  <2>1. InInv' /\ ReadSoFar'
    BY <1>1, <1>2, <1>3, <1>4 DEF InInv, ReadSoFar
  <2>2. Permitted'
    BY <1>1, <1>2, <1>3 DEF Permitted, Held
  <2>3. Unread'
    BY <1>1, <1>2, <1>3, UnreadKept
  <2> QED BY <2>1, <2>2, <2>3
<1>9. area' = area
  BY <1>1 DEF shared
<1> QED BY <1>1, <1>6, <1>7, <1>8, <1>9, OutSideKept DEF IInv

LEMMA InvInWait ==
  ASSUME IInv, InWait
  PROVE  IInv'
<1>1. /\ inp.pc = "wait"
      /\ permits' = IF inp.forgot THEN permits ELSE permits + 1
      /\ inp' = [inp EXCEPT !.pc = "top", !.forgot = FALSE]
      /\ UNCHANGED <<shared, outVars, inbox, reader, received>>
  BY DEF InWait
<1>2. /\ TypeOK /\ Positions /\ Talk /\ InInv
      /\ Permitted /\ Unread /\ ReadSoFar /\ inp \in InTask
      /\ permits \in Nat /\ Permits \in Nat /\ Len(inbox) \in Nat
  <2>1. TypeOK /\ Positions /\ Talk /\ InInv /\ Permitted /\ Unread /\ ReadSoFar
    BY DEF IInv
  <2>2. inp \in InTask /\ inbox \in Seq(Frame) /\ permits \in 0 .. Permits
    BY <2>1 DEF TypeOK
  <2> QED BY <2>1, <2>2, Consts
<1>3. /\ inp' \in InTask /\ inp'.pc = "top" /\ inp'.released = inp.released
      /\ inp'.sequence = inp.sequence /\ inp'.head = inp.head
      /\ inp'.eof = inp.eof /\ ~inp'.forgot
  BY <1>1, <1>2 DEF InTask
<1>4. out' = out /\ written' = written /\ Acked' = Acked
  BY <1>1 DEF outVars, Acked
<1>5. Permitted' /\ permits' \in 0 .. Permits
  BY <1>1, <1>2, <1>3 DEF Permitted, Held
<1>6. TypeOK'
  BY <1>1, <1>2, <1>3, <1>5 DEF TypeOK, outVars, shared
<1>7. Positions' /\ Talk'
  BY <1>1, <1>2, <1>3, <1>4 DEF Positions, Talk, shared
<1>8. InInv' /\ ReadSoFar' /\ Unread'
  <2>1. InInv' /\ ReadSoFar'
    BY <1>1, <1>2, <1>3 DEF InInv, ReadSoFar
  <2>2. Unread'
    BY <1>1, <1>2, <1>3, UnreadKept
  <2> QED BY <2>1, <2>2
<1>9. area' = area
  BY <1>1 DEF shared
<1> QED BY <1>1, <1>5, <1>6, <1>7, <1>8, <1>9, OutSideKept DEF IInv


LEMMA OldOrNew ==
  ASSUME NEW a \in Nat, NEW b \in {0, 1}, NEW i \in 1 .. a + b
  PROVE  i \in 1 .. a \/ (i = a + 1 /\ b = 1)
OBVIOUS

LEMMA InvInConsume ==
  ASSUME IInv, InConsume
  PROVE  IInv'
<1> DEFINE data == Announced
           told == IF data # <<>> THEN <<Data(data)>> ELSE <<>>
           end == IF inp.eof THEN <<Eof>> ELSE <<>>
           frames == told \o end
<1>1. /\ inp.pc = "consume" /\ Splits(inp.sequence, inp.head)
      /\ inbox' = inbox \o frames
      /\ inp' = [inp EXCEPT !.pc = "ack", !.sequence = inp.head,
                            !.forgot = Forgets(frames)]
      /\ reader' = IF Tells(data, inp.eof) /\ reader = "waiting"
                   THEN "running" ELSE reader
      /\ UNCHANGED <<shared, outVars, permits, received>>
  BY DEF InConsume
<1>2. TypeOK /\ Positions /\ Talk /\ InInv /\ AreaInv /\ Permitted /\ ReadSoFar
  BY DEF IInv
<1>3. /\ inp \in InTask /\ inbox \in Seq(Frame) /\ inp.eof \in BOOLEAN
      /\ Len(inbox) \in Nat /\ permits \in Nat /\ Permits \in Nat
      /\ inp.sequence \in Nat /\ inp.head \in Nat /\ inp.sequence <= inp.head
  BY <1>2, Numbers, Consts DEF TypeOK, InTask, Positions
<1> DEFINE m == inp.head - inp.sequence
<1>4. /\ m \in Nat /\ data = [i \in 1 .. m |-> inp.sequence + i - 1]
      /\ data \in Seq(Byte \cup {-1}) /\ Len(data) = m
      /\ (data # <<>> <=> m > 0)
  <2>1. m \in Nat
    BY <1>3
  <2>2. ASSUME NEW i \in 1 .. m
        PROVE  /\ area[(inp.sequence + i - 1) % Size] = inp.sequence + i - 1
               /\ inp.sequence + i - 1 \in Byte
    <3> DEFINE p == inp.sequence + i - 1
    <3>1. p \in Nat /\ p < inp.head /\ inp.sequence <= p
      BY <1>3, <2>2
    <3>2. Acked <= p /\ p < out.sequence /\ p < written /\ Acked \in Int
      BY <1>2, <3>1, Numbers, Consts DEF Positions, Acked
    <3>3. area[p % Size] = p
      BY <1>2, <3>1, <3>2, Numbers DEF AreaInv
    <3>4. p \in Byte
      BY <1>2, <3>1, <3>2, Consts DEF TypeOK, Byte
    <3> QED BY <3>3, <3>4
  <2>3. data = [i \in 1 .. m |-> inp.sequence + i - 1]
    BY <2>2 DEF Announced
  <2>4. data \in Seq(Byte \cup {-1}) /\ Len(data) = m
    BY <2>1, <2>2, <2>3
  <2> QED BY <2>1, <2>3, <2>4
<1> HIDE DEF data
<1>5. inp.eof => m = 0
  BY <1>2, <1>3, EofSettles
<1>6. /\ Data(data).bytes = data /\ ~Data(data).eof /\ Data(data) \in Frame
      /\ Eof.bytes = <<>> /\ Eof.eof /\ Eof \in Frame
  <2>1. <<>> \in Seq(Byte \cup {-1})
    OBVIOUS
  <2> QED BY <1>4, <2>1 DEF Data, Eof, Frame
(* One frame or none. *)
<1>7. \/ m = 0 /\ ~inp.eof /\ frames = <<>>
      \/ m = 0 /\ inp.eof /\ frames = <<Eof>>
      \/ m > 0 /\ ~inp.eof /\ frames = <<Data(data)>>
  <2>1. /\ <<>> \o <<>> = <<>>
        /\ <<>> \o <<Eof>> = <<Eof>>
        /\ <<Data(data)>> \o <<>> = <<Data(data)>>
    OBVIOUS
  <2>2. CASE m = 0
    <3>1. told = <<>>
      BY <1>4, <2>2
    <3> QED BY <1>3, <2>1, <2>2, <3>1
  <2>3. CASE m > 0
    <3>1. told = <<Data(data)>> /\ ~inp.eof
      BY <1>4, <1>5, <2>3
    <3> QED BY <2>1, <2>3, <3>1
  <2> QED BY <1>4, <2>2, <2>3
<1> HIDE DEF frames, told, end
<1> DEFINE f == frames[1]
<1>8. /\ frames \in Seq(Frame) /\ Len(frames) \in 0 .. 1
      /\ (frames = <<>> <=> Len(frames) = 0)
      /\ Len(frames) = 1 =>
           f = IF inp.eof THEN Eof ELSE Data(data)
      /\ Len(frames) = 0 => m = 0 /\ ~inp.eof
      /\ Len(frames) = 1 => (inp.eof <=> m = 0)
  <2>1. CASE m = 0 /\ ~inp.eof /\ frames = <<>>
    BY <1>4, <2>1
  <2>2. CASE m = 0 /\ inp.eof /\ frames = <<Eof>>
    BY <1>4, <1>6, <2>2
  <2>3. CASE m > 0 /\ ~inp.eof /\ frames = <<Data(data)>>
    BY <1>4, <1>6, <2>3
  <2> QED BY <1>7, <2>1, <2>2, <2>3
<1>9. /\ inbox' \in Seq(Frame) /\ Len(inbox') = Len(inbox) + Len(frames)
      /\ \A i \in 1 .. Len(inbox) : inbox'[i] = inbox[i]
      /\ Len(frames) = 1 => inbox'[Len(inbox) + 1] = f
  BY <1>1, <1>3, <1>8
<1>10. /\ inp' \in InTask /\ inp'.pc = "ack" /\ inp'.sequence = inp.head
       /\ inp'.head = inp.head /\ inp'.released = inp.released
       /\ inp'.eof = inp.eof /\ (inp'.forgot <=> Len(frames) = 1)
  <2>1. Forgets(frames) \in BOOLEAN /\ (Forgets(frames) <=> Len(frames) = 1)
    BY <1>8 DEF Forgets
  <2> HIDE DEF f
  <2> QED BY <1>1, <1>3, <2>1 DEF InTask
<1>11. out' = out /\ written' = written /\ Acked' = Acked /\ area' = area
  BY <1>1 DEF outVars, shared, Acked
<1>12. reader' \in {"running", "waiting", "closed"}
  BY <1>1, <1>2 DEF TypeOK
<1>13. TypeOK'
  BY <1>1, <1>2, <1>9, <1>10, <1>12 DEF TypeOK, outVars, shared
<1>14. Positions' /\ Talk'
  <2>1. Positions'
    BY <1>2, <1>10, <1>11, Numbers DEF Positions
  <2>2. Talk'
    BY <1>1, <1>2, <1>10, <1>11 DEF Talk, shared
  <2> QED BY <2>1, <2>2
<1>15. InInv' /\ Permitted' /\ ReadSoFar'
  <2>1. InInv' /\ ReadSoFar'
    BY <1>1, <1>2, <1>10 DEF InInv, ReadSoFar
  <2>2. Held = 1 /\ Held' = 1 - Len(frames)
    BY <1>1, <1>2, <1>8, <1>10 DEF Held, InInv
  <2>3. Permitted'
    BY <1>1, <1>2, <1>3, <1>8, <1>9, <2>2 DEF Permitted
  <2> QED BY <2>1, <2>3
<1>16. Unread'
  <2>1. PICK start \in [1 .. Len(inbox) + 1 -> Nat] : Starts(start)
    BY DEF IInv, Unread
  <2> DEFINE next == [i \in 1 .. Len(inbox') + 1 |->
                        IF i <= Len(inbox) + 1 THEN start[i] ELSE inp.head]
  <2>2. /\ next \in [1 .. Len(inbox') + 1 -> Nat]
        /\ \A i \in 1 .. Len(inbox) + 1 : next[i] = start[i]
        /\ next[1] = start[1]
        /\ Len(frames) = 1 => next[Len(inbox) + 2] = inp.head
    BY <1>3, <1>8, <1>9
  <2> HIDE DEF next
  <2>3. start[1] = Len(received) /\ start[Len(inbox) + 1] = inp.sequence
    BY <2>1 DEF Starts
  <2>4. next[Len(inbox') + 1] = inp.head
    <3>1. CASE Len(frames) = 0
      BY <1>3, <1>8, <1>9, <2>2, <2>3, <3>1
    <3>2. CASE Len(frames) = 1
      BY <1>3, <1>9, <2>2, <3>2
    <3> QED BY <1>8, <3>1, <3>2
  <2>5. ASSUME NEW i \in 1 .. Len(inbox')
        PROVE  /\ next[i + 1] = next[i] + Len(inbox'[i].bytes)
               /\ next[i + 1] <= inp'.sequence
               /\ \A j \in 1 .. Len(inbox'[i].bytes) :
                    inbox'[i].bytes[j] = next[i] + j - 1
               /\ inbox'[i].eof => inp'.eof /\ next[i] = inp'.sequence
               /\ ~inbox'[i].eof => inbox'[i].bytes # <<>>
    <3>1. CASE i \in 1 .. Len(inbox)
      <4>1. next[i] = start[i] /\ next[i + 1] = start[i + 1] /\ inbox'[i] = inbox[i]
        <5>1. i \in 1 .. Len(inbox) + 1 /\ i + 1 \in 1 .. Len(inbox) + 1
          BY <1>3, <3>1
        <5> QED BY <1>9, <2>2, <3>1, <5>1
      <4>2. inp.eof => inp.sequence = inp.head
        BY EofSettles
      <4>3. start[i + 1] \in Nat /\ start[i + 1] <= inp.sequence
        BY <1>3, <2>1, <3>1 DEF Starts
      <4>4. next[i + 1] <= inp'.sequence
        BY <1>3, <1>10, <4>1, <4>3
      <4> QED BY <1>10, <2>1, <3>1, <4>1, <4>2, <4>4 DEF Starts
    <3>2. CASE i = Len(inbox) + 1 /\ Len(frames) = 1
      <4>1. next[i] = inp.sequence /\ next[i + 1] = inp.head /\ inbox'[i] = f
        BY <1>3, <1>9, <2>2, <2>3, <3>2
      <4>2. CASE inp.eof
        <5>1. f = Eof /\ m = 0
          BY <1>8, <3>2, <4>2
        <5>2. inbox'[i].bytes = <<>> /\ inbox'[i].eof
          BY <1>6, <4>1, <5>1
        <5>3. next[i] = inp.head
          BY <1>3, <4>1, <5>1
        <5> QED BY <1>3, <1>10, <4>1, <4>2, <5>2, <5>3
      <4>3. CASE ~inp.eof
        <5>1. f = Data(data) /\ m > 0
          BY <1>4, <1>8, <3>2, <4>3
        <5>2. inbox'[i].bytes = data /\ ~inbox'[i].eof
          BY <1>6, <4>1, <5>1
        <5>3. Len(data) = m /\ \A j \in 1 .. m : data[j] = inp.sequence + j - 1
          BY <1>4
        <5>4. next[i + 1] = next[i] + m
          BY <1>3, <4>1
        <5>5. next[i + 1] = next[i] + Len(inbox'[i].bytes)
          BY <5>2, <5>3, <5>4
        <5>6. \A j \in 1 .. Len(inbox'[i].bytes) :
                inbox'[i].bytes[j] = next[i] + j - 1
          BY <4>1, <5>2, <5>3
        <5>7. next[i + 1] <= inp'.sequence /\ inbox'[i].bytes # <<>>
          BY <1>3, <1>4, <1>10, <4>1, <5>1, <5>2
        <5> QED BY <5>2, <5>5, <5>6, <5>7
      <4>4. next[i + 1] <= inp'.sequence
        BY <1>3, <1>10, <4>1
      <4> QED BY <1>3, <4>2, <4>3, <4>4
    <3>3. i \in 1 .. Len(inbox) \/ (i = Len(inbox) + 1 /\ Len(frames) = 1)
      <4>1. Len(inbox') = Len(inbox) + Len(frames) /\ Len(frames) \in {0, 1}
        BY <1>8, <1>9
      <4>2. i \in 1 .. Len(inbox) + Len(frames)
        BY <2>5, <4>1
      <4>3. Len(inbox) \in Nat
        BY <1>3
      <4> QED BY <4>1, <4>2, <4>3, OldOrNew
    <3> QED BY <3>1, <3>2, <3>3
  <2>6. next[1] = Len(received')
    BY <1>1, <2>2, <2>3
  <2>7. next[Len(inbox') + 1] = inp'.sequence
    BY <1>10, <2>4
  <2> QED BY <2>2, <2>5, <2>6, <2>7 DEF Unread, Starts
<1> QED BY <1>1, <1>11, <1>13, <1>14, <1>15, <1>16, OutSideKept DEF IInv


-----------------------------------------------------------------------------
(* The host of the input stream.                                           *)
LEMMA TaskSideKept ==
  ASSUME IInv, UNCHANGED <<shared, outVars, inp>>
  PROVE  Positions' /\ Talk' /\ InInv' /\ OutInv' /\ HostInv' /\ MarksInv' /\ AreaInv'
<1>1. /\ UNCHANGED outVars /\ area' = area /\ slots' = slots /\ pushed' = pushed
      /\ taken' = taken /\ inp' = inp /\ out' = out /\ written' = written
  BY DEF shared, outVars
<1>2. Positions' /\ Talk' /\ InInv'
  BY <1>1 DEF IInv, Positions, Talk, InInv, Acked
<1> QED BY <1>1, <1>2, OutSideKept

LEMMA InvReadNothingOrEnd ==
  ASSUME IInv, ReadNothing \/ ReadEnd
  PROVE  IInv'
<1>1. /\ reader' \in {"running", "waiting", "closed"}
      /\ UNCHANGED <<shared, outVars, inbox, permits, inp, received>>
  BY DEF ReadNothing, ReadEnd
<1>2. TypeOK'
  BY <1>1 DEF IInv, TypeOK, shared, outVars
<1>3. Permitted' /\ Unread' /\ ReadSoFar'
  <2>1. Permitted' /\ ReadSoFar'
    BY <1>1 DEF IInv, Permitted, Held, ReadSoFar
  <2>2. Unread'
    BY <1>1, UnreadKept DEF IInv
  <2> QED BY <2>1, <2>2
<1> QED BY <1>1, <1>2, <1>3, TaskSideKept DEF IInv

LEMMA Joined ==
  ASSUME NEW S, NEW a \in Seq(S), NEW b \in Seq(S)
  PROVE  /\ a \o b \in Seq(S) /\ Len(a \o b) = Len(a) + Len(b)
         /\ \A i \in 1 .. Len(a) : (a \o b)[i] = a[i]
         /\ \A i \in 1 .. Len(b) : (a \o b)[Len(a) + i] = b[i]
OBVIOUS

(* What a host reads are the next bytes of the stream.                     *)
LEMMA ReadGives ==
  ASSUME IInv, NEW n \in Nat \ {0}, Read(n)
  PROVE  \E m \in Nat \ {0} :
           /\ Len(received') = Len(received) + m
           /\ Len(received') <= inp.sequence
           /\ received' \in Seq(Byte \cup {-1})
           /\ ReadSoFar'
           /\ m = Least(n, Len(Head(inbox).bytes))
<1> DEFINE bytes == Head(inbox).bytes
           m == Least(n, Len(bytes))
<1>1. /\ inbox # <<>> /\ ~Head(inbox).eof
      /\ received' = received \o SubSeq(bytes, 1, m)
  BY DEF Read
<1>2. /\ inbox \in Seq(Frame) /\ inbox[1] \in Frame /\ Head(inbox) = inbox[1]
      /\ received \in Seq(Byte \cup {-1}) /\ 1 \in 1 .. Len(inbox) /\ ReadSoFar
      /\ Len(inbox) \in Nat
  <2>1. inbox \in Seq(Frame) /\ received \in Seq(Byte \cup {-1}) /\ ReadSoFar
    BY DEF IInv, TypeOK
  <2>2. Len(inbox) \in Nat /\ Len(inbox) # 0
    BY <1>1, <2>1
  <2>3. 1 \in 1 .. Len(inbox)
    BY <2>2
  <2>4. inbox[1] \in Frame /\ Head(inbox) = inbox[1]
    BY <1>1, <2>1, <2>3
  <2> QED BY <2>1, <2>2, <2>3, <2>4
<1>3. bytes \in Seq(Byte \cup {-1})
  BY <1>2 DEF Frame
<1>4. PICK start \in [1 .. Len(inbox) + 1 -> Nat] : Starts(start)
  BY DEF IInv, Unread
<1>5. /\ start[1] = Len(received) /\ bytes # <<>>
      /\ start[2] = start[1] + Len(bytes)
      /\ \A j \in 1 .. Len(bytes) : bytes[j] = start[1] + j - 1
  <2>1. /\ start[1 + 1] = start[1] + Len(inbox[1].bytes)
        /\ \A j \in 1 .. Len(inbox[1].bytes) : inbox[1].bytes[j] = start[1] + j - 1
        /\ ~inbox[1].eof => inbox[1].bytes # <<>>
        /\ start[1] = Len(received)
    BY <1>2, <1>4 DEF Starts
  <2>2. bytes = inbox[1].bytes /\ ~inbox[1].eof /\ 1 + 1 = 2
    BY <1>1, <1>2
  <2> HIDE DEF bytes
  <2> QED BY <2>1, <2>2
<1> HIDE DEF bytes
<1>6. m \in Nat \ {0} /\ m <= Len(bytes) /\ Len(bytes) \in Nat /\ Len(received) \in Nat
  BY <1>2, <1>3, <1>5 DEF Least
<1> HIDE DEF m
<1>7. /\ received' \in Seq(Byte \cup {-1})
      /\ Len(received') = Len(received) + m
      /\ \A i \in 1 .. Len(received) : received'[i] = received[i]
      /\ \A j \in 1 .. m : received'[Len(received) + j] = bytes[j]
  <2> DEFINE first == SubSeq(bytes, 1, m)
  <2>1. /\ first \in Seq(Byte \cup {-1}) /\ Len(first) = m
        /\ \A j \in 1 .. m : first[j] = bytes[j]
    BY <1>3, <1>6
  <2> HIDE DEF first
  <2>2. received' = received \o first
    BY <1>1 DEF first
  <2> DEFINE S == Byte \cup {-1}
  <2>3. received \in Seq(S) /\ first \in Seq(S)
    BY <1>2, <2>1
  <2> HIDE DEF S
  <2>4. /\ received \o first \in Seq(S)
        /\ Len(received \o first) = Len(received) + Len(first)
        /\ \A i \in 1 .. Len(received) : (received \o first)[i] = received[i]
        /\ \A j \in 1 .. Len(first) : (received \o first)[Len(received) + j] = first[j]
    BY <2>3, Joined
  <2> QED BY <2>1, <2>2, <2>4 DEF S
<1>8. ReadSoFar'
  <2> SUFFICES ASSUME NEW i \in 1 .. Len(received) + m
               PROVE  received'[i] = i - 1
    BY <1>7 DEF ReadSoFar
  <2>1. CASE i <= Len(received)
    BY <1>2, <1>6, <1>7, <2>1 DEF ReadSoFar
  <2>2. CASE i > Len(received)
    <3> DEFINE j == i - Len(received)
    <3>1. j \in 1 .. m /\ i = Len(received) + j
      BY <1>6, <2>2
    <3>2. j \in 1 .. Len(bytes)
      BY <1>6, <3>1
    <3> HIDE DEF j
    <3>3. received'[i] = bytes[j]
      BY <1>7, <3>1
    <3>4. bytes[j] = Len(received) + j - 1
      BY <1>5, <3>2
    <3> QED BY <1>6, <3>1, <3>3, <3>4
  <2> QED BY <1>6, <2>1, <2>2
<1>9. start[2] <= inp.sequence
  BY <1>2, <1>4 DEF Starts
<1>10. Len(received') <= inp.sequence
  <2>1. inp.sequence \in Nat
    BY Numbers DEF IInv
  <2> QED BY <1>5, <1>6, <1>7, <1>9, <2>1
<1> QED BY <1>6, <1>7, <1>8, <1>10 DEF m, bytes


LEMMA FrameTyped ==
  ASSUME NEW bytes \in Seq(Byte \cup {-1})
  PROVE  Data(bytes) \in Frame /\ Data(bytes).bytes = bytes /\ ~Data(bytes).eof
BY DEF Data, Frame

LEMMA TailTyped ==
  ASSUME NEW S, NEW a \in Seq(S), a # <<>>
  PROVE  /\ Tail(a) \in Seq(S) /\ Len(Tail(a)) = Len(a) - 1
         /\ \A i \in 1 .. Len(a) - 1 : Tail(a)[i] = a[i + 1]
         /\ Len(a) \in Nat \ {0}
OBVIOUS

LEMMA InvRead ==
  ASSUME IInv, NEW n \in Nat \ {0}, Read(n)
  PROVE  IInv'
<1> DEFINE bytes == Head(inbox).bytes
           m == Least(n, Len(bytes))
           rest == SubSeq(bytes, m + 1, Len(bytes))
<1>1. /\ inbox # <<>> /\ ~Head(inbox).eof
      /\ inbox' = IF rest = <<>> THEN Tail(inbox)
                  ELSE <<Data(rest)>> \o Tail(inbox)
      /\ permits' = IF rest = <<>> THEN permits + 1 ELSE permits
      /\ UNCHANGED <<shared, outVars, inp, reader>>
  BY DEF Read, Restores
<1>2. /\ TypeOK /\ Permitted /\ inbox \in Seq(Frame) /\ inbox[1] \in Frame
      /\ permits \in Nat /\ Permits \in Nat
      /\ Len(inbox) \in Nat \ {0} /\ Head(inbox) = inbox[1]
  <2>1. TypeOK /\ Permitted /\ inbox \in Seq(Frame)
    BY DEF IInv, TypeOK
  <2>2. Len(inbox) \in Nat \ {0}
    BY <1>1, <2>1
  <2>3. inbox[1] \in Frame /\ Head(inbox) = inbox[1]
    BY <1>1, <2>1, <2>2
  <2> QED BY <2>1, <2>2, <2>3, Numbers, Consts
<1>3. bytes \in Seq(Byte \cup {-1})
  BY <1>2 DEF Frame
<1>4. PICK start \in [1 .. Len(inbox) + 1 -> Nat] : Starts(start)
  BY DEF IInv, Unread
<1>5. /\ start[1] = Len(received) /\ bytes # <<>>
      /\ start[2] = start[1] + Len(bytes) /\ start[2] <= inp.sequence
      /\ \A j \in 1 .. Len(bytes) : bytes[j] = start[1] + j - 1
  <2>1. 1 \in 1 .. Len(inbox)
    BY <1>2
  <2>2. /\ start[1 + 1] = start[1] + Len(inbox[1].bytes)
        /\ start[1 + 1] <= inp.sequence
        /\ \A j \in 1 .. Len(inbox[1].bytes) : inbox[1].bytes[j] = start[1] + j - 1
        /\ ~inbox[1].eof => inbox[1].bytes # <<>>
        /\ start[1] = Len(received)
    BY <1>4, <2>1 DEF Starts
  <2>3. bytes = inbox[1].bytes /\ ~inbox[1].eof /\ 1 + 1 = 2
    BY <1>1, <1>2
  <2> HIDE DEF bytes
  <2> QED BY <2>2, <2>3
<1>6. /\ Len(received') = Len(received) + m /\ Len(received') <= inp.sequence
      /\ received' \in Seq(Byte \cup {-1}) /\ ReadSoFar'
  BY ReadGives
<1> HIDE DEF bytes
<1>7. m \in Nat \ {0} /\ m <= Len(bytes) /\ Len(bytes) \in Nat /\ Len(received) \in Nat
  <2>1. received \in Seq(Byte \cup {-1})
    BY <1>2 DEF TypeOK
  <2> QED BY <1>3, <1>5, <2>1 DEF Least
<1> HIDE DEF m
<1>8. /\ rest \in Seq(Byte \cup {-1}) /\ Len(rest) = Len(bytes) - m
      /\ \A j \in 1 .. Len(rest) : rest[j] = bytes[m + j]
      /\ (rest = <<>> <=> Len(bytes) = m)
  <2>1. rest \in Seq(Byte \cup {-1}) /\ Len(rest) = Len(bytes) - m
    BY <1>3, <1>7
  <2>2. \A j \in 1 .. Len(rest) : rest[j] = bytes[m + j]
    BY <1>3, <1>7, <2>1
  <2> HIDE DEF rest
  <2>3. rest = <<>> <=> Len(rest) = 0
    BY <2>1
  <2> QED BY <1>7, <2>1, <2>2, <2>3
<1> HIDE DEF rest
<1>9. /\ Tail(inbox) \in Seq(Frame) /\ Len(Tail(inbox)) = Len(inbox) - 1
      /\ \A i \in 1 .. Len(inbox) - 1 : Tail(inbox)[i] = inbox[i + 1]
  BY <1>1, <1>2, TailTyped
<1>10. inp' = inp
  BY <1>1
<1>11. CASE rest = <<>>
  <2>1. inbox' = Tail(inbox) /\ permits' = permits + 1
    BY <1>1, <1>11
  <2> DEFINE length == Len(inbox)
  <2>7. length \in Nat \ {0} /\ Len(inbox') = length - 1
    BY <1>2, <1>9, <2>1
  <2>8. permits + Held + length = Permits /\ Held' = Held /\ Held \in {0, 1}
    BY <1>2, <1>10 DEF Permitted, Held
  <2> HIDE DEF length
  <2>2. Permitted' /\ permits' \in 0 .. Permits
    BY <1>2, <2>1, <2>7, <2>8 DEF Permitted
  <2>3. TypeOK'
    BY <1>1, <1>2, <1>6, <1>9, <2>1, <2>2 DEF TypeOK, shared, outVars
  <2>4. Unread'
    <3> DEFINE next == [i \in 1 .. Len(inbox') + 1 |-> start[i + 1]]
    <3>1. /\ next \in [1 .. Len(inbox') + 1 -> Nat]
          /\ \A i \in 1 .. Len(inbox) : next[i] = start[i + 1]
          /\ Len(inbox') = Len(inbox) - 1
      BY <1>2, <1>9, <2>1
    <3> HIDE DEF next
    <3>2. next[1] = Len(received') /\ next[Len(inbox') + 1] = inp'.sequence
      <4>1. next[1] = start[2] /\ next[Len(inbox') + 1] = start[Len(inbox) + 1]
        BY <1>2, <3>1
      <4>2. start[Len(inbox) + 1] = inp.sequence
        BY <1>4 DEF Starts
      <4> QED BY <1>5, <1>6, <1>7, <1>8, <1>10, <1>11, <4>1, <4>2
    <3>3. ASSUME NEW i \in 1 .. Len(inbox')
          PROVE  /\ next[i + 1] = next[i] + Len(inbox'[i].bytes)
                 /\ next[i + 1] <= inp'.sequence
                 /\ \A j \in 1 .. Len(inbox'[i].bytes) :
                      inbox'[i].bytes[j] = next[i] + j - 1
                 /\ inbox'[i].eof => inp'.eof /\ next[i] = inp'.sequence
                 /\ ~inbox'[i].eof => inbox'[i].bytes # <<>>
      <4> DEFINE k == i + 1
      <4>1. k \in 1 .. Len(inbox) /\ i \in 1 .. Len(inbox) /\ i \in 1 .. Len(inbox) - 1
        BY <1>2, <3>1, <3>3
      <4>2. inbox'[i] = inbox[k] /\ next[i] = start[k] /\ next[k] = start[k + 1]
        BY <1>9, <2>1, <3>1, <4>1
      <4> HIDE DEF k
      <4>3. /\ start[k + 1] = start[k] + Len(inbox[k].bytes)
            /\ start[k + 1] <= inp.sequence
            /\ \A j \in 1 .. Len(inbox[k].bytes) : inbox[k].bytes[j] = start[k] + j - 1
            /\ inbox[k].eof => inp.eof /\ start[k] = inp.sequence
            /\ ~inbox[k].eof => inbox[k].bytes # <<>>
        BY <1>4, <4>1 DEF Starts
      <4>4. next[i + 1] = start[k + 1]
        BY <4>2 DEF k
      <4> QED BY <1>10, <4>2, <4>3, <4>4
    <3> QED BY <3>1, <3>2, <3>3 DEF Unread, Starts
  <2> QED BY <1>1, <1>6, <2>2, <2>3, <2>4, TaskSideKept DEF IInv
<1>12. CASE rest # <<>>
  <2>1. inbox' = <<Data(rest)>> \o Tail(inbox) /\ permits' = permits
    BY <1>1, <1>12
  <2>2. Data(rest) \in Frame /\ Data(rest).bytes = rest /\ ~Data(rest).eof
    BY <1>8, FrameTyped
  <2>3. /\ inbox' \in Seq(Frame) /\ Len(inbox') = Len(inbox)
        /\ inbox'[1] = Data(rest)
        /\ \A i \in 2 .. Len(inbox) : inbox'[i] = inbox[i]
    <3> DEFINE a == <<Data(rest)>>  b == Tail(inbox)
    <3>1. a \in Seq(Frame) /\ Len(a) = 1 /\ a[1] = Data(rest) /\ b \in Seq(Frame)
      BY <1>9, <2>2
    <3> HIDE DEF a, b
    <3>2. /\ a \o b \in Seq(Frame) /\ Len(a \o b) = 1 + Len(b)
          /\ (a \o b)[1] = a[1]
          /\ \A i \in 1 .. Len(b) : (a \o b)[1 + i] = b[i]
      <4>1. /\ a \o b \in Seq(Frame) /\ Len(a \o b) = Len(a) + Len(b)
            /\ \A i \in 1 .. Len(a) : (a \o b)[i] = a[i]
            /\ \A i \in 1 .. Len(b) : (a \o b)[Len(a) + i] = b[i]
        <5> DEFINE S == Frame
        <5>1. a \in Seq(S) /\ b \in Seq(S)
          BY <3>1
        <5> HIDE DEF S
        <5>2. /\ a \o b \in Seq(S) /\ Len(a \o b) = Len(a) + Len(b)
              /\ \A i \in 1 .. Len(a) : (a \o b)[i] = a[i]
              /\ \A i \in 1 .. Len(b) : (a \o b)[Len(a) + i] = b[i]
          BY <5>1, Joined
        <5> QED BY <5>2 DEF S
      <4>2. 1 \in 1 .. Len(a)
        BY <3>1
      <4> QED BY <3>1, <4>1, <4>2
    <3>3. inbox' = a \o b /\ Len(b) = Len(inbox) - 1
      BY <1>9, <2>1 DEF a, b
    <3>4. ASSUME NEW i \in 2 .. Len(inbox) PROVE inbox'[i] = inbox[i]
      <4> DEFINE j == i - 1
      <4>1. j \in 1 .. Len(b) /\ 1 + j = i /\ j \in 1 .. Len(inbox) - 1 /\ j + 1 = i
        BY <1>2, <3>3
      <4> HIDE DEF j
      <4>2. inbox'[i] = b[j]
        BY <3>2, <3>3, <4>1
      <4>3. b[j] = inbox[i]
        BY <1>9, <4>1 DEF b
      <4> QED BY <4>2, <4>3
    <3> QED BY <1>2, <3>1, <3>2, <3>3, <3>4
  <2>4. Permitted' /\ permits' \in 0 .. Permits
    BY <1>2, <1>10, <2>1, <2>3 DEF Permitted, Held, TypeOK
  <2>5. TypeOK'
    BY <1>1, <1>2, <1>6, <2>1, <2>3 DEF TypeOK, shared, outVars
  <2>6. Unread'
    <3> DEFINE next == [start EXCEPT ![1] = Len(received')]
    <3>1. /\ next \in [1 .. Len(inbox') + 1 -> Nat]
          /\ next[1] = Len(received')
          /\ \A i \in 2 .. Len(inbox) + 1 : next[i] = start[i]
      BY <1>2, <1>6, <1>7, <2>3
    <3> HIDE DEF next
    <3>2. next[Len(inbox') + 1] = inp'.sequence
      <4>0. Len(inbox) + 1 \in 2 .. Len(inbox) + 1
        BY <1>2
      <4>1. next[Len(inbox) + 1] = start[Len(inbox) + 1]
        BY <3>1, <4>0
      <4>2. start[Len(inbox) + 1] = inp.sequence
        BY <1>4 DEF Starts
      <4> QED BY <1>10, <2>3, <4>1, <4>2
    <3>3. ASSUME NEW i \in 1 .. Len(inbox')
          PROVE  /\ next[i + 1] = next[i] + Len(inbox'[i].bytes)
                 /\ next[i + 1] <= inp'.sequence
                 /\ \A j \in 1 .. Len(inbox'[i].bytes) :
                      inbox'[i].bytes[j] = next[i] + j - 1
                 /\ inbox'[i].eof => inp'.eof /\ next[i] = inp'.sequence
                 /\ ~inbox'[i].eof => inbox'[i].bytes # <<>>
      <4>1. CASE i = 1
        <5>1. inbox'[i].bytes = rest /\ ~inbox'[i].eof
          BY <2>2, <2>3, <4>1
        <5>2. i + 1 = 2 /\ 2 \in 2 .. Len(inbox) + 1
          BY <1>2, <4>1
        <5>3. next[i + 1] = start[2] /\ next[i] = Len(received) + m
          BY <1>6, <3>1, <4>1, <5>2
        <5>4. next[i + 1] = next[i] + Len(rest)
          BY <1>5, <1>7, <1>8, <5>3
        <5>5. \A j \in 1 .. Len(rest) : rest[j] = next[i] + j - 1
          <6> TAKE j \in 1 .. Len(rest)
          <6>1. m + j \in 1 .. Len(bytes)
            BY <1>7, <1>8
          <6>2. rest[j] = Len(received) + (m + j) - 1
            BY <1>5, <1>8, <6>1
          <6> QED BY <1>7, <1>8, <5>3, <6>2
        <5> QED BY <1>5, <1>10, <1>12, <5>1, <5>3, <5>4, <5>5
      <4>2. CASE i # 1
        <5>1. /\ i \in 1 .. Len(inbox) /\ i \in 2 .. Len(inbox)
              /\ i \in 2 .. Len(inbox) + 1 /\ i + 1 \in 2 .. Len(inbox) + 1
          BY <1>2, <2>3, <3>3, <4>2
        <5>2. inbox'[i] = inbox[i] /\ next[i] = start[i] /\ next[i + 1] = start[i + 1]
          BY <2>3, <3>1, <5>1
        <5>3. /\ start[i + 1] = start[i] + Len(inbox[i].bytes)
              /\ start[i + 1] <= inp.sequence
              /\ \A j \in 1 .. Len(inbox[i].bytes) : inbox[i].bytes[j] = start[i] + j - 1
              /\ inbox[i].eof => inp.eof /\ start[i] = inp.sequence
              /\ ~inbox[i].eof => inbox[i].bytes # <<>>
          BY <1>4, <5>1 DEF Starts
        <5> QED BY <1>10, <5>2, <5>3
      <4> QED BY <4>1, <4>2
    <3> QED BY <3>1, <3>2, <3>3 DEF Unread, Starts
  <2> QED BY <1>1, <1>6, <2>4, <2>5, <2>6, TaskSideKept DEF IInv
<1> QED BY <1>11, <1>12


-----------------------------------------------------------------------------
LEMMA InitInv == Init => IInv
<1> SUFFICES ASSUME Init PROVE IInv
  OBVIOUS
<1>1. /\ area = [i \in Space |-> -1] /\ slots = [i \in 0 .. Count - 1 |-> 0]
      /\ pushed = [e \in End |-> 0] /\ taken = [e \in End |-> 0]
      /\ outbox = <<>> /\ flushLevel = 0 /\ flushed = 0
      /\ out = [pc |-> "top", sequence |-> 0, released |-> 0, head |-> Size,
                flushes |-> 0, outstanding |-> 0,
                pendingEof |-> FALSE, sentEof |-> FALSE]
      /\ writer = "open" /\ written = 0 /\ marks = <<>>
      /\ inbox = <<>> /\ permits = Permits
      /\ inp = [pc |-> "top", sequence |-> 0, released |-> 0, head |-> 0,
                eof |-> FALSE, forgot |-> FALSE]
      /\ reader = "running" /\ received = <<>>
  BY DEF Init, OutInit, InInit
<1>2. /\ out \in OutTask /\ inp \in InTask
      /\ pushed["out"] = 0 /\ pushed["in"] = 0
      /\ taken["out"] = 0 /\ taken["in"] = 0 /\ Acked = 0
  BY <1>1, Consts DEF OutTask, InTask, End, Acked
<1>3. TypeOK
  BY <1>1, <1>2, Consts DEF TypeOK
<1>4. Positions /\ Talk
  BY <1>1, <1>2, Consts DEF Positions, Talk
<1>5. OutInv /\ HostInv /\ MarksInv
  BY <1>1, <1>2, Consts DEF OutInv, HostInv, MarksInv, Copying, HasMark
<1>6. InInv /\ AreaInv /\ ReadSoFar
  BY <1>1, <1>2, Consts DEF InInv, AreaInv, ReadSoFar
<1>7. Permitted
  BY <1>1, Consts DEF Permitted, Held
<1>8. Unread
  <2> DEFINE start == [i \in 1 .. Len(inbox) + 1 |-> 0]
  <2>1. start \in [1 .. Len(inbox) + 1 -> Nat]
    OBVIOUS
  <2>2. Len(inbox) = 0 /\ Len(received) = 0 /\ inp.sequence = 0
    BY <1>1
  <2>3. start[1] = 0 /\ start[Len(inbox) + 1] = 0
    BY <2>2
  <2> HIDE DEF start
  <2>4. Starts(start)
    BY <2>2, <2>3 DEF Starts
  <2> QED BY <2>1, <2>4 DEF Unread
<1> QED BY <1>3, <1>4, <1>5, <1>6, <1>7, <1>8 DEF IInv

LEMMA InvNext ==
  ASSUME Lockstep, IInv, [Next]_vars
  PROVE  IInv'
<1>1. CASE WriterStep
  BY <1>1, InvWrite, InvFlush, InvClose DEF WriterStep
<1>2. CASE OutStep
  BY <1>2, InvOutReap, InvOutReapFlushing, InvOutReapFlushed, InvFillFrame,
     InvFillMark, InvFillEnds, InvOutAnnounce, InvOutAnnounceNothing DEF OutStep
<1>3. CASE InStep
  BY <1>3, InvInReap, InvInConsume, InvInAck, InvInAckNothing, InvInWait DEF InStep
<1>4. CASE ReaderStep
  <2>1. ASSUME NEW n \in 1 .. MaxFrame, Read(n) PROVE IInv'
    <3>1. n \in Nat \ {0}
      BY Consts
    <3> QED BY <2>1, <3>1, InvRead
  <2> QED BY <1>4, <2>1, InvReadNothingOrEnd DEF ReaderStep
<1>5. CASE UNCHANGED vars
  <2>1. /\ UNCHANGED outVars /\ UNCHANGED shared /\ UNCHANGED inVars
    BY <1>5 DEF vars
  <2>2. UNCHANGED <<shared, outVars, inp>> /\ area' = area
    BY <2>1 DEF shared, inVars
  <2>3. TypeOK'
    BY <2>1 DEF IInv, TypeOK, shared, outVars, inVars
  <2> QED BY <2>1, <2>2, <2>3, InSideKept, TaskSideKept DEF IInv
<1> QED BY <1>1, <1>2, <1>3, <1>4, <1>5 DEF Next

LEMMA Invariant ==
  ASSUME Lockstep
  PROVE  Spec => []IInv
<1>1. Init => IInv
  BY InitInv
<1>2. IInv /\ [Next]_vars => IInv'
  BY InvNext
<1> QED BY <1>1, <1>2, PTL DEF Spec

LEMMA InvNoPanic == IInv => NoPanic
<1> SUFFICES ASSUME IInv PROVE NoPanic
  OBVIOUS
<1>1. TypeOK /\ Positions /\ Talk
  BY DEF IInv
<1>2. InOrder(HeardByOut) /\ InOrder(HeardByIn)
  BY <1>1, OutHears, InHears
<1>3. Splits(out.sequence, out.head) /\ Splits(inp.sequence, inp.head)
  BY <1>1, Numbers, Consts DEF Splits, Positions, Acked
<1> QED BY <1>2, <1>3 DEF NoPanic

(* No task ends with an assertion: the two ends never read each other's    *)
(* messages as their own, although they share the entries of the ring.     *)
THEOREM NeverPanics ==
  ASSUME Lockstep
  PROVE  Spec => []NoPanic
BY Invariant, InvNoPanic, PTL

LEMMA InvBytesIntact == IInv => BytesIntact
<1> SUFFICES ASSUME IInv, NEW p \in inp.sequence .. out.sequence - 1
             PROVE  area[p % Size] = p
  BY DEF BytesIntact
<1>1. TypeOK /\ Positions /\ AreaInv
  BY DEF IInv
<1>2. p \in Acked .. out.sequence - 1
  BY <1>1, Numbers, Consts DEF Positions, Acked
<1> QED BY <1>1, <1>2 DEF AreaInv

(* The output task overwrites no byte that was not copied out.             *)
THEOREM BytesStay ==
  ASSUME Lockstep
  PROVE  Spec => []BytesIntact
BY Invariant, InvBytesIntact, PTL

LEMMA InvFlushHonest == IInv => FlushHonest
<1> SUFFICES ASSUME IInv, NEW k \in 1 .. Len(marks), k <= flushed
             PROVE  marks[k] <= inp.sequence
  BY DEF FlushHonest
<1>1. TypeOK /\ Positions /\ MarksInv
  BY DEF IInv
<1>2. marks[k] <= Acked /\ marks[k] \in Nat
  <2>1. marks \in Seq(0 .. MaxBytes)
    BY <1>1 DEF TypeOK
  <2>2. marks[k] \in 0 .. MaxBytes
    BY <2>1, Element
  <2>3. marks[k] <= Acked
    BY <1>1 DEF MarksInv
  <2> QED BY <2>2, <2>3, Consts
<1>3. inp.sequence \in Nat /\ Acked \in Int /\ Acked <= inp.sequence
  <2>1. /\ inp.released \in Nat /\ inp.sequence \in Nat
        /\ out.head \in Nat /\ Size \in Nat
    BY <1>1, Numbers, Consts
  <2>2. Acked <= inp.released /\ inp.released <= inp.sequence
    BY <1>1 DEF Positions
  <2>3. Acked \in Int
    BY <2>1 DEF Acked
  <2> QED BY <2>1, <2>2, <2>3
<1> QED BY <1>2, <1>3

(* A flush reported complete has reached the other process.                *)
THEOREM FlushIsHonest ==
  ASSUME Lockstep
  PROVE  Spec => []FlushHonest
BY Invariant, InvFlushHonest, PTL

LEMMA InvInboxBounded == IInv => InboxBounded
<1> SUFFICES ASSUME IInv PROVE InboxBounded
  OBVIOUS
<1>1. Permitted /\ permits \in Nat /\ Len(inbox) \in Nat /\ Permits \in Nat
  BY Numbers, Consts DEF IInv, TypeOK
<1> QED BY <1>1 DEF Permitted, Held, InboxBounded

(* The input host is never left with more frames than it gave permits for. *)
THEOREM InboxIsBounded ==
  ASSUME Lockstep
  PROVE  Spec => []InboxBounded
BY Invariant, InvInboxBounded, PTL

-----------------------------------------------------------------------------
(* What was read is always a beginning of the stream.                      *)
LEMMA ReadFirst ==
  ASSUME IInv
  PROVE  received = Stream!FirstBytes(Len(received)) /\ Len(received) \in Nat
<1>1. received \in Seq(Byte \cup {-1}) /\ ReadSoFar
  BY DEF IInv, TypeOK
<1>2. received = [i \in 1 .. Len(received) |-> received[i]] /\ Len(received) \in Nat
  BY <1>1
<1> QED BY <1>1, <1>2 DEF ReadSoFar, Stream!FirstBytes

LEMMA RefinesInit == Init => Stream!Init
<1> SUFFICES ASSUME Init PROVE Stream!Init
  OBVIOUS
<1>1. written = 0 /\ received = <<>> /\ writer = "open" /\ reader = "running"
  BY DEF Init, OutInit, InInit
<1>2. Stream!FirstBytes(0) = <<>>
  BY DEF Stream!FirstBytes
<1> QED BY <1>1, <1>2 DEF Stream!Init

(* Steps of the tasks and most steps of the hosts are not seen.            *)
LEMMA Unseen ==
  ASSUME written' = written, received' = received,
         writer' = "closed" <=> writer = "closed",
         reader' = "closed" <=> reader = "closed"
  PROVE  UNCHANGED Stream!vars
<1>1. /\ (writer = "closed")' = (writer = "closed")
      /\ (reader = "closed")' = (reader = "closed")
  OBVIOUS
<1> QED BY <1>1 DEF Stream!vars

LEMMA RefinesWrite ==
  ASSUME IInv, NEW n \in 1 .. MaxFrame, Write(n)
  PROVE  Stream!Write
<1>1. /\ writer = "open" /\ written' = written + n
      /\ writer' = "open" \/ writer' = "unflushed"
      /\ received' = received /\ reader' = reader
  BY DEF Write, inVars
<1>2. written \in Nat /\ n \in Nat \ {0}
  BY Numbers, Consts DEF IInv
<1>3. written' \in Nat /\ written' > written
  BY <1>1, <1>2
<1>4. (writer = "closed")' = (writer = "closed")
  BY <1>1
<1> QED BY <1>1, <1>3, <1>4 DEF Stream!Write

LEMMA RefinesRead ==
  ASSUME IInv, NEW n \in Nat \ {0}, Read(n)
  PROVE  Stream!Deliver
<1>1. /\ reader = "running" /\ reader' = reader
      /\ writer' = writer /\ written' = written /\ inp' = inp
  BY DEF Read, outVars
<1>2. PICK m \in Nat \ {0} :
        /\ Len(received') = Len(received) + m
        /\ Len(received') <= inp.sequence
        /\ received' \in Seq(Byte \cup {-1})
        /\ ReadSoFar'
  BY ReadGives
<1>3. received = Stream!FirstBytes(Len(received)) /\ Len(received) \in Nat
  BY ReadFirst
<1>4. received' = Stream!FirstBytes(Len(received'))
  <2>1. received' = [i \in 1 .. Len(received') |-> received'[i]]
    BY <1>2
  <2> QED BY <1>2, <2>1 DEF ReadSoFar, Stream!FirstBytes
<1>5. Len(received') <= written
  <2>1. TypeOK /\ Positions
    BY DEF IInv
  <2>2. inp.sequence \in Nat /\ written \in Nat /\ inp.sequence <= written
    BY <2>1, Numbers DEF Positions
  <2> QED BY <1>2, <1>3, <2>2
<1>6. /\ Len(received) \in 0 .. written
      /\ Len(received') \in Len(received) + 1 .. written
  <2>1. written \in Nat
    BY Numbers DEF IInv
  <2> QED BY <1>2, <1>3, <1>5, <2>1
<1> QED BY <1>1, <1>3, <1>4, <1>6 DEF Stream!Deliver

LEMMA RefinesReadEnd ==
  ASSUME IInv, ReadEnd
  PROVE  Stream!End
<1>1. /\ inbox # <<>> /\ Head(inbox).eof /\ reader' = "closed"
      /\ received' = received /\ writer' = writer /\ written' = written
  BY DEF ReadEnd, outVars
<1>2. inbox \in Seq(Frame)
  BY DEF IInv, TypeOK
<1>3. 1 \in 1 .. Len(inbox) /\ Head(inbox) = inbox[1]
  BY <1>1, <1>2
<1>4. PICK start \in [1 .. Len(inbox) + 1 -> Nat] : Starts(start)
  BY DEF IInv, Unread
<1>5. inp.eof /\ Len(received) = inp.sequence
  BY <1>1, <1>3, <1>4 DEF Starts
<1>6. writer = "closed" /\ Len(received) = written
  BY <1>5, EofSettles
<1> QED BY <1>1, <1>6, ReadFirst DEF Stream!End

LEMMA RefinesNext ==
  ASSUME IInv, [Next]_vars
  PROVE  [Stream!Next]_(Stream!vars)
<1>1. CASE WriterStep
  <2>1. ASSUME NEW n \in 1 .. MaxFrame, Write(n) PROVE Stream!Next
    BY <2>1, RefinesWrite DEF Stream!Next
  <2>2. CASE Flush
    <3>1. /\ written' = written /\ received' = received /\ reader' = reader
          /\ writer # "closed" /\ writer' # "closed"
      BY <2>2 DEF Flush, AtReady, inVars
    <3> QED BY <3>1, Unseen
  <2>3. CASE Close
    <3>1. /\ written' = written /\ received' = received /\ reader' = reader
          /\ writer = "open" /\ writer' = "closed"
      BY <2>3 DEF Close, inVars
    <3> QED BY <3>1 DEF Stream!Next, Stream!Close
  <2> QED BY <1>1, <2>1, <2>2, <2>3 DEF WriterStep
<1>2. CASE OutStep
  <2>1. /\ written' = written /\ received' = received /\ reader' = reader
        /\ writer' = writer \/ (writer = "waiting" /\ writer' = "open")
    <3>1. CASE OutReapFlushed
      BY <3>1 DEF OutReapFlushed, inVars
    <3>2. CASE ~OutReapFlushed
      BY <1>2, <3>2 DEF OutStep, OutReap, OutReapFlushing, FillFrame, FillMark, FillEnds,
         OutAnnounce, OutAnnounceNothing, inVars
    <3> QED BY <3>1, <3>2
  <2> QED BY <2>1, Unseen
<1>3. CASE InStep
  <2>1. /\ written' = written /\ received' = received /\ writer' = writer
        /\ reader' = reader \/ (reader = "waiting" /\ reader' = "running")
    <3>1. CASE InConsume
      BY <3>1 DEF InConsume, outVars
    <3>2. CASE ~InConsume
      BY <1>3, <3>2 DEF InStep, InReap, InAck, InAckNothing, InWait, outVars
    <3> QED BY <3>1, <3>2
  <2> QED BY <2>1, Unseen
<1>4. CASE ReaderStep
  <2>1. ASSUME NEW n \in 1 .. MaxFrame, Read(n) PROVE Stream!Next
    <3>1. n \in Nat \ {0}
      BY Consts
    <3> QED BY <2>1, <3>1, RefinesRead DEF Stream!Next
  <2>2. CASE ReadNothing
    <3>1. /\ written' = written /\ received' = received /\ writer' = writer
          /\ reader # "closed" /\ reader' # "closed"
      BY <2>2 DEF ReadNothing, outVars
    <3> QED BY <3>1, Unseen
  <2>3. CASE ReadEnd
    BY <2>3, RefinesReadEnd DEF Stream!Next
  <2> QED BY <1>4, <2>1, <2>2, <2>3 DEF ReaderStep
<1>5. CASE UNCHANGED vars
  BY <1>5, Unseen DEF vars, outVars, inVars
<1> QED BY <1>1, <1>2, <1>3, <1>4, <1>5 DEF Next

(* Together the two ends are a pipe.                                       *)
THEOREM Refinement ==
  ASSUME Lockstep
  PROVE  Spec => ImplementsStream
<1>1. IInv /\ [Next]_vars => [Stream!Next]_(Stream!vars)
  BY RefinesNext
<1> QED BY <1>1, Invariant, RefinesInit, PTL DEF Spec, ImplementsStream, Stream!Spec

(* What the hosts can rely on: the reading host has the first bytes of     *)
(* what was written and, once it was told of the end, all of it.           *)
THEOREM ReaderIsNotMisled ==
  ASSUME Lockstep
  PROVE  Spec => []Stream!Honest
<1>1. Stream!Init => Stream!Honest /\ written \in Nat
  <2> SUFFICES ASSUME Stream!Init PROVE Stream!Honest /\ written \in Nat
    OBVIOUS
  <2>1. 0 \in 0 .. written
    BY DEF Stream!Init
  <2> QED BY <2>1 DEF Stream!Init, Stream!Honest
<1>2. Stream!Honest /\ written \in Nat /\ [Stream!Next]_(Stream!vars)
        => Stream!Honest' /\ written' \in Nat
  <2> SUFFICES ASSUME Stream!Honest, written \in Nat, [Stream!Next]_(Stream!vars)
               PROVE  Stream!Honest' /\ written' \in Nat
    OBVIOUS
  <2>1. PICK n \in 0 .. written :
          received = Stream!FirstBytes(n)
          /\ (reader = "closed" => writer = "closed" /\ n = written)
    BY DEF Stream!Honest
  <2>2. CASE Stream!Write
    <3>1. /\ writer # "closed" /\ written' \in Nat /\ written' > written
          /\ received' = received /\ (reader' = "closed") = (reader = "closed")
      BY <2>2 DEF Stream!Write
    <3>2. n \in 0 .. written' /\ reader' # "closed"
      BY <2>1, <3>1
    <3> QED BY <2>1, <3>1, <3>2 DEF Stream!Honest, Stream!FirstBytes
  <2>3. CASE Stream!Deliver
    <3>1. /\ reader # "closed" /\ written' = written
          /\ (reader' = "closed") = (reader = "closed")
          /\ \E k \in 0 .. written : \E m \in k + 1 .. written :
               received' = Stream!FirstBytes(m)
      BY <2>3 DEF Stream!Deliver
    <3>2. \E m \in 0 .. written' : received' = Stream!FirstBytes(m)
      BY <3>1
    <3> QED BY <3>1, <3>2 DEF Stream!Honest, Stream!FirstBytes
  <2>4. CASE Stream!Close
    BY <2>1, <2>4 DEF Stream!Close, Stream!Honest, Stream!FirstBytes
  <2>5. CASE Stream!End
    <3>1. /\ writer = "closed" /\ received = Stream!FirstBytes(written)
          /\ written' = written /\ received' = received
          /\ (writer' = "closed") = (writer = "closed")
      BY <2>5 DEF Stream!End
    <3>2. written \in 0 .. written'
      BY <3>1
    <3> QED BY <3>1, <3>2 DEF Stream!Honest, Stream!FirstBytes
  <2>6. CASE UNCHANGED Stream!vars
    BY <2>1, <2>6 DEF Stream!vars, Stream!Honest, Stream!FirstBytes
  <2> QED BY <2>2, <2>3, <2>4, <2>5, <2>6 DEF Stream!Next
<1>3. Spec => Stream!Spec
  BY Refinement DEF ImplementsStream
<1>4. Stream!Spec => [](Stream!Honest /\ written \in Nat)
  <2> DEFINE Told == Stream!Honest /\ written \in Nat
  <2>1. Stream!Init => Told
    BY <1>1
  <2>2. Told /\ [Stream!Next]_(Stream!vars) => Told'
    BY <1>2
  <2> HIDE DEF Told
  <2>3. Stream!Spec => []Told
    BY <2>1, <2>2, PTL DEF Stream!Spec
  <2> QED BY <2>3 DEF Told
<1> QED BY <1>3, <1>4, PTL

-----------------------------------------------------------------------------
(* The queue of the input stream for every host and any frames: with or    *)
(* without Lockstep, frames of data are within the permits.                *)
DataUnread(frames) == {i \in 1 .. Len(frames) : ~frames[i].eof}
Charged == permits + Held + Cardinality(DataUnread(inbox)) <= Permits
Fresh == inp.pc \in {"top", "consume"} => ~inp.forgot
AnyHost == TypeOK /\ Charged /\ Fresh

LEMMA UnreadFinite ==
  ASSUME NEW s \in Seq(Frame)
  PROVE  IsFiniteSet(DataUnread(s)) /\ Cardinality(DataUnread(s)) \in Nat
<1>1. IsFiniteSet(1 .. Len(s))
  BY FS_Interval
<1>2. DataUnread(s) \in SUBSET (1 .. Len(s))
  BY DEF DataUnread
<1> QED BY <1>1, <1>2, FS_Subset, FS_CardinalityType

LEMMA UnreadAdds ==
  ASSUME NEW s \in Seq(Frame), NEW f \in Frame
  PROVE  Cardinality(DataUnread(s \o <<f>>))
           = Cardinality(DataUnread(s)) + IF f.eof THEN 0 ELSE 1
<1> DEFINE t == s \o <<f>>
           k == Len(s) + 1
<1>1. /\ Len(s) \in Nat /\ Len(t) = k /\ t[k] = f
      /\ \A i \in 1 .. Len(s) : t[i] = s[i]
  OBVIOUS
<1>2. 1 .. k = (1 .. Len(s)) \cup {k} /\ k \notin 1 .. Len(s)
  BY <1>1
<1> HIDE DEF t, k
<1>3. CASE f.eof
  <2>1. DataUnread(t) = DataUnread(s)
    BY <1>1, <1>2, <1>3 DEF DataUnread
  <2> QED BY <1>3, <2>1, UnreadFinite DEF t
<1>4. CASE ~f.eof
  <2>1. DataUnread(t) = DataUnread(s) \cup {k} /\ k \notin DataUnread(s)
    BY <1>1, <1>2, <1>4 DEF DataUnread
  <2>2. IsFiniteSet(DataUnread(s))
    BY UnreadFinite
  <2>3. Cardinality(DataUnread(t)) = Cardinality(DataUnread(s)) + 1
    BY <2>1, <2>2, FS_AddElement
  <2> QED BY <1>4, <2>3 DEF t
<1> QED BY <1>3, <1>4

LEMMA UnreadDrops ==
  ASSUME NEW s \in Seq(Frame), s # <<>>, ~s[1].eof
  PROVE  Cardinality(DataUnread(Tail(s))) + 1 = Cardinality(DataUnread(s))
<1> DEFINE S == DataUnread(Tail(s))
           T == DataUnread(s) \ {1}
           up == [i \in S |-> i + 1]
<1>1. /\ Tail(s) \in Seq(Frame) /\ Len(Tail(s)) = Len(s) - 1
      /\ \A i \in 1 .. Len(s) - 1 : Tail(s)[i] = s[i + 1]
      /\ Len(s) \in Nat \ {0}
  BY TailTyped
<1>2. IsFiniteSet(DataUnread(s)) /\ IsFiniteSet(S) /\ Cardinality(DataUnread(s)) \in Nat
  BY <1>1, UnreadFinite
<1>3. 1 \in DataUnread(s)
  BY <1>1 DEF DataUnread
<1>4. ASSUME NEW i \in Int
      PROVE  i \in S <=> i + 1 \in T
  <2>1. i \in 1 .. Len(s) - 1 <=> i + 1 \in 1 .. Len(s) /\ i + 1 # 1
    BY <1>1
  <2> QED BY <1>1, <2>1 DEF DataUnread
<1>5. S \subseteq Int /\ T \subseteq Int
  BY DEF DataUnread
<1> HIDE DEF S, T
<1>6. \A i \in S : up[i] = i + 1 /\ up[i] \in T
  BY <1>4, <1>5
<1>7. \A j \in T : j - 1 \in S /\ up[j - 1] = j
  <2> TAKE j \in T
  <2>1. j - 1 \in Int /\ (j - 1) + 1 = j
    BY <1>5
  <2> QED BY <1>4, <2>1
<1>8. up \in [S -> T]
  BY <1>6
<1> HIDE DEF up
<1>9. \A a, b \in S : up[a] = up[b] => a = b
  BY <1>5, <1>6
<1>10. up \in Bijection(S, T)
  BY <1>7, <1>8, <1>9 DEF Bijection, Injection, Surjection, IsInjective
<1>11. Cardinality(T) = Cardinality(S)
  BY <1>2, <1>10, FS_Bijection DEF ExistsBijection
<1>12. Cardinality(T) = Cardinality(DataUnread(s)) - 1
  BY <1>2, <1>3, FS_RemoveElement DEF T
<1> QED BY <1>2, <1>11, <1>12 DEF S

LEMMA UnreadSame ==
  ASSUME NEW s, NEW t, Len(t) = Len(s), \A i \in 1 .. Len(s) : t[i].eof = s[i].eof
  PROVE  DataUnread(t) = DataUnread(s)
BY DEF DataUnread

-----------------------------------------------------------------------------
(* What an end hears are positions.                                        *)
LEMMA MessagesTyped ==
  ASSUME TypeOK, NEW e \in End
  PROVE  Messages(e) \in Seq(Nat)
<1> DEFINE k == pushed[Other(e)] - taken[e]
<1>1. /\ taken[e] \in Nat /\ k \in Int /\ Count \in Nat \ {0}
      /\ slots \in [0 .. Count - 1 -> Nat]
  BY Consts DEF TypeOK, End, Other
<1> HIDE DEF k
<1>2. ASSUME NEW i \in 1 .. k
      PROVE  slots[(taken[e] + i - 1) % Count] \in Nat
  <2>1. taken[e] + i - 1 \in Nat
    BY <1>1
  <2>2. (taken[e] + i - 1) % Count \in 0 .. Count - 1
    BY <1>1, <2>1, ModRange
  <2> QED BY <1>1, <2>2
<1>3. Messages(e) = [i \in 1 .. k |-> slots[(taken[e] + i - 1) % Count]]
  BY DEF Messages, k
<1>4. CASE k \in Nat
  BY <1>2, <1>3, <1>4
<1>5. CASE k \notin Nat
  <2>1. 1 .. k = {}
    BY <1>1, <1>5
  <2>2. Messages(e) = <<>>
    BY <1>3, <2>1
  <2> QED BY <2>2
<1> QED BY <1>4, <1>5

LEMMA LatestTyped ==
  ASSUME NEW h \in Nat, NEW items \in Seq(Nat)
  PROVE  Latest(Heard(h, items)) \in Nat
<1>1. <<h>> \in Seq(Nat) /\ Len(<<h>>) = 1
  OBVIOUS
<1>2. <<h>> \o items \in Seq(Nat) /\ Len(<<h>> \o items) = 1 + Len(items)
  BY <1>1
<1>3. Len(items) \in Nat
  OBVIOUS
<1>4. Len(<<h>> \o items) \in 1 .. Len(<<h>> \o items)
  BY <1>2, <1>3
<1> QED BY <1>2, <1>4, Element DEF Latest, Heard

LEMMA HeardTyped ==
  ASSUME TypeOK
  PROVE  Latest(HeardByOut) \in Nat /\ Latest(HeardByIn) \in Nat
<1>1. "out" \in End /\ "in" \in End /\ out.head \in Nat /\ inp.head \in Nat /\ Size \in Nat
  BY Numbers, Consts DEF End
<1>2. Messages("out") \in Seq(Nat) /\ Messages("in") \in Seq(Nat)
  BY <1>1, MessagesTyped
<1> DEFINE ms == Messages("out")
           credits == [i \in DOMAIN ms |-> Credit(ms[i])]
<1>3. credits \in Seq(Nat)
  <2>1. ms \in Seq(Nat)
    BY <1>2
  <2> HIDE DEF ms
  <2>2. \A i \in DOMAIN ms : Credit(ms[i]) \in Nat
    BY <1>1, <2>1 DEF Credit
  <2>3. DOMAIN ms = 1 .. Len(ms) /\ Len(ms) \in Nat
    BY <2>1
  <2> QED BY <2>2, <2>3
<1>4. HeardByOut = Heard(out.head, credits)
  BY DEF HeardByOut
<1> HIDE DEF credits
<1> QED BY <1>1, <1>2, <1>3, <1>4, LatestTyped DEF HeardByIn

-----------------------------------------------------------------------------
(* The steps of the output side keep the types; they leave the queue of    *)
(* the input side alone.                                                   *)
LEMMA AnyOutSide ==
  ASSUME AnyHost, UNCHANGED inVars, TypeOK'
  PROVE  AnyHost'
<1>1. inbox' = inbox /\ permits' = permits /\ inp' = inp
  BY DEF inVars
<1> QED BY <1>1 DEF AnyHost, Charged, Fresh, Held

LEMMA AppendTyped ==
  ASSUME NEW S, NEW s \in Seq(S), NEW x \in S
  PROVE  Append(s, x) \in Seq(S)
OBVIOUS

LEMMA MarksTyped == Eof \in Frame /\ FlushMark \in Frame
<1>1. <<>> \in Seq(Byte \cup {-1})
  OBVIOUS
<1> QED BY <1>1 DEF Eof, FlushMark, Data, Frame

LEMMA AnyWriter ==
  ASSUME AnyHost, WriterStep
  PROVE  AnyHost'
<1>1. TypeOK /\ outbox \in Seq(Frame) /\ written \in Nat /\ MaxBytes \in Nat
      /\ flushLevel \in 0 .. MaxFlushes /\ MaxFlushes \in Nat
  BY Numbers, Consts DEF AnyHost, TypeOK
<1>2. ASSUME NEW n \in 1 .. MaxFrame, Write(n)
      PROVE  TypeOK' /\ UNCHANGED inVars
  <2> DEFINE bytes == [i \in 1 .. n |-> written + i - 1]
  <2>1. /\ written + n <= MaxBytes /\ outbox' = Append(outbox, Data(bytes))
        /\ written' = written + n
        /\ writer' = IF Flushing THEN "unflushed" ELSE "open"
        /\ UNCHANGED <<shared, inVars, flushLevel, flushed, out, marks>>
    BY <1>2 DEF Write
  <2>2. n \in Nat \ {0} /\ written' \in 0 .. MaxBytes
    BY <1>1, <2>1, Consts
  <2>3. \A i \in 1 .. n : written + i - 1 \in Byte
    BY <1>1, <2>1, <2>2 DEF Byte
  <2>4. bytes \in Seq(Byte \cup {-1})
    BY <2>2, <2>3
  <2> HIDE DEF bytes
  <2>5. outbox' \in Seq(Frame)
    BY <1>1, <2>1, <2>4, FrameTyped, AppendTyped
  <2> QED BY <1>1, <2>1, <2>2, <2>5 DEF TypeOK, shared, inVars
<1>3. ASSUME Flush PROVE TypeOK' /\ UNCHANGED inVars
  <2>1. /\ flushLevel < MaxFlushes /\ flushLevel' = flushLevel + 1
        /\ outbox' = Append(outbox, FlushMark) /\ marks' = Append(marks, written)
        /\ writer' = AtReady(flushLevel')
        /\ UNCHANGED <<shared, inVars, flushed, out, written>>
    BY <1>3 DEF Flush
  <2>2. outbox' \in Seq(Frame)
    BY <1>1, <2>1, MarksTyped, AppendTyped
  <2>3. marks \in Seq(0 .. MaxBytes) /\ written \in 0 .. MaxBytes
    BY <1>1 DEF TypeOK
  <2>4. marks' \in Seq(0 .. MaxBytes)
    BY <2>1, <2>3, AppendTyped
  <2>5. flushLevel' \in 0 .. MaxFlushes
    BY <1>1, <2>1
  <2> QED BY <1>1, <2>1, <2>2, <2>4, <2>5 DEF TypeOK, shared, inVars, AtReady
<1>4. ASSUME Close PROVE TypeOK' /\ UNCHANGED inVars
  <2>1. /\ outbox' = Append(outbox, Eof) /\ writer' = "closed"
        /\ UNCHANGED <<shared, inVars, flushLevel, flushed, out, written, marks>>
    BY <1>4 DEF Close
  <2>2. outbox' \in Seq(Frame)
    BY <1>1, <2>1, MarksTyped, AppendTyped
  <2> QED BY <1>1, <2>1, <2>2 DEF TypeOK, shared, inVars
<1> QED BY <1>2, <1>3, <1>4, AnyOutSide DEF WriterStep

LEMMA AnyOutReaps ==
  ASSUME AnyHost, OutReap \/ OutReapFlushing \/ OutReapFlushed
  PROVE  AnyHost'
<1> DEFINE head == Latest(HeardByOut)
<1>1. /\ TypeOK /\ head \in Nat /\ out \in OutTask /\ pushed["in"] \in Nat
      /\ taken \in [End -> Nat] /\ flushed \in 0 .. MaxFlushes /\ MaxFlushes \in Nat
      /\ out.outstanding \in Nat
  BY HeardTyped, Numbers, Consts DEF AnyHost, TypeOK
<1> HIDE DEF head
<1>2. /\ taken' = [taken EXCEPT !["out"] = pushed["in"]]
      /\ UNCHANGED <<area, slots, pushed, inVars, outbox, flushLevel, written, marks>>
  BY DEF OutReap, OutReapFlushing, OutReapFlushed, OutTakes
<1>3. taken' \in [End -> Nat]
  BY <1>1, <1>2
<1>4. /\ flushed' \in 0 .. MaxFlushes
      /\ writer' \in {"open", "unflushed", "waiting", "closed"}
      /\ out' \in OutTask
  <2>1. CASE OutReap
    <3>1. /\ out' = [out EXCEPT !.pc = "fill", !.head = head]
          /\ flushed' = flushed /\ writer' = writer
      BY <2>1 DEF OutReap, head
    <3> QED BY <1>1, <3>1 DEF OutTask, TypeOK
  <2>2. CASE OutReapFlushing
    <3>1. /\ out' = [out EXCEPT !.pc = "announce", !.head = head]
          /\ flushed' = flushed /\ writer' = writer
      BY <2>2 DEF OutReapFlushing, head
    <3> QED BY <1>1, <3>1 DEF OutTask, TypeOK
  <2>3. CASE OutReapFlushed
    <3>1. /\ out' = [out EXCEPT !.pc = "announce", !.head = head, !.outstanding = 0]
          /\ flushed' = Counted(flushed + out.outstanding)
          /\ writer' = IF writer = "waiting" /\ flushed' >= flushLevel
                       THEN "open" ELSE writer
      BY <2>3 DEF OutReapFlushed, head
    <3>2. flushed' \in 0 .. MaxFlushes
      BY <1>1, <3>1 DEF Counted, Least
    <3>3. out' \in OutTask
      BY <1>1, <3>1 DEF OutTask
    <3>4. writer' = "open" \/ writer' = writer
      BY <3>1
    <3> QED BY <1>1, <3>2, <3>3, <3>4 DEF TypeOK
  <2> QED BY <2>1, <2>2, <2>3
<1>5. TypeOK' /\ UNCHANGED inVars
  BY <1>1, <1>2, <1>3, <1>4 DEF TypeOK, inVars
<1> QED BY <1>5, AnyOutSide

LEMMA AnyFillFrame ==
  ASSUME AnyHost, FillFrame
  PROVE  AnyHost'
<1> DEFINE frame == Head(outbox).bytes
           n == Least(Len(frame), out.head - out.sequence)
           At(i) == Place(out.sequence + i - 1)
           Source(a) == CHOOSE i \in 1 .. n : At(i) = a
<1>1. /\ outbox # <<>> /\ Splits(out.sequence, out.head)
      /\ area' = [a \in Space |-> IF \E i \in 1 .. n : At(i) = a
                                  THEN frame[Source(a)] ELSE area[a]]
      /\ out' = [out EXCEPT !.sequence = @ + n]
      /\ outbox' = Tail(outbox)
      /\ UNCHANGED <<slots, pushed, taken, inVars, flushLevel, flushed, writer,
                     written, marks>>
  BY DEF FillFrame
<1>2. /\ TypeOK /\ outbox \in Seq(Frame) /\ out \in OutTask
      /\ out.sequence \in Nat /\ out.head \in Nat /\ out.sequence <= out.head
      /\ area \in [Space -> Byte \cup {-1}]
  BY <1>1, Numbers DEF AnyHost, TypeOK, Splits
<1>3. outbox' \in Seq(Frame) /\ Head(outbox) \in Frame
  BY <1>1, <1>2
<1>4. frame \in Seq(Byte \cup {-1})
  BY <1>3 DEF Frame
<1> HIDE DEF frame
<1>5. n \in Nat /\ n <= Len(frame)
  BY <1>2, <1>4 DEF Least
<1> HIDE DEF n
<1>6. area' \in [Space -> Byte \cup {-1}]
  <2>1. ASSUME NEW a \in Space, \E i \in 1 .. n : At(i) = a
        PROVE  frame[Source(a)] \in Byte \cup {-1}
    <3>1. Source(a) \in 1 .. n
      BY <2>1
    <3> HIDE DEF Source
    <3>2. Source(a) \in 1 .. Len(frame)
      BY <1>4, <1>5, <3>1
    <3> QED BY <1>4, <3>2, Element
  <2> HIDE DEF Source, At
  <2> QED BY <1>1, <1>2, <2>1
<1>7. out' \in OutTask
  <2>1. out.sequence + n \in Nat
    BY <1>2, <1>5
  <2>2. out' = [out EXCEPT !.sequence = out.sequence + n]
    BY <1>1
  <2> QED BY <1>2, <2>1, <2>2 DEF OutTask
<1>8. TypeOK' /\ UNCHANGED inVars
  BY <1>1, <1>2, <1>3, <1>6, <1>7 DEF TypeOK, inVars
<1> QED BY <1>8, AnyOutSide

LEMMA AnyFillEnds ==
  ASSUME AnyHost, FillMark \/ FillEnds
  PROVE  AnyHost'
<1>1. TypeOK /\ outbox \in Seq(Frame) /\ out \in OutTask /\ out.flushes \in Nat
  BY Numbers DEF AnyHost, TypeOK
<1>2. CASE FillMark
  <2>1. /\ outbox # <<>> /\ outbox' = Tail(outbox)
        /\ out' = [out EXCEPT !.flushes = @ + 1]
        /\ UNCHANGED <<shared, inVars, flushLevel, flushed, writer, written, marks>>
    BY <1>2 DEF FillMark
  <2>2. outbox' \in Seq(Frame)
    BY <1>1, <2>1, TailTyped
  <2>3. out' \in OutTask
    <3>1. out' = [out EXCEPT !.flushes = out.flushes + 1]
      BY <2>1
    <3>2. out.flushes + 1 \in Nat
      BY <1>1
    <3> QED BY <1>1, <3>1, <3>2 DEF OutTask
  <2>4. UNCHANGED <<area, slots, pushed, taken, inVars, flushLevel, flushed, writer, written, marks>>
    BY <2>1 DEF shared
  <2>5. UNCHANGED <<inbox, permits, inp, reader, received>>
    BY <2>4 DEF inVars
  <2> HIDE DEF inVars
  <2>6. TypeOK'
    BY <1>1, <2>2, <2>3, <2>4, <2>5 DEF TypeOK
  <2> QED BY <2>4, <2>6, AnyOutSide
<1>3. CASE FillEnds
  <2> DEFINE atEof == outbox # <<>> /\ Head(outbox).eof
             due == out.flushes + (IF atEof THEN 1 ELSE 0)
             pending == out.pendingEof \/ atEof
  <2>1. /\ out' = [out EXCEPT !.pc = "announce", !.flushes = 0,
                     !.outstanding = due, !.pendingEof = pending]
        /\ UNCHANGED <<shared, inVars, outbox, flushLevel, flushed, writer, written, marks>>
    BY <1>3 DEF FillEnds
  <2> HIDE DEF atEof
  <2>2. due \in Nat
    BY <1>1
  <2>3. pending \in BOOLEAN
    OBVIOUS
  <2> HIDE DEF due, pending
  <2>4. out' \in OutTask
    BY <1>1, <2>1, <2>2, <2>3 DEF OutTask
  <2>5. TypeOK' /\ UNCHANGED inVars
    BY <1>1, <2>1, <2>4 DEF TypeOK, shared, inVars
  <2> QED BY <2>5, AnyOutSide
<1> QED BY <1>2, <1>3

(* What Send leaves in the ring.                                           *)
LEMMA SendTyped ==
  ASSUME TypeOK, NEW e \in End, NEW message \in Nat, Send(e, message)
  PROVE  slots' \in [0 .. Count - 1 -> Nat] /\ pushed' \in [End -> Nat]
<1>1. /\ slots \in [0 .. Count - 1 -> Nat] /\ pushed \in [End -> Nat] /\ pushed[e] \in Nat
      /\ slots' = [slots EXCEPT ![pushed[e] % Count] = message]
      /\ pushed' = [pushed EXCEPT ![e] = @ + 1]
  BY DEF TypeOK, Send
<1>2. slots' \in [0 .. Count - 1 -> Nat]
  BY <1>1
<1>3. pushed[e] + 1 \in Nat
  BY <1>1
<1> QED BY <1>1, <1>2, <1>3

LEMMA AnyOutAnnounces ==
  ASSUME AnyHost, OutAnnounce \/ OutAnnounceNothing
  PROVE  AnyHost'
<1>1. TypeOK /\ out \in OutTask /\ out.sequence \in Nat /\ "out" \in End
  BY Numbers DEF AnyHost, TypeOK, End
<1>2. CASE OutAnnounce
  <2> DEFINE ended == out.sentEof \/ EndIsNews
  <2>1. /\ Send("out", out.sequence)
        /\ out' = [out EXCEPT !.pc = "top", !.released = out.sequence, !.sentEof = ended]
        /\ UNCHANGED <<area, taken, inVars, outbox, flushLevel, flushed, writer,
                       written, marks>>
    BY <1>2 DEF OutAnnounce
  <2>2. slots' \in [0 .. Count - 1 -> Nat] /\ pushed' \in [End -> Nat]
    BY <1>1, <2>1, SendTyped
  <2>3. ended \in BOOLEAN
    OBVIOUS
  <2> HIDE DEF ended
  <2>4. out' \in OutTask
    BY <1>1, <2>1, <2>3 DEF OutTask
  <2>5. TypeOK' /\ UNCHANGED inVars
    BY <1>1, <2>1, <2>2, <2>4 DEF TypeOK, inVars
  <2> QED BY <2>5, AnyOutSide
<1>3. CASE OutAnnounceNothing
  <2>1. /\ out' = [out EXCEPT !.pc = "top"]
        /\ UNCHANGED <<shared, inVars, outbox, flushLevel, flushed, writer, written, marks>>
    BY <1>3 DEF OutAnnounceNothing
  <2>2. out' \in OutTask
    BY <1>1, <2>1 DEF OutTask
  <2>3. TypeOK' /\ UNCHANGED inVars
    BY <1>1, <2>1, <2>2 DEF TypeOK, shared, inVars
  <2> QED BY <2>3, AnyOutSide
<1> QED BY <1>2, <1>3

-----------------------------------------------------------------------------
(* The steps of the input side.                                            *)
LEMMA AnyInReap ==
  ASSUME AnyHost, InReap
  PROVE  AnyHost'
<1> DEFINE head == Latest(HeardByIn)
           eof == inp.eof \/ Repeats(HeardByIn)
<1>1. /\ inp.pc = "top" /\ permits > 0 /\ permits' = permits - 1
      /\ taken' = [taken EXCEPT !["in"] = pushed["out"]]
      /\ inp' = [inp EXCEPT !.pc = "consume", !.head = head, !.eof = eof]
      /\ UNCHANGED <<area, slots, pushed, outVars, inbox, reader, received>>
  BY DEF InReap
<1>2. /\ TypeOK /\ Charged /\ ~inp.forgot /\ head \in Nat /\ inp \in InTask
      /\ taken \in [End -> Nat] /\ pushed["out"] \in Nat
      /\ permits \in 0 .. Permits /\ permits \in Nat /\ Permits \in Nat
      /\ inbox \in Seq(Frame)
  BY <1>1, HeardTyped, Numbers, Consts DEF AnyHost, TypeOK, Fresh
<1>3. eof \in BOOLEAN
  BY DEF Repeats
<1> HIDE DEF head, eof
<1>4. inp' \in InTask /\ inp'.pc = "consume" /\ inp'.forgot = inp.forgot
  BY <1>1, <1>2, <1>3 DEF InTask
<1>5. taken' \in [End -> Nat] /\ permits' \in 0 .. Permits
  <2>1. taken' \in [End -> Nat]
    BY <1>1, <1>2
  <2>2. permits' \in 0 .. Permits
    BY <1>1, <1>2
  <2> QED BY <2>1, <2>2
<1>6. TypeOK'
  BY <1>1, <1>2, <1>4, <1>5 DEF TypeOK, outVars
<1>7. Charged'
  <2>1. Held = 0 /\ Held' = 1
    BY <1>1, <1>2, <1>4 DEF Held
  <2>2. Cardinality(DataUnread(inbox)) \in Nat
    BY <1>2, UnreadFinite
  <2> QED BY <1>1, <1>2, <2>1, <2>2 DEF Charged
<1>8. Fresh'
  BY <1>2, <1>4 DEF Fresh
<1> QED BY <1>6, <1>7, <1>8 DEF AnyHost

LEMMA JoinedTwice ==
  ASSUME NEW S, NEW a \in Seq(S), NEW b \in Seq(S), NEW c \in Seq(S)
  PROVE  a \o (b \o c) = (a \o b) \o c
OBVIOUS

(* A round tells of a frame of data at most, and then keeps the permit.    *)
LEMMA AnyInConsume ==
  ASSUME AnyHost, InConsume
  PROVE  AnyHost'
<1> DEFINE data == Announced
           told == IF data # <<>> THEN <<Data(data)>> ELSE <<>>
           end == IF inp.eof THEN <<Eof>> ELSE <<>>
           frames == told \o end
           forgot == Forgets(frames)
           m == inp.head - inp.sequence
<1>1. /\ inp.pc = "consume" /\ Splits(inp.sequence, inp.head)
      /\ inbox' = inbox \o frames
      /\ inp' = [inp EXCEPT !.pc = "ack", !.sequence = inp.head, !.forgot = forgot]
      /\ reader' = IF Tells(data, inp.eof) /\ reader = "waiting"
                   THEN "running" ELSE reader
      /\ UNCHANGED <<shared, outVars, permits, received>>
  BY DEF InConsume
<1>2. /\ TypeOK /\ Charged /\ ~inp.forgot /\ inp \in InTask
      /\ inp.sequence \in Nat /\ inp.head \in Nat /\ inp.sequence <= inp.head
      /\ permits \in Nat /\ Permits \in Nat /\ inbox \in Seq(Frame)
      /\ area \in [Space -> Byte \cup {-1}] /\ Size \in Nat \ {0}
  BY <1>1, Numbers, Consts DEF AnyHost, TypeOK, Fresh, Splits
<1>3. data \in Seq(Byte \cup {-1})
  <2>1. m \in Nat
    BY <1>2
  <2>2. ASSUME NEW i \in 1 .. m
        PROVE  area[(inp.sequence + i - 1) % Size] \in Byte \cup {-1}
    <3>1. inp.sequence + i - 1 \in Nat
      BY <1>2
    <3>2. (inp.sequence + i - 1) % Size \in Space
      BY <1>2, <3>1, ModRange DEF Space
    <3> QED BY <1>2, <3>2
  <2>3. data = [i \in 1 .. m |-> area[(inp.sequence + i - 1) % Size]]
    BY DEF Announced
  <2> HIDE DEF data, m
  <2> QED BY <2>1, <2>2, <2>3
<1> HIDE DEF data
<1>4. Data(data) \in Frame /\ ~Data(data).eof /\ Eof \in Frame /\ Eof.eof
  BY <1>3, FrameTyped, MarksTyped DEF Eof
<1>5. forgot \in BOOLEAN /\ (forgot <=> frames # <<>>)
  BY DEF Forgets
<1> DEFINE before == inbox \o told
<1>6. before \in Seq(Frame) /\ inbox' = before \o end
  <2>1. told \in Seq(Frame) /\ end \in Seq(Frame)
    BY <1>4
  <2>2. inbox \in Seq(Frame) /\ inbox' = inbox \o (told \o end)
    BY <1>1, <1>2
  <2> HIDE DEF told, end, forgot, frames, m
  <2>3. inbox \o (told \o end) = (inbox \o told) \o end
    BY <2>1, <2>2, JoinedTwice
  <2>4. inbox \o told \in Seq(Frame)
    BY <2>1, <2>2, Joined
  <2> QED BY <2>2, <2>3, <2>4
<1>7. inbox' \in Seq(Frame)
  <2>1. end \in Seq(Frame)
    BY <1>4
  <2> HIDE DEF before, end
  <2> QED BY <1>6, <2>1
<1>8. Cardinality(DataUnread(before))
        = Cardinality(DataUnread(inbox)) + IF data # <<>> THEN 1 ELSE 0
  <2>1. CASE data # <<>>
    BY <1>2, <1>4, <2>1, UnreadAdds
  <2>2. CASE data = <<>>
    <3>1. before = inbox
      BY <1>2, <2>2
    <3> QED BY <1>2, <2>2, <3>1, UnreadFinite
  <2> QED BY <2>1, <2>2
<1>9. Cardinality(DataUnread(inbox')) = Cardinality(DataUnread(before))
  <2> HIDE DEF before
  <2>1. CASE inp.eof
    <3>1. end = <<Eof>>
      BY <2>1
    <3>2. inbox' = before \o <<Eof>>
      BY <1>6, <3>1
    <3> QED BY <1>4, <1>6, <3>2, UnreadAdds, UnreadFinite
  <2>2. CASE ~inp.eof
    <3>1. inbox' = before
      BY <1>6, <2>2
    <3> QED BY <3>1
  <2> QED BY <2>1, <2>2
<1>10. data # <<>> => frames # <<>>
  <2>1. ASSUME data # <<>> PROVE Len(frames) # 0
    <3>1. told = <<Data(data)>> /\ end \in Seq(Frame) /\ told \in Seq(Frame)
      BY <1>4, <2>1
    <3> HIDE DEF told, end
    <3>2. Len(told \o end) = 1 + Len(end) /\ Len(end) \in Nat
      BY <3>1
    <3> QED BY <3>2
  <2> QED BY <2>1
<1> HIDE DEF before, forgot, frames, told, end
<1>11. /\ inp' \in InTask /\ inp'.pc = "ack" /\ inp'.forgot = forgot
  BY <1>1, <1>2, <1>5 DEF InTask
<1>12. TypeOK'
  <2>1. reader' = "running" \/ reader' = reader
    BY <1>1
  <2> QED BY <1>1, <1>2, <1>7, <1>11, <2>1 DEF TypeOK, shared, outVars
<1>13. Charged'
  <2>1. Held = 1 /\ Held' = IF forgot THEN 0 ELSE 1
    BY <1>1, <1>2, <1>11 DEF Held
  <2>2. Cardinality(DataUnread(inbox)) \in Nat
    BY <1>2, UnreadFinite
  <2>3. permits' = permits
    BY <1>1
  <2> QED BY <1>2, <1>5, <1>8, <1>9, <1>10, <2>1, <2>2, <2>3 DEF Charged
<1>14. Fresh'
  BY <1>11 DEF Fresh
<1> QED BY <1>12, <1>13, <1>14 DEF AnyHost

LEMMA AnyInAcks ==
  ASSUME AnyHost, InAck \/ InAckNothing
  PROVE  AnyHost'
<1>1. /\ TypeOK /\ inp \in InTask /\ inp.sequence \in Nat /\ "in" \in End
      /\ inp.pc = "ack"
      /\ UNCHANGED <<area, taken, outVars, inbox, permits, reader, received>>
  BY Numbers DEF AnyHost, TypeOK, End, InAck, InAckNothing, shared
<1>2. slots' \in [0 .. Count - 1 -> Nat] /\ pushed' \in [End -> Nat]
  <2>1. CASE InAck
    BY <1>1, <2>1, SendTyped DEF InAck
  <2>2. CASE InAckNothing
    BY <1>1, <2>2 DEF InAckNothing, shared, TypeOK
  <2> QED BY <2>1, <2>2
<1>3. inp' \in InTask /\ inp'.pc = "wait" /\ inp'.forgot = inp.forgot
  <2>1. CASE InAck
    BY <1>1, <2>1 DEF InAck, InTask
  <2>2. CASE InAckNothing
    BY <1>1, <2>2 DEF InAckNothing, InTask
  <2> QED BY <2>1, <2>2
<1>4. TypeOK'
  BY <1>1, <1>2, <1>3 DEF TypeOK, outVars
<1>5. Charged' /\ Fresh'
  BY <1>1, <1>3 DEF AnyHost, Charged, Fresh, Held
<1> QED BY <1>4, <1>5 DEF AnyHost

LEMMA AnyInWait ==
  ASSUME AnyHost, InWait
  PROVE  AnyHost'
<1>1. /\ inp.pc = "wait" /\ permits' = IF inp.forgot THEN permits ELSE permits + 1
      /\ inp' = [inp EXCEPT !.pc = "top", !.forgot = FALSE]
      /\ UNCHANGED <<shared, outVars, inbox, reader, received>>
  BY DEF InWait
<1>2. /\ TypeOK /\ Charged /\ inp \in InTask /\ inp.forgot \in BOOLEAN
      /\ permits \in Nat /\ Permits \in Nat /\ inbox \in Seq(Frame)
      /\ Cardinality(DataUnread(inbox)) \in Nat
  <2>1. TypeOK /\ Charged /\ inp \in InTask /\ inbox \in Seq(Frame)
    BY DEF AnyHost, TypeOK
  <2> QED BY <2>1, Numbers, Consts, UnreadFinite DEF InTask
<1>3. inp' \in InTask /\ inp'.pc = "top" /\ ~inp'.forgot
  BY <1>1, <1>2 DEF InTask
<1>4. Held = (IF inp.forgot THEN 0 ELSE 1) /\ Held' = 0
  BY <1>1, <1>2, <1>3 DEF Held
<1>5. permits' + Held' = permits + Held /\ permits' \in Nat /\ permits' <= Permits
  BY <1>1, <1>2, <1>4 DEF Charged
<1>6. TypeOK'
  BY <1>1, <1>2, <1>3, <1>5 DEF TypeOK, shared, outVars
<1>7. Charged' /\ Fresh'
  BY <1>1, <1>2, <1>3, <1>4, <1>5 DEF Charged, Fresh
<1> QED BY <1>6, <1>7 DEF AnyHost

(* What a host takes off the queue gives the permit back, once.            *)
LEMMA AnyRead ==
  ASSUME AnyHost, NEW n \in Nat \ {0}, Read(n)
  PROVE  AnyHost'
<1> DEFINE bytes == Head(inbox).bytes
           m == Least(n, Len(bytes))
           rest == SubSeq(bytes, m + 1, Len(bytes))
           first == SubSeq(bytes, 1, m)
<1>1. /\ inbox # <<>> /\ ~Head(inbox).eof
      /\ received' = received \o first
      /\ inbox' = IF rest = <<>> THEN Tail(inbox)
                  ELSE <<Data(rest)>> \o Tail(inbox)
      /\ permits' = IF rest = <<>> THEN permits + 1 ELSE permits
      /\ UNCHANGED <<shared, outVars, inp, reader>>
  BY DEF Read, Restores
<1>2. /\ TypeOK /\ Charged /\ Fresh /\ inp \in InTask
      /\ inbox \in Seq(Frame) /\ received \in Seq(Byte \cup {-1})
      /\ permits \in Nat /\ Permits \in Nat
  BY Numbers, Consts DEF AnyHost, TypeOK
<1>3. /\ Tail(inbox) \in Seq(Frame) /\ Len(Tail(inbox)) = Len(inbox) - 1
      /\ \A i \in 1 .. Len(inbox) - 1 : Tail(inbox)[i] = inbox[i + 1]
      /\ Len(inbox) \in Nat \ {0}
  BY <1>1, <1>2, TailTyped
<1>4. Head(inbox) = inbox[1] /\ inbox[1] \in Frame /\ ~inbox[1].eof
  BY <1>1, <1>2, <1>3
<1>5. bytes \in Seq(Byte \cup {-1})
  BY <1>4 DEF Frame
<1> HIDE DEF bytes
<1>6. m \in Nat /\ m <= Len(bytes) /\ Len(bytes) \in Nat
  BY <1>5 DEF Least
<1> HIDE DEF m
<1>7. first \in Seq(Byte \cup {-1}) /\ rest \in Seq(Byte \cup {-1})
  <2>1. \A i \in 1 .. Len(bytes) : bytes[i] \in Byte \cup {-1}
    BY <1>5
  <2> QED BY <1>5, <1>6, <2>1
<1> HIDE DEF first, rest
<1>8. received' \in Seq(Byte \cup {-1})
  <2> DEFINE S == Byte \cup {-1}
  <2>1. received \in Seq(S) /\ first \in Seq(S)
    BY <1>2, <1>7
  <2> HIDE DEF S
  <2>2. received' \in Seq(S)
    BY <1>1, <2>1
  <2> QED BY <2>2 DEF S
<1> DEFINE d == Cardinality(DataUnread(inbox))
<1>9. d \in Nat
  BY <1>2, UnreadFinite
<1>10. Held' = Held /\ Held \in {0, 1} /\ permits + Held + d <= Permits
  BY <1>1, <1>2 DEF Held, Charged
<1>11. CASE rest = <<>>
  <2>1. inbox' = Tail(inbox) /\ permits' = permits + 1
    BY <1>1, <1>11
  <2>2. Cardinality(DataUnread(inbox')) + 1 = d
    BY <1>1, <1>2, <1>4, <2>1, UnreadDrops
  <2>3. Cardinality(DataUnread(inbox')) \in Nat
    BY <1>3, <2>1, UnreadFinite
  <2> HIDE DEF d
  <2>4. permits' + Held' + Cardinality(DataUnread(inbox')) <= Permits /\ permits' \in 0 .. Permits
    BY <1>2, <1>9, <1>10, <2>1, <2>2, <2>3
  <2>5. TypeOK'
    BY <1>1, <1>2, <1>3, <1>8, <2>1, <2>4 DEF TypeOK, shared, outVars
  <2> QED BY <1>1, <1>2, <2>4, <2>5 DEF AnyHost, Charged, Fresh
<1>12. CASE rest # <<>>
  <2>1. inbox' = <<Data(rest)>> \o Tail(inbox) /\ permits' = permits
    BY <1>1, <1>12
  <2>2. Data(rest) \in Frame /\ ~Data(rest).eof
    BY <1>7, FrameTyped
  <2>3. <<Data(rest)>> \in Seq(Frame) /\ Len(<<Data(rest)>>) = 1
        /\ <<Data(rest)>>[1] = Data(rest)
    BY <2>2
  <2>4. /\ inbox' \in Seq(Frame) /\ Len(inbox') = 1 + (Len(inbox) - 1)
        /\ inbox'[1] = Data(rest)
        /\ \A i \in 1 .. Len(inbox) - 1 : inbox'[1 + i] = Tail(inbox)[i]
    <3> DEFINE a == <<Data(rest)>>  b == Tail(inbox)
    <3>1. a \in Seq(Frame) /\ b \in Seq(Frame) /\ Len(a) = 1 /\ Len(b) = Len(inbox) - 1
          /\ a[1] = Data(rest) /\ inbox' = a \o b
      BY <1>3, <2>1, <2>3
    <3> HIDE DEF a, b, d
    <3>2. a \in Seq(Frame) /\ b \in Seq(Frame)
      BY <3>1
    <3>3. /\ a \o b \in Seq(Frame) /\ Len(a \o b) = Len(a) + Len(b)
          /\ \A i \in 1 .. Len(a) : (a \o b)[i] = a[i]
          /\ \A i \in 1 .. Len(b) : (a \o b)[Len(a) + i] = b[i]
      BY <3>2, Joined
    <3> QED BY <3>1, <3>3 DEF b
  <2>5. Len(inbox') = Len(inbox)
    BY <1>3, <2>4
  <2>6. \A i \in 1 .. Len(inbox) : inbox'[i].eof = inbox[i].eof
    <3> TAKE i \in 1 .. Len(inbox)
    <3>1. CASE i = 1
      <4>1. inbox[1].eof = FALSE /\ Data(rest).eof = FALSE
        <5>1. inbox[1].eof \in BOOLEAN
          BY <1>4 DEF Frame
        <5> QED BY <1>4, <5>1 DEF Data
      <4> QED BY <2>4, <3>1, <4>1
    <3>2. CASE i # 1
      <4>1. i - 1 \in 1 .. Len(inbox) - 1 /\ 1 + (i - 1) = i /\ (i - 1) + 1 = i
        BY <1>3, <3>2
      <4>2. inbox'[i] = Tail(inbox)[i - 1] /\ Tail(inbox)[i - 1] = inbox[i]
        BY <1>3, <2>4, <4>1
      <4> QED BY <4>2
    <3> QED BY <3>1, <3>2
  <2>7. DataUnread(inbox') = DataUnread(inbox)
    BY <2>5, <2>6, UnreadSame
  <2>8. TypeOK'
    BY <1>1, <1>2, <1>8, <2>1, <2>4 DEF TypeOK, shared, outVars
  <2>9. Charged'
    BY <1>2, <1>10, <2>1, <2>7 DEF Charged
  <2>10. Fresh'
    BY <1>1, <1>2 DEF Fresh
  <2> QED BY <2>8, <2>9, <2>10 DEF AnyHost
<1> QED BY <1>11, <1>12

LEMMA AnyReadNothingOrEnd ==
  ASSUME AnyHost, ReadNothing \/ ReadEnd
  PROVE  AnyHost'
<1>1. /\ reader' \in {"running", "waiting", "closed"}
      /\ UNCHANGED <<shared, outVars, inbox, permits, inp, received>>
  BY DEF ReadNothing, ReadEnd
<1>2. TypeOK'
  BY <1>1 DEF AnyHost, TypeOK, shared, outVars
<1> QED BY <1>1, <1>2 DEF AnyHost, Charged, Fresh, Held

LEMMA AnyInit == Init => AnyHost
<1> SUFFICES ASSUME Init PROVE AnyHost
  OBVIOUS
<1>1. TypeOK /\ inbox = <<>> /\ permits = Permits /\ inp.pc = "top" /\ ~inp.forgot
  BY InitInv DEF IInv, Init, InInit
<1>2. DataUnread(inbox) = {}
  BY <1>1 DEF DataUnread
<1>3. Cardinality(DataUnread(inbox)) = 0
  BY <1>2, FS_EmptySet
<1> QED BY <1>1, <1>3, Consts DEF AnyHost, Charged, Fresh, Held

LEMMA AnyStep ==
  ASSUME AnyHost, [Next]_vars
  PROVE  AnyHost'
<1>1. CASE OutStep
  BY <1>1, AnyOutReaps, AnyFillFrame, AnyFillEnds, AnyOutAnnounces DEF OutStep
<1>2. CASE InStep
  BY <1>2, AnyInReap, AnyInConsume, AnyInAcks, AnyInWait DEF InStep
<1>3. CASE ReaderStep
  <2>1. ASSUME NEW n \in 1 .. MaxFrame, Read(n) PROVE AnyHost'
    <3>1. n \in Nat \ {0}
      BY Consts
    <3> QED BY <2>1, <3>1, AnyRead
  <2> QED BY <1>3, <2>1, AnyReadNothingOrEnd DEF ReaderStep
<1>4. CASE UNCHANGED vars
  <2>1. UNCHANGED inVars /\ TypeOK'
    BY <1>4 DEF vars, AnyHost, TypeOK, shared, outVars, inVars
  <2> QED BY <2>1, AnyOutSide
<1> QED BY <1>1, <1>2, <1>3, <1>4, AnyWriter DEF Next

LEMMA AnyInvariant == Spec => []AnyHost
BY AnyInit, AnyStep, PTL DEF Spec

(* The queues, areas and tasks stay within their types, whatever the hosts *)
(* do: a permit given back twice would exceed Permits.                     *)
THEOREM TypeCorrect == Spec => []TypeOK
<1>1. AnyHost => TypeOK
  BY DEF AnyHost
<1> QED BY <1>1, AnyInvariant, PTL

(* Permits push back on the sender whatever the hosts do: no more frames   *)
(* of data wait for the reading host than there are permits.               *)
DataBounded == Cardinality(DataUnread(inbox)) <= Permits
THEOREM DataIsBounded == Spec => []DataBounded
<1>1. AnyHost => DataBounded
  <2> SUFFICES ASSUME AnyHost PROVE DataBounded
    OBVIOUS
  <2>1. /\ permits \in Nat /\ Permits \in Nat /\ Held \in {0, 1}
        /\ Cardinality(DataUnread(inbox)) \in Nat
        /\ permits + Held + Cardinality(DataUnread(inbox)) <= Permits
    BY Numbers, Consts, UnreadFinite DEF AnyHost, TypeOK, Charged, Held
  <2> QED BY <2>1 DEF DataBounded
<1> QED BY <1>1, AnyInvariant, PTL

=============================================================================
