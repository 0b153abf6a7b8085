----------------------------- MODULE StreamCopy -----------------------------
(***************************************************************************)
(* A byte stream through the data area of a ring:                          *)
(* src/examples/client-wasi/src/stream.rs, with the host loops of main.rs. *)
(*                                                                         *)
(* An OutputRing in one process and an InputRing in another have joined    *)
(* the two sides of a ring.  Each is a task that loops, and a host object  *)
(* (an output stream that is written, flushed and closed; an input stream  *)
(* that is read) that shares a queue of frames with the task.  The output  *)
(* task copies frames into the data area, a ring buffer of Size bytes, and *)
(* sends the stream position it has got to as a message; the input task    *)
(* copies out what lies before that position and sends the position back,  *)
(* which gives the space back.  The same position sent twice is the end of *)
(* the stream.                                                             *)
(*                                                                         *)
(* A process has one thread: its host runs while its task awaits, at the   *)
(* top of the loop or (input) in wait_for_message, and at no other time.   *)
(* An assertion that fails ends the task: it takes no further step.        *)
(* The two processes interleave at every step: a task's step is one use of *)
(* a queue handle (see RingQueue) or of the data area.  Bytes are numbered *)
(* in the order in which they are written.                                 *)
(***************************************************************************)
EXTENDS Integers, Sequences

CONSTANTS
  Size,        \* usable bytes of the data area: buffer_space_size
  Count,       \* entries in the ring, shared by the messages of both ends
  Permits,     \* frames the input host may leave unread: 32 in the program
  MaxFrame,    \* longest frame a host writes
  Flushing,    \* the host flushes after each write and waits for it
  MaxBytes,    \* bound: bytes written
  MaxFlushes   \* bound: calls of flush

ASSUME StreamAssumption ==
  /\ Size \in Nat \ {0}
  /\ Count \in Nat \ {0}
  /\ Permits \in Nat \ {0}
  /\ MaxFrame \in Nat \ {0}
  /\ Flushing \in BOOLEAN
  /\ MaxBytes \in Nat
  /\ MaxFlushes \in Nat

VARIABLES
  area,     \* shared: the data area
  slots,    \* shared: the entries of the ring
  pushed,   \* shared: per end, messages it has sent
  taken,    \* shared: per end, messages of the other end it has taken
  outbox,   \* frames written and not yet copied: OutputInner.buffer
  flushLevel, flushed,  \* of OutputInner
  out,      \* the locals of the output task, and where it is
  writer,   \* where the host of the output stream is
  inbox,    \* frames copied out and not yet read: InputInner.buffer
  permits,  \* of notify_consumed
  inp,      \* the locals of the input task, and where it is
  reader,   \* where the host of the input stream is
  written,  \* history: bytes written
  received, \* history: the bytes read, in order
  marks     \* history: what was written when flush was called

shared == <<area, slots, pushed, taken>>
outVars == <<outbox, flushLevel, flushed, out, writer, written, marks>>
inVars == <<inbox, permits, inp, reader, received>>
vars == <<shared, outVars, inVars>>

End == {"out", "in"}
Other(e) == IF e = "out" THEN "in" ELSE "out"
Byte == 0 .. MaxBytes - 1
Space == 0 .. Size - 1

(* A BytesOrEof.  A frame without bytes is the mark of a flush. *)
Data(bytes) == [eof |-> FALSE, bytes |-> bytes]
FlushMark == Data(<<>>)
Eof == [eof |-> TRUE, bytes |-> <<>>]
Frame == [eof : BOOLEAN, bytes : Seq(Byte \cup {-1})]

OutTask == [pc : {"top", "fill", "announce"},
            sequence : Nat, released : Nat, head : Nat, flushes : Nat,
            outstanding : Nat, pendingEof : BOOLEAN, sentEof : BOOLEAN]
InTask == [pc : {"top", "consume", "ack", "wait"},
           sequence : Nat, released : Nat, head : Nat,
           eof : BOOLEAN, forgot : BOOLEAN]

TypeOK ==
  /\ area \in [Space -> Byte \cup {-1}]
  /\ slots \in [0 .. Count - 1 -> Nat]
  /\ pushed \in [End -> Nat] /\ taken \in [End -> Nat]
  /\ outbox \in Seq(Frame) /\ inbox \in Seq(Frame)
  /\ flushLevel \in 0 .. MaxFlushes /\ flushed \in 0 .. MaxFlushes
  /\ out \in OutTask /\ inp \in InTask
  /\ writer \in {"open", "unflushed", "waiting", "closed"}
  /\ permits \in 0 .. Permits
  /\ reader \in {"running", "waiting", "closed"}
  /\ written \in 0 .. MaxBytes
  /\ received \in Seq(Byte \cup {-1})
  /\ marks \in Seq(0 .. MaxBytes)

(* Nothing has been acknowledged, but the whole area may be filled. *)
OutInit ==
  /\ outbox = <<>> /\ flushLevel = 0 /\ flushed = 0
  /\ out = [pc |-> "top", sequence |-> 0, released |-> 0, head |-> Size,
            flushes |-> 0, outstanding |-> 0,
            pendingEof |-> FALSE, sentEof |-> FALSE]
  /\ writer = "open"
  /\ written = 0 /\ marks = <<>>

InInit ==
  /\ inbox = <<>> /\ permits = Permits
  /\ inp = [pc |-> "top", sequence |-> 0, released |-> 0, head |-> 0,
            eof |-> FALSE, forgot |-> FALSE]
  /\ reader = "running"
  /\ received = <<>>

Init ==
  /\ area = [i \in Space |-> -1]
  /\ slots = [i \in 0 .. Count - 1 |-> 0]
  /\ pushed = [e \in End |-> 0] /\ taken = [e \in End |-> 0]
  /\ OutInit
  /\ InInit

-----------------------------------------------------------------------------
Least(a, b) == IF a < b THEN a ELSE b

(* What end e finds on the queue: a Consumer, iterated to its end. *)
Messages(e) ==
  [i \in 1 .. pushed[Other(e)] - taken[e] |-> slots[(taken[e] + i - 1) % Count]]

(* A Producer given one message takes it unless the ring is full. *)
HasRoom(e) == pushed[e] < taken[Other(e)] + Count
Send(e, message) ==
  /\ slots' = [slots EXCEPT ![pushed[e] % Count] = message]
  /\ pushed' = [pushed EXCEPT ![e] = @ + 1]

(* Extend for Available: the positions heard of, after the one known; they *)
(* are asserted to be in order.                                            *)
Heard(head, items) == <<head>> \o items
InOrder(heard) == \A i \in 1 .. Len(heard) - 1 : heard[i] <= heard[i + 1]
Latest(heard) == heard[Len(heard)]
RepeatsKnown(heard) == Latest(heard) = heard[1]  \* mutant: also of no items
Repeats(heard) == \E i \in 1 .. Len(heard) - 1 : heard[i] = heard[i + 1]

(* split_ring: where a position of the stream lies in the area, which is   *)
(* filled up to its end and then from its start; it panics for less than   *)
(* no bytes or more than there are.                                        *)
PlaceClamped(p) == Least(p, Size - 1)  \* mutant: does not go on at the start
Place(p) == p % Size
Splits(from, to) == from <= to /\ to - from <= Size

-----------------------------------------------------------------------------
(* The host of the output stream.                                          *)

HostMayWrite == out.pc = "top"

(* check_write: any number of bytes, or none while a flush is due. *)
CheckWrite == flushed >= flushLevel

(* ready, for a flush level: waits until it is reached. *)
AtReady(level) == IF flushed >= level THEN "open" ELSE "waiting"

(* A host that flushes does so before it writes again (blocking_write_and_ *)
(* flush of wasmtime, which the guests' writes use); move_stdin does not.  *)
Write(n) ==
  /\ HostMayWrite /\ writer = "open" /\ CheckWrite
  /\ written + n <= MaxBytes
  /\ outbox' = Append(outbox, Data([i \in 1 .. n |-> written + i - 1]))
  /\ written' = written + n
  /\ writer' = IF Flushing THEN "unflushed" ELSE "open"
  /\ UNCHANGED <<shared, inVars, flushLevel, flushed, out, marks>>

(* flush and then ready. *)
Flush ==
  /\ HostMayWrite /\ writer \in {"open", "unflushed"}
  /\ Flushing /\ flushLevel < MaxFlushes
  /\ flushLevel' = flushLevel + 1
  /\ outbox' = Append(outbox, FlushMark)
  /\ marks' = Append(marks, written)
  /\ writer' = AtReady(flushLevel')
  /\ UNCHANGED <<shared, inVars, flushed, out, written>>

(* close, which move_stdin and the drop of Stdout end with. *)
Close ==
  /\ HostMayWrite /\ writer = "open"
  /\ outbox' = Append(outbox, Eof)
  /\ writer' = "closed"
  /\ UNCHANGED <<shared, inVars, flushLevel, flushed, out, written, marks>>

WriterStep == (\E n \in 1 .. MaxFrame : Write(n)) \/ Flush \/ Close

-----------------------------------------------------------------------------
(* The output task.  Its select waits for a notification or for the next   *)
(* tick, so the top of its loop never blocks.                              *)

CreditOneMore(position) == position + Size + 1  \* mutant: off by one
Credit(position) == position + Size

HeardByOut ==
  Heard(out.head, [i \in DOMAIN Messages("out") |-> Credit(Messages("out")[i])])
OutTakes ==
  /\ out.pc = "top" /\ InOrder(HeardByOut)
  /\ taken' = [taken EXCEPT !["out"] = pushed["in"]]

(* The remote has taken everything that was announced. *)
SettledEarly(head) == out.released <= head  \* mutant: forgets the space
SettledLate(head) == Credit(out.released) < head  \* mutant: more than that
Settled(head) == Credit(out.released) = head

(* flushed is counted on after the last flush, as the mark of the end is   *)
(* never taken off; hosts compare it with levels up to MaxFlushes only.    *)
Counted(n) == Least(n, MaxFlushes)

(* Takes acknowledgements; with nothing to flush, it goes on to copy. *)
OutReap ==
  /\ OutTakes /\ out.outstanding = 0
  /\ out' = [out EXCEPT !.pc = "fill", !.head = Latest(HeardByOut)]
  /\ UNCHANGED <<area, slots, pushed, inVars, outbox, flushLevel, flushed,
                 writer, written, marks>>

(* Otherwise nothing is copied until the flush is complete ... *)
OutReapFlushing ==
  /\ OutTakes /\ out.outstanding # 0 /\ ~Settled(Latest(HeardByOut))
  /\ out' = [out EXCEPT !.pc = "announce", !.head = Latest(HeardByOut)]
  /\ UNCHANGED <<area, slots, pushed, inVars, outbox, flushLevel, flushed,
                 writer, written, marks>>

(* ... which the host is told: a ready that waits looks again.             *)
OutReapFlushed ==
  /\ OutTakes /\ out.outstanding # 0 /\ Settled(Latest(HeardByOut))
  /\ flushed' = Counted(flushed + out.outstanding)
  /\ writer' = IF writer = "waiting" /\ flushed' >= flushLevel
               THEN "open" ELSE writer
  /\ out' = [out EXCEPT !.pc = "announce", !.head = Latest(HeardByOut),
                        !.outstanding = 0]
  /\ UNCHANGED <<area, slots, pushed, inVars, outbox, flushLevel, written, marks>>

(* A round of fill_stream: a frame is copied as far as there is space, and *)
(* then it is popped, whatever is left of it.                              *)
FillFrame ==
  LET frame == Head(outbox).bytes
      n == Least(Len(frame), out.head - out.sequence)
      At(i) == Place(out.sequence + i - 1)
  IN  /\ out.pc = "fill" /\ outbox # <<>>
      /\ ~Head(outbox).eof /\ frame # <<>>
      /\ Splits(out.sequence, out.head)
      /\ area' = [a \in Space |-> IF \E i \in 1 .. n : At(i) = a
                                  THEN frame[CHOOSE i \in 1 .. n : At(i) = a]
                                  ELSE area[a]]
      /\ out' = [out EXCEPT !.sequence = @ + n]
      /\ outbox' = Tail(outbox)
      /\ UNCHANGED <<slots, pushed, taken, inVars, flushLevel, flushed, writer,
                     written, marks>>

FillMark ==
  /\ out.pc = "fill" /\ outbox # <<>> /\ Head(outbox) = FlushMark
  /\ out' = [out EXCEPT !.flushes = @ + 1]
  /\ outbox' = Tail(outbox)
  /\ UNCHANGED <<shared, inVars, flushLevel, flushed, writer, written, marks>>

(* The end of fill_stream: the queue is empty or the end is in front, which*)
(* stays there and counts as a flush.                                      *)
FillEnds ==
  LET atEof == outbox # <<>> /\ Head(outbox).eof
  IN  /\ out.pc = "fill" /\ (outbox = <<>> \/ atEof)
      /\ out' = [out EXCEPT
           !.pc = "announce", !.flushes = 0,
           !.outstanding = out.flushes + (IF atEof THEN 1 ELSE 0),
           !.pendingEof = @ \/ atEof]
      /\ UNCHANGED <<shared, inVars, outbox, flushLevel, flushed, writer,
                     written, marks>>

(* Sends the position if it is news, or again if the end has been reached. *)
News == out.sequence # out.released
EndIsNews == ~News /\ out.pendingEof # out.sentEof
OutAnnounce ==
  /\ out.pc = "announce" /\ (News \/ EndIsNews) /\ HasRoom("out")
  /\ Send("out", out.sequence)
  /\ out' = [out EXCEPT !.pc = "top", !.released = out.sequence,
                        !.sentEof = @ \/ EndIsNews]
  /\ UNCHANGED <<area, taken, inVars, outbox, flushLevel, flushed, writer,
                 written, marks>>

OutAnnounceNothing ==
  /\ out.pc = "announce" /\ ~((News \/ EndIsNews) /\ HasRoom("out"))
  /\ out' = [out EXCEPT !.pc = "top"]
  /\ UNCHANGED <<shared, inVars, outbox, flushLevel, flushed, writer, written,
                 marks>>

OutStep ==
  \/ OutReap \/ OutReapFlushing \/ OutReapFlushed
  \/ FillFrame \/ FillMark \/ FillEnds
  \/ OutAnnounce \/ OutAnnounceNothing

-----------------------------------------------------------------------------
(* The input task.  Nobody here sets the indicators a ring has for senders,*)
(* so that wait_for_message finds it unset and returns at once             *)
(* (PreconditionFailed).                                                   *)

HeardByIn == Heard(inp.head, Messages("in"))

(* Acquires a permit for a frame and takes the messages. *)
InReap ==
  /\ inp.pc = "top" /\ permits > 0 /\ InOrder(HeardByIn)
  /\ permits' = permits - 1
  /\ taken' = [taken EXCEPT !["in"] = pushed["out"]]
  /\ inp' = [inp EXCEPT !.pc = "consume", !.head = Latest(HeardByIn),
                        !.eof = @ \/ Repeats(HeardByIn)]
  /\ UNCHANGED <<area, slots, pushed, outVars, inbox, reader, received>>

(* What was announced is copied out (consume_stream) and the host is told  *)
(* of a frame and of the end.  The permit goes with them, one for both.    *)
TellsOfData(data, eof) == data # <<>>          \* mutant: not of the end
Tells(data, eof) == data # <<>> \/ eof
ForgetsNever(frames) == FALSE                  \* mutant: gives it back
Forgets(frames) == frames # <<>>
Announced == [i \in 1 .. inp.head - inp.sequence |->
                area[(inp.sequence + i - 1) % Size]]
InConsume ==
  LET data == Announced
      frames == (IF data # <<>> THEN <<Data(data)>> ELSE <<>>)
                \o (IF inp.eof THEN <<Eof>> ELSE <<>>)
  IN  /\ inp.pc = "consume" /\ Splits(inp.sequence, inp.head)
      /\ inbox' = inbox \o frames
      /\ inp' = [inp EXCEPT !.pc = "ack", !.sequence = inp.head,
                            !.forgot = Forgets(frames)]
      /\ reader' = IF Tells(data, inp.eof) /\ reader = "waiting"
                   THEN "running" ELSE reader
      /\ UNCHANGED <<shared, outVars, permits, received>>

(* Acknowledges the position once, or tries again in the next round. *)
InAck ==
  /\ inp.pc = "ack" /\ inp.sequence # inp.released /\ HasRoom("in")
  /\ Send("in", inp.sequence)
  /\ inp' = [inp EXCEPT !.pc = "wait", !.released = inp.sequence]
  /\ UNCHANGED <<area, taken, outVars, inbox, permits, reader, received>>

InAckNothing ==
  /\ inp.pc = "ack" /\ ~(inp.sequence # inp.released /\ HasRoom("in"))
  /\ inp' = [inp EXCEPT !.pc = "wait"]
  /\ UNCHANGED <<shared, outVars, inbox, permits, reader, received>>

(* The end of a round gives an unused permit back.  (An error of the wait  *)
(* would end the task; it is left out.)                                    *)
InWait ==
  /\ inp.pc = "wait"
  /\ permits' = IF inp.forgot THEN permits ELSE permits + 1
  /\ inp' = [inp EXCEPT !.pc = "top", !.forgot = FALSE]
  /\ UNCHANGED <<shared, outVars, inbox, reader, received>>

InStep ==
  \/ InReap \/ InConsume \/ InAck \/ InAckNothing \/ InWait

-----------------------------------------------------------------------------
(* The host of the input stream, for instance move_stdout.                 *)

HostMayRead == inp.pc \in {"top", "wait"}

(* read of at most n bytes of the first frame, which gives a permit back   *)
(* when nothing is left of it.                                             *)
RestoresAlways(rest) == permits + 1  \* mutant: for every part of a frame
Restores(rest) == IF rest = <<>> THEN permits + 1 ELSE permits
Read(n) ==
  LET bytes == Head(inbox).bytes
      m == Least(n, Len(bytes))
      rest == SubSeq(bytes, m + 1, Len(bytes))
  IN  /\ HostMayRead /\ reader = "running"
      /\ inbox # <<>> /\ ~Head(inbox).eof
      /\ received' = received \o SubSeq(bytes, 1, m)
      /\ inbox' = IF rest = <<>> THEN Tail(inbox)
                  ELSE <<Data(rest)>> \o Tail(inbox)
      /\ permits' = Restores(rest)
      /\ UNCHANGED <<shared, outVars, inp, reader>>

(* read of an empty queue, and then ready, which waits for the task. *)
ReadNothing ==
  /\ HostMayRead /\ reader = "running" /\ inbox = <<>>
  /\ reader' = "waiting"
  /\ UNCHANGED <<shared, outVars, inbox, permits, inp, received>>

(* read at the end: the stream is closed; the mark stays. *)
ReadEnd ==
  /\ HostMayRead /\ reader = "running"
  /\ inbox # <<>> /\ Head(inbox).eof
  /\ reader' = "closed"
  /\ UNCHANGED <<shared, outVars, inbox, permits, inp, received>>

ReaderStep == (\E n \in 1 .. MaxFrame : Read(n)) \/ ReadNothing \/ ReadEnd

Next ==
  \/ WriterStep
  \/ OutStep
  \/ InStep
  \/ ReaderStep

Spec == Init /\ [][Next]_vars

(* The tasks go on, because their waits end with a tick or a timeout, and  *)
(* the reading host reads until it is told of the end.                     *)
FairSpec ==
  Spec /\ WF_vars(OutStep) /\ WF_vars(InStep) /\ WF_vars(ReaderStep)

-----------------------------------------------------------------------------
(* Neither task ends with an assertion: positions arrive in order ("do not *)
(* handle stream wrapping", stream.rs 57) and never claim more bytes than  *)
(* the area has (stream.rs 88).  The two ends share the entries of the     *)
(* ring, so a task that reads its own message in place of the other's      *)
(* would see one that is out of order.                                     *)
NoPanic ==
  /\ out.pc = "top" => InOrder(HeardByOut)
  /\ inp.pc = "top" /\ permits > 0 => InOrder(HeardByIn)
  /\ out.pc = "fill" => Splits(out.sequence, out.head)
  /\ inp.pc = "consume" => Splits(inp.sequence, inp.head)

(* What was copied into the area stays there until the input task has      *)
(* copied it out, however the two tasks take turns.                        *)
BytesIntact ==
  \A p \in inp.sequence .. out.sequence - 1 : area[p % Size] = p

(* A flush that is reported complete is: whatever was written before it,   *)
(* the other process has got ("If we've successfully flushed, tell the     *)
(* writer", OutputRing::new).                                              *)
FlushHonest ==
  \A k \in 1 .. Len(marks) : k <= flushed => marks[k] <= inp.sequence

(* Permits bound what an input host leaves unread.  The end of the stream  *)
(* may come with data on one permit, hence the one frame more.             *)
InboxBounded == Len(inbox) <= Permits + 1

(* The refinement: together the two ends are a pipe.                       *)
Stream == INSTANCE ByteStream WITH
  delivered <- received,
  closed <- writer = "closed",
  ended <- reader = "closed"

(* What the input host reads is what the output host wrote, in order, each *)
(* byte once, and it is told of the end after the last byte only.          *)
ImplementsStream == Stream!Spec

(* A closed stream is read to its end, so no byte gets stuck on the way    *)
(* and no host waits for a notification that was given too early.          *)
EndArrives == writer = "closed" ~> reader = "closed"

(* A host that waits for its flush goes on in the end.                     *)
FlushCompletes == writer = "waiting" ~> writer = "open"

=============================================================================
