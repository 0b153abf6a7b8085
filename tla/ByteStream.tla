----------------------------- MODULE ByteStream -----------------------------
(***************************************************************************)
(* What the two stream ends of client-wasi promise their hosts together: a *)
(* pipe.  Bytes are numbered as they are written; the reader gets them in  *)
(* that order, each once, and learns of the end of the stream when it has  *)
(* got everything that was written before the writer closed it.            *)
(*                                                                         *)
(* StreamCopy implements this module (see StreamCopy!ImplementsStream).    *)
(***************************************************************************)
EXTENDS Naturals

VARIABLES
  written,   \* how many bytes the writer has written
  delivered, \* delivered[i]: the number of the i-th byte the reader got
  closed,    \* the writer has closed its end
  ended      \* the reader was told that the stream has ended

vars == <<written, delivered, closed, ended>>

\* The first n bytes of the stream.
FirstBytes(n) == [i \in 1 .. n |-> i - 1]

Init ==
  /\ written = 0
  /\ delivered = FirstBytes(0)
  /\ closed = FALSE
  /\ ended = FALSE

Write ==
  /\ ~closed
  /\ written' \in Nat /\ written' > written
  /\ UNCHANGED <<delivered, closed, ended>>

Deliver ==
  /\ ~ended
  /\ \E n \in 0 .. written :
       /\ delivered = FirstBytes(n)
       /\ \E m \in n + 1 .. written : delivered' = FirstBytes(m)
  /\ UNCHANGED <<written, closed, ended>>

Close ==
  /\ ~closed
  /\ closed' = TRUE
  /\ UNCHANGED <<written, delivered, ended>>

End ==
  /\ closed
  /\ delivered = FirstBytes(written)
  /\ ended' = TRUE
  /\ UNCHANGED <<written, delivered, closed>>

Next == Write \/ Deliver \/ Close \/ End

Spec == Init /\ [][Next]_vars

(* What the promise amounts to at any time: the reader has the first bytes *)
(* of the stream, and all of a stream that was closed when it was told of  *)
(* the end.                                                                *)
Honest ==
  \E n \in 0 .. written :
    delivered = FirstBytes(n) /\ (ended => closed /\ n = written)

=============================================================================
