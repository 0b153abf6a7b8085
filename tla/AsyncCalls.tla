----------------------------- MODULE AsyncCalls -----------------------------
(***************************************************************************)
(* What the io_uring of a process promises to the tasks that use it:       *)
(* asynchronous calls.  A caller has one call at a time; a call is made    *)
(* once, it is answered at most once, and what its caller is handed, once, *)
(* is that answer.  A caller may give up; an answer that comes later is    *)
(* nobody's.                                                               *)
(*                                                                         *)
(* IoUringSubmit implements this module (see IoUringSubmit!ImplementsCalls).*)
(***************************************************************************)

CONSTANTS
  Caller,   \* whoever makes calls
  Call,     \* the calls that can be made
  NoCall,   \* what a caller without a call has
  Result,   \* the possible answers
  NoAnswer  \* of a call that has none

VARIABLES
  calling,  \* per caller: its call
  made,     \* the calls made
  answer,   \* per call: its answer
  handed    \* per caller: what it was handed of its call

vars == <<calling, made, answer, handed>>

Init ==
  /\ calling = [c \in Caller |-> NoCall]
  /\ made = {}
  /\ answer = [o \in Call |-> NoAnswer]
  /\ handed = [c \in Caller |-> NoAnswer]

Make(c, o) ==
  /\ calling[c] = NoCall /\ o \notin made
  /\ calling' = [calling EXCEPT ![c] = o]
  /\ made' = made \cup {o}
  /\ UNCHANGED <<answer, handed>>

\* A call is answered, also when its caller has given up.
Answer(o, r) ==
  /\ o \in made /\ answer[o] = NoAnswer
  /\ answer' = [answer EXCEPT ![o] = r]
  /\ UNCHANGED <<calling, made, handed>>

\* Some callers are handed the answers to their calls.
Hand(S) ==
  /\ \A c \in S : /\ calling[c] \in made /\ answer[calling[c]] # NoAnswer
                  /\ handed[c] = NoAnswer
  /\ handed' = [c \in Caller |->
                  IF c \in S THEN answer[calling[c]] ELSE handed[c]]
  /\ UNCHANGED <<calling, made, answer>>

\* A call ends when its caller has what it was handed, or gives up.
End(c) ==
  /\ calling[c] # NoCall
  /\ calling' = [calling EXCEPT ![c] = NoCall]
  /\ handed' = [handed EXCEPT ![c] = NoAnswer]
  /\ UNCHANGED <<made, answer>>

Next ==
  \/ \E c \in Caller, o \in Call : Make(c, o)
  \/ \E o \in Call, r \in Result : Answer(o, r)
  \/ \E S \in SUBSET Caller : Hand(S)
  \/ \E c \in Caller : End(c)

Spec == Init /\ [][Next]_vars

(* What the promise amounts to at any time: no two callers have the same   *)
(* call, only calls that were made are answered, and what a caller was     *)
(* handed is the answer to the call it has.                                *)
EachItsOwn ==
  /\ \A c, d \in Caller : calling[c] = calling[d] /\ calling[c] # NoCall => c = d
  /\ \A c \in Caller : calling[c] \in made \cup {NoCall}
  /\ \A o \in Call \ made : answer[o] = NoAnswer
  /\ \A c \in Caller : handed[c] # NoAnswer =>
       calling[c] # NoCall /\ handed[c] = answer[calling[c]]

=============================================================================
