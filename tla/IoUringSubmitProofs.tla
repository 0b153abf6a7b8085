------------------------- MODULE IoUringSubmitProofs -------------------------
(***************************************************************************)
(* Proofs about IoUringSubmit, for any number of tasks, any queue and any  *)
(* width of a result: no queued entry refers to memory that was freed, a   *)
(* task is handed the answer to its own operation, and, on one thread,     *)
(* nobody sleeps for an entry that was completed without being woken.  The *)
(* submission path implements AsyncCalls, on any number of threads.        *)
(***************************************************************************)
EXTENDS IoUringSubmit, TLAPS

Completion == [key : Key, result : Result, op : Op]

(* A task that has queued its entries and waits for one of them.           *)
Waiting(t) ==
  \/ task[t].pc = "select"
  \/ task[t].pc \in {"register", "parked"} /\ task[t].back = "select"

Queued == {sq[i] : i \in 1 .. Len(sq)}
Pending == Queued \cup inKernel

(* Between two awaits a task runs alone.                                   *)
RunsAlone ==
  \A t \in Task : task[t].pc \in {"room", "select", "register"} => running = t

(* A task waits with keys that are in the map or were; others have none.   *)
KeysHeld ==
  \A t \in Task :
    /\ Waiting(t) => task[t].keys # <<>>
    /\ ~Waiting(t) => task[t].keys = <<>> /\ task[t].permits = 0
    /\ \A i \in 1 .. Len(task[t].keys) : task[t].keys[i].index \in Index

(* No key has a version its index has not reached.                         *)
Reached(key) == key.index \in Index => key.version <= version[key.index]
VersionsReached ==
  /\ \A t \in Task : \A i \in 1 .. Len(task[t].keys) : Reached(task[t].keys[i])
  /\ \A e \in Pending : Reached(e.key)
  /\ \A c \in cq : Reached(c.key)

(* Operations are numbered as they begin, and each is one task's.          *)
OpsBegun ==
  /\ \A t \in Task : task[t].pc # "idle" => task[t].op \in 1 .. ops
  /\ \A t, u \in Task :
       t # u /\ task[t].pc # "idle" /\ task[u].pc # "idle" => task[t].op # task[u].op
  /\ \A e \in Pending : e.op \in 1 .. ops
  /\ \A o \in Op : o > ops => answer[o] = NoAnswer

(* An operation that has not queued its entries has none anywhere.         *)
NotYetQueued ==
  \A t \in Task : task[t].pc # "idle" /\ ~Waiting(t) =>
    /\ \A e \in Pending : e.op # task[t].op
    /\ answer[task[t].op] = NoAnswer

(* The entry an operation waits for is in one place, or answered.          *)
MainOnce ==
  /\ \A i, j \in 1 .. Len(sq) :
       i # j /\ sq[i].main /\ sq[j].main => sq[i].op # sq[j].op
  /\ \A e \in Queued, f \in inKernel : e.main /\ f.main => e.op # f.op
  /\ \A e, f \in inKernel : e # f /\ e.main /\ f.main => e.op # f.op
  /\ \A e \in Pending : e.main => answer[e.op] = NoAnswer

(* Whatever carries the key a task waits with belongs to its operation.    *)
KeysMatch ==
  \A t \in Task : Waiting(t) =>
    /\ \A e \in Pending : e.key = Awaited(t) => e.op = task[t].op /\ e.main
    /\ \A c \in cq : c.key = Awaited(t) =>
         answer[task[t].op] = c.result

PermitsMatch ==
  \A t \in Task : task[t].permits > 0 =>
    /\ answer[task[t].op] \in Result
    /\ task[t].permits = Encode(answer[task[t].op])

(* Whoever has a completion is going to look.                              *)
Heeded ==
  OneThread =>
    \A t \in Task, c \in cq : Waiting(t) /\ c.key = Awaited(t) =>
      signalled \/ (task[t].pc = "parked" /\ task[t].woken)

IInv ==
  /\ TypeOK
  /\ RunsAlone
  /\ KeysHeld
  /\ VersionsReached
  /\ OpsBegun
  /\ NotYetQueued
  /\ MainOnce
  /\ KeysMatch
  /\ PermitsMatch
  /\ Heeded
  /\ MemoryAlive

-----------------------------------------------------------------------------
(* Sequences: what is left without the first n, and what is added.         *)
LEMMA Rest ==
  ASSUME NEW S, NEW s \in Seq(S), NEW n \in 0 .. Len(s)
  PROVE  LET r == SubSeq(s, n + 1, Len(s))
         IN  /\ r \in Seq(S) /\ Len(r) = Len(s) - n
             /\ \A i \in 1 .. Len(r) : n + i \in 1 .. Len(s) /\ r[i] = s[n + i]
<1> DEFINE r == SubSeq(s, n + 1, Len(s))
<1>1. Len(s) \in Nat
  OBVIOUS
<1>2. r \in Seq(S) /\ Len(r) = Len(s) - n
  BY <1>1
<1>3. \A i \in 1 .. Len(r) : n + i \in 1 .. Len(s) /\ r[i] = s[n + i]
  BY <1>1, <1>2
<1> QED BY <1>2, <1>3

LEMMA AddTwo ==
  ASSUME NEW S, NEW s \in Seq(S), NEW a \in S, NEW b \in S
  PROVE  LET r == s \o <<a, b>>
         IN  /\ r \in Seq(S) /\ Len(r) = Len(s) + 2
             /\ \A i \in 1 .. Len(s) : r[i] = s[i]
             /\ r[Len(s) + 1] = a /\ r[Len(s) + 2] = b
OBVIOUS

(* The encoding of a result is reversible unless the addition overflows.   *)
LEMMA Remainder ==
  ASSUME NEW n \in Int
  PROVE  /\ n % Width \in 0 .. Width - 1
         /\ 0 <= n /\ n < Width => n % Width = n
         /\ 0 - Width <= n /\ n < 0 => n % Width = n + Width
BY SubmitAssumption

LEMMA EncodeType ==
  ASSUME NEW r \in Result
  PROVE  Encode(r) \in Nat
<1>1. r \in Int /\ Width \in Nat \ {0}
  BY SubmitAssumption
<1>2. r % Width \in Int /\ 1 + (r % Width) \in Int
  BY <1>1, Remainder
<1> QED BY <1>1, <1>2, Remainder DEF Encode

LEMMA Reversible ==
  ASSUME NEW r \in Result, Encode(r) > 0
  PROVE  Decode(Encode(r)) = r
<1>1. /\ r \in Int /\ Width \in Nat \ {0}
      /\ 0 - Width <= 2 * r /\ 2 * r < Width
  BY SubmitAssumption
<1> DEFINE m == r % Width
<1>2. m \in 0 .. Width - 1 /\ (r >= 0 => m = r) /\ (r < 0 => m = r + Width)
  BY <1>1, Remainder
<1> HIDE DEF m
<1>3. 1 + m < Width
  <2>1. SUFFICES ASSUME 1 + m = Width PROVE FALSE
    BY <1>1, <1>2
  <2>2. Width % Width = 0
    BY <1>1
  <2> QED BY <2>1, <2>2 DEF Encode, m
<1>4. Encode(r) = 1 + m
  <2>1. 1 + m \in Int /\ 0 <= 1 + m
    BY <1>2
  <2> QED BY <1>3, <2>1, Remainder DEF Encode, m
<1>5. Encode(r) - 1 = m
  BY <1>2, <1>4
<1> QED BY <1>1, <1>2, <1>5 DEF Decode, AsI32

-----------------------------------------------------------------------------
LEMMA IdleType ==
  /\ Idle \in TaskState
  /\ \A kind \in Kind, o \in Op : Begun(kind, o) \in TaskState
<1>1. <<>> \in Seq(Key)
  OBVIOUS
<1>2. Idle \in TaskState
  BY <1>1 DEF Idle, TaskState, Pc, Kind
<1>3. ASSUME NEW kind \in Kind, NEW o \in Op
      PROVE  Begun(kind, o) \in TaskState
  BY <1>1 DEF Begun, TaskState, Pc
<1> QED BY <1>2, <1>3

LEMMA TypeInit == Init => TypeOK
<1> SUFFICES ASSUME Init PROVE TypeOK
  OBVIOUS
<1>1. NoAnswer \in Result \cup {NoAnswer} /\ Capacity \in Nat /\ MaxOps \in Nat
  BY SubmitAssumption
<1>2. sq \in Seq(Entry) /\ Len(sq) <= Capacity /\ stable \in Seq(Op \cup {NoOp})
  BY <1>1 DEF Init
<1>3. ops \in 0 .. MaxOps
  BY <1>1 DEF Init
<1> QED BY <1>1, <1>2, <1>3, IdleType DEF Init, TypeOK

(* What the steps of a task do to its record.                              *)
LEMMA RecordTypes ==
  ASSUME NEW x \in TaskState, NEW pc \in Pc, NEW woken \in BOOLEAN
  PROVE  /\ [x EXCEPT !.pc = pc, !.woken = woken] \in TaskState
         /\ [x EXCEPT !.woken = woken] \in TaskState
         /\ \A keys \in Seq(Key) : [x EXCEPT !.pc = pc, !.keys = keys] \in TaskState
         /\ \A back \in {"room", "select"} :
              [x EXCEPT !.pc = pc, !.back = back] \in TaskState
<1>1. [x EXCEPT !.pc = pc, !.woken = woken] \in TaskState
  BY DEF TaskState
<1>2. [x EXCEPT !.woken = woken] \in TaskState
  BY DEF TaskState
<1>3. ASSUME NEW keys \in Seq(Key)
      PROVE  [x EXCEPT !.pc = pc, !.keys = keys] \in TaskState
  BY DEF TaskState
<1>4. ASSUME NEW back \in {"room", "select"}
      PROVE  [x EXCEPT !.pc = pc, !.back = back] \in TaskState
  BY DEF TaskState
<1> QED BY <1>1, <1>2, <1>3, <1>4

LEMMA TaskTypes ==
  ASSUME TypeOK, NEW t \in Task
  PROVE  /\ \A keys \in Seq(Key) :
              [task EXCEPT ![t].pc = "select", ![t].keys = keys] \in [Task -> TaskState]
         /\ \A back \in {"room", "select"} :
              [task EXCEPT ![t].pc = "register", ![t].back = back] \in [Task -> TaskState]
         /\ [task EXCEPT ![t].pc = "parked", ![t].woken = FALSE] \in [Task -> TaskState]
         /\ [task EXCEPT ![t] = Idle] \in [Task -> TaskState]
<1>1. task \in [Task -> TaskState] /\ task[t] \in TaskState
  BY DEF TypeOK
<1>a. "select" \in Pc /\ "register" \in Pc /\ "parked" \in Pc
  BY DEF Pc
<1>b. ASSUME NEW x \in TaskState
      PROVE  [task EXCEPT ![t] = x] \in [Task -> TaskState]
  BY <1>1
<1>2. ASSUME NEW keys \in Seq(Key)
      PROVE  [task EXCEPT ![t].pc = "select", ![t].keys = keys] \in [Task -> TaskState]
  <2>1. [task[t] EXCEPT !.pc = "select", !.keys = keys] \in TaskState
    BY <1>1, <1>a, RecordTypes
  <2> QED BY <1>b, <2>1
<1>3. ASSUME NEW back \in {"room", "select"}
      PROVE  [task EXCEPT ![t].pc = "register", ![t].back = back] \in [Task -> TaskState]
  <2>1. [task[t] EXCEPT !.pc = "register", !.back = back] \in TaskState
    BY <1>1, <1>a, RecordTypes
  <2> QED BY <1>b, <2>1
<1>4. [task EXCEPT ![t].pc = "parked", ![t].woken = FALSE] \in [Task -> TaskState]
  <2>1. [task[t] EXCEPT !.pc = "parked", !.woken = FALSE] \in TaskState
    BY <1>1, <1>a, RecordTypes
  <2> QED BY <1>b, <2>1
<1>5. [task EXCEPT ![t] = Idle] \in [Task -> TaskState]
  BY <1>1, IdleType
<1> QED BY <1>2, <1>3, <1>4, <1>5

LEMMA MapTypes ==
  ASSUME TypeOK
  PROVE  /\ \A S \in SUBSET Index :
              Make(S) => notify' \in [Index -> Nat] /\ version' \in [Index -> Nat]
         /\ \A t \in Task : Release(t) => notify' \in [Index -> Nat]
<1>1. notify \in [Index -> Nat] /\ version \in [Index -> Nat]
  BY DEF TypeOK
<1>2. ASSUME NEW S \in SUBSET Index, Make(S)
      PROVE  notify' \in [Index -> Nat] /\ version' \in [Index -> Nat]
  BY <1>1, <1>2 DEF Make
<1>3. ASSUME NEW t \in Task, Release(t)
      PROVE  notify' \in [Index -> Nat]
  BY <1>1, <1>3 DEF Release
<1> QED BY <1>2, <1>3

(* Drain: what is handed out, and to whom.                                 *)
Hits == {c \in cq : Finds(c.key)}
For(u) == {c \in Hits : task[u].keys # <<>> /\ Awaited(u) = Holder(c.key.index)}
Given(u) == IF For(u) = {} THEN task[u]
            ELSE [task[u] EXCEPT !.permits = Encode((CHOOSE c \in For(u) : TRUE).result)]

LEMMA DrainSteps ==
  ASSUME NEW t \in Task, Drain(t)
  PROVE  /\ running = NoTask /\ task[t].pc = "parked" /\ task[t].woken
         /\ cq' = {} /\ running' = t
         /\ notify' = [i \in Index |->
                         IF \E c \in Hits : c.key.index = i THEN 0 ELSE notify[i]]
         /\ task' = [[u \in Task |-> Given(u)] EXCEPT
                        ![t].pc = task[t].back, ![t].woken = FALSE]
         /\ UNCHANGED <<inKernel, signalled, answer, queueVars, version, ops>>
BY DEF Drain, Hits, For, Given

LEMMA GivenType ==
  ASSUME TypeOK, NEW u \in Task
  PROVE  Given(u) \in TaskState
<1>1. task[u] \in TaskState
  BY DEF TypeOK
<1>2. CASE For(u) = {}
  BY <1>1, <1>2 DEF Given
<1>3. CASE For(u) # {}
  <2> DEFINE c == CHOOSE c \in For(u) : TRUE
  <2>1. c \in For(u)
    BY <1>3
  <2>2. c.result \in Result
    BY <2>1 DEF For, Hits, TypeOK
  <2>3. Encode(c.result) \in Nat
    BY <2>2, EncodeType
  <2> HIDE DEF c
  <2>4. [task[u] EXCEPT !.permits = Encode(c.result)] \in TaskState
    BY <1>1, <2>3 DEF TaskState
  <2> QED BY <1>3, <2>4 DEF Given, c
<1> QED BY <1>2, <1>3

(* What either kind of operation does when it queues its entries a and b:  *)
(* its keys are new, and it awaits that of the entry it waits for.         *)
NowReached(key) == key.index \in Index => key.version <= version'[key.index]
New(key) ==
  key \in Key /\ key.index \in Index
  /\ key.version = version'[key.index] /\ version[key.index] < key.version

Pushes(t, keys, a, b, x, y) ==
  /\ running = t /\ task[t].pc = "room" /\ Len(sq) + 2 <= Capacity
  /\ keys \in Seq(Key) /\ keys # <<>>
  /\ \A i \in 1 .. Len(keys) : New(keys[i])
  /\ a.op = task[t].op /\ b.op = task[t].op
  /\ a.key = NoKey \/ New(a.key)
  /\ b.key = NoKey \/ New(b.key)
  /\ a.main => ~b.main
  /\ a.main <=> a.key = keys[Len(keys)]
  /\ b.main <=> b.key = keys[Len(keys)]
  /\ a.refers => x = a.op
  /\ b.refers => y = b.op
  /\ \A i \in Index : version[i] <= version'[i]
  /\ notify' \in [Index -> Nat] /\ version' \in [Index -> Nat]
  /\ fill' = fill + 2
  /\ sq' = sq \o <<a, b>> /\ stable' = stable \o <<x, y>>
  /\ task' = [task EXCEPT ![t].pc = "select", ![t].keys = keys]
  /\ UNCHANGED <<kernelVars, running, ops>>

LEMMA MadeNew ==
  ASSUME TypeOK, NEW S \in SUBSET Index, Make(S), NEW i \in S
  PROVE  New(Made(i))
<1>1. i \in Index /\ version[i] \in Nat /\ version'[i] = version[i] + 1
  BY DEF TypeOK, Make
<1> QED BY <1>1 DEF New, Made, Key

LEMMA PushFacts ==
  ASSUME TypeOK, OpsBegun, NEW t \in Task, PushWait(t) \/ PushWake(t)
  PROVE  \E keys \in Seq(Key), a, b \in Entry, x, y \in Op \cup {NoOp} :
           Pushes(t, keys, a, b, x, y)
<1> DEFINE op == task[t].op
<1>0. Len(sq) \in Nat /\ Capacity \in Nat
  BY SubmitAssumption DEF TypeOK
<1>1. op \in Op
  <2>1. task[t].pc = "room"
    BY DEF PushWait, PushWake, Push
  <2>2. op \in 1 .. ops /\ ops \in 0 .. MaxOps /\ MaxOps \in Nat
    BY <2>1, SubmitAssumption DEF OpsBegun, TypeOK
  <2> QED BY <2>2 DEF Op
<1>2. NoKey \in Key /\ NoKey.index \notin Index
  BY DEF NoKey, Key, Index
<1>3. CASE PushWait(t)
  <2>1. PICK i \in Index :
          /\ task[t].kind = "wait" /\ First(i, Free)
          /\ Make({i})
          /\ Push(t, <<Made(i)>>,
                  <<[key |-> Made(i), op |-> op, main |-> TRUE, refers |-> TRUE],
                    [key |-> NoKey, op |-> op, main |-> FALSE, refers |-> TRUE]>>)
    BY <1>3 DEF PushWait
  <2> DEFINE k == Made(i)
             a == [key |-> k, op |-> op, main |-> TRUE, refers |-> TRUE]
             b == [key |-> NoKey, op |-> op, main |-> FALSE, refers |-> TRUE]
  <2>2. New(k)
    BY <2>1, MadeNew
  <2>3. k # NoKey
    BY <1>2, <2>2 DEF New
  <2>4. Len(sq) + 2 <= Capacity
    BY <1>0, <2>1 DEF Push, HasRoom
  <2>5. \A j \in Index : version[j] <= version'[j]
    BY <2>1 DEF Make, TypeOK
  <2>6. notify' \in [Index -> Nat] /\ version' \in [Index -> Nat]
    BY <2>1, MapTypes
  <2>7. stable' = stable \o <<op, op>>
    BY <2>1 DEF Push, Kept
  <2>8. Push(t, <<k>>, <<a, b>>)
    BY <2>1
  <2> HIDE DEF k
  <2>9. <<k>> \in Seq(Key) /\ <<k>> # <<>> /\ Len(<<k>>) = 1 /\ <<k>>[1] = k
    BY <2>2 DEF New
  <2>10. a \in Entry /\ b \in Entry
    BY <1>1, <1>2, <2>2 DEF Entry, New
  <2>11. Pushes(t, <<k>>, a, b, op, op)
    BY <2>2, <2>3, <2>4, <2>5, <2>6, <2>7, <2>8, <2>9 DEF Pushes, Push
  <2> HIDE DEF a, b, op
  <2> QED BY <1>1, <2>9, <2>10, <2>11
<1>4. CASE PushWake(t)
  <2>1. PICK i, j \in Index :
          /\ task[t].kind = "wake" /\ First(i, Free) /\ First(j, Free \ {i})
          /\ Make({i, j})
          /\ Push(t, <<Made(i), Made(j)>>,
                  <<[key |-> Made(i), op |-> op, main |-> FALSE, refers |-> FALSE],
                    [key |-> Made(j), op |-> op, main |-> TRUE, refers |-> FALSE]>>)
    BY <1>4 DEF PushWake
  <2> DEFINE k == Made(i)
             m == Made(j)
             a == [key |-> k, op |-> op, main |-> FALSE, refers |-> FALSE]
             b == [key |-> m, op |-> op, main |-> TRUE, refers |-> FALSE]
  <2>2. New(k) /\ New(m)
    BY <2>1, MadeNew
  <2>3. k # m
    BY <2>1 DEF First, Made
  <2>4. Len(sq) + 2 <= Capacity
    BY <1>0, <2>1 DEF Push, HasRoom
  <2>5. \A l \in Index : version[l] <= version'[l]
    BY <2>1 DEF Make, TypeOK
  <2>6. notify' \in [Index -> Nat] /\ version' \in [Index -> Nat]
    BY <2>1, MapTypes
  <2>7. stable' = stable \o <<NoOp, NoOp>>
    BY <2>1 DEF Push, Kept
  <2>8. Push(t, <<k, m>>, <<a, b>>)
    BY <2>1
  <2> HIDE DEF k, m
  <2>9. /\ <<k, m>> \in Seq(Key) /\ <<k, m>> # <<>> /\ Len(<<k, m>>) = 2
        /\ <<k, m>>[1] = k /\ <<k, m>>[2] = m
    BY <2>2 DEF New
  <2>10. a \in Entry /\ b \in Entry
    BY <1>1, <2>2 DEF Entry, New
  <2>11. Pushes(t, <<k, m>>, a, b, NoOp, NoOp)
    BY <2>2, <2>3, <2>4, <2>5, <2>6, <2>7, <2>8, <2>9 DEF Pushes, Push
  <2> HIDE DEF a, b
  <2> QED BY <2>9, <2>10, <2>11
<1> QED BY <1>3, <1>4

-----------------------------------------------------------------------------
LEMMA TypeStep ==
  ASSUME TypeOK, OpsBegun, MemoryAlive, [Next]_vars
  PROVE  TypeOK'
<1> USE SubmitAssumption
<1>1. ASSUME NEW t \in Task, NEW kind \in Kind, Acquire(t, kind)
      PROVE  TypeOK'
  <2>1. fill - 2 \in Nat /\ ops + 1 \in 0 .. MaxOps /\ ops + 1 \in Op
    BY <1>1 DEF TypeOK, Acquire, Op
  <2>2. task' \in [Task -> TaskState]
    BY <1>1, <2>1, IdleType DEF TypeOK, Acquire
  <2> QED BY <1>1, <2>1, <2>2 DEF TypeOK, Acquire, kernelVars, mapVars
<1>2. ASSUME NEW t \in Task, PushWait(t) \/ PushWake(t)
      PROVE  TypeOK'
  <2>1. PICK keys \in Seq(Key), a, b \in Entry, x, y \in Op \cup {NoOp} :
          Pushes(t, keys, a, b, x, y)
    BY <1>2, PushFacts
  <2>2. sq' \in Seq(Entry) /\ Len(sq') <= Capacity
    BY <2>1, AddTwo DEF Pushes, TypeOK
  <2>3. stable' \in Seq(Op \cup {NoOp})
    BY <2>1, AddTwo DEF Pushes, TypeOK
  <2>4. task' \in [Task -> TaskState]
    BY <2>1, TaskTypes DEF Pushes
  <2>5. /\ notify' \in [Index -> Nat] /\ version' \in [Index -> Nat]
        /\ fill' = fill + 2 /\ UNCHANGED <<kernelVars, running, ops>>
    BY <2>1 DEF Pushes
  <2> QED BY <2>2, <2>3, <2>4, <2>5 DEF TypeOK, kernelVars
<1>3. ASSUME NEW t \in Task, NEW n \in 0 .. Capacity, TrySubmission(t, n)
      PROVE  TypeOK'
  <2>1. n \in 0 .. Len(sq) /\ n \in 0 .. Len(stable) /\ n \in Nat
    BY <1>3 DEF TypeOK, TrySubmission, MemoryAlive
  <2>a. sq \in Seq(Entry) /\ Len(sq) \in Nat /\ Len(sq) <= Capacity /\ Capacity \in Nat
    BY DEF TypeOK
  <2>b. stable \in Seq(Op \cup {NoOp}) /\ inKernel \subseteq Entry
    BY DEF TypeOK
  <2>c. /\ inKernel' = inKernel \cup {sq[i] : i \in 1 .. n}
        /\ sq' = SubSeq(sq, n + 1, Len(sq))
        /\ stable' = SubSeq(stable, n + 1, Len(stable))
    BY <1>3 DEF TrySubmission, Submitted
  <2>2. sq' \in Seq(Entry) /\ Len(sq') <= Capacity
    <3>1. sq' \in Seq(Entry) /\ Len(sq') = Len(sq) - n
      BY <2>1, <2>a, <2>c, Rest
    <3> QED BY <2>1, <2>a, <3>1
  <2>3. stable' \in Seq(Op \cup {NoOp})
    BY <2>1, <2>b, <2>c, Rest
  <2>4. inKernel' \subseteq Entry
    <3>1. \A i \in 1 .. n : sq[i] \in Entry
      BY <2>1, <2>a
    <3> QED BY <2>b, <2>c, <3>1
  <2>5. task' \in [Task -> TaskState]
    BY <1>3, TaskTypes DEF TrySubmission, Drives
  <2>6. fill' \in Nat /\ UNCHANGED <<cq, signalled, answer, mapVars, running, ops>>
    BY <1>3, <2>1 DEF TypeOK, TrySubmission
  <2> QED BY <2>2, <2>3, <2>4, <2>5, <2>6 DEF TypeOK, mapVars
<1>4. ASSUME NEW t \in Task, Register(t)
      PROVE  TypeOK'
  BY <1>4, TaskTypes DEF TypeOK, Register, kernelVars, queueVars, mapVars
<1>5. ASSUME NEW t \in Task, Drain(t)
      PROVE  TypeOK'
  <2>1. \A u \in Task : Given(u) \in TaskState
    BY GivenType
  <2>2. task[t].back \in Pc
    BY DEF TypeOK, TaskState, Pc
  <2> DEFINE drained == [u \in Task |-> Given(u)]
  <2>3. drained \in [Task -> TaskState]
    BY <2>1
  <2>4. task' = [drained EXCEPT ![t].pc = task[t].back, ![t].woken = FALSE]
    BY <1>5, DrainSteps
  <2> HIDE DEF drained
  <2>5. task' \in [Task -> TaskState]
    <3>1. [drained[t] EXCEPT !.pc = task[t].back, !.woken = FALSE] \in TaskState
      BY <2>2, <2>3, RecordTypes
    <3> QED BY <2>3, <2>4, <3>1
  <2>6. notify' \in [Index -> Nat]
    <3>1. notify' = [i \in Index |->
                       IF \E c \in Hits : c.key.index = i THEN 0 ELSE notify[i]]
      BY <1>5, DrainSteps
    <3>2. notify \in [Index -> Nat]
      BY DEF TypeOK
    <3> QED BY <3>1, <3>2
  <2> QED BY <1>5, <2>5, <2>6, DrainSteps DEF TypeOK, queueVars
<1>6. ASSUME NEW t \in Task, Finish(t)
      PROVE  TypeOK'
  BY <1>6, TaskTypes, MapTypes DEF TypeOK, Finish, kernelVars, queueVars
<1>7. ASSUME NEW t \in Task, Cancel(t)
      PROVE  TypeOK'
  <2>1. fill' \in Nat
    BY <1>7 DEF TypeOK, Cancel
  <2> QED BY <1>7, <2>1, TaskTypes, MapTypes DEF TypeOK, Cancel, kernelVars
<1>8. ASSUME NEW e \in inKernel, NEW r \in Answers(e), Complete(e, r)
      PROVE  TypeOK'
  <2>1. e \in Entry /\ r \in Result
    BY DEF TypeOK, Answers
  <2>2. [key |-> e.key, result |-> r, op |-> e.op] \in [key : Key, result : Result, op : Op]
    BY <2>1 DEF Entry
  <2>3. answer' \in [Op -> Result \cup {NoAnswer}]
    BY <1>8, <2>1 DEF TypeOK, Complete, Entry
  <2> QED BY <1>8, <2>2, <2>3 DEF TypeOK, Complete, queueVars, mapVars
<1>9. ASSUME Poll
      PROVE  TypeOK'
  <2>1. task' \in [Task -> TaskState]
    <3>1. \A t \in Task : [task[t] EXCEPT !.woken = TRUE] \in TaskState
      <4>1. \A t \in Task : task[t] \in TaskState
        BY DEF TypeOK
      <4> QED BY <4>1, RecordTypes DEF Pc
    <3>2. \A t \in Task : task[t] \in TaskState
      BY DEF TypeOK
    <3>3. task' = [t \in Task |-> IF task[t].pc = "parked"
                                  THEN [task[t] EXCEPT !.woken = TRUE] ELSE task[t]]
      BY <1>9 DEF Poll
    <3> QED BY <3>1, <3>2, <3>3
  <2> QED BY <1>9, <2>1 DEF TypeOK, Poll, queueVars, mapVars
<1>10. CASE UNCHANGED vars
  BY <1>10 DEF TypeOK, vars, kernelVars, queueVars, mapVars
<1> QED
  BY <1>1, <1>2, <1>3, <1>4, <1>5, <1>6, <1>7, <1>8, <1>9, <1>10
  DEF Next, TaskStep, Submits

-----------------------------------------------------------------------------
Others ==
  /\ RunsAlone /\ KeysHeld /\ VersionsReached /\ OpsBegun /\ NotYetQueued
  /\ MainOnce /\ KeysMatch /\ PermitsMatch /\ Heeded /\ MemoryAlive

LEMMA InvInit == Init => IInv
<1> SUFFICES ASSUME Init PROVE IInv
  OBVIOUS
<1>1. TypeOK
  BY TypeInit
<1>2. Len(sq) = 0 /\ Len(stable) = 0 /\ Pending = {} /\ Queued = {} /\ cq = {}
  BY DEF Init, Pending, Queued
<1>3. \A t \in Task :
        task[t].pc = "idle" /\ task[t].keys = <<>> /\ task[t].permits = 0
  BY DEF Init, Idle
<1>4. \A t \in Task : ~Waiting(t)
  BY <1>3 DEF Waiting
<1>5. RunsAlone /\ KeysHeld /\ VersionsReached
  BY <1>2, <1>3, <1>4 DEF RunsAlone, KeysHeld, VersionsReached
<1>6. OpsBegun /\ NotYetQueued
  BY <1>2, <1>3 DEF OpsBegun, NotYetQueued, Init
<1>7. MainOnce /\ MemoryAlive
  BY <1>2 DEF MainOnce, MemoryAlive, Init
<1>8. KeysMatch /\ PermitsMatch /\ Heeded
  BY <1>3, <1>4 DEF KeysMatch, PermitsMatch, Heeded
<1> QED BY <1>1, <1>5, <1>6, <1>7, <1>8 DEF IInv

(* A task that changes neither queues nor what it awaits keeps the rest.   *)
LEMMA InvAcquire ==
  ASSUME IInv, NEW t \in Task, NEW kind \in Kind, Acquire(t, kind)
  PROVE  Others'
<1>1. /\ running = NoTask /\ running' = t /\ task[t].pc = "idle"
      /\ ops' = ops + 1 /\ ops \in Nat /\ ops < MaxOps
      /\ UNCHANGED <<inKernel, cq, signalled, answer, sq, stable, version>>
  BY SubmitAssumption DEF Acquire, kernelVars, mapVars, IInv, TypeOK
<1>2. /\ task'[t].pc = "room" /\ task'[t].op = ops + 1
      /\ task'[t].keys = <<>> /\ task'[t].permits = 0
      /\ \A u \in Task \ {t} : task'[u] = task[u]
  BY DEF Acquire, Begun, IInv, TypeOK
<1>3. /\ \A u \in Task \ {t} : Waiting(u)' <=> Waiting(u)
      /\ \A u \in Task \ {t} : Awaited(u)' = Awaited(u)
      /\ ~Waiting(t)' /\ Pending' = Pending /\ Queued' = Queued
  BY <1>1, <1>2 DEF Waiting, Awaited, Pending, Queued
<1>4. RunsAlone'
  <2>1. \A u \in Task : task[u].pc \notin {"room", "select", "register"}
    BY <1>1, SubmitAssumption DEF RunsAlone, IInv
  <2> QED BY <1>1, <1>2, <2>1 DEF RunsAlone
<1>5. KeysHeld'
  BY <1>2, <1>3 DEF KeysHeld, IInv
<1>6. VersionsReached'
  BY <1>1, <1>2, <1>3 DEF VersionsReached, Reached, IInv
<1>7. OpsBegun'
  <2>1. \A u, v \in Task :
          u # v /\ task'[u].pc # "idle" /\ task'[v].pc # "idle"
            => task'[u].op # task'[v].op
    BY <1>1, <1>2 DEF OpsBegun, IInv
  <2>2. \A u \in Task : task'[u].pc # "idle" => task'[u].op \in 1 .. ops'
    BY <1>1, <1>2 DEF OpsBegun, IInv
  <2>3. \A e \in Pending' : e.op \in 1 .. ops'
    BY <1>1, <1>3 DEF OpsBegun, IInv
  <2>4. \A o \in Op : o > ops' => answer'[o] = NoAnswer
    BY <1>1 DEF OpsBegun, IInv, Op
  <2> QED BY <2>1, <2>2, <2>3, <2>4 DEF OpsBegun
<1>8. NotYetQueued'
  <2>1. answer[ops + 1] = NoAnswer
    BY <1>1, SubmitAssumption DEF OpsBegun, IInv, Op
  <2>2. \A e \in Pending : e.op # ops + 1
    BY <1>1 DEF OpsBegun, IInv
  <2> QED BY <1>1, <1>2, <1>3, <2>1, <2>2 DEF NotYetQueued, IInv
<1>9. MainOnce' /\ MemoryAlive'
  BY <1>1, <1>3 DEF MainOnce, MemoryAlive, IInv
<1>10. KeysMatch'
  BY <1>1, <1>2, <1>3 DEF KeysMatch, IInv
<1>11. PermitsMatch'
  BY <1>1, <1>2 DEF PermitsMatch, IInv
<1>12. Heeded'
  BY <1>1, <1>2, <1>3 DEF Heeded, IInv
<1> QED
  BY <1>4, <1>5, <1>6, <1>7, <1>8, <1>9, <1>10, <1>11, <1>12 DEF Others

LEMMA InvRegister ==
  ASSUME IInv, NEW t \in Task, Register(t)
  PROVE  Others'
<1>1. /\ running = t /\ running' = NoTask /\ task[t].pc = "register"
      /\ UNCHANGED <<inKernel, cq, signalled, answer, sq, stable, version, ops>>
  BY DEF Register, kernelVars, queueVars, mapVars
<1>2. /\ task'[t].pc = "parked"
      /\ \A u \in Task : /\ task'[u].op = task[u].op /\ task'[u].keys = task[u].keys
                         /\ task'[u].back = task[u].back
                         /\ task'[u].permits = task[u].permits
      /\ \A u \in Task \ {t} : task'[u] = task[u]
  BY DEF Register, IInv, TypeOK, TaskState
<1>3. /\ \A u \in Task : Waiting(u)' <=> Waiting(u)
      /\ \A u \in Task : Awaited(u)' = Awaited(u)
      /\ Pending' = Pending /\ Queued' = Queued
  BY <1>1, <1>2 DEF Waiting, Awaited, Pending, Queued
<1>4. RunsAlone'
  BY <1>1, <1>2, SubmitAssumption DEF RunsAlone, IInv
<1>5. KeysHeld'
  BY <1>2, <1>3 DEF KeysHeld, IInv
<1>6. VersionsReached'
  BY <1>1, <1>2, <1>3 DEF VersionsReached, Reached, IInv
<1>7. OpsBegun'
  <2>1. \A u \in Task : task'[u].pc # "idle" <=> task[u].pc # "idle"
    BY <1>1, <1>2
  <2> QED BY <1>1, <1>2, <1>3, <2>1 DEF OpsBegun, IInv
<1>8. NotYetQueued'
  BY <1>1, <1>2, <1>3 DEF NotYetQueued, IInv
<1>9. MainOnce' /\ MemoryAlive'
  BY <1>1, <1>3 DEF MainOnce, MemoryAlive, IInv
<1>10. KeysMatch'
  BY <1>1, <1>2, <1>3 DEF KeysMatch, IInv
<1>11. PermitsMatch'
  BY <1>1, <1>2 DEF PermitsMatch, IInv
<1>12. Heeded'
  BY <1>1, <1>2, <1>3 DEF Heeded, IInv
<1> QED
  BY <1>4, <1>5, <1>6, <1>7, <1>8, <1>9, <1>10, <1>11, <1>12 DEF Others

(* Finish and Cancel.                                                      *)
LEMMA InvLeave ==
  ASSUME IInv, NEW t \in Task, Finish(t) \/ Cancel(t)
  PROVE  Others'
<1>1. /\ running \in {t, NoTask} /\ running' = NoTask
      /\ UNCHANGED <<inKernel, cq, signalled, answer, sq, stable, version, ops>>
  BY DEF Finish, Cancel, kernelVars, queueVars
<1>2. /\ task'[t].pc = "idle" /\ task'[t].keys = <<>> /\ task'[t].permits = 0
      /\ \A u \in Task \ {t} : task'[u] = task[u]
  BY DEF Finish, Cancel, Idle, IInv, TypeOK
<1>3. /\ \A u \in Task \ {t} : Waiting(u)' <=> Waiting(u)
      /\ \A u \in Task \ {t} : Awaited(u)' = Awaited(u)
      /\ ~Waiting(t)' /\ Pending' = Pending /\ Queued' = Queued
  BY <1>1, <1>2 DEF Waiting, Awaited, Pending, Queued
<1>4. RunsAlone'
  BY <1>1, <1>2, SubmitAssumption DEF RunsAlone, IInv
<1>5. KeysHeld'
  BY <1>2, <1>3 DEF KeysHeld, IInv
<1>6. VersionsReached'
  BY <1>1, <1>2, <1>3 DEF VersionsReached, Reached, IInv
<1>7. OpsBegun'
  BY <1>1, <1>2, <1>3 DEF OpsBegun, IInv
<1>8. NotYetQueued'
  BY <1>1, <1>2, <1>3 DEF NotYetQueued, IInv
<1>9. MainOnce' /\ MemoryAlive'
  BY <1>1, <1>3 DEF MainOnce, MemoryAlive, IInv
<1>10. KeysMatch'
  BY <1>1, <1>2, <1>3 DEF KeysMatch, IInv
<1>11. PermitsMatch'
  BY <1>1, <1>2 DEF PermitsMatch, IInv
<1>12. Heeded'
  BY <1>1, <1>2, <1>3 DEF Heeded, IInv
<1> QED
  BY <1>4, <1>5, <1>6, <1>7, <1>8, <1>9, <1>10, <1>11, <1>12 DEF Others

LEMMA InvTrySubmission ==
  ASSUME IInv, NEW t \in Task, NEW n \in 0 .. Capacity, TrySubmission(t, n)
  PROVE  Others'
<1>0. /\ TypeOK /\ MemoryAlive
      /\ n \in 0 .. Len(sq) /\ n \in 0 .. Len(stable) /\ n \in Nat /\ Len(sq) \in Nat
  BY SubmitAssumption DEF IInv, TypeOK, TrySubmission, MemoryAlive
<1>1. /\ running = t /\ running' = t /\ task[t].pc \in {"room", "select"}
      /\ inKernel' = inKernel \cup {sq[i] : i \in 1 .. n}
      /\ sq' = SubSeq(sq, n + 1, Len(sq))
      /\ stable' = SubSeq(stable, n + 1, Len(stable))
      /\ UNCHANGED <<cq, signalled, answer, version, ops>>
  BY DEF TrySubmission, Drives, Submitted, mapVars
<1>2. /\ task'[t].pc = "register" /\ task'[t].back = task[t].pc
      /\ \A u \in Task : /\ task'[u].op = task[u].op /\ task'[u].keys = task[u].keys
                         /\ task'[u].permits = task[u].permits
      /\ \A u \in Task \ {t} : task'[u] = task[u]
  BY <1>0 DEF TrySubmission, TypeOK, TaskState
<1>3. /\ Len(sq') = Len(sq) - n
      /\ \A i \in 1 .. Len(sq') : n + i \in 1 .. Len(sq) /\ sq'[i] = sq[n + i]
      /\ Len(stable') = Len(stable) - n
      /\ \A i \in 1 .. Len(stable') : stable'[i] = stable[n + i]
  BY <1>0, <1>1, Rest DEF TypeOK
<1>4. /\ \A u \in Task : Waiting(u)' <=> Waiting(u)
      /\ \A u \in Task : Awaited(u)' = Awaited(u)
  BY <1>1, <1>2 DEF Waiting, Awaited
<1>5. Queued' \subseteq Queued /\ Pending' \subseteq Pending
  <2>1. Queued' \subseteq Queued
    BY <1>3 DEF Queued
  <2>2. inKernel' \subseteq Pending
    BY <1>0, <1>1 DEF Pending, Queued
  <2> QED BY <2>1, <2>2 DEF Pending
<1>6. RunsAlone'
  BY <1>1, <1>2 DEF RunsAlone, IInv
<1>7. KeysHeld'
  BY <1>2, <1>4 DEF KeysHeld, IInv
<1>8. VersionsReached'
  BY <1>1, <1>2, <1>5 DEF VersionsReached, Reached, IInv
<1>9. OpsBegun'
  <2>1. \A u \in Task : task'[u].pc # "idle" <=> task[u].pc # "idle"
    BY <1>1, <1>2
  <2> QED BY <1>1, <1>2, <1>5, <2>1 DEF OpsBegun, IInv
<1>10. NotYetQueued'
  <2>1. \A u \in Task : task'[u].pc # "idle" <=> task[u].pc # "idle"
    BY <1>1, <1>2
  <2> QED BY <1>1, <1>2, <1>4, <1>5, <2>1 DEF NotYetQueued, IInv
<1>11. MainOnce'
  <2> DEFINE taken == {sq[i] : i \in 1 .. n}
  <2>1. \A i, j \in 1 .. Len(sq') :
          i # j /\ sq'[i].main /\ sq'[j].main => sq'[i].op # sq'[j].op
    <3> SUFFICES ASSUME NEW i \in 1 .. Len(sq'), NEW j \in 1 .. Len(sq'),
                        i # j, sq'[i].main, sq'[j].main
                 PROVE  sq'[i].op # sq'[j].op
      OBVIOUS
    <3>1. n + i \in 1 .. Len(sq) /\ n + j \in 1 .. Len(sq) /\ n + i # n + j
      BY <1>0, <1>3
    <3>2. sq'[i] = sq[n + i] /\ sq'[j] = sq[n + j]
      BY <1>3
    <3>3. \A k, l \in 1 .. Len(sq) :
            k # l /\ sq[k].main /\ sq[l].main => sq[k].op # sq[l].op
      BY DEF MainOnce, IInv
    <3>4. sq[n + i].op # sq[n + j].op
      BY <3>1, <3>2, <3>3
    <3> QED BY <3>2, <3>4
  <2>2. \A e \in Queued', f \in taken : e.main /\ f.main => e.op # f.op
    <3> SUFFICES ASSUME NEW i \in 1 .. Len(sq'), NEW j \in 1 .. n,
                        sq'[i].main, sq[j].main
                 PROVE  sq'[i].op # sq[j].op
      BY DEF Queued
    <3>1. n + i \in 1 .. Len(sq) /\ j \in 1 .. Len(sq) /\ n + i # j
      BY <1>0, <1>3
    <3> QED BY <1>3, <3>1 DEF MainOnce, IInv
  <2>3. \A e, f \in taken : e # f /\ e.main /\ f.main => e.op # f.op
    BY <1>0 DEF MainOnce, IInv
  <2>4. taken \subseteq Queued
    BY <1>0 DEF Queued
  <2>5. inKernel' = inKernel \cup taken
    BY <1>1
  <2> HIDE DEF taken
  <2>6. \A e \in Queued', f \in inKernel' : e.main /\ f.main => e.op # f.op
    BY <1>5, <2>2, <2>5 DEF MainOnce, IInv
  <2>7. \A e, f \in inKernel' : e # f /\ e.main /\ f.main => e.op # f.op
    BY <2>3, <2>4, <2>5 DEF MainOnce, IInv
  <2>8. \A e \in Pending' : e.main => answer'[e.op] = NoAnswer
    BY <1>1, <1>5 DEF MainOnce, IInv
  <2> QED BY <2>1, <2>6, <2>7, <2>8 DEF MainOnce
<1>12. KeysMatch'
  BY <1>1, <1>2, <1>4, <1>5 DEF KeysMatch, IInv
<1>13. PermitsMatch'
  BY <1>1, <1>2 DEF PermitsMatch, IInv
<1>14. Heeded'
  BY <1>1, <1>2, <1>4 DEF Heeded, IInv
<1>15. MemoryAlive'
  BY <1>0, <1>3 DEF MemoryAlive
<1> QED
  BY <1>6, <1>7, <1>8, <1>9, <1>10, <1>11, <1>12, <1>13, <1>14, <1>15 DEF Others

LEMMA InvPush ==
  ASSUME IInv, NEW t \in Task, PushWait(t) \/ PushWake(t)
  PROVE  Others'
<1>0. TypeOK /\ OpsBegun
  BY DEF IInv
<1>1. PICK keys \in Seq(Key), a, b \in Entry, x, y \in Op \cup {NoOp} :
        Pushes(t, keys, a, b, x, y)
  BY <1>0, PushFacts
<1> DEFINE last == keys[Len(keys)]
           op == task[t].op
<1>2. /\ running = t /\ running' = t /\ task[t].pc = "room"
      /\ UNCHANGED <<inKernel, cq, signalled, answer, ops>>
      /\ \A i \in Index : version[i] \in Nat /\ version'[i] \in Nat /\ version[i] <= version'[i]
  BY <1>0, <1>1 DEF Pushes, kernelVars, TypeOK
<1>3. /\ a.op = op /\ b.op = op
      /\ a.key = NoKey \/ New(a.key)
      /\ b.key = NoKey \/ New(b.key)
      /\ a.main => ~b.main
      /\ a.main <=> a.key = last
      /\ b.main <=> b.key = last
      /\ a.refers => x = a.op
      /\ b.refers => y = b.op
  BY <1>1 DEF Pushes
<1>4. keys # <<>> /\ New(last) /\ \A i \in 1 .. Len(keys) : New(keys[i])
  <2>1. keys # <<>> /\ \A i \in 1 .. Len(keys) : New(keys[i])
    BY <1>1 DEF Pushes
  <2>2. Len(keys) \in 1 .. Len(keys)
    BY <2>1
  <2> QED BY <2>1, <2>2
<1>5. /\ Len(sq') = Len(sq) + 2 /\ Len(sq) \in Nat
      /\ \A i \in 1 .. Len(sq) : sq'[i] = sq[i]
      /\ sq'[Len(sq) + 1] = a /\ sq'[Len(sq) + 2] = b
  BY <1>0, <1>1, AddTwo DEF Pushes, TypeOK
<1>6. /\ Len(stable') = Len(stable) + 2 /\ Len(stable) \in Nat
      /\ \A i \in 1 .. Len(stable) : stable'[i] = stable[i]
      /\ stable'[Len(stable) + 1] = x /\ stable'[Len(stable) + 2] = y
  BY <1>0, <1>1, AddTwo DEF Pushes, TypeOK
<1>7. /\ task'[t].pc = "select" /\ task'[t].keys = keys
      /\ \A u \in Task : task'[u].op = task[u].op /\ task'[u].permits = task[u].permits
      /\ \A u \in Task \ {t} : task'[u] = task[u]
  BY <1>0, <1>1 DEF Pushes, TypeOK, TaskState
<1>8. /\ \A u \in Task \ {t} : Waiting(u)' <=> Waiting(u)
      /\ \A u \in Task \ {t} : Awaited(u)' = Awaited(u)
      /\ ~Waiting(t) /\ Waiting(t)' /\ Awaited(t)' = last
  BY <1>2, <1>7 DEF Waiting, Awaited
<1>9. \A i \in 1 .. Len(sq') : i \in 1 .. Len(sq) \/ i = Len(sq) + 1 \/ i = Len(sq) + 2
  BY <1>5
<1>10. Queued' \subseteq Queued \cup {a, b} /\ Pending' \subseteq Pending \cup {a, b}
  <2>1. Queued' \subseteq Queued \cup {a, b}
    BY <1>5, <1>9 DEF Queued
  <2> QED BY <1>2, <2>1 DEF Pending
<1>11. \A e \in Pending : e.op # op
  BY <1>2, <1>8 DEF NotYetQueued, IInv
<1>12. \A key \in Key : Reached(key) => NowReached(key) /\ ~New(key)
  BY <1>2 DEF Reached, NowReached, New, Key
<1>13. Queued \subseteq Entry /\ inKernel \subseteq Entry /\ Pending \subseteq Entry
  BY <1>0 DEF TypeOK, Pending, Queued
<1>14. \A e \in Pending : e.key \in Key /\ Reached(e.key)
  BY <1>13 DEF Entry, VersionsReached, IInv
<1>15. \A c \in cq : c.key \in Key /\ Reached(c.key)
  BY <1>0 DEF TypeOK, VersionsReached, IInv
<1>16. \A u \in Task : \A i \in 1 .. Len(task[u].keys) :
         task[u].keys[i] \in Key /\ Reached(task[u].keys[i])
  <2>1. \A u \in Task : task[u].keys \in Seq(Key)
    BY <1>0 DEF TypeOK, TaskState
  <2>2. \A u \in Task : \A i \in 1 .. Len(task[u].keys) : task[u].keys[i] \in Key
    BY <2>1
  <2> QED BY <2>2 DEF VersionsReached, IInv
<1>17. NowReached(NoKey) /\ ~New(NoKey) /\ \A key : New(key) => NowReached(key)
  BY <1>2 DEF NowReached, New, NoKey, Index
<1> HIDE DEF last, op
<1>18. RunsAlone'
  BY <1>2, <1>7 DEF RunsAlone, IInv
<1>19. KeysHeld'
  BY <1>4, <1>7, <1>8 DEF KeysHeld, IInv, New
<1>20. VersionsReached'
  <2>1. ASSUME NEW u \in Task, NEW i \in 1 .. Len(task'[u].keys)
        PROVE  NowReached(task'[u].keys[i])
    <3>1. CASE u = t
      BY <1>4, <1>7, <1>17, <3>1
    <3>2. CASE u # t
      BY <1>7, <1>12, <1>16, <3>2
    <3> QED BY <3>1, <3>2
  <2>2. \A e \in Pending' : NowReached(e.key)
    BY <1>3, <1>10, <1>12, <1>14, <1>17
  <2>3. \A c \in cq' : NowReached(c.key)
    BY <1>2, <1>12, <1>15
  <2> QED BY <2>1, <2>2, <2>3 DEF VersionsReached, Reached, NowReached
<1>21. OpsBegun'
  <2>1. \A u \in Task : task'[u].pc # "idle" <=> task[u].pc # "idle"
    BY <1>2, <1>7
  <2>2. op \in 1 .. ops
    BY <1>0, <1>2 DEF OpsBegun, op
  <2> QED BY <1>0, <1>2, <1>3, <1>7, <1>10, <2>1, <2>2 DEF OpsBegun
<1>22. NotYetQueued'
  <2> SUFFICES ASSUME NEW u \in Task, task'[u].pc # "idle", ~Waiting(u)'
               PROVE  (\A e \in Pending' : e.op # task'[u].op)
                      /\ answer'[task'[u].op] = NoAnswer
    BY DEF NotYetQueued
  <2>1. u # t /\ task'[u] = task[u] /\ ~Waiting(u)
    BY <1>7, <1>8
  <2>2. task[u].op # op
    BY <1>0, <1>2, <2>1 DEF OpsBegun, op
  <2> QED BY <1>2, <1>3, <1>10, <2>1, <2>2 DEF NotYetQueued, IInv
<1>23. MainOnce'
  <2>1. \A i, j \in 1 .. Len(sq') :
          i # j /\ sq'[i].main /\ sq'[j].main => sq'[i].op # sq'[j].op
    <3> SUFFICES ASSUME NEW i \in 1 .. Len(sq'), NEW j \in 1 .. Len(sq'),
                        i # j, sq'[i].main, sq'[j].main
                 PROVE  sq'[i].op # sq'[j].op
      OBVIOUS
    <3>1. \A k \in 1 .. Len(sq) : sq[k] \in Pending
      BY DEF Pending, Queued
    <3>2. CASE i \in 1 .. Len(sq) /\ j \in 1 .. Len(sq)
      BY <1>5, <3>2 DEF MainOnce, IInv
    <3>3. CASE i \in 1 .. Len(sq) /\ j \notin 1 .. Len(sq)
      BY <1>3, <1>5, <1>9, <1>11, <3>1, <3>3
    <3>4. CASE i \notin 1 .. Len(sq) /\ j \in 1 .. Len(sq)
      BY <1>3, <1>5, <1>9, <1>11, <3>1, <3>4
    <3>5. CASE i \notin 1 .. Len(sq) /\ j \notin 1 .. Len(sq)
      BY <1>3, <1>5, <1>9, <3>5
    <3> QED BY <3>2, <3>3, <3>4, <3>5
  <2>2. \A e \in Queued', f \in inKernel' : e.main /\ f.main => e.op # f.op
    <3>1. \A f \in inKernel : f.op # op
      BY <1>11 DEF Pending
    <3> QED BY <1>2, <1>3, <1>10, <3>1 DEF MainOnce, IInv
  <2>3. \A e, f \in inKernel' : e # f /\ e.main /\ f.main => e.op # f.op
    BY <1>2 DEF MainOnce, IInv
  <2>4. answer[op] = NoAnswer
    BY <1>2, <1>8 DEF NotYetQueued, IInv, op
  <2>5. \A e \in Pending' : e.main => answer'[e.op] = NoAnswer
    BY <1>2, <1>3, <1>10, <2>4 DEF MainOnce, IInv
  <2> QED BY <2>1, <2>2, <2>3, <2>5 DEF MainOnce
<1>24. KeysMatch'
  <2> SUFFICES ASSUME NEW u \in Task, Waiting(u)'
               PROVE  /\ \A e \in Pending' : e.key = Awaited(u)' =>
                           e.op = task'[u].op /\ e.main
                      /\ \A c \in cq' : c.key = Awaited(u)' =>
                           answer'[task'[u].op] = c.result
    BY DEF KeysMatch
  <2>1. CASE u = t
    <3>1. \A e \in Pending : e.key # last
      BY <1>4, <1>12, <1>14
    <3>2. \A c \in cq : c.key # last
      BY <1>4, <1>12, <1>15
    <3>3. task'[t].op = op
      BY <1>7 DEF op
    <3> QED BY <1>2, <1>3, <1>8, <1>10, <2>1, <3>1, <3>2, <3>3
  <2>2. CASE u # t
    <3>1. Waiting(u) /\ Awaited(u)' = Awaited(u) /\ task'[u] = task[u]
      BY <1>7, <1>8, <2>2
    <3>2. Awaited(u) \in Key /\ Reached(Awaited(u)) /\ Awaited(u).index \in Index
      <4>1. task[u].keys # <<>> /\ task[u].keys \in Seq(Key)
        BY <1>0, <3>1 DEF KeysHeld, IInv, TypeOK, TaskState
      <4>2. Len(task[u].keys) \in 1 .. Len(task[u].keys)
        BY <4>1
      <4> QED BY <1>16, <4>2 DEF Awaited, KeysHeld, IInv
    <3>3. ~New(Awaited(u)) /\ Awaited(u) # NoKey
      BY <1>12, <3>2 DEF NoKey, Index
    <3>4. a.key # Awaited(u) /\ b.key # Awaited(u)
      BY <1>3, <3>3
    <3> QED BY <1>2, <1>10, <3>1, <3>4 DEF KeysMatch, IInv
  <2> QED BY <2>1, <2>2
<1>25. PermitsMatch'
  BY <1>2, <1>7 DEF PermitsMatch, IInv
<1>26. Heeded'
  <2>1. \A c \in cq : c.key # last
    BY <1>4, <1>12, <1>15
  <2> QED BY <1>2, <1>7, <1>8, <2>1 DEF Heeded, IInv
<1>27. MemoryAlive'
  <2>1. Len(stable) = Len(sq) /\ \A i \in 1 .. Len(sq) : sq[i].refers => stable[i] = sq[i].op
    BY DEF MemoryAlive, IInv
  <2> QED BY <1>3, <1>5, <1>6, <1>9, <2>1 DEF MemoryAlive
<1> QED
  BY <1>18, <1>19, <1>20, <1>21, <1>22, <1>23, <1>24, <1>25, <1>26, <1>27 DEF Others

(* The result a waiter is handed belongs to its operation.                 *)
LEMMA GivenFacts ==
  ASSUME IInv, NEW u \in Task
  PROVE  /\ \A f \in {"pc", "back", "op", "keys", "woken"} : Given(u)[f] = task[u][f]
         /\ Given(u).permits = task[u].permits \/ Waiting(u)
         /\ Given(u).permits > 0 =>
              /\ answer[task[u].op] \in Result
              /\ Given(u).permits = Encode(answer[task[u].op])
         /\ task[u].permits > 0 => Given(u).permits = task[u].permits
<1>0. TypeOK /\ task[u] \in TaskState
  BY DEF IInv, TypeOK
<1>1. CASE For(u) = {}
  BY <1>1 DEF Given, PermitsMatch, IInv
<1>2. CASE For(u) # {}
  <2> DEFINE c == CHOOSE c \in For(u) : TRUE
  <2>1. c \in cq /\ Finds(c.key) /\ task[u].keys # <<>> /\ Awaited(u) = Holder(c.key.index)
    BY <1>2 DEF For, Hits
  <2>2. c.key \in Key /\ c.result \in Result
    BY <1>0, <2>1 DEF TypeOK
  <2>3. Given(u) = [task[u] EXCEPT !.permits = Encode(c.result)]
    BY <1>2 DEF Given
  <2> HIDE DEF c
  <2>4. c.key = Awaited(u)
    BY <2>1, <2>2 DEF Finds, Holder, Key
  <2>5. Waiting(u)
    BY <2>1 DEF KeysHeld, IInv
  <2>6. answer[task[u].op] = c.result
    BY <2>1, <2>4, <2>5 DEF KeysMatch, IInv
  <2>7. Encode(c.result) \in Nat
    BY <2>2, EncodeType
  <2>8. task[u].permits > 0 => task[u].permits = Encode(c.result)
    BY <2>6 DEF PermitsMatch, IInv
  <2> QED BY <1>0, <2>2, <2>3, <2>5, <2>6, <2>7, <2>8 DEF TaskState
<1> QED BY <1>1, <1>2

LEMMA InvDrain ==
  ASSUME IInv, NEW t \in Task, Drain(t)
  PROVE  Others'
<1>0. TypeOK /\ task \in [Task -> TaskState]
  BY DEF IInv, TypeOK
<1>1. /\ running = NoTask /\ running' = t /\ task[t].pc = "parked" /\ cq' = {}
      /\ UNCHANGED <<inKernel, signalled, answer, sq, stable, version, ops>>
  BY DrainSteps DEF queueVars
<1> DEFINE drained == [u \in Task |-> Given(u)]
<1>2. /\ drained \in [Task -> TaskState]
      /\ task' = [drained EXCEPT ![t].pc = task[t].back, ![t].woken = FALSE]
  BY <1>0, GivenType, DrainSteps
<1>3. \A u \in Task : drained[u] = Given(u)
  OBVIOUS
<1> HIDE DEF drained
<1>4. /\ task'[t].pc = task[t].back /\ task'[t].back = task[t].back
      /\ \A u \in Task : /\ task'[u].op = Given(u).op /\ task'[u].keys = Given(u).keys
                         /\ task'[u].permits = Given(u).permits
      /\ \A u \in Task \ {t} : task'[u] = Given(u)
  <2>1. /\ task'[t].pc = task[t].back /\ task'[t].back = drained[t].back
        /\ \A u \in Task : /\ task'[u].op = drained[u].op
                           /\ task'[u].keys = drained[u].keys
                           /\ task'[u].permits = drained[u].permits
        /\ \A u \in Task \ {t} : task'[u] = drained[u]
    BY <1>2 DEF TaskState
  <2>2. Given(t).back = task[t].back
    BY GivenFacts
  <2> QED BY <1>3, <2>1, <2>2
<1>5. /\ task'[t].pc = task[t].back /\ task'[t].back = task[t].back
      /\ \A u \in Task : task'[u].op = task[u].op /\ task'[u].keys = task[u].keys
      /\ \A u \in Task \ {t} : task'[u].pc = task[u].pc /\ task'[u].back = task[u].back
  BY <1>4, GivenFacts
<1>6. task[t].back \in {"room", "select"}
  BY <1>0 DEF TaskState
<1>7. /\ \A u \in Task : Waiting(u)' <=> Waiting(u)
      /\ \A u \in Task : Awaited(u)' = Awaited(u)
      /\ \A u \in Task : task'[u].pc # "idle" <=> task[u].pc # "idle"
      /\ Pending' = Pending /\ Queued' = Queued
  BY <1>1, <1>5, <1>6 DEF Waiting, Awaited, Pending, Queued
<1>8. RunsAlone'
  BY <1>1, <1>5, SubmitAssumption DEF RunsAlone, IInv
<1>9. KeysHeld'
  <2>1. \A u \in Task : ~Waiting(u) => task'[u].permits = 0
    BY <1>4, GivenFacts DEF KeysHeld, IInv
  <2> QED BY <1>5, <1>7, <2>1 DEF KeysHeld, IInv
<1>10. VersionsReached'
  BY <1>1, <1>5, <1>7 DEF VersionsReached, Reached, IInv
<1>11. OpsBegun'
  BY <1>1, <1>5, <1>7 DEF OpsBegun, IInv
<1>12. NotYetQueued'
  BY <1>1, <1>5, <1>7 DEF NotYetQueued, IInv
<1>13. MainOnce' /\ MemoryAlive'
  BY <1>1, <1>7 DEF MainOnce, MemoryAlive, IInv
<1>14. KeysMatch'
  BY <1>1, <1>5, <1>7 DEF KeysMatch, IInv
<1>15. PermitsMatch'
  BY <1>1, <1>4, <1>5, GivenFacts DEF PermitsMatch
<1>16. Heeded'
  BY <1>1 DEF Heeded
<1> QED
  BY <1>8, <1>9, <1>10, <1>11, <1>12, <1>13, <1>14, <1>15, <1>16 DEF Others

LEMMA InvComplete ==
  ASSUME IInv, NEW e \in inKernel, NEW r \in Answers(e), Complete(e, r)
  PROVE  Others'
<1>a. TypeOK
  BY DEF IInv
<1>b. e \in Entry /\ e \in Pending
  BY <1>a DEF TypeOK, Pending
<1>c. r \in Result
  <2>1. (CHOOSE x \in Result : TRUE) \in Result
    BY SubmitAssumption
  <2>2. CASE e.main
    BY <2>2 DEF Answers
  <2>3. CASE ~e.main
    BY <2>1, <2>3 DEF Answers
  <2> QED BY <2>2, <2>3
<1>0. TypeOK /\ e \in Entry /\ e \in Pending /\ r \in Result
  BY <1>a, <1>b, <1>c
<1> DEFINE c == [key |-> e.key, result |-> r, op |-> e.op]
<1>1. /\ inKernel' = inKernel \ {e} /\ cq' = cq \cup {c} /\ signalled' = TRUE
      /\ UNCHANGED <<sq, stable, version, task, running, ops>>
      /\ answer' = IF e.main THEN [answer EXCEPT ![e.op] = r] ELSE answer
  BY DEF Complete, queueVars, mapVars
<1>2. c.key = e.key /\ c.result = r
  OBVIOUS
<1> HIDE DEF c
<1>3. /\ \A u \in Task : Waiting(u)' <=> Waiting(u)
      /\ \A u \in Task : Awaited(u)' = Awaited(u)
      /\ Queued' = Queued /\ Pending' \subseteq Pending
  BY <1>1 DEF Waiting, Awaited, Pending, Queued
<1>4. /\ e.op \in Op /\ e.op \in 1 .. ops
      /\ \A o \in Op : o # e.op => answer'[o] = answer[o]
      /\ e.main => answer'[e.op] = r /\ answer[e.op] = NoAnswer
      /\ ~e.main => answer' = answer
  BY <1>0, <1>1 DEF TypeOK, Entry, OpsBegun, MainOnce, IInv
<1>5. NoAnswer \notin Result
  BY SubmitAssumption DEF NoAnswer
<1>6. \A u \in Task : task[u].op \in Op /\ answer[task[u].op] \in Result =>
        answer'[task[u].op] = answer[task[u].op]
  BY <1>4, <1>5
<1>7. RunsAlone' /\ KeysHeld'
  BY <1>1, <1>3 DEF RunsAlone, KeysHeld, IInv
<1>8. VersionsReached'
  BY <1>0, <1>1, <1>2, <1>3 DEF VersionsReached, Reached, IInv
<1>9. OpsBegun'
  <2>1. \A o \in Op : o > ops => answer'[o] = NoAnswer
    BY <1>0, <1>4, SubmitAssumption DEF OpsBegun, IInv, TypeOK, Op
  <2> QED BY <1>1, <1>3, <2>1 DEF OpsBegun, IInv
<1>10. \A u \in Task : task[u].pc # "idle" => task[u].op \in Op
  BY <1>0, SubmitAssumption DEF OpsBegun, IInv, TypeOK, Op
<1>11. NotYetQueued'
  <2> SUFFICES ASSUME NEW u \in Task, task[u].pc # "idle", ~Waiting(u)
               PROVE  (\A f \in Pending' : f.op # task[u].op)
                      /\ answer'[task[u].op] = NoAnswer
    BY <1>1, <1>3 DEF NotYetQueued
  <2>1. e.op # task[u].op /\ task[u].op \in Op
    BY <1>0, <1>10 DEF NotYetQueued, IInv
  <2> QED BY <1>3, <1>4, <2>1 DEF NotYetQueued, IInv
<1>12. MainOnce'
  <2>1. /\ \A i, j \in 1 .. Len(sq') :
             i # j /\ sq'[i].main /\ sq'[j].main => sq'[i].op # sq'[j].op
        /\ \A f \in Queued', g \in inKernel' : f.main /\ g.main => f.op # g.op
        /\ \A f, g \in inKernel' : f # g /\ f.main /\ g.main => f.op # g.op
    BY <1>1, <1>3 DEF MainOnce, IInv
  <2>2. \A f \in Pending' : f.main => answer'[f.op] = NoAnswer
    <3> SUFFICES ASSUME NEW f \in Pending', f.main
                 PROVE  answer'[f.op] = NoAnswer
      OBVIOUS
    <3>1. f \in Pending /\ (f \in Queued \/ (f \in inKernel /\ f # e)) /\ f.op \in Op
      BY <1>0, <1>1, <1>3, SubmitAssumption DEF Pending, OpsBegun, IInv, TypeOK, Op
    <3>2. e.main => e.op # f.op
      BY <3>1 DEF MainOnce, IInv
    <3> QED BY <1>4, <3>1, <3>2 DEF MainOnce, IInv
  <2> QED BY <2>1, <2>2 DEF MainOnce
<1>13. KeysMatch'
  <2> SUFFICES ASSUME NEW u \in Task, Waiting(u)
               PROVE  /\ \A f \in Pending' : f.key = Awaited(u) =>
                           f.op = task[u].op /\ f.main
                      /\ \A d \in cq' : d.key = Awaited(u) =>
                           answer'[task[u].op] = d.result
    BY <1>1, <1>3 DEF KeysMatch
  <2>1. task[u].op \in Op
    BY <1>10 DEF Waiting
  <2>2. \A d \in cq : d.key = Awaited(u) => answer'[task[u].op] = d.result
    <3>1. \A d \in cq : d.result \in Result
      BY <1>0 DEF TypeOK
    <3>2. \A d \in cq : d.key = Awaited(u) => answer[task[u].op] = d.result
      BY DEF KeysMatch, IInv
    <3> QED BY <1>6, <2>1, <3>1, <3>2
  <2>3. c.key = Awaited(u) => answer'[task[u].op] = c.result
    <3>1. c.key = Awaited(u) => e.op = task[u].op /\ e.main
      BY <1>0, <1>2 DEF KeysMatch, IInv
    <3> QED BY <1>2, <1>4, <3>1
  <2>4. \A f \in Pending' : f.key = Awaited(u) => f.op = task[u].op /\ f.main
    BY <1>3 DEF KeysMatch, IInv
  <2>5. \A d \in cq' : d.key = Awaited(u) => answer'[task[u].op] = d.result
    BY <1>1, <2>2, <2>3
  <2> QED BY <2>4, <2>5
<1>14. PermitsMatch'
  <2> SUFFICES ASSUME NEW u \in Task, task[u].permits > 0
               PROVE  /\ answer'[task[u].op] \in Result
                      /\ task[u].permits = Encode(answer'[task[u].op])
    BY <1>1 DEF PermitsMatch
  <2>1. Waiting(u)
    BY DEF KeysHeld, IInv
  <2>2. task[u].op \in Op
    BY <1>10, <2>1 DEF Waiting
  <2> QED BY <1>6, <2>2 DEF PermitsMatch, IInv
<1>15. Heeded'
  BY <1>1 DEF Heeded
<1>16. MemoryAlive'
  BY <1>1 DEF MemoryAlive, IInv
<1> QED
  BY <1>7, <1>8, <1>9, <1>11, <1>12, <1>13, <1>14, <1>15, <1>16 DEF Others

LEMMA InvPoll ==
  ASSUME IInv, Poll
  PROVE  Others'
<1>1. /\ OneThread => running = NoTask
      /\ UNCHANGED <<inKernel, cq, answer, sq, stable, version, running, ops>>
  BY DEF Poll, PollerMayRun, queueVars, mapVars
<1>2. /\ \A u \in Task : /\ task'[u].pc = task[u].pc /\ task'[u].op = task[u].op
                         /\ task'[u].keys = task[u].keys /\ task'[u].back = task[u].back
                         /\ task'[u].permits = task[u].permits
      /\ \A u \in Task : task[u].pc = "parked" => task'[u].woken
  BY DEF Poll, IInv, TypeOK, TaskState
<1>3. /\ \A u \in Task : Waiting(u)' <=> Waiting(u)
      /\ \A u \in Task : Awaited(u)' = Awaited(u)
      /\ Pending' = Pending /\ Queued' = Queued
  BY <1>1, <1>2 DEF Waiting, Awaited, Pending, Queued
<1>4. RunsAlone' /\ KeysHeld'
  BY <1>1, <1>2, <1>3 DEF RunsAlone, KeysHeld, IInv
<1>5. VersionsReached'
  BY <1>1, <1>2, <1>3 DEF VersionsReached, Reached, IInv
<1>6. OpsBegun'
  BY <1>1, <1>2, <1>3 DEF OpsBegun, IInv
<1>7. NotYetQueued'
  BY <1>1, <1>2, <1>3 DEF NotYetQueued, IInv
<1>8. MainOnce' /\ MemoryAlive'
  BY <1>1, <1>3 DEF MainOnce, MemoryAlive, IInv
<1>9. KeysMatch' /\ PermitsMatch'
  BY <1>1, <1>2, <1>3 DEF KeysMatch, PermitsMatch, IInv
<1>10. Heeded'
  <2>1. OneThread => \A u \in Task : Waiting(u) => task[u].pc = "parked"
    BY <1>1, SubmitAssumption DEF Waiting, RunsAlone, IInv
  <2> QED BY <1>1, <1>2, <1>3, <2>1 DEF Heeded
<1> QED
  BY <1>4, <1>5, <1>6, <1>7, <1>8, <1>9, <1>10 DEF Others

-----------------------------------------------------------------------------
LEMMA InvStep == IInv /\ [Next]_vars => IInv'
<1> SUFFICES ASSUME IInv, [Next]_vars PROVE IInv'
  OBVIOUS
<1>1. TypeOK'
  BY TypeStep DEF IInv
<1>2. CASE UNCHANGED vars
  BY <1>2 DEF IInv, vars, kernelVars, queueVars, mapVars, TypeOK, RunsAlone, KeysHeld,
    VersionsReached, Reached, OpsBegun, NotYetQueued, MainOnce, KeysMatch,
    PermitsMatch, Heeded, MemoryAlive, Waiting, Awaited, Pending, Queued
<1>3. ASSUME Next PROVE Others'
  BY <1>3, InvAcquire, InvPush, InvTrySubmission, InvRegister, InvDrain, InvLeave,
     InvComplete, InvPoll DEF Next, TaskStep, Submits
<1> QED BY <1>1, <1>2, <1>3 DEF Others, IInv

LEMMA Invariance == Spec => []IInv
<1>1. Init => IInv
  BY InvInit
<1>2. IInv /\ [Next]_vars => IInv'
  BY InvStep
<1> QED BY <1>1, <1>2, PTL DEF Spec

(* The variables keep their types, and the queue never exceeds its         *)
(* capacity, however many permits submission has added                     *)
(* (non_empty_submission_and_then_sync looks at the queue itself).         *)
THEOREM TypeCorrect == Spec => []TypeOK
<1>1. IInv => TypeOK
  BY DEF IInv
<1> QED BY <1>1, Invariance, PTL

(* What a queued entry refers to has not been freed, whoever was dropped   *)
(* and however little of the queue the system call took (submit).          *)
THEOREM MemoryIsAlive == Spec => []MemoryAlive
<1>1. IInv => MemoryAlive
  BY DEF IInv
<1> QED BY <1>1, Invariance, PTL

(* A task gets the answer to its own operation (complete, KeyOwner::wait). *)
THEOREM ResultsAreOwn == Spec => []OwnResult
<1>1. IInv => OwnResult
  <2> SUFFICES ASSUME IInv, NEW t \in Task, task[t].permits > 0
               PROVE  Decode(task[t].permits) = answer[task[t].op]
    BY DEF OwnResult
  <2>1. /\ answer[task[t].op] \in Result
        /\ task[t].permits = Encode(answer[task[t].op])
    BY DEF IInv, PermitsMatch
  <2> QED BY <2>1, Reversible
<1> QED BY <1>1, Invariance, PTL

(* If the poller shares the thread of the tasks, whoever sleeps for an     *)
(* entry that was completed is going to be woken (complete).               *)
THEOREM NobodyIsForgotten == ASSUME OneThread PROVE Spec => []NobodyForgotten
<1>1. IInv => NobodyForgotten
  BY DEF IInv, Heeded, NobodyForgotten, Waiting
<1> QED BY <1>1, Invariance, PTL

-----------------------------------------------------------------------------
(* The refinement: operations are calls.                                   *)
Handed(t) == IF task[t].permits > 0 THEN Decode(task[t].permits) ELSE NoAnswer

(* A task without an operation has no call either. *)
NoneIdle == \A t \in Task : task[t].pc = "idle" => task[t].op = NoOp

LEMMA CallsVars ==
  /\ Calls!vars = <<[t \in Task |-> task[t].op], 1 .. ops, answer,
                    [t \in Task |-> Handed(t)]>>
  /\ Calls!vars' = <<[t \in Task |-> task'[t].op], 1 .. ops', answer',
                     [t \in Task |-> Handed(t)']>>
BY DEF Calls!vars, Handed

LEMMA HandedIsAnswer ==
  ASSUME IInv, NEW t \in Task
  PROVE  /\ task[t].permits > 0 =>
              /\ Handed(t) = answer[task[t].op] /\ Handed(t) # NoAnswer
              /\ task[t].op \in 1 .. ops
         /\ ~(task[t].permits > 0) => Handed(t) = NoAnswer
<1>1. CASE task[t].permits > 0
  <2>1. /\ answer[task[t].op] \in Result
        /\ task[t].permits = Encode(answer[task[t].op])
    BY <1>1 DEF IInv, PermitsMatch
  <2>2. Decode(task[t].permits) = answer[task[t].op]
    BY <1>1, <2>1, Reversible
  <2>3. NoAnswer \notin Result
    BY SubmitAssumption DEF NoAnswer
  <2>4. task[t].op \in 1 .. ops
    <3>1. Waiting(t)
      BY <1>1 DEF IInv, KeysHeld
    <3> QED BY <3>1 DEF IInv, OpsBegun, Waiting
  <2> QED BY <1>1, <2>1, <2>2, <2>3, <2>4 DEF Handed
<1>2. CASE ~(task[t].permits > 0)
  BY <1>2 DEF Handed
<1> QED BY <1>1, <1>2

(* The steps that neither begin nor answer, hand out or end anything.      *)
LEMMA Quiet ==
  ASSUME ops' = ops, answer' = answer,
         \A u \in Task : task'[u].op = task[u].op /\ task'[u].permits = task[u].permits
  PROVE  UNCHANGED Calls!vars
<1>1. \A u \in Task : Handed(u)' = Handed(u)
  BY DEF Handed, Decode, AsI32
<1>2. [u \in Task |-> Handed(u)'] = [u \in Task |-> Handed(u)]
  BY <1>1
<1>3. [u \in Task |-> task'[u].op] = [u \in Task |-> task[u].op]
  OBVIOUS
<1> QED BY <1>2, <1>3, CallsVars

LEMMA RefinesAcquire ==
  ASSUME IInv, NoneIdle, NEW t \in Task, NEW kind \in Kind, Acquire(t, kind)
  PROVE  \E o \in Op : Calls!Make(t, o)
<1>1. /\ task \in [Task -> TaskState] /\ ops \in Nat /\ MaxOps \in Nat
      /\ task[t].pc = "idle" /\ ops < MaxOps
      /\ ops' = ops + 1 /\ answer' = answer
      /\ task' = [task EXCEPT ![t] = Begun(kind, ops + 1)]
  BY SubmitAssumption DEF IInv, TypeOK, Acquire, kernelVars
<1>2. /\ task[t].op = NoOp /\ task[t].permits = 0
      /\ task'[t].op = ops + 1 /\ task'[t].permits = 0
      /\ \A u \in Task \ {t} : task'[u] = task[u]
  BY <1>1 DEF NoneIdle, IInv, KeysHeld, Waiting, Begun
<1>3. \A u \in Task : Handed(u)' = Handed(u)
  BY <1>2 DEF Handed, Decode, AsI32
<1>4. [u \in Task |-> task'[u].op] = [[u \in Task |-> task[u].op] EXCEPT ![t] = ops + 1]
  BY <1>2
<1>5. 1 .. ops' = (1 .. ops) \cup {ops + 1} /\ ops + 1 \notin 1 .. ops
  BY <1>1
<1>6. [u \in Task |-> Handed(u)'] = [u \in Task |-> Handed(u)]
  BY <1>3
<1>7. PICK o \in Op : o = ops + 1
  BY <1>1 DEF Op
<1>8. Calls!Make(t, o)
  BY <1>1, <1>2, <1>4, <1>5, <1>6, <1>7 DEF Calls!Make, Handed
<1> QED BY <1>8

LEMMA TaskKeeps ==
  ASSUME IInv, NEW t \in Task,
         PushWait(t) \/ PushWake(t) \/ Submits(t) \/ Register(t)
  PROVE  /\ ops' = ops /\ answer' = answer /\ task'[t].pc # "idle"
         /\ \A u \in Task : task'[u].op = task[u].op /\ task'[u].permits = task[u].permits
         /\ \A u \in Task \ {t} : task'[u] = task[u]
<1>1. task \in [Task -> TaskState] /\ task[t] \in TaskState
  BY DEF IInv, TypeOK
<1>2. ops' = ops /\ answer' = answer
  BY DEF PushWait, PushWake, Push, Submits, TrySubmission, Register, kernelVars
<1>3. CASE PushWait(t) \/ PushWake(t)
  <2>1. \E keys : task' = [task EXCEPT ![t].pc = "select", ![t].keys = keys]
    BY <1>3 DEF PushWait, PushWake, Push
  <2> QED BY <1>1, <1>2, <2>1 DEF TaskState
<1>4. CASE Submits(t)
  <2>1. task' = [task EXCEPT ![t].pc = "register", ![t].back = task[t].pc]
    BY <1>4 DEF Submits, TrySubmission
  <2> QED BY <1>1, <1>2, <2>1 DEF TaskState
<1>5. CASE Register(t)
  <2>1. task' = [task EXCEPT ![t].pc = "parked", ![t].woken = FALSE]
    BY <1>5 DEF Register
  <2> QED BY <1>1, <1>2, <2>1 DEF TaskState
<1> QED BY <1>3, <1>4, <1>5

LEMMA RefinesTask ==
  ASSUME IInv, NEW t \in Task,
         PushWait(t) \/ PushWake(t) \/ Submits(t) \/ Register(t)
  PROVE  UNCHANGED Calls!vars
BY TaskKeeps, Quiet

LEMMA RefinesPoll ==
  ASSUME IInv, Poll
  PROVE  UNCHANGED Calls!vars
<1>1. task \in [Task -> TaskState]
  BY DEF IInv, TypeOK
<1>2. \A u \in Task : task'[u].op = task[u].op /\ task'[u].permits = task[u].permits
  BY <1>1 DEF Poll, TaskState
<1> QED BY <1>2, Quiet DEF Poll

(* What a task got before it keeps, and what it gets now is there.         *)
LEMMA RefinesDrain ==
  ASSUME IInv, NEW t \in Task, Drain(t)
  PROVE  \E S \in SUBSET Task : Calls!Hand(S)
<1>1. ops' = ops /\ answer' = answer
  BY DrainSteps
<1>2. \A u \in Task : task'[u].op = task[u].op /\ task'[u].permits = Given(u).permits
  <2> DEFINE drained == [u \in Task |-> Given(u)]
  <2>1. drained \in [Task -> TaskState]
    BY GivenType DEF IInv
  <2>2. task' = [drained EXCEPT ![t].pc = task[t].back, ![t].woken = FALSE]
    BY DrainSteps
  <2>3. \A u \in Task : drained[u] = Given(u)
    OBVIOUS
  <2> HIDE DEF drained
  <2>4. \A u \in Task : task'[u].op = drained[u].op /\ task'[u].permits = drained[u].permits
    BY <2>1, <2>2 DEF TaskState
  <2> QED BY <2>3, <2>4, GivenFacts
<1> DEFINE S == {u \in Task : ~(task[u].permits > 0) /\ task'[u].permits > 0}
<1>3. ASSUME NEW u \in S
      PROVE  /\ task[u].op \in 1 .. ops /\ answer[task[u].op] # NoAnswer
             /\ Handed(u) = NoAnswer /\ Handed(u)' = answer[task[u].op]
  <2>1. u \in Task /\ Waiting(u) /\ Given(u).permits > 0
    BY <1>2, GivenFacts
  <2>2. /\ answer[task[u].op] \in Result
        /\ Given(u).permits = Encode(answer[task[u].op])
    BY <2>1, GivenFacts
  <2>3. Decode(Given(u).permits) = answer[task[u].op]
    BY <2>1, <2>2, Reversible
  <2>4. Handed(u)' = answer[task[u].op]
    BY <1>2, <2>1, <2>3 DEF Handed, Decode, AsI32
  <2>5. task[u].op \in 1 .. ops
    BY <2>1 DEF IInv, OpsBegun, Waiting
  <2>6. NoAnswer \notin Result
    BY SubmitAssumption DEF NoAnswer
  <2> QED BY <2>1, <2>2, <2>4, <2>5, <2>6, HandedIsAnswer
<1>4. ASSUME NEW u \in Task \ S
      PROVE  Handed(u)' = Handed(u)
  <2>1. CASE task[u].permits > 0
    <3>1. task'[u].permits = task[u].permits
      BY <1>2, <2>1, GivenFacts
    <3> QED BY <3>1 DEF Handed, Decode, AsI32
  <2>2. CASE ~(task[u].permits > 0)
    <3>1. ~(task'[u].permits > 0)
      BY <2>2
    <3> QED BY <2>2, <3>1 DEF Handed, NoAnswer
  <2> QED BY <2>1, <2>2
<1> HIDE DEF S
<1>5. [u \in Task |-> Handed(u)'] =
        [u \in Task |-> IF u \in S THEN answer[task[u].op] ELSE Handed(u)]
  BY <1>3, <1>4
<1>6. [u \in Task |-> task'[u].op] = [u \in Task |-> task[u].op]
  BY <1>2
<1>7. S \in SUBSET Task
  BY DEF S
<1> QED BY <1>1, <1>3, <1>5, <1>6, <1>7 DEF Calls!Hand, Handed

LEMMA RefinesEnd ==
  ASSUME IInv, NEW t \in Task, Finish(t) \/ Cancel(t)
  PROVE  Calls!End(t)
<1>1. /\ task \in [Task -> TaskState] /\ task' = [task EXCEPT ![t] = Idle]
      /\ task[t].pc # "idle" /\ ops' = ops /\ answer' = answer
  BY DEF IInv, TypeOK, Finish, Cancel, kernelVars
<1>2. task[t].op # NoOp
  BY <1>1 DEF IInv, OpsBegun, NoOp
<1>3. /\ task'[t].op = NoOp /\ task'[t].permits = 0
      /\ \A u \in Task \ {t} : task'[u] = task[u]
  BY <1>1 DEF Idle
<1>4. Handed(t)' = NoAnswer /\ \A u \in Task \ {t} : Handed(u)' = Handed(u)
  BY <1>3 DEF Handed, Decode, AsI32, NoAnswer
<1>5. [u \in Task |-> Handed(u)'] = [[u \in Task |-> Handed(u)] EXCEPT ![t] = NoAnswer]
  BY <1>4
<1>6. [u \in Task |-> task'[u].op] = [[u \in Task |-> task[u].op] EXCEPT ![t] = NoOp]
  BY <1>3
<1> QED BY <1>1, <1>2, <1>5, <1>6 DEF Calls!End, Handed

LEMMA RefinesComplete ==
  ASSUME IInv, NEW e \in inKernel, NEW r \in Answers(e), Complete(e, r)
  PROVE  UNCHANGED Calls!vars \/ \E o \in Op, x \in Result : Calls!Answer(o, x)
<1>1. /\ task' = task /\ ops' = ops
      /\ answer' = IF e.main THEN [answer EXCEPT ![e.op] = r] ELSE answer
  BY DEF Complete
<1>2. \A u \in Task : Handed(u)' = Handed(u)
  BY <1>1 DEF Handed, Decode, AsI32
<1>3. CASE e.main
  <2>1. e \in Pending /\ e \in Entry
    BY DEF Pending, IInv, TypeOK
  <2>2. e.op \in 1 .. ops /\ e.op \in Op /\ answer[e.op] = NoAnswer
    BY <1>3, <2>1 DEF IInv, OpsBegun, MainOnce, Entry
  <2>3. r \in Result /\ answer' = [answer EXCEPT ![e.op] = r]
    BY <1>1, <1>3 DEF Answers
  <2>4. [u \in Task |-> Handed(u)'] = [u \in Task |-> Handed(u)]
    BY <1>2
  <2>5. Calls!Answer(e.op, r)
    BY <1>1, <2>2, <2>3, <2>4 DEF Calls!Answer, Handed
  <2> QED BY <2>2, <2>3, <2>5
<1>4. CASE ~e.main
  BY <1>1, <1>4, Quiet
<1> QED BY <1>3, <1>4

LEMMA RefinesInit == Init => Calls!Init
<1> SUFFICES ASSUME Init PROVE Calls!Init
  OBVIOUS
<1>1. /\ ops = 0 /\ answer = [o \in Op |-> NoAnswer]
      /\ \A t \in Task : task[t].op = NoOp /\ task[t].permits = 0
  BY DEF Init, Idle
<1>2. 1 .. ops = {}
  BY <1>1
<1> QED BY <1>1, <1>2 DEF Calls!Init

LEMMA NoneIdleStep == IInv /\ NoneIdle /\ [Next]_vars => NoneIdle'
<1> SUFFICES ASSUME IInv, NoneIdle, [Next]_vars PROVE NoneIdle'
  OBVIOUS
<1>0. task \in [Task -> TaskState]
  BY DEF IInv, TypeOK
<1>1. ASSUME NEW t \in Task, NEW kind \in Kind, Acquire(t, kind)
      PROVE  NoneIdle'
  BY <1>0, <1>1 DEF Acquire, Begun, NoneIdle
<1>2. ASSUME NEW t \in Task, PushWait(t) \/ PushWake(t) \/ Submits(t) \/ Register(t)
      PROVE  NoneIdle'
  <2>1. /\ task'[t].pc # "idle" /\ \A u \in Task \ {t} : task'[u] = task[u]
    BY <1>2, TaskKeeps
  <2> QED BY <2>1 DEF NoneIdle
<1>3. ASSUME NEW t \in Task, Drain(t)
      PROVE  NoneIdle'
  <2>1. \A u \in Task : Given(u) \in TaskState /\ Given(u).pc = task[u].pc /\ Given(u).op = task[u].op
    BY GivenType, GivenFacts DEF IInv
  <2>2. task[t].back # "idle"
    BY <1>0 DEF TaskState
  <2> DEFINE drained == [u \in Task |-> Given(u)]
  <2>3. drained \in [Task -> TaskState] /\ \A u \in Task : drained[u] = Given(u)
    BY <2>1
  <2>4. task' = [drained EXCEPT ![t].pc = task[t].back, ![t].woken = FALSE]
    BY <1>3, DrainSteps
  <2> HIDE DEF drained
  <2>5. task'[t].pc = task[t].back /\ \A u \in Task \ {t} : task'[u] = drained[u]
    BY <2>3, <2>4 DEF TaskState
  <2> QED BY <2>1, <2>2, <2>3, <2>5 DEF NoneIdle
<1>4. ASSUME NEW t \in Task, Finish(t) \/ Cancel(t)
      PROVE  NoneIdle'
  <2>1. task' = [task EXCEPT ![t] = Idle]
    BY <1>4 DEF Finish, Cancel
  <2> QED BY <1>0, <2>1 DEF NoneIdle, Idle
<1>5. ASSUME Poll PROVE NoneIdle'
  <2>1. \A u \in Task : task'[u].pc = task[u].pc /\ task'[u].op = task[u].op
    BY <1>0, <1>5 DEF Poll, TaskState
  <2> QED BY <2>1 DEF NoneIdle
<1>6. ASSUME NEW e \in inKernel, NEW r \in Answers(e), Complete(e, r)
      PROVE  NoneIdle'
  BY <1>6 DEF Complete, NoneIdle
<1>7. CASE UNCHANGED vars
  BY <1>7 DEF vars, NoneIdle
<1> QED BY <1>1, <1>2, <1>3, <1>4, <1>5, <1>6, <1>7 DEF Next, TaskStep

LEMMA RefinesNext ==
  IInv /\ NoneIdle /\ [Next]_vars => [Calls!Next]_(Calls!vars)
<1> SUFFICES ASSUME IInv, NoneIdle, [Next]_vars
             PROVE  Calls!Next \/ UNCHANGED Calls!vars
  OBVIOUS
<1>1. ASSUME NEW t \in Task, NEW kind \in Kind, Acquire(t, kind)
      PROVE  Calls!Next
  BY <1>1, RefinesAcquire DEF Calls!Next
<1>2. ASSUME NEW t \in Task, Drain(t)
      PROVE  Calls!Next
  BY <1>2, RefinesDrain DEF Calls!Next
<1>3. ASSUME NEW t \in Task, Finish(t) \/ Cancel(t)
      PROVE  Calls!Next
  BY <1>3, RefinesEnd DEF Calls!Next
<1>4. ASSUME NEW e \in inKernel, NEW r \in Answers(e), Complete(e, r)
      PROVE  Calls!Next \/ UNCHANGED Calls!vars
  BY <1>4, RefinesComplete DEF Calls!Next
<1>5. CASE UNCHANGED vars
  BY <1>5, Quiet DEF vars, kernelVars
<1> QED BY <1>1, <1>2, <1>3, <1>4, <1>5, RefinesTask, RefinesPoll DEF Next, TaskStep

(* The io_uring is a set of asynchronous calls: what a KeyOwner waits for  *)
(* is answered once, and handed once to the task that waits for it (submit,*)
(* complete, KeyOwner::wait), on one thread or several, whatever part of   *)
(* the queue the system call takes and whoever gives up.                   *)
THEOREM Refinement == Spec => ImplementsCalls
<1>1. Init => IInv /\ NoneIdle
  BY InvInit DEF Init, NoneIdle, Idle
<1>2. IInv /\ NoneIdle /\ [Next]_vars => IInv' /\ NoneIdle'
  BY InvStep, NoneIdleStep
<1> QED BY <1>1, <1>2, RefinesInit, RefinesNext, PTL
        DEF Spec, ImplementsCalls, Calls!Spec

(* No two tasks share an operation, and a task that was handed a result    *)
(* has that of the operation it waits for.                                 *)
THEOREM CallsAreOwn == Spec => []Calls!EachItsOwn
<1>1. Init => IInv /\ NoneIdle
  BY InvInit DEF Init, NoneIdle, Idle
<1>2. IInv /\ NoneIdle /\ [Next]_vars => IInv' /\ NoneIdle'
  BY InvStep, NoneIdleStep
<1>3. IInv /\ NoneIdle => Calls!EachItsOwn
  <2> SUFFICES ASSUME IInv, NoneIdle PROVE Calls!EachItsOwn
    OBVIOUS
  <2>1. \A t \in Task : task[t].op # NoOp <=> task[t].pc # "idle"
    BY DEF IInv, OpsBegun, NoneIdle, NoOp
  <2>2. \A t, u \in Task : task[t].op = task[u].op /\ task[t].op # NoOp => t = u
    BY <2>1 DEF IInv, OpsBegun
  <2>3. \A t \in Task : task[t].op \in (1 .. ops) \cup {NoOp}
    BY <2>1 DEF IInv, OpsBegun
  <2>4. \A o \in Op \ (1 .. ops) : answer[o] = NoAnswer
    <3>1. ops \in Nat /\ MaxOps \in Nat
      BY SubmitAssumption DEF IInv, TypeOK
    <3>2. \A o \in Op \ (1 .. ops) : o > ops
      BY <3>1 DEF Op
    <3> QED BY <3>2 DEF IInv, OpsBegun
  <2>5. \A t \in Task : Handed(t) # NoAnswer =>
          task[t].op # NoOp /\ Handed(t) = answer[task[t].op]
    BY HandedIsAnswer DEF NoOp
  <2> QED BY <2>2, <2>3, <2>4, <2>5 DEF Calls!EachItsOwn, Handed
<1> QED BY <1>1, <1>2, <1>3, PTL DEF Spec

=============================================================================
