--------------------------- MODULE IoUringSubmit ---------------------------
(***************************************************************************)
(* How operations get through the io_uring of a process and how their      *)
(* results find the tasks that wait for them: src/src/io_uring.rs, from    *)
(* non_empty_submission_and_then_sync to KeyOwner::wait.                   *)
(*                                                                         *)
(* There is no thread for the completions.  Every task that waits drives   *)
(* the ring: it submits whatever is queued, sleeps until the poller says   *)
(* that something was completed, and then hands every completion to its    *)
(* waiter, through a map of keys.  The poller is a task of its own that    *)
(* waits for the eventfd of the ring.                                      *)
(*                                                                         *)
(* The tasks of a ShmIoUring run on one thread.  One that was polled       *)
(* (`running`) goes on until it awaits; only the kernel acts meanwhile,    *)
(* and the poller, if the runtime gives it a thread of its own.            *)
(***************************************************************************)
EXTENDS Integers, Sequences, FiniteSets

CONSTANTS
  Task,        \* the tasks that use the ring
  NoTask,      \* nobody
  Capacity,    \* entries of the submission queue: 0x100 in the program
  Result,      \* what the kernel may answer, as an i32
  Width,       \* 2^32: how many values an i32 has
  SubmitFails, \* the system call may submit fewer entries, or none
  OneThread,   \* the poller shares the thread of the tasks
  MaxOps       \* bound: operations begun

ASSUME SubmitAssumption ==
  /\ NoTask \notin Task
  /\ Capacity \in Nat \ {0, 1}
  /\ Width \in Nat \ {0}
  /\ Result # {} /\ Result \subseteq {r \in Int : 0 - Width <= 2 * r /\ 2 * r < Width}
  /\ SubmitFails \in BOOLEAN /\ OneThread \in BOOLEAN
  /\ MaxOps \in Nat

VARIABLES
  fill,       \* permits of the semaphore of that name
  sq,         \* the submission queue
  stable,     \* stable_timeouts: what is kept alive for each queued entry
  inKernel,   \* entries submitted and not completed
  cq,         \* the completion queue
  signalled,  \* the eventfd has become readable since the poller ran
  notify,     \* per index of the slot map: the version of its key, or 0
  version,    \* per index: the last version of a key
  task,       \* the tasks
  running,    \* the task that is being polled
  ops,        \* history: operations begun
  answer      \* history: what the kernel answered to an operation

kernelVars == <<inKernel, cq, signalled, answer>>
queueVars == <<fill, sq, stable>>
mapVars == <<notify, version>>
vars == <<kernelVars, queueVars, mapVars, task, running, ops>>

Index == 1 .. MaxOps * 2
Op == 1 .. MaxOps
NoOp == 0
NoAnswer == Width

(* A key of the slot map, and the one that the user data 0 stands for. *)
Key == [index : Index \cup {0}, version : Nat]
NoKey == [index |-> 0, version |-> 1]

(* An entry of the queue: its user data, the operation it belongs to,      *)
(* whether that is the entry whose result the operation waits for, and     *)
(* whether it refers to memory of the operation.                           *)
Entry == [key : Key, op : Op, main : BOOLEAN, refers : BOOLEAN]

(* A wait is a futex wait and its timeout, which refer to memory; `wake`   *)
(* is two wake-ups with a key each, of which it waits for the second.      *)
Kind == {"wait", "wake"}

Pc == {"idle", "room", "select", "register", "parked"}
TaskState == [pc : Pc, kind : Kind, back : {"room", "select"}, op : Op \cup {NoOp},
              keys : Seq(Key), permits : Nat, woken : BOOLEAN]
Idle == [pc |-> "idle", kind |-> "wait", back |-> "room", op |-> NoOp,
         keys |-> <<>>, permits |-> 0, woken |-> FALSE]
Begun(kind, op) == [pc |-> "room", kind |-> kind, back |-> "room", op |-> op,
                    keys |-> <<>>, permits |-> 0, woken |-> FALSE]

TypeOK ==
  /\ fill \in Nat
  /\ sq \in Seq(Entry) /\ Len(sq) <= Capacity
  /\ stable \in Seq(Op \cup {NoOp})
  /\ inKernel \subseteq Entry
  /\ cq \subseteq [key : Key, result : Result, op : Op]
  /\ signalled \in BOOLEAN
  /\ notify \in [Index -> Nat] /\ version \in [Index -> Nat]
  /\ task \in [Task -> TaskState]
  /\ running \in Task \cup {NoTask}
  /\ ops \in 0 .. MaxOps
  /\ answer \in [Op -> Result \cup {NoAnswer}]

Init ==
  /\ fill = Capacity
  /\ sq = <<>> /\ stable = <<>>
  /\ inKernel = {} /\ cq = {} /\ signalled = FALSE
  /\ notify = [i \in Index |-> 0] /\ version = [i \in Index |-> 0]
  /\ task = [t \in Task |-> Idle]
  /\ running = NoTask
  /\ ops = 0 /\ answer = [o \in Op |-> NoAnswer]

-----------------------------------------------------------------------------
(* The permits a result is turned into: one for the waiter to take, and    *)
(* the result as a u32, with the addition of u32.  And back.               *)
Encode(result) == (1 + (result % Width)) % Width
AsI32(n) == IF 2 * n < Width THEN n ELSE n - Width
Decode(permits) == AsI32(permits - 1)

(* The entry of an index in the map is the one the key was made for.       *)
FindsAny(key) == key.index \in Index /\ notify[key.index] # 0  \* mutant: any
Finds(key) == key.index \in Index /\ notify[key.index] = key.version

Owned(t) == {task[t].keys[i] : i \in 1 .. Len(task[t].keys)}
Awaited(t) == task[t].keys[Len(task[t].keys)]

(* What the map holds under an index is the semaphore of this key.         *)
Holder(i) == [index |-> i, version |-> notify[i]]

(* Drop for KeyOwner. *)
ReleaseIndex(t) ==  \* mutant: whoever has the index now
  notify' = [i \in Index |-> IF \E key \in Owned(t) : key.index = i THEN 0 ELSE notify[i]]
Release(t) ==
  notify' = [i \in Index |->
               IF \E key \in Owned(t) : key.index = i /\ Finds(key)
               THEN 0 ELSE notify[i]]

-----------------------------------------------------------------------------
(* An operation acquires permits for its two entries. *)
Acquire(t, kind) ==
  /\ running = NoTask /\ task[t].pc = "idle"
  /\ ops < MaxOps /\ fill >= 2
  /\ fill' = fill - 2
  /\ ops' = ops + 1
  /\ task' = [task EXCEPT ![t] = Begun(kind, ops + 1)]
  /\ running' = t
  /\ UNCHANGED <<kernelVars, sq, stable, mapVars>>

HasRoomForOne == Capacity - Len(sq) >= 1  \* mutant: of one of the two
HasRoom == Capacity - Len(sq) >= 2

(* What is kept alive for the entries, in their order. *)
KeptOnce(kind, op) ==  \* mutant: one allocation for both entries
  IF kind = "wait" THEN <<op>> ELSE <<NoOp, NoOp>>
Kept(kind, op) == IF kind = "wait" THEN <<op, op>> ELSE <<NoOp, NoOp>>

(* The keys are made of the first free indices. *)
Free == {i \in Index : notify[i] = 0}
First(i, S) == i \in S /\ \A j \in S : i <= j
Made(i) == [index |-> i, version |-> version[i] + 1]
Make(S) ==
  /\ version' = [i \in Index |-> IF i \in S THEN version[i] + 1 ELSE version[i]]
  /\ notify' = [i \in Index |-> IF i \in S THEN version[i] + 1 ELSE notify[i]]

(* There is room, so the permits go back, and the operation makes its keys *)
(* and queues its entries, all without awaiting.                           *)
Push(t, keys, entries) ==
  /\ running = t /\ task[t].pc = "room" /\ HasRoom
  /\ fill' = fill + 2
  /\ sq' = sq \o entries
  /\ stable' = stable \o Kept(task[t].kind, task[t].op)
  /\ task' = [task EXCEPT ![t].pc = "select", ![t].keys = keys]
  /\ UNCHANGED <<kernelVars, running, ops>>

PushWait(t) ==
  \E i \in Index :
    /\ task[t].kind = "wait" /\ First(i, Free)
    /\ Make({i})
    /\ Push(t, <<Made(i)>>,
            <<[key |-> Made(i), op |-> task[t].op, main |-> TRUE, refers |-> TRUE],
              [key |-> NoKey, op |-> task[t].op, main |-> FALSE, refers |-> TRUE]>>)

PushWake(t) ==
  \E i, j \in Index :
    /\ task[t].kind = "wake" /\ First(i, Free) /\ First(j, Free \ {i})
    /\ Make({i, j})
    /\ Push(t, <<Made(i), Made(j)>>,
            <<[key |-> Made(i), op |-> task[t].op, main |-> FALSE, refers |-> FALSE],
              [key |-> Made(j), op |-> task[t].op, main |-> TRUE, refers |-> FALSE]>>)

(* A task drives the completions while there is no room for its entries,   *)
(* or in the select of KeyOwner::wait, before or after that has looked for *)
(* its permit.                                                             *)
Drives(t) == task[t].pc = "select" \/ (task[t].pc = "room" /\ ~HasRoom)

(* The system call takes the first n entries, and what was kept alive for  *)
(* them is dropped.                                                        *)
SubmittedAgain(n) ==  \* mutant: the last one stays in the queue
  /\ inKernel' = inKernel \cup {sq[i] : i \in 1 .. n}
  /\ sq' = SubSeq(sq, IF n = 0 THEN 1 ELSE n, Len(sq))
  /\ stable' = SubSeq(stable, IF n = 0 THEN 1 ELSE n, Len(stable))
Submitted(n) ==
  /\ inKernel' = inKernel \cup {sq[i] : i \in 1 .. n}
  /\ sq' = SubSeq(sq, n + 1, Len(sq))
  /\ stable' = SubSeq(stable, n + 1, Len(stable))

(* try_submission, the first part of complete: it adds a permit for each   *)
(* entry submitted and goes on when there was none.                        *)
TrySubmission(t, n) ==
  /\ running = t /\ Drives(t)
  /\ n <= Len(sq) /\ (SubmitFails \/ n = Len(sq))
  /\ Submitted(n)
  /\ fill' = fill + n
  /\ task' = [task EXCEPT ![t].pc = "register", ![t].back = task[t].pc]
  /\ UNCHANGED <<cq, signalled, answer, mapVars, running, ops>>

(* It awaits the notification from now on, not earlier ones. *)
Register(t) ==
  /\ running = t /\ task[t].pc = "register"
  /\ task' = [task EXCEPT ![t].pc = "parked", ![t].woken = FALSE]
  /\ running' = NoTask
  /\ UNCHANGED <<kernelVars, queueVars, mapVars, ops>>

(* The rest of complete: every completion goes to its waiter, if that is   *)
(* still there, and the loop begins again.                                 *)
Drain(t) ==
  LET hits == {c \in cq : Finds(c.key)}
      For(u) == {c \in hits : task[u].keys # <<>> /\ Awaited(u) = Holder(c.key.index)}
      Given(u) == IF For(u) = {} THEN task[u]
                  ELSE [task[u] EXCEPT !.permits =
                          Encode((CHOOSE c \in For(u) : TRUE).result)]
      drained == [u \in Task |-> Given(u)]
  IN  /\ running = NoTask /\ task[t].pc = "parked" /\ task[t].woken
      /\ cq' = {}
      /\ notify' = [i \in Index |->
                      IF \E c \in hits : c.key.index = i THEN 0 ELSE notify[i]]
      /\ task' = [drained EXCEPT ![t].pc = task[t].back, ![t].woken = FALSE]
      /\ running' = t
      /\ UNCHANGED <<inKernel, signalled, answer, queueVars, version, ops>>

(* The permit is there: the operation returns what the others encode, and  *)
(* its keys are removed.                                                   *)
Finish(t) ==
  /\ \/ running = t /\ task[t].pc = "select"
     \/ running = NoTask /\ task[t].pc = "parked" /\ task[t].back = "select"
  /\ task[t].permits > 0
  /\ Release(t)
  /\ task' = [task EXCEPT ![t] = Idle]
  /\ running' = NoTask
  /\ UNCHANGED <<kernelVars, queueVars, version, ops>>

(* The future is dropped, as by the select of the server; its entries stay *)
(* where they are.                                                         *)
Cancel(t) ==
  /\ running = NoTask /\ task[t].pc = "parked"
  /\ fill' = IF task[t].back = "room" THEN fill + 2 ELSE fill
  /\ Release(t)
  /\ task' = [task EXCEPT ![t] = Idle]
  /\ UNCHANGED <<kernelVars, sq, stable, version, running, ops>>

-----------------------------------------------------------------------------
(* The kernel completes an entry and writes to the eventfd.  Of entries    *)
(* that nobody waits for one result stands for all.                        *)
Answers(entry) == IF entry.main THEN Result ELSE {CHOOSE r \in Result : TRUE}
Complete(entry, result) ==
  /\ entry \in inKernel
  /\ inKernel' = inKernel \ {entry}
  /\ cq' = cq \cup {[key |-> entry.key, result |-> result, op |-> entry.op]}
  /\ signalled' = TRUE
  /\ answer' = IF entry.main THEN [answer EXCEPT ![entry.op] = result] ELSE answer
  /\ UNCHANGED <<queueVars, mapVars, task, running, ops>>

(* The poller reads the eventfd and wakes who awaits the notification.     *)
PollerMayAlways == TRUE  \* mutant: on a thread of its own
PollerMayRun == OneThread => running = NoTask
Poll ==
  /\ signalled /\ PollerMayRun
  /\ signalled' = FALSE
  /\ task' = [t \in Task |-> IF task[t].pc = "parked"
                             THEN [task[t] EXCEPT !.woken = TRUE] ELSE task[t]]
  /\ UNCHANGED <<inKernel, cq, answer, queueVars, mapVars, running, ops>>

Submits(t) == \E n \in 0 .. Capacity : TrySubmission(t, n)
TaskStep(t) ==
  PushWait(t) \/ PushWake(t) \/ Submits(t) \/ Register(t) \/ Drain(t)
  \/ Finish(t)

Next ==
  \/ \E t \in Task :
       \/ \E kind \in Kind : Acquire(t, kind)
       \/ TaskStep(t)
       \/ Cancel(t)
  \/ \E entry \in inKernel : \E result \in Answers(entry) : Complete(entry, result)
  \/ Poll

Spec == Init /\ [][Next]_vars

(* The runtime polls the poller and every task that was woken.  Nothing is *)
(* assumed of the kernel.                                                  *)
FairSpec == Spec /\ WF_vars(Poll) /\ \A t \in Task : WF_vars(TaskStep(t))

(* Every wait has a timeout: whatever was submitted completes.             *)
TimelySpec ==
  FairSpec /\ WF_vars(\E entry \in inKernel : \E result \in Answers(entry) :
                        Complete(entry, result))

-----------------------------------------------------------------------------
(* A task that sleeps for a result that was completed is going to be       *)
(* woken: it has been notified, or the poller is still to run (complete:   *)
(* ready.notified() only counts from when it is called).                   *)
NobodyForgotten ==
  \A t \in Task : \A c \in cq :
    task[t].pc = "parked" /\ task[t].back = "select" /\ c.key = Awaited(t)
    => signalled \/ task[t].woken

(* What a task is handed is the kernel's answer to its own operation, with *)
(* its sign, although keys are used again while completions of dropped     *)
(* operations are on the way (complete: "The waiter might already be gone, *)
(* if the task was cancelled by being dropped").                           *)
OwnResult ==
  \A t \in Task :
    task[t].permits > 0 => Decode(task[t].permits) = answer[task[t].op]

(* What an entry in the submission queue points to is alive until it is    *)
(* submitted, also when its operation was dropped before or the system     *)
(* call took a part of the queue ("There is a one-to-one correspondence    *)
(* between our queue for this and the submitted entries", submit).         *)
MemoryAlive ==
  /\ Len(stable) = Len(sq)
  /\ \A i \in 1 .. Len(sq) : sq[i].refers => stable[i] = sq[i].op

(* The refinement: operations are calls that are answered once, and what a *)
(* task finds in its semaphore is the answer.                              *)
Calls == INSTANCE AsyncCalls WITH
  Caller <- Task, Call <- Op, NoCall <- NoOp,
  calling <- [t \in Task |-> task[t].op],
  made <- 1 .. ops,
  handed <- [t \in Task |-> IF task[t].permits > 0
                             THEN Decode(task[t].permits) ELSE NoAnswer]

(* Each operation is performed once however often the ring is driven, a    *)
(* task is handed the answer to the operation it began last and to no      *)
(* other, at most once, and answers to dropped operations reach nobody.    *)
ImplementsCalls == Calls!Spec

(* An answered operation ends, however its waiter shares the ring with     *)
(* others that come and go.                                                *)
Delivered ==
  \A o \in Op :
    (answer[o] # NoAnswer /\ \E t \in Task : task[t].op = o)
      ~> \A t \in Task : task[t].op # o

=============================================================================
