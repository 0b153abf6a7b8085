------------------------------ MODULE RingWait ------------------------------
(***************************************************************************)
(* How the two clients of a ring wait for each other: the lock `blocked`,  *)
(* the send indicators and the producer counters are futexes in the head   *)
(* of the ring.                                                            *)
(*                                                                         *)
(* src/src/client.rs (lock_for_message, RingAssertion, wait_for_message,   *)
(* wait_for_remote, wake, activate, deactivate, drop), the same operations *)
(* of src/src/io_uring.rs, and src/src/data.rs (RingHead,                  *)
(* leave_as_owner_with_futex, reinit_holding_as_server).                   *)
(*                                                                         *)
(* The kernel is modelled from its use.  A task that waits on words is put *)
(* on the queue of one word after the other, each time only if the word    *)
(* still has the value the caller gave; a difference ends the wait.  A     *)
(* wake-up of one queue ends the wait as well, also when other words are   *)
(* still to be compared.  One step is one such access.                     *)
(*                                                                         *)
(* A blocking wait is its task.  That of io_uring.rs is an entry of an     *)
(* io_uring, and a future that is dropped leaves it in the kernel.         *)
(***************************************************************************)
EXTENDS Naturals

CONSTANTS
  Task,      \* threads or asynchronous tasks of the clients
  Orphan,    \* entries of cancelled waits: how many the kernel has at once
  SideOf,    \* the side whose Ring a task uses
  MaxHead,   \* bound on the number of publications per side
  IoUring,   \* is it wake of io_uring.rs, or that of client.rs?
  WakesAll,  \* does the kernel take the u32::MAX of io_uring.rs for all?
  Timeouts,  \* may waits time out?
  WeakFails  \* may compare_exchange_weak fail although the value matches?

Side == {"Left", "Right"}
Other(s) == IF s = "Left" THEN "Right" ELSE "Left"
Remote(t) == Other(SideOf[t])

Waiter == Task \cup Orphan

ASSUME WaitAssumption ==
  /\ Task \cap Orphan = {}
  /\ SideOf \in [Task -> Side]
  /\ MaxHead \in Nat
  /\ IoUring \in BOOLEAN /\ WakesAll \in BOOLEAN
  /\ Timeouts \in BOOLEAN /\ WeakFails \in BOOLEAN

(* The words of RingHead that are futexes. *)
Blocked == <<"blocked", "ring">>
Sending(s) == <<"sending", s>>
Producer(s) == <<"producer", s>>
Word == {Blocked} \cup {Sending(s) : s \in Side} \cup {Producer(s) : s \in Side}

Number(s) == IF s = "Left" THEN 1 ELSE 2      \* as_block_slot

VARIABLES
  word,    \* shared: the values of the words
  slot,    \* shared: who is in the slot of a side, if anyone
  at,      \* what a task does
  todo,    \* the words a wait has not compared yet, with expected values
  queued,  \* the futex queues it is on
  memo,    \* a value it remembers: see the actions
  passed,  \* history: tasks whose wait a wake-up found, ending another instead
  slept,   \* history: the remote's producer counter when it fell asleep
  told     \* history: what a side had published when it last called wake,
           \* for calls that have returned

vars == <<word, slot, at, todo, queued, memo, passed, slept, told>>
waits == <<todo, queued, passed, slept>>

TypeOK ==
  /\ word \in [Word -> Nat]
  /\ word[Blocked] \in 0 .. 2
  /\ \A s \in Side : word[Sending(s)] \in 0 .. 1 /\ word[Producer(s)] \in 0 .. MaxHead
  /\ slot \in [Side -> {"open", "client", "dead", "free"}]
  /\ at \in [Task -> {"idle", "guard", "loaded", "lock", "message", "remote",
                      "unlock", "waking", "announce"}]
  /\ todo \in [Waiter -> SUBSET (Word \X Nat)]
  /\ queued \in [Waiter -> SUBSET Word]
  /\ memo \in [Task -> Nat]
  /\ passed \in SUBSET Task
  /\ slept \in [Task -> Nat]
  /\ told \in [Side -> Nat]

Runs(t, where) == slot[SideOf[t]] = "client" /\ at[t] = where
Waits(t) == at[t] \in {"lock", "message", "remote"}
Asleep(t) == Waits(t) /\ todo[t] = {}

Init ==
  /\ word = [w \in Word |-> 0]
  /\ slot = [s \in Side |-> "open"]
  /\ at = [t \in Task |-> "idle"]
  /\ todo = [x \in Waiter |-> {}]
  /\ queued = [x \in Waiter |-> {}]
  /\ memo = [t \in Task |-> 0]
  /\ passed = {}
  /\ slept = [t \in Task |-> 0]
  /\ told = [s \in Side |-> 0]

-----------------------------------------------------------------------------
(* The kernel's part *)

(* Where a task goes on after its wait: a guard is dropped first. *)
After(t) == IF at[t] = "lock" THEN "unlock" ELSE "idle"

(* The waits in R end; the tasks in U, which do not wait, go to next. *)
Resume(R, U, next) ==
  /\ at' = [t \in Task |-> IF t \in U THEN next ELSE IF t \in R THEN After(t) ELSE at[t]]
  /\ todo' = [x \in Waiter |-> IF x \in R THEN {} ELSE todo[x]]
  /\ queued' = [x \in Waiter |-> IF x \in R THEN {} ELSE queued[x]]
  /\ slept' = [t \in Task |-> IF t \in R THEN 0 ELSE slept[t]]

QueuedOn(w) == {x \in Waiter : w \in queued[x]}

(* Compare and queue, in the order in which the words are passed. *)
Place(w) == CASE w = Blocked -> 1 [] w[1] = "sending" -> 2 [] w[1] = "producer" -> 3
Arm(x, w, v) ==
  /\ x \in Task => Waits(x)
  /\ <<w, v>> \in todo[x]
  /\ \A y \in todo[x] : Place(w) <= Place(y[1])
  /\ \/ /\ word[w] = v
        /\ todo' = [todo EXCEPT ![x] = @ \ {<<w, v>>}]
        /\ queued' = [queued EXCEPT ![x] = @ \cup {w}]
        /\ slept' = [t \in Task |-> IF t = x THEN word[Producer(Remote(t))] ELSE slept[t]]
        /\ UNCHANGED at
     \/ /\ word[w] # v
        /\ Resume({x}, {}, "idle")
  /\ UNCHANGED <<word, slot, memo, passed, told>>

(* A wait that sleeps times out or is interrupted; one that has compared   *)
(* nothing yet may be refused (futex_waitv of uapi.rs adds up a timespec   *)
(* the kernel may not accept).  The timeout is linked to the entry in the  *)
(* kernel: it ends that of a cancelled wait, too.                          *)
TimeOut(x) ==
  /\ Timeouts
  /\ x \in Task => Waits(x)
  /\ (todo[x] = {}) # (queued[x] = {})
  /\ Resume({x}, {}, "idle")
  /\ UNCHANGED <<word, slot, memo, passed, told>>

(* The future of a wait is dropped.  That removes its key, and a guard, but *)
(* not the entry: the kernel goes on with it, and complete finds nobody to  *)
(* tell.  Before the submission of wait_for_remote nothing is left.         *)
Cancel(t) ==
  /\ IoUring
  /\ \/ /\ Waits(t)
        /\ \E g \in Orphan :
             /\ todo[g] = {} /\ queued[g] = {}
             /\ todo' = [todo EXCEPT ![g] = todo[t], ![t] = {}]
             /\ queued' = [queued EXCEPT ![g] = queued[t], ![t] = {}]
        /\ at' = [at EXCEPT ![t] = After(t)]
        /\ slept' = [slept EXCEPT ![t] = 0]
     \/ /\ at[t] = "loaded"
        /\ at' = [at EXCEPT ![t] = "idle"]
        /\ UNCHANGED <<todo, queued, slept>>
  /\ UNCHANGED <<word, slot, memo, passed, told>>

-----------------------------------------------------------------------------
(* The operations of a client *)

(* Producer::sync moves the own producer counter.  Ring::producer borrows  *)
(* the ring mutably: no other operation of this client is under way.       *)
Exclusive(s) == \A t \in Task : SideOf[t] = s => at[t] = "idle"
Publish(s) ==
  /\ slot[s] = "client" /\ Exclusive(s)
  /\ word[Producer(s)] < MaxHead
  /\ word' = [word EXCEPT ![Producer(s)] = @ + 1]
  /\ UNCHANGED <<slot, at, waits, memo, told>>

(* activate and deactivate: store, then wake the waiters of the indicator. *)
RaisedByAdding(s) == word[Sending(s)] + 1     \* mutant: fetch_add
Raised(s) == 1
SetIndicator(t, v) ==
  /\ Runs(t, "idle")
  /\ word' = [word EXCEPT ![Sending(SideOf[t])] = v]
  /\ at' = [at EXCEPT ![t] = "announce"]
  /\ UNCHANGED <<slot, waits, memo, told>>

RemoteIndicator(s) == Sending(Other(s))       \* mutant
Indicator(s) == Sending(s)
Announce(t) ==
  /\ at[t] = "announce"
  /\ Resume(QueuedOn(Indicator(SideOf[t])), {t}, "idle")
  /\ UNCHANGED <<word, slot, memo, passed, told>>

(* lock_for_message: take the lock if it is free.  (It returns an error    *)
(* otherwise, or when the weak exchange fails.)                            *)
AlwaysFree(t) == TRUE                         \* mutant: no comparison
MayLock(t) == word[Blocked] = 0
Lock(t) ==
  /\ Runs(t, "idle")
  /\ MayLock(t)
  /\ word' = [word EXCEPT ![Blocked] = Number(SideOf[t])]
  /\ at' = [at EXCEPT ![t] = "guard"]
  /\ UNCHANGED <<slot, waits, memo, told>>

(* The guard is waited with; with io_uring there is an await before. *)
Begin(t, kind, words) ==
  /\ at' = [at EXCEPT ![t] = kind]
  /\ todo' = [todo EXCEPT ![t] = words]
  /\ passed' = passed \ {t}
  /\ UNCHANGED <<word, slot, queued, slept, told>>

GuardWait(t) ==
  /\ at[t] = "guard"
  /\ Begin(t, "lock", {<<Blocked, Number(SideOf[t])>>})
  /\ UNCHANGED memo

(* Drop of the RingAssertion, after the wait or without one. *)
Unlock(t) ==
  /\ at[t] \in {"guard", "unlock"}
  /\ \/ word' = [word EXCEPT ![Blocked] =
                   IF @ = Number(SideOf[t]) THEN 0 ELSE @]
     \/ WeakFails /\ UNCHANGED word
  /\ at' = [at EXCEPT ![t] = "idle"]
  /\ UNCHANGED <<slot, waits, memo, told>>

(* wait_for_message, with a counter the caller has seen earlier (memo). *)
LoadsAgain(t, seen) == word[Producer(Remote(t))]    \* mutant
Expected(t, seen) == seen
WaitForMessage(t, seen) ==
  /\ Runs(t, "idle")
  /\ seen <= word[Producer(Remote(t))]
  /\ Begin(t, "message",
           {<<Blocked, 0>>, <<Sending(Remote(t)), 1>>, <<Producer(Remote(t)), Expected(t, seen)>>})
  /\ memo' = [memo EXCEPT ![t] = seen]

(* wait_for_remote: the lock may be taken but must not change meanwhile.   *)
(* memo: its value.  No code stores a negative one ("Line is going down"). *)
LoadBlocked(t) ==
  /\ Runs(t, "idle")
  /\ at' = [at EXCEPT ![t] = "loaded"]
  /\ memo' = [memo EXCEPT ![t] = word[Blocked]]
  /\ UNCHANGED <<word, slot, waits, told>>

WaitForRemote(t) ==
  /\ at[t] = "loaded"
  /\ Begin(t, "remote", {<<Blocked, memo[t]>>, <<Sending(Remote(t)), 0>>})
  /\ UNCHANGED memo

(* wake, in two system calls or two entries of the io_uring.  That of      *)
(* client.rs requeues the waiters of a lock the remote holds to the own    *)
(* producer counter and wakes that; it gives up when the remote does not   *)
(* hold the lock.  That of io_uring.rs wakes both words' queues, for up to *)
(* u32::MAX waiters; the kernel counts them in an int, where this is -1,   *)
(* and stops after the first (the one of the highest priority): others,    *)
(* and those whose place an orphan takes, are passed.                      *)
(* memo: the producer counter at the first step.                           *)
OwnHead(s) == Producer(s)
OwnNumber(s) == Number(s)                     \* mutant
RemoteNumber(s) == Number(Other(s))

Returned(s, published) ==
  told' = [told EXCEPT ![s] = IF published > @ THEN published ELSE @]

Reached(R, queue) ==
  /\ IF WakesAll \/ queue = {} THEN R = queue ELSE \E x \in queue : R = {x}
  /\ passed' = passed \cup (Task \cap (queue \ R))

WakeHead(t) ==
  /\ IoUring
  /\ Runs(t, "idle")
  /\ memo' = [memo EXCEPT ![t] = word[Producer(SideOf[t])]]
  /\ \E R \in SUBSET Waiter :
       Reached(R, QueuedOn(OwnHead(SideOf[t]))) /\ Resume(R, {t}, "waking")
  /\ UNCHANGED <<word, slot, told>>

Nobody == {}                                  \* mutant: one entry only
Lockers == QueuedOn(Blocked)
WakeBlocked(t) ==
  /\ IoUring
  /\ at[t] = "waking"
  /\ \E R \in SUBSET Waiter : Reached(R, Lockers) /\ Resume(R, {t}, "idle")
  /\ Returned(SideOf[t], memo[t])
  /\ UNCHANGED <<word, slot, memo>>

Requeue(t) ==
  /\ ~IoUring
  /\ Runs(t, "idle")
  /\ \/ /\ word[Blocked] = RemoteNumber(SideOf[t])
        /\ memo' = [memo EXCEPT ![t] = word[Producer(SideOf[t])]]
        /\ at' = [at EXCEPT ![t] = "waking"]
        /\ queued' = [x \in Waiter |-> IF Blocked \in queued[x]
                        THEN (queued[x] \ {Blocked}) \cup {OwnHead(SideOf[t])}
                        ELSE queued[x]]
        /\ UNCHANGED told
     \/ /\ word[Blocked] # RemoteNumber(SideOf[t])
        /\ Returned(SideOf[t], word[Producer(SideOf[t])])
        /\ UNCHANGED <<at, memo, queued>>
  /\ UNCHANGED <<word, slot, todo, passed, slept>>

WakeRequeued(t) ==
  /\ ~IoUring
  /\ at[t] = "waking"
  /\ Resume(QueuedOn(OwnHead(SideOf[t])), {t}, "idle")
  /\ Returned(SideOf[t], memo[t])
  /\ UNCHANGED <<word, slot, memo, passed>>

-----------------------------------------------------------------------------
(* Clients come and go.  SlotLifecycle has the slots in detail. *)

Join(s) ==
  /\ slot[s] = "open"
  /\ slot' = [slot EXCEPT ![s] = "client"]
  /\ UNCHANGED <<word, at, waits, memo, told>>

(* Drop of the Ring, which no operation and no guard borrows: one system   *)
(* call frees the slot and wakes the waiters of the own producer counter.  *)
Leave(s) ==
  /\ slot[s] = "client" /\ Exclusive(s)
  /\ slot' = [slot EXCEPT ![s] = "free"]
  /\ Resume(QueuedOn(OwnHead(s)), {}, "idle")
  /\ UNCHANGED <<word, memo, passed, told>>

(* The process ends anywhere, with all its tasks and what is left of their *)
(* waits.  Which orphans were its own is left open.                        *)
Crash(s) ==
  /\ slot[s] = "client"
  /\ slot' = [slot EXCEPT ![s] = "dead"]
  /\ LET gone == {t \in Task : SideOf[t] = s}
     IN \E own \in SUBSET Orphan : Resume(gone \cup own, gone, "idle")
  /\ UNCHANGED <<word, memo, passed, told>>

(* reap_client: ClientSlot::leave, and nobody is woken. *)
Evict(s) ==
  /\ slot[s] = "dead"
  /\ slot' = [slot EXCEPT ![s] = "free"]
  /\ UNCHANGED <<word, at, waits, memo, told>>

(* bring_up, when no client has a slot and not both are open. *)
Reinit ==
  /\ \A s \in Side : slot[s] \in {"open", "free"}
  /\ \E s \in Side : slot[s] = "free"
  /\ slot' = [s \in Side |-> "open"]
  /\ word' = [w \in Word |-> 0]
  /\ told' = [s \in Side |-> 0]
  /\ UNCHANGED <<at, waits, memo>>

KernelStep(x) == (\E w \in Word, v \in 0 .. MaxHead + 2 : Arm(x, w, v)) \/ TimeOut(x)

TaskStep(t) ==
  \/ Cancel(t)
  \/ SetIndicator(t, Raised(SideOf[t])) \/ SetIndicator(t, 0) \/ Announce(t)
  \/ Lock(t) \/ GuardWait(t) \/ Unlock(t)
  \/ \E seen \in 0 .. MaxHead : WaitForMessage(t, seen)
  \/ LoadBlocked(t) \/ WaitForRemote(t)
  \/ WakeHead(t) \/ WakeBlocked(t)
  \/ Requeue(t) \/ WakeRequeued(t)

Next ==
  \/ \E x \in Waiter : KernelStep(x)
  \/ \E t \in Task : TaskStep(t)
  \/ \E s \in Side : Publish(s) \/ Join(s) \/ Leave(s) \/ Crash(s) \/ Evict(s)
  \/ Reinit

Spec == Init /\ [][Next]_vars

-----------------------------------------------------------------------------
Holds(t) == at[t] \in {"guard", "lock", "unlock"}

(* The lock and its holders agree (RingHead::blocked: "Describes one side  *)
(* that is blocked on data produced by the other.  At most one side can be *)
(* blocked at the same time"): a guard means that the lock has the number  *)
(* of its side and that there is no other guard, and a lock without a      *)
(* guard is that of a client that crashed.                                 *)
LockAccounted ==
  /\ \A t \in Task : Holds(t) => word[Blocked] = Number(SideOf[t])
  /\ \A t, u \in Task : Holds(t) /\ Holds(u) => t = u
  /\ \A s \in Side : word[Blocked] = Number(s) =>
       \/ \E t \in Task : SideOf[t] = s /\ Holds(t)
       \/ slot[s] \in {"dead", "free"}

(* Nobody sleeps in wait_for_message on a counter that has moved, once the *)
(* other side has called wake after moving it: even without timeouts no    *)
(* message is slept through (wait_for_message: "The head of the list is    *)
(* changed, with the other side waking waiters"), except by a waiter that  *)
(* a wake-up for one did find and passed over for another one.             *)
ReadersWoken ==
  \A t \in Task :
    Asleep(t) /\ at[t] = "message" /\ t \notin passed => told[Remote(t)] <= memo[t]

(* Nor does anyone who sleeps with the lock, if the counter moved after    *)
(* it fell asleep, with the same exception.  What moved before is not      *)
(* noticed: only the lock is compared, which nobody changes.               *)
LockersWoken ==
  \A t \in Task :
    Asleep(t) /\ at[t] = "lock" /\ t \notin passed => told[Remote(t)] <= slept[t]

(* send_indicator: "Each transition should wake any futex blocked on the   *)
(* value".  Whoever sleeps on a value it no longer has is about to be      *)
(* woken, unless the other client is gone.                                 *)
IndicatorSettles ==
  \A t \in Task :
    /\ Sending(Remote(t)) \in queued[t]
    /\ word[Sending(Remote(t))] # (IF at[t] = "remote" THEN 0 ELSE 1)
    /\ slot[Remote(t)] \notin {"dead", "free"}
    => \E u \in Task : SideOf[u] = Remote(t) /\ at[u] = "announce"

-----------------------------------------------------------------------------
(* A condition under which the wake of io_uring.rs passes nobody: u32::MAX *)
(* does mean all, or no queue has two waiters the waker is not among,      *)
(* since there is one task on either side and no wait is ever cancelled.   *)
WakeReaches ==
  WakesAll \/ (Orphan = {} /\ \A t, u \in Task : SideOf[t] = SideOf[u] => t = u)

NobodyPassed == passed = {}

=============================================================================
