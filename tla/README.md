# TLA+ models of shm-ring

shm-ring (crate `shm_pbx`) lets processes exchange messages through rings in a
file of shared memory.  A *server* lays the rings out and owns their life cycle;
*clients* map the file, join one side of a ring, and talk to whoever joined the
other side.  This directory models that system in TLA+, checks it with TLC on
small instances and proves its central safety properties with TLAPS for all.

Paths below are relative to the root of the repository; `src/ring.rs` is the file of
the library.  The tables of PROJECT.json use the path with one more `src/` in front.

## 1. The system

| Part | State | Operations | Talks to |
|---|---|---|---|
| Message queue, `src/ring.rs` | per side of a ring a `producer` and a `consumer` counter (32 bits, shared), the slot array (shared), the caches of a `Producer` or `Consumer` handle (private) | `new`, `push_many`, `iter`, `sync`, drop | the handle of the other side, through counters and slots |
| Slots, `src/data.rs`, `src/client.rs` | per side of a ring an `owner` word: negative (offered), 0 (the server's), positive (pid of a client) | `insert` (join), `leave_as_owner_with_futex` (drop), `leave` (evict), `take_for_server`, `reinit` | clients and server race on the word |
| Server, `src/server.rs`, `src/bin/server/main.rs` | tracking data per pid (pidfd, slots), watcher tasks, a channel with one place | `track_clients`, `reap_client`, `bring_up`, the select loop | the slots; the kernel's pidfds; the io_uring wait |
| Waiting, `src/client.rs` | `blocked` word and two `send_indicator` words per ring, futex queues of the kernel | `lock_for_message`, `RingAssertion::wake`, `wait_for_message`, `wait_for_remote`, `wake`, `activate`, `deactivate` | the other client, through futexes |
| io_uring, `src/io_uring.rs` | submission queue, permits, map of waiters, allocations kept alive | the asynchronous versions of the waits, `wait_server`, `complete`, the drop of a wait, the poller of the eventfd | the kernel; the runtime |
| Layout, `src/server.rs`, `src/frame.rs`, `src/client.rs` | offsets and sizes in `RingInfo`, the `ShmHead` and its magic number | `Server::new`, `offsets`, `init`; `Client::new`, `join`'s checks | written once by the server, read by clients at any time |
| Byte streams, `examples/client-wasi/src/stream.rs`, `main.rs` | frames written and not copied, frames copied and not read, flush levels, permits, positions | `OutputRing` (`write`, `flush`, `close`, its task), `InputRing` (`read`, its task), `move_stdin`, `move_stdout` | the queue, both ways; the data area of the ring; the hosts of a guest |
| Frame exchange, `tests/io-uring-communicate.rs` | lists of free and full frames | exchange frames through two queues | the queue |

What is hard about them, and what makes each correct:

* **Queue.** Two processes without a lock; limits are cached and stale; unsynced
  work is forgotten with its handle; counters wrap.  Correct: no data race on a
  slot, no overwriting of what was not read, first in first out.
* **Slots and server.** Clients join, leave and crash between any two steps of
  the server, which looks at a slot first and acts later; deaths are reported
  late; descriptors run out; pids are used again.  Correct: nobody is evicted
  alive, a ring is only reset when nobody uses it, nobody joins a used side
  before a reset, crashed clients lose their slots, free rings are offered again.
* **Waiting.** A wake-up between looking and sleeping, two sleepers, a cancelled
  wait whose entry is still on a queue, a lock whose owner died.  Correct: no
  wake-up is lost without a timeout to save it, not both sides hold the lock.
* **io_uring.** Entries whose waiter is gone, keys that are used again, a full
  queue, a system call that takes a part of it, wake-ups that race with the drain
  of the completion queue.  Correct: every waiter with a completed entry is
  resumed with its own result, memory lives until its entry was submitted.
* **Layout.** Arithmetic at the end of the file and of a u64; clients that look
  while the server writes.  Correct: regions do not overlap and lie in the file
  wherever a client uses them, clients accept what servers write, whoever finds
  the magic number finds the rest.
* **Byte streams.** Positions and acknowledgements cross in one ring, which may
  be full, and each side has a task and a host that share a queue of frames.
  Correct: a pipe (everything arrives once and in order, then the end), a flush
  that is reported complete is complete and is reported in the end, what a
  reader leaves unread is bounded.

PROJECT.json lists the hazards with their lines and the properties that cover them.

## 2. Modules

| Module | What it is |
|---|---|
| `BoundedChannel` | abstract: a direction as a bounded first-in first-out channel |
| `RingQueue` | the queue of a ring, both sides; implements `BoundedChannel` |
| `RingQueueProofs` | invariants and refinement of `RingQueue`, proved |
| `MCRingQueue` | constants of `RingQueue` for TLC |
| `RingLease` | abstract: the generations of a ring and who may use it |
| `SlotLifecycle` | slots, clients and the server's loop; implements `RingLease` |
| `SlotLifecycleProofs` | invariants and refinement of `SlotLifecycle`, proved |
| `MCSlotLifecycle` | constants of `SlotLifecycle` for TLC |
| `RingWait` | how the two clients of a ring wait for and wake each other |
| `RingWaitProofs` | invariants of `RingWait`, proved |
| `MCRingWait` | constants of `RingWait` for TLC |
| `AsyncCalls` | abstract: calls that are made once, answered at most once, each answer its caller's |
| `IoUringSubmit` | how operations get through the io_uring and results find their tasks; implements `AsyncCalls` |
| `IoUringSubmitProofs` | invariants and refinement of `IoUringSubmit`, proved |
| `MCIoUringSubmit` | constants of `IoUringSubmit` for TLC |
| `ByteStream` | abstract: the two ends of a stream as a pipe |
| `StreamCopy` | the two stream ends of client-wasi over one ring; implements `ByteStream` |
| `StreamCopyProofs` | safety of `StreamCopy` and the refinement, proved |
| `Layout` | the layout of the file, the publication of its head, the checks of clients |
| `LayoutProofs` | invariants of `Layout`, proved |
| `PowersOfTwo` | facts about powers of two that `LayoutProofs` needs, proved |
| `MCLayout` | constants of `Layout` for TLC |

All models are sequentially consistent.  What the code relies on beyond that is
the release store of `sync` paired with the acquire loads of `new` and `sync`
in the queue (`src/ring.rs` 63, 104-106, 127, 154-156).  The owner words are
exchanged with `Relaxed` (`src/data.rs` 311, 362), so a client that joins may
in principle read the counters of the former generation; this is listed as a
hazard and is not covered.

### RingQueue

`producer[s]` and `consumer[s]` are the counters in the half of the head that
belongs to side s: its client publishes with the first and acknowledges with
the second what the other side sent.  `ring` is the slot array; there is one,
since `borrow_map` gives either side the slice at `offset_ring`.  `handle[s]` is
the Producer or Consumer the client of side s has; `Ring::producer` and
`Ring::consumer` borrow the ring mutably, so it has one at a time.  A handle's
`head` and `tail` are `cached_head` and `cached_tail`, which have 64 bits and
never wrap here; the shared counters are taken modulo `Modulus`.

| Action | Code | One access to |
|---|---|---|
| `NewProducer`, `NewConsumer` | `Producer::new`, `Consumer::new` | the remote counter (the own one cannot change meanwhile) |
| `PushOne` | a round of `push_many`'s loop | a slot |
| `TakeOne` | an element of `Consumer::iter` | a slot |
| `ProducerSyncLoad`, `ProducerSyncStore` | the two statements of `Producer::sync` | the remote, then the own counter |
| `ConsumerSyncLoad`, `ConsumerSyncStore` | the two statements of `Consumer::sync` | the remote, then the own counter |
| `DropHandle` | the end of a handle's life | nothing |

`pos`, `sent`, `published`, `got` and `acked` are history: they number messages
without wrapping and remember what was staged and read at each position.  What
a message says is a member of `Msg`.

### SlotLifecycle

`owner` has the owner words; `Open` stands for the negative identifier a slot is
offered with and `Server` for 0.  `held[p]` are the slots process p has a
`client::Ring` for.  `status` is the life of a process as the kernel sees it: a
process that ended is a zombie, which `pidfd_open` still finds, until its parent
waits for it; then its pid is free.  `tracker`, `watching` and `queue` are the
tracking data of `ServerTask`, the spawned watcher tasks and the channel.
`server` is the program counter of the loop with its local variables.  `used`
is history: the slots that were joined since the head of their ring was reset.

A step is one access to an owner word, or a piece of the loop between two of them:

| Action | Code |
|---|---|
| `Join`, `Leave` | `Client::join` with `ClientSlot::insert`; the drop of `OwnedRingSlot` |
| `Exit`, `Spawn`, `ParentWaits` | processes (external): an exit runs no destructor |
| `Notify` | a watcher's pidfd became readable and the channel has room; only while the loop awaits, the runtime has one thread |
| `Wake`, `Receive` | the two branches of `select!`; `Receive` is `reap_client` up to its loop |
| `Reap` | `ClientSlot::leave` for one slot of the dead client, in any order (a hash set) |
| `Walk` | `track_clients` at one slot, with `track_client` |
| `Check`, `Take`, `Reinit`, `Advertise` | `bring_up`: `is_open_heuristically`, `take_for_server`, `reinit_holding_as_server`, `reinit` |

`fetch_update` retries until its exchange succeeds or its filter refuses the
value and is one atomic step.  `leave` uses `compare_exchange_weak` once;
`WeakFails` says whether it may fail spuriously (it does not on x86, it may on
other machines).  `Reinit` writes seven words in one step: by then both slots are
0 and nobody else reads the head.  A server that ends (an error of io_uring)
takes no step any more, which every safety property covers.

### RingWait

`word` has the words of the head that serve as futexes: `blocked`, and the send
indicator and the producer counter of each side.  `slot` is the slot of each
side, coarsely (`SlotLifecycle` has it in detail).  A *task* is a thread or an
asynchronous task of a client; several may use one `Ring` at a time, through
shared references, except that handles of the queue and the drop of the ring
need it alone (`Exclusive`).  `at` is where a task is, `todo` and `queued`
describe its wait: the words it has still to compare, and the kernel's queues it
is on.  `memo` is a local value (the counter the caller of `wait_for_message`
has seen, the lock `wait_for_remote` has loaded, the counter at the start of a
wake).  `told`, `slept` and `passed` are history: what a side had published at the
start of its last wake that returned, the remote's counter when a wait was queued,
and the tasks whose present wait a wake-up found and passed over for another.

A blocking wait is its task, but a wait of `src/io_uring.rs` is an entry in the
kernel.  Dropping its future drops the key (567) and the guard, not the entry:
that stays on its queues until it is woken or its linked timeout expires, and
`complete` (485) then finds nobody to tell.  `Orphan` are such entries, as many as
the kernel has at once, and `Waiter` is whatever may be on a queue: `todo` and
`queued` are kept for tasks and orphans alike.

| Action | Code |
|---|---|
| `Lock`, `GuardWait`, `Unlock` | `lock_for_message`, `RingAssertion::wake` and the drop of the guard; between the first two `src/io_uring.rs` awaits room in its queue |
| `WaitForMessage` | `wait_for_message`: compares lock, remote's indicator, remote's counter |
| `LoadBlocked`, `WaitForRemote` | `wait_for_remote`: the lock must keep the value loaded before |
| `SetIndicator`, `Announce` | store and wake of `activate` and `deactivate` |
| `WakeHead`, `WakeBlocked` | the two entries of `wake` in `src/io_uring.rs` |
| `Requeue`, `WakeRequeued` | the two system calls of `wake` in `src/client.rs` |
| `Publish` | the store of `Producer::sync` |
| `Arm`, `TimeOut` | the kernel: compare one word and join its queue; end of a wait, also of an orphan's |
| `Cancel` | the future of a wait is dropped: the task goes on, its entry becomes an orphan |
| `Join`, `Leave`, `Crash`, `Evict`, `Reinit` | the other modules' operations, as far as they touch these words |

The kernel compares and queues one word after the other and ends the wait at the
first difference; a wake-up of a queue a task has joined ends it as well.
`IoUring` selects the form of `wake`; the waits are the same in both files.
`WakesAll` says whether the kernel takes the `u32::MAX` of `src/io_uring.rs` for
all waiters, as the comment there does.  Linux counts them in a signed int and
stops after the first, so it is `FALSE` except where it makes no difference.

No wake-up is lost is stated as safety: it holds without any timeout, so no
fairness enters.  A sleeper may be as stale as the wake that has not returned, never
more.  There is one exception in `ReadersWoken` and `LockersWoken`: a wake-up for one
waiter that finds several on its queue ends one and passes the others, who sleep on
(`passed`).  The one may be an orphan.  One cancelled wait is enough: with nothing but
the entry of a cancelled `wait_for_message` left on the queue of the lock, the
task's next `lock_for_message` is passed by the only wake it would get (without the
exception TLC finds this in the instance of `wait_uring`).  A task in
`wait_for_message` is on two of the queues a `wake` goes to, so it takes two orphans
for it.  `NobodyPassed` says that nobody is passed, `WakeReaches` under which
condition this is proved: the wake reaches all it is meant for, or one task waits on
either side and none is cancelled.

A `wake` whose future is dropped is left out: its entries still run in the kernel
and wake whom they find, only nobody learns that they have.

### IoUringSubmit

`RingWait` takes the operations of `src/io_uring.rs` as if each entry reached the
kernel; this module is how it does.  `sq` is the submission queue, `stable` is
`stable_timeouts` (one element for each entry), `inKernel` and `cq` are the
kernel's, `fill` has the permits of the semaphore of that name.  `notify` and
`version` are the slot map of waiters: per index the version of the key that is
in the map, or 0, and the last version that was.  A task's `permits` are those of
its own semaphore in that map, which carry the result.  `signalled` is the
eventfd.  `ops` and `answer` are history.

The server and client-wasi run on one thread (`new_current_thread`), so a task
that was polled (`running`) goes on until it awaits; `OneThread` says whether the
poller shares that thread.  The tests start runtimes of several threads.

| Action | Code |
|---|---|
| `Acquire` | an operation, to the permits of `non_empty_submission_and_then_sync` |
| `PushWait`, `PushWake` | its end, once there is room, with `establish_notice` and `redeem_push`: a wait and its timeout, or the two wakes of `wake` |
| `TrySubmission` | `try_submission` and `submit`: the system call takes the first n entries |
| `Register` | `complete` up to its await: notifications count from here |
| `Drain` | the rest of `complete`: each completion goes to its waiter, if there is one |
| `Finish` | `KeyOwner::wait` has its permit; the drop of the keys |
| `Cancel` | the future is dropped where it awaits |
| `Complete` | the kernel answers an entry and signals the eventfd |
| `Poll` | a round of the task that `ShmIoUring::new` spawns |

As an implementation of `AsyncCalls`, a task's operation is its call, which `Acquire`
makes; `Complete` answers the call if the entry is the one the task waits for;
`Drain` hands over the answers to those whose waiters are in the map, some at a time;
`Finish` and `Cancel` end the call.  Everything else (room in the queue, submission,
keys, the eventfd) is invisible to the caller.

Results are i32 carried as a number of permits: `Encode` and `Decode` are the
additions and casts of `complete` and `KeyOwner::wait` modulo `Width`.  -1 is not
among the results, see section 6.

### StreamCopy

One process has an `OutputRing` on one side of a ring, another an `InputRing` on
the other.  `area` is the data area, `slots` the entries of the ring: there is one
array for both directions, as in `RingQueue`, whose handles are taken at the grain
of one use each.  `pushed` and `taken` are the counters.  `out` and `inp` are the
locals of the two tasks with the place each has got to, `outbox` and `inbox` the
queues they share with their hosts, `writer` and `reader` the hosts.  Bytes are
numbered as they are written; `written`, `received` and `marks` are history.

| Action | Code |
|---|---|
| `Write`, `Flush`, `Close` | the operations of `OutputRing`, as `move_stdin` or a guest's writes use them |
| `OutReap`, `OutReapFlushing`, `OutReapFlushed` | the top of the output task's loop: takes acknowledgements, and completes a flush |
| `FillFrame`, `FillMark`, `FillEnds` | a round of `fill_stream`, and how it ends |
| `OutAnnounce`, `OutAnnounceNothing` | sends the position, twice for the end of the stream |
| `InReap` | the top of the input task's loop, with a permit: takes positions |
| `InConsume` | `consume_stream` and the notification of the host |
| `InAck`, `InAckNothing`, `InWait` | sends the position back; `wait_for_message` and the next round |
| `Read`, `ReadNothing`, `ReadEnd` | `read` and `ready` of the input stream, as in `move_stdout` |

A host runs while its task awaits, a process having one thread.  A failed
assertion ends a task: the model takes no step from there, and `NoPanic` says that
it does not come to this.  The branch in which the input task finds its remote
inactive is left out: nobody here activates an indicator, so `wait_for_message`
returns before it could wait for one.

### Layout

`head` and `infos` are in the file, `server` is where `Server::new` is and what it
has left to allocate, `client[c]` the address at which c has mapped the file and
what it has found and joined.  The path of the file is printed before the file is
laid out (`src/bin/server/main.rs` 146), so clients look at any time.

| Action | Code |
|---|---|
| `New` | `Server::new` up to `offsets`, with the first statement of that |
| `LayOut` | a round of the loop in `offsets`: checks a configuration, allocates three areas, fills in the `RingInfo`; or returns an error |
| `WriteHead`, `StoreMagic` | `init` |
| `Open` | `Client::new` with `read_head`, if it succeeds |
| `Join` | the checks of `Client::join`; the slot is the business of `SlotLifecycle` |

Sizes are u64 in the code and `Word` values here.  `checked` says whether the
server was built with overflow checks, which end it where an unchecked build goes
on with what is left modulo 2^64.  The identifiers in the slots are left out.
`LayoutAssumption` says that a page is a power of two (`PAGE_SIZE` is 4096,
`src/server.rs` 76) and no smaller than an entry of the table (`RingInfo` has well
under a hundred bytes, `src/data.rs` 97).

## 3. Runs

| Run | Instance | Shows |
|---|---|---|
| `queue` | 2 entries, counters modulo 7, 6 messages of 2 kinds, left sends | the queue keeps its promises for one sender below the wrap |
| `queue_wrap` | 2 entries, counters modulo 4, 6 messages | **violation**: past the wrap a producer overwrites unread entries |
| `slots` | 2 rings, one with only its left slot offered, 3 processes, 2 descriptors, spurious failures, symmetry | safety of the slots, with descriptors running out and a ring `bring_up` skips |
| `slots_live` | 1 ring, 2 processes, 2 descriptors | crashed clients are evicted, free rings are offered again |
| `wait_uring` | one task on either side, 1 publication each, timeouts, cancellation with one orphan at a time, `wake` of `src/io_uring.rs` | the lock and its guards agree, no wake-up is lost but by who was passed |
| `wait_futex` | one task on either side, 2 publications each, timeouts, `wake` of `src/client.rs` | who sleeps with the lock is woken |
| `wait_reader` | the same, 1 publication | **violation**: who sleeps in `wait_for_message` is not |
| `stream` | an area of 2 bytes, 2 entries, 2 permits, 5 bytes in frames of up to 2, a flush after each write | the two ends are a pipe, flushes are honest and complete, neither task panics |
| `stream_slots` | an area of 4 bytes, 2 entries, no flushes | **violation**: an end reads its own message in place of the other's, and panics |
| `submit` | 2 tasks, 2 operations of either kind, a queue of 2, partial submissions, cancellation | results arrive, operations are calls answered once, memory is alive |
| `submit_threads` | 1 task, 1 operation, the poller on a thread of its own, every entry completes | **violation**: a task sleeps for ever with its completion in the queue |
| `layout` | pages of 4 bytes, words of 7 bits, files of 2 to 60 bytes, up to 2 of 7 configurations, 2 clients at 2 addresses | published heads are complete, joined rings are in the file and apart, what is served is usable |

A *violation* run states what a comment of the code says and shows that the code
does otherwise; PROJECT.json quotes the comments under `findings`.

**Bounds.** Six messages go three times around a ring of two entries, so that
every slot is written, read, acknowledged and written again, and a handle of
one round meets the counters of the next; more entries add no new case, since a
slot is only ever compared with the limits.  `MaxMsgs < Modulus` in `queue`: the
wrap is a run of its own.  Two processes per side of a ring are the least that
can take turns at it; three allow a third to come while the server still clears up
after the first.  Two descriptors for three clients make `pidfd_open` fail.  The
loop of the server, the number of joins and the generations are not bounded:
processes may join and leave for ever, each may die once.  Two publications per
side in `wait_futex` let a wait begin with either counter value and miss one, the
other or both; in `wait_uring` it is one, as an orphan multiplies the states and a
sleeper is either up to date or not; more of both is left to the proofs.  One orphan
is what it takes to pass somebody; each task may wait, lock and wake any number of times, and rings are left and
initialised again without bound.  Five bytes go more than twice around an area of
two, so that a copy wraps in the middle of a frame and the position is behind, at
and before the place where the acknowledgement is; two permits run out.  The host of
`stream` waits for each flush, so at most one message is on the way, and the area is
empty at each copy: that a frame is cut since the area is full, and that an
announcement waits since the ring is, are not reached there.  In `stream_slots`, without
flushes, the two entries fill up with the messages of both ends.  Two operations with a queue for one
of them make a task wait for room, drive the other's completion, and use an index
again whose former waiter was dropped; each entry may complete before or after
that.  `Layout` has every file size around the ends of pages and of the rings, entries
of less than a page, of a page and of more, and sizes whose pages wrap to nothing.

**Fairness.** Only the liveness runs have any.  The loop goes on (weak fairness
of `ServerStep`), because `wait_server` has a timeout.  A message in the channel
is received in the end (strong fairness of `Receive`), because `select!` polls
its branches in random order.  A watcher whose pidfd is readable gets to send
(strong fairness of `Notify`), because the runtime polls all its tasks when the
loop awaits and senders queue for the channel in order.  Nothing is assumed of
clients: they may never leave.  These assumptions need the loop to await in each round,
which it does as long as no client has incremented `ring_ping`: see the
hazard at `src/io_uring.rs` 159.

In `stream` the two tasks go on (weak fairness of `OutStep` and `InStep`), since
the output task selects on a tick of the clock and the wait of the input task has
a timeout, and the reading host reads until it is told of the end (weak fairness of
`ReaderStep`), as `move_stdout` does; the writing host may stop at any time.
`FlushCompletes` and `EndArrives` need this.  In `submit` the runtime polls the poller and
each task that was woken (weak fairness of `Poll` and of `TaskStep` for each
task); nothing is assumed of the kernel, so `Delivered` is about entries that were
completed.  `submit_threads` adds that the kernel completes what it took
(`TimelySpec`), as each wait has a timeout, to show that the task sleeps even so.

**Ends.** Three instances may stop and are not checked for deadlock: in `submit` and
`submit_threads` the number of operations is bounded, and in `layout` a server that
failed, or was joined by all clients, does nothing more.

**Deliberate faults.** The definitions marked *mutant* are not used by the
models.  Each replaces its neighbour by a plausible mistake (an off-by-one in the
producer's limit, a forgotten comparison in `leave`, ...), and each property is
known to fail with one of them.

## 4. Proofs

`RingQueueProofs` proves for every ring size, counter width, message set and
bound on messages

* `TypeCorrect`: the type invariant, without further conditions;
* `NothingOverwritten`, `RaceFree`, `FirstInFirstOut` and `Refinement`: the other
  properties of the run `queue`, under `OneWay` (one side sends, the other only
  acknowledges) and `NoWrap` (fewer messages than the counters can number).
  `queue_wrap` shows that `NoWrap` cannot be dropped, and `stream_slots` what two
  senders do to each other.

The inductive invariant `IInv` says, besides the types: shared counters equal the
absolute numbers they stand for; acknowledged, read, published and staged
positions are in this order and at most `Count` apart; the caches of a handle are
bounds that were true and stay safe, for the remote only ever moves forward;
slots from the acknowledged to the staged position hold what was staged there;
what a consumer has read is what was sent.  The properties are not inductive by
themselves: that a slot may be written depends on a limit loaded long before.
That positions less than `Count` apart have different slots is a lemma.
`ChannelIsFaithful` goes on from the refinement: `Faithful`, an invariant of
`BoundedChannel`, holds of the queue.

`SlotLifecycleProofs` proves for any rings, processes, pids and descriptors

* `TypeCorrect` and `AssertionHolds` without further conditions, `AssertionHolds`
  (`reap_client` is never lied to) also when pids are used again: a pid has at most
  one pidfd among tracking data, watchers and channel;
* `NoLiveEviction` and `Refinement`, under `PidsUnique` (no pid is given to a
  second process while the first may still be reported).

The invariant adds: whoever is in a slot runs and is in it alone, a message or an
eviction under way is about a process that has ended, an offered slot was not
used in this generation, and while `bring_up` resets a ring both its slots are 0,
so that nobody can have joined.  `SlotsAreExclusive` carries `Exclusive` of `RingLease`
over to the slots: one client at a time, and nothing offered that was used.

`RingWaitProofs` proves for any tasks on the two sides and any number of publications

* `TypeCorrect` and `IndicatorsSettle` without further conditions, so for both
  forms of `wake`, with spurious failures and with either meaning of `u32::MAX`;
* `LockIsAccounted` if exchanges do not fail spuriously: the drop of the guard tries
  once, and a failure leaves the lock taken for ever;
* `ReadersAreWoken` and `LockersAreWoken` for `wake` of `src/io_uring.rs`, with any
  orphans and either meaning of `u32::MAX`: who sleeps on was passed.
  `wait_reader` shows what goes wrong with the other `wake`;
* `NobodyIsPassed` under `WakeReaches`, and with it `EveryoneIsWoken`, which is
  `ReadersWoken` and `LockersWoken` without the exception.  With a kernel that
  stops after the first, two sleepers on one queue or an orphan and a sleeper are
  enough for the condition to fail;
* `LockersAreMoved`: for the `wake` of `src/client.rs` what `LockersAreWoken` says of
  a sleeper with the lock, if exchanges do not fail spuriously.

`Base` says that only tasks of clients that run are in an operation, and only
waits are queued; `Shape` that what is still to be compared and what is queued on
an indicator belong to the wait.  `WakeInv` carries the wake-ups: every word of a
wait is still to be compared or its queue was joined; what was told was
published; and whoever is on the queue of a counter, and was not passed, has seen what
was told and what the wakes under way are about.  `Quiet` is what the tasks see of an
orphan, a timeout or a cancellation: some waits end, and nothing else changes.  A task that has not reached the counter yet
may be behind, and will find it changed.  `FutexInv` is for the blocking operations,
where a wake takes two system calls: a sleeper with the lock is on the queue of the
lock or was moved to that of the remote's counter (`LockerQueued`), it has seen what was
told, and as long as it is on the first, also what is to be told by the wakes that are
past their requeue (`MovedAhead`).  A wake moves the sleepers if the other side holds
the lock, which by `LockIsAccounted` it does while one of its tasks sleeps with it.

`IoUringSubmitProofs` proves for any tasks, any capacity, any number of operations
and any width of a result

* `TypeCorrect`, `MemoryIsAlive` and `ResultsAreOwn` without further conditions, so
  with system calls that take a part of the queue, and cancellation anywhere;
* `NobodyIsForgotten` when the poller shares the thread of the tasks, which
  `submit_threads` shows to be needed;
* `Refinement`, that the submission path implements `AsyncCalls`, and with it
  `CallsAreOwn`, both without further conditions: where the poller runs matters to
  when an answer arrives, not to whose it is.

`IInv` says, besides the types, that between two awaits a task runs alone; that no
key in the queue, in the kernel or on the way back has a version its index has not
reached, so that a new key is unlike all of them; that an operation has one entry
it waits for, in one place or answered; that whatever carries the key a task waits
with belongs to its operation (`KeysMatch`), which makes results one's own; and
that a task with a completion is notified, or the eventfd is (`Heeded`).  That
decoding undoes encoding for every i32 but -1 is a lemma.  The refinement needs
little beyond that: a completed entry is the first that answers its operation
(`MainOnce`), and what `Drain` adds to a semaphore without permits is the encoded
answer (`KeysMatch`, `PermitsMatch`).

`LayoutProofs` proves for any file, configuration, page size and width of a word,
and with either kind of build

* `TypeCorrect` and `OpenedIsComplete`: the magic number comes last;
* `JoinedIsInside`: the checks of `join` are enough, whatever the server wrote;
* `JoinedIsApart`: rings lie one behind the other as the server allocated them
  (`Stacked`), each area with as many bytes as its pages have modulo 2^64; that the
  pages are the area's own, not fewer, follows for a ring a client has joined, as its
  check against the size of the file rules out every size that wraps;
* `AssertionsAlwaysHold`: the assertions of the queue's handles hold for every ring a
  client has joined;
* `ServedIsAlwaysUsable`: a client is refused no ring of a finished file that lies in
  it and has entries of at most a page, nor the table.

The last two follow from `Served`: `Vetted` says what the server has looked at before
it accepted a configuration, `Paged` that the range to allocate from keeps its end and
starts behind a page for each ring laid out, which is why a table that the server
could write fits where the client looks for it.  That a ring's size is a power of two
when its entry and its count are, and that a power of two that is no larger than a
page divides it, is in `PowersOfTwo`.  It needs 2^(m+n) = 2^m * 2^n, which is induction
in any textbook and counting here: 2^n is the number of subsets of 1..n, and a subset
of 1..m+n is a pair of a subset of 1..m and one of the rest.

The assumptions are that a file and a page have at most 2^63 bytes together, as
every mapping has, and those on the page named in section 2.

`StreamCopyProofs` proves all safety properties of `StreamCopy` and the refinement
for any area, any number of entries and permits and any number of bytes, under
`Lockstep`: the host flushes after each write, and its frames fit into the area.
Then one frame at a time is on the way, so every position either end knows is where
the last frame ended or where this one does (`Positions`).  With it `Talk` says
that at most one message is on the way, of one end or the other, which is why the
two ends do not meet in the entries they share; `stream_slots` shows that they do
without flushes.  `HostInv` says what is in the queue of the host for each place it
can be in, `AreaInv` that the bytes of the frame are in their places, `Unread` that
the frames unread follow what was read without a gap, and `Permitted` that
permits are neither lost nor made.  That the bytes of one turn of the area have
places of their own is a lemma on `%`.  `ReaderIsNotMisled` carries `Honest` of
`ByteStream` over.

The last section of the module does without `Lockstep`.  `TypeCorrect` holds for every
host and any frames, and `DataIsBounded` says that at most `Permits` frames of data
wait for the reading host: the permits, the one in the hands of the input task and
the frames add up to no more (`Charged`), as the input task forgets its permit when
it leaves a frame and a read of data gives one back.  `InboxIsBounded`, which
also counts the frame that ends the stream, stays under `Lockstep`: without flushes
an end may take its own message for a repeated position (see `stream_slots`), and tells
of the end again with each frame that follows, so that TLC finds longer queues.

Every invariant of the runs and every refinement is the subject of a theorem, some
under the conditions named above.  Only model-checked are the liveness
properties (`TrackedEvicted`, `LeftReadvertised`, `CrashedEvicted`, `EndArrives`,
`FlushCompletes`, `Delivered`), which the proof system cannot do under fairness.

## 5. Plan

In this order, the most important behaviour first:

1. `RingQueue`, `BoundedChannel`, their runs and proofs: done.
2. `SlotLifecycle`, `RingLease`, their runs and proofs: done.
3. `RingWait`, its runs and proofs: done.
4. `StreamCopy`, `ByteStream` and their runs: done.
5. `IoUringSubmit`, `AsyncCalls`, their runs and proofs: done.
6. `Layout` with the publication of the head, its run and proofs: done.
7. `StreamCopyProofs`: safety and refinement of `StreamCopy` under `Lockstep`: done.
   Left is a weaker condition for `BytesIntact`: no end has more messages on the way
   than leaves its own entries alone.
8. `FrameExchange`: the two client loops of `tests/io-uring-communicate.rs` over two
   queues, frames as tokens; no frame is lost or in two places, both loops end.
9. `ServerLoop`: pings and the early return of `wait_server`; refines the wake-ups
   of `SlotLifecycle`.

## 6. Not modelled

The server's pings: nothing in the repository writes `ring_ping` or `ring_pong`, so
`wait_server` never returns early and `SlotLifecycle` lets it return at any time.  The
frame exchange of the tests, see the plan.  Weak memory.  Parsing of the
configuration and of the command line (`src/bin/server/main.rs` up to line 180),
`src/uapi.rs` (declarations of system calls, modelled from their use), the other
examples, the vendored io-uring bindings and `xtask`: no logic of this system's
own.  `donate` and `relinquish` of a ring are `todo!()`.  The tag of a slot is
only read by the library.

Met while modelling and not shown by a run:

* `ClientSlot::leave` (`src/data.rs` 380) and the drop of `RingAssertion`
  (`src/client.rs` 278) try `compare_exchange_weak` once, so after a spurious failure
  a dead client's slot, or the lock, stays taken.
* A client whose parent waits for it before the next walk keeps its slot: `pidfd_open`
  fails for it (`src/server.rs` 357), and no later walk can do better (78).
* A report of a death that is received after the pid was given to a new process
  evicts that, if it has joined the same slot (`src/server.rs` 122).
* Taking the lock wakes nobody, although `wait_for_message` (`src/client.rs` 421)
  promises to wake when that happens.  A message published and woken for between
  taking the lock and sleeping with it is not noticed (`src/client.rs` 264-267
  wonders).
* A client that leaves does not wake one that sleeps with the lock
  (`src/data.rs` 431, against `src/client.rs` 251).
* `u32::MAX` waiters (`src/io_uring.rs` 374, 387) are one to Linux, which has a signed
  int there.  Of several sleepers the others sleep on until their timeout.
* A wait of `src/io_uring.rs` that is cancelled stays on the futex queues (567 drops the
  key only) until its linked timeout, where it may take the wake-up that was meant
  for the same task's next wait: see `passed` in section 2.
* An error of `wait_for_message` ends the input task of a stream
  (`examples/client-wasi/src/stream.rs` 172), and one of `AsyncFd` ends a watcher of the
  server, whose tracking data stays (`src/bin/server/main.rs` 205-208).  `InWait` of
  `StreamCopy` and `Notify` of `SlotLifecycle` leave these out.
* `futex_waitv` (`src/uapi.rs` 91) adds nanoseconds without a carry; the kernel
  refuses such a timespec and the wait ends at once.
* The result -1 is no permit, on every machine (`src/io_uring.rs` 487; the comment
  fears for 32 bits only): the addition overflows, or the waiter is left with nothing.
* A submission that fails is ignored (`src/io_uring.rs` 460); if nothing else is in
  flight the task sleeps with its entries in the queue.
* `fill_stream` takes the minimum of a frame and the free space and then pops the
  frame, so that the rest is lost when the area is full; the branch that
  should keep it ("Still some data left to write.",
  `examples/client-wasi/src/stream.rs` 432) is never taken.  A host that waits for its
  flushes, as in the run `stream`, does not meet this while frames fit into the area;
  `move_stdin` does not flush.
* `end_offset` (`src/server.rs` 163) adds the size of the file with the table to an
  offset behind the table, so the server brings up rings that end, or begin, behind the
  file by up to the pages of the table, and the client is refused; the comment
  (130) says "if the configuration checks out".  `ServedIsUsable` is
  about rings that lie in the file, therefore, and about entries no larger than a page:
  the rings of larger ones are aligned to a page only, which not every mapping suits.
* `Producer::new` and `Consumer::new` compare the size of their type with `size_data`
  where the size of an entry is meant (`src/ring.rs` 48, 113; `src/client.rs` 357
  "given its correct size").
