--------------------------- MODULE RingWaitProofs ---------------------------
(***************************************************************************)
(* Proofs about RingWait, for any tasks, entries of cancelled waits,       *)
(* assignment of sides and number of publications: the lock and its guards *)
(* agree; the wake of io_uring.rs loses nobody but those it passes over    *)
(* for another, and under WakeReaches it passes over nobody; the wake of   *)
(* client.rs loses nobody who sleeps with the lock.                        *)
(***************************************************************************)
EXTENDS RingWait, TLAPS

-----------------------------------------------------------------------------
(* Sides, their numbers and the words are what one expects. *)
LEMMA SideFacts ==
  /\ \A s \in Side : Other(s) \in Side /\ Other(s) # s /\ Other(Other(s)) = s
  /\ \A s \in Side : Number(s) \in 1 .. 2
  /\ \A s, r \in Side : Number(s) = Number(r) => s = r
  /\ \A s, r \in Side : s # r => r = Other(s)
  BY DEF Side, Other, Number

LEMMA TaskFacts ==
  \A t \in Task : /\ SideOf[t] \in Side /\ Remote(t) \in Side /\ Remote(t) # SideOf[t]
                  /\ t \in Waiter
  BY WaitAssumption, SideFacts DEF WaitAssumption, Remote, Waiter

LEMMA WordFacts ==
  /\ Blocked \in Word
  /\ \A s \in Side : Sending(s) \in Word /\ Producer(s) \in Word
  /\ \A s \in Side : Sending(s) # Blocked /\ Producer(s) # Blocked
  /\ \A s, r \in Side : Sending(s) # Producer(r)
  /\ \A s, r \in Side : Sending(s) = Sending(r) => s = r
  /\ \A s, r \in Side : Producer(s) = Producer(r) => s = r
  BY DEF Word, Blocked, Sending, Producer

-----------------------------------------------------------------------------
(* Types *)

LEMMA TypeInit == Init => TypeOK
  BY WordFacts, WaitAssumption DEF Init, TypeOK, WaitAssumption

LEMMA ResumeType ==
  ASSUME TypeOK, NEW R, NEW U, NEW next \in {"idle", "waking"}, Resume(R, U, next)
  PROVE  /\ at' \in [Task -> {"idle", "guard", "loaded", "lock", "message", "remote",
                               "unlock", "waking", "announce"}]
         /\ todo' \in [Waiter -> SUBSET (Word \X Nat)]
         /\ queued' \in [Waiter -> SUBSET Word]
         /\ slept' \in [Task -> Nat]
  <1>1. at' \in [Task -> {"idle", "guard", "loaded", "lock", "message", "remote",
                          "unlock", "waking", "announce"}]
    BY DEF Resume, After, TypeOK
  <1>2. todo' \in [Waiter -> SUBSET (Word \X Nat)]
    BY DEF Resume, TypeOK
  <1>3. queued' \in [Waiter -> SUBSET Word]
    BY DEF Resume, TypeOK
  <1>4. slept' \in [Task -> Nat]
    BY DEF Resume, TypeOK
  <1> QED BY <1>1, <1>2, <1>3, <1>4

(* A step of wake ends waits that are queued, and the waker goes on. *)
LEMMA WakeSome ==
  ASSUME NEW t \in Task, WakeHead(t) \/ WakeBlocked(t) \/ WakeRequeued(t)
  PROVE  /\ word' = word /\ slot' = slot
         /\ \E R \in SUBSET Waiter, next \in {"idle", "waking"} :
              /\ Resume(R, {t}, next)
              /\ \A x \in R : queued[x] # {}
  <1>1. ASSUME NEW w, NEW R, Reached(R, QueuedOn(w))
        PROVE  R \in SUBSET Waiter /\ \A x \in R : queued[x] # {}
    BY <1>1 DEF Reached, QueuedOn
  <1>2. CASE WakeHead(t)
    BY <1>1, <1>2 DEF WakeHead
  <1>3. CASE WakeBlocked(t)
    BY <1>1, <1>3 DEF WakeBlocked, Lockers
  <1>4. CASE WakeRequeued(t)
    <2>1. \A x \in QueuedOn(OwnHead(SideOf[t])) : x \in Waiter /\ queued[x] # {}
      BY DEF QueuedOn
    <2> QED BY <1>4, <2>1 DEF WakeRequeued
  <1> QED BY <1>2, <1>3, <1>4

(* Whom a wake-up finds on the queue, and does not wake, it passes. *)
LEMMA WakeQueues ==
  ASSUME NEW t \in Task
  PROVE  /\ WakeHead(t) =>
              \E R : /\ Resume(R, {t}, "waking") /\ R \subseteq QueuedOn(OwnHead(SideOf[t]))
                    /\ passed \subseteq passed'
                    /\ \A u \in Task : OwnHead(SideOf[t]) \in queued[u] =>
                         u \in R \/ u \in passed'
         /\ WakeBlocked(t) =>
              \E R : /\ Resume(R, {t}, "idle") /\ R \subseteq QueuedOn(Blocked)
                    /\ passed \subseteq passed'
                    /\ \A u \in Task : Blocked \in queued[u] => u \in R \/ u \in passed'
  <1>1. ASSUME NEW w, NEW R, Reached(R, QueuedOn(w))
        PROVE  /\ R \subseteq QueuedOn(w) /\ passed \subseteq passed'
               /\ \A u \in Task : w \in queued[u] => u \in R \/ u \in passed'
    BY <1>1, TaskFacts DEF Reached, QueuedOn
  <1>2. ASSUME WakeHead(t)
        PROVE  \E R : /\ Resume(R, {t}, "waking") /\ R \subseteq QueuedOn(OwnHead(SideOf[t]))
                     /\ passed \subseteq passed'
                     /\ \A u \in Task : OwnHead(SideOf[t]) \in queued[u] =>
                          u \in R \/ u \in passed'
    BY <1>1, <1>2 DEF WakeHead
  <1>3. ASSUME WakeBlocked(t)
        PROVE  \E R : /\ Resume(R, {t}, "idle") /\ R \subseteq QueuedOn(Blocked)
                     /\ passed \subseteq passed'
                     /\ \A u \in Task : Blocked \in queued[u] => u \in R \/ u \in passed'
    BY <1>1, <1>3 DEF WakeBlocked, Lockers
  <1> QED BY <1>2, <1>3

LEMMA TypeStep == TypeOK /\ [Next]_vars => TypeOK'
  <1> SUFFICES ASSUME TypeOK, [Next]_vars PROVE TypeOK'
    OBVIOUS
  <1> USE TaskFacts, WordFacts, SideFacts
  <1>1. CASE UNCHANGED vars
    BY <1>1 DEF vars, TypeOK
  <1>2. ASSUME NEW x \in Waiter, NEW w \in Word, NEW v \in 0 .. MaxHead + 2, Arm(x, w, v)
        PROVE  TypeOK'
    <2>1. CASE word[w] = v
      <3>1. slept' \in [Task -> Nat]
        BY <1>2, <2>1 DEF Arm, TypeOK
      <3> QED BY <1>2, <2>1, <3>1 DEF Arm, TypeOK
    <2>2. CASE word[w] # v
      BY <1>2, <2>2, ResumeType DEF Arm, TypeOK
    <2> QED BY <2>1, <2>2
  <1>3. ASSUME NEW x \in Waiter, TimeOut(x) PROVE TypeOK'
    BY <1>3, ResumeType DEF TimeOut, TypeOK
  <1>22. ASSUME NEW t \in Task, Cancel(t) PROVE TypeOK'
    <2>1. CASE Waits(t)
      <3>1. todo' \in [Waiter -> SUBSET (Word \X Nat)]
        BY <1>22, <2>1 DEF Cancel, Waits, TypeOK, Waiter
      <3>2. queued' \in [Waiter -> SUBSET Word]
        BY <1>22, <2>1 DEF Cancel, Waits, TypeOK, Waiter
      <3>3. /\ at' = [at EXCEPT ![t] = IF at[t] = "lock" THEN "unlock" ELSE "idle"]
            /\ slept' = [slept EXCEPT ![t] = 0]
            /\ UNCHANGED <<word, slot, memo, passed, told>>
        BY <1>22, <2>1 DEF Cancel, Waits, After
      <3> QED BY <3>1, <3>2, <3>3 DEF TypeOK
    <2>2. CASE ~Waits(t)
      BY <1>22, <2>2 DEF Cancel, TypeOK
    <2> QED BY <2>1, <2>2
  <1>4. ASSUME NEW s \in Side, Publish(s) PROVE TypeOK'
    BY <1>4, WaitAssumption DEF Publish, TypeOK, waits, WaitAssumption
  <1>5. ASSUME NEW t \in Task, NEW v \in {0, 1}, SetIndicator(t, v) PROVE TypeOK'
    BY <1>5 DEF SetIndicator, TypeOK, waits
  <1>6. ASSUME NEW t \in Task, Announce(t) PROVE TypeOK'
    BY <1>6, ResumeType DEF Announce, TypeOK
  <1>7. ASSUME NEW t \in Task, Lock(t) PROVE TypeOK'
    BY <1>7 DEF Lock, TypeOK, waits
  <1>8. ASSUME NEW t \in Task, GuardWait(t) PROVE TypeOK'
    BY <1>8 DEF GuardWait, Begin, TypeOK
  <1>9. ASSUME NEW t \in Task, Unlock(t) PROVE TypeOK'
    BY <1>9 DEF Unlock, TypeOK, waits
  <1>10. ASSUME NEW t \in Task, NEW seen \in 0 .. MaxHead, WaitForMessage(t, seen)
         PROVE  TypeOK'
    BY <1>10 DEF WaitForMessage, Expected, Begin, TypeOK
  <1>11. ASSUME NEW t \in Task, LoadBlocked(t) PROVE TypeOK'
    BY <1>11 DEF LoadBlocked, TypeOK, waits
  <1>12. ASSUME NEW t \in Task, WaitForRemote(t) PROVE TypeOK'
    BY <1>12 DEF WaitForRemote, Begin, TypeOK
  <1>13. ASSUME NEW t \in Task, WakeHead(t) PROVE TypeOK'
    <2>1. passed' \in SUBSET Task
      BY <1>13 DEF WakeHead, Reached, TypeOK
    <2> QED BY <1>13, <2>1, WakeSome, ResumeType DEF WakeHead, TypeOK
  <1>14. ASSUME NEW t \in Task, WakeBlocked(t) PROVE TypeOK'
    <2>1. passed' \in SUBSET Task
      BY <1>14 DEF WakeBlocked, Reached, TypeOK
    <2> QED BY <1>14, <2>1, WakeSome, ResumeType DEF WakeBlocked, Returned, TypeOK
  <1>15. ASSUME NEW t \in Task, Requeue(t) PROVE TypeOK'
    <2>1. queued' \in [Waiter -> SUBSET Word]
      BY <1>15 DEF Requeue, OwnHead, TypeOK
    <2>2. /\ word' = word /\ slot' = slot /\ todo' = todo /\ slept' = slept
          /\ passed' = passed
      BY <1>15 DEF Requeue
    <2>3. CASE word[Blocked] = RemoteNumber(SideOf[t])
      BY <1>15, <2>1, <2>2, <2>3 DEF Requeue, TypeOK
    <2>4. CASE word[Blocked] # RemoteNumber(SideOf[t])
      BY <1>15, <2>1, <2>2, <2>4 DEF Requeue, Returned, TypeOK
    <2> QED BY <2>3, <2>4
  <1>16. ASSUME NEW t \in Task, WakeRequeued(t) PROVE TypeOK'
    BY <1>16, ResumeType DEF WakeRequeued, Returned, TypeOK
  <1>17. ASSUME NEW s \in Side, Join(s) PROVE TypeOK'
    BY <1>17 DEF Join, TypeOK, waits
  <1>18. ASSUME NEW s \in Side, Leave(s) PROVE TypeOK'
    BY <1>18, ResumeType DEF Leave, TypeOK
  <1>19. ASSUME NEW s \in Side, Crash(s) PROVE TypeOK'
    BY <1>19, ResumeType DEF Crash, TypeOK
  <1>20. ASSUME NEW s \in Side, Evict(s) PROVE TypeOK'
    BY <1>20 DEF Evict, TypeOK, waits
  <1>21. ASSUME Reinit PROVE TypeOK'
    BY <1>21, WaitAssumption DEF Reinit, TypeOK, waits, WaitAssumption
  <1> QED
    BY <1>1, <1>2, <1>3, <1>4, <1>5, <1>6, <1>7, <1>8, <1>9, <1>10, <1>11, <1>12,
       <1>13, <1>14, <1>15, <1>16, <1>17, <1>18, <1>19, <1>20, <1>21, <1>22
       DEF Next, KernelStep, TaskStep, Raised

(* The variables keep their types, whichever wake is used and whether or   *)
(* not exchanges fail: in particular the lock never holds anything but 0   *)
(* or the number of a side (RingBlockedSlot, as_block_slot).               *)
THEOREM TypeCorrect == Spec => []TypeOK
  BY TypeInit, TypeStep, PTL DEF Spec

-----------------------------------------------------------------------------
(* Tasks *)

(* Only clients do anything, and a task that is on a queue waits. *)
OnlyClients == \A t \in Task : slot[SideOf[t]] # "client" => at[t] = "idle"
QueuedWait == \A t \in Task : queued[t] # {} => Waits(t)
Base == OnlyClients /\ QueuedWait

(* What the end of some waits does to the tasks. *)
Ended(R, U, next) ==
  \A t \in Task :
    /\ t \in U => at'[t] = next
    /\ t \notin U /\ t \in R => at'[t] = IF at[t] = "lock" THEN "unlock" ELSE "idle"
    /\ t \notin U /\ t \notin R => at'[t] = at[t]
    /\ t \in R => queued'[t] = {} /\ todo'[t] = {}
    /\ t \notin R => /\ queued'[t] = queued[t] /\ todo'[t] = todo[t]
                     /\ slept'[t] = slept[t]

LEMMA ResumeAt ==
  ASSUME TypeOK, NEW R, NEW U, NEW next, Resume(R, U, next)
  PROVE  Ended(R, U, next)
  BY TaskFacts DEF Resume, After, Ended

(* A wait that is cancelled ends for its task; an orphan's comparison is   *)
(* nothing to any task.                                                    *)
Quiet ==
  /\ word' = word /\ slot' = slot /\ memo' = memo /\ passed' = passed /\ told' = told
  /\ \E R, U \in SUBSET Task :
       /\ Ended(R, U, "idle")
       /\ \A t \in R : Waits(t)
       /\ \A t \in U : at[t] = "loaded" /\ t \notin R

Matches(t, w, v) == Arm(t, w, v) /\ word[w] = v

LEMMA KernelQuiet ==
  ASSUME TypeOK, NEW x \in Waiter, KernelStep(x)
  PROVE  \/ Quiet
         \/ x \in Task /\ \E w \in Word, v \in 0 .. MaxHead + 2 : Matches(x, w, v)
  <1> USE TaskFacts
  <1>1. ASSUME Resume({x}, {}, "idle"), x \in Task => Waits(x)
        PROVE  \E R, U \in SUBSET Task :
                 /\ Ended(R, U, "idle")
                 /\ \A t \in R : Waits(t)
                 /\ \A t \in U : at[t] = "loaded" /\ t \notin R
    <2> DEFINE R == {x} \cap Task
    <2>1. Ended(R, {}, "idle")
      <3>1. Ended({x}, {}, "idle")
        BY <1>1, ResumeAt
      <3> QED BY <3>1 DEF Ended
    <2>2. R \in SUBSET Task /\ \A t \in R : Waits(t)
      BY <1>1
    <2> HIDE DEF R
    <2> QED BY <2>1, <2>2
  <1>2. CASE TimeOut(x)
    BY <1>1, <1>2 DEF TimeOut, Quiet
  <1>3. ASSUME NEW w \in Word, NEW v \in 0 .. MaxHead + 2, Arm(x, w, v)
        PROVE  Quiet \/ (x \in Task /\ Matches(x, w, v))
    <2>1. CASE word[w] # v
      BY <1>1, <1>3, <2>1 DEF Arm, Quiet
    <2>2. CASE word[w] = v /\ x \notin Task
      <3>1. /\ todo' = [todo EXCEPT ![x] = @ \ {<<w, v>>}]
            /\ queued' = [queued EXCEPT ![x] = @ \cup {w}]
            /\ slept' = [t \in Task |-> IF t = x THEN word[Producer(Remote(t))] ELSE slept[t]]
            /\ at' = at /\ UNCHANGED <<word, slot, memo, passed, told>>
        BY <1>3, <2>2 DEF Arm
      <3>2. ASSUME NEW t \in Task
            PROVE  todo'[t] = todo[t] /\ queued'[t] = queued[t] /\ slept'[t] = slept[t]
        BY <2>2, <3>1 DEF TypeOK
      <3>3. Ended({}, {}, "idle")
        BY <3>1, <3>2 DEF Ended
      <3> QED BY <3>1, <3>3 DEF Quiet
    <2>3. CASE word[w] = v /\ x \in Task
      BY <1>3, <2>3 DEF Matches
    <2> QED BY <2>1, <2>2, <2>3
  <1> QED BY <1>2, <1>3 DEF KernelStep

LEMMA CancelQuiet ==
  ASSUME TypeOK, NEW t \in Task, Cancel(t)
  PROVE  Quiet
  <1> USE TaskFacts
  <1>1. UNCHANGED <<word, slot, memo, passed, told>>
    BY DEF Cancel
  <1>2. CASE Waits(t)
    <2>1. PICK g \in Orphan :
            /\ todo' = [todo EXCEPT ![g] = todo[t], ![t] = {}]
            /\ queued' = [queued EXCEPT ![g] = queued[t], ![t] = {}]
      BY <1>2 DEF Cancel, Waits
    <2>2. at' = [at EXCEPT ![t] = After(t)] /\ slept' = [slept EXCEPT ![t] = 0]
      BY <1>2 DEF Cancel, Waits
    <2>3. g \notin Task
      BY WaitAssumption DEF WaitAssumption
    <2>4. ASSUME NEW u \in Task
          PROVE  /\ u = t => todo'[u] = {} /\ queued'[u] = {} /\ at'[u] = After(u)
                 /\ u # t => /\ todo'[u] = todo[u] /\ queued'[u] = queued[u]
                             /\ at'[u] = at[u] /\ slept'[u] = slept[u]
      BY <2>1, <2>2, <2>3 DEF TypeOK
    <2>5. Ended({t}, {}, "idle")
      BY <2>4 DEF Ended, After
    <2> QED BY <1>1, <1>2, <2>5 DEF Quiet
  <1>3. CASE ~Waits(t)
    <2>1. /\ at[t] = "loaded" /\ at' = [at EXCEPT ![t] = "idle"]
          /\ UNCHANGED <<todo, queued, slept>>
      BY <1>3 DEF Cancel
    <2>2. Ended({}, {t}, "idle")
      BY <2>1 DEF Ended, TypeOK
    <2> QED BY <1>1, <2>1, <2>2 DEF Quiet
  <1> QED BY <1>2, <1>3

(* Ending the waits of tasks that do wait, while others that do not wait   *)
(* and hold no lock go elsewhere, keeps the locks with their holders.      *)
LEMMA ResumeBase ==
  ASSUME TypeOK, Base, NEW R, NEW U, NEW next \in {"idle", "waking"},
         Ended(R, U, next), slot' = slot,
         \A t \in R \cap Task : Waits(t),
         \A t \in U \cap Task : at[t] \in {"announce", "waking", "loaded"} \/ Runs(t, "idle")
  PROVE  /\ Base'
         /\ \A t \in Task : Holds(t)' <=> Holds(t)
  <1>1. ASSUME NEW t \in Task
        PROVE  /\ Holds(t)' <=> Holds(t)
               /\ slot[SideOf[t]] # "client" => at'[t] = "idle"
               /\ queued'[t] # {} => Waits(t)'
    <2>1. CASE t \in U
      BY <1>1, <2>1 DEF Ended, Holds, Waits, Runs, Base, OnlyClients, QueuedWait
    <2>2. CASE t \notin U /\ t \in R
      BY <1>1, <2>2 DEF Ended, Holds, Waits, Base, OnlyClients
    <2>3. CASE t \notin U /\ t \notin R
      BY <1>1, <2>3 DEF Ended, Holds, Waits, Base, OnlyClients, QueuedWait
    <2> QED BY <2>1, <2>2, <2>3
  <1> QED BY <1>1 DEF Base, OnlyClients, QueuedWait

LEMMA CrashEnds ==
  ASSUME TypeOK, NEW s \in Side, Crash(s)
  PROVE  /\ Ended({t \in Task : SideOf[t] = s}, {t \in Task : SideOf[t] = s}, "idle")
         /\ slot' = [slot EXCEPT ![s] = "dead"]
         /\ word' = word /\ memo' = memo /\ passed' = passed /\ told' = told
  <1> DEFINE G == {t \in Task : SideOf[t] = s}
  <1>1. PICK own \in SUBSET Orphan : Resume(G \cup own, G, "idle")
    BY DEF Crash
  <1>2. Ended(G \cup own, G, "idle")
    BY <1>1, ResumeAt
  <1>3. \A t \in Task : t \notin own
    BY WaitAssumption DEF WaitAssumption
  <1>4. \A t \in Task : t \in G \cup own <=> t \in G
    BY <1>3
  <1> HIDE DEF G
  <1>5. Ended(G, G, "idle")
    BY <1>2, <1>4 DEF Ended
  <1> QED BY <1>5 DEF Crash, G

(* A client leaves or crashes. *)
LEMMA GoneBase ==
  ASSUME TypeOK, Base, NEW s \in Side, Leave(s) \/ Crash(s)
  PROVE  /\ Base'
         /\ slot'[s] \in {"free", "dead"} /\ \A r \in Side : r # s => slot'[r] = slot[r]
         /\ \A t \in Task : Holds(t)' <=> Holds(t) /\ SideOf[t] # s
         /\ \A t \in Task : SideOf[t] = s => at'[t] = "idle" /\ queued'[t] = {}
  <1> USE TaskFacts, WordFacts, SideFacts
  <1> SUFFICES
        /\ slot'[s] \in {"free", "dead"} /\ \A r \in Side : r # s => slot'[r] = slot[r]
        /\ \A t \in Task :
             /\ SideOf[t] = s => at'[t] = "idle" /\ queued'[t] = {}
             /\ Holds(t)' <=> Holds(t) /\ SideOf[t] # s
             /\ at[t] = "idle" => at'[t] = "idle"
             /\ queued'[t] # {} => Waits(t)'
    BY DEF Base, OnlyClients, QueuedWait
  <1>1. CASE Leave(s)
    <2> DEFINE R == QueuedOn(OwnHead(s))
    <2>1. Resume(R, {}, "idle") /\ slot' = [slot EXCEPT ![s] = "free"]
          /\ \A t \in Task : SideOf[t] = s => at[t] = "idle"
      BY <1>1 DEF Leave, Exclusive
    <2> QED
      BY <2>1, ResumeAt DEF R, QueuedOn, Holds, Waits, Base, QueuedWait, TypeOK, Ended
  <1>2. CASE Crash(s)
    <2> DEFINE G == {t \in Task : SideOf[t] = s}
    <2>1. Ended(G, G, "idle") /\ slot' = [slot EXCEPT ![s] = "dead"]
      BY <1>2, CrashEnds
    <2> QED
      BY <2>1 DEF G, Holds, Waits, Base, QueuedWait, TypeOK, Ended
  <1> QED BY <1>1, <1>2

LEMMA BaseStep ==
  ASSUME TypeOK, Base, [Next]_vars
  PROVE  Base'
  <1> USE TaskFacts, WordFacts, SideFacts
  <1>a. \A t \in Task : ~Waits(t) => queued[t] = {}
    BY DEF Base, QueuedWait
  <1>b. \A t \in Task : at[t] # "idle" => slot[SideOf[t]] = "client"
    BY DEF Base, OnlyClients
  <1>c. ASSUME NEW t \in Task, NEW pc, at' = [at EXCEPT ![t] = pc],
               slot[SideOf[t]] = "client", slot' = slot, queued' = queued, ~Waits(t)
        PROVE  Base'
    BY <1>a, <1>c DEF Base, OnlyClients, QueuedWait, Waits, TypeOK
  <1>1. CASE UNCHANGED vars
    BY <1>1 DEF vars, Base, OnlyClients, QueuedWait, Waits
  <1>2. ASSUME NEW t \in Task, NEW w \in Word, NEW v \in 0 .. MaxHead + 2,
               Matches(t, w, v)
        PROVE  Base'
    <2>1. at' = at /\ slot' = slot
          /\ queued' = [queued EXCEPT ![t] = @ \cup {w}] /\ Waits(t)
      BY <1>2 DEF Matches, Arm
    <2> QED BY <2>1 DEF Base, OnlyClients, QueuedWait, Waits, TypeOK
  <1>3. ASSUME Quiet PROVE Base'
    <2>1. PICK R \in SUBSET Task, U \in SUBSET Task :
            /\ Ended(R, U, "idle") /\ \A t \in R : Waits(t)
            /\ \A t \in U : at[t] = "loaded" /\ t \notin R
      BY <1>3 DEF Quiet
    <2>2. /\ word' = word /\ slot' = slot /\ memo' = memo
          /\ passed' = passed /\ told' = told
      BY <1>3 DEF Quiet
    <2> QED BY <2>1, <2>2, ResumeBase
  <1>k. ASSUME NEW x \in Waiter, KernelStep(x) PROVE Base'
    BY <1>2, <1>3, <1>k, KernelQuiet
  <1>l. ASSUME NEW t \in Task, Cancel(t) PROVE Base'
    BY <1>3, <1>l, CancelQuiet
  <1>4. ASSUME NEW s \in Side, Publish(s) \/ Join(s) \/ Evict(s) PROVE Base'
    BY <1>4 DEF Publish, Join, Evict, Base, OnlyClients, QueuedWait, Waits, waits, TypeOK
  <1>5. ASSUME NEW t \in Task, NEW v \in {0, 1}, SetIndicator(t, v) PROVE Base'
    BY <1>5, <1>c DEF SetIndicator, Runs, Waits, waits
  <1>6. ASSUME NEW t \in Task, Announce(t) PROVE Base'
    BY <1>6, ResumeBase, ResumeAt DEF Announce, QueuedOn, Base, QueuedWait
  <1>7. ASSUME NEW t \in Task, Lock(t) PROVE Base'
    BY <1>7, <1>c DEF Lock, Runs, Waits, waits
  <1>8. ASSUME NEW t \in Task, GuardWait(t) PROVE Base'
    BY <1>8, <1>b, <1>c DEF GuardWait, Begin, Waits
  <1>9. ASSUME NEW t \in Task, Unlock(t) PROVE Base'
    BY <1>9, <1>b, <1>c DEF Unlock, Waits, waits
  <1>10. ASSUME NEW t \in Task, NEW seen \in 0 .. MaxHead, WaitForMessage(t, seen)
         PROVE  Base'
    BY <1>10, <1>c DEF WaitForMessage, Expected, Begin, Runs, Waits
  <1>11. ASSUME NEW t \in Task, LoadBlocked(t) PROVE Base'
    BY <1>11, <1>c DEF LoadBlocked, Runs, Waits, waits
  <1>12. ASSUME NEW t \in Task, WaitForRemote(t) PROVE Base'
    BY <1>12, <1>b, <1>c DEF WaitForRemote, Begin, Waits
  <1>13. ASSUME NEW t \in Task, WakeHead(t) \/ WakeBlocked(t) \/ WakeRequeued(t)
         PROVE  Base'
    <2>1. at[t] = "waking" \/ Runs(t, "idle")
      BY <1>13 DEF WakeHead, WakeBlocked, WakeRequeued
    <2>2. PICK R \in SUBSET Waiter, next \in {"idle", "waking"} :
            Resume(R, {t}, next) /\ \A u \in R : queued[u] # {}
      BY <1>13, WakeSome
    <2>3. \A u \in R \cap Task : Waits(u)
      BY <2>2 DEF Base, QueuedWait
    <2>4. slot' = slot
      BY <1>13, WakeSome
    <2> QED BY <2>1, <2>2, <2>3, <2>4, ResumeBase, ResumeAt
  <1>14. ASSUME NEW t \in Task, Requeue(t) PROVE Base'
    <2>1. \A u \in Task : queued'[u] # {} => queued[u] # {}
      BY <1>14 DEF Requeue
    <2>2. at[t] = "idle" /\ slot[SideOf[t]] = "client" /\ slot' = slot
          /\ (at' = at \/ at' = [at EXCEPT ![t] = "waking"])
      BY <1>14 DEF Requeue, Runs
    <2> QED BY <2>1, <2>2 DEF Base, OnlyClients, QueuedWait, Waits, TypeOK
  <1>15. ASSUME NEW s \in Side, Leave(s) \/ Crash(s) PROVE Base'
    BY <1>15, GoneBase
  <1>16. ASSUME Reinit PROVE Base'
    BY <1>16 DEF Reinit, Base, OnlyClients, QueuedWait, Waits, waits
  <1> QED
    BY <1>1, <1>k, <1>l, <1>4, <1>5, <1>6, <1>7, <1>8, <1>9, <1>10, <1>11, <1>12,
       <1>13, <1>14, <1>15, <1>16
       DEF Next, TaskStep, Raised

-----------------------------------------------------------------------------
(* The lock *)

LEMMA LockStep ==
  ASSUME TypeOK, Base, LockAccounted, ~WeakFails, [Next]_vars
  PROVE  LockAccounted'
  <1> USE TaskFacts, WordFacts, SideFacts
  <1>a. ASSUME word'[Blocked] = word[Blocked],
               \A s \in Side : slot[s] \in {"dead", "free"} => slot'[s] \in {"dead", "free"},
               \A t \in Task : Holds(t)' <=> Holds(t)
        PROVE  LockAccounted'
    BY <1>a DEF LockAccounted
  <1>1. CASE UNCHANGED vars
    BY <1>1, <1>a DEF vars, Holds
  <1>2. ASSUME NEW t \in Task, NEW w \in Word, NEW v \in 0 .. MaxHead + 2,
               Matches(t, w, v)
        PROVE  LockAccounted'
    BY <1>2, <1>a DEF Matches, Arm, Holds
  <1>3. ASSUME Quiet PROVE LockAccounted'
    <2>1. PICK R \in SUBSET Task, U \in SUBSET Task :
            /\ Ended(R, U, "idle") /\ \A t \in R : Waits(t)
            /\ \A t \in U : at[t] = "loaded" /\ t \notin R
      BY <1>3 DEF Quiet
    <2>2. /\ word' = word /\ slot' = slot /\ memo' = memo
          /\ passed' = passed /\ told' = told
      BY <1>3 DEF Quiet
    <2> QED BY <2>1, <2>2, <1>a, ResumeBase
  <1>k. ASSUME NEW x \in Waiter, KernelStep(x) PROVE LockAccounted'
    BY <1>2, <1>3, <1>k, KernelQuiet
  <1>l. ASSUME NEW t \in Task, Cancel(t) PROVE LockAccounted'
    BY <1>3, <1>l, CancelQuiet
  <1>4. ASSUME NEW s \in Side, Publish(s) \/ Join(s) \/ Evict(s) PROVE LockAccounted'
    BY <1>4, <1>a DEF Publish, Join, Evict, Holds, waits, TypeOK
  <1>5. ASSUME NEW t \in Task, NEW v \in {0, 1}, SetIndicator(t, v) PROVE LockAccounted'
    BY <1>5, <1>a DEF SetIndicator, Runs, Holds, TypeOK
  <1>6. ASSUME NEW t \in Task, Announce(t) PROVE LockAccounted'
    BY <1>6, <1>a, ResumeBase, ResumeAt DEF Announce, QueuedOn, Base, QueuedWait
  <1>7. ASSUME NEW t \in Task, Lock(t) PROVE LockAccounted'
    <2>1. /\ word[Blocked] = 0 /\ word'[Blocked] = Number(SideOf[t])
          /\ at' = [at EXCEPT ![t] = "guard"]
      BY <1>7 DEF Lock, MayLock, TypeOK
    <2>2. \A u \in Task : ~Holds(u)
      BY <2>1 DEF LockAccounted
    <2>3. \A u \in Task : Holds(u)' <=> u = t
      BY <2>1, <2>2 DEF Holds, TypeOK
    <2> QED BY <2>1, <2>3 DEF LockAccounted
  <1>8. ASSUME NEW t \in Task, GuardWait(t) PROVE LockAccounted'
    BY <1>8, <1>a DEF GuardWait, Begin, Holds, TypeOK
  <1>9. ASSUME NEW t \in Task, Unlock(t) PROVE LockAccounted'
    <2>1. /\ word[Blocked] = Number(SideOf[t]) /\ word'[Blocked] = 0
          /\ at' = [at EXCEPT ![t] = "idle"]
      BY <1>9 DEF Unlock, TypeOK, LockAccounted, Holds
    <2>2. \A u \in Task : ~Holds(u)'
      BY <1>9, <2>1 DEF LockAccounted, Holds, TypeOK, Unlock
    <2> QED BY <2>1, <2>2 DEF LockAccounted
  <1>10. ASSUME NEW t \in Task, NEW seen \in 0 .. MaxHead, WaitForMessage(t, seen)
         PROVE  LockAccounted'
    BY <1>10, <1>a DEF WaitForMessage, Expected, Begin, Runs, Holds, TypeOK
  <1>11. ASSUME NEW t \in Task, LoadBlocked(t) \/ WaitForRemote(t) PROVE LockAccounted'
    BY <1>11, <1>a DEF LoadBlocked, WaitForRemote, Begin, Runs, Holds, TypeOK
  <1>12. ASSUME NEW t \in Task, WakeHead(t) \/ WakeBlocked(t) \/ WakeRequeued(t)
         PROVE  LockAccounted'
    <2>1. PICK R \in SUBSET Waiter, next \in {"idle", "waking"} :
            Resume(R, {t}, next) /\ \A u \in R : queued[u] # {}
      BY <1>12, WakeSome
    <2> QED BY <1>12, <1>a, <2>1, WakeSome, ResumeBase, ResumeAt
               DEF WakeHead, WakeBlocked, WakeRequeued, Base, QueuedWait
  <1>13. ASSUME NEW t \in Task, Requeue(t) PROVE LockAccounted'
    BY <1>13, <1>a DEF Requeue, Runs, Holds, TypeOK
  <1>14. ASSUME NEW s \in Side, Leave(s) \/ Crash(s) PROVE LockAccounted'
    <2>1. word' = word
      BY <1>14 DEF Leave, Crash
    <2> QED BY <1>14, <2>1, GoneBase DEF LockAccounted
  <1>15. ASSUME Reinit PROVE LockAccounted'
    <2>1. word'[Blocked] = 0 /\ at' = at /\ \A s \in Side : slot[s] # "client"
      BY <1>15 DEF Reinit
    <2> QED BY <2>1 DEF LockAccounted, Holds, Base, OnlyClients
  <1> QED
    BY <1>1, <1>k, <1>l, <1>4, <1>5, <1>6, <1>7, <1>8, <1>9, <1>10, <1>11, <1>12,
       <1>13, <1>14, <1>15
       DEF Next, TaskStep, Raised

(* The lock belongs to at most one guard and always has the number of that *)
(* guard's side; if it is taken without one, its client has crashed and the *)
(* ring is not offered again before the lock is cleared.  Provided that    *)
(* exchanges do not fail spuriously.                                       *)
THEOREM LockIsAccounted == ASSUME ~WeakFails PROVE Spec => []LockAccounted
  <1>1. Init => TypeOK /\ Base /\ LockAccounted
    BY TypeInit, TaskFacts, SideFacts, WordFacts
       DEF Init, Base, OnlyClients, QueuedWait, LockAccounted, Holds, Waits
  <1>2. (TypeOK /\ Base /\ LockAccounted) /\ [Next]_vars
          => (TypeOK /\ Base /\ LockAccounted)'
    BY TypeStep, BaseStep, LockStep
  <1> QED BY <1>1, <1>2, PTL DEF Spec

-----------------------------------------------------------------------------
(* Who waits for what *)

(* The words and values a task that waits has to compare. *)
Words(t) ==
  IF at[t] = "lock" THEN {<<Blocked, Number(SideOf[t])>>}
  ELSE IF at[t] = "message" THEN {<<Blocked, 0>>, <<Sending(Remote(t)), 1>>,
                                  <<Producer(Remote(t)), memo[t]>>}
  ELSE IF at[t] = "remote" THEN {<<Blocked, memo[t]>>, <<Sending(Remote(t)), 0>>}
  ELSE {}

TodoIsWanted == \A t \in Task : todo[t] \subseteq Words(t)

(* Nobody is queued for an indicator but waiters for the other side's. *)
IndicatorQueue ==
  \A t \in Task, s \in Side :
    Sending(s) \in queued[t] => s = Remote(t) /\ at[t] \in {"message", "remote"}

Shape == TodoIsWanted /\ IndicatorQueue

(* The end of some waits keeps the shape of the others. *)
LEMMA ResumeShape ==
  ASSUME TypeOK, Shape, NEW R, NEW U, NEW next \in {"idle", "waking"},
         Ended(R, U, next), \A t \in Task : memo'[t] # memo[t] => ~Waits(t),
         \A t \in U \cap Task : t \in R \/ ~Waits(t)
  PROVE  Shape'
  <1>1. ASSUME NEW t \in Task, t \in U \/ t \in R
        PROVE  todo'[t] = {} /\ \A s \in Side : Sending(s) \notin queued'[t]
    BY <1>1 DEF Ended, Shape, TodoIsWanted, IndicatorQueue, Words, Waits
  <1>2. ASSUME NEW t \in Task, t \notin U, t \notin R
        PROVE  /\ todo'[t] = todo[t] /\ queued'[t] = queued[t] /\ at'[t] = at[t]
               /\ Words(t)' = Words(t)
    <2>1. todo'[t] = todo[t] /\ queued'[t] = queued[t] /\ at'[t] = at[t]
      BY <1>2 DEF Ended
    <2> QED BY <2>1 DEF Words, Waits
  <1> QED BY <1>1, <1>2 DEF Shape, TodoIsWanted, IndicatorQueue

LEMMA ShapeStep ==
  ASSUME TypeOK, Base, Shape, [Next]_vars
  PROVE  Shape'
  <1> USE TaskFacts, WordFacts, SideFacts
  <1>a. \A t \in Task : ~Waits(t) => queued[t] = {}
    BY DEF Base, QueuedWait
  <1>b. ASSUME NEW t \in Task, NEW pc, at' = [at EXCEPT ![t] = pc],
               queued' = queued, ~Waits(t),
               \A u \in Task : u # t => todo'[u] = todo[u] /\ memo'[u] = memo[u],
               todo'[t] \subseteq Words(t)'
        PROVE  Shape'
    <2>1. \A u \in Task : u # t => Words(u)' = Words(u)
      BY <1>b DEF Words, TypeOK
    <2>2. TodoIsWanted'
      BY <1>b, <2>1 DEF Shape, TodoIsWanted
    <2>3. IndicatorQueue'
      BY <1>a, <1>b DEF Shape, IndicatorQueue, TypeOK
    <2> QED BY <2>2, <2>3 DEF Shape
  <1>c. ASSUME at' = at, memo' = memo, todo' = todo, queued' = queued
        PROVE  Shape'
    BY <1>c DEF Shape, TodoIsWanted, IndicatorQueue, Words
  <1>d. \A t \in Task : ~Waits(t) => todo[t] = {}
    BY DEF Shape, TodoIsWanted, Words, Waits
  <1>1. CASE UNCHANGED vars
    BY <1>1, <1>c DEF vars
  <1>2. ASSUME NEW t \in Task, NEW w \in Word, NEW v \in 0 .. MaxHead + 2,
               Matches(t, w, v)
        PROVE  Shape'
    <2>1. /\ at' = at /\ memo' = memo /\ <<w, v>> \in todo[t]
          /\ todo' = [todo EXCEPT ![t] = @ \ {<<w, v>>}]
          /\ queued' = [queued EXCEPT ![t] = @ \cup {w}]
      BY <1>2 DEF Matches, Arm
    <2>2. \A u \in Task : Words(u)' = Words(u)
      BY <2>1 DEF Words
    <2>3. TodoIsWanted'
      BY <2>1, <2>2 DEF Shape, TodoIsWanted, TypeOK
    <2>4. <<w, v>> \in Words(t)
      BY <2>1 DEF Shape, TodoIsWanted
    <2>5. \A s \in Side : w = Sending(s) => s = Remote(t) /\ at[t] \in {"message", "remote"}
      BY <2>4 DEF Words
    <2>6. IndicatorQueue'
      BY <2>1, <2>5 DEF Shape, IndicatorQueue, TypeOK
    <2> QED BY <2>3, <2>6 DEF Shape
  <1>3. ASSUME Quiet PROVE Shape'
    <2>1. PICK R \in SUBSET Task, U \in SUBSET Task :
            /\ Ended(R, U, "idle") /\ \A t \in R : Waits(t)
            /\ \A t \in U : at[t] = "loaded" /\ t \notin R
      BY <1>3 DEF Quiet
    <2>2. /\ word' = word /\ slot' = slot /\ memo' = memo
          /\ passed' = passed /\ told' = told
      BY <1>3 DEF Quiet
    <2> QED BY <2>1, <2>2, ResumeShape DEF Waits
  <1>k. ASSUME NEW x \in Waiter, KernelStep(x) PROVE Shape'
    BY <1>2, <1>3, <1>k, KernelQuiet
  <1>l. ASSUME NEW t \in Task, Cancel(t) PROVE Shape'
    BY <1>3, <1>l, CancelQuiet
  <1>4. ASSUME NEW s \in Side, Publish(s) \/ Join(s) \/ Evict(s) PROVE Shape'
    BY <1>4, <1>c DEF Publish, Join, Evict, waits
  <1>5. ASSUME NEW t \in Task, NEW v \in {0, 1}, SetIndicator(t, v) PROVE Shape'
    BY <1>5, <1>b, <1>d DEF SetIndicator, Runs, Waits, waits
  <1>6. ASSUME NEW t \in Task, Announce(t) PROVE Shape'
    BY <1>6, ResumeShape, ResumeAt DEF Announce, Waits
  <1>7. ASSUME NEW t \in Task, Lock(t) \/ Unlock(t) \/ LoadBlocked(t) PROVE Shape'
    BY <1>7, <1>b, <1>d DEF Lock, Unlock, LoadBlocked, Runs, Waits, waits, TypeOK
  <1>8. ASSUME NEW t \in Task, GuardWait(t) PROVE Shape'
    <2>1. todo'[t] \subseteq Words(t)'
      BY <1>8 DEF GuardWait, Begin, Words, TypeOK
    <2> QED BY <1>8, <2>1, <1>b DEF GuardWait, Begin, Waits, TypeOK
  <1>9. ASSUME NEW t \in Task, NEW seen \in 0 .. MaxHead, WaitForMessage(t, seen)
        PROVE  Shape'
    <2>1. todo'[t] \subseteq Words(t)'
      BY <1>9 DEF WaitForMessage, Expected, Begin, Words, TypeOK
    <2> QED BY <1>9, <2>1, <1>b DEF WaitForMessage, Expected, Begin, Runs, Waits, TypeOK
  <1>10. ASSUME NEW t \in Task, WaitForRemote(t) PROVE Shape'
    <2>1. todo'[t] \subseteq Words(t)'
      BY <1>10 DEF WaitForRemote, Begin, Words, TypeOK
    <2> QED BY <1>10, <2>1, <1>b DEF WaitForRemote, Begin, Waits, TypeOK
  <1>11. ASSUME NEW t \in Task, WakeHead(t) PROVE Shape'
    BY <1>11, WakeSome, ResumeShape, ResumeAt DEF WakeHead, Runs, Waits, TypeOK
  <1>12. ASSUME NEW t \in Task, WakeBlocked(t) \/ WakeRequeued(t) PROVE Shape'
    BY <1>12, WakeSome, ResumeShape, ResumeAt DEF WakeBlocked, WakeRequeued, Waits
  <1>13. ASSUME NEW t \in Task, Requeue(t) PROVE Shape'
    <2>1. CASE word[Blocked] = RemoteNumber(SideOf[t])
      <3>1. at[t] = "idle" /\ at' = [at EXCEPT ![t] = "waking"] /\ todo' = todo
            /\ \A u \in Task : u # t => memo'[u] = memo[u]
        BY <1>13, <2>1 DEF Requeue, Runs, TypeOK
      <3>2. \A u \in Task, s \in Side : Sending(s) \in queued'[u] => Sending(s) \in queued[u]
        BY <1>13, <2>1 DEF Requeue, OwnHead
      <3>3. \A u \in Task : u # t => Words(u)' = Words(u)
        BY <3>1 DEF Words, TypeOK
      <3>4. todo[t] = {} /\ queued[t] = {}
        BY <3>1, <1>a, <1>d DEF Waits
      <3>5. TodoIsWanted'
        BY <3>1, <3>3, <3>4 DEF Shape, TodoIsWanted
      <3>6. IndicatorQueue'
        BY <3>1, <3>2, <3>4 DEF Shape, IndicatorQueue, TypeOK
      <3> QED BY <3>5, <3>6 DEF Shape
    <2>2. CASE word[Blocked] # RemoteNumber(SideOf[t])
      BY <1>13, <2>2, <1>c DEF Requeue
    <2> QED BY <2>1, <2>2
  <1>14. ASSUME NEW s \in Side, Leave(s) PROVE Shape'
    BY <1>14, ResumeShape, ResumeAt DEF Leave
  <1>15. ASSUME NEW s \in Side, Crash(s) PROVE Shape'
    <2> DEFINE G == {t \in Task : SideOf[t] = s}
    <2>1. Ended(G, G, "idle") /\ memo' = memo
      BY <1>15, CrashEnds
    <2> HIDE DEF G
    <2> QED BY <2>1, ResumeShape
  <1>16. ASSUME Reinit PROVE Shape'
    BY <1>16, <1>c DEF Reinit, waits
  <1> QED
    BY <1>1, <1>k, <1>l, <1>4, <1>5, <1>6, <1>7, <1>8, <1>9, <1>10, <1>11, <1>12,
       <1>13, <1>14, <1>15, <1>16
       DEF Next, TaskStep, Raised

-----------------------------------------------------------------------------
(* The send indicators *)

(* The end of waits of others leaves who announces a change as it was. *)
LEMMA ResumeIndicator ==
  ASSUME TypeOK, Base, Shape, IndicatorSettles, NEW R, NEW U,
         NEW next \in {"idle", "waking"}, Ended(R, U, next), word' = word, slot' = slot,
         \A t \in R \cap Task : Waits(t),
         \A t \in U \cap Task : at[t] # "announce" /\ ~Waits(t)
  PROVE  IndicatorSettles'
  <1>1. \A u \in Task : at[u] = "announce" => at'[u] = "announce"
    BY DEF Ended, Waits
  <1>2. \A t \in Task : queued'[t] # {} => queued'[t] = queued[t] /\ at'[t] = at[t]
    BY DEF Ended, Base, QueuedWait
  <1> QED BY <1>1, <1>2 DEF IndicatorSettles

LEMMA IndicatorStep ==
  ASSUME TypeOK, Base, Shape, IndicatorSettles, [Next]_vars
  PROVE  IndicatorSettles'
  <1> USE TaskFacts, WordFacts, SideFacts
  <1>a. \A t \in Task : ~Waits(t) => queued[t] = {}
    BY DEF Base, QueuedWait
  <1>b. ASSUME NEW t \in Task, NEW pc, at' = [at EXCEPT ![t] = pc],
               at[t] # "announce", ~Waits(t), queued' = queued, slot' = slot,
               \A s \in Side : word'[Sending(s)] = word[Sending(s)]
        PROVE  IndicatorSettles'
    <2>1. \A u \in Task : at[u] = "announce" => at'[u] = "announce"
      BY <1>b DEF TypeOK
    <2>2. \A u \in Task : queued'[u] # {} => queued'[u] = queued[u] /\ at'[u] = at[u]
      BY <1>a, <1>b DEF TypeOK
    <2> QED BY <1>b, <2>1, <2>2 DEF IndicatorSettles
  <1>1. CASE UNCHANGED vars
    BY <1>1 DEF vars, IndicatorSettles
  <1>2. ASSUME NEW t \in Task, NEW w \in Word, NEW v \in 0 .. MaxHead + 2,
               Matches(t, w, v)
        PROVE  IndicatorSettles'
    <2>1. /\ at' = at /\ word' = word /\ slot' = slot /\ <<w, v>> \in todo[t]
          /\ queued' = [queued EXCEPT ![t] = @ \cup {w}]
      BY <1>2 DEF Matches, Arm
    <2>2. <<w, v>> \in Words(t)
      BY <2>1 DEF Shape, TodoIsWanted
    <2>3. w = Sending(Remote(t)) => v = IF at[t] = "remote" THEN 0 ELSE 1
      BY <2>2 DEF Words
    <2>4. \A u \in Task : Sending(Remote(u)) \in queued'[u] =>
            \/ Sending(Remote(u)) \in queued[u]
            \/ u = t /\ w = Sending(Remote(t))
      BY <2>1 DEF TypeOK
    <2> QED BY <1>2, <2>1, <2>3, <2>4 DEF Matches, IndicatorSettles
  <1>3. ASSUME Quiet PROVE IndicatorSettles'
    <2>1. PICK R \in SUBSET Task, U \in SUBSET Task :
            /\ Ended(R, U, "idle") /\ \A t \in R : Waits(t)
            /\ \A t \in U : at[t] = "loaded" /\ t \notin R
      BY <1>3 DEF Quiet
    <2>2. /\ word' = word /\ slot' = slot /\ memo' = memo
          /\ passed' = passed /\ told' = told
      BY <1>3 DEF Quiet
    <2> QED BY <2>1, <2>2, ResumeIndicator DEF Waits
  <1>k. ASSUME NEW x \in Waiter, KernelStep(x) PROVE IndicatorSettles'
    BY <1>2, <1>3, <1>k, KernelQuiet
  <1>l. ASSUME NEW t \in Task, Cancel(t) PROVE IndicatorSettles'
    BY <1>3, <1>l, CancelQuiet
  <1>4. ASSUME NEW s \in Side, Publish(s) PROVE IndicatorSettles'
    <2>1. \A r \in Side : word'[Sending(r)] = word[Sending(r)]
      BY <1>4 DEF Publish, TypeOK
    <2> QED BY <1>4, <2>1 DEF Publish, IndicatorSettles, waits
  <1>5. ASSUME NEW t \in Task, NEW v \in {0, 1}, SetIndicator(t, v)
        PROVE  IndicatorSettles'
    <2>1. /\ word' = [word EXCEPT ![Sending(SideOf[t])] = v] /\ at[t] = "idle"
          /\ at' = [at EXCEPT ![t] = "announce"] /\ slot' = slot /\ queued' = queued
      BY <1>5 DEF SetIndicator, Runs, waits
    <2>2. \A u \in Task : at[u] = "announce" => at'[u] = "announce"
      BY <2>1 DEF TypeOK
    <2>3. at'[t] = "announce"
      BY <2>1 DEF TypeOK
    <2>4. \A u \in Task : queued'[u] # {} => at'[u] = at[u]
      <3>1. queued[t] = {}
        BY <2>1, <1>a DEF Waits
      <3>2. \A u \in Task : u # t => at'[u] = at[u]
        BY <2>1 DEF TypeOK
      <3> QED BY <2>1, <3>1, <3>2
    <2>5. \A s \in Side : s # SideOf[t] => word'[Sending(s)] = word[Sending(s)]
      BY <2>1 DEF TypeOK
    <2> QED BY <2>1, <2>2, <2>3, <2>4, <2>5 DEF IndicatorSettles
  <1>6. ASSUME NEW t \in Task, Announce(t) PROVE IndicatorSettles'
    <2>1. /\ Resume(QueuedOn(Sending(SideOf[t])), {t}, "idle") /\ word' = word
          /\ slot' = slot /\ at[t] = "announce"
      BY <1>6 DEF Announce, Indicator
    <2>2. \A u \in Task : queued'[u] # {} => queued'[u] = queued[u] /\ at'[u] = at[u]
      BY <2>1, ResumeAt DEF Base, QueuedWait, Waits, Ended
    <2>3. \A u \in Task : Sending(SideOf[t]) \notin queued'[u]
      BY <2>1, ResumeAt DEF QueuedOn, Ended
    <2>4. \A u \in Task : at[u] = "announce" /\ u # t => at'[u] = "announce"
      BY <2>1, ResumeAt DEF QueuedOn, Base, QueuedWait, Waits, Ended
    <2> QED BY <2>1, <2>2, <2>3, <2>4 DEF IndicatorSettles
  <1>7. ASSUME NEW t \in Task, Lock(t) \/ Unlock(t) PROVE IndicatorSettles'
    <2>1. \A r \in Side : word'[Sending(r)] = word[Sending(r)]
      BY <1>7 DEF Lock, Unlock, TypeOK
    <2> QED BY <1>7, <2>1, <1>b DEF Lock, Unlock, Runs, Waits, waits
  <1>8. ASSUME NEW t \in Task, GuardWait(t) \/ LoadBlocked(t) \/ WaitForRemote(t)
        PROVE  IndicatorSettles'
    BY <1>8, <1>b DEF GuardWait, LoadBlocked, WaitForRemote, Begin, Runs, Waits, waits
  <1>9. ASSUME NEW t \in Task, NEW seen \in 0 .. MaxHead, WaitForMessage(t, seen)
        PROVE  IndicatorSettles'
    BY <1>9, <1>b DEF WaitForMessage, Expected, Begin, Runs, Waits
  <1>10. ASSUME NEW t \in Task, WakeHead(t) \/ WakeBlocked(t) \/ WakeRequeued(t)
         PROVE  IndicatorSettles'
    <2>1. PICK R \in SUBSET Waiter, next \in {"idle", "waking"} :
            Resume(R, {t}, next) /\ \A u \in R : queued[u] # {}
      BY <1>10, WakeSome
    <2> QED BY <1>10, <2>1, WakeSome, ResumeIndicator, ResumeAt
               DEF WakeHead, WakeBlocked, WakeRequeued, Base, QueuedWait, Runs, Waits
  <1>11. ASSUME NEW t \in Task, Requeue(t) PROVE IndicatorSettles'
    <2>1. word' = word /\ slot' = slot /\ at[t] = "idle"
          /\ (at' = at \/ at' = [at EXCEPT ![t] = "waking"])
      BY <1>11 DEF Requeue, Runs
    <2>2. \A u \in Task, s \in Side : Sending(s) \in queued'[u] => Sending(s) \in queued[u]
      BY <1>11 DEF Requeue, OwnHead
    <2>3. \A u \in Task : queued[u] # {} => at'[u] = at[u]
      BY <2>1, <1>a DEF Waits, TypeOK
    <2>4. \A u \in Task : at[u] = "announce" => at'[u] = "announce"
      BY <2>1 DEF TypeOK
    <2> QED BY <2>1, <2>2, <2>3, <2>4 DEF IndicatorSettles
  <1>12. ASSUME NEW s \in Side, Join(s) PROVE IndicatorSettles'
    <2>1. /\ slot[s] = "open" /\ slot' = [slot EXCEPT ![s] = "client"]
          /\ word' = word /\ at' = at /\ queued' = queued
      BY <1>12 DEF Join, waits
    <2> QED BY <2>1 DEF IndicatorSettles, TypeOK
  <1>13. ASSUME NEW s \in Side, Leave(s) \/ Crash(s) PROVE IndicatorSettles'
    <2>1. word' = word
      BY <1>13 DEF Leave, Crash
    <2>2. \A t \in Task : SideOf[t] # s =>
            /\ queued'[t] # {} => queued'[t] = queued[t] /\ at'[t] = at[t]
            /\ at[t] = "announce" => at'[t] = "announce"
      <3>1. CASE Leave(s)
        <4> DEFINE R == QueuedOn(OwnHead(s))
        <4>1. Resume(R, {}, "idle") /\ \A t \in R \cap Task : Waits(t)
          BY <3>1 DEF Leave, QueuedOn, Base, QueuedWait
        <4> HIDE DEF R
        <4> QED BY <4>1, ResumeAt DEF Waits, Ended
      <3>2. CASE Crash(s)
        <4> DEFINE G == {t \in Task : SideOf[t] = s}
        <4>1. Ended(G, G, "idle")
          BY <3>2, CrashEnds
        <4> QED BY <4>1 DEF Ended
      <3> QED BY <1>13, <3>1, <3>2
    <2> QED BY <1>13, <2>1, <2>2, GoneBase DEF IndicatorSettles
  <1>14. ASSUME NEW s \in Side, Evict(s) PROVE IndicatorSettles'
    <2>1. /\ slot' = [slot EXCEPT ![s] = "free"]
          /\ word' = word /\ at' = at /\ queued' = queued
      BY <1>14 DEF Evict, waits
    <2> QED BY <2>1 DEF IndicatorSettles, TypeOK
  <1>15. ASSUME Reinit PROVE IndicatorSettles'
    <2>1. queued' = queued /\ \A s \in Side : slot[s] # "client"
      BY <1>15 DEF Reinit, waits
    <2>2. \A t \in Task : queued[t] = {}
      BY <2>1, <1>a DEF Base, OnlyClients, Waits
    <2> QED BY <2>1, <2>2 DEF IndicatorSettles
  <1> QED
    BY <1>1, <1>k, <1>l, <1>4, <1>5, <1>6, <1>7, <1>8, <1>9, <1>10, <1>11, <1>12,
       <1>13, <1>14, <1>15
       DEF Next, TaskStep, Raised

LEMMA ShapeInit == Init => Base /\ Shape
  BY SideFacts, WordFacts, TaskFacts
     DEF Init, Base, OnlyClients, QueuedWait, Shape, TodoIsWanted, IndicatorQueue, Words

LEMMA ShapeInvariance == Spec => [](TypeOK /\ Base /\ Shape)
  <1>1. (TypeOK /\ Base /\ Shape) /\ [Next]_vars => (TypeOK /\ Base /\ Shape)'
    BY TypeStep, BaseStep, ShapeStep
  <1> QED BY <1>1, TypeInit, ShapeInit, PTL DEF Spec

(* A waiter never sleeps through a change of the other side's indicator    *)
(* for longer than it takes that client to wake it, whatever the tasks of  *)
(* that side do at the same time; with either wake, and also when          *)
(* exchanges fail.                                                         *)
THEOREM IndicatorsSettle == Spec => []IndicatorSettles
  <1>1. Init => IndicatorSettles
    BY TaskFacts DEF Init, IndicatorSettles
  <1>2. (TypeOK /\ Base /\ Shape) /\ IndicatorSettles /\ [Next]_vars => IndicatorSettles'
    BY IndicatorStep
  <1> QED BY <1>1, <1>2, ShapeInvariance, PTL DEF Spec

-----------------------------------------------------------------------------
(* Wake-ups of io_uring.rs *)

(* Each word was compared and its queue joined, or is still to be.         *)
Armed == \A t \in Task : \A x \in Words(t) : x \in todo[t] \/ x[1] \in queued[t]

(* What was told was published, ... *)
ToldIsPublished ==
  /\ \A s \in Side : told[s] <= word[Producer(s)]
  /\ \A u \in Task : at[u] = "waking" => memo[u] <= word[Producer(SideOf[u])]

(* ... and whoever is on a queue and was not passed has seen it, or is     *)
(* about to be told.                                                       *)
ReadersAhead ==
  \A t \in Task :
    at[t] = "message" /\ Producer(Remote(t)) \in queued[t] /\ t \notin passed =>
      /\ told[Remote(t)] <= memo[t]
      /\ \A u \in Task : at[u] = "waking" /\ SideOf[u] = Remote(t) => memo[u] <= memo[t]
LockersAhead ==
  \A t \in Task :
    at[t] = "lock" /\ Blocked \in queued[t] /\ t \notin passed => told[Remote(t)] <= slept[t]

WakeInv == Armed /\ ToldIsPublished /\ ReadersAhead /\ LockersAhead

(* The end of some waits, by itself, disturbs none of this. *)
LEMMA ResumeWake ==
  ASSUME TypeOK, Base, Shape, WakeInv, NEW R, NEW U, Ended(R, U, "idle"),
         word' = word, memo' = memo, passed' = passed, told' = told,
         \A t \in U \cap Task : t \in R \/ ~Waits(t)
  PROVE  WakeInv'
  <1>1. ASSUME NEW t \in Task, t \in U \/ t \in R
        PROVE  at'[t] \in {"idle", "unlock"} /\ Words(t)' = {}
    <2>1. at'[t] \in {"idle", "unlock"}
      BY <1>1 DEF Ended
    <2> QED BY <2>1 DEF Words
  <1>2. ASSUME NEW t \in Task, t \notin U, t \notin R
        PROVE  /\ todo'[t] = todo[t] /\ queued'[t] = queued[t] /\ at'[t] = at[t]
               /\ slept'[t] = slept[t] /\ Words(t)' = Words(t)
    <2>1. /\ todo'[t] = todo[t] /\ queued'[t] = queued[t] /\ at'[t] = at[t]
          /\ slept'[t] = slept[t]
      BY <1>2 DEF Ended
    <2> QED BY <2>1 DEF Words
  <1>3. Armed'
    BY <1>1, <1>2 DEF WakeInv, Armed
  <1>4. \A t \in Task : at'[t] \in {"waking", "message", "lock"} => t \notin U /\ t \notin R
    BY <1>1
  <1>5. ToldIsPublished'
    BY <1>2, <1>4 DEF WakeInv, ToldIsPublished
  <1>6. ReadersAhead'
    BY <1>2, <1>4 DEF WakeInv, ReadersAhead
  <1>7. LockersAhead'
    BY <1>2, <1>4 DEF WakeInv, LockersAhead
  <1> QED BY <1>3, <1>5, <1>6, <1>7 DEF WakeInv

(* Nor does a step of a task that does not wait and wakes nobody. *)
LEMMA MoveWake ==
  ASSUME TypeOK, Base, Shape, WakeInv, NEW t \in Task, NEW pc,
         at' = [at EXCEPT ![t] = pc], pc # "waking", ~Waits(t),
         queued' = queued, slept' = slept, told' = told, passed \subseteq passed' \cup {t},
         \A s \in Side : word'[Producer(s)] = word[Producer(s)],
         \A u \in Task : u # t => todo'[u] = todo[u] /\ memo'[u] = memo[u],
         Words(t)' = todo'[t]
  PROVE  WakeInv'
  <1> USE TaskFacts
  <1>1. queued'[t] = {}
    BY DEF Base, QueuedWait
  <1>2. \A u \in Task : u # t => Words(u)' = Words(u) /\ at'[u] = at[u]
    BY DEF Words, TypeOK
  <1>3. at'[t] = pc
    BY DEF TypeOK
  <1>4. Armed'
    BY <1>2 DEF WakeInv, Armed
  <1>5. ToldIsPublished'
    BY <1>2, <1>3 DEF WakeInv, ToldIsPublished
  <1>6. ReadersAhead'
    BY <1>1, <1>2, <1>3 DEF WakeInv, ReadersAhead
  <1>7. LockersAhead'
    BY <1>1, <1>2, <1>3 DEF WakeInv, LockersAhead
  <1> QED BY <1>4, <1>5, <1>6, <1>7 DEF WakeInv

LEMMA WakeStep ==
  ASSUME IoUring, TypeOK, Base, Shape, WakeInv, [Next]_vars
  PROVE  WakeInv'
  <1> USE TaskFacts, WordFacts, SideFacts
  <1>a. \A t \in Task : ~Waits(t) => queued[t] = {} /\ todo[t] = {} /\ Words(t) = {}
    BY DEF Base, QueuedWait, Shape, TodoIsWanted, Words, Waits
  <1>c. TypeOK'
    BY TypeStep
  <1>b. ASSUME at' = at, memo' = memo, todo' = todo, queued' = queued, slept' = slept,
               told' = told, passed' = passed,
               \A s \in Side : word'[Producer(s)] >= word[Producer(s)]
        PROVE  WakeInv'
    <2>1. \A t \in Task : Words(t)' = Words(t)
      BY <1>b DEF Words
    <2>2. ASSUME NEW s \in Side, NEW n \in Nat, n <= word[Producer(s)]
          PROVE  n <= word'[Producer(s)]
      <3>1. word'[Producer(s)] \in Nat /\ word[Producer(s)] \in Nat
        BY <1>c DEF TypeOK
      <3>2. word'[Producer(s)] >= word[Producer(s)]
        BY <1>b
      <3> QED BY <2>2, <3>1, <3>2
    <2>3. Armed'
      BY <1>b, <2>1 DEF WakeInv, Armed
    <2>4. \A s \in Side : told[s] \in Nat
      BY DEF TypeOK
    <2>5. \A u \in Task : memo[u] \in Nat
      BY DEF TypeOK
    <2>6. ToldIsPublished'
      BY <1>b, <2>2, <2>4, <2>5 DEF WakeInv, ToldIsPublished
    <2>7. ReadersAhead' /\ LockersAhead'
      BY <1>b DEF WakeInv, ReadersAhead, LockersAhead
    <2> QED BY <2>3, <2>6, <2>7 DEF WakeInv
  <1>1. CASE UNCHANGED vars
    BY <1>1, <1>b DEF vars, TypeOK
  <1>2. ASSUME NEW t \in Task, NEW w \in Word, NEW v \in 0 .. MaxHead + 2,
               Matches(t, w, v)
        PROVE  WakeInv'
    <2>1. /\ at' = at /\ word' = word /\ memo' = memo /\ told' = told /\ passed' = passed
          /\ <<w, v>> \in todo[t] /\ word[w] = v
          /\ todo' = [todo EXCEPT ![t] = @ \ {<<w, v>>}]
          /\ queued' = [queued EXCEPT ![t] = @ \cup {w}]
          /\ slept' = [u \in Task |-> IF u = t THEN word[Producer(Remote(u))] ELSE slept[u]]
      BY <1>2 DEF Matches, Arm
    <2>2. \A u \in Task : Words(u)' = Words(u)
      BY <2>1 DEF Words
    <2>3. <<w, v>> \in Words(t)
      BY <2>1 DEF Shape, TodoIsWanted
    <2>4. ASSUME NEW u \in Task, NEW x \in Words(u)
          PROVE  x \in todo'[u] \/ x[1] \in queued'[u]
      <3>1. x \in todo[u] \/ x[1] \in queued[u]
        BY DEF WakeInv, Armed
      <3>2. CASE u # t
        BY <2>1, <3>1, <3>2
      <3>3. CASE u = t
        <4>1. x = <<w, v>> \/ x \in todo'[u] \/ x[1] \in queued[u]
          BY <2>1, <3>1, <3>3 DEF TypeOK
        <4>2. queued'[u] = queued[u] \cup {w}
          BY <2>1, <3>3 DEF TypeOK
        <4> QED BY <4>1, <4>2
      <3> QED BY <3>2, <3>3
    <2>5. Armed'
      BY <2>2, <2>4 DEF Armed
    <2>6. ToldIsPublished'
      BY <2>1 DEF WakeInv, ToldIsPublished
    <2>7. ReadersAhead'
      <3>1. at[t] = "message" /\ w = Producer(Remote(t)) =>
              word[Producer(Remote(t))] = memo[t]
        BY <2>1, <2>3 DEF Words
      <3>2. \A u \in Task : at[u] = "message" /\ Producer(Remote(u)) \in queued'[u] =>
              Producer(Remote(u)) \in queued[u] \/ (u = t /\ w = Producer(Remote(t)))
        BY <2>1 DEF TypeOK
      <3> QED BY <2>1, <3>1, <3>2 DEF WakeInv, ReadersAhead, ToldIsPublished
    <2>8. LockersAhead'
      <3>1. told[Remote(t)] <= slept'[t]
        BY <2>1 DEF WakeInv, ToldIsPublished, TypeOK
      <3>2. \A u \in Task : u # t => queued'[u] = queued[u] /\ slept'[u] = slept[u]
        BY <2>1 DEF TypeOK
      <3> QED BY <2>1, <3>1, <3>2 DEF WakeInv, LockersAhead
    <2> QED BY <2>5, <2>6, <2>7, <2>8 DEF WakeInv
  <1>3. ASSUME Quiet PROVE WakeInv'
    <2>1. PICK R \in SUBSET Task, U \in SUBSET Task :
            /\ Ended(R, U, "idle") /\ \A t \in R : Waits(t)
            /\ \A t \in U : at[t] = "loaded" /\ t \notin R
      BY <1>3 DEF Quiet
    <2>2. /\ word' = word /\ slot' = slot /\ memo' = memo
          /\ passed' = passed /\ told' = told
      BY <1>3 DEF Quiet
    <2> QED BY <2>1, <2>2, ResumeWake DEF Waits
  <1>k. ASSUME NEW x \in Waiter, KernelStep(x) PROVE WakeInv'
    BY <1>2, <1>3, <1>k, KernelQuiet
  <1>l. ASSUME NEW t \in Task, Cancel(t) PROVE WakeInv'
    BY <1>3, <1>l, CancelQuiet
  <1>4. ASSUME NEW s \in Side, Publish(s) PROVE WakeInv'
    <2>1. \A r \in Side : word'[Producer(r)] >= word[Producer(r)]
      BY <1>4 DEF Publish, TypeOK
    <2> QED BY <1>4, <2>1, <1>b DEF Publish, waits
  <1>5. ASSUME NEW s \in Side, Join(s) \/ Evict(s) PROVE WakeInv'
    BY <1>5, <1>b DEF Join, Evict, waits, TypeOK
  <1>6. ASSUME NEW t \in Task, NEW v \in {0, 1}, SetIndicator(t, v) PROVE WakeInv'
    <2>1. \A s \in Side : word'[Producer(s)] = word[Producer(s)]
      BY <1>6 DEF SetIndicator, TypeOK
    <2>2. Words(t)' = {}
      BY <1>6 DEF SetIndicator, Words, TypeOK
    <2> QED BY <1>6, <1>a, <2>1, <2>2, MoveWake DEF SetIndicator, Runs, Waits, waits
  <1>7. ASSUME NEW t \in Task, Announce(t) PROVE WakeInv'
    BY <1>7, ResumeWake, ResumeAt DEF Announce, Waits
  <1>8. ASSUME NEW t \in Task, Lock(t) \/ Unlock(t) \/ LoadBlocked(t) PROVE WakeInv'
    <2>1. \A s \in Side : word'[Producer(s)] = word[Producer(s)]
      BY <1>8 DEF Lock, Unlock, LoadBlocked, TypeOK
    <2>2. Words(t)' = {}
      BY <1>8 DEF Lock, Unlock, LoadBlocked, Words, TypeOK
    <2>3. /\ queued' = queued /\ todo' = todo /\ slept' = slept /\ told' = told /\ ~Waits(t)
          /\ passed' = passed
          /\ \E pc \in {"guard", "idle", "loaded"} : at' = [at EXCEPT ![t] = pc]
          /\ \A u \in Task : u # t => memo'[u] = memo[u]
      BY <1>8 DEF Lock, Unlock, LoadBlocked, Runs, Waits, waits, TypeOK
    <2> QED BY <1>a, <2>1, <2>2, <2>3, MoveWake
  <1>9. ASSUME NEW t \in Task, GuardWait(t) PROVE WakeInv'
    <2>1. Words(t)' = todo'[t]
      BY <1>9 DEF GuardWait, Begin, Words, TypeOK
    <2>2. \A u \in Task : u # t => todo'[u] = todo[u] /\ memo'[u] = memo[u]
      BY <1>9 DEF GuardWait, Begin, TypeOK
    <2> QED BY <1>9, <2>1, <2>2, MoveWake DEF GuardWait, Begin, Waits
  <1>10. ASSUME NEW t \in Task, NEW seen \in 0 .. MaxHead, WaitForMessage(t, seen)
         PROVE  WakeInv'
    <2>1. Words(t)' = todo'[t]
      BY <1>10 DEF WaitForMessage, Expected, Begin, Words, TypeOK
    <2>2. \A u \in Task : u # t => todo'[u] = todo[u] /\ memo'[u] = memo[u]
      BY <1>10 DEF WaitForMessage, Expected, Begin, TypeOK
    <2> QED BY <1>10, <2>1, <2>2, MoveWake DEF WaitForMessage, Expected, Begin, Runs, Waits
  <1>11. ASSUME NEW t \in Task, WaitForRemote(t) PROVE WakeInv'
    <2>1. Words(t)' = todo'[t]
      BY <1>11 DEF WaitForRemote, Begin, Words, TypeOK
    <2>2. \A u \in Task : u # t => todo'[u] = todo[u] /\ memo'[u] = memo[u]
      BY <1>11 DEF WaitForRemote, Begin, TypeOK
    <2> QED BY <1>11, <2>1, <2>2, MoveWake DEF WaitForRemote, Begin, Waits
  <1>12. ASSUME NEW t \in Task, WakeHead(t) PROVE WakeInv'
    <2> DEFINE p == Producer(SideOf[t])
    <2>1. /\ word' = word /\ told' = told /\ at[t] = "idle"
          /\ memo' = [memo EXCEPT ![t] = word[p]]
      BY <1>12 DEF WakeHead, OwnHead, Runs
    <2>a. PICK R : /\ Resume(R, {t}, "waking") /\ R \subseteq QueuedOn(p)
                   /\ passed \subseteq passed'
                   /\ \A u \in Task : p \in queued[u] => u \in R \/ u \in passed'
      BY <1>12, WakeQueues DEF OwnHead
    <2>b. Ended(R, {t}, "waking")
      BY <2>a, ResumeAt
    <2>2. t \notin R /\ queued[t] = {} /\ todo[t] = {}
      BY <2>1, <2>a, <1>a DEF QueuedOn, Waits
    <2>3. \A u \in Task : p \in queued[u] /\ u \notin R => u \in passed'
      BY <2>a
    <2>4. at'[t] = "waking" /\ queued'[t] = {} /\ todo'[t] = {} /\ memo'[t] = word[p]
      BY <2>1, <2>2, <2>b DEF TypeOK, Ended
    <2>5. \A u \in Task : u # t /\ u \in R => at'[u] \in {"idle", "unlock"}
      BY <2>b DEF Ended
    <2>6. \A u \in Task : u # t /\ u \notin R =>
            /\ todo'[u] = todo[u] /\ queued'[u] = queued[u] /\ at'[u] = at[u]
            /\ slept'[u] = slept[u]
      BY <2>b DEF Ended
    <2>7. \A u \in Task : u # t => memo'[u] = memo[u]
      BY <2>1
    <2>8. Armed'
      <3>1. \A u \in Task : u = t \/ u \in R => Words(u)' = {}
        BY <2>4, <2>5 DEF Words
      <3>2. \A u \in Task : u # t /\ u \notin R => Words(u)' = Words(u)
        BY <2>6, <2>7 DEF Words
      <3> QED BY <2>6, <3>1, <3>2 DEF WakeInv, Armed
    <2>9. ToldIsPublished'
      BY <2>1, <2>4, <2>5, <2>6, <2>7 DEF WakeInv, ToldIsPublished, TypeOK
    <2>10. ReadersAhead'
      <3> SUFFICES ASSUME NEW u \in Task, at'[u] = "message",
                          Producer(Remote(u)) \in queued'[u], u \notin passed'
                   PROVE  /\ told'[Remote(u)] <= memo'[u]
                          /\ \A x \in Task : at'[x] = "waking" /\ SideOf[x] = Remote(u)
                               => memo'[x] <= memo'[u]
        BY DEF ReadersAhead
      <3>1. u # t /\ u \notin R
        BY <2>4, <2>5
      <3>2. u \notin passed
        BY <2>a
      <3>3. Remote(u) # SideOf[t]
        BY <2>3, <2>6, <3>1
      <3> QED BY <2>1, <2>5, <2>6, <2>7, <3>1, <3>2, <3>3 DEF WakeInv, ReadersAhead
    <2>11. LockersAhead'
      BY <2>1, <2>a, <2>4, <2>5, <2>6 DEF WakeInv, LockersAhead
    <2> QED BY <2>8, <2>9, <2>10, <2>11 DEF WakeInv
  <1>13. ASSUME NEW t \in Task, WakeBlocked(t) PROVE WakeInv'
    <2> DEFINE s == SideOf[t]
    <2>1. /\ word' = word /\ memo' = memo /\ at[t] = "waking"
          /\ told' = [told EXCEPT ![s] = IF memo[t] > @ THEN memo[t] ELSE @]
      BY <1>13 DEF WakeBlocked, Returned
    <2>a. PICK R : /\ Resume(R, {t}, "idle") /\ R \subseteq QueuedOn(Blocked)
                   /\ passed \subseteq passed'
                   /\ \A u \in Task : Blocked \in queued[u] => u \in R \/ u \in passed'
      BY <1>13, WakeQueues
    <2>b. Ended(R, {t}, "idle")
      BY <2>a, ResumeAt
    <2>2. \A u \in Task : Blocked \in queued'[u] => u \in passed'
      BY <2>a, <2>b DEF Ended
    <2>3. \A u \in Task : u = t \/ u \in R => at'[u] \in {"idle", "unlock"}
      BY <2>b DEF Ended
    <2>4. \A u \in Task : u # t /\ u \notin R =>
            /\ todo'[u] = todo[u] /\ queued'[u] = queued[u] /\ at'[u] = at[u]
      BY <2>b DEF Ended
    <2>5. Armed'
      <3>1. \A u \in Task : u = t \/ u \in R => Words(u)' = {}
        BY <2>3 DEF Words
      <3>2. \A u \in Task : u # t /\ u \notin R => Words(u)' = Words(u)
        BY <2>1, <2>4 DEF Words
      <3> QED BY <2>4, <3>1, <3>2 DEF WakeInv, Armed
    <2>6. \A r \in Side : told'[r] = told[r] \/ (r = s /\ told'[r] = memo[t])
      BY <2>1 DEF TypeOK
    <2>7. ToldIsPublished'
      BY <2>1, <2>3, <2>4, <2>6 DEF WakeInv, ToldIsPublished
    <2>8. ReadersAhead'
      BY <2>1, <2>a, <2>3, <2>4, <2>6 DEF WakeInv, ReadersAhead
    <2>9. LockersAhead'
      BY <2>2 DEF LockersAhead
    <2> QED BY <2>5, <2>7, <2>8, <2>9 DEF WakeInv
  <1>14. ASSUME NEW s \in Side, Leave(s) PROVE WakeInv'
    BY <1>14, ResumeWake, ResumeAt DEF Leave
  <1>15. ASSUME NEW s \in Side, Crash(s) PROVE WakeInv'
    <2> DEFINE G == {t \in Task : SideOf[t] = s}
    <2>1. /\ Ended(G, G, "idle")
          /\ word' = word /\ memo' = memo /\ passed' = passed /\ told' = told
      BY <1>15, CrashEnds
    <2> HIDE DEF G
    <2> QED BY <2>1, ResumeWake
  <1>16. ASSUME Reinit PROVE WakeInv'
    <2>1. /\ \A s \in Side : slot[s] # "client" /\ told'[s] = 0 /\ word'[Producer(s)] = 0
          /\ at' = at
      BY <1>16 DEF Reinit
    <2>2. \A t \in Task : at'[t] = "idle"
      BY <2>1 DEF Base, OnlyClients
    <2> QED
      BY <2>1, <2>2
         DEF WakeInv, Armed, Words, ToldIsPublished, ReadersAhead, LockersAhead
  <1> QED
    BY <1>1, <1>k, <1>l, <1>4, <1>5, <1>6, <1>7, <1>8, <1>9, <1>10, <1>11, <1>12,
       <1>13, <1>14, <1>15, <1>16
       DEF Next, TaskStep, Raised, Requeue, WakeRequeued

LEMMA WakeInvariance == ASSUME IoUring PROVE Spec => [](TypeOK /\ WakeInv)
  <1>1. Init => WakeInv
    BY TaskFacts, WordFacts
       DEF Init, WakeInv, Armed, Words, ToldIsPublished, ReadersAhead, LockersAhead
  <1>2. (TypeOK /\ Base /\ Shape) /\ WakeInv /\ [Next]_vars => WakeInv'
    BY WakeStep
  <1> QED BY <1>1, <1>2, ShapeInvariance, PTL DEF Spec

(* With the wake of io_uring.rs no reader sleeps through a message, even   *)
(* if no wait ever times out, unless it was passed: for any number of      *)
(* tasks on either side and of entries that cancelled waits have left,     *)
(* with wake-ups that overlap each other, and also when exchanges fail.    *)
THEOREM ReadersAreWoken == ASSUME IoUring PROVE Spec => []ReadersWoken
  <1>1. TypeOK /\ WakeInv => ReadersWoken
    <2> SUFFICES ASSUME TypeOK, WakeInv, NEW t \in Task, Asleep(t), at[t] = "message",
                        t \notin passed
                 PROVE  told[Remote(t)] <= memo[t]
      BY DEF ReadersWoken
    <2>1. <<Producer(Remote(t)), memo[t]>> \in Words(t)
      BY DEF Words
    <2>2. Producer(Remote(t)) \in queued[t]
      BY <2>1 DEF Asleep, WakeInv, Armed
    <2> QED BY <2>2 DEF WakeInv, ReadersAhead
  <1> QED BY <1>1, WakeInvariance, PTL

(* Nor does anyone who sleeps with the lock. *)
THEOREM LockersAreWoken == ASSUME IoUring PROVE Spec => []LockersWoken
  <1>1. TypeOK /\ WakeInv => LockersWoken
    <2> SUFFICES ASSUME TypeOK, WakeInv, NEW t \in Task, Asleep(t), at[t] = "lock",
                        t \notin passed
                 PROVE  told[Remote(t)] <= slept[t]
      BY DEF LockersWoken
    <2>1. <<Blocked, Number(SideOf[t])>> \in Words(t)
      BY DEF Words
    <2>2. Blocked \in queued[t]
      BY <2>1 DEF Asleep, WakeInv, Armed
    <2> QED BY <2>2 DEF WakeInv, LockersAhead
  <1> QED BY <1>1, WakeInvariance, PTL

(* If the kernel takes u32::MAX for all, nobody is passed; nor if it wakes *)
(* one, as long as there is one task on either side and no cancelled wait  *)
(* has left an entry: a queue the waker is not on then has one waiter.     *)
THEOREM NobodyIsPassed == ASSUME WakeReaches PROVE Spec => []NobodyPassed
  <1>1. Init => NobodyPassed
    BY DEF Init, NobodyPassed
  <1>2. ASSUME TypeOK, Base, NobodyPassed, [Next]_vars PROVE NobodyPassed'
    <2>1. ASSUME NEW t \in Task, NEW w, NEW R, queued[t] = {}, Reached(R, QueuedOn(w))
          PROVE  passed' = {}
      <3>1. CASE WakesAll
        BY <1>2, <2>1, <3>1 DEF Reached, NobodyPassed
      <3>2. CASE ~WakesAll
        <4>1. \A u \in QueuedOn(w) : u \in Task /\ u # t
          BY <2>1, <3>2 DEF QueuedOn, WakeReaches, Waiter
        <4>2. \A u \in QueuedOn(w) : SideOf[u] # SideOf[t]
          BY <3>2, <4>1 DEF WakeReaches
        <4>3. \A u, v \in QueuedOn(w) : SideOf[u] = SideOf[v]
          BY <4>1, <4>2, TaskFacts, SideFacts
        <4>4. \A u, v \in QueuedOn(w) : u = v
          BY <3>2, <4>1, <4>3 DEF WakeReaches
        <4>5. QueuedOn(w) \ R = {}
          BY <2>1, <3>2, <4>4 DEF Reached
        <4> QED BY <1>2, <2>1, <4>5 DEF Reached, NobodyPassed
      <3> QED BY <3>1, <3>2
    <2>2. \A t \in Task : ~Waits(t) => queued[t] = {}
      BY <1>2 DEF Base, QueuedWait
    <2>3. ASSUME NEW t \in Task, WakeHead(t) PROVE passed' = {}
      <3>1. queued[t] = {}
        BY <2>2, <2>3 DEF WakeHead, Runs, Waits
      <3> QED BY <2>1, <2>3, <3>1 DEF WakeHead
    <2>4. ASSUME NEW t \in Task, WakeBlocked(t) PROVE passed' = {}
      <3>1. queued[t] = {}
        BY <2>2, <2>4 DEF WakeBlocked, Waits
      <3> QED BY <2>1, <2>4, <3>1 DEF WakeBlocked, Lockers
    <2>5. ASSUME NEW x \in Waiter, KernelStep(x) PROVE passed' = passed
      BY <2>5 DEF KernelStep, Arm, TimeOut
    <2>6. ASSUME NEW t \in Task,
                 \/ Cancel(t) \/ \E v \in {0, 1} : SetIndicator(t, v)
                 \/ Announce(t) \/ Lock(t) \/ Unlock(t) \/ LoadBlocked(t)
                 \/ Requeue(t) \/ WakeRequeued(t)
          PROVE  passed' = passed
      BY <2>6 DEF Cancel, SetIndicator, Announce, Lock, Unlock, LoadBlocked, Requeue,
                  WakeRequeued, waits
    <2>7. ASSUME NEW t \in Task,
                 \/ GuardWait(t) \/ WaitForRemote(t)
                 \/ \E seen \in 0 .. MaxHead : WaitForMessage(t, seen)
          PROVE  passed' = passed \ {t}
      BY <2>7 DEF GuardWait, WaitForMessage, WaitForRemote, Begin
    <2>8. ASSUME NEW s \in Side,
                 Publish(s) \/ Join(s) \/ Leave(s) \/ Crash(s) \/ Evict(s)
          PROVE  passed' = passed
      BY <2>8 DEF Publish, Join, Leave, Crash, Evict, waits
    <2>9. Reinit \/ UNCHANGED vars => passed' = passed
      BY DEF Reinit, waits, vars
    <2>10. passed = {}
      BY <1>2 DEF NobodyPassed
    <2> QED
      BY <1>2, <2>3, <2>4, <2>5, <2>6, <2>7, <2>8, <2>9, <2>10
         DEF Next, TaskStep, Raised, NobodyPassed
  <1>3. (TypeOK /\ Base /\ Shape) /\ NobodyPassed /\ [Next]_vars => NobodyPassed'
    BY <1>2
  <1> QED BY <1>1, <1>3, ShapeInvariance, PTL DEF Spec

(* So then nobody at all sleeps through what was told. *)
THEOREM EveryoneIsWoken ==
  ASSUME IoUring, WakeReaches
  PROVE  Spec => [](\A t \in Task : Asleep(t) =>
                      /\ at[t] = "message" => told[Remote(t)] <= memo[t]
                      /\ at[t] = "lock" => told[Remote(t)] <= slept[t])
  <1>1. ReadersWoken /\ LockersWoken /\ NobodyPassed =>
          \A t \in Task : Asleep(t) =>
            /\ at[t] = "message" => told[Remote(t)] <= memo[t]
            /\ at[t] = "lock" => told[Remote(t)] <= slept[t]
    BY DEF ReadersWoken, LockersWoken, NobodyPassed
  <1> QED BY <1>1, ReadersAreWoken, LockersAreWoken, NobodyIsPassed, PTL

-----------------------------------------------------------------------------
(* Wake-ups of client.rs *)

(* Whoever waits with the lock has not compared it yet, or is on its queue *)
(* or on the one it was moved to ...                                       *)
LockerQueued ==
  \A t \in Task : at[t] = "lock" =>
    \/ todo[t] # {} /\ queued[t] = {}
    \/ todo[t] = {} /\ (Blocked \in queued[t] \/ Producer(Remote(t)) \in queued[t])

(* ... and has seen what was told, and what is about to be told, unless it *)
(* is on the queue that is woken by then.                                  *)
MovedAhead ==
  \A t \in Task : at[t] = "lock" /\ queued[t] # {} =>
    /\ told[Remote(t)] <= slept[t]
    /\ Producer(Remote(t)) \notin queued[t] =>
         \A u \in Task : at[u] = "waking" /\ SideOf[u] = Remote(t) => memo[u] <= slept[t]

FutexInv == LockerQueued /\ ToldIsPublished /\ MovedAhead

(* The end of some waits disturbs none of this. *)
LEMMA ResumeFutex ==
  ASSUME TypeOK, Base, FutexInv, NEW R, NEW U, Ended(R, U, "idle"),
         word' = word, memo' = memo, told' = told,
         \A t \in U \cap Task : t \in R \/ ~Waits(t)
  PROVE  FutexInv'
  <1>1. \A t \in Task : t \in U \/ t \in R => at'[t] \in {"idle", "unlock"}
    BY DEF Ended
  <1>2. \A t \in Task : t \notin U /\ t \notin R =>
          /\ todo'[t] = todo[t] /\ queued'[t] = queued[t] /\ at'[t] = at[t]
          /\ slept'[t] = slept[t]
    BY DEF Ended
  <1>3. \A t \in Task : at'[t] \in {"waking", "lock"} => t \notin U /\ t \notin R
    BY <1>1
  <1>4. LockerQueued'
    BY <1>2, <1>3 DEF FutexInv, LockerQueued
  <1>5. ToldIsPublished'
    BY <1>2, <1>3 DEF FutexInv, ToldIsPublished
  <1>6. MovedAhead'
    BY <1>2, <1>3 DEF FutexInv, MovedAhead
  <1> QED BY <1>4, <1>5, <1>6 DEF FutexInv

(* Nor does a step of a task that does not wait and wakes nobody. *)
LEMMA MoveFutex ==
  ASSUME TypeOK, Base, FutexInv, NEW t \in Task, NEW pc,
         at' = [at EXCEPT ![t] = pc], pc # "waking", ~Waits(t),
         queued' = queued, slept' = slept, told' = told,
         \A s \in Side : word'[Producer(s)] = word[Producer(s)],
         \A u \in Task : u # t => todo'[u] = todo[u] /\ memo'[u] = memo[u],
         pc = "lock" => todo'[t] # {}
  PROVE  FutexInv'
  <1> USE TaskFacts
  <1>1. queued'[t] = {}
    BY DEF Base, QueuedWait
  <1>2. at'[t] = pc /\ \A u \in Task : u # t => at'[u] = at[u]
    BY DEF TypeOK
  <1>3. LockerQueued'
    BY <1>1, <1>2 DEF FutexInv, LockerQueued
  <1>4. ToldIsPublished'
    BY <1>2 DEF FutexInv, ToldIsPublished
  <1>5. MovedAhead'
    BY <1>1, <1>2 DEF FutexInv, MovedAhead
  <1> QED BY <1>3, <1>4, <1>5 DEF FutexInv

(* The waiters are moved if the remote holds the lock, and only then is    *)
(* there one to be woken: the lock has the number of its holder.           *)
LEMMA RequeueFutex ==
  ASSUME TypeOK, Base, LockAccounted, FutexInv, NEW t \in Task, Requeue(t)
  PROVE  FutexInv'
  <1> USE TaskFacts, WordFacts, SideFacts
  <1> DEFINE s == SideOf[t]
             p == Producer(s)
  <1>1. /\ word' = word /\ todo' = todo /\ slept' = slept /\ at[t] = "idle"
        /\ s \in Side /\ queued[t] = {}
    BY DEF Requeue, Runs, Base, QueuedWait, Waits
  <1>2. ASSUME NEW u \in Task, at[u] = "lock" PROVE word[Blocked] = Number(SideOf[u])
    BY <1>2 DEF LockAccounted, Holds
  <1>3. CASE word[Blocked] = RemoteNumber(s)
    <2>1. /\ memo' = [memo EXCEPT ![t] = word[p]] /\ told' = told
          /\ at' = [at EXCEPT ![t] = "waking"]
          /\ queued' = [x \in Waiter |-> IF Blocked \in queued[x]
                          THEN (queued[x] \ {Blocked}) \cup {p} ELSE queued[x]]
      BY <1>3 DEF Requeue, OwnHead
    <2>2. /\ at'[t] = "waking" /\ memo'[t] = word[p]
          /\ \A u \in Task : u # t => at'[u] = at[u] /\ memo'[u] = memo[u]
      BY <2>1 DEF TypeOK
    <2>3. ASSUME NEW u \in Task, at'[u] = "lock"
          PROVE  Remote(u) = s /\ u # t /\ at[u] = "lock"
      <3>1. u # t /\ at[u] = "lock"
        BY <2>2, <2>3
      <3>2. Number(SideOf[u]) = Number(Other(s))
        BY <1>2, <1>3, <3>1 DEF RemoteNumber
      <3> QED BY <3>1, <3>2 DEF Remote
    <2>4. ASSUME NEW u \in Task, at'[u] = "lock"
          PROVE  /\ queued[u] = {} => queued'[u] = {}
                 /\ queued[u] # {} => Producer(Remote(u)) \in queued'[u] /\ todo[u] = {}
      <3>1. queued[u] = {} => queued'[u] = {}
        BY <2>1
      <3>2. ASSUME queued[u] # {} PROVE Producer(Remote(u)) \in queued'[u] /\ todo[u] = {}
        <4>1. /\ Blocked \in queued[u] \/ Producer(Remote(u)) \in queued[u]
              /\ todo[u] = {}
          BY <2>3, <2>4, <3>2 DEF FutexInv, LockerQueued
        <4>2. Remote(u) = s /\ Producer(Remote(u)) # Blocked
          BY <2>3, <2>4
        <4> QED BY <2>1, <4>1, <4>2
      <3> QED BY <3>1, <3>2
    <2>5. LockerQueued'
      BY <1>1, <2>3, <2>4 DEF FutexInv, LockerQueued
    <2>6. ToldIsPublished'
      <3>1. word[p] \in Nat
        BY <1>1 DEF TypeOK
      <3> QED BY <1>1, <2>1, <2>2, <3>1 DEF FutexInv, ToldIsPublished
    <2>7. MovedAhead'
      BY <1>1, <2>1, <2>3, <2>4 DEF FutexInv, MovedAhead
    <2> QED BY <2>5, <2>6, <2>7 DEF FutexInv
  <1>4. CASE word[Blocked] # RemoteNumber(s)
    <2>1. /\ at' = at /\ memo' = memo /\ queued' = queued
          /\ told' = [told EXCEPT ![s] = IF word[p] > @ THEN word[p] ELSE @]
      BY <1>4 DEF Requeue, Returned
    <2>2. ASSUME NEW u \in Task, at[u] = "lock" PROVE told'[Remote(u)] = told[Remote(u)]
      <3>1. Number(SideOf[u]) # Number(Other(s))
        BY <1>2, <1>4, <2>2 DEF RemoteNumber
      <3>2. Remote(u) # s
        BY <3>1 DEF Remote
      <3> QED BY <2>1, <3>2 DEF TypeOK
    <2>3. LockerQueued'
      BY <1>1, <2>1 DEF FutexInv, LockerQueued
    <2>4. ToldIsPublished'
      <3>1. \A r \in Side : told'[r] = told[r] \/ (r = s /\ told'[r] = word[p])
        BY <2>1 DEF TypeOK
      <3>2. word[p] \in Nat
        BY <1>1 DEF TypeOK
      <3> QED BY <1>1, <2>1, <3>1, <3>2 DEF FutexInv, ToldIsPublished
    <2>5. MovedAhead'
      BY <1>1, <2>1, <2>2 DEF FutexInv, MovedAhead
    <2> QED BY <2>3, <2>4, <2>5 DEF FutexInv
  <1> QED BY <1>3, <1>4

LEMMA WakeRequeuedFutex ==
  ASSUME TypeOK, Base, FutexInv, NEW t \in Task, WakeRequeued(t)
  PROVE  FutexInv'
  <1> USE TaskFacts, WordFacts, SideFacts
  <1> DEFINE s == SideOf[t]
             R == QueuedOn(Producer(s))
  <1>1. /\ Resume(R, {t}, "idle") /\ word' = word /\ memo' = memo /\ at[t] = "waking"
        /\ told' = [told EXCEPT ![s] = IF memo[t] > @ THEN memo[t] ELSE @]
    BY DEF WakeRequeued, Returned, OwnHead
  <1>2. \A u \in Task : u = t \/ u \in R => at'[u] \in {"idle", "unlock"}
    BY <1>1, ResumeAt DEF Ended
  <1>3. \A u \in Task : u # t /\ u \notin R =>
          /\ todo'[u] = todo[u] /\ queued'[u] = queued[u] /\ at'[u] = at[u]
          /\ slept'[u] = slept[u] /\ Producer(s) \notin queued[u]
    BY <1>1, ResumeAt DEF QueuedOn, Ended
  <1> HIDE DEF R
  <1>4. \A u \in Task : at'[u] \in {"lock", "waking"} => u # t /\ u \notin R
    BY <1>2
  <1>5. \A r \in Side : told'[r] = told[r] \/ (r = s /\ told'[r] = memo[t])
    BY <1>1 DEF TypeOK
  <1>6. LockerQueued'
    BY <1>3, <1>4 DEF FutexInv, LockerQueued
  <1>7. ToldIsPublished'
    BY <1>1, <1>3, <1>4, <1>5 DEF FutexInv, ToldIsPublished
  <1>8. MovedAhead'
    BY <1>1, <1>3, <1>4, <1>5 DEF FutexInv, MovedAhead
  <1> QED BY <1>6, <1>7, <1>8 DEF FutexInv

LEMMA ArmFutex ==
  ASSUME TypeOK, Base, Shape, FutexInv,
         NEW t \in Task, NEW w \in Word, NEW v \in 0 .. MaxHead + 2, Matches(t, w, v)
  PROVE  FutexInv'
  <1> USE TaskFacts, WordFacts, SideFacts
  <1>1. /\ at' = at /\ word' = word /\ memo' = memo /\ told' = told
        /\ <<w, v>> \in todo[t]
        /\ todo' = [todo EXCEPT ![t] = @ \ {<<w, v>>}]
        /\ queued' = [queued EXCEPT ![t] = @ \cup {w}]
        /\ slept' = [u \in Task |-> IF u = t THEN word[Producer(Remote(u))] ELSE slept[u]]
    BY DEF Matches, Arm
  <1>2. \A u \in Task : u # t =>
          todo'[u] = todo[u] /\ queued'[u] = queued[u] /\ slept'[u] = slept[u]
    BY <1>1 DEF TypeOK
  <1>3. /\ queued'[t] = queued[t] \cup {w} /\ todo'[t] = todo[t] \ {<<w, v>>}
        /\ slept'[t] = word[Producer(Remote(t))]
    BY <1>1 DEF TypeOK
  <1>4. at[t] = "lock" => w = Blocked /\ todo'[t] = {}
    <2>1. at[t] = "lock" => todo[t] \subseteq {<<Blocked, Number(SideOf[t])>>}
      BY DEF Shape, TodoIsWanted, Words
    <2>2. at[t] = "lock" => <<w, v>> = <<Blocked, Number(SideOf[t])>>
      BY <1>1, <2>1
    <2> QED BY <1>3, <2>1, <2>2
  <1>5. LockerQueued'
    BY <1>1, <1>2, <1>3, <1>4 DEF FutexInv, LockerQueued
  <1>6. ToldIsPublished'
    BY <1>1 DEF FutexInv, ToldIsPublished
  <1>7. MovedAhead'
    BY <1>1, <1>2, <1>3 DEF FutexInv, MovedAhead, ToldIsPublished
  <1> QED BY <1>5, <1>6, <1>7 DEF FutexInv

LEMMA FutexStep ==
  ASSUME ~IoUring, TypeOK, Base, Shape, LockAccounted, FutexInv, [Next]_vars
  PROVE  FutexInv'
  <1> USE TaskFacts, WordFacts, SideFacts
  <1>a. TypeOK'
    BY TypeStep
  <1>b. ASSUME at' = at, memo' = memo, todo' = todo, queued' = queued, slept' = slept,
               told' = told, \A s \in Side : word'[Producer(s)] >= word[Producer(s)]
        PROVE  FutexInv'
    <2>1. ASSUME NEW s \in Side, NEW n \in Nat, n <= word[Producer(s)]
          PROVE  n <= word'[Producer(s)]
      <3>1. word'[Producer(s)] \in Nat /\ word[Producer(s)] \in Nat
        BY <1>a DEF TypeOK
      <3> QED BY <1>b, <2>1, <3>1
    <2>2. (\A s \in Side : told[s] \in Nat) /\ \A u \in Task : memo[u] \in Nat
      BY DEF TypeOK
    <2>3. ToldIsPublished'
      BY <1>b, <2>1, <2>2 DEF FutexInv, ToldIsPublished
    <2>4. LockerQueued' /\ MovedAhead'
      BY <1>b DEF FutexInv, LockerQueued, MovedAhead
    <2> QED BY <2>3, <2>4 DEF FutexInv
  <1>1. CASE UNCHANGED vars
    BY <1>1, <1>b DEF vars, TypeOK
  <1>2. ASSUME NEW t \in Task, NEW w \in Word, NEW v \in 0 .. MaxHead + 2,
               Matches(t, w, v)
        PROVE  FutexInv'
    BY <1>2, ArmFutex
  <1>3. ASSUME Quiet PROVE FutexInv'
    <2>1. PICK R \in SUBSET Task, U \in SUBSET Task :
            /\ Ended(R, U, "idle") /\ \A t \in R : Waits(t)
            /\ \A t \in U : at[t] = "loaded" /\ t \notin R
      BY <1>3 DEF Quiet
    <2>2. /\ word' = word /\ slot' = slot /\ memo' = memo
          /\ passed' = passed /\ told' = told
      BY <1>3 DEF Quiet
    <2> QED BY <2>1, <2>2, ResumeFutex DEF Waits
  <1>k. ASSUME NEW x \in Waiter, KernelStep(x) PROVE FutexInv'
    BY <1>2, <1>3, <1>k, KernelQuiet
  <1>l. ASSUME NEW t \in Task, Cancel(t) PROVE FutexInv'
    BY <1>3, <1>l, CancelQuiet
  <1>4. ASSUME NEW s \in Side, Publish(s) PROVE FutexInv'
    <2>1. \A r \in Side : word'[Producer(r)] >= word[Producer(r)]
      BY <1>4 DEF Publish, TypeOK
    <2> QED BY <1>4, <2>1, <1>b DEF Publish, waits
  <1>5. ASSUME NEW s \in Side, Join(s) \/ Evict(s) PROVE FutexInv'
    BY <1>5, <1>b DEF Join, Evict, waits, TypeOK
  <1>6. ASSUME NEW t \in Task, NEW v \in {0, 1}, SetIndicator(t, v) PROVE FutexInv'
    <2>1. \A s \in Side : word'[Producer(s)] = word[Producer(s)]
      BY <1>6 DEF SetIndicator, TypeOK
    <2> QED BY <1>6, <2>1, MoveFutex DEF SetIndicator, Runs, Waits, waits
  <1>7. ASSUME NEW t \in Task, Announce(t) PROVE FutexInv'
    BY <1>7, ResumeFutex, ResumeAt DEF Announce, Waits
  <1>8. ASSUME NEW t \in Task, Lock(t) \/ Unlock(t) \/ LoadBlocked(t) PROVE FutexInv'
    <2>1. \A s \in Side : word'[Producer(s)] = word[Producer(s)]
      BY <1>8 DEF Lock, Unlock, LoadBlocked, TypeOK
    <2>2. /\ queued' = queued /\ todo' = todo /\ slept' = slept /\ told' = told /\ ~Waits(t)
          /\ \E pc \in {"guard", "idle", "loaded"} : at' = [at EXCEPT ![t] = pc]
          /\ \A u \in Task : u # t => memo'[u] = memo[u]
      BY <1>8 DEF Lock, Unlock, LoadBlocked, Runs, Waits, waits, TypeOK
    <2> QED BY <2>1, <2>2, MoveFutex
  <1>9. ASSUME NEW t \in Task, GuardWait(t) PROVE FutexInv'
    <2>1. todo'[t] # {} /\ \A u \in Task : u # t => todo'[u] = todo[u] /\ memo'[u] = memo[u]
      BY <1>9 DEF GuardWait, Begin, TypeOK
    <2> QED BY <1>9, <2>1, MoveFutex DEF GuardWait, Begin, Waits
  <1>10. ASSUME NEW t \in Task, NEW seen \in 0 .. MaxHead, WaitForMessage(t, seen)
         PROVE  FutexInv'
    <2>1. \A u \in Task : u # t => todo'[u] = todo[u] /\ memo'[u] = memo[u]
      BY <1>10 DEF WaitForMessage, Expected, Begin, TypeOK
    <2> QED BY <1>10, <2>1, MoveFutex DEF WaitForMessage, Expected, Begin, Runs, Waits
  <1>11. ASSUME NEW t \in Task, WaitForRemote(t) PROVE FutexInv'
    <2>1. \A u \in Task : u # t => todo'[u] = todo[u] /\ memo'[u] = memo[u]
      BY <1>11 DEF WaitForRemote, Begin, TypeOK
    <2> QED BY <1>11, <2>1, MoveFutex DEF WaitForRemote, Begin, Waits
  <1>12. ASSUME NEW t \in Task, Requeue(t) \/ WakeRequeued(t) PROVE FutexInv'
    BY <1>12, RequeueFutex, WakeRequeuedFutex
  <1>13. ASSUME NEW s \in Side, Leave(s) PROVE FutexInv'
    BY <1>13, ResumeFutex, ResumeAt DEF Leave
  <1>14. ASSUME NEW s \in Side, Crash(s) PROVE FutexInv'
    <2> DEFINE G == {t \in Task : SideOf[t] = s}
    <2>1. /\ Ended(G, G, "idle")
          /\ word' = word /\ memo' = memo /\ passed' = passed /\ told' = told
      BY <1>14, CrashEnds
    <2> HIDE DEF G
    <2> QED BY <2>1, ResumeFutex
  <1>15. ASSUME Reinit PROVE FutexInv'
    <2>1. /\ \A s \in Side : slot[s] # "client" /\ told'[s] = 0 /\ word'[Producer(s)] = 0
          /\ at' = at
      BY <1>15 DEF Reinit
    <2>2. \A t \in Task : at'[t] = "idle"
      BY <2>1 DEF Base, OnlyClients
    <2> QED BY <2>1, <2>2 DEF FutexInv, LockerQueued, ToldIsPublished, MovedAhead
  <1> QED
    BY <1>1, <1>k, <1>l, <1>4, <1>5, <1>6, <1>7, <1>8, <1>9, <1>10, <1>11, <1>12,
       <1>13, <1>14, <1>15
       DEF Next, TaskStep, Raised, WakeHead, WakeBlocked

(* With the wake of client.rs nobody sleeps with the lock through what was *)
(* told after it fell asleep: for any number of tasks on either side, and  *)
(* with several calls of wake under way, of which each may move, or wake,  *)
(* what another one has found.  Provided that exchanges do not fail        *)
(* spuriously: the wake looks for the number of the holder.                *)
THEOREM LockersAreMoved ==
  ASSUME ~IoUring, ~WeakFails PROVE Spec => []LockersWoken
  <1>1. Init => FutexInv
    BY TaskFacts, WordFacts DEF Init, FutexInv, LockerQueued, ToldIsPublished, MovedAhead
  <1>2. (TypeOK /\ Base /\ Shape) /\ LockAccounted /\ FutexInv /\ [Next]_vars => FutexInv'
    BY FutexStep
  <1>3. FutexInv => LockersWoken
    <2> SUFFICES ASSUME FutexInv, NEW t \in Task, Asleep(t), at[t] = "lock"
                 PROVE  told[Remote(t)] <= slept[t]
      BY DEF LockersWoken
    <2>1. queued[t] # {}
      BY DEF Asleep, FutexInv, LockerQueued
    <2> QED BY <2>1 DEF FutexInv, MovedAhead
  <1> QED BY <1>1, <1>2, <1>3, ShapeInvariance, LockIsAccounted, PTL DEF Spec

=============================================================================
