------------------------ MODULE SlotLifecycleProofs ------------------------
(***************************************************************************)
(* Proofs about SlotLifecycle, for any number of rings, processes and      *)
(* descriptors and any configuration.  When pids are not used twice, a     *)
(* client keeps its slots until it leaves or ends, and the rings implement *)
(* RingLease; reap_client's assertion holds even when they are.            *)
(***************************************************************************)
EXTENDS SlotLifecycle, TLAPS

(* Every process a watcher watches has, and keeps, one watcher: what is    *)
(* tracked for its pid was opened with the watcher's pidfd.                *)
OneWatcher ==
  /\ \A w \in watching \cup queue :
       tracker[w.client] # NoEntry /\ tracker[w.client].fd = w.fd
  /\ \A v, w \in watching \cup queue : v.client = w.client => v = w
  /\ watching \cap queue = {}

(* Only dead processes are reported and evicted. *)
OnlyTheDead ==
  /\ \A w \in watching \cup queue : PidOf[w.proc] = w.client
  /\ \A w \in queue : Dead(w.proc)
  /\ server.pc = "reap" => \E p \in Proc : Dead(p) /\ PidOf[p] = server.dead

(* A process that works with a slot runs, and the slot holds its pid. *)
HolderRuns ==
  \A p \in Proc : \A s \in held[p] : status[p] = "running" /\ owner[s] = PidOf[p]

OpenUnused == \A s \in Slot : owner[s] = Open => s \notin used

(* What bring_up has established when it comes to a statement: the slots   *)
(* it has taken stay the server's, and are unused once the head is reset.  *)
BringUpOwns ==
  LET r == server.at[1]
      left == <<r, "Left">>
      right == <<r, "Right">>
  IN  /\ server.pc = "take" /\ server.at[2] = "Right" => owner[left] = Server
      /\ server.pc = "reinit" => owner[left] = Server /\ owner[right] = Server
      /\ server.pc = "advertise" => owner[right] = Server /\ right \notin used
      /\ server.pc = "advertise" /\ server.at[2] = "Left" =>
           owner[left] = Server /\ left \notin used

IInv ==
  /\ TypeOK
  /\ OnlyTheDead
  /\ HolderRuns
  /\ OpenUnused
  /\ BringUpOwns

-----------------------------------------------------------------------------
LEMMA SlotPair ==
  ASSUME NEW s \in Slot
  PROVE  s[1] \in Ring /\ s[2] \in Side /\ s = <<s[1], s[2]>>
BY DEF Slot

LEMMA FollowingType ==
  ASSUME NEW s \in Slot, s # Last
  PROVE  Following(s) \in Slot
BY LifecycleAssumption DEF Slot, Ring, Side, Last, Following

LEMMA AtType ==
  ASSUME NEW pc \in {"select", "reap", "walk", "check", "take", "reinit", "advertise"},
         NEW s \in Slot
  PROVE  At(pc, s) \in Local
BY DEF At, Local

LEMMA FirstType == First \in Slot
BY LifecycleAssumption DEF First, Slot, Ring, Side

LEMMA ContinueType ==
  ASSUME NEW r \in Ring
  PROVE  Continue(r) \in Local
<1>1. CASE r = NRings
  BY <1>1, AtType, FirstType DEF Continue
<1>2. CASE r # NRings
  <2>1. <<r + 1, "Left">> \in Slot
    BY <1>2, LifecycleAssumption DEF Slot, Ring, Side
  <2> QED BY <1>2, <2>1, AtType DEF Continue
<1> QED BY <1>1, <1>2

-----------------------------------------------------------------------------
LEMMA TrackType ==
  ASSUME TypeOK, NEW c \in Pid, NEW s \in Slot, Track(c, s)
  PROVE  tracker' \in [Pid -> Entry \cup {NoEntry}] /\ watching' \subseteq Tracked
<1>0. tracker \in [Pid -> Entry \cup {NoEntry}] /\ watching \subseteq Tracked
  BY DEF TypeOK
<1>1. CASE tracker[c] # NoEntry
  <2>1. tracker' = [tracker EXCEPT ![c].rings = @ \cup {s}] /\ watching' = watching
    BY <1>1 DEF Track
  <2>2. tracker[c].fd \in Fd /\ tracker[c].rings \in SUBSET Slot
        /\ tracker[c] = [fd |-> tracker[c].fd, rings |-> tracker[c].rings]
    BY <1>0, <1>1 DEF Entry
  <2>3. [tracker[c] EXCEPT !.rings = @ \cup {s}]
          = [fd |-> tracker[c].fd, rings |-> tracker[c].rings \cup {s}]
    BY <2>2
  <2>4. [tracker[c] EXCEPT !.rings = @ \cup {s}] \in Entry
    BY <2>2, <2>3 DEF Entry
  <2> QED BY <1>0, <2>1, <2>4
<1>2. CASE tracker[c] = NoEntry /\ UNCHANGED <<tracker, watching>>
  BY <1>0, <1>2
<1>3. CASE tracker[c] = NoEntry /\ ~UNCHANGED <<tracker, watching>>
  <2>1. PICK p \in Opens(c), f \in FreeFds :
          /\ tracker' = [tracker EXCEPT ![c] = [fd |-> f, rings |-> {s}]]
          /\ watching' = watching \cup {[client |-> c, fd |-> f, proc |-> p]}
    BY <1>3 DEF Track
  <2>2. p \in Proc /\ f \in Fd
    BY DEF Opens, FreeFds
  <2>3. [fd |-> f, rings |-> {s}] \in Entry
    BY <2>2 DEF Entry
  <2>4. [client |-> c, fd |-> f, proc |-> p] \in Tracked
    BY <2>2 DEF Tracked
  <2> QED BY <1>0, <2>1, <2>3, <2>4
<1> QED BY <1>1, <1>2, <1>3

LEMMA TypeStep ==
  ASSUME TypeOK, [Next]_vars
  PROVE  TypeOK'
<1> USE LifecycleAssumption DEF TypeOK
<1>1. CASE UNCHANGED vars
  BY <1>1 DEF vars, clientVars, trackVars
<1>2. ASSUME NEW p \in Proc, Spawn(p) PROVE TypeOK'
  BY <1>2 DEF Spawn, trackVars
<1>3. ASSUME NEW p \in Proc, NEW s \in Slot, Join(p, s) PROVE TypeOK'
  BY <1>3 DEF Join, trackVars
<1>4. ASSUME NEW p \in Proc, NEW s \in Slot, Leave(p, s) PROVE TypeOK'
  BY <1>4 DEF Leave, trackVars
<1>5. ASSUME NEW p \in Proc, Exit(p) PROVE TypeOK'
  BY <1>5 DEF Exit, trackVars
<1>6. ASSUME NEW p \in Proc, ParentWaits(p) PROVE TypeOK'
  BY <1>6 DEF ParentWaits, trackVars
<1>7. ASSUME NEW w \in watching, Notify(w) PROVE TypeOK'
  BY <1>7 DEF Notify, clientVars
<1>8. CASE Wake
  BY <1>8, AtType, FirstType DEF Wake, clientVars, trackVars
<1>9. ASSUME NEW w \in queue, Receive(w) PROVE TypeOK'
  <2>1. w.client \in Pid
    BY DEF Tracked
  <2>2. server' \in Local
    <3>1. CASE tracker[w.client] = NoEntry
      BY <1>9, <3>1, AtType, FirstType DEF Receive
    <3>2. CASE tracker[w.client] # NoEntry
      <4>1. tracker[w.client].rings \in SUBSET Slot
        BY <2>1, <3>2 DEF Entry
      <4> QED BY <1>9, <2>1, <3>2, <4>1, FirstType DEF Receive, At, Local
    <3> QED BY <3>1, <3>2
  <2> QED BY <1>9, <2>1, <2>2 DEF Receive, clientVars
<1>10. ASSUME NEW s \in Slot, Reap(s) PROVE TypeOK'
  <2>1. server' \in Local
    BY <1>10, AtType, FirstType DEF Reap, StillTodo, Local
  <2> QED BY <1>10, <2>1 DEF Reap, clientVars, trackVars
<1>11. CASE Walk
  <2> DEFINE s == server.at
  <2>1. s \in Slot
    BY DEF Local
  <2>2. server' \in Local
    BY <1>11, <2>1, AtType, FirstType, FollowingType DEF Walk
  <2>3. CASE owner[s] \in Pid /\ Track(owner[s], s)
    <3>1. tracker' \in [Pid -> Entry \cup {NoEntry}] /\ watching' \subseteq Tracked
      BY <2>1, <2>3, TrackType
    <3> QED BY <1>11, <2>2, <3>1 DEF Walk, clientVars
  <2>4. CASE UNCHANGED <<tracker, watching>>
    BY <1>11, <2>2, <2>4 DEF Walk, clientVars
  <2> QED BY <1>11, <2>3, <2>4 DEF Walk
<1>12. CASE Check
  <2>1. server.at \in Slot /\ server.at[1] \in Ring /\ <<server.at[1], "Left">> \in Slot
        /\ <<server.at[1], "Right">> \in Slot
    BY DEF Local, Slot, Side
  <2>2. [At("check", <<server.at[1], "Right">>) EXCEPT !.sawOpen = owner[server.at] = Open] \in Local
    BY <2>1 DEF At, Local
  <2>3. server' \in Local
    BY <1>12, <2>1, <2>2, AtType, ContinueType DEF Check
  <2> QED BY <1>12, <2>3 DEF Check, clientVars, trackVars
<1>13. CASE Take
  <2>1. server.at \in Slot /\ server.at[1] \in Ring /\ <<server.at[1], "Left">> \in Slot
        /\ <<server.at[1], "Right">> \in Slot
    BY DEF Local, Slot, Side
  <2>2. server' \in Local
    BY <1>13, <2>1, AtType, ContinueType DEF Take
  <2> QED BY <1>13, <2>1, <2>2 DEF Take, clientVars, trackVars
<1>14. CASE Reinit
  BY <1>14, AtType DEF Reinit, clientVars, trackVars, Local
<1>15. CASE Advertise
  <2>1. server.at \in Slot /\ server.at[1] \in Ring /\ <<server.at[1], "Left">> \in Slot
        /\ <<server.at[1], "Right">> \in Slot
    BY DEF Local, Slot, Side
  <2>2. server' \in Local
    BY <1>15, <2>1, AtType, ContinueType DEF Advertise
  <2> QED BY <1>15, <2>1, <2>2 DEF Advertise, clientVars, trackVars
<1> QED
  BY <1>1, <1>2, <1>3, <1>4, <1>5, <1>6, <1>7, <1>8, <1>9, <1>10, <1>11, <1>12,
     <1>13, <1>14, <1>15 DEF Next, ClientStep, ServerStep

(* The owner words, the tracking data and the loop's cursor keep their      *)
(* types: the walk and bring_up never run past the table of rings.          *)
THEOREM TypeCorrect == Spec => []TypeOK
<1>1. Init => TypeOK
  BY LifecycleAssumption, AtType, FirstType DEF Init, TypeOK
<1> QED BY <1>1, TypeStep, PTL DEF Spec

-----------------------------------------------------------------------------
LEMMA OneWatcherStep ==
  ASSUME TypeOK, OneWatcher, [Next]_vars
  PROVE  OneWatcher'
<1>1. CASE UNCHANGED trackVars
  BY <1>1 DEF trackVars, OneWatcher
<1>2. ASSUME NEW w \in watching, Notify(w) PROVE OneWatcher'
  <2>1. watching' \cup queue' = watching \cup queue /\ watching' \cap queue' = {}
    BY <1>2 DEF Notify, OneWatcher
  <2> QED BY <1>2, <2>1 DEF Notify, OneWatcher
<1>3. ASSUME NEW w \in queue, Receive(w) PROVE OneWatcher'
  <2>1. w \notin watching' \cup queue' /\ watching' \cup queue' \subseteq watching \cup queue
    BY <1>3 DEF Receive, OneWatcher
  <2>2. \A v \in watching' \cup queue' : v.client # w.client /\ v.client \in Pid
    BY <2>1 DEF OneWatcher, TypeOK, Tracked
  <2>3. \A v \in watching' \cup queue' : tracker'[v.client] = tracker[v.client]
    BY <1>3, <2>2 DEF Receive, TypeOK
  <2> QED BY <1>3, <2>1, <2>3 DEF Receive, OneWatcher
<1>4. CASE Walk
  <2> SUFFICES ASSUME NEW c \in Pid, NEW s \in Slot, Track(c, s) PROVE OneWatcher'
    BY <1>1, <1>4 DEF Walk, trackVars, TypeOK, Local
  <2>0. queue' = queue
    BY <1>4 DEF Walk
  <2>1. CASE tracker[c] # NoEntry
    <3>1. tracker' = [tracker EXCEPT ![c].rings = @ \cup {s}] /\ watching' = watching
      BY <2>1 DEF Track
    <3>2. tracker[c] \in Entry /\ tracker'[c].fd = tracker[c].fd
      BY <2>1, <3>1 DEF TypeOK, Entry
    <3>3. tracker'[c] # NoEntry
      BY <2>1, <2>0, <3>1, TrackType, <3>2, LifecycleAssumption DEF TypeOK, Entry
    <3>4. \A d \in Pid : d # c => tracker'[d] = tracker[d]
      BY <3>1 DEF TypeOK
    <3> QED BY <2>0, <3>1, <3>2, <3>3, <3>4 DEF OneWatcher, TypeOK, Tracked
  <2>2. CASE tracker[c] = NoEntry /\ UNCHANGED <<tracker, watching>>
    BY <1>1, <2>0, <2>2 DEF trackVars
  <2>3. CASE tracker[c] = NoEntry /\ ~UNCHANGED <<tracker, watching>>
    <3>1. PICK p \in Opens(c), f \in FreeFds :
            /\ tracker' = [tracker EXCEPT ![c] = [fd |-> f, rings |-> {s}]]
            /\ watching' = watching \cup {[client |-> c, fd |-> f, proc |-> p]}
      BY <2>3 DEF Track
    <3> DEFINE new == [client |-> c, fd |-> f, proc |-> p]
    <3>2. \A w \in watching \cup queue : w.client # c /\ w.client \in Pid
      BY <2>3 DEF OneWatcher, TypeOK, Tracked
    <3>3. tracker'[c] = [fd |-> f, rings |-> {s}] /\ tracker'[c] # NoEntry
      BY <3>1, LifecycleAssumption DEF TypeOK, FreeFds, Entry
    <3>4. \A d \in Pid : d # c => tracker'[d] = tracker[d]
      BY <3>1 DEF TypeOK
    <3>5. new \notin watching \cup queue
      BY <3>2
    <3>6. watching' \cap queue' = {}
      BY <2>0, <3>1, <3>5 DEF OneWatcher
    <3>7. watching' \cup queue' = (watching \cup queue) \cup {new}
      BY <2>0, <3>1
    <3>8. \A v \in watching' \cup queue' :
            tracker'[v.client] # NoEntry /\ tracker'[v.client].fd = v.fd
      BY <3>2, <3>3, <3>4, <3>7 DEF OneWatcher
    <3>9. \A v, w \in watching' \cup queue' : v.client = w.client => v = w
      BY <3>2, <3>7 DEF OneWatcher
    <3> QED BY <3>6, <3>8, <3>9 DEF OneWatcher
  <2> QED BY <2>1, <2>2, <2>3
<1> QED
  BY <1>1, <1>2, <1>3, <1>4
  DEF Next, ClientStep, ServerStep, vars, Spawn, Join, Leave, Exit, ParentWaits,
      Wake, Reap, Check, Take, Reinit, Advertise

(* reap_client is never lied to about the client, pids used twice or not.  *)
THEOREM AssertionHolds == Spec => []NotLiedTo
<1>1. Init => OneWatcher
  BY DEF Init, OneWatcher
<1>2. OneWatcher => NotLiedTo
  BY DEF OneWatcher, NotLiedTo
<1> QED BY <1>1, <1>2, OneWatcherStep, TypeCorrect, PTL DEF Spec

-----------------------------------------------------------------------------
(* The slots of a ring, where bring_up stands. *)
LEMMA RingSlots ==
  ASSUME TypeOK
  PROVE  /\ server.at[1] \in Ring
         /\ <<server.at[1], "Left">> \in Slot /\ <<server.at[1], "Right">> \in Slot
         /\ server.at = <<server.at[1], "Left">> \/ server.at = <<server.at[1], "Right">>
BY SlotPair DEF TypeOK, Local, Slot, Side

(* A step of a client takes no slot from the server and opens none.        *)
LEMMA ClientKeepsBringUp ==
  ASSUME IInv, UNCHANGED server, used' \ used \subseteq {s \in Slot : owner[s] = Open},
         \A s \in Slot : owner[s] = Server => owner'[s] = Server
  PROVE  BringUpOwns'
BY RingSlots, LifecycleAssumption DEF IInv, BringUpOwns

LEMMA InvClient ==
  ASSUME PidsUnique, IInv, TypeOK', NEW p \in Proc, ClientStep(p)
  PROVE  IInv'
<1> USE LifecycleAssumption DEF IInv
<1>0. \A q \in Proc : PidOf[q] \in Pid
  OBVIOUS
<1>1. ASSUME NEW s \in Slot, Join(p, s) PROVE IInv'
  <2> USE <1>1 DEF Join
  <2>1. OnlyTheDead' BY DEF OnlyTheDead, Dead, trackVars
  <2>2. HolderRuns'
    <3> SUFFICES ASSUME NEW q \in Proc, NEW t \in held'[q]
                 PROVE  status'[q] = "running" /\ owner'[t] = PidOf[q]
      BY DEF HolderRuns
    <3>1. CASE t = s
      <4>1. q = p
        BY <1>0, <3>1 DEF HolderRuns, TypeOK
      <4> QED BY <3>1, <4>1 DEF TypeOK
    <3>2. CASE t # s
      BY <3>2 DEF HolderRuns, TypeOK
    <3> QED BY <3>1, <3>2
  <2>3. OpenUnused' BY <1>0 DEF OpenUnused, TypeOK
  <2>4. BringUpOwns'
    BY ClientKeepsBringUp DEF TypeOK
  <2> QED BY <2>1, <2>2, <2>3, <2>4
<1>2. ASSUME NEW s \in Slot, Leave(p, s) PROVE IInv'
  <2> USE <1>2 DEF Leave
  <2>1. OnlyTheDead' BY DEF OnlyTheDead, Dead, trackVars
  <2>2. HolderRuns'
    <3> SUFFICES ASSUME NEW q \in Proc, NEW t \in held'[q]
                 PROVE  status'[q] = "running" /\ owner'[t] = PidOf[q]
      BY DEF HolderRuns
    <3>1. t # s /\ t \in held[q]
      BY DEF HolderRuns, PidsUnique, TypeOK
    <3> QED BY <3>1 DEF HolderRuns, TypeOK
  <2>3. OpenUnused' BY DEF OpenUnused, TypeOK
  <2>4. BringUpOwns'
    BY ClientKeepsBringUp DEF TypeOK
  <2> QED BY <2>1, <2>2, <2>3, <2>4
<1>3. CASE Spawn(p) \/ Exit(p) \/ ParentWaits(p)
  <2> USE <1>3 DEF Spawn, Exit, ParentWaits
  <2>1. UNCHANGED <<owner, trackVars, server, used>>
    OBVIOUS
  <2>2. \A q \in Proc : Dead(q) => Dead(q)'
    BY DEF Dead, TypeOK
  <2>3. OnlyTheDead'
    BY <2>1, <2>2 DEF OnlyTheDead, trackVars, TypeOK, Tracked
  <2>4. HolderRuns'
    BY DEF HolderRuns, TypeOK
  <2>5. OpenUnused' BY <2>1 DEF OpenUnused
  <2>6. BringUpOwns' BY <2>1 DEF BringUpOwns
  <2> QED BY <2>3, <2>4, <2>5, <2>6
<1> QED BY <1>1, <1>2, <1>3 DEF ClientStep

(* What the queue, the watchers and the walk do concerns no slot.          *)
LEMMA InvTracking ==
  ASSUME IInv, TypeOK',
         (\E w \in watching : Notify(w)) \/ Wake \/ (\E w \in queue : Receive(w)) \/ Walk
  PROVE  IInv'
<1> USE LifecycleAssumption DEF IInv
<1>1. UNCHANGED <<owner, held, status, used>>
  BY DEF Notify, Wake, Receive, Walk, clientVars
<1>2. HolderRuns' /\ OpenUnused'
  BY <1>1 DEF HolderRuns, OpenUnused
<1>3. server'.pc \in {"select", "walk", "reap", "check"}
  <2>1. CASE \E w \in watching : Notify(w)
    BY <2>1 DEF Notify
  <2>2. CASE Wake
    BY <2>2 DEF Wake, At
  <2>3. ASSUME NEW w \in queue, Receive(w) PROVE server'.pc \in {"walk", "reap"}
    BY <2>3 DEF Receive, At
  <2>4. CASE Walk
    BY <2>4 DEF Walk, At
  <2> QED BY <2>1, <2>2, <2>3, <2>4
<1>4. BringUpOwns'
  BY <1>3 DEF BringUpOwns
<1>5. OnlyTheDead'
  <2>1. CASE \E w \in watching : Notify(w)
    BY <1>1, <2>1 DEF OnlyTheDead, Notify, Dead
  <2>2. CASE Wake
    BY <1>1, <2>2 DEF OnlyTheDead, Wake, At, Dead, trackVars
  <2>3. ASSUME NEW w \in queue, Receive(w) PROVE OnlyTheDead'
    <3>1. server'.pc = "reap" => server'.dead = w.client
      BY <2>3 DEF Receive, At
    <3>2. w.proc \in Proc /\ Dead(w.proc) /\ PidOf[w.proc] = w.client
      BY <2>3 DEF OnlyTheDead, TypeOK, Tracked
    <3> QED BY <1>1, <2>3, <3>1, <3>2 DEF OnlyTheDead, Receive, Dead
  <2>4. CASE Walk
    <3>1. \A w \in watching' : PidOf[w.proc] = w.client
      <4>1. CASE watching' = watching
        BY <4>1 DEF OnlyTheDead
      <4>2. ASSUME watching' # watching
            PROVE  \E c \in Pid, p \in Proc, f \in Fd :
                     /\ PidOf[p] = c
                     /\ watching' = watching \cup {[client |-> c, fd |-> f, proc |-> p]}
        BY <2>4, <4>2 DEF Walk, Track, Opens, FreeFds
      <4> QED BY <4>1, <4>2 DEF OnlyTheDead
    <3>2. server'.pc # "reap" /\ queue' = queue
      BY <2>4 DEF Walk, At
    <3> QED BY <1>1, <3>1, <3>2 DEF OnlyTheDead, Dead
  <2> QED BY <2>1, <2>2, <2>3, <2>4
<1> QED BY <1>2, <1>4, <1>5

(* Evicting takes the slot of a process that is dead: nobody works with it. *)
LEMMA InvReap ==
  ASSUME PidsUnique, IInv, TypeOK', NEW s \in Slot, Reap(s)
  PROVE  IInv'
<1> USE LifecycleAssumption DEF IInv, Reap, clientVars
<1>1. PICK d \in Proc : Dead(d) /\ PidOf[d] = server.dead
  BY DEF OnlyTheDead
<1>2. \A p \in Proc : owner[s] = server.dead => s \notin held[p]
  BY <1>1 DEF HolderRuns, PidsUnique, Dead
<1>3. owner' = owner \/ (owner[s] = server.dead /\ owner' = [owner EXCEPT ![s] = Server])
  BY DEF Evicts
<1>4. HolderRuns'
  BY <1>2, <1>3 DEF HolderRuns, TypeOK
<1>5. OpenUnused'
  BY <1>3 DEF OpenUnused, TypeOK
<1>6. server'.pc \in {"walk", "reap"} /\ (server'.pc = "reap" => server'.dead = server.dead)
  BY DEF At, TypeOK, Local
<1>7. OnlyTheDead'
  BY <1>1, <1>6 DEF OnlyTheDead, Dead, trackVars
<1>8. BringUpOwns'
  BY <1>6 DEF BringUpOwns
<1> QED BY <1>4, <1>5, <1>7, <1>8

LEMMA ContinuePc ==
  ASSUME NEW r
  PROVE  Continue(r).pc \in {"select", "check"}
BY DEF Continue, At

LEMMA InvBringUp ==
  ASSUME IInv, TypeOK', Check \/ Take \/ Reinit \/ Advertise
  PROVE  IInv'
<1> USE LifecycleAssumption DEF IInv
<1> DEFINE r == server.at[1]
           left == <<r, "Left">>
           right == <<r, "Right">>
<1>0. /\ left \in Slot /\ right \in Slot /\ left # right
      /\ server.at \in Slot
      /\ server.at = left \/ server.at = right
      /\ left[1] = r /\ left[2] = "Left" /\ right[1] = r /\ right[2] = "Right"
  BY RingSlots DEF TypeOK, Local
<1>1. UNCHANGED <<held, status, trackVars>>
  BY DEF Check, Take, Reinit, Advertise, clientVars
<1>2. \A s \in Slot : owner[s] \in Pid => owner'[s] = owner[s]
  BY <1>0 DEF Check, Take, Reinit, Advertise, MayTake, TypeOK
<1>3. HolderRuns'
  BY <1>1, <1>2 DEF HolderRuns, TypeOK
<1>4. server'.pc \in {"select", "check", "take", "reinit", "advertise"}
  BY ContinuePc DEF Check, Take, Reinit, Advertise, At
<1>5. OnlyTheDead'
  BY <1>1, <1>4 DEF OnlyTheDead, Dead, trackVars
<1>6. CASE Check
  <2>1. OpenUnused'
    BY <1>6 DEF Check, OpenUnused
  <2>2. server'.pc \in {"select", "check"} \/ server' = At("take", left)
    BY <1>6, ContinuePc DEF Check, At
  <2>3. BringUpOwns'
    BY <1>0, <2>2 DEF BringUpOwns, At
  <2> QED BY <1>3, <1>5, <2>1, <2>3
<1>7. CASE Take
  <2>1. OpenUnused'
    BY <1>0, <1>7 DEF Take, OpenUnused, TypeOK
  <2>2. \/ server'.pc \in {"select", "check"}
        \/ server' = At("take", right) /\ owner'[left] = Server
        \/ server' = At("reinit", left) /\ owner'[left] = Server /\ owner'[right] = Server
    BY <1>0, <1>7, ContinuePc DEF Take, BringUpOwns, TypeOK
  <2>3. BringUpOwns'
    BY <1>0, <2>2 DEF BringUpOwns, At
  <2> QED BY <1>3, <1>5, <2>1, <2>3
<1>8. CASE Reinit
  <2>1. OpenUnused'
    BY <1>8 DEF Reinit, OpenUnused
  <2>2. left \notin used' /\ right \notin used' /\ UNCHANGED owner
    BY <1>0, <1>8 DEF Reinit, Side
  <2>3. server' = At("advertise", server.at)
    BY <1>8 DEF Reinit
  <2>4. server'.at = server.at
    BY <2>3 DEF At
  <2>5. owner[left] = Server /\ owner[right] = Server
    BY <1>8 DEF Reinit, BringUpOwns
  <2>6. server'.pc = "advertise"
    BY <2>3 DEF At
  <2>7. BringUpOwns'
    BY <2>2, <2>4, <2>5, <2>6 DEF BringUpOwns
  <2> QED BY <1>3, <1>5, <2>1, <2>7
<1>9. CASE Advertise
  <2>1. owner[server.at] = Server /\ server.at \notin used /\ owner' = [owner EXCEPT ![server.at] = Open]
    BY <1>0, <1>9 DEF Advertise, BringUpOwns
  <2>2. OpenUnused'
    BY <1>9, <2>1 DEF Advertise, OpenUnused, TypeOK
  <2>3. \/ server'.pc \in {"select", "check"}
        \/ server.at = left /\ server' = At("advertise", right)
    BY <1>0, <1>9, ContinuePc DEF Advertise
  <2>4. server.at = left /\ server' = At("advertise", right)
          => owner'[right] = Server /\ right \notin used'
    BY <1>0, <1>9, <2>1 DEF Advertise, BringUpOwns, TypeOK
  <2>5. BringUpOwns'
    BY <1>0, <2>3, <2>4 DEF BringUpOwns, At
  <2> QED BY <1>3, <1>5, <2>2, <2>5
<1> QED BY <1>6, <1>7, <1>8, <1>9

LEMMA InvStep ==
  ASSUME PidsUnique, IInv, [Next]_vars
  PROVE  IInv'
<1>1. TypeOK'
  BY TypeStep DEF IInv
<1>2. CASE UNCHANGED vars
  BY <1>1, <1>2 DEF vars, clientVars, trackVars, IInv, OnlyTheDead, Dead, HolderRuns,
                    OpenUnused, BringUpOwns
<1> QED
  BY <1>1, <1>2, InvClient, InvTracking, InvReap, InvBringUp DEF Next, ServerStep

LEMMA InvInit == Init => IInv
<1> SUFFICES ASSUME Init PROVE IInv
  OBVIOUS
<1>1. TypeOK
  BY LifecycleAssumption, AtType, FirstType DEF Init, TypeOK
<1>2. server.pc = "select"
  BY DEF Init, At
<1> QED
  BY <1>1, <1>2 DEF Init, IInv, OnlyTheDead, HolderRuns, OpenUnused, BringUpOwns

LEMMA Invariance ==
  ASSUME PidsUnique
  PROVE  Spec => []IInv
BY InvInit, InvStep, PTL DEF Spec

(* Without pid reuse nobody is evicted alive: as long as a client has its  *)
(* Ring the slot holds its pid, which its drop relies on.                  *)
THEOREM NoLiveEviction ==
  ASSUME PidsUnique
  PROVE  Spec => []HeldIsOwned
<1>1. IInv => HeldIsOwned
  BY DEF IInv, HolderRuns, HeldIsOwned
<1> QED BY <1>1, Invariance, PTL

-----------------------------------------------------------------------------
LEMMA NobodyElses ==
  ASSUME IInv, NEW s \in Slot, owner[s] \notin Pid
  PROVE  \A p \in Proc : s \notin held[p]
BY LifecycleAssumption DEF IInv, HolderRuns

LEMMA LeaseSlots ==
  /\ Lease!Slot = Slot
  /\ \A r : Lease!SlotsOf(r) = {<<r, "Left">>, <<r, "Right">>}
BY DEF Lease!Slot, Slot, Side, Lease!SlotsOf

(* Who joins gets an unused side of its own; who leaves or ends releases.  *)
LEMMA LeaseClient ==
  ASSUME IInv, NEW p \in Proc, ClientStep(p)
  PROVE  Lease!Next \/ UNCHANGED Lease!vars
<1> USE LifecycleAssumption, LeaseSlots
<1>0. TypeOK /\ \A q \in Proc : PidOf[q] \in Pid
  BY DEF IInv
<1> DEFINE offered == {s \in Slot : owner[s] = Open}
           clients == [s \in Slot |-> {q \in Proc : s \in held[q]}]
<1>1. ASSUME NEW s \in Slot, Join(p, s) PROVE Lease!Join(s, p)
  <2>1. owner[s] = Open /\ s \notin used /\ \A q \in Proc : s \notin held[q]
    BY <1>1, NobodyElses DEF Join, IInv, OpenUnused
  <2>2. offered' = offered \ {s}
    BY <1>0, <1>1 DEF Join, TypeOK
  <2>3. clients' = [clients EXCEPT ![s] = {p}]
    <3>1. \A t \in Slot : t # s => clients'[t] = clients[t]
      BY <1>0, <1>1 DEF Join, TypeOK
    <3>2. clients'[s] = {p}
      BY <1>0, <1>1, <2>1 DEF Join, TypeOK
    <3> QED BY <3>1, <3>2
  <2> QED BY <1>1, <2>1, <2>2, <2>3 DEF Join, Lease!Join
<1>2. ASSUME NEW s \in Slot, Leave(p, s) PROVE Lease!Release(p, {s})
  <2>1. owner[s] = PidOf[p]
    BY <1>2 DEF Leave, IInv, HolderRuns
  <2>2. offered' = offered
    BY <1>0, <1>2, <2>1 DEF Leave, TypeOK
  <2>3. clients' = [t \in Slot |-> IF t \in {s} THEN clients[t] \ {p} ELSE clients[t]]
    BY <1>0, <1>2 DEF Leave, TypeOK
  <2> QED BY <1>2, <2>2, <2>3 DEF Leave, Lease!Release
<1>3. CASE Exit(p)
  <2>1. offered' = offered
    BY <1>3 DEF Exit
  <2>2. clients' = [t \in Slot |-> IF t \in Slot THEN clients[t] \ {p} ELSE clients[t]]
    BY <1>0, <1>3 DEF Exit, TypeOK
  <2>3. Lease!Release(p, Slot)
    BY <1>3, <2>1, <2>2 DEF Exit, Lease!Release
  <2> QED BY <2>3 DEF Lease!Next
<1>4. CASE Spawn(p) \/ ParentWaits(p)
  BY <1>4 DEF Spawn, ParentWaits, Lease!vars
<1>5. \A s \in Slot : {s} \in SUBSET Slot
  OBVIOUS
<1> QED BY <1>1, <1>2, <1>3, <1>4, <1>5 DEF ClientStep, Lease!Next

(* bring_up withdraws, renews and offers; the rest of the loop and the     *)
(* eviction of the dead is invisible.                                      *)
LEMMA LeaseServer ==
  ASSUME IInv, ServerStep
  PROVE  Lease!Next \/ UNCHANGED Lease!vars
<1> USE LifecycleAssumption, LeaseSlots
<1>0. /\ TypeOK /\ server.at \in Slot /\ server.at[1] \in Ring
      /\ server.at = <<server.at[1], "Left">> \/ server.at = <<server.at[1], "Right">>
      /\ <<server.at[1], "Left">> \in Slot /\ <<server.at[1], "Right">> \in Slot
  BY RingSlots DEF IInv, TypeOK, Local
<1> DEFINE offered == {s \in Slot : owner[s] = Open}
<1>1. CASE Wake \/ (\E w \in queue : Receive(w)) \/ Walk \/ Check
  BY <1>1 DEF Wake, Receive, Walk, Check, clientVars, Lease!vars
<1>2. ASSUME NEW s \in Slot, Reap(s) PROVE UNCHANGED Lease!vars
  <2>1. owner' = owner \/ (owner[s] \in Pid /\ owner' = [owner EXCEPT ![s] = Server])
    BY <1>2 DEF Reap, Evicts, IInv, OnlyTheDead
  <2>2. offered' = offered
    BY <1>0, <2>1 DEF TypeOK
  <2> QED BY <1>2, <2>2 DEF Reap, clientVars, Lease!vars
<1>3. CASE Take
  <2> PICK s \in Slot : s = server.at
    BY <1>0
  <2>1. CASE owner[s] = Open
    <3>1. offered' = offered \ {s}
      BY <1>0, <1>3, <2>1 DEF Take, MayTake, TypeOK
    <3>2. Lease!Withdraw(s)
      BY <1>0, <1>3, <2>1, <3>1 DEF Take, clientVars, Lease!Withdraw
    <3> QED BY <3>2 DEF Lease!Next
  <2>2. CASE owner[s] # Open
    <3>1. owner' = owner
      BY <1>0, <1>3, <2>2 DEF Take, MayTake, TypeOK
    <3> QED BY <1>3, <3>1 DEF Take, clientVars, Lease!vars
  <2> QED BY <2>1, <2>2
<1>4. CASE Reinit
  <2>1. \A s \in Lease!SlotsOf(server.at[1]) : s \in Slot /\ owner[s] = Server
    BY <1>0, <1>4 DEF Reinit, IInv, BringUpOwns
  <2>2. \A s \in Lease!SlotsOf(server.at[1]) : \A p \in Proc : s \notin held[p]
    BY <2>1, NobodyElses
  <2>3. used' = used \ Lease!SlotsOf(server.at[1])
    BY <1>4 DEF Reinit, Side, Lease!SlotsOf
  <2>4. Lease!Renew(server.at[1])
    BY <1>4, <2>1, <2>2, <2>3 DEF Reinit, clientVars, Lease!Renew
  <2> QED BY <1>0, <2>4 DEF Lease!Next
<1>5. CASE Advertise
  <2> PICK s \in Slot : s = server.at
    BY <1>0
  <2>1. owner[s] = Server /\ s \notin used
    BY <1>0, <1>5 DEF Advertise, IInv, BringUpOwns
  <2>2. \A p \in Proc : s \notin held[p]
    BY <1>0, <2>1, NobodyElses
  <2>3. offered' = offered \cup {s}
    BY <1>0, <1>5, <2>1 DEF Advertise, TypeOK
  <2>4. Lease!Offer(s)
    BY <1>0, <1>5, <2>1, <2>2, <2>3 DEF Advertise, clientVars, Lease!Offer
  <2> QED BY <2>4 DEF Lease!Next
<1> QED BY <1>1, <1>2, <1>3, <1>4, <1>5 DEF ServerStep

LEMMA LeaseStep ==
  ASSUME IInv, [Next]_vars
  PROVE  [Lease!Next]_(Lease!vars)
<1>1. CASE UNCHANGED vars
  BY <1>1 DEF vars, clientVars, Lease!vars
<1>2. CASE \E w \in watching : Notify(w)
  BY <1>2 DEF Notify, clientVars, Lease!vars
<1> QED BY <1>1, <1>2, LeaseClient, LeaseServer DEF Next

(* Rings live in generations, each side used once in each, however clients *)
(* and the server interleave: the refinement TLC checks on small instances. *)
THEOREM Refinement ==
  ASSUME PidsUnique
  PROVE  Spec => ImplementsLease
<1>1. Init => Lease!Init
  BY LeaseSlots DEF Init, Lease!Init
<1> QED BY <1>1, Invariance, LeaseStep, PTL DEF Spec, ImplementsLease, Lease!Spec

(* What clients can rely on: a slot has one client, and one that can be    *)
(* joined was not joined since the head of its ring was reset.             *)
THEOREM SlotsAreExclusive ==
  ASSUME PidsUnique
  PROVE  Spec => []Lease!Exclusive
<1>1. Lease!Init => Lease!Exclusive
  BY DEF Lease!Init, Lease!Exclusive
<1>2. Lease!Exclusive /\ [Lease!Next]_(Lease!vars) => Lease!Exclusive'
  <2> SUFFICES ASSUME Lease!Exclusive, [Lease!Next]_(Lease!vars)
               PROVE  Lease!Exclusive'
    OBVIOUS
  <2> DEFINE free == {s \in Slot : owner[s] = Open}
             users == [s \in Slot |-> {p \in Proc : s \in held[p]}]
  <2>0. /\ Lease!Slot = Slot
        /\ \A s \in Slot : /\ \A c, d \in users[s] : c = d
                           /\ users[s] # {} => s \in used /\ s \notin free
                           /\ s \in free => s \notin used
    BY LeaseSlots DEF Lease!Exclusive
  <2>1. SUFFICES ASSUME NEW t \in Slot
                 PROVE  /\ \A c, d \in users'[t] : c = d
                        /\ users'[t] # {} => t \in used' /\ t \notin free'
                        /\ t \in free' => t \notin used'
    BY <2>0 DEF Lease!Exclusive
  <2>2. ASSUME NEW s \in Slot, NEW c \in Proc, Lease!Join(s, c)
        PROVE  /\ free' = free \ {s} /\ used' = used \cup {s}
               /\ users' = [users EXCEPT ![s] = {c}]
    BY <2>2 DEF Lease!Join
  <2>3. ASSUME NEW c \in Proc, NEW S \in SUBSET Slot, Lease!Release(c, S)
        PROVE  /\ users' = [s \in Slot |-> IF s \in S THEN users[s] \ {c} ELSE users[s]]
               /\ free' = free /\ used' = used
    BY <2>0, <2>3 DEF Lease!Release
  <2>4. ASSUME NEW s \in Slot, Lease!Withdraw(s)
        PROVE  free' = free \ {s} /\ users' = users /\ used' = used
    BY <2>4 DEF Lease!Withdraw
  <2>5. ASSUME NEW s \in Slot, Lease!Offer(s)
        PROVE  /\ users[s] = {} /\ s \notin used /\ free' = free \cup {s}
               /\ users' = users /\ used' = used
    BY <2>5 DEF Lease!Offer
  <2>6. ASSUME NEW r \in Ring, Lease!Renew(r)
        PROVE  used' \subseteq used /\ free' = free /\ users' = users
               /\ \A s \in used \ used' : users[s] = {} /\ s \notin free
    BY <2>6 DEF Lease!Renew
  <2>7. CASE UNCHANGED Lease!vars
    <3>1. users' = users /\ used' = used /\ free' = free
      BY <2>7 DEF Lease!vars
    <3> HIDE DEF users, free
    <3> QED BY <2>0, <3>1
  <2>8. CASE Lease!Next
    <3>1. \/ \E s \in Slot, c \in Proc : Lease!Join(s, c)
          \/ \E c \in Proc, S \in SUBSET Slot : Lease!Release(c, S)
          \/ \E s \in Slot : Lease!Withdraw(s) \/ Lease!Offer(s)
          \/ \E r \in Ring : Lease!Renew(r)
      BY <2>0, <2>8 DEF Lease!Next
    <3>2. users = [s \in Slot |-> users[s]]
      OBVIOUS
    <3> HIDE DEF users, free
    <3>3. CASE \E s \in Slot, c \in Proc : Lease!Join(s, c)
      BY <2>0, <2>2, <3>2, <3>3
    <3>4. CASE \E c \in Proc, S \in SUBSET Slot : Lease!Release(c, S)
      BY <2>0, <2>3, <3>4
    <3>5. CASE \E s \in Slot : Lease!Withdraw(s) \/ Lease!Offer(s)
      BY <2>0, <2>4, <2>5, <3>5
    <3>6. CASE \E r \in Ring : Lease!Renew(r)
      BY <2>0, <2>6, <3>6
    <3> QED BY <3>1, <3>3, <3>4, <3>5, <3>6
  <2> HIDE DEF users, free
  <2> QED BY <2>7, <2>8
<1>3. Spec => Lease!Spec
  BY Refinement DEF ImplementsLease
<1>4. Lease!Spec => []Lease!Exclusive
  BY <1>1, <1>2, PTL DEF Lease!Spec
<1> QED BY <1>3, <1>4, PTL

=============================================================================
