--------------------------- MODULE SlotLifecycle ---------------------------
(***************************************************************************)
(* Who owns the slots of the rings: clients join and leave them, processes *)
(* crash, and the server's loop finds the crashed ones, evicts them and    *)
(* re-initialises rings without clients.                                   *)
(*                                                                         *)
(* src/src/data.rs (ClientSlot, RingHead::reinit_holding_as_server),       *)
(* src/src/client.rs (join, drop), src/src/server.rs (track_clients,       *)
(* reap_client, bring_up) and src/src/bin/server/main.rs (the loop and the *)
(* watcher tasks).  One step is one access to the owner word of a slot; the *)
(* server's loop is a single thread, the clients interleave with it.       *)
(*                                                                         *)
(* The operating system is modelled from its use: a process runs, then is  *)
(* a zombie until its parent waits for it; pidfd_open succeeds until then, *)
(* and a pidfd is readable from the exit on.  A pid may be used again by a *)
(* new process once the old one was waited for.                            *)
(***************************************************************************)
EXTENDS Integers, FiniteSets

CONSTANTS
  NRings,      \* rings 1 .. NRings, RingInfo in the order of the table
  Configured,  \* slots with a (negative) identifier in the configuration
  Proc,        \* client processes
  Pid,         \* their process ids
  PidOf,       \* the pid a process gets
  Fd,          \* descriptors the server may use to watch processes
  Open,        \* an owner word that advertises the slot (negative)
  Server,      \* an owner word of 0: the coordination authority's
  NoEntry,     \* no tracking data for a pid
  WeakFails    \* may compare_exchange_weak fail although the value matches?

Ring == 1 .. NRings
Side == {"Left", "Right"}
Slot == Ring \X Side

Entry == [fd : Fd, rings : SUBSET Slot]  \* ClientTrackingData

ASSUME LifecycleAssumption ==
  /\ NRings \in Nat \ {0}
  /\ Configured \subseteq Slot
  /\ PidOf \in [Proc -> Pid]
  /\ Open # Server /\ Open \notin Pid /\ Server \notin Pid
  /\ NoEntry \notin Entry
  /\ WeakFails \in BOOLEAN

VARIABLES
  owner,    \* shared: ClientSlot.owner
  held,     \* the slots each process has a client::Ring for
  status,   \* of each process
  tracker,  \* ServerTask.tracker: per pid a pidfd and slots
  watching, \* watcher tasks that wait for their pidfd to become readable
  queue,    \* the channel to the loop, with room for one
  server,   \* where the server's loop is, and its local variables
  used      \* history: slots joined since their ring was last re-initialised

clientVars == <<held, status>>
trackVars == <<tracker, watching, queue>>
vars == <<owner, clientVars, trackVars, server, used>>

(* TrackedClient, with the process its pidfd was opened for. *)
Tracked == [client : Pid, fd : Fd, proc : Proc]

Local == [pc : {"select", "reap", "walk", "check", "take", "reinit", "advertise"},
          at : Slot,          \* the slot the walk or bring_up has come to
          sawOpen : BOOLEAN,  \* open_lhs
          dead : Pid \cup {Server}, \* whom reap_client evicts, if anyone ...
          todo : SUBSET Slot] \* ... and from which slots, still

TypeOK ==
  /\ owner \in [Slot -> Pid \cup {Open, Server}]
  /\ held \in [Proc -> SUBSET Slot]
  /\ status \in [Proc -> {"unborn", "running", "zombie", "gone"}]
  /\ tracker \in [Pid -> Entry \cup {NoEntry}]
  /\ watching \subseteq Tracked
  /\ queue \subseteq Tracked
  /\ server \in Local
  /\ used \subseteq Slot

Dead(p) == status[p] \in {"zombie", "gone"}

First == <<1, "Left">>
At(pc, slot) == [pc |-> pc, at |-> slot, sawOpen |-> FALSE, dead |-> Server, todo |-> {}]

Init ==
  /\ owner = [s \in Slot |-> IF s \in Configured THEN Open ELSE Server]
  /\ held = [p \in Proc |-> {}]
  /\ status = [p \in Proc |-> "unborn"]
  /\ tracker = [c \in Pid |-> NoEntry]
  /\ watching = {}
  /\ queue = {}
  /\ server = At("select", First)
  /\ used = {}

-----------------------------------------------------------------------------
(* Client processes *)

Spawn(p) ==
  /\ status[p] = "unborn"
  /\ \A q \in Proc : PidOf[q] = PidOf[p] => status[q] \notin {"running", "zombie"}
  /\ status' = [status EXCEPT ![p] = "running"]
  /\ UNCHANGED <<owner, held, trackVars, server, used>>

(* Client::join: ClientSlot::insert swaps a negative owner for the own pid. *)
Join(p, s) ==
  /\ status[p] = "running" /\ s \notin held[p]
  /\ owner[s] = Open
  /\ owner' = [owner EXCEPT ![s] = PidOf[p]]
  /\ held' = [held EXCEPT ![p] = @ \cup {s}]
  /\ used' = used \cup {s}
  /\ UNCHANGED <<status, trackVars, server>>

(* Dropping the Ring: leave_as_owner_with_futex assigns 0 without looking. *)
Leave(p, s) ==
  /\ s \in held[p]
  /\ owner' = [owner EXCEPT ![s] = Server]
  /\ held' = [held EXCEPT ![p] = @ \ {s}]
  /\ UNCHANGED <<status, trackVars, server, used>>

(* A crash, or an exit that runs no destructor: the slots stay as they are. *)
Exit(p) ==
  /\ status[p] = "running"
  /\ status' = [status EXCEPT ![p] = "zombie"]
  /\ held' = [held EXCEPT ![p] = {}]
  /\ UNCHANGED <<owner, trackVars, server, used>>

ParentWaits(p) ==
  /\ status[p] = "zombie"
  /\ status' = [status EXCEPT ![p] = "gone"]
  /\ UNCHANGED <<owner, held, trackVars, server, used>>

-----------------------------------------------------------------------------
(* The watcher task of a tracked client: its pidfd became readable and the  *)
(* channel has room.  The runtime has one thread, so it only runs while the *)
(* loop awaits.  (An error of AsyncFd would end the watcher and leave the   *)
(* tracking data behind; it is left out.)                                   *)
Notify(w) ==
  /\ server.pc = "select"
  /\ w \in watching /\ Dead(w.proc)
  /\ queue = {}
  /\ queue' = {w}
  /\ watching' = watching \ {w}
  /\ UNCHANGED <<owner, clientVars, tracker, server, used>>

-----------------------------------------------------------------------------
(* The server's loop *)

(* wait_server came back with a WaitResult, whatever it says.  (With an     *)
(* error the program ends: the server then takes no step any more.)         *)
Wake ==
  /\ server.pc = "select"
  /\ server' = At("walk", First)
  /\ UNCHANGED <<owner, clientVars, trackVars, used>>

(* reaper.recv(), and reap_client up to its loop. *)
Receive(w) ==
  /\ server.pc = "select"
  /\ w \in queue
  /\ queue' = queue \ {w}
  /\ LET entry == tracker[w.client]
     IN  server' = IF entry = NoEntry THEN At("walk", First)
                   ELSE [At("reap", First) EXCEPT !.dead = w.client, !.todo = entry.rings]
  /\ tracker' = [tracker EXCEPT ![w.client] = NoEntry]
  /\ UNCHANGED <<owner, clientVars, watching, used>>

(* ClientSlot::leave for one of the slots, in the order of a hash set: the  *)
(* compare-exchange takes the slot from the dead client, or it fails, which *)
(* is ignored.                                                              *)
EvictsAnyone(s) == owner[s] # Server        \* mutant: no comparison
Evicts(s) == owner[s] = server.dead
GivesUp(s) == IF Evicts(s) THEN server.todo \ {s} ELSE {}  \* mutant: stops on Err
StillTodo(s) == server.todo \ {s}

Reap(s) ==
  /\ server.pc = "reap" /\ s \in server.todo
  /\ \/ Evicts(s) /\ owner' = [owner EXCEPT ![s] = Server]
     \/ (Evicts(s) => WeakFails) /\ UNCHANGED owner
  /\ server' = IF StillTodo(s) = {} THEN At("walk", First)
               ELSE [server EXCEPT !.todo = StillTodo(s)]
  /\ UNCHANGED <<clientVars, trackVars, used>>

(* The slot after s in the order of the table, and the last one.            *)
SkipsRight(s) == <<s[1] + 1, "Left">>         \* mutant
StopsShort == <<NRings, "Left">>              \* mutant: off by one
Last == <<NRings, "Right">>
Following(s) == IF s[2] = "Left" THEN <<s[1], "Right">> ELSE <<s[1] + 1, "Left">>

(* track_clients comes to a slot and, when a client has it, track_client    *)
(* adds it to the tracking data of the pid, opening a pidfd for a pid it    *)
(* does not know.  Opening fails without a process or a free descriptor;    *)
(* the client is then not tracked.                                          *)
Opens(c) == {p \in Proc : PidOf[p] = c /\ status[p] \in {"running", "zombie"}}
FreeFds == {f \in Fd : /\ \A c \in Pid : tracker[c] # NoEntry => tracker[c].fd # f
                      /\ \A w \in watching \cup queue : w.fd # f}

TracksAgain(c, s) ==                          \* mutant: not looked up first
  \E p \in Opens(c) : \E f \in FreeFds :
    /\ tracker' = [tracker EXCEPT ![c] = [fd |-> f, rings |-> {s}]]
    /\ watching' = watching \cup {[client |-> c, fd |-> f, proc |-> p]}
Track(c, s) ==
  \/ /\ tracker[c] # NoEntry
     /\ tracker' = [tracker EXCEPT ![c].rings = @ \cup {s}]
     /\ UNCHANGED watching
  \/ /\ tracker[c] = NoEntry
     /\ \E p \in Opens(c) : \E f \in FreeFds :
          /\ tracker' = [tracker EXCEPT ![c] = [fd |-> f, rings |-> {s}]]
          /\ watching' = watching \cup {[client |-> c, fd |-> f, proc |-> p]}
  \/ /\ tracker[c] = NoEntry
     /\ Opens(c) = {} \/ FreeFds = {}
     /\ UNCHANGED <<tracker, watching>>

Walk ==
  /\ server.pc = "walk"
  /\ LET s == server.at
     IN  /\ IF owner[s] \in Pid THEN Track(owner[s], s) ELSE UNCHANGED <<tracker, watching>>
         /\ server' = IF s = Last THEN At("check", First)
                      ELSE At("walk", Following(s))
  /\ UNCHANGED <<owner, clientVars, queue, used>>

(* bring_up, ring by ring.  `continue` goes to the next one. *)
Continue(r) == IF r = NRings THEN At("select", First) ELSE At("check", <<r + 1, "Left">>)

(* is_open_heuristically: no client on either side, and not both open. *)
Check ==
  /\ server.pc = "check"
  /\ LET s == server.at
         r == s[1]
     IN  server' =
           IF {r} \X Side \subseteq Configured /\ owner[s] \notin Pid
           THEN IF s[2] = "Left"
                THEN [At("check", <<r, "Right">>) EXCEPT !.sawOpen = owner[s] = Open]
                ELSE IF server.sawOpen /\ owner[s] = Open THEN Continue(r)
                     ELSE At("take", <<r, "Left">>)
           ELSE Continue(r)
  /\ UNCHANGED <<owner, clientVars, trackVars, used>>

(* take_for_server swaps a negative owner for 0 and fails for a client's. *)
TakesAnyone(s) == TRUE                        \* mutant: no filter
TakesOpen(s) == owner[s] = Open               \* mutant: Err(0) is an error
MayTake(s) == owner[s] \notin Pid
Take ==
  /\ server.pc = "take"
  /\ LET s == server.at
         r == s[1]
     IN  \/ /\ MayTake(s)
            /\ owner' = [owner EXCEPT ![s] = Server]
            /\ server' = IF s[2] = "Left" THEN At("take", <<r, "Right">>)
                         ELSE At("reinit", <<r, "Left">>)
         \/ /\ ~MayTake(s)
            /\ server' = Continue(r)
            /\ UNCHANGED owner
  /\ UNCHANGED <<clientVars, trackVars, used>>

(* reinit_holding_as_server: all counters, indicators and the lock are 0. *)
Reinit ==
  /\ server.pc = "reinit"
  /\ used' = used \ ({server.at[1]} \X Side)
  /\ server' = At("advertise", server.at)
  /\ UNCHANGED <<owner, clientVars, trackVars>>

(* ClientSlot::reinit swaps 0 for the configured identifier, left side      *)
(* first; the right side is not tried when the left one failed.             *)
Advertise ==
  /\ server.pc = "advertise"
  /\ LET s == server.at
         r == s[1]
     IN  /\ owner' = IF owner[s] = Server THEN [owner EXCEPT ![s] = Open] ELSE owner
         /\ server' = IF owner[s] = Server /\ s[2] = "Left"
                      THEN At("advertise", <<r, "Right">>) ELSE Continue(r)
  /\ UNCHANGED <<clientVars, trackVars, used>>

ServerStep ==
  \/ Wake
  \/ \E w \in queue : Receive(w)
  \/ \E s \in Slot : Reap(s)
  \/ Walk \/ Check \/ Take \/ Reinit \/ Advertise

ClientStep(p) ==
  \/ Spawn(p) \/ Exit(p) \/ ParentWaits(p)
  \/ \E s \in Slot : Join(p, s) \/ Leave(p, s)

Next ==
  \/ \E p \in Proc : ClientStep(p)
  \/ \E w \in watching : Notify(w)
  \/ ServerStep

Spec == Init /\ [][Next]_vars

(* The loop goes on, wait_server has a timeout.  select! polls its two  *)
(* branches in random order, so a message is received in the end, and the   *)
(* runtime polls every watcher task, which queue for the channel in order.  *)
Fairness ==
  /\ WF_vars(ServerStep)
  /\ SF_vars(\E w \in queue : Receive(w))
  /\ \A p \in Proc : SF_vars(\E w \in watching : w.proc = p /\ Notify(w))

FairSpec == Spec /\ Fairness

-----------------------------------------------------------------------------
(* While a client works with a ring the slot holds its own pid             *)
(* (leave_as_owner_with_futex: "the current value _must_ be our own PID"): *)
(* nobody is evicted alive, and so nobody's drop evicts another.           *)
HeldIsOwned == \A p \in Proc : \A s \in held[p] : owner[s] = PidOf[p]

(* reap_client's assertion "Being lied to about the client": when a message *)
(* arrives for a pid that is tracked, it is about the pidfd it is tracked   *)
(* with, even when pids are used again.                                     *)
NotLiedTo ==
  \A w \in queue : tracker[w.client] # NoEntry => tracker[w.client].fd = w.fd

(* The refinement: generations of a ring, each side used once in each.     *)
Lease == INSTANCE RingLease WITH
  Client <- Proc,
  offered <- {s \in Slot : owner[s] = Open},
  clients <- [s \in Slot |-> {p \in Proc : s \in held[p]}],
  used <- used

(* No client joins a side whose counters a former client has used, and no  *)
(* ring is reset while a client works with it.                             *)
ImplementsLease == Lease!Spec

(* A crashed client the server tracks loses its slots.                     *)
TrackedEvicted ==
  \A p \in Proc, s \in Slot :
    LET c == PidOf[p]
        stuck == Dead(p) /\ owner[s] = c /\ tracker[c] # NoEntry /\ s \in tracker[c].rings
    IN  stuck ~> owner[s] # c

(* So does a client that was not tracked when it crashed, unless its       *)
(* parent waits for it before the server has seen it, against              *)
(* track_clients: "It is the job of the server to, eventually, deactivate  *)
(* the slot entries of crashed processes".                                 *)
CrashedEvicted ==
  \A p \in Proc, s \in Slot :
    (status[p] = "zombie" /\ owner[s] = PidOf[p])
      ~> (owner[s] # PidOf[p] \/ status[p] = "gone")

(* A configured ring that no client uses is offered again: a slot that was *)
(* left does not stay closed unless the other side is in use.              *)
LeftReadvertised ==
  \A r \in Ring : {r} \X Side \subseteq Configured =>
    \A a, b \in Side : a # b =>
      (owner[<<r, a>>] = Server /\ owner[<<r, b>>] \notin Pid)
        ~> (owner[<<r, a>>] # Server \/ owner[<<r, b>>] \in Pid)

-----------------------------------------------------------------------------
(* The condition under which a slot is safe with its client: no pid is     *)
(* given to a second process.                                              *)
PidsUnique == \A p, q \in Proc : PidOf[p] = PidOf[q] => p = q

=============================================================================
