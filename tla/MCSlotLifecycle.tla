-------------------------- MODULE MCSlotLifecycle --------------------------
(* Constants of SlotLifecycle for TLC. *)
EXTENDS SlotLifecycle, TLC

CONSTANTS p1, p2, p3, c1, c2, c3

AllSlots == Slot
AllButOne == Slot \ {<<2, "Right">>}
OwnPids == p1 :> c1 @@ p2 :> c2 @@ p3 :> c3
TwoPids == p1 :> c1 @@ p2 :> c2

(* Processes are alike, together with their pids, and so are descriptors.  *)
Rename(f) == f @@ [c \in Pid |-> PidOf[f[CHOOSE p \in Proc : PidOf[p] = c]]]
Symmetry == {Rename(f) @@ g : f \in Permutations(Proc), g \in Permutations(Fd)}
=============================================================================
