----------------------------- MODULE MCRingWait -----------------------------
(* Constants of RingWait for TLC. *)
EXTENDS RingWait, TLC

CONSTANTS l1, r1

OneEach == l1 :> "Left" @@ r1 :> "Right"
=============================================================================
