---------------------------- MODULE MCRingQueue ----------------------------
(* Constants of RingQueue for TLC. *)
EXTENDS RingQueue

OnlyLeft == {"Left"}
=============================================================================
