-------------------------- MODULE MCIoUringSubmit --------------------------
(* Constants of IoUringSubmit for TLC. *)
EXTENDS IoUringSubmit

(* An index, and the error that stands for a timeout: of two bits, but for *)
(* -1.                                                                     *)
SomeResults == {1, -2}
=============================================================================
