---------------------------- MODULE MCFifoRelay ----------------------------
(* FifoRelay for TLC. *)
EXTENDS FifoRelay

MCAddr == 0 .. 2
=============================================================================
