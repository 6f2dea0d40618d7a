----------------------- MODULE MCUnreliableFifoRelay -----------------------
(* UnreliableFifoRelay for TLC. *)
EXTENDS UnreliableFifoRelay

MCAddr == 0 .. 1
=============================================================================
