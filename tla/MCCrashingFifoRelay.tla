------------------------ MODULE MCCrashingFifoRelay ------------------------
(* CrashingFifoRelay for TLC. *)
EXTENDS CrashingFifoRelay

MCAddr == 0 .. 1
MCAllKinds == {"crash", "write", "read"}
=============================================================================
