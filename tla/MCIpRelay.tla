----------------------------- MODULE MCIpRelay -----------------------------
(* IpRelay for TLC. *)
EXTENDS IpRelay

MCAddr == 0 .. 1
MCOneAddr == {0}
=============================================================================
