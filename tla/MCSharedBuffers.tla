-------------------------- MODULE MCSharedBuffers --------------------------
(* SharedBuffers for TLC. *)
EXTENDS SharedBuffers

MCOneAddr == {0}
=============================================================================
