-------------------------------- MODULE Tlp --------------------------------
(***************************************************************************)
(* The transaction the whole relay moves around: simics_transaction_t of   *)
(* cxl_tlp_fifo.h.  packet_type, sim_type, data_size and the data bytes are *)
(* copied unchanged (or echoed) by every stage and are not told apart by   *)
(* any property, so a packet keeps the three fields that are.              *)
(***************************************************************************)
EXTENDS Naturals

CONSTANTS
  Addr,      \* physical addresses the host touches; 0 is one of them
  Modulus    \* packet_number is an unsigned int: 2^32 in the build

ASSUME TlpAssumption == /\ 0 \in Addr
                        /\ Modulus \in Nat \ {0, 1}

\* simics_transaction_t.
Packet == [packet_number : 0 .. (Modulus - 1), r0w1 : {0, 1}, physical_address : Addr]

\* A packet cleared by memset: what a reply buffer holds before anything is read into it.
ZeroPacket == [packet_number |-> 0, r0w1 |-> 0, physical_address |-> 0]

\* The transaction simics_dpi_response builds from the request the SystemVerilog
\* side copied: cleared first, then every field assigned except r0w1.
ReplyTo(req) == [packet_number |-> req.packet_number, r0w1 |-> 0,
                 physical_address |-> req.physical_address]
=============================================================================
