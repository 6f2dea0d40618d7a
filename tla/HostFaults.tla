----------------------------- MODULE HostFaults ----------------------------
(***************************************************************************)
(* What goes wrong in the host around the pipes and is not handled: the    *)
(* results of write(2) and read(2) that simics_send_access_to_cosim and    *)
(* issue() do not act on, and a Simics that ends and is started again while *)
(* the relay keeps the pipes, and what they hold, open.                    *)
(***************************************************************************)
EXTENDS SimicsHost

CONSTANT MaxHostFaults   \* bound on the faults counted below

ASSUME HostFaultsAssumption == MaxHostFaults \in Nat

VARIABLES
  abandoned,   \* accesses that stopped waiting for a reply still to come
  unsent       \* accesses that wait for a reply to a request never written

faultVars == <<abandoned, unsent>>

FaultTypeOK == abandoned \in Nat /\ unsent \in Nat /\ abandoned + unsent <= MaxHostFaults

FaultInit == abandoned = 0 /\ unsent = 0

MayFail == abandoned + unsent < MaxHostFaults

\* write(2) returns -1: unless verbose is set the host goes on and waits.
HostEnqueueFails == /\ host_pc = "send"
                    /\ MayFail
                    /\ unsent' = unsent + 1
                    /\ host_pc' = "wait"
                    /\ UNCHANGED <<pipe, simics_packet_no, send_pkt, reply_pkt, host_fds, abandoned>>

\* read(2) returns -1, interrupted by a signal: issue() ignores it and completes
\* the access with the cleared reply buffer.
HostDequeueFails == /\ host_pc = "wait"
                    /\ MayFail
                    /\ abandoned' = abandoned + 1
                    /\ host_pc' = "idle"
                    /\ UNCHANGED <<pipe, simics_packet_no, send_pkt, reply_pkt, host_fds, unsent>>

\* Simics ends, wherever it is, and starts again with its initial data; the
\* pipes keep what they hold, since nothing removes old packets from them.
HostRestart == /\ host_pc = "wait" => MayFail
               /\ abandoned' = IF host_pc = "wait" THEN abandoned + 1 ELSE abandoned
               /\ host_pc' = "idle"
               /\ simics_packet_no' = 1
               /\ send_pkt' = ZeroPacket
               /\ reply_pkt' = ZeroPacket
               /\ host_fds' = 0
               /\ UNCHANGED <<pipe, unsent>>

HostFault == HostEnqueueFails \/ HostDequeueFails \/ HostRestart
=============================================================================
