----------------------------- MODULE SimicsHost ----------------------------
(***************************************************************************)
(* The host side of an access: issue() of forward-receiver.c with use_rtl  *)
(* set, and simics_send_access_to_cosim() of dml_debug.c which it calls.   *)
(* Simics issues one access at a time and blocks in the call.              *)
(***************************************************************************)
EXTENDS NamedPipe

CONSTANT FdLimit   \* descriptors the process may still open when the first access comes

\* A descriptor is a non-negative int, so there are fewer than 2^31 of them.
ASSUME FdAssumption == /\ FdLimit \in Nat
                       /\ FdLimit < 2 * Modulus

VARIABLES
  host_pc,            \* "idle", "send": before write(2), "wait": in read(2) of the reply
  simics_packet_no,   \* number of the next access; an int that wraps as the field does
  send_pkt,           \* static buffers of forward-receiver.c
  reply_pkt,
  host_fds            \* descriptors open_client_pipe left open

hostVars == <<host_pc, simics_packet_no, send_pkt, reply_pkt, host_fds>>

HostTypeOK == /\ host_pc \in {"idle", "send", "wait"}
              /\ simics_packet_no \in 0 .. (Modulus - 1)
              /\ send_pkt \in Packet
              /\ reply_pkt \in Packet
              /\ host_fds \in 0 .. FdLimit

HostInit == /\ host_pc = "idle"
            /\ simics_packet_no = 1
            /\ send_pkt = ZeroPacket
            /\ reply_pkt = ZeroPacket
            /\ host_fds = 0

\* Mutant of CanOpenClientPipe: room for one pipe is taken for room for both.
CanOpenOnePipe == host_fds < FdLimit

\* open_client_pipe opens both client pipes, and no caller ever closes them.
CanOpenClientPipe == host_fds + 2 <= FdLimit

\* Mutant of StartAccess: issue() without the memset of the reply buffer.
StartAccessUncleared == \E rw \in {0, 1}, a \in Addr :
    /\ send_pkt' = [packet_number |-> simics_packet_no, r0w1 |-> rw, physical_address |-> a]
    /\ simics_packet_no' = (simics_packet_no + 1) % Modulus
    /\ UNCHANGED reply_pkt

\* Mutant of StartAccess: a counter wider than the field it is copied to.
StartAccessUnwrapped == \E rw \in {0, 1}, a \in Addr :
    /\ send_pkt' = [packet_number |-> simics_packet_no, r0w1 |-> rw, physical_address |-> a]
    /\ reply_pkt' = ZeroPacket
    /\ simics_packet_no' = simics_packet_no + 1

\* issue() clears and fills the buffers; simics_send_access_to_cosim takes the
\* next number before it tries to open the pipes.
StartAccess == \E rw \in {0, 1}, a \in Addr :
    /\ send_pkt' = [packet_number |-> simics_packet_no, r0w1 |-> rw, physical_address |-> a]
    /\ reply_pkt' = ZeroPacket
    /\ simics_packet_no' = (simics_packet_no + 1) % Modulus

\* Mutant of HostIssue: one of the two descriptors is closed after the access.
HostIssueClosesOne == /\ host_pc = "idle"
                      /\ CanOpenClientPipe
                      /\ StartAccess
                      /\ host_fds' = host_fds + 1
                      /\ host_pc' = "send"
                      /\ UNCHANGED pipe

\* Mutant of HostIssue: both descriptors are closed after the access.
HostIssueClosesBoth == /\ host_pc = "idle"
                       /\ CanOpenClientPipe
                       /\ StartAccess
                       /\ host_pc' = "send"
                       /\ UNCHANGED <<host_fds, pipe>>

\* The pipes open: the access is on its way to write(2).
HostIssue == /\ host_pc = "idle"
             /\ CanOpenClientPipe
             /\ StartAccess
             /\ host_fds' = host_fds + 2
             /\ host_pc' = "send"
             /\ UNCHANGED pipe

\* Mutant of HostIssueRefused: the error path closes everything the process opened.
HostIssueRefusedClosesAll == /\ host_pc = "idle"
                             /\ ~CanOpenClientPipe
                             /\ StartAccess
                             /\ host_fds' = 0
                             /\ UNCHANGED <<host_pc, pipe>>

\* A pipe does not open: -1 is returned, issue() ignores it and completes the
\* access with the cleared reply buffer.  A descriptor opened on the way is closed.
HostIssueRefused == /\ host_pc = "idle"
                    /\ ~CanOpenClientPipe
                    /\ StartAccess
                    /\ UNCHANGED <<host_pc, host_fds, pipe>>

\* simics_enque_request_client_tlp.
HostEnqueue == /\ host_pc = "send"
               /\ PipeWrite("request_client", send_pkt)
               /\ host_pc' = "wait"
               /\ UNCHANGED <<simics_packet_no, send_pkt, reply_pkt, host_fds>>

\* Mutant of HostDequeue: the read does not block.
HostDequeueNonBlocking == /\ host_pc = "wait"
                          /\ host_pc' = "idle"
                          /\ UNCHANGED <<pipe, simics_packet_no, send_pkt, reply_pkt, host_fds>>

\* simics_deque_reply_request_client_tlp: whatever reply is first is taken, and issue() returns.
HostDequeue == /\ host_pc = "wait"
               /\ PipeRead("reply_client")
               /\ reply_pkt' = PipeFirst("reply_client")
               /\ host_pc' = "idle"
               /\ UNCHANGED <<simics_packet_no, send_pkt, host_fds>>

HostNext == HostIssue \/ HostIssueRefused \/ HostEnqueue \/ HostDequeue
=============================================================================
