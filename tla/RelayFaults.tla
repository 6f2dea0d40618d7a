---------------------------- MODULE RelayFaults ----------------------------
(***************************************************************************)
(* What goes wrong in cxlrelayserver and in the simulation on one machine: *)
(* a process dies and is started again, and a write(2) or read(2) of a     *)
(* pipe fails.  A FIFO keeps what it holds only while somebody has it      *)
(* open.                                                                   *)
(***************************************************************************)
EXTENDS FifoRelay

CONSTANTS
  FaultKinds,       \* the kinds of fault that happen: "crash", "write", "read"
  MaxRelayFaults    \* bound on how many

ASSUME RelayFaultsAssumption == /\ FaultKinds \subseteq {"crash", "write", "read"}
                                /\ MaxRelayFaults \in Nat

VARIABLES
  server_up,      \* whether cxlrelayserver runs
  relay_faults,   \* faults so far
  repeated        \* failed reads after which a thread passed its buffer on all the same

relayFaultVars == <<server_up, relay_faults, repeated>>

RelayFaultInit == server_up = TRUE /\ relay_faults = 0 /\ repeated = 0

RtlUp == rtl_pc # "finished"

Fault(kind) == /\ kind \in FaultKinds
               /\ relay_faults < MaxRelayFaults
               /\ relay_faults' = relay_faults + 1

\* The client pipes are open in the server and in a host that has made an access,
\* the server pipes in the server and in the simulation.
Surviving(server, rtl) ==
    [n \in PipeNames |->
        IF server \/ (IF n \in {"request_client", "reply_client"} THEN host_fds > 0 ELSE rtl)
        THEN pipe[n] ELSE << >>]

-----------------------------------------------------------------------------
(* cxlrelayserver *)

\* The server dies, with what its threads hold.
ServerCrash == /\ server_up
               /\ Fault("crash")
               /\ server_up' = FALSE
               /\ req_pc' = "read" /\ req_buf' = ZeroPacket
               /\ rep_pc' = "read" /\ rep_buf' = ZeroPacket
               /\ pipe' = Surviving(FALSE, RtlUp)
               /\ UNCHANGED <<hostVars, rtlVars, repeated>>

\* Mutant of ServerStart: the new server asks for the access again on the host's behalf.
ServerStartResends == /\ ~server_up
                      /\ server_up' = TRUE
                      /\ req_buf' = send_pkt
                      /\ req_pc' = IF host_pc = "wait" THEN "write" ELSE "read"
                      /\ UNCHANGED <<pipe, hostVars, rep_pc, rep_buf, rtlVars, relay_faults, repeated>>

\* The server is started again: both threads are back at their first read.
ServerStart == /\ ~server_up
               /\ server_up' = TRUE
               /\ UNCHANGED <<vars, relay_faults, repeated>>

\* write(2) of the request fails: a message, and the packet is gone.
RequestWriteFails == /\ server_up /\ req_pc = "write"
                     /\ Fault("write")
                     /\ req_pc' = "read"
                     /\ UNCHANGED <<pipe, hostVars, req_buf, rep_pc, rep_buf, rtlVars, server_up, repeated>>

\* write(2) of the reply fails: a message, and the packet is gone.
ReplyWriteFails == /\ server_up /\ rep_pc = "write"
                   /\ Fault("write")
                   /\ rep_pc' = "read"
                   /\ UNCHANGED <<pipe, hostVars, req_pc, req_buf, rep_buf, rtlVars, server_up, repeated>>

\* read(2) of a request fails: retval is not looked at, and the static buffer is
\* passed on with whatever it held.
RequestReadFails == /\ server_up /\ req_pc = "read"
                    /\ Fault("read")
                    /\ repeated' = repeated + 1
                    /\ req_pc' = "write"
                    /\ UNCHANGED <<pipe, hostVars, req_buf, rep_pc, rep_buf, rtlVars, server_up>>

\* read(2) of a reply fails: the same on the way back.
ReplyReadFails == /\ server_up /\ rep_pc = "read"
                  /\ Fault("read")
                  /\ repeated' = repeated + 1
                  /\ rep_pc' = "write"
                  /\ UNCHANGED <<pipe, hostVars, req_pc, req_buf, rep_buf, rtlVars, server_up>>

ServerFault == \/ ServerCrash \/ ServerStart \/ RequestWriteFails \/ ReplyWriteFails
               \/ RequestReadFails \/ ReplyReadFails

-----------------------------------------------------------------------------
(* The simulation *)

\* The simulation dies, with the request it works on.
RtlCrash == /\ RtlUp
            /\ Fault("crash")
            /\ rtl_pc' = "finished"
            /\ pipe' = Surviving(server_up, FALSE)
            /\ UNCHANGED <<hostVars, serverVars, rtl_rsp, server_up, repeated>>

\* Mutant of RtlStart: the new simulation takes up where the old one was.
RtlStartResumes == /\ ~RtlUp
                   /\ rtl_pc' = "respond"
                   /\ UNCHANGED <<pipe, hostVars, serverVars, rtl_rsp, relayFaultVars>>

\* It is started again and opens the pipes, which keep what they hold.
RtlStart == /\ ~RtlUp
            /\ rtl_pc' = "request"
            /\ rtl_rsp' = ZeroPacket
            /\ UNCHANGED <<pipe, hostVars, serverVars, relayFaultVars>>

\* read(2) fails: simics_dpi_request returns -1 and run() calls $finish; the
\* request, if there is one, stays in the pipe.
DpiRequestFails == /\ rtl_pc = "request"
                   /\ Fault("read")
                   /\ rtl_pc' = "finished"
                   /\ pipe' = Surviving(server_up, FALSE)
                   /\ UNCHANGED <<hostVars, serverVars, rtl_rsp, server_up, repeated>>

\* write(2) fails: simics_dpi_response returns -1, which run() does not look at.
DpiRespondFails == /\ rtl_pc = "respond"
                   /\ Fault("write")
                   /\ rtl_pc' = "request"
                   /\ UNCHANGED <<pipe, hostVars, serverVars, rtl_rsp, server_up, repeated>>

\* Packet number 0 ends the simulation, which may have been the last to have the
\* server pipes open.
RtlStops == /\ rtl_pc = "request"
            /\ pipe["request_server"] # << >>
            /\ PipeFirst("request_server").packet_number = 0
            /\ rtl_pc' = "finished"
            /\ pipe' = IF server_up THEN [pipe EXCEPT !["request_server"] = Tail(@)]
                                    ELSE Surviving(FALSE, FALSE)
            /\ UNCHANGED <<hostVars, serverVars, rtl_rsp, relayFaultVars>>

RtlFault == RtlCrash \/ RtlStart \/ DpiRequestFails \/ DpiRespondFails \/ RtlStops
=============================================================================
