----------------------------- MODULE FifoServer ----------------------------
(***************************************************************************)
(* cxlrelayserver when CXL_RELAY_OVER_IP is not "yes": one thread moves    *)
(* requests from the client pipe to the server pipe and one moves replies  *)
(* back, each through a static buffer of its own.                          *)
(***************************************************************************)
EXTENDS NamedPipe

VARIABLES
  req_pc, req_buf,   \* cxl_server_fifo_access_thread and its simics_data
  rep_pc, rep_buf    \* cxl_rtl_to_host_reply_thread and its simics_data

serverVars == <<req_pc, req_buf, rep_pc, rep_buf>>

ServerTypeOK == /\ req_pc \in {"read", "write"} /\ req_buf \in Packet
                /\ rep_pc \in {"read", "write"} /\ rep_buf \in Packet

ServerInit == /\ req_pc = "read" /\ req_buf = ZeroPacket
              /\ rep_pc = "read" /\ rep_buf = ZeroPacket

\* Mutant of RequestRead: the thread goes round its loop and never reads.
RequestReadNever == /\ req_pc = "read"
                    /\ UNCHANGED <<pipe, serverVars>>

\* The request thread blocks in simics_deque_request_client_tlp ...
RequestRead == /\ req_pc = "read"
               /\ PipeRead("request_client")
               /\ req_buf' = PipeFirst("request_client")
               /\ req_pc' = "write"
               /\ UNCHANGED <<rep_pc, rep_buf>>

\* ... and hands the packet to DumpForSystemVerilogFifoInPut.
RequestWrite == /\ req_pc = "write"
                /\ PipeWrite("request_server", req_buf)
                /\ req_pc' = "read"
                /\ UNCHANGED <<req_buf, rep_pc, rep_buf>>

\* Mutant of ReplyRead: what is read does not reach the buffer.
ReplyReadUnfilled == /\ rep_pc = "read"
                     /\ PipeRead("reply_server")
                     /\ rep_pc' = "write"
                     /\ UNCHANGED <<req_pc, req_buf, rep_buf>>

\* The reply thread blocks in simics_deque_reply_request_server_tlp ...
ReplyRead == /\ rep_pc = "read"
             /\ PipeRead("reply_server")
             /\ rep_buf' = PipeFirst("reply_server")
             /\ rep_pc' = "write"
             /\ UNCHANGED <<req_pc, req_buf>>

\* Mutant of ReplyWrite: the write does not block, and the packet is dropped.
ReplyWriteDrops == /\ rep_pc = "write"
                   /\ rep_pc' = "read"
                   /\ UNCHANGED <<pipe, req_pc, req_buf, rep_buf>>

\* ... and enqueues the packet for the host.
ReplyWrite == /\ rep_pc = "write"
              /\ PipeWrite("reply_client", rep_buf)
              /\ rep_pc' = "read"
              /\ UNCHANGED <<req_pc, req_buf, rep_buf>>

ServerNext == RequestRead \/ RequestWrite \/ ReplyRead \/ ReplyWrite
=============================================================================
