--------------------------- MODULE SharedBuffers ---------------------------
(***************************************************************************)
(* UnreliableIpRelay with a history of what each reader and reply thread   *)
(* read, to compare with what it sends.  The threads of one process read   *)
(* into one static buffer and send from it.                                *)
(***************************************************************************)
EXTENDS UnreliableIpRelay

VARIABLES
  rd_took,   \* the request each connection's host_request_read_thread has yet to send
  rt_took    \* the reply each connection's cxl_rtl_to_host_reply_thread has yet to send

hvars == <<uvars, rd_took, rt_took>>

\* A thread that leaves its read has taken what is in the buffer at that moment, and
\* holds it until it has sent it.
Taken(th, buf, took) ==
    took' = [k \in Conns |-> IF th'[k] # "send" THEN ZeroPacket
                             ELSE IF th[k] = "read" THEN buf' ELSE took[k]]

HInit == /\ UInit
         /\ rd_took = [k \in Conns |-> ZeroPacket]
         /\ rt_took = [k \in Conns |-> ZeroPacket]

HNext == UNext /\ Taken(rd, rd_buf, rd_took) /\ Taken(rt, rt_buf, rt_took)

HSpec == HInit /\ [][HNext]_hvars

-----------------------------------------------------------------------------
(* Properties *)

\* Each reader sends the request it read and each reply thread the reply it read,
\* although the threads of a process share one static buffer: a packet is overwritten
\* only when a connection broke and an access was abandoned while its reply was still to
\* come.  Either alone is harmless, since one access at a time keeps leftover threads
\* apart; a request never written leaves nothing behind to share.
SentAsTaken == \/ /\ \A k \in Senders(rd) : rd_buf = rd_took[k]
                  /\ \A k \in Senders(rt) : rt_buf = rt_took[k]
               \/ faults > 0 /\ abandoned > 0
=============================================================================
