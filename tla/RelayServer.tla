---------------------------- MODULE RelayServer ----------------------------
(***************************************************************************)
(* cxlrelayserver with CXL_RELAY_OVER_IP = "yes".  cxl_tcp_server_thread   *)
(* accepts, moves requests from the socket to the request pipe, and starts *)
(* a cxl_rtl_to_host_reply_thread on every connection, giving it a pointer *)
(* to its own variable cxl_clientsock.  Earlier reply threads that block   *)
(* in read(2) of the reply pipe are still there, and all of them share one *)
(* static buffer.                                                          *)
(*                                                                         *)
(* As in the client, accept(2) always returns the same descriptor: a copy  *)
(* of it denotes the connection open at the time of the send.              *)
(***************************************************************************)
EXTENDS NamedPipe, TcpLink

VARIABLES
  srv_pc,      \* "accept", "recv", "enqueue", "forget", "stop", "killed"
  accepted,    \* connections accepted so far; the last one is served in "recv", "enqueue"
  srv_buf,     \* simics_data of cxl_tcp_server_thread
  stop_reply_thread,
  rt,          \* cxl_rtl_to_host_reply_thread of each connection
  rt_fd,       \* whether the cxl_clientsock it read through the pointer was a descriptor
  rt_buf       \* its static simics_data, shared by all of them

rserverVars == <<srv_pc, accepted, srv_buf, stop_reply_thread, rt, rt_fd, rt_buf>>

RServerTypeOK ==
    /\ srv_pc \in {"accept", "recv", "enqueue", "forget", "stop", "killed"}
    /\ accepted \in 0 .. nconn
    /\ srv_buf \in Packet
    /\ stop_reply_thread \in {0, 1}
    /\ rt \in [Conns -> {"none", "start", "check", "read", "send", "confirm", "gone"}]
    /\ rt_fd \in [Conns -> BOOLEAN]
    /\ rt_buf \in Packet

RServerInit == /\ srv_pc = "accept"
               /\ accepted = 0
               /\ srv_buf = ZeroPacket
               /\ stop_reply_thread = 0
               /\ rt = [k \in Conns |-> "none"]
               /\ rt_fd = [k \in Conns |-> FALSE]
               /\ rt_buf = ZeroPacket

-----------------------------------------------------------------------------
(* cxl_tcp_server_thread *)

\* Mutant of SrvAccept: accept(2) is taken to have returned a connection when it has not.
SrvAcceptNothing ==
             /\ srv_pc = "accept"
             /\ accepted + 1 \in Conns
             /\ accepted' = accepted + 1
             /\ stop_reply_thread' = 0
             /\ rt' = [rt EXCEPT ![accepted + 1] = "start"]
             /\ srv_pc' = "recv"
             /\ UNCHANGED <<pipe, linkVars, srv_buf, rt_fd, rt_buf>>

\* CXL_AcceptClient returns; the stop flag is cleared and a reply thread is spawned.
SrvAccept == /\ srv_pc = "accept"
             /\ accepted < nconn
             /\ accepted' = accepted + 1
             /\ stop_reply_thread' = 0
             /\ rt' = [rt EXCEPT ![accepted + 1] = "start"]
             /\ srv_pc' = "recv"
             /\ UNCHANGED <<pipe, linkVars, srv_buf, rt_fd, rt_buf>>

\* CXL_Recv returns a whole packet.
SrvRecv == /\ srv_pc = "recv"
           /\ c2s[accepted] # << >>
           /\ srv_buf' = Head(c2s[accepted])
           /\ c2s' = [c2s EXCEPT ![accepted] = Tail(@)]
           /\ srv_pc' = "enqueue"
           /\ UNCHANGED <<pipe, nconn, s2c, ended, faults, listening, accepted, stop_reply_thread,
                          rt, rt_fd, rt_buf>>

\* Mutant of SrvEnqueue: the write does not block, and the packet is dropped.
SrvEnqueueDrops == /\ srv_pc = "enqueue"
                   /\ srv_pc' = "recv"
                   /\ UNCHANGED <<pipe, linkVars, accepted, srv_buf, stop_reply_thread, rt, rt_fd, rt_buf>>

\* DumpForSystemVerilogFifoInPut.
SrvEnqueue == /\ srv_pc = "enqueue"
              /\ PipeWrite("request_server", srv_buf)
              /\ srv_pc' = "recv"
              /\ UNCHANGED <<linkVars, accepted, srv_buf, stop_reply_thread, rt, rt_fd, rt_buf>>

\* CXL_CloseSocket, with cxl_clientsock still holding the number.
SrvClose == /\ ServerCloses(accepted)
            /\ srv_pc' = "forget"
            /\ UNCHANGED <<pipe, nconn, listening, accepted, srv_buf, stop_reply_thread, rt, rt_fd, rt_buf>>

\* CXL_Recv returns 0 or -1.
SrvRecvEnd == /\ srv_pc = "recv"
              /\ accepted \in ended
              /\ c2s[accepted] = << >>
              /\ SrvClose
              /\ UNCHANGED faults

\* CXL_Recv returns part of a packet.
SrvRecvShort == /\ srv_pc = "recv"
                /\ c2s[accepted] # << >>
                /\ faults < MaxFaults
                /\ faults' = faults + 1
                /\ SrvClose

\* Mutant of SrvForget: without the break the thread receives on the socket it closed.
SrvForgetGoesOn == /\ srv_pc = "forget"
                   /\ stop_reply_thread' = 0
                   /\ srv_pc' = "recv"
                   /\ UNCHANGED <<pipe, linkVars, accepted, srv_buf, rt, rt_fd, rt_buf>>

\* cxl_clientsock = -1; the stop flag is cleared, not set.
SrvForget == /\ srv_pc = "forget"
             /\ stop_reply_thread' = 0
             /\ srv_pc' = "stop"
             /\ UNCHANGED <<pipe, linkVars, accepted, srv_buf, rt, rt_fd, rt_buf>>

\* The end of the outer loop sets the stop flag, until the next connection.
SrvStop == /\ srv_pc = "stop"
           /\ stop_reply_thread' = 1
           /\ srv_pc' = "accept"
           /\ UNCHANGED <<pipe, linkVars, accepted, srv_buf, rt, rt_fd, rt_buf>>

\* Whether cxl_clientsock holds a descriptor, and whether that descriptor is open.
ClientSockSet  == srv_pc \in {"recv", "enqueue", "forget"}
ClientSockOpen == srv_pc \in {"recv", "enqueue"}

-----------------------------------------------------------------------------
(* cxl_rtl_to_host_reply_thread of connection k *)

RtGoto(k, st) == rt' = [rt EXCEPT ![k] = st]

\* The thread reads cxl_clientsock when it starts, whatever it is by then.
RtStart(k) == /\ rt[k] = "start"
              /\ rt_fd' = [rt_fd EXCEPT ![k] = ClientSockSet]
              /\ RtGoto(k, "check")
              /\ UNCHANGED <<pipe, linkVars, srv_pc, accepted, srv_buf, stop_reply_thread, rt_buf>>

\* Mutant of RtCheck: the shared buffer is cleared before every read, as simics_dpi_request does.
RtCheckClears(k) == /\ rt[k] = "check"
                    /\ RtGoto(k, IF stop_reply_thread = 1 THEN "gone" ELSE "read")
                    /\ rt_buf' = ZeroPacket
                    /\ UNCHANGED <<pipe, linkVars, srv_pc, accepted, srv_buf, stop_reply_thread, rt_fd>>

\* The top of the loop: the only place where the stop flag is looked at.
RtCheck(k) == /\ rt[k] = "check"
              /\ RtGoto(k, IF stop_reply_thread = 1 THEN "gone" ELSE "read")
              /\ UNCHANGED <<pipe, linkVars, srv_pc, accepted, srv_buf, stop_reply_thread,
                             rt_fd, rt_buf>>

\* simics_deque_reply_request_server_tlp: blocks until the device has replied.
RtRead(k) == /\ rt[k] = "read"
             /\ PipeRead("reply_server")
             /\ rt_buf' = PipeFirst("reply_server")
             /\ RtGoto(k, "send")
             /\ UNCHANGED <<linkVars, srv_pc, accepted, srv_buf, stop_reply_thread, rt_fd>>

ServerLinkUp(k) == rt_fd[k] /\ ClientSockOpen /\ accepted \notin ended

\* CXL_Send, first send(2).
RtSend(k) == /\ rt[k] = "send"
             /\ ServerLinkUp(k)
             /\ s2c' = [s2c EXCEPT ![accepted] = Append(@, rt_buf)]
             /\ RtGoto(k, "confirm")
             /\ UNCHANGED <<pipe, nconn, c2s, ended, faults, listening, srv_pc, accepted, srv_buf,
                            stop_reply_thread, rt_fd, rt_buf>>

\* CXL_Send on -1, on a closed descriptor or on a connection that has ended.
RtSendLost(k) == /\ rt[k] = "send"
                 /\ ~ServerLinkUp(k)
                 /\ RtGoto(k, "check")
                 /\ UNCHANGED <<pipe, linkVars, srv_pc, accepted, srv_buf, stop_reply_thread,
                                rt_fd, rt_buf>>

\* CXL_Send, second send(2), of no bytes: whatever it returns, the loop goes on.
RtConfirm(k) == /\ rt[k] = "confirm"
                /\ RtGoto(k, "check")
                /\ UNCHANGED <<pipe, linkVars, srv_pc, accepted, srv_buf, stop_reply_thread,
                               rt_fd, rt_buf>>

\* A send on a connection that was reset raises SIGPIPE.
ServerKilled(k) ==
    /\ rt[k] \in {"send", "confirm"}
    /\ rt_fd[k] /\ ClientSockOpen /\ accepted \in ended
    /\ srv_pc' = "killed"
    /\ rt' = [j \in Conns |-> IF rt[j] = "none" THEN "none" ELSE "gone"]
    /\ listening' = FALSE
    /\ ended' = ended \cup (accepted .. nconn)
    /\ c2s' = [j \in Conns |-> IF j \in accepted .. nconn THEN << >> ELSE c2s[j]]
    /\ s2c' \in {s2c, Emptied(s2c, accepted)}
    /\ UNCHANGED <<pipe, nconn, faults, accepted, srv_buf, stop_reply_thread, rt_fd, rt_buf>>

RServerThread == SrvAccept \/ SrvRecv \/ SrvEnqueue \/ SrvRecvEnd \/ SrvForget \/ SrvStop

ReplyThread(k) == RtStart(k) \/ RtCheck(k) \/ RtRead(k) \/ RtSend(k) \/ RtSendLost(k)
                  \/ RtConfirm(k) \/ ServerKilled(k)

RServerNext == RServerThread \/ SrvRecvShort \/ \E k \in Conns : ReplyThread(k)
=============================================================================
