---------------------------- MODULE RelayClient ----------------------------
(***************************************************************************)
(* cxlrelayclient (cxl_tlp_relay_client.c).  cxl_relay_client_thread       *)
(* connects, moves replies from the socket to the reply pipe, and starts a *)
(* host_request_read_thread on every connection; nobody joins the earlier  *)
(* ones, which block in read(2) of the request pipe and share one static   *)
(* buffer.                                                                 *)
(*                                                                         *)
(* The client opens nothing but its log, its pipes and one socket at a     *)
(* time, so socket(2) always returns the same descriptor: the copy each    *)
(* reader took of it denotes the socket open at the time of the send.      *)
(***************************************************************************)
EXTENDS NamedPipe, TcpLink

VARIABLES
  cli_pc,      \* "connect", "recv", "enqueue", "delay", "reopened", "killed"
  cli_sock,    \* "fresh": made but not connected, "connected": to nconn, "closed"
  cli_buf,     \* simics_data of cxl_relay_client_thread
  stop_request_read_thread,
  rd,          \* host_request_read_thread of each connection
  rd_buf       \* its static simics_data, shared by all of them

clientVars == <<cli_pc, cli_sock, cli_buf, stop_request_read_thread, rd, rd_buf>>

ClientTypeOK ==
    /\ cli_pc \in {"connect", "recv", "enqueue", "delay", "reopened", "killed"}
    /\ cli_sock \in {"fresh", "connected", "closed"}
    /\ cli_buf \in Packet
    /\ stop_request_read_thread \in {0, 1}
    /\ rd \in [Conns -> {"none", "check", "read", "send", "confirm", "gone"}]
    /\ rd_buf \in Packet

ClientInit == /\ cli_pc = "connect"
              /\ cli_sock = "fresh"
              /\ cli_buf = ZeroPacket
              /\ stop_request_read_thread = 0
              /\ rd = [k \in Conns |-> "none"]
              /\ rd_buf = ZeroPacket

-----------------------------------------------------------------------------
(* cxl_relay_client_thread *)

\* Mutant of CliConnect: the stop flag of the connection before is not cleared.
CliConnectStillStopped ==
              /\ cli_pc = "connect"
              /\ listening /\ nconn + 1 \in Conns
              /\ nconn' = nconn + 1
              /\ cli_sock' = "connected"
              /\ rd' = [rd EXCEPT ![nconn + 1] = "check"]
              /\ cli_pc' = "recv"
              /\ UNCHANGED <<pipe, c2s, s2c, ended, faults, listening, cli_buf,
                             stop_request_read_thread, rd_buf>>

\* CXL_Connect succeeds; the stop flag is cleared and a reader is spawned.
CliConnect == /\ cli_pc = "connect"
              /\ listening /\ nconn + 1 \in Conns
              /\ nconn' = nconn + 1
              /\ cli_sock' = "connected"
              /\ stop_request_read_thread' = 0
              /\ rd' = [rd EXCEPT ![nconn + 1] = "check"]
              /\ cli_pc' = "recv"
              /\ UNCHANGED <<pipe, c2s, s2c, ended, faults, listening, cli_buf, rd_buf>>

\* CXL_Recv returns a whole packet.
CliRecv == /\ cli_pc = "recv"
           /\ s2c[nconn] # << >>
           /\ cli_buf' = Head(s2c[nconn])
           /\ s2c' = [s2c EXCEPT ![nconn] = Tail(@)]
           /\ cli_pc' = "enqueue"
           /\ UNCHANGED <<pipe, nconn, c2s, ended, faults, listening, cli_sock,
                          stop_request_read_thread, rd, rd_buf>>

\* simics_enque_reply_client_tlp.
CliEnqueue == /\ cli_pc = "enqueue"
              /\ PipeWrite("reply_client", cli_buf)
              /\ cli_pc' = "recv"
              /\ UNCHANGED <<linkVars, cli_sock, cli_buf, stop_request_read_thread, rd, rd_buf>>

CliClose == /\ ClientCloses(nconn)
            /\ cli_sock' = "closed"
            /\ cli_pc' = "delay"
            /\ UNCHANGED <<pipe, nconn, listening, cli_buf, stop_request_read_thread, rd, rd_buf>>

\* CXL_Recv returns 0 or -1: the connection has ended and nothing is left to read.
CliRecvEnd == /\ cli_pc = "recv"
              /\ nconn \in ended
              /\ s2c[nconn] = << >>
              /\ CliClose
              /\ UNCHANGED faults

\* Mutant of CliRecvShort: part of a packet is taken for the whole.
CliRecvShortTaken == /\ cli_pc = "recv"
                     /\ s2c[nconn] # << >>
                     /\ faults < MaxFaults
                     /\ faults' = faults + 1
                     /\ s2c' = [s2c EXCEPT ![nconn] = Tail(@)]
                     /\ cli_pc' = "enqueue"
                     /\ UNCHANGED <<pipe, nconn, c2s, ended, listening, cli_sock, cli_buf,
                                    stop_request_read_thread, rd, rd_buf>>

\* CXL_Recv returns part of a packet: recv(2) is called once, and less than
\* SIMICS_PKT_SIZE is treated as an error.
CliRecvShort == /\ cli_pc = "recv"
                /\ s2c[nconn] # << >>
                /\ faults < MaxFaults
                /\ faults' = faults + 1
                /\ CliClose

\* Two seconds later a new socket is made ...
CliReopen == /\ cli_pc = "delay"
             /\ cli_sock' = "fresh"
             /\ cli_pc' = "reopened"
             /\ UNCHANGED <<pipe, linkVars, cli_buf, stop_request_read_thread, rd, rd_buf>>

\* ... and only then are the readers told to stop.
CliStopReaders == /\ cli_pc = "reopened"
                  /\ stop_request_read_thread' = 1
                  /\ cli_pc' = "connect"
                  /\ UNCHANGED <<pipe, linkVars, cli_sock, cli_buf, rd, rd_buf>>

-----------------------------------------------------------------------------
(* host_request_read_thread of connection k *)

RdGoto(k, st) == rd' = [rd EXCEPT ![k] = st]

\* Mutant of RdCheck: the thread goes round its loop and never reads.
RdCheckNever(k) == /\ rd[k] = "check"
                   /\ UNCHANGED <<pipe, linkVars, clientVars>>

\* The top of the loop: the only place where the stop flag is looked at.
RdCheck(k) == /\ rd[k] = "check"
              /\ RdGoto(k, IF stop_request_read_thread = 1 THEN "gone" ELSE "read")
              /\ UNCHANGED <<pipe, linkVars, cli_pc, cli_sock, cli_buf,
                             stop_request_read_thread, rd_buf>>

\* simics_deque_request_client_tlp: blocks until the host has written a request.
RdRead(k) == /\ rd[k] = "read"
             /\ PipeRead("request_client")
             /\ rd_buf' = PipeFirst("request_client")
             /\ RdGoto(k, "send")
             /\ UNCHANGED <<linkVars, cli_pc, cli_sock, cli_buf, stop_request_read_thread>>

ClientLinkUp == cli_sock = "connected" /\ nconn \notin ended

\* CXL_Send, first send(2): the packet is on the connection.
RdSend(k) == /\ rd[k] = "send"
             /\ ClientLinkUp
             /\ c2s' = [c2s EXCEPT ![nconn] = Append(@, rd_buf)]
             /\ RdGoto(k, "confirm")
             /\ UNCHANGED <<pipe, nconn, s2c, ended, faults, listening, cli_pc, cli_sock, cli_buf,
                            stop_request_read_thread, rd_buf>>

\* CXL_Send on a socket that is closed, or on a connection that has ended: the
\* packet goes nowhere, and all the thread does about it is a message.
RdSendLost(k) == /\ rd[k] = "send"
                 /\ ~ClientLinkUp /\ cli_sock # "fresh"
                 /\ RdGoto(k, "check")
                 /\ UNCHANGED <<pipe, linkVars, cli_pc, cli_sock, cli_buf,
                                stop_request_read_thread, rd_buf>>

\* Mutant of RdConfirm: when CXL_Send reports a failure the packet is sent again.
RdConfirmResends(k) == /\ rd[k] = "confirm"
                       /\ cli_sock # "fresh"
                       /\ RdGoto(k, "send")
                       /\ UNCHANGED <<pipe, linkVars, cli_pc, cli_sock, cli_buf,
                                      stop_request_read_thread, rd_buf>>

\* CXL_Send, second send(2), of no bytes: whatever it returns, the loop goes on.
RdConfirm(k) == /\ rd[k] = "confirm"
                /\ cli_sock # "fresh"
                /\ RdGoto(k, "check")
                /\ UNCHANGED <<pipe, linkVars, cli_pc, cli_sock, cli_buf,
                               stop_request_read_thread, rd_buf>>

\* A send on a socket that is not connected, or whose connection was reset,
\* raises SIGPIPE: the process dies and the kernel closes what it had open.
ClientKilled(k) ==
    /\ rd[k] \in {"send", "confirm"}
    /\ \/ cli_sock = "fresh"
       \/ cli_sock = "connected" /\ nconn \in ended
    /\ cli_pc' = "killed"
    /\ cli_sock' = "closed"
    /\ rd' = [j \in Conns |-> IF rd[j] = "none" THEN "none" ELSE "gone"]
    /\ IF cli_sock = "connected" THEN ClientCloses(nconn) ELSE UNCHANGED <<c2s, s2c, ended>>
    /\ UNCHANGED <<pipe, nconn, faults, listening, cli_buf, stop_request_read_thread, rd_buf>>

ClientThread == CliConnect \/ CliRecv \/ CliEnqueue \/ CliRecvEnd \/ CliReopen \/ CliStopReaders

ReaderThread(k) == RdCheck(k) \/ RdRead(k) \/ RdSend(k) \/ RdSendLost(k) \/ RdConfirm(k)
                   \/ ClientKilled(k)

ClientNext == ClientThread \/ CliRecvShort \/ \E k \in Conns : ReaderThread(k)
=============================================================================
