--------------------------- MODULE IpRelayProofs ---------------------------
(* Theorems about IpRelay, for every Addr, Modulus, PipeCap, FdLimit and   *)
(* MaxFaults.                                                              *)
EXTENDS IpRelay, NamedPipeProofs, FiniteSetTheorems

-----------------------------------------------------------------------------
(* Types, and who serves a connection *)

\* TypeOK is not inductive alone: a thread that receives must have a connection
\* to receive on.  The rest is what EndsAreServed needs: the stop flag is down
\* while a connection is open, so the thread spawned with it is still there.
ClientServed ==
    /\ cli_sock = "connected" <=> cli_pc \in {"recv", "enqueue"}
    /\ cli_sock = "connected" => /\ nconn # 0
                                 /\ stop_request_read_thread = 0
                                 /\ rd[nconn] \notin {"none", "gone"}

ServerServed ==
    ClientSockOpen => /\ accepted # 0
                      /\ stop_reply_thread = 0
                      /\ rt[accepted] \notin {"none", "gone"}
                      /\ rt[accepted] = "start" \/ rt_fd[accepted]

\* Threads belong to connections that were made.
Spawned == /\ \A k \in Conns : rd[k] # "none" => k <= nconn
           /\ \A k \in Conns : rt[k] # "none" => k <= accepted

Served == TypeOK /\ ClientServed /\ ServerServed /\ Spawned

\* Connection numbers are positive numbers.
LEMMA ConnFacts == /\ Conns \subseteq Nat \ {0}
                   /\ \A n \in 1 .. (MaxFaults + 1) : n \in Conns
BY TcpAssumption DEF Conns

\* Emptying a queue keeps the queues well typed.
LEMMA EmptiedType ==
    ASSUME NEW q \in [Conns -> Seq(Packet)], NEW k
    PROVE  Emptied(q, k) \in [Conns -> Seq(Packet)]
<1>1. << >> \in Seq(Packet)
  OBVIOUS
<1> QED
  BY <1>1 DEF Emptied

\* So does sending a packet.
LEMMA SentType ==
    ASSUME NEW q \in [Conns -> Seq(Packet)], NEW k \in Conns, NEW p \in Packet
    PROVE  [q EXCEPT ![k] = Append(@, p)] \in [Conns -> Seq(Packet)]
<1>1. Append(q[k], p) \in Seq(Packet)
  OBVIOUS
<1> QED
  BY <1>1

\* The connection an end has open is one of Conns.
LEMMA OpenConns ==
    ASSUME TypeOK
    PROVE  /\ nconn \in Nat /\ accepted \in Nat /\ accepted <= nconn
           /\ nconn # 0 => nconn \in Conns
           /\ accepted # 0 => accepted \in Conns
           /\ accepted < nconn => accepted + 1 \in Conns
BY TcpAssumption DEF TypeOK, LinkTypeOK, RServerTypeOK, Conns

\* The relay starts without connections.
LEMMA InitServed == Init => Served
BY PacketFacts, TlpAssumption, FdAssumption, TcpAssumption
DEF Init, PipeInit, LinkInit, HostInit, ClientInit, RServerInit, RtlInit, Served, ClientServed,
    ServerServed, Spawned, ClientSockOpen, TypeOK, PipeTypeOK, LinkTypeOK, HostTypeOK,
    ClientTypeOK, RServerTypeOK, RtlTypeOK

\* The host keeps the types.
LEMMA HostType == TypeOK /\ HostStep => TypeOK'
<1> SUFFICES ASSUME TypeOK, HostStep PROVE TypeOK'
  OBVIOUS
<1>1. LinkTypeOK' /\ ClientTypeOK' /\ RServerTypeOK' /\ RtlTypeOK'
  BY DEF TypeOK, HostStep, LinkTypeOK, ClientTypeOK, RServerTypeOK, RtlTypeOK, linkVars,
         clientVars, rserverVars, rtlVars
<1>2. PipeTypeOK' /\ HostTypeOK'
  <2> USE PacketFacts, FdAssumption, TlpAssumption DEF TypeOK, HostTypeOK, PipeNames
  <2>1. ASSUME StartAccess
        PROVE send_pkt' \in Packet /\ reply_pkt' \in Packet /\ simics_packet_no' \in 0 .. (Modulus - 1)
    BY <2>1 DEF StartAccess, Packet
  <2>2. CASE HostIssue
    BY <2>1, <2>2 DEF HostIssue, CanOpenClientPipe, PipeTypeOK
  <2>3. CASE HostIssueRefused
    BY <2>1, <2>3 DEF HostIssueRefused, PipeTypeOK
  <2>4. CASE HostEnqueue
    BY <2>4, PipeWriteType DEF HostEnqueue
  <2>5. CASE HostDequeue
    BY <2>5, PipeReadType DEF HostDequeue
  <2> QED
    BY <2>2, <2>3, <2>4, <2>5 DEF HostStep, HostNext
<1> QED
  BY <1>1, <1>2 DEF TypeOK

\* So does the device.
LEMMA RtlType == TypeOK /\ RtlStep => TypeOK'
<1> SUFFICES ASSUME TypeOK, RtlStep PROVE TypeOK'
  OBVIOUS
<1>1. LinkTypeOK' /\ HostTypeOK' /\ ClientTypeOK' /\ RServerTypeOK'
  BY DEF TypeOK, RtlStep, LinkTypeOK, HostTypeOK, ClientTypeOK, RServerTypeOK, linkVars,
         hostVars, clientVars, rserverVars
<1>2. PipeTypeOK' /\ RtlTypeOK'
  <2> USE PacketFacts DEF TypeOK, RtlTypeOK, PipeNames
  <2>1. CASE DpiRequest
    BY <2>1, PipeReadType DEF DpiRequest
  <2>2. CASE DpiStop
    BY <2>2, PipeReadType DEF DpiStop
  <2>3. CASE DpiRespond
    BY <2>3, PipeWriteType DEF DpiRespond
  <2> QED
    BY <2>1, <2>2, <2>3 DEF RtlStep, RtlNext
<1> QED
  BY <1>1, <1>2 DEF TypeOK

\* The client keeps the types.
LEMMA ClientType == Served /\ ClientStep => TypeOK'
<1> SUFFICES ASSUME Served, ClientStep PROVE TypeOK'
  OBVIOUS
<1>1. HostTypeOK' /\ RtlTypeOK'
  BY DEF Served, TypeOK, ClientStep, HostTypeOK, RtlTypeOK, hostVars, rtlVars
<1>2. TypeOK /\ PipeTypeOK /\ LinkTypeOK /\ ClientTypeOK /\ RServerTypeOK
  BY DEF Served, TypeOK
<1>3. nconn' \in Nat /\ nconn <= nconn' => RServerTypeOK'
  BY <1>2, OpenConns DEF RServerTypeOK, ClientStep, rserverVars
<1>4. nconn' = nconn => RServerTypeOK'
  BY <1>2 DEF RServerTypeOK, ClientStep, rserverVars
<1>5. cli_sock = "connected" \/ cli_pc = "recv" => nconn # 0 /\ nconn \in Conns
  BY <1>2, OpenConns DEF Served, ClientServed
<1>6. PipeTypeOK' /\ LinkTypeOK' /\ ClientTypeOK' /\ RServerTypeOK'
  <2> USE <1>2, <1>4 DEF linkVars
  <2>1. CASE CliConnect
    <3>1. nconn + 1 \in Conns /\ nconn \in Nat /\ nconn' = nconn + 1
      BY <2>1, OpenConns DEF CliConnect
    <3>2. LinkTypeOK'
      BY <2>1, <3>1, TcpAssumption DEF CliConnect, LinkTypeOK, Conns
    <3>3. ClientTypeOK'
      BY <2>1, <3>1 DEF CliConnect, ClientTypeOK
    <3> QED
      BY <1>3, <2>1, <3>1, <3>2, <3>3 DEF CliConnect, PipeTypeOK
  <2>2. CASE CliRecv
    <3>1. s2c[nconn] \in Seq(Packet) /\ s2c[nconn] # << >>
      BY <1>5, <2>2 DEF CliRecv, LinkTypeOK
    <3>2. Head(s2c[nconn]) \in Packet /\ Tail(s2c[nconn]) \in Seq(Packet)
      BY <3>1
    <3> QED
      BY <2>2, <3>2 DEF CliRecv, PipeTypeOK, LinkTypeOK, ClientTypeOK
  <2>3. CASE CliEnqueue
    <3>1. PipeTypeOK'
      BY <2>3, PipeWriteType DEF CliEnqueue, PipeNames, ClientTypeOK
    <3> QED
      BY <2>3, <3>1 DEF CliEnqueue, LinkTypeOK, ClientTypeOK
  <2>4. ASSUME CliRecvEnd \/ CliRecvShort
        PROVE  PipeTypeOK' /\ LinkTypeOK' /\ ClientTypeOK' /\ RServerTypeOK'
    <3>1. CliClose /\ nconn \in 1 .. nconn /\ faults' \in 0 .. MaxFaults
      BY <1>5, <2>4, TcpAssumption, OpenConns DEF CliRecvEnd, CliRecvShort, LinkTypeOK
    <3>2. LinkTypeOK'
      BY <3>1, EmptiedType DEF CliClose, ClientCloses, LinkTypeOK
    <3> QED
      BY <3>1, <3>2 DEF CliClose, PipeTypeOK, ClientTypeOK
  <2>5. CASE CliReopen
    BY <2>5 DEF CliReopen, PipeTypeOK, LinkTypeOK, ClientTypeOK
  <2>6. CASE CliStopReaders
    BY <2>6 DEF CliStopReaders, PipeTypeOK, LinkTypeOK, ClientTypeOK
  <2>7. ASSUME NEW k \in Conns, ReaderThread(k)
        PROVE  PipeTypeOK' /\ LinkTypeOK' /\ ClientTypeOK' /\ RServerTypeOK'
    <3>1. CASE RdCheck(k)
      BY <3>1 DEF RdCheck, RdGoto, PipeTypeOK, LinkTypeOK, ClientTypeOK
    <3>2. CASE RdRead(k)
      <4>1. PipeTypeOK' /\ rd_buf' \in Packet
        BY <3>2, PipeReadType DEF RdRead, PipeNames
      <4> QED
        BY <3>2, <4>1 DEF RdRead, RdGoto, LinkTypeOK, ClientTypeOK
    <3>3. CASE RdSend(k)
      <4>1. c2s' \in [Conns -> Seq(Packet)]
        BY <1>5, <3>3, SentType DEF RdSend, ClientLinkUp, LinkTypeOK, ClientTypeOK
      <4> QED
        BY <3>3, <4>1 DEF RdSend, RdGoto, PipeTypeOK, LinkTypeOK, ClientTypeOK
    <3>4. CASE RdSendLost(k)
      BY <3>4 DEF RdSendLost, RdGoto, PipeTypeOK, LinkTypeOK, ClientTypeOK
    <3>5. CASE RdConfirm(k)
      BY <3>5 DEF RdConfirm, RdGoto, PipeTypeOK, LinkTypeOK, ClientTypeOK
    <3>6. CASE ClientKilled(k)
      <4>1. LinkTypeOK'
        <5>1. CASE cli_sock = "connected"
          <6>1. nconn \in 1 .. nconn
            BY <1>5, <5>1, OpenConns
          <6> QED
            BY <3>6, <5>1, <6>1, EmptiedType DEF ClientKilled, ClientCloses, LinkTypeOK
        <5>2. CASE cli_sock # "connected"
          BY <3>6, <5>2 DEF ClientKilled, LinkTypeOK
        <5> QED
          BY <5>1, <5>2
      <4> QED
        BY <3>6, <4>1 DEF ClientKilled, PipeTypeOK, ClientTypeOK
    <3> QED
      BY <2>7, <3>1, <3>2, <3>3, <3>4, <3>5, <3>6 DEF ReaderThread
  <2> QED
    BY <2>1, <2>2, <2>3, <2>4, <2>5, <2>6, <2>7 DEF ClientStep, ClientNext, ClientThread
<1> QED
  BY <1>1, <1>6 DEF TypeOK

\* A reader of the connection that is open stops only when the flag is up, and no
\* client step touches the server's threads.
LEMMA ClientKeepsServed == Served /\ ClientStep => (ClientServed /\ ServerServed /\ Spawned)'
<1> SUFFICES ASSUME Served, ClientStep PROVE (ClientServed /\ ServerServed /\ Spawned)'
  OBVIOUS
<1>1. TypeOK /\ ClientTypeOK /\ ClientServed /\ ServerServed /\ Spawned
  BY DEF Served, TypeOK
<1>2. /\ ServerServed'
      /\ \A k \in Conns : rt'[k] # "none" => k <= accepted'
  BY <1>1 DEF ClientStep, rserverVars, ServerServed, Spawned, ClientSockOpen
<1>3. /\ ClientServed'
      /\ \A k \in Conns : rd'[k] # "none" => k <= nconn'
  <2> USE <1>1, OpenConns DEF ClientTypeOK, ClientServed, Spawned, linkVars
  <2>1. CASE CliConnect
    <3>1. nconn \in Nat /\ nconn' = nconn + 1 /\ nconn + 1 \in Conns
      BY <2>1 DEF CliConnect
    <3>2. rd'[nconn + 1] = "check" /\ \A k \in Conns \ {nconn + 1} : rd'[k] = rd[k]
      BY <2>1, <3>1 DEF CliConnect
    <3>3. \A k \in Conns : k <= nconn => k <= nconn + 1
      BY <3>1, ConnFacts
    <3> QED
      BY <2>1, <3>1, <3>2, <3>3 DEF CliConnect
  <2>2. CASE CliRecv
    BY <2>2 DEF CliRecv
  <2>3. CASE CliEnqueue
    BY <2>3 DEF CliEnqueue
  <2>4. CASE CliRecvEnd \/ CliRecvShort
    BY <2>4 DEF CliRecvEnd, CliRecvShort, CliClose
  <2>5. CASE CliReopen
    BY <2>5 DEF CliReopen
  <2>6. CASE CliStopReaders
    BY <2>6 DEF CliStopReaders
  <2>7. ASSUME NEW k \in Conns, ReaderThread(k)
        PROVE  /\ ClientServed'
               /\ \A j \in Conns : rd'[j] # "none" => j <= nconn'
    <3>1. CASE ClientKilled(k)
      BY <3>1 DEF ClientKilled
    <3>2. CASE ~ClientKilled(k)
      <4>1. PICK st \in {"check", "read", "send", "confirm", "gone"} :
                /\ rd[k] # "none" /\ rd' = [rd EXCEPT ![k] = st]
                /\ st = "gone" => stop_request_read_thread = 1
        BY <2>7, <3>2 DEF ReaderThread, RdCheck, RdRead, RdSend, RdSendLost, RdConfirm, RdGoto
      <4>2. UNCHANGED <<nconn, cli_pc, cli_sock, stop_request_read_thread>>
        BY <2>7, <3>2 DEF ReaderThread, RdCheck, RdRead, RdSend, RdSendLost, RdConfirm
      <4> QED
        BY <4>1, <4>2
    <3> QED
      BY <3>1, <3>2
  <2> QED
    BY <2>1, <2>2, <2>3, <2>4, <2>5, <2>6, <2>7 DEF ClientStep, ClientNext, ClientThread
<1> QED
  BY <1>2, <1>3 DEF Spawned

\* The server keeps the types ...
LEMMA ServerType == Served /\ RServerStep => TypeOK'
<1> SUFFICES ASSUME Served, RServerStep PROVE TypeOK'
  OBVIOUS
<1>1. HostTypeOK' /\ ClientTypeOK' /\ RtlTypeOK'
  BY DEF Served, TypeOK, RServerStep, HostTypeOK, ClientTypeOK, RtlTypeOK, hostVars, clientVars, rtlVars
<1>2. TypeOK /\ PipeTypeOK /\ LinkTypeOK /\ RServerTypeOK
  BY DEF Served, TypeOK
<1>3. ClientSockOpen => accepted # 0 /\ accepted \in Conns /\ accepted \in 1 .. nconn
  BY <1>2, OpenConns DEF Served, ServerServed
<1>4. PipeTypeOK' /\ LinkTypeOK' /\ RServerTypeOK'
  <2> USE <1>2 DEF linkVars
  <2>1. CASE SrvAccept
    <3>1. accepted + 1 \in Conns /\ accepted + 1 \in 0 .. nconn
      BY <2>1, OpenConns DEF SrvAccept
    <3> QED
      BY <2>1, <3>1 DEF SrvAccept, PipeTypeOK, LinkTypeOK, RServerTypeOK
  <2>2. CASE SrvRecv
    <3>1. c2s[accepted] \in Seq(Packet) /\ c2s[accepted] # << >>
      BY <1>3, <2>2 DEF SrvRecv, LinkTypeOK, ClientSockOpen
    <3>2. Head(c2s[accepted]) \in Packet /\ Tail(c2s[accepted]) \in Seq(Packet)
      BY <3>1
    <3> QED
      BY <2>2, <3>2 DEF SrvRecv, PipeTypeOK, LinkTypeOK, RServerTypeOK
  <2>3. CASE SrvEnqueue
    <3>1. PipeTypeOK'
      BY <2>3, PipeWriteType DEF SrvEnqueue, PipeNames, RServerTypeOK
    <3> QED
      BY <2>3, <3>1 DEF SrvEnqueue, LinkTypeOK, RServerTypeOK
  <2>4. ASSUME SrvRecvEnd \/ SrvRecvShort
        PROVE  PipeTypeOK' /\ LinkTypeOK' /\ RServerTypeOK'
    <3>1. SrvClose /\ accepted \in 1 .. nconn /\ faults' \in 0 .. MaxFaults
      BY <1>3, <2>4, TcpAssumption DEF SrvRecvEnd, SrvRecvShort, LinkTypeOK, ClientSockOpen
    <3>2. LinkTypeOK'
      BY <3>1, EmptiedType DEF SrvClose, ServerCloses, LinkTypeOK
    <3> QED
      BY <3>1, <3>2 DEF SrvClose, PipeTypeOK, RServerTypeOK
  <2>5. CASE SrvForget
    BY <2>5 DEF SrvForget, PipeTypeOK, LinkTypeOK, RServerTypeOK
  <2>6. CASE SrvStop
    BY <2>6 DEF SrvStop, PipeTypeOK, LinkTypeOK, RServerTypeOK
  <2>7. ASSUME NEW k \in Conns, ReplyThread(k)
        PROVE  PipeTypeOK' /\ LinkTypeOK' /\ RServerTypeOK'
    <3>1. CASE RtStart(k)
      <4>1. ClientSockSet \in BOOLEAN
        BY DEF ClientSockSet
      <4> QED
        BY <3>1, <4>1 DEF RtStart, RtGoto, PipeTypeOK, LinkTypeOK, RServerTypeOK
    <3>2. CASE RtCheck(k)
      BY <3>2 DEF RtCheck, RtGoto, PipeTypeOK, LinkTypeOK, RServerTypeOK
    <3>3. CASE RtRead(k)
      <4>1. PipeTypeOK' /\ rt_buf' \in Packet
        BY <3>3, PipeReadType DEF RtRead, PipeNames
      <4> QED
        BY <3>3, <4>1 DEF RtRead, RtGoto, LinkTypeOK, RServerTypeOK
    <3>4. CASE RtSend(k)
      <4>1. s2c' \in [Conns -> Seq(Packet)]
        BY <1>3, <3>4, SentType DEF RtSend, ServerLinkUp, LinkTypeOK, RServerTypeOK
      <4> QED
        BY <3>4, <4>1 DEF RtSend, RtGoto, PipeTypeOK, LinkTypeOK, RServerTypeOK
    <3>5. CASE RtSendLost(k)
      BY <3>5 DEF RtSendLost, RtGoto, PipeTypeOK, LinkTypeOK, RServerTypeOK
    <3>6. CASE RtConfirm(k)
      BY <3>6 DEF RtConfirm, RtGoto, PipeTypeOK, LinkTypeOK, RServerTypeOK
    <3>7. CASE ServerKilled(k)
      <4>1. accepted \in 1 .. nconn
        BY <1>3, <3>7 DEF ServerKilled
      <4>2. ended' \subseteq 1 .. nconn'
        BY <3>7, <4>1, OpenConns DEF ServerKilled, LinkTypeOK
      <4>3. << >> \in Seq(Packet)
        OBVIOUS
      <4>4. c2s' \in [Conns -> Seq(Packet)]
        BY <3>7, <4>3 DEF ServerKilled, LinkTypeOK
      <4>5. LinkTypeOK'
        BY <3>7, <4>2, <4>4, EmptiedType DEF ServerKilled, LinkTypeOK
      <4>6. RServerTypeOK'
        BY <3>7 DEF ServerKilled, RServerTypeOK
      <4> QED
        BY <3>7, <4>5, <4>6 DEF ServerKilled, PipeTypeOK
    <3> QED
      BY <2>7, <3>1, <3>2, <3>3, <3>4, <3>5, <3>6, <3>7 DEF ReplyThread
  <2> QED
    BY <2>1, <2>2, <2>3, <2>4, <2>5, <2>6, <2>7 DEF RServerStep, RServerNext, RServerThread
<1> QED
  BY <1>1, <1>4 DEF TypeOK

\* ... and the reply thread of the connection it has open.
LEMMA ServerKeepsServed == Served /\ RServerStep => (ClientServed /\ ServerServed /\ Spawned)'
<1> SUFFICES ASSUME Served, RServerStep PROVE (ClientServed /\ ServerServed /\ Spawned)'
  OBVIOUS
<1>1. TypeOK /\ RServerTypeOK /\ ClientServed /\ ServerServed /\ Spawned
  BY DEF Served, TypeOK
<1>2. nconn' = nconn
  BY DEF RServerStep, RServerNext, RServerThread, SrvAccept, SrvRecv, SrvEnqueue, SrvRecvEnd,
         SrvRecvShort, SrvClose, SrvForget, SrvStop, ReplyThread, RtStart, RtCheck, RtRead, RtSend,
         RtSendLost, RtConfirm, ServerKilled, linkVars
<1>3. /\ ClientServed'
      /\ \A k \in Conns : rd'[k] # "none" => k <= nconn'
  BY <1>1, <1>2 DEF RServerStep, clientVars, ClientServed, Spawned
<1>4. /\ ServerServed'
      /\ \A k \in Conns : rt'[k] # "none" => k <= accepted'
  <2> USE <1>1, OpenConns DEF RServerTypeOK, ServerServed, Spawned, ClientSockOpen
  <2>1. CASE SrvAccept
    <3>1. accepted \in Nat /\ accepted' = accepted + 1 /\ accepted + 1 \in Conns
      BY <2>1 DEF SrvAccept
    <3>2. rt'[accepted + 1] = "start" /\ \A k \in Conns \ {accepted + 1} : rt'[k] = rt[k]
      BY <2>1, <3>1 DEF SrvAccept
    <3>3. \A k \in Conns : k <= accepted => k <= accepted + 1
      BY <3>1, ConnFacts
    <3> QED
      BY <2>1, <3>1, <3>2, <3>3 DEF SrvAccept
  <2>2. CASE SrvRecv
    BY <2>2 DEF SrvRecv
  <2>3. CASE SrvEnqueue
    BY <2>3 DEF SrvEnqueue
  <2>4. CASE SrvRecvEnd \/ SrvRecvShort
    BY <2>4 DEF SrvRecvEnd, SrvRecvShort, SrvClose
  <2>5. CASE SrvForget
    BY <2>5 DEF SrvForget
  <2>6. CASE SrvStop
    BY <2>6 DEF SrvStop
  <2>7. ASSUME NEW k \in Conns, ReplyThread(k)
        PROVE  /\ ServerServed'
               /\ \A j \in Conns : rt'[j] # "none" => j <= accepted'
    <3>1. CASE ServerKilled(k)
      BY <3>1 DEF ServerKilled
    <3>2. CASE RtStart(k)
      BY <3>2 DEF RtStart, RtGoto, ClientSockSet
    <3>3. CASE RtCheck(k) \/ RtRead(k) \/ RtSend(k) \/ RtSendLost(k) \/ RtConfirm(k)
      <4>1. PICK st \in {"check", "read", "send", "confirm", "gone"} :
                /\ rt[k] \notin {"none", "start"} /\ rt' = [rt EXCEPT ![k] = st]
                /\ st = "gone" => stop_reply_thread = 1
        BY <3>3 DEF RtCheck, RtRead, RtSend, RtSendLost, RtConfirm, RtGoto
      <4>2. UNCHANGED <<accepted, srv_pc, stop_reply_thread, rt_fd>>
        BY <3>3 DEF RtCheck, RtRead, RtSend, RtSendLost, RtConfirm
      <4> QED
        BY <4>1, <4>2
    <3> QED
      BY <2>7, <3>1, <3>2, <3>3 DEF ReplyThread
  <2> QED
    BY <2>1, <2>2, <2>3, <2>4, <2>5, <2>6, <2>7 DEF RServerStep, RServerNext, RServerThread
<1> QED
  BY <1>3, <1>4 DEF Spawned

\* Every step of the relay does.
LEMMA NextServed == Served /\ [Next]_vars => Served'
<1> SUFFICES ASSUME Served, [Next]_vars PROVE Served'
  OBVIOUS
<1> USE DEF Served, ClientServed, ServerServed, Spawned, ClientSockOpen
<1>1. CASE HostStep
  BY <1>1, HostType DEF HostStep, linkVars, clientVars, rserverVars
<1>2. CASE RtlStep
  BY <1>2, RtlType DEF RtlStep, linkVars, clientVars, rserverVars
<1>3. CASE NetworkStep
  <2>1. PICK k \in Conns : Cut(k)
    BY <1>3 DEF NetworkStep
  <2>2. LinkTypeOK'
    BY <2>1, EmptiedType, TcpAssumption DEF Cut, LinkTypeOK, TypeOK
  <2> QED
    BY <1>3, <2>1, <2>2 DEF NetworkStep, Cut, hostVars, clientVars, rserverVars, rtlVars, TypeOK,
       PipeTypeOK, HostTypeOK, ClientTypeOK, RServerTypeOK, RtlTypeOK
<1>4. CASE UNCHANGED vars
  BY <1>4 DEF vars, linkVars, hostVars, clientVars, rserverVars, rtlVars, TypeOK, LinkTypeOK,
     PipeTypeOK, HostTypeOK, ClientTypeOK, RServerTypeOK, RtlTypeOK
<1> QED
  BY <1>1, <1>2, <1>3, <1>4, ClientType, ClientKeepsServed, ServerType, ServerKeepsServed DEF Next

\* In every reachable state each open connection has a thread for either direction.
THEOREM ServedInvariance == Spec => []Served
BY InitServed, NextServed, PTL DEF Spec

\* Type correctness of the relay over TCP.
THEOREM IpTypeCorrect == Spec => []TypeOK
BY ServedInvariance, PTL DEF Served

\* However often connections end and are made again, the stop flags never stop the
\* threads of the last one.
THEOREM ConnectionsServed == Spec => []EndsAreServed
<1>1. Served => EndsAreServed
  BY OpenConns DEF Served, ClientServed, ServerServed, EndsAreServed, Alive
<1> QED
  BY <1>1, ServedInvariance, PTL
-----------------------------------------------------------------------------
(* Counting packets *)

\* Threads that hold a packet are finitely many.
LEMMA SendersFinite ==
    ASSUME NEW th
    PROVE  IsFiniteSet(Senders(th)) /\ Cardinality(Senders(th)) \in Nat
<1>1. IsFiniteSet(Conns)
  BY FS_Interval, TcpAssumption DEF Conns
<1>2. Senders(th) \in SUBSET Conns
  BY DEF Senders
<1>3. IsFiniteSet(Senders(th))
  BY <1>1, <1>2, FS_Subset
<1> QED
  BY <1>3, FS_CardinalityType

\* One thread goes from one place of its loop to another.
LEMMA SendersAfter ==
    ASSUME NEW th, NEW th2, NEW k \in Conns, \A j \in Conns \ {k} : th2[j] = th[j]
    PROVE  /\ th[k] # "send" /\ th2[k] # "send"
              => Cardinality(Senders(th2)) = Cardinality(Senders(th))
           /\ th[k] # "send" /\ th2[k] = "send"
              => Cardinality(Senders(th2)) = Cardinality(Senders(th)) + 1
           /\ th[k] = "send" /\ th2[k] # "send"
              => Cardinality(Senders(th2)) = Cardinality(Senders(th)) - 1
<1>1. CASE th[k] # "send" /\ th2[k] # "send"
  <2>1. Senders(th2) = Senders(th)
    BY <1>1 DEF Senders
  <2> QED
    BY <1>1, <2>1
<1>2. CASE th[k] # "send" /\ th2[k] = "send"
  <2>1. Senders(th2) = Senders(th) \cup {k} /\ k \notin Senders(th)
    BY <1>2 DEF Senders
  <2> QED
    BY <1>2, <2>1, SendersFinite, FS_AddElement
<1>3. CASE th[k] = "send" /\ th2[k] # "send"
  <2>1. Senders(th2) = Senders(th) \ {k} /\ k \in Senders(th)
    BY <1>3 DEF Senders
  <2> QED
    BY <1>3, <2>1, SendersFinite, FS_RemoveElement
<1> QED
  BY <1>1, <1>2, <1>3

\* Packets on the connections are finitely many.
LEMMA CarriedFinite ==
    ASSUME NEW q \in [Conns -> Seq(Packet)]
    PROVE  IsFiniteSet(Carried(q)) /\ Cardinality(Carried(q)) \in Nat
<1> DEFINE on == [k \in Conns |-> {k} \X DOMAIN q[k]]
           all == {{k} \X DOMAIN q[k] : k \in Conns}
<1>1. IsFiniteSet(Conns)
  BY FS_Interval, TcpAssumption DEF Conns
<1>2. \A k \in Conns : IsFiniteSet({k} \X DOMAIN q[k])
  <2> SUFFICES ASSUME NEW k \in Conns PROVE IsFiniteSet({k} \X DOMAIN q[k])
    OBVIOUS
  <2>1. DOMAIN q[k] = 1 .. Len(q[k]) /\ Len(q[k]) \in Int
    OBVIOUS
  <2>2. IsFiniteSet(DOMAIN q[k])
    BY <2>1, FS_Interval
  <2> QED
    BY <2>2, FS_Singleton, FS_Product
<1>3. on \in Surjection(Conns, all)
  BY DEF Surjection
<1>4. IsFiniteSet(all)
  BY <1>1, <1>3, FS_Surjection
<1>5. IsFiniteSet(Carried(q))
  BY <1>2, <1>4, FS_UNION DEF Carried
<1> QED
  BY <1>5, FS_CardinalityType

\* Which packets they are.
LEMMA CarriedIs ==
    ASSUME NEW q \in [Conns -> Seq(Packet)]
    PROVE  /\ Carried(q) \subseteq Conns \X Nat
           /\ \A k \in Conns, i \in Nat : <<k, i>> \in Carried(q) <=> 1 <= i /\ i <= Len(q[k])
<1>1. \A k \in Conns : DOMAIN q[k] = 1 .. Len(q[k]) /\ Len(q[k]) \in Nat
  OBVIOUS
<1>2. \A k \in Conns : {k} \X DOMAIN q[k] \subseteq Conns \X Nat
  BY <1>1
<1>3. \A k \in Conns, i \in Nat : <<k, i>> \in {k} \X DOMAIN q[k] <=> 1 <= i /\ i <= Len(q[k])
  BY <1>1
<1>4. \A k, j \in Conns, i \in Nat : <<k, i>> \in {j} \X DOMAIN q[j] => k = j
  OBVIOUS
<1> QED
  BY <1>2, <1>3, <1>4 DEF Carried

\* One queue with one packet more holds one packet more.
LEMMA CarriedLonger ==
    ASSUME NEW q \in [Conns -> Seq(Packet)], NEW longer \in [Conns -> Seq(Packet)],
           NEW k \in Conns, Len(longer[k]) = Len(q[k]) + 1,
           \A j \in Conns \ {k} : Len(longer[j]) = Len(q[j])
    PROVE  Cardinality(Carried(longer)) = Cardinality(Carried(q)) + 1
<1> DEFINE new == <<k, Len(q[k]) + 1>>
<1>1. Len(q[k]) \in Nat
  OBVIOUS
<1>2. new \in Conns \X Nat /\ new \notin Carried(q) /\ new \in Carried(longer)
  BY <1>1, CarriedIs
<1>3. ASSUME NEW j \in Conns, NEW i \in Nat, <<j, i>> # new
      PROVE  <<j, i>> \in Carried(longer) <=> <<j, i>> \in Carried(q)
  <2>1. CASE j # k
    BY <2>1, CarriedIs
  <2>2. CASE j = k
    <3>1. i # Len(q[k]) + 1
      BY <1>3, <2>2
    <3>2. 1 <= i /\ i <= Len(longer[j]) <=> 1 <= i /\ i <= Len(q[j])
      BY <1>1, <2>2, <3>1
    <3> QED
      BY <3>2, CarriedIs
  <2> QED
    BY <2>1, <2>2
<1> HIDE DEF new
<1>4. Carried(longer) = Carried(q) \cup {new}
  <2>1. Carried(longer) \subseteq Conns \X Nat /\ Carried(q) \subseteq Conns \X Nat
    BY CarriedIs
  <2>2. ASSUME NEW c \in Conns \X Nat, c # new PROVE c \in Carried(longer) <=> c \in Carried(q)
    <3>1. PICK j \in Conns, i \in Nat : c = <<j, i>>
      OBVIOUS
    <3> QED
      BY <1>3, <2>2, <3>1
  <2> QED
    BY <1>2, <2>1, <2>2
<1> QED
  BY <1>2, <1>4, CarriedFinite, FS_AddElement

\* Sending adds one.
LEMMA CarriedSend ==
    ASSUME NEW q \in [Conns -> Seq(Packet)], NEW k \in Conns, NEW p \in Packet
    PROVE  Cardinality(Carried([q EXCEPT ![k] = Append(@, p)])) = Cardinality(Carried(q)) + 1
<1> DEFINE q2 == [q EXCEPT ![k] = Append(@, p)]
<1>1. q2 \in [Conns -> Seq(Packet)]
  BY SentType
<1>2. Len(q2[k]) = Len(q[k]) + 1 /\ \A j \in Conns \ {k} : q2[j] = q[j]
  OBVIOUS
<1> HIDE DEF q2
<1>3. Cardinality(Carried(q2)) = Cardinality(Carried(q)) + 1
  BY <1>1, <1>2, CarriedLonger
<1> QED
  BY <1>3 DEF q2

\* Receiving takes one away.
LEMMA CarriedReceive ==
    ASSUME NEW q \in [Conns -> Seq(Packet)], NEW k \in Conns, q[k] # << >>
    PROVE  Cardinality(Carried([q EXCEPT ![k] = Tail(@)])) = Cardinality(Carried(q)) - 1
<1> DEFINE q2 == [q EXCEPT ![k] = Tail(@)]
<1>1. Tail(q[k]) \in Seq(Packet) /\ Len(q[k]) = Len(Tail(q[k])) + 1
  OBVIOUS
<1>2. q2 \in [Conns -> Seq(Packet)]
  BY <1>1
<1>3. Len(q[k]) = Len(q2[k]) + 1 /\ \A j \in Conns \ {k} : q2[j] = q[j]
  BY <1>1
<1> HIDE DEF q2
<1>4. Cardinality(Carried(q)) = Cardinality(Carried(q2)) + 1
  BY <1>2, <1>3, CarriedLonger
<1>5. Cardinality(Carried(q)) \in Nat /\ Cardinality(Carried(q2)) \in Nat
  BY <1>2, CarriedFinite
<1>6. Cardinality(Carried(q2)) = Cardinality(Carried(q)) - 1
  BY <1>4, <1>5
<1> QED
  BY <1>6 DEF q2

\* Dropping what was on some connections adds none.
LEMMA CarriedDropped ==
    ASSUME NEW q \in [Conns -> Seq(Packet)], NEW q2 \in [Conns -> Seq(Packet)],
           \A k \in Conns : q2[k] \in {q[k], << >>}
    PROVE  Cardinality(Carried(q2)) <= Cardinality(Carried(q))
<1>1. \A k \in Conns : Len(q2[k]) <= Len(q[k])
  OBVIOUS
<1>2. ASSUME NEW k \in Conns, NEW i \in Nat, <<k, i>> \in Carried(q2)
      PROVE  <<k, i>> \in Carried(q)
  <2>1. 1 <= i /\ i <= Len(q2[k]) /\ Len(q2[k]) <= Len(q[k])
    BY <1>1, <1>2, CarriedIs
  <2>2. i <= Len(q[k])
    BY <2>1
  <2> QED
    BY <2>1, <2>2, CarriedIs
<1>3. Carried(q2) \in SUBSET Carried(q)
  BY <1>2, CarriedIs
<1> QED
  BY <1>3, CarriedFinite, FS_Subset
-----------------------------------------------------------------------------
(* What a step does to the counts *)

\* The terms of RequestCopies and ReplyCopies.
InPipe(n)  == Len(pipe[n])
RdHolding  == Cardinality(Senders(rd))
RtHolding  == Cardinality(Senders(rt))
C2SCarried == Cardinality(Carried(c2s))
S2CCarried == Cardinality(Carried(s2c))
SrvHolding == Held(srv_pc = "enqueue")
CliHolding == Held(cli_pc = "enqueue")
RtlHolding == Held(rtl_pc = "respond")

CountsAreNat ==
    /\ InPipe("request_client") \in Nat /\ InPipe("request_server") \in Nat
    /\ InPipe("reply_client") \in Nat /\ InPipe("reply_server") \in Nat
    /\ RdHolding \in Nat /\ C2SCarried \in Nat /\ SrvHolding \in Nat
    /\ RtHolding \in Nat /\ S2CCarried \in Nat /\ CliHolding \in Nat
    /\ RtlHolding \in Nat

Copies == RequestCopies + ReplyCopies

\* The two counts by these names.
LEMMA CopiesAreSums ==
    /\ RequestCopies = InPipe("request_client") + RdHolding + C2SCarried + SrvHolding
                       + InPipe("request_server")
    /\ ReplyCopies = RtlHolding + InPipe("reply_server") + RtHolding + S2CCarried + CliHolding
                     + InPipe("reply_client")
BY DEF RequestCopies, ReplyCopies, InPipe, RdHolding, RtHolding, C2SCarried, S2CCarried,
       SrvHolding, CliHolding, RtlHolding

\* The same of the state after a step.
LEMMA CopiesAreSumsAfter == CopiesAreSums!:'
BY CopiesAreSums, PTL

\* All of the terms are natural numbers.
LEMMA CountTypes == TypeOK => CountsAreNat
<1> SUFFICES ASSUME TypeOK PROVE CountsAreNat
  OBVIOUS
<1>1. \A n \in PipeNames : InPipe(n) \in Nat
  BY DEF TypeOK, PipeTypeOK, InPipe
<1>2. RdHolding \in Nat /\ RtHolding \in Nat
  BY SendersFinite DEF RdHolding, RtHolding
<1>3. C2SCarried \in Nat /\ S2CCarried \in Nat
  BY CarriedFinite DEF C2SCarried, S2CCarried, TypeOK, LinkTypeOK
<1> QED
  BY <1>1, <1>2, <1>3 DEF CountsAreNat, PipeNames, SrvHolding, CliHolding, RtlHolding, Held

\* So they are after a step.
LEMMA CountTypesAfter == TypeOK' => CountsAreNat'
BY CountTypes, PTL

\* So are the two counts.
LEMMA CopiesNat == TypeOK => RequestCopies \in Nat /\ ReplyCopies \in Nat
BY CountTypes, CopiesAreSums DEF CountsAreNat

\* No pipe holds more or less than before.
PipesSame == /\ InPipe("request_client")' = InPipe("request_client")
             /\ InPipe("request_server")' = InPipe("request_server")
             /\ InPipe("reply_client")' = InPipe("reply_client")
             /\ InPipe("reply_server")' = InPipe("reply_server")

\* A place no step touches holds what it held.
LEMMA SameHolding ==
    /\ pipe' = pipe => PipesSame
    /\ rd' = rd => RdHolding' = RdHolding
    /\ rt' = rt => RtHolding' = RtHolding
    /\ c2s' = c2s => C2SCarried' = C2SCarried
    /\ s2c' = s2c => S2CCarried' = S2CCarried
    /\ srv_pc' = srv_pc => SrvHolding' = SrvHolding
    /\ cli_pc' = cli_pc => CliHolding' = CliHolding
    /\ rtl_pc' = rtl_pc => RtlHolding' = RtlHolding
BY DEF PipesSame, InPipe, RdHolding, RtHolding, C2SCarried, S2CCarried, SrvHolding, CliHolding, RtlHolding, Held

\* A packet written to a pipe or read from one is counted there.
LEMMA PipeCounts ==
    ASSUME PipeTypeOK, NEW n \in PipeNames
    PROVE  /\ \A pkt \in Packet : PipeWrite(n, pkt) => InPipe(n)' = InPipe(n) + 1
           /\ PipeRead(n) => InPipe(n)' = InPipe(n) - 1
           /\ \A pkt \in Packet : PipeRead(n) \/ PipeWrite(n, pkt)
                                  => \A m \in PipeNames \ {n} : InPipe(m)' = InPipe(m)
BY PipeWriteLength, PipeReadLength DEF InPipe

\* A queue, emptied on some connections, carries no more than before.
LEMMA ClosedCounts ==
    ASSUME LinkTypeOK
    PROVE  /\ (\E k \in Nat : c2s' \in {c2s, Emptied(c2s, k)}) => C2SCarried' <= C2SCarried
           /\ (\E k \in Nat : s2c' \in {s2c, Emptied(s2c, k)}) => S2CCarried' <= S2CCarried
<1>1. /\ C2SCarried = Cardinality(Carried(c2s)) /\ C2SCarried' = Cardinality(Carried(c2s'))
      /\ S2CCarried = Cardinality(Carried(s2c)) /\ S2CCarried' = Cardinality(Carried(s2c'))
  BY DEF C2SCarried, S2CCarried
<1>2. ASSUME NEW q \in [Conns -> Seq(Packet)], NEW k \in Nat, NEW q2 \in {q, Emptied(q, k)}
      PROVE  Cardinality(Carried(q2)) <= Cardinality(Carried(q))
  <2>1. q2 \in [Conns -> Seq(Packet)]
    BY EmptiedType
  <2>2. \A j \in Conns : q2[j] \in {q[j], << >>}
    BY DEF Emptied
  <2> QED
    BY <2>1, <2>2, CarriedDropped
<1> QED
  BY <1>1, <1>2 DEF LinkTypeOK

\* A reader, or a reply thread, goes round its loop.
LEMMA ReaderMoves ==
    ASSUME ClientTypeOK, NEW k \in Conns,
           NEW st \in {"none", "check", "read", "send", "confirm", "gone"},
           rd' = [rd EXCEPT ![k] = st]
    PROVE  /\ rd[k] # "send" /\ st # "send" => RdHolding' = RdHolding
           /\ rd[k] # "send" /\ st = "send" => RdHolding' = RdHolding + 1
           /\ rd[k] = "send" /\ st # "send" => RdHolding' = RdHolding - 1
<1>1. RdHolding = Cardinality(Senders(rd)) /\ RdHolding' = Cardinality(Senders(rd'))
  BY DEF RdHolding
<1>2. rd'[k] = st /\ \A j \in Conns \ {k} : rd'[j] = rd[j]
  BY DEF ClientTypeOK
<1>3. CASE rd[k] # "send" /\ st # "send"
  <2>1. Cardinality(Senders(rd')) = Cardinality(Senders(rd))
    BY <1>2, <1>3, SendersAfter
  <2> QED
    BY <1>1, <1>3, <2>1
<1>4. CASE rd[k] # "send" /\ st = "send"
  <2>1. Cardinality(Senders(rd')) = Cardinality(Senders(rd)) + 1
    BY <1>2, <1>4, SendersAfter
  <2> QED
    BY <1>1, <1>4, <2>1
<1>5. CASE rd[k] = "send" /\ st # "send"
  <2>1. Cardinality(Senders(rd')) = Cardinality(Senders(rd)) - 1
    BY <1>2, <1>5, SendersAfter
  <2> QED
    BY <1>1, <1>5, <2>1
<1> QED
  BY <1>3, <1>4, <1>5, SMTT(20)

\* A reply thread does the same, with replies.
LEMMA ReplierMoves ==
    ASSUME RServerTypeOK, NEW k \in Conns,
           NEW st \in {"none", "start", "check", "read", "send", "confirm", "gone"},
           rt' = [rt EXCEPT ![k] = st]
    PROVE  /\ rt[k] # "send" /\ st # "send" => RtHolding' = RtHolding
           /\ rt[k] # "send" /\ st = "send" => RtHolding' = RtHolding + 1
           /\ rt[k] = "send" /\ st # "send" => RtHolding' = RtHolding - 1
<1>1. RtHolding = Cardinality(Senders(rt)) /\ RtHolding' = Cardinality(Senders(rt'))
  BY DEF RtHolding
<1>2. rt'[k] = st /\ \A j \in Conns \ {k} : rt'[j] = rt[j]
  BY DEF RServerTypeOK
<1>3. CASE rt[k] # "send" /\ st # "send"
  <2>1. Cardinality(Senders(rt')) = Cardinality(Senders(rt))
    BY <1>2, <1>3, SendersAfter
  <2> QED
    BY <1>1, <1>3, <2>1
<1>4. CASE rt[k] # "send" /\ st = "send"
  <2>1. Cardinality(Senders(rt')) = Cardinality(Senders(rt)) + 1
    BY <1>2, <1>4, SendersAfter
  <2> QED
    BY <1>1, <1>4, <2>1
<1>5. CASE rt[k] = "send" /\ st # "send"
  <2>1. Cardinality(Senders(rt')) = Cardinality(Senders(rt)) - 1
    BY <1>2, <1>5, SendersAfter
  <2> QED
    BY <1>1, <1>5, <2>1
<1> QED
  BY <1>3, <1>4, <1>5, SMTT(20)

\* What loses packets in the client.
ClientLoses == \/ CliRecvEnd \/ CliRecvShort
               \/ \E k \in Conns : RdSendLost(k) \/ ClientKilled(k)

\* The client moves packets along, or loses them.
LEMMA ClientCounts ==
    ASSUME Served, ClientStep
    PROVE  \/ RequestCopies' = RequestCopies /\ ReplyCopies' = ReplyCopies
           \/ ClientLoses /\ RequestCopies' <= RequestCopies /\ ReplyCopies' <= ReplyCopies
<1> USE CopiesAreSums, CopiesAreSumsAfter DEF CountsAreNat, PipeNames, PipesSame
<1>1. TypeOK /\ PipeTypeOK /\ LinkTypeOK /\ ClientTypeOK /\ Spawned
  BY DEF Served, TypeOK
<1>2. SrvHolding' = SrvHolding /\ RtHolding' = RtHolding /\ RtlHolding' = RtlHolding
  BY SameHolding DEF ClientStep, rserverVars, rtlVars
<1>3. CountsAreNat /\ CountsAreNat'
  BY <1>1, ClientType, CountTypes, CountTypesAfter
<1>4. cli_sock = "connected" \/ cli_pc = "recv" => nconn \in Conns
  BY <1>1, OpenConns DEF Served, ClientServed
<1>5. CASE CliConnect
  <2>1. nconn + 1 \in Conns /\ nconn \in Nat /\ rd[nconn + 1] = "none" /\ rd' = [rd EXCEPT ![nconn + 1] = "check"]
    BY <1>1, <1>5, OpenConns DEF CliConnect, Spawned, ClientTypeOK
  <2>2. RdHolding' = RdHolding
    BY <1>1, <2>1, ReaderMoves
  <2>3. CliHolding = 0 /\ CliHolding' = 0
    BY <1>5 DEF CliConnect, CliHolding, Held
  <2>4. C2SCarried' = C2SCarried /\ S2CCarried' = S2CCarried /\ PipesSame
    BY <1>5, SameHolding DEF CliConnect
  <2> QED
    BY <1>2, <1>3, <2>2, <2>3, <2>4
<1>6. CASE CliRecv
  <2>1. C2SCarried' = C2SCarried /\ RdHolding' = RdHolding /\ PipesSame
    BY <1>6, SameHolding DEF CliRecv
  <2>2. S2CCarried' = S2CCarried - 1
    BY <1>1, <1>4, <1>6, CarriedReceive DEF CliRecv, S2CCarried, LinkTypeOK
  <2>3. CliHolding = 0 /\ CliHolding' = 1
    BY <1>6 DEF CliRecv, CliHolding, Held
  <2> QED
    BY <1>2, <1>3, <2>1, <2>2, <2>3
<1>7. CASE CliEnqueue
  <2>1. C2SCarried' = C2SCarried /\ S2CCarried' = S2CCarried /\ RdHolding' = RdHolding
    BY <1>7, SameHolding DEF CliEnqueue, linkVars
  <2>2. InPipe("reply_client")' = InPipe("reply_client") + 1
        /\ InPipe("reply_server")' = InPipe("reply_server")
        /\ InPipe("request_client")' = InPipe("request_client")
        /\ InPipe("request_server")' = InPipe("request_server")
    <3>1. cli_buf \in Packet /\ PipeWrite("reply_client", cli_buf)
      BY <1>1, <1>7 DEF CliEnqueue, ClientTypeOK
    <3> QED
      BY <1>1, <3>1, PipeCounts
  <2>3. CliHolding = 1 /\ CliHolding' = 0
    BY <1>7 DEF CliEnqueue, CliHolding, Held
  <2> QED
    BY <1>2, <1>3, <2>1, <2>2, <2>3
<1>8. CASE CliRecvEnd \/ CliRecvShort
  <2>1. RdHolding' = RdHolding /\ PipesSame
    BY <1>8, SameHolding DEF CliRecvEnd, CliRecvShort, CliClose
  <2>2. C2SCarried' <= C2SCarried /\ S2CCarried' <= S2CCarried
    BY <1>1, <1>8, OpenConns, ClosedCounts DEF CliRecvEnd, CliRecvShort, CliClose, ClientCloses
  <2>3. CliHolding = 0 /\ CliHolding' = 0
    BY <1>8 DEF CliRecvEnd, CliRecvShort, CliClose, CliHolding, Held
  <2>4. ClientLoses
    BY <1>8 DEF ClientLoses
  <2> QED
    BY <1>2, <1>3, <2>1, <2>2, <2>3, <2>4
<1>9. CASE CliReopen \/ CliStopReaders
  <2>1. /\ C2SCarried' = C2SCarried /\ S2CCarried' = S2CCarried /\ RdHolding' = RdHolding
        /\ PipesSame
    BY <1>9, SameHolding DEF CliReopen, CliStopReaders, linkVars
  <2>2. CliHolding = 0 /\ CliHolding' = 0
    BY <1>9 DEF CliReopen, CliStopReaders, CliHolding, Held
  <2> QED
    BY <1>2, <1>3, <2>1, <2>2
<1>10. ASSUME NEW k \in Conns, ReaderThread(k)
       PROVE  \/ RequestCopies' = RequestCopies /\ ReplyCopies' = ReplyCopies
              \/ ClientLoses /\ RequestCopies' <= RequestCopies /\ ReplyCopies' <= ReplyCopies
  <2>1. CASE RdCheck(k) \/ RdConfirm(k)
    <3>1. RdHolding' = RdHolding
      BY <1>1, <2>1, ReaderMoves DEF RdCheck, RdConfirm, RdGoto
    <3>2. /\ C2SCarried' = C2SCarried /\ S2CCarried' = S2CCarried /\ CliHolding' = CliHolding
          /\ PipesSame
      BY <2>1, SameHolding DEF RdCheck, RdConfirm, linkVars
    <3> QED
      BY <1>2, <1>3, <3>1, <3>2
  <2>2. CASE RdRead(k)
    <3>1. RdHolding' = RdHolding + 1
      BY <1>1, <2>2, ReaderMoves DEF RdRead, RdGoto
    <3>2. C2SCarried' = C2SCarried /\ S2CCarried' = S2CCarried /\ CliHolding' = CliHolding
      BY <2>2, SameHolding DEF RdRead, linkVars
    <3>3. InPipe("request_client")' = InPipe("request_client") - 1
          /\ InPipe("request_server")' = InPipe("request_server")
          /\ InPipe("reply_client")' = InPipe("reply_client")
          /\ InPipe("reply_server")' = InPipe("reply_server")
      BY <1>1, <2>2, PacketFacts, PipeCounts DEF RdRead
    <3> QED
      BY <1>2, <1>3, <3>1, <3>2, <3>3
  <2>3. CASE RdSend(k)
    <3>1. RdHolding' = RdHolding - 1
      BY <1>1, <2>3, ReaderMoves DEF RdSend, RdGoto
    <3>2. /\ S2CCarried' = S2CCarried /\ CliHolding' = CliHolding
          /\ PipesSame
      BY <2>3, SameHolding DEF RdSend
    <3>3. C2SCarried' = C2SCarried + 1
      BY <1>1, <1>4, <2>3, CarriedSend DEF RdSend, ClientLinkUp, C2SCarried, LinkTypeOK, ClientTypeOK
    <3> QED
      BY <1>2, <1>3, <3>1, <3>2, <3>3
  <2>4. CASE RdSendLost(k)
    <3>1. RdHolding' = RdHolding - 1
      BY <1>1, <2>4, ReaderMoves DEF RdSendLost, RdGoto
    <3>2. /\ C2SCarried' = C2SCarried /\ S2CCarried' = S2CCarried /\ CliHolding' = CliHolding
          /\ PipesSame
      BY <2>4, SameHolding DEF RdSendLost, linkVars
    <3> QED
      BY <1>2, <1>3, <2>4, <3>1, <3>2 DEF ClientLoses
  <2>5. CASE ClientKilled(k)
    <3>1. RdHolding' = 0
      <4>1. Senders(rd') = {}
        BY <2>5 DEF ClientKilled, Senders
      <4> QED
        BY <4>1, FS_EmptySet DEF RdHolding
    <3>2. PipesSame
      BY <2>5, SameHolding DEF ClientKilled
    <3>3. CliHolding' = 0
      BY <2>5 DEF ClientKilled, CliHolding, Held
    <3>4. C2SCarried' <= C2SCarried /\ S2CCarried' <= S2CCarried
      <4>1. nconn \in Nat /\ c2s' \in {c2s, Emptied(c2s, nconn)} /\ s2c' \in {s2c, Emptied(s2c, nconn)}
        BY <1>1, <2>5, OpenConns DEF ClientKilled, ClientCloses
      <4> QED
        BY <1>1, <4>1, ClosedCounts
    <3> QED
      BY <1>2, <1>3, <2>5, <3>1, <3>2, <3>3, <3>4 DEF ClientLoses
  <2> QED
    BY <1>10, <2>1, <2>2, <2>3, <2>4, <2>5 DEF ReaderThread
<1> QED
  BY <1>5, <1>6, <1>7, <1>8, <1>9, <1>10 DEF ClientStep, ClientNext, ClientThread

\* What loses packets in the server.
ServerLoses == \/ SrvRecvEnd \/ SrvRecvShort
               \/ \E k \in Conns : RtSendLost(k) \/ ServerKilled(k)

\* The server moves packets along, or loses them.
LEMMA ServerCounts ==
    ASSUME Served, RServerStep
    PROVE  \/ RequestCopies' = RequestCopies /\ ReplyCopies' = ReplyCopies
           \/ ServerLoses /\ RequestCopies' <= RequestCopies /\ ReplyCopies' <= ReplyCopies
<1> USE CopiesAreSums, CopiesAreSumsAfter DEF CountsAreNat, PipeNames, PipesSame
<1>1. TypeOK /\ PipeTypeOK /\ LinkTypeOK /\ RServerTypeOK /\ Spawned
  BY DEF Served, TypeOK
<1>2. CliHolding' = CliHolding /\ RdHolding' = RdHolding /\ RtlHolding' = RtlHolding
  BY SameHolding DEF RServerStep, clientVars, rtlVars
<1>3. CountsAreNat /\ CountsAreNat'
  BY <1>1, ServerType, CountTypes, CountTypesAfter
<1>4. ClientSockOpen => accepted \in Conns /\ accepted \in Nat
  BY <1>1, OpenConns DEF Served, ServerServed
<1>5. CASE SrvAccept
  <2>1. accepted + 1 \in Conns /\ rt[accepted + 1] = "none" /\ rt' = [rt EXCEPT ![accepted + 1] = "start"]
    <3>1. accepted \in Nat /\ accepted + 1 \in Conns /\ rt' = [rt EXCEPT ![accepted + 1] = "start"]
      BY <1>1, <1>5, OpenConns DEF SrvAccept
    <3> QED
      BY <1>1, <3>1 DEF Spawned
  <2>2. RtHolding' = RtHolding
    BY <1>1, <2>1, ReplierMoves
  <2>3. SrvHolding = 0 /\ SrvHolding' = 0
    BY <1>5 DEF SrvAccept, SrvHolding, Held
  <2>4. C2SCarried' = C2SCarried /\ S2CCarried' = S2CCarried /\ PipesSame
    BY <1>5, SameHolding DEF SrvAccept, linkVars
  <2> QED
    BY <1>2, <1>3, <2>2, <2>3, <2>4
<1>6. CASE SrvRecv
  <2>1. S2CCarried' = S2CCarried /\ RtHolding' = RtHolding /\ PipesSame
    BY <1>6, SameHolding DEF SrvRecv
  <2>2. C2SCarried' = C2SCarried - 1
    BY <1>1, <1>4, <1>6, CarriedReceive DEF SrvRecv, C2SCarried, LinkTypeOK, ClientSockOpen
  <2>3. SrvHolding = 0 /\ SrvHolding' = 1
    BY <1>6 DEF SrvRecv, SrvHolding, Held
  <2> QED
    BY <1>2, <1>3, <2>1, <2>2, <2>3
<1>7. CASE SrvEnqueue
  <2>1. C2SCarried' = C2SCarried /\ S2CCarried' = S2CCarried /\ RtHolding' = RtHolding
    BY <1>7, SameHolding DEF SrvEnqueue, linkVars
  <2>2. InPipe("request_server")' = InPipe("request_server") + 1
        /\ InPipe("request_client")' = InPipe("request_client")
        /\ InPipe("reply_client")' = InPipe("reply_client")
        /\ InPipe("reply_server")' = InPipe("reply_server")
    <3>1. srv_buf \in Packet /\ PipeWrite("request_server", srv_buf)
      BY <1>1, <1>7 DEF SrvEnqueue, RServerTypeOK
    <3> QED
      BY <1>1, <3>1, PipeCounts
  <2>3. SrvHolding = 1 /\ SrvHolding' = 0
    BY <1>7 DEF SrvEnqueue, SrvHolding, Held
  <2> QED
    BY <1>2, <1>3, <2>1, <2>2, <2>3
<1>8. CASE SrvRecvEnd \/ SrvRecvShort
  <2>1. RtHolding' = RtHolding /\ PipesSame
    BY <1>8, SameHolding DEF SrvRecvEnd, SrvRecvShort, SrvClose
  <2>2. C2SCarried' <= C2SCarried /\ S2CCarried' <= S2CCarried
    BY <1>1, <1>8, OpenConns, ClosedCounts DEF SrvRecvEnd, SrvRecvShort, SrvClose, ServerCloses
  <2>3. SrvHolding = 0 /\ SrvHolding' = 0
    BY <1>8 DEF SrvRecvEnd, SrvRecvShort, SrvClose, SrvHolding, Held
  <2>4. ServerLoses
    BY <1>8 DEF ServerLoses
  <2> QED
    BY <1>2, <1>3, <2>1, <2>2, <2>3, <2>4
<1>9. CASE SrvForget \/ SrvStop
  <2>1. /\ C2SCarried' = C2SCarried /\ S2CCarried' = S2CCarried /\ RtHolding' = RtHolding
        /\ PipesSame
    BY <1>9, SameHolding DEF SrvForget, SrvStop, linkVars
  <2>2. SrvHolding = 0 /\ SrvHolding' = 0
    BY <1>9 DEF SrvForget, SrvStop, SrvHolding, Held
  <2> QED
    BY <1>2, <1>3, <2>1, <2>2
<1>10. ASSUME NEW k \in Conns, ReplyThread(k)
       PROVE  \/ RequestCopies' = RequestCopies /\ ReplyCopies' = ReplyCopies
              \/ ServerLoses /\ RequestCopies' <= RequestCopies /\ ReplyCopies' <= ReplyCopies
  <2>1. CASE RtStart(k) \/ RtCheck(k) \/ RtConfirm(k)
    <3>1. RtHolding' = RtHolding
      BY <1>1, <2>1, ReplierMoves DEF RtStart, RtCheck, RtConfirm, RtGoto
    <3>2. /\ C2SCarried' = C2SCarried /\ S2CCarried' = S2CCarried /\ SrvHolding' = SrvHolding
          /\ PipesSame
      BY <2>1, SameHolding DEF RtStart, RtCheck, RtConfirm, linkVars
    <3> QED
      BY <1>2, <1>3, <3>1, <3>2
  <2>2. CASE RtRead(k)
    <3>1. RtHolding' = RtHolding + 1
      BY <1>1, <2>2, ReplierMoves DEF RtRead, RtGoto
    <3>2. C2SCarried' = C2SCarried /\ S2CCarried' = S2CCarried /\ SrvHolding' = SrvHolding
      BY <2>2, SameHolding DEF RtRead, linkVars
    <3>3. InPipe("reply_server")' = InPipe("reply_server") - 1
          /\ InPipe("request_client")' = InPipe("request_client")
          /\ InPipe("request_server")' = InPipe("request_server")
          /\ InPipe("reply_client")' = InPipe("reply_client")
      BY <1>1, <2>2, PacketFacts, PipeCounts DEF RtRead
    <3> QED
      BY <1>2, <1>3, <3>1, <3>2, <3>3
  <2>3. CASE RtSend(k)
    <3>1. RtHolding' = RtHolding - 1
      BY <1>1, <2>3, ReplierMoves DEF RtSend, RtGoto
    <3>2. C2SCarried' = C2SCarried /\ SrvHolding' = SrvHolding /\ PipesSame
      BY <2>3, SameHolding DEF RtSend
    <3>3. S2CCarried' = S2CCarried + 1
      BY <1>1, <1>4, <2>3, CarriedSend DEF RtSend, ServerLinkUp, S2CCarried, LinkTypeOK, RServerTypeOK
    <3> QED
      BY <1>2, <1>3, <3>1, <3>2, <3>3
  <2>4. CASE RtSendLost(k)
    <3>1. RtHolding' = RtHolding - 1
      BY <1>1, <2>4, ReplierMoves DEF RtSendLost, RtGoto
    <3>2. /\ C2SCarried' = C2SCarried /\ S2CCarried' = S2CCarried /\ SrvHolding' = SrvHolding
          /\ PipesSame
      BY <2>4, SameHolding DEF RtSendLost, linkVars
    <3> QED
      BY <1>2, <1>3, <2>4, <3>1, <3>2 DEF ServerLoses
  <2>5. CASE ServerKilled(k)
    <3>1. RtHolding' = 0
      <4>1. Senders(rt') = {}
        BY <2>5 DEF ServerKilled, Senders
      <4> QED
        BY <4>1, FS_EmptySet DEF RtHolding
    <3>2. PipesSame
      BY <2>5, SameHolding DEF ServerKilled
    <3>3. SrvHolding' = 0
      BY <2>5 DEF ServerKilled, SrvHolding, Held
    <3>4. S2CCarried' <= S2CCarried
      BY <1>1, <1>4, <2>5, ClosedCounts DEF ServerKilled
    <3>5. C2SCarried' <= C2SCarried
      <4>1. /\ c2s \in [Conns -> Seq(Packet)] /\ c2s' \in [Conns -> Seq(Packet)]
            /\ \A j \in Conns : c2s'[j] \in {c2s[j], << >>}
        <5>1. TypeOK'
          BY ServerType
        <5> QED
          BY <1>1, <2>5, <5>1 DEF ServerKilled, LinkTypeOK, TypeOK
      <4>2. Cardinality(Carried(c2s')) <= Cardinality(Carried(c2s))
        BY <4>1, CarriedDropped
      <4> QED
        BY <4>2 DEF C2SCarried
    <3> QED
      BY <1>2, <1>3, <2>5, <3>1, <3>2, <3>3, <3>4, <3>5 DEF ServerLoses
  <2> QED
    BY <1>10, <2>1, <2>2, <2>3, <2>4, <2>5 DEF ReplyThread
<1> QED
  BY <1>5, <1>6, <1>7, <1>8, <1>9, <1>10 DEF RServerStep, RServerNext, RServerThread

\* A cut loses packets; it duplicates none.
LEMMA NetworkCounts ==
    ASSUME Served, NetworkStep
    PROVE  RequestCopies' <= RequestCopies /\ ReplyCopies' <= ReplyCopies
<1> USE CopiesAreSums, CopiesAreSumsAfter DEF CountsAreNat, PipeNames, PipesSame
<1>1. TypeOK /\ LinkTypeOK /\ TypeOK'
  BY NextServed DEF Served, TypeOK, Next
<1>2. PICK k \in Conns : Cut(k)
  BY DEF NetworkStep
<1>3. /\ CliHolding' = CliHolding /\ SrvHolding' = SrvHolding /\ RtlHolding' = RtlHolding
      /\ RdHolding' = RdHolding /\ RtHolding' = RtHolding /\ PipesSame
  BY SameHolding DEF NetworkStep, clientVars, rserverVars, rtlVars
<1>4. C2SCarried' <= C2SCarried /\ S2CCarried' <= S2CCarried
  BY <1>1, <1>2, ClosedCounts, ConnFacts DEF Cut
<1>5. CountsAreNat /\ CountsAreNat'
  BY <1>1, CountTypes, CountTypesAfter
<1> QED
  BY <1>3, <1>4, <1>5

\* The device turns one request into one reply.
LEMMA RtlCounts ==
    ASSUME Served, RtlStep
    PROVE  \/ DpiRequest /\ RequestCopies' = RequestCopies - 1 /\ ReplyCopies' = ReplyCopies + 1
           \/ DpiRespond /\ RequestCopies' = RequestCopies /\ ReplyCopies' = ReplyCopies
           \/ DpiStop /\ RequestCopies' = RequestCopies - 1 /\ ReplyCopies' = ReplyCopies
<1> USE CopiesAreSums, CopiesAreSumsAfter DEF CountsAreNat, PipeNames
<1>1. TypeOK /\ PipeTypeOK /\ RtlTypeOK
  BY DEF Served, TypeOK
<1>2. /\ CliHolding' = CliHolding /\ SrvHolding' = SrvHolding /\ RdHolding' = RdHolding
      /\ RtHolding' = RtHolding /\ C2SCarried' = C2SCarried /\ S2CCarried' = S2CCarried
  BY SameHolding DEF RtlStep, linkVars, clientVars, rserverVars
<1>3. CountsAreNat /\ CountsAreNat'
  BY <1>1, RtlType, CountTypes, CountTypesAfter
<1>4. CASE DpiRequest \/ DpiStop
  <2>1. InPipe("request_server")' = InPipe("request_server") - 1
        /\ InPipe("request_client")' = InPipe("request_client")
        /\ InPipe("reply_client")' = InPipe("reply_client")
        /\ InPipe("reply_server")' = InPipe("reply_server")
    BY <1>1, <1>4, PacketFacts, PipeCounts DEF DpiRequest, DpiStop
  <2>2. RtlHolding = 0 /\ RtlHolding' = (IF DpiRequest THEN 1 ELSE 0)
    BY <1>4 DEF DpiRequest, DpiStop, RtlHolding, Held
  <2> QED
    BY <1>2, <1>3, <1>4, <2>1, <2>2
<1>5. CASE DpiRespond
  <2>1. InPipe("reply_server")' = InPipe("reply_server") + 1
        /\ InPipe("request_client")' = InPipe("request_client")
        /\ InPipe("request_server")' = InPipe("request_server")
        /\ InPipe("reply_client")' = InPipe("reply_client")
    <3>1. ReplyTo(rtl_rsp) \in Packet /\ PipeWrite("reply_server", ReplyTo(rtl_rsp))
      BY <1>1, <1>5, PacketFacts DEF DpiRespond, RtlTypeOK
    <3> QED
      BY <1>1, <3>1, PipeCounts
  <2>2. RtlHolding = 1 /\ RtlHolding' = 0
    BY <1>5 DEF DpiRespond, RtlHolding, Held
  <2> QED
    BY <1>2, <1>3, <1>5, <2>1, <2>2
<1> QED
  BY <1>4, <1>5 DEF RtlStep, RtlNext

\* The host adds the request it sends and takes the reply it receives.
LEMMA HostCounts ==
    ASSUME Served, HostStep
    PROVE  \/ HostEnqueue /\ RequestCopies' = RequestCopies + 1 /\ ReplyCopies' = ReplyCopies
           \/ HostDequeue /\ RequestCopies' = RequestCopies /\ ReplyCopies' = ReplyCopies - 1
           \/ /\ HostIssue \/ HostIssueRefused
              /\ RequestCopies' = RequestCopies /\ ReplyCopies' = ReplyCopies
<1> USE CopiesAreSums, CopiesAreSumsAfter DEF CountsAreNat, PipeNames
<1>1. TypeOK /\ PipeTypeOK /\ HostTypeOK
  BY DEF Served, TypeOK
<1>2. /\ CliHolding' = CliHolding /\ SrvHolding' = SrvHolding /\ RdHolding' = RdHolding
      /\ RtHolding' = RtHolding /\ C2SCarried' = C2SCarried /\ S2CCarried' = S2CCarried
      /\ RtlHolding' = RtlHolding
  BY SameHolding DEF HostStep, linkVars, clientVars, rserverVars, rtlVars
<1>3. CountsAreNat /\ CountsAreNat'
  BY <1>1, HostType, CountTypes, CountTypesAfter
<1>4. CASE HostIssue \/ HostIssueRefused
  <2>1. PipesSame
    BY <1>4, SameHolding DEF HostIssue, HostIssueRefused
  <2> QED
    BY <1>2, <1>3, <1>4, <2>1 DEF PipesSame
<1>5. CASE HostEnqueue
  <2>1. InPipe("request_client")' = InPipe("request_client") + 1
        /\ InPipe("request_server")' = InPipe("request_server")
        /\ InPipe("reply_client")' = InPipe("reply_client")
        /\ InPipe("reply_server")' = InPipe("reply_server")
    <3>1. send_pkt \in Packet /\ PipeWrite("request_client", send_pkt)
      BY <1>1, <1>5 DEF HostEnqueue, HostTypeOK
    <3> QED
      BY <1>1, <3>1, PipeCounts
  <2> QED
    BY <1>2, <1>3, <1>5, <2>1
<1>6. CASE HostDequeue
  <2>1. InPipe("reply_client")' = InPipe("reply_client") - 1
        /\ InPipe("request_client")' = InPipe("request_client")
        /\ InPipe("request_server")' = InPipe("request_server")
        /\ InPipe("reply_server")' = InPipe("reply_server")
    BY <1>1, <1>6, PacketFacts, PipeCounts DEF HostDequeue
  <2> QED
    BY <1>2, <1>3, <1>6, <2>1
<1> QED
  BY <1>4, <1>5, <1>6 DEF HostStep, HostNext

-----------------------------------------------------------------------------
(* One packet at most *)

\* The packets the host has sent and not had a reply to.
Owed == IF host_pc = "wait" THEN 1 ELSE 0

\* No packet is lost.
Loses == ClientLoses \/ ServerLoses \/ NetworkStep \/ DpiStop

\* Whatever a step does, the packets under way outgrow what the host waits for by no
\* more than before; if none is lost, by just as much.
LEMMA CopiesFollowOwed ==
    ASSUME Served, [Next]_vars
    PROVE  /\ RequestCopies \in Nat /\ ReplyCopies \in Nat
           /\ RequestCopies' \in Nat /\ ReplyCopies' \in Nat
           /\ Copies' + Owed <= Copies + Owed'
           /\ Loses \/ Copies' + Owed = Copies + Owed'
<1>1. RequestCopies \in Nat /\ ReplyCopies \in Nat /\ RequestCopies' \in Nat /\ ReplyCopies' \in Nat
  <2>1. CountsAreNat /\ CountsAreNat'
    BY NextServed, CountTypes, CountTypesAfter DEF Served
  <2> QED
    BY <2>1, CopiesAreSums, CopiesAreSumsAfter DEF CountsAreNat
<1>2. Copies = RequestCopies + ReplyCopies /\ Copies' = RequestCopies' + ReplyCopies'
      /\ Owed \in Nat /\ Owed' \in Nat
  BY DEF Copies, Owed
<1>3. CASE HostStep
  <2>1. CASE /\ HostIssue \/ HostIssueRefused
             /\ RequestCopies' = RequestCopies /\ ReplyCopies' = ReplyCopies
    <3>1. Owed' = 0 /\ Owed = 0
      BY <2>1 DEF HostIssue, HostIssueRefused, Owed
    <3> QED
      BY <1>1, <1>2, <2>1, <3>1
  <2>2. CASE HostEnqueue /\ RequestCopies' = RequestCopies + 1 /\ ReplyCopies' = ReplyCopies
    <3>1. Owed' = 1 /\ Owed = 0
      BY <2>2 DEF HostEnqueue, Owed
    <3> QED
      BY <1>1, <1>2, <2>2, <3>1
  <2>3. CASE HostDequeue /\ RequestCopies' = RequestCopies /\ ReplyCopies' = ReplyCopies - 1
    <3>1. Owed' = 0 /\ Owed = 1
      BY <2>3 DEF HostDequeue, Owed
    <3> QED
      BY <1>1, <1>2, <2>3, <3>1
  <2> QED
    BY <1>3, <2>1, <2>2, <2>3, HostCounts
<1>4. CASE ClientStep \/ RServerStep \/ NetworkStep \/ RtlStep
  <2>1. Owed' = Owed
    BY <1>4 DEF ClientStep, RServerStep, NetworkStep, RtlStep, hostVars, Owed
  <2>2. CASE RequestCopies' = RequestCopies /\ ReplyCopies' = ReplyCopies
    BY <1>1, <1>2, <2>1, <2>2
  <2>3. CASE Loses /\ RequestCopies' <= RequestCopies /\ ReplyCopies' <= ReplyCopies
    <3>1. \A a, b, c, d, e \in Nat : a <= c /\ b <= d => a + b + e <= c + d + e
      OBVIOUS
    <3> QED
      BY <1>1, <1>2, <2>1, <2>3, <3>1
  <2>4. CASE RequestCopies' = RequestCopies - 1 /\ ReplyCopies' = ReplyCopies + 1
    BY <1>1, <1>2, <2>1, <2>4
  <2>5. CASE DpiStop /\ RequestCopies' = RequestCopies - 1 /\ ReplyCopies' = ReplyCopies
    <3>1. Loses
      BY <2>5 DEF Loses
    <3> QED
      BY <1>1, <1>2, <2>1, <2>5, <3>1
  <2>6. CASE ClientStep
    BY <2>2, <2>3, <2>6, ClientCounts DEF Loses
  <2>7. CASE RServerStep
    BY <2>2, <2>3, <2>7, ServerCounts DEF Loses
  <2>8. CASE NetworkStep
    BY <2>3, <2>8, NetworkCounts DEF Loses
  <2>9. CASE RtlStep
    BY <2>2, <2>4, <2>5, <2>9, RtlCounts
  <2> QED
    BY <1>4, <2>6, <2>7, <2>8, <2>9
<1>5. CASE UNCHANGED vars
  <2>1. RequestCopies' = RequestCopies /\ ReplyCopies' = ReplyCopies /\ Owed' = Owed
    BY <1>5, CopiesAreSums, CopiesAreSumsAfter, SameHolding
    DEF vars, linkVars, clientVars, rserverVars, rtlVars, hostVars, PipesSame, Owed
  <2> QED
    BY <1>1, <1>2, <2>1
<1> QED
  BY <1>3, <1>4, <1>5 DEF Next

\* At the start there is no packet anywhere.
LEMMA NeverTwoInit == Init => NeverTwoPackets
<1> SUFFICES ASSUME Init PROVE NeverTwoPackets
  OBVIOUS
<1>1. RdHolding = 0 /\ RtHolding = 0
  <2>1. Senders(rd) = {} /\ Senders(rt) = {}
    BY DEF Init, ClientInit, RServerInit, Senders
  <2> QED
    BY <2>1, FS_EmptySet DEF RdHolding, RtHolding
<1>2. C2SCarried = 0 /\ S2CCarried = 0
  <2>1. Carried(c2s) = {} /\ Carried(s2c) = {}
    BY DEF Init, LinkInit, Carried
  <2> QED
    BY <2>1, FS_EmptySet DEF C2SCarried, S2CCarried
<1>3. SrvHolding = 0 /\ CliHolding = 0 /\ RtlHolding = 0
  BY DEF Init, ClientInit, RServerInit, RtlInit, SrvHolding, CliHolding, RtlHolding, Held
<1>4. /\ InPipe("request_client") = 0 /\ InPipe("request_server") = 0
      /\ InPipe("reply_client") = 0 /\ InPipe("reply_server") = 0
  BY DEF Init, PipeInit, PipeNames, InPipe
<1> QED
  BY <1>1, <1>2, <1>3, <1>4, CopiesAreSums DEF NeverTwoPackets, Held, Init, HostInit

\* The bound follows what the host waits for, at every step.
LEMMA NeverTwoNext ==
    ASSUME Served, NeverTwoPackets, [Next]_vars
    PROVE  NeverTwoPackets'
<1>1. Copies <= Owed /\ Owed \in {0, 1} /\ Owed' \in {0, 1}
  BY DEF NeverTwoPackets, Copies, Owed, Held
<1>2. Copies' <= Owed'
  BY <1>1, CopiesFollowOwed DEF Copies
<1> QED
  BY <1>2 DEF NeverTwoPackets, Copies, Owed, Held

\* However the connections come and go, and however many threads of earlier ones are
\* left, a request is never sent twice and a reply never delivered twice.
THEOREM NeverTwo == Spec => []NeverTwoPackets
<1>1. Served /\ NeverTwoPackets /\ [Next]_vars => NeverTwoPackets'
  BY NeverTwoNext
<1> QED
  BY <1>1, NeverTwoInit, ServedInvariance, PTL DEF Spec

-----------------------------------------------------------------------------
(* What a packet under way is *)

\* Sequences of equal packets.
LEMMA NoneAre == \A p : AllAre(<< >>, p)
BY DEF AllAre

\* One more of them.
LEMMA AppendedAre ==
    ASSUME NEW s \in Seq(Packet), NEW p \in Packet, AllAre(s, p)
    PROVE  AllAre(Append(s, p), p)
BY DEF AllAre

\* The first is one of them, and so are the others.
LEMMA TakenIs ==
    ASSUME NEW s \in Seq(Packet), NEW p, AllAre(s, p), s # << >>
    PROVE  Head(s) = p /\ s[1] = p /\ AllAre(Tail(s), p)
<1>1. Len(s) \in Nat /\ Len(s) # 0 /\ Head(s) = s[1]
  OBVIOUS
<1>2. Len(Tail(s)) = Len(s) - 1 /\ \A i \in 1 .. Len(Tail(s)) : Tail(s)[i] = s[i + 1]
  OBVIOUS
<1> QED
  BY <1>1, <1>2 DEF AllAre

\* InFlightMatches after a step.
LEMMA MatchesAfter ==
    InFlightMatches' <=>
    /\ \A n \in {"request_client", "request_server"} : AllAre(pipe'[n], send_pkt')
    /\ \A n \in {"reply_client", "reply_server"} : AllAre(pipe'[n], ReplyTo(send_pkt'))
    /\ \A k \in Conns : AllAre(c2s'[k], send_pkt') /\ AllAre(s2c'[k], ReplyTo(send_pkt'))
    /\ Senders(rd') # {} => rd_buf' = send_pkt'
    /\ srv_pc' = "enqueue" => srv_buf' = send_pkt'
    /\ rtl_pc' = "respond" => rtl_rsp' = send_pkt'
    /\ Senders(rt') # {} => rt_buf' = ReplyTo(send_pkt')
    /\ cli_pc' = "enqueue" => cli_buf' = ReplyTo(send_pkt')
BY DEF InFlightMatches, AllAre, Senders, ReplyTo

\* When no packet is counted, there is none anywhere.
NothingUnderWay ==
    /\ \A n \in PipeNames : pipe[n] = << >>
    /\ \A k \in Conns : c2s[k] = << >> /\ s2c[k] = << >>
    /\ Senders(rd) = {} /\ Senders(rt) = {}
    /\ srv_pc # "enqueue" /\ cli_pc # "enqueue" /\ rtl_pc # "respond"

\* No packet counted on the connections is none on any.
LEMMA CarriedNone ==
    ASSUME NEW q \in [Conns -> Seq(Packet)], Cardinality(Carried(q)) = 0, NEW k \in Conns
    PROVE  q[k] = << >>
<1>1. <<k, 1>> \notin Carried(q)
  BY CarriedFinite, FS_EmptySet
<1>2. ~(1 <= Len(q[k]))
  BY <1>1, CarriedIs
<1> QED
  BY <1>2

\* Every place is empty when both counts are 0.
LEMMA EmptyIfNone ==
    ASSUME TypeOK, RequestCopies + ReplyCopies = 0
    PROVE  NothingUnderWay
<1>1. CountsAreNat
  BY CountTypes
<1>2. /\ InPipe("request_client") = 0 /\ InPipe("request_server") = 0
      /\ InPipe("reply_client") = 0 /\ InPipe("reply_server") = 0
      /\ RdHolding = 0 /\ RtHolding = 0 /\ C2SCarried = 0 /\ S2CCarried = 0
      /\ SrvHolding = 0 /\ CliHolding = 0 /\ RtlHolding = 0
  <2>1. PICK a \in Nat, b \in Nat, c \in Nat, d \in Nat, e \in Nat :
            /\ a = InPipe("request_client") /\ b = RdHolding /\ c = C2SCarried
            /\ d = SrvHolding /\ e = InPipe("request_server")
    BY <1>1 DEF CountsAreNat
  <2>2. PICK u \in Nat, v \in Nat, w \in Nat, x \in Nat, y \in Nat, z \in Nat :
            /\ u = RtlHolding /\ v = InPipe("reply_server") /\ w = RtHolding
            /\ x = S2CCarried /\ y = CliHolding /\ z = InPipe("reply_client")
    BY <1>1 DEF CountsAreNat
  <2>3. RequestCopies = a + b + c + d + e /\ ReplyCopies = u + v + w + x + y + z
    BY <2>1, <2>2, CopiesAreSums
  <2>4. a + b + c + d + e + (u + v + w + x + y + z) = 0
    BY <2>3
  <2>5. a = 0 /\ b = 0 /\ c = 0 /\ d = 0 /\ e = 0
    BY <2>4
  <2>6. u = 0 /\ v = 0 /\ w = 0 /\ x = 0 /\ y = 0 /\ z = 0
    BY <2>4
  <2> QED
    BY <2>1, <2>2, <2>5, <2>6
<1>3. \A n \in PipeNames : pipe[n] = << >>
  BY <1>2 DEF PipeNames, InPipe, TypeOK, PipeTypeOK
<1>4. Senders(rd) = {} /\ Senders(rt) = {}
  BY <1>2, SendersFinite, FS_EmptySet DEF RdHolding, RtHolding
<1>5. \A k \in Conns : c2s[k] = << >> /\ s2c[k] = << >>
  BY <1>2, CarriedNone DEF C2SCarried, S2CCarried, TypeOK, LinkTypeOK
<1>6. srv_pc # "enqueue" /\ cli_pc # "enqueue" /\ rtl_pc # "respond"
  BY <1>2 DEF SrvHolding, CliHolding, RtlHolding, Held
<1> QED
  BY <1>3, <1>4, <1>5, <1>6 DEF NothingUnderWay

\* The host starts an access only when nothing is under way: the next request is
\* not mistaken for one of before.
LEMMA HostMatches ==
    ASSUME Served, NeverTwoPackets, InFlightMatches, HostStep
    PROVE  InFlightMatches'
<1>1. TypeOK /\ PipeTypeOK /\ HostTypeOK
  BY DEF Served, TypeOK
<1>2. host_pc # "wait" => NothingUnderWay
  <2> SUFFICES ASSUME host_pc # "wait" PROVE NothingUnderWay
    OBVIOUS
  <2>1. RequestCopies + ReplyCopies <= 0
    BY DEF NeverTwoPackets, Held
  <2>2. RequestCopies \in Nat /\ ReplyCopies \in Nat
    BY CopiesFollowOwed DEF HostStep, Next
  <2> QED
    BY <1>1, <2>1, <2>2, EmptyIfNone
<1>3. /\ c2s' = c2s /\ s2c' = s2c /\ rd' = rd /\ rt' = rt /\ rd_buf' = rd_buf /\ rt_buf' = rt_buf
      /\ srv_pc' = srv_pc /\ cli_pc' = cli_pc /\ rtl_pc' = rtl_pc
      /\ srv_buf' = srv_buf /\ cli_buf' = cli_buf /\ rtl_rsp' = rtl_rsp
  BY DEF HostStep, linkVars, clientVars, rserverVars, rtlVars
<1>4. CASE HostIssue \/ HostIssueRefused
  <2>1. NothingUnderWay /\ pipe' = pipe
    BY <1>2, <1>4 DEF HostIssue, HostIssueRefused
  <2> QED
    BY <1>3, <2>1, NoneAre, MatchesAfter DEF NothingUnderWay, PipeNames
<1>5. CASE HostEnqueue
  <2>1. NothingUnderWay /\ send_pkt' = send_pkt /\ send_pkt \in Packet
    BY <1>1, <1>2, <1>5 DEF HostEnqueue, HostTypeOK
  <2>2. /\ pipe'["request_client"] = Append(<< >>, send_pkt)
        /\ \A n \in PipeNames \ {"request_client"} : pipe'[n] = << >>
    BY <1>1, <1>5, <2>1, PipeWriteLength DEF HostEnqueue, NothingUnderWay, PipeNames
  <2>3. AllAre(Append(<< >>, send_pkt), send_pkt)
    <3>1. << >> \in Seq(Packet)
      OBVIOUS
    <3> QED
      BY <2>1, <3>1, NoneAre, AppendedAre
  <2> QED
    BY <1>3, <2>1, <2>2, <2>3, NoneAre, MatchesAfter DEF NothingUnderWay, PipeNames
<1>6. CASE HostDequeue
  <2>1. /\ send_pkt' = send_pkt /\ pipe["reply_client"] # << >>
        /\ pipe'["reply_client"] = Tail(pipe["reply_client"])
        /\ \A n \in PipeNames \ {"reply_client"} : pipe'[n] = pipe[n]
    BY <1>1, <1>6, PipeReadLength DEF HostDequeue, PipeNames
  <2>2. AllAre(pipe'["reply_client"], ReplyTo(send_pkt))
    BY <1>1, <2>1, TakenIs DEF InFlightMatches, PipeTypeOK, PipeNames
  <2> QED
    BY <1>3, <2>1, <2>2, MatchesAfter DEF InFlightMatches, PipeNames
<1> QED
  BY <1>4, <1>5, <1>6 DEF HostStep, HostNext

\* The device copies the request and answers with the reply to it.
LEMMA RtlMatches ==
    ASSUME Served, InFlightMatches, RtlStep
    PROVE  InFlightMatches'
<1>1. TypeOK /\ PipeTypeOK /\ HostTypeOK
  BY DEF Served, TypeOK
<1>2. /\ c2s' = c2s /\ s2c' = s2c /\ rd' = rd /\ rt' = rt /\ rd_buf' = rd_buf /\ rt_buf' = rt_buf
      /\ srv_pc' = srv_pc /\ cli_pc' = cli_pc /\ srv_buf' = srv_buf /\ cli_buf' = cli_buf
      /\ send_pkt' = send_pkt
  BY DEF RtlStep, linkVars, clientVars, rserverVars, hostVars
<1>3. CASE DpiRequest \/ DpiStop
  <2>1. /\ pipe["request_server"] # << >> /\ PipeFirst("request_server") = pipe["request_server"][1]
        /\ pipe'["request_server"] = Tail(pipe["request_server"])
        /\ \A n \in PipeNames \ {"request_server"} : pipe'[n] = pipe[n]
    BY <1>1, <1>3, PipeReadLength DEF DpiRequest, DpiStop, PipeNames
  <2>2. PipeFirst("request_server") = send_pkt /\ AllAre(pipe'["request_server"], send_pkt)
    BY <1>1, <2>1, TakenIs DEF InFlightMatches, PipeTypeOK, PipeNames
  <2>3. rtl_pc' = "respond" => rtl_rsp' = send_pkt
    BY <1>3, <2>2 DEF DpiRequest, DpiStop
  <2> QED
    BY <1>2, <2>1, <2>2, <2>3, MatchesAfter DEF InFlightMatches, PipeNames
<1>4. CASE DpiRespond
  <2>1. /\ pipe'["reply_server"] = Append(pipe["reply_server"], ReplyTo(rtl_rsp))
        /\ \A n \in PipeNames \ {"reply_server"} : pipe'[n] = pipe[n]
    BY <1>1, <1>4, PacketFacts, PipeWriteLength DEF DpiRespond, PipeNames, TypeOK, RtlTypeOK
  <2>2. AllAre(pipe'["reply_server"], ReplyTo(send_pkt))
    <3>1. rtl_rsp = send_pkt /\ send_pkt \in Packet
      BY <1>1, <1>4 DEF DpiRespond, InFlightMatches, HostTypeOK
    <3> QED
      BY <1>1, <2>1, <3>1, PacketFacts, AppendedAre DEF InFlightMatches, PipeTypeOK, PipeNames
  <2>3. rtl_pc' = "request"
    BY <1>4 DEF DpiRespond
  <2> QED
    BY <1>2, <2>1, <2>2, <2>3, MatchesAfter DEF InFlightMatches, PipeNames
<1> QED
  BY <1>3, <1>4 DEF RtlStep, RtlNext

\* The network drops packets; it alters none.
LEMMA NetworkMatches ==
    ASSUME Served, InFlightMatches, NetworkStep
    PROVE  InFlightMatches'
<1>1. PICK k \in Conns : Cut(k)
  BY DEF NetworkStep
<1>2. \A j \in Conns : c2s'[j] \in {c2s[j], << >>} /\ s2c'[j] \in {s2c[j], << >>}
  BY <1>1 DEF Cut, Emptied, Served, TypeOK, LinkTypeOK
<1>3. /\ rd' = rd /\ rt' = rt /\ rd_buf' = rd_buf /\ rt_buf' = rt_buf /\ pipe' = pipe
      /\ srv_pc' = srv_pc /\ cli_pc' = cli_pc /\ srv_buf' = srv_buf /\ cli_buf' = cli_buf
      /\ rtl_pc' = rtl_pc /\ rtl_rsp' = rtl_rsp /\ send_pkt' = send_pkt
  BY DEF NetworkStep, clientVars, rserverVars, hostVars, rtlVars
<1> QED
  BY <1>2, <1>3, NoneAre, MatchesAfter DEF InFlightMatches

\* The client carries packets as they are, in a buffer its readers share.
LEMMA ClientMatches ==
    ASSUME Served, InFlightMatches, ClientStep
    PROVE  InFlightMatches'
<1>1. TypeOK /\ PipeTypeOK /\ LinkTypeOK /\ HostTypeOK /\ ClientTypeOK /\ Spawned
  BY DEF Served, TypeOK
<1>2. /\ rt' = rt /\ rt_buf' = rt_buf /\ srv_pc' = srv_pc /\ srv_buf' = srv_buf
      /\ rtl_pc' = rtl_pc /\ rtl_rsp' = rtl_rsp /\ send_pkt' = send_pkt
  BY DEF ClientStep, rserverVars, hostVars, rtlVars
<1>3. cli_sock = "connected" \/ cli_pc = "recv" => nconn \in Conns
  BY <1>1, OpenConns DEF Served, ClientServed
<1>4. send_pkt \in Packet /\ ReplyTo(send_pkt) \in Packet
  BY <1>1, PacketFacts DEF HostTypeOK
<1> USE MatchesAfter DEF InFlightMatches, linkVars
<1>5. CASE CliConnect
  <2>1. Senders(rd') \subseteq Senders(rd)
    BY <1>1, <1>5, OpenConns DEF CliConnect, Senders, ClientTypeOK
  <2> QED
    BY <1>2, <1>5, <2>1 DEF CliConnect
<1>6. CASE CliRecv
  <2>1. s2c[nconn] \in Seq(Packet) /\ s2c[nconn] # << >> /\ nconn \in Conns
    BY <1>1, <1>3, <1>6 DEF CliRecv, LinkTypeOK
  <2>2. cli_buf' = ReplyTo(send_pkt) /\ AllAre(Tail(s2c[nconn]), ReplyTo(send_pkt))
    BY <1>6, <2>1, TakenIs DEF CliRecv
  <2>3. \A k \in Conns : AllAre(s2c'[k], ReplyTo(send_pkt))
    BY <1>1, <1>6, <2>1, <2>2 DEF CliRecv, LinkTypeOK
  <2> QED
    BY <1>2, <1>6, <2>2, <2>3 DEF CliRecv
<1>7. CASE CliEnqueue
  <2>1. /\ pipe'["reply_client"] = Append(pipe["reply_client"], cli_buf)
        /\ \A n \in PipeNames \ {"reply_client"} : pipe'[n] = pipe[n]
    BY <1>1, <1>7, PipeWriteLength DEF CliEnqueue, PipeNames, ClientTypeOK
  <2>2. AllAre(pipe'["reply_client"], ReplyTo(send_pkt))
    BY <1>1, <1>4, <1>7, <2>1, AppendedAre DEF CliEnqueue, PipeTypeOK, PipeNames
  <2> QED
    BY <1>2, <1>7, <2>1, <2>2 DEF CliEnqueue, PipeNames
<1>8. CASE CliRecvEnd \/ CliRecvShort
  <2>1. \A j \in Conns : c2s'[j] \in {c2s[j], << >>} /\ s2c'[j] \in {s2c[j], << >>}
    BY <1>1, <1>8 DEF CliRecvEnd, CliRecvShort, CliClose, ClientCloses, Emptied, LinkTypeOK
  <2> QED
    BY <1>2, <1>8, <2>1, NoneAre DEF CliRecvEnd, CliRecvShort, CliClose
<1>9. CASE CliReopen \/ CliStopReaders
  BY <1>2, <1>9 DEF CliReopen, CliStopReaders
<1>10. ASSUME NEW k \in Conns, ReaderThread(k) PROVE InFlightMatches'
  <2>1. CASE RdCheck(k) \/ RdSendLost(k) \/ RdConfirm(k)
    <3>1. Senders(rd') \subseteq Senders(rd)
      BY <1>1, <2>1 DEF RdCheck, RdSendLost, RdConfirm, RdGoto, Senders, ClientTypeOK
    <3> QED
      BY <1>2, <2>1, <3>1 DEF RdCheck, RdSendLost, RdConfirm
  <2>2. CASE RdRead(k)
    <3>1. /\ pipe["request_client"] # << >> /\ PipeFirst("request_client") = pipe["request_client"][1]
          /\ pipe'["request_client"] = Tail(pipe["request_client"])
          /\ \A n \in PipeNames \ {"request_client"} : pipe'[n] = pipe[n]
      BY <1>1, <2>2, PipeReadLength DEF RdRead, PipeNames
    <3>2. PipeFirst("request_client") = send_pkt /\ AllAre(pipe'["request_client"], send_pkt)
      BY <1>1, <3>1, TakenIs DEF PipeTypeOK, PipeNames
    <3> QED
      BY <1>2, <2>2, <3>1, <3>2 DEF RdRead, PipeNames
  <2>3. CASE RdSend(k)
    <3>1. Senders(rd') \subseteq Senders(rd) /\ rd_buf = send_pkt /\ nconn \in Conns
      BY <1>1, <1>3, <2>3 DEF RdSend, ClientLinkUp, RdGoto, Senders, ClientTypeOK
    <3>2. AllAre(Append(c2s[nconn], rd_buf), send_pkt)
      BY <1>1, <1>4, <3>1, AppendedAre DEF LinkTypeOK
    <3>3. \A j \in Conns : AllAre(c2s'[j], send_pkt)
      BY <1>1, <2>3, <3>1, <3>2 DEF RdSend, LinkTypeOK
    <3> QED
      BY <1>2, <2>3, <3>1, <3>3 DEF RdSend
  <2>4. CASE ClientKilled(k)
    <3>1. Senders(rd') = {}
      BY <2>4 DEF ClientKilled, Senders
    <3>2. \A j \in Conns : c2s'[j] \in {c2s[j], << >>} /\ s2c'[j] \in {s2c[j], << >>}
      BY <1>1, <2>4 DEF ClientKilled, ClientCloses, Emptied, LinkTypeOK
    <3> QED
      BY <1>2, <2>4, <3>1, <3>2, NoneAre DEF ClientKilled
  <2> QED
    BY <1>10, <2>1, <2>2, <2>3, <2>4 DEF ReaderThread
<1> QED
  BY <1>5, <1>6, <1>7, <1>8, <1>9, <1>10 DEF ClientStep, ClientNext, ClientThread

\* So does the server, in a buffer its reply threads share.
LEMMA ServerMatches ==
    ASSUME Served, InFlightMatches, RServerStep
    PROVE  InFlightMatches'
<1>1. TypeOK /\ PipeTypeOK /\ LinkTypeOK /\ HostTypeOK /\ RServerTypeOK /\ Spawned
  BY DEF Served, TypeOK
<1>2. /\ rd' = rd /\ rd_buf' = rd_buf /\ cli_pc' = cli_pc /\ cli_buf' = cli_buf
      /\ rtl_pc' = rtl_pc /\ rtl_rsp' = rtl_rsp /\ send_pkt' = send_pkt
  BY DEF RServerStep, clientVars, hostVars, rtlVars
<1>3. ClientSockOpen => accepted \in Conns
  BY <1>1, OpenConns DEF Served, ServerServed
<1>4. send_pkt \in Packet /\ ReplyTo(send_pkt) \in Packet
  BY <1>1, PacketFacts DEF HostTypeOK
<1> USE MatchesAfter DEF InFlightMatches, linkVars
<1>5. CASE SrvAccept
  <2>1. Senders(rt') \subseteq Senders(rt)
    BY <1>1, <1>5, OpenConns DEF SrvAccept, Senders, RServerTypeOK
  <2> QED
    BY <1>2, <1>5, <2>1 DEF SrvAccept
<1>6. CASE SrvRecv
  <2>1. c2s[accepted] \in Seq(Packet) /\ c2s[accepted] # << >> /\ accepted \in Conns
    BY <1>1, <1>3, <1>6 DEF SrvRecv, LinkTypeOK, ClientSockOpen
  <2>2. srv_buf' = send_pkt /\ AllAre(Tail(c2s[accepted]), send_pkt)
    BY <1>6, <2>1, TakenIs DEF SrvRecv
  <2>3. \A k \in Conns : AllAre(c2s'[k], send_pkt)
    BY <1>1, <1>6, <2>1, <2>2 DEF SrvRecv, LinkTypeOK
  <2> QED
    BY <1>2, <1>6, <2>2, <2>3 DEF SrvRecv
<1>7. CASE SrvEnqueue
  <2>1. /\ pipe'["request_server"] = Append(pipe["request_server"], srv_buf)
        /\ \A n \in PipeNames \ {"request_server"} : pipe'[n] = pipe[n]
    BY <1>1, <1>7, PipeWriteLength DEF SrvEnqueue, PipeNames, RServerTypeOK
  <2>2. AllAre(pipe'["request_server"], send_pkt)
    BY <1>1, <1>4, <1>7, <2>1, AppendedAre DEF SrvEnqueue, PipeTypeOK, PipeNames
  <2> QED
    BY <1>2, <1>7, <2>1, <2>2 DEF SrvEnqueue, PipeNames
<1>8. CASE SrvRecvEnd \/ SrvRecvShort
  <2>1. \A j \in Conns : c2s'[j] \in {c2s[j], << >>} /\ s2c'[j] \in {s2c[j], << >>}
    BY <1>1, <1>8 DEF SrvRecvEnd, SrvRecvShort, SrvClose, ServerCloses, Emptied, LinkTypeOK
  <2> QED
    BY <1>2, <1>8, <2>1, NoneAre DEF SrvRecvEnd, SrvRecvShort, SrvClose
<1>9. CASE SrvForget \/ SrvStop
  BY <1>2, <1>9 DEF SrvForget, SrvStop
<1>10. ASSUME NEW k \in Conns, ReplyThread(k) PROVE InFlightMatches'
  <2>1. CASE RtStart(k) \/ RtCheck(k) \/ RtSendLost(k) \/ RtConfirm(k)
    <3>1. Senders(rt') \subseteq Senders(rt)
      BY <1>1, <2>1 DEF RtStart, RtCheck, RtSendLost, RtConfirm, RtGoto, Senders, RServerTypeOK
    <3> QED
      BY <1>2, <2>1, <3>1 DEF RtStart, RtCheck, RtSendLost, RtConfirm
  <2>2. CASE RtRead(k)
    <3>1. /\ pipe["reply_server"] # << >> /\ PipeFirst("reply_server") = pipe["reply_server"][1]
          /\ pipe'["reply_server"] = Tail(pipe["reply_server"])
          /\ \A n \in PipeNames \ {"reply_server"} : pipe'[n] = pipe[n]
      BY <1>1, <2>2, PipeReadLength DEF RtRead, PipeNames
    <3>2. /\ PipeFirst("reply_server") = ReplyTo(send_pkt)
          /\ AllAre(pipe'["reply_server"], ReplyTo(send_pkt))
      BY <1>1, <3>1, TakenIs DEF PipeTypeOK, PipeNames
    <3> QED
      BY <1>2, <2>2, <3>1, <3>2 DEF RtRead, PipeNames
  <2>3. CASE RtSend(k)
    <3>1. Senders(rt') \subseteq Senders(rt) /\ rt_buf = ReplyTo(send_pkt) /\ accepted \in Conns
      BY <1>1, <1>3, <2>3 DEF RtSend, ServerLinkUp, RtGoto, Senders, RServerTypeOK
    <3>2. AllAre(Append(s2c[accepted], rt_buf), ReplyTo(send_pkt))
      BY <1>1, <1>4, <3>1, AppendedAre DEF LinkTypeOK
    <3>3. \A j \in Conns : AllAre(s2c'[j], ReplyTo(send_pkt))
      BY <1>1, <2>3, <3>1, <3>2 DEF RtSend, LinkTypeOK
    <3> QED
      BY <1>2, <2>3, <3>1, <3>3 DEF RtSend
  <2>4. CASE ServerKilled(k)
    <3>1. Senders(rt') = {}
      BY <2>4 DEF ServerKilled, Senders
    <3>2. \A j \in Conns : c2s'[j] \in {c2s[j], << >>} /\ s2c'[j] \in {s2c[j], << >>}
      BY <1>1, <2>4 DEF ServerKilled, Emptied, LinkTypeOK
    <3> QED
      BY <1>2, <2>4, <3>1, <3>2, NoneAre DEF ServerKilled
  <2> QED
    BY <1>10, <2>1, <2>2, <2>3, <2>4 DEF ReplyThread
<1> QED
  BY <1>5, <1>6, <1>7, <1>8, <1>9, <1>10 DEF RServerStep, RServerNext, RServerThread

\* No step of anything disturbs what is under way.
LEMMA MatchesNext ==
    ASSUME Served, NeverTwoPackets, InFlightMatches, [Next]_vars
    PROVE  InFlightMatches'
<1>1. CASE UNCHANGED vars
  BY <1>1, MatchesAfter
  DEF vars, linkVars, clientVars, rserverVars, rtlVars, hostVars, InFlightMatches
<1> QED
  BY <1>1, HostMatches, ClientMatches, ServerMatches, RtlMatches, NetworkMatches DEF Next

\* Wherever it is, a request is the host's packet and a reply is the reply to it, in
\* the buffers threads of several connections share as well.
THEOREM InFlightIsTheAccess == Spec => []InFlightMatches
<1>1. Init => InFlightMatches
  BY NoneAre DEF Init, PipeInit, LinkInit, ClientInit, RServerInit, RtlInit, PipeNames,
     InFlightMatches, Senders
<1>2. Served /\ NeverTwoPackets /\ InFlightMatches /\ [Next]_vars => InFlightMatches'
  BY MatchesNext
<1> QED
  BY <1>1, <1>2, ServedInvariance, NeverTwo, PTL DEF Spec

-----------------------------------------------------------------------------
(* The refinement *)

\* Packet numbers count the descriptors the host leaks, so the pipes stop opening
\* before a number is 0; and the request a host waits for is what reaches the device.
Numbered ==
    /\ CanOpenClientPipe => 2 * simics_packet_no = host_fds + 2
    /\ host_pc \in {"send", "wait"} => send_pkt.packet_number # 0
    /\ rtl_pc # "finished"

\* Until the first fault nothing ends a connection, the first one is the only one,
\* and every reply thread of it has its descriptor.
Undisturbed ==
    /\ ended = {}
    /\ cli_pc \in {"connect", "recv", "enqueue"} /\ srv_pc \in {"accept", "recv", "enqueue"}
    /\ cli_pc = "connect" => cli_sock = "fresh" /\ nconn = 0
    /\ srv_pc = "accept" => accepted = 0
    /\ nconn <= 1
    /\ \A k \in Conns : rt[k] \notin {"none", "start"} => rt_fd[k]

IInv == Served /\ NeverTwoPackets /\ InFlightMatches /\ Numbered /\ (faults = 0 => Undisturbed)

\* While the host waits for a request that has not reached the device there is no
\* reply.
LEMMA RequestIsAlone ==
    ASSUME Served, NeverTwoPackets, pipe["request_server"] # << >>
    PROVE  host_pc = "wait" /\ ReplyCopies = 0 /\ RequestCopies = 1
<1>1. CountsAreNat
  BY CountTypes DEF Served
<1>2. InPipe("request_server") > 0
  BY <1>1 DEF CountsAreNat, InPipe, Served, TypeOK, PipeTypeOK, PipeNames
<1>3. RequestCopies \in Nat /\ ReplyCopies \in Nat /\ RequestCopies > 0
  <2>1. PICK a \in Nat, b \in Nat, c \in Nat, d \in Nat, e \in Nat :
            /\ a = InPipe("request_client") /\ b = RdHolding /\ c = C2SCarried
            /\ d = SrvHolding /\ e = InPipe("request_server")
    BY <1>1 DEF CountsAreNat
  <2>2. RequestCopies = a + b + c + d + e /\ e > 0
    BY <1>2, <2>1, CopiesAreSums
  <2> QED
    BY <2>2, CopiesNat DEF Served
<1>4. RequestCopies + ReplyCopies <= (IF host_pc = "wait" THEN 1 ELSE 0)
  BY DEF NeverTwoPackets, Held
<1> QED
  BY <1>3, <1>4

\* A step of the host counts one packet for two descriptors.
LEMMA NumberedNext ==
    ASSUME Served, NeverTwoPackets, InFlightMatches, Numbered, [Next]_vars
    PROVE  Numbered'
<1> USE DEF Numbered, CanOpenClientPipe
<1>1. TypeOK /\ HostTypeOK /\ PipeTypeOK
  BY DEF Served, TypeOK
<1>2. CASE HostStep
  <2> USE <1>1, <1>2 DEF HostStep, HostTypeOK, rtlVars
  <2>1. CASE HostIssue
    <3>1. /\ host_fds \in Nat /\ simics_packet_no \in 0 .. (Modulus - 1)
          /\ host_fds + 2 <= FdLimit /\ 2 * simics_packet_no = host_fds + 2
          /\ send_pkt'.packet_number = simics_packet_no
          /\ simics_packet_no' = (simics_packet_no + 1) % Modulus
          /\ host_fds' = host_fds + 2
          /\ rtl_pc' # "finished"
      BY <2>1 DEF HostIssue, StartAccess
    <3>2. ASSUME host_fds' + 2 <= FdLimit
          PROVE  2 * simics_packet_no' = host_fds' + 2
      <4>1. simics_packet_no + 1 < Modulus
        BY <3>1, <3>2, FdAssumption, TlpAssumption
      <4>2. simics_packet_no' = simics_packet_no + 1
        BY <3>1, <4>1, TlpAssumption
      <4> QED
        BY <3>1, <4>2
    <3>3. send_pkt'.packet_number # 0
      BY <3>1
    <3> QED
      BY <3>1, <3>2, <3>3
  <2>2. CASE HostIssueRefused
    BY <2>2 DEF HostIssueRefused
  <2>3. CASE HostEnqueue \/ HostDequeue
    BY <2>3 DEF HostEnqueue, HostDequeue
  <2> QED
    BY <2>1, <2>2, <2>3 DEF HostNext
<1>3. CASE RtlStep
  <2> USE <1>3 DEF RtlStep, hostVars
  <2>1. CASE DpiRequest \/ DpiRespond
    BY <2>1 DEF DpiRequest, DpiRespond
  <2>2. CASE DpiStop
    <3>1. pipe["request_server"] # << >> /\ PipeFirst("request_server") = pipe["request_server"][1]
      BY <1>1, <2>2, PipeReadLength DEF DpiStop, PipeNames
    <3>2. PipeFirst("request_server") = send_pkt /\ host_pc = "wait"
      BY <1>1, <3>1, TakenIs, RequestIsAlone DEF InFlightMatches, PipeTypeOK, PipeNames
    <3> QED
      BY <2>2, <3>2 DEF DpiStop
  <2> QED
    BY <2>1, <2>2 DEF RtlNext
<1>4. CASE ClientStep \/ RServerStep \/ NetworkStep \/ UNCHANGED vars
  BY <1>4 DEF ClientStep, RServerStep, NetworkStep, vars, hostVars, rtlVars
<1> QED
  BY <1>2, <1>3, <1>4 DEF Next

\* Faults are counted and never forgotten.
LEMMA FaultsStay ==
    ASSUME TypeOK, [Next]_vars, faults' = 0
    PROVE  faults = 0 /\ ~CliRecvShort /\ ~SrvRecvShort /\ ~NetworkStep
<1>1. faults' = faults \/ faults' = faults + 1
  BY DEF Next, HostStep, ClientStep, RServerStep, RtlStep, NetworkStep, linkVars, vars,
     ClientNext, ClientThread, CliConnect, CliRecv, CliEnqueue, CliRecvEnd, CliRecvShort, CliReopen,
     CliStopReaders, ReaderThread, RdCheck, RdRead, RdSend, RdSendLost, RdConfirm, ClientKilled,
     RServerNext, RServerThread, SrvAccept, SrvRecv, SrvEnqueue, SrvRecvEnd, SrvRecvShort,
     SrvForget, SrvStop, ReplyThread, RtStart, RtCheck, RtRead, RtSend, RtSendLost, RtConfirm,
     ServerKilled, Cut
<1>2. faults = 0
  BY <1>1 DEF TypeOK, LinkTypeOK
<1> QED
  BY <1>2 DEF CliRecvShort, SrvRecvShort, NetworkStep, Cut

\* Until the first fault no end sees its connection end, and no thread finds it gone.
LEMMA NoneGivesUp ==
    ASSUME Served, Undisturbed
    PROVE  /\ ~CliRecvEnd /\ ~SrvRecvEnd
           /\ \A k \in Conns : ~RdSendLost(k) /\ ~ClientKilled(k)
           /\ \A k \in Conns : ~RtSendLost(k) /\ ~ServerKilled(k)
<1>1. TypeOK /\ RServerTypeOK /\ ClientServed /\ Spawned
  BY DEF Served, TypeOK
<1>2. ~CliRecvEnd /\ ~SrvRecvEnd
  BY DEF CliRecvEnd, SrvRecvEnd, Undisturbed
<1>3. ASSUME NEW k \in Conns, rd[k] # "none" PROVE ClientLinkUp /\ cli_sock # "fresh"
  <2>1. nconn # 0
    BY <1>1, <1>3, ConnFacts, OpenConns DEF Spawned
  <2> QED
    BY <1>1, <2>1 DEF Undisturbed, ClientServed, ClientLinkUp
<1>4. ASSUME NEW k \in Conns, rt[k] \notin {"none", "start"} PROVE ServerLinkUp(k)
  <2>1. accepted # 0 /\ rt_fd[k]
    BY <1>1, <1>4, ConnFacts, OpenConns DEF Spawned, Undisturbed
  <2> QED
    BY <1>1, <2>1 DEF Undisturbed, ServerLinkUp, ClientSockOpen
<1>5. \A k \in Conns : ~RdSendLost(k) /\ ~ClientKilled(k)
  BY <1>3 DEF RdSendLost, ClientKilled, ClientLinkUp
<1>6. \A k \in Conns : ~RtSendLost(k) /\ ~ServerKilled(k)
  BY <1>4 DEF RtSendLost, ServerKilled, Undisturbed
<1> QED
  BY <1>2, <1>5, <1>6

\* What holds until the first fault can be lost only by the step that counts it.
LEMMA UndisturbedNext ==
    ASSUME Served, faults = 0 => Undisturbed, [Next]_vars, faults' = 0
    PROVE  Undisturbed'
<1>1. TypeOK /\ LinkTypeOK /\ ClientTypeOK /\ RServerTypeOK /\ ClientServed /\ ServerServed /\ Spawned
  BY DEF Served, TypeOK
<1>2. ~CliRecvShort /\ ~SrvRecvShort /\ ~NetworkStep
  BY <1>1, FaultsStay
<1>3. Undisturbed
  BY <1>1, FaultsStay
<1> USE <1>1, <1>3 DEF Undisturbed, linkVars
<1>4. CASE HostStep \/ RtlStep \/ UNCHANGED vars
  BY <1>4 DEF HostStep, RtlStep, vars, clientVars, rserverVars
<1>5. CASE ClientStep
  <2>1. rt' = rt /\ rt_fd' = rt_fd /\ srv_pc' = srv_pc /\ accepted' = accepted
    BY <1>5 DEF ClientStep, rserverVars
  <2>2. CASE CliConnect
    BY <2>1, <2>2 DEF CliConnect
  <2>3. CASE CliRecv \/ CliEnqueue
    BY <2>1, <2>3 DEF CliRecv, CliEnqueue
  <2>4. ~(CliRecvEnd \/ CliRecvShort \/ CliReopen \/ CliStopReaders)
    BY <1>2, NoneGivesUp DEF CliReopen, CliStopReaders
  <2>5. ASSUME NEW k \in Conns, ReaderThread(k) PROVE Undisturbed'
    <3>1. ~ClientKilled(k)
      BY NoneGivesUp
    <3> QED
      BY <2>1, <2>5, <3>1 DEF ReaderThread, RdCheck, RdRead, RdSend, RdSendLost, RdConfirm
  <2> QED
    BY <1>5, <2>2, <2>3, <2>4, <2>5 DEF ClientStep, ClientNext, ClientThread
<1>6. CASE RServerStep
  <2>1. cli_pc' = cli_pc /\ cli_sock' = cli_sock
    BY <1>6 DEF RServerStep, clientVars
  <2>2. CASE SrvAccept
    <3>1. accepted + 1 \in Conns
      BY <2>2, OpenConns DEF SrvAccept
    <3> QED
      BY <2>1, <2>2, <3>1 DEF SrvAccept, RServerTypeOK
  <2>3. CASE SrvRecv \/ SrvEnqueue
    BY <2>1, <2>3 DEF SrvRecv, SrvEnqueue
  <2>4. ~(SrvRecvEnd \/ SrvRecvShort \/ SrvForget \/ SrvStop)
    BY <1>2, NoneGivesUp DEF SrvForget, SrvStop
  <2>5. ASSUME NEW k \in Conns, ReplyThread(k) PROVE Undisturbed'
    <3>1. ~ServerKilled(k)
      BY NoneGivesUp
    <3>2. CASE RtStart(k)
      <4>1. rt[k] # "none" /\ k \in Nat \ {0}
        BY <3>2, ConnFacts DEF RtStart
      <4>2. accepted # 0
        BY <4>1, OpenConns DEF Spawned
      <4>3. ClientSockSet = TRUE
        BY <4>2 DEF ClientSockSet
      <4> QED
        BY <2>1, <3>2, <4>3 DEF RtStart, RtGoto, RServerTypeOK
    <3>3. CASE RtCheck(k) \/ RtRead(k) \/ RtSend(k) \/ RtSendLost(k) \/ RtConfirm(k)
      BY <2>1, <3>3 DEF RtCheck, RtRead, RtSend, RtSendLost, RtConfirm, RtGoto, RServerTypeOK
    <3> QED
      BY <2>5, <3>1, <3>2, <3>3 DEF ReplyThread
  <2> QED
    BY <1>6, <2>2, <2>3, <2>4, <2>5 DEF RServerStep, RServerNext, RServerThread
<1> QED
  BY <1>2, <1>4, <1>5, <1>6 DEF Next

\* The invariant holds at the start ...
LEMMA IInvInit == Init => IInv
<1> SUFFICES ASSUME Init PROVE IInv
  OBVIOUS
<1>1. Numbered
  BY DEF Init, HostInit, RtlInit, Numbered
<1>2. Undisturbed
  BY DEF Init, LinkInit, ClientInit, RServerInit, Undisturbed
<1>3. InFlightMatches
  BY NoneAre DEF Init, PipeInit, LinkInit, ClientInit, RServerInit, RtlInit, PipeNames,
     InFlightMatches, Senders
<1> QED
  BY <1>1, <1>2, <1>3, InitServed, NeverTwoInit DEF IInv

\* ... and after every step.
LEMMA IInvNext == IInv /\ [Next]_vars => IInv'
BY NextServed, NeverTwoNext, MatchesNext, NumberedNext, UndisturbedNext DEF IInv

\* The invariant is inductive, so it holds of every behaviour.
THEOREM Invariance == Spec => []IInv
BY IInvInit, IInvNext, PTL DEF Spec

\* Until the first fault no step loses a packet.
LEMMA NothingLost ==
    ASSUME IInv, [Next]_vars, faults' = 0
    PROVE  ~Loses
<1>1. IInv' /\ Served /\ TypeOK
  BY IInvNext DEF IInv, Served
<1>2. Undisturbed /\ ~CliRecvShort /\ ~SrvRecvShort /\ ~NetworkStep
  BY <1>1, FaultsStay DEF IInv
<1>3. ~DpiStop
  BY <1>1 DEF IInv, Numbered, DpiStop
<1> QED
  BY <1>1, <1>2, <1>3, NoneGivesUp DEF Loses, ClientLoses, ServerLoses

\* Initial states map to initial states.
LEMMA InitRefines == Init => Promise!Init
BY DEF Init, HostInit, Promise!Init, AccessPhase, Promise!ZeroPacket, ZeroPacket

\* A step of the host is one of the abstract access, or puts the request on its way.
LEMMA HostRefines ==
    ASSUME IInv, HostStep
    PROVE  [Promise!Next]_(Promise!raVars)
<1> USE DEF Promise!raVars, Promise!Next, Promise!Packet, Packet, Promise!ZeroPacket, ZeroPacket
<1>1. TypeOK /\ PipeTypeOK /\ HostTypeOK /\ Served /\ InFlightMatches
  BY DEF IInv, Served, TypeOK
<1>2. RequestCopies \in Nat /\ ReplyCopies \in Nat /\ RequestCopies' \in Nat /\ ReplyCopies' \in Nat
  BY <1>1, CopiesFollowOwed DEF HostStep, Next
<1>3. RequestCopies + ReplyCopies <= (IF host_pc = "wait" THEN 1 ELSE 0)
  BY DEF IInv, NeverTwoPackets, Held
<1>4. host_pc # "wait" => RequestCopies = 0 /\ ReplyCopies = 0
  BY <1>2, <1>3
<1>5. CASE HostIssue
  <2>1. send_pkt' \in Packet /\ reply_pkt' = ZeroPacket
    BY <1>1, <1>5 DEF HostIssue, StartAccess, HostTypeOK
  <2>2. ReplyCopies' = 0
    BY <1>1, <1>4, <1>5, HostCounts DEF HostIssue, HostEnqueue, HostDequeue
  <2>3. AccessPhase = "idle" /\ AccessPhase' = "asked"
    BY <1>5, <2>2 DEF HostIssue, AccessPhase, AccessLost
  <2> QED
    BY <2>1, <2>3 DEF Promise!Ask
<1>6. CASE HostIssueRefused
  <2>1. send_pkt' \in Packet /\ reply_pkt' = ZeroPacket
    BY <1>1, <1>6 DEF HostIssueRefused, StartAccess, HostTypeOK
  <2>2. AccessPhase = "idle" /\ AccessPhase' = "idle"
    BY <1>6 DEF HostIssueRefused, AccessPhase
  <2> QED
    BY <2>1, <2>2 DEF Promise!Refuse
<1>7. CASE HostEnqueue
  <2>1. RequestCopies' = 1 /\ ReplyCopies' = 0 /\ ReplyCopies = 0
    BY <1>1, <1>4, <1>7, HostCounts DEF HostIssue, HostIssueRefused, HostEnqueue, HostDequeue
  <2>2. AccessPhase = "asked" /\ AccessPhase' = "asked"
    BY <1>7, <2>1 DEF HostEnqueue, AccessPhase, AccessLost
  <2> QED
    BY <1>7, <2>2 DEF HostEnqueue
<1>8. CASE HostDequeue
  <2>1. pipe["reply_client"] # << >> /\ PipeFirst("reply_client") = pipe["reply_client"][1]
    BY <1>1, <1>8, PipeReadLength DEF HostDequeue, PipeNames
  <2>2. PipeFirst("reply_client") = ReplyTo(send_pkt)
    BY <1>1, <2>1, TakenIs DEF InFlightMatches, PipeTypeOK, PipeNames
  <2>3. ReplyCopies' = ReplyCopies - 1
    BY <1>1, <1>8, HostCounts DEF HostIssue, HostIssueRefused, HostEnqueue, HostDequeue
  <2>4. AccessPhase = "served" /\ AccessPhase' = "idle"
    BY <1>2, <1>8, <2>3 DEF HostDequeue, AccessPhase, AccessLost
  <2> QED
    BY <1>8, <2>2, <2>4 DEF HostDequeue, Promise!Answer, Promise!ReplyTo, ReplyTo
<1> QED
  BY <1>5, <1>6, <1>7, <1>8 DEF HostStep, HostNext

\* A step of anything else serves the access, loses it, or changes nothing the host
\* could tell.
LEMMA RelayRefines ==
    ASSUME IInv, ClientStep \/ RServerStep \/ RtlStep \/ NetworkStep
    PROVE  [Promise!Next]_(Promise!raVars)
<1> USE DEF Promise!raVars, Promise!Next
<1>1. Served /\ [Next]_vars /\ IInv'
  BY IInvNext DEF IInv, Next
<1>2. RequestCopies \in Nat /\ ReplyCopies \in Nat /\ RequestCopies' \in Nat /\ ReplyCopies' \in Nat
  BY <1>1, CopiesFollowOwed
<1>3. UNCHANGED <<host_pc, send_pkt, reply_pkt>>
  BY DEF ClientStep, RServerStep, RtlStep, NetworkStep, hostVars
<1>4. RequestCopies + ReplyCopies <= (IF host_pc = "wait" THEN 1 ELSE 0)
  BY DEF IInv, NeverTwoPackets, Held
<1>5. CASE RequestCopies' = RequestCopies /\ ReplyCopies' = ReplyCopies
  BY <1>3, <1>5 DEF AccessPhase, AccessLost
<1>6. PICK a \in Nat, b \in Nat, c \in Nat, d \in Nat :
         a = RequestCopies /\ b = ReplyCopies /\ c = RequestCopies' /\ d = ReplyCopies'
  BY <1>2
<1>7. a + b <= (IF host_pc = "wait" THEN 1 ELSE 0)
  BY <1>4, <1>6
<1>8. CASE Loses /\ RequestCopies' <= RequestCopies /\ ReplyCopies' <= ReplyCopies
           /\ ~(RequestCopies' = RequestCopies /\ ReplyCopies' = ReplyCopies)
  <2>1. c <= a /\ d <= b /\ ~(c = a /\ d = b)
    BY <1>8, <1>6
  <2>2. host_pc = "wait" /\ a + b = 1 /\ c = 0 /\ d = 0
    BY <1>7, <2>1
  <2>3. host_pc = "wait" /\ RequestCopies + ReplyCopies = 1 /\ RequestCopies' + ReplyCopies' = 0
    BY <1>6, <2>2
  <2>4. MaxFaults > 0
    BY <1>1, <1>8, NothingLost, TcpAssumption DEF IInv, Served, TypeOK, LinkTypeOK
  <2>5. AccessPhase \in {"asked", "served"} /\ AccessPhase' = "lost"
    BY <1>3, <2>3 DEF AccessPhase, AccessLost
  <2> QED
    BY <1>3, <2>4, <2>5 DEF Promise!Lose
<1>9. CASE RequestCopies' = RequestCopies - 1 /\ ReplyCopies' = ReplyCopies + 1
  <2>1. c = a - 1 /\ d = b + 1
    BY <1>9, <1>6
  <2>2. host_pc = "wait" /\ a = 1 /\ b = 0 /\ c = 0 /\ d = 1
    BY <1>7, <2>1
  <2>3. host_pc = "wait" /\ RequestCopies = 1 /\ ReplyCopies = 0
        /\ RequestCopies' = 0 /\ ReplyCopies' = 1
    BY <1>6, <2>2
  <2>4. ~AccessLost /\ ~AccessLost'
    BY <2>3 DEF AccessLost
  <2>5. AccessPhase = "asked" /\ AccessPhase' = "served"
    BY <1>3, <2>3, <2>4 DEF AccessPhase
  <2> QED
    BY <1>3, <2>5 DEF Promise!Serve
<1>10. ~DpiStop
  BY <1>1 DEF IInv, Numbered, DpiStop
<1>11. CASE ClientStep
  BY <1>1, <1>5, <1>8, <1>11, ClientCounts DEF Loses
<1>12. CASE RServerStep
  BY <1>1, <1>5, <1>8, <1>12, ServerCounts DEF Loses
<1>13. CASE NetworkStep
  BY <1>1, <1>5, <1>8, <1>13, NetworkCounts DEF Loses
<1>14. CASE RtlStep
  BY <1>1, <1>5, <1>9, <1>10, <1>14, RtlCounts
<1> QED
  BY <1>11, <1>12, <1>13, <1>14

\* Over TCP an access is served at most once and completed by its own reply only,
\* and without a fault of the network it is not lost.
THEOREM IpRelayImplementsPromise == Spec => ImplementsPromise
<1>1. IInv /\ [Next]_vars => [Promise!Next]_(Promise!raVars)
  <2>1. UNCHANGED vars => UNCHANGED Promise!raVars
    <3> SUFFICES ASSUME UNCHANGED vars PROVE UNCHANGED Promise!raVars
      OBVIOUS
    <3>1. RequestCopies' = RequestCopies /\ ReplyCopies' = ReplyCopies
      BY CopiesAreSums, CopiesAreSumsAfter, SameHolding
      DEF vars, linkVars, clientVars, rserverVars, rtlVars, PipesSame
    <3> QED
      BY <3>1 DEF vars, hostVars, AccessPhase, AccessLost, Promise!raVars
  <2> QED
    BY <2>1, HostRefines, RelayRefines DEF Next
<1> QED
  BY <1>1, InitRefines, Invariance, PTL DEF Spec, ImplementsPromise, Promise!Spec
=============================================================================
