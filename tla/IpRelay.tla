------------------------------ MODULE IpRelay ------------------------------
(***************************************************************************)
(* The relay over TCP/IP: the Simics host and cxlrelayclient on one        *)
(* machine, cxlrelayserver and the RTL simulation on another.              *)
(***************************************************************************)
EXTENDS SimicsHost, RelayClient, RelayServer, RtlDevice, FiniteSets

vars == <<pipe, linkVars, hostVars, clientVars, rserverVars, rtlVars>>

Init == PipeInit /\ LinkInit /\ HostInit /\ ClientInit /\ RServerInit /\ RtlInit

HostStep    == HostNext /\ UNCHANGED <<linkVars, clientVars, rserverVars, rtlVars>>
ClientStep  == ClientNext /\ UNCHANGED <<hostVars, rserverVars, rtlVars>>
RServerStep == RServerNext /\ UNCHANGED <<hostVars, clientVars, rtlVars>>
RtlStep     == RtlNext /\ UNCHANGED <<linkVars, hostVars, clientVars, rserverVars>>
NetworkStep == (\E k \in Conns : Cut(k)) /\ UNCHANGED <<pipe, hostVars, clientVars, rserverVars, rtlVars>>

Next == HostStep \/ ClientStep \/ RServerStep \/ RtlStep \/ NetworkStep

Spec == Init /\ [][Next]_vars

(***************************************************************************)
(* Every thread runs when it can; the network need not fail.               *)
(***************************************************************************)
InClient(A)  == A /\ UNCHANGED <<hostVars, rserverVars, rtlVars>>
InRServer(A) == A /\ UNCHANGED <<hostVars, clientVars, rtlVars>>

Fairness ==
    /\ WF_vars((HostEnqueue \/ HostDequeue) /\ UNCHANGED <<linkVars, clientVars, rserverVars, rtlVars>>)
    /\ WF_vars(InClient(ClientThread))
    /\ WF_vars(InRServer(RServerThread))
    /\ WF_vars(RtlStep)
    /\ \A k \in Conns : WF_vars(InClient(ReaderThread(k))) /\ WF_vars(InRServer(ReplyThread(k)))

FairSpec == Spec /\ Fairness

-----------------------------------------------------------------------------
(* Properties *)

\* Every variable holds a value its declaration allows.
TypeOK == PipeTypeOK /\ LinkTypeOK /\ HostTypeOK /\ ClientTypeOK /\ RServerTypeOK /\ RtlTypeOK

Held(atPc) == IF atPc THEN 1 ELSE 0

\* Threads that hold a packet they have read and not yet sent.
Senders(th) == {k \in Conns : th[k] = "send"}

\* Packets under way on the connections.
Carried(q) == UNION {{k} \X DOMAIN q[k] : k \in Conns}

RequestCopies == Len(pipe["request_client"]) + Cardinality(Senders(rd)) + Cardinality(Carried(c2s))
                 + Held(srv_pc = "enqueue") + Len(pipe["request_server"])

ReplyCopies == Held(rtl_pc = "respond") + Len(pipe["reply_server"]) + Cardinality(Senders(rt))
               + Cardinality(Carried(s2c)) + Held(cli_pc = "enqueue") + Len(pipe["reply_client"])

\* However often the connection is cut, and however many reader and reply threads
\* of earlier connections are left, a request is never sent twice and a reply
\* never delivered twice: there is at most one packet, and only while the host waits.
NeverTwoPackets == RequestCopies + ReplyCopies <= Held(host_pc = "wait")

AllAre(s, pkt) == \A i \in 1 .. Len(s) : s[i] = pkt

\* A request is the host's packet wherever it is, and a reply is the reply to it,
\* in buffers that several threads share as well.
InFlightMatches ==
    /\ \A n \in {"request_client", "request_server"} : AllAre(pipe[n], send_pkt)
    /\ \A n \in {"reply_client", "reply_server"} : AllAre(pipe[n], ReplyTo(send_pkt))
    /\ \A k \in Conns : AllAre(c2s[k], send_pkt) /\ AllAre(s2c[k], ReplyTo(send_pkt))
    /\ Senders(rd) # {} => rd_buf = send_pkt
    /\ srv_pc = "enqueue" => srv_buf = send_pkt
    /\ rtl_pc = "respond" => rtl_rsp = send_pkt
    /\ Senders(rt) # {} => rt_buf = ReplyTo(send_pkt)
    /\ cli_pc = "enqueue" => cli_buf = ReplyTo(send_pkt)

Alive(th) == {k \in Conns : th[k] \notin {"none", "gone"}}

\* While an end has a connection open it has a thread that serves the other
\* direction of it: the stop flag, set late and cleared by the next connection,
\* never stops the last one.  On the server that thread has a descriptor or has
\* yet to read it.
EndsAreServed ==
    /\ cli_sock = "connected" => Alive(rd) # {}
    /\ ClientSockOpen => \E k \in Alive(rt) : rt[k] = "start" \/ rt_fd[k]

\* A reply thread that has taken a reply has a socket to send it to
\* (cxl_tlp_relay_server.c:168, "Spawning reply back thread with cxl_clientsock").
HeldReplyHasSocket == \A k \in Senders(rt) : rt_fd[k]

\* The access is gone: the host waits and nothing is under way.
AccessLost == host_pc = "wait" /\ RequestCopies + ReplyCopies = 0

AccessPhase == IF host_pc = "idle" THEN "idle"
               ELSE IF AccessLost THEN "lost"
               ELSE IF ReplyCopies > 0 THEN "served" ELSE "asked"

Promise == INSTANCE RemoteAccess WITH phase <- AccessPhase, request <- send_pkt,
                                      reply <- reply_pkt, MayLose <- MaxFaults > 0

\* Over TCP too an access is served at most once and completed by its own reply
\* only; it can be lost, but only if the network fails.
ImplementsPromise == Promise!Spec

\* An access ends: it returns, or it is lost, or a relay process has been killed.
RelayKilled == cli_pc = "killed" \/ srv_pc = "killed"
EveryAccessEnds == host_pc # "idle" ~> (host_pc = "idle" \/ AccessLost \/ RelayKilled)

\* When the network has stopped failing the two ends meet on a working
\* connection and stay on it, unless one of them has been killed.
Reconnects == <>[](\/ RelayKilled
                   \/ ClientLinkUp /\ ClientSockOpen /\ accepted = nconn)

\* Nothing is lost while the network works: an access the host issued returns, unless
\* the network fails after all.
EveryAccessReturns == (host_pc # "idle" /\ faults = 0) ~> (host_pc = "idle" \/ faults > 0)
=============================================================================
