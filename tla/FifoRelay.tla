----------------------------- MODULE FifoRelay -----------------------------
(***************************************************************************)
(* The relay on one machine (CXL_RELAY_OVER_IP is not "yes"): the Simics   *)
(* host, the two threads of cxlrelayserver and the RTL simulation, which   *)
(* share nothing but the four named pipes.                                 *)
(***************************************************************************)
EXTENDS SimicsHost, FifoServer, RtlDevice

vars == <<pipe, hostVars, serverVars, rtlVars>>

Init == PipeInit /\ HostInit /\ ServerInit /\ RtlInit

HostStep   == HostNext /\ UNCHANGED <<serverVars, rtlVars>>
ServerStep == ServerNext /\ UNCHANGED <<hostVars, rtlVars>>
RtlStep    == RtlNext /\ UNCHANGED <<hostVars, serverVars>>

Next == HostStep \/ ServerStep \/ RtlStep

Spec == Init /\ [][Next]_vars

(***************************************************************************)
(* Every thread runs when it can.  Nothing obliges Simics to issue another *)
(* access.                                                                 *)
(***************************************************************************)
Fairness == /\ WF_vars((HostEnqueue \/ HostDequeue) /\ UNCHANGED <<serverVars, rtlVars>>)
            /\ WF_vars((RequestRead \/ RequestWrite) /\ UNCHANGED <<hostVars, rtlVars>>)
            /\ WF_vars((ReplyRead \/ ReplyWrite) /\ UNCHANGED <<hostVars, rtlVars>>)
            /\ WF_vars(RtlStep)

FairSpec == Spec /\ Fairness

-----------------------------------------------------------------------------
(* Properties *)

\* Every variable holds a value its C or SystemVerilog declaration allows.
TypeOK == PipeTypeOK /\ HostTypeOK /\ ServerTypeOK /\ RtlTypeOK

Held(atPc) == IF atPc THEN 1 ELSE 0

\* Packets in the pipes and in the hands of a thread.
Copies == Len(pipe["request_client"]) + Held(req_pc = "write")
          + Len(pipe["request_server"]) + Held(rtl_pc = "respond")
          + Len(pipe["reply_server"]) + Held(rep_pc = "write")
          + Len(pipe["reply_client"])

\* While the host waits exactly one packet is on its way, request or reply, and
\* otherwise none: no stage drops, keeps or repeats a packet, and no reply is
\* left for the next access.  A device that stopped keeps the packet it stopped on.
Conservation == Copies + Held(rtl_pc = "finished") = Held(host_pc = "wait")

AllAre(s, pkt) == \A i \in 1 .. Len(s) : s[i] = pkt

\* A request is the host's packet wherever it is, and a reply is the reply to it.
InFlightMatches ==
    /\ \A n \in {"request_client", "request_server"} : AllAre(pipe[n], send_pkt)
    /\ \A n \in {"reply_client", "reply_server"} : AllAre(pipe[n], ReplyTo(send_pkt))
    /\ req_pc = "write" => req_buf = send_pkt
    /\ rtl_pc = "respond" => rtl_rsp = send_pkt
    /\ rep_pc = "write" => rep_buf = ReplyTo(send_pkt)

\* As long as the host can still open its pipes, the packet number counts the
\* descriptors it has leaked: two for every access so far.
NumberCountsLeak ==
    CanOpenClientPipe => 2 * simics_packet_no = host_fds + 2

\* No access carries the number that stops the device: descriptors run out
\* before simics_packet_no wraps, so Simics never ends the RTL simulation.
NeverStopsDevice == /\ host_pc \in {"send", "wait"} => send_pkt.packet_number # 0
                    /\ rtl_pc # "finished"

\* The host is between two accesses and can no longer open its pipes.
Exhausted == host_pc = "idle" /\ ~CanOpenClientPipe

\* When descriptors have run out between two accesses the host is cut off for
\* good, and silently: it goes on completing accesses, none of which moves a packet
\* in the relay or reaches the device, and nothing sent before is still under way.
RefusedForGood == [][Exhausted => Exhausted' /\ UNCHANGED <<pipe, serverVars, rtlVars>>]_vars

\* Where the access is, for the abstract specification.
ReplyOnItsWay == \/ rtl_pc = "respond"
                 \/ pipe["reply_server"] # << >>
                 \/ rep_pc = "write"
                 \/ pipe["reply_client"] # << >>

AccessPhase == IF host_pc = "idle" THEN "idle"
               ELSE IF ReplyOnItsWay THEN "served" ELSE "asked"

Promise == INSTANCE RemoteAccess WITH phase <- AccessPhase, request <- send_pkt,
                                      reply <- reply_pkt, MayLose <- FALSE

\* The relay implements the abstract remote access, without ever losing one.
ImplementsPromise == Promise!Spec

\* An access the host issued returns.
EveryAccessReturns == host_pc # "idle" ~> host_pc = "idle"

\* When an access has returned, the reply buffer holds the device's reply to it
\* (forward-receiver.c:123, "relay the replied data back to simics").
RepliedDataRelayed == host_pc = "idle" /\ send_pkt # ZeroPacket => reply_pkt = ReplyTo(send_pkt)
=============================================================================
