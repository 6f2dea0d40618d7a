------------------------ MODULE UnreliableFifoRelay ------------------------
(***************************************************************************)
(* The relay on one machine with a host that fails: what holds of the      *)
(* packets when accesses are abandoned and Simics is restarted.            *)
(***************************************************************************)
EXTENDS FifoRelay, HostFaults

uvars == <<vars, faultVars>>

UInit == Init /\ FaultInit

FaultStep == HostFault /\ UNCHANGED <<serverVars, rtlVars>>

UNext == \/ Next /\ UNCHANGED faultVars
         \/ FaultStep

USpec == UInit /\ [][UNext]_uvars

UFairSpec ==
    /\ USpec
    /\ WF_uvars((HostEnqueue \/ HostDequeue) /\ UNCHANGED <<serverVars, rtlVars, faultVars>>)
    /\ WF_uvars((RequestRead \/ RequestWrite) /\ UNCHANGED <<hostVars, rtlVars, faultVars>>)
    /\ WF_uvars((ReplyRead \/ ReplyWrite) /\ UNCHANGED <<hostVars, rtlVars, faultVars>>)
    /\ WF_uvars(RtlStep /\ UNCHANGED faultVars)

-----------------------------------------------------------------------------
(* Properties *)

\* Every variable holds a value its declaration allows.
UTypeOK == TypeOK /\ FaultTypeOK

\* The surplus of packets over waiting accesses is exactly what was abandoned
\* less what was never written: the relay itself creates and destroys nothing,
\* and the host, which compares no numbers, never gets back in step by itself.
Surplus == Copies + unsent = Held(host_pc = "wait") + abandoned

\* Everything under way, oldest first, as the replies it will become.
Owing == LET under_way == pipe["reply_client"] \o One(rep_pc = "write", rep_buf)
                          \o pipe["reply_server"] \o One(rtl_pc = "respond", rtl_rsp)
                          \o pipe["request_server"] \o One(req_pc = "write", req_buf)
                          \o pipe["request_client"]
         IN  [i \in DOMAIN under_way |-> ReplyTo(under_way[i])]

Queue == INSTANCE OrderedReplies WITH owing <- Owing, reply <- reply_pkt

\* Whatever the host does, requests are answered once each and in order.
ServesInOrder == Queue!Spec

\* Packets that four full pipes and the three threads between them hold.
Capacity == 4 * PipeCap + 3

\* An access whose request was written, with no unwritten one before it, returns,
\* whatever earlier ones left behind.  Only as many leftovers as fill every pipe and
\* every thread prevent that: then the host's own write blocks, and everybody waits
\* on everybody.
WedgedOnlyWhenFull ==
    (host_pc # "idle" /\ unsent = 0) ~> (host_pc = "idle" \/ unsent > 0 \/ abandoned >= Capacity)

\* The reply an access completes with is the reply to that access
\* (dml_debug.c:180 reports the time of the reply under spd->packet_number).
ReplyAnswersAccess ==
    (host_pc = "idle" /\ reply_pkt # ZeroPacket) => reply_pkt = ReplyTo(send_pkt)
=============================================================================
