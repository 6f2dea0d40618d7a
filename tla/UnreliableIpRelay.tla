------------------------- MODULE UnreliableIpRelay -------------------------
(***************************************************************************)
(* The relay over TCP with a host whose calls are interrupted as well as a *)
(* network that fails.  Accesses that stopped waiting leave packets        *)
(* behind, so several packets are under way and several threads of one     *)
(* process hold one.  The host is not restarted (UnreliableFifoRelay), so  *)
(* that the packet numbers tell the order of the requests.                 *)
(***************************************************************************)
EXTENDS IpRelay, HostFaults

uvars == <<vars, faultVars>>

relayVars == <<linkVars, clientVars, rserverVars, rtlVars>>

UInit == Init /\ FaultInit

FaultStep == (HostEnqueueFails \/ HostDequeueFails) /\ UNCHANGED relayVars

UNext == \/ Next /\ UNCHANGED faultVars
         \/ FaultStep

USpec == UInit /\ [][UNext]_uvars

-----------------------------------------------------------------------------
(* Properties *)

\* However threads race and connections break, the relay never makes a packet
\* out of nothing: what is under way is at most what is owed, an access that waits
\* and those that were abandoned, less the requests that were never written.
NeverMoreThanOwed ==
    RequestCopies + ReplyCopies + unsent <= Held(host_pc = "wait") + abandoned

\* Everything under way, oldest first, with what is on connection j to the client
\* and on connection k to the server.  Threads that share a buffer hold one packet.
Path(j, k) == pipe["reply_client"] \o One(cli_pc = "enqueue", cli_buf) \o s2c[j]
              \o One(Senders(rt) # {}, rt_buf) \o pipe["reply_server"]
              \o One(rtl_pc = "respond", rtl_rsp)
              \o pipe["request_server"] \o One(srv_pc = "enqueue", srv_buf) \o c2s[k]
              \o One(Senders(rd) # {}, rd_buf) \o pipe["request_client"]

\* The reply of the access before, as long as the host keeps it.
Returned == One(host_pc = "idle" /\ reply_pkt # ZeroPacket, reply_pkt)

Ascending(s) == \A i, j \in DOMAIN s : i < j => s[i].packet_number <= s[j].packet_number

\* No packet overtakes another on the way out or on the way back, whichever
\* generation of threads carries it and over whichever connection: an interrupted
\* host may get a stale reply, but never one older than a reply it already has.
NoOvertaking ==
    \A j, k \in Conns : /\ Ascending(Returned \o Path(j, k))
                        /\ j < k => Ascending(s2c[j] \o s2c[k]) /\ Ascending(c2s[j] \o c2s[k])

\* Before the network fails there is only one connection.
Owing == [i \in DOMAIN Path(1, 1) |-> ReplyTo(Path(1, 1)[i])]

Queue == INSTANCE OrderedReplies WITH owing <- Owing, reply <- reply_pkt

\* Until the network fails the relay over TCP is the same queue of replies owed as
\* the relay on one machine, whatever the host does.
ServesInOrder == /\ Queue!Init
                 /\ [][faults' = 0 => [Queue!Next]_(Queue!orVars)]_uvars
=============================================================================
