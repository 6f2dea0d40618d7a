------------------------- MODULE CrashingFifoRelay -------------------------
(***************************************************************************)
(* The relay on one machine with a server and a simulation that die, are   *)
(* started again, and whose pipe calls fail.                               *)
(***************************************************************************)
EXTENDS RelayFaults

cvars == <<vars, relayFaultVars>>

CInit == Init /\ RelayFaultInit

RunningStep ==
    /\ \/ HostStep
       \/ server_up /\ ServerStep
       \/ (DpiRequest \/ DpiRespond) /\ UNCHANGED <<hostVars, serverVars>>
    /\ UNCHANGED relayFaultVars

CNext == RunningStep \/ ServerFault \/ RtlFault

CSpec == CInit /\ [][CNext]_cvars

(***************************************************************************)
(* Threads run when they can while their process is there.  Nobody need    *)
(* start a dead process again.                                             *)
(***************************************************************************)
CFairSpec ==
    /\ CSpec
    /\ WF_cvars((HostEnqueue \/ HostDequeue) /\ UNCHANGED <<serverVars, rtlVars, relayFaultVars>>)
    /\ WF_cvars(server_up /\ (RequestRead \/ RequestWrite)
                /\ UNCHANGED <<hostVars, rtlVars, relayFaultVars>>)
    /\ WF_cvars(server_up /\ (ReplyRead \/ ReplyWrite)
                /\ UNCHANGED <<hostVars, rtlVars, relayFaultVars>>)
    /\ WF_cvars(\/ (DpiRequest \/ DpiRespond) /\ UNCHANGED <<hostVars, serverVars, relayFaultVars>>
                \/ RtlStops)

-----------------------------------------------------------------------------
(* Properties *)

\* Packets appear out of nothing only when a failed read is taken for a successful
\* one: deaths, restarts and failed writes lose packets and never repeat one.
NeverMoreThanOwed == Copies <= Held(host_pc = "wait") + repeated

\* The access is gone: the host waits and nothing is under way.
AccessLost == host_pc = "wait" /\ Copies = 0

CrashPhase == IF host_pc = "idle" THEN "idle"
              ELSE IF AccessLost THEN "lost"
              ELSE IF ReplyOnItsWay THEN "served" ELSE "asked"

LossyPromise == INSTANCE RemoteAccess WITH phase <- CrashPhase, request <- send_pkt,
                                           reply <- reply_pkt, MayLose <- TRUE

\* With processes that die at any point and are started again, and with pipe calls that
\* fail, an access is still served at most once and completed by its own reply only,
\* or it is lost, until a failed read is taken for one that worked.
ImplementsLossyPromise ==
    /\ LossyPromise!Init
    /\ [][repeated' = 0 => [LossyPromise!Next]_(LossyPromise!raVars)]_cvars

\* An access does not hang while both processes run: it returns, or it is lost.
EveryAccessEnds == host_pc # "idle" ~> (host_pc = "idle" \/ AccessLost \/ ~server_up \/ ~RtlUp)
=============================================================================
