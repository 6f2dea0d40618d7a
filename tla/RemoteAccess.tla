---------------------------- MODULE RemoteAccess ---------------------------
(***************************************************************************)
(* What the relay promises the host, whatever lies between the host and    *)
(* the device: an access that is accepted is performed by the device at    *)
(* most once and is completed only by the device's reply to it.            *)
(***************************************************************************)
EXTENDS Tlp

CONSTANT MayLose   \* BOOLEAN: a transport that can fail may lose the access for good

VARIABLES
  phase,     \* "idle", "asked", "served", "lost"
  request,   \* the access in progress, or the last one
  reply      \* what the host's reply buffer holds

raVars == <<phase, request, reply>>

Init == phase = "idle" /\ request = ZeroPacket /\ reply = ZeroPacket

\* The host issues an access the relay accepts.
Ask == /\ phase = "idle"
       /\ phase' = "asked"
       /\ request' \in Packet
       /\ reply' = ZeroPacket

\* The host issues an access that is completed at once, with a cleared reply.
Refuse == /\ phase = "idle"
          /\ request' \in Packet
          /\ reply' = ZeroPacket
          /\ UNCHANGED phase

\* The device performs the access.
Serve == /\ phase = "asked"
         /\ phase' = "served"
         /\ UNCHANGED <<request, reply>>

\* The device's reply completes the access.
Answer == /\ phase = "served"
          /\ phase' = "idle"
          /\ reply' = ReplyTo(request)
          /\ UNCHANGED request

\* The request or its reply is gone: the access never completes.
Lose == /\ MayLose
        /\ phase \in {"asked", "served"}
        /\ phase' = "lost"
        /\ UNCHANGED <<request, reply>>

Next == Ask \/ Refuse \/ Serve \/ Answer \/ Lose

Spec == Init /\ [][Next]_raVars
=============================================================================
