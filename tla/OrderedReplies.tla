--------------------------- MODULE OrderedReplies --------------------------
(***************************************************************************)
(* A weaker promise than RemoteAccess, for hosts that do not always wait:  *)
(* the relay is a queue.  Every request is answered once, in the order of  *)
(* the requests, whoever is there to take the answer.                      *)
(***************************************************************************)
EXTENDS Tlp, Sequences

VARIABLES
  owing,   \* the replies owed, in the order of their requests
  reply    \* what the host's reply buffer holds

orVars == <<owing, reply>>

Init == owing = << >> /\ reply = ZeroPacket

\* A request enters the relay.
Request == /\ \E req \in Packet : owing' = Append(owing, ReplyTo(req))
           /\ UNCHANGED reply

\* The reply owed longest leaves it.
Reply == /\ owing # << >>
         /\ reply' = Head(owing)
         /\ owing' = Tail(owing)

\* The host clears its buffer.
Clear == /\ reply' = ZeroPacket
         /\ UNCHANGED owing

Next == Request \/ Reply \/ Clear

Spec == Init /\ [][Next]_orVars
=============================================================================
