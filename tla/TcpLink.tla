------------------------------ MODULE TcpLink ------------------------------
(***************************************************************************)
(* The TCP connections between the relay client and the relay server, as   *)
(* the kernel provides them to cxlcommlib.c.  Connections are numbered in  *)
(* the order connect(2) makes them, which is the order accept(2) returns   *)
(* them in.                                                                *)
(***************************************************************************)
EXTENDS Tlp, Sequences

CONSTANT MaxFaults   \* bound on what the network does to the connections

ASSUME TcpAssumption == MaxFaults \in Nat

VARIABLES
  nconn,    \* connections made so far
  c2s,      \* packets on their way from client to server, per connection
  s2c,      \* packets on their way from server to client, per connection
  ended,    \* connections cut by the network or closed by one of the ends
  faults,   \* network faults so far
  listening \* whether the server process is there to be connected to

linkVars == <<nconn, c2s, s2c, ended, faults, listening>>

\* A connection ends only after a fault, so there is one more of them than faults.
Conns == 1 .. (MaxFaults + 1)

LinkTypeOK == /\ nconn \in 0 .. (MaxFaults + 1)
              /\ c2s \in [Conns -> Seq(Packet)]
              /\ s2c \in [Conns -> Seq(Packet)]
              /\ ended \subseteq 1 .. nconn
              /\ faults \in 0 .. MaxFaults
              /\ listening \in BOOLEAN

LinkInit == /\ nconn = 0
            /\ c2s = [k \in Conns |-> << >>]
            /\ s2c = [k \in Conns |-> << >>]
            /\ ended = {}
            /\ faults = 0
            /\ listening = TRUE

Emptied(q, k) == [q EXCEPT ![k] = << >>]

\* The network cuts a connection; what was under way arrives or does not.
Cut(k) == /\ k \in 1 .. nconn
          /\ k \notin ended
          /\ faults < MaxFaults
          /\ faults' = faults + 1
          /\ ended' = ended \cup {k}
          /\ c2s' \in {c2s, Emptied(c2s, k)}
          /\ s2c' \in {s2c, Emptied(s2c, k)}
          /\ UNCHANGED <<nconn, listening>>

\* The client, or the server, closes its end: what it has not read is dropped,
\* and what it sent last may be dropped by the reset that follows.
ClientCloses(k) == /\ ended' = ended \cup {k}
                   /\ s2c' = Emptied(s2c, k)
                   /\ c2s' \in {c2s, Emptied(c2s, k)}

ServerCloses(k) == /\ ended' = ended \cup {k}
                   /\ c2s' = Emptied(c2s, k)
                   /\ s2c' \in {s2c, Emptied(s2c, k)}
=============================================================================
