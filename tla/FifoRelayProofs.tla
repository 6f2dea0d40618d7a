-------------------------- MODULE FifoRelayProofs --------------------------
(* Theorems about the relay on one machine, for every Addr, Modulus,       *)
(* PipeCap and FdLimit: FifoRelay itself, UnreliableFifoRelay for every    *)
(* MaxHostFaults, CrashingFifoRelay for every FaultKinds and               *)
(* MaxRelayFaults.                                                         *)
EXTENDS UnreliableFifoRelay, CrashingFifoRelay, NamedPipeProofs

\* The initial state is well typed.
LEMMA InitType == Init => TypeOK
BY PacketFacts, TlpAssumption, FdAssumption
DEF Init, PipeInit, HostInit, ServerInit, RtlInit, TypeOK, PipeTypeOK, HostTypeOK,
    ServerTypeOK, RtlTypeOK

\* Every step keeps the variables well typed.
LEMMA NextType == TypeOK /\ [Next]_vars => TypeOK'
<1> SUFFICES ASSUME TypeOK, [Next]_vars PROVE TypeOK'
  OBVIOUS
<1> USE PacketFacts DEF TypeOK, PipeNames
<1>1. ASSUME HostStep PROVE TypeOK'
  <2> USE <1>1, FdAssumption, TlpAssumption DEF HostStep, HostTypeOK
  <2>1. ASSUME StartAccess
        PROVE send_pkt' \in Packet /\ reply_pkt' \in Packet /\ simics_packet_no' \in 0 .. (Modulus - 1)
    BY <2>1 DEF StartAccess, Packet
  <2>2. CASE HostIssue
    BY <2>1, <2>2 DEF HostIssue, CanOpenClientPipe, serverVars, rtlVars, PipeTypeOK, ServerTypeOK, RtlTypeOK
  <2>3. CASE HostIssueRefused
    BY <2>1, <2>3 DEF HostIssueRefused, serverVars, rtlVars, PipeTypeOK, ServerTypeOK, RtlTypeOK
  <2>4. CASE HostEnqueue
    BY <2>4, PipeWriteType DEF HostEnqueue, serverVars, rtlVars, ServerTypeOK, RtlTypeOK
  <2>5. CASE HostDequeue
    BY <2>5, PipeReadType DEF HostDequeue, serverVars, rtlVars, ServerTypeOK, RtlTypeOK
  <2> QED
    BY <2>2, <2>3, <2>4, <2>5 DEF HostNext
<1>2. ASSUME ServerStep PROVE TypeOK'
  <2> USE <1>2 DEF ServerStep, ServerTypeOK, hostVars, rtlVars, HostTypeOK, RtlTypeOK
  <2>1. CASE RequestRead
    BY <2>1, PipeReadType DEF RequestRead
  <2>2. CASE RequestWrite
    BY <2>2, PipeWriteType DEF RequestWrite
  <2>3. CASE ReplyRead
    BY <2>3, PipeReadType DEF ReplyRead
  <2>4. CASE ReplyWrite
    BY <2>4, PipeWriteType DEF ReplyWrite
  <2> QED
    BY <2>1, <2>2, <2>3, <2>4 DEF ServerNext
<1>3. ASSUME RtlStep PROVE TypeOK'
  <2> USE <1>3 DEF RtlStep, RtlTypeOK, hostVars, serverVars, HostTypeOK, ServerTypeOK
  <2>1. CASE DpiRequest
    BY <2>1, PipeReadType DEF DpiRequest
  <2>2. CASE DpiStop
    BY <2>2, PipeReadType DEF DpiStop
  <2>3. CASE DpiRespond
    BY <2>3, PipeWriteType DEF DpiRespond
  <2> QED
    BY <2>1, <2>2, <2>3 DEF RtlNext
<1>4. ASSUME UNCHANGED vars PROVE TypeOK'
  BY <1>4 DEF vars, hostVars, serverVars, rtlVars, PipeTypeOK, HostTypeOK, ServerTypeOK, RtlTypeOK
<1> QED
  BY <1>1, <1>2, <1>3, <1>4 DEF Next

\* Type correctness of the one-machine relay.
THEOREM TypeCorrect == Spec => []TypeOK
BY InitType, NextType, PTL DEF Spec

-----------------------------------------------------------------------------
(* Counting packets *)

\* A write makes one pipe longer by one and puts the packet behind what was there.
LEMMA PipeWriteEffect ==
    ASSUME PipeTypeOK, NEW n \in PipeNames, NEW pkt \in Packet, PipeWrite(n, pkt)
    PROVE  /\ \A m \in PipeNames : Len(pipe[m]) \in Nat
           /\ Len(pipe[n]') = Len(pipe[n]) + 1
           /\ \A m \in PipeNames \ {n} : pipe[m]' = pipe[m]
           /\ AllAre(pipe[n], pkt) => AllAre(pipe[n]', pkt)
<1>1. \A m \in PipeNames : pipe[m] \in Seq(Packet)
  BY DEF PipeTypeOK
<1>2. pipe[n]' = Append(pipe[n], pkt) /\ \A m \in PipeNames \ {n} : pipe[m]' = pipe[m]
  BY DEF PipeTypeOK, PipeWrite
<1> QED
  BY <1>1, <1>2 DEF AllAre

\* A read makes one pipe shorter by one; what it yields and what is left were all there.
LEMMA PipeReadEffect ==
    ASSUME PipeTypeOK, NEW n \in PipeNames, PipeRead(n)
    PROVE  /\ \A m \in PipeNames : Len(pipe[m]) \in Nat
           /\ Len(pipe[n]') = Len(pipe[n]) - 1
           /\ Len(pipe[n]) > 0
           /\ \A m \in PipeNames \ {n} : pipe[m]' = pipe[m]
           /\ \A pkt : AllAre(pipe[n], pkt) => AllAre(pipe[n]', pkt) /\ PipeFirst(n) = pkt
<1>1. \A m \in PipeNames : pipe[m] \in Seq(Packet)
  BY DEF PipeTypeOK
<1>2. pipe[n] # << >>
  BY DEF PipeRead
<1>3. pipe[n]' = Tail(pipe[n]) /\ \A m \in PipeNames \ {n} : pipe[m]' = pipe[m]
  BY DEF PipeTypeOK, PipeRead
<1>4. Len(pipe[n]) > 0 /\ Len(pipe[n]) \in Nat
  BY <1>1, <1>2
<1>5. Len(Tail(pipe[n])) = Len(pipe[n]) - 1
      /\ \A i \in 1 .. Len(Tail(pipe[n])) : Tail(pipe[n])[i] = pipe[n][i + 1]
  BY <1>1, <1>2
<1>6. Head(pipe[n]) = pipe[n][1]
  BY <1>1, <1>2
<1>7. ASSUME NEW pkt, AllAre(pipe[n], pkt)
      PROVE  AllAre(pipe[n]', pkt) /\ PipeFirst(n) = pkt
  BY <1>3, <1>4, <1>5, <1>6, <1>7 DEF AllAre, PipeFirst
<1> QED
  BY <1>1, <1>3, <1>4, <1>5, <1>7

-----------------------------------------------------------------------------
(* The inductive invariant *)

\* Conservation alone is not inductive: that the device cannot be stopped needs
\* the numbers of the packets, those need what the pipes hold, and that a new
\* number is not 0 needs the count of leaked descriptors.
IInv == TypeOK /\ Conservation /\ InFlightMatches /\ NumberCountsLeak /\ NeverStopsDevice

\* The terms Conservation adds up: what each pipe holds and what each thread holds.
InRequestClient == Len(pipe["request_client"])
InRequestServer == Len(pipe["request_server"])
InReplyServer   == Len(pipe["reply_server"])
InReplyClient   == Len(pipe["reply_client"])
HeldByRequest   == Held(req_pc = "write")
HeldByDevice    == Held(rtl_pc = "respond")
HeldByReply     == Held(rep_pc = "write")
KeptAtStop      == Held(rtl_pc = "finished")
Owed            == Held(host_pc = "wait")

Total == InRequestClient + HeldByRequest + InRequestServer + HeldByDevice
         + InReplyServer + HeldByReply + InReplyClient + KeptAtStop

\* Conservation equates two sums: the packets there are and those owed.
LEMMA ConservationAsSum == Conservation <=> Total = Owed
BY DEF Conservation, Copies, Total, Owed, InRequestClient, InRequestServer, InReplyServer,
       InReplyClient, HeldByRequest, HeldByDevice, HeldByReply, KeptAtStop

\* Each term is a natural number, and 0 exactly when nothing is there.
LEMMA TermsAreNat ==
    ASSUME TypeOK
    PROVE  /\ InRequestClient \in Nat /\ InRequestServer \in Nat
           /\ InReplyServer \in Nat /\ InReplyClient \in Nat
           /\ HeldByRequest \in 0 .. 1 /\ HeldByDevice \in 0 .. 1 /\ HeldByReply \in 0 .. 1
           /\ KeptAtStop \in 0 .. 1 /\ Owed \in 0 .. 1
           /\ InRequestClient = 0 <=> pipe["request_client"] = << >>
           /\ InRequestServer = 0 <=> pipe["request_server"] = << >>
           /\ InReplyServer = 0 <=> pipe["reply_server"] = << >>
           /\ InReplyClient = 0 <=> pipe["reply_client"] = << >>
           /\ HeldByRequest = 0 <=> req_pc # "write"
           /\ HeldByDevice = 0 <=> rtl_pc # "respond"
           /\ HeldByReply = 0 <=> rep_pc # "write"
           /\ KeptAtStop = 0 <=> rtl_pc # "finished"
           /\ Owed = 0 <=> host_pc # "wait"
<1>1. \A n \in PipeNames : Len(pipe[n]) \in Nat /\ (Len(pipe[n]) = 0 <=> pipe[n] = << >>)
  BY DEF TypeOK, PipeTypeOK
<1>2. \A b \in BOOLEAN : Held(b) \in 0 .. 1 /\ (Held(b) = 0 <=> ~b)
  BY DEF Held
<1> QED
  BY <1>1, <1>2 DEF PipeNames, InRequestClient, InRequestServer, InReplyServer, InReplyClient,
     HeldByRequest, HeldByDevice, HeldByReply, KeptAtStop, Owed

\* Both are natural numbers.
LEMMA TotalIsNat == TypeOK => Total \in Nat /\ Owed \in Nat
<1> SUFFICES ASSUME TypeOK PROVE Total \in Nat /\ Owed \in Nat
  OBVIOUS
<1>1. /\ InRequestClient \in Nat /\ InRequestServer \in Nat
      /\ InReplyServer \in Nat /\ InReplyClient \in Nat
      /\ HeldByRequest \in Nat /\ HeldByDevice \in Nat /\ HeldByReply \in Nat
      /\ KeptAtStop \in Nat /\ Owed \in Nat
  BY TermsAreNat
<1> QED
  BY <1>1 DEF Total

\* Before the host has sent its request there is no packet anywhere.
LEMMA QuietUnlessWaiting ==
    ASSUME TypeOK, Conservation, host_pc # "wait"
    PROVE  /\ \A n \in PipeNames : pipe[n] = << >>
           /\ req_pc = "read" /\ rep_pc = "read" /\ rtl_pc = "request"
<1>1. Total = 0
  BY ConservationAsSum, TermsAreNat
<1>2. /\ InRequestClient = 0 /\ InRequestServer = 0 /\ InReplyServer = 0 /\ InReplyClient = 0
      /\ HeldByRequest = 0 /\ HeldByDevice = 0 /\ HeldByReply = 0 /\ KeptAtStop = 0
  <2>1. /\ InRequestClient \in Nat /\ InRequestServer \in Nat
        /\ InReplyServer \in Nat /\ InReplyClient \in Nat
        /\ HeldByRequest \in Nat /\ HeldByDevice \in Nat /\ HeldByReply \in Nat
        /\ KeptAtStop \in Nat
    BY TermsAreNat
  <2>2. PICK a \in Nat, b \in Nat, c \in Nat, d \in Nat, e \in Nat, f \in Nat, g \in Nat, h \in Nat :
          /\ a = InRequestClient /\ b = HeldByRequest /\ c = InRequestServer
          /\ d = HeldByDevice /\ e = InReplyServer /\ f = HeldByReply
          /\ g = InReplyClient /\ h = KeptAtStop
    BY <2>1
  <2>3. a + b + c + d + e + f + g + h = 0
    BY <1>1, <2>2 DEF Total
  <2>4. a = 0 /\ b = 0 /\ c = 0 /\ d = 0 /\ e = 0 /\ f = 0 /\ g = 0 /\ h = 0
    BY <2>3
  <2> QED
    BY <2>2, <2>4
<1> QED
  BY <1>2, TermsAreNat DEF TypeOK, ServerTypeOK, RtlTypeOK, PipeNames

\* The initial state satisfies the invariant.
LEMMA InitInv == Init => IInv
<1> SUFFICES ASSUME Init PROVE IInv
  OBVIOUS
<1>1. TypeOK
  BY InitType
<1>2. \A n \in PipeNames : pipe[n] = << >> /\ Len(pipe[n]) = 0
  BY DEF Init, PipeInit
<1>3. Conservation
  <2>1. Total = 0 /\ Owed = 0
    BY <1>1, <1>2, TermsAreNat DEF Total, Init, HostInit, ServerInit, RtlInit, PipeNames
  <2> QED
    BY <2>1, ConservationAsSum
<1>4. InFlightMatches
  BY <1>2 DEF Init, HostInit, ServerInit, RtlInit, InFlightMatches, AllAre, PipeNames
<1>5. NumberCountsLeak /\ NeverStopsDevice
  BY DEF Init, HostInit, RtlInit, NumberCountsLeak, NeverStopsDevice
<1> QED
  BY <1>1, <1>3, <1>4, <1>5 DEF IInv

\* Every step moves one packet by one stage, starts the host's wait or ends it: what is
\* there and what is owed change together, whether or not they were equal.
LEMMA TotalFollowsOwed ==
    ASSUME TypeOK, [Next]_vars
    PROVE  Total' + Owed = Total + Owed'
<1>1. /\ InRequestClient \in Nat /\ InRequestServer \in Nat
      /\ InReplyServer \in Nat /\ InReplyClient \in Nat
      /\ HeldByRequest \in Nat /\ HeldByDevice \in Nat /\ HeldByReply \in Nat
      /\ KeptAtStop \in Nat /\ Owed \in Nat
  BY TermsAreNat
<1> DEFINE Terms == <<InRequestClient, InRequestServer, InReplyServer, InReplyClient,
                      HeldByRequest, HeldByDevice, HeldByReply, KeptAtStop, Owed>>
<1> USE DEF TypeOK, PipeNames
<1>4. CASE HostStep
  <2> USE <1>4 DEF HostStep, HostTypeOK, serverVars, rtlVars
  <2>1. CASE HostIssue \/ HostIssueRefused
    <3>1. UNCHANGED Terms
      BY <2>1 DEF HostIssue, HostIssueRefused, InRequestClient, InRequestServer, InReplyServer,
                  InReplyClient, HeldByRequest, HeldByDevice, HeldByReply, KeptAtStop, Owed, Held
    <3> QED
      BY <3>1, <1>1 DEF Total
  <2>2. CASE HostEnqueue
    <3>1. InRequestClient' = InRequestClient + 1
          /\ UNCHANGED <<InRequestServer, InReplyServer, InReplyClient>>
      BY <2>2, PipeWriteEffect DEF HostEnqueue, InRequestClient, InRequestServer, InReplyServer, InReplyClient
    <3>2. Owed' = Owed + 1
          /\ UNCHANGED <<HeldByRequest, HeldByDevice, HeldByReply, KeptAtStop>>
      BY <2>2 DEF HostEnqueue, HeldByRequest, HeldByDevice, HeldByReply, KeptAtStop, Owed, Held
    <3> QED
      BY <3>1, <3>2, <1>1 DEF Total
  <2>3. CASE HostDequeue
    <3>1. InReplyClient' = InReplyClient - 1
          /\ UNCHANGED <<InRequestClient, InRequestServer, InReplyServer>>
      BY <2>3, PipeReadEffect DEF HostDequeue, InRequestClient, InRequestServer, InReplyServer, InReplyClient
    <3>2. Owed' = Owed - 1
          /\ UNCHANGED <<HeldByRequest, HeldByDevice, HeldByReply, KeptAtStop>>
      BY <2>3 DEF HostDequeue, HeldByRequest, HeldByDevice, HeldByReply, KeptAtStop, Owed, Held
    <3> QED
      BY <3>1, <3>2, <1>1 DEF Total
  <2> QED
    BY <2>1, <2>2, <2>3 DEF HostNext
<1>5. CASE ServerStep
  <2> USE <1>5 DEF ServerStep, ServerTypeOK, hostVars, rtlVars
  <2>1. CASE RequestRead
    <3>1. InRequestClient' = InRequestClient - 1
          /\ UNCHANGED <<InRequestServer, InReplyServer, InReplyClient>>
      BY <2>1, PipeReadEffect DEF RequestRead, InRequestClient, InRequestServer, InReplyServer, InReplyClient
    <3>2. HeldByRequest' = HeldByRequest + 1
          /\ UNCHANGED <<HeldByDevice, HeldByReply, KeptAtStop, Owed>>
      BY <2>1 DEF RequestRead, HeldByRequest, HeldByDevice, HeldByReply, KeptAtStop, Owed, Held
    <3> QED
      BY <3>1, <3>2, <1>1 DEF Total
  <2>2. CASE RequestWrite
    <3>1. InRequestServer' = InRequestServer + 1
          /\ UNCHANGED <<InRequestClient, InReplyServer, InReplyClient>>
      BY <2>2, PipeWriteEffect DEF RequestWrite, InRequestClient, InRequestServer, InReplyServer, InReplyClient
    <3>2. HeldByRequest' = HeldByRequest - 1
          /\ UNCHANGED <<HeldByDevice, HeldByReply, KeptAtStop, Owed>>
      BY <2>2 DEF RequestWrite, HeldByRequest, HeldByDevice, HeldByReply, KeptAtStop, Owed, Held
    <3> QED
      BY <3>1, <3>2, <1>1 DEF Total
  <2>3. CASE ReplyRead
    <3>1. InReplyServer' = InReplyServer - 1
          /\ UNCHANGED <<InRequestClient, InRequestServer, InReplyClient>>
      BY <2>3, PipeReadEffect DEF ReplyRead, InRequestClient, InRequestServer, InReplyServer, InReplyClient
    <3>2. HeldByReply' = HeldByReply + 1
          /\ UNCHANGED <<HeldByRequest, HeldByDevice, KeptAtStop, Owed>>
      BY <2>3 DEF ReplyRead, HeldByRequest, HeldByDevice, HeldByReply, KeptAtStop, Owed, Held
    <3> QED
      BY <3>1, <3>2, <1>1 DEF Total
  <2>4. CASE ReplyWrite
    <3>1. InReplyClient' = InReplyClient + 1
          /\ UNCHANGED <<InRequestClient, InRequestServer, InReplyServer>>
      BY <2>4, PipeWriteEffect DEF ReplyWrite, InRequestClient, InRequestServer, InReplyServer, InReplyClient
    <3>2. HeldByReply' = HeldByReply - 1
          /\ UNCHANGED <<HeldByRequest, HeldByDevice, KeptAtStop, Owed>>
      BY <2>4 DEF ReplyWrite, HeldByRequest, HeldByDevice, HeldByReply, KeptAtStop, Owed, Held
    <3> QED
      BY <3>1, <3>2, <1>1 DEF Total
  <2> QED
    BY <2>1, <2>2, <2>3, <2>4 DEF ServerNext
<1>6. CASE RtlStep
  <2> USE <1>6 DEF RtlStep, RtlTypeOK, hostVars, serverVars
  <2>1. CASE DpiRequest
    <3>1. InRequestServer' = InRequestServer - 1
          /\ UNCHANGED <<InRequestClient, InReplyServer, InReplyClient>>
      BY <2>1, PipeReadEffect DEF DpiRequest, InRequestClient, InRequestServer, InReplyServer, InReplyClient
    <3>2. HeldByDevice' = HeldByDevice + 1
          /\ UNCHANGED <<HeldByRequest, HeldByReply, KeptAtStop, Owed>>
      BY <2>1 DEF DpiRequest, HeldByRequest, HeldByDevice, HeldByReply, KeptAtStop, Owed, Held
    <3> QED
      BY <3>1, <3>2, <1>1 DEF Total
  <2>2. CASE DpiStop
    <3>1. InRequestServer' = InRequestServer - 1
          /\ UNCHANGED <<InRequestClient, InReplyServer, InReplyClient>>
      BY <2>2, PipeReadEffect DEF DpiStop, InRequestClient, InRequestServer, InReplyServer, InReplyClient
    <3>2. KeptAtStop' = KeptAtStop + 1
          /\ UNCHANGED <<HeldByRequest, HeldByDevice, HeldByReply, Owed>>
      BY <2>2 DEF DpiStop, HeldByRequest, HeldByDevice, HeldByReply, KeptAtStop, Owed, Held
    <3> QED
      BY <3>1, <3>2, <1>1 DEF Total
  <2>3. CASE DpiRespond
    <3>1. InReplyServer' = InReplyServer + 1
          /\ UNCHANGED <<InRequestClient, InRequestServer, InReplyClient>>
      BY <2>3, PipeWriteEffect, PacketFacts DEF DpiRespond, InRequestClient, InRequestServer, InReplyServer, InReplyClient
    <3>2. HeldByDevice' = HeldByDevice - 1
          /\ UNCHANGED <<HeldByRequest, HeldByReply, KeptAtStop, Owed>>
      BY <2>3 DEF DpiRespond, HeldByRequest, HeldByDevice, HeldByReply, KeptAtStop, Owed, Held
    <3> QED
      BY <3>1, <3>2, <1>1 DEF Total
  <2> QED
    BY <2>1, <2>2, <2>3 DEF RtlNext
<1>7. CASE UNCHANGED vars
  <2>1. UNCHANGED Terms
    BY <1>7 DEF vars, hostVars, serverVars, rtlVars, InRequestClient, InRequestServer, InReplyServer,
                InReplyClient, HeldByRequest, HeldByDevice, HeldByReply, KeptAtStop, Owed, Held
  <2> QED
    BY <2>1, <1>1 DEF Total
<1> QED
  BY <1>4, <1>5, <1>6, <1>7 DEF Next

\* So they stay equal when they were.
LEMMA NextConservation ==
    ASSUME TypeOK, Conservation, [Next]_vars
    PROVE  Conservation'
<1>1. Total = Owed /\ Total' + Owed = Total + Owed'
  BY ConservationAsSum, TotalFollowsOwed
<1>2. Total \in Nat /\ Owed \in Nat /\ Owed' \in Nat /\ Total' \in Nat
  <2>1. TypeOK'
    BY NextType
  <2>2. (Total \in Nat /\ Owed \in Nat)'
    BY <2>1, TotalIsNat, PTL
  <2> QED
    BY <2>2, TotalIsNat
<1>3. (Total = Owed)'
  BY <1>1, <1>2
<1> QED
  BY <1>3, ConservationAsSum, PTL

\* There is no packet anywhere.
NothingUnderWay == /\ \A n \in PipeNames : pipe[n] = << >>
                   /\ req_pc # "write" /\ rep_pc # "write" /\ rtl_pc # "respond"

\* What lies in the pipes and buffers stays the host's packet and the reply to it, if
\* the host begins an access only when there is nothing.
LEMMA NextMatches ==
    ASSUME TypeOK, host_pc # "wait" => NothingUnderWay, InFlightMatches, [Next]_vars
    PROVE  InFlightMatches'
<1> USE DEF TypeOK, PipeNames, InFlightMatches
<1>1. CASE HostStep
  <2> USE <1>1 DEF HostStep, HostTypeOK, serverVars, rtlVars
  <2>1. CASE HostIssue \/ HostIssueRefused
    <3>1. host_pc # "wait" /\ UNCHANGED pipe
      BY <2>1 DEF HostIssue, HostIssueRefused
    <3> QED
      BY <2>1, <3>1 DEF HostIssue, HostIssueRefused, NothingUnderWay, AllAre
  <2>2. CASE HostEnqueue
    BY <2>2, PipeWriteEffect DEF HostEnqueue
  <2>3. CASE HostDequeue
    BY <2>3, PipeReadEffect DEF HostDequeue
  <2> QED
    BY <2>1, <2>2, <2>3 DEF HostNext
<1>2. CASE ServerStep
  <2> USE <1>2 DEF ServerStep, ServerTypeOK, hostVars, rtlVars
  <2>1. CASE RequestRead
    BY <2>1, PipeReadEffect DEF RequestRead
  <2>2. CASE RequestWrite
    BY <2>2, PipeWriteEffect DEF RequestWrite
  <2>3. CASE ReplyRead
    BY <2>3, PipeReadEffect DEF ReplyRead
  <2>4. CASE ReplyWrite
    BY <2>4, PipeWriteEffect DEF ReplyWrite
  <2> QED
    BY <2>1, <2>2, <2>3, <2>4 DEF ServerNext
<1>3. CASE RtlStep
  <2> USE <1>3 DEF RtlStep, RtlTypeOK, hostVars, serverVars
  <2>1. CASE DpiRequest
    BY <2>1, PipeReadEffect DEF DpiRequest
  <2>2. CASE DpiStop
    BY <2>2, PipeReadEffect DEF DpiStop
  <2>3. CASE DpiRespond
    BY <2>3, PipeWriteEffect, PacketFacts DEF DpiRespond
  <2> QED
    BY <2>1, <2>2, <2>3 DEF RtlNext
<1>4. CASE UNCHANGED vars
  BY <1>4 DEF vars, hostVars, serverVars, rtlVars
<1> QED
  BY <1>1, <1>2, <1>3, <1>4 DEF Next

\* While descriptors last, numbers do not wrap, so no packet stops the device.
LEMMA NextNumbers ==
    ASSUME IInv, [Next]_vars
    PROVE  NumberCountsLeak' /\ NeverStopsDevice'
<1> USE DEF IInv, NumberCountsLeak, NeverStopsDevice, CanOpenClientPipe
<1>1. CASE HostStep
  <2> USE <1>1 DEF HostStep, TypeOK, HostTypeOK, serverVars, rtlVars
  <2>1. CASE HostIssue
    <3>1. /\ host_fds \in Nat /\ simics_packet_no \in 0 .. (Modulus - 1)
          /\ host_fds + 2 <= FdLimit /\ 2 * simics_packet_no = host_fds + 2
          /\ send_pkt'.packet_number = simics_packet_no
          /\ simics_packet_no' = (simics_packet_no + 1) % Modulus
          /\ host_fds' = host_fds + 2
          /\ rtl_pc' # "finished"
      BY <2>1 DEF HostIssue, StartAccess
    <3>2. ASSUME host_fds' + 2 <= FdLimit
          PROVE  2 * simics_packet_no' = host_fds' + 2
      <4>1. simics_packet_no + 1 < Modulus
        BY <3>1, <3>2, FdAssumption, TlpAssumption
      <4>2. simics_packet_no' = simics_packet_no + 1
        BY <3>1, <4>1, TlpAssumption
      <4> QED
        BY <3>1, <4>2
    <3>3. send_pkt'.packet_number # 0
      BY <3>1
    <3> QED
      BY <3>1, <3>2, <3>3
  <2>2. CASE HostIssueRefused
    BY <2>2 DEF HostIssueRefused
  <2>3. CASE HostEnqueue \/ HostDequeue
    BY <2>3 DEF HostEnqueue, HostDequeue
  <2> QED
    BY <2>1, <2>2, <2>3 DEF HostNext
<1>2. CASE ServerStep
  BY <1>2 DEF ServerStep, hostVars, rtlVars
<1>3. CASE RtlStep
  <2> USE <1>3 DEF RtlStep, hostVars, serverVars
  <2>1. CASE DpiRequest \/ DpiRespond
    BY <2>1 DEF DpiRequest, DpiRespond
  <2>2. CASE DpiStop
    <3>1. PipeFirst("request_server") = send_pkt /\ pipe["request_server"] # << >>
      BY <2>2, PipeReadEffect DEF DpiStop, InFlightMatches, TypeOK, PipeNames, PipeRead
    <3>2. host_pc = "wait"
      BY <3>1, QuietUnlessWaiting DEF PipeNames
    <3> QED
      BY <2>2, <3>1, <3>2 DEF DpiStop
  <2> QED
    BY <2>1, <2>2 DEF RtlNext
<1>4. CASE UNCHANGED vars
  BY <1>4 DEF vars, hostVars, rtlVars
<1> QED
  BY <1>1, <1>2, <1>3, <1>4 DEF Next

\* The invariant is inductive, so it holds of every behaviour.
THEOREM Invariance == Spec => []IInv
<1>1. Init => IInv
  BY InitInv
<1>2. IInv /\ [Next]_vars => IInv'
  BY NextType, NextConservation, NextMatches, QuietUnlessWaiting, NextNumbers
  DEF IInv, NothingUnderWay
<1> QED
  BY <1>1, <1>2, PTL DEF Spec

\* No packet is dropped, kept or repeated on the way to the device and back.
THEOREM PacketsConserved == Spec => []Conservation
BY Invariance, PTL DEF IInv

\* Every packet in the relay is the host's request or the reply to it.
THEOREM PacketsMatch == Spec => []InFlightMatches
BY Invariance, PTL DEF IInv

\* The packet number counts the descriptors Simics leaks, two for every access.
THEOREM NumbersFollowDescriptors == Spec => []NumberCountsLeak
BY Invariance, PTL DEF IInv

\* An access from Simics never ends the RTL simulation.
THEOREM DeviceKeepsRunning == Spec => []NeverStopsDevice
BY Invariance, PTL DEF IInv

-----------------------------------------------------------------------------
(* The refinement *)

\* A request that has not reached the device excludes a reply on its way.
LEMMA OnlyOneOnItsWay ==
    ASSUME IInv, pipe["request_server"] # << >>
    PROVE  ~ReplyOnItsWay /\ host_pc = "wait"
<1>1. Total = Owed /\ InRequestServer > 0
  BY ConservationAsSum, TermsAreNat DEF IInv
<1>2. HeldByDevice = 0 /\ InReplyServer = 0 /\ HeldByReply = 0 /\ InReplyClient = 0 /\ Owed # 0
  <2>1. /\ InRequestClient \in Nat /\ InRequestServer \in Nat
        /\ InReplyServer \in Nat /\ InReplyClient \in Nat
        /\ HeldByRequest \in Nat /\ HeldByDevice \in Nat /\ HeldByReply \in Nat
        /\ KeptAtStop \in Nat /\ Owed \in 0 .. 1
    BY TermsAreNat DEF IInv
  <2>2. PICK a \in Nat, b \in Nat, c \in Nat, d \in Nat, e \in Nat, f \in Nat, g \in Nat, h \in Nat,
             o \in 0 .. 1 :
          /\ a = InRequestClient /\ b = HeldByRequest /\ c = InRequestServer
          /\ d = HeldByDevice /\ e = InReplyServer /\ f = HeldByReply
          /\ g = InReplyClient /\ h = KeptAtStop /\ o = Owed
    BY <2>1
  <2>3. a + b + c + d + e + f + g + h = o /\ c > 0
    BY <1>1, <2>2 DEF Total
  <2>4. d = 0 /\ e = 0 /\ f = 0 /\ g = 0 /\ o # 0
    BY <2>3
  <2> QED
    BY <2>2, <2>4
<1> QED
  BY <1>2, TermsAreNat DEF ReplyOnItsWay, IInv

\* Initial states map to initial states.
LEMMA InitRefines == Init => Promise!Init
BY DEF Init, HostInit, Promise!Init, AccessPhase, Promise!ZeroPacket, ZeroPacket

\* Every step maps to a step of the abstract access or to a stutter.
LEMMA NextRefines ==
    ASSUME IInv, IInv', [Next]_vars
    PROVE  [Promise!Next]_(Promise!raVars)
<1> DEFINE Stutter == UNCHANGED <<AccessPhase, send_pkt, reply_pkt>>
<1> USE DEF Promise!raVars, Promise!Next, PipeNames, Promise!Packet, Packet, Promise!ZeroPacket, ZeroPacket
<1>1. CASE HostStep
  <2> USE <1>1 DEF HostStep, serverVars, rtlVars
  <2>1. CASE HostIssue
    <3>1. \A n \in PipeNames : pipe[n] = << >>
      BY <2>1, QuietUnlessWaiting DEF HostIssue, IInv
    <3>2. rep_pc = "read" /\ rtl_pc = "request"
      BY <2>1, QuietUnlessWaiting DEF HostIssue, IInv
    <3>3. AccessPhase = "idle" /\ AccessPhase' = "asked"
      BY <2>1, <3>1, <3>2 DEF HostIssue, AccessPhase, ReplyOnItsWay
    <3>4. send_pkt' \in Packet /\ reply_pkt' = ZeroPacket
      BY <2>1 DEF HostIssue, StartAccess, IInv, TypeOK, HostTypeOK
    <3> QED
      BY <3>3, <3>4 DEF Promise!Ask
  <2>2. CASE HostIssueRefused
    <3>1. send_pkt' \in Packet /\ reply_pkt' = ZeroPacket /\ host_pc = "idle" /\ host_pc' = "idle"
      BY <2>2 DEF HostIssueRefused, StartAccess, IInv, TypeOK, HostTypeOK
    <3> QED
      BY <3>1 DEF Promise!Refuse, AccessPhase
  <2>3. CASE HostEnqueue
    <3>1. host_pc = "send" /\ host_pc' = "wait" /\ send_pkt \in Packet
      BY <2>3 DEF HostEnqueue, IInv, TypeOK, HostTypeOK
    <3>2. pipe["reply_server"]' = pipe["reply_server"] /\ pipe["reply_client"]' = pipe["reply_client"]
      BY <2>3, <3>1, PipeWriteEffect DEF HostEnqueue, IInv, TypeOK
    <3>3. Stutter
      BY <2>3, <3>1, <3>2 DEF HostEnqueue, AccessPhase, ReplyOnItsWay
    <3> QED
      BY <3>3
  <2>4. CASE HostDequeue
    <3>1. PipeFirst("reply_client") = ReplyTo(send_pkt)
      BY <2>4, PipeReadEffect DEF HostDequeue, IInv, TypeOK, InFlightMatches
    <3>2. AccessPhase = "served" /\ AccessPhase' = "idle"
      BY <2>4 DEF HostDequeue, PipeRead, AccessPhase, ReplyOnItsWay
    <3> QED
      BY <2>4, <3>1, <3>2 DEF HostDequeue, Promise!Answer, Promise!ReplyTo, ReplyTo
  <2> QED
    BY <2>1, <2>2, <2>3, <2>4 DEF HostNext
<1>2. CASE ServerStep
  <2> USE <1>2 DEF ServerStep, hostVars, rtlVars, AccessPhase, ReplyOnItsWay
  <2>1. CASE RequestRead
    <3>1. pipe["reply_server"]' = pipe["reply_server"] /\ pipe["reply_client"]' = pipe["reply_client"]
      BY <2>1, PipeReadEffect DEF RequestRead, IInv, TypeOK
    <3>2. Stutter
      BY <2>1, <3>1 DEF RequestRead
    <3> QED
      BY <3>2
  <2>2. CASE RequestWrite
    <3>1. pipe["reply_server"]' = pipe["reply_server"] /\ pipe["reply_client"]' = pipe["reply_client"]
      BY <2>2, PipeWriteEffect DEF RequestWrite, IInv, TypeOK, ServerTypeOK
    <3>2. Stutter
      BY <2>2, <3>1 DEF RequestWrite
    <3> QED
      BY <3>2
  <2>3. CASE ReplyRead
    <3>1. ReplyOnItsWay /\ ReplyOnItsWay'
      BY <2>3 DEF ReplyRead, PipeRead
    <3>2. Stutter
      BY <3>1
    <3> QED
      BY <3>2
  <2>4. CASE ReplyWrite
    <3>1. Len(pipe["reply_client"]') = Len(pipe["reply_client"]) + 1 /\ Len(pipe["reply_client"]) \in Nat
      BY <2>4, PipeWriteEffect DEF ReplyWrite, IInv, TypeOK, ServerTypeOK
    <3>2. pipe["reply_client"]' # << >>
      BY <3>1
    <3>3. ReplyOnItsWay /\ ReplyOnItsWay'
      BY <2>4, <3>2 DEF ReplyWrite
    <3>4. Stutter
      BY <3>3
    <3> QED
      BY <3>4
  <2> QED
    BY <2>1, <2>2, <2>3, <2>4 DEF ServerNext
<1>3. CASE RtlStep
  <2> USE <1>3 DEF RtlStep, hostVars, serverVars
  <2>1. CASE DpiRequest
    <3>1. ~ReplyOnItsWay /\ host_pc = "wait" /\ host_pc' = "wait"
      BY <2>1, OnlyOneOnItsWay DEF DpiRequest, PipeRead
    <3>2. ReplyOnItsWay'
      BY <2>1 DEF DpiRequest, ReplyOnItsWay
    <3> QED
      BY <3>1, <3>2 DEF Promise!Serve, AccessPhase
  <2>2. CASE DpiStop
    BY <2>2 DEF DpiStop, IInv, NeverStopsDevice
  <2>3. CASE DpiRespond
    <3>1. Len(pipe["reply_server"]') = Len(pipe["reply_server"]) + 1 /\ Len(pipe["reply_server"]) \in Nat
      BY <2>3, PipeWriteEffect, PacketFacts DEF DpiRespond, IInv, TypeOK, RtlTypeOK
    <3>2. pipe["reply_server"]' # << >>
      BY <3>1
    <3>3. ReplyOnItsWay /\ ReplyOnItsWay'
      BY <2>3, <3>2 DEF DpiRespond, ReplyOnItsWay
    <3>4. Stutter
      BY <3>3 DEF AccessPhase
    <3> QED
      BY <3>4
  <2> QED
    BY <2>1, <2>2, <2>3 DEF RtlNext
<1>4. CASE UNCHANGED vars
  BY <1>4 DEF vars, hostVars, serverVars, rtlVars, AccessPhase, ReplyOnItsWay
<1> QED
  BY <1>1, <1>2, <1>3, <1>4 DEF Next

\* The one-machine relay implements the remote access and never loses one.
THEOREM RelayImplementsPromise == Spec => ImplementsPromise
<1>1. Init => Promise!Init
  BY InitRefines
<1>2. IInv /\ IInv' /\ [Next]_vars => [Promise!Next]_(Promise!raVars)
  BY NextRefines
<1> QED
  BY <1>1, <1>2, Invariance, PTL DEF Spec, ImplementsPromise, Promise!Spec

\* When descriptors have run out nothing is under way, and no step of anybody
\* moves a packet again or gives a descriptor back.
THEOREM RefusalIsForEver == Spec => RefusedForGood
<1>1. IInv /\ [Next]_vars => [Exhausted => Exhausted' /\ UNCHANGED <<pipe, serverVars, rtlVars>>]_vars
  <2> SUFFICES ASSUME IInv, Next, Exhausted
               PROVE  Exhausted' /\ UNCHANGED <<pipe, serverVars, rtlVars>>
    OBVIOUS
  <2>1. /\ pipe["request_client"] = << >> /\ pipe["request_server"] = << >>
        /\ pipe["reply_server"] = << >>
        /\ req_pc = "read" /\ rep_pc = "read" /\ rtl_pc = "request"
    BY QuietUnlessWaiting DEF IInv, Exhausted, PipeNames
  <2>2. CASE HostStep
    <3>1. HostIssueRefused
      BY <2>2 DEF HostStep, HostNext, HostIssue, HostEnqueue, HostDequeue, Exhausted
    <3> QED
      BY <2>2, <3>1 DEF HostStep, HostIssueRefused, Exhausted, CanOpenClientPipe
  <2>3. CASE ServerStep
    BY <2>1, <2>3 DEF ServerStep, ServerNext, RequestRead, RequestWrite, ReplyRead, ReplyWrite, PipeRead
  <2>4. CASE RtlStep
    BY <2>1, <2>4 DEF RtlStep, RtlNext, DpiRequest, DpiStop, DpiRespond, PipeRead
  <2> QED
    BY <2>2, <2>3, <2>4 DEF Next
<1> QED
  BY <1>1, Invariance, PTL DEF Spec, RefusedForGood

-----------------------------------------------------------------------------
(* A host that fails *)

\* Initial states are well typed.
LEMMA UInitType == UInit => UTypeOK
BY InitType, HostFaultsAssumption DEF UInit, FaultInit, UTypeOK, FaultTypeOK

\* Faults keep the types ...
LEMMA FaultStepType == UTypeOK /\ FaultStep => UTypeOK'
<1> SUFFICES ASSUME UTypeOK, FaultStep PROVE UTypeOK'
  OBVIOUS
<1> USE HostFaultsAssumption, TlpAssumption, FdAssumption, PacketFacts
    DEF FaultStep, UTypeOK, FaultTypeOK, TypeOK, HostTypeOK, PipeTypeOK, ServerTypeOK, RtlTypeOK,
        serverVars, rtlVars, MayFail
<1>1. CASE HostEnqueueFails
  BY <1>1 DEF HostEnqueueFails
<1>2. CASE HostDequeueFails
  BY <1>2 DEF HostDequeueFails
<1>3. CASE HostRestart
  BY <1>3 DEF HostRestart
<1> QED
  BY <1>1, <1>2, <1>3 DEF HostFault

\* ... and so does every step.
LEMMA UNextType == UTypeOK /\ [UNext]_uvars => UTypeOK'
<1> SUFFICES ASSUME UTypeOK, [UNext]_uvars PROVE UTypeOK'
  OBVIOUS
<1>1. CASE [Next]_vars /\ UNCHANGED faultVars
  BY <1>1, NextType DEF UTypeOK, FaultTypeOK, faultVars
<1>2. CASE FaultStep
  BY <1>2, FaultStepType
<1> QED
  BY <1>1, <1>2 DEF UNext, uvars

\* Whatever goes wrong in the host, the variables stay well typed.
THEOREM UTypeCorrect == USpec => []UTypeOK
BY UInitType, UNextType, PTL DEF USpec

-----------------------------------------------------------------------------
(* No packet stops the device *)

\* Surplus alone is not inductive: the device would take a packet with number 0 and
\* leave it unanswered.  No such packet exists, however many are left over, because
\* numbers start again from 1 together with the descriptors.
Numbered(s) == \A i \in 1 .. Len(s) : s[i].packet_number # 0

NothingStops ==
    /\ \A n \in PipeNames : Numbered(pipe[n])
    /\ host_pc # "idle" => send_pkt.packet_number # 0
    /\ req_pc = "write" => req_buf.packet_number # 0
    /\ rtl_pc = "respond" => rtl_rsp.packet_number # 0
    /\ rep_pc = "write" => rep_buf.packet_number # 0
    /\ rtl_pc # "finished"

UInv == UTypeOK /\ Surplus /\ NumberCountsLeak /\ NothingStops

\* A pipe of numbered packets stays one when a numbered packet is written to it.
LEMMA WriteNumbered ==
    ASSUME PipeTypeOK, NEW n \in PipeNames, NEW pkt \in Packet, PipeWrite(n, pkt),
           pkt.packet_number # 0, \A m \in PipeNames : Numbered(pipe[m])
    PROVE  \A m \in PipeNames : Numbered(pipe'[m])
<1>1. pipe[n] \in Seq(Packet) /\ pipe'[n] = Append(pipe[n], pkt)
      /\ \A m \in PipeNames \ {n} : pipe'[m] = pipe[m]
  BY DEF PipeTypeOK, PipeWrite
<1>2. Numbered(Append(pipe[n], pkt))
  BY <1>1 DEF Numbered
<1> QED
  BY <1>1, <1>2

\* What is read from one is numbered, and so is what stays.
LEMMA ReadNumbered ==
    ASSUME PipeTypeOK, NEW n \in PipeNames, PipeRead(n),
           \A m \in PipeNames : Numbered(pipe[m])
    PROVE  /\ \A m \in PipeNames : Numbered(pipe'[m])
           /\ PipeFirst(n).packet_number # 0
<1>1. pipe[n] \in Seq(Packet) /\ pipe[n] # << >> /\ pipe'[n] = Tail(pipe[n])
      /\ \A m \in PipeNames \ {n} : pipe'[m] = pipe[m]
  BY DEF PipeTypeOK, PipeRead
<1>2. Len(pipe[n]) \in Nat /\ Len(pipe[n]) > 0 /\ Head(pipe[n]) = pipe[n][1]
  BY <1>1
<1>3. Len(Tail(pipe[n])) = Len(pipe[n]) - 1
      /\ \A i \in 1 .. Len(Tail(pipe[n])) : Tail(pipe[n])[i] = pipe[n][i + 1]
  BY <1>1
<1>4. Numbered(Tail(pipe[n]))
  BY <1>2, <1>3 DEF Numbered
<1>5. Head(pipe[n]).packet_number # 0
  BY <1>2 DEF Numbered
<1> QED
  BY <1>1, <1>4, <1>5 DEF PipeFirst

\* A reply has the number of its request.
LEMMA ReplyNumbered == \A p : ReplyTo(p).packet_number = p.packet_number
BY DEF ReplyTo

\* A step of the running relay keeps packets numbered and the count of descriptors right.
LEMMA NextNothingStops ==
    ASSUME TypeOK, NumberCountsLeak, NothingStops, [Next]_vars
    PROVE  NumberCountsLeak' /\ NothingStops'
<1> USE DEF NothingStops
<1>1. CASE HostStep
  <2> USE <1>1 DEF HostStep, TypeOK, HostTypeOK, serverVars, rtlVars
  <2>1. CASE HostIssue
    <3>1. /\ host_fds \in Nat /\ simics_packet_no \in 0 .. (Modulus - 1)
          /\ host_fds + 2 <= FdLimit /\ 2 * simics_packet_no = host_fds + 2
          /\ send_pkt'.packet_number = simics_packet_no
          /\ simics_packet_no' = (simics_packet_no + 1) % Modulus
          /\ host_fds' = host_fds + 2
          /\ UNCHANGED pipe
      BY <2>1 DEF HostIssue, StartAccess, NumberCountsLeak, CanOpenClientPipe
    <3>2. ASSUME host_fds' + 2 <= FdLimit
          PROVE  2 * simics_packet_no' = host_fds' + 2
      <4>1. simics_packet_no + 1 < Modulus
        BY <3>1, <3>2, FdAssumption, TlpAssumption
      <4>2. simics_packet_no' = simics_packet_no + 1
        BY <3>1, <4>1, TlpAssumption
      <4> QED
        BY <3>1, <4>2
    <3>3. send_pkt'.packet_number # 0
      BY <3>1
    <3>4. NumberCountsLeak'
      BY <3>2 DEF NumberCountsLeak, CanOpenClientPipe
    <3> QED
      BY <3>1, <3>3, <3>4
  <2>2. CASE HostIssueRefused
    BY <2>2 DEF HostIssueRefused, NumberCountsLeak, CanOpenClientPipe
  <2>3. CASE HostEnqueue
    <3>1. \A m \in PipeNames : Numbered(pipe'[m])
      BY <2>3, WriteNumbered DEF HostEnqueue, PipeNames
    <3> QED
      BY <2>3, <3>1 DEF HostEnqueue, NumberCountsLeak, CanOpenClientPipe
  <2>4. CASE HostDequeue
    <3>1. \A m \in PipeNames : Numbered(pipe'[m])
      BY <2>4, ReadNumbered DEF HostDequeue, PipeNames
    <3> QED
      BY <2>4, <3>1 DEF HostDequeue, NumberCountsLeak, CanOpenClientPipe
  <2> QED
    BY <2>1, <2>2, <2>3, <2>4 DEF HostNext
<1>2. CASE ServerStep
  <2> USE <1>2 DEF ServerStep, TypeOK, ServerTypeOK, hostVars, rtlVars
  <2>1. NumberCountsLeak'
    BY DEF NumberCountsLeak, CanOpenClientPipe
  <2>2. CASE RequestRead
    BY <2>1, <2>2, ReadNumbered DEF RequestRead, PipeNames
  <2>3. CASE RequestWrite
    BY <2>1, <2>3, WriteNumbered DEF RequestWrite, PipeNames
  <2>4. CASE ReplyRead
    BY <2>1, <2>4, ReadNumbered DEF ReplyRead, PipeNames
  <2>5. CASE ReplyWrite
    BY <2>1, <2>5, WriteNumbered DEF ReplyWrite, PipeNames
  <2> QED
    BY <2>2, <2>3, <2>4, <2>5 DEF ServerNext
<1>3. CASE RtlStep
  <2> USE <1>3 DEF RtlStep, TypeOK, RtlTypeOK, hostVars, serverVars
  <2>1. NumberCountsLeak'
    BY DEF NumberCountsLeak, CanOpenClientPipe
  <2>2. CASE DpiRequest
    BY <2>1, <2>2, ReadNumbered DEF DpiRequest, PipeNames
  <2>3. CASE DpiStop
    BY <2>3, ReadNumbered DEF DpiStop, PipeNames
  <2>4. CASE DpiRespond
    <3>1. ReplyTo(rtl_rsp) \in Packet /\ ReplyTo(rtl_rsp).packet_number # 0
      BY <2>4, PacketFacts, ReplyNumbered DEF DpiRespond
    <3>2. \A m \in PipeNames : Numbered(pipe'[m])
      BY <2>4, <3>1, WriteNumbered DEF DpiRespond, PipeNames
    <3> QED
      BY <2>1, <2>4, <3>2 DEF DpiRespond
  <2> QED
    BY <2>2, <2>3, <2>4 DEF RtlNext
<1>4. CASE UNCHANGED vars
  BY <1>4 DEF vars, hostVars, serverVars, rtlVars, NumberCountsLeak, CanOpenClientPipe
<1> QED
  BY <1>1, <1>2, <1>3, <1>4 DEF Next

\* So does a fault: a restarted host has leaked nothing and starts from 1.
LEMMA FaultNothingStops ==
    ASSUME NumberCountsLeak, NothingStops, FaultStep
    PROVE  NumberCountsLeak' /\ NothingStops'
<1> USE DEF FaultStep, NothingStops, NumberCountsLeak, CanOpenClientPipe, serverVars, rtlVars
<1>1. CASE HostEnqueueFails
  BY <1>1 DEF HostEnqueueFails
<1>2. CASE HostDequeueFails
  BY <1>2 DEF HostDequeueFails
<1>3. CASE HostRestart
  BY <1>3 DEF HostRestart
<1> QED
  BY <1>1, <1>2, <1>3 DEF HostFault

-----------------------------------------------------------------------------
(* The surplus *)

\* With the device running, the surplus speaks of the sum that Conservation speaks of.
LEMMA SurplusAsSum ==
    ASSUME TypeOK, rtl_pc # "finished"
    PROVE  Surplus <=> Total + unsent = Owed + abandoned
<1>1. KeptAtStop = 0
  BY TermsAreNat
<1>2. Total = Copies + KeptAtStop
  BY DEF Total, Copies, InRequestClient, InRequestServer, InReplyServer, InReplyClient,
         HeldByRequest, HeldByDevice, HeldByReply, KeptAtStop
<1>3. Total \in Nat
  BY TotalIsNat
<1>4. Copies = Total
  <2>1. Copies \in Nat
    <3>1. /\ InRequestClient \in Nat /\ InRequestServer \in Nat
          /\ InReplyServer \in Nat /\ InReplyClient \in Nat
          /\ HeldByRequest \in Nat /\ HeldByDevice \in Nat /\ HeldByReply \in Nat
      BY TermsAreNat
    <3>2. Copies = InRequestClient + HeldByRequest + InRequestServer + HeldByDevice
                   + InReplyServer + HeldByReply + InReplyClient
      BY DEF Copies, InRequestClient, InRequestServer, InReplyServer, InReplyClient,
             HeldByRequest, HeldByDevice, HeldByReply
    <3> QED
      BY <3>1, <3>2
  <2> QED
    BY <1>1, <1>2, <2>1
<1> QED
  BY <1>4 DEF Surplus, Owed

\* A fault changes what is owed and the two counters, never what is there.
LEMMA FaultSum ==
    ASSUME UTypeOK, FaultStep
    PROVE  /\ Total' = Total
           /\ Owed' + abandoned' + unsent = Owed + abandoned + unsent'
<1> DEFINE Terms == <<InRequestClient, InRequestServer, InReplyServer, InReplyClient,
                      HeldByRequest, HeldByDevice, HeldByReply, KeptAtStop>>
<1>1. UNCHANGED <<pipe, serverVars, rtlVars>>
  BY DEF FaultStep, HostFault, HostEnqueueFails, HostDequeueFails, HostRestart
<1>2. UNCHANGED Terms
  BY <1>1 DEF serverVars, rtlVars, InRequestClient, InRequestServer, InReplyServer,
              InReplyClient, HeldByRequest, HeldByDevice, HeldByReply, KeptAtStop, Held
<1>3. Total' = Total
  BY <1>2 DEF Total
<1>4. abandoned \in Nat /\ unsent \in Nat
  BY DEF UTypeOK, FaultTypeOK
<1>5. CASE HostEnqueueFails
  BY <1>3, <1>4, <1>5 DEF HostEnqueueFails, Owed, Held
<1>6. CASE HostDequeueFails
  BY <1>3, <1>4, <1>6 DEF HostDequeueFails, Owed, Held
<1>7. CASE HostRestart
  BY <1>3, <1>4, <1>7 DEF HostRestart, Owed, Held
<1> QED
  BY <1>5, <1>6, <1>7 DEF FaultStep, HostFault

\* Everything the balance counts is a natural number.
LEMMA SumsAreNat ==
    UTypeOK => Total \in Nat /\ Owed \in Nat /\ abandoned \in Nat /\ unsent \in Nat
BY TotalIsNat DEF UTypeOK, FaultTypeOK

\* The surplus from the sum, for a step to cite at its end.
LEMMA SurplusFromSum ==
    TypeOK /\ rtl_pc # "finished" /\ Total + unsent = Owed + abandoned => Surplus
BY SurplusAsSum

\* The relay starts empty and owes nothing.
LEMMA UInitInv == UInit => UInv
<1> SUFFICES ASSUME UInit PROVE UInv
  OBVIOUS
<1>1. UTypeOK /\ IInv /\ abandoned = 0 /\ unsent = 0
  BY UInitType, InitInv DEF UInit, FaultInit
<1>2. rtl_pc # "finished" /\ \A n \in PipeNames : pipe[n] = << >>
  BY DEF UInit, Init, RtlInit, PipeInit
<1>3. Total = Owed /\ Total \in Nat /\ Owed \in Nat
  BY <1>1, ConservationAsSum, TotalIsNat DEF IInv
<1>4. Surplus
  <2>1. Total + unsent = Owed + abandoned
    BY <1>1, <1>3
  <2> QED
    BY <2>1, <1>1, <1>2, SurplusAsSum DEF IInv
<1>5. NothingStops
  <2>1. \A n \in PipeNames : Numbered(pipe[n])
    BY <1>2 DEF Numbered
  <2> QED
    BY <2>1, <1>2 DEF UInit, Init, HostInit, ServerInit, RtlInit, NothingStops
<1> QED
  BY <1>1, <1>4, <1>5 DEF UInv, IInv

\* Every step of the relay and every fault keeps the inductive invariant.
LEMMA UNextInv == UInv /\ [UNext]_uvars => UInv'
<1> SUFFICES ASSUME UInv, [UNext]_uvars PROVE UInv'
  OBVIOUS
<1>1. UTypeOK /\ TypeOK /\ rtl_pc # "finished" /\ NumberCountsLeak /\ NothingStops
  BY DEF UInv, UTypeOK, NothingStops
<1>2. UTypeOK'
  BY UNextType DEF UInv
<1>3. NumberCountsLeak' /\ NothingStops'
  <2>1. CASE [Next]_vars /\ UNCHANGED faultVars
    BY <2>1, <1>1, NextNothingStops
  <2>2. CASE FaultStep
    BY <2>2, <1>1, FaultNothingStops
  <2> QED
    BY <2>1, <2>2 DEF UNext, uvars
<1>4. Total \in Nat /\ Owed \in Nat /\ abandoned \in Nat /\ unsent \in Nat
  BY <1>1, SumsAreNat
<1>5. (Total \in Nat /\ Owed \in Nat /\ abandoned \in Nat /\ unsent \in Nat)'
  BY <1>2, SumsAreNat, PTL
<1>6. Total + unsent = Owed + abandoned
  BY <1>1, SurplusAsSum DEF UInv
<1>7. (Total + unsent = Owed + abandoned)'
  <2>1. CASE [Next]_vars /\ UNCHANGED faultVars
    <3>1. Total' + Owed = Total + Owed' /\ unsent' = unsent /\ abandoned' = abandoned
      BY <2>1, <1>1, TotalFollowsOwed DEF faultVars
    <3> QED
      BY <3>1, <1>4, <1>5, <1>6
  <2>2. CASE FaultStep
    <3>1. Total' = Total /\ Owed' + abandoned' + unsent = Owed + abandoned + unsent'
      BY <2>2, <1>1, FaultSum
    <3> QED
      BY <3>1, <1>4, <1>5, <1>6
  <2> QED
    BY <2>1, <2>2 DEF UNext, uvars
<1>8. Surplus'
  <2>1. (TypeOK /\ rtl_pc # "finished")'
    BY <1>2, <1>3 DEF UTypeOK, NothingStops
  <2> QED
    BY <1>7, <2>1, SurplusFromSum, PTL
<1> QED
  BY <1>2, <1>3, <1>8 DEF UInv

\* The surplus, the numbers and the descriptors agree in every reachable state.
THEOREM UInvariance == USpec => []UInv
BY UInitInv, UNextInv, PTL DEF USpec

\* However often accesses are abandoned and Simics is restarted, the packets in the
\* relay are exactly those owed: it neither loses nor makes one.
THEOREM SurplusIsExact == USpec => []Surplus
BY UInvariance, PTL DEF UInv

-----------------------------------------------------------------------------
(* The relay as that queue *)

\* What each pipe and each thread owes.
ToHost     == AsReplies(pipe["reply_client"])
FromDevice == AsReplies(pipe["reply_server"])
ToDevice   == AsReplies(pipe["request_server"])
FromHost   == AsReplies(pipe["request_client"])
ByReply    == AsReplies(One(rep_pc = "write", rep_buf))
ByDevice   == AsReplies(One(rtl_pc = "respond", rtl_rsp))
ByRequest  == AsReplies(One(req_pc = "write", req_buf))

Flow == ToHost \o ByReply \o FromDevice \o ByDevice \o ToDevice \o ByRequest \o FromHost

\* They are sequences of packets ...
LEMMA OwedPieces ==
  TypeOK => /\ ToHost \in Seq(Packet) /\ FromDevice \in Seq(Packet)
            /\ ToDevice \in Seq(Packet) /\ FromHost \in Seq(Packet)
            /\ ByReply \in Seq(Packet) /\ ByDevice \in Seq(Packet) /\ ByRequest \in Seq(Packet)
<1> SUFFICES ASSUME TypeOK
             PROVE  /\ ToHost \in Seq(Packet) /\ FromDevice \in Seq(Packet)
                    /\ ToDevice \in Seq(Packet) /\ FromHost \in Seq(Packet)
                    /\ ByReply \in Seq(Packet) /\ ByDevice \in Seq(Packet)
                    /\ ByRequest \in Seq(Packet)
  OBVIOUS
<1>1. \A n \in PipeNames : pipe[n] \in Seq(Packet)
  BY DEF TypeOK, PipeTypeOK
<1>2. /\ One(rep_pc = "write", rep_buf) \in Seq(Packet)
      /\ One(rtl_pc = "respond", rtl_rsp) \in Seq(Packet)
      /\ One(req_pc = "write", req_buf) \in Seq(Packet)
  BY DEF TypeOK, ServerTypeOK, RtlTypeOK, One
<1> QED
  BY <1>1, <1>2, AsRepliesElements
     DEF ToHost, FromDevice, ToDevice, FromHost, ByReply, ByDevice, ByRequest, PipeNames

\* ... and one after the other what the relay owes.
LEMMA OwingIsFlow == TypeOK => Owing = Flow
<1> SUFFICES ASSUME TypeOK PROVE Owing = Flow
  OBVIOUS
<1> DEFINE a1 == pipe["reply_client"]
           a2 == One(rep_pc = "write", rep_buf)
           a3 == pipe["reply_server"]
           a4 == One(rtl_pc = "respond", rtl_rsp)
           a5 == pipe["request_server"]
           a6 == One(req_pc = "write", req_buf)
           a7 == pipe["request_client"]
<1>1. /\ a1 \in Seq(Packet) /\ a3 \in Seq(Packet) /\ a5 \in Seq(Packet) /\ a7 \in Seq(Packet)
      /\ a2 \in Seq(Packet) /\ a4 \in Seq(Packet) /\ a6 \in Seq(Packet)
  <2>1. \A n \in PipeNames : pipe[n] \in Seq(Packet)
    BY DEF TypeOK, PipeTypeOK
  <2>2. a2 \in Seq(Packet) /\ a4 \in Seq(Packet) /\ a6 \in Seq(Packet)
    BY DEF TypeOK, ServerTypeOK, RtlTypeOK, One
  <2> QED
    BY <2>1, <2>2 DEF PipeNames
<1>2. Owing = AsReplies(a1 \o a2 \o a3 \o a4 \o a5 \o a6 \o a7)
  BY DEF Owing, AsReplies
<1>3. Flow = AsReplies(a1) \o AsReplies(a2) \o AsReplies(a3) \o AsReplies(a4)
             \o AsReplies(a5) \o AsReplies(a6) \o AsReplies(a7)
  BY DEF Flow, ToHost, FromDevice, ToDevice, FromHost, ByReply, ByDevice, ByRequest
<1> HIDE DEF a1, a2, a3, a4, a5, a6, a7
<1>4. /\ a1 \o a2 \in Seq(Packet) /\ a1 \o a2 \o a3 \in Seq(Packet)
      /\ a1 \o a2 \o a3 \o a4 \in Seq(Packet) /\ a1 \o a2 \o a3 \o a4 \o a5 \in Seq(Packet)
      /\ a1 \o a2 \o a3 \o a4 \o a5 \o a6 \in Seq(Packet)
  BY <1>1, ConcatProperties
<1>5. AsReplies(a1 \o a2) = AsReplies(a1) \o AsReplies(a2)
  BY <1>1, AsRepliesConcat
<1>6. AsReplies(a1 \o a2 \o a3) = AsReplies(a1 \o a2) \o AsReplies(a3)
  BY <1>1, <1>4, AsRepliesConcat
<1>7. AsReplies(a1 \o a2 \o a3 \o a4) = AsReplies(a1 \o a2 \o a3) \o AsReplies(a4)
  BY <1>1, <1>4, AsRepliesConcat
<1>8. AsReplies(a1 \o a2 \o a3 \o a4 \o a5) = AsReplies(a1 \o a2 \o a3 \o a4) \o AsReplies(a5)
  BY <1>1, <1>4, AsRepliesConcat
<1>9. AsReplies(a1 \o a2 \o a3 \o a4 \o a5 \o a6)
        = AsReplies(a1 \o a2 \o a3 \o a4 \o a5) \o AsReplies(a6)
  BY <1>1, <1>4, AsRepliesConcat
<1>10. AsReplies(a1 \o a2 \o a3 \o a4 \o a5 \o a6 \o a7)
         = AsReplies(a1 \o a2 \o a3 \o a4 \o a5 \o a6) \o AsReplies(a7)
  BY <1>1, <1>4, AsRepliesConcat
<1> QED
  BY <1>2, <1>3, <1>5, <1>6, <1>7, <1>8, <1>9, <1>10

\* Both after a step too.
LEMMA OwedPiecesAfter ==
  TypeOK' => (/\ ToHost \in Seq(Packet) /\ FromDevice \in Seq(Packet)
              /\ ToDevice \in Seq(Packet) /\ FromHost \in Seq(Packet)
              /\ ByReply \in Seq(Packet) /\ ByDevice \in Seq(Packet) /\ ByRequest \in Seq(Packet))'
BY OwedPieces, PTL

LEMMA OwingIsFlowAfter == TypeOK' => (Owing = Flow)'
BY OwingIsFlow, PTL

-----------------------------------------------------------------------------
(* Replies are recognisable *)

RepliesAreReplies ==
  /\ \A n \in {"reply_server", "reply_client"} : Answered(pipe[n])
  /\ rep_pc = "write" => ReplyTo(rep_buf) = rep_buf

\* The first packets are in no pipe.
LEMMA InitAnswered == UInit => RepliesAreReplies
BY DEF UInit, Init, PipeInit, ServerInit, RepliesAreReplies, Answered, PipeNames

\* Only the device writes to the reply pipes what it did not read from one.
LEMMA NextAnswered ==
    ASSUME UTypeOK, RepliesAreReplies, [UNext]_uvars
    PROVE  RepliesAreReplies'
<1> USE DEF RepliesAreReplies
<1>1. TypeOK /\ PipeTypeOK
  BY DEF UTypeOK, TypeOK
<1>2. ASSUME UNCHANGED <<rep_pc, rep_buf>>,
             \A n \in {"reply_server", "reply_client"} : pipe'[n] = pipe[n]
      PROVE  RepliesAreReplies'
  BY <1>2 DEF Answered
<1>3. CASE FaultStep
  BY <1>2, <1>3 DEF FaultStep, HostFault, HostEnqueueFails, HostDequeueFails, HostRestart,
                    serverVars
<1>4. CASE HostStep
  <2> USE <1>1, <1>4 DEF HostStep, serverVars, rtlVars
  <2>1. CASE HostIssue \/ HostIssueRefused
    BY <1>2, <2>1 DEF HostIssue, HostIssueRefused
  <2>2. CASE HostEnqueue
    <3>1. \A n \in {"reply_server", "reply_client"} : pipe'[n] = pipe[n]
      BY <2>2 DEF HostEnqueue, PipeWrite, PipeTypeOK, PipeNames
    <3> QED
      BY <1>2, <3>1
  <2>3. CASE HostDequeue
    <3>1. "reply_client" \in PipeNames /\ PipeRead("reply_client")
      BY <2>3 DEF HostDequeue, PipeNames
    <3>2. Answered(pipe'["reply_client"])
      BY <3>1, ReadAnswered
    <3>3. pipe'["reply_server"] = pipe["reply_server"]
      BY <3>1 DEF PipeRead, PipeTypeOK, PipeNames
    <3> QED
      BY <3>2, <3>3
  <2> QED
    BY <2>1, <2>2, <2>3 DEF HostNext
<1>5. CASE ServerStep
  <2> USE <1>1, <1>5 DEF ServerStep
  <2>1. CASE RequestRead
    <3>1. \A n \in {"reply_server", "reply_client"} : pipe'[n] = pipe[n]
      BY <2>1 DEF RequestRead, PipeRead, PipeTypeOK, PipeNames
    <3> QED
      BY <1>2, <2>1, <3>1 DEF RequestRead
  <2>2. CASE RequestWrite
    <3>1. \A n \in {"reply_server", "reply_client"} : pipe'[n] = pipe[n]
      BY <2>2 DEF RequestWrite, PipeWrite, PipeTypeOK, PipeNames
    <3> QED
      BY <1>2, <2>2, <3>1 DEF RequestWrite
  <2>3. CASE ReplyRead
    <3>1. "reply_server" \in PipeNames /\ PipeRead("reply_server")
      BY <2>3 DEF ReplyRead, PipeNames
    <3>2. Answered(pipe'["reply_server"]) /\ ReplyTo(PipeFirst("reply_server")) = PipeFirst("reply_server")
      BY <3>1, ReadAnswered
    <3>3. pipe'["reply_client"] = pipe["reply_client"]
      BY <3>1 DEF PipeRead, PipeTypeOK, PipeNames
    <3> QED
      BY <2>3, <3>2, <3>3 DEF ReplyRead
  <2>4. CASE ReplyWrite
    <3>1. "reply_client" \in PipeNames /\ rep_buf \in Packet /\ PipeWrite("reply_client", rep_buf)
          /\ ReplyTo(rep_buf) = rep_buf
      BY <2>4 DEF ReplyWrite, PipeNames, TypeOK, ServerTypeOK
    <3>2. Answered(pipe'["reply_client"])
      BY <3>1, WriteAnswered
    <3>3. pipe'["reply_server"] = pipe["reply_server"]
      BY <3>1 DEF PipeWrite, PipeTypeOK, PipeNames
    <3> QED
      BY <2>4, <3>2, <3>3 DEF ReplyWrite
  <2> QED
    BY <2>1, <2>2, <2>3, <2>4 DEF ServerNext
<1>6. CASE RtlStep
  <2> USE <1>1, <1>6 DEF RtlStep, serverVars
  <2>1. CASE DpiRequest \/ DpiStop
    <3>1. \A n \in {"reply_server", "reply_client"} : pipe'[n] = pipe[n]
      BY <2>1 DEF DpiRequest, DpiStop, PipeRead, PipeTypeOK, PipeNames
    <3> QED
      BY <1>2, <3>1
  <2>2. CASE DpiRespond
    <3>1. /\ "reply_server" \in PipeNames /\ PipeWrite("reply_server", ReplyTo(rtl_rsp))
          /\ ReplyTo(rtl_rsp) \in Packet
      BY <2>2, PacketFacts DEF DpiRespond, PipeNames, TypeOK, RtlTypeOK
    <3>2. Answered(pipe'["reply_server"])
      <4>1. ReplyTo(ReplyTo(rtl_rsp)) = ReplyTo(rtl_rsp)
        BY ReplyAgain
      <4> QED
        BY <3>1, <4>1, WriteAnswered
    <3>3. pipe'["reply_client"] = pipe["reply_client"]
      BY <3>1 DEF PipeWrite, PipeTypeOK, PipeNames
    <3> QED
      BY <3>2, <3>3
  <2> QED
    BY <2>1, <2>2 DEF RtlNext
<1>7. CASE UNCHANGED uvars
  BY <1>2, <1>7 DEF uvars, vars, serverVars
<1> QED
  BY <1>3, <1>4, <1>5, <1>6, <1>7 DEF UNext, Next

-----------------------------------------------------------------------------
(* Packets on the move *)

\* The server moves packets on and leaves what is owed as it was.
LEMMA ServerKeepsFlow ==
  ASSUME TypeOK, TypeOK', ServerStep
  PROVE  Flow' = Flow
<1> USE DEF ServerStep
<1>1. /\ ToHost \in Seq(Packet) /\ FromDevice \in Seq(Packet)
      /\ ToDevice \in Seq(Packet) /\ FromHost \in Seq(Packet)
      /\ ByReply \in Seq(Packet) /\ ByDevice \in Seq(Packet) /\ ByRequest \in Seq(Packet)
  BY OwedPieces
<1>2. /\ ToHost' \in Seq(Packet) /\ FromDevice' \in Seq(Packet)
      /\ ToDevice' \in Seq(Packet) /\ FromHost' \in Seq(Packet)
      /\ ByReply' \in Seq(Packet) /\ ByDevice' \in Seq(Packet) /\ ByRequest' \in Seq(Packet)
  BY OwedPiecesAfter
<1>3. PipeTypeOK /\ req_buf \in Packet /\ rep_buf \in Packet
  BY DEF TypeOK, ServerTypeOK
<1>4. ByDevice' = ByDevice
  BY DEF ByDevice, rtlVars
<1> DEFINE p2 == ToHost \o ByReply
           p3 == p2 \o FromDevice
           p4 == p3 \o ByDevice
           p5 == p4 \o ToDevice
<1>5. p4 \in Seq(Packet) /\ p5 \in Seq(Packet)
  BY <1>1, ConcatProperties
<1> HIDE DEF p2, p3, p4, p5
<1>6. CASE RequestRead
  <2>1. PipeRead("request_client") /\ "request_client" \in PipeNames
    BY <1>6 DEF RequestRead, PipeNames
  <2>2. /\ AsReplies(One(TRUE, PipeFirst("request_client"))) \o AsReplies(pipe'["request_client"])
           = AsReplies(One(FALSE, PipeFirst("request_client"))) \o AsReplies(pipe["request_client"])
        /\ \A m \in PipeNames \ {"request_client"} : pipe'[m] = pipe[m]
    BY <1>3, <2>1, ReadInPlace
  <2>3. ByRequest' \o FromHost' = ByRequest \o FromHost
    BY <1>6, <2>2 DEF RequestRead, ByRequest, FromHost, One
  <2>4. ToHost' = ToHost /\ ByReply' = ByReply /\ FromDevice' = FromDevice /\ ToDevice' = ToDevice
    BY <1>6, <2>2 DEF RequestRead, ToHost, ByReply, FromDevice, ToDevice, PipeNames
  <2>5. p5 \o ByRequest' \o FromHost' = p5 \o (ByRequest' \o FromHost')
    <3>1. p5 \in Seq(Packet) /\ ByRequest' \in Seq(Packet) /\ FromHost' \in Seq(Packet)
      BY <1>1, <1>2, <1>5
    <3> QED
      BY <3>1, EitherEnd
  <2>6. p5 \o ByRequest \o FromHost = p5 \o (ByRequest \o FromHost)
    <3>1. p5 \in Seq(Packet) /\ ByRequest \in Seq(Packet) /\ FromHost \in Seq(Packet)
      BY <1>1, <1>2, <1>5
    <3> QED
      BY <3>1, EitherEnd
  <2> QED
    BY <1>4, <2>3, <2>4, <2>5, <2>6 DEF Flow, p2, p3, p4, p5
<1>7. CASE RequestWrite
  <2>1. PipeWrite("request_server", req_buf) /\ "request_server" \in PipeNames
    BY <1>7 DEF RequestWrite, PipeNames
  <2>2. /\ AsReplies(pipe'["request_server"]) \o AsReplies(One(FALSE, req_buf))
           = AsReplies(pipe["request_server"]) \o AsReplies(One(TRUE, req_buf))
        /\ \A m \in PipeNames \ {"request_server"} : pipe'[m] = pipe[m]
    BY <1>3, <2>1, WriteInPlace
  <2>3. ToDevice' \o ByRequest' = ToDevice \o ByRequest
    BY <1>7, <2>2 DEF RequestWrite, ByRequest, ToDevice, One
  <2>4. ToHost' = ToHost /\ ByReply' = ByReply /\ FromDevice' = FromDevice /\ FromHost' = FromHost
    BY <1>7, <2>2 DEF RequestWrite, ToHost, ByReply, FromDevice, FromHost, PipeNames
  <2>5. p4 \o ToDevice' \o ByRequest' = p4 \o (ToDevice' \o ByRequest')
    <3>1. p4 \in Seq(Packet) /\ ToDevice' \in Seq(Packet) /\ ByRequest' \in Seq(Packet)
      BY <1>1, <1>2, <1>5
    <3> QED
      BY <3>1, EitherEnd
  <2>6. p4 \o ToDevice \o ByRequest = p4 \o (ToDevice \o ByRequest)
    <3>1. p4 \in Seq(Packet) /\ ToDevice \in Seq(Packet) /\ ByRequest \in Seq(Packet)
      BY <1>1, <1>2, <1>5
    <3> QED
      BY <3>1, EitherEnd
  <2> QED
    BY <1>4, <2>3, <2>4, <2>5, <2>6 DEF Flow, p2, p3, p4
<1>8. CASE ReplyRead
  <2>1. PipeRead("reply_server") /\ "reply_server" \in PipeNames
    BY <1>8 DEF ReplyRead, PipeNames
  <2>2. /\ AsReplies(One(TRUE, PipeFirst("reply_server"))) \o AsReplies(pipe'["reply_server"])
           = AsReplies(One(FALSE, PipeFirst("reply_server"))) \o AsReplies(pipe["reply_server"])
        /\ \A m \in PipeNames \ {"reply_server"} : pipe'[m] = pipe[m]
    BY <1>3, <2>1, ReadInPlace
  <2>3. ByReply' \o FromDevice' = ByReply \o FromDevice
    BY <1>8, <2>2 DEF ReplyRead, ByReply, FromDevice, One
  <2>4. ToHost' = ToHost /\ ToDevice' = ToDevice /\ ByRequest' = ByRequest /\ FromHost' = FromHost
    BY <1>8, <2>2 DEF ReplyRead, ToHost, ToDevice, ByRequest, FromHost, PipeNames
  <2>5. ToHost \o ByReply' \o FromDevice' = ToHost \o (ByReply' \o FromDevice')
    <3>1. ToHost \in Seq(Packet) /\ ByReply' \in Seq(Packet) /\ FromDevice' \in Seq(Packet)
      BY <1>1, <1>2
    <3> QED
      BY <3>1, EitherEnd
  <2>6. ToHost \o ByReply \o FromDevice = ToHost \o (ByReply \o FromDevice)
    <3>1. ToHost \in Seq(Packet) /\ ByReply \in Seq(Packet) /\ FromDevice \in Seq(Packet)
      BY <1>1, <1>2
    <3> QED
      BY <3>1, EitherEnd
  <2> QED
    BY <1>4, <2>3, <2>4, <2>5, <2>6 DEF Flow
<1>9. CASE ReplyWrite
  <2>1. PipeWrite("reply_client", rep_buf) /\ "reply_client" \in PipeNames
    BY <1>9 DEF ReplyWrite, PipeNames
  <2>2. /\ AsReplies(pipe'["reply_client"]) \o AsReplies(One(FALSE, rep_buf))
           = AsReplies(pipe["reply_client"]) \o AsReplies(One(TRUE, rep_buf))
        /\ \A m \in PipeNames \ {"reply_client"} : pipe'[m] = pipe[m]
    BY <1>3, <2>1, WriteInPlace
  <2>3. ToHost' \o ByReply' = ToHost \o ByReply
    BY <1>9, <2>2 DEF ReplyWrite, ByReply, ToHost, One
  <2>4. FromDevice' = FromDevice /\ ToDevice' = ToDevice /\ ByRequest' = ByRequest /\ FromHost' = FromHost
    BY <1>9, <2>2 DEF ReplyWrite, FromDevice, ToDevice, ByRequest, FromHost, PipeNames
  <2> QED
    BY <1>4, <2>3, <2>4 DEF Flow
<1> QED
  BY <1>6, <1>7, <1>8, <1>9 DEF ServerNext

\* So does the device, which no packet stops.
LEMMA DeviceKeepsFlow ==
  ASSUME TypeOK, TypeOK', RtlStep, NothingStops
  PROVE  Flow' = Flow
<1> USE DEF RtlStep
<1>1. /\ ToHost \in Seq(Packet) /\ FromDevice \in Seq(Packet)
      /\ ToDevice \in Seq(Packet) /\ FromHost \in Seq(Packet)
      /\ ByReply \in Seq(Packet) /\ ByDevice \in Seq(Packet) /\ ByRequest \in Seq(Packet)
  BY OwedPieces
<1>2. /\ FromDevice' \in Seq(Packet) /\ ToDevice' \in Seq(Packet) /\ ByDevice' \in Seq(Packet)
  BY OwedPiecesAfter
<1>3. PipeTypeOK /\ rtl_rsp \in Packet
  BY DEF TypeOK, RtlTypeOK
<1>4. ByReply' = ByReply /\ ByRequest' = ByRequest
  BY DEF ByReply, ByRequest, serverVars
<1> DEFINE p2 == ToHost \o ByReply
           p3 == p2 \o FromDevice
<1>5. p2 \in Seq(Packet) /\ p3 \in Seq(Packet)
  BY <1>1, ConcatProperties
<1> HIDE DEF p2, p3
<1>6. CASE DpiRequest
  <2>1. PipeRead("request_server") /\ "request_server" \in PipeNames
    BY <1>6 DEF DpiRequest, PipeNames
  <2>2. /\ AsReplies(One(TRUE, PipeFirst("request_server"))) \o AsReplies(pipe'["request_server"])
           = AsReplies(One(FALSE, PipeFirst("request_server"))) \o AsReplies(pipe["request_server"])
        /\ \A m \in PipeNames \ {"request_server"} : pipe'[m] = pipe[m]
    BY <1>3, <2>1, ReadInPlace
  <2>3. ByDevice' \o ToDevice' = ByDevice \o ToDevice
    BY <1>6, <2>2 DEF DpiRequest, ByDevice, ToDevice, One
  <2>4. ToHost' = ToHost /\ FromDevice' = FromDevice /\ FromHost' = FromHost
    BY <1>6, <2>2 DEF ToHost, FromDevice, FromHost, PipeNames
  <2>5. p3 \o ByDevice' \o ToDevice' = p3 \o (ByDevice' \o ToDevice')
    <3>1. p3 \in Seq(Packet) /\ ByDevice' \in Seq(Packet) /\ ToDevice' \in Seq(Packet)
      BY <1>1, <1>2, <1>5
    <3> QED
      BY <3>1, EitherEnd
  <2>6. p3 \o ByDevice \o ToDevice = p3 \o (ByDevice \o ToDevice)
    <3>1. p3 \in Seq(Packet) /\ ByDevice \in Seq(Packet) /\ ToDevice \in Seq(Packet)
      BY <1>1, <1>2, <1>5
    <3> QED
      BY <3>1, EitherEnd
  <2> QED
    BY <1>4, <2>3, <2>4, <2>5, <2>6 DEF Flow, p2, p3
<1>7. CASE DpiStop
  <2>1. PipeRead("request_server") /\ "request_server" \in PipeNames
    BY <1>7 DEF DpiStop, PipeNames
  <2>2. PipeFirst("request_server").packet_number # 0
    BY <1>3, <2>1, ReadNumbered DEF NothingStops
  <2> QED
    BY <1>7, <2>2 DEF DpiStop
<1>8. CASE DpiRespond
  <2>1. /\ PipeWrite("reply_server", ReplyTo(rtl_rsp)) /\ "reply_server" \in PipeNames
        /\ ReplyTo(rtl_rsp) \in Packet /\ ReplyTo(ReplyTo(rtl_rsp)) = ReplyTo(rtl_rsp)
    BY <1>3, <1>8, PacketFacts, ReplyAgain DEF DpiRespond, PipeNames
  <2>2. /\ AsReplies(pipe'["reply_server"]) \o AsReplies(One(FALSE, rtl_rsp))
           = AsReplies(pipe["reply_server"]) \o AsReplies(One(TRUE, rtl_rsp))
        /\ \A m \in PipeNames \ {"reply_server"} : pipe'[m] = pipe[m]
    BY <1>3, <2>1, WriteInPlace
  <2>3. FromDevice' \o ByDevice' = FromDevice \o ByDevice
    BY <1>8, <2>2 DEF DpiRespond, ByDevice, FromDevice, One
  <2>4. ToHost' = ToHost /\ ToDevice' = ToDevice /\ FromHost' = FromHost
    BY <1>8, <2>2 DEF ToHost, ToDevice, FromHost, PipeNames
  <2>5. p2 \o FromDevice' \o ByDevice' = p2 \o (FromDevice' \o ByDevice')
    <3>1. p2 \in Seq(Packet) /\ FromDevice' \in Seq(Packet) /\ ByDevice' \in Seq(Packet)
      BY <1>1, <1>2, <1>5
    <3> QED
      BY <3>1, EitherEnd
  <2>6. p2 \o FromDevice \o ByDevice = p2 \o (FromDevice \o ByDevice)
    <3>1. p2 \in Seq(Packet) /\ FromDevice \in Seq(Packet) /\ ByDevice \in Seq(Packet)
      BY <1>1, <1>2, <1>5
    <3> QED
      BY <3>1, EitherEnd
  <2> QED
    BY <1>4, <2>3, <2>4, <2>5, <2>6 DEF Flow, p2
<1> QED
  BY <1>6, <1>7, <1>8 DEF RtlNext

\* What is owed longest is in the pipe to the host, if there is anything there.
LEMMA OwedLongest ==
  ASSUME TypeOK, ToHost # << >>
  PROVE  /\ Flow # << >> /\ Head(Flow) = Head(ToHost)
         /\ Tail(Flow) = Tail(ToHost) \o ByReply \o FromDevice \o ByDevice \o ToDevice
                         \o ByRequest \o FromHost
<1>1. ToHost \in Seq(Packet) /\ ByReply \in Seq(Packet) /\ FromDevice \in Seq(Packet)
  BY OwedPieces
<1>2. ByDevice \in Seq(Packet) /\ ToDevice \in Seq(Packet)
  BY OwedPieces
<1>3. ByRequest \in Seq(Packet) /\ FromHost \in Seq(Packet)
  BY OwedPieces
<1> DEFINE p2 == ToHost \o ByReply
           p3 == p2 \o FromDevice
           p4 == p3 \o ByDevice
           p5 == p4 \o ToDevice
           p6 == p5 \o ByRequest
<1>4. p2 \in Seq(Packet) /\ p2 # << >> /\ Head(p2) = Head(ToHost) /\ Tail(p2) = Tail(ToHost) \o ByReply
  BY <1>1, HeadTailConcat, ConcatProperties
<1> HIDE DEF p2
<1>5. p3 \in Seq(Packet) /\ p3 # << >> /\ Head(p3) = Head(p2) /\ Tail(p3) = Tail(p2) \o FromDevice
  BY <1>1, <1>4, HeadTailConcat, ConcatProperties
<1> HIDE DEF p3
<1>6. p4 \in Seq(Packet) /\ p4 # << >> /\ Head(p4) = Head(p3) /\ Tail(p4) = Tail(p3) \o ByDevice
  BY <1>2, <1>5, HeadTailConcat, ConcatProperties
<1> HIDE DEF p4
<1>7. p5 \in Seq(Packet) /\ p5 # << >> /\ Head(p5) = Head(p4) /\ Tail(p5) = Tail(p4) \o ToDevice
  BY <1>2, <1>6, HeadTailConcat, ConcatProperties
<1> HIDE DEF p5
<1>8. p6 \in Seq(Packet) /\ p6 # << >> /\ Head(p6) = Head(p5) /\ Tail(p6) = Tail(p5) \o ByRequest
  BY <1>3, <1>7, HeadTailConcat, ConcatProperties
<1> HIDE DEF p6
<1>9. /\ p6 \o FromHost # << >> /\ Head(p6 \o FromHost) = Head(p6)
      /\ Tail(p6 \o FromHost) = Tail(p6) \o FromHost
  BY <1>3, <1>8, HeadTailConcat
<1>10. Flow = p6 \o FromHost
  BY DEF Flow, p2, p3, p4, p5, p6
<1> QED
  BY <1>4, <1>5, <1>6, <1>7, <1>8, <1>9, <1>10

\* The host takes the reply owed longest ...
LEMMA HostTakesOwedLongest ==
  ASSUME TypeOK, RepliesAreReplies, HostDequeue, UNCHANGED <<serverVars, rtlVars>>
  PROVE  Flow # << >> /\ reply_pkt' = Head(Flow) /\ Flow' = Tail(Flow)
<1>1. /\ pipe["reply_client"] \in Seq(Packet) /\ pipe["reply_client"] # << >>
      /\ pipe'["reply_client"] = Tail(pipe["reply_client"])
      /\ \A m \in PipeNames \ {"reply_client"} : pipe'[m] = pipe[m]
      /\ reply_pkt' = Head(pipe["reply_client"])
  BY DEF HostDequeue, PipeRead, PipeFirst, TypeOK, PipeTypeOK, PipeNames
<1>2. /\ ToHost # << >> /\ Head(ToHost) = ReplyTo(Head(pipe["reply_client"]))
      /\ Tail(ToHost) = AsReplies(Tail(pipe["reply_client"]))
  BY <1>1, AsRepliesFirst DEF ToHost
<1>3. ReplyTo(Head(pipe["reply_client"])) = Head(pipe["reply_client"])
  <2>1. "reply_client" \in PipeNames /\ PipeRead("reply_client") /\ PipeTypeOK
    BY DEF HostDequeue, PipeNames, TypeOK
  <2> QED
    BY <2>1, ReadAnswered DEF RepliesAreReplies, PipeFirst
<1>4. /\ ToHost' = Tail(ToHost)
      /\ ByReply' = ByReply /\ FromDevice' = FromDevice /\ ByDevice' = ByDevice
      /\ ToDevice' = ToDevice /\ ByRequest' = ByRequest /\ FromHost' = FromHost
  BY <1>1, <1>2 DEF ToHost, ByReply, FromDevice, ByDevice, ToDevice, ByRequest, FromHost,
                    PipeNames, serverVars, rtlVars
<1>5. /\ Flow # << >> /\ Head(Flow) = Head(ToHost)
      /\ Tail(Flow) = Tail(ToHost) \o ByReply \o FromDevice \o ByDevice \o ToDevice
                      \o ByRequest \o FromHost
  BY <1>2, OwedLongest
<1>6. Flow' = Tail(Flow)
  BY <1>4, <1>5 DEF Flow
<1> QED
  BY <1>1, <1>2, <1>3, <1>5, <1>6

\* ... and what it sends is owed last.
LEMMA HostOwedLast ==
  ASSUME TypeOK, HostEnqueue, UNCHANGED <<serverVars, rtlVars>>
  PROVE  Flow' = Append(Flow, ReplyTo(send_pkt)) /\ send_pkt \in Packet
<1>1. /\ pipe["request_client"] \in Seq(Packet) /\ send_pkt \in Packet
      /\ pipe'["request_client"] = Append(pipe["request_client"], send_pkt)
      /\ \A m \in PipeNames \ {"request_client"} : pipe'[m] = pipe[m]
  BY DEF HostEnqueue, PipeWrite, TypeOK, PipeTypeOK, HostTypeOK, PipeNames
<1> DEFINE r == ReplyTo(send_pkt)
<1>2. r \in Packet /\ <<r>> \in Seq(Packet)
  BY <1>1, PacketFacts
<1>3. FromHost' = FromHost \o <<r>>
  <2>1. <<send_pkt>> \in Seq(Packet)
        /\ Append(pipe["request_client"], send_pkt) = pipe["request_client"] \o <<send_pkt>>
    BY <1>1, AppendIsConcat
  <2>2. AsReplies(pipe["request_client"] \o <<send_pkt>>)
        = AsReplies(pipe["request_client"]) \o AsReplies(<<send_pkt>>)
    BY <1>1, <2>1, AsRepliesConcat
  <2>3. AsReplies(<<send_pkt>>) = <<r>>
    BY <1>1, AsRepliesShort
  <2> QED
    BY <1>1, <2>1, <2>2, <2>3 DEF FromHost
<1>4. /\ ToHost' = ToHost /\ ByReply' = ByReply /\ FromDevice' = FromDevice
      /\ ByDevice' = ByDevice /\ ToDevice' = ToDevice /\ ByRequest' = ByRequest
  BY <1>1 DEF ToHost, ByReply, FromDevice, ByDevice, ToDevice, ByRequest,
              PipeNames, serverVars, rtlVars
<1> DEFINE p == ToHost \o ByReply \o FromDevice \o ByDevice \o ToDevice \o ByRequest
<1>5. p \in Seq(Packet) /\ FromHost \in Seq(Packet)
  <2>1. /\ ToHost \in Seq(Packet) /\ FromDevice \in Seq(Packet)
        /\ ToDevice \in Seq(Packet) /\ FromHost \in Seq(Packet)
        /\ ByReply \in Seq(Packet) /\ ByDevice \in Seq(Packet) /\ ByRequest \in Seq(Packet)
    BY OwedPieces
  <2> QED
    BY <2>1, ConcatProperties
<1>6. Flow = p \o FromHost /\ Flow' = p \o FromHost'
  BY <1>4 DEF Flow
<1> HIDE DEF p, r
<1>7. p \o FromHost \o <<r>> = p \o (FromHost \o <<r>>)
  BY <1>2, <1>5, EitherEnd
<1>8. Flow \in Seq(Packet)
  BY <1>5, <1>6, ConcatProperties
<1>9. Append(Flow, r) = Flow \o <<r>>
  BY <1>2, <1>8, AppendIsConcat
<1> QED
  BY <1>1, <1>3, <1>6, <1>7, <1>9 DEF r

-----------------------------------------------------------------------------
(* The relay implements the queue *)

\* The queue's packets are the relay's.
LEMMA QueuePackets ==
  Queue!ZeroPacket = ZeroPacket /\ Queue!Packet = Packet /\ \A p : Queue!ReplyTo(p) = ReplyTo(p)
BY DEF Queue!ZeroPacket, ZeroPacket, Queue!Packet, Packet, Queue!ReplyTo, ReplyTo

\* The relay starts as the empty queue.
LEMMA QueueInit == UInit => Queue!Init
<1> SUFFICES ASSUME UInit PROVE Queue!Init
  OBVIOUS
<1>1. /\ \A n \in PipeNames : pipe[n] = << >>
      /\ req_pc = "read" /\ rep_pc = "read" /\ rtl_pc = "request" /\ reply_pkt = ZeroPacket
  BY DEF UInit, Init, PipeInit, HostInit, ServerInit, RtlInit
<1>2. TypeOK
  BY InitType DEF UInit
<1>3. /\ ToHost = << >> /\ ByReply = << >> /\ FromDevice = << >> /\ ByDevice = << >>
      /\ ToDevice = << >> /\ ByRequest = << >> /\ FromHost = << >>
  BY <1>1, AsRepliesShort
     DEF ToHost, ByReply, FromDevice, ByDevice, ToDevice, ByRequest, FromHost, One, PipeNames
<1>4. << >> \o << >> = << >>
  BY ConcatEmptySeq
<1>5. Flow = << >>
  BY <1>3, <1>4 DEF Flow
<1> QED
  BY <1>1, <1>2, <1>5, OwingIsFlow, QueuePackets DEF Queue!Init

\* Every step is a step of the queue, or none of its business.
LEMMA QueueNext ==
  UInv /\ RepliesAreReplies /\ [UNext]_uvars => [Queue!Next]_Queue!orVars
<1> SUFFICES ASSUME UInv, RepliesAreReplies, [UNext]_uvars
             PROVE  [Queue!Next]_Queue!orVars
  OBVIOUS
<1>1. TypeOK /\ NothingStops /\ TypeOK'
  BY UNextType DEF UInv, UTypeOK
<1>2. Owing = Flow /\ Owing' = Flow'
  BY <1>1, OwingIsFlow, OwingIsFlowAfter
<1>3. ASSUME Flow' = Flow, reply_pkt' = reply_pkt PROVE [Queue!Next]_Queue!orVars
  BY <1>2, <1>3 DEF Queue!orVars
<1>4. ASSUME Flow' = Flow, reply_pkt' = ZeroPacket PROVE [Queue!Next]_Queue!orVars
  BY <1>2, <1>4, QueuePackets DEF Queue!Next, Queue!Clear
<1>5. ASSUME UNCHANGED <<pipe, serverVars, rtlVars>> PROVE Flow' = Flow
  BY <1>5 DEF Flow, ToHost, ByReply, FromDevice, ByDevice, ToDevice, ByRequest, FromHost,
              serverVars, rtlVars
<1>6. CASE HostStep
  <2> USE <1>6 DEF HostStep
  <2>1. CASE HostIssue \/ HostIssueRefused
    BY <1>4, <1>5, <2>1 DEF HostIssue, HostIssueRefused, StartAccess
  <2>2. CASE HostEnqueue
    <3>1. Flow' = Append(Flow, ReplyTo(send_pkt)) /\ send_pkt \in Packet
      BY <1>1, <2>2, HostOwedLast
    <3> QED
      BY <1>2, <2>2, <3>1, QueuePackets DEF HostEnqueue, Queue!Next, Queue!Request
  <2>3. CASE HostDequeue
    <3>1. Flow # << >> /\ reply_pkt' = Head(Flow) /\ Flow' = Tail(Flow)
      BY <1>1, <2>3, HostTakesOwedLongest
    <3> QED
      BY <1>2, <3>1 DEF Queue!Next, Queue!Reply
  <2> QED
    BY <2>1, <2>2, <2>3 DEF HostNext
<1>7. CASE ServerStep
  BY <1>1, <1>3, <1>7, ServerKeepsFlow DEF ServerStep, hostVars
<1>8. CASE RtlStep
  BY <1>1, <1>3, <1>8, DeviceKeepsFlow DEF RtlStep, hostVars
<1>9. CASE FaultStep
  <2>1. Flow' = Flow
    BY <1>5, <1>9 DEF FaultStep, HostFault, HostEnqueueFails, HostDequeueFails, HostRestart
  <2> QED
    BY <1>3, <1>4, <1>9, <2>1
       DEF FaultStep, HostFault, HostEnqueueFails, HostDequeueFails, HostRestart
<1>10. CASE UNCHANGED uvars
  BY <1>3, <1>5, <1>10 DEF uvars, vars, hostVars
<1> QED
  BY <1>6, <1>7, <1>8, <1>9, <1>10 DEF UNext, Next

\* Whatever the host does, the relay is a queue: it answers every request once, and
\* in the order of the requests.
THEOREM RelayServesInOrder == USpec => ServesInOrder
<1>1. UInit => RepliesAreReplies
  BY InitAnswered
<1>2. UInv /\ RepliesAreReplies /\ [UNext]_uvars => RepliesAreReplies'
  BY NextAnswered DEF UInv
<1> QED
  BY <1>1, <1>2, UInvariance, QueueInit, QueueNext, PTL DEF USpec, ServesInOrder, Queue!Spec

-----------------------------------------------------------------------------
(* A server and a simulation that fail *)

\* Types, the running of the server included.
CTypeOK == /\ TypeOK
           /\ server_up \in BOOLEAN
           /\ relay_faults \in Nat
           /\ repeated \in Nat

\* NeverMoreThanOwed is about numbers.  Which packets are under way is known only
\* until a thread passes on a buffer it has not read anything into.
CInv == /\ CTypeOK
        /\ NeverMoreThanOwed
        /\ repeated = 0 => InFlightMatches

\* Copies leaves out of the total what a stopped device keeps.
LEMMA CopiesInTotal == TypeOK => Copies \in Nat /\ Total = Copies + KeptAtStop
<1> SUFFICES ASSUME TypeOK PROVE Copies \in Nat /\ Total = Copies + KeptAtStop
  OBVIOUS
<1>1. /\ InRequestClient \in Nat /\ InRequestServer \in Nat
      /\ InReplyServer \in Nat /\ InReplyClient \in Nat
      /\ HeldByRequest \in Nat /\ HeldByDevice \in Nat /\ HeldByReply \in Nat
      /\ KeptAtStop \in Nat
  BY TermsAreNat
<1>2. Copies = InRequestClient + HeldByRequest + InRequestServer + HeldByDevice
               + InReplyServer + HeldByReply + InReplyClient
  BY DEF Copies, InRequestClient, InRequestServer, InReplyServer, InReplyClient,
         HeldByRequest, HeldByDevice, HeldByReply
<1> QED
  BY <1>1, <1>2 DEF Total

\* The same after a step.
LEMMA CopiesInTotalAfter == TypeOK' => (Copies \in Nat /\ Total = Copies + KeptAtStop)'
BY CopiesInTotal, PTL

\* So are its terms.
LEMMA TermsAreNatAfter ==
    TypeOK' => /\ (InRequestClient \in Nat /\ InRequestServer \in Nat)'
               /\ (InReplyServer \in Nat /\ InReplyClient \in Nat)'
               /\ (HeldByRequest \in Nat /\ HeldByDevice \in Nat /\ HeldByReply \in Nat)'
               /\ (Owed \in Nat)'
<1>1. TypeOK => /\ InRequestClient \in Nat /\ InRequestServer \in Nat
                /\ InReplyServer \in Nat /\ InReplyClient \in Nat
                /\ HeldByRequest \in Nat /\ HeldByDevice \in Nat /\ HeldByReply \in Nat
                /\ Owed \in Nat
  BY TermsAreNat
<1> QED
  BY <1>1, PTL

\* A reply is on its way when one of the places for replies holds something.
LEMMA RepliesCounted ==
    TypeOK => (ReplyOnItsWay <=> HeldByDevice + InReplyServer + HeldByReply + InReplyClient # 0)
<1> SUFFICES ASSUME TypeOK
             PROVE ReplyOnItsWay <=> HeldByDevice + InReplyServer + HeldByReply + InReplyClient # 0
  OBVIOUS
<1>1. PICK a \in Nat, b \in Nat, c \in Nat, d \in Nat :
          a = HeldByDevice /\ b = InReplyServer /\ c = HeldByReply /\ d = InReplyClient
  BY TermsAreNat
<1>2. ReplyOnItsWay <=> ~(a = 0 /\ b = 0 /\ c = 0 /\ d = 0)
  BY <1>1, TermsAreNat DEF ReplyOnItsWay
<1>3. a + b + c + d = 0 <=> a = 0 /\ b = 0 /\ c = 0 /\ d = 0
  OBVIOUS
<1> QED
  BY <1>1, <1>2, <1>3

\* So after a step.
LEMMA RepliesCountedAfter ==
    TypeOK' => (ReplyOnItsWay <=> HeldByDevice + InReplyServer + HeldByReply + InReplyClient # 0)'
BY RepliesCounted, PTL

\* A pipe nobody has open any longer loses what it holds; no pipe gains anything.
LEMMA SurvivingIs ==
    ASSUME PipeTypeOK, NEW server \in BOOLEAN, NEW rtl \in BOOLEAN
    PROVE  /\ Surviving(server, rtl) \in [PipeNames -> Seq(Packet)]
           /\ \A n \in PipeNames : Surviving(server, rtl)[n] \in {pipe[n], << >>}
<1>1. \A n \in PipeNames : pipe[n] \in Seq(Packet) /\ << >> \in Seq(Packet)
  BY DEF PipeTypeOK
<1> QED
  BY <1>1 DEF Surviving

-----------------------------------------------------------------------------
(* What a fault does *)

\* Faults but those of a read lose packets, and do nothing else to any of them.
OnlyLoses ==
    /\ \A n \in PipeNames : \/ pipe'[n] \in {pipe[n], << >>}
                            \/ pipe[n] # << >> /\ pipe'[n] = Tail(pipe[n])
    /\ req_pc' = "write" => req_pc = "write" /\ req_buf' = req_buf
    /\ rep_pc' = "write" => rep_pc = "write" /\ rep_buf' = rep_buf
    /\ rtl_pc' = "respond" => rtl_pc = "respond" /\ rtl_rsp' = rtl_rsp
    /\ repeated' = repeated

ReadFails == RequestReadFails \/ ReplyReadFails

\* The faults of the server.
LEMMA ServerLoses ==
    ASSUME CTypeOK, ServerFault, ~ReadFails
    PROVE  OnlyLoses /\ CTypeOK' /\ UNCHANGED hostVars
<1> USE PacketFacts DEF CTypeOK, TypeOK, OnlyLoses, Fault, vars, hostVars, rtlVars,
        HostTypeOK, RtlTypeOK, ServerTypeOK
<1>1. CASE ServerCrash
  <2>1. PipeTypeOK' /\ \A n \in PipeNames : pipe'[n] \in {pipe[n], << >>}
    BY <1>1, SurvivingIs DEF ServerCrash, RtlUp, PipeTypeOK
  <2>2. OnlyLoses
    BY <1>1, <2>1 DEF ServerCrash
  <2>3. (HostTypeOK /\ ServerTypeOK /\ RtlTypeOK)'
    BY <1>1 DEF ServerCrash
  <2>4. (relay_faults \in Nat /\ repeated \in Nat)'
    BY <1>1 DEF ServerCrash
  <2>5. server_up' \in BOOLEAN
    BY <1>1 DEF ServerCrash
  <2>6. CTypeOK'
    BY <2>1, <2>3, <2>4, <2>5
  <2> QED
    BY <1>1, <2>2, <2>6 DEF ServerCrash
<1>2. CASE ServerStart
  BY <1>2 DEF ServerStart, serverVars, PipeTypeOK
<1>3. CASE RequestWriteFails \/ ReplyWriteFails
  BY <1>3 DEF RequestWriteFails, ReplyWriteFails, PipeTypeOK
<1> QED
  BY <1>1, <1>2, <1>3 DEF ServerFault, ReadFails

\* The faults of the simulation.
LEMMA DeviceLoses ==
    ASSUME CTypeOK, RtlFault
    PROVE  OnlyLoses /\ CTypeOK' /\ UNCHANGED hostVars
<1> USE PacketFacts DEF CTypeOK, TypeOK, OnlyLoses, Fault, hostVars, serverVars, relayFaultVars,
        HostTypeOK, RtlTypeOK, ServerTypeOK
<1>1. CASE RtlCrash \/ DpiRequestFails
  <2>1. PipeTypeOK' /\ \A n \in PipeNames : pipe'[n] \in {pipe[n], << >>}
    BY <1>1, SurvivingIs DEF RtlCrash, DpiRequestFails, PipeTypeOK
  <2>2. OnlyLoses
    BY <1>1, <2>1 DEF RtlCrash, DpiRequestFails
  <2>3. (HostTypeOK /\ ServerTypeOK /\ RtlTypeOK)'
    BY <1>1 DEF RtlCrash, DpiRequestFails
  <2>4. (relay_faults \in Nat /\ repeated \in Nat)'
    <3>1. relay_faults' = relay_faults + 1 /\ repeated' = repeated
      BY <1>1 DEF RtlCrash, DpiRequestFails
    <3> QED
      BY <3>1
  <2>5. server_up' \in BOOLEAN
    BY <1>1 DEF RtlCrash, DpiRequestFails
  <2>6. CTypeOK'
    BY <2>1, <2>3, <2>4, <2>5
  <2> QED
    BY <1>1, <2>2, <2>6 DEF RtlCrash, DpiRequestFails
<1>2. CASE RtlStart \/ DpiRespondFails
  BY <1>2 DEF RtlStart, DpiRespondFails, PipeTypeOK
<1>3. CASE RtlStops
  <2>1. CASE server_up
    <3>1. PipeRead("request_server") /\ "request_server" \in PipeNames
      BY <1>3, <2>1 DEF RtlStops, PipeRead, PipeNames
    <3>2. PipeTypeOK' /\ pipe'["request_server"] = Tail(pipe["request_server"])
          /\ \A n \in PipeNames \ {"request_server"} : pipe'[n] = pipe[n]
      BY <3>1, PipeReadType, PipeReadLength
    <3> QED
      BY <1>3, <3>2 DEF RtlStops
  <2>2. CASE ~server_up
    <3>1. PipeTypeOK' /\ \A n \in PipeNames : pipe'[n] \in {pipe[n], << >>}
      BY <1>3, <2>2, SurvivingIs DEF RtlStops, PipeTypeOK
    <3> QED
      BY <1>3, <3>1 DEF RtlStops
  <2> QED
    BY <2>1, <2>2
<1> QED
  BY <1>1, <1>2, <1>3 DEF RtlFault

\* A failed read makes a packet of what the buffer holds.
LEMMA ReadFailsRepeats ==
    ASSUME CTypeOK, ReadFails
    PROVE  CTypeOK' /\ repeated' = repeated + 1 /\ Copies' = Copies + 1 /\ UNCHANGED host_pc
<1>1. CTypeOK' /\ repeated' = repeated + 1 /\ UNCHANGED <<pipe, host_pc, rtl_pc>>
  BY DEF ReadFails, RequestReadFails, ReplyReadFails, Fault, CTypeOK, TypeOK, PipeTypeOK,
     HostTypeOK, ServerTypeOK, RtlTypeOK, hostVars, rtlVars
<1>2. /\ InRequestClient \in Nat /\ InRequestServer \in Nat
      /\ InReplyServer \in Nat /\ InReplyClient \in Nat
      /\ HeldByRequest \in Nat /\ HeldByDevice \in Nat /\ HeldByReply \in Nat
      /\ KeptAtStop \in Nat
  BY TermsAreNat DEF CTypeOK
<1>3. UNCHANGED <<InRequestClient, InRequestServer, InReplyServer, InReplyClient,
                  HeldByDevice, KeptAtStop>>
  BY <1>1 DEF InRequestClient, InRequestServer, InReplyServer, InReplyClient,
     HeldByDevice, KeptAtStop
<1>4. \/ HeldByRequest' = HeldByRequest + 1 /\ HeldByReply' = HeldByReply
      \/ HeldByRequest' = HeldByRequest /\ HeldByReply' = HeldByReply + 1
  BY DEF ReadFails, RequestReadFails, ReplyReadFails, HeldByRequest, HeldByReply, Held
<1>5. Total' = Total + 1
  BY <1>2, <1>3, <1>4 DEF Total
<1>6. Copies \in Nat /\ Copies' \in Nat /\ Total = Copies + KeptAtStop /\ Total' = Copies' + KeptAtStop'
  BY <1>1, CopiesInTotal, CopiesInTotalAfter DEF CTypeOK
<1>7. Copies' = Copies + 1
  <2>1. PICK a \in Nat, b \in Nat, c \in Nat : a = Copies /\ b = Copies' /\ c = KeptAtStop
    BY <1>2, <1>6
  <2>2. b + c = (a + c) + 1
    BY <1>3, <1>5, <1>6, <2>1
  <2>3. b = a + 1
    BY <2>2
  <2> QED
    BY <2>1, <2>3
<1> QED
  BY <1>1, <1>7

\* No place holds more than before.
NoneGrows ==
    /\ InRequestClient' <= InRequestClient /\ InRequestServer' <= InRequestServer
    /\ InReplyServer' <= InReplyServer /\ InReplyClient' <= InReplyClient
    /\ HeldByRequest' <= HeldByRequest /\ HeldByDevice' <= HeldByDevice
    /\ HeldByReply' <= HeldByReply

\* So it is when packets are only lost.
LEMMA LossShrinks == CTypeOK /\ CTypeOK' /\ OnlyLoses => NoneGrows
<1> SUFFICES ASSUME CTypeOK, CTypeOK', OnlyLoses PROVE NoneGrows
  OBVIOUS
<1>1. ASSUME NEW n \in PipeNames
      PROVE  Len(pipe'[n]) <= Len(pipe[n])
  <2>1. pipe[n] \in Seq(Packet) /\ Len(pipe[n]) \in Nat /\ Len(<< >>) = 0
    BY DEF CTypeOK, TypeOK, PipeTypeOK
  <2>2. pipe[n] # << >> => Len(Tail(pipe[n])) = Len(pipe[n]) - 1
    BY <2>1
  <2>3. CASE pipe'[n] \in {pipe[n], << >>}
    BY <2>1, <2>3
  <2>4. CASE pipe[n] # << >> /\ pipe'[n] = Tail(pipe[n])
    BY <2>1, <2>2, <2>4
  <2> QED
    BY <2>3, <2>4 DEF OnlyLoses
<1>2. /\ InRequestClient' <= InRequestClient /\ InRequestServer' <= InRequestServer
      /\ InReplyServer' <= InReplyServer /\ InReplyClient' <= InReplyClient
  BY <1>1 DEF PipeNames, InRequestClient, InRequestServer, InReplyServer, InReplyClient
<1>3. /\ HeldByRequest' <= HeldByRequest /\ HeldByDevice' <= HeldByDevice
      /\ HeldByReply' <= HeldByReply
  BY DEF OnlyLoses, HeldByRequest, HeldByDevice, HeldByReply, Held
<1> QED
  BY <1>2, <1>3 DEF NoneGrows

\* Then there are fewer packets, unless each is where it was.
LEMMA ShrunkOrSame ==
    ASSUME CTypeOK, CTypeOK', OnlyLoses
    PROVE  \/ Copies' < Copies
           \/ Copies' = Copies /\ (ReplyOnItsWay' <=> ReplyOnItsWay)
<1>1. /\ InRequestClient \in Nat /\ InRequestServer \in Nat
      /\ InReplyServer \in Nat /\ InReplyClient \in Nat
      /\ HeldByRequest \in Nat /\ HeldByDevice \in Nat /\ HeldByReply \in Nat
  BY TermsAreNat DEF CTypeOK
<1>2. PICK a1 \in Nat, a2 \in Nat, a3 \in Nat, a4 \in Nat, a5 \in Nat, a6 \in Nat, a7 \in Nat :
          /\ a1 = InRequestClient /\ a2 = HeldByRequest /\ a3 = InRequestServer
          /\ a4 = HeldByDevice /\ a5 = InReplyServer /\ a6 = HeldByReply /\ a7 = InReplyClient
  BY <1>1
<1>3. /\ (InRequestClient \in Nat /\ InRequestServer \in Nat)'
      /\ (InReplyServer \in Nat /\ InReplyClient \in Nat)'
      /\ (HeldByRequest \in Nat /\ HeldByDevice \in Nat /\ HeldByReply \in Nat)'
  BY TermsAreNatAfter DEF CTypeOK
<1>4. PICK b1 \in Nat, b2 \in Nat, b3 \in Nat, b4 \in Nat, b5 \in Nat, b6 \in Nat, b7 \in Nat :
          /\ b1 = InRequestClient' /\ b2 = HeldByRequest' /\ b3 = InRequestServer'
          /\ b4 = HeldByDevice' /\ b5 = InReplyServer' /\ b6 = HeldByReply' /\ b7 = InReplyClient'
  BY <1>3
<1>5. b1 <= a1 /\ b2 <= a2 /\ b3 <= a3 /\ b4 <= a4 /\ b5 <= a5 /\ b6 <= a6 /\ b7 <= a7
  BY <1>2, <1>4, LossShrinks DEF NoneGrows
<1>6. Copies = a1 + a2 + a3 + a4 + a5 + a6 + a7 /\ Copies' = b1 + b2 + b3 + b4 + b5 + b6 + b7
  BY <1>2, <1>4 DEF Copies, InRequestClient, InRequestServer, InReplyServer, InReplyClient,
     HeldByRequest, HeldByDevice, HeldByReply
<1>7. CASE a1 = b1 /\ a2 = b2 /\ a3 = b3 /\ a4 = b4 /\ a5 = b5 /\ a6 = b6 /\ a7 = b7
  <2>1. Copies' = Copies
    BY <1>6, <1>7
  <2>2. ReplyOnItsWay <=> a4 + a5 + a6 + a7 # 0
    BY <1>2, RepliesCounted DEF CTypeOK
  <2>3. ReplyOnItsWay' <=> b4 + b5 + b6 + b7 # 0
    BY <1>4, RepliesCountedAfter DEF CTypeOK
  <2> QED
    BY <1>7, <2>1, <2>2, <2>3
<1>8. CASE ~(a1 = b1 /\ a2 = b2 /\ a3 = b3 /\ a4 = b4 /\ a5 = b5 /\ a6 = b6 /\ a7 = b7)
  <2>1. b1 + b2 + b3 + b4 + b5 + b6 + b7 < a1 + a2 + a3 + a4 + a5 + a6 + a7
    BY <1>5, <1>8
  <2> QED
    BY <1>6, <2>1
<1> QED
  BY <1>7, <1>8

\* A running step moves packets along; what is there follows what the host waits for.
LEMMA RunningBalance ==
    ASSUME CTypeOK, RunningStep
    PROVE  CTypeOK' /\ Copies' + Owed = Copies + Owed' /\ repeated' = repeated
<1>1. [Next]_vars /\ relayFaultVars' = relayFaultVars
  BY DEF RunningStep, Next, RtlStep, RtlNext
<1>2. CTypeOK'
  BY <1>1, NextType DEF CTypeOK, relayFaultVars
<1>3. KeptAtStop' = KeptAtStop
  <2>1. rtl_pc' = rtl_pc \/ (rtl_pc # "finished" /\ rtl_pc' # "finished")
    BY DEF RunningStep, HostStep, ServerStep, DpiRequest, DpiRespond, rtlVars
  <2> QED
    BY <2>1 DEF KeptAtStop, Held
<1>4. Total' + Owed = Total + Owed'
  BY TotalFollowsOwed, <1>1 DEF CTypeOK
<1>5. /\ Copies \in Nat /\ Total = Copies + KeptAtStop /\ Copies' \in Nat
      /\ Total' = Copies' + KeptAtStop' /\ KeptAtStop \in Nat /\ Owed \in Nat /\ Owed' \in Nat
  <2>1. (Owed \in Nat)'
    BY <1>2, TermsAreNatAfter DEF CTypeOK
  <2> QED
    BY <1>2, <2>1, CopiesInTotal, CopiesInTotalAfter, TermsAreNat DEF CTypeOK
<1>6. PICK a \in Nat, b \in Nat, c \in Nat, d \in Nat, e \in Nat :
          a = Copies /\ b = Copies' /\ c = KeptAtStop /\ d = Owed /\ e = Owed'
  BY <1>5
<1>7. (b + c) + d = (a + c) + e
  BY <1>3, <1>4, <1>5, <1>6
<1>8. b + d = a + e
  BY <1>7
<1> QED
  BY <1>1, <1>2, <1>6, <1>8 DEF relayFaultVars

-----------------------------------------------------------------------------
(* The invariant *)

\* The kinds of step there are.
LEMMA StepKinds ==
    ASSUME CTypeOK, [CNext]_cvars
    PROVE  \/ RunningStep
           \/ ReadFails
           \/ OnlyLoses /\ CTypeOK' /\ UNCHANGED hostVars
<1>1. CASE UNCHANGED cvars
  <2>1. UNCHANGED <<pipe, hostVars, serverVars, rtlVars, relayFaultVars>>
    BY <1>1 DEF cvars, vars
  <2>2. OnlyLoses
    BY <2>1 DEF OnlyLoses, serverVars, rtlVars, relayFaultVars
  <2>3. CTypeOK'
    BY <2>1 DEF CTypeOK, TypeOK, PipeTypeOK, HostTypeOK, ServerTypeOK, RtlTypeOK,
       hostVars, serverVars, rtlVars, relayFaultVars
  <2> QED
    BY <2>1, <2>2, <2>3
<1>2. CASE CNext
  BY <1>2, ServerLoses, DeviceLoses DEF CNext
<1> QED
  BY <1>1, <1>2

\* NeverMoreThanOwed after a step.
LEMMA BalanceAfter == (Copies <= Owed + repeated)' => NeverMoreThanOwed'
<1>1. Copies <= Owed + repeated => NeverMoreThanOwed
  BY DEF NeverMoreThanOwed, Owed
<1> QED
  BY <1>1, PTL

\* Only a failed read makes a packet, and it is counted.
LEMMA BalanceNext ==
    ASSUME CTypeOK, NeverMoreThanOwed, [CNext]_cvars
    PROVE  CTypeOK' /\ NeverMoreThanOwed'
<1>1. CTypeOK'
  BY StepKinds, RunningBalance, ReadFailsRepeats
<1>2. /\ Copies \in Nat /\ Copies' \in Nat /\ Owed \in Nat /\ Owed' \in Nat
      /\ repeated \in Nat /\ repeated' \in Nat
  <2>1. (Owed \in Nat)' /\ (Copies \in Nat)'
    BY <1>1, TermsAreNatAfter, CopiesInTotalAfter DEF CTypeOK
  <2>2. Owed \in Nat /\ Copies \in Nat
    BY CopiesInTotal, TermsAreNat DEF CTypeOK
  <2> QED
    BY <1>1, <2>1, <2>2 DEF CTypeOK
<1>3. PICK a \in Nat, b \in Nat, c \in Nat, d \in Nat, e \in Nat, f \in Nat :
          a = Copies /\ b = Copies' /\ c = Owed /\ d = Owed' /\ e = repeated /\ f = repeated'
  BY <1>2
<1>4. a <= c + e
  BY <1>3 DEF NeverMoreThanOwed, Owed
<1>5. CASE RunningStep
  <2>1. b + c = a + d /\ f = e
    BY <1>3, <1>5, RunningBalance
  <2>2. b <= d + f
    BY <1>4, <2>1
  <2> QED
    BY <1>1, <1>3, <2>2, BalanceAfter
<1>6. CASE ReadFails
  <2>1. b = a + 1 /\ f = e + 1
    BY <1>3, <1>6, ReadFailsRepeats
  <2>2. d = c
    BY <1>3, <1>6, ReadFailsRepeats DEF Owed, Held
  <2>3. b <= d + f
    BY <1>4, <2>1, <2>2
  <2> QED
    BY <1>1, <1>3, <2>3, BalanceAfter
<1>7. CASE OnlyLoses /\ UNCHANGED hostVars
  <2>1. b <= a
    BY <1>1, <1>3, <1>7, ShrunkOrSame
  <2>2. d = c /\ f = e
    BY <1>3, <1>7 DEF Owed, Held, hostVars, OnlyLoses
  <2>3. b <= d + f
    BY <1>4, <2>1, <2>2
  <2> QED
    BY <1>1, <1>3, <2>3, BalanceAfter
<1> QED
  BY <1>5, <1>6, <1>7, StepKinds

\* While nothing has been repeated there is a packet only while the host waits.
LEMMA OneWhileWaiting ==
    ASSUME CInv, repeated = 0
    PROVE  Copies \in Nat /\ Copies <= (IF host_pc = "wait" THEN 1 ELSE 0)
<1>1. Copies \in Nat
  BY CopiesInTotal DEF CInv, CTypeOK
<1>2. Copies <= Owed + 0 /\ Owed = IF host_pc = "wait" THEN 1 ELSE 0
  BY DEF CInv, NeverMoreThanOwed, Owed, Held
<1> QED
  BY <1>1, <1>2

\* Then no place holds any.
LEMMA NoneUnlessWaiting ==
    ASSUME CInv, repeated = 0, host_pc # "wait"
    PROVE  NothingUnderWay
<1>1. /\ InRequestClient \in Nat /\ InRequestServer \in Nat
      /\ InReplyServer \in Nat /\ InReplyClient \in Nat
      /\ HeldByRequest \in Nat /\ HeldByDevice \in Nat /\ HeldByReply \in Nat
  BY TermsAreNat DEF CInv, CTypeOK
<1>2. Copies = 0
  BY OneWhileWaiting
<1>3. InRequestClient + HeldByRequest + InRequestServer + HeldByDevice
      + InReplyServer + HeldByReply + InReplyClient = 0
  BY <1>2 DEF Copies, InRequestClient, InRequestServer, InReplyServer, InReplyClient,
     HeldByRequest, HeldByDevice, HeldByReply
<1>4. /\ InRequestClient = 0 /\ InRequestServer = 0 /\ InReplyServer = 0 /\ InReplyClient = 0
      /\ HeldByRequest = 0 /\ HeldByDevice = 0 /\ HeldByReply = 0
  BY <1>1, <1>3
<1> QED
  BY <1>4, TermsAreNat DEF CInv, CTypeOK, PipeNames, NothingUnderWay

\* A pipe that holds something is counted.
LEMMA CopiesSeePipes ==
    TypeOK => \A n \in PipeNames : pipe[n] # << >> => Copies # 0
<1> SUFFICES ASSUME TypeOK, NEW n \in PipeNames, pipe[n] # << >> PROVE Copies # 0
  OBVIOUS
<1>1. /\ InRequestClient \in Nat /\ InRequestServer \in Nat
      /\ InReplyServer \in Nat /\ InReplyClient \in Nat
      /\ HeldByRequest \in Nat /\ HeldByDevice \in Nat /\ HeldByReply \in Nat
  BY TermsAreNat
<1>2. InRequestClient + HeldByRequest + InRequestServer + HeldByDevice
      + InReplyServer + HeldByReply + InReplyClient # 0
  <2>1. ~(InRequestClient = 0 /\ InRequestServer = 0 /\ InReplyServer = 0 /\ InReplyClient = 0)
    BY TermsAreNat DEF PipeNames
  <2> QED
    BY <1>1, <2>1
<1> QED
  BY <1>2 DEF Copies, InRequestClient, InRequestServer, InReplyServer, InReplyClient,
     HeldByRequest, HeldByDevice, HeldByReply

\* So it is after a step.
LEMMA CopiesSeePipesAfter ==
    TypeOK' => (\A n \in PipeNames : pipe[n] # << >> => Copies # 0)'
BY CopiesSeePipes, PTL

\* A request that has not reached the device is the only packet.
LEMMA RequestExcludesReply ==
    ASSUME CInv, repeated = 0, pipe["request_server"] # << >>
    PROVE  ~ReplyOnItsWay /\ host_pc = "wait" /\ ~AccessLost
<1>1. /\ InRequestClient \in Nat /\ InRequestServer \in Nat /\ InRequestServer # 0
      /\ InReplyServer \in Nat /\ InReplyClient \in Nat
      /\ HeldByRequest \in Nat /\ HeldByDevice \in Nat /\ HeldByReply \in Nat
  BY TermsAreNat DEF CInv, CTypeOK
<1>2. PICK a1 \in Nat, a2 \in Nat, a3 \in Nat, a4 \in Nat, a5 \in Nat, a6 \in Nat, a7 \in Nat :
          /\ a1 = InRequestClient /\ a2 = HeldByRequest /\ a3 = InRequestServer
          /\ a4 = HeldByDevice /\ a5 = InReplyServer /\ a6 = HeldByReply /\ a7 = InReplyClient
  BY <1>1
<1>3. Copies = a1 + a2 + a3 + a4 + a5 + a6 + a7
  BY <1>2 DEF Copies, InRequestClient, InRequestServer, InReplyServer, InReplyClient,
     HeldByRequest, HeldByDevice, HeldByReply
<1>4. a1 + a2 + a3 + a4 + a5 + a6 + a7 <= (IF host_pc = "wait" THEN 1 ELSE 0) /\ a3 # 0
  BY <1>1, <1>2, <1>3, OneWhileWaiting
<1>5. host_pc = "wait" /\ a4 + a5 + a6 + a7 = 0 /\ a1 + a2 + a3 + a4 + a5 + a6 + a7 # 0
  BY <1>4
<1> QED
  BY <1>2, <1>3, <1>5, RepliesCounted DEF AccessLost, CInv, CTypeOK

\* A loss alters no packet.
LEMMA LossMatches ==
    ASSUME CTypeOK, OnlyLoses, UNCHANGED hostVars, InFlightMatches
    PROVE  InFlightMatches'
<1>1. ASSUME NEW n \in PipeNames, NEW p, AllAre(pipe[n], p)
      PROVE  AllAre(pipe'[n], p)
  <2>1. pipe[n] \in Seq(Packet)
    BY DEF CTypeOK, TypeOK, PipeTypeOK
  <2>2. CASE pipe'[n] \in {pipe[n], << >>}
    BY <1>1, <2>2 DEF AllAre
  <2>3. CASE pipe[n] # << >> /\ pipe'[n] = Tail(pipe[n])
    <3>1. Len(Tail(pipe[n])) = Len(pipe[n]) - 1 /\ Len(pipe[n]) \in Nat
          /\ \A i \in 1 .. Len(Tail(pipe[n])) : Tail(pipe[n])[i] = pipe[n][i + 1]
      BY <2>1, <2>3
    <3> QED
      BY <1>1, <2>3, <3>1 DEF AllAre
  <2> QED
    BY <2>2, <2>3 DEF OnlyLoses
<1>2. send_pkt' = send_pkt
  BY DEF hostVars
<1> QED
  BY <1>1, <1>2 DEF InFlightMatches, OnlyLoses, PipeNames

\* The initial state satisfies the invariant.
LEMMA CInvInit == CInit => CInv
<1> SUFFICES ASSUME CInit PROVE CInv
  OBVIOUS
<1>1. TypeOK /\ Conservation /\ InFlightMatches
  BY InitInv DEF CInit, IInv
<1>2. CTypeOK
  BY <1>1 DEF CInit, RelayFaultInit, CTypeOK
<1>3. rtl_pc # "finished" /\ repeated = 0
  BY DEF CInit, RelayFaultInit, Init, RtlInit
<1>4. Copies = Owed
  BY <1>1, <1>3, CopiesInTotal, ConservationAsSum DEF KeptAtStop, Held
<1>5. Copies \in Nat
  BY <1>1, CopiesInTotal
<1> QED
  BY <1>1, <1>2, <1>3, <1>4, <1>5 DEF CInv, NeverMoreThanOwed, Owed

\* Every step keeps it.
LEMMA CInvNext == CInv /\ [CNext]_cvars => CInv'
<1> SUFFICES ASSUME CInv, [CNext]_cvars PROVE CInv'
  OBVIOUS
<1>1. CTypeOK /\ NeverMoreThanOwed /\ CTypeOK' /\ NeverMoreThanOwed'
  BY BalanceNext DEF CInv
<1>2. ASSUME repeated' = 0 PROVE InFlightMatches'
  <2>1. repeated = 0 /\ ~ReadFails
    BY <1>1, <1>2, StepKinds, RunningBalance, ReadFailsRepeats DEF OnlyLoses, CTypeOK
  <2>2. CASE RunningStep
    <3>1. [Next]_vars
      BY <2>2 DEF RunningStep, Next, RtlStep, RtlNext
    <3> QED
      BY <1>1, <2>1, <3>1, NextMatches, NoneUnlessWaiting DEF CInv, CTypeOK
  <2>3. CASE OnlyLoses /\ UNCHANGED hostVars
    BY <1>1, <2>1, <2>3, LossMatches DEF CInv
  <2> QED
    BY <1>1, <2>1, <2>2, <2>3, StepKinds
<1> QED
  BY <1>1, <1>2 DEF CInv

\* With dying processes and failing calls the invariant holds of every behaviour.
THEOREM CInvariance == CSpec => []CInv
BY CInvInit, CInvNext, PTL DEF CSpec

\* Whatever dies, restarts or fails, packets are lost and never repeated, except
\* by a read that failed.
THEOREM OwedIsNotExceeded == CSpec => []NeverMoreThanOwed
BY CInvariance, PTL DEF CInv

-----------------------------------------------------------------------------
(* The refinement *)

\* Initial states map to initial states.
LEMMA CInitRefines == CInit => LossyPromise!Init
BY DEF CInit, Init, HostInit, LossyPromise!Init, CrashPhase, LossyPromise!ZeroPacket, ZeroPacket

\* The step of the host that starts an access, and the one that is given a reply.
LEMMA HostRefinesLossy ==
    ASSUME CInv, CInv', repeated = 0, RunningStep, HostStep
    PROVE  [LossyPromise!Next]_(LossyPromise!raVars)
<1> USE DEF LossyPromise!raVars, LossyPromise!Next, LossyPromise!Packet, Packet,
            LossyPromise!ZeroPacket, ZeroPacket, HostStep, serverVars, rtlVars
<1>1. TypeOK /\ PipeTypeOK /\ HostTypeOK /\ InFlightMatches /\ TypeOK'
  BY DEF CInv, CTypeOK, TypeOK
<1>2. host_pc # "wait" => NothingUnderWay
  BY NoneUnlessWaiting
<1>3. CASE HostIssue
  <2>1. send_pkt' \in Packet /\ reply_pkt' = ZeroPacket
    BY <1>1, <1>3 DEF HostIssue, StartAccess, HostTypeOK
  <2>2. ~ReplyOnItsWay'
    BY <1>2, <1>3 DEF HostIssue, NothingUnderWay, ReplyOnItsWay, PipeNames
  <2>3. CrashPhase = "idle" /\ CrashPhase' = "asked"
    BY <1>3, <2>2 DEF HostIssue, CrashPhase, AccessLost
  <2> QED
    BY <2>1, <2>3 DEF LossyPromise!Ask
<1>4. CASE HostIssueRefused
  <2>1. send_pkt' \in Packet /\ reply_pkt' = ZeroPacket
    BY <1>1, <1>4 DEF HostIssueRefused, StartAccess, HostTypeOK
  <2>2. CrashPhase = "idle" /\ CrashPhase' = "idle"
    BY <1>4 DEF HostIssueRefused, CrashPhase
  <2> QED
    BY <2>1, <2>2 DEF LossyPromise!Refuse
<1>5. CASE HostEnqueue
  <2>1. \A n \in PipeNames : n # "request_client" => pipe'[n] = pipe[n]
    BY <1>1, <1>5, PipeWriteLength DEF HostEnqueue, HostTypeOK, PipeNames
  <2>2. pipe'["request_client"] # << >>
    <3>1. Len(pipe'["request_client"]) = Len(pipe["request_client"]) + 1
          /\ Len(pipe["request_client"]) \in Nat
      BY <1>1, <1>5, PipeWriteLength DEF HostEnqueue, HostTypeOK, PipeNames
    <3> QED
      BY <3>1
  <2>3. ~ReplyOnItsWay /\ ~ReplyOnItsWay'
    BY <1>2, <1>5, <2>1 DEF HostEnqueue, NothingUnderWay, ReplyOnItsWay, PipeNames
  <2>4. ~AccessLost'
    BY <1>1, <2>2, CopiesSeePipesAfter DEF AccessLost, PipeNames
  <2>5. CrashPhase = "asked" /\ CrashPhase' = "asked"
    BY <1>5, <2>3, <2>4 DEF HostEnqueue, CrashPhase, AccessLost
  <2> QED
    BY <1>5, <2>5 DEF HostEnqueue
<1>6. CASE HostDequeue
  <2>1. pipe["reply_client"] # << >> /\ PipeFirst("reply_client") = ReplyTo(send_pkt)
    BY <1>1, <1>6, PipeReadEffect, PipeReadLength DEF HostDequeue, PipeNames, InFlightMatches
  <2>2. ReplyOnItsWay /\ ~AccessLost
    BY <1>1, <2>1, CopiesSeePipes DEF ReplyOnItsWay, AccessLost, PipeNames
  <2>3. CrashPhase = "served" /\ CrashPhase' = "idle"
    BY <1>6, <2>2 DEF HostDequeue, CrashPhase
  <2> QED
    BY <1>6, <2>1, <2>3 DEF HostDequeue, LossyPromise!Answer, LossyPromise!ReplyTo, ReplyTo
<1> QED
  BY <1>3, <1>4, <1>5, <1>6 DEF HostNext

\* Packets go on to the next stage, or the device serves one.
LEMMA RelayRefinesLossy ==
    ASSUME CInv, CInv', repeated = 0, RunningStep, ~HostStep
    PROVE  [LossyPromise!Next]_(LossyPromise!raVars)
<1> USE DEF LossyPromise!raVars, LossyPromise!Next
<1>1. TypeOK /\ PipeTypeOK /\ TypeOK' /\ ServerTypeOK /\ RtlTypeOK
  BY DEF CInv, CTypeOK, TypeOK
<1>2. UNCHANGED hostVars
  BY DEF RunningStep, ServerStep
<1>3. Copies' = Copies
  <2>1. Copies \in Nat /\ Copies' \in Nat /\ Owed \in Nat
    BY <1>1, CopiesInTotal, CopiesInTotalAfter, TermsAreNat
  <2>2. Owed' = Owed
    BY <1>2 DEF Owed, Held, hostVars
  <2>3. PICK a \in Nat, b \in Nat, c \in Nat : a = Copies /\ b = Copies' /\ c = Owed
    BY <2>1
  <2>4. b + c = a + c
    BY <2>2, <2>3, RunningBalance DEF CInv
  <2>5. b = a
    BY <2>4
  <2> QED
    BY <2>3, <2>5
<1>4. AccessLost' <=> AccessLost
  BY <1>2, <1>3 DEF AccessLost, hostVars
<1>5. CASE ReplyOnItsWay' <=> ReplyOnItsWay
  <2>1. CrashPhase' = CrashPhase
    BY <1>2, <1>4, <1>5 DEF CrashPhase, hostVars
  <2> QED
    BY <1>2, <2>1 DEF hostVars
<1>6. CASE DpiRequest
  <2>1. pipe["request_server"] # << >>
    BY <1>6 DEF DpiRequest, PipeRead
  <2>2. ~ReplyOnItsWay /\ host_pc = "wait" /\ ~AccessLost
    BY <2>1, RequestExcludesReply
  <2>3. ReplyOnItsWay'
    BY <1>6 DEF DpiRequest, ReplyOnItsWay
  <2>4. CrashPhase = "asked" /\ CrashPhase' = "served"
    BY <1>2, <1>4, <2>2, <2>3 DEF CrashPhase, hostVars
  <2> QED
    BY <1>2, <2>4 DEF LossyPromise!Serve, hostVars
<1>7. CASE DpiRespond
  <2>1. Len(pipe'["reply_server"]) = Len(pipe["reply_server"]) + 1 /\ Len(pipe["reply_server"]) \in Nat
    BY <1>1, <1>7, PipeWriteLength, PacketFacts DEF DpiRespond, RtlTypeOK, PipeNames
  <2>2. pipe'["reply_server"] # << >>
    BY <2>1
  <2> QED
    BY <1>5, <1>7, <2>2 DEF DpiRespond, ReplyOnItsWay
<1>8. CASE ServerStep
  <2> USE <1>8 DEF ServerStep, rtlVars, ReplyOnItsWay
  <2>1. CASE RequestRead
    BY <1>1, <1>5, <2>1, PipeReadLength DEF RequestRead, PipeNames
  <2>2. CASE RequestWrite
    BY <1>1, <1>5, <2>2, PipeWriteLength DEF RequestWrite, PipeNames, ServerTypeOK
  <2>3. CASE ReplyRead
    <3>1. ReplyOnItsWay /\ ReplyOnItsWay'
      BY <2>3 DEF ReplyRead, PipeRead
    <3> QED
      BY <1>5, <3>1
  <2>4. CASE ReplyWrite
    <3>1. Len(pipe'["reply_client"]) = Len(pipe["reply_client"]) + 1 /\ Len(pipe["reply_client"]) \in Nat
      BY <1>1, <2>4, PipeWriteLength DEF ReplyWrite, ServerTypeOK, PipeNames
    <3>2. pipe'["reply_client"] # << >>
      BY <3>1
    <3>3. ReplyOnItsWay /\ ReplyOnItsWay'
      BY <2>4, <3>2 DEF ReplyWrite
    <3> QED
      BY <1>5, <3>3
  <2> QED
    BY <2>1, <2>2, <2>3, <2>4 DEF ServerNext
<1> QED
  BY <1>6, <1>7, <1>8 DEF RunningStep

\* A fault loses the access, or the host cannot tell that there was one.
LEMMA FaultRefinesLossy ==
    ASSUME CInv, CInv', repeated = 0, OnlyLoses, UNCHANGED hostVars
    PROVE  [LossyPromise!Next]_(LossyPromise!raVars)
<1> USE DEF LossyPromise!raVars, LossyPromise!Next
<1>1. CTypeOK /\ CTypeOK' /\ UNCHANGED <<host_pc, send_pkt, reply_pkt>>
  BY DEF CInv, hostVars
<1>2. CASE Copies' = Copies /\ (ReplyOnItsWay' <=> ReplyOnItsWay)
  <2>1. CrashPhase' = CrashPhase
    BY <1>1, <1>2 DEF CrashPhase, AccessLost
  <2> QED
    BY <1>1, <2>1
<1>3. CASE Copies' < Copies
  <2>1. Copies \in Nat /\ Copies' \in Nat /\ Copies <= (IF host_pc = "wait" THEN 1 ELSE 0)
    BY <1>1, OneWhileWaiting, CopiesInTotalAfter DEF CTypeOK
  <2>2. PICK a \in Nat, b \in Nat : a = Copies /\ b = Copies'
    BY <2>1
  <2>3. b < a /\ a <= (IF host_pc = "wait" THEN 1 ELSE 0)
    BY <1>3, <2>1, <2>2
  <2>4. host_pc = "wait" /\ a = 1 /\ b = 0
    BY <2>3
  <2>5. ~AccessLost /\ AccessLost'
    BY <1>1, <2>2, <2>4 DEF AccessLost
  <2>6. CrashPhase \in {"asked", "served"} /\ CrashPhase' = "lost"
    BY <1>1, <2>4, <2>5 DEF CrashPhase
  <2> QED
    BY <1>1, <2>6 DEF LossyPromise!Lose
<1> QED
  BY <1>1, <1>2, <1>3, ShrunkOrSame

\* Deaths, restarts and failed calls lose accesses; until a failed read is taken for
\* one that worked, none is served twice or completed by anything but its own reply.
THEOREM CrashingImplementsLossyPromise == CSpec => ImplementsLossyPromise
<1>1. CInv /\ CInv' /\ [CNext]_cvars
        => [repeated' = 0 => [LossyPromise!Next]_(LossyPromise!raVars)]_cvars
  <2> SUFFICES ASSUME CInv, CInv', [CNext]_cvars, repeated' = 0
               PROVE  [LossyPromise!Next]_(LossyPromise!raVars)
    OBVIOUS
  <2>1. CTypeOK /\ repeated = 0 /\ ~ReadFails
    BY StepKinds, RunningBalance, ReadFailsRepeats DEF OnlyLoses, CTypeOK, CInv
  <2> QED
    BY <2>1, StepKinds, HostRefinesLossy, RelayRefinesLossy, FaultRefinesLossy
<1> QED
  BY <1>1, CInitRefines, CInvariance, PTL DEF CSpec, ImplementsLossyPromise
=============================================================================
