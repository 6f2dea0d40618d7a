------------------------ MODULE SharedBuffersProofs ------------------------
(* Theorems about UnreliableIpRelay and SharedBuffers, for every Addr,     *)
(* Modulus, PipeCap, FdLimit, MaxFaults and MaxHostFaults: what is under   *)
(* way is owed, no packet overtakes another, and until the network fails   *)
(* the relay is a queue of the replies owed.                               *)
EXTENDS SharedBuffers, IpRelayProofs

-----------------------------------------------------------------------------
(* A host whose calls are interrupted *)

\* Until the network fails there is one connection, whatever the host does.
UInv == /\ Served
        /\ FaultTypeOK
        /\ NeverMoreThanOwed
        /\ faults = 0 => Undisturbed

\* An interrupted call of the host keeps what the relay's threads rely on.
LEMMA InterruptedServed ==
    ASSUME Served, FaultTypeOK, FaultStep
    PROVE  Served' /\ FaultTypeOK'
<1> USE DEF FaultStep, relayVars, linkVars, clientVars, rserverVars, rtlVars
<1>1. TypeOK'
  BY DEF Served, TypeOK, PipeTypeOK, LinkTypeOK, HostTypeOK, ClientTypeOK, RServerTypeOK, RtlTypeOK,
     HostEnqueueFails, HostDequeueFails
<1>2. (ClientServed /\ ServerServed /\ Spawned)'
  BY DEF Served, ClientServed, ServerServed, Spawned, ClientSockOpen
<1>3. FaultTypeOK'
  BY HostFaultsAssumption DEF FaultTypeOK, HostEnqueueFails, HostDequeueFails, MayFail
<1> QED
  BY <1>1, <1>2, <1>3 DEF Served

\* It moves no packet: a request not written is owed no more than it is there, and a
\* wait given up is owed all the same.
LEMMA InterruptedOwes ==
    ASSUME Served, FaultTypeOK, FaultStep
    PROVE  /\ RequestCopies' = RequestCopies /\ ReplyCopies' = ReplyCopies
           /\ unsent' + Owed + abandoned = unsent + Owed' + abandoned'
<1>1. UNCHANGED <<pipe, relayVars>>
  BY DEF FaultStep, HostEnqueueFails, HostDequeueFails
<1>2. RequestCopies' = RequestCopies /\ ReplyCopies' = ReplyCopies
  BY <1>1, CopiesAreSums, CopiesAreSumsAfter, SameHolding
  DEF relayVars, linkVars, clientVars, rserverVars, rtlVars, PipesSame
<1>3. unsent \in Nat /\ abandoned \in Nat
  BY DEF FaultTypeOK
<1>4. CASE HostEnqueueFails
  <2>1. unsent' = unsent + 1 /\ abandoned' = abandoned /\ Owed = 0 /\ Owed' = 1
    BY <1>4 DEF HostEnqueueFails, Owed
  <2> QED
    BY <1>2, <1>3, <2>1
<1>5. CASE HostDequeueFails
  <2>1. unsent' = unsent /\ abandoned' = abandoned + 1 /\ Owed = 1 /\ Owed' = 0
    BY <1>5 DEF HostDequeueFails, Owed
  <2> QED
    BY <1>2, <1>3, <2>1
<1> QED
  BY <1>2, <1>4, <1>5 DEF FaultStep

\* NeverMoreThanOwed in terms of the two sums.
LEMMA OwedAsSum == NeverMoreThanOwed <=> Copies + unsent <= Owed + abandoned
BY DEF NeverMoreThanOwed, Copies, Owed, Held

\* The same of the state after a step.
LEMMA OwedAsSumAfter == (Copies + unsent <= Owed + abandoned)' => NeverMoreThanOwed'
BY OwedAsSum, PTL

\* Every step keeps the bound: the relay's, because they make no packet, and the
\* host's, because they count what they leave behind.
LEMMA OwedNext ==
    ASSUME Served, FaultTypeOK, NeverMoreThanOwed, [UNext]_uvars
    PROVE  Served' /\ FaultTypeOK' /\ NeverMoreThanOwed'
<1>1. CASE [Next]_vars /\ UNCHANGED faultVars
  <2>1. Served' /\ FaultTypeOK'
    BY <1>1, NextServed DEF FaultTypeOK, faultVars
  <2>2. PICK a \in Nat, b \in Nat, c \in Nat, d \in Nat :
            a = RequestCopies /\ b = ReplyCopies /\ c = RequestCopies' /\ d = ReplyCopies'
    BY <1>1, CopiesFollowOwed
  <2>3. PICK p \in Nat, q \in Nat, u \in Nat, v \in Nat :
            p = Owed /\ q = Owed' /\ u = unsent /\ v = abandoned
    BY DEF Owed, FaultTypeOK
  <2>4. (c + d) + p <= (a + b) + q
    BY <1>1, <2>2, <2>3, CopiesFollowOwed DEF Copies
  <2>5. (a + b) + u <= p + v
    BY <2>2, <2>3, OwedAsSum DEF Copies
  <2>6. (c + d) + u <= q + v
    BY <2>4, <2>5
  <2>7. (Copies + unsent <= Owed + abandoned)'
    BY <1>1, <2>2, <2>3, <2>6 DEF Copies, faultVars
  <2> QED
    BY <2>1, <2>7, OwedAsSumAfter
<1>2. CASE FaultStep
  <2>1. Served' /\ FaultTypeOK'
    BY <1>2, InterruptedServed
  <2>2. PICK a \in Nat, b \in Nat : a = RequestCopies /\ b = ReplyCopies
    BY CopiesNat DEF Served
  <2>3. PICK p \in Nat, q \in Nat, u \in Nat, v \in Nat, w \in Nat, x \in Nat :
            /\ p = Owed /\ q = Owed' /\ u = unsent /\ v = abandoned
            /\ w = unsent' /\ x = abandoned'
    BY <2>1 DEF Owed, FaultTypeOK
  <2>4. w + p + v = u + q + x
    BY <1>2, <2>3, InterruptedOwes
  <2>5. (a + b) + u <= p + v
    BY <2>2, <2>3, OwedAsSum DEF Copies
  <2>6. (a + b) + w <= q + x
    BY <2>4, <2>5
  <2>7. (Copies + unsent <= Owed + abandoned)'
    BY <1>2, <2>2, <2>3, <2>6, InterruptedOwes DEF Copies
  <2> QED
    BY <2>1, <2>7, OwedAsSumAfter
<1> QED
  BY <1>1, <1>2 DEF UNext, uvars

\* Until the network fails the first connection is the only one.
LEMMA UndisturbedUNext ==
    ASSUME UInv, [UNext]_uvars, faults' = 0
    PROVE  faults = 0 /\ Undisturbed'
<1>1. CASE [Next]_vars
  BY <1>1, UndisturbedNext, FaultsStay DEF UInv, Served
<1>2. CASE FaultStep
  BY <1>2 DEF UInv, FaultStep, relayVars, linkVars, clientVars, rserverVars, Undisturbed
<1> QED
  BY <1>1, <1>2 DEF UNext, uvars

\* What has gone wrong stays so.
LEMMA FaultsNeverUndone ==
    ASSUME UInv, UInv', [UNext]_uvars
    PROVE  /\ faults' = 0 => faults = 0
           /\ (abandoned = 0)' => abandoned = 0
<1>1. faults' = 0 => faults = 0
  BY UndisturbedUNext
<1>2. abandoned \in Nat /\ abandoned' \in Nat
  BY DEF UInv, FaultTypeOK
<1>3. abandoned <= abandoned'
  BY <1>2 DEF UNext, uvars, faultVars, FaultStep, HostEnqueueFails, HostDequeueFails
<1>4. (abandoned = 0)' => abandoned = 0
  BY <1>2, <1>3
<1> QED
  BY <1>1, <1>4

\* The invariant holds at the start ...
LEMMA UInvInit == UInit => UInv
<1> SUFFICES ASSUME UInit PROVE UInv
  OBVIOUS
<1>1. Served /\ NeverTwoPackets /\ Undisturbed
  BY IInvInit DEF UInit, IInv, Init, LinkInit
<1>2. abandoned = 0 /\ unsent = 0
  BY DEF UInit, FaultInit
<1>3. RequestCopies \in Nat /\ ReplyCopies \in Nat
  BY <1>1, CopiesNat DEF Served
<1>4. NeverMoreThanOwed
  <2>1. PICK a \in Nat, b \in Nat, c \in Nat :
            a = RequestCopies /\ b = ReplyCopies /\ c = Held(host_pc = "wait")
    BY <1>3 DEF Held
  <2>2. a + b <= c
    BY <1>1, <2>1 DEF NeverTwoPackets
  <2>3. a + b + 0 <= c + 0
    BY <2>2
  <2> QED
    BY <1>2, <2>1, <2>3 DEF NeverMoreThanOwed
<1> QED
  BY <1>1, <1>2, <1>4, HostFaultsAssumption DEF UInv, FaultTypeOK

\* ... and after every step.
LEMMA UInvNext == UInv /\ [UNext]_uvars => UInv'
BY OwedNext, UndisturbedUNext DEF UInv

\* Over TCP, with the network failing and the host interrupted, the invariant holds.
THEOREM UInvariance == USpec => []UInv
BY UInvInit, UInvNext, PTL DEF USpec

\* However threads race, connections break and accesses are given up, the relay never
\* makes a packet out of nothing.
THEOREM OwedIsNotExceeded == USpec => []NeverMoreThanOwed
BY UInvariance, PTL DEF UInv

-----------------------------------------------------------------------------
(* The buffers that threads share *)

RdAsTaken == \A k \in Senders(rd) : rd_buf = rd_took[k]
RtAsTaken == \A k \in Senders(rt) : rt_buf = rt_took[k]

\* Whichever of the two has not happened yet keeps the threads apart.
HInv == /\ UInv
        /\ abandoned = 0 \/ faults = 0 => RdAsTaken /\ RtAsTaken

\* What is done to a buffer: nothing, while no thread comes to hold a packet, or one
\* thread reads what the pipe holds into it.
LEMMA ReadersOnly ==
    ASSUME Served, [UNext]_uvars
    PROVE  \/ /\ rd_buf' = rd_buf
              /\ \A k \in Conns : rd'[k] = "send" => rd[k] = "send"
           \/ \E k \in Conns : /\ rd[k] = "read"
                               /\ rd' = [rd EXCEPT ![k] = "send"]
                               /\ pipe["request_client"] # << >>
<1>1. rd \in [Conns -> {"none", "check", "read", "send", "confirm", "gone"}]
  BY DEF Served, TypeOK, ClientTypeOK
<1>2. CASE ClientNext
  <2>1. CASE ClientThread \/ CliRecvShort
    <3>1. rd_buf' = rd_buf
      BY <2>1 DEF ClientThread, CliConnect, CliRecv, CliEnqueue, CliRecvEnd, CliRecvShort, CliClose,
         CliReopen, CliStopReaders
    <3>2. rd' = rd \/ rd' = [rd EXCEPT ![nconn + 1] = "check"]
      BY <2>1 DEF ClientThread, CliConnect, CliRecv, CliEnqueue, CliRecvEnd, CliRecvShort, CliClose,
         CliReopen, CliStopReaders
    <3> QED
      BY <1>1, <3>1, <3>2
  <2>2. ASSUME NEW k \in Conns, RdRead(k)
        PROVE  /\ rd[k] = "read" /\ rd' = [rd EXCEPT ![k] = "send"]
               /\ pipe["request_client"] # << >>
    BY <2>2 DEF RdRead, RdGoto, PipeRead
  <2>3. ASSUME NEW k \in Conns,
               RdCheck(k) \/ RdSend(k) \/ RdSendLost(k) \/ RdConfirm(k) \/ ClientKilled(k)
        PROVE  /\ rd_buf' = rd_buf
               /\ \A j \in Conns : rd'[j] = "send" => rd[j] = "send"
    BY <1>1, <2>3 DEF RdCheck, RdSend, RdSendLost, RdConfirm, ClientKilled, RdGoto
  <2> QED
    BY <1>2, <2>1, <2>2, <2>3 DEF ClientNext, ReaderThread
<1>3. CASE UNCHANGED clientVars
  BY <1>3 DEF clientVars
<1> QED
  BY <1>2, <1>3 DEF UNext, uvars, vars, FaultStep, relayVars, Next, HostStep, ClientStep,
     RServerStep, RtlStep, NetworkStep

\* So it is on the server.
LEMMA RepliersOnly ==
    ASSUME Served, [UNext]_uvars
    PROVE  \/ /\ rt_buf' = rt_buf
              /\ \A k \in Conns : rt'[k] = "send" => rt[k] = "send"
           \/ \E k \in Conns : /\ rt[k] = "read"
                               /\ rt' = [rt EXCEPT ![k] = "send"]
                               /\ pipe["reply_server"] # << >>
<1>1. rt \in [Conns -> {"none", "start", "check", "read", "send", "confirm", "gone"}]
  BY DEF Served, TypeOK, RServerTypeOK
<1>2. CASE RServerNext
  <2>1. CASE RServerThread \/ SrvRecvShort
    <3>1. rt_buf' = rt_buf
      BY <2>1 DEF RServerThread, SrvAccept, SrvRecv, SrvEnqueue, SrvRecvEnd, SrvRecvShort, SrvClose,
         SrvForget, SrvStop
    <3>2. rt' = rt \/ rt' = [rt EXCEPT ![accepted + 1] = "start"]
      BY <2>1 DEF RServerThread, SrvAccept, SrvRecv, SrvEnqueue, SrvRecvEnd, SrvRecvShort, SrvClose,
         SrvForget, SrvStop
    <3> QED
      BY <1>1, <3>1, <3>2
  <2>2. ASSUME NEW k \in Conns, RtRead(k)
        PROVE  /\ rt[k] = "read" /\ rt' = [rt EXCEPT ![k] = "send"]
               /\ pipe["reply_server"] # << >>
    BY <2>2 DEF RtRead, RtGoto, PipeRead
  <2>3. ASSUME NEW k \in Conns,
               RtStart(k) \/ RtCheck(k) \/ RtSend(k) \/ RtSendLost(k) \/ RtConfirm(k) \/ ServerKilled(k)
        PROVE  /\ rt_buf' = rt_buf
               /\ \A j \in Conns : rt'[j] = "send" => rt[j] = "send"
    BY <1>1, <2>3 DEF RtStart, RtCheck, RtSend, RtSendLost, RtConfirm, ServerKilled, RtGoto
  <2> QED
    BY <1>2, <2>1, <2>2, <2>3 DEF RServerNext, ReplyThread
<1>3. CASE UNCHANGED rserverVars
  BY <1>3 DEF rserverVars
<1> QED
  BY <1>2, <1>3 DEF UNext, uvars, vars, FaultStep, relayVars, Next, HostStep, ClientStep,
     RServerStep, RtlStep, NetworkStep

\* A reader never reads while another has yet to send, unless a connection broke and an
\* access was given up.
LEMMA ReadsAlone ==
    ASSUME UInv, abandoned = 0 \/ faults = 0,
           NEW j \in Conns, NEW k \in Conns, rd[j] = "send", rd[k] = "read",
           pipe["request_client"] # << >>
    PROVE  FALSE
<1>1. CASE faults = 0
  <2>1. nconn <= 1 /\ j <= nconn /\ k <= nconn
    BY <1>1 DEF UInv, Undisturbed, Served, Spawned
  <2>2. j = 1 /\ k = 1
    BY <2>1, ConnFacts DEF UInv, Served, TypeOK, LinkTypeOK
  <2> QED
    BY <2>2
<1>2. CASE abandoned = 0
  <2>1. CountsAreNat /\ TypeOK
    BY CountTypes DEF UInv, Served
  <2>2. InPipe("request_client") # 0
    BY <2>1 DEF TypeOK, PipeTypeOK, PipeNames, InPipe
  <2>3. RdHolding # 0
    <3>1. IsFiniteSet(Senders(rd)) /\ j \in Senders(rd)
      BY SendersFinite DEF Senders
    <3> QED
      BY <3>1, FS_EmptySet DEF RdHolding
  <2>4. PICK a \in Nat, b \in Nat, c \in Nat, d \in Nat, e \in Nat :
            /\ a = InPipe("request_client") /\ b = RdHolding /\ c = C2SCarried
            /\ d = SrvHolding /\ e = InPipe("request_server")
    BY <2>1 DEF CountsAreNat
  <2>5. RequestCopies = a + b + c + d + e
    BY <2>4, CopiesAreSums
  <2>6. PICK r \in Nat, p \in Nat, u \in Nat, v \in Nat :
            r = ReplyCopies /\ p = Owed /\ u = unsent /\ v = abandoned
    BY <2>1, CopiesNat DEF Owed, UInv, FaultTypeOK
  <2>7. ((a + b + c + d + e) + r) + u <= p + v /\ v = 0 /\ p <= 1
    BY <1>2, <2>5, <2>6, OwedAsSum DEF Copies, UInv, Owed
  <2>8. a # 0 /\ b # 0
    BY <2>2, <2>3, <2>4
  <2>9. a + b + c + d + e + r >= 2
    BY <2>8
  <2> QED
    BY <2>7, <2>9
<1> QED
  BY <1>1, <1>2

\* Nor does a reply thread.
LEMMA RepliesAlone ==
    ASSUME UInv, abandoned = 0 \/ faults = 0,
           NEW j \in Conns, NEW k \in Conns, rt[j] = "send", rt[k] = "read",
           pipe["reply_server"] # << >>
    PROVE  FALSE
<1>1. CASE faults = 0
  <2>1. nconn <= 1 /\ j <= accepted /\ k <= accepted /\ accepted <= nconn
    BY <1>1 DEF UInv, Undisturbed, Served, Spawned, TypeOK, RServerTypeOK
  <2>2. j = 1 /\ k = 1
    BY <2>1, ConnFacts DEF UInv, Served, TypeOK, LinkTypeOK, RServerTypeOK
  <2> QED
    BY <2>2
<1>2. CASE abandoned = 0
  <2>1. CountsAreNat /\ TypeOK
    BY CountTypes DEF UInv, Served
  <2>2. InPipe("reply_server") # 0
    BY <2>1 DEF TypeOK, PipeTypeOK, PipeNames, InPipe
  <2>3. RtHolding # 0
    <3>1. IsFiniteSet(Senders(rt)) /\ j \in Senders(rt)
      BY SendersFinite DEF Senders
    <3> QED
      BY <3>1, FS_EmptySet DEF RtHolding
  <2>4. PICK a \in Nat, b \in Nat, c \in Nat, d \in Nat, e \in Nat, f \in Nat :
            /\ a = RtlHolding /\ b = InPipe("reply_server") /\ c = RtHolding
            /\ d = S2CCarried /\ e = CliHolding /\ f = InPipe("reply_client")
    BY <2>1 DEF CountsAreNat
  <2>5. ReplyCopies = a + b + c + d + e + f
    BY <2>4, CopiesAreSums
  <2>6. PICK r \in Nat, p \in Nat, u \in Nat, v \in Nat :
            r = RequestCopies /\ p = Owed /\ u = unsent /\ v = abandoned
    BY <2>1, CopiesNat DEF Owed, UInv, FaultTypeOK
  <2>7. (r + (a + b + c + d + e + f)) + u <= p + v /\ v = 0 /\ p <= 1
    BY <1>2, <2>5, <2>6, OwedAsSum DEF Copies, UInv, Owed
  <2>8. b # 0 /\ c # 0
    BY <2>2, <2>3, <2>4
  <2>9. a + b + c + d + e + f + r >= 2
    BY <2>8
  <2> QED
    BY <2>7, <2>9
<1> QED
  BY <1>1, <1>2

\* Every step keeps what the threads hold in the buffers they share.
LEMMA HInvNext == HInv /\ [HNext]_hvars => HInv'
<1> SUFFICES ASSUME HInv, [HNext]_hvars PROVE HInv'
  OBVIOUS
<1>1. UInv /\ [UNext]_uvars /\ UInv'
  BY UInvNext DEF HInv, HNext, hvars
<1>2. ASSUME (abandoned = 0 \/ faults = 0)'
      PROVE  (RdAsTaken /\ RtAsTaken)'
  <2>1. abandoned = 0 \/ faults = 0
    BY <1>1, <1>2, FaultsNeverUndone
  <2>2. RdAsTaken /\ RtAsTaken
    BY <2>1 DEF HInv
  <2>3. CASE UNCHANGED hvars
    BY <2>2, <2>3 DEF hvars, uvars, vars, clientVars, rserverVars, RdAsTaken, RtAsTaken, Senders
  <2>4. CASE HNext
    <3>1. ASSUME NEW k \in Conns, rd'[k] = "send"
          PROVE  rd_buf' = rd_took'[k]
      <4>1. rd_took'[k] = IF rd[k] = "read" THEN rd_buf' ELSE rd_took[k]
        BY <2>4, <3>1 DEF HNext, Taken
      <4>2. CASE rd_buf' = rd_buf /\ rd[k] = "send"
        BY <2>2, <4>1, <4>2 DEF RdAsTaken, Senders
      <4>3. ASSUME NEW j \in Conns, rd[j] = "read", rd' = [rd EXCEPT ![j] = "send"],
                   pipe["request_client"] # << >>
            PROVE  rd_buf' = rd_took'[k]
        <5>1. k = j \/ rd[k] = "send"
          BY <3>1, <4>3
        <5> QED
          BY <1>1, <2>1, <4>1, <4>3, <5>1, ReadsAlone
      <4> QED
        BY <1>1, <3>1, <4>2, <4>3, ReadersOnly DEF UInv
    <3>2. ASSUME NEW k \in Conns, rt'[k] = "send"
          PROVE  rt_buf' = rt_took'[k]
      <4>1. rt_took'[k] = IF rt[k] = "read" THEN rt_buf' ELSE rt_took[k]
        BY <2>4, <3>2 DEF HNext, Taken
      <4>2. CASE rt_buf' = rt_buf /\ rt[k] = "send"
        BY <2>2, <4>1, <4>2 DEF RtAsTaken, Senders
      <4>3. ASSUME NEW j \in Conns, rt[j] = "read", rt' = [rt EXCEPT ![j] = "send"],
                   pipe["reply_server"] # << >>
            PROVE  rt_buf' = rt_took'[k]
        <5>1. k = j \/ rt[k] = "send"
          BY <3>2, <4>3
        <5> QED
          BY <1>1, <2>1, <4>1, <4>3, <5>1, RepliesAlone
      <4> QED
        BY <1>1, <3>2, <4>2, <4>3, RepliersOnly DEF UInv
    <3> QED
      BY <3>1, <3>2 DEF RdAsTaken, RtAsTaken, Senders
  <2> QED
    BY <2>3, <2>4
<1> QED
  BY <1>1, <1>2 DEF HInv

\* No thread holds anything at the start.
LEMMA HInvInit == HInit => HInv
<1> SUFFICES ASSUME HInit PROVE HInv
  OBVIOUS
<1>1. UInv
  BY UInvInit DEF HInit
<1>2. Senders(rd) = {} /\ Senders(rt) = {}
  BY DEF HInit, UInit, Init, ClientInit, RServerInit, Senders
<1> QED
  BY <1>1, <1>2 DEF HInv, RdAsTaken, RtAsTaken

\* The history variables watch: the invariant holds of every behaviour.
THEOREM HInvariance == HSpec => []HInv
BY HInvInit, HInvNext, PTL DEF HSpec

\* Although the threads of a process share one static buffer, each sends what it read,
\* unless a connection broke and an access was given up as well.
THEOREM BuffersKept == HSpec => []SentAsTaken
<1>1. HInv => SentAsTaken
  <2> SUFFICES ASSUME HInv PROVE SentAsTaken
    OBVIOUS
  <2>1. faults \in Nat /\ abandoned \in Nat
    BY DEF HInv, UInv, Served, TypeOK, LinkTypeOK, FaultTypeOK
  <2>2. abandoned = 0 \/ faults = 0 \/ (faults > 0 /\ abandoned > 0)
    BY <2>1
  <2> QED
    BY <2>2 DEF HInv, SentAsTaken, RdAsTaken, RtAsTaken
<1> QED
  BY <1>1, HInvariance, PTL

-----------------------------------------------------------------------------
(* Packet numbers in sequences *)

\* The packet numbers in a sequence of packets.
Numbers(s) == {s[i].packet_number : i \in DOMAIN s}

\* Packet numbers are natural numbers.
LEMMA NumbersAreNat ==
    /\ \A p \in Packet : p.packet_number \in Nat
    /\ \A s \in Seq(Packet) : Numbers(s) \subseteq Nat
<1>1. \A p \in Packet : p.packet_number \in Nat
  BY TlpAssumption DEF Packet
<1>2. ASSUME NEW s \in Seq(Packet) PROVE Numbers(s) \subseteq Nat
  <2>1. \A i \in DOMAIN s : s[i] \in Packet
    OBVIOUS
  <2> QED
    BY <1>1, <2>1 DEF Numbers
<1> QED
  BY <1>1, <1>2

\* In a place for one packet is its number, if it is there.
LEMMA NumbersOne ==
    /\ Numbers(<< >>) = {}
    /\ \A p : Numbers(One(TRUE, p)) = {p.packet_number} /\ Numbers(One(FALSE, p)) = {}
BY DEF Numbers, One

\* A packet is appended to those that are not newer.
LEMMA AppendedNumbers ==
    ASSUME NEW s \in Seq(Packet), NEW p \in Packet
    PROVE  /\ Numbers(Append(s, p)) = Numbers(s) \cup {p.packet_number}
           /\ Ascending(s) /\ (\A a \in Numbers(s) : a <= p.packet_number) => Ascending(Append(s, p))
<1>1. /\ DOMAIN s = 1 .. Len(s) /\ Len(s) \in Nat
      /\ DOMAIN Append(s, p) = 1 .. (Len(s) + 1)
      /\ \A i \in 1 .. Len(s) : Append(s, p)[i] = s[i]
      /\ Append(s, p)[Len(s) + 1] = p
  OBVIOUS
<1>2. \A i \in 1 .. (Len(s) + 1) : i \in 1 .. Len(s) \/ i = Len(s) + 1
  BY <1>1
<1>3. \A i \in 1 .. Len(s) : i \in 1 .. (Len(s) + 1)
  BY <1>1
<1>4. Numbers(Append(s, p)) = Numbers(s) \cup {p.packet_number}
  <2>1. Len(s) + 1 \in 1 .. (Len(s) + 1)
    BY <1>1
  <2> QED
    BY <1>1, <1>2, <1>3, <2>1 DEF Numbers
<1>5. ASSUME Ascending(s), \A a \in Numbers(s) : a <= p.packet_number
      PROVE  Ascending(Append(s, p))
  <2> SUFFICES ASSUME NEW i \in 1 .. (Len(s) + 1), NEW j \in 1 .. (Len(s) + 1), i < j
               PROVE  Append(s, p)[i].packet_number <= Append(s, p)[j].packet_number
    BY <1>1 DEF Ascending
  <2>1. i \in 1 .. Len(s)
    BY <1>1
  <2>2. s[i].packet_number \in Numbers(s)
    BY <1>1, <2>1 DEF Numbers
  <2>3. CASE j \in 1 .. Len(s)
    BY <1>1, <1>5, <2>1, <2>3 DEF Ascending
  <2>4. CASE j = Len(s) + 1
    BY <1>1, <1>5, <2>1, <2>2, <2>4
  <2> QED
    BY <1>2, <2>3, <2>4
<1> QED
  BY <1>4, <1>5

\* The first of an ascending sequence is not newer than the rest.
LEMMA TakenNumbers ==
    ASSUME NEW s \in Seq(Packet), s # << >>, Ascending(s)
    PROVE  /\ Head(s).packet_number \in Numbers(s)
           /\ Numbers(Tail(s)) \subseteq Numbers(s)
           /\ \A b \in Numbers(Tail(s)) : Head(s).packet_number <= b
           /\ Ascending(Tail(s))
<1>1. /\ DOMAIN s = 1 .. Len(s) /\ Len(s) \in Nat \ {0} /\ Head(s) = s[1]
      /\ Tail(s) \in Seq(Packet) /\ Len(Tail(s)) = Len(s) - 1
      /\ \A i \in 1 .. (Len(s) - 1) : Tail(s)[i] = s[i + 1]
  BY EmptySeq, LenProperties, HeadTailProperties
<1>2. DOMAIN Tail(s) = 1 .. (Len(s) - 1)
  BY <1>1, LenProperties
<1>3. \A i \in 1 .. (Len(s) - 1) : i + 1 \in 1 .. Len(s) /\ 1 < i + 1
  BY <1>1
<1>4. 1 \in 1 .. Len(s)
  BY <1>1
<1>5. Numbers(Tail(s)) = {s[i + 1].packet_number : i \in 1 .. (Len(s) - 1)}
  <2>1. Numbers(Tail(s)) = {Tail(s)[i].packet_number : i \in 1 .. (Len(s) - 1)}
    BY <1>2, Zenon DEF Numbers
  <2> QED
    BY <1>1, <2>1
<1>6. Numbers(Tail(s)) \subseteq Numbers(s)
  BY <1>1, <1>3, <1>5 DEF Numbers
<1>7. \A b \in Numbers(Tail(s)) : Head(s).packet_number <= b
  BY <1>1, <1>3, <1>4, <1>5 DEF Ascending
<1>8. Ascending(Tail(s))
  <2> SUFFICES ASSUME NEW i \in 1 .. (Len(s) - 1), NEW j \in 1 .. (Len(s) - 1), i < j
               PROVE  Tail(s)[i].packet_number <= Tail(s)[j].packet_number
    BY <1>2 DEF Ascending
  <2>1. i + 1 < j + 1 /\ i + 1 \in 1 .. Len(s) /\ j + 1 \in 1 .. Len(s)
    BY <1>1, <1>3
  <2> QED
    BY <1>1, <2>1 DEF Ascending
<1> QED
  BY <1>1, <1>4, <1>6, <1>7, <1>8 DEF Numbers

\* Two ascending sequences make one if the first is not newer than the second.
LEMMA ConcatNumbers ==
    ASSUME NEW s \in Seq(Packet), NEW t \in Seq(Packet)
    PROVE  /\ Numbers(s \o t) = Numbers(s) \cup Numbers(t)
           /\ Ascending(s) /\ Ascending(t) /\ (\A a \in Numbers(s), b \in Numbers(t) : a <= b)
                => Ascending(s \o t)
<1>1. /\ DOMAIN s = 1 .. Len(s) /\ Len(s) \in Nat /\ DOMAIN t = 1 .. Len(t) /\ Len(t) \in Nat
      /\ s \o t \in Seq(Packet) /\ DOMAIN (s \o t) = 1 .. (Len(s) + Len(t))
      /\ \A i \in 1 .. (Len(s) + Len(t)) :
           (s \o t)[i] = IF i <= Len(s) THEN s[i] ELSE t[i - Len(s)]
  BY LenProperties, ConcatProperties
<1>2. ASSUME NEW i \in 1 .. (Len(s) + Len(t))
      PROVE  \/ i <= Len(s) /\ i \in 1 .. Len(s) /\ (s \o t)[i] = s[i]
             \/ /\ ~(i <= Len(s)) /\ i - Len(s) \in 1 .. Len(t)
                /\ (s \o t)[i] = t[i - Len(s)]
  BY <1>1
<1>3. Numbers(s \o t) = Numbers(s) \cup Numbers(t)
  <2>1. Numbers(s \o t) \subseteq Numbers(s) \cup Numbers(t)
    BY <1>1, <1>2 DEF Numbers
  <2>2. ASSUME NEW i \in 1 .. Len(s) PROVE s[i].packet_number \in Numbers(s \o t)
    <3>1. i \in 1 .. (Len(s) + Len(t)) /\ (s \o t)[i] = s[i]
      BY <1>1
    <3> QED
      BY <1>1, <3>1 DEF Numbers
  <2>3. ASSUME NEW i \in 1 .. Len(t) PROVE t[i].packet_number \in Numbers(s \o t)
    <3>1. i + Len(s) \in 1 .. (Len(s) + Len(t)) /\ (s \o t)[i + Len(s)] = t[i]
      BY <1>1
    <3> QED
      BY <1>1, <3>1 DEF Numbers
  <2>4. Numbers(s) \subseteq Numbers(s \o t)
    BY <1>1, <2>2 DEF Numbers
  <2>5. Numbers(t) \subseteq Numbers(s \o t)
    BY <1>1, <2>3 DEF Numbers
  <2> QED
    BY <2>1, <2>4, <2>5
<1>4. ASSUME Ascending(s), Ascending(t), \A a \in Numbers(s), b \in Numbers(t) : a <= b
      PROVE  Ascending(s \o t)
  <2> SUFFICES ASSUME NEW i \in 1 .. (Len(s) + Len(t)), NEW j \in 1 .. (Len(s) + Len(t)), i < j
               PROVE  (s \o t)[i].packet_number <= (s \o t)[j].packet_number
    BY <1>1 DEF Ascending
  <2>1. CASE j <= Len(s)
    BY <1>1, <1>2, <1>4, <2>1 DEF Ascending
  <2>2. CASE ~(j <= Len(s)) /\ i <= Len(s)
    <3>1. s[i].packet_number \in Numbers(s) /\ t[j - Len(s)].packet_number \in Numbers(t)
      BY <1>1, <1>2, <2>2 DEF Numbers
    <3> QED
      BY <1>2, <1>4, <2>2, <3>1
  <2>3. CASE ~(j <= Len(s)) /\ ~(i <= Len(s))
    <3>1. i - Len(s) < j - Len(s)
      BY <1>1
    <3> QED
      BY <1>1, <1>2, <1>4, <2>3, <3>1 DEF Ascending
  <2> QED
    BY <2>1, <2>2, <2>3
<1> QED
  BY <1>3, <1>4

-----------------------------------------------------------------------------
(* Packet numbers on connections *)

\* Those on all connections of one direction.
NumbersOn(q) == UNION {Numbers(q[k]) : k \in Conns}

\* What is on a connection ascends, and is not newer than what is on later ones.
Sorted(q) == /\ \A k \in Conns : Ascending(q[k])
             /\ \A j, k \in Conns : j < k => \A a \in Numbers(q[j]), b \in Numbers(q[k]) : a <= b

\* A connection is one of them.
LEMMA OnConnection == \A q, k : k \in Conns => Numbers(q[k]) \subseteq NumbersOn(q)
BY DEF NumbersOn

\* It stays so when connections are emptied ...
LEMMA SortedDropped ==
    ASSUME NEW q, NEW r, Sorted(q), \A k \in Conns : r[k] = q[k] \/ r[k] = << >>
    PROVE  Sorted(r) /\ NumbersOn(r) \subseteq NumbersOn(q)
<1>1. \A k \in Conns : Numbers(r[k]) \subseteq Numbers(q[k])
  BY NumbersOne
<1>2. Ascending(<< >>)
  BY DEF Ascending
<1>3. \A k \in Conns : Ascending(r[k])
  BY <1>2 DEF Sorted
<1> QED
  BY <1>1, <1>3 DEF Sorted, NumbersOn

\* ... when the first packet of the first one is received ...
LEMMA SortedReceived ==
    ASSUME NEW q \in [Conns -> Seq(Packet)], NEW k \in Conns, Sorted(q), q[k] # << >>,
           \A j \in Conns : j < k => q[j] = << >>
    PROVE  LET r == [q EXCEPT ![k] = Tail(@)]
               x == Head(q[k]).packet_number
           IN  /\ Sorted(r) /\ NumbersOn(r) \subseteq NumbersOn(q)
               /\ x \in NumbersOn(q) /\ \A b \in NumbersOn(r) : x <= b
<1> DEFINE r == [q EXCEPT ![k] = Tail(@)]
           x == Head(q[k]).packet_number
<1>1. /\ x \in Numbers(q[k]) /\ Numbers(Tail(q[k])) \subseteq Numbers(q[k])
      /\ \A b \in Numbers(Tail(q[k])) : x <= b
      /\ Ascending(Tail(q[k]))
  BY TakenNumbers DEF Sorted
<1>2. r[k] = Tail(q[k]) /\ \A j \in Conns \ {k} : r[j] = q[j]
  OBVIOUS
<1> HIDE DEF r, x
<1>3. \A j \in Conns : Numbers(r[j]) \subseteq Numbers(q[j]) /\ Ascending(r[j])
  BY <1>1, <1>2 DEF Sorted
<1>4. Sorted(r) /\ NumbersOn(r) \subseteq NumbersOn(q)
  BY <1>3 DEF Sorted, NumbersOn
<1>5. ASSUME NEW j \in Conns, NEW b \in Numbers(r[j]) PROVE x <= b
  <2>1. j < k \/ j = k \/ k < j
    BY ConnFacts
  <2>2. CASE j < k
    BY <1>2, <1>5, <2>2, NumbersOne
  <2>3. CASE j = k
    BY <1>1, <1>2, <1>5, <2>3
  <2>4. CASE k < j
    BY <1>1, <1>3, <1>5, <2>4 DEF Sorted
  <2> QED
    BY <2>1, <2>2, <2>3, <2>4
<1>6. x \in NumbersOn(q) /\ \A b \in NumbersOn(r) : x <= b
  BY <1>1, <1>5 DEF NumbersOn
<1> QED
  BY <1>4, <1>6 DEF r, x

\* ... and when a packet not older than the others is sent on the last one.
LEMMA SortedSent ==
    ASSUME NEW q \in [Conns -> Seq(Packet)], NEW k \in Conns, NEW p \in Packet, Sorted(q),
           \A a \in NumbersOn(q) : a <= p.packet_number,
           \A j \in Conns : k < j => q[j] = << >>
    PROVE  LET r == [q EXCEPT ![k] = Append(@, p)]
           IN  Sorted(r) /\ NumbersOn(r) = NumbersOn(q) \cup {p.packet_number}
<1> DEFINE r == [q EXCEPT ![k] = Append(@, p)]
           x == p.packet_number
<1>1. r[k] = Append(q[k], p) /\ \A j \in Conns \ {k} : r[j] = q[j]
  OBVIOUS
<1>2. \A j \in Conns : \A a \in Numbers(q[j]) : a <= x
  BY OnConnection
<1>3. Numbers(r[k]) = Numbers(q[k]) \cup {x} /\ Ascending(r[k])
  BY <1>1, <1>2, AppendedNumbers DEF Sorted
<1> HIDE DEF r, x
<1>4. ASSUME NEW i \in Conns, NEW j \in Conns, i < j,
             NEW a \in Numbers(r[i]), NEW b \in Numbers(r[j])
      PROVE  a <= b
  <2>1. CASE i = k
    BY <1>1, <1>4, <2>1, NumbersOne, ConnFacts
  <2>2. CASE i # k /\ j = k
    BY <1>1, <1>2, <1>3, <1>4, <2>2 DEF Sorted
  <2>3. CASE i # k /\ j # k
    BY <1>1, <1>4, <2>3 DEF Sorted
  <2> QED
    BY <2>1, <2>2, <2>3
<1>5. Sorted(r)
  BY <1>1, <1>3, <1>4 DEF Sorted
<1>6. NumbersOn(r) = NumbersOn(q) \cup {x}
  BY <1>1, <1>3 DEF NumbersOn
<1> QED
  BY <1>5, <1>6 DEF r, x

-----------------------------------------------------------------------------
(* One connection after the other *)

\* Only the last connection can be open.  The client has read or dropped what came on
\* the ones before it, the server has not yet read what comes on the ones after it.
LastOpen ==
    /\ \A k \in 1 .. nconn : k \notin ended => k = nconn /\ cli_sock = "connected"
    /\ \A k \in Conns : s2c[k] # << >> => k = nconn /\ cli_sock = "connected"
    /\ ~ClientSockOpen /\ accepted # 0 => accepted \in ended
    /\ \A k \in Conns : c2s[k] # << >> =>
           k <= nconn /\ (accepted < k \/ (accepted = k /\ ClientSockOpen))

\* A queue that a closed connection has been dropped from.
LEMMA EmptiedIs ==
    ASSUME NEW q \in [Conns -> Seq(Packet)], NEW k
    PROVE  /\ \A j \in Conns : Emptied(q, k)[j] = q[j] \/ Emptied(q, k)[j] = << >>
           /\ k \in Conns => Emptied(q, k)[k] = << >>
BY DEF Emptied

\* The client drops what is on the way to it.
LEMMA ClosedByClient ==
    ASSUME c2s \in [Conns -> Seq(Packet)], s2c \in [Conns -> Seq(Packet)],
           NEW k \in Conns, ClientCloses(k)
    PROVE  /\ ended' = ended \cup {k} /\ s2c'[k] = << >>
           /\ \A j \in Conns : c2s'[j] = c2s[j] \/ c2s'[j] = << >>
           /\ \A j \in Conns : s2c'[j] = s2c[j] \/ s2c'[j] = << >>
<1>1. \A j \in Conns : /\ c2s'[j] = c2s[j] \/ c2s'[j] = << >>
                       /\ s2c'[j] = s2c[j] \/ s2c'[j] = << >>
  BY EmptiedIs DEF ClientCloses
<1>2. s2c'[k] = << >> /\ ended' = ended \cup {k}
  BY EmptiedIs DEF ClientCloses
<1> QED
  BY <1>1, <1>2

\* Without connections none is open.
LEMMA LastOpenInit == Init => LastOpen
BY TcpAssumption DEF Init, LinkInit, ClientInit, RServerInit, LastOpen

\* The client opens a connection only when the last one has ended, and sends on one
\* that has not.
LEMMA ClientKeepsLastOpen ==
    ASSUME Served, LastOpen, ClientStep
    PROVE  LastOpen'
<1>1. TypeOK /\ LinkTypeOK /\ ClientTypeOK /\ ClientServed /\ c2s \in [Conns -> Seq(Packet)]
      /\ s2c \in [Conns -> Seq(Packet)]
  BY DEF Served, TypeOK, LinkTypeOK
<1>2. accepted' = accepted /\ (ClientSockOpen <=> ClientSockOpen')
  BY DEF ClientStep, rserverVars, ClientSockOpen
<1>3. nconn \in Nat /\ accepted \in Nat /\ accepted <= nconn /\ (nconn # 0 => nconn \in Conns)
  BY <1>1, OpenConns
<1> USE <1>1, <1>2, <1>3
<1>4. ASSUME UNCHANGED <<nconn, ended>>, cli_sock = "connected" <=> cli_sock' = "connected",
             \A k \in Conns : /\ c2s'[k] = c2s[k] \/ c2s'[k] = << >>
                              /\ s2c'[k] # << >> => s2c[k] # << >>
      PROVE  LastOpen'
  BY <1>4 DEF LastOpen
<1>5. ASSUME nconn' = nconn, nconn \in Conns, cli_sock' # "connected", ended' = ended \cup {nconn},
             s2c'[nconn] = << >>,
             \A k \in Conns : /\ c2s'[k] = c2s[k] \/ c2s'[k] = << >>
                              /\ s2c'[k] # << >> => s2c[k] # << >>
      PROVE  LastOpen'
  BY <1>5 DEF LastOpen
<1>6. CASE CliConnect
  <2>1. nconn' = nconn + 1 /\ UNCHANGED <<c2s, s2c, ended>> /\ cli_sock' = "connected"
        /\ cli_sock # "connected"
    BY <1>6 DEF CliConnect, ClientServed
  <2>2. \A k \in 1 .. nconn : k \in ended
    BY <2>1 DEF LastOpen
  <2>3. \A k \in 1 .. (nconn + 1) : k \in 1 .. nconn \/ k = nconn + 1
    OBVIOUS
  <2>4. \A k \in Conns : s2c[k] = << >>
    BY <2>1 DEF LastOpen
  <2> QED
    BY <2>1, <2>2, <2>3, <2>4, ConnFacts DEF LastOpen
<1>7. CASE CliRecv
  <2>1. \A k \in Conns : s2c'[k] # << >> => s2c[k] # << >>
    BY <1>7 DEF CliRecv
  <2> QED
    BY <1>4, <1>7, <2>1 DEF CliRecv
<1>8. CASE CliEnqueue \/ CliReopen \/ CliStopReaders
  BY <1>4, <1>8 DEF CliEnqueue, CliReopen, CliStopReaders, linkVars, ClientServed
<1>9. CASE CliRecvEnd \/ CliRecvShort
  <2>1. nconn \in Conns
    BY <1>9 DEF CliRecvEnd, CliRecvShort, ClientServed
  <2>2. ClientCloses(nconn) /\ nconn' = nconn /\ cli_sock' # "connected"
    BY <1>9 DEF CliRecvEnd, CliRecvShort, CliClose
  <2>3. /\ ended' = ended \cup {nconn} /\ s2c'[nconn] = << >>
        /\ \A k \in Conns : /\ c2s'[k] = c2s[k] \/ c2s'[k] = << >>
                            /\ s2c'[k] # << >> => s2c[k] # << >>
    BY <2>1, <2>2, ClosedByClient
  <2> QED
    BY <1>5, <2>1, <2>2, <2>3
<1>10. ASSUME NEW k \in Conns, RdCheck(k) \/ RdRead(k) \/ RdSendLost(k) \/ RdConfirm(k)
       PROVE  LastOpen'
  BY <1>4, <1>10 DEF RdCheck, RdRead, RdSendLost, RdConfirm, linkVars
<1>11. ASSUME NEW k \in Conns, RdSend(k)
       PROVE  LastOpen'
  <2>1. /\ UNCHANGED <<nconn, s2c, ended, cli_sock>> /\ nconn \in Conns /\ nconn \notin ended
        /\ c2s' = [c2s EXCEPT ![nconn] = Append(@, rd_buf)]
    BY <1>11 DEF RdSend, ClientLinkUp, ClientServed
  <2>2. accepted < nconn \/ (accepted = nconn /\ ClientSockOpen)
    <3>1. accepted = nconn => ClientSockOpen
      BY <2>1, ConnFacts DEF LastOpen
    <3> QED
      BY <3>1
  <2>3. \A j \in Conns : j # nconn => c2s'[j] = c2s[j]
    BY <2>1
  <2> QED
    BY <2>1, <2>2, <2>3 DEF LastOpen
<1>12. ASSUME NEW k \in Conns, ClientKilled(k)
       PROVE  LastOpen'
  <2>1. CASE cli_sock = "connected"
    <3>1. nconn \in Conns
      BY <2>1 DEF ClientServed
    <3>2. ClientCloses(nconn) /\ nconn' = nconn /\ cli_sock' # "connected"
      BY <1>12, <2>1 DEF ClientKilled
    <3>3. /\ ended' = ended \cup {nconn} /\ s2c'[nconn] = << >>
          /\ \A j \in Conns : /\ c2s'[j] = c2s[j] \/ c2s'[j] = << >>
                              /\ s2c'[j] # << >> => s2c[j] # << >>
      BY <3>1, <3>2, ClosedByClient
    <3> QED
      BY <1>5, <3>1, <3>2, <3>3
  <2>2. CASE cli_sock # "connected"
    BY <1>4, <1>12, <2>2 DEF ClientKilled
  <2> QED
    BY <2>1, <2>2
<1> QED
  BY <1>6, <1>7, <1>8, <1>9, <1>10, <1>11, <1>12
     DEF ClientStep, ClientNext, ClientThread, ReaderThread

\* The server turns to the next connection when it has closed the one before, and a
\* reply is sent on the last one.
LEMMA ServerKeepsLastOpen ==
    ASSUME Served, LastOpen, RServerStep
    PROVE  LastOpen'
<1>1. TypeOK /\ LinkTypeOK /\ RServerTypeOK /\ ServerServed /\ c2s \in [Conns -> Seq(Packet)]
      /\ s2c \in [Conns -> Seq(Packet)]
  BY DEF Served, TypeOK, LinkTypeOK
<1>2. cli_sock' = cli_sock
  BY DEF RServerStep, clientVars
<1>3. nconn \in Nat /\ accepted \in Nat /\ accepted <= nconn /\ (accepted # 0 => accepted \in Conns)
  BY <1>1, OpenConns
<1> USE <1>1, <1>2, <1>3
<1>4. ASSUME UNCHANGED <<nconn, ended, accepted>>, ClientSockOpen <=> ClientSockOpen',
             \A k \in Conns : /\ c2s'[k] # << >> => c2s[k] # << >>
                              /\ s2c'[k] = s2c[k] \/ s2c'[k] = << >>
      PROVE  LastOpen'
  BY <1>4 DEF LastOpen
<1>5. ASSUME UNCHANGED <<nconn, accepted>>, accepted \in Conns,
             accepted \in ended', ended \subseteq ended', c2s'[accepted] = << >>,
             \A k \in Conns : /\ c2s'[k] = c2s[k] \/ c2s'[k] = << >>
                              /\ s2c'[k] = s2c[k] \/ s2c'[k] = << >>
      PROVE  LastOpen'
  BY <1>5 DEF LastOpen
<1>6. CASE SrvAccept
  <2>1. /\ UNCHANGED <<nconn, c2s, s2c, ended>> /\ accepted' = accepted + 1 /\ ClientSockOpen'
        /\ ~ClientSockOpen
    BY <1>6 DEF SrvAccept, linkVars, ClientSockOpen
  <2>2. \A k \in Conns : accepted < k => accepted + 1 < k \/ accepted + 1 = k
    BY ConnFacts
  <2> QED
    BY <2>1, <2>2 DEF LastOpen
<1>7. CASE SrvRecv
  <2>1. \A k \in Conns : c2s'[k] # << >> => c2s[k] # << >>
    BY <1>7 DEF SrvRecv
  <2> QED
    BY <1>4, <1>7, <2>1 DEF SrvRecv, ClientSockOpen
<1>8. CASE SrvEnqueue \/ SrvForget \/ SrvStop
  BY <1>4, <1>8 DEF SrvEnqueue, SrvForget, SrvStop, linkVars, ClientSockOpen
<1>9. CASE SrvRecvEnd \/ SrvRecvShort
  <2>1. accepted \in Conns
    BY <1>9 DEF SrvRecvEnd, SrvRecvShort, ServerServed, ClientSockOpen
  <2> QED
    BY <1>5, <1>9, <2>1, EmptiedIs DEF SrvRecvEnd, SrvRecvShort, SrvClose, ServerCloses
<1>10. ASSUME NEW k \in Conns, RtStart(k) \/ RtCheck(k) \/ RtRead(k) \/ RtSendLost(k) \/ RtConfirm(k)
       PROVE  LastOpen'
  BY <1>4, <1>10 DEF RtStart, RtCheck, RtRead, RtSendLost, RtConfirm, linkVars, ClientSockOpen
<1>11. ASSUME NEW k \in Conns, RtSend(k)
       PROVE  LastOpen'
  <2>1. /\ UNCHANGED <<nconn, c2s, ended, accepted, srv_pc>> /\ accepted \in Conns
        /\ accepted \notin ended
        /\ s2c' = [s2c EXCEPT ![accepted] = Append(@, rt_buf)]
    BY <1>11 DEF RtSend, ServerLinkUp, ServerServed
  <2>2. accepted = nconn
    BY <2>1, ConnFacts DEF LastOpen
  <2>3. \A j \in Conns : j # nconn => s2c'[j] = s2c[j]
    BY <2>1, <2>2
  <2> QED
    BY <2>1, <2>2, <2>3 DEF ClientSockOpen, LastOpen
<1>12. ASSUME NEW k \in Conns, ServerKilled(k)
       PROVE  LastOpen'
  <2>1. /\ UNCHANGED <<nconn, accepted>> /\ accepted \in Conns
        /\ ended' = ended \cup (accepted .. nconn)
        /\ c2s' = [j \in Conns |-> IF j \in accepted .. nconn THEN << >> ELSE c2s[j]]
        /\ s2c' \in {s2c, Emptied(s2c, accepted)}
    BY <1>12 DEF ServerKilled, ServerServed
  <2>2. accepted \in accepted .. nconn
    OBVIOUS
  <2>3. accepted \in ended' /\ ended \subseteq ended' /\ c2s'[accepted] = << >>
    BY <2>1, <2>2
  <2>4. \A j \in Conns : c2s'[j] = c2s[j] \/ c2s'[j] = << >>
    BY <2>1
  <2>5. \A j \in Conns : s2c'[j] = s2c[j] \/ s2c'[j] = << >>
    BY <2>1 DEF Emptied
  <2> QED
    BY <1>5, <2>1, <2>3, <2>4, <2>5
<1> QED
  BY <1>6, <1>7, <1>8, <1>9, <1>10, <1>11, <1>12
     DEF RServerStep, RServerNext, RServerThread, ReplyThread

\* Every step keeps it.
LEMMA LastOpenNext ==
    ASSUME Served, LastOpen, [UNext]_uvars
    PROVE  LastOpen'
<1>1. CASE ClientStep
  BY <1>1, ClientKeepsLastOpen
<1>2. CASE RServerStep
  BY <1>2, ServerKeepsLastOpen
<1>3. CASE NetworkStep
  <2>1. PICK k \in Conns : Cut(k)
    BY <1>3 DEF NetworkStep
  <2>2. c2s \in [Conns -> Seq(Packet)] /\ s2c \in [Conns -> Seq(Packet)]
    BY DEF Served, TypeOK, LinkTypeOK
  <2>3. \A j \in Conns : /\ c2s'[j] = c2s[j] \/ c2s'[j] = << >>
                         /\ s2c'[j] = s2c[j] \/ s2c'[j] = << >>
    BY <2>1, <2>2, EmptiedIs DEF Cut
  <2>4. UNCHANGED <<nconn, cli_sock, srv_pc, accepted>> /\ ended \subseteq ended'
    BY <1>3, <2>1 DEF NetworkStep, Cut, clientVars, rserverVars
  <2> QED
    BY <2>3, <2>4 DEF LastOpen, ClientSockOpen
<1>4. CASE HostStep \/ RtlStep \/ FaultStep \/ UNCHANGED uvars
  BY <1>4 DEF HostStep, RtlStep, FaultStep, relayVars, uvars, vars, linkVars, clientVars, rserverVars,
     LastOpen, ClientSockOpen
<1> QED
  BY <1>1, <1>2, <1>3, <1>4 DEF UNext, Next

-----------------------------------------------------------------------------
(* The stages a packet passes *)

\* The numbers at each place on the way of an access, newest last: back to front the
\* reply the host keeps, what is under way as in Path, the access before its write,
\* and the next one, as long as the pipes still open for it.
Stages == << Numbers(Returned),
             Numbers(pipe["reply_client"]),
             Numbers(One(cli_pc = "enqueue", cli_buf)),
             NumbersOn(s2c),
             Numbers(One(Senders(rt) # {}, rt_buf)),
             Numbers(pipe["reply_server"]),
             Numbers(One(rtl_pc = "respond", rtl_rsp)),
             Numbers(pipe["request_server"]),
             Numbers(One(srv_pc = "enqueue", srv_buf)),
             NumbersOn(c2s),
             Numbers(One(Senders(rd) # {}, rd_buf)),
             Numbers(pipe["request_client"]),
             Numbers(One(host_pc = "send", send_pkt)),
             IF CanOpenClientPipe THEN {simics_packet_no} ELSE {} >>

\* What is further on its way is not newer, and no packet has the number that stops
\* the device.
InOrder(S) == /\ \A p, q \in 1 .. 14 : p < q => \A a \in S[p], b \in S[q] : a <= b
              /\ \A p \in 1 .. 14 : S[p] \subseteq Nat \ {0}

\* Within a stage the first is the oldest.
Within == /\ \A n \in PipeNames : Ascending(pipe[n])
          /\ Sorted(c2s) /\ Sorted(s2c)

\* The host counts one packet for two descriptors, and keeps no reply while it waits.
Counted == CanOpenClientPipe => 2 * simics_packet_no = host_fds + 2
Fresh == host_pc # "idle" => reply_pkt = ZeroPacket

\* Losing packets keeps the order ...
LEMMA LostInOrder ==
    ASSUME NEW S, NEW T, InOrder(S), \A p \in 1 .. 14 : T[p] \subseteq S[p]
    PROVE  InOrder(T)
BY DEF InOrder

\* ... and so does passing the first packet of a stage on to the one ahead.
LEMMA PassedInOrder ==
    ASSUME NEW S, NEW T, NEW p \in 1 .. 13, NEW x \in S[p + 1], InOrder(S),
           T[p] \subseteq S[p] \cup {x},
           T[p + 1] \subseteq Nat, \A b \in T[p + 1] : x <= b,
           p = 13 \/ T[p + 1] \subseteq S[p + 1],
           \A q \in (1 .. 14) \ {p, p + 1} : T[q] \subseteq S[q]
    PROVE  InOrder(T)
<1>1. /\ p + 1 \in 1 .. 14 /\ x \in Nat \ {0}
      /\ \A q \in 1 .. 14 : S[q] \subseteq Nat \ {0}
  BY DEF InOrder
<1>2. \A q \in 1 .. 14 : T[q] \subseteq Nat \ {0}
  <2>1. T[p] \subseteq Nat \ {0}
    BY <1>1
  <2>2. T[p + 1] \subseteq Nat \ {0}
    BY <1>1
  <2> QED
    BY <1>1, <2>1, <2>2
<1>3. \A q \in 1 .. 14 : q <= p => \A a \in S[q] : a <= x
  BY <1>1 DEF InOrder
<1>4. \A q \in 1 .. 14 : q <= p => \A a \in T[q] : a <= x
  <2>1. \A a \in T[p] : a <= x
    BY <1>1, <1>3
  <2>2. \A q \in 1 .. 14 : q < p => \A a \in T[q] : a <= x
    BY <1>1, <1>3
  <2> QED
    BY <2>1, <2>2
<1>5. \A q \in 1 .. 14 : p < q => \A b \in T[q] : x <= b
  <2>1. \A q \in 1 .. 14 : p + 1 < q => \A b \in T[q] : x <= b
    BY <1>1 DEF InOrder
  <2> QED
    BY <2>1
<1> SUFFICES ASSUME NEW i \in 1 .. 14, NEW j \in 1 .. 14, i < j, NEW a \in T[i], NEW b \in T[j]
             PROVE  a <= b
  BY <1>2 DEF InOrder
<1>6. a \in Nat /\ b \in Nat
  BY <1>2
<1>7. CASE i <= p /\ p < j
  BY <1>1, <1>4, <1>5, <1>6, <1>7
<1>8. CASE j <= p
  <2>1. a \in S[i]
    BY <1>8
  <2>2. CASE j = p
    <3>1. b = x \/ b \in S[p]
      BY <2>2
    <3> QED
      BY <1>3, <1>8, <2>1, <2>2, <3>1 DEF InOrder
  <2>3. CASE j < p
    BY <2>1, <2>3 DEF InOrder
  <2> QED
    BY <1>8, <2>2, <2>3
<1>9. CASE p < i
  <2>1. b \in S[j] /\ p # 13
    BY <1>9
  <2>2. a \in S[i]
    BY <1>9, <2>1
  <2> QED
    BY <2>1, <2>2 DEF InOrder
<1> QED
  BY <1>7, <1>8, <1>9

-----------------------------------------------------------------------------
(* One packet in a pipe *)

\* What is taken from a pipe is not newer than what stays.
LEMMA PipeTaken ==
    ASSUME PipeTypeOK, NEW n \in PipeNames, PipeRead(n), Ascending(pipe[n])
    PROVE  /\ PipeFirst(n) \in Packet
           /\ PipeFirst(n).packet_number \in Numbers(pipe[n])
           /\ Numbers(pipe'[n]) \subseteq Numbers(pipe[n])
           /\ \A b \in Numbers(pipe'[n]) : PipeFirst(n).packet_number <= b
           /\ Ascending(pipe'[n])
           /\ \A m \in PipeNames \ {n} : pipe'[m] = pipe[m]
<1>1. pipe[n] \in Seq(Packet) /\ pipe[n] # << >> /\ pipe'[n] = Tail(pipe[n])
      /\ \A m \in PipeNames \ {n} : pipe'[m] = pipe[m]
  BY DEF PipeTypeOK, PipeRead
<1>2. Head(pipe[n]) \in Packet
  BY <1>1
<1> QED
  BY <1>1, <1>2, TakenNumbers DEF PipeFirst

\* What is put into a pipe that holds nothing newer is the newest in it.
LEMMA PipePut ==
    ASSUME PipeTypeOK, NEW n \in PipeNames, NEW pkt \in Packet, PipeWrite(n, pkt),
           Ascending(pipe[n]), \A a \in Numbers(pipe[n]) : a <= pkt.packet_number
    PROVE  /\ Numbers(pipe'[n]) = Numbers(pipe[n]) \cup {pkt.packet_number}
           /\ Ascending(pipe'[n])
           /\ \A m \in PipeNames \ {n} : pipe'[m] = pipe[m]
<1>1. pipe[n] \in Seq(Packet) /\ pipe'[n] = Append(pipe[n], pkt)
      /\ \A m \in PipeNames \ {n} : pipe'[m] = pipe[m]
  BY DEF PipeTypeOK, PipeWrite
<1> QED
  BY <1>1, AppendedNumbers

\* Which is which.
LEMMA StagesAre ==
    /\ Stages[1] = Numbers(Returned)
    /\ Stages[2] = Numbers(pipe["reply_client"])
    /\ Stages[3] = Numbers(One(cli_pc = "enqueue", cli_buf))
    /\ Stages[4] = NumbersOn(s2c)
    /\ Stages[5] = Numbers(One(Senders(rt) # {}, rt_buf))
    /\ Stages[6] = Numbers(pipe["reply_server"])
    /\ Stages[7] = Numbers(One(rtl_pc = "respond", rtl_rsp))
    /\ Stages[8] = Numbers(pipe["request_server"])
    /\ Stages[9] = Numbers(One(srv_pc = "enqueue", srv_buf))
    /\ Stages[10] = NumbersOn(c2s)
    /\ Stages[11] = Numbers(One(Senders(rd) # {}, rd_buf))
    /\ Stages[12] = Numbers(pipe["request_client"])
    /\ Stages[13] = Numbers(One(host_pc = "send", send_pkt))
    /\ Stages[14] = IF CanOpenClientPipe THEN {simics_packet_no} ELSE {}
BY DEF Stages

\* The same of the state after a step.
LEMMA StagesAreAfter == StagesAre!:'
BY StagesAre, PTL

\* A stage is as before when its variables are; of the packet that threads share,
\* when none of them reads.
LEMMA StagesStay ==
    /\ UNCHANGED <<host_pc, reply_pkt>> => Stages'[1] = Stages[1]
    /\ pipe'["reply_client"] = pipe["reply_client"] => Stages'[2] = Stages[2]
    /\ UNCHANGED <<cli_pc, cli_buf>> => Stages'[3] = Stages[3]
    /\ UNCHANGED s2c => Stages'[4] = Stages[4]
    /\ rt_buf' = rt_buf /\ Senders(rt)' \subseteq Senders(rt) => Stages'[5] \subseteq Stages[5]
    /\ pipe'["reply_server"] = pipe["reply_server"] => Stages'[6] = Stages[6]
    /\ UNCHANGED <<rtl_pc, rtl_rsp>> => Stages'[7] = Stages[7]
    /\ pipe'["request_server"] = pipe["request_server"] => Stages'[8] = Stages[8]
    /\ UNCHANGED <<srv_pc, srv_buf>> => Stages'[9] = Stages[9]
    /\ UNCHANGED c2s => Stages'[10] = Stages[10]
    /\ rd_buf' = rd_buf /\ Senders(rd)' \subseteq Senders(rd) => Stages'[11] \subseteq Stages[11]
    /\ pipe'["request_client"] = pipe["request_client"] => Stages'[12] = Stages[12]
    /\ UNCHANGED <<host_pc, send_pkt>> => Stages'[13] = Stages[13]
    /\ UNCHANGED <<simics_packet_no, host_fds>> => Stages'[14] = Stages[14]
<1>1. UNCHANGED <<host_pc, reply_pkt>> => Stages'[1] = Stages[1]
  BY StagesAre, StagesAreAfter DEF Returned
<1>2. rt_buf' = rt_buf /\ Senders(rt)' \subseteq Senders(rt) => Stages'[5] \subseteq Stages[5]
  <2>1. ASSUME rt_buf' = rt_buf, Senders(rt)' \subseteq Senders(rt)
        PROVE  Numbers(One(Senders(rt)' # {}, rt_buf')) \subseteq Numbers(One(Senders(rt) # {}, rt_buf))
    BY <2>1, NumbersOne DEF One
  <2> QED
    BY <2>1, StagesAre, StagesAreAfter
<1>3. rd_buf' = rd_buf /\ Senders(rd)' \subseteq Senders(rd) => Stages'[11] \subseteq Stages[11]
  <2>1. ASSUME rd_buf' = rd_buf, Senders(rd)' \subseteq Senders(rd)
        PROVE  Numbers(One(Senders(rd)' # {}, rd_buf')) \subseteq Numbers(One(Senders(rd) # {}, rd_buf))
    BY <2>1, NumbersOne DEF One
  <2> QED
    BY <2>1, StagesAre, StagesAreAfter
<1>4. UNCHANGED <<simics_packet_no, host_fds>> => Stages'[14] = Stages[14]
  BY StagesAre, StagesAreAfter DEF CanOpenClientPipe
<1> QED
  BY <1>1, <1>2, <1>3, <1>4, StagesAre, StagesAreAfter

-----------------------------------------------------------------------------
(* Every step keeps the order *)

\* What is kept: the stages are in order, and each within itself.
Ordering == Counted /\ Fresh /\ InOrder(Stages) /\ Within

\* A packet is passed on to stage p, if its number is the first behind it and every
\* other stage stays as it is.
PassedTo(p, x) == /\ x \in Stages[p + 1]
                  /\ Stages'[p] \subseteq Stages[p] \cup {x}
                  /\ Stages'[p + 1] \subseteq Stages[p + 1] /\ \A b \in Stages'[p + 1] : x <= b
                  /\ \A q \in (1 .. 14) \ {p, p + 1} : Stages'[q] \subseteq Stages[q]

\* No stage gets a packet it did not have.
NothingNew == \A q \in 1 .. 14 : Stages'[q] \subseteq Stages[q]

\* Steps of either kind keep the stages in order.
LEMMA StepsInOrder ==
    ASSUME InOrder(Stages)
    PROVE  /\ NothingNew => InOrder(Stages)'
           /\ \A p \in 1 .. 12 : \A x : PassedTo(p, x) => InOrder(Stages)'
<1>1. NothingNew => InOrder(Stages)'
  BY LostInOrder DEF NothingNew
<1>2. ASSUME NEW p \in 1 .. 12, NEW x, PassedTo(p, x)
      PROVE  InOrder(Stages)'
  <2>1. p \in 1 .. 13 /\ p + 1 \in 1 .. 14
    OBVIOUS
  <2>2. Stages'[p + 1] \subseteq Nat
    BY <1>2, <2>1 DEF PassedTo, InOrder
  <2> QED
    BY <1>2, <2>1, <2>2, PassedInOrder DEF PassedTo
<1> QED
  BY <1>1, <1>2

\* What waits behind a packet is not newer than it.
LEMMA Behind ==
    ASSUME InOrder(Stages), NEW p \in 1 .. 13, NEW x \in Stages[p + 1]
    PROVE  \A a \in Stages[p] : a <= x
BY DEF InOrder

\* A step of the host: its packet is written, or the reply is read.
LEMMA HostKeepsOrder ==
    ASSUME Served, Ordering, HostStep
    PROVE  Ordering'
<1>1. /\ HostTypeOK /\ PipeTypeOK /\ InOrder(Stages) /\ Within /\ Counted /\ Fresh
      /\ \A n \in PipeNames : Ascending(pipe[n])
  BY DEF Served, TypeOK, Ordering, Within
<1>2. UNCHANGED <<linkVars, clientVars, rserverVars, rtlVars>>
  BY DEF HostStep
<1>3. /\ Stages'[3] = Stages[3] /\ Stages'[4] = Stages[4] /\ Stages'[5] \subseteq Stages[5]
      /\ Stages'[7] = Stages[7] /\ Stages'[9] = Stages[9] /\ Stages'[10] = Stages[10]
      /\ Stages'[11] \subseteq Stages[11]
  BY <1>2, StagesStay DEF linkVars, clientVars, rserverVars, rtlVars, Senders
<1>4. Sorted(c2s)' /\ Sorted(s2c)'
  BY <1>1, <1>2 DEF Within, linkVars, Sorted
<1>5. CASE HostIssue
  <2>1. /\ host_pc = "idle" /\ host_pc' = "send" /\ host_fds + 2 <= FdLimit
        /\ host_fds' = host_fds + 2 /\ pipe' = pipe
        /\ send_pkt'.packet_number = simics_packet_no /\ reply_pkt' = ZeroPacket
        /\ simics_packet_no' = (simics_packet_no + 1) % Modulus
    BY <1>5 DEF HostIssue, StartAccess, CanOpenClientPipe
  <2>2. host_fds \in Nat /\ simics_packet_no \in Nat /\ 2 * simics_packet_no = host_fds + 2
    BY <1>1, <2>1 DEF HostTypeOK, Counted, CanOpenClientPipe
  <2>3. ASSUME host_fds' + 2 <= FdLimit PROVE simics_packet_no' = simics_packet_no + 1
    <3>1. simics_packet_no + 1 < Modulus
      BY <2>1, <2>2, <2>3, FdAssumption, TlpAssumption
    <3> QED
      BY <2>1, <2>2, <3>1, TlpAssumption
  <2>4. Counted'
    BY <2>1, <2>2, <2>3 DEF Counted, CanOpenClientPipe
  <2>5. simics_packet_no \in Stages[14]
    BY <2>1, StagesAre DEF CanOpenClientPipe
  <2>6. Stages'[14] \subseteq Nat /\ \A b \in Stages'[14] : simics_packet_no <= b
    BY <2>2, <2>3, StagesAreAfter DEF CanOpenClientPipe
  <2>7. Stages'[13] = {simics_packet_no}
    <3>1. Stages'[13] = Numbers(One(TRUE, send_pkt'))
      BY <2>1, StagesAreAfter
    <3> QED
      BY <2>1, <3>1, NumbersOne
  <2>8. Stages'[1] = {}
    <3>1. Returned' = << >>
      BY <2>1 DEF Returned, One
    <3> QED
      BY <3>1, StagesAreAfter, NumbersOne
  <2>9. \A q \in (1 .. 14) \ {13, 14} : Stages'[q] \subseteq Stages[q]
    BY <1>3, <2>1, <2>8, StagesStay
  <2>10. InOrder(Stages)'
    BY <1>1, <2>5, <2>6, <2>7, <2>9, PassedInOrder
  <2> QED
    BY <1>1, <1>4, <2>1, <2>4, <2>10 DEF Ordering, Within, Fresh
<1>6. CASE HostIssueRefused
  <2>1. /\ host_pc = "idle" /\ UNCHANGED <<host_pc, host_fds, pipe>> /\ ~CanOpenClientPipe
        /\ reply_pkt' = ZeroPacket
    BY <1>6 DEF HostIssueRefused, StartAccess
  <2>2. Stages'[1] = {} /\ Stages'[13] = {} /\ Stages'[14] = {}
    <3>1. Returned' = << >> /\ One(host_pc = "send", send_pkt)' = << >>
      BY <2>1 DEF Returned, One
    <3> QED
      BY <2>1, <3>1, StagesAreAfter, NumbersOne DEF CanOpenClientPipe
  <2>3. NothingNew
    BY <1>3, <2>1, <2>2, StagesStay DEF NothingNew
  <2> QED
    BY <1>1, <1>4, <2>1, <2>3, StepsInOrder DEF Ordering, Within, Fresh, Counted, CanOpenClientPipe
<1>7. CASE HostEnqueue
  <2> DEFINE x == send_pkt.packet_number
  <2>1. /\ host_pc = "send" /\ host_pc' = "wait" /\ PipeWrite("request_client", send_pkt)
        /\ UNCHANGED <<simics_packet_no, send_pkt, reply_pkt, host_fds>>
        /\ send_pkt \in Packet /\ "request_client" \in PipeNames
    BY <1>1, <1>7 DEF HostEnqueue, HostTypeOK, PipeNames
  <2>2. Stages[13] = {x}
    <3>1. Stages[13] = Numbers(One(TRUE, send_pkt))
      BY <2>1, StagesAre
    <3> QED
      BY <3>1, NumbersOne
  <2>3. Stages'[13] = {} /\ Stages'[1] = {}
    <3>1. Returned' = << >> /\ One(host_pc = "send", send_pkt)' = << >>
      BY <2>1 DEF Returned, One
    <3> QED
      BY <3>1, StagesAreAfter, NumbersOne
  <2>4. \A a \in Numbers(pipe["request_client"]) : a <= x
    BY <1>1, <2>2, Behind, StagesAre
  <2>5. /\ Numbers(pipe'["request_client"]) = Numbers(pipe["request_client"]) \cup {x}
        /\ Ascending(pipe'["request_client"])
        /\ \A m \in PipeNames \ {"request_client"} : pipe'[m] = pipe[m]
    BY <1>1, <2>1, <2>4, PipePut
  <2> HIDE DEF x
  <2>6. Stages'[2] = Stages[2] /\ Stages'[6] = Stages[6] /\ Stages'[8] = Stages[8]
        /\ Stages'[14] = Stages[14] /\ Stages'[12] = Stages[12] \cup {x}
    BY <2>1, <2>5, StagesStay, StagesAre, StagesAreAfter DEF PipeNames
  <2>7. PassedTo(12, x)
    BY <1>3, <2>2, <2>3, <2>6 DEF PassedTo
  <2> QED
    BY <1>1, <1>4, <2>1, <2>5, <2>7, StepsInOrder DEF Ordering, Within, Fresh, Counted, CanOpenClientPipe
<1>8. CASE HostDequeue
  <2> DEFINE x == PipeFirst("reply_client").packet_number
  <2>1. /\ host_pc = "wait" /\ host_pc' = "idle" /\ PipeRead("reply_client")
        /\ reply_pkt' = PipeFirst("reply_client")
        /\ UNCHANGED <<simics_packet_no, send_pkt, host_fds>>
        /\ "reply_client" \in PipeNames
    BY <1>1, <1>8 DEF HostDequeue, PipeNames
  <2>2. /\ x \in Numbers(pipe["reply_client"])
        /\ Numbers(pipe'["reply_client"]) \subseteq Numbers(pipe["reply_client"])
        /\ \A b \in Numbers(pipe'["reply_client"]) : x <= b
        /\ Ascending(pipe'["reply_client"])
        /\ \A m \in PipeNames \ {"reply_client"} : pipe'[m] = pipe[m]
    BY <1>1, <2>1, PipeTaken
  <2>3. Stages'[1] \subseteq {x}
    BY <2>1, StagesAreAfter, NumbersOne DEF Returned, One
  <2>4. Stages'[13] = {}
    <3>1. One(host_pc = "send", send_pkt)' = << >>
      BY <2>1 DEF One
    <3> QED
      BY <3>1, StagesAreAfter, NumbersOne
  <2> HIDE DEF x
  <2>5. Stages'[12] = Stages[12] /\ Stages'[6] = Stages[6] /\ Stages'[8] = Stages[8]
        /\ Stages'[14] = Stages[14]
    BY <2>1, <2>2, StagesStay DEF PipeNames
  <2>6. /\ x \in Stages[2] /\ Stages'[2] \subseteq Stages[2] /\ \A b \in Stages'[2] : x <= b
    BY <2>2, StagesAre, StagesAreAfter
  <2>7. PassedTo(1, x)
    BY <1>3, <2>3, <2>4, <2>5, <2>6 DEF PassedTo
  <2> QED
    BY <1>1, <1>4, <2>1, <2>2, <2>7, StepsInOrder DEF Ordering, Within, Fresh, Counted, CanOpenClientPipe
<1> QED
  BY <1>5, <1>6, <1>7, <1>8 DEF HostStep, HostNext

\* A call of the host that is interrupted moves no packet, and leaves no reply.
LEMMA InterruptedKeepsOrder ==
    ASSUME Served, Ordering, FaultStep
    PROVE  Ordering'
<1>1. UNCHANGED <<pipe, relayVars, simics_packet_no, host_fds, send_pkt, reply_pkt>>
      /\ host_pc # "idle" /\ (host_pc' # "send") /\ reply_pkt = ZeroPacket
  BY DEF FaultStep, HostEnqueueFails, HostDequeueFails, Ordering, Fresh
<1>2. Stages'[1] = {} /\ Stages'[13] = {}
  <2>1. Returned' = << >> /\ One(host_pc = "send", send_pkt)' = << >>
    BY <1>1 DEF Returned, One
  <2> QED
    BY <2>1, StagesAreAfter, NumbersOne
<1>3. NothingNew
  BY <1>1, <1>2, StagesStay
  DEF NothingNew, relayVars, linkVars, clientVars, rserverVars, rtlVars, Senders
<1>4. InOrder(Stages)'
  BY <1>3, StepsInOrder DEF Ordering
<1> QED
  BY <1>1, <1>4 DEF Ordering, Within, Fresh, Counted, CanOpenClientPipe, relayVars, linkVars, Sorted

\* A place is empty when no packet is there, and else holds the one packet.
LEMMA StagesEmptied ==
    /\ cli_pc' # "enqueue" => Stages'[3] = {}
    /\ rtl_pc' # "respond" => Stages'[7] = {}
    /\ srv_pc' # "enqueue" => Stages'[9] = {}
    /\ Stages'[3] \subseteq {cli_buf'.packet_number}
    /\ Stages'[5] \subseteq {rt_buf'.packet_number}
    /\ Stages'[7] \subseteq {rtl_rsp'.packet_number}
    /\ Stages'[9] \subseteq {srv_buf'.packet_number}
    /\ Stages'[11] \subseteq {rd_buf'.packet_number}
BY StagesAreAfter, NumbersOne DEF One

\* A place holds its packet while it is there.
LEMMA StagesFilled ==
    /\ cli_pc = "enqueue" => Stages[3] = {cli_buf.packet_number}
    /\ Senders(rt) # {} => Stages[5] = {rt_buf.packet_number}
    /\ rtl_pc = "respond" => Stages[7] = {rtl_rsp.packet_number}
    /\ srv_pc = "enqueue" => Stages[9] = {srv_buf.packet_number}
    /\ Senders(rd) # {} => Stages[11] = {rd_buf.packet_number}
BY StagesAre, NumbersOne DEF One

\* Connections that are emptied bring nothing new.
LEMMA DroppedInOrder ==
    ASSUME Sorted(c2s), Sorted(s2c),
           \A k \in Conns : c2s'[k] = c2s[k] \/ c2s'[k] = << >>,
           \A k \in Conns : s2c'[k] = s2c[k] \/ s2c'[k] = << >>
    PROVE  /\ Sorted(c2s)' /\ Sorted(s2c)'
           /\ Stages'[4] \subseteq Stages[4] /\ Stages'[10] \subseteq Stages[10]
<1>1. /\ Sorted(c2s') /\ NumbersOn(c2s') \subseteq NumbersOn(c2s)
      /\ Sorted(s2c') /\ NumbersOn(s2c') \subseteq NumbersOn(s2c)
  BY SortedDropped
<1> QED
  BY <1>1, StagesAre, StagesAreAfter DEF Sorted

\* A step of the client, whichever of its threads takes it.
LEMMA ClientKeepsOrder ==
    ASSUME Served, LastOpen, Ordering, ClientStep
    PROVE  Ordering'
<1>1. /\ ClientTypeOK /\ PipeTypeOK /\ LinkTypeOK /\ ClientServed
      /\ c2s \in [Conns -> Seq(Packet)] /\ s2c \in [Conns -> Seq(Packet)]
      /\ rd \in [Conns -> {"none", "check", "read", "send", "confirm", "gone"}]
      /\ InOrder(Stages) /\ Within /\ Sorted(c2s) /\ Sorted(s2c)
      /\ \A n \in PipeNames : Ascending(pipe[n])
  BY DEF Served, TypeOK, LinkTypeOK, ClientTypeOK, Ordering, Within
<1>2. /\ UNCHANGED <<hostVars, rserverVars, rtlVars>>
      /\ (Counted /\ Fresh)'
  BY DEF ClientStep, Ordering, Counted, Fresh, hostVars, CanOpenClientPipe
<1>3. /\ Stages'[1] = Stages[1] /\ Stages'[5] \subseteq Stages[5] /\ Stages'[7] = Stages[7]
      /\ Stages'[9] = Stages[9] /\ Stages'[13] = Stages[13] /\ Stages'[14] = Stages[14]
  BY <1>2, StagesStay DEF hostVars, rserverVars, rtlVars, Senders
<1>4. pipe' = pipe => /\ Stages'[2] = Stages[2] /\ Stages'[6] = Stages[6]
                      /\ Stages'[8] = Stages[8] /\ Stages'[12] = Stages[12]
  BY StagesStay
\* No packet is moved, or some are dropped.
<1>5. ASSUME pipe' = pipe, cli_pc' # "enqueue", rd_buf' = rd_buf, Senders(rd)' \subseteq Senders(rd),
             \A k \in Conns : c2s'[k] = c2s[k] \/ c2s'[k] = << >>,
             \A k \in Conns : s2c'[k] = s2c[k] \/ s2c'[k] = << >>
      PROVE  Ordering'
  <2>1. NothingNew
    BY <1>1, <1>3, <1>4, <1>5, StagesStay, StagesEmptied, DroppedInOrder DEF NothingNew
  <2> QED
    BY <1>1, <1>2, <1>5, <2>1, StepsInOrder, DroppedInOrder DEF Ordering, Within
<1>6. CASE CliConnect \/ CliReopen \/ CliStopReaders
  <2>1. pipe' = pipe /\ cli_pc' # "enqueue" /\ rd_buf' = rd_buf /\ UNCHANGED <<c2s, s2c>>
    BY <1>6 DEF CliConnect, CliReopen, CliStopReaders, linkVars
  <2>2. rd' = rd \/ rd' = [rd EXCEPT ![nconn + 1] = "check"]
    BY <1>6 DEF CliConnect, CliReopen, CliStopReaders
  <2>3. Senders(rd)' \subseteq Senders(rd)
    BY <1>1, <2>2 DEF Senders
  <2> QED
    BY <1>5, <2>1, <2>3
<1>7. CASE CliRecvEnd \/ CliRecvShort
  <2>1. pipe' = pipe /\ cli_pc' # "enqueue" /\ rd_buf' = rd_buf /\ rd' = rd /\ ClientCloses(nconn)
    BY <1>7 DEF CliRecvEnd, CliRecvShort, CliClose
  <2>2. Senders(rd)' \subseteq Senders(rd)
    BY <2>1 DEF Senders
  <2>3. nconn \in Conns
    BY <1>1, <1>7, OpenConns DEF CliRecvEnd, CliRecvShort, ClientServed, Served
  <2>4. /\ \A k \in Conns : c2s'[k] = c2s[k] \/ c2s'[k] = << >>
        /\ \A k \in Conns : s2c'[k] = s2c[k] \/ s2c'[k] = << >>
    BY <1>1, <2>1, <2>3, ClosedByClient
  <2> QED
    BY <1>5, <2>1, <2>2, <2>4
<1>8. CASE CliRecv
  <2> DEFINE x == Head(s2c[nconn]).packet_number
  <2>1. /\ s2c[nconn] # << >> /\ cli_buf' = Head(s2c[nconn]) /\ cli_pc = "recv"
        /\ s2c' = [s2c EXCEPT ![nconn] = Tail(@)]
        /\ UNCHANGED <<pipe, c2s, rd, rd_buf>>
    BY <1>8 DEF CliRecv
  <2>2. nconn \in Conns
    BY <1>1, <2>1, OpenConns DEF Served, ClientServed
  <2>3. \A j \in Conns : j < nconn => s2c[j] = << >>
    BY <2>2, ConnFacts DEF LastOpen
  <2>4. /\ Sorted(s2c') /\ NumbersOn(s2c') \subseteq NumbersOn(s2c)
        /\ x \in NumbersOn(s2c) /\ \A b \in NumbersOn(s2c') : x <= b
    BY <1>1, <2>1, <2>2, <2>3, SortedReceived
  <2>5. Stages'[3] \subseteq {x}
    BY <2>1, StagesEmptied
  <2> HIDE DEF x
  <2>6. x \in Stages[4] /\ Stages'[4] \subseteq Stages[4] /\ \A b \in Stages'[4] : x <= b
    BY <2>4, StagesAre, StagesAreAfter
  <2>7. Stages'[10] = Stages[10] /\ Stages'[11] \subseteq Stages[11]
    BY <2>1, StagesStay DEF Senders
  <2>8. PassedTo(3, x)
    BY <1>3, <1>4, <2>1, <2>5, <2>6, <2>7 DEF PassedTo
  <2> QED
    BY <1>1, <1>2, <2>1, <2>4, <2>8, StepsInOrder DEF Ordering, Within, Sorted
<1>9. CASE CliEnqueue
  <2> DEFINE x == cli_buf.packet_number
  <2>1. /\ cli_pc = "enqueue" /\ cli_pc' # "enqueue" /\ PipeWrite("reply_client", cli_buf)
        /\ cli_buf \in Packet /\ "reply_client" \in PipeNames /\ UNCHANGED <<c2s, s2c, rd, rd_buf>>
    BY <1>1, <1>9 DEF CliEnqueue, ClientTypeOK, PipeNames, linkVars
  <2>2. Stages[3] = {x} /\ Stages'[3] = {}
    BY <2>1, StagesFilled, StagesEmptied
  <2>3. \A a \in Numbers(pipe["reply_client"]) : a <= x
    <3>1. \A a \in Stages[2] : a <= x
      BY <1>1, <2>2 DEF InOrder
    <3> QED
      BY <3>1, StagesAre
  <2>4. /\ Numbers(pipe'["reply_client"]) = Numbers(pipe["reply_client"]) \cup {x}
        /\ Ascending(pipe'["reply_client"])
        /\ \A m \in PipeNames \ {"reply_client"} : pipe'[m] = pipe[m]
    BY <1>1, <2>1, <2>3, PipePut
  <2> HIDE DEF x
  <2>5. /\ Stages'[2] = Stages[2] \cup {x} /\ Stages'[6] = Stages[6] /\ Stages'[8] = Stages[8]
        /\ Stages'[12] = Stages[12] /\ Stages'[4] = Stages[4] /\ Stages'[10] = Stages[10]
        /\ Stages'[11] \subseteq Stages[11]
    BY <2>1, <2>4, StagesStay, StagesAre, StagesAreAfter DEF PipeNames, Senders
  <2>6. PassedTo(2, x)
    BY <1>3, <2>2, <2>5 DEF PassedTo
  <2> QED
    BY <1>1, <1>2, <2>1, <2>4, <2>6, StepsInOrder DEF Ordering, Within, Sorted
<1>10. ASSUME NEW k \in Conns, RdCheck(k) \/ RdSendLost(k) \/ RdConfirm(k)
       PROVE  Ordering'
  <2>1. /\ UNCHANGED <<pipe, cli_pc, cli_buf, rd_buf, c2s, s2c>>
        /\ \E st \in {"gone", "read", "check"} : rd' = [rd EXCEPT ![k] = st]
    BY <1>10 DEF RdCheck, RdSendLost, RdConfirm, RdGoto, linkVars
  <2>2. Senders(rd)' \subseteq Senders(rd)
    BY <1>1, <2>1 DEF Senders
  <2>3. /\ Stages'[3] = Stages[3] /\ Stages'[4] = Stages[4] /\ Stages'[10] = Stages[10]
        /\ Stages'[11] \subseteq Stages[11]
    BY <2>1, <2>2, StagesStay
  <2>4. NothingNew
    BY <1>3, <1>4, <2>1, <2>3 DEF NothingNew
  <2> QED
    BY <1>1, <1>2, <2>1, <2>4, StepsInOrder DEF Ordering, Within, Sorted
<1>11. ASSUME NEW k \in Conns, RdRead(k)
       PROVE  Ordering'
  <2> DEFINE x == PipeFirst("request_client").packet_number
  <2>1. /\ PipeRead("request_client") /\ rd_buf' = PipeFirst("request_client")
        /\ UNCHANGED <<cli_pc, cli_buf, c2s, s2c>> /\ "request_client" \in PipeNames
    BY <1>11 DEF RdRead, PipeNames, linkVars
  <2>2. /\ x \in Numbers(pipe["request_client"])
        /\ Numbers(pipe'["request_client"]) \subseteq Numbers(pipe["request_client"])
        /\ \A b \in Numbers(pipe'["request_client"]) : x <= b
        /\ Ascending(pipe'["request_client"])
        /\ \A m \in PipeNames \ {"request_client"} : pipe'[m] = pipe[m]
    BY <1>1, <2>1, PipeTaken
  <2>3. Stages'[11] \subseteq {x}
    BY <2>1, StagesEmptied
  <2> HIDE DEF x
  <2>4. /\ Stages'[2] = Stages[2] /\ Stages'[6] = Stages[6] /\ Stages'[8] = Stages[8]
        /\ Stages'[3] = Stages[3] /\ Stages'[4] = Stages[4] /\ Stages'[10] = Stages[10]
    BY <2>1, <2>2, StagesStay DEF PipeNames
  <2>5. /\ x \in Stages[12] /\ Stages'[12] \subseteq Stages[12] /\ \A b \in Stages'[12] : x <= b
    BY <2>2, StagesAre, StagesAreAfter
  <2>6. PassedTo(11, x)
    BY <1>3, <2>3, <2>4, <2>5 DEF PassedTo
  <2>7. InOrder(Stages)'
    BY <1>1, <2>6, StepsInOrder
  <2>8. Within'
    BY <1>1, <2>1, <2>2 DEF Within, Sorted
  <2> QED
    BY <1>2, <2>7, <2>8 DEF Ordering
<1>12. ASSUME NEW k \in Conns, RdSend(k)
       PROVE  Ordering'
  <2> DEFINE x == rd_buf.packet_number
  <2>1. /\ k \in Senders(rd) /\ nconn \in Conns /\ rd_buf \in Packet
        /\ c2s' = [c2s EXCEPT ![nconn] = Append(@, rd_buf)]
        /\ UNCHANGED <<pipe, cli_pc, cli_buf, rd_buf, s2c>> /\ rd' = [rd EXCEPT ![k] = "confirm"]
    BY <1>1, <1>12, OpenConns DEF RdSend, RdGoto, ClientLinkUp, ClientServed, ClientTypeOK, Senders, Served
  <2>2. Stages[11] = {x}
    BY <2>1, StagesFilled
  <2>3. \A a \in NumbersOn(c2s) : a <= x
    <3>1. 10 \in 1 .. 13 /\ x \in Stages[10 + 1]
      BY <2>2
    <3>2. \A a \in Stages[10] : a <= x
      BY <1>1, <3>1, Behind
    <3> QED
      BY <3>2, StagesAre
  <2>4. \A j \in Conns : nconn < j => c2s[j] = << >>
    <3>1. \A j \in Conns : c2s[j] # << >> => j <= nconn
      BY DEF LastOpen
    <3> QED
      BY <2>1, <3>1, ConnFacts
  <2>5. Sorted(c2s') /\ NumbersOn(c2s') = NumbersOn(c2s) \cup {x}
    BY <1>1, <2>1, <2>3, <2>4, SortedSent
  <2> HIDE DEF x
  <2>6. Senders(rd)' \subseteq Senders(rd)
    BY <1>1, <2>1 DEF Senders
  <2>7. /\ Stages'[3] = Stages[3] /\ Stages'[4] = Stages[4] /\ Stages'[11] \subseteq Stages[11]
        /\ Stages'[10] = Stages[10] \cup {x}
    BY <2>1, <2>5, <2>6, StagesStay, StagesAre, StagesAreAfter
  <2>8. Stages[11] \subseteq Nat
    BY <1>1 DEF InOrder
  <2>9. PassedTo(10, x)
    BY <1>3, <1>4, <2>1, <2>2, <2>7, <2>8 DEF PassedTo
  <2> QED
    BY <1>1, <1>2, <2>1, <2>5, <2>9, StepsInOrder DEF Ordering, Within, Sorted
<1>13. ASSUME NEW k \in Conns, ClientKilled(k)
       PROVE  Ordering'
  <2>1. /\ pipe' = pipe /\ cli_pc' # "enqueue" /\ rd_buf' = rd_buf
        /\ \A j \in Conns : rd'[j] # "send"
        /\ (nconn \in Conns /\ ClientCloses(nconn)) \/ UNCHANGED <<c2s, s2c>>
    BY <1>1, <1>13, OpenConns DEF ClientKilled, ClientServed, Served
  <2>2. Senders(rd)' \subseteq Senders(rd)
    BY <2>1 DEF Senders
  <2>3. /\ \A j \in Conns : c2s'[j] = c2s[j] \/ c2s'[j] = << >>
        /\ \A j \in Conns : s2c'[j] = s2c[j] \/ s2c'[j] = << >>
    BY <1>1, <2>1, ClosedByClient
  <2> QED
    BY <1>5, <2>1, <2>2, <2>3
<1> QED
  BY <1>6, <1>7, <1>8, <1>9, <1>10, <1>11, <1>12, <1>13
     DEF ClientStep, ClientNext, ClientThread, ReaderThread

\* The server drops what is on the way to it.
LEMMA ClosedByServer ==
    ASSUME c2s \in [Conns -> Seq(Packet)], s2c \in [Conns -> Seq(Packet)],
           NEW k \in Conns, ServerCloses(k)
    PROVE  /\ \A j \in Conns : c2s'[j] = c2s[j] \/ c2s'[j] = << >>
           /\ \A j \in Conns : s2c'[j] = s2c[j] \/ s2c'[j] = << >>
<1>1. \A j \in Conns : s2c'[j] = s2c[j] \/ s2c'[j] = << >>
  BY EmptiedIs DEF ServerCloses
<1>2. \A j \in Conns : c2s'[j] = c2s[j] \/ c2s'[j] = << >>
  BY EmptiedIs DEF ServerCloses
<1> QED
  BY <1>1, <1>2

\* A step of the server, whichever of its threads takes it.
LEMMA ServerKeepsOrder ==
    ASSUME Served, LastOpen, Ordering, RServerStep
    PROVE  Ordering'
<1>1. /\ RServerTypeOK /\ PipeTypeOK /\ LinkTypeOK /\ ServerServed
      /\ c2s \in [Conns -> Seq(Packet)] /\ s2c \in [Conns -> Seq(Packet)]
      /\ rt \in [Conns -> {"none", "start", "check", "read", "send", "confirm", "gone"}]
      /\ InOrder(Stages) /\ Within /\ Sorted(c2s) /\ Sorted(s2c)
      /\ \A n \in PipeNames : Ascending(pipe[n])
  BY DEF Served, TypeOK, LinkTypeOK, RServerTypeOK, Ordering, Within
<1>2. /\ UNCHANGED <<hostVars, clientVars, rtlVars>>
      /\ (Counted /\ Fresh)'
  BY DEF RServerStep, Ordering, Counted, Fresh, hostVars, CanOpenClientPipe
<1>3. /\ Stages'[1] = Stages[1] /\ Stages'[3] = Stages[3] /\ Stages'[7] = Stages[7]
      /\ Stages'[11] \subseteq Stages[11] /\ Stages'[13] = Stages[13] /\ Stages'[14] = Stages[14]
  BY <1>2, StagesStay DEF hostVars, clientVars, rtlVars, Senders
<1>4. pipe' = pipe => /\ Stages'[2] = Stages[2] /\ Stages'[6] = Stages[6]
                      /\ Stages'[8] = Stages[8] /\ Stages'[12] = Stages[12]
  BY StagesStay
\* No packet is moved, or some are dropped.
<1>5. ASSUME pipe' = pipe, srv_pc' # "enqueue", rt_buf' = rt_buf, Senders(rt)' \subseteq Senders(rt),
             \A k \in Conns : c2s'[k] = c2s[k] \/ c2s'[k] = << >>,
             \A k \in Conns : s2c'[k] = s2c[k] \/ s2c'[k] = << >>
      PROVE  Ordering'
  <2>1. NothingNew
    BY <1>1, <1>3, <1>4, <1>5, StagesStay, StagesEmptied, DroppedInOrder DEF NothingNew
  <2> QED
    BY <1>1, <1>2, <1>5, <2>1, StepsInOrder, DroppedInOrder DEF Ordering, Within
<1>6. CASE SrvAccept \/ SrvForget \/ SrvStop
  <2>1. pipe' = pipe /\ srv_pc' # "enqueue" /\ rt_buf' = rt_buf /\ UNCHANGED <<c2s, s2c>>
    BY <1>6 DEF SrvAccept, SrvForget, SrvStop, linkVars
  <2>2. rt' = rt \/ rt' = [rt EXCEPT ![accepted + 1] = "start"]
    BY <1>6 DEF SrvAccept, SrvForget, SrvStop
  <2>3. Senders(rt)' \subseteq Senders(rt)
    BY <1>1, <2>2 DEF Senders
  <2> QED
    BY <1>5, <2>1, <2>3
<1>7. CASE SrvRecvEnd \/ SrvRecvShort
  <2>1. pipe' = pipe /\ srv_pc' # "enqueue" /\ rt_buf' = rt_buf /\ rt' = rt /\ ServerCloses(accepted)
    BY <1>7 DEF SrvRecvEnd, SrvRecvShort, SrvClose
  <2>2. Senders(rt)' \subseteq Senders(rt)
    BY <2>1 DEF Senders
  <2>3. accepted \in Conns
    BY <1>1, <1>7, OpenConns DEF SrvRecvEnd, SrvRecvShort, ServerServed, ClientSockOpen, Served
  <2>4. /\ \A k \in Conns : c2s'[k] = c2s[k] \/ c2s'[k] = << >>
        /\ \A k \in Conns : s2c'[k] = s2c[k] \/ s2c'[k] = << >>
    BY <1>1, <2>1, <2>3, ClosedByServer
  <2> QED
    BY <1>5, <2>1, <2>2, <2>4
<1>8. CASE SrvRecv
  <2> DEFINE x == Head(c2s[accepted]).packet_number
  <2>1. /\ c2s[accepted] # << >> /\ srv_buf' = Head(c2s[accepted]) /\ srv_pc = "recv"
        /\ c2s' = [c2s EXCEPT ![accepted] = Tail(@)]
        /\ UNCHANGED <<pipe, s2c, rt, rt_buf>>
    BY <1>8 DEF SrvRecv
  <2>2. accepted \in Conns
    BY <1>1, <2>1, OpenConns DEF Served, ServerServed, ClientSockOpen
  <2>3. \A j \in Conns : j < accepted => c2s[j] = << >>
    <3>1. \A j \in Conns : c2s[j] # << >> => accepted < j \/ accepted = j
      BY DEF LastOpen
    <3>2. accepted \in Nat /\ \A j \in Conns : j \in Nat
      BY <2>2, ConnFacts
    <3>3. ASSUME NEW j \in Conns, j < accepted PROVE ~(accepted < j \/ accepted = j)
      BY <3>2, <3>3
    <3> QED
      BY <3>1, <3>3
  <2>4. /\ Sorted(c2s') /\ NumbersOn(c2s') \subseteq NumbersOn(c2s)
        /\ x \in NumbersOn(c2s) /\ \A b \in NumbersOn(c2s') : x <= b
    BY <1>1, <2>1, <2>2, <2>3, SortedReceived
  <2>5. Stages'[9] \subseteq {x}
    BY <2>1, StagesEmptied
  <2> HIDE DEF x
  <2>6. x \in Stages[10] /\ Stages'[10] \subseteq Stages[10] /\ \A b \in Stages'[10] : x <= b
    BY <2>4, StagesAre, StagesAreAfter
  <2>7. Stages'[4] = Stages[4] /\ Stages'[5] \subseteq Stages[5]
    BY <2>1, StagesStay DEF Senders
  <2>8. PassedTo(9, x)
    BY <1>3, <1>4, <2>1, <2>5, <2>6, <2>7 DEF PassedTo
  <2> QED
    BY <1>1, <1>2, <2>1, <2>4, <2>8, StepsInOrder DEF Ordering, Within, Sorted
<1>9. CASE SrvEnqueue
  <2> DEFINE x == srv_buf.packet_number
  <2>1. /\ srv_pc = "enqueue" /\ srv_pc' # "enqueue" /\ PipeWrite("request_server", srv_buf)
        /\ srv_buf \in Packet /\ "request_server" \in PipeNames /\ UNCHANGED <<c2s, s2c, rt, rt_buf>>
    BY <1>1, <1>9 DEF SrvEnqueue, RServerTypeOK, PipeNames, linkVars
  <2>2. Stages[9] = {x} /\ Stages'[9] = {}
    BY <2>1, StagesFilled, StagesEmptied
  <2>3. \A a \in Numbers(pipe["request_server"]) : a <= x
    <3>1. 8 \in 1 .. 13 /\ x \in Stages[8 + 1]
      BY <2>2
    <3>2. \A a \in Stages[8] : a <= x
      BY <1>1, <3>1, Behind
    <3> QED
      BY <3>2, StagesAre
  <2>4. /\ Numbers(pipe'["request_server"]) = Numbers(pipe["request_server"]) \cup {x}
        /\ Ascending(pipe'["request_server"])
        /\ \A m \in PipeNames \ {"request_server"} : pipe'[m] = pipe[m]
    BY <1>1, <2>1, <2>3, PipePut
  <2> HIDE DEF x
  <2>5. /\ Stages'[8] = Stages[8] \cup {x} /\ Stages'[6] = Stages[6] /\ Stages'[2] = Stages[2]
        /\ Stages'[12] = Stages[12] /\ Stages'[4] = Stages[4] /\ Stages'[10] = Stages[10]
        /\ Stages'[5] \subseteq Stages[5]
    BY <2>1, <2>4, StagesStay, StagesAre, StagesAreAfter DEF PipeNames, Senders
  <2>6. PassedTo(8, x)
    BY <1>3, <2>2, <2>5 DEF PassedTo
  <2> QED
    BY <1>1, <1>2, <2>1, <2>4, <2>6, StepsInOrder DEF Ordering, Within, Sorted
<1>10. ASSUME NEW k \in Conns, RtStart(k) \/ RtCheck(k) \/ RtSendLost(k) \/ RtConfirm(k)
       PROVE  Ordering'
  <2>1. /\ UNCHANGED <<pipe, srv_pc, srv_buf, rt_buf, c2s, s2c>>
        /\ \E st \in {"gone", "read", "check"} : rt' = [rt EXCEPT ![k] = st]
    BY <1>10 DEF RtStart, RtCheck, RtSendLost, RtConfirm, RtGoto, linkVars
  <2>2. Senders(rt)' \subseteq Senders(rt)
    BY <1>1, <2>1 DEF Senders
  <2>3. /\ Stages'[9] = Stages[9] /\ Stages'[4] = Stages[4] /\ Stages'[10] = Stages[10]
        /\ Stages'[5] \subseteq Stages[5]
    BY <2>1, <2>2, StagesStay
  <2>4. NothingNew
    BY <1>3, <1>4, <2>1, <2>3 DEF NothingNew
  <2> QED
    BY <1>1, <1>2, <2>1, <2>4, StepsInOrder DEF Ordering, Within, Sorted
<1>11. ASSUME NEW k \in Conns, RtRead(k)
       PROVE  Ordering'
  <2> DEFINE x == PipeFirst("reply_server").packet_number
  <2>1. /\ PipeRead("reply_server") /\ rt_buf' = PipeFirst("reply_server")
        /\ UNCHANGED <<srv_pc, srv_buf, c2s, s2c>> /\ "reply_server" \in PipeNames
    BY <1>11 DEF RtRead, PipeNames, linkVars
  <2>2. /\ x \in Numbers(pipe["reply_server"])
        /\ Numbers(pipe'["reply_server"]) \subseteq Numbers(pipe["reply_server"])
        /\ \A b \in Numbers(pipe'["reply_server"]) : x <= b
        /\ Ascending(pipe'["reply_server"])
        /\ \A m \in PipeNames \ {"reply_server"} : pipe'[m] = pipe[m]
    BY <1>1, <2>1, PipeTaken
  <2>3. Stages'[5] \subseteq {x}
    BY <2>1, StagesEmptied
  <2> HIDE DEF x
  <2>4. /\ Stages'[2] = Stages[2] /\ Stages'[12] = Stages[12] /\ Stages'[8] = Stages[8]
        /\ Stages'[9] = Stages[9] /\ Stages'[4] = Stages[4] /\ Stages'[10] = Stages[10]
    BY <2>1, <2>2, StagesStay DEF PipeNames
  <2>5. /\ x \in Stages[6] /\ Stages'[6] \subseteq Stages[6] /\ \A b \in Stages'[6] : x <= b
    BY <2>2, StagesAre, StagesAreAfter
  <2>6. PassedTo(5, x)
    BY <1>3, <2>3, <2>4, <2>5 DEF PassedTo
  <2>7. InOrder(Stages)'
    BY <1>1, <2>6, StepsInOrder
  <2>8. Within'
    BY <1>1, <2>1, <2>2 DEF Within, Sorted
  <2> QED
    BY <1>2, <2>7, <2>8 DEF Ordering
<1>12. ASSUME NEW k \in Conns, RtSend(k)
       PROVE  Ordering'
  <2> DEFINE x == rt_buf.packet_number
  <2>1. /\ k \in Senders(rt) /\ accepted \in Conns /\ accepted \notin ended /\ rt_buf \in Packet
        /\ s2c' = [s2c EXCEPT ![accepted] = Append(@, rt_buf)]
        /\ UNCHANGED <<pipe, srv_pc, srv_buf, rt_buf, c2s>> /\ rt' = [rt EXCEPT ![k] = "confirm"]
    BY <1>1, <1>12, OpenConns DEF RtSend, RtGoto, ServerLinkUp, ServerServed, RServerTypeOK, Senders, Served
  <2>2. Stages[5] = {x}
    BY <2>1, StagesFilled
  <2>3. \A a \in NumbersOn(s2c) : a <= x
    <3>1. 4 \in 1 .. 13 /\ x \in Stages[4 + 1]
      BY <2>2
    <3>2. \A a \in Stages[4] : a <= x
      BY <1>1, <3>1, Behind
    <3> QED
      BY <3>2, StagesAre
  <2>4. \A j \in Conns : accepted < j => s2c[j] = << >>
    <3>1. accepted \in 1 .. nconn
      BY <2>1, OpenConns, ConnFacts DEF Served
    <3>2. accepted = nconn
      BY <2>1, <3>1 DEF LastOpen
    <3>3. \A j \in Conns : s2c[j] # << >> => j = accepted
      BY <3>2 DEF LastOpen
    <3> QED
      BY <2>1, <3>3, ConnFacts
  <2>5. Sorted(s2c') /\ NumbersOn(s2c') = NumbersOn(s2c) \cup {x}
    BY <1>1, <2>1, <2>3, <2>4, SortedSent
  <2> HIDE DEF x
  <2>6. Senders(rt)' \subseteq Senders(rt)
    BY <1>1, <2>1 DEF Senders
  <2>7. /\ Stages'[9] = Stages[9] /\ Stages'[10] = Stages[10] /\ Stages'[5] \subseteq Stages[5]
        /\ Stages'[4] = Stages[4] \cup {x}
    BY <2>1, <2>5, <2>6, StagesStay, StagesAre, StagesAreAfter
  <2>8. Stages[5] \subseteq Nat
    BY <1>1 DEF InOrder
  <2>9. PassedTo(4, x)
    BY <1>3, <1>4, <2>1, <2>2, <2>7, <2>8 DEF PassedTo
  <2> QED
    BY <1>1, <1>2, <2>1, <2>5, <2>9, StepsInOrder DEF Ordering, Within, Sorted
<1>13. ASSUME NEW k \in Conns, ServerKilled(k)
       PROVE  Ordering'
  <2>1. /\ pipe' = pipe /\ srv_pc' # "enqueue" /\ rt_buf' = rt_buf
        /\ \A j \in Conns : rt'[j] # "send"
        /\ c2s' = [j \in Conns |-> IF j \in accepted .. nconn THEN << >> ELSE c2s[j]]
        /\ s2c' \in {s2c, Emptied(s2c, accepted)}
    BY <1>13 DEF ServerKilled
  <2>2. Senders(rt)' \subseteq Senders(rt)
    BY <2>1 DEF Senders
  <2>3. \A j \in Conns : c2s'[j] = c2s[j] \/ c2s'[j] = << >>
    BY <2>1
  <2>4. \A j \in Conns : s2c'[j] = s2c[j] \/ s2c'[j] = << >>
    BY <1>1, <2>1 DEF Emptied
  <2> QED
    BY <1>5, <2>1, <2>2, <2>3, <2>4
<1> QED
  BY <1>6, <1>7, <1>8, <1>9, <1>10, <1>11, <1>12, <1>13
     DEF RServerStep, RServerNext, RServerThread, ReplyThread

\* A step of the device, which never meets the packet that stops it.
LEMMA RtlKeepsOrder ==
    ASSUME Served, Ordering, RtlStep
    PROVE  Ordering'
<1>1. /\ RtlTypeOK /\ PipeTypeOK /\ InOrder(Stages) /\ Within
      /\ \A n \in PipeNames : Ascending(pipe[n])
      /\ "request_server" \in PipeNames /\ "reply_server" \in PipeNames
  BY DEF Served, TypeOK, Ordering, Within, PipeNames
<1>2. /\ UNCHANGED <<linkVars, hostVars, clientVars, rserverVars>>
      /\ (Counted /\ Fresh)' /\ (Sorted(c2s) /\ Sorted(s2c))'
  BY <1>1 DEF RtlStep, Ordering, Counted, Fresh, hostVars, linkVars, CanOpenClientPipe, Within, Sorted
<1>3. /\ Stages'[1] = Stages[1] /\ Stages'[3] = Stages[3] /\ Stages'[4] = Stages[4]
      /\ Stages'[5] \subseteq Stages[5] /\ Stages'[9] = Stages[9] /\ Stages'[10] = Stages[10]
      /\ Stages'[11] \subseteq Stages[11] /\ Stages'[13] = Stages[13] /\ Stages'[14] = Stages[14]
  BY <1>2, StagesStay DEF hostVars, clientVars, rserverVars, linkVars, Senders
<1>4. CASE DpiRequest
  <2> DEFINE x == PipeFirst("request_server").packet_number
  <2>1. PipeRead("request_server") /\ rtl_rsp' = PipeFirst("request_server")
    BY <1>4 DEF DpiRequest
  <2>2. /\ x \in Numbers(pipe["request_server"])
        /\ Numbers(pipe'["request_server"]) \subseteq Numbers(pipe["request_server"])
        /\ \A b \in Numbers(pipe'["request_server"]) : x <= b
        /\ Ascending(pipe'["request_server"])
        /\ \A m \in PipeNames \ {"request_server"} : pipe'[m] = pipe[m]
    BY <1>1, <2>1, PipeTaken
  <2>3. Stages'[7] \subseteq {x}
    BY <2>1, StagesEmptied
  <2> HIDE DEF x
  <2>4. /\ Stages'[2] = Stages[2] /\ Stages'[12] = Stages[12] /\ Stages'[6] = Stages[6]
    BY <2>2, StagesStay DEF PipeNames
  <2>5. /\ x \in Stages[8] /\ Stages'[8] \subseteq Stages[8] /\ \A b \in Stages'[8] : x <= b
    BY <2>2, StagesAre, StagesAreAfter
  <2>6. PassedTo(7, x)
    BY <1>3, <2>3, <2>4, <2>5 DEF PassedTo
  <2>7. InOrder(Stages)'
    BY <1>1, <2>6, StepsInOrder
  <2>8. Within'
    BY <1>1, <1>2, <2>2 DEF Within
  <2> QED
    BY <1>2, <2>7, <2>8 DEF Ordering
<1>5. CASE DpiStop
  <2>1. PipeRead("request_server") /\ PipeFirst("request_server").packet_number = 0
    BY <1>5 DEF DpiStop
  <2>2. 0 \in Stages[8]
    BY <1>1, <2>1, PipeTaken, StagesAre
  <2> QED
    BY <1>1, <2>2 DEF InOrder
<1>6. CASE DpiRespond
  <2> DEFINE x == rtl_rsp.packet_number
  <2>1. /\ rtl_pc = "respond" /\ rtl_pc' # "respond" /\ PipeWrite("reply_server", ReplyTo(rtl_rsp))
        /\ ReplyTo(rtl_rsp) \in Packet /\ ReplyTo(rtl_rsp).packet_number = x
    BY <1>1, <1>6, PacketFacts DEF DpiRespond, RtlTypeOK, ReplyTo
  <2>2. Stages[7] = {x} /\ Stages'[7] = {}
    BY <2>1, StagesFilled, StagesEmptied
  <2>3. \A a \in Numbers(pipe["reply_server"]) : a <= x
    <3>1. 6 \in 1 .. 13 /\ x \in Stages[6 + 1]
      BY <2>2
    <3>2. \A a \in Stages[6] : a <= x
      BY <1>1, <3>1, Behind
    <3> QED
      BY <3>2, StagesAre
  <2>4. /\ Numbers(pipe'["reply_server"]) = Numbers(pipe["reply_server"]) \cup {x}
        /\ Ascending(pipe'["reply_server"])
        /\ \A m \in PipeNames \ {"reply_server"} : pipe'[m] = pipe[m]
    BY <1>1, <2>1, <2>3, PipePut
  <2> HIDE DEF x
  <2>5. /\ Stages'[6] = Stages[6] \cup {x} /\ Stages'[2] = Stages[2] /\ Stages'[8] = Stages[8]
        /\ Stages'[12] = Stages[12]
    BY <2>4, StagesStay, StagesAre, StagesAreAfter DEF PipeNames
  <2>6. PassedTo(6, x)
    BY <1>3, <2>2, <2>5 DEF PassedTo
  <2>7. InOrder(Stages)'
    BY <1>1, <2>6, StepsInOrder
  <2>8. Within'
    BY <1>1, <1>2, <2>4 DEF Within
  <2> QED
    BY <1>2, <2>7, <2>8 DEF Ordering
<1> QED
  BY <1>4, <1>5, <1>6 DEF RtlStep, RtlNext

\* A cut drops packets.
LEMMA NetworkKeepsOrder ==
    ASSUME Served, Ordering, NetworkStep
    PROVE  Ordering'
<1>1. UNCHANGED <<pipe, hostVars, clientVars, rserverVars, rtlVars>>
  BY DEF NetworkStep
<1>2. PICK k \in Conns : Cut(k)
  BY DEF NetworkStep
<1>3. /\ Sorted(c2s) /\ Sorted(s2c) /\ \A n \in PipeNames : Ascending(pipe[n])
      /\ c2s \in [Conns -> Seq(Packet)] /\ s2c \in [Conns -> Seq(Packet)]
      /\ InOrder(Stages)
  BY DEF Served, TypeOK, LinkTypeOK, Ordering, Within
<1>4. \A j \in Conns : c2s'[j] = c2s[j] \/ c2s'[j] = << >>
  BY <1>2, <1>3, EmptiedIs DEF Cut
<1>5. \A j \in Conns : s2c'[j] = s2c[j] \/ s2c'[j] = << >>
  BY <1>2, <1>3, EmptiedIs DEF Cut
<1>6. /\ Sorted(c2s)' /\ Sorted(s2c)'
      /\ Stages'[4] \subseteq Stages[4] /\ Stages'[10] \subseteq Stages[10]
  BY <1>3, <1>4, <1>5, DroppedInOrder
<1>7. /\ Stages'[1] = Stages[1] /\ Stages'[2] = Stages[2] /\ Stages'[3] = Stages[3]
      /\ Stages'[5] \subseteq Stages[5] /\ Stages'[6] = Stages[6] /\ Stages'[7] = Stages[7]
      /\ Stages'[8] = Stages[8] /\ Stages'[9] = Stages[9] /\ Stages'[11] \subseteq Stages[11]
      /\ Stages'[12] = Stages[12] /\ Stages'[13] = Stages[13] /\ Stages'[14] = Stages[14]
  BY <1>1, StagesStay DEF hostVars, clientVars, rserverVars, rtlVars, Senders
<1>8. NothingNew
  BY <1>6, <1>7 DEF NothingNew
<1>9. InOrder(Stages)'
  BY <1>3, <1>8, StepsInOrder
<1> QED
  BY <1>1, <1>3, <1>6, <1>9 DEF Ordering, Within, Counted, Fresh, CanOpenClientPipe, hostVars

\* The invariant: who is served, one connection after the other, and the order.
OInv == UInv /\ LastOpen /\ Ordering

\* At the start nothing is under way ...
LEMMA OInvInit == UInit => OInv
<1> SUFFICES ASSUME UInit PROVE OInv
  OBVIOUS
<1>1. UInv /\ LastOpen /\ Init
  BY UInvInit, LastOpenInit DEF UInit
<1>2. /\ \A n \in PipeNames : pipe[n] = << >>
      /\ \A k \in Conns : c2s[k] = << >> /\ s2c[k] = << >>
      /\ host_pc = "idle" /\ reply_pkt = ZeroPacket /\ simics_packet_no = 1 /\ host_fds = 0
      /\ Senders(rd) = {} /\ Senders(rt) = {}
      /\ cli_pc # "enqueue" /\ srv_pc # "enqueue" /\ rtl_pc # "respond"
  BY <1>1 DEF Init, PipeInit, LinkInit, HostInit, ClientInit, RServerInit, RtlInit, Senders
<1>3. Counted /\ Fresh
  BY <1>2 DEF Counted, Fresh
<1>4. Ascending(<< >>) /\ Numbers(<< >>) = {}
  BY NumbersOne DEF Ascending
<1>5. Within
  BY <1>2, <1>4 DEF Within, Sorted
<1>6. NumbersOn(s2c) = {} /\ NumbersOn(c2s) = {}
  BY <1>2, <1>4 DEF NumbersOn
<1>7. /\ Returned = << >> /\ One(cli_pc = "enqueue", cli_buf) = << >>
      /\ One(Senders(rt) # {}, rt_buf) = << >> /\ One(rtl_pc = "respond", rtl_rsp) = << >>
      /\ One(srv_pc = "enqueue", srv_buf) = << >> /\ One(Senders(rd) # {}, rd_buf) = << >>
      /\ One(host_pc = "send", send_pkt) = << >>
  BY <1>2 DEF Returned, One
<1>8. \A p \in 1 .. 13 : Stages[p] = {}
  BY <1>2, <1>4, <1>6, <1>7, StagesAre DEF PipeNames
<1>9. Stages[14] \subseteq {1}
  BY <1>2, StagesAre
<1>10. \A p \in 1 .. 14 : p \in 1 .. 13 \/ p = 14
  OBVIOUS
<1>11. InOrder(Stages)
  BY <1>8, <1>9, <1>10 DEF InOrder
<1> QED
  BY <1>1, <1>3, <1>5, <1>11 DEF OInv, Ordering

\* ... and every step keeps the order.
LEMMA OInvNext == OInv /\ [UNext]_uvars => OInv'
<1> SUFFICES ASSUME OInv, [UNext]_uvars PROVE OInv'
  OBVIOUS
<1>1. UInv' /\ LastOpen' /\ Served /\ LastOpen /\ Ordering
  BY UInvNext, LastOpenNext DEF OInv, UInv
<1>2. ASSUME UNCHANGED uvars PROVE Ordering'
  <2>1. Stages' = Stages
    BY <1>2 DEF uvars, vars, linkVars, hostVars, clientVars, rserverVars, rtlVars, Stages, Returned,
       CanOpenClientPipe, Senders, NumbersOn
  <2>2. InOrder(Stages)'
    BY <1>1, <2>1 DEF Ordering, InOrder
  <2> QED
    BY <1>1, <1>2, <2>2 DEF uvars, vars, linkVars, hostVars, Ordering, Counted, Fresh, Within, Sorted,
       CanOpenClientPipe
<1>3. Ordering'
  BY <1>1, <1>2, HostKeepsOrder, ClientKeepsOrder, ServerKeepsOrder, RtlKeepsOrder,
     NetworkKeepsOrder, InterruptedKeepsOrder DEF UNext, Next, OInv
<1> QED
  BY <1>1, <1>3 DEF OInv

\* Whatever the host, the network and the threads do, the stages stay in order.
THEOREM OInvariance == USpec => []OInv
BY OInvInit, OInvNext, PTL DEF USpec

-----------------------------------------------------------------------------
(* From the stages to the path *)

\* The packets on their way up to stage p, the reply the host keeps left out.
Below(p) == UNION {Stages[q] : q \in 2 .. p}

\* A path goes on into the next stage.
LEMMA PathGoesOn ==
    ASSUME InOrder(Stages), NEW p \in 2 .. 12, NEW s \in Seq(Packet), NEW t \in Seq(Packet),
           Ascending(s), Numbers(s) \subseteq Below(p), Ascending(t), Numbers(t) \subseteq Stages[p + 1]
    PROVE  /\ s \o t \in Seq(Packet) /\ Ascending(s \o t)
           /\ Numbers(s \o t) \subseteq Below(p + 1)
<1>1. p + 1 \in 2 .. (p + 1) /\ 2 .. p \subseteq 2 .. (p + 1) /\ 2 .. (p + 1) \subseteq 1 .. 14
  OBVIOUS
<1>2. Below(p) \cup Stages[p + 1] \subseteq Below(p + 1)
  BY <1>1 DEF Below
<1>3. \A a \in Below(p), b \in Stages[p + 1] : a <= b
  <2>1. \A q \in 2 .. p : q \in 1 .. 14 /\ p + 1 \in 1 .. 14 /\ q < p + 1
    OBVIOUS
  <2>2. \A q \in 2 .. p : \A a \in Stages[q], b \in Stages[p + 1] : a <= b
    BY <2>1 DEF InOrder
  <2> QED
    BY <2>2 DEF Below
<1>4. s \o t \in Seq(Packet)
  BY ConcatProperties
<1> QED
  BY <1>2, <1>3, <1>4, ConcatNumbers

\* A place for one packet.
LEMMA OneAscends ==
    ASSUME NEW p \in Packet, NEW c \in BOOLEAN
    PROVE  One(c, p) \in Seq(Packet) /\ Ascending(One(c, p))
<1>1. <<p>> \in Seq(Packet) /\ << >> \in Seq(Packet)
  OBVIOUS
<1>2. Ascending(<< >>) /\ Ascending(<<p>>)
  BY DEF Ascending
<1> QED
  BY <1>1, <1>2 DEF One

\* Everything under way is in order.
LEMMA PathInOrder ==
    ASSUME TypeOK, InOrder(Stages), Within, NEW j \in Conns, NEW k \in Conns
    PROVE  /\ Path(j, k) \in Seq(Packet) /\ Ascending(Path(j, k))
           /\ Numbers(Path(j, k)) \subseteq Below(12)
<1>1. /\ \A n \in PipeNames : pipe[n] \in Seq(Packet) /\ Ascending(pipe[n])
      /\ s2c[j] \in Seq(Packet) /\ Ascending(s2c[j]) /\ Numbers(s2c[j]) \subseteq NumbersOn(s2c)
      /\ c2s[k] \in Seq(Packet) /\ Ascending(c2s[k]) /\ Numbers(c2s[k]) \subseteq NumbersOn(c2s)
      /\ cli_buf \in Packet /\ rt_buf \in Packet /\ rtl_rsp \in Packet /\ srv_buf \in Packet
      /\ rd_buf \in Packet
  BY OnConnection DEF TypeOK, PipeTypeOK, LinkTypeOK, ClientTypeOK, RServerTypeOK, RtlTypeOK, Within, Sorted
<1> DEFINE
      t2 == pipe["reply_client"]
      t3 == One(cli_pc = "enqueue", cli_buf)
      t4 == s2c[j]
      t5 == One(Senders(rt) # {}, rt_buf)
      t6 == pipe["reply_server"]
      t7 == One(rtl_pc = "respond", rtl_rsp)
      t8 == pipe["request_server"]
      t9 == One(srv_pc = "enqueue", srv_buf)
      t10 == c2s[k]
      t11 == One(Senders(rd) # {}, rd_buf)
      t12 == pipe["request_client"]
      Good(p, s) == s \in Seq(Packet) /\ Ascending(s) /\ Numbers(s) \subseteq Below(p)
      Piece(p, t) == t \in Seq(Packet) /\ Ascending(t) /\ Numbers(t) \subseteq Stages[p]
<1>2. Piece(2, t2) /\ Piece(6, t6) /\ Piece(8, t8) /\ Piece(12, t12)
  BY <1>1, StagesAre DEF PipeNames
<1>3. Piece(3, t3) /\ Piece(5, t5) /\ Piece(7, t7) /\ Piece(9, t9) /\ Piece(11, t11)
  BY <1>1, StagesAre, OneAscends
<1>4. Piece(4, t4) /\ Piece(10, t10)
  BY <1>1, StagesAre
<1>5. Path(j, k) = t2 \o t3 \o t4 \o t5 \o t6 \o t7 \o t8 \o t9 \o t10 \o t11 \o t12
  BY DEF Path
<1> HIDE DEF t2, t3, t4, t5, t6, t7, t8, t9, t10, t11, t12
<1>6. Good(2, t2)
  BY <1>2 DEF Below
<1>7. \A p \in 2 .. 12 : \A s, t : Good(p, s) /\ Piece(p + 1, t) => Good(p + 1, s \o t)
  BY PathGoesOn
<1> HIDE DEF Good, Piece
<1>8. Good(3, t2 \o t3)
  BY <1>3, <1>6, <1>7
<1>9. Good(4, t2 \o t3 \o t4)
  BY <1>4, <1>7, <1>8
<1>10. Good(5, t2 \o t3 \o t4 \o t5)
  BY <1>3, <1>7, <1>9
<1>11. Good(6, t2 \o t3 \o t4 \o t5 \o t6)
  BY <1>2, <1>7, <1>10
<1>12. Good(7, t2 \o t3 \o t4 \o t5 \o t6 \o t7)
  BY <1>3, <1>7, <1>11
<1>13. Good(8, t2 \o t3 \o t4 \o t5 \o t6 \o t7 \o t8)
  BY <1>2, <1>7, <1>12
<1>14. Good(9, t2 \o t3 \o t4 \o t5 \o t6 \o t7 \o t8 \o t9)
  BY <1>3, <1>7, <1>13
<1>15. Good(10, t2 \o t3 \o t4 \o t5 \o t6 \o t7 \o t8 \o t9 \o t10)
  BY <1>4, <1>7, <1>14
<1>16. Good(11, t2 \o t3 \o t4 \o t5 \o t6 \o t7 \o t8 \o t9 \o t10 \o t11)
  BY <1>3, <1>7, <1>15
<1>17. Good(12, t2 \o t3 \o t4 \o t5 \o t6 \o t7 \o t8 \o t9 \o t10 \o t11 \o t12)
  BY <1>2, <1>7, <1>16
<1> QED
  BY <1>5, <1>17 DEF Good

\* However threads race, connections break and accesses are given up, no packet
\* overtakes another, out or back.
THEOREM NoneOvertakes == USpec => []NoOvertaking
<1>1. ASSUME OInv PROVE NoOvertaking
  <2>1. TypeOK /\ InOrder(Stages) /\ Within
    BY <1>1 DEF OInv, UInv, Served, Ordering
  <2>2. Returned \in Seq(Packet) /\ Ascending(Returned) /\ Numbers(Returned) = Stages[1]
    BY <2>1, OneAscends, StagesAre DEF Returned, TypeOK, HostTypeOK
  <2>3. ASSUME NEW j \in Conns, NEW k \in Conns
        PROVE  Ascending(Returned \o Path(j, k))
    <3>1. \A b \in Below(12) : \A a \in Stages[1] : a <= b
      <4>1. \A q \in 2 .. 12 : \A a \in Stages[1], b \in Stages[q] : a <= b
        BY <2>1 DEF InOrder
      <4> QED
        BY <4>1 DEF Below
    <3> QED
      BY <2>1, <2>2, <3>1, PathInOrder, ConcatNumbers
  <2>4. ASSUME NEW j \in Conns, NEW k \in Conns, j < k
        PROVE  Ascending(s2c[j] \o s2c[k]) /\ Ascending(c2s[j] \o c2s[k])
    <3>1. /\ s2c[j] \in Seq(Packet) /\ s2c[k] \in Seq(Packet)
          /\ c2s[j] \in Seq(Packet) /\ c2s[k] \in Seq(Packet)
      BY <2>1 DEF TypeOK, LinkTypeOK
    <3> QED
      BY <2>1, <2>4, <3>1, ConcatNumbers DEF Within, Sorted
  <2> QED
    BY <2>3, <2>4 DEF NoOvertaking
<1> QED
  BY <1>1, OInvariance, PTL

-----------------------------------------------------------------------------
(* What is owed, piece by piece *)

\* The pieces of a path, one after the other.
Glue(t) == t[1] \o t[2] \o t[3] \o t[4] \o t[5] \o t[6] \o t[7] \o t[8] \o t[9] \o t[10] \o t[11]

\* Each is a sequence of packets.
IsPieces(t) == \A i \in 1 .. 11 : t[i] \in Seq(Packet)

\* What crosses from one piece into the next stays where it is in the whole.
LEMMA GlueMoved ==
    ASSUME NEW s, NEW t, IsPieces(s), IsPieces(t), NEW p \in 1 .. 10,
           t[p] \o t[p + 1] = s[p] \o s[p + 1],
           \A q \in 1 .. 11 : q # p /\ q # p + 1 => t[q] = s[q]
    PROVE  Glue(t) = Glue(s)
<1> DEFINE a1 == s[1]
           a2 == a1 \o s[2]
           a3 == a2 \o s[3]
           a4 == a3 \o s[4]
           a5 == a4 \o s[5]
           a6 == a5 \o s[6]
           a7 == a6 \o s[7]
           a8 == a7 \o s[8]
           a9 == a8 \o s[9]
           a10 == a9 \o s[10]
           a11 == a10 \o s[11]
           b1 == t[1]
           b2 == b1 \o t[2]
           b3 == b2 \o t[3]
           b4 == b3 \o t[4]
           b5 == b4 \o t[5]
           b6 == b5 \o t[6]
           b7 == b6 \o t[7]
           b8 == b7 \o t[8]
           b9 == b8 \o t[9]
           b10 == b9 \o t[10]
           b11 == b10 \o t[11]
<1>1. \A q \in 1 .. 11 : s[q] \in Seq(Packet) /\ t[q] \in Seq(Packet)
  BY DEF IsPieces
<1>2. a11 = Glue(s) /\ b11 = Glue(t)
  BY DEF Glue
<1>3. /\ a1 \in Seq(Packet) /\ a2 \in Seq(Packet) /\ a3 \in Seq(Packet) /\ a4 \in Seq(Packet)
      /\ a5 \in Seq(Packet) /\ a6 \in Seq(Packet) /\ a7 \in Seq(Packet) /\ a8 \in Seq(Packet)
      /\ a9 \in Seq(Packet) /\ a10 \in Seq(Packet)
  BY <1>1, ConcatProperties
<1>4. /\ a2 = a1 \o s[2] /\ b2 = b1 \o t[2]
      /\ a3 = a2 \o s[3] /\ b3 = b2 \o t[3]
      /\ a4 = a3 \o s[4] /\ b4 = b3 \o t[4]
      /\ a5 = a4 \o s[5] /\ b5 = b4 \o t[5]
      /\ a6 = a5 \o s[6] /\ b6 = b5 \o t[6]
      /\ a7 = a6 \o s[7] /\ b7 = b6 \o t[7]
      /\ a8 = a7 \o s[8] /\ b8 = b7 \o t[8]
      /\ a9 = a8 \o s[9] /\ b9 = b8 \o t[9]
      /\ a10 = a9 \o s[10] /\ b10 = b9 \o t[10]
      /\ a11 = a10 \o s[11] /\ b11 = b10 \o t[11]
  OBVIOUS
<1>5. a1 = s[1] /\ b1 = t[1]
  OBVIOUS
<1> HIDE DEF a1, a2, a3, a4, a5, a6, a7, a8, a9, a10, a11, b1, b2, b3, b4, b5, b6, b7, b8, b9, b10, b11
<1>6. ASSUME NEW a \in Seq(Packet)
      PROVE  a \o t[p] \o t[p + 1] = a \o s[p] \o s[p + 1]
  <2>1. /\ s[p] \in Seq(Packet) /\ s[p + 1] \in Seq(Packet)
        /\ t[p] \in Seq(Packet) /\ t[p + 1] \in Seq(Packet)
    <3>1. p \in 1 .. 11 /\ p + 1 \in 1 .. 11
      OBVIOUS
    <3> QED
      BY <1>1, <3>1, Zenon
  <2>2. a \o t[p] \o t[p + 1] = a \o (t[p] \o t[p + 1])
    BY <2>1, EitherEnd, Zenon
  <2>3. a \o s[p] \o s[p + 1] = a \o (s[p] \o s[p + 1])
    BY <2>1, EitherEnd, Zenon
  <2> QED
    BY <2>2, <2>3
<1>7. CASE p = 1
  <2>1. /\ t[3] = s[3] /\ t[4] = s[4] /\ t[5] = s[5] /\ t[6] = s[6] /\ t[7] = s[7]
        /\ t[8] = s[8] /\ t[9] = s[9] /\ t[10] = s[10] /\ t[11] = s[11]
    BY <1>7
  <2>2. p + 1 = 2
    BY <1>7
  <2>3. b2 = a2
    BY <1>4, <1>5, <1>7, <2>2, Zenon
  <2> QED
    BY <1>2, <1>4, <1>5, <2>1, <2>3
<1>8. CASE p = 2
  <2>1. /\ t[1] = s[1] /\ t[4] = s[4] /\ t[5] = s[5] /\ t[6] = s[6] /\ t[7] = s[7]
        /\ t[8] = s[8] /\ t[9] = s[9] /\ t[10] = s[10] /\ t[11] = s[11]
    BY <1>8
  <2>2. p + 1 = 3
    BY <1>8
  <2>3. a1 \o t[2] \o t[3] = a1 \o s[2] \o s[3]
    BY <1>3, <1>6, <1>8, <2>2, Zenon
  <2> QED
    BY <1>2, <1>4, <1>5, <2>1, <2>3
<1>9. CASE p = 3
  <2>1. /\ t[1] = s[1] /\ t[2] = s[2] /\ t[5] = s[5] /\ t[6] = s[6] /\ t[7] = s[7]
        /\ t[8] = s[8] /\ t[9] = s[9] /\ t[10] = s[10] /\ t[11] = s[11]
    BY <1>9
  <2>2. p + 1 = 4
    BY <1>9
  <2>3. a2 \o t[3] \o t[4] = a2 \o s[3] \o s[4]
    BY <1>3, <1>6, <1>9, <2>2, Zenon
  <2> QED
    BY <1>2, <1>4, <1>5, <2>1, <2>3
<1>10. CASE p = 4
  <2>1. /\ t[1] = s[1] /\ t[2] = s[2] /\ t[3] = s[3] /\ t[6] = s[6] /\ t[7] = s[7]
        /\ t[8] = s[8] /\ t[9] = s[9] /\ t[10] = s[10] /\ t[11] = s[11]
    BY <1>10
  <2>2. p + 1 = 5
    BY <1>10
  <2>3. a3 \o t[4] \o t[5] = a3 \o s[4] \o s[5]
    BY <1>3, <1>6, <1>10, <2>2, Zenon
  <2> QED
    BY <1>2, <1>4, <1>5, <2>1, <2>3
<1>11. CASE p = 5
  <2>1. /\ t[1] = s[1] /\ t[2] = s[2] /\ t[3] = s[3] /\ t[4] = s[4] /\ t[7] = s[7]
        /\ t[8] = s[8] /\ t[9] = s[9] /\ t[10] = s[10] /\ t[11] = s[11]
    BY <1>11
  <2>2. p + 1 = 6
    BY <1>11
  <2>3. a4 \o t[5] \o t[6] = a4 \o s[5] \o s[6]
    BY <1>3, <1>6, <1>11, <2>2, Zenon
  <2> QED
    BY <1>2, <1>4, <1>5, <2>1, <2>3
<1>12. CASE p = 6
  <2>1. /\ t[1] = s[1] /\ t[2] = s[2] /\ t[3] = s[3] /\ t[4] = s[4] /\ t[5] = s[5]
        /\ t[8] = s[8] /\ t[9] = s[9] /\ t[10] = s[10] /\ t[11] = s[11]
    BY <1>12
  <2>2. p + 1 = 7
    BY <1>12
  <2>3. a5 \o t[6] \o t[7] = a5 \o s[6] \o s[7]
    BY <1>3, <1>6, <1>12, <2>2, Zenon
  <2> QED
    BY <1>2, <1>4, <1>5, <2>1, <2>3
<1>13. CASE p = 7
  <2>1. /\ t[1] = s[1] /\ t[2] = s[2] /\ t[3] = s[3] /\ t[4] = s[4] /\ t[5] = s[5]
        /\ t[6] = s[6] /\ t[9] = s[9] /\ t[10] = s[10] /\ t[11] = s[11]
    BY <1>13
  <2>2. p + 1 = 8
    BY <1>13
  <2>3. a6 \o t[7] \o t[8] = a6 \o s[7] \o s[8]
    BY <1>3, <1>6, <1>13, <2>2, Zenon
  <2> QED
    BY <1>2, <1>4, <1>5, <2>1, <2>3
<1>14. CASE p = 8
  <2>1. /\ t[1] = s[1] /\ t[2] = s[2] /\ t[3] = s[3] /\ t[4] = s[4] /\ t[5] = s[5]
        /\ t[6] = s[6] /\ t[7] = s[7] /\ t[10] = s[10] /\ t[11] = s[11]
    BY <1>14
  <2>2. p + 1 = 9
    BY <1>14
  <2>3. a7 \o t[8] \o t[9] = a7 \o s[8] \o s[9]
    BY <1>3, <1>6, <1>14, <2>2, Zenon
  <2> QED
    BY <1>2, <1>4, <1>5, <2>1, <2>3
<1>15. CASE p = 9
  <2>1. /\ t[1] = s[1] /\ t[2] = s[2] /\ t[3] = s[3] /\ t[4] = s[4] /\ t[5] = s[5]
        /\ t[6] = s[6] /\ t[7] = s[7] /\ t[8] = s[8] /\ t[11] = s[11]
    BY <1>15
  <2>2. p + 1 = 10
    BY <1>15
  <2>3. a8 \o t[9] \o t[10] = a8 \o s[9] \o s[10]
    BY <1>3, <1>6, <1>15, <2>2, Zenon
  <2> QED
    BY <1>2, <1>4, <1>5, <2>1, <2>3
<1>16. CASE p = 10
  <2>1. /\ t[1] = s[1] /\ t[2] = s[2] /\ t[3] = s[3] /\ t[4] = s[4] /\ t[5] = s[5]
        /\ t[6] = s[6] /\ t[7] = s[7] /\ t[8] = s[8] /\ t[9] = s[9]
    BY <1>16
  <2>2. p + 1 = 11
    BY <1>16
  <2>3. a9 \o t[10] \o t[11] = a9 \o s[10] \o s[11]
    BY <1>3, <1>6, <1>16, <2>2, Zenon
  <2> QED
    BY <1>2, <1>4, <1>5, <2>1, <2>3
<1> QED
  BY <1>7, <1>8, <1>9, <1>10, <1>11, <1>12, <1>13, <1>14, <1>15, <1>16

\* What the host sends is owed last ...
LEMMA GlueLonger ==
    ASSUME NEW s, NEW t, IsPieces(s), NEW x \in Packet, t[11] = s[11] \o <<x>>,
           \A q \in 1 .. 10 : t[q] = s[q]
    PROVE  Glue(t) = Append(Glue(s), x)
<1> DEFINE u == s[1] \o s[2] \o s[3] \o s[4] \o s[5] \o s[6] \o s[7] \o s[8] \o s[9] \o s[10]
<1>1. /\ s[1] \in Seq(Packet) /\ s[2] \in Seq(Packet) /\ s[3] \in Seq(Packet) /\ s[4] \in Seq(Packet)
      /\ s[5] \in Seq(Packet) /\ s[6] \in Seq(Packet) /\ s[7] \in Seq(Packet) /\ s[8] \in Seq(Packet)
      /\ s[9] \in Seq(Packet) /\ s[10] \in Seq(Packet) /\ s[11] \in Seq(Packet)
  BY DEF IsPieces
<1>2. u \in Seq(Packet) /\ <<x>> \in Seq(Packet)
  BY <1>1, ConcatProperties
<1>3. Glue(s) = u \o s[11]
  BY DEF Glue
<1>4. Glue(t) = u \o (s[11] \o <<x>>)
  <2>1. t[1] = s[1] /\ t[2] = s[2] /\ t[3] = s[3] /\ t[4] = s[4] /\ t[5] = s[5] /\ t[6] = s[6]
        /\ t[7] = s[7] /\ t[8] = s[8] /\ t[9] = s[9] /\ t[10] = s[10]
    OBVIOUS
  <2> QED
    BY <2>1 DEF Glue
<1> HIDE DEF u
<1>5. u \o s[11] \o <<x>> = u \o (s[11] \o <<x>>)
  <2>1. s[11] \in Seq(Packet) /\ u \in Seq(Packet) /\ <<x>> \in Seq(Packet)
    BY <1>1, <1>2
  <2> QED
    BY <2>1, EitherEnd, Zenon
<1>6. u \o s[11] \in Seq(Packet)
  BY <1>1, <1>2, ConcatProperties
<1>7. Append(u \o s[11], x) = u \o s[11] \o <<x>>
  BY <1>6, AppendIsConcat
<1> QED
  BY <1>3, <1>4, <1>5, <1>7

\* ... and what it takes is owed longest.
LEMMA GlueShorter ==
    ASSUME NEW s, NEW t, IsPieces(s), s[1] # << >>, t[1] = Tail(s[1]),
           \A q \in 2 .. 11 : t[q] = s[q]
    PROVE  Glue(s) # << >> /\ Head(Glue(s)) = Head(s[1]) /\ Glue(t) = Tail(Glue(s))
<1> DEFINE More(u, v) == /\ u \in Seq(Packet) /\ u # << >> /\ Head(u) = Head(s[1]) /\ v = Tail(u)
<1>1. /\ s[1] \in Seq(Packet) /\ s[2] \in Seq(Packet) /\ s[3] \in Seq(Packet) /\ s[4] \in Seq(Packet)
      /\ s[5] \in Seq(Packet) /\ s[6] \in Seq(Packet) /\ s[7] \in Seq(Packet) /\ s[8] \in Seq(Packet)
      /\ s[9] \in Seq(Packet) /\ s[10] \in Seq(Packet) /\ s[11] \in Seq(Packet)
  BY DEF IsPieces
<1>2. t[2] = s[2] /\ t[3] = s[3] /\ t[4] = s[4] /\ t[5] = s[5] /\ t[6] = s[6]
      /\ t[7] = s[7] /\ t[8] = s[8] /\ t[9] = s[9] /\ t[10] = s[10] /\ t[11] = s[11]
  OBVIOUS
<1>3. ASSUME NEW u, NEW v, NEW w \in Seq(Packet), More(u, v) PROVE More(u \o w, v \o w)
  BY <1>3, HeadTailConcat, ConcatProperties
<1>4. More(s[1], t[1])
  BY <1>1
<1> HIDE DEF More
<1>5. More(s[1] \o s[2], t[1] \o s[2])
  BY <1>1, <1>3, <1>4
<1>6. More(s[1] \o s[2] \o s[3], t[1] \o s[2] \o s[3])
  BY <1>1, <1>3, <1>5
<1>7. More(s[1] \o s[2] \o s[3] \o s[4], t[1] \o s[2] \o s[3] \o s[4])
  BY <1>1, <1>3, <1>6
<1>8. More(s[1] \o s[2] \o s[3] \o s[4] \o s[5], t[1] \o s[2] \o s[3] \o s[4] \o s[5])
  BY <1>1, <1>3, <1>7
<1>9. More(s[1] \o s[2] \o s[3] \o s[4] \o s[5] \o s[6],
           t[1] \o s[2] \o s[3] \o s[4] \o s[5] \o s[6])
  BY <1>1, <1>3, <1>8
<1>10. More(s[1] \o s[2] \o s[3] \o s[4] \o s[5] \o s[6] \o s[7],
            t[1] \o s[2] \o s[3] \o s[4] \o s[5] \o s[6] \o s[7])
  BY <1>1, <1>3, <1>9
<1>11. More(s[1] \o s[2] \o s[3] \o s[4] \o s[5] \o s[6] \o s[7] \o s[8],
            t[1] \o s[2] \o s[3] \o s[4] \o s[5] \o s[6] \o s[7] \o s[8])
  BY <1>1, <1>3, <1>10
<1>12. More(s[1] \o s[2] \o s[3] \o s[4] \o s[5] \o s[6] \o s[7] \o s[8] \o s[9],
            t[1] \o s[2] \o s[3] \o s[4] \o s[5] \o s[6] \o s[7] \o s[8] \o s[9])
  BY <1>1, <1>3, <1>11
<1>13. More(s[1] \o s[2] \o s[3] \o s[4] \o s[5] \o s[6] \o s[7] \o s[8] \o s[9] \o s[10],
            t[1] \o s[2] \o s[3] \o s[4] \o s[5] \o s[6] \o s[7] \o s[8] \o s[9] \o s[10])
  BY <1>1, <1>3, <1>12
<1>14. More(Glue(s), Glue(t))
  BY <1>1, <1>2, <1>3, <1>13 DEF Glue
<1> QED
  BY <1>14 DEF More

\* Every packet of a path as its reply is every piece of it as replies.
LEMMA GlueAsReplies ==
    ASSUME NEW s, NEW t, IsPieces(s), \A i \in 1 .. 11 : t[i] = AsReplies(s[i])
    PROVE  AsReplies(Glue(s)) = Glue(t)
<1> DEFINE Same(u, v) == u \in Seq(Packet) /\ AsReplies(u) = v
<1>1. /\ s[1] \in Seq(Packet) /\ s[2] \in Seq(Packet) /\ s[3] \in Seq(Packet) /\ s[4] \in Seq(Packet)
      /\ s[5] \in Seq(Packet) /\ s[6] \in Seq(Packet) /\ s[7] \in Seq(Packet) /\ s[8] \in Seq(Packet)
      /\ s[9] \in Seq(Packet) /\ s[10] \in Seq(Packet) /\ s[11] \in Seq(Packet)
  BY DEF IsPieces
<1>2. /\ t[1] = AsReplies(s[1]) /\ t[2] = AsReplies(s[2]) /\ t[3] = AsReplies(s[3])
      /\ t[4] = AsReplies(s[4]) /\ t[5] = AsReplies(s[5]) /\ t[6] = AsReplies(s[6])
      /\ t[7] = AsReplies(s[7]) /\ t[8] = AsReplies(s[8]) /\ t[9] = AsReplies(s[9])
      /\ t[10] = AsReplies(s[10]) /\ t[11] = AsReplies(s[11])
  OBVIOUS
<1>3. ASSUME NEW u, NEW v, NEW w \in Seq(Packet), Same(u, v) PROVE Same(u \o w, v \o AsReplies(w))
  BY <1>3, AsRepliesConcat, ConcatProperties
<1>4. Same(s[1], t[1])
  BY <1>1, <1>2
<1> HIDE DEF Same
<1>5. Same(s[1] \o s[2], t[1] \o t[2])
  BY <1>1, <1>2, <1>3, <1>4
<1>6. Same(s[1] \o s[2] \o s[3], t[1] \o t[2] \o t[3])
  BY <1>1, <1>2, <1>3, <1>5
<1>7. Same(s[1] \o s[2] \o s[3] \o s[4], t[1] \o t[2] \o t[3] \o t[4])
  BY <1>1, <1>2, <1>3, <1>6
<1>8. Same(s[1] \o s[2] \o s[3] \o s[4] \o s[5], t[1] \o t[2] \o t[3] \o t[4] \o t[5])
  BY <1>1, <1>2, <1>3, <1>7
<1>9. Same(s[1] \o s[2] \o s[3] \o s[4] \o s[5] \o s[6],
           t[1] \o t[2] \o t[3] \o t[4] \o t[5] \o t[6])
  BY <1>1, <1>2, <1>3, <1>8
<1>10. Same(s[1] \o s[2] \o s[3] \o s[4] \o s[5] \o s[6] \o s[7],
            t[1] \o t[2] \o t[3] \o t[4] \o t[5] \o t[6] \o t[7])
  BY <1>1, <1>2, <1>3, <1>9
<1>11. Same(s[1] \o s[2] \o s[3] \o s[4] \o s[5] \o s[6] \o s[7] \o s[8],
            t[1] \o t[2] \o t[3] \o t[4] \o t[5] \o t[6] \o t[7] \o t[8])
  BY <1>1, <1>2, <1>3, <1>10
<1>12. Same(s[1] \o s[2] \o s[3] \o s[4] \o s[5] \o s[6] \o s[7] \o s[8] \o s[9],
            t[1] \o t[2] \o t[3] \o t[4] \o t[5] \o t[6] \o t[7] \o t[8] \o t[9])
  BY <1>1, <1>2, <1>3, <1>11
<1>13. Same(s[1] \o s[2] \o s[3] \o s[4] \o s[5] \o s[6] \o s[7] \o s[8] \o s[9] \o s[10],
            t[1] \o t[2] \o t[3] \o t[4] \o t[5] \o t[6] \o t[7] \o t[8] \o t[9] \o t[10])
  BY <1>1, <1>2, <1>3, <1>12
<1>14. Same(Glue(s), Glue(t))
  BY <1>1, <1>2, <1>3, <1>13 DEF Glue
<1> QED
  BY <1>14 DEF Same

-----------------------------------------------------------------------------
(* Until the network fails *)

\* Until the network fails there is one connection, with one thread at each end of it.
Early == Served /\ Undisturbed

\* The places of the path on that connection, in their order.
Places == << pipe["reply_client"],
             One(cli_pc = "enqueue", cli_buf),
             s2c[1],
             One(Senders(rt) # {}, rt_buf),
             pipe["reply_server"],
             One(rtl_pc = "respond", rtl_rsp),
             pipe["request_server"],
             One(srv_pc = "enqueue", srv_buf),
             c2s[1],
             One(Senders(rd) # {}, rd_buf),
             pipe["request_client"] >>

\* What is owed for each of them.
Pieces == [i \in 1 .. 11 |-> AsReplies(Places[i])]

\* Which connection and which threads these are.
LEMMA OneConnection ==
    ASSUME Early
    PROVE  /\ 1 \in Conns
           /\ cli_sock = "connected" => nconn = 1
           /\ ClientSockOpen => accepted = 1
           /\ \A k \in Conns : rd[k] # "none" => k = 1
           /\ \A k \in Conns : rt[k] # "none" => k = 1
           /\ cli_pc = "connect" => \A k \in Conns : rd[k] = "none"
           /\ srv_pc = "accept" => \A k \in Conns : rt[k] = "none"
<1>1. /\ TypeOK /\ Conns \subseteq Nat \ {0} /\ nconn \in Nat /\ accepted \in Nat
      /\ accepted <= nconn /\ nconn <= 1
  BY ConnFacts, OpenConns DEF Early, Served, Undisturbed
<1>2. 1 \in Conns
  BY ConnFacts, TcpAssumption
<1>3. /\ cli_sock = "connected" => nconn = 1
      /\ ClientSockOpen => accepted = 1
  BY <1>1 DEF Early, Served, ClientServed, ServerServed
<1>4. /\ \A k \in Conns : rd[k] # "none" => k <= nconn
      /\ \A k \in Conns : rt[k] # "none" => k <= accepted
  BY DEF Early, Served, Spawned
<1>5. cli_pc = "connect" => nconn = 0
  BY DEF Early, Undisturbed
<1>6. srv_pc = "accept" => accepted = 0
  BY DEF Early, Undisturbed
<1> QED
  BY <1>1, <1>2, <1>3, <1>4, <1>5, <1>6

\* A thread that holds a packet is that of the one connection.
LEMMA OneThread ==
    Early => /\ (Senders(rd) # {}) = (rd[1] = "send")
             /\ (Senders(rt) # {}) = (rt[1] = "send")
<1> SUFFICES ASSUME Early
             PROVE  /\ (Senders(rd) # {}) = (rd[1] = "send")
                    /\ (Senders(rt) # {}) = (rt[1] = "send")
  OBVIOUS
<1>1. 1 \in Conns /\ (\A k \in Conns : rd[k] # "none" => k = 1) /\ (\A k \in Conns : rt[k] # "none" => k = 1)
  BY OneConnection
<1>2. Senders(rd) # {} <=> rd[1] = "send"
  BY <1>1 DEF Senders
<1>3. Senders(rt) # {} <=> rt[1] = "send"
  BY <1>1 DEF Senders
<1> QED
  BY <1>2, <1>3

\* Which is which.
LEMMA PlacesAre ==
    Early => /\ Places[1] = pipe["reply_client"]
             /\ Places[2] = One(cli_pc = "enqueue", cli_buf)
             /\ Places[3] = s2c[1]
             /\ Places[4] = One(rt[1] = "send", rt_buf)
             /\ Places[5] = pipe["reply_server"]
             /\ Places[6] = One(rtl_pc = "respond", rtl_rsp)
             /\ Places[7] = pipe["request_server"]
             /\ Places[8] = One(srv_pc = "enqueue", srv_buf)
             /\ Places[9] = c2s[1]
             /\ Places[10] = One(rd[1] = "send", rd_buf)
             /\ Places[11] = pipe["request_client"]
BY OneThread DEF Places

\* The same of the state after a step.
LEMMA PlacesAreAfter == PlacesAre!:'
BY PlacesAre, PTL

\* They hold packets, and what they owe is what is owed.
LEMMA OwingIsGlue ==
    Early => /\ \A i \in 1 .. 11 : Places[i] \in Seq(Packet) /\ Pieces[i] = AsReplies(Places[i])
             /\ IsPieces(Pieces)
             /\ Owing = Glue(Pieces)
<1> SUFFICES ASSUME Early
             PROVE  /\ \A i \in 1 .. 11 : Places[i] \in Seq(Packet) /\ Pieces[i] = AsReplies(Places[i])
                    /\ IsPieces(Pieces)
                    /\ Owing = Glue(Pieces)
  OBVIOUS
<1>1. TypeOK /\ 1 \in Conns
  BY OneConnection DEF Early, Served
<1>2. /\ \A n \in PipeNames : pipe[n] \in Seq(Packet)
      /\ s2c[1] \in Seq(Packet) /\ c2s[1] \in Seq(Packet)
      /\ cli_buf \in Packet /\ rt_buf \in Packet /\ rtl_rsp \in Packet /\ srv_buf \in Packet
      /\ rd_buf \in Packet
  BY <1>1 DEF TypeOK, PipeTypeOK, LinkTypeOK, ClientTypeOK, RServerTypeOK, RtlTypeOK
<1>3. \A i \in 1 .. 11 : Places[i] \in Seq(Packet)
  <2>1. /\ Places[1] \in Seq(Packet) /\ Places[5] \in Seq(Packet)
        /\ Places[7] \in Seq(Packet) /\ Places[11] \in Seq(Packet)
    BY <1>2, PlacesAre DEF PipeNames
  <2>2. Places[3] \in Seq(Packet) /\ Places[9] \in Seq(Packet)
    BY <1>2, PlacesAre
  <2>3. /\ Places[2] \in Seq(Packet) /\ Places[4] \in Seq(Packet) /\ Places[6] \in Seq(Packet)
        /\ Places[8] \in Seq(Packet) /\ Places[10] \in Seq(Packet)
    BY <1>2, PlacesAre, OneAscends
  <2>4. \A i \in 1 .. 11 : i \in {1, 2, 3, 4, 5, 6, 7, 8, 9, 10, 11}
    OBVIOUS
  <2> QED
    BY <2>1, <2>2, <2>3, <2>4, Zenon
<1>4. \A i \in 1 .. 11 : Pieces[i] = AsReplies(Places[i])
  BY DEF Pieces
<1>5. IsPieces(Places) /\ IsPieces(Pieces)
  BY <1>3, <1>4, AsRepliesElements DEF IsPieces
<1>6. Path(1, 1) = Glue(Places)
  BY DEF Path, Glue, Places
<1>7. Owing = AsReplies(Glue(Places))
  BY <1>6 DEF Owing, AsReplies
<1> QED
  BY <1>3, <1>4, <1>5, <1>7, GlueAsReplies

\* The same of the state after a step.
LEMMA OwingIsGlueAfter == OwingIsGlue!:'
BY OwingIsGlue, PTL

\* A packet moves from one place to the next, as the reply to it or not.
Moved(p, r) ==
    /\ AsReplies(Places'[p]) \o AsReplies(Places'[r]) = AsReplies(Places[p]) \o AsReplies(Places[r])
    /\ \A q \in 1 .. 11 : q # p /\ q # r => Places'[q] = Places[q]

\* A step that moves a packet on leaves what is owed as it was ...
LEMMA OwingMoved ==
    ASSUME Early, Early', NEW p \in 1 .. 10, Moved(p, p + 1)
    PROVE  Owing' = Owing
<1>1. p \in 1 .. 11 /\ p + 1 \in 1 .. 11
  OBVIOUS
<1>2. /\ \A i \in 1 .. 11 : Pieces[i] = AsReplies(Places[i]) /\ Pieces'[i] = AsReplies(Places'[i])
      /\ IsPieces(Pieces) /\ IsPieces(Pieces')
      /\ Owing = Glue(Pieces) /\ Owing' = Glue(Pieces')
  BY OwingIsGlue, OwingIsGlueAfter DEF IsPieces, Glue
<1>3. Pieces'[p] \o Pieces'[p + 1] = Pieces[p] \o Pieces[p + 1]
  BY <1>1, <1>2 DEF Moved
<1>4. \A q \in 1 .. 11 : q # p /\ q # p + 1 => Pieces'[q] = Pieces[q]
  BY <1>2 DEF Moved
<1> QED
  BY <1>2, <1>3, <1>4, GlueMoved

\* ... wherever that is ...
LEMMA OwingMovedAt ==
    ASSUME Early, Early'
    PROVE  /\ Moved(1, 2) \/ Moved(2, 3) \/ Moved(3, 4) \/ Moved(4, 5) \/ Moved(5, 6) => Owing' = Owing
           /\ Moved(6, 7) \/ Moved(7, 8) \/ Moved(8, 9) \/ Moved(9, 10) \/ Moved(10, 11) => Owing' = Owing
<1>1. ASSUME NEW p \in 1 .. 10, NEW r, r = p + 1, Moved(p, r) PROVE Owing' = Owing
  BY <1>1, OwingMoved
<1> QED
  BY <1>1

\* ... and so does one that moves none.
LEMMA OwingSame ==
    ASSUME Early, Early', \A q \in 1 .. 11 : Places'[q] = Places[q]
    PROVE  Owing' = Owing
BY OwingMovedAt DEF Moved

\* A place is as before when its variables are, or when no packet is there.
LEMMA PlacesStay ==
    ASSUME Early, Early'
    PROVE  /\ pipe'["reply_client"] = pipe["reply_client"] => Places'[1] = Places[1]
           /\ UNCHANGED <<cli_pc, cli_buf>> => Places'[2] = Places[2]
           /\ s2c'[1] = s2c[1] => Places'[3] = Places[3]
           /\ UNCHANGED <<rt, rt_buf>> => Places'[4] = Places[4]
           /\ pipe'["reply_server"] = pipe["reply_server"] => Places'[5] = Places[5]
           /\ UNCHANGED <<rtl_pc, rtl_rsp>> => Places'[6] = Places[6]
           /\ pipe'["request_server"] = pipe["request_server"] => Places'[7] = Places[7]
           /\ UNCHANGED <<srv_pc, srv_buf>> => Places'[8] = Places[8]
           /\ c2s'[1] = c2s[1] => Places'[9] = Places[9]
           /\ UNCHANGED <<rd, rd_buf>> => Places'[10] = Places[10]
           /\ pipe'["request_client"] = pipe["request_client"] => Places'[11] = Places[11]
BY PlacesAre, PlacesAreAfter

\* The client moves packets on.
LEMMA ClientKeepsOwing ==
    ASSUME Early, Early', ClientStep, ~CliRecvShort
    PROVE  Owing' = Owing
<1>1. /\ UNCHANGED <<rt, rt_buf, rtl_pc, rtl_rsp, srv_pc, srv_buf>>
  BY DEF ClientStep, rserverVars, rtlVars
<1>2. /\ PipeTypeOK /\ LinkTypeOK /\ ClientTypeOK /\ TypeOK /\ ClientServed
  BY DEF Early, Served, TypeOK
<1>3. /\ 1 \in Conns /\ (cli_sock = "connected" => nconn = 1)
      /\ (\A k \in Conns : rd[k] # "none" => k = 1)
      /\ (cli_pc = "connect" => \A k \in Conns : rd[k] = "none")
      /\ s2c[1] \in Seq(Packet) /\ c2s[1] \in Seq(Packet) /\ rd_buf \in Packet /\ cli_buf \in Packet
      /\ rd \in [Conns -> {"none", "check", "read", "send", "confirm", "gone"}]
  BY <1>2, OneConnection DEF LinkTypeOK, ClientTypeOK
<1>4. Places'[4] = Places[4] /\ Places'[6] = Places[6] /\ Places'[8] = Places[8]
  BY <1>1, PlacesStay
<1>5. CASE CliConnect
  <2>1. /\ UNCHANGED <<pipe, c2s, s2c>> /\ cli_pc # "enqueue" /\ cli_pc' # "enqueue"
        /\ nconn = 0 /\ rd[1] # "send" /\ rd'[1] # "send"
    BY <1>3, <1>5 DEF CliConnect, Early, Undisturbed
  <2>2. Places'[2] = Places[2] /\ Places'[10] = Places[10]
    BY <2>1, PlacesAre, PlacesAreAfter DEF One
  <2>3. /\ Places'[1] = Places[1] /\ Places'[3] = Places[3] /\ Places'[5] = Places[5]
        /\ Places'[7] = Places[7] /\ Places'[9] = Places[9] /\ Places'[11] = Places[11]
    BY <2>1, PlacesStay
  <2> QED
    BY <1>4, <2>2, <2>3, OwingSame
<1>6. CASE CliRecv
  <2>1. /\ nconn = 1 /\ s2c[1] # << >> /\ cli_buf' = Head(s2c[1]) /\ s2c'[1] = Tail(s2c[1])
        /\ cli_pc # "enqueue" /\ cli_pc' = "enqueue" /\ UNCHANGED <<pipe, c2s, rd, rd_buf>>
    BY <1>2, <1>3, <1>6 DEF CliRecv, ClientServed, LinkTypeOK
  <2>2. /\ Places[2] = << >> /\ Places'[2] = <<Head(s2c[1])>>
        /\ Places[3] = s2c[1] /\ Places'[3] = Tail(s2c[1])
    BY <2>1, PlacesAre, PlacesAreAfter DEF One
  <2>3. AsReplies(Places'[2]) \o AsReplies(Places'[3]) = AsReplies(Places[2]) \o AsReplies(Places[3])
    BY <1>3, <2>1, <2>2, TakenInPlace
  <2>4. /\ Places'[1] = Places[1] /\ Places'[5] = Places[5] /\ Places'[7] = Places[7]
        /\ Places'[9] = Places[9] /\ Places'[10] = Places[10] /\ Places'[11] = Places[11]
    BY <2>1, PlacesStay
  <2>5. Moved(2, 3)
    BY <1>4, <2>3, <2>4 DEF Moved
  <2> QED
    BY <2>5, OwingMovedAt
<1>7. CASE CliEnqueue
  <2>1. /\ PipeWrite("reply_client", cli_buf) /\ "reply_client" \in PipeNames
        /\ cli_pc = "enqueue" /\ cli_pc' # "enqueue" /\ UNCHANGED <<c2s, s2c, rd, rd_buf, cli_buf>>
    BY <1>7 DEF CliEnqueue, PipeNames, linkVars
  <2>2. /\ AsReplies(pipe'["reply_client"]) \o AsReplies(One(FALSE, cli_buf))
           = AsReplies(pipe["reply_client"]) \o AsReplies(One(TRUE, cli_buf))
        /\ \A m \in PipeNames \ {"reply_client"} : pipe'[m] = pipe[m]
    BY <1>2, <1>3, <2>1, WriteInPlace
  <2>3. /\ Places[2] = One(TRUE, cli_buf) /\ Places'[2] = One(FALSE, cli_buf)
        /\ Places[1] = pipe["reply_client"] /\ Places'[1] = pipe'["reply_client"]
    BY <2>1, PlacesAre, PlacesAreAfter DEF One
  <2>4. /\ Places'[3] = Places[3] /\ Places'[5] = Places[5] /\ Places'[7] = Places[7]
        /\ Places'[9] = Places[9] /\ Places'[10] = Places[10] /\ Places'[11] = Places[11]
    BY <2>1, <2>2, PlacesStay DEF PipeNames
  <2>5. AsReplies(Places'[1]) \o AsReplies(Places'[2]) = AsReplies(Places[1]) \o AsReplies(Places[2])
    BY <2>2, <2>3, Zenon
  <2>6. Moved(1, 2)
    BY <1>4, <2>4, <2>5 DEF Moved
  <2> QED
    BY <2>6, OwingMovedAt
<1>8. ~CliRecvEnd /\ ~CliReopen /\ ~CliStopReaders
  BY NoneGivesUp DEF Early, Undisturbed, CliReopen, CliStopReaders
<1>9. ASSUME NEW k \in Conns, ReaderThread(k) PROVE Owing' = Owing
  <2>1. ~RdSendLost(k) /\ ~ClientKilled(k)
    BY NoneGivesUp DEF Early
  <2>2. k = 1
    BY <1>3, <1>9, <2>1 DEF ReaderThread, RdCheck, RdRead, RdSend, RdConfirm
  <2>3. UNCHANGED <<s2c, cli_pc, cli_buf>>
    BY <1>9, <2>1 DEF ReaderThread, RdCheck, RdRead, RdSend, RdConfirm, linkVars
  <2>4. Places'[2] = Places[2] /\ Places'[3] = Places[3]
    BY <2>3, PlacesStay
  <2>5. CASE RdCheck(k) \/ RdConfirm(k)
    <3>1. UNCHANGED <<pipe, c2s>> /\ rd[1] # "send" /\ rd'[1] # "send"
      BY <1>3, <2>2, <2>5 DEF RdCheck, RdConfirm, RdGoto, linkVars
    <3>2. Places'[10] = Places[10]
      BY <3>1, PlacesAre, PlacesAreAfter DEF One
    <3>3. /\ Places'[1] = Places[1] /\ Places'[5] = Places[5] /\ Places'[7] = Places[7]
          /\ Places'[9] = Places[9] /\ Places'[11] = Places[11]
      BY <3>1, PlacesStay
    <3> QED
      BY <1>4, <2>4, <3>2, <3>3, OwingSame
  <2>6. CASE RdRead(k)
    <3>1. /\ PipeRead("request_client") /\ "request_client" \in PipeNames
          /\ rd_buf' = PipeFirst("request_client") /\ UNCHANGED c2s
          /\ rd[1] # "send" /\ rd'[1] = "send"
      BY <1>3, <2>2, <2>6 DEF RdRead, RdGoto, linkVars, PipeNames
    <3>2. /\ AsReplies(One(TRUE, PipeFirst("request_client"))) \o AsReplies(pipe'["request_client"])
             = AsReplies(One(FALSE, PipeFirst("request_client"))) \o AsReplies(pipe["request_client"])
          /\ \A m \in PipeNames \ {"request_client"} : pipe'[m] = pipe[m]
      BY <1>2, <3>1, ReadInPlace
    <3>3. /\ Places'[10] = One(TRUE, PipeFirst("request_client"))
          /\ Places[10] = One(FALSE, PipeFirst("request_client"))
          /\ Places[11] = pipe["request_client"] /\ Places'[11] = pipe'["request_client"]
      BY <3>1, PlacesAre, PlacesAreAfter DEF One
    <3>4. /\ Places'[1] = Places[1] /\ Places'[5] = Places[5] /\ Places'[7] = Places[7]
          /\ Places'[9] = Places[9]
      BY <3>1, <3>2, PlacesStay DEF PipeNames
    <3>5. AsReplies(Places'[10]) \o AsReplies(Places'[11]) = AsReplies(Places[10]) \o AsReplies(Places[11])
      BY <3>2, <3>3, Zenon
    <3>6. Moved(10, 11)
      BY <1>4, <2>4, <3>4, <3>5 DEF Moved
    <3> QED
      BY <3>6, OwingMovedAt
  <2>7. CASE RdSend(k)
    <3>1. /\ nconn = 1 /\ c2s'[1] = Append(c2s[1], rd_buf) /\ UNCHANGED <<pipe, rd_buf>>
          /\ rd[1] = "send" /\ rd'[1] # "send"
      BY <1>2, <1>3, <2>2, <2>7 DEF RdSend, RdGoto, ClientLinkUp, LinkTypeOK
    <3>2. /\ Places[10] = <<rd_buf>> /\ Places'[10] = << >>
          /\ Places[9] = c2s[1] /\ Places'[9] = Append(c2s[1], rd_buf)
      BY <3>1, PlacesAre, PlacesAreAfter DEF One
    <3>3. AsReplies(Append(c2s[1], rd_buf)) \o AsReplies(<< >>) = AsReplies(c2s[1]) \o AsReplies(<<rd_buf>>)
      BY <1>3, PutInPlace
    <3>4. /\ Places'[1] = Places[1] /\ Places'[5] = Places[5] /\ Places'[7] = Places[7]
          /\ Places'[11] = Places[11]
      BY <3>1, PlacesStay
    <3>5. AsReplies(Places'[9]) \o AsReplies(Places'[10]) = AsReplies(Places[9]) \o AsReplies(Places[10])
      BY <3>2, <3>3, Zenon
    <3>6. Moved(9, 10)
      BY <1>4, <2>4, <3>4, <3>5 DEF Moved
    <3> QED
      BY <3>6, OwingMovedAt
  <2> QED
    BY <1>9, <2>1, <2>5, <2>6, <2>7 DEF ReaderThread
<1> QED
  BY <1>5, <1>6, <1>7, <1>8, <1>9 DEF ClientStep, ClientNext, ClientThread

\* So does the server ...
LEMMA ServerKeepsOwing ==
    ASSUME Early, Early', RServerStep, ~SrvRecvShort
    PROVE  Owing' = Owing
<1>1. UNCHANGED <<cli_pc, cli_buf, rtl_pc, rtl_rsp, rd, rd_buf>>
  BY DEF RServerStep, clientVars, rtlVars
<1>2. /\ PipeTypeOK /\ LinkTypeOK /\ RServerTypeOK /\ TypeOK
  BY DEF Early, Served, TypeOK
<1>3. /\ 1 \in Conns /\ (ClientSockOpen => accepted = 1)
      /\ (\A k \in Conns : rt[k] # "none" => k = 1)
      /\ (srv_pc = "accept" => \A k \in Conns : rt[k] = "none")
      /\ s2c[1] \in Seq(Packet) /\ c2s[1] \in Seq(Packet) /\ rt_buf \in Packet /\ srv_buf \in Packet
      /\ rt \in [Conns -> {"none", "start", "check", "read", "send", "confirm", "gone"}]
  BY <1>2, OneConnection DEF LinkTypeOK, RServerTypeOK
<1>4. Places'[2] = Places[2] /\ Places'[6] = Places[6] /\ Places'[10] = Places[10]
  BY <1>1, PlacesStay
<1>5. CASE SrvAccept
  <2>1. /\ UNCHANGED <<pipe, c2s, s2c>> /\ srv_pc # "enqueue" /\ srv_pc' # "enqueue"
        /\ accepted = 0 /\ rt[1] # "send" /\ rt'[1] # "send"
    BY <1>3, <1>5 DEF SrvAccept, Early, Undisturbed, linkVars
  <2>2. Places'[4] = Places[4] /\ Places'[8] = Places[8]
    BY <2>1, PlacesAre, PlacesAreAfter DEF One
  <2>3. /\ Places'[1] = Places[1] /\ Places'[3] = Places[3] /\ Places'[5] = Places[5]
        /\ Places'[7] = Places[7] /\ Places'[9] = Places[9] /\ Places'[11] = Places[11]
    BY <2>1, PlacesStay
  <2> QED
    BY <1>4, <2>2, <2>3, OwingSame
<1>6. CASE SrvRecv
  <2>1. /\ accepted = 1 /\ c2s[1] # << >> /\ srv_buf' = Head(c2s[1]) /\ c2s'[1] = Tail(c2s[1])
        /\ srv_pc # "enqueue" /\ srv_pc' = "enqueue" /\ UNCHANGED <<pipe, s2c, rt, rt_buf>>
    BY <1>2, <1>3, <1>6 DEF SrvRecv, ClientSockOpen, LinkTypeOK
  <2>2. /\ Places[8] = << >> /\ Places'[8] = <<Head(c2s[1])>>
        /\ Places[9] = c2s[1] /\ Places'[9] = Tail(c2s[1])
    BY <2>1, PlacesAre, PlacesAreAfter DEF One
  <2>3. AsReplies(Places'[8]) \o AsReplies(Places'[9]) = AsReplies(Places[8]) \o AsReplies(Places[9])
    BY <1>3, <2>1, <2>2, TakenInPlace
  <2>4. /\ Places'[1] = Places[1] /\ Places'[3] = Places[3] /\ Places'[4] = Places[4]
        /\ Places'[5] = Places[5] /\ Places'[7] = Places[7] /\ Places'[11] = Places[11]
    BY <2>1, PlacesStay
  <2>5. Moved(8, 9)
    BY <1>4, <2>3, <2>4 DEF Moved
  <2> QED
    BY <2>5, OwingMovedAt
<1>7. CASE SrvEnqueue
  <2>1. /\ PipeWrite("request_server", srv_buf) /\ "request_server" \in PipeNames
        /\ srv_pc = "enqueue" /\ srv_pc' # "enqueue" /\ UNCHANGED <<c2s, s2c, rt, rt_buf, srv_buf>>
    BY <1>7 DEF SrvEnqueue, PipeNames, linkVars
  <2>2. /\ AsReplies(pipe'["request_server"]) \o AsReplies(One(FALSE, srv_buf))
           = AsReplies(pipe["request_server"]) \o AsReplies(One(TRUE, srv_buf))
        /\ \A m \in PipeNames \ {"request_server"} : pipe'[m] = pipe[m]
    BY <1>2, <1>3, <2>1, WriteInPlace
  <2>3. /\ Places[8] = One(TRUE, srv_buf) /\ Places'[8] = One(FALSE, srv_buf)
        /\ Places[7] = pipe["request_server"] /\ Places'[7] = pipe'["request_server"]
    BY <2>1, PlacesAre, PlacesAreAfter DEF One
  <2>4. AsReplies(Places'[7]) \o AsReplies(Places'[8]) = AsReplies(Places[7]) \o AsReplies(Places[8])
    BY <2>2, <2>3, Zenon
  <2>5. /\ Places'[1] = Places[1] /\ Places'[3] = Places[3] /\ Places'[4] = Places[4]
        /\ Places'[5] = Places[5] /\ Places'[9] = Places[9] /\ Places'[11] = Places[11]
    BY <2>1, <2>2, PlacesStay DEF PipeNames
  <2>6. Moved(7, 8)
    BY <1>4, <2>4, <2>5 DEF Moved
  <2> QED
    BY <2>6, OwingMovedAt
<1>8. ~SrvRecvEnd /\ ~SrvForget /\ ~SrvStop
  BY NoneGivesUp DEF Early, Undisturbed, SrvForget, SrvStop
<1>9. ASSUME NEW k \in Conns, ReplyThread(k) PROVE Owing' = Owing
  <2>1. ~RtSendLost(k) /\ ~ServerKilled(k)
    BY NoneGivesUp DEF Early
  <2>2. k = 1
    BY <1>3, <1>9, <2>1 DEF ReplyThread, RtStart, RtCheck, RtRead, RtSend, RtConfirm
  <2>3. UNCHANGED <<c2s, srv_pc, srv_buf>>
    BY <1>9, <2>1 DEF ReplyThread, RtStart, RtCheck, RtRead, RtSend, RtConfirm, linkVars
  <2>4. Places'[8] = Places[8] /\ Places'[9] = Places[9]
    BY <2>3, PlacesStay
  <2>5. CASE RtStart(k) \/ RtCheck(k) \/ RtConfirm(k)
    <3>1. UNCHANGED <<pipe, s2c>> /\ rt[1] # "send" /\ rt'[1] # "send"
      BY <1>3, <2>2, <2>5 DEF RtStart, RtCheck, RtConfirm, RtGoto, linkVars
    <3>2. Places'[4] = Places[4]
      BY <3>1, PlacesAre, PlacesAreAfter DEF One
    <3>3. /\ Places'[1] = Places[1] /\ Places'[3] = Places[3] /\ Places'[5] = Places[5]
          /\ Places'[7] = Places[7] /\ Places'[11] = Places[11]
      BY <3>1, PlacesStay
    <3> QED
      BY <1>4, <2>4, <3>2, <3>3, OwingSame
  <2>6. CASE RtRead(k)
    <3>1. /\ PipeRead("reply_server") /\ "reply_server" \in PipeNames
          /\ rt_buf' = PipeFirst("reply_server") /\ UNCHANGED s2c
          /\ rt[1] # "send" /\ rt'[1] = "send"
      BY <1>3, <2>2, <2>6 DEF RtRead, RtGoto, linkVars, PipeNames
    <3>2. /\ AsReplies(One(TRUE, PipeFirst("reply_server"))) \o AsReplies(pipe'["reply_server"])
             = AsReplies(One(FALSE, PipeFirst("reply_server"))) \o AsReplies(pipe["reply_server"])
          /\ \A m \in PipeNames \ {"reply_server"} : pipe'[m] = pipe[m]
      BY <1>2, <3>1, ReadInPlace
    <3>3. /\ Places'[4] = One(TRUE, PipeFirst("reply_server"))
          /\ Places[4] = One(FALSE, PipeFirst("reply_server"))
          /\ Places[5] = pipe["reply_server"] /\ Places'[5] = pipe'["reply_server"]
      BY <3>1, PlacesAre, PlacesAreAfter DEF One
    <3>4. AsReplies(Places'[4]) \o AsReplies(Places'[5]) = AsReplies(Places[4]) \o AsReplies(Places[5])
      BY <3>2, <3>3, Zenon
    <3>5. /\ Places'[1] = Places[1] /\ Places'[3] = Places[3] /\ Places'[7] = Places[7]
          /\ Places'[11] = Places[11]
      BY <3>1, <3>2, PlacesStay DEF PipeNames
    <3>6. Moved(4, 5)
      BY <1>4, <2>4, <3>4, <3>5 DEF Moved
    <3> QED
      BY <3>6, OwingMovedAt
  <2>7. CASE RtSend(k)
    <3>1. /\ accepted = 1 /\ s2c'[1] = Append(s2c[1], rt_buf) /\ UNCHANGED <<pipe, rt_buf>>
          /\ rt[1] = "send" /\ rt'[1] # "send"
      BY <1>2, <1>3, <2>2, <2>7 DEF RtSend, RtGoto, ServerLinkUp, LinkTypeOK
    <3>2. /\ Places[4] = <<rt_buf>> /\ Places'[4] = << >>
          /\ Places[3] = s2c[1] /\ Places'[3] = Append(s2c[1], rt_buf)
      BY <3>1, PlacesAre, PlacesAreAfter DEF One
    <3>3. AsReplies(Append(s2c[1], rt_buf)) \o AsReplies(<< >>) = AsReplies(s2c[1]) \o AsReplies(<<rt_buf>>)
      BY <1>3, PutInPlace
    <3>4. AsReplies(Places'[3]) \o AsReplies(Places'[4]) = AsReplies(Places[3]) \o AsReplies(Places[4])
      BY <3>2, <3>3, Zenon
    <3>5. /\ Places'[1] = Places[1] /\ Places'[5] = Places[5] /\ Places'[7] = Places[7]
          /\ Places'[11] = Places[11]
      BY <3>1, PlacesStay
    <3>6. Moved(3, 4)
      BY <1>4, <2>4, <3>4, <3>5 DEF Moved
    <3> QED
      BY <3>6, OwingMovedAt
  <2> QED
    BY <1>9, <2>1, <2>5, <2>6, <2>7 DEF ReplyThread
<1> QED
  BY <1>5, <1>6, <1>7, <1>8, <1>9 DEF RServerStep, RServerNext, RServerThread

\* ... and the device, which no packet under way stops.
LEMMA DeviceKeepsOwing ==
    ASSUME Early, Early', Ordering, RtlStep
    PROVE  Owing' = Owing
<1>1. UNCHANGED <<cli_pc, cli_buf, srv_pc, srv_buf, rd, rd_buf, rt, rt_buf, c2s, s2c>>
  BY DEF RtlStep, clientVars, rserverVars, linkVars
<1>2. PipeTypeOK /\ rtl_rsp \in Packet
  BY DEF Early, Served, TypeOK, RtlTypeOK
<1>3. /\ Places'[2] = Places[2] /\ Places'[3] = Places[3] /\ Places'[4] = Places[4]
      /\ Places'[8] = Places[8] /\ Places'[9] = Places[9] /\ Places'[10] = Places[10]
  BY <1>1, PlacesStay
<1>4. CASE DpiRequest
  <2>1. /\ PipeRead("request_server") /\ "request_server" \in PipeNames
        /\ rtl_rsp' = PipeFirst("request_server") /\ rtl_pc # "respond" /\ rtl_pc' = "respond"
    BY <1>4 DEF DpiRequest, PipeNames
  <2>2. /\ AsReplies(One(TRUE, PipeFirst("request_server"))) \o AsReplies(pipe'["request_server"])
           = AsReplies(One(FALSE, PipeFirst("request_server"))) \o AsReplies(pipe["request_server"])
        /\ \A m \in PipeNames \ {"request_server"} : pipe'[m] = pipe[m]
    BY <1>2, <2>1, ReadInPlace
  <2>3. /\ Places'[6] = One(TRUE, PipeFirst("request_server"))
        /\ Places[6] = One(FALSE, PipeFirst("request_server"))
        /\ Places[7] = pipe["request_server"] /\ Places'[7] = pipe'["request_server"]
    BY <2>1, PlacesAre, PlacesAreAfter DEF One
  <2>4. AsReplies(Places'[6]) \o AsReplies(Places'[7]) = AsReplies(Places[6]) \o AsReplies(Places[7])
    BY <2>2, <2>3, Zenon
  <2>5. Places'[1] = Places[1] /\ Places'[5] = Places[5] /\ Places'[11] = Places[11]
    BY <2>2, PlacesStay DEF PipeNames
  <2>6. Moved(6, 7)
    BY <1>3, <2>4, <2>5 DEF Moved
  <2> QED
    BY <2>6, OwingMovedAt
<1>5. ~DpiStop
  <2>1. SUFFICES ASSUME DpiStop PROVE FALSE
    OBVIOUS
  <2>2. PipeRead("request_server") /\ "request_server" \in PipeNames
        /\ PipeFirst("request_server").packet_number = 0
    BY <2>1 DEF DpiStop, PipeNames
  <2>3. PipeFirst("request_server").packet_number \in Stages[8]
    BY <1>2, <2>2, PipeTaken, StagesAre DEF Ordering, Within
  <2> QED
    BY <2>2, <2>3 DEF Ordering, InOrder
<1>6. CASE DpiRespond
  <2>1. /\ PipeWrite("reply_server", ReplyTo(rtl_rsp)) /\ "reply_server" \in PipeNames
        /\ ReplyTo(rtl_rsp) \in Packet /\ ReplyTo(ReplyTo(rtl_rsp)) = ReplyTo(rtl_rsp)
        /\ rtl_rsp' = rtl_rsp /\ rtl_pc = "respond" /\ rtl_pc' # "respond"
    BY <1>2, <1>6, PacketFacts, ReplyAgain DEF DpiRespond, PipeNames
  <2>2. /\ AsReplies(pipe'["reply_server"]) \o AsReplies(One(FALSE, rtl_rsp))
           = AsReplies(pipe["reply_server"]) \o AsReplies(One(TRUE, rtl_rsp))
        /\ \A m \in PipeNames \ {"reply_server"} : pipe'[m] = pipe[m]
    BY <1>2, <2>1, WriteInPlace
  <2>3. /\ Places[6] = One(TRUE, rtl_rsp) /\ Places'[6] = One(FALSE, rtl_rsp)
        /\ Places[5] = pipe["reply_server"] /\ Places'[5] = pipe'["reply_server"]
    BY <2>1, PlacesAre, PlacesAreAfter DEF One
  <2>4. AsReplies(Places'[5]) \o AsReplies(Places'[6]) = AsReplies(Places[5]) \o AsReplies(Places[6])
    BY <2>2, <2>3, Zenon
  <2>5. Places'[1] = Places[1] /\ Places'[7] = Places[7] /\ Places'[11] = Places[11]
    BY <2>2, PlacesStay DEF PipeNames
  <2>6. Moved(5, 6)
    BY <1>3, <2>4, <2>5 DEF Moved
  <2> QED
    BY <2>6, OwingMovedAt
<1> QED
  BY <1>4, <1>5, <1>6 DEF RtlStep, RtlNext

-----------------------------------------------------------------------------
(* Replies over TCP *)

\* What is on its way back is the reply to itself, on whichever connection; the
\* buffers it passes hold nothing else, not even before they are used.
RepliesAreReplies ==
    /\ Answered(pipe["reply_server"]) /\ Answered(pipe["reply_client"])
    /\ \A k \in Conns : Answered(s2c[k])
    /\ ReplyTo(rt_buf) = rt_buf
    /\ ReplyTo(cli_buf) = cli_buf

\* The first packets are in no pipe, and the cleared buffers are replies to themselves.
LEMMA InitAnswered == UInit => RepliesAreReplies
BY DEF UInit, Init, PipeInit, LinkInit, ClientInit, RServerInit, RepliesAreReplies, Answered,
       PipeNames, ReplyTo, ZeroPacket

\* Taking or adding a reply leaves only replies; so does dropping all.
LEMMA StillAnswered ==
    ASSUME NEW s \in Seq(Packet), Answered(s)
    PROVE  /\ Answered(<< >>)
           /\ s # << >> => Answered(Tail(s)) /\ ReplyTo(Head(s)) = Head(s)
           /\ \A p \in Packet : ReplyTo(p) = p => Answered(Append(s, p))
<1>1. Len(s) \in Nat /\ \A i \in 1 .. Len(s) : ReplyTo(s[i]) = s[i]
  BY DEF Answered
<1>2. Answered(<< >>)
  BY DEF Answered
<1>3. ASSUME s # << >> PROVE Answered(Tail(s)) /\ ReplyTo(Head(s)) = Head(s)
  <2>1. Len(s) > 0 /\ Head(s) = s[1] /\ Len(Tail(s)) = Len(s) - 1
        /\ \A i \in 1 .. Len(Tail(s)) : Tail(s)[i] = s[i + 1]
    BY <1>3
  <2>2. \A i \in 1 .. Len(Tail(s)) : i + 1 \in 1 .. Len(s)
    BY <1>1, <2>1
  <2>3. Answered(Tail(s))
    BY <1>1, <2>1, <2>2 DEF Answered
  <2> QED
    BY <1>1, <2>1, <2>3
<1>4. ASSUME NEW p \in Packet, ReplyTo(p) = p PROVE Answered(Append(s, p))
  <2>1. /\ Len(Append(s, p)) = Len(s) + 1
        /\ \A i \in 1 .. Len(s) : Append(s, p)[i] = s[i]
        /\ Append(s, p)[Len(s) + 1] = p
    BY AppendProperties
  <2>2. ASSUME NEW i \in 1 .. Len(s) + 1
        PROVE  ReplyTo(Append(s, p)[i]) = Append(s, p)[i]
    <3>1. CASE i \in 1 .. Len(s)
      BY <1>1, <2>1, <3>1
    <3>2. CASE i = Len(s) + 1
      BY <1>4, <2>1, <3>2
    <3> QED
      BY <1>1, <3>1, <3>2
  <2> QED
    BY <2>1, <2>2 DEF Answered
<1> QED
  BY <1>2, <1>3, <1>4

\* A step that puts nothing on the way back, though it may drop what is there.
LEMMA NoneAnswered ==
    ASSUME RepliesAreReplies, TypeOK, UNCHANGED <<rt_buf, cli_buf>>,
           pipe'["reply_server"] = pipe["reply_server"], pipe'["reply_client"] = pipe["reply_client"],
           \A k \in Conns : s2c'[k] = s2c[k] \/ s2c'[k] = << >>
    PROVE  RepliesAreReplies'
<1>1. Answered(<< >>)
  BY DEF Answered
<1>2. \A s, t : s = t /\ Answered(t) => Answered(s)
  OBVIOUS
<1>3. \A k \in Conns : Answered(s2c[k])
  BY DEF RepliesAreReplies
<1>4. ASSUME NEW k \in Conns PROVE Answered(s2c'[k])
  BY <1>1, <1>2, <1>3
<1> QED
  BY <1>2, <1>4 DEF RepliesAreReplies

\* The pipes the replies are not in.
LEMMA RequestPipesApart ==
    ASSUME PipeTypeOK, NEW n \in {"request_client", "request_server"}, NEW pkt,
           PipeRead(n) \/ PipeWrite(n, pkt)
    PROVE  pipe'["reply_server"] = pipe["reply_server"] /\ pipe'["reply_client"] = pipe["reply_client"]
BY DEF PipeTypeOK, PipeRead, PipeWrite, PipeNames

\* The client passes replies on as they are.
LEMMA ClientAnswered ==
    ASSUME Served, RepliesAreReplies, ClientStep
    PROVE  RepliesAreReplies'
<1>1. /\ TypeOK /\ PipeTypeOK /\ ClientServed /\ rt_buf' = rt_buf
      /\ c2s \in [Conns -> Seq(Packet)] /\ s2c \in [Conns -> Seq(Packet)] /\ cli_buf \in Packet
      /\ {"reply_server", "reply_client"} \subseteq PipeNames
  BY DEF Served, TypeOK, LinkTypeOK, ClientTypeOK, ClientStep, rserverVars, PipeNames
<1>2. cli_sock = "connected" \/ cli_pc = "recv" => nconn \in Conns
  BY <1>1, OpenConns DEF ClientServed
<1>3. CASE CliConnect \/ CliReopen \/ CliStopReaders
  BY <1>1, <1>3, NoneAnswered DEF CliConnect, CliReopen, CliStopReaders, linkVars
<1>4. CASE CliRecv
  <2>1. /\ s2c[nconn] \in Seq(Packet) /\ s2c[nconn] # << >> /\ Answered(s2c[nconn])
        /\ cli_buf' = Head(s2c[nconn]) /\ s2c' = [s2c EXCEPT ![nconn] = Tail(@)] /\ pipe' = pipe
    BY <1>1, <1>2, <1>4 DEF CliRecv, RepliesAreReplies
  <2>2. Answered(Tail(s2c[nconn])) /\ ReplyTo(cli_buf') = cli_buf'
    BY <2>1, StillAnswered
  <2>3. ASSUME NEW k \in Conns PROVE Answered(s2c'[k])
    <3>1. CASE k = nconn
      <4>1. s2c'[k] = Tail(s2c[nconn])
        BY <1>1, <2>1, <3>1
      <4> QED
        BY <2>2, <4>1
    <3>2. CASE k # nconn
      <4>1. s2c'[k] = s2c[k]
        BY <1>1, <2>1, <3>2
      <4> QED
        BY <4>1 DEF RepliesAreReplies
    <3> QED
      BY <3>1, <3>2
  <2> QED
    BY <1>1, <2>1, <2>2, <2>3 DEF RepliesAreReplies
<1>5. CASE CliEnqueue
  <2>1. /\ PipeWrite("reply_client", cli_buf) /\ UNCHANGED <<s2c, cli_buf>>
        /\ ReplyTo(cli_buf) = cli_buf /\ Answered(pipe["reply_client"])
    BY <1>5 DEF CliEnqueue, linkVars, RepliesAreReplies
  <2>2. Answered(pipe'["reply_client"])
    BY <1>1, <2>1, WriteAnswered
  <2>3. pipe'["reply_server"] = pipe["reply_server"]
    BY <1>1, <2>1 DEF PipeWrite, PipeTypeOK
  <2> QED
    BY <1>1, <2>1, <2>2, <2>3 DEF RepliesAreReplies
<1>6. CASE CliRecvEnd \/ CliRecvShort
  <2>1. /\ ClientCloses(nconn) /\ nconn \in Conns /\ UNCHANGED <<pipe, cli_buf>>
    BY <1>2, <1>6 DEF CliRecvEnd, CliRecvShort, CliClose
  <2>2. \A j \in Conns : s2c'[j] = s2c[j] \/ s2c'[j] = << >>
    BY <1>1, <2>1, ClosedByClient
  <2> QED
    BY <1>1, <2>1, <2>2, NoneAnswered
<1>7. ASSUME NEW k \in Conns, ReaderThread(k) PROVE RepliesAreReplies'
  <2>1. CASE RdCheck(k) \/ RdSend(k) \/ RdSendLost(k) \/ RdConfirm(k)
    BY <1>1, <2>1, NoneAnswered DEF RdCheck, RdSend, RdSendLost, RdConfirm, linkVars
  <2>2. CASE RdRead(k)
    <3>1. PipeRead("request_client") /\ UNCHANGED <<s2c, cli_buf>>
      BY <2>2 DEF RdRead, linkVars
    <3> QED
      BY <1>1, <3>1, RequestPipesApart, NoneAnswered
  <2>3. CASE ClientKilled(k)
    <3>1. UNCHANGED <<pipe, cli_buf>>
      BY <2>3 DEF ClientKilled
    <3>2. \A j \in Conns : s2c'[j] = s2c[j] \/ s2c'[j] = << >>
      <4>1. CASE cli_sock = "connected"
        <5>1. ClientCloses(nconn) /\ nconn \in Conns
          BY <1>2, <2>3, <4>1 DEF ClientKilled
        <5> QED
          BY <1>1, <5>1, ClosedByClient
      <4>2. CASE cli_sock # "connected"
        BY <2>3, <4>2 DEF ClientKilled
      <4> QED
        BY <4>1, <4>2
    <3> QED
      BY <1>1, <3>1, <3>2, NoneAnswered
  <2> QED
    BY <1>7, <2>1, <2>2, <2>3 DEF ReaderThread
<1> QED
  BY <1>3, <1>4, <1>5, <1>6, <1>7 DEF ClientStep, ClientNext, ClientThread

\* So does the server.
LEMMA ServerAnswered ==
    ASSUME Served, RepliesAreReplies, RServerStep
    PROVE  RepliesAreReplies'
<1>1. /\ TypeOK /\ PipeTypeOK /\ ServerServed /\ cli_buf' = cli_buf
      /\ c2s \in [Conns -> Seq(Packet)] /\ s2c \in [Conns -> Seq(Packet)] /\ rt_buf \in Packet
      /\ {"reply_server", "reply_client"} \subseteq PipeNames
  BY DEF Served, TypeOK, LinkTypeOK, RServerTypeOK, RServerStep, clientVars, PipeNames
<1>2. ClientSockOpen => accepted \in Conns
  BY <1>1, OpenConns DEF ServerServed
<1>3. CASE SrvAccept \/ SrvRecv \/ SrvForget \/ SrvStop
  BY <1>1, <1>3, NoneAnswered DEF SrvAccept, SrvRecv, SrvForget, SrvStop, linkVars
<1>4. CASE SrvEnqueue
  <2>1. PipeWrite("request_server", srv_buf) /\ UNCHANGED <<s2c, rt_buf>>
    BY <1>4 DEF SrvEnqueue, linkVars
  <2> QED
    BY <1>1, <2>1, RequestPipesApart, NoneAnswered
<1>5. CASE SrvRecvEnd \/ SrvRecvShort
  <2>1. ServerCloses(accepted) /\ accepted \in Conns /\ UNCHANGED <<pipe, rt_buf>>
    BY <1>2, <1>5 DEF SrvRecvEnd, SrvRecvShort, SrvClose, ClientSockOpen
  <2>2. \A j \in Conns : s2c'[j] = s2c[j] \/ s2c'[j] = << >>
    BY <1>1, <2>1, ClosedByServer
  <2> QED
    BY <1>1, <2>1, <2>2, NoneAnswered
<1>6. ASSUME NEW k \in Conns, ReplyThread(k) PROVE RepliesAreReplies'
  <2>1. CASE RtStart(k) \/ RtCheck(k) \/ RtSendLost(k) \/ RtConfirm(k)
    BY <1>1, <2>1, NoneAnswered DEF RtStart, RtCheck, RtSendLost, RtConfirm, linkVars
  <2>2. CASE RtRead(k)
    <3>1. /\ PipeRead("reply_server") /\ rt_buf' = PipeFirst("reply_server") /\ s2c' = s2c
          /\ Answered(pipe["reply_server"])
      BY <2>2 DEF RtRead, linkVars, RepliesAreReplies
    <3>2. Answered(pipe'["reply_server"]) /\ ReplyTo(rt_buf') = rt_buf'
      BY <1>1, <3>1, ReadAnswered
    <3>3. pipe'["reply_client"] = pipe["reply_client"]
      BY <1>1, <3>1 DEF PipeRead, PipeTypeOK
    <3> QED
      BY <1>1, <3>1, <3>2, <3>3 DEF RepliesAreReplies
  <2>3. CASE RtSend(k)
    <3>1. /\ accepted \in Conns /\ s2c' = [s2c EXCEPT ![accepted] = Append(@, rt_buf)]
          /\ UNCHANGED <<pipe, rt_buf>> /\ Answered(s2c[accepted]) /\ ReplyTo(rt_buf) = rt_buf
      BY <1>2, <2>3 DEF RtSend, ServerLinkUp, RepliesAreReplies
    <3>2. Answered(Append(s2c[accepted], rt_buf))
      BY <1>1, <3>1, StillAnswered
    <3>3. ASSUME NEW j \in Conns PROVE Answered(s2c'[j])
      <4>1. CASE j = accepted
        <5>1. s2c'[j] = Append(s2c[accepted], rt_buf)
          BY <1>1, <3>1, <4>1
        <5> QED
          BY <3>2, <5>1
      <4>2. CASE j # accepted
        <5>1. s2c'[j] = s2c[j]
          BY <1>1, <3>1, <4>2
        <5> QED
          BY <5>1 DEF RepliesAreReplies
      <4> QED
        BY <4>1, <4>2
    <3> QED
      BY <1>1, <3>1, <3>3 DEF RepliesAreReplies
  <2>4. CASE ServerKilled(k)
    <3>1. UNCHANGED <<pipe, rt_buf>> /\ s2c' \in {s2c, Emptied(s2c, accepted)}
      BY <2>4 DEF ServerKilled
    <3>2. \A j \in Conns : s2c'[j] = s2c[j] \/ s2c'[j] = << >>
      BY <1>1, <3>1, EmptiedIs
    <3> QED
      BY <1>1, <3>1, <3>2, NoneAnswered
  <2> QED
    BY <1>6, <2>1, <2>2, <2>3, <2>4 DEF ReplyThread
<1> QED
  BY <1>3, <1>4, <1>5, <1>6 DEF RServerStep, RServerNext, RServerThread

\* Only the device puts on the way back what was not on it, and that is a reply.
LEMMA NextAnswered ==
    ASSUME Served, RepliesAreReplies, [UNext]_uvars
    PROVE  RepliesAreReplies'
<1>1. /\ TypeOK /\ PipeTypeOK /\ {"reply_server", "reply_client"} \subseteq PipeNames
      /\ s2c \in [Conns -> Seq(Packet)] /\ rtl_rsp \in Packet
  BY DEF Served, TypeOK, LinkTypeOK, RtlTypeOK, PipeNames
<1>2. CASE HostStep
  <2>1. UNCHANGED <<s2c, cli_buf, rt_buf>>
    BY <1>2 DEF HostStep, linkVars, clientVars, rserverVars
  <2>2. CASE HostIssue \/ HostIssueRefused
    BY <1>1, <2>1, <2>2, NoneAnswered DEF HostIssue, HostIssueRefused
  <2>3. CASE HostEnqueue
    <3>1. PipeWrite("request_client", send_pkt)
      BY <2>3 DEF HostEnqueue
    <3> QED
      BY <1>1, <2>1, <3>1, RequestPipesApart, NoneAnswered
  <2>4. CASE HostDequeue
    <3>1. PipeRead("reply_client") /\ Answered(pipe["reply_client"])
      BY <2>4 DEF HostDequeue, RepliesAreReplies
    <3>2. Answered(pipe'["reply_client"])
      BY <1>1, <3>1, ReadAnswered
    <3>3. pipe'["reply_server"] = pipe["reply_server"]
      BY <1>1, <3>1 DEF PipeRead, PipeTypeOK
    <3> QED
      BY <2>1, <3>2, <3>3 DEF RepliesAreReplies
  <2> QED
    BY <1>2, <2>2, <2>3, <2>4 DEF HostStep, HostNext
<1>3. CASE RtlStep
  <2>1. UNCHANGED <<s2c, cli_buf, rt_buf>>
    BY <1>3 DEF RtlStep, linkVars, clientVars, rserverVars
  <2>2. CASE DpiRequest \/ DpiStop
    <3>1. PipeRead("request_server")
      BY <2>2 DEF DpiRequest, DpiStop
    <3> QED
      BY <1>1, <2>1, <3>1, RequestPipesApart, NoneAnswered
  <2>3. CASE DpiRespond
    <3>1. /\ PipeWrite("reply_server", ReplyTo(rtl_rsp)) /\ ReplyTo(rtl_rsp) \in Packet
          /\ ReplyTo(ReplyTo(rtl_rsp)) = ReplyTo(rtl_rsp) /\ Answered(pipe["reply_server"])
      BY <1>1, <2>3, PacketFacts, ReplyAgain DEF DpiRespond, RepliesAreReplies
    <3>2. Answered(pipe'["reply_server"])
      BY <1>1, <3>1, WriteAnswered
    <3>3. pipe'["reply_client"] = pipe["reply_client"]
      BY <1>1, <3>1 DEF PipeWrite, PipeTypeOK
    <3> QED
      BY <2>1, <3>2, <3>3 DEF RepliesAreReplies
  <2> QED
    BY <1>3, <2>2, <2>3 DEF RtlStep, RtlNext
<1>4. CASE NetworkStep
  <2>1. PICK k \in Conns : Cut(k)
    BY <1>4 DEF NetworkStep
  <2>2. s2c' \in {s2c, Emptied(s2c, k)} /\ UNCHANGED <<pipe, cli_buf, rt_buf>>
    BY <1>4, <2>1 DEF NetworkStep, Cut, clientVars, rserverVars
  <2>3. \A j \in Conns : s2c'[j] = s2c[j] \/ s2c'[j] = << >>
    BY <1>1, <2>2, EmptiedIs
  <2> QED
    BY <1>1, <2>2, <2>3, NoneAnswered
<1>5. CASE FaultStep \/ UNCHANGED uvars
  <2>1. UNCHANGED <<pipe, s2c, cli_buf, rt_buf>>
    BY <1>5 DEF FaultStep, HostEnqueueFails, HostDequeueFails, relayVars, uvars, vars, linkVars,
                clientVars, rserverVars
  <2> QED
    BY <1>1, <2>1, NoneAnswered
<1> QED
  BY <1>2, <1>3, <1>4, <1>5, ClientAnswered, ServerAnswered DEF UNext, Next

-----------------------------------------------------------------------------
(* The relay over TCP implements the queue *)

\* The queue's packets are the relay's.
LEMMA QueuePackets ==
  Queue!ZeroPacket = ZeroPacket /\ Queue!Packet = Packet /\ \A p : Queue!ReplyTo(p) = ReplyTo(p)
BY DEF Queue!ZeroPacket, ZeroPacket, Queue!Packet, Packet, Queue!ReplyTo, ReplyTo

\* The relay starts as the empty queue.
LEMMA QueueInit == UInit => Queue!Init
<1> SUFFICES ASSUME UInit PROVE Queue!Init
  OBVIOUS
<1>1. Early /\ 1 \in Conns
  BY IInvInit, OneConnection DEF UInit, Init, LinkInit, IInv, Early
<1>2. /\ \A n \in PipeNames : pipe[n] = << >>
      /\ s2c[1] = << >> /\ c2s[1] = << >> /\ reply_pkt = ZeroPacket
      /\ cli_pc # "enqueue" /\ srv_pc # "enqueue" /\ rtl_pc # "respond"
      /\ rd[1] # "send" /\ rt[1] # "send"
  BY <1>1 DEF UInit, Init, PipeInit, LinkInit, HostInit, ClientInit, RServerInit, RtlInit
<1>3. /\ Places[1] = << >> /\ Places[2] = << >> /\ Places[3] = << >> /\ Places[4] = << >>
      /\ Places[5] = << >> /\ Places[6] = << >> /\ Places[7] = << >> /\ Places[8] = << >>
      /\ Places[9] = << >> /\ Places[10] = << >> /\ Places[11] = << >>
  BY <1>1, <1>2, PlacesAre DEF One, PipeNames
<1>4. /\ Pieces[1] = << >> /\ Pieces[2] = << >> /\ Pieces[3] = << >> /\ Pieces[4] = << >>
      /\ Pieces[5] = << >> /\ Pieces[6] = << >> /\ Pieces[7] = << >> /\ Pieces[8] = << >>
      /\ Pieces[9] = << >> /\ Pieces[10] = << >> /\ Pieces[11] = << >>
  BY <1>3, AsRepliesShort DEF Pieces
<1>5. << >> \o << >> = << >>
  BY ConcatEmptySeq
<1>6. Owing = << >>
  BY <1>1, <1>4, <1>5, OwingIsGlue DEF Glue
<1> QED
  BY <1>2, <1>6, QueuePackets DEF Queue!Init

\* What the host does to the queue while it is not interrupted.
LEMMA HostServesQueue ==
    ASSUME Early, Early', RepliesAreReplies, HostStep
    PROVE  Queue!Next
<1>1. UNCHANGED <<cli_pc, cli_buf, s2c, rt, rt_buf, rtl_pc, rtl_rsp, srv_pc, srv_buf, c2s, rd, rd_buf>>
  BY DEF HostStep, linkVars, clientVars, rserverVars, rtlVars
<1>2. /\ PipeTypeOK /\ send_pkt \in Packet
      /\ "reply_client" \in PipeNames /\ "request_client" \in PipeNames
  BY DEF Early, Served, TypeOK, HostTypeOK, PipeNames
<1>3. /\ Places'[2] = Places[2] /\ Places'[3] = Places[3] /\ Places'[4] = Places[4]
      /\ Places'[6] = Places[6] /\ Places'[8] = Places[8] /\ Places'[9] = Places[9]
      /\ Places'[10] = Places[10]
  BY <1>1, PlacesStay
<1>4. /\ \A i \in 1 .. 11 : Places[i] \in Seq(Packet) /\ Pieces[i] = AsReplies(Places[i])
      /\ \A i \in 1 .. 11 : Pieces'[i] = AsReplies(Places'[i])
      /\ IsPieces(Pieces) /\ Owing = Glue(Pieces) /\ Owing' = Glue(Pieces)'
  BY OwingIsGlue, OwingIsGlueAfter
<1>5. /\ Pieces[1] = AsReplies(Places[1]) /\ Pieces'[1] = AsReplies(Places'[1])
      /\ Pieces[11] = AsReplies(Places[11]) /\ Pieces'[11] = AsReplies(Places'[11])
  BY <1>4
<1>6. \A q \in 1 .. 11 : Places'[q] = Places[q] => Pieces'[q] = Pieces[q]
  BY <1>4
<1>7. CASE HostIssue \/ HostIssueRefused
  <2>1. pipe' = pipe /\ reply_pkt' = ZeroPacket
    BY <1>7 DEF HostIssue, HostIssueRefused, StartAccess
  <2>2. /\ Places'[1] = Places[1] /\ Places'[5] = Places[5] /\ Places'[7] = Places[7]
        /\ Places'[11] = Places[11]
    BY <2>1, PlacesStay
  <2>3. Owing' = Owing
    BY <1>3, <2>2, OwingSame
  <2> QED
    BY <2>1, <2>3, QueuePackets DEF Queue!Next, Queue!Clear
<1>8. CASE HostEnqueue
  <2>1. /\ pipe["request_client"] \in Seq(Packet)
        /\ pipe'["request_client"] = Append(pipe["request_client"], send_pkt)
        /\ \A m \in PipeNames \ {"request_client"} : pipe'[m] = pipe[m]
        /\ reply_pkt' = reply_pkt
    BY <1>2, <1>8 DEF HostEnqueue, PipeWrite, PipeTypeOK
  <2>2. /\ Places'[1] = Places[1] /\ Places'[5] = Places[5] /\ Places'[7] = Places[7]
        /\ Places[11] = pipe["request_client"] /\ Places'[11] = pipe'["request_client"]
    BY <2>1, PlacesStay, PlacesAre, PlacesAreAfter DEF PipeNames
  <2> DEFINE r == ReplyTo(send_pkt)
  <2>3. r \in Packet
    BY <1>2, PacketFacts
  <2>4. AsReplies(pipe'["request_client"]) = AsReplies(pipe["request_client"]) \o <<r>>
    <3>1. <<send_pkt>> \in Seq(Packet)
          /\ Append(pipe["request_client"], send_pkt) = pipe["request_client"] \o <<send_pkt>>
      BY <1>2, <2>1, AppendIsConcat
    <3>2. AsReplies(pipe["request_client"] \o <<send_pkt>>)
          = AsReplies(pipe["request_client"]) \o AsReplies(<<send_pkt>>)
      BY <2>1, <3>1, AsRepliesConcat
    <3>3. AsReplies(<<send_pkt>>) = <<r>>
      BY <1>2, AsRepliesShort
    <3> QED
      BY <2>1, <3>1, <3>2, <3>3
  <2> HIDE DEF r
  <2>5. Pieces'[11] = Pieces[11] \o <<r>>
    BY <1>5, <2>2, <2>4
  <2>6. \A q \in 1 .. 10 : Pieces'[q] = Pieces[q]
    BY <1>3, <1>6, <2>2
  <2>7. Owing' = Append(Owing, r)
    BY <1>4, <2>3, <2>5, <2>6, GlueLonger
  <2> QED
    BY <1>2, <2>1, <2>7, QueuePackets DEF Queue!Next, Queue!Request, r
<1>9. CASE HostDequeue
  <2>1. /\ pipe["reply_client"] \in Seq(Packet) /\ pipe["reply_client"] # << >>
        /\ pipe'["reply_client"] = Tail(pipe["reply_client"])
        /\ \A m \in PipeNames \ {"reply_client"} : pipe'[m] = pipe[m]
        /\ reply_pkt' = Head(pipe["reply_client"])
        /\ PipeRead("reply_client")
    BY <1>2, <1>9 DEF HostDequeue, PipeRead, PipeFirst, PipeTypeOK
  <2>2. ReplyTo(Head(pipe["reply_client"])) = Head(pipe["reply_client"])
    BY <1>2, <2>1, ReadAnswered DEF RepliesAreReplies, PipeFirst
  <2>3. /\ Places'[5] = Places[5] /\ Places'[7] = Places[7] /\ Places'[11] = Places[11]
        /\ Places[1] = pipe["reply_client"] /\ Places'[1] = pipe'["reply_client"]
    BY <2>1, PlacesStay, PlacesAre, PlacesAreAfter DEF PipeNames
  <2>4. /\ AsReplies(pipe["reply_client"]) # << >>
        /\ Head(AsReplies(pipe["reply_client"])) = reply_pkt'
        /\ AsReplies(Tail(pipe["reply_client"])) = Tail(AsReplies(pipe["reply_client"]))
    BY <2>1, <2>2, AsRepliesFirst
  <2>5. Pieces[1] # << >> /\ Head(Pieces[1]) = reply_pkt' /\ Pieces'[1] = Tail(Pieces[1])
    BY <1>5, <2>1, <2>3, <2>4
  <2>6. \A q \in 2 .. 11 : Pieces'[q] = Pieces[q]
    BY <1>3, <1>6, <2>3
  <2>7. Owing # << >> /\ reply_pkt' = Head(Owing) /\ Owing' = Tail(Owing)
    BY <1>4, <2>5, <2>6, GlueShorter
  <2> QED
    BY <2>7 DEF Queue!Next, Queue!Reply
<1> QED
  BY <1>7, <1>8, <1>9 DEF HostStep, HostNext

\* Until the network fails, every step is a step of the queue or none of its business.
LEMMA QueueNext ==
    ASSUME OInv, OInv', RepliesAreReplies, [UNext]_uvars, faults' = 0
    PROVE  [Queue!Next]_(Queue!orVars)
<1>1. Early /\ Early' /\ Ordering
  BY UndisturbedUNext DEF OInv, UInv, Early
<1>2. ASSUME Owing' = Owing, reply_pkt' = reply_pkt PROVE [Queue!Next]_(Queue!orVars)
  BY <1>2 DEF Queue!orVars
<1>3. CASE [Next]_vars
  <2>1. ~CliRecvShort /\ ~SrvRecvShort /\ ~NetworkStep
    BY <1>1, <1>3, FaultsStay DEF Early, Served
  <2>2. CASE HostStep
    BY <1>1, <2>2, HostServesQueue
  <2>3. CASE ClientStep \/ RServerStep \/ RtlStep
    <3>1. Owing' = Owing
      BY <1>1, <2>1, <2>3, ClientKeepsOwing, ServerKeepsOwing, DeviceKeepsOwing
    <3> QED
      BY <1>2, <2>3, <3>1 DEF ClientStep, RServerStep, RtlStep, hostVars
  <2>4. CASE UNCHANGED vars
    <3>1. Places' = Places /\ reply_pkt' = reply_pkt
      BY <2>4 DEF Places, vars, linkVars, hostVars, clientVars, rserverVars, rtlVars, Senders
    <3> QED
      BY <1>1, <1>2, <3>1, OwingSame
  <2> QED
    BY <1>3, <2>1, <2>2, <2>3, <2>4 DEF Next
<1>4. CASE FaultStep
  <2>1. Places' = Places /\ reply_pkt' = reply_pkt
    BY <1>4 DEF FaultStep, HostEnqueueFails, HostDequeueFails, relayVars, Places, linkVars,
                clientVars, rserverVars, rtlVars, Senders
  <2> QED
    BY <1>1, <1>2, <2>1, OwingSame
<1> QED
  BY <1>3, <1>4 DEF UNext, uvars

\* Until the network fails the relay over TCP is the queue the relay on one machine
\* is, whatever the host does: every request is answered once, in the order of the
\* requests.
THEOREM IpRelayServesInOrder == USpec => ServesInOrder
<1>1. UInit => RepliesAreReplies
  BY InitAnswered
<1>2. OInv /\ RepliesAreReplies /\ [UNext]_uvars => RepliesAreReplies'
  BY NextAnswered DEF OInv, UInv
<1>3. OInv /\ OInv' /\ RepliesAreReplies /\ [UNext]_uvars
        => (faults' = 0 => [Queue!Next]_(Queue!orVars))
  BY QueueNext
<1> QED
  BY <1>1, <1>2, <1>3, OInvariance, QueueInit, PTL DEF USpec, ServesInOrder
=============================================================================
