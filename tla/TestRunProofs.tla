--------------------------- MODULE TestRunProofs ---------------------------
(* Theorems about TestRun, for every Addr, Modulus, PipeCap and            *)
(* NUM_XACTIONS below Modulus.                                             *)
EXTENDS TestRun, NamedPipeProofs

(* testhost waits for each reply, so there is at most one packet: the      *)
(* invariant says where it is and what it carries.                         *)

Empty      == pipe = [m \in PipeNames |-> << >>]
Only(n, p) == pipe = [m \in PipeNames |-> IF m = n THEN <<p>> ELSE << >>]

Threads(request, device, reply) == req_pc = request /\ rtl_pc = device /\ rep_pc = reply
Waiting == Threads("read", "request", "read")

RequestUnderWay(p) ==
    \/ Only("request_client", p) /\ Waiting
    \/ Empty /\ Threads("write", "request", "read") /\ req_buf = p
    \/ Only("request_server", p) /\ Waiting

ReplyUnderWay(p) ==
    \/ Empty /\ Threads("read", "respond", "read") /\ rtl_rsp = p
    \/ Only("reply_server", ReplyTo(p)) /\ Waiting
    \/ Empty /\ Threads("read", "request", "write") /\ rep_buf = ReplyTo(p)
    \/ Only("reply_client", ReplyTo(p)) /\ Waiting

OnePacket ==
    /\ th_pc \in {"send", "stop", "failed"} => Empty /\ Waiting
    /\ th_pc = "wait" => /\ test_pkt.packet_number # 0
                         /\ RequestUnderWay(test_pkt) \/ ReplyUnderWay(test_pkt)
    /\ th_pc = "done" => /\ test_pkt.packet_number = 0
                         /\ \/ RequestUnderWay(test_pkt)
                            \/ Empty /\ Threads("read", "finished", "read")

Counting == /\ th_pc \in {"send", "wait"} => th_i < NUM_XACTIONS
            /\ th_pc \in {"stop", "done"} => th_i = NUM_XACTIONS

TInv == TypeOK /\ OnePacket /\ Counting /\ ResponseMatches

\* A packet written to empty pipes is the only one.
LEMMA WriteToEmpty ==
    ASSUME NEW n \in PipeNames, NEW p, Empty, PipeWrite(n, p)
    PROVE  Only(n, p)'
BY DEF Empty, Only, PipeWrite

\* Only the pipe that holds the only packet can be read, and that is what is read.
LEMMA ReadTheOnly ==
    ASSUME NEW n \in PipeNames, NEW m \in PipeNames, NEW p, Only(n, p), PipeRead(m)
    PROVE  m = n /\ PipeFirst(m) = p /\ Empty'
BY DEF Empty, Only, PipeRead, PipeFirst

\* Empty pipes cannot be read.
LEMMA EmptyUnread == ASSUME NEW n \in PipeNames, Empty PROVE ~PipeRead(n)
BY DEF Empty, PipeRead

\* The initial state is well typed.
LEMMA TestInitType == Init => TypeOK
BY PacketFacts, TestHostAssumption
DEF Init, PipeInit, TestInit, ServerInit, RtlInit, TypeOK, PipeTypeOK, TestTypeOK,
    ServerTypeOK, RtlTypeOK

\* What testhost sends are packets: its numbers stay below Modulus.
LEMMA TestSendPacket ==
    ASSUME TestTypeOK, th_i < NUM_XACTIONS, TestSend \/ TestSendFails
    PROVE  test_pkt' \in Packet /\ test_pkt'.packet_number # 0
<1>1. th_i + 1 \in 0 .. (Modulus - 1) /\ th_i + 1 # 0 /\ th_i % 2 \in {0, 1}
  BY TestHostAssumption, TlpAssumption DEF TestTypeOK
<1> QED
  BY <1>1, TlpAssumption DEF TestSend, TestSendFails, NextRequest, Packet

\* The last one carries the number that ends the simulation.
LEMMA TestStopPacket ==
    ASSUME TestTypeOK, TestStop \/ TestStopFails
    PROVE  test_pkt' \in Packet /\ test_pkt'.packet_number = 0
BY TlpAssumption DEF TestTypeOK, TestStop, TestStopFails, Packet

\* Every step keeps the variables well typed.
LEMMA TestNextType == TypeOK /\ Counting /\ [Next]_vars => TypeOK'
<1> SUFFICES ASSUME TypeOK, Counting, [Next]_vars PROVE TypeOK'
  OBVIOUS
<1> USE PacketFacts DEF TypeOK, PipeNames
<1>1. CASE TestStep
  <2> USE <1>1 DEF TestStep, serverVars, rtlVars, ServerTypeOK, RtlTypeOK, TestTypeOK
  <2>1. CASE TestSend
    <3>1. test_pkt' \in Packet
      BY <2>1, TestSendPacket DEF Counting, TestSend
    <3> QED
      BY <2>1, <3>1, PipeWriteType DEF TestSend
  <2>2. CASE TestReceive
    <3>1. th_i < NUM_XACTIONS
      BY <2>2 DEF Counting, TestReceive
    <3>2. th_i' \in 0 .. NUM_XACTIONS
      BY <2>2, <3>1, TestHostAssumption DEF TestReceive
    <3> QED
      BY <2>2, <3>2, PipeReadType DEF TestReceive
  <2>3. CASE TestStop
    <3>1. test_pkt' \in Packet
      BY <2>3, TestStopPacket
    <3> QED
      BY <2>3, <3>1, PipeWriteType DEF TestStop
  <2>4. CASE TestSendFails
    <3>1. test_pkt' \in Packet
      BY <2>4, TestSendPacket DEF Counting, TestSendFails
    <3> QED
      BY <2>4, <3>1 DEF TestSendFails, PipeTypeOK
  <2>5. CASE TestStopFails
    <3>1. test_pkt' \in Packet
      BY <2>5, TestStopPacket
    <3> QED
      BY <2>5, <3>1 DEF TestStopFails, PipeTypeOK
  <2> QED
    BY <2>1, <2>2, <2>3, <2>4, <2>5 DEF TestNext
<1>2. CASE ServerStep
  <2> USE <1>2 DEF ServerStep, ServerTypeOK, testVars, rtlVars, TestTypeOK, RtlTypeOK
  <2>1. CASE RequestRead
    BY <2>1, PipeReadType DEF RequestRead
  <2>2. CASE RequestWrite
    BY <2>2, PipeWriteType DEF RequestWrite
  <2>3. CASE ReplyRead
    BY <2>3, PipeReadType DEF ReplyRead
  <2>4. CASE ReplyWrite
    BY <2>4, PipeWriteType DEF ReplyWrite
  <2> QED
    BY <2>1, <2>2, <2>3, <2>4 DEF ServerNext
<1>3. CASE RtlStep
  <2> USE <1>3 DEF RtlStep, RtlTypeOK, testVars, serverVars, TestTypeOK, ServerTypeOK
  <2>1. CASE DpiRequest
    BY <2>1, PipeReadType DEF DpiRequest
  <2>2. CASE DpiStop
    BY <2>2, PipeReadType DEF DpiStop
  <2>3. CASE DpiRespond
    BY <2>3, PipeWriteType DEF DpiRespond
  <2> QED
    BY <2>1, <2>2, <2>3 DEF RtlNext
<1>4. CASE UNCHANGED vars
  BY <1>4 DEF vars, testVars, serverVars, rtlVars, PipeTypeOK, TestTypeOK, ServerTypeOK, RtlTypeOK
<1> QED
  BY <1>1, <1>2, <1>3, <1>4 DEF Next

-----------------------------------------------------------------------------
(* Where the packet goes *)

\* The threads of the relay carry a request to the device, one stage at a time.
LEMMA RequestMoves ==
    ASSUME NEW p, RequestUnderWay(p), ServerStep
    PROVE  RequestUnderWay(p)'
<1> USE DEF ServerStep, Threads, Waiting, PipeNames, rtlVars
<1>1. CASE Only("request_client", p) /\ Waiting
  <2>1. RequestRead
    BY <1>1, ReadTheOnly DEF ServerNext, RequestWrite, ReplyRead, ReplyWrite
  <2> QED
    BY <1>1, <2>1, ReadTheOnly DEF RequestRead, RequestUnderWay, Empty
<1>2. CASE Empty /\ Threads("write", "request", "read") /\ req_buf = p
  <2>1. RequestWrite
    BY <1>2, EmptyUnread DEF ServerNext, RequestRead, ReplyRead, ReplyWrite
  <2> QED
    BY <1>2, <2>1, WriteToEmpty DEF RequestWrite, RequestUnderWay, Only
<1>3. CASE Only("request_server", p) /\ Waiting
  BY <1>3, ReadTheOnly DEF ServerNext, RequestRead, RequestWrite, ReplyRead, ReplyWrite
<1> QED
  BY <1>1, <1>2, <1>3 DEF RequestUnderWay

\* They carry the reply back.
LEMMA ReplyMoves ==
    ASSUME NEW p, ReplyUnderWay(p), ServerStep
    PROVE  ReplyUnderWay(p)'
<1> USE DEF ServerStep, Threads, Waiting, PipeNames, rtlVars
<1>1. CASE Empty /\ Threads("read", "respond", "read") /\ rtl_rsp = p
  BY <1>1, EmptyUnread DEF ServerNext, RequestRead, RequestWrite, ReplyRead, ReplyWrite
<1>2. CASE Only("reply_server", ReplyTo(p)) /\ Waiting
  <2>1. ReplyRead
    BY <1>2, ReadTheOnly DEF ServerNext, RequestRead, RequestWrite, ReplyWrite
  <2> QED
    BY <1>2, <2>1, ReadTheOnly DEF ReplyRead, ReplyUnderWay, Empty, ReplyTo
<1>3. CASE Empty /\ Threads("read", "request", "write") /\ rep_buf = ReplyTo(p)
  <2>1. ReplyWrite
    BY <1>3, EmptyUnread DEF ServerNext, RequestRead, RequestWrite, ReplyRead
  <2> QED
    BY <1>3, <2>1, WriteToEmpty DEF ReplyWrite, ReplyUnderWay, Only, ReplyTo
<1>4. CASE Only("reply_client", ReplyTo(p)) /\ Waiting
  BY <1>4, ReadTheOnly DEF ServerNext, RequestRead, RequestWrite, ReplyRead, ReplyWrite
<1> QED
  BY <1>1, <1>2, <1>3, <1>4 DEF ReplyUnderWay

\* A request that reaches the device is answered, or stops it when its number is 0.
LEMMA DeviceTakes ==
    ASSUME NEW p \in Packet, RequestUnderWay(p), RtlStep
    PROVE  IF p.packet_number # 0 THEN ReplyUnderWay(p)'
                                  ELSE (Empty /\ Threads("read", "finished", "read"))'
<1> USE DEF RtlStep, Threads, Waiting, PipeNames, serverVars
<1>1. Only("request_server", p) /\ Waiting
  BY ReadTheOnly, EmptyUnread DEF RequestUnderWay, RtlNext, DpiRequest, DpiStop, DpiRespond
<1>2. DpiRequest \/ DpiStop
  BY <1>1 DEF RtlNext, DpiRespond
<1>3. PipeFirst("request_server") = p /\ Empty'
  BY <1>1, <1>2, ReadTheOnly DEF DpiRequest, DpiStop
<1>4. CASE DpiRequest
  BY <1>1, <1>3, <1>4 DEF DpiRequest, ReplyUnderWay, Empty
<1>5. CASE DpiStop
  BY <1>1, <1>3, <1>5 DEF DpiStop, Empty
<1> QED
  BY <1>2, <1>4, <1>5

\* While the reply is under way the device can only write it.
LEMMA DeviceReplies ==
    ASSUME NEW p, ReplyUnderWay(p), RtlStep
    PROVE  ReplyUnderWay(p)'
<1> USE DEF RtlStep, Threads, Waiting, PipeNames, serverVars
<1>1. Empty /\ Threads("read", "respond", "read") /\ rtl_rsp = p
  BY ReadTheOnly, EmptyUnread DEF ReplyUnderWay, RtlNext, DpiRequest, DpiStop, DpiRespond
<1>2. DpiRespond
  BY <1>1 DEF RtlNext, DpiRequest, DpiStop
<1> QED
  BY <1>1, <1>2, WriteToEmpty DEF DpiRespond, ReplyUnderWay, Only, ReplyTo

\* With no packet anywhere neither the relay nor the device can step.
LEMMA NothingMoves ==
    ASSUME Empty, req_pc = "read", rep_pc = "read", rtl_pc # "respond"
    PROVE  ~ServerStep /\ ~RtlStep
BY EmptyUnread DEF PipeNames, ServerStep, ServerNext, RequestRead, RequestWrite, ReplyRead,
   ReplyWrite, RtlStep, RtlNext, DpiRequest, DpiStop, DpiRespond

-----------------------------------------------------------------------------
(* The invariant *)

\* testhost keeps it: it sends only when nothing is under way and goes on
\* only with the reply to what it sent.
LEMMA TestKeeps == TInv /\ TestStep => (OnePacket /\ Counting /\ ResponseMatches)'
<1> SUFFICES ASSUME TInv, TestStep PROVE (OnePacket /\ Counting /\ ResponseMatches)'
  OBVIOUS
<1> USE DEF TInv, TestStep, OnePacket, Counting, ResponseMatches, PipeNames, serverVars, rtlVars,
            Threads, Waiting
<1>1. TestTypeOK /\ th_i \in Nat
  BY DEF TypeOK, TestTypeOK
<1>2. CASE TestSend
  <2>1. PICK p \in Packet : p = test_pkt' /\ p.packet_number # 0
    BY <1>1, <1>2, TestSendPacket DEF TestSend
  <2>2. Only("request_client", p)'
    BY <1>2, <2>1, WriteToEmpty DEF TestSend
  <2>3. th_pc' = "wait" /\ th_i' < NUM_XACTIONS /\ Waiting'
    BY <1>2 DEF TestSend
  <2>4. RequestUnderWay(test_pkt)'
    BY <2>1, <2>2, <2>3 DEF RequestUnderWay, Only
  <2> QED
    BY <2>1, <2>3, <2>4
<1>3. CASE TestReceive
  <2>1. Only("reply_client", ReplyTo(test_pkt)) /\ Waiting
    BY <1>3, ReadTheOnly, EmptyUnread DEF TestReceive, RequestUnderWay, ReplyUnderWay
  <2>2. tlp_data' = ReplyTo(test_pkt) /\ Empty'
    BY <1>3, <2>1, ReadTheOnly DEF TestReceive
  <2>3. IF th_pc' = "send" THEN th_i' < NUM_XACTIONS ELSE th_i' = NUM_XACTIONS
    BY <1>1, <1>3, TestHostAssumption DEF TestReceive
  <2> QED
    BY <1>3, <2>1, <2>2, <2>3 DEF TestReceive, Empty, ReplyTo
<1>4. CASE TestStop
  <2>1. PICK p \in Packet : p = test_pkt' /\ p.packet_number = 0
    BY <1>1, <1>4, TestStopPacket
  <2>2. Only("request_client", p)'
    BY <1>4, <2>1, WriteToEmpty DEF TestStop
  <2>3. th_pc' = "done" /\ th_i' = NUM_XACTIONS /\ Waiting'
    BY <1>4 DEF TestStop
  <2>4. RequestUnderWay(test_pkt)'
    BY <2>1, <2>2, <2>3 DEF RequestUnderWay, Only
  <2> QED
    BY <2>1, <2>3, <2>4
<1>5. CASE TestSendFails \/ TestStopFails
  <2>1. Empty' /\ Waiting' /\ th_pc' = "failed"
    BY <1>5 DEF TestSendFails, TestStopFails, Empty
  <2> QED
    BY <2>1
<1> QED
  BY <1>2, <1>3, <1>4, <1>5 DEF TestNext

\* So do the relay and the device.
LEMMA RelayKeeps ==
    ASSUME TInv, ServerStep \/ RtlStep
    PROVE  (OnePacket /\ Counting /\ ResponseMatches)'
<1>1. UNCHANGED testVars
  BY DEF ServerStep, RtlStep
<1>2. test_pkt \in Packet /\ th_pc \in {"send", "wait", "stop", "done", "failed"}
  BY DEF TInv, TypeOK, TestTypeOK
<1>3. (Counting /\ ResponseMatches)'
  BY <1>1 DEF TInv, Counting, ResponseMatches, testVars
<1>4. th_pc \in {"wait", "done"} /\ ~(Empty /\ Threads("read", "finished", "read"))
  BY <1>2, NothingMoves DEF TInv, OnePacket, Waiting, Threads
<1>5. PICK p \in Packet : p = test_pkt
  BY <1>2
<1>6. test_pkt' = p /\ th_pc' = th_pc
  BY <1>1, <1>5 DEF testVars
<1>7. CASE th_pc = "wait"
  <2>1. p.packet_number # 0 /\ (RequestUnderWay(p) \/ ReplyUnderWay(p))
    BY <1>5, <1>7 DEF TInv, OnePacket
  <2>2. RequestUnderWay(p)' \/ ReplyUnderWay(p)'
    BY <2>1, RequestMoves, ReplyMoves, DeviceTakes, DeviceReplies
  <2>3. RequestUnderWay(test_pkt)' \/ ReplyUnderWay(test_pkt)'
    BY <1>6, <2>2 DEF RequestUnderWay, ReplyUnderWay, Only, Empty, Threads, Waiting
  <2> QED
    BY <1>3, <1>6, <1>7, <2>1, <2>3 DEF OnePacket
<1>8. CASE th_pc = "done"
  <2>1. p.packet_number = 0 /\ RequestUnderWay(p)
    BY <1>4, <1>5, <1>8 DEF TInv, OnePacket
  <2>2. RequestUnderWay(p)' \/ (Empty /\ Threads("read", "finished", "read"))'
    BY <2>1, RequestMoves, DeviceTakes
  <2>3. RequestUnderWay(test_pkt)' \/ (Empty /\ Threads("read", "finished", "read"))'
    BY <1>6, <2>2 DEF RequestUnderWay, Only, Empty, Threads, Waiting
  <2> QED
    BY <1>3, <1>6, <1>8, <2>1, <2>3 DEF OnePacket
<1> QED
  BY <1>4, <1>7, <1>8

\* The invariant holds before the first request ...
LEMMA TestInitInv == Init => TInv
BY TestInitType, TestHostAssumption
DEF Init, PipeInit, TestInit, ServerInit, RtlInit, TInv, OnePacket, Counting, ResponseMatches,
    Empty, Waiting, Threads

\* ... and after every step.
LEMMA TestNextInv == TInv /\ [Next]_vars => TInv'
<1> SUFFICES ASSUME TInv, [Next]_vars PROVE TInv'
  OBVIOUS
<1>1. TypeOK'
  BY TestNextType DEF TInv
<1>2. (OnePacket /\ Counting /\ ResponseMatches)'
  <2>1. CASE UNCHANGED vars
    BY <2>1 DEF TInv, vars, testVars, serverVars, rtlVars, OnePacket, Counting, ResponseMatches,
       RequestUnderWay, ReplyUnderWay, Empty, Only, Waiting, Threads
  <2> QED
    BY <2>1, TestKeeps, RelayKeeps DEF Next
<1> QED
  BY <1>1, <1>2 DEF TInv

\* Where the one packet is and what it carries, in every reachable state of a test run.
THEOREM TestInvariance == Spec => []TInv
BY TestInitInv, TestNextInv, PTL DEF Spec

\* Whatever the number of transactions, the variables of a test run stay well typed: the
\* loop counter of testhost never passes NUM_XACTIONS.
THEOREM TestTypeCorrect == Spec => []TypeOK
BY TestInvariance, PTL DEF TInv

\* testhost prints with each request the reply to that request.
THEOREM ResponsesMatch == Spec => []ResponseMatches
BY TestInvariance, PTL DEF TInv

\* The packet that ends the simulation reaches the device after every
\* transaction has been answered, and is the last one in the relay.
THEOREM SimulationStopsLast == Spec => []StopsLast
<1>1. TInv => StopsLast
  <2> SUFFICES ASSUME TInv, rtl_pc = "finished"
               PROVE  /\ th_pc = "done" /\ th_i = NUM_XACTIONS
                      /\ \A n \in PipeNames : pipe[n] = << >>
                      /\ req_pc = "read" /\ rep_pc = "read"
    BY DEF StopsLast
  <2>1. th_pc = "done" /\ Empty /\ Threads("read", "finished", "read")
    BY DEF TInv, TypeOK, TestTypeOK, OnePacket, RequestUnderWay, ReplyUnderWay, Waiting, Threads
  <2> QED
    BY <2>1 DEF TInv, Counting, Empty, Threads
<1> QED
  BY <1>1, TestInvariance, PTL
=============================================================================
