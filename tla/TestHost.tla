------------------------------ MODULE TestHost -----------------------------
(***************************************************************************)
(* testhost.c: a host of its own that sends NUM_XACTIONS requests, waits   *)
(* for a reply after each, and then sends the packet that ends the         *)
(* simulation.  Its pipes are already open when it starts here.  A write   *)
(* that fails ends it; its read(2) does not fail here.                     *)
(***************************************************************************)
EXTENDS NamedPipe

CONSTANT NUM_XACTIONS

ASSUME TestHostAssumption == NUM_XACTIONS \in Nat \ {0} /\ NUM_XACTIONS < Modulus

VARIABLES
  th_pc,      \* "send", "wait", "stop": before the last packet, "done", "failed"
  th_i,       \* the loop counter
  test_pkt,   \* the request
  tlp_data    \* the response

testVars == <<th_pc, th_i, test_pkt, tlp_data>>

TestTypeOK == /\ th_pc \in {"send", "wait", "stop", "done", "failed"}
              /\ th_i \in 0 .. NUM_XACTIONS
              /\ test_pkt \in Packet
              /\ tlp_data \in Packet

TestInit == th_pc = "send" /\ th_i = 0 /\ test_pkt = ZeroPacket /\ tlp_data = ZeroPacket

\* The requests are numbered from 1 and are reads and writes in turn.
NextRequest == [packet_number |-> th_i + 1, r0w1 |-> th_i % 2, physical_address |-> 0]

TestSend == /\ th_pc = "send"
            /\ test_pkt' = NextRequest
            /\ PipeWrite("request_client", test_pkt')
            /\ th_pc' = "wait"
            /\ UNCHANGED <<th_i, tlp_data>>

\* The write fails and testhost exits, without the packet that ends the simulation.
TestSendFails == /\ th_pc = "send"
                 /\ test_pkt' = NextRequest
                 /\ th_pc' = "failed"
                 /\ UNCHANGED <<pipe, th_i, tlp_data>>

\* Mutant of TestReceive: the loop runs once too often.
TestReceiveOnceMore == /\ th_pc = "wait"
                       /\ PipeRead("reply_client")
                       /\ tlp_data' = PipeFirst("reply_client")
                       /\ th_i' = th_i + 1
                       /\ th_pc' = IF th_i <= NUM_XACTIONS THEN "send" ELSE "stop"
                       /\ UNCHANGED test_pkt

\* Any reply will do: its number is printed, not compared.
TestReceive == /\ th_pc = "wait"
               /\ PipeRead("reply_client")
               /\ tlp_data' = PipeFirst("reply_client")
               /\ th_i' = th_i + 1
               /\ th_pc' = IF th_i + 1 < NUM_XACTIONS THEN "send" ELSE "stop"
               /\ UNCHANGED test_pkt

\* Mutant of TestStop: the loop is left without waiting for the reply.
TestStopEarly == /\ th_pc \in {"wait", "stop"}
                 /\ test_pkt' = [test_pkt EXCEPT !.packet_number = 0]
                 /\ PipeWrite("request_client", test_pkt')
                 /\ th_pc' = "done"
                 /\ UNCHANGED <<th_i, tlp_data>>

\* Mutant of TestStop: the number of the last packet is not reset.
TestStopNumbered == /\ th_pc = "stop"
                    /\ PipeWrite("request_client", test_pkt)
                    /\ th_pc' = "done"
                    /\ UNCHANGED <<th_i, test_pkt, tlp_data>>

\* The packet whose number is 0; no reply is waited for.
TestStop == /\ th_pc = "stop"
            /\ test_pkt' = [test_pkt EXCEPT !.packet_number = 0]
            /\ PipeWrite("request_client", test_pkt')
            /\ th_pc' = "done"
            /\ UNCHANGED <<th_i, tlp_data>>

\* The write of that packet fails, and main() returns 1.
TestStopFails == /\ th_pc = "stop"
                 /\ test_pkt' = [test_pkt EXCEPT !.packet_number = 0]
                 /\ th_pc' = "failed"
                 /\ UNCHANGED <<pipe, th_i, tlp_data>>

TestNext == TestSend \/ TestSendFails \/ TestReceive \/ TestStop \/ TestStopFails
=============================================================================
