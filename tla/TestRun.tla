------------------------------ MODULE TestRun ------------------------------
(***************************************************************************)
(* A run of testhost against the relay on one machine, from the first      *)
(* request to the end of the RTL simulation.                               *)
(***************************************************************************)
EXTENDS TestHost, FifoServer, RtlDevice

vars == <<pipe, testVars, serverVars, rtlVars>>

Init == PipeInit /\ TestInit /\ ServerInit /\ RtlInit

TestStep   == TestNext /\ UNCHANGED <<serverVars, rtlVars>>
ServerStep == ServerNext /\ UNCHANGED <<testVars, rtlVars>>
RtlStep    == RtlNext /\ UNCHANGED <<testVars, serverVars>>

Next == TestStep \/ ServerStep \/ RtlStep

Spec == Init /\ [][Next]_vars

\* Every thread runs when it can.
FairSpec == /\ Spec
            /\ WF_vars(TestStep)
            /\ WF_vars((RequestRead \/ RequestWrite) /\ UNCHANGED <<testVars, rtlVars>>)
            /\ WF_vars((ReplyRead \/ ReplyWrite) /\ UNCHANGED <<testVars, rtlVars>>)
            /\ WF_vars(RtlStep)

-----------------------------------------------------------------------------
(* Properties *)

\* Every variable holds a value its declaration allows.
TypeOK == PipeTypeOK /\ TestTypeOK /\ ServerTypeOK /\ RtlTypeOK

\* The response printed with a request is the reply to that request.
ResponseMatches == th_pc \in {"send", "stop"} /\ th_i > 0 => tlp_data = ReplyTo(test_pkt)

\* The simulation ends only after every transaction has been answered, and
\* leaves no packet behind for the next run.
StopsLast == rtl_pc = "finished" =>
                /\ th_pc = "done" /\ th_i = NUM_XACTIONS
                /\ \A n \in PipeNames : pipe[n] = << >>
                /\ req_pc = "read" /\ rep_pc = "read"

\* The test comes to its end on both sides: testhost exits and the simulation
\* finishes (testhost.c:125), unless a write of testhost failed.
TestEnds == <>(th_pc = "failed" \/ (th_pc = "done" /\ rtl_pc = "finished"))
=============================================================================
