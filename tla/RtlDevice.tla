----------------------------- MODULE RtlDevice -----------------------------
(***************************************************************************)
(* The RTL side: task run() of dpi_sv.sv and the two DPI functions of      *)
(* dpi_sv.c it calls, on the server pipes.                                 *)
(***************************************************************************)
EXTENDS NamedPipe

VARIABLES
  rtl_pc,    \* "request": in simics_dpi_request, "respond": in simics_dpi_response, "finished"
  rtl_rsp    \* the SystemVerilog variable rsp: a copy of the request

rtlVars == <<rtl_pc, rtl_rsp>>

RtlTypeOK == /\ rtl_pc \in {"request", "respond", "finished"}
             /\ rtl_rsp \in Packet

RtlInit == /\ rtl_pc = "request"
           /\ rtl_rsp = ZeroPacket

\* Mutant of DpiRequest: run() answers without copying the request into rsp.
DpiRequestUncopied == /\ rtl_pc = "request"
                      /\ PipeRead("request_server")
                      /\ PipeFirst("request_server").packet_number > 0
                      /\ rtl_pc' = "respond"
                      /\ UNCHANGED rtl_rsp

\* simics_dpi_request returns a packet with a number: run() copies it into rsp.
DpiRequest == /\ rtl_pc = "request"
              /\ PipeRead("request_server")
              /\ PipeFirst("request_server").packet_number > 0
              /\ rtl_rsp' = PipeFirst("request_server")
              /\ rtl_pc' = "respond"

\* Packet number 0 ends the simulation: $finish.
DpiStop == /\ rtl_pc = "request"
           /\ PipeRead("request_server")
           /\ PipeFirst("request_server").packet_number = 0
           /\ rtl_pc' = "finished"
           /\ UNCHANGED rtl_rsp

\* simics_dpi_response.
DpiRespond == /\ rtl_pc = "respond"
              /\ PipeWrite("reply_server", ReplyTo(rtl_rsp))
              /\ rtl_pc' = "request"
              /\ UNCHANGED rtl_rsp

RtlNext == DpiRequest \/ DpiStop \/ DpiRespond
=============================================================================
