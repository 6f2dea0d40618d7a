----------------------------- MODULE DpiLayout -----------------------------
(***************************************************************************)
(* One transaction crossing between C and SystemVerilog.  dpi_sv.c is      *)
(* compiled with the simics_transaction_t of cxl_tlp_fifo.h, which has no  *)
(* base_address; the simulator's own struct (dpi_sv.sv, vc_hdrs.h) has one. *)
(* Both sides use the same memory, so a struct is a function from byte     *)
(* offsets to bytes and a field is an offset and a length.                 *)
(*                                                                         *)
(* All hosts send at most eight bytes; the payload array stands for them.  *)
(***************************************************************************)
EXTENDS Naturals

CONSTANTS
  Numbers,     \* packet numbers, all below 256
  Fills,       \* the different payloads of a size
  Sizes,       \* data_size of the requests
  MaxRequests  \* bound on requests

ASSUME DpiAssumption == /\ Numbers \subseteq 1 .. 255 /\ Fills \subseteq 0 .. 15
                        /\ Sizes \subseteq 1 .. 8 /\ MaxRequests \in Nat

VARIABLES
  step,   \* what run() does next: "request", "run", "respond"
  pkt,    \* the packet read from the request pipe
  req,    \* the variable req of run(), which keeps its bytes from request to request
  rsp,    \* the variable rsp of run()
  reply,  \* the packet written to the reply pipe
  count   \* requests so far

vars == <<step, pkt, req, rsp, reply, count>>

Lane   == 0 .. 7     \* the payload bytes in use
Struct == 0 .. 47    \* the bytes of the longer struct, up to those

\* Offsets of the fields in the two structs (base_address is SystemVerilog's only).
COffset  == [packet_number |-> 0, packet_type |-> 4, sim_type |-> 8, physical_address |-> 16,
             r0w1 |-> 24, data_size |-> 28, data |-> 32]
SvOffset == [packet_number |-> 0, packet_type |-> 4, sim_type |-> 8, base_address |-> 16,
             physical_address |-> 24, r0w1 |-> 32, data_size |-> 36, data |-> 40]

Scalars == {"packet_number", "packet_type", "sim_type", "physical_address", "r0w1", "data_size"}

Fields == Scalars \cup {"data"}

\* Length of a scalar in bytes.
Width(f) == IF f \in {"physical_address", "base_address"} THEN 8 ELSE 4

\* The bytes field f takes.
Span(offset, f) == offset[f] .. (offset[f] + Width(f) - 1)

\* Little-endian bytes of a scalar below 256, byte by byte.
ByteOf(n, i) == IF i = 0 THEN n ELSE 0

\* Whether a SystemVerilog expression i < f is true for the number that field f holds.
Exceeds(mem, f, i) == \/ mem[SvOffset[f]] > i
                      \/ \E o \in Span(SvOffset, f) \ {SvOffset[f]} : mem[o] > 0

IsZero(mem, f) == \A o \in Span(SvOffset, f) : mem[o] = 0

Payload(n, fill) == [i \in Lane |-> IF i < n THEN (fill * (i + 1)) % 256 ELSE 0]

ZeroStruct == [o \in Struct |-> 0]

\* The packets the hosts send: issue() fills in the data of writes only, testhost
\* also that of reads.
Requests == {[packet_number |-> k, packet_type |-> 2, sim_type |-> 1, physical_address |-> k,
              r0w1 |-> w, data_size |-> n, data |-> Payload(n, fill)] :
             k \in Numbers, w \in {0, 1}, n \in Sizes, fill \in Fills}

\* Mutant of StoreRequest: the payload is copied to data_size instead of data.
StoreRequestOverSize(mem, p) ==
  [o \in Struct |->
     IF o >= COffset.data_size /\ o < COffset.data_size + p.data_size THEN p.data[o - COffset.data_size]
     ELSE IF \E f \in Scalars : o \in Span(COffset, f)
     THEN LET f == CHOOSE f \in Scalars : o \in Span(COffset, f)
          IN  ByteOf(p[f], o - COffset[f])
     ELSE mem[o]]

\* The fields that dpi_sv.c assigns to *to_cosim, at its own offsets; data_size bytes
\* of payload; the rest of the struct stays as it was.
StoreRequest(mem, p) ==
  [o \in Struct |->
     IF \E f \in Scalars : o \in Span(COffset, f)
     THEN LET f == CHOOSE f \in Scalars : o \in Span(COffset, f)
          IN  ByteOf(p[f], o - COffset[f])
     ELSE IF o >= COffset.data /\ o < COffset.data + p.data_size THEN p.data[o - COffset.data]
     ELSE mem[o]]

\* Mutant of Copied: run() does not copy the field no C code knows of.
CopiedCFields == UNION {Span(SvOffset, f) : f \in Scalars}

\* The bytes of rsp that run() assigns from req, one field after the other.
Copied == UNION {Span(SvOffset, f) : f \in Scalars \cup {"base_address"}}

\* run(): rsp is a copy of req, with data of its own when req.r0w1 is 0.
Respond(old, mem) ==
  [o \in Struct |->
     IF o \in Copied THEN mem[o]
     ELSE IF o >= SvOffset.data /\ Exceeds(mem, "data_size", o - SvOffset.data)
          THEN IF IsZero(mem, "r0w1") THEN (mem[0] + (o - SvOffset.data)) % 256 ELSE mem[o]
     ELSE old[o]]

\* What simics_dpi_response reads at its own offsets: everything but r0w1 (sim_type twice),
\* and data_size bytes of payload, into a cleared packet.
LoadReply(mem) ==
  [f \in Fields |->
     CASE f = "data"  -> [i \in Lane |-> IF i < mem[COffset.data_size] THEN mem[COffset.data + i]
                                         ELSE 0]
       [] f = "r0w1"  -> 0
       [] f \notin {"data", "r0w1"} -> mem[COffset[f]]]

Init == /\ step = "request"
        /\ pkt = [f \in Fields |-> IF f = "data" THEN Payload(0, 0) ELSE 0]
        /\ req = ZeroStruct /\ rsp = ZeroStruct
        /\ reply = pkt
        /\ count = 0

\* simics_dpi_request.  The simulator hands it req itself or a cleared temporary, so
\* what it does not assign keeps its bytes or becomes zero.
DpiRequest == /\ step = "request"
              /\ count < MaxRequests
              /\ count' = count + 1
              /\ \E p \in Requests, old \in {req, ZeroStruct} :
                   pkt' = p /\ req' = StoreRequest(old, p)
              /\ step' = "run"
              /\ UNCHANGED <<rsp, reply>>

\* The branch of run() that answers (no request here has packet number 0).
Run == /\ step = "run"
       /\ rsp' = Respond(rsp, req)
       /\ step' = "respond"
       /\ UNCHANGED <<pkt, req, reply, count>>

\* simics_dpi_response.
DpiRespond == /\ step = "respond"
              /\ reply' = LoadReply(rsp)
              /\ step' = "request"
              /\ UNCHANGED <<pkt, req, rsp, count>>

Next == DpiRequest \/ Run \/ DpiRespond

Spec == Init /\ [][Next]_vars

-----------------------------------------------------------------------------
(* Properties *)

Answered == step = "request" /\ count > 0

\* Every number a field of either struct holds is below 256, as the definitions above
\* assume, and the packets are packets.
TypeOK == /\ step \in {"request", "run", "respond"}
          /\ DOMAIN pkt = Fields /\ DOMAIN reply = Fields
          /\ \A mem \in {req, rsp} :
               /\ mem \in [Struct -> 0 .. 255]
               /\ \A f \in Scalars : \A o \in Span(COffset, f) \ {COffset[f]} : mem[o] = 0
          /\ count \in 0 .. MaxRequests

\* The reply carries the number, types, address, size and data of its own request,
\* although SystemVerilog sees the fields in the wrong places, and whatever earlier
\* transactions left in req and rsp.  So the data of a read comes back as the host sent it,
\* and what run() makes up for reads (dpi_sv.sv:59) never leaves the simulator.
ReplyEchoesRequest ==
  Answered => reply = [pkt EXCEPT !.r0w1 = 0]
=============================================================================
