-------------------------- MODULE DpiLayoutProofs --------------------------
(* Theorems about DpiLayout, for all packet numbers below 256, payloads,   *)
(* sizes up to eight bytes, and any number of requests.                    *)
EXTENDS DpiLayout, TLAPS

Bytes == 0 .. 255

\* The bytes that hold the fields of the shorter struct, which is all C code looks at.
CBytes == (0 .. 11) \cup (16 .. 39)

\* A packet of the pipes: its data ends where its size says.
IsPacket(p) ==
  /\ p = [f \in Fields |-> p[f]]
  /\ \A f \in Scalars : p[f] \in Bytes
  /\ p["data_size"] \in 1 .. 8
  /\ p["data"] \in [Lane -> Bytes]
  /\ \A i \in Lane : ~(i < p["data_size"]) => p["data"][i] = 0

\* A struct that holds packet p where C code looks for it.
Carries(mem, p) ==
  /\ \A f \in Scalars : mem[COffset[f]] = p[f]
  /\ \A i \in Lane : i < p["data_size"] => mem[32 + i] = p["data"][i]

\* A struct in which the upper bytes of every scalar are zero.
SmallNumbers(mem) ==
  /\ mem \in [Struct -> Bytes]
  /\ \A f \in Scalars : \A o \in Span(COffset, f) \ {COffset[f]} : mem[o] = 0

Inv ==
  /\ step \in {"request", "run", "respond"}
  /\ count \in 0 .. MaxRequests
  /\ pkt = [f \in Fields |-> pkt[f]] /\ reply = [f \in Fields |-> reply[f]]
  /\ SmallNumbers(req) /\ SmallNumbers(rsp)
  /\ step # "request" \/ count > 0 => IsPacket(pkt)
  /\ step = "run" => Carries(req, pkt)
  /\ step = "respond" => Carries(rsp, pkt)
  /\ ReplyEchoesRequest

-----------------------------------------------------------------------------
(* The layouts *)

\* Offsets and lengths of the scalars in C.
LEMMA CSpans ==
  /\ Span(COffset, "packet_number") = 0 .. 3 /\ COffset["packet_number"] = 0
  /\ Span(COffset, "packet_type") = 4 .. 7 /\ COffset["packet_type"] = 4
  /\ Span(COffset, "sim_type") = 8 .. 11 /\ COffset["sim_type"] = 8
  /\ Span(COffset, "physical_address") = 16 .. 23 /\ COffset["physical_address"] = 16
  /\ Span(COffset, "r0w1") = 24 .. 27 /\ COffset["r0w1"] = 24
  /\ Span(COffset, "data_size") = 28 .. 31 /\ COffset["data_size"] = 28
  /\ COffset["data"] = 32
BY DEF Span, COffset, Width

\* A byte belongs to one scalar at most, and none to the payload as well.
LEMMA CFields ==
  /\ \A f \in Scalars : /\ COffset[f] \in Span(COffset, f)
                        /\ Span(COffset, f) \subseteq CBytes
                        /\ Span(COffset, f) \subseteq 0 .. 31
  /\ \A f, g \in Scalars : Span(COffset, f) \cap Span(COffset, g) # {} => f = g
<1>1. \A f \in Scalars : f \in {"packet_number", "packet_type", "sim_type",
                                "physical_address", "r0w1", "data_size"}
  BY DEF Scalars
<1>2. \A f \in Scalars : /\ COffset[f] \in Span(COffset, f)
                         /\ Span(COffset, f) \subseteq CBytes
                         /\ Span(COffset, f) \subseteq 0 .. 31
  BY <1>1, CSpans DEF CBytes
<1>3. \A f, g \in Scalars : Span(COffset, f) \cap Span(COffset, g) # {} => f = g
  BY <1>1, CSpans
<1> QED
  BY <1>2, <1>3

\* run() copies every byte that C code looks at: base_address covers the address, the
\* address covers r0w1 and data_size, and r0w1 and data_size the payload.
LEMMA CopiedBytes == CBytes \subseteq Copied
<1>1. /\ Span(SvOffset, "packet_number") = 0 .. 3
      /\ Span(SvOffset, "packet_type") = 4 .. 7
      /\ Span(SvOffset, "sim_type") = 8 .. 11
      /\ Span(SvOffset, "base_address") = 16 .. 23
      /\ Span(SvOffset, "physical_address") = 24 .. 31
      /\ Span(SvOffset, "r0w1") = 32 .. 35
      /\ Span(SvOffset, "data_size") = 36 .. 39
  BY DEF Span, SvOffset, Width
<1>2. \A f \in Scalars \cup {"base_address"} : Span(SvOffset, f) \subseteq Copied
  BY DEF Copied
<1>3. /\ 0 .. 3 \subseteq Copied /\ 4 .. 7 \subseteq Copied /\ 8 .. 11 \subseteq Copied
      /\ 16 .. 23 \subseteq Copied /\ 24 .. 31 \subseteq Copied
      /\ 32 .. 35 \subseteq Copied /\ 36 .. 39 \subseteq Copied
  BY <1>1, <1>2 DEF Scalars
<1>4. \A o \in CBytes : \/ o \in 0 .. 3 \/ o \in 4 .. 7 \/ o \in 8 .. 11 \/ o \in 16 .. 23
                        \/ o \in 24 .. 31 \/ o \in 32 .. 35 \/ o \in 36 .. 39
  BY DEF CBytes
<1> QED
  BY <1>3, <1>4

-----------------------------------------------------------------------------
(* The two crossings *)

\* What the hosts send are packets.
LEMMA RequestsArePackets == \A p \in Requests : IsPacket(p)
<1>1. SUFFICES ASSUME NEW k \in Numbers, NEW w \in {0, 1}, NEW n \in Sizes, NEW fill \in Fills,
                      NEW p,
                      p = [packet_number |-> k, packet_type |-> 2, sim_type |-> 1,
                           physical_address |-> k, r0w1 |-> w, data_size |-> n,
                           data |-> Payload(n, fill)]
               PROVE  IsPacket(p)
  BY DEF Requests
<1>2. k \in 1 .. 255 /\ n \in 1 .. 8 /\ fill \in 0 .. 15
  BY DpiAssumption
<1>3. /\ p["packet_number"] = k /\ p["packet_type"] = 2 /\ p["sim_type"] = 1
      /\ p["physical_address"] = k /\ p["r0w1"] = w /\ p["data_size"] = n
      /\ p["data"] = Payload(n, fill)
  BY <1>1
<1>4. p = [f \in Fields |-> p[f]]
  BY <1>1 DEF Fields, Scalars
<1>5. \A f \in Scalars : p[f] \in Bytes
  BY <1>2, <1>3 DEF Scalars, Bytes
<1>6. Payload(n, fill) \in [Lane -> Bytes]
  <2>1. \A i \in Lane : (fill * (i + 1)) % 256 \in Bytes
    BY <1>2 DEF Lane, Bytes
  <2> QED
    BY <2>1 DEF Payload, Bytes
<1>7. \A i \in Lane : ~(i < n) => Payload(n, fill)[i] = 0
  BY DEF Payload
<1> QED
  BY <1>2, <1>3, <1>4, <1>5, <1>6, <1>7 DEF IsPacket

\* simics_dpi_request leaves the packet in the struct, whatever was there.
LEMMA Stored ==
  ASSUME NEW mem \in [Struct -> Bytes], NEW p, IsPacket(p)
  PROVE  SmallNumbers(StoreRequest(mem, p)) /\ Carries(StoreRequest(mem, p), p)
<1> DEFINE new == StoreRequest(mem, p)
           Field(o) == CHOOSE f \in Scalars : o \in Span(COffset, f)
<1>1. /\ new = [o \in Struct |-> new[o]]
      /\ \A o \in Struct :
           new[o] = IF \E f \in Scalars : o \in Span(COffset, f)
                    THEN ByteOf(p[Field(o)], o - COffset[Field(o)])
                    ELSE IF o >= 32 /\ o < 32 + p["data_size"] THEN p["data"][o - 32]
                    ELSE mem[o]
  BY CSpans DEF StoreRequest
<1> HIDE DEF new
<1>2. ASSUME NEW f \in Scalars, NEW o \in Span(COffset, f)
      PROVE  o \in Struct /\ new[o] = ByteOf(p[f], o - COffset[f])
  <2>1. o \in Struct
    BY CFields DEF Struct
  <2>2. Field(o) = f
    BY CFields
  <2> HIDE DEF Field
  <2> QED
    BY <1>1, <2>1, <2>2
<1> HIDE DEF Field
<1>3. \A f \in Scalars : COffset[f] \in 0 .. 31 /\ Span(COffset, f) \subseteq 0 .. 31
  BY CFields
<1>4. \A f \in Scalars : new[COffset[f]] = p[f]
  BY <1>2, <1>3, CFields DEF ByteOf
<1>5. \A f \in Scalars : \A o \in Span(COffset, f) \ {COffset[f]} : new[o] = 0
  <2>1. SUFFICES ASSUME NEW f \in Scalars, NEW o \in Span(COffset, f), o # COffset[f]
                 PROVE  new[o] = 0
    OBVIOUS
  <2>2. o - COffset[f] # 0
    BY <1>3, <2>1
  <2> QED
    BY <1>2, <2>2 DEF ByteOf
<1>6. \A i \in Lane : i < p["data_size"] => new[32 + i] = p["data"][i]
  <2>1. SUFFICES ASSUME NEW i \in Lane, i < p["data_size"]
                 PROVE  new[32 + i] = p["data"][i]
    OBVIOUS
  <2>2. 32 + i \in Struct /\ (32 + i) - 32 = i /\ 32 + i >= 32 /\ p["data_size"] \in 1 .. 8
    BY DEF Struct, Lane, IsPacket
  <2>3. 32 + i < 32 + p["data_size"]
    BY <2>1, <2>2 DEF Lane
  <2>4. ~ \E f \in Scalars : 32 + i \in Span(COffset, f)
    BY <1>3 DEF Lane
  <2> QED
    BY <1>1, <2>2, <2>3, <2>4
<1>7. \A o \in Struct : new[o] \in Bytes
  <2>1. SUFFICES ASSUME NEW o \in Struct PROVE new[o] \in Bytes
    OBVIOUS
  <2>2. CASE \E f \in Scalars : o \in Span(COffset, f)
    <3>1. PICK f \in Scalars : o \in Span(COffset, f)
      BY <2>2
    <3>2. new[o] = ByteOf(p[f], o - COffset[f]) /\ p[f] \in Bytes
      BY <1>2, <3>1 DEF IsPacket
    <3> QED
      BY <3>2 DEF ByteOf, Bytes
  <2>3. CASE ~ \E f \in Scalars : o \in Span(COffset, f)
    <3>1. CASE o >= 32 /\ o < 32 + p["data_size"]
      <4>1. o - 32 \in Lane
        BY <3>1 DEF Struct, Lane, IsPacket
      <4> QED
        BY <1>1, <2>3, <3>1, <4>1 DEF IsPacket
    <3>2. CASE ~(o >= 32 /\ o < 32 + p["data_size"])
      BY <1>1, <2>3, <3>2
    <3> QED
      BY <3>1, <3>2
  <2> QED
    BY <2>2, <2>3
<1> QED
  BY <1>1, <1>4, <1>5, <1>6, <1>7 DEF SmallNumbers, Carries, new

\* run() hands on the bytes C code looks at, whatever rsp held.
LEMMA Responded ==
  ASSUME NEW old, NEW mem, SmallNumbers(old), SmallNumbers(mem)
  PROVE  /\ SmallNumbers(Respond(old, mem))
         /\ \A o \in CBytes : Respond(old, mem)[o] = mem[o]
<1> DEFINE new == Respond(old, mem)
<1>1. /\ new = [o \in Struct |-> new[o]]
      /\ \A o \in Struct :
           \/ o \in Copied /\ new[o] = mem[o]
           \/ /\ o \notin Copied
              /\ \/ o >= 40 /\ new[o] = (mem[0] + (o - 40)) % 256
                 \/ new[o] = mem[o]
                 \/ new[o] = old[o]
  <2>1. SvOffset["data"] = 40
    BY DEF SvOffset
  <2> QED
    BY <2>1 DEF Respond
<1>2. /\ \A o \in Struct : old[o] \in Bytes /\ mem[o] \in Bytes
      /\ CBytes \subseteq Struct /\ 0 \in Struct
  BY DEF SmallNumbers, CBytes, Struct
<1> HIDE DEF new
<1>3. \A o \in CBytes : new[o] = mem[o]
  BY <1>1, <1>2, CopiedBytes
<1>4. \A o \in Struct : new[o] \in Bytes
  <2>1. \A o \in Struct : o >= 40 => (mem[0] + (o - 40)) % 256 \in Bytes
    <3>1. SUFFICES ASSUME NEW o \in Struct, o >= 40
                   PROVE  (mem[0] + (o - 40)) % 256 \in Bytes
      OBVIOUS
    <3>2. mem[0] + (o - 40) \in Nat
      <4>1. mem[0] \in Bytes
        BY <1>2
      <4>2. o - 40 \in Nat
        BY <3>1 DEF Struct
      <4>3. \A m \in Bytes, n \in Nat : m + n \in Nat
        BY DEF Bytes
      <4> QED
        BY <4>1, <4>2, <4>3
    <3>3. \A n \in Nat : n % 256 \in Bytes
      BY DEF Bytes
    <3> QED
      BY <3>2, <3>3
  <2> QED
    BY <1>1, <1>2, <2>1
<1>5. \A f \in Scalars : \A o \in Span(COffset, f) \ {COffset[f]} : new[o] = 0
  BY <1>3, CFields DEF SmallNumbers
<1> QED
  BY <1>1, <1>3, <1>4, <1>5 DEF SmallNumbers, new

\* So a struct that carries a packet is answered with one that does.
LEMMA CarriedOver ==
  ASSUME NEW old, NEW mem, NEW p, SmallNumbers(old), SmallNumbers(mem),
         IsPacket(p), Carries(mem, p)
  PROVE  Carries(Respond(old, mem), p)
<1>1. \A o \in CBytes : Respond(old, mem)[o] = mem[o]
  BY Responded
<1>2. \A f \in Scalars : COffset[f] \in CBytes
  BY CFields
<1>3. \A i \in Lane : 32 + i \in CBytes
  BY DEF Lane, CBytes
<1> QED
  BY <1>1, <1>2, <1>3 DEF Carries

\* simics_dpi_response makes the same packet of it, but for r0w1.
LEMMA Loaded ==
  ASSUME NEW mem, NEW p, IsPacket(p), Carries(mem, p)
  PROVE  LoadReply(mem) = [p EXCEPT !.r0w1 = 0]
<1>1. p = [f \in Fields |-> p[f]] /\ DOMAIN p = Fields
  BY DEF IsPacket
<1>2. /\ LoadReply(mem) = [f \in Fields |-> LoadReply(mem)[f]]
      /\ LoadReply(mem)["r0w1"] = 0
      /\ LoadReply(mem)["data"] = [i \in Lane |-> IF i < mem[28] THEN mem[32 + i] ELSE 0]
      /\ \A f \in Scalars \ {"r0w1"} : LoadReply(mem)[f] = mem[COffset[f]]
  <2>1. /\ "r0w1" \in Fields /\ "data" \in Fields /\ Scalars \subseteq Fields
        /\ "data" \notin Scalars
    BY DEF Fields, Scalars
  <2> QED
    BY <2>1, CSpans DEF LoadReply
<1>3. mem[28] = p["data_size"]
  BY CSpans DEF Carries, Scalars
<1>4. LoadReply(mem)["data"] = p["data"]
  <2>1. \A i \in Lane : LoadReply(mem)["data"][i] = p["data"][i]
    BY <1>2, <1>3 DEF Carries, IsPacket
  <2>2. p["data"] = [i \in Lane |-> p["data"][i]]
    BY DEF IsPacket
  <2>3. LoadReply(mem)["data"] = [i \in Lane |-> LoadReply(mem)["data"][i]]
    BY <1>2
  <2> QED
    BY <2>1, <2>2, <2>3
<1>5. \A f \in Scalars \ {"r0w1"} : LoadReply(mem)[f] = p[f]
  BY <1>2 DEF Carries
<1>6. \A f \in Fields : f = "data" \/ f = "r0w1" \/ f \in Scalars \ {"r0w1"}
  BY DEF Fields
<1>7. \A f \in Fields : LoadReply(mem)[f] = [p EXCEPT !.r0w1 = 0][f]
  BY <1>1, <1>2, <1>4, <1>5, <1>6
<1> QED
  BY <1>1, <1>2, <1>7

-----------------------------------------------------------------------------
(* The steps *)

\* The initial states.
LEMMA InitInv == Init => Inv
<1> SUFFICES ASSUME Init PROVE Inv
  OBVIOUS
<1>1. SmallNumbers(ZeroStruct)
  <2>1. \A f \in Scalars : Span(COffset, f) \subseteq Struct
    BY CFields DEF Struct
  <2> QED
    BY <2>1 DEF SmallNumbers, ZeroStruct, Bytes
<1>2. pkt = [f \in Fields |-> pkt[f]] /\ reply = [f \in Fields |-> reply[f]]
  BY DEF Init
<1> QED
  BY <1>1, <1>2, DpiAssumption DEF Init, Inv, ReplyEchoesRequest, Answered

\* A request comes in.
LEMMA DpiRequestInv == Inv /\ DpiRequest => Inv'
<1> SUFFICES ASSUME Inv, DpiRequest PROVE Inv'
  OBVIOUS
<1>1. PICK p \in Requests, old \in {req, ZeroStruct} : pkt' = p /\ req' = StoreRequest(old, p)
  BY DEF DpiRequest
<1>2. IsPacket(pkt')
  BY <1>1, RequestsArePackets
<1>3. old \in [Struct -> Bytes]
  BY DEF Inv, SmallNumbers, ZeroStruct, Bytes
<1>4. SmallNumbers(req') /\ Carries(req', pkt')
  BY <1>1, <1>2, <1>3, Stored
<1>5. pkt' = [f \in Fields |-> pkt'[f]]
  BY <1>2 DEF IsPacket
<1>6. step' = "run" /\ count' \in 0 .. MaxRequests /\ rsp' = rsp /\ reply' = reply
  BY DpiAssumption DEF DpiRequest, Inv
<1> QED
  BY <1>2, <1>4, <1>5, <1>6 DEF Inv, ReplyEchoesRequest, Answered

\* run() answers it.
LEMMA RunInv == Inv /\ Run => Inv'
<1> SUFFICES ASSUME Inv, Run PROVE Inv'
  OBVIOUS
<1>1. /\ step = "run" /\ step' = "respond" /\ rsp' = Respond(rsp, req)
      /\ UNCHANGED <<pkt, req, reply, count>>
  BY DEF Run
<1>2. /\ SmallNumbers(req) /\ SmallNumbers(rsp) /\ IsPacket(pkt) /\ Carries(req, pkt)
  BY <1>1 DEF Inv
<1>3. SmallNumbers(rsp') /\ Carries(rsp', pkt)
  BY <1>1, <1>2, Responded, CarriedOver
<1> QED
  BY <1>1, <1>2, <1>3 DEF Inv, ReplyEchoesRequest, Answered

\* The reply leaves the simulator.
LEMMA DpiRespondInv == Inv /\ DpiRespond => Inv'
<1> SUFFICES ASSUME Inv, DpiRespond PROVE Inv'
  OBVIOUS
<1>1. /\ step = "respond" /\ step' = "request" /\ reply' = LoadReply(rsp)
      /\ UNCHANGED <<pkt, req, rsp, count>>
  BY DEF DpiRespond
<1>2. IsPacket(pkt) /\ Carries(rsp, pkt)
  BY <1>1 DEF Inv
<1>3. reply' = [pkt EXCEPT !.r0w1 = 0]
  BY <1>1, <1>2, Loaded
<1>4. reply' = [f \in Fields |-> reply'[f]]
  BY <1>1 DEF LoadReply
<1> QED
  BY <1>1, <1>2, <1>3, <1>4 DEF Inv, ReplyEchoesRequest, Answered

\* Every step keeps the invariant.
LEMMA NextInv == Inv /\ [Next]_vars => Inv'
<1>1. Inv /\ UNCHANGED vars => Inv'
  BY DEF vars, Inv, ReplyEchoesRequest, Answered
<1> QED
  BY <1>1, DpiRequestInv, RunInv, DpiRespondInv DEF Next

-----------------------------------------------------------------------------
(* Theorems *)

\* All of the invariant: which struct carries the packet at each step of run().
THEOREM Invariance == Spec => []Inv
BY InitInv, NextInv, PTL DEF Spec

\* The variables stay well typed, and every number in a struct stays below 256.
THEOREM TypeCorrect == Spec => []TypeOK
<1>1. Inv => TypeOK
  BY DEF Inv, TypeOK, SmallNumbers, Bytes
<1> QED
  BY <1>1, Invariance, PTL

\* dpi_sv.sv and dpi_sv.c disagree about where the fields are, and the reply that leaves
\* the simulator still carries everything of the request but r0w1.
THEOREM RepliesEcho == Spec => []ReplyEchoesRequest
<1>1. Inv => ReplyEchoesRequest
  BY DEF Inv
<1> QED
  BY <1>1, Invariance, PTL
=============================================================================
