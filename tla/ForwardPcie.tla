---------------------------- MODULE ForwardPcie ----------------------------
(***************************************************************************)
(* The device the simulated machine sees: forward_pcie_main, whose         *)
(* configuration bank passes every access on to a forward_receiver, and    *)
(* whose BARs map one forward_receiver each, wired by forward_comp.  A     *)
(* forward_receiver with use_rtl sends the access to the RTL device and    *)
(* completes it with the reply.                                            *)
(*                                                                         *)
(* The relay in between is the queue it is shown to be (OrderedReplies):   *)
(* every request written is answered once, in order, whoever takes the     *)
(* answer.  The RTL device is run() of dpi_sv.sv: it keeps nothing and     *)
(* answers with the request (DpiLayout).  The BARs are the configuration   *)
(* registers modelled; an address is below 256, so that it is the first    *)
(* byte of a value.                                                        *)
(***************************************************************************)
EXTENDS Naturals, Sequences

CONSTANTS
  Modes,         \* values of forward_comp's use_rtl_mode
  Bars,          \* the receivers mapped by the BARs in use
  Windows,       \* addresses that a BAR can be set to; 0 means not mapped
  Sizes,         \* sizes of memory accesses
  Byte,          \* bytes written to memory
  DummyValue,    \* dummy_return_value, byte by byte
  Budget,        \* accesses for which a Simics process can open the pipes
  MaxHostFaults  \* bound on failed and interrupted pipe calls

Lane == 0 .. 7

\* bar0_fwd ... bar4_fwd, and the BAR each is mapped by.
BarNumber == [bar0_fwd |-> 0, bar1_fwd |-> 1, bar2_fwd |-> 2, bar3_fwd |-> 3, bar4_fwd |-> 4]

ASSUME ForwardAssumption == /\ Modes \subseteq 0 .. 2 /\ Bars \subseteq DOMAIN BarNumber
                            /\ Windows \subseteq {8 * n : n \in 1 .. 30}
                            /\ Sizes \subseteq {1, 2, 4, 8} /\ Byte \subseteq 0 .. 255
                            /\ DummyValue \in [Lane -> 0 .. 255]
                            /\ Budget \in Nat /\ MaxHostFaults \in Nat

VARIABLES
  mode,        \* use_rtl_mode, set before the objects are made
  bank,        \* BAR values in forward_pcie_main's configuration bank
  send_pkt,    \* static buffers of forward-receiver.c: the packet issue() sends,
  reply_data,  \* and the data it got
  opened,      \* accesses for which this Simics process opened the pipes
  owed,        \* data of the replies the relay owes, in the order of their requests
  abandoned,   \* accesses that stopped waiting for their reply
  unsent,      \* accesses whose request was not written
  value,       \* the value the software read or wrote last
  issued,      \* the receiver of the last access, and whether its packet was written
  told,        \* BAR values in the last configuration write that was written for each
  lost         \* BARs whose last configuration write failed

relayVars == <<opened, owed, abandoned, unsent>>
watchVars == <<told, lost>>

vars == <<mode, bank, send_pkt, reply_data, relayVars, value, issued, watchVars>>

\* The forward_receiver objects: one for the configuration bank, one for every BAR.
Receivers == {"pci_config_fwd"} \cup Bars

\* Size of the window of a BAR (1 << size_bits in the code; eight bytes here).
Window(base) == base .. (base + 7)

Memory == UNION {Window(base) : base \in Windows}

\* Offset of a BAR's register in the configuration space.
BarOffset(b) == 16 + 4 * BarNumber[b]

\* Attributes that add_objects sets.
UseRtl(r) == mode = 1

MainUseRtl == mode = 1

MemAccessType(r) == r \in Bars

\* Values as the eight bytes of a uint64.
Uint64(n)    == [i \in Lane |-> IF i = 0 THEN n ELSE 0]
First(v, n)  == [i \in Lane |-> IF i < n THEN v[i] ELSE 0]

\* (value >> align*8) & mask.
Shifted(v, addr, n) ==
  [i \in Lane |-> IF i < n /\ i + (addr % 8) \in Lane THEN v[i + (addr % 8)] ELSE 0]

\* Mutant of SendPkt: packet_type and data_size mixed up.
SendPktSwapped(r, write, addr, n, v) ==
  [packet_type |-> n, sim_type |-> 1, physical_address |-> addr, r0w1 |-> IF write THEN 1 ELSE 0,
   data_size |-> IF MemAccessType(r) THEN 2 ELSE 1, data |-> IF write THEN v ELSE Uint64(0)]

\* Mutant of SendPkt: issue() without the memset of send_pkt.
SendPktUncleared(r, write, addr, n, v) ==
  [packet_type |-> IF MemAccessType(r) THEN 2 ELSE 1, sim_type |-> 1, physical_address |-> addr,
   r0w1 |-> IF write THEN 1 ELSE 0, data_size |-> n, data |-> IF write THEN v ELSE send_pkt.data]

\* The transaction issue() sends for an access of n bytes.
SendPkt(r, write, addr, n, v) ==
  [packet_type |-> IF MemAccessType(r) THEN 2 ELSE 1, sim_type |-> 1, physical_address |-> addr,
   r0w1 |-> IF write THEN 1 ELSE 0, data_size |-> n, data |-> IF write THEN v ELSE Uint64(0)]

ZeroPkt == [packet_type |-> 0, sim_type |-> 0, physical_address |-> 0, r0w1 |-> 0,
            data_size |-> 0, data |-> Uint64(0)]

\* The data of run()'s answer: the request's, data_size bytes of it.
Echo(pkt) == First(pkt.data, pkt.data_size)

SetsBar(pkt, b) == pkt.packet_type = 1 /\ pkt.r0w1 = 1 /\ pkt.physical_address = BarOffset(b)

\* What is remembered of an access of receiver r, for the properties.
Watch(r, pkt, written) ==
  /\ issued' = [receiver |-> r, written |-> written]
  /\ told' = [b \in Bars |-> IF SetsBar(pkt, b) /\ written THEN pkt.data[0] ELSE told[b]]
  /\ lost' = {b \in Bars : IF SetsBar(pkt, b) THEN ~written ELSE b \in lost}

\* simics_send_access_to_cosim once the pipes are open: the request is written or it is
\* not, and the host takes the reply owed longest, if there is one, or is interrupted.
Carry(r, pkt) ==
  \E written, answered \in BOOLEAN :
    LET due == IF written THEN Append(owed, Echo(pkt)) ELSE owed
    IN  /\ unsent' = IF written THEN unsent ELSE unsent + 1
        /\ abandoned' = IF answered THEN abandoned ELSE abandoned + 1
        /\ abandoned' + unsent' <= MaxHostFaults
        /\ answered => due # << >>
        /\ reply_data' = IF answered THEN Head(due) ELSE Uint64(0)
        /\ owed' = IF answered THEN Tail(due) ELSE due
        /\ Watch(r, pkt, written)

\* issue() of receiver r with use_rtl, which completes the access whatever became of it.
IssueToRtl(r, write, addr, n, v) ==
  /\ UseRtl(r) /\ opened < Budget
  /\ opened' = opened + 1
  /\ send_pkt' = SendPkt(r, write, addr, n, v)
  /\ Carry(r, send_pkt')

\* simics_send_access_to_cosim returned -1, which issue() ignores.
IssueRefused(r, write, addr, n, v) ==
  /\ UseRtl(r) /\ opened >= Budget
  /\ send_pkt' = SendPkt(r, write, addr, n, v)
  /\ reply_data' = Uint64(0)
  /\ issued' = [receiver |-> r, written |-> FALSE]
  /\ UNCHANGED <<relayVars, watchVars>>

IssueDummy(r) ==
  /\ ~UseRtl(r)
  /\ issued' = [receiver |-> r, written |-> FALSE]
  /\ UNCHANGED <<send_pkt, reply_data, relayVars, watchVars>>

Issue(r, write, addr, n, v) == \/ IssueToRtl(r, write, addr, n, v)
                               \/ IssueRefused(r, write, addr, n, v)
                               \/ IssueDummy(r)

\* The value issue() gives back for a read.
ReadValue(r, addr, n) == Shifted(IF UseRtl(r) THEN reply_data' ELSE DummyValue, addr, n)

NothingIssued == [receiver |-> "pci_config_fwd", written |-> FALSE]

Init == /\ mode \in Modes
        /\ bank = [b \in Bars |-> 0]
        /\ send_pkt = ZeroPkt /\ reply_data = Uint64(0)
        /\ opened = 0 /\ owed = << >> /\ abandoned = 0 /\ unsent = 0
        /\ value = Uint64(0)
        /\ issued = NothingIssued
        /\ told = [b \in Bars |-> 0] /\ lost = {}

\* Simics ends between two accesses and is started again, with a mode of its own; the
\* relay and the RTL side go on.  (One that ends within an access was interrupted first.)
Restart == /\ mode' \in Modes
           /\ bank' = [b \in Bars |-> 0]
           /\ send_pkt' = ZeroPkt /\ reply_data' = Uint64(0)
           /\ opened' = 0
           /\ value' = Uint64(0)
           /\ issued' = NothingIssued
           /\ lost' = {}
           /\ UNCHANGED <<owed, abandoned, unsent, told>>

\* io_memory_access for a read of a BAR: the bank reads its register, the access is
\* forwarded in any case, and use_rtl of the main device chooses between the values.
ConfigRead(b) == /\ Issue("pci_config_fwd", FALSE, BarOffset(b), 4, Uint64(0))
                 /\ value' = IF MainUseRtl THEN ReadValue("pci_config_fwd", BarOffset(b), 4)
                                           ELSE Uint64(bank[b])
                 /\ UNCHANGED <<mode, bank>>

\* Mutant of ConfigWrite: the value passed on is taken before the bank has the new one.
ConfigWriteStale(b, base) == /\ bank' = [bank EXCEPT ![b] = base]
                             /\ Issue("pci_config_fwd", TRUE, BarOffset(b), 4, Uint64(bank[b]))
                             /\ value' = Uint64(base)
                             /\ UNCHANGED mode

\* io_memory_access for a write: the bank first, then the forwarding.
ConfigWrite(b, base) == /\ bank' = [bank EXCEPT ![b] = base]
                        /\ Issue("pci_config_fwd", TRUE, BarOffset(b), 4, Uint64(base))
                        /\ value' = Uint64(base)
                        /\ UNCHANGED mode

\* A BAR that is set maps its receiver where the bank says, and the receiver sees absolute
\* addresses (m->start = m->base).
Mapped(b, addr, n) == bank[b] # 0 /\ {addr, addr + n - 1} \subseteq Window(bank[b])

MemoryRead(b, addr, n) == /\ Mapped(b, addr, n)
                          /\ Issue(b, FALSE, addr, n, Uint64(0))
                          /\ value' = ReadValue(b, addr, n)
                          /\ UNCHANGED <<mode, bank>>

MemoryWrite(b, addr, n, v) == /\ Mapped(b, addr, n)
                              /\ Issue(b, TRUE, addr, n, v)
                              /\ value' = v
                              /\ UNCHANGED <<mode, bank>>

\* The software of the machine never puts two BARs in one place.
Next == \/ Restart
        \/ \E b \in Bars :
             \/ ConfigRead(b)
             \/ \E base \in {0} \cup Windows :
                  (\A other \in Bars \ {b} : base # 0 => bank[other] # base) /\ ConfigWrite(b, base)
             \/ \E addr \in Memory, n \in Sizes :
                  \/ MemoryRead(b, addr, n)
                  \/ \E byte \in Byte : MemoryWrite(b, addr, n, First([i \in Lane |-> byte], n))

Spec == Init /\ [][Next]_vars

-----------------------------------------------------------------------------
(* Properties *)

TypeOK == /\ mode \in Modes
          /\ bank \in [Bars -> {0} \cup Windows]
          /\ send_pkt.packet_type \in 0 .. 2 /\ send_pkt.data_size \in 0 .. 8
          /\ send_pkt.physical_address \in 0 .. 255 /\ send_pkt.data \in [Lane -> 0 .. 255]
          /\ reply_data \in [Lane -> 0 .. 255]
          /\ opened \in 0 .. Budget
          /\ owed \in Seq([Lane -> 0 .. 255])
          /\ abandoned \in Nat /\ unsent \in Nat /\ abandoned + unsent <= MaxHostFaults
          /\ value \in [Lane -> 0 .. 255]
          /\ issued \in [receiver : Receivers, written : BOOLEAN]
          /\ told \in [Bars -> {0} \cup Windows] /\ lost \subseteq Bars

\* Every memory packet lies in the window that the RTL side was last told for that BAR,
\* although the bank alone decides the mapping, through refused and interrupted accesses
\* and restarts of Simics: the only BARs it does not hold for are those whose last
\* configuration write failed.
MemoryHitsDeviceBar ==
  issued.written /\ send_pkt.packet_type = 2 /\ issued.receiver \notin lost =>
    send_pkt.physical_address \in Window(told[issued.receiver])

\* Unless more accesses were abandoned than were never sent, a read through the RTL side
\* gives 0, whatever was written before, refused or restarted: no data of an earlier access
\* comes back by way of the static buffers of issue() or of the relay.
OnlyLeftoversAreRead ==
  [][mode = 1 /\ send_pkt'.r0w1 = 0 /\ abandoned = unsent => value' = Uint64(0)]_vars
=============================================================================
