------------------------- MODULE ForwardPcieProofs -------------------------
(* Theorems about ForwardPcie, for every set of modes, BARs, windows,      *)
(* sizes, bytes, dummy value, budget and bound on failing calls.           *)
EXTENDS ForwardPcie, TLAPS

\* What the relay owes is what was abandoned, less what was never sent.
Balanced == Len(owed) + unsent = abandoned

\* While the relay carries accesses, the RTL side was told of every BAR that is set, but
\* for those whose last configuration write failed.
CopiesAgree ==
  mode = 1 /\ opened < Budget =>
    \A b \in Bars : bank[b] = 0 \/ b \in lost \/ told[b] = bank[b]

Inv == TypeOK /\ Balanced /\ CopiesAgree /\ MemoryHitsDeviceBar

-----------------------------------------------------------------------------
(* Addresses *)

\* A window begins at a multiple of eight, below 256.
LEMMA WindowFacts ==
  ASSUME NEW w \in Windows
  PROVE  /\ w \in 8 .. 240
         /\ w % 8 = 0
         /\ Window(w) \subseteq Memory
BY ForwardAssumption DEF Memory, Window

\* Memory ends where the last window can.
LEMMA MemoryFacts == Memory \subseteq 8 .. 247
BY WindowFacts DEF Memory, Window

\* A BAR's number.
LEMMA BarNumberFacts ==
  /\ \A b \in Bars : BarNumber[b] \in 0 .. 4
  /\ \A b, c \in Bars : BarNumber[b] = BarNumber[c] => b = c
<1>1. \A b \in Bars : b \in {"bar0_fwd", "bar1_fwd", "bar2_fwd", "bar3_fwd", "bar4_fwd"}
  BY ForwardAssumption DEF BarNumber
<1>2. /\ BarNumber["bar0_fwd"] = 0 /\ BarNumber["bar1_fwd"] = 1 /\ BarNumber["bar2_fwd"] = 2
      /\ BarNumber["bar3_fwd"] = 3 /\ BarNumber["bar4_fwd"] = 4
  BY DEF BarNumber
<1> QED
  BY <1>1, <1>2

\* A register's offset tells its BAR.
LEMMA BarOffsetFacts ==
  ASSUME NEW b \in Bars
  PROVE  /\ BarOffset(b) \in 16 .. 32
         /\ \A c \in Bars : BarOffset(c) = BarOffset(b) => c = b
BY BarNumberFacts DEF BarOffset

-----------------------------------------------------------------------------
(* Values *)

\* The values of a uint64, byte by byte.
Uint64s == [Lane -> 0 .. 255]

\* A byte as a value.
LEMMA Uint64Type == ASSUME NEW n \in 0 .. 255 PROVE Uint64(n) \in Uint64s
BY DEF Uint64, Uint64s, Lane

\* Shifting a value leaves a value.
LEMMA ShiftedType ==
  ASSUME NEW v \in Uint64s, NEW addr \in Nat, NEW n \in Nat
  PROVE  Shifted(v, addr, n) \in Uint64s
BY DEF Shifted, Uint64s

\* There is nothing in zero to shift.
LEMMA ShiftedZero ==
  ASSUME NEW addr \in Nat, NEW n \in Nat
  PROVE  Shifted(Uint64(0), addr, n) = Uint64(0)
BY DEF Shifted, Uint64, Lane

\* Cutting a value leaves a value, and zero as it is.
LEMMA FirstFacts ==
  ASSUME NEW n \in Nat
  PROVE  /\ \A v \in Uint64s : First(v, n) \in Uint64s
         /\ First(Uint64(0), n) = Uint64(0)
BY DEF First, Uint64, Uint64s, Lane

-----------------------------------------------------------------------------
(* Accesses *)

\* The receiver of the configuration bank is none of the BARs'.
LEMMA ConfigReceiver == "pci_config_fwd" \in Receivers \ Bars
BY ForwardAssumption DEF Receivers, BarNumber

\* A mapped access begins inside its BAR's window.
LEMMA MappedFacts ==
  ASSUME TypeOK, NEW b \in Bars, NEW addr \in Memory, NEW n \in Sizes, Mapped(b, addr, n)
  PROVE  /\ bank[b] # 0
         /\ n \in 1 .. 8
         /\ addr \in 8 .. 247
         /\ addr \in Window(bank[b])
BY MemoryFacts, ForwardAssumption DEF TypeOK, Mapped

\* What the exchange with the relay does to the queue of replies and to reply_data.
LEMMA CarryFacts ==
  ASSUME Inv, NEW r, NEW pkt, pkt.data \in Uint64s, pkt.data_size \in 0 .. 8, Carry(r, pkt)
  PROVE  /\ owed' \in Seq(Uint64s)
         /\ abandoned' \in Nat /\ unsent' \in Nat /\ abandoned' + unsent' <= MaxHostFaults
         /\ Balanced'
         /\ reply_data' \in Uint64s
         /\ abandoned = unsent /\ pkt.data = Uint64(0) => reply_data' = Uint64(0)
<1> DEFINE echo == Echo(pkt)
<1>1. echo \in Uint64s /\ (pkt.data = Uint64(0) => echo = Uint64(0))
  BY FirstFacts DEF Echo
<1> HIDE DEF echo
<1>2. owed \in Seq(Uint64s) /\ abandoned \in Nat /\ unsent \in Nat
      /\ Len(owed) + unsent = abandoned
  BY DEF Inv, TypeOK, Uint64s, Balanced
<1>3. Uint64(0) \in Uint64s
  BY Uint64Type
<1>4. PICK written \in BOOLEAN, answered \in BOOLEAN :
        LET due == IF written THEN Append(owed, echo) ELSE owed
        IN  /\ unsent' = IF written THEN unsent ELSE unsent + 1
            /\ abandoned' = IF answered THEN abandoned ELSE abandoned + 1
            /\ abandoned' + unsent' <= MaxHostFaults
            /\ answered => due # << >>
            /\ reply_data' = IF answered THEN Head(due) ELSE Uint64(0)
            /\ owed' = IF answered THEN Tail(due) ELSE due
  BY DEF Carry, echo
<1> DEFINE due == IF written THEN Append(owed, echo) ELSE owed
<1>5. due \in Seq(Uint64s) /\ Len(due) = IF written THEN Len(owed) + 1 ELSE Len(owed)
  BY <1>1, <1>2
<1>6. abandoned = unsent => owed = << >>
  BY <1>2
<1>7. abandoned = unsent /\ written => Head(due) = echo
  BY <1>1, <1>2, <1>6
<1>8. answered => due # << >>
  BY <1>4
<1>9. abandoned = unsent /\ ~written => ~answered
  BY <1>6, <1>8
<1>10. /\ reply_data' = IF answered THEN Head(due) ELSE Uint64(0)
       /\ owed' = IF answered THEN Tail(due) ELSE due
       /\ unsent' = IF written THEN unsent ELSE unsent + 1
       /\ abandoned' = IF answered THEN abandoned ELSE abandoned + 1
  BY <1>4
<1> HIDE DEF due
<1>11. answered => /\ Head(due) \in Uint64s /\ Tail(due) \in Seq(Uint64s)
                   /\ Len(Tail(due)) = Len(due) - 1
  BY <1>5, <1>8
<1>12. owed' \in Seq(Uint64s) /\ reply_data' \in Uint64s
  BY <1>3, <1>5, <1>10, <1>11
<1>13. Len(owed') = IF answered THEN Len(due) - 1 ELSE Len(due)
  BY <1>10, <1>11
<1>14. abandoned' \in Nat /\ unsent' \in Nat /\ Len(owed') + unsent' = abandoned'
  <2>1. Len(owed) \in Nat
    BY <1>2
  <2>2. Len(due) \in Nat
    BY <1>5, <2>1
  <2>3. CASE written
    BY <1>2, <1>5, <1>10, <1>13, <2>1, <2>2, <2>3
  <2>4. CASE ~written
    <3>1. unsent' = unsent + 1 /\ Len(due) = Len(owed)
      BY <1>5, <1>10, <2>4
    <3>2. CASE answered
      <4>1. Len(owed') = Len(owed) - 1 /\ abandoned' = abandoned
        BY <1>10, <1>13, <3>1, <3>2
      <4> QED
        BY <1>2, <2>1, <3>1, <4>1
    <3>3. CASE ~answered
      <4>1. Len(owed') = Len(owed) /\ abandoned' = abandoned + 1
        BY <1>10, <1>13, <3>1, <3>3
      <4> QED
        BY <1>2, <2>1, <3>1, <4>1
    <3> QED
      BY <3>2, <3>3
  <2> QED
    BY <2>3, <2>4
<1>15. abandoned = unsent /\ pkt.data = Uint64(0) => reply_data' = Uint64(0)
  BY <1>1, <1>7, <1>9, <1>10
<1> QED
  BY <1>4, <1>12, <1>14, <1>15 DEF Balanced

\* What is remembered of an access.
LEMMA WatchFacts ==
  ASSUME NEW r, NEW pkt, Carry(r, pkt)
  PROVE  \E written \in BOOLEAN :
           /\ issued' = [receiver |-> r, written |-> written]
           /\ told' = [b \in Bars |-> IF SetsBar(pkt, b) /\ written THEN pkt.data[0] ELSE told[b]]
           /\ lost' = {b \in Bars : IF SetsBar(pkt, b) THEN ~written ELSE b \in lost}
BY DEF Carry, Watch

\* An access that sets no BAR leaves the two copies as they are.
LEMMA NoBarSet ==
  ASSUME TypeOK, NEW r, NEW pkt, Carry(r, pkt), \A b \in Bars : ~SetsBar(pkt, b)
  PROVE  /\ told' = told /\ lost' = lost
         /\ issued' \in [receiver : {r}, written : BOOLEAN]
<1>1. PICK written \in BOOLEAN :
           /\ issued' = [receiver |-> r, written |-> written]
           /\ told' = [b \in Bars |-> IF SetsBar(pkt, b) /\ written THEN pkt.data[0] ELSE told[b]]
           /\ lost' = {b \in Bars : IF SetsBar(pkt, b) THEN ~written ELSE b \in lost}
  BY WatchFacts
<1>2. told \in [Bars -> {0} \cup Windows] /\ lost \subseteq Bars
  BY DEF TypeOK
<1>3. told' = [b \in Bars |-> told[b]] /\ lost' = {b \in Bars : b \in lost}
  BY <1>1
<1> QED
  BY <1>1, <1>2, <1>3

-----------------------------------------------------------------------------
(* The steps *)

\* The part of the invariant that says of which kind the values are, and how many replies
\* are owed, after a step.
Kept == /\ send_pkt'.packet_type \in 0 .. 2 /\ send_pkt'.data_size \in 0 .. 8
        /\ send_pkt'.physical_address \in 0 .. 255 /\ send_pkt'.data \in Uint64s
        /\ reply_data' \in Uint64s
        /\ opened' \in 0 .. Budget
        /\ owed' \in Seq(Uint64s)
        /\ abandoned' \in Nat /\ unsent' \in Nat /\ abandoned' + unsent' <= MaxHostFaults
        /\ Balanced'

\* The ways an access can go: sent, refused because the budget is spent, or not sent at
\* all in the other modes.
LEMMA IssueFacts ==
  ASSUME Inv, NEW r \in Receivers, NEW write \in BOOLEAN, NEW addr \in 0 .. 255,
         NEW n \in 0 .. 8, NEW v \in Uint64s, Issue(r, write, addr, n, v),
         NEW pkt, pkt = SendPkt(r, write, addr, n, v)
  PROVE  /\ Kept
         /\ mode = 1 => send_pkt' = pkt
         /\ mode = 1 /\ ~write /\ abandoned = unsent => reply_data' = Uint64(0)
         /\ \/ mode = 1 /\ opened < Budget /\ Carry(r, pkt)
            \/ /\ mode = 1 => opened' >= Budget
               /\ issued' = [receiver |-> r, written |-> FALSE]
               /\ told' = told /\ lost' = lost
<1>1. /\ pkt.packet_type \in 0 .. 2 /\ pkt.physical_address \in 0 .. 255
      /\ pkt.data_size \in 0 .. 8 /\ pkt.data \in Uint64s
      /\ ~write => pkt.data = Uint64(0)
  <2>1. Uint64(0) \in Uint64s
    BY Uint64Type
  <2>2. CASE write
    BY <2>1, <2>2 DEF SendPkt
  <2>3. CASE ~write
    BY <2>1, <2>3 DEF SendPkt
  <2> QED
    BY <2>2, <2>3
<1>2. Uint64(0) \in Uint64s
  BY Uint64Type
<1>3. /\ opened \in 0 .. Budget /\ Budget \in Nat
      /\ owed \in Seq(Uint64s) /\ abandoned \in Nat /\ unsent \in Nat
      /\ abandoned + unsent <= MaxHostFaults /\ Balanced
  BY ForwardAssumption DEF Inv, TypeOK, Uint64s
<1>4. CASE IssueToRtl(r, write, addr, n, v)
  <2>1. /\ mode = 1 /\ opened < Budget /\ opened' = opened + 1
        /\ send_pkt' = pkt /\ Carry(r, pkt)
    BY <1>4 DEF IssueToRtl, UseRtl
  <2>2. /\ owed' \in Seq(Uint64s)
        /\ abandoned' \in Nat /\ unsent' \in Nat /\ abandoned' + unsent' <= MaxHostFaults
        /\ Balanced'
        /\ reply_data' \in Uint64s
        /\ abandoned = unsent /\ pkt.data = Uint64(0) => reply_data' = Uint64(0)
    BY <1>1, <2>1, CarryFacts
  <2>3. opened' \in 0 .. Budget
    BY <1>3, <2>1
  <2>4. Kept
    BY <1>1, <2>1, <2>2, <2>3 DEF Kept
  <2> QED
    BY <1>1, <2>1, <2>2, <2>4
<1>5. CASE IssueRefused(r, write, addr, n, v)
  <2>1. /\ mode = 1 /\ opened >= Budget
        /\ send_pkt' = pkt /\ reply_data' = Uint64(0)
        /\ issued' = [receiver |-> r, written |-> FALSE]
        /\ UNCHANGED <<opened, owed, abandoned, unsent, told, lost>>
    BY <1>5 DEF IssueRefused, UseRtl, relayVars, watchVars
  <2>2. Kept
    BY <1>1, <1>2, <1>3, <2>1 DEF Kept, Balanced
  <2> QED
    BY <2>1, <2>2
<1>6. CASE IssueDummy(r)
  <2>1. /\ mode # 1
        /\ issued' = [receiver |-> r, written |-> FALSE]
        /\ UNCHANGED <<send_pkt, reply_data, opened, owed, abandoned, unsent, told, lost>>
    BY <1>6 DEF IssueDummy, UseRtl, relayVars, watchVars
  <2>2. /\ send_pkt.packet_type \in 0 .. 2 /\ send_pkt.data_size \in 0 .. 8
        /\ send_pkt.physical_address \in 0 .. 255 /\ send_pkt.data \in Uint64s
        /\ reply_data \in Uint64s
    BY DEF Inv, TypeOK, Uint64s
  <2>3. Kept
    BY <1>3, <2>1, <2>2 DEF Kept, Balanced
  <2> QED
    BY <2>1, <2>3
<1> QED
  BY <1>4, <1>5, <1>6 DEF Issue

\* A read's value is a value, and zero when nothing is left over in the relay.
LEMMA ReadValueFacts ==
  ASSUME Kept, NEW r, NEW addr \in 0 .. 255, NEW n \in 0 .. 8
  PROVE  /\ ReadValue(r, addr, n) \in Uint64s
         /\ mode = 1 /\ reply_data' = Uint64(0) => ReadValue(r, addr, n) = Uint64(0)
<1>1. reply_data' \in Uint64s /\ DummyValue \in Uint64s
  BY ForwardAssumption DEF Kept, Uint64s
<1>2. /\ Shifted(reply_data', addr, n) \in Uint64s
      /\ Shifted(DummyValue, addr, n) \in Uint64s
      /\ Shifted(Uint64(0), addr, n) = Uint64(0)
  BY <1>1, ShiftedType, ShiftedZero
<1> QED
  BY <1>2 DEF ReadValue, UseRtl

\* The type invariant after a step that kept what Kept names.
LEMMA KeptType ==
  ASSUME Kept, mode' \in Modes, bank' \in [Bars -> {0} \cup Windows], value' \in Uint64s,
         issued' \in [receiver : Receivers, written : BOOLEAN],
         told' \in [Bars -> {0} \cup Windows], lost' \subseteq Bars
  PROVE  TypeOK'
BY DEF Kept, TypeOK, Uint64s

\* The initial states.
LEMMA InitInv == Init => Inv
<1> SUFFICES ASSUME Init PROVE Inv
  OBVIOUS
<1>1. Uint64(0) \in Uint64s
  BY Uint64Type
<1>2. "pci_config_fwd" \in Receivers
  BY ConfigReceiver
<1>3. TypeOK
  <2>1. /\ bank \in [Bars -> {0} \cup Windows] /\ told \in [Bars -> {0} \cup Windows]
        /\ mode \in Modes /\ lost \subseteq Bars
    BY DEF Init
  <2>2. /\ send_pkt.packet_type = 0 /\ send_pkt.data_size = 0 /\ send_pkt.physical_address = 0
        /\ send_pkt.data = Uint64(0)
    BY DEF Init, ZeroPkt
  <2>3. /\ reply_data = Uint64(0) /\ value = Uint64(0)
        /\ opened \in 0 .. Budget /\ owed \in Seq(Uint64s)
        /\ abandoned = 0 /\ unsent = 0 /\ 0 <= MaxHostFaults
    BY ForwardAssumption DEF Init
  <2>4. issued \in [receiver : Receivers, written : BOOLEAN]
    BY <1>2 DEF Init, NothingIssued
  <2> QED
    BY <1>1, <2>1, <2>2, <2>3, <2>4 DEF TypeOK, Uint64s
<1>4. Balanced /\ CopiesAgree /\ MemoryHitsDeviceBar
  BY DEF Init, Balanced, CopiesAgree, MemoryHitsDeviceBar, ZeroPkt, NothingIssued
<1> QED
  BY <1>3, <1>4 DEF Inv

\* Simics is started again: its own state is new, the relay's and the RTL side's is not.
LEMMA RestartInv == ASSUME Inv, Restart PROVE Inv'
<1>1. Uint64(0) \in Uint64s
  BY Uint64Type
<1>2. "pci_config_fwd" \in Receivers
  BY ConfigReceiver
<1>3. TypeOK'
  <2>1. /\ bank' \in [Bars -> {0} \cup Windows] /\ mode' \in Modes /\ lost' \subseteq Bars
        /\ reply_data' = Uint64(0) /\ value' = Uint64(0)
        /\ UNCHANGED <<owed, abandoned, unsent, told>>
    BY DEF Restart
  <2>2. /\ send_pkt'.packet_type = 0 /\ send_pkt'.data_size = 0
        /\ send_pkt'.physical_address = 0 /\ send_pkt'.data = Uint64(0)
    BY DEF Restart, ZeroPkt
  <2>3. opened' \in 0 .. Budget
    BY ForwardAssumption DEF Restart
  <2>4. issued' \in [receiver : Receivers, written : BOOLEAN]
    BY <1>2 DEF Restart, NothingIssued
  <2>5. /\ owed \in Seq(Uint64s) /\ abandoned \in Nat /\ unsent \in Nat
        /\ abandoned + unsent <= MaxHostFaults /\ told \in [Bars -> {0} \cup Windows]
    BY DEF Inv, TypeOK, Uint64s
  <2> QED
    BY <1>1, <2>1, <2>2, <2>3, <2>4, <2>5 DEF TypeOK, Uint64s
<1>4. Balanced' /\ CopiesAgree' /\ MemoryHitsDeviceBar'
  BY DEF Inv, Restart, Balanced, CopiesAgree, MemoryHitsDeviceBar, NothingIssued
<1> QED
  BY <1>3, <1>4 DEF Inv

\* An access through a BAR's receiver, read or write: the BAR is mapped where the RTL side
\* was told, as long as anything is sent.
LEMMA MemoryInv ==
  ASSUME Inv, NEW b \in Bars, NEW addr \in Memory, NEW n \in Sizes, NEW write \in BOOLEAN,
         NEW v \in Uint64s, Mapped(b, addr, n), Issue(b, write, addr, n, v),
         mode' = mode, bank' = bank, value' \in Uint64s
  PROVE  Inv'
<1> DEFINE pkt == SendPkt(b, write, addr, n, v)
<1>1. /\ bank[b] # 0 /\ n \in 0 .. 8 /\ addr \in 0 .. 255
      /\ addr \in Window(bank[b])
  BY MappedFacts DEF Inv
<1>2. b \in Receivers
  BY DEF Receivers
<1>3. pkt.packet_type = 2 /\ pkt.physical_address = addr
  BY <1>2 DEF SendPkt, MemAccessType
<1>4. /\ Kept
      /\ mode = 1 => send_pkt' = pkt
      /\ \/ mode = 1 /\ opened < Budget /\ Carry(b, pkt)
         \/ /\ mode = 1 => opened' >= Budget
            /\ issued' = [receiver |-> b, written |-> FALSE]
            /\ told' = told /\ lost' = lost
  BY <1>1, <1>2, IssueFacts
<1> HIDE DEF pkt
<1>5. \A c \in Bars : ~SetsBar(pkt, c)
  BY <1>3 DEF SetsBar
<1>6. /\ told' = told /\ lost' = lost
      /\ issued' \in [receiver : {b}, written : BOOLEAN]
  <2>1. TypeOK
    BY DEF Inv
  <2>2. CASE Carry(b, pkt)
    BY <1>5, <2>1, <2>2, NoBarSet
  <2>3. CASE issued' = [receiver |-> b, written |-> FALSE] /\ told' = told /\ lost' = lost
    BY <2>3
  <2> QED
    BY <1>4, <2>2, <2>3
<1>7. TypeOK'
  BY <1>2, <1>4, <1>6, KeptType DEF Inv, TypeOK
<1>8. opened' \in Nat /\ opened \in Nat /\ Budget \in Nat
  BY <1>7, ForwardAssumption DEF Inv, TypeOK
<1>9. CopiesAgree'
  BY <1>4, <1>6, <1>8 DEF Inv, CopiesAgree
<1>10. MemoryHitsDeviceBar'
  BY <1>1, <1>3, <1>4, <1>6 DEF Inv, CopiesAgree, MemoryHitsDeviceBar
<1>11. Balanced'
  BY <1>4 DEF Kept
<1> QED
  BY <1>7, <1>9, <1>10, <1>11 DEF Inv

\* A configuration read sets no BAR.
LEMMA ConfigReadInv == ASSUME Inv, NEW b \in Bars, ConfigRead(b) PROVE Inv'
<1> DEFINE r   == "pci_config_fwd"
           pkt == SendPkt(r, FALSE, BarOffset(b), 4, Uint64(0))
<1>1. /\ BarOffset(b) \in 0 .. 255 /\ 4 \in 0 .. 8 /\ r \in Receivers /\ r \notin Bars
      /\ Uint64(0) \in Uint64s
  BY BarOffsetFacts, ConfigReceiver, Uint64Type
<1>2. pkt.packet_type = 1 /\ pkt.r0w1 = 0
  BY <1>1 DEF SendPkt, MemAccessType
<1>3. Issue(r, FALSE, BarOffset(b), 4, Uint64(0)) /\ mode' = mode /\ bank' = bank
  BY DEF ConfigRead
<1>4. /\ Kept
      /\ mode = 1 => send_pkt' = pkt
      /\ \/ mode = 1 /\ opened < Budget /\ Carry(r, pkt)
         \/ /\ mode = 1 => opened' >= Budget
            /\ issued' = [receiver |-> r, written |-> FALSE]
            /\ told' = told /\ lost' = lost
  BY <1>1, <1>3, IssueFacts
<1>5. value' \in Uint64s
  <2>1. ReadValue(r, BarOffset(b), 4) \in Uint64s
    BY <1>1, <1>4, ReadValueFacts
  <2>2. bank[b] \in 0 .. 255
    <3>1. bank \in [Bars -> {0} \cup Windows]
      BY DEF Inv, TypeOK
    <3>2. bank[b] \in {0} \cup Windows
      BY <3>1
    <3> QED
      BY <3>2, WindowFacts
  <2> QED
    BY <2>1, <2>2, Uint64Type DEF ConfigRead
<1> HIDE DEF pkt
<1>6. \A c \in Bars : ~SetsBar(pkt, c)
  BY <1>2 DEF SetsBar
<1>7. /\ told' = told /\ lost' = lost
      /\ issued' \in [receiver : {r}, written : BOOLEAN]
  <2>1. TypeOK
    BY DEF Inv
  <2>2. CASE Carry(r, pkt)
    BY <1>6, <2>1, <2>2, NoBarSet
  <2>3. CASE issued' = [receiver |-> r, written |-> FALSE] /\ told' = told /\ lost' = lost
    BY <2>3
  <2> QED
    BY <1>4, <2>2, <2>3
<1>8. TypeOK'
  BY <1>1, <1>3, <1>4, <1>5, <1>7, KeptType DEF Inv, TypeOK
<1>9. opened' \in Nat /\ opened \in Nat /\ Budget \in Nat
  BY <1>8, ForwardAssumption DEF Inv, TypeOK
<1>10. CopiesAgree'
  BY <1>3, <1>4, <1>7, <1>9 DEF Inv, CopiesAgree
<1>11. MemoryHitsDeviceBar'
  BY <1>2, <1>4, <1>7 DEF MemoryHitsDeviceBar
<1>12. Balanced'
  BY <1>4 DEF Kept
<1> QED
  BY <1>8, <1>10, <1>11, <1>12 DEF Inv

\* A configuration write sets its BAR in the bank, and tells the RTL side unless it is lost.
LEMMA ConfigWriteInv ==
  ASSUME Inv, NEW b \in Bars, NEW base \in {0} \cup Windows, ConfigWrite(b, base)
  PROVE  Inv'
<1> DEFINE r   == "pci_config_fwd"
           pkt == SendPkt(r, TRUE, BarOffset(b), 4, Uint64(base))
<1>1. base \in 0 .. 255
  BY WindowFacts
<1>2. /\ BarOffset(b) \in 0 .. 255 /\ 4 \in 0 .. 8 /\ r \in Receivers /\ r \notin Bars
      /\ Uint64(base) \in Uint64s /\ Uint64(base)[0] = base
  <2>1. BarOffset(b) \in 0 .. 255 /\ r \in Receivers /\ r \notin Bars
    BY BarOffsetFacts, ConfigReceiver
  <2>2. Uint64(base) \in Uint64s
    BY <1>1, Uint64Type
  <2>3. Uint64(base)[0] = base
    BY DEF Uint64, Lane
  <2> QED
    BY <2>1, <2>2, <2>3
<1>3. pkt.packet_type = 1 /\ pkt.r0w1 = 1 /\ pkt.physical_address = BarOffset(b)
      /\ pkt.data = Uint64(base)
  BY <1>2 DEF SendPkt, MemAccessType
<1>4. /\ Issue(r, TRUE, BarOffset(b), 4, Uint64(base)) /\ mode' = mode
      /\ bank' = [bank EXCEPT ![b] = base] /\ value' = Uint64(base)
  BY DEF ConfigWrite
<1>5. /\ Kept
      /\ mode = 1 => send_pkt' = pkt
      /\ \/ mode = 1 /\ opened < Budget /\ Carry(r, pkt)
         \/ /\ mode = 1 => opened' >= Budget
            /\ issued' = [receiver |-> r, written |-> FALSE]
            /\ told' = told /\ lost' = lost
  BY <1>2, <1>4, IssueFacts
<1> HIDE DEF pkt
<1>6. \A c \in Bars : SetsBar(pkt, c) <=> c = b
  BY <1>3, BarOffsetFacts DEF SetsBar
<1>7. /\ bank \in [Bars -> {0} \cup Windows] /\ told \in [Bars -> {0} \cup Windows]
      /\ lost \subseteq Bars /\ mode \in Modes
  BY DEF Inv, TypeOK
<1>8. CASE mode = 1 /\ opened < Budget /\ Carry(r, pkt)
  <2>1. PICK written \in BOOLEAN :
           /\ issued' = [receiver |-> r, written |-> written]
           /\ told' = [c \in Bars |-> IF SetsBar(pkt, c) /\ written THEN pkt.data[0] ELSE told[c]]
           /\ lost' = {c \in Bars : IF SetsBar(pkt, c) THEN ~written ELSE c \in lost}
    BY <1>8, WatchFacts
  <2>2. /\ told' = [c \in Bars |-> IF c = b /\ written THEN base ELSE told[c]]
        /\ lost' = {c \in Bars : IF c = b THEN ~written ELSE c \in lost}
    BY <1>2, <1>3, <1>6, <2>1
  <2>3. told' \in [Bars -> {0} \cup Windows] /\ lost' \subseteq Bars
    BY <1>7, <2>2
  <2>4. TypeOK'
    BY <1>2, <1>4, <1>5, <1>7, <2>1, <2>3, KeptType
  <2>5. CopiesAgree'
    BY <1>4, <1>7, <1>8, <2>2 DEF Inv, CopiesAgree
  <2>6. MemoryHitsDeviceBar'
    BY <1>3, <1>5, <1>8 DEF MemoryHitsDeviceBar
  <2> QED
    BY <1>5, <2>4, <2>5, <2>6 DEF Inv, Kept
<1>9. CASE /\ mode = 1 => opened' >= Budget
           /\ issued' = [receiver |-> r, written |-> FALSE]
           /\ told' = told /\ lost' = lost
  <2>1. TypeOK'
    BY <1>2, <1>4, <1>5, <1>7, <1>9, KeptType
  <2>2. opened' \in Nat /\ Budget \in Nat
    BY <2>1, ForwardAssumption DEF TypeOK
  <2>3. CopiesAgree' /\ MemoryHitsDeviceBar'
    BY <1>4, <1>9, <2>2 DEF CopiesAgree, MemoryHitsDeviceBar
  <2> QED
    BY <1>5, <2>1, <2>3 DEF Inv, Kept
<1> QED
  BY <1>5, <1>8, <1>9

\* A read of memory.
LEMMA MemoryReadInv ==
  ASSUME Inv, NEW b \in Bars, NEW addr \in Memory, NEW n \in Sizes, MemoryRead(b, addr, n)
  PROVE  Inv'
<1>1. /\ Mapped(b, addr, n) /\ Issue(b, FALSE, addr, n, Uint64(0))
      /\ mode' = mode /\ bank' = bank
      /\ value' = ReadValue(b, addr, n)
  BY DEF MemoryRead
<1>2. n \in 0 .. 8 /\ addr \in 0 .. 255 /\ b \in Receivers /\ Uint64(0) \in Uint64s
  BY <1>1, MappedFacts, Uint64Type DEF Inv, Receivers
<1>3. Kept
  BY <1>1, <1>2, IssueFacts
<1>4. value' \in Uint64s
  BY <1>1, <1>2, <1>3, ReadValueFacts
<1> QED
  BY <1>1, <1>2, <1>4, MemoryInv

\* A write to memory.
LEMMA MemoryWriteInv ==
  ASSUME Inv, NEW b \in Bars, NEW addr \in Memory, NEW n \in Sizes, NEW v \in Uint64s,
         MemoryWrite(b, addr, n, v)
  PROVE  Inv'
BY MemoryInv DEF MemoryWrite

\* The values software writes to memory.
LEMMA WrittenType ==
  ASSUME NEW byte \in Byte, NEW n \in Sizes
  PROVE  First([i \in Lane |-> byte], n) \in Uint64s
<1>1. [i \in Lane |-> byte] \in Uint64s /\ n \in Nat
  BY ForwardAssumption DEF Uint64s
<1> QED
  BY <1>1, FirstFacts

\* Every step keeps the invariant.
LEMMA NextInv == Inv /\ [Next]_vars => Inv'
<1> SUFFICES ASSUME Inv, [Next]_vars PROVE Inv'
  OBVIOUS
<1>1. ASSUME NEW b \in Bars, ConfigRead(b) PROVE Inv'
  BY <1>1, ConfigReadInv
<1>2. ASSUME NEW b \in Bars, NEW base \in {0} \cup Windows, ConfigWrite(b, base) PROVE Inv'
  BY <1>2, ConfigWriteInv
<1>3. ASSUME NEW b \in Bars, NEW addr \in Memory, NEW n \in Sizes, MemoryRead(b, addr, n)
      PROVE  Inv'
  BY <1>3, MemoryReadInv
<1>4. ASSUME NEW b \in Bars, NEW addr \in Memory, NEW n \in Sizes, NEW byte \in Byte,
             MemoryWrite(b, addr, n, First([i \in Lane |-> byte], n))
      PROVE  Inv'
  BY <1>4, WrittenType, MemoryWriteInv
<1>5. CASE Restart
  BY <1>5, RestartInv
<1>6. CASE UNCHANGED vars
  BY <1>6 DEF vars, relayVars, watchVars, Inv, TypeOK, Balanced, CopiesAgree,
              MemoryHitsDeviceBar
<1> QED
  BY <1>1, <1>2, <1>3, <1>4, <1>5, <1>6 DEF Next

-----------------------------------------------------------------------------
(* What is read *)

\* A step of the device reads zero when nothing is left over.
NothingLeftReadsZero == mode = 1 /\ send_pkt'.r0w1 = 0 /\ abandoned = unsent => value' = Uint64(0)

\* A configuration read.
LEMMA ConfigReadsZero ==
  ASSUME Inv, NEW b \in Bars, ConfigRead(b)
  PROVE  NothingLeftReadsZero
<1>1. /\ BarOffset(b) \in 0 .. 255 /\ 4 \in 0 .. 8 /\ "pci_config_fwd" \in Receivers
      /\ Uint64(0) \in Uint64s
  BY BarOffsetFacts, ConfigReceiver, Uint64Type
<1>2. Issue("pci_config_fwd", FALSE, BarOffset(b), 4, Uint64(0))
  BY DEF ConfigRead
<1>3. Kept /\ (mode = 1 /\ abandoned = unsent => reply_data' = Uint64(0))
  BY <1>1, <1>2, IssueFacts
<1>4. mode = 1 /\ reply_data' = Uint64(0) =>
        ReadValue("pci_config_fwd", BarOffset(b), 4) = Uint64(0)
  BY <1>1, <1>3, ReadValueFacts
<1> QED
  BY <1>3, <1>4 DEF ConfigRead, MainUseRtl, NothingLeftReadsZero

\* A read of memory.
LEMMA MemoryReadsZero ==
  ASSUME Inv, NEW b \in Bars, NEW addr \in Memory, NEW n \in Sizes, MemoryRead(b, addr, n)
  PROVE  NothingLeftReadsZero
<1>1. /\ Mapped(b, addr, n) /\ Issue(b, FALSE, addr, n, Uint64(0))
      /\ value' = ReadValue(b, addr, n)
  BY DEF MemoryRead
<1>2. n \in 0 .. 8 /\ addr \in 0 .. 255 /\ b \in Receivers /\ Uint64(0) \in Uint64s
  BY <1>1, MappedFacts, Uint64Type DEF Inv, Receivers
<1>3. Kept /\ (mode = 1 /\ abandoned = unsent => reply_data' = Uint64(0))
  BY <1>1, <1>2, IssueFacts
<1>4. mode = 1 /\ reply_data' = Uint64(0) => ReadValue(b, addr, n) = Uint64(0)
  BY <1>2, <1>3, ReadValueFacts
<1> QED
  BY <1>1, <1>3, <1>4 DEF NothingLeftReadsZero

\* A write leaves a packet that is no read's.
LEMMA WritesAreNoReads ==
  ASSUME Inv, NEW r \in Receivers, NEW addr \in 0 .. 255, NEW n \in 0 .. 8, NEW v \in Uint64s,
         Issue(r, TRUE, addr, n, v)
  PROVE  NothingLeftReadsZero
<1> DEFINE pkt == SendPkt(r, TRUE, addr, n, v)
<1>1. mode = 1 => send_pkt' = pkt
  BY IssueFacts
<1>2. pkt.r0w1 = 1
  BY DEF SendPkt
<1> HIDE DEF pkt
<1> QED
  BY <1>1, <1>2 DEF NothingLeftReadsZero

\* Every step.
LEMMA StepReadsZero == Inv /\ Next => NothingLeftReadsZero
<1> SUFFICES ASSUME Inv, Next PROVE NothingLeftReadsZero
  OBVIOUS
<1>1. ASSUME NEW b \in Bars, ConfigRead(b) PROVE NothingLeftReadsZero
  BY <1>1, ConfigReadsZero
<1>2. ASSUME NEW b \in Bars, NEW base \in {0} \cup Windows, ConfigWrite(b, base)
      PROVE  NothingLeftReadsZero
  <2>1. base \in 0 .. 255
    BY WindowFacts
  <2>2. /\ BarOffset(b) \in 0 .. 255 /\ 4 \in 0 .. 8 /\ "pci_config_fwd" \in Receivers
        /\ Uint64(base) \in Uint64s
    BY <2>1, BarOffsetFacts, ConfigReceiver, Uint64Type
  <2> QED
    BY <1>2, <2>2, WritesAreNoReads DEF ConfigWrite
<1>3. ASSUME NEW b \in Bars, NEW addr \in Memory, NEW n \in Sizes, MemoryRead(b, addr, n)
      PROVE  NothingLeftReadsZero
  BY <1>3, MemoryReadsZero
<1>4. ASSUME NEW b \in Bars, NEW addr \in Memory, NEW n \in Sizes, NEW byte \in Byte,
             MemoryWrite(b, addr, n, First([i \in Lane |-> byte], n))
      PROVE  NothingLeftReadsZero
  <2>1. Mapped(b, addr, n) /\ Issue(b, TRUE, addr, n, First([i \in Lane |-> byte], n))
    BY <1>4 DEF MemoryWrite
  <2>2. /\ n \in 0 .. 8 /\ addr \in 0 .. 255 /\ b \in Receivers
        /\ First([i \in Lane |-> byte], n) \in Uint64s
    <3>1. n \in 0 .. 8 /\ addr \in 0 .. 255 /\ b \in Receivers
      BY <2>1, MappedFacts DEF Inv, Receivers
    <3>2. First([i \in Lane |-> byte], n) \in Uint64s
      BY WrittenType
    <3> QED
      BY <3>1, <3>2
  <2> QED
    BY <2>1, <2>2, WritesAreNoReads
<1>5. CASE Restart
  BY <1>5 DEF Restart, NothingLeftReadsZero
<1> QED
  BY <1>1, <1>2, <1>3, <1>4, <1>5 DEF Next

-----------------------------------------------------------------------------
(* Theorems *)

\* All of the invariant: how many replies are left over in the relay, and for which BARs
\* the RTL side's knowledge is that of the bank, is what makes the rest inductive.
THEOREM Invariance == Spec => []Inv
BY InitInv, NextInv, PTL DEF Spec

\* The variables stay well typed.
THEOREM TypeCorrect == Spec => []TypeOK
<1>1. Inv => TypeOK
  BY DEF Inv
<1> QED
  BY <1>1, Invariance, PTL

\* The BARs are mapped by the bank alone; a memory packet that is sent still lies in the
\* window the RTL side was last told, unless that BAR's last configuration write was lost.
THEOREM SentToItsBar == Spec => []MemoryHitsDeviceBar
<1>1. Inv => MemoryHitsDeviceBar
  BY DEF Inv
<1> QED
  BY <1>1, Invariance, PTL

\* Data of an earlier access is read only while a reply to an abandoned access is left over.
THEOREM LeftoversOnly == Spec => OnlyLeftoversAreRead
<1>1. Inv /\ [Next]_vars =>
        [mode = 1 /\ send_pkt'.r0w1 = 0 /\ abandoned = unsent => value' = Uint64(0)]_vars
  BY StepReadsZero DEF NothingLeftReadsZero
<1> QED
  BY <1>1, Invariance, PTL DEF Spec, OnlyLeftoversAreRead
=============================================================================
