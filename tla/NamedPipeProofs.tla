-------------------------- MODULE NamedPipeProofs --------------------------
(* What the proofs about every relay need of packets and pipes. *)
EXTENDS NamedPipe, SequenceTheorems, TLAPS

\* A cleared packet and the reply to a packet are packets.
LEMMA PacketFacts ==
    /\ ZeroPacket \in Packet
    /\ \A p \in Packet : ReplyTo(p) \in Packet
<1>1. 0 \in 0 .. (Modulus - 1)
  BY TlpAssumption
<1>2. ZeroPacket \in Packet
  BY <1>1, TlpAssumption DEF ZeroPacket, Packet
<1>3. ASSUME NEW p \in Packet PROVE ReplyTo(p) \in Packet
  BY DEF ReplyTo, Packet
<1> QED
  BY <1>2, <1>3

\* Writing a packet to one pipe keeps every pipe a sequence of packets.
LEMMA PipeWriteType ==
    ASSUME PipeTypeOK, NEW n \in PipeNames, NEW pkt \in Packet, PipeWrite(n, pkt)
    PROVE  PipeTypeOK'
BY DEF PipeTypeOK, PipeWrite

\* Reading from one pipe keeps every pipe a sequence of packets and yields a packet.
LEMMA PipeReadType ==
    ASSUME PipeTypeOK, NEW n \in PipeNames, PipeRead(n)
    PROVE  PipeTypeOK' /\ PipeFirst(n) \in Packet
<1>1. pipe[n] \in Seq(Packet) /\ pipe[n] # << >>
  BY DEF PipeTypeOK, PipeRead
<1>2. Head(pipe[n]) \in Packet /\ Tail(pipe[n]) \in Seq(Packet)
  BY <1>1
<1> QED
  BY <1>2 DEF PipeTypeOK, PipeRead, PipeFirst

\* A write makes one pipe longer by one, and leaves the others alone.
LEMMA PipeWriteLength ==
    ASSUME PipeTypeOK, NEW n \in PipeNames, NEW pkt \in Packet, PipeWrite(n, pkt)
    PROVE  /\ \A m \in PipeNames : Len(pipe[m]) \in Nat
           /\ pipe'[n] = Append(pipe[n], pkt) /\ Len(pipe'[n]) = Len(pipe[n]) + 1
           /\ \A m \in PipeNames \ {n} : pipe'[m] = pipe[m]
<1>1. \A m \in PipeNames : pipe[m] \in Seq(Packet)
  BY DEF PipeTypeOK
<1>2. pipe'[n] = Append(pipe[n], pkt) /\ \A m \in PipeNames \ {n} : pipe'[m] = pipe[m]
  BY DEF PipeTypeOK, PipeWrite
<1> QED
  BY <1>1, <1>2

\* A read makes one pipe shorter by one, and leaves the others alone.
LEMMA PipeReadLength ==
    ASSUME PipeTypeOK, NEW n \in PipeNames, PipeRead(n)
    PROVE  /\ \A m \in PipeNames : Len(pipe[m]) \in Nat
           /\ pipe[n] # << >> /\ PipeFirst(n) = pipe[n][1]
           /\ pipe'[n] = Tail(pipe[n]) /\ Len(pipe'[n]) = Len(pipe[n]) - 1
           /\ \A m \in PipeNames \ {n} : pipe'[m] = pipe[m]
<1>1. \A m \in PipeNames : pipe[m] \in Seq(Packet)
  BY DEF PipeTypeOK
<1>2. pipe[n] # << >> /\ pipe'[n] = Tail(pipe[n]) /\ \A m \in PipeNames \ {n} : pipe'[m] = pipe[m]
  BY DEF PipeTypeOK, PipeRead
<1> QED
  BY <1>1, <1>2 DEF PipeFirst

-----------------------------------------------------------------------------
(* Packets as the replies owed for them *)

\* Packets as the replies they will become.
AsReplies(s) == [i \in DOMAIN s |-> ReplyTo(s[i])]

\* As many replies as packets, each to the packet in its place.
LEMMA AsRepliesElements ==
  ASSUME NEW s \in Seq(Packet)
  PROVE  /\ AsReplies(s) \in Seq(Packet)
         /\ Len(AsReplies(s)) = Len(s)
         /\ \A i \in 1 .. Len(s) : AsReplies(s)[i] = ReplyTo(s[i])
<1>1. DOMAIN s = 1 .. Len(s) /\ Len(s) \in Nat /\ \A i \in 1 .. Len(s) : s[i] \in Packet
  BY LenProperties, ElementOfSeq
<1>2. AsReplies(s) \in [1 .. Len(s) -> Packet]
  BY <1>1, PacketFacts DEF AsReplies
<1>3. AsReplies(s) \in Seq(Packet)
  BY <1>1, <1>2, SeqDef
<1>4. DOMAIN AsReplies(s) = 1 .. Len(AsReplies(s)) /\ Len(AsReplies(s)) \in Nat
  BY <1>3, LenProperties
<1>5. DOMAIN AsReplies(s) = 1 .. Len(s)
  BY <1>1 DEF AsReplies
<1>6. Len(AsReplies(s)) = Len(s)
  <2>1. ASSUME NEW m \in Nat, NEW n \in Nat, m < n
        PROVE  1 .. m # 1 .. n
    <3>1. n \in 1 .. n /\ n \notin 1 .. m
      BY <2>1
    <3> QED
      BY <3>1
  <2>2. PICK m \in Nat, n \in Nat : m = Len(AsReplies(s)) /\ n = Len(s)
    BY <1>1, <1>4
  <2>3. 1 .. m = 1 .. n
    BY <1>4, <1>5, <2>2
  <2>4. ~(m < n) /\ ~(n < m)
    BY <2>1, <2>3
  <2>5. m = n
    BY <2>4
  <2> QED
    BY <2>2, <2>5
<1> QED
  BY <1>1, <1>3, <1>6 DEF AsReplies

\* One after the other.
LEMMA AsRepliesConcat ==
  ASSUME NEW s \in Seq(Packet), NEW t \in Seq(Packet)
  PROVE  AsReplies(s \o t) = AsReplies(s) \o AsReplies(t)
<1>1. s \o t \in Seq(Packet) /\ Len(s) \in Nat /\ Len(t) \in Nat
  BY ConcatProperties, LenProperties
<1>2. /\ AsReplies(s) \in Seq(Packet) /\ Len(AsReplies(s)) = Len(s)
      /\ AsReplies(t) \in Seq(Packet) /\ Len(AsReplies(t)) = Len(t)
      /\ AsReplies(s \o t) \in Seq(Packet) /\ Len(AsReplies(s \o t)) = Len(s \o t)
  BY <1>1, AsRepliesElements
<1>3. /\ Len(s \o t) = Len(s) + Len(t)
      /\ AsReplies(s) \o AsReplies(t) \in Seq(Packet)
      /\ Len(AsReplies(s) \o AsReplies(t)) = Len(s) + Len(t)
  BY <1>2, ConcatProperties
<1>4. ASSUME NEW i \in 1 .. Len(s \o t)
      PROVE  AsReplies(s \o t)[i] = (AsReplies(s) \o AsReplies(t))[i]
  <2>1. AsReplies(s \o t)[i] = ReplyTo((s \o t)[i])
    BY <1>1, AsRepliesElements
  <2>2. CASE i <= Len(s)
    <3>1. i \in 1 .. Len(s)
      BY <1>1, <1>3, <2>2
    <3>2. (s \o t)[i] = s[i] /\ (AsReplies(s) \o AsReplies(t))[i] = AsReplies(s)[i]
      BY <1>1, <1>2, <1>3, <2>2, ConcatProperties
    <3> QED
      BY <2>1, <3>1, <3>2, AsRepliesElements
  <2>3. CASE ~(i <= Len(s))
    <3>1. i - Len(s) \in 1 .. Len(t)
      BY <1>1, <1>3, <2>3
    <3>2. /\ (s \o t)[i] = t[i - Len(s)]
          /\ (AsReplies(s) \o AsReplies(t))[i] = AsReplies(t)[i - Len(s)]
      BY <1>1, <1>2, <1>3, <2>3, ConcatProperties
    <3> QED
      BY <2>1, <3>1, <3>2, AsRepliesElements
  <2> QED
    BY <2>2, <2>3
<1> QED
  BY <1>2, <1>3, <1>4, SeqEqual

\* None, and one.
LEMMA AsRepliesShort ==
  /\ AsReplies(<< >>) = << >>
  /\ \A p \in Packet : AsReplies(<<p>>) = <<ReplyTo(p)>>
<1>1. AsReplies(<< >>) = << >>
  BY DEF AsReplies
<1>2. ASSUME NEW p \in Packet PROVE AsReplies(<<p>>) = <<ReplyTo(p)>>
  <2>1. /\ <<p>> \in Seq(Packet) /\ Len(<<p>>) = 1 /\ <<p>>[1] = p
        /\ <<ReplyTo(p)>> \in Seq(Packet)
    BY PacketFacts
  <2>2. /\ AsReplies(<<p>>) \in Seq(Packet)
        /\ Len(AsReplies(<<p>>)) = Len(<<p>>)
        /\ \A i \in 1 .. Len(<<p>>) : AsReplies(<<p>>)[i] = ReplyTo(<<p>>[i])
    BY <2>1, AsRepliesElements, Zenon
  <2> QED
    BY <2>1, <2>2, SeqEqual
<1> QED
  BY <1>1, <1>2

\* The first and the rest of a longer sequence are those of its beginning.
LEMMA HeadTailConcat ==
  ASSUME NEW s \in Seq(Packet), NEW t \in Seq(Packet), s # << >>
  PROVE  s \o t # << >> /\ Head(s \o t) = Head(s) /\ Tail(s \o t) = Tail(s) \o t
<1>1. /\ Len(s) \in Nat \ {0} /\ Len(t) \in Nat
      /\ s \o t \in Seq(Packet) /\ Len(s \o t) = Len(s) + Len(t)
      /\ \A i \in 1 .. Len(s) + Len(t) :
           (s \o t)[i] = IF i <= Len(s) THEN s[i] ELSE t[i - Len(s)]
  BY EmptySeq, LenProperties, ConcatProperties
<1>2. s \o t # << >>
  BY <1>1, EmptySeq
<1>3. /\ Tail(s) \in Seq(Packet) /\ Len(Tail(s)) = Len(s) - 1
      /\ \A i \in 1 .. Len(s) - 1 : Tail(s)[i] = s[i + 1]
  BY HeadTailProperties
<1>4. /\ Tail(s \o t) \in Seq(Packet) /\ Len(Tail(s \o t)) = Len(s) + Len(t) - 1
      /\ \A i \in 1 .. Len(s) + Len(t) - 1 : Tail(s \o t)[i] = (s \o t)[i + 1]
  BY <1>1, <1>2, HeadTailProperties
<1>5. /\ Tail(s) \o t \in Seq(Packet) /\ Len(Tail(s) \o t) = Len(s) + Len(t) - 1
      /\ \A i \in 1 .. Len(s) + Len(t) - 1 :
           (Tail(s) \o t)[i] = IF i <= Len(s) - 1 THEN Tail(s)[i] ELSE t[i - (Len(s) - 1)]
  BY <1>1, <1>3, ConcatProperties
<1>6. ASSUME NEW i \in 1 .. Len(s) + Len(t) - 1
      PROVE  Tail(s \o t)[i] = (Tail(s) \o t)[i]
  <2>1. i + 1 \in 1 .. Len(s) + Len(t) /\ (i + 1) - Len(s) = i - (Len(s) - 1)
    BY <1>1
  <2>2. Tail(s \o t)[i] = IF i + 1 <= Len(s) THEN s[i + 1] ELSE t[(i + 1) - Len(s)]
    BY <1>1, <1>4, <2>1
  <2>3. CASE i + 1 <= Len(s)
    <3>1. i \in 1 .. Len(s) - 1 /\ i <= Len(s) - 1
      BY <1>1, <2>3
    <3> QED
      BY <1>3, <1>5, <2>2, <2>3, <3>1
  <2>4. CASE ~(i + 1 <= Len(s))
    <3>1. ~(i <= Len(s) - 1)
      BY <1>1, <2>4
    <3> QED
      BY <1>5, <2>1, <2>2, <2>4, <3>1
  <2> QED
    BY <2>3, <2>4
<1>7. Tail(s \o t) = Tail(s) \o t
  BY <1>4, <1>5, <1>6, SeqEqual
<1>8. Head(s \o t) = Head(s)
  BY <1>1
<1> QED
  BY <1>2, <1>7, <1>8

\* The first packet of a pipe and those behind it, as replies.
LEMMA AsRepliesFirst ==
  ASSUME NEW s \in Seq(Packet), s # << >>
  PROVE  /\ AsReplies(s) # << >>
         /\ Head(AsReplies(s)) = ReplyTo(Head(s))
         /\ Tail(AsReplies(s)) = AsReplies(Tail(s))
<1>1. Head(s) \in Packet /\ Tail(s) \in Seq(Packet) /\ s = <<Head(s)>> \o Tail(s)
  BY HeadTailProperties
<1> DEFINE r == ReplyTo(Head(s))
           t == AsReplies(Tail(s))
<1>2. r \in Packet /\ t \in Seq(Packet)
  BY <1>1, PacketFacts, AsRepliesElements
<1>3. AsReplies(s) = <<r>> \o t
  <2>1. <<Head(s)>> \in Seq(Packet) /\ Tail(s) \in Seq(Packet)
    BY <1>1
  <2>2. AsReplies(<<Head(s)>> \o Tail(s)) = AsReplies(<<Head(s)>>) \o AsReplies(Tail(s))
    BY <2>1, AsRepliesConcat, Zenon
  <2>3. AsReplies(<<Head(s)>>) = <<r>>
    BY <1>1, AsRepliesShort
  <2> QED
    BY <1>1, <2>2, <2>3
<1> HIDE DEF r, t
<1>4. <<r>> \in Seq(Packet) /\ <<r>> # << >> /\ Head(<<r>>) = r /\ Tail(<<r>>) = << >>
  BY <1>2
<1>5. <<r>> \o t # << >> /\ Head(<<r>> \o t) = Head(<<r>>) /\ Tail(<<r>> \o t) = Tail(<<r>>) \o t
  BY <1>2, <1>4, HeadTailConcat
<1>6. << >> \o t = t
  BY <1>2, ConcatEmptySeq
<1> QED
  BY <1>3, <1>4, <1>5, <1>6 DEF r, t

\* A packet that a thread takes from the pipe behind it is owed in the same place ...
LEMMA TakenInPlace ==
  ASSUME NEW s \in Seq(Packet), s # << >>
  PROVE  AsReplies(<<Head(s)>>) \o AsReplies(Tail(s)) = AsReplies(<< >>) \o AsReplies(s)
<1>1. <<Head(s)>> \in Seq(Packet) /\ Tail(s) \in Seq(Packet) /\ << >> \in Seq(Packet)
  BY HeadTailProperties
<1>2. <<Head(s)>> \o Tail(s) = s /\ << >> \o s = s
  BY <1>1, ConcatEmptySeq
<1>3. AsReplies(<<Head(s)>> \o Tail(s)) = AsReplies(<<Head(s)>>) \o AsReplies(Tail(s))
  BY <1>1, AsRepliesConcat, Zenon
<1>4. AsReplies(<< >> \o s) = AsReplies(<< >>) \o AsReplies(s)
  BY <1>1, AsRepliesConcat, Zenon
<1> QED
  BY <1>2, <1>3, <1>4, Zenon

\* ... and so is one that it puts into the pipe ahead, or the reply to it.
LEMMA PutInPlace ==
  ASSUME NEW s \in Seq(Packet), NEW p \in Packet, NEW q \in Packet, ReplyTo(q) = ReplyTo(p)
  PROVE  AsReplies(Append(s, q)) \o AsReplies(<< >>) = AsReplies(s) \o AsReplies(<<p>>)
<1>1. <<p>> \in Seq(Packet) /\ <<q>> \in Seq(Packet) /\ Append(s, q) = s \o <<q>>
  BY AppendIsConcat
<1>2. AsReplies(s \o <<q>>) = AsReplies(s) \o AsReplies(<<q>>)
  BY <1>1, AsRepliesConcat
<1>3. AsReplies(<<q>>) = AsReplies(<<p>>)
  BY AsRepliesShort
<1>4. AsReplies(s \o <<q>>) \in Seq(Packet)
  BY <1>1, AsRepliesElements, ConcatProperties
<1>5. AsReplies(s \o <<q>>) \o << >> = AsReplies(s \o <<q>>)
  BY <1>4, ConcatEmptySeq
<1> QED
  BY <1>1, <1>2, <1>3, <1>5, AsRepliesShort

\* Three sequences are put together from either end.
LEMMA EitherEnd ==
  ASSUME NEW a \in Seq(Packet), NEW x \in Seq(Packet), NEW y \in Seq(Packet)
  PROVE  a \o x \o y = a \o (x \o y)
<1>1. \A S : \A p, q, r \in Seq(S) : p \o q \o r = p \o (q \o r)
  BY ConcatAssociative
<1> QED
  BY <1>1

-----------------------------------------------------------------------------
(* Replies are recognisable *)

\* A packet that is the reply to itself: one the device has built.
Answered(s) == \A i \in 1 .. Len(s) : ReplyTo(s[i]) = s[i]

\* Answering a reply changes nothing.
LEMMA ReplyAgain == \A p : ReplyTo(ReplyTo(p)) = ReplyTo(p)
BY DEF ReplyTo

\* A pipe of replies stays one when a reply is written to it ...
LEMMA WriteAnswered ==
    ASSUME PipeTypeOK, NEW n \in PipeNames, NEW pkt \in Packet, PipeWrite(n, pkt),
           Answered(pipe[n]), ReplyTo(pkt) = pkt
    PROVE  Answered(pipe'[n])
<1>1. pipe[n] \in Seq(Packet) /\ pipe'[n] = Append(pipe[n], pkt)
  BY DEF PipeTypeOK, PipeWrite
<1>2. /\ Len(pipe[n]) \in Nat /\ Len(Append(pipe[n], pkt)) = Len(pipe[n]) + 1
      /\ \A i \in 1 .. Len(pipe[n]) : Append(pipe[n], pkt)[i] = pipe[n][i]
      /\ Append(pipe[n], pkt)[Len(pipe[n]) + 1] = pkt
  BY <1>1, AppendProperties
<1>3. ASSUME NEW i \in 1 .. Len(pipe[n]) + 1
      PROVE  ReplyTo(Append(pipe[n], pkt)[i]) = Append(pipe[n], pkt)[i]
  <2>1. CASE i \in 1 .. Len(pipe[n])
    BY <1>2, <2>1 DEF Answered
  <2>2. CASE i = Len(pipe[n]) + 1
    BY <1>2, <2>2
  <2> QED
    BY <1>2, <2>1, <2>2
<1> QED
  BY <1>1, <1>2, <1>3 DEF Answered

\* ... and yields a reply when it is read.
LEMMA ReadAnswered ==
    ASSUME PipeTypeOK, NEW n \in PipeNames, PipeRead(n), Answered(pipe[n])
    PROVE  Answered(pipe'[n]) /\ ReplyTo(PipeFirst(n)) = PipeFirst(n)
<1>1. pipe[n] \in Seq(Packet) /\ pipe[n] # << >> /\ pipe'[n] = Tail(pipe[n])
  BY DEF PipeTypeOK, PipeRead
<1>2. Len(pipe[n]) \in Nat /\ Len(pipe[n]) > 0 /\ Head(pipe[n]) = pipe[n][1]
  BY <1>1
<1>3. Len(Tail(pipe[n])) = Len(pipe[n]) - 1
      /\ \A i \in 1 .. Len(Tail(pipe[n])) : Tail(pipe[n])[i] = pipe[n][i + 1]
  BY <1>1
<1>4. Answered(Tail(pipe[n]))
  BY <1>2, <1>3 DEF Answered
<1>5. ReplyTo(Head(pipe[n])) = Head(pipe[n])
  BY <1>2 DEF Answered
<1> QED
  BY <1>1, <1>4, <1>5 DEF PipeFirst

-----------------------------------------------------------------------------
(* Packets on the move *)

\* A thread takes the first packet of the pipe behind it.
LEMMA ReadInPlace ==
  ASSUME PipeTypeOK, NEW n \in PipeNames, PipeRead(n)
  PROVE  /\ AsReplies(One(TRUE, PipeFirst(n))) \o AsReplies(pipe'[n])
            = AsReplies(One(FALSE, PipeFirst(n))) \o AsReplies(pipe[n])
         /\ \A m \in PipeNames \ {n} : pipe'[m] = pipe[m]
<1>1. pipe[n] \in Seq(Packet) /\ pipe[n] # << >> /\ pipe'[n] = Tail(pipe[n])
      /\ \A m \in PipeNames \ {n} : pipe'[m] = pipe[m]
  BY DEF PipeTypeOK, PipeRead
<1>2. AsReplies(<<Head(pipe[n])>>) \o AsReplies(Tail(pipe[n]))
      = AsReplies(<< >>) \o AsReplies(pipe[n])
  BY <1>1, TakenInPlace
<1> QED
  BY <1>1, <1>2 DEF PipeFirst, One

\* A thread puts its packet, or the reply to it, behind those of the pipe ahead.
LEMMA WriteInPlace ==
  ASSUME PipeTypeOK, NEW n \in PipeNames, NEW p \in Packet, NEW q \in Packet,
         ReplyTo(q) = ReplyTo(p), PipeWrite(n, q)
  PROVE  /\ AsReplies(pipe'[n]) \o AsReplies(One(FALSE, p)) = AsReplies(pipe[n]) \o AsReplies(One(TRUE, p))
         /\ \A m \in PipeNames \ {n} : pipe'[m] = pipe[m]
<1>1. pipe[n] \in Seq(Packet) /\ pipe'[n] = Append(pipe[n], q)
      /\ \A m \in PipeNames \ {n} : pipe'[m] = pipe[m]
  BY DEF PipeTypeOK, PipeWrite
<1>2. AsReplies(Append(pipe[n], q)) \o AsReplies(<< >>) = AsReplies(pipe[n]) \o AsReplies(<<p>>)
  BY <1>1, PutInPlace
<1> QED
  BY <1>1, <1>2 DEF One
=============================================================================
