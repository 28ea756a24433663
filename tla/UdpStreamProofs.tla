--------------------------- MODULE UdpStreamProofs ---------------------------
(***************************************************************************)
(* Theorems about UdpStream, for every traffic, every size of a block and  *)
(* of data_buf, and every depth of the FIFOs.                              *)
(***************************************************************************)
EXTENDS UdpStream, Integers, SequenceTheorems, WellFoundedInduction, TLAPS

-----------------------------------------------------------------------------
(* The inductive invariant *)

\* The packetizer's two counters: while it collects, data_buf has room and all
\* packets are complete; while it writes, what is left of data_buf is what is
\* left of the packet.
PackInv ==
    /\ pphase = "fill" => Len(buf) < Cap
    /\ pphase = "header" => Len(buf) >= 1
    /\ pphase = "body" => /\ Len(heads) >= 1
                          /\ Head_.len = Len(buf) + 8
                          /\ Head_.from <= Len(out) + 1
                          /\ Len(out) + 1 < Head_.from + Len(buf)
    /\ pphase # "body" =>
          Len(out) = IF Len(heads) = 0 THEN 0 ELSE Head_.from + Head_.len - 9

\* No packet reaches into the last one.
HeadsInv ==
    \A j \in 1 .. Len(heads) :
        j < Len(heads) => heads[j].from + heads[j].len - 8 <= Head_.from

\* The datagram whose sender is on the wire dst_ip_addr.
Current == IF dphase \in {"headers", "ip"} THEN at.d - 1 ELSE at.d

\* Every byte on its way belongs to that datagram or an earlier one.
ArrivalInv ==
    /\ at.d >= 1
    /\ dphase # "headers" => at.d <= Len(rcv)
    /\ Current <= Len(rcv)
    /\ Current >= 1 => dstIp = rcv[Current].client
    /\ Len(Flow) = 0 => at = [d |-> 1, k |-> 1]
    /\ \A i \in 1 .. Len(Flow) : Flow[i].d >= 1 /\ Flow[i].d <= Current

UInv == TypeOK /\ PackInv /\ HeadsInv /\ ArrivalInv /\ Unbroken /\ Framed

-----------------------------------------------------------------------------
(* Lemmas *)

LEMMA Sizes ==
    /\ Cap \in Nat /\ Cap >= 1 /\ Block \in Nat /\ Block >= 1
    /\ RawDepth \in Nat /\ RawDepth >= 1 /\ EncDepth \in Nat /\ EncDepth >= 1
    /\ Traffic \subseteq Seq(Datagram)
<1>1. /\ Cap \in Nat \ {0} /\ Block \in Nat \ {0} /\ RawDepth \in Nat \ {0}
      /\ EncDepth \in Nat \ {0} /\ Traffic \subseteq Seq(Datagram)
  BY UdpAssumption, Zenon
<1> QED BY <1>1, SMT

LEMMA SenderType ==
    ASSUME rcv \in Traffic, NEW d \in 1 .. Len(rcv)
    PROVE  rcv[d] \in Datagram /\ rcv[d].client \in Clients
<1>1. rcv \in Seq(Datagram)
  BY Sizes
<1>2. rcv[d] \in Datagram
  BY <1>1, ElementOfSeq
<1> QED BY <1>2 DEF Datagram

LEMMA NextByteType ==
    ASSUME NEW t, NEW b \in Byte
    PROVE  /\ NextByte(t, b) \in Byte
           /\ NextByte(t, b).d = IF IsLast(t, b) THEN b.d + 1 ELSE b.d
<1>1. b.d + 1 \in Nat /\ b.k + 1 \in Nat /\ 1 \in Nat /\ b.d \in Nat
  BY DEF Byte
<1>2. CASE IsLast(t, b)
  BY <1>1, <1>2 DEF NextByte, Byte
<1>3. CASE ~IsLast(t, b)
  <2>1. NextByte(t, b) = [b EXCEPT !.k = @ + 1]
    BY <1>3 DEF NextByte
  <2>2. [b EXCEPT !.k = @ + 1] \in Byte /\ [b EXCEPT !.k = @ + 1].d = b.d
    BY <1>1 DEF Byte
  <2> QED BY <1>3, <2>1, <2>2
<1> QED BY <1>2, <1>3

LEMMA HeadFields ==
    ASSUME TypeOK, NEW j \in 1 .. Len(heads)
    PROVE  /\ Len(heads) \in Nat
           /\ heads[j].len \in Nat /\ heads[j].len >= 9 /\ heads[j].len <= Cap + 8
           /\ heads[j].from \in Nat /\ heads[j].from >= 1
<1> DEFINE H == [ip : Clients \cup {NoClient}, mac : Clients \cup {NoClient},
                 len : 9 .. Cap + 8, from : Nat \ {0}]
<1>1. heads \in Seq(H)
  BY DEF TypeOK
<1>2. Len(heads) \in Nat /\ heads[j] \in H
  BY <1>1, ElementOfSeq, LenProperties
<1>3. heads[j].len \in 9 .. Cap + 8 /\ heads[j].from \in Nat \ {0}
  BY <1>2
<1> QED BY <1>2, <1>3, Sizes, SMT

\* The bytes of a sequence of payload words.
LEMMA BytesOf ==
    ASSUME NEW o \in Seq([byte : Byte, last : BOOLEAN])
    PROVE  /\ [i \in 1 .. Len(o) |-> o[i].byte] \in Seq(Byte)
           /\ Len([i \in 1 .. Len(o) |-> o[i].byte]) = Len(o)
<1> DEFINE s == [i \in 1 .. Len(o) |-> o[i].byte]
<1>1. Len(o) \in Nat /\ \A i \in 1 .. Len(o) : o[i].byte \in Byte
  <2>1. \A i \in 1 .. Len(o) : o[i] \in [byte : Byte, last : BOOLEAN]
    BY ElementOfSeq
  <2> QED BY <2>1, LenProperties
<1>2. s \in [1 .. Len(o) -> Byte]
  BY <1>1
<1>3. DOMAIN s = 1 .. Len(o)
  OBVIOUS
<1> HIDE DEF s
<1> QED BY <1>1, <1>2, <1>3, SeqDef, LenProperties DEF s

\* A packet of length l from word f on ends before the word i after it.
LEMMA PastTheEnd ==
    ASSUME NEW f \in Nat, NEW l \in Nat, NEW i \in Int, f + l - 8 <= i
    PROVE  ~(i <= f + l - 9)
BY SMT

LEMMA NextPacket ==
    ASSUME NEW o \in Nat, NEW f \in Nat, NEW l \in Nat, o = f + l - 9
    PROVE  o + 1 = f + l - 8
BY SMT

\* The index of output_strm_loop with o words sent, a packet from word f on and
\* b bytes in data_buf.
LEMMA BodyArithmetic ==
    ASSUME NEW o \in Nat, NEW f \in Nat, NEW b \in Nat, f <= o + 1, o + 1 < f + b
    PROVE  /\ (o + 1 - f + 8) - 7 = o + 2 - f
           /\ (o + 1 - f + 8) - 7 \in 1 .. b
           /\ o + 1 - f + 8 = (b + 8) - 1 <=> (o + 1 - f + 8) - 7 = b
           /\ o + 1 - f + 8 = (b + 8) - 1 <=> o + 1 = f + (b + 8) - 9
           /\ ((o + 1) + 1 - f + 8) - 7 = ((o + 1 - f + 8) - 7) + 1
           /\ o + 1 # f + (b + 8) - 9 => (o + 1) + 1 < f + b
BY SMT

\* The payload that has been sent.
Sent == [i \in 1 .. Len(out) |-> out[i].byte]

\* The parts of Flow are sequences of bytes, and so is the whole.
LEMMA FlowParts ==
    ASSUME TypeOK, PackInv
    PROVE  /\ Sent \in Seq(Byte) /\ Len(Sent) = Len(out)
           /\ Unsent \in Seq(Byte)
           /\ Sent \o Unsent \in Seq(Byte)
           /\ enc \in Seq(Byte) /\ raw \in Seq(Byte)
           /\ Flow = Sent \o Unsent \o enc \o raw
           /\ Flow \in Seq(Byte)
<1>1. /\ out \in Seq([byte : Byte, last : BOOLEAN]) /\ buf \in Seq(Byte)
      /\ enc \in Seq(Byte) /\ raw \in Seq(Byte)
  BY DEF TypeOK
<1>2. Sent \in Seq(Byte) /\ Len(Sent) = Len(out)
  BY <1>1, BytesOf DEF Sent
<1>3. Unsent \in Seq(Byte)
  <2>1. CASE pphase = "body"
    <3>1. /\ Len(heads) >= 1 /\ Len(out) \in Nat /\ Len(buf) \in Nat
          /\ Head_.from <= Len(out) + 1
      BY <2>1, <1>1, LenProperties DEF PackInv
    <3>2. Head_.from \in Nat
      <4>1. Len(heads) \in Nat
        BY LenProperties DEF TypeOK
      <4>2. Len(heads) \in 1 .. Len(heads)
        BY <3>1, <4>1, SMT
      <4> QED BY <4>2, HeadFields DEF Head_
    <3>3. BodyIndex - 7 \in Int /\ BodyIndex - 7 >= 1
      BY <3>1, <3>2, SMT DEF BodyIndex
    <3>4. \A i \in BodyIndex - 7 .. Len(buf) : i \in 1 .. Len(buf)
      BY <3>1, <3>3, SMT
    <3>5. \A i \in BodyIndex - 7 .. Len(buf) : buf[i] \in Byte
      BY <1>1, <3>4
    <3>6. Len(buf) \in Int
      BY <3>1
    <3>7. SubSeq(buf, BodyIndex - 7, Len(buf)) \in Seq(Byte)
      BY <3>3, <3>5, <3>6, SubSeqProperties
    <3> QED BY <2>1, <3>7 DEF Unsent
  <2>2. CASE pphase # "body"
    BY <1>1, <2>2 DEF Unsent
  <2> QED BY <2>1, <2>2
<1>4. Sent \o Unsent \in Seq(Byte)
  BY <1>2, <1>3, ConcatProperties
<1>5. Sent \o Unsent \o enc \in Seq(Byte)
  BY <1>1, <1>4, ConcatProperties
<1>6. Sent \o Unsent \o enc \o raw \in Seq(Byte)
  BY <1>1, <1>5, ConcatProperties
<1> QED BY <1>1, <1>2, <1>3, <1>4, <1>6 DEF Flow, Sent

\* A step that moves no byte past another and takes none in or out.
LEMMA SameFlow ==
    ASSUME ArrivalInv, Unbroken, Flow' = Flow, UNCHANGED <<rcv, at, dphase, dstIp>>
    PROVE  ArrivalInv' /\ Unbroken'
<1>1. Current' = Current
  BY DEF Current
<1>2. ArrivalInv'
  BY <1>1 DEF ArrivalInv
<1>3. Unbroken'
  BY DEF Unbroken, NextByte, IsLast
<1> QED BY <1>2, <1>3

LEMMA PackKept ==
    ASSUME PackInv, HeadsInv, Framed, UNCHANGED <<pphase, buf, heads, out>>
    PROVE  /\ PackInv' /\ HeadsInv' /\ Framed'
           /\ Sent' = Sent /\ Unsent' = Unsent
BY DEF PackInv, HeadsInv, Framed, PayloadOf, Head_, Sent, Unsent, BodyIndex

\* The order in which pieces of the stream are joined does not matter.
LEMMA ByteJoin ==
    ASSUME NEW a \in Seq(Byte), NEW b \in Seq(Byte), NEW c \in Seq(Byte)
    PROVE  (a \o b) \o c = a \o (b \o c)
<1> DEFINE S == Byte
<1>1. a \in Seq(S) /\ b \in Seq(S) /\ c \in Seq(S)
  OBVIOUS
<1> HIDE DEF S
<1> QED BY <1>1, ConcatAssociative

\* What was in the first of two joined pieces stays where it was, and what was
\* last in the second is last.
LEMMA FirstOfJoined ==
    ASSUME NEW a \in Seq(Byte), NEW b \in Seq(Byte), NEW i \in 1 .. Len(a)
    PROVE  i \in 1 .. Len(a \o b) /\ (a \o b)[i] = a[i]
<1>1. Len(a) \in Nat /\ Len(b) \in Nat
  BY LenProperties
<1>2. /\ Len(a \o b) = Len(a) + Len(b)
      /\ \A j \in 1 .. Len(a) + Len(b) : (a \o b)[j] =
            IF j <= Len(a) THEN a[j] ELSE b[j - Len(a)]
  BY ConcatProperties
<1>3. i \in 1 .. Len(a) + Len(b) /\ i <= Len(a)
  BY <1>1, SMT
<1> QED BY <1>2, <1>3

LEMMA LastOfJoined ==
    ASSUME NEW a \in Seq(Byte), NEW b \in Seq(Byte), Len(b) >= 1
    PROVE  /\ Len(a) + Len(b) \in 1 .. Len(a \o b)
           /\ (a \o b)[Len(a) + Len(b)] = b[Len(b)]
<1>1. Len(a) \in Nat /\ Len(b) \in Nat
  BY LenProperties
<1>2. /\ Len(a \o b) = Len(a) + Len(b)
      /\ \A j \in 1 .. Len(a) + Len(b) : (a \o b)[j] =
            IF j <= Len(a) THEN a[j] ELSE b[j - Len(a)]
  BY ConcatProperties
<1>3. /\ Len(a) + Len(b) \in 1 .. Len(a) + Len(b) /\ ~(Len(a) + Len(b) <= Len(a))
      /\ (Len(a) + Len(b)) - Len(a) = Len(b)
  BY <1>1, SMT
<1> QED BY <1>2, <1>3

\* The first byte of one sequence becomes the last of the one before it.
LEMMA ByteHandover ==
    ASSUME NEW a \in Seq(Byte), NEW b \in Seq(Byte), NEW c \in Seq(Byte), c # <<>>
    PROVE  a \o Append(b, Head(c)) \o Tail(c) = a \o b \o c
<1>1. Head(c) \in Byte /\ Tail(c) \in Seq(Byte) /\ <<Head(c)>> \in Seq(Byte)
  BY HeadTailProperties
<1>2. c = <<Head(c)>> \o Tail(c)
  <2>1. Len(c) \in Nat /\ Len(c) >= 1 /\ c[1] = Head(c)
    BY EmptySeq, LenProperties
  <2>2. 1 \in 1 .. Len(c) /\ Len(c) \in 1 .. Len(c)
    BY <2>1, SMT
  <2>3. SubSeq(c, 1, Len(c)) = <<c[1]>> \o SubSeq(c, 1 + 1, Len(c))
    BY <2>2, SubSeqRecursiveFirst
  <2>4. Tail(c) = SubSeq(c, 2, Len(c)) /\ SubSeq(c, 1, Len(c)) = c
    BY TailIsSubSeq, SubSeqFull
  <2>5. 1 + 1 = 2
    OBVIOUS
  <2> QED BY <2>1, <2>3, <2>4, <2>5
<1>3. Append(b, Head(c)) = b \o <<Head(c)>>
  BY <1>1, AppendIsConcat
<1>4. b \o <<Head(c)>> \in Seq(Byte) /\ a \o b \in Seq(Byte)
  BY <1>1, ConcatProperties
<1>5. a \o (b \o <<Head(c)>>) = (a \o b) \o <<Head(c)>>
  BY <1>1, ByteJoin
<1>6. ((a \o b) \o <<Head(c)>>) \o Tail(c) = (a \o b) \o (<<Head(c)>> \o Tail(c))
  <2>1. PICK ab \in Seq(Byte) : ab = a \o b
    BY <1>4
  <2>2. PICK h \in Seq(Byte) : h = <<Head(c)>>
    BY <1>1
  <2>3. PICK t \in Seq(Byte) : t = Tail(c)
    BY <1>1
  <2>4. (ab \o h) \o t = ab \o (h \o t)
    BY ByteJoin, SMTT(30)
  <2> QED BY <2>1, <2>2, <2>3, <2>4
<1> QED BY <1>2, <1>3, <1>5, <1>6

\* A sequence cut in two is the sequence.
LEMMA CutInTwo ==
    ASSUME NEW S, NEW s \in Seq(S), NEW n \in Nat, n <= Len(s)
    PROVE  /\ SubSeq(s, 1, n) \in Seq(S) /\ Len(SubSeq(s, 1, n)) = n
           /\ SubSeq(s, n + 1, Len(s)) \in Seq(S)
           /\ Len(SubSeq(s, n + 1, Len(s))) = Len(s) - n
           /\ SubSeq(s, 1, n) \o SubSeq(s, n + 1, Len(s)) = s
<1>1. Len(s) \in Nat /\ Len(s) \in Int /\ n \in Int /\ n + 1 \in Int /\ 1 \in Int
  BY LenProperties
<1>2. \A i \in 1 .. n : i \in 1 .. Len(s)
  BY <1>1, SMT
<1>3. \A i \in n + 1 .. Len(s) : i \in 1 .. Len(s)
  BY <1>1, SMT
<1>4. /\ \A i \in 1 .. n : s[i] \in S
      /\ \A i \in n + 1 .. Len(s) : s[i] \in S
  BY <1>2, <1>3
<1>5. /\ SubSeq(s, 1, n) \in Seq(S)
      /\ Len(SubSeq(s, 1, n)) = IF 1 <= n THEN n - 1 + 1 ELSE 0
  BY <1>1, <1>4, SubSeqProperties
<1>6. /\ SubSeq(s, n + 1, Len(s)) \in Seq(S)
      /\ Len(SubSeq(s, n + 1, Len(s))) = IF n + 1 <= Len(s) THEN Len(s) - (n + 1) + 1 ELSE 0
  BY <1>1, <1>4, SubSeqProperties
<1>7. /\ (IF 1 <= n THEN n - 1 + 1 ELSE 0) = n
      /\ (IF n + 1 <= Len(s) THEN Len(s) - (n + 1) + 1 ELSE 0) = Len(s) - n
      /\ 1 \in 1 .. Len(s) + 1 /\ n \in 1 - 1 .. Len(s) /\ Len(s) \in n .. Len(s)
  BY <1>1, SMT
<1>8. SubSeq(s, 1, n) \o SubSeq(s, n + 1, Len(s)) = SubSeq(s, 1, Len(s))
  BY <1>7, ConcatAdjacentSubSeq
<1>9. Len(SubSeq(s, 1, n)) = n /\ Len(SubSeq(s, n + 1, Len(s))) = Len(s) - n
  BY <1>5, <1>6, <1>7
<1>10. SubSeq(s, 1, Len(s)) = s
  BY SubSeqFull
<1> QED BY <1>5, <1>6, <1>8, <1>9, <1>10

-----------------------------------------------------------------------------
(* The initial states *)

LEMMA UInit == Init => UInv
<1> SUFFICES ASSUME Init PROVE UInv
  OBVIOUS
<1>1. /\ rcv \in Traffic /\ dphase = "headers" /\ at = [d |-> 1, k |-> 1]
      /\ dstIp = NoClient /\ dstMac = NoClient /\ raw = <<>> /\ enc = <<>>
      /\ pphase = "fill" /\ buf = <<>> /\ heads = <<>> /\ out = <<>>
      /\ stray \in Clients \cup {NoClient}
  BY DEF Init
<1>2. /\ Len(buf) = 0 /\ Len(heads) = 0 /\ Len(out) = 0 /\ Len(raw) = 0 /\ Len(enc) = 0
      /\ at \in Byte /\ at.d = 1
  BY <1>1 DEF Byte
<1>3. TypeOK
  <2>1. Len(buf) <= Cap /\ Len(raw) <= RawDepth /\ Len(enc) <= EncDepth
    BY <1>2, Sizes, SMT
  <2>2. \A S : <<>> \in Seq(S)
    BY EmptySeq
  <2> QED BY <1>1, <1>2, <2>1, <2>2 DEF TypeOK
<1>4. PackInv
  BY <1>1, <1>2, Sizes, SMT DEF PackInv
<1>5. \A i : i \notin 1 .. 0
  BY SMT
<1>6. HeadsInv /\ Framed
  BY <1>2, <1>5 DEF HeadsInv, Framed
<1>7. Len(Flow) = 0
  <2>1. Sent = <<>>
    BY <1>3, <1>4, <1>2, FlowParts, EmptySeq
  <2>2. Unsent = <<>>
    BY <1>1 DEF Unsent
  <2>3. <<>> \o <<>> = <<>>
    BY ConcatEmptySeq, EmptySeq
  <2> QED BY <1>1, <1>3, <1>4, <2>1, <2>2, <2>3, FlowParts
<1>8. ArrivalInv
  <2>1. Current = 0
    BY <1>1, <1>2 DEF Current
  <2>2. Len(rcv) \in Nat
    BY <1>1, Sizes, LenProperties
  <2> QED BY <1>1, <1>2, <1>5, <1>7, <2>1, <2>2 DEF ArrivalInv
<1>9. Unbroken
  BY <1>5, <1>7 DEF Unbroken
<1> QED BY <1>3, <1>4, <1>6, <1>8, <1>9 DEF UInv

-----------------------------------------------------------------------------
(* Every step *)

\* The depacketizer's steps before the payload.
LEMMA HeadersStep ==
    ASSUME UInv, ReadHeaders \/ SetDstIp \/ SetDstMac
    PROVE  UInv' /\ Flow' = Flow
<1>1. /\ UNCHANGED <<rcv, at, raw, enc, pphase, buf, heads, out, stray>>
      /\ \/ dphase = "headers" /\ dphase' = "ip" /\ at.d <= Len(rcv)
            /\ dstIp' = dstIp /\ dstMac' = dstMac
         \/ dphase = "ip" /\ dphase' = "mac" /\ dstIp' = rcv[at.d].client /\ dstMac' = dstMac
         \/ dphase = "mac" /\ dphase' = "pass" /\ dstMac' = rcv[at.d].client /\ dstIp' = dstIp
  BY DEF ReadHeaders, CanRead, SetDstIp, SetDstMac, packVars
<1>2. TypeOK /\ PackInv /\ HeadsInv /\ ArrivalInv /\ Unbroken /\ Framed
  BY DEF UInv
<1>3. at.d \in Nat /\ at.d >= 1 /\ Len(rcv) \in Nat
  BY <1>2, Sizes, LenProperties DEF TypeOK, Byte, ArrivalInv
<1>4. at.d <= Len(rcv)
  BY <1>1, <1>2 DEF ArrivalInv
<1>5. rcv[at.d].client \in Clients
  <2>1. at.d \in 1 .. Len(rcv)
    BY <1>3, <1>4, SMT
  <2> QED BY <1>2, <2>1, SenderType DEF TypeOK
<1>6. TypeOK'
  BY <1>1, <1>2, <1>5 DEF TypeOK
<1>7. PackInv' /\ HeadsInv' /\ Framed' /\ Sent' = Sent /\ Unsent' = Unsent
  BY <1>1, <1>2, PackKept
<1>8. Flow' = Flow
  BY <1>1, <1>2, <1>6, <1>7, FlowParts DEF Flow, Sent
<1>9. Unbroken'
  BY <1>1, <1>2, <1>8 DEF Unbroken, NextByte, IsLast
<1>10. ArrivalInv'
  <2>1. CASE dphase = "ip"
    <3>1. Current = at.d - 1 /\ Current' = at.d /\ dstIp' = rcv[at.d].client
      BY <1>1, <2>1 DEF Current
    <3>2. \A i \in 1 .. Len(Flow) : Flow[i].d >= 1 /\ Flow[i].d <= at.d - 1
      BY <1>2, <3>1 DEF ArrivalInv
    <3>3. Flow \in Seq(Byte)
      BY <1>2, FlowParts
    <3>4. \A i \in 1 .. Len(Flow) : Flow[i].d \in Nat
      <4>1. \A i \in 1 .. Len(Flow) : Flow[i] \in Byte
        BY <3>3, ElementOfSeq
      <4> QED BY <4>1 DEF Byte
    <3>5. \A i \in 1 .. Len(Flow) : Flow[i].d <= at.d
      BY <1>3, <3>2, <3>4, SMT
    <3> QED BY <1>1, <1>2, <1>3, <1>4, <1>8, <3>1, <3>2, <3>5 DEF ArrivalInv
  <2>2. CASE dphase # "ip"
    <3>1. Current' = Current /\ dstIp' = dstIp
      BY <1>1, <2>2 DEF Current
    <3> QED BY <1>1, <1>2, <1>4, <1>8, <3>1 DEF ArrivalInv
  <2> QED BY <2>1, <2>2
<1> QED BY <1>8, <1>2, <1>6, <1>7, <1>9, <1>10 DEF UInv

LEMMA PassByteStep ==
    ASSUME UInv, PassByte
    PROVE  UInv' /\ Flow' = Append(Flow, at)
<1>1. /\ dphase = "pass" /\ Len(raw) < RawDepth
      /\ raw' = Append(raw, at)
      /\ at' = NextByte(rcv, at)
      /\ dphase' = IF IsLast(rcv, at) THEN "headers" ELSE "pass"
      /\ UNCHANGED <<rcv, dstIp, dstMac, enc, pphase, buf, heads, out, stray>>
  BY DEF PassByte, CanPass, packVars
<1>2. TypeOK /\ PackInv /\ HeadsInv /\ ArrivalInv /\ Unbroken /\ Framed
  BY DEF UInv
<1>3. at \in Byte /\ at.d \in Nat /\ at.d >= 1 /\ at.d <= Len(rcv) /\ Len(rcv) \in Nat
  BY <1>1, <1>2, Sizes, LenProperties DEF TypeOK, Byte, ArrivalInv
<1>4. at' \in Byte /\ at'.d = IF IsLast(rcv, at) THEN at.d + 1 ELSE at.d
  BY <1>1, <1>3, NextByteType
<1>5. raw' \in Seq(Byte) /\ Len(raw') <= RawDepth
  <2>1. raw \in Seq(Byte) /\ Len(raw) \in Nat
    BY <1>2, LenProperties DEF TypeOK
  <2>2. raw' \in Seq(Byte) /\ Len(raw') = Len(raw) + 1
    BY <1>1, <1>3, <2>1, AppendProperties
  <2> QED BY <1>1, <2>1, <2>2, Sizes, SMT
<1>6. TypeOK'
  BY <1>1, <1>2, <1>4, <1>5 DEF TypeOK
<1>7. PackInv' /\ HeadsInv' /\ Framed' /\ Sent' = Sent /\ Unsent' = Unsent
  BY <1>1, <1>2, PackKept
<1>8. /\ Flow \in Seq(Byte) /\ Len(Flow) \in Nat
      /\ Flow' = Append(Flow, at)
  <2>1. /\ Sent \o Unsent \o enc \in Seq(Byte) /\ raw \in Seq(Byte) /\ <<at>> \in Seq(Byte)
        /\ Flow = Sent \o Unsent \o enc \o raw /\ Flow \in Seq(Byte)
    <3>1. /\ Sent \o Unsent \in Seq(Byte) /\ enc \in Seq(Byte) /\ raw \in Seq(Byte)
          /\ Flow = Sent \o Unsent \o enc \o raw /\ Flow \in Seq(Byte)
      BY <1>2, FlowParts
    <3>2. Sent \o Unsent \o enc \in Seq(Byte)
      BY <3>1, ConcatProperties
    <3>3. <<at>> \in Seq(Byte)
      BY <1>3
    <3> QED BY <3>1, <3>2, <3>3
  <2>2. Flow' = Sent \o Unsent \o enc \o raw'
    BY <1>1, <1>7 DEF Flow, Sent
  <2>3. raw' = raw \o <<at>>
    BY <1>1, <1>3, <2>1, AppendIsConcat
  <2>4. Flow' = Flow \o <<at>>
    <3>1. (Sent \o Unsent \o enc \o raw) \o <<at>> = Sent \o Unsent \o enc \o (raw \o <<at>>)
      <4> DEFINE z == Sent \o Unsent \o enc
                 y == <<at>>
      <4>1. z \in Seq(Byte) /\ raw \in Seq(Byte) /\ y \in Seq(Byte)
        BY <2>1
      <4> HIDE DEF z, y
      <4>2. (z \o raw) \o y = z \o (raw \o y)
        BY <4>1, ByteJoin
      <4> QED BY <4>2 DEF z, y
    <3> QED BY <2>1, <2>2, <2>3, <3>1
  <2> QED BY <1>3, <2>1, <2>4, AppendIsConcat, LenProperties
<1>9. /\ Len(Flow') = Len(Flow) + 1 /\ Flow'[Len(Flow) + 1] = at
      /\ \A i \in 1 .. Len(Flow) : Flow'[i] = Flow[i]
  BY <1>3, <1>8, AppendProperties
<1>10. Current = at.d /\ Current' = at.d
  BY <1>1, <1>3, <1>4, SMT DEF Current
<1>11. ArrivalInv'
  <2>1. at'.d >= 1 /\ (dphase' # "headers" => at'.d <= Len(rcv)) /\ Len(Flow') # 0
    BY <1>1, <1>3, <1>4, <1>8, <1>9, SMT
  <2>2. dstIp = rcv[at.d].client
    BY <1>2, <1>3, <1>10 DEF ArrivalInv
  <2>3. \A i \in 1 .. Len(Flow') : Flow'[i].d >= 1 /\ Flow'[i].d <= at.d
    <3> SUFFICES ASSUME NEW i \in 1 .. Len(Flow')
                 PROVE  Flow'[i].d >= 1 /\ Flow'[i].d <= at.d
      OBVIOUS
    <3>1. CASE i = Len(Flow) + 1
      BY <1>3, <1>9, <3>1
    <3>2. CASE i # Len(Flow) + 1
      <4>1. i \in 1 .. Len(Flow)
        BY <1>8, <1>9, <3>2, SMT
      <4> QED BY <1>2, <1>9, <1>10, <4>1 DEF ArrivalInv
    <3> QED BY <3>1, <3>2
  <2> QED BY <1>1, <1>3, <1>10, <2>1, <2>2, <2>3 DEF ArrivalInv
<1>12. Unbroken'
  <2> SUFFICES ASSUME NEW i \in 1 .. Len(Flow')
               PROVE  /\ i = 1 => Flow'[i] = [d |-> 1, k |-> 1]
                      /\ NextByte(rcv, Flow'[i]) = IF i < Len(Flow') THEN Flow'[i + 1] ELSE at'
    BY <1>1 DEF Unbroken, NextByte, IsLast
  <2>1. CASE i = Len(Flow) + 1
    <3>1. Flow'[i] = at /\ ~(i < Len(Flow'))
      BY <1>8, <1>9, <2>1
    <3>2. i = 1 => at = [d |-> 1, k |-> 1]
      <4>1. i = 1 => Len(Flow) = 0
        BY <1>8, <2>1, SMT
      <4> QED BY <1>2, <4>1 DEF ArrivalInv
    <3> QED BY <1>1, <3>1, <3>2
  <2>2. CASE i # Len(Flow) + 1
    <3>1. i \in 1 .. Len(Flow) /\ i < Len(Flow')
      BY <1>8, <1>9, <2>2, SMT
    <3>2. CASE i < Len(Flow)
      <4>1. i + 1 \in 1 .. Len(Flow)
        BY <1>8, <3>1, <3>2, SMT
      <4>2. Flow'[i] = Flow[i] /\ Flow'[i + 1] = Flow[i + 1]
        BY <1>9, <3>1, <4>1
      <4> QED BY <1>2, <3>1, <3>2, <4>2 DEF Unbroken
    <3>3. CASE ~(i < Len(Flow))
      <4>1. i + 1 = Len(Flow) + 1
        BY <1>8, <3>1, <3>3, SMT
      <4>2. Flow'[i] = Flow[i] /\ Flow'[i + 1] = at
        BY <1>9, <3>1, <4>1
      <4> QED BY <1>2, <3>1, <3>3, <4>2 DEF Unbroken
    <3> QED BY <3>2, <3>3
  <2> QED BY <2>1, <2>2
<1> QED BY <1>8, <1>6, <1>7, <1>11, <1>12 DEF UInv

LEMMA ProcessStep ==
    ASSUME UInv, Process
    PROVE  UInv' /\ Flow' = Flow
<1>1. /\ Len(raw) >= Block /\ Len(enc) + Block <= EncDepth
      /\ enc' = enc \o SubSeq(raw, 1, Block)
      /\ raw' = SubSeq(raw, Block + 1, Len(raw))
      /\ UNCHANGED <<rcv, dphase, at, dstIp, dstMac, pphase, buf, heads, out, stray>>
  BY DEF Process, CanProcess, depackVars, packVars
<1>2. TypeOK /\ PackInv /\ HeadsInv /\ ArrivalInv /\ Unbroken /\ Framed
  BY DEF UInv
<1>3. /\ raw \in Seq(Byte) /\ enc \in Seq(Byte) /\ Len(raw) \in Nat /\ Len(enc) \in Nat
      /\ Len(raw) <= RawDepth /\ Block \in Nat /\ Block <= Len(raw)
  BY <1>1, <1>2, Sizes, LenProperties DEF TypeOK
<1> DEFINE A == SubSeq(raw, 1, Block)
           B == SubSeq(raw, Block + 1, Len(raw))
<1>4. /\ A \in Seq(Byte) /\ Len(A) = Block /\ B \in Seq(Byte) /\ Len(B) = Len(raw) - Block
      /\ A \o B = raw
  BY <1>3, CutInTwo
<1> HIDE DEF A, B
<1>5. enc' = enc \o A /\ raw' = B
  BY <1>1 DEF A, B
<1>6. TypeOK'
  <2>1. enc' \in Seq(Byte) /\ Len(enc') = Len(enc) + Block
    <3>1. enc \in Seq(Byte) /\ A \in Seq(Byte)
      BY <1>3, <1>4
    <3>2. enc \o A \in Seq(Byte) /\ Len(enc \o A) = Len(enc) + Len(A)
      BY <3>1, ConcatProperties
    <3> QED BY <1>4, <1>5, <3>2
  <2>2. Len(enc') <= EncDepth
    BY <1>1, <2>1
  <2>3. raw' \in Seq(Byte) /\ Len(raw') <= RawDepth
    BY <1>3, <1>4, <1>5, Sizes, SMT
  <2> QED BY <1>1, <1>2, <2>1, <2>2, <2>3 DEF TypeOK
<1>7. PackInv' /\ HeadsInv' /\ Framed' /\ Sent' = Sent /\ Unsent' = Unsent
  BY <1>1, <1>2, PackKept
<1>8. Flow' = Flow
  <2> DEFINE X == Sent \o Unsent
  <2>1. X \in Seq(Byte) /\ Flow = (X \o enc) \o raw
    BY <1>2, FlowParts
  <2>2. Flow' = (X \o (enc \o A)) \o B
    BY <1>5, <1>7 DEF Flow, Sent
  <2> HIDE DEF X
  <2>3. enc \o A \in Seq(Byte)
    BY <1>3, <1>4, ConcatProperties
  <2>4. (X \o (enc \o A)) \o B = X \o ((enc \o A) \o B)
    BY <1>4, <2>1, <2>3, ByteJoin
  <2>5. (enc \o A) \o B = enc \o raw
    <3>1. (enc \o A) \o B = enc \o (A \o B)
      BY <1>3, <1>4, ByteJoin
    <3> QED BY <1>4, <3>1
  <2>6. X \o (enc \o raw) = (X \o enc) \o raw
    BY <1>3, <2>1, ByteJoin
  <2> QED BY <2>1, <2>2, <2>4, <2>5, <2>6
<1>9. ArrivalInv' /\ Unbroken'
  BY <1>1, <1>2, <1>8, SameFlow
<1> QED BY <1>8, <1>6, <1>7, <1>9 DEF UInv

LEMMA FillStep ==
    ASSUME UInv, Fill
    PROVE  UInv' /\ Flow' = Flow
<1>1. /\ pphase = "fill" /\ enc # <<>>
      /\ buf' = Append(buf, Head(enc))
      /\ enc' = Tail(enc)
      /\ pphase' = "header" \/ (pphase' = "fill" /\ Len(buf) + 1 # Cap)
      /\ UNCHANGED <<rcv, dphase, at, dstIp, dstMac, raw, heads, out, stray>>
  BY DEF Fill, CanFill, depackVars
<1>2. TypeOK /\ PackInv /\ HeadsInv /\ ArrivalInv /\ Unbroken /\ Framed
  BY DEF UInv
<1>3. /\ enc \in Seq(Byte) /\ buf \in Seq(Byte) /\ Len(enc) \in Nat /\ Len(buf) \in Nat
      /\ Len(enc) <= EncDepth /\ Len(buf) < Cap
  BY <1>1, <1>2, LenProperties DEF TypeOK, PackInv
<1>4. Head(enc) \in Byte /\ enc' \in Seq(Byte) /\ Len(enc') = Len(enc) - 1
  BY <1>1, <1>3, HeadTailProperties
<1>5. buf' \in Seq(Byte) /\ Len(buf') = Len(buf) + 1
  BY <1>1, <1>3, <1>4, AppendProperties
<1>6. Len(buf') <= Cap /\ Len(buf') >= 1 /\ (pphase' = "fill" => Len(buf') < Cap)
  BY <1>1, <1>3, <1>5, Sizes, SMT
<1>7. TypeOK'
  <2>1. Len(enc') <= EncDepth
    BY <1>3, <1>4, Sizes, SMT
  <2> QED BY <1>1, <1>2, <1>4, <1>5, <1>6, <2>1 DEF TypeOK
<1>8. PackInv'
  <2>1. Len(out) = IF Len(heads) = 0 THEN 0 ELSE Head_.from + Head_.len - 9
    BY <1>1, <1>2 DEF PackInv
  <2> QED BY <1>1, <1>6, <2>1 DEF PackInv, Head_
<1>9. HeadsInv' /\ Framed'
  BY <1>1, <1>2 DEF HeadsInv, Framed, PayloadOf, Head_
<1>10. Flow' = Flow
  <2>1. Sent' = Sent /\ Unsent = buf /\ Unsent' = buf'
    BY <1>1 DEF Sent, Unsent
  <2>2. Sent \in Seq(Byte)
    BY <1>2, FlowParts
  <2>3. (Sent \o Append(buf, Head(enc))) \o Tail(enc) = (Sent \o buf) \o enc
    BY <1>1, <1>3, <2>2, ByteHandover
  <2> QED BY <1>1, <2>1, <2>3 DEF Flow, Sent
<1>11. ArrivalInv' /\ Unbroken'
  BY <1>1, <1>2, <1>10, SameFlow
<1> QED BY <1>10, <1>7, <1>8, <1>9, <1>11 DEF UInv

LEMMA WriteHeadersStep ==
    ASSUME UInv, WriteHeaders
    PROVE  UInv' /\ Flow' = Flow
<1> DEFINE h == [ip |-> dstIp, mac |-> stray, len |-> Len(buf) + 8, from |-> Len(out) + 1]
           n == Len(heads)
           H == [ip : Clients \cup {NoClient}, mac : Clients \cup {NoClient},
                 len : 9 .. Cap + 8, from : Nat \ {0}]
<1>1. /\ pphase = "header" /\ pphase' = "body" /\ heads' = Append(heads, h)
      /\ UNCHANGED <<rcv, dphase, at, dstIp, dstMac, raw, enc, buf, out, stray>>
  BY DEF WriteHeaders, depackVars
<1>2. TypeOK /\ PackInv /\ HeadsInv /\ ArrivalInv /\ Unbroken /\ Framed
  BY DEF UInv
<1>3. /\ heads \in Seq(H) /\ n \in Nat /\ buf \in Seq(Byte) /\ Len(buf) \in Nat
      /\ Len(out) \in Nat /\ Len(buf) <= Cap /\ Len(buf) >= 1
  BY <1>1, <1>2, LenProperties DEF TypeOK, PackInv
<1>4. h \in H /\ h.len = Len(buf) + 8 /\ h.from = Len(out) + 1
  <2>1. Len(buf) + 8 \in 9 .. Cap + 8 /\ Len(out) + 1 \in Nat \ {0}
    BY <1>3, Sizes, SMT
  <2>2. dstIp \in Clients \cup {NoClient} /\ stray \in Clients \cup {NoClient}
    BY <1>2 DEF TypeOK
  <2> QED BY <2>1, <2>2
<1> HIDE DEF h
<1>5. /\ heads' \in Seq(H) /\ Len(heads') = n + 1 /\ heads'[n + 1] = h
      /\ \A j \in 1 .. n : heads'[j] = heads[j]
  BY <1>1, <1>3, <1>4, AppendProperties
<1> HIDE DEF n, H
<1>6. Head_' = h
  BY <1>5 DEF Head_
<1>7. \A j \in 1 .. n + 1 : j = n + 1 \/ j \in 1 .. n
  BY <1>3, SMT
<1>8. TypeOK'
  BY <1>1, <1>2, <1>5 DEF TypeOK, H
<1>9. PackInv'
  <2>1. /\ Len(heads') >= 1 /\ h.from <= Len(out) + 1 /\ Len(out) + 1 < h.from + Len(buf)
    BY <1>3, <1>4, <1>5, SMT
  <2> QED BY <1>1, <1>4, <1>6, <2>1 DEF PackInv
<1>10. Len(out) = IF n = 0 THEN 0 ELSE Head_.from + Head_.len - 9
  BY <1>1, <1>2 DEF PackInv, n
<1>11. ASSUME NEW j \in 1 .. n
       PROVE  /\ heads[j].from \in Nat /\ heads[j].len \in Nat /\ heads[j].len >= 9
              /\ heads[j].from + heads[j].len - 8 <= Len(out) + 1
  <2>1. /\ heads[j].from \in Nat /\ heads[j].len \in Nat /\ heads[j].len >= 9
    BY <1>2, HeadFields DEF n
  <2>2. n \in 1 .. n
    BY <1>3, SMT
  <2>3. Head_.from \in Nat /\ Head_.len \in Nat /\ Head_.len >= 9
    BY <1>2, <2>2, HeadFields DEF n, Head_
  <2>4. CASE j = n
    <3>1. heads[j] = Head_
      BY <2>4 DEF Head_, n
    <3>2. n # 0
      BY <1>3, <2>2, SMT
    <3>3. Len(out) = Head_.from + Head_.len - 9
      BY <1>10, <3>2
    <3>4. Head_.from + Head_.len - 8 <= Len(out) + 1
      BY <1>3, <2>3, <3>3, SMT
    <3> QED BY <2>1, <3>1, <3>4
  <2>5. CASE j # n
    <3>1. j < n
      BY <1>3, <2>5, SMT
    <3>2. heads[j].from + heads[j].len - 8 <= Head_.from
      BY <1>2, <3>1 DEF HeadsInv, n
    <3>3. Len(out) = Head_.from + Head_.len - 9
      <4>1. n # 0
        BY <1>3, <2>2, SMT
      <4> QED BY <1>10, <4>1
    <3>4. heads[j].from + heads[j].len - 8 <= Len(out) + 1
      <4>1. Head_.from <= Len(out) + 1
        BY <2>3, <3>3, SMT
      <4>2. Len(out) + 1 \in Nat
        BY <1>3
      <4>3. heads[j].from + heads[j].len - 8 \in Int
        BY <2>1, SMT
      <4> QED BY <2>3, <3>2, <4>1, <4>2, <4>3, SMT
    <3> QED BY <2>1, <3>4
  <2> QED BY <2>4, <2>5
<1>12. HeadsInv'
  <2> SUFFICES ASSUME NEW j \in 1 .. n + 1, j < n + 1
               PROVE  heads'[j].from + heads'[j].len - 8 <= h.from
    BY <1>5, <1>6 DEF HeadsInv
  <2>1. j \in 1 .. n
    BY <1>3, SMT
  <2> QED BY <1>4, <1>5, <1>11, <2>1
<1>13. Framed'
  <2>1. ASSUME NEW j \in 1 .. n + 1
        PROVE  /\ heads'[j].len - 8 \in 1 .. Cap
               /\ \A i \in heads'[j].from .. heads'[j].from + heads'[j].len - 9 :
                     i <= Len(out) =>
                        (out[i].last <=> i = heads'[j].from + heads'[j].len - 9)
               /\ heads'[j].from = IF j = 1 THEN 1
                                   ELSE heads'[j - 1].from + heads'[j - 1].len - 8
    <3>1. CASE j = n + 1
      <4>1. h.len - 8 \in 1 .. Cap
        BY <1>3, <1>4, Sizes, SMT
      <4>2. \A i \in h.from .. h.from + h.len - 9 : ~(i <= Len(out))
        BY <1>3, <1>4, SMT
      <4>3. CASE n = 0
        <5>1. h.from = 1 /\ j = 1
          BY <1>4, <1>10, <3>1, <4>3, SMT
        <5> QED BY <1>5, <3>1, <4>1, <4>2, <5>1
      <4>4. CASE n # 0
        <5>1. n \in 1 .. n /\ j # 1 /\ j - 1 = n
          BY <1>3, <3>1, <4>4, SMT
        <5>2. Head_.from \in Nat /\ Head_.len \in Nat /\ heads[n] = Head_
          BY <1>2, <5>1, HeadFields DEF n, Head_
        <5>3. h.from = Head_.from + Head_.len - 8
          <6>1. Len(out) = Head_.from + Head_.len - 9
            BY <1>10, <4>4
          <6> QED BY <1>3, <1>4, <5>2, <6>1, NextPacket
        <5> QED BY <1>5, <3>1, <4>1, <4>2, <5>1, <5>2, <5>3
      <4> QED BY <4>3, <4>4
    <3>2. CASE j # n + 1
      <4>1. j \in 1 .. n /\ (j # 1 => j - 1 \in 1 .. n)
        BY <1>3, <3>2, SMT
      <4>2. heads'[j] = heads[j] /\ (j # 1 => heads'[j - 1] = heads[j - 1])
        BY <1>5, <4>1
      <4> QED BY <1>2, <4>1, <4>2 DEF Framed, PayloadOf, n
    <3> QED BY <3>1, <3>2
  <2> QED BY <1>1, <1>5, <2>1 DEF Framed, PayloadOf
<1>14. Flow' = Flow
  <2>1. Sent' = Sent /\ Unsent = buf
    BY <1>1 DEF Sent, Unsent
  <2>2. (BodyIndex - 7)' = 1
    <3>1. BodyIndex' = Len(out) + 1 - h.from + 8
      BY <1>1, <1>6 DEF BodyIndex
    <3> QED BY <1>3, <1>4, <3>1, SMT
  <2>3. Unsent' = SubSeq(buf, 1, Len(buf))
    BY <1>1, <2>2 DEF Unsent
  <2>4. Unsent' = Unsent
    BY <1>3, <2>1, <2>3, SubSeqFull
  <2> QED BY <1>1, <2>1, <2>4 DEF Flow, Sent
<1>15. ArrivalInv' /\ Unbroken'
  BY <1>1, <1>2, <1>14, SameFlow
<1> QED BY <1>14, <1>8, <1>9, <1>12, <1>13, <1>15 DEF UInv

\* Where output_strm_loop stands in data_buf, and which iteration is its last.
LEMMA BodyCounters ==
    ASSUME TypeOK, PackInv, pphase = "body"
    PROVE  /\ Len(heads) \in Nat /\ Len(heads) # 0 /\ Len(heads) \in 1 .. Len(heads)
           /\ Len(out) \in Nat /\ Len(buf) \in Nat
           /\ Head_.from \in Nat /\ Head_.len \in Nat /\ Head_.len = Len(buf) + 8
           /\ Head_.from <= Len(out) + 1
           /\ BodyIndex - 7 = Len(out) + 2 - Head_.from
           /\ BodyIndex - 7 \in 1 .. Len(buf)
           /\ BodyIndex = Head_.len - 1 <=> BodyIndex - 7 = Len(buf)
           /\ BodyIndex = Head_.len - 1 <=> Len(out) + 1 = Head_.from + Head_.len - 9
           /\ ((Len(out) + 1) + 1 - Head_.from + 8) - 7 = (BodyIndex - 7) + 1
           /\ Len(out) + 1 # Head_.from + Head_.len - 9 =>
                 (Len(out) + 1) + 1 < Head_.from + Len(buf)
<1>1. Len(heads) \in Nat /\ Len(out) \in Nat /\ Len(buf) \in Nat
  BY LenProperties DEF TypeOK
<1>2. /\ Len(heads) >= 1 /\ Head_.len = Len(buf) + 8 /\ Head_.from <= Len(out) + 1
      /\ Len(out) + 1 < Head_.from + Len(buf)
  BY DEF PackInv
<1>3. Len(heads) # 0 /\ Len(heads) \in 1 .. Len(heads)
  BY <1>1, <1>2, SMT
<1>4. Head_.from \in Nat /\ Head_.len \in Nat
  BY <1>3, HeadFields DEF Head_
<1>5. BodyIndex = Len(out) + 1 - Head_.from + 8
  BY DEF BodyIndex
<1>6. /\ BodyIndex - 7 = Len(out) + 2 - Head_.from
      /\ BodyIndex - 7 \in 1 .. Len(buf)
  BY <1>1, <1>2, <1>4, <1>5, BodyArithmetic
<1>7. /\ BodyIndex = Head_.len - 1 <=> BodyIndex - 7 = Len(buf)
      /\ BodyIndex = Head_.len - 1 <=> Len(out) + 1 = Head_.from + Head_.len - 9
      /\ ((Len(out) + 1) + 1 - Head_.from + 8) - 7 = (BodyIndex - 7) + 1
      /\ Len(out) + 1 # Head_.from + Head_.len - 9 =>
            (Len(out) + 1) + 1 < Head_.from + Len(buf)
  <2> DEFINE o == Len(out)
             f == Head_.from
             b == Len(buf)
  <2>1. o \in Nat /\ f \in Nat /\ b \in Nat /\ f <= o + 1 /\ o + 1 < f + b
    BY <1>1, <1>2, <1>4
  <2>2. BodyIndex = o + 1 - f + 8 /\ Head_.len = b + 8
    BY <1>2, <1>5
  <2> HIDE DEF o, f, b
  <2>3. /\ o + 1 - f + 8 = (b + 8) - 1 <=> (o + 1 - f + 8) - 7 = b
        /\ o + 1 - f + 8 = (b + 8) - 1 <=> o + 1 = f + (b + 8) - 9
        /\ ((o + 1) + 1 - f + 8) - 7 = ((o + 1 - f + 8) - 7) + 1
        /\ o + 1 # f + (b + 8) - 9 => (o + 1) + 1 < f + b
    BY <2>1, BodyArithmetic
  <2> QED BY <2>2, <2>3 DEF o, f, b
<1> QED BY <1>1, <1>2, <1>3, <1>4, <1>6, <1>7

LEMMA WriteBodyStep ==
    ASSUME UInv, WriteBody
    PROVE  UInv' /\ Flow' = Flow
<1> DEFINE x == BodyIndex - 7
           L == BodyIndex = Head_.len - 1
           W == [byte : Byte, last : BOOLEAN]
           w == [byte |-> buf[x], last |-> L]
           p == Len(out) + 1
<1>1. /\ pphase = "body" /\ out' = Append(out, w)
      /\ pphase' = IF L THEN "fill" ELSE "body"
      /\ buf' = IF L THEN <<>> ELSE buf
      /\ UNCHANGED <<rcv, dphase, at, dstIp, dstMac, raw, enc, heads, stray>>
  BY DEF WriteBody, depackVars
<1>2. TypeOK /\ PackInv /\ HeadsInv /\ ArrivalInv /\ Unbroken /\ Framed
  BY DEF UInv
<1>3. /\ Len(heads) \in Nat /\ Len(heads) # 0 /\ Len(heads) \in 1 .. Len(heads)
      /\ Len(out) \in Nat /\ Len(buf) \in Nat
      /\ Head_.from \in Nat /\ Head_.len \in Nat /\ Head_.len = Len(buf) + 8
      /\ Head_.from <= Len(out) + 1
      /\ x = Len(out) + 2 - Head_.from
      /\ x \in 1 .. Len(buf)
      /\ L <=> x = Len(buf)
      /\ L <=> Len(out) + 1 = Head_.from + Head_.len - 9
      /\ ((Len(out) + 1) + 1 - Head_.from + 8) - 7 = x + 1
      /\ ~L => (Len(out) + 1) + 1 < Head_.from + Len(buf)
  BY <1>1, <1>2, BodyCounters
<1>4. buf \in Seq(Byte) /\ buf[x] \in Byte /\ out \in Seq(W) /\ L \in BOOLEAN
  BY <1>2, <1>3, ElementOfSeq DEF TypeOK
<1>5. w \in W /\ w.byte = buf[x] /\ w.last = L
  BY <1>4
<1> HIDE DEF w, W, L, x
<1>5a. /\ x \in Nat /\ x >= 1 /\ x <= Len(buf) /\ Len(buf) \in Nat
       /\ L <=> x = Len(buf)
  <2>1. x \in 1 .. Len(buf) /\ Len(buf) \in Nat
    BY <1>3
  <2>2. x \in Nat /\ x >= 1 /\ x <= Len(buf)
    BY <2>1, SMT
  <2>3. L <=> x = Len(buf)
    BY <1>3
  <2> QED BY <2>1, <2>2, <2>3
<1>6. /\ out' \in Seq(W) /\ Len(out') = p /\ out'[p] = w
      /\ \A i \in 1 .. Len(out) : out'[i] = out[i]
  BY <1>1, <1>4, <1>5, AppendProperties
<1>7. Head_' = Head_
  BY <1>1 DEF Head_
<1>8. buf' \in Seq(Byte) /\ Len(buf') <= Cap /\ (L => Len(buf') = 0) /\ (~L => buf' = buf)
  <2>1. Len(buf) <= Cap
    BY <1>2 DEF TypeOK
  <2>2. <<>> \in Seq(Byte) /\ Len(<<>>) = 0 /\ 0 <= Cap
    BY EmptySeq, Sizes
  <2> QED BY <1>1, <1>4, <2>1, <2>2
<1>9. TypeOK'
  BY <1>1, <1>2, <1>6, <1>8 DEF TypeOK, W
<1>10. PackInv'
  <2>1. CASE L
    <3>1. Len(out') = Head_.from + Head_.len - 9
      BY <1>3, <1>6, <2>1
    <3>2. pphase' = "fill" /\ Len(buf') < Cap
      BY <1>1, <1>8, <2>1, Sizes, SMT
    <3> QED BY <1>1, <1>3, <1>7, <3>1, <3>2 DEF PackInv
  <2>2. CASE ~L
    <3>1. Len(out') + 1 < Head_.from + Len(buf) /\ Head_.from <= Len(out') + 1
      <4>1. Head_.from <= (Len(out) + 1) + 1
        BY <1>3, SMT
      <4> QED BY <1>3, <1>6, <2>2, <4>1
    <3>2. pphase' = "body" /\ buf' = buf /\ Len(heads) >= 1
      BY <1>1, <1>3, <2>2, SMT
    <3> QED BY <1>1, <1>3, <1>7, <3>1, <3>2 DEF PackInv
  <2> QED BY <2>1, <2>2
<1>11. HeadsInv'
  BY <1>1, <1>2, <1>7 DEF HeadsInv
<1>12. Framed'
  <2> SUFFICES ASSUME NEW j \in 1 .. Len(heads),
                      NEW i \in heads[j].from .. heads[j].from + heads[j].len - 9,
                      i <= Len(out')
               PROVE  out'[i].last <=> i = heads[j].from + heads[j].len - 9
    BY <1>1, <1>2 DEF Framed, PayloadOf
  <2>1. heads[j].from \in Nat /\ heads[j].from >= 1 /\ heads[j].len \in Nat
    BY <1>2, HeadFields
  <2>2. CASE i <= Len(out)
    <3>1. i \in 1 .. Len(out)
      BY <1>3, <2>1, <2>2, SMT
    <3>2. out'[i] = out[i]
      BY <1>6, <3>1
    <3> QED BY <1>2, <2>2, <3>2 DEF Framed, PayloadOf
  <2>3. CASE ~(i <= Len(out))
    <3>1. i = p
      BY <1>3, <1>6, <2>1, <2>3, SMT
    <3>2. CASE j = Len(heads)
      <4>1. heads[j] = Head_
        BY <3>2 DEF Head_
      <4> QED BY <1>3, <1>5, <1>6, <3>1, <4>1
    <3>3. CASE j # Len(heads)
      <4>1. j < Len(heads)
        BY <1>3, <3>3, SMT
      <4>2. heads[j].from + heads[j].len - 8 <= Head_.from
        BY <1>2, <4>1 DEF HeadsInv
      <4>3. heads[j].from + heads[j].len - 8 <= p
        <5>1. p \in Nat /\ Head_.from <= p /\ Head_.from \in Nat
          BY <1>3, SMT
        <5>2. heads[j].from + heads[j].len - 8 \in Int
          BY <2>1, SMT
        <5> HIDE DEF p
        <5> QED BY <4>2, <5>1, <5>2, SMT
      <4>4. FALSE
        <5>1. heads[j].from + heads[j].len - 9 \in Int
          BY <2>1, SMT
        <5>2. i <= heads[j].from + heads[j].len - 9 /\ i \in Int
          BY <2>1, <5>1, SMT
        <5> QED BY <2>1, <3>1, <4>3, <5>2, PastTheEnd
      <4> QED BY <4>4
    <3> QED BY <3>2, <3>3
  <2> QED BY <2>2, <2>3
<1> DEFINE T == SubSeq(buf, x + 1, Len(buf))
<1>13. Unsent = <<buf[x]>> \o T /\ T \in Seq(Byte)
  <2>1. Len(buf) \in x .. Len(buf) /\ x + 1 \in Int /\ Len(buf) \in Int
        /\ \A i \in x + 1 .. Len(buf) : i \in 1 .. Len(buf)
    BY <1>5a, SMT
  <2>2. SubSeq(buf, x, Len(buf)) = <<buf[x]>> \o T
    BY <1>3, <1>4, <2>1, SubSeqRecursiveFirst
  <2>3. \A i \in x + 1 .. Len(buf) : buf[i] \in Byte
    BY <1>4, <2>1, ElementOfSeq
  <2>4. T \in Seq(Byte)
    BY <2>1, <2>3, SubSeqProperties
  <2> QED BY <1>1, <2>2, <2>4 DEF Unsent, x
<1>14. Unsent' = T
  <2>1. CASE L
    <3>1. x + 1 \in Int /\ Len(buf) \in Int /\ Len(buf) < x + 1
      BY <1>5a, <2>1, SMT
    <3>2. T = <<>>
      BY <3>1, SubSeqEmpty
    <3> QED BY <1>1, <2>1, <3>2 DEF Unsent
  <2>2. CASE ~L
    <3>1. (BodyIndex - 7)' = x + 1
      <4>1. BodyIndex' = p + 1 - Head_.from + 8
        BY <1>6, <1>7 DEF BodyIndex
      <4> QED BY <1>3, <4>1
    <3>2. pphase' = "body" /\ buf' = buf
      BY <1>1, <2>2
    <3> QED BY <3>1, <3>2 DEF Unsent
  <2> QED BY <2>1, <2>2
<1> HIDE DEF T
<1>15. Sent' = Sent \o <<buf[x]>> /\ Sent \in Seq(Byte)
  <2>1. Sent \in Seq(Byte) /\ Len(Sent) = Len(out)
    BY <1>2, FlowParts
  <2>2. /\ Append(Sent, buf[x]) \in Seq(Byte) /\ Len(Append(Sent, buf[x])) = p
        /\ \A i \in 1 .. Len(out) : Append(Sent, buf[x])[i] = Sent[i]
        /\ Append(Sent, buf[x])[p] = buf[x]
    BY <1>4, <2>1, AppendProperties
  <2>3. Sent' \in Seq(Byte) /\ Len(Sent') = p
    BY <1>6, BytesOf DEF Sent, W
  <2>4. \A i \in 1 .. p : Sent'[i] = Append(Sent, buf[x])[i]
    <3> SUFFICES ASSUME NEW i \in 1 .. p
                 PROVE  Sent'[i] = Append(Sent, buf[x])[i]
      OBVIOUS
    <3>1. Sent'[i] = out'[i].byte
      BY <1>6 DEF Sent
    <3>2. CASE i = p
      BY <1>5, <1>6, <2>2, <3>1, <3>2
    <3>3. CASE i # p
      <4>1. Len(out) \in Nat
        BY <1>3
      <4>2. i \in 1 .. Len(out)
        BY <3>3, <4>1, SMT
      <4> QED BY <1>6, <2>2, <3>1, <4>2 DEF Sent
    <3> QED BY <3>2, <3>3
  <2>5. Sent' = Append(Sent, buf[x])
    BY <2>2, <2>3, <2>4, SeqEqual
  <2> QED BY <1>4, <2>1, <2>5, AppendIsConcat
<1>16. Flow' = Flow
  <2>1. Flow' = (Sent \o <<buf[x]>>) \o T \o enc \o raw
    BY <1>1, <1>14, <1>15 DEF Flow, Sent
  <2>2. Flow = Sent \o (<<buf[x]>> \o T) \o enc \o raw
    BY <1>13 DEF Flow, Sent
  <2>3. <<buf[x]>> \in Seq(Byte)
    BY <1>4
  <2>4. (Sent \o <<buf[x]>>) \o T = Sent \o (<<buf[x]>> \o T)
    BY <1>13, <1>15, <2>3, ByteJoin
  <2> QED BY <2>1, <2>2, <2>4
<1>17. ArrivalInv' /\ Unbroken'
  BY <1>1, <1>2, <1>16, SameFlow
<1> QED BY <1>16, <1>9, <1>10, <1>11, <1>12, <1>17 DEF UInv

\* A step that leaves everything as it is.
LEMMA StutterStep ==
    ASSUME UInv, UNCHANGED vars
    PROVE  UInv' /\ Flow' = Flow
<1>1. TypeOK /\ PackInv /\ HeadsInv /\ ArrivalInv /\ Unbroken /\ Framed
  BY DEF UInv
<1>2. UNCHANGED <<rcv, dphase, at, dstIp, dstMac, raw, enc, pphase, buf, heads, out, stray>>
  BY DEF vars
<1>3. TypeOK'
  BY <1>1, <1>2 DEF TypeOK
<1>4. PackInv' /\ HeadsInv' /\ Framed' /\ Sent' = Sent /\ Unsent' = Unsent
  BY <1>1, <1>2, PackKept
<1>5. Flow' = Flow
  BY <1>2, <1>4 DEF Flow, Sent
<1>6. ArrivalInv' /\ Unbroken'
  BY <1>1, <1>2, <1>5, SameFlow
<1> QED BY <1>5, <1>3, <1>4, <1>6 DEF UInv

LEMMA UNext == UInv /\ [Next]_vars => UInv'
<1> SUFFICES ASSUME UInv, [Next]_vars PROVE UInv'
  OBVIOUS
<1>1. CASE ReadHeaders \/ SetDstIp \/ SetDstMac
  BY <1>1, HeadersStep
<1>2. CASE PassByte
  BY <1>2, PassByteStep
<1>3. CASE Process
  BY <1>3, ProcessStep
<1>4. CASE Fill
  BY <1>4, FillStep
<1>5. CASE WriteHeaders
  BY <1>5, WriteHeadersStep
<1>6. CASE WriteBody
  BY <1>6, WriteBodyStep
<1>7. CASE UNCHANGED vars
  BY <1>7, StutterStep
<1> QED
  BY <1>1, <1>2, <1>3, <1>4, <1>5, <1>6, <1>7 DEF Next, Depacketizer, Packetizer

\* The newest byte in data_buf when a packet is complete, and its place in the
\* stream.
LEMMA Buffered ==
    ASSUME TypeOK, PackInv, pphase = "header"
    PROVE  /\ Len(out) + Len(buf) \in 1 .. Len(Flow)
           /\ Flow[Len(out) + Len(buf)] = buf[Len(buf)]
           /\ Len(buf) \in 1 .. Len(buf)
<1>1. /\ Sent \in Seq(Byte) /\ Len(Sent) = Len(out) /\ buf \in Seq(Byte)
      /\ enc \in Seq(Byte) /\ raw \in Seq(Byte) /\ Len(buf) >= 1
      /\ Flow = Sent \o buf \o enc \o raw
  BY FlowParts DEF TypeOK, PackInv, Unsent
<1>2. Len(buf) \in Nat /\ Len(buf) \in 1 .. Len(buf)
  BY <1>1, LenProperties
<1> DEFINE z == Len(Sent) + Len(buf)
<1>3. Sent \o buf \in Seq(Byte) /\ Sent \o buf \o enc \in Seq(Byte)
  BY <1>1, ConcatProperties
<1>4. z \in 1 .. Len(Sent \o buf) /\ (Sent \o buf)[z] = buf[Len(buf)]
  BY <1>1, LastOfJoined
<1> HIDE DEF z
<1>5. z \in 1 .. Len(Sent \o buf \o enc) /\ (Sent \o buf \o enc)[z] = (Sent \o buf)[z]
  BY <1>1, <1>3, <1>4, FirstOfJoined
<1>6. z \in 1 .. Len(Flow) /\ Flow[z] = (Sent \o buf \o enc)[z]
  BY <1>1, <1>3, <1>5, FirstOfJoined
<1> QED BY <1>1, <1>2, <1>4, <1>5, <1>6 DEF z

\* The client on the wire has sent the newest byte in data_buf or a later one.
LEMMA Overtaken ==
    ASSUME UInv
    PROVE  Addressed
<1> SUFFICES ASSUME pphase = "header"
             PROVE  \E d \in buf[Len(buf)].d .. at.d : d <= Len(rcv) /\ dstIp = rcv[d].client
  BY DEF Addressed
<1>1. TypeOK /\ PackInv /\ ArrivalInv
  BY DEF UInv
<1> DEFINE z == Len(out) + Len(buf)
<1>2. buf \in Seq(Byte)
  BY <1>1 DEF TypeOK
<1>4. z \in 1 .. Len(Flow) /\ Flow[z] = buf[Len(buf)] /\ Len(buf) \in 1 .. Len(buf)
  BY <1>1, Buffered
<1>5. buf[Len(buf)].d \in Nat /\ buf[Len(buf)].d >= 1 /\ buf[Len(buf)].d <= Current
  <2>1. Flow[z].d >= 1 /\ Flow[z].d <= Current
    BY <1>1, <1>4 DEF ArrivalInv
  <2>2. Len(buf) \in 1 .. Len(buf)
    BY <1>4
  <2>3. buf[Len(buf)] \in Byte
    BY <1>2, <2>2, ElementOfSeq
  <2> QED BY <1>4, <2>1, <2>3 DEF Byte
<1>6. at.d \in Nat /\ Current \in Int /\ Current <= at.d
  <2>1. at.d \in Nat
    BY <1>1 DEF TypeOK, Byte
  <2> QED BY <2>1, SMT DEF Current
<1>7. Current \in buf[Len(buf)].d .. at.d /\ Current >= 1
  BY <1>5, <1>6, SMT
<1>8. Current <= Len(rcv) /\ dstIp = rcv[Current].client
  BY <1>1, <1>7 DEF ArrivalInv
<1> QED BY <1>7, <1>8

-----------------------------------------------------------------------------
(* The theorems *)

\* UInv is an invariant: it holds initially and every step keeps it.
THEOREM Invariance == Spec => []UInv
BY UInit, UNext, PTL DEF Spec

\* The variables keep their types, data_buf and the FIFOs their sizes, for every
\* Cap, RawDepth and EncDepth (udp_packetizer.cpp:42-62: the one bound that keeps
\* data_buf from being overrun is the comparison with its size).
THEOREM TypeCorrectness == Spec => []TypeOK
<1>1. UInv => TypeOK
  BY DEF UInv
<1> QED BY <1>1, Invariance, PTL

\* No byte is lost, repeated or overtaken between the depacketizer's input and
\* the packetizer's output, whatever datagrams arrive and however the three
\* blocks interleave (udp_depacketizer.cpp:42, udp_packetizer.cpp:44-62 and
\* 116-122).
THEOREM StreamUnbroken == Spec => []Unbroken
<1>1. UInv => Unbroken
  BY DEF UInv
<1> QED BY <1>1, Invariance, PTL

\* Every packet has the payload its header announces, TLAST on its last word and
\* on no other, and follows the one before it immediately
\* (udp_packetizer.cpp:42-62, 116-122).
THEOREM PacketsFramed == Spec => []Framed
<1>1. UInv => Framed
  BY DEF UInv
<1> QED BY <1>1, Invariance, PTL

\* A packet's destination is the sender of the datagram its last byte came from or
\* of a later one (udp_depacketizer.cpp:39-42, udp_packetizer.cpp:80).
THEOREM AnswersAddressed == Spec => []Addressed
<1>1. UInv => Addressed
  BY Overtaken
<1> QED BY <1>1, Invariance, PTL

-----------------------------------------------------------------------------
(* The streaming path implements Repacketizer *)

\* The byte the path is about to take is the byte the depacketizer is at.
LEMMA PathFollowing ==
    ASSUME UInv
    PROVE  Path!Following = at
<1>1. TypeOK /\ PackInv /\ ArrivalInv /\ Unbroken
  BY DEF UInv
<1>2. Flow \in Seq(Byte) /\ Len(Flow) \in Nat
  BY <1>1, FlowParts, LenProperties
<1>3. CASE Flow = <<>>
  BY <1>1, <1>2, <1>3, EmptySeq DEF ArrivalInv, Path!Following
<1>4. CASE Flow # <<>>
  <2> DEFINE b == Flow[Len(Flow)]
  <2>1. Len(Flow) \in 1 .. Len(Flow) /\ ~(Len(Flow) < Len(Flow))
    <3>1. Len(Flow) # 0
      BY <1>2, <1>4, EmptySeq
    <3> QED BY <1>2, <3>1, SMT
  <2>2. b \in Byte
    BY <1>2, <2>1, ElementOfSeq
  <2>3. NextByte(rcv, b) = at
    BY <1>1, <2>1 DEF Unbroken
  <2> HIDE DEF b
  <2>4. Path!After(b) = NextByte(rcv, b)
    BY <2>2 DEF Path!After, NextByte, IsLast, Byte
  <2> QED BY <1>4, <2>3, <2>4 DEF Path!Following, b
<1> QED BY <1>3, <1>4

LEMMA PathInit == Init => Path!Init
<1> SUFFICES ASSUME Init PROVE Path!Init
  OBVIOUS
<1>1. /\ rcv \in Traffic /\ raw = <<>> /\ enc = <<>> /\ pphase = "fill" /\ buf = <<>>
      /\ heads = <<>> /\ out = <<>>
  BY DEF Init
<1>2. Packets = <<>> /\ ToGo = 0
  BY <1>1 DEF Packets, ToGo
<1>3. Flow = <<>>
  BY <1>1 DEF Flow, Unsent
<1> QED BY <1>1, <1>2, <1>3 DEF Path!Init

\* Steps that neither take a byte nor write one.
LEMMA PathStutter ==
    ASSUME Flow' = Flow, UNCHANGED <<rcv, heads, out>>, ToGo' = ToGo
    PROVE  UNCHANGED Path!pathVars
<1>1. Packets' = Packets
  BY DEF Packets
<1> QED BY <1>1 DEF Path!pathVars

LEMMA PathTake ==
    ASSUME UInv, PassByte
    PROVE  Path!Take
<1>1. Flow' = Append(Flow, at)
  BY PassByteStep
<1>2. dphase = "pass" /\ UNCHANGED <<rcv, pphase, heads, out, buf>>
  BY DEF PassByte, CanPass, packVars
<1>3. at.d <= Len(rcv)
  BY <1>2 DEF UInv, ArrivalInv
<1>4. Packets' = Packets /\ ToGo' = ToGo
  BY <1>2 DEF Packets, ToGo, Head_, BodyIndex
<1> QED BY <1>1, <1>2, <1>3, <1>4, PathFollowing DEF Path!Take

LEMMA PathAnnounce ==
    ASSUME UInv, WriteHeaders
    PROVE  (\E n \in 1 .. Cap : Path!Announce(n)) /\ ToGo' = Len(buf)
<1> DEFINE h == [ip |-> dstIp, mac |-> stray, len |-> Len(buf) + 8, from |-> Len(out) + 1]
           H == [ip : Clients \cup {NoClient}, mac : Clients \cup {NoClient},
                 len : 9 .. Cap + 8, from : Nat \ {0}]
           c(g) == [to |-> g.ip, size |-> g.len - 8]
           m == Len(buf)
           n == Len(heads)
<1>1. /\ pphase = "header" /\ pphase' = "body" /\ heads' = Append(heads, h)
      /\ UNCHANGED <<rcv, at, buf, out>>
  BY DEF WriteHeaders, depackVars
<1>2. UInv' /\ Flow' = Flow
  BY WriteHeadersStep
<1>3. TypeOK /\ PackInv /\ TypeOK'
  BY <1>2 DEF UInv
<1>4. /\ heads \in Seq(H) /\ n \in Nat /\ m \in Nat /\ m \in 1 .. Cap /\ Len(out) \in Nat
  <2>1. heads \in Seq(H) /\ buf \in Seq(Byte) /\ m <= Cap /\ m >= 1 /\ out \in Seq([byte : Byte, last : BOOLEAN])
    BY <1>1, <1>3 DEF TypeOK, PackInv
  <2>2. n \in Nat /\ m \in Nat /\ Len(out) \in Nat
    BY <2>1, LenProperties
  <2>3. m \in 1 .. Cap
    BY <2>1, <2>2, Sizes, SMT
  <2> QED BY <2>1, <2>2, <2>3
<1>5. /\ h.ip = dstIp /\ h.len = m + 8 /\ h.from = Len(out) + 1 /\ h.len - 8 = m
  BY <1>4
<1>6. Len(heads') = n + 1 /\ heads'[n + 1] = h /\ \A j \in 1 .. n : heads'[j] = heads[j]
  BY <1>1, <1>4, AppendProperties, SMT
<1> HIDE DEF h, H, m
<1>7. Head_' = h
  BY <1>6 DEF Head_, n
<1>8. ToGo = 0 /\ ToGo' = m
  <2>1. BodyIndex' = Len(out) + 1 - h.from + 8
    BY <1>1, <1>7 DEF BodyIndex
  <2>2. BodyIndex' = 8
    BY <1>4, <1>5, <2>1, SMT
  <2> QED BY <1>1, <1>4, <1>5, <1>7, <2>2 DEF ToGo
<1>9. Packets' = Append(Packets, [to |-> dstIp, size |-> m])
  <2>1. Packets = [j \in 1 .. n |-> c(heads[j])] /\ Len(Packets) = n
    BY <1>4 DEF Packets
  <2>2. Packets' = [j \in 1 .. n + 1 |-> c(heads'[j])]
    BY <1>6 DEF Packets
  <2>3. c(h) = [to |-> dstIp, size |-> m]
    BY <1>5
  <2> HIDE DEF c, n
  <2>4. Append(Packets, c(h)) = [j \in 1 .. n + 1 |-> IF j <= n THEN c(heads[j]) ELSE c(h)]
    BY <1>4, <2>1
  <2>5. ASSUME NEW j \in 1 .. n + 1
        PROVE  c(heads'[j]) = IF j <= n THEN c(heads[j]) ELSE c(h)
    <3>1. CASE j <= n
      BY <1>4, <1>6, <3>1
    <3>2. CASE ~(j <= n)
      <4>1. j = n + 1
        BY <1>4, <3>2, SMT
      <4> QED BY <1>6, <3>2, <4>1
    <3> QED BY <3>1, <3>2
  <2> QED BY <2>2, <2>3, <2>4, <2>5
<1>10. Len(out) + m <= Len(Flow) /\ Flow[Len(out) + m] = buf[m]
  <2>1. Len(out) + m \in 1 .. Len(Flow) /\ Flow[Len(out) + m] = buf[m]
    BY <1>1, <1>3, Buffered DEF m
  <2>2. Len(Flow) \in Nat
    BY <1>3, FlowParts, LenProperties
  <2> QED BY <2>1, <2>2, SMT
<1>11. \E d \in buf[m].d .. at.d : d <= Len(rcv) /\ dstIp = rcv[d].client
  BY <1>1, Overtaken DEF Addressed, m
<1>12. Path!Announce(m)
  BY <1>1, <1>2, <1>8, <1>9, <1>10, <1>11, PathFollowing DEF Path!Announce
<1>13. ToGo' = Len(buf)
  BY <1>8 DEF m
<1> QED BY <1>4, <1>12, <1>13, Zenon

LEMMA PathGive ==
    ASSUME UInv, WriteBody
    PROVE  Path!Give /\ ToGo' = ToGo - 1
<1> DEFINE x == BodyIndex - 7
           L == BodyIndex = Head_.len - 1
           W == [byte : Byte, last : BOOLEAN]
           w == [byte |-> buf[x], last |-> L]
           p == Len(out) + 1
<1>1. /\ pphase = "body" /\ out' = Append(out, w)
      /\ pphase' = IF L THEN "fill" ELSE "body"
      /\ UNCHANGED <<rcv, at, heads>>
  BY DEF WriteBody, depackVars
<1>2. UInv' /\ Flow' = Flow
  BY WriteBodyStep
<1>3. TypeOK /\ PackInv /\ TypeOK' /\ PackInv'
  BY <1>2 DEF UInv
<1>4. /\ Len(out) \in Nat /\ Len(buf) \in Nat /\ Head_.len = Len(buf) + 8
      /\ Head_.from \in Nat
      /\ x \in 1 .. Len(buf) /\ BodyIndex - 7 = Len(out) + 2 - Head_.from
  BY <1>1, <1>3, BodyCounters
<1>5. out \in Seq(W) /\ w \in W
  BY <1>3, <1>4, ElementOfSeq DEF TypeOK
<1> HIDE DEF w, W
<1>6. Len(out') = p /\ out'[p] = w /\ p \in 1 .. p
  BY <1>1, <1>4, <1>5, AppendProperties, SMT
<1>7. Head_' = Head_
  BY <1>1 DEF Head_
<1>8. /\ ToGo = Head_.len - BodyIndex /\ ToGo > 0
      /\ L <=> ToGo = 1
      /\ ToGo' = ToGo - 1
  <2>1. BodyIndex = Len(out) + 1 - Head_.from + 8
    BY DEF BodyIndex
  <2>2. ToGo = Head_.len - BodyIndex
    BY <1>1 DEF ToGo
  <2>3. BodyIndex \in Int /\ BodyIndex <= Len(buf) + 7
    BY <1>4, <2>1, SMT
  <2>4. ToGo > 0 /\ (L <=> ToGo = 1)
    BY <1>4, <2>2, <2>3, SMT
  <2>5. BodyIndex' = BodyIndex + 1
    <3>1. BodyIndex' = p + 1 - Head_.from + 8
      BY <1>6, <1>7 DEF BodyIndex
    <3>2. \A o, f \in Nat : (o + 1) + 1 - f + 8 = (o + 1 - f + 8) + 1
      BY SMT
    <3> QED BY <1>4, <2>1, <3>1, <3>2
  <2>6. ToGo' = ToGo - 1
    <3>1. CASE L
      BY <1>1, <2>4, <3>1 DEF ToGo
    <3>2. CASE ~L
      BY <1>1, <1>4, <1>7, <2>2, <2>3, <2>5, <3>2 DEF ToGo
    <3> QED BY <3>1, <3>2
  <2> QED BY <2>2, <2>4, <2>6
<1>9. Flow[p] = w.byte
  <2>1. /\ Sent \in Seq(Byte) /\ Len(Sent) = Len(out)
        /\ Unsent \in Seq(Byte) /\ enc \in Seq(Byte) /\ raw \in Seq(Byte)
        /\ Flow = Sent \o Unsent \o enc \o raw
    BY <1>3, FlowParts
  <2>2. 1 \in 1 .. Len(Unsent) /\ Unsent[1] = buf[x]
    <3>1. x \in Int /\ x >= 1 /\ x <= Len(buf) /\ Len(buf) \in x .. Len(buf)
      BY <1>4, SMT
    <3>2. SubSeq(buf, x, Len(buf)) = <<buf[x]>> \o SubSeq(buf, x + 1, Len(buf))
      BY <1>3, <1>4, <3>1, SubSeqRecursiveFirst DEF TypeOK
    <3>3. Unsent = <<buf[x]>> \o SubSeq(buf, x + 1, Len(buf))
      BY <1>1, <3>2 DEF Unsent
    <3>4. /\ <<buf[x]>> \in Seq(Byte) /\ SubSeq(buf, x + 1, Len(buf)) \in Seq(Byte)
          /\ 1 \in 1 .. Len(<<buf[x]>>)
      <4>1. \A i \in x + 1 .. Len(buf) : i \in 1 .. Len(buf)
        BY <1>4, <3>1, SMT
      <4>2. buf \in Seq(Byte)
        BY <1>3 DEF TypeOK
      <4>3. \A i \in x + 1 .. Len(buf) : buf[i] \in Byte
        BY <4>1, <4>2, ElementOfSeq
      <4>4. SubSeq(buf, x + 1, Len(buf)) \in Seq(Byte)
        BY <1>4, <3>1, <4>3, SubSeqProperties
      <4>5. buf[x] \in Byte
        BY <1>4, <4>2, ElementOfSeq
      <4> QED BY <4>4, <4>5
    <3>5. 1 \in 1 .. Len(Unsent) /\ Unsent[1] = <<buf[x]>>[1]
      BY <3>3, <3>4, FirstOfJoined
    <3> QED BY <3>5
  <2>3. Sent \o Unsent \in Seq(Byte) /\ p \in 1 .. Len(Sent \o Unsent) /\ (Sent \o Unsent)[p] = Unsent[1]
    <3> DEFINE a == Sent
               b == Unsent
    <3>1. a \in Seq(Byte) /\ b \in Seq(Byte) /\ Len(a) \in Nat /\ Len(b) \in Nat
          /\ 1 <= Len(b) /\ p = Len(a) + 1
      BY <1>4, <2>1, <2>2, LenProperties
    <3> HIDE DEF a, b, p
    <3>2. /\ a \o b \in Seq(Byte) /\ Len(a \o b) = Len(a) + Len(b)
          /\ \A i \in 1 .. Len(a) + Len(b) : (a \o b)[i] =
                IF i <= Len(a) THEN a[i] ELSE b[i - Len(a)]
      BY <3>1, ConcatProperties
    <3>3. p \in 1 .. Len(a) + Len(b) /\ ~(p <= Len(a)) /\ p - Len(a) = 1
      BY <3>1, SMT
    <3> QED BY <3>2, <3>3 DEF a, b
  <2>4. (Sent \o Unsent \o enc \o raw)[p] = (Sent \o Unsent)[p]
    <3> DEFINE a == Sent \o Unsent
    <3>1. a \in Seq(Byte) /\ p \in 1 .. Len(a)
      BY <2>3
    <3> HIDE DEF a, p
    <3>2. a \o enc \in Seq(Byte) /\ p \in 1 .. Len(a \o enc) /\ (a \o enc)[p] = a[p]
      BY <2>1, <3>1, FirstOfJoined, ConcatProperties
    <3>3. (a \o enc \o raw)[p] = (a \o enc)[p]
      BY <2>1, <3>2, FirstOfJoined
    <3> QED BY <3>2, <3>3 DEF a
  <2>5. w.byte = buf[x]
    BY DEF w
  <2> QED BY <2>1, <2>2, <2>3, <2>4, <2>5
<1>10. w = [byte |-> Flow[p], last |-> ToGo = 1]
  <2>1. w.byte = buf[x]
    BY DEF w
  <2> QED BY <1>8, <1>9, <2>1 DEF w
<1>11. Packets' = Packets
  BY <1>1 DEF Packets
<1> QED BY <1>1, <1>2, <1>8, <1>10, <1>11 DEF Path!Give

LEMMA PathNext == UInv /\ [Next]_vars => [Path!Next]_(Path!pathVars)
<1> SUFFICES ASSUME UInv, [Next]_vars
             PROVE  Path!Next \/ UNCHANGED Path!pathVars
  OBVIOUS
<1>1. CASE ReadHeaders \/ SetDstIp \/ SetDstMac
  <2>1. UNCHANGED <<rcv, pphase, buf, heads, out>>
    BY <1>1 DEF ReadHeaders, CanRead, SetDstIp, SetDstMac, packVars
  <2>2. ToGo' = ToGo
    BY <2>1 DEF ToGo, Head_, BodyIndex
  <2> QED BY <1>1, <2>1, <2>2, HeadersStep, PathStutter
<1>2. CASE PassByte
  BY <1>2, PathTake DEF Path!Next
<1>3. CASE Process
  <2>1. UNCHANGED <<rcv, pphase, buf, heads, out>>
    BY <1>3 DEF Process, CanProcess, depackVars, packVars
  <2>2. ToGo' = ToGo
    BY <2>1 DEF ToGo, Head_, BodyIndex
  <2> QED BY <1>3, <2>1, <2>2, ProcessStep, PathStutter
<1>4. CASE Fill
  <2>1. pphase = "fill" /\ pphase' # "body" /\ UNCHANGED <<rcv, heads, out>>
    BY <1>4 DEF Fill, CanFill, depackVars
  <2>2. ToGo' = ToGo
    BY <2>1 DEF ToGo
  <2> QED BY <1>4, <2>1, <2>2, FillStep, PathStutter
<1>5. CASE WriteHeaders
  BY <1>5, PathAnnounce DEF Path!Next
<1>6. CASE WriteBody
  BY <1>6, PathGive DEF Path!Next
<1>7. CASE UNCHANGED vars
  <2>1. UNCHANGED <<rcv, pphase, buf, heads, out>>
    BY <1>7 DEF vars
  <2>2. ToGo' = ToGo
    BY <2>1 DEF ToGo, Head_, BodyIndex
  <2> QED BY <1>7, <2>1, <2>2, StutterStep, PathStutter
<1> QED
  BY <1>1, <1>2, <1>3, <1>4, <1>5, <1>6, <1>7 DEF Next, Depacketizer, Packetizer

\* Depacketizer, core and packetizer implement Repacketizer: the stream of the
\* datagrams, cut into packets that are announced only when complete, each to a
\* client no older than its data, each word the next byte of the stream
\* (udp_depacketizer.cpp:35-42, udp_packetizer.cpp:42-122).
THEOREM Refinement == Spec => ImplementsRepacketizer
<1> QED
  BY PathInit, PathNext, Invariance, PTL
     DEF Spec, ImplementsRepacketizer, Path!Safety
-----------------------------------------------------------------------------
(* The path comes to rest *)

\* No sequence of tuples of n natural numbers goes down in Below for ever.
THEOREM DescentEnds ==
    ASSUME NEW n \in Nat, NEW f \in [Nat -> [1 .. n -> Nat]]
    PROVE  \E m \in Nat : ~Below(f[m + 1], f[m])
<1> DEFINE Less == OpToRel(<, Nat)
           R == LexProductOrdering(Less, Nat, n)
<1>1. IsWellFoundedOn(R, [1 .. n -> Nat])
  BY NatLessThanWellFounded, WFLexProductOrdering
<1>2. PICK m \in Nat : <<f[m + 1], f[m]>> \notin R
  BY <1>1 DEF IsWellFoundedOn
<1> DEFINE a == f[m + 1]
           b == f[m]
<1>3. a \in [1 .. n -> Nat] /\ b \in [1 .. n -> Nat]
  <2>1. m \in Nat /\ m + 1 \in Nat
    <3>1. \A i \in Nat : i + 1 \in Nat
      OBVIOUS
    <3> QED BY <3>1, Zenon
  <2>2. \A i \in Nat : f[i] \in [1 .. n -> Nat]
    OBVIOUS
  <2> QED BY <2>1, <2>2, Zenon
<1>4. <<a, b>> \notin R
  BY <1>2
<1> HIDE DEF a, b
<1>5. Len(a) = n
  <2>1. a \in Seq(Nat)
    BY <1>3, SeqDef
  <2>2. Len(a) \in Nat /\ 1 .. Len(a) = 1 .. n
    <3>1. DOMAIN a = 1 .. n
      BY <1>3
    <3> QED BY <2>1, <3>1, LenProperties
  <2>3. \A i \in Nat : (i \in 1 .. Len(a) <=> i \in 1 .. n)
    BY <2>2
  <2>4. (n \in 1 .. Len(a) <=> n \in 1 .. n) /\ (Len(a) \in 1 .. Len(a) <=> Len(a) \in 1 .. n)
    BY <2>2, <2>3
  <2> QED BY <2>2, <2>4, SMT
<1>6. ASSUME NEW i \in 1 .. n, a[i] < b[i], \A j \in 1 .. i - 1 : a[j] = b[j]
      PROVE  FALSE
  <2>1. a[i] \in Nat /\ b[i] \in Nat
    BY <1>3
  <2>2. <<a[i], b[i]>> \in Less
    BY <1>6, <2>1 DEF OpToRel
  <2> HIDE DEF Less
  <2>3. \A j \in 1 .. (i - 1) : a[j] = b[j]
    BY <1>6
  <2> QED BY <1>3, <1>4, <2>2, <2>3 DEF LexProductOrdering
<1>7. ~Below(a, b)
  BY <1>5, <1>6 DEF Below
<1> QED BY <1>7 DEF a, b

\* Tuples of six: the first difference decides.
LEMMA BelowSix ==
    ASSUME NEW a1, NEW a2, NEW a3, NEW a4, NEW a5, NEW a6,
           NEW b1, NEW b2, NEW b3, NEW b4, NEW b5, NEW b6,
           \/ a1 < b1
           \/ a1 = b1 /\ a2 < b2
           \/ a1 = b1 /\ a2 = b2 /\ a3 < b3
           \/ a1 = b1 /\ a2 = b2 /\ a3 = b3 /\ a4 < b4
           \/ a1 = b1 /\ a2 = b2 /\ a3 = b3 /\ a4 = b4 /\ a5 < b5
           \/ a1 = b1 /\ a2 = b2 /\ a3 = b3 /\ a4 = b4 /\ a5 = b5 /\ a6 < b6
    PROVE  Below(<<a1, a2, a3, a4, a5, a6>>, <<b1, b2, b3, b4, b5, b6>>)
<1> DEFINE a == <<a1, a2, a3, a4, a5, a6>>
           b == <<b1, b2, b3, b4, b5, b6>>
<1>1. /\ a[1] = a1 /\ a[2] = a2 /\ a[3] = a3 /\ a[4] = a4 /\ a[5] = a5 /\ a[6] = a6
      /\ b[1] = b1 /\ b[2] = b2 /\ b[3] = b3 /\ b[4] = b4 /\ b[5] = b5 /\ b[6] = b6
      /\ Len(a) = 6
  OBVIOUS
<1> HIDE DEF a, b
<1>2. PICK i \in {1, 2, 3, 4, 5, 6} :
         /\ a[i] < b[i]
         /\ \A j \in {1, 2, 3, 4, 5} : j < i => a[j] = b[j]
  BY <1>1
<1>3. i \in 1 .. 6 /\ \A j \in 1 .. i - 1 : j \in {1, 2, 3, 4, 5} /\ j < i
  BY SMT
<1> QED BY <1>1, <1>2, <1>3 DEF Below, a, b

\* The depacketizer is inside the datagram it is at.
PlaceInv ==
    /\ at.k >= 1
    /\ at.d <= Len(rcv) => at.k <= rcv[at.d].len + rcv[at.d].pad

RestInv == UInv /\ PlaceInv

\* A datagram has a byte to pass.
LEMMA GramSize ==
    ASSUME rcv \in Traffic, NEW d \in 1 .. Len(rcv)
    PROVE  /\ rcv[d].len \in Nat /\ rcv[d].pad \in Nat
           /\ rcv[d].len + rcv[d].pad \in Nat /\ rcv[d].len + rcv[d].pad >= 1
<1>1. rcv[d] \in Datagram
  BY SenderType
<1>2. rcv[d].len \in Nat /\ rcv[d].pad \in Nat /\ rcv[d].len + rcv[d].pad > 0
  BY <1>1 DEF Datagram
<1> QED BY <1>2, SMT

\* What every step but one of PassByte leaves alone.
LEMMA PlaceKept ==
    ASSUME PlaceInv, UNCHANGED <<rcv, at>>
    PROVE  PlaceInv'
BY DEF PlaceInv

LEMMA Placed ==
    ASSUME UInv, PlaceInv, PassByte
    PROVE  /\ PlaceInv'
           /\ at.d \in 1 .. Len(rcv) /\ Len(rcv) \in Nat /\ at.k \in Nat
           /\ \/ IsLast(rcv, at) /\ at'.d = at.d + 1 /\ dphase' = "headers"
              \/ /\ at'.d = at.d /\ at'.k = at.k + 1 /\ dphase' = "pass"
                 /\ at.k < rcv[at.d].len + rcv[at.d].pad
<1>1. /\ dphase = "pass" /\ at' = NextByte(rcv, at) /\ rcv' = rcv
      /\ dphase' = IF IsLast(rcv, at) THEN "headers" ELSE "pass"
  BY DEF PassByte, CanPass
<1>2. TypeOK /\ ArrivalInv
  BY DEF UInv
<1>3. /\ rcv \in Traffic /\ at \in Byte /\ at.d \in Nat /\ at.k \in Nat /\ Len(rcv) \in Nat
      /\ at.d >= 1 /\ at.d <= Len(rcv)
  BY <1>1, <1>2, Sizes, LenProperties DEF TypeOK, Byte, ArrivalInv
<1>4. at.d \in 1 .. Len(rcv)
  BY <1>3, SMT
<1> DEFINE size == rcv[at.d].len + rcv[at.d].pad
<1>5. size \in Nat /\ at.k <= size /\ at.k >= 1 /\ (IsLast(rcv, at) <=> at.k = size)
  BY <1>3, <1>4, GramSize DEF PlaceInv, IsLast
<1> HIDE DEF size
<1>6. CASE IsLast(rcv, at)
  <2>1. at' = [d |-> at.d + 1, k |-> 1]
    BY <1>1, <1>6 DEF NextByte
  <2>2. at'.d = at.d + 1 /\ at'.k = 1 /\ dphase' = "headers"
    BY <1>1, <1>6, <2>1
  <2>3. ASSUME at.d + 1 <= Len(rcv)
        PROVE  1 <= rcv[at.d + 1].len + rcv[at.d + 1].pad
    <3>1. at.d + 1 \in 1 .. Len(rcv)
      BY <1>3, <2>3, SMT
    <3> QED BY <1>3, <3>1, GramSize
  <2>4. PlaceInv'
    BY <1>1, <2>2, <2>3 DEF PlaceInv
  <2> QED BY <1>3, <1>4, <1>6, <2>2, <2>4
<1>7. CASE ~IsLast(rcv, at)
  <2>1. at' = [at EXCEPT !.k = @ + 1]
    BY <1>1, <1>7 DEF NextByte
  <2>2. at'.d = at.d /\ at'.k = at.k + 1 /\ dphase' = "pass"
    BY <1>1, <1>3, <1>7, <2>1 DEF Byte
  <2>3. at.k < size /\ at.k + 1 <= size /\ at.k + 1 >= 1
    BY <1>3, <1>5, <1>7, SMT
  <2>4. PlaceInv'
    BY <1>1, <2>2, <2>3 DEF PlaceInv, size
  <2> QED BY <1>3, <1>4, <2>2, <2>3, <2>4 DEF size
<1> QED BY <1>6, <1>7

LEMMA RestInit == Init => RestInv
<1> SUFFICES ASSUME Init PROVE RestInv
  OBVIOUS
<1>1. UInv
  BY UInit
<1>2. rcv \in Traffic /\ at = [d |-> 1, k |-> 1]
  BY DEF Init
<1>3. at.d = 1 /\ at.k = 1 /\ Len(rcv) \in Nat
  BY <1>2, Sizes, LenProperties
<1>4. ASSUME 1 <= Len(rcv)
      PROVE  1 <= rcv[1].len + rcv[1].pad
  <2>1. 1 \in 1 .. Len(rcv)
    BY <1>3, <1>4, SMT
  <2> QED BY <1>2, <2>1, GramSize
<1> QED BY <1>1, <1>3, <1>4 DEF RestInv, PlaceInv

LEMMA RestNext == RestInv /\ [Next]_vars => RestInv'
<1> SUFFICES ASSUME RestInv, [Next]_vars PROVE RestInv'
  OBVIOUS
<1>1. UInv /\ PlaceInv /\ UInv'
  BY UNext DEF RestInv
<1>2. CASE PassByte
  BY <1>1, <1>2, Placed DEF RestInv
<1>3. CASE ~PassByte
  <2>1. UNCHANGED <<rcv, at>>
    BY <1>3 DEF Next, Depacketizer, Packetizer, ReadHeaders, SetDstIp, SetDstMac, Process,
                Fill, WriteHeaders, WriteBody, depackVars, packVars, vars
  <2> QED BY <1>1, <2>1, PlaceKept DEF RestInv
<1> QED BY <1>2, <1>3

LEMMA AheadNat ==
    ASSUME RestInv
    PROVE  /\ Len(rcv) \in Nat /\ at.d \in Nat /\ Len(rcv) + 1 - at.d \in Nat
           /\ HeadersAhead \in Nat
           /\ BytesAhead \in Nat
           /\ Len(raw) \in Nat /\ Len(enc) \in Nat
           /\ Len(buf) \in Nat
           /\ pphase = "body" => ToGo = Len(buf) + 8 - BodyIndex /\ ToGo \in Nat /\ ToGo >= 1
           /\ PacketAhead \in Nat
<1>1. TypeOK /\ PackInv /\ ArrivalInv /\ PlaceInv
  BY DEF RestInv, UInv
<1>2. /\ Len(rcv) \in Nat /\ at.d \in Nat /\ at.k \in Nat /\ at.d >= 1
      /\ Len(raw) \in Nat /\ Len(enc) \in Nat /\ Len(buf) \in Nat
  BY <1>1, Sizes, LenProperties DEF TypeOK, Byte, ArrivalInv
<1>3. Len(rcv) + 1 - at.d \in Nat
  <2>1. CASE dphase # "headers"
    <3>1. at.d <= Len(rcv)
      BY <1>1, <2>1 DEF ArrivalInv
    <3> QED BY <1>2, <3>1, SMT
  <2>2. CASE dphase = "headers"
    <3>1. at.d - 1 <= Len(rcv)
      BY <1>1, <2>2 DEF ArrivalInv, Current
    <3> QED BY <1>2, <3>1, SMT
  <2> QED BY <2>1, <2>2
<1>4. HeadersAhead \in Nat
  BY <1>1 DEF HeadersAhead, TypeOK
<1>5. BytesAhead \in Nat
  <2>1. CASE at.d <= Len(rcv)
    <3>1. at.d \in 1 .. Len(rcv)
      BY <1>2, <2>1, SMT
    <3>2. rcv[at.d].len \in Nat /\ rcv[at.d].pad \in Nat /\ at.k <= rcv[at.d].len + rcv[at.d].pad
      BY <1>1, <2>1, <3>1, GramSize DEF TypeOK, PlaceInv
    <3>3. rcv[at.d].len + rcv[at.d].pad - at.k \in Nat
      BY <1>2, <3>2, SMT
    <3> QED BY <2>1, <3>3 DEF BytesAhead
  <2>2. CASE ~(at.d <= Len(rcv))
    BY <2>2 DEF BytesAhead
  <2> QED BY <2>1, <2>2
<1>6. ASSUME pphase = "body"
      PROVE  ToGo = Len(buf) + 8 - BodyIndex /\ ToGo \in Nat /\ ToGo >= 1
  <2>1. /\ Head_.len = Len(buf) + 8 /\ BodyIndex - 7 \in 1 .. Len(buf)
        /\ Len(out) \in Nat /\ Head_.from \in Nat
    BY <1>1, <1>6, BodyCounters
  <2>2. BodyIndex \in Int
    BY <2>1, SMT DEF BodyIndex
  <2>3. ToGo = Len(buf) + 8 - BodyIndex
    <3>1. ToGo = Head_.len - BodyIndex
      BY <1>6, Zenon DEF ToGo
    <3>2. Head_.len = Len(buf) + 8
      BY <2>1
    <3> QED BY <1>2, <2>2, <3>1, <3>2, SMT
  <2> QED BY <1>2, <2>1, <2>2, <2>3, SMT
<1>7. PacketAhead \in Nat
  <2>1. CASE pphase = "header"
    BY <1>2, <2>1 DEF PacketAhead
  <2>2. CASE pphase = "body"
    BY <1>6, <2>2 DEF PacketAhead
  <2>3. CASE pphase = "fill"
    BY <2>3 DEF PacketAhead, ToGo
  <2> QED BY <1>1, <2>1, <2>2, <2>3 DEF TypeOK
<1> QED BY <1>2, <1>3, <1>4, <1>5, <1>6, <1>7

\* A step leaves less to do.
LEMMA Descends ==
    ASSUME RestInv, RestInv', Next
    PROVE  Below(Ahead', Ahead)
<1>1. TypeOK /\ PackInv /\ PlaceInv /\ UInv
  BY DEF RestInv, UInv
<1>2. /\ Len(rcv) \in Nat /\ at.d \in Nat
      /\ HeadersAhead \in Nat /\ BytesAhead \in Nat
      /\ Len(raw) \in Nat /\ Len(enc) \in Nat /\ Len(buf) \in Nat
      /\ pphase = "body" => ToGo = Len(buf) + 8 - BodyIndex /\ ToGo \in Nat /\ ToGo >= 1
      /\ PacketAhead \in Nat
  BY AheadNat
<1> DEFINE Grams == Len(rcv) + 1 - at.d
<1>3. SUFFICES \/ Grams' < Grams
               \/ Grams' = Grams /\ HeadersAhead' < HeadersAhead
               \/ Grams' = Grams /\ HeadersAhead' = HeadersAhead /\ BytesAhead' < BytesAhead
               \/ /\ Grams' = Grams /\ HeadersAhead' = HeadersAhead /\ BytesAhead' = BytesAhead
                  /\ Len(raw)' < Len(raw)
               \/ /\ Grams' = Grams /\ HeadersAhead' = HeadersAhead /\ BytesAhead' = BytesAhead
                  /\ Len(raw)' = Len(raw) /\ Len(enc)' < Len(enc)
               \/ /\ Grams' = Grams /\ HeadersAhead' = HeadersAhead /\ BytesAhead' = BytesAhead
                  /\ Len(raw)' = Len(raw) /\ Len(enc)' = Len(enc) /\ PacketAhead' < PacketAhead
  BY BelowSix DEF Ahead
<1>4. CASE ReadHeaders \/ SetDstIp \/ SetDstMac
  <2>1. Grams' = Grams
    BY <1>4 DEF ReadHeaders, SetDstIp, SetDstMac
  <2>2. HeadersAhead' < HeadersAhead
    BY <1>4 DEF ReadHeaders, CanRead, SetDstIp, SetDstMac, HeadersAhead
  <2> QED BY <2>1, <2>2
<1>5. CASE PassByte
  <2>1. /\ rcv' = rcv /\ dphase = "pass"
        /\ at.d \in 1 .. Len(rcv) /\ at.k \in Nat
        /\ \/ at'.d = at.d + 1
           \/ /\ at'.d = at.d /\ at'.k = at.k + 1 /\ dphase' = "pass"
              /\ at.k < rcv[at.d].len + rcv[at.d].pad
    BY <1>1, <1>5, Placed DEF PassByte, CanPass
  <2>2. CASE at'.d = at.d + 1
    <3>1. Grams' < Grams
      BY <1>2, <2>1, <2>2
    <3> QED BY <3>1
  <2>3. CASE /\ at'.d = at.d /\ at'.k = at.k + 1 /\ dphase' = "pass"
             /\ at.k < rcv[at.d].len + rcv[at.d].pad
    <3>1. Grams' = Grams /\ HeadersAhead' = HeadersAhead
      BY <2>1, <2>3 DEF HeadersAhead
    <3>2. at.d <= Len(rcv) /\ rcv[at.d].len \in Nat /\ rcv[at.d].pad \in Nat
      BY <1>1, <1>2, <2>1, GramSize DEF TypeOK
    <3>3. /\ BytesAhead = rcv[at.d].len + rcv[at.d].pad - at.k
          /\ BytesAhead' = rcv[at.d].len + rcv[at.d].pad - (at.k + 1)
      BY <2>1, <2>3, <3>2 DEF BytesAhead
    <3>4. BytesAhead' < BytesAhead
      BY <2>1, <3>2, <3>3, SMT
    <3> QED BY <3>1, <3>4
  <2> QED BY <2>1, <2>2, <2>3
<1>6. CASE Process
  <2>1. /\ Len(raw) >= Block /\ raw' = SubSeq(raw, Block + 1, Len(raw))
        /\ UNCHANGED <<rcv, dphase, at>>
    BY <1>6 DEF Process, CanProcess, depackVars
  <2>2. Grams' = Grams /\ HeadersAhead' = HeadersAhead /\ BytesAhead' = BytesAhead
    BY <2>1 DEF HeadersAhead, BytesAhead
  <2>3. Len(raw') = Len(raw) - Block
    BY <1>1, <2>1, Sizes, CutInTwo DEF TypeOK
  <2>4. Len(raw') < Len(raw)
    BY <1>2, <2>3, Sizes, SMT
  <2> QED BY <2>2, <2>4
<1>7. CASE Fill
  <2>1. enc # <<>> /\ enc' = Tail(enc) /\ UNCHANGED <<rcv, dphase, at, raw>>
    BY <1>7 DEF Fill, CanFill, depackVars
  <2>2. /\ Grams' = Grams /\ HeadersAhead' = HeadersAhead /\ BytesAhead' = BytesAhead
        /\ Len(raw') = Len(raw)
    BY <2>1 DEF HeadersAhead, BytesAhead
  <2>3. Len(enc') = Len(enc) - 1
    BY <1>1, <2>1, HeadTailProperties DEF TypeOK
  <2>4. Len(enc') < Len(enc)
    BY <1>2, <2>3, SMT
  <2> QED BY <2>2, <2>4
<1>8. CASE WriteHeaders \/ WriteBody
  <2>1. UNCHANGED <<rcv, dphase, at, raw, enc>>
    BY <1>8 DEF WriteHeaders, WriteBody, depackVars
  <2>2. /\ Grams' = Grams /\ HeadersAhead' = HeadersAhead /\ BytesAhead' = BytesAhead
        /\ Len(raw') = Len(raw) /\ Len(enc') = Len(enc)
    BY <2>1 DEF HeadersAhead, BytesAhead
  <2>3. PacketAhead' < PacketAhead
    <3>1. CASE WriteHeaders
      <4>1. ToGo' = Len(buf)
        BY <1>1, <3>1, PathAnnounce
      <4>2. pphase = "header" /\ pphase' = "body"
        BY <3>1 DEF WriteHeaders
      <4>3. PacketAhead = Len(buf) + 1 /\ PacketAhead' = Len(buf)
        BY <4>1, <4>2 DEF PacketAhead
      <4> QED BY <1>2, <4>3, SMT
    <3>2. CASE WriteBody
      <4>1. ToGo' = ToGo - 1
        BY <1>1, <3>2, PathGive
      <4>2. pphase = "body" /\ pphase' # "header"
        BY <3>2 DEF WriteBody
      <4>3. PacketAhead = ToGo /\ PacketAhead' = ToGo - 1
        BY <4>1, <4>2 DEF PacketAhead
      <4> QED BY <1>2, <4>2, <4>3, SMT
    <3> QED BY <1>8, <3>1, <3>2
  <2> QED BY <2>2, <2>3
<1> QED BY <1>4, <1>5, <1>6, <1>7, <1>8 DEF Next, Depacketizer, Packetizer

\* Where no block can take a step, only a tail is left: the packetizer waits for
\* the core, the core for a whole block, the depacketizer for a datagram.
LEMMA StuckOnlyAtTheEnd ==
    ASSUME UInv
    PROVE  NeverStuck
<1> SUFFICES ASSUME ~CanRead, dphase \notin {"ip", "mac"}, ~CanPass, ~CanProcess,
                    ~CanFill, pphase = "fill"
             PROVE  TailOnly
  BY DEF NeverStuck
<1>1. TypeOK /\ PackInv
  BY DEF UInv
<1>2. /\ Len(rcv) \in Nat /\ at.d \in Nat /\ Len(raw) \in Nat /\ raw \in Seq(Byte)
      /\ Block <= RawDepth /\ Block <= EncDepth
  BY <1>1, Sizes, LenProperties, UdpAssumption DEF TypeOK, Byte
<1>3. enc = <<>> /\ Len(enc) = 0 /\ Len(buf) < Cap
  BY <1>1 DEF CanFill, PackInv
<1>4. Len(raw) < Block
  <2>1. Len(enc) + Block <= EncDepth
    BY <1>2, <1>3, Sizes, SMT
  <2>2. ~(Len(raw) >= Block)
    BY <2>1 DEF CanProcess
  <2> QED BY <1>2, <2>2, Sizes, SMT
<1>5. dphase = "headers"
  <2>1. Len(raw) < RawDepth
    BY <1>2, <1>4, Sizes, SMT
  <2>2. dphase # "pass"
    BY <2>1 DEF CanPass
  <2> QED BY <1>1, <2>2 DEF TypeOK
<1>6. at.d > Len(rcv)
  <2>1. ~(at.d <= Len(rcv))
    BY <1>5 DEF CanRead
  <2> QED BY <1>2, <2>1, SMT
<1> QED BY <1>3, <1>4, <1>6 DEF TailOnly

\* The path comes to rest, and only in front of a tail, for every traffic, every
\* size of a block, of data_buf and of the FIFOs and every schedule: until then
\* some block has a step to take, and each step leaves less to do, which by
\* DescentEnds cannot go on for ever (network.cpp:77-89,
\* udp_packetizer.cpp:42-122, mb_bd.tcl:661-662).
THEOREM Rest == Spec => ComesToRest
<1>1. RestInv => NeverStuck /\ Ahead \in Seq(Nat)
  <2> SUFFICES ASSUME RestInv
               PROVE  NeverStuck /\ Ahead \in Seq(Nat)
    OBVIOUS
  <2>1. Ahead \in Seq(Nat)
    BY AheadNat DEF Ahead
  <2> QED BY <2>1, StuckOnlyAtTheEnd DEF RestInv
<1>2. RestInv /\ RestInv' /\ [Next]_vars => [Below(Ahead', Ahead)]_vars
  BY Descends
<1>3. Spec => []RestInv
  BY RestInit, RestNext, PTL DEF Spec
<1> QED BY <1>1, <1>2, <1>3, PTL DEF Spec, ComesToRest
=============================================================================
