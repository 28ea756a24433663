---------------------------- MODULE IngressProofs ----------------------------
(***************************************************************************)
(* Proofs about Ingress, for every traffic, header length and FIFO depth   *)
(* that the assumptions of Frames and Ingress allow.                       *)
(***************************************************************************)
EXTENDS Ingress, SequenceTheorems, TLAPS

-----------------------------------------------------------------------------
(* Frames and words *)

\* A frame is longer than its headers.
LEMMA FrameFacts ==
    ASSUME NEW t \in Traffic
    PROVE  /\ t \in Seq(Frame)
           /\ Len(t) \in Nat
           /\ \A f \in 1 .. Len(t) :
                /\ t[f] \in Frame
                /\ t[f].len \in Nat
                /\ t[f].len > HdrWords
<1>1. t \in Seq(Frame) /\ Len(t) \in Nat
  BY TrafficAssumption, LenProperties
<1>2. ASSUME NEW f \in 1 .. Len(t)
      PROVE  t[f] \in Frame
  BY <1>1, ElementOfSeq
<1>3. \A fr \in Frame : fr.len \in Nat /\ fr.len > HdrWords
  BY DEF Frame
<1> QED BY <1>1, <1>2, <1>3

LEMMA HdrFacts == /\ EthWords \in Nat /\ EthWords > 0
                  /\ IpWords \in Nat /\ IpWords > 0
                  /\ UdpWords \in Nat /\ UdpWords > 0
                  /\ HdrWords = EthWords + IpWords + UdpWords
                  /\ HdrWords \in Nat
BY HeadersAssumption DEF HdrWords

LEMMA ClassType == \A f : Class(f) \in Prots
BY DEF Class, Prots, Ports

LEMMA WordsOfFacts ==
    ASSUME NEW t \in Traffic, NEW w
    PROVE  w \in WordsOf(t) <=>
              /\ w \in Word
              /\ w.frame \in 1 .. Len(t)
              /\ w.pos \in 1 .. t[w.frame].len
<1>1. ASSUME w \in WordsOf(t)
      PROVE  w \in Word /\ w.frame \in 1 .. Len(t) /\ w.pos \in 1 .. t[w.frame].len
  <2>1. PICK f \in 1 .. Len(t) : w \in [frame : {f}, pos : 1 .. t[f].len]
    BY <1>1 DEF WordsOf
  <2>2. w.frame = f /\ w.pos \in 1 .. t[f].len
    BY <2>1
  <2> QED BY <2>1, <2>2, FrameFacts DEF Word
<1>2. ASSUME w \in Word, w.frame \in 1 .. Len(t), w.pos \in 1 .. t[w.frame].len
      PROVE  w \in WordsOf(t)
  <2>1. w \in [frame : {w.frame}, pos : 1 .. t[w.frame].len]
    BY <1>2 DEF Word
  <2> QED BY <1>2, <2>1 DEF WordsOf
<1> QED BY <1>1, <1>2

\* The word after a word of the traffic: the next one of the same frame, or
\* the first one of the next frame.
LEMMA NextWordFacts ==
    ASSUME NEW t \in Traffic, NEW w \in WordsOf(t)
    PROVE  /\ NextWord(t, w) \in Word
           /\ IsLast(t, w) => NextWord(t, w) = [frame |-> w.frame + 1, pos |-> 1]
           /\ ~IsLast(t, w) => /\ NextWord(t, w) = [frame |-> w.frame, pos |-> w.pos + 1]
                               /\ NextWord(t, w) \in WordsOf(t)
<1>1. w \in Word /\ w.frame \in 1 .. Len(t) /\ w.pos \in 1 .. t[w.frame].len
  BY WordsOfFacts
<1>2. t[w.frame].len \in Nat
  BY <1>1, FrameFacts
<1>3. CASE IsLast(t, w)
  BY <1>1, <1>3 DEF NextWord, Word
<1>4. CASE ~IsLast(t, w)
  <2>1. NextWord(t, w) = [frame |-> w.frame, pos |-> w.pos + 1]
    BY <1>1, <1>4 DEF NextWord, Word
  <2>2. w.pos + 1 \in 1 .. t[w.frame].len
    BY <1>1, <1>2, <1>4 DEF IsLast
  <2> QED BY <1>1, <1>4, <2>1, <2>2, WordsOfFacts DEF Word
<1> QED BY <1>3, <1>4

-----------------------------------------------------------------------------
(* packet_buffer: one word in at the tail, one word out at the head *)

\* A word one place further from the tail is one word further behind rx.
LEMMA OneFurther ==
    \A pos, n, j \in Nat : \A r :
        pos + (n - j) + 1 = r => pos + ((n + 1) - j) + 1 = r + 1
OBVIOUS

\* The word in front of the parser is a word of the traffic.
LEMMA RxInTraffic ==
    ASSUME TypeOK, ParserInv, rx.frame <= Len(wire)
    PROVE  rx \in WordsOf(wire)
<1>1. wire \in Traffic /\ rx \in Word
  BY DEF TypeOK
<1>2. rx.frame \in Nat /\ rx.pos \in Nat
  BY <1>1 DEF Word
<1>3. rx.frame \in 1 .. Len(wire) /\ Len(wire) \in Nat
  BY <1>1, <1>2, FrameFacts DEF ParserInv
<1>4. wire[rx.frame].len \in Nat
  BY <1>1, <1>3, FrameFacts
<1>5. rx.pos \in 1 .. wire[rx.frame].len
  BY <1>2, <1>4 DEF ParserInv
<1> QED BY <1>1, <1>3, <1>5, WordsOfFacts

LEMMA NextOutType ==
    ASSUME TypeOK
    PROVE  NextOut \in Word
<1>1. rx \in Word /\ pkt \in Seq(Word)
  BY DEF TypeOK
<1>2. pkt # <<>> => Head(pkt) \in Word
  BY <1>1, HeadTailProperties
<1> QED BY <1>1, <1>2 DEF NextOut

\* Passing a word on changes nothing for the distributer.
LEMMA PassWordFacts ==
    ASSUME TypeOK, ParserInv, PktInv, PassWord
    PROVE  /\ rx \in WordsOf(wire)
           /\ rx' = NextWord(wire, rx) /\ rx' \in Word
           /\ wire' = wire
           /\ pkt' \in Seq(Word) /\ Len(pkt') <= PktDepth
           /\ NextOut' = NextOut
           /\ PktInv'
<1>1. rx \in WordsOf(wire) /\ rx \in Word /\ wire \in Traffic
  BY RxInTraffic DEF PassWord, TypeOK
<1>2. rx' = NextWord(wire, rx) /\ rx' \in Word /\ wire' = wire
  BY <1>1, NextWordFacts DEF PassWord
<1>3. /\ pkt \in Seq(Word) /\ pkt' = Append(pkt, rx)
      /\ pkt' \in Seq(Word)
      /\ Len(pkt) \in Nat /\ Len(pkt') = Len(pkt) + 1
      /\ \A j \in 1 .. Len(pkt) : pkt'[j] = pkt[j]
      /\ pkt'[Len(pkt) + 1] = rx
  BY <1>1, AppendProperties, LenProperties DEF PassWord, TypeOK
<1>4. Len(pkt') <= PktDepth
  BY <1>3, DepthAssumption DEF PassWord, PktHasRoom, HdrWords
<1>5. NextOut' = NextOut
  <2>1. Head(pkt') = IF pkt = <<>> THEN rx ELSE Head(pkt)
    BY <1>1, <1>3, HeadTailAppend
  <2>2. pkt' # <<>>
    BY <1>1, <1>3, AppendProperties
  <2> QED BY <2>1, <2>2 DEF NextOut
<1>6. rx.frame \in Nat /\ rx.pos \in Nat
  BY <1>1 DEF Word
<1>7. \/ rx'.frame = rx.frame + 1
      \/ rx'.frame = rx.frame /\ rx'.pos = rx.pos + 1
  BY <1>1, <1>2, NextWordFacts
<1>8. ASSUME NEW j \in 1 .. Len(pkt')
      PROVE  /\ pkt'[j] \in WordsOf(wire)
             /\ NextWord(wire, pkt'[j]) = IF j < Len(pkt') THEN pkt'[j + 1] ELSE rx'
             /\ pkt'[j].frame <= rx'.frame
             /\ pkt'[j].frame = rx'.frame => pkt'[j].pos + (Len(pkt') - j) + 1 = rx'.pos
  <2>1. CASE j = Len(pkt) + 1
    BY <1>1, <1>2, <1>3, <1>6, <1>7, <2>1
  <2>2. CASE j \in 1 .. Len(pkt)
    <3>1. /\ pkt'[j] = pkt[j]
          /\ pkt[j] \in WordsOf(wire)
          /\ NextWord(wire, pkt[j]) = IF j < Len(pkt) THEN pkt[j + 1] ELSE rx
          /\ pkt[j].frame <= rx.frame
          /\ pkt[j].frame = rx.frame => pkt[j].pos + (Len(pkt) - j) + 1 = rx.pos
      BY <1>3, <2>2 DEF PktInv
    <3>2. pkt[j].frame \in Nat /\ pkt[j].pos \in Nat
      BY <1>1, <3>1, WordsOfFacts DEF Word
    <3>3. NextWord(wire, pkt'[j]) = IF j < Len(pkt') THEN pkt'[j + 1] ELSE rx'
      BY <1>3, <2>2, <3>1
    <3>4. pkt'[j].frame <= rx'.frame
      BY <1>6, <1>7, <3>1, <3>2
    <3>5. ASSUME pkt'[j].frame = rx'.frame
          PROVE  pkt'[j].pos + (Len(pkt') - j) + 1 = rx'.pos
      <4>1. rx'.frame = rx.frame /\ rx'.pos = rx.pos + 1
        BY <1>6, <1>7, <3>1, <3>2, <3>5
      <4>2. pkt[j].pos + (Len(pkt) - j) + 1 = rx.pos
        BY <3>1, <3>5, <4>1
      <4>3. Len(pkt) \in Nat /\ Len(pkt') = Len(pkt) + 1 /\ j \in Nat
        BY <1>3, <2>2
      <4>4. pkt'[j].pos = pkt[j].pos
        BY <3>1
      <4> QED BY <3>2, <4>1, <4>2, <4>3, <4>4, OneFurther
    <3> QED BY <3>1, <3>3, <3>4, <3>5
  <2> QED BY <1>3, <2>1, <2>2
<1> QED BY <1>1, <1>2, <1>3, <1>4, <1>5, <1>8 DEF PktInv

\* Taking a word out moves the distributer to the word after it.
LEMMA PopFacts ==
    ASSUME TypeOK, ParserInv, PktInv, pkt # <<>>,
           pkt' = Tail(pkt), rx' = rx, wire' = wire
    PROVE  /\ NextOut = Head(pkt) /\ NextOut \in WordsOf(wire)
           /\ NextOut' = NextWord(wire, NextOut)
           /\ pkt' \in Seq(Word) /\ Len(pkt') <= PktDepth
           /\ PktInv'
<1>1. pkt \in Seq(Word) /\ wire \in Traffic
  BY DEF TypeOK
<1>2. Len(pkt) \in Nat /\ Len(pkt) > 0 /\ Head(pkt) = pkt[1]
  BY <1>1, EmptySeq, LenProperties
<1>3. /\ pkt' \in Seq(Word)
      /\ Len(pkt') = Len(pkt) - 1
      /\ \A j \in 1 .. Len(pkt') : pkt'[j] = pkt[j + 1]
  BY <1>1, HeadTailProperties
<1>4. Len(pkt') <= PktDepth
  BY <1>2, <1>3, HdrFacts, DepthAssumption DEF TypeOK
<1>5. NextOut = Head(pkt) /\ NextOut \in WordsOf(wire)
  BY <1>2 DEF NextOut, PktInv
<1>6. NextOut' = NextWord(wire, NextOut)
  <2>1. NextWord(wire, pkt[1]) = IF 1 < Len(pkt) THEN pkt[2] ELSE rx
    BY <1>2 DEF PktInv
  <2>2. CASE Len(pkt) = 1
    <3>1. pkt' = <<>>
      BY <1>3, <2>2, EmptySeq
    <3> QED BY <1>2, <1>5, <2>1, <2>2, <3>1 DEF NextOut
  <2>3. CASE Len(pkt) # 1
    <3>1. 1 \in 1 .. Len(pkt') /\ 1 < Len(pkt)
      BY <1>2, <1>3, <2>3
    <3>2. pkt' # <<>>
      <4>1. Len(pkt') # 0
        BY <1>2, <1>3, <2>3
      <4>2. Len(<<>>) = 0
        BY EmptySeq
      <4> QED BY <4>1, <4>2, Zenon
    <3>4. Head(pkt') = pkt'[1]
      BY <1>3, <3>1, <3>2
    <3>3. pkt'[1] = pkt[2]
      BY <1>2, <1>3, <3>1
    <3> QED BY <1>2, <1>5, <2>1, <3>1, <3>2, <3>3, <3>4 DEF NextOut
  <2> QED BY <2>2, <2>3
<1>7. ASSUME NEW j \in 1 .. Len(pkt')
      PROVE  /\ pkt'[j] \in WordsOf(wire)
             /\ NextWord(wire, pkt'[j]) = IF j < Len(pkt') THEN pkt'[j + 1] ELSE rx
             /\ pkt'[j].frame <= rx.frame
             /\ pkt'[j].frame = rx.frame => pkt'[j].pos + (Len(pkt') - j) + 1 = rx.pos
  <2>1. j + 1 \in 1 .. Len(pkt) /\ pkt'[j] = pkt[j + 1]
    BY <1>2, <1>3
  <2>2. j < Len(pkt') => pkt'[j + 1] = pkt[j + 2]
    BY <1>2, <1>3
  <2>3. Len(pkt') - j = Len(pkt) - (j + 1)
    BY <1>2, <1>3
  <2>4. /\ pkt[j + 1] \in WordsOf(wire)
        /\ NextWord(wire, pkt[j + 1]) = IF j + 1 < Len(pkt) THEN pkt[j + 2] ELSE rx
        /\ pkt[j + 1].frame <= rx.frame
        /\ pkt[j + 1].frame = rx.frame =>
              pkt[j + 1].pos + (Len(pkt) - (j + 1)) + 1 = rx.pos
    BY <2>1 DEF PktInv
  <2> QED BY <1>2, <1>3, <2>1, <2>2, <2>3, <2>4
<1> QED BY <1>3, <1>4, <1>5, <1>6, <1>7 DEF PktInv

-----------------------------------------------------------------------------
(* The inductive invariant: the parser *)

\* Passing a word on keeps everything that is said about the distributer's
\* side, and the alignment of the verdicts as long as no frame is completed or
\* classified by the same step.
LEMMA PassWordKeeps ==
    ASSUME IInv, PassWord
    PROVE  /\ RouteInv' /\ InbufInv' /\ NothingLost'
           /\ ClassifiedUpTo' = ClassifiedUpTo => VerdictsAligned'
<1>1. /\ wire' = wire /\ prots' = prots /\ route' = route
      /\ inbuf' = inbuf /\ taken' = taken
  BY DEF PassWord
<1>2. NextOut' = NextOut
  BY PassWordFacts DEF IInv
<1>3. RoutedUpTo' = RoutedUpTo
  BY <1>1, <1>2 DEF RoutedUpTo
<1>4. RouteInv'
  BY <1>1, <1>2 DEF IInv, RouteInv
<1>5. InbufInv'
  BY <1>1 DEF IInv, InbufInv
<1>6. NothingLost'
  BY <1>1, <1>2 DEF IInv, NothingLost, Newest
<1>7. ClassifiedUpTo' = ClassifiedUpTo => VerdictsAligned'
  BY <1>1, <1>2, <1>3 DEF IInv, VerdictsAligned
<1> QED BY <1>4, <1>5, <1>6, <1>7

\* A header word is never the last word of its frame.
LEMMA HeaderWordFacts ==
    ASSUME IInv, PassWord, phase \in {"eth", "ip", "udp"}
    PROVE  /\ rx.frame \in 1 .. Len(wire) /\ rx.pos \in Nat
           /\ rx'.frame = rx.frame /\ rx'.pos = rx.pos + 1
           /\ rx'.pos <= wire[rx.frame].len
           /\ rx.pos <= HdrWords
<1>1. rx \in WordsOf(wire) /\ rx' = NextWord(wire, rx) /\ wire \in Traffic
  BY PassWordFacts DEF IInv, TypeOK
<1>2. rx \in Word /\ rx.frame \in 1 .. Len(wire) /\ rx.pos \in 1 .. wire[rx.frame].len
  BY <1>1, WordsOfFacts
<1>3. wire[rx.frame].len \in Nat /\ wire[rx.frame].len > HdrWords
  BY <1>1, <1>2, FrameFacts
<1>4. rx.pos \in Nat /\ seen \in Nat
  BY <1>2 DEF Word, IInv, TypeOK
<1>5. rx.pos <= HdrWords
  BY <1>4, HdrFacts DEF IInv, ParserInv
<1>6. ~IsLast(wire, rx)
  BY <1>3, <1>4, <1>5, HdrFacts DEF IsLast
<1>7. rx' = [frame |-> rx.frame, pos |-> rx.pos + 1]
  BY <1>1, <1>6, NextWordFacts
<1> QED BY <1>2, <1>3, <1>4, <1>5, <1>7, HdrFacts

LEMMA HeaderWordStep ==
    ASSUME IInv, NEW ph, NEW n, HeaderWord(ph, n),
           <<ph, n>> \in {<<"eth", EthWords>>, <<"ip", IpWords>>, <<"udp", UdpWords>>}
    PROVE  IInv'
<1>1. /\ PassWord /\ phase = ph /\ seen + 1 < n /\ seen' = seen + 1
      /\ phase' = phase /\ verdict' = verdict /\ phase \in {"eth", "ip", "udp"}
  BY DEF HeaderWord
<1>2. /\ rx.frame \in 1 .. Len(wire) /\ rx.pos \in Nat
      /\ rx'.frame = rx.frame /\ rx'.pos = rx.pos + 1
      /\ rx'.pos <= wire[rx.frame].len
  BY <1>1, HeaderWordFacts
<1>3. wire' = wire /\ rx' \in Word /\ pkt' \in Seq(Word) /\ Len(pkt') <= PktDepth /\ PktInv'
  BY <1>1, PassWordFacts DEF IInv
<1>4. seen \in Nat /\ wire \in Traffic /\ Len(wire) \in Nat
  BY FrameFacts DEF IInv, TypeOK
<1>5. TypeOK'
  BY <1>1, <1>3, <1>4 DEF IInv, TypeOK, PassWord
<1>6. ParserInv'
  BY <1>1, <1>2, <1>3, <1>4, HdrFacts DEF IInv, ParserInv
<1>7. ClassifiedUpTo' = ClassifiedUpTo
  BY <1>1, <1>2 DEF ClassifiedUpTo
<1> QED BY <1>1, <1>3, <1>5, <1>6, <1>7, PassWordKeeps DEF IInv

\* The last word of a header, whatever the parser decides on it.
LEMMA EndOfHeaderFacts ==
    ASSUME IInv, NEW ph, NEW n, EndOfHeader(ph, n),
           <<ph, n>> \in {<<"eth", EthWords>>, <<"ip", IpWords>>, <<"udp", UdpWords>>},
           phase' \in Phases, verdict' \in Prots
    PROVE  /\ TypeOK' /\ PktInv' /\ wire' = wire /\ seen' = 0
           /\ rx.frame \in 1 .. Len(wire) /\ rx.pos \in Nat
           /\ rx'.frame = rx.frame /\ rx'.pos = rx.pos + 1
           /\ rx'.pos <= wire[rx.frame].len /\ rx.pos <= HdrWords
           /\ phase = ph /\ seen + 1 = n /\ seen \in Nat
           /\ phase' # "pass" =>
                RouteInv' /\ InbufInv' /\ NothingLost' /\ VerdictsAligned'
<1>1. /\ PassWord /\ phase = ph /\ seen + 1 = n /\ seen' = 0
      /\ phase \in {"eth", "ip", "udp"}
  BY DEF EndOfHeader
<1>2. /\ rx.frame \in 1 .. Len(wire) /\ rx.pos \in Nat
      /\ rx'.frame = rx.frame /\ rx'.pos = rx.pos + 1
      /\ rx'.pos <= wire[rx.frame].len /\ rx.pos <= HdrWords
  BY <1>1, HeaderWordFacts
<1>3. wire' = wire /\ rx' \in Word /\ pkt' \in Seq(Word) /\ Len(pkt') <= PktDepth /\ PktInv'
  BY <1>1, PassWordFacts DEF IInv
<1>4. TypeOK'
  BY <1>1, <1>3 DEF IInv, TypeOK, PassWord
<1>5. ASSUME phase' # "pass"
      PROVE  ClassifiedUpTo' = ClassifiedUpTo
  BY <1>1, <1>2, <1>5 DEF ClassifiedUpTo
<1>6. seen \in Nat
  BY DEF IInv, TypeOK
<1> QED BY <1>1, <1>2, <1>3, <1>4, <1>5, <1>6, PassWordKeeps

LEMMA EtherTypeStep ==
    ASSUME IInv, EtherType
    PROVE  IInv'
<1> DEFINE type == wire[rx.frame].ether
<1>1. EndOfHeader("eth", EthWords)
  BY DEF EtherType
<1>2. \/ type = "ARP" /\ phase' = "prot" /\ verdict' = "ARP"
      \/ type = "IPv4" /\ phase' = "ip" /\ verdict' = verdict
      \/ type \notin {"ARP", "IPv4"} /\ phase' = "prot" /\ verdict' = "OTHER"
  BY DEF EtherType, Classify, Continue
<1>3. phase' \in Phases /\ verdict' \in Prots
  BY <1>2 DEF Phases, Prots, Ports, IInv, TypeOK
<1>4. /\ TypeOK' /\ PktInv' /\ wire' = wire /\ seen' = 0
      /\ rx.frame \in 1 .. Len(wire) /\ rx.pos \in Nat
      /\ rx'.frame = rx.frame /\ rx'.pos = rx.pos + 1
      /\ rx'.pos <= wire[rx.frame].len /\ rx.pos <= HdrWords
      /\ phase = "eth" /\ seen + 1 = EthWords /\ seen \in Nat
      /\ phase' # "pass" =>
           RouteInv' /\ InbufInv' /\ NothingLost' /\ VerdictsAligned'
  BY <1>1, <1>3, EndOfHeaderFacts
<1>5. phase' = "prot" => verdict' = Class(wire'[rx'.frame])
  BY <1>2, <1>4 DEF Class
<1>6. Len(wire) \in Nat /\ rx.pos = seen + 1
  BY <1>4, FrameFacts DEF IInv, TypeOK, ParserInv
<1>7. ParserInv'
  BY <1>2, <1>4, <1>5, <1>6, HdrFacts DEF ParserInv
<1> QED BY <1>2, <1>4, <1>7 DEF IInv

LEMMA IpProtocolStep ==
    ASSUME IInv, IpProtocol
    PROVE  IInv'
<1> DEFINE proto == wire[rx.frame].proto
<1>1. EndOfHeader("ip", IpWords)
  BY DEF IpProtocol
<1>2. \/ proto = "ICMP" /\ phase' = "prot" /\ verdict' = "ICMP"
      \/ proto = "UDP" /\ phase' = "udp" /\ verdict' = verdict
      \/ proto \notin {"ICMP", "UDP"} /\ phase' = "prot" /\ verdict' = "OTHER"
  BY DEF IpProtocol, Classify, Continue
<1>3. phase' \in Phases /\ verdict' \in Prots
  BY <1>2 DEF Phases, Prots, Ports, IInv, TypeOK
<1>4. /\ TypeOK' /\ PktInv' /\ wire' = wire /\ seen' = 0
      /\ rx.frame \in 1 .. Len(wire) /\ rx.pos \in Nat
      /\ rx'.frame = rx.frame /\ rx'.pos = rx.pos + 1
      /\ rx'.pos <= wire[rx.frame].len /\ rx.pos <= HdrWords
      /\ phase = "ip" /\ seen + 1 = IpWords /\ seen \in Nat
      /\ phase' # "pass" =>
           RouteInv' /\ InbufInv' /\ NothingLost' /\ VerdictsAligned'
  BY <1>1, <1>3, EndOfHeaderFacts
<1>5. Len(wire) \in Nat /\ rx.pos = EthWords + seen + 1 /\ wire[rx.frame].ether = "IPv4"
  BY <1>4, FrameFacts DEF IInv, TypeOK, ParserInv
<1>6. phase' = "prot" => verdict' = Class(wire'[rx'.frame])
  BY <1>2, <1>4, <1>5 DEF Class
<1>7. ParserInv'
  BY <1>2, <1>4, <1>5, <1>6, HdrFacts DEF ParserInv
<1> QED BY <1>2, <1>4, <1>7 DEF IInv

LEMMA UdpPortStep ==
    ASSUME IInv, UdpPort
    PROVE  IInv'
<1> DEFINE port == wire[rx.frame].port
<1>1. EndOfHeader("udp", UdpWords)
  BY DEF UdpPort
<1>2. /\ phase' = "prot"
      /\ \/ port = 60000 /\ verdict' = "UDP_STRM"
         \/ port \in {50000, 40000} /\ verdict' = "UDP_REG"
         \/ port \notin {60000, 50000, 40000} /\ verdict' = "OTHER"
  BY DEF UdpPort, Classify
<1>3. phase' \in Phases /\ verdict' \in Prots
  BY <1>2 DEF Phases, Prots, Ports
<1>4. /\ TypeOK' /\ PktInv' /\ wire' = wire /\ seen' = 0
      /\ rx.frame \in 1 .. Len(wire) /\ rx.pos \in Nat
      /\ rx'.frame = rx.frame /\ rx'.pos = rx.pos + 1
      /\ rx'.pos <= wire[rx.frame].len /\ rx.pos <= HdrWords
      /\ phase = "udp" /\ seen + 1 = UdpWords /\ seen \in Nat
      /\ phase' # "pass" =>
           RouteInv' /\ InbufInv' /\ NothingLost' /\ VerdictsAligned'
  BY <1>1, <1>3, EndOfHeaderFacts
<1>5. /\ Len(wire) \in Nat
      /\ wire[rx.frame].ether = "IPv4" /\ wire[rx.frame].proto = "UDP"
  BY <1>4, FrameFacts DEF IInv, TypeOK, ParserInv
<1>6. verdict' = Class(wire'[rx'.frame])
  BY <1>2, <1>4, <1>5 DEF Class
<1>7. ParserInv'
  <2>1. /\ rx'.frame \in 1 .. Len(wire') + 1 /\ ~(rx'.frame > Len(wire'))
        /\ rx'.pos >= 1 /\ rx'.pos <= HdrWords + 1
    BY <1>4, <1>5, HdrFacts, SMT
  <2>2. rx'.pos <= wire'[rx'.frame].len
    BY <1>4
  <2> QED BY <1>2, <1>4, <1>6, <2>1, <2>2 DEF ParserInv
<1> QED BY <1>2, <1>4, <1>7 DEF IInv

\* The verdict appended to prot_fifo is the one of the frame after those that
\* are already classified.
LEMMA WriteProtStep ==
    ASSUME IInv, WriteProt
    PROVE  IInv'
<1>1. /\ phase = "prot" /\ phase' = "pass" /\ Len(prots) < ProtDepth
      /\ prots' = Append(prots, verdict)
      /\ wire' = wire /\ rx' = rx /\ seen' = seen /\ verdict' = verdict /\ pkt' = pkt
      /\ route' = route /\ inbuf' = inbuf /\ taken' = taken
  BY DEF WriteProt
<1>2. /\ prots \in Seq(Prots) /\ verdict \in Prots /\ wire \in Traffic
      /\ rx \in Word /\ Len(wire) \in Nat /\ Len(prots) \in Nat
  BY FrameFacts, LenProperties DEF IInv, TypeOK
<1>3. /\ prots' \in Seq(Prots) /\ Len(prots') = Len(prots) + 1
      /\ \A j \in 1 .. Len(prots) : prots'[j] = prots[j]
      /\ prots'[Len(prots) + 1] = verdict
  BY <1>1, <1>2, AppendProperties
<1>4. TypeOK'
  <2>1. Len(prots') <= ProtDepth
    BY <1>1, <1>2, <1>3, DepthAssumption
  <2> QED BY <1>1, <1>3, <2>1 DEF IInv, TypeOK, Phases
<1>5. ParserInv'
  BY <1>1 DEF IInv, ParserInv
<1>6. NextOut' = NextOut /\ RoutedUpTo' = RoutedUpTo
  BY <1>1 DEF NextOut, RoutedUpTo
<1>7. /\ ClassifiedUpTo = rx.frame - 1 /\ ClassifiedUpTo' = rx.frame
      /\ rx.frame \in Nat /\ verdict = Class(wire[rx.frame])
  BY <1>1, <1>2 DEF ClassifiedUpTo, IInv, ParserInv, Word
<1>8. RoutedUpTo \in Int
  BY NextOutType DEF RoutedUpTo, IInv, Word
<1>9. VerdictsAligned'
  <2>1. RoutedUpTo + Len(prots) = rx.frame - 1
    BY <1>7 DEF IInv, VerdictsAligned
  <2>2. RoutedUpTo + Len(prots') = rx.frame
    <3>1. /\ Len(prots) \in Nat /\ Len(prots') = Len(prots) + 1
          /\ RoutedUpTo \in Int /\ rx.frame \in Nat
      BY <1>2, <1>3, <1>7, <1>8
    <3> QED BY <2>1, <3>1, SMT
  <2>3. ASSUME NEW j \in 1 .. Len(prots')
        PROVE  prots'[j] = Class(wire[RoutedUpTo + j])
    <3>1. CASE j = Len(prots) + 1
      BY <1>3, <1>7, <1>3, <2>2, <3>1
    <3>2. CASE j \in 1 .. Len(prots)
      BY <1>3, <3>2 DEF IInv, VerdictsAligned
    <3> QED BY <1>2, <1>3, <3>1, <3>2
  <2>4. route # "none" => route = Class(wire[NextOut.frame])
    BY DEF IInv, VerdictsAligned
  <2> QED BY <1>1, <1>6, <1>7, <2>2, <2>3, <2>4 DEF VerdictsAligned
<1>10. PktInv' /\ RouteInv' /\ InbufInv' /\ NothingLost'
  BY <1>1, <1>6 DEF IInv, PktInv, RouteInv, InbufInv, NothingLost, Newest
<1> QED BY <1>4, <1>5, <1>9, <1>10 DEF IInv

LEMMA PassRestStep ==
    ASSUME IInv, PassRest
    PROVE  IInv'
<1>1. /\ PassWord /\ phase = "pass" /\ seen' = seen /\ verdict' = verdict
      /\ phase' = IF IsLast(wire, rx) THEN "eth" ELSE "pass"
  BY DEF PassRest
<1>2. /\ rx \in WordsOf(wire) /\ rx' = NextWord(wire, rx) /\ rx' \in Word
      /\ wire' = wire /\ pkt' \in Seq(Word) /\ Len(pkt') <= PktDepth /\ PktInv'
  BY <1>1, PassWordFacts DEF IInv
<1>3. wire \in Traffic /\ Len(wire) \in Nat /\ seen = 0
  BY <1>1, FrameFacts DEF IInv, TypeOK, ParserInv
<1>4. rx \in Word /\ rx.frame \in 1 .. Len(wire) /\ rx.pos \in 1 .. wire[rx.frame].len
  BY <1>2, <1>3, WordsOfFacts
<1>5. TypeOK'
  BY <1>1, <1>2 DEF IInv, TypeOK, PassWord, Phases
<1>6. CASE IsLast(wire, rx)
  <2>1. rx'.frame = rx.frame + 1 /\ rx'.pos = 1 /\ phase' = "eth"
    BY <1>1, <1>2, <1>3, <1>6, NextWordFacts
  <2>2. rx'.frame <= Len(wire) => wire[rx'.frame].len > HdrWords /\ wire[rx'.frame].len \in Nat
    BY <1>3, <1>4, <2>1, FrameFacts
  <2>3. ParserInv'
    <3>1. rx'.frame \in 1 .. Len(wire') + 1
      BY <1>2, <1>3, <1>4, <2>1, SMT
    <3>2. rx'.frame <= Len(wire') => rx'.pos <= wire'[rx'.frame].len
      <4>1. HdrWords \in Nat
        BY HdrFacts
      <4> DEFINE l == wire[rx'.frame].len
      <4>2. rx'.frame <= Len(wire) => l \in Nat /\ l > HdrWords
        BY <2>2
      <4> HIDE DEF l
      <4>3. rx'.frame <= Len(wire) => 1 <= l
        BY <4>1, <4>2, SMT
      <4> QED BY <1>2, <2>1, <4>3 DEF l
    <3>3. rx'.pos >= 1 /\ seen' = 0 /\ 0 < EthWords /\ 1 = 0 + 1
      BY <1>1, <1>3, <2>1, HdrFacts
    <3> QED BY <2>1, <3>1, <3>2, <3>3 DEF ParserInv
  <2>4. ClassifiedUpTo' = ClassifiedUpTo
    <3>1. ClassifiedUpTo = rx.frame /\ ClassifiedUpTo' = rx'.frame - 1
      BY <1>1, <2>1 DEF ClassifiedUpTo
    <3>2. rx.frame \in Nat
      BY <1>4 DEF Word
    <3> QED BY <2>1, <3>1, <3>2, SMT
  <2> QED BY <1>1, <1>2, <1>5, <2>3, <2>4, PassWordKeeps DEF IInv
<1>7. CASE ~IsLast(wire, rx)
  <2>1. /\ rx'.frame = rx.frame /\ rx'.pos = rx.pos + 1 /\ phase' = "pass"
        /\ rx' \in WordsOf(wire)
    BY <1>1, <1>2, <1>3, <1>7, NextWordFacts
  <2>2. rx'.pos \in 1 .. wire[rx'.frame].len
    BY <1>3, <2>1, WordsOfFacts
  <2>3. ParserInv'
    BY <1>1, <1>2, <1>3, <1>4, <2>1, <2>2, HdrFacts DEF ParserInv
  <2>4. ClassifiedUpTo' = ClassifiedUpTo
    BY <1>1, <2>1 DEF ClassifiedUpTo
  <2> QED BY <1>1, <1>2, <1>5, <2>3, <2>4, PassWordKeeps DEF IInv
<1> QED BY <1>6, <1>7

LEMMA ParserStep ==
    ASSUME IInv, Parser
    PROVE  IInv'
BY HeaderWordStep, EtherTypeStep, IpProtocolStep, UdpPortStep, WriteProtStep,
   PassRestStep DEF Parser

-----------------------------------------------------------------------------
(* The inductive invariant: the distributer and the cores *)

\* The oldest verdict is the one of the frame in front of the distributer.
LEMMA ReadProtStep ==
    ASSUME IInv, ReadProt
    PROVE  IInv'
<1>1. /\ route = "none" /\ prots # <<>>
      /\ route' = Head(prots) /\ prots' = Tail(prots)
      /\ wire' = wire /\ pkt' = pkt /\ inbuf' = inbuf /\ taken' = taken
      /\ rx' = rx /\ phase' = phase /\ seen' = seen /\ verdict' = verdict
  BY DEF ReadProt, parserVars
<1>2. prots \in Seq(Prots) /\ Len(prots) \in Nat /\ Len(prots) # 0 /\ NextOut.frame \in Nat
  BY <1>1, NextOutType, EmptySeq DEF IInv, TypeOK, Word
<1>3. /\ Head(prots) = prots[1] /\ Head(prots) \in Prots
      /\ prots' \in Seq(Prots) /\ Len(prots') = Len(prots) - 1
      /\ \A j \in 1 .. Len(prots') : prots'[j] = prots[j + 1]
  BY <1>1, <1>2, HeadTailProperties
<1>4. TypeOK'
  <2>1. Len(prots') <= ProtDepth
    BY <1>2, <1>3, DepthAssumption DEF IInv, TypeOK
  <2> QED BY <1>1, <1>3, <2>1 DEF IInv, TypeOK
<1>5. NextOut' = NextOut /\ NextOut.pos = 1 /\ route' # "none" /\ route' \in Prots
  BY <1>1, <1>3 DEF NextOut, IInv, RouteInv, Prots, Ports
<1>6. RoutedUpTo = NextOut.frame - 1 /\ RoutedUpTo' = NextOut.frame
  BY <1>1, <1>5 DEF RoutedUpTo
<1>7. VerdictsAligned'
  <2>1. /\ RoutedUpTo + Len(prots) = ClassifiedUpTo
        /\ \A j \in 1 .. Len(prots) : prots[j] = Class(wire[RoutedUpTo + j])
    BY DEF IInv, VerdictsAligned
  <2>2. ClassifiedUpTo' = ClassifiedUpTo
    BY <1>1 DEF ClassifiedUpTo
  <2>3. RoutedUpTo' + Len(prots') = ClassifiedUpTo'
    BY <1>2, <1>3, <1>6, <2>1, <2>2
  <2>4. ASSUME NEW j \in 1 .. Len(prots')
        PROVE  prots'[j] = Class(wire[RoutedUpTo' + j])
    <3>1. j + 1 \in 1 .. Len(prots) /\ prots'[j] = prots[j + 1]
      BY <1>2, <1>3
    <3>2. RoutedUpTo + (j + 1) = RoutedUpTo' + j
      BY <1>2, <1>6
    <3> QED BY <2>1, <3>1, <3>2
  <2>5. route' = Class(wire[NextOut.frame])
    <3>1. 1 \in 1 .. Len(prots) /\ RoutedUpTo + 1 = NextOut.frame
      BY <1>2, <1>6
    <3> QED BY <1>1, <1>3, <2>1, <3>1
  <2> QED BY <1>1, <1>5, <2>3, <2>4, <2>5 DEF VerdictsAligned
<1>8. ParserInv' /\ PktInv' /\ RouteInv' /\ InbufInv'
  BY <1>1, <1>5 DEF IInv, ParserInv, PktInv, RouteInv, InbufInv
<1>9. NothingLost'
  BY <1>1, <1>5 DEF IInv, NothingLost, Newest
<1> QED BY <1>4, <1>7, <1>8, <1>9 DEF IInv

\* What routing and discarding a word have in common.
LEMMA PopKeeps ==
    ASSUME IInv, route # "none", pkt # <<>>,
           pkt' = Tail(pkt), route' = NextRoute,
           wire' = wire, prots' = prots, parserVars' = parserVars
    PROVE  /\ NextOut = Head(pkt) /\ NextOut \in WordsOf(wire)
           /\ NextOut' = NextWord(wire, NextOut)
           /\ NextOut \in Word /\ route = Class(wire[NextOut.frame])
           /\ IsLast(wire, NextOut) => /\ route' = "none"
                                       /\ NextOut'.frame = NextOut.frame + 1
                                       /\ NextOut'.pos = 1
           /\ ~IsLast(wire, NextOut) => /\ route' = route
                                        /\ NextOut'.frame = NextOut.frame
                                        /\ NextOut'.pos = NextOut.pos + 1
           /\ pkt' \in Seq(Word) /\ Len(pkt') <= PktDepth
           /\ ParserInv' /\ PktInv' /\ RouteInv' /\ VerdictsAligned'
<1>1. rx' = rx /\ phase' = phase /\ seen' = seen /\ verdict' = verdict
  BY DEF parserVars
<1>2. /\ NextOut = Head(pkt) /\ NextOut \in WordsOf(wire)
      /\ NextOut' = NextWord(wire, NextOut)
      /\ pkt' \in Seq(Word) /\ Len(pkt') <= PktDepth
      /\ PktInv'
  BY <1>1, PopFacts DEF IInv
<1>3. wire \in Traffic
  BY DEF IInv, TypeOK
<1>4. /\ IsLast(wire, NextOut) => /\ route' = "none"
                                  /\ NextOut'.frame = NextOut.frame + 1
                                  /\ NextOut'.pos = 1
      /\ ~IsLast(wire, NextOut) => /\ route' = route
                                   /\ NextOut'.frame = NextOut.frame
                                   /\ NextOut'.pos = NextOut.pos + 1
  BY <1>2, <1>3, NextWordFacts DEF NextRoute
<1>5. NextOut \in Word
  BY NextOutType DEF IInv
<1>6. ParserInv'
  BY <1>1 DEF IInv, ParserInv
<1>7. RouteInv'
  BY <1>4 DEF RouteInv
<1>8. RoutedUpTo' = RoutedUpTo /\ RoutedUpTo = NextOut.frame
  BY <1>4, <1>5 DEF RoutedUpTo, Word
<1>9. route = Class(wire[NextOut.frame])
  BY DEF IInv, VerdictsAligned
<1>10. VerdictsAligned'
  <2>1. ClassifiedUpTo' = ClassifiedUpTo
    BY <1>1 DEF ClassifiedUpTo
  <2>2. route' # "none" => route' = Class(wire'[NextOut'.frame])
    BY <1>4, <1>9
  <2> QED BY <1>8, <2>1, <2>2 DEF IInv, VerdictsAligned
<1> QED BY <1>2, <1>4, <1>5, <1>6, <1>7, <1>9, <1>10

\* The types behind Newest.
LEMMA InbufFacts ==
    ASSUME TypeOK, NEW p \in Ports
    PROVE  /\ inbuf[p] \in Seq(Word) /\ Len(inbuf[p]) \in Nat
           /\ taken[p] \in Word
           /\ Newest(p) \in Word
<1>1. inbuf[p] \in Seq(Word) /\ taken[p] \in Word
  BY DEF TypeOK
<1>2. Len(inbuf[p]) \in Nat
  BY <1>1, LenProperties
<1>3. inbuf[p] # <<>> => Len(inbuf[p]) \in 1 .. Len(inbuf[p])
  BY <1>1, <1>2, EmptySeq
<1>4. inbuf[p] # <<>> => inbuf[p][Len(inbuf[p])] \in Word
  BY <1>1, <1>3, ElementOfSeq
<1> QED BY <1>1, <1>2, <1>4 DEF Newest

\* The next word out continues the stream of the port it is routed to.
LEMMA NextOutFollows ==
    ASSUME IInv, NEW p \in Ports, route = p, NextOut \in WordsOf(wire)
    PROVE  Follows(wire, p, Newest(p), NextOut)
<1>1. Class(wire[NextOut.frame]) = p
  BY DEF IInv, VerdictsAligned, Ports
<1>2. NextOut \in Word /\ Newest(p) \in Word /\ wire \in Traffic
  BY NextOutType, InbufFacts DEF IInv, TypeOK
<1>3. NextOut.pos \in Nat /\ NextOut.pos >= 1 /\ NextOut.frame \in Nat
  BY <1>2, WordsOfFacts DEF Word
<1>4. CASE NextOut.pos > 1
  <2>1. Newest(p) = [frame |-> NextOut.frame, pos |-> NextOut.pos - 1]
    BY <1>4 DEF IInv, NothingLost
  <2> QED BY <1>1, <1>3, <2>1 DEF Follows
<1>5. CASE NextOut.pos = 1
  <2>1. /\ Newest(p) = NoWord \/ IsLast(wire, Newest(p))
        /\ Newest(p).frame < NextOut.frame
        /\ \A g \in (Newest(p).frame + 1) .. (NextOut.frame - 1) : Class(wire[g]) # p
    BY <1>5 DEF IInv, NothingLost
  <2> QED BY <1>1, <1>2, <1>3, <1>5, <2>1 DEF Follows, Word
<1> QED BY <1>3, <1>4, <1>5

\* A port of another class is not concerned by the frame being read out.
LEMMA OtherPortKeeps ==
    ASSUME IInv, NEW q \in Ports, route # q, route # "none",
           NextOut \in Word, route = Class(wire[NextOut.frame]),
           route' \in {route, "none"}, wire' = wire, Newest(q)' = Newest(q),
           \/ NextOut'.frame = NextOut.frame /\ route' = route
           \/ NextOut'.frame = NextOut.frame + 1 /\ NextOut'.pos = 1
    PROVE  IF route' = q /\ NextOut'.pos > 1
           THEN Newest(q)' = [frame |-> NextOut'.frame, pos |-> NextOut'.pos - 1]
           ELSE /\ Newest(q)' = NoWord \/ IsLast(wire', Newest(q)')
                /\ Newest(q)'.frame < NextOut'.frame
                /\ \A g \in (Newest(q)'.frame + 1) .. (NextOut'.frame - 1) :
                      Class(wire'[g]) # q
<1>1. /\ Newest(q) = NoWord \/ IsLast(wire, Newest(q))
      /\ Newest(q).frame < NextOut.frame
      /\ \A g \in (Newest(q).frame + 1) .. (NextOut.frame - 1) : Class(wire[g]) # q
  BY DEF IInv, NothingLost
<1>2. NextOut.frame \in Nat /\ Newest(q).frame \in Nat
  BY InbufFacts DEF IInv, Word
<1>3. route' # q
  BY DEF Ports
<1>4. Newest(q).frame < NextOut'.frame
  BY <1>1, <1>2
<1>5. ASSUME NEW g \in (Newest(q).frame + 1) .. (NextOut'.frame - 1)
      PROVE  Class(wire[g]) # q
  <2>1. g \in (Newest(q).frame + 1) .. (NextOut.frame - 1) \/ g = NextOut.frame
    BY <1>2
  <2> QED BY <1>1, <2>1
<1> QED BY <1>1, <1>3, <1>4, <1>5

LEMMA DistributeStep ==
    ASSUME IInv, NEW p \in Ports, Distribute(p)
    PROVE  IInv'
<1>1. /\ route = p /\ route # "none" /\ pkt # <<>> /\ Len(inbuf[p]) < PortDepth[p]
      /\ inbuf' = [inbuf EXCEPT ![p] = Append(@, Head(pkt))]
      /\ pkt' = Tail(pkt) /\ route' = NextRoute
      /\ wire' = wire /\ prots' = prots /\ taken' = taken /\ parserVars' = parserVars
  BY DEF Distribute, Ports
<1>2. /\ NextOut = Head(pkt) /\ NextOut \in WordsOf(wire) /\ NextOut \in Word
      /\ route = Class(wire[NextOut.frame])
      /\ IsLast(wire, NextOut) => /\ route' = "none"
                                  /\ NextOut'.frame = NextOut.frame + 1
                                  /\ NextOut'.pos = 1
      /\ ~IsLast(wire, NextOut) => /\ route' = route
                                   /\ NextOut'.frame = NextOut.frame
                                   /\ NextOut'.pos = NextOut.pos + 1
      /\ pkt' \in Seq(Word) /\ Len(pkt') <= PktDepth
      /\ ParserInv' /\ PktInv' /\ RouteInv' /\ VerdictsAligned'
  BY <1>1, PopKeeps
<1>3. /\ inbuf[p] \in Seq(Word) /\ Len(inbuf[p]) \in Nat
      /\ inbuf \in [Ports -> Seq(Word)]
  BY InbufFacts DEF IInv, TypeOK
<1>4. /\ inbuf'[p] = Append(inbuf[p], NextOut)
      /\ \A q \in Ports : q # p => inbuf'[q] = inbuf[q]
  BY <1>1, <1>2, <1>3
<1>5. /\ inbuf'[p] \in Seq(Word) /\ inbuf'[p] # <<>>
      /\ Len(inbuf'[p]) = Len(inbuf[p]) + 1
      /\ \A j \in 1 .. Len(inbuf[p]) : inbuf'[p][j] = inbuf[p][j]
      /\ inbuf'[p][Len(inbuf[p]) + 1] = NextOut
  BY <1>2, <1>3, <1>4, AppendProperties
<1>6. TypeOK'
  <2>1. inbuf' \in [Ports -> Seq(Word)]
    BY <1>1, <1>2, <1>3, <1>4, <1>5
  <2>2. ASSUME NEW q \in Ports
        PROVE  Len(inbuf'[q]) <= PortDepth[q]
    <3>1. CASE q = p
      BY <1>1, <1>3, <1>5, <3>1, DepthAssumption
    <3>2. CASE q # p
      BY <1>4, <3>2 DEF IInv, TypeOK
    <3> QED BY <3>1, <3>2
  <2>3. route' \in Prots \cup {"none"}
    BY <1>1, <1>2 DEF Prots
  <2> QED BY <1>1, <1>2, <2>1, <2>2, <2>3 DEF IInv, TypeOK, parserVars
<1>7. /\ Newest(p)' = NextOut
      /\ \A q \in Ports : q # p => Newest(q)' = Newest(q)
  BY <1>1, <1>4, <1>5 DEF Newest
<1>8. ASSUME NEW q \in Ports, NEW j \in 1 .. Len(inbuf'[q])
      PROVE  Follows(wire, q, IF j = 1 THEN taken[q] ELSE inbuf'[q][j - 1], inbuf'[q][j])
  <2>1. CASE q # p
    BY <1>4, <2>1 DEF IInv, InbufInv
  <2>2. CASE q = p /\ j \in 1 .. Len(inbuf[p])
    <3>1. inbuf'[p][j] = inbuf[p][j]
      BY <1>5, <2>2
    <3>2. j # 1 => inbuf'[p][j - 1] = inbuf[p][j - 1]
      BY <1>3, <1>5, <2>2
    <3> QED BY <2>2, <3>1, <3>2 DEF IInv, InbufInv
  <2>3. CASE q = p /\ j = Len(inbuf[p]) + 1
    <3>1. Follows(wire, p, Newest(p), NextOut)
      BY <1>1, <1>2, NextOutFollows
    <3>2. Newest(p) = IF j = 1 THEN taken[p] ELSE inbuf'[p][j - 1]
      <4>1. CASE inbuf[p] = <<>>
        BY <2>3, <4>1, EmptySeq DEF Newest
      <4>2. CASE inbuf[p] # <<>>
        <5>1. Len(inbuf[p]) \in 1 .. Len(inbuf[p]) /\ j # 1 /\ j - 1 = Len(inbuf[p])
          BY <1>3, <2>3, <4>2, EmptySeq
        <5> QED BY <1>5, <4>2, <5>1 DEF Newest
      <4> QED BY <4>1, <4>2
    <3> QED BY <1>5, <2>3, <3>1, <3>2
  <2> QED BY <1>3, <1>5, <2>1, <2>2, <2>3
<1>9. InbufInv'
  BY <1>1, <1>8 DEF InbufInv
<1>10. ASSUME NEW q \in Ports
       PROVE  IF route' = q /\ NextOut'.pos > 1
              THEN Newest(q)' = [frame |-> NextOut'.frame, pos |-> NextOut'.pos - 1]
              ELSE /\ Newest(q)' = NoWord \/ IsLast(wire', Newest(q)')
                   /\ Newest(q)'.frame < NextOut'.frame
                   /\ \A g \in (Newest(q)'.frame + 1) .. (NextOut'.frame - 1) :
                         Class(wire'[g]) # q
  <2>1. CASE q # p
    BY <1>1, <1>2, <1>7, <2>1, OtherPortKeeps
  <2>2. CASE q = p /\ IsLast(wire, NextOut)
    <3>1. route' # p /\ NextOut.frame \in Nat
      BY <1>2, <2>2 DEF Word, Ports
    <3>2. /\ Newest(q)' = NextOut
          /\ NextOut'.frame = NextOut.frame + 1 /\ NextOut'.pos = 1
      BY <1>2, <1>7, <2>2
    <3>3. (NextOut.frame + 1) .. (NextOut.frame + 1 - 1) = {}
      BY <3>1
    <3> QED BY <1>1, <2>2, <3>1, <3>2, <3>3
  <2>3. CASE q = p /\ ~IsLast(wire, NextOut)
    <3>1. NextOut.pos \in Nat /\ NextOut.pos >= 1 /\ NextOut.frame \in Nat
      BY <1>2, WordsOfFacts DEF Word, IInv, TypeOK
    <3>2. NextOut = [frame |-> NextOut.frame, pos |-> NextOut.pos]
      BY <1>2 DEF Word
    <3>3. /\ Newest(q)' = NextOut /\ route' = q
          /\ NextOut'.frame = NextOut.frame /\ NextOut'.pos = NextOut.pos + 1
      BY <1>1, <1>2, <1>7, <2>3
    <3>4. NextOut'.pos > 1 /\ NextOut'.pos - 1 = NextOut.pos
      BY <3>1, <3>3
    <3> QED BY <3>2, <3>3, <3>4, Zenon
  <2> QED BY <2>1, <2>2, <2>3
<1>11. NothingLost'
  BY <1>10 DEF NothingLost
<1> QED BY <1>2, <1>6, <1>9, <1>11 DEF IInv

LEMMA DiscardStep ==
    ASSUME IInv, Discard
    PROVE  IInv'
<1>1. /\ route = "OTHER" /\ pkt # <<>> /\ pkt' = Tail(pkt) /\ route' = NextRoute
      /\ wire' = wire /\ prots' = prots /\ inbuf' = inbuf /\ taken' = taken
      /\ parserVars' = parserVars
  BY DEF Discard
<1>2. /\ NextOut \in Word /\ route = Class(wire[NextOut.frame])
      /\ IsLast(wire, NextOut) => /\ route' = "none"
                                  /\ NextOut'.frame = NextOut.frame + 1
                                  /\ NextOut'.pos = 1
      /\ ~IsLast(wire, NextOut) => /\ route' = route
                                   /\ NextOut'.frame = NextOut.frame
      /\ pkt' \in Seq(Word) /\ Len(pkt') <= PktDepth
      /\ ParserInv' /\ PktInv' /\ RouteInv' /\ VerdictsAligned'
  BY <1>1, PopKeeps
<1>3. TypeOK'
  BY <1>1, <1>2 DEF IInv, TypeOK, parserVars, Prots
<1>4. InbufInv'
  BY <1>1 DEF IInv, InbufInv
<1>5. ASSUME NEW q \in Ports
      PROVE  IF route' = q /\ NextOut'.pos > 1
             THEN Newest(q)' = [frame |-> NextOut'.frame, pos |-> NextOut'.pos - 1]
             ELSE /\ Newest(q)' = NoWord \/ IsLast(wire', Newest(q)')
                  /\ Newest(q)'.frame < NextOut'.frame
                  /\ \A g \in (Newest(q)'.frame + 1) .. (NextOut'.frame - 1) :
                        Class(wire'[g]) # q
  <2>1. Newest(q)' = Newest(q)
    BY <1>1 DEF Newest
  <2>2. route # q
    BY <1>1 DEF Ports
  <2> QED BY <1>1, <1>2, <2>1, <2>2, OtherPortKeeps
<1>6. NothingLost'
  BY <1>5 DEF NothingLost
<1> QED BY <1>2, <1>3, <1>4, <1>6 DEF IInv

LEMMA TakeStep ==
    ASSUME IInv, NEW p \in Ports, Take(p)
    PROVE  IInv' /\ Follows(wire, p, taken[p], taken'[p])
<1>1. /\ inbuf[p] # <<>>
      /\ taken' = [taken EXCEPT ![p] = Head(inbuf[p])]
      /\ inbuf' = [inbuf EXCEPT ![p] = Tail(@)]
      /\ wire' = wire /\ pkt' = pkt /\ prots' = prots /\ route' = route
      /\ rx' = rx /\ phase' = phase /\ seen' = seen /\ verdict' = verdict
  BY DEF Take, parserVars
<1>2. /\ inbuf[p] \in Seq(Word) /\ Len(inbuf[p]) \in Nat /\ Len(inbuf[p]) # 0
      /\ inbuf \in [Ports -> Seq(Word)] /\ taken \in [Ports -> Word]
  BY <1>1, InbufFacts, EmptySeq DEF IInv, TypeOK
<1>3. /\ taken'[p] = inbuf[p][1] /\ taken'[p] \in Word
      /\ inbuf'[p] \in Seq(Word) /\ Len(inbuf'[p]) = Len(inbuf[p]) - 1
      /\ \A j \in 1 .. Len(inbuf'[p]) : inbuf'[p][j] = inbuf[p][j + 1]
  <2>1. inbuf'[p] = Tail(inbuf[p]) /\ taken'[p] = Head(inbuf[p])
    BY <1>1, <1>2
  <2>2. Head(inbuf[p]) = inbuf[p][1]
    BY <1>1, <1>2
  <2> QED BY <1>1, <1>2, <2>1, <2>2, HeadTailProperties
<1>4. \A q \in Ports : q # p => inbuf'[q] = inbuf[q] /\ taken'[q] = taken[q]
  BY <1>1, <1>2
<1>5. TypeOK'
  <2>1. inbuf' \in [Ports -> Seq(Word)] /\ taken' \in [Ports -> Word]
    BY <1>1, <1>2, <1>3, <1>4
  <2>2. ASSUME NEW q \in Ports
        PROVE  Len(inbuf'[q]) <= PortDepth[q]
    <3>1. Len(inbuf[q]) <= PortDepth[q] /\ PortDepth[q] \in Nat
      BY DepthAssumption DEF IInv, TypeOK
    <3> QED BY <1>2, <1>3, <1>4, <3>1
  <2> QED BY <1>1, <2>1, <2>2 DEF IInv, TypeOK
<1>6. Follows(wire, p, taken[p], inbuf[p][1])
  BY <1>2 DEF IInv, InbufInv
<1>7. ASSUME NEW q \in Ports, NEW j \in 1 .. Len(inbuf'[q])
      PROVE  Follows(wire, q, IF j = 1 THEN taken'[q] ELSE inbuf'[q][j - 1], inbuf'[q][j])
  <2>1. CASE q # p
    BY <1>4, <2>1 DEF IInv, InbufInv
  <2>2. CASE q = p
    <3>1. /\ j + 1 \in 1 .. Len(inbuf[p]) /\ j + 1 # 1 /\ (j + 1) - 1 = j
          /\ inbuf'[p][j] = inbuf[p][j + 1]
      BY <1>2, <1>3, <2>2
    <3>2. Follows(wire, p, inbuf[p][j], inbuf[p][j + 1])
      BY <3>1 DEF IInv, InbufInv
    <3>3. inbuf[p][j] = IF j = 1 THEN taken'[p] ELSE inbuf'[p][j - 1]
      <4>1. CASE j = 1
        BY <1>3, <4>1
      <4>2. CASE j # 1
        <5>1. j - 1 \in 1 .. Len(inbuf'[p]) /\ (j - 1) + 1 = j
          BY <1>2, <1>3, <2>2, <4>2
        <5> QED BY <1>3, <4>2, <5>1
      <4> QED BY <4>1, <4>2
    <3> QED BY <2>2, <3>1, <3>2, <3>3
  <2> QED BY <2>1, <2>2
<1>8. InbufInv'
  BY <1>1, <1>7 DEF InbufInv
<1>9. ASSUME NEW q \in Ports
      PROVE  Newest(q)' = Newest(q)
  <2>1. CASE q # p
    BY <1>4, <2>1 DEF Newest
  <2>2. CASE q = p /\ Len(inbuf[p]) = 1
    <3>1. inbuf'[p] = <<>>
      BY <1>2, <1>3, <2>2, EmptySeq
    <3> QED BY <1>1, <1>3, <2>2, <3>1 DEF Newest
  <2>3. CASE q = p /\ Len(inbuf[p]) # 1
    <3>1. /\ Len(inbuf'[p]) # 0 /\ Len(inbuf'[p]) \in 1 .. Len(inbuf'[p])
          /\ Len(inbuf'[p]) + 1 = Len(inbuf[p])
      <4>1. \A m, n : n \in Nat /\ n # 0 /\ n # 1 /\ m = n - 1 =>
                         m # 0 /\ m \in 1 .. m /\ m + 1 = n
        OBVIOUS
      <4>2. /\ Len(inbuf[p]) \in Nat /\ Len(inbuf[p]) # 0 /\ Len(inbuf[p]) # 1
            /\ Len(inbuf'[p]) = Len(inbuf[p]) - 1
        BY <1>2, <1>3, <2>3
      <4> QED BY <4>1, <4>2, Zenon
    <3>2. inbuf'[p] # <<>>
      <4>1. Len(<<>>) = 0
        BY EmptySeq
      <4> QED BY <3>1, <4>1, Zenon
    <3> QED BY <1>1, <1>3, <2>3, <3>1, <3>2 DEF Newest
  <2> QED BY <2>1, <2>2, <2>3
<1>10. NextOut' = NextOut
  BY <1>1 DEF NextOut
<1>11. NothingLost'
  BY <1>1, <1>9, <1>10 DEF IInv, NothingLost
<1>12. ParserInv' /\ PktInv' /\ RouteInv' /\ VerdictsAligned'
  BY <1>1, <1>10 DEF IInv, ParserInv, PktInv, RouteInv, VerdictsAligned, RoutedUpTo,
                     ClassifiedUpTo
<1> QED BY <1>3, <1>5, <1>6, <1>8, <1>11, <1>12 DEF IInv

LEMMA InitIInv == Init => IInv
<1> SUFFICES ASSUME Init PROVE IInv
  OBVIOUS
<1>1. /\ wire \in Traffic /\ rx = FirstWord /\ phase = "eth" /\ seen = 0
      /\ verdict = "OTHER" /\ pkt = <<>> /\ prots = <<>> /\ route = "none"
      /\ inbuf = [p \in Ports |-> <<>>] /\ taken = [p \in Ports |-> NoWord]
  BY DEF Init
<1>2. /\ Len(wire) \in Nat
      /\ \A f \in 1 .. Len(wire) : wire[f].len \in Nat /\ wire[f].len > HdrWords
  BY <1>1, FrameFacts
<1>3. /\ Len(<<>>) = 0 /\ <<>> \in Seq(Word) /\ <<>> \in Seq(Prots)
  BY EmptySeq
<1>4. NextOut = FirstWord /\ RoutedUpTo = 0 /\ ClassifiedUpTo = 0
  BY <1>1 DEF NextOut, RoutedUpTo, ClassifiedUpTo, FirstWord
<1>5. TypeOK
  BY <1>1, <1>3, HdrFacts, DepthAssumption
  DEF TypeOK, Word, FirstWord, NoWord, Phases, Prots
<1>6. ParserInv
  BY <1>1, <1>2, HdrFacts DEF ParserInv, FirstWord
<1>7. PktInv /\ InbufInv
  BY <1>1, <1>3 DEF PktInv, InbufInv
<1>8. RouteInv /\ VerdictsAligned
  BY <1>1, <1>3, <1>4 DEF RouteInv, VerdictsAligned, FirstWord
<1>9. NothingLost
  BY <1>1, <1>4 DEF NothingLost, Newest, FirstWord, NoWord, Ports
<1> QED BY <1>5, <1>6, <1>7, <1>8, <1>9 DEF IInv

LEMMA NextIInv == IInv /\ [Next]_vars => IInv'
<1> SUFFICES ASSUME IInv, [Next]_vars
             PROVE  IInv'
  OBVIOUS
<1>1. CASE Parser
  BY <1>1, ParserStep
<1>2. CASE Distributer
  BY <1>2, ReadProtStep, DistributeStep, DiscardStep DEF Distributer
<1>3. ASSUME NEW p \in Ports, Take(p)
      PROVE  IInv'
  BY <1>3, TakeStep
<1>4. CASE UNCHANGED vars
  BY <1>4 DEF vars, IInv, TypeOK, ParserInv, PktInv, RouteInv, VerdictsAligned, InbufInv,
              NothingLost, NextOut, RoutedUpTo, ClassifiedUpTo, Newest
<1> QED BY <1>1, <1>2, <1>3, <1>4 DEF Next

THEOREM Invariance == Safety => []IInv
BY InitIInv, NextIInv, PTL DEF Safety

-----------------------------------------------------------------------------
(* What follows from it *)

\* Types, and no FIFO beyond its depth: an AXI-Stream FIFO never overruns
\* (the blocking reads and writes of parser.cpp and distributer.cpp).
THEOREM TypeCorrectness == Safety => []TypeOK
<1>1. IInv => TypeOK
  BY DEF IInv
<1> QED BY <1>1, Invariance, PTL

\* prot_fifo and packet_buffer stay in step (parser.cpp:42-79 against
\* distributer.cpp:33-49).
THEOREM VerdictsStayAligned == Safety => []VerdictsAligned
<1>1. IInv => VerdictsAligned
  BY DEF IInv
<1> QED BY <1>1, Invariance, PTL

\* What leaves packet_buffer reaches its port, whole and in order
\* (distributer.cpp:35-48).
THEOREM NothingIsLost == Safety => []NothingLost
<1>1. IInv => NothingLost
  BY DEF IInv
<1> QED BY <1>1, Invariance, PTL

\* FrameRouter speaks of the same frames and words.
LEMMA SameClass == \A f : Router!Class(f) = Class(f)
BY DEF Class, Router!Class

LEMMA SameWords ==
    /\ Router!Ports = Ports
    /\ Router!NoWord = NoWord
    /\ \A t : Router!WordsOf(t) = WordsOf(t)
    /\ \A t, w : Router!IsLast(t, w) = IsLast(t, w)
BY DEF Ports, Router!Ports, NoWord, Router!NoWord, WordsOf, Router!WordsOf, IsLast,
       Router!IsLast

LEMMA SameFollows ==
    \A t, p, w, v : Router!Follows(t, p, w, v) <=> Follows(t, p, w, v)
<1> SUFFICES ASSUME NEW t, NEW p, NEW w, NEW v
             PROVE  Router!Follows(t, p, w, v) <=> Follows(t, p, w, v)
  OBVIOUS
<1> DEFINE Between == (w.frame + 1) .. (v.frame - 1)
<1>1. (\A g \in Between : Router!Class(t[g]) # p) <=> (\A g \in Between : Class(t[g]) # p)
  BY SameClass
<1>2. Router!Class(t[v.frame]) = Class(t[v.frame])
  BY SameClass
<1> QED BY <1>1, <1>2 DEF Follows, Router!Follows, WordsOf, Router!WordsOf, NoWord,
           Router!NoWord, IsLast, Router!IsLast

\* A full packet_buffer that the distributer is not yet allowed to touch would
\* hold the beginning of the frame in front of the parser and nothing else,
\* hence less than the headers; so the parser is never blocked before its
\* verdict, and everything else moves on.
LEMMA IInvNeverStuck == IInv => NeverStuck
<1> SUFFICES ASSUME IInv,
                    ~CanPass, ~CanWriteProt, ~CanReadProt, ~CanDistribute, ~CanTake
             PROVE  \A p \in Ports : Router!AllDelivered(p)
  BY DEF NeverStuck
<1>1. \A p \in Ports : inbuf[p] = <<>>
  BY DEF CanTake
<1>2. /\ wire \in Traffic /\ Len(wire) \in Nat
      /\ rx \in Word /\ rx.frame \in Nat /\ rx.pos \in Nat /\ seen \in Nat
      /\ pkt \in Seq(Word) /\ Len(pkt) \in Nat /\ Len(pkt) <= PktDepth
      /\ prots \in Seq(Prots) /\ Len(prots) \in Nat /\ Len(prots) <= ProtDepth
      /\ phase \in Phases /\ NextOut \in Word /\ NextOut.frame \in Nat
      /\ PktDepth \in Nat /\ ProtDepth \in Nat /\ ProtDepth # 0
  BY FrameFacts, LenProperties, NextOutType, DepthAssumption DEF IInv, TypeOK, Word
<1>3. /\ RoutedUpTo + Len(prots) = ClassifiedUpTo
      /\ RoutedUpTo = IF route = "none" THEN NextOut.frame - 1 ELSE NextOut.frame
      /\ ClassifiedUpTo = IF phase = "pass" THEN rx.frame ELSE rx.frame - 1
  BY DEF IInv, VerdictsAligned, RoutedUpTo, ClassifiedUpTo
<1>4. route # "none" => pkt = <<>>
  <2>1. ASSUME route \in Ports
        PROVE  Len(inbuf[route]) < PortDepth[route]
    BY <1>1, <2>1, EmptySeq, DepthAssumption
  <2> QED BY <2>1 DEF CanDistribute
<1>5. pkt = <<>> => NextOut = rx
  BY DEF NextOut
\* No verdict is left, and the distributer waits for the next one.
<1>6. route = "none"
  <2>1. ASSUME route # "none"
        PROVE  phase = "pass"
    BY <1>2, <1>3, <1>4, <1>5, <2>1
  <2>2. ASSUME route # "none"
        PROVE  FALSE
    <3>1. phase = "pass" /\ pkt = <<>>
      BY <1>4, <2>1, <2>2
    <3>2. rx.frame <= Len(wire)
      BY <1>2, <3>1 DEF IInv, ParserInv
    <3>3. Len(pkt) = 0 /\ 0 < PktDepth
      BY <3>1, EmptySeq, DepthAssumption, HdrFacts
    <3> QED BY <3>1, <3>2, <3>3 DEF CanPass, PktHasRoom
  <2> QED BY <2>2
<1>7. prots = <<>> /\ Len(prots) = 0 /\ NextOut.pos = 1
  BY <1>6, EmptySeq DEF CanReadProt, IInv, RouteInv
<1>8. phase # "prot"
  BY <1>2, <1>7 DEF CanWriteProt
<1>9. NextOut.frame - 1 = ClassifiedUpTo
  BY <1>2, <1>3, <1>6, <1>7
\* The parser has nothing left to read.
<1>10. ~(rx.frame <= Len(wire))
  <2>1. SUFFICES ASSUME rx.frame <= Len(wire)
                 PROVE  FALSE
    OBVIOUS
  <2>2. Len(pkt) = PktDepth /\ Len(pkt) # 0
    BY <1>2, <1>8, <2>1, HdrFacts, DepthAssumption DEF CanPass, PktHasRoom
  <2>3. pkt # <<>> /\ 1 \in 1 .. Len(pkt)
    <3>1. Len(<<>>) = 0
      BY EmptySeq
    <3>2. \A n : n \in Nat /\ n # 0 => 1 \in 1 .. n
      OBVIOUS
    <3> QED BY <1>2, <2>2, <3>1, <3>2, Zenon
  <2>4. NextOut = pkt[1]
    BY <1>2, <2>3 DEF NextOut
  <2>5. /\ NextOut.frame <= rx.frame
        /\ NextOut.frame = rx.frame => NextOut.pos + (Len(pkt) - 1) + 1 = rx.pos
    BY <2>3, <2>4 DEF IInv, PktInv
  <2>6. phase # "pass" /\ NextOut.frame = rx.frame
    BY <1>2, <1>3, <1>9, <2>5
  <2>7. Len(pkt) = rx.pos - 1
    BY <1>2, <1>7, <2>5, <2>6
  <2>8. rx.pos <= HdrWords
    BY <1>2, <1>8, <2>6, HdrFacts DEF IInv, ParserInv, Phases
  <2> QED BY <1>2, <2>2, <2>7, <2>8, HdrFacts, DepthAssumption
<1>11. /\ rx.frame = Len(wire) + 1 /\ phase = "eth"
  BY <1>2, <1>10 DEF IInv, ParserInv
<1>12. NextOut.frame = Len(wire) + 1
  BY <1>2, <1>3, <1>9, <1>11
<1>13. ASSUME NEW p \in Ports
       PROVE  Router!AllDelivered(p)
  <2>1. Newest(p) = taken[p]
    BY <1>1 DEF Newest
  <2>2. taken[p] \in Word /\ taken[p].frame \in Nat
    BY InbufFacts DEF IInv, Word
  <2>3. route # p
    BY <1>6 DEF Ports
  <2>4. /\ taken[p] = NoWord \/ IsLast(wire, taken[p])
        /\ taken[p].frame < Len(wire) + 1
        /\ \A g \in (taken[p].frame + 1) .. (Len(wire) + 1 - 1) : Class(wire[g]) # p
    BY <1>12, <2>1, <2>3 DEF IInv, NothingLost
  <2>5. ASSUME NEW f \in 1 .. Len(wire), Class(wire[f]) = p, ~(f < taken[p].frame)
        PROVE  taken[p] = [frame |-> f, pos |-> wire[f].len]
    <3>1. f = taken[p].frame
      BY <1>2, <2>2, <2>4, <2>5
    <3>2. taken[p] # NoWord
      BY <3>1 DEF NoWord
    <3>3. taken[p].pos = wire[f].len
      BY <2>4, <3>1, <3>2 DEF IsLast
    <3> QED BY <2>2, <3>1, <3>3 DEF Word
  <2> QED BY <2>5, SameClass DEF Router!AllDelivered
<1> QED BY <1>13

\* Parser and distributer cannot block each other for good, whatever the
\* traffic, as long as packet_buffer holds the three headers (parser.cpp:26-72
\* writes the verdict after them, distributer.cpp:33 waits for it).
THEOREM DeadlockFreedom == Safety => []NeverStuck
BY Invariance, IInvNeverStuck, PTL

\* Every core is given exactly the words of its frames, in order.
THEOREM Refinement == Safety => ImplementsRouter
<1>1. Init => Router!Init
  BY SameWords DEF Init, Router!Init
<1>2. IInv /\ [Next]_vars => [Router!Next]_Router!routerVars
  <2> SUFFICES ASSUME IInv, [Next]_vars
               PROVE  [Router!Next]_Router!routerVars
    OBVIOUS
  <2>1. CASE Parser
    BY <2>1 DEF Parser, HeaderWord, EtherType, IpProtocol, UdpPort, EndOfHeader, WriteProt,
                PassRest, PassWord, Router!routerVars
  <2>2. CASE Distributer
    BY <2>2 DEF Distributer, ReadProt, Distribute, Discard, Router!routerVars
  <2>3. ASSUME NEW p \in Ports, Take(p)
        PROVE  Router!Next
    <3>1. Follows(wire, p, taken[p], taken'[p])
      BY <2>3, TakeStep
    <3>2. taken'[p] \in WordsOf(wire)
      BY <3>1 DEF Follows
    <3>3. taken' = [taken EXCEPT ![p] = taken'[p]] /\ wire' = wire
      BY <2>3 DEF Take, IInv, TypeOK
    <3> QED BY <3>1, <3>2, <3>3, SameWords, SameFollows DEF Router!Next, Router!Deliver
  <2>4. CASE UNCHANGED vars
    BY <2>4 DEF vars, Router!routerVars
  <2> QED BY <2>1, <2>2, <2>3, <2>4 DEF Next
<1> QED BY <1>1, <1>2, Invariance, PTL DEF Safety, ImplementsRouter, Router!Safety

-----------------------------------------------------------------------------
(* The path comes to rest *)

\* Tuples of nine: the first difference decides.
LEMMA BelowNine ==
    ASSUME NEW a1, NEW a2, NEW a3, NEW a4, NEW a5, NEW a6, NEW a7, NEW a8, NEW a9,
           NEW b1, NEW b2, NEW b3, NEW b4, NEW b5, NEW b6, NEW b7, NEW b8, NEW b9,
           NEW m \in 1 .. 9,
           LET a == <<a1, a2, a3, a4, a5, a6, a7, a8, a9>>
               b == <<b1, b2, b3, b4, b5, b6, b7, b8, b9>>
           IN  a[m] < b[m] /\ \A j \in 1 .. m - 1 : a[j] = b[j]
    PROVE  Below(<<a1, a2, a3, a4, a5, a6, a7, a8, a9>>, <<b1, b2, b3, b4, b5, b6, b7, b8, b9>>)
<1> DEFINE a == <<a1, a2, a3, a4, a5, a6, a7, a8, a9>>
           b == <<b1, b2, b3, b4, b5, b6, b7, b8, b9>>
<1>1. Len(a) = 9 /\ a[m] < b[m] /\ \A j \in 1 .. m - 1 : a[j] = b[j]
  OBVIOUS
<1> HIDE DEF a, b
<1>2. \E i \in 1 .. Len(a) : a[i] < b[i] /\ \A j \in 1 .. i - 1 : a[j] = b[j]
  BY <1>1
<1> QED BY <1>2 DEF Below, a, b

VerdictAhead == IF phase = "prot" THEN 1 ELSE 0

LEMMA AheadNat ==
    ASSUME IInv
    PROVE  /\ Len(wire) + 1 - rx.frame \in Nat
           /\ WordsAhead \in Nat /\ VerdictAhead \in Nat
           /\ Len(prots) \in Nat /\ Len(pkt) \in Nat
           /\ \A p \in Ports : Len(inbuf[p]) \in Nat
<1>1. /\ wire \in Traffic /\ Len(wire) \in Nat /\ rx \in Word
      /\ rx.frame \in Nat /\ rx.pos \in Nat
      /\ Len(prots) \in Nat /\ Len(pkt) \in Nat
      /\ \A p \in Ports : Len(inbuf[p]) \in Nat
  BY FrameFacts, LenProperties DEF IInv, TypeOK, Word
<1>2. rx.frame <= Len(wire) + 1
  BY DEF IInv, ParserInv
<1>3. Len(wire) + 1 - rx.frame \in Nat
  BY <1>1, <1>2
<1>4. WordsAhead \in Nat
  <2>1. CASE rx.frame <= Len(wire)
    <3>1. rx \in WordsOf(wire)
      BY <2>1, RxInTraffic DEF IInv
    <3>2. rx.frame \in 1 .. Len(wire) /\ rx.pos \in 1 .. wire[rx.frame].len
      BY <1>1, <3>1, WordsOfFacts
    <3>3. wire[rx.frame].len \in Nat
      BY <1>1, <3>2, FrameFacts
    <3> QED BY <2>1, <3>2, <3>3 DEF WordsAhead
  <2>2. CASE ~(rx.frame <= Len(wire))
    BY <2>2 DEF WordsAhead
  <2> QED BY <2>1, <2>2
<1>5. VerdictAhead \in Nat
  BY DEF VerdictAhead
<1> QED BY <1>1, <1>3, <1>4, <1>5

\* A word that is passed on leaves fewer frames, or fewer words of this one.
LEMMA PassDescends ==
    ASSUME IInv, PassWord
    PROVE  \/ Len(wire') + 1 - rx'.frame < Len(wire) + 1 - rx.frame
           \/ /\ Len(wire') + 1 - rx'.frame = Len(wire) + 1 - rx.frame
              /\ WordsAhead' < WordsAhead
<1>1. /\ rx \in WordsOf(wire) /\ rx' = NextWord(wire, rx) /\ wire' = wire
      /\ wire \in Traffic /\ Len(wire) \in Nat
  BY PassWordFacts, FrameFacts DEF IInv, TypeOK
<1>2. /\ rx \in Word /\ rx.frame \in 1 .. Len(wire) /\ rx.pos \in 1 .. wire[rx.frame].len
      /\ wire[rx.frame].len \in Nat
  BY <1>1, WordsOfFacts, FrameFacts
<1>3. CASE IsLast(wire, rx)
  <2>1. rx'.frame = rx.frame + 1
    BY <1>1, <1>3, NextWordFacts
  <2> QED BY <1>1, <1>2, <2>1
<1>4. CASE ~IsLast(wire, rx)
  <2>1. rx'.frame = rx.frame /\ rx'.pos = rx.pos + 1
    BY <1>1, <1>4, NextWordFacts
  <2>2. WordsAhead = wire[rx.frame].len - rx.pos
    BY <1>2 DEF WordsAhead
  <2>3. WordsAhead' = wire[rx.frame].len - (rx.pos + 1)
    BY <1>1, <1>2, <2>1 DEF WordsAhead
  <2> QED BY <1>1, <1>2, <2>1, <2>2, <2>3
<1> QED BY <1>3, <1>4

\* A step leaves less to do.
LEMMA Descends ==
    ASSUME IInv, Next
    PROVE  Below(Ahead', Ahead)
<1> DEFINE a == <<Len(wire') + 1 - rx'.frame, WordsAhead', VerdictAhead', Len(prots'),
                  Len(pkt'), Len(inbuf'["ARP"]), Len(inbuf'["ICMP"]),
                  Len(inbuf'["UDP_STRM"]), Len(inbuf'["UDP_REG"])>>
           b == <<Len(wire) + 1 - rx.frame, WordsAhead, VerdictAhead, Len(prots),
                  Len(pkt), Len(inbuf["ARP"]), Len(inbuf["ICMP"]),
                  Len(inbuf["UDP_STRM"]), Len(inbuf["UDP_REG"])>>
<1>1. Ahead' = a /\ Ahead = b
  BY DEF Ahead, VerdictAhead
<1>2. SUFFICES \E m \in 1 .. 9 : a[m] < b[m] /\ \A j \in 1 .. m - 1 : a[j] = b[j]
  <2>1. PICK m \in 1 .. 9 : a[m] < b[m] /\ \A j \in 1 .. m - 1 : a[j] = b[j]
    BY <1>2
  <2>2. Below(a, b)
    BY <2>1, BelowNine
  <2> QED BY <1>1, <2>2
<1>3. /\ a[1] = Len(wire') + 1 - rx'.frame /\ a[2] = WordsAhead' /\ a[3] = VerdictAhead'
      /\ a[4] = Len(prots') /\ a[5] = Len(pkt') /\ a[6] = Len(inbuf'["ARP"])
      /\ a[7] = Len(inbuf'["ICMP"]) /\ a[8] = Len(inbuf'["UDP_STRM"])
      /\ a[9] = Len(inbuf'["UDP_REG"])
  OBVIOUS
<1>4. /\ b[1] = Len(wire) + 1 - rx.frame /\ b[2] = WordsAhead /\ b[3] = VerdictAhead
      /\ b[4] = Len(prots) /\ b[5] = Len(pkt) /\ b[6] = Len(inbuf["ARP"])
      /\ b[7] = Len(inbuf["ICMP"]) /\ b[8] = Len(inbuf["UDP_STRM"])
      /\ b[9] = Len(inbuf["UDP_REG"])
  OBVIOUS
<1> HIDE DEF a, b
<1>5. \A m \in 1 .. 9 : \A j \in 1 .. m - 1 :
         /\ m = 1 => FALSE
         /\ m = 2 => j = 1
         /\ m = 3 => j \in {1, 2}
         /\ m = 4 => j \in {1, 2, 3}
         /\ m = 5 => j \in {1, 2, 3, 4}
         /\ m = 6 => j \in {1, 2, 3, 4, 5}
         /\ m = 7 => j \in {1, 2, 3, 4, 5, 6}
         /\ m = 8 => j \in {1, 2, 3, 4, 5, 6, 7}
         /\ m = 9 => j \in {1, 2, 3, 4, 5, 6, 7, 8}
  BY SMT
<1>6. {1, 2, 3, 4, 5, 6, 7, 8, 9} \subseteq 1 .. 9
  BY SMT
<1>7. /\ Len(prots) \in Nat /\ Len(pkt) \in Nat /\ \A p \in Ports : Len(inbuf[p]) \in Nat
      /\ prots \in Seq(Prots) /\ pkt \in Seq(Word) /\ inbuf \in [Ports -> Seq(Word)]
  BY AheadNat DEF IInv, TypeOK
<1>8. CASE Parser
  <2>1. CASE WriteProt
    <3>1. a[3] < b[3] /\ a[1] = b[1] /\ a[2] = b[2]
      <4>1. UNCHANGED <<wire, rx>> /\ phase = "prot" /\ phase' = "pass"
        BY <2>1 DEF WriteProt
      <4>2. WordsAhead' = WordsAhead
        BY <4>1 DEF WordsAhead
      <4>3. VerdictAhead = 1 /\ VerdictAhead' = 0
        BY <4>1 DEF VerdictAhead
      <4> QED BY <1>3, <1>4, <4>1, <4>2, <4>3
    <3>2. \A j \in 1 .. 3 - 1 : a[j] = b[j]
      BY <1>5, <1>6, <3>1
    <3> QED BY <1>6, <3>1, <3>2
  <2>2. CASE PassWord
    <3>1. a[1] < b[1] \/ (a[1] = b[1] /\ a[2] < b[2])
      BY <1>3, <1>4, <2>2, PassDescends
    <3>2. CASE a[1] < b[1]
      <4>1. \A j \in 1 .. 1 - 1 : a[j] = b[j]
        BY <1>5, <1>6
      <4> QED BY <1>6, <3>2, <4>1
    <3>3. CASE a[1] = b[1] /\ a[2] < b[2]
      <4>1. \A j \in 1 .. 2 - 1 : a[j] = b[j]
        BY <1>5, <1>6, <3>3
      <4> QED BY <1>6, <3>3, <4>1
    <3> QED BY <3>1, <3>2, <3>3
  <2> QED BY <1>8, <2>1, <2>2 DEF Parser, HeaderWord, EtherType, IpProtocol, UdpPort,
                                   EndOfHeader, PassRest
<1>9. ASSUME UNCHANGED wire, UNCHANGED parserVars
      PROVE  a[1] = b[1] /\ a[2] = b[2] /\ a[3] = b[3]
  <2>1. UNCHANGED <<wire, rx, phase>>
    BY <1>9 DEF parserVars
  <2> QED BY <1>3, <1>4, <2>1 DEF WordsAhead, VerdictAhead
<1>10. CASE Distributer
  <2>1. CASE ReadProt
    <3>1. UNCHANGED wire /\ UNCHANGED parserVars /\ prots # <<>> /\ prots' = Tail(prots)
      BY <2>1 DEF ReadProt
    <3>2. Len(prots') = Len(prots) - 1
      BY <1>7, <3>1, HeadTailProperties
    <3>3. a[4] < b[4] /\ a[1] = b[1] /\ a[2] = b[2] /\ a[3] = b[3]
      BY <1>3, <1>4, <1>7, <1>9, <3>1, <3>2
    <3>4. \A j \in 1 .. 4 - 1 : a[j] = b[j]
      BY <1>5, <1>6, <3>3
    <3> QED BY <1>6, <3>3, <3>4
  <2>2. CASE (\E p \in Ports : Distribute(p)) \/ Discard
    <3>1. /\ UNCHANGED wire /\ UNCHANGED parserVars /\ UNCHANGED prots
          /\ pkt # <<>> /\ pkt' = Tail(pkt)
      BY <2>2 DEF Distribute, Discard
    <3>2. Len(pkt') = Len(pkt) - 1
      BY <1>7, <3>1, HeadTailProperties
    <3>3. a[5] < b[5] /\ a[1] = b[1] /\ a[2] = b[2] /\ a[3] = b[3] /\ a[4] = b[4]
      BY <1>3, <1>4, <1>7, <1>9, <3>1, <3>2
    <3>4. \A j \in 1 .. 5 - 1 : a[j] = b[j]
      BY <1>5, <1>6, <3>3
    <3> QED BY <1>6, <3>3, <3>4
  <2> QED BY <1>10, <2>1, <2>2 DEF Distributer
<1>11. CASE \E p \in Ports : Take(p)
  <2>1. PICK p \in Ports : Take(p)
    BY <1>11
  <2>2. /\ UNCHANGED wire /\ UNCHANGED parserVars /\ UNCHANGED <<prots, pkt>>
        /\ inbuf[p] # <<>> /\ inbuf' = [inbuf EXCEPT ![p] = Tail(inbuf[p])]
    BY <2>1 DEF Take
  <2>3. Len(inbuf'[p]) < Len(inbuf[p]) /\ \A q \in Ports : q # p => inbuf'[q] = inbuf[q]
    <3>1. Len(Tail(inbuf[p])) = Len(inbuf[p]) - 1
      BY <1>7, <2>2, HeadTailProperties
    <3> QED BY <1>7, <2>2, <3>1
  <2>4. a[1] = b[1] /\ a[2] = b[2] /\ a[3] = b[3] /\ a[4] = b[4] /\ a[5] = b[5]
    BY <1>3, <1>4, <1>9, <2>2
  <2>5. CASE p = "ARP"
    <3>1. a[6] < b[6]
      BY <1>3, <1>4, <2>3, <2>5
    <3>2. \A j \in 1 .. 6 - 1 : a[j] = b[j]
      BY <1>5, <1>6, <2>4
    <3> QED BY <1>6, <3>1, <3>2
  <2>6. CASE p = "ICMP"
    <3>1. a[7] < b[7] /\ a[6] = b[6]
      BY <1>3, <1>4, <2>3, <2>6 DEF Ports
    <3>2. \A j \in 1 .. 7 - 1 : a[j] = b[j]
      BY <1>5, <1>6, <2>4, <3>1
    <3> QED BY <1>6, <3>1, <3>2
  <2>7. CASE p = "UDP_STRM"
    <3>1. a[8] < b[8] /\ a[6] = b[6] /\ a[7] = b[7]
      BY <1>3, <1>4, <2>3, <2>7 DEF Ports
    <3>2. \A j \in 1 .. 8 - 1 : a[j] = b[j]
      BY <1>5, <1>6, <2>4, <3>1
    <3> QED BY <1>6, <3>1, <3>2
  <2>8. CASE p = "UDP_REG"
    <3>1. a[9] < b[9] /\ a[6] = b[6] /\ a[7] = b[7] /\ a[8] = b[8]
      BY <1>3, <1>4, <2>3, <2>8 DEF Ports
    <3>2. \A j \in 1 .. 9 - 1 : a[j] = b[j]
      BY <1>5, <1>6, <2>4, <3>1
    <3> QED BY <1>6, <3>1, <3>2
  <2> QED BY <2>5, <2>6, <2>7, <2>8 DEF Ports
<1> QED BY <1>8, <1>10, <1>11 DEF Next

\* The receive path comes to rest, and only with every frame delivered, for every
\* traffic and every depth of the FIFOs that holds the headers, whatever the order
\* of the steps is: until then some block has a step to take, and each step leaves
\* less to do, which by DescentEnds of UdpStreamProofs cannot go on for ever
\* (parser.cpp:26-79, distributer.cpp:33-49).
THEOREM Rest == Safety => ComesToRest
<1>1. IInv => NeverStuck /\ Ahead \in Seq(Nat)
  <2> SUFFICES ASSUME IInv
               PROVE  NeverStuck /\ Ahead \in Seq(Nat)
    OBVIOUS
  <2>1. Ahead \in Seq(Nat)
    <3>1. Ahead = <<Len(wire) + 1 - rx.frame, WordsAhead, VerdictAhead, Len(prots),
                    Len(pkt), Len(inbuf["ARP"]), Len(inbuf["ICMP"]),
                    Len(inbuf["UDP_STRM"]), Len(inbuf["UDP_REG"])>>
      BY DEF Ahead, VerdictAhead
    <3>2. /\ Len(inbuf["ARP"]) \in Nat /\ Len(inbuf["ICMP"]) \in Nat
          /\ Len(inbuf["UDP_STRM"]) \in Nat /\ Len(inbuf["UDP_REG"]) \in Nat
      BY AheadNat DEF Ports
    <3> QED BY <3>1, <3>2, AheadNat
  <2> QED BY <2>1, IInvNeverStuck
<1>2. IInv /\ [Next]_vars => [Below(Ahead', Ahead)]_vars
  BY Descends
<1> QED BY <1>1, <1>2, Invariance, PTL DEF Safety, ComesToRest
=============================================================================
