--------------------------- MODULE ChecksumProofs ---------------------------
(***************************************************************************)
(* The header of an echo reply adds up, for all addresses and headers.     *)
(***************************************************************************)
EXTENDS Checksums, TLAPS

\* Moving the source to the destination and the board's address, which is the
\* destination, to the source leaves the sum of the words as it was
\* (icmp.cpp:76-77).
LEMMA SwapKeepsSum ==
    ASSUME NEW h \in Headers, h.dst = ip_addr
    PROVE  HeaderSum(ReplyHeader(h)) + ReplyHeader(h).check = HeaderSum(h) + h.check
<1>1. /\ h.rest \in Nat /\ h.check \in Nat
      /\ h.src[1] \in Nat /\ h.src[2] \in Nat
      /\ h.dst[1] \in Nat /\ h.dst[2] \in Nat
  <2>1. h.rest \in Rest /\ h.check \in Check /\ h.src \in Addr /\ h.dst \in Addr
    BY DEF Headers
  <2>2. Word \subseteq Nat /\ Rest \subseteq Nat /\ Check \subseteq Nat
    <3>1. Word \subseteq Nat
      BY ChecksumAssumption, SMT
    <3>2. Rest \subseteq Nat
      BY ChecksumAssumption, SMT
    <3>3. Check \subseteq Nat
      BY ChecksumAssumption, SMT
    <3> QED BY <3>1, <3>2, <3>3
  <2>3. \A a \in Addr : a[1] \in Word /\ a[2] \in Word
    BY DEF Addr
  <2> QED BY <2>1, <2>2, <2>3, Zenon
<1>2. /\ ReplyHeader(h).rest = h.rest /\ ReplyHeader(h).check = h.check
      /\ ReplyHeader(h).src = h.dst /\ ReplyHeader(h).dst = h.src
  BY DEF ReplyHeader
<1> HIDE DEF ReplyHeader
<1> QED BY <1>1, <1>2, SMT DEF HeaderSum

\* The header that icmp.cpp:78 writes adds up when the one it read did.
LEMMA ReplyAddsUp ==
    ASSUME NEW h \in Headers, h.dst = ip_addr
    PROVE  HeaderOK(ReplyHeader(h))
<1>1. HeaderOK(h)
  BY Zenon DEF Headers
<1> QED BY <1>1, SwapKeepsSum, Zenon DEF HeaderOK

Inv == request \in Requests /\ ReplyHeaderOK

\* Whatever the addresses and the rest of the header: an echo reply has a
\* correct IP header checksum although icmp.cpp:64-78 never recomputes it.
THEOREM RepliesAddUp == Spec => []ReplyHeaderOK
<1>1. Init => Inv
  BY DEF Init, Inv, ReplyHeaderOK, Nothing
<1>2. Inv /\ [Next]_vars => Inv'
  <2> SUFFICES ASSUME Inv, [Next]_vars
               PROVE  Inv'
    OBVIOUS
  <2>1. CASE Reply
    <3>1. request' \in Requests
      BY <2>1, Zenon DEF Inv, Reply
    <3>2. sent'.ip = ReplyHeader(request.ip)
      <4> HIDE DEF ReplyHeader, ReplyIcmp
      <4> QED BY <2>1 DEF Reply
    <3>3. request.ip \in Headers /\ request.ip.dst = ip_addr
      BY <2>1 DEF Inv, Reply, EchoRequest, Requests
    <3>4. HeaderOK(sent'.ip)
      BY <3>2, <3>3, ReplyAddsUp, Zenon
    <3>5. HeaderOK(sent.ip)'
      BY <3>4, Zenon DEF HeaderOK, HeaderSum
    <3> QED BY <3>1, <3>5, Zenon DEF Inv, ReplyHeaderOK
  <2>2. CASE DiscardIcmp
    <3>1. sent'.kind # "reply"
      BY <2>2 DEF DiscardIcmp
    <3> QED BY <2>2, <3>1, Zenon DEF Inv, DiscardIcmp, ReplyHeaderOK
  <2>3. CASE Packetize
    <3>1. sent'.kind # "reply"
      BY <2>3 DEF Packetize
    <3> QED BY <2>3, <3>1, Zenon DEF Inv, Packetize, ReplyHeaderOK
  <2>4. CASE UNCHANGED vars
    BY <2>4, Zenon DEF Inv, vars, ReplyHeaderOK, HeaderOK, HeaderSum
  <2> QED BY <2>1, <2>2, <2>3, <2>4, Zenon DEF Next
<1>3. Inv => ReplyHeaderOK
  BY DEF Inv
<1> QED BY <1>1, <1>2, <1>3, PTL DEF Spec
=============================================================================
