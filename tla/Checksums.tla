----------------------------- MODULE Checksums -----------------------------
(***************************************************************************)
(* The Internet checksums of the frames the accelerator sends: what icmp   *)
(* does to the IP header and the ICMP checksum of an echo request it       *)
(* answers, and what udp_packetizer puts into the header of a packet.      *)
(*                                                                         *)
(* Sources: HLS/icmp/icmp.cpp:53-102,                                      *)
(* HLS/udp_packetizer/udp_packetizer.cpp:42-114.                           *)
(*                                                                         *)
(* The words of a header or of a message that no core changes or looks at  *)
(* count by their sum.                                                     *)
(***************************************************************************)
EXTENDS Naturals

CONSTANTS
    Word,       \* the words of the addresses
    Rest,       \* the sums of the words icmp leaves alone
    Code,       \* the values of the ICMP code byte
    Type,       \* the values of the ICMP type byte
    Check,      \* the values of a checksum field
    Payloads    \* bound: the longest payload of a packet

Byte == 0 .. 255
Mod  == 65536

\* An IP header has five words besides its addresses and its checksum, an
\* ICMP message fits in a frame.
ASSUME ChecksumAssumption ==
    /\ Word \subseteq 0 .. Mod - 1
    /\ Rest \subseteq 0 .. 750 * (Mod - 1)
    /\ Code \subseteq Byte
    /\ Type \subseteq Byte
    /\ Check \subseteq 0 .. Mod - 1
    /\ Payloads \in 0 .. 1024

\* An IP address is two words.
Addr == Word \X Word

VARIABLES
    ip_addr,    \* the register of both cores
    dst_ip_addr,\* the register of the packetizer
    request,    \* the frame icmp has read: its IP header and ICMP message
    sent        \* what has been written, [kind, ip, icmp]

vars == <<ip_addr, dst_ip_addr, request, sent>>

\* Adding the carries once; twice is enough for the sums of a frame.
Carry(x) == (x % Mod) + (x \div Mod)
Fold(x)  == Carry(Carry(x))

NoIcmp == [type |-> 0, code |-> 0, rest |-> 0, check |-> Mod - 1]

HeaderSum(h) == h.rest + h.src[1] + h.src[2] + h.dst[1] + h.dst[2]
IcmpSum(m)   == m.type * 256 + m.code + m.rest

\* What the receiver of a frame checks: all words add up to all ones.
HeaderOK(h) == Fold(HeaderSum(h) + h.check) = Mod - 1
IcmpOK(m)   == Fold(IcmpSum(m) + m.check) = Mod - 1

\* The frames icmp may read: senders only send correct ones.
Headers  == {h \in [rest : Rest, src : Addr, dst : Addr, check : Check] : HeaderOK(h)}
Messages == {m \in [type : Type, code : Code, rest : Rest, check : Check] : IcmpOK(m)}
Requests == [ip : Headers, icmp : Messages]

Nothing == [kind |-> "nothing"]

Init ==
    /\ ip_addr \in Addr
    /\ dst_ip_addr \in Addr
    /\ request \in Requests
    /\ sent = Nothing

-----------------------------------------------------------------------------
(* icmp *)

EchoRequest == request.icmp.type = 8 /\ request.ip.dst = ip_addr

\* Mutant of ReplyHeader: the destination is overwritten after the source.
ReplyHeaderOverwritten(h) ==
    [rest |-> h.rest, src |-> ip_addr, dst |-> ip_addr, check |-> h.check]

\* ip_header.dst_ip = ip_header.src_ip; ip_header.src_ip = ip_addr
ReplyHeader(h) ==
    [rest |-> h.rest, src |-> ip_addr, dst |-> h.src, check |-> h.check]

\* The type becomes 0; icmp_header.checksum -= 8, in 16 bits.
ReplyIcmp(m) == [m EXCEPT !.type = 0, !.check = (@ + Mod - 8) % Mod]

Reply ==
    /\ sent = Nothing
    /\ EchoRequest
    /\ sent' = [kind |-> "reply", ip |-> ReplyHeader(request.ip),
                icmp |-> ReplyIcmp(request.icmp)]
    /\ UNCHANGED <<ip_addr, dst_ip_addr, request>>

\* Any other ICMP message is discarded.
DiscardIcmp ==
    /\ sent = Nothing
    /\ ~EchoRequest
    /\ sent' = [kind |-> "discarded"]
    /\ UNCHANGED <<ip_addr, dst_ip_addr, request>>

-----------------------------------------------------------------------------
(* udp_packetizer *)

\* The words of the header other than the addresses: version, IHL, DSCP and
\* ECN; total_length; identification; flags and offset; ttl and protocol.
FixedWords(len) == 17664 + (20 + 8 + len) + 22676 + 0 + (255 * 256 + 17)

\* header_checksum = 0 is what is written: the sum the core then computes in
\* "checksum" is stored nowhere.
Packetize ==
    /\ sent = Nothing
    /\ \E len \in 1 .. Payloads :
          sent' = [kind |-> "packet", icmp |-> NoIcmp,
                   ip |-> [rest |-> FixedWords(len), src |-> ip_addr,
                           dst |-> dst_ip_addr, check |-> 0]]
    /\ UNCHANGED <<ip_addr, dst_ip_addr, request>>

Next == Reply \/ DiscardIcmp \/ Packetize

Spec == Init /\ [][Next]_vars

-----------------------------------------------------------------------------
(* Properties *)

\* The reply to an echo request keeps the header checksum of the request
\* although both addresses change (icmp.cpp:64-78): the source moves to the
\* destination, and the board's address replaces a destination that was equal
\* to it, so that the header still adds up.
ReplyHeaderOK == sent.kind = "reply" => HeaderOK(sent.ip)

\* An ICMP reply carries a correct ICMP checksum: the core "generates an ICMP
\* ping response packet and calculates the ICMP checksum as well" (project
\* report, page 12).
ReplyIcmpOK == sent.kind = "reply" => IcmpOK(sent.icmp)
=============================================================================
