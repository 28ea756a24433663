------------------------------- MODULE Frames -------------------------------
(***************************************************************************)
(* The Ethernet frames the receive path handles and the 9-bit stream words *)
(* (data, TLAST) they travel in: HLS/network.h and the constants of        *)
(* HLS/parser/parser.cpp.                                                  *)
(*                                                                         *)
(* A frame is what the parser can tell apart: the EtherType, the IP        *)
(* protocol and the UDP destination port at their fixed offsets, and the   *)
(* number of words.  A word is a position in the traffic: which frame,     *)
(* which word of it.  TLAST is set on the last word of a frame and on no   *)
(* other.                                                                  *)
(***************************************************************************)
EXTENDS Naturals, Sequences

CONSTANTS
    EthWords,   \* words of an Ethernet header (6 + 6 + 2 in the code)
    IpWords,    \* words of the IPv4 header the code reads (20, whatever IHL)
    UdpWords,   \* words of a UDP header (8)
    Traffic     \* the sequences of frames the TEMAC may deliver

EtherTypes  == {"ARP", "IPv4", "otherType"}
IpProtocols == {"ICMP", "UDP", "otherIp"}
UdpPorts    == {40000, 50000, 60000, 0}      \* 0: any other destination port

\* net::prot, the values carried by prot_fifo; the first four have a core.
Ports == {"ARP", "ICMP", "UDP_STRM", "UDP_REG"}
Prots == Ports \cup {"OTHER"}

HdrWords == EthWords + IpWords + UdpWords

\* The TEMAC delivers frames of at least 60 octets, so a frame never ends
\* inside the 42 octets of headers that the parser and the cores read blindly.
Frame == [ether : EtherTypes, proto : IpProtocols, port : UdpPorts,
          len : {n \in Nat : n > HdrWords}]

ASSUME HeadersAssumption ==
    /\ EthWords \in Nat \ {0}
    /\ IpWords \in Nat \ {0}
    /\ UdpWords \in Nat \ {0}

ASSUME TrafficAssumption == Traffic \subseteq Seq(Frame)

\* The core a frame is meant for, from its headers.
Class(f) ==
    CASE f.ether = "ARP" -> "ARP"
      [] f.ether = "IPv4" /\ f.proto = "ICMP" -> "ICMP"
      [] f.ether = "IPv4" /\ f.proto = "UDP" /\ f.port = 60000 -> "UDP_STRM"
      [] f.ether = "IPv4" /\ f.proto = "UDP" /\ f.port \in {40000, 50000} -> "UDP_REG"
      [] OTHER -> "OTHER"

Word == [frame : Nat, pos : Nat]

\* Word w of traffic t carries TLAST.
IsLast(t, w) == w.pos = t[w.frame].len

\* The word after w in traffic t.
NextWord(t, w) ==
    IF IsLast(t, w) THEN [frame |-> w.frame + 1, pos |-> 1]
                    ELSE [w EXCEPT !.pos = @ + 1]

FirstWord == [frame |-> 1, pos |-> 1]

\* "Nothing yet": stands before the first word of the traffic.
NoWord == [frame |-> 0, pos |-> 0]

\* The words of traffic t.
WordsOf(t) == UNION {[frame : {f}, pos : 1 .. t[f].len] : f \in 1 .. Len(t)}

\* Among the frames of class p, word v comes immediately after word w.
Follows(t, p, w, v) ==
    /\ v \in WordsOf(t)
    /\ Class(t[v.frame]) = p
    /\ \/ /\ v.frame = w.frame
          /\ v.pos = w.pos + 1
       \/ /\ v.pos = 1
          /\ v.frame > w.frame
          /\ w = NoWord \/ IsLast(t, w)
          /\ \A g \in (w.frame + 1) .. (v.frame - 1) : Class(t[g]) # p
=============================================================================
