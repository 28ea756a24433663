------------------------------ MODULE MCIngress ------------------------------
(***************************************************************************)
(* Small instances of Ingress: headers of 2 + 2 + 1 words and every        *)
(* traffic of two frames of any kind or three of the kinds named below.    *)
(* packet_buffer holds the end of a frame and the headers of the next, so  *)
(* that prot_fifo fills up too, and is shorter than the long frames.       *)
(***************************************************************************)
EXTENDS Ingress

Kind(e, i, u) == [ether |-> e, proto |-> i, port |-> u]

\* One frame kind per path through the parser.
AllKinds == {Kind("ARP", "otherIp", 0), Kind("otherType", "otherIp", 0),
             Kind("IPv4", "ICMP", 0), Kind("IPv4", "otherIp", 0),
             Kind("IPv4", "UDP", 60000), Kind("IPv4", "UDP", 50000),
             Kind("IPv4", "UDP", 40000), Kind("IPv4", "UDP", 0)}

FewKinds == {Kind("ARP", "otherIp", 0), Kind("IPv4", "UDP", 60000),
             Kind("otherType", "otherIp", 0)}

FrameOf(k, n) == [ether |-> k.ether, proto |-> k.proto, port |-> k.port, len |-> n]

MCEthWords == 2
MCIpWords  == 2
MCUdpWords == 1

PairsTraffic == { <<FrameOf(a, 6), FrameOf(b, 9)>> : a \in AllKinds, b \in AllKinds }
ThreeTraffic == { <<FrameOf(a, 6), FrameOf(b, 6), FrameOf(c, 7)>> :
                    a \in FewKinds, b \in FewKinds, c \in FewKinds }
MCTraffic == PairsTraffic \cup ThreeTraffic

MCPktDepth  == 8
MCProtDepth == 1
MCPortDepth == [p \in Ports |-> IF p = "UDP_STRM" THEN 2 ELSE 1]
=============================================================================
