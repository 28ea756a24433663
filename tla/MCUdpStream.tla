---------------------------- MODULE MCUdpStream ----------------------------
(***************************************************************************)
(* Small instances of UdpStream: two clients, blocks of 2 bytes, packets   *)
(* of at most 3, FIFOs of 2 and 3; every traffic of one or two datagrams   *)
(* of 1 to 3 bytes, with or without padding, and some of three.            *)
(***************************************************************************)
EXTENDS UdpStream

CONSTANTS c1, c2

MCClients == {c1, c2}

Gram(c, n, p) == [client |-> c, len |-> n, pad |-> p]
Grams == {Gram(c, n, p) : c \in MCClients, n \in 1 .. 3, p \in 0 .. 1}
FewGrams == {Gram(c1, 2, 0), Gram(c2, 1, 1)}

MCTraffic == [1 .. 1 -> Grams] \cup [1 .. 2 -> Grams] \cup [1 .. 3 -> FewGrams]
=============================================================================
