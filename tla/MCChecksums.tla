---------------------------- MODULE MCChecksums ----------------------------
(***************************************************************************)
(* Checksums over address words and sums at the edges of 16 bits: zero,    *)
(* the values around 0x0800 that the ICMP checksum moves by, and values    *)
(* that carry.                                                             *)
(***************************************************************************)
EXTENDS Checksums

MCWord == {266, 49320, 65535}
MCRest == {0, 2047, 63489, 200000}
MCCode == {0}
MCType == {0, 8}

Complement(x) == (Mod - 1) - Fold(x)
MCCheck ==
    {Complement(HeaderSum([rest |-> r, src |-> a, dst |-> b])) :
        r \in Rest, a \in Addr, b \in Addr}
    \cup {Complement(IcmpSum([type |-> t, code |-> c, rest |-> r])) :
        t \in Type, c \in Code, r \in Rest}
=============================================================================
