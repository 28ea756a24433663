------------------------------- MODULE Descent -------------------------------
(***************************************************************************)
(* The order in which the work a path still has to do becomes less: tuples *)
(* of natural numbers, the first difference decides.  A path whose every   *)
(* step goes down in it cannot go on for ever (UdpStreamProofs,            *)
(* DescentEnds).                                                           *)
(***************************************************************************)
EXTENDS Naturals, Sequences

Below(a, b) ==
    \E i \in 1 .. Len(a) : a[i] < b[i] /\ \A j \in 1 .. i - 1 : a[j] = b[j]
=============================================================================
