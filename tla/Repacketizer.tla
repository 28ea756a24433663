---------------------------- MODULE Repacketizer ----------------------------
(***************************************************************************)
(* What the streaming path promises the clients, without its buffers: it   *)
(* takes the bytes of the datagrams in their order and gives them back in  *)
(* packets of at most Cap bytes.  A packet is announced when all its bytes *)
(* have been taken, to a client whose datagram is no older than they are,  *)
(* and then given whole before the next one is announced.                  *)
(***************************************************************************)
EXTENDS Naturals, Sequences

CONSTANTS
    Traffic,    \* the sequences of datagrams that may arrive
    Cap         \* the largest packet

VARIABLES
    wire,       \* the datagrams, fixed for a behaviour
    taken,      \* the bytes taken: byte k of datagram d is [d |-> d, k |-> k]
    packets,    \* the packets announced: [to, size]
    left,       \* bytes of the last one that are still to be given
    given       \* the words given: [byte, last]

pathVars == <<wire, taken, packets, left, given>>

Init ==
    /\ wire \in Traffic
    /\ taken = <<>>
    /\ packets = <<>>
    /\ left = 0
    /\ given = <<>>

\* The byte that arrives after byte b.
After(b) == IF b.k = wire[b.d].len + wire[b.d].pad THEN [d |-> b.d + 1, k |-> 1]
                                                   ELSE [d |-> b.d, k |-> b.k + 1]

\* The next byte to take.
Following == IF taken = <<>> THEN [d |-> 1, k |-> 1] ELSE After(taken[Len(taken)])

Take ==
    /\ Following.d <= Len(wire)
    /\ taken' = Append(taken, Following)
    /\ UNCHANGED <<wire, packets, left, given>>

\* A packet of the next n bytes, to the sender of the last of them or of a
\* datagram that has arrived since.
Announce(n) ==
    /\ left = 0
    /\ Len(given) + n <= Len(taken)
    /\ \E d \in taken[Len(given) + n].d .. Following.d :
          /\ d <= Len(wire)
          /\ packets' = Append(packets, [to |-> wire[d].client, size |-> n])
    /\ left' = n
    /\ UNCHANGED <<wire, taken, given>>

\* The next byte of the packet; the last one is marked.
Give ==
    /\ left > 0
    /\ given' = Append(given, [byte |-> taken[Len(given) + 1], last |-> left = 1])
    /\ left' = left - 1
    /\ UNCHANGED <<wire, taken, packets>>

Next == Take \/ (\E n \in 1 .. Cap : Announce(n)) \/ Give

Safety == Init /\ [][Next]_pathVars
=============================================================================
