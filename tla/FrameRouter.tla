----------------------------- MODULE FrameRouter -----------------------------
(***************************************************************************)
(* What the parser and the distributer promise the protocol cores, without *)
(* the FIFOs: each core receives the words of the frames of its class, all *)
(* of them, in order and nothing else.                                     *)
(***************************************************************************)
EXTENDS Frames

VARIABLES
    wire,       \* the frames the TEMAC delivers, fixed for a behaviour
    taken       \* taken[p]: the last word the core at port p has read

routerVars == <<wire, taken>>

Init ==
    /\ wire \in Traffic
    /\ taken = [p \in Ports |-> NoWord]

\* The core at port p reads the next word of its own stream.
Deliver(p) ==
    /\ \E v \in WordsOf(wire) :
          /\ Follows(wire, p, taken[p], v)
          /\ taken' = [taken EXCEPT ![p] = v]
    /\ UNCHANGED wire

Next == \E p \in Ports : Deliver(p)

\* Port p has been given every word of every frame of its class.
AllDelivered(p) ==
    \A f \in 1 .. Len(wire) :
        Class(wire[f]) = p =>
            \/ f < taken[p].frame
            \/ taken[p] = [frame |-> f, pos |-> wire[f].len]

Safety == Init /\ [][Next]_routerVars

\* No frame is lost or held back for ever.
Progress == \A p \in Ports : <>[]AllDelivered(p)

Spec == Safety /\ Progress
=============================================================================
