------------------------------- MODULE Egress -------------------------------
(***************************************************************************)
(* The transmit path: arp, icmp, udp_packetizer and udp_reg write their    *)
(* frames word by word into output buffers in packet mode; axis_switch_0   *)
(* arbitrates on TLAST between them, round robin, and fills                *)
(* network_tx_fifo, again in packet mode, which the MAC empties.           *)
(*                                                                         *)
(* Sources: mb_bd.tcl (the buffers, their modes and depths, the switch and *)
(* the order of its ports), and the output loops of the four cores.  The   *)
(* FIFO and the switch are Xilinx IP outside the repository, modelled by   *)
(* what the configuration asks of them.                                    *)
(***************************************************************************)
EXTENDS Naturals, Sequences, Descent

CONSTANTS
    N,          \* ports of the switch (4)
    None,       \* no port
    Scripts,    \* the lengths of the frames the cores will write
    OutDepth,   \* OutDepth[s]: depth of the output buffer at port s
    TxDepth     \* depth of network_tx_fifo

\* S00 arp, S01 icmp, S02 udp_packetizer, S03 udp_reg.
Sources == 1 .. N

\* A frame fits into the buffers it passes: in the design at most 1578 words,
\* 42 of arp, in buffers of 2048 and 512.  A packet-mode FIFO could not collect
\* a longer one.
ASSUME EgressAssumption ==
    /\ N \in Nat \ {0}
    /\ None \notin Sources
    /\ TxDepth \in Nat /\ OutDepth \in [Sources -> Nat]
    /\ Scripts \subseteq [Sources -> Seq(Nat)]
    /\ \A t \in Scripts : \A s \in Sources : \A f \in 1 .. Len(t[s]) :
          /\ t[s][f] \in 1 .. OutDepth[s]
          /\ t[s][f] <= TxDepth

VARIABLES
    script,     \* the frames the cores write, fixed for a behaviour
    next,       \* next[s]: the word core s writes next
    obuf,       \* obuf[s]: the output buffer of core s
    grant,      \* the port the switch is connected to
    turn,       \* the port it was connected to last
    tx,         \* network_tx_fifo
    latest,     \* latest[s]: the last word of s the MAC has read
    bypassed    \* bypassed[s]: the grants to others that s has waited through

vars == <<script, next, obuf, grant, turn, tx, latest, bypassed>>

Word == [src : Sources, frame : Nat, pos : Nat]

\* Word w carries the TLAST of its frame.
IsLast(w) == w.pos = script[w.src][w.frame]

After(w) == IF IsLast(w) THEN [src |-> w.src, frame |-> w.frame + 1, pos |-> 1]
                         ELSE [src |-> w.src, frame |-> w.frame, pos |-> w.pos + 1]

Init ==
    /\ script \in Scripts
    /\ next = [s \in Sources |-> [src |-> s, frame |-> 1, pos |-> 1]]
    /\ obuf = [s \in Sources |-> <<>>]
    /\ grant = None
    /\ turn = N
    /\ tx = <<>>
    /\ latest = [s \in Sources |-> [src |-> s, frame |-> 0, pos |-> 0]]
    /\ bypassed = [s \in Sources |-> 0]

-----------------------------------------------------------------------------
\* Mutant of Released: FIFO_MODE 1, which hands out what it has.
ReleasedAtOnce(q) == q # <<>>

\* FIFO_MODE 2: words come out only when a whole frame is in.
Released(q) == \E i \in 1 .. Len(q) : IsLast(q[i])

\* Mutant of HasRoom: one word too many.
HasRoomLate(q, depth) == Len(q) <= depth

\* Mutant of HasRoom: one word too few.
HasRoomShort(q, depth) == Len(q) + 1 < depth

\* TREADY of a FIFO.
HasRoom(q, depth) == Len(q) < depth

CanWrite(s) == next[s].frame <= Len(script[s]) /\ HasRoom(obuf[s], OutDepth[s])

\* output_strm.write(word) of core s.
Write(s) ==
    /\ CanWrite(s)
    /\ obuf' = [obuf EXCEPT ![s] = Append(@, next[s])]
    /\ next' = [next EXCEPT ![s] = After(@)]
    /\ UNCHANGED <<script, grant, turn, tx, latest, bypassed>>

\* How many ports come before s when the last one was turn.
Distance(s) == IF s > turn THEN s - turn - 1 ELSE s + N - turn - 1

\* Mutant of FirstInTurn: fixed priority.
FirstInTurnFixed(s) == \A t \in Sources : Released(obuf[t]) => s <= t

FirstInTurn(s) == \A t \in Sources : Released(obuf[t]) => Distance(s) <= Distance(t)

CanArbitrate(s) == grant = None /\ Released(obuf[s]) /\ FirstInTurn(s)

\* The switch is free and some buffers have a frame: the next one in turn is
\* connected.
Arbitrate(s) ==
    /\ CanArbitrate(s)
    /\ grant' = s
    /\ turn' = s
    /\ bypassed' = [t \in Sources |->
                      IF t # s /\ Released(obuf[t]) THEN bypassed[t] + 1 ELSE 0]
    /\ UNCHANGED <<script, next, obuf, tx, latest>>

\* Mutants of AfterTransfer: arbitration after every transfer, and never again.
AfterTransferEach(w)  == None
AfterTransferNever(w) == grant

\* ARB_ON_TLAST
AfterTransfer(w) == IF IsLast(w) THEN None ELSE grant

CanTransfer(s) == grant = s /\ Released(obuf[s]) /\ HasRoom(tx, TxDepth)

Transfer(s) ==
    /\ CanTransfer(s)
    /\ tx' = Append(tx, Head(obuf[s]))
    /\ obuf' = [obuf EXCEPT ![s] = Tail(@)]
    /\ grant' = AfterTransfer(Head(obuf[s]))
    /\ UNCHANGED <<script, next, turn, latest, bypassed>>

\* The MAC reads a word and puts it on the line.
MacRead ==
    /\ Released(tx)
    /\ latest' = [latest EXCEPT ![Head(tx).src] = Head(tx)]
    /\ tx' = Tail(tx)
    /\ UNCHANGED <<script, next, obuf, grant, turn, bypassed>>

Switch == \E s \in Sources : Arbitrate(s) \/ Transfer(s)

Next == (\E s \in Sources : Write(s)) \/ Switch \/ MacRead

\* Cores and switch run for ever and stall only on their streams; the MAC sends
\* what it is given.
Fairness ==
    /\ \A s \in Sources : WF_vars(Write(s))
    /\ WF_vars(Switch)
    /\ WF_vars(MacRead)

Safety == Init /\ [][Next]_vars
Spec   == Safety /\ Fairness

-----------------------------------------------------------------------------
(* Properties *)

TypeOK ==
    /\ script \in Scripts
    /\ next \in [Sources -> Word]
    /\ obuf \in [Sources -> Seq(Word)]
    /\ \A s \in Sources : Len(obuf[s]) <= OutDepth[s]
    /\ grant \in Sources \cup {None}
    /\ turn \in Sources
    /\ tx \in Seq(Word) /\ Len(tx) <= TxDepth
    /\ latest \in [Sources -> Word]
    /\ bypassed \in [Sources -> Nat]

\* A source in the middle of whose frame the line is.
Underway(s) == latest[s].frame > 0 /\ ~IsLast(latest[s])

\* A frame that has begun never waits for its core: while the switch is
\* connected to a buffer the rest of the frame is in that buffer, and while the
\* MAC is in a frame the rest of it is in network_tx_fifo, so a core that is slow
\* or stalled in the middle of its output loop delays nobody and the MAC never
\* runs dry (the packet mode of mb_bd.tcl:358-363, 459-464, 505-510, 550-555 and
\* 580-585 against the output loops of the cores).
NeverStalls ==
    /\ grant # None => Released(obuf[grant])
    /\ (\E s \in Sources : Underway(s)) => Released(tx)

\* No source starves: a buffer with a whole frame in it waits for at most one
\* frame of every other source, however much the others send ("interleaves them
\* using a round robin algorithm", project report on the aggregator;
\* mb_bd.tcl:396-403).
BoundedBypass == \A s \in Sources : bypassed[s] <= N - 1

\* The transmit path implements FrameMerge: what the MAC reads are whole frames,
\* never two of them interleaved, each source's in its order, none lost
\* (safety), and in the end all of them (progress).
OnLine == {s \in Sources : Underway(s)}
Line   == IF OnLine = {} THEN None ELSE CHOOSE s \in OnLine : TRUE

Merge == INSTANCE FrameMerge
    WITH now  <- Line,
         sent <- IF OnLine = {} THEN 0 ELSE latest[Line].pos,
         done <- [s \in Sources |->
                    IF Underway(s) THEN latest[s].frame - 1 ELSE latest[s].frame]

ImplementsMerge == Merge!Safety
AllSent         == Merge!Progress

NeverStuck ==
    \/ \E s \in Sources : CanWrite(s) \/ CanArbitrate(s) \/ CanTransfer(s)
    \/ Released(tx)
    \/ Merge!AllDone

\* The work ahead: for every core the frames and the words of the current one it
\* has not written; the words in its buffer; those in network_tx_fifo; the
\* next arbitration.
WordsAhead(s) == IF next[s].frame <= Len(script[s])
                 THEN script[s][next[s].frame] - next[s].pos ELSE 0
Ahead ==
    [i \in 1 .. 3 * N + 2 |->
        CASE i \in 1 .. N             -> Len(script[i]) + 1 - next[i].frame
          [] i \in N + 1 .. 2 * N     -> WordsAhead(i - N)
          [] i \in 2 * N + 1 .. 3 * N -> Len(obuf[i - 2 * N])
          [] i = 3 * N + 1            -> Len(tx)
          [] i = 3 * N + 2            -> IF grant = None THEN 1 ELSE 0]

\* Packet mode cannot lock the path: a FIFO that holds back its words until a
\* whole frame is in it always has room for the rest of the frame, the switch
\* holds no port that has nothing to give, and the path comes to rest after
\* finitely many steps, with every frame sent (mb_bd.tcl:358-363, 395-403 and
\* 505-510 with the frame lengths of the cores).
ComesToRest ==
    /\ [](NeverStuck /\ Ahead \in [1 .. 3 * N + 2 -> Nat])
    /\ [][Below(Ahead', Ahead)]_vars
=============================================================================
