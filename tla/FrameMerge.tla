----------------------------- MODULE FrameMerge -----------------------------
(***************************************************************************)
(* What the output buffers and axis_switch_0 promise, without the FIFOs:   *)
(* the frames of several sources share one line, one whole frame at a      *)
(* time, and each source's frames keep their order.                        *)
(***************************************************************************)
EXTENDS Naturals, Sequences

CONSTANTS
    Sources,    \* the cores that send
    Scripts,    \* the possible lengths of their frames, [Sources -> Seq(Nat)]
    None        \* no source

VARIABLES
    script,     \* the frames to send, fixed for a behaviour
    now,        \* the source of the frame on the line
    sent,       \* the words of that frame on the line so far
    done        \* done[s]: the frames of s that have been sent

mergeVars == <<script, now, sent, done>>

Init ==
    /\ script \in Scripts
    /\ now = None
    /\ sent = 0
    /\ done = [s \in Sources |-> 0]

\* The next word of source s, unless the line is in the middle of the frame of
\* another.
Transmit(s) ==
    /\ now \in {None, s}
    /\ done[s] < Len(script[s])
    /\ IF sent + 1 = script[s][done[s] + 1]
       THEN now' = None /\ sent' = 0 /\ done' = [done EXCEPT ![s] = @ + 1]
       ELSE now' = s /\ sent' = sent + 1 /\ UNCHANGED done
    /\ UNCHANGED script

Next == \E s \in Sources : Transmit(s)

Safety == Init /\ [][Next]_mergeVars

AllDone == \A s \in Sources : done[s] = Len(script[s])

\* Every frame is sent in the end.
Progress == <>[]AllDone
=============================================================================
