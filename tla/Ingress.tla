------------------------------- MODULE Ingress -------------------------------
(***************************************************************************)
(* The receive path of the accelerator: the parser classifies each frame   *)
(* while it streams it into packet_buffer and puts the verdict into        *)
(* prot_fifo; the distributer joins the two FIFOs again and streams the    *)
(* frame into the input buffer of one protocol core, or discards it.       *)
(*                                                                         *)
(* Sources: HLS/parser/parser.cpp, HLS/distributer/distributer.cpp, the    *)
(* stream helpers of HLS/network.cpp, and the FIFOs of mb_bd.tcl.          *)
(*                                                                         *)
(* An iteration of a pipelined loop reads one word and writes one word and *)
(* stalls as a whole when either stream blocks: it is one action, enabled  *)
(* when there is a word to read and room to write it.                      *)
(***************************************************************************)
EXTENDS Frames, Descent

CONSTANTS
    PktDepth,   \* depth of packet_buffer
    ProtDepth,  \* depth of prot_fifo
    PortDepth   \* PortDepth[p]: depth of the input buffer of core p

\* The parser writes the verdict only after the headers, so the headers must
\* fit in packet_buffer (42 words; the design has 2048).
ASSUME DepthAssumption ==
    /\ PktDepth \in Nat /\ PktDepth >= HdrWords
    /\ ProtDepth \in Nat \ {0}
    /\ PortDepth \in [Ports -> Nat \ {0}]

VARIABLES
    wire,       \* the frames the TEMAC delivers, fixed for a behaviour
    rx,         \* the word at the head of network_rx_fifo
    phase,      \* where the parser is in its code
    seen,       \* the words the parser's current header loop has passed
    verdict,    \* the protocol the parser is about to write
    pkt,        \* packet_buffer
    prots,      \* prot_fifo
    route,      \* the distributer's detected_prot, "none" before it is read
    inbuf,      \* inbuf[p]: the input buffer of core p
    taken       \* taken[p]: the last word core p has read from inbuf[p]

parserVars == <<rx, phase, seen, verdict>>
vars == <<wire, rx, phase, seen, verdict, pkt, prots, route, inbuf, taken>>

Phases == {"eth", "ip", "udp", "prot", "pass"}

Init ==
    /\ wire \in Traffic
    /\ rx = FirstWord
    /\ phase = "eth"
    /\ seen = 0
    /\ verdict = "OTHER"
    /\ pkt = <<>>
    /\ prots = <<>>
    /\ route = "none"
    /\ inbuf = [p \in Ports |-> <<>>]
    /\ taken = [p \in Ports |-> NoWord]

-----------------------------------------------------------------------------
(* The parser *)

\* Mutant of PktHasRoom: a buffer that overruns.
PktHasRoomLate == Len(pkt) <= PktDepth

PktHasRoom == Len(pkt) < PktDepth

\* word = input_strm.read(); output_strm.write(word)
PassWord ==
    /\ rx.frame <= Len(wire)
    /\ PktHasRoom
    /\ pkt' = Append(pkt, rx)
    /\ rx' = NextWord(wire, rx)
    /\ UNCHANGED <<wire, prots, route, inbuf, taken>>

\* A header word that decides nothing yet.
HeaderWord(ph, n) ==
    /\ phase = ph
    /\ seen + 1 < n
    /\ PassWord
    /\ seen' = seen + 1
    /\ UNCHANGED <<phase, verdict>>

\* The last word of header ph: either another header follows, or the frame is
\* classified as v and the parser goes on to write the verdict.
EndOfHeader(ph, n) ==
    /\ phase = ph
    /\ seen + 1 = n
    /\ PassWord
    /\ seen' = 0

Continue(ph) == phase' = ph /\ UNCHANGED verdict
Classify(v)  == phase' = "prot" /\ verdict' = v

EtherType ==
    LET type == wire[rx.frame].ether
    IN  /\ EndOfHeader("eth", EthWords)
        /\ \/ type = "ARP" /\ Classify("ARP")
           \/ type = "IPv4" /\ Continue("ip")
           \/ type \notin {"ARP", "IPv4"} /\ Classify("OTHER")

IpProtocol ==
    LET proto == wire[rx.frame].proto
    IN  /\ EndOfHeader("ip", IpWords)
        /\ \/ proto = "ICMP" /\ Classify("ICMP")
           \/ proto = "UDP" /\ Continue("udp")
           \/ proto \notin {"ICMP", "UDP"} /\ Classify("OTHER")

\* Mutant of UdpPort: a datagram to an unknown port gets no verdict.
UdpPortSilent ==
    LET port == wire[rx.frame].port
    IN  /\ EndOfHeader("udp", UdpWords)
        /\ \/ port = 60000 /\ Classify("UDP_STRM")
           \/ port \in {50000, 40000} /\ Classify("UDP_REG")
           \/ port \notin {60000, 50000, 40000} /\ Continue("pass")

UdpPort ==
    LET port == wire[rx.frame].port
    IN  /\ EndOfHeader("udp", UdpWords)
        /\ \/ port = 60000 /\ Classify("UDP_STRM")
           \/ port \in {50000, 40000} /\ Classify("UDP_REG")
           \/ port \notin {60000, 50000, 40000} /\ Classify("OTHER")

\* prot_strm.write(...)
WriteProt ==
    /\ phase = "prot"
    /\ Len(prots) < ProtDepth
    /\ prots' = Append(prots, verdict)
    /\ phase' = "pass"
    /\ UNCHANGED <<wire, rx, seen, verdict, pkt, route, inbuf, taken>>

\* pass_stream: do ... while(word.last == 0), then the next invocation.
PassRest ==
    /\ phase = "pass"
    /\ PassWord
    /\ phase' = IF IsLast(wire, rx) THEN "eth" ELSE "pass"
    /\ UNCHANGED <<seen, verdict>>

Parser ==
    \/ HeaderWord("eth", EthWords)
    \/ HeaderWord("ip", IpWords)
    \/ HeaderWord("udp", UdpWords)
    \/ EtherType
    \/ IpProtocol
    \/ UdpPort
    \/ WriteProt
    \/ PassRest

-----------------------------------------------------------------------------
(* The distributer *)

\* detected_prot = prot_strm.read()
ReadProt ==
    /\ route = "none"
    /\ prots # <<>>
    /\ route' = Head(prots)
    /\ prots' = Tail(prots)
    /\ UNCHANGED <<wire, pkt, inbuf, taken>>
    /\ UNCHANGED parserVars

\* Mutants of NextRoute: an "if" for the do-while, and a loop that leaves the
\* last word of the frame behind.
NextRouteOnce  == "none"
NextRouteEarly ==
    IF Head(pkt).pos >= wire[Head(pkt).frame].len - 1 THEN "none" ELSE route

\* The do-while loop of pass_stream and discard_stream ends on TLAST.
NextRoute == IF IsLast(wire, Head(pkt)) THEN "none" ELSE route

\* Mutant of Distribute: a full input buffer drops the word.
DistributeLossy(p) ==
    /\ route = p
    /\ pkt # <<>>
    /\ inbuf' = IF Len(inbuf[p]) < PortDepth[p]
                THEN [inbuf EXCEPT ![p] = Append(@, Head(pkt))] ELSE inbuf
    /\ pkt' = Tail(pkt)
    /\ route' = NextRoute
    /\ UNCHANGED <<wire, prots, taken>>
    /\ UNCHANGED parserVars

\* pass_stream(input_strm, <the stream of core p>)
Distribute(p) ==
    /\ route = p
    /\ pkt # <<>>
    /\ Len(inbuf[p]) < PortDepth[p]
    /\ inbuf' = [inbuf EXCEPT ![p] = Append(@, Head(pkt))]
    /\ pkt' = Tail(pkt)
    /\ route' = NextRoute
    /\ UNCHANGED <<wire, prots, taken>>
    /\ UNCHANGED parserVars

\* discard_stream(input_strm)
Discard ==
    /\ route = "OTHER"
    /\ pkt # <<>>
    /\ pkt' = Tail(pkt)
    /\ route' = NextRoute
    /\ UNCHANGED <<wire, prots, inbuf, taken>>
    /\ UNCHANGED parserVars

Distributer ==
    \/ ReadProt
    \/ \E p \in Ports : Distribute(p)
    \/ Discard

-----------------------------------------------------------------------------
(* The protocol core behind port p reads a word from its input buffer. *)
Take(p) ==
    /\ inbuf[p] # <<>>
    /\ taken' = [taken EXCEPT ![p] = Head(inbuf[p])]
    /\ inbuf' = [inbuf EXCEPT ![p] = Tail(@)]
    /\ UNCHANGED <<wire, pkt, prots, route>>
    /\ UNCHANGED parserVars

Next ==
    \/ Parser
    \/ Distributer
    \/ \E p \in Ports : Take(p)

\* Every core is an ap_ctrl_none block that is restarted for ever and stalls
\* only on its streams.
Fairness ==
    /\ WF_vars(Parser)
    /\ WF_vars(Distributer)
    /\ \A p \in Ports : WF_vars(Take(p))

Safety == Init /\ [][Next]_vars
Spec   == Safety /\ Fairness

-----------------------------------------------------------------------------
(* Properties *)

TypeOK ==
    /\ wire \in Traffic
    /\ rx \in Word
    /\ phase \in Phases
    /\ seen \in Nat
    /\ verdict \in Prots
    /\ pkt \in Seq(Word) /\ Len(pkt) <= PktDepth
    /\ prots \in Seq(Prots) /\ Len(prots) <= ProtDepth
    /\ route \in Prots \cup {"none"}
    /\ inbuf \in [Ports -> Seq(Word)]
    /\ \A p \in Ports : Len(inbuf[p]) <= PortDepth[p]
    /\ taken \in [Ports -> Word]

\* The next word the distributer will read.
NextOut == IF pkt = <<>> THEN rx ELSE Head(pkt)

\* The last frame whose verdict the distributer has read, and the last one
\* whose verdict the parser has written.
RoutedUpTo     == IF route = "none" THEN NextOut.frame - 1 ELSE NextOut.frame
ClassifiedUpTo == IF phase = "pass" THEN rx.frame ELSE rx.frame - 1

\* The two FIFOs between parser and distributer carry no frame number: only
\* their order says which verdict belongs to which frame.  They never drift:
\* prot_fifo holds exactly the verdicts of the frames the parser has
\* classified and the distributer has not begun, in order, and the distributer
\* routes the frame in front of it by that frame's own verdict
\* (parser.cpp:42-79 against distributer.cpp:33-49).
VerdictsAligned ==
    /\ RoutedUpTo + Len(prots) = ClassifiedUpTo
    /\ \A j \in 1 .. Len(prots) : prots[j] = Class(wire[RoutedUpTo + j])
    /\ route # "none" => route = Class(wire[NextOut.frame])

\* The newest word that port p has been given.
Newest(p) == IF inbuf[p] = <<>> THEN taken[p] ELSE inbuf[p][Len(inbuf[p])]

\* What has left packet_buffer has arrived: at any moment only the port of the
\* frame being distributed holds an unfinished frame, up to the very word
\* before the next one, and every other port holds whole frames only and has
\* been given every earlier frame of its class (pass_stream and discard_stream
\* of network.cpp, distributer.cpp:35-48).
NothingLost ==
    \A p \in Ports :
        IF route = p /\ NextOut.pos > 1
        THEN Newest(p) = [frame |-> NextOut.frame, pos |-> NextOut.pos - 1]
        ELSE /\ Newest(p) = NoWord \/ IsLast(wire, Newest(p))
             /\ Newest(p).frame < NextOut.frame
             /\ \A g \in (Newest(p).frame + 1) .. (NextOut.frame - 1) :
                    Class(wire[g]) # p

\* The abstract specification, over the same wire and taken.
Router == INSTANCE FrameRouter

CanPass       == phase # "prot" /\ rx.frame <= Len(wire) /\ PktHasRoom
CanWriteProt  == phase = "prot" /\ Len(prots) < ProtDepth
CanReadProt   == route = "none" /\ prots # <<>>
CanDistribute == /\ route # "none" /\ pkt # <<>>
                 /\ route \in Ports => Len(inbuf[route]) < PortDepth[route]
CanTake       == \E p \in Ports : inbuf[p] # <<>>

NeverStuck ==
    \/ CanPass \/ CanWriteProt \/ CanReadProt \/ CanDistribute \/ CanTake
    \/ \A p \in Ports : Router!AllDelivered(p)

\* The work ahead: the frames and the words of the current one that the parser
\* has not passed, the verdict it is about to write, the verdicts and words
\* between it and the distributer, and the words in the input buffers.
WordsAhead == IF rx.frame <= Len(wire) THEN wire[rx.frame].len - rx.pos ELSE 0
Ahead ==
    <<Len(wire) + 1 - rx.frame, WordsAhead, IF phase = "prot" THEN 1 ELSE 0,
      Len(prots), Len(pkt), Len(inbuf["ARP"]), Len(inbuf["ICMP"]),
      Len(inbuf["UDP_STRM"]), Len(inbuf["UDP_REG"])>>

\* Parser and distributer wait for each other through two bounded FIFOs: the
\* parser may block on a full packet_buffer before it has written the verdict
\* the distributer is waiting for.  They never block for good and never turn in
\* circles: until every core has all its frames one of the processes can take a
\* step, and the path comes to rest after finitely many steps, in whatever order
\* they are taken (parser.cpp:26-79, distributer.cpp:33-49).
ComesToRest ==
    /\ [](NeverStuck /\ Ahead \in Seq(Nat))
    /\ [][Below(Ahead', Ahead)]_vars

\* The receive path implements the router: each core is given exactly the
\* words of the frames of its class, in order (safety), and in the end all of
\* them, whatever the other ports carry (progress, under Fairness).
ImplementsRouter == Router!Safety
DeliversAll      == Router!Progress

-----------------------------------------------------------------------------
(* The inductive invariant behind these properties *)

\* The parser's loop counters agree with its place in the frame, although the
\* code never looks at TLAST before pass_stream.
ParserInv ==
    /\ rx.frame \in 1 .. Len(wire) + 1
    /\ rx.pos >= 1
    /\ rx.frame <= Len(wire) => rx.pos <= wire[rx.frame].len
    /\ rx.frame > Len(wire) => phase = "eth" /\ rx.pos = 1
    /\ phase = "eth" => seen < EthWords /\ rx.pos = seen + 1
    /\ phase = "ip" => /\ seen < IpWords /\ rx.pos = EthWords + seen + 1
                       /\ wire[rx.frame].ether = "IPv4"
    /\ phase = "udp" => /\ seen < UdpWords
                        /\ rx.pos = EthWords + IpWords + seen + 1
                        /\ wire[rx.frame].ether = "IPv4"
                        /\ wire[rx.frame].proto = "UDP"
    /\ phase \in {"prot", "pass"} => seen = 0
    /\ phase = "prot" => /\ rx.pos <= HdrWords + 1
                         /\ verdict = Class(wire[rx.frame])

\* packet_buffer holds consecutive words, up to the one before rx.
PktInv ==
    \A j \in 1 .. Len(pkt) :
        /\ pkt[j] \in WordsOf(wire)
        /\ NextWord(wire, pkt[j]) = IF j < Len(pkt) THEN pkt[j + 1] ELSE rx
        /\ pkt[j].frame <= rx.frame
        /\ pkt[j].frame = rx.frame => pkt[j].pos + (Len(pkt) - j) + 1 = rx.pos

\* The distributer waits for a verdict only between frames.
RouteInv == route = "none" => NextOut.pos = 1

\* Every input buffer continues the stream its core has read so far.
InbufInv ==
    \A p \in Ports : \A j \in 1 .. Len(inbuf[p]) :
        Follows(wire, p, IF j = 1 THEN taken[p] ELSE inbuf[p][j - 1], inbuf[p][j])

IInv ==
    /\ TypeOK
    /\ ParserInv
    /\ PktInv
    /\ RouteInv
    /\ VerdictsAligned
    /\ InbufInv
    /\ NothingLost
=============================================================================
