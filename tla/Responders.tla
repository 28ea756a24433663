----------------------------- MODULE Responders -----------------------------
(***************************************************************************)
(* The three cores that answer frames themselves: arp, icmp and udp_reg.   *)
(* Each reads one frame from its input buffer, perhaps writes one reply to *)
(* its output buffer, and is started again for ever.                       *)
(*                                                                         *)
(* Sources: HLS/arp/arp.cpp, HLS/icmp/icmp.cpp, HLS/udp_reg/udp_reg.cpp    *)
(* and the helpers of HLS/network.cpp they call.                           *)
(*                                                                         *)
(* Nothing on the input stream tells a core where a frame starts.  It      *)
(* reads its headers, and the register entries, by count and without       *)
(* looking at TLAST; only the loops that drain, pass or discard a frame    *)
(* look at it.  A run of reads by count is one action, as is a run of      *)
(* writes; the loops that look at TLAST take one word at a time.           *)
(*                                                                         *)
(* The cores share nothing, so a behaviour follows one of them.            *)
(***************************************************************************)
EXTENDS Naturals, Sequences, Descent

CONSTANTS
    Cases,     \* what may happen: a core and the frames it is given
    MyIp,      \* the register ip_addr
    MyMac,     \* the registers mac_addr_lo and mac_addr_hi
    Words      \* the 32-bit words behind reg_space

\* Octets of the headers (network.h), and of the smallest frame of the MAC.
EthHdr == 14
IpHdr  == 20
UdpHdr == 8
ArpPkt == 28
MinFrame == 60
DataBuf == 1536     \* octets of data_buf in udp_reg

\* Octets of an entry of a register request.
EntryLen(f) == IF f.kind = "read" THEN 4 ELSE 8

\* The octets of a frame the fields and the payload of a request need.
Needs(core, f) ==
    CASE core = "arp"     -> EthHdr + ArpPkt
      [] core = "icmp"    -> EthHdr + IpHdr + f.opts + 4
      [] core = "udp_reg" -> EthHdr + IpHdr + UdpHdr
                                + EntryLen(f) * Len(f.entries)

Max2(a, b) == IF a >= b THEN a ELSE b

\* reg_space[reg_addr >> 2]
WordOf(addr) == addr \div 4

\* What a frame may ask of each core.
Kinds == [arp |-> {"request", "reply"}, icmp |-> {"echo", "other"},
          udp_reg |-> {"read", "write"}]

\* A frame as the parser and the distributer hand it to a core: whole, at least
\* as long as the MAC's minimum, an ICMP message with a body, a register request
\* with at least one entry and no more than data_buf holds, each naming a word
\* behind reg_space, unfragmented, and as long as its headers say.  udp_reg checks
\* none of what is asked of a register request.
IsFrame(c, f) ==
    /\ f.kind \in Kinds[c]
    /\ {f.len, f.opts, f.total, Len(f.entries)} \subseteq Nat
    /\ f.len >= Max2(MinFrame, Needs(c, f))
    /\ c = "icmp" => f.len > Needs(c, f)
    /\ c = "udp_reg" =>
          /\ Len(f.entries) \in 1 .. DataBuf \div 8
          /\ \A i \in 1 .. Len(f.entries) :
                /\ f.entries[i].addr \in Nat /\ WordOf(f.entries[i].addr) \in Words
                /\ f.kind = "write" => f.entries[i].data \in Nat
          /\ f.kind = "read" => f.total = IpHdr + UdpHdr + 4 * Len(f.entries)

ASSUME CasesAssumption ==
    \A c \in Cases :
        /\ c.core \in {"arp", "icmp", "udp_reg"}
        /\ Len(c.frames) \in Nat
        /\ \A n \in 1 .. Len(c.frames) : IsFrame(c.core, c.frames[n])

VARIABLES
    core,     \* which core this is
    frames,   \* the frames of its input buffer
    pos,      \* how many words it has read
    phase,    \* where it is in its code
    req,      \* the request it works on, and the entry it has come to
    buf,      \* data_buf: the addresses and values collected
    mem,      \* the registers
    open,     \* the words written since the last TLAST: [heads, words, body]
    sent,     \* the packets written, each ended by its TLAST
    done      \* history: how often the core has been restarted

vars == <<core, frames, pos, phase, req, buf, mem, open, sent, done>>

Nothing == [heads |-> <<>>, words |-> 0, body |-> <<>>]

Init ==
    /\ \E c \in Cases : core = c.core /\ frames = c.frames
    /\ pos = 0
    /\ phase = "headers"
    /\ req = [n |-> 0, next |-> 1]
    /\ buf = <<>>
    /\ mem = [w \in Words |-> 0]
    /\ open = Nothing
    /\ sent = <<>>
    /\ done = 0

-----------------------------------------------------------------------------
(* The streams *)

\* End[n]: the words of the first n frames.  Word End[n] carries TLAST.
End == LET end[n \in 0 .. Len(frames)] ==
               IF n = 0 THEN 0 ELSE end[n - 1] + frames[n].len
       IN  end

LastWord(p) == \E n \in 1 .. Len(frames) : End[n] = p

\* The frame that word p of the input belongs to.
FrameOfWord(p) == CHOOSE n \in 1 .. Len(frames) : p \in (End[n - 1] + 1) .. End[n]

\* n more words have been delivered.
Given(n) == pos + n <= End[Len(frames)]

\* n reads without a look at TLAST; the core waits if the words are not there.
Read(n) ==
    /\ Given(n)
    /\ pos' = pos + n

R == frames[req.n]

\* Restart: the function returns and starts over (ap_ctrl_none).
Restart ==
    /\ phase' = "headers"
    /\ done' = done + 1
    /\ req' = [n |-> 0, next |-> 1]
    /\ buf' = <<>>

Goto(p) == phase' = p /\ UNCHANGED <<req, buf, done>>

\* The open packet with n more words, among them the headers hs and the body b.
With(hs, n, b) == [heads |-> open.heads \o hs, words |-> open.words + n, body |-> open.body \o b]

\* A packet that ends with a TLAST.
WriteLast(p) == sent' = Append(sent, p) /\ open' = Nothing

-----------------------------------------------------------------------------
(* Reading the headers *)

\* The condition under which arp and icmp answer.
Mine == R.kind \in {"request", "echo"} /\ R.dst = MyIp

\* The words a core reads of frame f before it looks at anything.
HeadLen(f) == CASE core = "arp" -> EthHdr + ArpPkt
                [] core = "icmp" -> EthHdr + IpHdr + f.opts + 4
                [] core = "udp_reg" -> EthHdr + IpHdr + UdpHdr

\* What the headers hold is the frame their first word belongs to.
ReadHeaders ==
    /\ phase = "headers"
    /\ pos < End[Len(frames)]
    /\ LET n == FrameOfWord(pos + 1)
       IN  /\ req' = [n |-> n, next |-> 1]
           /\ Read(HeadLen(frames[n]))
    /\ phase' = CASE core = "arp" -> "drain"
                  [] core = "icmp" -> "decide"
                  [] core = "udp_reg" -> "entries"
    /\ UNCHANGED <<core, frames, buf, mem, open, sent, done>>

\* Mutant of Drain: the padding of the frame is not read.
DrainNot ==
    /\ phase = "drain"
    /\ Goto("decide")
    /\ UNCHANGED <<core, frames, pos, mem, open, sent>>

\* while(word.last == 0) at the end of read_arp_packet
Drain ==
    /\ phase = "drain"
    /\ IF LastWord(pos) THEN Goto("decide") /\ UNCHANGED pos
                        ELSE Read(1) /\ UNCHANGED <<phase, req, buf, done>>
    /\ UNCHANGED <<core, frames, mem, open, sent>>

-----------------------------------------------------------------------------
(* arp and icmp *)

\* What the headers of a reply say: who it is for, from, and how long it is.
Heading(total) == [toMac |-> R.mac, fromMac |-> MyMac, to |-> R.src, from |-> MyIp,
                total |-> total]

\* arp: a request for this board is answered, other packets are ignored.
ArpAnswer ==
    /\ core = "arp" /\ phase = "decide"
    /\ IF Mine
       THEN WriteLast(With(<<Heading(ArpPkt)>>, EthHdr + ArpPkt, <<>>))
       ELSE UNCHANGED <<open, sent>>
    /\ Restart
    /\ UNCHANGED <<core, frames, pos, mem>>

\* icmp: the headers of the reply, or a frame to discard.
IcmpAnswer ==
    /\ core = "icmp" /\ phase = "decide"
    /\ IF Mine
       THEN /\ open' = With(<<Heading(R.total)>>, EthHdr + IpHdr + R.opts + 4, <<>>)
            /\ Goto("pass")
       ELSE Goto("discard") /\ UNCHANGED open
    /\ UNCHANGED <<core, frames, pos, mem, sent>>

\* Mutant of Pass: the test looks at the word before.
PassOneMore ==
    /\ phase = "pass"
    /\ Read(1)
    /\ IF LastWord(pos)
       THEN WriteLast(With(<<>>, 1, <<>>)) /\ Restart
       ELSE /\ open' = With(<<>>, 1, <<>>)
            /\ UNCHANGED <<phase, req, buf, sent, done>>
    /\ UNCHANGED <<core, frames, mem>>

\* pass_stream: the rest of the echo request is the rest of the reply.
Pass ==
    /\ phase = "pass"
    /\ Read(1)
    /\ IF LastWord(pos + 1)
       THEN WriteLast(With(<<>>, 1, <<>>)) /\ Restart
       ELSE /\ open' = With(<<>>, 1, <<>>)
            /\ UNCHANGED <<phase, req, buf, sent, done>>
    /\ UNCHANGED <<core, frames, mem>>

\* discard_stream
Discard ==
    /\ phase = "discard"
    /\ Read(1)
    /\ IF LastWord(pos + 1) THEN Restart ELSE UNCHANGED <<phase, req, buf, done>>
    /\ UNCHANGED <<core, frames, mem, open, sent>>

-----------------------------------------------------------------------------
(* udp_reg *)

\* Mutant of MoreEntries: the loop ends one entry early.
MoreEntriesButOne == req.next < Len(R.entries)

\* i < udp_header.len
MoreEntries == req.next <= Len(R.entries)

\* Port 50000: an address and a value, written to the register.
WriteRegister ==
    /\ phase = "entries" /\ R.kind = "write"
    /\ MoreEntries
    /\ Read(8)
    /\ mem' = [mem EXCEPT ![WordOf(R.entries[req.next].addr)] = R.entries[req.next].data]
    /\ req' = [req EXCEPT !.next = @ + 1]
    /\ UNCHANGED <<core, frames, phase, buf, open, sent, done>>

\* Port 40000: an address; it goes to data_buf with the value of the register.
ReadRegister ==
    /\ phase = "entries" /\ R.kind = "read"
    /\ MoreEntries
    /\ Read(4)
    /\ LET a == R.entries[req.next].addr
       IN  buf' = Append(buf, [addr |-> a, data |-> mem[WordOf(a)]])
    /\ req' = [req EXCEPT !.next = @ + 1]
    /\ UNCHANGED <<core, frames, phase, mem, open, sent, done>>

EndOfWrites ==
    /\ phase = "entries" /\ R.kind = "write"
    /\ ~MoreEntries
    /\ Goto("check")
    /\ UNCHANGED <<core, frames, pos, mem, open, sent>>

BufCnt == 8 * Len(buf)

\* Mutant of GrownLength: the whole of buf_cnt is added.
GrownLengthTwice == R.total + BufCnt

\* ip_header.total_length += buf_cnt/2: the request held half of buf_cnt.
GrownLength == R.total + BufCnt \div 2

\* The headers of the reply, with the addresses of the request swapped.
RegHeading == [toMac |-> R.mac, fromMac |-> R.dmac, to |-> R.src, from |-> R.dst,
               total |-> GrownLength, udpLen |-> UdpHdr + BufCnt]

\* The reply: headers, then data_buf with TLAST on its last byte.
Respond ==
    /\ phase = "entries" /\ R.kind = "read"
    /\ ~MoreEntries
    /\ LET all == With(<<RegHeading>>, EthHdr + IpHdr + UdpHdr + BufCnt, buf)
       IN  IF BufCnt > 0 THEN WriteLast(all) ELSE open' = all /\ UNCHANGED sent
    /\ Goto("check")
    /\ UNCHANGED <<core, frames, pos, mem>>

\* Mutant of CheckLast: the rest of the frame is discarded in any case.
CheckLastNot ==
    /\ phase = "check"
    /\ Goto("discard")
    /\ UNCHANGED <<core, frames, pos, mem, open, sent>>

\* if(!word.last): what is left of the frame is padding.
CheckLast ==
    /\ phase = "check"
    /\ IF LastWord(pos) THEN Restart ELSE Goto("discard")
    /\ UNCHANGED <<core, frames, pos, mem, open, sent>>

-----------------------------------------------------------------------------

Next ==
    \/ ReadHeaders \/ Drain
    \/ ArpAnswer
    \/ IcmpAnswer \/ Pass \/ Discard
    \/ WriteRegister \/ ReadRegister \/ EndOfWrites \/ Respond \/ CheckLast

\* A core is a piece of hardware: it goes on whenever it can.
Spec == Init /\ [][Next]_vars /\ WF_vars(Next)

-----------------------------------------------------------------------------
(* Properties *)

Packet(p) ==
    /\ DOMAIN p = {"heads", "words", "body"}
    /\ p.words \in Nat
    /\ \A i \in 1 .. Len(p.body) : p.body[i].addr \in Nat

TypeOK ==
    /\ pos \in 0 .. End[Len(frames)]
    /\ phase \in {"headers", "drain", "decide", "pass", "discard", "entries", "check"}
    /\ req.n \in 0 .. Len(frames) /\ (req.n = 0 <=> phase = "headers")
    /\ phase = "entries" => BufCnt <= 8 * (req.next - 1)
    /\ mem \in [Words -> Nat]
    /\ Packet(open) /\ \A i \in 1 .. Len(sent) : Packet(sent[i])
    /\ done \in 0 .. Len(frames)

\* The words the core's next step reads without a look at TLAST.
Wanted ==
    CASE phase = "headers"            -> HeadLen(frames[FrameOfWord(pos + 1)])
      [] phase = "drain"              -> IF LastWord(pos) THEN 0 ELSE 1
      [] phase \in {"pass", "discard"} -> 1
      [] phase = "entries"            -> IF MoreEntries THEN EntryLen(R) ELSE 0
      [] OTHER                        -> 0

\* Whatever path a core took through a frame (answered, ignored, discarded,
\* with or without padding), it is at the first word of the next frame when it
\* is started again; until then its next read, whether it counts words or looks
\* at TLAST, ends inside the frame it is in, so that it never waits for words the
\* frame does not have (network.cpp:84-102, 425; icmp.cpp:98-101; udp_reg.cpp:44,
\* 70, 128).
Synced ==
    /\ phase = "headers" =>
          /\ pos = End[done]
          /\ done < Len(frames) => pos + Wanted <= End[done + 1]
    /\ phase # "headers" => req.n = done + 1 /\ pos + Wanted <= End[done + 1]

\* The frames that are to be answered.
Answered(n) ==
    CASE core = "arp"     -> frames[n].kind = "request" /\ frames[n].dst = MyIp
      [] core = "icmp"    -> frames[n].kind = "echo" /\ frames[n].dst = MyIp
      [] core = "udp_reg" -> frames[n].kind = "read"

\* The values the writes of f leave in the registers m.
WrittenBy(f, m) ==
    LET writes(w) == {i \in 1 .. Len(f.entries) : WordOf(f.entries[i].addr) = w}
        latest(w) == CHOOSE i \in writes(w) : \A j \in writes(w) : j <= i
    IN  [w \in Words |-> IF f.kind = "write" /\ writes(w) # {}
                         THEN f.entries[latest(w)].data ELSE m[w]]

\* The registers after the first n frames.
RegistersAfter ==
    LET after[n \in 0 .. Len(frames)] ==
            IF n = 0 THEN [w \in Words |-> 0] ELSE WrittenBy(frames[n], after[n - 1])
    IN  after

\* The one packet that answers frame n: addressed back to its sender, as long
\* as its headers say, with the values the registers had when the frame came.
Answer(n) ==
    LET f == frames[n]
    IN  CASE core = "arp" ->
               [heads |-> <<[toMac |-> f.mac, fromMac |-> MyMac, to |-> f.src, from |-> MyIp,
                             total |-> ArpPkt]>>,
                words |-> EthHdr + ArpPkt, body |-> <<>>]
          [] core = "icmp" ->
               [heads |-> <<[toMac |-> f.mac, fromMac |-> MyMac, to |-> f.src, from |-> MyIp,
                             total |-> f.total]>>,
                words |-> f.len, body |-> <<>>]
          [] core = "udp_reg" ->
               LET total == IpHdr + UdpHdr + 8 * Len(f.entries)
               IN  [heads |-> <<[toMac |-> f.mac, fromMac |-> f.dmac, to |-> f.src,
                                 from |-> f.dst, total |-> total, udpLen |-> total - IpHdr]>>,
                    words |-> EthHdr + total,
                    body  |-> [i \in 1 .. Len(f.entries) |->
                                  [addr |-> f.entries[i].addr,
                                   data |-> RegistersAfter[n - 1][WordOf(f.entries[i].addr)]]]]

\* The answers to the first n frames.
AnswersTo ==
    LET to[n \in 0 .. Len(frames)] ==
            IF n = 0 THEN <<>>
            ELSE IF Answered(n) THEN Append(to[n - 1], Answer(n)) ELSE to[n - 1]
    IN  to

\* Every request for the board is answered by exactly one packet, in the order
\* of the requests, ended by its TLAST before the next one begins, as long as
\* its own headers say and with the values the registers had when the request
\* came; nothing else is written (arp.cpp:40-57, icmp.cpp:64-102,
\* udp_reg.cpp:68-125).
AnswersExactly ==
    /\ \/ sent = AnswersTo[done]
       \/ phase \in {"check", "discard"} /\ sent = AnswersTo[done + 1]
    /\ phase = "headers" => open = Nothing

\* Between two frames the registers hold what the write requests so far have
\* written, the later entry of a datagram before the earlier (udp_reg.cpp:43-67).
RegistersHold == phase = "headers" => mem = RegistersAfter[done]

\* A core can take a step, or it has served all its frames.
NeverStuck ==
    \/ phase = "headers" /\ Given(1) /\ Given(Wanted)
    \/ phase = "drain" /\ (LastWord(pos) \/ Given(1))
    \/ phase = "decide" /\ core \in {"arp", "icmp"}
    \/ phase \in {"pass", "discard"} /\ Given(1)
    \/ phase = "entries" /\ R.kind \in {"read", "write"} /\ (MoreEntries => Given(EntryLen(R)))
    \/ phase = "check"
    \/ phase = "headers" /\ done = Len(frames) /\ pos = End[Len(frames)]

\* The work ahead: frames, words, and parts of the code that follow one another
\* without a read.
PartsAhead == CASE phase \in {"drain", "entries"} -> 3
                [] phase \in {"decide", "check"}  -> 2
                [] phase \in {"pass", "discard"}  -> 1
                [] phase = "headers"              -> 0
Ahead == <<Len(frames) - done, End[Len(frames)] - pos, PartsAhead>>

\* A core neither waits for ever in the middle of a frame, whether it counts words
\* or looks at TLAST, nor goes round for ever in one: until all frames are served
\* it has a step to take, and every step leaves less to do (network.cpp:84-102,
\* 425; udp_reg.cpp:44, 70, 128).
ComesToRest ==
    /\ [](NeverStuck /\ Ahead \in Seq(Nat))
    /\ [][Below(Ahead', Ahead)]_vars

\* Every frame is served: the core never waits in the middle of one for words
\* that will not come (network.cpp:84-102, 425; udp_reg.cpp:128).
AllServed == <>[](phase = "headers" /\ done = Len(frames) /\ pos = End[Len(frames)])
=============================================================================
