----------------------------- MODULE UdpStream -----------------------------
(***************************************************************************)
(* The UDP streaming path: udp_depacketizer strips the headers of the      *)
(* datagrams for port 60000, remembers their sender in two wires and       *)
(* streams the rest into raw_data_buf; a core turns blocks of raw bytes    *)
(* into blocks of processed bytes; udp_packetizer collects up to Cap of    *)
(* those in data_buf and sends them to the sender on the wires.            *)
(*                                                                         *)
(* Sources: HLS/udp_depacketizer/udp_depacketizer.cpp,                     *)
(* HLS/udp_packetizer/udp_packetizer.cpp, mb_bd.tcl:661-662.               *)
(*                                                                         *)
(* A processed byte goes by the name of the raw byte whose place it has    *)
(* taken in the stream, the position k in the k-th datagram: which numbers *)
(* the ciphers compute is not the question here.                           *)
(***************************************************************************)
EXTENDS Naturals, Sequences, Descent

CONSTANTS
    Clients,    \* the hosts that send datagrams
    NoClient,   \* what the wires carry before the first datagram
    Traffic,    \* the sequences of datagrams that may arrive
    Cap,        \* size of data_buf (1024)
    Block,      \* bytes per block of the selected core (8 or 16)
    RawDepth,   \* depth of raw_data_buf (2048)
    EncDepth    \* depth of enc_data_buf (2048)

\* A datagram: its sender, the bytes of its payload, and the bytes the MAC
\* adds to it to reach 60 octets.
Datagram == {g \in [client : Clients, len : Nat, pad : Nat] : g.len + g.pad > 0}

ASSUME UdpAssumption ==
    /\ NoClient \notin Clients
    /\ Traffic \subseteq Seq(Datagram)
    /\ {Cap, Block, RawDepth, EncDepth} \subseteq Nat \ {0}
    /\ Block <= RawDepth /\ Block <= EncDepth

VARIABLES
    rcv,        \* the datagrams of udp_rcv_buf, fixed for a behaviour
    dphase,     \* where the depacketizer is
    at,         \* the next byte it will read
    dstIp,      \* dst_ip_addr
    dstMac,     \* dst_mac_addr
    raw,        \* raw_data_buf
    enc,        \* enc_data_buf
    pphase,     \* where the packetizer is
    buf,        \* data_buf
    heads,      \* the headers written: [ip, mac, len, from]
    out,        \* the payload words written: [byte, last]
    stray       \* what the build leaves in a MAC address no code assigns

depackVars == <<rcv, dphase, at, dstIp, dstMac>>
packVars   == <<pphase, buf, heads, out, stray>>
vars == <<rcv, dphase, at, dstIp, dstMac, raw, enc, pphase, buf, heads, out,
          stray>>

Byte == [d : Nat, k : Nat]

\* Byte b carries the TLAST of its datagram in traffic t.
IsLast(t, b) == b.k = t[b.d].len + t[b.d].pad

\* The byte after b: net::pass_stream goes by TLAST, not by the UDP length.
NextByte(t, b) == IF IsLast(t, b) THEN [d |-> b.d + 1, k |-> 1]
                                  ELSE [b EXCEPT !.k = @ + 1]

Init ==
    /\ rcv \in Traffic
    /\ dphase = "headers"
    /\ at = [d |-> 1, k |-> 1]
    /\ dstIp = NoClient
    /\ dstMac = NoClient
    /\ raw = <<>>
    /\ enc = <<>>
    /\ pphase = "fill"
    /\ buf = <<>>
    /\ heads = <<>>
    /\ out = <<>>
    /\ stray \in Clients \cup {NoClient}

-----------------------------------------------------------------------------
(* udp_depacketizer *)

\* read_ethernet_header, read_ip_header, read_udp_header
CanRead == dphase = "headers" /\ at.d <= Len(rcv)

ReadHeaders ==
    /\ CanRead
    /\ dphase' = "ip"
    /\ UNCHANGED <<rcv, at, dstIp, dstMac, raw, enc, packVars>>

\* Mutant of SetDstIp: the sender of the first datagram is kept.
SetDstIpOnce ==
    /\ dphase = "ip"
    /\ dstIp' = IF dstIp = NoClient THEN rcv[at.d].client ELSE dstIp
    /\ dphase' = "mac"
    /\ UNCHANGED <<rcv, at, dstMac, raw, enc, packVars>>

\* *dst_ip_addr = ip_header.src_ip
SetDstIp ==
    /\ dphase = "ip"
    /\ dstIp' = rcv[at.d].client
    /\ dphase' = "mac"
    /\ UNCHANGED <<rcv, at, dstMac, raw, enc, packVars>>

\* *dst_mac_addr = ethernet_header.src_mac_addr
SetDstMac ==
    /\ dphase = "mac"
    /\ dstMac' = rcv[at.d].client
    /\ dphase' = "pass"
    /\ UNCHANGED <<rcv, at, dstIp, raw, enc, packVars>>

CanPass == dphase = "pass" /\ Len(raw) < RawDepth

\* net::pass_stream(input_strm, output_strm)
PassByte ==
    /\ CanPass
    /\ raw' = Append(raw, at)
    /\ at' = NextByte(rcv, at)
    /\ dphase' = IF IsLast(rcv, at) THEN "headers" ELSE "pass"
    /\ UNCHANGED <<rcv, dstIp, dstMac, enc, packVars>>

Depacketizer == ReadHeaders \/ SetDstIp \/ SetDstMac \/ PassByte

-----------------------------------------------------------------------------
\* Mutant of CanProcess: the core waits for one byte more than a block.
CanProcessLate == Len(raw) > Block /\ Len(enc) + Block <= EncDepth

CanProcess == Len(raw) >= Block /\ Len(enc) + Block <= EncDepth

\* The selected core takes a whole block and gives a whole block.
Process ==
    /\ CanProcess
    /\ enc' = enc \o SubSeq(raw, 1, Block)
    /\ raw' = SubSeq(raw, Block + 1, Len(raw))
    /\ UNCHANGED <<depackVars, packVars>>

-----------------------------------------------------------------------------
(* udp_packetizer *)

CanFill == pphase = "fill" /\ enc # <<>>

\* Mutant of Fill: the payload buffering loop takes one byte more than
\* data_buf has.
FillOver ==
    /\ CanFill
    /\ buf' = Append(buf, Head(enc))
    /\ enc' = Tail(enc)
    /\ \E last \in BOOLEAN :
          pphase' = IF last \/ Len(buf) = Cap THEN "header" ELSE "fill"
    /\ UNCHANGED <<depackVars, raw, heads, out, stray>>

\* Mutant of Fill: the loop breaks before it has stored the word.
FillBreakFirst ==
    /\ CanFill
    /\ enc' = Tail(enc)
    /\ \E last \in BOOLEAN :
          /\ buf' = IF last THEN buf ELSE Append(buf, Head(enc))
          /\ pphase' = IF last \/ Len(buf) + 1 = Cap THEN "header" ELSE "fill"
    /\ UNCHANGED <<depackVars, raw, heads, out, stray>>

\* An iteration of payload_buffering_loop.  The cores write no TLAST and the
\* repository does not say what the switch between makes of that: word.last
\* may have any value.
Fill ==
    /\ CanFill
    /\ buf' = Append(buf, Head(enc))
    /\ enc' = Tail(enc)
    /\ \E last \in BOOLEAN :
          pphase' = IF last \/ Len(buf) + 1 = Cap THEN "header" ELSE "fill"
    /\ UNCHANGED <<depackVars, raw, heads, out, stray>>

\* Mutant of WriteHeaders: the length is the index of the last byte, not the
\* count.
WriteHeadersShort ==
    /\ pphase = "header"
    /\ heads' = Append(heads, [ip |-> dstIp, mac |-> stray, len |-> Len(buf) - 1 + 8,
                               from |-> Len(out) + 1])
    /\ pphase' = "body"
    /\ UNCHANGED <<depackVars, raw, enc, buf, out, stray>>

\* The headers are filled in and written.  ethernet_header.dst_mac_addr is
\* never assigned.
WriteHeaders ==
    /\ pphase = "header"
    /\ heads' = Append(heads, [ip |-> dstIp, mac |-> stray, len |-> Len(buf) + 8,
                               from |-> Len(out) + 1])
    /\ pphase' = "body"
    /\ UNCHANGED <<depackVars, raw, enc, buf, out, stray>>

\* The header of the packet being written, and the index i of output_strm_loop.
Head_ == heads[Len(heads)]
BodyIndex == Len(out) + 1 - Head_.from + 8

\* Mutant of WriteBody: TLAST one word early, as if len did not count the
\* header's eight bytes in full.
WriteBodyShort ==
    /\ pphase = "body"
    /\ LET last == BodyIndex = Head_.len - 1 \/ BodyIndex = Head_.len - 2
       IN  /\ out' = Append(out, [byte |-> buf[BodyIndex - 7], last |-> last])
           /\ pphase' = IF last THEN "fill" ELSE "body"
           /\ buf' = IF last THEN <<>> ELSE buf
    /\ UNCHANGED <<depackVars, raw, enc, heads, stray>>

\* An iteration of output_strm_loop; then the next invocation.
WriteBody ==
    /\ pphase = "body"
    /\ LET last == BodyIndex = Head_.len - 1
       IN  /\ out' = Append(out, [byte |-> buf[BodyIndex - 7], last |-> last])
           /\ pphase' = IF last THEN "fill" ELSE "body"
           /\ buf' = IF last THEN <<>> ELSE buf
    /\ UNCHANGED <<depackVars, raw, enc, heads, stray>>

Packetizer == Fill \/ WriteHeaders \/ WriteBody

Next == Depacketizer \/ Process \/ Packetizer

\* The cores are ap_ctrl_none blocks that restart for ever.
Fairness == WF_vars(Depacketizer) /\ WF_vars(Process) /\ WF_vars(Packetizer)

Spec == Init /\ [][Next]_vars /\ Fairness

-----------------------------------------------------------------------------
(* Properties *)

TypeOK ==
    /\ rcv \in Traffic
    /\ dphase \in {"headers", "ip", "mac", "pass"}
    /\ at \in Byte
    /\ {dstIp, dstMac} \subseteq Clients \cup {NoClient}
    /\ raw \in Seq(Byte) /\ Len(raw) <= RawDepth
    /\ enc \in Seq(Byte) /\ Len(enc) <= EncDepth
    /\ pphase \in {"fill", "header", "body"}
    /\ buf \in Seq(Byte) /\ Len(buf) <= Cap
    /\ heads \in Seq([ip : Clients \cup {NoClient}, mac : Clients \cup {NoClient},
                      len : 9 .. Cap + 8, from : Nat \ {0}])
    /\ out \in Seq([byte : Byte, last : BOOLEAN])
    /\ stray \in Clients \cup {NoClient}

\* What data_buf still has to give: all of it, or what output_strm_loop has not
\* written yet.
Unsent == IF pphase = "body" THEN SubSeq(buf, BodyIndex - 7, Len(buf)) ELSE buf

\* All bytes on their way, oldest first.
Flow == [i \in 1 .. Len(out) |-> out[i].byte] \o Unsent \o enc \o raw

\* Between the network and the network no byte is lost, repeated or overtaken:
\* what has been sent, data_buf, the two FIFOs and the next byte to come are
\* one unbroken run of the stream (udp_depacketizer.cpp:42,
\* udp_packetizer.cpp:44-62 and 116-122: data_buf is reused for every packet
\* and indexed by two different counters).
Unbroken ==
    \A i \in 1 .. Len(Flow) :
        /\ i = 1 => Flow[i] = [d |-> 1, k |-> 1]
        /\ NextByte(rcv, Flow[i]) = IF i < Len(Flow) THEN Flow[i + 1] ELSE at

\* The payload words of packet j, as its header counts them.
PayloadOf(j) == heads[j].from .. heads[j].from + heads[j].len - 9

\* Header and stream agree on every packet: it has at least one payload byte
\* and no more than data_buf can hold, exactly as many as its UDP length says,
\* TLAST on the last of them and on no other, and the next packet follows
\* immediately (udp_packetizer.cpp:42-62, 116-122).
Framed ==
    \A j \in 1 .. Len(heads) :
        /\ heads[j].len - 8 \in 1 .. Cap
        /\ \A i \in PayloadOf(j) : i <= Len(out) =>
              (out[i].last <=> i = heads[j].from + heads[j].len - 9)
        /\ heads[j].from = IF j = 1 THEN 1 ELSE heads[j - 1].from + heads[j - 1].len - 8

\* The destination of a packet is never older than its data, and newer only by
\* what has arrived meanwhile: it is the sender of the datagram its last byte
\* came from, or of a later one whose headers the depacketizer has read by then
\* (udp_depacketizer.cpp:39-42 against udp_packetizer.cpp:80).  An answer goes to
\* a stranger only if the stranger's datagram has overtaken it in the wires, and
\* never while one client is being served.
Addressed ==
    pphase = "header" =>
        \E d \in buf[Len(buf)].d .. at.d : d <= Len(rcv) /\ dstIp = rcv[d].client

\* Words of the packet being written that output_strm_loop has still to write.
ToGo == IF pphase = "body" THEN Head_.len - BodyIndex ELSE 0

\* The packets as their headers announce them.
Packets == [j \in 1 .. Len(heads) |-> [to |-> heads[j].ip, size |-> heads[j].len - 8]]

Path == INSTANCE Repacketizer
    WITH wire    <- rcv,
         taken   <- Flow,
         packets <- Packets,
         left    <- ToGo,
         given   <- out

\* The three blocks, their FIFOs and the two wires together are a repacketizer:
\* no header goes out before its payload has arrived, and every word written is
\* the next byte of the stream under the header that announced it
\* (udp_depacketizer.cpp:35-42, udp_packetizer.cpp:42-122).
ImplementsRepacketizer == Path!Safety

\* All that has arrived has been sent but for a tail: less than a block in the
\* core and less than a packet in data_buf.
TailOnly ==
    /\ at.d > Len(rcv) /\ Len(raw) < Block
    /\ enc = <<>> /\ pphase = "fill" /\ Len(buf) < Cap

\* In the end only a tail is held back.
AllButTail == <>[]TailOnly

\* The blocks wait for each other through two bounded FIFOs.
NeverStuck ==
    \/ CanRead \/ dphase \in {"ip", "mac"} \/ CanPass
    \/ CanProcess
    \/ CanFill \/ pphase # "fill"
    \/ TailOnly

\* The work ahead, the work that brings the rest of it first: datagrams; what
\* is left of one; bytes before the core and after it; words of the packet.
HeadersAhead  == CASE dphase = "headers" -> 3 [] dphase = "ip" -> 2
                   [] dphase = "mac" -> 1 [] dphase = "pass" -> 0
BytesAhead    == IF at.d <= Len(rcv) THEN rcv[at.d].len + rcv[at.d].pad - at.k ELSE 0
PacketAhead   == IF pphase = "header" THEN Len(buf) + 1 ELSE ToGo
Ahead == <<Len(rcv) + 1 - at.d, HeadersAhead, BytesAhead, Len(raw), Len(enc), PacketAhead>>

\* The path comes to rest after finitely many steps, however the blocks are
\* scheduled, and nowhere but in front of a tail: no step but leaves less to
\* do, and until only a tail is left some block has a step to take, whatever
\* the sizes of blocks, packets and FIFOs have to do with each other
\* (network.cpp:77-89, udp_packetizer.cpp:42-122, mb_bd.tcl:661-662).
ComesToRest ==
    /\ [](NeverStuck /\ Ahead \in Seq(Nat))
    /\ [][Below(Ahead', Ahead)]_vars

\* "Discards all the headers and passes the UDP payload to the downstream
\* cores" (project report, page 12): only payload is passed on.
PayloadOnly == \A i \in 1 .. Len(raw) : raw[i].k <= rcv[raw[i].d].len
=============================================================================
