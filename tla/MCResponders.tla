---------------------------- MODULE MCResponders ----------------------------
(***************************************************************************)
(* Small instances of Responders: every traffic of three frames for each   *)
(* core, of all the kinds it tells apart, padded and unpadded.  Header     *)
(* lengths and the least frame length are those of the code.               *)
(***************************************************************************)
EXTENDS Responders

Wr(a, d) == [addr |-> a, data |-> d]
Rd(a)    == [addr |-> a]

Request(kind, mac, dst, opts, total, entries, len) ==
    [kind |-> kind, mac |-> mac, dmac |-> "board", src |-> mac, dst |-> dst,
     opts |-> opts, total |-> total, entries |-> entries, len |-> len]

\* Requests for the board from two hosts, one for another host, one that is
\* no request; frames of the minimum length and longer ones.
ArpFrames ==
    { Request("request", "a", "board", 0, 0, <<>>, 60),
      Request("request", "b", "board", 0, 0, <<>>, 61),
      Request("request", "b", "other", 0, 0, <<>>, 60),
      Request("reply", "a", "board", 0, 0, <<>>, 60) }

IcmpFrames ==
    { Request("echo", "a", "board", 0, 30, <<>>, 60),
      Request("echo", "b", "board", 12, 50, <<>>, 64),
      Request("echo", "a", "board", 0, 29, <<>>, 60),
      Request("echo", "b", "other", 0, 46, <<>>, 60),
      Request("other", "a", "board", 0, 56, <<>>, 70) }

\* One entry (padded), as many as fill the frame, and entries for one word.
RegFrames ==
    { Request("write", "a", "board", 0, 36, <<Wr(0, 1)>>, 60),
      Request("write", "b", "board", 0, 52, <<Wr(0, 2), Wr(4, 1), Wr(0, 3)>>, 66),
      Request("read", "b", "board", 0, 32, <<Rd(4)>>, 60),
      Request("read", "a", "board", 0, 48, <<Rd(0), Rd(4), Rd(0), Rd(4), Rd(1)>>, 62),
      Request("read", "a", "other", 0, 36, <<Rd(0), Rd(4)>>, 60) }

Triples(F) == {<<f, g, h>> : f \in F, g \in F, h \in F}

MCCases ==
    [core : {"arp"}, frames : Triples(ArpFrames)]
      \cup [core : {"icmp"}, frames : Triples(IcmpFrames)]
      \cup [core : {"udp_reg"}, frames : Triples(RegFrames)]

MCWords == {0, 1}
=============================================================================
