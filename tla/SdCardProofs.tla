---------------------------- MODULE SdCardProofs ----------------------------
(***************************************************************************)
(* Theorems about SdCard, for every block size, chunk, FIFO depth and file *)
(* length, and for any number of arrivals, switch moves and read errors.   *)
(***************************************************************************)
EXTENDS SdCard, Integers, SequenceTheorems, TLAPS

-----------------------------------------------------------------------------
(* The inductive invariant *)

\* What TypeOK leaves open: the cores that piece and result speak of, the word
\* tlast_gen holds, and that what a transfer has received are encrypted bytes.
TlastWord == [byte : EncByte, last : BOOLEAN]

ElementInv ==
    /\ piece \in [Cores -> Seq(RawByte)]
    /\ result \in [Cores -> Seq(EncByte)]
    /\ tlast \in [i : Nat, out : Seq(TlastWord)]
    /\ \A j \in 1 .. got : buf1[j] \in EncByte
    /\ errors.session <= errors.all

\* Where the two transfers stand when main() is where it is, and the counter of
\* tlast_gen against the count of the DMA.
Writing == {"write 1", "write 2"}

\* The bytes of the transfer that tlast_gen has counted.
Counted == got + Len(tlast.out)

DmaInv ==
    /\ receiving => got < Chunk /\ pc \in {"mm2s", "wait"}
    /\ ~receiving => got = 0 \/ got = Chunk
    /\ pc \in {"mm2s", "wait"} \cup Writing => receiving \/ got = Chunk
    /\ mm2s # <<>> => pc = "wait"
    /\ tlast.i = IF Counted < Chunk THEN Counted ELSE Counted - Chunk
    /\ tlast.out # <<>> => (tlast.out[1].last <=> tlast.i = 0)

\* The switches while main() has them: both are on the DMA's side.
RouteInv ==
    /\ pc \in InSession \cup {"out to dma", "open"} =>
          rawSel = [core |-> master, from |-> "dma"]
    /\ pc \in InSession \cup {"open", "out to net"} => outSel = "dma"
    /\ pc = "open" /\ clean => Drained

\* A session FileExact speaks of.
Exact == pc \in InSession /\ clean /\ errors.session = 0

\* Sequences of processed bytes of core c, and of raw ones, that follow byte o of
\* the file.
EncRun(c, s, o) == \A j \in 1 .. Len(s) : s[j] = Processed(c, o + j)
RawRun(s, o)    == \A j \in 1 .. Len(s) : s[j] = SdByte(o + j)

\* Where the chunk starts in the file, and how much of it has come back into
\* dma_buf1 and has left dma_buf0.
Base  == IF pc = "write 2" THEN Len(outFile) - Half ELSE Len(outFile)
Back  == IF pc \in {"mm2s", "wait"} \cup Writing THEN got ELSE 0
Gone  == IF pc \in {"wait"} \cup Writing THEN Chunk ELSE 0

\* The place in the file behind each stage of the path, from its end to its start.
AtDma   == Base + Back
AtTlast == AtDma + Len(tlast.out)
AtEnc   == AtTlast + Len(encBuf)
AtCore  == AtEnc + Len(result[master])
AtPiece == AtCore + Len(piece[master])

\* Each stage continues the one after it, from the file back to dma_buf0.
PathInv ==
    Exact =>
        /\ pc = "write 2" => Half <= Len(outFile)
        /\ EncRun(master, outFile, 0)
        /\ \A j \in 1 .. Back : buf1[j] = Processed(master, Base + j)
        /\ tlast.out # <<>> => tlast.out[1].byte = Processed(master, AtDma + 1)
        /\ EncRun(master, encBuf, AtTlast)
        /\ EncRun(master, result[master], AtEnc)
        /\ \A c \in Cores : c # master => result[c] = <<>>
        /\ AtCore % BlockOf[master] = 0
        /\ RawRun(piece[master], AtCore)
        /\ RawRun(mm2s, AtPiece)
        /\ AtPiece + Len(mm2s) = Base + Gone

\* How much of the chunk main() has read into dma_buf0.
Loaded ==
    CASE pc = "read 1" -> total
      [] pc = "read 2" -> Half + total
      [] pc \in {"s2mm", "mm2s", "wait"} \cup Writing -> Chunk
      [] OTHER -> 0

ReadInv ==
    /\ pc \notin {"read 1", "read 2"} => total = 0
    /\ Exact => /\ filePos = Base + Loaded
                /\ pc \in {"read 1", "read 2", "s2mm", "mm2s"} =>
                      \A j \in 1 .. Loaded : buf0[j] = SdByte(Base + j)

\* All of enc_file has been written when main() gives the switches back.
EndInv == Exact /\ pc = "raw to net" => filePos = FileLen

SInv == TypeOK /\ ElementInv /\ DmaInv /\ RouteInv /\ PathInv /\ ReadInv /\ EndInv

-----------------------------------------------------------------------------
(* Lemmas *)

LEMMA Sizes ==
    /\ Half \in Nat /\ Half >= 1 /\ RawDepth \in Nat /\ EncDepth \in Nat
    /\ FileLen \in Nat /\ NetBytes \in Nat /\ MaxFlips \in Nat /\ MaxErrors \in Nat
    /\ Chunk = Half + Half /\ Chunk \in Nat /\ Chunk >= 2 /\ Half < Chunk
    /\ \A c \in Cores : BlockOf[c] \in Nat /\ BlockOf[c] >= 1
<1>1. /\ Half \in Nat \ {0} /\ RawDepth \in Nat \ {0} /\ EncDepth \in Nat \ {0}
      /\ FileLen \in Nat /\ NetBytes \in Nat /\ MaxFlips \in Nat /\ MaxErrors \in Nat
      /\ BlockOf \in [Cores -> Nat \ {0}]
  BY SdCardAssumption, Zenon DEF SdCardAssumption
<1>2. Chunk = Half + Half /\ Chunk \in Nat /\ Chunk >= 2 /\ Half < Chunk /\ Half >= 1
  BY <1>1, SMT DEF Chunk
<1>3. \A c \in Cores : BlockOf[c] \in Nat \ {0}
  BY <1>1
<1>4. \A c \in Cores : BlockOf[c] \in Nat /\ BlockOf[c] >= 1
  BY <1>3, SMT
<1> QED BY <1>1, <1>2, <1>4

LEMMA NoPlace == \A j \in 1 .. 0 : FALSE
BY SMT

\* Steps that leave the state of a part of the invariant alone.
LEMMA DmaKept ==
    ASSUME DmaInv, UNCHANGED <<receiving, got, pc, mm2s, tlast>>
    PROVE  DmaInv'
BY DEF DmaInv, Writing, Counted

LEMMA RouteKept ==
    ASSUME RouteInv, UNCHANGED <<pc, rawSel, master, outSel, clean>>,
           pc = "open" /\ clean => Drained'
    PROVE  RouteInv'
BY DEF RouteInv, InSession

LEMMA FileKept ==
    ASSUME ReadInv, EndInv,
           UNCHANGED <<pc, clean, errors, master, outFile, filePos, total, buf0>>
    PROVE  ReadInv' /\ EndInv'
BY DEF ReadInv, EndInv, Exact, Base, Loaded, Writing, InSession

\* PathInv after a step, with everything that has moved spelt out.
LEMMA PathNew ==
    ASSUME master' = master,
           pc' = "write 2" => Half <= Len(outFile'),
           EncRun(master, outFile', 0),
           \A j \in 1 .. Back' : buf1'[j] = Processed(master, Base' + j),
           tlast'.out # <<>> => tlast'.out[1].byte = Processed(master, AtDma' + 1),
           EncRun(master, encBuf', AtTlast'),
           EncRun(master, result'[master], AtEnc'),
           \A c \in Cores : c # master => result'[c] = <<>>,
           AtCore' % BlockOf[master] = 0,
           RawRun(piece'[master], AtCore'),
           RawRun(mm2s', AtPiece'),
           AtPiece' + Len(mm2s') = Base' + Gone'
    PROVE  PathInv'
<1>1. EncRun(master, outFile, 0)' /\ EncRun(master, encBuf, AtTlast)'
  <2>1. EncRun(master, outFile, 0)'
    <3>1. \A j \in 1 .. Len(outFile') : outFile'[j] = Processed(master', 0 + j)
      BY DEF EncRun
    <3> QED BY ONLY <3>1, SMTT(20) DEF EncRun, Processed
  <2>2. EncRun(master, encBuf, AtTlast)'
    <3>1. \A j \in 1 .. Len(encBuf') : encBuf'[j] = Processed(master', AtTlast' + j)
      BY DEF EncRun
    <3> QED BY ONLY <3>1, SMTT(20) DEF EncRun, Processed
  <2> QED BY <2>1, <2>2
<1>2. EncRun(master, result[master], AtEnc)'
  <2>1. \A j \in 1 .. Len(result'[master']) :
           result'[master'][j] = Processed(master', AtEnc' + j)
    BY DEF EncRun
  <2> QED BY ONLY <2>1, SMTT(20) DEF EncRun, Processed
<1>3. RawRun(piece[master], AtCore)' /\ RawRun(mm2s, AtPiece)'
  BY DEF RawRun
<1>4. (\A j \in 1 .. Back : buf1[j] = Processed(master, Base + j))'
  BY DEF Processed
<1>5. (tlast.out # <<>> => tlast.out[1].byte = Processed(master, AtDma + 1))'
  BY DEF Processed
<1> QED BY <1>1, <1>2, <1>3, <1>4, <1>5 DEF PathInv

\* A step that changes nothing between tlast_gen and the core, nor what has come
\* out of tlast_gen.
LEMMA PathMove ==
    ASSUME PathInv, Exact, UNCHANGED <<master, tlast, encBuf, result, piece>>,
           AtDma' = AtDma,
           pc' = "write 2" => Half <= Len(outFile'),
           EncRun(master, outFile', 0),
           \A j \in 1 .. Back' : buf1'[j] = Processed(master, Base' + j),
           RawRun(mm2s', AtPiece),
           AtPiece + Len(mm2s') = Base' + Gone'
    PROVE  PathInv'
<1>1. AtTlast' = AtTlast /\ AtEnc' = AtEnc /\ AtCore' = AtCore /\ AtPiece' = AtPiece
  BY DEF AtTlast, AtEnc, AtCore, AtPiece
<1>2. /\ tlast.out # <<>> => tlast.out[1].byte = Processed(master, AtDma + 1)
      /\ EncRun(master, encBuf, AtTlast)
      /\ EncRun(master, result[master], AtEnc)
      /\ \A c \in Cores : c # master => result[c] = <<>>
      /\ AtCore % BlockOf[master] = 0
      /\ RawRun(piece[master], AtCore)
  BY DEF PathInv
<1>3. EncRun(master, outFile, 0)' /\ (\A j \in 1 .. Back : buf1[j] = Processed(master, Base + j))'
  BY DEF EncRun, Processed
<1>4. (tlast.out # <<>> => tlast.out[1].byte = Processed(master, AtDma + 1))'
  BY <1>2 DEF Processed
<1>5. EncRun(master, encBuf, AtTlast)' /\ EncRun(master, result[master], AtEnc)'
  <2>1. EncRun(master, encBuf, AtTlast)'
    <3>1. \A j \in 1 .. Len(encBuf') : encBuf'[j] = Processed(master', AtTlast' + j)
      BY <1>1, <1>2 DEF EncRun
    <3> QED BY ONLY <3>1, SMTT(20) DEF EncRun, Processed
  <2>2. EncRun(master, result[master], AtEnc)'
    <3>1. /\ \A j \in 1 .. Len(result[master]) :
                result[master][j] = Processed(master, AtEnc + j)
          /\ result'[master'] = result[master] /\ master' = master /\ AtEnc' = AtEnc
      BY <1>1, <1>2 DEF EncRun
    <3>2. \A j \in 1 .. Len(result'[master']) :
             result'[master'][j] = Processed(master', AtEnc' + j)
      BY <3>1
    <3> QED BY ONLY <3>2, SMTT(20) DEF EncRun, Processed
  <2> QED BY <2>1, <2>2
<1>6. RawRun(piece[master], AtCore)' /\ RawRun(mm2s, AtPiece)'
  BY <1>1, <1>2 DEF RawRun
<1> QED BY <1>1, <1>2, <1>3, <1>4, <1>5, <1>6 DEF PathInv

LEMMA PathKept ==
    ASSUME PathInv, UNCHANGED <<pc, clean, errors, master, outFile>>,
           Exact => UNCHANGED <<buf1, got, tlast, encBuf, result, piece, mm2s>>
    PROVE  PathInv'
<1>1. CASE Exact
  <2>1. Base' = Base /\ Back' = Back /\ Gone' = Gone
    BY <1>1 DEF Base, Back, Gone
  <2>2. AtDma' = AtDma
    BY <2>1 DEF AtDma
  <2>3. /\ pc = "write 2" => Half <= Len(outFile)
        /\ EncRun(master, outFile, 0)
        /\ \A j \in 1 .. Back : buf1[j] = Processed(master, Base + j)
        /\ RawRun(mm2s, AtPiece)
        /\ AtPiece + Len(mm2s) = Base + Gone
    BY <1>1 DEF PathInv
  <2>4. EncRun(master, outFile', 0) /\ RawRun(mm2s', AtPiece)
    BY <1>1, <2>3
  <2>5. \A j \in 1 .. Back' : buf1'[j] = Processed(master, Base' + j)
    BY <1>1, <2>1, <2>3
  <2> QED BY <1>1, <2>1, <2>2, <2>3, <2>4, <2>5, PathMove
<1>2. CASE ~Exact
  BY <1>2 DEF PathInv, Exact
<1> QED BY <1>1, <1>2

\* Runs of bytes: what leaves at one end and what joins at the other.
LEMMA EncTail ==
    ASSUME NEW c, NEW o \in Nat, NEW s \in Seq(EncByte), s # <<>>, EncRun(c, s, o)
    PROVE  Head(s) = Processed(c, o + 1) /\ EncRun(c, Tail(s), o + 1)
<1>1. Len(s) \in Nat /\ Len(s) >= 1 /\ Head(s) = s[1]
  BY EmptySeq, LenProperties
<1>2. Len(Tail(s)) = Len(s) - 1 /\ \A j \in 1 .. Len(Tail(s)) : Tail(s)[j] = s[j + 1]
  BY HeadTailProperties
<1>3. 1 \in 1 .. Len(s)
  BY <1>1, SMT
<1>4. ASSUME NEW j \in 1 .. Len(Tail(s))
      PROVE  Tail(s)[j] = Processed(c, (o + 1) + j)
  <2>1. j + 1 \in 1 .. Len(s) /\ o + (j + 1) = (o + 1) + j
    BY <1>1, <1>2, SMT
  <2> QED BY <1>2, <2>1 DEF EncRun
<1> QED BY <1>1, <1>3, <1>4 DEF EncRun

LEMMA EncAppend ==
    ASSUME NEW c, NEW o \in Nat, NEW s \in Seq(EncByte), NEW e \in EncByte,
           EncRun(c, s, o),
           e = Processed(c, (o + Len(s)) + 1)
    PROVE  EncRun(c, Append(s, e), o)
<1>1. Len(s) \in Nat
  BY LenProperties
<1>2. /\ Len(Append(s, e)) = Len(s) + 1 /\ Append(s, e)[Len(s) + 1] = e
      /\ \A j \in 1 .. Len(s) : Append(s, e)[j] = s[j]
  BY AppendProperties
<1>3. ASSUME NEW j \in 1 .. Len(s) + 1
      PROVE  Append(s, e)[j] = Processed(c, o + j)
  <2>1. CASE j = Len(s) + 1
    <3>1. o + (Len(s) + 1) = (o + Len(s)) + 1
      BY <1>1, SMT
    <3> QED BY <1>2, <2>1, <3>1
  <2>2. CASE j # Len(s) + 1
    <3>1. j \in 1 .. Len(s)
      BY <1>1, <2>2, SMT
    <3> QED BY <1>2, <3>1 DEF EncRun
  <2> QED BY <2>1, <2>2
<1> QED BY <1>2, <1>3 DEF EncRun

LEMMA RawTail ==
    ASSUME NEW o \in Nat, NEW s \in Seq(RawByte), s # <<>>, RawRun(s, o)
    PROVE  Head(s) = SdByte(o + 1) /\ RawRun(Tail(s), o + 1)
<1>1. Len(s) \in Nat /\ Len(s) >= 1 /\ Head(s) = s[1]
  BY EmptySeq, LenProperties
<1>2. Len(Tail(s)) = Len(s) - 1 /\ \A j \in 1 .. Len(Tail(s)) : Tail(s)[j] = s[j + 1]
  BY HeadTailProperties
<1>3. 1 \in 1 .. Len(s)
  BY <1>1, SMT
<1>4. ASSUME NEW j \in 1 .. Len(Tail(s))
      PROVE  Tail(s)[j] = SdByte((o + 1) + j)
  <2>1. j + 1 \in 1 .. Len(s) /\ o + (j + 1) = (o + 1) + j
    BY <1>1, <1>2, SMT
  <2> QED BY <1>2, <2>1 DEF RawRun
<1> QED BY <1>1, <1>3, <1>4 DEF RawRun

LEMMA RawAppend ==
    ASSUME NEW o \in Nat, NEW s \in Seq(RawByte), NEW b \in RawByte, RawRun(s, o),
           b = SdByte((o + Len(s)) + 1)
    PROVE  RawRun(Append(s, b), o)
<1>1. Len(s) \in Nat
  BY LenProperties
<1>2. /\ Len(Append(s, b)) = Len(s) + 1 /\ Append(s, b)[Len(s) + 1] = b
      /\ \A j \in 1 .. Len(s) : Append(s, b)[j] = s[j]
  BY AppendProperties
<1>3. ASSUME NEW j \in 1 .. Len(s) + 1
      PROVE  Append(s, b)[j] = SdByte(o + j)
  <2>1. CASE j = Len(s) + 1
    <3>1. o + (Len(s) + 1) = (o + Len(s)) + 1
      BY <1>1, SMT
    <3> QED BY <1>2, <2>1, <3>1
  <2>2. CASE j # Len(s) + 1
    <3>1. j \in 1 .. Len(s)
      BY <1>1, <2>2, SMT
    <3> QED BY <1>2, <3>1 DEF RawRun
  <2> QED BY <2>1, <2>2
<1> QED BY <1>2, <1>3 DEF RawRun

-----------------------------------------------------------------------------
(* Steps of the user, the network and the data path *)

LEMMA FlipDipStep ==
    ASSUME SInv, FlipDip
    PROVE  SInv'
<1>1. /\ flips < MaxFlips /\ flips' = flips + 1 /\ dip' \in [core : Cores, sd : {0, 1}]
      /\ UNCHANGED <<arrived, rawBuf, rawSel, piece, result, encBuf, outSel, netOut, tlast,
                     mm2s, buf1, got, receiving, pc, master, sdState, newSd, filePos, total,
                     buf0, outFile, clean, errors>>
  BY DEF FlipDip, netVars, coreVars, dmaVars, fileVars, mainVars
<1>2. TypeOK /\ ElementInv /\ DmaInv /\ RouteInv /\ PathInv /\ ReadInv /\ EndInv
  BY DEF SInv
<1>3. TypeOK'
  <2>1. flips \in 0 .. MaxFlips
    BY <1>2 DEF TypeOK
  <2>2. flips' \in 0 .. MaxFlips
    BY <1>1, <2>1, Sizes, SMT
  <2> QED BY <1>1, <1>2, <2>2 DEF TypeOK
<1>4. ElementInv' /\ DmaInv' /\ PathInv' /\ ReadInv' /\ EndInv'
  BY <1>1, <1>2, DmaKept, PathKept, FileKept DEF ElementInv
<1>5. RouteInv'
  BY <1>1, <1>2, RouteKept DEF RouteInv, Drained
<1> QED BY <1>3, <1>4, <1>5 DEF SInv

LEMMA ArriveStep ==
    ASSUME SInv, Arrive
    PROVE  SInv'
<1>1. /\ arrived < NetBytes /\ Len(rawBuf) < RawDepth /\ arrived' = arrived + 1
      /\ rawBuf' = Append(rawBuf, NetByte(arrived + 1))
      /\ UNCHANGED <<dip, flips, rawSel, piece, result, encBuf, outSel, netOut, tlast,
                     mm2s, buf1, got, receiving, pc, master, sdState, newSd, filePos, total,
                     buf0, outFile, clean, errors>>
  BY DEF Arrive, dipVars, coreVars, dmaVars, fileVars, mainVars
<1>2. TypeOK /\ ElementInv /\ DmaInv /\ RouteInv /\ PathInv /\ ReadInv /\ EndInv
  BY DEF SInv
<1>3. TypeOK'
  <2>1. arrived \in 0 .. NetBytes /\ rawBuf \in Seq(RawByte)
    BY <1>2 DEF TypeOK
  <2>2. arrived' \in 0 .. NetBytes /\ arrived + 1 \in Nat
    BY <1>1, <2>1, Sizes, SMT
  <2>3. NetByte(arrived + 1) \in RawByte
    BY <2>2 DEF NetByte, RawByte
  <2>4. rawBuf' \in Seq(RawByte) /\ Len(rawBuf') = Len(rawBuf) + 1 /\ Len(rawBuf) \in Nat
    BY <1>1, <2>1, <2>3, AppendProperties, LenProperties
  <2>5. Len(rawBuf') <= RawDepth
    BY <1>1, <2>4, Sizes, SMT
  <2> QED BY <1>1, <1>2, <2>2, <2>4, <2>5 DEF TypeOK
<1>4. ElementInv' /\ DmaInv' /\ PathInv' /\ ReadInv' /\ EndInv'
  BY <1>1, <1>2, DmaKept, PathKept, FileKept DEF ElementInv
<1>5. RouteInv'
  BY <1>1, <1>2, RouteKept DEF RouteInv, Drained
<1> QED BY <1>3, <1>4, <1>5 DEF SInv

LEMMA ToPacketizerStep ==
    ASSUME SInv, ToPacketizer
    PROVE  SInv'
<1>1. /\ outSel = "net" /\ encBuf # <<>> /\ netOut' = Append(netOut, Head(encBuf))
      /\ encBuf' = Tail(encBuf)
      /\ UNCHANGED <<dip, flips, arrived, rawBuf, rawSel, piece, result, outSel, tlast,
                     mm2s, buf1, got, receiving, pc, master, sdState, newSd, filePos, total,
                     buf0, outFile, clean, errors>>
  BY DEF ToPacketizer, dipVars, netVars, coreVars, dmaVars, fileVars, mainVars
<1>2. TypeOK /\ ElementInv /\ DmaInv /\ RouteInv /\ PathInv /\ ReadInv /\ EndInv
  BY DEF SInv
<1>3. ~Exact /\ pc # "open"
  BY <1>1, <1>2 DEF RouteInv, Exact
<1>4. TypeOK'
  <2>1. encBuf \in Seq(EncByte) /\ Len(encBuf) <= EncDepth /\ netOut \in Seq(EncByte)
    BY <1>2 DEF TypeOK
  <2>2. /\ Head(encBuf) \in EncByte /\ encBuf' \in Seq(EncByte)
        /\ Len(encBuf') = Len(encBuf) - 1 /\ Len(encBuf) \in Nat
    BY <1>1, <2>1, HeadTailProperties, LenProperties
  <2>3. netOut' \in Seq(EncByte)
    BY <1>1, <2>1, <2>2, AppendProperties
  <2>4. Len(encBuf') <= EncDepth
    BY <2>1, <2>2, Sizes, SMT
  <2> QED BY <1>1, <1>2, <2>2, <2>3, <2>4 DEF TypeOK
<1>5. ElementInv' /\ DmaInv' /\ PathInv' /\ ReadInv' /\ EndInv'
  BY <1>1, <1>2, <1>3, DmaKept, PathKept, FileKept DEF ElementInv
<1>6. RouteInv'
  BY <1>1, <1>2, <1>3, RouteKept
<1> QED BY <1>4, <1>5, <1>6 DEF SInv

\* Collect, as a statement about the two functions: the block grows, or it is
\* full and processed.
LEMMA CollectStep ==
    ASSUME TypeOK, ElementInv, NEW c \in Cores, NEW b \in RawByte, result[c] = <<>>,
           Collect(c, b)
    PROVE  /\ piece' \in [Cores -> Seq(RawByte)] /\ result' \in [Cores -> Seq(EncByte)]
           /\ \A d \in Cores : Len(piece'[d]) < BlockOf[d] /\ Len(result'[d]) <= BlockOf[d]
           /\ \A d \in Cores : d # c => piece'[d] = piece[d] /\ result'[d] = result[d]
           /\ \/ /\ piece'[c] = Append(piece[c], b)
                 /\ result'[c] = <<>>
              \/ /\ piece'[c] = <<>>
                 /\ Len(piece[c]) + 1 = BlockOf[c]
                 /\ result'[c] = [i \in 1 .. BlockOf[c] |->
                                     [by |-> c, blk |-> Append(piece[c], b), i |-> i]]
                 /\ Len(result'[c]) = BlockOf[c]
<1> DEFINE blk == Append(piece[c], b)
           B == BlockOf[c]
           res == [i \in 1 .. B |-> [by |-> c, blk |-> blk, i |-> i]]
<1>1. /\ piece \in [Cores -> Seq(RawByte)] /\ result \in [Cores -> Seq(EncByte)]
      /\ \A d \in Cores : Len(piece[d]) < BlockOf[d] /\ Len(result[d]) <= BlockOf[d]
  BY DEF TypeOK, ElementInv
<1>2. B \in Nat /\ B >= 1 /\ piece[c] \in Seq(RawByte) /\ Len(piece[c]) \in Nat
  BY <1>1, Sizes, LenProperties
<1>3. blk \in Seq(RawByte) /\ Len(blk) = Len(piece[c]) + 1
  BY <1>2, AppendProperties
<1>4. CASE Len(blk) < B
  <2>1. piece' = [piece EXCEPT ![c] = blk] /\ result' = result
    BY <1>4 DEF Collect
  <2> HIDE DEF blk, B
  <2>2. /\ piece' \in [Cores -> Seq(RawByte)] /\ piece'[c] = blk
        /\ \A d \in Cores : d # c => piece'[d] = piece[d]
    BY <1>1, <1>3, <2>1
  <2>3. \A d \in Cores : Len(piece'[d]) < BlockOf[d]
    BY <1>1, <1>4, <2>2 DEF B
  <2> QED BY <1>1, <2>1, <2>2, <2>3 DEF blk
<1>5. CASE ~(Len(blk) < B)
  <2>1. piece' = [piece EXCEPT ![c] = <<>>] /\ result' = [result EXCEPT ![c] = res]
    BY <1>5 DEF Collect
  <2>2. Len(piece[c]) + 1 = B
    <3>1. Len(piece[c]) < B
      BY <1>1
    <3> HIDE DEF B
    <3> QED BY <1>2, <1>3, <1>5, <3>1, SMT
  <2>3. res \in Seq(EncByte) /\ Len(res) = B
    <3> HIDE DEF blk, B
    <3>1. \A i \in 1 .. B : [by |-> c, blk |-> blk, i |-> i] \in EncByte
      BY <1>2, <1>3 DEF EncByte
    <3>2. res \in [1 .. B -> EncByte] /\ DOMAIN res = 1 .. B
      BY <3>1
    <3> HIDE DEF res
    <3> QED BY <1>2, <3>2, SeqDef, LenProperties
  <2> HIDE DEF blk, B, res
  <2>4. <<>> \in Seq(RawByte) /\ Len(<<>>) = 0
    BY EmptySeq
  <2>5. /\ piece' \in [Cores -> Seq(RawByte)] /\ piece'[c] = <<>>
        /\ result' \in [Cores -> Seq(EncByte)] /\ result'[c] = res
        /\ \A d \in Cores : d # c => piece'[d] = piece[d] /\ result'[d] = result[d]
    BY <1>1, <2>1, <2>3, <2>4
  <2>6. Len(piece'[c]) < B /\ Len(result'[c]) <= B
    BY <1>2, <2>3, <2>4, <2>5, SMT
  <2>7. \A d \in Cores : Len(piece'[d]) < BlockOf[d] /\ Len(result'[d]) <= BlockOf[d]
    BY <1>1, <2>5, <2>6 DEF B
  <2> QED BY <2>2, <2>3, <2>5, <2>7 DEF blk, B, res
<1> QED BY <1>4, <1>5

LEMMA CoreReadNetStep ==
    ASSUME SInv, NEW c \in Cores, CoreReadNet(c)
    PROVE  SInv'
<1>1. /\ rawSel = [core |-> c, from |-> "net"] /\ result[c] = <<>> /\ rawBuf # <<>>
      /\ Collect(c, Head(rawBuf)) /\ rawBuf' = Tail(rawBuf)
      /\ UNCHANGED <<dip, flips, arrived, rawSel, encBuf, outSel, netOut, tlast,
                     mm2s, buf1, got, receiving, pc, master, sdState, newSd, filePos, total,
                     buf0, outFile, clean, errors>>
  BY DEF CoreReadNet, dipVars, dmaVars, fileVars, mainVars
<1>2. TypeOK /\ ElementInv /\ DmaInv /\ RouteInv /\ PathInv /\ ReadInv /\ EndInv
  BY DEF SInv
<1>3. ~Exact /\ pc # "open"
  <2>1. rawSel.from # "dma"
    BY <1>1
  <2>2. rawSel # [core |-> master, from |-> "dma"]
    BY <2>1
  <2> QED BY <1>2, <2>2 DEF RouteInv, Exact
<1>4. rawBuf \in Seq(RawByte) /\ Len(rawBuf) <= RawDepth
  BY <1>2 DEF TypeOK
<1>5. /\ Head(rawBuf) \in RawByte /\ rawBuf' \in Seq(RawByte)
      /\ Len(rawBuf') = Len(rawBuf) - 1 /\ Len(rawBuf) \in Nat
  BY <1>1, <1>4, HeadTailProperties, LenProperties
<1>6. Len(rawBuf') <= RawDepth
  BY <1>4, <1>5, Sizes, SMT
<1>7. /\ piece' \in [Cores -> Seq(RawByte)] /\ result' \in [Cores -> Seq(EncByte)]
      /\ \A d \in Cores : Len(piece'[d]) < BlockOf[d] /\ Len(result'[d]) <= BlockOf[d]
  BY <1>1, <1>2, <1>5, CollectStep
<1>8. TypeOK'
  BY <1>1, <1>2, <1>5, <1>6, <1>7 DEF TypeOK
<1>9. ElementInv' /\ DmaInv' /\ PathInv' /\ ReadInv' /\ EndInv'
  BY <1>1, <1>2, <1>3, <1>7, DmaKept, PathKept, FileKept DEF ElementInv
<1>10. RouteInv'
  BY <1>1, <1>2, <1>3, RouteKept
<1> QED BY <1>8, <1>9, <1>10 DEF SInv

-----------------------------------------------------------------------------
(* Steps of the data path while a session runs *)

LEMMA PassedOn ==
    ASSUME NEW a \in Nat, NEW n \in Nat
    PROVE  (a + 1) + (n - 1) = a + n
BY SMT

LEMMA MultipleOf ==
    ASSUME NEW B \in Nat, B >= 1, NEW m \in Nat
    PROVE  (m * B) % B = 0
BY SMT

\* Blocks start at multiples of the block size, and the place of a byte gives its
\* block (Processed).
LEMMA FirstOfBlock ==
    ASSUME NEW B \in Nat, B >= 1, NEW o \in Nat, o % B = 0, NEW j \in 1 .. B
    PROVE  (((o + j) - 1) \div B) * B = o /\ (o + B) % B = 0
<1>1. PICK q \in Nat : o = q * B
  <2>1. o \div B \in Nat /\ o = (o \div B) * B
    BY SMT
  <2> QED BY <2>1
<1>2. PICK d \in Nat : d = ((o + j) - 1) \div B
  <2>1. ((o + j) - 1) \div B \in Nat
    BY SMT
  <2> QED BY <2>1
<1>3. d * B <= (o + j) - 1 /\ (o + j) - 1 < d * B + B
  BY <1>2, SMT
<1>4. d = q
  BY <1>1, <1>3, SMT
<1>5. (o + B) % B = 0
  <2>1. PICK m \in Nat : m = q + 1
    BY SMT
  <2>2. o + B = m * B
    BY <1>1, <2>1, SMT
  <2>3. (m * B) % B = 0
    BY MultipleOf
  <2> QED BY <2>2, <2>3
<1> QED BY <1>1, <1>2, <1>4, <1>5

\* A block of consecutive bytes of the file, processed.
LEMMA BlockRun ==
    ASSUME NEW c \in Cores, NEW o \in Nat, o % BlockOf[c] = 0,
           NEW blk \in Seq(RawByte), Len(blk) = BlockOf[c], RawRun(blk, o),
           NEW res, res = [i \in 1 .. BlockOf[c] |-> [by |-> c, blk |-> blk, i |-> i]],
           Len(res) = BlockOf[c]
    PROVE  EncRun(c, res, o)
<1> SUFFICES ASSUME NEW k \in 1 .. BlockOf[c]
             PROVE  res[k] = Processed(c, o + k)
  BY DEF EncRun
<1>1. BlockOf[c] \in Nat /\ BlockOf[c] >= 1
  BY Sizes
<1>2. (((o + k) - 1) \div BlockOf[c]) * BlockOf[c] = o
  BY <1>1, FirstOfBlock
<1>3. (o + k) - o = k
  BY <1>1, SMT
<1>4. blk = [j \in 1 .. BlockOf[c] |-> SdByte(o + j)]
  <2>1. DOMAIN blk = 1 .. BlockOf[c] /\ blk = [j \in DOMAIN blk |-> blk[j]]
    BY LenProperties
  <2>2. \A j \in 1 .. BlockOf[c] : blk[j] = SdByte(o + j)
    BY DEF RawRun
  <2> QED BY <2>1, <2>2
<1>5. Processed(c, o + k) =
         [by |-> c, blk |-> [j \in 1 .. BlockOf[c] |-> SdByte(o + j)], i |-> k]
  BY <1>2, <1>3 DEF Processed
<1> QED BY <1>4, <1>5

\* The stages of the path as numbers.
LEMMA Places ==
    ASSUME TypeOK, ElementInv, PathInv, Exact
    PROVE  /\ master \in Cores /\ BlockOf[master] \in Nat /\ BlockOf[master] >= 1
           /\ Len(tlast.out) \in Nat /\ Len(encBuf) \in Nat /\ Len(mm2s) \in Nat
           /\ Len(result[master]) \in Nat /\ Len(piece[master]) \in Nat
           /\ Len(outFile) \in Nat /\ got \in Nat
           /\ Base \in Nat /\ Back \in Nat /\ Gone \in Nat
           /\ AtDma \in Nat /\ AtTlast \in Nat /\ AtEnc \in Nat /\ AtCore \in Nat
           /\ AtPiece \in Nat
<1>1. master \in Cores /\ BlockOf[master] \in Nat /\ BlockOf[master] >= 1
  BY Sizes DEF TypeOK
<1>2. /\ tlast.out \in Seq(TlastWord) /\ encBuf \in Seq(EncByte) /\ mm2s \in Seq(RawByte)
      /\ result[master] \in Seq(EncByte) /\ piece[master] \in Seq(RawByte)
      /\ outFile \in Seq(EncByte) /\ got \in 0 .. Chunk
  BY <1>1 DEF TypeOK, ElementInv
<1>3. /\ Len(tlast.out) \in Nat /\ Len(encBuf) \in Nat /\ Len(mm2s) \in Nat
      /\ Len(result[master]) \in Nat /\ Len(piece[master]) \in Nat
      /\ Len(outFile) \in Nat
  BY <1>2, LenProperties
<1>4. got \in Nat
  BY <1>2, Sizes, SMT
<1>5. Base \in Nat
  <2>1. CASE pc = "write 2"
    <3>1. Half <= Len(outFile)
      BY <2>1 DEF PathInv
    <3>2. Base = Len(outFile) - Half
      BY <2>1 DEF Base
    <3>3. Half \in Nat /\ Len(outFile) \in Nat
      BY <1>3, Sizes
    <3> QED BY <3>1, <3>2, <3>3, SMT
  <2>2. CASE pc # "write 2"
    BY <1>3, <2>2 DEF Base
  <2> QED BY <2>1, <2>2
<1>6. Back \in Nat /\ Gone \in Nat
  BY <1>4, Sizes DEF Back, Gone
<1>7. AtDma \in Nat
  BY <1>5, <1>6, SMT DEF AtDma
<1>8. AtTlast \in Nat
  BY <1>3, <1>7, SMT DEF AtTlast
<1>9. AtEnc \in Nat
  BY <1>3, <1>8, SMT DEF AtEnc
<1>10. AtCore \in Nat
  BY <1>3, <1>9, SMT DEF AtCore
<1>11. AtPiece \in Nat
  BY <1>3, <1>10, SMT DEF AtPiece
<1> QED BY <1>1, <1>3, <1>4, <1>5, <1>6, <1>7, <1>8, <1>9, <1>10, <1>11

LEMMA CoreReadDmaStep ==
    ASSUME SInv, NEW c \in Cores, CoreReadDma(c)
    PROVE  SInv'
<1> DEFINE b == Head(mm2s)
<1>1. /\ rawSel = [core |-> c, from |-> "dma"] /\ result[c] = <<>> /\ mm2s # <<>>
      /\ Collect(c, b) /\ mm2s' = Tail(mm2s)
      /\ UNCHANGED <<dip, flips, arrived, rawBuf, rawSel, encBuf, outSel, netOut, tlast,
                     buf1, got, receiving, pc, master, sdState, newSd, filePos, total,
                     buf0, outFile, clean, errors>>
  BY DEF CoreReadDma, dipVars, netVars, fileVars, mainVars
<1>2. TypeOK /\ ElementInv /\ DmaInv /\ RouteInv /\ PathInv /\ ReadInv /\ EndInv
  BY DEF SInv
<1>3. pc = "wait" /\ c = master
  <2>1. pc = "wait"
    BY <1>1, <1>2 DEF DmaInv
  <2>2. rawSel = [core |-> master, from |-> "dma"]
    BY <1>2, <2>1 DEF RouteInv, InSession
  <2>3. rawSel.core = c /\ rawSel.core = master
    BY <1>1, <2>2
  <2> QED BY <2>1, <2>3
<1>4. mm2s \in Seq(RawByte) /\ Len(mm2s) <= Chunk
  BY <1>2 DEF TypeOK
<1>5. /\ b \in RawByte /\ mm2s' \in Seq(RawByte)
      /\ Len(mm2s') = Len(mm2s) - 1 /\ Len(mm2s) \in Nat
  BY <1>1, <1>4, HeadTailProperties, LenProperties
<1>6. Len(mm2s') <= Chunk
  BY <1>4, <1>5, Sizes, SMT
<1> HIDE DEF b
<1>7. /\ piece' \in [Cores -> Seq(RawByte)] /\ result' \in [Cores -> Seq(EncByte)]
      /\ \A d \in Cores : Len(piece'[d]) < BlockOf[d] /\ Len(result'[d]) <= BlockOf[d]
      /\ \A d \in Cores : d # c => piece'[d] = piece[d] /\ result'[d] = result[d]
      /\ \/ /\ piece'[c] = Append(piece[c], b)
            /\ result'[c] = <<>>
         \/ /\ piece'[c] = <<>>
            /\ Len(piece[c]) + 1 = BlockOf[c]
            /\ result'[c] = [i \in 1 .. BlockOf[c] |->
                                [by |-> c, blk |-> Append(piece[c], b), i |-> i]]
            /\ Len(result'[c]) = BlockOf[c]
  BY <1>1, <1>2, <1>5, CollectStep
<1>8. TypeOK'
  BY <1>1, <1>2, <1>5, <1>6, <1>7 DEF TypeOK
<1>9. ElementInv' /\ DmaInv' /\ ReadInv' /\ EndInv'
  BY <1>1, <1>2, <1>3, <1>7, FileKept DEF ElementInv, DmaInv, Writing, Counted
<1>10. RouteInv'
  BY <1>1, <1>2, <1>3, RouteKept
<1>11. ASSUME Exact PROVE PathInv'
  <2>1. /\ EncRun(master, outFile, 0)
        /\ \A j \in 1 .. Back : buf1[j] = Processed(master, Base + j)
        /\ tlast.out # <<>> => tlast.out[1].byte = Processed(master, AtDma + 1)
        /\ EncRun(master, encBuf, AtTlast)
        /\ \A d \in Cores : d # master => result[d] = <<>>
        /\ AtCore % BlockOf[master] = 0
        /\ RawRun(piece[master], AtCore)
        /\ RawRun(mm2s, AtPiece)
        /\ AtPiece + Len(mm2s) = Base + Gone
    BY <1>2, <1>11 DEF PathInv
  <2>2. /\ master \in Cores /\ BlockOf[master] \in Nat /\ BlockOf[master] >= 1
        /\ AtEnc \in Nat /\ AtCore \in Nat /\ AtPiece \in Nat /\ Len(piece[master]) \in Nat
        /\ piece[master] \in Seq(RawByte)
    BY <1>2, <1>11, Places DEF ElementInv
  <2>3. /\ Base' = Base /\ Back' = Back /\ Gone' = Gone
        /\ AtDma' = AtDma /\ AtTlast' = AtTlast /\ AtEnc' = AtEnc
    BY <1>1 DEF Base, Back, Gone, AtDma, AtTlast, AtEnc
  <2>4. b = SdByte(AtPiece + 1) /\ RawRun(mm2s', AtPiece + 1)
    BY <1>1, <1>4, <2>1, <2>2, RawTail DEF b
  <2>5. AtCore = AtEnc /\ AtPiece = AtCore + Len(piece[master])
    BY <1>1, <1>3, <2>2 DEF AtCore, AtPiece
  <2>6. RawRun(Append(piece[master], b), AtCore)
    BY <1>5, <2>1, <2>2, <2>4, <2>5, RawAppend
  <2>7. /\ Append(piece[master], b) \in Seq(RawByte)
        /\ Len(Append(piece[master], b)) = Len(piece[master]) + 1
    BY <1>5, <2>2, AppendProperties
  <2>8. /\ EncRun(master, result'[master], AtEnc)
        /\ (AtEnc + Len(result'[master])) % BlockOf[master] = 0
        /\ RawRun(piece'[master], AtEnc + Len(result'[master]))
        /\ (AtEnc + Len(result'[master])) + Len(piece'[master]) = AtPiece + 1
    <3>1. CASE piece'[c] = Append(piece[c], b) /\ result'[c] = <<>>
      <4>1. Len(result'[master]) = 0 /\ AtEnc + 0 = AtEnc
        BY <1>3, <2>2, <3>1
      <4>2. EncRun(master, result'[master], AtEnc)
        BY <4>1, SMT DEF EncRun
      <4>3. (AtEnc + 0) + (Len(piece[master]) + 1) = AtPiece + 1
        BY <2>2, <2>5, SMT
      <4> QED BY <1>3, <2>1, <2>5, <2>6, <2>7, <3>1, <4>1, <4>2, <4>3
    <3>2. CASE /\ piece'[c] = <<>>
               /\ Len(piece[c]) + 1 = BlockOf[c]
               /\ result'[c] = [i \in 1 .. BlockOf[c] |->
                                   [by |-> c, blk |-> Append(piece[c], b), i |-> i]]
               /\ Len(result'[c]) = BlockOf[c]
      <4>1. EncRun(master, result'[master], AtCore)
        <5> DEFINE blk == Append(piece[master], b)
                   res == result'[master]
        <5>1. /\ blk \in Seq(RawByte) /\ Len(blk) = BlockOf[master]
              /\ RawRun(blk, AtCore) /\ master \in Cores /\ AtCore \in Nat
              /\ AtCore % BlockOf[master] = 0 /\ Len(res) = BlockOf[master]
              /\ res = [i \in 1 .. BlockOf[master] |->
                           [by |-> master, blk |-> blk, i |-> i]]
          BY <1>3, <2>1, <2>2, <2>6, <2>7, <3>2
        <5> HIDE DEF blk, res
        <5>2. EncRun(master, res, AtCore)
          BY <5>1, BlockRun
        <5> QED BY <5>2 DEF res
      <4>2. 1 \in 1 .. BlockOf[master]
        BY <2>2, SMT
      <4>3. (AtCore + BlockOf[master]) % BlockOf[master] = 0
        BY <2>1, <2>2, <4>2, FirstOfBlock
      <4>4. Len(piece'[master]) = 0
        BY <1>3, <3>2
      <4>5. RawRun(piece'[master], AtEnc + Len(result'[master]))
        BY <4>4, SMT DEF RawRun
      <4>6. (AtCore + BlockOf[master]) + 0 = AtPiece + 1
        BY <1>3, <2>2, <2>5, <3>2, SMT
      <4> QED BY <1>3, <2>5, <3>2, <4>1, <4>3, <4>4, <4>5, <4>6
    <3> QED BY <1>7, <3>1, <3>2
  <2>9. AtCore' = AtEnc + Len(result'[master]) /\ AtPiece' = AtPiece + 1
    BY <1>1, <2>3, <2>8 DEF AtCore, AtPiece
  <2>10. AtPiece' + Len(mm2s') = Base' + Gone'
    <3>1. (AtPiece + 1) + (Len(mm2s) - 1) = AtPiece + Len(mm2s)
      BY <1>5, <2>2, PassedOn
    <3> QED BY <1>5, <2>1, <2>3, <2>9, <3>1
  <2>11. \A d \in Cores : d # master => result'[d] = <<>>
    BY <1>3, <1>7, <2>1
  <2>12. /\ master' = master /\ pc' # "write 2"
         /\ EncRun(master, outFile', 0)
         /\ \A j \in 1 .. Back' : buf1'[j] = Processed(master, Base' + j)
         /\ tlast'.out # <<>> => tlast'.out[1].byte = Processed(master, AtDma' + 1)
         /\ EncRun(master, encBuf', AtTlast')
    BY <1>1, <1>3, <2>1, <2>3
  <2>13. /\ EncRun(master, result'[master], AtEnc')
         /\ AtCore' % BlockOf[master] = 0
         /\ RawRun(piece'[master], AtCore')
         /\ RawRun(mm2s', AtPiece')
    BY <2>3, <2>4, <2>8, <2>9
  <2> QED BY <2>10, <2>11, <2>12, <2>13, PathNew
<1>12. PathInv'
  <2>1. CASE ~Exact
    BY <1>1, <1>2, <2>1, PathKept
  <2> QED BY <1>11, <2>1
<1> QED BY <1>8, <1>9, <1>10, <1>12 DEF SInv

LEMMA CoreWriteStep ==
    ASSUME SInv, NEW c \in Cores, CoreWrite(c)
    PROVE  SInv'
<1> DEFINE b == Head(result[c])
<1>1. /\ result[c] # <<>> /\ Len(encBuf) < EncDepth /\ encBuf' = Append(encBuf, b)
      /\ result' = [result EXCEPT ![c] = Tail(result[c])]
      /\ UNCHANGED <<dip, flips, arrived, rawBuf, rawSel, piece, outSel, netOut, tlast,
                     mm2s, buf1, got, receiving, pc, master, sdState, newSd, filePos, total,
                     buf0, outFile, clean, errors>>
  BY DEF CoreWrite, dipVars, netVars, dmaVars, fileVars, mainVars
<1>2. TypeOK /\ ElementInv /\ DmaInv /\ RouteInv /\ PathInv /\ ReadInv /\ EndInv
  BY DEF SInv
<1>3. ~(pc = "open" /\ clean)
  BY <1>1, <1>2 DEF RouteInv, Drained
<1>4. /\ result \in [Cores -> Seq(EncByte)] /\ result[c] \in Seq(EncByte)
      /\ Len(result[c]) <= BlockOf[c] /\ BlockOf[c] \in Nat
      /\ encBuf \in Seq(EncByte) /\ Len(encBuf) \in Nat
  BY <1>2, Sizes, LenProperties DEF TypeOK, ElementInv
<1>5. /\ b \in EncByte /\ Tail(result[c]) \in Seq(EncByte)
      /\ Len(Tail(result[c])) = Len(result[c]) - 1 /\ Len(result[c]) \in Nat
  BY <1>1, <1>4, HeadTailProperties, LenProperties
<1> HIDE DEF b
<1>6. encBuf' \in Seq(EncByte) /\ Len(encBuf') = Len(encBuf) + 1
  BY <1>1, <1>4, <1>5, AppendProperties
<1>7. Len(encBuf') <= EncDepth
  BY <1>1, <1>4, <1>6, Sizes, SMT
<1>8. /\ result' \in [Cores -> Seq(EncByte)] /\ result'[c] = Tail(result[c])
      /\ \A d \in Cores : d # c => result'[d] = result[d]
  BY <1>1, <1>4, <1>5
<1>9. \A d \in Cores : Len(result'[d]) <= BlockOf[d]
  <2>1. Len(result'[c]) <= BlockOf[c]
    BY <1>4, <1>5, <1>8, SMT
  <2>2. \A d \in Cores : Len(result[d]) <= BlockOf[d]
    BY <1>2 DEF TypeOK
  <2> QED BY <1>8, <2>1, <2>2
<1>10. TypeOK'
  BY <1>1, <1>2, <1>6, <1>7, <1>8, <1>9 DEF TypeOK
<1>11. ElementInv' /\ DmaInv' /\ ReadInv' /\ EndInv'
  BY <1>1, <1>2, <1>8, FileKept, DmaKept DEF ElementInv
<1>12. RouteInv'
  BY <1>1, <1>2, <1>3, RouteKept
<1>13. ASSUME Exact PROVE PathInv'
  <2>1. /\ pc = "write 2" => Half <= Len(outFile)
        /\ EncRun(master, outFile, 0)
        /\ \A j \in 1 .. Back : buf1[j] = Processed(master, Base + j)
        /\ tlast.out # <<>> => tlast.out[1].byte = Processed(master, AtDma + 1)
        /\ EncRun(master, encBuf, AtTlast)
        /\ EncRun(master, result[master], AtEnc)
        /\ \A d \in Cores : d # master => result[d] = <<>>
        /\ AtCore % BlockOf[master] = 0
        /\ RawRun(piece[master], AtCore)
        /\ RawRun(mm2s, AtPiece)
        /\ AtPiece + Len(mm2s) = Base + Gone
    BY <1>2, <1>13 DEF PathInv
  <2>2. AtTlast \in Nat /\ AtEnc \in Nat /\ AtCore \in Nat
    BY <1>2, <1>13, Places
  <2>3. c = master
    BY <1>1, <2>1
  <2>4. /\ Base' = Base /\ Back' = Back /\ Gone' = Gone /\ AtDma' = AtDma
        /\ AtTlast' = AtTlast /\ AtEnc' = AtTlast + (Len(encBuf) + 1)
    BY <1>1, <1>6 DEF Base, Back, Gone, AtDma, AtTlast, AtEnc
  <2>5. AtEnc = AtTlast + Len(encBuf) /\ AtCore = AtEnc + Len(result[master])
    BY DEF AtEnc, AtCore
  <2>6. AtEnc' = AtEnc + 1
    BY <1>4, <2>2, <2>4, <2>5, SMT
  <2>7. AtCore' = AtCore /\ AtPiece' = AtPiece
    <3>1. AtCore' = AtEnc' + Len(result'[master])
      BY <1>1 DEF AtCore
    <3>2. (AtEnc + 1) + (Len(result[master]) - 1) = AtEnc + Len(result[master])
      <4>1. AtEnc \in Nat /\ Len(result[master]) \in Nat
        BY <1>5, <2>2, <2>3
      <4> QED BY <4>1, PassedOn
    <3>3. AtCore' = AtCore
      BY <1>5, <1>8, <2>3, <2>5, <2>6, <3>1, <3>2
    <3> QED BY <1>1, <3>3 DEF AtPiece
  <2>8. b = Processed(master, AtEnc + 1) /\ EncRun(master, Tail(result[master]), AtEnc + 1)
    <3>1. result[master] \in Seq(EncByte) /\ result[master] # <<>>
      BY <1>1, <1>4, <2>3
    <3>2. AtEnc \in Nat /\ EncRun(master, result[master], AtEnc)
      BY <2>1, <2>2
    <3> QED BY <2>3, <3>1, <3>2, EncTail DEF b
  <2>9. EncRun(master, encBuf', AtTlast)
    BY <1>1, <1>4, <1>5, <2>1, <2>2, <2>5, <2>8, EncAppend
  <2>10. /\ master' = master /\ (pc' = "write 2" => Half <= Len(outFile'))
         /\ EncRun(master, outFile', 0)
         /\ \A j \in 1 .. Back' : buf1'[j] = Processed(master, Base' + j)
         /\ tlast'.out # <<>> => tlast'.out[1].byte = Processed(master, AtDma' + 1)
         /\ EncRun(master, encBuf', AtTlast')
    BY <1>1, <2>1, <2>4, <2>9
  <2>11. /\ EncRun(master, result'[master], AtEnc')
         /\ \A d \in Cores : d # master => result'[d] = <<>>
         /\ AtCore' % BlockOf[master] = 0
         /\ RawRun(piece'[master], AtCore')
         /\ RawRun(mm2s', AtPiece')
         /\ AtPiece' + Len(mm2s') = Base' + Gone'
    BY <1>1, <1>8, <2>1, <2>3, <2>4, <2>6, <2>7, <2>8
  <2> QED BY <2>10, <2>11, PathNew
<1>14. PathInv'
  <2>1. CASE ~Exact
    BY <1>1, <1>2, <2>1, PathKept
  <2> QED BY <1>13, <2>1
<1> QED BY <1>10, <1>11, <1>12, <1>14 DEF SInv

\* The counter of tlast_gen goes on by one, and is 0 after the word it has marked.
LEMMA CountOn ==
    ASSUME NEW C \in Nat, C >= 2, NEW g \in 0 .. C, NEW i,
           i = IF g < C THEN g ELSE g - C
    PROVE  /\ i \in 0 .. C - 1
           /\ (i + 1) % C \in 0 .. C - 1
           /\ (i + 1) % C = IF g + 1 < C THEN g + 1 ELSE (g + 1) - C
           /\ i = C - 1 <=> (i + 1) % C = 0
<1>1. CASE g + 1 < C
  <2>1. i = g /\ (g + 1) % C = g + 1
    BY <1>1, SMT
  <2> QED BY <1>1, <2>1, SMT
<1>2. CASE g + 1 = C
  <2>1. i = g /\ C % C = 0
    BY <1>2, SMT
  <2> QED BY <1>2, <2>1, SMT
<1>3. CASE g = C
  <2>1. i = 0 /\ 1 % C = 1
    BY <1>3, SMT
  <2> QED BY <1>3, <2>1, SMT
<1> QED BY <1>1, <1>2, <1>3, SMT

LEMMA TlastGenStep ==
    ASSUME SInv, TlastGen
    PROVE  SInv'
<1> DEFINE b == Head(encBuf)
           w == [byte |-> b, last |-> tlast.i = Chunk - 1]
<1>1. /\ outSel = "dma" /\ encBuf # <<>> /\ tlast.out = <<>>
      /\ tlast' = [i |-> (tlast.i + 1) % Chunk, out |-> <<w>>]
      /\ encBuf' = Tail(encBuf)
      /\ UNCHANGED <<dip, flips, arrived, rawBuf, rawSel, piece, result, outSel, netOut,
                     mm2s, buf1, got, receiving, pc, master, sdState, newSd, filePos, total,
                     buf0, outFile, clean, errors>>
  BY DEF TlastGen, dipVars, netVars, coreVars, fileVars, mainVars
<1>2. TypeOK /\ ElementInv /\ DmaInv /\ RouteInv /\ PathInv /\ ReadInv /\ EndInv
  BY DEF SInv
<1>3. ~(pc = "open" /\ clean)
  BY <1>1, <1>2 DEF RouteInv, Drained
<1>4. /\ encBuf \in Seq(EncByte) /\ Len(encBuf) <= EncDepth /\ got \in 0 .. Chunk
      /\ Chunk \in Nat /\ Chunk >= 2
  BY <1>2, Sizes DEF TypeOK
<1>5. /\ b \in EncByte /\ encBuf' \in Seq(EncByte)
      /\ Len(encBuf') = Len(encBuf) - 1 /\ Len(encBuf) \in Nat
  BY <1>1, <1>4, HeadTailProperties, LenProperties
<1>6. Len(encBuf') <= EncDepth
  BY <1>4, <1>5, Sizes, SMT
<1> HIDE DEF b
<1>7. Len(tlast.out) = 0 /\ tlast.i = IF got < Chunk THEN got ELSE got - Chunk
  <2>1. Len(tlast.out) = 0
    BY <1>1
  <2>2. Counted = got
    BY <1>4, <2>1, SMT DEF Counted
  <2> QED BY <1>2, <2>1, <2>2 DEF DmaInv
<1>8. /\ (tlast.i + 1) % Chunk \in 0 .. Chunk - 1
      /\ (tlast.i + 1) % Chunk = IF got + 1 < Chunk THEN got + 1 ELSE (got + 1) - Chunk
      /\ tlast.i = Chunk - 1 <=> (tlast.i + 1) % Chunk = 0
  BY <1>4, <1>7, CountOn
<1>9. /\ tlast'.i = (tlast.i + 1) % Chunk /\ tlast'.out = <<w>> /\ Len(tlast'.out) = 1
      /\ tlast'.out[1] = w /\ w.byte = b /\ w.last = (tlast.i = Chunk - 1) /\ w \in TlastWord
  BY <1>1, <1>5 DEF TlastWord
<1> HIDE DEF w
<1>10. TypeOK'
  <2>1. tlast'.i \in 0 .. Chunk - 1 /\ Len(tlast'.out) <= 1
    BY <1>8, <1>9
  <2> QED BY <1>1, <1>2, <1>5, <1>6, <2>1 DEF TypeOK
<1>11. ElementInv'
  <2>1. (tlast.i + 1) % Chunk \in Nat
    BY <1>4, <1>8, SMT
  <2>2. <<w>> \in Seq(TlastWord)
    BY <1>9
  <2>3. tlast' \in [i : Nat, out : Seq(TlastWord)]
    BY <1>1, <2>1, <2>2
  <2> QED BY <1>1, <1>2, <2>3 DEF ElementInv
<1>12. DmaInv'
  <2>1. Counted' = got + 1
    BY <1>1, <1>9 DEF Counted
  <2>2. tlast'.i = IF Counted' < Chunk THEN Counted' ELSE Counted' - Chunk
    BY <1>8, <1>9, <2>1
  <2>3. tlast'.out[1].last <=> tlast'.i = 0
    BY <1>8, <1>9
  <2> QED BY <1>1, <1>2, <2>2, <2>3 DEF DmaInv, Writing
<1>13. ReadInv' /\ EndInv'
  BY <1>1, <1>2, FileKept
<1>14. RouteInv'
  BY <1>1, <1>2, <1>3, RouteKept
<1>15. ASSUME Exact PROVE PathInv'
  <2>1. /\ pc = "write 2" => Half <= Len(outFile)
        /\ EncRun(master, outFile, 0)
        /\ \A j \in 1 .. Back : buf1[j] = Processed(master, Base + j)
        /\ EncRun(master, encBuf, AtTlast)
        /\ EncRun(master, result[master], AtEnc)
        /\ \A d \in Cores : d # master => result[d] = <<>>
        /\ AtCore % BlockOf[master] = 0
        /\ RawRun(piece[master], AtCore)
        /\ RawRun(mm2s, AtPiece)
        /\ AtPiece + Len(mm2s) = Base + Gone
    BY <1>2, <1>15 DEF PathInv
  <2>2. AtDma \in Nat /\ AtTlast \in Nat
    BY <1>2, <1>15, Places
  <2>3. /\ Base' = Base /\ Back' = Back /\ Gone' = Gone /\ AtDma' = AtDma
        /\ AtTlast = AtDma + Len(tlast.out) /\ AtTlast' = AtDma' + Len(tlast'.out)
    BY <1>1 DEF Base, Back, Gone, AtDma, AtTlast
  <2>4. AtTlast = AtDma /\ AtTlast' = AtTlast + 1
    BY <1>7, <1>9, <2>2, <2>3
  <2>5. AtEnc' = AtEnc
    <3>1. (AtTlast + 1) + (Len(encBuf) - 1) = AtTlast + Len(encBuf)
      BY <1>5, <2>2, PassedOn
    <3>2. AtEnc' = AtTlast' + Len(encBuf') /\ AtEnc = AtTlast + Len(encBuf)
      BY DEF AtEnc
    <3> QED BY <1>5, <2>4, <3>1, <3>2
  <2>6. AtCore' = AtCore /\ AtPiece' = AtPiece
    BY <1>1, <2>5 DEF AtCore, AtPiece
  <2>7. b = Processed(master, AtTlast + 1) /\ EncRun(master, Tail(encBuf), AtTlast + 1)
    BY <1>1, <1>4, <2>1, <2>2, EncTail DEF b
  <2>8. /\ master' = master /\ (pc' = "write 2" => Half <= Len(outFile'))
        /\ EncRun(master, outFile', 0)
        /\ \A j \in 1 .. Back' : buf1'[j] = Processed(master, Base' + j)
        /\ tlast'.out[1].byte = Processed(master, AtDma' + 1)
        /\ EncRun(master, encBuf', AtTlast')
    BY <1>1, <1>9, <2>1, <2>3, <2>4, <2>7
  <2>9. /\ EncRun(master, result'[master], AtEnc')
        /\ \A d \in Cores : d # master => result'[d] = <<>>
        /\ AtCore' % BlockOf[master] = 0
        /\ RawRun(piece'[master], AtCore')
        /\ RawRun(mm2s', AtPiece')
        /\ AtPiece' + Len(mm2s') = Base' + Gone'
    BY <1>1, <2>1, <2>3, <2>5, <2>6
  <2> QED BY <2>8, <2>9, PathNew
<1>16. PathInv'
  <2>1. CASE ~Exact
    BY <1>1, <1>2, <2>1, PathKept
  <2> QED BY <1>15, <2>1
<1> QED BY <1>10, <1>11, <1>12, <1>13, <1>14, <1>16 DEF SInv

LEMMA ToDmaStep ==
    ASSUME SInv, ToDma
    PROVE  SInv'
<1> DEFINE w == tlast.out[1]
<1>1. /\ receiving /\ tlast.out # <<>>
      /\ buf1' = [buf1 EXCEPT ![got + 1] = Head(tlast.out).byte]
      /\ got' = got + 1
      /\ receiving' = (~Head(tlast.out).last /\ got + 1 < Chunk)
      /\ tlast' = [tlast EXCEPT !.out = <<>>]
      /\ UNCHANGED <<dip, flips, arrived, rawBuf, rawSel, piece, result, encBuf, outSel,
                     netOut, mm2s, pc, master, sdState, newSd, filePos, total,
                     buf0, outFile, clean, errors>>
  BY DEF ToDma, dipVars, netVars, coreVars, fileVars, mainVars
<1>2. TypeOK /\ ElementInv /\ DmaInv /\ RouteInv /\ PathInv /\ ReadInv /\ EndInv
  BY DEF SInv
<1>3. pc \in {"mm2s", "wait"} /\ got < Chunk
  BY <1>1, <1>2 DEF DmaInv
<1>4. /\ tlast \in [i : Nat, out : Seq(TlastWord)] /\ tlast.out \in Seq(TlastWord)
      /\ Len(tlast.out) <= 1 /\ got \in 0 .. Chunk /\ Chunk \in Nat /\ Chunk >= 2
      /\ buf1 \in [1 .. Chunk -> EncByte \cup {NoByte}] /\ tlast.i \in 0 .. Chunk - 1
  BY <1>2, Sizes DEF TypeOK, ElementInv
<1>5. Len(tlast.out) = 1 /\ Head(tlast.out) = w /\ w \in TlastWord
  <2>1. Len(tlast.out) \in Nat /\ Len(tlast.out) # 0
    BY <1>1, <1>4, EmptySeq, LenProperties
  <2>2. Len(tlast.out) = 1 /\ 1 \in 1 .. Len(tlast.out)
    <3>1. Len(tlast.out) <= 1
      BY <1>4
    <3>2. \A n \in Nat : n <= 1 /\ n # 0 => n = 1 /\ 1 \in 1 .. n
      BY SMT
    <3> QED BY <2>1, <3>1, <3>2
  <2> QED BY <1>4, <2>2, ElementOfSeq
<1>6. w.byte \in EncByte /\ w.last \in BOOLEAN
  BY <1>5 DEF TlastWord
<1>7. /\ got \in Nat /\ got + 1 \in 1 .. Chunk /\ got + 1 \in 0 .. Chunk
      /\ ~(got + 1 < Chunk) => got + 1 = Chunk
  BY <1>3, <1>4, SMT
<1>8. w.last <=> ~(got + 1 < Chunk)
  <2>1. Counted = got + 1
    BY <1>5 DEF Counted
  <2>2. tlast.i = IF Counted < Chunk THEN Counted ELSE Counted - Chunk
    BY <1>2 DEF DmaInv
  <2>3. w.last <=> tlast.i = 0
    BY <1>1, <1>2 DEF DmaInv
  <2>4. CASE got + 1 < Chunk
    <3>1. tlast.i = Counted
      BY <2>1, <2>2, <2>4
    <3>2. got + 1 # 0
      BY <1>7, SMT
    <3> QED BY <2>1, <2>3, <2>4, <3>1, <3>2
  <2>5. CASE ~(got + 1 < Chunk)
    <3>1. tlast.i = Counted - Chunk
      BY <2>1, <2>2, <2>5
    <3>2. Counted = Chunk /\ Chunk - Chunk = 0
      BY <1>4, <1>7, <2>1, <2>5, SMT
    <3> QED BY <2>3, <2>5, <3>1, <3>2
  <2> QED BY <2>4, <2>5
<1>9. receiving' = (got + 1 < Chunk)
  <2>1. receiving' = (~w.last /\ got + 1 < Chunk)
    BY <1>1, <1>5
  <2>2. CASE got + 1 < Chunk
    <3>1. w.last = FALSE
      BY <1>6, <1>8, <2>2
    <3> QED BY <2>1, <2>2, <3>1
  <2>3. CASE ~(got + 1 < Chunk)
    BY <2>1, <2>3
  <2> QED BY <2>2, <2>3
<1>10. tlast' \in [i : Nat, out : Seq(TlastWord)] /\ tlast'.i = tlast.i /\ tlast'.out = <<>>
       /\ Len(tlast'.out) = 0
  <2>1. <<>> \in Seq(TlastWord) /\ Len(<<>>) = 0
    BY EmptySeq
  <2> QED BY <1>1, <1>4, <2>1
<1>11. /\ buf1' \in [1 .. Chunk -> EncByte \cup {NoByte}]
       /\ buf1'[got + 1] = w.byte
       /\ \A j \in 1 .. got : buf1'[j] = buf1[j]
  <2>1. \A j \in 1 .. got : j # got + 1 /\ j \in 1 .. Chunk
    BY <1>4, <1>7, SMT
  <2> HIDE DEF w
  <2> QED BY <1>1, <1>4, <1>5, <1>6, <1>7, <2>1
<1>12. \A j \in 1 .. got + 1 : j = got + 1 \/ j \in 1 .. got
  BY <1>7, SMT
<1> HIDE DEF w
<1>13. TypeOK'
  <2>1. receiving' \in BOOLEAN /\ got' \in 0 .. Chunk
    BY <1>1, <1>7, <1>9
  <2>2. tlast'.i \in 0 .. Chunk - 1 /\ Len(tlast'.out) <= 1
    BY <1>4, <1>10
  <2> QED BY <1>1, <1>2, <1>11, <2>1, <2>2 DEF TypeOK
<1>14. ElementInv'
  <2>1. \A j \in 1 .. got' : buf1'[j] \in EncByte
    BY <1>1, <1>2, <1>6, <1>11, <1>12 DEF ElementInv
  <2> QED BY <1>1, <1>2, <1>10, <2>1 DEF ElementInv
<1>15. DmaInv'
  <2>1. /\ receiving' => got' < Chunk
        /\ ~receiving' => got' = Chunk
    BY <1>1, <1>7, <1>9
  <2>2. Counted' = Counted
    <3>1. Counted' = (got + 1) + 0 /\ Counted = got + 1
      BY <1>1, <1>5, <1>10 DEF Counted
    <3> QED BY <1>7, <3>1, SMT
  <2> QED BY <1>1, <1>2, <1>3, <1>10, <2>1, <2>2 DEF DmaInv, Writing
<1>16. ReadInv' /\ EndInv'
  BY <1>1, <1>2, FileKept
<1>17. RouteInv'
  BY <1>1, <1>2, <1>3, RouteKept
<1>18. ASSUME Exact PROVE PathInv'
  <2>1. /\ EncRun(master, outFile, 0)
        /\ \A j \in 1 .. Back : buf1[j] = Processed(master, Base + j)
        /\ w.byte = Processed(master, AtDma + 1)
        /\ EncRun(master, encBuf, AtTlast)
        /\ EncRun(master, result[master], AtEnc)
        /\ \A d \in Cores : d # master => result[d] = <<>>
        /\ AtCore % BlockOf[master] = 0
        /\ RawRun(piece[master], AtCore)
        /\ RawRun(mm2s, AtPiece)
        /\ AtPiece + Len(mm2s) = Base + Gone
    BY <1>1, <1>2, <1>18 DEF PathInv, w
  <2>2. Base \in Nat /\ Back \in Nat /\ AtDma \in Nat /\ AtTlast \in Nat
    BY <1>2, <1>18, Places
  <2>3. /\ Base' = Base /\ Back = got /\ Back' = got + 1 /\ Gone' = Gone
        /\ AtDma = Base + got /\ AtDma' = Base + (got + 1)
    BY <1>1, <1>3 DEF Base, Back, Gone, AtDma
  <2>4. AtTlast = AtDma + 1 /\ AtTlast' = AtDma' + 0
    BY <1>5, <1>10 DEF AtTlast
  <2>5. AtDma' = AtDma + 1 /\ AtTlast' = AtTlast
    BY <1>7, <2>2, <2>3, <2>4, SMT
  <2>6. AtEnc' = AtEnc /\ AtCore' = AtCore /\ AtPiece' = AtPiece
    BY <1>1, <2>5 DEF AtEnc, AtCore, AtPiece
  <2>7. \A j \in 1 .. got + 1 : buf1'[j] = Processed(master, Base + j)
    <3>1. buf1'[got + 1] = Processed(master, Base + (got + 1))
      BY <1>11, <2>1, <2>3, <2>5
    <3>2. \A j \in 1 .. got : buf1'[j] = Processed(master, Base + j)
      BY <1>11, <2>1, <2>3
    <3> QED BY <1>12, <3>1, <3>2
  <2>8. /\ master' = master /\ pc' # "write 2"
        /\ EncRun(master, outFile', 0)
        /\ \A j \in 1 .. Back' : buf1'[j] = Processed(master, Base' + j)
        /\ tlast'.out = <<>>
        /\ EncRun(master, encBuf', AtTlast')
    BY <1>1, <1>3, <1>10, <2>1, <2>3, <2>5, <2>7
  <2>9. /\ EncRun(master, result'[master], AtEnc')
        /\ \A d \in Cores : d # master => result'[d] = <<>>
        /\ AtCore' % BlockOf[master] = 0
        /\ RawRun(piece'[master], AtCore')
        /\ RawRun(mm2s', AtPiece')
        /\ AtPiece' + Len(mm2s') = Base' + Gone'
    BY <1>1, <2>1, <2>3, <2>6
  <2> QED BY <2>8, <2>9, PathNew
<1>19. PathInv'
  <2>1. CASE ~Exact
    BY <1>1, <1>2, <2>1, PathKept
  <2> QED BY <1>18, <2>1
<1> QED BY <1>13, <1>14, <1>15, <1>16, <1>17, <1>19 DEF SInv

-----------------------------------------------------------------------------
(* Steps of main() outside a session *)

\* Between sessions only the switches and main()'s own variables change.
LEMMA OutsideStep ==
    ASSUME ElementInv, DmaInv, ReadInv, pc' \notin InSession,
           pc \notin {"mm2s", "wait", "read 1", "read 2"} \cup Writing,
           UNCHANGED <<receiving, got, mm2s, tlast, total, piece, result, buf1, errors>>
    PROVE  ElementInv' /\ DmaInv' /\ PathInv' /\ ReadInv' /\ EndInv'
<1>1. ElementInv'
  BY DEF ElementInv
<1>2. DmaInv'
  <2>1. ~receiving /\ mm2s = <<>>
    BY DEF DmaInv
  <2>2. pc' \notin {"mm2s", "wait"} \cup Writing /\ Counted' = Counted
    BY DEF InSession, Writing, Counted
  <2> QED BY <2>1, <2>2 DEF DmaInv
<1>3. PathInv' /\ EndInv'
  BY DEF PathInv, EndInv, Exact
<1>4. ReadInv'
  BY DEF ReadInv, Exact, InSession
<1> QED BY <1>1, <1>2, <1>3, <1>4

LEMMA RouteRawStep ==
    ASSUME SInv, RouteRaw
    PROVE  SInv'
<1>1. /\ pc = "loop" /\ pc' = "sd" /\ master' = dip.core
      /\ rawSel' = [core |-> dip.core, from |-> "net"]
      /\ UNCHANGED <<dip, flips, arrived, rawBuf, piece, result, encBuf, outSel, netOut,
                     tlast, mm2s, buf1, got, receiving, sdState, newSd, filePos, total,
                     buf0, outFile, clean, errors>>
  BY DEF RouteRaw, Goto, dipVars, netVars, coreVars, dmaVars, fileVars
<1>2. TypeOK /\ ElementInv /\ DmaInv /\ RouteInv /\ PathInv /\ ReadInv /\ EndInv
  BY DEF SInv
<1>3. TypeOK'
  <2>1. dip.core \in Cores
    BY <1>2 DEF TypeOK
  <2>2. rawSel' \in [core : Cores, from : {"net", "dma"}]
    BY <1>1, <2>1
  <2> QED BY <1>1, <1>2, <2>1, <2>2 DEF TypeOK, InSession
<1>4. ElementInv' /\ DmaInv' /\ PathInv' /\ ReadInv' /\ EndInv'
  BY <1>1, <1>2, OutsideStep DEF InSession, Writing
<1>5. RouteInv'
  BY <1>1 DEF RouteInv, InSession
<1> QED BY <1>2, <1>3, <1>4, <1>5 DEF SInv

LEMMA ReadSdSwitchStep ==
    ASSUME SInv, ReadSdSwitch
    PROVE  SInv'
<1>1. /\ pc = "sd" /\ pc' \in {"raw to dma", "end"} /\ newSd' = dip.sd
      /\ UNCHANGED <<dip, flips, arrived, rawBuf, rawSel, piece, result, encBuf, outSel,
                     netOut, tlast, mm2s, buf1, got, receiving, master, sdState, filePos,
                     total, buf0, outFile, clean, errors>>
  BY DEF ReadSdSwitch, Goto, dipVars, netVars, coreVars, dmaVars, fileVars
<1>2. TypeOK /\ ElementInv /\ DmaInv /\ RouteInv /\ PathInv /\ ReadInv /\ EndInv
  BY DEF SInv
<1>3. TypeOK'
  <2>1. dip.sd \in {0, 1}
    BY <1>2 DEF TypeOK
  <2> QED BY <1>1, <1>2, <2>1 DEF TypeOK, InSession
<1>4. ElementInv' /\ DmaInv' /\ PathInv' /\ ReadInv' /\ EndInv'
  BY <1>1, <1>2, OutsideStep DEF InSession, Writing
<1>5. RouteInv'
  BY <1>1 DEF RouteInv, InSession
<1> QED BY <1>2, <1>3, <1>4, <1>5 DEF SInv

\* The four steps that turn the switches, and the end of the loop.
LEMMA SwitchStep ==
    ASSUME SInv, RawToDma \/ OutToDma \/ RawToNet \/ OutToNet \/ EndOfLoop
    PROVE  SInv'
<1>1. /\ UNCHANGED <<dip, flips, arrived, rawBuf, piece, result, encBuf, netOut,
                     tlast, mm2s, buf1, got, receiving, master, newSd, filePos, total,
                     buf0, outFile, errors>>
      /\ \/ /\ pc = "raw to dma" /\ pc' = "out to dma"
            /\ rawSel' = [core |-> master, from |-> "dma"]
            /\ UNCHANGED <<outSel, clean, sdState>>
         \/ /\ pc = "out to dma" /\ pc' = "open"
            /\ outSel' = "dma" /\ clean' = Drained
            /\ UNCHANGED <<rawSel, sdState>>
         \/ /\ pc = "raw to net" /\ pc' = "out to net"
            /\ rawSel' = [core |-> master, from |-> "net"]
            /\ UNCHANGED <<outSel, clean, sdState>>
         \/ /\ pc = "out to net" /\ pc' = "end"
            /\ outSel' = "net"
            /\ UNCHANGED <<rawSel, clean, sdState>>
         \/ /\ pc = "end" /\ pc' = "loop" /\ sdState' = newSd
            /\ UNCHANGED <<rawSel, outSel, clean>>
  BY DEF RawToDma, OutToDma, RawToNet, OutToNet, EndOfLoop, Goto, dipVars, netVars,
         coreVars, dmaVars, fileVars
<1>2. TypeOK /\ ElementInv /\ DmaInv /\ RouteInv /\ PathInv /\ ReadInv /\ EndInv
  BY DEF SInv
<1>3. TypeOK'
  <2>1. rawSel' \in [core : Cores, from : {"net", "dma"}] \cup
                    {[core |-> "none", from |-> "none"]}
    <3>1. master \in Cores
      BY <1>2 DEF TypeOK
    <3>2. /\ [core |-> master, from |-> "dma"] \in [core : Cores, from : {"net", "dma"}]
          /\ [core |-> master, from |-> "net"] \in [core : Cores, from : {"net", "dma"}]
      BY <3>1
    <3>3. CASE rawSel' = rawSel
      BY <1>2, <3>3 DEF TypeOK
    <3> QED BY <1>1, <3>2, <3>3
  <2>2. outSel' \in {"net", "dma"} /\ clean' \in BOOLEAN
    BY <1>1, <1>2 DEF TypeOK, Drained
  <2>3. {sdState', newSd'} \subseteq {0, 1} /\ master' \in Cores
    BY <1>1, <1>2 DEF TypeOK
  <2>4. pc' \in InSession \cup {"loop", "sd", "raw to dma", "out to dma", "open",
                                "out to net", "end"}
    BY <1>1
  <2> QED BY <1>1, <1>2, <2>1, <2>2, <2>3, <2>4 DEF TypeOK
<1>4. ElementInv' /\ DmaInv' /\ PathInv' /\ ReadInv' /\ EndInv'
  <2>1. pc' \notin InSession /\ pc \notin {"mm2s", "wait", "read 1", "read 2"} \cup Writing
    BY <1>1 DEF InSession, Writing
  <2> QED BY <1>1, <1>2, <2>1, OutsideStep
<1>5. RouteInv'
  <2>1. Drained' = Drained
    BY <1>1 DEF Drained
  <2>2. CASE pc' \in {"out to dma", "end", "loop"}
    BY <1>1, <2>2 DEF RouteInv, InSession
  <2>3. CASE pc' = "open"
    <3>1. /\ rawSel' = rawSel /\ master' = master /\ outSel' = "dma" /\ clean' = Drained
          /\ pc = "out to dma"
      BY <1>1, <2>3
    <3>2. rawSel = [core |-> master, from |-> "dma"]
      BY <1>2, <3>1 DEF RouteInv
    <3> QED BY <2>1, <2>3, <3>1, <3>2 DEF RouteInv
  <2>4. CASE pc' = "out to net"
    <3>1. outSel' = outSel /\ pc = "raw to net"
      BY <1>1, <2>4
    <3> QED BY <1>2, <2>4, <3>1 DEF RouteInv, InSession
  <2> QED BY <1>1, <2>2, <2>3, <2>4
<1> QED BY <1>3, <1>4, <1>5 DEF SInv

-----------------------------------------------------------------------------
(* Steps of main() in a session *)

\* fsopen: the path that was drained when the output was switched stands at byte
\* 0 of the file, and so does enc_file.
LEMMA OpenFilesStep ==
    ASSUME SInv, OpenFiles
    PROVE  SInv'
<1>1. /\ pc = "open" /\ pc' = "eof" /\ filePos' = 0 /\ total' = 0 /\ outFile' = <<>>
      /\ errors' = [errors EXCEPT !.session = 0]
      /\ UNCHANGED <<dip, flips, arrived, rawBuf, rawSel, piece, result, encBuf, outSel,
                     netOut, tlast, mm2s, buf1, got, receiving, buf0, master, sdState,
                     newSd, clean>>
  BY DEF OpenFiles, Goto, dipVars, netVars, coreVars, dmaVars
<1>2. TypeOK /\ ElementInv /\ DmaInv /\ RouteInv /\ PathInv /\ ReadInv /\ EndInv
  BY DEF SInv
<1>3. /\ errors \in [all : 0 .. MaxErrors, session : 0 .. MaxErrors]
      /\ errors.all \in 0 .. MaxErrors /\ MaxErrors \in Nat
  BY <1>2, Sizes DEF TypeOK
<1>4. /\ 0 \in 0 .. MaxErrors /\ 0 \in 0 .. FileLen /\ 0 \in 0 .. Half - 1
      /\ 0 <= errors.all
  BY <1>3, Sizes, SMT
<1>5. /\ errors' \in [all : 0 .. MaxErrors, session : 0 .. MaxErrors]
      /\ errors'.session = 0 /\ errors'.all = errors.all
  BY <1>1, <1>3, <1>4
<1>6. outFile' \in Seq(EncByte) /\ Len(outFile') = 0
  BY <1>1, EmptySeq
<1>7. TypeOK'
  BY <1>1, <1>2, <1>4, <1>5, <1>6 DEF TypeOK, InSession
<1>8. ElementInv'
  BY <1>1, <1>2, <1>4, <1>5 DEF ElementInv
<1>9. DmaInv'
  BY <1>1, <1>2 DEF DmaInv, Writing, Counted
<1>10. RouteInv'
  BY <1>1, <1>2 DEF RouteInv
<1>11. Base' = 0 /\ Back' = 0 /\ Gone' = 0 /\ Loaded' = 0
  BY <1>1, <1>6 DEF Base, Back, Gone, Loaded, Writing
<1>12. ASSUME Exact' PROVE PathInv'
  <2>1. clean
    BY <1>1, <1>12 DEF Exact
  <2>2. Drained /\ mm2s = <<>> /\ master \in Cores
    BY <1>1, <1>2, <2>1 DEF RouteInv, DmaInv, TypeOK
  <2>3. /\ piece[master] = <<>> /\ \A c \in Cores : result[c] = <<>>
        /\ encBuf = <<>> /\ tlast.out = <<>> /\ mm2s = <<>>
    BY <2>2 DEF Drained
  <2>4. Len(tlast.out) = 0 /\ Len(encBuf) = 0 /\ Len(mm2s) = 0
    BY <2>3
  <2>5. Len(result[master]) = 0 /\ Len(piece[master]) = 0
    BY <2>2, <2>3
  <2>6. AtDma' = 0
    BY <1>11, SMT DEF AtDma
  <2>7. AtTlast' = 0
    BY <1>1, <2>4, <2>6, SMT DEF AtTlast
  <2>8. AtEnc' = 0
    <3>1. AtEnc' = AtTlast' + Len(encBuf)
      BY <1>1 DEF AtEnc
    <3> QED BY <2>4, <2>7, <3>1, SMT
  <2>9. AtCore' = 0
    <3>1. AtCore' = AtEnc' + Len(result[master])
      BY <1>1 DEF AtCore
    <3> QED BY <2>5, <2>8, <3>1, SMT
  <2>10. AtPiece' = 0
    <3>1. AtPiece' = AtCore' + Len(piece[master])
      BY <1>1 DEF AtPiece
    <3> QED BY <2>5, <2>9, <3>1, SMT
  <2>11. 0 % BlockOf[master] = 0
    <3>1. BlockOf[master] \in Nat /\ BlockOf[master] >= 1
      BY <2>2, Sizes
    <3> QED BY <3>1, SMT
  <2>12. \A s, o : Len(s) = 0 => EncRun(master, s, o) /\ RawRun(s, o)
    BY SMT DEF EncRun, RawRun
  <2>13. /\ EncRun(master, outFile', 0) /\ EncRun(master, encBuf', AtTlast')
         /\ EncRun(master, result'[master], AtEnc')
         /\ RawRun(piece'[master], AtCore') /\ RawRun(mm2s', AtPiece')
    BY <1>1, <1>6, <2>4, <2>5, <2>12
  <2>14. \A j \in 1 .. Back' : buf1'[j] = Processed(master, Base' + j)
    BY <1>11, SMT
  <2>15. AtPiece' + Len(mm2s') = Base' + Gone'
    BY <1>1, <1>11, <2>4, <2>10
  <2> QED BY <1>1, <2>3, <2>9, <2>11, <2>13, <2>14, <2>15, PathNew
<1>13. PathInv'
  BY <1>12 DEF PathInv
<1>14. ReadInv'
  <2>1. filePos' = Base' + Loaded'
    BY <1>1, <1>11, SMT
  <2> QED BY <1>1, <2>1 DEF ReadInv
<1>15. EndInv'
  BY <1>1 DEF EndInv
<1> QED BY <1>7, <1>8, <1>9, <1>10, <1>13, <1>14, <1>15 DEF SInv

\* While main() reads the file nothing moves but its own variables.
LEMMA ReadingStep ==
    ASSUME SInv, pc \in {"eof", "read 1", "read 2"},
           pc' \in {"read 1", "read 2", "s2mm", "raw to net"},
           Exact' => Exact,
           errors'.session <= errors'.all,
           UNCHANGED <<rawSel, piece, result, encBuf, outSel, tlast, mm2s, buf1, got,
                       receiving, master, outFile, clean>>
    PROVE  ElementInv' /\ DmaInv' /\ RouteInv' /\ PathInv' /\ Base' = Base
<1>1. TypeOK /\ ElementInv /\ DmaInv /\ RouteInv /\ PathInv /\ ReadInv /\ EndInv
  BY DEF SInv
<1>2. ElementInv'
  BY <1>1 DEF ElementInv
<1>3. DmaInv'
  <2>1. ~receiving /\ mm2s = <<>>
    BY <1>1 DEF DmaInv
  <2>2. pc' \notin {"mm2s", "wait"} \cup Writing /\ Counted' = Counted
    BY DEF Writing, Counted
  <2> QED BY <1>1, <2>1, <2>2 DEF DmaInv
<1>4. RouteInv'
  BY <1>1 DEF RouteInv, InSession
<1>5. Base' = Base /\ Back' = 0 /\ Back = 0 /\ Gone' = Gone
  BY DEF Base, Back, Gone, Writing
<1>6. PathInv'
  <2>1. CASE Exact
    <3>1. AtDma' = AtDma
      BY <1>5 DEF AtDma
    <3>2. /\ EncRun(master, outFile, 0) /\ RawRun(mm2s, AtPiece)
          /\ AtPiece + Len(mm2s) = Base + Gone
      BY <1>1, <2>1 DEF PathInv
    <3>3. \A j \in 1 .. Back' : buf1'[j] = Processed(master, Base' + j)
      BY <1>5, NoPlace
    <3>4. /\ EncRun(master, outFile', 0) /\ RawRun(mm2s', AtPiece)
          /\ AtPiece + Len(mm2s') = Base' + Gone'
      BY <1>5, <3>2
    <3> QED BY <1>1, <2>1, <3>1, <3>3, <3>4, PathMove
  <2>2. CASE ~Exact
    BY <2>2 DEF PathInv
  <2> QED BY <2>1, <2>2
<1> QED BY <1>2, <1>3, <1>4, <1>5, <1>6

LEMMA TestEofStep ==
    ASSUME SInv, TestEof
    PROVE  SInv'
<1>1. /\ pc = "eof" /\ pc' = IF filePos = FileLen THEN "raw to net" ELSE "read 1"
      /\ UNCHANGED <<dip, flips, arrived, rawBuf, rawSel, piece, result, encBuf, outSel,
                     netOut, tlast, mm2s, buf1, got, receiving, master, sdState, newSd,
                     filePos, total, buf0, outFile, clean, errors>>
  BY DEF TestEof, Goto, dipVars, netVars, coreVars, dmaVars, fileVars
<1>2. TypeOK /\ ElementInv /\ DmaInv /\ RouteInv /\ PathInv /\ ReadInv /\ EndInv
  BY DEF SInv
<1>3. pc' = "read 1" \/ (pc' = "raw to net" /\ filePos = FileLen)
  BY <1>1
<1>4. TypeOK'
  BY <1>1, <1>2, <1>3 DEF TypeOK, InSession
<1>5. Exact' => Exact
  BY <1>1 DEF Exact, InSession
<1>6. ElementInv' /\ DmaInv' /\ RouteInv' /\ PathInv' /\ Base' = Base
  <2>1. errors'.session <= errors'.all
    BY <1>1, <1>2 DEF ElementInv
  <2> QED BY <1>1, <1>3, <1>5, <2>1, ReadingStep
<1>7. ReadInv'
  <2>1. total = 0 /\ total' = 0
    BY <1>1, <1>2 DEF ReadInv
  <2>2. Loaded = 0 /\ Loaded' = 0
    BY <1>1, <1>3, <2>1 DEF Loaded, Writing
  <2>3. Exact' => filePos' = Base' + Loaded'
    BY <1>1, <1>2, <1>5, <1>6, <2>2 DEF ReadInv
  <2>4. \A j \in 1 .. Loaded' : FALSE
    BY <2>2, SMT
  <2> QED BY <2>1, <2>3, <2>4 DEF ReadInv
<1>8. EndInv'
  BY <1>1, <1>3 DEF EndInv
<1> QED BY <1>4, <1>6, <1>7, <1>8 DEF SInv

\* The two loops that fill dma_buf0: where main() is, the half, and what follows.
ReadLoop(here, off, next) ==
    \/ here = "read 1" /\ off = 0 /\ next = "read 2"
    \/ here = "read 2" /\ off = Half /\ next = "s2mm"

\* fsread brings n more bytes into the half of dma_buf0 that starts after off.
LEMMA ReadHalfStep ==
    ASSUME SInv, NEW here, NEW off, NEW next, ReadLoop(here, off, next),
           ReadHalf(here, off, next)
    PROVE  SInv'
<1>1. TypeOK /\ ElementInv /\ DmaInv /\ RouteInv /\ PathInv /\ ReadInv /\ EndInv
  BY DEF SInv
<1>2. /\ Half \in Nat /\ FileLen \in Nat /\ Chunk = Half + Half /\ off \in Nat
      /\ off = 0 \/ off = Half
      /\ filePos \in 0 .. FileLen /\ total \in 0 .. Half - 1
      /\ buf0 \in [1 .. Chunk -> RawByte]
  <2>1. off = 0 \/ off = Half
    BY DEF ReadLoop
  <2>2. Half \in Nat /\ FileLen \in Nat /\ Chunk = Half + Half /\ 0 \in Nat
    BY Sizes
  <2> QED BY <1>1, <2>1, <2>2 DEF TypeOK
<1>3. PICK n \in Nat :
         /\ n = IF Half - total < FileLen - filePos THEN Half - total ELSE FileLen - filePos
         /\ filePos + n \in 0 .. FileLen /\ total + n \in Nat /\ total + n <= Half
         /\ n <= FileLen - filePos
  <2>1. CASE Half - total < FileLen - filePos
    <3>1. /\ Half - total \in Nat /\ filePos + (Half - total) \in 0 .. FileLen
          /\ total + (Half - total) = Half /\ Half <= Half
      BY <1>2, <2>1, SMT
    <3>2. Half - total <= FileLen - filePos
      BY <1>2, <2>1, SMT
    <3> QED BY <1>2, <2>1, <3>1, <3>2
  <2>2. CASE ~(Half - total < FileLen - filePos)
    <3>1. /\ FileLen - filePos \in Nat /\ filePos + (FileLen - filePos) \in 0 .. FileLen
          /\ total + (FileLen - filePos) \in Nat /\ total + (FileLen - filePos) <= Half
          /\ FileLen - filePos <= FileLen - filePos
      BY <1>2, <2>2, SMT
    <3> QED BY <2>2, <3>1
  <2> QED BY <2>1, <2>2
<1>4. /\ pc = here /\ filePos' = filePos + n
      /\ buf0' = [j \in 1 .. Chunk |->
                     IF j \in (off + total + 1) .. (off + total + n)
                     THEN SdByte(filePos + j - off - total) ELSE buf0[j]]
      /\ \/ total + n < Half /\ total' = total + n /\ pc' = pc
         \/ total + n = Half /\ total' = 0 /\ pc' = next
      /\ UNCHANGED <<dip, flips, arrived, rawBuf, rawSel, piece, result, encBuf, outSel,
                     netOut, tlast, mm2s, buf1, got, receiving, master, sdState, newSd,
                     outFile, clean, errors>>
  <2>1. /\ pc = here /\ filePos' = filePos + n
        /\ buf0' = [j \in 1 .. Chunk |->
                       IF j \in (off + total + 1) .. (off + total + n)
                       THEN SdByte(filePos + j - off - total) ELSE buf0[j]]
        /\ IF total + n < Half
           THEN total' = total + n /\ pc' = pc
           ELSE total' = 0 /\ pc' = next
        /\ UNCHANGED <<dip, flips, arrived, rawBuf, rawSel, piece, result, encBuf, outSel,
                       netOut, tlast, mm2s, buf1, got, receiving, master, sdState, newSd,
                       outFile, clean, errors>>
    BY <1>3 DEF ReadHalf, Goto, dipVars, netVars, coreVars, dmaVars
  <2>2. total + n < Half \/ total + n = Half
    BY <1>2, <1>3, SMT
  <2>3. total + n = Half => ~(total + n < Half)
    BY <1>2, <1>3, SMT
  <2> QED BY <2>1, <2>2, <2>3
<1>5. pc \in {"read 1", "read 2"} /\ pc' \in {"read 1", "read 2", "s2mm"}
  BY <1>4 DEF ReadLoop
<1>6. TypeOK'
  <2>1. total' \in 0 .. Half - 1
    <3>1. total + n < Half => total + n \in 0 .. Half - 1
      BY <1>2, <1>3, SMT
    <3>2. 0 \in 0 .. Half - 1
      BY Sizes, SMT
    <3> QED BY <1>4, <3>1, <3>2
  <2>2. buf0' \in [1 .. Chunk -> RawByte]
    <3>1. ASSUME NEW j \in (off + total + 1) .. (off + total + n)
          PROVE  SdByte(filePos + j - off - total) \in RawByte
      <4>1. filePos + j - off - total \in Nat
        BY <1>2, <1>3, SMT
      <4> QED BY <4>1 DEF SdByte, RawByte
    <3> QED BY <1>2, <1>4, <3>1
  <2> QED BY <1>1, <1>3, <1>4, <1>5, <2>1, <2>2 DEF TypeOK, InSession
<1>7. Exact' => Exact
  BY <1>4, <1>5 DEF Exact, InSession
<1>8. ElementInv' /\ DmaInv' /\ RouteInv' /\ PathInv' /\ Base' = Base
  <2>1. errors'.session <= errors'.all
    BY <1>1, <1>4 DEF ElementInv
  <2> QED BY <1>4, <1>5, <1>7, <2>1, ReadingStep
<1>9. Loaded = off + total /\ Loaded' = off + (total + n)
  <2>1. 0 + total = total /\ 0 + (total + n) = total + n /\ 0 + Half = Half + 0
    BY <1>2, <1>3, SMT
  <2>2. CASE here = "read 1"
    <3>1. pc = "read 1" /\ off = 0 /\ next = "read 2"
      BY <1>4, <2>2 DEF ReadLoop
    <3>2. Loaded = total
      BY <3>1 DEF Loaded, Writing
    <3>3. CASE total' = total + n /\ pc' = pc
      <4>1. Loaded' = total'
        BY <3>1, <3>3 DEF Loaded, Writing
      <4> QED BY <2>1, <3>1, <3>2, <3>3, <4>1
    <3>4. CASE total + n = Half /\ total' = 0 /\ pc' = next
      <4>1. Loaded' = Half + total'
        BY <3>1, <3>4 DEF Loaded, Writing
      <4> QED BY <2>1, <3>1, <3>2, <3>4, <4>1
    <3> QED BY <1>4, <3>3, <3>4
  <2>3. CASE here = "read 2"
    <3>1. pc = "read 2" /\ off = Half /\ next = "s2mm"
      BY <1>4, <2>3 DEF ReadLoop
    <3>2. Loaded = Half + total
      BY <3>1 DEF Loaded, Writing
    <3>3. CASE total' = total + n /\ pc' = pc
      <4>1. Loaded' = Half + total'
        BY <3>1, <3>3 DEF Loaded, Writing
      <4> QED BY <3>1, <3>2, <3>3, <4>1
    <3>4. CASE total + n = Half /\ total' = 0 /\ pc' = next
      <4>1. Loaded' = Chunk
        BY <3>1, <3>4 DEF Loaded, Writing
      <4> QED BY <1>2, <3>1, <3>2, <3>4, <4>1
    <3> QED BY <1>4, <3>3, <3>4
  <2> QED BY <2>2, <2>3 DEF ReadLoop
<1>10. ReadInv'
  <2>1. pc' \notin {"read 1", "read 2"} => total' = 0
    BY <1>4, <1>5
  <2>2. ASSUME Exact
        PROVE  /\ filePos' = Base' + Loaded'
               /\ \A j \in 1 .. Loaded' : buf0'[j] = SdByte(Base' + j)
    <3>1. filePos = Base + Loaded /\ \A j \in 1 .. Loaded : buf0[j] = SdByte(Base + j)
      BY <1>1, <1>5, <2>2 DEF ReadInv
    <3>2. Base \in Nat
      BY <1>1, <2>2, Places
    <3>3. filePos' = Base' + Loaded'
      <4>1. (Base + (off + total)) + n = Base + (off + (total + n))
        BY <1>2, <1>3, <3>2, SMT
      <4> QED BY <1>4, <1>8, <1>9, <3>1, <4>1
    <3>4. ASSUME NEW j \in 1 .. Loaded'
          PROVE  buf0'[j] = SdByte(Base' + j)
      <4>1. j \in 1 .. off + (total + n)
        BY <1>9
      <4>2. j \in 1 .. Chunk
        BY <1>2, <1>3, <4>1, SMT
      <4>3. CASE j \in (off + total + 1) .. (off + total + n)
        <5>1. filePos + j - off - total = Base + j
          <6>1. filePos = Base + (off + total)
            BY <1>9, <3>1
          <6> QED BY <1>2, <3>2, <4>2, <6>1, SMT
        <5> QED BY <1>4, <1>8, <4>2, <4>3, <5>1
      <4>4. CASE j \notin (off + total + 1) .. (off + total + n)
        <5>1. j \in 1 .. off + total
          BY <1>2, <1>3, <4>1, <4>4, SMT
        <5> QED BY <1>4, <1>8, <1>9, <3>1, <4>2, <4>4, <5>1
      <4> QED BY <4>3, <4>4
    <3> QED BY <3>3, <3>4
  <2> QED BY <1>7, <2>1, <2>2 DEF ReadInv
<1>11. EndInv'
  BY <1>5 DEF EndInv
<1> QED BY <1>6, <1>8, <1>10, <1>11 DEF SInv

\* A read that fails ends the exactness of the session.
LEMMA ReadFailsStep ==
    ASSUME SInv, NEW here, NEW off, NEW next, ReadLoop(here, off, next),
           ReadFails(here, next)
    PROVE  SInv'
<1>1. /\ pc = here /\ pc' = next /\ errors.all < MaxErrors /\ total' = 0
      /\ errors' = [all |-> errors.all + 1, session |-> errors.session + 1]
      /\ UNCHANGED <<dip, flips, arrived, rawBuf, rawSel, piece, result, encBuf, outSel,
                     netOut, tlast, mm2s, buf1, got, receiving, master, sdState, newSd,
                     filePos, buf0, outFile, clean>>
  BY DEF ReadFails, Goto, dipVars, netVars, coreVars, dmaVars
<1>2. TypeOK /\ ElementInv /\ DmaInv /\ RouteInv /\ PathInv /\ ReadInv /\ EndInv
  BY DEF SInv
<1>3. /\ errors.all \in 0 .. MaxErrors /\ errors.session \in 0 .. MaxErrors
      /\ errors.session <= errors.all /\ MaxErrors \in Nat
  BY <1>2, Sizes DEF TypeOK, ElementInv
<1>4. /\ errors.all + 1 \in 0 .. MaxErrors /\ errors.session + 1 \in 0 .. MaxErrors
      /\ errors.session + 1 <= errors.all + 1 /\ errors.session + 1 # 0
  BY <1>1, <1>3, SMT
<1>5. /\ errors' \in [all : 0 .. MaxErrors, session : 0 .. MaxErrors]
      /\ errors'.session <= errors'.all /\ errors'.session # 0
  BY <1>1, <1>4
<1>6. ~Exact' /\ pc' \in {"read 2", "s2mm"} /\ pc \in {"read 1", "read 2"}
  BY <1>1, <1>5 DEF Exact, ReadLoop
<1>7. TypeOK'
  <2>1. total' \in 0 .. Half - 1
    BY <1>1, Sizes, SMT
  <2> QED BY <1>1, <1>2, <1>5, <1>6, <2>1 DEF TypeOK, InSession
<1>8. ElementInv' /\ DmaInv' /\ RouteInv' /\ PathInv'
  BY <1>1, <1>5, <1>6, ReadingStep
<1>9. ReadInv' /\ EndInv'
  BY <1>1, <1>6 DEF ReadInv, EndInv
<1> QED BY <1>7, <1>8, <1>9 DEF SInv

\* The receiving transfer starts: tlast_gen has counted a whole chunk since the
\* last one, or nothing, and at most one byte of this one.
LEMMA StartS2mmStep ==
    ASSUME SInv, StartS2mm
    PROVE  SInv'
<1>1. /\ pc = "s2mm" /\ pc' = "mm2s" /\ got' = 0 /\ receiving' = TRUE
      /\ UNCHANGED <<dip, flips, arrived, rawBuf, rawSel, piece, result, encBuf, outSel,
                     netOut, tlast, mm2s, buf1, master, sdState, newSd, filePos, total,
                     buf0, outFile, clean, errors>>
  BY DEF StartS2mm, Goto, dipVars, netVars, coreVars, fileVars
<1>2. TypeOK /\ ElementInv /\ DmaInv /\ RouteInv /\ PathInv /\ ReadInv /\ EndInv
  BY DEF SInv
<1>3. TypeOK'
  <2>1. got' \in 0 .. Chunk
    BY <1>1, Sizes, SMT
  <2> QED BY <1>1, <1>2, <2>1 DEF TypeOK, InSession
<1>4. ElementInv'
  BY <1>1, <1>2, NoPlace DEF ElementInv
<1>5. DmaInv'
  <2>1. ~receiving /\ mm2s = <<>> /\ (got = 0 \/ got = Chunk)
    BY <1>1, <1>2 DEF DmaInv
  <2>2. /\ tlast.i = IF Counted < Chunk THEN Counted ELSE Counted - Chunk
        /\ tlast.out # <<>> => (tlast.out[1].last <=> tlast.i = 0)
    BY <1>2 DEF DmaInv
  <2>3. /\ Len(tlast.out) \in Nat /\ Len(tlast.out) <= 1 /\ Chunk \in Nat /\ Chunk >= 2
    <3>1. tlast.out \in Seq(TlastWord) /\ Len(tlast.out) <= 1
      BY <1>2 DEF TypeOK, ElementInv
    <3> QED BY <3>1, Sizes, LenProperties
  <2>4. Counted' = 0 + Len(tlast.out) /\ Counted = got + Len(tlast.out)
    BY <1>1 DEF Counted
  <2>5. Counted' = Len(tlast.out) /\ Counted' < Chunk
    BY <2>3, <2>4, SMT
  <2>6. tlast.i = Counted'
    <3>1. CASE got = 0
      <4>1. Counted = Counted' /\ Counted < Chunk
        BY <2>4, <2>5, <3>1
      <4> QED BY <2>2, <4>1
    <3>2. CASE got = Chunk
      <4>1. ~(Counted < Chunk) /\ Counted - Chunk = Len(tlast.out)
        BY <2>3, <2>4, <3>2, SMT
      <4> QED BY <2>2, <2>5, <4>1
    <3> QED BY <2>1, <3>1, <3>2
  <2>7. 0 < Chunk
    BY <2>3, SMT
  <2> QED BY <1>1, <2>1, <2>2, <2>5, <2>6, <2>7 DEF DmaInv
<1>6. RouteInv'
  BY <1>1, <1>2 DEF RouteInv, InSession
<1>7. Base' = Base /\ Back' = 0 /\ Back = 0 /\ Gone' = Gone /\ Loaded' = Loaded
  BY <1>1 DEF Base, Back, Gone, Loaded, Writing
<1>8. Exact' <=> Exact
  BY <1>1 DEF Exact, InSession
<1>9. PathInv'
  <2>1. CASE Exact
    <3>1. AtDma' = AtDma
      BY <1>7 DEF AtDma
    <3>2. /\ EncRun(master, outFile, 0) /\ RawRun(mm2s, AtPiece)
          /\ AtPiece + Len(mm2s) = Base + Gone
      BY <1>2, <2>1 DEF PathInv
    <3>3. \A j \in 1 .. Back' : buf1'[j] = Processed(master, Base' + j)
      BY <1>7, NoPlace
    <3>4. /\ EncRun(master, outFile', 0) /\ RawRun(mm2s', AtPiece)
          /\ AtPiece + Len(mm2s') = Base' + Gone'
      BY <1>1, <1>7, <3>2
    <3> QED BY <1>1, <1>2, <2>1, <3>1, <3>3, <3>4, PathMove
  <2>2. CASE ~Exact
    BY <1>8, <2>2 DEF PathInv
  <2> QED BY <2>1, <2>2
<1>10. ReadInv' /\ EndInv'
  BY <1>1, <1>2, <1>7, <1>8 DEF ReadInv, EndInv
<1> QED BY <1>3, <1>4, <1>5, <1>6, <1>9, <1>10 DEF SInv

LEMMA StartMm2sStep ==
    ASSUME SInv, StartMm2s
    PROVE  SInv'
<1>1. /\ pc = "mm2s" /\ pc' = "wait" /\ mm2s' = buf0
      /\ UNCHANGED <<dip, flips, arrived, rawBuf, rawSel, piece, result, encBuf, outSel,
                     netOut, tlast, buf1, got, receiving, master, sdState, newSd, filePos,
                     total, buf0, outFile, clean, errors>>
  BY DEF StartMm2s, Goto, dipVars, netVars, coreVars, fileVars
<1>2. TypeOK /\ ElementInv /\ DmaInv /\ RouteInv /\ PathInv /\ ReadInv /\ EndInv
  BY DEF SInv
<1>3. mm2s' \in Seq(RawByte) /\ Len(mm2s') = Chunk /\ Chunk \in Nat
  <2>1. buf0 \in [1 .. Chunk -> RawByte] /\ Chunk \in Nat
    BY <1>2, Sizes DEF TypeOK
  <2> QED BY <1>1, <2>1
<1>4. TypeOK'
  <2>1. Len(mm2s') <= Chunk
    BY <1>3, SMT
  <2> QED BY <1>1, <1>2, <1>3, <2>1 DEF TypeOK, InSession
<1>5. ElementInv'
  BY <1>1, <1>2 DEF ElementInv
<1>6. DmaInv'
  BY <1>1, <1>2 DEF DmaInv, Counted
<1>7. RouteInv'
  BY <1>1, <1>2 DEF RouteInv, InSession
<1>8. Base' = Base /\ Back' = Back /\ Gone' = Chunk /\ Gone = 0 /\ Loaded = Chunk
      /\ Loaded' = Chunk
  BY <1>1 DEF Base, Back, Gone, Loaded, Writing
<1>9. Exact' <=> Exact
  BY <1>1 DEF Exact, InSession
<1>10. PathInv'
  <2>1. CASE Exact
    <3>1. AtDma' = AtDma
      BY <1>8 DEF AtDma
    <3>2. /\ EncRun(master, outFile, 0)
          /\ \A j \in 1 .. Back : buf1[j] = Processed(master, Base + j)
          /\ AtPiece + Len(mm2s) = Base + Gone
      BY <1>2, <2>1 DEF PathInv
    <3>3. AtPiece = Base
      <4>1. Len(mm2s) = 0
        BY <1>1, <1>2 DEF DmaInv
      <4>2. AtPiece \in Nat /\ Base \in Nat
        BY <1>2, <2>1, Places
      <4>3. AtPiece + 0 = Base + 0
        BY <1>8, <3>2, <4>1
      <4> QED BY <4>2, <4>3, SMT
    <3>4. RawRun(mm2s', AtPiece)
      <4>1. \A j \in 1 .. Chunk : buf0[j] = SdByte(Base + j)
        BY <1>1, <1>2, <1>8, <2>1 DEF ReadInv
      <4> QED BY <1>1, <1>3, <3>3, <4>1 DEF RawRun
    <3>5. /\ EncRun(master, outFile', 0) /\ AtPiece + Len(mm2s') = Base' + Gone'
          /\ \A j \in 1 .. Back' : buf1'[j] = Processed(master, Base' + j)
      BY <1>1, <1>3, <1>8, <3>2, <3>3
    <3> QED BY <1>1, <1>2, <2>1, <3>1, <3>4, <3>5, PathMove
  <2>2. CASE ~Exact
    BY <1>9, <2>2 DEF PathInv
  <2> QED BY <2>1, <2>2
<1>11. ReadInv' /\ EndInv'
  BY <1>1, <1>2, <1>8, <1>9 DEF ReadInv, EndInv
<1> QED BY <1>4, <1>5, <1>6, <1>7, <1>10, <1>11 DEF SInv

LEMMA WaitForDmaStep ==
    ASSUME SInv, WaitForDma
    PROVE  SInv'
<1>1. /\ pc = "wait" /\ pc' = "write 1" /\ ~receiving /\ mm2s = <<>>
      /\ UNCHANGED <<dip, flips, arrived, rawBuf, rawSel, piece, result, encBuf, outSel,
                     netOut, tlast, mm2s, buf1, got, receiving, master, sdState, newSd,
                     filePos, total, buf0, outFile, clean, errors>>
  BY DEF WaitForDma, Goto, dipVars, netVars, coreVars, dmaVars, fileVars
<1>2. TypeOK /\ ElementInv /\ DmaInv /\ RouteInv /\ PathInv /\ ReadInv /\ EndInv
  BY DEF SInv
<1>3. TypeOK' /\ ElementInv'
  BY <1>1, <1>2 DEF TypeOK, InSession, ElementInv
<1>4. DmaInv'
  <2>1. got = Chunk
    BY <1>1, <1>2 DEF DmaInv
  <2> QED BY <1>1, <1>2, <2>1 DEF DmaInv, Counted
<1>5. RouteInv'
  BY <1>1, <1>2 DEF RouteInv, InSession
<1>6. Base' = Base /\ Back' = Back /\ Gone' = Gone /\ Loaded' = Loaded
  BY <1>1 DEF Base, Back, Gone, Loaded, Writing
<1>7. Exact' <=> Exact
  BY <1>1 DEF Exact, InSession
<1>8. PathInv'
  <2>1. CASE Exact
    <3>1. AtDma' = AtDma
      BY <1>6 DEF AtDma
    <3>2. /\ EncRun(master, outFile, 0) /\ RawRun(mm2s, AtPiece)
          /\ \A j \in 1 .. Back : buf1[j] = Processed(master, Base + j)
          /\ AtPiece + Len(mm2s) = Base + Gone
      BY <1>2, <2>1 DEF PathInv
    <3>3. /\ EncRun(master, outFile', 0) /\ RawRun(mm2s', AtPiece)
          /\ \A j \in 1 .. Back' : buf1'[j] = Processed(master, Base' + j)
          /\ AtPiece + Len(mm2s') = Base' + Gone'
      BY <1>1, <1>6, <3>2
    <3> QED BY <1>1, <1>2, <2>1, <3>1, <3>3, PathMove
  <2>2. CASE ~Exact
    BY <1>7, <2>2 DEF PathInv
  <2> QED BY <2>1, <2>2
<1>9. ReadInv' /\ EndInv'
  BY <1>1, <1>2, <1>6, <1>7 DEF ReadInv, EndInv, Writing
<1> QED BY <1>3, <1>4, <1>5, <1>8, <1>9 DEF SInv

\* fswrite appends the half of dma_buf1 that starts after off to enc_file.
LEMMA HalfWritten ==
    ASSUME TypeOK, ElementInv, got = Chunk, NEW off \in {0, Half},
           outFile' = outFile \o SubSeq(buf1, off + 1, off + Half)
    PROVE  /\ outFile' \in Seq(EncByte) /\ Len(outFile') = Len(outFile) + Half
           /\ \A k \in 1 .. Len(outFile) : outFile'[k] = outFile[k]
           /\ \A i \in 1 .. Half : outFile'[Len(outFile) + i] = buf1[off + i]
<1> DEFINE s == SubSeq(buf1, off + 1, off + Half)
<1>1. /\ Half \in Nat /\ Half >= 1 /\ Chunk = Half + Half /\ off \in Nat
      /\ off <= Half
  <2>1. Half \in Nat /\ Half >= 1 /\ Chunk = Half + Half
    BY Sizes
  <2>2. off = 0 \/ off = Half
    OBVIOUS
  <2> QED BY <2>1, <2>2, SMT
<1>2. outFile \in Seq(EncByte) /\ Len(outFile) \in Nat
  BY LenProperties DEF TypeOK
<1>3. off + 1 \in Int /\ off + Half \in Int /\ (off + Half) - (off + 1) + 1 = Half
      /\ off + 1 <= off + Half
  BY <1>1, SMT
<1>4. \A i \in off + 1 .. off + Half : buf1[i] \in EncByte
  <2>1. \A i \in off + 1 .. off + Half : i \in 1 .. Chunk
    BY <1>1, SMT
  <2> QED BY <2>1 DEF ElementInv
<1>5. /\ s \in Seq(EncByte) /\ Len(s) = Half
      /\ \A i \in 1 .. Half : s[i] = buf1[(off + 1) + i - 1]
  BY <1>3, <1>4, SubSeqProperties
<1>6. \A i \in 1 .. Half : s[i] = buf1[off + i]
  <2>1. \A i \in 1 .. Half : (off + 1) + i - 1 = off + i
    BY <1>1, SMT
  <2> QED BY <1>5, <2>1
<1> HIDE DEF s
<1>7. /\ outFile' \in Seq(EncByte) /\ Len(outFile') = Len(outFile) + Half
      /\ \A k \in 1 .. Len(outFile) + Half :
            outFile'[k] = IF k <= Len(outFile) THEN outFile[k] ELSE s[k - Len(outFile)]
  <2>1. outFile' = outFile \o s
    BY DEF s
  <2>2. s \in Seq(EncByte) /\ outFile \in Seq(EncByte)
    BY <1>2, <1>5
  <2>3. /\ outFile \o s \in Seq(EncByte)
        /\ Len(outFile \o s) = Len(outFile) + Len(s)
        /\ \A k \in 1 .. Len(outFile) + Len(s) :
              (outFile \o s)[k] = IF k <= Len(outFile) THEN outFile[k]
                                  ELSE s[k - Len(outFile)]
    BY <2>2, ConcatProperties
  <2> QED BY <1>5, <2>1, <2>3
<1>8. \A k \in 1 .. Len(outFile) : k \in 1 .. Len(outFile) + Half /\ k <= Len(outFile)
  BY <1>1, <1>2, SMT
<1>9. \A i \in 1 .. Half :
         /\ Len(outFile) + i \in 1 .. Len(outFile) + Half
         /\ ~(Len(outFile) + i <= Len(outFile))
         /\ (Len(outFile) + i) - Len(outFile) = i
  BY <1>1, <1>2, SMT
<1> QED BY <1>6, <1>7, <1>8, <1>9

\* The chunk in dma_buf1 is the one that enc_file lacks: half of it, or all.
WriteLoop(here, off, next) ==
    \/ here = "write 1" /\ off = 0 /\ next = "write 2"
    \/ here = "write 2" /\ off = Half /\ next = "eof"

LEMMA WriteHalfStep ==
    ASSUME SInv, NEW here, NEW off, NEW next, WriteLoop(here, off, next),
           WriteHalf(here, off, next)
    PROVE  SInv'
<1>1. /\ pc = here /\ pc' = next
      /\ outFile' = outFile \o SubSeq(buf1, off + 1, off + Half)
      /\ UNCHANGED <<dip, flips, arrived, rawBuf, rawSel, piece, result, encBuf, outSel,
                     netOut, tlast, mm2s, buf1, got, receiving, master, sdState, newSd,
                     filePos, total, buf0, clean, errors>>
  BY DEF WriteHalf, Goto, dipVars, netVars, coreVars, dmaVars
<1>2. TypeOK /\ ElementInv /\ DmaInv /\ RouteInv /\ PathInv /\ ReadInv /\ EndInv
  BY DEF SInv
<1>3. pc \in Writing /\ pc' \in {"write 2", "eof"} /\ off \in {0, Half}
  BY <1>1 DEF WriteLoop, Writing
<1>4. ~receiving /\ got = Chunk /\ mm2s = <<>>
  BY <1>2, <1>3 DEF DmaInv, Writing
<1>5. /\ outFile' \in Seq(EncByte) /\ Len(outFile') = Len(outFile) + Half
      /\ \A k \in 1 .. Len(outFile) : outFile'[k] = outFile[k]
      /\ \A i \in 1 .. Half : outFile'[Len(outFile) + i] = buf1[off + i]
  BY <1>1, <1>2, <1>3, <1>4, HalfWritten
<1>6. TypeOK' /\ ElementInv'
  BY <1>1, <1>2, <1>3, <1>5 DEF TypeOK, InSession, ElementInv
<1>7. DmaInv'
  <2>1. Counted' = Counted
    BY <1>1 DEF Counted
  <2> QED BY <1>1, <1>2, <1>3, <1>4, <2>1 DEF DmaInv, Writing
<1>8. RouteInv'
  BY <1>1, <1>2, <1>3 DEF RouteInv, InSession, Writing
<1>9. Exact' <=> Exact
  BY <1>1, <1>3 DEF Exact, InSession, Writing
<1>10. ASSUME Exact
       PROVE  /\ AtDma' = AtDma /\ Base + Gone = Base' + Gone'
              /\ \A j \in 1 .. Back' : buf1'[j] = Processed(master, Base' + j)
              /\ EncRun(master, outFile', 0)
              /\ pc' = "write 2" => Half <= Len(outFile')
              /\ Base' + Loaded' = Base + Loaded
  <2>1. /\ pc = "write 2" => Half <= Len(outFile)
        /\ EncRun(master, outFile, 0)
        /\ \A j \in 1 .. Back : buf1[j] = Processed(master, Base + j)
    BY <1>2, <1>10 DEF PathInv
  <2>2. Back = Chunk /\ Gone = Chunk /\ Loaded = Chunk /\ AtDma = Base + Chunk
    BY <1>3, <1>4 DEF Back, Gone, Loaded, AtDma, Writing
  <2>3. /\ Base \in Nat /\ Len(outFile) \in Nat /\ Half \in Nat /\ Chunk = Half + Half
        /\ Half >= 1 /\ off \in Nat
    <3>1. Half \in Nat /\ Chunk = Half + Half /\ Half >= 1 /\ 0 \in Nat
      BY Sizes
    <3> QED BY <1>2, <1>3, <1>10, <3>1, Places
  <2>4. Len(outFile) = Base + off
    <3>1. CASE here = "write 1"
      <4>1. Base = Len(outFile) /\ off = 0
        BY <1>1, <3>1 DEF Base, WriteLoop
      <4>2. Len(outFile) = Len(outFile) + 0
        BY <2>3, SMT
      <4> QED BY <4>1, <4>2
    <3>2. CASE here = "write 2"
      <4>1. Base = Len(outFile) - Half /\ off = Half
        BY <1>1, <3>2 DEF Base, WriteLoop
      <4>2. Len(outFile) = (Len(outFile) - Half) + Half
        BY <2>3, SMT
      <4> QED BY <4>1, <4>2
    <3> QED BY <3>1, <3>2 DEF WriteLoop
  <2>5. \A i \in 1 .. Half : /\ off + i \in 1 .. Chunk
                             /\ Base + (off + i) = Len(outFile) + i
    <3>1. off = 0 \/ off = Half
      BY <1>3
    <3> QED BY <2>3, <2>4, <3>1, SMT
  <2>6. EncRun(master, outFile', 0)
    <3>1. ASSUME NEW k \in 1 .. Len(outFile) + Half
          PROVE  outFile'[k] = Processed(master, 0 + k)
      <4>1. CASE k \in 1 .. Len(outFile)
        BY <1>5, <2>1, <4>1 DEF EncRun
      <4>2. CASE k \notin 1 .. Len(outFile)
        <5>1. PICK i \in 1 .. Half : k = Len(outFile) + i
          <6>1. k - Len(outFile) \in 1 .. Half /\ k = Len(outFile) + (k - Len(outFile))
            BY <2>3, <4>2, SMT
          <6> QED BY <6>1
        <5>2. 0 + k = k
          BY <2>3, SMT
        <5>3. buf1[off + i] = Processed(master, Base + (off + i))
          BY <2>1, <2>2, <2>5
        <5> QED BY <1>5, <2>5, <5>1, <5>2, <5>3
      <4> QED BY <4>1, <4>2
    <3> QED BY <1>5, <3>1 DEF EncRun
  <2>7. CASE here = "write 1"
    <3>1. pc' = "write 2"
      BY <1>1, <2>7 DEF WriteLoop
    <3>2. Base' = Len(outFile') - Half /\ Back' = Chunk /\ Gone' = Chunk /\ Loaded' = Chunk
      BY <1>1, <1>4, <3>1 DEF Base, Back, Gone, Loaded, Writing
    <3>3. Base' = Base
      <4>1. off = 0
        BY <1>1, <1>3, <2>7 DEF WriteLoop
      <4>2. (Len(outFile) + Half) - Half = Base
        BY <2>3, <2>4, <4>1, SMT
      <4> QED BY <1>5, <3>2, <4>2
    <3>4. AtDma' = Base' + Back'
      BY DEF AtDma
    <3>5. Half <= Len(outFile) + Half
      BY <2>3, SMT
    <3> QED BY <1>1, <1>5, <2>1, <2>2, <2>6, <3>2, <3>3, <3>4, <3>5
  <2>8. CASE here = "write 2"
    <3>1. pc' = "eof" /\ off = Half
      BY <1>1, <2>8 DEF WriteLoop
    <3>2. Base' = Len(outFile') /\ Back' = 0 /\ Gone' = 0 /\ Loaded' = 0
      BY <1>1, <3>1 DEF Base, Back, Gone, Loaded, Writing
    <3>3. Base' = Base + Chunk
      <4>1. (Base + Half) + Half = Base + (Half + Half)
        BY <2>3, SMT
      <4> QED BY <1>5, <2>3, <2>4, <3>1, <3>2, <4>1
    <3>4. AtDma' = Base' + Back'
      BY DEF AtDma
    <3>5. (Base + Chunk) + 0 = Base + Chunk
      BY <2>3, SMT
    <3> QED BY <2>2, <2>6, <3>1, <3>2, <3>3, <3>4, <3>5, NoPlace
  <2> QED BY <2>7, <2>8 DEF WriteLoop
<1>11. PathInv'
  <2>1. CASE Exact
    <3>1. RawRun(mm2s, AtPiece) /\ AtPiece + Len(mm2s) = Base + Gone
      BY <1>2, <2>1 DEF PathInv
    <3>2. RawRun(mm2s', AtPiece) /\ AtPiece + Len(mm2s') = Base' + Gone'
      BY <1>1, <1>10, <2>1, <3>1
    <3> QED BY <1>1, <1>2, <1>10, <2>1, <3>2, PathMove
  <2>2. CASE ~Exact
    BY <1>9, <2>2 DEF PathInv
  <2> QED BY <2>1, <2>2
<1>12. ReadInv'
  <2>1. total = 0
    BY <1>2, <1>3 DEF ReadInv, Writing
  <2>2. Exact => filePos = Base + Loaded
    BY <1>2 DEF ReadInv
  <2> QED BY <1>1, <1>3, <1>9, <1>10, <2>1, <2>2 DEF ReadInv
<1>13. EndInv'
  BY <1>3 DEF EndInv
<1> QED BY <1>6, <1>7, <1>8, <1>11, <1>12, <1>13 DEF SInv

-----------------------------------------------------------------------------
(* The theorems *)

LEMMA InitSInv == Init => SInv
<1> SUFFICES ASSUME Init PROVE SInv
  OBVIOUS
<1>1. /\ dip \in [core : Cores, sd : {0, 1}] /\ flips = 0 /\ arrived = 0 /\ rawBuf = <<>>
      /\ rawSel = [core |-> "none", from |-> "none"]
      /\ piece = [c \in Cores |-> <<>>] /\ result = [c \in Cores |-> <<>>]
      /\ encBuf = <<>> /\ outSel = "net" /\ netOut = <<>>
      /\ tlast = [i |-> 0, out |-> <<>>] /\ mm2s = <<>>
      /\ buf1 = [j \in 1 .. Chunk |-> NoByte] /\ got = 0 /\ receiving = FALSE
      /\ pc = "loop" /\ master \in Cores /\ sdState = dip.sd /\ newSd = dip.sd
      /\ filePos = 0 /\ total = 0 /\ buf0 = [j \in 1 .. Chunk |-> Stale]
      /\ outFile = <<>> /\ clean = TRUE /\ errors = [all |-> 0, session |-> 0]
  BY DEF Init
<1>2. /\ 0 \in 0 .. MaxFlips /\ 0 \in 0 .. NetBytes /\ 0 <= RawDepth /\ 0 <= EncDepth
      /\ 0 \in 0 .. Chunk - 1 /\ 0 <= Chunk /\ 0 \in 0 .. Chunk /\ 0 \in 0 .. FileLen
      /\ 0 \in 0 .. Half - 1 /\ 0 \in 0 .. MaxErrors /\ 0 < Chunk /\ 0 <= 1 /\ 0 <= 0
      /\ 0 \in Nat
  BY Sizes, SMT
<1>3. \A c \in Cores : 0 < BlockOf[c] /\ 0 <= BlockOf[c]
  <2>1. ASSUME NEW c \in Cores
        PROVE  0 < BlockOf[c] /\ 0 <= BlockOf[c]
    <3>1. BlockOf[c] \in Nat /\ BlockOf[c] >= 1
      BY Sizes
    <3> QED BY <3>1, SMT
  <2> QED BY <2>1
<1>4. \A S : <<>> \in Seq(S) /\ Len(<<>>) = 0
  BY EmptySeq
<1>5. tlast.i = 0 /\ tlast.out = <<>> /\ tlast \in [i : Nat, out : Seq(TlastWord)]
  BY <1>1, <1>2, <1>4
<1>6. Stale \in RawByte
  BY <1>2 DEF Stale, RawByte
<1>7. TypeOK
  <2>1. dip.sd \in {0, 1}
    BY <1>1
  <2>2. /\ buf1 \in [1 .. Chunk -> EncByte \cup {NoByte}]
        /\ buf0 \in [1 .. Chunk -> RawByte]
    BY <1>1, <1>6
  <2>3. errors \in [all : 0 .. MaxErrors, session : 0 .. MaxErrors]
    BY <1>1, <1>2
  <2>4. \A c \in Cores : /\ piece[c] \in Seq(RawByte) /\ Len(piece[c]) < BlockOf[c]
                         /\ result[c] \in Seq(EncByte) /\ Len(result[c]) <= BlockOf[c]
    BY <1>1, <1>3, <1>4
  <2> QED BY <1>1, <1>2, <1>4, <1>5, <2>1, <2>2, <2>3, <2>4 DEF TypeOK
<1>8. ElementInv
  <2>1. errors.session <= errors.all
    BY <1>1, <1>2
  <2> QED BY <1>1, <1>4, <1>5, <2>1, NoPlace DEF ElementInv
<1>9. DmaInv
  <2>1. Counted = 0
    <3>1. Counted = 0 + 0
      BY <1>1, <1>4, <1>5 DEF Counted
    <3> QED BY <3>1, SMT
  <2> QED BY <1>1, <1>2, <1>5, <2>1 DEF DmaInv, Writing
<1>10. RouteInv /\ PathInv /\ ReadInv /\ EndInv
  BY <1>1 DEF RouteInv, PathInv, ReadInv, EndInv, Exact, InSession
<1> QED BY <1>7, <1>8, <1>9, <1>10 DEF SInv

LEMMA NextSInv == SInv /\ [Next]_vars => SInv'
<1> SUFFICES ASSUME SInv, [Next]_vars PROVE SInv'
  OBVIOUS
<1>1. CASE FlipDip
  BY <1>1, FlipDipStep
<1>2. CASE Arrive
  BY <1>2, ArriveStep
<1>3. CASE DataPath
  BY <1>3, CoreReadNetStep, CoreReadDmaStep, CoreWriteStep, ToPacketizerStep, TlastGenStep,
     ToDmaStep DEF DataPath
<1>4. CASE RouteRaw \/ ReadSdSwitch \/ EndOfLoop
  BY <1>4, RouteRawStep, ReadSdSwitchStep, SwitchStep
<1>5. CASE Session
  <2>1. CASE RawToDma \/ OutToDma \/ RawToNet \/ OutToNet
    BY <2>1, SwitchStep
  <2>2. CASE OpenFiles \/ TestEof \/ StartS2mm \/ StartMm2s \/ WaitForDma
    BY <2>2, OpenFilesStep, TestEofStep, StartS2mmStep, StartMm2sStep, WaitForDmaStep
  <2>3. CASE ReadHalf("read 1", 0, "read 2")
    <3>1. ReadLoop("read 1", 0, "read 2")
      BY DEF ReadLoop
    <3> QED BY <2>3, <3>1, ReadHalfStep
  <2>4. CASE ReadHalf("read 2", Half, "s2mm")
    <3>1. ReadLoop("read 2", Half, "s2mm")
      BY DEF ReadLoop
    <3> QED BY <2>4, <3>1, ReadHalfStep
  <2>5. CASE WriteHalf("write 1", 0, "write 2")
    <3>1. WriteLoop("write 1", 0, "write 2")
      BY DEF WriteLoop
    <3> QED BY <2>5, <3>1, WriteHalfStep
  <2>6. CASE WriteHalf("write 2", Half, "eof")
    <3>1. WriteLoop("write 2", Half, "eof")
      BY DEF WriteLoop
    <3> QED BY <2>6, <3>1, WriteHalfStep
  <2> QED BY <1>5, <2>1, <2>2, <2>3, <2>4, <2>5, <2>6 DEF Session
<1>6. CASE ReadError
  <2>1. CASE ReadFails("read 1", "read 2")
    <3>1. ReadLoop("read 1", 0, "read 2")
      BY DEF ReadLoop
    <3> QED BY <2>1, <3>1, ReadFailsStep
  <2>2. CASE ReadFails("read 2", "s2mm")
    <3>1. ReadLoop("read 2", Half, "s2mm")
      BY DEF ReadLoop
    <3> QED BY <2>2, <3>1, ReadFailsStep
  <2> QED BY <1>6, <2>1, <2>2 DEF ReadError
<1>7. CASE UNCHANGED vars
  <2>1. UNCHANGED <<dip, flips, arrived, rawBuf, rawSel, piece, result, encBuf, outSel,
                    netOut, tlast, mm2s, buf1, got, receiving, pc, master, sdState, newSd,
                    filePos, total, buf0, outFile, clean, errors>>
    BY <1>7 DEF vars
  <2>2. TypeOK /\ ElementInv /\ DmaInv /\ RouteInv /\ PathInv /\ ReadInv /\ EndInv
    BY DEF SInv
  <2>3. TypeOK' /\ ElementInv'
    BY <2>1, <2>2 DEF TypeOK, ElementInv
  <2>4. DmaInv' /\ PathInv' /\ ReadInv' /\ EndInv'
    BY <2>1, <2>2, DmaKept, PathKept, FileKept
  <2>5. RouteInv'
    BY <2>1, <2>2, RouteKept DEF RouteInv, Drained
  <2> QED BY <2>3, <2>4, <2>5 DEF SInv
<1> QED BY <1>1, <1>2, <1>3, <1>4, <1>5, <1>6, <1>7 DEF Next, Main

\* SInv holds throughout: it is the inductive invariant behind the theorems below.
THEOREM Invariance == Spec => []SInv
<1>1. Init => SInv
  BY InitSInv
<1>2. SInv /\ [Next]_vars => SInv'
  BY NextSInv
<1> QED BY <1>1, <1>2, PTL DEF Spec

\* The variables keep their types, the FIFOs their depths and the DMA its chunk
\* (main.cc:525-698, mb_bd.tcl).
THEOREM TypeCorrectness == Spec => []TypeOK
<1>1. SInv => TypeOK
  BY DEF SInv
<1> QED BY <1>1, Invariance, PTL

\* A transfer into dma_buf1 ends with the byte that fills it and TLAST on it: the
\* counter of tlast_gen, which nothing resets, and the DMA's stay a whole number of
\* chunks apart over all sessions (tlast_gen.cpp:26-31, main.cc:651-660).
THEOREM CountersInStep == Spec => []TransfersWhole
<1>1. ASSUME SInv PROVE TransfersWhole
  <2>1. TypeOK /\ ElementInv /\ DmaInv
    BY <1>1 DEF SInv
  <2>2. /\ Chunk \in Nat /\ Chunk >= 2 /\ got \in 0 .. Chunk /\ Len(tlast.out) \in Nat
        /\ Len(tlast.out) <= 1
    <3>1. tlast.out \in Seq(TlastWord) /\ Len(tlast.out) <= 1 /\ got \in 0 .. Chunk
      BY <2>1 DEF TypeOK, ElementInv
    <3> QED BY <3>1, Sizes, LenProperties
  <2>3. PICK n \in Nat : n = got + Len(tlast.out)
    <3>1. got + Len(tlast.out) \in Nat
      BY <2>2, SMT
    <3> QED BY <3>1
  <2>4. n <= Chunk + 1
    BY <2>2, <2>3, SMT
  <2>5. tlast.i = IF n < Chunk THEN n ELSE n - Chunk
    <3>1. Counted = n
      BY <2>3 DEF Counted
    <3> QED BY <2>1, <3>1 DEF DmaInv
  <2>6. tlast.i = n % Chunk
    <3>1. CASE n < Chunk
      <4>1. n % Chunk = n
        BY <2>2, <3>1, SMT
      <4> QED BY <2>5, <3>1, <4>1
    <3>2. CASE n = Chunk
      <4>1. n % Chunk = 0 /\ ~(n < Chunk) /\ n - Chunk = 0
        BY <2>2, <3>2, SMT
      <4> QED BY <2>5, <4>1
    <3>3. CASE n = Chunk + 1
      <4>1. n % Chunk = 1 /\ ~(n < Chunk) /\ n - Chunk = 1
        BY <2>2, <3>3, SMT
      <4> QED BY <2>5, <4>1
    <3> QED BY <2>2, <2>4, <3>1, <3>2, <3>3, SMT
  <2> QED BY <2>1, <2>3, <2>6 DEF TransfersWhole, DmaInv
<1> QED BY <1>1, Invariance, PTL

\* A session whose reads succeed and that finds the path drained writes enc_file
\* byte for byte: the file processed block by block, all of it when the files are
\* closed (main.cc:618-678), for any block size that divides the chunk, any chunk
\* and any depth of the FIFOs between the switches.
THEOREM FileCorrect == Spec => []FileExact
<1>1. ASSUME SInv PROVE FileExact
  <2>1. TypeOK /\ ElementInv /\ PathInv /\ ReadInv /\ EndInv
    BY <1>1 DEF SInv
  <2>2. SUFFICES ASSUME Exact
                 PROVE  /\ \A k \in 1 .. Len(outFile) : outFile[k] = Processed(master, k)
                        /\ pc = "raw to net" => Len(outFile) = FileLen
    BY DEF FileExact, Exact
  <2>3. Len(outFile) \in Nat
    BY <2>1, LenProperties DEF TypeOK
  <2>4. ASSUME NEW k \in 1 .. Len(outFile)
        PROVE  outFile[k] = Processed(master, k)
    <3>1. 0 + k = k
      BY <2>3, SMT
    <3>2. outFile[k] = Processed(master, 0 + k)
      BY <2>1, <2>2 DEF PathInv, EncRun
    <3> QED BY <3>1, <3>2
  <2>5. ASSUME pc = "raw to net"
        PROVE  Len(outFile) = FileLen
    <3>1. Base = Len(outFile) /\ Loaded = 0
      BY <2>5 DEF Base, Loaded, Writing
    <3>2. filePos = Len(outFile) + 0
      BY <2>1, <2>2, <3>1 DEF ReadInv
    <3>3. filePos = FileLen
      BY <2>1, <2>2, <2>5 DEF EndInv
    <3>4. Len(outFile) + 0 = Len(outFile)
      BY <2>3, SMT
    <3> QED BY <3>2, <3>3, <3>4
  <2> QED BY <2>4, <2>5
<1> QED BY <1>1, Invariance, PTL

-----------------------------------------------------------------------------
(* The transfers of a chunk do not wait for each other *)

\* A chunk starts where a block of the core starts.
AlignInv ==
    pc = "wait" /\ clean /\ errors.session = 0 => Len(outFile) % BlockOf[master] = 0

\* When main() starts to feed the core, the core holds nothing: what it has taken
\* of the file it has given back, in whole blocks.
LEMMA StartAligned ==
    ASSUME SInv, StartMm2s
    PROVE  AlignInv'
<1>1. /\ pc = "mm2s" /\ UNCHANGED <<outFile, master, clean, errors>>
  BY DEF StartMm2s, fileVars
<1>2. TypeOK /\ ElementInv /\ DmaInv /\ PathInv
  BY DEF SInv
<1>3. SUFFICES ASSUME clean, errors.session = 0
               PROVE  Len(outFile) % BlockOf[master] = 0
  BY <1>1 DEF AlignInv
<1>4. Exact
  BY <1>1, <1>3 DEF Exact, InSession
<1>5. Base = Len(outFile) /\ Back = got /\ Gone = 0
  BY <1>1 DEF Base, Back, Gone, Writing
<1>6. Len(mm2s) = 0
  BY <1>1, <1>2 DEF DmaInv
<1>7. AtPiece + Len(mm2s) = Base + Gone /\ AtCore % BlockOf[master] = 0
  BY <1>2, <1>4 DEF PathInv
<1>8. /\ Base \in Nat /\ Back \in Nat /\ Len(tlast.out) \in Nat /\ Len(encBuf) \in Nat
      /\ Len(result[master]) \in Nat /\ Len(piece[master]) \in Nat
  BY <1>2, <1>4, Places
<1>9. /\ AtPiece = AtCore + Len(piece[master])
      /\ AtCore = (((Base + Back) + Len(tlast.out)) + Len(encBuf)) + Len(result[master])
  BY DEF AtPiece, AtCore, AtEnc, AtTlast, AtDma
<1>10. PICK b \in Nat, g \in Nat, t \in Nat, e \in Nat, r \in Nat, p \in Nat :
          /\ b = Base /\ g = Back /\ t = Len(tlast.out) /\ e = Len(encBuf)
          /\ r = Len(result[master]) /\ p = Len(piece[master])
  BY <1>8
<1>11. AtCore = Base
  <2>1. AtCore = (((b + g) + t) + e) + r
    BY <1>9, <1>10
  <2>2. ((((((b + g) + t) + e) + r) + p) + 0) = b + 0
    BY <1>5, <1>6, <1>7, <1>9, <1>10, <2>1
  <2>3. (((b + g) + t) + e) + r = b
    BY <2>2, SMT
  <2> QED BY <1>10, <2>1, <2>3
<1> QED BY <1>5, <1>7, <1>11

\* No other step brings main() to the wait, and none changes what it waits for.
LEMMA OnlyMm2sStarts ==
    ASSUME Next, ~StartMm2s, pc' = "wait"
    PROVE  UNCHANGED <<pc, outFile, master, clean, errors>>
<1>1. CASE FlipDip \/ Arrive
  BY <1>1 DEF FlipDip, Arrive, fileVars, mainVars
<1>2. CASE DataPath
  BY <1>2 DEF DataPath, CoreReadNet, CoreReadDma, CoreWrite, ToPacketizer, TlastGen, ToDma,
     fileVars, mainVars
<1>3. CASE RouteRaw \/ ReadSdSwitch \/ EndOfLoop
  BY <1>3 DEF RouteRaw, ReadSdSwitch, EndOfLoop, Goto
<1>4. CASE RawToDma \/ OutToDma \/ OpenFiles \/ TestEof \/ StartS2mm \/ WaitForDma
           \/ RawToNet \/ OutToNet
  BY <1>4 DEF RawToDma, OutToDma, OpenFiles, TestEof, StartS2mm, WaitForDma, RawToNet,
     OutToNet, Goto
<1>5. CASE ReadHalf("read 1", 0, "read 2") \/ ReadHalf("read 2", Half, "s2mm")
  BY <1>5 DEF ReadHalf, Goto
<1>6. CASE WriteHalf("write 1", 0, "write 2") \/ WriteHalf("write 2", Half, "eof")
  BY <1>6 DEF WriteHalf, Goto
<1>7. CASE ReadError
  BY <1>7 DEF ReadError, ReadFails, Goto
<1> QED BY <1>1, <1>2, <1>3, <1>4, <1>5, <1>6, <1>7 DEF Next, Main, Session

LEMMA NextAlign == SInv /\ AlignInv /\ [Next]_vars => AlignInv'
<1> SUFFICES ASSUME SInv, AlignInv, [Next]_vars PROVE AlignInv'
  OBVIOUS
<1>1. CASE StartMm2s
  BY <1>1, StartAligned
<1>2. CASE UNCHANGED <<pc, outFile, master, clean, errors>>
  BY <1>2 DEF AlignInv
<1>3. CASE UNCHANGED vars
  BY <1>2, <1>3 DEF vars
<1>4. CASE pc' # "wait"
  BY <1>4 DEF AlignInv
<1> QED BY <1>1, <1>2, <1>3, <1>4, OnlyMm2sStarts

THEOREM Alignment == Spec => []AlignInv
<1>1. Init => AlignInv
  BY DEF Init, AlignInv
<1>2. SInv /\ AlignInv /\ [Next]_vars => AlignInv'
  BY NextAlign
<1> QED BY <1>1, <1>2, Invariance, PTL DEF Spec

\* Nothing between two multiples of a block is a whole number of blocks away from
\* its start, except the end.
LEMMA LastBlock ==
    ASSUME NEW B \in Nat, B >= 1, NEW o \in Nat, o % B = 0, NEW n \in Nat, n % B = 0,
           NEW g \in Nat, (o + g) % B = 0, g <= n, n - g < B
    PROVE  g = n
<1>1. /\ \E q \in Nat : o = q * B
      /\ \E k \in Nat : n = k * B
      /\ \E m \in Nat : o + g = m * B
  <2>1. \A x \in Nat : x % B = 0 => x \div B \in Nat /\ x = (x \div B) * B
    BY SMT
  <2>2. o + g \in Nat
    BY SMT
  <2> QED BY <2>1, <2>2
<1>2. PICK q \in Nat, k \in Nat, m \in Nat : o = q * B /\ n = k * B /\ o + g = m * B
  BY <1>1
<1>3. PICK d \in Int : d = (q + k) - m
  <2>1. (q + k) - m \in Int
    BY SMT
  <2> QED BY <2>1
<1>4. n - g = d * B
  <2>1. d * B = (q * B + k * B) - m * B
    BY <1>3, SMT
  <2>2. n - g = (o + n) - (o + g)
    BY SMT
  <2> QED BY <1>2, <2>1, <2>2
<1>5. d = 0
  <2>1. d >= 1 => d * B >= B
    BY SMT
  <2>2. d <= -1 => d * B <= -B
    BY SMT
  <2> QED BY <1>4, <2>1, <2>2, SMT
<1>6. d * B = 0
  BY <1>5, SMT
<1> QED BY <1>4, <1>6, SMT

\* The two halves of a chunk's transfers: if the DMA still expects bytes, they are
\* on the path and the first of them can move; if it does not, all have been sent.
LEMMA SomethingMoves ==
    ASSUME SInv, AlignInv, Exact, pc = "wait"
    PROVE  TransferMoves
<1>1. TypeOK /\ ElementInv /\ DmaInv /\ RouteInv /\ PathInv
  BY DEF SInv
<1>2. /\ master \in Cores /\ BlockOf[master] \in Nat /\ BlockOf[master] >= 1
      /\ Len(tlast.out) \in Nat /\ Len(encBuf) \in Nat /\ Len(mm2s) \in Nat
      /\ Len(result[master]) \in Nat /\ Len(piece[master]) \in Nat
      /\ Base \in Nat /\ got \in Nat /\ Chunk \in Nat
  BY <1>1, Places, Sizes
<1>3. Base = Len(outFile) /\ Back = got /\ Gone = Chunk
  BY DEF Base, Back, Gone, Writing
<1>4. Base % BlockOf[master] = 0
  BY <1>3 DEF AlignInv, Exact
<1>5. /\ AtCore % BlockOf[master] = 0
      /\ (AtCore + Len(piece[master])) + Len(mm2s) = Base + Chunk
      /\ AtCore = (((Base + got) + Len(tlast.out)) + Len(encBuf)) + Len(result[master])
  BY <1>1, <1>3 DEF PathInv, AtPiece, AtCore, AtEnc, AtTlast, AtDma
<1>6. outSel = "dma" /\ rawSel = [core |-> master, from |-> "dma"]
  BY <1>1 DEF RouteInv, InSession
<1>7. CASE ~receiving
  <2>1. got = Chunk
    BY <1>1, <1>7 DEF DmaInv
  <2>2. PICK b \in Nat, n \in Nat, t \in Nat, e \in Nat, r \in Nat, p \in Nat,
             m \in Nat :
           /\ b = Base /\ n = Chunk /\ t = Len(tlast.out) /\ e = Len(encBuf)
           /\ r = Len(result[master]) /\ p = Len(piece[master]) /\ m = Len(mm2s)
    BY <1>2
  <2>3. Len(mm2s) = 0
    <3>1. (((((b + n) + t) + e) + r) + p) + m = b + n
      BY <1>5, <2>1, <2>2
    <3>2. m = 0
      BY <3>1, SMT
    <3> QED BY <2>2, <3>2
  <2>4. mm2s = <<>>
    BY <1>1, <2>3, EmptySeq DEF TypeOK
  <2> QED BY <1>7, <2>4 DEF TransferMoves
<1>8. CASE receiving
  <2>1. SUFFICES ASSUME ~TransferMoves PROVE FALSE
    OBVIOUS
  <2>2. tlast.out = <<>> /\ encBuf = <<>>
    BY <1>6, <1>8, <2>1 DEF TransferMoves
  <2>3. Len(tlast.out) = 0 /\ Len(encBuf) = 0
    BY <2>2, EmptySeq
  <2>4. 0 < EncDepth
    <3>1. EncDepth \in Nat \ {0}
      BY SdCardAssumption DEF SdCardAssumption
    <3> QED BY <3>1, SMT
  <2>5. result[master] = <<>>
    BY <1>2, <2>1, <2>3, <2>4 DEF TransferMoves
  <2>6. mm2s = <<>>
    BY <1>2, <1>6, <2>1, <2>5 DEF TransferMoves
  <2>7. Len(result[master]) = 0 /\ Len(mm2s) = 0
    BY <2>5, <2>6, EmptySeq
  <2>8. AtCore = Base + got /\ (Base + got) + Len(piece[master]) = Base + Chunk
    <3>1. PICK b \in Nat, g \in Nat, p \in Nat :
             b = Base /\ g = got /\ p = Len(piece[master])
      BY <1>2
    <3>2. AtCore = (((b + g) + 0) + 0) + 0 /\ (AtCore + p) + 0 = b + Chunk
      BY <1>5, <2>3, <2>7, <3>1
    <3>3. (((b + g) + 0) + 0) + 0 = b + g /\ ((b + g) + p) + 0 = (b + g) + p
      BY SMT
    <3> QED BY <3>1, <3>2, <3>3
  <2>9. (Base + got) % BlockOf[master] = 0
    BY <1>5, <2>8
  <2>10. Chunk % BlockOf[master] = 0
    BY <1>2, SdCardAssumption DEF SdCardAssumption
  <2>11. Len(piece[master]) < BlockOf[master]
    BY <1>1, <1>2 DEF TypeOK
  <2>12. got < Chunk
    BY <1>1, <1>8 DEF DmaInv
  <2>13. got <= Chunk /\ Chunk - got < BlockOf[master]
    <3>1. \A b, g, p, n, z \in Nat : (b + g) + p = b + n /\ p < z /\ g < n =>
             g <= n /\ n - g < z
      BY SMT
    <3> QED BY <1>2, <2>8, <2>11, <2>12, <3>1
  <2>14. got = Chunk
    BY <1>2, <1>4, <2>9, <2>10, <2>13, LastBlock
  <2> QED BY <1>2, <2>12, <2>14, SMT
<1> QED BY <1>7, <1>8

\* In a session that finds the path drained and can read the card, main() never
\* waits for two transfers that wait for each other (main.cc:646-661), for any
\* depth of enc_data_buf and any block that divides the chunk: were it not to, the
\* core would hold the rest of a block the DMA does not send.
THEOREM NoHang == Spec => []NeverHangs
<1>1. SInv /\ AlignInv => NeverHangs
  BY SomethingMoves DEF NeverHangs, Exact, InSession
<1> QED BY <1>1, Invariance, Alignment, PTL
=============================================================================
