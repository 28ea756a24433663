------------------------------- MODULE SdCard -------------------------------
(***************************************************************************)
(* The data path around the encryption cores and the MicroBlaze loop that  *)
(* lends it to the SD card: raw_data_buf and the DMA feed the DES or the   *)
(* AES core through axis_switch_raw_data; both cores fill enc_data_buf;    *)
(* axis_switch_out_sel empties it into the UDP packetizer or, through      *)
(* tlast_gen, into the DMA.                                                *)
(*                                                                         *)
(* Sources: src/main.cc:525-698, HLS/des/des.cpp:500-533,                  *)
(* HLS/aes/AES.cpp:115-143, HLS/tlas_gen/tlast_gen.cpp, mb_bd.tcl.         *)
(*                                                                         *)
(* A byte is named by where it comes from; an encrypted byte by its core,  *)
(* the block of raw bytes it was computed from and its place in the block. *)
(* A switch changes its routing in one step, when RegUpdateEnable commits  *)
(* what MiPortDisableAll and MiPortEnable have prepared.                   *)
(***************************************************************************)
EXTENDS Naturals, Sequences

CONSTANTS
    BlockOf,    \* bytes per block of each core (DES 8, AES 16)
    Half,       \* bytes per fsread and fswrite (512); a DMA transfer has two
    RawDepth,   \* depth of raw_data_buf (2048)
    EncDepth,   \* depth of enc_data_buf (2048)
    FileLen,    \* length of the file rand1M
    NetBytes,   \* bound: payload bytes the network delivers
    MaxFlips,   \* bound: how often the user moves a DIP switch
    MaxErrors   \* bound: how many reads of the SD card fail

Cores == {"DES", "AES"}
Chunk == 2 * Half

ASSUME SdCardAssumption ==
    /\ BlockOf \in [Cores -> Nat \ {0}]
    /\ {Half, RawDepth, EncDepth} \subseteq Nat \ {0}
    /\ {FileLen, NetBytes, MaxFlips, MaxErrors} \subseteq Nat
    /\ \A c \in Cores : Chunk % BlockOf[c] = 0

VARIABLES
    dip,        \* the DIP switches: [core, sd]
    flips,      \* how often they have been moved
    arrived,    \* payload bytes the depacketizer has delivered
    rawBuf,     \* raw_data_buf
    rawSel,     \* axis_switch_raw_data: which core is fed, from where
    piece,      \* piece[c]: the block core c is collecting
    result,     \* result[c]: the processed bytes core c has yet to write
    encBuf,     \* enc_data_buf
    outSel,     \* axis_switch_out_sel: "net" or "dma"
    netOut,     \* the bytes handed to the packetizer
    tlast,      \* tlast_gen: its loop counter and the word it has yet to write
    mm2s,       \* the bytes the DMA has yet to send
    buf1,       \* dma_buf1
    got,        \* how many bytes the transfer into dma_buf1 has received
    receiving,  \* that transfer is running
    pc,         \* where main() is
    master,     \* enabled_master
    sdState,    \* sd_state
    newSd,      \* new_sd_state
    filePos,    \* bytes read from the input file
    total,      \* totalBytesRead
    buf0,       \* dma_buf0
    outFile,    \* the bytes written to enc_file
    clean,      \* history: the path was drained when the output was switched
    errors      \* history: reads that failed, [all, session]

dipVars  == <<dip, flips>>
netVars  == <<arrived, rawBuf>>
coreVars == <<piece, result>>
dmaVars  == <<tlast, mm2s, buf1, got, receiving>>
fileVars == <<filePos, total, buf0, outFile, errors>>
mainVars == <<pc, master, sdState, newSd, clean>>
vars == <<dip, flips, arrived, rawBuf, rawSel, piece, result, encBuf, outSel, netOut,
          tlast, mm2s, buf1, got, receiving, pc, master, sdState, newSd, filePos, total,
          buf0, outFile, clean, errors>>

RawByte == [src : {"net", "sd", "stale"}, n : Nat]
EncByte == [by : Cores, blk : Seq(RawByte), i : Nat \ {0}]

NetByte(n) == [src |-> "net", n |-> n]
SdByte(n)  == [src |-> "sd", n |-> n]
Stale      == [src |-> "stale", n |-> 0]
NoByte     == [by |-> "none"]       \* what dma_buf1 holds before any transfer

Init ==
    /\ dip \in [core : Cores, sd : {0, 1}]
    /\ flips = 0
    /\ arrived = 0
    /\ rawBuf = <<>>
    /\ rawSel = [core |-> "none", from |-> "none"]
    /\ piece = [c \in Cores |-> <<>>]
    /\ result = [c \in Cores |-> <<>>]
    /\ encBuf = <<>>
    /\ outSel = "net"
    /\ netOut = <<>>
    /\ tlast = [i |-> 0, out |-> <<>>]
    /\ mm2s = <<>>
    /\ buf1 = [j \in 1 .. Chunk |-> NoByte]
    /\ got = 0
    /\ receiving = FALSE
    /\ pc = "loop"
    /\ master \in Cores
    /\ sdState = dip.sd
    /\ newSd = dip.sd
    /\ filePos = 0
    /\ total = 0
    /\ buf0 = [j \in 1 .. Chunk |-> Stale]
    /\ outFile = <<>>
    /\ clean = TRUE
    /\ errors = [all |-> 0, session |-> 0]

-----------------------------------------------------------------------------
(* The user and the network *)

FlipDip ==
    /\ flips < MaxFlips
    /\ flips' = flips + 1
    /\ dip' \in [core : Cores, sd : {0, 1}] \ {dip}
    /\ UNCHANGED <<netVars, rawSel, coreVars, encBuf, outSel, netOut, dmaVars, fileVars,
                   mainVars>>

\* udp_depacketizer writes a payload byte into raw_data_buf.
Arrive ==
    /\ arrived < NetBytes
    /\ Len(rawBuf) < RawDepth
    /\ arrived' = arrived + 1
    /\ rawBuf' = Append(rawBuf, NetByte(arrived + 1))
    /\ UNCHANGED <<dipVars, rawSel, coreVars, encBuf, outSel, netOut, dmaVars, fileVars,
                   mainVars>>

-----------------------------------------------------------------------------
(* The cores *)

\* Mutant of Collect: a core takes one byte more than a block.
CollectOver(c, b) ==
    LET blk == Append(piece[c], b)
    IN  IF Len(blk) <= BlockOf[c]
        THEN /\ piece' = [piece EXCEPT ![c] = blk]
             /\ UNCHANGED result
        ELSE /\ piece' = [piece EXCEPT ![c] = <<>>]
             /\ result' = [result EXCEPT ![c] =
                              [i \in 1 .. BlockOf[c] |-> [by |-> c, blk |-> blk, i |-> i]]]

\* A byte enters core c: inp_strm.read(); the block is processed once full.
Collect(c, b) ==
    LET blk == Append(piece[c], b)
    IN  IF Len(blk) < BlockOf[c]
        THEN /\ piece' = [piece EXCEPT ![c] = blk]
             /\ UNCHANGED result
        ELSE /\ piece' = [piece EXCEPT ![c] = <<>>]
             /\ result' = [result EXCEPT ![c] =
                              [i \in 1 .. BlockOf[c] |-> [by |-> c, blk |-> blk, i |-> i]]]

\* Core c reads from whichever input the switch connects it to.
CoreReadNet(c) ==
    /\ rawSel = [core |-> c, from |-> "net"]
    /\ result[c] = <<>>
    /\ rawBuf # <<>>
    /\ Collect(c, Head(rawBuf))
    /\ rawBuf' = Tail(rawBuf)
    /\ UNCHANGED <<dipVars, arrived, rawSel, encBuf, outSel, netOut, dmaVars, fileVars,
                   mainVars>>

CoreReadDma(c) ==
    /\ rawSel = [core |-> c, from |-> "dma"]
    /\ result[c] = <<>>
    /\ mm2s # <<>>
    /\ Collect(c, Head(mm2s))
    /\ mm2s' = Tail(mm2s)
    /\ UNCHANGED <<dipVars, netVars, rawSel, encBuf, outSel, netOut, tlast, buf1, got,
                   receiving, fileVars, mainVars>>

\* out_strm.write(): axis_switch_enc_data serves whichever core has a byte.
CoreWrite(c) ==
    /\ result[c] # <<>>
    /\ Len(encBuf) < EncDepth
    /\ encBuf' = Append(encBuf, Head(result[c]))
    /\ result' = [result EXCEPT ![c] = Tail(@)]
    /\ UNCHANGED <<dipVars, netVars, rawSel, piece, outSel, netOut, dmaVars, fileVars,
                   mainVars>>

-----------------------------------------------------------------------------
(* The two consumers of enc_data_buf *)

ToPacketizer ==
    /\ outSel = "net"
    /\ encBuf # <<>>
    /\ netOut' = Append(netOut, Head(encBuf))
    /\ encBuf' = Tail(encBuf)
    /\ UNCHANGED <<dipVars, netVars, rawSel, coreVars, outSel, dmaVars, fileVars, mainVars>>

\* Mutant of TlastGen: the mark comes one byte early.
TlastGenEarly ==
    /\ outSel = "dma"
    /\ encBuf # <<>>
    /\ tlast.out = <<>>
    /\ tlast' = [i   |-> (tlast.i + 1) % Chunk,
                 out |-> <<[byte |-> Head(encBuf), last |-> tlast.i = Chunk - 2]>>]
    /\ encBuf' = Tail(encBuf)
    /\ UNCHANGED <<dipVars, netVars, rawSel, coreVars, outSel, netOut, mm2s, buf1, got,
                   receiving, fileVars, mainVars>>

\* tlast_gen takes a byte, counts it and marks every Chunk-th one.
TlastGen ==
    /\ outSel = "dma"
    /\ encBuf # <<>>
    /\ tlast.out = <<>>
    /\ tlast' = [i   |-> (tlast.i + 1) % Chunk,
                 out |-> <<[byte |-> Head(encBuf), last |-> tlast.i = Chunk - 1]>>]
    /\ encBuf' = Tail(encBuf)
    /\ UNCHANGED <<dipVars, netVars, rawSel, coreVars, outSel, netOut, mm2s, buf1, got,
                   receiving, fileVars, mainVars>>

\* The DMA stores the byte; TLAST ends the transfer, and so does its length.
ToDma ==
    /\ receiving
    /\ tlast.out # <<>>
    /\ buf1' = [buf1 EXCEPT ![got + 1] = Head(tlast.out).byte]
    /\ got' = got + 1
    /\ receiving' = (~Head(tlast.out).last /\ got + 1 < Chunk)
    /\ tlast' = [tlast EXCEPT !.out = <<>>]
    /\ UNCHANGED <<dipVars, netVars, rawSel, coreVars, encBuf, outSel, netOut, mm2s,
                   fileVars, mainVars>>

-----------------------------------------------------------------------------
(* main() *)

Goto(l) == pc' = l

\* dipsw is read once for the core: the raw data comes from the network.
RouteRaw ==
    /\ pc = "loop"
    /\ master' = dip.core
    /\ rawSel' = [core |-> dip.core, from |-> "net"]
    /\ Goto("sd")
    /\ UNCHANGED <<dipVars, netVars, coreVars, encBuf, outSel, netOut, dmaVars, fileVars,
                   sdState, newSd, clean>>

\* ... and again for the SD switch: moving it starts a session.
ReadSdSwitch ==
    /\ pc = "sd"
    /\ newSd' = dip.sd
    /\ Goto(IF sdState # dip.sd THEN "raw to dma" ELSE "end")
    /\ UNCHANGED <<dipVars, netVars, rawSel, coreVars, encBuf, outSel, netOut, dmaVars,
                   fileVars, master, sdState, clean>>

RawToDma ==
    /\ pc = "raw to dma"
    /\ rawSel' = [core |-> master, from |-> "dma"]
    /\ Goto("out to dma")
    /\ UNCHANGED <<dipVars, netVars, coreVars, encBuf, outSel, netOut, dmaVars, fileVars,
                   master, sdState, newSd, clean>>

\* Nothing of the network is left between the two switches.
Drained ==
    /\ piece[master] = <<>>
    /\ \A c \in Cores : result[c] = <<>>
    /\ encBuf = <<>>
    /\ tlast.out = <<>>

OutToDma ==
    /\ pc = "out to dma"
    /\ outSel' = "dma"
    /\ clean' = Drained
    /\ Goto("open")
    /\ UNCHANGED <<dipVars, netVars, rawSel, coreVars, encBuf, netOut, dmaVars, fileVars,
                   master, sdState, newSd>>

\* fsopen with FA_CREATE_ALWAYS truncates enc_file.
OpenFiles ==
    /\ pc = "open"
    /\ filePos' = 0
    /\ total' = 0
    /\ outFile' = <<>>
    /\ errors' = [errors EXCEPT !.session = 0]
    /\ Goto("eof")
    /\ UNCHANGED <<dipVars, netVars, rawSel, coreVars, encBuf, outSel, netOut, dmaVars,
                   buf0, master, sdState, newSd, clean>>

\* Mutant of TestEof: the test is one byte late.
TestEofLate ==
    /\ pc = "eof"
    /\ Goto(IF filePos > FileLen THEN "raw to net" ELSE "read 1")
    /\ UNCHANGED <<dipVars, netVars, rawSel, coreVars, encBuf, outSel, netOut, dmaVars,
                   fileVars, master, sdState, newSd, clean>>

\* while(!input_file.fseof())
TestEof ==
    /\ pc = "eof"
    /\ Goto(IF filePos = FileLen THEN "raw to net" ELSE "read 1")
    /\ UNCHANGED <<dipVars, netVars, rawSel, coreVars, encBuf, outSel, netOut, dmaVars,
                   fileVars, master, sdState, newSd, clean>>

\* Mutant of ReadHalf: totalBytesRead is not reset for the next loop.
ReadHalfOnward(here, off, next) ==
    LET n == IF Half - total < FileLen - filePos THEN Half - total ELSE FileLen - filePos
    IN  /\ pc = here
        /\ filePos' = filePos + n
        /\ buf0' = [j \in 1 .. Chunk |->
                       IF j \in (off + total + 1) .. (off + total + n)
                       THEN SdByte(filePos + j - off - total) ELSE buf0[j]]
        /\ IF total + n < Half
           THEN total' = total + n /\ UNCHANGED pc
           ELSE total' = total + n /\ Goto(next)
        /\ UNCHANGED <<dipVars, netVars, rawSel, coreVars, encBuf, outSel, netOut, dmaVars,
                       outFile, errors, master, sdState, newSd, clean>>

\* One iteration of a do ... while(totalBytesRead < 512 && ifr == FR_OK) loop
\* that fills the half of dma_buf0 that starts after offset off.  At the end
\* of the file fsread returns FR_OK and no bytes, and the loop goes on.
ReadHalf(here, off, next) ==
    LET n == IF Half - total < FileLen - filePos THEN Half - total ELSE FileLen - filePos
    IN  /\ pc = here
        /\ filePos' = filePos + n
        /\ buf0' = [j \in 1 .. Chunk |->
                       IF j \in (off + total + 1) .. (off + total + n)
                       THEN SdByte(filePos + j - off - total) ELSE buf0[j]]
        /\ IF total + n < Half
           THEN total' = total + n /\ UNCHANGED pc
           ELSE total' = 0 /\ Goto(next)
        /\ UNCHANGED <<dipVars, netVars, rawSel, coreVars, encBuf, outSel, netOut, dmaVars,
                       outFile, errors, master, sdState, newSd, clean>>

\* fsread fails: the loop ends and main goes on with what dma_buf0 holds.
ReadFails(here, next) ==
    /\ pc = here
    /\ errors.all < MaxErrors
    /\ errors' = [all |-> errors.all + 1, session |-> errors.session + 1]
    /\ total' = 0
    /\ Goto(next)
    /\ UNCHANGED <<dipVars, netVars, rawSel, coreVars, encBuf, outSel, netOut, dmaVars,
                   filePos, buf0, outFile, master, sdState, newSd, clean>>

StartS2mm ==
    /\ pc = "s2mm"
    /\ got' = 0
    /\ receiving' = TRUE
    /\ Goto("mm2s")
    /\ UNCHANGED <<dipVars, netVars, rawSel, coreVars, encBuf, outSel, netOut, tlast,
                   mm2s, buf1, fileVars, master, sdState, newSd, clean>>

StartMm2s ==
    /\ pc = "mm2s"
    /\ mm2s' = buf0
    /\ Goto("wait")
    /\ UNCHANGED <<dipVars, netVars, rawSel, coreVars, encBuf, outSel, netOut, tlast,
                   buf1, got, receiving, fileVars, master, sdState, newSd, clean>>

\* Mutant of WaitForDma: it waits for the sending half only.
WaitForSend ==
    /\ pc = "wait"
    /\ mm2s = <<>>
    /\ Goto("write 1")
    /\ UNCHANGED <<dipVars, netVars, rawSel, coreVars, encBuf, outSel, netOut, dmaVars,
                   fileVars, master, sdState, newSd, clean>>

\* while(Busy(DEVICE_TO_DMA) || Busy(DMA_TO_DEVICE));
WaitForDma ==
    /\ pc = "wait"
    /\ ~receiving
    /\ mm2s = <<>>
    /\ Goto("write 1")
    /\ UNCHANGED <<dipVars, netVars, rawSel, coreVars, encBuf, outSel, netOut, dmaVars,
                   fileVars, master, sdState, newSd, clean>>

\* fswrite(dma_buf1 + off, 512)
WriteHalf(here, off, next) ==
    /\ pc = here
    /\ outFile' = outFile \o SubSeq(buf1, off + 1, off + Half)
    /\ Goto(next)
    /\ UNCHANGED <<dipVars, netVars, rawSel, coreVars, encBuf, outSel, netOut, dmaVars,
                   filePos, total, buf0, errors, master, sdState, newSd, clean>>

RawToNet ==
    /\ pc = "raw to net"
    /\ rawSel' = [core |-> master, from |-> "net"]
    /\ Goto("out to net")
    /\ UNCHANGED <<dipVars, netVars, coreVars, encBuf, outSel, netOut, dmaVars, fileVars,
                   master, sdState, newSd, clean>>

\* Mutant of OutToNet: the output is not given back to the network.
OutStays ==
    /\ pc = "out to net"
    /\ outSel' = outSel
    /\ Goto("end")
    /\ UNCHANGED <<dipVars, netVars, rawSel, coreVars, encBuf, netOut, dmaVars, fileVars,
                   master, sdState, newSd, clean>>

OutToNet ==
    /\ pc = "out to net"
    /\ outSel' = "net"
    /\ Goto("end")
    /\ UNCHANGED <<dipVars, netVars, rawSel, coreVars, encBuf, netOut, dmaVars, fileVars,
                   master, sdState, newSd, clean>>

\* sd_state = new_sd_state; sleep(1)
EndOfLoop ==
    /\ pc = "end"
    /\ sdState' = newSd
    /\ Goto("loop")
    /\ UNCHANGED <<dipVars, netVars, rawSel, coreVars, encBuf, outSel, netOut, dmaVars,
                   fileVars, master, newSd, clean>>

Session ==
    \/ RawToDma \/ OutToDma \/ OpenFiles \/ TestEof
    \/ ReadHalf("read 1", 0, "read 2") \/ ReadHalf("read 2", Half, "s2mm")
    \/ StartS2mm \/ StartMm2s \/ WaitForDma
    \/ WriteHalf("write 1", 0, "write 2") \/ WriteHalf("write 2", Half, "eof")
    \/ RawToNet \/ OutToNet

ReadError == ReadFails("read 1", "read 2") \/ ReadFails("read 2", "s2mm")

Main == RouteRaw \/ ReadSdSwitch \/ Session \/ EndOfLoop

DataPath ==
    \/ \E c \in Cores : CoreReadNet(c) \/ CoreReadDma(c) \/ CoreWrite(c)
    \/ ToPacketizer
    \/ TlastGen
    \/ ToDma

Next == FlipDip \/ Arrive \/ DataPath \/ Main \/ ReadError

\* The hardware never rests, and main() runs for ever; nothing forces the
\* user, the network or the card's errors.
Fairness ==
    /\ \A c \in Cores : WF_vars(CoreReadNet(c) \/ CoreReadDma(c)) /\ WF_vars(CoreWrite(c))
    /\ WF_vars(ToPacketizer) /\ WF_vars(TlastGen) /\ WF_vars(ToDma)
    /\ WF_vars(Main)

Spec == Init /\ [][Next]_vars /\ Fairness

-----------------------------------------------------------------------------
(* Properties *)

InSession == {"eof", "read 1", "read 2", "s2mm", "mm2s", "wait", "write 1", "write 2",
              "raw to net"}

TypeOK ==
    /\ dip \in [core : Cores, sd : {0, 1}]
    /\ flips \in 0 .. MaxFlips
    /\ arrived \in 0 .. NetBytes
    /\ rawBuf \in Seq(RawByte) /\ Len(rawBuf) <= RawDepth
    /\ rawSel \in [core : Cores, from : {"net", "dma"}] \cup
                  {[core |-> "none", from |-> "none"]}
    /\ \A c \in Cores : /\ piece[c] \in Seq(RawByte) /\ Len(piece[c]) < BlockOf[c]
                        /\ result[c] \in Seq(EncByte) /\ Len(result[c]) <= BlockOf[c]
    /\ encBuf \in Seq(EncByte) /\ Len(encBuf) <= EncDepth
    /\ outSel \in {"net", "dma"}
    /\ netOut \in Seq(EncByte)
    /\ tlast.i \in 0 .. Chunk - 1 /\ Len(tlast.out) <= 1
    /\ mm2s \in Seq(RawByte) /\ Len(mm2s) <= Chunk
    /\ buf1 \in [1 .. Chunk -> EncByte \cup {NoByte}]
    /\ got \in 0 .. Chunk /\ receiving \in BOOLEAN
    /\ pc \in InSession \cup {"loop", "sd", "raw to dma", "out to dma", "open",
                              "out to net", "end"}
    /\ master \in Cores /\ {sdState, newSd} \subseteq {0, 1}
    /\ filePos \in 0 .. FileLen /\ total \in 0 .. Half - 1
    /\ buf0 \in [1 .. Chunk -> RawByte]
    /\ outFile \in Seq(EncByte)
    /\ clean \in BOOLEAN
    /\ errors \in [all : 0 .. MaxErrors, session : 0 .. MaxErrors]

\* Byte k of the file as core c processes it when the file is all it sees.
Processed(c, k) ==
    LET first == ((k - 1) \div BlockOf[c]) * BlockOf[c]
    IN  [by  |-> c,
         blk |-> [j \in 1 .. BlockOf[c] |-> SdByte(first + j)],
         i   |-> k - first]

\* A session whose reads succeed and that finds the path drained writes to
\* enc_file the file processed block by block, each byte in its place and once,
\* and all of it by the time the files are closed (main.cc:618-678): the two
\* halves of a buffer, the two transfers, the blocks of the core and the counter
\* of tlast_gen stay in step from chunk to chunk and from session to session.
FileExact ==
    pc \in InSession /\ clean /\ errors.session = 0 =>
        /\ \A k \in 1 .. Len(outFile) : outFile[k] = Processed(master, k)
        /\ pc = "raw to net" => Len(outFile) = FileLen

\* A transfer into dma_buf1 ends with its last byte full and its TLAST: the
\* counter of tlast_gen (tlast_gen.cpp:26-31) and the DMA's agree, although
\* nothing ever resets the first one, whatever bytes the path carries when the
\* switches turn.
TransfersWhole ==
    /\ ~receiving => got \in {0, Chunk}
    /\ tlast.i = (got + Len(tlast.out)) % Chunk

\* One of the two transfers of a chunk has a byte to move, or both are complete.
TransferMoves ==
    \/ ~receiving /\ mm2s = <<>>
    \/ receiving /\ tlast.out # <<>>
    \/ outSel = "dma" /\ encBuf # <<>> /\ tlast.out = <<>>
    \/ \E c \in Cores :
          \/ result[c] # <<>> /\ Len(encBuf) < EncDepth
          \/ rawSel = [core |-> c, from |-> "dma"] /\ result[c] = <<>> /\ mm2s # <<>>

\* In a session that finds the path drained and can read the card, main() never
\* waits for transfers that wait for each other (main.cc:646-661): whatever the
\* depth of enc_data_buf, a core does not sit on bytes the DMA still expects.
NeverHangs == pc = "wait" /\ clean /\ errors.session = 0 => TransferMoves

\* Every byte of enc_file is computed from bytes of the SD card alone: "the
\* input to encryption cores now comes from the DMA" and "the output of
\* encryption cores goes to the DMA" (main.cc:605, 612).
SdFileFromSdOnly ==
    pc \in InSession /\ errors.session = 0 =>
        \A k \in 1 .. Len(outFile) :
            \A j \in 1 .. Len(outFile[k].blk) : outFile[k].blk[j].src = "sd"

\* "Wait for transfers to complete" (main.cc:660): the wait is not for ever.
TransfersComplete == (pc = "wait") ~> (pc # "wait")

\* The bytes that are processed and not yet with the DMA.  While it takes none,
\* there is room for EncDepth of them in enc_data_buf and for one in tlast_gen.
Unsent ==
    Len(encBuf) + Len(result["DES"]) + Len(result["AES"]) + Len(tlast.out)

\* A session that finds no more processed bytes in the path than it has room for
\* between the cores and the DMA ends, and gives the switches back to the network
\* (main.cc:627-693): although old bytes fill the first transfer and the core
\* may hold a part of a block, the two transfers of a chunk then never wait for
\* each other for ever.  A session that finds one byte more can hang
\* (TransfersComplete).  This is for a file of whole chunks and reads that
\* succeed: a failed one leaves the position in the file half a chunk off, and
\* the loop then spins at its end.
SessionEnds ==
    (pc = "eof" /\ filePos = 0 /\ Unsent <= EncDepth + 1)
        ~> ((pc = "end" /\ outSel = "net") \/ errors.session > 0)

\* Nothing waits on the way of the network: the path holds only parts of blocks.
Served ==
    /\ rawBuf = <<>> /\ encBuf = <<>>
    /\ \A c \in Cores : result[c] = <<>>
    /\ outSel = "net"

\* The network gets the cores back (main.cc:682-693).  Provided main() returns to
\* the head of its loop again and again, that is no session hangs or spins: once
\* the user leaves the switches alone, all that waited in raw_data_buf, in either
\* core or in enc_data_buf is processed and gone, to the packetizer but for the
\* byte tlast_gen can take before the output is switched back too (686-693).  What
\* fills no block stays in its core.
NetworkResumes == []<>(pc = "loop") => <>[]Served
=============================================================================
