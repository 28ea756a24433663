# A verification of the network-attached encryption accelerator

The accelerator is an FPGA design: HLS cores (`HLS/`) connected by AXI streams
and FIFOs (`mb_bd.tcl`), a MicroBlaze program (`src/main.cc`) and a Xilinx
Ethernet MAC (TEMAC). Hosts send data in UDP datagrams and get it back encrypted
with DES or AES; a DIP switch makes the board encrypt a file of its SD card
instead. The modules in this directory model the program's own logic as TLA+
state machines, check it with TLC on small instances, and prove some of it with
TLAPS for every instance.

## The system

```
 TEMAC -> network_rx_fifo -> parser -> packet_buffer -> distributer -> arp_input_buffer  -> arp  ----+
                               |                          ^       |--> icmp_input_buffer -> icmp ----|
                               +------- prot_fifo --------+       |--> udp_reg_buf  -> udp_reg ------|
                                                                  +--> udp_rcv_buf                    |
                                                                            |                         |
    +------------- dst_ip, dst_mac ------------------------------- udp_depacketizer                   |
    |                                                                       |                         |
    |                            DMA (dma_buf0) --> axis_switch_raw_data <- raw_data_buf              |
    |                                                  |          |                                   |
    |                                                 des     aes_cipher                              |
    |                                                  |          |                                   |
    |                                              axis_switch_enc_data -> enc_data_buf               |
    |                                                                       |                         |
    |     DMA (dma_buf1) <- tlast_gen <------- axis_switch_out_sel <--------+                         |
    |                                                  |                                              |
    +----------------------------------------> udp_packetizer ----> output buffers <------------------+
                                                                            |
                                 TEMAC <- network_tx_fifo <- axis_switch_0 -+
```

### Inventory

| Component | State | Operations | Interacts through | What makes it correct | Module |
|---|---|---|---|---|---|
| parser (`HLS/parser`) | loop counters, the headers read so far | read and pass the headers, write the verdict, pass the rest | `packet_buffer`, `prot_fifo` | one verdict per frame, in order; never blocks for good | `Ingress` |
| distributer (`HLS/distributer`) | `detected_prot` | read a verdict, pass a frame to one core, discard it | `prot_fifo`, `packet_buffer`, four input buffers | frame and verdict belong together, nothing lost | `Ingress` |
| arp (`HLS/arp`) | MAC and IP registers | read a request, answer or ignore it | input and output buffer | back at the start of a frame after every frame; one reply per request to the board | `Responders` |
| icmp (`HLS/icmp`) | registers, options | read, answer an echo request or discard | input and output buffer | as arp; reply checksums right | `Responders`, `Checksums` (arithmetic) |
| udp_reg (`HLS/udp_reg`) | `data_buf`, `buf_cnt` | register writes, register reads with a reply | buffers, AXI memory (the key registers) | as arp; replies framed, lengths consistent, reads see earlier writes | `Responders` |
| udp_depacketizer | two destination wires | strip headers, set the wires, pass the payload | `udp_rcv_buf`, `raw_data_buf`, the wires | stream in order; wires set before the data | `UdpStream` |
| udp_packetizer | `data_buf`, counters | collect, write headers, write payload | `axis_switch_out_sel`, the wires, `udp_output_buffer` | framing, order, destination, checksums | `UdpStream`, `Checksums` |
| des, aes_cipher | one block, the round keys | read a block, process, write a block | the two stream switches; the program writes keys and mode | blocks never mix; the cipher is the standard's | stream side: `SdCard`, `UdpStream`; ciphers: `Des`, `Aes`, `Ciphers`; key memories: `KeyLoad` |
| tlast_gen | loop counter | mark every 1024th byte | `axis_switch_out_sel`, DMA | in step with the DMA's transfers | `SdCard` |
| main loop, SD session | `sd_state`, file positions, DMA buffers | route, start/await transfers, read and write files | switch registers, DMA, SD card, DIP switches | the file is processed exactly; sessions end; the network resumes | `SdCard` |
| key schedules, key loading (`main.cc:542-589`) | key registers, round keys | read keys, expand, write them to the cores | BRAM shared with udp_reg, core registers | no lasting mix of two keys; one key per file; the schedules are the standard's | `KeyLoad`; `Des` and `Aes` (the expansion) |
| aggregator (`axis_switch_0`), output buffers | the granted port, the port before | collect a frame, arbitrate, pass it on | output buffers, `network_tx_fifo` | frames never interleave, never stall halfway, no source starves | `Egress`, `FrameMerge` |
| PHY/MAC bring-up, SD driver, TEMAC client FIFOs, top level, scripts, test benches | – | – | – | – | not modelled, reasons in `PROJECT.json` |

Hard behaviours: the cores are separate processes that only meet in bounded
FIFOs (mutual waiting, back-pressure in the middle of a frame, two FIFOs that
must stay aligned without any tag); the program turns stream switches while
data is in flight, and its two DMA transfers depend on each other; the DIP
switches move at any time and are read twice per loop; the key words are read
while a host writes them and the round keys rewritten under running cores; destination wires are
written and read at the two ends of a long pipeline; a TLAST counter is never
reset; checksums are updated incrementally. `PROJECT.json` lists each hazard at
its line.

## Modules

| Module | Models | Extends / instances |
|---|---|---|
| `Descent` | the order on tuples of numbers in which the work ahead of a path becomes less | – |
| `Frames` | frame classes and stream words (`network.h`, the constants of `parser.cpp`) | – |
| `FrameRouter` | abstract: every core is given the frames of its class, whole, in order | `Frames` |
| `Ingress` | parser, distributer and the FIFOs between network and cores | `Frames`, `Descent`, `FrameRouter` as `Router` |
| `IngressProofs` | the theorems about `Ingress` | `Ingress`, TLAPS |
| `SdCard` | the cores' stream side, the switches, tlast_gen, the DMA and the main loop | – |
| `SdCardProofs` | the theorems about `SdCard` | `SdCard`, TLAPS |
| `Repacketizer` | abstract: bytes are taken in order and given back in packets announced once their bytes are there | – |
| `UdpStream` | depacketizer, a core, packetizer, the FIFOs and wires between them | `Descent`, `Repacketizer` as `Path` |
| `UdpStreamProofs` | the theorems about `UdpStream`, the refinement among them | `UdpStream`, TLAPS |
| `Responders` | arp, icmp and udp_reg, from the first word of a frame to the TLAST of the reply | `Descent` |
| `ResponderProofs` | the theorems about `Responders` | `Responders`, TLAPS |
| `Checksums`, `ChecksumProofs` | checksum arithmetic of icmp and udp_packetizer; the theorem about the reply header | – ; `Checksums`, TLAPS |
| `FrameMerge` | abstract: several sources share one line, one whole frame at a time | – |
| `Egress` | output buffers, `axis_switch_0`, `network_tx_fifo` | `Descent`, `FrameMerge` as `Merge` |
| `EgressProofs` | the theorems about `Egress`, the refinement among them | `Egress`, TLAPS |
| `KeyLoad` | key registers, the key part of the main loop, the cores' reads of their key memories | – |
| `KeyLoadProofs` | the theorems about `KeyLoad` | `KeyLoad`, TLAPS |
| `DesTables`, `Des` | the tables; `generate_sub_keys`, `process_message`, `des` | – ; `DesTables` |
| `AesTables`, `Aes` | the tables; `KeyExpansion`, `aes_cipher` | – ; `AesTables` |
| `Ciphers` | one key for both cores, a block for one of them | `Des`, `Aes` |
| `CipherProofs` | the theorems about `Des`, `Aes` and `Ciphers` | `Ciphers`, TLAPS |
| `MCIngress`, `MCSdCard`, `MCUdpStream`, `MCResponders`, `MCChecksums`, `MCEgress`, `MCKeyLoad`, `MCCiphers` | instances for TLC | the above |

### From code to actions

*A pipelined loop iteration is an action.* `word = input.read(); output.write(word)`
in a pipelined HLS loop stalls as a whole while either stream blocks, so it is
one action, enabled when there is a word and room for it (`Ingress!PassWord`,
`Distribute`, `UdpStream!PassByte`). Reads and writes to different streams in
separate loops are separate actions (`WriteProt`, `ReadProt`). A core's function
is restarted for ever (`ap_ctrl_none`): the last action of an invocation puts
the counters back.

*Ingress.* `phase` and `seen` are the parser's place in its code: `eth`, `ip`,
`udp` are its header loops (`HeaderWord`; `EtherType`, `IpProtocol`, `UdpPort`
for their last word, where the code decides), `prot` the verdict that waits to
be written (`WriteProt`), `pass` the final loop (`PassRest`). `route` is the
distributer's `detected_prot`. A word is the pair (frame, position), so loss,
duplication and reordering are visible. Header fields are abstracted to the
frame's kind. The cores behind the input buffers are the external `Take`.

*SdCard.* `pc` follows `main()` line by line from `main.cc:591` to `698`; each
switch reprogramming, file call, DMA start, wait and buffer half is a step. The
key loading before line 591 changes nothing modelled here; it is in `KeyLoad`. A
byte knows where it comes from (network, SD card, or what was in the buffer
before), a processed byte its core, its whole input block and its place, so that
"the file block by block" is expressible without a cipher. A switch changes its
routing in one step because the new settings take effect at `RegUpdateEnable`.
`axis_switch_enc_data` arbitrates frame-wise by default and the cores send no
TLAST; since both cores reach the buffer in the running system, it is modelled
as serving whichever core has a byte. `clean` and `errors` are history
variables. `fsopen`, `fswrite` and `fsclose` are assumed to succeed (the code
only prints a message if not); `fsread` may fail.

*UdpStream.* `dphase` and `pphase` are the places in the two cores; a processed
byte keeps the name of the raw byte it took the place of. The cores have no
TLAST on their streams and the repository does not fix what the packetizer
then sees: `word.last` is nondeterministic. `stray`, the value of the MAC
address no code assigns, is chosen arbitrarily once per behaviour.

*Responders.* A behaviour follows one of the three cores, as they share nothing.
`pos` counts the words read from the stream, across frames: nothing but a TLAST
tells a core where it is. A run of reads by count (`ReadHeaders`, one register
entry) is one action, a loop that tests TLAST takes a word per action (`Drain`,
`Pass`, `Discard`). A reply under way is `open`; its TLAST moves it to `sent`.
The writes of a reply are one action because only the core itself writes to its
output buffer. Requests are well-formed (`CasesAssumption`): whole entries, at
least one, and no more than `data_buf` holds. The code checks none of this; the
hazards list what it does otherwise.

*Checksums.* One behaviour is one frame. Words no core touches count by their
sum; `Carry` and `Fold` are the 16-bit end-around carry of the code.

*Egress.* A core's `output_strm.write` of one word is `Write`; `Arbitrate` and
`Transfer` are the switch, `MacRead` the MAC. The FIFOs and the switch are the
vendor's, modelled by what `mb_bd.tcl` asks of them: packet mode (`FIFO_MODE 2`:
`Released` tests for a whole frame), arbitration on TLAST (`AfterTransfer`) and
`ARB_ALGORITHM 3`, read as round robin because the project report says so. What
the cores put into a frame is abstracted to its length. `latest` and `bypassed`
are history variables.

*KeyLoad.* `pc` follows `main()` from `main.cc:545` to `603`; a read of one key
word (`ReadWord`) and a write of one byte of a key memory (`LoadByte`) are
steps. `memset`, `generate_sub_keys` and `KeyExpansion` work on arrays no core
sees and are part of the first `LoadByte`. A round-key byte goes by the key
words it is computed from. The cores read a row per round (`Round`); des names
the mode register in every round, and whether the hardware reads it then or
once is left open. A behaviour follows the blocks of one core. `clean`, `fresh`,
`session` and `file` are history. The session itself is one step with no bound
on its length.

*Des, Aes, Ciphers.* Bytes are integers, bit strings of DES sequences of 0 and 1
with the first bit at index 1, as in the tables of the code. An action is one
sub-key of the schedule (`generate_sub_keys`), one word of the AES schedule
(`ExpandWord`), one round (`Round`, `AesRound`), or the work before and after the
rounds. The tables are those of the sources, number by number; `main.cc` and the
cores repeat some with equal values. `SendBack` is a client that returns an
answer after the direction has been turned round; `asked`, `back` and `trace`
record what it began with. In `Ciphers` the schedules are complete before the
first block (`Loaded`); when they really arrive is the subject of `KeyLoad`.

## What the checks show

| Run | Bounds | Properties |
|---|---|---|
| `ingress` | headers of 2+2+1 words, all pairs of 8 frame kinds and triples of 3, `packet_buffer` of 8 (the headers and 3 words, less than the long frames), `prot_fifo` of 1, input buffers of 1 and 2 | `TypeOK`, `VerdictsAligned`, `NothingLost`, `ComesToRest`, `ImplementsRouter`, `DeliversAll` |
| `sd_card` | DES blocks of 2, AES of 4, transfers of 4, a file of 2 transfers, `raw_data_buf` of 2, `enc_data_buf` of 1, 1 read error; 5 network bytes with 1 switch move, 2 with 2 (`MCBound`) | `TypeOK`, `FileExact`, `TransfersWhole`, `NeverHangs`, `SessionEnds`, `NetworkResumes` |
| `udp_stream` | 2 clients, up to 3 datagrams, blocks of 2, packets of at most 3, FIFOs of 2 and 3 | `TypeOK`, `Unbroken`, `Framed`, `Addressed`, `ImplementsRepacketizer`, `ComesToRest`, `AllButTail` |
| `responders` | the code's header and frame lengths; all sequences of 3 frames of 4 ARP, 5 ICMP and 5 register kinds | `TypeOK`, `Synced`, `AnswersExactly`, `RegistersHold`, `ComesToRest`, `AllServed` |
| `reply_header` | address and data words at the edges of 16 bits | `ReplyHeaderOK` |
| `egress` | 4 ports, frames of 1 to 3 words, buffers of one long or two short frames, one busy source at either end against the others | `TypeOK`, `NeverStalls`, `BoundedBypass`, `ImplementsMerge`, `ComesToRest`, `AllSent` |
| `key_load` | a key of 2 words of 2 values, key memories of 3 and 2 rows and 2 columns, 2 register writes, 2 switch moves | `TypeOK`, `CleanBlocks`, `FileOneKey`, `Settles` |
| `ciphers` | the full width: 64 and 128 bits, 16 and 10 rounds; 5 keys, 11 blocks with the answers of other implementations, both directions | `TypeOK` (of both cores), `Reversible` (`Mirror` and `Inverts`), `RoundsInvertible`, `KnownAnswer` (`ExpandsAsTabled` in it) |

Why the bounds are enough: every FIFO becomes full and empty in the middle of a
frame, a block and a transfer; two frames meet in every FIFO, and the third is
the one behind the two; a session starts with no, a partial and a whole block of
network data in the path, and a second session follows with whatever the first
has left. One move of the switches may turn both of them, and so select the other
core and start a session at once; the SD switch begins in one of its two
positions, which the code only compares with each other (`MCSpec`). Block and transfer sizes keep the only relation the code relies on (a
transfer is a multiple of both block sizes, a block is never a single byte).
The frames of `responders` are padded, exactly full, and longer than their
contents, answered and ignored, in every order of three. In `egress` the busy
source comes before and after the others in the switch's order, and a frame is
written while the one before it still leaves the same buffer. In `key_load` two
writes make a torn key and repair it, the memories have a row and a column the
core does not read, and a switch moves before and within a session. What
`ciphers` cannot try, all other keys and blocks, is what `CipherProofs` proves for
the inversion; the known answers (FIPS 197, published DES vectors, OpenSSL, and
the blocks of the repository's test benches) touch every table.

A session does not end whatever the network left in the path: `sd_hang` is one
of the findings. `SessionEnds` says which sessions do: those that find at most
`EncDepth + 1` processed bytes in `enc_data_buf`, in the results of both cores
and in `tlast_gen` together (`Unsent`). With five network bytes and an
`enc_data_buf` of one byte a session can find one byte more, and with `EncDepth
+ 2` in place of `EncDepth + 1` the run fails: for the model the bound is exact
(the stream registers of the board add a few bytes of room). On the board a
session can find too much only when the last bytes of `enc_data_buf` are taken
(2048, and up to 24 in the two results). `NetworkResumes` assumes that `main()`
gets back to the head of its loop again and again, so that no session hangs or
spins; without that it fails too. It speaks of the network's bytes after the
last session: what is in a core or in `enc_data_buf` when a session begins goes
to `enc_file` (`sd_mixed`), a tail that fills no block stays in its core, and
one byte can go to `tlast_gen` between the two switches that end a session
(`main.cc:686`, `693`), where the next session finds it. `SessionEnds` is for
cards that can be read: a failed `fsread` leaves the position in the file half a
transfer off, and at the end of the file the loop at `main.cc:631` then spins,
reading no bytes and no error.

### Findings

| Run | What it shows |
|---|---|
| `sd_mixed` | Nothing drains the cores between the two switches: network bytes go into `enc_file` and the end of the file goes to the network (comments `main.cc:605`, `612`). |
| `sd_hang` | With `enc_data_buf` full and a result of the deselected core pending, the two DMA transfers wait for each other for ever (`main.cc:660`: "Wait for transfers to complete"). The registers of the stream cores add a few bytes of room to the real path; the deselected core's result and the selected core's partial block can be up to 16 and 15 bytes. |
| `udp_padding` | The depacketizer forwards the padding of short frames as payload (report, page 12). |
| `reply_icmp` | The ICMP checksum of replies is wrong (report, page 12). |

Known deviations that no run shows, as there is nothing left to search for: the
packetizer's destination MAC address is never assigned (`udp_packetizer.cpp:112`
uses a variable that line 21 declares; `stray` in `UdpStream`), and its IP header
checksum is computed and never stored, so every packet carries zero
(`udp_packetizer.cpp:105`; `Checksums!Packetize`). The report (page 12) says
that both are filled in. `udp_reg` increases its reply's header checksum by what
the length grew, and starts a reply without TLAST for a request without entries
(`udp_reg.cpp:106`, `119`); no document says otherwise.

## Fairness

Every core is a hardware process that restarts for ever and stalls only on its
streams, so each has weak fairness of its own: it is never blocked for ever when
it could go on. `main()` runs on a processor of its own (weak fairness on its
next step). Nothing forces the network, the user at the DIP switches or an error
of the SD card to act; their actions have no fairness, and their number is
bounded (`Traffic`, `NetBytes`, `MaxFlips`, `MaxErrors`). In `Ingress`, reading
the input buffer is fair: a core that stops reading for ever stops the path. In
`Egress` each core's `Write`, the switch and the MAC are weakly fair. In
`KeyLoad` only the processor is (`Main`; a session ends, `SdCard` says when):
hosts, users and blocks come or stay away.

## Coming to rest

`Ingress`, `UdpStream`, `Responders` and `Egress` have a property `ComesToRest` each, which says in
terms of safety what can be said there without fairness: while work is left some
process can take a step (`NeverStuck`), and each step, whichever process takes it,
takes something from the work ahead: `Ahead`, a tuple of numbers, goes down in
the order `Below` of `Descent`. There is no infinite descent in that order
(`DescentEnds` in `UdpStreamProofs`), so no schedule goes on for ever, and where it
ends the work is done. What it is that is done, `NeverStuck` says: every frame is
with its core or discarded; everything is answered but the tail that does not fill
a block or a packet (`TailOnly`); every frame is served; every frame is on the
line. The guards it asks about are the ones the actions have (`CanPass`,
`CanProcess`, `Given`, `CanWrite`, ...).

The first numbers of `Ahead` are what the source has yet to deliver, the last what
is nearest to the other end: a word that moves one stage on makes the number of
its stage smaller and the next one greater, and a process that goes back to the
beginning of its code has used up something of an earlier number. In `Responders`
the last number is the part of the code a core is in, as some parts read nothing.

## What is proved

`IngressProofs`, for every traffic, every header length, every FIFO depth with
`packet_buffer` at least as long as the headers (the assumptions
`HeadersAssumption`, `TrafficAssumption`, `DepthAssumption`):

* `TypeCorrectness`, `VerdictsStayAligned`, `NothingIsLost`: from the inductive
  invariant `IInv` (`Invariance`). `VerdictsAligned` alone is not inductive: it
  needs the parser's counters to be tied to the place in the frame
  (`ParserInv`), `packet_buffer` to be one run of consecutive words that ends at
  the parser (`PktInv`), and the distributer to wait for a verdict only between
  frames (`RouteInv`).
* `DeadlockFreedom`: `IInv` implies `NeverStuck`, the first half of `ComesToRest`. The case that needs the depth
  assumption: the parser is in the headers, `packet_buffer` is full and
  `prot_fifo` is empty; then the distributer is idle and `packet_buffer` would
  hold only words of the parser's own frame, fewer than the headers have.
* `Rest`: `ComesToRest`, from that and `Descends`, one case for each action. The
  verdict needs a number of its own: the parser uses up a word when it finds the
  verdict and none when it writes it.
* `Refinement`: `Ingress` implements the safety part of `FrameRouter`, through
  `InbufInv` (each input buffer continues its core's stream).

`ChecksumProofs`: `RepliesAddUp`, an echo reply keeps a correct header checksum,
for all addresses and headers (`SwapKeepsSum`: the old destination is the new
source, so the sum of the words does not change).

`CipherProofs`, for every key, block and direction and for all tables of the right
shape that undo one another, the two message permutations of des and the two
tables of bytes of aes (`TablesAssumption`, `InverseAssumption`, `BoxesAssumption`,
which TLC evaluates on the tables of the code):

* `DesTypeCorrect`, `RoundsMirrored`, `DesInverts`, and the last two as
  `DesReverses`, from the inductive invariant `DesInv`. `Inverts` speaks of the last step only. It needs `Mirror`, that the
  second pass runs through the halves of the first backwards; `Mirror` is
  preserved by a round only because `trace` is chained, each entry the round of
  the one before (the first pass), with the sub-key the schedule index picks
  from the other end, and because undoing adds the same mangled half twice
  (`XorBits` cancels). What the S-boxes hold does not matter to it.
* `AesTypeCorrect`, from `AesInv`: every step leaves bytes, the schedule stops at 44
  words, and no round asks for a word beyond them.
* `AesInvertible`. A byte is its eight bits (`ByteOfBits`), and `ByteXor` adds them
  modulo 2 (`XorBit`); so a key is added twice for nothing (`XorCancels`), and
  `xtime` (`xtimeBits`), its powers and `MixColumns` are linear (`xtimeXor`,
  `MixedPowers`). `Unmixes` is the step that matters: of the powers of the four
  bytes of a column that the two polynomials bring together, each is there an even
  number of times, except the byte itself; the polynomial of the field is not
  needed. The other steps move bytes (`RowsTurn`) or look them up (`BoxTypes`).
* `CoresApart`: `Ciphers` implements `DesSpec` and `AesSpec`, so all of this holds
  where both cores share a key and a switch (`BothKeep`). For the answers and keys
  that are tried it needs only that they have the sizes the cores read
  (`AnswersAssumption`).

`EgressProofs`, for every number of ports, every traffic and all depths that a whole frame fits into (`EgressAssumption`):

* `TypeCorrectness` and `FramesNeverStall`, from `EInv`. That the rest of the
  frame on the line is in `network_tx_fifo` (`LineInv`) is kept by the MAC's own reads only because a
  frame in that FIFO is followed by nothing but its own words (`TxInv`), and by
  the switch because it never lets go of a port in the middle of a frame.
* `NoStarvation`. `bypassed[s] <= N - 1` says too little to be kept by another
  arbitration; `bypassed[s] + Distance(s) <= N - 1` (`TurnInv`) is kept, as each
  time another source goes first, the turn comes nearer to `s`.
* `Refinement`: `Egress` implements the safety part of `FrameMerge`. The MAC's
  next word is the one `FrameMerge` allows because the words of a source are
  consecutive in its buffer (`BufferInOrder`) and in `network_tx_fifo`, whatever
  words of others lie between (`TxInOrder`).
* `Rest`: `ComesToRest`. The difficult half is that a path with work left is not
  stuck (`StuckOnlyWhenDone`, from `RestInv`). The switch is never left holding a
  port with nothing to give or no room to give it to (`HeldSwitch`); a FIFO with
  words in it but no whole frame has room for the next word, as every frame fits
  (`FrameFits`, `HeldTx`, `HeldBuffers`); and a whole frame that waits is the first
  of some port in turn (`SomeFirst`).

`UdpStreamProofs`, for every traffic, any number of clients, every size of
`data_buf` and of a block and all FIFO depths that a block fits into
(`UdpAssumption`): `TypeCorrectness`, `StreamUnbroken`, `PacketsFramed`,
`AnswersAddressed` and `Refinement`, from `UInv` (`Invariance`).

* `Unbroken` is nearly inductive: each step hands a byte from one piece of
  `Flow` to the next (`ByteHandover`, `CutInTwo`) or, with `PassByte`, puts the
  byte at the end that `at` named. For `WriteBody` it needs to know that
  `output_strm_loop`'s index points into `data_buf`; `PackInv` ties the two
  counters of the packetizer together, and it is what makes TLAST come with the
  last byte of `data_buf` (`BodyCounters`).
* `Framed` needs that no earlier packet reaches into the one being written
  (`HeadsInv`), or a new word could contradict an old header.
* `Addressed` needs `ArrivalInv`: every byte on its way belongs to the datagram
  whose sender is on the wire (`Current`), or to an earlier one. It says this of
  all of `Flow`, since a byte may wait in either FIFO while the wire changes.
* `Refinement`: `UdpStream` implements `Repacketizer`. What has been taken is
  `Flow`, everything from the depacketizer to the network, so only three actions
  are steps of the abstract one: `PassByte` takes a byte (`PathTake`),
  `WriteHeaders` announces a packet (`PathAnnounce`) and `WriteBody` gives a byte
  of it (`PathGive`); the rest hand bytes on (`PathStutter`). An announced packet
  has all its bytes because `data_buf` is the part of `Flow` that follows the
  output (`Buffered`), and its client is the sender of its last byte or a later one
  because the wires move with the datagrams (`Overtaken`).
* `Rest`: `ComesToRest`. A stuck path has nothing but a tail (`StuckOnlyAtTheEnd`): the
  packetizer waits for a byte, so the core's block would find room and is not
  there, so the depacketizer has room and no datagram. The measure needs the
  place in the datagram (`PlaceInv`).
* `DescentEnds`: `Below` is the library's lexicographic order of tuples of natural
  numbers, which is well founded.

`SdCardProofs`, for all block sizes that divide the chunk, every chunk, FIFO depth
and file length, and any number of arrivals, switch moves and failed reads
(`SdCardAssumption`): `TypeCorrectness`, `CountersInStep`, `FileCorrect` and
`NoHang`, from `SInv` (`Invariance`).

* `TransfersWhole` needs `DmaInv`: which of the two transfers may run where
  `main()` is, and that the mark on the word in tlast_gen's register belongs to
  the byte that fills `dma_buf1`. When a transfer starts, the counters are a
  whole chunk apart or equal, and one byte of the next chunk may already wait.
* `FileExact` speaks of `enc_file` alone. `PathInv` says it of the whole path, each
  stage continuing the one after it: `enc_file`, what has come into `dma_buf1`,
  tlast_gen's word, `enc_data_buf`, the core's result and its block, and what the
  DMA has yet to send; and that their lengths add up to the chunks sent so far
  (`AtPiece + Len(mm2s) = Base + Gone`). It is this sum that leaves nothing of a
  chunk on the path when it is written, and brings the next one into place. A
  block comes out where it went in because blocks start at multiples of their
  length (`BlockRun`, `FirstOfBlock`). `RouteInv` (both switches on the DMA's side)
  keeps the network's bytes out; a drained path starts all of it at 0.
* `ReadInv` is what the two read loops have put into `dma_buf0`, and `EndInv` that
  the loop around them ends at the end of the file only.
* `NeverHangs` needs `AlignInv` as well (`Alignment`): a chunk starts where a block
  of the core starts, as the core holds nothing when `main()` begins to feed it
  (`StartAligned`). If no byte of a running transfer could move, the path would hold
  nothing but a partial block, and a partial block between two multiples of its
  length cannot be the end of a chunk (`LastBlock`). `enc_data_buf` may be of any
  depth; the hang of `sd_hang` takes bytes of the network on the path.

`KeyLoadProofs`, for keys, key memories and numbers of register writes and
switch moves of any size (`KeyLoadAssumption`): `TypeCorrectness`,
`UnchangedKeyUnnoticed` and `SessionUnderOneKey`, from `KInv`. `LoadInv` says
what the memories hold in the middle of a pass (all places written so far come
from `input_key`, and `NextPlaceCovers` that the writes leave no place out),
`FreshInv` what is known of a pass that began after the last register write,
and `SessionInv` that keys, mode and direction are fixed before a session starts.

`ResponderProofs`, for frames of any number and length, any requests, registers and
addresses (`CasesAssumption`): `TypeCorrectness`, `KeepsInStep`, `AnswersInOrder` and
`WritesLast`, from `PInv` (`Invariance`). That a request's answers fit `data_buf` is
part of `CasesAssumption` and not a result: `udp_reg` does not check it, and a
datagram has room for more. What `TypeCorrectness` says of `data_buf` is that it
never holds more than the answers to the entries read so far.

* `Synced`, that a core starts at the first word of a frame and that each read ends
  inside it, says too little of where the core is. `PlaceInv` gives the place for
  each phase: after the headers, `HeadLen`
  words; before entry `next` of a register request, that and `next - 1` entries; in
  a loop that tests TLAST, a word of the frame, and not the last one when the loop
  starts with a read (`pass_stream`, `discard_stream`). That a frame is longer than
  what is read by count, and an ICMP frame strictly, is `HeadFits`.
* `AnswersExactly` needs `BufInv` (`data_buf` answers the entries read so far) and
  what `open` holds in the middle of an echo reply (`SentInv`): the words written
  are the words read, so the reply is as long as the request (`IcmpPacket`).
* `RegistersHold` speaks of whole frames only. In the middle of a write request,
  `Overwritten` says each word has the value of the last entry so far that names
  it; after the last entry this is what `WrittenBy` asks for (`AllWritten`).
* `End`, `RegistersAfter` and `AnswersTo` are recursive functions. They exist, and
  so are what their equations say, by induction over the numbers, which
  `Induction` states for sets and proves from the pigeonhole principle of the
  library (`Recursion`, `StaysIn`, `EndIs`, `RegistersSteps`, `AnswersSteps`).
* `Rest`: `ComesToRest`, from `Synced` (`StuckOnlyWhenServed`): as a core's next read
  ends inside its frame, the words are on the stream. Each step reads a word, ends a
  frame or comes to a part of the code that ranks lower (`Descends`).

### What is only model-checked

* Liveness under fairness, which the prover has no rules for: `DeliversAll`,
  `AllButTail`, `AllSent`, `AllServed`, `SessionEnds`, `NetworkResumes` and `Settles`. For
  the four modules with `ComesToRest` what carries the liveness, that some step is
  there and that steps run out, is proved; that the steps are taken is fairness.
  `SdCard` and `KeyLoad` loop for ever and have no such measure.
* `KnownAnswer`. It compares numbers: it holds for the tables of the code and not for
  others, and a proof would have to compute the ciphers.
* What the violation runs show, by their nature.

The frames are assumed to be at least 60 octets long, as the MAC delivers them:
the cores read 42 octets of headers without looking at TLAST.

## Not modelled

* PHY and MAC bring-up (`main.cc:455-484`): a straight sequence of register
  writes and two polling loops on a device outside the repository.
* The SD card and FatFs drivers: not in the repository; `SdCard` has what
  `fsopen`, `fsread`, `fseof` and `fswrite` do for `main.cc`. Failing `fsopen`,
  `fswrite` and `fsclose` are left out: the code prints a message and goes on.
* The TEMAC client FIFOs, the top level, clocks and resets: the vendor's.
* Malformed register requests (no entries, more than `data_buf` holds, partial
  entries): the code has no defined or documented behaviour for them.
* The test benches and `run_des.c`, a host program that no longer compiles
  against `process_message`.

## What is left

Every safety property that the runs check and that holds for all constants is a
theorem, and three of the paths implement an abstract specification
(`FrameRouter`, `Repacketizer`, `FrameMerge`). Two more could be stated: a register
file read and written at once, for `Responders`, and a file replaced by its
encryption, for `SdCard`; `RegistersHold`, `AnswersExactly` and `FileExact` say
the same of the states. The modules are composed pairwise at most (`Ciphers`); that
the output buffers of `UdpStream` and `Responders` are the sources of `Egress`, and
the input buffers of `Ingress` their inputs, is by construction and not checked.
