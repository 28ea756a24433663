------------------------------ MODULE KeyLoad ------------------------------
(***************************************************************************)
(* How a key gets from a host into the encryption cores: udp_reg writes    *)
(* the words of the key into the block RAM one at a time; the main loop    *)
(* reads them one at a time, expands them and writes the round keys into   *)
(* the key memories of the running cores byte by byte, then sets the       *)
(* direction of des from a DIP switch and may run an SD-card session; a    *)
(* core reads the round key of each round when it comes to it.             *)
(*                                                                         *)
(* Sources: src/main.cc:542-603 and 695-699, HLS/des/des.cpp:338-347,      *)
(* HLS/aes/AES.cpp:124-138, HLS/udp_reg/udp_reg.cpp:43-67.                 *)
(*                                                                         *)
(* A byte of a round key goes by the words of the key it was computed      *)
(* from; which byte that is, is the business of Des and Aes.  What a       *)
(* session does besides keeping the main loop busy is in SdCard.           *)
(***************************************************************************)
EXTENDS Naturals

Cores == {"des", "aes"}

CONSTANTS
    Value,      \* the values of a word of the key
    Zero,       \* what input_key and the block RAM start with
    Words,      \* words of input_key (4)
    KeyWords,   \* KeyWords[c]: the words core c makes a key of (2 and 4)
    Rows,       \* Rows[c]: the rows of its key memory (17 and 11)
    Cols,       \* Cols[c]: its columns (8 and 16)
    UsedCols,   \* UsedCols[c]: the columns it reads (6 and 16)
    MaxWrites,  \* bound: words the host writes
    MaxFlips    \* bound: moves of the DIP switches

ASSUME KeyLoadAssumption ==
    /\ Zero \in Value
    /\ Words \in Nat \ {0}
    /\ KeyWords \in [Cores -> 1 .. Words]
    /\ Rows \in [Cores -> Nat \ {0, 1}]
    /\ Cols \in [Cores -> Nat \ {0}]
    /\ \A c \in Cores : UsedCols[c] \in 1 .. Cols[c]
    /\ MaxWrites \in Nat /\ MaxFlips \in Nat

VARIABLES
    bram,       \* the words of the key in the block RAM
    writes,     \* how many words the host has written
    dip,        \* the DIP switches [mode, sd]
    flips,      \* how often they have moved
    pc,         \* where main() is in its loop
    n,          \* words of the key it has read in this pass
    input_key,  \* its copy of the key
    at,         \* the byte of the key memories it writes next
    dipsw,      \* the mode switch as it has read it
    sd_state,   \* the SD switch as it has read it
    store,      \* store[c][col][row]: the key memory of core c
    mode,       \* the mode register of des
    core,       \* the core whose blocks a behaviour follows: the cores do not
                \* meet, and those of the other change nothing it sees
    blk,        \* the block it is processing or has processed last; session:
                \* it was begun in the session that goes on
    fresh,      \* "dirty": the host has written since this pass began,
                \* "reading": it has not, "settled": nor since an earlier,
                \* complete pass began
    file        \* the keys and directions the blocks of this session met

hostVars == <<bram, writes, dip, flips>>
mainVars == <<pc, n, input_key, at, dipsw, sd_state>>
vars == <<hostVars, mainVars, store, mode, core, blk, fresh, file>>

Modes == {0, 1}
Key   == [1 .. Words -> Value]

\* The key core c makes of the words k; the empty sequence is what its memory
\* holds before the first pass.
KeyOf(c, k) == [w \in 1 .. KeyWords[c] |-> k[w]]
NoKey == <<>>
AnyKey(c) == {NoKey} \cup [1 .. KeyWords[c] -> Value]

RowsOf(c) == 0 .. Rows[c] - 1
Place == {p \in [core : Cores, col : Nat, row : Nat] :
            p.col \in 1 .. Cols[p.core] /\ p.row \in RowsOf(p.core)}

\* The first byte of a column, and of all.
Column(c, col) == [core |-> c, col |-> col, row |-> 0]
First == Column("des", 1)

Init ==
    /\ bram = [w \in 1 .. Words |-> Zero]
    /\ writes = 0
    /\ dip \in [mode : Modes, sd : Modes]
    /\ flips = 0
    /\ pc = "read"
    /\ n = 0
    /\ input_key = [w \in 1 .. Words |-> Zero]
    /\ at = First
    /\ dipsw = 0
    /\ sd_state \in Modes
    /\ store = [c \in Cores |-> [col \in 1 .. Cols[c] |-> [row \in RowsOf(c) |-> NoKey]]]
    /\ mode = 0
    /\ core \in Cores
    /\ blk = [k |-> 0, dir |-> 0, keys |-> {}, clean |-> FALSE, session |-> FALSE]
    /\ fresh = "dirty"
    /\ file = {}

-----------------------------------------------------------------------------
(* The host and the user *)

\* udp_reg writes a word of the key.
HostWrite ==
    /\ writes < MaxWrites
    /\ \E w \in 1 .. Words : \E v \in Value : bram' = [bram EXCEPT ![w] = v]
    /\ writes' = writes + 1
    /\ fresh' = "dirty"
    /\ blk' = [blk EXCEPT !.clean = FALSE]
    /\ UNCHANGED <<dip, flips, mainVars, store, mode, core, file>>

FlipSwitch ==
    /\ flips < MaxFlips
    /\ \/ dip' = [dip EXCEPT !.mode = 1 - @]
       \/ dip' = [dip EXCEPT !.sd = 1 - @]
    /\ flips' = flips + 1
    /\ UNCHANGED <<bram, writes, mainVars, store, mode, core, blk, fresh, file>>

-----------------------------------------------------------------------------
(* The main loop *)

\* Mutant of LastWord: the loop ends one word early.
LastWordEarly == n + 1 = Words - 1

LastWord == n + 1 = Words

\* uint32_t key_reg = Xil_In32(... + 4*i)
ReadWord ==
    /\ pc = "read"
    /\ input_key' = [input_key EXCEPT ![n + 1] = bram[n + 1]]
    /\ IF LastWord THEN pc' = "load" /\ n' = 0 /\ at' = First
                   ELSE n' = n + 1 /\ UNCHANGED <<pc, at>>
    /\ fresh' = IF n = 0 /\ fresh = "dirty" THEN "reading" ELSE fresh
    /\ UNCHANGED <<hostVars, dipsw, sd_state, store, mode, core, blk, file>>

\* Mutants of NextPlace: the last column of aes is left out; one row too many.
NextPlaceShort ==
    IF at.row + 1 < Rows[at.core] THEN [at EXCEPT !.row = @ + 1]
    ELSE IF at.col + 1 < Cols[at.core] THEN Column(at.core, at.col + 1)
    ELSE IF at.core = "des" THEN Column("aes", 1)
    ELSE First

NextPlaceOver ==
    IF at.row < Rows[at.core] THEN [at EXCEPT !.row = @ + 1]
    ELSE IF at.col < Cols[at.core] THEN Column(at.core, at.col + 1)
    ELSE IF at.core = "des" THEN Column("aes", 1)
    ELSE First

\* XDes_Write_key_sets_k_*_Bytes column by column, then the 16 functions of aes.
NextPlace ==
    IF at.row + 1 < Rows[at.core] THEN [at EXCEPT !.row = @ + 1]
    ELSE IF at.col < Cols[at.core] THEN Column(at.core, at.col + 1)
    ELSE IF at.core = "des" THEN Column("aes", 1)
    ELSE First

\* Mutant of NewColumn: the core's memory is cleared before it is written, as
\* the arrays it is computed in are.
NewColumnCleared ==
    [row \in RowsOf(at.core) |->
        IF row = at.row THEN KeyOf(at.core, input_key)
        ELSE IF row > at.row THEN NoKey ELSE store[at.core][at.col][row]]

NewColumn == [store[at.core][at.col] EXCEPT ![at.row] = KeyOf(at.core, input_key)]

\* A byte of a column.  The arrays it comes from are local: clearing and
\* computing them changes nothing a core sees.
LoadByte ==
    /\ pc = "load"
    /\ store' = [store EXCEPT ![at.core] = [@ EXCEPT ![at.col] = NewColumn]]
    /\ at' = NextPlace
    /\ IF NextPlace = First
       THEN pc' = "switches" /\ fresh' = IF fresh = "reading" THEN "settled" ELSE fresh
       ELSE UNCHANGED <<pc, fresh>>
    /\ UNCHANGED <<hostVars, n, input_key, dipsw, sd_state, mode, core, blk, file>>

\* dipsw = XGpio_DiscreteRead(...) & 0x07
ReadSwitches ==
    /\ pc = "switches"
    /\ dipsw' = dip.mode
    /\ pc' = "mode"
    /\ UNCHANGED <<hostVars, n, input_key, at, sd_state, store, mode, core, blk, fresh, file>>

\* XDes_Set_mode_V(&des_proc, des_mode)
SetMode ==
    /\ pc = "mode"
    /\ mode' = dipsw
    /\ pc' = "sd"
    /\ UNCHANGED <<hostVars, n, input_key, at, dipsw, sd_state, store, core, blk, fresh, file>>

\* new_sd_state is read from the switches once more; a change starts a session.
TestSd ==
    /\ pc = "sd"
    /\ pc' = IF dip.sd = sd_state THEN "sleep" ELSE "session"
    /\ sd_state' = dip.sd
    /\ file' = {}
    /\ UNCHANGED <<hostVars, n, input_key, at, dipsw, store, mode, core, blk, fresh>>

\* The session, which touches neither keys nor mode, or sleep(1) is over.
EndSession ==
    /\ pc = "session"
    /\ pc' = "sleep"
    /\ blk' = [blk EXCEPT !.session = FALSE]
    /\ UNCHANGED <<hostVars, n, input_key, at, dipsw, sd_state, store, mode, core, fresh, file>>

Wake ==
    /\ pc = "sleep"
    /\ pc' = "read"
    /\ UNCHANGED <<hostVars, n, input_key, at, dipsw, sd_state, store, mode, core, blk, fresh, file>>

Main == ReadWord \/ LoadByte \/ ReadSwitches \/ SetMode \/ TestSd \/ EndSession \/ Wake

-----------------------------------------------------------------------------
(* The cores *)

\* The rounds of a block, and the row of the key memory that round k reads: des
\* skips row 0 and goes backwards to decrypt, aes_cipher begins at row 0.
Rounds(c) == IF c = "des" THEN Rows[c] - 1 ELSE Rows[c]
Row(c, k, dir) == IF c = "aes" THEN k - 1 ELSE IF dir = 0 THEN Rows[c] - k ELSE k

\* A block has been read from the stream.
Begin ==
    /\ blk.k = 0
    /\ blk' = [k |-> 1, dir |-> mode, keys |-> {}, clean |-> fresh = "settled",
               session |-> pc = "session"]
    /\ UNCHANGED <<hostVars, mainVars, store, mode, core, fresh, file>>

KeysMet(dir) == {store[core][col][Row(core, blk.k, dir)] : col \in 1 .. UsedCols[core]}

\* A round; the last one ends the block.  The code names the mode register in
\* every round, and the hardware may read it then or keep what it read first.
Round ==
    /\ blk.k > 0
    /\ \E dir \in {blk.dir, mode} :
          /\ blk' = [k       |-> IF blk.k = Rounds(core) THEN 0 ELSE blk.k + 1,
                     dir     |-> blk.dir,
                     keys    |-> blk.keys \cup KeysMet(dir),
                     clean   |-> blk.clean,
                     session |-> blk.session]
          /\ file' = IF blk.session
                     THEN file \cup {[key |-> key, dir |-> dir] : key \in KeysMet(dir)}
                     ELSE file
    /\ UNCHANGED <<hostVars, mainVars, store, mode, core, fresh>>

Next == HostWrite \/ FlipSwitch \/ Main \/ Begin \/ Round

\* The processor runs on, and SD-card sessions end (SdCard says when); nothing
\* makes a host write, a user move a switch or a block arrive.
Spec == Init /\ [][Next]_vars /\ WF_vars(Main)

-----------------------------------------------------------------------------
(* Properties *)

TypeOK ==
    /\ bram \in Key /\ input_key \in Key
    /\ writes \in 0 .. MaxWrites /\ flips \in 0 .. MaxFlips
    /\ dip \in [mode : Modes, sd : Modes]
    /\ {mode, dipsw, sd_state} \subseteq Modes
    /\ pc \in {"read", "load", "switches", "mode", "sd", "session", "sleep"}
    /\ n \in 0 .. Words - 1
    /\ at \in Place
    /\ DOMAIN store = Cores
    /\ \A c \in Cores : store[c] \in [1 .. Cols[c] -> [RowsOf(c) -> AnyKey(c)]]
    /\ core \in Cores
    /\ blk \in [k : 0 .. Rounds(core), dir : Modes, keys : SUBSET AnyKey(core),
               clean : BOOLEAN, session : BOOLEAN]
    /\ fresh \in {"dirty", "reading", "settled"}
    /\ file \subseteq [key : AnyKey(core), dir : Modes]

\* After a host has written its last word, one whole pass of the main loop is
\* enough: every block begun after it meets the key in the block RAM in every
\* round and every byte, although main() goes on rewriting the memories under
\* the running cores every second (main.cc:542-589 against des.cpp:344-347 and
\* AES.cpp:124-138): it writes what is there already, and never clears it first.
CleanBlocks ==
    blk.clean => blk.keys \subseteq {KeyOf(core, bram)}

\* A file of the SD card is processed under one key and in one direction,
\* whatever the hosts write and whichever way the switches move meanwhile: no
\* block of a session meets a key but the one main() had read, or a direction
\* but the one it had set before (main.cc:542-600 before 603-695).
FileOneKey ==
    pc = "session" => file \subseteq {[key |-> KeyOf(core, input_key), dir |-> dipsw]}

\* A key that was torn because main() read it while it was being written does
\* not last: when the host has written its last word, the cores come to hold the
\* round keys of the key in the block RAM, all of them, and keep them.
Settles ==
    <>[](\A c \in Cores : \A col \in 1 .. Cols[c] : \A row \in RowsOf(c) :
            store[c][col][row] = KeyOf(c, bram))
=============================================================================
