---------------------------- MODULE KeyLoadProofs ----------------------------
(***************************************************************************)
(* Theorems about KeyLoad, for keys of any length, key memories of any     *)
(* size, and any number of register writes and moves of the switches.      *)
(***************************************************************************)
EXTENDS KeyLoad, Integers, TLAPS

-----------------------------------------------------------------------------
(* The inductive invariant *)

\* The places of the key memories, and those main() writes before place p.
Cell(c, col, row) == c \in Cores /\ col \in 1 .. Cols[c] /\ row \in RowsOf(c)

Before(c, col, row, p) ==
    \/ c = "des" /\ p.core = "aes"
    \/ c = p.core /\ (col < p.col \/ (col = p.col /\ row < p.row))

Holds(c, col, row, k) == store[c][col][row] = KeyOf(c, k)

\* Every place of the key memories holds the round keys of k.
AllHold(k) == \A c, col, row : Cell(c, col, row) => Holds(c, col, row, k)

AfterLoad == {"switches", "mode", "sd", "session", "sleep"}

\* What main() has written in this pass comes from the key it has read in it.
LoadInv ==
    /\ pc = "load" =>
          \A c, col, row : Cell(c, col, row) /\ Before(c, col, row, at) =>
              Holds(c, col, row, input_key)
    /\ pc \in AfterLoad => AllHold(input_key)

\* Since a pass that began after the last write of a host has read a word, that
\* word is right; since it is complete, the key memories are.
FreshInv ==
    /\ fresh = "reading" =>
          \/ pc = "read" /\ n >= 1 /\ \A i \in 1 .. n : input_key[i] = bram[i]
          \/ pc = "load" /\ input_key = bram
    /\ fresh = "settled" => input_key = bram /\ AllHold(bram)
    /\ blk.clean => fresh = "settled"

\* The direction of a session is fixed before it begins.
SessionInv ==
    /\ pc \in {"sd", "session"} => mode = dipsw
    /\ blk.session => pc = "session" /\ blk.dir = dipsw

KInv == TypeOK /\ LoadInv /\ FreshInv /\ SessionInv /\ CleanBlocks /\ FileOneKey

-----------------------------------------------------------------------------
(* Lemmas *)

LEMMA Sizes ==
    /\ Zero \in Value
    /\ Words \in Nat /\ Words >= 1
    /\ MaxWrites \in Nat /\ MaxFlips \in Nat
    /\ \A c \in Cores : /\ KeyWords[c] \in Nat /\ KeyWords[c] >= 1 /\ KeyWords[c] <= Words
                        /\ Rows[c] \in Nat /\ Rows[c] >= 2
                        /\ Cols[c] \in Nat /\ Cols[c] >= 1
                        /\ UsedCols[c] \in Nat /\ UsedCols[c] <= Cols[c]
<1>1. /\ Zero \in Value /\ Words \in Nat \ {0} /\ MaxWrites \in Nat /\ MaxFlips \in Nat
      /\ KeyWords \in [Cores -> 1 .. Words]
      /\ Rows \in [Cores -> Nat \ {0, 1}]
      /\ Cols \in [Cores -> Nat \ {0}]
      /\ \A c \in Cores : UsedCols[c] \in 1 .. Cols[c]
  BY KeyLoadAssumption, Zenon
<1>2. Words \in Nat /\ Words >= 1
  BY <1>1, SMT
<1>3. ASSUME NEW c \in Cores
      PROVE  /\ KeyWords[c] \in Nat /\ KeyWords[c] >= 1 /\ KeyWords[c] <= Words
             /\ Rows[c] \in Nat /\ Rows[c] >= 2
             /\ Cols[c] \in Nat /\ Cols[c] >= 1
             /\ UsedCols[c] \in Nat /\ UsedCols[c] <= Cols[c]
  <2>1. /\ KeyWords[c] \in 1 .. Words
        /\ Rows[c] \in Nat \ {0, 1}
        /\ Cols[c] \in Nat \ {0}
        /\ UsedCols[c] \in 1 .. Cols[c]
    BY <1>1
  <2> QED BY <1>2, <2>1, SMT
<1> QED BY <1>1, <1>2, <1>3

LEMMA KeyOfType ==
    ASSUME NEW k \in Key, NEW c \in Cores
    PROVE  KeyOf(c, k) \in [1 .. KeyWords[c] -> Value]
<1>1. k \in [1 .. Words -> Value]
  BY DEF Key
<1>2. \A w \in 1 .. KeyWords[c] : w \in 1 .. Words
  BY Sizes, SMT
<1> QED BY <1>1, <1>2 DEF KeyOf

LEMMA FirstPlace == First \in Place /\ First.core = "des" /\ First.col = 1 /\ First.row = 0
<1>1. "des" \in Cores
  BY DEF Cores
<1>2. Rows["des"] \in Nat /\ Rows["des"] >= 2 /\ Cols["des"] \in Nat /\ Cols["des"] >= 1
  BY <1>1, Sizes
<1>3. 1 \in 1 .. Cols["des"] /\ 0 \in 0 .. Rows["des"] - 1
  BY <1>2, SMT
<1> QED BY <1>1, <1>3 DEF First, Column, Place, RowsOf

LEMMA PlaceFields ==
    ASSUME NEW p \in Place
    PROVE  /\ p.core \in Cores /\ p.col \in Nat /\ p.row \in Nat
           /\ p.col >= 1 /\ p.col <= Cols[p.core]
           /\ p.row >= 0 /\ p.row <= Rows[p.core] - 1
           /\ p.col \in 1 .. Cols[p.core] /\ p.row \in RowsOf(p.core)
<1>1. /\ p.core \in Cores /\ p.col \in Nat /\ p.row \in Nat
      /\ p.col \in 1 .. Cols[p.core] /\ p.row \in RowsOf(p.core)
  BY DEF Place
<1>2. p.row \in 0 .. Rows[p.core] - 1
  BY <1>1 DEF RowsOf
<1>3. Cols[p.core] \in Nat /\ Rows[p.core] \in Nat
  BY <1>1, Sizes
<1> QED BY <1>1, <1>2, <1>3, SMT

\* The writes come to every place: what is not before the next place is the
\* place itself or has been written already.
LEMMA NextPlaceCovers ==
    ASSUME at \in Place
    PROVE  /\ NextPlace \in Place
           /\ NextPlace # First =>
                \A c, col, row : Cell(c, col, row) /\ Before(c, col, row, NextPlace) =>
                    Before(c, col, row, at) \/ (c = at.core /\ col = at.col /\ row = at.row)
           /\ NextPlace = First =>
                \A c, col, row : Cell(c, col, row) =>
                    Before(c, col, row, at) \/ (c = at.core /\ col = at.col /\ row = at.row)
<1> DEFINE d == at.core
           x == at.col
           y == at.row
<1>1. /\ d \in Cores /\ x \in Nat /\ y \in Nat /\ x >= 1 /\ x <= Cols[d]
      /\ y >= 0 /\ y <= Rows[d] - 1
      /\ at \in [core : Cores, col : Nat, row : Nat]
  BY PlaceFields DEF Place
<1>2. Rows[d] \in Nat /\ Cols[d] \in Nat /\ Rows[d] >= 2 /\ Cols[d] >= 1
  BY <1>1, Sizes
<1>3. ASSUME NEW c, NEW col, NEW row, Cell(c, col, row)
      PROVE  /\ c \in Cores /\ col \in Nat /\ row \in Nat /\ col >= 1 /\ col <= Cols[c]
             /\ row <= Rows[c] - 1
  <2>1. c \in Cores /\ col \in 1 .. Cols[c] /\ row \in 0 .. Rows[c] - 1
    BY <1>3 DEF Cell, RowsOf
  <2>2. Cols[c] \in Nat /\ Rows[c] \in Nat
    BY <2>1, Sizes
  <2> QED BY <2>1, <2>2, SMT
<1>4. CASE y + 1 < Rows[d]
  <2>1. NextPlace = [core |-> d, col |-> x, row |-> y + 1]
    BY <1>1, <1>4 DEF NextPlace
  <2>2. y + 1 \in 0 .. Rows[d] - 1 /\ x \in 1 .. Cols[d] /\ y + 1 # 0 /\ y + 1 \in Nat
    BY <1>1, <1>2, <1>4, SMT
  <2>3. NextPlace \in Place
    BY <1>1, <2>1, <2>2 DEF Place, RowsOf
  <2>4. NextPlace # First
    BY <2>1, <2>2, FirstPlace
  <2>5. ASSUME NEW c, NEW col, NEW row, Cell(c, col, row), Before(c, col, row, NextPlace)
        PROVE  Before(c, col, row, at) \/ (c = d /\ col = x /\ row = y)
    <3>1. \/ c = "des" /\ d = "aes"
          \/ c = d /\ (col < x \/ (col = x /\ row < y + 1))
      BY <2>1, <2>5 DEF Before
    <3> QED BY <1>1, <1>3, <2>5, <3>1, SMT DEF Before
  <2> QED BY <2>3, <2>4, <2>5
<1>5. CASE ~(y + 1 < Rows[d]) /\ x < Cols[d]
  <2>1. NextPlace = [core |-> d, col |-> x + 1, row |-> 0]
    BY <1>5 DEF NextPlace, Column
  <2>2. 0 \in 0 .. Rows[d] - 1 /\ x + 1 \in 1 .. Cols[d] /\ x + 1 # 1 /\ x + 1 \in Nat
    BY <1>1, <1>2, <1>5, SMT
  <2>3. NextPlace \in Place
    BY <1>1, <2>1, <2>2 DEF Place, RowsOf
  <2>4. NextPlace # First
    BY <2>1, <2>2, FirstPlace
  <2>5. ASSUME NEW c, NEW col, NEW row, Cell(c, col, row), Before(c, col, row, NextPlace)
        PROVE  Before(c, col, row, at) \/ (c = d /\ col = x /\ row = y)
    <3>1. \/ c = "des" /\ d = "aes"
          \/ c = d /\ (col < x + 1 \/ (col = x + 1 /\ row < 0))
      BY <2>1, <2>5 DEF Before
    <3>2. row \in Nat /\ col \in Nat /\ (c = d => row <= Rows[d] - 1)
      BY <1>3, <2>5
    <3>3. c = d => col < x \/ (col = x /\ row < y) \/ (col = x /\ row = y)
      BY <1>1, <1>2, <1>5, <3>1, <3>2, SMT
    <3> QED BY <3>1, <3>3 DEF Before
  <2> QED BY <2>3, <2>4, <2>5
<1>6. CASE ~(y + 1 < Rows[d]) /\ ~(x < Cols[d])
  <2>1. ASSUME NEW c, NEW col, NEW row, Cell(c, col, row), c = d
        PROVE  Before(c, col, row, at) \/ (c = d /\ col = x /\ row = y)
    <3>1. row \in Nat /\ col \in Nat /\ row <= Rows[d] - 1 /\ col <= Cols[d]
      BY <1>3, <2>1
    <3>2. col < x \/ (col = x /\ row < y) \/ (col = x /\ row = y)
      BY <1>1, <1>2, <1>6, <3>1, SMT
    <3> QED BY <2>1, <3>2 DEF Before
  <2>2. CASE d = "des"
    <3>1. NextPlace = [core |-> "aes", col |-> 1, row |-> 0]
      BY <1>6, <2>2 DEF NextPlace, Column
    <3>2. "aes" \in Cores
      BY DEF Cores
    <3>3. Rows["aes"] \in Nat /\ Rows["aes"] >= 2 /\ Cols["aes"] \in Nat /\ Cols["aes"] >= 1
      BY <3>2, Sizes
    <3>4. 0 \in 0 .. Rows["aes"] - 1 /\ 1 \in 1 .. Cols["aes"]
      BY <3>3, SMT
    <3>5. NextPlace \in Place /\ NextPlace # First
      BY <3>1, <3>2, <3>4, FirstPlace DEF Place, RowsOf
    <3>6. ASSUME NEW c, NEW col, NEW row, Cell(c, col, row), Before(c, col, row, NextPlace)
          PROVE  c = d
      <4>1. c = "des" \/ (c = "aes" /\ (col < 1 \/ (col = 1 /\ row < 0)))
        BY <3>1, <3>6 DEF Before
      <4>2. ~(col < 1) /\ ~(row < 0)
        BY <1>3, <3>6, SMT
      <4> QED BY <2>2, <4>1, <4>2
    <3> QED BY <2>1, <3>5, <3>6
  <2>3. CASE d # "des"
    <3>1. NextPlace = First /\ d = "aes"
      BY <1>1, <1>6, <2>3 DEF NextPlace, Cores
    <3>2. ASSUME NEW c, NEW col, NEW row, Cell(c, col, row), c # d
          PROVE  Before(c, col, row, at)
      BY <3>1, <3>2 DEF Before, Cell, Cores
    <3> QED BY <2>1, <3>1, <3>2, FirstPlace
  <2> QED BY <2>2, <2>3
<1> QED BY <1>4, <1>5, <1>6

\* A key memory keeps its type when one byte of it changes.
LEMMA StoreType ==
    ASSUME TypeOK, NEW c, NEW col, NEW row, Cell(c, col, row)
    PROVE  store[c][col][row] \in AnyKey(c)
<1>1. store[c] \in [1 .. Cols[c] -> [RowsOf(c) -> AnyKey(c)]]
  BY DEF TypeOK, Cell
<1>2. store[c][col] \in [RowsOf(c) -> AnyKey(c)]
  BY <1>1 DEF Cell
<1> QED BY <1>2 DEF Cell

\* A core reads no row and no column that its memory does not have.
LEMMA RowInMemory ==
    ASSUME NEW c \in Cores, NEW k \in 1 .. Rounds(c), NEW dir \in Modes
    PROVE  Row(c, k, dir) \in RowsOf(c)
<1>1. Rows[c] \in Nat /\ Rows[c] >= 2
  BY Sizes
<1>2. c = "des" \/ c = "aes"
  BY DEF Cores
<1>3. CASE c = "aes"
  <2>1. Row(c, k, dir) = k - 1 /\ k \in 1 .. Rows[c]
    BY <1>3 DEF Row, Rounds
  <2>2. k - 1 \in 0 .. Rows[c] - 1
    BY <1>1, <2>1, SMT
  <2> QED BY <2>1, <2>2 DEF RowsOf
<1>4. CASE c = "des"
  <2>1. k \in 1 .. Rows[c] - 1
    BY <1>4 DEF Rounds
  <2>2. Row(c, k, dir) = Rows[c] - k \/ Row(c, k, dir) = k
    BY <1>4 DEF Row
  <2>3. Rows[c] - k \in 0 .. Rows[c] - 1 /\ k \in 0 .. Rows[c] - 1
    BY <1>1, <2>1, SMT
  <2> QED BY <2>2, <2>3 DEF RowsOf
<1> QED BY <1>2, <1>3, <1>4

\* What a core meets in a round: keys its memory holds, and the right one when
\* the whole memory holds it.
LEMMA RoundKeys ==
    ASSUME TypeOK, blk.k > 0, NEW dir \in Modes
    PROVE  /\ KeysMet(dir) \subseteq AnyKey(core)
           /\ \A key : AllHold(key) => KeysMet(dir) \subseteq {KeyOf(core, key)}
<1>1. core \in Cores /\ blk.k \in 0 .. Rounds(core)
  BY DEF TypeOK
<1>2. Rounds(core) \in Nat
  BY <1>1, Sizes, SMT DEF Rounds
<1>3. blk.k \in 1 .. Rounds(core)
  BY <1>1, <1>2, SMT
<1>4. Row(core, blk.k, dir) \in RowsOf(core)
  BY <1>1, <1>3, RowInMemory
<1>5. ASSUME NEW col \in 1 .. UsedCols[core]
      PROVE  Cell(core, col, Row(core, blk.k, dir))
  <2>1. UsedCols[core] \in Nat /\ UsedCols[core] <= Cols[core] /\ Cols[core] \in Nat
    BY <1>1, Sizes
  <2>2. col \in 1 .. Cols[core]
    BY <2>1, SMT
  <2> QED BY <1>1, <1>4, <2>2 DEF Cell
<1>6. KeysMet(dir) \subseteq AnyKey(core)
  BY <1>5, StoreType DEF KeysMet
<1>7. ASSUME NEW key, AllHold(key)
      PROVE  KeysMet(dir) \subseteq {KeyOf(core, key)}
  BY <1>5, <1>7 DEF KeysMet, AllHold, Holds
<1> QED BY <1>6, <1>7

\* What an action leaves alone keeps its part of the invariant.
LEMMA LoadKept ==
    ASSUME LoadInv, UNCHANGED <<input_key, at, store>>,
           pc' = pc \/ (pc \in AfterLoad /\ pc' \in AfterLoad \cup {"read"})
    PROVE  LoadInv'
<1>1. pc' = "load" => pc = "load"
  BY DEF AfterLoad
<1>2. pc' \in AfterLoad => pc \in AfterLoad
  BY DEF AfterLoad
<1>3. AllHold(input_key) => AllHold(input_key)'
  BY DEF AllHold, Holds
<1>4. ASSUME pc' = "load", NEW c, NEW col, NEW row, Cell(c, col, row), Before(c, col, row, at)'
      PROVE  Holds(c, col, row, input_key)'
  <2>1. Before(c, col, row, at)
    BY <1>4 DEF Before
  <2>2. Holds(c, col, row, input_key)
    BY <1>1, <1>4, <2>1 DEF LoadInv
  <2> QED BY <2>2 DEF Holds
<1> QED BY <1>2, <1>3, <1>4 DEF LoadInv, Cell

LEMMA FreshKept ==
    ASSUME FreshInv, UNCHANGED <<bram, n, input_key, store, fresh>>,
           pc' = pc \/ pc \notin {"read", "load"},
           blk'.clean => fresh = "settled"
    PROVE  FreshInv'
<1>1. AllHold(bram) => AllHold(bram)'
  BY DEF AllHold, Holds
<1>2. fresh = "reading" => pc' = pc
  BY DEF FreshInv
<1> QED BY <1>1, <1>2 DEF FreshInv

LEMMA BlocksKept ==
    ASSUME SessionInv, CleanBlocks, FileOneKey,
           UNCHANGED <<bram, input_key, dipsw, mode, core, blk, file, pc>>
    PROVE  SessionInv' /\ CleanBlocks' /\ FileOneKey'
BY DEF SessionInv, CleanBlocks, FileOneKey

-----------------------------------------------------------------------------
(* The initial states *)

LEMMA KInit == Init => KInv
<1> SUFFICES ASSUME Init PROVE KInv
  OBVIOUS
<1>1. /\ bram = [w \in 1 .. Words |-> Zero] /\ input_key = [w \in 1 .. Words |-> Zero]
      /\ writes = 0 /\ flips = 0 /\ n = 0 /\ mode = 0 /\ dipsw = 0
      /\ dip \in [mode : Modes, sd : Modes] /\ sd_state \in Modes
      /\ pc = "read" /\ at = First /\ core \in Cores /\ fresh = "dirty" /\ file = {}
      /\ store = [c \in Cores |-> [col \in 1 .. Cols[c] |-> [row \in RowsOf(c) |-> NoKey]]]
      /\ blk = [k |-> 0, dir |-> 0, keys |-> {}, clean |-> FALSE, session |-> FALSE]
  BY DEF Init
<1>2. TypeOK
  <2>1. Words \in Nat /\ Words >= 1 /\ MaxWrites \in Nat /\ MaxFlips \in Nat /\ Zero \in Value
    BY Sizes
  <2>2. 0 \in 0 .. MaxWrites /\ 0 \in 0 .. MaxFlips /\ 0 \in 0 .. Words - 1
    BY <2>1, SMT
  <2>3. bram \in Key /\ input_key \in Key
    BY <1>1, <2>1 DEF Key
  <2>4. DOMAIN store = Cores
    BY <1>1
  <2>5. ASSUME NEW c \in Cores
        PROVE  store[c] \in [1 .. Cols[c] -> [RowsOf(c) -> AnyKey(c)]]
    <3>1. store[c] = [col \in 1 .. Cols[c] |-> [row \in RowsOf(c) |-> NoKey]]
      BY <1>1
    <3>2. NoKey \in AnyKey(c)
      BY DEF AnyKey
    <3> QED BY <3>1, <3>2
  <2>6. blk \in [k : 0 .. Rounds(core), dir : Modes, keys : SUBSET AnyKey(core),
                 clean : BOOLEAN, session : BOOLEAN]
    <3>1. Rounds(core) \in Nat
      BY <1>1, Sizes, SMT DEF Rounds
    <3>2. 0 \in 0 .. Rounds(core)
      BY <3>1, SMT
    <3> QED BY <1>1, <3>2 DEF Modes
  <2>7. {mode, dipsw, sd_state} \subseteq Modes
    BY <1>1 DEF Modes
  <2> QED BY <1>1, <2>2, <2>3, <2>4, <2>5, <2>6, <2>7, FirstPlace DEF TypeOK
<1>3. LoadInv
  BY <1>1 DEF LoadInv, AfterLoad
<1>4. FreshInv /\ SessionInv /\ CleanBlocks /\ FileOneKey
  BY <1>1 DEF FreshInv, SessionInv, CleanBlocks, FileOneKey
<1> QED BY <1>2, <1>3, <1>4 DEF KInv

-----------------------------------------------------------------------------
(* Every step *)

LEMMA HostWriteStep ==
    ASSUME KInv, HostWrite
    PROVE  KInv'
<1>1. /\ writes < MaxWrites /\ writes' = writes + 1 /\ fresh' = "dirty"
      /\ blk' = [blk EXCEPT !.clean = FALSE]
      /\ UNCHANGED <<dip, flips, pc, n, input_key, at, dipsw, sd_state, store, mode, core, file>>
  BY DEF HostWrite, mainVars
<1>2. TypeOK /\ LoadInv /\ SessionInv /\ FileOneKey
  BY DEF KInv
<1>3. /\ blk'.k = blk.k /\ blk'.dir = blk.dir /\ blk'.keys = blk.keys
      /\ blk'.clean = FALSE /\ blk'.session = blk.session
      /\ blk' \in [k : 0 .. Rounds(core), dir : Modes, keys : SUBSET AnyKey(core),
                   clean : BOOLEAN, session : BOOLEAN]
  BY <1>1, <1>2 DEF TypeOK
<1>4. bram' \in Key
  <2>1. PICK w \in 1 .. Words : \E v \in Value : bram' = [bram EXCEPT ![w] = v]
    BY DEF HostWrite
  <2> QED BY <1>2, <2>1 DEF TypeOK, Key
<1>5. TypeOK'
  <2>1. writes' \in 0 .. MaxWrites
    BY <1>1, <1>2, Sizes, SMT DEF TypeOK
  <2> QED BY <1>1, <1>2, <1>3, <1>4, <2>1 DEF TypeOK
<1>6. LoadInv'
  BY <1>1, <1>2, LoadKept
<1>7. FreshInv' /\ CleanBlocks'
  BY <1>1, <1>3 DEF FreshInv, CleanBlocks
<1>8. SessionInv' /\ FileOneKey'
  BY <1>1, <1>2, <1>3 DEF SessionInv, FileOneKey
<1> QED BY <1>5, <1>6, <1>7, <1>8 DEF KInv

LEMMA FlipSwitchStep ==
    ASSUME KInv, FlipSwitch
    PROVE  KInv'
<1>1. /\ flips < MaxFlips /\ flips' = flips + 1
      /\ dip' = [dip EXCEPT !.mode = 1 - @] \/ dip' = [dip EXCEPT !.sd = 1 - @]
      /\ UNCHANGED <<bram, writes, pc, n, input_key, at, dipsw, sd_state, store, mode, core,
                     blk, fresh, file>>
  BY DEF FlipSwitch, mainVars
<1>2. TypeOK /\ LoadInv /\ FreshInv /\ SessionInv /\ CleanBlocks /\ FileOneKey
  BY DEF KInv
<1>3. TypeOK'
  <2>1. flips' \in 0 .. MaxFlips
    BY <1>1, <1>2, Sizes, SMT DEF TypeOK
  <2>2. dip \in [mode : Modes, sd : Modes] /\ 1 - dip.mode \in Modes /\ 1 - dip.sd \in Modes
    BY <1>2, SMT DEF TypeOK, Modes
  <2>3. dip' \in [mode : Modes, sd : Modes]
    BY <1>1, <2>2
  <2> QED BY <1>1, <1>2, <2>1, <2>3 DEF TypeOK
<1>4. LoadInv'
  BY <1>1, <1>2, LoadKept
<1>5. FreshInv'
  <2>1. blk'.clean => fresh = "settled"
    BY <1>1, <1>2 DEF FreshInv
  <2> QED BY <1>1, <1>2, <2>1, FreshKept
<1>6. SessionInv' /\ CleanBlocks' /\ FileOneKey'
  BY <1>1, <1>2, BlocksKept
<1> QED BY <1>3, <1>4, <1>5, <1>6 DEF KInv

LEMMA ReadWordStep ==
    ASSUME KInv, ReadWord
    PROVE  KInv'
<1>1. /\ pc = "read"
      /\ input_key' = [input_key EXCEPT ![n + 1] = bram[n + 1]]
      /\ IF n + 1 = Words THEN pc' = "load" /\ n' = 0 /\ at' = First
                          ELSE n' = n + 1 /\ pc' = pc /\ at' = at
      /\ fresh' = IF n = 0 /\ fresh = "dirty" THEN "reading" ELSE fresh
      /\ UNCHANGED <<bram, writes, dip, flips, dipsw, sd_state, store, mode, core, blk, file>>
  BY DEF ReadWord, LastWord, hostVars
<1>2. TypeOK /\ LoadInv /\ FreshInv /\ SessionInv /\ CleanBlocks
  BY DEF KInv
<1>3. /\ Words \in Nat /\ n \in Nat /\ n + 1 \in 1 .. Words
      /\ input_key \in [1 .. Words -> Value] /\ bram \in [1 .. Words -> Value]
  <2>1. n \in 0 .. Words - 1 /\ input_key \in Key /\ bram \in Key /\ Words \in Nat /\ Words >= 1
    BY <1>2, Sizes DEF TypeOK
  <2>2. n \in Nat /\ n + 1 \in 1 .. Words
    BY <2>1, SMT
  <2> QED BY <2>1, <2>2 DEF Key
<1>4. /\ input_key' \in [1 .. Words -> Value]
      /\ input_key'[n + 1] = bram[n + 1]
      /\ \A i \in 1 .. Words : i # n + 1 => input_key'[i] = input_key[i]
  BY <1>1, <1>3
<1>5. pc' \in {"read", "load"}
  BY <1>1
<1>6. TypeOK'
  <2>1. n' \in 0 .. Words - 1
    BY <1>1, <1>3, SMT
  <2>2. at' \in Place
    BY <1>1, <1>2, FirstPlace DEF TypeOK
  <2>3. input_key' \in Key
    BY <1>4 DEF Key
  <2> QED BY <1>1, <1>2, <1>5, <2>1, <2>2, <2>3 DEF TypeOK
<1>7. LoadInv'
  <2>1. ASSUME pc' = "load", NEW c, NEW col, NEW row, Cell(c, col, row), Before(c, col, row, at)'
        PROVE  FALSE
    <3>1. at' = First
      BY <1>1, <2>1
    <3>2. col < 1 \/ row < 0
      BY <2>1, <3>1, FirstPlace DEF Before
    <3>3. c \in Cores /\ col \in 1 .. Cols[c] /\ row \in 0 .. Rows[c] - 1
      BY <2>1 DEF Cell, RowsOf
    <3>4. Cols[c] \in Nat /\ Rows[c] \in Nat
      BY <3>3, Sizes
    <3> QED BY <3>2, <3>3, <3>4, SMT
  <2>2. pc' \notin AfterLoad
    BY <1>5 DEF AfterLoad
  <2> QED BY <2>1, <2>2 DEF LoadInv, Cell
<1>8. FreshInv'
  <2>1. ASSUME fresh' = "reading"
        PROVE  \/ pc' = "read" /\ n' >= 1 /\ \A i \in 1 .. n' : input_key'[i] = bram'[i]
               \/ pc' = "load" /\ input_key' = bram'
    <3>1. \A i \in 1 .. n : input_key[i] = bram[i]
      <4>1. CASE fresh = "reading"
        BY <1>1, <1>2, <4>1 DEF FreshInv
      <4>2. CASE fresh # "reading"
        <5>1. n = 0
          BY <1>1, <2>1, <4>2
        <5>2. \A i : i \notin 1 .. 0
          BY SMT
        <5> QED BY <5>1, <5>2
      <4> QED BY <4>1, <4>2
    <3>2. \A i \in 1 .. n + 1 : i \in 1 .. Words /\ (i # n + 1 => i \in 1 .. n)
      BY <1>3, SMT
    <3>3. \A i \in 1 .. n + 1 : input_key'[i] = bram[i]
      BY <1>4, <3>1, <3>2
    <3>4. CASE n + 1 = Words
      <4>1. input_key' = bram
        BY <1>3, <1>4, <3>3, <3>4
      <4> QED BY <1>1, <3>4, <4>1
    <3>5. CASE n + 1 # Words
      <4>1. n' = n + 1 /\ pc' = "read" /\ n + 1 >= 1
        BY <1>1, <1>3, <3>5
      <4> QED BY <1>1, <3>3, <4>1
    <3> QED BY <3>4, <3>5
  <2>2. ASSUME fresh' = "settled"
        PROVE  input_key' = bram' /\ AllHold(bram)'
    <3>1. input_key = bram /\ AllHold(bram)
      BY <1>1, <1>2, <2>2 DEF FreshInv
    <3>2. input_key' = bram
      BY <1>1, <1>3, <3>1
    <3> QED BY <1>1, <3>1, <3>2 DEF AllHold, Holds
  <2>3. blk'.clean => fresh' = "settled"
    BY <1>1, <1>2 DEF FreshInv
  <2> QED BY <2>1, <2>2, <2>3 DEF FreshInv
<1>9. SessionInv' /\ CleanBlocks' /\ FileOneKey'
  BY <1>1, <1>2, <1>5 DEF SessionInv, CleanBlocks, FileOneKey
<1> QED BY <1>6, <1>7, <1>8, <1>9 DEF KInv

LEMMA LoadByteStep ==
    ASSUME KInv, LoadByte
    PROVE  KInv'
<1>1. /\ pc = "load"
      /\ store' = [store EXCEPT ![at.core] = [@ EXCEPT ![at.col] = NewColumn]]
      /\ at' = NextPlace
      /\ IF NextPlace = First
         THEN pc' = "switches" /\ fresh' = IF fresh = "reading" THEN "settled" ELSE fresh
         ELSE pc' = pc /\ fresh' = fresh
      /\ UNCHANGED <<bram, writes, dip, flips, n, input_key, dipsw, sd_state, mode, core,
                     blk, file>>
  BY DEF LoadByte, hostVars
<1>2. TypeOK /\ LoadInv /\ FreshInv /\ SessionInv /\ CleanBlocks
  BY DEF KInv
<1>3. /\ at \in Place /\ at.core \in Cores /\ at.col \in 1 .. Cols[at.core]
      /\ at.row \in RowsOf(at.core)
  BY <1>2, PlaceFields DEF TypeOK
<1>4. /\ store[at.core] \in [1 .. Cols[at.core] -> [RowsOf(at.core) -> AnyKey(at.core)]]
      /\ store[at.core][at.col] \in [RowsOf(at.core) -> AnyKey(at.core)]
  BY <1>2, <1>3 DEF TypeOK
<1>5. KeyOf(at.core, input_key) \in AnyKey(at.core)
  BY <1>2, <1>3, KeyOfType DEF TypeOK, AnyKey
<1>6. /\ NewColumn \in [RowsOf(at.core) -> AnyKey(at.core)]
      /\ NewColumn[at.row] = KeyOf(at.core, input_key)
      /\ \A row \in RowsOf(at.core) :
            row # at.row => NewColumn[row] = store[at.core][at.col][row]
  BY <1>3, <1>4, <1>5 DEF NewColumn
<1> DEFINE Memory == [store[at.core] EXCEPT ![at.col] = NewColumn]
<1>7. /\ Memory \in [1 .. Cols[at.core] -> [RowsOf(at.core) -> AnyKey(at.core)]]
      /\ Memory[at.col] = NewColumn
      /\ \A col \in 1 .. Cols[at.core] : col # at.col => Memory[col] = store[at.core][col]
  BY <1>3, <1>4, <1>6
<1>8. /\ DOMAIN store' = Cores /\ store'[at.core] = Memory
      /\ \A c \in Cores : c # at.core => store'[c] = store[c]
  BY <1>1, <1>2, <1>3 DEF TypeOK
<1> HIDE DEF Memory
<1>9. ASSUME NEW c, NEW col, NEW row, Cell(c, col, row)
      PROVE  store'[c][col][row] = IF c = at.core /\ col = at.col /\ row = at.row
                                   THEN KeyOf(c, input_key) ELSE store[c][col][row]
  <2>1. c \in Cores /\ col \in 1 .. Cols[c] /\ row \in RowsOf(c)
    BY <1>9 DEF Cell
  <2>2. CASE c # at.core
    BY <1>8, <2>1, <2>2
  <2>3. CASE c = at.core /\ col # at.col
    BY <1>7, <1>8, <2>1, <2>3
  <2>4. CASE c = at.core /\ col = at.col
    BY <1>6, <1>7, <1>8, <2>1, <2>4
  <2> QED BY <2>2, <2>3, <2>4
<1>10. NextPlace \in Place
  BY <1>3, NextPlaceCovers
<1>11. pc' \in {"load", "switches"} /\ fresh' \in {"dirty", "reading", "settled"}
  BY <1>1, <1>2 DEF TypeOK
<1>12. TypeOK'
  <2>1. ASSUME NEW c \in Cores
        PROVE  store'[c] \in [1 .. Cols[c] -> [RowsOf(c) -> AnyKey(c)]]
    <3>1. CASE c = at.core
      BY <1>7, <1>8, <3>1
    <3>2. CASE c # at.core
      BY <1>2, <1>8, <3>2 DEF TypeOK
    <3> QED BY <3>1, <3>2
  <2> QED BY <1>1, <1>2, <1>8, <1>10, <1>11, <2>1 DEF TypeOK
<1>13. NextPlace = First => AllHold(input_key)'
  <2> SUFFICES ASSUME NextPlace = First, NEW c, NEW col, NEW row, Cell(c, col, row)
               PROVE  store'[c][col][row] = KeyOf(c, input_key)
    BY <1>1 DEF AllHold, Holds, Cell
  <2>1. CASE c = at.core /\ col = at.col /\ row = at.row
    BY <1>9, <2>1
  <2>2. CASE ~(c = at.core /\ col = at.col /\ row = at.row)
    <3>1. Before(c, col, row, at)
      BY <1>3, <2>2, NextPlaceCovers
    <3>2. store[c][col][row] = KeyOf(c, input_key)
      BY <1>1, <1>2, <3>1 DEF LoadInv, Holds
    <3> QED BY <1>9, <2>2, <3>2
  <2> QED BY <2>1, <2>2
<1>14. LoadInv'
  <2>1. CASE NextPlace = First
    <3>1. pc' = "switches"
      BY <1>1, <2>1
    <3> QED BY <1>13, <2>1, <3>1 DEF LoadInv
  <2>2. CASE NextPlace # First
    <3>1. pc' = "load" /\ at' = NextPlace
      BY <1>1, <2>2
    <3>2. ASSUME NEW c, NEW col, NEW row, Cell(c, col, row), Before(c, col, row, at)'
          PROVE  store'[c][col][row] = KeyOf(c, input_key)
      <4>1. Before(c, col, row, NextPlace)
        BY <3>1, <3>2 DEF Before
      <4>2. CASE c = at.core /\ col = at.col /\ row = at.row
        BY <1>9, <3>2, <4>2
      <4>3. CASE ~(c = at.core /\ col = at.col /\ row = at.row)
        <5>1. Before(c, col, row, at)
          BY <1>3, <2>2, <3>2, <4>1, <4>3, NextPlaceCovers
        <5>2. store[c][col][row] = KeyOf(c, input_key)
          BY <1>1, <1>2, <3>2, <5>1 DEF LoadInv, Holds
        <5> QED BY <1>9, <3>2, <4>3, <5>2
      <4> QED BY <4>2, <4>3
    <3>3. pc' \notin AfterLoad
      BY <3>1 DEF AfterLoad
    <3> QED BY <1>1, <3>2, <3>3 DEF LoadInv, Holds, Cell
  <2> QED BY <2>1, <2>2
<1>15. FreshInv'
  <2>1. fresh = "reading" => input_key = bram
    BY <1>1, <1>2 DEF FreshInv
  <2>2. fresh' = "reading" => pc' = "load" /\ input_key' = bram'
    BY <1>1, <2>1
  <2>3. ASSUME fresh' = "settled"
        PROVE  input_key' = bram' /\ AllHold(bram)'
    <3>1. CASE fresh = "settled"
      <4>1. input_key = bram /\ AllHold(bram)
        BY <1>2, <3>1 DEF FreshInv
      <4>2. ASSUME NEW c, NEW col, NEW row, Cell(c, col, row)
            PROVE  store'[c][col][row] = KeyOf(c, bram)
        BY <1>9, <4>1, <4>2 DEF AllHold, Holds
      <4> QED BY <1>1, <4>1, <4>2 DEF AllHold, Holds, Cell
    <3>2. CASE fresh # "settled"
      <4>1. fresh = "reading" /\ NextPlace = First
        BY <1>1, <2>3, <3>2
      <4>2. input_key = bram /\ input_key' = bram'
        BY <1>1, <2>1, <4>1
      <4> QED BY <1>13, <4>1, <4>2 DEF AllHold, Holds
    <3> QED BY <3>1, <3>2
  <2>4. blk'.clean => fresh' = "settled"
    BY <1>1, <1>2 DEF FreshInv
  <2> QED BY <2>2, <2>3, <2>4 DEF FreshInv
<1>16. SessionInv' /\ CleanBlocks' /\ FileOneKey'
  BY <1>1, <1>2, <1>11 DEF SessionInv, CleanBlocks, FileOneKey
<1> QED BY <1>12, <1>14, <1>15, <1>16 DEF KInv

\* The steps of the main loop between the keys and the next pass.
LEMMA SwitchesStep ==
    ASSUME KInv, ReadSwitches \/ SetMode
    PROVE  KInv'
<1>1. TypeOK /\ LoadInv /\ FreshInv /\ SessionInv /\ CleanBlocks
  BY DEF KInv
<1>2. CASE ReadSwitches
  <2>1. /\ pc = "switches" /\ pc' = "mode" /\ dipsw' = dip.mode
        /\ UNCHANGED <<bram, writes, dip, flips, n, input_key, at, sd_state, store, mode, core,
                       blk, fresh, file>>
    BY <1>2 DEF ReadSwitches, hostVars
  <2>2. TypeOK'
    <3>1. dip.mode \in Modes
      BY <1>1 DEF TypeOK
    <3> QED BY <1>1, <2>1, <3>1 DEF TypeOK
  <2>3. LoadInv'
    BY <1>1, <2>1, LoadKept DEF AfterLoad
  <2>4. FreshInv'
    <3>1. blk'.clean => fresh = "settled"
      BY <1>1, <2>1 DEF FreshInv
    <3> QED BY <1>1, <2>1, <3>1, FreshKept
  <2>5. SessionInv' /\ CleanBlocks' /\ FileOneKey'
    BY <1>1, <2>1 DEF SessionInv, CleanBlocks, FileOneKey
  <2> QED BY <2>2, <2>3, <2>4, <2>5 DEF KInv
<1>3. CASE SetMode
  <2>1. /\ pc = "mode" /\ pc' = "sd" /\ mode' = dipsw
        /\ UNCHANGED <<bram, writes, dip, flips, n, input_key, at, dipsw, sd_state, store, core,
                       blk, fresh, file>>
    BY <1>3 DEF SetMode, hostVars
  <2>2. TypeOK'
    BY <1>1, <2>1 DEF TypeOK
  <2>3. LoadInv'
    BY <1>1, <2>1, LoadKept DEF AfterLoad
  <2>4. FreshInv'
    <3>1. blk'.clean => fresh = "settled"
      BY <1>1, <2>1 DEF FreshInv
    <3> QED BY <1>1, <2>1, <3>1, FreshKept
  <2>5. SessionInv' /\ CleanBlocks' /\ FileOneKey'
    BY <1>1, <2>1 DEF SessionInv, CleanBlocks, FileOneKey
  <2> QED BY <2>2, <2>3, <2>4, <2>5 DEF KInv
<1> QED BY <1>2, <1>3

LEMMA SessionStep ==
    ASSUME KInv, TestSd \/ EndSession \/ Wake
    PROVE  KInv'
<1>1. TypeOK /\ LoadInv /\ FreshInv /\ SessionInv /\ CleanBlocks
  BY DEF KInv
<1>2. CASE TestSd
  <2>1. /\ pc = "sd" /\ pc' \in {"sleep", "session"} /\ sd_state' = dip.sd /\ file' = {}
        /\ UNCHANGED <<bram, writes, dip, flips, n, input_key, at, dipsw, store, mode, core,
                       blk, fresh>>
    BY <1>2 DEF TestSd, hostVars
  <2>2. TypeOK'
    <3>1. dip.sd \in Modes
      BY <1>1 DEF TypeOK
    <3> QED BY <1>1, <2>1, <3>1 DEF TypeOK
  <2>3. LoadInv'
    BY <1>1, <2>1, LoadKept DEF AfterLoad
  <2>4. FreshInv'
    <3>1. blk'.clean => fresh = "settled"
      BY <1>1, <2>1 DEF FreshInv
    <3> QED BY <1>1, <2>1, <3>1, FreshKept
  <2>5. SessionInv' /\ CleanBlocks' /\ FileOneKey'
    BY <1>1, <2>1 DEF SessionInv, CleanBlocks, FileOneKey
  <2> QED BY <2>2, <2>3, <2>4, <2>5 DEF KInv
<1>3. CASE EndSession
  <2>1. /\ pc = "session" /\ pc' = "sleep" /\ blk' = [blk EXCEPT !.session = FALSE]
        /\ UNCHANGED <<bram, writes, dip, flips, n, input_key, at, dipsw, sd_state, store, mode,
                       core, fresh, file>>
    BY <1>3 DEF EndSession, hostVars
  <2>2. /\ blk'.k = blk.k /\ blk'.dir = blk.dir /\ blk'.keys = blk.keys
        /\ blk'.clean = blk.clean /\ blk'.session = FALSE
        /\ blk' \in [k : 0 .. Rounds(core), dir : Modes, keys : SUBSET AnyKey(core),
                     clean : BOOLEAN, session : BOOLEAN]
    BY <1>1, <2>1 DEF TypeOK
  <2>3. TypeOK'
    BY <1>1, <2>1, <2>2 DEF TypeOK
  <2>4. LoadInv'
    BY <1>1, <2>1, LoadKept DEF AfterLoad
  <2>5. FreshInv'
    <3>1. blk'.clean => fresh = "settled"
      BY <1>1, <2>2 DEF FreshInv
    <3> QED BY <1>1, <2>1, <3>1, FreshKept
  <2>6. SessionInv' /\ CleanBlocks' /\ FileOneKey'
    BY <1>1, <2>1, <2>2 DEF SessionInv, CleanBlocks, FileOneKey
  <2> QED BY <2>3, <2>4, <2>5, <2>6 DEF KInv
<1>4. CASE Wake
  <2>1. /\ pc = "sleep" /\ pc' = "read"
        /\ UNCHANGED <<bram, writes, dip, flips, n, input_key, at, dipsw, sd_state, store, mode,
                       core, blk, fresh, file>>
    BY <1>4 DEF Wake, hostVars
  <2>2. TypeOK'
    BY <1>1, <2>1 DEF TypeOK
  <2>3. LoadInv'
    BY <1>1, <2>1, LoadKept DEF AfterLoad
  <2>4. FreshInv'
    <3>1. blk'.clean => fresh = "settled"
      BY <1>1, <2>1 DEF FreshInv
    <3> QED BY <1>1, <2>1, <3>1, FreshKept
  <2>5. SessionInv' /\ CleanBlocks' /\ FileOneKey'
    BY <1>1, <2>1 DEF SessionInv, CleanBlocks, FileOneKey
  <2> QED BY <2>2, <2>3, <2>4, <2>5 DEF KInv
<1> QED BY <1>2, <1>3, <1>4

LEMMA BeginStep ==
    ASSUME KInv, Begin
    PROVE  KInv'
<1>1. /\ blk' = [k |-> 1, dir |-> mode, keys |-> {}, clean |-> fresh = "settled",
                 session |-> pc = "session"]
      /\ UNCHANGED <<bram, writes, dip, flips, pc, n, input_key, at, dipsw, sd_state, store, mode,
                     core, fresh, file>>
  BY DEF Begin, hostVars, mainVars
<1>2. TypeOK /\ LoadInv /\ FreshInv /\ SessionInv /\ FileOneKey
  BY DEF KInv
<1>3. TypeOK'
  <2>1. core \in Cores /\ mode \in Modes
    BY <1>2 DEF TypeOK
  <2>2. Rounds(core) \in Nat /\ Rounds(core) >= 1
    BY <2>1, Sizes, SMT DEF Rounds
  <2>3. 1 \in 0 .. Rounds(core)
    BY <2>2, SMT
  <2>4. (fresh = "settled") \in BOOLEAN /\ (pc = "session") \in BOOLEAN
    OBVIOUS
  <2>5. blk' \in [k : 0 .. Rounds(core), dir : Modes, keys : SUBSET AnyKey(core),
                  clean : BOOLEAN, session : BOOLEAN]
    BY <1>1, <2>1, <2>3, <2>4
  <2> QED BY <1>1, <1>2, <2>5 DEF TypeOK
<1>4. LoadInv'
  BY <1>1, <1>2, LoadKept
<1>5. FreshInv'
  <2>1. blk'.clean => fresh = "settled"
    BY <1>1
  <2> QED BY <1>1, <1>2, <2>1, FreshKept
<1>6. SessionInv' /\ FileOneKey' /\ CleanBlocks'
  BY <1>1, <1>2 DEF SessionInv, FileOneKey, CleanBlocks
<1> QED BY <1>3, <1>4, <1>5, <1>6 DEF KInv

LEMMA RoundStep ==
    ASSUME KInv, Round
    PROVE  KInv'
<1>1. PICK dir \in {blk.dir, mode} :
        /\ blk' = [k       |-> IF blk.k = Rounds(core) THEN 0 ELSE blk.k + 1,
                   dir     |-> blk.dir,
                   keys    |-> blk.keys \cup KeysMet(dir),
                   clean   |-> blk.clean,
                   session |-> blk.session]
        /\ file' = IF blk.session
                   THEN file \cup {[key |-> key, dir |-> dir] : key \in KeysMet(dir)}
                   ELSE file
  BY DEF Round
<1>2. /\ blk.k > 0
      /\ UNCHANGED <<bram, writes, dip, flips, pc, n, input_key, at, dipsw, sd_state, store, mode,
                     core, fresh>>
  BY DEF Round, hostVars, mainVars
<1>3. TypeOK /\ LoadInv /\ FreshInv /\ SessionInv /\ CleanBlocks /\ FileOneKey
  BY DEF KInv
<1>4. /\ core \in Cores /\ dir \in Modes /\ blk.dir \in Modes /\ blk.k \in 0 .. Rounds(core)
      /\ blk.keys \subseteq AnyKey(core) /\ blk.clean \in BOOLEAN /\ blk.session \in BOOLEAN
  BY <1>1, <1>3 DEF TypeOK
<1>5. /\ KeysMet(dir) \subseteq AnyKey(core)
      /\ \A key : AllHold(key) => KeysMet(dir) \subseteq {KeyOf(core, key)}
  BY <1>2, <1>3, <1>4, RoundKeys
<1>6. /\ blk'.keys = blk.keys \cup KeysMet(dir) /\ blk'.dir = blk.dir
      /\ blk'.clean = blk.clean /\ blk'.session = blk.session
  BY <1>1
<1>7. TypeOK'
  <2>1. Rounds(core) \in Nat
    BY <1>4, Sizes, SMT DEF Rounds
  <2>2. (IF blk.k = Rounds(core) THEN 0 ELSE blk.k + 1) \in 0 .. Rounds(core)
    BY <1>4, <2>1, SMT
  <2>3. blk' \in [k : 0 .. Rounds(core), dir : Modes, keys : SUBSET AnyKey(core),
                  clean : BOOLEAN, session : BOOLEAN]
    BY <1>1, <1>4, <1>5, <2>2
  <2>4. file' \subseteq [key : AnyKey(core), dir : Modes]
    BY <1>1, <1>3, <1>4, <1>5 DEF TypeOK
  <2> QED BY <1>2, <1>3, <2>3, <2>4 DEF TypeOK
<1>8. LoadInv'
  BY <1>2, <1>3, LoadKept
<1>9. FreshInv'
  <2>1. blk'.clean => fresh = "settled"
    BY <1>3, <1>6 DEF FreshInv
  <2> QED BY <1>2, <1>3, <2>1, FreshKept
<1>10. SessionInv'
  BY <1>2, <1>3, <1>6 DEF SessionInv
<1>11. CleanBlocks'
  <2> SUFFICES ASSUME blk.clean
               PROVE  blk.keys \cup KeysMet(dir) \subseteq {KeyOf(core, bram)}
    BY <1>2, <1>6 DEF CleanBlocks
  <2>1. AllHold(bram)
    BY <1>3 DEF FreshInv
  <2>2. KeysMet(dir) \subseteq {KeyOf(core, bram)}
    BY <1>5, <2>1
  <2>3. blk.keys \subseteq {KeyOf(core, bram)}
    BY <1>3 DEF CleanBlocks
  <2> QED BY <2>2, <2>3
<1>12. FileOneKey'
  <2>1. CASE ~blk.session
    BY <1>1, <1>2, <1>3, <2>1 DEF FileOneKey
  <2>2. CASE blk.session
    <3>1. pc = "session" /\ dir = dipsw
      BY <1>1, <1>3, <2>2 DEF SessionInv
    <3>2. AllHold(input_key)
      BY <1>3, <3>1 DEF LoadInv, AfterLoad
    <3>3. KeysMet(dir) \subseteq {KeyOf(core, input_key)}
      BY <1>5, <3>2
    <3>4. file \subseteq {[key |-> KeyOf(core, input_key), dir |-> dipsw]}
      BY <1>3, <3>1 DEF FileOneKey
    <3>5. file' = file \cup {[key |-> key, dir |-> dir] : key \in KeysMet(dir)}
      BY <1>1, <2>2
    <3>6. file' \subseteq {[key |-> KeyOf(core, input_key), dir |-> dipsw]}
      BY <3>1, <3>3, <3>4, <3>5
    <3> QED BY <1>2, <3>6 DEF FileOneKey
  <2> QED BY <2>1, <2>2
<1> QED BY <1>7, <1>8, <1>9, <1>10, <1>11, <1>12 DEF KInv

LEMMA KStutter ==
    ASSUME KInv, UNCHANGED vars
    PROVE  KInv'
<1>1. UNCHANGED <<bram, writes, dip, flips, pc, n, input_key, at, dipsw, sd_state, store, mode,
                  core, blk, fresh, file>>
  BY DEF vars, hostVars, mainVars
<1>2. TypeOK /\ LoadInv /\ FreshInv /\ SessionInv /\ CleanBlocks /\ FileOneKey
  BY DEF KInv
<1>3. TypeOK'
  BY <1>1, <1>2 DEF TypeOK
<1>4. LoadInv'
  BY <1>1, <1>2, LoadKept
<1>5. FreshInv'
  <2>1. blk'.clean => fresh = "settled"
    BY <1>1, <1>2 DEF FreshInv
  <2> QED BY <1>1, <1>2, <2>1, FreshKept
<1>6. SessionInv' /\ CleanBlocks' /\ FileOneKey'
  BY <1>1, <1>2, BlocksKept
<1> QED BY <1>3, <1>4, <1>5, <1>6 DEF KInv

LEMMA KNext == KInv /\ [Next]_vars => KInv'
<1> SUFFICES ASSUME KInv, [Next]_vars PROVE KInv'
  OBVIOUS
<1>1. CASE HostWrite
  BY <1>1, HostWriteStep
<1>2. CASE FlipSwitch
  BY <1>2, FlipSwitchStep
<1>3. CASE Main
  BY <1>3, ReadWordStep, LoadByteStep, SwitchesStep, SessionStep DEF Main
<1>4. CASE Begin
  BY <1>4, BeginStep
<1>5. CASE Round
  BY <1>5, RoundStep
<1>6. CASE UNCHANGED vars
  BY <1>6, KStutter
<1> QED BY <1>1, <1>2, <1>3, <1>4, <1>5, <1>6 DEF Next

-----------------------------------------------------------------------------
(* Theorems *)

LEMMA Invariance == Spec => []KInv
BY KInit, KNext, PTL DEF Spec

\* Whatever hosts, switches and cores do, main() writes no byte outside the key
\* memories (main.cc:567-589) and a core finds a key or nothing in every byte.
THEOREM TypeCorrectness == Spec => []TypeOK
<1>1. KInv => TypeOK
  BY DEF KInv
<1> QED BY <1>1, Invariance, PTL

\* Rewriting the key memories under running cores is harmless while the key
\* stays the same (main.cc:542-589 against des.cpp:344-347, AES.cpp:124-138).
THEOREM UnchangedKeyUnnoticed == Spec => []CleanBlocks
<1>1. KInv => CleanBlocks
  BY DEF KInv
<1> QED BY <1>1, Invariance, PTL

\* A file of the SD card is processed under one key and in one direction
\* (main.cc:542-600 before 603-695).
THEOREM SessionUnderOneKey == Spec => []FileOneKey
<1>1. KInv => FileOneKey
  BY DEF KInv
<1> QED BY <1>1, Invariance, PTL
=============================================================================
