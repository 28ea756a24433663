--------------------------------- MODULE Des ---------------------------------
(***************************************************************************)
(* The des core and the key schedule that the processor computes for it.   *)
(* generate_sub_keys fills the 17 rows of key_sets one after the other;    *)
(* the core reads a block of 8 bytes, permutes it, runs 16 rounds with the *)
(* rows in the order its mode asks for, and writes 8 bytes.                *)
(*                                                                         *)
(* Sources: HLS/des/des.cpp:11-105 (tables, in DesTables), 250-494         *)
(* process_message, 500-533 des; src/main.cc:175-271 generate_sub_keys,    *)
(* the same text as des.cpp:152-248.                                       *)
(*                                                                         *)
(* The code keeps eight bits to a byte and picks bit n of a table as bit   *)
(* 0x80 >> (n-1)%8 of byte (n-1)/8; here a block is the sequence of its    *)
(* bits and the tables index it as they are.                               *)
(***************************************************************************)
EXTENDS Naturals, Sequences

CONSTANTS
    PC1,    \* initial_key_permutaion
    PC2,    \* sub_key_permutation
    Shifts, \* key_shift_sizes
    IP,     \* initial_message_permutation
    FP,     \* final_message_permutation
    E,      \* message_expansion
    P,      \* right_sub_message_permutation
    SBox    \* S1 to S8

ASSUME TablesAssumption ==
    /\ PC1 \in [1 .. 56 -> 1 .. 64] /\ PC2 \in [1 .. 48 -> 1 .. 56]
    /\ Shifts \in [1 .. 16 -> 1 .. 2]
    /\ IP \in [1 .. 64 -> 1 .. 64] /\ FP \in [1 .. 64 -> 1 .. 64]
    /\ E \in [1 .. 48 -> 1 .. 32] /\ P \in [1 .. 32 -> 1 .. 32]
    /\ \A g \in 1 .. 8 : SBox[g] \in [1 .. 64 -> 0 .. 15]

\* The final permutation undoes the initial one, and the other way round.
ASSUME InverseAssumption == \A n \in 1 .. 64 : IP[FP[n]] = n /\ FP[IP[n]] = n

VARIABLES
    key,        \* the key the sub-keys are made of
    i,          \* the rows of key_sets that are done
    cd,         \* key_sets[i-1].c and .d
    key_sets_k, \* the rows of sub-keys
    mode,       \* 1 encrypts, 0 decrypts
    step,       \* where the core is with its block
    message_piece, k, l, r, processed_piece,
    back,       \* a client has sent an answer back to have it undone
    asked,      \* the block it had sent first
    trace       \* and its halves after every round

scheduleVars == <<key, i, cd, key_sets_k>>
blockVars    == <<mode, step, message_piece, k, l, r, processed_piece, back, asked, trace>>
desVars      == <<scheduleVars, blockVars>>

Bit    == {0, 1}
Bits(n) == [1 .. n -> Bit]
Zeros(n) == [b \in 1 .. n |-> 0]

Permute(table, b) == [n \in DOMAIN table |-> b[table[n]]]
XorBits(a, b) == [n \in DOMAIN a |-> (a[n] + b[n]) % 2]
Left(b)    == [n \in 1 .. 32 |-> b[n]]
Right(b)   == [n \in 1 .. 32 |-> b[n + 32]]
Join(a, b) == [n \in 1 .. 64 |-> IF n <= 32 THEN a[n] ELSE b[n - 32]]

\* With key k0, the core waiting for a block.
DesInit(k0) ==
    /\ key = k0
    /\ i = 0
    /\ cd = Zeros(56)
    /\ key_sets_k = [row \in 0 .. 16 |-> Zeros(48)]
    /\ mode = 0
    /\ step = "read"
    /\ message_piece = Zeros(64)
    /\ k = 0
    /\ l = Zeros(32) /\ r = Zeros(32)
    /\ processed_piece = Zeros(64)
    /\ back = FALSE
    /\ asked = Zeros(64)
    /\ trace = <<>>

-----------------------------------------------------------------------------
(* The key schedule *)

\* Row 0: the permuted key, which no round uses.
PermuteKey ==
    /\ i = 0
    /\ cd' = Permute(PC1, key)
    /\ key_sets_k' = [key_sets_k EXCEPT ![0] = [n \in 1 .. 48 |-> cd'[n]]]
    /\ i' = 1
    /\ UNCHANGED <<key, blockVars>>

\* The 28 bits of c and the 28 of d go round by n, each in a circle of its own.
Rotate(b, n) ==
    [m \in 1 .. 56 |-> IF m <= 28 THEN b[((m - 1 + n) % 28) + 1]
                                  ELSE b[((m - 29 + n) % 28) + 29]]

SubKey ==
    /\ i \in 1 .. 16
    /\ cd' = Rotate(cd, Shifts[i])
    /\ key_sets_k' = [key_sets_k EXCEPT ![i] = Permute(PC2, cd')]
    /\ i' = i + 1
    /\ UNCHANGED <<key, blockVars>>

generate_sub_keys == PermuteKey \/ SubKey

-----------------------------------------------------------------------------
(* process_message *)

\* key_index in round n.
ScheduleIndex(n, m) == IF m = 0 THEN 17 - n ELSE n

\* The four bits of the answer of an S-box.
Nibble(v) == [n \in 1 .. 4 |-> (v \div <<8, 4, 2, 1>>[n]) % 2]

\* Mutant of Address: the six bits read as they stand.
AddressInOrder(b, o) ==
    32 * b[o + 1] + 16 * b[o + 2] + 8 * b[o + 3] + 4 * b[o + 4] + 2 * b[o + 5] + b[o + 6]

\* The outer bits of the group of six after bit o are the row of its S-box, the
\* four between them the column.
Address(b, o) ==
    16 * (2 * b[o + 1] + b[o + 6]) + 8 * b[o + 2] + 4 * b[o + 3] + 2 * b[o + 4] + b[o + 5]

Substitute(b) ==
    [m \in 1 .. 32 |->
        LET g == (m - 1) \div 4
        IN  Nibble(SBox[g + 1][Address(b, 6 * g) + 1])[m - 4 * g]]

Mangle(b, subkey) == Permute(P, Substitute(XorBits(Permute(E, b), subkey)))

NewRight(n) == XorBits(Mangle(r, key_sets_k[ScheduleIndex(n, mode)]), l)

\* The core has read a block, and then its mode.
ReadBlock(t, m) ==
    /\ step = "read"
    /\ message_piece' = t
    /\ asked' = t
    /\ mode' = m
    /\ step' = "permute"
    /\ UNCHANGED <<scheduleVars, k, l, r, processed_piece, back, trace>>

Divide ==
    /\ step = "permute"
    /\ l' = Left(Permute(IP, message_piece))
    /\ r' = Right(Permute(IP, message_piece))
    /\ processed_piece' = Zeros(64)
    /\ k' = 1
    /\ step' = "rounds"
    /\ trace' = IF back THEN trace ELSE << <<l', r'>> >>
    /\ UNCHANGED <<scheduleVars, mode, message_piece, back, asked>>

Round ==
    /\ step = "rounds"
    /\ k <= 16
    /\ l' = r
    /\ r' = NewRight(k)
    /\ k' = k + 1
    /\ trace' = IF back THEN trace ELSE Append(trace, <<l', r'>>)
    /\ UNCHANGED <<scheduleVars, mode, step, message_piece, processed_piece, back, asked>>

\* Mutant of PreEnd: the halves as they stand.
PreEndStraight == Join(l, r)

\* pre_end_permutation: the right half first.
PreEnd == Join(r, l)

Finish ==
    /\ step = "rounds"
    /\ k = 17
    /\ processed_piece' = Permute(FP, PreEnd)
    /\ step' = "write"
    /\ UNCHANGED <<scheduleVars, mode, message_piece, k, l, r, back, asked, trace>>

\* The answer is out and the core reads on.
Answered ==
    /\ step = "write"
    /\ step' = "read"
    /\ back' = FALSE
    /\ trace' = <<>>
    /\ UNCHANGED <<scheduleVars, mode, message_piece, k, l, r, processed_piece, asked>>

\* A client sends the answer back after the direction has been turned round.
SendBack ==
    /\ step = "write"
    /\ ~back
    /\ back' = TRUE
    /\ message_piece' = processed_piece
    /\ mode' = 1 - mode
    /\ step' = "permute"
    /\ UNCHANGED <<scheduleVars, k, l, r, processed_piece, asked, trace>>

Answer == Divide \/ Round \/ Finish \/ Answered \/ SendBack

\* The sub-keys are there before a block is processed; KeyLoad has the order in
\* which they really reach the core.
DesNext ==
    \/ generate_sub_keys
    \/ i = 17 /\ \E t \in Bits(64), m \in Bit : ReadBlock(t, m)
    \/ i = 17 /\ Answer

DesSpec == (\E k0 \in Bits(64) : DesInit(k0)) /\ [][DesNext]_desVars

-----------------------------------------------------------------------------
(* Properties *)

Halves == Bits(32) \X Bits(32)

DesTypeOK ==
    /\ key \in Bits(64)
    /\ i \in 0 .. 17
    /\ cd \in Bits(56)
    /\ key_sets_k \in [0 .. 16 -> Bits(48)]
    /\ mode \in Bit
    /\ step \in {"read", "permute", "rounds", "write"}
    /\ {message_piece, processed_piece, asked} \subseteq Bits(64)
    /\ k \in 0 .. 17
    /\ {l, r} \subseteq Bits(32)
    /\ back \in BOOLEAN
    /\ trace \in Seq(Halves)

\* While an answer is undone, the halves run through those of the first pass
\* backwards and with left and right exchanged: after n rounds they are those
\* after 16 - n (key_index of des.cpp:338-342, the exchanges of 315-318 and
\* 464-468 and the final one of 475-479 together).
Mirror == back /\ step = "rounds" => trace[18 - k] = <<r, l>>

\* What a client sends back with the direction turned round comes back as what
\* it sent first, whichever direction that was: no block is beyond recovery
\* (des.cpp:250-494).
Inverts == back /\ step = "write" => processed_piece = asked

\* Decryption is encryption run backwards, round by round and to the first bit
\* (des.cpp:250-494).
Reversible == Mirror /\ Inverts
=============================================================================
