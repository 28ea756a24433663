--------------------------------- MODULE Aes ---------------------------------
(***************************************************************************)
(* The aes core and the key schedule that the processor computes for it.   *)
(* KeyExpansion makes 44 words of the four of the key; aes_cipher takes a  *)
(* block of 16 bytes through the initial key addition and ten rounds.      *)
(* There is no decryption.                                                 *)
(*                                                                         *)
(* Sources: HLS/aes/AES.cpp:5-143; src/main.cc:295-418.                    *)
(*                                                                         *)
(* Of the three key sizes only the 128 bits that main() asks for and AES.h *)
(* is compiled for are modelled.                                           *)
(***************************************************************************)
EXTENDS Integers, Sequences

Nb == 4
Nk == 4
Nr == 10

Byte  == 0 .. 255
Four  == 0 .. 3
Block == [1 .. 16 -> Byte]
Word  == [Four -> Byte]

CONSTANTS
    Sub,        \* S_Box
    InverseSub, \* isbox
    Expanded    \* aes_expanded_key

ASSUME BoxesAssumption ==
    /\ Sub \in [1 .. 256 -> Byte]
    /\ InverseSub \in [1 .. 256 -> Byte]
    /\ \A v \in Byte : InverseSub[Sub[v + 1] + 1] = v

VARIABLES
    w,              \* the words of the schedule that are done
    aes_step,       \* where the core is with its block
    aes_in,         \* the block
    round,
    cipher_state,   \* cipher_state[row][column]
    aes_out

expansionVars == <<w>>
cipherVars    == <<aes_step, aes_in, round, cipher_state, aes_out>>
aesVars       == <<expansionVars, cipherVars>>

\* Bit n of a byte, and the byte of eight bits.
Weight == <<1, 2, 4, 8, 16, 32, 64, 128>>
BitOf(a, n) == (a \div Weight[n + 1]) % 2
ByteOf(bit) ==
    bit[0] + 2 * bit[1] + 4 * bit[2] + 8 * bit[3]
           + 16 * bit[4] + 32 * bit[5] + 64 * bit[6] + 128 * bit[7]

\* a ^ b of two bytes, as a table.
XorTable ==
    [a \in Byte |-> [b \in Byte |->
        ByteOf([n \in 0 .. 7 |-> (BitOf(a, n) + BitOf(b, n)) % 2])]]
ByteXor(a, b) == XorTable[a][b]
Xor4(a, b, c, d) == ByteXor(ByteXor(a, b), ByteXor(c, d))
WordXor(a, b) == [j \in Four |-> ByteXor(a[j], b[j])]

xtime(a) == ByteXor((2 * a) % 256, IF a >= 128 THEN 27 ELSE 0)

\* xtime applied n times to b, for every n up to the number of round keys.
Powers(b) == LET p[n \in 0 .. Nr + 1] == IF n = 0 THEN b ELSE xtime(p[n - 1]) IN p

\* The sum, over the bits n of a, of xtime applied n times to b.
Multiplication(a, b) ==
    LET term(n) == IF BitOf(a, n) = 1 THEN Powers(b)[n] ELSE 0
    IN  ByteXor(Xor4(term(0), term(1), term(2), term(3)),
                Xor4(term(4), term(5), term(6), term(7)))

KeyWord(key, n) == [j \in Four |-> key[4 * n + j + 1]]

\* With the first words of the schedule copied from key k0, the core waiting.
AesInit(k0) ==
    /\ w = [n \in 1 .. Nk |-> KeyWord(k0, n - 1)]
    /\ aes_step = "read"
    /\ aes_in = [n \in 1 .. 16 |-> 0]
    /\ round = 0
    /\ cipher_state = [row \in Four |-> [col \in Four |-> 0]]
    /\ aes_out = [n \in 1 .. 16 |-> 0]

-----------------------------------------------------------------------------
(* KeyExpansion *)

\* The round constant: xtime applied a times to 0x8d.
Rcon(a) == [j \in Four |-> IF j = 0 THEN Powers(141)[a] ELSE 0]

RotWord(a) == [j \in Four |-> a[(j + 1) % 4]]
SubWord(a) == [j \in Four |-> Sub[a[j] + 1]]

\* Mutant of WordsDone: one word too many.
WordsDoneLate == Len(w) > Nb * (Nr + 1)

WordsDone == Len(w) = Nb * (Nr + 1)

\* w[n] for n = Len(w); a sequence counts from 1.
ExpandWord ==
    /\ ~WordsDone
    /\ LET n    == Len(w)
           temp == IF n % Nk = 0
                   THEN WordXor(SubWord(RotWord(w[n])), Rcon(n \div Nk))
                   ELSE w[n]
       IN  w' = Append(w, WordXor(temp, w[n - Nk + 1]))
    /\ UNCHANGED cipherVars

-----------------------------------------------------------------------------
(* aes_cipher *)

SubBytes(s) == [i \in Four |-> [j \in Four |-> Sub[s[i][j] + 1]]]

\* Mutant of ShiftRows: tp[3] of the last row is taken from the wrong place.
ShiftRowsSlip(s) ==
    [i \in Four |-> [j \in Four |-> IF i = 3 /\ j = 3 THEN s[3][3] ELSE s[i][(j + i) % 4]]]

ShiftRows(s) == [i \in Four |-> [j \in Four |-> s[i][(j + i) % 4]]]

\* Four_Term_Multiplication of a with column j of s; its coefficient for row i.
Product(a, s, i, j) ==
    LET term(n) == Multiplication(a[(i + 4 - n) % 4], s[n][j])
    IN  Xor4(term(0), term(1), term(2), term(3))
Columns(a, s) == [i \in Four |-> [j \in Four |-> Product(a, s, i, j)]]

Polynomial(a0, a1, a2, a3) == [n \in Four |-> <<a0, a1, a2, a3>>[n + 1]]
MixColumns(s) == Columns(Polynomial(2, 1, 1, 3), s)

\* Row n of the round keys holds the bytes of four words, one after the other.
AddRoundKey(s, n) ==
    [i \in Four |-> [j \in Four |-> ByteXor(s[i][j], w[4 * n + j + 1][i])]]

ReadIn(t) ==
    /\ aes_step = "read"
    /\ aes_in' = t
    /\ cipher_state' = AddRoundKey([j \in Four |-> [i \in Four |-> t[j + 4 * i + 1]]], 0)
    /\ round' = 1
    /\ aes_step' = "rounds"
    /\ UNCHANGED <<expansionVars, aes_out>>

\* The last round mixes no columns.
AesRound ==
    /\ aes_step = "rounds"
    /\ round <= Nr
    /\ LET shifted == ShiftRows(SubBytes(cipher_state))
       IN  cipher_state' =
              AddRoundKey(IF round < Nr THEN MixColumns(shifted) ELSE shifted, round)
    /\ round' = round + 1
    /\ UNCHANGED <<expansionVars, aes_step, aes_in, aes_out>>

WriteOut ==
    /\ aes_step = "rounds"
    /\ round = Nr + 1
    /\ aes_out' = [n \in 1 .. 16 |-> cipher_state[(n - 1) % 4][(n - 1) \div 4]]
    /\ aes_step' = "written"
    /\ UNCHANGED <<expansionVars, aes_in, round, cipher_state>>

ReadOn ==
    /\ aes_step = "written"
    /\ aes_step' = "read"
    /\ UNCHANGED <<expansionVars, aes_in, round, cipher_state, aes_out>>

AesCipher == AesRound \/ WriteOut \/ ReadOn

AesNext ==
    \/ ExpandWord
    \/ WordsDone /\ \E t \in Block : ReadIn(t)
    \/ WordsDone /\ AesCipher

AesSpec == (\E k0 \in Block : AesInit(k0)) /\ [][AesNext]_aesVars

-----------------------------------------------------------------------------
(* Properties *)

AesTypeOK ==
    /\ Len(w) \in Nk .. Nb * (Nr + 1)
    /\ \A n \in 1 .. Len(w) : w[n] \in Word
    /\ aes_step \in {"read", "rounds", "written"}
    /\ {aes_in, aes_out} \subseteq Block
    /\ round \in 0 .. Nr + 1
    /\ cipher_state \in [Four -> [Four -> Byte]]

\* The schedule the program computes for the key 00 01 .. 0f is the one that it
\* has as a table and that the test of the core uses (KeyExpansion,
\* main.cc:374-418, against main.cc:277-288 and HLS/aes/main.cpp:7-18).
ExpandsAsTabled ==
    (\A n \in 1 .. Nk : w[n] = KeyWord(Expanded, n - 1)) =>
        \A n \in 1 .. Len(w) : w[n] = KeyWord(Expanded, n - 1)

\* What undoes a round: isbox, the rows shifted back, the columns multiplied by
\* the inverse polynomial.
Undo(s, n) ==
    LET added   == AddRoundKey(s, n)
        shifted == IF n < Nr THEN Columns(Polynomial(14, 9, 13, 11), added) ELSE added
    IN  [i \in Four |-> [j \in Four |-> InverseSub[shifted[i][(j + 4 - i) % 4] + 1]]]

\* Every round can be undone by one who has the key, so a receiver can decrypt
\* what the accelerator, which cannot decrypt itself, has encrypted: no table or
\* step of a round loses anything of the block (AES.cpp:36-99 against isbox,
\* main.cc:292).
RoundsInvertible ==
    [][round' = round + 1 /\ round > 0 => Undo(cipher_state', round) = cipher_state]_aesVars
=============================================================================
