---------------------------- MODULE CipherProofs ----------------------------
(***************************************************************************)
(* Proofs about Des, for all tables that satisfy its assumptions: des      *)
(* undoes in one direction what it has done in the other.                  *)
(***************************************************************************)
EXTENDS Ciphers, SequenceTheorems, TLAPS

-----------------------------------------------------------------------------
(* What the operators on bits return *)

\* A bit is added to itself: nothing remains.
LEMMA XorBitsCancel ==
    ASSUME NEW a \in Bits(32), NEW b \in Bits(32)
    PROVE  XorBits(b, XorBits(b, a)) = a
<1>1. DOMAIN a = 1 .. 32 /\ DOMAIN b = 1 .. 32
  BY DEF Bits
<1>2. ASSUME NEW n \in 1 .. 32
      PROVE  (b[n] + ((b[n] + a[n]) % 2)) % 2 = a[n]
  <2>1. a[n] \in Bit /\ b[n] \in Bit
    BY DEF Bits
  <2>2. CASE a[n] = 0 /\ b[n] = 0
    BY <2>2, SMT
  <2>3. CASE a[n] = 0 /\ b[n] = 1
    BY <2>3, SMT
  <2>4. CASE a[n] = 1 /\ b[n] = 0
    BY <2>4, SMT
  <2>5. CASE a[n] = 1 /\ b[n] = 1
    BY <2>5, SMT
  <2> QED
    BY <2>1, <2>2, <2>3, <2>4, <2>5 DEF Bit
<1>3. DOMAIN XorBits(b, a) = 1 .. 32
  BY <1>1 DEF XorBits
<1>4. XorBits(b, XorBits(b, a)) = [n \in 1 .. 32 |-> (b[n] + ((b[n] + a[n]) % 2)) % 2]
  BY <1>1 DEF XorBits
<1>5. XorBits(b, XorBits(b, a)) = [n \in 1 .. 32 |-> a[n]]
  BY <1>2, <1>4
<1> QED
  BY <1>1, <1>5 DEF Bits

LEMMA XorBitsType ==
    ASSUME NEW n \in Nat, NEW a \in Bits(n), NEW b \in Bits(n)
    PROVE  XorBits(a, b) \in Bits(n)
<1>1. ASSUME NEW m \in 1 .. n
      PROVE  (a[m] + b[m]) % 2 \in Bit
  <2>1. a[m] \in {0, 1} /\ b[m] \in {0, 1}
    BY DEF Bits, Bit
  <2>2. a[m] + b[m] \in Nat
    BY <2>1
  <2> QED
    BY <2>2, SMT DEF Bit
<1> QED
  BY <1>1 DEF XorBits, Bits

LEMMA PermuteType ==
    ASSUME NEW m \in Nat, NEW n \in Nat, NEW t \in [1 .. n -> 1 .. m], NEW b \in Bits(m)
    PROVE  Permute(t, b) \in Bits(n)
BY DEF Permute, Bits

LEMMA TableTypes ==
    /\ PC1 \in [1 .. 56 -> 1 .. 64] /\ PC2 \in [1 .. 48 -> 1 .. 56]
    /\ Shifts \in [1 .. 16 -> 1 .. 2]
    /\ IP \in [1 .. 64 -> 1 .. 64] /\ FP \in [1 .. 64 -> 1 .. 64]
    /\ E \in [1 .. 48 -> 1 .. 32] /\ P \in [1 .. 32 -> 1 .. 32]
BY TablesAssumption, Zenon

\* The two message permutations undo one another.
LEMMA PermuteInverse ==
    ASSUME NEW b \in Bits(64)
    PROVE  /\ Permute(IP, Permute(FP, b)) = b
           /\ Permute(FP, Permute(IP, b)) = b
<1>1. DOMAIN b = 1 .. 64 /\ b = [n \in 1 .. 64 |-> b[n]]
  BY DEF Bits
<1>2. IP \in [1 .. 64 -> 1 .. 64] /\ FP \in [1 .. 64 -> 1 .. 64]
  BY TableTypes
<1>3. \A n \in 1 .. 64 : IP[n] \in 1 .. 64 /\ FP[n] \in 1 .. 64
  BY <1>2
<1>4. DOMAIN IP = 1 .. 64 /\ DOMAIN FP = 1 .. 64
  BY <1>2
<1>5. Permute(IP, Permute(FP, b)) = [n \in 1 .. 64 |-> b[FP[IP[n]]]]
  BY <1>3, <1>4 DEF Permute
<1>6. Permute(FP, Permute(IP, b)) = [n \in 1 .. 64 |-> b[IP[FP[n]]]]
  BY <1>3, <1>4 DEF Permute
<1> QED
  BY <1>1, <1>5, <1>6, InverseAssumption

LEMMA JoinHalves ==
    ASSUME NEW a \in Bits(32), NEW b \in Bits(32)
    PROVE  /\ Join(a, b) \in Bits(64)
           /\ Left(Join(a, b)) = a
           /\ Right(Join(a, b)) = b
<1>1. a = [n \in 1 .. 32 |-> a[n]] /\ b = [n \in 1 .. 32 |-> b[n]]
  BY DEF Bits
<1>2. Join(a, b) \in Bits(64)
  BY SMT DEF Join, Bits
<1>3. Left(Join(a, b)) = [n \in 1 .. 32 |-> a[n]]
  BY SMT DEF Join, Left
<1>4. Right(Join(a, b)) = [n \in 1 .. 32 |-> b[n]]
  BY SMT DEF Join, Right
<1> QED
  BY <1>1, <1>2, <1>3, <1>4

LEMMA HalvesJoined ==
    ASSUME NEW b \in Bits(64)
    PROVE  /\ Left(b) \in Bits(32) /\ Right(b) \in Bits(32)
           /\ Join(Left(b), Right(b)) = b
<1>1. b = [n \in 1 .. 64 |-> b[n]]
  BY DEF Bits
<1>2. Left(b) \in Bits(32) /\ Right(b) \in Bits(32)
  BY SMT DEF Left, Right, Bits
<1>3. Join(Left(b), Right(b)) = [n \in 1 .. 64 |-> b[n]]
  BY SMT DEF Join, Left, Right
<1> QED
  BY <1>1, <1>2, <1>3

LEMMA NibbleType ==
    ASSUME NEW v \in 0 .. 15, NEW n \in 1 .. 4
    PROVE  Nibble(v)[n] \in Bit
<1>1. Nibble(v)[n] = (v \div <<8, 4, 2, 1>>[n]) % 2
  BY DEF Nibble
<1>2. CASE n = 1
  BY <1>1, <1>2, SMT DEF Bit
<1>3. CASE n = 2
  BY <1>1, <1>3, SMT DEF Bit
<1>4. CASE n = 3
  BY <1>1, <1>4, SMT DEF Bit
<1>5. CASE n = 4
  BY <1>1, <1>5, SMT DEF Bit
<1> QED
  BY <1>2, <1>3, <1>4, <1>5, SMT

\* The S-boxes answer with 32 bits.
LEMMA SubstituteType ==
    ASSUME NEW b \in Bits(48)
    PROVE  Substitute(b) \in Bits(32)
<1>1. ASSUME NEW g \in 0 .. 7
      PROVE  Address(b, 6 * g) + 1 \in 1 .. 64
  <2>1. ASSUME NEW m \in 1 .. 6
        PROVE  b[6 * g + m] \in {0, 1}
    <3>1. 6 * g + m \in 1 .. 48
      BY SMT
    <3> QED
      BY <3>1 DEF Bits, Bit
  <2>2. /\ b[6 * g + 1] \in {0, 1} /\ b[6 * g + 2] \in {0, 1} /\ b[6 * g + 3] \in {0, 1}
        /\ b[6 * g + 4] \in {0, 1} /\ b[6 * g + 5] \in {0, 1} /\ b[6 * g + 6] \in {0, 1}
    BY <2>1, SMT
  <2> QED
    BY <2>2, SMT DEF Address
<1>2. ASSUME NEW m \in 1 .. 32
      PROVE  LET g == (m - 1) \div 4
             IN  Nibble(SBox[g + 1][Address(b, 6 * g) + 1])[m - 4 * g] \in Bit
  <2> DEFINE g == (m - 1) \div 4
  <2>1. g \in 0 .. 7 /\ m - 4 * g \in 1 .. 4
    BY SMT
  <2> HIDE DEF g
  <2>2. SBox[g + 1] \in [1 .. 64 -> 0 .. 15]
    <3>1. g + 1 \in 1 .. 8
      BY <2>1, SMT
    <3> QED BY <3>1, TablesAssumption, Zenon
  <2>3. SBox[g + 1][Address(b, 6 * g) + 1] \in 0 .. 15
    BY <1>1, <2>1, <2>2
  <2>4. Nibble(SBox[g + 1][Address(b, 6 * g) + 1])[m - 4 * g] \in Bit
    BY <2>1, <2>3, NibbleType
  <2> QED
    BY <2>4 DEF g
<1> QED
  BY <1>2 DEF Substitute, Bits

LEMMA MangleType ==
    ASSUME NEW b \in Bits(32), NEW s \in Bits(48)
    PROVE  Mangle(b, s) \in Bits(32)
<1>3. Permute(E, b) \in Bits(48)
  BY TableTypes, PermuteType
<1>4. Substitute(XorBits(Permute(E, b), s)) \in Bits(32)
  BY <1>3, XorBitsType, SubstituteType
<1> QED
  BY <1>4, TableTypes, PermuteType DEF Mangle

-----------------------------------------------------------------------------
(* The inductive invariant *)

\* The direction of the first pass.
Direction == IF back THEN 1 - mode ELSE mode

\* The entry after m of the trace is what a round makes of entry m.
NextHalves(m) ==
    <<trace[m][2],
      XorBits(Mangle(trace[m][2], key_sets_k[ScheduleIndex(m, Direction)]), trace[m][1])>>
Chained == \A m \in 1 .. Len(trace) - 1 : trace[m + 1] = NextHalves(m)

Begun == trace # <<>> => trace[1] = <<Left(Permute(IP, asked)), Right(Permute(IP, asked))>>

\* The answer to the first pass, by its trace.
FirstAnswer == Permute(FP, Join(trace[17][2], trace[17][1]))

FirstPass ==
    ~back =>
        /\ step \in {"read", "permute"} => trace = <<>>
        /\ step = "permute" => message_piece = asked
        /\ step = "rounds" => Len(trace) = k /\ trace[k] = <<l, r>>
        /\ step = "write" => Len(trace) = 17 /\ processed_piece = FirstAnswer

SecondPass ==
    back =>
        /\ step # "read"
        /\ Len(trace) = 17
        /\ step = "permute" => message_piece = FirstAnswer

Control == (step # "read" => i = 17) /\ (step = "rounds" => k \in 1 .. 17)

DesInv ==
    /\ DesTypeOK /\ Control /\ Chained /\ Begun
    /\ FirstPass /\ SecondPass /\ Mirror /\ Inverts

-----------------------------------------------------------------------------
(* Types *)

LEMMA TypeFacts ==
    ASSUME DesTypeOK
    PROVE  /\ key \in Bits(64) /\ i \in 0 .. 17 /\ cd \in Bits(56)
           /\ key_sets_k \in [0 .. 16 -> Bits(48)]
           /\ mode \in {0, 1} /\ k \in 0 .. 17
           /\ message_piece \in Bits(64) /\ processed_piece \in Bits(64)
           /\ asked \in Bits(64)
           /\ l \in Bits(32) /\ r \in Bits(32)
           /\ back \in BOOLEAN /\ trace \in Seq(Halves)
BY DEF DesTypeOK, Bit

LEMMA EmptyTrace == <<>> \in Seq(Halves)
<1> DEFINE H == Halves
<1>1. <<>> \in Seq(H)
  <2> HIDE DEF H
  <2> QED
    OBVIOUS
<1> QED
  BY <1>1

LEMMA ZerosType == \A n \in Nat : Zeros(n) \in Bits(n)
BY DEF Zeros, Bits, Bit

LEMMA RotateType ==
    ASSUME NEW b \in Bits(56), NEW n \in 1 .. 2
    PROVE  Rotate(b, n) \in Bits(56)
<1>1. ASSUME NEW m \in 1 .. 28
      PROVE  ((m - 1 + n) % 28) + 1 \in 1 .. 56
  BY SMT
<1>2. ASSUME NEW m \in 29 .. 56
      PROVE  ((m - 29 + n) % 28) + 29 \in 1 .. 56
  BY SMT
<1>3. ASSUME NEW m \in 1 .. 56
      PROVE  (IF m <= 28 THEN b[((m - 1 + n) % 28) + 1]
                         ELSE b[((m - 29 + n) % 28) + 29]) \in Bit
  <2>1. CASE m <= 28
    BY <1>1, <2>1 DEF Bits
  <2>2. CASE ~(m <= 28)
    BY <1>2, <2>2 DEF Bits
  <2> QED
    BY <2>1, <2>2
<1> QED
  BY <1>3 DEF Rotate, Bits

LEMMA PermuteKeyType == DesTypeOK /\ PermuteKey => DesTypeOK'
<1> SUFFICES ASSUME DesTypeOK, PermuteKey
             PROVE  DesTypeOK'
  OBVIOUS
<1>1. cd' \in Bits(56)
  <2> QED
    BY TableTypes, TypeFacts, PermuteType DEF PermuteKey
<1>2. key_sets_k' \in [0 .. 16 -> Bits(48)]
  <2>1. [n \in 1 .. 48 |-> cd'[n]] \in Bits(48)
    BY <1>1 DEF Bits
  <2> QED
    BY <2>1, TypeFacts DEF PermuteKey
<1>3. i' \in 0 .. 17
  BY DEF PermuteKey
<1> QED
  BY <1>1, <1>2, <1>3 DEF DesTypeOK, PermuteKey, blockVars

LEMMA SubKeyType == DesTypeOK /\ SubKey => DesTypeOK'
<1> SUFFICES ASSUME DesTypeOK, SubKey
             PROVE  DesTypeOK'
  OBVIOUS
<1>0. i \in 1 .. 16
  BY DEF SubKey
<1>1. cd' \in Bits(56)
  <2>2. Shifts[i] \in 1 .. 2
    BY <1>0, TableTypes
  <2> QED
    BY <2>2, TypeFacts, RotateType DEF SubKey
<1>2. key_sets_k' \in [0 .. 16 -> Bits(48)]
  <2>2. Permute(PC2, cd') \in Bits(48)
    BY <1>1, TableTypes, PermuteType
  <2> QED
    BY <2>2, TypeFacts DEF SubKey
<1>3. i' \in 0 .. 17
  BY <1>0, SMT DEF SubKey
<1> QED
  BY <1>1, <1>2, <1>3 DEF DesTypeOK, SubKey, blockVars

LEMMA ReadBlockType ==
    ASSUME DesTypeOK, NEW t \in Bits(64), NEW m \in Bit, ReadBlock(t, m)
    PROVE  DesTypeOK'
BY DEF DesTypeOK, ReadBlock, scheduleVars

LEMMA DivideType == DesTypeOK /\ Divide => DesTypeOK'
<1> SUFFICES ASSUME DesTypeOK, Divide
             PROVE  DesTypeOK'
  OBVIOUS
<1>1. l' \in Bits(32) /\ r' \in Bits(32)
  <2>2. Permute(IP, message_piece) \in Bits(64)
    BY TableTypes, TypeFacts, PermuteType
  <2> QED
    BY <2>2, HalvesJoined DEF Divide
<1>2. trace' \in Seq(Halves)
  <2>1. <<l', r'>> \in Halves
    BY <1>1 DEF Halves
  <2> QED
    BY <2>1, TypeFacts DEF Divide
<1>3. processed_piece' \in Bits(64)
  BY ZerosType DEF Divide
<1> QED
  BY <1>1, <1>2, <1>3 DEF DesTypeOK, Divide, scheduleVars

LEMMA RoundHalves ==
    ASSUME DesTypeOK, Control, Round
    PROVE  /\ ScheduleIndex(k, mode) \in 0 .. 16
           /\ Mangle(r, key_sets_k[ScheduleIndex(k, mode)]) \in Bits(32)
           /\ l' \in Bits(32) /\ r' \in Bits(32)
<1>1. k \in 1 .. 16
  BY TypeFacts DEF Control, Round
<1>2. ScheduleIndex(k, mode) \in 0 .. 16
  BY <1>1, SMT DEF ScheduleIndex
<1>3. Mangle(r, key_sets_k[ScheduleIndex(k, mode)]) \in Bits(32)
  BY <1>2, TypeFacts, MangleType
<1> QED
  BY <1>2, <1>3, TypeFacts, XorBitsType DEF Round, NewRight

LEMMA RoundType == DesTypeOK /\ Control /\ Round => DesTypeOK'
<1> SUFFICES ASSUME DesTypeOK, Control, Round
             PROVE  DesTypeOK'
  OBVIOUS
<1>1. l' \in Bits(32) /\ r' \in Bits(32)
  BY RoundHalves
<1>2. trace' \in Seq(Halves)
  <2>1. <<l', r'>> \in Halves
    BY <1>1 DEF Halves
  <2> QED
    BY <2>1, TypeFacts DEF Round
<1>3. k' \in 0 .. 17
  <2>1. k \in 0 .. 17 /\ k <= 16 /\ k' = k + 1
    BY TypeFacts DEF Round
  <2> QED
    BY <2>1, SMT
<1> QED
  BY <1>1, <1>2, <1>3 DEF DesTypeOK, Round, scheduleVars

LEMMA FinishType == DesTypeOK /\ Finish => DesTypeOK'
<1> SUFFICES ASSUME DesTypeOK, Finish
             PROVE  DesTypeOK'
  OBVIOUS
<1>2. PreEnd \in Bits(64)
  BY TypeFacts, JoinHalves DEF PreEnd
<1>3. processed_piece' \in Bits(64)
  BY <1>2, TableTypes, PermuteType DEF Finish
<1> QED
  BY <1>3 DEF DesTypeOK, Finish, scheduleVars

LEMMA AnsweredType == DesTypeOK /\ Answered => DesTypeOK'
<1> SUFFICES ASSUME DesTypeOK, Answered
             PROVE  DesTypeOK'
  OBVIOUS
<1>1. trace' \in Seq(Halves)
  BY EmptyTrace DEF Answered
<1>2. back' \in BOOLEAN
  BY DEF Answered
<1> QED
  BY <1>1, <1>2 DEF DesTypeOK, Answered, scheduleVars

LEMMA SendBackType == DesTypeOK /\ SendBack => DesTypeOK'
<1> SUFFICES ASSUME DesTypeOK, SendBack
             PROVE  DesTypeOK'
  OBVIOUS
<1>1. mode' \in Bit
  BY TypeFacts DEF SendBack, Bit
<1> QED
  BY <1>1 DEF DesTypeOK, SendBack, scheduleVars

-----------------------------------------------------------------------------
(* The steps *)

LEMMA InitInv == ASSUME NEW k0 \in Bits(64), DesInit(k0) PROVE DesInv
<1>1. DesTypeOK
  <2>1. key \in Bits(64) /\ i \in 0 .. 17 /\ k \in 0 .. 17 /\ mode \in Bit
    BY DEF DesInit, Bit
  <2>2. Zeros(32) \in Bits(32) /\ Zeros(48) \in Bits(48) /\ Zeros(56) \in Bits(56)
        /\ Zeros(64) \in Bits(64)
    BY ZerosType
  <2>3. key_sets_k \in [0 .. 16 -> Bits(48)]
    BY <2>2 DEF DesInit
  <2>4. trace \in Seq(Halves)
    BY EmptyTrace DEF DesInit
  <2>5. back \in BOOLEAN
    BY DEF DesInit
  <2> QED
    BY <2>1, <2>2, <2>3, <2>4, <2>5 DEF DesInit, DesTypeOK
<1> QED
  BY <1>1 DEF DesInit, DesInv, Control, Chained, Begun, FirstPass, SecondPass, Mirror, Inverts

\* While there is a trace, the sub-keys stay as they are.
LEMMA ScheduleInv == DesInv /\ generate_sub_keys => DesInv'
<1> SUFFICES ASSUME DesInv, generate_sub_keys
             PROVE  DesInv'
  OBVIOUS
<1>1. DesTypeOK'
  BY PermuteKeyType, SubKeyType DEF DesInv, generate_sub_keys
<1>2. i \in 0 .. 16 /\ UNCHANGED blockVars
  BY DEF generate_sub_keys, PermuteKey, SubKey
<1>3. step = "read"
  BY <1>2 DEF DesInv, Control
<1>4. ~back /\ trace = <<>>
  BY <1>3 DEF DesInv, SecondPass, FirstPass
<1>5. step' = "read" /\ ~back' /\ trace' = <<>>
  BY <1>2, <1>3, <1>4 DEF blockVars
<1> QED
  BY <1>1, <1>5 DEF DesInv, Control, Chained, Begun, FirstPass, SecondPass, Mirror, Inverts

LEMMA ReadBlockInv ==
    ASSUME DesInv, i = 17, NEW t \in Bits(64), NEW m \in Bit, ReadBlock(t, m)
    PROVE  DesInv'
<1>1. DesTypeOK'
  BY ReadBlockType DEF DesInv
<1>2. ~back /\ trace = <<>>
  BY DEF DesInv, SecondPass, FirstPass, ReadBlock
<1>3. ~back' /\ trace' = <<>> /\ step' = "permute" /\ i' = 17 /\ message_piece' = asked'
  BY <1>2 DEF ReadBlock, scheduleVars
<1> QED
  BY <1>1, <1>3 DEF DesInv, Control, Chained, Begun, FirstPass, SecondPass, Mirror, Inverts

\* What the trace says stays true as long as it, the sub-keys and the direction
\* of the first pass stay.
LEMMA TraceKept ==
    ASSUME Chained, Begun, UNCHANGED <<trace, key_sets_k, asked>>, Direction' = Direction
    PROVE  Chained' /\ Begun'
BY DEF Chained, Begun, NextHalves

LEMMA TraceHalves ==
    ASSUME DesTypeOK, NEW m \in 1 .. Len(trace)
    PROVE  /\ trace[m] = <<trace[m][1], trace[m][2]>>
           /\ trace[m][1] \in Bits(32) /\ trace[m][2] \in Bits(32)
<1>1. trace[m] \in Halves
  BY TypeFacts
<1> QED
  BY <1>1 DEF Halves

LEMMA DivideInv == DesInv /\ i = 17 /\ Divide => DesInv'
<1> SUFFICES ASSUME DesInv, i = 17, Divide
             PROVE  DesInv'
  OBVIOUS
<1>1. DesTypeOK'
  BY DivideType DEF DesInv
<1>2. k' = 1 /\ step' = "rounds" /\ i' = 17 /\ back' = back
  BY DEF Divide, scheduleVars
<1>3. Control' /\ Inverts'
  BY <1>2 DEF Control, Inverts
<1>4. CASE ~back
  <2>1. trace' = << <<l', r'>> >> /\ message_piece = asked
    BY <1>4 DEF Divide, DesInv, FirstPass
  <2>2. Len(trace') = 1 /\ trace'[1] = <<l', r'>>
    BY <2>1
  <2>3. Begun'
    BY <2>1, <2>2 DEF Begun, Divide
  <2>4. Chained'
    BY <2>2 DEF Chained
  <2>5. FirstPass' /\ SecondPass' /\ Mirror'
    BY <1>2, <1>4, <2>2 DEF FirstPass, SecondPass, Mirror
  <2> QED
    BY <1>1, <1>3, <2>3, <2>4, <2>5 DEF DesInv
<1>5. CASE back
  <2>1. trace' = trace /\ Len(trace) = 17 /\ message_piece = FirstAnswer
    BY <1>5 DEF Divide, DesInv, SecondPass
  <2>2. Chained' /\ Begun'
    <3>1. Chained /\ Begun
      BY DEF DesInv
    <3>2. UNCHANGED <<trace, key_sets_k, asked>> /\ Direction' = Direction
      BY <2>1 DEF Divide, scheduleVars, Direction
    <3> QED
      BY <3>1, <3>2, TraceKept
  <2>3. Mirror'
    <3>1. /\ trace[17] = <<trace[17][1], trace[17][2]>>
          /\ trace[17][1] \in Bits(32) /\ trace[17][2] \in Bits(32)
      BY <2>1, TraceHalves DEF DesInv
    <3>2. Permute(IP, message_piece) = Join(trace[17][2], trace[17][1])
      BY <2>1, <3>1, JoinHalves, PermuteInverse DEF FirstAnswer
    <3>3. l' = trace[17][2] /\ r' = trace[17][1]
      BY <3>1, <3>2, JoinHalves DEF Divide
    <3>4. trace'[18 - k'] = trace[17]
      BY <1>2, <2>1
    <3> QED
      BY <3>1, <3>3, <3>4 DEF Mirror
  <2>4. FirstPass' /\ SecondPass'
    BY <1>2, <1>5, <2>1 DEF FirstPass, SecondPass
  <2> QED
    BY <1>1, <1>3, <2>2, <2>3, <2>4 DEF DesInv
<1> QED
  BY <1>4, <1>5

LEMMA RoundInv == DesInv /\ i = 17 /\ Round => DesInv'
<1> SUFFICES ASSUME DesInv, i = 17, Round
             PROVE  DesInv'
  OBVIOUS
<1> DEFINE M == Mangle(r, key_sets_k[ScheduleIndex(k, mode)])
<1>0. DesTypeOK /\ Control
  BY DEF DesInv
<1>1. DesTypeOK'
  BY <1>0, RoundType
<1>2. k \in 1 .. 16 /\ k' = k + 1
  BY <1>0, TypeFacts DEF Control, Round
<1>3. step' = "rounds" /\ i' = 17 /\ back' = back /\ mode' = mode /\ asked' = asked
      /\ key_sets_k' = key_sets_k
  BY DEF Round, scheduleVars
<1>4. l' = r /\ r' = XorBits(M, l)
  BY DEF Round, NewRight
<1>5. M \in Bits(32) /\ l \in Bits(32) /\ r \in Bits(32)
  BY <1>0, RoundHalves, TypeFacts
<1> HIDE DEF M
<1>6. Control' /\ Inverts'
  BY <1>2, <1>3 DEF Control, Inverts
<1>7. Direction' = Direction
  BY <1>3 DEF Direction
<1>8. CASE ~back
  <2>1. trace' = Append(trace, <<l', r'>>) /\ Len(trace) = k /\ trace[k] = <<l, r>>
    BY <1>8 DEF Round, DesInv, FirstPass
  <2>2. /\ Len(trace') = k + 1 /\ trace'[k + 1] = <<l', r'>>
        /\ \A m \in 1 .. k : trace'[m] = trace[m]
    <3>1. trace \in Seq(Halves) /\ k \in Nat
      BY <1>0, <1>2, TypeFacts
    <3> QED BY <3>1, <2>1, SMT
  <2>3. Chained'
    <3> SUFFICES ASSUME NEW m \in 1 .. k
                 PROVE  trace'[m + 1] = NextHalves(m)'
      BY <1>2, <2>2 DEF Chained
    <3>1. CASE m < k
      <4>1. trace[m + 1] = NextHalves(m)
        BY <1>2, <2>1, <3>1 DEF DesInv, Chained
      <4>2. trace'[m] = trace[m] /\ trace'[m + 1] = trace[m + 1]
        BY <1>2, <2>2, <3>1
      <4> QED
        BY <1>3, <1>7, <4>1, <4>2, SMTT(30) DEF NextHalves
    <3>2. CASE m = k
      <4>1. trace'[m] = <<l, r>> /\ trace'[m + 1] = <<r, XorBits(M, l)>>
        BY <1>2, <1>4, <2>1, <2>2, <3>2
      <4>2. Direction' = mode
        BY <1>3, <1>8 DEF Direction
      <4> QED
        BY <1>3, <3>2, <4>1, <4>2 DEF NextHalves, M
    <3> QED
      BY <1>2, <3>1, <3>2
  <2>4. Begun'
    <3>1. trace # <<>> /\ trace'[1] = trace[1]
      BY <1>2, <2>1, <2>2
    <3> QED
      BY <1>3, <3>1 DEF DesInv, Begun
  <2>5. FirstPass' /\ SecondPass' /\ Mirror'
    BY <1>2, <1>3, <1>8, <2>2 DEF FirstPass, SecondPass, Mirror
  <2> QED
    BY <1>1, <1>6, <2>3, <2>4, <2>5 DEF DesInv
<1>9. CASE back
  <2>1. trace' = trace /\ Len(trace) = 17 /\ trace[18 - k] = <<r, l>>
    BY <1>9 DEF Round, DesInv, SecondPass, Mirror
  <2>2. Chained' /\ Begun'
    <3>1. Chained /\ Begun
      BY DEF DesInv
    <3> QED
      BY <1>3, <1>7, <2>1, <3>1, TraceKept
  <2>3. Mirror'
    <3> DEFINE m == 17 - k
               x == trace[m]
    <3>1. m \in 1 .. 16 /\ m + 1 = 18 - k /\ 18 - k' = m
      BY <1>2
    <3> HIDE DEF m
    <3>2. trace[m + 1] = NextHalves(m)
      BY <2>1, <3>1 DEF DesInv, Chained
    <3>3. x = <<x[1], x[2]>> /\ x[1] \in Bits(32)
      BY <1>0, <2>1, <3>1, TraceHalves
    <3>4. ScheduleIndex(m, Direction) = ScheduleIndex(k, mode)
      <4>1. mode \in {0, 1} /\ Direction = 1 - mode
        BY <1>0, <1>9, TypeFacts DEF Direction
      <4> QED
        BY <1>2, <4>1, SMT DEF ScheduleIndex, m
    <3> HIDE DEF x
    <3>5. <<r, l>> = <<x[2], XorBits(Mangle(x[2], key_sets_k[ScheduleIndex(k, mode)]), x[1])>>
      BY <2>1, <3>1, <3>2, <3>4 DEF NextHalves, x
    <3>6. x[2] = r /\ l = XorBits(M, x[1])
      BY <3>5 DEF M
    <3>7. r' = x[1]
      BY <1>4, <1>5, <3>3, <3>6, XorBitsCancel
    <3>8. trace'[18 - k'] = <<r', l'>>
      BY <1>4, <2>1, <3>1, <3>3, <3>6, <3>7 DEF x
    <3> QED
      BY <3>8 DEF Mirror
  <2>4. FirstPass' /\ SecondPass'
    BY <1>3, <1>9, <2>1 DEF FirstPass, SecondPass
  <2> QED
    BY <1>1, <1>6, <2>2, <2>3, <2>4 DEF DesInv
<1> QED
  BY <1>8, <1>9

LEMMA FinishInv == DesInv /\ i = 17 /\ Finish => DesInv'
<1> SUFFICES ASSUME DesInv, i = 17, Finish
             PROVE  DesInv'
  OBVIOUS
<1>0. DesTypeOK
  BY DEF DesInv
<1>1. DesTypeOK'
  BY <1>0, FinishType
<1>2. k = 17 /\ step = "rounds" /\ step' = "write" /\ i' = 17
      /\ processed_piece' = Permute(FP, Join(r, l))
  BY DEF Finish, scheduleVars, PreEnd
<1>3. UNCHANGED <<trace, key_sets_k, asked, mode, back>>
  BY DEF Finish, scheduleVars
<1>4. Chained' /\ Begun'
  <2>1. Chained /\ Begun /\ Direction' = Direction
    BY <1>3 DEF DesInv, Direction
  <2> QED
    BY <1>3, <2>1, TraceKept
<1>5. Control' /\ Mirror'
  BY <1>2 DEF Control, Mirror
<1>6. FirstPass'
  <2> SUFFICES ASSUME ~back
               PROVE  Len(trace) = 17 /\ processed_piece' = FirstAnswer
    BY <1>2, <1>3 DEF FirstPass, FirstAnswer
  <2>1. Len(trace) = 17 /\ trace[17] = <<l, r>>
    BY <1>2 DEF DesInv, FirstPass
  <2> QED
    BY <1>2, <2>1 DEF FirstAnswer
<1>7. SecondPass' /\ Inverts'
  <2> SUFFICES ASSUME back
               PROVE  Len(trace) = 17 /\ processed_piece' = asked
    BY <1>2, <1>3 DEF SecondPass, Inverts
  <2>1. Len(trace) = 17 /\ trace[1] = <<r, l>>
    BY <1>2 DEF DesInv, SecondPass, Mirror
  <2>2. trace[1] = <<Left(Permute(IP, asked)), Right(Permute(IP, asked))>>
    BY <2>1 DEF DesInv, Begun
  <2>3. r = Left(Permute(IP, asked)) /\ l = Right(Permute(IP, asked))
    BY <2>1, <2>2
  <2>4. asked \in Bits(64) /\ Permute(IP, asked) \in Bits(64)
    BY <1>0, TypeFacts, TableTypes, PermuteType
  <2> QED
    BY <1>2, <2>1, <2>3, <2>4, HalvesJoined, PermuteInverse
<1> QED
  BY <1>1, <1>4, <1>5, <1>6, <1>7 DEF DesInv

LEMMA AnsweredInv == DesInv /\ i = 17 /\ Answered => DesInv'
<1> SUFFICES ASSUME DesInv, i = 17, Answered
             PROVE  DesInv'
  OBVIOUS
<1>1. DesTypeOK'
  BY AnsweredType DEF DesInv
<1>2. step' = "read" /\ ~back' /\ trace' = <<>>
  BY DEF Answered
<1> QED
  BY <1>1, <1>2 DEF DesInv, Control, Chained, Begun, FirstPass, SecondPass, Mirror, Inverts

LEMMA SendBackInv == DesInv /\ i = 17 /\ SendBack => DesInv'
<1> SUFFICES ASSUME DesInv, i = 17, SendBack
             PROVE  DesInv'
  OBVIOUS
<1>1. DesTypeOK'
  BY SendBackType DEF DesInv
<1>2. step = "write" /\ step' = "permute" /\ ~back /\ back' /\ i' = 17
      /\ message_piece' = processed_piece /\ mode' = 1 - mode
  BY DEF SendBack, scheduleVars
<1>3. UNCHANGED <<trace, key_sets_k, asked>>
  BY DEF SendBack, scheduleVars
<1>4. Chained' /\ Begun'
  <2>1. mode \in {0, 1}
    BY TypeFacts DEF DesInv
  <2>2. Direction' = 1 - (1 - mode) /\ Direction = mode
    BY <1>2 DEF Direction
  <2>3. Direction' = Direction
    BY <2>1, <2>2, SMT
  <2> QED
    BY <1>3, <2>3, TraceKept DEF DesInv
<1>5. Len(trace) = 17 /\ processed_piece = FirstAnswer
  BY <1>2 DEF DesInv, FirstPass
<1>6. SecondPass'
  BY <1>2, <1>3, <1>5 DEF SecondPass, FirstAnswer
<1> QED
  BY <1>1, <1>2, <1>4, <1>6 DEF DesInv, Control, FirstPass, Mirror, Inverts

-----------------------------------------------------------------------------
(* The theorems *)

LEMMA StepInv == DesInv /\ [DesNext]_desVars => DesInv'
<1> SUFFICES ASSUME DesInv, [DesNext]_desVars
             PROVE  DesInv'
  OBVIOUS
<1>1. CASE generate_sub_keys
  BY <1>1, ScheduleInv
<1>2. CASE i = 17 /\ \E t \in Bits(64), m \in Bit : ReadBlock(t, m)
  BY <1>2, ReadBlockInv
<1>3. CASE i = 17 /\ Answer
  BY <1>3, DivideInv, RoundInv, FinishInv, AnsweredInv, SendBackInv DEF Answer
<1>4. CASE UNCHANGED desVars
  <2>1. UNCHANGED <<key, i, cd, key_sets_k, mode, step, message_piece, k, l, r,
                    processed_piece, back, asked, trace>>
    BY <1>4 DEF desVars, scheduleVars, blockVars
  <2> QED
    BY <2>1 DEF DesInv, DesTypeOK, Control, Chained, NextHalves, Direction, Begun,
                FirstPass, FirstAnswer, SecondPass, Mirror, Inverts
<1> QED
  BY <1>1, <1>2, <1>3, <1>4 DEF DesNext

LEMMA Invariance == DesSpec => []DesInv
<1>1. (\E k0 \in Bits(64) : DesInit(k0)) => DesInv
  BY InitInv
<1> QED
  BY <1>1, StepInv, PTL DEF DesSpec

\* The variables of the core and of the schedule keep their types: blocks of 64
\* bits, halves of 32, 17 sub-keys of 48, and no more than 16 rounds
\* (des.cpp:250-494, main.cc:175-271).
THEOREM DesTypeCorrect == DesSpec => []DesTypeOK
<1>1. DesInv => DesTypeOK
  BY DEF DesInv
<1> QED
  BY <1>1, Invariance, PTL

\* The second pass runs through the halves of the first backwards, whatever the
\* tables, the key, the block and the direction are.
THEOREM RoundsMirrored == DesSpec => []Mirror
<1>1. DesInv => Mirror
  BY DEF DesInv
<1> QED
  BY <1>1, Invariance, PTL

\* des undoes in one direction what it did in the other, for every key and every
\* block.
THEOREM DesInverts == DesSpec => []Inverts
<1>1. DesInv => Inverts
  BY DEF DesInv
<1> QED
  BY <1>1, Invariance, PTL

\* Both together.
THEOREM DesReverses == DesSpec => []Reversible
<1>1. Mirror /\ Inverts => Reversible
  BY DEF Reversible
<1> QED
  BY <1>1, RoundsMirrored, DesInverts, PTL

-----------------------------------------------------------------------------
(* Bytes and their bits *)

\* The numbers of the bits of a byte.
Eight == 0 .. 7

LEMMA EightNumbers ==
    ASSUME NEW n \in Eight
    PROVE  n = 0 \/ n = 1 \/ n = 2 \/ n = 3 \/ n = 4 \/ n = 5 \/ n = 6 \/ n = 7
BY DEF Eight

LEMMA BitDivides ==
    ASSUME NEW a \in Int
    PROVE  /\ BitOf(a, 0) = a % 2
           /\ BitOf(a, 1) = (a \div 2) % 2
           /\ BitOf(a, 2) = (a \div 4) % 2
           /\ BitOf(a, 3) = (a \div 8) % 2
           /\ BitOf(a, 4) = (a \div 16) % 2
           /\ BitOf(a, 5) = (a \div 32) % 2
           /\ BitOf(a, 6) = (a \div 64) % 2
           /\ BitOf(a, 7) = (a \div 128) % 2
<1>1. /\ Weight[0 + 1] = 1 /\ Weight[1 + 1] = 2 /\ Weight[2 + 1] = 4 /\ Weight[3 + 1] = 8
      /\ Weight[4 + 1] = 16 /\ Weight[5 + 1] = 32 /\ Weight[6 + 1] = 64 /\ Weight[7 + 1] = 128
  BY SMT DEF Weight
<1>2. a \div 1 = a
  BY SMT
<1> QED
  BY <1>1, <1>2 DEF BitOf

LEMMA BitOfType ==
    ASSUME NEW a \in Byte, NEW n \in Eight
    PROVE  BitOf(a, n) \in {0, 1}
<1>1. Weight[n + 1] \in Nat \ {0}
  BY SMT DEF Weight, Eight
<1>2. a \div Weight[n + 1] \in Int
  BY <1>1, SMT DEF Byte
<1> QED
  BY <1>2, SMT DEF BitOf

\* Eight bits make a byte with these bits.
LEMMA ByteOfType ==
    ASSUME NEW t, \A n \in Eight : t[n] \in {0, 1}
    PROVE  /\ ByteOf(t) \in Byte
           /\ \A n \in Eight : BitOf(ByteOf(t), n) = t[n]
<1>1. /\ t[0] \in {0, 1} /\ t[1] \in {0, 1} /\ t[2] \in {0, 1} /\ t[3] \in {0, 1}
      /\ t[4] \in {0, 1} /\ t[5] \in {0, 1} /\ t[6] \in {0, 1} /\ t[7] \in {0, 1}
  BY SMT DEF Eight
<1> DEFINE a == ByteOf(t)
           t0 == t[0]
           t1 == t[1]
           t2 == t[2]
           t3 == t[3]
           t4 == t[4]
           t5 == t[5]
           t6 == t[6]
           t7 == t[7]
<1>2. a = t0 + 2 * t1 + 4 * t2 + 8 * t3 + 16 * t4 + 32 * t5 + 64 * t6 + 128 * t7
  BY DEF ByteOf
<1>3. /\ t0 \in {0, 1} /\ t1 \in {0, 1} /\ t2 \in {0, 1} /\ t3 \in {0, 1}
      /\ t4 \in {0, 1} /\ t5 \in {0, 1} /\ t6 \in {0, 1} /\ t7 \in {0, 1}
  BY <1>1
<1>4. /\ \A n \in Eight : t[n] = <<t0, t1, t2, t3, t4, t5, t6, t7>>[n + 1]
  BY EightNumbers, SMT
<1> HIDE DEF a, t0, t1, t2, t3, t4, t5, t6, t7
<1>5. /\ a \in 0 .. 255 /\ a \in Int
      /\ a % 2 = t0 /\ (a \div 2) % 2 = t1 /\ (a \div 4) % 2 = t2
      /\ (a \div 8) % 2 = t3 /\ (a \div 16) % 2 = t4 /\ (a \div 32) % 2 = t5
      /\ (a \div 64) % 2 = t6 /\ (a \div 128) % 2 = t7
  BY <1>2, <1>3, SMTT(60)
<1>6. /\ BitOf(a, 0) = t0 /\ BitOf(a, 1) = t1 /\ BitOf(a, 2) = t2 /\ BitOf(a, 3) = t3
      /\ BitOf(a, 4) = t4 /\ BitOf(a, 5) = t5 /\ BitOf(a, 6) = t6 /\ BitOf(a, 7) = t7
  <2>1. /\ BitOf(a, 0) = a % 2 /\ BitOf(a, 1) = (a \div 2) % 2
        /\ BitOf(a, 2) = (a \div 4) % 2 /\ BitOf(a, 3) = (a \div 8) % 2
        /\ BitOf(a, 4) = (a \div 16) % 2 /\ BitOf(a, 5) = (a \div 32) % 2
        /\ BitOf(a, 6) = (a \div 64) % 2 /\ BitOf(a, 7) = (a \div 128) % 2
    BY <1>5, BitDivides, ZenonT(30)
  <2> QED BY <1>5, <2>1, ZenonT(30)
<1>7. \A n \in Eight : BitOf(a, n) = <<t0, t1, t2, t3, t4, t5, t6, t7>>[n + 1]
  BY <1>6, EightNumbers, SMT
<1> QED
  BY <1>4, <1>5, <1>7 DEF Byte, a

\* A byte is the byte of its bits.
LEMMA ByteOfBits ==
    ASSUME NEW a \in Byte
    PROVE  a = ByteOf([n \in Eight |-> BitOf(a, n)])
<1> DEFINE t == [n \in Eight |-> BitOf(a, n)]
<1>1. /\ t[0] = BitOf(a, 0) /\ t[1] = BitOf(a, 1) /\ t[2] = BitOf(a, 2) /\ t[3] = BitOf(a, 3)
      /\ t[4] = BitOf(a, 4) /\ t[5] = BitOf(a, 5) /\ t[6] = BitOf(a, 6) /\ t[7] = BitOf(a, 7)
  BY SMT DEF Eight
<1> HIDE DEF t
<1>2. a = (a % 2) + 2 * ((a \div 2) % 2) + 4 * ((a \div 4) % 2) + 8 * ((a \div 8) % 2)
            + 16 * ((a \div 16) % 2) + 32 * ((a \div 32) % 2) + 64 * ((a \div 64) % 2)
            + 128 * ((a \div 128) % 2)
  BY SMTT(60) DEF Byte
<1>3. a \in Int
  BY DEF Byte
<1>4. /\ t[0] = a % 2 /\ t[1] = (a \div 2) % 2 /\ t[2] = (a \div 4) % 2
      /\ t[3] = (a \div 8) % 2 /\ t[4] = (a \div 16) % 2 /\ t[5] = (a \div 32) % 2
      /\ t[6] = (a \div 64) % 2 /\ t[7] = (a \div 128) % 2
  BY <1>1, <1>3, BitDivides, ZenonT(40)
<1>5. a = ByteOf(t)
  BY <1>2, <1>4, Zenon DEF ByteOf
<1> QED
  BY <1>5 DEF t

LEMMA SameBits ==
    ASSUME NEW a \in Byte, NEW b \in Byte, \A n \in Eight : BitOf(a, n) = BitOf(b, n)
    PROVE  a = b
<1>1. [n \in Eight |-> BitOf(a, n)] = [n \in Eight |-> BitOf(b, n)]
  OBVIOUS
<1> QED
  BY <1>1, ByteOfBits

LEMMA XorBit ==
    ASSUME NEW a \in Byte, NEW b \in Byte
    PROVE  /\ ByteXor(a, b) \in Byte
           /\ \A n \in Eight : BitOf(ByteXor(a, b), n) = (BitOf(a, n) + BitOf(b, n)) % 2
<1> DEFINE t == [n \in Eight |-> (BitOf(a, n) + BitOf(b, n)) % 2]
<1>1. ASSUME NEW p \in {0, 1}, NEW q \in {0, 1} PROVE (p + q) % 2 \in {0, 1}
  BY SMT
<1>2. \A n \in Eight : t[n] = (BitOf(a, n) + BitOf(b, n)) % 2 /\ t[n] \in {0, 1}
  BY <1>1, BitOfType
<1>3. ByteXor(a, b) = ByteOf(t)
  BY DEF ByteXor, XorTable, Eight
<1> HIDE DEF t
<1> QED
  BY <1>2, <1>3, ByteOfType

-----------------------------------------------------------------------------
(* Exclusive or *)

LEMMA XorType ==
    ASSUME NEW a \in Byte, NEW b \in Byte
    PROVE  ByteXor(a, b) \in Byte
BY XorBit

\* A byte is added to itself: nothing remains.
LEMMA XorCancels ==
    ASSUME NEW a \in Byte, NEW b \in Byte
    PROVE  ByteXor(ByteXor(a, b), b) = a
<1>1. ByteXor(a, b) \in Byte /\ ByteXor(ByteXor(a, b), b) \in Byte
  BY XorType
<1>2. ASSUME NEW n \in Eight
      PROVE  BitOf(ByteXor(ByteXor(a, b), b), n) = BitOf(a, n)
  <2>1. ASSUME NEW p \in {0, 1}, NEW q \in {0, 1} PROVE (((p + q) % 2) + q) % 2 = p
    BY SMT
  <2>2. BitOf(a, n) \in {0, 1} /\ BitOf(b, n) \in {0, 1}
    BY BitOfType
  <2>3. BitOf(ByteXor(ByteXor(a, b), b), n) = (((BitOf(a, n) + BitOf(b, n)) % 2) + BitOf(b, n)) % 2
    BY <1>1, XorBit
  <2> QED BY <2>1, <2>2, <2>3
<1> QED
  BY <1>1, <1>2, SameBits

LEMMA ZeroBits ==
    /\ 0 \in Byte
    /\ \A n \in Eight : BitOf(0, n) = 0
<1>1. 0 \in Byte
  BY SMT DEF Byte
<1>2. /\ 0 % 2 = 0 /\ 0 \div 2 = 0 /\ 0 \div 4 = 0 /\ 0 \div 8 = 0 /\ 0 \div 16 = 0
      /\ 0 \div 32 = 0 /\ 0 \div 64 = 0 /\ 0 \div 128 = 0 /\ 0 \in Int
  BY SMT
<1>3. ASSUME NEW n \in Eight PROVE BitOf(0, n) = 0
  BY <1>2, BitDivides, EightNumbers
<1> QED
  BY <1>1, <1>3

LEMMA XorZero ==
    ASSUME NEW a \in Byte
    PROVE  ByteXor(a, 0) = a /\ ByteXor(0, a) = a
<1>1. 0 \in Byte /\ ByteXor(a, 0) \in Byte /\ ByteXor(0, a) \in Byte
  BY XorType, ZeroBits
<1>2. ASSUME NEW n \in Eight
      PROVE  BitOf(ByteXor(a, 0), n) = BitOf(a, n) /\ BitOf(ByteXor(0, a), n) = BitOf(a, n)
  <2>1. ASSUME NEW p \in {0, 1} PROVE (p + 0) % 2 = p /\ (0 + p) % 2 = p
    BY SMT
  <2> QED BY <1>1, <2>1, XorBit, ZeroBits, BitOfType
<1> QED
  BY <1>1, <1>2, SameBits

LEMMA Xor4Bit ==
    ASSUME NEW a \in Byte, NEW b \in Byte, NEW c \in Byte, NEW d \in Byte
    PROVE  /\ Xor4(a, b, c, d) \in Byte
           /\ \A n \in Eight : BitOf(Xor4(a, b, c, d), n)
                                  = (BitOf(a, n) + BitOf(b, n) + BitOf(c, n) + BitOf(d, n)) % 2
<1>1. ByteXor(a, b) \in Byte /\ ByteXor(c, d) \in Byte
  BY XorType
<1>2. ASSUME NEW n \in Eight
      PROVE  BitOf(Xor4(a, b, c, d), n)
                = (BitOf(a, n) + BitOf(b, n) + BitOf(c, n) + BitOf(d, n)) % 2
  <2>1. ASSUME NEW p \in {0, 1}, NEW q \in {0, 1}, NEW s \in {0, 1}, NEW t \in {0, 1}
        PROVE  (((p + q) % 2) + ((s + t) % 2)) % 2 = (p + q + s + t) % 2
    BY SMT
  <2>2. BitOf(Xor4(a, b, c, d), n)
           = (((BitOf(a, n) + BitOf(b, n)) % 2) + ((BitOf(c, n) + BitOf(d, n)) % 2)) % 2
    <3>1. BitOf(ByteXor(a, b), n) = (BitOf(a, n) + BitOf(b, n)) % 2
      BY XorBit
    <3>2. BitOf(ByteXor(c, d), n) = (BitOf(c, n) + BitOf(d, n)) % 2
      BY XorBit
    <3>3. BitOf(Xor4(a, b, c, d), n)
             = (BitOf(ByteXor(a, b), n) + BitOf(ByteXor(c, d), n)) % 2
      BY <1>1, XorBit DEF Xor4
    <3> QED BY <3>1, <3>2, <3>3, Zenon
  <2> QED BY <2>1, <2>2, BitOfType
<1> QED
  BY <1>1, <1>2, XorType DEF Xor4

\* The order of four summands does not matter, as far as they are turned round.
LEMMA Xor4Turns ==
    ASSUME NEW a \in Byte, NEW b \in Byte, NEW c \in Byte, NEW d \in Byte
    PROVE  Xor4(a, b, c, d) = Xor4(b, c, d, a)
<1>1. ASSUME NEW n \in Eight
      PROVE  BitOf(Xor4(a, b, c, d), n) = BitOf(Xor4(b, c, d, a), n)
  <2>1. ASSUME NEW p \in {0, 1}, NEW q \in {0, 1}, NEW s \in {0, 1}, NEW t \in {0, 1}
        PROVE  (p + q + s + t) % 2 = (q + s + t + p) % 2
    BY SMT
  <2>2. /\ BitOf(Xor4(a, b, c, d), n)
             = (BitOf(a, n) + BitOf(b, n) + BitOf(c, n) + BitOf(d, n)) % 2
        /\ BitOf(Xor4(b, c, d, a), n)
             = (BitOf(b, n) + BitOf(c, n) + BitOf(d, n) + BitOf(a, n)) % 2
    BY Xor4Bit
  <2> QED BY <2>1, <2>2, BitOfType
<1> QED
  BY <1>1, Xor4Bit, SameBits

-----------------------------------------------------------------------------
(* xtime and Multiplication *)

\* xtime moves every bit up and adds the highest to bits 0, 1, 3 and 4.
LEMMA xtimeBits ==
    ASSUME NEW a \in Byte
    PROVE  /\ xtime(a) \in Byte
           /\ BitOf(xtime(a), 0) = BitOf(a, 7)
           /\ BitOf(xtime(a), 1) = (BitOf(a, 0) + BitOf(a, 7)) % 2
           /\ BitOf(xtime(a), 2) = BitOf(a, 1)
           /\ BitOf(xtime(a), 3) = (BitOf(a, 2) + BitOf(a, 7)) % 2
           /\ BitOf(xtime(a), 4) = (BitOf(a, 3) + BitOf(a, 7)) % 2
           /\ BitOf(xtime(a), 5) = BitOf(a, 4)
           /\ BitOf(xtime(a), 6) = BitOf(a, 5)
           /\ BitOf(xtime(a), 7) = BitOf(a, 6)
<1> DEFINE u == (2 * a) % 256
           v == IF a >= 128 THEN 27 ELSE 0
<1>1. a \in Int /\ a \in 0 .. 255
  BY DEF Byte
<1>2. u \in 0 .. 255 /\ u \in Int /\ v \in 0 .. 255 /\ v \in Int
  BY <1>1, SMT
<1>3. /\ u % 2 = 0 /\ (u \div 2) % 2 = a % 2 /\ (u \div 4) % 2 = (a \div 2) % 2
      /\ (u \div 8) % 2 = (a \div 4) % 2 /\ (u \div 16) % 2 = (a \div 8) % 2
      /\ (u \div 32) % 2 = (a \div 16) % 2 /\ (u \div 64) % 2 = (a \div 32) % 2
      /\ (u \div 128) % 2 = (a \div 64) % 2
  BY <1>1, SMT
<1>4. /\ v % 2 = (a \div 128) % 2 /\ (v \div 2) % 2 = (a \div 128) % 2 /\ (v \div 4) % 2 = 0
      /\ (v \div 8) % 2 = (a \div 128) % 2 /\ (v \div 16) % 2 = (a \div 128) % 2
      /\ (v \div 32) % 2 = 0 /\ (v \div 64) % 2 = 0 /\ (v \div 128) % 2 = 0
  BY <1>1, SMT
<1>5. xtime(a) = ByteXor(u, v)
  BY DEF xtime
<1> HIDE DEF u, v
<1>D. /\ BitOf(u, 0) = u % 2 /\ BitOf(u, 1) = (u \div 2) % 2
      /\ BitOf(u, 2) = (u \div 4) % 2 /\ BitOf(u, 3) = (u \div 8) % 2
      /\ BitOf(u, 4) = (u \div 16) % 2 /\ BitOf(u, 5) = (u \div 32) % 2
      /\ BitOf(u, 6) = (u \div 64) % 2 /\ BitOf(u, 7) = (u \div 128) % 2
  BY <1>2, BitDivides, ZenonT(30)
<1>V. /\ BitOf(v, 0) = v % 2 /\ BitOf(v, 1) = (v \div 2) % 2
      /\ BitOf(v, 2) = (v \div 4) % 2 /\ BitOf(v, 3) = (v \div 8) % 2
      /\ BitOf(v, 4) = (v \div 16) % 2 /\ BitOf(v, 5) = (v \div 32) % 2
      /\ BitOf(v, 6) = (v \div 64) % 2 /\ BitOf(v, 7) = (v \div 128) % 2
  BY <1>2, BitDivides, ZenonT(30)
<1>A. /\ BitOf(a, 0) = a % 2 /\ BitOf(a, 1) = (a \div 2) % 2
      /\ BitOf(a, 2) = (a \div 4) % 2 /\ BitOf(a, 3) = (a \div 8) % 2
      /\ BitOf(a, 4) = (a \div 16) % 2 /\ BitOf(a, 5) = (a \div 32) % 2
      /\ BitOf(a, 6) = (a \div 64) % 2 /\ BitOf(a, 7) = (a \div 128) % 2
  BY <1>1, BitDivides, ZenonT(30)
<1>6. /\ BitOf(u, 0) = 0 /\ BitOf(u, 1) = BitOf(a, 0) /\ BitOf(u, 2) = BitOf(a, 1)
      /\ BitOf(u, 3) = BitOf(a, 2) /\ BitOf(u, 4) = BitOf(a, 3) /\ BitOf(u, 5) = BitOf(a, 4)
      /\ BitOf(u, 6) = BitOf(a, 5) /\ BitOf(u, 7) = BitOf(a, 6)
  BY <1>3, <1>D, <1>A
<1>7. /\ BitOf(v, 0) = BitOf(a, 7) /\ BitOf(v, 1) = BitOf(a, 7) /\ BitOf(v, 2) = 0
      /\ BitOf(v, 3) = BitOf(a, 7) /\ BitOf(v, 4) = BitOf(a, 7) /\ BitOf(v, 5) = 0
      /\ BitOf(v, 6) = 0 /\ BitOf(v, 7) = 0
  BY <1>4, <1>V, <1>A, Zenon
<1>8. u \in Byte /\ v \in Byte
  BY <1>2 DEF Byte
<1>9. ByteXor(u, v) \in Byte
      /\ \A n \in Eight : BitOf(ByteXor(u, v), n) = (BitOf(u, n) + BitOf(v, n)) % 2
  BY <1>8, XorBit
<1>10. /\ 0 \in Eight /\ 1 \in Eight /\ 2 \in Eight /\ 3 \in Eight
       /\ 4 \in Eight /\ 5 \in Eight /\ 6 \in Eight /\ 7 \in Eight
  BY SMT DEF Eight
<1>11. ASSUME NEW p \in {0, 1} PROVE (p + 0) % 2 = p /\ (0 + p) % 2 = p
  BY SMT
<1>12. \A n \in Eight : BitOf(a, n) \in {0, 1}
  BY BitOfType
<1> QED
  BY <1>5, <1>6, <1>7, <1>9, <1>10, <1>11, <1>12

LEMMA xtimeXor ==
    ASSUME NEW a \in Byte, NEW b \in Byte
    PROVE  xtime(ByteXor(a, b)) = ByteXor(xtime(a), xtime(b))
<1>1. /\ ByteXor(a, b) \in Byte /\ xtime(a) \in Byte /\ xtime(b) \in Byte
      /\ xtime(ByteXor(a, b)) \in Byte /\ ByteXor(xtime(a), xtime(b)) \in Byte
  BY XorType, xtimeBits
<1>2. ASSUME NEW p \in {0, 1}, NEW q \in {0, 1}, NEW s \in {0, 1}, NEW t \in {0, 1}
      PROVE  (((p + q) % 2) + ((s + t) % 2)) % 2 = (((p + s) % 2) + ((q + t) % 2)) % 2
  BY SMT
<1>3. /\ 0 \in Eight /\ 1 \in Eight /\ 2 \in Eight /\ 3 \in Eight
      /\ 4 \in Eight /\ 5 \in Eight /\ 6 \in Eight /\ 7 \in Eight
  BY SMT DEF Eight
<1>4. \A n \in Eight : BitOf(a, n) \in {0, 1} /\ BitOf(b, n) \in {0, 1}
  BY BitOfType
<1> DEFINE Sum(n) == BitOf(ByteXor(a, b), n) = (BitOf(a, n) + BitOf(b, n)) % 2
           Goal(n) == BitOf(xtime(ByteXor(a, b)), n) = BitOf(ByteXor(xtime(a), xtime(b)), n)
<1>5. \A n \in Eight : Sum(n)
  BY XorBit
<1>6. \A n \in Eight :
         BitOf(ByteXor(xtime(a), xtime(b)), n) = (BitOf(xtime(a), n) + BitOf(xtime(b), n)) % 2
  BY <1>1, XorBit
<1>7. Goal(0) /\ Goal(2) /\ Goal(5) /\ Goal(6) /\ Goal(7)
  BY <1>1, <1>3, <1>5, <1>6, xtimeBits
<1>8. Goal(1) /\ Goal(3) /\ Goal(4)
  BY <1>1, <1>2, <1>3, <1>4, <1>5, <1>6, xtimeBits
<1> HIDE DEF Goal
<1>9. \A n \in Eight : Goal(n)
  BY <1>7, <1>8, EightNumbers
<1> QED
  BY <1>1, <1>9, SameBits DEF Goal

-----------------------------------------------------------------------------
(* Repeated xtime, and products *)

\* p is what the recursion of Powers defines for b.
IsPowers(p, b) == p = [n \in 0 .. 11 |-> IF n = 0 THEN b ELSE xtime(p[n - 1])]

LEMMA SomePowers ==
    ASSUME NEW b
    PROVE  \E p : IsPowers(p, b)
<1> DEFINE x1  == xtime(b)
           x2  == xtime(x1)
           x3  == xtime(x2)
           x4  == xtime(x3)
           x5  == xtime(x4)
           x6  == xtime(x5)
           x7  == xtime(x6)
           x8  == xtime(x7)
           x9  == xtime(x8)
           x10 == xtime(x9)
           x11 == xtime(x10)
           g   == [n \in 0 .. 11 |->
                     <<b, x1, x2, x3, x4, x5, x6, x7, x8, x9, x10, x11>>[n + 1]]
<1>1. /\ g[0] = b /\ g[1] = x1 /\ g[2] = x2 /\ g[3] = x3 /\ g[4] = x4 /\ g[5] = x5
      /\ g[6] = x6 /\ g[7] = x7 /\ g[8] = x8 /\ g[9] = x9 /\ g[10] = x10
      /\ g[11] = x11
  <2> HIDE DEF x1, x2, x3, x4, x5, x6, x7, x8, x9, x10, x11
  <2> QED BY SMT
<1>2. DOMAIN g = 0 .. 11 /\ g = [n \in 0 .. 11 |-> g[n]]
  BY Zenon
<1>3. /\ x1 = xtime(b) /\ x2 = xtime(x1) /\ x3 = xtime(x2) /\ x4 = xtime(x3)
      /\ x5 = xtime(x4) /\ x6 = xtime(x5) /\ x7 = xtime(x6) /\ x8 = xtime(x7)
      /\ x9 = xtime(x8) /\ x10 = xtime(x9) /\ x11 = xtime(x10)
  BY Zenon
<1> HIDE DEF x1, x2, x3, x4, x5, x6, x7, x8, x9, x10, x11, g
<1>4. ASSUME NEW n \in 0 .. 11
      PROVE  g[n] = IF n = 0 THEN b ELSE xtime(g[n - 1])
  <2>1. \/ n = 0 \/ n = 1 \/ n = 2 \/ n = 3 \/ n = 4 \/ n = 5 \/ n = 6 \/ n = 7 \/ n = 8
        \/ n = 9 \/ n = 10 \/ n = 11
    BY SMT
  <2>2. /\ 1 - 1 = 0 /\ 2 - 1 = 1 /\ 3 - 1 = 2 /\ 4 - 1 = 3 /\ 5 - 1 = 4 /\ 6 - 1 = 5
        /\ 7 - 1 = 6 /\ 8 - 1 = 7 /\ 9 - 1 = 8 /\ 10 - 1 = 9 /\ 11 - 1 = 10
    BY SMT
  <2> QED BY <1>1, <1>3, <2>1, <2>2
<1>5. IsPowers(g, b)
  BY <1>2, <1>4 DEF IsPowers
<1> QED
  BY <1>5

LEMMA PowersAre ==
    ASSUME NEW b \in Byte
    PROVE  /\ Powers(b)[0] = b
           /\ \A n \in 0 .. 9 : Powers(b)[n + 1] = xtime(Powers(b)[n])
           /\ \A n \in 0 .. 10 : Powers(b)[n] \in Byte
<1>1. Powers(b) = CHOOSE p : IsPowers(p, b)
  <2>1. Nr + 1 = 11
    BY SMT DEF Nr
  <2> QED BY <2>1, Zenon DEF Powers, IsPowers
<1>2. IsPowers(Powers(b), b)
  BY <1>1, SomePowers, Zenon
<1> DEFINE p == Powers(b)
<1> HIDE DEF p
<1>3. p = [n \in 0 .. 11 |-> IF n = 0 THEN b ELSE xtime(p[n - 1])]
  BY <1>2, Zenon DEF IsPowers, p
<1>4. \A n \in 0 .. 11 : p[n] = IF n = 0 THEN b ELSE xtime(p[n - 1])
  BY <1>3, Zenon
<1>5. p[0] = b
  BY <1>4, SMT
<1>6. ASSUME NEW n \in 0 .. 9
      PROVE  p[n + 1] = xtime(p[n])
  <2>1. n + 1 \in 0 .. 11 /\ n + 1 # 0 /\ (n + 1) - 1 = n
    BY SMT
  <2> QED BY <1>4, <2>1
<1>7. /\ p[1] = xtime(p[0]) /\ p[2] = xtime(p[1]) /\ p[3] = xtime(p[2]) /\ p[4] = xtime(p[3])
      /\ p[5] = xtime(p[4]) /\ p[6] = xtime(p[5]) /\ p[7] = xtime(p[6]) /\ p[8] = xtime(p[7])
      /\ p[9] = xtime(p[8]) /\ p[10] = xtime(p[9])
  <2>1. \A n \in 1 .. 10 : p[n] = xtime(p[n - 1])
    BY <1>4, SMT
  <2> QED BY <2>1, SMT
<1>8. ASSUME NEW v \in Byte PROVE xtime(v) \in Byte
  BY xtimeBits
<1>9. /\ p[0] \in Byte /\ p[1] \in Byte /\ p[2] \in Byte /\ p[3] \in Byte /\ p[4] \in Byte
      /\ p[5] \in Byte /\ p[6] \in Byte /\ p[7] \in Byte /\ p[8] \in Byte /\ p[9] \in Byte
      /\ p[10] \in Byte
  <2>1. p[0] \in Byte /\ p[1] \in Byte /\ p[2] \in Byte
    BY <1>5, <1>7, <1>8
  <2>2. p[3] \in Byte /\ p[4] \in Byte /\ p[5] \in Byte
    BY <1>7, <1>8, <2>1
  <2>3. p[6] \in Byte /\ p[7] \in Byte /\ p[8] \in Byte
    BY <1>7, <1>8, <2>2
  <2>4. p[9] \in Byte /\ p[10] \in Byte
    BY <1>7, <1>8, <2>3
  <2> QED BY <2>1, <2>2, <2>3, <2>4
<1>10. \A n \in 0 .. 10 : \/ n = 0 \/ n = 1 \/ n = 2 \/ n = 3 \/ n = 4 \/ n = 5 \/ n = 6
                          \/ n = 7 \/ n = 8 \/ n = 9 \/ n = 10
  BY SMT
<1>11. \A n \in 0 .. 10 : p[n] \in Byte
  BY <1>9, <1>10, Zenon
<1> QED
  BY <1>5, <1>6, <1>11 DEF p

\* The products that MixColumns and its inverse form, as sums of powers.
LEMMA Products ==
    ASSUME NEW b \in Byte
    PROVE  LET p == Powers(b)
           IN  /\ Multiplication(1, b) = p[0]
               /\ Multiplication(2, b) = p[1]
               /\ Multiplication(3, b) = Xor4(p[0], p[1], 0, 0)
               /\ Multiplication(9, b) = Xor4(p[0], 0, 0, p[3])
               /\ Multiplication(11, b) = Xor4(p[0], p[1], 0, p[3])
               /\ Multiplication(13, b) = Xor4(p[0], 0, p[2], p[3])
               /\ Multiplication(14, b) = Xor4(0, p[1], p[2], p[3])
<1> DEFINE p == Powers(b)
           Term(a, n) == IF BitOf(a, n) = 1 THEN p[n] ELSE 0
<1>1. \A a : Multiplication(a, b) = ByteXor(Xor4(Term(a, 0), Term(a, 1), Term(a, 2), Term(a, 3)),
                                            Xor4(Term(a, 4), Term(a, 5), Term(a, 6), Term(a, 7)))
  BY Zenon DEF Multiplication
<1>2. p[0] \in Byte /\ p[1] \in Byte /\ p[2] \in Byte /\ p[3] \in Byte
  BY PowersAre, SMT
<1>3. ASSUME NEW a \in 1 .. 15
      PROVE  /\ BitOf(a, 0) = a % 2 /\ BitOf(a, 1) = (a \div 2) % 2
             /\ BitOf(a, 2) = (a \div 4) % 2 /\ BitOf(a, 3) = (a \div 8) % 2
             /\ BitOf(a, 4) = 0 /\ BitOf(a, 5) = 0 /\ BitOf(a, 6) = 0 /\ BitOf(a, 7) = 0
  <2>1. /\ (a \div 16) % 2 = 0 /\ (a \div 32) % 2 = 0 /\ (a \div 64) % 2 = 0
        /\ (a \div 128) % 2 = 0 /\ a \in Int
    BY SMT
  <2> QED BY <2>1, BitDivides, Zenon
<1>4. /\ BitOf(1, 0) = 1 /\ BitOf(1, 1) = 0 /\ BitOf(1, 2) = 0 /\ BitOf(1, 3) = 0
      /\ BitOf(2, 0) = 0 /\ BitOf(2, 1) = 1 /\ BitOf(2, 2) = 0 /\ BitOf(2, 3) = 0
      /\ BitOf(3, 0) = 1 /\ BitOf(3, 1) = 1 /\ BitOf(3, 2) = 0 /\ BitOf(3, 3) = 0
      /\ BitOf(9, 0) = 1 /\ BitOf(9, 1) = 0 /\ BitOf(9, 2) = 0 /\ BitOf(9, 3) = 1
      /\ BitOf(11, 0) = 1 /\ BitOf(11, 1) = 1 /\ BitOf(11, 2) = 0 /\ BitOf(11, 3) = 1
      /\ BitOf(13, 0) = 1 /\ BitOf(13, 1) = 0 /\ BitOf(13, 2) = 1 /\ BitOf(13, 3) = 1
      /\ BitOf(14, 0) = 0 /\ BitOf(14, 1) = 1 /\ BitOf(14, 2) = 1 /\ BitOf(14, 3) = 1
  BY <1>3, SMT
<1>5. Xor4(0, 0, 0, 0) = 0 /\ 0 \in Byte
  BY ZeroBits, XorZero DEF Xor4
<1>6. ASSUME NEW a \in 1 .. 15
      PROVE  Multiplication(a, b) = Xor4(Term(a, 0), Term(a, 1), Term(a, 2), Term(a, 3))
  <2>1. Term(a, 4) = 0 /\ Term(a, 5) = 0 /\ Term(a, 6) = 0 /\ Term(a, 7) = 0
    <3>1. BitOf(a, 4) = 0 /\ BitOf(a, 5) = 0 /\ BitOf(a, 6) = 0 /\ BitOf(a, 7) = 0
      BY <1>3
    <3> QED BY <3>1, SMT
  <2>2. /\ Term(a, 0) \in Byte /\ Term(a, 1) \in Byte /\ Term(a, 2) \in Byte
        /\ Term(a, 3) \in Byte
    BY <1>2, <1>5
  <2> HIDE DEF Term
  <2>3. Xor4(Term(a, 0), Term(a, 1), Term(a, 2), Term(a, 3)) \in Byte
    BY <2>2, Xor4Bit
  <2>4. Xor4(Term(a, 4), Term(a, 5), Term(a, 6), Term(a, 7)) = 0
    BY <1>5, <2>1, Zenon
  <2>5. Multiplication(a, b) = ByteXor(Xor4(Term(a, 0), Term(a, 1), Term(a, 2), Term(a, 3)), 0)
    <3>1. Multiplication(a, b) = ByteXor(Xor4(Term(a, 0), Term(a, 1), Term(a, 2), Term(a, 3)),
                                         Xor4(Term(a, 4), Term(a, 5), Term(a, 6), Term(a, 7)))
      BY <1>1
    <3> QED BY <2>4, <3>1, Zenon
  <2> QED BY <2>3, <2>5, XorZero, Zenon
<1>7. /\ Term(1, 0) = p[0] /\ Term(1, 1) = 0 /\ Term(1, 2) = 0 /\ Term(1, 3) = 0
      /\ Term(2, 0) = 0 /\ Term(2, 1) = p[1] /\ Term(2, 2) = 0 /\ Term(2, 3) = 0
      /\ Term(3, 0) = p[0] /\ Term(3, 1) = p[1] /\ Term(3, 2) = 0 /\ Term(3, 3) = 0
      /\ Term(9, 0) = p[0] /\ Term(9, 1) = 0 /\ Term(9, 2) = 0 /\ Term(9, 3) = p[3]
      /\ Term(11, 0) = p[0] /\ Term(11, 1) = p[1] /\ Term(11, 2) = 0 /\ Term(11, 3) = p[3]
      /\ Term(13, 0) = p[0] /\ Term(13, 1) = 0 /\ Term(13, 2) = p[2] /\ Term(13, 3) = p[3]
      /\ Term(14, 0) = 0 /\ Term(14, 1) = p[1] /\ Term(14, 2) = p[2] /\ Term(14, 3) = p[3]
  BY <1>4, SMT
<1>8. /\ 1 \in 1 .. 15 /\ 2 \in 1 .. 15 /\ 3 \in 1 .. 15 /\ 9 \in 1 .. 15 /\ 11 \in 1 .. 15
      /\ 13 \in 1 .. 15 /\ 14 \in 1 .. 15
  BY SMT
<1>9. Xor4(p[0], 0, 0, 0) = p[0] /\ Xor4(0, p[1], 0, 0) = p[1]
  BY <1>2, ZeroBits, XorZero DEF Xor4
<1> HIDE DEF Term, p
<1>10. /\ Multiplication(1, b) = p[0]
       /\ Multiplication(2, b) = p[1]
       /\ Multiplication(3, b) = Xor4(p[0], p[1], 0, 0)
       /\ Multiplication(9, b) = Xor4(p[0], 0, 0, p[3])
       /\ Multiplication(11, b) = Xor4(p[0], p[1], 0, p[3])
       /\ Multiplication(13, b) = Xor4(p[0], 0, p[2], p[3])
       /\ Multiplication(14, b) = Xor4(0, p[1], p[2], p[3])
  BY <1>6, <1>7, <1>8, <1>9, Zenon
<1> QED
  BY <1>10 DEF p

-----------------------------------------------------------------------------
(* Mixing a column and back *)

\* The byte that MixColumns makes of a column, for the row whose byte is a.
Mixed(a, b, c, d) ==
    Xor4(Multiplication(2, a), Multiplication(3, b), Multiplication(1, c), Multiplication(1, d))

LEMMA xtimeXor4 ==
    ASSUME NEW a \in Byte, NEW b \in Byte, NEW c \in Byte, NEW d \in Byte
    PROVE  xtime(Xor4(a, b, c, d)) = Xor4(xtime(a), xtime(b), xtime(c), xtime(d))
<1>1. ByteXor(a, b) \in Byte /\ ByteXor(c, d) \in Byte
  BY XorType
<1>2. xtime(Xor4(a, b, c, d)) = ByteXor(xtime(ByteXor(a, b)), xtime(ByteXor(c, d)))
  BY <1>1, xtimeXor DEF Xor4
<1> QED
  BY <1>2, xtimeXor DEF Xor4

\* Powers of a mixed byte are mixed powers.
LEMMA MixedPowers ==
    ASSUME NEW a \in Byte, NEW b \in Byte, NEW c \in Byte, NEW d \in Byte
    PROVE  /\ Mixed(a, b, c, d) \in Byte
           /\ \A n \in 0 .. 3 : Powers(Mixed(a, b, c, d))[n]
                = Xor4(Powers(a)[n + 1], ByteXor(Powers(b)[n], Powers(b)[n + 1]),
                       Powers(c)[n], Powers(d)[n])
<1> DEFINE u == Mixed(a, b, c, d)
           Sum(n) == Powers(u)[n]
                = Xor4(Powers(a)[n + 1], ByteXor(Powers(b)[n], Powers(b)[n + 1]),
                       Powers(c)[n], Powers(d)[n])
<1>1. \A n \in 0 .. 10 : /\ Powers(a)[n] \in Byte /\ Powers(b)[n] \in Byte
                         /\ Powers(c)[n] \in Byte /\ Powers(d)[n] \in Byte
  BY PowersAre
<1>2. Multiplication(3, b) = ByteXor(Powers(b)[0], Powers(b)[1])
  <2>1. Powers(b)[0] \in Byte /\ Powers(b)[1] \in Byte
    BY <1>1, SMT
  <2>2. ByteXor(Powers(b)[0], Powers(b)[1]) \in Byte /\ 0 \in Byte
    BY <2>1, XorType, ZeroBits
  <2> QED BY <2>2, XorZero, Products DEF Xor4
<1>3. u = Xor4(Powers(a)[1], ByteXor(Powers(b)[0], Powers(b)[1]), Powers(c)[0], Powers(d)[0])
  BY <1>2, Products DEF Mixed
<1>4. u \in Byte
  <2>1. /\ Powers(a)[1] \in Byte /\ Powers(b)[0] \in Byte /\ Powers(b)[1] \in Byte
        /\ Powers(c)[0] \in Byte /\ Powers(d)[0] \in Byte
    BY <1>1, SMT
  <2> HIDE DEF u
  <2> QED BY <1>3, <2>1, XorType, Xor4Bit
<1> HIDE DEF u
<1>5. Sum(0)
  BY <1>3, <1>4, PowersAre
<1>6. ASSUME NEW n \in 0 .. 2, Sum(n)
      PROVE  Sum(n + 1)
  <2>1. n \in 0 .. 9 /\ n + 1 \in 0 .. 9 /\ n \in 0 .. 10 /\ n + 1 \in 0 .. 10
    BY SMT
  <2>2. ByteXor(Powers(b)[n], Powers(b)[n + 1]) \in Byte
    BY <1>1, <2>1, XorType
  <2>3. Powers(u)[n + 1]
          = Xor4(xtime(Powers(a)[n + 1]), xtime(ByteXor(Powers(b)[n], Powers(b)[n + 1])),
                 xtime(Powers(c)[n]), xtime(Powers(d)[n]))
    <3> DEFINE x == ByteXor(Powers(b)[n], Powers(b)[n + 1])
               y == Powers(a)[n + 1]
               z == Powers(c)[n]
               v == Powers(d)[n]
    <3>1. Powers(u)[n] = Xor4(y, x, z, v)
      BY <1>6
    <3>2. y \in Byte /\ x \in Byte /\ z \in Byte /\ v \in Byte
      BY <1>1, <2>1, <2>2
    <3> HIDE DEF x, y, z, v
    <3>3. Powers(u)[n + 1] = xtime(Powers(u)[n])
      BY <1>4, <2>1, PowersAre
    <3>4. Powers(u)[n + 1] = Xor4(xtime(y), xtime(x), xtime(z), xtime(v))
      BY <3>1, <3>2, <3>3, xtimeXor4
    <3> QED BY <3>4 DEF x, y, z, v
  <2>4. xtime(ByteXor(Powers(b)[n], Powers(b)[n + 1]))
          = ByteXor(xtime(Powers(b)[n]), xtime(Powers(b)[n + 1]))
    BY <1>1, <2>1, xtimeXor
  <2>5. /\ xtime(Powers(a)[n + 1]) = Powers(a)[(n + 1) + 1]
        /\ xtime(Powers(b)[n]) = Powers(b)[n + 1]
        /\ xtime(Powers(b)[n + 1]) = Powers(b)[(n + 1) + 1]
        /\ xtime(Powers(c)[n]) = Powers(c)[n + 1] /\ xtime(Powers(d)[n]) = Powers(d)[n + 1]
    BY <2>1, PowersAre
  <2> QED BY <2>3, <2>4, <2>5
<1> HIDE DEF Sum
<1>7. Sum(1) /\ Sum(2) /\ Sum(3)
  <2>1. /\ 0 \in 0 .. 2 /\ 1 \in 0 .. 2 /\ 2 \in 0 .. 2 /\ 0 + 1 = 1 /\ 1 + 1 = 2 /\ 2 + 1 = 3
    BY SMT
  <2>2. Sum(0 + 1)
    BY <1>5, <1>6, <2>1
  <2>3. Sum(1 + 1)
    BY <1>6, <2>1, <2>2
  <2>4. Sum(2 + 1)
    BY <1>6, <2>1, <2>3
  <2> QED BY <2>1, <2>2, <2>3, <2>4
<1>8. \A n \in 0 .. 3 : n = 0 \/ n = 1 \/ n = 2 \/ n = 3
  BY SMT
<1>9. \A n \in 0 .. 3 : Sum(n)
  BY <1>5, <1>7, <1>8
<1> QED
  BY <1>4, <1>9 DEF Sum, u

\* Bit n of the power m of a mixed byte.
LEMMA MixedBit ==
    ASSUME NEW a \in Byte, NEW b \in Byte, NEW c \in Byte, NEW d \in Byte,
           NEW m \in 0 .. 3, NEW n \in Eight
    PROVE  BitOf(Powers(Mixed(a, b, c, d))[m], n)
              = (BitOf(Powers(a)[m + 1], n) + BitOf(Powers(b)[m], n)
                   + BitOf(Powers(b)[m + 1], n) + BitOf(Powers(c)[m], n)
                   + BitOf(Powers(d)[m], n)) % 2
<1> DEFINE a1 == Powers(a)[m + 1]
           b0 == Powers(b)[m]
           b1 == Powers(b)[m + 1]
           c0 == Powers(c)[m]
           d0 == Powers(d)[m]
<1>1. m \in 0 .. 10 /\ m + 1 \in 0 .. 10
  BY SMT
<1>2. a1 \in Byte /\ b0 \in Byte /\ b1 \in Byte /\ c0 \in Byte /\ d0 \in Byte
  BY <1>1, PowersAre
<1>3. Powers(Mixed(a, b, c, d))[m] = Xor4(a1, ByteXor(b0, b1), c0, d0)
  BY MixedPowers
<1> HIDE DEF a1, b0, b1, c0, d0
<1>4. ByteXor(b0, b1) \in Byte /\ BitOf(ByteXor(b0, b1), n) = (BitOf(b0, n) + BitOf(b1, n)) % 2
  BY <1>2, XorBit
<1>5. BitOf(Powers(Mixed(a, b, c, d))[m], n)
         = (BitOf(a1, n) + BitOf(ByteXor(b0, b1), n) + BitOf(c0, n) + BitOf(d0, n)) % 2
  BY <1>2, <1>3, <1>4, Xor4Bit
<1>6. ASSUME NEW p \in {0, 1}, NEW q \in {0, 1}, NEW s \in {0, 1}, NEW t \in {0, 1},
             NEW v \in {0, 1}
      PROVE  (p + ((q + s) % 2) + t + v) % 2 = (p + q + s + t + v) % 2
  BY SMT
<1>7. /\ BitOf(a1, n) \in {0, 1} /\ BitOf(b0, n) \in {0, 1} /\ BitOf(b1, n) \in {0, 1}
      /\ BitOf(c0, n) \in {0, 1} /\ BitOf(d0, n) \in {0, 1}
  BY <1>2, BitOfType
<1>8. BitOf(Powers(Mixed(a, b, c, d))[m], n)
         = (BitOf(a1, n) + BitOf(b0, n) + BitOf(b1, n) + BitOf(c0, n) + BitOf(d0, n)) % 2
  <2>1. (BitOf(a1, n) + ((BitOf(b0, n) + BitOf(b1, n)) % 2) + BitOf(c0, n) + BitOf(d0, n)) % 2
           = (BitOf(a1, n) + BitOf(b0, n) + BitOf(b1, n) + BitOf(c0, n) + BitOf(d0, n)) % 2
    BY <1>6, <1>7
  <2> QED BY <1>4, <1>5, <2>1, Zenon
<1> QED
  BY <1>8 DEF a1, b0, b1, c0, d0

\* Remainders modulo 2 may be taken before or after adding up.
LEMMA Parities ==
    ASSUME NEW p \in Int, NEW q \in Int, NEW s \in Int
    PROVE  /\ ((p % 2) + (q % 2) + (s % 2)) % 2 = (p + q + s) % 2
           /\ ((p % 2) + (q % 2)) % 2 = (p + q) % 2
BY SMT

\* The bits of the products by which a column is mixed back.
LEMMA UnmixBits ==
    ASSUME NEW u \in Byte, NEW n \in Eight
    PROVE  LET e(m) == BitOf(Powers(u)[m], n)
           IN  /\ BitOf(Multiplication(14, u), n) = (e(1) + e(2) + e(3)) % 2
               /\ BitOf(Multiplication(11, u), n) = (e(0) + e(1) + e(3)) % 2
               /\ BitOf(Multiplication(13, u), n) = (e(0) + e(2) + e(3)) % 2
               /\ BitOf(Multiplication(9, u), n) = (e(0) + e(3)) % 2
               /\ Multiplication(14, u) \in Byte /\ Multiplication(11, u) \in Byte
               /\ Multiplication(13, u) \in Byte /\ Multiplication(9, u) \in Byte
<1> DEFINE p0 == Powers(u)[0]
           p1 == Powers(u)[1]
           p2 == Powers(u)[2]
           p3 == Powers(u)[3]
<1>1. p0 \in Byte /\ p1 \in Byte /\ p2 \in Byte /\ p3 \in Byte
  BY PowersAre, SMT
<1>2. /\ Multiplication(9, u) = Xor4(p0, 0, 0, p3)
      /\ Multiplication(11, u) = Xor4(p0, p1, 0, p3)
      /\ Multiplication(13, u) = Xor4(p0, 0, p2, p3)
      /\ Multiplication(14, u) = Xor4(0, p1, p2, p3)
  BY Products
<1> DEFINE e0 == BitOf(p0, n)
           e1 == BitOf(p1, n)
           e2 == BitOf(p2, n)
           e3 == BitOf(p3, n)
<1> HIDE DEF p0, p1, p2, p3
<1>3. 0 \in Byte /\ BitOf(0, n) = 0
  BY ZeroBits
<1>4. /\ BitOf(Multiplication(9, u), n) = (e0 + 0 + 0 + e3) % 2
      /\ BitOf(Multiplication(11, u), n) = (e0 + e1 + 0 + e3) % 2
      /\ BitOf(Multiplication(13, u), n) = (e0 + 0 + e2 + e3) % 2
      /\ BitOf(Multiplication(14, u), n) = (0 + e1 + e2 + e3) % 2
  <2>1. /\ BitOf(Xor4(p0, 0, 0, p3), n)
             = (BitOf(p0, n) + BitOf(0, n) + BitOf(0, n) + BitOf(p3, n)) % 2
        /\ BitOf(Xor4(p0, p1, 0, p3), n)
             = (BitOf(p0, n) + BitOf(p1, n) + BitOf(0, n) + BitOf(p3, n)) % 2
        /\ BitOf(Xor4(p0, 0, p2, p3), n)
             = (BitOf(p0, n) + BitOf(0, n) + BitOf(p2, n) + BitOf(p3, n)) % 2
        /\ BitOf(Xor4(0, p1, p2, p3), n)
             = (BitOf(0, n) + BitOf(p1, n) + BitOf(p2, n) + BitOf(p3, n)) % 2
    BY <1>1, <1>3, Xor4Bit
  <2> QED BY <1>2, <1>3, <2>1, Zenon
<1>5. e0 \in {0, 1} /\ e1 \in {0, 1} /\ e2 \in {0, 1} /\ e3 \in {0, 1}
  BY <1>1, BitOfType
<1> HIDE DEF e0, e1, e2, e3
<1>6. /\ BitOf(Multiplication(9, u), n) = (e0 + e3) % 2
      /\ BitOf(Multiplication(11, u), n) = (e0 + e1 + e3) % 2
      /\ BitOf(Multiplication(13, u), n) = (e0 + e2 + e3) % 2
      /\ BitOf(Multiplication(14, u), n) = (e1 + e2 + e3) % 2
  BY <1>4, <1>5, SMT
<1>7. /\ Multiplication(14, u) \in Byte /\ Multiplication(11, u) \in Byte
      /\ Multiplication(13, u) \in Byte /\ Multiplication(9, u) \in Byte
  BY <1>1, <1>2, <1>3, Xor4Bit
<1> QED
  BY <1>6, <1>7, Zenon DEF e0, e1, e2, e3, p0, p1, p2, p3

\* Mixed back, a column is what it was.
LEMMA Unmixes ==
    ASSUME NEW a \in Byte, NEW b \in Byte, NEW c \in Byte, NEW d \in Byte
    PROVE  Xor4(Multiplication(14, Mixed(a, b, c, d)), Multiplication(11, Mixed(b, c, d, a)),
                Multiplication(13, Mixed(c, d, a, b)), Multiplication(9, Mixed(d, a, b, c))) = a
<1> DEFINE p == Mixed(a, b, c, d)
           q == Mixed(b, c, d, a)
           s == Mixed(c, d, a, b)
           t == Mixed(d, a, b, c)
           z == Xor4(Multiplication(14, p), Multiplication(11, q),
                     Multiplication(13, s), Multiplication(9, t))
<1>1. p \in Byte /\ q \in Byte /\ s \in Byte /\ t \in Byte
  BY MixedPowers
<1>2. ASSUME NEW n \in Eight
      PROVE  BitOf(z, n) = BitOf(a, n)
  <2> DEFINE
           a0 == BitOf(Powers(a)[0], n)
           a1 == BitOf(Powers(a)[1], n)
           a2 == BitOf(Powers(a)[2], n)
           a3 == BitOf(Powers(a)[3], n)
           a4 == BitOf(Powers(a)[4], n)
           b0 == BitOf(Powers(b)[0], n)
           b1 == BitOf(Powers(b)[1], n)
           b2 == BitOf(Powers(b)[2], n)
           b3 == BitOf(Powers(b)[3], n)
           b4 == BitOf(Powers(b)[4], n)
           c0 == BitOf(Powers(c)[0], n)
           c1 == BitOf(Powers(c)[1], n)
           c2 == BitOf(Powers(c)[2], n)
           c3 == BitOf(Powers(c)[3], n)
           c4 == BitOf(Powers(c)[4], n)
           d0 == BitOf(Powers(d)[0], n)
           d1 == BitOf(Powers(d)[1], n)
           d2 == BitOf(Powers(d)[2], n)
           d3 == BitOf(Powers(d)[3], n)
           d4 == BitOf(Powers(d)[4], n)
           e14 == BitOf(Multiplication(14, p), n)
           e11 == BitOf(Multiplication(11, q), n)
           e13 == BitOf(Multiplication(13, s), n)
           e9  == BitOf(Multiplication(9, t), n)
  <2>1. /\ a0 \in {0, 1} /\ a1 \in {0, 1} /\ a2 \in {0, 1} /\ a3 \in {0, 1} /\ a4 \in {0, 1}
        /\ b0 \in {0, 1} /\ b1 \in {0, 1} /\ b2 \in {0, 1} /\ b3 \in {0, 1} /\ b4 \in {0, 1}
        /\ c0 \in {0, 1} /\ c1 \in {0, 1} /\ c2 \in {0, 1} /\ c3 \in {0, 1} /\ c4 \in {0, 1}
        /\ d0 \in {0, 1} /\ d1 \in {0, 1} /\ d2 \in {0, 1} /\ d3 \in {0, 1} /\ d4 \in {0, 1}
    <3>1. ASSUME NEW v \in Byte, NEW m \in 0 .. 10 PROVE BitOf(Powers(v)[m], n) \in {0, 1}
      BY PowersAre, BitOfType
    <3>2. 0 \in 0 .. 10 /\ 1 \in 0 .. 10 /\ 2 \in 0 .. 10 /\ 3 \in 0 .. 10 /\ 4 \in 0 .. 10
      BY SMT
    <3> QED BY <3>1, <3>2
  <2>2. /\ 0 \in 0 .. 3 /\ 1 \in 0 .. 3 /\ 2 \in 0 .. 3 /\ 3 \in 0 .. 3
        /\ 0 + 1 = 1 /\ 1 + 1 = 2 /\ 2 + 1 = 3 /\ 3 + 1 = 4
    BY SMT
  <2>3. /\ BitOf(Powers(p)[1], n) = (a2 + b1 + b2 + c1 + d1) % 2
        /\ BitOf(Powers(p)[2], n) = (a3 + b2 + b3 + c2 + d2) % 2
        /\ BitOf(Powers(p)[3], n) = (a4 + b3 + b4 + c3 + d3) % 2
    BY <2>2, MixedBit
  <2>4. /\ BitOf(Powers(q)[0], n) = (b1 + c0 + c1 + d0 + a0) % 2
        /\ BitOf(Powers(q)[1], n) = (b2 + c1 + c2 + d1 + a1) % 2
        /\ BitOf(Powers(q)[3], n) = (b4 + c3 + c4 + d3 + a3) % 2
    BY <2>2, MixedBit
  <2>5. /\ BitOf(Powers(s)[0], n) = (c1 + d0 + d1 + a0 + b0) % 2
        /\ BitOf(Powers(s)[2], n) = (c3 + d2 + d3 + a2 + b2) % 2
        /\ BitOf(Powers(s)[3], n) = (c4 + d3 + d4 + a3 + b3) % 2
    BY <2>2, MixedBit
  <2>6. /\ BitOf(Powers(t)[0], n) = (d1 + a0 + a1 + b0 + c0) % 2
        /\ BitOf(Powers(t)[3], n) = (d4 + a3 + a4 + b3 + c3) % 2
    BY <2>2, MixedBit
  <2>7. a0 = BitOf(a, n)
    BY PowersAre
  <2>8. BitOf(z, n) = (e14 + e11 + e13 + e9) % 2
    BY <1>1, UnmixBits, Xor4Bit
  <2>9. e14 \in {0, 1} /\ e11 \in {0, 1} /\ e13 \in {0, 1} /\ e9 \in {0, 1}
    BY <1>1, UnmixBits, BitOfType
  <2>10. e14 = (BitOf(Powers(p)[1], n) + BitOf(Powers(p)[2], n) + BitOf(Powers(p)[3], n)) % 2
    BY <1>1, UnmixBits
  <2>11. e11 = (BitOf(Powers(q)[0], n) + BitOf(Powers(q)[1], n) + BitOf(Powers(q)[3], n)) % 2
    BY <1>1, UnmixBits
  <2>12. e13 = (BitOf(Powers(s)[0], n) + BitOf(Powers(s)[2], n) + BitOf(Powers(s)[3], n)) % 2
    BY <1>1, UnmixBits
  <2>13. e9 = (BitOf(Powers(t)[0], n) + BitOf(Powers(t)[3], n)) % 2
    BY <1>1, UnmixBits
  <2> HIDE DEF a0, a1, a2, a3, a4, b0, b1, b2, b3, b4, c0, c1, c2, c3, c4, d0, d1, d2, d3, d4, e14, e11, e13, e9
  <2>14. e14 = (((a2 + b1 + b2 + c1 + d1) % 2)
                  + ((a3 + b2 + b3 + c2 + d2) % 2)
                  + ((a4 + b3 + b4 + c3 + d3) % 2)) % 2
    BY <2>10, <2>3, Zenon
  <2>15. e11 = (((b1 + c0 + c1 + d0 + a0) % 2)
                  + ((b2 + c1 + c2 + d1 + a1) % 2)
                  + ((b4 + c3 + c4 + d3 + a3) % 2)) % 2
    BY <2>11, <2>4, Zenon
  <2>16. e13 = (((c1 + d0 + d1 + a0 + b0) % 2)
                  + ((c3 + d2 + d3 + a2 + b2) % 2)
                  + ((c4 + d3 + d4 + a3 + b3) % 2)) % 2
    BY <2>12, <2>5, Zenon
  <2>17. e9 = (((d1 + a0 + a1 + b0 + c0) % 2)
                  + ((d4 + a3 + a4 + b3 + c3) % 2)) % 2
    BY <2>13, <2>6, Zenon
  <2>18. e14 = ((a2 + b1 + b2 + c1 + d1)
                  + (a3 + b2 + b3 + c2 + d2)
                  + (a4 + b3 + b4 + c3 + d3)) % 2
    BY <2>1, <2>14, Parities, SMT
  <2>19. e11 = ((b1 + c0 + c1 + d0 + a0)
                  + (b2 + c1 + c2 + d1 + a1)
                  + (b4 + c3 + c4 + d3 + a3)) % 2
    BY <2>1, <2>15, Parities, SMT
  <2>20. e13 = ((c1 + d0 + d1 + a0 + b0)
                  + (c3 + d2 + d3 + a2 + b2)
                  + (c4 + d3 + d4 + a3 + b3)) % 2
    BY <2>1, <2>16, Parities, SMT
  <2>21. e9 = ((d1 + a0 + a1 + b0 + c0)
                  + (d4 + a3 + a4 + b3 + c3)) % 2
    BY <2>1, <2>17, Parities, SMT
  <2>22. (e14 + e11 + e13 + e9) % 2 = a0
    BY <2>1, <2>18, <2>19, <2>20, <2>21, SMTT(60)
  <2> QED BY <2>7, <2>8, <2>22
<1>3. z \in Byte
  <2>1. 0 \in Eight
    BY DEF Eight
  <2>2. /\ Multiplication(14, p) \in Byte /\ Multiplication(11, q) \in Byte
        /\ Multiplication(13, s) \in Byte /\ Multiplication(9, t) \in Byte
    BY <1>1, <2>1, UnmixBits
  <2> QED BY <2>2, Xor4Bit
<1> HIDE DEF z
<1>4. z = a
  BY <1>2, <1>3, SameBits
<1> QED
  BY <1>4 DEF z

-----------------------------------------------------------------------------
(* The steps of a round, and what undoes them *)

Matrix == [Four -> [Four -> Byte]]

LEMMA FourNumbers ==
    /\ 0 \in Four /\ 1 \in Four /\ 2 \in Four /\ 3 \in Four
    /\ \A n \in Four : n = 0 \/ n = 1 \/ n = 2 \/ n = 3
BY SMT DEF Four

LEMMA Entries ==
    ASSUME NEW s \in Matrix
    PROVE  /\ \A x \in Four, y \in Four : s[x][y] \in Byte
           /\ s = [x \in Four |-> [y \in Four |-> s[x][y]]]
<1>1. \A x \in Four : s[x] \in [Four -> Byte]
  BY DEF Matrix
<1>2. \A x \in Four : s[x] = [y \in Four |-> s[x][y]]
  BY <1>1
<1>3. s = [x \in Four |-> s[x]]
  BY DEF Matrix
<1> QED
  BY <1>1, <1>2, <1>3

LEMMA PolynomialIs ==
    ASSUME NEW a0, NEW a1, NEW a2, NEW a3
    PROVE  /\ Polynomial(a0, a1, a2, a3)[0] = a0 /\ Polynomial(a0, a1, a2, a3)[1] = a1
           /\ Polynomial(a0, a1, a2, a3)[2] = a2 /\ Polynomial(a0, a1, a2, a3)[3] = a3
BY SMT DEF Polynomial, Four

\* The product with a polynomial, row by row.
LEMMA ProductRows ==
    ASSUME NEW A, NEW s, NEW y
    PROVE  /\ Product(A, s, 0, y)
                = Xor4(Multiplication(A[0], s[0][y]), Multiplication(A[3], s[1][y]),
                       Multiplication(A[2], s[2][y]), Multiplication(A[1], s[3][y]))
           /\ Product(A, s, 1, y)
                = Xor4(Multiplication(A[1], s[0][y]), Multiplication(A[0], s[1][y]),
                       Multiplication(A[3], s[2][y]), Multiplication(A[2], s[3][y]))
           /\ Product(A, s, 2, y)
                = Xor4(Multiplication(A[2], s[0][y]), Multiplication(A[1], s[1][y]),
                       Multiplication(A[0], s[2][y]), Multiplication(A[3], s[3][y]))
           /\ Product(A, s, 3, y)
                = Xor4(Multiplication(A[3], s[0][y]), Multiplication(A[2], s[1][y]),
                       Multiplication(A[1], s[2][y]), Multiplication(A[0], s[3][y]))
<1>1. /\ (0 + 4 - 0) % 4 = 0 /\ (0 + 4 - 1) % 4 = 3 /\ (0 + 4 - 2) % 4 = 2 /\ (0 + 4 - 3) % 4 = 1
      /\ (1 + 4 - 0) % 4 = 1 /\ (1 + 4 - 1) % 4 = 0 /\ (1 + 4 - 2) % 4 = 3 /\ (1 + 4 - 3) % 4 = 2
      /\ (2 + 4 - 0) % 4 = 2 /\ (2 + 4 - 1) % 4 = 1 /\ (2 + 4 - 2) % 4 = 0 /\ (2 + 4 - 3) % 4 = 3
      /\ (3 + 4 - 0) % 4 = 3 /\ (3 + 4 - 1) % 4 = 2 /\ (3 + 4 - 2) % 4 = 1 /\ (3 + 4 - 3) % 4 = 0
  BY SMT
<1>2. \A n : Product(A, s, n, y)
                = Xor4(Multiplication(A[(n + 4 - 0) % 4], s[0][y]),
                       Multiplication(A[(n + 4 - 1) % 4], s[1][y]),
                       Multiplication(A[(n + 4 - 2) % 4], s[2][y]),
                       Multiplication(A[(n + 4 - 3) % 4], s[3][y]))
  BY Zenon DEF Product
<1> QED
  BY <1>1, <1>2, Zenon

\* What undoes Mixed.
Unmixed(a, b, c, d) ==
    Xor4(Multiplication(14, a), Multiplication(11, b), Multiplication(13, c), Multiplication(9, d))

LEMMA ProductTypes ==
    ASSUME NEW a \in Byte
    PROVE  /\ Multiplication(1, a) \in Byte /\ Multiplication(2, a) \in Byte
           /\ Multiplication(3, a) \in Byte /\ Multiplication(9, a) \in Byte
           /\ Multiplication(11, a) \in Byte /\ Multiplication(13, a) \in Byte
           /\ Multiplication(14, a) \in Byte
<1> DEFINE p0 == Powers(a)[0]
           p1 == Powers(a)[1]
           p2 == Powers(a)[2]
           p3 == Powers(a)[3]
<1>1. p0 \in Byte /\ p1 \in Byte /\ p2 \in Byte /\ p3 \in Byte /\ 0 \in Byte
  BY PowersAre, ZeroBits, SMT
<1>2. Multiplication(1, a) = p0 /\ Multiplication(2, a) = p1
      /\ Multiplication(3, a) = Xor4(p0, p1, 0, 0)
  BY Products
<1> HIDE DEF p0, p1, p2, p3
<1>3. Multiplication(3, a) \in Byte
  BY <1>1, <1>2, Xor4Bit
<1>4. 0 \in Eight
  BY DEF Eight
<1> QED
  BY <1>1, <1>2, <1>3, <1>4, UnmixBits

LEMMA MixedRows ==
    ASSUME NEW s \in Matrix, NEW y \in Four
    PROVE  /\ MixColumns(s)[0][y] = Mixed(s[0][y], s[1][y], s[2][y], s[3][y])
           /\ MixColumns(s)[1][y] = Mixed(s[1][y], s[2][y], s[3][y], s[0][y])
           /\ MixColumns(s)[2][y] = Mixed(s[2][y], s[3][y], s[0][y], s[1][y])
           /\ MixColumns(s)[3][y] = Mixed(s[3][y], s[0][y], s[1][y], s[2][y])
<1> DEFINE a == s[0][y]
           b == s[1][y]
           c == s[2][y]
           d == s[3][y]
           A == Polynomial(2, 1, 1, 3)
<1>1. a \in Byte /\ b \in Byte /\ c \in Byte /\ d \in Byte
  BY Entries, FourNumbers
<1>2. \A n \in Four : MixColumns(s)[n][y] = Product(A, s, n, y)
  BY DEF MixColumns, Columns
<1>3. /\ Product(A, s, 0, y) = Xor4(Multiplication(2, a), Multiplication(3, b),
                                    Multiplication(1, c), Multiplication(1, d))
      /\ Product(A, s, 1, y) = Xor4(Multiplication(1, a), Multiplication(2, b),
                                    Multiplication(3, c), Multiplication(1, d))
      /\ Product(A, s, 2, y) = Xor4(Multiplication(1, a), Multiplication(1, b),
                                    Multiplication(2, c), Multiplication(3, d))
      /\ Product(A, s, 3, y) = Xor4(Multiplication(3, a), Multiplication(1, b),
                                    Multiplication(1, c), Multiplication(2, d))
  <2>1. A[0] = 2 /\ A[1] = 1 /\ A[2] = 1 /\ A[3] = 3
    BY PolynomialIs
  <2> HIDE DEF A
  <2> QED BY <2>1, ProductRows
<1> HIDE DEF a, b, c, d, A
<1>4. \A v \in Byte : /\ Multiplication(1, v) \in Byte /\ Multiplication(2, v) \in Byte
                      /\ Multiplication(3, v) \in Byte
  BY ProductTypes
<1>5. Product(A, s, 0, y) = Mixed(a, b, c, d)
  BY <1>3 DEF Mixed
<1>6. Product(A, s, 1, y) = Mixed(b, c, d, a)
  BY <1>1, <1>3, <1>4, Xor4Turns DEF Mixed
<1>7. Product(A, s, 2, y) = Mixed(c, d, a, b)
  BY <1>1, <1>3, <1>4, Xor4Turns DEF Mixed
<1>8. Product(A, s, 3, y) = Mixed(d, a, b, c)
  BY <1>1, <1>3, <1>4, Xor4Turns DEF Mixed
<1> QED
  BY <1>2, <1>5, <1>6, <1>7, <1>8, FourNumbers DEF a, b, c, d

LEMMA MixColumnsType ==
    ASSUME NEW s \in Matrix
    PROVE  MixColumns(s) \in Matrix
<1>1. ASSUME NEW x \in Four, NEW y \in Four
      PROVE  MixColumns(s)[x][y] \in Byte
  <2> DEFINE a == s[0][y]
             b == s[1][y]
             c == s[2][y]
             d == s[3][y]
  <2>1. a \in Byte /\ b \in Byte /\ c \in Byte /\ d \in Byte
    BY Entries, FourNumbers
  <2>2. /\ MixColumns(s)[0][y] = Mixed(a, b, c, d) /\ MixColumns(s)[1][y] = Mixed(b, c, d, a)
        /\ MixColumns(s)[2][y] = Mixed(c, d, a, b) /\ MixColumns(s)[3][y] = Mixed(d, a, b, c)
    BY MixedRows
  <2> HIDE DEF a, b, c, d
  <2>3. /\ MixColumns(s)[0][y] \in Byte /\ MixColumns(s)[1][y] \in Byte
        /\ MixColumns(s)[2][y] \in Byte /\ MixColumns(s)[3][y] \in Byte
    BY <2>1, <2>2, MixedPowers
  <2> QED BY <2>3, FourNumbers
<1>2. MixColumns(s) = [x \in Four |-> [y \in Four |-> MixColumns(s)[x][y]]]
  BY DEF MixColumns, Columns
<1> QED
  BY <1>1, <1>2 DEF Matrix

LEMMA MixColumnsUndone ==
    ASSUME NEW s \in Matrix
    PROVE  Columns(Polynomial(14, 9, 13, 11), MixColumns(s)) = s
<1> DEFINE B == Polynomial(14, 9, 13, 11)
           t == MixColumns(s)
<1>1. ASSUME NEW x \in Four, NEW y \in Four
      PROVE  Product(B, t, x, y) = s[x][y]
  <2> DEFINE a == s[0][y]
             b == s[1][y]
             c == s[2][y]
             d == s[3][y]
             p == t[0][y]
             q == t[1][y]
             u == t[2][y]
             v == t[3][y]
  <2>1. a \in Byte /\ b \in Byte /\ c \in Byte /\ d \in Byte
    BY Entries, FourNumbers
  <2>2. p = Mixed(a, b, c, d) /\ q = Mixed(b, c, d, a) /\ u = Mixed(c, d, a, b)
        /\ v = Mixed(d, a, b, c)
    BY MixedRows
  <2>3. /\ Product(B, t, 0, y) = Xor4(Multiplication(14, p), Multiplication(11, q),
                                      Multiplication(13, u), Multiplication(9, v))
        /\ Product(B, t, 1, y) = Xor4(Multiplication(9, p), Multiplication(14, q),
                                      Multiplication(11, u), Multiplication(13, v))
        /\ Product(B, t, 2, y) = Xor4(Multiplication(13, p), Multiplication(9, q),
                                      Multiplication(14, u), Multiplication(11, v))
        /\ Product(B, t, 3, y) = Xor4(Multiplication(11, p), Multiplication(13, q),
                                      Multiplication(9, u), Multiplication(14, v))
    <3>1. B[0] = 14 /\ B[1] = 9 /\ B[2] = 13 /\ B[3] = 11
      BY PolynomialIs
    <3> HIDE DEF B, t
    <3> QED BY <3>1, ProductRows
  <2> HIDE DEF a, b, c, d, p, q, u, v, B, t
  <2>4. p \in Byte /\ q \in Byte /\ u \in Byte /\ v \in Byte
    BY <2>1, <2>2, MixedPowers
  <2>5. \A z \in Byte : /\ Multiplication(9, z) \in Byte /\ Multiplication(11, z) \in Byte
                        /\ Multiplication(13, z) \in Byte /\ Multiplication(14, z) \in Byte
    BY ProductTypes
  <2>6. /\ Product(B, t, 0, y) = Unmixed(p, q, u, v)
        /\ Product(B, t, 1, y) = Unmixed(q, u, v, p)
    BY <2>3, <2>4, <2>5, Xor4Turns, SMTT(40) DEF Unmixed
  <2>7. Product(B, t, 2, y) = Unmixed(u, v, p, q)
    BY <2>3, <2>4, <2>5, Xor4Turns, SMTT(40) DEF Unmixed
  <2>8. Product(B, t, 3, y) = Unmixed(v, p, q, u)
    BY <2>3, <2>4, <2>5, Xor4Turns, SMTT(40) DEF Unmixed
  <2>9. /\ Unmixed(p, q, u, v) = a /\ Unmixed(q, u, v, p) = b
        /\ Unmixed(u, v, p, q) = c /\ Unmixed(v, p, q, u) = d
    BY <2>1, <2>2, Unmixes DEF Unmixed
  <2> QED
    BY <2>6, <2>7, <2>8, <2>9, FourNumbers DEF a, b, c, d
<1>2. Columns(B, t) = [x \in Four |-> [y \in Four |-> Product(B, t, x, y)]]
  BY DEF Columns
<1> HIDE DEF B, t
<1>3. Columns(B, t) = [x \in Four |-> [y \in Four |-> s[x][y]]]
  BY <1>1, <1>2
<1> QED
  BY <1>3, Entries DEF B, t


LEMMA AddRoundKeyIs ==
    ASSUME NEW s \in Matrix, NEW n \in 0 .. Nr, WordsDone, \A m \in 1 .. Len(w) : w[m] \in Word
    PROVE  AddRoundKey(s, n) \in Matrix /\ AddRoundKey(AddRoundKey(s, n), n) = s
<1> DEFINE z(x, y) == w[4 * n + y + 1][x]
<1>1. ASSUME NEW x \in Four, NEW y \in Four
      PROVE  z(x, y) \in Byte
  <2>1. 4 * n + y + 1 \in 1 .. 44
    BY SMT DEF Four, Nr
  <2>2. Len(w) = 44
    BY SMT DEF WordsDone, Nb, Nr
  <2>3. w[4 * n + y + 1] \in Word
    BY <2>1, <2>2
  <2> QED BY <2>3 DEF Word
<1>2. \A t : AddRoundKey(t, n) = [x \in Four |-> [y \in Four |-> ByteXor(t[x][y], z(x, y))]]
  BY Zenon DEF AddRoundKey
<1> HIDE DEF z
<1>3. \A x \in Four, y \in Four : ByteXor(s[x][y], z(x, y)) \in Byte
  BY <1>1, Entries, XorType
<1>4. \A x \in Four, y \in Four : ByteXor(ByteXor(s[x][y], z(x, y)), z(x, y)) = s[x][y]
  BY <1>1, Entries, XorCancels
<1>5. \A x \in Four, y \in Four : AddRoundKey(s, n)[x][y] = ByteXor(s[x][y], z(x, y))
  BY <1>2
<1>6. AddRoundKey(AddRoundKey(s, n), n) = [x \in Four |-> [y \in Four |-> s[x][y]]]
  <2>1. AddRoundKey(AddRoundKey(s, n), n)
          = [x \in Four |-> [y \in Four |-> ByteXor(AddRoundKey(s, n)[x][y], z(x, y))]]
    BY <1>2
  <2> QED BY <1>4, <1>5, <2>1
<1>7. AddRoundKey(s, n) \in Matrix
  BY <1>2, <1>3 DEF Matrix
<1> QED
  BY <1>6, <1>7, Entries

LEMMA BoxTypes ==
    /\ \A v \in Byte : Sub[v + 1] \in Byte /\ InverseSub[v + 1] \in Byte
    /\ \A v \in Byte : InverseSub[Sub[v + 1] + 1] = v
<1>1. \A v \in Byte : v + 1 \in 1 .. 256
  BY SMT DEF Byte
<1> QED
  BY <1>1, BoxesAssumption

\* Turned to the left and back, a row is what it was.
LEMMA RowsTurn ==
    ASSUME NEW x \in Four, NEW y \in Four
    PROVE  /\ (y + x) % 4 \in Four
           /\ (y + 4 - x) % 4 \in Four
           /\ (((y + 4 - x) % 4) + x) % 4 = y
BY SMT DEF Four

LEMMA SubBytesType ==
    ASSUME NEW s \in Matrix
    PROVE  SubBytes(s) \in Matrix
BY Entries, BoxTypes DEF SubBytes, Matrix

LEMMA ShiftRowsType ==
    ASSUME NEW s \in Matrix
    PROVE  ShiftRows(s) \in Matrix
BY Entries, RowsTurn DEF ShiftRows, Matrix

\* What SubBytes and ShiftRows do is undone by the inverse table and by rows that
\* are turned back.
LEMMA ShiftUndone ==
    ASSUME NEW s \in Matrix
    PROVE  [x \in Four |-> [y \in Four |->
                InverseSub[ShiftRows(SubBytes(s))[x][(y + 4 - x) % 4] + 1]]] = s
<1>1. ASSUME NEW x \in Four, NEW y \in Four
      PROVE  InverseSub[ShiftRows(SubBytes(s))[x][(y + 4 - x) % 4] + 1] = s[x][y]
  <2> DEFINE z == (y + 4 - x) % 4
  <2>1. z \in Four /\ (z + x) % 4 = y
    BY RowsTurn
  <2> HIDE DEF z
  <2>2. ShiftRows(SubBytes(s))[x][z] = SubBytes(s)[x][(z + x) % 4]
    BY <2>1 DEF ShiftRows
  <2>3. SubBytes(s)[x][y] = Sub[s[x][y] + 1]
    BY DEF SubBytes
  <2> QED BY <2>1, <2>2, <2>3, Entries, BoxTypes DEF z
<1> QED
  BY <1>1, Entries

\* Undo undoes a round.
LEMMA RoundUndone ==
    ASSUME NEW s \in Matrix, NEW n \in 1 .. Nr, WordsDone, \A m \in 1 .. Len(w) : w[m] \in Word
    PROVE  LET shifted == ShiftRows(SubBytes(s))
               t       == AddRoundKey(IF n < Nr THEN MixColumns(shifted) ELSE shifted, n)
           IN  t \in Matrix /\ Undo(t, n) = s
<1> DEFINE shifted == ShiftRows(SubBytes(s))
           mixed   == IF n < Nr THEN MixColumns(shifted) ELSE shifted
           t       == AddRoundKey(mixed, n)
<1>1. shifted \in Matrix
  BY SubBytesType, ShiftRowsType
<1>2. mixed \in Matrix
  <2> HIDE DEF shifted
  <2> QED BY <1>1, MixColumnsType
<1>3. n \in 0 .. Nr
  BY SMT DEF Nr
<1>4. AddRoundKey(mixed, n) \in Matrix /\ AddRoundKey(AddRoundKey(mixed, n), n) = mixed
  <2> HIDE DEF mixed
  <2> QED BY <1>2, <1>3, AddRoundKeyIs
<1>5. (IF n < Nr THEN Columns(Polynomial(14, 9, 13, 11), mixed) ELSE mixed) = shifted
  <2> HIDE DEF shifted
  <2> QED BY <1>1, MixColumnsUndone
<1>6. Undo(t, n) = [x \in Four |-> [y \in Four |-> InverseSub[shifted[x][(y + 4 - x) % 4] + 1]]]
  <2> HIDE DEF mixed, shifted
  <2> QED BY <1>4, <1>5 DEF Undo
<1>7. Undo(t, n) = s
  <2> HIDE DEF t
  <2> QED BY <1>6, ShiftUndone
<1> QED
  BY <1>4, <1>7

-----------------------------------------------------------------------------
(* Types are kept *)

LEMMA WordXorType ==
    ASSUME NEW a \in Word, NEW b \in Word
    PROVE  WordXor(a, b) \in Word
BY XorType DEF WordXor, Word

LEMMA ExpandedWordType ==
    ASSUME NEW a \in Word, NEW n \in 1 .. 10
    PROVE  WordXor(SubWord(RotWord(a)), Rcon(n)) \in Word
<1>1. ASSUME NEW x \in Four PROVE (x + 1) % 4 \in Four
  BY SMT DEF Four
<1>2. RotWord(a) \in Word
  BY <1>1 DEF RotWord, Word
<1>3. SubWord(RotWord(a)) \in Word
  BY <1>2, BoxTypes DEF SubWord, Word
<1>4. Powers(141)[n] \in Byte /\ 0 \in Byte
  <2>1. 141 \in Byte /\ n \in 0 .. 10
    BY SMT DEF Byte
  <2> QED BY <2>1, PowersAre, ZeroBits
<1>5. Rcon(n) \in Word
  BY <1>4 DEF Rcon, Word
<1> QED
  BY <1>3, <1>5, WordXorType

\* Everything the schedule and the core write has its type.
AesInv == AesTypeOK /\ w \in Seq(Word)

LEMMA AesInitType ==
    ASSUME NEW t \in Block, AesInit(t)
    PROVE  AesInv
<1>1. \A n \in 0 .. 3, x \in Four : 4 * n + x + 1 \in 1 .. 16
  BY SMT DEF Four
<1>2. \A n \in 0 .. 3 : KeyWord(t, n) \in Word
  BY <1>1 DEF KeyWord, Word, Block
<1>3. w = [n \in 1 .. 4 |-> KeyWord(t, n - 1)]
  BY DEF AesInit, Nk
<1>4. Len(w) = 4 /\ w \in Seq(Word)
  <2>1. \A n \in 1 .. 4 : n - 1 \in 0 .. 3
    BY SMT
  <2>2. w \in [1 .. 4 -> Word]
    BY <1>2, <1>3, <2>1
  <2>3. w \in Seq(Word)
    BY <2>2, SeqDef
  <2> QED BY <2>2, <2>3, SMT
<1>5. \A n \in 1 .. Len(w) : w[n] \in Word
  <2>1. Len(w) = 4
    BY <1>4
  <2>2. \A n \in 1 .. 4 : w[n] \in Word
    <3>1. \A n \in 1 .. 4 : n - 1 \in 0 .. 3
      BY SMT
    <3> QED BY <1>2, <1>3, <3>1
  <2> QED BY <2>1, <2>2
<1>6. [n \in 1 .. 16 |-> 0] \in Block /\ [x \in Four |-> [y \in Four |-> 0]] \in Matrix
  BY ZeroBits DEF Block, Matrix
<1>7. Len(w) \in Nk .. Nb * (Nr + 1)
  BY <1>4, SMT DEF Nk, Nb, Nr
<1>8. round = 0 /\ 0 \in 0 .. Nr + 1
  BY SMT DEF AesInit, Nr
<1> QED
  BY <1>4, <1>5, <1>6, <1>7, <1>8 DEF AesInit, AesInv, AesTypeOK, Matrix

LEMMA ExpandWordType ==
    ASSUME AesTypeOK, w \in Seq(Word), ExpandWord
    PROVE  AesTypeOK' /\ w' \in Seq(Word)
<1> DEFINE n    == Len(w)
           temp == IF n % Nk = 0
                   THEN WordXor(SubWord(RotWord(w[n])), Rcon(n \div Nk))
                   ELSE w[n]
           next == WordXor(temp, w[n - Nk + 1])
<1>1. n \in 4 .. 43
  BY SMT DEF AesTypeOK, ExpandWord, WordsDone, Nk, Nb, Nr
<1>2. w' = Append(w, next)
  BY Zenon DEF ExpandWord
<1>3. n \in 1 .. n /\ n - Nk + 1 \in 1 .. n /\ n \div Nk \in 1 .. 10
  <2>1. \A m \in 4 .. 43 : m \in 1 .. m /\ m - 4 + 1 \in 1 .. m /\ m \div 4 \in 1 .. 10
    BY SMT
  <2> QED BY <1>1, <2>1, Zenon DEF Nk
<1>4. w[n] \in Word /\ w[n - Nk + 1] \in Word
  BY <1>3 DEF AesTypeOK
<1>5. temp \in Word
  BY <1>3, <1>4, ExpandedWordType
<1> HIDE DEF temp
<1>6. next \in Word
  BY <1>4, <1>5, WordXorType
<1> HIDE DEF next
<1>7. w' \in Seq(Word) /\ Len(w') = n + 1
  BY <1>2, <1>6
<1>8. \A m \in 1 .. Len(w') : w'[m] \in Word
  BY <1>7
<1>9. Len(w') \in Nk .. Nb * (Nr + 1)
  <2>1. \A m \in 4 .. 43 : m + 1 \in Nk .. Nb * (Nr + 1)
    BY SMT DEF Nk, Nb, Nr
  <2> QED BY <1>1, <1>7, <2>1, Zenon
<1> QED
  BY <1>7, <1>8, <1>9 DEF AesTypeOK, ExpandWord, cipherVars

LEMMA ReadInType ==
    ASSUME AesTypeOK, WordsDone, NEW t \in Block, ReadIn(t)
    PROVE  AesTypeOK'
<1>1. w' = w /\ aes_out' = aes_out /\ aes_in' = t /\ round' = 1 /\ aes_step' = "rounds"
  BY DEF ReadIn, expansionVars
<1>2. \A x \in Four, y \in Four : t[x + 4 * y + 1] \in Byte
  <2>1. \A x \in Four, y \in Four : x + 4 * y + 1 \in 1 .. 16
    BY SMT DEF Four
  <2> QED BY <2>1 DEF Block
<1>3. [x \in Four |-> [y \in Four |-> t[x + 4 * y + 1]]] \in Matrix
  BY <1>2 DEF Matrix
<1>4. 0 \in 0 .. Nr /\ 1 \in 0 .. Nr + 1
  BY SMT DEF Nr
<1>5. cipher_state' \in Matrix
  BY <1>3, <1>4, AddRoundKeyIs DEF ReadIn, AesTypeOK
<1> QED
  BY <1>1, <1>4, <1>5 DEF AesTypeOK, Matrix

LEMMA AesRoundIs ==
    ASSUME AesTypeOK, WordsDone, AesRound, round > 0
    PROVE  cipher_state' \in Matrix /\ Undo(cipher_state', round) = cipher_state
<1>1. round \in 1 .. Nr
  BY SMT DEF AesTypeOK, AesRound, Nr
<1>2. cipher_state \in Matrix /\ \A m \in 1 .. Len(w) : w[m] \in Word
  BY DEF AesTypeOK, Matrix
<1> QED
  BY <1>1, <1>2, RoundUndone DEF AesRound

LEMMA AesRoundType ==
    ASSUME AesTypeOK, WordsDone, AesRound
    PROVE  AesTypeOK'
<1>1. round \in 0 .. Nr /\ round' \in 0 .. Nr + 1
  BY SMT DEF AesTypeOK, AesRound, Nr
<1>2. w' = w /\ aes_out' = aes_out /\ aes_in' = aes_in /\ aes_step' = aes_step
  BY DEF AesRound, expansionVars
<1>3. cipher_state \in Matrix /\ \A m \in 1 .. Len(w) : w[m] \in Word
  BY DEF AesTypeOK, Matrix
<1>4. ShiftRows(SubBytes(cipher_state)) \in Matrix
  BY <1>3, SubBytesType, ShiftRowsType
<1>5. cipher_state' \in Matrix
  BY <1>1, <1>3, <1>4, MixColumnsType, AddRoundKeyIs DEF AesRound
<1> QED
  BY <1>1, <1>2, <1>5 DEF AesTypeOK, Matrix

LEMMA WriteOutType ==
    ASSUME AesTypeOK, WriteOut
    PROVE  AesTypeOK'
<1>1. \A n \in 1 .. 16 : (n - 1) % 4 \in Four /\ (n - 1) \div 4 \in Four
  BY SMT DEF Four
<1>2. aes_out' \in Block
  BY <1>1 DEF WriteOut, AesTypeOK, Block
<1> QED
  BY <1>2 DEF WriteOut, AesTypeOK, expansionVars

LEMMA AesStepInv ==
    ASSUME AesInv, [AesNext]_aesVars
    PROVE  AesInv'
<1> USE DEF AesInv
<1>1. CASE ExpandWord
  BY <1>1, ExpandWordType
<1>2. ASSUME WordsDone, NEW t \in Block, ReadIn(t)
      PROVE  AesInv'
  BY <1>2, ReadInType DEF ReadIn, expansionVars
<1>3. CASE WordsDone /\ AesRound
  BY <1>3, AesRoundType DEF AesRound, expansionVars
<1>4. CASE WriteOut
  BY <1>4, WriteOutType DEF WriteOut, expansionVars
<1>5. CASE ReadOn
  BY <1>5 DEF ReadOn, AesTypeOK, expansionVars
<1>6. CASE UNCHANGED aesVars
  BY <1>6 DEF aesVars, expansionVars, cipherVars, AesTypeOK
<1> QED
  BY <1>1, <1>2, <1>3, <1>4, <1>5, <1>6 DEF AesNext, AesCipher

\* A round that has been taken can be undone.
LEMMA AesUndone ==
    ASSUME AesInv, [AesNext]_aesVars
    PROVE  [round' = round + 1 /\ round > 0 => Undo(cipher_state', round) = cipher_state]_aesVars
<1> SUFFICES ASSUME round' = round + 1, round > 0
             PROVE  Undo(cipher_state', round) = cipher_state
  OBVIOUS
<1>1. round \in 1 .. 11 /\ round' # round /\ round' # 1
  <2>1. round \in 0 .. 11
    BY SMT DEF AesInv, AesTypeOK, Nr
  <2> QED BY <2>1, SMT
<1>2. WordsDone /\ AesRound
  <2>1. ~ExpandWord /\ ~WriteOut /\ ~ReadOn /\ ~UNCHANGED aesVars
    BY <1>1 DEF ExpandWord, WriteOut, ReadOn, aesVars, cipherVars
  <2>2. \A t \in Block : ~ReadIn(t)
    BY <1>1 DEF ReadIn
  <2> QED BY <2>1, <2>2 DEF AesNext, AesCipher
<1> QED
  BY <1>2, AesRoundIs DEF AesInv

LEMMA AesInvariance == AesSpec => []AesInv
<1>1. (\E k0 \in Block : AesInit(k0)) => AesInv
  BY AesInitType
<1> QED
  BY <1>1, AesStepInv, PTL DEF AesSpec

\* The variables of the core and of its schedule keep their types, for all tables
\* of bytes: no step leaves the range of a byte, and no round reads beyond the 44
\* words of the schedule (AES.cpp:5-143, main.cc:374-418).
THEOREM AesTypeCorrect == AesSpec => []AesTypeOK
<1>1. AesInv => AesTypeOK
  BY DEF AesInv
<1> QED
  BY <1>1, AesInvariance, PTL

\* Every round can be undone, whatever the key and the block are and whichever
\* two tables undo one another: no step of a round loses anything
\* (AES.cpp:36-99).
THEOREM AesInvertible == AesSpec => RoundsInvertible
<1>1. AesInv /\ [AesNext]_aesVars
         => [round' = round + 1 /\ round > 0 => Undo(cipher_state', round) = cipher_state]_aesVars
  BY AesUndone
<1> QED
  BY <1>1, AesInvariance, PTL DEF AesSpec, RoundsInvertible

-----------------------------------------------------------------------------
(* One key for both cores *)

LEMMA BitsOfType ==
    ASSUME NEW b, b \in [1 .. 8 -> Byte]
    PROVE  BitsOf(b) \in Bits(64)
<1>1. b \in Seq(Byte) /\ Len(b) = 8
  <2>1. b \in Seq(Byte)
    BY SeqDef
  <2> QED BY <2>1, SMT
<1>2. ASSUME NEW n \in 1 .. 64
      PROVE  (b[(n - 1) \div 8 + 1] \div <<128, 64, 32, 16, 8, 4, 2, 1>>[((n - 1) % 8) + 1]) % 2
                \in Bit
  <2> DEFINE m == (n - 1) \div 8 + 1
             q == ((n - 1) % 8) + 1
  <2>1. m \in 1 .. 8 /\ q \in 1 .. 8
    BY SMT
  <2> HIDE DEF m, q
  <2>2. b[m] \in Int
    BY <2>1 DEF Byte
  <2>3. <<128, 64, 32, 16, 8, 4, 2, 1>>[q] \in Nat \ {0}
    BY <2>1, SMT
  <2> DEFINE d == <<128, 64, 32, 16, 8, 4, 2, 1>>[q]
             v == b[m] \div d
  <2> HIDE DEF d
  <2>4. v \in Int
    BY <2>2, <2>3, SMT DEF d
  <2> HIDE DEF v
  <2>5. v % 2 \in Bit
    BY <2>4, SMT DEF Bit
  <2> QED BY <2>5 DEF v, d, m, q
<1>3. 8 * Len(b) = 64
  BY <1>1, SMT
<1> QED
  BY <1>2, <1>3 DEF BitsOf, Bits

\* Keys and blocks of the answers have the sizes the cores read.
LEMMA AnswerTypes ==
    /\ \A a \in Answers : a.key \in Block /\ SubSeq(a.key, 1, 8) \in [1 .. 8 -> Byte]
    /\ Asked("aes") \subseteq Block
    /\ \A t \in Asked("des") : t \in [1 .. 8 -> Byte]
<1>1. ASSUME NEW a \in Answers
      PROVE  a.key \in Block /\ SubSeq(a.key, 1, 8) \in [1 .. 8 -> Byte]
  <2>1. a.key \in Block
    BY AnswersAssumption
  <2>2. a.key \in Seq(Byte)
    BY <2>1, SeqDef DEF Block
  <2>3. Len(a.key) = 16 /\ \A n \in 1 .. 16 : a.key[n] \in Byte
    BY <2>1, <2>2, SMTT(30) DEF Block
  <2> DEFINE z == a.key
  <2> HIDE DEF z
  <2>4. SubSeq(z, 1, 8) = [n \in 1 .. 8 |-> z[n]]
    BY <2>2, <2>3, SMT DEF z
  <2>5. \A n \in 1 .. 8 : z[n] \in Byte
    BY <2>3, SMT DEF z
  <2>6. SubSeq(z, 1, 8) \in [1 .. 8 -> Byte]
    BY <2>4, <2>5
  <2> QED BY <2>1, <2>6 DEF z
<1>2. \A t \in Asked("aes") : t \in [1 .. 16 -> Byte]
  BY AnswersAssumption DEF Asked
<1>3. \A t \in Asked("des") : t \in [1 .. 8 -> Byte]
  BY AnswersAssumption DEF Asked
<1> QED
  BY <1>1, <1>2, <1>3 DEF Block

LEMMA CiphersInit ==
    ASSUME Init
    PROVE  (\E k0 \in Bits(64) : DesInit(k0)) /\ (\E k0 \in Block : AesInit(k0))
<1>1. PICK a \in Answers : input_key = a.key
  BY DEF Init
<1>2. input_key \in Block /\ BitsOf(SubSeq(input_key, 1, 8)) \in Bits(64)
  BY <1>1, AnswerTypes, BitsOfType
<1> QED
  BY <1>2 DEF Init

LEMMA CiphersStep ==
    ASSUME [Next]_vars
    PROVE  [DesNext]_desVars /\ [AesNext]_aesVars
<1>1. CASE generate_sub_keys /\ UNCHANGED <<mainVars, aesVars>>
  BY <1>1 DEF DesNext
<1>2. CASE i = 17 /\ ExpandWord /\ UNCHANGED <<mainVars, desVars>>
  BY <1>2 DEF AesNext
<1>3. CASE DesStep
  <2>1. i = 17 /\ UNCHANGED aesVars
    BY <1>3 DEF DesStep, Loaded
  <2>2. ASSUME NEW t \in Asked("des"), NEW m \in Bit, ReadBlock(BitsOf(t), m)
        PROVE  DesNext
    <3>1. BitsOf(t) \in Bits(64)
      BY AnswerTypes, BitsOfType
    <3> QED BY <2>1, <2>2, <3>1 DEF DesNext
  <2>3. CASE Answer
    BY <2>1, <2>3 DEF DesNext
  <2> QED BY <1>3, <2>1, <2>2, <2>3 DEF DesStep
<1>4. CASE AesStep
  <2>1. WordsDone /\ UNCHANGED desVars
    BY <1>4 DEF AesStep, Loaded
  <2>2. ASSUME NEW t \in Asked("aes"), ReadIn(t)
        PROVE  AesNext
    BY <2>1, <2>2, AnswerTypes DEF AesNext
  <2>3. CASE AesCipher
    BY <2>1, <2>3 DEF AesNext
  <2> QED BY <1>4, <2>1, <2>2, <2>3 DEF AesStep
<1>5. CASE UNCHANGED vars
  BY <1>5 DEF vars
<1> QED
  BY <1>1, <1>2, <1>3, <1>4, <1>5 DEF Next, Expand

\* With one key for both and a switch between them, each core does what it does
\* alone: neither disturbs the other or the other's schedule (main.cc:558-600).
THEOREM CoresApart == Spec => DesSpec /\ AesSpec
<1>1. Init => (\E k0 \in Bits(64) : DesInit(k0)) /\ (\E k0 \in Block : AesInit(k0))
  BY CiphersInit
<1>2. [Next]_vars => [DesNext]_desVars /\ [AesNext]_aesVars
  BY CiphersStep
<1> QED
  BY <1>1, <1>2, PTL DEF Spec, DesSpec, AesSpec

\* So what is proved of each core holds where both share a key: the types, the
\* mirrored halves, the inversion of des and of every round of aes
\* (main.cc:558-600 with des.cpp:250-494 and AES.cpp:36-143).
THEOREM BothKeep == Spec => []TypeOK /\ []Reversible /\ RoundsInvertible
<1>1. DesTypeOK /\ AesTypeOK => TypeOK
  BY DEF TypeOK
<1> QED
  BY <1>1, CoresApart, DesTypeCorrect, DesReverses, AesTypeCorrect, AesInvertible, PTL
=============================================================================
