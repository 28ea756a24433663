---------------------------- MODULE EgressProofs ----------------------------
(***************************************************************************)
(* Theorems about Egress, for every number of ports, every traffic and     *)
(* every depth of the FIFOs that a whole frame fits into: first those that *)
(* EInv gives, then the refinement of FrameMerge.                          *)
(***************************************************************************)
EXTENDS Egress, Integers, WellFoundedInduction, TLAPS

-----------------------------------------------------------------------------
(* The inductive invariant *)

\* A word is on the path of its source.
Sourced ==
    \A s \in Sources :
        /\ next[s].src = s
        /\ latest[s].src = s
        /\ \A i \in 1 .. Len(obuf[s]) : obuf[s][i].src = s

\* The switch is connected to a buffer that holds the end of a frame.
GrantInv == grant # None => Released(obuf[grant])

\* In network_tx_fifo a frame is followed by nothing but its own words, and a
\* frame that is not all there is the one the switch is passing on.
TxInv ==
    /\ \A i \in 1 .. Len(tx) - 1 : ~IsLast(tx[i]) => tx[i + 1].src = tx[i].src
    /\ tx # <<>> /\ ~IsLast(tx[Len(tx)]) => grant = tx[Len(tx)].src

\* The frame on the line continues at the front of network_tx_fifo, and its end
\* is in there.
LineInv == \A s \in Sources : Underway(s) => Released(tx) /\ tx[1].src = s

\* The nearer the turn of a source, the more of the others may have gone first.
TurnInv == \A s \in Sources : bypassed[s] + Distance(s) <= N - 1

EInv == TypeOK /\ Sourced /\ GrantInv /\ TxInv /\ LineInv /\ TurnInv

-----------------------------------------------------------------------------
(* Lemmas about words and FIFOs *)

LEMMA AfterWord ==
    ASSUME NEW w \in Word
    PROVE  After(w) \in Word /\ After(w).src = w.src
  BY DEF After, Word

LEMMA AppendReleased ==
    ASSUME NEW q \in Seq(Word), NEW w \in Word, Released(q)
    PROVE  Released(Append(q, w))
<1>1. PICK i \in 1 .. Len(q) : IsLast(q[i])
  BY DEF Released
<1>2. i \in 1 .. Len(Append(q, w)) /\ Append(q, w)[i] = q[i]
  OBVIOUS
<1> QED
  BY <1>1, <1>2 DEF Released

LEMMA ReleasedNonempty ==
    ASSUME NEW q \in Seq(Word), Released(q)
    PROVE  q # <<>> /\ Len(q) \in Nat /\ Len(q) >= 1 /\ Head(q) = q[1] /\ Head(q) \in Word
           /\ Tail(q) \in Seq(Word) /\ Len(Tail(q)) = Len(q) - 1
<1>1. PICK i \in 1 .. Len(q) : IsLast(q[i])
  BY DEF Released
<1>2. q # <<>> /\ Len(q) \in Nat /\ Len(q) >= 1
  BY <1>1
<1> QED
  BY <1>2

LEMMA TailReleased ==
    ASSUME NEW q \in Seq(Word), Released(q), ~IsLast(Head(q))
    PROVE  Released(Tail(q))
<1>1. PICK i \in 1 .. Len(q) : IsLast(q[i])
  BY DEF Released
<1>2. Head(q) = q[1] /\ Len(Tail(q)) = Len(q) - 1 /\ Len(q) \in Nat
  BY ReleasedNonempty
<1>3. i # 1
  BY <1>1, <1>2
<1>4. i - 1 \in 1 .. Len(Tail(q))
  BY <1>2, <1>3
<1>5. Tail(q)[i - 1] = q[i]
  BY <1>2, <1>4
<1> QED
  BY <1>1, <1>4, <1>5 DEF Released

LEMMA Ports == N \in Nat /\ N >= 1
<1>1. N \in Nat \ {0}
  BY EgressAssumption, Zenon
<1> QED BY <1>1, SMT

LEMMA Depths == None \notin Sources /\ TxDepth \in Nat /\ OutDepth \in [Sources -> Nat]
  BY EgressAssumption, Zenon

LEMMA DistanceRange ==
    ASSUME NEW s \in Sources, turn \in Sources
    PROVE  Distance(s) \in 0 .. N - 1
  BY Ports, SMT DEF Distance, Sources

-----------------------------------------------------------------------------
(* The invariant at the start *)

LEMMA EmptyWords == <<>> \in Seq(Word) /\ ~Released(<<>>)
  BY DEF Released

LEMMA InitInv == Init => EInv
<1> SUFFICES ASSUME Init PROVE EInv
  OBVIOUS
<1>1. \A s \in Sources :
         /\ next[s].src = s /\ latest[s].src = s /\ latest[s].frame = 0
         /\ obuf[s] = <<>> /\ Len(obuf[s]) = 0 /\ bypassed[s] = 0
  BY DEF Init
<1>2. N \in Sources
  BY Ports, SMT DEF Sources
<1>3. TypeOK
  <2>1. next \in [Sources -> Word] /\ latest \in [Sources -> Word]
    BY DEF Init, Word
  <2>2. obuf \in [Sources -> Seq(Word)]
    BY EmptyWords DEF Init
  <2>3. \A s \in Sources : Len(obuf[s]) <= OutDepth[s]
    <3>1. \A s \in Sources : OutDepth[s] \in Nat
      BY Depths
    <3> QED BY <1>1, <3>1, SMT
  <2>4. tx \in Seq(Word) /\ Len(tx) <= TxDepth
    BY EmptyWords, Depths DEF Init
  <2>5. bypassed \in [Sources -> Nat]
    BY DEF Init
  <2> QED BY <1>2, <2>1, <2>2, <2>3, <2>4, <2>5 DEF TypeOK, Init
<1>4. Sourced
  BY <1>1 DEF Sourced
<1>5. GrantInv /\ TxInv
  BY DEF Init, GrantInv, TxInv
<1>6. LineInv
  <2>1. \A s \in Sources : latest[s].frame = 0
    BY <1>1
  <2>2. \A s \in Sources : ~(latest[s].frame > 0)
    BY <2>1, SMT
  <2> QED BY <2>2, Zenon DEF LineInv, Underway
<1>7. TurnInv
  <2> SUFFICES ASSUME NEW s \in Sources PROVE bypassed[s] + Distance(s) <= N - 1
    BY DEF TurnInv
  <2>1. Distance(s) \in 0 .. N - 1
    BY <1>3, DistanceRange DEF TypeOK
  <2>2. bypassed[s] = 0
    BY <1>1
  <2> QED BY <2>1, <2>2, Ports, SMT
<1> QED
  BY <1>3, <1>4, <1>5, <1>6, <1>7 DEF EInv

-----------------------------------------------------------------------------
(* What a step leaves alone *)

\* The frames are fixed: which words end one does not change.
LEMMA SameLast ==
    ASSUME script' = script
    PROVE  /\ \A w : IsLast(w)' <=> IsLast(w)
           /\ \A t : Released(obuf[t])' <=> Released(obuf'[t])
           /\ Released(tx)' <=> Released(tx')
           /\ \A t : IsLast(latest[t])' <=> IsLast(latest'[t])
           /\ \A i : IsLast(tx[i])' <=> IsLast(tx'[i])
  BY DEF IsLast, Released

LEMMA TxWords ==
    ASSUME TypeOK
    PROVE  /\ tx \in Seq(Word)
           /\ \A i \in 1 .. Len(tx) : tx[i] \in Word /\ tx[i].src \in Sources /\ tx[i].src # None
<1>1. tx \in Seq(Word)
  BY DEF TypeOK
<1>2. \A w \in Word : w.src \in Sources
  BY DEF Word
<1>3. \A i \in 1 .. Len(tx) : tx[i] \in Word
  BY <1>1
<1> QED BY <1>1, <1>2, <1>3, Depths, Zenon

LEMMA GrantKept ==
    ASSUME GrantInv, script' = script, grant' = grant,
           grant # None => (Released(obuf[grant]) => Released(obuf'[grant]))
    PROVE  GrantInv'
  BY SameLast DEF GrantInv

LEMMA TxKept ==
    ASSUME TxInv, UNCHANGED <<script, tx>>,
           grant' = grant \/ grant = None,
           tx \in Seq(Word), \A i \in 1 .. Len(tx) : tx[i].src # None
    PROVE  TxInv'
<1>1. \A i \in 1 .. Len(tx)' - 1 : ~IsLast(tx[i])' => tx'[i + 1].src = tx'[i].src
  BY SameLast DEF TxInv
<1>2. ASSUME tx' # <<>>, ~IsLast(tx[Len(tx)])'
      PROVE  grant' = tx'[Len(tx)'].src
  <2>1. tx # <<>> /\ ~IsLast(tx[Len(tx)]) /\ Len(tx) \in 1 .. Len(tx)
    BY <1>2, SameLast
  <2>2. grant = tx[Len(tx)].src
    BY <2>1 DEF TxInv
  <2> QED BY <2>1, <2>2
<1> QED BY <1>1, <1>2 DEF TxInv

LEMMA LineKept ==
    ASSUME LineInv, UNCHANGED <<script, latest>>,
           Released(tx) => Released(tx') /\ tx'[1] = tx[1]
    PROVE  LineInv'
<1> SUFFICES ASSUME NEW s \in Sources, Underway(s)'
             PROVE  Released(tx)' /\ tx'[1].src = s
  BY DEF LineInv
<1>1. Underway(s)
  BY SameLast DEF Underway
<1> QED BY <1>1, SameLast DEF LineInv

LEMMA TurnKept ==
    ASSUME TurnInv, UNCHANGED <<turn, bypassed>>
    PROVE  TurnInv'
  BY DEF TurnInv, Distance

-----------------------------------------------------------------------------
(* The steps *)

LEMMA WriteStep ==
    ASSUME EInv, NEW s \in Sources, Write(s)
    PROVE  EInv'
<1>1. /\ script' = script /\ UNCHANGED <<grant, turn, tx, latest, bypassed>>
      /\ obuf' = [obuf EXCEPT ![s] = Append(obuf[s], next[s])]
      /\ next' = [next EXCEPT ![s] = After(next[s])]
      /\ Len(obuf[s]) < OutDepth[s]
  BY DEF Write, CanWrite, HasRoom
<1>2. /\ TypeOK /\ Sourced /\ GrantInv /\ TxInv /\ LineInv /\ TurnInv
      /\ obuf \in [Sources -> Seq(Word)] /\ next \in [Sources -> Word]
  BY DEF EInv, TypeOK
<1>3. obuf[s] \in Seq(Word) /\ next[s] \in Word
  BY <1>2
<1>4. TypeOK'
  <2>1. obuf' \in [Sources -> Seq(Word)] /\ next' \in [Sources -> Word]
    BY <1>1, <1>2, <1>3, AfterWord
  <2>2. \A t \in Sources : Len(obuf'[t]) <= OutDepth[t]
    <3>1. Len(Append(obuf[s], next[s])) = Len(obuf[s]) + 1 /\ Len(obuf[s]) \in Nat
      BY <1>3
    <3>2. OutDepth[s] \in Nat
      BY Depths
    <3>3. Len(Append(obuf[s], next[s])) <= OutDepth[s]
      BY <1>1, <3>1, <3>2, SMT
    <3> QED BY <1>1, <1>2, <3>3 DEF TypeOK
  <2> QED BY <1>1, <1>2, <2>1, <2>2 DEF TypeOK
<1>5. Sourced'
  <2>1. \A t \in Sources : next'[t].src = t /\ latest'[t].src = t
    BY <1>1, <1>2, <1>3, AfterWord DEF Sourced
  <2>2. ASSUME NEW t \in Sources, NEW i \in 1 .. Len(obuf'[t])
        PROVE  obuf'[t][i].src = t
    BY <1>1, <1>2, <1>3, <2>2 DEF Sourced
  <2> QED BY <2>1, <2>2 DEF Sourced
<1>6. GrantInv'
  <2>1. grant # None => (Released(obuf[grant]) => Released(obuf'[grant]))
    <3> SUFFICES ASSUME grant # None, Released(obuf[grant])
                 PROVE  Released(obuf'[grant])
      OBVIOUS
    <3>1. grant \in Sources
      BY <1>2 DEF TypeOK
    <3>2. CASE grant = s
      <4>1. Released(Append(obuf[s], next[s]))
        BY <1>3, <3>2, AppendReleased
      <4> QED BY <1>1, <1>2, <3>2, <4>1
    <3>3. CASE grant # s
      BY <1>1, <1>2, <3>1, <3>3
    <3> QED BY <3>2, <3>3
  <2> QED BY <1>1, <1>2, <2>1, GrantKept
<1>7. TxInv'
  <2>1. tx \in Seq(Word) /\ \A i \in 1 .. Len(tx) : tx[i].src # None
    BY <1>2, TxWords
  <2> QED BY <1>1, <1>2, <2>1, TxKept
<1>8. LineInv' /\ TurnInv'
  BY <1>1, <1>2, LineKept, TurnKept
<1> QED BY <1>4, <1>5, <1>6, <1>7, <1>8 DEF EInv

\* The source that is connected has no other before it: every other with a frame
\* comes one turn nearer at least, and N - 1 of them can pass it at most.
LEMMA TurnStep ==
    ASSUME TypeOK, TurnInv, NEW s \in Sources, Arbitrate(s)
    PROVE  TurnInv' /\ bypassed' \in [Sources -> Nat]
<1>1. /\ turn' = s /\ turn \in Sources /\ bypassed \in [Sources -> Nat]
      /\ bypassed' = [t \in Sources |->
                        IF t # s /\ Released(obuf[t]) THEN bypassed[t] + 1 ELSE 0]
      /\ \A t \in Sources : Released(obuf[t]) => Distance(s) <= Distance(t)
  BY DEF Arbitrate, CanArbitrate, FirstInTurn, TypeOK
<1>2. bypassed' \in [Sources -> Nat]
  BY <1>1
<1>3. ASSUME NEW t \in Sources
      PROVE  bypassed'[t] + Distance(t)' <= N - 1
  <2>1. Distance(t)' \in 0 .. N - 1
    BY <1>1, Ports, SMT DEF Distance, Sources
  <2>2. CASE t # s /\ Released(obuf[t])
    <3>1. bypassed'[t] = bypassed[t] + 1
      BY <1>1, <2>2
    <3>2. bypassed[t] + Distance(t) <= N - 1 /\ bypassed[t] \in Nat
      BY <1>1 DEF TurnInv
    <3>3. Distance(s) <= Distance(t)
      BY <1>1, <2>2
    <3>4. Distance(t)' + 1 <= Distance(t)
      BY <1>1, <2>2, <3>3, Ports, SMT DEF Distance, Sources
    <3>5. Distance(t) \in Int /\ Distance(t)' \in Int
      BY <1>1, <2>1, DistanceRange
    <3> QED BY <3>1, <3>2, <3>4, <3>5, Ports, SMT
  <2>3. CASE ~(t # s /\ Released(obuf[t]))
    <3>1. bypassed'[t] = 0
      BY <1>1, <2>3
    <3> QED BY <2>1, <3>1, Ports, SMT
  <2> QED BY <2>2, <2>3
<1> QED BY <1>2, <1>3 DEF TurnInv

LEMMA ArbitrateStep ==
    ASSUME EInv, NEW s \in Sources, Arbitrate(s)
    PROVE  EInv'
<1>1. /\ UNCHANGED <<script, next, obuf, tx, latest>>
      /\ grant = None /\ grant' = s /\ turn' = s /\ Released(obuf[s])
  BY DEF Arbitrate, CanArbitrate
<1>2. TypeOK /\ Sourced /\ GrantInv /\ TxInv /\ LineInv /\ TurnInv
  BY DEF EInv
<1>3. TurnInv' /\ bypassed' \in [Sources -> Nat]
  BY <1>2, TurnStep
<1>4. TypeOK'
  BY <1>1, <1>2, <1>3 DEF TypeOK
<1>5. Sourced'
  BY <1>1, <1>2 DEF Sourced
<1>6. GrantInv'
  BY <1>1, SameLast DEF GrantInv
<1>7. TxInv'
  BY <1>1, <1>2, TxWords, TxKept
<1>8. LineInv'
  BY <1>1, <1>2, LineKept
<1> QED BY <1>3, <1>4, <1>5, <1>6, <1>7, <1>8 DEF EInv

LEMMA TransferStep ==
    ASSUME EInv, NEW s \in Sources, Transfer(s)
    PROVE  EInv'
<1> DEFINE w == Head(obuf[s])
<1>1. /\ UNCHANGED <<script, next, turn, latest, bypassed>>
      /\ grant = s /\ Released(obuf[s]) /\ Len(tx) < TxDepth
      /\ tx' = Append(tx, w)
      /\ obuf' = [obuf EXCEPT ![s] = Tail(obuf[s])]
      /\ grant' = IF IsLast(w) THEN None ELSE grant
  BY DEF Transfer, CanTransfer, HasRoom, AfterTransfer
<1>2. /\ TypeOK /\ Sourced /\ GrantInv /\ TxInv /\ LineInv /\ TurnInv
      /\ obuf \in [Sources -> Seq(Word)] /\ tx \in Seq(Word)
  BY DEF EInv, TypeOK
<1>3. obuf[s] \in Seq(Word)
  BY <1>2
<1>4. /\ w = obuf[s][1] /\ w \in Word /\ Len(obuf[s]) \in Nat /\ Len(obuf[s]) >= 1
      /\ Tail(obuf[s]) \in Seq(Word) /\ Len(Tail(obuf[s])) = Len(obuf[s]) - 1
  BY <1>1, <1>3, ReleasedNonempty
<1>5. w.src = s
  BY <1>2, <1>4 DEF Sourced
<1> HIDE DEF w
<1>6. /\ tx' \in Seq(Word) /\ Len(tx') = Len(tx) + 1 /\ Len(tx) \in Nat
      /\ tx'[Len(tx) + 1] = w /\ \A i \in 1 .. Len(tx) : tx'[i] = tx[i]
  BY <1>1, <1>2, <1>4
<1>7. TypeOK'
  <2>1. obuf' \in [Sources -> Seq(Word)]
    BY <1>1, <1>2, <1>4
  <2>2. \A t \in Sources : Len(obuf'[t]) <= OutDepth[t]
    <3>1. Len(obuf[s]) <= OutDepth[s] /\ OutDepth[s] \in Nat
      BY <1>2, Depths DEF TypeOK
    <3>2. Len(Tail(obuf[s])) <= OutDepth[s]
      BY <1>4, <3>1, SMT
    <3> QED BY <1>1, <1>2, <3>2 DEF TypeOK
  <2>3. Len(tx') <= TxDepth
    BY <1>1, <1>6, Depths, SMT
  <2>4. grant' \in Sources \cup {None}
    BY <1>1
  <2> QED BY <1>1, <1>2, <1>6, <2>1, <2>2, <2>3, <2>4 DEF TypeOK
<1>8. Sourced'
  <2>1. ASSUME NEW t \in Sources, NEW i \in 1 .. Len(obuf'[t])
        PROVE  obuf'[t][i].src = t
    <3>1. CASE t = s
      <4>1. obuf'[t] = Tail(obuf[s])
        BY <1>1, <1>2, <3>1
      <4>2. i + 1 \in 1 .. Len(obuf[s]) /\ Tail(obuf[s])[i] = obuf[s][i + 1]
        BY <1>3, <1>4, <2>1, <4>1
      <4> QED BY <1>2, <3>1, <4>1, <4>2 DEF Sourced
    <3>2. CASE t # s
      BY <1>1, <1>2, <2>1, <3>2 DEF Sourced
    <3> QED BY <3>1, <3>2
  <2> QED BY <1>1, <1>2, <2>1 DEF Sourced
<1>9. GrantInv'
  <2> SUFFICES ASSUME grant' # None PROVE Released(obuf[grant])'
    BY DEF GrantInv
  <2>1. grant' = s /\ ~IsLast(w)
    BY <1>1
  <2>2. Released(Tail(obuf[s]))
    BY <1>1, <1>3, <2>1, TailReleased DEF w
  <2>3. obuf'[s] = Tail(obuf[s])
    BY <1>1, <1>2
  <2> QED BY <1>1, <2>1, <2>2, <2>3, SameLast
<1>10. TxInv'
  <2>1. ASSUME NEW i \in 1 .. Len(tx') - 1, ~IsLast(tx'[i])
        PROVE  tx'[i + 1].src = tx'[i].src
    <3>1. CASE i = Len(tx)
      <4>1. tx # <<>> /\ ~IsLast(tx[Len(tx)]) /\ tx'[i] = tx[Len(tx)]
        BY <1>2, <1>6, <2>1, <3>1
      <4>2. grant = tx[Len(tx)].src
        BY <1>2, <4>1 DEF TxInv
      <4> QED BY <1>1, <1>5, <1>6, <3>1, <4>1, <4>2
    <3>2. CASE i # Len(tx)
      <4>1. i \in 1 .. Len(tx) - 1 /\ i \in 1 .. Len(tx) /\ i + 1 \in 1 .. Len(tx)
        BY <1>6, <3>2, SMT
      <4>2. tx'[i] = tx[i] /\ tx'[i + 1] = tx[i + 1]
        BY <1>6, <4>1
      <4> QED BY <1>2, <2>1, <4>1, <4>2 DEF TxInv
    <3> QED BY <3>1, <3>2
  <2>2. ~IsLast(tx'[Len(tx')]) => grant' = tx'[Len(tx')].src
    BY <1>1, <1>5, <1>6
  <2>3. script' = script
    BY <1>1
  <2>4. \A i \in 1 .. Len(tx)' - 1 : ~IsLast(tx[i])' => tx'[i + 1].src = tx'[i].src
    BY <2>1, <2>3, SameLast
  <2>5. ~IsLast(tx[Len(tx)])' => grant' = tx'[Len(tx)'].src
    BY <2>2, <2>3, SameLast
  <2> QED BY <2>4, <2>5 DEF TxInv
<1>11. LineInv'
  <2>1. ASSUME Released(tx) PROVE Released(tx') /\ tx'[1] = tx[1]
    <3>1. Released(Append(tx, w))
      BY <1>2, <1>4, <2>1, AppendReleased
    <3>2. 1 \in 1 .. Len(tx)
      BY <1>2, <2>1, ReleasedNonempty
    <3> QED BY <1>1, <1>6, <3>1, <3>2
  <2> QED BY <1>1, <1>2, <2>1, LineKept
<1>12. TurnInv'
  BY <1>1, <1>2, TurnKept
<1> QED BY <1>7, <1>8, <1>9, <1>10, <1>11, <1>12 DEF EInv

LEMMA MacReadStep ==
    ASSUME EInv, MacRead
    PROVE  EInv'
<1> DEFINE w == Head(tx)
<1>1. /\ UNCHANGED <<script, next, obuf, grant, turn, bypassed>>
      /\ Released(tx)
      /\ tx' = Tail(tx)
      /\ latest' = [latest EXCEPT ![w.src] = w]
  BY DEF MacRead
<1>2. /\ TypeOK /\ Sourced /\ GrantInv /\ TxInv /\ LineInv /\ TurnInv
      /\ tx \in Seq(Word) /\ latest \in [Sources -> Word]
  BY DEF EInv, TypeOK
<1>3. /\ w = tx[1] /\ w \in Word /\ Len(tx) \in Nat /\ Len(tx) >= 1
      /\ Tail(tx) \in Seq(Word) /\ Len(Tail(tx)) = Len(tx) - 1
  BY <1>1, <1>2, ReleasedNonempty
<1>4. w.src \in Sources
  BY <1>3 DEF Word
<1>5. \A i \in 1 .. Len(tx) - 1 : i + 1 \in 1 .. Len(tx) /\ Tail(tx)[i] = tx[i + 1]
  BY <1>2, <1>3
<1> HIDE DEF w
<1>6. TypeOK'
  <2>1. Len(tx') <= TxDepth
    BY <1>1, <1>2, <1>3, Depths, SMT DEF TypeOK
  <2>2. latest' \in [Sources -> Word]
    BY <1>1, <1>2, <1>3, <1>4
  <2> QED BY <1>1, <1>2, <1>3, <2>1, <2>2 DEF TypeOK
<1>7. Sourced'
  <2>1. \A t \in Sources : latest'[t].src = t
    BY <1>1, <1>2, <1>4 DEF Sourced
  <2> QED BY <1>1, <1>2, <2>1 DEF Sourced
<1>8. GrantInv' /\ TurnInv'
  BY <1>1, <1>2, GrantKept, TurnKept
<1>9. TxInv'
  <2>1. ASSUME NEW i \in 1 .. Len(tx') - 1, ~IsLast(tx'[i])
        PROVE  tx'[i + 1].src = tx'[i].src
    <3>1. i + 1 \in 1 .. Len(tx) - 1 /\ i \in 1 .. Len(tx) - 1
      BY <1>1, <1>3, SMT
    <3>2. tx'[i] = tx[i + 1] /\ tx'[i + 1] = tx[i + 1 + 1]
      BY <1>1, <1>5, <3>1
    <3> QED BY <1>2, <2>1, <3>1, <3>2 DEF TxInv
  <2>2. ASSUME tx' # <<>>, ~IsLast(tx'[Len(tx')])
        PROVE  grant' = tx'[Len(tx')].src
    <3>1. Len(tx') \in 1 .. Len(tx) - 1 /\ Len(tx') + 1 = Len(tx) /\ tx # <<>>
      BY <1>1, <1>2, <1>3, <2>2
    <3>2. tx'[Len(tx')] = tx[Len(tx)]
      BY <1>1, <1>5, <3>1
    <3> QED BY <1>1, <1>2, <2>2, <3>1, <3>2 DEF TxInv
  <2>3. script' = script
    BY <1>1
  <2>4. \A i \in 1 .. Len(tx)' - 1 : ~IsLast(tx[i])' => tx'[i + 1].src = tx'[i].src
    BY <2>1, <2>3, SameLast
  <2>5. tx' # <<>> /\ ~IsLast(tx[Len(tx)])' => grant' = tx'[Len(tx)'].src
    BY <2>2, <2>3, SameLast
  <2> QED BY <2>4, <2>5 DEF TxInv
<1>10. LineInv'
  <2> SUFFICES ASSUME NEW t \in Sources, Underway(t)'
               PROVE  Released(tx)' /\ tx'[1].src = t
    BY DEF LineInv
  <2>1. latest'[t].frame > 0 /\ ~IsLast(latest'[t])
    BY <1>1, SameLast DEF Underway
  <2>2. t = w.src
    <3> SUFFICES ASSUME t # w.src PROVE FALSE
      OBVIOUS
    <3>1. latest'[t] = latest[t]
      BY <1>1, <1>2
    <3>2. Underway(t)
      BY <2>1, <3>1 DEF Underway
    <3> QED BY <1>2, <1>3, <3>2 DEF LineInv
  <2>3. ~IsLast(w)
    BY <1>1, <1>2, <2>1, <2>2
  <2>4. Released(Tail(tx))
    BY <1>1, <1>2, <2>3, TailReleased DEF w
  <2>5. 1 \in 1 .. Len(tx) - 1
    <3>1. Len(Tail(tx)) >= 1
      BY <1>3, <2>4, ReleasedNonempty
    <3> QED BY <1>3, <3>1, SMT
  <2>6. tx[1 + 1].src = tx[1].src
    BY <1>2, <1>3, <2>3, <2>5 DEF TxInv
  <2>7. tx'[1] = tx[1 + 1]
    BY <1>1, <1>5, <2>5
  <2> QED BY <1>1, <1>3, <2>2, <2>4, <2>6, <2>7, SameLast
<1> QED BY <1>6, <1>7, <1>8, <1>9, <1>10 DEF EInv

LEMMA StepInv == EInv /\ [Next]_vars => EInv'
<1> SUFFICES ASSUME EInv, [Next]_vars PROVE EInv'
  OBVIOUS
<1>1. CASE \E s \in Sources : Write(s)
  BY <1>1, WriteStep
<1>2. CASE Switch
  BY <1>2, ArbitrateStep, TransferStep DEF Switch
<1>3. CASE MacRead
  BY <1>3, MacReadStep
<1>4. CASE UNCHANGED vars
  BY <1>4 DEF vars, EInv, TypeOK, Sourced, GrantInv, TxInv, LineInv, TurnInv,
              Released, IsLast, Underway, Distance
<1> QED
  BY <1>1, <1>2, <1>3, <1>4 DEF Next

LEMMA Invariance == Spec => []EInv
<1> QED
  BY InitInv, StepInv, PTL DEF Spec, Safety

\* The variables keep their types and no FIFO holds more than its depth.
THEOREM TypeCorrectness == Spec => []TypeOK
<1>1. EInv => TypeOK
  BY DEF EInv
<1> QED
  BY <1>1, Invariance, PTL

\* A frame that has begun is never waited for, on the switch or on the line,
\* however slow the cores are.
THEOREM FramesNeverStall == Spec => []NeverStalls
<1>1. EInv => NeverStalls
  BY DEF EInv, NeverStalls, GrantInv, LineInv
<1> QED
  BY <1>1, Invariance, PTL

\* A buffer with a whole frame is passed over N - 1 times at most, whatever the
\* others send.
THEOREM NoStarvation == Spec => []BoundedBypass
<1>1. ASSUME EInv PROVE BoundedBypass
  <2> SUFFICES ASSUME NEW s \in Sources PROVE bypassed[s] <= N - 1
    BY DEF BoundedBypass
  <2>1. bypassed[s] + Distance(s) <= N - 1 /\ bypassed[s] \in Nat
    BY <1>1 DEF EInv, TurnInv, TypeOK
  <2>2. Distance(s) \in 0 .. N - 1
    BY <1>1, DistanceRange DEF EInv, TypeOK
  <2> QED BY <2>1, <2>2, Ports, SMT
<1> QED
  BY <1>1, Invariance, PTL

-----------------------------------------------------------------------------
(***************************************************************************)
(* Egress implements FrameMerge: what the MAC reads is one whole frame at  *)
(* a time and each core's frames in their order.  The inductive invariant: *)
(***************************************************************************)

\* A word of a frame that some core has to send.
Valid(w) ==
    /\ w.frame >= 1 /\ w.frame <= Len(script[w.src])
    /\ w.pos >= 1 /\ w.pos <= script[w.src][w.frame]

ValidInv ==
    /\ \A s \in Sources :
          /\ next[s].frame >= 1
          /\ next[s].frame <= Len(script[s]) => Valid(next[s])
          /\ latest[s].frame = 0 \/ Valid(latest[s])
          /\ \A i \in 1 .. Len(obuf[s]) : Valid(obuf[s][i])
    /\ \A i \in 1 .. Len(tx) : Valid(tx[i])

\* The word that follows what the MAC has read last.
Follow(w) == IF w.frame = 0 THEN [src |-> w.src, frame |-> 1, pos |-> 1] ELSE After(w)

\* The word of s that enters network_tx_fifo next.
Upcoming(s) == IF obuf[s] = <<>> THEN next[s] ELSE obuf[s][1]

\* An output buffer is a run of consecutive words that ends at the core.
BufferInOrder ==
    \A s \in Sources : \A i \in 1 .. Len(obuf[s]) :
        (IF i < Len(obuf[s]) THEN obuf[s][i + 1] ELSE next[s]) = After(obuf[s][i])

\* No word of s is at the places from i to j of network_tx_fifo.
Without(s, i, j) == \A m \in i .. j : tx[m].src # s

\* The words of a source in network_tx_fifo are consecutive, the first follows
\* what the MAC has read and the last is followed by the output buffer.
TxInOrder ==
    /\ \A i, j \in 1 .. Len(tx) :
          i < j /\ tx[j].src = tx[i].src /\ Without(tx[i].src, i + 1, j - 1)
             => tx[j] = After(tx[i])
    /\ \A i \in 1 .. Len(tx) :
          Without(tx[i].src, i + 1, Len(tx)) => Upcoming(tx[i].src) = After(tx[i])
    /\ \A i \in 1 .. Len(tx) :
          Without(tx[i].src, 1, i - 1) => tx[i] = Follow(latest[tx[i].src])
    /\ \A s \in Sources :
          Without(s, 1, Len(tx)) => Upcoming(s) = Follow(latest[s])

RInv == EInv /\ ValidInv /\ BufferInOrder /\ TxInOrder

-----------------------------------------------------------------------------
(* Lemmas *)

LEMMA ScriptsOK ==
    ASSUME NEW t \in Scripts, NEW s \in Sources
    PROVE  /\ t[s] \in Seq(Nat)
           /\ Len(t[s]) \in Nat
           /\ \A f \in 1 .. Len(t[s]) : t[s][f] \in Nat /\ t[s][f] >= 1
<1>1. t \in [Sources -> Seq(Nat)]
  BY EgressAssumption, Zenon
<1>2. t[s] \in Seq(Nat)
  BY <1>1
<1>3. \A f \in 1 .. Len(t[s]) : t[s][f] \in 1 .. OutDepth[s]
  BY EgressAssumption, Zenon
<1>4. OutDepth[s] \in Nat
  BY Depths
<1> QED BY <1>2, <1>3, <1>4, SMT

LEMMA WordFields ==
    ASSUME NEW w \in Word
    PROVE  w.src \in Sources /\ w.frame \in Nat /\ w.pos \in Nat
  BY DEF Word

\* What follows a word that is valid is valid, or past the last frame.
LEMMA AfterValid ==
    ASSUME script \in Scripts, NEW w \in Word, Valid(w)
    PROVE  /\ After(w).frame >= 1
           /\ After(w).frame <= Len(script[w.src]) => Valid(After(w))
<1> DEFINE a == script[w.src]
<1>1. w.src \in Sources /\ w.frame \in Nat /\ w.pos \in Nat
  BY WordFields
<1>2. Len(a) \in Nat /\ \A f \in 1 .. Len(a) : a[f] \in Nat /\ a[f] >= 1
  BY <1>1, ScriptsOK
<1>3. /\ w.frame >= 1 /\ w.frame <= Len(a)
      /\ w.pos >= 1 /\ w.pos <= a[w.frame]
      /\ IsLast(w) <=> w.pos = a[w.frame]
  BY DEF Valid, IsLast
<1>4. a[w.frame] \in Nat
  BY <1>1, <1>2, <1>3
<1>5. CASE IsLast(w)
  <2>1. After(w).src = w.src /\ After(w).frame = w.frame + 1 /\ After(w).pos = 1
    BY <1>5 DEF After
  <2>2. w.frame + 1 <= Len(a) => w.frame + 1 \in 1 .. Len(a)
    BY <1>1, <1>2, SMT
  <2>3. w.frame + 1 <= Len(a) => a[w.frame + 1] >= 1
    BY <1>2, <2>2
  <2>4. w.frame + 1 >= 1
    BY <1>1, SMT
  <2> QED BY <2>1, <2>3, <2>4, SMT DEF Valid
<1>6. CASE ~IsLast(w)
  <2>1. After(w).src = w.src /\ After(w).frame = w.frame /\ After(w).pos = w.pos + 1
    BY <1>6 DEF After
  <2>2. w.pos + 1 >= 1 /\ w.pos + 1 <= a[w.frame]
    BY <1>1, <1>3, <1>4, <1>6, SMT
  <2> QED BY <1>3, <2>1, <2>2 DEF Valid
<1> QED BY <1>5, <1>6

LEMMA LongerThanOne ==
    ASSUME NEW n \in Nat, n >= 1, n # 1
    PROVE  1 \in 1 .. n - 1 /\ 1 < n /\ n - 1 # 0
  BY SMT

LEMMA EmptyIfZero ==
    ASSUME NEW q \in Seq(Word)
    PROVE  Len(q) = 0 <=> q = <<>>
  OBVIOUS

\* The frames are fixed.
LEMMA SameWords ==
    ASSUME script' = script
    PROVE  /\ \A w : Valid(w)' <=> Valid(w)
           /\ \A w : After(w)' = After(w)
           /\ \A w : Follow(w)' = Follow(w)
  BY DEF Valid, After, Follow, IsLast

LEMMA TxOrderKept ==
    ASSUME TypeOK, TxInOrder, UNCHANGED <<script, tx, latest>>,
           \A s \in Sources : Upcoming(s)' = Upcoming(s)
    PROVE  TxInOrder'
<1>1. \A i \in 1 .. Len(tx) : tx[i].src \in Sources
  BY TxWords
<1>2. \A s, i, j : Without(s, i, j)' <=> Without(s, i, j)
  BY DEF Without
<1> QED BY <1>1, <1>2, SameWords DEF TxInOrder

-----------------------------------------------------------------------------
(* The invariant at the start and in the steps *)

LEMMA InitRInv == Init => RInv
<1> SUFFICES ASSUME Init PROVE RInv
  OBVIOUS
<1>1. EInv
  BY InitInv
<1>2. /\ tx = <<>> /\ Len(tx) = 0
      /\ \A s \in Sources :
            /\ next[s].src = s /\ next[s].frame = 1 /\ next[s].pos = 1
            /\ latest[s].src = s /\ latest[s].frame = 0
            /\ obuf[s] = <<>> /\ Len(obuf[s]) = 0
  BY DEF Init
<1>3. ValidInv
  <2>1. ASSUME NEW s \in Sources, next[s].frame <= Len(script[s])
        PROVE  Valid(next[s])
    <3>1. 1 \in 1 .. Len(script[s]) /\ Len(script[s]) \in Nat
      BY <1>2, <2>1, ScriptsOK DEF Init
    <3>2. script[s][1] >= 1
      BY <3>1, ScriptsOK DEF Init
    <3>3. Len(script[s]) >= 1
      BY <3>1, SMT
    <3> QED BY <1>2, <3>2, <3>3, SMT DEF Valid
  <2>2. \A s \in Sources : next[s].frame >= 1
    BY <1>2, SMT
  <2>3. \A n : n \notin 1 .. 0
    BY SMT
  <2> QED BY <1>2, <2>1, <2>2, <2>3, Zenon DEF ValidInv
<1>4. BufferInOrder
  <2>1. \A n : n \notin 1 .. 0
    BY SMT
  <2> QED BY <1>2, <2>1, Zenon DEF BufferInOrder
<1>5. TxInOrder
  <2>1. \A s \in Sources : Upcoming(s) = Follow(latest[s])
    BY DEF Init, Upcoming, Follow
  <2> QED BY <1>2, <2>1, SMT DEF TxInOrder
<1> QED BY <1>1, <1>3, <1>4, <1>5 DEF RInv

\* What the steps do to the buffers' first words.
LEMMA WriteUpcoming ==
    ASSUME TypeOK, NEW s \in Sources, Write(s)
    PROVE  \A t \in Sources : Upcoming(t)' = Upcoming(t)
<1>1. /\ obuf' = [obuf EXCEPT ![s] = Append(obuf[s], next[s])]
      /\ next' = [next EXCEPT ![s] = After(next[s])]
      /\ obuf \in [Sources -> Seq(Word)] /\ next \in [Sources -> Word]
  BY DEF Write, TypeOK
<1>2. /\ obuf[s] \in Seq(Word) /\ next[s] \in Word /\ Len(obuf[s]) \in Nat
      /\ obuf'[s] = Append(obuf[s], next[s])
      /\ \A t \in Sources \ {s} : obuf'[t] = obuf[t] /\ next'[t] = next[t]
  BY <1>1
<1>3. Upcoming(s)' = Upcoming(s)
  <2>1. CASE obuf[s] = <<>>
    BY <1>2, <2>1 DEF Upcoming
  <2>2. CASE obuf[s] # <<>>
    <3>1. 1 \in 1 .. Len(obuf[s])
      BY <1>2, <2>2
    <3>2. obuf'[s] # <<>> /\ obuf'[s][1] = obuf[s][1]
      BY <1>2, <3>1
    <3> QED BY <2>2, <3>2 DEF Upcoming
  <2> QED BY <2>1, <2>2
<1> QED BY <1>2, <1>3 DEF Upcoming

LEMMA WriteRInv ==
    ASSUME RInv, NEW s \in Sources, Write(s)
    PROVE  ValidInv' /\ BufferInOrder' /\ TxInOrder'
<1>1. /\ script' = script /\ UNCHANGED <<tx, latest>>
      /\ next[s].frame <= Len(script[s])
      /\ obuf' = [obuf EXCEPT ![s] = Append(obuf[s], next[s])]
      /\ next' = [next EXCEPT ![s] = After(next[s])]
  BY DEF Write, CanWrite
<1>2. /\ TypeOK /\ Sourced /\ ValidInv /\ BufferInOrder /\ TxInOrder
      /\ obuf \in [Sources -> Seq(Word)] /\ next \in [Sources -> Word]
      /\ script \in Scripts
  BY DEF RInv, EInv, TypeOK
<1>3. /\ obuf[s] \in Seq(Word) /\ next[s] \in Word /\ next[s].src = s
      /\ Valid(next[s]) /\ Len(obuf[s]) \in Nat
  BY <1>1, <1>2 DEF Sourced, ValidInv
<1>4. /\ obuf'[s] = Append(obuf[s], next[s]) /\ next'[s] = After(next[s])
      /\ \A t \in Sources \ {s} : obuf'[t] = obuf[t] /\ next'[t] = next[t]
      /\ Len(obuf'[s]) = Len(obuf[s]) + 1
      /\ obuf'[s][Len(obuf[s]) + 1] = next[s]
      /\ \A i \in 1 .. Len(obuf[s]) : obuf'[s][i] = obuf[s][i]
  BY <1>1, <1>2, <1>3
<1>5. ValidInv'
  <2>1. /\ After(next[s]).frame >= 1
        /\ After(next[s]).frame <= Len(script[s]) => Valid(After(next[s]))
    BY <1>2, <1>3, AfterValid
  <2>2. ASSUME NEW t \in Sources
        PROVE  /\ next'[t].frame >= 1
               /\ next'[t].frame <= Len(script[t]) => Valid(next'[t])
    BY <1>2, <1>4, <2>1 DEF ValidInv
  <2>3. ASSUME NEW t \in Sources, NEW i \in 1 .. Len(obuf'[t])
        PROVE  Valid(obuf'[t][i])
    <3>1. CASE t # s
      BY <1>2, <1>4, <2>3, <3>1 DEF ValidInv
    <3>2. CASE t = s /\ i = Len(obuf[s]) + 1
      BY <1>3, <1>4, <3>2
    <3>3. CASE t = s /\ i # Len(obuf[s]) + 1
      <4>1. i \in 1 .. Len(obuf[s])
        BY <1>3, <1>4, <3>3
      <4> QED BY <1>2, <1>4, <3>3, <4>1 DEF ValidInv
    <3> QED BY <3>1, <3>2, <3>3
  <2> QED BY <1>1, <1>2, <2>2, <2>3, SameWords DEF ValidInv
<1>6. BufferInOrder'
  <2> SUFFICES ASSUME NEW t \in Sources, NEW i \in 1 .. Len(obuf'[t])
               PROVE  (IF i < Len(obuf'[t]) THEN obuf'[t][i + 1] ELSE next'[t])
                        = After(obuf'[t][i])
    BY <1>1, SameWords DEF BufferInOrder
  <2>1. CASE t # s
    BY <1>2, <1>4, <2>1 DEF BufferInOrder
  <2>2. CASE t = s /\ i = Len(obuf[s]) + 1
    BY <1>3, <1>4, <2>2
  <2>3. CASE t = s /\ i # Len(obuf[s]) + 1
    <3>1. i \in 1 .. Len(obuf[s]) /\ i < Len(obuf'[s])
      BY <1>3, <1>4, <2>3
    <3>2. obuf'[s][i] = obuf[s][i]
      BY <1>4, <3>1
    <3>3. obuf'[s][i + 1] = IF i < Len(obuf[s]) THEN obuf[s][i + 1] ELSE next[s]
      BY <1>3, <1>4, <3>1
    <3> QED BY <1>2, <2>3, <3>1, <3>2, <3>3 DEF BufferInOrder
  <2> QED BY <2>1, <2>2, <2>3
<1>7. TxInOrder'
  <2>1. \A t \in Sources : Upcoming(t)' = Upcoming(t)
    BY <1>2, WriteUpcoming
  <2> QED BY <1>1, <1>2, <2>1, TxOrderKept
<1> QED BY <1>5, <1>6, <1>7

LEMMA ArbitrateRInv ==
    ASSUME RInv, NEW s \in Sources, Arbitrate(s)
    PROVE  ValidInv' /\ BufferInOrder' /\ TxInOrder'
<1>1. UNCHANGED <<script, next, obuf, tx, latest>>
  BY DEF Arbitrate, CanArbitrate
<1>2. TypeOK /\ ValidInv /\ BufferInOrder /\ TxInOrder
  BY DEF RInv, EInv
<1>3. \A t \in Sources : Upcoming(t)' = Upcoming(t)
  BY <1>1 DEF Upcoming
<1>4. ValidInv' /\ BufferInOrder'
  BY <1>1, <1>2, SameWords DEF ValidInv, BufferInOrder
<1> QED BY <1>1, <1>2, <1>3, <1>4, TxOrderKept

\* The first word of the buffer goes, and the one after it comes up.
LEMMA TransferUpcoming ==
    ASSUME TypeOK, BufferInOrder, NEW s \in Sources, Transfer(s)
    PROVE  /\ Upcoming(s) = Head(obuf[s]) /\ Upcoming(s)' = After(Head(obuf[s]))
           /\ \A t \in Sources \ {s} : Upcoming(t)' = Upcoming(t)
<1>1. /\ next' = next /\ Released(obuf[s])
      /\ obuf' = [obuf EXCEPT ![s] = Tail(obuf[s])]
      /\ obuf \in [Sources -> Seq(Word)]
  BY DEF Transfer, CanTransfer, TypeOK
<1>2. obuf[s] \in Seq(Word)
  BY <1>1
<1>3. /\ Head(obuf[s]) = obuf[s][1] /\ Len(obuf[s]) \in Nat /\ Len(obuf[s]) >= 1
      /\ Tail(obuf[s]) \in Seq(Word) /\ Len(Tail(obuf[s])) = Len(obuf[s]) - 1
      /\ obuf[s] # <<>>
  BY <1>1, <1>2, ReleasedNonempty
<1>4. /\ obuf'[s] = Tail(obuf[s]) /\ Len(obuf'[s]) = Len(obuf[s]) - 1
      /\ \A t \in Sources \ {s} : obuf'[t] = obuf[t]
      /\ \A i \in 1 .. Len(obuf[s]) - 1 : obuf'[s][i] = obuf[s][i + 1]
  BY <1>1, <1>2, <1>3
<1>5. \A t \in Sources \ {s} : Upcoming(t)' = Upcoming(t)
  BY <1>1, <1>4 DEF Upcoming
<1>6. (IF 1 < Len(obuf[s]) THEN obuf[s][1 + 1] ELSE next[s]) = After(obuf[s][1])
  <2>1. 1 \in 1 .. Len(obuf[s])
    BY <1>3, SMT
  <2> QED BY <2>1 DEF BufferInOrder
<1>7. CASE Len(obuf[s]) = 1
  <2>1. obuf'[s] = <<>>
    <3>1. Len(Tail(obuf[s])) = 0
      BY <1>3, <1>7, SMT
    <3> QED BY <1>3, <1>4, <3>1, EmptyIfZero
  <2> QED BY <1>1, <1>3, <1>5, <1>6, <1>7, <2>1 DEF Upcoming
<1>8. CASE Len(obuf[s]) # 1
  <2>1. 1 \in 1 .. Len(obuf[s]) - 1 /\ 1 < Len(obuf[s]) /\ Len(obuf'[s]) # 0
    BY <1>3, <1>4, <1>8, LongerThanOne
  <2>2. obuf'[s] # <<>> /\ obuf'[s][1] = obuf[s][1 + 1]
    BY <1>3, <1>4, <2>1, EmptyIfZero
  <2> QED BY <1>3, <1>5, <1>6, <2>1, <2>2 DEF Upcoming
<1> QED BY <1>7, <1>8

LEMMA TransferRInv ==
    ASSUME RInv, NEW s \in Sources, Transfer(s)
    PROVE  ValidInv' /\ BufferInOrder' /\ TxInOrder'
<1> DEFINE w == Head(obuf[s])
           L == Len(tx)
<1>1. /\ script' = script /\ UNCHANGED <<next, latest>>
      /\ Released(obuf[s])
      /\ tx' = Append(tx, w)
      /\ obuf' = [obuf EXCEPT ![s] = Tail(obuf[s])]
  BY DEF Transfer, CanTransfer
<1>2. /\ TypeOK /\ Sourced /\ ValidInv /\ BufferInOrder /\ TxInOrder
      /\ obuf \in [Sources -> Seq(Word)] /\ tx \in Seq(Word)
  BY DEF RInv, EInv, TypeOK
<1>3. obuf[s] \in Seq(Word)
  BY <1>2
<1>4. /\ w = obuf[s][1] /\ w \in Word /\ Len(obuf[s]) \in Nat /\ Len(obuf[s]) >= 1
      /\ Tail(obuf[s]) \in Seq(Word) /\ Len(Tail(obuf[s])) = Len(obuf[s]) - 1
      /\ obuf[s] # <<>>
  BY <1>1, <1>3, ReleasedNonempty
<1>5. w.src = s /\ Valid(w) /\ Upcoming(s) = w
  <2>1. 1 \in 1 .. Len(obuf[s])
    BY <1>4, SMT
  <2> QED BY <1>2, <1>4, <2>1 DEF Sourced, ValidInv, Upcoming
<1>6. /\ obuf'[s] = Tail(obuf[s]) /\ Len(obuf'[s]) = Len(obuf[s]) - 1
      /\ \A t \in Sources \ {s} : obuf'[t] = obuf[t]
      /\ \A i \in 1 .. Len(obuf[s]) - 1 :
            i + 1 \in 1 .. Len(obuf[s]) /\ obuf'[s][i] = obuf[s][i + 1]
  BY <1>1, <1>2, <1>3, <1>4
<1> HIDE DEF w
<1>7. /\ tx' \in Seq(Word) /\ Len(tx') = L + 1 /\ L \in Nat
      /\ tx'[L + 1] = w /\ \A i \in 1 .. L : tx'[i] = tx[i]
  BY <1>1, <1>2, <1>4
<1> HIDE DEF L
<1>8. Upcoming(s)' = After(w) /\ \A t \in Sources \ {s} : Upcoming(t)' = Upcoming(t)
  BY <1>2, TransferUpcoming DEF w
<1>9. ValidInv'
  <2>1. ASSUME NEW t \in Sources, NEW i \in 1 .. Len(obuf'[t])
        PROVE  Valid(obuf'[t][i])
    BY <1>2, <1>6, <2>1 DEF ValidInv
  <2>2. ASSUME NEW i \in 1 .. Len(tx') PROVE Valid(tx'[i])
    <3>1. CASE i = L + 1
      BY <1>5, <1>7, <3>1
    <3>2. CASE i # L + 1
      <4>1. i \in 1 .. L
        BY <1>7, <3>2, SMT
      <4> QED BY <1>2, <1>7, <4>1 DEF ValidInv, L
    <3> QED BY <3>1, <3>2
  <2> QED BY <1>1, <1>2, <2>1, <2>2, SameWords DEF ValidInv
<1>10. BufferInOrder'
  <2> SUFFICES ASSUME NEW t \in Sources, NEW i \in 1 .. Len(obuf'[t])
               PROVE  (IF i < Len(obuf'[t]) THEN obuf'[t][i + 1] ELSE next'[t])
                        = After(obuf'[t][i])
    BY <1>1, SameWords DEF BufferInOrder
  <2>1. CASE t # s
    BY <1>1, <1>2, <1>6, <2>1 DEF BufferInOrder
  <2>2. CASE t = s
    <3>1. i \in 1 .. Len(obuf[s]) - 1 /\ i + 1 \in 1 .. Len(obuf[s])
      BY <1>6, <2>2
    <3>2. (IF i + 1 < Len(obuf[s]) THEN obuf[s][i + 1 + 1] ELSE next[s])
             = After(obuf[s][i + 1])
      BY <1>2, <3>1 DEF BufferInOrder
    <3>3. obuf'[s][i] = obuf[s][i + 1]
      BY <1>6, <3>1
    <3>4. i < Len(obuf'[s]) => i + 1 < Len(obuf[s]) /\ obuf'[s][i + 1] = obuf[s][i + 1 + 1]
      BY <1>4, <1>6, <3>1
    <3>5. ~(i < Len(obuf'[s])) => ~(i + 1 < Len(obuf[s]))
      BY <1>4, <1>6, <3>1, SMT
    <3> QED BY <1>1, <2>2, <3>2, <3>3, <3>4, <3>5
  <2> QED BY <2>1, <2>2
<1>11. TxInOrder'
  <2> DEFINE WithoutNew(t, i, j) == \A m \in i .. j : tx'[m].src # t
         UpcomingNew(t) == IF obuf'[t] = <<>> THEN next'[t] ELSE obuf'[t][1]
  <2>1. /\ \A t, i, j : Without(t, i, j)' <=> WithoutNew(t, i, j)
        /\ \A t : Upcoming(t)' = UpcomingNew(t)
    BY DEF Without, Upcoming
  <2>2. \A i \in 1 .. L : tx[i].src \in Sources
    BY <1>2, TxWords DEF L
  <2>8. UpcomingNew(s) = After(w) /\ \A t \in Sources \ {s} : UpcomingNew(t) = Upcoming(t)
    BY <1>8, <2>1
  <2> HIDE DEF UpcomingNew
  <2>3. ASSUME NEW i \in 1 .. L + 1, NEW j \in 1 .. L + 1, i < j,
               tx'[j].src = tx'[i].src, WithoutNew(tx'[i].src, i + 1, j - 1)
        PROVE  tx'[j] = After(tx'[i])
    <3>1. i \in 1 .. L /\ tx'[i] = tx[i]
      BY <1>7, <2>3
    <3>2. Without(tx[i].src, i + 1, j - 1)
      <4>1. \A m \in i + 1 .. j - 1 : m \in 1 .. L
        BY <1>7, <2>3, SMT
      <4> QED BY <1>7, <2>3, <3>1, <4>1 DEF Without
    <3>3. CASE j = L + 1
      <4>1. tx[i].src = s /\ j - 1 = L /\ tx'[j] = w
        BY <1>5, <1>7, <2>3, <3>1, <3>3
      <4> QED BY <1>2, <1>5, <3>1, <3>2, <4>1 DEF TxInOrder, L
    <3>4. CASE j # L + 1
      <4>1. j \in 1 .. L /\ tx'[j] = tx[j]
        BY <1>7, <2>3, <3>4
      <4> QED BY <1>2, <2>3, <3>1, <3>2, <4>1 DEF TxInOrder, L
    <3> QED BY <3>3, <3>4
  <2>4. ASSUME NEW i \in 1 .. L + 1, WithoutNew(tx'[i].src, i + 1, L + 1)
        PROVE  UpcomingNew(tx'[i].src) = After(tx'[i])
    <3>1. CASE i = L + 1
      BY <1>5, <1>7, <2>8, <3>1
    <3>2. CASE i # L + 1
      <4>1. i \in 1 .. L /\ tx'[i] = tx[i]
        BY <1>7, <3>2
      <4>2. tx[i].src # s
        <5>1. L + 1 \in i + 1 .. L + 1
          BY <1>7, <4>1, SMT
        <5> QED BY <1>5, <1>7, <2>4, <4>1, <5>1
      <4>3. Without(tx[i].src, i + 1, L)
        <5>1. \A m \in i + 1 .. L : m \in i + 1 .. L + 1 /\ m \in 1 .. L
          BY <1>7, <4>1, SMT
        <5> QED BY <1>7, <2>4, <4>1, <5>1 DEF Without
      <4>4. Upcoming(tx[i].src) = After(tx[i])
        BY <1>2, <4>1, <4>3 DEF TxInOrder, L
      <4> QED BY <2>8, <2>2, <4>1, <4>2, <4>4
    <3> QED BY <3>1, <3>2
  <2>5. ASSUME NEW i \in 1 .. L + 1, WithoutNew(tx'[i].src, 1, i - 1)
        PROVE  tx'[i] = Follow(latest[tx'[i].src])
    <3>1. \A m \in 1 .. i - 1 : m \in 1 .. L
      BY <1>7, <2>5, SMT
    <3>2. Without(tx'[i].src, 1, i - 1)
      BY <1>7, <2>5, <3>1 DEF Without
    <3>3. CASE i = L + 1
      <4>1. i - 1 = L /\ tx'[i] = w
        BY <1>7, <3>3
      <4> QED BY <1>2, <1>5, <3>2, <4>1 DEF TxInOrder, L
    <3>4. CASE i # L + 1
      <4>1. i \in 1 .. L /\ tx'[i] = tx[i]
        BY <1>7, <3>4
      <4> QED BY <1>2, <3>2, <4>1 DEF TxInOrder, L
    <3> QED BY <3>3, <3>4
  <2>6. ASSUME NEW t \in Sources, WithoutNew(t, 1, L + 1)
        PROVE  UpcomingNew(t) = Follow(latest[t])
    <3>1. L + 1 \in 1 .. L + 1 /\ \A m \in 1 .. L : m \in 1 .. L + 1
      BY <1>7, SMT
    <3>2. t # s
      BY <1>5, <1>7, <2>6, <3>1
    <3>3. Without(t, 1, L)
      BY <1>7, <2>6, <3>1 DEF Without
    <3> QED BY <1>2, <2>8, <3>2, <3>3 DEF TxInOrder, L
  <2> HIDE DEF WithoutNew
  <2>7. \A t : latest'[t] = latest[t]
    BY <1>1
  <2>10. \A i, j \in 1 .. Len(tx)' :
            i < j /\ tx'[j].src = tx'[i].src /\ Without(tx[i].src, i + 1, j - 1)'
               => tx'[j] = After(tx[i])'
    <3> SUFFICES ASSUME NEW i \in 1 .. Len(tx'), NEW j \in 1 .. Len(tx'), i < j,
                        tx'[j].src = tx'[i].src, Without(tx[i].src, i + 1, j - 1)'
                 PROVE  tx'[j] = After(tx[i])'
      OBVIOUS
    <3>1. WithoutNew(tx'[i].src, i + 1, j - 1)
      BY DEF Without, WithoutNew
    <3>2. tx'[j] = After(tx'[i])
      BY <1>7, <2>3, <3>1
    <3> QED BY <1>1, <3>2, SameWords
  <2>11. \A i \in 1 .. Len(tx)' :
            Without(tx[i].src, i + 1, Len(tx))' => Upcoming(tx[i].src)' = After(tx[i])'
    <3> SUFFICES ASSUME NEW i \in 1 .. Len(tx'), Without(tx[i].src, i + 1, Len(tx))'
                 PROVE  Upcoming(tx[i].src)' = After(tx[i])'
      OBVIOUS
    <3>1. WithoutNew(tx'[i].src, i + 1, L + 1) /\ i \in 1 .. L + 1
      BY <1>7 DEF Without, WithoutNew
    <3>2. UpcomingNew(tx'[i].src) = After(tx'[i])
      BY <2>4, <3>1
    <3>3. Upcoming(tx[i].src)' = UpcomingNew(tx'[i].src)
      BY DEF Upcoming, UpcomingNew
    <3> QED BY <1>1, <3>2, <3>3, SameWords
  <2>12. \A i \in 1 .. Len(tx)' :
            Without(tx[i].src, 1, i - 1)' => tx'[i] = Follow(latest[tx[i].src])'
    <3> SUFFICES ASSUME NEW i \in 1 .. Len(tx'), Without(tx[i].src, 1, i - 1)'
                 PROVE  tx'[i] = Follow(latest[tx[i].src])'
      OBVIOUS
    <3>1. WithoutNew(tx'[i].src, 1, i - 1) /\ i \in 1 .. L + 1
      BY <1>7 DEF Without, WithoutNew
    <3>2. tx'[i] = Follow(latest[tx'[i].src])
      BY <2>5, <3>1
    <3> QED BY <1>1, <2>7, <3>2, SameWords
  <2>13. \A t \in Sources : Without(t, 1, Len(tx))' => Upcoming(t)' = Follow(latest[t])'
    <3> SUFFICES ASSUME NEW t \in Sources, Without(t, 1, Len(tx))'
                 PROVE  Upcoming(t)' = Follow(latest[t])'
      OBVIOUS
    <3>1. WithoutNew(t, 1, L + 1)
      BY <1>7 DEF Without, WithoutNew
    <3>2. UpcomingNew(t) = Follow(latest[t])
      BY <2>6, <3>1
    <3>3. Upcoming(t)' = UpcomingNew(t)
      BY DEF Upcoming, UpcomingNew
    <3> QED BY <1>1, <2>7, <3>2, <3>3, SameWords
  <2> QED BY <2>10, <2>11, <2>12, <2>13 DEF TxInOrder
<1> QED BY <1>9, <1>10, <1>11

LEMMA MacReadRInv ==
    ASSUME RInv, MacRead
    PROVE  ValidInv' /\ BufferInOrder' /\ TxInOrder'
<1> DEFINE w == Head(tx)
           s == w.src
           L == Len(tx)
<1>1. /\ script' = script /\ UNCHANGED <<next, obuf>>
      /\ Released(tx)
      /\ tx' = Tail(tx)
      /\ latest' = [latest EXCEPT ![s] = w]
  BY DEF MacRead
<1>2. /\ TypeOK /\ ValidInv /\ BufferInOrder /\ TxInOrder
      /\ tx \in Seq(Word) /\ latest \in [Sources -> Word]
  BY DEF RInv, EInv, TypeOK
<1>3. /\ w = tx[1] /\ w \in Word /\ L \in Nat /\ L >= 1
      /\ Tail(tx) \in Seq(Word) /\ Len(Tail(tx)) = L - 1
  BY <1>1, <1>2, ReleasedNonempty
<1>4. /\ Len(tx') = L - 1 /\ 1 \in 1 .. L
      /\ \A i \in 1 .. L - 1 : i + 1 \in 1 .. L /\ tx'[i] = tx[i + 1]
  BY <1>1, <1>2, <1>3
<1> HIDE DEF w, L
<1>5. s \in Sources /\ Valid(w) /\ Follow(w) = After(w)
  <2>1. Valid(w)
    BY <1>2, <1>3, <1>4 DEF ValidInv, L
  <2>2. w.frame # 0
    BY <1>3, <2>1, WordFields, SMT DEF Valid
  <2> QED BY <1>3, <2>1, <2>2, WordFields DEF Follow
<1> HIDE DEF s
<1>6. latest'[s] = w /\ \A t \in Sources \ {s} : latest'[t] = latest[t]
  BY <1>1, <1>2, <1>5
<1>7. ValidInv'
  <2>1. \A i \in 1 .. Len(tx') : Valid(tx'[i])
    BY <1>2, <1>4 DEF ValidInv, L
  <2>2. \A t \in Sources : latest'[t].frame = 0 \/ Valid(latest'[t])
    BY <1>2, <1>5, <1>6 DEF ValidInv
  <2> QED BY <1>1, <1>2, <2>1, <2>2, SameWords DEF ValidInv
<1>8. BufferInOrder'
  BY <1>1, <1>2, SameWords DEF BufferInOrder
<1>9. TxInOrder'
  <2> DEFINE WithoutNew(t, i, j) == \A m \in i .. j : tx'[m].src # t
  <2>1. \A t, i, j : Without(t, i, j)' <=> WithoutNew(t, i, j)
    BY DEF Without
  <2>2. \A t : Upcoming(t)' = Upcoming(t)
    BY <1>1 DEF Upcoming
  <2>3. ASSUME NEW t, NEW i \in Nat, NEW j \in Nat, i >= 1, j <= L - 1, WithoutNew(t, i, j)
        PROVE  Without(t, i + 1, j + 1)
    <3> SUFFICES ASSUME NEW m \in i + 1 .. j + 1 PROVE tx[m].src # t
      BY DEF Without
    <3>1. m - 1 \in i .. j /\ m - 1 \in 1 .. L - 1 /\ m - 1 + 1 = m
      BY <1>3, <2>3, SMT
    <3> QED BY <1>4, <2>3, <3>1
  <2> HIDE DEF WithoutNew
  <2>4. ASSUME NEW i \in 1 .. Len(tx'), NEW j \in 1 .. Len(tx'), i < j,
               tx'[j].src = tx'[i].src, WithoutNew(tx'[i].src, i + 1, j - 1)
        PROVE  tx'[j] = After(tx'[i])
    <3>1. /\ i + 1 \in 1 .. L /\ j + 1 \in 1 .. L /\ i + 1 < j + 1
          /\ tx'[i] = tx[i + 1] /\ tx'[j] = tx[j + 1]
      BY <1>3, <1>4, <2>4
    <3>2. /\ i + 1 \in Nat /\ j - 1 \in Nat /\ i + 1 >= 1 /\ j - 1 <= L - 1
          /\ j - 1 + 1 = (j + 1) - 1
      BY <1>3, <1>4, <2>4, SMT
    <3>3. Without(tx[i + 1].src, (i + 1) + 1, (j + 1) - 1)
      BY <2>3, <2>4, <3>1, <3>2
    <3> QED BY <1>2, <2>4, <3>1, <3>3 DEF TxInOrder, L
  <2>5. ASSUME NEW i \in 1 .. Len(tx'), WithoutNew(tx'[i].src, i + 1, Len(tx'))
        PROVE  Upcoming(tx'[i].src) = After(tx'[i])
    <3>1. i + 1 \in 1 .. L /\ tx'[i] = tx[i + 1] /\ Len(tx') \in Nat /\ Len(tx') + 1 = L
      BY <1>3, <1>4
    <3>2. i + 1 \in Nat /\ i + 1 >= 1 /\ Len(tx') <= L - 1
      BY <1>3, <1>4, SMT
    <3>3. Without(tx[i + 1].src, (i + 1) + 1, L)
      BY <2>3, <2>5, <3>1, <3>2
    <3> QED BY <1>2, <3>1, <3>3 DEF TxInOrder, L
  <2>6. ASSUME NEW i \in 1 .. Len(tx'), WithoutNew(tx'[i].src, 1, i - 1)
        PROVE  tx'[i] = Follow(latest'[tx'[i].src])
    <3>1. i + 1 \in 1 .. L /\ tx'[i] = tx[i + 1] /\ tx[i + 1].src \in Sources
      BY <1>2, <1>4, TxWords DEF L
    <3>2. i - 1 \in Nat /\ 1 \in Nat /\ 1 >= 1 /\ i - 1 <= L - 1 /\ i - 1 + 1 = (i + 1) - 1
      BY <1>3, <1>4, SMT
    <3>3. Without(tx[i + 1].src, 1 + 1, (i + 1) - 1)
      BY <2>3, <2>6, <3>1, <3>2
    <3>4. CASE tx[i + 1].src = s
      <4>1. 1 < i + 1
        BY <1>4, SMT
      <4>2. tx[i + 1] = After(tx[1])
        BY <1>2, <1>3, <1>4, <3>1, <3>3, <3>4, <4>1 DEF TxInOrder, L, s
      <4> QED BY <1>3, <1>5, <1>6, <3>1, <3>4, <4>2
    <3>5. CASE tx[i + 1].src # s
      <4>1. Without(tx[i + 1].src, 1, (i + 1) - 1)
        <5> SUFFICES ASSUME NEW m \in 1 .. (i + 1) - 1 PROVE tx[m].src # tx[i + 1].src
          BY DEF Without
        <5>1. CASE m = 1
          BY <1>3, <3>5, <5>1 DEF s
        <5>2. CASE m # 1
          <6>1. m \in 1 + 1 .. (i + 1) - 1
            BY <5>2, SMT
          <6> QED BY <3>3, <6>1 DEF Without
        <5> QED BY <5>1, <5>2
      <4>2. tx[i + 1] = Follow(latest[tx[i + 1].src])
        BY <1>2, <3>1, <4>1 DEF TxInOrder, L
      <4> QED BY <1>6, <3>1, <3>5, <4>2
    <3> QED BY <3>4, <3>5
  <2>7. ASSUME NEW t \in Sources, WithoutNew(t, 1, Len(tx'))
        PROVE  Upcoming(t) = Follow(latest'[t])
    <3>1. /\ 1 \in Nat /\ 1 >= 1 /\ Len(tx') \in Nat /\ Len(tx') <= L - 1
          /\ Len(tx') + 1 = L
      BY <1>3, <1>4, SMT
    <3>2. Without(t, 1 + 1, L)
      BY <2>3, <2>7, <3>1
    <3>3. CASE t = s
      <4>1. Upcoming(tx[1].src) = After(tx[1])
        BY <1>2, <1>3, <1>4, <3>2, <3>3 DEF TxInOrder, L, s
      <4> QED BY <1>3, <1>5, <1>6, <3>3, <4>1 DEF s
    <3>4. CASE t # s
      <4>1. Without(t, 1, L)
        <5> SUFFICES ASSUME NEW m \in 1 .. L PROVE tx[m].src # t
          BY DEF Without
        <5>1. CASE m = 1
          BY <1>3, <3>4, <5>1 DEF s
        <5>2. CASE m # 1
          <6>1. m \in 1 + 1 .. L
            BY <5>2, SMT
          <6> QED BY <3>2, <6>1 DEF Without
        <5> QED BY <5>1, <5>2
      <4> QED BY <1>2, <1>6, <3>4, <4>1 DEF TxInOrder, L
    <3> QED BY <3>3, <3>4
  <2>10. \A i, j \in 1 .. Len(tx)' :
            i < j /\ tx'[j].src = tx'[i].src /\ Without(tx[i].src, i + 1, j - 1)'
               => tx'[j] = After(tx[i])'
    <3> SUFFICES ASSUME NEW i \in 1 .. Len(tx'), NEW j \in 1 .. Len(tx'), i < j,
                        tx'[j].src = tx'[i].src, Without(tx[i].src, i + 1, j - 1)'
                 PROVE  tx'[j] = After(tx[i])'
      OBVIOUS
    <3>1. WithoutNew(tx'[i].src, i + 1, j - 1)
      BY DEF Without, WithoutNew
    <3>2. tx'[j] = After(tx'[i])
      BY <2>4, <3>1
    <3> QED BY <1>1, <3>2, SameWords
  <2>11. \A i \in 1 .. Len(tx)' :
            Without(tx[i].src, i + 1, Len(tx))' => Upcoming(tx[i].src)' = After(tx[i])'
    BY <1>1, <2>5, SameWords DEF Without, WithoutNew, Upcoming
  <2>12. \A i \in 1 .. Len(tx)' :
            Without(tx[i].src, 1, i - 1)' => tx'[i] = Follow(latest[tx[i].src])'
    BY <1>1, <2>6, SameWords DEF Without, WithoutNew
  <2>13. \A t \in Sources : Without(t, 1, Len(tx))' => Upcoming(t)' = Follow(latest[t])'
    BY <1>1, <2>2, <2>7, SameWords DEF Without, WithoutNew
  <2> QED BY <2>10, <2>11, <2>12, <2>13 DEF TxInOrder
<1> QED BY <1>7, <1>8, <1>9

LEMMA StepRInv == RInv /\ [Next]_vars => RInv'
<1> SUFFICES ASSUME RInv, [Next]_vars PROVE RInv'
  OBVIOUS
<1>1. EInv'
  BY StepInv DEF RInv
<1>2. ValidInv' /\ BufferInOrder' /\ TxInOrder'
  <2>1. CASE \E s \in Sources : Write(s)
    BY <2>1, WriteRInv
  <2>2. CASE Switch
    BY <2>2, ArbitrateRInv, TransferRInv DEF Switch
  <2>3. CASE MacRead
    BY <2>3, MacReadRInv
  <2>4. CASE UNCHANGED vars
    <3>1. TypeOK /\ ValidInv /\ BufferInOrder /\ TxInOrder
      BY DEF RInv, EInv
    <3>2. UNCHANGED <<script, next, obuf, tx, latest>>
      BY <2>4 DEF vars
    <3>3. \A t \in Sources : Upcoming(t)' = Upcoming(t)
      BY <3>2 DEF Upcoming
    <3>4. ValidInv' /\ BufferInOrder'
      BY <3>1, <3>2, SameWords DEF ValidInv, BufferInOrder
    <3> QED BY <3>1, <3>2, <3>3, <3>4, TxOrderKept
  <2> QED BY <2>1, <2>2, <2>3, <2>4 DEF Next
<1> QED BY <1>1, <1>2 DEF RInv

LEMMA RInvariance == Spec => []RInv
<1> QED
  BY InitRInv, StepRInv, PTL DEF Spec, Safety

-----------------------------------------------------------------------------
(* The refinement *)

\* Only the source at the front of network_tx_fifo can be in a frame on the line.
LEMMA LineIs ==
    ASSUME NEW s \in Sources, \A t \in Sources : Underway(t) => t = s
    PROVE  /\ Underway(s)  => OnLine = {s} /\ Line = s
           /\ ~Underway(s) => OnLine = {} /\ Line = None
<1>1. CASE Underway(s)
  <2>1. OnLine = {s}
    BY <1>1 DEF OnLine
  <2>2. (CHOOSE x \in {s} : TRUE) = s
    OBVIOUS
  <2> QED BY <1>1, <2>1, <2>2 DEF Line
<1>2. CASE ~Underway(s)
  <2>1. OnLine = {}
    BY <1>2 DEF OnLine
  <2> QED BY <1>2, <2>1 DEF Line
<1> QED BY <1>1, <1>2

\* The state of FrameMerge that a state of Egress stands for.
Sent == IF OnLine = {} THEN 0 ELSE latest[Line].pos
Done == [s \in Sources |-> IF Underway(s) THEN latest[s].frame - 1 ELSE latest[s].frame]

LEMMA MergeInit == Init => Merge!Init
<1> SUFFICES ASSUME Init PROVE Merge!Init
  OBVIOUS
<1>1. \A s \in Sources : latest[s].frame = 0
  BY DEF Init
<1>2. \A s \in Sources : ~Underway(s)
  BY <1>1, SMT DEF Underway
<1>3. OnLine = {}
  BY <1>2 DEF OnLine
<1>4. Line = None
  BY <1>3 DEF Line
<1>5. Done = [s \in Sources |-> 0]
  BY <1>1, <1>2 DEF Done
<1> QED BY <1>3, <1>4, <1>5 DEF Init, Merge!Init, Done

LEMMA MergeStutter ==
    ASSUME UNCHANGED <<script, latest>>
    PROVE  UNCHANGED Merge!mergeVars
<1>1. \A s : Underway(s)' <=> Underway(s)
  BY DEF Underway, IsLast
<1>2. OnLine' = OnLine
  BY <1>1 DEF OnLine
<1>3. Line' = Line /\ Sent' = Sent /\ Done' = Done
  BY <1>1, <1>2 DEF Line, Sent, Done
<1> QED BY <1>3 DEF Merge!mergeVars, Sent, Done

LEMMA MergeTransmit ==
    ASSUME RInv, MacRead, NEW w, w = Head(tx), NEW s, s = w.src
    PROVE  Merge!Next
<1> DEFINE v == latest[s]
           a == script[s]
<1>1. /\ script' = script /\ Released(tx)
      /\ latest' = [latest EXCEPT ![s] = w]
  BY DEF MacRead
<1>2. /\ TypeOK /\ Sourced /\ LineInv /\ ValidInv /\ TxInOrder
      /\ tx \in Seq(Word) /\ latest \in [Sources -> Word] /\ script \in Scripts
  BY DEF RInv, EInv, TypeOK
<1>3. w = tx[1] /\ w \in Word /\ Len(tx) \in Nat /\ 1 \in 1 .. Len(tx)
  BY <1>1, <1>2, ReleasedNonempty
<1>4. s \in Sources /\ v \in Word /\ Valid(w) /\ v.src = s
  BY <1>2, <1>3, WordFields DEF ValidInv, Sourced
<1>5. w = Follow(v)
  <2>1. Without(tx[1].src, 1, 1 - 1)
    BY SMT DEF Without
  <2> QED BY <1>2, <1>3, <2>1 DEF TxInOrder
<1>6. /\ w.frame \in Nat /\ w.pos \in Nat /\ v.frame \in Nat /\ v.pos \in Nat
      /\ w.frame >= 1 /\ w.frame <= Len(a) /\ Len(a) \in Nat
      /\ IsLast(w) <=> w.pos = a[w.frame]
  BY <1>2, <1>3, <1>4, WordFields, ScriptsOK DEF Valid, IsLast
<1>7. latest'[s] = w /\ \A t \in Sources \ {s} : latest'[t] = latest[t]
  BY <1>1, <1>2, <1>4
<1>8. \A t \in Sources : Underway(t) => t = s
  BY <1>2, <1>3 DEF LineInv
<1> HIDE DEF v
<1>9. /\ Underway(s)' <=> ~IsLast(w)
      /\ \A t \in Sources \ {s} : ~Underway(t) /\ ~Underway(t)'
  <2>1. \A t : IsLast(t)' <=> IsLast(t)
    BY <1>1 DEF IsLast
  <2>3. \A t \in Sources : Underway(t)' <=> latest'[t].frame > 0 /\ ~IsLast(latest'[t])
    BY <1>1 DEF Underway, IsLast
  <2>4. \A t \in Sources \ {s} : ~Underway(t)
    BY <1>8
  <2>5. \A t \in Sources \ {s} : ~Underway(t)'
    BY <1>7, <2>3, <2>4 DEF Underway
  <2>6. w.frame > 0
    BY <1>6, SMT
  <2> QED BY <1>4, <1>7, <2>3, <2>4, <2>5, <2>6
<1>10. /\ Line \in {None, s}
       /\ Sent + 1 = w.pos /\ Done[s] + 1 = w.frame
       /\ Done[s] \in Nat /\ Sent \in Nat
  <2>1. CASE Underway(s)
    <3>1. OnLine = {s} /\ Line = s
      BY <1>4, <1>8, <2>1, LineIs
    <3>2. Sent = v.pos /\ Done[s] = v.frame - 1
      BY <1>4, <2>1, <3>1 DEF Sent, Done, v
    <3>3. v.frame > 0 /\ ~IsLast(v)
      BY <2>1 DEF Underway, v
    <3>4. w = [src |-> v.src, frame |-> v.frame, pos |-> v.pos + 1]
      BY <1>5, <1>6, <3>3 DEF Follow, After
    <3>5. w.frame = v.frame /\ w.pos = v.pos + 1
      BY <3>4
    <3>6. v.frame - 1 \in Nat /\ v.frame - 1 + 1 = v.frame
      BY <1>6, <3>3, SMT
    <3> QED BY <1>6, <3>1, <3>2, <3>5, <3>6
  <2>2. CASE ~Underway(s)
    <3>1. OnLine = {} /\ Line = None
      BY <1>4, <1>8, <2>2, LineIs
    <3>2. Sent = 0 /\ Done[s] = v.frame
      BY <1>4, <2>2, <3>1 DEF Sent, Done, v
    <3>3. v.frame = 0 \/ IsLast(v)
      BY <1>6, <2>2 DEF Underway, v
    <3>4. w = [src |-> v.src, frame |-> v.frame + 1, pos |-> 1]
      BY <1>5, <1>6, <3>3 DEF Follow, After
    <3>5. w.frame = v.frame + 1 /\ w.pos = 1
      BY <3>4
    <3> QED BY <1>6, <3>1, <3>2, <3>5
  <2> QED BY <2>1, <2>2
<1>11. Done[s] < Len(a)
  BY <1>6, <1>10, SMT
<1>12. \A t \in Sources : t # s => Done'[t] = Done[t]
  BY <1>7, <1>9 DEF Done
<1>13. IF Sent + 1 = a[Done[s] + 1]
       THEN Line' = None /\ Sent' = 0 /\ Done' = [Done EXCEPT ![s] = Done[s] + 1]
       ELSE Line' = s /\ Sent' = Sent + 1 /\ Done' = Done
  <2>1. \A t \in Sources : Underway(t)' => t = s
    BY <1>9
  <2>2. CASE IsLast(w)
    <3>1. Sent + 1 = a[Done[s] + 1]
      BY <1>6, <1>10, <2>2
    <3>2. ~Underway(s)'
      BY <1>9, <2>2
    <3>3. OnLine' = {}
      BY <2>1, <3>2 DEF OnLine
    <3>4. Line' = None /\ Sent' = 0
      BY <3>3 DEF Line, Sent
    <3>5. Done'[s] = Done[s] + 1
      BY <1>4, <1>7, <1>10, <3>2 DEF Done
    <3>6. Done' = [Done EXCEPT ![s] = Done[s] + 1]
      BY <1>4, <1>12, <3>5 DEF Done
    <3> QED BY <3>1, <3>4, <3>6
  <2>3. CASE ~IsLast(w)
    <3>1. Sent + 1 # a[Done[s] + 1]
      BY <1>6, <1>10, <2>3
    <3>2. Underway(s)'
      BY <1>9, <2>3
    <3>3. OnLine' = {s}
      BY <1>4, <2>1, <3>2 DEF OnLine
    <3>4. Line' = s
      <4>1. (CHOOSE x \in {s} : TRUE) = s
        OBVIOUS
      <4> QED BY <3>3, <4>1 DEF Line
    <3>5. Sent' = Sent + 1
      BY <1>7, <1>10, <3>3, <3>4 DEF Sent
    <3>6. Done'[s] = Done[s]
      <4>1. Done'[s] = w.frame - 1
        BY <1>4, <1>7, <3>2 DEF Done
      <4>2. w.frame \in Nat /\ w.frame - 1 = Done[s]
        BY <1>10, SMT
      <4> QED BY <4>1, <4>2
    <3>7. Done' = Done
      BY <1>12, <3>6 DEF Done
    <3> QED BY <3>1, <3>4, <3>5, <3>7
  <2> QED BY <2>2, <2>3
<1>14. Merge!Transmit(s)
  BY <1>1, <1>10, <1>11, <1>13 DEF Merge!Transmit, Sent, Done
<1> QED BY <1>4, <1>14 DEF Merge!Next

\* The transmit path implements FrameMerge: whole frames, each source's in its
\* order, none lost, and never two interleaved.
THEOREM Refinement == Spec => ImplementsMerge
<1>1. RInv /\ [Next]_vars => [Merge!Next]_(Merge!mergeVars)
  <2> SUFFICES ASSUME RInv, [Next]_vars
               PROVE  Merge!Next \/ UNCHANGED Merge!mergeVars
    OBVIOUS
  <2>1. CASE MacRead
    <3>1. \A w, s : w = Head(tx) /\ s = w.src => Merge!Next
      BY <2>1, MergeTransmit
    <3> QED BY <3>1
  <2>2. CASE (\E s \in Sources : Write(s)) \/ Switch \/ UNCHANGED vars
    <3>1. UNCHANGED <<script, latest>>
      BY <2>2 DEF Write, Switch, Arbitrate, Transfer, vars
    <3> QED BY <3>1, MergeStutter
  <2> QED BY <2>1, <2>2 DEF Next
<1> QED
  BY <1>1, MergeInit, RInvariance, PTL DEF Spec, Safety, ImplementsMerge, Merge!Safety

-----------------------------------------------------------------------------
(***************************************************************************)
(* The path comes to rest with every frame sent.  To know that no FIFO is  *)
(* full of a frame whose end is not in yet, the invariant counts the words *)
(* of that frame:                                                          *)
(***************************************************************************)

\* From word i of FIFO q on no frame ends.
Endless(q, i) == \A j \in i .. Len(q) : ~IsLast(q[j])

\* w is the word that continues the frame of word i of q behind the end of q.
Reaches(q, i, w) ==
    w.frame = q[i].frame /\ w.pos = q[i].pos + (Len(q) - i + 1)

\* A buffer that is not connected begins with a frame.
WholeInv == \A s \in Sources : grant # s => Upcoming(s).pos = 1

\* The words of a frame that has not ended are counted: in its output buffer up to
\* the word the core writes next, in network_tx_fifo up to the next of the
\* buffer that is connected.
BufRun == \A s \in Sources : \A i \in 1 .. Len(obuf[s]) :
             Endless(obuf[s], i) => Reaches(obuf[s], i, next[s])
TxRun  == \A i \in 1 .. Len(tx) :
             Endless(tx, i) => tx[i].src = grant /\ Reaches(tx, i, Upcoming(grant))

\* A core stands at most behind its last frame.
EndInv == \A s \in Sources : next[s].frame <= Len(script[s]) + 1

RestInv == RInv /\ WholeInv /\ BufRun /\ TxRun /\ EndInv

LEMMA SameEndless ==
    ASSUME script' = script
    PROVE  \A q, i : Endless(q, i)' <=> Endless(q, i)
  BY DEF Endless, IsLast

LEMMA AppendRun ==
    ASSUME NEW q \in Seq(Word), NEW w \in Word,
           \A i \in 1 .. Len(q) : Endless(q, i) => Reaches(q, i, w)
    PROVE  \A i \in 1 .. Len(q) + 1 :
              Endless(Append(q, w), i) => ~IsLast(w) /\ Reaches(Append(q, w), i, After(w))
<1> SUFFICES ASSUME NEW i \in 1 .. Len(q) + 1, Endless(Append(q, w), i)
             PROVE  ~IsLast(w) /\ Reaches(Append(q, w), i, After(w))
  OBVIOUS
<1> DEFINE L == Len(q)
           z == Append(q, w)
<1>1. /\ L \in Nat /\ Len(z) = L + 1 /\ z[L + 1] = w /\ \A j \in 1 .. L : z[j] = q[j]
  OBVIOUS
<1>2. i \in 1 .. L + 1 /\ Endless(z, i) /\ w.pos \in Nat
  BY DEF Word
<1>3. \A j \in 1 .. L : Endless(q, j) => Reaches(q, j, w)
  OBVIOUS
<1> HIDE DEF z, L
<1>4. L + 1 \in i .. L + 1
  BY <1>1, <1>2, SMT
<1>5. ~IsLast(w)
  BY <1>1, <1>2, <1>4 DEF Endless
<1>6. After(w).frame = w.frame /\ After(w).pos = w.pos + 1
  BY <1>5 DEF After
<1>7. CASE i = L + 1
  <2>1. Len(z) - i + 1 = 1 /\ z[i] = w
    BY <1>1, <1>7
  <2> QED BY <1>6, <2>1, <1>5 DEF Reaches, z
<1>8. CASE i # L + 1
  <2>1. i \in 1 .. L /\ \A j \in i .. L : j \in 1 .. L /\ j \in i .. L + 1
    BY <1>1, <1>2, <1>8, SMT
  <2>2. \A j \in i .. L : ~IsLast(q[j])
    BY <1>1, <1>2, <2>1 DEF Endless
  <2>3. Reaches(q, i, w)
    BY <1>3, <2>1, <2>2 DEF Endless, L
  <2>4. w.frame = q[i].frame /\ w.pos = q[i].pos + (L - i + 1) /\ q[i].pos \in Nat
    <3>1. q[i] \in Word
      BY <2>1 DEF L
    <3> QED BY <2>3, <3>1 DEF Reaches, L, Word
  <2>5. w.pos + 1 = q[i].pos + ((L + 1) - i + 1)
    <3>1. \A a, b \in Nat, l, m \in Int :
             a = b + (l - m + 1) => a + 1 = b + ((l + 1) - m + 1)
      BY SMT
    <3>2. L \in Int /\ i \in Int
      BY <1>1, <2>1, SMT
    <3> QED BY <1>2, <2>4, <3>1, <3>2, Zenon
  <2> QED BY <1>1, <1>5, <1>6, <2>1, <2>4, <2>5 DEF Reaches, z
<1> QED BY <1>7, <1>8

LEMMA TailRun ==
    ASSUME NEW q \in Seq(Word), q # <<>>, NEW i \in 1 .. Len(q) - 1, Endless(Tail(q), i)
    PROVE  /\ i + 1 \in 1 .. Len(q) /\ Endless(q, i + 1) /\ Tail(q)[i] = q[i + 1]
           /\ \A w : Reaches(q, i + 1, w) => Reaches(Tail(q), i, w)
<1> DEFINE L == Len(q)
           z == Tail(q)
<1>1. /\ L \in Nat /\ Len(z) = L - 1 /\ \A j \in 1 .. L - 1 : z[j] = q[j + 1]
  OBVIOUS
<1>2. i \in 1 .. L - 1 /\ Endless(z, i)
  OBVIOUS
<1> HIDE DEF z, L
<1>3. i + 1 \in 1 .. L
  BY <1>1, <1>2, SMT
<1>4. ASSUME NEW j \in i + 1 .. L PROVE ~IsLast(q[j])
  <2>1. j - 1 \in i .. L - 1 /\ j - 1 \in 1 .. L - 1 /\ j - 1 + 1 = j
    BY <1>1, <1>2, SMT
  <2>2. z[j - 1] = q[j]
    BY <1>1, <2>1
  <2> QED BY <1>1, <1>2, <2>1, <2>2 DEF Endless
<1>5. z[i] = q[i + 1]
  BY <1>1, <1>2
<1>6. (L - 1) - i + 1 = L - (i + 1) + 1
  BY <1>1, <1>2, SMT
<1> QED BY <1>1, <1>3, <1>4, <1>5, <1>6 DEF Endless, Reaches, z, L

LEMMA RestInit == Init => RestInv
<1> SUFFICES ASSUME Init PROVE RestInv
  OBVIOUS
<1>1. RInv
  BY InitRInv
<1>2. /\ tx = <<>> /\ Len(tx) = 0
      /\ \A s \in Sources : next[s].pos = 1 /\ obuf[s] = <<>> /\ Len(obuf[s]) = 0
  BY DEF Init
<1>3. WholeInv
  BY <1>2 DEF WholeInv, Upcoming
<1>4. \A i : i \notin 1 .. 0
  BY SMT
<1>5. BufRun /\ TxRun
  BY <1>2, <1>4 DEF BufRun, TxRun
<1>6. EndInv
  <2>1. \A s \in Sources : next[s].frame = 1 /\ Len(script[s]) \in Nat
    BY ScriptsOK DEF Init
  <2> QED BY <2>1, SMT DEF EndInv
<1> QED BY <1>1, <1>3, <1>5, <1>6 DEF RestInv

LEMMA WriteRest ==
    ASSUME RestInv, NEW s \in Sources, Write(s)
    PROVE  WholeInv' /\ BufRun' /\ TxRun'
<1>1. /\ script' = script /\ UNCHANGED <<grant, tx>>
      /\ obuf' = [obuf EXCEPT ![s] = Append(obuf[s], next[s])]
      /\ next' = [next EXCEPT ![s] = After(next[s])]
  BY DEF Write
<1>2. /\ TypeOK /\ WholeInv /\ BufRun /\ TxRun
      /\ obuf \in [Sources -> Seq(Word)] /\ next \in [Sources -> Word]
  BY DEF RestInv, RInv, EInv, TypeOK
<1>3. \A t \in Sources : Upcoming(t)' = Upcoming(t)
  BY <1>2, WriteUpcoming
<1>4. WholeInv'
  BY <1>1, <1>2, <1>3 DEF WholeInv
<1>5. BufRun'
  <2> SUFFICES ASSUME NEW t \in Sources, NEW i \in 1 .. Len(obuf'[t]), Endless(obuf'[t], i)
               PROVE  Reaches(obuf'[t], i, next'[t])
    BY <1>1, SameEndless DEF BufRun, Reaches
  <2>1. CASE t # s
    BY <1>1, <1>2, <2>1 DEF BufRun
  <2>2. CASE t = s
    <3>1. /\ obuf[s] \in Seq(Word) /\ next[s] \in Word
          /\ obuf'[s] = Append(obuf[s], next[s]) /\ next'[s] = After(next[s])
      BY <1>1, <1>2
    <3>2. Len(obuf'[s]) = Len(obuf[s]) + 1
      BY <3>1
    <3>3. \A j \in 1 .. Len(obuf[s]) : Endless(obuf[s], j) => Reaches(obuf[s], j, next[s])
      BY <1>2 DEF BufRun
    <3> QED BY <2>2, <3>1, <3>2, <3>3, AppendRun
  <2> QED BY <2>1, <2>2
<1>6. TxRun'
  <2> SUFFICES ASSUME NEW i \in 1 .. Len(tx), Endless(tx, i)
               PROVE  tx[i].src = grant /\ Reaches(tx, i, Upcoming(grant)')
    BY <1>1, SameEndless DEF TxRun, Reaches
  <2>1. tx[i].src = grant /\ Reaches(tx, i, Upcoming(grant)) /\ grant \in Sources
    BY <1>2, TxWords DEF TxRun
  <2>2. Upcoming(grant)' = Upcoming(grant)
    <3>1. \A t : t = grant /\ t \in Sources => Upcoming(t)' = Upcoming(t)
      BY <1>3
    <3>2. Upcoming(grant)' = IF obuf'[grant] = <<>> THEN next'[grant] ELSE obuf'[grant][1]
      BY <1>1 DEF Upcoming
    <3>3. \A t : Upcoming(t)' = IF obuf'[t] = <<>> THEN next'[t] ELSE obuf'[t][1]
      BY DEF Upcoming
    <3> QED BY <2>1, <3>1, <3>2, <3>3
  <2> QED BY <2>1, <2>2
<1> QED BY <1>4, <1>5, <1>6

LEMMA WriteEnd ==
    ASSUME RestInv, NEW s \in Sources, Write(s)
    PROVE  EndInv'
<1>1. /\ script' = script /\ next' = [next EXCEPT ![s] = After(next[s])]
      /\ next \in [Sources -> Word] /\ script \in Scripts /\ EndInv
      /\ next[s].frame <= Len(script[s])
  BY DEF Write, CanWrite, RestInv, RInv, EInv, TypeOK
<1>2. next'[s] = After(next[s]) /\ \A t \in Sources \ {s} : next'[t] = next[t]
  BY <1>1
<1>3. next[s].frame \in Nat /\ Len(script[s]) \in Nat
  BY <1>1, ScriptsOK DEF Word
<1>4. After(next[s]).frame = next[s].frame \/ After(next[s]).frame = next[s].frame + 1
  BY DEF After
<1>5. After(next[s]).frame <= Len(script[s]) + 1
  BY <1>1, <1>3, <1>4, SMT
<1> QED BY <1>1, <1>2, <1>5 DEF EndInv

LEMMA ArbitrateRest ==
    ASSUME RestInv, NEW s \in Sources, Arbitrate(s)
    PROVE  WholeInv' /\ BufRun' /\ TxRun'
<1>1. UNCHANGED <<script, next, obuf, tx>> /\ grant = None
  BY DEF Arbitrate, CanArbitrate
<1>2. TypeOK /\ WholeInv /\ BufRun /\ TxRun
  BY DEF RestInv, RInv, EInv
<1>3. \A t \in Sources : Upcoming(t).pos = 1
  BY <1>1, <1>2, Depths DEF WholeInv
<1>4. WholeInv'
  BY <1>1, <1>3 DEF WholeInv, Upcoming
<1>5. BufRun'
  BY <1>1, <1>2, SameEndless DEF BufRun, Reaches
<1>6. \A i \in 1 .. Len(tx) : ~Endless(tx, i)
  BY <1>1, <1>2, TxWords DEF TxRun
<1>7. TxRun'
  BY <1>1, <1>6, SameEndless DEF TxRun
<1> QED BY <1>4, <1>5, <1>7

LEMMA TransferRest ==
    ASSUME RestInv, NEW s \in Sources, Transfer(s)
    PROVE  WholeInv' /\ BufRun' /\ TxRun'
<1> DEFINE w == Head(obuf[s])
<1>1. /\ script' = script /\ next' = next /\ grant = s /\ Released(obuf[s])
      /\ tx' = Append(tx, w) /\ obuf' = [obuf EXCEPT ![s] = Tail(obuf[s])]
      /\ grant' = IF IsLast(w) THEN None ELSE grant
  BY DEF Transfer, CanTransfer, AfterTransfer
<1>2. /\ TypeOK /\ Sourced /\ BufferInOrder /\ WholeInv /\ BufRun /\ TxRun
      /\ obuf \in [Sources -> Seq(Word)] /\ tx \in Seq(Word)
  BY DEF RestInv, RInv, EInv, TypeOK
<1>3. /\ obuf[s] \in Seq(Word) /\ obuf[s] # <<>> /\ w \in Word /\ w = obuf[s][1]
      /\ Len(obuf[s]) \in Nat /\ Len(obuf[s]) >= 1
      /\ obuf'[s] = Tail(obuf[s]) /\ Len(obuf'[s]) = Len(obuf[s]) - 1
      /\ \A t \in Sources \ {s} : obuf'[t] = obuf[t]
  BY <1>1, <1>2, ReleasedNonempty
<1>4. /\ Upcoming(s) = w /\ Upcoming(s)' = After(w)
      /\ \A t \in Sources \ {s} : Upcoming(t)' = Upcoming(t)
  BY <1>2, TransferUpcoming
<1>5. w.src = s
  <2>1. 1 \in 1 .. Len(obuf[s])
    BY <1>3, SMT
  <2> QED BY <1>2, <1>3, <2>1 DEF Sourced
<1> HIDE DEF w
<1>6. WholeInv'
  <2> SUFFICES ASSUME NEW t \in Sources, grant' # t PROVE Upcoming(t)'.pos = 1
    BY DEF WholeInv
  <2>1. CASE t = s
    <3>1. IsLast(w)
      BY <1>1, <2>1
    <3>2. After(w).pos = 1
      BY <3>1 DEF After
    <3> QED BY <1>4, <2>1, <3>2
  <2>2. CASE t # s
    BY <1>1, <1>2, <1>4, <2>2 DEF WholeInv
  <2> QED BY <2>1, <2>2
<1>7. BufRun'
  <2> SUFFICES ASSUME NEW t \in Sources, NEW i \in 1 .. Len(obuf'[t]), Endless(obuf'[t], i)
               PROVE  Reaches(obuf'[t], i, next[t])
    BY <1>1, SameEndless DEF BufRun, Reaches
  <2>1. CASE t # s
    BY <1>2, <1>3, <2>1 DEF BufRun
  <2>2. CASE t = s
    <3>1. i \in 1 .. Len(obuf[s]) - 1 /\ Endless(Tail(obuf[s]), i)
      BY <1>3, <2>2
    <3>2. /\ i + 1 \in 1 .. Len(obuf[s]) /\ Endless(obuf[s], i + 1)
          /\ \A v : Reaches(obuf[s], i + 1, v) => Reaches(Tail(obuf[s]), i, v)
      BY <1>3, <3>1, TailRun
    <3> QED BY <1>2, <1>3, <2>2, <3>2 DEF BufRun
  <2> QED BY <2>1, <2>2
<1>8. TxRun'
  <2>1. Len(tx') = Len(tx) + 1 /\ tx'[Len(tx) + 1] = w /\ \A i \in 1 .. Len(tx) : tx'[i] = tx[i]
    BY <1>1, <1>2, <1>3
  <2>2. \A i \in 1 .. Len(tx) : Endless(tx, i) => tx[i].src = s /\ Reaches(tx, i, w)
    BY <1>1, <1>2, <1>4 DEF TxRun
  <2>3. ASSUME NEW i \in 1 .. Len(tx) + 1, Endless(tx', i)
        PROVE  grant' = s /\ tx'[i].src = s /\ Reaches(tx', i, After(w))
    <3>1. ~IsLast(w) /\ Reaches(tx', i, After(w))
      BY <1>1, <1>2, <1>3, <2>2, <2>3, AppendRun
    <3>2. grant' = s
      BY <1>1, <3>1
    <3>3. tx'[i].src = s
      <4>1. CASE i = Len(tx) + 1
        BY <1>5, <2>1, <4>1
      <4>2. CASE i # Len(tx) + 1
        <5>1. Len(tx) \in Nat
          BY <1>2
        <5>2. i \in 1 .. Len(tx) /\ \A j \in i .. Len(tx) : j \in 1 .. Len(tx) /\ j \in i .. Len(tx) + 1
          BY <4>2, <5>1, SMT
        <5>3. Endless(tx, i)
          BY <2>1, <2>3, <5>2 DEF Endless
        <5> QED BY <2>1, <2>2, <5>2, <5>3
      <4> QED BY <4>1, <4>2
    <3> QED BY <3>1, <3>2, <3>3
  <2>4. \A t : Upcoming(t)' = IF obuf'[t] = <<>> THEN next'[t] ELSE obuf'[t][1]
    BY DEF Upcoming
  <2>5. ASSUME NEW i \in 1 .. Len(tx'), Endless(tx', i)
        PROVE  tx'[i].src = grant' /\ Reaches(tx', i, Upcoming(grant)')
    <3>1. grant' = s /\ tx'[i].src = s /\ Reaches(tx', i, After(w))
      BY <2>1, <2>3, <2>5
    <3>2. Upcoming(grant)' = IF obuf'[grant'] = <<>> THEN next'[grant'] ELSE obuf'[grant'][1]
      BY DEF Upcoming
    <3>3. Upcoming(grant)' = After(w)
      BY <1>4, <2>4, <3>1, <3>2
    <3> QED BY <3>1, <3>3
  <2> QED BY <1>1, <2>5, SameEndless DEF TxRun, Reaches
<1> QED BY <1>6, <1>7, <1>8

LEMMA MacReadRest ==
    ASSUME RestInv, MacRead
    PROVE  WholeInv' /\ BufRun' /\ TxRun'
<1>1. UNCHANGED <<script, next, obuf, grant>> /\ tx' = Tail(tx) /\ Released(tx)
  BY DEF MacRead
<1>2. TypeOK /\ WholeInv /\ BufRun /\ TxRun /\ tx \in Seq(Word)
  BY DEF RestInv, RInv, EInv, TypeOK
<1>3. tx # <<>> /\ Len(Tail(tx)) = Len(tx) - 1
  BY <1>1, <1>2, ReleasedNonempty
<1>4. WholeInv' /\ BufRun'
  BY <1>1, <1>2, SameEndless DEF WholeInv, BufRun, Upcoming, Reaches
<1>5. TxRun'
  <2> SUFFICES ASSUME NEW i \in 1 .. Len(tx'), Endless(tx', i)
               PROVE  tx'[i].src = grant /\ Reaches(tx', i, Upcoming(grant))
    BY <1>1, SameEndless DEF TxRun, Reaches, Upcoming
  <2>1. /\ i + 1 \in 1 .. Len(tx) /\ Endless(tx, i + 1) /\ tx'[i] = tx[i + 1]
        /\ \A w : Reaches(tx, i + 1, w) => Reaches(tx', i, w)
    BY <1>1, <1>2, <1>3, TailRun
  <2> QED BY <1>2, <2>1 DEF TxRun
<1> QED BY <1>4, <1>5

LEMMA RestNext == RestInv /\ [Next]_vars => RestInv'
<1> SUFFICES ASSUME RestInv, [Next]_vars PROVE RestInv'
  OBVIOUS
<1>1. RInv'
  BY StepRInv DEF RestInv
<1>2. CASE \E s \in Sources : Write(s)
  BY <1>1, <1>2, WriteRest, WriteEnd DEF RestInv
<1>3. CASE Switch
  <2>1. WholeInv' /\ BufRun' /\ TxRun'
    BY <1>3, ArbitrateRest, TransferRest DEF Switch
  <2>2. UNCHANGED <<script, next>>
    BY <1>3 DEF Switch, Arbitrate, Transfer
  <2> QED BY <1>1, <2>1, <2>2 DEF RestInv, EndInv
<1>4. CASE MacRead
  <2>1. UNCHANGED <<script, next>>
    BY <1>4 DEF MacRead
  <2> QED BY <1>1, <1>4, <2>1, MacReadRest DEF RestInv, EndInv
<1>5. CASE UNCHANGED vars
  <2>1. UNCHANGED <<script, next, obuf, grant, tx>>
    BY <1>5 DEF vars
  <2>2. WholeInv' /\ BufRun' /\ TxRun'
    BY <2>1, SameEndless DEF RestInv, WholeInv, BufRun, TxRun, Upcoming, Reaches
  <2> QED BY <1>1, <2>1, <2>2 DEF RestInv, EndInv
<1> QED BY <1>2, <1>3, <1>4, <1>5 DEF Next

\* A word that a core has to send is within the FIFOs' depth of the start of its
\* frame.
LEMMA FrameFits ==
    ASSUME script \in Scripts, NEW w \in Word, Valid(w)
    PROVE  w.pos \in Nat /\ w.pos >= 1 /\ w.pos <= OutDepth[w.src] /\ w.pos <= TxDepth
<1> DEFINE s == w.src
           f == w.frame
<1>1. s \in Sources /\ f \in Nat /\ w.pos \in Nat /\ Len(script[s]) \in Nat
  BY WordFields, ScriptsOK
<1>2. f >= 1 /\ f <= Len(script[s]) /\ w.pos >= 1 /\ w.pos <= script[s][f]
  BY DEF Valid
<1> HIDE DEF s, f
<1>3. f \in 1 .. Len(script[s])
  BY <1>1, <1>2, SMT
<1>4. script[s][f] \in 1 .. OutDepth[s] /\ script[s][f] <= TxDepth
  BY <1>1, <1>3, EgressAssumption, Zenon
<1>5. OutDepth[s] \in Nat /\ TxDepth \in Nat
  BY <1>1, Depths
<1>6. w.pos <= OutDepth[s] /\ w.pos <= TxDepth
  BY <1>1, <1>2, <1>4, <1>5, SMT
<1> QED BY <1>1, <1>2, <1>6 DEF s

LEMMA EndlessIfHeld ==
    ASSUME NEW q \in Seq(Word), ~Released(q), q # <<>>
    PROVE  Endless(q, 1) /\ 1 \in 1 .. Len(q) /\ q[1] \in Word /\ Len(q) \in Nat
<1>1. Len(q) \in Nat /\ Len(q) # 0
  BY EmptyIfZero
<1>2. 1 \in 1 .. Len(q)
  BY <1>1, SMT
<1> QED BY <1>1, <1>2 DEF Endless, Released

LEMMA NobodyBefore == \A s : Without(s, 1, 1 - 1) /\ Without(s, 1, 0)
<1>1. \A m : m \notin 1 .. 1 - 1 /\ m \notin 1 .. 0
  BY SMT
<1> QED BY <1>1 DEF Without

\* Between frames the next word on the line is the first of a frame.
LEMMA FollowWhole ==
    ASSUME NEW w \in Word, w.frame > 0 => IsLast(w)
    PROVE  /\ Follow(w).pos = 1
           /\ Follow(w).frame = w.frame + 1
<1>1. w.frame \in Nat
  BY WordFields
<1>2. CASE w.frame = 0
  BY <1>2 DEF Follow
<1>3. CASE w.frame # 0
  <2>1. IsLast(w)
    BY <1>1, <1>3, SMT
  <2> QED BY <1>3, <2>1 DEF Follow, After
<1> QED BY <1>2, <1>3

\* What is held back in network_tx_fifo begins a frame, and the switch has the
\* rest of it.
LEMMA HeldTx ==
    ASSUME RestInv, ~Released(tx), tx # <<>>
    PROVE  grant \in Sources /\ Upcoming(grant).pos = 1 + Len(tx)
<1>1. /\ TypeOK /\ LineInv /\ TxInOrder /\ TxRun /\ tx \in Seq(Word)
      /\ latest \in [Sources -> Word]
  BY DEF RestInv, RInv, EInv, TypeOK
<1>2. Endless(tx, 1) /\ 1 \in 1 .. Len(tx) /\ tx[1] \in Word /\ Len(tx) \in Nat
  BY <1>1, EndlessIfHeld
<1>3. tx[1].src = grant /\ Reaches(tx, 1, Upcoming(grant)) /\ grant \in Sources
  BY <1>1, <1>2, WordFields DEF TxRun
<1>4. tx[1] = Follow(latest[grant])
  BY <1>1, <1>2, <1>3, NobodyBefore DEF TxInOrder
<1>5. ~Underway(grant) /\ latest[grant] \in Word
  BY <1>1, <1>3 DEF LineInv
<1>6. tx[1].pos = 1
  BY <1>4, <1>5, FollowWhole DEF Underway
<1>7. Upcoming(grant).pos = 1 + (Len(tx) - 1 + 1)
  BY <1>3, <1>6 DEF Reaches
<1> QED BY <1>2, <1>3, <1>7, SMT

LEMMA HeldSwitch ==
    ASSUME RestInv, ~Released(tx), grant # None
    PROVE  grant \in Sources /\ CanTransfer(grant)
<1>1. /\ TypeOK /\ GrantInv /\ ValidInv /\ tx \in Seq(Word)
      /\ obuf \in [Sources -> Seq(Word)] /\ script \in Scripts /\ grant \in Sources
  BY DEF RestInv, RInv, EInv, TypeOK
<1>2. Released(obuf[grant]) /\ obuf[grant] \in Seq(Word)
  BY <1>1 DEF GrantInv
<1> DEFINE w == obuf[grant][1]
<1>3. obuf[grant] # <<>> /\ Len(obuf[grant]) \in Nat /\ Len(obuf[grant]) >= 1 /\ w \in Word
  BY <1>2, ReleasedNonempty
<1>4. 1 \in 1 .. Len(obuf[grant])
  BY <1>3, SMT
<1>5. Valid(w) /\ Upcoming(grant) = w
  BY <1>1, <1>3, <1>4 DEF ValidInv, Upcoming
<1>6. w.pos \in Nat /\ w.pos >= 1 /\ w.pos <= TxDepth
  BY <1>1, <1>3, <1>5, FrameFits
<1> HIDE DEF w
<1>7. TxDepth \in Nat /\ Len(tx) \in Nat
  BY <1>1, Depths
<1>8. Len(tx) < TxDepth
  <2>1. CASE tx = <<>>
    <3>1. Len(tx) = 0
      BY <2>1
    <3> QED BY <1>6, <1>7, <3>1, SMT
  <2>2. CASE tx # <<>>
    <3>1. w.pos = 1 + Len(tx)
      BY <1>5, <2>2, HeldTx
    <3> QED BY <1>6, <1>7, <3>1, SMT
  <2> QED BY <2>1, <2>2
<1> QED BY <1>1, <1>2, <1>8 DEF CanTransfer, HasRoom

LEMMA HeldBuffers ==
    ASSUME RestInv, grant = None, NEW s \in Sources, ~Released(obuf[s]), ~CanWrite(s)
    PROVE  obuf[s] = <<>> /\ ~(next[s].frame <= Len(script[s]))
<1>1. /\ TypeOK /\ Sourced /\ ValidInv /\ WholeInv /\ BufRun
      /\ obuf[s] \in Seq(Word) /\ next[s] \in Word /\ script \in Scripts
      /\ next[s].src = s
  BY DEF RestInv, RInv, EInv, TypeOK, Sourced
<1>2. OutDepth[s] \in Nat /\ Len(obuf[s]) \in Nat /\ Len(script[s]) \in Nat
  BY <1>1, Depths, ScriptsOK
<1>3. ASSUME obuf[s] # <<>>
      PROVE  /\ next[s].frame = obuf[s][1].frame /\ next[s].pos = 1 + Len(obuf[s])
             /\ Valid(obuf[s][1]) /\ obuf[s][1].src = s
  <2>1. Endless(obuf[s], 1) /\ 1 \in 1 .. Len(obuf[s]) /\ obuf[s][1] \in Word
    BY <1>1, <1>3, EndlessIfHeld
  <2>2. Reaches(obuf[s], 1, next[s])
    BY <1>1, <2>1 DEF BufRun
  <2>3. obuf[s][1].pos = 1
    BY <1>1, <1>3, Depths DEF WholeInv, Upcoming
  <2>4. next[s].pos = 1 + (Len(obuf[s]) - 1 + 1)
    BY <2>2, <2>3 DEF Reaches
  <2>5. next[s].pos = 1 + Len(obuf[s])
    BY <1>2, <2>4, SMT
  <2> QED BY <1>1, <2>1, <2>2, <2>5 DEF Reaches, ValidInv, Sourced
<1>4. ~(next[s].frame <= Len(script[s]))
  <2> SUFFICES ASSUME next[s].frame <= Len(script[s]) PROVE FALSE
    OBVIOUS
  <2>1. next[s].pos \in Nat /\ next[s].pos >= 1 /\ next[s].pos <= OutDepth[s]
    BY <1>1, FrameFits DEF ValidInv
  <2>2. Len(obuf[s]) < OutDepth[s]
    <3>1. CASE obuf[s] = <<>>
      <4>1. Len(obuf[s]) = 0
        BY <3>1
      <4> QED BY <1>2, <2>1, <4>1, SMT
    <3>2. CASE obuf[s] # <<>>
      BY <1>2, <1>3, <2>1, <3>2, SMT
    <3> QED BY <3>1, <3>2
  <2> QED BY <2>2 DEF CanWrite, HasRoom
<1>5. obuf[s] = <<>>
  <2> SUFFICES ASSUME obuf[s] # <<>> PROVE FALSE
    OBVIOUS
  <2>1. next[s].frame <= Len(script[s])
    BY <1>3 DEF Valid
  <2> QED BY <1>4, <2>1
<1> QED BY <1>4, <1>5

\* Of the buffers that hold a frame one is the first in turn.
LEMMA SomeFirst ==
    ASSUME TypeOK, NEW s \in Sources, Released(obuf[s])
    PROVE  \E t \in Sources : Released(obuf[t]) /\ FirstInTurn(t)
<1> DEFINE F == {t \in Sources : Released(obuf[t])}
           D == {Distance(t) : t \in F}
<1>1. turn \in Sources
  BY DEF TypeOK
<1>2. D \in SUBSET Nat /\ D # {}
  <2>1. \A t \in Sources : Distance(t) \in 0 .. N - 1
    BY <1>1, DistanceRange
  <2>2. \A t \in Sources : Distance(t) \in Nat
    BY <2>1
  <2> QED BY <2>2
<1>3. PICK n \in D : \A m \in D : n <= m
  <2> DEFINE R == OpToRel(<, Nat)
  <2>1. \A x, y \in Nat : x < y => <<x, y>> \in R
    BY DEF OpToRel
  <2>2. IsWellFoundedOn(R, Nat)
    BY NatLessThanWellFounded
  <2> HIDE DEF D, R
  <2>3. PICK n \in D : \A m \in D : <<m, n>> \notin R
    BY <1>2, <2>2, WFMin
  <2>4. \A m \in D : ~(m < n)
    BY <1>2, <2>1, <2>3
  <2>5. n \in Nat /\ D \subseteq Nat
    BY <1>2
  <2> QED BY <2>4, <2>5, SMT
<1>4. PICK t \in F : n = Distance(t)
  BY <1>3
<1>5. \A u \in F : Distance(t) <= Distance(u)
  BY <1>3, <1>4
<1> QED BY <1>4, <1>5 DEF FirstInTurn

\* Where nothing can move, every frame has been sent.
LEMMA StuckOnlyWhenDone ==
    ASSUME RestInv
    PROVE  NeverStuck
<1> SUFFICES ASSUME \A s \in Sources : ~CanWrite(s) /\ ~CanArbitrate(s) /\ ~CanTransfer(s),
                    ~Released(tx)
             PROVE  Merge!AllDone
  BY DEF NeverStuck
<1>1. /\ TypeOK /\ LineInv /\ ValidInv /\ TxInOrder
      /\ latest \in [Sources -> Word] /\ script \in Scripts
  BY DEF RestInv, RInv, EInv, TypeOK
<1>2. grant = None
  BY HeldSwitch
<1>3. tx = <<>> /\ Len(tx) = 0
  BY <1>2, HeldTx, Depths
<1>4. ASSUME NEW s \in Sources PROVE ~Underway(s) /\ latest[s].frame = Len(script[s])
  <2>1. ~Released(obuf[s])
    BY <1>1, <1>2, SomeFirst DEF CanArbitrate
  <2>2. obuf[s] = <<>> /\ ~(next[s].frame <= Len(script[s]))
    BY <1>2, <2>1, HeldBuffers
  <2>3. ~Underway(s) /\ latest[s] \in Word
    BY <1>1 DEF LineInv
  <2>4. next[s] = Follow(latest[s])
    BY <1>1, <1>3, <2>2, NobodyBefore DEF TxInOrder, Upcoming
  <2>5. next[s].frame = latest[s].frame + 1
    BY <2>3, <2>4, FollowWhole DEF Underway
  <2>6. latest[s].frame = 0 \/ latest[s].frame <= Len(script[latest[s].src])
    BY <1>1 DEF ValidInv, Valid
  <2>7. latest[s].src = s
    BY DEF RestInv, RInv, EInv, Sourced
  <2>8. latest[s].frame \in Nat /\ Len(script[s]) \in Nat
    BY <1>1, <2>3, WordFields, ScriptsOK
  <2>9. latest[s].frame = Len(script[s])
    BY <2>2, <2>5, <2>6, <2>7, <2>8, SMT
  <2> QED BY <2>3, <2>9
<1> QED BY <1>4 DEF Merge!AllDone

\* The tuple Ahead from its five parts, the first three with a number for every
\* source.
Parts(f, g, h, m, n) ==
    [i \in 1 .. 3 * N + 2 |->
        CASE i \in 1 .. N             -> f[i]
          [] i \in N + 1 .. 2 * N     -> g[i - N]
          [] i \in 2 * N + 1 .. 3 * N -> h[i - 2 * N]
          [] i = 3 * N + 1            -> m
          [] i = 3 * N + 2            -> n]

LEMMA PartsAt ==
    ASSUME NEW f, NEW g, NEW h, NEW m, NEW n
    PROVE  /\ \A s \in Sources : /\ Parts(f, g, h, m, n)[s] = f[s]
                                  /\ Parts(f, g, h, m, n)[N + s] = g[s]
                                  /\ Parts(f, g, h, m, n)[2 * N + s] = h[s]
           /\ Parts(f, g, h, m, n)[3 * N + 1] = m
           /\ Parts(f, g, h, m, n)[3 * N + 2] = n
<1>1. \A s \in Sources :
         /\ s \in 1 .. N /\ s \in 1 .. 3 * N + 2
         /\ N + s \in 1 .. 3 * N + 2 /\ N + s \notin 1 .. N /\ N + s \in N + 1 .. 2 * N
         /\ (N + s) - N = s
         /\ 2 * N + s \in 1 .. 3 * N + 2 /\ 2 * N + s \notin 1 .. N
         /\ 2 * N + s \notin N + 1 .. 2 * N /\ 2 * N + s \in 2 * N + 1 .. 3 * N
         /\ (2 * N + s) - 2 * N = s
  BY Ports, SMT DEF Sources
<1>2. /\ 3 * N + 1 \in 1 .. 3 * N + 2 /\ 3 * N + 2 \in 1 .. 3 * N + 2
      /\ \A i \in {3 * N + 1, 3 * N + 2} :
            i \notin 1 .. N /\ i \notin N + 1 .. 2 * N /\ i \notin 2 * N + 1 .. 3 * N
      /\ 3 * N + 2 # 3 * N + 1
  BY Ports, SMT
<1> DEFINE p == Parts(f, g, h, m, n)
<1>3. \A i \in 1 .. 3 * N + 2 :
         p[i] = CASE i \in 1 .. N             -> f[i]
                  [] i \in N + 1 .. 2 * N     -> g[i - N]
                  [] i \in 2 * N + 1 .. 3 * N -> h[i - 2 * N]
                  [] i = 3 * N + 1            -> m
                  [] i = 3 * N + 2            -> n
  BY DEF Parts
<1>4. ASSUME NEW i \in 1 .. 3 * N + 2
      PROVE  /\ i \in 1 .. N => p[i] = f[i]
             /\ i \notin 1 .. N /\ i \in N + 1 .. 2 * N => p[i] = g[i - N]
             /\ i \notin 1 .. N /\ i \notin N + 1 .. 2 * N /\ i \in 2 * N + 1 .. 3 * N
                   => p[i] = h[i - 2 * N]
  <2> DEFINE A == 1 .. N
             B == N + 1 .. 2 * N
             C == 2 * N + 1 .. 3 * N
             gi == g[i - N]
             hi == h[i - 2 * N]
             j == 3 * N + 1
             k == 3 * N + 2
  <2>1. p[i] = CASE i \in A -> f[i] [] i \in B -> gi [] i \in C -> hi [] i = j -> m [] i = k -> n
    BY <1>3
  <2>2. /\ i \in A => i \notin B /\ i \notin C /\ i # j /\ i # k
        /\ i \in B => i \notin C /\ i # j /\ i # k
        /\ i \in C => i # j /\ i # k
    BY Ports, SMT
  <2> HIDE DEF p, A, B, C, gi, hi, j, k
  <2>3. i \in A => p[i] = f[i]
    BY <2>1, <2>2
  <2>4. i \in B => p[i] = gi
    BY <2>1, <2>2
  <2>5. i \in C => p[i] = hi
    BY <2>1, <2>2
  <2> QED BY <2>3, <2>4, <2>5 DEF A, B, C, gi, hi
<1>5. p[3 * N + 1] = m /\ p[3 * N + 2] = n
  <2> HIDE DEF p
  <2> QED BY <1>2, <1>3
<1>6. ASSUME NEW s \in Sources
      PROVE  p[s] = f[s] /\ p[N + s] = g[s] /\ p[2 * N + s] = h[s]
  <2> HIDE DEF p
  <2>1. p[s] = f[s]
    BY <1>1, <1>4, Zenon
  <2>2. p[N + s] = g[(N + s) - N]
    BY <1>1, <1>4, Zenon
  <2>3. p[2 * N + s] = h[(2 * N + s) - 2 * N]
    BY <1>1, <1>4, Zenon
  <2> QED BY <1>1, <2>1, <2>2, <2>3, Zenon
<1> QED BY <1>5, <1>6

\* The places of the tuple are those of its parts.
LEMMA PlacesOfParts ==
    ASSUME NEW i \in 1 .. 3 * N + 2
    PROVE  \/ i \in Sources
           \/ i - N \in Sources /\ i = N + (i - N)
           \/ i - 2 * N \in Sources /\ i = 2 * N + (i - 2 * N)
           \/ i = 3 * N + 1
           \/ i = 3 * N + 2
  BY Ports, SMT DEF Sources

LEMMA PartsType ==
    ASSUME NEW f \in [Sources -> Nat], NEW g \in [Sources -> Nat], NEW h \in [Sources -> Nat],
           NEW m \in Nat, NEW n \in Nat
    PROVE  /\ Parts(f, g, h, m, n) \in [1 .. 3 * N + 2 -> Nat]
           /\ Len(Parts(f, g, h, m, n)) = 3 * N + 2
<1> DEFINE p == Parts(f, g, h, m, n)
<1>1. \E z : p = [i \in 1 .. 3 * N + 2 |-> z[i]]
  <2>1. p = [i \in 1 .. 3 * N + 2 |->
               CASE i \in 1 .. N             -> f[i]
                 [] i \in N + 1 .. 2 * N     -> g[i - N]
                 [] i \in 2 * N + 1 .. 3 * N -> h[i - 2 * N]
                 [] i = 3 * N + 1            -> m
                 [] i = 3 * N + 2            -> n]
    BY DEF Parts
  <2> QED BY <2>1
<1>2. ASSUME NEW i \in 1 .. 3 * N + 2 PROVE p[i] \in Nat
  <2>1. /\ \A s \in Sources : p[s] = f[s] /\ p[N + s] = g[s] /\ p[2 * N + s] = h[s]
        /\ p[3 * N + 1] = m /\ p[3 * N + 2] = n
    BY PartsAt
  <2> HIDE DEF p
  <2> QED BY <2>1, PlacesOfParts
<1>3. p \in [1 .. 3 * N + 2 -> Nat]
  <2> HIDE DEF p
  <2> QED BY <1>1, <1>2
<1>4. 3 * N + 2 \in Nat
  BY Ports, SMT
<1>5. Len(p) = 3 * N + 2
  <2>1. \A k \in Nat : \A q \in [1 .. k -> Nat] : Len(q) = k
    OBVIOUS
  <2> HIDE DEF p
  <2> QED BY <1>3, <1>4, <2>1
<1> QED BY <1>3, <1>5

\* The first part that differs decides.
LEMMA PartsBelow ==
    ASSUME NEW f1 \in [Sources -> Nat], NEW g1 \in [Sources -> Nat],
           NEW h1 \in [Sources -> Nat], NEW m1 \in Nat, NEW n1 \in Nat,
           NEW f2, NEW g2, NEW h2, NEW m2, NEW n2,
           \/ \E s \in Sources : f1[s] < f2[s] /\ \A t \in Sources \ {s} : f1[t] = f2[t]
           \/ /\ \A s \in Sources : f1[s] = f2[s]
              /\ \E s \in Sources : g1[s] < g2[s] /\ \A t \in Sources \ {s} : g1[t] = g2[t]
           \/ /\ \A s \in Sources : f1[s] = f2[s] /\ g1[s] = g2[s]
              /\ \E s \in Sources : h1[s] < h2[s] /\ \A t \in Sources \ {s} : h1[t] = h2[t]
           \/ /\ \A s \in Sources : f1[s] = f2[s] /\ g1[s] = g2[s] /\ h1[s] = h2[s]
              /\ m1 < m2
           \/ /\ \A s \in Sources : f1[s] = f2[s] /\ g1[s] = g2[s] /\ h1[s] = h2[s]
              /\ m1 = m2
              /\ n1 < n2
    PROVE  Below(Parts(f1, g1, h1, m1, n1), Parts(f2, g2, h2, m2, n2))
<1> DEFINE a == Parts(f1, g1, h1, m1, n1)
           b == Parts(f2, g2, h2, m2, n2)
<1>1. /\ \A s \in Sources : a[s] = f1[s] /\ a[N + s] = g1[s] /\ a[2 * N + s] = h1[s]
      /\ a[3 * N + 1] = m1 /\ a[3 * N + 2] = n1
  BY PartsAt
<1>2. /\ \A s \in Sources : b[s] = f2[s] /\ b[N + s] = g2[s] /\ b[2 * N + s] = h2[s]
      /\ b[3 * N + 1] = m2 /\ b[3 * N + 2] = n2
  BY PartsAt
<1>3. Len(a) = 3 * N + 2
  BY PartsType, Zenon
<1> HIDE DEF a, b
<1>4. SUFFICES \E i \in 1 .. 3 * N + 2 : a[i] < b[i] /\ \A j \in 1 .. i - 1 : a[j] = b[j]
  BY <1>3 DEF Below, a, b
<1>5. CASE \E s \in Sources : f1[s] < f2[s] /\ \A t \in Sources \ {s} : f1[t] = f2[t]
  <2>1. PICK s \in Sources : f1[s] < f2[s] /\ \A t \in Sources \ {s} : f1[t] = f2[t]
    BY <1>5
  <2>2. s \in 1 .. 3 * N + 2 /\ \A j \in 1 .. s - 1 : j \in Sources \ {s}
    BY Ports, SMT DEF Sources
  <2> QED BY <1>1, <1>2, <2>1, <2>2
<1>6. CASE /\ \A s \in Sources : f1[s] = f2[s]
           /\ \E s \in Sources : g1[s] < g2[s] /\ \A t \in Sources \ {s} : g1[t] = g2[t]
  <2>1. PICK s \in Sources : g1[s] < g2[s] /\ \A t \in Sources \ {s} : g1[t] = g2[t]
    BY <1>6
  <2>2. N + s \in 1 .. 3 * N + 2
    BY Ports, SMT DEF Sources
  <2>3. ASSUME NEW j \in 1 .. (N + s) - 1 PROVE a[j] = b[j]
    <3>1. j \in Sources \/ (j - N \in Sources \ {s} /\ j = N + (j - N))
      BY Ports, SMT DEF Sources
    <3> QED BY <1>1, <1>2, <1>6, <2>1, <3>1
  <2> QED BY <1>1, <1>2, <2>1, <2>2, <2>3
<1>7. CASE /\ \A s \in Sources : f1[s] = f2[s] /\ g1[s] = g2[s]
           /\ \E s \in Sources : h1[s] < h2[s] /\ \A t \in Sources \ {s} : h1[t] = h2[t]
  <2>1. PICK s \in Sources : h1[s] < h2[s] /\ \A t \in Sources \ {s} : h1[t] = h2[t]
    BY <1>7
  <2>2. 2 * N + s \in 1 .. 3 * N + 2
    BY Ports, SMT DEF Sources
  <2>3. ASSUME NEW j \in 1 .. (2 * N + s) - 1 PROVE a[j] = b[j]
    <3>1. \/ j \in Sources
          \/ j - N \in Sources /\ j = N + (j - N)
          \/ j - 2 * N \in Sources \ {s} /\ j = 2 * N + (j - 2 * N)
      BY Ports, SMT DEF Sources
    <3> QED BY <1>1, <1>2, <1>7, <2>1, <3>1
  <2> QED BY <1>1, <1>2, <2>1, <2>2, <2>3
<1>8. CASE \A s \in Sources : f1[s] = f2[s] /\ g1[s] = g2[s] /\ h1[s] = h2[s]
  <2>1. ASSUME NEW j \in 1 .. (3 * N + 1) - 1 PROVE a[j] = b[j]
    <3>1. \/ j \in Sources
          \/ j - N \in Sources /\ j = N + (j - N)
          \/ j - 2 * N \in Sources /\ j = 2 * N + (j - 2 * N)
      BY Ports, SMT DEF Sources
    <3> QED BY <1>1, <1>2, <1>8, <3>1
  <2>2. /\ 3 * N + 1 \in 1 .. 3 * N + 2 /\ 3 * N + 2 \in 1 .. 3 * N + 2
        /\ \A j \in 1 .. (3 * N + 2) - 1 : j = 3 * N + 1 \/ j \in 1 .. (3 * N + 1) - 1
    BY Ports, SMT
  <2>3. CASE m1 < m2
    BY <1>1, <1>2, <2>1, <2>2, <2>3
  <2>4. CASE m1 = m2 /\ n1 < n2
    <3>1. \A j \in 1 .. (3 * N + 2) - 1 : a[j] = b[j]
      BY <1>1, <1>2, <2>1, <2>2, <2>4
    <3> QED BY <1>1, <1>2, <2>2, <2>4, <3>1
  <2>5. CASE ~(m1 < m2 \/ (m1 = m2 /\ n1 < n2))
    <3>1. \/ \E s \in Sources : f1[s] < f2[s]
          \/ \E s \in Sources : g1[s] < g2[s]
          \/ \E s \in Sources : h1[s] < h2[s]
      BY <2>5
    <3>2. \A k \in Nat : ~(k < k)
      BY SMT
    <3> QED BY <1>8, <3>1, <3>2
  <2> QED BY <2>3, <2>4, <2>5
<1> QED BY <1>5, <1>6, <1>7, <1>8

FramesLeft == [s \in Sources |-> Len(script[s]) + 1 - next[s].frame]
WordsLeft  == [s \in Sources |-> WordsAhead(s)]
Buffered   == [s \in Sources |-> Len(obuf[s])]
Free       == IF grant = None THEN 1 ELSE 0

LEMMA AheadParts == Ahead = Parts(FramesLeft, WordsLeft, Buffered, Len(tx), Free)
<1> DEFINE x(i) == CASE i \in 1 .. N             -> Len(script[i]) + 1 - next[i].frame
                     [] i \in N + 1 .. 2 * N     -> WordsAhead(i - N)
                     [] i \in 2 * N + 1 .. 3 * N -> Len(obuf[i - 2 * N])
                     [] i = 3 * N + 1            -> Len(tx)
                     [] i = 3 * N + 2            -> Free
           y(i) == CASE i \in 1 .. N             -> FramesLeft[i]
                     [] i \in N + 1 .. 2 * N     -> WordsLeft[i - N]
                     [] i \in 2 * N + 1 .. 3 * N -> Buffered[i - 2 * N]
                     [] i = 3 * N + 1            -> Len(tx)
                     [] i = 3 * N + 2            -> Free
<1>1. Ahead = [i \in 1 .. 3 * N + 2 |-> x(i)]
  BY DEF Ahead, Free
<1>2. Parts(FramesLeft, WordsLeft, Buffered, Len(tx), Free) = [i \in 1 .. 3 * N + 2 |-> y(i)]
  BY DEF Parts
<1>3. ASSUME NEW i \in 1 .. 3 * N + 2 PROVE x(i) = y(i)
  <2>1. /\ i \in 1 .. N => i \in Sources
        /\ i \in N + 1 .. 2 * N => i - N \in Sources
        /\ i \in 2 * N + 1 .. 3 * N => i - 2 * N \in Sources
    BY Ports, SMT DEF Sources
  <2>2. /\ i \in 1 .. N => Len(script[i]) + 1 - next[i].frame = FramesLeft[i]
        /\ i \in N + 1 .. 2 * N => WordsAhead(i - N) = WordsLeft[i - N]
        /\ i \in 2 * N + 1 .. 3 * N => Len(obuf[i - 2 * N]) = Buffered[i - 2 * N]
    BY <2>1, Zenon DEF FramesLeft, WordsLeft, Buffered
  <2> DEFINE a1 == Len(script[i]) + 1 - next[i].frame  a2 == FramesLeft[i]
             b1 == WordsAhead(i - N)                   b2 == WordsLeft[i - N]
             c1 == Len(obuf[i - 2 * N])                c2 == Buffered[i - 2 * N]
             l == Len(tx)
             A == 1 .. N
             B == N + 1 .. 2 * N
             C == 2 * N + 1 .. 3 * N
             j == 3 * N + 1
             k == 3 * N + 2
  <2>3. (i \in A => a1 = a2) /\ (i \in B => b1 = b2) /\ (i \in C => c1 = c2)
    BY <2>2
  <2>4. /\ i \in A => i \notin B /\ i \notin C /\ i # j /\ i # k
        /\ i \in B => i \notin C /\ i # j /\ i # k
        /\ i \in C => i # j /\ i # k
        /\ i \in A \/ i \in B \/ i \in C \/ i = j \/ i = k
    BY Ports, SMT
  <2> HIDE DEF a1, a2, b1, b2, c1, c2, l, A, B, C, j, k
  <2>5. (CASE i \in A -> a1 [] i \in B -> b1 [] i \in C -> c1 [] i = j -> l [] i = k -> Free)
          = (CASE i \in A -> a2 [] i \in B -> b2 [] i \in C -> c2 [] i = j -> l [] i = k -> Free)
    BY <2>3, <2>4
  <2> QED BY <2>5 DEF a1, a2, b1, b2, c1, c2, l, A, B, C, j, k
<1> HIDE DEF x, y
<1> QED BY <1>1, <1>2, <1>3

LEMMA AheadNat ==
    RestInv => /\ FramesLeft \in [Sources -> Nat]
               /\ WordsLeft \in [Sources -> Nat]
               /\ Buffered \in [Sources -> Nat]
               /\ Len(tx) \in Nat /\ Free \in Nat
<1> SUFFICES ASSUME RestInv
             PROVE  /\ \A s \in Sources : /\ Len(script[s]) + 1 - next[s].frame \in Nat
                                          /\ WordsAhead(s) \in Nat
                                          /\ Len(obuf[s]) \in Nat
                    /\ Len(tx) \in Nat /\ Free \in Nat
  BY DEF FramesLeft, WordsLeft, Buffered
<1>1. /\ TypeOK /\ Sourced /\ ValidInv /\ EndInv /\ script \in Scripts
      /\ next \in [Sources -> Word] /\ obuf \in [Sources -> Seq(Word)] /\ tx \in Seq(Word)
  BY DEF RestInv, RInv, EInv, TypeOK
<1>2. ASSUME NEW s \in Sources
      PROVE  /\ Len(script[s]) + 1 - next[s].frame \in Nat
             /\ WordsAhead(s) \in Nat
             /\ Len(obuf[s]) \in Nat
  <2>1. /\ next[s] \in Word /\ next[s].frame \in Nat /\ next[s].pos \in Nat
        /\ Len(script[s]) \in Nat /\ next[s].src = s
        /\ \A f \in 1 .. Len(script[s]) : script[s][f] \in Nat
    BY <1>1, WordFields, ScriptsOK DEF Sourced
  <2>2. next[s].frame <= Len(script[s]) + 1 /\ next[s].frame >= 1
    BY <1>1 DEF EndInv, ValidInv
  <2>3. Len(script[s]) + 1 - next[s].frame \in Nat
    BY <2>1, <2>2, SMT
  <2>4. WordsAhead(s) \in Nat
    <3>1. CASE next[s].frame <= Len(script[s])
      <4>1. next[s].frame \in 1 .. Len(script[s])
        BY <2>1, <2>2, <3>1, SMT
      <4>2. next[s].pos <= script[s][next[s].frame] /\ script[s][next[s].frame] \in Nat
        BY <1>1, <2>1, <3>1, <4>1 DEF ValidInv, Valid
      <4>3. script[s][next[s].frame] - next[s].pos \in Nat
        BY <2>1, <4>2, SMT
      <4> QED BY <3>1, <4>3 DEF WordsAhead
    <3>2. CASE ~(next[s].frame <= Len(script[s]))
      BY <3>2 DEF WordsAhead
    <3> QED BY <3>1, <3>2
  <2> QED BY <1>1, <2>3, <2>4
<1>3. Len(tx) \in Nat /\ Free \in Nat
  BY <1>1 DEF Free
<1> QED BY <1>2, <1>3

\* A step leaves less to do.
LEMMA WriteDescends ==
    ASSUME RestInv, NEW s \in Sources, Write(s)
    PROVE  \/ \E u \in Sources : /\ FramesLeft'[u] < FramesLeft[u]
                                 /\ \A t \in Sources \ {u} : FramesLeft'[t] = FramesLeft[t]
           \/ /\ \A t \in Sources : FramesLeft'[t] = FramesLeft[t]
              /\ \E u \in Sources : /\ WordsLeft'[u] < WordsLeft[u]
                                    /\ \A t \in Sources \ {u} : WordsLeft'[t] = WordsLeft[t]
<1>1. /\ script' = script /\ next' = [next EXCEPT ![s] = After(next[s])]
      /\ next[s].frame <= Len(script[s])
      /\ next \in [Sources -> Word] /\ script \in Scripts /\ Sourced /\ ValidInv
  BY DEF Write, CanWrite, RestInv, RInv, EInv, TypeOK
<1>2. next'[s] = After(next[s]) /\ \A t \in Sources \ {s} : next'[t] = next[t]
  BY <1>1
<1>3. /\ next[s].frame \in Nat /\ next[s].pos \in Nat /\ Len(script[s]) \in Nat
      /\ next[s].frame >= 1 /\ next[s].src = s
      /\ \A f \in 1 .. Len(script[s]) : script[s][f] \in Nat
  BY <1>1, WordFields, ScriptsOK DEF Sourced, ValidInv
<1>4. next[s].frame \in 1 .. Len(script[s])
  BY <1>1, <1>3, SMT
<1>5. script[s][next[s].frame] \in Nat
  BY <1>3, <1>4
<1>6. \A t \in Sources \ {s} : FramesLeft'[t] = FramesLeft[t] /\ WordsLeft'[t] = WordsLeft[t]
  BY <1>1, <1>2 DEF FramesLeft, WordsLeft, WordsAhead
<1>7. /\ FramesLeft[s] = Len(script[s]) + 1 - next[s].frame
      /\ FramesLeft'[s] = Len(script[s]) + 1 - After(next[s]).frame
      /\ WordsLeft[s] = script[s][next[s].frame] - next[s].pos
  BY <1>1, <1>2 DEF FramesLeft, WordsLeft, WordsAhead
<1>8. CASE IsLast(next[s])
  <2>1. After(next[s]).frame = next[s].frame + 1
    BY <1>8 DEF After
  <2>2. FramesLeft'[s] < FramesLeft[s]
    BY <1>3, <1>7, <2>1, SMT
  <2> QED BY <1>6, <2>2
<1>9. CASE ~IsLast(next[s])
  <2>1. After(next[s]).frame = next[s].frame /\ After(next[s]).pos = next[s].pos + 1
    BY <1>9 DEF After
  <2>2. WordsLeft'[s] = script[s][next[s].frame] - (next[s].pos + 1)
    BY <1>1, <1>2, <2>1 DEF WordsLeft, WordsAhead
  <2>3. WordsLeft'[s] < WordsLeft[s]
    BY <1>3, <1>5, <1>7, <2>2, SMT
  <2>4. FramesLeft'[s] = FramesLeft[s]
    BY <1>7, <2>1
  <2> QED BY <1>6, <2>3, <2>4
<1> QED BY <1>8, <1>9

LEMMA Descends ==
    ASSUME RestInv, RestInv', Next
    PROVE  Below(Ahead', Ahead)
<1>1. Ahead = Parts(FramesLeft, WordsLeft, Buffered, Len(tx), Free)
  BY AheadParts
<1>2. Ahead' = Parts(FramesLeft', WordsLeft', Buffered', Len(tx'), Free')
  <2>1. (Ahead = Parts(FramesLeft, WordsLeft, Buffered, Len(tx), Free))'
    BY AheadParts, PTL
  <2> QED BY <2>1
<1>3. /\ FramesLeft' \in [Sources -> Nat] /\ WordsLeft' \in [Sources -> Nat]
      /\ Buffered' \in [Sources -> Nat] /\ Len(tx') \in Nat /\ Free' \in Nat
  <2>1. (RestInv => /\ FramesLeft \in [Sources -> Nat]
                    /\ WordsLeft \in [Sources -> Nat]
                    /\ Buffered \in [Sources -> Nat]
                    /\ Len(tx) \in Nat /\ Free \in Nat)'
    BY AheadNat, PTL
  <2> QED BY <2>1
<1>4. /\ TypeOK /\ obuf \in [Sources -> Seq(Word)] /\ tx \in Seq(Word)
      /\ Len(tx) \in Nat /\ \A t \in Sources : Len(obuf[t]) \in Nat
  <2>1. TypeOK /\ obuf \in [Sources -> Seq(Word)] /\ tx \in Seq(Word)
    BY DEF RestInv, RInv, EInv, TypeOK
  <2> QED BY <2>1
<1> DEFINE F1 == FramesLeft' F2 == FramesLeft
           W1 == WordsLeft'  W2 == WordsLeft
           B1 == Buffered'   B2 == Buffered
           L1 == Len(tx')    L2 == Len(tx)
           G1 == Free'       G2 == Free
<1>5. SUFFICES \/ \E s \in Sources : F1[s] < F2[s] /\ \A t \in Sources \ {s} : F1[t] = F2[t]
               \/ /\ \A s \in Sources : F1[s] = F2[s]
                  /\ \E s \in Sources : W1[s] < W2[s] /\ \A t \in Sources \ {s} : W1[t] = W2[t]
               \/ /\ \A s \in Sources : F1[s] = F2[s] /\ W1[s] = W2[s]
                  /\ \E s \in Sources : B1[s] < B2[s] /\ \A t \in Sources \ {s} : B1[t] = B2[t]
               \/ /\ \A s \in Sources : F1[s] = F2[s] /\ W1[s] = W2[s] /\ B1[s] = B2[s]
                  /\ L1 < L2
               \/ /\ \A s \in Sources : F1[s] = F2[s] /\ W1[s] = W2[s] /\ B1[s] = B2[s]
                  /\ L1 = L2
                  /\ G1 < G2
  <2>1. Below(Parts(F1, W1, B1, L1, G1), Parts(F2, W2, B2, L2, G2))
    <3>1. /\ F1 \in [Sources -> Nat] /\ W1 \in [Sources -> Nat] /\ B1 \in [Sources -> Nat]
          /\ L1 \in Nat /\ G1 \in Nat
      BY <1>3
    <3> HIDE DEF F1, F2, W1, W2, B1, B2, L1, L2, G1, G2
    <3> QED BY <1>5, <3>1, PartsBelow
  <2> QED BY <1>1, <1>2, <2>1
<1>6. CASE \E s \in Sources : Write(s)
  BY <1>6, WriteDescends
<1>7. CASE \E s \in Sources : Arbitrate(s)
  <2>1. UNCHANGED <<script, next, obuf, tx>> /\ grant = None /\ grant' \in Sources
    BY <1>7 DEF Arbitrate, CanArbitrate
  <2>2. F1 = F2 /\ W1 = W2 /\ B1 = B2 /\ L1 = L2
    BY <2>1 DEF FramesLeft, WordsLeft, WordsAhead, Buffered
  <2>3. G1 = 0 /\ G2 = 1
    BY <2>1, Depths DEF Free
  <2>4. G1 < G2
    BY <2>3, SMT
  <2> QED BY <2>2, <2>4
<1>8. CASE \E s \in Sources : Transfer(s)
  <2>1. PICK s \in Sources : Transfer(s)
    BY <1>8
  <2>2. /\ UNCHANGED <<script, next>> /\ Released(obuf[s])
        /\ obuf' = [obuf EXCEPT ![s] = Tail(obuf[s])]
    BY <2>1 DEF Transfer, CanTransfer
  <2>3. obuf'[s] = Tail(obuf[s]) /\ \A t \in Sources \ {s} : obuf'[t] = obuf[t]
    BY <1>4, <2>2
  <2>4. Len(obuf'[s]) = Len(obuf[s]) - 1
    BY <1>4, <2>2, <2>3, ReleasedNonempty
  <2>5. F1 = F2 /\ W1 = W2
    BY <2>2 DEF FramesLeft, WordsLeft, WordsAhead
  <2>6. B1[s] = Len(obuf'[s]) /\ \A t \in Sources : B2[t] = Len(obuf[t])
    BY DEF Buffered
  <2>7. B1[s] < B2[s]
    BY <1>4, <2>4, <2>6, SMT
  <2>8. \A t \in Sources \ {s} : B1[t] = B2[t]
    BY <2>3 DEF Buffered
  <2> QED BY <2>5, <2>7, <2>8
<1>9. CASE MacRead
  <2>1. UNCHANGED <<script, next, obuf, grant>> /\ tx' = Tail(tx) /\ Released(tx)
    BY <1>9 DEF MacRead
  <2>2. F1 = F2 /\ W1 = W2 /\ B1 = B2
    BY <2>1 DEF FramesLeft, WordsLeft, WordsAhead, Buffered
  <2>3. Len(tx') = Len(tx) - 1
    BY <1>4, <2>1, ReleasedNonempty
  <2>4. L1 < L2
    BY <1>4, <2>3, SMT
  <2> QED BY <2>2, <2>4
<1> QED BY <1>6, <1>7, <1>8, <1>9 DEF Next, Switch

\* The transmit path comes to rest, and only with every frame sent, for every
\* number of ports, every traffic, all depths a whole frame fits into and every
\* schedule: until then some core, the switch or the MAC has a step to take, and
\* each step leaves less to do, which cannot go on for ever (UdpStreamProofs,
\* DescentEnds; mb_bd.tcl:358-363, 395-403 and 505-510).
THEOREM Rest == Spec => ComesToRest
<1>1. RestInv => NeverStuck /\ Ahead \in [1 .. 3 * N + 2 -> Nat]
  <2> SUFFICES ASSUME RestInv
               PROVE  NeverStuck /\ Ahead \in [1 .. 3 * N + 2 -> Nat]
    OBVIOUS
  <2>1. Ahead \in [1 .. 3 * N + 2 -> Nat]
    BY AheadNat, AheadParts, PartsType
  <2> QED BY <2>1, StuckOnlyWhenDone
<1>2. RestInv /\ RestInv' /\ [Next]_vars => [Below(Ahead', Ahead)]_vars
  BY Descends
<1>3. Spec => []RestInv
  BY RestInit, RestNext, PTL DEF Spec, Safety
<1> QED BY <1>1, <1>2, <1>3, PTL DEF Spec, Safety, ComesToRest
=============================================================================
