-------------------------- MODULE ResponderProofs --------------------------
(***************************************************************************)
(* Theorems about Responders, for every traffic, any number of frames and  *)
(* any registers.                                                          *)
(***************************************************************************)
EXTENDS Responders, Integers, SequenceTheorems, FiniteSetTheorems, TLAPS

-----------------------------------------------------------------------------
(* Induction and recursion *)

\* A set of numbers that holds 0 and with each its successor holds them all: on
\* the elements up to one it lacks, n |-> n + 1 would be an injection that misses 0.
LEMMA Induction ==
    ASSUME NEW S \in SUBSET Nat, 0 \in S, \A n \in S : n + 1 \in S
    PROVE  Nat \subseteq S
<1> SUFFICES ASSUME NEW m \in Nat, m \notin S PROVE FALSE
  OBVIOUS
<1> DEFINE T == {n \in 0 .. m : n \in S}
           U == T \ {0}
           f == [n \in T |-> n + 1]
<1>1. T \in SUBSET (0 .. m) /\ 0 \in T
  BY SMT
<1>2. IsFiniteSet(0 .. m)
  BY FS_Interval
<1>3. IsFiniteSet(T)
  BY <1>1, <1>2, FS_Subset
<1>4. IsFiniteSet(U) /\ Cardinality(U) < Cardinality(T)
  <2>1. IsFiniteSet(U) /\ Cardinality(U) = Cardinality(T) - 1
    BY <1>1, <1>3, FS_RemoveElement
  <2>2. Cardinality(T) \in Nat
    BY <1>3, FS_CardinalityType
  <2> QED BY <2>1, <2>2, SMT
<1>5. \A n \in T : n + 1 \in U
  <2>1. ASSUME NEW n \in T PROVE n + 1 \in U
    <3>1. n \in 0 .. m /\ n \in S /\ n # m
      OBVIOUS
    <3>2. n + 1 \in 0 .. m /\ n + 1 # 0
      BY <3>1, SMT
    <3> QED BY <3>1, <3>2
  <2> QED BY <2>1
<1>6. f \in [T -> U]
  BY <1>5
<1>7. \A x, y \in T : x # y => f[x] # f[y]
  <2>1. \A x, y \in 0 .. m : x # y => x + 1 # y + 1
    BY SMT
  <2> QED BY <1>1, <2>1
<1> HIDE DEF T, U, f
<1> QED BY <1>3, <1>4, <1>6, <1>7, FS_PigeonHole

\* h[n] makes a member of S of a member of S.
Steps(L, S, h) == \A n \in 1 .. L : \A v \in S : h[n][v] \in S

\* g starts with c, and h makes each value of the value before it.
Iterates(g, L, S, c, h) ==
    g \in [0 .. L -> S] /\ g[0] = c /\ \A n \in 1 .. L : g[n] = h[n][g[n - 1]]

\* A function on 0 .. L whose value is made from the value before it exists.
LEMMA Recursion ==
    ASSUME NEW L \in Nat, NEW S, NEW c \in S, NEW h, Steps(L, S, h)
    PROVE  \E g : Iterates(g, L, S, c, h)
<1> DEFINE Up(k) == \E g \in [0 .. k -> S] :
                       g[0] = c /\ \A n \in 1 .. k : g[n] = h[n][g[n - 1]]
           T == {k \in Nat : k <= L => Up(k)}
<1>1. Up(0)
  <2> DEFINE g == [n \in 0 .. 0 |-> c]
  <2>1. 0 \in 0 .. 0 /\ \A n \in 1 .. 0 : FALSE
    BY SMT
  <2>2. g \in [0 .. 0 -> S] /\ g[0] = c
    BY <2>1
  <2> HIDE DEF g
  <2> QED BY <2>1, <2>2
<1>2. ASSUME NEW k \in Nat, Up(k), k + 1 <= L
      PROVE  Up(k + 1)
  <2>1. PICK g \in [0 .. k -> S] : g[0] = c /\ \A n \in 1 .. k : g[n] = h[n][g[n - 1]]
    BY <1>2
  <2> HIDE DEF Up
  <2> DEFINE e == h[k + 1][g[k]]
             gg == [n \in 0 .. k + 1 |-> IF n = k + 1 THEN e ELSE g[n]]
  <2>2. k \in 0 .. k /\ k + 1 \in 1 .. L /\ (k + 1) - 1 = k
    BY <1>2, SMT
  <2>3. e \in S
    BY <2>1, <2>2 DEF Steps
  <2> HIDE DEF e
  <2>4. \A n \in 0 .. k + 1 : n # k + 1 => n \in 0 .. k
    BY SMT
  <2>5. \A n \in 0 .. k : n # k + 1 /\ n \in 0 .. k + 1
    BY SMT
  <2>6. gg \in [0 .. k + 1 -> S] /\ gg[k + 1] = e /\ \A n \in 0 .. k : gg[n] = g[n]
    <3>1. k + 1 \in 0 .. k + 1
      BY SMT
    <3> QED BY <2>1, <2>3, <2>4, <2>5, <3>1
  <2> HIDE DEF gg
  <2>7. gg[0] = c
    <3>1. 0 \in 0 .. k
      BY SMT
    <3> QED BY <2>1, <2>6, <3>1
  <2>8. ASSUME NEW n \in 1 .. k + 1
        PROVE  gg[n] = h[n][gg[n - 1]]
    <3>1. CASE n = k + 1
      <4>1. gg[n] = e /\ gg[n - 1] = g[k]
        BY <2>2, <2>6, <3>1
      <4> QED BY <3>1, <4>1 DEF e
    <3>2. CASE n # k + 1
      <4>1. n \in 1 .. k /\ n \in 0 .. k /\ n - 1 \in 0 .. k
        BY <3>2, SMT
      <4> QED BY <2>1, <2>6, <4>1
    <3> QED BY <3>1, <3>2
  <2> QED BY <2>6, <2>7, <2>8 DEF Up
<1> HIDE DEF Up
<1>3. 0 \in T
  BY <1>1
<1>4. ASSUME NEW n \in T
      PROVE  n + 1 \in T
  <2>1. n + 1 \in Nat /\ (n + 1 <= L => n <= L)
    BY SMT
  <2> QED BY <1>2, <2>1
<1>5. L \in T
  <2>1. T \in SUBSET Nat
    OBVIOUS
  <2> HIDE DEF T
  <2> QED BY <1>3, <1>4, <2>1, Induction
<1>6. L <= L
  BY SMT
<1>7. PICK g \in [0 .. L -> S] : g[0] = c /\ \A n \in 1 .. L : g[n] = h[n][g[n - 1]]
  BY <1>5, <1>6 DEF Up
<1>8. Iterates(g, L, S, c, h)
  BY <1>7 DEF Iterates
<1> QED BY <1>8

\* A function on 0 .. L whose values stay in a set from each to the next.
LEMMA StaysIn ==
    ASSUME NEW L \in Nat, NEW S, NEW g, g[0] \in S,
           \A n \in 1 .. L : g[n - 1] \in S => g[n] \in S
    PROVE  \A n \in 0 .. L : g[n] \in S
<1> DEFINE T == {k \in Nat : k <= L => g[k] \in S}
<1>1. 0 \in T
  OBVIOUS
<1>2. ASSUME NEW k \in T
      PROVE  k + 1 \in T
  <2>1. k + 1 \in Nat /\ (k + 1 <= L => k <= L /\ k + 1 \in 1 .. L) /\ (k + 1) - 1 = k
    BY SMT
  <2>2. k + 1 <= L => g[k + 1] \in S
    BY <2>1
  <2> QED BY <2>1, <2>2
<1>3. Nat \subseteq T
  <2>1. T \in SUBSET Nat
    OBVIOUS
  <2> HIDE DEF T
  <2> QED BY <1>1, <1>2, <2>1, Induction
<1>4. \A n \in 0 .. L : n \in Nat /\ n <= L
  BY SMT
<1> QED BY <1>3, <1>4

-----------------------------------------------------------------------------
(* The inductive invariant *)

Count == Len(frames)
FramesInv ==
    /\ core \in {"arp", "icmp", "udp_reg"} /\ Count \in Nat
    /\ \A n \in 1 .. Count : IsFrame(core, frames[n])

\* Where in its frame the core is.
Begin == End[done]
Finish == End[done + 1]

PlaceInv ==
    /\ phase \in {"headers", "drain", "decide", "pass", "discard", "entries", "check"}
    /\ done \in 0 .. Count
    /\ phase = "headers" => pos = Begin /\ req = [n |-> 0, next |-> 1]
    /\ phase # "headers" => /\ done + 1 <= Count /\ req.n = done + 1
                            /\ req \in [n : Nat, next : Nat]
    /\ phase = "drain" =>
          core = "arp" /\ pos \in Begin + HeadLen(R) .. Finish
    /\ phase = "decide" =>
          \/ core = "arp" /\ pos = Finish
          \/ core = "icmp" /\ pos = Begin + HeadLen(R)
    /\ phase = "pass" => core = "icmp"
    /\ phase = "discard" => core # "arp"
    /\ phase \in {"pass", "discard"} => pos \in Begin + 1 .. Finish - 1
    /\ phase \in {"entries", "check"} => core = "udp_reg"
    /\ phase = "entries" =>
          /\ req.next \in 1 .. Len(R.entries) + 1
          /\ pos = Begin + HeadLen(R) + EntryLen(R) * (req.next - 1)
    /\ phase = "check" => pos \in Begin + 1 .. Finish

\* The value of the register entry i names when the frame comes.
Found(f, i) == RegistersAfter[done][WordOf(f.entries[i].addr)]

Record == [addr : Nat, data : Nat]

\* data_buf holds an answer to each entry so far.
BufInv ==
    /\ buf \in Seq(Record)
    /\ phase \notin {"entries", "check", "discard"} => buf = <<>>
    /\ phase = "entries" =>
          /\ Len(buf) = IF R.kind = "read" THEN req.next - 1 ELSE 0
          /\ \A i \in 1 .. Len(buf) :
                buf[i] = [addr |-> R.entries[i].addr, data |-> Found(R, i)]

\* The packets the core may send.
Answers == {Answer(n) : n \in 1 .. Count}

SentInv ==
    /\ sent \in Seq(Answers)
    /\ sent = AnswersTo[IF phase \in {"check", "discard"} THEN done + 1 ELSE done]
    /\ phase # "pass" => open = Nothing
    /\ phase = "pass" =>
          /\ Mine
          /\ open = [heads |-> <<Heading(R.total)>>, words |-> pos - Begin, body |-> <<>>]

\* The first k entries of f have been written over the registers m, in their order.
Overwritten(f, k, m) ==
    \A w \in Words :
        \/ mem[w] = m[w] /\ \A i \in 1 .. k : WordOf(f.entries[i].addr) # w
        \/ \E i \in 1 .. k :
              /\ WordOf(f.entries[i].addr) = w /\ mem[w] = f.entries[i].data
              /\ \A j \in 1 .. k : WordOf(f.entries[j].addr) = w => j <= i

MemInv ==
    /\ mem \in [Words -> Nat]
    /\ phase \in {"headers", "drain", "decide", "pass"} => mem = RegistersAfter[done]
    /\ phase \in {"check", "discard"} => mem = RegistersAfter[done + 1]
    /\ phase = "entries" =>
          IF R.kind = "read" THEN mem = RegistersAfter[done]
                             ELSE Overwritten(R, req.next - 1, RegistersAfter[done])

PInv == FramesInv /\ PlaceInv /\ BufInv /\ SentInv /\ MemInv

-----------------------------------------------------------------------------
(* The recursive functions of the model *)

LEMMA EndIs ==
    ASSUME FramesInv
    PROVE  /\ End \in [0 .. Count -> Nat]
           /\ End = [n \in 0 .. Count |-> IF n = 0 THEN 0 ELSE End[n - 1] + frames[n].len]
<1> DEFINE h == [n \in 1 .. Count |-> [v \in Nat |-> v + frames[n].len]]
           P(e) == e = [n \in 0 .. Count |-> IF n = 0 THEN 0 ELSE e[n - 1] + frames[n].len]
<1>1. Count \in Nat /\ \A n \in 1 .. Count : frames[n].len \in Nat
  BY DEF FramesInv, IsFrame
<1>2. \A n \in 0 .. Count : n # 0 => n \in 1 .. Count /\ n - 1 \in 0 .. Count
  BY <1>1, SMT
<1>3. \E g : P(g)
  <2>1. Steps(Count, Nat, h)
    <3>1. \A n \in 1 .. Count : \A v \in Nat : v + frames[n].len \in Nat
      BY <1>1, SMT
    <3> QED BY <3>1 DEF Steps
  <2>2. PICK g : Iterates(g, Count, Nat, 0, h)
    <3> HIDE DEF h
    <3> QED BY <1>1, <2>1, Recursion
  <2>3. ASSUME NEW n \in 0 .. Count
        PROVE  g[n] = IF n = 0 THEN 0 ELSE g[n - 1] + frames[n].len
    BY <1>2, <2>2 DEF Iterates
  <2>4. P(g)
    BY <2>2, <2>3 DEF Iterates
  <2> QED BY <2>4
<1>4. P(End)
  <2>1. End = CHOOSE e : P(e)
    BY DEF End, Count
  <2> HIDE DEF P
  <2> QED BY <1>3, <2>1, Zenon
<1>5. \A n \in 0 .. Count : End[n] \in Nat
  <2>1. End[0] = 0
    BY <1>1, <1>4
  <2>2. ASSUME NEW n \in 1 .. Count, End[n - 1] \in Nat
        PROVE  End[n] \in Nat
    <3>1. n \in 0 .. Count /\ n # 0
      BY <1>1, SMT
    <3>2. End[n] = End[n - 1] + frames[n].len
      BY <1>4, <3>1
    <3> QED BY <1>1, <2>2, <3>2, SMT
  <2>3. \A g : g[0] \in Nat /\ (\A n \in 1 .. Count : g[n - 1] \in Nat => g[n] \in Nat)
                 => \A n \in 0 .. Count : g[n] \in Nat
    BY <1>1, StaysIn
  <2>4. End[0] \in Nat
    BY <2>1
  <2> QED BY <2>2, <2>3, <2>4, Zenon
<1>6. End = [n \in 0 .. Count |-> End[n]]
  <2> DEFINE b(n) == IF n = 0 THEN 0 ELSE End[n - 1] + frames[n].len
  <2>1. End = [n \in 0 .. Count |-> b(n)]
    BY <1>4
  <2> HIDE DEF b
  <2> QED BY <2>1
<1> QED BY <1>4, <1>5, <1>6

\* What the index of a frame allows.
LEMMA Indices ==
    ASSUME FramesInv
    PROVE  /\ Count \in Nat /\ 0 \in 0 .. Count
           /\ \A n \in 0 .. Count : n # 0 => n \in 1 .. Count /\ n - 1 \in 0 .. Count
           /\ \A n \in 1 .. Count : n \in 0 .. Count /\ n # 0 /\ n - 1 \in 0 .. Count /\ n \in Nat
  BY SMT DEF FramesInv

LEMMA EndSteps ==
    ASSUME FramesInv
    PROVE  /\ End \in [0 .. Count -> Nat]
           /\ End[0] = 0
           /\ \A n \in 1 .. Count : End[n] = End[n - 1] + frames[n].len
  BY EndIs, Indices

-----------------------------------------------------------------------------
(* The writes of a frame *)

\* The greatest of some of the first k numbers.
LEMMA Greatest ==
    ASSUME NEW k \in Nat, NEW W \in SUBSET (1 .. k), W # {}
    PROVE  \E i \in W : \A j \in W : j <= i
<1> DEFINE T == {m \in Nat : \A V \in SUBSET (1 .. m) :
                                V # {} => \E i \in V : \A j \in V : j <= i}
<1>1. 0 \in T
  <2>1. \A i \in 1 .. 0 : FALSE
    BY SMT
  <2> QED BY <2>1
<1>2. ASSUME NEW m \in T
      PROVE  m + 1 \in T
  <2>1. m + 1 \in Nat
    BY SMT
  <2>2. ASSUME NEW V \in SUBSET (1 .. m + 1), V # {}
        PROVE  \E i \in V : \A j \in V : j <= i
    <3>1. CASE m + 1 \in V
      <4>1. \A j \in 1 .. m + 1 : j <= m + 1
        BY SMT
      <4> QED BY <3>1, <4>1
    <3>2. CASE m + 1 \notin V
      <4>1. \A j \in 1 .. m + 1 : j # m + 1 => j \in 1 .. m
        BY SMT
      <4>2. V \in SUBSET (1 .. m)
        BY <3>2, <4>1
      <4> QED BY <2>2, <4>2
    <3> QED BY <3>1, <3>2
  <2> QED BY <2>1, <2>2
<1>3. k \in T
  <2>1. T \in SUBSET Nat
    OBVIOUS
  <2> HIDE DEF T
  <2> QED BY <1>1, <1>2, <2>1, Induction
<1> QED BY <1>3

\* The entries of f that name the word w, and the one that counts.
Naming(f, w) == {i \in 1 .. Len(f.entries) : WordOf(f.entries[i].addr) = w}

Counts(f, w, i) == i \in Naming(f, w) /\ \A j \in Naming(f, w) : j <= i

LEMMA WrittenIs ==
    ASSUME FramesInv, NEW n \in 1 .. Count, NEW m \in [Words -> Nat]
    PROVE  LET f == frames[n]
               v == WrittenBy(f, m)
           IN  /\ v \in [Words -> Nat]
               /\ f.kind # "write" => v = m
               /\ \A w \in Words :
                     /\ Naming(f, w) = {} => v[w] = m[w]
                     /\ f.kind = "write" =>
                           \A i : Counts(f, w, i) => v[w] = f.entries[i].data
<1> DEFINE f == frames[n]
           v == WrittenBy(f, m)
           c(w) == CHOOSE i \in Naming(f, w) : \A j \in Naming(f, w) : j <= i
<1>1. v = [w \in Words |-> IF f.kind = "write" /\ Naming(f, w) # {}
                           THEN f.entries[c(w)].data ELSE m[w]]
  BY DEF WrittenBy, Naming
<1>2. IsFrame(core, f) /\ Len(f.entries) \in Nat
  BY DEF FramesInv, IsFrame
<1>3. f.kind = "write" => core = "udp_reg" /\ \A i \in 1 .. Len(f.entries) : f.entries[i].data \in Nat
  BY <1>2 DEF FramesInv, IsFrame, Kinds
<1>4. \A w : Naming(f, w) \in SUBSET (1 .. Len(f.entries))
  BY DEF Naming
<1>5. \A w : Naming(f, w) # {} => Counts(f, w, c(w))
  <2> SUFFICES ASSUME NEW w, Naming(f, w) # {} PROVE Counts(f, w, c(w))
    OBVIOUS
  <2>1. \E i \in Naming(f, w) : \A j \in Naming(f, w) : j <= i
    BY <1>2, <1>4, Greatest
  <2> QED BY <2>1 DEF Counts
<1>6. \A w, i, j : Counts(f, w, i) /\ Counts(f, w, j) => i = j
  <2>1. \A i, j \in 1 .. Len(f.entries) : i <= j /\ j <= i => i = j
    BY <1>2, SMT
  <2> QED BY <1>4, <2>1 DEF Counts
<1>7. \A w, i : Counts(f, w, i) => i \in 1 .. Len(f.entries) /\ Naming(f, w) # {}
  BY <1>4 DEF Counts
<1> HIDE DEF f, v, c
<1>8. \A w \in Words : v[w] = IF f.kind = "write" /\ Naming(f, w) # {}
                              THEN f.entries[c(w)].data ELSE m[w]
  BY <1>1
<1>9. v \in [Words -> Nat]
  <2>1. ASSUME NEW w \in Words
        PROVE  (IF f.kind = "write" /\ Naming(f, w) # {}
                THEN f.entries[c(w)].data ELSE m[w]) \in Nat
    BY <1>3, <1>5, <1>7
  <2> QED BY <1>1, <2>1
<1>10. f.kind # "write" => v = m
  <2>1. ASSUME f.kind # "write" PROVE \A w \in Words : v[w] = m[w]
    BY <1>8, <2>1
  <2> QED BY <1>9, <2>1
<1>11. \A w \in Words : Naming(f, w) = {} => v[w] = m[w]
  BY <1>8
<1>12. f.kind = "write" => \A w \in Words : \A i : Counts(f, w, i) => v[w] = f.entries[i].data
  BY <1>5, <1>6, <1>7, <1>8
<1> QED BY <1>9, <1>10, <1>11, <1>12 DEF f, v

-----------------------------------------------------------------------------
(* The registers and the answers after each frame *)

Zeros == [w \in Words |-> 0]

LEMMA RegistersSteps ==
    ASSUME FramesInv
    PROVE  /\ RegistersAfter \in [0 .. Count -> [Words -> Nat]]
           /\ RegistersAfter[0] = Zeros
           /\ \A n \in 1 .. Count :
                 RegistersAfter[n] = WrittenBy(frames[n], RegistersAfter[n - 1])
<1> DEFINE S == [Words -> Nat]
           h == [n \in 1 .. Count |-> [m \in S |-> WrittenBy(frames[n], m)]]
           P(e) == e = [n \in 0 .. Count |-> IF n = 0 THEN Zeros
                                             ELSE WrittenBy(frames[n], e[n - 1])]
<1>1. \A n \in 1 .. Count : \A m \in S : WrittenBy(frames[n], m) \in S
  BY WrittenIs
<1>2. Zeros \in S
  BY DEF Zeros
<1>3. \E g : P(g)
  <2>1. Steps(Count, S, h)
    <3> HIDE DEF S
    <3> QED BY <1>1 DEF Steps
  <2>2. PICK g : Iterates(g, Count, S, Zeros, h)
    <3> HIDE DEF h, S
    <3> QED BY <1>2, <2>1, Indices, Recursion
  <2>3. ASSUME NEW n \in 0 .. Count
        PROVE  g[n] = IF n = 0 THEN Zeros ELSE WrittenBy(frames[n], g[n - 1])
    <3> HIDE DEF S
    <3> QED BY <2>2, Indices DEF Iterates
  <2>4. P(g)
    <3> HIDE DEF S
    <3> QED BY <2>2, <2>3 DEF Iterates
  <2> QED BY <2>4
<1>4. P(RegistersAfter)
  <2>1. RegistersAfter = CHOOSE e : P(e)
    BY DEF RegistersAfter, Count, Zeros
  <2> HIDE DEF P
  <2> QED BY <1>3, <2>1, Zenon
<1> HIDE DEF S
<1>5. RegistersAfter[0] = Zeros
  BY <1>4, Indices
<1>6. \A n \in 1 .. Count : RegistersAfter[n] = WrittenBy(frames[n], RegistersAfter[n - 1])
  BY <1>4, Indices
<1>7. \A n \in 0 .. Count : RegistersAfter[n] \in S
  <2>1. \A g : g[0] \in S /\ (\A n \in 1 .. Count : g[n - 1] \in S => g[n] \in S)
                 => \A n \in 0 .. Count : g[n] \in S
    BY Indices, StaysIn
  <2>2. RegistersAfter[0] \in S
    BY <1>2, <1>5
  <2>3. \A n \in 1 .. Count : RegistersAfter[n - 1] \in S => RegistersAfter[n] \in S
    BY <1>1, <1>6
  <2> QED BY <2>1, <2>2, <2>3, Zenon
<1>8. RegistersAfter = [n \in 0 .. Count |-> RegistersAfter[n]]
  <2> DEFINE b(n) == IF n = 0 THEN Zeros ELSE WrittenBy(frames[n], RegistersAfter[n - 1])
  <2>1. RegistersAfter = [n \in 0 .. Count |-> b(n)]
    BY <1>4
  <2> HIDE DEF b, P
  <2> QED BY <2>1
<1>9. RegistersAfter \in [0 .. Count -> S]
  <2> HIDE DEF P
  <2> QED BY <1>7, <1>8
<1> QED BY <1>5, <1>6, <1>9 DEF S

LEMMA AnswersSteps ==
    ASSUME FramesInv
    PROVE  /\ AnswersTo \in [0 .. Count -> Seq(Answers)]
           /\ AnswersTo[0] = <<>>
           /\ \A n \in 1 .. Count :
                 AnswersTo[n] = IF Answered(n) THEN Append(AnswersTo[n - 1], Answer(n))
                                               ELSE AnswersTo[n - 1]
<1> DEFINE S == Seq(Answers)
           next(n, e) == IF Answered(n) THEN Append(e, Answer(n)) ELSE e
           h == [n \in 1 .. Count |-> [e \in S |-> next(n, e)]]
           P(e) == e = [n \in 0 .. Count |-> IF n = 0 THEN <<>> ELSE next(n, e[n - 1])]
<1>1. \A n \in 1 .. Count : \A e \in S : next(n, e) \in S
  <2>1. \A n \in 1 .. Count : Answer(n) \in Answers
    BY DEF Answers
  <2> HIDE DEF Answers
  <2>2. ASSUME NEW n \in 1 .. Count, NEW e \in S
        PROVE  next(n, e) \in S
    <3>1. Append(e, Answer(n)) \in S
      BY <2>1, AppendProperties
    <3> QED BY <3>1
  <2> QED BY <2>2
<1>2. <<>> \in S
  BY EmptySeq
<1> HIDE DEF S, next
<1>3. \E g : P(g)
  <2>1. Steps(Count, S, h)
    BY <1>1 DEF Steps
  <2>2. PICK g : Iterates(g, Count, S, <<>>, h)
    <3> HIDE DEF h
    <3> QED BY <1>2, <2>1, Indices, Recursion
  <2>3. ASSUME NEW n \in 0 .. Count
        PROVE  g[n] = IF n = 0 THEN <<>> ELSE next(n, g[n - 1])
    BY <2>2, Indices DEF Iterates
  <2>4. P(g)
    BY <2>2, <2>3 DEF Iterates
  <2> QED BY <2>4
<1>4. P(AnswersTo)
  <2>1. AnswersTo = CHOOSE e : P(e)
    BY DEF AnswersTo, Count, next
  <2> HIDE DEF P
  <2> QED BY <1>3, <2>1, Zenon
<1>5. AnswersTo[0] = <<>>
  BY <1>4, Indices
<1>6. \A n \in 1 .. Count : AnswersTo[n] = next(n, AnswersTo[n - 1])
  BY <1>4, Indices
<1>7. \A n \in 0 .. Count : AnswersTo[n] \in S
  <2>1. \A g : g[0] \in S /\ (\A n \in 1 .. Count : g[n - 1] \in S => g[n] \in S)
                 => \A n \in 0 .. Count : g[n] \in S
    BY Indices, StaysIn
  <2>2. AnswersTo[0] \in S
    BY <1>2, <1>5
  <2>3. \A n \in 1 .. Count : AnswersTo[n - 1] \in S => AnswersTo[n] \in S
    BY <1>1, <1>6
  <2> QED BY <2>1, <2>2, <2>3, Zenon
<1>8. AnswersTo = [n \in 0 .. Count |-> AnswersTo[n]]
  <2> DEFINE b(n) == IF n = 0 THEN <<>> ELSE next(n, AnswersTo[n - 1])
  <2>1. AnswersTo = [n \in 0 .. Count |-> b(n)]
    BY <1>4
  <2> HIDE DEF b, P
  <2> QED BY <2>1
<1>9. AnswersTo \in [0 .. Count -> S]
  <2> HIDE DEF P
  <2> QED BY <1>7, <1>8
<1> QED BY <1>5, <1>6, <1>9 DEF S, next

-----------------------------------------------------------------------------
(* Words and frames *)

LEMMA FrameLen == ASSUME FramesInv PROVE \A n \in 1 .. Count : frames[n].len \in Nat \ {0}
<1> SUFFICES ASSUME NEW n \in 1 .. Count PROVE frames[n].len \in Nat \ {0}
  OBVIOUS
<1>1. IsFrame(core, frames[n])
  BY DEF FramesInv
<1>2. frames[n].len \in Nat /\ frames[n].len >= Max2(MinFrame, Needs(core, frames[n]))
  BY <1>1 DEF IsFrame
<1> DEFINE need == Needs(core, frames[n])
<1>3. Max2(MinFrame, need) = MinFrame \/ (Max2(MinFrame, need) = need /\ ~(MinFrame >= need))
  BY DEF Max2
<1>4. need \in Nat
  <2>1. {frames[n].opts, Len(frames[n].entries)} \subseteq Nat
    BY <1>1 DEF IsFrame
  <2> DEFINE o == frames[n].opts
             l == Len(frames[n].entries)
  <2>2. EthHdr + ArpPkt \in Nat /\ EthHdr + IpHdr + o + 4 \in Nat
          /\ EthHdr + IpHdr + UdpHdr + 4 * l \in Nat /\ EthHdr + IpHdr + UdpHdr + 8 * l \in Nat
    BY <2>1, SMT DEF EthHdr, ArpPkt, IpHdr, UdpHdr
  <2> QED BY <2>2 DEF Needs, EntryLen, FramesInv
<1> QED BY <1>2, <1>3, <1>4, SMT DEF MinFrame

LEMMA EndGrows ==
    ASSUME FramesInv
    PROVE  \A m, n \in 0 .. Count : m < n => End[m] < End[n]
<1> DEFINE T == {n \in Nat : n <= Count => \A m \in 0 .. Count : m < n => End[m] < End[n]}
<1>1. 0 \in T
  <2>1. \A m \in 0 .. Count : ~(m < 0)
    BY Indices, SMT
  <2> QED BY <2>1
<1>2. ASSUME NEW k \in T
      PROVE  k + 1 \in T
  <2>1. k + 1 \in Nat
    BY SMT
  <2>2. ASSUME k + 1 <= Count, NEW m \in 0 .. Count, m < k + 1
        PROVE  End[m] < End[k + 1]
    <3>1. /\ k + 1 \in 1 .. Count /\ k \in 0 .. Count /\ (k + 1) - 1 = k /\ k <= Count
          /\ m = k \/ m < k
      BY <2>2, Indices, SMT
    <3>2. End[k + 1] = End[k] + frames[k + 1].len
      BY <3>1, EndSteps
    <3>3. End[k] \in Nat /\ End[m] \in Nat /\ frames[k + 1].len \in Nat \ {0}
      BY <3>1, EndSteps, FrameLen
    <3>4. m < k => End[m] < End[k]
      BY <3>1
    <3> QED BY <3>1, <3>2, <3>3, <3>4, SMT
  <2> QED BY <2>1, <2>2
<1>3. Nat \subseteq T
  <2>1. T \in SUBSET Nat
    OBVIOUS
  <2> HIDE DEF T
  <2> QED BY <1>1, <1>2, <2>1, Induction
<1>4. \A n \in 0 .. Count : n \in Nat /\ n <= Count
  BY Indices, SMT
<1> QED BY <1>3, <1>4

\* The words of frame n, and the words that carry TLAST.
LEMMA WordsOfFrame ==
    ASSUME FramesInv, NEW n \in 1 .. Count, NEW p \in Nat, End[n - 1] < p, p <= End[n]
    PROVE  FrameOfWord(p) = n /\ (LastWord(p) <=> p = End[n])
<1>1. \A m \in 0 .. Count : End[m] \in Nat
  BY EndSteps
<1>2. ASSUME NEW m \in 1 .. Count, m # n
      PROVE  p # End[m] /\ ~(End[m - 1] < p /\ p <= End[m])
  <2>1. /\ m \in 0 .. Count /\ n \in 0 .. Count /\ m - 1 \in 0 .. Count /\ n - 1 \in 0 .. Count
        /\ n - 1 < n /\ m - 1 < m
        /\ \/ m = n - 1
           \/ m < n - 1
           \/ n = m - 1 /\ n < m
           \/ n < m - 1 /\ n < m
    BY <1>2, Indices, SMT
  <2>2. End[m] <= End[n - 1] \/ (End[n] <= End[m - 1] /\ End[n] < End[m])
    <3>1. m < n - 1 => End[m] < End[n - 1]
      BY <2>1, EndGrows
    <3>2. n < m - 1 => End[n] < End[m - 1]
      BY <2>1, EndGrows
    <3>3. n < m => End[n] < End[m]
      BY <2>1, EndGrows
    <3>4. End[m] \in Nat /\ End[n] \in Nat /\ End[n - 1] \in Nat /\ End[m - 1] \in Nat
      BY <1>1, <2>1
    <3>5. (m = n - 1 => End[m] = End[n - 1]) /\ (n = m - 1 => End[n] = End[m - 1])
      OBVIOUS
    <3> QED BY <2>1, <3>1, <3>2, <3>3, <3>4, <3>5, SMT
  <2>3. End[m] \in Nat /\ End[n] \in Nat /\ End[n - 1] \in Nat /\ End[m - 1] \in Nat
    BY <1>1, <2>1
  <2> QED BY <2>2, <2>3, SMT
<1>3. \A m \in 1 .. Count : p \in (End[m - 1] + 1) .. End[m] <=> End[m - 1] < p /\ p <= End[m]
  <2> SUFFICES ASSUME NEW m \in 1 .. Count
               PROVE  p \in (End[m - 1] + 1) .. End[m] <=> End[m - 1] < p /\ p <= End[m]
    OBVIOUS
  <2>1. End[m] \in Nat /\ End[m - 1] \in Nat
    BY <1>1, Indices
  <2> QED BY <2>1, SMT
<1>4. FrameOfWord(p) = n
  <2>1. n \in 1 .. Count /\ p \in (End[n - 1] + 1) .. End[n]
    BY <1>3
  <2>2. \A m \in 1 .. Count : p \in (End[m - 1] + 1) .. End[m] => m = n
    BY <1>2, <1>3
  <2> DEFINE Q(m) == m \in 1 .. Count /\ p \in (End[m - 1] + 1) .. End[m]
  <2>3. FrameOfWord(p) = CHOOSE m \in 1 .. Count : p \in (End[m - 1] + 1) .. End[m]
    BY DEF FrameOfWord, Count
  <2> QED BY <2>1, <2>2, <2>3
<1>5. LastWord(p) <=> p = End[n]
  BY <1>2 DEF LastWord, Count
<1> QED BY <1>4, <1>5

\* The frame the core has come to.
LEMMA FrameAt ==
    ASSUME FramesInv, done \in 0 .. Count, done + 1 <= Count
    PROVE  /\ done \in Nat /\ done + 1 \in 1 .. Count /\ done + 1 \in 0 .. Count /\ done + 1 # 0
           /\ Begin \in Nat /\ Finish \in Nat /\ Begin < Finish
           /\ Finish = Begin + frames[done + 1].len
           /\ Finish <= End[Count]
           /\ IsFrame(core, frames[done + 1])
           /\ \A p \in Begin + 1 .. Finish :
                 FrameOfWord(p) = done + 1 /\ (LastWord(p) <=> p = Finish)
<1> DEFINE n == done + 1
<1>1. done \in Nat /\ n \in 1 .. Count /\ n \in 0 .. Count /\ n # 0 /\ n - 1 = done
      /\ Count \in 0 .. Count /\ (n < Count \/ n = Count)
  BY Indices, SMT
<1>2. Begin = End[n - 1] /\ Finish = End[n]
  BY <1>1 DEF Begin, Finish
<1>3. Begin \in Nat /\ Finish \in Nat /\ Finish = Begin + frames[n].len
  BY <1>1, <1>2, EndSteps DEF Begin
<1>4. Begin < Finish
  BY <1>1, <1>3, FrameLen, SMT
<1>5. Finish <= End[Count]
  <2>1. CASE n < Count
    <3>1. End[n] < End[Count]
      BY <1>1, <2>1, EndGrows
    <3>2. End[n] \in Nat /\ End[Count] \in Nat
      BY <1>1, EndSteps
    <3> QED BY <1>2, <3>1, <3>2, SMT
  <2>2. CASE n = Count
    <3>1. End[Count] = Finish
      BY <1>2, <2>2, Zenon
    <3> QED BY <1>3, <3>1, SMT
  <2> QED BY <1>1, <2>1, <2>2
<1>6. IsFrame(core, frames[n])
  BY <1>1 DEF FramesInv
<1>7. ASSUME NEW p \in Begin + 1 .. Finish
      PROVE  FrameOfWord(p) = n /\ (LastWord(p) <=> p = Finish)
  <2>1. p \in Nat /\ Begin < p /\ p <= Finish
    BY <1>3, SMT
  <2> HIDE DEF n
  <2> QED BY <1>1, <1>2, <2>1, WordsOfFrame
<1> QED BY <1>1, <1>3, <1>4, <1>5, <1>6, <1>7

\* A frame is as long as what the core reads of it by count, and an ICMP frame longer.
LEMMA HeadFits ==
    ASSUME FramesInv, NEW f, IsFrame(core, f)
    PROVE  /\ f.len \in Nat /\ Len(f.entries) \in Nat /\ f.kind \in Kinds[core]
           /\ HeadLen(f) \in Nat \ {0} /\ HeadLen(f) <= f.len
           /\ core = "icmp" => HeadLen(f) < f.len
           /\ core = "udp_reg" => /\ Len(f.entries) \in 1 .. 192
                                  /\ EntryLen(f) \in {4, 8}
                                  /\ HeadLen(f) + EntryLen(f) * Len(f.entries) <= f.len
<1> DEFINE o == f.opts
           l == Len(f.entries)
           need == Needs(core, f)
<1>1. o \in Nat /\ l \in Nat /\ f.len \in Nat /\ f.kind \in Kinds[core]
  BY DEF IsFrame
<1>2. need \in Nat => need <= f.len
  <2>1. Max2(MinFrame, need) = need \/ (Max2(MinFrame, need) = MinFrame /\ MinFrame >= need)
    BY DEF Max2
  <2>2. f.len >= Max2(MinFrame, need)
    BY DEF IsFrame
  <2> QED BY <1>1, <2>1, <2>2, SMT DEF MinFrame
<1>3. CASE core = "arp"
  <2>1. need = 42 /\ HeadLen(f) = 42
    BY <1>3, SMT DEF Needs, HeadLen, EthHdr, ArpPkt
  <2> HIDE DEF need
  <2> QED BY <1>1, <1>2, <1>3, <2>1
<1>4. CASE core = "icmp"
  <2>1. need = 14 + 20 + o + 4 /\ HeadLen(f) = 14 + 20 + o + 4
    BY <1>4, SMT DEF Needs, HeadLen, EthHdr, IpHdr
  <2>2. f.len > need
    BY <1>4 DEF IsFrame
  <2> HIDE DEF need, o
  <2>3. HeadLen(f) \in Nat \ {0} /\ HeadLen(f) <= f.len /\ HeadLen(f) < f.len
    BY <1>1, <2>1, <2>2, SMT
  <2> QED BY <1>1, <1>4, <2>3
<1>5. CASE core = "udp_reg"
  <2>1. l \in 1 .. 192
    <3>1. DataBuf \div 8 = 192
      BY SMT DEF DataBuf
    <3>2. l \in 1 .. DataBuf \div 8
      BY <1>5 DEF IsFrame
    <3> QED BY <3>1, <3>2
  <2>2. /\ need = 14 + 20 + 8 + EntryLen(f) * l
        /\ HeadLen(f) = 42
    BY <1>5, SMT DEF Needs, HeadLen, EthHdr, IpHdr, UdpHdr
  <2> HIDE DEF need, l
  <2>3. CASE f.kind = "read"
    <3>1. EntryLen(f) = 4 /\ need = 42 + 4 * l
      BY <1>1, <2>2, <2>3 DEF EntryLen
    <3>2. need \in Nat /\ HeadLen(f) + EntryLen(f) * l = need
      BY <1>1, <2>2, <3>1, SMT
    <3>3. HeadLen(f) \in Nat \ {0} /\ HeadLen(f) <= f.len /\ HeadLen(f) + EntryLen(f) * l <= f.len
      BY <1>1, <1>2, <2>2, <3>1, <3>2, SMT
    <3> QED BY <1>1, <1>5, <2>1, <3>1, <3>3 DEF l
  <2>4. CASE f.kind # "read"
    <3>1. EntryLen(f) = 8 /\ need = 42 + 8 * l
      BY <1>1, <2>2, <2>4 DEF EntryLen
    <3>2. need \in Nat /\ HeadLen(f) + EntryLen(f) * l = need
      BY <1>1, <2>2, <3>1, SMT
    <3>3. HeadLen(f) \in Nat \ {0} /\ HeadLen(f) <= f.len /\ HeadLen(f) + EntryLen(f) * l <= f.len
      BY <1>1, <1>2, <2>2, <3>1, <3>2, SMT
    <3> QED BY <1>1, <1>5, <2>1, <3>1, <3>3 DEF l
  <2> QED BY <2>3, <2>4
<1> QED BY <1>3, <1>4, <1>5 DEF FramesInv

\* No step changes the traffic, nor what it amounts to.
LEMMA Traffic ==
    ASSUME UNCHANGED <<core, frames>>
    PROVE  /\ Count' = Count /\ End' = End
           /\ RegistersAfter' = RegistersAfter /\ AnswersTo' = AnswersTo /\ Answers' = Answers
           /\ FramesInv => FramesInv'
<1>1. Count' = Count /\ End' = End
  BY DEF Count, End
<1>2. RegistersAfter' = RegistersAfter
  BY DEF RegistersAfter
<1>3. \A n : Answer(n)' = Answer(n)
  BY <1>2 DEF Answer
<1>4. \A n : Answered(n)' = Answered(n)
  BY DEF Answered
<1>5. Answers' = Answers
  BY <1>1, <1>3 DEF Answers
<1>6. AnswersTo' = AnswersTo
  BY <1>3, <1>4 DEF AnswersTo
<1>7. FramesInv => FramesInv'
  BY <1>1 DEF FramesInv, Count
<1> QED BY <1>1, <1>2, <1>5, <1>6, <1>7

-----------------------------------------------------------------------------
(* The place of the core in the traffic *)

\* What a step that stays in its frame, and one that ends it, does to the place.
LEMMA Stays ==
    ASSUME UNCHANGED <<core, frames, done>>
    PROVE  Begin' = Begin /\ Finish' = Finish /\ (req'.n = req.n => R' = R)
  BY Traffic DEF Begin, Finish, R

LEMMA RestartPlace ==
    ASSUME FramesInv, PlaceInv, phase # "headers", UNCHANGED <<core, frames>>,
           Restart, pos' = Finish
    PROVE  PlaceInv'
<1>1. done \in 0 .. Count /\ done + 1 <= Count
  BY DEF PlaceInv
<1>2. done + 1 \in 0 .. Count'
  BY <1>1, FrameAt, Traffic
<1>3. Begin' = Finish
  BY Traffic DEF Restart, Begin, Finish
<1> QED BY <1>2, <1>3 DEF Restart, PlaceInv

\* Outside "headers" the core is in a frame that was read.
LEMMA InFrame ==
    ASSUME FramesInv, PlaceInv, phase # "headers"
    PROVE  /\ done \in 0 .. Count /\ done + 1 <= Count /\ done + 1 \in 1 .. Count
           /\ R = frames[done + 1] /\ IsFrame(core, R)
           /\ req.n = done + 1 /\ req \in [n : Nat, next : Nat]
<1>1. done \in 0 .. Count /\ done + 1 <= Count /\ req.n = done + 1 /\ req \in [n : Nat, next : Nat]
  BY DEF PlaceInv
<1>2. done + 1 \in 1 .. Count
  BY <1>1, FrameAt
<1> QED BY <1>1, <1>2 DEF R, FramesInv

LEMMA PlaceHeaders ==
    ASSUME FramesInv, PlaceInv, ReadHeaders
    PROVE  PlaceInv' /\ done + 1 \in 1 .. Count /\ req' = [n |-> done + 1, next |-> 1]
<1>1. phase = "headers" /\ pos = Begin /\ done \in 0 .. Count /\ pos < End[Count]
  BY DEF ReadHeaders, PlaceInv, Count
<1>2. done + 1 <= Count
  <2>1. done # Count
    <3>1. End[Count] \in Nat
      BY EndSteps, Indices, SMT
    <3>2. ASSUME done = Count PROVE FALSE
      <4>1. Begin = End[Count]
        BY <3>2 DEF Begin
      <4> QED BY <1>1, <3>1, <4>1, SMT
    <3> QED BY <3>2
  <2> QED BY <1>1, <2>1, Indices, SMT
<1> DEFINE f == frames[done + 1]
<1>3. /\ done + 1 \in 1 .. Count /\ done + 1 \in Nat
      /\ Begin \in Nat /\ Finish \in Nat /\ Finish = Begin + f.len /\ IsFrame(core, f)
      /\ Begin < Finish
      /\ \A p \in Begin + 1 .. Finish : FrameOfWord(p) = done + 1
  <2>1. done + 1 \in Nat
    BY <1>1, Indices, SMT
  <2> QED BY <1>1, <1>2, <2>1, FrameAt
<1>4. FrameOfWord(pos + 1) = done + 1
  <2>1. pos + 1 \in Begin + 1 .. Finish
    BY <1>1, <1>3, SMT
  <2> QED BY <1>3, <2>1
<1>5. req' = [n |-> done + 1, next |-> 1]
  BY <1>4 DEF ReadHeaders
<1>6. pos' = Begin + HeadLen(f)
  BY <1>1, <1>4 DEF ReadHeaders, Read
<1>7. /\ HeadLen(f) \in Nat \ {0} /\ HeadLen(f) <= f.len
      /\ f.len \in Nat /\ Len(f.entries) \in Nat
      /\ core = "udp_reg" => EntryLen(f) \in {4, 8}
  BY <1>3, HeadFits
<1>8. UNCHANGED <<core, frames, done>>
  BY DEF ReadHeaders
<1>9. Begin' = Begin /\ Finish' = Finish /\ R' = f /\ HeadLen(R)' = HeadLen(f) /\ Count' = Count
  <2>1. R' = f
    BY <1>5, <1>8 DEF R
  <2>2. HeadLen(R)' = HeadLen(R')
    BY <1>8 DEF HeadLen
  <2>3. Begin' = Begin /\ Finish' = Finish /\ Count' = Count
    BY <1>8, Stays, Traffic
  <2> QED BY <2>1, <2>2, <2>3
<1>10. req' \in [n : Nat, next : Nat] /\ req'.n = done + 1
  BY <1>3, <1>5
<1>11. pos' \in Begin + HeadLen(f) .. Finish
  BY <1>3, <1>6, <1>7, SMT
<1>12. core = "udp_reg" => /\ req'.next \in 1 .. Len(f.entries) + 1
                           /\ pos' = Begin + HeadLen(f) + EntryLen(f) * (req'.next - 1)
  <2> SUFFICES ASSUME core = "udp_reg"
               PROVE  /\ req'.next \in 1 .. Len(f.entries) + 1
                      /\ pos' = Begin + HeadLen(f) + EntryLen(f) * (req'.next - 1)
    OBVIOUS
  <2>1. req'.next = 1
    BY <1>5
  <2>2. EntryLen(f) * (1 - 1) = 0
    BY <1>7, SMT
  <2>3. Begin + HeadLen(f) + 0 = Begin + HeadLen(f)
    BY <1>3, <1>7, SMT
  <2>4. 1 \in 1 .. Len(f.entries) + 1
    BY <1>7, SMT
  <2> QED BY <1>6, <2>1, <2>2, <2>3, <2>4
<1>13. EntryLen(R)' = EntryLen(f)
  BY <1>9 DEF EntryLen
<1>14. phase' = IF core = "arp" THEN "drain" ELSE IF core = "icmp" THEN "decide" ELSE "entries"
  BY DEF ReadHeaders, FramesInv
<1> HIDE DEF f
<1>15. PlaceInv'
  <2>1. CASE core = "arp"
    <3>1. phase' = "drain"
      BY <1>14, <2>1
    <3> QED BY <1>1, <1>2, <1>8, <1>9, <1>10, <1>11, <2>1, <3>1 DEF PlaceInv
  <2>2. CASE core = "icmp"
    <3>1. phase' = "decide"
      BY <1>14, <2>2
    <3> QED BY <1>1, <1>2, <1>6, <1>8, <1>9, <1>10, <2>2, <3>1 DEF PlaceInv
  <2>3. CASE core = "udp_reg"
    <3>1. phase' = "entries"
      BY <1>14, <2>3
    <3> QED BY <1>1, <1>2, <1>8, <1>9, <1>10, <1>12, <1>13, <2>3, <3>1 DEF PlaceInv
  <2> QED BY <2>1, <2>2, <2>3 DEF FramesInv
<1> QED BY <1>3, <1>5, <1>15

LEMMA Here ==
    ASSUME FramesInv, PlaceInv, phase # "headers"
    PROVE  /\ Begin \in Nat /\ Finish \in Nat /\ Begin < Finish /\ Finish = Begin + R.len
           /\ R.len \in Nat /\ Len(R.entries) \in Nat /\ R.kind \in Kinds[core]
           /\ \A p \in Begin + 1 .. Finish : LastWord(p) <=> p = Finish
           /\ HeadLen(R) \in Nat \ {0} /\ HeadLen(R) <= R.len
           /\ core = "icmp" => HeadLen(R) < R.len
           /\ core = "udp_reg" => /\ Len(R.entries) \in 1 .. 192
                                  /\ EntryLen(R) \in {4, 8}
                                  /\ HeadLen(R) + EntryLen(R) * Len(R.entries) <= R.len
<1>1. done \in 0 .. Count /\ done + 1 <= Count /\ R = frames[done + 1] /\ IsFrame(core, R)
  BY InFrame
<1>2. /\ Begin \in Nat /\ Finish \in Nat /\ Begin < Finish /\ Finish = Begin + R.len
      /\ \A p \in Begin + 1 .. Finish : LastWord(p) <=> p = Finish
  BY <1>1, FrameAt
<1> QED BY <1>1, <1>2, HeadFits

\* A step inside a frame: what has to be shown of the phase it goes to.
LEMMA PlaceWithin ==
    ASSUME FramesInv, PlaceInv, phase # "headers",
           phase' \in {"drain", "decide", "pass", "discard", "entries", "check"},
           UNCHANGED <<core, frames, done>>, req' \in [n : Nat, next : Nat], req'.n = req.n,
           phase' = "drain" => core = "arp" /\ pos' \in Begin + HeadLen(R) .. Finish,
           phase' = "decide" => \/ core = "arp" /\ pos' = Finish
                                \/ core = "icmp" /\ pos' = Begin + HeadLen(R),
           phase' = "pass" => core = "icmp",
           phase' = "discard" => core # "arp",
           phase' \in {"pass", "discard"} => pos' \in Begin + 1 .. Finish - 1,
           phase' \in {"entries", "check"} => core = "udp_reg",
           phase' = "entries" =>
              /\ req'.next \in 1 .. Len(R.entries) + 1
              /\ pos' = Begin + HeadLen(R) + EntryLen(R) * (req'.next - 1),
           phase' = "check" => pos' \in Begin + 1 .. Finish
    PROVE  PlaceInv' /\ R' = R
<1>1. Begin' = Begin /\ Finish' = Finish /\ R' = R /\ Count' = Count
  BY Stays, Traffic
<1>2. HeadLen(R)' = HeadLen(R) /\ EntryLen(R)' = EntryLen(R)
  BY <1>1 DEF HeadLen, EntryLen
<1>3. done' \in 0 .. Count' /\ done' + 1 <= Count' /\ req'.n = done' + 1
  BY <1>1, InFrame
<1> QED BY <1>1, <1>2, <1>3 DEF PlaceInv

LEMMA PlaceDrain ==
    ASSUME FramesInv, PlaceInv, Drain
    PROVE  PlaceInv' /\ R' = R /\ UNCHANGED <<req, done, buf, mem, sent, open>>
<1>1. phase = "drain" /\ phase # "headers" /\ UNCHANGED <<core, frames, req, done, buf, mem, sent, open>>
  BY DEF Drain, Goto
<1>2. core = "arp" /\ pos \in Begin + HeadLen(R) .. Finish
  BY <1>1 DEF PlaceInv
<1>3. pos \in Begin + 1 .. Finish
  BY <1>1, <1>2, Here, SMT
<1>4. req \in [n : Nat, next : Nat]
  BY <1>1, InFrame
<1>5. CASE LastWord(pos)
  <2>1. phase' = "decide" /\ pos' = pos
    BY <1>5 DEF Drain, Goto
  <2>2. pos = Finish
    BY <1>1, <1>3, <1>5, Here
  <2> QED BY <1>1, <1>2, <1>4, <2>1, <2>2, PlaceWithin
<1>6. CASE ~LastWord(pos)
  <2>1. phase' = "drain" /\ pos' = pos + 1
    BY <1>1, <1>6 DEF Drain, Read
  <2>2. pos # Finish
    BY <1>1, <1>3, <1>6, Here
  <2>3. pos + 1 \in Begin + HeadLen(R) .. Finish
    <3>1. Begin \in Nat /\ Finish \in Nat /\ HeadLen(R) \in Nat
      BY <1>1, Here
    <3> QED BY <1>2, <2>2, <3>1, SMT
  <2> QED BY <1>1, <1>2, <1>4, <2>1, <2>3, PlaceWithin
<1> QED BY <1>1, <1>5, <1>6

LEMMA PlaceArp ==
    ASSUME FramesInv, PlaceInv, ArpAnswer
    PROVE  PlaceInv'
<1>1. core = "arp" /\ phase = "decide" /\ phase # "headers" /\ UNCHANGED <<core, frames, pos>>
  BY DEF ArpAnswer
<1>2. pos' = Finish
  BY <1>1 DEF PlaceInv
<1>3. Restart
  BY DEF ArpAnswer
<1> QED BY <1>1, <1>2, <1>3, RestartPlace

LEMMA PlaceIcmp ==
    ASSUME FramesInv, PlaceInv, IcmpAnswer
    PROVE  PlaceInv' /\ R' = R
<1>1. /\ core = "icmp" /\ phase = "decide" /\ phase # "headers"
      /\ UNCHANGED <<core, frames, pos, req, done>> /\ phase' \in {"pass", "discard"}
  BY DEF IcmpAnswer, Goto
<1>2. pos = Begin + HeadLen(R)
  BY <1>1 DEF PlaceInv
<1>3. pos \in Begin + 1 .. Finish - 1
  BY <1>1, <1>2, Here, SMT
<1>4. req \in [n : Nat, next : Nat]
  BY <1>1, InFrame
<1> QED BY <1>1, <1>3, <1>4, PlaceWithin

\* One word more of a frame that is passed or discarded.
LEMMA PlaceRead ==
    ASSUME FramesInv, PlaceInv, phase \in {"pass", "discard"}, Pass \/ Discard
    PROVE  /\ PlaceInv'
           /\ pos \in Begin + 1 .. Finish - 1 /\ pos' = pos + 1
           /\ LastWord(pos + 1) => pos + 1 = Finish /\ Restart
           /\ ~LastWord(pos + 1) => R' = R /\ UNCHANGED <<phase, req, buf, done>>
<1>1. phase # "headers" /\ UNCHANGED <<core, frames>> /\ pos' = pos + 1
  BY DEF Pass, Discard, Read
<1>2. pos \in Begin + 1 .. Finish - 1
  BY DEF PlaceInv
<1>3. pos + 1 \in Begin + 1 .. Finish
  BY <1>1, <1>2, Here, SMT
<1>4. CASE LastWord(pos + 1)
  <2>1. Restart
    BY <1>4 DEF Pass, Discard
  <2>2. pos' = Finish
    BY <1>1, <1>3, <1>4, Here
  <2> QED BY <1>1, <1>2, <1>4, <2>1, <2>2, RestartPlace
<1>5. CASE ~LastWord(pos + 1)
  <2>1. UNCHANGED <<phase, req, buf, done>>
    BY <1>5 DEF Pass, Discard
  <2>2. pos + 1 # Finish
    BY <1>1, <1>3, <1>5, Here
  <2>3. pos' \in Begin + 1 .. Finish - 1
    <3>1. Begin \in Nat /\ Finish \in Nat
      BY <1>1, Here
    <3> QED BY <1>1, <1>2, <2>2, <3>1, SMT
  <2>4. req' \in [n : Nat, next : Nat]
    BY <1>1, <2>1, InFrame
  <2>5. (phase = "pass" => core = "icmp") /\ (phase = "discard" => core # "arp")
    BY DEF PlaceInv
  <2>6. PlaceInv' /\ R' = R
    BY <1>1, <2>1, <2>3, <2>4, <2>5, PlaceWithin
  <2> QED BY <1>1, <1>2, <1>5, <2>1, <2>6
<1> QED BY <1>4, <1>5

LEMMA AtEntry ==
    ASSUME FramesInv, PlaceInv, phase = "entries"
    PROVE  /\ core = "udp_reg" /\ R.kind \in {"read", "write"}
           /\ Len(R.entries) \in 1 .. 192 /\ req.next \in 1 .. Len(R.entries) + 1
           /\ MoreEntries => req.next \in 1 .. Len(R.entries)
           /\ ~MoreEntries => req.next = Len(R.entries) + 1
           /\ pos \in Begin + 1 .. Finish
           /\ pos = Begin + HeadLen(R) + EntryLen(R) * (req.next - 1)
<1>1. /\ core = "udp_reg" /\ phase # "headers"
      /\ req.next \in 1 .. Len(R.entries) + 1
      /\ pos = Begin + HeadLen(R) + EntryLen(R) * (req.next - 1)
  BY DEF PlaceInv
<1>2. /\ Begin \in Nat /\ Finish = Begin + R.len /\ R.len \in Nat /\ HeadLen(R) \in Nat \ {0}
      /\ R.kind \in Kinds["udp_reg"]
      /\ Len(R.entries) \in 1 .. 192 /\ EntryLen(R) \in {4, 8}
      /\ HeadLen(R) + EntryLen(R) * Len(R.entries) <= R.len
  BY <1>1, Here
<1>3. R.kind \in {"read", "write"}
  BY <1>2 DEF Kinds
<1>4. /\ MoreEntries => req.next \in 1 .. Len(R.entries)
      /\ ~MoreEntries => req.next = Len(R.entries) + 1
  <2>1. \A l \in Nat : \A k \in 1 .. l + 1 : /\ k <= l => k \in 1 .. l
                                             /\ ~(k <= l) => k = l + 1
    BY SMT
  <2>2. \A l \in 1 .. 192 : l \in Nat
    BY SMT
  <2> QED BY <1>1, <1>2, <2>1, <2>2, Zenon DEF MoreEntries
<1>5. pos \in Begin + 1 .. Finish
  <2> DEFINE l == Len(R.entries)
             k == req.next
             e == EntryLen(R)
             h == HeadLen(R)
  <2>1. l \in Nat /\ k \in 1 .. l + 1 /\ h \in Nat \ {0} /\ e \in {4, 8} /\ Begin \in Nat
        /\ h + e * l <= R.len /\ R.len \in Nat
    BY <1>1, <1>2, SMT
  <2>2. pos = Begin + h + e * (k - 1) /\ Finish = Begin + R.len
    BY <1>1, <1>2
  <2> HIDE DEF l, k, e, h
  <2>3. CASE e = 4
    BY <2>1, <2>2, <2>3, SMT
  <2>4. CASE e = 8
    BY <2>1, <2>2, <2>4, SMT
  <2> QED BY <2>1, <2>3, <2>4
<1> QED BY <1>1, <1>2, <1>3, <1>4, <1>5

\* The next entry is read, whole.
LEMMA PlaceEntry ==
    ASSUME FramesInv, PlaceInv, phase = "entries", MoreEntries,
           UNCHANGED <<core, frames, phase, done>>, pos' = pos + EntryLen(R),
           req' = [req EXCEPT !.next = @ + 1]
    PROVE  PlaceInv' /\ R' = R /\ req'.next = req.next + 1
<1>1. /\ core = "udp_reg" /\ phase # "headers" /\ Len(R.entries) \in 1 .. 192
      /\ req.next \in 1 .. Len(R.entries)
      /\ pos = Begin + HeadLen(R) + EntryLen(R) * (req.next - 1)
  BY AtEntry
<1>2. req \in [n : Nat, next : Nat]
  BY <1>1, InFrame
<1>3. req'.n = req.n /\ req'.next = req.next + 1 /\ req' \in [n : Nat, next : Nat]
  <2>1. req.next + 1 \in Nat
    BY <1>2, SMT
  <2> QED BY <1>2, <2>1
<1>4. req'.next \in 1 .. Len(R.entries) + 1
  <2> DEFINE l == Len(R.entries)
             k == req.next
  <2>1. l \in Nat /\ k \in 1 .. l /\ req'.next = k + 1
    BY <1>1, <1>3
  <2> HIDE DEF l, k
  <2>2. k + 1 \in 1 .. l + 1
    BY <2>1, SMT
  <2> QED BY <2>1, <2>2 DEF l
<1>5. pos' = Begin + HeadLen(R) + EntryLen(R) * (req'.next - 1)
  <2> DEFINE k == req.next
             e == EntryLen(R)
             h == HeadLen(R)
  <2>1. Begin \in Nat /\ h \in Nat /\ e \in {4, 8} /\ k \in Nat
    BY <1>1, <1>2, Here
  <2>2. pos' = (Begin + h + e * (k - 1)) + e /\ req'.next = k + 1
    BY <1>1, <1>3
  <2> HIDE DEF k, e, h
  <2>3. e = 4 => pos' = Begin + h + e * ((k + 1) - 1)
    BY <2>1, <2>2, SMT
  <2>4. e = 8 => pos' = Begin + h + e * ((k + 1) - 1)
    BY <2>1, <2>2, SMT
  <2>5. pos' = Begin + h + e * (req'.next - 1)
    BY <2>1, <2>2, <2>3, <2>4
  <2> QED BY <2>5 DEF e, h
<1> QED BY <1>1, <1>3, <1>4, <1>5, PlaceWithin

LEMMA PlaceWrite ==
    ASSUME FramesInv, PlaceInv, WriteRegister
    PROVE  PlaceInv' /\ R' = R /\ req'.next = req.next + 1
<1>1. /\ phase = "entries" /\ MoreEntries /\ R.kind = "write"
      /\ UNCHANGED <<core, frames, phase, done>> /\ pos' = pos + 8
      /\ req' = [req EXCEPT !.next = @ + 1]
  BY DEF WriteRegister, Read
<1>2. EntryLen(R) = 8
  BY <1>1 DEF EntryLen
<1> QED BY <1>1, <1>2, PlaceEntry

LEMMA PlaceReadRegister ==
    ASSUME FramesInv, PlaceInv, ReadRegister
    PROVE  PlaceInv' /\ R' = R /\ req'.next = req.next + 1
<1>1. /\ phase = "entries" /\ MoreEntries /\ R.kind = "read"
      /\ UNCHANGED <<core, frames, phase, done>> /\ pos' = pos + 4
      /\ req' = [req EXCEPT !.next = @ + 1]
  BY DEF ReadRegister, Read
<1>2. EntryLen(R) = 4
  BY <1>1 DEF EntryLen
<1> QED BY <1>1, <1>2, PlaceEntry

LEMMA PlaceEntriesEnd ==
    ASSUME FramesInv, PlaceInv, EndOfWrites \/ Respond
    PROVE  PlaceInv' /\ R' = R
<1>1. /\ phase = "entries" /\ phase' = "check"
      /\ UNCHANGED <<core, frames, pos, req, done>>
  BY DEF EndOfWrites, Respond, Goto
<1>2. core = "udp_reg" /\ pos \in Begin + 1 .. Finish /\ phase # "headers"
  BY <1>1, AtEntry
<1>3. req \in [n : Nat, next : Nat]
  BY <1>1, <1>2, InFrame
<1> QED BY <1>1, <1>2, <1>3, PlaceWithin

LEMMA PlaceCheck ==
    ASSUME FramesInv, PlaceInv, CheckLast
    PROVE  PlaceInv' /\ (phase' = "headers" \/ R' = R)
<1>1. phase = "check" /\ phase # "headers" /\ UNCHANGED <<core, frames, pos>>
  BY DEF CheckLast
<1>2. core = "udp_reg" /\ pos \in Begin + 1 .. Finish
  BY <1>1 DEF PlaceInv
<1>3. CASE LastWord(pos)
  <2>1. Restart
    BY <1>3 DEF CheckLast
  <2>2. pos' = Finish
    BY <1>1, <1>2, <1>3, Here
  <2> QED BY <1>1, <2>1, <2>2, RestartPlace DEF Restart
<1>4. CASE ~LastWord(pos)
  <2>1. phase' = "discard" /\ UNCHANGED <<req, done>>
    BY <1>4 DEF CheckLast, Goto
  <2>2. pos # Finish
    BY <1>1, <1>2, <1>4, Here
  <2>3. pos' \in Begin + 1 .. Finish - 1
    <3>1. Begin \in Nat /\ Finish \in Nat
      BY <1>1, Here
    <3> QED BY <1>1, <1>2, <2>2, <3>1, SMT
  <2>4. req \in [n : Nat, next : Nat]
    BY <1>1, InFrame
  <2> QED BY <1>1, <1>2, <2>1, <2>3, <2>4, PlaceWithin
<1> QED BY <1>3, <1>4

LEMMA PlaceKept ==
    ASSUME FramesInv, PlaceInv, Next
    PROVE  FramesInv' /\ PlaceInv' /\ UNCHANGED <<core, frames>>
<1>1. UNCHANGED <<core, frames>>
  BY DEF Next, ReadHeaders, Drain, ArpAnswer, IcmpAnswer, Pass, Discard, WriteRegister,
         ReadRegister, EndOfWrites, Respond, CheckLast
<1>2. FramesInv'
  BY <1>1, Traffic
<1>3. PlaceInv'
  <2>1. CASE ReadHeaders BY <2>1, PlaceHeaders
  <2>2. CASE Drain BY <2>2, PlaceDrain
  <2>3. CASE ArpAnswer BY <2>3, PlaceArp
  <2>4. CASE IcmpAnswer BY <2>4, PlaceIcmp
  <2>5. CASE Pass \/ Discard
    <3>1. phase \in {"pass", "discard"}
      BY <2>5 DEF Pass, Discard
    <3> QED BY <2>5, <3>1, PlaceRead
  <2>6. CASE WriteRegister BY <2>6, PlaceWrite
  <2>7. CASE ReadRegister BY <2>7, PlaceReadRegister
  <2>8. CASE EndOfWrites \/ Respond BY <2>8, PlaceEntriesEnd
  <2>9. CASE CheckLast BY <2>9, PlaceCheck
  <2> QED BY <2>1, <2>2, <2>3, <2>4, <2>5, <2>6, <2>7, <2>8, <2>9 DEF Next
<1> QED BY <1>1, <1>2, <1>3

-----------------------------------------------------------------------------
(* data_buf *)

LEMMA EmptyBuf ==
    ASSUME buf' = <<>>,
           phase' = "entries" => (R'.kind = "read" => req'.next - 1 = 0)
    PROVE  BufInv'
<1>1. buf' \in Seq(Record) /\ Len(buf') = 0
  BY EmptySeq
<1>3. \A i \in 1 .. Len(buf') : FALSE
  BY <1>1, SMT
<1> QED BY <1>1, <1>3 DEF BufInv

\* An entry of a register request.
LEMMA EntryOf ==
    ASSUME FramesInv, PlaceInv, phase = "entries", NEW i \in 1 .. Len(R.entries)
    PROVE  /\ R.entries[i].addr \in Nat /\ WordOf(R.entries[i].addr) \in Words
           /\ R.kind = "write" => R.entries[i].data \in Nat
<1>1. core = "udp_reg" /\ IsFrame(core, R)
  BY AtEntry, InFrame
<1> QED BY <1>1 DEF IsFrame

LEMMA BufRead ==
    ASSUME PInv, ReadRegister
    PROVE  BufInv'
<1>1. /\ phase = "entries" /\ phase' = "entries" /\ MoreEntries /\ R.kind = "read"
      /\ UNCHANGED <<core, frames, done>>
  BY DEF ReadRegister
<1>2. R' = R /\ req'.next = req.next + 1
  BY PlaceReadRegister DEF PInv
<1>3. req.next \in 1 .. Len(R.entries) /\ Len(R.entries) \in 1 .. 192
  BY <1>1, AtEntry DEF PInv
<1> DEFINE k == req.next
           a == R.entries[k].addr
           e == [addr |-> a, data |-> mem[WordOf(a)]]
<1>4. buf' = Append(buf, e)
  BY DEF ReadRegister
<1>5. a \in Nat /\ WordOf(a) \in Words
  BY <1>1, <1>3, EntryOf DEF PInv
<1>6. mem \in [Words -> Nat] /\ mem = RegistersAfter[done]
  BY <1>1 DEF PInv, MemInv
<1>7. e \in Record /\ e = [addr |-> R.entries[k].addr, data |-> Found(R, k)]
  BY <1>5, <1>6 DEF Record, Found
<1>8. buf \in Seq(Record) /\ Len(buf) = k - 1
      /\ \A i \in 1 .. Len(buf) : buf[i] = [addr |-> R.entries[i].addr, data |-> Found(R, i)]
  BY <1>1 DEF PInv, BufInv
<1>9. \A f, i : Found(f, i)' = Found(f, i)
  BY <1>1, Traffic DEF Found
<1> HIDE DEF k, a, e
<1>10. k \in 1 .. Len(R.entries) /\ req'.next = k + 1
  BY <1>2, <1>3 DEF k
<1>11. /\ buf' \in Seq(Record) /\ Len(buf') = Len(buf) + 1
       /\ \A i \in 1 .. Len(buf) : buf'[i] = buf[i]
       /\ buf'[Len(buf) + 1] = e
  BY <1>4, <1>7, <1>8, AppendProperties
<1>12. Len(buf') = k /\ Len(buf) + 1 = k /\ k = req'.next - 1
  BY <1>3, <1>8, <1>10, <1>11, SMT
<1>14. \A i \in 1 .. k : i \in 1 .. Len(buf) \/ i = k
  BY <1>3, <1>8, <1>10, SMT
<1>15. \A i \in 1 .. Len(buf') :
          buf'[i] = [addr |-> R'.entries[i].addr, data |-> Found(R, i)]
  BY <1>2, <1>7, <1>8, <1>11, <1>12, <1>14
<1>16. \A i : Found(R, i)' = Found(R, i)
  BY <1>1, <1>2, Traffic DEF Found
<1>18. R'.kind = "read"
  BY <1>1, <1>2
<1>19. \A i \in 1 .. Len(buf') : buf'[i] = [addr |-> R'.entries[i].addr, data |-> Found(R, i)']
  BY <1>15, <1>16
<1> HIDE DEF Record
<1> QED BY <1>1, <1>11, <1>12, <1>18, <1>19 DEF BufInv

LEMMA BufKept ==
    ASSUME PInv, Next
    PROVE  BufInv'
<1>1. CASE ReadHeaders
  <2>1. buf' = buf /\ buf = <<>>
    BY <1>1 DEF ReadHeaders, PInv, BufInv
  <2>2. req'.next = 1
    BY <1>1, PlaceHeaders DEF PInv
  <2> QED BY <2>1, <2>2, EmptyBuf, SMT
<1>2. CASE Drain \/ IcmpAnswer
  <2>1. buf' = buf /\ buf = <<>> /\ phase' # "entries"
    BY <1>2 DEF Drain, IcmpAnswer, Goto, PInv, BufInv
  <2> QED BY <2>1, EmptyBuf
<1>3. CASE ArpAnswer
  <2>1. buf' = <<>> /\ phase' # "entries"
    BY <1>3 DEF ArpAnswer, Restart
  <2> QED BY <2>1, EmptyBuf
<1>4. CASE Pass \/ Discard \/ CheckLast \/ EndOfWrites \/ Respond
  <2>1. Restart \/ (UNCHANGED buf /\ phase' \in {"pass", "discard", "check"}
                     /\ (phase' = "pass" => phase = "pass"))
    BY <1>4 DEF Pass, Discard, CheckLast, EndOfWrites, Respond, Goto
  <2>2. CASE Restart
    <3>1. buf' = <<>> /\ phase' # "entries"
      BY <2>2 DEF Restart
    <3> QED BY <3>1, EmptyBuf
  <2>3. CASE UNCHANGED buf /\ phase' \in {"pass", "discard", "check"}
             /\ (phase' = "pass" => phase = "pass")
    BY <2>3 DEF PInv, BufInv
  <2> QED BY <2>1, <2>2, <2>3
<1>5. CASE WriteRegister
  <2>1. buf' = buf /\ phase = "entries" /\ R.kind = "write" /\ R' = R
    BY <1>5, PlaceWrite DEF WriteRegister, PInv
  <2>2. Len(buf) = 0 /\ buf \in Seq(Record)
    BY <2>1 DEF PInv, BufInv
  <2>3. buf = <<>>
    BY <2>2, EmptySeq
  <2> QED BY <2>1, <2>3, EmptyBuf
<1>6. CASE ReadRegister
  BY <1>6, BufRead
<1> QED BY <1>1, <1>2, <1>3, <1>4, <1>5, <1>6 DEF Next

-----------------------------------------------------------------------------
(* The registers *)

\* A frame that is no write leaves the registers as they are.
LEMMA NoWrite ==
    ASSUME FramesInv, PlaceInv, phase # "headers", R.kind # "write"
    PROVE  RegistersAfter[done + 1] = RegistersAfter[done]
<1>1. done \in 0 .. Count /\ done + 1 \in 1 .. Count /\ R = frames[done + 1]
  BY InFrame
<1>2. (done + 1) - 1 = done
  BY <1>1, Indices, SMT
<1>3. RegistersAfter[done] \in [Words -> Nat]
  BY <1>1, RegistersSteps
<1>4. RegistersAfter[done + 1] = WrittenBy(R, RegistersAfter[done])
  BY <1>1, <1>2, RegistersSteps
<1> QED BY <1>1, <1>3, <1>4, WrittenIs

\* All entries of a write have been made: the registers are what they leave.
LEMMA AllWritten ==
    ASSUME FramesInv, PlaceInv, MemInv, phase = "entries", R.kind = "write", ~MoreEntries
    PROVE  mem = RegistersAfter[done + 1]
<1>1. done \in 0 .. Count /\ done + 1 \in 1 .. Count /\ R = frames[done + 1]
  BY InFrame
<1>2. (done + 1) - 1 = done
  BY <1>1, Indices, SMT
<1> DEFINE m == RegistersAfter[done]
           v == RegistersAfter[done + 1]
           l == Len(R.entries)
<1>3. m \in [Words -> Nat] /\ v = WrittenBy(R, m)
  BY <1>1, <1>2, RegistersSteps
<1>4. /\ v \in [Words -> Nat]
      /\ \A w \in Words : /\ Naming(R, w) = {} => v[w] = m[w]
                          /\ \A i : Counts(R, w, i) => v[w] = R.entries[i].data
  BY <1>1, <1>3, WrittenIs
<1>5. req.next - 1 = l /\ mem \in [Words -> Nat]
  <2>1. req.next = l + 1 /\ l \in 1 .. 192
    BY AtEntry
  <2> HIDE DEF l
  <2>2. req.next - 1 = l
    BY <2>1, SMT
  <2> QED BY <2>2 DEF MemInv
<1>6. Overwritten(R, l, m)
  BY <1>5 DEF MemInv
<1>7. ASSUME NEW w \in Words
      PROVE  mem[w] = v[w]
  <2>1. CASE mem[w] = m[w] /\ \A i \in 1 .. l : WordOf(R.entries[i].addr) # w
    BY <1>4, <2>1 DEF Naming
  <2>2. ASSUME NEW i \in 1 .. l, WordOf(R.entries[i].addr) = w, mem[w] = R.entries[i].data,
               \A j \in 1 .. l : WordOf(R.entries[j].addr) = w => j <= i
        PROVE  mem[w] = v[w]
    <3>1. Counts(R, w, i)
      BY <2>2 DEF Counts, Naming
    <3> QED BY <1>4, <2>2, <3>1
  <2> QED BY <1>6, <2>1, <2>2 DEF Overwritten
<1> HIDE DEF v
<1>8. mem = v
  BY <1>4, <1>5, <1>7
<1> QED BY <1>8 DEF v

\* One entry more.
LEMMA MemWrite ==
    ASSUME PInv, WriteRegister
    PROVE  MemInv'
<1>1. /\ phase = "entries" /\ phase' = "entries" /\ MoreEntries /\ R.kind = "write"
      /\ UNCHANGED <<core, frames, done>>
  BY DEF WriteRegister
<1>2. R' = R /\ req'.next = req.next + 1
  BY PlaceWrite DEF PInv
<1>3. req.next \in 1 .. Len(R.entries) /\ Len(R.entries) \in 1 .. 192
  BY <1>1, AtEntry DEF PInv
<1> DEFINE k == req.next
           x == WordOf(R.entries[k].addr)
           d == R.entries[k].data
           m == RegistersAfter[done]
<1>4. x \in Words /\ d \in Nat
  BY <1>1, <1>3, EntryOf DEF PInv
<1>5. mem' = [mem EXCEPT ![x] = d] /\ mem \in [Words -> Nat]
  BY DEF WriteRegister, PInv, MemInv
<1>6. Overwritten(R, k - 1, m)
  BY <1>1 DEF PInv, MemInv
<1>7. /\ k \in Nat \ {0}
      /\ req'.next - 1 = k
      /\ \A i \in 1 .. k : i \in 1 .. k - 1 \/ i = k
      /\ \A i \in 1 .. k - 1 : i \in 1 .. k /\ i <= k
      /\ k \in 1 .. k /\ k <= k
  BY <1>2, <1>3, SMT
<1>8. mem' \in [Words -> Nat]
  BY <1>4, <1>5
<1>9. m' = m
  BY <1>1, Traffic
<1> HIDE DEF m
<1>10. ASSUME NEW w \in Words
       PROVE  \/ mem'[w] = m[w] /\ \A i \in 1 .. k : WordOf(R.entries[i].addr) # w
              \/ \E i \in 1 .. k :
                    /\ WordOf(R.entries[i].addr) = w /\ mem'[w] = R.entries[i].data
                    /\ \A j \in 1 .. k : WordOf(R.entries[j].addr) = w => j <= i
  <2>1. CASE w = x
    <3>1. mem'[w] = R.entries[k].data
      BY <1>5, <2>1
    <3>2. \A j \in 1 .. k : j <= k
      BY <1>7
    <3>3. k \in 1 .. k /\ WordOf(R.entries[k].addr) = w
      BY <1>7, <2>1
    <3> QED BY <3>1, <3>2, <3>3
  <2>2. CASE w # x
    <3>1. mem'[w] = mem[w]
      BY <1>5, <2>2
    <3>2. WordOf(R.entries[k].addr) # w
      BY <2>2
    <3>3. CASE mem[w] = m[w] /\ \A i \in 1 .. k - 1 : WordOf(R.entries[i].addr) # w
      BY <1>7, <3>1, <3>2, <3>3
    <3>4. ASSUME NEW i \in 1 .. k - 1, WordOf(R.entries[i].addr) = w, mem[w] = R.entries[i].data,
                 \A j \in 1 .. k - 1 : WordOf(R.entries[j].addr) = w => j <= i
          PROVE  \E ii \in 1 .. k :
                    /\ WordOf(R.entries[ii].addr) = w /\ mem'[w] = R.entries[ii].data
                    /\ \A j \in 1 .. k : WordOf(R.entries[j].addr) = w => j <= ii
      <4>1. \A j \in 1 .. k : WordOf(R.entries[j].addr) = w => j <= i
        BY <1>7, <3>2, <3>4
      <4>2. i \in 1 .. k /\ mem'[w] = R.entries[i].data
        BY <1>7, <3>1, <3>4
      <4> QED BY <3>4, <4>1, <4>2
    <3> QED BY <1>6, <3>3, <3>4 DEF Overwritten
  <2> QED BY <2>1, <2>2
<1> HIDE DEF k
<1>11. Overwritten(R, req.next - 1, RegistersAfter[done])'
  <2>1. R' = R /\ req'.next - 1 = k /\ RegistersAfter'[done'] = m
    BY <1>2, <1>7, <1>9 DEF m
  <2> QED BY <1>10, <2>1 DEF Overwritten
<1>12. phase' = "entries" /\ R'.kind # "read"
  BY <1>1, <1>2
<1> QED BY <1>8, <1>11, <1>12 DEF MemInv

LEMMA MemKept ==
    ASSUME PInv, Next
    PROVE  MemInv'
<1>1. UNCHANGED <<core, frames>>
  BY PlaceKept DEF PInv
<1>2. RegistersAfter' = RegistersAfter
  BY <1>1, Traffic
<1>3. CASE WriteRegister
  BY <1>3, MemWrite
<1>4. ASSUME ~WriteRegister
      PROVE  mem' = mem /\ mem' \in [Words -> Nat]
  <2>1. mem' = mem
    BY <1>4 DEF Next, ReadHeaders, Drain, ArpAnswer, IcmpAnswer, Pass, Discard,
                ReadRegister, EndOfWrites, Respond, CheckLast
  <2> QED BY <2>1 DEF PInv, MemInv
<1>5. CASE ReadHeaders
  <2>1. mem = RegistersAfter[done] /\ done' = done
    BY <1>5 DEF PInv, MemInv, ReadHeaders
  <2>2. phase' \in {"drain", "decide", "entries"}
    BY <1>5 DEF ReadHeaders, PInv, FramesInv
  <2>3. Overwritten(R, req.next - 1, RegistersAfter[done])'
    <3>1. req'.next - 1 = 0
      <4>1. req'.next = 1
        BY <1>5, PlaceHeaders DEF PInv
      <4> QED BY <4>1, SMT
    <3>2. \A i \in 1 .. 0 : FALSE
      BY SMT
    <3>3. mem' = RegistersAfter'[done']
      BY <1>2, <1>4, <1>5, <2>1 DEF ReadHeaders
    <3> QED BY <3>1, <3>2, <3>3 DEF Overwritten
  <2>4. mem' = RegistersAfter'[done']
    BY <1>2, <1>5, <2>1 DEF ReadHeaders
  <2>5. mem' \in [Words -> Nat]
    BY <2>1, <1>5 DEF ReadHeaders, PInv, MemInv
  <2> QED BY <2>2, <2>3, <2>4, <2>5 DEF MemInv
<1>6. CASE Drain \/ ReadRegister
  <2>1. UNCHANGED <<mem, done>>
    BY <1>6 DEF Drain, ReadRegister, Goto
  <2>2. mem = RegistersAfter[done]
    BY <1>6 DEF PInv, MemInv, Drain, ReadRegister
  <2>3. phase' \in {"drain", "decide", "entries"}
    BY <1>6 DEF Drain, ReadRegister, Goto
  <2>4. phase' = "entries" => R'.kind = "read"
    <3>1. ASSUME ReadRegister PROVE R'.kind = "read"
      BY <3>1, PlaceReadRegister DEF PInv, ReadRegister
    <3>2. ASSUME Drain PROVE phase' # "entries"
      BY <3>2 DEF Drain, Goto
    <3> QED BY <1>6, <3>1, <3>2
  <2> QED BY <1>2, <2>1, <2>2, <2>3, <2>4 DEF PInv, MemInv
<1>7. CASE ArpAnswer \/ IcmpAnswer \/ Pass
  <2>1. phase # "headers" /\ core \in {"arp", "icmp"} /\ phase \in {"decide", "pass"}
    BY <1>7 DEF ArpAnswer, IcmpAnswer, Pass, PInv, PlaceInv
  <2>2. R.kind # "write"
    BY <2>1, Here DEF PInv, Kinds
  <2>3. RegistersAfter[done + 1] = RegistersAfter[done]
    BY <2>1, <2>2, NoWrite DEF PInv
  <2>4. mem' = mem /\ mem = RegistersAfter[done] /\ mem \in [Words -> Nat]
    BY <1>7, <2>1 DEF ArpAnswer, IcmpAnswer, Pass, PInv, MemInv
  <2>5. \/ phase' = "headers" /\ done' = done + 1
        \/ phase' \in {"pass", "discard"} /\ done' = done
    BY <1>7 DEF ArpAnswer, IcmpAnswer, Pass, Restart, Goto
  <2> QED BY <1>2, <2>3, <2>4, <2>5 DEF MemInv
<1>8. CASE Discard \/ CheckLast
  <2>1. mem' = mem /\ mem = RegistersAfter[done + 1] /\ mem \in [Words -> Nat]
    BY <1>8 DEF Discard, CheckLast, PInv, MemInv
  <2>2. \/ phase' = "headers" /\ done' = done + 1
        \/ phase' = "discard" /\ done' = done
    BY <1>8 DEF Discard, CheckLast, Restart, Goto
  <2> QED BY <1>2, <2>1, <2>2 DEF MemInv
<1>9. CASE EndOfWrites
  <2>1. mem' = mem /\ mem \in [Words -> Nat] /\ phase' = "check" /\ done' = done
    BY <1>9 DEF EndOfWrites, Goto, PInv, MemInv
  <2>2. mem = RegistersAfter[done + 1]
    BY <1>9, AllWritten DEF EndOfWrites, PInv
  <2> QED BY <1>2, <2>1, <2>2 DEF MemInv
<1>10. CASE Respond
  <2>1. mem' = mem /\ mem \in [Words -> Nat] /\ phase' = "check" /\ done' = done
        /\ phase # "headers" /\ R.kind # "write" /\ mem = RegistersAfter[done]
    BY <1>10 DEF Respond, Goto, PInv, MemInv
  <2>2. RegistersAfter[done + 1] = RegistersAfter[done]
    BY <2>1, NoWrite DEF PInv
  <2> QED BY <1>2, <2>1, <2>2 DEF MemInv
<1> QED BY <1>3, <1>5, <1>6, <1>7, <1>8, <1>9, <1>10 DEF Next

-----------------------------------------------------------------------------
(* What is sent *)

LEMMA NextAnswer ==
    ASSUME FramesInv, PlaceInv, phase # "headers"
    PROVE  /\ AnswersTo[done + 1] = IF Answered(done + 1)
                                    THEN Append(AnswersTo[done], Answer(done + 1))
                                    ELSE AnswersTo[done]
           /\ AnswersTo[done] \in Seq(Answers) /\ AnswersTo[done + 1] \in Seq(Answers)
<1>1. done \in 0 .. Count /\ done + 1 \in 1 .. Count
  BY InFrame
<1>2. (done + 1) - 1 = done /\ done + 1 \in 0 .. Count
  BY <1>1, Indices, SMT
<1> QED BY <1>1, <1>2, AnswersSteps

\* arp and icmp answer the frames that are to be answered, and no other.
LEMMA MineIsAnswered ==
    ASSUME FramesInv, PlaceInv, phase # "headers", core \in {"arp", "icmp"}
    PROVE  Mine <=> Answered(done + 1)
<1>1. R = frames[done + 1] /\ R.kind \in Kinds[core]
  BY InFrame, Here
<1>2. CASE core = "arp"
  <2>1. R.kind # "echo"
    BY <1>1, <1>2 DEF Kinds
  <2>2. Answered(done + 1) <=> R.kind = "request" /\ R.dst = MyIp
    BY <1>1, <1>2 DEF Answered
  <2> QED BY <2>1, <2>2 DEF Mine
<1>3. CASE core = "icmp"
  <2>1. R.kind # "request"
    BY <1>1, <1>3 DEF Kinds
  <2>2. Answered(done + 1) <=> R.kind = "echo" /\ R.dst = MyIp
    BY <1>1, <1>3 DEF Answered
  <2> QED BY <2>1, <2>2 DEF Mine
<1> QED BY <1>2, <1>3

\* Sequences put together with an empty one.
LEMMA Joined ==
    ASSUME NEW h, NEW T, NEW b \in Seq(T)
    PROVE  /\ <<>> \o <<h>> = <<h>> /\ <<h>> \o <<>> = <<h>>
           /\ <<>> \o b = b /\ <<>> \o <<>> = <<>>
<1>1. <<h>> \in Seq({h}) /\ <<>> \in Seq({h})
  OBVIOUS
<1> QED BY <1>1, ConcatEmptySeq

LEMMA ArpPacket ==
    ASSUME FramesInv, PlaceInv, phase # "headers", core = "arp", open = Nothing
    PROVE  With(<<Heading(ArpPkt)>>, EthHdr + ArpPkt, <<>>) = Answer(done + 1)
<1> DEFINE h == [toMac |-> R.mac, fromMac |-> MyMac, to |-> R.src, from |-> MyIp, total |-> ArpPkt]
<1>1. R = frames[done + 1]
  BY InFrame
<1>2. Answer(done + 1) = [heads |-> <<h>>, words |-> EthHdr + ArpPkt, body |-> <<>>]
  BY <1>1 DEF Answer
<1>3. Heading(ArpPkt) = h
  BY DEF Heading
<1> HIDE DEF h
<1>4. 0 + (EthHdr + ArpPkt) = EthHdr + ArpPkt
  BY SMT DEF EthHdr, ArpPkt
<1>5. <<>> \o <<h>> = <<h>> /\ <<>> \o <<>> = <<>>
  BY Joined, EmptySeq
<1>6. open.heads = <<>> /\ open.words = 0 /\ open.body = <<>>
  BY DEF Nothing
<1> QED BY <1>2, <1>3, <1>4, <1>5, <1>6 DEF With

LEMMA IcmpOpened ==
    ASSUME open = Nothing, R.opts \in Nat
    PROVE  With(<<Heading(R.total)>>, EthHdr + IpHdr + R.opts + 4, <<>>)
             = [heads |-> <<Heading(R.total)>>, words |-> EthHdr + IpHdr + R.opts + 4, body |-> <<>>]
<1> DEFINE h == Heading(R.total)
           n == EthHdr + IpHdr + R.opts + 4
<1>1. 0 + n = n
  BY SMT DEF EthHdr, IpHdr
<1> HIDE DEF h, n
<1>2. <<>> \o <<h>> = <<h>> /\ <<>> \o <<>> = <<>>
  BY Joined, EmptySeq
<1>3. open.heads = <<>> /\ open.words = 0 /\ open.body = <<>>
  BY DEF Nothing
<1>4. With(<<h>>, n, <<>>) = [heads |-> <<h>>, words |-> n, body |-> <<>>]
  BY <1>1, <1>2, <1>3 DEF With
<1> QED BY <1>4 DEF h, n

LEMMA IcmpPacket ==
    ASSUME FramesInv, PlaceInv, SentInv, phase = "pass"
    PROVE  /\ With(<<>>, 1, <<>>)
                = [heads |-> <<Heading(R.total)>>, words |-> (pos + 1) - Begin, body |-> <<>>]
           /\ pos + 1 = Finish => With(<<>>, 1, <<>>) = Answer(done + 1)
<1> DEFINE h == [toMac |-> R.mac, fromMac |-> MyMac, to |-> R.src, from |-> MyIp, total |-> R.total]
<1>1. R = frames[done + 1] /\ core = "icmp" /\ pos \in Begin + 1 .. Finish - 1
  BY InFrame DEF PlaceInv
<1>2. Answer(done + 1) = [heads |-> <<h>>, words |-> R.len, body |-> <<>>]
  BY <1>1 DEF Answer
<1>3. Heading(R.total) = h
  BY DEF Heading
<1> HIDE DEF h
<1>4. open.heads = <<h>> /\ open.words = pos - Begin /\ open.body = <<>>
  BY <1>3 DEF SentInv
<1>5. Begin \in Nat /\ Finish \in Nat /\ Finish = Begin + R.len /\ R.len \in Nat
  BY Here
<1>6. (pos - Begin) + 1 = (pos + 1) - Begin /\ (pos + 1 = Finish => (pos + 1) - Begin = R.len)
  BY <1>1, <1>5, SMT
<1>7. <<h>> \o <<>> = <<h>> /\ <<>> \o <<>> = <<>>
  BY Joined, EmptySeq
<1>8. With(<<>>, 1, <<>>) = [heads |-> <<h>>, words |-> (pos + 1) - Begin, body |-> <<>>]
  BY <1>4, <1>6, <1>7 DEF With
<1> QED BY <1>2, <1>3, <1>6, <1>8

LEMMA RegPacket ==
    ASSUME FramesInv, PlaceInv, BufInv, phase = "entries", R.kind = "read", ~MoreEntries,
           open = Nothing
    PROVE  /\ BufCnt > 0
           /\ With(<<RegHeading>>, EthHdr + IpHdr + UdpHdr + BufCnt, buf) = Answer(done + 1)
<1> DEFINE l == Len(R.entries)
           total == IpHdr + UdpHdr + 8 * l
           h == [toMac |-> R.mac, fromMac |-> R.dmac, to |-> R.src, from |-> R.dst,
                 total |-> total, udpLen |-> total - IpHdr]
           b == [i \in 1 .. l |-> [addr |-> R.entries[i].addr, data |-> Found(R, i)]]
<1>1. R = frames[done + 1] /\ (done + 1) - 1 = done /\ IsFrame(core, R)
  BY InFrame, Indices, SMT
<1>2. core = "udp_reg" /\ l \in 1 .. 192 /\ req.next = l + 1
  BY AtEntry
<1>3. Answer(done + 1) = [heads |-> <<h>>, words |-> EthHdr + total, body |-> b]
  BY <1>1, <1>2 DEF Answer, Found
<1>4. R.total = IpHdr + UdpHdr + 4 * l
  BY <1>1, <1>2 DEF IsFrame
<1> HIDE DEF l
<1>5. buf \in Seq(Record) /\ Len(buf) = l
      /\ \A i \in 1 .. Len(buf) : buf[i] = [addr |-> R.entries[i].addr, data |-> Found(R, i)]
  <2>1. Len(buf) = req.next - 1
    BY DEF BufInv
  <2>2. (l + 1) - 1 = l
    BY <1>2, SMT
  <2> QED BY <1>2, <2>1, <2>2 DEF BufInv
<1>6. buf = b
  <2>1. buf = [i \in 1 .. l |-> buf[i]]
    <3> HIDE DEF b, Record
    <3> QED BY <1>5
  <2>2. \A i \in 1 .. l : buf[i] = [addr |-> R.entries[i].addr, data |-> Found(R, i)]
    BY <1>5
  <2> QED BY <2>1, <2>2
<1>7. BufCnt = 8 * l
  BY <1>5 DEF BufCnt
<1>8. /\ BufCnt > 0
      /\ GrownLength = total
      /\ UdpHdr + BufCnt = total - IpHdr
      /\ 0 + (EthHdr + IpHdr + UdpHdr + BufCnt) = EthHdr + total
  <2>1. 8 * l > 0 /\ (28 + 4 * l) + (8 * l) \div 2 = 28 + 8 * l
    BY <1>2, SMT
  <2>2. R.total = 28 + 4 * l /\ total = 28 + 8 * l
    BY <1>2, <1>4, SMT DEF IpHdr, UdpHdr
  <2>3. GrownLength = (28 + 4 * l) + (8 * l) \div 2
    BY <1>7, <2>2 DEF GrownLength
  <2>4. 8 + 8 * l = (28 + 8 * l) - 20 /\ 0 + (14 + 20 + 8 + 8 * l) = 14 + (28 + 8 * l)
    BY <1>2, SMT
  <2> HIDE DEF total
  <2> QED BY <1>7, <2>1, <2>2, <2>3, <2>4 DEF UdpHdr, IpHdr, EthHdr
<1>9. RegHeading = h
  BY <1>8 DEF RegHeading
<1> HIDE DEF h, b, total
<1>10. <<>> \o <<h>> = <<h>> /\ <<>> \o buf = buf
  BY <1>5, Joined
<1>11. open.heads = <<>> /\ open.words = 0 /\ open.body = <<>>
  BY DEF Nothing
<1> QED BY <1>3, <1>6, <1>8, <1>9, <1>10, <1>11 DEF With

LEMMA SentKept ==
    ASSUME PInv, Next
    PROVE  SentInv'
<1>1. UNCHANGED <<core, frames>>
  BY PlaceKept DEF PInv
<1>2. AnswersTo' = AnswersTo /\ Answers' = Answers
  BY <1>1, Traffic
<1>3. sent \in Seq(Answers)
  BY DEF PInv, SentInv
\* What is left to show of a step to any phase but "pass".
<1>4. ASSUME open' = Nothing, phase' # "pass",
             \/ phase' \in {"check", "discard"} /\ sent' = AnswersTo[done' + 1]
             \/ phase' \notin {"check", "discard"} /\ sent' = AnswersTo[done'],
             sent' \in Seq(Answers)
      PROVE  SentInv'
  BY <1>2, <1>4 DEF SentInv
<1>5. CASE ReadHeaders \/ Drain \/ WriteRegister \/ ReadRegister
  <2>1. UNCHANGED <<sent, open, done>> /\ open = Nothing /\ sent = AnswersTo[done]
    BY <1>5 DEF ReadHeaders, Drain, WriteRegister, ReadRegister, Goto, PInv, SentInv
  <2>2. phase' \in {"drain", "decide", "entries"}
    BY <1>5 DEF ReadHeaders, Drain, WriteRegister, ReadRegister, Goto, PInv, FramesInv
  <2> QED BY <1>3, <1>4, <2>1, <2>2
<1>6. CASE ArpAnswer
  <2>1. /\ core = "arp" /\ phase = "decide" /\ phase # "headers" /\ phase' = "headers"
        /\ done' = done + 1
    BY <1>6 DEF ArpAnswer, Restart
  <2>2. open = Nothing /\ sent = AnswersTo[done]
    BY <2>1 DEF PInv, SentInv
  <2>3. sent' = AnswersTo[done + 1] /\ open' = Nothing
    <3>1. CASE Mine
      <4>1. sent' = Append(sent, Answer(done + 1)) /\ open' = Nothing
        BY <1>6, <2>1, <2>2, <3>1, ArpPacket DEF ArpAnswer, WriteLast, PInv
      <4>2. Answered(done + 1)
        BY <2>1, <3>1, MineIsAnswered DEF PInv
      <4> QED BY <2>1, <2>2, <4>1, <4>2, NextAnswer DEF PInv
    <3>2. CASE ~Mine
      <4>1. sent' = sent /\ open' = Nothing
        BY <1>6, <2>2, <3>2 DEF ArpAnswer
      <4>2. ~Answered(done + 1)
        BY <2>1, <3>2, MineIsAnswered DEF PInv
      <4> QED BY <2>1, <2>2, <4>1, <4>2, NextAnswer DEF PInv
    <3> QED BY <3>1, <3>2
  <2>4. sent' \in Seq(Answers)
    BY <2>1, <2>3, NextAnswer DEF PInv
  <2> QED BY <1>4, <2>1, <2>3, <2>4
<1>7. CASE IcmpAnswer
  <2>1. /\ core = "icmp" /\ phase = "decide" /\ phase # "headers"
        /\ UNCHANGED <<pos, req, done, sent, frames>>
    BY <1>7 DEF IcmpAnswer, Goto
  <2>2. open = Nothing /\ sent = AnswersTo[done]
    BY <2>1 DEF PInv, SentInv
  <2>3. CASE ~Mine
    <3>1. open' = Nothing /\ phase' = "discard"
      BY <1>7, <2>2, <2>3 DEF IcmpAnswer, Goto
    <3>2. ~Answered(done + 1)
      BY <2>1, <2>3, MineIsAnswered DEF PInv
    <3>3. sent' = AnswersTo[done' + 1]
      BY <2>1, <2>2, <3>2, NextAnswer DEF PInv
    <3> QED BY <1>3, <1>4, <2>1, <3>1, <3>3
  <2>4. CASE Mine
    <3>1. /\ open' = With(<<Heading(R.total)>>, EthHdr + IpHdr + R.opts + 4, <<>>)
          /\ phase' = "pass"
      BY <1>7, <2>4 DEF IcmpAnswer, Goto
    <3>2. R.opts \in Nat
      BY <2>1, InFrame DEF PInv, IsFrame
    <3>3. open' = [heads |-> <<Heading(R.total)>>, words |-> EthHdr + IpHdr + R.opts + 4,
                   body |-> <<>>]
      BY <2>2, <3>1, <3>2, IcmpOpened
    <3>4. pos = Begin + HeadLen(R) /\ HeadLen(R) = EthHdr + IpHdr + R.opts + 4
      BY <2>1 DEF PInv, PlaceInv, HeadLen
    <3>5. (Begin + HeadLen(R)) - Begin = HeadLen(R)
      <4>1. Begin \in Nat /\ HeadLen(R) \in Nat
        BY <2>1, Here DEF PInv
      <4> QED BY <4>1, SMT
    <3>6. R' = R /\ Begin' = Begin /\ pos' = pos
      BY <1>1, <2>1, Stays DEF R
    <3>7. Mine' /\ Heading(R.total)' = Heading(R.total)
      BY <2>4, <3>6 DEF Mine, Heading
    <3>8. open' = [heads |-> <<Heading(R.total)'>>, words |-> pos' - Begin', body |-> <<>>]
      BY <3>3, <3>4, <3>5, <3>6, <3>7
    <3>9. sent' = AnswersTo'[done'] /\ sent' \in Seq(Answers')
      BY <1>2, <1>3, <2>1, <2>2
    <3> QED BY <3>1, <3>7, <3>8, <3>9 DEF SentInv
  <2> QED BY <2>3, <2>4
<1>8. CASE Pass
  <2>1. phase = "pass" /\ phase # "headers" /\ core = "icmp"
    BY <1>8 DEF Pass, PInv, PlaceInv
  <2>2. sent = AnswersTo[done] /\ Mine
    BY <2>1 DEF PInv, SentInv
  <2>3. CASE LastWord(pos + 1)
    <3>1. pos + 1 = Finish /\ Restart
      BY <1>8, <2>1, <2>3, PlaceRead DEF PInv
    <3>2. sent' = Append(sent, Answer(done + 1)) /\ open' = Nothing
      BY <1>8, <2>1, <2>3, <3>1, IcmpPacket DEF Pass, WriteLast, PInv
    <3>3. Answered(done + 1)
      BY <2>1, <2>2, MineIsAnswered DEF PInv
    <3>4. sent' = AnswersTo[done + 1] /\ sent' \in Seq(Answers)
      BY <2>1, <2>2, <3>2, <3>3, NextAnswer DEF PInv
    <3> QED BY <1>4, <3>1, <3>2, <3>4 DEF Restart
  <2>4. CASE ~LastWord(pos + 1)
    <3>1. pos' = pos + 1 /\ R' = R /\ UNCHANGED <<phase, done>>
      BY <1>8, <2>1, <2>4, PlaceRead DEF PInv
    <3>2. open' = With(<<>>, 1, <<>>) /\ sent' = sent
      BY <1>8, <2>4 DEF Pass
    <3>3. open' = [heads |-> <<Heading(R.total)>>, words |-> pos' - Begin, body |-> <<>>]
      BY <2>1, <3>1, <3>2, IcmpPacket DEF PInv
    <3>4. Begin' = Begin
      BY <1>1, <3>1, Stays
    <3>5. Mine' /\ Heading(R.total)' = Heading(R.total)
      BY <2>2, <3>1 DEF Mine, Heading
    <3>6. sent' = AnswersTo'[done'] /\ sent' \in Seq(Answers')
      BY <1>2, <1>3, <2>2, <3>1, <3>2
    <3>7. open' = [heads |-> <<Heading(R.total)'>>, words |-> pos' - Begin', body |-> <<>>]
      BY <3>3, <3>4, <3>5
    <3> QED BY <2>1, <3>1, <3>5, <3>6, <3>7 DEF SentInv
  <2> QED BY <2>3, <2>4
<1>9. CASE Discard \/ CheckLast
  <2>1. UNCHANGED <<sent, open>> /\ open = Nothing /\ sent = AnswersTo[done + 1]
    BY <1>9 DEF Discard, CheckLast, PInv, SentInv
  <2>2. \/ phase' = "headers" /\ done' = done + 1
        \/ phase' = "discard" /\ done' = done
    BY <1>9 DEF Discard, CheckLast, Restart, Goto
  <2> QED BY <1>3, <1>4, <2>1, <2>2
<1>10. CASE EndOfWrites
  <2>1. /\ UNCHANGED <<sent, open, done>> /\ phase = "entries" /\ phase # "headers"
        /\ phase' = "check" /\ R.kind = "write"
    BY <1>10 DEF EndOfWrites, Goto
  <2>2. open = Nothing /\ sent = AnswersTo[done]
    BY <2>1 DEF PInv, SentInv
  <2>3. ~Answered(done + 1)
    <3>1. R = frames[done + 1] /\ core = "udp_reg"
      BY <2>1, InFrame, AtEntry DEF PInv
    <3> QED BY <2>1, <3>1 DEF Answered
  <2>4. sent' = AnswersTo[done' + 1]
    BY <2>1, <2>2, <2>3, NextAnswer DEF PInv
  <2> QED BY <1>3, <1>4, <2>1, <2>2, <2>4
<1>11. CASE Respond
  <2>1. /\ phase = "entries" /\ phase # "headers" /\ phase' = "check" /\ R.kind = "read"
        /\ ~MoreEntries /\ done' = done
    BY <1>11 DEF Respond, Goto
  <2>2. open = Nothing /\ sent = AnswersTo[done]
    BY <2>1 DEF PInv, SentInv
  <2>3. sent' = Append(sent, Answer(done + 1)) /\ open' = Nothing
    BY <1>11, <2>1, <2>2, RegPacket DEF Respond, WriteLast, PInv
  <2>4. Answered(done + 1)
    <3>1. R = frames[done + 1] /\ core = "udp_reg"
      BY <2>1, InFrame, AtEntry DEF PInv
    <3> QED BY <2>1, <3>1 DEF Answered
  <2>5. sent' = AnswersTo[done' + 1] /\ sent' \in Seq(Answers)
    BY <2>1, <2>2, <2>3, <2>4, NextAnswer DEF PInv
  <2> QED BY <1>4, <2>1, <2>3, <2>5
<1> QED BY <1>5, <1>6, <1>7, <1>8, <1>9, <1>10, <1>11 DEF Next

-----------------------------------------------------------------------------
(* The theorems *)

LEMMA InitHolds == Init => PInv
<1> SUFFICES ASSUME Init PROVE PInv
  OBVIOUS
<1>1. FramesInv
  BY CasesAssumption DEF Init, FramesInv, Count
<1>2. phase = "headers" /\ pos = 0 /\ done = 0 /\ req = [n |-> 0, next |-> 1] /\ buf = <<>>
      /\ open = Nothing /\ sent = <<>> /\ mem = Zeros
  BY DEF Init, Zeros
<1>3. PlaceInv
  BY <1>1, <1>2, EndSteps, Indices DEF PlaceInv, Begin
<1>4. BufInv
  BY <1>2, EmptySeq DEF BufInv
<1>5. SentInv
  BY <1>1, <1>2, AnswersSteps, EmptySeq DEF SentInv
<1>6. MemInv
  <2>1. Zeros \in [Words -> Nat]
    BY DEF Zeros
  <2> QED BY <1>1, <1>2, <2>1, RegistersSteps DEF MemInv
<1> QED BY <1>1, <1>3, <1>4, <1>5, <1>6 DEF PInv

LEMMA Kept == PInv /\ [Next]_vars => PInv'
<1> SUFFICES ASSUME PInv, [Next]_vars PROVE PInv'
  OBVIOUS
<1>1. CASE Next
  BY <1>1, PlaceKept, BufKept, SentKept, MemKept DEF PInv
<1>2. CASE UNCHANGED vars
  <2>1. UNCHANGED <<core, frames, pos, phase, req, buf, mem, open, sent, done>>
    BY <1>2 DEF vars
  <2>2. FramesInv'
    BY <2>1, Traffic DEF PInv
  <2>3. /\ Count' = Count /\ End' = End /\ RegistersAfter' = RegistersAfter
        /\ AnswersTo' = AnswersTo /\ Answers' = Answers
    BY <2>1, Traffic
  <2>4. Begin' = Begin /\ Finish' = Finish /\ R' = R
    BY <2>1, Stays
  <2>5. HeadLen(R)' = HeadLen(R) /\ EntryLen(R)' = EntryLen(R)
    BY <2>1, <2>4 DEF HeadLen, EntryLen
  <2>6. PlaceInv'
    BY <2>1, <2>3, <2>4, <2>5 DEF PInv, PlaceInv
  <2>7. \A i : Found(R, i)' = Found(R, i)
    BY <2>1, <2>3, <2>4 DEF Found
  <2>8. BufInv'
    BY <2>1, <2>4, <2>7 DEF PInv, BufInv
  <2>9. (Mine' <=> Mine) /\ Heading(R.total)' = Heading(R.total)
    BY <2>4 DEF Mine, Heading
  <2>10. SentInv'
    BY <2>1, <2>3, <2>4, <2>9 DEF PInv, SentInv
  <2>11. MemInv'
    BY <2>1, <2>3, <2>4 DEF PInv, MemInv, Overwritten
  <2> QED BY <2>2, <2>6, <2>8, <2>10, <2>11 DEF PInv
<1> QED BY <1>1, <1>2

\* The inductive invariant: the traffic is as assumed, the core is where its phase
\* says, and data_buf, the packets and the registers are what the frames so far call for.
THEOREM Invariance == Spec => []PInv
  BY InitHolds, Kept, PTL DEF Spec

LEMMA AnswerIsPacket ==
    ASSUME FramesInv, NEW n \in 1 .. Count
    PROVE  Packet(Answer(n))
<1> DEFINE f == frames[n]
           l == Len(f.entries)
<1>1. IsFrame(core, f)
  BY DEF FramesInv
<1>2. \A i \in 1 .. Len(<<>>) : FALSE
  BY SMT
<1>3. CASE core = "arp"
  <2>1. PICK h : Answer(n) = [heads |-> h, words |-> EthHdr + ArpPkt, body |-> <<>>]
    BY <1>3 DEF Answer
  <2>2. EthHdr + ArpPkt \in Nat
    BY SMT DEF EthHdr, ArpPkt
  <2> QED BY <1>2, <2>1, <2>2 DEF Packet
<1>4. CASE core = "icmp"
  <2>1. PICK h : Answer(n) = [heads |-> h, words |-> f.len, body |-> <<>>]
    BY <1>4 DEF Answer
  <2>2. f.len \in Nat
    BY <1>1 DEF IsFrame
  <2> QED BY <1>2, <2>1, <2>2 DEF Packet
<1>5. CASE core = "udp_reg"
  <2> DEFINE total == IpHdr + UdpHdr + 8 * l
             e(i) == [addr |-> f.entries[i].addr,
                      data |-> RegistersAfter[n - 1][WordOf(f.entries[i].addr)]]
             b == [i \in 1 .. l |-> e(i)]
  <2>1. PICK h : Answer(n) = [heads |-> h, words |-> EthHdr + total, body |-> b]
    BY <1>5 DEF Answer
  <2>2. l \in Nat /\ \A i \in 1 .. l : f.entries[i].addr \in Nat
    BY <1>1, <1>5 DEF IsFrame
  <2>3. EthHdr + total \in Nat
    <3> HIDE DEF l
    <3> QED BY <2>2, SMT DEF EthHdr, IpHdr, UdpHdr
  <2>4. Len(b) = l
    <3> HIDE DEF l, e
    <3> QED BY <2>2
  <2>5. \A i \in 1 .. l : b[i].addr \in Nat
    BY <2>2
  <2> HIDE DEF b, total, l
  <2> QED BY <2>1, <2>3, <2>4, <2>5 DEF Packet
<1> QED BY <1>3, <1>4, <1>5 DEF FramesInv

\* What Synced and TypeOK say of the place.
LEMMA InsideFrame ==
    ASSUME PInv, phase # "headers"
    PROVE  pos \in Nat /\ pos <= Finish
<1>1. /\ Begin \in Nat /\ Finish \in Nat /\ Begin < Finish /\ Finish = Begin + R.len
      /\ R.len \in Nat /\ HeadLen(R) \in Nat /\ HeadLen(R) <= R.len
  BY Here DEF PInv
<1>2. \/ pos \in Begin + HeadLen(R) .. Finish
      \/ pos \in Begin + 1 .. Finish
      \/ pos \in Begin + 1 .. Finish - 1
      \/ pos = Finish
      \/ pos = Begin + HeadLen(R)
  <2>1. CASE phase = "entries"
    BY <2>1, AtEntry DEF PInv
  <2>2. CASE phase # "entries"
    BY <2>2 DEF PInv, PlaceInv
  <2> QED BY <2>1, <2>2
<1> QED BY <1>1, <1>2, SMT

\* A core is in step with its frames, in every phase.
LEMMA InStep ==
    ASSUME PInv
    PROVE  Synced
<1>1. ASSUME PInv, phase = "headers", done < Len(frames)
      PROVE  pos + Wanted <= Finish
  <2>1. FramesInv /\ PlaceInv /\ done \in 0 .. Count /\ pos = Begin /\ Count \in Nat
    BY <1>1 DEF PInv, PlaceInv, FramesInv
  <2>2. done + 1 <= Count
    BY <1>1, <2>1, SMT DEF Count
  <2>3. /\ Begin \in Nat /\ Finish \in Nat /\ Begin < Finish
        /\ Finish = Begin + frames[done + 1].len
        /\ IsFrame(core, frames[done + 1])
        /\ \A p \in Begin + 1 .. Finish : FrameOfWord(p) = done + 1
    BY <2>1, <2>2, FrameAt
  <2>4. pos + 1 \in Begin + 1 .. Finish
    BY <2>1, <2>3, SMT
  <2>5. Wanted = HeadLen(frames[done + 1])
    BY <1>1, <2>3, <2>4 DEF Wanted
  <2> DEFINE f == frames[done + 1]
  <2>6. HeadLen(f) \in Nat /\ HeadLen(f) <= f.len /\ f.len \in Nat
    BY <2>1, <2>3, HeadFits
  <2> HIDE DEF f
  <2>7. Begin + HeadLen(f) <= Finish
    <3>1. Finish = Begin + f.len
      BY <2>3 DEF f
    <3> QED BY <2>3, <2>6, <3>1, SMT
  <2> QED BY <2>1, <2>5, <2>7 DEF f
<1>2. ASSUME PInv, phase # "headers"
      PROVE  pos + Wanted <= Finish
  <2>1. FramesInv /\ PlaceInv /\ pos \in Nat /\ pos <= Finish /\ Finish \in Nat /\ Begin \in Nat
    BY <1>2, InsideFrame, Here DEF PInv
  <2>2. CASE phase = "drain"
    <3>1. pos \in Begin + HeadLen(R) .. Finish
      BY <2>1, <2>2 DEF PlaceInv
    <3>2. pos \in Begin + 1 .. Finish
      BY <1>2, <2>1, <3>1, Here, SMT
    <3>3. LastWord(pos) <=> pos = Finish
      BY <1>2, <2>1, <3>2, Here
    <3>4. Wanted = IF LastWord(pos) THEN 0 ELSE 1
      BY <2>2 DEF Wanted
    <3>5. CASE LastWord(pos)
      BY <2>1, <3>4, <3>5, SMT
    <3>6. CASE ~LastWord(pos)
      BY <2>1, <3>3, <3>4, <3>6, SMT
    <3> QED BY <3>5, <3>6
  <2>3. CASE phase \in {"pass", "discard"}
    <3>1. pos \in Begin + 1 .. Finish - 1
      BY <2>1, <2>3 DEF PlaceInv
    <3>2. Wanted = 1
      BY <2>3 DEF Wanted
    <3> QED BY <2>1, <3>1, <3>2, SMT
  <2>4. CASE phase = "entries" /\ MoreEntries
    <3> DEFINE l == Len(R.entries)
               k == req.next
               e == EntryLen(R)
               h == HeadLen(R)
    <3>1. k \in 1 .. l /\ pos = Begin + h + e * (k - 1)
      BY <2>1, <2>4, AtEntry
    <3>2. /\ l \in Nat /\ e \in {4, 8} /\ h \in Nat /\ h + e * l <= R.len /\ R.len \in Nat
          /\ Finish = Begin + R.len
      BY <1>2, <2>1, <2>4, AtEntry, Here
    <3>3. Wanted = e
      BY <2>4 DEF Wanted
    <3> HIDE DEF l, k, e, h
    <3>4. e = 4 => pos + e <= Finish
      BY <2>1, <3>1, <3>2, SMT
    <3>5. e = 8 => pos + e <= Finish
      BY <2>1, <3>1, <3>2, SMT
    <3> QED BY <3>2, <3>3, <3>4, <3>5
  <2>5. CASE (phase = "entries" /\ ~MoreEntries) \/ phase \in {"decide", "check"}
    <3>1. Wanted = 0
      BY <2>5 DEF Wanted
    <3> QED BY <2>1, <3>1, SMT
  <2>6. phase \in {"drain", "decide", "pass", "discard", "entries", "check"}
    BY <1>2, <2>1 DEF PlaceInv
  <2> QED BY <2>2, <2>3, <2>4, <2>5, <2>6
<1>3. CASE phase = "headers"
  <2>1. pos = End[done]
    BY <1>3 DEF PInv, PlaceInv, Begin
  <2>2. done < Len(frames) => pos + Wanted <= End[done + 1]
    BY <1>1, <1>3 DEF Finish
  <2> QED BY <1>3, <2>1, <2>2 DEF Synced
<1>4. CASE phase # "headers"
  <2>1. req.n = done + 1
    BY <1>4, InFrame DEF PInv
  <2>2. pos + Wanted <= Finish
    BY <1>2, <1>4
  <2> QED BY <1>4, <2>1, <2>2 DEF Synced, Finish
<1> QED BY <1>3, <1>4

\* The core is at the first word of the next frame whenever it is started again, and
\* until then its next read ends inside the frame it is in, whatever the frame and the
\* way through it (network.cpp:84-102, 425; icmp.cpp:98-101; udp_reg.cpp:44, 70, 128).
THEOREM KeepsInStep == Spec => []Synced
  BY InStep, Invariance, PTL

\* Between two frames the registers hold what the writes so far left in them, the
\* later entry of a datagram before the earlier (udp_reg.cpp:43-67).
THEOREM WritesLast == Spec => []RegistersHold
<1>1. PInv => RegistersHold
  BY DEF PInv, MemInv, RegistersHold
<1> QED BY <1>1, Invariance, PTL

\* Every request for the board is answered by exactly one packet, in order, closed
\* before the next begins, and nothing else is written (arp.cpp:40-57,
\* icmp.cpp:64-102, udp_reg.cpp:68-125).
THEOREM AnswersInOrder == Spec => []AnswersExactly
<1>1. PInv => AnswersExactly
  BY DEF PInv, SentInv, AnswersExactly
<1> QED BY <1>1, Invariance, PTL

LEMMA WellTyped ==
    ASSUME PInv
    PROVE  TypeOK
<1>1. done \in 0 .. Count /\ Count \in Nat
      /\ phase \in {"headers", "drain", "decide", "pass", "discard", "entries", "check"}
  BY DEF PInv, FramesInv, PlaceInv
<1>2. pos \in 0 .. End[Count] /\ req.n \in 0 .. Count /\ (req.n = 0 <=> phase = "headers")
  <2>1. CASE phase = "headers"
    <3>1. pos = Begin /\ req.n = 0
      BY <2>1 DEF PInv, PlaceInv
    <3>2. Count \in 0 .. Count /\ (done = Count \/ done < Count)
      BY <1>1, SMT
    <3>3. Begin \in Nat /\ End[Count] \in Nat
      BY <1>1, <3>2, EndSteps DEF PInv, Begin
    <3>4. Begin = End[Count] \/ Begin < End[Count]
      BY <1>1, <3>2, EndGrows DEF PInv, Begin
    <3>5. pos \in 0 .. End[Count]
      BY <3>1, <3>3, <3>4, SMT
    <3>6. 0 \in 0 .. Count
      BY <1>1, SMT
    <3> QED BY <2>1, <3>1, <3>5, <3>6
  <2>2. CASE phase # "headers"
    <3>1. pos \in Nat /\ pos <= Finish
      BY <2>2, InsideFrame
    <3>2. req.n = done + 1 /\ done + 1 <= Count
      BY <2>2, InFrame DEF PInv
    <3>3. Finish \in Nat /\ Finish <= End[Count] /\ done + 1 \in 0 .. Count /\ done + 1 # 0
      BY <1>1, <3>2, FrameAt DEF PInv
    <3>4. End[Count] \in Nat
      <4>1. Count \in 0 .. Count
        BY <1>1, SMT
      <4> QED BY <4>1, EndSteps DEF PInv
    <3>5. pos \in 0 .. End[Count]
      BY <3>1, <3>3, <3>4, SMT
    <3> QED BY <2>2, <3>2, <3>3, <3>5
  <2> QED BY <2>1, <2>2
<1>3. phase = "entries" => BufCnt <= 8 * (req.next - 1)
  <2> SUFFICES ASSUME phase = "entries" PROVE BufCnt <= 8 * (req.next - 1)
    OBVIOUS
  <2> DEFINE k == req.next
             l == Len(buf)
  <2>1. k \in 1 .. Len(R.entries) + 1 /\ Len(R.entries) \in 1 .. 192
    BY AtEntry DEF PInv
  <2>2. l = k - 1 \/ l = 0
    BY DEF PInv, BufInv
  <2> HIDE DEF k, l
  <2>3. 8 * l <= 8 * (k - 1)
    BY <2>1, <2>2, SMT
  <2> QED BY <2>3 DEF BufCnt, k, l
<1>4. Packet(open)
  <2>1. \A i \in 1 .. Len(<<>>) : FALSE
    BY SMT
  <2>2. CASE phase # "pass"
    <3>1. open = [heads |-> <<>>, words |-> 0, body |-> <<>>]
      BY <2>2 DEF PInv, SentInv, Nothing
    <3> QED BY <2>1, <3>1 DEF Packet
  <2>3. CASE phase = "pass"
    <3>1. PICK h : open = [heads |-> h, words |-> pos - Begin, body |-> <<>>]
      BY <2>3 DEF PInv, SentInv
    <3>2. pos \in Begin + 1 .. Finish - 1 /\ Begin \in Nat /\ Finish \in Nat
      BY <2>3, Here DEF PInv, PlaceInv
    <3>3. pos - Begin \in Nat
      BY <3>2, SMT
    <3> QED BY <2>1, <3>1, <3>3 DEF Packet
  <2> QED BY <2>2, <2>3
<1>5. \A i \in 1 .. Len(sent) : Packet(sent[i])
  <2>1. sent \in [1 .. Len(sent) -> Answers]
    BY LenProperties DEF PInv, SentInv
  <2> QED BY <2>1, AnswerIsPacket DEF Answers, PInv
<1> QED BY <1>1, <1>2, <1>3, <1>4, <1>5 DEF TypeOK, Count, PInv, MemInv

\* The variables keep their types, data_buf holds no more than the answers to the
\* entries read so far, and the core reads no word that was not delivered.  That a
\* request's answers fit data_buf is assumed (CasesAssumption): udp_reg.cpp:70-99
\* does not check it.
THEOREM TypeCorrectness == Spec => []TypeOK
  BY WellTyped, Invariance, PTL
-----------------------------------------------------------------------------
(* The core comes to rest *)

\* Tuples of three: the first difference decides.
LEMMA BelowThree ==
    ASSUME NEW a1, NEW a2, NEW a3, NEW b1, NEW b2, NEW b3,
           \/ a1 < b1
           \/ a1 = b1 /\ a2 < b2
           \/ a1 = b1 /\ a2 = b2 /\ a3 < b3
    PROVE  Below(<<a1, a2, a3>>, <<b1, b2, b3>>)
<1> DEFINE a == <<a1, a2, a3>>
           b == <<b1, b2, b3>>
<1>1. /\ a[1] = a1 /\ a[2] = a2 /\ a[3] = a3 /\ b[1] = b1 /\ b[2] = b2 /\ b[3] = b3
      /\ Len(a) = 3
  OBVIOUS
<1> HIDE DEF a, b
<1>2. PICK i \in {1, 2, 3} : a[i] < b[i] /\ \A j \in {1, 2} : j < i => a[j] = b[j]
  BY <1>1
<1>3. i \in 1 .. 3 /\ \A j \in 1 .. i - 1 : j \in {1, 2} /\ j < i
  BY SMT
<1> QED BY <1>1, <1>2, <1>3 DEF Below, a, b

LEMMA AheadNat ==
    ASSUME PInv
    PROVE  /\ Count \in Nat /\ done \in Nat /\ End[Count] \in Nat /\ pos \in Nat
           /\ Count - done \in Nat /\ End[Count] - pos \in Nat /\ PartsAhead \in Nat
<1>1. FramesInv /\ Count \in Nat /\ done \in 0 .. Count
  BY DEF PInv, FramesInv, PlaceInv
<1>2. End[Count] \in Nat
  <2>1. Count \in 0 .. Count
    BY <1>1, SMT
  <2> QED BY <1>1, <2>1, EndSteps
<1>3. pos \in 0 .. End[Count]
  BY WellTyped DEF TypeOK, Count
<1>4. PartsAhead \in Nat
  BY DEF PartsAhead, PInv, PlaceInv
<1>5. done \in Nat /\ Count - done \in Nat
  BY <1>1, SMT
<1>6. pos \in Nat /\ End[Count] - pos \in Nat
  BY <1>2, <1>3, SMT
<1> QED BY <1>1, <1>2, <1>4, <1>5, <1>6

\* Where a core cannot go on, it has served all its frames: inside a frame the
\* words it reads are words of that frame.
LEMMA StuckOnlyWhenServed ==
    ASSUME PInv
    PROVE  NeverStuck
<1>1. FramesInv /\ PlaceInv /\ Synced /\ Count \in Nat /\ done \in 0 .. Count
  BY InStep DEF PInv, FramesInv, PlaceInv
<1>2. /\ done \in Nat /\ End[Count] \in Nat /\ pos \in Nat
  BY AheadNat
<1>3. CASE phase = "headers" /\ done = Count
  BY <1>1, <1>3 DEF PlaceInv, NeverStuck, Count, Begin
<1>4. CASE phase = "headers" /\ done # Count
  <2>1. done + 1 <= Count /\ done < Len(frames)
    BY <1>1, <1>4, SMT DEF Count
  <2>2. /\ Begin \in Nat /\ Finish \in Nat /\ Begin < Finish /\ Finish <= End[Count]
        /\ IsFrame(core, frames[done + 1])
        /\ \A p \in Begin + 1 .. Finish : FrameOfWord(p) = done + 1
    BY <1>1, <2>1, FrameAt
  <2>3. pos = Begin /\ pos + Wanted <= Finish
    BY <1>1, <1>4, <2>1 DEF PlaceInv, Synced, Finish
  <2>4. Wanted \in Nat
    <3>1. pos + 1 \in Begin + 1 .. Finish
      BY <2>2, <2>3, SMT
    <3>2. Wanted = HeadLen(frames[done + 1])
      BY <1>4, <2>2, <3>1 DEF Wanted
    <3> QED BY <1>1, <2>2, <3>2, HeadFits
  <2>5. pos + 1 <= End[Count] /\ pos + Wanted <= End[Count]
    BY <1>2, <2>2, <2>3, <2>4, SMT
  <2> QED BY <1>4, <2>5 DEF NeverStuck, Given, Count
<1>5. CASE phase # "headers"
  <2>1. /\ pos + Wanted <= Finish /\ done + 1 <= Count /\ R.kind \in Kinds[core]
        /\ phase \in {"drain", "decide", "pass", "discard", "entries", "check"}
    BY <1>1, <1>5, Here DEF PlaceInv, Synced, Finish
  <2>2. Finish \in Nat /\ Finish <= End[Count]
    BY <1>1, <2>1, FrameAt
  <2>3. ASSUME NEW n \in Nat, Wanted = n
        PROVE  Given(n)
    <3>1. pos + n <= End[Count]
      BY <1>2, <2>1, <2>2, <2>3, SMT
    <3> QED BY <3>1 DEF Given, Count
  <2>4. CASE phase = "drain"
    <3>1. ~LastWord(pos) => Wanted = 1
      BY <2>4 DEF Wanted
    <3> QED BY <2>3, <2>4, <3>1 DEF NeverStuck
  <2>5. CASE phase = "decide"
    BY <1>1, <2>5 DEF PlaceInv, NeverStuck
  <2>6. CASE phase \in {"pass", "discard"}
    <3>1. Wanted = 1
      BY <2>6 DEF Wanted
    <3> QED BY <2>3, <2>6, <3>1 DEF NeverStuck
  <2>7. CASE phase = "entries"
    <3>1. R.kind \in {"read", "write"}
      BY <1>1, <2>1, <2>7 DEF PlaceInv, Kinds
    <3>2. MoreEntries => Wanted = EntryLen(R) /\ EntryLen(R) \in Nat
      BY <2>7 DEF Wanted, EntryLen
    <3>3. MoreEntries => Given(EntryLen(R))
      BY <2>3, <3>2
    <3> QED BY <2>7, <3>1, <3>3 DEF NeverStuck
  <2>8. CASE phase = "check"
    BY <2>8 DEF NeverStuck
  <2> QED BY <2>1, <2>4, <2>5, <2>6, <2>7, <2>8
<1> QED BY <1>3, <1>4, <1>5

\* Every step ends a frame, reads a word or comes to a later part of the code.
LEMMA Descends ==
    ASSUME PInv, PInv', Next
    PROVE  Below(Ahead', Ahead)
<1>1. FramesInv /\ PlaceInv /\ UNCHANGED <<core, frames>>
  BY PlaceKept DEF PInv
<1>2. Count' = Count /\ End' = End
  BY <1>1, Traffic
<1>3. Count \in Nat /\ done \in Nat /\ End[Count] \in Nat /\ pos \in Nat
  BY AheadNat
<1> DEFINE left == Count - done
           words == End[Count] - pos
<1>4. SUFFICES \/ left' < left
               \/ left' = left /\ words' < words
               \/ left' = left /\ words' = words /\ PartsAhead' < PartsAhead
  BY BelowThree DEF Ahead, Count
<1>5. ASSUME Restart
      PROVE  left' < left
  <2>1. left' = Count - (done + 1)
    BY <1>2, <1>5 DEF Restart
  <2> QED BY <1>3, <2>1, SMT
<1>6. ASSUME UNCHANGED done, NEW n \in Nat \ {0}, pos' = pos + n
      PROVE  left' = left /\ words' < words
  <2>1. left' = left /\ words' = End[Count] - (pos + n)
    BY <1>2, <1>6
  <2>2. End[Count] - (pos + n) < End[Count] - pos
    BY <1>3, SMT
  <2> QED BY <2>1, <2>2
<1>7. ASSUME UNCHANGED <<done, pos>>
      PROVE  left' = left /\ words' = words
  BY <1>2, <1>7
<1> HIDE DEF left, words
<1>8. CASE ReadHeaders
  <2> DEFINE n == FrameOfWord(pos + 1)
  <2>1. req'.n = n /\ pos' = pos + HeadLen(frames[n]) /\ UNCHANGED done
    BY <1>8 DEF ReadHeaders, Read
  <2>2. done + 1 \in 1 .. Count /\ req'.n = done + 1
    BY <1>1, <1>8, PlaceHeaders
  <2>3. IsFrame(core, frames[n])
    BY <1>1, <2>1, <2>2 DEF FramesInv
  <2>4. HeadLen(frames[n]) \in Nat \ {0}
    BY <1>1, <2>3, HeadFits
  <2> QED BY <1>6, <2>1, <2>4
<1>9. CASE Drain
  <2>1. phase = "drain"
    BY <1>9 DEF Drain
  <2>2. CASE LastWord(pos)
    <3>1. phase' = "decide" /\ UNCHANGED <<done, pos>>
      BY <1>9, <2>2 DEF Drain, Goto
    <3>2. PartsAhead = 3 /\ PartsAhead' = 2
      BY <2>1, <3>1 DEF PartsAhead
    <3> QED BY <1>7, <3>1, <3>2
  <2>3. CASE ~LastWord(pos)
    <3>1. UNCHANGED done /\ pos' = pos + 1
      BY <1>9, <2>3 DEF Drain, Read
    <3> QED BY <1>6, <3>1
  <2> QED BY <2>2, <2>3
<1>10. CASE ArpAnswer
  BY <1>5, <1>10 DEF ArpAnswer
<1>11. CASE IcmpAnswer
  <2>1. phase = "decide" /\ phase' \in {"pass", "discard"} /\ UNCHANGED <<done, pos>>
    BY <1>11 DEF IcmpAnswer, Goto
  <2>2. PartsAhead = 2 /\ PartsAhead' = 1
    BY <2>1 DEF PartsAhead
  <2> QED BY <1>7, <2>1, <2>2
<1>12. CASE Pass \/ Discard
  <2>1. pos' = pos + 1 /\ (Restart \/ UNCHANGED done)
    BY <1>12 DEF Pass, Discard, Read
  <2> QED BY <1>5, <1>6, <2>1
<1>13. CASE WriteRegister
  BY <1>6, <1>13 DEF WriteRegister, Read
<1>14. CASE ReadRegister
  BY <1>6, <1>14 DEF ReadRegister, Read
<1>15. CASE EndOfWrites \/ Respond
  <2>1. phase = "entries" /\ phase' = "check" /\ UNCHANGED <<done, pos>>
    BY <1>15 DEF EndOfWrites, Respond, Goto
  <2>2. PartsAhead = 3 /\ PartsAhead' = 2
    BY <2>1 DEF PartsAhead
  <2> QED BY <1>7, <2>1, <2>2
<1>16. CASE CheckLast
  <2>1. phase = "check"
    BY <1>16 DEF CheckLast
  <2>2. CASE LastWord(pos)
    BY <1>5, <1>16, <2>2 DEF CheckLast
  <2>3. CASE ~LastWord(pos)
    <3>1. phase' = "discard" /\ UNCHANGED <<done, pos>>
      BY <1>16, <2>3 DEF CheckLast, Goto
    <3>2. PartsAhead = 2 /\ PartsAhead' = 1
      BY <2>1, <3>1 DEF PartsAhead
    <3> QED BY <1>7, <3>1, <3>2
  <2> QED BY <2>2, <2>3
<1> QED BY <1>8, <1>9, <1>10, <1>11, <1>12, <1>13, <1>14, <1>15, <1>16 DEF Next

\* A core neither waits for ever in the middle of a frame nor goes round for ever in
\* one: until all frames are served it has a step to take, and every step leaves less to
\* do, in a well-founded order (network.cpp:84-102, 425; udp_reg.cpp:44, 70, 128).
THEOREM Rest == Spec => ComesToRest
<1>1. PInv => NeverStuck /\ Ahead \in Seq(Nat)
  <2> SUFFICES ASSUME PInv
               PROVE  NeverStuck /\ Ahead \in Seq(Nat)
    OBVIOUS
  <2>1. Ahead \in Seq(Nat)
    BY AheadNat DEF Ahead, Count
  <2> QED BY <2>1, StuckOnlyWhenServed
<1>2. PInv /\ PInv' /\ [Next]_vars => [Below(Ahead', Ahead)]_vars
  BY Descends
<1> QED BY <1>1, <1>2, Invariance, PTL DEF Spec, ComesToRest
=============================================================================
