-------------------------- MODULE BuildingBlocks_proofs --------------------------
(***************************************************************************)
(* Proofs about the small building blocks: the atomic bitset, the lock,    *)
(* the timer task, the history buffer.  Each part proves about the module  *)
(* of its name.                                                            *)
(***************************************************************************)
EXTENDS AtomicBitset, ReaderWriterLock, TimerTask, HistoryBuffer, SequenceTheorems, FiniteSetTheorems, TLAPS

-----------------------------------------------------------------------------
(***************************************************************************)
(* Bits set by several threads at once: what set() writes is the range it  *)
(* was called with, for every size of word and bitset.  A range is cut     *)
(* into parts of distinct words that cover it (RangeIsCut); what is left   *)
(* of a call keeps that, so that each exchange writes the bits of the      *)
(* range in its word and no others.                                        *)
(***************************************************************************)

Parts == [word : Int, from : Int, to : Int]

\* What is left to write covers what is missing: in each word, the bits of the range.
InRange(begin, end, q) ==
  \A i \in DOMAIN q : Mask(q[i]) = BitsOfWord(q[i].word) \cap (begin .. end - 1)
WordsDiffer(q) == \A i, j \in DOMAIN q : q[i].word = q[j].word => i = j
Covers(q, B) == \A b \in B : \E i \in DOMAIN q : WordOf(b) = q[i].word

Running(c) ==
  /\ c \in [begin : 0 .. BitSize, end : 0 .. BitSize, value : BOOLEAN, todo : Seq(Parts)]
  /\ c.todo # <<>>
  /\ InRange(c.begin, c.end, c.todo) /\ WordsDiffer(c.todo)

CallsInv ==
  \A t \in BitThreads :
    \/ call[t] = NoCall /\ missing[t] = {}
    \/ Running(call[t]) /\ missing[t] \subseteq call[t].begin .. call[t].end - 1 /\ Covers(call[t].todo, missing[t])

BitsInv ==
  /\ call \in [BitThreads -> [begin : 0 .. BitSize, end : 0 .. BitSize, value : BOOLEAN, todo : Seq(Parts)]]
  /\ missing \in [BitThreads -> SUBSET Bit]
  /\ loaded \in [BitThreads -> (SUBSET Bit) \cup {NotLoaded}]
  /\ bits \subseteq Bit /\ bits = want
  /\ CallsInv

-----------------------------------------------------------------------------
(* Words and ranges. *)

\* A position is its word and its offset in it.
LEMMA WordAndOffset ==
  ASSUME NEW a \in Nat
  PROVE  /\ WordOf(a) \in Nat
         /\ (a % BitsPerWord) \in 0 .. BitsPerWord - 1
         /\ a = (BitsPerWord * WordOf(a)) + (a % BitsPerWord)
<1> DEFINE k == a \div BitsPerWord
           r == a % BitsPerWord
<1>1. BitsPerWord \in Nat /\ BitsPerWord > 0
  BY BitsAssumption
<1>2. k \in Int /\ r \in Int /\ 0 <= r /\ r < BitsPerWord /\ a = (BitsPerWord * k) + r
  BY <1>1
<1> HIDE DEF k, r
<1>3. ~(k < 0)
  <2> SUFFICES ASSUME k < 0 PROVE FALSE
    OBVIOUS
  <2>1. BitsPerWord * k <= - BitsPerWord
    BY <1>1, <1>2
  <2>2. QED
    BY <2>1, <1>1, <1>2
<1>4. QED
  BY <1>1, <1>2, <1>3 DEF WordOf, k, r

\* Of two words, the later one begins after the other's last bit.
LEMMA WordsApart ==
  ASSUME NEW k \in Nat, NEW l \in Nat, k < l
  PROVE  /\ BitsPerWord * k \in Int /\ BitsPerWord * l \in Int
         /\ (BitsPerWord * k) + BitsPerWord <= BitsPerWord * l
<1>1. BitsPerWord \in Nat
  BY BitsAssumption
<1>2. PICK d \in Nat : l = k + 1 + d
  <2>1. l - k - 1 \in Nat /\ l = k + 1 + (l - k - 1)
    OBVIOUS
  <2>2. QED
    BY <2>1
<1>3. BitsPerWord * l = (BitsPerWord * k) + BitsPerWord + (BitsPerWord * d)
  BY <1>1, <1>2
<1>4. BitsPerWord * d >= 0 /\ BitsPerWord * d \in Int /\ BitsPerWord * k \in Int /\ BitsPerWord * l \in Int
  BY <1>1
<1>5. QED
  BY <1>1, <1>3, <1>4

\* Positions compare as their words do, and within a word as their offsets do.
LEMMA OrderByWord ==
  ASSUME NEW a \in Nat, NEW b \in Nat
  PROVE  a < b <=> \/ WordOf(a) < WordOf(b)
                   \/ WordOf(a) = WordOf(b) /\ (a % BitsPerWord) < (b % BitsPerWord)
<1> DEFINE qa == WordOf(a)
           qb == WordOf(b)
           ra == a % BitsPerWord
           rb == b % BitsPerWord
           ma == BitsPerWord * qa
           mb == BitsPerWord * qb
<1>1. /\ qa \in Nat /\ qb \in Nat /\ ra \in 0 .. BitsPerWord - 1 /\ rb \in 0 .. BitsPerWord - 1
      /\ a = ma + ra /\ b = mb + rb
  BY WordAndOffset
<1>2. BitsPerWord \in Nat
  BY BitsAssumption
<1> HIDE DEF qa, qb, ra, rb
<1>3. ma \in Int /\ mb \in Int /\ (qa = qb => ma = mb)
  BY <1>1, <1>2
<1>4. qa < qb => ma + BitsPerWord <= mb
  BY <1>1, WordsApart
<1>5. qb < qa => mb + BitsPerWord <= ma
  BY <1>1, WordsApart
<1> HIDE DEF ma, mb
<1>6. a < b <=> (qa < qb \/ (qa = qb /\ ra < rb))
  <2>1. CASE qa < qb
    BY <1>1, <1>2, <1>3, <1>4, <2>1
  <2>2. CASE qb < qa
    BY <1>1, <1>2, <1>3, <1>5, <2>2
  <2>3. CASE qa = qb
    BY <1>1, <1>2, <1>3, <2>3
  <2>4. QED
    BY <1>1, <2>1, <2>2, <2>3
<1>7. QED
  BY <1>6 DEF qa, qb, ra, rb

\* Two sequences in a row.
LEMMA JoinOfTwo ==
  ASSUME NEW S, NEW A \in Seq(S), NEW B \in Seq(S)
  PROVE  /\ A \o B \in Seq(S) /\ Len(A \o B) = Len(A) + Len(B)
         /\ \A i \in 1 .. Len(A) + Len(B) : (A \o B)[i] = IF i <= Len(A) THEN A[i] ELSE B[i - Len(A)]
BY ConcatProperties, Zenon

LEMMA JoinTwice ==
  ASSUME NEW S, NEW A \in Seq(S), NEW B \in Seq(S), NEW F \in Seq(S)
  PROVE  LET q == (A \o B) \o F
         IN  /\ q \in Seq(S) /\ Len(q) = Len(A \o B) + Len(F)
             /\ \A i \in 1 .. Len(A \o B) + Len(F) : q[i] = IF i <= Len(A \o B) THEN (A \o B)[i] ELSE F[i - Len(A \o B)]
<1>1. A \o B \in Seq(S)
  BY ConcatProperties, Zenon
<1>2. QED
  BY <1>1, ConcatProperties, Zenon

\* Three sequences in a row.
LEMMA JoinOfThree ==
  ASSUME NEW S, NEW A \in Seq(S), NEW B \in Seq(S), NEW F \in Seq(S),
         NEW la, la = Len(A), NEW lb, lb = Len(B), NEW n, n = Len(F),
         NEW q, q = A \o B \o F
  PROVE  /\ q \in Seq(S) /\ Len(q) = la + lb + n
         /\ \A i \in 1 .. la : q[i] = A[i]
         /\ \A i \in 1 .. lb : q[la + i] = B[i]
         /\ \A i \in 1 .. n : q[la + lb + i] = F[i]
<1>1. la \in Nat /\ lb \in Nat /\ n \in Nat
  BY LenProperties
<1> DEFINE AB == A \o B
<1>2. /\ AB \in Seq(S) /\ Len(AB) = Len(A) + Len(B)
      /\ \A i \in 1 .. Len(A) + Len(B) : AB[i] = IF i <= Len(A) THEN A[i] ELSE B[i - Len(A)]
      /\ q \in Seq(S) /\ Len(q) = Len(AB) + Len(F)
      /\ \A i \in 1 .. Len(AB) + Len(F) : q[i] = IF i <= Len(AB) THEN AB[i] ELSE F[i - Len(AB)]
  BY JoinOfTwo, JoinTwice
<1> HIDE DEF AB
<1>3. /\ AB \in Seq(S) /\ Len(AB) = la + lb
      /\ \A i \in 1 .. la + lb : AB[i] = IF i <= la THEN A[i] ELSE B[i - la]
  BY <1>2
<1>4. /\ q \in Seq(S) /\ Len(q) = la + lb + n
      /\ \A i \in 1 .. la + lb + n : q[i] = IF i <= la + lb THEN AB[i] ELSE F[i - (la + lb)]
  BY <1>2, <1>3
<1>5. ASSUME NEW i \in 1 .. la
      PROVE  q[i] = A[i]
  <2>1. i \in 1 .. la + lb /\ i \in 1 .. la + lb + n /\ i <= la /\ i <= la + lb
    BY <1>1
  <2>2. QED
    BY <2>1, <1>3, <1>4
<1>6. ASSUME NEW i \in 1 .. lb
      PROVE  q[la + i] = B[i]
  <2>1. la + i \in 1 .. la + lb /\ la + i \in 1 .. la + lb + n /\ ~(la + i <= la) /\ la + i <= la + lb /\ la + i - la = i
    BY <1>1
  <2>2. q[la + i] = AB[la + i]
    BY <2>1, <1>4
  <2>3. AB[la + i] = B[la + i - la]
    BY <2>1, <1>3
  <2>4. QED
    BY <2>1, <2>2, <2>3
<1>7. ASSUME NEW i \in 1 .. n
      PROVE  q[la + lb + i] = F[i]
  <2>1. la + lb + i \in 1 .. la + lb + n /\ ~(la + lb + i <= la + lb) /\ la + lb + i - (la + lb) = i
    BY <1>1
  <2>2. q[la + lb + i] = F[la + lb + i - (la + lb)]
    BY <2>1, <1>4
  <2>3. QED
    BY <2>1, <2>2
<1>8. QED
  BY <1>4, <1>5, <1>6, <1>7

\* setRange() cuts a range into parts of distinct words, each the bits of the range in
\* its word, that cover the range, whether or not it starts or ends on a word boundary.
LEMMA RangeIsCut ==
  ASSUME NEW begin \in 0 .. BitSize, NEW end \in 0 .. BitSize, begin < end,
         NEW q, q = setRange(begin, end)
  PROVE  /\ q \in Seq(Parts) /\ q # <<>>
         /\ InRange(begin, end, q) /\ WordsDiffer(q) /\ Covers(q, begin .. end - 1)
<1> DEFINE bw == begin \div BitsPerWord
           ew == end \div BitsPerWord
           bo == begin % BitsPerWord
           eo == end % BitsPerWord
           W == BitsPerWord
           In(w, o) == /\ bw < w \/ (bw = w /\ bo <= o)
                       /\ w < ew \/ (w = ew /\ o < eo)
<1>1. /\ bw \in Nat /\ ew \in Nat /\ W \in Nat /\ W >= 1
      /\ bo \in 0 .. W - 1 /\ eo \in 0 .. W - 1
      /\ bw < ew \/ (bw = ew /\ bo < eo)
  <2>1. begin \in Nat /\ end \in Nat
    BY BitsAssumption
  <2>2. /\ bw \in Nat /\ bo \in 0 .. W - 1 /\ ew \in Nat /\ eo \in 0 .. W - 1
    BY <2>1, WordAndOffset DEF WordOf
  <2>3. bw < ew \/ (bw = ew /\ bo < eo)
    BY <2>1, OrderByWord DEF WordOf
  <2>4. QED
    BY <2>2, <2>3, BitsAssumption
<1>2. ASSUME NEW b \in Nat
      PROVE  b \in begin .. end - 1 <=> In(WordOf(b), b % W)
  <2> begin \in Nat /\ end \in Nat
    BY BitsAssumption
  <2>1. b \in begin .. end - 1 <=> ~(b < begin) /\ b < end
    OBVIOUS
  <2>2. /\ b < begin <=> (WordOf(b) < bw \/ (WordOf(b) = bw /\ (b % W) < bo))
        /\ b < end <=> (WordOf(b) < ew \/ (WordOf(b) = ew /\ (b % W) < eo))
    <3>1. b < begin <=> (WordOf(b) < WordOf(begin) \/ (WordOf(b) = WordOf(begin) /\ (b % BitsPerWord) < (begin % BitsPerWord)))
      BY OrderByWord
    <3>2. b < end <=> (WordOf(b) < WordOf(end) \/ (WordOf(b) = WordOf(end) /\ (b % BitsPerWord) < (end % BitsPerWord)))
      BY OrderByWord
    <3>3. WordOf(begin) = bw /\ WordOf(end) = ew
      BY DEF WordOf
    <3>4. QED
      BY <3>1, <3>2, <3>3
  <2>3. WordOf(b) \in Nat /\ (b % W) \in 0 .. W - 1
    BY WordAndOffset
  <2>4. QED
    BY <2>1, <2>2, <2>3, <1>1
<1>3. \A b \in Bit : b \in Nat /\ WordOf(b) \in Nat /\ (b % W) \in 0 .. W - 1
  <2> SUFFICES ASSUME NEW b \in Bit PROVE b \in Nat /\ WordOf(b) \in Nat /\ (b % W) \in 0 .. W - 1
    OBVIOUS
  <2>1. b \in Nat
    BY BitsAssumption DEF Bit
  <2>2. QED
    BY <2>1, WordAndOffset
<1>4. begin .. end - 1 \subseteq Bit
  BY BitsAssumption DEF Bit
\* A part of a word holds the bits of the range when its offsets do.
<1>5. ASSUME NEW p \in Parts, \A o \in 0 .. W - 1 : o \in p.from .. p.to - 1 <=> In(p.word, o)
      PROVE  Mask(p) = BitsOfWord(p.word) \cap (begin .. end - 1)
  <2>1. ASSUME NEW b \in Bit, WordOf(b) = p.word
        PROVE  (b % W) \in p.from .. p.to - 1 <=> b \in begin .. end - 1
    <3>1. b \in Nat /\ (b % W) \in 0 .. W - 1
      BY <1>3
    <3>2. (b % W) \in p.from .. p.to - 1 <=> In(p.word, b % W)
      BY <3>1, <1>5
    <3>3. QED
      BY <3>1, <3>2, <1>2, <2>1
  <2>2. QED
    BY <2>1, <1>4 DEF Mask, BitsOfWord
<1>6. CASE bw = ew
  <2>1. q = <<Part(bw, bo, eo)>>
    BY <1>6 DEF setRange
  <2>2. Part(bw, bo, eo) \in Parts /\ Part(bw, bo, eo).word = bw /\ Part(bw, bo, eo).from = bo /\ Part(bw, bo, eo).to = eo
    BY <1>1 DEF Part, Parts
  <2>3. q \in Seq(Parts) /\ q # <<>> /\ DOMAIN q = {1} /\ q[1] = Part(bw, bo, eo)
    BY <2>1, <2>2
  <2>4. \A o \in 0 .. W - 1 : o \in bo .. eo - 1 <=> In(bw, o)
    BY <1>1, <1>6
  <2>5. InRange(begin, end, q)
    BY <2>2, <2>3, <2>4, <1>5 DEF InRange
  <2>6. \A b \in begin .. end - 1 : WordOf(b) = bw
    BY <1>1, <1>2, <1>3, <1>4, <1>6
  <2>7. QED
    BY <2>2, <2>3, <2>5, <2>6 DEF WordsDiffer, Covers
<1>7. CASE bw # ew
  <2> DEFINE first == IF bo # 0 THEN bw + 1 ELSE bw
             A == IF bo # 0 THEN <<Part(bw, bo, W)>> ELSE <<>>
             B == IF eo # 0 THEN <<Part(ew, 0, eo)>> ELSE <<>>
             n == IF ew - 1 < first THEN 0 ELSE ew - 1 - first + 1
             F == [i \in 1 .. n |-> Part(first + i - 1, 0, W)]
             la == IF bo # 0 THEN 1 ELSE 0
             lb == IF eo # 0 THEN 1 ELSE 0
  <2>1. q = A \o B \o F
    BY SMTT(30), ZenonT(20), <1>7 DEF setRange, FullWords
  <2>2. /\ bw < ew /\ first \in Nat /\ n \in Nat /\ n = ew - first /\ la \in 0 .. 1 /\ lb \in 0 .. 1
        /\ la = 0 <=> bo = 0
        /\ lb = 0 <=> eo = 0
        /\ first = bw + la
    BY <1>1, <1>7
  <2>3. /\ A \in Seq(Parts) /\ Len(A) = la /\ (la = 1 => A[1] = Part(bw, bo, W))
        /\ B \in Seq(Parts) /\ Len(B) = lb /\ (lb = 1 => B[1] = Part(ew, 0, eo))
    <3>1. Part(bw, bo, W) \in Parts /\ Part(ew, 0, eo) \in Parts
      BY <1>1 DEF Part, Parts
    <3>2. CASE bo = 0 /\ eo = 0
      BY <3>1, <3>2
    <3>3. CASE bo = 0 /\ eo # 0
      BY <3>1, <3>3
    <3>4. CASE bo # 0 /\ eo = 0
      BY <3>1, <3>4
    <3>5. CASE bo # 0 /\ eo # 0
      BY <3>1, <3>5
    <3>6. QED
      BY <3>2, <3>3, <3>4, <3>5
  <2>4. F \in Seq(Parts) /\ Len(F) = n /\ \A i \in 1 .. n : F[i] = Part(first + i - 1, 0, W)
    <3>1. \A i \in 1 .. n : Part(first + i - 1, 0, W) \in Parts
      BY <2>2, <1>1 DEF Part, Parts
    <3>2. QED
      BY <3>1, <2>2
  <2> HIDE DEF first, n, la, lb, A, B, F, bw, ew, bo, eo, W
  <2>5. /\ q \in Seq(Parts) /\ Len(q) = la + lb + n
        /\ \A i \in 1 .. la : q[i] = A[i]
        /\ \A i \in 1 .. lb : q[la + i] = B[i]
        /\ \A i \in 1 .. n : q[la + lb + i] = F[i]
    <3>1. /\ A \in Seq(Parts) /\ B \in Seq(Parts) /\ F \in Seq(Parts)
          /\ la = Len(A) /\ lb = Len(B) /\ n = Len(F)
      BY <2>3, <2>4
    <3>2. QED
      BY <2>1, <3>1, JoinOfThree
  \* The parts one by one.
  <2>6. ASSUME NEW i \in 1 .. la + lb + n
        PROVE  \/ i = 1 /\ la = 1 /\ q[i] = Part(bw, bo, W)
               \/ i = la + 1 /\ lb = 1 /\ q[i] = Part(ew, 0, eo)
               \/ i > la + lb /\ q[i] = Part(bw + la + (i - la - lb) - 1, 0, W)
    <3>1. CASE i <= la
      <4>1. i = 1 /\ la = 1 /\ 1 \in 1 .. la
        BY <3>1, <2>2
      <4>2. QED
        BY <4>1, <2>3, <2>5
    <3>2. CASE i > la /\ i <= la + lb
      <4>1. i = la + 1 /\ lb = 1 /\ 1 \in 1 .. lb
        BY <3>2, <2>2
      <4>2. QED
        BY <4>1, <2>3, <2>5
    <3>3. CASE i > la + lb
      <4> DEFINE k == i - la - lb
      <4>1. k \in 1 .. n /\ i = la + lb + k
        BY <3>3, <2>2
      <4> HIDE DEF k
      <4>2. q[i] = Part(first + k - 1, 0, W)
        BY <4>1, <2>4, <2>5
      <4>3. QED
        BY <3>3, <4>2, <2>2 DEF k
    <3>4. QED
      BY <3>1, <3>2, <3>3, <2>2
  <2>7. \A w, f, l : Part(w, f, l).word = w /\ Part(w, f, l).from = f /\ Part(w, f, l).to = l
    BY DEF Part
  <2>8. DOMAIN q = 1 .. la + lb + n /\ q # <<>>
    <3>1. la + lb + n >= 1
      BY <1>1, <2>2
    <3>2. QED
      BY <3>1, <2>5, <2>2
  <2>9. InRange(begin, end, q)
    <3> SUFFICES ASSUME NEW i \in 1 .. la + lb + n PROVE Mask(q[i]) = BitsOfWord(q[i].word) \cap (begin .. end - 1)
      BY <2>8 DEF InRange
    <3>1. q[i] \in Parts
      BY <2>5, <2>2, <2>8
    <3>2. \A o \in 0 .. W - 1 : o \in q[i].from .. q[i].to - 1 <=> In(q[i].word, o)
      <4>1. CASE i = 1 /\ la = 1 /\ q[i] = Part(bw, bo, W)
        BY <4>1, <2>7, <2>2, <1>1
      <4>2. CASE i = la + 1 /\ lb = 1 /\ q[i] = Part(ew, 0, eo)
        BY <4>2, <2>7, <2>2, <1>1
      <4>3. CASE i > la + lb /\ q[i] = Part(bw + la + (i - la - lb) - 1, 0, W)
        <5> DEFINE w == bw + la + (i - la - lb) - 1
        <5>1. w \in Int /\ w >= bw + la /\ w < ew
          BY <4>3, <2>2, <1>1
        <5> HIDE DEF w
        <5>2. q[i].word = w /\ q[i].from = 0 /\ q[i].to = W
          BY <4>3, <2>7 DEF w
        <5>3. \A o \in 0 .. W - 1 : o \in 0 .. W - 1 /\ In(w, o)
          BY <5>1, <2>2, <1>1
        <5>4. QED
          BY <5>2, <5>3
      <4>4. QED
        BY <4>1, <4>2, <4>3, <2>6
    <3>3. QED
      BY <3>1, <3>2, <1>5 DEF W
  <2>10. WordsDiffer(q)
    <3> SUFFICES ASSUME NEW i \in 1 .. la + lb + n, NEW j \in 1 .. la + lb + n, q[i].word = q[j].word PROVE i = j
      BY <2>8 DEF WordsDiffer
    <3>1. \A k \in 1 .. la + lb + n :
             \/ k = 1 /\ la = 1 /\ q[k].word = bw
             \/ k = la + 1 /\ lb = 1 /\ q[k].word = ew
             \/ k > la + lb /\ q[k].word = bw + la + (k - la - lb) - 1 /\ q[k].word < ew
      <4> SUFFICES ASSUME NEW k \in 1 .. la + lb + n
                   PROVE \/ k = 1 /\ la = 1 /\ q[k].word = bw
                         \/ k = la + 1 /\ lb = 1 /\ q[k].word = ew
                         \/ k > la + lb /\ q[k].word = bw + la + (k - la - lb) - 1 /\ q[k].word < ew
        OBVIOUS
      <4>1. bw + la + (k - la - lb) - 1 < ew
        BY <2>2, <1>1
      <4>2. QED
        BY <4>1, <2>6, <2>7
    <3>2. QED
      BY <3>1, <2>2, <1>1
  <2>11. Covers(q, begin .. end - 1)
    <3> SUFFICES ASSUME NEW b \in begin .. end - 1 PROVE \E i \in 1 .. la + lb + n : WordOf(b) = q[i].word
      BY <2>8 DEF Covers
    <3>1. WordOf(b) \in Nat /\ (b % W) \in 0 .. W - 1 /\ In(WordOf(b), b % W)
      BY <1>2, <1>3, <1>4 DEF W
    <3>2. \/ WordOf(b) = bw /\ la = 1
          \/ WordOf(b) = ew /\ lb = 1
          \/ WordOf(b) >= bw + la /\ WordOf(b) < ew
      BY <3>1, <2>2, <1>1
    <3>3. CASE WordOf(b) = bw /\ la = 1
      <4>1. 1 \in 1 .. la + lb + n /\ 1 \in 1 .. la
        BY <3>3, <2>2
      <4>2. q[1].word = bw
        BY <4>1, <3>3, <2>3, <2>5, <2>7
      <4>3. QED
        BY <4>1, <4>2, <3>3
    <3>4. CASE WordOf(b) = ew /\ lb = 1
      <4>1. la + 1 \in 1 .. la + lb + n /\ 1 \in 1 .. lb
        BY <3>4, <2>2
      <4>2. q[la + 1] = B[1]
        BY <4>1, <2>5
      <4>3. q[la + 1].word = ew
        BY <4>2, <3>4, <2>3, <2>7
      <4>4. QED
        BY <4>1, <4>3, <3>4
    <3>5. CASE WordOf(b) >= bw + la /\ WordOf(b) < ew
      <4> DEFINE k == WordOf(b) - (bw + la) + 1
      <4>1. k \in 1 .. n /\ first + k - 1 = WordOf(b)
        BY <3>1, <3>5, <2>2, <1>1
      <4> HIDE DEF k
      <4>2. q[la + lb + k].word = WordOf(b)
        BY <4>1, <2>4, <2>5, <2>7
      <4>3. la + lb + k \in 1 .. la + lb + n
        BY <4>1, <2>2
      <4>4. QED
        BY <4>2, <4>3
    <3>6. QED
      BY <3>2, <3>3, <3>4, <3>5
  <2>12. QED
    BY <2>5, <2>8, <2>9, <2>10, <2>11
<1>8. QED
  BY <1>6, <1>7
-----------------------------------------------------------------------------
(* The calls. *)

\* An exchange that succeeds, and a store of a whole word, write the range's bits of the word.
LEMMA WordIsWritten ==
  ASSUME BitsInv, NEW t \in BitThreads, call[t].todo # <<>>,
         NEW p, p = Head(call[t].todo),
         bits' = With(bits, Mask(p), call[t].value), Written(t, p.word)
  PROVE  BitsInv'
<1> DEFINE c == call[t]
           q == call[t].todo
           mine == BitsOfWord(p.word) \cap (c.begin .. c.end - 1)
<1>1. Running(c) /\ missing[t] \subseteq c.begin .. c.end - 1 /\ Covers(q, missing[t])
  BY DEF BitsInv, CallsInv, NoCall
<1>2. /\ q \in Seq(Parts) /\ Len(q) \in Nat /\ Len(q) >= 1 /\ DOMAIN q = 1 .. Len(q) /\ p = q[1]
      /\ c.value \in BOOLEAN /\ c.begin \in 0 .. BitSize /\ c.end \in 0 .. BitSize
  BY <1>1 DEF Running
<1>3. Mask(p) = mine /\ mine \subseteq Bit
  BY <1>1, <1>2 DEF Running, InRange, BitsOfWord
<1>4. bits' \subseteq Bit /\ bits' = want'
  BY <1>3 DEF BitsInv, With, Written
<1>5. missing' = [missing EXCEPT ![t] = @ \ mine] /\ loaded' = [loaded EXCEPT ![t] = NotLoaded]
      /\ call' = [call EXCEPT ![t] = IF Len(q) = 1 THEN NoCall ELSE [c EXCEPT !.todo = Tail(q)]]
  <2>1. missing' = [missing EXCEPT ![t] = @ \ mine]
    BY DEF Written
  <2>2. loaded' = [loaded EXCEPT ![t] = NotLoaded]
    BY DEF Written
  <2>3. call' = [call EXCEPT ![t] = IF Len(q) = 1 THEN NoCall ELSE [c EXCEPT !.todo = Tail(q)]]
    BY DEF Written
  <2>4. QED
    BY <2>1, <2>2, <2>3
<1>6. missing' \in [BitThreads -> SUBSET Bit] /\ loaded' \in [BitThreads -> (SUBSET Bit) \cup {NotLoaded}]
  <2>1. missing' \in [BitThreads -> SUBSET Bit]
    BY <1>5 DEF BitsInv
  <2>2. loaded' \in [BitThreads -> (SUBSET Bit) \cup {NotLoaded}]
    <3>1. loaded \in [BitThreads -> (SUBSET Bit) \cup {NotLoaded}] /\ NotLoaded \in (SUBSET Bit) \cup {NotLoaded}
      BY DEF BitsInv
    <3>2. QED
      BY <3>1, <1>5
  <2>3. QED
    BY <2>1, <2>2
<1>7. missing'[t] = missing[t] \ mine
  BY <1>5 DEF BitsInv
<1>8. \A b \in missing'[t] : WordOf(b) # p.word /\ \E i \in 2 .. Len(q) : WordOf(b) = q[i].word
  <2> SUFFICES ASSUME NEW b \in missing'[t]
               PROVE  WordOf(b) # p.word /\ \E i \in 2 .. Len(q) : WordOf(b) = q[i].word
    OBVIOUS
  <2>1. b \in missing[t] /\ b \notin mine /\ b \in Bit /\ b \in c.begin .. c.end - 1
    BY <1>1, <1>7 DEF BitsInv
  <2>2. WordOf(b) # p.word
    BY <2>1 DEF BitsOfWord
  <2>3. PICK i \in 1 .. Len(q) : WordOf(b) = q[i].word
    BY <1>1, <1>2, <2>1 DEF Covers
  <2>4. i # 1
    BY <2>2, <2>3, <1>2
  <2>5. QED
    BY <2>2, <2>3, <2>4
<1>9. CASE Len(q) = 1
  <2>1. call' = [call EXCEPT ![t] = NoCall] /\ missing'[t] = {}
    BY <1>5, <1>8, <1>9
  <2>2. NoCall \in [begin : 0 .. BitSize, end : 0 .. BitSize, value : BOOLEAN, todo : Seq(Parts)]
    BY BitsAssumption DEF NoCall
  <2>3. call' \in [BitThreads -> [begin : 0 .. BitSize, end : 0 .. BitSize, value : BOOLEAN, todo : Seq(Parts)]]
    BY <2>1, <2>2 DEF BitsInv
  <2>4. CallsInv'
    <3> SUFFICES ASSUME NEW u \in BitThreads
                 PROVE  (\/ call[u] = NoCall /\ missing[u] = {}
                         \/ Running(call[u]) /\ missing[u] \subseteq call[u].begin .. call[u].end - 1
                            /\ Covers(call[u].todo, missing[u]))'
      BY DEF CallsInv
    <3>1. CASE u = t
      BY <3>1, <2>1 DEF BitsInv
    <3>2. CASE u # t
      <4>1. call'[u] = call[u] /\ missing'[u] = missing[u]
        BY <3>2, <2>1, <1>5 DEF BitsInv
      <4>2. QED
        BY <4>1 DEF BitsInv, CallsInv, Running
    <3>3. QED
      BY <3>1, <3>2
  <2>5. QED
    BY <2>3, <2>4, <1>4, <1>6 DEF BitsInv
<1>10. CASE Len(q) # 1
  <2> DEFINE r == Tail(q)
             d == [c EXCEPT !.todo = r]
  <2>1. call' = [call EXCEPT ![t] = d]
    BY <1>5, <1>10
  <2>2. r \in Seq(Parts) /\ Len(r) = Len(q) - 1 /\ DOMAIN r = 1 .. Len(q) - 1 /\ \A i \in 1 .. Len(q) - 1 : r[i] = q[i + 1]
    <3>1. q # <<>>
      OBVIOUS
    <3>2. /\ r \in Seq(Parts) /\ Len(r) = Len(q) - 1
          /\ \A i \in 1 .. Len(r) : r[i] = q[i + 1]
      BY <3>1, <1>2, HeadTailProperties
    <3> HIDE DEF r
    <3>3. QED
      BY <3>2
  <2>3. r # <<>>
    <3> HIDE DEF r
    <3>1. Len(r) = Len(q) - 1 /\ Len(q) \in Nat /\ Len(q) >= 1 /\ Len(q) # 1
      BY <2>2, <1>2, <1>10
    <3> HIDE DEF q
    <3>2. Len(r) # 0
      BY <3>1
    <3>3. QED
      BY <3>2
  <2>4. /\ d \in [begin : 0 .. BitSize, end : 0 .. BitSize, value : BOOLEAN, todo : Seq(Parts)]
        /\ d.todo = r /\ d.begin = c.begin /\ d.end = c.end
    BY <2>2, <1>1 DEF Running
  <2> HIDE DEF r, d
  <2>5. InRange(c.begin, c.end, r) /\ WordsDiffer(r)
    <3>1. \A i \in DOMAIN r : r[i] = q[i + 1] /\ i + 1 \in DOMAIN q
      BY <1>2, <2>2
    <3>2. InRange(c.begin, c.end, r)
      BY <3>1, <1>1 DEF Running, InRange
    <3>3. \A i, j \in DOMAIN r : r[i].word = r[j].word => i + 1 = j + 1
      BY <3>1, <1>1 DEF Running, WordsDiffer
    <3>4. \A i, j \in DOMAIN r : i + 1 = j + 1 => i = j
      BY <1>2, <2>2
    <3>5. QED
      BY <3>2, <3>3, <3>4 DEF WordsDiffer
  <2>6. Covers(r, missing'[t])
    <3> SUFFICES ASSUME NEW b \in missing'[t] PROVE \E i \in DOMAIN r : WordOf(b) = r[i].word
      BY DEF Covers
    <3>1. PICK i \in 2 .. Len(q) : WordOf(b) = q[i].word
      BY <1>8
    <3>2. i - 1 \in DOMAIN r /\ r[i - 1] = q[i]
      BY <3>1, <2>2, <1>2
    <3>3. QED
      BY <3>1, <3>2
  <2>7. call' \in [BitThreads -> [begin : 0 .. BitSize, end : 0 .. BitSize, value : BOOLEAN, todo : Seq(Parts)]]
    BY <2>1, <2>4 DEF BitsInv
  <2>8. CallsInv'
    <3> SUFFICES ASSUME NEW u \in BitThreads
                 PROVE  (\/ call[u] = NoCall /\ missing[u] = {}
                         \/ Running(call[u]) /\ missing[u] \subseteq call[u].begin .. call[u].end - 1
                            /\ Covers(call[u].todo, missing[u]))'
      BY DEF CallsInv
    <3>1. CASE u = t
      <4>1. call'[t] = d
        BY <2>1 DEF BitsInv
      <4>2. Running(d)
        BY <2>3, <2>4, <2>5 DEF Running
      <4>3. missing'[t] \subseteq d.begin .. d.end - 1
        BY <1>1, <1>7, <2>4
      <4>4. QED
        BY <3>1, <4>1, <4>2, <4>3, <2>4, <2>6
    <3>2. CASE u # t
      <4>1. call'[u] = call[u] /\ missing'[u] = missing[u]
        BY <3>2, <2>1, <1>5 DEF BitsInv
      <4>2. QED
        BY <4>1 DEF BitsInv, CallsInv
    <3>3. QED
      BY <3>1, <3>2
  <2>9. QED
    BY <2>7, <2>8, <1>4, <1>6 DEF BitsInv
<1>11. QED
  BY <1>9, <1>10

LEMMA BitsInductive == BitsSpec => []BitsInv
<1>1. BitsInit => BitsInv
  <2> SUFFICES ASSUME BitsInit PROVE BitsInv
    OBVIOUS
  <2>1. NoCall \in [begin : 0 .. BitSize, end : 0 .. BitSize, value : BOOLEAN, todo : Seq(Parts)]
    BY BitsAssumption DEF NoCall
  <2>2. QED
    BY <2>1 DEF BitsInit, BitsInv, CallsInv
<1>2. BitsInv /\ [BitsNext]_bitVars => BitsInv'
  <2> SUFFICES ASSUME BitsInv, [BitsNext]_bitVars PROVE BitsInv'
    OBVIOUS
  <2>1. CASE UNCHANGED bitVars
    BY <2>1 DEF bitVars, BitsInv, CallsInv
  <2>2. ASSUME NEW t \in BitThreads, NEW begin \in 0 .. BitSize, NEW end \in 0 .. BitSize, NEW value \in BOOLEAN,
               CallSet(t, begin, end, value)
        PROVE  BitsInv'
    <3> DEFINE q == setRange(begin, end)
               c == [begin |-> begin, end |-> end, value |-> value, todo |-> q]
    <3>1. q \in Seq(Parts) /\ q # <<>> /\ InRange(begin, end, q) /\ WordsDiffer(q) /\ Covers(q, begin .. end - 1)
      BY <2>2, RangeIsCut DEF CallSet
    <3>2. call' = [call EXCEPT ![t] = c] /\ missing' = [missing EXCEPT ![t] = begin .. end - 1]
          /\ UNCHANGED <<bits, loaded, want>>
      BY <2>2 DEF CallSet
    <3> HIDE DEF q
    <3>3. begin .. end - 1 \subseteq Bit
      BY BitsAssumption DEF Bit
    <3>4. c \in [begin : 0 .. BitSize, end : 0 .. BitSize, value : BOOLEAN, todo : Seq(Parts)] /\ Running(c)
      BY <3>1 DEF Running
    <3>5. /\ call' \in [BitThreads -> [begin : 0 .. BitSize, end : 0 .. BitSize, value : BOOLEAN, todo : Seq(Parts)]]
          /\ missing' \in [BitThreads -> SUBSET Bit]
      BY <3>2, <3>3, <3>4 DEF BitsInv
    <3>6. CallsInv'
      <4> SUFFICES ASSUME NEW u \in BitThreads
                   PROVE  (\/ call[u] = NoCall /\ missing[u] = {}
                           \/ Running(call[u]) /\ missing[u] \subseteq call[u].begin .. call[u].end - 1
                              /\ Covers(call[u].todo, missing[u]))'
        BY DEF CallsInv
      <4>1. CASE u = t
        <5>1. call'[t] = c /\ missing'[t] = begin .. end - 1
          BY <3>2 DEF BitsInv
        <5>2. c.begin = begin /\ c.end = end /\ c.todo = q
          OBVIOUS
        <5> HIDE DEF c
        <5>3. QED
          BY <4>1, <5>1, <5>2, <3>1, <3>4
      <4>2. CASE u # t
        <5>1. call'[u] = call[u] /\ missing'[u] = missing[u]
          BY <4>2, <3>2 DEF BitsInv
        <5>2. QED
          BY <5>1 DEF BitsInv, CallsInv
      <4>3. QED
        BY <4>1, <4>2
    <3>7. QED
      BY <3>2, <3>5, <3>6 DEF BitsInv
  <2>3. ASSUME NEW t \in BitThreads, LoadWord(t)
        PROVE  BitsInv'
    <3>1. UNCHANGED <<bits, call, want, missing>> /\ loaded' \in [BitThreads -> (SUBSET Bit) \cup {NotLoaded}]
      BY <2>3 DEF LoadWord, BitsInv
    <3>2. QED
      BY <3>1 DEF BitsInv, CallsInv
  <2>4. ASSUME NEW t \in BitThreads, CasWord(t)
        PROVE  BitsInv'
    <3> DEFINE p == Head(call[t].todo)
               word == BitsOfWord(p.word)
    <3>1. CASE loaded[t] = bits \cap word
      <4>1. bits' = (bits \ word) \cup With(loaded[t], Mask(p), call[t].value) /\ Written(t, p.word) /\ call[t].todo # <<>>
        BY <2>4, <3>1 DEF CasWord
      <4>2. Mask(p) \subseteq word
        BY DEF Mask, BitsOfWord
      <4>3. bits' = With(bits, Mask(p), call[t].value)
        BY <4>1, <4>2, <3>1 DEF With
      <4>4. QED
        BY <4>1, <4>3, WordIsWritten
    <3>2. CASE loaded[t] # bits \cap word
      <4>1. UNCHANGED <<bits, call, want, missing>> /\ loaded' = [loaded EXCEPT ![t] = NotLoaded]
        BY <2>4, <3>2 DEF CasWord
      <4>2. QED
        BY <4>1 DEF BitsInv, CallsInv
    <3>3. QED
      BY <3>1, <3>2
  <2>5. ASSUME NEW t \in BitThreads, setFullWord(t)
        PROVE  BitsInv'
    <3> DEFINE p == Head(call[t].todo)
    <3>1. /\ call[t].todo # <<>> /\ IsFull(p) /\ Written(t, p.word)
          /\ bits' = With(bits, BitsOfWord(p.word), call[t].value)
      BY <2>5 DEF setFullWord
    <3>2. \A b \in Bit : (b % BitsPerWord) \in 0 .. BitsPerWord - 1
      BY WordAndOffset, BitsAssumption DEF Bit
    <3>3. Mask(p) = BitsOfWord(p.word)
      BY <3>1, <3>2 DEF IsFull, Mask, BitsOfWord
    <3>4. QED
      BY <3>1, <3>3, WordIsWritten
  <2>6. QED
    BY <2>1, <2>2, <2>3, <2>4, <2>5 DEF BitsNext
<1>3. QED
  BY <1>1, <1>2, PTL DEF BitsSpec

\* Every bit has the value of the call that wrote it last, and a call that has returned has written
\* its whole range (AtomicBitset.hpp:68-101, 137-147), for any number of threads and any word size.
THEOREM BitsAreAsCalled == BitsSpec => []BitsAsCalled
<1>1. BitsInv => BitsAsCalled
  <2> SUFFICES ASSUME BitsInv PROVE BitsAsCalled
    OBVIOUS
  <2>1. ASSUME NEW t \in BitThreads, call[t] = NoCall PROVE missing[t] = {}
    <3>1. call[t].todo = <<>>
      BY <2>1 DEF NoCall
    <3>2. QED
      BY <3>1 DEF BitsInv, CallsInv, Running
  <2>2. QED
    BY <2>1 DEF BitsInv, BitsAsCalled, NoBitLost, RangeCovered
<1>2. QED
  BY <1>1, BitsInductive, PTL

-----------------------------------------------------------------------------
(***************************************************************************)
(* Proofs about module ReaderWriterLock, for any set of threads: finitely  *)
(* many hold the lock at a time, since one step lets in one thread.  The   *)
(* property needs one more fact about a thread between its load and its    *)
(* exchange: the value it will exchange has the sign of its own kind.      *)
(***************************************************************************)

\* A thread that has loaded the counter exchanges it only for its own kind.
ExpectsOwnKind ==
  \A t \in LockThreads : rwPc[t] = "loaded" =>
    IF rwKind[t] = "READ" THEN rwExpected[t] >= 0 ELSE rwExpected[t] <= 0

FiniteHolders == \A kind \in LockType : IsFiniteSet(Inside(kind))

RwInv == RwTypeOK /\ ExpectsOwnKind /\ FiniteHolders /\ LockExcludes

-----------------------------------------------------------------------------
\* The first branch of Expected() leaves no value of the other kind's sign (reader_writer_lock.hpp:34-36).
LEMMA ExpectedHasSign ==
  ASSUME NEW kind \in LockType, NEW count \in Int
  PROVE  /\ Expected(kind, count) \in Int
         /\ IF kind = "READ" THEN Expected(kind, count) >= 0 ELSE Expected(kind, count) <= 0
  BY DEF LockType, Expected

\* While the counter has the sign of a kind, or is 0, nobody of the other kind is inside.
LEMMA CounterTellsKind ==
  ASSUME RwInv
  PROVE  /\ activeReaderCount >= 0 => Inside("WRITE") = {}
         /\ activeReaderCount <= 0 => Inside("READ") = {}
<1> DEFINE R == Inside("READ")
           W == Inside("WRITE")
<1>1. IsFiniteSet(R) /\ IsFiniteSet(W)
  BY DEF RwInv, FiniteHolders, LockType
<1>2. Cardinality(R) \in Nat /\ Cardinality(W) \in Nat
  BY <1>1, FS_CardinalityType
<1>3. (Cardinality(R) = 0 <=> R = {}) /\ (Cardinality(W) = 0 <=> W = {})
  BY <1>1, FS_EmptySet
<1>4. /\ R = {} \/ W = {}
      /\ activeReaderCount = Cardinality(R) - Cardinality(W)
  BY DEF RwInv, LockExcludes, ReadersExcludeWriters, CounterCountsHolders
<1> HIDE DEF R, W
<1>5. (activeReaderCount >= 0 => W = {}) /\ (activeReaderCount <= 0 => R = {})
  BY <1>2, <1>3, <1>4
<1>6. QED
  BY <1>5 DEF R, W

\* One thread enters or leaves, and the counter moves by one towards its kind.
LEMMA HoldersAndCounterMoveTogether ==
  ASSUME RwInv, NEW t \in LockThreads, NEW kind \in LockType, NEW other \in LockType, kind # other,
         \/ /\ Inside(kind)' = Inside(kind) \cup {t} /\ t \notin Inside(kind)
            /\ Inside(other) = {}
            /\ activeReaderCount' = activeReaderCount + Towards(kind)
         \/ /\ Inside(kind)' = Inside(kind) \ {t} /\ t \in Inside(kind)
            /\ activeReaderCount' = activeReaderCount - Towards(kind),
         Inside(other)' = Inside(other)
  PROVE  FiniteHolders' /\ LockExcludes'
<1>1. IsFiniteSet(Inside(kind)) /\ IsFiniteSet(Inside(other))
  BY DEF RwInv, FiniteHolders
<1>2. Cardinality(Inside(kind)) \in Nat /\ Cardinality(Inside(other)) \in Nat
  BY <1>1, FS_CardinalityType
<1>3. {kind, other} = {"READ", "WRITE"}
  BY DEF LockType
<1>4. IsFiniteSet(Inside(kind)')
  BY <1>1, FS_AddElement, FS_RemoveElement
<1>5. FiniteHolders'
  BY <1>1, <1>3, <1>4 DEF FiniteHolders, LockType
<1>6. /\ Inside(kind) = {} \/ Inside(other) = {}
      /\ activeReaderCount = Cardinality(Inside("READ")) - Cardinality(Inside("WRITE"))
  BY <1>3 DEF RwInv, LockExcludes, ReadersExcludeWriters, CounterCountsHolders
<1>7. Inside(kind)' = {} \/ Inside(other)' = {}
  BY <1>6
<1>8. ReadersExcludeWriters'
  BY <1>3, <1>7 DEF ReadersExcludeWriters
<1>9. \/ /\ Cardinality(Inside(kind)') = Cardinality(Inside(kind)) + 1
         /\ activeReaderCount' = activeReaderCount + Towards(kind)
      \/ /\ Cardinality(Inside(kind)') = Cardinality(Inside(kind)) - 1
         /\ activeReaderCount' = activeReaderCount - Towards(kind)
  BY <1>1, FS_AddElement, FS_RemoveElement
<1>10. CASE kind = "READ"
  <2>1. other = "WRITE"
    BY <1>3, <1>10
  <2>2. Cardinality(Inside("READ")') \in Int /\ Towards(kind) = 1
    BY <1>2, <1>9, <1>10 DEF Towards
  <2>3. activeReaderCount' = Cardinality(Inside("READ")') - Cardinality(Inside("WRITE")')
    BY <1>2, <1>6, <1>9, <1>10, <2>1, <2>2
  <2>4. QED
    BY <1>5, <1>8, <2>3 DEF LockExcludes, CounterCountsHolders
<1>11. CASE kind = "WRITE"
  <2>1. other = "READ"
    BY <1>3, <1>11
  <2>2. Cardinality(Inside("WRITE")') \in Int /\ Towards(kind) = -1
    BY <1>2, <1>9, <1>11 DEF Towards
  <2>3. activeReaderCount' = Cardinality(Inside("READ")') - Cardinality(Inside("WRITE")')
    BY <1>2, <1>6, <1>9, <1>11, <2>1, <2>2
  <2>4. QED
    BY <1>5, <1>8, <2>3 DEF LockExcludes, CounterCountsHolders
<1>12. QED
  BY <1>10, <1>11 DEF LockType

\* A step that moves nobody in or out keeps the counter true.
LEMMA NobodyMoves ==
  ASSUME RwInv, \A kind \in LockType : Inside(kind)' = Inside(kind), UNCHANGED activeReaderCount
  PROVE  FiniteHolders' /\ LockExcludes'
  BY DEF RwInv, FiniteHolders, LockExcludes, ReadersExcludeWriters, CounterCountsHolders, LockType

-----------------------------------------------------------------------------
LEMMA RwInitially == RwInit => RwInv
<1> SUFFICES ASSUME RwInit PROVE RwInv
  OBVIOUS
<1>1. RwTypeOK /\ ExpectsOwnKind
  BY DEF RwInit, RwTypeOK, ExpectsOwnKind, LockType
<1>2. \A kind \in LockType : Inside(kind) = {}
  BY DEF RwInit, Inside
<1>3. FiniteHolders
  BY <1>2, FS_EmptySet DEF FiniteHolders
<1>4. LockExcludes
  BY <1>2, FS_EmptySet DEF RwInit, LockExcludes, ReadersExcludeWriters, CounterCountsHolders, LockType
<1>5. QED
  BY <1>1, <1>3, <1>4 DEF RwInv

\* No step of any thread breaks the invariant, whatever the others did since its load.
LEMMA RwInductive == RwInv /\ [RwNext]_rwVars => RwInv'
<1> SUFFICES ASSUME RwInv, [RwNext]_rwVars PROVE RwInv'
  OBVIOUS
<1> USE DEF RwInv
<1>1. ASSUME NEW t \in LockThreads, NEW kind \in LockType, NEW try \in BOOLEAN, BeginLock(t, kind, try)
      PROVE  RwInv'
  <2>1. RwTypeOK'
    BY <1>1, ExpectedHasSign DEF BeginLock, RwTypeOK
  <2>2. ExpectsOwnKind'
    BY <1>1, ExpectedHasSign DEF BeginLock, RwTypeOK, ExpectsOwnKind
  <2>3. \A k \in LockType : Inside(k)' = Inside(k)
    BY <1>1 DEF BeginLock, RwTypeOK, Inside
  <2>4. QED
    BY <1>1, <2>1, <2>2, <2>3, NobodyMoves DEF BeginLock
<1>2. ASSUME NEW t \in LockThreads, Exchange(t) PROVE RwInv'
  <2>1. rwKind[t] \in LockType /\ rwExpected[t] \in Int /\ rwPc[t] = "loaded" /\ activeReaderCount \in Int
    BY <1>2 DEF Exchange, RwTypeOK
  <2> DEFINE found == Expected(rwKind[t], activeReaderCount)
  <2>2. found \in Int /\ IF rwKind[t] = "READ" THEN found >= 0 ELSE found <= 0
    BY <2>1, ExpectedHasSign
  <2> HIDE DEF found
  <2>3. RwTypeOK' /\ ExpectsOwnKind'
    <3>1. CASE activeReaderCount = rwExpected[t]
      BY <1>2, <2>1, <3>1 DEF Exchange, RwTypeOK, ExpectsOwnKind, Towards
    <3>2. CASE activeReaderCount # rwExpected[t]
      <4>1. /\ rwExpected' = [rwExpected EXCEPT ![t] = found]
            /\ rwPc' = [rwPc EXCEPT ![t] = IF rwTry[t] THEN "out" ELSE "loaded"]
            /\ UNCHANGED <<activeReaderCount, rwKind, rwTry>>
        BY <1>2, <3>2 DEF Exchange, found
      <4>2. (IF rwTry[t] THEN "out" ELSE "loaded") \in {"out", "loaded", "in"}
        OBVIOUS
      <4>3. RwTypeOK'
        BY <2>2, <4>1, <4>2 DEF RwTypeOK
      <4>4. ExpectsOwnKind'
        BY <2>1, <2>2, <4>1 DEF RwTypeOK, ExpectsOwnKind
      <4>5. QED
        BY <4>3, <4>4
    <3>3. QED
      BY <3>1, <3>2
  <2>4. CASE activeReaderCount = rwExpected[t]
    <3>1. PICK kind \in LockType, other \in LockType : kind = rwKind[t] /\ other # kind
      BY <2>1 DEF LockType
    <3>2. Inside(other) = {}
      BY <2>1, <2>4, <3>1, CounterTellsKind DEF ExpectsOwnKind, LockType
    <3>3. /\ Inside(kind)' = Inside(kind) \cup {t} /\ t \notin Inside(kind)
          /\ Inside(other)' = Inside(other)
          /\ activeReaderCount' = activeReaderCount + Towards(kind)
      BY <1>2, <2>1, <2>4, <3>1 DEF Exchange, RwTypeOK, Inside
    <3>4. FiniteHolders' /\ LockExcludes'
      BY <3>1, <3>2, <3>3, HoldersAndCounterMoveTogether
    <3>5. QED
      BY <2>3, <3>4
  <2>5. CASE activeReaderCount # rwExpected[t]
    <3>1. \A k \in LockType : Inside(k)' = Inside(k)
      BY <1>2, <2>1, <2>5 DEF Exchange, RwTypeOK, Inside
    <3>2. UNCHANGED activeReaderCount
      BY <1>2, <2>5 DEF Exchange
    <3>3. FiniteHolders' /\ LockExcludes'
      BY <3>1, <3>2, NobodyMoves
    <3>4. QED
      BY <2>3, <3>3
  <2>6. QED
    BY <2>4, <2>5
<1>3. ASSUME NEW t \in LockThreads, Unlock(t) PROVE RwInv'
  <2>1. rwKind[t] \in LockType /\ activeReaderCount \in Int
    BY <1>3 DEF RwTypeOK
  <2>2. RwTypeOK' /\ ExpectsOwnKind'
    BY <1>3, <2>1 DEF Unlock, RwTypeOK, Towards, ExpectsOwnKind
  <2>3. PICK kind \in LockType, other \in LockType : kind = rwKind[t] /\ other # kind
    BY <2>1 DEF LockType
  <2>4. /\ Inside(kind)' = Inside(kind) \ {t} /\ t \in Inside(kind)
        /\ Inside(other)' = Inside(other)
        /\ activeReaderCount' = activeReaderCount - Towards(kind)
    BY <1>3, <2>1, <2>3 DEF Unlock, RwTypeOK, Inside
  <2>5. FiniteHolders' /\ LockExcludes'
    BY <2>3, <2>4, HoldersAndCounterMoveTogether
  <2>6. QED
    BY <2>2, <2>5
<1>4. CASE UNCHANGED rwVars
  <2>1. \A k \in LockType : Inside(k)' = Inside(k)
    BY <1>4 DEF rwVars, Inside
  <2>2. RwTypeOK' /\ ExpectsOwnKind'
    BY <1>4 DEF rwVars, RwTypeOK, ExpectsOwnKind
  <2>3. QED
    BY <1>4, <2>1, <2>2, NobodyMoves DEF rwVars
<1>5. QED
  BY <1>1, <1>2, <1>3, <1>4 DEF RwNext

\* The lock excludes the other kind, and its counter is the number of readers
\* inside or minus the number of writers, for any number of threads
\* (reader_writer_lock.hpp:47-75).
THEOREM LockIsExclusive == RwSpec => []LockExcludes
<1>1. RwInv => LockExcludes
  BY DEF RwInv
<1>2. QED
  BY RwInitially, RwInductive, <1>1, PTL DEF RwSpec

-----------------------------------------------------------------------------
(***************************************************************************)
(* Proofs about module TimerTask, for any chunk size, lateness and number  *)
(* of pauses.  The samples of a pause are those between the pause and the  *)
(* first tick in it, and between the last tick in it and the resume.  The  *)
(* invariant bounds both: `Overcounted` is what is or can at once be       *)
(* counted beyond the time outside pauses; it grows while the source is    *)
(* paused until the next tick stores pausedAt, and `Deadline` is when that *)
(* happens at the latest, wherever the task is.                            *)
(***************************************************************************)

\* Samples that a pause may add: one tick, and the lateness of two.
PerPause == ChunkSize + 2 * MaxLate

SourceStates == {"INITIALISED", "RUNNING", "PAUSED", "REQUESTED_STOP", "destructor", "destroyed"}

TimerTypeOK ==
  /\ clock \in Nat
  /\ timer \in [running : BOOLEAN, done : BOOLEAN, blockAlive : BOOLEAN, pausedAt : Nat \cup {NoTick}]
  /\ task \in [at : {"none", "queued", "loop", "wait", "tick", "paused", "leaving"}, nextWakeUp : Nat]
  /\ source \in [state : SourceStates, waiting : BOOLEAN]
  /\ counted \in [last : Nat, start : Nat]
  /\ produced \in Int
  /\ pauses \in [n : Nat, time : Nat]

\* `done` tells whether the pool still has the task; the wait for it is over only then.
TaskIsAwaited ==
  /\ timer.done <=> task.at = "none"
  /\ source.state \in {"INITIALISED", "destroyed"} => timer.done /\ ~source.waiting
  /\ timer.running => TimerIsActive(source.state)
  /\ TimerIsActive(source.state) /\ ~timer.done => timer.running
  /\ source.waiting => ~TimerIsActive(source.state)
  /\ timer.done => ~timer.running
  /\ task.at = "leaving" => ~timer.running
  /\ ~timer.blockAlive => source.state \in {"destructor", "destroyed"}

\* The task is at most MaxLate behind its time, and ahead of it only in its wait.
TaskIsOnTime ==
  /\ counted.last <= clock /\ (timer.pausedAt # NoTick => timer.pausedAt <= clock)
  /\ task.at # "none" =>
       /\ clock <= task.nextWakeUp + MaxLate
       /\ task.nextWakeUp <= IF task.at \in {"wait", "leaving"} THEN clock + ChunkSize ELSE clock

\* The latest time at which the next tick of a paused source stores pausedAt.
Deadline ==
  CASE task.at = "queued" -> task.nextWakeUp + ChunkSize + 2 * MaxLate
    [] task.at = "loop"   -> task.nextWakeUp + ChunkSize + MaxLate
    [] OTHER              -> task.nextWakeUp + MaxLate

\* What has been counted, and what a call could count, beyond the time outside pauses.
Counted     == produced + counted.start + pauses.time - clock
Overcounted == produced + counted.start + pauses.time - countFrom

\* Each pause adds at most PerPause; the present one has not used its share up.
PausesAreBounded ==
  task.at # "none" =>
    IF source.state = "PAUSED"
    THEN /\ pauses.n > 0
         /\ Counted <= (pauses.n - 1) * PerPause
         /\ Overcounted + (Deadline - clock) <= pauses.n * PerPause
    ELSE Overcounted <= pauses.n * PerPause

TimerInv == TimerTypeOK /\ TaskIsAwaited /\ TaskIsOnTime /\ PausesAreBounded
-----------------------------------------------------------------------------
LEMMA PerPauseType == PerPause \in Nat
  BY TimerAssumption DEF PerPause

\* One pause more adds one share.
LEMMA OneMoreShare ==
  ASSUME NEW n \in Nat
  PROVE  n * PerPause \in Nat /\ (n + 1) * PerPause = n * PerPause + PerPause
<1> DEFINE p == PerPause
<1>1. p \in Nat
  BY PerPauseType
<1> HIDE DEF p
<1>2. n * p \in Nat /\ (n + 1) * p = n * p + p
  BY <1>1
<1>3. QED
  BY <1>2 DEF p

\* What a call counts from lies between the last count and now.
LEMMA CountFromIsPast ==
  ASSUME TimerTypeOK, TaskIsOnTime
  PROVE  countFrom \in Nat /\ counted.last <= countFrom /\ countFrom <= clock
  BY TimerAssumption DEF TimerTypeOK, TaskIsOnTime, countFrom, Later

\* A call's samples are at most what is due (BlockingSync.hpp:186-192).
LEMMA SamplesAreDue ==
  ASSUME TimerTypeOK, TaskIsOnTime, NEW maxSamples \in 1..ChunkSize
  PROVE  LET n == Earlier(Earlier(clock - countFrom, ChunkSize), maxSamples)
         IN  n \in Nat /\ n <= clock - countFrom
<1>1. countFrom \in Nat /\ countFrom <= clock /\ clock \in Nat
  BY CountFromIsPast DEF TimerTypeOK
<1>2. ChunkSize \in Nat /\ maxSamples \in Nat
  BY TimerAssumption
<1>3. QED
  BY <1>1, <1>2 DEF Earlier

\* The outcomes of a start.
Queued  == timer' = [timer EXCEPT !.pausedAt = NoTick, !.running = TRUE, !.done = FALSE]
           /\ task' = [at |-> "queued", nextWakeUp |-> clock]
Refused == timer' = [timer EXCEPT !.pausedAt = NoTick, !.done = TRUE] /\ task' = task

\* A start finds no task and either queues one or is refused (BlockingSync.hpp:309-357).
LEMMA StartQueuesOrIsRefused ==
  ASSUME TimerTypeOK, TaskIsAwaited, blockingSyncStart
  PROVE  /\ source.state = "INITIALISED" /\ source' = [source EXCEPT !.state = "RUNNING"] /\ ~source.waiting
         /\ counted' = [last |-> clock, start |-> clock] /\ clock' = clock
         /\ produced' = 0 /\ pauses' = [n |-> 0, time |-> 0]
         /\ timer.done /\ ~timer.running /\ task.at = "none"
         /\ Queued \/ Refused
<1>1. source.state = "INITIALISED" /\ ~source.waiting
  BY DEF blockingSyncStart
<1>2. timer.done /\ ~timer.running /\ task.at = "none"
  BY <1>1 DEF TaskIsAwaited
<1>3. QED
  BY <1>1, <1>2 DEF blockingSyncStart, startTimer, NoPauses, Queued, Refused

\* The pool starts the task, of which a destroyed block has nothing more to do.
LEMMA PoolStartsTask ==
  ASSUME TimerTypeOK, RunTask
  PROVE  /\ task.at = "queued" /\ UNCHANGED <<clock, source, counted, produced, pauses>>
         /\ \/ timer.blockAlive /\ task' = [at |-> "loop", nextWakeUp |-> clock] /\ timer' = timer
            \/ ~timer.blockAlive /\ task' = [task EXCEPT !.at = "none"] /\ timer' = [timer EXCEPT !.done = TRUE]
  BY DEF RunTask, TimerTypeOK

-----------------------------------------------------------------------------
LEMMA TimerInitially == TimerInit => TimerInv
<1> SUFFICES ASSUME TimerInit PROVE TimerInv
  OBVIOUS
<1>1. TimerTypeOK /\ TaskIsAwaited /\ TaskIsOnTime /\ PausesAreBounded
  BY TimerAssumption
     DEF TimerInit, NoPauses, SourceStates, TimerTypeOK, TaskIsAwaited, TaskIsOnTime, PausesAreBounded, TimerIsActive
<1>2. QED
  BY <1>1 DEF TimerInv

LEMMA TimerTypes == TimerInv /\ TimerNext => TimerTypeOK'
<1> SUFFICES ASSUME TimerInv, TimerNext PROVE TimerTypeOK'
  OBVIOUS
<1> USE TimerAssumption DEF TimerInv, SourceStates, TimerTypeOK
<1>1. CASE blockingSyncStart
  <2>1. /\ source' = [source EXCEPT !.state = "RUNNING"] /\ clock' = clock
        /\ counted' = [last |-> clock, start |-> clock]
        /\ produced' = 0 /\ pauses' = [n |-> 0, time |-> 0]
        /\ Queued \/ Refused
    BY <1>1, StartQueuesOrIsRefused
  <2>2. clock' \in Nat /\ source' \in [state : SourceStates, waiting : BOOLEAN]
        /\ counted' \in [last : Nat, start : Nat] /\ produced' \in Int /\ pauses' \in [n : Nat, time : Nat]
    BY <2>1
  <2>3. CASE Queued
    BY <2>2, <2>3 DEF Queued
  <2>4. CASE Refused
    BY <2>2, <2>4 DEF Refused
  <2>5. QED
    BY <2>1, <2>3, <2>4
<1>2. CASE PauseSource
  BY <1>2 DEF PauseSource
<1>3. CASE ResumeSource
  BY <1>3 DEF ResumeSource
<1>4. CASE stopTimer
  BY <1>4 DEF stopTimer
<1>5. CASE stopTimerAndJoin
  BY <1>5 DEF stopTimerAndJoin
<1>6. CASE Joined
  BY <1>6 DEF Joined
<1>7. CASE RunTask
  <2>1. CASE timer.blockAlive
    BY <1>7, <2>1 DEF RunTask
  <2>2. CASE ~timer.blockAlive
    BY ZenonT(40), <1>7, <2>2 DEF RunTask
  <2>3. QED
    BY <2>1, <2>2
<1>8. CASE EnterWait
  BY <1>8 DEF EnterWait
<1>9. CASE EndWait
  BY <1>9 DEF EndWait
<1>10. CASE ReadState
  BY <1>10 DEF ReadState
<1>11. CASE StorePausedAt
  BY <1>11 DEF StorePausedAt
<1>12. CASE LeaveTask
  BY <1>12 DEF LeaveTask
<1>13. ASSUME NEW maxSamples \in 1..ChunkSize, NEW dropIfBehind \in BOOLEAN,
              computeWallClockSamples(maxSamples, dropIfBehind)
       PROVE  TimerTypeOK'
  <2> DEFINE n == Earlier(Earlier(clock - countFrom, ChunkSize), maxSamples)
  <2>1. n \in Nat /\ countFrom \in Nat
    BY SamplesAreDue, CountFromIsPast
  <2> HIDE DEF n
  <2>2. /\ timer' = [timer EXCEPT !.pausedAt = NoTick]
        /\ counted' = [counted EXCEPT !.last = IF dropIfBehind THEN clock ELSE countFrom + n]
        /\ produced' = produced + n
        /\ UNCHANGED <<clock, task, source, pauses>>
    BY <1>13 DEF computeWallClockSamples, n
  <2>3. (IF dropIfBehind THEN clock ELSE countFrom + n) \in Nat
    BY <2>1
  <2>4. QED
    BY <2>1, <2>2, <2>3
<1>14. CASE Advance
  BY <1>14 DEF Advance
<1>15. QED
  BY <1>1, <1>2, <1>3, <1>4, <1>5, <1>6, <1>7, <1>8, <1>9, <1>10, <1>11, <1>12, <1>13, <1>14 DEF TimerNext

\* Whoever waits for `done` waits for the task, one that the pool has not started included.
LEMMA TimerAwaits == TimerInv /\ TimerNext => TaskIsAwaited'
<1> SUFFICES ASSUME TimerInv, TimerNext PROVE TaskIsAwaited'
  OBVIOUS
<1> USE DEF TimerInv, SourceStates, TimerTypeOK, TaskIsAwaited, TimerIsActive
<1>1. CASE blockingSyncStart
  <2>1. CASE Queued
    BY <1>1, <2>1, StartQueuesOrIsRefused DEF Queued
  <2>2. CASE Refused
    BY <1>1, <2>2, StartQueuesOrIsRefused DEF Refused
  <2>3. QED
    BY <1>1, <2>1, <2>2, StartQueuesOrIsRefused
<1>2. CASE PauseSource
  BY <1>2 DEF PauseSource
<1>3. CASE ResumeSource
  BY <1>3 DEF ResumeSource
<1>4. CASE stopTimer
  BY <1>4 DEF stopTimer
<1>5. CASE stopTimerAndJoin
  BY <1>5 DEF stopTimerAndJoin
<1>6. CASE Joined
  BY <1>6 DEF Joined
<1>7. CASE RunTask
  <2>1. CASE timer.blockAlive
    BY <1>7, <2>1 DEF RunTask
  <2>2. CASE ~timer.blockAlive
    BY <1>7, <2>2 DEF RunTask
  <2>3. QED
    BY <2>1, <2>2
<1>8. CASE EnterWait
  BY <1>8 DEF EnterWait
<1>9. CASE EndWait
  BY <1>9 DEF EndWait
<1>10. CASE ReadState
  BY <1>10 DEF ReadState
<1>11. CASE StorePausedAt
  BY <1>11 DEF StorePausedAt
<1>12. CASE LeaveTask
  BY <1>12 DEF LeaveTask
<1>13. CASE \E maxSamples \in 1..ChunkSize, dropIfBehind \in BOOLEAN :
              computeWallClockSamples(maxSamples, dropIfBehind)
  BY <1>13 DEF computeWallClockSamples
<1>14. CASE Advance
  BY <1>14 DEF Advance
<1>15. QED
  BY <1>1, <1>2, <1>3, <1>4, <1>5, <1>6, <1>7, <1>8, <1>9, <1>10, <1>11, <1>12, <1>13, <1>14 DEF TimerNext

LEMMA TimerOnTime == TimerInv /\ TimerNext => TaskIsOnTime'
<1> SUFFICES ASSUME TimerInv, TimerNext PROVE TaskIsOnTime'
  OBVIOUS
<1> USE TimerAssumption DEF TimerInv, SourceStates, TimerTypeOK, TaskIsOnTime
<1>1. CASE blockingSyncStart
  <2>1. CASE Queued
    BY <1>1, <2>1, StartQueuesOrIsRefused DEF Queued
  <2>2. CASE Refused
    BY <1>1, <2>2, StartQueuesOrIsRefused DEF Refused
  <2>3. QED
    BY <1>1, <2>1, <2>2, StartQueuesOrIsRefused
<1>2. CASE PauseSource
  BY <1>2 DEF PauseSource
<1>3. CASE ResumeSource
  BY <1>3 DEF ResumeSource
<1>4. CASE stopTimer
  BY <1>4 DEF stopTimer
<1>5. CASE stopTimerAndJoin
  BY <1>5 DEF stopTimerAndJoin
<1>6. CASE Joined
  BY <1>6 DEF Joined
<1>7. CASE RunTask
  <2>1. CASE timer.blockAlive
    BY <1>7, <2>1 DEF RunTask
  <2>2. CASE ~timer.blockAlive
    <3>1. /\ task' = [task EXCEPT !.at = "none"] /\ timer' = [timer EXCEPT !.done = TRUE]
          /\ UNCHANGED <<clock, counted>>
      BY <1>7, <2>2 DEF RunTask
    <3>2. task'.at = "none" /\ timer'.pausedAt = timer.pausedAt
      BY <3>1
    <3>3. QED
      BY <3>1, <3>2
  <2>3. QED
    BY <2>1, <2>2
<1>8. CASE EnterWait
  BY <1>8 DEF EnterWait
<1>9. CASE EndWait
  BY <1>9 DEF EndWait
<1>10. CASE ReadState
  BY <1>10 DEF ReadState
<1>11. CASE StorePausedAt
  BY <1>11 DEF StorePausedAt
<1>12. CASE LeaveTask
  BY <1>12 DEF LeaveTask
<1>13. ASSUME NEW maxSamples \in 1..ChunkSize, NEW dropIfBehind \in BOOLEAN,
              computeWallClockSamples(maxSamples, dropIfBehind)
       PROVE  TaskIsOnTime'
  <2> DEFINE n == Earlier(Earlier(clock - countFrom, ChunkSize), maxSamples)
  <2>1. n \in Nat /\ countFrom \in Nat /\ countFrom + n <= clock
    BY SamplesAreDue, CountFromIsPast
  <2> HIDE DEF n
  <2>2. /\ timer' = [timer EXCEPT !.pausedAt = NoTick]
        /\ counted' = [counted EXCEPT !.last = IF dropIfBehind THEN clock ELSE countFrom + n]
        /\ UNCHANGED <<clock, task>>
    BY <1>13 DEF computeWallClockSamples, n
  <2>3. counted'.last <= clock /\ timer'.pausedAt = NoTick
    BY <2>1, <2>2
  <2>4. QED
    BY <2>2, <2>3
<1>14. CASE Advance
  BY <1>14 DEF Advance
<1>15. QED
  BY <1>1, <1>2, <1>3, <1>4, <1>5, <1>6, <1>7, <1>8, <1>9, <1>10, <1>11, <1>12, <1>13, <1>14 DEF TimerNext

-----------------------------------------------------------------------------
\* The time left to the next tick of a paused source: never negative, and at most one share.
LEMMA DeadlineIsNear ==
  ASSUME TimerTypeOK, TaskIsOnTime, task.at \notin {"none", "leaving"}
  PROVE  Deadline \in Nat /\ clock <= Deadline /\ Deadline - clock <= PerPause
  BY TimerAssumption DEF TimerTypeOK, TaskIsOnTime, Deadline, PerPause

\* The counts are integers, and what has been counted is at most what could be.
LEMMA CountsAreOrdered ==
  ASSUME TimerTypeOK, TaskIsOnTime
  PROVE  Counted \in Int /\ Overcounted \in Int /\ Counted <= Overcounted
<1>1. countFrom \in Nat /\ countFrom <= clock
  BY CountFromIsPast
<1>2. QED
  BY <1>1 DEF TimerTypeOK, Counted, Overcounted

\* A paused source whose task has not left has its timer running, so the task is on its way to a tick.
LEMMA PausedTaskTicks ==
  ASSUME TimerTypeOK, TaskIsAwaited, source.state = "PAUSED", task.at # "none"
  PROVE  task.at # "leaving"
  BY DEF TimerTypeOK, TaskIsAwaited, TimerIsActive

LEMMA TimerBounded == TimerInv /\ TimerNext => PausesAreBounded'
<1> SUFFICES ASSUME TimerInv, TimerNext PROVE PausesAreBounded'
  OBVIOUS
<1> DEFINE share == pauses.n * PerPause
<1>a. TimerTypeOK /\ TaskIsAwaited /\ TaskIsOnTime /\ PausesAreBounded
  BY DEF TimerInv
<1>b. TimerTypeOK' /\ TaskIsAwaited' /\ TaskIsOnTime'
  BY TimerTypes, TimerAwaits, TimerOnTime
<1>c. Counted \in Int /\ Overcounted \in Int /\ Counted <= Overcounted
  BY <1>a, CountsAreOrdered
<1>d. share \in Nat /\ PerPause \in Nat
  BY <1>a, PerPauseType, OneMoreShare DEF TimerTypeOK
<1>1. CASE blockingSyncStart
  <2>1. /\ counted' = [last |-> clock, start |-> clock] /\ clock' = clock /\ timer'.pausedAt = NoTick
        /\ produced' = 0 /\ pauses' = [n |-> 0, time |-> 0] /\ source'.state = "RUNNING"
    BY <1>1, <1>a, StartQueuesOrIsRefused DEF TimerTypeOK, Queued, Refused
  <2>2. countFrom' = clock
    BY <2>1 DEF countFrom
  <2>3. Overcounted' = 0 /\ pauses'.n * PerPause = 0
    BY <2>1, <2>2, <1>a, <1>d, PerPauseType DEF Overcounted, TimerTypeOK
  <2>4. QED
    BY <2>1, <2>3 DEF PausesAreBounded
<1>2. CASE PauseSource
  <2>1. /\ source.state = "RUNNING" /\ source'.state = "PAUSED" /\ pauses' = [pauses EXCEPT !.n = @ + 1]
        /\ UNCHANGED <<clock, timer, task, counted, produced>>
    BY <1>2, <1>a DEF PauseSource, TimerTypeOK
  <2>2. /\ pauses'.n = pauses.n + 1 /\ pauses'.time = pauses.time
        /\ pauses'.n * PerPause = share + PerPause /\ (pauses'.n - 1) * PerPause = share
    BY <2>1, <1>a, OneMoreShare DEF TimerTypeOK
  <2>3. Counted' = Counted /\ Overcounted' = Overcounted /\ Deadline' = Deadline
    BY <2>1, <2>2 DEF Counted, Overcounted, countFrom, Deadline
  <2>4. ASSUME task'.at # "none" PROVE PausesAreBounded'
    <3>1. task.at \notin {"none", "leaving"}
      BY <2>1, <2>4, <1>b, PausedTaskTicks DEF TimerTypeOK, TaskIsAwaited, TimerIsActive
    <3>2. Deadline \in Nat /\ Deadline - clock <= PerPause
      BY <3>1, <1>a, DeadlineIsNear
    <3>3. Overcounted <= share
      BY <2>1, <3>1, <1>a DEF PausesAreBounded
    <3> HIDE DEF share
    <3>4. Counted' <= share /\ Overcounted' + (Deadline' - clock') <= share + PerPause
      BY <2>1, <2>3, <3>2, <3>3, <1>c, <1>d, <1>a DEF TimerTypeOK
    <3>5. pauses'.n > 0
      BY <2>2, <1>a DEF TimerTypeOK
    <3>6. QED
      BY <2>1, <2>2, <3>4, <3>5 DEF PausesAreBounded
  <2>5. QED
    BY <2>4 DEF PausesAreBounded
<1>3. ASSUME ResumeSource \/ stopTimer \/ stopTimerAndJoin \/ Joined PROVE PausesAreBounded'
  <2>1. /\ source'.state # "PAUSED" /\ UNCHANGED <<clock, task, counted, produced, pauses>>
        /\ timer'.pausedAt = timer.pausedAt
    <3>1. CASE ResumeSource
      BY <3>1, <1>a DEF ResumeSource, TimerTypeOK
    <3>2. CASE stopTimer
      BY <3>2, <1>a DEF stopTimer, TimerTypeOK
    <3>3. CASE stopTimerAndJoin
      BY <3>3, <1>a DEF stopTimerAndJoin, TimerTypeOK
    <3>4. CASE Joined
      BY <3>4, <1>a DEF Joined, TimerTypeOK
    <3>5. QED
      BY <1>3, <3>1, <3>2, <3>3, <3>4
  <2>2. Overcounted' = Overcounted
    BY <2>1 DEF Overcounted, countFrom
  <2>3. ASSUME task.at # "none" PROVE Overcounted <= share
    <3>1. CASE source.state = "PAUSED"
      <4>1. Deadline \in Nat /\ clock <= Deadline /\ Overcounted + (Deadline - clock) <= share
        BY <2>3, <3>1, <1>a, PausedTaskTicks, DeadlineIsNear DEF PausesAreBounded
      <4> HIDE DEF share
      <4>2. QED
        BY <4>1, <1>a, <1>c, <1>d DEF TimerTypeOK
    <3>2. CASE source.state # "PAUSED"
      BY <2>3, <3>2, <1>a DEF PausesAreBounded
    <3>3. QED
      BY <3>1, <3>2
  <2>4. QED
    BY <2>1, <2>2, <2>3 DEF PausesAreBounded
\* A step of the task that stores nothing: the deadline comes no later.
<1>4. ASSUME UNCHANGED <<clock, source, counted, produced, pauses>>, timer'.pausedAt = timer.pausedAt,
             task'.at # "none" => task.at # "none" /\ (source.state = "PAUSED" => Deadline' \in Nat /\ Deadline' <= Deadline)
      PROVE  PausesAreBounded'
  <2>1. Overcounted' = Overcounted /\ Counted' = Counted
    BY <1>4 DEF Overcounted, Counted, countFrom
  <2>2. CASE source.state = "PAUSED"
    <3>1. ASSUME task'.at # "none" PROVE PausesAreBounded'
      <4>1. /\ pauses.n > 0 /\ Counted <= (pauses.n - 1) * PerPause
            /\ Overcounted + (Deadline - clock) <= share
            /\ Deadline \in Nat
        BY <2>2, <3>1, <1>4, <1>a, PausedTaskTicks, DeadlineIsNear DEF PausesAreBounded
      <4> HIDE DEF share
      <4>2. Overcounted + (Deadline' - clock) <= share
        BY <2>2, <3>1, <4>1, <1>4, <1>a, <1>c, <1>d DEF TimerTypeOK
      <4>3. QED
        BY <1>4, <2>1, <2>2, <4>1, <4>2 DEF PausesAreBounded, share
    <3>2. QED
      BY <3>1 DEF PausesAreBounded
  <2>3. CASE source.state # "PAUSED"
    BY <1>4, <2>1, <2>3, <1>a DEF PausesAreBounded
  <2>4. QED
    BY <2>2, <2>3
<1>5. CASE RunTask
  <2>1. timer'.pausedAt = timer.pausedAt
    BY <1>5, <1>a, PoolStartsTask DEF TimerTypeOK
  <2>2. task'.at # "none" => task.at # "none" /\ Deadline' \in Nat /\ Deadline' <= Deadline
    BY <1>5, <1>a, PoolStartsTask, TimerAssumption DEF TimerTypeOK, TaskIsOnTime, Deadline
  <2>3. QED
    BY <1>5, <1>a, <2>1, <2>2, <1>4, PoolStartsTask
<1>6. CASE EnterWait \/ EndWait \/ ReadState \/ LeaveTask
  <2>1. UNCHANGED <<clock, source, counted, produced, pauses>> /\ timer'.pausedAt = timer.pausedAt
    BY <1>6, <1>a DEF EnterWait, EndWait, ReadState, LeaveTask, TimerTypeOK
  <2>2. task'.at # "none" => task.at # "none" /\ (source.state = "PAUSED" => Deadline' \in Nat /\ Deadline' <= Deadline)
    BY <1>6, <1>a, TimerAssumption
       DEF EnterWait, EndWait, ReadState, LeaveTask, TimerTypeOK, TaskIsAwaited, TaskIsOnTime, TimerIsActive, Deadline
  <2>3. QED
    BY <2>1, <2>2, <1>4
\* The tick of a pause takes back what the pause had added.
<1>7. CASE StorePausedAt
  <2>1. /\ task.at = "paused" /\ task' = [task EXCEPT !.at = "loop"] /\ timer'.pausedAt = clock
        /\ UNCHANGED <<clock, source, counted, produced, pauses>>
    BY <1>7, <1>a DEF StorePausedAt, TimerTypeOK
  <2>2. countFrom' = clock
    BY <2>1, <1>a, TimerAssumption DEF countFrom, Later, TimerTypeOK, TaskIsOnTime
  <2>3. Counted' = Counted /\ Overcounted' = Counted
    BY <2>1, <2>2 DEF Counted, Overcounted
  <2>4. CASE source.state = "PAUSED"
    <3>1. pauses.n > 0 /\ Counted <= (pauses.n - 1) * PerPause
      BY <2>1, <2>4, <1>a DEF PausesAreBounded
    <3>2. share = (pauses.n - 1) * PerPause + PerPause /\ (pauses.n - 1) * PerPause \in Nat
      <4>1. pauses.n - 1 \in Nat /\ pauses.n = (pauses.n - 1) + 1
        BY <3>1, <1>a DEF TimerTypeOK
      <4>2. QED
        BY <4>1, OneMoreShare
    <3>3. Deadline' \in Nat /\ Deadline' - clock <= PerPause
      <4>1. task'.at = "loop"
        BY <2>1, <1>a DEF TimerTypeOK
      <4>2. Deadline' = task.nextWakeUp + ChunkSize + MaxLate /\ task.nextWakeUp <= clock
        BY <2>1, <4>1, <1>a DEF TimerTypeOK, TaskIsOnTime, Deadline
      <4>3. QED
        BY <4>2, <1>a, TimerAssumption DEF TimerTypeOK, PerPause
    <3> DEFINE rest == (pauses.n - 1) * PerPause
    <3> HIDE DEF rest, share
    <3>4. ASSUME NEW due \in Nat, due - clock <= PerPause
          PROVE  Counted + (due - clock) <= share
      <4>1. share = rest + PerPause /\ rest \in Nat /\ Counted <= rest
        BY <3>1, <3>2 DEF rest
      <4>2. clock \in Nat /\ PerPause \in Nat
        BY <1>a, <1>d DEF TimerTypeOK
      <4>3. QED
        BY <4>1, <4>2, <3>4, <1>c
    <3>5. QED
      BY <2>1, <2>3, <2>4, <3>1, <3>3, <3>4 DEF PausesAreBounded, share
  <2>5. CASE source.state # "PAUSED"
    BY <2>1, <2>3, <2>5, <1>a, <1>c, <1>d DEF PausesAreBounded
  <2>6. QED
    BY <2>4, <2>5
<1>8. ASSUME NEW maxSamples \in 1..ChunkSize, NEW dropIfBehind \in BOOLEAN,
             computeWallClockSamples(maxSamples, dropIfBehind)
      PROVE  PausesAreBounded'
  <2> DEFINE n == Earlier(Earlier(clock - countFrom, ChunkSize), maxSamples)
  <2>1. n \in Nat /\ n <= clock - countFrom /\ countFrom \in Nat
    BY <1>a, SamplesAreDue, CountFromIsPast
  <2> HIDE DEF n
  <2>2. /\ source.state = "RUNNING" /\ timer' = [timer EXCEPT !.pausedAt = NoTick]
        /\ counted' = [counted EXCEPT !.last = IF dropIfBehind THEN clock ELSE countFrom + n]
        /\ produced' = produced + n
        /\ UNCHANGED <<clock, task, source, pauses>>
    BY <1>8 DEF computeWallClockSamples, n
  <2>3. countFrom' = IF dropIfBehind THEN clock ELSE countFrom + n
    BY <2>2, <1>a DEF countFrom, TimerTypeOK
  <2>4. Overcounted' <= Overcounted /\ Overcounted' \in Int
    BY <2>1, <2>2, <2>3, <1>a DEF Overcounted, TimerTypeOK
  <2> HIDE DEF share
  <2>5. task.at # "none" => Overcounted' <= share
    BY <2>2, <2>4, <1>a, <1>c, <1>d DEF PausesAreBounded, share
  <2>6. QED
    BY <2>2, <2>5 DEF PausesAreBounded, share
<1>9. CASE Advance
  <2>1. /\ clock' = clock + 1 /\ UNCHANGED <<timer, task, source, counted, produced>>
        /\ pauses' = IF source.state = "PAUSED" THEN [pauses EXCEPT !.time = @ + 1] ELSE pauses
    BY <1>9 DEF Advance
  <2>2. pauses'.n = pauses.n /\ pauses'.time = pauses.time + (IF source.state = "PAUSED" THEN 1 ELSE 0)
    BY <2>1, <1>a DEF TimerTypeOK
  <2>3. countFrom' = countFrom /\ countFrom \in Nat /\ Deadline' = Deadline
    BY <2>1, <1>a, CountFromIsPast DEF countFrom, Deadline
  <2>4. CASE source.state = "PAUSED"
    <3>1. Counted' = Counted /\ Overcounted' = Overcounted + 1
      BY <2>1, <2>2, <2>3, <2>4, <1>a DEF Counted, Overcounted, TimerTypeOK
    <3>2. ASSUME task.at # "none" PROVE PausesAreBounded'
      <4>1. /\ pauses.n > 0 /\ Counted <= (pauses.n - 1) * PerPause
            /\ Overcounted + (Deadline - clock) <= share
            /\ Deadline \in Nat
        BY <2>4, <3>2, <1>a, PausedTaskTicks, DeadlineIsNear DEF PausesAreBounded
      <4> HIDE DEF share
      <4>2. Overcounted' + (Deadline' - clock') <= share
        BY <2>1, <2>3, <3>1, <4>1, <1>a, <1>c, <1>d DEF TimerTypeOK
      <4>3. QED
        BY <2>1, <2>2, <2>4, <3>1, <4>1, <4>2 DEF PausesAreBounded, share
    <3>3. QED
      BY <2>1, <3>2 DEF PausesAreBounded
  <2>5. CASE source.state # "PAUSED"
    <3>1. Overcounted' = Overcounted
      BY <2>1, <2>2, <2>3, <2>5, <1>a DEF Overcounted, TimerTypeOK
    <3>2. QED
      BY <2>1, <2>2, <2>5, <3>1, <1>a DEF PausesAreBounded
  <2>6. QED
    BY <2>4, <2>5
<1>10. QED
  BY <1>1, <1>2, <1>3, <1>5, <1>6, <1>7, <1>8, <1>9 DEF TimerNext

LEMMA TimerInductive == TimerInv /\ [TimerNext]_timerVars => TimerInv'
<1>1. CASE TimerNext
  BY <1>1, TimerTypes, TimerAwaits, TimerOnTime, TimerBounded DEF TimerInv
<1>2. CASE UNCHANGED timerVars
  BY <1>2 DEF timerVars, TimerInv, TimerTypeOK, TaskIsAwaited, TimerIsActive, TaskIsOnTime,
              PausesAreBounded, Counted, Overcounted, countFrom, Deadline
<1>3. QED
  BY <1>1, <1>2

\* No task of the pool reads a block whose stop() or destructor has returned, and a
\* run counts at most PerPause samples for each of its pauses, for every chunk size
\* and lateness, however ticks, resumes and calls race (BlockingSync.hpp:170, 266-280).
THEOREM TimerTaskBelongsToRun == TimerSpec => []TaskBelongsToRun
<1>1. TimerInv => NoTaskAfterJoin
  BY DEF TimerInv, TaskIsAwaited, NoTaskAfterJoin
<1>2. TimerInv => PauseIsNotCounted
  <2> SUFFICES ASSUME TimerInv, task.at # "none"
               PROVE  produced <= clock - counted.start - pauses.time + pauses.n * PerPause
    BY DEF PauseIsNotCounted, PerPause
  <2> DEFINE share == pauses.n * PerPause
  <2>1. /\ TimerTypeOK /\ TaskIsOnTime /\ TaskIsAwaited
        /\ Counted \in Int /\ Overcounted \in Int /\ Counted <= Overcounted
        /\ share \in Nat
    BY CountsAreOrdered, OneMoreShare DEF TimerInv, SourceStates, TimerTypeOK
  <2>2. Overcounted <= share
    <3>1. CASE source.state = "PAUSED"
      <4>1. Deadline \in Nat /\ clock <= Deadline /\ Overcounted + (Deadline - clock) <= share
        BY <2>1, <3>1, PausedTaskTicks, DeadlineIsNear DEF TimerInv, PausesAreBounded
      <4> HIDE DEF share
      <4>2. QED
        BY <2>1, <4>1 DEF TimerTypeOK
    <3>2. CASE source.state # "PAUSED"
      BY <3>2 DEF TimerInv, PausesAreBounded
    <3>3. QED
      BY <3>1, <3>2
  <2> HIDE DEF share
  <2>3. produced <= clock - counted.start - pauses.time + share
    BY <2>1, <2>2 DEF TimerTypeOK, Counted
  <2>4. QED
    BY <2>3 DEF share
<1>3. TimerInv => TaskBelongsToRun
  BY <1>1, <1>2 DEF TaskBelongsToRun
<1>4. QED
  BY TimerInitially, TimerInductive, <1>3, PTL DEF TimerSpec

-----------------------------------------------------------------------------
(***************************************************************************)
(* The history buffer.  The slots from _write_position on hold the history *)
(* in the first copy of the ring, and in the second copy from the index    *)
(* _mirrorDirtyCount on: a push at the front adds one stale slot to what   *)
(* syncMirror() will copy, a push at the back writes both copies, and what *)
(* is dropped at the front takes a stale slot with it.                     *)
(***************************************************************************)

\* The slot of an index, for a ring of n slots that starts at w.
Slot(n, w, i) == IF w + i < n THEN w + i ELSE w + i - n

\* A memory m of two copies of a ring of n slots, from w on, holds the elements of h;
\* the second copy those from the index d on.
Holds(m, n, w, d, h) ==
  \A i \in 0 .. Len(h) - 1 : /\ m[Slot(n, w, i)] = h[i + 1]
                             /\ i >= d => m[Slot(n, w, i) + n] = h[i + 1]

IsRing(m, n, w, d) == n \in Nat \ {0} /\ w \in 0 .. n - 1 /\ d \in 0 .. n /\ DOMAIN m = 0 .. 2 * n - 1

HistoryInv ==
  /\ capacity \in Nat /\ history \in Seq(HistoryValues) /\ size = Len(history) /\ size <= capacity
  /\ capacity > 0 => /\ capacity <= ringCap
                     /\ IsRing(mem, ringCap, writePos, dirty)
                     /\ Holds(mem, ringCap, writePos, dirty, history)
  /\ capacity = 0 => writePos = 0 /\ dirty = 0

LEMMA Wrapping ==
  ASSUME NEW n \in Nat \ {0}, NEW a \in Int
  PROVE  /\ a \in 0 .. n - 1 => a % n = a
         /\ a \in n .. 2 * n - 1 => a % n = a - n
         /\ a \in -n .. -1 => a % n = a + n
OBVIOUS

LEMMA MapsTo ==
  ASSUME NEW n, n = ringCap, n \in Nat \ {0}, NEW w, w = writePos, w \in 0 .. n - 1, NEW i \in 0 .. n
  PROVE  map_index(i) \in 0 .. n - 1 /\ map_index(i) = IF i < n THEN Slot(n, w, i) ELSE w
<1>1. PICK a \in Int : a = w + i
  <2>1. w + i \in Int
    OBVIOUS
  <2> QED BY <2>1
<1>2. map_index(i) = a % n
  BY <1>1 DEF map_index
<1>3. (a \in 0 .. n - 1 => a % n = a) /\ (a \in n .. 2 * n - 1 => a % n = a - n)
  BY Wrapping
<1>4. CASE a < n
  <2>1. a \in 0 .. n - 1 /\ (i < n \/ a = w)
    BY <1>1, <1>4
  <2> QED BY <1>1, <1>2, <1>3, <1>4, <2>1 DEF Slot
<1>5. CASE ~(a < n)
  <2>1. a \in n .. 2 * n - 1 /\ a - n \in 0 .. n - 1 /\ (i < n \/ a - n = w)
    <3>1. w \in Int /\ i \in Int /\ 0 <= w /\ w <= n - 1 /\ 0 <= i /\ i <= n
      OBVIOUS
    <3> QED BY <1>1, <1>5, <3>1
  <2> QED BY <1>1, <1>2, <1>3, <1>5, <2>1 DEF Slot
<1> QED BY <1>4, <1>5

\* How far a slot, in either copy, is from where the ring starts.
LEMMA Behind ==
  ASSUME NEW n \in Nat \ {0}, NEW w \in 0 .. n - 1, NEW i \in 0 .. n - 1, NEW s, s = Slot(n, w, i)
  PROVE  /\ s \in 0 .. n - 1 /\ s + n \in n .. 2 * n - 1
         /\ (s - w) % n = i /\ ((s + n) - w) % n = i
<1>1. /\ s \in 0 .. n - 1 /\ s + n \in n .. 2 * n - 1 /\ (s - w = i \/ s - w = i - n)
  BY DEF Slot
<1>2. PICK a \in Int, b \in Int : a = s - w /\ b = (s + n) - w
  BY <1>1
<1>3. (a = i /\ b = i + n) \/ (a = i - n /\ b = i)
  BY <1>1, <1>2
<1>4. /\ (a \in 0 .. n - 1 => a % n = a) /\ (a \in -n .. -1 => a % n = a + n)
      /\ (b \in 0 .. n - 1 => b % n = b) /\ (b \in n .. 2 * n - 1 => b % n = b - n)
  BY Wrapping
<1>5. a = i => a \in 0 .. n - 1
  OBVIOUS
<1>6. a = i - n => a \in -n .. -1 /\ a + n = i
  OBVIOUS
<1>7. b = i => b \in 0 .. n - 1
  OBVIOUS
<1>8. b = i + n => b \in n .. 2 * n - 1 /\ b - n = i
  OBVIOUS
<1> QED BY <1>1, <1>2, <1>3, <1>4, <1>5, <1>6, <1>7, <1>8

\* The slots of a ring counted from another of its slots.
LEMMA Turned ==
  ASSUME NEW n \in Nat \ {0}, NEW w \in 0 .. n - 1, NEW x \in 0 .. n - 1, NEW i \in 0 .. n - 1, NEW u, u = Slot(n, w, x)
  PROVE  /\ u \in 0 .. n - 1
         /\ x + i < n => Slot(n, u, i) = Slot(n, w, x + i)
         /\ i >= x => i - x \in 0 .. n - 1 /\ Slot(n, u, i - x) = Slot(n, w, i)
         /\ i < x => i - x + n \in 0 .. n - 1 /\ Slot(n, u, i - x + n) = Slot(n, w, i)
<1>1. u \in 0 .. n - 1
  BY DEF Slot
<1>2. x + i < n => Slot(n, u, i) = Slot(n, w, x + i)
  BY DEF Slot
<1>3. i >= x => i - x \in 0 .. n - 1 /\ Slot(n, u, i - x) = Slot(n, w, i)
  BY DEF Slot
<1>4. i < x => i - x + n \in 0 .. n - 1 /\ Slot(n, u, i - x + n) = Slot(n, w, i)
  BY DEF Slot
<1> QED BY <1>1, <1>2, <1>3, <1>4

\* The first k elements, the last k, and those of two sequences.
AreFirst(S, h, k, r) == r \in Seq(S) /\ Len(r) = k /\ \A i \in 1 .. k : r[i] = h[i]

LEMMA Firsts ==
  ASSUME NEW S, NEW h \in Seq(S), NEW k \in 0 .. Len(h), NEW r, r = SubSeq(h, 1, k)
  PROVE  AreFirst(S, h, k, r)
<1>1. Len(h) \in Nat /\ k \in Int /\ \A i \in 1 .. k : h[i] \in S
  OBVIOUS
<1>2. /\ SubSeq(h, 1, k) \in Seq(S)
      /\ Len(SubSeq(h, 1, k)) = IF 1 <= k THEN k - 1 + 1 ELSE 0
      /\ \A i \in 1 .. k - 1 + 1 : SubSeq(h, 1, k)[i] = h[1 + i - 1]
  BY <1>1, SubSeqProperties
<1>3. k - 1 + 1 = k /\ \A i \in 1 .. k : 1 + i - 1 = i
  BY <1>1
<1> QED BY <1>1, <1>2, <1>3 DEF AreFirst

AreLast(S, h, k, r) == r \in Seq(S) /\ Len(r) = k /\ \A i \in 1 .. k : r[i] = h[Len(h) - k + i]

LEMMA Lasts ==
  ASSUME NEW S, NEW h \in Seq(S), NEW k \in 0 .. Len(h), NEW r, r = SubSeq(h, Len(h) - k + 1, Len(h))
  PROVE  AreLast(S, h, k, r)
<1> DEFINE m == Len(h) - k + 1
<1>1. Len(h) \in Nat /\ m \in Int /\ m >= 1 /\ \A i \in m .. Len(h) : h[i] \in S
  OBVIOUS
<1>2. Len(h) - m + 1 = k /\ (m <= Len(h) <=> k > 0) /\ \A i \in 1 .. k : m + i - 1 = Len(h) - k + i
  BY <1>1
<1> HIDE DEF m
<1>3. /\ SubSeq(h, m, Len(h)) \in Seq(S)
      /\ Len(SubSeq(h, m, Len(h))) = IF m <= Len(h) THEN Len(h) - m + 1 ELSE 0
      /\ \A i \in 1 .. Len(h) - m + 1 : SubSeq(h, m, Len(h))[i] = h[m + i - 1]
  BY <1>1, SubSeqProperties
<1>4. r = SubSeq(h, m, Len(h))
  BY DEF m
<1> QED BY <1>1, <1>2, <1>3, <1>4 DEF AreLast

AreLastOfTwo(S, a, b, x, k, r) ==
  r \in Seq(S) /\ Len(r) = k /\ \A i \in 1 .. k : r[i] = IF x + i <= Len(a) THEN a[x + i] ELSE b[x + i - Len(a)]

LEMMA LastsOfTwo ==
  ASSUME NEW S, NEW a \in Seq(S), NEW b \in Seq(S), NEW t, t = Len(a) + Len(b), NEW k \in 0 .. t, NEW x, x = t - k,
         NEW r, r = SubSeq(a \o b, t - k + 1, t)
  PROVE  AreLastOfTwo(S, a, b, x, k, r)
<1>1. PICK g : g = a \o b
  OBVIOUS
<1>2. Len(a) \in Nat /\ Len(b) \in Nat /\ x \in Nat /\ k + x = t
  OBVIOUS
<1>3. g \in Seq(S) /\ Len(g) = t /\ \A j \in 1 .. t : g[j] = IF j <= Len(a) THEN a[j] ELSE b[j - Len(a)]
  BY <1>1, ConcatProperties
<1>4. g \in Seq(S) /\ r = SubSeq(g, Len(g) - k + 1, Len(g)) /\ k \in 0 .. Len(g)
  BY <1>1, <1>3
<1>5. AreLast(S, g, k, r)
  BY <1>4, Lasts
<1>6. ASSUME NEW i \in 1 .. k
      PROVE  r[i] = IF x + i <= Len(a) THEN a[x + i] ELSE b[x + i - Len(a)]
  <2>1. x + i \in 1 .. t /\ Len(g) - k + i = x + i
    BY <1>2, <1>3
  <2>2. r[i] = g[x + i]
    <3>1. r[i] = g[Len(g) - k + i]
      BY <1>5 DEF AreLast
    <3> QED BY <2>1, <3>1
  <2> QED BY <1>3, <2>1, <2>2
<1> QED BY <1>5, <1>6 DEF AreLast, AreLastOfTwo

\* After syncMirror(), both copies of an element are the element.
LEMMA Mirrored ==
  ASSUME NEW n, n = ringCap, NEW w, w = writePos, NEW d, d = dirty, NEW h, h \in Seq(HistoryValues), Len(h) <= n,
         IsRing(mem, n, w, d), Holds(mem, n, w, d, h), NEW r, r = syncMirror
  PROVE  /\ DOMAIN r = DOMAIN mem
         /\ \A i \in 0 .. Len(h) - 1 : r[Slot(n, w, i)] = h[i + 1] /\ r[Slot(n, w, i) + n] = h[i + 1]
<1>1. DOMAIN r = DOMAIN mem
  BY DEF syncMirror
<1> SUFFICES ASSUME NEW i \in 0 .. Len(h) - 1 PROVE r[Slot(n, w, i)] = h[i + 1] /\ r[Slot(n, w, i) + n] = h[i + 1]
  BY <1>1
<1> DEFINE s == Slot(n, w, i)
<1>2. Len(h) \in Nat /\ n \in Nat \ {0} /\ w \in 0 .. n - 1 /\ d \in 0 .. n /\ DOMAIN mem = 0 .. 2 * n - 1
  BY DEF IsRing
<1>3. s \in 0 .. n - 1 /\ s + n \in 0 .. 2 * n - 1 /\ s \in 0 .. 2 * n - 1 /\ s + n >= n /\ (s + n) - n = s
  BY <1>2 DEF Slot
<1>4. (s - w) % n = i
  <2>1. i \in 0 .. n - 1
    BY <1>2
  <2> HIDE DEF s
  <2> QED BY <1>2, <2>1, Behind DEF s
<1>5. mem[s] = h[i + 1] /\ (i >= d => mem[s + n] = h[i + 1])
  BY DEF Holds
<1> HIDE DEF s
<1>6. r[s] = mem[s]
  BY <1>2, <1>3 DEF syncMirror
<1>7. (s + n) - ringCap - writePos = s - w /\ (s + n) - ringCap = s
  BY <1>2, <1>3
<1>8. r[s + n] = IF i < d THEN mem[s] ELSE mem[s + n]
  <2>1. r[s + n] = IF s + n >= ringCap /\ ((s + n) - ringCap - writePos) % ringCap < dirty THEN mem[(s + n) - ringCap] ELSE mem[s + n]
    BY <1>2, <1>3 DEF syncMirror
  <2> QED BY <1>2, <1>3, <1>4, <1>7, <2>1
<1>9. i < d \/ i >= d
  BY <1>2
<1> QED BY <1>5, <1>6, <1>8, <1>9 DEF s

\* What an operation on a constructed buffer has to do.
Leaves(m, n, w, d, h, k) == IsRing(m, n, w, d) /\ Holds(m, n, w, d, h) /\ h \in Seq(HistoryValues) /\ k = Len(h)

LEMMA Steps ==
  ASSUME HistoryInv, capacity > 0, UNCHANGED <<capacity, ringCap>>, size' <= capacity,
         Leaves(mem', ringCap, writePos', dirty', history', size')
  PROVE  HistoryInv'
BY DEF HistoryInv, Leaves, IsRing, Holds

LEMMA Known ==
  ASSUME HistoryInv, capacity > 0
  PROVE  /\ Leaves(mem, ringCap, writePos, dirty, history, size)
         /\ capacity \in Nat /\ size <= capacity /\ capacity <= ringCap
         /\ ringCap \in Nat \ {0} /\ writePos \in 0 .. ringCap - 1 /\ dirty \in 0 .. ringCap /\ size \in Nat /\ size <= ringCap
         /\ DOMAIN mem = 0 .. 2 * ringCap - 1
BY DEF HistoryInv, Leaves, IsRing

\* Fewer elements, from the same place on.
LEMMA PopBackStep ==
  ASSUME HistoryInv, pop_back
  PROVE  HistoryInv'
<1>1. capacity > 0
  BY DEF HistoryInv, pop_back
<1>2. /\ Leaves(mem, ringCap, writePos, dirty, history, size) /\ size \in Nat /\ size <= capacity /\ capacity \in Nat
  BY <1>1, Known
<1>3. size > 0 /\ size' = size - 1 /\ history' = SubSeq(history, 1, size - 1)
  BY <1>2 DEF pop_back, Front, Leaves
<1>4. size - 1 \in 0 .. Len(history) /\ history \in Seq(HistoryValues)
  BY <1>2, <1>3 DEF Leaves
<1>5. AreFirst(HistoryValues, history, size - 1, history')
  BY <1>3, <1>4, Firsts
<1>6. \A i \in 0 .. size - 2 : i \in 0 .. size - 1 /\ i + 1 \in 1 .. size - 1
  BY <1>2
<1>7. Leaves(mem', ringCap, writePos', dirty', history', size')
  BY <1>2, <1>3, <1>5, <1>6 DEF AreFirst, pop_back, Leaves, Holds
<1> QED BY <1>1, <1>2, <1>3, <1>7, Steps DEF pop_back

LEMMA PopFrontStep ==
  ASSUME HistoryInv, pop_front
  PROVE  HistoryInv'
<1>1. capacity > 0
  BY DEF HistoryInv, pop_front
<1> DEFINE n == ringCap  w == writePos  d == dirty  v == writePos'  e == dirty'
<1>2. /\ Leaves(mem, n, w, d, history, size) /\ size \in Nat /\ size <= capacity /\ capacity \in Nat
      /\ n \in Nat \ {0} /\ w \in 0 .. n - 1 /\ d \in 0 .. n /\ size <= n
  BY <1>1, Known
<1>3. size > 0 /\ size' = size - 1 /\ v = map_index(1) /\ e = (IF d > 0 THEN d - 1 ELSE 0) /\ UNCHANGED <<mem, capacity, ringCap>>
  BY DEF pop_front
<1>4. history # <<>> /\ history \in Seq(HistoryValues)
  BY <1>2, <1>3 DEF Leaves
<1>5. history' \in Seq(HistoryValues) /\ Len(history') = size - 1 /\ \A i \in 1 .. size - 1 : history'[i] = history[i + 1]
  BY <1>2, <1>4, HeadTailProperties DEF pop_front, Leaves
<1>6. v = (IF 1 < n THEN Slot(n, w, 1) ELSE w) /\ v \in 0 .. n - 1
  BY <1>2, <1>3, MapsTo
<1>7. e \in 0 .. n
  BY <1>2, <1>3
<1>8. ASSUME NEW i \in 0 .. size - 2
      PROVE  mem[Slot(n, v, i)] = history'[i + 1] /\ (i >= e => mem[Slot(n, v, i) + n] = history'[i + 1])
  <2>1. i + 1 \in 0 .. size - 1 /\ i + 1 \in 1 .. size - 1 /\ (i >= e => i + 1 >= d) /\ 1 < n
    BY <1>2, <1>3
  <2>2. Slot(n, v, i) = Slot(n, w, i + 1)
    BY <1>2, <1>6, <2>1 DEF Slot
  <2>3. mem[Slot(n, w, i + 1)] = history[(i + 1) + 1] /\ (i + 1 >= d => mem[Slot(n, w, i + 1) + n] = history[(i + 1) + 1])
    BY <1>2, <2>1 DEF Leaves, Holds
  <2>4. history'[i + 1] = history[(i + 1) + 1]
    BY <1>5, <2>1
  <2> QED BY <2>1, <2>2, <2>3, <2>4
<1>9. Len(history') - 1 = size - 2
  BY <1>2, <1>5
<1>10. Leaves(mem', ringCap, v, e, history', size')
  BY <1>2, <1>3, <1>5, <1>6, <1>7, <1>8, <1>9 DEF Leaves, Holds, IsRing
<1> QED BY <1>1, <1>2, <1>3, <1>10, Steps

LEMMA SpanStep ==
  ASSUME HistoryInv, get_span
  PROVE  HistoryInv'
<1>1. capacity > 0
  BY DEF get_span, Constructed
<1>2. /\ Leaves(mem, ringCap, writePos, dirty, history, size) /\ size <= ringCap /\ size <= capacity /\ ringCap \in Nat \ {0}
  BY <1>1, Known
<1>3. mem' = syncMirror /\ dirty' = 0 /\ UNCHANGED <<capacity, ringCap, writePos, size, history>>
  BY DEF get_span
<1>4. /\ DOMAIN mem' = DOMAIN mem
      /\ \A i \in 0 .. Len(history) - 1 : /\ mem'[Slot(ringCap, writePos, i)] = history[i + 1]
                                          /\ mem'[Slot(ringCap, writePos, i) + ringCap] = history[i + 1]
  BY <1>2, <1>3, Mirrored DEF Leaves
<1>5. Leaves(mem', ringCap, writePos', dirty', history', size')
  BY <1>2, <1>3, <1>4 DEF Leaves, IsRing, Holds
<1> QED BY <1>1, <1>2, <1>3, <1>5, Steps

LEMMA ResetStep ==
  ASSUME HistoryInv, reset
  PROVE  HistoryInv'
<1>1. capacity > 0 /\ UNCHANGED <<capacity, ringCap>> /\ size' = 0 /\ writePos' = 0 /\ dirty' = 0 /\ history' = <<>>
  BY DEF reset, Constructed
<1>2. ringCap \in Nat \ {0} /\ DOMAIN mem = 0 .. 2 * ringCap - 1 /\ capacity \in Nat
  BY <1>1, Known
<1>3. DOMAIN mem' = DOMAIN mem
  BY DEF reset
<1>4. Leaves(mem', ringCap, writePos', dirty', history', size')
  BY <1>1, <1>2, <1>3 DEF Leaves, IsRing, Holds
<1> QED BY <1>1, <1>2, <1>4, Steps

\* One element in front, in the first copy only.
LEMMA PushFrontStep ==
  ASSUME HistoryInv, NEW v \in HistoryValues, push_front(v)
  PROVE  HistoryInv'
<1> DEFINE n == ringCap  w == writePos  d == dirty  u == writePos'  e == dirty'  k == size'
<1>1. capacity > 0 /\ UNCHANGED <<capacity, ringCap>>
  BY DEF push_front, Constructed
<1>2. /\ Leaves(mem, n, w, d, history, size) /\ size \in Nat /\ size <= capacity /\ capacity \in Nat
      /\ n \in Nat \ {0} /\ w \in 0 .. n - 1 /\ d \in 0 .. n /\ size <= n /\ DOMAIN mem = 0 .. 2 * n - 1 /\ capacity <= n
  BY <1>1, Known
<1>3. /\ k = MinOf(size + 1, capacity) /\ u = map_index(n - 1) /\ mem' = [mem EXCEPT ![u] = v]
      /\ e = MinOf(d + 1, n) /\ history' = SubSeq(<<v>> \o history, 1, k)
  BY DEF push_front
<1>4. k \in 1 .. size + 1 /\ k <= capacity /\ k <= n
  BY <1>1, <1>2, <1>3 DEF MinOf
<1>5. e \in 0 .. n /\ e >= 1 /\ \A i \in 0 .. n - 1 : i >= e => i - 1 >= d
  BY <1>2, <1>3 DEF MinOf
<1>6. u \in 0 .. n - 1 /\ u = IF n - 1 < n THEN Slot(n, w, n - 1) ELSE w
  <2>1. n - 1 \in 0 .. n
    BY <1>2
  <2> QED BY <1>2, <1>3, <2>1, MapsTo
<1>7. history' \in Seq(HistoryValues) /\ Len(history') = k /\ history'[1] = v /\ \A i \in 2 .. k : history'[i] = history[i - 1]
  <2> DEFINE h == <<v>> \o history
  <2>1. history \in Seq(HistoryValues) /\ Len(history) = size /\ <<v>> \in Seq(HistoryValues) /\ Len(<<v>>) = 1 /\ <<v>>[1] = v
    BY <1>2 DEF Leaves
  <2>2. h \in Seq(HistoryValues) /\ Len(h) = 1 + size /\ \A i \in 1 .. 1 + size : h[i] = IF i <= 1 THEN <<v>>[i] ELSE history[i - 1]
    <3> DEFINE one == <<v>>
    <3>1. one \in Seq(HistoryValues) /\ Len(one) = 1
      BY <2>1
    <3> HIDE DEF one
    <3>2. /\ one \o history \in Seq(HistoryValues) /\ Len(one \o history) = Len(one) + Len(history)
          /\ \A i \in 1 .. Len(one) + Len(history) : (one \o history)[i] = IF i <= Len(one) THEN one[i] ELSE history[i - Len(one)]
      BY <2>1, <3>1, ConcatProperties
    <3> QED BY <2>1, <3>1, <3>2 DEF one
  <2> HIDE DEF h
  <2>3. k \in 0 .. Len(h) /\ history' = SubSeq(h, 1, k)
    BY <1>2, <1>3, <1>4, <2>2 DEF h
  <2>4. AreFirst(HistoryValues, h, k, history')
    BY <2>2, <2>3, Firsts
  <2>5. 1 \in 1 .. k /\ \A i \in 1 .. k : i \in 1 .. 1 + size
    BY <1>2, <1>4
  <2>6. h[1] = v /\ \A i \in 2 .. k : i \in 1 .. k /\ h[i] = history[i - 1]
    <3>1. 1 \in 1 .. 1 + size /\ 1 <= 1
      BY <1>2
    <3>2. h[1] = v
      BY <2>1, <2>2, <3>1
    <3>3. \A i \in 2 .. k : i \in 1 .. k /\ i \in 1 .. 1 + size /\ ~(i <= 1)
      BY <1>2, <1>4
    <3> QED BY <2>2, <3>2, <3>3
  <2> QED BY <2>4, <2>5, <2>6 DEF AreFirst
<1> HIDE DEF u, e, k
<1>8. ASSUME NEW i \in 0 .. k - 1
      PROVE  mem'[Slot(n, u, i)] = history'[i + 1] /\ (i >= e => mem'[Slot(n, u, i) + n] = history'[i + 1])
  <2>1. Slot(n, u, i) \in 0 .. n - 1 /\ Slot(n, u, i) + n \in n .. 2 * n - 1 /\ u # Slot(n, u, i) + n
    BY <1>2, <1>4, <1>6 DEF Slot
  <2>2. CASE i = 0
    <3>1. Slot(n, u, i) = u /\ i + 1 = 1
      BY <1>2, <1>6, <2>2 DEF Slot
    <3>3. ~(i >= e)
      BY <1>5, <2>2
    <3>2. mem'[u] = v
      BY <1>2, <1>3, <1>6
    <3> QED BY <1>7, <3>1, <3>2, <3>3
  <2>3. CASE i > 0
    <3>1. i - 1 \in 0 .. size - 1 /\ i + 1 \in 2 .. k /\ (i >= e => i - 1 >= d) /\ (i + 1) - 1 = (i - 1) + 1 /\ i <= n - 1
      BY <1>2, <1>4, <1>5, <2>3
    <3>2. Slot(n, u, i) = Slot(n, w, i - 1)
      BY <1>2, <1>6, <2>3, <3>1 DEF Slot
    <3>3. Slot(n, u, i) # u
      BY <1>2, <1>6, <2>3, <3>1 DEF Slot
    <3>4. mem'[Slot(n, u, i)] = mem[Slot(n, u, i)] /\ mem'[Slot(n, u, i) + n] = mem[Slot(n, u, i) + n]
      BY <1>2, <1>3, <2>1, <3>3
    <3>5. mem[Slot(n, w, i - 1)] = history[(i - 1) + 1] /\ (i - 1 >= d => mem[Slot(n, w, i - 1) + n] = history[(i - 1) + 1])
      BY <1>2, <3>1 DEF Leaves, Holds
    <3>6. history'[i + 1] = history[(i - 1) + 1]
      BY <1>7, <3>1
    <3> QED BY <3>1, <3>2, <3>4, <3>5, <3>6
  <2> QED BY <1>4, <2>2, <2>3
<1>9. DOMAIN mem' = DOMAIN mem
  BY <1>3
<1>10. Leaves(mem', n, u, e, history', k)
  BY <1>2, <1>5, <1>6, <1>7, <1>8, <1>9 DEF Leaves, Holds, IsRing
<1> QED BY <1>1, <1>4, <1>10, Steps DEF u, e, k


\* The last of the elements pushed come first, in reverse, and only in the first copy.
LEMMA PushFrontRangeStep ==
  ASSUME HistoryInv, NEW vs \in Seq(HistoryValues), push_frontRange(vs)
  PROVE  HistoryInv'
<1> DEFINE n == ringCap  w == writePos  d == dirty  u == writePos'  e == dirty'  k == size'
           c == MinOf(Len(vs), capacity)
           kept == SubSeq(vs, Len(vs) - c + 1, Len(vs))
           back == Reverse(kept)
           h == back \o history
<1>1. capacity > 0 /\ UNCHANGED <<capacity, ringCap>>
  BY DEF push_frontRange, Constructed
<1>2. /\ Leaves(mem, n, w, d, history, size) /\ size \in Nat /\ size <= capacity /\ capacity \in Nat
      /\ n \in Nat \ {0} /\ w \in 0 .. n - 1 /\ d \in 0 .. n /\ size <= n /\ DOMAIN mem = 0 .. 2 * n - 1 /\ capacity <= n
  BY <1>1, Known
<1>3. /\ k = MinOf(size + c, capacity) /\ u = map_index(n - c) /\ e = MinOf(d + c, n) /\ history' = SubSeq(h, 1, k)
      /\ mem' = [p \in DOMAIN mem |-> IF p < n /\ (p - u) % n < c THEN kept[c - ((p - u) % n)] ELSE mem[p]]
  BY DEF push_frontRange
<1>4. Len(vs) \in Nat /\ c \in 0 .. Len(vs) /\ c \in Nat /\ c <= n
  BY <1>2 DEF MinOf
<1>5. kept \in Seq(HistoryValues) /\ Len(kept) = c
  <2> HIDE DEF c
  <2> QED BY <1>4, Lasts DEF AreLast
<1>6. back \in Seq(HistoryValues) /\ Len(back) = c /\ \A i \in 1 .. c : back[i] = kept[c - i + 1]
  <2> HIDE DEF kept, c
  <2>1. \A i \in 1 .. c : c - i + 1 \in 1 .. c
    BY <1>4
  <2>2. back = [i \in 1 .. c |-> kept[c - i + 1]] /\ \A i \in 1 .. c : kept[c - i + 1] \in HistoryValues
    BY <1>5, <2>1 DEF Reverse
  <2>3. back \in Seq(HistoryValues)
    BY <1>4, <2>2
  <2> QED BY <1>4, <2>2, <2>3
<1>7. k \in 0 .. size + c /\ k <= capacity /\ k <= n
  BY <1>2, <1>3, <1>4 DEF MinOf
<1>8. e \in 0 .. n /\ \A i \in 0 .. n - 1 : i >= e => i >= c /\ i - c >= d
  <2>1. e = MinOf(d + c, n)
    BY <1>3
  <2> HIDE DEF c, e
  <2>2. (e = d + c /\ e <= n) \/ e = n
    BY <1>2, <1>4, <2>1 DEF MinOf
  <2> QED BY <1>2, <1>4, <2>2
<1>9. u \in 0 .. n - 1 /\ u = IF n - c < n THEN Slot(n, w, n - c) ELSE w
  <2> HIDE DEF c
  <2>1. n - c \in 0 .. n
    BY <1>2, <1>4
  <2> QED BY <1>2, <1>3, <2>1, MapsTo
<1> HIDE DEF kept, back, c, u, e, k
<1>10. /\ history' \in Seq(HistoryValues) /\ Len(history') = k
       /\ \A i \in 1 .. k : history'[i] = IF i <= c THEN kept[c - i + 1] ELSE history[i - c]
  <2>1. history \in Seq(HistoryValues) /\ Len(history) = size
    BY <1>2 DEF Leaves
  <2>2. /\ h \in Seq(HistoryValues) /\ Len(h) = c + size
        /\ \A i \in 1 .. c + size : h[i] = IF i <= c THEN back[i] ELSE history[i - c]
    BY <1>6, <2>1, ConcatProperties
  <2> HIDE DEF h
  <2>3. k \in 0 .. Len(h) /\ \A i \in 1 .. k : i \in 1 .. c + size /\ (i <= c => i \in 1 .. c)
    BY <1>2, <1>4, <1>7, <2>2
  <2>4. AreFirst(HistoryValues, h, k, history')
    BY <1>3, <2>2, <2>3, Firsts
  <2> QED BY <1>6, <2>2, <2>3, <2>4 DEF AreFirst
<1> HIDE DEF h
<1>11. ASSUME NEW i \in 0 .. k - 1
       PROVE  mem'[Slot(n, u, i)] = history'[i + 1] /\ (i >= e => mem'[Slot(n, u, i) + n] = history'[i + 1])
  <2> DEFINE s == Slot(n, u, i)
  <2>1. i \in 0 .. n - 1 /\ i + 1 \in 1 .. k /\ (i + 1) - c = i - c + 1 /\ c - (i + 1) + 1 = c - i
    BY <1>2, <1>4, <1>7
  <2> HIDE DEF s
  <2>2. s \in 0 .. n - 1 /\ s + n \in n .. 2 * n - 1 /\ (s - u) % n = i
    <3>1. s = Slot(n, u, i) /\ n \in Nat \ {0} /\ u \in 0 .. n - 1
      BY <1>2, <1>9 DEF s
    <3> QED BY <2>1, <3>1, Behind
  <2>3. s \in DOMAIN mem /\ s + n \in DOMAIN mem /\ s < n /\ ~(s + n < n)
    BY <1>2, <2>2
  <2>4. mem'[s] = (IF i < c THEN kept[c - i] ELSE mem[s]) /\ mem'[s + n] = mem[s + n]
    BY <1>3, <2>2, <2>3
  <2>5. CASE i < c
    <3>1. i + 1 <= c /\ ~(i >= e)
      BY <1>4, <1>8, <2>1, <2>5
    <3> QED BY <1>10, <2>1, <2>4, <2>5, <3>1 DEF s
  <2>6. CASE ~(i < c)
    <3>1. ~(i + 1 <= c) /\ i - c \in 0 .. size - 1 /\ (i >= e => i - c >= d) /\ i >= c
      <4>1. ~(i + 1 <= c) /\ i >= c
        BY <1>4, <2>1, <2>6
      <4>2. i - c \in 0 .. size - 1
        BY <1>2, <1>4, <1>7, <2>6
      <4>3. i >= e => i - c >= d
        BY <1>8, <2>1
      <4> QED BY <4>1, <4>2, <4>3
    <3>2. s = Slot(n, w, i - c)
      <4>1. CASE c = 0
        BY <1>2, <1>9, <2>1, <4>1 DEF s
      <4>2. CASE c > 0
        <5>1. u = Slot(n, w, n - c) /\ n - c \in 0 .. n - 1 /\ i - (n - c) + n = i + c
          BY <1>2, <1>4, <1>9, <4>2
        <5> QED BY <1>2, <1>4, <2>1, <2>6, <4>2, <5>1 DEF s, Slot
      <4> QED BY <1>4, <4>1, <4>2
    <3>3. mem[s] = history[(i - c) + 1] /\ (i - c >= d => mem[s + n] = history[(i - c) + 1])
      BY <1>2, <3>1, <3>2 DEF Leaves, Holds
    <3> QED BY <1>10, <2>1, <2>4, <2>6, <3>1, <3>3 DEF s
  <2> QED BY <2>5, <2>6
<1>12. DOMAIN mem' = DOMAIN mem
  BY <1>3
<1>13. Leaves(mem', n, u, e, history', k)
  BY <1>2, <1>7, <1>8, <1>9, <1>10, <1>11, <1>12 DEF Leaves, Holds, IsRing
<1> QED BY <1>1, <1>7, <1>13, Steps DEF u, e, k

\* The last c of k elements are new and written to both copies; the x first are gone.
Appends(m, r, u, c, x, kept) ==
  \A i \in 0 .. (size - x + c) - 1 :
    \A s \in {Slot(ringCap, u, i), Slot(ringCap, u, i) + ringCap} :
      r[s] = IF i >= size - x THEN kept[i - (size - x) + 1] ELSE m[s]

LEMMA Appending ==
  ASSUME HistoryInv, capacity > 0, NEW c \in Nat \ {0}, NEW x \in 0 .. size, size - x + c <= capacity,
         NEW kept \in Seq(HistoryValues), Len(kept) = c, NEW u, u = map_index(x), NEW e \in 0 .. dirty, e + x >= dirty,
         NEW r, DOMAIN r = DOMAIN mem, Appends(mem, r, u, c, x, kept),
         NEW h, h = SubSeq(history \o kept, (size + c) - (size - x + c) + 1, size + c)
  PROVE  Leaves(r, ringCap, u, e, h, size - x + c)
<1> DEFINE n == ringCap  w == writePos  d == dirty  k == size - x + c  y == size - x
<1>1. /\ Leaves(mem, n, w, d, history, size) /\ size \in Nat /\ size <= capacity /\ capacity \in Nat
      /\ n \in Nat \ {0} /\ w \in 0 .. n - 1 /\ d \in 0 .. n /\ size <= n /\ DOMAIN mem = 0 .. 2 * n - 1 /\ capacity <= n
  BY Known
<1>2. y \in 0 .. n - 1 /\ k \in 1 .. n /\ k = y + c /\ k \in 0 .. size + c /\ e \in 0 .. n /\ x \in 0 .. n /\ size = y + x
  BY <1>1
<1>3. u \in 0 .. n - 1 /\ u = IF x < n THEN Slot(n, w, x) ELSE w
  BY <1>1, <1>2, MapsTo
<1>4. history \in Seq(HistoryValues) /\ Len(history) = size
  BY <1>1 DEF Leaves
<1>5. AreLastOfTwo(HistoryValues, history, kept, x, k, h)
  <2>1. PICK t : t = size + c
    OBVIOUS
  <2>2. t = Len(history) + Len(kept) /\ k \in 0 .. t /\ x = t - k
    BY <1>1, <1>2, <1>4, <2>1
  <2>3. h = SubSeq(history \o kept, t - k + 1, t)
    BY <2>1
  <2> HIDE DEF k
  <2> QED BY <1>4, <2>2, <2>3, LastsOfTwo
<1> HIDE DEF k, y
<1>6. ASSUME NEW i \in 0 .. k - 1
      PROVE  r[Slot(n, u, i)] = h[i + 1] /\ (i >= e => r[Slot(n, u, i) + n] = h[i + 1])
  <2> DEFINE s == Slot(n, u, i)
  <2>1. i \in 0 .. n - 1 /\ i + 1 \in 1 .. k /\ x + (i + 1) = x + i + 1
    BY <1>1, <1>2
  <2>2. h[i + 1] = IF x + (i + 1) <= size THEN history[x + (i + 1)] ELSE kept[x + (i + 1) - size]
    BY <1>4, <1>5, <2>1 DEF AreLastOfTwo
  <2>3. /\ r[s] = IF i >= y THEN kept[i - y + 1] ELSE mem[s]
        /\ r[s + n] = IF i >= y THEN kept[i - y + 1] ELSE mem[s + n]
    <3>1. i \in 0 .. (size - x + c) - 1
      BY DEF k
    <3> QED BY <3>1 DEF Appends, y
  <2> HIDE DEF s
  <2>4. CASE i >= y
    <3>1. ~(x + (i + 1) <= size) /\ x + (i + 1) - size = i - y + 1
      BY <1>1, <1>2, <2>1, <2>4
    <3> QED BY <2>2, <2>3, <2>4, <3>1 DEF s
  <2>5. CASE ~(i >= y)
    <3>1. x + (i + 1) <= size /\ x + i \in 0 .. size - 1 /\ (i >= e => x + i >= d) /\ x + i < n /\ x < n /\ x \in 0 .. n - 1
      BY <1>1, <1>2, <2>1, <2>5
    <3>2. s = Slot(n, w, x + i)
      BY <1>1, <1>3, <2>1, <3>1, Turned DEF s
    <3>3. mem[s] = history[(x + i) + 1] /\ (x + i >= d => mem[s + n] = history[(x + i) + 1])
      BY <1>1, <3>1, <3>2 DEF Leaves, Holds
    <3> QED BY <2>1, <2>2, <2>3, <2>5, <3>1, <3>3 DEF s
  <2> QED BY <2>4, <2>5
<1> QED BY <1>1, <1>2, <1>3, <1>5, <1>6 DEF AreLastOfTwo, Leaves, Holds, IsRing, k, y


\* One element at the end, written to both copies.
LEMMA PushBackStep ==
  ASSUME HistoryInv, NEW v \in HistoryValues, push_back(v)
  PROVE  HistoryInv'
<1> DEFINE n == ringCap  u == writePos'  e == dirty'  k == size'
           full == size = capacity
           x == IF full THEN 1 ELSE 0
           one == <<v>>
           pos == (u + k - 1) % n
<1>1. capacity > 0 /\ UNCHANGED <<capacity, ringCap>>
  BY DEF push_back, Constructed
<1>2. /\ size \in Nat /\ size <= capacity /\ capacity \in Nat /\ Len(history) = size /\ history \in Seq(HistoryValues)
      /\ n \in Nat \ {0} /\ writePos \in 0 .. n - 1 /\ dirty \in 0 .. n /\ DOMAIN mem = 0 .. 2 * n - 1 /\ capacity <= n
  BY <1>1, Known DEF Leaves
<1>3. /\ u = (IF full THEN map_index(1) ELSE writePos) /\ k = MinOf(size + 1, capacity)
      /\ e = (IF full /\ dirty > 0 THEN dirty - 1 ELSE dirty)
      /\ history' = LET h == Append(history, v) IN SubSeq(h, Len(h) - k + 1, Len(h))
  BY DEF push_back
<1>4. mem' = [mem EXCEPT ![pos] = v, ![pos + n] = v]
  BY <1>3 DEF push_back
<1>5. x \in 0 .. size /\ k = size - x + 1 /\ k <= capacity /\ x \in 0 .. n /\ k \in 1 .. n
  BY <1>1, <1>2, <1>3 DEF MinOf
<1>6. e \in 0 .. dirty /\ e + x >= dirty
  BY <1>2, <1>3
<1>7. u = map_index(x) /\ u \in 0 .. n - 1
  <2>1. map_index(0) = writePos /\ map_index(x) \in 0 .. n - 1
    <3>1. 0 \in 0 .. n /\ 0 < n /\ Slot(n, writePos, 0) = writePos
      BY <1>2 DEF Slot
    <3> HIDE DEF x
    <3> QED BY <1>2, <1>5, <3>1, MapsTo
  <2> QED BY <1>3, <2>1
<1>8. one \in Seq(HistoryValues) /\ Len(one) = 1 /\ one[1] = v /\ Append(history, v) = history \o one
  BY <1>2
<1> HIDE DEF x, one, u, e, k, pos
<1>9. history' = SubSeq(history \o one, (size + 1) - (size - x + 1) + 1, size + 1)
  <2>1. Len(Append(history, v)) = size + 1
    BY <1>2
  <2> QED BY <1>3, <1>5, <1>8, <2>1
<1>10. pos = Slot(n, u, k - 1) /\ pos \in 0 .. n - 1 /\ pos + n \in n .. 2 * n - 1
  <2>1. PICK a \in Int : a = u + k - 1
    BY <1>5, <1>7
  <2>2. (a \in 0 .. n - 1 => a % n = a) /\ (a \in n .. 2 * n - 1 => a % n = a - n)
    BY <1>2, Wrapping
  <2>3. pos = a % n
    BY <2>1 DEF pos
  <2>4. a \in 0 .. 2 * n - 1 /\ a = u + (k - 1)
    BY <1>2, <1>5, <1>7, <2>1
  <2>5. CASE a < n
    <3>1. pos = a
      BY <1>2, <2>2, <2>3, <2>4, <2>5
    <3> QED BY <1>2, <1>5, <1>7, <2>4, <2>5, <3>1 DEF Slot
  <2>6. CASE ~(a < n)
    <3>1. a \in n .. 2 * n - 1
      BY <1>2, <2>4, <2>6
    <3>2. pos = a - n
      BY <2>2, <2>3, <3>1
    <3> QED BY <1>2, <1>5, <1>7, <2>4, <2>6, <3>1, <3>2 DEF Slot
  <2> QED BY <2>5, <2>6
<1>11. DOMAIN mem' = DOMAIN mem
  BY <1>4
<1>12. Appends(mem, mem', u, 1, x, one)
  <2> SUFFICES ASSUME NEW i \in 0 .. (size - x + 1) - 1, NEW s \in {Slot(n, u, i), Slot(n, u, i) + n}
               PROVE  mem'[s] = IF i >= size - x THEN one[i - (size - x) + 1] ELSE mem[s]
    BY DEF Appends
  <2>1. i \in 0 .. k - 1 /\ i \in 0 .. n - 1 /\ (i >= size - x => i = k - 1 /\ i - (size - x) + 1 = 1)
    BY <1>2, <1>5
  <2>2. Slot(n, u, i) \in 0 .. n - 1
    BY <1>2, <1>7, <2>1 DEF Slot
  <2>3. s \in DOMAIN mem
    BY <1>2, <2>2
  <2>4. CASE i >= size - x
    <3>1. s \in {pos, pos + n}
      BY <1>10, <2>1, <2>4
    <3>2. mem'[s] = v
      BY <1>4, <2>3, <3>1
    <3> QED BY <1>8, <2>1, <2>4, <3>2
  <2>5. CASE ~(i >= size - x)
    <3>1. i < k - 1
      BY <1>2, <1>5, <2>1, <2>5
    <3>2. Slot(n, u, i) # Slot(n, u, k - 1)
      BY <1>2, <1>5, <1>7, <3>1 DEF Slot
    <3>3. s # pos /\ s # pos + n
      BY <1>2, <1>10, <2>2, <3>2
    <3> QED BY <1>4, <2>3, <2>5, <3>3
  <2> QED BY <2>4, <2>5
<1>13. Leaves(mem', n, u, e, history', size - x + 1)
  <2>1. 1 \in Nat \ {0} /\ size - x + 1 <= capacity
    BY <1>5
  <2> QED BY <1>1, <1>5, <1>6, <1>7, <1>8, <1>9, <1>11, <1>12, <2>1, Appending
<1> QED BY <1>1, <1>5, <1>13, Steps DEF u, e, k

\* A range at the end, in both copies at once.
LEMMA PushBackRangeStep ==
  ASSUME HistoryInv, NEW vs \in Seq(HistoryValues), push_backRange(vs)
  PROVE  HistoryInv'
<1> DEFINE n == ringCap  u == writePos'  e == dirty'  k == size'
           c == MinOf(Len(vs), capacity)
           kept == SubSeq(vs, Len(vs) - c + 1, Len(vs))
           x == IF size + c > capacity THEN size + c - capacity ELSE 0
           start == (u + k - c) % n
<1>1. capacity > 0 /\ vs # <<>> /\ UNCHANGED <<capacity, ringCap>>
  BY DEF push_backRange, Constructed
<1>2. /\ size \in Nat /\ size <= capacity /\ capacity \in Nat /\ Len(history) = size /\ history \in Seq(HistoryValues)
      /\ n \in Nat \ {0} /\ writePos \in 0 .. n - 1 /\ dirty \in 0 .. n /\ DOMAIN mem = 0 .. 2 * n - 1 /\ capacity <= n
  BY <1>1, Known DEF Leaves
<1>3. /\ u = map_index(x) /\ k = size - x + c /\ e = dirty - MinOf(dirty, x)
      /\ history' = LET h == history \o kept IN SubSeq(h, Len(h) - k + 1, Len(h))
      /\ mem' = [p \in DOMAIN mem |-> IF (p - start) % n < c THEN kept[((p - start) % n) + 1] ELSE mem[p]]
  BY DEF push_backRange
<1>4. Len(vs) \in Nat /\ c \in 1 .. Len(vs) /\ c \in Nat \ {0} /\ c <= capacity
  <2>1. Len(vs) \in Nat /\ Len(vs) # 0
    BY <1>1, EmptySeq
  <2> QED BY <1>1, <1>2, <2>1 DEF MinOf
<1>5. kept \in Seq(HistoryValues) /\ Len(kept) = c
  <2> HIDE DEF c
  <2>1. c \in 0 .. Len(vs)
    BY <1>4
  <2> QED BY <2>1, Lasts DEF AreLast
<1> HIDE DEF kept, c
<1>6. x \in 0 .. size /\ size - x + c <= capacity /\ x \in 0 .. n /\ x \in Nat
  BY <1>2, <1>4
<1>7. e \in 0 .. dirty /\ e + x >= dirty
  <2> HIDE DEF x
  <2> QED BY <1>2, <1>3, <1>6 DEF MinOf
<1> HIDE DEF x, start, u, e, k
<1>8. u \in 0 .. n - 1
  BY <1>2, <1>3, <1>6, MapsTo
<1>9. history' = SubSeq(history \o kept, (size + c) - (size - x + c) + 1, size + c)
  <2>1. Len(history \o kept) = size + c
    BY <1>2, <1>5, ConcatProperties
  <2> QED BY <1>3, <2>1
<1>10. /\ size - x \in 0 .. n - 1 /\ (size - x) + c <= n
       /\ start = Slot(n, u, size - x) /\ start \in 0 .. n - 1
  <2>1. PICK a \in Int : a = u + k - c
    BY <1>2, <1>3, <1>4, <1>6, <1>8
  <2>2. (a \in 0 .. n - 1 => a % n = a) /\ (a \in n .. 2 * n - 1 => a % n = a - n)
    BY <1>2, Wrapping
  <2>3. start = a % n
    BY <2>1 DEF start
  <2>4. size - x \in 0 .. n - 1 /\ (size - x) + c <= n
    BY <1>2, <1>4, <1>6
  <2>5. a \in 0 .. 2 * n - 1 /\ a = u + (size - x)
    BY <1>2, <1>3, <1>4, <1>6, <1>8, <2>1, <2>4
  <2>6. CASE a < n
    <3>1. start = a
      BY <1>2, <2>2, <2>3, <2>5, <2>6
    <3> QED BY <1>2, <1>8, <2>4, <2>5, <2>6, <3>1 DEF Slot
  <2>7. CASE ~(a < n)
    <3>1. a \in n .. 2 * n - 1
      BY <1>2, <2>5, <2>7
    <3>2. start = a - n
      BY <2>2, <2>3, <3>1
    <3> QED BY <1>2, <1>8, <2>4, <2>5, <2>7, <3>1, <3>2 DEF Slot
  <2> QED BY <2>6, <2>7
<1>11. DOMAIN mem' = DOMAIN mem
  BY <1>3
<1>12. Appends(mem, mem', u, c, x, kept)
  <2> SUFFICES ASSUME NEW i \in 0 .. (size - x + c) - 1, NEW s \in {Slot(n, u, i), Slot(n, u, i) + n}
               PROVE  mem'[s] = IF i >= size - x THEN kept[i - (size - x) + 1] ELSE mem[s]
    BY DEF Appends
  <2>1. PICK y \in 0 .. n - 1 : y = size - x
    BY <1>10
  <2>2. i \in 0 .. n - 1 /\ y + c <= n /\ i < y + c /\ start = Slot(n, u, y)
    <3>1. y + c <= n /\ start = Slot(n, u, y)
      BY <1>10, <2>1
    <3>2. i \in 0 .. (y + c) - 1
      BY <2>1
    <3> QED BY <1>2, <1>4, <3>1, <3>2
  <2>3. Slot(n, u, i) \in 0 .. n - 1
    BY <1>2, <1>8, <2>2 DEF Slot
  <2>4. s \in DOMAIN mem
    BY <1>2, <2>3
  <2>5. mem'[s] = IF (s - start) % n < c THEN kept[((s - start) % n) + 1] ELSE mem[s]
    BY <1>3, <2>4
  <2>6. CASE i >= y
    <3>1. PICK j \in 0 .. n - 1 : j = i - y /\ Slot(n, start, j) = Slot(n, u, i)
      BY <1>2, <1>8, <2>2, <2>6, Turned
    <3>2. (s - start) % n = j
      <4>1. (Slot(n, u, i) - start) % n = j /\ ((Slot(n, u, i) + n) - start) % n = j
        BY <1>2, <1>10, <3>1, Behind
      <4> QED BY <4>1
    <3>3. j < c
      BY <1>4, <2>1, <2>2, <3>1
    <3> QED BY <2>1, <2>5, <2>6, <3>1, <3>2, <3>3
  <2>7. CASE ~(i >= y)
    <3>1. PICK j \in 0 .. n - 1 : j = i - y + n /\ Slot(n, start, j) = Slot(n, u, i)
      <4>1. i < y
        BY <2>1, <2>7
      <4> QED BY <1>2, <1>8, <2>2, <4>1, Turned
    <3>2. (s - start) % n = j
      <4>1. (Slot(n, u, i) - start) % n = j /\ ((Slot(n, u, i) + n) - start) % n = j
        BY <1>2, <1>10, <3>1, Behind
      <4> QED BY <4>1
    <3>3. ~(j < c)
      BY <1>2, <1>4, <2>1, <2>2, <3>1
    <3> QED BY <2>1, <2>5, <2>7, <3>2, <3>3
  <2> QED BY <2>6, <2>7
<1>13. Leaves(mem', n, u, e, history', size - x + c)
  BY <1>1, <1>3, <1>4, <1>5, <1>6, <1>7, <1>9, <1>11, <1>12, Appending
<1> QED BY <1>1, <1>3, <1>6, <1>13, Steps DEF u, e, k


LEMMA ConstructStep ==
  ASSUME HistoryInv, NEW cap \in Capacities, NEW isFixed \in BOOLEAN, Construct(cap, isFixed)
  PROVE  HistoryInv'
<1> DEFINE n == ringCap'
<1>1. /\ capacity = 0 /\ capacity' = cap /\ n = (IF isFixed THEN cap ELSE bit_ceil(cap))
      /\ mem' = [p \in 0 .. 2 * n - 1 |-> Blank] /\ UNCHANGED <<writePos, size, dirty, history>>
  BY DEF Construct
<1>2. cap \in Nat \ {0} /\ n \in Nat \ {0} /\ cap <= n
  <2>1. cap \in Nat \ {0} /\ bit_ceil(cap) \in Nat /\ bit_ceil(cap) >= cap
    BY HistoryAssumption
  <2> QED BY <1>1, <2>1
<1>3. writePos = 0 /\ dirty = 0 /\ history \in Seq(HistoryValues) /\ size = Len(history) /\ size = 0
  <2>1. Len(history) \in Nat
    BY DEF HistoryInv
  <2> QED BY <1>1, <2>1 DEF HistoryInv
<1>4. DOMAIN mem' = 0 .. 2 * n - 1
  BY <1>1
<1> HIDE DEF n
<1>5. IsRing(mem', n, 0, 0) /\ Holds(mem', n, 0, 0, history)
  BY <1>2, <1>3, <1>4 DEF IsRing, Holds
<1> QED BY <1>1, <1>2, <1>3, <1>5 DEF HistoryInv, n

\* The window from writePos on is contiguous in the two halves.
LEMMA Contiguous ==
  ASSUME HistoryInv, capacity > 0, NEW i \in 0 .. size - 1, NEW r, r = syncMirror
  PROVE  r[writePos + i] = history[i + 1]
<1> DEFINE n == ringCap  w == writePos
<1>1. /\ Leaves(mem, n, w, dirty, history, size) /\ size \in Nat /\ size <= n /\ n \in Nat \ {0} /\ w \in 0 .. n - 1
  BY Known
<1>2. r[Slot(n, w, i)] = history[i + 1] /\ r[Slot(n, w, i) + n] = history[i + 1]
  BY <1>1, Mirrored DEF Leaves
<1>3. w + i = Slot(n, w, i) \/ w + i = Slot(n, w, i) + n
  BY <1>1 DEF Slot
<1> QED BY <1>2, <1>3

LEMMA ResizeStep ==
  ASSUME HistoryInv, NEW cap \in Capacities, resize(cap)
  PROVE  HistoryInv'
<1> DEFINE n == ringCap'  k == size'  r == syncMirror
<1>1. capacity > 0 /\ writePos' = 0 /\ dirty' = 0 /\ capacity' = cap
  BY DEF resize, Constructed
<1>2. /\ k = MinOf(size, cap) /\ n = bit_ceil(cap) /\ history' = SubSeq(history, 1, k)
      /\ mem' = [p \in 0 .. 2 * n - 1 |-> IF p % n < k THEN r[writePos + (p % n)] ELSE Blank]
  BY DEF resize
<1>3. cap \in Nat \ {0} /\ n \in Nat \ {0} /\ cap <= n
  <2>1. cap \in Nat \ {0} /\ bit_ceil(cap) \in Nat /\ bit_ceil(cap) >= cap
    BY HistoryAssumption
  <2>2. n = bit_ceil(cap)
    BY <1>2
  <2> QED BY <2>1, <2>2
<1>4. size \in Nat /\ history \in Seq(HistoryValues) /\ Len(history) = size
  BY <1>1, Known DEF Leaves
<1>5. k \in 0 .. size /\ k <= cap
  <2>1. k = MinOf(size, cap)
    BY <1>2
  <2> QED BY <1>3, <1>4, <2>1 DEF MinOf
<1>6. DOMAIN mem' = 0 .. 2 * n - 1
  BY <1>2
<1> HIDE DEF n, k, r
<1>7. AreFirst(HistoryValues, history, k, history')
  BY <1>2, <1>4, <1>5, Firsts
<1>8. ASSUME NEW i \in 0 .. k - 1 PROVE mem'[i] = history'[i + 1] /\ mem'[i + n] = history'[i + 1]
  <2>1. i \in 0 .. n - 1 /\ i + n \in n .. 2 * n - 1 /\ i \in 0 .. 2 * n - 1 /\ i + n \in 0 .. 2 * n - 1 /\ i < k
        /\ i \in 0 .. size - 1 /\ i + 1 \in 1 .. k
    BY <1>3, <1>4, <1>5
  <2>2. i % n = i /\ (i + n) % n = i
    <3>1. PICK a \in Int, b \in Int : a = i /\ b = i + n
      BY <1>3
    <3>2. (a \in 0 .. n - 1 => a % n = a) /\ (b \in n .. 2 * n - 1 => b % n = b - n)
      BY <1>3, Wrapping
    <3>3. b - n = i
      BY <1>3, <3>1
    <3> QED BY <2>1, <3>1, <3>2, <3>3
  <2>3. mem'[i] = r[writePos + i] /\ mem'[i + n] = r[writePos + i]
    BY <1>2, <2>1, <2>2
  <2>4. r[writePos + i] = history[i + 1]
    BY <1>1, <2>1, Contiguous DEF r
  <2> QED BY <1>7, <2>1, <2>3, <2>4 DEF AreFirst
<1>9. IsRing(mem', n, 0, 0) /\ Holds(mem', n, 0, 0, history')
  <2>1. IsRing(mem', n, 0, 0)
    BY <1>3, <1>6 DEF IsRing
  <2>2. ASSUME NEW i \in 0 .. k - 1 PROVE Slot(n, 0, i) = i
    BY <1>3, <1>5 DEF Slot
  <2> QED BY <1>7, <1>8, <2>1, <2>2 DEF AreFirst, Holds
<1> QED BY <1>1, <1>3, <1>5, <1>7, <1>9 DEF AreFirst, HistoryInv, n, k

\* Every operation keeps the memory and what it should hold together.
LEMMA HistoryStep ==
  ASSUME HistoryInv, [HistoryNext]_historyVars
  PROVE  HistoryInv'
<1>1. ASSUME NEW cap \in Capacities, NEW isFixed \in BOOLEAN, Construct(cap, isFixed) PROVE HistoryInv'
  BY <1>1, ConstructStep
<1>2. ASSUME NEW v \in HistoryValues, push_front(v) PROVE HistoryInv'
  BY <1>2, PushFrontStep
<1>3. ASSUME NEW v \in HistoryValues, push_back(v) PROVE HistoryInv'
  BY <1>3, PushBackStep
<1>4. ASSUME NEW l \in RangeLengths, NEW vs \in [1 .. l -> HistoryValues], push_backRange(vs) \/ push_frontRange(vs)
      PROVE  HistoryInv'
  <2>1. vs \in Seq(HistoryValues)
    BY HistoryAssumption
  <2> QED BY <1>4, <2>1, PushBackRangeStep, PushFrontRangeStep
<1>5. ASSUME pop_front \/ pop_back PROVE HistoryInv'
  BY <1>5, PopFrontStep, PopBackStep
<1>6. ASSUME NEW cap \in Capacities, resize(cap) PROVE HistoryInv'
  BY <1>6, ResizeStep
<1>7. ASSUME reset \/ get_span PROVE HistoryInv'
  BY <1>7, ResetStep, SpanStep
<1>8. CASE UNCHANGED historyVars
  BY <1>8 DEF HistoryInv, historyVars, IsRing, Holds
<1> QED BY <1>1, <1>2, <1>3, <1>4, <1>5, <1>6, <1>7, <1>8 DEF HistoryNext

LEMMA HistoryReads ==
  ASSUME HistoryInv
  PROVE  ReadsHistory
<1> SUFFICES ASSUME NEW i \in 0 .. size - 1
             PROVE  mem[map_index(i)] = history[i + 1] /\ syncMirror[writePos + i] = history[i + 1]
  BY DEF ReadsHistory, IndexReadsHistory, SpanReadsHistory
<1>1. capacity > 0
  BY DEF HistoryInv
<1>2. /\ Leaves(mem, ringCap, writePos, dirty, history, size) /\ size \in Nat /\ size <= ringCap
      /\ ringCap \in Nat \ {0} /\ writePos \in 0 .. ringCap - 1
  BY <1>1, Known
<1>3. map_index(i) = Slot(ringCap, writePos, i)
  <2>1. i \in 0 .. ringCap /\ i < ringCap
    BY <1>2
  <2> QED BY <1>2, <2>1, MapsTo
<1>4. mem[Slot(ringCap, writePos, i)] = history[i + 1]
  BY <1>2 DEF Leaves, Holds
<1>5. syncMirror[writePos + i] = history[i + 1]
  BY <1>1, Contiguous
<1> QED BY <1>3, <1>4, <1>5

\* Whatever mixture of pushes and pops at both ends, resizes and resets: operator[] of an
\* index, and the span that begins there, read the element that those operations left there.
THEOREM HistoryIsRead == HistorySpec => []ReadsHistory
<1>1. HistoryInit => HistoryInv
  BY DEF HistoryInit, HistoryInv
<1>2. HistoryInv /\ [HistoryNext]_historyVars => HistoryInv'
  BY HistoryStep
<1>3. HistoryInv => ReadsHistory
  BY HistoryReads
<1> QED BY <1>1, <1>2, <1>3, PTL DEF HistorySpec

=============================================================================
