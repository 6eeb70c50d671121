------------------------- MODULE WorkQuiescence_proofs -------------------------
(***************************************************************************)
(* Proofs about module WorkQuiescence, for any workers, callers, schedulers*)
(* and sub-schedulers.  The counters of the code are counts of threads     *)
(* (CountersExact); what a thread holds is what the rest of its call gives *)
(* back (CallOnCourse), so no release takes away the request of another;   *)
(* and what a waiting thread has read of nInWork still bounds the workers  *)
(* inside (SeenBounds), since nobody gets in while it waits.               *)
(***************************************************************************)
EXTENDS WorkQuiescence, Integers, SequenceTheorems, FiniteSetTheorems, TLAPS

-----------------------------------------------------------------------------
(* What is left of a call *)

Instructions == {"lock", "unlock", "request", "sweep", "release", "settle", "claim"}
Steps        == Instructions \X Schedulers

Asks(q, i, z)  == q[i] = <<"request", z>>
Gives(q, i, z) == q[i] = <<"release", z>>

\* A request is given back before it is made again, and nothing is given back twice.
Matched(q) ==
  /\ \A z \in Schedulers : \A i \in DOMAIN q : Asks(q, i, z) =>
       \E j \in DOMAIN q : i < j /\ Gives(q, j, z) /\ \A k \in DOMAIN q : i < k /\ k < j => ~Asks(q, k, z)
  /\ \A z \in Schedulers : \A i, j \in DOMAIN q : i < j /\ Gives(q, i, z) /\ Gives(q, j, z) =>
       \E k \in DOMAIN q : i < k /\ k < j /\ Asks(q, k, z)

\* The schedulers whose requests q gives back before it makes one.
Open(q) ==
  {z \in Schedulers : \E j \in DOMAIN q : Gives(q, j, z) /\ \A k \in DOMAIN q : k < j => ~Asks(q, k, z)}

\* A claim begins a whole hook of its sub-scheduler, and the call goes on after it.
HooksWhole(q, o) ==
  \A i \in DOMAIN q, z \in Schedulers : q[i] = <<"claim", z>> =>
    /\ o # "edit" /\ i + Len(SubHook(o)) \in DOMAIN q
    /\ \A k \in DOMAIN SubHook(o) : q[i + k - 1] = <<SubHook(o)[k], z>>

Rest(q, o) ==
  /\ q \in Seq(Steps) /\ Matched(q) /\ HooksWhole(q, o)
  /\ q # <<>> => q[Len(q)][1] = "settle"

\* r is what is left of q after n instructions.
Dropped(q, n, r) ==
  /\ q \in Seq(Steps) /\ r \in Seq(Steps) /\ n \in Nat /\ n <= Len(q)
  /\ Len(r) = Len(q) - n /\ \A i \in DOMAIN r : r[i] = q[i + n]

-----------------------------------------------------------------------------
(* Lemmas about sequences of instructions *)

LEMMA DroppedIndices ==
  ASSUME NEW q, NEW r, NEW n, Dropped(q, n, r)
  PROVE  /\ DOMAIN q = 1..Len(q) /\ DOMAIN r = 1..Len(r) /\ Len(q) \in Nat /\ Len(r) \in Nat /\ n \in Nat
         /\ \A i \in DOMAIN r : i + n \in DOMAIN q /\ r[i] = q[i + n]
         /\ \A i \in DOMAIN q : i > n => i - n \in DOMAIN r /\ r[i - n] = q[i]
<1>1. DOMAIN q = 1..Len(q) /\ DOMAIN r = 1..Len(r) /\ Len(q) \in Nat /\ Len(r) \in Nat /\ n \in Nat
  BY LenProperties DEF Dropped
<1>2. Len(r) = Len(q) - n /\ \A i \in DOMAIN r : r[i] = q[i + n]
  BY DEF Dropped
<1>3. QED
  BY SMTT(30), <1>1, <1>2

LEMMA HooksAreSequences ==
  ASSUME NEW o \in Ops
  PROVE  SubHook(o) \in Seq(Instructions)
<1>1. CASE o = "stop"
  BY <1>1 DEF SubHook, Instructions
<1>2. CASE o = "pause"
  BY <1>2 DEF SubHook, Instructions
<1>3. CASE o = "resume"
  BY <1>3 DEF SubHook, Instructions
<1>4. CASE o = "edit"
  BY <1>4 DEF SubHook, Instructions
<1>5. QED
  BY <1>1, <1>2, <1>3, <1>4 DEF Ops

\* What is left of a call is again the rest of a call.
LEMMA RestOfRest ==
  ASSUME NEW q, NEW r, NEW n, NEW o \in Ops, Dropped(q, n, r), Rest(q, o)
  PROVE  Rest(r, o)
<1>1. /\ DOMAIN q = 1..Len(q) /\ DOMAIN r = 1..Len(r) /\ Len(q) \in Nat /\ Len(r) \in Nat /\ n \in Nat
      /\ \A i \in DOMAIN r : i + n \in DOMAIN q /\ r[i] = q[i + n]
      /\ \A i \in DOMAIN q : i > n => i - n \in DOMAIN r /\ r[i - n] = q[i]
  BY DroppedIndices
<1>2. ASSUME NEW z \in Schedulers, NEW i \in DOMAIN r, Asks(r, i, z)
      PROVE  \E j \in DOMAIN r : i < j /\ Gives(r, j, z) /\ \A k \in DOMAIN r : i < k /\ k < j => ~Asks(r, k, z)
  <2>1. Asks(q, i + n, z) /\ i + n \in DOMAIN q
    BY <1>1, <1>2 DEF Asks
  <2>2. PICK j \in DOMAIN q : i + n < j /\ Gives(q, j, z) /\ \A k \in DOMAIN q : i + n < k /\ k < j => ~Asks(q, k, z)
    BY <2>1 DEF Rest, Matched
  <2>3. j - n \in DOMAIN r /\ i < j - n /\ Gives(r, j - n, z)
    BY <1>1, <2>2 DEF Gives
  <2>4. ASSUME NEW k \in DOMAIN r, i < k, k < j - n PROVE ~Asks(r, k, z)
    <3>1. k + n \in DOMAIN q /\ i + n < k + n /\ k + n < j /\ r[k] = q[k + n]
      BY <1>1, <2>4
    <3>2. QED
      BY <3>1, <2>2 DEF Asks
  <2>5. QED
    BY <2>3, <2>4
<1>3. ASSUME NEW z \in Schedulers, NEW i \in DOMAIN r, NEW j \in DOMAIN r, i < j, Gives(r, i, z), Gives(r, j, z)
      PROVE  \E k \in DOMAIN r : i < k /\ k < j /\ Asks(r, k, z)
  <2>1. Gives(q, i + n, z) /\ Gives(q, j + n, z) /\ i + n \in DOMAIN q /\ j + n \in DOMAIN q /\ i + n < j + n
    BY <1>1, <1>3 DEF Gives
  <2>2. PICK k \in DOMAIN q : i + n < k /\ k < j + n /\ Asks(q, k, z)
    BY <2>1 DEF Rest, Matched
  <2>3. k - n \in DOMAIN r /\ i < k - n /\ k - n < j /\ Asks(r, k - n, z)
    BY <1>1, <2>2 DEF Asks
  <2>4. QED
    BY <2>3
<1>4. ASSUME NEW i \in DOMAIN r, NEW z \in Schedulers, r[i] = <<"claim", z>>
      PROVE  /\ o # "edit" /\ i + Len(SubHook(o)) \in DOMAIN r
             /\ \A k \in DOMAIN SubHook(o) : r[i + k - 1] = <<SubHook(o)[k], z>>
  <2> DEFINE h == SubHook(o)
  <2>0. DOMAIN h = 1..Len(h) /\ Len(h) \in Nat
    BY HooksAreSequences, LenProperties
  <2>1. i + n \in DOMAIN q /\ q[i + n] = <<"claim", z>>
    BY <1>1, <1>4
  <2>2. /\ o # "edit" /\ (i + n) + Len(h) \in DOMAIN q
        /\ \A k \in DOMAIN h : q[(i + n) + k - 1] = <<h[k], z>>
    BY <2>1 DEF Rest, HooksWhole
  <2> HIDE DEF h
  <2>3. i + Len(h) \in DOMAIN r
    BY <1>1, <2>0, <2>2
  <2>4. ASSUME NEW k \in DOMAIN h PROVE r[i + k - 1] = <<h[k], z>>
    <3>1. i + k - 1 \in DOMAIN r /\ (i + k - 1) + n = (i + n) + k - 1
      BY <1>1, <2>0, <2>3
    <3>2. r[i + k - 1] = q[(i + n) + k - 1]
      BY <1>1, <3>1
    <3>3. QED
      BY <2>2, <3>2
  <2>5. QED
    BY <2>2, <2>3, <2>4 DEF h
<1>5. ASSUME r # <<>> PROVE r[Len(r)][1] = "settle"
  <2>1. Len(r) # 0
    BY <1>5, EmptySeq DEF Dropped
  <2>2. Len(r) + n = Len(q) /\ Len(r) \in DOMAIN r /\ q # <<>>
    BY <1>1, <2>1 DEF Dropped
  <2>3. r[Len(r)] = q[Len(q)]
    BY <1>1, <2>2
  <2>4. QED
    BY <2>2, <2>3 DEF Rest
<1>6. QED
  <2>1. Matched(r)
    BY <1>2, <1>3 DEF Matched
  <2>2. HooksWhole(r, o)
    BY <1>4 DEF HooksWhole
  <2>3. QED
    BY <2>1, <2>2, <1>5 DEF Rest, Dropped

\* A request opens its scheduler, a release closes it; no other instruction does either.
LEMMA OpenAfterFirst ==
  ASSUME NEW q, NEW r, NEW o \in Ops, Dropped(q, 1, r), Rest(q, o)
  PROVE  /\ q[1][1] = "request" => q[1][2] \notin Open(q) /\ Open(r) = Open(q) \cup {q[1][2]}
         /\ q[1][1] = "release" => q[1][2] \in Open(q) /\ Open(r) = Open(q) \ {q[1][2]}
         /\ q[1][1] \notin {"request", "release"} => Open(r) = Open(q)
<1>1. /\ DOMAIN q = 1..Len(q) /\ DOMAIN r = 1..Len(r) /\ Len(q) \in Nat /\ Len(r) \in Nat
      /\ \A i \in DOMAIN r : i + 1 \in DOMAIN q /\ r[i] = q[i + 1]
      /\ \A i \in DOMAIN q : i > 1 => i - 1 \in DOMAIN r /\ r[i - 1] = q[i]
      /\ 1 \in DOMAIN q
  BY DroppedIndices DEF Dropped
<1>2. q[1] \in Steps /\ q[1][2] \in Schedulers /\ q[1] = <<q[1][1], q[1][2]>>
  BY <1>1, ElementOfSeq DEF Dropped, Steps
<1>3. ASSUME NEW z \in Schedulers, z \in Open(r), ~Asks(q, 1, z) PROVE z \in Open(q)
  <2>1. PICK j \in DOMAIN r : Gives(r, j, z) /\ \A k \in DOMAIN r : k < j => ~Asks(r, k, z)
    BY <1>3 DEF Open
  <2>2. j + 1 \in DOMAIN q /\ Gives(q, j + 1, z)
    BY <1>1, <2>1 DEF Gives
  <2>3. ASSUME NEW k \in DOMAIN q, k < j + 1 PROVE ~Asks(q, k, z)
    <3>1. CASE k = 1
      BY <3>1, <1>3
    <3>2. CASE k > 1
      <4>1. k - 1 \in DOMAIN r /\ r[k - 1] = q[k] /\ k - 1 < j
        BY <3>2, <1>1, <2>3
      <4>2. QED
        BY <4>1, <2>1 DEF Asks
    <3>3. QED
      BY <3>1, <3>2, <1>1
  <2>4. QED
    BY <2>2, <2>3 DEF Open
<1>4. ASSUME NEW z \in Schedulers, z \in Open(q), ~Gives(q, 1, z) PROVE z \in Open(r) /\ ~Asks(q, 1, z)
  <2>1. PICK j \in DOMAIN q : Gives(q, j, z) /\ \A k \in DOMAIN q : k < j => ~Asks(q, k, z)
    BY <1>4 DEF Open
  <2>2. j > 1
    BY <2>1, <1>4, <1>1
  <2>3. j - 1 \in DOMAIN r /\ Gives(r, j - 1, z)
    BY <1>1, <2>1, <2>2 DEF Gives
  <2>4. ASSUME NEW k \in DOMAIN r, k < j - 1 PROVE ~Asks(r, k, z)
    <3>1. k + 1 \in DOMAIN q /\ k + 1 < j /\ r[k] = q[k + 1]
      BY <1>1, <2>4
    <3>2. QED
      BY <3>1, <2>1 DEF Asks
  <2>5. QED
    BY <2>1, <2>2, <2>3, <2>4, <1>1 DEF Open
<1>5. ASSUME NEW z \in Schedulers, Asks(q, 1, z) PROVE z \in Open(r) /\ ~Gives(q, 1, z)
  <2>1. PICK j \in DOMAIN q : 1 < j /\ Gives(q, j, z) /\ \A k \in DOMAIN q : 1 < k /\ k < j => ~Asks(q, k, z)
    BY <1>5, <1>1 DEF Rest, Matched
  <2>2. j - 1 \in DOMAIN r /\ Gives(r, j - 1, z)
    BY <1>1, <2>1 DEF Gives
  <2>3. ASSUME NEW k \in DOMAIN r, k < j - 1 PROVE ~Asks(r, k, z)
    <3>1. k + 1 \in DOMAIN q /\ k + 1 < j /\ 1 < k + 1 /\ r[k] = q[k + 1]
      BY <1>1, <2>3
    <3>2. QED
      BY <3>1, <2>1 DEF Asks
  <2>4. ~Gives(q, 1, z)
    BY <1>5 DEF Asks, Gives
  <2>5. QED
    BY <2>2, <2>3, <2>4 DEF Open
<1>6. ASSUME NEW z \in Schedulers, Gives(q, 1, z) PROVE z \in Open(q) /\ z \notin Open(r)
  <2>1. z \in Open(q)
    BY <1>6, <1>1 DEF Open
  <2>2. ASSUME NEW j \in DOMAIN r, Gives(r, j, z) PROVE \E k \in DOMAIN r : k < j /\ Asks(r, k, z)
    <3>1. j + 1 \in DOMAIN q /\ Gives(q, j + 1, z) /\ 1 < j + 1
      BY <1>1, <2>2 DEF Gives
    <3>2. PICK k \in DOMAIN q : 1 < k /\ k < j + 1 /\ Asks(q, k, z)
      BY <3>1, <1>6, <1>1 DEF Rest, Matched
    <3>3. k - 1 \in DOMAIN r /\ k - 1 < j /\ Asks(r, k - 1, z)
      BY <3>2, <1>1 DEF Asks
    <3>4. QED
      BY <3>3
  <2>3. QED
    BY <2>1, <2>2 DEF Open
<1>7. Open(q) \subseteq Schedulers /\ Open(r) \subseteq Schedulers
  BY DEF Open
<1>8. /\ \A z \in Schedulers : Asks(q, 1, z) <=> q[1][1] = "request" /\ z = q[1][2]
      /\ \A z \in Schedulers : Gives(q, 1, z) <=> q[1][1] = "release" /\ z = q[1][2]
  BY <1>2 DEF Asks, Gives
<1>9. CASE q[1][1] = "request"
  <2>1. q[1][2] \notin Open(q)
    BY <1>9, <1>4, <1>8, <1>2
  <2>2. Open(r) = Open(q) \cup {q[1][2]}
    BY <1>9, <1>2, <1>3, <1>4, <1>5, <1>7, <1>8
  <2>3. QED
    BY <1>9, <2>1, <2>2
<1>10. CASE q[1][1] = "release"
  <2>1. q[1][2] \in Open(q)
    BY <1>10, <1>6, <1>8, <1>2
  <2>2. Open(r) = Open(q) \ {q[1][2]}
    BY <1>10, <1>2, <1>3, <1>4, <1>6, <1>7, <1>8
  <2>3. QED
    BY <1>10, <2>1, <2>2
<1>11. CASE q[1][1] \notin {"request", "release"}
  <2>1. Open(r) = Open(q)
    BY <1>11, <1>3, <1>4, <1>7, <1>8
  <2>2. QED
    BY <1>11, <2>1
<1>12. QED
  BY <1>9, <1>10, <1>11

\* The hook of a sub-scheduler makes one request and gives it back.
LEMMA HookAsksThenGives ==
  ASSUME NEW o \in Ops, o # "edit"
  PROVE  \E a, g \in DOMAIN SubHook(o) :
           /\ a < g /\ SubHook(o)[a] = "request" /\ SubHook(o)[g] = "release"
           /\ \A k \in DOMAIN SubHook(o) : /\ SubHook(o)[k] = "request" => k = a
                                           /\ SubHook(o)[k] = "release" => k = g
<1>1. CASE o = "stop"
  <2> DEFINE h == <<"claim", "lock", "request", "sweep", "release", "unlock", "settle">>
  <2>1. SubHook(o) = h
    BY <1>1 DEF SubHook
  <2>2. DOMAIN h = 1..7 /\ h[1] = "claim" /\ h[2] = "lock" /\ h[3] = "request" /\ h[4] = "sweep" /\ h[5] = "release"
        /\ h[6] = "unlock" /\ h[7] = "settle"
    OBVIOUS
  <2> HIDE DEF h
  <2>3. \A k \in DOMAIN h : (h[k] = "request" => k = 3) /\ (h[k] = "release" => k = 5)
    BY <2>2
  <2>4. 3 \in DOMAIN h /\ 5 \in DOMAIN h /\ 3 < 5
    BY <2>2
  <2>5. QED
    BY <2>1, <2>2, <2>3, <2>4
<1>2. CASE o \in {"pause", "resume"}
  <2> DEFINE h == <<"claim", "request", "sweep", "release", "settle">>
  <2>1. SubHook(o) = h
    BY <1>2 DEF SubHook
  <2>2. DOMAIN h = 1..5 /\ h[1] = "claim" /\ h[2] = "request" /\ h[3] = "sweep" /\ h[4] = "release" /\ h[5] = "settle"
    OBVIOUS
  <2> HIDE DEF h
  <2>3. \A k \in DOMAIN h : (h[k] = "request" => k = 2) /\ (h[k] = "release" => k = 4)
    BY <2>2
  <2>4. 2 \in DOMAIN h /\ 4 \in DOMAIN h /\ 2 < 4
    BY <2>2
  <2>5. QED
    BY <2>1, <2>2, <2>3, <2>4
<1>3. QED
  BY <1>1, <1>2 DEF Ops

\* Leaving out the hook of a sub-scheduler opens and closes nothing.
LEMMA OpenAfterHook ==
  ASSUME NEW q, NEW r, NEW o \in Ops, Dropped(q, Len(SubHook(o)), r), Rest(q, o), q # <<>>, q[1][1] = "claim"
  PROVE  o # "edit" /\ r # <<>> /\ Open(r) = Open(q)
<1> DEFINE h == SubHook(o)
           n == Len(h)
           y == q[1][2]
<1>1. /\ DOMAIN q = 1..Len(q) /\ DOMAIN r = 1..Len(r) /\ Len(q) \in Nat /\ Len(r) \in Nat /\ n \in Nat
      /\ \A i \in DOMAIN r : i + n \in DOMAIN q /\ r[i] = q[i + n]
      /\ \A i \in DOMAIN q : i > n => i - n \in DOMAIN r /\ r[i - n] = q[i]
  BY DroppedIndices
<1>2. 1 \in DOMAIN q
  BY <1>1, EmptySeq DEF Dropped
<1>3. q[1] = <<"claim", y>> /\ y \in Schedulers
  BY <1>2, ElementOfSeq DEF Dropped, Steps
<1>4. /\ o # "edit" /\ 1 + n \in DOMAIN q
      /\ \A k \in DOMAIN h : q[1 + k - 1] = <<h[k], y>>
  BY <1>2, <1>3 DEF Rest, HooksWhole
<1>5. DOMAIN h = 1..n
  BY HooksAreSequences, LenProperties
<1>6. PICK a \in DOMAIN h, g \in DOMAIN h :
        /\ a < g /\ h[a] = "request" /\ h[g] = "release"
        /\ \A k \in DOMAIN h : (h[k] = "request" => k = a) /\ (h[k] = "release" => k = g)
  BY <1>4, HookAsksThenGives
<1> HIDE DEF h, n, y
<1>7. ASSUME NEW k \in 1..n PROVE k \in DOMAIN q /\ q[k] = <<h[k], y>>
  <2>1. k \in DOMAIN q /\ 1 + k - 1 = k
    BY <1>1, <1>4
  <2>2. q[1 + k - 1] = <<h[k], y>>
    BY <1>4, <1>5
  <2>3. QED
    BY <2>1, <2>2
<1>8. r # <<>>
  <2>1. 1 \in DOMAIN r
    BY <1>1, <1>4
  <2>2. QED
    BY <2>1
<1>9. ASSUME NEW z \in Schedulers, z # y PROVE z \in Open(r) <=> z \in Open(q)
  <2>1. \A k \in 1..n : ~Asks(q, k, z) /\ ~Gives(q, k, z)
    BY <1>7, <1>9 DEF Asks, Gives
  <2>2. ASSUME NEW j \in DOMAIN r, Gives(r, j, z), \A k \in DOMAIN r : k < j => ~Asks(r, k, z) PROVE z \in Open(q)
    <3>1. j + n \in DOMAIN q /\ Gives(q, j + n, z)
      BY <1>1, <2>2 DEF Gives
    <3>2. ASSUME NEW k \in DOMAIN q, k < j + n PROVE ~Asks(q, k, z)
      <4>1. CASE k <= n
        BY <4>1, <2>1, <1>1
      <4>2. CASE k > n
        <5>1. k - n \in DOMAIN r /\ r[k - n] = q[k] /\ k - n < j
          BY <4>2, <3>2, <1>1
        <5>2. QED
          BY <5>1, <2>2 DEF Asks
      <4>3. QED
        BY <4>1, <4>2, <1>1
    <3>3. QED
      BY <3>1, <3>2 DEF Open
  <2>3. ASSUME NEW j \in DOMAIN q, Gives(q, j, z), \A k \in DOMAIN q : k < j => ~Asks(q, k, z) PROVE z \in Open(r)
    <3>1. j > n
      BY <2>1, <2>3, <1>1
    <3>2. j - n \in DOMAIN r /\ Gives(r, j - n, z)
      BY <3>1, <2>3, <1>1 DEF Gives
    <3>3. ASSUME NEW k \in DOMAIN r, k < j - n PROVE ~Asks(r, k, z)
      <4>1. k + n \in DOMAIN q /\ k + n < j /\ r[k] = q[k + n]
        BY <1>1, <3>3
      <4>2. QED
        BY <4>1, <2>3 DEF Asks
    <3>4. QED
      BY <3>2, <3>3 DEF Open
  <2>4. QED
    BY <2>2, <2>3 DEF Open
<1>10. y \notin Open(q)
  <2>1. a \in DOMAIN q /\ Asks(q, a, y) /\ a \in 1..n
    BY <1>5, <1>6, <1>7 DEF Asks
  <2>2. ASSUME NEW j \in DOMAIN q, Gives(q, j, y) PROVE a < j
    <3>1. CASE j <= n
      <4>1. j \in 1..n /\ h[j] = "release"
        BY <3>1, <1>1, <1>7, <2>2 DEF Gives
      <4>2. QED
        BY <4>1, <1>5, <1>6
    <3>2. CASE j > n
      BY <3>2, <2>1, <1>1
    <3>3. QED
      BY <3>1, <3>2, <1>1
  <2>3. QED
    BY <2>1, <2>2 DEF Open
<1>11. y \notin Open(r)
  <2>1. g \in DOMAIN q /\ Gives(q, g, y) /\ g \in 1..n
    BY <1>5, <1>6, <1>7 DEF Gives
  <2>2. ASSUME NEW j \in DOMAIN r, Gives(r, j, y) PROVE \E k \in DOMAIN r : k < j /\ Asks(r, k, y)
    <3>1. j + n \in DOMAIN q /\ Gives(q, j + n, y) /\ g < j + n
      BY <1>1, <2>1, <2>2 DEF Gives
    <3>2. PICK k \in DOMAIN q : g < k /\ k < j + n /\ Asks(q, k, y)
      BY <2>1, <3>1, <1>3 DEF Rest, Matched
    <3>3. k > n
      <4>1. ASSUME k \in 1..n PROVE k = a
        BY <4>1, <1>5, <1>6, <1>7, <3>2 DEF Asks
      <4>2. QED
        BY <4>1, <3>2, <1>1, <1>6, <1>5
    <3>4. k - n \in DOMAIN r /\ k - n < j /\ Asks(r, k - n, y)
      BY <3>2, <3>3, <1>1 DEF Asks
    <3>5. QED
      BY <3>4
  <2>3. QED
    BY <2>2 DEF Open
<1>12. Open(r) = Open(q)
  <2>1. Open(r) \subseteq Schedulers /\ Open(q) \subseteq Schedulers
    BY DEF Open
  <2>2. QED
    BY <2>1, <1>9, <1>10, <1>11
<1>13. QED
  BY <1>4, <1>8, <1>12

-----------------------------------------------------------------------------
(* The programs of the control calls *)

\* A sub-scheduler is in the graph once, and no scheduler is in its own.
LEMMA SubsAreApart ==
  ASSUME NEW s \in Schedulers
  PROVE  /\ SubsOf[s] \in Seq(Schedulers) /\ Len(SubsOf[s]) \in Nat /\ DOMAIN SubsOf[s] = 1..Len(SubsOf[s])
         /\ \A j \in 1..Len(SubsOf[s]) : SubsOf[s][j] \in Schedulers /\ SubsOf[s][j] # s
         /\ \A i, j \in 1..Len(SubsOf[s]) : SubsOf[s][i] = SubsOf[s][j] => i = j
<1>1. SubsOf[s] \in Seq(Schedulers) /\ Len(SubsOf[s]) \in Nat /\ DOMAIN SubsOf[s] = 1..Len(SubsOf[s])
  BY ConfigAssumption, LenProperties
<1>2. \A j \in 1..Len(SubsOf[s]) : SubsOf[s][j] \in Schedulers
  BY <1>1, ElementOfSeq
<1>3. ASSUME NEW j \in 1..Len(SubsOf[s]) PROVE SubsOf[s][j] # s
  <2>1. SubsOf[SubsOf[s][j]] = <<>>
    BY <1>1, ConfigAssumption
  <2>2. SubsOf[s] # <<>>
    BY <1>1
  <2>3. QED
    BY <2>1, <2>2
<1>4. \A i, j \in 1..Len(SubsOf[s]) : SubsOf[s][i] = SubsOf[s][j] => i = j
  BY <1>1, ConfigAssumption
<1>5. QED
  BY <1>1, <1>2, <1>3, <1>4

\* The same instructions for each sub-scheduler, one after the other.
LEMMA OnSubsInBlocks ==
  ASSUME NEW is \in Seq(Instructions), NEW s \in Schedulers, Len(is) \in {1, 5, 7}
  PROVE  /\ OnSubs(is, s) \in Seq(Steps) /\ Len(OnSubs(is, s)) = Len(is) * Len(SubsOf[s])
         /\ \A j \in 1..Len(SubsOf[s]), r \in 1..Len(is) :
              OnSubs(is, s)[Len(is) * (j - 1) + r] = <<is[r], SubsOf[s][j]>>
<1> DEFINE N == Len(SubsOf[s])
           L == Len(is)
           B == OnSubs(is, s)
<1>1. N \in Nat /\ \A j \in 1..N : SubsOf[s][j] \in Schedulers
  BY SubsAreApart
<1>2. \A r \in 1..L : is[r] \in Instructions
  BY ElementOfSeq
<1>3. B = [k \in 1..(L * N) |-> <<is[((k - 1) % L) + 1], SubsOf[s][((k - 1) \div L) + 1]>>]
  BY DEF OnSubs
<1> HIDE DEF N, B, L
<1>4. ASSUME NEW M \in {1, 5, 7}, L = M
      PROVE  /\ L * N \in Nat
             /\ \A k \in 1..(L * N) : ((k - 1) % L) + 1 \in 1..L /\ ((k - 1) \div L) + 1 \in 1..N
             /\ \A j \in 1..N, r \in 1..L, k \in Int : k = L * (j - 1) + r =>
              k \in 1..(L * N) /\ ((k - 1) % L) + 1 = r /\ ((k - 1) \div L) + 1 = j
  <2>1. CASE M = 1
    BY <2>1, <1>4, <1>1
  <2>2. CASE M = 5
    BY <2>2, <1>4, <1>1
  <2>3. CASE M = 7
    BY <2>3, <1>4, <1>1
  <2>4. QED
    BY <2>1, <2>2, <2>3
<1>5. L \in {1, 5, 7}
  BY DEF L
<1>6. /\ L * N \in Nat
      /\ \A k \in 1..(L * N) : ((k - 1) % L) + 1 \in 1..L /\ ((k - 1) \div L) + 1 \in 1..N
      /\ \A j \in 1..N, r \in 1..L, k \in Int : k = L * (j - 1) + r =>
              k \in 1..(L * N) /\ ((k - 1) % L) + 1 = r /\ ((k - 1) \div L) + 1 = j
  BY <1>4, <1>5
<1>7. \A k \in 1..(L * N) : <<is[((k - 1) % L) + 1], SubsOf[s][((k - 1) \div L) + 1]>> \in Steps
  BY <1>1, <1>2, <1>6 DEF Steps
<1>8. B \in Seq(Steps) /\ Len(B) = L * N
  <2> DEFINE M == L * N
  <2>1. B \in [1..M -> Steps] /\ M \in Nat
    BY <1>3, <1>6, <1>7
  <2> HIDE DEF M
  <2>2. B \in Seq(Steps) /\ Len(B) = M
    BY <2>1, LenProperties
  <2>3. QED
    BY <2>2 DEF M
<1>9. ASSUME NEW j \in 1..N, NEW r \in 1..L, NEW k \in Int, k = L * (j - 1) + r PROVE B[k] = <<is[r], SubsOf[s][j]>>
  <2>1. k \in 1..(L * N) /\ ((k - 1) % L) + 1 = r /\ ((k - 1) \div L) + 1 = j
    BY <1>6, <1>9
  <2>2. B[k] = <<is[((k - 1) % L) + 1], SubsOf[s][((k - 1) \div L) + 1]>>
    BY <2>1, <1>3
  <2>3. QED
    BY <2>1, <2>2
<1>10. QED
  BY <1>8, <1>9 DEF B, N, L

LEMMA DoIsSeq ==
  ASSUME NEW is \in Seq(Instructions), NEW s \in Schedulers
  PROVE  /\ Do(is, s) \in Seq(Steps) /\ Len(Do(is, s)) = Len(is)
         /\ \A i \in 1..Len(is) : Do(is, s)[i] = <<is[i], s>>
<1>1. Len(is) \in Nat /\ \A i \in 1..Len(is) : is[i] \in Instructions
  BY ElementOfSeq, LenProperties
<1>2. Do(is, s) \in [1..Len(is) -> Steps]
  BY <1>1 DEF Do, Steps
<1>3. QED
  BY <1>1, <1>2, IsASeq, LenProperties DEF Do

\* The requests for z, and its releases, in one round or in two.
Rounds(q, z) ==
  \/ \A k \in DOMAIN q : ~Asks(q, k, z) /\ ~Gives(q, k, z)
  \/ \E a, g, b, h \in DOMAIN q :
       /\ a < g /\ ((b = a /\ h = g) \/ (g < b /\ b < h))
       /\ \A k \in DOMAIN q : (Asks(q, k, z) <=> k \in {a, b}) /\ (Gives(q, k, z) <=> k \in {g, h})

LEMMA RoundsAreMatched ==
  ASSUME NEW q \in Seq(Steps), \A z \in Schedulers : Rounds(q, z)
  PROVE  Matched(q) /\ Open(q) = {}
<1>0. DOMAIN q = 1..Len(q) /\ Len(q) \in Nat
  BY LenProperties
<1>1. ASSUME NEW z \in Schedulers
      PROVE  /\ \A i \in DOMAIN q : Asks(q, i, z) =>
                  \E j \in DOMAIN q : i < j /\ Gives(q, j, z) /\ \A k \in DOMAIN q : i < k /\ k < j => ~Asks(q, k, z)
             /\ \A i, j \in DOMAIN q : i < j /\ Gives(q, i, z) /\ Gives(q, j, z) =>
                  \E k \in DOMAIN q : i < k /\ k < j /\ Asks(q, k, z)
             /\ \A j \in DOMAIN q : Gives(q, j, z) => \E k \in DOMAIN q : k < j /\ Asks(q, k, z)
  <2>1. CASE \A k \in DOMAIN q : ~Asks(q, k, z) /\ ~Gives(q, k, z)
    BY <2>1
  <2>2. ASSUME NEW a \in DOMAIN q, NEW g \in DOMAIN q, NEW b \in DOMAIN q, NEW h \in DOMAIN q,
               a < g, (b = a /\ h = g) \/ (g < b /\ b < h),
               \A k \in DOMAIN q : (Asks(q, k, z) <=> k \in {a, b}) /\ (Gives(q, k, z) <=> k \in {g, h})
        PROVE  /\ \A i \in DOMAIN q : Asks(q, i, z) =>
                    \E j \in DOMAIN q : i < j /\ Gives(q, j, z) /\ \A k \in DOMAIN q : i < k /\ k < j => ~Asks(q, k, z)
               /\ \A i, j \in DOMAIN q : i < j /\ Gives(q, i, z) /\ Gives(q, j, z) =>
                    \E k \in DOMAIN q : i < k /\ k < j /\ Asks(q, k, z)
               /\ \A j \in DOMAIN q : Gives(q, j, z) => \E k \in DOMAIN q : k < j /\ Asks(q, k, z)
    <3>1. ASSUME NEW i \in DOMAIN q, Asks(q, i, z)
          PROVE  \E j \in DOMAIN q : i < j /\ Gives(q, j, z) /\ \A k \in DOMAIN q : i < k /\ k < j => ~Asks(q, k, z)
      <4>1. CASE i = a
        BY <4>1, <2>2, <1>0
      <4>2. CASE i = b
        BY <4>2, <2>2, <1>0
      <4>3. QED
        BY <4>1, <4>2, <3>1, <2>2
    <3>2. ASSUME NEW i \in DOMAIN q, NEW j \in DOMAIN q, i < j, Gives(q, i, z), Gives(q, j, z)
          PROVE  \E k \in DOMAIN q : i < k /\ k < j /\ Asks(q, k, z)
      <4>1. i = g /\ j = h /\ g < b /\ b < h
        BY <3>2, <2>2, <1>0
      <4>2. QED
        BY <4>1, <2>2
    <3>3. ASSUME NEW j \in DOMAIN q, Gives(q, j, z) PROVE \E k \in DOMAIN q : k < j /\ Asks(q, k, z)
      BY <3>3, <2>2, <1>0
    <3>4. QED
      BY <3>1, <3>2, <3>3
  <2>3. Rounds(q, z)
    OBVIOUS
  <2>4. QED
    BY <2>1, <2>2, <2>3 DEF Rounds
<1>2. Matched(q)
  BY <1>1 DEF Matched
<1>3. Open(q) = {}
  BY <1>1 DEF Open
<1>4. QED
  BY <1>2, <1>3

LEMMA ThreeParts ==
  ASSUME NEW p \in Seq(Steps), NEW b \in Seq(Steps), NEW e \in Seq(Steps), NEW q, q = p \o b \o e
  PROVE  /\ q \in Seq(Steps) /\ Len(q) = Len(p) + Len(b) + Len(e) /\ DOMAIN q = 1..(Len(p) + Len(b) + Len(e))
         /\ \A i \in 1..Len(p) : q[i] = p[i]
         /\ \A i \in 1..Len(b) : q[Len(p) + i] = b[i]
         /\ \A i \in 1..Len(e) : q[Len(p) + Len(b) + i] = e[i]
<1> DEFINE c == p \o b
           d == c \o e
<1>1. /\ c \in Seq(Steps) /\ Len(c) = Len(p) + Len(b)
      /\ \A i \in 1..Len(p) + Len(b) : c[i] = IF i <= Len(p) THEN p[i] ELSE b[i - Len(p)]
  BY ConcatProperties
<1> HIDE DEF c
<1>2. /\ d \in Seq(Steps) /\ Len(d) = Len(c) + Len(e)
      /\ \A i \in 1..Len(c) + Len(e) : d[i] = IF i <= Len(c) THEN c[i] ELSE e[i - Len(c)]
  <2>1. c \in Seq(Steps)
    BY <1>1
  <2>2. QED
    BY <2>1, ConcatProperties, Zenon
<1>3. DOMAIN d = 1..Len(d)
  BY <1>2, LenProperties
<1> HIDE DEF d
<1>4. Len(p) \in Nat /\ Len(b) \in Nat /\ Len(e) \in Nat
  BY LenProperties
<1>5. \A i \in 1..Len(p) : d[i] = p[i]
  BY <1>1, <1>2, <1>4
<1>6. ASSUME NEW i \in 1..Len(b) PROVE d[Len(p) + i] = b[i]
  <2>1. d[Len(p) + i] = c[Len(p) + i]
    BY <1>1, <1>2, <1>4
  <2>2. c[Len(p) + i] = b[i]
    <3>1. Len(p) + i \in 1..(Len(p) + Len(b)) /\ ~(Len(p) + i <= Len(p)) /\ Len(p) + i - Len(p) = i
      BY <1>4
    <3>2. QED
      BY <3>1, <1>1
  <2>3. QED
    BY <2>1, <2>2
<1>7. ASSUME NEW i \in 1..Len(e) PROVE d[Len(p) + Len(b) + i] = e[i]
  <2>1. /\ Len(p) + Len(b) + i \in 1..(Len(c) + Len(e)) /\ ~(Len(p) + Len(b) + i <= Len(c))
        /\ Len(p) + Len(b) + i - Len(c) = i
    <3>1. Len(c) = Len(p) + Len(b)
      BY <1>1
    <3>2. QED
      BY <3>1, <1>4
  <2>2. QED
    BY <2>1, <1>2
<1>8. QED
  BY <1>1, <1>2, <1>3, <1>4, <1>5, <1>6, <1>7 DEF c, d

\* stop(): its own request around the hooks of the sub-schedulers.
LEMMA StopIsWhole ==
  ASSUME NEW s \in Schedulers
  PROVE  Rest(stop(s), "stop") /\ Open(stop(s)) = {} /\ stop(s) # <<>>
<1> DEFINE N == Len(SubsOf[s])
           h == SubHook("stop")
           P == Do(<<"lock", "request", "sweep">>, s)
           B == OnSubs(h, s)
           E == Do(<<"release", "unlock", "settle">>, s)
           q == P \o B \o E
<1>1. /\ N \in Nat /\ \A j \in 1..N : SubsOf[s][j] \in Schedulers /\ SubsOf[s][j] # s
      /\ \A i, j \in 1..N : SubsOf[s][i] = SubsOf[s][j] => i = j
  BY SubsAreApart
<1>2. /\ h \in Seq(Instructions) /\ Len(h) = 7
      /\ h[1] = "claim" /\ h[2] = "lock" /\ h[3] = "request" /\ h[4] = "sweep" /\ h[5] = "release"
      /\ h[6] = "unlock" /\ h[7] = "settle"
  BY DEF SubHook, Instructions
<1>3. /\ P \in Seq(Steps) /\ Len(P) = 3
      /\ P[1] = <<"lock", s>> /\ P[2] = <<"request", s>> /\ P[3] = <<"sweep", s>>
  <2> DEFINE p == <<"lock", "request", "sweep">>
  <2>1. p \in Seq(Instructions) /\ Len(p) = 3 /\ p[1] = "lock" /\ p[2] = "request" /\ p[3] = "sweep"
    BY DEF Instructions
  <2> HIDE DEF p
  <2>2. Do(p, s) \in Seq(Steps) /\ Len(Do(p, s)) = 3 /\ \A i \in 1..3 : Do(p, s)[i] = <<p[i], s>>
    BY <2>1, DoIsSeq
  <2>3. QED
    BY <2>1, <2>2 DEF p
<1>4. /\ E \in Seq(Steps) /\ Len(E) = 3
      /\ E[1] = <<"release", s>> /\ E[2] = <<"unlock", s>> /\ E[3] = <<"settle", s>>
  <2> DEFINE p == <<"release", "unlock", "settle">>
  <2>1. p \in Seq(Instructions) /\ Len(p) = 3 /\ p[1] = "release" /\ p[2] = "unlock" /\ p[3] = "settle"
    BY DEF Instructions
  <2> HIDE DEF p
  <2>2. Do(p, s) \in Seq(Steps) /\ Len(Do(p, s)) = 3 /\ \A i \in 1..3 : Do(p, s)[i] = <<p[i], s>>
    BY <2>1, DoIsSeq
  <2>3. QED
    BY <2>1, <2>2 DEF p
<1> HIDE DEF h
<1>5. /\ B \in Seq(Steps) /\ Len(B) = 7 * N
      /\ \A j \in 1..N, r \in 1..7 : B[7 * (j - 1) + r] = <<h[r], SubsOf[s][j]>>
  BY <1>2, OnSubsInBlocks
<1> HIDE DEF P, B, E, N
<1>6. /\ q \in Seq(Steps) /\ Len(q) = 7 * N + 6 /\ DOMAIN q = 1..(7 * N + 6)
      /\ \A i \in 1..3 : q[i] = P[i]
      /\ \A i \in 1..(7 * N) : q[3 + i] = B[i]
      /\ \A i \in 1..3 : q[3 + 7 * N + i] = E[i]
  <2>1. /\ q \in Seq(Steps) /\ Len(q) = 3 + 7 * N + 3 /\ DOMAIN q = 1..(3 + 7 * N + 3)
        /\ \A i \in 1..3 : q[i] = P[i]
        /\ \A i \in 1..(7 * N) : q[3 + i] = B[i]
        /\ \A i \in 1..3 : q[3 + 7 * N + i] = E[i]
    <3>1. q = P \o B \o E
      OBVIOUS
    <3> HIDE DEF q
    <3>2. P \in Seq(Steps) /\ B \in Seq(Steps) /\ E \in Seq(Steps)
      BY <1>3, <1>4, <1>5
    <3>3. /\ q \in Seq(Steps) /\ Len(q) = Len(P) + Len(B) + Len(E) /\ DOMAIN q = 1..(Len(P) + Len(B) + Len(E))
          /\ \A i \in 1..Len(P) : q[i] = P[i]
          /\ \A i \in 1..Len(B) : q[Len(P) + i] = B[i]
          /\ \A i \in 1..Len(E) : q[Len(P) + Len(B) + i] = E[i]
      BY <3>1, <3>2, ThreeParts
    <3>4. QED
      BY <3>3, <1>3, <1>4, <1>5
  <2> HIDE DEF q
  <2>2. 3 + 7 * N + 3 = 7 * N + 6
    BY <1>1
  <2>3. QED
    BY <2>1, <2>2
<1> HIDE DEF q
<1>7. /\ q[1] = <<"lock", s>> /\ q[2] = <<"request", s>> /\ q[3] = <<"sweep", s>>
      /\ q[7 * N + 4] = <<"release", s>> /\ q[7 * N + 5] = <<"unlock", s>> /\ q[7 * N + 6] = <<"settle", s>>
  BY <1>1, <1>3, <1>4, <1>6
<1>8. ASSUME NEW j \in 1..N, NEW r \in 1..7 PROVE q[7 * j - 4 + r] = <<h[r], SubsOf[s][j]>>
  <2>1. 7 * (j - 1) + r \in 1..(7 * N) /\ 3 + (7 * (j - 1) + r) = 7 * j - 4 + r
    BY <1>1
  <2>2. q[3 + (7 * (j - 1) + r)] = B[7 * (j - 1) + r]
    BY <2>1, <1>6
  <2>3. QED
    BY <2>1, <2>2, <1>5
<1>9. \A k \in DOMAIN q : \/ k \in 1..3 \/ k \in (7 * N + 4)..(7 * N + 6)
                          \/ \E j \in 1..N, r \in 1..7 : k = 7 * j - 4 + r
  <2>1. ASSUME NEW k \in DOMAIN q, k \notin 1..3, k \notin (7 * N + 4)..(7 * N + 6)
        PROVE  \E j \in 1..N, r \in 1..7 : k = 7 * j - 4 + r
    <3>1. k \in Int /\ 4 <= k /\ k <= 7 * N + 3
      BY <2>1, <1>1, <1>6
    <3>2. ((k - 4) \div 7) + 1 \in 1..N /\ ((k - 4) % 7) + 1 \in 1..7
          /\ k = 7 * (((k - 4) \div 7) + 1) - 4 + (((k - 4) % 7) + 1)
      BY <3>1, <1>1
    <3>3. QED
      BY <3>2
  <2>2. QED
    BY <2>1
<1>10. \A k \in DOMAIN q : \A z \in Schedulers :
         /\ Asks(q, k, z) <=> (z = s /\ k = 2) \/ \E j \in 1..N : z = SubsOf[s][j] /\ k = 7 * j - 1
         /\ Gives(q, k, z) <=> (z = s /\ k = 7 * N + 4) \/ \E j \in 1..N : z = SubsOf[s][j] /\ k = 7 * j + 1
         /\ q[k] = <<"claim", z>> => \E j \in 1..N : z = SubsOf[s][j] /\ k = 7 * j - 3
  <2> SUFFICES ASSUME NEW k \in DOMAIN q, NEW z \in Schedulers
               PROVE  /\ Asks(q, k, z) <=> (z = s /\ k = 2) \/ \E j \in 1..N : z = SubsOf[s][j] /\ k = 7 * j - 1
                      /\ Gives(q, k, z) <=> (z = s /\ k = 7 * N + 4) \/ \E j \in 1..N : z = SubsOf[s][j] /\ k = 7 * j + 1
                      /\ q[k] = <<"claim", z>> => \E j \in 1..N : z = SubsOf[s][j] /\ k = 7 * j - 3
    OBVIOUS
  <2>1. CASE k \in 1..3
    BY <2>1, <1>1, <1>7 DEF Asks, Gives
  <2>2. CASE k \in (7 * N + 4)..(7 * N + 6)
    <3>1. k # 2 /\ \A j \in 1..N : k # 7 * j - 1 /\ k # 7 * j + 1
      BY <2>2, <1>1
    <3>2. k = 7 * N + 4 \/ k = 7 * N + 5 \/ k = 7 * N + 6
      BY <2>2, <1>1
    <3>3. q[k][1] # "request" /\ q[k][1] # "claim" /\ (q[k][1] = "release" <=> k = 7 * N + 4) /\ q[k][2] = s
      BY <3>2, <1>1, <1>7
    <3>4. q[k] = <<q[k][1], q[k][2]>>
      BY <3>2, <1>7
    <3>5. QED
      BY <3>1, <3>3, <3>4 DEF Asks, Gives
  <2>3. ASSUME NEW j \in 1..N, NEW r \in 1..7, k = 7 * j - 4 + r
        PROVE  /\ Asks(q, k, z) <=> (z = s /\ k = 2) \/ \E i \in 1..N : z = SubsOf[s][i] /\ k = 7 * i - 1
               /\ Gives(q, k, z) <=> (z = s /\ k = 7 * N + 4) \/ \E i \in 1..N : z = SubsOf[s][i] /\ k = 7 * i + 1
               /\ q[k] = <<"claim", z>> => \E i \in 1..N : z = SubsOf[s][i] /\ k = 7 * i - 3
    <3>1. q[k] = <<h[r], SubsOf[s][j]>>
      BY <2>3, <1>8
    <3>2. /\ k # 2 /\ k # 7 * N + 4
          /\ \A i \in 1..N : /\ k = 7 * i - 1 => i = j /\ r = 3
                             /\ k = 7 * i + 1 => i = j /\ r = 5
          /\ r = 3 => k = 7 * j - 1
          /\ r = 5 => k = 7 * j + 1
          /\ r = 1 => k = 7 * j - 3
      BY <2>3, <1>1
    <3>3. (h[r] = "request" <=> r = 3) /\ (h[r] = "release" <=> r = 5) /\ (h[r] = "claim" <=> r = 1)
      BY <1>2
    <3>4. QED
      BY <3>1, <3>2, <3>3 DEF Asks, Gives
  <2>4. QED
    BY <2>1, <2>2, <2>3, <1>9
<1>11. ASSUME NEW z \in Schedulers PROVE Rounds(q, z)
  <2>1. CASE z = s
    <3>1. 2 \in DOMAIN q /\ 7 * N + 4 \in DOMAIN q /\ 2 < 7 * N + 4
      BY <1>1, <1>6
    <3>2. \A k \in DOMAIN q : (Asks(q, k, z) <=> k \in {2, 2}) /\ (Gives(q, k, z) <=> k \in {7 * N + 4, 7 * N + 4})
      BY <2>1, <1>1, <1>10
    <3>3. QED
      BY <3>1, <3>2 DEF Rounds
  <2>2. ASSUME NEW j \in 1..N, z = SubsOf[s][j] PROVE Rounds(q, z)
    <3>1. 7 * j - 1 \in DOMAIN q /\ 7 * j + 1 \in DOMAIN q /\ 7 * j - 1 < 7 * j + 1
      BY <1>1, <1>6
    <3>2. \A k \in DOMAIN q : (Asks(q, k, z) <=> k \in {7 * j - 1, 7 * j - 1}) /\ (Gives(q, k, z) <=> k \in {7 * j + 1, 7 * j + 1})
      BY <2>2, <1>1, <1>10
    <3>3. QED
      BY <3>1, <3>2 DEF Rounds
  <2>3. CASE z # s /\ \A j \in 1..N : z # SubsOf[s][j]
    BY <2>3, <1>10 DEF Rounds
  <2>4. QED
    BY <2>1, <2>2, <2>3
<1>12. Matched(q) /\ Open(q) = {}
  BY <1>6, <1>11, RoundsAreMatched
<1>13. HooksWhole(q, "stop")
  <2>1. ASSUME NEW j \in 1..N, NEW k \in 1..7 PROVE q[7 * j - 3 + k - 1] = <<h[k], SubsOf[s][j]>>
    <3>1. 7 * j - 3 + k - 1 = 7 * j - 4 + k
      BY <1>1
    <3>2. QED
      BY <3>1, <1>8
  <2>2. DOMAIN h = 1..7
    BY <1>2, LenProperties
  <2>3. \A j \in 1..N : 7 * j - 3 + 7 \in DOMAIN q
    BY <1>1, <1>6
  <2>4. ASSUME NEW i \in DOMAIN q, NEW z \in Schedulers, q[i] = <<"claim", z>>
        PROVE  /\ "stop" # "edit" /\ i + Len(h) \in DOMAIN q
               /\ \A k \in DOMAIN h : q[i + k - 1] = <<h[k], z>>
    <3>1. PICK j \in 1..N : z = SubsOf[s][j] /\ i = 7 * j - 3
      BY <2>4, <1>10
    <3>2. QED
      BY <3>1, <1>2, <2>1, <2>2, <2>3
  <2>5. QED
    BY <2>4 DEF HooksWhole, h
<1>14. Rest(q, "stop") /\ q # <<>>
  BY <1>1, <1>6, <1>7, <1>12, <1>13 DEF Rest
<1>15. QED
  BY <1>12, <1>14 DEF q, P, B, E, h, stop

\* pause(): the same without the mutex.
LEMMA PauseIsWhole ==
  ASSUME NEW s \in Schedulers
  PROVE  Rest(pause(s), "pause") /\ Open(pause(s)) = {} /\ pause(s) # <<>>
<1> DEFINE N == Len(SubsOf[s])
           h == SubHook("pause")
           P == Do(<<"request", "sweep">>, s)
           B == OnSubs(h, s)
           E == Do(<<"release", "settle">>, s)
           q == P \o B \o E
<1>1. /\ N \in Nat /\ \A j \in 1..N : SubsOf[s][j] \in Schedulers /\ SubsOf[s][j] # s
      /\ \A i, j \in 1..N : SubsOf[s][i] = SubsOf[s][j] => i = j
  BY SubsAreApart
<1>2. /\ h \in Seq(Instructions) /\ Len(h) = 5
      /\ h[1] = "claim" /\ h[2] = "request" /\ h[3] = "sweep" /\ h[4] = "release" /\ h[5] = "settle"
  BY DEF SubHook, Instructions
<1>3. /\ P \in Seq(Steps) /\ Len(P) = 2
      /\ P[1] = <<"request", s>> /\ P[2] = <<"sweep", s>>
  <2> DEFINE p == <<"request", "sweep">>
  <2>1. p \in Seq(Instructions) /\ Len(p) = 2 /\ p[1] = "request" /\ p[2] = "sweep"
    BY DEF Instructions
  <2> HIDE DEF p
  <2>2. Do(p, s) \in Seq(Steps) /\ Len(Do(p, s)) = 2 /\ \A i \in 1..2 : Do(p, s)[i] = <<p[i], s>>
    BY <2>1, DoIsSeq
  <2>3. QED
    BY <2>1, <2>2 DEF p
<1>4. /\ E \in Seq(Steps) /\ Len(E) = 2
      /\ E[1] = <<"release", s>> /\ E[2] = <<"settle", s>>
  <2> DEFINE p == <<"release", "settle">>
  <2>1. p \in Seq(Instructions) /\ Len(p) = 2 /\ p[1] = "release" /\ p[2] = "settle"
    BY DEF Instructions
  <2> HIDE DEF p
  <2>2. Do(p, s) \in Seq(Steps) /\ Len(Do(p, s)) = 2 /\ \A i \in 1..2 : Do(p, s)[i] = <<p[i], s>>
    BY <2>1, DoIsSeq
  <2>3. QED
    BY <2>1, <2>2 DEF p
<1> HIDE DEF h
<1>5. /\ B \in Seq(Steps) /\ Len(B) = 5 * N
      /\ \A j \in 1..N, r \in 1..5 : B[5 * (j - 1) + r] = <<h[r], SubsOf[s][j]>>
  BY <1>2, OnSubsInBlocks
<1> HIDE DEF P, B, E, N
<1>6. /\ q \in Seq(Steps) /\ Len(q) = 5 * N + 4 /\ DOMAIN q = 1..(5 * N + 4)
      /\ \A i \in 1..2 : q[i] = P[i]
      /\ \A i \in 1..(5 * N) : q[2 + i] = B[i]
      /\ \A i \in 1..2 : q[2 + 5 * N + i] = E[i]
  <2>1. /\ q \in Seq(Steps) /\ Len(q) = 2 + 5 * N + 2 /\ DOMAIN q = 1..(2 + 5 * N + 2)
        /\ \A i \in 1..2 : q[i] = P[i]
        /\ \A i \in 1..(5 * N) : q[2 + i] = B[i]
        /\ \A i \in 1..2 : q[2 + 5 * N + i] = E[i]
    <3>1. q = P \o B \o E
      OBVIOUS
    <3> HIDE DEF q
    <3>2. P \in Seq(Steps) /\ B \in Seq(Steps) /\ E \in Seq(Steps)
      BY <1>3, <1>4, <1>5
    <3>3. /\ q \in Seq(Steps) /\ Len(q) = Len(P) + Len(B) + Len(E) /\ DOMAIN q = 1..(Len(P) + Len(B) + Len(E))
          /\ \A i \in 1..Len(P) : q[i] = P[i]
          /\ \A i \in 1..Len(B) : q[Len(P) + i] = B[i]
          /\ \A i \in 1..Len(E) : q[Len(P) + Len(B) + i] = E[i]
      BY <3>1, <3>2, ThreeParts
    <3>4. QED
      BY <3>3, <1>3, <1>4, <1>5
  <2> HIDE DEF q
  <2>2. 2 + 5 * N + 2 = 5 * N + 4
    BY <1>1
  <2>3. QED
    BY <2>1, <2>2
<1> HIDE DEF q
<1>7. /\ q[1] = <<"request", s>> /\ q[2] = <<"sweep", s>>
      /\ q[5 * N + 3] = <<"release", s>> /\ q[5 * N + 4] = <<"settle", s>>
  BY <1>1, <1>3, <1>4, <1>6
<1>8. ASSUME NEW j \in 1..N, NEW r \in 1..5 PROVE q[5 * j - 3 + r] = <<h[r], SubsOf[s][j]>>
  <2>1. 5 * (j - 1) + r \in 1..(5 * N) /\ 2 + (5 * (j - 1) + r) = 5 * j - 3 + r
    BY <1>1
  <2>2. q[2 + (5 * (j - 1) + r)] = B[5 * (j - 1) + r]
    BY <2>1, <1>6
  <2>3. QED
    BY <2>1, <2>2, <1>5
<1>9. \A k \in DOMAIN q : \/ k \in 1..2 \/ k \in (5 * N + 3)..(5 * N + 4)
                          \/ \E j \in 1..N, r \in 1..5 : k = 5 * j - 3 + r
  <2>1. ASSUME NEW k \in DOMAIN q, k \notin 1..2, k \notin (5 * N + 3)..(5 * N + 4)
        PROVE  \E j \in 1..N, r \in 1..5 : k = 5 * j - 3 + r
    <3>1. k \in Int /\ 3 <= k /\ k <= 5 * N + 2
      BY <2>1, <1>1, <1>6
    <3>2. ((k - 3) \div 5) + 1 \in 1..N /\ ((k - 3) % 5) + 1 \in 1..5
          /\ k = 5 * (((k - 3) \div 5) + 1) - 3 + (((k - 3) % 5) + 1)
      BY <3>1, <1>1
    <3>3. QED
      BY <3>2
  <2>2. QED
    BY <2>1
<1>10. \A k \in DOMAIN q : \A z \in Schedulers :
         /\ Asks(q, k, z) <=> (z = s /\ k = 1) \/ \E j \in 1..N : z = SubsOf[s][j] /\ k = 5 * j - 1
         /\ Gives(q, k, z) <=> (z = s /\ k = 5 * N + 3) \/ \E j \in 1..N : z = SubsOf[s][j] /\ k = 5 * j + 1
         /\ q[k] = <<"claim", z>> => \E j \in 1..N : z = SubsOf[s][j] /\ k = 5 * j - 2
  <2> SUFFICES ASSUME NEW k \in DOMAIN q, NEW z \in Schedulers
               PROVE  /\ Asks(q, k, z) <=> (z = s /\ k = 1) \/ \E j \in 1..N : z = SubsOf[s][j] /\ k = 5 * j - 1
                      /\ Gives(q, k, z) <=> (z = s /\ k = 5 * N + 3) \/ \E j \in 1..N : z = SubsOf[s][j] /\ k = 5 * j + 1
                      /\ q[k] = <<"claim", z>> => \E j \in 1..N : z = SubsOf[s][j] /\ k = 5 * j - 2
    OBVIOUS
  <2>1. CASE k \in 1..2
    BY <2>1, <1>1, <1>7 DEF Asks, Gives
  <2>2. CASE k \in (5 * N + 3)..(5 * N + 4)
    <3>1. k # 1 /\ \A j \in 1..N : k # 5 * j - 1 /\ k # 5 * j + 1
      BY <2>2, <1>1
    <3>2. k = 5 * N + 3 \/ k = 5 * N + 4
      BY <2>2, <1>1
    <3>3. q[k][1] # "request" /\ q[k][1] # "claim" /\ (q[k][1] = "release" <=> k = 5 * N + 3) /\ q[k][2] = s
      BY <3>2, <1>1, <1>7
    <3>4. q[k] = <<q[k][1], q[k][2]>>
      BY <3>2, <1>7
    <3>5. QED
      BY <3>1, <3>3, <3>4 DEF Asks, Gives
  <2>3. ASSUME NEW j \in 1..N, NEW r \in 1..5, k = 5 * j - 3 + r
        PROVE  /\ Asks(q, k, z) <=> (z = s /\ k = 1) \/ \E i \in 1..N : z = SubsOf[s][i] /\ k = 5 * i - 1
               /\ Gives(q, k, z) <=> (z = s /\ k = 5 * N + 3) \/ \E i \in 1..N : z = SubsOf[s][i] /\ k = 5 * i + 1
               /\ q[k] = <<"claim", z>> => \E i \in 1..N : z = SubsOf[s][i] /\ k = 5 * i - 2
    <3>1. q[k] = <<h[r], SubsOf[s][j]>>
      BY <2>3, <1>8
    <3>2. /\ k # 1 /\ k # 5 * N + 3
          /\ \A i \in 1..N : /\ k = 5 * i - 1 => i = j /\ r = 2
                             /\ k = 5 * i + 1 => i = j /\ r = 4
          /\ r = 2 => k = 5 * j - 1
          /\ r = 4 => k = 5 * j + 1
          /\ r = 1 => k = 5 * j - 2
      BY <2>3, <1>1
    <3>3. (h[r] = "request" <=> r = 2) /\ (h[r] = "release" <=> r = 4) /\ (h[r] = "claim" <=> r = 1)
      BY <1>2
    <3>4. QED
      BY <3>1, <3>2, <3>3 DEF Asks, Gives
  <2>4. QED
    BY <2>1, <2>2, <2>3, <1>9
<1>11. ASSUME NEW z \in Schedulers PROVE Rounds(q, z)
  <2>1. CASE z = s
    <3>1. 1 \in DOMAIN q /\ 5 * N + 3 \in DOMAIN q /\ 1 < 5 * N + 3
      BY <1>1, <1>6
    <3>2. \A k \in DOMAIN q : (Asks(q, k, z) <=> k \in {1, 1}) /\ (Gives(q, k, z) <=> k \in {5 * N + 3, 5 * N + 3})
      BY <2>1, <1>1, <1>10
    <3>3. QED
      BY <3>1, <3>2 DEF Rounds
  <2>2. ASSUME NEW j \in 1..N, z = SubsOf[s][j] PROVE Rounds(q, z)
    <3>1. 5 * j - 1 \in DOMAIN q /\ 5 * j + 1 \in DOMAIN q /\ 5 * j - 1 < 5 * j + 1
      BY <1>1, <1>6
    <3>2. \A k \in DOMAIN q : (Asks(q, k, z) <=> k \in {5 * j - 1, 5 * j - 1}) /\ (Gives(q, k, z) <=> k \in {5 * j + 1, 5 * j + 1})
      BY <2>2, <1>1, <1>10
    <3>3. QED
      BY <3>1, <3>2 DEF Rounds
  <2>3. CASE z # s /\ \A j \in 1..N : z # SubsOf[s][j]
    BY <2>3, <1>10 DEF Rounds
  <2>4. QED
    BY <2>1, <2>2, <2>3
<1>12. Matched(q) /\ Open(q) = {}
  BY <1>6, <1>11, RoundsAreMatched
<1>13. HooksWhole(q, "pause")
  <2>1. ASSUME NEW j \in 1..N, NEW k \in 1..5 PROVE q[5 * j - 2 + k - 1] = <<h[k], SubsOf[s][j]>>
    <3>1. 5 * j - 2 + k - 1 = 5 * j - 3 + k
      BY <1>1
    <3>2. QED
      BY <3>1, <1>8
  <2>2. DOMAIN h = 1..5
    BY <1>2, LenProperties
  <2>3. \A j \in 1..N : 5 * j - 2 + 5 \in DOMAIN q
    BY <1>1, <1>6
  <2>4. ASSUME NEW i \in DOMAIN q, NEW z \in Schedulers, q[i] = <<"claim", z>>
        PROVE  /\ "pause" # "edit" /\ i + Len(h) \in DOMAIN q
               /\ \A k \in DOMAIN h : q[i + k - 1] = <<h[k], z>>
    <3>1. PICK j \in 1..N : z = SubsOf[s][j] /\ i = 5 * j - 2
      BY <2>4, <1>10
    <3>2. QED
      BY <3>1, <1>2, <2>1, <2>2, <2>3
  <2>5. QED
    BY <2>4 DEF HooksWhole, h
<1>14. Rest(q, "pause") /\ q # <<>>
  BY <1>1, <1>6, <1>7, <1>12, <1>13 DEF Rest
<1>15. QED
  BY <1>12, <1>14 DEF q, P, B, E, h, pause

LEMMA OneForEachSub ==
  ASSUME NEW c \in Instructions, NEW s \in Schedulers
  PROVE  /\ Do(<<c>>, s) \in Seq(Steps) /\ Len(Do(<<c>>, s)) = 1 /\ Do(<<c>>, s)[1] = <<c, s>>
         /\ OnSubs(<<c>>, s) \in Seq(Steps) /\ Len(OnSubs(<<c>>, s)) = Len(SubsOf[s])
         /\ \A j \in 1..Len(SubsOf[s]) : OnSubs(<<c>>, s)[j] = <<c, SubsOf[s][j]>>
<1> DEFINE is == <<c>>
           N == Len(SubsOf[s])
<1>1. is \in Seq(Instructions) /\ Len(is) = 1 /\ is[1] = c
  OBVIOUS
<1>2. N \in Nat
  BY SubsAreApart
<1> HIDE DEF is, N
<1>3. Do(is, s) \in Seq(Steps) /\ Len(Do(is, s)) = 1 /\ Do(is, s)[1] = <<c, s>>
  BY <1>1, DoIsSeq
<1>4. /\ OnSubs(is, s) \in Seq(Steps) /\ Len(OnSubs(is, s)) = 1 * N
      /\ \A j \in 1..N, r \in 1..1 : OnSubs(is, s)[1 * (j - 1) + r] = <<is[r], SubsOf[s][j]>>
  BY SMTT(30), ZenonT(20), <1>1, OnSubsInBlocks DEF N
<1>5. ASSUME NEW j \in 1..N PROVE OnSubs(is, s)[j] = <<c, SubsOf[s][j]>>
  <2>1. 1 \in 1..1 /\ 1 * (j - 1) + 1 = j
    BY <1>2
  <2>2. OnSubs(is, s)[1 * (j - 1) + 1] = <<is[1], SubsOf[s][j]>>
    BY <2>1, <1>4
  <2>3. QED
    BY <2>1, <2>2, <1>1
<1>6. QED
  BY <1>2, <1>3, <1>4, <1>5 DEF is, N

LEMMA DoTwo ==
  ASSUME NEW c \in Instructions, NEW d \in Instructions, NEW s \in Schedulers
  PROVE  /\ Do(<<c, d>>, s) \in Seq(Steps) /\ Len(Do(<<c, d>>, s)) = 2
         /\ Do(<<c, d>>, s)[1] = <<c, s>> /\ Do(<<c, d>>, s)[2] = <<d, s>>
<1> DEFINE is == <<c, d>>
<1>1. is \in Seq(Instructions) /\ Len(is) = 2 /\ is[1] = c /\ is[2] = d
  OBVIOUS
<1> HIDE DEF is
<1>2. Do(is, s) \in Seq(Steps) /\ Len(Do(is, s)) = 2 /\ \A i \in 1..2 : Do(is, s)[i] = <<is[i], s>>
  BY <1>1, DoIsSeq
<1>3. QED
  BY <1>1, <1>2 DEF is

LEMMA DoThree ==
  ASSUME NEW c \in Instructions, NEW d \in Instructions, NEW e \in Instructions, NEW s \in Schedulers
  PROVE  /\ Do(<<c, d, e>>, s) \in Seq(Steps) /\ Len(Do(<<c, d, e>>, s)) = 3
         /\ Do(<<c, d, e>>, s)[1] = <<c, s>> /\ Do(<<c, d, e>>, s)[2] = <<d, s>> /\ Do(<<c, d, e>>, s)[3] = <<e, s>>
<1> DEFINE is == <<c, d, e>>
<1>1. is \in Seq(Instructions) /\ Len(is) = 3 /\ is[1] = c /\ is[2] = d /\ is[3] = e
  OBVIOUS
<1> HIDE DEF is
<1>2. Do(is, s) \in Seq(Steps) /\ Len(Do(is, s)) = 3 /\ \A i \in 1..3 : Do(is, s)[i] = <<is[i], s>>
  BY <1>1, DoIsSeq
<1>3. Do(is, s)[1] = <<c, s>> /\ Do(is, s)[2] = <<d, s>> /\ Do(is, s)[3] = <<e, s>>
  BY <1>1, <1>2
<1>4. QED
  BY <1>2, <1>3 DEF is

\* An edit: the requests of the sub-schedulers inside its own.
LEMMA EditIsWhole ==
  ASSUME NEW s \in Schedulers
  PROVE  Rest(edit(s), "edit") /\ Open(edit(s)) = {} /\ edit(s) # <<>>
<1> DEFINE N == Len(SubsOf[s])
           P == Do(<<"request">>, s)
           B == OnSubs(<<"request">>, s)
           M == Do(<<"lock", "sweep", "unlock">>, s)
           C == OnSubs(<<"release">>, s)
           E == Do(<<"release", "settle">>, s)
           x == P \o B \o M
           q == x \o C \o E
<1>1. /\ N \in Nat /\ \A j \in 1..N : SubsOf[s][j] \in Schedulers /\ SubsOf[s][j] # s
      /\ \A i, j \in 1..N : SubsOf[s][i] = SubsOf[s][j] => i = j
  BY SubsAreApart
<1>2. /\ P \in Seq(Steps) /\ Len(P) = 1 /\ P[1] = <<"request", s>>
      /\ B \in Seq(Steps) /\ Len(B) = N /\ \A j \in 1..N : B[j] = <<"request", SubsOf[s][j]>>
  <2>1. "request" \in Instructions
    BY DEF Instructions
  <2>2. QED
    BY <2>1, OneForEachSub
<1>3. C \in Seq(Steps) /\ Len(C) = N /\ \A j \in 1..N : C[j] = <<"release", SubsOf[s][j]>>
  <2>1. "release" \in Instructions
    BY DEF Instructions
  <2>2. QED
    BY <2>1, OneForEachSub
<1>4. /\ M \in Seq(Steps) /\ Len(M) = 3 /\ M[1] = <<"lock", s>> /\ M[2] = <<"sweep", s>> /\ M[3] = <<"unlock", s>>
      /\ E \in Seq(Steps) /\ Len(E) = 2 /\ E[1] = <<"release", s>> /\ E[2] = <<"settle", s>>
  <2>1. "lock" \in Instructions /\ "sweep" \in Instructions /\ "unlock" \in Instructions
        /\ "release" \in Instructions /\ "settle" \in Instructions
    BY DEF Instructions
  <2>2. M \in Seq(Steps) /\ Len(M) = 3 /\ M[1] = <<"lock", s>> /\ M[2] = <<"sweep", s>> /\ M[3] = <<"unlock", s>>
    BY <2>1, DoThree
  <2>3. E \in Seq(Steps) /\ Len(E) = 2 /\ E[1] = <<"release", s>> /\ E[2] = <<"settle", s>>
    BY <2>1, DoTwo
  <2>4. QED
    BY <2>2, <2>3
<1> HIDE DEF P, B, M, C, E, N
<1>5. /\ x \in Seq(Steps) /\ Len(x) = N + 4
      /\ x[1] = <<"request", s>> /\ \A j \in 1..N : x[1 + j] = <<"request", SubsOf[s][j]>>
      /\ x[N + 2] = <<"lock", s>> /\ x[N + 3] = <<"sweep", s>> /\ x[N + 4] = <<"unlock", s>>
  <2>1. x = P \o B \o M
    OBVIOUS
  <2> HIDE DEF x
  <2>2. P \in Seq(Steps) /\ B \in Seq(Steps) /\ M \in Seq(Steps)
    BY <1>2, <1>4
  <2>3. /\ x \in Seq(Steps) /\ Len(x) = Len(P) + Len(B) + Len(M)
        /\ \A i \in 1..Len(P) : x[i] = P[i]
        /\ \A i \in 1..Len(B) : x[Len(P) + i] = B[i]
        /\ \A i \in 1..Len(M) : x[Len(P) + Len(B) + i] = M[i]
    BY <2>1, <2>2, ThreeParts
  <2>4. Len(P) = 1 /\ Len(B) = N /\ Len(M) = 3 /\ N \in Nat
    BY <1>1, <1>2, <1>4
  <2>5. x[1 + N + 1] = M[1] /\ x[1 + N + 2] = M[2] /\ x[1 + N + 3] = M[3]
    BY <2>3, <2>4
  <2>6. 1 + N + 1 = N + 2 /\ 1 + N + 2 = N + 3 /\ 1 + N + 3 = N + 4
    BY <1>1
  <2>7. x[1] = P[1] /\ \A j \in 1..N : x[1 + j] = B[j]
    BY <2>3, <2>4
  <2>8. Len(x) = N + 4
    BY <2>3, <2>4
  <2>9. QED
    BY <2>3, <2>5, <2>6, <2>7, <2>8, <1>2, <1>4
<1> HIDE DEF x
<1>6. /\ q \in Seq(Steps) /\ Len(q) = 2 * N + 6 /\ DOMAIN q = 1..(2 * N + 6)
      /\ q[1] = <<"request", s>> /\ \A j \in 1..N : q[1 + j] = <<"request", SubsOf[s][j]>>
      /\ q[N + 2] = <<"lock", s>> /\ q[N + 3] = <<"sweep", s>> /\ q[N + 4] = <<"unlock", s>>
      /\ \A j \in 1..N : q[N + 4 + j] = <<"release", SubsOf[s][j]>>
      /\ q[2 * N + 5] = <<"release", s>> /\ q[2 * N + 6] = <<"settle", s>>
  <2>1. q = x \o C \o E
    OBVIOUS
  <2> HIDE DEF q
  <2>2. x \in Seq(Steps) /\ C \in Seq(Steps) /\ E \in Seq(Steps)
    BY <1>3, <1>4, <1>5
  <2>3. /\ q \in Seq(Steps) /\ Len(q) = Len(x) + Len(C) + Len(E) /\ DOMAIN q = 1..(Len(x) + Len(C) + Len(E))
        /\ \A i \in 1..Len(x) : q[i] = x[i]
        /\ \A i \in 1..Len(C) : q[Len(x) + i] = C[i]
        /\ \A i \in 1..Len(E) : q[Len(x) + Len(C) + i] = E[i]
    BY <2>1, <2>2, ThreeParts
  <2>4. Len(x) = N + 4 /\ Len(C) = N /\ Len(E) = 2 /\ N \in Nat
    BY <1>1, <1>3, <1>4, <1>5
  <2>5. Len(x) + Len(C) + Len(E) = 2 * N + 6 /\ Len(x) + Len(C) + 1 = 2 * N + 5 /\ Len(x) + Len(C) + 2 = 2 * N + 6
    BY <2>4
  <2>6. q[2 * N + 5] = E[1] /\ q[2 * N + 6] = E[2]
    BY <2>3, <2>4, <2>5
  <2>7. \A j \in 1..N : q[N + 4 + j] = C[j]
    BY <2>3, <2>4
  <2>8. q[1] = x[1] /\ q[N + 2] = x[N + 2] /\ q[N + 3] = x[N + 3] /\ q[N + 4] = x[N + 4]
    BY <2>3, <2>4
  <2>9. \A j \in 1..N : q[1 + j] = x[1 + j]
    BY <2>3, <2>4
  <2>10. q \in Seq(Steps) /\ Len(q) = 2 * N + 6 /\ DOMAIN q = 1..(2 * N + 6)
    BY <2>3, <2>5
  <2>11. QED
    BY SMTT(30), ZenonT(20), <2>6, <2>7, <2>8, <2>9, <2>10, <1>3, <1>4, <1>5
<1> HIDE DEF q
<1>7. ASSUME NEW k \in DOMAIN q, NEW z \in Schedulers
      PROVE  /\ Asks(q, k, z) <=> (z = s /\ k = 1) \/ \E j \in 1..N : z = SubsOf[s][j] /\ k = 1 + j
             /\ Gives(q, k, z) <=> (z = s /\ k = 2 * N + 5) \/ \E j \in 1..N : z = SubsOf[s][j] /\ k = N + 4 + j
             /\ q[k] # <<"claim", z>>
  <2>1. CASE k = 1
    BY <2>1, <1>1, <1>6 DEF Asks, Gives
  <2>2. CASE k \in 2..(N + 1)
    <3>1. k - 1 \in 1..N /\ 1 + (k - 1) = k /\ k # 2 * N + 5 /\ \A j \in 1..N : k # N + 4 + j /\ (k = 1 + j => j = k - 1)
      BY <2>2, <1>1
    <3>2. q[k] = <<"request", SubsOf[s][k - 1]>>
      BY <3>1, <1>6
    <3>3. QED
      BY <3>1, <3>2, <2>2, <1>1 DEF Asks, Gives
  <2>3. CASE k \in (N + 2)..(N + 4)
    <3>1. k # 1 /\ k # 2 * N + 5 /\ \A j \in 1..N : k # N + 4 + j /\ k # 1 + j
      BY <2>3, <1>1
    <3>2. k = N + 2 \/ k = N + 3 \/ k = N + 4
      BY <2>3, <1>1
    <3>3. q[k] = <<"lock", s>> \/ q[k] = <<"sweep", s>> \/ q[k] = <<"unlock", s>>
      BY <3>2, <1>6
    <3>4. QED
      BY <3>1, <3>3 DEF Asks, Gives
  <2>4. CASE k \in (N + 5)..(2 * N + 4)
    <3>1. k - N - 4 \in 1..N /\ N + 4 + (k - N - 4) = k /\ k # 1 /\ k # 2 * N + 5
          /\ \A j \in 1..N : k # 1 + j /\ (k = N + 4 + j => j = k - N - 4)
      BY <2>4, <1>1
    <3>2. q[k] = <<"release", SubsOf[s][k - N - 4]>>
      BY <3>1, <1>6
    <3>3. QED
      BY <3>1, <3>2, <1>1 DEF Asks, Gives
  <2>5. CASE k \in (2 * N + 5)..(2 * N + 6)
    <3>1. k # 1 /\ (\A j \in 1..N : k # 1 + j /\ k # N + 4 + j) /\ (k = 2 * N + 5 \/ k = 2 * N + 6) /\ 2 * N + 5 # 2 * N + 6
      BY <2>5, <1>1
    <3>2. CASE k = 2 * N + 5
      <4>1. q[k] = <<"release", s>>
        BY <3>2, <1>6
      <4>2. QED
        BY <3>1, <3>2, <4>1 DEF Asks, Gives
    <3>3. CASE k = 2 * N + 6
      <4>1. q[k] = <<"settle", s>>
        BY <3>3, <1>6
      <4>2. QED
        BY <3>1, <3>3, <4>1 DEF Asks, Gives
    <3>4. QED
      BY <3>1, <3>2, <3>3
  <2>6. QED
    BY <2>1, <2>2, <2>3, <2>4, <2>5, <1>1, <1>6
<1>8. ASSUME NEW z \in Schedulers PROVE Rounds(q, z)
  <2>1. CASE z = s
    <3>1. 1 \in DOMAIN q /\ 2 * N + 5 \in DOMAIN q /\ 1 < 2 * N + 5
      BY <1>1, <1>6
    <3>2. \A k \in DOMAIN q : (Asks(q, k, z) <=> k \in {1, 1}) /\ (Gives(q, k, z) <=> k \in {2 * N + 5, 2 * N + 5})
      BY <2>1, <1>1, <1>7
    <3>3. QED
      BY <3>1, <3>2 DEF Rounds
  <2>2. ASSUME NEW j \in 1..N, z = SubsOf[s][j] PROVE Rounds(q, z)
    <3>1. 1 + j \in DOMAIN q /\ N + 4 + j \in DOMAIN q /\ 1 + j < N + 4 + j
      BY <1>1, <1>6
    <3>2. \A k \in DOMAIN q : (Asks(q, k, z) <=> k \in {1 + j, 1 + j}) /\ (Gives(q, k, z) <=> k \in {N + 4 + j, N + 4 + j})
      BY <2>2, <1>1, <1>7
    <3>3. QED
      BY <3>1, <3>2 DEF Rounds
  <2>3. CASE z # s /\ \A j \in 1..N : z # SubsOf[s][j]
    BY <2>3, <1>7 DEF Rounds
  <2>4. QED
    BY <2>1, <2>2, <2>3
<1>9. Matched(q) /\ Open(q) = {}
  BY <1>6, <1>8, RoundsAreMatched
<1>10. HooksWhole(q, "edit")
  BY <1>7 DEF HooksWhole
<1>11. Rest(q, "edit") /\ q # <<>>
  BY <1>1, <1>6, <1>9, <1>10 DEF Rest
<1>12. QED
  BY <1>9, <1>11 DEF q, x, P, B, M, C, E, edit

\* resume(): an edit's requests, then the hooks of the sub-schedulers, each with a request of its own.
LEMMA ResumeIsWhole ==
  ASSUME NEW s \in Schedulers
  PROVE  Rest(resume(s), "resume") /\ Open(resume(s)) = {} /\ resume(s) # <<>>
<1> DEFINE N == Len(SubsOf[s])
           h == SubHook("resume")
           P == Do(<<"request">>, s)
           B == OnSubs(<<"request">>, s)
           M == Do(<<"sweep">>, s)
           C == OnSubs(<<"release">>, s)
           D == Do(<<"release">>, s)
           H == OnSubs(h, s)
           E == Do(<<"settle">>, s)
           x == P \o B \o M
           y == x \o C \o D
           q == y \o H \o E
<1>1. /\ N \in Nat /\ \A j \in 1..N : SubsOf[s][j] \in Schedulers /\ SubsOf[s][j] # s
      /\ \A i, j \in 1..N : SubsOf[s][i] = SubsOf[s][j] => i = j
  BY SubsAreApart
<1>2. /\ h \in Seq(Instructions) /\ Len(h) = 5
      /\ h[1] = "claim" /\ h[2] = "request" /\ h[3] = "sweep" /\ h[4] = "release" /\ h[5] = "settle"
  BY DEF SubHook, Instructions
<1> HIDE DEF h
<1>3. /\ P \in Seq(Steps) /\ Len(P) = 1 /\ P[1] = <<"request", s>>
      /\ B \in Seq(Steps) /\ Len(B) = N /\ \A j \in 1..N : B[j] = <<"request", SubsOf[s][j]>>
  <2>1. "request" \in Instructions
    BY DEF Instructions
  <2>2. QED
    BY <2>1, OneForEachSub
<1>4. /\ D \in Seq(Steps) /\ Len(D) = 1 /\ D[1] = <<"release", s>>
      /\ C \in Seq(Steps) /\ Len(C) = N /\ \A j \in 1..N : C[j] = <<"release", SubsOf[s][j]>>
  <2>1. "release" \in Instructions
    BY DEF Instructions
  <2>2. QED
    BY <2>1, OneForEachSub
<1>5. M \in Seq(Steps) /\ Len(M) = 1 /\ M[1] = <<"sweep", s>>
  <2>1. "sweep" \in Instructions
    BY DEF Instructions
  <2>2. QED
    BY <2>1, OneForEachSub
<1>6. E \in Seq(Steps) /\ Len(E) = 1 /\ E[1] = <<"settle", s>>
  <2>1. "settle" \in Instructions
    BY DEF Instructions
  <2>2. QED
    BY <2>1, OneForEachSub
<1>7. /\ H \in Seq(Steps) /\ Len(H) = 5 * N
      /\ \A j \in 1..N, r \in 1..5 : H[5 * (j - 1) + r] = <<h[r], SubsOf[s][j]>>
  BY <1>2, OnSubsInBlocks
<1> HIDE DEF P, B, M, C, D, E, H, N
<1>8. /\ x \in Seq(Steps) /\ Len(x) = N + 2
      /\ x[1] = <<"request", s>> /\ x[N + 2] = <<"sweep", s>>
      /\ \A j \in 1..N : x[1 + j] = <<"request", SubsOf[s][j]>>
  <2>1. x = P \o B \o M
    OBVIOUS
  <2> HIDE DEF x
  <2>2. P \in Seq(Steps) /\ B \in Seq(Steps) /\ M \in Seq(Steps)
    BY <1>3, <1>5
  <2>3. /\ x \in Seq(Steps) /\ Len(x) = Len(P) + Len(B) + Len(M)
        /\ \A i \in 1..Len(P) : x[i] = P[i]
        /\ \A i \in 1..Len(B) : x[Len(P) + i] = B[i]
        /\ \A i \in 1..Len(M) : x[Len(P) + Len(B) + i] = M[i]
    BY <2>1, <2>2, ThreeParts
  <2>4. Len(P) = 1 /\ Len(B) = N /\ Len(M) = 1 /\ N \in Nat
    BY <1>1, <1>3, <1>5
  <2>5. x[1 + N + 1] = M[1] /\ 1 + N + 1 = N + 2
    BY <2>3, <2>4
  <2>6. x[1] = P[1] /\ \A j \in 1..N : x[1 + j] = B[j]
    BY <2>3, <2>4
  <2>7. Len(x) = N + 2
    BY <2>3, <2>4
  <2>8. QED
    BY <2>3, <2>5, <2>6, <2>7, <1>3, <1>5
<1> HIDE DEF x
<1>9. /\ y \in Seq(Steps) /\ Len(y) = 2 * N + 3
      /\ y[1] = <<"request", s>> /\ y[N + 2] = <<"sweep", s>> /\ y[2 * N + 3] = <<"release", s>>
      /\ \A j \in 1..N : y[1 + j] = <<"request", SubsOf[s][j]>>
      /\ \A j \in 1..N : y[N + 2 + j] = <<"release", SubsOf[s][j]>>
  <2>1. y = x \o C \o D
    OBVIOUS
  <2> HIDE DEF y
  <2>2. x \in Seq(Steps) /\ C \in Seq(Steps) /\ D \in Seq(Steps)
    BY <1>4, <1>8
  <2>3. /\ y \in Seq(Steps) /\ Len(y) = Len(x) + Len(C) + Len(D)
        /\ \A i \in 1..Len(x) : y[i] = x[i]
        /\ \A i \in 1..Len(C) : y[Len(x) + i] = C[i]
        /\ \A i \in 1..Len(D) : y[Len(x) + Len(C) + i] = D[i]
    BY <2>1, <2>2, ThreeParts
  <2>4. Len(x) = N + 2 /\ Len(C) = N /\ Len(D) = 1 /\ N \in Nat
    BY <1>1, <1>4, <1>8
  <2>5. Len(x) + Len(C) + 1 = 2 * N + 3
    BY <2>4
  <2>6. y[2 * N + 3] = D[1]
    BY <2>3, <2>4, <2>5
  <2>7. \A j \in 1..N : y[N + 2 + j] = C[j] /\ y[1 + j] = x[1 + j]
    BY <2>3, <2>4
  <2>8. y[1] = x[1] /\ y[N + 2] = x[N + 2] /\ Len(y) = 2 * N + 3
    BY <2>3, <2>4
  <2>9. QED
    BY <2>3, <2>6, <2>7, <2>8, <1>4, <1>8
<1> HIDE DEF y
<1>10. /\ q \in Seq(Steps) /\ Len(q) = 7 * N + 4 /\ DOMAIN q = 1..(7 * N + 4)
       /\ \A i \in 1..(2 * N + 3) : q[i] = y[i]
       /\ \A i \in 1..(5 * N) : q[2 * N + 3 + i] = H[i]
       /\ q[7 * N + 4] = <<"settle", s>>
  <2>1. q = y \o H \o E
    OBVIOUS
  <2> HIDE DEF q
  <2>2. y \in Seq(Steps) /\ H \in Seq(Steps) /\ E \in Seq(Steps)
    BY <1>6, <1>7, <1>9
  <2>3. /\ q \in Seq(Steps) /\ Len(q) = Len(y) + Len(H) + Len(E) /\ DOMAIN q = 1..(Len(y) + Len(H) + Len(E))
        /\ \A i \in 1..Len(y) : q[i] = y[i]
        /\ \A i \in 1..Len(H) : q[Len(y) + i] = H[i]
        /\ \A i \in 1..Len(E) : q[Len(y) + Len(H) + i] = E[i]
    BY <2>1, <2>2, ThreeParts
  <2>4. Len(y) = 2 * N + 3 /\ Len(H) = 5 * N /\ Len(E) = 1 /\ N \in Nat
    BY <1>1, <1>6, <1>7, <1>9
  <2>5. Len(y) + Len(H) + Len(E) = 7 * N + 4 /\ Len(y) + Len(H) + 1 = 7 * N + 4
    BY <2>4
  <2>6. q[7 * N + 4] = E[1]
    BY <2>3, <2>4, <2>5
  <2>7. QED
    BY <2>3, <2>4, <2>5, <2>6, <1>6
<1> HIDE DEF q
<1>11. /\ q[1] = <<"request", s>> /\ q[N + 2] = <<"sweep", s>> /\ q[2 * N + 3] = <<"release", s>>
       /\ \A j \in 1..N : q[1 + j] = <<"request", SubsOf[s][j]>>
       /\ \A j \in 1..N : q[N + 2 + j] = <<"release", SubsOf[s][j]>>
  <2>1. 1 \in 1..(2 * N + 3) /\ N + 2 \in 1..(2 * N + 3) /\ 2 * N + 3 \in 1..(2 * N + 3)
    BY <1>1
  <2>2. \A j \in 1..N : 1 + j \in 1..(2 * N + 3) /\ N + 2 + j \in 1..(2 * N + 3)
    BY <1>1
  <2>3. QED
    BY <2>1, <2>2, <1>9, <1>10
<1>12. ASSUME NEW j \in 1..N, NEW r \in 1..5 PROVE q[2 * N + 5 * j - 2 + r] = <<h[r], SubsOf[s][j]>>
  <2>1. 5 * (j - 1) + r \in 1..(5 * N) /\ 2 * N + 3 + (5 * (j - 1) + r) = 2 * N + 5 * j - 2 + r
    BY <1>1
  <2>2. q[2 * N + 3 + (5 * (j - 1) + r)] = H[5 * (j - 1) + r]
    BY <2>1, <1>10
  <2>3. QED
    BY <2>1, <2>2, <1>7
<1>13. ASSUME NEW k \in DOMAIN q, NEW z \in Schedulers
       PROVE  /\ Asks(q, k, z) <=>
                   \/ z = s /\ k = 1
                   \/ \E j \in 1..N : z = SubsOf[s][j] /\ k \in {1 + j, 2 * N + 5 * j}
              /\ Gives(q, k, z) <=>
                   \/ z = s /\ k = 2 * N + 3
                   \/ \E j \in 1..N : z = SubsOf[s][j] /\ k \in {N + 2 + j, 2 * N + 5 * j + 2}
              /\ q[k] = <<"claim", z>> => \E j \in 1..N : z = SubsOf[s][j] /\ k = 2 * N + 5 * j - 1
  <2>1. CASE k = 1
    <3>1. \A j \in 1..N : k # 1 + j /\ k # 2 * N + 5 * j /\ k # N + 2 + j /\ k # 2 * N + 5 * j + 2
      BY <2>1, <1>1
    <3>2. k # 2 * N + 3 /\ q[k] = <<"request", s>>
      BY <2>1, <1>1, <1>11
    <3>3. QED
      BY <2>1, <3>1, <3>2 DEF Asks, Gives
  <2>2. CASE k \in 2..(N + 1)
    <3>1. /\ k - 1 \in 1..N /\ 1 + (k - 1) = k /\ k # 1 /\ k # 2 * N + 3
          /\ \A j \in 1..N : k # N + 2 + j /\ k # 2 * N + 5 * j /\ k # 2 * N + 5 * j + 2 /\ (k = 1 + j => j = k - 1)
      BY <2>2, <1>1
    <3>2. q[k] = <<"request", SubsOf[s][k - 1]>>
      BY <3>1, <1>11
    <3>3. QED
      BY <3>1, <3>2, <1>1 DEF Asks, Gives
  <2>3. CASE k = N + 2
    <3>1. k # 1 /\ k # 2 * N + 3
          /\ \A j \in 1..N : k # 1 + j /\ k # 2 * N + 5 * j /\ k # N + 2 + j /\ k # 2 * N + 5 * j + 2
      BY <2>3, <1>1
    <3>2. q[k] = <<"sweep", s>>
      BY <2>3, <1>11
    <3>3. QED
      BY <3>1, <3>2 DEF Asks, Gives
  <2>4. CASE k \in (N + 3)..(2 * N + 2)
    <3>1. /\ k - N - 2 \in 1..N /\ N + 2 + (k - N - 2) = k /\ k # 1 /\ k # 2 * N + 3
          /\ \A j \in 1..N : k # 1 + j /\ k # 2 * N + 5 * j /\ k # 2 * N + 5 * j + 2 /\ (k = N + 2 + j => j = k - N - 2)
      BY <2>4, <1>1
    <3>2. q[k] = <<"release", SubsOf[s][k - N - 2]>>
      BY <3>1, <1>11
    <3>3. QED
      BY <3>1, <3>2, <1>1 DEF Asks, Gives
  <2>5. CASE k = 2 * N + 3
    <3>1. k # 1 /\ \A j \in 1..N : k # 1 + j /\ k # 2 * N + 5 * j /\ k # N + 2 + j /\ k # 2 * N + 5 * j + 2
      BY <2>5, <1>1
    <3>2. q[k] = <<"release", s>>
      BY <2>5, <1>11
    <3>3. QED
      BY <2>5, <3>1, <3>2 DEF Asks, Gives
  <2>6. CASE k \in (2 * N + 4)..(7 * N + 3)
    <3>1. PICK j \in 1..N, r \in 1..5 : k = 2 * N + 5 * j - 2 + r
      <4>1. /\ ((k - 2 * N - 4) \div 5) + 1 \in 1..N /\ ((k - 2 * N - 4) % 5) + 1 \in 1..5
            /\ k = 2 * N + 5 * (((k - 2 * N - 4) \div 5) + 1) - 2 + (((k - 2 * N - 4) % 5) + 1)
        BY <2>6, <1>1
      <4>2. QED
        BY <4>1
    <3>2. q[k] = <<h[r], SubsOf[s][j]>>
      BY <3>1, <1>12
    <3>3. /\ k # 1 /\ k # 2 * N + 3
          /\ \A i \in 1..N : k # 1 + i /\ k # N + 2 + i
          /\ \A i \in 1..N : /\ k = 2 * N + 5 * i => i = j /\ r = 2
                             /\ k = 2 * N + 5 * i + 2 => i = j /\ r = 4
          /\ r = 2 => k = 2 * N + 5 * j
          /\ r = 4 => k = 2 * N + 5 * j + 2
          /\ r = 1 => k = 2 * N + 5 * j - 1
      BY <3>1, <1>1
    <3>4. (h[r] = "request" <=> r = 2) /\ (h[r] = "release" <=> r = 4) /\ (h[r] = "claim" <=> r = 1)
      BY <1>2
    <3>5. Asks(q, k, z) <=> r = 2 /\ z = SubsOf[s][j]
      BY <3>2, <3>4 DEF Asks
    <3>6. Gives(q, k, z) <=> r = 4 /\ z = SubsOf[s][j]
      BY <3>2, <3>4 DEF Gives
    <3>7. q[k] = <<"claim", z>> => r = 1 /\ z = SubsOf[s][j]
      BY <3>2, <3>4
    <3>8. QED
      BY <3>3, <3>5, <3>6, <3>7
  <2>7. CASE k = 7 * N + 4
    <3>1. k # 1 /\ k # 2 * N + 3
          /\ \A j \in 1..N : k # 1 + j /\ k # 2 * N + 5 * j /\ k # N + 2 + j /\ k # 2 * N + 5 * j + 2
      BY <2>7, <1>1
    <3>2. q[k] = <<"settle", s>>
      BY <2>7, <1>10
    <3>3. QED
      BY <3>1, <3>2 DEF Asks, Gives
  <2>8. \/ k = 1 \/ k \in 2..(N + 1) \/ k = N + 2 \/ k \in (N + 3)..(2 * N + 2) \/ k = 2 * N + 3
        \/ k \in (2 * N + 4)..(7 * N + 3) \/ k = 7 * N + 4
    <3>1. N \in Nat /\ k \in 1..(7 * N + 4)
      BY <1>1, <1>10
    <3>2. k \in Int /\ 1 <= k /\ k <= 7 * N + 4
      BY <3>1
    <3>3. QED
      BY <3>1, <3>2
  <2>9. QED
    BY <2>1, <2>2, <2>3, <2>4, <2>5, <2>6, <2>7, <2>8
<1>14. ASSUME NEW z \in Schedulers PROVE Rounds(q, z)
  <2>1. CASE z = s
    <3>1. 1 \in DOMAIN q /\ 2 * N + 3 \in DOMAIN q /\ 1 < 2 * N + 3
      BY <1>1, <1>10
    <3>2. \A k \in DOMAIN q : (Asks(q, k, z) <=> k \in {1, 1}) /\ (Gives(q, k, z) <=> k \in {2 * N + 3, 2 * N + 3})
      BY <2>1, <1>1, <1>13
    <3>3. QED
      BY <3>1, <3>2 DEF Rounds
  <2>2. ASSUME NEW j \in 1..N, z = SubsOf[s][j] PROVE Rounds(q, z)
    <3> DEFINE a == 1 + j
               g == N + 2 + j
               b == 2 * N + 5 * j
               f == 2 * N + 5 * j + 2
    <3>1. a \in DOMAIN q /\ g \in DOMAIN q /\ b \in DOMAIN q /\ f \in DOMAIN q /\ a < g /\ g < b /\ b < f
      BY <1>1, <1>10
    <3>2. \A k \in DOMAIN q : (Asks(q, k, z) <=> k \in {a, b}) /\ (Gives(q, k, z) <=> k \in {g, f})
      BY <2>2, <1>1, <1>13
    <3> HIDE DEF a, g, b, f
    <3>3. QED
      BY <3>1, <3>2 DEF Rounds
  <2>3. CASE z # s /\ \A j \in 1..N : z # SubsOf[s][j]
    BY <2>3, <1>13 DEF Rounds
  <2>4. QED
    BY <2>1, <2>2, <2>3
<1>15. Matched(q) /\ Open(q) = {}
  BY <1>10, <1>14, RoundsAreMatched
<1>16. HooksWhole(q, "resume")
  <2>1. ASSUME NEW j \in 1..N, NEW k \in 1..5 PROVE q[2 * N + 5 * j - 1 + k - 1] = <<h[k], SubsOf[s][j]>>
    <3>1. 2 * N + 5 * j - 1 + k - 1 = 2 * N + 5 * j - 2 + k
      BY <1>1
    <3>2. QED
      BY <3>1, <1>12
  <2>2. DOMAIN h = 1..5
    BY <1>2, LenProperties
  <2>3. \A j \in 1..N : 2 * N + 5 * j - 1 + 5 \in DOMAIN q
    BY <1>1, <1>10
  <2>4. ASSUME NEW i \in DOMAIN q, NEW z \in Schedulers, q[i] = <<"claim", z>>
        PROVE  /\ "resume" # "edit" /\ i + Len(h) \in DOMAIN q
               /\ \A k \in DOMAIN h : q[i + k - 1] = <<h[k], z>>
    <3>1. PICK j \in 1..N : z = SubsOf[s][j] /\ i = 2 * N + 5 * j - 1
      BY <2>4, <1>13
    <3>2. QED
      BY <3>1, <1>2, <2>1, <2>2, <2>3
  <2>5. QED
    BY <2>4 DEF HooksWhole, h
<1>17. Rest(q, "resume") /\ q # <<>>
  BY <1>1, <1>10, <1>15, <1>16 DEF Rest
<1>18. QED
  BY <1>15, <1>17 DEF q, y, x, P, B, M, C, D, H, E, h, resume

LEMMA ProgramsAreWhole ==
  ASSUME NEW o \in Ops, NEW s \in Schedulers
  PROVE  Rest(Program(o, s), o) /\ Open(Program(o, s)) = {} /\ Program(o, s) # <<>>
<1>1. CASE o = "stop"
  BY <1>1, StopIsWhole DEF Program
<1>2. CASE o = "pause"
  BY <1>2, PauseIsWhole DEF Program
<1>3. CASE o = "resume"
  BY <1>3, ResumeIsWhole DEF Program
<1>4. CASE o = "edit"
  BY <1>4, EditIsWhole DEF Program
<1>5. QED
  BY <1>1, <1>2, <1>3, <1>4 DEF Ops

LEMMA FirstOfRest ==
  ASSUME NEW q, NEW o \in Ops, Rest(q, o), q # <<>>
  PROVE  /\ Head(q) \in Steps /\ Rest(Tail(q), o)
         /\ Head(q)[1] = "request" => Head(q)[2] \notin Open(q) /\ Open(Tail(q)) = Open(q) \cup {Head(q)[2]}
         /\ Head(q)[1] = "release" => Head(q)[2] \in Open(q) /\ Open(Tail(q)) = Open(q) \ {Head(q)[2]}
         /\ Head(q)[1] \notin {"request", "release"} => Open(Tail(q)) = Open(q)
         /\ Head(q)[1] # "settle" => Tail(q) # <<>>
<1>1. q \in Seq(Steps)
  BY DEF Rest
<1>2. /\ Len(q) \in Nat \ {0} /\ DOMAIN q = 1..Len(q) /\ Head(q) = q[1] /\ Head(q) \in Steps
      /\ Tail(q) \in Seq(Steps) /\ Len(Tail(q)) = Len(q) - 1
      /\ \A i \in 1..Len(Tail(q)) : Tail(q)[i] = q[i + 1]
  BY <1>1, EmptySeq, LenProperties, HeadTailProperties
<1>3. DOMAIN Tail(q) = 1..Len(Tail(q))
  BY <1>2, LenProperties
<1>4. Dropped(q, 1, Tail(q))
  BY <1>1, <1>2, <1>3 DEF Dropped
<1>5. Rest(Tail(q), o)
  BY <1>4, RestOfRest
<1>6. /\ q[1][1] = "request" => q[1][2] \notin Open(q) /\ Open(Tail(q)) = Open(q) \cup {q[1][2]}
      /\ q[1][1] = "release" => q[1][2] \in Open(q) /\ Open(Tail(q)) = Open(q) \ {q[1][2]}
      /\ q[1][1] \notin {"request", "release"} => Open(Tail(q)) = Open(q)
  BY <1>4, OpenAfterFirst
<1>7. Head(q)[1] # "settle" => Tail(q) # <<>>
  <2>1. q[Len(q)][1] = "settle"
    BY DEF Rest
  <2>2. Tail(q) = <<>> => Len(q) = 1
    <3> SUFFICES ASSUME Tail(q) = <<>> PROVE Len(q) = 1
      OBVIOUS
    <3>1. Len(<<>>) = 0
      BY EmptySeq
    <3>2. Len(Tail(q)) = 0
      BY <3>1
    <3>3. Len(q) \in Nat /\ Len(Tail(q)) = Len(q) - 1
      BY <1>2
    <3>4. \A l, m \in Int : l = m - 1 /\ l = 0 => m = 1
      OBVIOUS
    <3>5. QED
      BY <3>2, <3>3, <3>4
  <2>3. QED
    BY <2>1, <2>2, <1>2
<1>8. QED
  BY <1>2, <1>5, <1>6, <1>7

LEMMA SkippedHook ==
  ASSUME NEW q, NEW o \in Ops, Rest(q, o), q # <<>>, Head(q)[1] = "claim"
  PROVE  LET r == SubSeq(q, Len(SubHook(o)) + 1, Len(q))
         IN  Rest(r, o) /\ r # <<>> /\ Open(r) = Open(q)
<1> DEFINE n == Len(SubHook(o))
           r == SubSeq(q, n + 1, Len(q))
<1>1. q \in Seq(Steps) /\ Len(q) \in Nat \ {0} /\ DOMAIN q = 1..Len(q) /\ Head(q) = q[1] /\ q[1] \in Steps
  BY EmptySeq, LenProperties, HeadTailProperties DEF Rest
<1>2. q[1] = <<"claim", q[1][2]>> /\ q[1][2] \in Schedulers /\ 1 \in DOMAIN q
  BY <1>1 DEF Steps
<1>3. n \in Nat /\ 1 + n \in DOMAIN q
  BY <1>2, HooksAreSequences, LenProperties DEF Rest, HooksWhole
<1> HIDE DEF n
<1>4. \A i \in (n + 1)..Len(q) : q[i] \in Steps
  BY <1>1, <1>3, ElementOfSeq
<1>5. /\ r \in Seq(Steps) /\ Len(r) = (IF n + 1 <= Len(q) THEN Len(q) - (n + 1) + 1 ELSE 0)
      /\ \A i \in 1..(Len(q) - (n + 1) + 1) : r[i] = q[(n + 1) + i - 1]
  BY <1>1, <1>3, <1>4, SubSeqProperties
<1>6. DOMAIN r = 1..Len(r)
  BY <1>5, LenProperties
<1> HIDE DEF r
<1>7. Len(r) = Len(q) - n /\ n <= Len(q)
  <2>1. n + 1 <= Len(q)
    BY <1>1, <1>3
  <2>2. QED
    BY <2>1, <1>1, <1>3, <1>5
<1>8. ASSUME NEW i \in DOMAIN r PROVE r[i] = q[i + n]
  <2>1. i \in 1..(Len(q) - (n + 1) + 1) /\ (n + 1) + i - 1 = i + n
    BY <1>1, <1>3, <1>6, <1>7
  <2>2. QED
    BY <2>1, <1>5
<1>9. Dropped(q, n, r)
  BY ZenonT(40), <1>1, <1>3, <1>5, <1>7, <1>8 DEF Dropped
<1>10. Rest(r, o)
  BY <1>9, RestOfRest
<1>11. r # <<>> /\ Open(r) = Open(q)
  BY <1>1, <1>9, OpenAfterHook DEF n
<1>12. QED
  BY <1>10, <1>11 DEF r, n

-----------------------------------------------------------------------------
(* The invariant *)

\* The steps of awaitWorkQuiescence().
Waiting == {"add", "load", "compare", "uncount"}
InCall  == {"call"} \cup Waiting

WqTypeOK ==
  /\ state \in [Schedulers -> States] /\ childLock \in [Schedulers -> Threads \cup {NoThread}]
  /\ nRequests \in [Schedulers -> Int] /\ nInWork \in [Schedulers -> Int] /\ nOwnRequests \in [Schedulers -> Int]
  /\ pc \in [Threads -> Labels] /\ inside \in [Threads -> BOOLEAN] /\ called \in [Threads -> BOOLEAN]
  /\ op \in [Threads -> Ops] /\ root \in [Threads -> Schedulers] /\ todo \in [Threads -> Seq(Steps)]
  /\ held \in [Threads -> SUBSET Schedulers] /\ seen \in [Threads -> Int]

\* A thread is inside work() only as a worker, in a block or in the control call of one.
InsideIsHome(t) ==
  /\ inside[t] => t \in Workers /\ pc[t] \in {"working"} \cup InCall
  /\ pc[t] = "working" => inside[t]

\* What a thread holds is what the rest of its call gives back.
CallOnCourse(t) ==
  /\ pc[t] \notin InCall => todo[t] = <<>> /\ held[t] = {}
  /\ pc[t] \in InCall => todo[t] # <<>> /\ Rest(todo[t], op[t])
  /\ pc[t] \in Waiting => Head(todo[t])[1] = "request"
  /\ pc[t] \in InCall => held[t] = IF pc[t] = "uncount" THEN Open(todo[t]) \cup {On(t)} ELSE Open(todo[t])

\* The threads each counter of scheduler s counts.
Requests(t, s) == s \in held[t] \/ (pc[t] \in {"load", "compare"} /\ On(t) = s)
AtWork(t, s)   == t \in Workers /\ home[t] = s /\ (inside[t] \/ pc[t] \in {"recheck", "leave"})
OwnAsks(t, s)  == pc[t] \in Waiting /\ On(t) = s /\ FromOwnWork(t)

CountersExact ==
  \A s \in Schedulers : /\ nRequests[s] = Cardinality({t \in Threads : Requests(t, s)})
                        /\ nInWork[s] = Cardinality({t \in Threads : AtWork(t, s)})
                        /\ nOwnRequests[s] = Cardinality({t \in Threads : OwnAsks(t, s)})

Inside(s) == {w \in Workers : OwnWork(w, s)}

\* While a request waits nobody gets in, so what it has seen is still an upper bound.
SeenBounds == \A t \in Threads : pc[t] = "compare" => Cardinality(Inside(On(t))) <= seen[t]

WqInv ==
  /\ WqTypeOK /\ \A t \in Threads : InsideIsHome(t) /\ CallOnCourse(t)
  /\ CountersExact /\ SeenBounds /\ NoWorkDuringPlainRequest

-----------------------------------------------------------------------------
(* Lemmas about a step of one thread *)

\* The local state of the other threads stays.
OthersStay(t) ==
  \A u \in Threads \ {t} : /\ pc'[u] = pc[u] /\ inside'[u] = inside[u] /\ op'[u] = op[u]
                           /\ todo'[u] = todo[u] /\ held'[u] = held[u] /\ seen'[u] = seen[u]

Bit(b) == IF b THEN 1 ELSE 0

\* The counters move by what the thread itself adds and takes away.
CountersFollow(t) ==
  \A s \in Schedulers :
    /\ nRequests'[s] = nRequests[s] + Bit(Requests(t, s)') - Bit(Requests(t, s))
    /\ nInWork'[s] = nInWork[s] + Bit(AtWork(t, s)') - Bit(AtWork(t, s))
    /\ nOwnRequests'[s] = nOwnRequests[s] + Bit(OwnAsks(t, s)') - Bit(OwnAsks(t, s))

LEMMA OneMoreOrLess ==
  ASSUME NEW S \in SUBSET Threads, NEW T \in SUBSET Threads, NEW t \in Threads, S \ {t} = T \ {t}
  PROVE  Cardinality(T) = Cardinality(S) + Bit(t \in T) - Bit(t \in S)
<1>1. IsFiniteSet(S) /\ IsFiniteSet(T)
  BY ConfigAssumption, FS_Subset
<1>2. /\ Cardinality(S \ {t}) = IF t \in S THEN Cardinality(S) - 1 ELSE Cardinality(S)
      /\ Cardinality(T \ {t}) = IF t \in T THEN Cardinality(T) - 1 ELSE Cardinality(T)
  BY <1>1, FS_RemoveElement
<1>3. Cardinality(S) \in Nat /\ Cardinality(T) \in Nat
  BY <1>1, FS_CardinalityType
<1>4. Cardinality(S \ {t}) = Cardinality(T \ {t})
  OBVIOUS
<1>5. CASE t \in S
  BY <1>2, <1>3, <1>4, <1>5 DEF Bit
<1>6. CASE t \notin S
  BY <1>2, <1>3, <1>4, <1>6 DEF Bit
<1>7. QED
  BY <1>5, <1>6

LEMMA CountersStayExact ==
  ASSUME CountersExact, NEW t \in Threads, OthersStay(t), CountersFollow(t)
  PROVE  CountersExact'
<1> SUFFICES ASSUME NEW s \in Schedulers
             PROVE  /\ nRequests'[s] = Cardinality({u \in Threads : Requests(u, s)'})
                    /\ nInWork'[s] = Cardinality({u \in Threads : AtWork(u, s)'})
                    /\ nOwnRequests'[s] = Cardinality({u \in Threads : OwnAsks(u, s)'})
  BY DEF CountersExact
<1>1. \A u \in Threads \ {t} : Requests(u, s)' <=> Requests(u, s)
  BY DEF OthersStay, Requests, On
<1>2. \A u \in Threads \ {t} : AtWork(u, s)' <=> AtWork(u, s)
  BY DEF OthersStay, AtWork
<1>3. \A u \in Threads \ {t} : OwnAsks(u, s)' <=> OwnAsks(u, s)
  BY DEF OthersStay, OwnAsks, On, FromOwnWork, OwnWork
<1>4. nRequests'[s] = Cardinality({u \in Threads : Requests(u, s)'})
  <2> DEFINE S == {u \in Threads : Requests(u, s)}
             T == {u \in Threads : Requests(u, s)'}
  <2>1. S \ {t} = T \ {t} /\ S \in SUBSET Threads /\ T \in SUBSET Threads
    BY <1>1
  <2>2. (t \in S <=> Requests(t, s)) /\ (t \in T <=> Requests(t, s)')
    OBVIOUS
  <2>3. nRequests[s] = Cardinality(S)
    BY DEF CountersExact
  <2>4. nRequests'[s] = nRequests[s] + Bit(Requests(t, s)') - Bit(Requests(t, s))
    BY DEF CountersFollow
  <2> HIDE DEF S, T
  <2>5. Cardinality(T) = Cardinality(S) + Bit(t \in T) - Bit(t \in S)
    BY <2>1, OneMoreOrLess
  <2>6. Bit(t \in T) = Bit(Requests(t, s)') /\ Bit(t \in S) = Bit(Requests(t, s))
    BY <2>2 DEF Bit
  <2>7. QED
    BY <2>3, <2>4, <2>5, <2>6 DEF T
<1>5. nInWork'[s] = Cardinality({u \in Threads : AtWork(u, s)'})
  <2> DEFINE S == {u \in Threads : AtWork(u, s)}
             T == {u \in Threads : AtWork(u, s)'}
  <2>1. S \ {t} = T \ {t} /\ S \in SUBSET Threads /\ T \in SUBSET Threads
    BY <1>2
  <2>2. (t \in S <=> AtWork(t, s)) /\ (t \in T <=> AtWork(t, s)')
    OBVIOUS
  <2>3. nInWork[s] = Cardinality(S)
    BY DEF CountersExact
  <2>4. nInWork'[s] = nInWork[s] + Bit(AtWork(t, s)') - Bit(AtWork(t, s))
    BY DEF CountersFollow
  <2> HIDE DEF S, T
  <2>5. Cardinality(T) = Cardinality(S) + Bit(t \in T) - Bit(t \in S)
    BY <2>1, OneMoreOrLess
  <2>6. Bit(t \in T) = Bit(AtWork(t, s)') /\ Bit(t \in S) = Bit(AtWork(t, s))
    BY <2>2 DEF Bit
  <2>7. QED
    BY <2>3, <2>4, <2>5, <2>6 DEF T
<1>6. nOwnRequests'[s] = Cardinality({u \in Threads : OwnAsks(u, s)'})
  <2> DEFINE S == {u \in Threads : OwnAsks(u, s)}
             T == {u \in Threads : OwnAsks(u, s)'}
  <2>1. S \ {t} = T \ {t} /\ S \in SUBSET Threads /\ T \in SUBSET Threads
    BY <1>3
  <2>2. (t \in S <=> OwnAsks(t, s)) /\ (t \in T <=> OwnAsks(t, s)')
    OBVIOUS
  <2>3. nOwnRequests[s] = Cardinality(S)
    BY DEF CountersExact
  <2>4. nOwnRequests'[s] = nOwnRequests[s] + Bit(OwnAsks(t, s)') - Bit(OwnAsks(t, s))
    BY DEF CountersFollow
  <2> HIDE DEF S, T
  <2>5. Cardinality(T) = Cardinality(S) + Bit(t \in T) - Bit(t \in S)
    BY <2>1, OneMoreOrLess
  <2>6. Bit(t \in T) = Bit(OwnAsks(t, s)') /\ Bit(t \in S) = Bit(OwnAsks(t, s))
    BY <2>2 DEF Bit
  <2>7. QED
    BY <2>3, <2>4, <2>5, <2>6 DEF T
<1>7. QED
  BY <1>4, <1>5, <1>6

LEMMA CountersDontMove ==
  ASSUME WqTypeOK, NEW t \in Threads, UNCHANGED counters,
         \A s \in Schedulers : /\ Requests(t, s)' <=> Requests(t, s)
                               /\ AtWork(t, s)' <=> AtWork(t, s)
                               /\ OwnAsks(t, s)' <=> OwnAsks(t, s)
  PROVE  CountersFollow(t)
<1> SUFFICES ASSUME NEW s \in Schedulers
             PROVE  /\ nRequests'[s] = nRequests[s] + Bit(Requests(t, s)') - Bit(Requests(t, s))
                    /\ nInWork'[s] = nInWork[s] + Bit(AtWork(t, s)') - Bit(AtWork(t, s))
                    /\ nOwnRequests'[s] = nOwnRequests[s] + Bit(OwnAsks(t, s)') - Bit(OwnAsks(t, s))
  BY DEF CountersFollow
<1>1. Bit(Requests(t, s)') = Bit(Requests(t, s)) /\ Bit(Requests(t, s)) \in Int
  BY DEF Bit
<1>2. Bit(AtWork(t, s)') = Bit(AtWork(t, s)) /\ Bit(AtWork(t, s)) \in Int
  BY DEF Bit
<1>3. Bit(OwnAsks(t, s)') = Bit(OwnAsks(t, s)) /\ Bit(OwnAsks(t, s)) \in Int
  BY DEF Bit
<1>4. /\ nRequests'[s] = nRequests[s] /\ nInWork'[s] = nInWork[s] /\ nOwnRequests'[s] = nOwnRequests[s]
      /\ nRequests[s] \in Int /\ nInWork[s] \in Int /\ nOwnRequests[s] \in Int
  BY DEF counters, WqTypeOK
<1>5. QED
  BY <1>1, <1>2, <1>3, <1>4

\* A step that lets nobody in and is granted nothing.
LEMMA NobodyGetsIn ==
  ASSUME WqTypeOK, NoWorkDuringPlainRequest, NEW t \in Threads, OthersStay(t),
         inside'[t] = inside[t], held'[t] \subseteq held[t]
  PROVE  NoWorkDuringPlainRequest'
<1>1. \A u \in Threads, s \in Schedulers : OwnWork(u, s)' <=> OwnWork(u, s)
  BY DEF OthersStay, OwnWork
<1>2. Workers \subseteq Threads
  BY DEF Threads
<1>3. ASSUME NEW u \in Threads, NEW s \in Schedulers, s \in held'[u], ~OwnWork(u, s)', NEW w \in Workers \ {u}
      PROVE  ~OwnWork(w, s)'
  <2>1. s \in held[u]
    BY <1>3 DEF OthersStay
  <2>2. QED
    BY <2>1, <1>1, <1>2, <1>3 DEF NoWorkDuringPlainRequest
<1>4. QED
  BY <1>3 DEF NoWorkDuringPlainRequest

\* A step that lets nobody in and reads no counter.
LEMMA BoundsStay ==
  ASSUME SeenBounds, NEW t \in Threads, OthersStay(t), inside'[t] = inside[t], pc'[t] # "compare"
  PROVE  SeenBounds'
<1>1. Workers \subseteq Threads
  BY DEF Threads
<1>2. ASSUME NEW u \in Threads, pc'[u] = "compare" PROVE Cardinality(Inside(On(u)))' <= seen'[u]
  <2>1. u # t /\ pc[u] = "compare" /\ On(u)' = On(u) /\ seen'[u] = seen[u]
    BY <1>2 DEF OthersStay, On
  <2>2. Inside(On(u))' = Inside(On(u))
    BY <2>1, <1>1 DEF OthersStay, Inside, OwnWork
  <2>3. QED
    BY <2>1, <2>2 DEF SeenBounds
<1>3. QED
  BY <1>2 DEF SeenBounds

LEMMA OthersKeepCourse ==
  ASSUME NEW t \in Threads, OthersStay(t), \A u \in Threads : InsideIsHome(u) /\ CallOnCourse(u),
         InsideIsHome(t)', CallOnCourse(t)'
  PROVE  (\A u \in Threads : InsideIsHome(u) /\ CallOnCourse(u))'
<1>1. ASSUME NEW u \in Threads \ {t} PROVE InsideIsHome(u)' /\ CallOnCourse(u)'
  <2>1. On(u)' = On(u)
    BY DEF OthersStay, On
  <2>2. InsideIsHome(u)'
    BY DEF OthersStay, InsideIsHome
  <2>3. pc'[u] = pc[u] /\ op'[u] = op[u] /\ todo'[u] = todo[u] /\ held'[u] = held[u]
    BY DEF OthersStay
  <2>4. Open(todo[u])' = Open(todo[u]) /\ Rest(todo[u], op[u])' = Rest(todo[u], op[u])
    BY <2>3 DEF Open, Rest, Matched, HooksWhole, Asks, Gives
  <2>5. CallOnCourse(u)
    OBVIOUS
  <2>6. CallOnCourse(u)'
    BY <2>1, <2>3, <2>4, <2>5 DEF CallOnCourse
  <2>7. QED
    BY <2>2, <2>6
<1>2. QED
  BY <1>1

LEMMA QuietStepKeeps ==
  ASSUME WqInv, NEW t \in Threads, OthersStay(t), CountersFollow(t), WqTypeOK', InsideIsHome(t)', CallOnCourse(t)',
         inside'[t] = inside[t], held'[t] \subseteq held[t], pc'[t] # "compare"
  PROVE  WqInv'
<1>1. CountersExact'
  BY CountersStayExact DEF WqInv
<1>2. SeenBounds' /\ NoWorkDuringPlainRequest'
  BY BoundsStay, NobodyGetsIn DEF WqInv
<1>3. (\A u \in Threads : InsideIsHome(u) /\ CallOnCourse(u))'
  BY OthersKeepCourse DEF WqInv
<1>4. QED
  BY <1>1, <1>2, <1>3 DEF WqInv

\* What the invariant says of a thread in a control call, and of the next instruction of the call.
LEMMA CallFacts ==
  ASSUME WqInv, NEW t \in Threads, pc[t] \in InCall
  PROVE  /\ todo[t] # <<>> /\ op[t] \in Ops /\ Rest(todo[t], op[t]) /\ Rest(Tail(todo[t]), op[t])
         /\ Head(todo[t])[1] \in Instructions /\ On(t) \in Schedulers
         /\ held[t] = IF pc[t] = "uncount" THEN Open(todo[t]) \cup {On(t)} ELSE Open(todo[t])
         /\ Head(todo[t])[1] = "request" => On(t) \notin Open(todo[t]) /\ Open(Tail(todo[t])) = Open(todo[t]) \cup {On(t)}
         /\ Head(todo[t])[1] = "release" => On(t) \in Open(todo[t]) /\ Open(Tail(todo[t])) = Open(todo[t]) \ {On(t)}
         /\ Head(todo[t])[1] \notin {"request", "release"} => Open(Tail(todo[t])) = Open(todo[t])
         /\ Head(todo[t])[1] # "settle" => Tail(todo[t]) # <<>>
         /\ Tail(todo[t]) \in Seq(Steps)
<1>1. CallOnCourse(t) /\ op[t] \in Ops
  BY DEF WqInv, WqTypeOK
<1>2. /\ todo[t] # <<>> /\ Rest(todo[t], op[t])
      /\ held[t] = IF pc[t] = "uncount" THEN Open(todo[t]) \cup {On(t)} ELSE Open(todo[t])
  BY <1>1 DEF CallOnCourse
<1>3. /\ Head(todo[t]) \in Steps /\ Rest(Tail(todo[t]), op[t])
      /\ Head(todo[t])[1] = "request" => On(t) \notin Open(todo[t]) /\ Open(Tail(todo[t])) = Open(todo[t]) \cup {On(t)}
      /\ Head(todo[t])[1] = "release" => On(t) \in Open(todo[t]) /\ Open(Tail(todo[t])) = Open(todo[t]) \ {On(t)}
      /\ Head(todo[t])[1] \notin {"request", "release"} => Open(Tail(todo[t])) = Open(todo[t])
      /\ Head(todo[t])[1] # "settle" => Tail(todo[t]) # <<>>
  BY <1>1, <1>2, FirstOfRest DEF On
<1>4. Head(todo[t])[1] \in Instructions /\ On(t) \in Schedulers
  BY <1>3 DEF Steps, On
<1>5. Tail(todo[t]) \in Seq(Steps)
  BY <1>3 DEF Rest
<1>6. QED
  BY <1>1, <1>2, <1>3, <1>4, <1>5

\* A worker before and after its call of work(): only the count of workers inside moves.
LEMMA WorkerMoves ==
  ASSUME WqInv, NEW w \in Workers, pc[w] \notin {"working"} \cup InCall,
         NEW l \in {"out", "gate", "enter", "recheck"}, pc' = [pc EXCEPT ![w] = l],
         UNCHANGED <<state, nRequests, nOwnRequests, childLock, inside, called, control>>,
         nInWork' \in [Schedulers -> Int],
         \A s \in Schedulers : nInWork'[s] =
           nInWork[s] + Bit(home[w] = s /\ l = "recheck") - Bit(home[w] = s /\ pc[w] \in {"recheck", "leave"})
  PROVE  WqInv'
<1>1. w \in Threads
  BY DEF Threads
<1>2. OthersStay(w)
  BY DEF OthersStay, control, WqInv, WqTypeOK
<1>3. pc'[w] = l /\ WqTypeOK'
  BY <1>1 DEF WqInv, WqTypeOK, control, Labels
<1>4. ~inside[w] /\ ~inside'[w] /\ held[w] = {} /\ held'[w] = {} /\ todo[w] = <<>> /\ todo'[w] = <<>>
  BY <1>1 DEF WqInv, InsideIsHome, CallOnCourse, WqTypeOK, control
<1>5. InsideIsHome(w)' /\ CallOnCourse(w)'
  BY <1>3, <1>4 DEF InsideIsHome, CallOnCourse, InCall, Waiting
<1>6. \A s \in Schedulers : ~Requests(w, s) /\ ~Requests(w, s)' /\ ~OwnAsks(w, s) /\ ~OwnAsks(w, s)'
  BY <1>3, <1>4 DEF Requests, OwnAsks, FromOwnWork, OwnWork, InCall, Waiting
<1>7. \A s \in Schedulers : /\ AtWork(w, s) <=> home[w] = s /\ pc[w] \in {"recheck", "leave"}
                            /\ AtWork(w, s)' <=> home[w] = s /\ l = "recheck"
  BY <1>3, <1>4 DEF AtWork
<1>8. CountersFollow(w)
  <2> SUFFICES ASSUME NEW s \in Schedulers
               PROVE  /\ nRequests'[s] = nRequests[s] + Bit(Requests(w, s)') - Bit(Requests(w, s))
                      /\ nInWork'[s] = nInWork[s] + Bit(AtWork(w, s)') - Bit(AtWork(w, s))
                      /\ nOwnRequests'[s] = nOwnRequests[s] + Bit(OwnAsks(w, s)') - Bit(OwnAsks(w, s))
    BY DEF CountersFollow
  <2>1. nRequests'[s] = nRequests[s] /\ nOwnRequests'[s] = nOwnRequests[s] /\ nRequests[s] \in Int /\ nOwnRequests[s] \in Int
    BY DEF WqInv, WqTypeOK
  <2>2. Bit(AtWork(w, s)') = Bit(home[w] = s /\ l = "recheck")
        /\ Bit(AtWork(w, s)) = Bit(home[w] = s /\ pc[w] \in {"recheck", "leave"})
    BY <1>7 DEF Bit
  <2>3. Bit(Requests(w, s)') = 0 /\ Bit(Requests(w, s)) = 0 /\ Bit(OwnAsks(w, s)') = 0 /\ Bit(OwnAsks(w, s)) = 0
    BY <1>6 DEF Bit
  <2>4. QED
    BY <2>1, <2>2, <2>3
<1>9. QED
  BY <1>1, <1>2, <1>3, <1>4, <1>5, <1>8, QuietStepKeeps

LEMMA ReadStateKeeps ==
  ASSUME WqInv, NEW w \in Workers, ReadState(w)
  PROVE  WqInv'
<1>1. \A s \in Schedulers : nInWork[s] \in Int /\ Bit(home[w] = s /\ "gate" = "recheck") = 0
                            /\ Bit(home[w] = s /\ pc[w] \in {"recheck", "leave"}) = 0
  BY DEF ReadState, Bit, WqInv, WqTypeOK
<1>2. nInWork' = nInWork /\ nInWork' \in [Schedulers -> Int]
  BY DEF ReadState, counters, WqInv, WqTypeOK
<1>3. \A s \in Schedulers : nInWork'[s] =
         nInWork[s] + Bit(home[w] = s /\ "gate" = "recheck") - Bit(home[w] = s /\ pc[w] \in {"recheck", "leave"})
  BY <1>1, <1>2
<1>4. pc' = [pc EXCEPT ![w] = "gate"] /\ pc[w] = "out"
      /\ UNCHANGED <<state, nRequests, nOwnRequests, childLock, inside, called, control>>
  BY DEF ReadState, Goto, counters
<1>5. QED
  BY <1>2, <1>3, <1>4, WorkerMoves DEF InCall, Waiting

LEMMA GateKeeps ==
  ASSUME WqInv, NEW w \in Workers, Gate(w)
  PROVE  WqInv'
<1>1. PICK l \in {"out", "enter"} : pc' = [pc EXCEPT ![w] = l]
  BY DEF Gate, Goto
<1>2. \A s \in Schedulers : nInWork[s] \in Int /\ Bit(home[w] = s /\ l = "recheck") = 0
                            /\ Bit(home[w] = s /\ pc[w] \in {"recheck", "leave"}) = 0
  BY <1>1 DEF Gate, Bit, WqInv, WqTypeOK
<1>3. nInWork' = nInWork /\ nInWork' \in [Schedulers -> Int]
  BY DEF Gate, counters, WqInv, WqTypeOK
<1>4. \A s \in Schedulers : nInWork'[s] =
         nInWork[s] + Bit(home[w] = s /\ l = "recheck") - Bit(home[w] = s /\ pc[w] \in {"recheck", "leave"})
  BY <1>2, <1>3
<1>5. pc[w] = "gate" /\ UNCHANGED <<state, nRequests, nOwnRequests, childLock, inside, called, control>>
  BY DEF Gate, counters
<1>6. QED
  BY <1>1, <1>3, <1>4, <1>5, WorkerMoves DEF InCall, Waiting

LEMMA EnterKeeps ==
  ASSUME WqInv, NEW w \in Workers, Enter(w)
  PROVE  WqInv'
<1>1. home[w] \in Schedulers /\ nInWork \in [Schedulers -> Int]
  BY ConfigAssumption DEF WqInv, WqTypeOK
<1>2. /\ nInWork' \in [Schedulers -> Int]
      /\ \A s \in Schedulers : nInWork'[s] =
           nInWork[s] + Bit(home[w] = s /\ "recheck" = "recheck") - Bit(home[w] = s /\ pc[w] \in {"recheck", "leave"})
  BY <1>1 DEF Enter, Bit
<1>3. QED
  BY <1>2, WorkerMoves DEF Enter, Goto, InCall, Waiting

LEMMA LeaveKeeps ==
  ASSUME WqInv, NEW w \in Workers, Leave(w)
  PROVE  WqInv'
<1>1. home[w] \in Schedulers /\ nInWork \in [Schedulers -> Int]
  BY ConfigAssumption DEF WqInv, WqTypeOK
<1>2. /\ nInWork' \in [Schedulers -> Int]
      /\ \A s \in Schedulers : nInWork'[s] =
           nInWork[s] + Bit(home[w] = s /\ "out" = "recheck") - Bit(home[w] = s /\ pc[w] \in {"recheck", "leave"})
  BY <1>1 DEF Leave, Bit
<1>3. QED
  BY <1>2, WorkerMoves DEF Leave, Goto, InCall, Waiting

\* A request that is counted keeps the worker at the gate or sends it back.
LEMMA RequestsAreCounted ==
  ASSUME WqInv, NEW t \in Threads, NEW s \in Schedulers, Requests(t, s)
  PROVE  nRequests[s] > 0
<1> DEFINE S == {u \in Threads : Requests(u, s)}
<1>1. IsFiniteSet(S) /\ S # {}
  BY ConfigAssumption, FS_Subset
<1>2. nRequests[s] = Cardinality(S)
  BY DEF WqInv, CountersExact
<1> HIDE DEF S
<1>3. Cardinality(S) \in Nat /\ Cardinality(S) # 0
  BY <1>1, FS_CardinalityType, FS_EmptySet
<1>4. QED
  BY <1>2, <1>3

LEMMA InsideIsFinite ==
  ASSUME NEW s \in Schedulers
  PROVE  IsFiniteSet(Inside(s)) /\ Inside(s) \subseteq Threads /\ Cardinality(Inside(s)) \in Nat
<1>1. Inside(s) \subseteq Threads
  BY DEF Inside, Threads
<1>2. QED
  BY <1>1, ConfigAssumption, FS_Subset, FS_CardinalityType

LEMMA RecheckKeeps ==
  ASSUME WqInv, NEW w \in Workers, Recheck(w)
  PROVE  WqInv'
<1>1. /\ w \in Threads /\ pc[w] = "recheck" /\ home[w] \in Schedulers
      /\ UNCHANGED <<state, nRequests, nInWork, nOwnRequests, childLock, called, op, root, todo, held, seen>>
  BY ConfigAssumption DEF Recheck, Threads, counters, control
<1>2. ~inside[w] /\ held[w] = {} /\ todo[w] = <<>> /\ held'[w] = {} /\ todo'[w] = <<>>
  BY <1>1 DEF WqInv, InsideIsHome, CallOnCourse, InCall, Waiting
<1>3. OthersStay(w)
  BY <1>1 DEF OthersStay, Recheck, Goto, WqInv, WqTypeOK
<1>4. WqTypeOK'
  BY <1>1 DEF Recheck, Goto, WqInv, WqTypeOK, Labels
<1>5. \/ pc'[w] = "leave" /\ inside'[w] = inside[w]
      \/ pc'[w] = "working" /\ inside'[w] /\ nRequests[home[w]] <= 0
  <2>1. nRequests[home[w]] \in Int
    BY <1>1 DEF WqInv, WqTypeOK
  <2>2. QED
    BY <2>1, <1>1 DEF Recheck, Goto, WqInv, WqTypeOK
<1>6. InsideIsHome(w)' /\ CallOnCourse(w)'
  BY <1>1, <1>2, <1>5 DEF InsideIsHome, CallOnCourse, InCall, Waiting
<1>7. CountersFollow(w)
  <2>1. \A s \in Schedulers : ~Requests(w, s) /\ ~Requests(w, s)' /\ ~OwnAsks(w, s) /\ ~OwnAsks(w, s)'
    BY <1>1, <1>2, <1>5 DEF Requests, OwnAsks, Waiting
  <2>2. \A s \in Schedulers : AtWork(w, s)' <=> AtWork(w, s)
    BY <1>1, <1>2, <1>5 DEF AtWork
  <2>3. QED
    BY <1>1, <2>1, <2>2, CountersDontMove DEF counters, WqInv
<1>8. CASE pc'[w] = "leave" /\ inside'[w] = inside[w]
  BY <1>1, <1>2, <1>3, <1>4, <1>6, <1>7, <1>8, QuietStepKeeps
<1>9. CASE pc'[w] = "working" /\ inside'[w] /\ nRequests[home[w]] <= 0
  <2>1. \A u \in Threads : ~Requests(u, home[w])
    <3>1. nRequests[home[w]] \in Int
      BY <1>1 DEF WqInv, WqTypeOK
    <3>2. QED
      BY <1>1, <1>9, <3>1, RequestsAreCounted
  <2>2. ASSUME NEW s \in Schedulers, s # home[w] PROVE \A u \in Threads : OwnWork(u, s)' <=> OwnWork(u, s)
    BY <2>2, <1>3 DEF OthersStay, OwnWork
  <2>3. Workers \subseteq Threads
    BY DEF Threads
  <2>4. SeenBounds'
    <3>1. ASSUME NEW u \in Threads, pc'[u] = "compare" PROVE Cardinality(Inside(On(u)))' <= seen'[u]
      <4>1. u # w /\ pc[u] = "compare" /\ On(u)' = On(u) /\ seen'[u] = seen[u]
        BY <3>1, <1>3, <1>9 DEF OthersStay, On
      <4>2. On(u) \in Schedulers
        BY <4>1, CallFacts DEF InCall, Waiting
      <4>3. On(u) # home[w]
        BY <4>1, <4>2, <2>1 DEF Requests
      <4>4. Inside(On(u))' = Inside(On(u))
        BY <4>1, <4>2, <4>3, <2>2, <2>3 DEF Inside
      <4>5. QED
        BY <4>1, <4>4 DEF WqInv, SeenBounds
    <3>2. QED
      BY <3>1 DEF SeenBounds
  <2>5. NoWorkDuringPlainRequest'
    <3>1. ASSUME NEW u \in Threads, NEW s \in Schedulers, s \in held'[u], ~OwnWork(u, s)', NEW v \in Workers \ {u}
          PROVE  ~OwnWork(v, s)'
      <4>1. s \in held[u]
        BY <3>1, <1>1
      <4>2. s # home[w]
        BY <4>1, <2>1 DEF Requests
      <4>3. QED
        BY <4>1, <4>2, <2>2, <2>3, <3>1 DEF WqInv, NoWorkDuringPlainRequest
    <3>2. QED
      BY <3>1 DEF NoWorkDuringPlainRequest
  <2>6. CountersExact'
    BY <1>1, <1>3, <1>7, CountersStayExact DEF WqInv
  <2>7. (\A u \in Threads : InsideIsHome(u) /\ CallOnCourse(u))'
    BY <1>1, <1>3, <1>6, OthersKeepCourse DEF WqInv
  <2>8. QED
    BY <1>4, <2>4, <2>5, <2>6, <2>7 DEF WqInv
<1>10. QED
  BY <1>5, <1>8, <1>9

LEMMA EndWorkKeeps ==
  ASSUME WqInv, NEW w \in Workers, EndWork(w)
  PROVE  WqInv'
<1>1. /\ w \in Threads /\ pc[w] = "working" /\ home[w] \in Schedulers
      /\ UNCHANGED <<state, nRequests, nInWork, nOwnRequests, childLock, op, root, todo, held, seen>>
  BY ConfigAssumption DEF EndWork, Threads, counters, control
<1>2. inside[w] /\ held[w] = {} /\ todo[w] = <<>> /\ held'[w] = {} /\ todo'[w] = <<>>
  BY <1>1 DEF WqInv, InsideIsHome, CallOnCourse, InCall, Waiting
<1>3. OthersStay(w)
  BY <1>1 DEF OthersStay, EndWork, Goto, WqInv, WqTypeOK
<1>4. WqTypeOK'
  BY <1>1 DEF EndWork, Goto, WqInv, WqTypeOK, Labels
<1>5. pc'[w] = "leave" /\ ~inside'[w]
  BY <1>1 DEF EndWork, Goto, WqInv, WqTypeOK
<1>6. InsideIsHome(w)' /\ CallOnCourse(w)'
  BY <1>1, <1>2, <1>5 DEF InsideIsHome, CallOnCourse, InCall, Waiting
<1>7. CountersFollow(w)
  <2>1. \A s \in Schedulers : ~Requests(w, s) /\ ~Requests(w, s)' /\ ~OwnAsks(w, s) /\ ~OwnAsks(w, s)'
    BY <1>1, <1>2, <1>5 DEF Requests, OwnAsks, Waiting
  <2>2. \A s \in Schedulers : AtWork(w, s)' <=> AtWork(w, s)
    BY <1>1, <1>2, <1>5 DEF AtWork
  <2>3. QED
    BY <1>1, <2>1, <2>2, CountersDontMove DEF counters, WqInv
<1>8. \A u \in Threads, s \in Schedulers : OwnWork(u, s)' => OwnWork(u, s)
  BY <1>3, <1>5 DEF OthersStay, OwnWork
<1>9. Workers \subseteq Threads
  BY DEF Threads
<1>10. SeenBounds'
  <2>1. ASSUME NEW u \in Threads, pc'[u] = "compare" PROVE Cardinality(Inside(On(u)))' <= seen'[u]
    <3>1. u # w /\ pc[u] = "compare" /\ On(u)' = On(u) /\ seen'[u] = seen[u] /\ seen[u] \in Int
      BY <2>1, <1>3, <1>5 DEF OthersStay, On, WqInv, WqTypeOK
    <3>2. On(u) \in Schedulers
      BY <3>1, CallFacts DEF InCall, Waiting
    <3>3. \A s \in Schedulers : {v \in Workers : inside'[v] /\ home[v] = s} \subseteq Inside(s)
      BY <1>8, <1>9 DEF Inside, OwnWork
    <3>4. Inside(On(u))' = {v \in Workers : inside'[v] /\ home[v] = On(u)}
      BY <3>1 DEF Inside, OwnWork
    <3>5. Cardinality(Inside(On(u)))' <= Cardinality(Inside(On(u))) /\ Cardinality(Inside(On(u)))' \in Nat
      BY <3>2, <3>3, <3>4, InsideIsFinite, FS_Subset, FS_CardinalityType
    <3>6. Cardinality(Inside(On(u))) <= seen[u] /\ Cardinality(Inside(On(u))) \in Nat
      BY <3>1, <3>2, InsideIsFinite DEF WqInv, SeenBounds
    <3>7. QED
      BY <3>1, <3>5, <3>6
  <2>2. QED
    BY <2>1 DEF SeenBounds
<1>11. NoWorkDuringPlainRequest'
  <2>1. ASSUME NEW u \in Threads, NEW s \in Schedulers, s \in held'[u], ~OwnWork(u, s)', NEW v \in Workers \ {u}
        PROVE  ~OwnWork(v, s)'
    <3>1. s \in held[u] /\ u # w
      BY <2>1, <1>1, <1>2
    <3>2. ~OwnWork(u, s)
      BY <3>1, <2>1, <1>3 DEF OthersStay, OwnWork
    <3>3. QED
      BY <3>1, <3>2, <2>1, <1>8, <1>9 DEF WqInv, NoWorkDuringPlainRequest
  <2>2. QED
    BY <2>1 DEF NoWorkDuringPlainRequest
<1>12. CountersExact'
  BY <1>1, <1>3, <1>7, CountersStayExact DEF WqInv
<1>13. (\A u \in Threads : InsideIsHome(u) /\ CallOnCourse(u))'
  BY <1>1, <1>3, <1>6, OthersKeepCourse DEF WqInv
<1>14. QED
  BY <1>4, <1>10, <1>11, <1>12, <1>13 DEF WqInv

\* A call goes on, to a rest that gives back the same: no counter and no other thread notices.
LEMMA CallGoesOn ==
  ASSUME WqInv, NEW t \in Threads, pc[t] = "call", NEW r, Rest(r, op[t]), r # <<>>, Open(r) = Open(todo[t]),
         todo' = [todo EXCEPT ![t] = r],
         UNCHANGED <<counters, pc, inside, called, op, root, held, seen>>,
         state' \in [Schedulers -> States], childLock' \in [Schedulers -> Threads \cup {NoThread}]
  PROVE  WqInv'
<1>1. OthersStay(t)
  BY DEF OthersStay, WqInv, WqTypeOK
<1>2. r \in Seq(Steps) /\ todo'[t] = r
  BY DEF Rest, WqInv, WqTypeOK
<1>3. WqTypeOK'
  BY <1>2 DEF WqInv, WqTypeOK, counters
<1>4. pc'[t] = "call" /\ op'[t] = op[t] /\ inside'[t] = inside[t] /\ held'[t] = held[t]
  OBVIOUS
<1>5. InsideIsHome(t)'
  BY <1>4 DEF WqInv, InsideIsHome
<1>6. held[t] = Open(todo[t])
  BY CallFacts DEF InCall
<1>7. held'[t] = Open(r) /\ Rest(r, op'[t])
  BY <1>4, <1>6
<1>8. Open(todo[t])' = Open(r) /\ Rest(todo[t], op[t])'
  <2>1. Open(todo[t])' = Open(r)
    BY <1>2 DEF Open, Asks, Gives
  <2>2. Rest(todo[t], op[t])'
    BY <1>2, <1>4
  <2>3. QED
    BY <2>1, <2>2
<1>9. CallOnCourse(t)'
  BY <1>2, <1>4, <1>7, <1>8 DEF CallOnCourse, InCall, Waiting
<1>10. \A s \in Schedulers : /\ Requests(t, s)' <=> Requests(t, s)
                             /\ AtWork(t, s)' <=> AtWork(t, s)
                             /\ OwnAsks(t, s)' <=> OwnAsks(t, s)
  BY <1>4 DEF Requests, AtWork, OwnAsks, Waiting
<1>11. CountersFollow(t)
  BY <1>10, CountersDontMove DEF WqInv
<1>12. QED
  BY <1>1, <1>3, <1>4, <1>5, <1>9, <1>11, QuietStepKeeps

LEMMA PlainInstructionKeeps ==
  ASSUME WqInv, NEW t \in Threads, NEW do \in {"claim", "lock", "unlock", "sweep"}, At(t, do), Done(t),
         UNCHANGED <<counters, pc, inside, called, op, root, held, seen>>,
         state' \in [Schedulers -> States], childLock' \in [Schedulers -> Threads \cup {NoThread}]
  PROVE  WqInv'
<1>1. pc[t] = "call" /\ Head(todo[t])[1] = do /\ todo' = [todo EXCEPT ![t] = Tail(todo[t])]
  BY DEF At, Done
<1>2. /\ Rest(Tail(todo[t]), op[t]) /\ Tail(todo[t]) # <<>>
      /\ Open(Tail(todo[t])) = Open(todo[t])
  BY <1>1, CallFacts DEF InCall
<1>3. QED
  BY <1>1, <1>2, CallGoesOn

LEMMA LockKeeps ==
  ASSUME WqInv, NEW t \in Threads, Lock(t) \/ Unlock(t) \/ Sweep(t)
  PROVE  WqInv'
<1>1. /\ state \in [Schedulers -> States] /\ childLock \in [Schedulers -> Threads \cup {NoThread}]
  BY DEF WqInv, WqTypeOK
<1>2. CASE Lock(t)
  <2>1. childLock' \in [Schedulers -> Threads \cup {NoThread}] /\ state' = state
    BY <1>1, <1>2 DEF Lock
  <2>2. At(t, "lock") /\ Done(t) /\ UNCHANGED <<counters, pc, inside, called, op, root, held, seen>>
    BY <1>2 DEF Lock
  <2>3. QED
    BY <1>1, <2>1, <2>2, PlainInstructionKeeps
<1>3. CASE Unlock(t)
  <2>1. childLock' \in [Schedulers -> Threads \cup {NoThread}] /\ state' = state
    BY <1>1, <1>3 DEF Unlock
  <2>2. At(t, "unlock") /\ Done(t) /\ UNCHANGED <<counters, pc, inside, called, op, root, held, seen>>
    BY <1>3 DEF Unlock
  <2>3. QED
    BY <1>1, <2>1, <2>2, PlainInstructionKeeps
<1>4. CASE Sweep(t)
  <2>1. childLock' = childLock /\ state' = state
    BY <1>4 DEF Sweep
  <2>2. At(t, "sweep") /\ Done(t) /\ UNCHANGED <<counters, pc, inside, called, op, root, held, seen>>
    BY <1>4 DEF Sweep
  <2>3. QED
    BY <1>1, <2>1, <2>2, PlainInstructionKeeps
<1>5. QED
  BY <1>2, <1>3, <1>4

LEMMA ClaimSubKeeps ==
  ASSUME WqInv, NEW t \in Threads, ClaimSub(t)
  PROVE  WqInv'
<1>1. /\ state \in [Schedulers -> States] /\ childLock \in [Schedulers -> Threads \cup {NoThread}]
      /\ todo \in [Threads -> Seq(Steps)] /\ op[t] \in Ops
  BY DEF WqInv, WqTypeOK
<1>2. At(t, "claim") /\ UNCHANGED <<counters, childLock, pc, inside, called, op, root, held, seen>>
  BY DEF ClaimSub
<1>3. pc[t] = "call" /\ Head(todo[t])[1] = "claim"
  BY <1>2 DEF At
<1>4. CASE Done(t) /\ \E y \in States : state' = [state EXCEPT ![On(t)] = y]
  <2>1. state' \in [Schedulers -> States]
    BY <1>1, <1>4
  <2>2. QED
    BY <1>1, <1>2, <1>4, <2>1, PlainInstructionKeeps
<1>5. CASE /\ state' = IF op[t] = "stop" THEN [state EXCEPT ![On(t)] = "STOPPED"] ELSE state
           /\ todo' = [todo EXCEPT ![t] = SubSeq(@, Len(SubHook(op[t])) + 1, Len(@))]
  <2> DEFINE r == SubSeq(todo[t], Len(SubHook(op[t])) + 1, Len(todo[t]))
  <2>1. todo[t] # <<>> /\ Rest(todo[t], op[t])
    BY <1>3, CallFacts DEF InCall
  <2>2. Rest(r, op[t]) /\ r # <<>> /\ Open(r) = Open(todo[t])
    BY <1>1, <1>3, <2>1, SkippedHook
  <2>3. state' \in [Schedulers -> States]
    BY <1>1, <1>5 DEF States
  <2>4. todo' = [todo EXCEPT ![t] = r]
    BY <1>5
  <2> HIDE DEF r
  <2>5. QED
    BY <1>1, <1>2, <1>3, <2>2, <2>3, <2>4, CallGoesOn
<1>6. QED
  BY <1>4, <1>5 DEF ClaimSub

LEMMA CallKeeps ==
  ASSUME WqInv, NEW t \in Threads, NEW o \in Ops, NEW z \in Schedulers, Call(t, o, z)
  PROVE  WqInv'
<1>1. /\ pc[t] \in {"out", "working"} /\ held' = held /\ inside' = inside /\ seen' = seen
      /\ UNCHANGED counters /\ childLock' = childLock
  BY DEF Call
<1>2. /\ pc' = [pc EXCEPT ![t] = "call"] /\ op' = [op EXCEPT ![t] = o] /\ root' = [root EXCEPT ![t] = z]
      /\ todo' = [todo EXCEPT ![t] = Program(o, z)] /\ called' = [called EXCEPT ![t] = inside[t]]
      /\ \E y \in States : state' = [state EXCEPT ![z] = y]
  BY DEF Call, Goto
<1>3. Rest(Program(o, z), o) /\ Open(Program(o, z)) = {} /\ Program(o, z) # <<>> /\ Program(o, z) \in Seq(Steps)
  BY ProgramsAreWhole DEF Rest
<1>4. OthersStay(t)
  BY <1>1, <1>2 DEF OthersStay, WqInv, WqTypeOK
<1>5. WqTypeOK'
  BY <1>1, <1>2, <1>3 DEF WqInv, WqTypeOK, counters, Labels
<1>6. pc'[t] = "call" /\ op'[t] = o /\ todo'[t] = Program(o, z) /\ inside'[t] = inside[t]
  BY <1>1, <1>2 DEF WqInv, WqTypeOK
<1>7. held[t] = {} /\ held'[t] = {}
  BY <1>1 DEF WqInv, CallOnCourse, InCall, Waiting
<1>8. InsideIsHome(t)'
  BY <1>1, <1>6 DEF WqInv, InsideIsHome, InCall
<1>9. CallOnCourse(t)'
  BY <1>3, <1>6, <1>7 DEF CallOnCourse, InCall, Waiting
<1>10. \A s \in Schedulers : /\ Requests(t, s)' <=> Requests(t, s)
                             /\ AtWork(t, s)' <=> AtWork(t, s)
                             /\ OwnAsks(t, s)' <=> OwnAsks(t, s)
  BY <1>1, <1>6, <1>7 DEF Requests, AtWork, OwnAsks, Waiting
<1>11. CountersFollow(t)
  BY <1>1, <1>10, CountersDontMove DEF WqInv
<1>12. QED
  BY <1>4, <1>5, <1>6, <1>7, <1>8, <1>9, <1>11, QuietStepKeeps

\* What a step of awaitWorkQuiescence() leaves alone.
LEMMA WaitingStaysOnCourse ==
  ASSUME WqInv, NEW t \in Threads, pc[t] \in InCall, Head(todo[t])[1] = "request",
         NEW l \in {"add", "load", "compare"}, pc[t] # "uncount", pc' = [pc EXCEPT ![t] = l],
         UNCHANGED <<state, childLock, inside, called, op, root, todo, held>>,
         \A u \in Threads \ {t} : seen'[u] = seen[u], seen' \in [Threads -> Int],
         nRequests' \in [Schedulers -> Int], nInWork' \in [Schedulers -> Int], nOwnRequests' \in [Schedulers -> Int]
  PROVE  OthersStay(t) /\ WqTypeOK' /\ InsideIsHome(t)' /\ CallOnCourse(t)' /\ pc'[t] = l /\ On(t)' = On(t)
<1>1. OthersStay(t)
  BY DEF OthersStay, WqInv, WqTypeOK
<1>2. WqTypeOK'
  BY DEF WqInv, WqTypeOK, Labels
<1>3. pc'[t] = l /\ On(t)' = On(t) /\ todo'[t] = todo[t] /\ op'[t] = op[t] /\ held'[t] = held[t] /\ inside'[t] = inside[t]
  BY DEF WqInv, WqTypeOK, On
<1>4. InsideIsHome(t)'
  BY <1>3 DEF WqInv, InsideIsHome, InCall, Waiting
<1>5. todo[t] # <<>> /\ Rest(todo[t], op[t]) /\ held[t] = Open(todo[t])
  BY CallFacts
<1>6. CallOnCourse(t)'
  BY <1>3, <1>5 DEF CallOnCourse, InCall, Waiting
<1>7. QED
  BY <1>1, <1>2, <1>3, <1>4, <1>6

LEMMA CountKeeps ==
  ASSUME WqInv, NEW t \in Threads, Count(t)
  PROVE  WqInv'
<1>1. /\ pc[t] = "call" /\ Head(todo[t])[1] = "request" /\ pc' = [pc EXCEPT ![t] = "add"]
      /\ UNCHANGED <<state, nRequests, nInWork, childLock, inside, called, op, root, todo, held, seen>>
      /\ nOwnRequests' = IF FromOwnWork(t) THEN [nOwnRequests EXCEPT ![On(t)] = @ + 1] ELSE nOwnRequests
  BY DEF Count, At, Goto, control
<1>2. /\ On(t) \in Schedulers /\ nRequests \in [Schedulers -> Int] /\ nInWork \in [Schedulers -> Int]
      /\ nOwnRequests \in [Schedulers -> Int] /\ seen \in [Threads -> Int]
  BY <1>1, CallFacts DEF InCall, WqInv, WqTypeOK
<1>3. nOwnRequests' \in [Schedulers -> Int]
  BY <1>1, <1>2
<1>4. OthersStay(t) /\ WqTypeOK' /\ InsideIsHome(t)' /\ CallOnCourse(t)' /\ pc'[t] = "add" /\ On(t)' = On(t)
  BY <1>1, <1>2, <1>3, WaitingStaysOnCourse DEF InCall
<1>5. CountersFollow(t)
  <2>1. FromOwnWork(t)' <=> FromOwnWork(t)
    BY <1>1, <1>4 DEF FromOwnWork, OwnWork
  <2>2. ASSUME NEW s \in Schedulers
        PROVE  /\ Requests(t, s)' <=> Requests(t, s)
               /\ AtWork(t, s)' <=> AtWork(t, s)
               /\ ~OwnAsks(t, s) /\ (OwnAsks(t, s)' <=> On(t) = s /\ FromOwnWork(t))
    BY <1>1, <1>4, <2>1 DEF Requests, AtWork, OwnAsks, Waiting
  <2>3. ASSUME NEW s \in Schedulers
        PROVE  nOwnRequests'[s] = nOwnRequests[s] + Bit(OwnAsks(t, s)') - Bit(OwnAsks(t, s))
    BY <1>1, <1>2, <2>2 DEF Bit
  <2>4. ASSUME NEW s \in Schedulers
        PROVE  /\ nRequests'[s] = nRequests[s] + Bit(Requests(t, s)') - Bit(Requests(t, s))
               /\ nInWork'[s] = nInWork[s] + Bit(AtWork(t, s)') - Bit(AtWork(t, s))
    BY <1>1, <1>2, <2>2 DEF Bit
  <2>5. QED
    BY <2>3, <2>4 DEF CountersFollow
<1>6. inside'[t] = inside[t] /\ held'[t] \subseteq held[t] /\ pc'[t] # "compare"
  BY <1>1, <1>4
<1>7. QED
  BY <1>4, <1>5, <1>6, QuietStepKeeps

LEMMA AddKeeps ==
  ASSUME WqInv, NEW t \in Threads, Add(t)
  PROVE  WqInv'
<1>1. /\ pc[t] = "add" /\ pc' = [pc EXCEPT ![t] = "load"] /\ nRequests' = [nRequests EXCEPT ![On(t)] = @ + 1]
      /\ UNCHANGED <<state, nInWork, nOwnRequests, childLock, inside, called, op, root, todo, held, seen>>
  BY DEF Add, Goto, control
<1>2. /\ On(t) \in Schedulers /\ nRequests \in [Schedulers -> Int] /\ nInWork \in [Schedulers -> Int]
      /\ nOwnRequests \in [Schedulers -> Int] /\ seen \in [Threads -> Int]
  BY <1>1, CallFacts DEF InCall, Waiting, WqInv, WqTypeOK
<1>3. Head(todo[t])[1] = "request"
  BY <1>1 DEF WqInv, CallOnCourse, Waiting
<1>4. On(t) \notin held[t]
  BY <1>1, <1>3, CallFacts DEF InCall, Waiting
<1>5. nRequests' \in [Schedulers -> Int]
  BY <1>1, <1>2
<1>6. OthersStay(t) /\ WqTypeOK' /\ InsideIsHome(t)' /\ CallOnCourse(t)' /\ pc'[t] = "load" /\ On(t)' = On(t)
  BY <1>1, <1>2, <1>3, <1>5, WaitingStaysOnCourse DEF InCall, Waiting
<1>7. CountersFollow(t)
  <2>1. FromOwnWork(t)' <=> FromOwnWork(t)
    BY <1>1, <1>6 DEF FromOwnWork, OwnWork
  <2>2. ASSUME NEW s \in Schedulers
        PROVE  /\ s = On(t) => ~Requests(t, s) /\ Requests(t, s)'
               /\ s # On(t) => (Requests(t, s)' <=> Requests(t, s))
               /\ AtWork(t, s)' <=> AtWork(t, s)
               /\ OwnAsks(t, s)' <=> OwnAsks(t, s)
    BY <1>1, <1>4, <1>6, <2>1 DEF Requests, AtWork, OwnAsks, Waiting
  <2>3. ASSUME NEW s \in Schedulers
        PROVE  nRequests'[s] = nRequests[s] + Bit(Requests(t, s)') - Bit(Requests(t, s))
    <3>1. CASE s = On(t)
      BY <3>1, <1>1, <1>2, <2>2 DEF Bit
    <3>2. CASE s # On(t)
      BY <3>2, <1>1, <1>2, <2>2 DEF Bit
    <3>3. QED
      BY <3>1, <3>2
  <2>4. ASSUME NEW s \in Schedulers
        PROVE  /\ nInWork'[s] = nInWork[s] + Bit(AtWork(t, s)') - Bit(AtWork(t, s))
               /\ nOwnRequests'[s] = nOwnRequests[s] + Bit(OwnAsks(t, s)') - Bit(OwnAsks(t, s))
    BY <1>1, <1>2, <2>2 DEF Bit
  <2>5. QED
    BY <2>3, <2>4 DEF CountersFollow
<1>8. inside'[t] = inside[t] /\ held'[t] \subseteq held[t] /\ pc'[t] # "compare"
  BY <1>1, <1>6
<1>9. QED
  BY <1>6, <1>7, <1>8, QuietStepKeeps

LEMMA LoadKeeps ==
  ASSUME WqInv, NEW t \in Threads, Load(t)
  PROVE  WqInv'
<1>1. /\ pc[t] = "load" /\ pc' = [pc EXCEPT ![t] = "compare"] /\ seen' = [seen EXCEPT ![t] = nInWork[On(t)]]
      /\ UNCHANGED <<state, counters, childLock, inside, called, op, root, todo, held>>
  BY DEF Load, Goto
<1>2. /\ On(t) \in Schedulers /\ nRequests \in [Schedulers -> Int] /\ nInWork \in [Schedulers -> Int]
      /\ nOwnRequests \in [Schedulers -> Int] /\ seen \in [Threads -> Int]
  BY <1>1, CallFacts DEF InCall, Waiting, WqInv, WqTypeOK
<1>3. Head(todo[t])[1] = "request"
  BY <1>1 DEF WqInv, CallOnCourse, Waiting
<1>4. /\ seen' \in [Threads -> Int] /\ seen'[t] = nInWork[On(t)] /\ \A u \in Threads \ {t} : seen'[u] = seen[u]
      /\ nRequests' = nRequests /\ nInWork' = nInWork /\ nOwnRequests' = nOwnRequests
  BY <1>1, <1>2 DEF counters
<1>5. OthersStay(t) /\ WqTypeOK' /\ InsideIsHome(t)' /\ CallOnCourse(t)' /\ pc'[t] = "compare" /\ On(t)' = On(t)
  BY <1>1, <1>2, <1>3, <1>4, WaitingStaysOnCourse DEF InCall, Waiting
<1>6. CountersFollow(t)
  <2>1. FromOwnWork(t)' <=> FromOwnWork(t)
    BY <1>1, <1>5 DEF FromOwnWork, OwnWork
  <2>2. ASSUME NEW s \in Schedulers
        PROVE  /\ Requests(t, s)' <=> Requests(t, s)
               /\ AtWork(t, s)' <=> AtWork(t, s)
               /\ OwnAsks(t, s)' <=> OwnAsks(t, s)
    BY <1>1, <1>5, <2>1 DEF Requests, AtWork, OwnAsks, Waiting
  <2>3. QED
    BY <1>1, <2>2, CountersDontMove DEF WqInv
<1>7. \A u \in Threads, s \in Schedulers : OwnWork(u, s)' <=> OwnWork(u, s)
  BY <1>1 DEF OwnWork
<1>8. Workers \subseteq Threads
  BY DEF Threads
<1>9. SeenBounds'
  <2>1. ASSUME NEW u \in Threads, pc'[u] = "compare", u # t PROVE Cardinality(Inside(On(u)))' <= seen'[u]
    <3>1. pc[u] = "compare" /\ On(u)' = On(u) /\ seen'[u] = seen[u]
      BY <2>1, <1>5 DEF OthersStay, On
    <3>2. Inside(On(u))' = Inside(On(u))
      BY <3>1, <1>1 DEF Inside, OwnWork
    <3>3. QED
      BY <3>1, <3>2 DEF WqInv, SeenBounds
  <2>2. Cardinality(Inside(On(t)))' <= seen'[t]
    <3> DEFINE S == {u \in Threads : AtWork(u, On(t))}
    <3>1. Inside(On(t)) \subseteq S /\ S \subseteq Threads
      BY <1>2, <1>8 DEF Inside, AtWork, OwnWork
    <3>2. nInWork[On(t)] = Cardinality(S)
      BY <1>2 DEF WqInv, CountersExact
    <3> HIDE DEF S
    <3>3. Cardinality(Inside(On(t))) <= Cardinality(S)
      BY <3>1, ConfigAssumption, FS_Subset
    <3>4. Inside(On(t))' = Inside(On(t))
      BY <1>1, <1>5 DEF Inside, OwnWork
    <3>5. QED
      BY <3>2, <3>3, <3>4, <1>4
  <2>3. QED
    BY <2>1, <2>2 DEF SeenBounds
<1>10. NoWorkDuringPlainRequest'
  BY <1>1, <1>5, NobodyGetsIn DEF WqInv
<1>11. CountersExact'
  BY <1>5, <1>6, CountersStayExact DEF WqInv
<1>12. (\A u \in Threads : InsideIsHome(u) /\ CallOnCourse(u))'
  BY <1>5, OthersKeepCourse DEF WqInv
<1>13. QED
  BY <1>5, <1>9, <1>10, <1>11, <1>12 DEF WqInv

\* Whoever is inside work() when a request is granted is in a request of its own.
LEMMA GrantedAlone ==
  ASSUME WqInv, NEW t \in Threads, Granted(t)
  PROVE  \A w \in Workers : OwnWork(w, On(t)) => FromOwnWork(t) /\ OwnAsks(w, On(t))
<1> DEFINE s == On(t)
           S == Inside(s)
           A == {u \in Threads : OwnAsks(u, s)}
<1>1. pc[t] = "compare" /\ s \in Schedulers /\ seen[t] \in Int
  BY CallFacts DEF Granted, InCall, Waiting, WqInv, WqTypeOK
<1>2. Workers \subseteq Threads
  BY DEF Threads
<1>3. Cardinality(S) <= seen[t] /\ IsFiniteSet(S) /\ Cardinality(S) \in Nat
  BY <1>1, InsideIsFinite DEF WqInv, SeenBounds
<1>4. A \subseteq S
  <2>1. ASSUME NEW u \in Threads, OwnAsks(u, s) PROVE u \in Workers /\ OwnWork(u, s)
    BY <2>1 DEF OwnAsks, FromOwnWork, OwnWork, WqInv, InsideIsHome
  <2>2. QED
    BY <2>1 DEF Inside
<1>5. nOwnRequests[s] = Cardinality(A)
  BY <1>1 DEF WqInv, CountersExact
<1> HIDE DEF s, S, A
<1>6. CASE FromOwnWork(t)
  <2>1. seen[t] <= Cardinality(A)
    BY <1>5, <1>6 DEF Granted, nCallsAllowed, s
  <2>2. Cardinality(A) <= Cardinality(S) /\ (Cardinality(S) = Cardinality(A) => S = A) /\ Cardinality(A) \in Nat
    BY <1>3, <1>4, FS_Subset, FS_CardinalityType
  <2>3. S = A
    BY <2>1, <2>2, <1>1, <1>3
  <2>4. QED
    BY <2>3, <1>6, <1>2 DEF S, A, s, Inside
<1>7. CASE ~FromOwnWork(t)
  <2>1. seen[t] <= 0
    BY <1>7 DEF Granted, nCallsAllowed
  <2>2. S = {}
    BY <2>1, <1>1, <1>3, FS_EmptySet
  <2>3. QED
    BY <2>2 DEF S, s, Inside
<1>8. QED
  BY <1>6, <1>7

LEMMA CompareKeeps ==
  ASSUME WqInv, NEW t \in Threads, Compare(t)
  PROVE  WqInv'
<1>1. /\ pc[t] = "compare" /\ seen' = [seen EXCEPT ![t] = 0]
      /\ UNCHANGED <<state, nRequests, nInWork, nOwnRequests, childLock, inside, called, op, root, todo>>
  BY DEF Compare, counters
<1>2. /\ On(t) \in Schedulers /\ nRequests \in [Schedulers -> Int] /\ nInWork \in [Schedulers -> Int]
      /\ nOwnRequests \in [Schedulers -> Int] /\ seen \in [Threads -> Int]
  BY <1>1, CallFacts DEF InCall, Waiting, WqInv, WqTypeOK
<1>3. Head(todo[t])[1] = "request"
  BY <1>1 DEF WqInv, CallOnCourse, Waiting
<1>4. seen' \in [Threads -> Int] /\ \A u \in Threads \ {t} : seen'[u] = seen[u]
  BY <1>1, <1>2
<1>5. CASE Granted(t)
  <2>1. pc' = [pc EXCEPT ![t] = "uncount"] /\ held' = [held EXCEPT ![t] = held[t] \cup {On(t)}]
    BY <1>5 DEF Compare, Goto
  <2>2. OthersStay(t)
    BY <1>1, <1>4, <2>1 DEF OthersStay, WqInv, WqTypeOK
  <2>3. WqTypeOK'
    BY <1>1, <1>2, <1>4, <2>1 DEF WqInv, WqTypeOK, Labels
  <2>4. /\ pc'[t] = "uncount" /\ held'[t] = held[t] \cup {On(t)} /\ On(t)' = On(t)
        /\ todo'[t] = todo[t] /\ op'[t] = op[t] /\ inside'[t] = inside[t]
    BY <1>1, <2>1 DEF On, WqInv, WqTypeOK
  <2>5. todo[t] # <<>> /\ Rest(todo[t], op[t]) /\ held[t] = Open(todo[t])
    BY <1>1, CallFacts DEF InCall, Waiting
  <2>6. InsideIsHome(t)' /\ CallOnCourse(t)'
    <3>1. InsideIsHome(t)'
      BY <1>1, <2>4 DEF WqInv, InsideIsHome, InCall, Waiting
    <3>2. CallOnCourse(t)'
      BY <1>3, <2>4, <2>5 DEF CallOnCourse, InCall, Waiting
    <3>3. QED
      BY <3>1, <3>2
  <2>7. CountersFollow(t)
    <3>1. FromOwnWork(t)' <=> FromOwnWork(t)
      BY <1>1, <2>4 DEF FromOwnWork, OwnWork
    <3>2. ASSUME NEW s \in Schedulers
          PROVE  /\ Requests(t, s)' <=> Requests(t, s)
                 /\ AtWork(t, s)' <=> AtWork(t, s)
                 /\ OwnAsks(t, s)' <=> OwnAsks(t, s)
      BY <1>1, <2>4, <3>1 DEF Requests, AtWork, OwnAsks, Waiting
    <3>3. QED
      BY <1>1, <3>2, CountersDontMove DEF WqInv, counters
  <2>8. SeenBounds'
    BY <2>2, <2>4, BoundsStay DEF WqInv
  <2>9. NoWorkDuringPlainRequest'
    <3>1. ASSUME NEW u \in Threads, NEW s \in Schedulers, s \in held'[u], ~OwnWork(u, s)', NEW w \in Workers \ {u}
          PROVE  ~OwnWork(w, s)'
      <4>1. ~OwnWork(u, s) /\ (OwnWork(w, s)' <=> OwnWork(w, s))
        BY <3>1, <1>1 DEF OwnWork
      <4>2. CASE s \in held[u]
        BY <4>1, <4>2, <3>1 DEF WqInv, NoWorkDuringPlainRequest
      <4>3. CASE s \notin held[u]
        <5>1. u = t /\ s = On(t)
          BY <4>3, <3>1, <2>1 DEF WqInv, WqTypeOK
        <5>2. ~FromOwnWork(t)
          BY <5>1, <4>1 DEF FromOwnWork
        <5>3. QED
          BY <5>1, <5>2, <4>1, <1>5, GrantedAlone
      <4>4. QED
        BY <4>2, <4>3
    <3>2. QED
      BY <3>1 DEF NoWorkDuringPlainRequest
  <2>10. CountersExact'
    BY <2>2, <2>7, CountersStayExact DEF WqInv
  <2>11. (\A u \in Threads : InsideIsHome(u) /\ CallOnCourse(u))'
    BY <2>2, <2>6, OthersKeepCourse DEF WqInv
  <2>12. QED
    BY <2>3, <2>8, <2>9, <2>10, <2>11 DEF WqInv
<1>6. CASE ~Granted(t)
  <2>1. pc' = [pc EXCEPT ![t] = "load"] /\ held' = held
    BY <1>6 DEF Compare, Goto
  <2>2. OthersStay(t) /\ WqTypeOK' /\ InsideIsHome(t)' /\ CallOnCourse(t)' /\ pc'[t] = "load" /\ On(t)' = On(t)
    BY <1>1, <1>2, <1>3, <1>4, <2>1, WaitingStaysOnCourse DEF InCall, Waiting
  <2>3. CountersFollow(t)
    <3>1. FromOwnWork(t)' <=> FromOwnWork(t)
      BY <1>1, <2>2 DEF FromOwnWork, OwnWork
    <3>2. ASSUME NEW s \in Schedulers
          PROVE  /\ Requests(t, s)' <=> Requests(t, s)
                 /\ AtWork(t, s)' <=> AtWork(t, s)
                 /\ OwnAsks(t, s)' <=> OwnAsks(t, s)
      BY <1>1, <2>1, <2>2, <3>1 DEF Requests, AtWork, OwnAsks, Waiting
    <3>3. QED
      BY <1>1, <3>2, CountersDontMove DEF WqInv, counters
  <2>4. inside'[t] = inside[t] /\ held'[t] \subseteq held[t] /\ pc'[t] # "compare"
    BY <1>1, <2>1, <2>2
  <2>5. QED
    BY <2>2, <2>3, <2>4, QuietStepKeeps
<1>7. QED
  BY <1>5, <1>6

LEMMA UncountKeeps ==
  ASSUME WqInv, NEW t \in Threads, Uncount(t)
  PROVE  WqInv'
<1>1. /\ pc[t] = "uncount" /\ pc' = [pc EXCEPT ![t] = "call"] /\ todo' = [todo EXCEPT ![t] = Tail(todo[t])]
      /\ UNCHANGED <<state, nRequests, nInWork, childLock, inside, called, op, root, held, seen>>
      /\ nOwnRequests' = IF FromOwnWork(t) THEN [nOwnRequests EXCEPT ![On(t)] = @ - 1] ELSE nOwnRequests
  BY DEF Uncount, Done, Goto
<1>2. /\ On(t) \in Schedulers /\ nRequests \in [Schedulers -> Int] /\ nInWork \in [Schedulers -> Int]
      /\ nOwnRequests \in [Schedulers -> Int]
  BY <1>1, CallFacts DEF InCall, Waiting, WqInv, WqTypeOK
<1>3. Head(todo[t])[1] = "request"
  BY <1>1 DEF WqInv, CallOnCourse, Waiting
<1>4. /\ Tail(todo[t]) # <<>> /\ Tail(todo[t]) \in Seq(Steps) /\ Rest(Tail(todo[t]), op[t])
      /\ held[t] = Open(Tail(todo[t]))
  BY <1>1, <1>3, CallFacts DEF InCall, Waiting
<1>5. OthersStay(t)
  BY <1>1 DEF OthersStay, WqInv, WqTypeOK
<1>6. nOwnRequests' \in [Schedulers -> Int]
  BY <1>1, <1>2
<1>7. WqTypeOK'
  BY <1>1, <1>4, <1>6 DEF WqInv, WqTypeOK, Labels
<1>8. /\ pc'[t] = "call" /\ held'[t] = held[t] /\ todo'[t] = Tail(todo[t]) /\ op'[t] = op[t] /\ inside'[t] = inside[t]
  BY <1>1 DEF WqInv, WqTypeOK
<1>9. InsideIsHome(t)'
  BY <1>1, <1>8 DEF WqInv, InsideIsHome, InCall, Waiting
<1>10. CallOnCourse(t)'
  BY <1>4, <1>8 DEF CallOnCourse, InCall, Waiting
<1>11. CountersFollow(t)
  <2>1. ASSUME NEW s \in Schedulers
        PROVE  /\ Requests(t, s)' <=> Requests(t, s)
               /\ AtWork(t, s)' <=> AtWork(t, s)
               /\ ~OwnAsks(t, s)' /\ (OwnAsks(t, s) <=> On(t) = s /\ FromOwnWork(t))
    BY <1>1, <1>8 DEF Requests, AtWork, OwnAsks, Waiting
  <2>2. ASSUME NEW s \in Schedulers
        PROVE  nOwnRequests'[s] = nOwnRequests[s] + Bit(OwnAsks(t, s)') - Bit(OwnAsks(t, s))
    <3>1. CASE On(t) = s /\ FromOwnWork(t)
      BY <3>1, <1>1, <1>2, <2>1 DEF Bit
    <3>2. CASE ~(On(t) = s /\ FromOwnWork(t))
      BY <3>2, <1>1, <1>2, <2>1 DEF Bit
    <3>3. QED
      BY <3>1, <3>2
  <2>3. ASSUME NEW s \in Schedulers
        PROVE  /\ nRequests'[s] = nRequests[s] + Bit(Requests(t, s)') - Bit(Requests(t, s))
               /\ nInWork'[s] = nInWork[s] + Bit(AtWork(t, s)') - Bit(AtWork(t, s))
    <3>1. nRequests'[s] = nRequests[s] /\ nInWork'[s] = nInWork[s] /\ nRequests[s] \in Int /\ nInWork[s] \in Int
      BY <1>1, <1>2
    <3>2. Bit(Requests(t, s)') = Bit(Requests(t, s)) /\ Bit(AtWork(t, s)') = Bit(AtWork(t, s))
      BY <2>1 DEF Bit
    <3>3. Bit(Requests(t, s)) \in Int /\ Bit(AtWork(t, s)) \in Int
      BY DEF Bit
    <3>4. QED
      BY <3>1, <3>2, <3>3
  <2>4. QED
    BY <2>2, <2>3 DEF CountersFollow
<1>12. QED
  BY <1>5, <1>7, <1>8, <1>9, <1>10, <1>11, QuietStepKeeps

LEMMA ReleaseKeeps ==
  ASSUME WqInv, NEW t \in Threads, Release(t)
  PROVE  WqInv'
<1>1. /\ pc[t] = "call" /\ Head(todo[t])[1] = "release" /\ todo' = [todo EXCEPT ![t] = Tail(todo[t])]
      /\ nRequests' = [nRequests EXCEPT ![On(t)] = @ - 1] /\ held' = [held EXCEPT ![t] = held[t] \ {On(t)}]
      /\ UNCHANGED <<state, nInWork, nOwnRequests, childLock, pc, inside, called, op, root, seen>>
  BY DEF Release, At, Done
<1>2. /\ On(t) \in Schedulers /\ nRequests \in [Schedulers -> Int] /\ nInWork \in [Schedulers -> Int]
      /\ nOwnRequests \in [Schedulers -> Int]
  BY <1>1, CallFacts DEF InCall, WqInv, WqTypeOK
<1>3. /\ Tail(todo[t]) # <<>> /\ Tail(todo[t]) \in Seq(Steps) /\ Rest(Tail(todo[t]), op[t])
      /\ On(t) \in held[t] /\ Open(Tail(todo[t])) = held[t] \ {On(t)}
  BY <1>1, CallFacts DEF InCall
<1>4. OthersStay(t)
  BY <1>1 DEF OthersStay, WqInv, WqTypeOK
<1>5. WqTypeOK'
  <2>1. nRequests' \in [Schedulers -> Int]
    BY <1>1, <1>2
  <2>2. held' \in [Threads -> SUBSET Schedulers]
    BY <1>1 DEF WqInv, WqTypeOK
  <2>3. todo' \in [Threads -> Seq(Steps)]
    BY <1>1, <1>3 DEF WqInv, WqTypeOK
  <2>4. QED
    BY <1>1, <2>1, <2>2, <2>3 DEF WqInv, WqTypeOK
<1>6. /\ pc'[t] = "call" /\ held'[t] = held[t] \ {On(t)} /\ todo'[t] = Tail(todo[t]) /\ op'[t] = op[t]
      /\ inside'[t] = inside[t]
  BY <1>1 DEF WqInv, WqTypeOK
<1>7. InsideIsHome(t)'
  BY <1>1, <1>6 DEF WqInv, InsideIsHome, InCall, Waiting
<1>8. CallOnCourse(t)'
  BY <1>3, <1>6 DEF CallOnCourse, InCall, Waiting
<1>9. CountersFollow(t)
  <2>1. ASSUME NEW s \in Schedulers
        PROVE  /\ s = On(t) => Requests(t, s) /\ ~Requests(t, s)'
               /\ s # On(t) => (Requests(t, s)' <=> Requests(t, s))
               /\ AtWork(t, s)' <=> AtWork(t, s)
               /\ ~OwnAsks(t, s)' /\ ~OwnAsks(t, s)
    BY <1>1, <1>3, <1>6 DEF Requests, AtWork, OwnAsks, Waiting
  <2>2. ASSUME NEW s \in Schedulers
        PROVE  nRequests'[s] = nRequests[s] + Bit(Requests(t, s)') - Bit(Requests(t, s))
    <3>1. CASE s = On(t)
      BY <3>1, <1>1, <1>2, <2>1 DEF Bit
    <3>2. CASE s # On(t)
      BY <3>2, <1>1, <1>2, <2>1 DEF Bit
    <3>3. QED
      BY <3>1, <3>2
  <2>3. ASSUME NEW s \in Schedulers
        PROVE  /\ nInWork'[s] = nInWork[s] + Bit(AtWork(t, s)') - Bit(AtWork(t, s))
               /\ nOwnRequests'[s] = nOwnRequests[s] + Bit(OwnAsks(t, s)') - Bit(OwnAsks(t, s))
    BY SMTT(30), <1>1, <1>2, <2>1 DEF Bit
  <2>4. QED
    BY <2>2, <2>3 DEF CountersFollow
<1>10. held'[t] \subseteq held[t] /\ pc'[t] # "compare"
  BY <1>6
<1>11. QED
  BY <1>4, <1>5, <1>6, <1>7, <1>8, <1>9, <1>10, QuietStepKeeps

LEMMA SettleKeeps ==
  ASSUME WqInv, NEW t \in Threads, Settle(t)
  PROVE  WqInv'
<1>1. /\ pc[t] = "call" /\ Head(todo[t])[1] = "settle" /\ todo' = [todo EXCEPT ![t] = Tail(todo[t])]
      /\ state' = [state EXCEPT ![On(t)] = Settled(op[t], @)]
      /\ UNCHANGED <<counters, childLock, inside, called, held, seen>>
  BY DEF Settle, At, Done
<1>2. On(t) \in Schedulers /\ state \in [Schedulers -> States] /\ op[t] \in Ops /\ todo \in [Threads -> Seq(Steps)]
  BY <1>1, CallFacts DEF InCall, WqInv, WqTypeOK
<1>3. /\ Tail(todo[t]) \in Seq(Steps) /\ Rest(Tail(todo[t]), op[t])
      /\ held[t] = Open(todo[t]) /\ Open(Tail(todo[t])) = Open(todo[t])
  BY <1>1, CallFacts DEF InCall
<1>4. state' \in [Schedulers -> States]
  <2>1. Settled(op[t], state[On(t)]) \in States
    BY <1>2 DEF Settled, States
  <2>2. QED
    BY <2>1, <1>1, <1>2
<1>5. todo'[t] = Tail(todo[t])
  BY <1>1, <1>2
<1>6. CASE Tail(todo[t]) # <<>>
  <2>1. UNCHANGED <<pc, op, root>>
    BY <1>5, <1>6 DEF Settle
  <2>2. childLock' \in [Schedulers -> Threads \cup {NoThread}]
    BY <1>1 DEF WqInv, WqTypeOK
  <2>3. QED
    BY <1>1, <1>3, <1>4, <1>6, <2>1, <2>2, CallGoesOn
<1>7. CASE Tail(todo[t]) = <<>>
  <2>1. PICK l \in {"working", "out"} : pc' = [pc EXCEPT ![t] = l] /\ (l = "working" <=> inside[t])
    BY <1>5, <1>7 DEF Settle, Goto
  <2>2. op' = [op EXCEPT ![t] = "edit"] /\ root' = [root EXCEPT ![t] = AnyScheduler]
    BY <1>5, <1>7 DEF Settle
  <2>3. OthersStay(t)
    BY <1>1, <2>1, <2>2 DEF OthersStay, WqInv, WqTypeOK
  <2>4. AnyScheduler \in Schedulers
    BY ConfigAssumption DEF AnyScheduler
  <2>5. WqTypeOK'
    BY <1>1, <1>3, <1>4, <2>1, <2>2, <2>4 DEF WqInv, WqTypeOK, counters, Labels, Ops
  <2>6. Open(Tail(todo[t])) = {}
    BY <1>7 DEF Open
  <2>7. pc'[t] = l /\ held'[t] = {} /\ held[t] = {} /\ todo'[t] = <<>> /\ inside'[t] = inside[t]
    BY <1>1, <1>3, <1>5, <1>7, <2>1, <2>6 DEF WqInv, WqTypeOK
  <2>8. InsideIsHome(t)'
    BY <1>1, <2>1, <2>7 DEF WqInv, InsideIsHome
  <2>9. CallOnCourse(t)'
    BY <2>7 DEF CallOnCourse, InCall, Waiting
  <2>10. ASSUME NEW s \in Schedulers
         PROVE  /\ Requests(t, s)' <=> Requests(t, s)
                /\ AtWork(t, s)' <=> AtWork(t, s)
                /\ OwnAsks(t, s)' <=> OwnAsks(t, s)
    BY <1>1, <2>1, <2>7 DEF Requests, AtWork, OwnAsks, Waiting
  <2>11. CountersFollow(t)
    BY <1>1, <2>10, CountersDontMove DEF WqInv
  <2>12. pc'[t] # "compare"
    BY <2>7
  <2>13. QED
    BY <2>3, <2>5, <2>7, <2>8, <2>9, <2>11, <2>12, QuietStepKeeps
<1>8. QED
  BY <1>6, <1>7

-----------------------------------------------------------------------------
LEMMA WqInit ==
  ASSUME Init
  PROVE  WqInv
<1>1. AnyScheduler \in Schedulers
  BY ConfigAssumption DEF AnyScheduler
<1>2. /\ pc = [t \in Threads |-> "out"] /\ inside = [t \in Threads |-> FALSE] /\ held = [t \in Threads |-> {}]
      /\ todo = [t \in Threads |-> <<>>]
  BY DEF Init
<1>3. WqTypeOK
  BY <1>1 DEF Init, WqTypeOK, States, Labels, Ops
<1>4. \A t \in Threads : InsideIsHome(t) /\ CallOnCourse(t)
  BY <1>2 DEF InsideIsHome, CallOnCourse, InCall, Waiting
<1>5. CountersExact
  <2>1. \A t \in Threads, s \in Schedulers : ~Requests(t, s) /\ ~AtWork(t, s) /\ ~OwnAsks(t, s)
    BY <1>2 DEF Requests, AtWork, OwnAsks, Waiting
  <2>2. ASSUME NEW s \in Schedulers
        PROVE  /\ {t \in Threads : Requests(t, s)} = {} /\ {t \in Threads : AtWork(t, s)} = {}
               /\ {t \in Threads : OwnAsks(t, s)} = {}
    BY <2>1
  <2>3. \A s \in Schedulers : nRequests[s] = 0 /\ nInWork[s] = 0 /\ nOwnRequests[s] = 0
    BY DEF Init
  <2>4. QED
    BY <2>2, <2>3, FS_EmptySet DEF CountersExact
<1>6. SeenBounds /\ NoWorkDuringPlainRequest
  BY <1>2 DEF SeenBounds, NoWorkDuringPlainRequest
<1>7. QED
  BY <1>3, <1>4, <1>5, <1>6 DEF WqInv

LEMMA WqStep ==
  ASSUME WqInv, [Next]_vars
  PROVE  WqInv'
<1>1. ASSUME NEW w \in Workers, WorkerStep(w) PROVE WqInv'
  BY <1>1, ReadStateKeeps, GateKeeps, EnterKeeps, RecheckKeeps, EndWorkKeeps, LeaveKeeps DEF WorkerStep
<1>2. ASSUME NEW t \in Threads, CallStep(t) PROVE WqInv'
  BY <1>2, ClaimSubKeeps, LockKeeps, CountKeeps, AddKeeps, LoadKeeps, CompareKeeps, UncountKeeps, ReleaseKeeps,
     SettleKeeps DEF CallStep
<1>3. ASSUME NEW t \in Threads, NEW o \in Ops, NEW s \in Schedulers, Call(t, o, s) PROVE WqInv'
  BY <1>3, CallKeeps
<1>4. CASE UNCHANGED vars
  <2>1. WqTypeOK'
    BY <1>4 DEF vars, counters, WqInv, WqTypeOK
  <2>2. (\A t \in Threads : InsideIsHome(t) /\ CallOnCourse(t))'
    BY <1>4 DEF vars, WqInv, InsideIsHome, CallOnCourse, On
  <2>3. CountersExact'
    BY <1>4 DEF vars, counters, WqInv, CountersExact, Requests, AtWork, OwnAsks, On, FromOwnWork, OwnWork
  <2>4. SeenBounds' /\ NoWorkDuringPlainRequest'
    BY <1>4 DEF vars, WqInv, SeenBounds, NoWorkDuringPlainRequest, Inside, On, OwnWork
  <2>5. QED
    BY <2>1, <2>2, <2>3, <2>4 DEF WqInv
<1>5. QED
  BY <1>1, <1>2, <1>3, <1>4 DEF Next

LEMMA WqInductive == Spec => []WqInv
<1>1. Init => WqInv
  BY WqInit
<1>2. WqInv /\ [Next]_vars => WqInv'
  BY WqStep
<1>3. QED
  BY <1>1, <1>2, PTL DEF Spec

\* Every variable has its type, and the counters stay between zero and the threads they count
\* (Scheduler.hpp:221-223): none wraps below zero, none outgrows what it can count.
THEOREM WqTypesAndCounters == Spec => []TypeOK
<1>1. ASSUME WqInv PROVE TypeOK
  <2>1. ASSUME NEW s \in Schedulers
        PROVE  /\ nRequests[s] \in 0..Cardinality(Threads)
               /\ nInWork[s] \in 0..Cardinality(Workers)
               /\ nOwnRequests[s] \in 0..nInWork[s]
    <3> DEFINE R == {t \in Threads : Requests(t, s)}
               A == {t \in Threads : AtWork(t, s)}
               O == {t \in Threads : OwnAsks(t, s)}
    <3>1. Workers \subseteq Threads /\ IsFiniteSet(Threads) /\ IsFiniteSet(Workers)
      BY ConfigAssumption, FS_Subset DEF Threads
    <3>2. R \subseteq Threads /\ A \subseteq Workers
      BY DEF AtWork
    <3>3. O \subseteq A
      <4>1. ASSUME NEW t \in Threads, OwnAsks(t, s) PROVE AtWork(t, s)
        BY <1>1, <4>1 DEF OwnAsks, FromOwnWork, OwnWork, AtWork, WqInv, InsideIsHome
      <4>2. QED
        BY <4>1
    <3>4. nRequests[s] = Cardinality(R) /\ nInWork[s] = Cardinality(A) /\ nOwnRequests[s] = Cardinality(O)
      BY <1>1 DEF WqInv, CountersExact
    <3> HIDE DEF R, A, O
    <3>5. IsFiniteSet(A) /\ Cardinality(R) <= Cardinality(Threads) /\ Cardinality(A) <= Cardinality(Workers) /\ IsFiniteSet(R)
      BY <3>1, <3>2, FS_Subset
    <3>6. Cardinality(O) <= Cardinality(A) /\ IsFiniteSet(O)
      BY <3>3, <3>5, FS_Subset
    <3>7. /\ Cardinality(R) \in Nat /\ Cardinality(A) \in Nat /\ Cardinality(O) \in Nat
          /\ Cardinality(Threads) \in Nat /\ Cardinality(Workers) \in Nat
      BY <3>1, <3>5, <3>6, FS_CardinalityType
    <3>8. QED
      BY <3>4, <3>5, <3>6, <3>7
  <2>2. QED
    BY <1>1, <2>1 DEF WqInv, WqTypeOK, TypeOK
<1>2. QED
  BY <1>1, WqInductive, PTL

\* awaitWorkQuiescence() keeps its promise for a request made outside the scheduler's work():
\* from its grant to its release no other worker is inside (Scheduler.hpp:478).
THEOREM WorkersStayOut == Spec => []NoWorkDuringPlainRequest
<1>1. WqInv => NoWorkDuringPlainRequest
  BY DEF WqInv
<1>2. QED
  BY <1>1, WqInductive, PTL

\* nCallsAllowed counts the right calls: when a call from inside work() is granted its request, every
\* other worker inside is in a control call of its own, none in the code of a block (Scheduler.hpp:2097-2100).
THEOREM CallersSeeOnlyCallers == Spec => GrantSeesOnlyCallers
<1> DEFINE A == \A t \in Threads : Granted(t) /\ pc'[t] # "compare" =>
                  \A w \in Workers \ {t} : OwnWork(w, On(t)) => pc[w] # "working"
<1>1. WqInv /\ [Next]_vars => [A]_vars
  <2> SUFFICES ASSUME WqInv, NEW t \in Threads, Granted(t), NEW w \in Workers \ {t}, OwnWork(w, On(t))
               PROVE  pc[w] # "working"
    OBVIOUS
  <2>1. OwnAsks(w, On(t))
    BY GrantedAlone
  <2>2. QED
    BY <2>1 DEF OwnAsks, Waiting
<1>2. QED
  BY <1>1, WqInductive, PTL DEF Spec, GrantSeesOnlyCallers

=============================================================================
