--------------------------- MODULE SegmentedRing_proofs ---------------------------
(***************************************************************************)
(* A segmented buffer frees nothing that a span can reach, for any number  *)
(* of readers and any sizes.  Three facts carry the proof: what the writer *)
(* takes for the slowest cursor is at or below the cursor of every reader  *)
(* that is attached (Slowest), a reader that attaches behind its back is   *)
(* at the published position, and an index that was replaced still names   *)
(* every segment that was published when it was.                           *)
(***************************************************************************)
EXTENDS SegmentedRing, SequenceTheorems, FiniteSetTheorems, WellFoundedInduction, TLAPS

\* The first position of a segment.
Begin(n) == n * SegmentSlots

IndexRecord == UNION {[length : {l}, at : Nat, freed : BOOLEAN, entries : [0 .. l - 1 -> Int]] : l \in Nat \ {0}}
SegRecord == [size : Nat \ {0}, published : Nat, reserve : Nat, readers : SUBSET SegReaders, generation : Nat,
              snapGen : Int, snap : SUBSET SegReaders, next : Nat, oldest : Nat, late : BOOLEAN]
WriterRecord == [pc : {"idle", "round", "free", "claim", "write", "allocate", "grow", "publish"},
                 ret : {"idle", "write", "publish"}, resume : {"claim", "grow"}, want : Nat, offset : Nat, claimed : Nat,
                 publish : Nat, writing : Nat]
Span == [index : Nat, first : Nat, size : Nat]
ReaderRecord == [pc : {"off", "marked", "read", "listed", "counted", "ready", "got", "span", "unlisted", "gone"},
                 pos : Nat, avail : Nat, span : Span]

SegTypes == /\ seg \in SegRecord /\ idx \in Seq(IndexRecord) /\ wr \in WriterRecord
            /\ rd \in [SegReaders -> ReaderRecord]

Attached == {"ready", "got", "span"}
Last == idx[Len(idx)]

\* Between its calls, and until it has claimed, the writer has reserved nothing.
Claiming == wr.pc \in {"idle", "claim"} \/ (wr.pc \in {"round", "free"} /\ wr.resume = "claim")
Allocating == wr.pc \in {"allocate", "grow"} \/ (wr.pc \in {"round", "free"} /\ wr.resume = "grow")

WriterInv ==
  /\ seg.snapGen <= seg.generation
  /\ Claiming => seg.reserve = seg.published
  /\ ~Claiming => wr.offset = seg.published /\ seg.reserve = wr.offset + wr.claimed /\ wr.claimed <= seg.size
  /\ wr.pc \in {"round", "free", "claim"} /\ wr.resume = "claim" => wr.want <= seg.size
  /\ Allocating => wr.ret \in {"write", "publish"} /\ wr.writing <= seg.reserve
  /\ Allocating /\ wr.ret = "publish" => wr.writing = wr.offset + wr.publish
  /\ wr.pc = "publish" => wr.offset + wr.publish <= Begin(seg.next) /\ wr.publish <= wr.claimed
  /\ wr.pc = "free" => idx # <<>>
  /\ wr.pc = "claim" => wr.resume = "claim"
  /\ wr.pc \in {"round", "free"} /\ wr.resume = "grow" => idx # <<>> /\ seg.oldest < seg.next

\* What is published is allocated, and only what is published is freed.
SegmentsInv ==
  /\ seg.oldest <= seg.next /\ Begin(seg.oldest) <= seg.published /\ seg.published <= Begin(seg.next)
  /\ idx = <<>> => seg.next = 0
  /\ idx # <<>> => seg.next - seg.oldest <= Last.length

\* The current index names the allocated segments; a replaced one still names those that
\* were published when it was replaced and are not freed.
Upto(k) == IF k = Len(idx) THEN seg.published ELSE idx[k + 1].at
IndexInv ==
  /\ \A k \in 1 .. Len(idx) : idx[k].at <= Last.at /\ idx[k].at <= seg.published
  /\ idx # <<>> => ~Last.freed
  /\ idx # <<>> => \A n \in seg.oldest .. seg.next - 1 : Last.entries[n % Last.length] = n
  /\ idx # <<>> => \A e \in 0 .. Last.length - 1 : Last.entries[e] = NoSegment \/ Last.entries[e] \in seg.oldest .. seg.next - 1
  /\ \A k \in 1 .. Len(idx) - 1 : \A n \in Nat :
       n >= seg.oldest /\ Begin(n) < idx[k + 1].at => idx[k].entries[n % idx[k].length] = n

\* While no reader attaches, what the writer keeps fits the window.
BoundInv ==
  ~seg.late =>
    /\ wr.pc = "grow" => seg.oldest = seg.next \/ seg.reserve - seg.size < Begin(seg.oldest + 1)
    /\ idx # <<>> => Last.length = InitialLength \/ Last.length < 2 * Touched

SpanInv(s) ==
  /\ s.index \in 1 .. Len(idx) /\ ~idx[s.index].freed
  /\ s.size >= 1 /\ s.first + s.size <= Upto(s.index)

ReaderInv(r) ==
  /\ rd[r].pos <= seg.published
  /\ rd[r].pc \in Attached \cup {"counted"} => Begin(seg.oldest) <= rd[r].pos
  /\ rd[r].pc \in Attached \cup {"listed", "counted"} => r \in seg.readers
  /\ rd[r].pc \in Attached => (seg.snapGen = seg.generation => r \in seg.snap)
  /\ rd[r].pc = "counted" /\ wr.pc = "free" => rd[r].pos = seg.published
  /\ rd[r].pc = "got" => rd[r].avail >= 1 /\ rd[r].pos + rd[r].avail <= seg.published
  /\ rd[r].pc = "span" => SpanInv(rd[r].span) /\ rd[r].span.first = rd[r].pos
  /\ ~seg.late => /\ rd[r].pc \in Attached \cup {"off", "unlisted", "gone"}
                  /\ r \in seg.readers => rd[r].pc \in Attached /\ seg.reserve - seg.size <= rd[r].pos

SegInv ==
  /\ SegTypes /\ WriterInv /\ SegmentsInv /\ IndexInv /\ BoundInv
  /\ \A r \in SegReaders : ReaderInv(r)

-----------------------------------------------------------------------------
(* Segments, and least and greatest elements. *)

LEMMA Begins ==
  /\ SegmentSlots \in Nat /\ SegmentSlots >= 1
  /\ Begin(0) = 0
  /\ \A a \in Nat : Begin(a) \in Nat /\ Begin(a + 1) = Begin(a) + SegmentSlots
  /\ \A a, b \in Nat : a < b => Begin(a + 1) <= Begin(b)
  /\ \A a, b \in Nat : a <= b => Begin(a) <= Begin(b)
<1>1. SegmentSlots \in Nat /\ SegmentSlots >= 1
  BY SegAssumption
<1>2. Begin(0) = 0
  BY <1>1 DEF Begin
<1>3. ASSUME NEW a \in Nat PROVE Begin(a) \in Nat /\ Begin(a + 1) = Begin(a) + SegmentSlots
  BY <1>1 DEF Begin
<1>4. ASSUME NEW a \in Nat, NEW b \in Nat, a <= b PROVE Begin(a) <= Begin(b)
  <2>1. PICK d \in Nat : b = a + d
    <3>1. b - a \in Nat /\ b = a + (b - a)
      BY <1>4
    <3>2. QED
      BY <3>1
  <2>2. b * SegmentSlots = (a * SegmentSlots) + (d * SegmentSlots)
    BY <2>1, <1>1
  <2>3. d * SegmentSlots \in Nat /\ a * SegmentSlots \in Nat
    BY <1>1
  <2>4. QED
    BY <2>2, <2>3 DEF Begin
<1>5. ASSUME NEW a \in Nat, NEW b \in Nat, a < b PROVE Begin(a + 1) <= Begin(b)
  <2>1. a + 1 \in Nat /\ a + 1 <= b
    BY <1>5
  <2>2. QED
    BY <2>1, <1>4
<1>6. QED
  BY <1>1, <1>2, <1>3, <1>4, <1>5

LEMMA SegmentOfPosition ==
  ASSUME NEW p \in Nat
  PROVE  SegmentOf(p) \in Nat /\ Begin(SegmentOf(p)) <= p /\ p < Begin(SegmentOf(p) + 1)
<1> DEFINE k == p \div SegmentSlots
           m == p % SegmentSlots
<1>1. SegmentSlots \in Nat /\ SegmentSlots > 0
  BY SegAssumption
<1>2. k \in Int /\ m \in Int /\ 0 <= m /\ m < SegmentSlots /\ p = (SegmentSlots * k) + m
  BY <1>1
<1> HIDE DEF k, m
<1>3. ~(k < 0)
  <2> SUFFICES ASSUME k < 0 PROVE FALSE
    OBVIOUS
  <2>1. SegmentSlots * k <= - SegmentSlots
    BY <1>1, <1>2
  <2>2. QED
    BY <2>1, <1>1, <1>2
<1>4. k \in Nat
  BY <1>2, <1>3
<1>5. k * SegmentSlots = SegmentSlots * k /\ (k + 1) * SegmentSlots = (SegmentSlots * k) + SegmentSlots /\ SegmentSlots * k \in Int
  BY <1>1, <1>4
<1>6. k * SegmentSlots <= p /\ p < (k + 1) * SegmentSlots
  BY <1>1, <1>2, <1>5
<1>7. QED
  BY <1>4, <1>6 DEF SegmentOf, Begin, k

\* A position lies in the segments before n exactly when it is before their end.
LEMMA SegmentBefore ==
  ASSUME NEW p \in Nat, NEW n \in Nat
  PROVE  /\ p < Begin(n) => SegmentOf(p) < n
         /\ Begin(n) <= p => n <= SegmentOf(p)
<1>1. SegmentOf(p) \in Nat /\ Begin(SegmentOf(p)) <= p /\ p < Begin(SegmentOf(p) + 1)
  BY SegmentOfPosition
<1>2. Begin(n) \in Nat /\ Begin(SegmentOf(p)) \in Nat /\ Begin(SegmentOf(p) + 1) \in Nat
  <2>1. SegmentOf(p) + 1 \in Nat
    BY <1>1
  <2>2. QED
    BY <1>1, <2>1, Begins
<1>3. n <= SegmentOf(p) => Begin(n) <= Begin(SegmentOf(p))
  BY <1>1, Begins
<1>4. SegmentOf(p) < n => Begin(SegmentOf(p) + 1) <= Begin(n)
  BY <1>1, Begins
<1>5. QED
  BY <1>1, <1>2, <1>3, <1>4

LEMMA LeastOf ==
  ASSUME NEW T, T \subseteq Nat, T # {}
  PROVE  Min(T) \in T /\ Min(T) \in Nat /\ \A x \in T : Min(T) <= x
<1> DEFINE Less == {ss \in Nat \X Nat : ss[1] < ss[2]}
<1>1. IsWellFoundedOn(Less, Nat)
  BY NatLessThanWellFounded DEF OpToRel
<1> HIDE DEF Less
<1>2. PICK x \in T : \A y \in T : ~(<<y, x>> \in Less)
  BY <1>1, WFMin
<1>3. \A y \in T : x <= y
  <2> SUFFICES ASSUME NEW y \in T, y < x PROVE FALSE
    OBVIOUS
  <2>1. <<y, x>> \in Nat \X Nat /\ <<y, x>>[1] = y /\ <<y, x>>[2] = x
    OBVIOUS
  <2>2. <<y, x>> \in Less
    BY <2>1 DEF Less
  <2>3. QED
    BY <1>2, <2>2
<1>4. QED
  BY <1>3 DEF Min

LEMMA GreatestOf ==
  ASSUME NEW T, T \subseteq Nat, T # {}, NEW m \in Nat, \A x \in T : x <= m
  PROVE  Max(T) \in T /\ Max(T) \in Nat /\ \A x \in T : x <= Max(T)
<1> DEFINE D == {m - x : x \in T}
<1>1. D \subseteq Nat /\ D # {}
  <2>1. \A x \in T : m - x \in Nat
    OBVIOUS
  <2>2. QED
    BY <2>1
<1>2. PICK d \in D : \A e \in D : d <= e
  BY <1>1, LeastOf
<1>3. PICK x \in T : d = m - x
  BY <1>2
<1>4. \A y \in T : x >= y
  BY <1>2, <1>3
<1>5. QED
  BY <1>4 DEF Max

-----------------------------------------------------------------------------
(* The slowest reader. *)

\* The minimum over the snapshot is at or below the cursor of every attached reader, and what
\* is left of the buffer is what it leaves.
LEMMA Capacity ==
  ASSUME SegInv
  PROVE  /\ MinReader \in Nat /\ \A r \in SegReaders : rd[r].pc \in Attached => MinReader <= rd[r].pos
         /\ getRemainingCapacity \in 0 .. seg.size
         /\ getRemainingCapacity > 0 => MinReader = seg.reserve - (seg.size - getRemainingCapacity)
<1>1. /\ seg.reserve \in Nat /\ seg.size \in Nat /\ seg.size >= 1 /\ seg.snap \subseteq SegReaders /\ seg.readers \subseteq SegReaders
      /\ \A r \in SegReaders : rd[r].pos \in Nat
  BY DEF SegInv, SegTypes, SegRecord, ReaderRecord
<1>2. Snapshot \subseteq SegReaders /\ \A r \in SegReaders : rd[r].pc \in Attached => r \in Snapshot
  BY <1>1 DEF SegInv, ReaderInv, Snapshot
<1> DEFINE T == {rd[r].pos : r \in Snapshot}
<1>3. MinReader \in Nat /\ \A r \in SegReaders : rd[r].pc \in Attached => MinReader <= rd[r].pos
  <2>1. CASE Snapshot = {}
    BY <2>1, <1>1, <1>2 DEF MinReader
  <2>2. CASE Snapshot # {}
    <3>1. T \subseteq Nat /\ T # {}
      BY <2>2, <1>1, <1>2
    <3>2. \A r \in Snapshot : rd[r].pos \in T
      OBVIOUS
    <3>3. MinReader = Min(T)
      BY <2>2 DEF MinReader
    <3> HIDE DEF T
    <3>4. Min(T) \in Nat /\ \A x \in T : Min(T) <= x
      BY <3>1, LeastOf
    <3>5. QED
      BY <3>2, <3>3, <3>4, <1>2
  <2>3. QED
    BY <2>1, <2>2
<1>4. /\ getRemainingCapacity \in 0 .. seg.size
      /\ getRemainingCapacity > 0 => MinReader = seg.reserve - (seg.size - getRemainingCapacity)
  <2> DEFINE m == MinReader
  <2>1. getRemainingCapacity = IF seg.reserve - m < 0 \/ seg.reserve - m >= seg.size THEN 0 ELSE seg.size - (seg.reserve - m)
    BY DEF getRemainingCapacity
  <2>2. m \in Nat
    BY <1>3
  <2> HIDE DEF m
  <2>3. CASE seg.reserve - m < 0 \/ seg.reserve - m >= seg.size
    BY <2>1, <2>3, <1>1
  <2>4. CASE ~(seg.reserve - m < 0 \/ seg.reserve - m >= seg.size)
    <3>1. getRemainingCapacity = seg.size - (seg.reserve - m)
      BY <2>1, <2>4
    <3>2. QED
      BY <3>1, <2>2, <2>4, <1>1 DEF m
  <2>5. QED
    BY <2>3, <2>4
<1>5. QED
  BY <1>3, <1>4

\* What a round takes for the slowest position is passed by no attached reader, and while no
\* reader attaches late it is inside the window.
LEMMA Slowest ==
  ASSUME SegInv, NEW s, s = Min({slowestReaderPosition, seg.published})
  PROVE  /\ s \in Nat /\ s <= seg.published
         /\ \A r \in SegReaders : rd[r].pc \in Attached => s <= rd[r].pos
         /\ ~seg.late => seg.reserve - seg.size <= s
<1> DEFINE p == slowestReaderPosition
           T == {seg.reserve} \cup {rd[r].pos : r \in seg.readers}
<1>1. /\ seg.reserve \in Nat /\ seg.size \in Nat /\ seg.published \in Nat /\ seg.readers \subseteq SegReaders
      /\ \A r \in SegReaders : rd[r].pos \in Nat
  BY DEF SegInv, SegTypes, SegRecord, ReaderRecord
<1>2. p = IF getRemainingCapacity > 0 THEN seg.reserve - (seg.size - getRemainingCapacity) ELSE Min(T)
  BY DEF slowestReaderPosition
<1>3. /\ p \in Nat
      /\ \A r \in SegReaders : rd[r].pc \in Attached => p <= rd[r].pos
      /\ ~seg.late => seg.reserve - seg.size <= p
  <2>1. CASE getRemainingCapacity > 0
    <3>1. p = MinReader
      BY <2>1, <1>2, Capacity
    <3>2. p = seg.reserve - (seg.size - getRemainingCapacity) /\ getRemainingCapacity \in 0 .. seg.size
      BY <2>1, <1>2, Capacity
    <3> HIDE DEF p
    <3>3. seg.reserve - seg.size <= p
      BY <3>2, <1>1
    <3>4. QED
      BY <3>1, <3>3, Capacity
  <2>2. CASE ~(getRemainingCapacity > 0)
    <3>1. T \subseteq Nat /\ T # {}
      BY <1>1
    <3>2. \A r \in seg.readers : rd[r].pos \in T
      OBVIOUS
    <3>3. ~seg.late => \A x \in T : seg.reserve - seg.size <= x
      <4> SUFFICES ASSUME ~seg.late, NEW x \in T PROVE seg.reserve - seg.size <= x
        OBVIOUS
      <4>1. CASE x = seg.reserve
        BY <4>1, <1>1
      <4>2. ASSUME NEW r \in seg.readers, x = rd[r].pos PROVE seg.reserve - seg.size <= x
        BY <4>2, <1>1 DEF SegInv, ReaderInv
      <4>3. QED
        BY <4>1, <4>2
    <3>4. p = Min(T)
      BY <2>2, <1>2
    <3> HIDE DEF T, p
    <3>5. Min(T) \in T /\ Min(T) \in Nat /\ \A x \in T : Min(T) <= x
      BY <3>1, LeastOf
    <3>6. \A r \in SegReaders : rd[r].pc \in Attached => r \in seg.readers
      BY DEF SegInv, ReaderInv
    <3>7. QED
      BY <3>2, <3>3, <3>4, <3>5, <3>6
  <2>3. QED
    BY <2>1, <2>2
<1> HIDE DEF p
<1>4. s \in {p, seg.published} /\ s <= p /\ s <= seg.published /\ s \in Nat
  <2>1. {p, seg.published} \subseteq Nat /\ {p, seg.published} # {} /\ s = Min({p, seg.published})
    BY <1>1, <1>3 DEF p
  <2>2. Min({p, seg.published}) \in {p, seg.published} /\ Min({p, seg.published}) \in Nat
        /\ \A x \in {p, seg.published} : Min({p, seg.published}) <= x
    BY <2>1, LeastOf
  <2>3. QED
    BY <2>1, <2>2
<1>5. ~seg.late => seg.reserve - seg.size <= seg.published
  <2>1. CASE Claiming
    BY <2>1, <1>1 DEF SegInv, WriterInv
  <2>2. CASE ~Claiming
    <3>1. wr.offset = seg.published /\ seg.reserve = wr.offset + wr.claimed /\ wr.claimed <= seg.size /\ wr.claimed \in Nat
      BY <2>2 DEF SegInv, WriterInv, SegTypes, WriterRecord
    <3>2. QED
      BY <3>1, <1>1
  <2>3. QED
    BY <2>1, <2>2
<1>6. \A r \in SegReaders : rd[r].pc \in Attached => s <= rd[r].pos
  BY <1>1, <1>3, <1>4
<1>7. QED
  BY <1>1, <1>3, <1>4, <1>5, <1>6

-----------------------------------------------------------------------------
(* The readers' steps. *)

\* The indexes were made one after the other, at positions published by then.
LEMMA ReplacedBefore ==
  ASSUME SegInv, NEW k \in 1 .. Len(idx)
  PROVE  Upto(k) \in Nat /\ Upto(k) <= seg.published
<1>1. idx \in Seq(IndexRecord) /\ Len(idx) \in Nat /\ \A i \in 1 .. Len(idx) : idx[i].at \in Nat
  BY SMTT(30) DEF SegInv, SegTypes, IndexRecord
<1>2. seg.published \in Nat
  BY DEF SegInv, SegTypes, SegRecord
<1>3. CASE k = Len(idx)
  BY <1>2, <1>3 DEF Upto
<1>4. CASE k # Len(idx)
  <2>1. k + 1 \in 1 .. Len(idx)
    BY <1>1, <1>4
  <2>2. Upto(k) = idx[k + 1].at
    BY <1>4 DEF Upto
  <2>3. idx[k + 1].at <= seg.published
    BY <2>1 DEF SegInv, IndexInv
  <2>4. QED
    BY <1>1, <2>1, <2>2, <2>3
<1>5. QED
  BY <1>3, <1>4

\* A reader's step changes nothing for the writer and for the other readers.
LEMMA ReaderStep ==
  ASSUME SegInv, NEW r \in SegReaders, UNCHANGED <<idx, wr>>,
         seg' \in SegRecord, rd' \in [SegReaders -> ReaderRecord],
         seg'.size = seg.size, seg'.published = seg.published, seg'.reserve = seg.reserve,
         seg'.next = seg.next, seg'.oldest = seg.oldest, seg'.snap = seg.snap, seg'.snapGen = seg.snapGen,
         seg'.generation \in {seg.generation, seg.generation + 1}, seg.late => seg'.late,
         \A q \in SegReaders \ {r} : rd'[q] = rd[q] /\ (q \in seg'.readers <=> q \in seg.readers),
         ReaderInv(r)'
  PROVE  SegInv'
<1>1. SegTypes' /\ seg.generation \in Nat /\ seg.snapGen \in Int
  BY DEF SegInv, SegTypes, SegRecord
<1>2. WriterInv'
  BY <1>1 DEF SegInv, WriterInv, Claiming, Allocating
<1>3. SegmentsInv'
  BY DEF SegInv, SegmentsInv, Last
<1>4. IndexInv'
  BY DEF SegInv, IndexInv, Last, Upto
<1>5. BoundInv'
  BY DEF SegInv, BoundInv, Last, Touched
<1>6. ASSUME NEW q \in SegReaders PROVE ReaderInv(q)'
  <2>1. CASE q = r
    BY <2>1
  <2>2. CASE q # r
    <3>1. rd'[q] = rd[q] /\ (q \in seg'.readers <=> q \in seg.readers)
      BY <2>2
    <3>2. ReaderInv(q)
      BY DEF SegInv
    <3>3. seg'.snapGen = seg'.generation => seg.snapGen = seg.generation
      BY <1>1 DEF SegInv, WriterInv
    <3>4. SpanInv(rd[q].span) => SpanInv(rd[q].span)'
      BY <3>1 DEF SpanInv, Upto
    <3>5. QED
      BY <3>1, <3>2, <3>3, <3>4 DEF ReaderInv
  <2>3. QED
    BY <2>1, <2>2
<1>7. QED
  BY <1>1, <1>2, <1>3, <1>4, <1>5, <1>6 DEF SegInv

ReaderNext(r) ==
  \/ Mark(r) \/ ReadCursor(r) \/ EnterList(r) \/ ReadCursorAgain(r) \/ Unmark(r)
  \/ Get(r) \/ MakeSpan(r) \/ Detach(r) \/ DetachEnds(r)
  \/ \E n \in 0 .. MaxPosition : Consume(r, n)

LEMMA ReadersKeepInv ==
  ASSUME SegInv, NEW r \in SegReaders, ReaderNext(r)
  PROVE  SegInv'
<1>1. /\ seg \in SegRecord /\ wr \in WriterRecord /\ rd \in [SegReaders -> ReaderRecord] /\ rd[r] \in ReaderRecord
      /\ ReaderInv(r) /\ SegmentsInv /\ WriterInv
  BY DEF SegInv, SegTypes
<1>2. CASE Mark(r)
  <2>1. rd' = [rd EXCEPT ![r].pc = "marked"] /\ seg' = [seg EXCEPT !.late = TRUE] /\ UNCHANGED <<idx, wr>>
    BY <1>2 DEF Mark
  <2>2. rd' \in [SegReaders -> ReaderRecord] /\ rd'[r] = [rd[r] EXCEPT !.pc = "marked"] /\ \A q \in SegReaders \ {r} : rd'[q] = rd[q]
    BY <2>1, <1>1 DEF ReaderRecord
  <2>3. seg' \in SegRecord
    BY <2>1, <1>1 DEF SegRecord
  <2>4. ReaderInv(r)'
    BY <1>1, <2>1, <2>2 DEF ReaderInv, ReaderRecord, SegRecord, Attached
  <2>5. QED
    BY <2>1, <2>2, <2>3, <2>4, <1>1, ReaderStep DEF SegRecord
<1>3. CASE ReadCursor(r)
  <2>1. rd' = [rd EXCEPT ![r].pc = "read", ![r].pos = seg.published] /\ UNCHANGED <<seg, idx, wr>> /\ rd[r].pc = "marked"
    BY <1>3 DEF ReadCursor
  <2>2. rd' \in [SegReaders -> ReaderRecord] /\ rd'[r] = [rd[r] EXCEPT !.pc = "read", !.pos = seg.published] /\ \A q \in SegReaders \ {r} : rd'[q] = rd[q]
    BY <2>1, <1>1 DEF ReaderRecord, SegRecord
  <2>3. ReaderInv(r)'
    BY <1>1, <2>1, <2>2 DEF ReaderInv, ReaderRecord, SegRecord, Attached
  <2>4. QED
    BY <2>1, <2>2, <2>3, <1>1, ReaderStep DEF SegRecord
<1>4. CASE EnterList(r)
  <2>1. rd' = [rd EXCEPT ![r].pc = "listed"] /\ seg' = [seg EXCEPT !.readers = @ \cup {r}] /\ UNCHANGED <<idx, wr>> /\ rd[r].pc = "read"
    BY <1>4 DEF EnterList
  <2>2. rd' \in [SegReaders -> ReaderRecord] /\ rd'[r] = [rd[r] EXCEPT !.pc = "listed"] /\ \A q \in SegReaders \ {r} : rd'[q] = rd[q]
    BY <2>1, <1>1 DEF ReaderRecord
  <2>3. seg' \in SegRecord /\ \A q \in SegReaders \ {r} : q \in seg'.readers <=> q \in seg.readers
    BY <2>1, <1>1 DEF SegRecord
  <2>4. ReaderInv(r)'
    BY <1>1, <2>1, <2>2 DEF ReaderInv, ReaderRecord, SegRecord, Attached
  <2>5. QED
    BY <2>1, <2>2, <2>3, <2>4, <1>1, ReaderStep DEF SegRecord
<1>5. CASE ReadCursorAgain(r)
  <2>1. rd' = [rd EXCEPT ![r].pc = "counted", ![r].pos = seg.published] /\ UNCHANGED <<seg, idx, wr>> /\ rd[r].pc = "listed"
    BY <1>5 DEF ReadCursorAgain
  <2>2. rd' \in [SegReaders -> ReaderRecord] /\ rd'[r] = [rd[r] EXCEPT !.pc = "counted", !.pos = seg.published] /\ \A q \in SegReaders \ {r} : rd'[q] = rd[q]
    BY <2>1, <1>1 DEF ReaderRecord, SegRecord
  <2>3. ReaderInv(r)'
    BY <1>1, <2>1, <2>2 DEF ReaderInv, ReaderRecord, SegRecord, Attached, SegmentsInv
  <2>4. QED
    BY <2>1, <2>2, <2>3, <1>1, ReaderStep DEF SegRecord
<1>6. CASE Unmark(r)
  <2>1. rd' = [rd EXCEPT ![r].pc = "ready"] /\ seg' = [seg EXCEPT !.generation = @ + 1] /\ UNCHANGED <<idx, wr>> /\ rd[r].pc = "counted"
    BY <1>6 DEF Unmark
  <2>2. rd' \in [SegReaders -> ReaderRecord] /\ rd'[r] = [rd[r] EXCEPT !.pc = "ready"] /\ \A q \in SegReaders \ {r} : rd'[q] = rd[q]
    BY <2>1, <1>1 DEF ReaderRecord
  <2>3. seg' \in SegRecord /\ seg'.snapGen # seg'.generation
    <3>1. seg.snapGen <= seg.generation
      BY <1>1 DEF WriterInv
    <3>2. QED
      BY <3>1, <2>1, <1>1 DEF SegRecord
  <2>4. r \in seg.readers
    BY <1>1, <2>1 DEF ReaderInv
  <2>5. ReaderInv(r)'
    BY <1>1, <2>1, <2>2, <2>3, <2>4 DEF ReaderInv, ReaderRecord, SegRecord, Attached
  <2>6. QED
    BY <2>1, <2>2, <2>3, <2>5, <1>1, ReaderStep DEF SegRecord
<1>7. CASE Get(r)
  <2>1. rd' = [rd EXCEPT ![r].pc = "got", ![r].avail = seg.published - rd[r].pos] /\ UNCHANGED <<seg, idx, wr>>
        /\ rd[r].pc = "ready" /\ seg.published > rd[r].pos
    BY <1>7 DEF Get
  <2>2. /\ rd' \in [SegReaders -> ReaderRecord]
        /\ rd'[r] = [rd[r] EXCEPT !.pc = "got", !.avail = seg.published - rd[r].pos]
        /\ \A q \in SegReaders \ {r} : rd'[q] = rd[q]
    <3>1. seg.published - rd[r].pos \in Nat
      BY <2>1, <1>1 DEF ReaderRecord, SegRecord
    <3>2. QED
      BY <3>1, <2>1, <1>1 DEF ReaderRecord
  <2>3. ReaderInv(r)'
    BY <1>1, <2>1, <2>2 DEF ReaderInv, ReaderRecord, SegRecord, Attached
  <2>4. QED
    BY <2>1, <2>2, <2>3, <1>1, ReaderStep DEF SegRecord
<1>8. CASE MakeSpan(r)
  <2>1. PICK span : span = [index |-> Len(idx), first |-> rd[r].pos, size |-> rd[r].avail]
    OBVIOUS
  <2>2. rd' = [rd EXCEPT ![r].pc = "span", ![r].avail = 0, ![r].span = span] /\ UNCHANGED <<seg, idx, wr>> /\ rd[r].pc = "got"
    BY <1>8, <2>1 DEF MakeSpan
  <2>3. Len(idx) \in Nat
    BY DEF SegInv, SegTypes
  <2>4. span \in Span /\ span.index = Len(idx) /\ span.first = rd[r].pos /\ span.size = rd[r].avail
    BY <2>1, <2>3, <1>1 DEF ReaderRecord, Span
  <2>5. /\ rd' \in [SegReaders -> ReaderRecord]
        /\ rd'[r] = [rd[r] EXCEPT !.pc = "span", !.avail = 0, !.span = span]
        /\ \A q \in SegReaders \ {r} : rd'[q] = rd[q]
    BY <2>2, <2>4, <1>1 DEF ReaderRecord
  <2>6. idx # <<>>
    <3>1. seg.published > 0 /\ seg.next \in Nat /\ seg.published \in Nat
      BY <1>1, <2>2 DEF ReaderInv, ReaderRecord, SegRecord
    <3>2. Begin(0) = 0
      BY Begins
    <3>3. QED
      BY <3>1, <3>2, <1>1 DEF SegmentsInv
  <2>7. SpanInv(span)
    <3>1. Len(idx) \in 1 .. Len(idx)
      BY <2>3, <2>6
    <3>2. ~idx[Len(idx)].freed
      BY <2>6 DEF SegInv, IndexInv, Last
    <3>3. span.size >= 1 /\ span.first + span.size <= seg.published
      BY <1>1, <2>2, <2>4 DEF ReaderInv
    <3>4. QED
      BY <3>1, <3>2, <3>3, <2>4 DEF SpanInv, Upto
  <2>8. SpanInv(span)'
    BY <2>2, <2>7 DEF SpanInv, Upto
  <2>9. rd'[r].pc = "span" /\ rd'[r].span = span /\ rd'[r].pos = rd[r].pos
    BY <2>5, <1>1 DEF ReaderRecord
  <2>10. ReaderInv(r)'
    <3>1. UNCHANGED <<seg, idx, wr>>
      BY <2>2
    <3>2. ReaderInv(r)
      BY <1>1
    <3>3. SpanInv(rd[r].span)'
      BY <2>8, <2>9
    <3>4. rd'[r].span.first = rd'[r].pos
      BY <2>4, <2>9
    <3>5. QED
      BY <3>1, <3>2, <3>3, <3>4, <2>2, <2>9 DEF ReaderInv, Attached
  <2>11. QED
    BY <2>2, <2>5, <2>10, <1>1, ReaderStep DEF SegRecord
<1>9. CASE Detach(r)
  <2>1. rd' = [rd EXCEPT ![r].pc = "unlisted"] /\ seg' = [seg EXCEPT !.readers = @ \ {r}] /\ UNCHANGED <<idx, wr>> /\ rd[r].pc = "ready"
    BY <1>9 DEF Detach
  <2>2. rd' \in [SegReaders -> ReaderRecord] /\ rd'[r] = [rd[r] EXCEPT !.pc = "unlisted"] /\ \A q \in SegReaders \ {r} : rd'[q] = rd[q]
    BY <2>1, <1>1 DEF ReaderRecord
  <2>3. seg' \in SegRecord /\ r \notin seg'.readers /\ \A q \in SegReaders \ {r} : q \in seg'.readers <=> q \in seg.readers
    BY <2>1, <1>1 DEF SegRecord
  <2>4. ReaderInv(r)'
    BY <1>1, <2>1, <2>2, <2>3 DEF ReaderInv, ReaderRecord, SegRecord, Attached
  <2>5. QED
    BY <2>1, <2>2, <2>3, <2>4, <1>1, ReaderStep DEF SegRecord
<1>10. CASE DetachEnds(r)
  <2>1. rd' = [rd EXCEPT ![r].pc = "gone"] /\ seg' = [seg EXCEPT !.generation = @ + 1] /\ UNCHANGED <<idx, wr>> /\ rd[r].pc = "unlisted"
    BY <1>10 DEF DetachEnds
  <2>2. rd' \in [SegReaders -> ReaderRecord] /\ rd'[r] = [rd[r] EXCEPT !.pc = "gone"] /\ \A q \in SegReaders \ {r} : rd'[q] = rd[q]
    BY <2>1, <1>1 DEF ReaderRecord
  <2>3. seg' \in SegRecord
    BY <2>1, <1>1 DEF SegRecord
  <2>4. ReaderInv(r)'
    BY <1>1, <2>1, <2>2 DEF ReaderInv, ReaderRecord, SegRecord, Attached
  <2>5. QED
    BY <2>1, <2>2, <2>3, <2>4, <1>1, ReaderStep DEF SegRecord
<1>11. ASSUME NEW n \in 0 .. MaxPosition, Consume(r, n)
       PROVE  SegInv'
  <2>1. rd' = [rd EXCEPT ![r].pc = "ready", ![r].pos = @ + n, ![r].span = NoSpan] /\ UNCHANGED <<seg, idx, wr>>
        /\ rd[r].pc = "span" /\ n <= rd[r].span.size /\ n \in Nat
    BY <1>11, SegAssumption DEF Consume
  <2>2. /\ rd' \in [SegReaders -> ReaderRecord]
        /\ rd'[r] = [rd[r] EXCEPT !.pc = "ready", !.pos = rd[r].pos + n, !.span = NoSpan]
        /\ \A q \in SegReaders \ {r} : rd'[q] = rd[q]
    <3>1. rd[r].pos + n \in Nat /\ NoSpan \in Span
      BY <2>1, <1>1 DEF ReaderRecord, NoSpan, Span
    <3>2. QED
      BY <3>1, <2>1, <1>1 DEF ReaderRecord
  <2>3. rd[r].pos + n <= seg.published
    <3>1. rd[r].pos + rd[r].span.size <= Upto(rd[r].span.index)
      BY <1>1, <2>1 DEF ReaderInv, SpanInv
    <3>2. Upto(rd[r].span.index) <= seg.published
      BY <1>1, <2>1, ReplacedBefore DEF ReaderInv, SpanInv
    <3>3. rd[r].pos \in Nat /\ rd[r].span.size \in Nat /\ seg.published \in Nat /\ Upto(rd[r].span.index) \in Nat
      BY <1>1, <2>1, ReplacedBefore DEF ReaderInv, SpanInv, ReaderRecord, Span, SegRecord
    <3>4. QED
      BY <3>1, <3>2, <3>3, <2>1
  <2>4. seg.oldest \in Nat /\ Begin(seg.oldest) \in Nat
    BY <1>1, Begins DEF SegRecord
  <2>5. ReaderInv(r)'
    BY <1>1, <2>1, <2>2, <2>3, <2>4 DEF ReaderInv, ReaderRecord, SegRecord, Attached
  <2>6. QED
    BY <2>1, <2>2, <2>5, <1>1, ReaderStep DEF SegRecord
<1>12. QED
  BY <1>2, <1>3, <1>4, <1>5, <1>6, <1>7, <1>8, <1>9, <1>10, <1>11 DEF ReaderNext

-----------------------------------------------------------------------------
(* The writer's steps. *)

\* A step that moves the writer only.
LEMMA WriterMoves ==
  ASSUME SegInv, UNCHANGED <<seg, idx, rd>>, wr' \in WriterRecord, WriterInv',
         wr'.pc = "grow" /\ ~seg.late => seg.oldest = seg.next \/ seg.reserve - seg.size < Begin(seg.oldest + 1),
         wr'.pc = "free" => \A r \in SegReaders : rd[r].pc # "counted"
  PROVE  SegInv'
<1>1. SegTypes'
  BY DEF SegInv, SegTypes
<1>2. SegmentsInv'
  BY DEF SegInv, SegmentsInv, Last
<1>3. IndexInv'
  BY DEF SegInv, IndexInv, Last, Upto
<1>4. BoundInv'
  BY DEF SegInv, BoundInv, Last, Touched
<1>5. ASSUME NEW r \in SegReaders PROVE ReaderInv(r)'
  <2>1. SpanInv(rd[r].span) => SpanInv(rd[r].span)'
    BY DEF SpanInv, Upto
  <2>2. QED
    BY <2>1 DEF SegInv, ReaderInv
<1>6. QED
  BY <1>1, <1>2, <1>3, <1>4, <1>5 DEF SegInv

LEMMA ReserveKeepsInv ==
  ASSUME SegInv, NEW n \in 1 .. seg.size, Reserve(n)
  PROVE  SegInv'
<1>1. wr \in WriterRecord /\ seg \in SegRecord /\ WriterInv
  BY DEF SegInv, SegTypes
<1>2. wr' = [wr EXCEPT !.pc = "round", !.resume = "claim", !.want = n, !.publish = 0] /\ UNCHANGED <<seg, idx, rd>>
      /\ wr.pc = "idle" /\ n \in Nat /\ n <= seg.size
  BY <1>1 DEF Reserve, SegRecord
<1>3. wr' \in WriterRecord /\ wr'.pc = "round" /\ wr'.resume = "claim" /\ wr'.want = n
  BY <1>1, <1>2 DEF WriterRecord
<1>4. WriterInv'
  BY <1>1, <1>2, <1>3 DEF WriterInv, Claiming, Allocating
<1>5. QED
  BY <1>2, <1>3, <1>4, WriterMoves

LEMMA RoundKeepsInv ==
  ASSUME SegInv, Round
  PROVE  SegInv'
<1>1. wr \in WriterRecord /\ seg \in SegRecord /\ WriterInv
  BY DEF SegInv, SegTypes
<1> DEFINE to == IF RoundIsWorthIt /\ ~Marked THEN "free" ELSE wr.resume
<1>2. wr' = [wr EXCEPT !.pc = to] /\ UNCHANGED <<seg, idx, rd>> /\ wr.pc = "round"
  BY DEF Round
<1>3. to \in {"free", wr.resume} /\ wr.resume \in {"claim", "grow"}
  BY <1>1 DEF WriterRecord
<1>4. to = "free" => RoundIsWorthIt /\ ~Marked
  BY <1>3
<1>5. to = "grow" => ~(RoundIsWorthIt /\ ~Marked) /\ wr.resume = "grow"
  OBVIOUS
<1> HIDE DEF to
<1>6. wr' \in WriterRecord /\ wr' = [wr EXCEPT !.pc = to] /\ wr'.pc = to /\ wr'.resume = wr.resume
  BY <1>1, <1>2, <1>3 DEF WriterRecord
<1>7. to = "free" => idx # <<>> /\ \A r \in SegReaders : rd[r].pc # "counted"
  BY <1>4 DEF RoundIsWorthIt, Marked
<1>8. /\ wr'.ret = wr.ret /\ wr'.writing = wr.writing /\ wr'.offset = wr.offset /\ wr'.claimed = wr.claimed
      /\ wr'.publish = wr.publish /\ wr'.want = wr.want
  BY <1>1, <1>2 DEF WriterRecord
<1>9. WriterInv'
  BY <1>1, <1>2, <1>3, <1>6, <1>7, <1>8 DEF WriterInv, Claiming, Allocating
<1>10. ASSUME to = "grow", ~seg.late
       PROVE  seg.reserve - seg.size < Begin(seg.oldest + 1)
  <2>1. ~Marked
    BY <1>10 DEF SegInv, ReaderInv, Marked, Attached
  <2>2. ~RoundIsWorthIt /\ idx # <<>> /\ seg.oldest < seg.next
    BY <2>1, <1>1, <1>2, <1>5, <1>10 DEF WriterInv
  <2>3. ~(Begin(seg.oldest + 1) <= seg.published)
    BY <2>2 DEF RoundIsWorthIt, Begin
  <2>4. ~Claiming
    BY <1>2, <1>5, <1>10 DEF Claiming
  <2>5. seg.reserve - seg.size <= seg.published
    BY <2>4, <1>1 DEF WriterInv, WriterRecord, SegRecord
  <2>6. Begin(seg.oldest + 1) \in Nat
    <3>1. seg.oldest + 1 \in Nat
      BY <1>1 DEF SegRecord
    <3>2. QED
      BY <3>1, Begins
  <2>7. QED
    BY <2>3, <2>5, <2>6, <1>1 DEF SegRecord
<1>11. QED
  BY <1>2, <1>6, <1>7, <1>9, <1>10, WriterMoves

LEMMA WriteKeepsInv ==
  ASSUME SegInv, NEW k \in 0 .. seg.size, WriteSlot(k) \/ ReleaseSpan(k)
  PROVE  SegInv'
<1>1. wr \in WriterRecord /\ seg \in SegRecord /\ WriterInv /\ k \in Nat
  BY DEF SegInv, SegTypes, SegRecord
<1>2. CASE WriteSlot(k)
  <2>1. wr' = [wr EXCEPT !.pc = "allocate", !.writing = wr.offset + k + 1, !.ret = "write"] /\ UNCHANGED <<seg, idx, rd>>
        /\ wr.pc = "write" /\ k < wr.claimed
    BY <1>2 DEF WriteSlot
  <2>2. wr.offset + k + 1 \in Nat
    BY <1>1 DEF WriterRecord
  <2>3. wr' \in WriterRecord /\ wr'.pc = "allocate" /\ wr'.ret = "write" /\ wr'.writing = wr.offset + k + 1
        /\ wr'.offset = wr.offset /\ wr'.claimed = wr.claimed
    BY <1>1, <2>2, <2>1 DEF WriterRecord
  <2>4. seg.reserve = wr.offset + wr.claimed /\ wr.offset = seg.published /\ wr.claimed <= seg.size
    BY <1>1, <2>1 DEF WriterInv, Claiming
  <2>5. wr'.writing <= seg.reserve
    BY <2>1, <2>3, <2>4, <1>1 DEF WriterRecord
  <2>6. WriterInv'
    BY <1>1, <2>1, <2>3, <2>4, <2>5 DEF WriterInv, Claiming, Allocating
  <2>7. QED
    BY <2>1, <2>3, <2>6, WriterMoves
<1>3. CASE ReleaseSpan(k)
  <2>1. wr' = [wr EXCEPT !.pc = "allocate", !.writing = wr.offset + k, !.publish = k, !.ret = "publish"]
        /\ UNCHANGED <<seg, idx, rd>> /\ wr.pc = "write" /\ k <= wr.claimed
    BY <1>3 DEF ReleaseSpan
  <2>2. wr.offset + k \in Nat
    BY <1>1 DEF WriterRecord
  <2>3. wr' \in WriterRecord /\ wr'.pc = "allocate" /\ wr'.ret = "publish" /\ wr'.writing = wr.offset + k
        /\ wr'.offset = wr.offset /\ wr'.claimed = wr.claimed /\ wr'.publish = k
    BY <1>1, <2>2, <2>1 DEF WriterRecord
  <2>4. seg.reserve = wr.offset + wr.claimed /\ wr.offset = seg.published /\ wr.claimed <= seg.size
    BY <1>1, <2>1 DEF WriterInv, Claiming
  <2>5. wr'.writing <= seg.reserve
    BY <2>1, <2>3, <2>4, <1>1 DEF WriterRecord
  <2>6. WriterInv'
    BY <1>1, <2>1, <2>3, <2>4, <2>5 DEF WriterInv, Claiming, Allocating
  <2>7. QED
    BY <2>1, <2>3, <2>6, WriterMoves
<1>4. QED
  BY <1>2, <1>3

LEMMA ClaimKeepsInv ==
  ASSUME SegInv, tryNext
  PROVE  SegInv'
<1>1. wr \in WriterRecord /\ seg \in SegRecord /\ WriterInv /\ idx' = idx /\ rd' = rd /\ wr.pc = "claim"
  BY DEF SegInv, SegTypes, tryNext
<1> DEFINE cap == getRemainingCapacity
           room == cap >= wr.want
<1>2. /\ MinReader \in Nat /\ \A r \in SegReaders : rd[r].pc \in Attached => MinReader <= rd[r].pos
      /\ cap \in 0 .. seg.size /\ (cap > 0 => MinReader = seg.reserve - (seg.size - cap))
  BY Capacity
<1>3. Snapshot \subseteq SegReaders /\ \A r \in SegReaders : rd[r].pc \in Attached => r \in Snapshot
  BY <1>1 DEF SegInv, ReaderInv, Snapshot, SegRecord
<1>4. seg.reserve = seg.published /\ wr.want <= seg.size
  BY <1>1 DEF WriterInv, Claiming
<1> DEFINE res == IF cap < wr.want THEN seg.reserve ELSE seg.reserve + wr.want
<1>5. seg' = [seg EXCEPT !.snap = Snapshot, !.snapGen = seg.generation, !.reserve = res]
  BY DEF tryNext, Refreshed
<1>6. seg.reserve \in Nat /\ seg.size \in Nat /\ wr.want \in Nat
  BY <1>1 DEF SegRecord, WriterRecord
<1>7. cap < wr.want <=> ~room
  <2>1. cap \in Nat
    BY <1>2, <1>6
  <2> HIDE DEF cap
  <2>2. QED
    BY <2>1, <1>6
<1>8. res \in Nat /\ (room => res = seg.reserve + wr.want) /\ (~room => res = seg.reserve)
  <2> HIDE DEF cap, room
  <2>1. CASE room
    BY <2>1, <1>6, <1>7
  <2>2. CASE ~room
    BY <2>2, <1>6, <1>7
  <2>3. QED
    BY <2>1, <2>2
<1>9. wr' = IF room THEN [wr EXCEPT !.pc = "write", !.offset = seg.reserve, !.claimed = wr.want] ELSE [wr EXCEPT !.pc = "idle"]
  <2>1. wr' = IF cap < wr.want THEN [wr EXCEPT !.pc = "idle"] ELSE [wr EXCEPT !.pc = "write", !.offset = seg.reserve, !.claimed = wr.want]
    BY DEF tryNext
  <2> HIDE DEF cap, room
  <2>2. QED
    BY <2>1, <1>7
<1> HIDE DEF cap, room, res
<1>10. /\ seg' \in SegRecord /\ seg'.size = seg.size /\ seg'.published = seg.published /\ seg'.reserve = res /\ seg'.readers = seg.readers
      /\ seg'.generation = seg.generation /\ seg'.snapGen = seg.generation /\ seg'.snap = Snapshot
      /\ seg'.next = seg.next /\ seg'.oldest = seg.oldest /\ seg'.late = seg.late
  <2>1. Snapshot \in SUBSET SegReaders /\ res \in Nat /\ seg.generation \in Int
    BY <1>1, <1>3, <1>8 DEF SegRecord
  <2>2. seg' \in SegRecord
    BY <2>1, <1>1, <1>5 DEF SegRecord
  <2>3. QED
    BY <2>2, <1>1, <1>5 DEF SegRecord
<1>11. wr' \in WriterRecord
  <2>1. CASE room
    BY <2>1, <1>1, <1>9, <1>6 DEF WriterRecord
  <2>2. CASE ~room
    BY <2>2, <1>1, <1>9 DEF WriterRecord
  <2>3. QED
    BY <2>1, <2>2
<1>12. SegTypes'
  BY <1>1, <1>11, <1>10 DEF SegInv, SegTypes
<1>13. WriterInv'
  <2>1. CASE room
    <3>1. wr' = [wr EXCEPT !.pc = "write", !.offset = seg.reserve, !.claimed = wr.want]
      BY <2>1, <1>9
    <3>2. wr'.pc = "write" /\ wr'.offset = seg.reserve /\ wr'.claimed = wr.want
      BY <3>1, <1>1 DEF WriterRecord
    <3>3. QED
      BY <3>2, <2>1, <1>1, <1>4, <1>8, <1>10 DEF WriterInv, Claiming, Allocating, SegRecord
  <2>2. CASE ~room
    <3>1. wr'.pc = "idle"
      BY <2>2, <1>1, <1>9 DEF WriterRecord
    <3>2. QED
      BY <3>1, <2>2, <1>1, <1>4, <1>8, <1>10 DEF WriterInv, Claiming, Allocating, SegRecord
  <2>3. QED
    BY <2>1, <2>2
<1>14. wr'.pc \in {"write", "idle"}
  <2>1. CASE room
    BY <2>1, <1>1, <1>9 DEF WriterRecord
  <2>2. CASE ~room
    BY <2>2, <1>1, <1>9 DEF WriterRecord
  <2>3. QED
    BY <2>1, <2>2
<1>15. SegmentsInv'
  BY <1>1, <1>10 DEF SegInv, SegmentsInv, Last
<1>16. IndexInv'
  BY <1>1, <1>10 DEF SegInv, IndexInv, Last, Upto
<1>17. BoundInv'
  BY <1>1, <1>10, <1>14 DEF SegInv, BoundInv, Last, Touched
\* What is claimed is within the window of every reader.
<1>18. ASSUME NEW r \in SegReaders, rd[r].pc \in Attached, seg.reserve - seg.size <= rd[r].pos
       PROVE  res - seg.size <= rd[r].pos
  <2>1. seg.reserve \in Nat /\ seg.size \in Nat /\ rd[r].pos \in Nat /\ wr.want \in Nat /\ cap \in Nat
    BY <1>1, <1>2 DEF SegInv, SegTypes, SegRecord, ReaderRecord, WriterRecord
  <2>2. CASE ~room
    BY <2>2, <1>8, <1>18
  <2>3. CASE room /\ cap = 0
    BY <2>1, <2>3, <1>8, <1>18 DEF room
  <2>4. CASE room /\ cap > 0
    <3>1. MinReader = seg.reserve - (seg.size - cap) /\ MinReader <= rd[r].pos
      BY <2>4, <1>2, <1>18
    <3>2. res = seg.reserve + wr.want /\ wr.want <= cap
      BY <2>1, <2>4, <1>8 DEF room
    <3>3. QED
      BY <3>1, <3>2, <2>1
  <2>5. QED
    BY <2>1, <2>2, <2>3, <2>4
<1>19. ASSUME NEW r \in SegReaders PROVE ReaderInv(r)'
  <2>1. ReaderInv(r)
    BY DEF SegInv
  <2>2. SpanInv(rd[r].span) => SpanInv(rd[r].span)'
    BY <1>1, <1>10 DEF SpanInv, Upto
  <2>3. QED
    BY <1>1, <1>3, <1>10, <1>14, <1>18, <2>1, <2>2 DEF ReaderInv
<1>20. QED
  BY <1>12, <1>13, <1>15, <1>16, <1>17, <1>19 DEF SegInv

\* A round frees the segments that end at or below the slowest position.
LEMMA NewOldest ==
  ASSUME seg \in SegRecord, seg.oldest <= seg.next, NEW s \in Nat,
         NEW o, o = Max({seg.oldest} \cup {n + 1 : n \in {n \in seg.oldest .. seg.next - 1 : (n + 1) * SegmentSlots <= s}})
  PROVE  /\ o \in Nat /\ seg.oldest <= o /\ o <= seg.next
         /\ o = seg.oldest \/ Begin(o) <= s
         /\ o = seg.next \/ s < Begin(o + 1)
<1> DEFINE Passed == {n \in seg.oldest .. seg.next - 1 : (n + 1) * SegmentSlots <= s}
           T == {seg.oldest} \cup {n + 1 : n \in Passed}
<1>1. seg.oldest \in Nat /\ seg.next \in Nat /\ seg.oldest <= seg.next /\ SegmentSlots \in Nat
  BY SegAssumption DEF SegRecord
<1>2. T \subseteq Nat /\ T # {} /\ \A x \in T : x <= seg.next
  BY <1>1
<1>3. seg.oldest \in T /\ \A n \in Passed : n + 1 \in T
  OBVIOUS
<1>4. \A x \in T : x = seg.oldest \/ Begin(x) <= s
  BY <1>1 DEF Begin
<1>5. \A n \in seg.oldest .. seg.next - 1 : Begin(n + 1) <= s => n \in Passed
  BY DEF Begin
<1> HIDE DEF T, Passed
<1>6. Max(T) \in T /\ Max(T) \in Nat /\ \A x \in T : x <= Max(T)
  BY <1>1, <1>2, GreatestOf
<1>7. o = Max(T)
  BY DEF T, Passed
<1>8. o \in T /\ o \in Nat /\ seg.oldest <= o /\ o <= seg.next
  BY <1>2, <1>3, <1>6, <1>7
<1>9. ASSUME o # seg.next, Begin(o + 1) <= s PROVE FALSE
  <2>1. o \in seg.oldest .. seg.next - 1
    BY <1>1, <1>8, <1>9
  <2>2. o + 1 \in T
    BY <2>1, <1>3, <1>5, <1>9
  <2>3. o + 1 <= o
    BY <2>2, <1>6, <1>7
  <2>4. QED
    BY <2>3, <1>8
<1>10. Begin(o + 1) \in Nat
  <2>1. o + 1 \in Nat
    BY <1>8
  <2>2. QED
    BY <2>1, Begins
<1>11. QED
  BY <1>4, <1>8, <1>9, <1>10

LEMMA FreeKeepsInv ==
  ASSUME SegInv, FreePassed
  PROVE  SegInv'
<1>1. wr \in WriterRecord /\ seg \in SegRecord /\ idx \in Seq(IndexRecord) /\ rd \in [SegReaders -> ReaderRecord]
      /\ WriterInv /\ SegmentsInv /\ IndexInv /\ BoundInv
  BY DEF SegInv, SegTypes
<1>2. PICK s : s = Min({slowestReaderPosition, seg.published})
  OBVIOUS
<1>3. PICK o : o = Max({seg.oldest} \cup {n + 1 : n \in {n \in seg.oldest .. seg.next - 1 : (n + 1) * SegmentSlots <= s}})
  OBVIOUS
<1>4. PICK kept : kept = [Last EXCEPT !.entries = [e \in DOMAIN Last.entries |->
                            IF Last.entries[e] \in seg.oldest .. o - 1 THEN NoSegment ELSE Last.entries[e]]]
  OBVIOUS
<1>5. /\ wr.pc = "free" /\ rd' = rd
      /\ seg' = [seg EXCEPT !.snap = Snapshot, !.snapGen = seg.generation, !.oldest = o]
      /\ wr' = [wr EXCEPT !.pc = wr.resume]
  BY <1>2, <1>3 DEF FreePassed, Refreshed
<1>6. idx' = [k \in DOMAIN idx |-> IF k = Len(idx) THEN kept
                                   ELSE [idx[k] EXCEPT !.freed = idx[k].freed \/ FreesIndex(s, Last.at)]]
  BY <1>2, <1>3, <1>4 DEF FreePassed, Last
<1>7. /\ s \in Nat /\ s <= seg.published
      /\ \A r \in SegReaders : rd[r].pc \in Attached => s <= rd[r].pos
      /\ ~seg.late => seg.reserve - seg.size <= s
  BY <1>2, Slowest
<1>8. /\ o \in Nat /\ seg.oldest <= o /\ o <= seg.next
      /\ o = seg.oldest \/ Begin(o) <= s
      /\ o = seg.next \/ s < Begin(o + 1)
  BY <1>1, <1>3, <1>7, NewOldest DEF SegmentsInv
<1>9. Snapshot \subseteq SegReaders /\ \A r \in SegReaders : rd[r].pc \in Attached => r \in Snapshot
  BY <1>1 DEF SegInv, ReaderInv, Snapshot, SegRecord
<1>10. /\ seg' \in SegRecord /\ seg'.size = seg.size /\ seg'.published = seg.published /\ seg'.reserve = seg.reserve
       /\ seg'.readers = seg.readers /\ seg'.generation = seg.generation /\ seg'.snapGen = seg.generation
       /\ seg'.snap = Snapshot /\ seg'.next = seg.next /\ seg'.oldest = o /\ seg'.late = seg.late
  <2>1. Snapshot \in SUBSET SegReaders /\ seg.generation \in Int
    BY <1>1, <1>9 DEF SegRecord
  <2>2. seg' \in SegRecord
    BY <2>1, <1>1, <1>5, <1>8 DEF SegRecord
  <2>3. QED
    BY <2>2, <1>1, <1>5 DEF SegRecord
<1>11. /\ wr' \in WriterRecord /\ wr'.pc = wr.resume /\ wr'.resume = wr.resume /\ wr.resume \in {"claim", "grow"}
       /\ wr'.ret = wr.ret /\ wr'.writing = wr.writing /\ wr'.offset = wr.offset /\ wr'.claimed = wr.claimed
       /\ wr'.publish = wr.publish /\ wr'.want = wr.want
  BY <1>1, <1>5 DEF WriterRecord
<1>12. idx # <<>> /\ Len(idx) \in Nat /\ Len(idx) \in 1 .. Len(idx) /\ DOMAIN idx = 1 .. Len(idx)
  BY <1>1, <1>5 DEF WriterInv
<1>13. Len(idx) \in Nat /\ Len(idx) >= 1
  BY <1>12
<1>14. \A k \in 1 .. Len(idx) : k # Len(idx) => k + 1 \in 1 .. Len(idx)
  <2> DEFINE L == Len(idx)
  <2>1. L \in Nat
    BY <1>13
  <2> HIDE DEF L
  <2>2. \A k \in 1 .. L : k # L => k + 1 \in 1 .. L
    BY <2>1
  <2>3. QED
    BY <2>2 DEF L
<1>15. \A k \in 1 .. Len(idx) - 1 : k \in 1 .. Len(idx) /\ k # Len(idx)
  <2> DEFINE L == Len(idx)
  <2>1. L \in Nat
    BY <1>13
  <2> HIDE DEF L
  <2>2. \A k \in 1 .. L - 1 : k \in 1 .. L /\ k # L
    BY <2>1
  <2>3. QED
    BY <2>2 DEF L
<1>16. \A k \in 1 .. Len(idx) : idx[k] \in IndexRecord
  BY <1>1
<1>17. PICK l \in Nat \ {0} : Last \in [length : {l}, at : Nat, freed : BOOLEAN, entries : [0 .. l - 1 -> Int]]
  BY <1>12, <1>16 DEF Last, IndexRecord
<1>18. kept.entries = [e \in 0 .. l - 1 |-> IF Last.entries[e] \in seg.oldest .. o - 1 THEN NoSegment ELSE Last.entries[e]]
       /\ kept.length = l /\ kept.at = Last.at /\ kept.freed = Last.freed /\ Last.length = l
  BY <1>4, <1>17
<1>19. kept \in IndexRecord
  <2>1. kept.entries \in [0 .. l - 1 -> Int]
    BY <1>17, <1>18 DEF NoSegment
  <2>2. kept \in [length : {l}, at : Nat, freed : BOOLEAN, entries : [0 .. l - 1 -> Int]]
    <3>1. kept = [Last EXCEPT !.entries = kept.entries]
      BY <1>4, <1>17, <1>18
    <3>2. QED
      BY <3>1, <2>1, <1>17
  <2>3. QED
    BY <2>2, <1>17 DEF IndexRecord
\* A replaced index keeps all but its mark.
<1>20. ASSUME NEW k \in 1 .. Len(idx), k # Len(idx)
       PROVE  /\ idx'[k] \in IndexRecord /\ idx'[k].at = idx[k].at /\ idx'[k].length = idx[k].length
              /\ idx'[k].entries = idx[k].entries /\ idx'[k].freed = (idx[k].freed \/ FreesIndex(s, Last.at))
  <2>1. idx'[k] = [idx[k] EXCEPT !.freed = idx[k].freed \/ FreesIndex(s, Last.at)]
    BY <1>6, <1>12, <1>20
  <2>2. PICK j \in Nat \ {0} : idx[k] \in [length : {j}, at : Nat, freed : BOOLEAN, entries : [0 .. j - 1 -> Int]]
    BY <1>16 DEF IndexRecord
  <2>3. (idx[k].freed \/ FreesIndex(s, Last.at)) \in BOOLEAN
    OBVIOUS
  <2>4. idx'[k] \in [length : {j}, at : Nat, freed : BOOLEAN, entries : [0 .. j - 1 -> Int]]
    BY <2>1, <2>2, <2>3
  <2>5. QED
    BY <2>1, <2>2, <2>4 DEF IndexRecord
<1>21. idx'[Len(idx)] = kept
  BY <1>6, <1>12
<1>22. idx' \in Seq(IndexRecord) /\ Len(idx') = Len(idx) /\ idx' # <<>>
  <2>1. DOMAIN idx' = 1 .. Len(idx)
    BY <1>6, <1>12
  <2>2. \A k \in 1 .. Len(idx) : idx'[k] \in IndexRecord
    BY <1>19, <1>20, <1>21
  <2>3. idx' = [k \in 1 .. Len(idx) |-> idx'[k]]
    BY <1>6, <1>12
  <2>4. idx' \in Seq(IndexRecord) /\ Len(idx') = Len(idx)
    BY <2>2, <2>3, <1>12, IsASeq
  <2>5. QED
    BY <2>4, <1>12
<1>23. Last' = kept
  BY <1>21, <1>22 DEF Last
<1>24. \A k \in 1 .. Len(idx) : idx'[k].at = idx[k].at
  BY <1>18, <1>20, <1>21 DEF Last
<1>25. \A k \in 1 .. Len(idx) : Upto(k)' = Upto(k)
  <2> SUFFICES ASSUME NEW k \in 1 .. Len(idx) PROVE Upto(k)' = Upto(k)
    OBVIOUS
  <2>1. CASE k = Len(idx)
    BY <2>1, <1>10, <1>22 DEF Upto
  <2>2. CASE k # Len(idx)
    <3>1. k + 1 \in 1 .. Len(idx)
      BY <2>2, <1>14
    <3>2. QED
      BY <3>1, <2>2, <1>22, <1>24 DEF Upto
  <2>3. QED
    BY <2>1, <2>2
<1>26. SegTypes'
  BY <1>1, <1>5, <1>10, <1>11, <1>22 DEF SegTypes
<1>27. WriterInv'
  BY <1>1, <1>5, <1>10, <1>11, <1>22 DEF WriterInv, Claiming, Allocating, SegRecord
<1>28. Begin(o) <= seg.published /\ Begin(o) \in Nat
  <2>1. Begin(o) \in Nat /\ seg.published \in Nat
    BY <1>1, <1>8, Begins DEF SegRecord
  <2>2. Begin(seg.oldest) <= seg.published
    BY <1>1 DEF SegmentsInv
  <2>3. QED
    BY <2>1, <2>2, <1>7, <1>8
<1>29. SegmentsInv'
  <2>1. seg.next - o <= Last.length
    <3>1. seg.next - seg.oldest <= Last.length
      BY <1>1, <1>12 DEF SegmentsInv
    <3>2. QED
      BY <3>1, <1>1, <1>8, <1>17, <1>18 DEF SegRecord
  <2>2. QED
    BY <2>1, <1>1, <1>8, <1>10, <1>18, <1>22, <1>23, <1>28 DEF SegmentsInv
<1>30. IndexInv'
  <2>1. \A k \in 1 .. Len(idx') : idx'[k].at <= Last'.at /\ idx'[k].at <= seg'.published
    BY <1>1, <1>10, <1>18, <1>22, <1>23, <1>24 DEF IndexInv
  <2>2. ~Last'.freed
    BY <1>1, <1>12, <1>18, <1>23 DEF IndexInv
  <2>3. ASSUME NEW n \in o .. seg.next - 1
        PROVE  kept.entries[n % l] = n
    <3>1. n \in seg.oldest .. seg.next - 1 /\ n \notin seg.oldest .. o - 1 /\ n \in Nat
      BY <1>1, <1>8 DEF SegRecord
    <3>2. n % l \in 0 .. l - 1
      BY <3>1, <1>17
    <3>3. Last.entries[n % l] = n
      BY <3>1, <1>1, <1>12, <1>18 DEF IndexInv
    <3>4. QED
      BY <3>1, <3>2, <3>3, <1>18
  <2>4. ASSUME NEW e \in 0 .. l - 1
        PROVE  kept.entries[e] = NoSegment \/ kept.entries[e] \in o .. seg.next - 1
    <3>1. Last.entries[e] = NoSegment \/ Last.entries[e] \in seg.oldest .. seg.next - 1
      BY <1>1, <1>12, <1>18 DEF IndexInv
    <3>2. CASE Last.entries[e] \in seg.oldest .. o - 1
      BY <3>2, <1>18
    <3>3. CASE Last.entries[e] \notin seg.oldest .. o - 1
      <4>1. kept.entries[e] = Last.entries[e]
        BY <3>3, <1>18
      <4>2. \A x : x \in seg.oldest .. seg.next - 1 /\ x \notin seg.oldest .. o - 1 => x \in o .. seg.next - 1
        BY <1>1, <1>8 DEF SegRecord
      <4>3. QED
        BY <4>1, <4>2, <3>1, <3>3
    <3>4. QED
      BY <3>2, <3>3
  <2>5. ASSUME NEW k \in 1 .. Len(idx) - 1, NEW n \in Nat, n >= o, Begin(n) < idx'[k + 1].at
        PROVE  idx'[k].entries[n % idx'[k].length] = n
    <3>1. k \in 1 .. Len(idx) /\ k # Len(idx) /\ k + 1 \in 1 .. Len(idx)
      BY <1>14, <1>15
    <3>2. idx'[k].entries = idx[k].entries /\ idx'[k].length = idx[k].length /\ idx'[k + 1].at = idx[k + 1].at
      BY <3>1, <1>20, <1>24
    <3>3. n >= seg.oldest
      BY <2>5, <1>1, <1>8 DEF SegRecord
    <3>4. QED
      BY <3>2, <3>3, <2>5, <1>1 DEF IndexInv
  <2>6. QED
    BY <2>1, <2>2, <2>3, <2>4, <2>5, <1>10, <1>18, <1>22, <1>23 DEF IndexInv
<1>31. BoundInv'
  <2>1. ASSUME ~seg.late PROVE o = seg.next \/ seg.reserve - seg.size < Begin(o + 1)
    <3>1. o + 1 \in Nat
      BY <1>8
    <3>2. Begin(o + 1) \in Nat
      BY <3>1, Begins
    <3>3. QED
      BY <2>1, <3>2, <1>1, <1>7, <1>8 DEF SegRecord
  <2>2. QED
    BY <2>1, <1>1, <1>10, <1>12, <1>18, <1>23 DEF BoundInv, Touched
<1>32. ASSUME NEW r \in SegReaders PROVE ReaderInv(r)'
  <2>1. ReaderInv(r) /\ rd[r] \in ReaderRecord /\ rd'[r] = rd[r]
    BY <1>1, <1>5 DEF SegInv
  <2>2. rd[r].pc \in Attached \cup {"counted"} => Begin(o) <= rd[r].pos
    <3>1. Begin(seg.oldest) \in Nat /\ rd[r].pos \in Nat
      BY <1>1, <2>1, Begins DEF SegRecord, ReaderRecord
    <3>2. CASE rd[r].pc \in Attached
      BY <3>1, <3>2, <2>1, <1>7, <1>8, <1>28 DEF ReaderInv
    <3>3. CASE rd[r].pc = "counted"
      BY <3>3, <2>1, <1>5, <1>28 DEF ReaderInv
    <3>4. QED
      BY <3>2, <3>3
  \* The index of a span is not freed: the slowest reader has not reached its replacement.
  <2>3. ASSUME rd[r].pc = "span" PROVE SpanInv(rd[r].span)'
    <3>1. PICK k : k = rd[r].span.index
      OBVIOUS
    <3>2. SpanInv(rd[r].span) /\ rd[r].span.first = rd[r].pos /\ rd[r].span \in Span /\ s <= rd[r].pos
      BY <2>1, <2>3, <1>7 DEF ReaderInv, ReaderRecord, Attached
    <3>3. k \in 1 .. Len(idx) /\ ~idx[k].freed /\ rd[r].span.size >= 1 /\ rd[r].pos + rd[r].span.size <= Upto(k)
      BY <3>1, <3>2 DEF SpanInv
    <3>4. rd[r].pos \in Nat /\ rd[r].span.size \in Nat
      BY <3>2, <2>1 DEF ReaderRecord, Span
    <3>5. ~idx'[k].freed
      <4>1. CASE k = Len(idx)
        BY <4>1, <3>3, <1>18, <1>21 DEF Last
      <4>2. CASE k # Len(idx)
        <5>1. k + 1 \in 1 .. Len(idx) /\ Upto(k) = idx[k + 1].at
          BY <4>2, <3>3, <1>14 DEF Upto
        <5>2. Upto(k) <= Last.at /\ Upto(k) \in Nat /\ Last.at \in Nat
          BY <5>1, <1>1, <1>16, <1>17, <3>3, ReplacedBefore DEF IndexInv
        <5>3. ~FreesIndex(s, Last.at)
          BY <5>2, <3>2, <3>3, <3>4, <1>7 DEF FreesIndex
        <5>4. QED
          BY <5>3, <4>2, <3>3, <1>20
      <4>3. QED
        BY <4>1, <4>2
    <3>6. Upto(k)' = Upto(k)
      BY <3>3, <1>25
    <3>7. QED
      BY <3>1, <3>2, <3>3, <3>5, <3>6, <2>1, <1>22 DEF SpanInv
  <2>4. wr'.pc # "free"
    BY <1>11
  <2>5. QED
    BY <2>1, <2>2, <2>3, <2>4, <1>9, <1>10 DEF ReaderInv
<1>33. QED
  BY <1>26, <1>27, <1>29, <1>30, <1>31, <1>32 DEF SegInv

-----------------------------------------------------------------------------
(* The writer allocates, and publishes. *)

\* An index names the segments from..to - 1, each at its place, and no other.
Names(i, from, to) ==
  /\ \A n \in from .. to - 1 : i.entries[n % i.length] = n
  /\ \A e \in 0 .. i.length - 1 : i.entries[e] = NoSegment \/ i.entries[e] \in from .. to - 1

LEMMA EntriesApart ==
  ASSUME NEW length \in Nat \ {0}, NEW a \in Nat, NEW b \in Nat, a <= b, b < a + length, a % length = b % length
  PROVE  a = b
<1> DEFINE qa == a \div length
           qb == b \div length
           e  == a % length
<1>1. a = length * qa + e /\ b = length * qb + e
  OBVIOUS
<1>2. qa \in Int /\ qb \in Int /\ e \in Int
  OBVIOUS
<1> HIDE DEF qa, qb, e
<1>3. b - a = length * (qb - qa)
  BY <1>1, <1>2
<1>4. \A k \in Int : 0 <= length * k /\ length * k < length => k = 0
  OBVIOUS
<1>5. qb - qa = 0
  BY <1>2, <1>3, <1>4
<1>6. QED
  BY <1>1, <1>2, <1>5

LEMMA NewIndex ==
  ASSUME NEW length \in Nat \ {0}, NEW from \in Nat, NEW to \in Nat, NEW at \in Nat, to - from <= length,
         NEW i, i = IndexOf(length, from, to, at)
  PROVE  i \in IndexRecord /\ i.length = length /\ i.at = at /\ ~i.freed /\ Names(i, from, to)
<1> DEFINE Here(e) == {n \in from .. to - 1 : n % length = e}
           Entry(e) == IF Here(e) = {} THEN NoSegment ELSE Max(Here(e))
<1>1. i = [length |-> length, at |-> at, freed |-> FALSE, entries |-> [e \in 0 .. length - 1 |-> Entry(e)]]
  BY DEF IndexOf
<1>2. ASSUME NEW e, Here(e) # {} PROVE Max(Here(e)) \in Here(e)
  <2> DEFINE T == Here(e)
  <2>1. T \subseteq Nat /\ T # {} /\ \A x \in T : x <= to
    BY <1>2
  <2> HIDE DEF T
  <2>2. Max(T) \in T
    BY <2>1, GreatestOf
  <2>3. QED
    BY <2>2 DEF T
<1>3. ASSUME NEW e PROVE Entry(e) = NoSegment \/ Entry(e) \in from .. to - 1
  <2>1. CASE Here(e) = {}
    BY <2>1
  <2>2. CASE Here(e) # {}
    BY <2>2, <1>2
  <2>3. QED
    BY <2>1, <2>2
<1>4. ASSUME NEW n \in from .. to - 1 PROVE Entry(n % length) = n
  <2>1. n \in Here(n % length) /\ n \in Nat
    OBVIOUS
  <2>2. PICK m : m = Max(Here(n % length))
    OBVIOUS
  <2>3. m \in Here(n % length) /\ Entry(n % length) = m
    BY <2>1, <2>2, <1>2
  <2>4. m \in from .. to - 1 /\ m \in Nat /\ m % length = n % length
    BY <2>3
  <2>5. m = n
    <3>1. CASE m <= n
      <4>1. n < m + length
        BY <2>1, <2>4
      <4>2. QED
        BY <3>1, <4>1, <2>1, <2>4, EntriesApart
    <3>2. CASE n <= m
      <4>1. m < n + length
        BY <2>1, <2>4
      <4>2. QED
        BY <3>2, <4>1, <2>1, <2>4, EntriesApart
    <3>3. QED
      BY <3>1, <3>2, <2>1, <2>4
  <2>6. QED
    BY <2>3, <2>5
<1> HIDE DEF Entry, Here
<1>5. \A e \in 0 .. length - 1 : Entry(e) \in Int
  <2>1. \A x \in from .. to - 1 : x \in Int
    OBVIOUS
  <2>2. NoSegment \in Int
    BY DEF NoSegment
  <2>3. QED
    BY <2>1, <2>2, <1>3
<1>6. /\ i.entries = [e \in 0 .. length - 1 |-> Entry(e)] /\ i.length = length /\ i.at = at /\ i.freed = FALSE
  BY <1>1
<1>7. i \in IndexRecord
  <2>1. [e \in 0 .. length - 1 |-> Entry(e)] \in [0 .. length - 1 -> Int]
    BY <1>5
  <2>2. i \in [length : {length}, at : Nat, freed : BOOLEAN, entries : [0 .. length - 1 -> Int]]
    BY <2>1, <1>1
  <2>3. QED
    BY <2>2 DEF IndexRecord
<1>8. Names(i, from, to)
  <2>1. ASSUME NEW n \in from .. to - 1 PROVE i.entries[n % length] = n
    <3>1. n % length \in 0 .. length - 1
      BY <2>1
    <3>2. QED
      BY <3>1, <1>4, <1>6
  <2>2. ASSUME NEW e \in 0 .. length - 1 PROVE i.entries[e] = NoSegment \/ i.entries[e] \in from .. to - 1
    BY <1>3, <1>6
  <2>3. QED
    BY <2>1, <2>2, <1>6 DEF Names
<1>9. QED
  BY <1>6, <1>7, <1>8

LEMMA AddSegment ==
  ASSUME NEW i \in IndexRecord, NEW from \in Nat, NEW to \in Nat, from <= to, to - from < i.length, Names(i, from, to),
         NEW j, j = [i EXCEPT !.entries[to % i.length] = to]
  PROVE  j \in IndexRecord /\ j.length = i.length /\ j.at = i.at /\ j.freed = i.freed /\ Names(j, from, to + 1)
<1>1. PICK l \in Nat \ {0} : i \in [length : {l}, at : Nat, freed : BOOLEAN, entries : [0 .. l - 1 -> Int]]
  BY DEF IndexRecord
<1>2. i.length = l /\ i.entries \in [0 .. l - 1 -> Int]
  BY <1>1
<1>3. PICK place : place = to % l /\ place \in 0 .. l - 1
  <2>1. to % l \in 0 .. l - 1
    OBVIOUS
  <2>2. QED
    BY <2>1
<1>4. j = [i EXCEPT !.entries = [i.entries EXCEPT ![place] = to]]
  BY <1>2, <1>3
<1>5. [i.entries EXCEPT ![place] = to] \in [0 .. l - 1 -> Int]
  <2>1. PICK places : places = 0 .. l - 1
    OBVIOUS
  <2>2. i.entries \in [places -> Int] /\ to \in Int
    BY <1>2, <2>1
  <2>3. [i.entries EXCEPT ![place] = to] \in [places -> Int]
    BY <2>2
  <2>4. QED
    BY <2>1, <2>3
<1>6. /\ j \in [length : {l}, at : Nat, freed : BOOLEAN, entries : [0 .. l - 1 -> Int]]
      /\ j.entries = [i.entries EXCEPT ![place] = to] /\ j.length = l /\ j.at = i.at /\ j.freed = i.freed
  BY <1>1, <1>4, <1>5
<1>7. j.entries[place] = to /\ \A e \in 0 .. l - 1 : e # place => j.entries[e] = i.entries[e]
  BY <1>2, <1>3, <1>6
<1>8. ASSUME NEW n \in from .. to PROVE j.entries[n % l] = n
  <2>1. CASE n = to
    BY <2>1, <1>3, <1>7
  <2>2. CASE n # to
    <3>1. n \in from .. to - 1 /\ n \in Nat /\ n % l \in 0 .. l - 1
      BY <2>2
    <3>2. n % l # place
      <4>1. n <= to /\ to < n + l
        BY <3>1, <1>2
      <4>2. QED
        BY <4>1, <2>2, <3>1, <1>3, EntriesApart
    <3>3. QED
      BY <3>1, <3>2, <1>2, <1>7 DEF Names
  <2>3. QED
    BY <2>1, <2>2
<1>9. ASSUME NEW e \in 0 .. l - 1 PROVE j.entries[e] = NoSegment \/ j.entries[e] \in from .. to
  <2>1. CASE e = place
    BY <2>1, <1>7
  <2>2. CASE e # place
    <3>1. i.entries[e] = NoSegment \/ i.entries[e] \in from .. to - 1
      BY <1>2 DEF Names
    <3>2. \A x \in from .. to - 1 : x \in from .. to
      OBVIOUS
    <3>3. QED
      BY <2>2, <3>1, <3>2, <1>7
  <2>3. QED
    BY <2>1, <2>2
<1>10. Names(j, from, to + 1)
  <2>1. (to + 1) - 1 = to
    OBVIOUS
  <2>2. QED
    BY <2>1, <1>6, <1>8, <1>9 DEF Names
<1>11. QED
  BY <1>2, <1>6, <1>10 DEF IndexRecord

\* A step of Allocate that moves the writer only: nothing to allocate, or a full index.
LEMMA AllocateMoves ==
  ASSUME SegInv, wr.pc \in {"allocate", "grow"}, UNCHANGED <<seg, idx, rd>>,
         \/ ~(wr.writing > 0 /\ SegmentOf(wr.writing - 1) >= seg.next) /\ wr' = [wr EXCEPT !.pc = wr.ret]
         \/ Full /\ wr' = [wr EXCEPT !.pc = "round", !.resume = "grow"]
  PROVE  SegInv'
<1>1. wr \in WriterRecord /\ seg \in SegRecord /\ WriterInv /\ SegmentsInv /\ idx \in Seq(IndexRecord)
  BY DEF SegInv, SegTypes
<1>2. /\ wr.offset = seg.published /\ seg.reserve = wr.offset + wr.claimed /\ wr.claimed <= seg.size
      /\ wr.ret \in {"write", "publish"} /\ wr.writing <= seg.reserve
      /\ wr.ret = "publish" => wr.writing = wr.offset + wr.publish
  BY <1>1 DEF WriterInv, Claiming, Allocating
<1>3. CASE ~(wr.writing > 0 /\ SegmentOf(wr.writing - 1) >= seg.next) /\ wr' = [wr EXCEPT !.pc = wr.ret]
  <2>1. /\ wr' \in WriterRecord /\ wr'.pc = wr.ret /\ wr'.resume = wr.resume /\ wr'.ret = wr.ret /\ wr'.writing = wr.writing
        /\ wr'.offset = wr.offset /\ wr'.claimed = wr.claimed /\ wr'.publish = wr.publish /\ wr'.want = wr.want
    BY <1>1, <1>2, <1>3 DEF WriterRecord
  <2>2. wr.writing <= Begin(seg.next)
    <3>1. wr.writing \in Nat /\ seg.next \in Nat /\ Begin(seg.next) \in Nat
      BY <1>1, Begins DEF WriterRecord, SegRecord
    <3>2. CASE wr.writing = 0
      BY <3>1, <3>2
    <3>3. CASE wr.writing # 0
      <4>1. wr.writing - 1 \in Nat /\ wr.writing > 0
        BY <3>1, <3>3
      <4>2. ~(SegmentOf(wr.writing - 1) >= seg.next)
        BY <4>1, <1>3
      <4>3. SegmentOf(wr.writing - 1) \in Nat
        BY <4>1, SegmentOfPosition
      <4>4. Begin(seg.next) <= wr.writing - 1 => seg.next <= SegmentOf(wr.writing - 1)
        BY <3>1, <4>1, SegmentBefore
      <4>5. ~(Begin(seg.next) <= wr.writing - 1)
        BY <4>2, <4>3, <4>4, <3>1
      <4>6. QED
        BY <3>1, <4>1, <4>5
    <3>4. QED
      BY <3>2, <3>3
  <2>3. wr.ret = "publish" => wr.offset + wr.publish <= Begin(seg.next) /\ wr.publish <= wr.claimed
    BY <2>2, <1>1, <1>2 DEF WriterRecord
  <2>4. WriterInv'
    BY <1>1, <1>2, <2>1, <2>3 DEF WriterInv, Claiming, Allocating
  <2>5. wr'.pc \notin {"grow", "free"}
    BY <1>2, <2>1
  <2>6. QED
    BY <2>1, <2>4, <2>5, WriterMoves
<1>4. CASE Full /\ wr' = [wr EXCEPT !.pc = "round", !.resume = "grow"]
  <2>1. /\ wr' \in WriterRecord /\ wr'.pc = "round" /\ wr'.resume = "grow" /\ wr'.ret = wr.ret /\ wr'.writing = wr.writing
        /\ wr'.offset = wr.offset /\ wr'.claimed = wr.claimed /\ wr'.publish = wr.publish /\ wr'.want = wr.want
    BY <1>1, <1>4 DEF WriterRecord
  <2>2. idx # <<>> /\ seg.next - seg.oldest >= Last.length
    BY <1>4 DEF Full, Last
  <2>3. seg.oldest < seg.next
    <3>1. Last \in IndexRecord
      BY <2>2, <1>1 DEF Last
    <3>2. Last.length \in Nat \ {0}
      BY <3>1 DEF IndexRecord
    <3>3. QED
      BY <2>2, <3>2, <1>1 DEF SegRecord
  <2>4. WriterInv'
    BY <1>1, <1>2, <2>1, <2>2, <2>3 DEF WriterInv, Claiming, Allocating
  <2>5. QED
    BY <2>1, <2>4, WriterMoves
<1>5. QED
  BY <1>3, <1>4

\* A full index is doubled only when its length is within what a window touches.
LEMMA DoublingBounded ==
  ASSUME NEW length \in Nat, NEW oldest \in Nat, NEW next \in Nat, NEW reserve \in Nat, seg.size \in Nat,
         next = oldest + length, length >= 1, Begin(next) < reserve, reserve - seg.size < Begin(oldest + 1)
  PROVE  2 * length < 2 * Touched
<1>1. SegmentSlots \in Nat /\ SegmentSlots >= 1
  BY SegAssumption
<1> DEFINE inside == (length - 1) * SegmentSlots
<1>2. Begin(next) = Begin(oldest + 1) + inside /\ inside \in Nat /\ Begin(next) \in Nat /\ Begin(oldest + 1) \in Nat
  <2>1. next = (oldest + 1) + (length - 1) /\ length - 1 \in Nat /\ oldest + 1 \in Nat
    OBVIOUS
  <2>2. PICK a \in Nat : a = oldest + 1
    OBVIOUS
  <2>3. PICK b \in Nat : b = length - 1
    BY <2>1
  <2>4. (a + b) * SegmentSlots = (a * SegmentSlots) + (b * SegmentSlots) /\ a * SegmentSlots \in Nat /\ b * SegmentSlots \in Nat
    BY <1>1
  <2>5. next = a + b
    BY <2>1, <2>2, <2>3
  <2>6. QED
    BY <2>2, <2>3, <2>4, <2>5 DEF Begin
<1>3. inside = (length * SegmentSlots) - SegmentSlots /\ length * SegmentSlots \in Nat
  BY <1>1
<1> HIDE DEF inside
<1>4. inside + 2 <= seg.size
  BY <1>2
<1> DEFINE w == seg.size + 2 * SegmentSlots - 2
           q == w \div SegmentSlots
           m == w % SegmentSlots
<1>5. w \in Nat /\ (length + 1) * SegmentSlots <= w
  <2>1. (length + 1) * SegmentSlots = (length * SegmentSlots) + SegmentSlots
    BY <1>1
  <2>2. QED
    BY <2>1, <1>1, <1>3, <1>4
<1> HIDE DEF w
<1>6. q \in Int /\ m \in Int /\ m < SegmentSlots /\ w = (SegmentSlots * q) + m
  BY <1>1, <1>5
<1> HIDE DEF q, m
<1>7. ~(q <= length)
  <2> SUFFICES ASSUME q <= length PROVE FALSE
    OBVIOUS
  <2>1. PICK d \in Nat : length = q + d
    <3>1. length - q \in Nat /\ length = q + (length - q)
      BY <1>6
    <3>2. QED
      BY <3>1
  <2>2. length * SegmentSlots = (SegmentSlots * q) + (SegmentSlots * d) /\ SegmentSlots * d \in Nat /\ SegmentSlots * q \in Int
    BY <2>1, <1>1, <1>6
  <2>3. (length + 1) * SegmentSlots = (length * SegmentSlots) + SegmentSlots
    BY <1>1
  <2>4. QED
    BY <2>2, <2>3, <1>1, <1>5, <1>6
<1>8. Touched = q
  BY DEF Touched, q, w
<1>9. QED
  BY <1>6, <1>7, <1>8

\* The list of indexes that a new segment enters: its last one has room, and names every
\* allocated segment.
LEMMA RoomForSegment ==
  ASSUME SegInv, wr.pc \in {"allocate", "grow"}, wr.pc = "grow" \/ ~Full, Begin(seg.next) < seg.reserve,
         NEW J, J = IF idx = <<>> THEN replaceIndex(InitialLength)
                    ELSE IF Full THEN replaceIndex(2 * idx[Len(idx)].length) ELSE idx
  PROVE  /\ J \in Seq(IndexRecord) /\ Len(J) \in {Len(idx), Len(idx) + 1} /\ J # <<>>
         /\ \A k \in 1 .. Len(idx) : J[k] = idx[k]
         /\ Len(J) # Len(idx) => J[Len(J)].at = seg.published
         /\ ~J[Len(J)].freed /\ Names(J[Len(J)], seg.oldest, seg.next)
         /\ seg.next - seg.oldest < J[Len(J)].length
         /\ ~seg.late => J[Len(J)].length = InitialLength \/ J[Len(J)].length < 2 * Touched
<1>1. /\ wr \in WriterRecord /\ seg \in SegRecord /\ WriterInv /\ SegmentsInv /\ IndexInv /\ BoundInv
      /\ idx \in Seq(IndexRecord) /\ Len(idx) \in Nat
  BY DEF SegInv, SegTypes
<1>2. seg.oldest \in Nat /\ seg.next \in Nat /\ seg.published \in Nat /\ seg.oldest <= seg.next
  BY <1>1 DEF SegRecord, SegmentsInv
<1>3. ASSUME NEW length \in Nat \ {0}, seg.next - seg.oldest < length, J = replaceIndex(length)
      PROVE  /\ J \in Seq(IndexRecord) /\ Len(J) = Len(idx) + 1 /\ J # <<>>
             /\ \A k \in 1 .. Len(idx) : J[k] = idx[k]
             /\ J[Len(J)].at = seg.published /\ ~J[Len(J)].freed /\ Names(J[Len(J)], seg.oldest, seg.next)
             /\ J[Len(J)].length = length
  <2>1. PICK from \in Nat, to \in Nat, at \in Nat : from = seg.oldest /\ to = seg.next /\ at = seg.published
    BY <1>2
  <2>2. PICK i : i = IndexOf(length, from, to, at)
    OBVIOUS
  <2>3. to - from <= length
    BY <2>1, <1>3
  <2>4. i \in IndexRecord /\ i.length = length /\ i.at = at /\ ~i.freed /\ Names(i, from, to)
    BY <2>2, <2>3, NewIndex
  <2>5. i \in IndexRecord /\ i.length = length /\ i.at = seg.published /\ ~i.freed /\ Names(i, seg.oldest, seg.next)
    BY <2>1, <2>4
  <2>6. J = Append(idx, i)
    BY <2>1, <2>2, <1>3 DEF replaceIndex
  <2>7. J \in Seq(IndexRecord) /\ Len(J) = Len(idx) + 1 /\ J[Len(idx) + 1] = i /\ \A k \in 1 .. Len(idx) : J[k] = idx[k]
    BY SMTT(30), <2>5, <2>6, <1>1
  <2>8. QED
    BY <2>5, <2>7, <1>1
<1>4. CASE idx = <<>>
  <2>1. J = replaceIndex(InitialLength)
    BY <1>4
  <2>2. seg.next - seg.oldest < InitialLength /\ InitialLength \in Nat \ {0}
    BY <1>1, <1>2, <1>4, SegAssumption DEF SegmentsInv
  <2>3. QED
    BY <2>1, <2>2, <1>3
<1>5. CASE idx # <<>> /\ ~Full
  <2>1. J = idx /\ J[Len(J)] = Last
    BY <1>5 DEF Last
  <2>2. ~(seg.next - seg.oldest >= Last.length)
    BY <1>5 DEF Full, Last
  <2>3. Last \in IndexRecord
    BY <1>1, <1>5 DEF Last
  <2>4. Last.length \in Nat \ {0}
    BY <2>3 DEF IndexRecord
  <2>5. seg.next - seg.oldest < Last.length
    BY <2>2, <2>4, <1>2
  <2>6. Names(Last, seg.oldest, seg.next) /\ ~Last.freed
    BY <1>1, <1>5 DEF IndexInv, Names
  <2>7. ~seg.late => Last.length = InitialLength \/ Last.length < 2 * Touched
    BY <1>1, <1>5 DEF BoundInv
  <2>8. QED
    BY <2>1, <2>5, <2>6, <2>7, <1>1, <1>5
<1>6. CASE idx # <<>> /\ Full
  <2>1. PICK length : length = Last.length
    OBVIOUS
  <2>2. Last \in IndexRecord
    BY <1>1, <1>6 DEF Last
  <2>3. length \in Nat /\ length >= 1
    BY <2>1, <2>2 DEF IndexRecord
  <2>4. seg.next - seg.oldest = length
    <3>1. seg.next - seg.oldest >= length
      BY <2>1, <1>6 DEF Full, Last
    <3>2. seg.next - seg.oldest <= length
      BY <2>1, <1>1, <1>6 DEF SegmentsInv
    <3>3. QED
      BY <3>1, <3>2, <2>3, <1>2
  <2>5. J = replaceIndex(2 * length)
    BY <2>1, <1>6 DEF Last
  <2>6. 2 * length \in Nat \ {0} /\ seg.next - seg.oldest < 2 * length
    BY <2>3, <2>4
  <2>7. ASSUME ~seg.late PROVE 2 * length < 2 * Touched
    <3>1. wr.pc = "grow"
      BY <1>6
    <3>2. seg.oldest # seg.next
      BY <2>3, <2>4, <1>2
    <3>3. seg.reserve - seg.size < Begin(seg.oldest + 1)
      BY <2>7, <3>1, <3>2, <1>1 DEF BoundInv
    <3>4. seg.next = seg.oldest + length /\ seg.reserve \in Nat /\ seg.size \in Nat
      BY <2>3, <2>4, <1>1, <1>2 DEF SegRecord
    <3>5. QED
      BY <3>3, <3>4, <2>3, <1>2, DoublingBounded
  <2>8. J[Len(J)].length = 2 * length
    BY <2>5, <2>6, <1>3
  <2>9. QED
    BY <2>5, <2>6, <2>7, <2>8, <1>3
<1>7. QED
  BY <1>4, <1>5, <1>6

\* A segment that is needed lies below the reserved position.
LEMMA NeededIsReserved ==
  ASSUME SegInv, wr.pc \in {"allocate", "grow"}, wr.writing > 0, SegmentOf(wr.writing - 1) >= seg.next
  PROVE  Begin(seg.next) < seg.reserve
<1>1. wr \in WriterRecord /\ seg \in SegRecord /\ WriterInv
  BY DEF SegInv, SegTypes
<1>2. /\ seg.next \in Nat /\ seg.reserve \in Nat /\ wr.writing \in Nat /\ wr.writing <= seg.reserve /\ Begin(seg.next) \in Nat
  BY <1>1, Begins DEF SegRecord, WriterInv, WriterRecord, Allocating
<1>3. wr.writing - 1 \in Nat
  BY <1>2
<1>4. wr.writing - 1 < Begin(seg.next) => SegmentOf(wr.writing - 1) < seg.next
  BY <1>2, <1>3, SegmentBefore
<1>5. SegmentOf(wr.writing - 1) \in Nat
  BY <1>3, SegmentOfPosition
<1>6. QED
  BY <1>2, <1>3, <1>4, <1>5

\* The step of Allocate that adds a segment: j is the last index i of the list J with it.
LEMMA AddKeepsInv ==
  ASSUME SegInv, wr.pc \in {"allocate", "grow"},
         NEW J \in Seq(IndexRecord), NEW L, L = Len(J), L \in {Len(idx), Len(idx) + 1}, J # <<>>,
         \A k \in 1 .. Len(idx) : J[k] = idx[k],
         NEW i \in IndexRecord, i = J[L], L # Len(idx) => i.at = seg.published, ~i.freed, seg.next - seg.oldest < i.length,
         ~seg.late => i.length = InitialLength \/ i.length < 2 * Touched,
         NEW j \in IndexRecord, j.length = i.length, j.at = i.at, j.freed = i.freed, Names(j, seg.oldest, seg.next + 1),
         idx' = [J EXCEPT ![L] = j],
         seg' = [seg EXCEPT !.next = @ + 1], wr' = [wr EXCEPT !.pc = "allocate"], rd' = rd
  PROVE  SegInv'
<1>1. /\ wr \in WriterRecord /\ seg \in SegRecord /\ WriterInv /\ SegmentsInv /\ IndexInv /\ BoundInv
      /\ idx \in Seq(IndexRecord) /\ Len(idx) \in Nat /\ rd \in [SegReaders -> ReaderRecord]
  BY DEF SegInv, SegTypes
<1>2. /\ seg.oldest \in Nat /\ seg.next \in Nat /\ seg.published \in Nat /\ seg.reserve \in Nat /\ seg.oldest <= seg.next
      /\ Begin(seg.next) \in Nat
  BY <1>1, Begins DEF SegRecord, SegmentsInv
<1>3. L \in Nat /\ L >= 1 /\ L \in {Len(idx), Len(idx) + 1} /\ L \in 1 .. L /\ DOMAIN J = 1 .. L
  BY <1>1
<1>4. idx' \in Seq(IndexRecord) /\ Len(idx') = L /\ idx' # <<>>
  BY <1>3
<1>5. Len(idx') = L /\ idx' # <<>> /\ idx'[L] = j /\ \A k \in 1 .. L : k # L => idx'[k] = J[k]
  BY <1>3, <1>4
<1>6. Last' = j
  BY <1>5 DEF Last
<1>7. \A k \in 1 .. Len(idx) : k \in 1 .. L /\ idx'[k].at = idx[k].at /\ idx'[k].freed = idx[k].freed
  <2> SUFFICES ASSUME NEW k \in 1 .. Len(idx) PROVE k \in 1 .. L /\ idx'[k].at = idx[k].at /\ idx'[k].freed = idx[k].freed
    OBVIOUS
  <2>1. k \in 1 .. L
    BY <1>1, <1>3
  <2>2. CASE k = L
    BY <2>1, <2>2, <1>5
  <2>3. CASE k # L
    BY <2>1, <2>3, <1>5
  <2>4. QED
    BY <2>1, <2>2, <2>3
<1>8. /\ seg' \in SegRecord /\ seg'.size = seg.size /\ seg'.published = seg.published /\ seg'.reserve = seg.reserve
       /\ seg'.readers = seg.readers /\ seg'.generation = seg.generation /\ seg'.snapGen = seg.snapGen
       /\ seg'.snap = seg.snap /\ seg'.next = seg.next + 1 /\ seg'.oldest = seg.oldest /\ seg'.late = seg.late
  <2>1. seg.next + 1 \in Nat
    BY <1>2
  <2>2. seg' \in SegRecord
    BY <2>1, <1>1 DEF SegRecord
  <2>3. QED
    BY <2>2, <1>1 DEF SegRecord
<1>9. /\ wr' \in WriterRecord /\ wr'.pc = "allocate" /\ wr'.resume = wr.resume
       /\ wr'.ret = wr.ret /\ wr'.writing = wr.writing /\ wr'.offset = wr.offset /\ wr'.claimed = wr.claimed
       /\ wr'.publish = wr.publish /\ wr'.want = wr.want
  BY <1>1 DEF WriterRecord
\* What a replaced index has to name is what was published when it was replaced.
<1>10. \A k \in 1 .. Len(idx) : Upto(k)' = Upto(k)
  <2> SUFFICES ASSUME NEW k \in 1 .. Len(idx) PROVE Upto(k)' = Upto(k)
    OBVIOUS
  <2>1. Upto(k)' = IF k = L THEN seg.published ELSE idx'[k + 1].at
    <3>1. Len(idx') = L /\ seg'.published = seg.published
      BY <1>5, <1>8
    <3>2. Upto(k)' = IF k = Len(idx') THEN seg'.published ELSE idx'[k + 1].at
      BY DEF Upto
    <3>3. QED
      BY <3>1, <3>2
  <2>2. CASE k # Len(idx)
    <3>1. k + 1 \in 1 .. Len(idx) /\ k # L
      BY <2>2, <1>1, <1>3
    <3>2. idx'[k + 1].at = idx[k + 1].at
      BY <3>1, <1>7
    <3>3. QED
      BY <3>1, <3>2, <2>1, <2>2 DEF Upto
  <2>3. CASE k = Len(idx) /\ L = Len(idx)
    BY <2>1, <2>3 DEF Upto
  <2>4. CASE k = Len(idx) /\ L # Len(idx)
    <3>1. k + 1 = L /\ k # L
      BY <2>4, <1>1, <1>3
    <3>2. idx'[L].at = seg.published
      BY <2>4, <1>5
    <3>3. QED
      BY <3>1, <3>2, <2>1, <2>4 DEF Upto
  <2>5. QED
    BY <2>2, <2>3, <2>4
<1>11. SegTypes'
  BY <1>1, <1>4, <1>8, <1>9 DEF SegTypes
<1>12. WriterInv'
  BY <1>1, <1>8, <1>9 DEF WriterInv, Claiming, Allocating
<1>13. SegmentsInv'
  <2>1. seg.next + 1 \in Nat /\ Begin(seg.next) <= Begin(seg.next + 1) /\ Begin(seg.next + 1) \in Nat
    <3>1. seg.next + 1 \in Nat /\ seg.next <= seg.next + 1
      BY <1>2
    <3>2. QED
      BY <3>1, <1>2, Begins
  <2>2. seg.published <= Begin(seg.next + 1)
    BY <2>1, <1>1, <1>2 DEF SegmentsInv
  <2>3. i.length \in Nat
    <3>1. PICK l \in Nat \ {0} : i \in [length : {l}, at : Nat, freed : BOOLEAN, entries : [0 .. l - 1 -> Int]]
      BY DEF IndexRecord
    <3>2. QED
      BY <3>1
  <2>4. (seg.next + 1) - seg.oldest <= j.length
    BY <2>3, <1>2
  <2>5. seg'.oldest <= seg'.next /\ Begin(seg'.oldest) <= seg'.published /\ seg'.published <= Begin(seg'.next)
    <3>1. seg.oldest <= seg.next + 1 /\ Begin(seg.oldest) <= seg.published
      BY <1>1, <1>2 DEF SegmentsInv
    <3>2. QED
      BY <2>2, <3>1, <1>8
  <2>6. idx' # <<>> /\ seg'.next - seg'.oldest <= Last'.length
    BY <2>4, <1>5, <1>6, <1>8
  <2>7. QED
    BY <2>5, <2>6 DEF SegmentsInv
<1>14. IndexInv'
  <2>1. ASSUME NEW k \in 1 .. L PROVE idx'[k].at <= j.at /\ idx'[k].at <= seg.published
    <3>1. j.at \in Nat /\ j.at <= seg.published /\ \A q \in 1 .. Len(idx) : idx[q].at <= j.at
      <4>1. CASE L = Len(idx)
        <5>1. i = Last
          BY <4>1, <1>3 DEF Last
        <5>2. i.at \in Nat
          BY DEF IndexRecord
        <5>3. Last.at <= seg.published /\ \A q \in 1 .. Len(idx) : idx[q].at <= Last.at
          BY <4>1, <1>1, <1>3 DEF IndexInv, Last
        <5>4. QED
          BY <5>1, <5>2, <5>3
      <4>2. CASE L # Len(idx)
        <5>1. j.at = seg.published
          BY <4>2
        <5>2. \A q \in 1 .. Len(idx) : idx[q].at <= seg.published
          BY <1>1 DEF IndexInv
        <5>3. QED
          BY <5>1, <5>2, <1>2
      <4>3. QED
        BY <4>1, <4>2
    <3>2. CASE k = L
      <4>1. idx'[k] = j
        BY <3>2, <1>5
      <4>2. j.at \in Nat /\ j.at <= seg.published
        BY <3>1
      <4>3. j.at <= j.at
        BY <4>2
      <4>4. QED
        BY <4>1, <4>2, <4>3
    <3>3. CASE k # L
      <4>1. k \in 1 .. Len(idx)
        BY <3>3, <1>1, <1>3
      <4>2. QED
        BY <4>1, <3>1, <1>1, <1>7 DEF IndexInv
    <3>4. QED
      BY <3>2, <3>3
  <2>2. ~j.freed
    OBVIOUS
  <2>3. ASSUME NEW k \in 1 .. L - 1, NEW n \in Nat, n >= seg.oldest, Begin(n) < idx'[k + 1].at
        PROVE  idx'[k].entries[n % idx'[k].length] = n
    <3>1. k \in 1 .. Len(idx) /\ k \in 1 .. L /\ k # L
      BY <1>1, <1>3
    <3>2. idx'[k] = idx[k]
      BY <3>1, <1>5
    <3>3. CASE k # Len(idx)
      <4>1. k \in 1 .. Len(idx) - 1 /\ k + 1 \in 1 .. Len(idx)
        BY <3>1, <3>3, <1>1
      <4>2. idx'[k + 1].at = idx[k + 1].at
        BY <4>1, <1>7
      <4>3. QED
        BY <3>2, <4>1, <4>2, <2>3, <1>1 DEF IndexInv
    <3>4. CASE k = Len(idx)
      <4>1. k + 1 = L /\ idx # <<>> /\ L # Len(idx)
        BY <3>1, <3>4, <1>1, <1>3
      <4>2. Begin(n) < seg.published
        BY <4>1, <2>3, <1>5
      <4>3. n < seg.next
        <5>1. seg.next <= n => Begin(seg.next) <= Begin(n)
          BY <1>2, Begins
        <5>2. Begin(n) \in Nat /\ seg.published <= Begin(seg.next)
          BY <1>1, Begins DEF SegmentsInv
        <5>3. QED
          BY <5>1, <5>2, <4>2, <1>2
      <4>4. n \in seg.oldest .. seg.next - 1
        BY <4>3, <2>3, <1>2
      <4>5. Last.entries[n % Last.length] = n
        BY <4>1, <4>4, <1>1 DEF IndexInv
      <4>6. QED
        BY <4>5, <3>2, <3>4 DEF Last
    <3>5. QED
      BY <3>3, <3>4
  <2>4. \A k \in 1 .. Len(idx') : idx'[k].at <= Last'.at /\ idx'[k].at <= seg'.published
    <3>1. Len(idx') = L /\ Last' = j /\ seg'.published = seg.published
      BY <1>5, <1>6, <1>8
    <3>2. \A k \in 1 .. L : idx'[k].at <= j.at /\ idx'[k].at <= seg.published
      BY <2>1
    <3>3. QED
      BY <3>1, <3>2
  <2>5. /\ ~Last'.freed
        /\ \A n \in seg'.oldest .. seg'.next - 1 : Last'.entries[n % Last'.length] = n
        /\ \A e \in 0 .. Last'.length - 1 : Last'.entries[e] = NoSegment \/ Last'.entries[e] \in seg'.oldest .. seg'.next - 1
    BY <2>2, <1>6, <1>8 DEF Names
  <2>6. \A k \in 1 .. Len(idx') - 1 : \A n \in Nat :
          n >= seg'.oldest /\ Begin(n) < idx'[k + 1].at => idx'[k].entries[n % idx'[k].length] = n
    <3>1. Len(idx') = L /\ seg'.oldest = seg.oldest
      BY <1>5, <1>8
    <3>2. \A k \in 1 .. L - 1 : \A n \in Nat :
            n >= seg.oldest /\ Begin(n) < idx'[k + 1].at => idx'[k].entries[n % idx'[k].length] = n
      BY <2>3
    <3>3. QED
      BY <3>1, <3>2
  <2>7. QED
    BY <2>4, <2>5, <2>6 DEF IndexInv
<1>15. BoundInv'
  BY <1>6, <1>8, <1>9 DEF BoundInv, Touched
<1>16. ASSUME NEW r \in SegReaders PROVE ReaderInv(r)'
  <2>1. ReaderInv(r) /\ rd' = rd
    BY DEF SegInv
  <2>2. ASSUME rd[r].pc = "span" PROVE SpanInv(rd[r].span)'
    <3>1. PICK k : k = rd[r].span.index
      OBVIOUS
    <3>2. SpanInv(rd[r].span)
      BY <2>1, <2>2 DEF ReaderInv
    <3>3. k \in 1 .. Len(idx) /\ ~idx[k].freed
      BY <3>1, <3>2 DEF SpanInv
    <3>4. k \in 1 .. Len(idx') /\ ~idx'[k].freed /\ Upto(k)' = Upto(k)
      BY <3>3, <1>5, <1>7, <1>10
    <3>5. QED
      BY <3>1, <3>2, <3>4, <2>1 DEF SpanInv
  <2>3. QED
    BY <2>1, <2>2, <1>8, <1>9 DEF ReaderInv
<1>17. QED
  BY <1>11, <1>12, <1>13, <1>14, <1>15, <1>16 DEF SegInv

LEMMA AllocateKeepsInv ==
  ASSUME SegInv, Allocate
  PROVE  SegInv'
<1> DEFINE needed == wr.writing > 0 /\ SegmentOf(wr.writing - 1) >= seg.next
<1>1. wr.pc \in {"allocate", "grow"} /\ rd' = rd
  BY SMTT(30) DEF Allocate
<1>2. CASE ~needed /\ wr' = [wr EXCEPT !.pc = wr.ret] /\ UNCHANGED <<seg, idx>>
  BY <1>1, <1>2, AllocateMoves
<1>3. CASE needed /\ wr.pc = "allocate" /\ Full /\ wr' = [wr EXCEPT !.pc = "round", !.resume = "grow"] /\ UNCHANGED <<seg, idx>>
  BY <1>1, <1>3, AllocateMoves
<1>4. PICK J : J = IF idx = <<>> THEN replaceIndex(InitialLength)
                   ELSE IF Full THEN replaceIndex(2 * idx[Len(idx)].length) ELSE idx
  OBVIOUS
<1>5. CASE /\ needed /\ (wr.pc = "grow" \/ ~Full)
           /\ idx' = [J EXCEPT ![Len(J)].entries[seg.next % J[Len(J)].length] = seg.next]
           /\ seg' = [seg EXCEPT !.next = @ + 1]
           /\ wr' = [wr EXCEPT !.pc = "allocate"]
  <2>1. Begin(seg.next) < seg.reserve
    BY <1>1, <1>5, NeededIsReserved
  <2>2. /\ J \in Seq(IndexRecord) /\ Len(J) \in {Len(idx), Len(idx) + 1} /\ J # <<>>
        /\ \A k \in 1 .. Len(idx) : J[k] = idx[k]
        /\ Len(J) # Len(idx) => J[Len(J)].at = seg.published
        /\ ~J[Len(J)].freed /\ Names(J[Len(J)], seg.oldest, seg.next)
        /\ seg.next - seg.oldest < J[Len(J)].length
        /\ ~seg.late => J[Len(J)].length = InitialLength \/ J[Len(J)].length < 2 * Touched
    BY SMTT(30), <2>1, <1>1, <1>4, <1>5, RoomForSegment
  <2>3. PICK L : L = Len(J)
    OBVIOUS
  <2>4. L \in 1 .. Len(J)
    BY <2>2, <2>3
  <2>5. PICK i \in IndexRecord : i = J[L]
    BY <2>2, <2>4
  <2>6. PICK from \in Nat, to \in Nat : from = seg.oldest /\ to = seg.next /\ from <= to
    BY DEF SegInv, SegTypes, SegRecord, SegmentsInv
  <2>7. PICK j : j = [i EXCEPT !.entries[to % i.length] = to]
    OBVIOUS
  <2>8. to - from < i.length /\ Names(i, from, to)
    BY <2>2, <2>3, <2>5, <2>6
  <2>9. j \in IndexRecord /\ j.length = i.length /\ j.at = i.at /\ j.freed = i.freed /\ Names(j, from, to + 1)
    BY <2>6, <2>7, <2>8, AddSegment
  <2>10. idx' = [J EXCEPT ![L] = j]
    BY <1>5, <2>3, <2>5, <2>6, <2>7
  <2>11. /\ L # Len(idx) => i.at = seg.published
         /\ ~i.freed /\ seg.next - seg.oldest < i.length
         /\ ~seg.late => i.length = InitialLength \/ i.length < 2 * Touched
    BY <2>2, <2>3, <2>5
  <2>12. Names(j, seg.oldest, seg.next + 1) /\ seg' = [seg EXCEPT !.next = @ + 1] /\ wr' = [wr EXCEPT !.pc = "allocate"]
    BY <2>6, <2>9, <1>5
  <2>13. QED
    BY <2>2, <2>3, <2>5, <2>9, <2>10, <2>11, <2>12, <1>1, AddKeepsInv
<1>6. QED
  BY SMTT(30), <1>2, <1>3, <1>4, <1>5 DEF Allocate

LEMMA PublishKeepsInv ==
  ASSUME SegInv, Publish
  PROVE  SegInv'
<1>1. /\ wr \in WriterRecord /\ seg \in SegRecord /\ WriterInv /\ SegmentsInv /\ IndexInv /\ BoundInv
      /\ idx \in Seq(IndexRecord) /\ Len(idx) \in Nat /\ rd \in [SegReaders -> ReaderRecord] /\ wr.pc = "publish"
      /\ idx' = idx /\ rd' = rd
  BY DEF SegInv, SegTypes, Publish
<1>2. PICK p : p = wr.offset + wr.publish
  OBVIOUS
<1>3. /\ p \in Nat /\ seg.published <= p /\ p <= seg.reserve /\ p <= Begin(seg.next)
      /\ seg.published \in Nat /\ seg.reserve \in Nat /\ seg.size \in Nat /\ Begin(seg.next) \in Nat /\ Begin(seg.oldest) \in Nat
  <2>1. /\ wr.offset = seg.published /\ seg.reserve = wr.offset + wr.claimed
        /\ wr.offset + wr.publish <= Begin(seg.next) /\ wr.publish <= wr.claimed
    BY <1>1 DEF WriterInv, Claiming
  <2>2. wr.offset \in Nat /\ wr.publish \in Nat /\ wr.claimed \in Nat /\ seg.published \in Nat /\ seg.reserve \in Nat /\ seg.size \in Nat
    BY <1>1 DEF WriterRecord, SegRecord
  <2>3. Begin(seg.next) \in Nat /\ Begin(seg.oldest) \in Nat
    BY <1>1, Begins DEF SegRecord
  <2>4. QED
    BY <1>2, <2>1, <2>2, <2>3
<1>4. seg' = [seg EXCEPT !.published = p, !.reserve = p] /\ wr' = [wr EXCEPT !.pc = "idle", !.claimed = 0]
  BY <1>2 DEF Publish
<1>5. /\ seg' \in SegRecord /\ seg'.size = seg.size /\ seg'.published = p /\ seg'.reserve = p
      /\ seg'.readers = seg.readers /\ seg'.generation = seg.generation /\ seg'.snapGen = seg.snapGen
      /\ seg'.snap = seg.snap /\ seg'.next = seg.next /\ seg'.oldest = seg.oldest /\ seg'.late = seg.late
  <2>1. seg' \in SegRecord
    BY <1>1, <1>3, <1>4 DEF SegRecord
  <2>2. QED
    BY <2>1, <1>1, <1>4 DEF SegRecord
<1>6. wr' \in WriterRecord /\ wr'.pc = "idle"
  BY <1>1, <1>4 DEF WriterRecord
<1>7. SegTypes'
  BY <1>1, <1>5, <1>6 DEF SegTypes
<1>8. WriterInv'
  BY <1>1, <1>5, <1>6 DEF WriterInv, Claiming, Allocating
<1>9. SegmentsInv'
  <2>1. Begin(seg.oldest) <= p
    BY <1>1, <1>3 DEF SegmentsInv
  <2>2. QED
    BY <2>1, <1>1, <1>3, <1>5 DEF SegmentsInv, Last
<1>10. \A k \in 1 .. Len(idx) : idx[k].at \in Nat
  BY <1>1 DEF IndexRecord
<1>11. IndexInv'
  <2>1. \A k \in 1 .. Len(idx) : idx[k].at <= p
    BY <1>1, <1>3, <1>10 DEF IndexInv
  <2>2. QED
    BY <2>1, <1>1, <1>5 DEF IndexInv, Last
<1>12. BoundInv'
  BY <1>1, <1>5, <1>6 DEF BoundInv, Last, Touched
\* What is published was claimed: it is within the window of every reader.
<1>13. ASSUME NEW r \in SegReaders PROVE ReaderInv(r)'
  <2>1. ReaderInv(r) /\ rd[r] \in ReaderRecord
    BY <1>1 DEF SegInv
  <2>2. rd[r].pos \in Nat /\ rd[r].avail \in Nat /\ rd[r].span \in Span
    BY <2>1 DEF ReaderRecord
  <2>3. rd[r].pos <= p
    BY <2>1, <2>2, <1>3 DEF ReaderInv
  <2>4. rd[r].pc = "got" => rd[r].pos + rd[r].avail <= p
    BY <2>1, <2>2, <1>3 DEF ReaderInv
  <2>5. seg.reserve - seg.size <= rd[r].pos => p - seg.size <= rd[r].pos
    BY <2>2, <1>3
  <2>6. ASSUME rd[r].pc = "span" PROVE SpanInv(rd[r].span)'
    <3>1. PICK k : k = rd[r].span.index
      OBVIOUS
    <3>2. SpanInv(rd[r].span) /\ rd[r].span.first \in Nat /\ rd[r].span.size \in Nat
      BY <2>1, <2>2, <2>6 DEF ReaderInv, Span
    <3>3. k \in 1 .. Len(idx) /\ ~idx[k].freed /\ rd[r].span.first + rd[r].span.size <= Upto(k) /\ rd[r].span.size >= 1
      BY <3>1, <3>2 DEF SpanInv
    <3>4. rd[r].span.first + rd[r].span.size <= Upto(k)'
      <4>1. CASE k = Len(idx)
        <5>1. Upto(k) = seg.published /\ Upto(k)' = p
          BY <4>1, <1>1, <1>5 DEF Upto
        <5>2. QED
          BY <5>1, <3>2, <3>3, <1>3
      <4>2. CASE k # Len(idx)
        BY <4>2, <3>3, <1>1 DEF Upto
      <4>3. QED
        BY <4>1, <4>2
    <3>5. QED
      BY <3>1, <3>3, <3>4, <1>1 DEF SpanInv
  <2>7. QED
    BY <2>1, <2>3, <2>4, <2>5, <2>6, <1>1, <1>5, <1>6 DEF ReaderInv
<1>14. QED
  BY <1>7, <1>8, <1>9, <1>11, <1>12, <1>13 DEF SegInv

-----------------------------------------------------------------------------
(* The specification. *)

LEMMA InitHasInv == SegInit => SegInv
<1> SUFFICES ASSUME SegInit PROVE SegInv
  OBVIOUS
<1>1. PICK n \in SegSizes, at \in SUBSET SegReaders :
        /\ seg = [size |-> n, published |-> 0, reserve |-> 0, readers |-> at, generation |-> Cardinality(at),
                  snapGen |-> -1, snap |-> {}, next |-> 0, oldest |-> 0, late |-> FALSE]
        /\ rd = [r \in SegReaders |-> [pc |-> IF r \in at THEN "ready" ELSE "off", pos |-> 0, avail |-> 0, span |-> NoSpan]]
  BY DEF SegInit
<1>2. idx = <<>>
      /\ wr = [pc |-> "idle", ret |-> "idle", resume |-> "claim", want |-> 0, offset |-> 0, claimed |-> 0, publish |-> 0, writing |-> 0]
  BY DEF SegInit
<1>3. n \in Nat /\ n >= 1 /\ Cardinality(at) \in Nat
  <2>1. IsFiniteSet(at)
    BY SegAssumption, FS_Subset
  <2>2. QED
    BY <2>1, SegAssumption, FS_CardinalityType
<1>4. seg \in SegRecord
  BY <1>1, <1>3 DEF SegRecord
<1>5. wr \in WriterRecord
  BY <1>2 DEF WriterRecord
<1>6. \A r \in SegReaders : rd[r] = [pc |-> IF r \in at THEN "ready" ELSE "off", pos |-> 0, avail |-> 0, span |-> NoSpan]
  BY <1>1
<1>7. rd \in [SegReaders -> ReaderRecord]
  <2>1. NoSpan \in Span
    BY DEF NoSpan, Span
  <2>2. \A r \in SegReaders : [pc |-> IF r \in at THEN "ready" ELSE "off", pos |-> 0, avail |-> 0, span |-> NoSpan] \in ReaderRecord
    BY <2>1 DEF ReaderRecord
  <2>3. QED
    BY <2>2, <1>1
<1>8. SegTypes
  BY <1>2, <1>4, <1>5, <1>7 DEF SegTypes
<1>9. seg.published = 0 /\ seg.reserve = 0 /\ seg.next = 0 /\ seg.oldest = 0 /\ seg.snapGen = -1 /\ seg.generation \in Nat
      /\ seg.readers = at /\ seg.size = n /\ wr.pc = "idle"
  BY <1>1, <1>2, <1>3
<1>10. Begin(0) = 0
  BY Begins
<1>11. WriterInv
  BY <1>9 DEF WriterInv, Claiming, Allocating
<1>12. SegmentsInv
  BY <1>2, <1>9, <1>10 DEF SegmentsInv
<1>13. IndexInv
  BY <1>2 DEF IndexInv
<1>14. BoundInv
  BY <1>2, <1>9 DEF BoundInv
<1>15. ASSUME NEW r \in SegReaders PROVE ReaderInv(r)
  <2>1. PICK status : status = IF r \in at THEN "ready" ELSE "off"
    OBVIOUS
  <2>2. rd[r].pc = status /\ rd[r].pos = 0
    <3>1. rd[r] = [pc |-> status, pos |-> 0, avail |-> 0, span |-> NoSpan]
      BY <2>1, <1>6
    <3>2. QED
      BY <3>1
  <2>3. CASE r \in at
    <3>1. rd[r].pc = "ready"
      BY <2>1, <2>2, <2>3
    <3>2. QED
      BY <3>1, <2>2, <2>3, <1>3, <1>9, <1>10 DEF ReaderInv, Attached
  <2>4. CASE r \notin at
    <3>1. rd[r].pc = "off"
      BY <2>1, <2>2, <2>4
    <3>2. QED
      BY <3>1, <2>2, <2>4, <1>9 DEF ReaderInv, Attached
  <2>5. QED
    BY <2>3, <2>4
<1>16. QED
  BY <1>8, <1>11, <1>12, <1>13, <1>14, <1>15 DEF SegInv

LEMMA StepKeepsInv == SegInv /\ [SegNext]_segVars => SegInv'
<1> SUFFICES ASSUME SegInv, [SegNext]_segVars PROVE SegInv'
  OBVIOUS
<1>1. CASE \E n \in 1 .. seg.size : Reserve(n)
  BY <1>1, ReserveKeepsInv
<1>2. CASE Round
  BY <1>2, RoundKeepsInv
<1>3. CASE FreePassed
  BY <1>3, FreeKeepsInv
<1>4. CASE tryNext
  BY <1>4, ClaimKeepsInv
<1>5. CASE Allocate
  BY <1>5, AllocateKeepsInv
<1>6. CASE Publish
  BY <1>6, PublishKeepsInv
<1>7. CASE \E k \in 0 .. seg.size : WriteSlot(k) \/ ReleaseSpan(k)
  BY <1>7, WriteKeepsInv
<1>8. ASSUME NEW r \in SegReaders,
             \/ Mark(r) \/ ReadCursor(r) \/ EnterList(r) \/ ReadCursorAgain(r) \/ Unmark(r)
             \/ Get(r) \/ MakeSpan(r) \/ Detach(r) \/ DetachEnds(r)
             \/ \E n \in 0 .. MaxPosition : Consume(r, n)
      PROVE  SegInv'
  <2>1. ReaderNext(r)
    BY <1>8 DEF ReaderNext
  <2>2. QED
    BY <2>1, ReadersKeepInv
<1>9. CASE UNCHANGED segVars
  <2>1. UNCHANGED <<seg, idx, wr, rd>>
    BY <1>9 DEF segVars
  <2>2. WriterInv'
    BY <2>1 DEF SegInv, WriterInv, Claiming, Allocating
  <2>3. SegTypes' /\ SegmentsInv' /\ IndexInv' /\ BoundInv'
    BY <2>1 DEF SegInv, SegTypes, SegmentsInv, IndexInv, BoundInv, Last, Upto, Touched
  <2>4. ASSUME NEW r \in SegReaders PROVE ReaderInv(r)'
    <3>1. SpanInv(rd[r].span) => SpanInv(rd[r].span)'
      BY <2>1 DEF SpanInv, Upto
    <3>2. QED
      BY <2>1, <3>1 DEF SegInv, ReaderInv
  <2>5. QED
    BY <2>2, <2>3, <2>4 DEF SegInv
<1>10. QED
  BY <1>1, <1>2, <1>3, <1>4, <1>5, <1>6, <1>7, <1>8, <1>9 DEF SegNext

\* A slot of a span lies in an allocated segment, and the index of the span names it.
LEMMA SpansAreReadable == SegInv => SpansReadable
<1> SUFFICES ASSUME SegInv, NEW r \in SegReaders, rd[r].pc = "span",
                    NEW p \in rd[r].span.first .. rd[r].span.first + rd[r].span.size - 1
             PROVE  /\ ~idx[rd[r].span.index].freed
                    /\ idx[rd[r].span.index].entries[SegmentOf(p) % idx[rd[r].span.index].length] = SegmentOf(p)
                    /\ SegmentOf(p) \in seg.oldest .. seg.next - 1
  BY SMTT(30) DEF SpansReadable
<1>1. PICK k : k = rd[r].span.index
  OBVIOUS
<1>2. PICK n : n = SegmentOf(p)
  OBVIOUS
<1>3. /\ seg.published \in Nat /\ seg.oldest \in Nat /\ seg.next \in Nat /\ rd[r].pos \in Nat /\ rd[r].span \in Span
      /\ idx \in Seq(IndexRecord) /\ Len(idx) \in Nat /\ SegmentsInv /\ IndexInv /\ ReaderInv(r)
  BY DEF SegInv, SegTypes, SegRecord, ReaderRecord
<1>4. /\ SpanInv(rd[r].span) /\ rd[r].span.first = rd[r].pos /\ Begin(seg.oldest) <= rd[r].pos
  BY <1>3 DEF ReaderInv, Attached
<1>5. k \in 1 .. Len(idx) /\ ~idx[k].freed /\ rd[r].span.first + rd[r].span.size <= Upto(k)
  BY <1>1, <1>4 DEF SpanInv
<1>6. Upto(k) \in Nat /\ Upto(k) <= seg.published
  BY <1>5, ReplacedBefore
<1>7. p \in Nat /\ rd[r].pos <= p /\ p < Upto(k)
  <2>1. rd[r].span.first \in Nat /\ rd[r].span.size \in Nat
    BY <1>3 DEF Span
  <2>2. QED
    BY SMTT(30), <2>1, <1>3, <1>4, <1>5, <1>6
<1>8. n \in Nat /\ Begin(n) <= p /\ Begin(n) \in Nat
  BY <1>2, <1>7, SegmentOfPosition, Begins
<1>9. Begin(seg.oldest) \in Nat /\ Begin(seg.next) \in Nat
  BY <1>3, Begins
<1>10. n >= seg.oldest
  <2>1. Begin(seg.oldest) <= p
    BY <1>3, <1>4, <1>7, <1>9
  <2>2. QED
    BY <2>1, <1>2, <1>3, <1>7, <1>8, SegmentBefore
<1>11. n < seg.next
  <2>1. p < Begin(seg.next)
    BY <1>3, <1>6, <1>7, <1>9 DEF SegmentsInv
  <2>2. QED
    BY <2>1, <1>2, <1>3, <1>7, SegmentBefore
<1>12. n \in seg.oldest .. seg.next - 1
  BY <1>3, <1>8, <1>10, <1>11
<1>13. idx[k].entries[n % idx[k].length] = n
  <2>1. CASE k = Len(idx)
    <3>1. idx # <<>> /\ idx[k] = Last
      BY <2>1, <1>3, <1>5 DEF Last
    <3>2. QED
      BY <3>1, <1>3, <1>12 DEF IndexInv
  <2>2. CASE k # Len(idx)
    <3>1. k \in 1 .. Len(idx) - 1 /\ k + 1 \in 1 .. Len(idx)
      BY <2>2, <1>3, <1>5
    <3>2. Upto(k) = idx[k + 1].at
      BY <2>2 DEF Upto
    <3>3. Begin(n) < idx[k + 1].at
      BY <3>2, <1>6, <1>7, <1>8
    <3>4. QED
      BY <3>1, <3>3, <1>3, <1>8, <1>10 DEF IndexInv
  <2>3. QED
    BY <2>1, <2>2
<1>14. QED
  BY <1>1, <1>2, <1>5, <1>12, <1>13

LEMMA IndexNamesSegments == SegInv => IndexHoldsSegments
<1> SUFFICES ASSUME SegInv, idx # <<>>, NEW n \in 0 .. seg.next
             PROVE  (\E e \in DOMAIN Last.entries : Last.entries[e] = n) <=> n \in seg.oldest .. seg.next - 1
  BY DEF IndexHoldsSegments, Last
<1>1. idx \in Seq(IndexRecord) /\ seg.next \in Nat /\ seg.oldest \in Nat /\ IndexInv
  BY DEF SegInv, SegTypes, SegRecord
<1>2. Last \in IndexRecord
  BY <1>1 DEF Last
<1>3. PICK l \in Nat \ {0} : Last \in [length : {l}, at : Nat, freed : BOOLEAN, entries : [0 .. l - 1 -> Int]]
  BY <1>2 DEF IndexRecord
<1>4. Last.length = l /\ DOMAIN Last.entries = 0 .. l - 1
  BY <1>3
<1>5. ASSUME NEW e \in 0 .. l - 1, Last.entries[e] = n PROVE n \in seg.oldest .. seg.next - 1
  <2>1. Last.entries[e] = NoSegment \/ Last.entries[e] \in seg.oldest .. seg.next - 1
    BY <1>1, <1>4 DEF IndexInv
  <2>2. n # NoSegment
    BY <1>1 DEF NoSegment
  <2>3. QED
    BY <2>1, <2>2, <1>5
<1>6. ASSUME n \in seg.oldest .. seg.next - 1 PROVE \E e \in 0 .. l - 1 : Last.entries[e] = n
  <2>1. n \in Nat
    BY <1>1
  <2>2. n % l \in 0 .. l - 1
    BY <2>1
  <2>3. Last.entries[n % l] = n
    BY <1>1, <1>4, <1>6 DEF IndexInv
  <2>4. QED
    BY <2>2, <2>3
<1>7. QED
  BY <1>4, <1>5, <1>6

(* Readers find their slots, and the writer keeps no more than it must: SegmentedBuffer.hpp's  *)
(* spans stay readable while it frees segments, replaces its index and misses readers that are *)
(* about to attach; its index names the allocated segments and no other, and does not outgrow  *)
(* the window that size() allows.                                                              *)
THEOREM SegmentsAreKept == SegSpec => []SegmentsKept
<1>1. SegInit => SegInv
  BY InitHasInv
<1>2. SegInv /\ [SegNext]_segVars => SegInv'
  BY StepKeepsInv
<1>3. SegInv => SegmentsKept
  <2>1. SegInv => IndexBounded
    BY DEF SegInv, BoundInv, IndexBounded, Last
  <2>2. QED
    BY <2>1, SpansAreReadable, IndexNamesSegments DEF SegmentsKept
<1>4. QED
  BY <1>1, <1>2, <1>3, PTL DEF SegSpec

=============================================================================
