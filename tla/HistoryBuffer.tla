------------------------------ MODULE HistoryBuffer ------------------------------
(***************************************************************************)
(* HistoryBuffer (HistoryBuffer.hpp): a ring kept twice in memory, so that *)
(* any window of it is contiguous.  push_front() leaves the second copy    *)
(* behind and counts how much of it is stale; readers of spans bring it up *)
(* to date.  The buffer is sequential; a step is one member function.      *)
(***************************************************************************)
EXTENDS Integers, Sequences, SequencesExt

CONSTANTS HistoryValues,   \* the values pushed
          Capacities,      \* the capacities asked for
          RangeLengths,    \* the lengths of the ranges pushed
          Blank            \* T()

\* std::bit_ceil(n), for n > 0.
bit_ceil(n) == CHOOSE p \in {2 ^ e : e \in 0 .. n} : p >= n /\ p < 2 * n

\* Capacities are positive and have such a power of two.
ASSUME HistoryAssumption ==
  /\ \A n \in Capacities : n \in Nat \ {0} /\ bit_ceil(n) \in Nat /\ bit_ceil(n) >= n
  /\ RangeLengths \subseteq Nat

VARIABLES mem,        \* _buffer: both halves, indexed from 0 (<<>> before construction)
          capacity,   \* _capacity
          ringCap,    \* ringCapacity(): a power of two, or N for a fixed extent
          fixed,      \* N # dynamic_extent
          writePos,   \* _write_position
          size,       \* _size
          dirty,      \* _mirrorDirtyCount
          history     \* reference: what the buffer should hold, index 0 first

historyVars == <<mem, capacity, ringCap, fixed, writePos, size, dirty, history>>

MinOf(a, b) == IF a < b THEN a ELSE b

\* map_index(): the primary slot of a logical index.
map_index(index) == (writePos + index) % ringCap

\* syncMirror(): the slots from _write_position on, wrapped at the end of the
\* first half, are copied to the second half.
syncMirror ==
  [p \in DOMAIN mem |->
     IF p >= ringCap /\ (p - ringCap - writePos) % ringCap < dirty
     THEN mem[p - ringCap] ELSE mem[p]]

HistoryInit ==
  /\ mem = <<>> /\ history = <<>> /\ fixed = FALSE
  /\ capacity = 0 /\ ringCap = 1 /\ writePos = 0 /\ size = 0 /\ dirty = 0

\* The constructors: a run-time capacity is rounded up, a fixed one is not.
Construct(cap, isFixed) ==
  /\ capacity = 0
  /\ capacity' = cap /\ fixed' = isFixed
  /\ ringCap' = IF isFixed THEN cap ELSE bit_ceil(cap)
  /\ mem' = [p \in 0 .. 2 * ringCap' - 1 |-> Blank]
  /\ UNCHANGED <<writePos, size, dirty, history>>

Constructed == capacity > 0

\* push_front(value).
push_front(v) ==
  /\ Constructed
  /\ size' = MinOf(size + 1, capacity)
  /\ writePos' = map_index(ringCap - 1)
  /\ mem' = [mem EXCEPT ![writePos'] = v]
  /\ dirty' = MinOf(dirty + 1, ringCap)
  /\ history' = SubSeq(<<v>> \o history, 1, size')
  /\ UNCHANGED <<capacity, ringCap, fixed>>

\* push_front(begin, end): the last `capacity` elements, one after the other.
push_frontRange(vs) ==
  /\ Constructed
  /\ LET n    == MinOf(Len(vs), capacity)
         kept == SubSeq(vs, Len(vs) - n + 1, Len(vs))
         wp   == map_index(ringCap - n)
         Behind(p) == (p - wp) % ringCap
     IN /\ writePos' = wp
        /\ size' = MinOf(size + n, capacity)
        /\ mem' = [p \in DOMAIN mem |-> IF p < ringCap /\ Behind(p) < n
                                        THEN kept[n - Behind(p)] ELSE mem[p]]
        /\ dirty' = MinOf(dirty + n, ringCap)
        /\ history' = SubSeq(Reverse(kept) \o history, 1, size')
  /\ UNCHANGED <<capacity, ringCap, fixed>>

(* mutant: only the first half is written *)
push_backOneHalf(v) ==
  /\ Constructed
  /\ LET full == size = capacity
         wp   == IF full THEN map_index(1) ELSE writePos
         pos  == (wp + MinOf(size + 1, capacity) - 1) % ringCap
     IN /\ writePos' = wp
        /\ size' = MinOf(size + 1, capacity)
        /\ mem' = [mem EXCEPT ![pos] = v]
        /\ dirty' = IF full /\ dirty > 0 THEN dirty - 1 ELSE dirty
  /\ history' = LET h == Append(history, v) IN SubSeq(h, Len(h) - size' + 1, Len(h))
  /\ UNCHANGED <<capacity, ringCap, fixed>>

\* push_back(value): writes both halves; a full buffer drops its first element.
push_back(v) ==
  /\ Constructed
  /\ LET full == size = capacity
         wp   == IF full THEN map_index(1) ELSE writePos
         pos  == (wp + MinOf(size + 1, capacity) - 1) % ringCap
     IN /\ writePos' = wp
        /\ size' = MinOf(size + 1, capacity)
        /\ mem' = [mem EXCEPT ![pos] = v, ![pos + ringCap] = v]
        /\ dirty' = IF full /\ dirty > 0 THEN dirty - 1 ELSE dirty
  /\ history' = LET h == Append(history, v) IN SubSeq(h, Len(h) - size' + 1, Len(h))
  /\ UNCHANGED <<capacity, ringCap, fixed>>

\* push_back(first, last): at most capacity elements, both halves at once.
push_backRange(vs) ==
  /\ Constructed /\ vs # <<>>
  /\ LET n       == MinOf(Len(vs), capacity)
         kept    == SubSeq(vs, Len(vs) - n + 1, Len(vs))
         discard == IF size + n > capacity THEN size + n - capacity ELSE 0
         wp      == map_index(discard)
         new     == size - discard + n
         start   == (wp + new - n) % ringCap
         Copied(p) == (p - start) % ringCap
     IN /\ writePos' = wp
        /\ size' = new
        /\ dirty' = dirty - MinOf(dirty, discard)
        /\ mem' = [p \in DOMAIN mem |-> IF Copied(p) < n THEN kept[Copied(p) + 1] ELSE mem[p]]
        /\ history' = LET h == history \o kept IN SubSeq(h, Len(h) - new + 1, Len(h))
  /\ UNCHANGED <<capacity, ringCap, fixed>>

pop_front ==
  /\ size > 0
  /\ writePos' = map_index(1)
  /\ size' = size - 1
  /\ dirty' = IF dirty > 0 THEN dirty - 1 ELSE 0
  /\ history' = Tail(history)
  /\ UNCHANGED <<mem, capacity, ringCap, fixed>>

pop_back ==
  /\ size > 0
  /\ size' = size - 1
  /\ history' = Front(history)
  /\ UNCHANGED <<mem, capacity, ringCap, fixed, writePos, dirty>>

\* resize(): the first elements are copied from the synchronised window.
resize(cap) ==
  /\ Constructed /\ ~fixed
  /\ LET count == MinOf(size, cap)
         rc    == bit_ceil(cap)
     IN /\ mem' = [p \in 0 .. 2 * rc - 1 |->
                     IF p % rc < count THEN syncMirror[writePos + (p % rc)] ELSE Blank]
        /\ ringCap' = rc /\ size' = count
        /\ history' = SubSeq(history, 1, count)
  /\ capacity' = cap /\ writePos' = 0 /\ dirty' = 0
  /\ UNCHANGED fixed

reset ==
  /\ Constructed
  /\ mem' = [p \in DOMAIN mem |-> Blank]
  /\ size' = 0 /\ writePos' = 0 /\ dirty' = 0 /\ history' = <<>>
  /\ UNCHANGED <<capacity, ringCap, fixed>>

\* get_span() and begin() synchronise the halves.
get_span ==
  /\ Constructed
  /\ mem' = syncMirror /\ dirty' = 0
  /\ UNCHANGED <<capacity, ringCap, fixed, writePos, size, history>>

HistoryNext ==
  \/ \E cap \in Capacities, isFixed \in BOOLEAN : Construct(cap, isFixed)
  \/ \E v \in HistoryValues : push_front(v) \/ push_back(v)
  \/ \E l \in RangeLengths : \E vs \in [1 .. l -> HistoryValues] : push_backRange(vs) \/ push_frontRange(vs)
  \/ pop_front \/ pop_back
  \/ \E cap \in Capacities : resize(cap)
  \/ reset \/ get_span

HistorySpec == HistoryInit /\ [][HistoryNext]_historyVars

-----------------------------------------------------------------------------
HistoryTypeOK ==
  /\ size \in 0 .. capacity
  /\ capacity <= ringCap
  /\ writePos \in 0 .. ringCap - 1
  /\ dirty \in 0 .. ringCap
  /\ Len(history) = size

\* operator[] of every valid index is the element that the pushes and pops left
\* there, whatever mixture of front and back operations led here.
IndexReadsHistory == \A i \in 0 .. size - 1 : mem[map_index(i)] = history[i + 1]

\* A span that starts at any index is contiguous memory with the same elements:
\* after syncMirror() no slot of the second half that a span can reach is stale.
SpanReadsHistory == \A i \in 0 .. size - 1 : syncMirror[writePos + i] = history[i + 1]

\* Both ways of reading give the history.
ReadsHistory == IndexReadsHistory /\ SpanReadsHistory
=============================================================================
