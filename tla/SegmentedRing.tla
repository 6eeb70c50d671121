----------------------------- MODULE SegmentedRing -----------------------------
(***************************************************************************)
(* SegmentedBuffer.hpp over the SingleProducerStrategy of ClaimStrategy.hpp: *)
(* one writer that allocates segments, replaces its index as it fills and    *)
(* frees what every reader has passed, and readers that attach, read through *)
(* the index their span was created with, and detach.  One step per access   *)
(* that another thread can see.  A slot holds its own position.              *)
(***************************************************************************)
EXTENDS Integers, Sequences, FiniteSets, FiniteSetsExt

CONSTANTS SegReaders,     \* reader objects
          SegSizes,       \* size(): the slots the writer may be ahead
          SegmentSlots,   \* kSegmentSize
          InitialLength,  \* kInitialIndexLength
          MaxPosition     \* bound on the positions

ASSUME SegAssumption ==
  /\ IsFiniteSet(SegReaders) /\ SegSizes \subseteq Nat \ {0}
  /\ SegmentSlots \in Nat \ {0} /\ InitialLength \in Nat \ {0} /\ MaxPosition \in Nat

VARIABLES seg,  \* the buffer: cursors, reader list, segments
          idx,  \* every index made, the current one last
          wr,   \* the writer
          rd    \* per reader, its cursor and its span

segVars == <<seg, idx, wr, rd>>

NoSegment == -1
SegmentOf(p) == p \div SegmentSlots
NoSpan == [index |-> 0, first |-> 0, size |-> 0]

\* An index of `length` entries with the segments from..to - 1, entry n % length for n.
IndexOf(length, from, to, at) ==
  [length |-> length, at |-> at, freed |-> FALSE,
   entries |-> [e \in 0 .. length - 1 |->
                  LET here == {n \in from .. to - 1 : n % length = e} IN IF here = {} THEN NoSegment ELSE Max(here)]]

SegInit ==
  /\ \E n \in SegSizes, at \in SUBSET SegReaders :
       /\ seg = [size |-> n, published |-> 0, reserve |-> 0, readers |-> at, generation |-> Cardinality(at),
                 snapGen |-> -1, snap |-> {}, next |-> 0, oldest |-> 0, late |-> FALSE]
       /\ rd = [r \in SegReaders |-> [pc |-> IF r \in at THEN "ready" ELSE "off", pos |-> 0, avail |-> 0, span |-> NoSpan]]
  /\ idx = <<>>
  /\ wr = [pc |-> "idle", ret |-> "idle", resume |-> "claim", want |-> 0, offset |-> 0, claimed |-> 0, publish |-> 0, writing |-> 0]

-----------------------------------------------------------------------------
\* The writer.

Marked == \E r \in SegReaders : rd[r].pc \in {"marked", "read", "listed", "counted"}

\* refreshReaderSnapshot() and getMinReaderCursor().
Snapshot == IF seg.generation = seg.snapGen THEN seg.snap ELSE seg.readers
MinReader == IF Snapshot = {} THEN seg.reserve ELSE Min({rd[r].pos : r \in Snapshot})
getRemainingCapacity ==
  LET claimed == seg.reserve - MinReader IN IF claimed < 0 \/ claimed >= seg.size THEN 0 ELSE seg.size - claimed
Refreshed(s) == [s EXCEPT !.snap = Snapshot, !.snapGen = s.generation]

\* slowestReaderPosition(): without capacity the cursor of every reader in the list.
slowestReaderPosition ==
  IF getRemainingCapacity > 0 THEN seg.reserve - (seg.size - getRemainingCapacity)
  ELSE Min({seg.reserve} \cup {rd[r].pos : r \in seg.readers})

\* A round can free something: a segment, or an index that was replaced.
RoundIsWorthIt ==
  IF idx = <<>> THEN FALSE
  ELSE \/ seg.oldest < seg.next /\ (seg.oldest + 1) * SegmentSlots <= seg.published
       \/ seg.published > idx[Len(idx)].at /\ \E k \in 1 .. Len(idx) - 1 : ~idx[k].freed

\* claim(): its round of freeing comes first.
Reserve(n) ==
  /\ wr.pc = "idle" /\ n <= seg.size /\ seg.published + n <= MaxPosition
  /\ wr' = [wr EXCEPT !.pc = "round", !.resume = "claim", !.want = n, !.publish = 0]
  /\ UNCHANGED <<seg, idx, rd>>

(* mutant: the round does not look for readers that attach *)
RoundUnmarked ==
  /\ wr.pc = "round"
  /\ wr' = [wr EXCEPT !.pc = IF RoundIsWorthIt THEN "free" ELSE wr.resume]
  /\ UNCHANGED <<seg, idx, rd>>

\* releasePassedSegments(), up to its look for readers that attach.
Round ==
  /\ wr.pc = "round"
  /\ wr' = [wr EXCEPT !.pc = IF RoundIsWorthIt /\ ~Marked THEN "free" ELSE wr.resume]
  /\ UNCHANGED <<seg, idx, rd>>

\* No reader can hold an index replaced at position at.
FreesIndex(slowest, at) == slowest > at

\* releasePassedSegments(): it frees the segments below the slowest reader, and the
\* replaced indexes no reader holds.
FreePassed ==
  LET slowest == Min({slowestReaderPosition, seg.published})
      last == idx[Len(idx)]
      oldest == Max({seg.oldest} \cup {n + 1 : n \in {n \in seg.oldest .. seg.next - 1 : (n + 1) * SegmentSlots <= slowest}})
      kept == [last EXCEPT !.entries = [e \in DOMAIN @ |-> IF @[e] \in seg.oldest .. oldest - 1 THEN NoSegment ELSE @[e]]]
  IN /\ wr.pc = "free"
     /\ seg' = [Refreshed(seg) EXCEPT !.oldest = oldest]
     /\ idx' = [k \in DOMAIN idx |-> IF k = Len(idx) THEN kept
                                     ELSE [idx[k] EXCEPT !.freed = @ \/ FreesIndex(slowest, last.at)]]
     /\ wr' = [wr EXCEPT !.pc = wr.resume]
     /\ UNCHANGED rd

\* tryNext(), or a next() that has seen room; a claim without room ends the call.
tryNext ==
  /\ wr.pc = "claim"
  /\ seg' = [Refreshed(seg) EXCEPT !.reserve = IF getRemainingCapacity < wr.want THEN @ ELSE @ + wr.want]
  /\ wr' = IF getRemainingCapacity < wr.want THEN [wr EXCEPT !.pc = "idle"]
           ELSE [wr EXCEPT !.pc = "write", !.offset = seg.reserve, !.claimed = wr.want]
  /\ UNCHANGED <<idx, rd>>

\* writableSlot() of the claim's slot k, and the publish of n slots, both of which
\* allocate first.
WriteSlot(k) ==
  /\ wr.pc = "write" /\ k < wr.claimed /\ SegmentOf(wr.offset + k) >= seg.next
  /\ wr' = [wr EXCEPT !.pc = "allocate", !.writing = wr.offset + k + 1, !.ret = "write"]
  /\ UNCHANGED <<seg, idx, rd>>

ReleaseSpan(n) ==
  /\ wr.pc = "write" /\ n <= wr.claimed
  /\ wr' = [wr EXCEPT !.pc = "allocate", !.writing = wr.offset + n, !.publish = n, !.ret = "publish"]
  /\ UNCHANGED <<seg, idx, rd>>

replaceIndex(length) == Append(idx, IndexOf(length, seg.oldest, seg.next, seg.published))

\* allocateThrough(): one segment at a time; a full index makes a round and doubles
\* if it is still full.
Full == IF idx = <<>> THEN FALSE ELSE seg.next - seg.oldest >= idx[Len(idx)].length
Allocate ==
  LET needed == wr.writing > 0 /\ SegmentOf(wr.writing - 1) >= seg.next
      With(list) == [list EXCEPT ![Len(list)].entries[seg.next % list[Len(list)].length] = seg.next]
  IN /\ wr.pc \in {"allocate", "grow"}
     /\ \/ ~needed /\ wr' = [wr EXCEPT !.pc = wr.ret] /\ UNCHANGED <<seg, idx>>
        \/ needed /\ wr.pc = "allocate" /\ Full /\ wr' = [wr EXCEPT !.pc = "round", !.resume = "grow"] /\ UNCHANGED <<seg, idx>>
        \/ /\ needed /\ (wr.pc = "grow" \/ ~Full)
           /\ idx' = With(IF idx = <<>> THEN replaceIndex(InitialLength)
                          ELSE IF Full THEN replaceIndex(2 * idx[Len(idx)].length) ELSE idx)
           /\ seg' = [seg EXCEPT !.next = @ + 1]
           /\ wr' = [wr EXCEPT !.pc = "allocate"]
     /\ UNCHANGED rd

\* publish(): what was claimed and not published is given back.
Publish ==
  /\ wr.pc = "publish"
  /\ seg' = [seg EXCEPT !.published = wr.offset + wr.publish, !.reserve = wr.offset + wr.publish]
  /\ wr' = [wr EXCEPT !.pc = "idle", !.claimed = 0]
  /\ UNCHANGED <<idx, rd>>

-----------------------------------------------------------------------------
\* A reader.  addSequences() sets its cursor before it enters the list and again after.

Mark(r) ==
  /\ rd[r].pc = "off"
  /\ rd' = [rd EXCEPT ![r].pc = "marked"] /\ seg' = [seg EXCEPT !.late = TRUE] /\ UNCHANGED <<idx, wr>>

ReadCursor(r) ==
  /\ rd[r].pc = "marked"
  /\ rd' = [rd EXCEPT ![r].pc = "read", ![r].pos = seg.published] /\ UNCHANGED <<seg, idx, wr>>

EnterList(r) ==
  /\ rd[r].pc = "read"
  /\ seg' = [seg EXCEPT !.readers = @ \cup {r}]
  /\ rd' = [rd EXCEPT ![r].pc = "listed"] /\ UNCHANGED <<idx, wr>>

ReadCursorAgain(r) ==
  /\ rd[r].pc = "listed"
  /\ rd' = [rd EXCEPT ![r].pc = "counted", ![r].pos = seg.published] /\ UNCHANGED <<seg, idx, wr>>

\* notifyReaderSetChanged(), then the mark is cleared.
Unmark(r) ==
  /\ rd[r].pc = "counted"
  /\ seg' = [seg EXCEPT !.generation = @ + 1]
  /\ rd' = [rd EXCEPT ![r].pc = "ready"] /\ UNCHANGED <<idx, wr>>

Get(r) ==
  /\ rd[r].pc = "ready" /\ seg.published > rd[r].pos
  /\ rd' = [rd EXCEPT ![r].pc = "got", ![r].avail = seg.published - rd[r].pos] /\ UNCHANGED <<seg, idx, wr>>

\* The span takes the index that is current after the publish cursor was read.
MakeSpan(r) ==
  /\ rd[r].pc = "got"
  /\ rd' = [rd EXCEPT ![r].pc = "span", ![r].avail = 0,
                      ![r].span = [index |-> Len(idx), first |-> rd[r].pos, size |-> rd[r].avail]]
  /\ UNCHANGED <<seg, idx, wr>>

Consume(r, n) ==
  /\ rd[r].pc = "span" /\ n <= rd[r].span.size
  /\ rd' = [rd EXCEPT ![r].pc = "ready", ![r].pos = @ + n, ![r].span = NoSpan] /\ UNCHANGED <<seg, idx, wr>>

Detach(r) ==
  /\ rd[r].pc = "ready"
  /\ seg' = [seg EXCEPT !.readers = @ \ {r}]
  /\ rd' = [rd EXCEPT ![r].pc = "unlisted"] /\ UNCHANGED <<idx, wr>>

DetachEnds(r) ==
  /\ rd[r].pc = "unlisted"
  /\ seg' = [seg EXCEPT !.generation = @ + 1]
  /\ rd' = [rd EXCEPT ![r].pc = "gone"] /\ UNCHANGED <<idx, wr>>

SegNext ==
  \/ \E n \in 1 .. seg.size : Reserve(n)
  \/ Round \/ FreePassed \/ tryNext \/ Allocate \/ Publish
  \/ \E k \in 0 .. seg.size : WriteSlot(k) \/ ReleaseSpan(k)
  \/ \E r \in SegReaders : \/ Mark(r) \/ ReadCursor(r) \/ EnterList(r) \/ ReadCursorAgain(r) \/ Unmark(r)
                           \/ Get(r) \/ MakeSpan(r) \/ Detach(r) \/ DetachEnds(r)
                           \/ \E n \in 0 .. MaxPosition : Consume(r, n)

SegSpec == SegInit /\ [][SegNext]_segVars

-----------------------------------------------------------------------------
SegTypeOK ==
  /\ seg.oldest <= seg.next /\ seg.published <= seg.reserve /\ seg.reserve <= MaxPosition
  /\ \A k \in DOMAIN idx : k < Len(idx) => idx[k].at <= idx[k + 1].at

\* Every slot of a live span is there: its index has not been freed and names the
\* segment of the slot, and that segment has not been freed, although the writer
\* frees, replaces indexes and misses readers that are about to attach.
SpansReadable ==
  \A r \in SegReaders : rd[r].pc = "span" =>
    \A p \in rd[r].span.first .. rd[r].span.first + rd[r].span.size - 1 :
      /\ ~idx[rd[r].span.index].freed
      /\ idx[rd[r].span.index].entries[SegmentOf(p) % idx[rd[r].span.index].length] = SegmentOf(p)
      /\ SegmentOf(p) \in seg.oldest .. seg.next - 1

\* The current index names every segment that is allocated, and nothing else.
IndexHoldsSegments ==
  idx # <<>> => \A n \in 0 .. seg.next :
    (\E e \in DOMAIN idx[Len(idx)].entries : idx[Len(idx)].entries[e] = n) <=> n \in seg.oldest .. seg.next - 1

\* The segments that a window of size() slots can touch.
Touched == (seg.size + 2 * SegmentSlots - 2) \div SegmentSlots

\* While no reader attaches, the index is at most the next power of two above the
\* number of segments a window of size() slots can touch.
IndexBounded ==
  idx # <<>> /\ ~seg.late => idx[Len(idx)].length = InitialLength \/ idx[Len(idx)].length < 2 * Touched

\* Readers find their slots, and the writer keeps no more than it must.
SegmentsKept == SpansReadable /\ IndexHoldsSegments /\ IndexBounded
=============================================================================
