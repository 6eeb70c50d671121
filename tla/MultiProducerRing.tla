-------------------------- MODULE MultiProducerRing -------------------------
(***************************************************************************)
(* gr::MultiProducerStrategy together with the reader list it gates on     *)
(* (gr::detail::addSequences / removeSequence) and the slots of the        *)
(* gr::CircularBuffer it belongs to.                                       *)
(*                                                                         *)
(* Every load, store and compare-and-set of a shared word is a step of its *)
(* own; the code's fences justify interleaving them.  A thread that claims *)
(* or publishes is a producer, a thread that attaches, reads, consumes and *)
(* detaches is a reader.  The ring has no registered publish wake, so      *)
(* publish() ends with the compare-and-set of the publish cursor.          *)
(***************************************************************************)
EXTENDS Integers, FiniteSets, Sequences

CONSTANTS
  Producers,    \* threads that reserve and publish
  Readers,      \* Reader objects: each is constructed, used and destroyed once, by a thread of its own
  Residents,    \* the readers attached from the start that never detach
  Blocking,     \* the producers that call reserve()/next(); the others call tryReserve()/tryNext()
  Size,         \* _size, the number of slots
  PartialPublish, \* TRUE: a span may publish fewer samples than it reserved
  MaxCursor     \* bound of the model: no claim goes beyond this cursor value

ASSUME RingAssumption ==
  /\ Size \in Nat \ {0}
  /\ MaxCursor \in Nat
  /\ Residents \subseteq Readers
  /\ Blocking \subseteq Producers
  /\ Producers \intersect Readers = {}
  /\ PartialPublish \in BOOLEAN

VARIABLES
  reserve,    \* _reserveCursor
  publish,    \* _publishCursor
  available,  \* _availableBuffer: per slot the sequence of its last completed write
  data,       \* per slot the sequence number of the sample stored in it
  cachedMin,  \* _cachedMinReaderCursor
  readSeqs,   \* *_readSequences, the readers in the list
  readIdx,    \* per reader: *_readIndex (and _readIndexCached, which follows it)
  pc,         \* per thread: where it is
  n,          \* per producer: nSlotsToClaim of the current claim or publication
  cur,        \* per producer: currentReserveCursor, then the offset of the claim
  seq,        \* per producer: the loop variable of publish()
  pub,        \* per thread: the publish cursor it has loaded
  minR,       \* per thread: minReader of the refresh it is in
  todo,       \* per thread: the readers of its snapshot that it has not loaded yet
  casOk,      \* per reader: the list is still the one it loaded
  span        \* per reader: the size of the span it holds

cursors == <<reserve, publish, available, data, cachedMin>>
claims  == <<n, cur, seq>>
refresh == <<pub, minR, todo>>
readers == <<readSeqs, readIdx, casOk, span>>
vars    == <<reserve, publish, available, data, cachedMin, readSeqs, readIdx, pc,
             n, cur, seq, pub, minR, todo, casOk, span>>

Threads == Producers \union Readers
Slots   == 0..(Size - 1)
Cursor  == 0..MaxCursor
Never   == -1      \* numeric_limits<size_t>::max() in a slot that was never published

calculateIndex(s) == s % Size
Lower(a, b) == IF a < b THEN a ELSE b

\* mutant of Exceeds: one slot too many fits
ExceedsOffByOne(a, b) == a < b \/ a - b > Size + 1

\* a - b > _size on size_t: a difference below zero wraps to a huge value
Exceeds(a, b) == a < b \/ a - b > Size

PC == {"idle", "load", "check", "rPub", "rList", "rReserve", "rMin", "rStore",
       "cas", "write", "mark", "pLoad", "scan", "pCas",
       "out", "gone", "aCursor", "aCas", "aReread", "aSet", "in", "span", "dLoad", "dCas"}

Goto(t, where) == pc' = [pc EXCEPT ![t] = where]

\* next()/tryNext()/publish() returns and the locals of producer p go out of scope
Return(p) ==
  /\ Goto(p, "idle")
  /\ n' = [n EXCEPT ![p] = 0]
  /\ cur' = [cur EXCEPT ![p] = 0]
  /\ seq' = [seq EXCEPT ![p] = 0]

-----------------------------------------------------------------------------
(* next() and tryNext() *)

\* next()/tryNext() is called and loads the reserve cursor
Claim(p, k) ==
  /\ pc[p] = "idle"
  /\ reserve + k <= MaxCursor
  /\ n' = [n EXCEPT ![p] = k]
  /\ cur' = [cur EXCEPT ![p] = reserve]
  /\ Goto(p, "check")
  /\ UNCHANGED <<cursors, readers, refresh, seq>>

\* the loop comes round: the reserve cursor is loaded again
Retry(p) ==
  /\ pc[p] = "load"
  /\ reserve + n[p] <= MaxCursor
  /\ cur' = [cur EXCEPT ![p] = reserve]
  /\ Goto(p, "check")
  /\ UNCHANGED <<cursors, readers, refresh, n, seq>>

\* the claim is tested against the cached minimum
CheckCached(p) ==
  /\ pc[p] = "check"
  /\ Goto(p, IF Exceeds(cur[p] + n[p], cachedMin) THEN "rPub" ELSE "cas")
  /\ UNCHANGED <<cursors, readers, refresh, claims>>

CasReserve(p) ==
  /\ pc[p] = "cas"
  /\ \/ /\ reserve = cur[p]
        /\ reserve' = cur[p] + n[p]
        /\ Goto(p, "write")
     \/ /\ reserve # cur[p]
        /\ Goto(p, "load")
        /\ UNCHANGED reserve
  /\ UNCHANGED <<publish, available, data, cachedMin, readers, refresh, claims>>

\* Writer::available(): getRemainingCapacity() refreshes the cached minimum
Available(p) ==
  /\ pc[p] = "idle"
  /\ Goto(p, "rPub")
  /\ UNCHANGED <<cursors, readers, refresh, claims>>

-----------------------------------------------------------------------------
(* refreshMinReaderCursor(), also behind notifyReaderSetChanged() *)

RefreshPublish(t) ==
  /\ pc[t] = "rPub"
  /\ pub' = [pub EXCEPT ![t] = publish]
  /\ Goto(t, "rList")
  /\ UNCHANGED <<cursors, readers, claims, minR, todo>>

\* loadSequences(); MaxCursor stands for the initial minimum of getMinimumSequence()
RefreshList(t) ==
  /\ pc[t] = "rList"
  /\ todo' = [todo EXCEPT ![t] = readSeqs]
  /\ minR' = [minR EXCEPT ![t] = MaxCursor]
  /\ Goto(t, IF readSeqs = {} THEN "rReserve" ELSE "rMin")
  /\ UNCHANGED <<cursors, readers, claims, pub>>

\* no readers: nothing gates the writer
RefreshReserve(t) ==
  /\ pc[t] = "rReserve"
  /\ minR' = [minR EXCEPT ![t] = reserve]
  /\ Goto(t, "rStore")
  /\ UNCHANGED <<cursors, readers, claims, pub, todo>>

\* getMinimumSequence() loads one reader cursor
RefreshMin(t, r) ==
  /\ pc[t] = "rMin"
  /\ r \in todo[t]
  /\ minR' = [minR EXCEPT ![t] = Lower(@, readIdx[r])]
  /\ todo' = [todo EXCEPT ![t] = @ \ {r}]
  /\ Goto(t, IF todo[t] = {r} THEN "rStore" ELSE "rMin")
  /\ UNCHANGED <<cursors, readers, claims, pub>>

\* the cached minimum is stored; a claim then tests the unbounded minimum
AfterRefresh(t) ==
  IF t \in Readers THEN IF t \in readSeqs THEN "in" ELSE "gone"
  ELSE IF n[t] = 0 THEN "idle"
  ELSE IF ~Exceeds(cur[t] + n[t], minR[t]) THEN "cas"
  ELSE IF t \in Blocking THEN "load" ELSE "idle"

\* mutant of RefreshStore: the cached minimum is not bounded by the publish cursor
RefreshStoreUnbounded(t) ==
  /\ pc[t] = "rStore"
  /\ cachedMin' = minR[t]
  /\ \/ /\ AfterRefresh(t) = "idle"
        /\ Return(t)
     \/ /\ AfterRefresh(t) # "idle"
        /\ Goto(t, AfterRefresh(t))
        /\ UNCHANGED claims
  /\ pub' = [pub EXCEPT ![t] = 0]
  /\ minR' = [minR EXCEPT ![t] = 0]
  /\ UNCHANGED <<reserve, publish, available, data, readers, todo>>

RefreshStore(t) ==
  /\ pc[t] = "rStore"
  /\ cachedMin' = Lower(minR[t], pub[t])
  /\ \/ /\ AfterRefresh(t) = "idle"
        /\ Return(t)
     \/ /\ AfterRefresh(t) # "idle"
        /\ Goto(t, AfterRefresh(t))
        /\ UNCHANGED claims
  /\ pub' = [pub EXCEPT ![t] = 0]
  /\ minR' = [minR EXCEPT ![t] = 0]
  /\ UNCHANGED <<reserve, publish, available, data, readers, todo>>

-----------------------------------------------------------------------------
(* the WriterSpan is filled, then released: publish() *)

SlotsOf(p) == {calculateIndex(s) : s \in cur[p]..(cur[p] + n[p] - 1)}

\* the sample the claim of p puts into slot i
SampleAt(p, i) == CHOOSE s \in cur[p]..(cur[p] + n[p] - 1) : calculateIndex(s) = i

\* the samples are written and publish(k) is requested; publishing nothing returns at once
Write(p, k) ==
  /\ pc[p] = "write"
  /\ IF PartialPublish THEN k \in 0..n[p] ELSE k = n[p]
  /\ data' = [i \in Slots |-> IF i \in SlotsOf(p) THEN SampleAt(p, i) ELSE data[i]]
  /\ \/ /\ k = 0
        /\ Return(p)
     \/ /\ k > 0
        /\ n' = [n EXCEPT ![p] = k]
        /\ seq' = [seq EXCEPT ![p] = cur[p]]
        /\ Goto(p, "mark")
        /\ UNCHANGED cur
  /\ UNCHANGED <<reserve, publish, available, cachedMin, readers, refresh>>

\* one slot is marked as published
Mark(p) ==
  /\ pc[p] = "mark"
  /\ available' = [available EXCEPT ![calculateIndex(seq[p])] = seq[p]]
  /\ seq' = [seq EXCEPT ![p] = @ + 1]
  /\ Goto(p, IF seq[p] + 1 < cur[p] + n[p] THEN "mark" ELSE "pLoad")
  /\ UNCHANGED <<reserve, publish, data, cachedMin, readers, refresh, n, cur>>

LoadPublish(p) ==
  /\ pc[p] = "pLoad"
  /\ pub' = [pub EXCEPT ![p] = publish]
  /\ seq' = [seq EXCEPT ![p] = publish]
  /\ Goto(p, "scan")
  /\ UNCHANGED <<cursors, readers, minR, todo, n, cur>>

\* mutant of Scanned: a mark of an earlier round counts as published
ScannedAnyRound(p) == seq[p] - pub[p] >= Size \/ available[calculateIndex(seq[p])] = Never

Scanned(p) == seq[p] - pub[p] >= Size \/ available[calculateIndex(seq[p])] # seq[p]

\* the loop condition loads one slot; a scan that finds nothing ends publish()
Scan(p) ==
  /\ pc[p] = "scan"
  /\ \/ /\ ~Scanned(p)
        /\ seq' = [seq EXCEPT ![p] = @ + 1]
        /\ UNCHANGED <<pc, n, cur, pub>>
     \/ /\ Scanned(p) /\ seq[p] # pub[p]
        /\ Goto(p, "pCas")
        /\ UNCHANGED <<claims, pub>>
     \/ /\ Scanned(p) /\ seq[p] = pub[p]
        /\ Return(p)
        /\ pub' = [pub EXCEPT ![p] = 0]
  /\ UNCHANGED <<cursors, readers, minR, todo>>

\* mutant of CasPublish: a producer that loses the race does not scan again
CasPublishNoRetry(p) ==
  /\ pc[p] = "pCas"
  /\ publish' = IF publish = pub[p] THEN seq[p] ELSE publish
  /\ Return(p)
  /\ pub' = [pub EXCEPT ![p] = 0]
  /\ UNCHANGED <<reserve, available, data, cachedMin, readers, minR, todo>>

CasPublish(p) ==
  /\ pc[p] = "pCas"
  /\ \/ /\ publish = pub[p]
        /\ publish' = seq[p]
        /\ Return(p)
        /\ pub' = [pub EXCEPT ![p] = 0]
     \/ /\ publish # pub[p]
        /\ Goto(p, "pLoad")
        /\ UNCHANGED <<publish, claims, pub>>
  /\ UNCHANGED <<reserve, available, data, cachedMin, readers, minR, todo>>

-----------------------------------------------------------------------------
(* CircularBuffer::Reader *)

\* Reader(): addSequences() loads the list
AttachLoad(r) ==
  /\ pc[r] = "out"
  /\ casOk' = [casOk EXCEPT ![r] = TRUE]
  /\ Goto(r, "aCursor")
  /\ UNCHANGED <<cursors, claims, refresh, readSeqs, readIdx, span>>

\* the publish cursor becomes the start position
AttachCursor(r) ==
  /\ pc[r] = "aCursor"
  /\ readIdx' = [readIdx EXCEPT ![r] = publish]
  /\ Goto(r, "aCas")
  /\ UNCHANGED <<cursors, claims, refresh, readSeqs, casOk, span>>

\* a successful compare-and-set of the list makes every other pending one fail
AttachCas(r) ==
  /\ pc[r] = "aCas"
  /\ \/ /\ casOk[r]
        /\ readSeqs' = readSeqs \union {r}
        /\ casOk' = [x \in Readers |-> FALSE]
        /\ Goto(r, "aReread")
     \/ /\ ~casOk[r]
        /\ Goto(r, "out")
        /\ UNCHANGED <<readSeqs, casOk>>
  /\ UNCHANGED <<cursors, claims, refresh, readIdx, span>>

AttachReread(r) ==
  /\ pc[r] = "aReread"
  /\ pub' = [pub EXCEPT ![r] = publish]
  /\ Goto(r, "aSet")
  /\ UNCHANGED <<cursors, claims, readers, minR, todo>>

\* the start position is set again; notifyReaderSetChanged() follows
AttachSet(r) ==
  /\ pc[r] = "aSet"
  /\ readIdx' = [readIdx EXCEPT ![r] = pub[r]]
  /\ Goto(r, "rPub")
  /\ UNCHANGED <<cursors, claims, refresh, readSeqs, casOk, span>>

\* mutant of Get: the span reaches up to the reserve cursor
GetReserved(r) ==
  /\ pc[r] = "in"
  /\ span' = [span EXCEPT ![r] = reserve - readIdx[r]]
  /\ Goto(r, "span")
  /\ UNCHANGED <<cursors, claims, refresh, readSeqs, readIdx, casOk>>

\* get(): a span over everything that is available
Get(r) ==
  /\ pc[r] = "in"
  /\ span' = [span EXCEPT ![r] = publish - readIdx[r]]
  /\ Goto(r, "span")
  /\ UNCHANGED <<cursors, claims, refresh, readSeqs, readIdx, casOk>>

\* mutant of Consume: the number of consumed samples is not validated against the span
ConsumeUnchecked(r, k) ==
  /\ pc[r] = "span"
  /\ readIdx' = [readIdx EXCEPT ![r] = @ + k]
  /\ span' = [span EXCEPT ![r] = 0]
  /\ Goto(r, "in")
  /\ UNCHANGED <<cursors, claims, refresh, readSeqs, casOk>>

\* the last ReaderSpan is released with consume(k) requested
Consume(r, k) ==
  /\ pc[r] = "span"
  /\ k <= span[r]
  /\ readIdx' = [readIdx EXCEPT ![r] = @ + k]
  /\ span' = [span EXCEPT ![r] = 0]
  /\ Goto(r, "in")
  /\ UNCHANGED <<cursors, claims, refresh, readSeqs, casOk>>

\* ~Reader(): removeSequence() loads the list
DetachLoad(r) ==
  /\ r \notin Residents
  /\ pc[r] \in {"in", "dLoad"}
  /\ casOk' = [casOk EXCEPT ![r] = TRUE]
  /\ Goto(r, "dCas")
  /\ UNCHANGED <<cursors, claims, refresh, readSeqs, readIdx, span>>

DetachCas(r) ==
  /\ pc[r] = "dCas"
  /\ \/ /\ casOk[r]
        /\ readSeqs' = readSeqs \ {r}
        /\ casOk' = [x \in Readers |-> FALSE]
        /\ Goto(r, "rPub")
     \/ /\ ~casOk[r]
        /\ Goto(r, "dLoad")
        /\ UNCHANGED <<readSeqs, casOk>>
  /\ UNCHANGED <<cursors, claims, refresh, readIdx, span>>

-----------------------------------------------------------------------------
Init ==
  /\ reserve = 0
  /\ publish = 0
  /\ available = [i \in Slots |-> Never]
  /\ data = [i \in Slots |-> Never]
  /\ cachedMin = 0
  /\ readSeqs = Residents
  /\ readIdx = [r \in Readers |-> 0]
  /\ pc = [t \in Threads |-> IF t \in Producers THEN "idle"
                             ELSE IF t \in Residents THEN "in" ELSE "out"]
  /\ n = [p \in Producers |-> 0]
  /\ cur = [p \in Producers |-> 0]
  /\ seq = [p \in Producers |-> 0]
  /\ pub = [t \in Threads |-> 0]
  /\ minR = [t \in Threads |-> 0]
  /\ todo = [t \in Threads |-> {}]
  /\ casOk = [r \in Readers |-> FALSE]
  /\ span = [r \in Readers |-> 0]

ProducerStep(p) ==
  \/ \E k \in 1..Size : Claim(p, k)
  \/ Retry(p)
  \/ CheckCached(p)
  \/ CasReserve(p)
  \/ Available(p)
  \/ \E k \in 0..Size : Write(p, k)
  \/ Mark(p)
  \/ LoadPublish(p)
  \/ Scan(p)
  \/ CasPublish(p)

RefreshStep(t) ==
  \/ RefreshPublish(t)
  \/ RefreshList(t)
  \/ RefreshReserve(t)
  \/ \E r \in Readers : RefreshMin(t, r)
  \/ RefreshStore(t)

ReaderStep(r) ==
  \/ AttachLoad(r)
  \/ AttachCursor(r)
  \/ AttachCas(r)
  \/ AttachReread(r)
  \/ AttachSet(r)
  \/ Get(r)
  \/ \E k \in Cursor : Consume(r, k)
  \/ DetachLoad(r)
  \/ DetachCas(r)

Next ==
  \/ \E p \in Producers : ProducerStep(p)
  \/ \E t \in Threads : RefreshStep(t)
  \/ \E r \in Readers : ReaderStep(r)

Spec == Init /\ [][Next]_vars

-----------------------------------------------------------------------------
(* Properties *)

\* Cursors, marks and the threads' copies of them stay in range; in particular a reader
\* consumes no more than was published, and no claim goes beyond the bound of the model.
TypeOK ==
  /\ reserve \in Cursor
  /\ publish \in Cursor
  /\ available \in [Slots -> Cursor \union {Never}]
  /\ data \in [Slots -> Cursor \union {Never}]
  /\ cachedMin \in Cursor
  /\ readSeqs \subseteq Readers
  /\ readIdx \in [Readers -> Cursor]
  /\ pc \in [Threads -> PC]
  /\ n \in [Producers -> 0..Size]
  /\ cur \in [Producers -> Cursor]
  /\ seq \in [Producers -> Cursor]
  /\ pub \in [Threads -> Cursor]
  /\ minR \in [Threads -> Cursor]
  /\ todo \in [Threads -> SUBSET Readers]
  /\ casOk \in [Readers -> BOOLEAN]
  /\ span \in [Readers -> Cursor]

\* A reader that is attached stays within one buffer length of every claim, whatever other
\* readers attach or detach and however stale the minimum a claim was tested against.
ClaimsKeepResidents ==
  \A r \in Residents : reserve <= readIdx[r] + Size

\* The samples a resident reader has not consumed are still in their slots: no producer
\* writes over a slot that such a reader may read.
UnreadSamplesIntact ==
  \A r \in Residents : \A s \in readIdx[r]..(publish - 1) : data[calculateIndex(s)] = s

\* A reader whose start position is final
Positioned(r) == r \in readSeqs /\ pc[r] \notin {"aReread", "aSet"}

\* next()/tryNext() may take the cached minimum as a lower bound on the position of every
\* reader, including one that attached while another thread was refreshing the cache.
CachedMinIsLowerBound ==
  \A r \in Readers : Positioned(r) => cachedMin <= readIdx[r]

\* No claim waits for a publication that nobody will make: once every producer has returned,
\* the publish cursor has passed every slot that was claimed.
NothingLeftUnpublished ==
  (\A p \in Producers : pc[p] = "idle") => publish = reserve

\* What a reader is offered fits the buffer: Reader::available() is at most the buffer size.
AvailableFitsBuffer ==
  \A r \in Readers : pc[r] = "in" => publish - readIdx[r] <= Size

\* For the readers that stay attached the ring is the bounded log of module BroadcastLog.
Log == INSTANCE BroadcastLog WITH
         published <- publish,
         pos  <- [r \in Residents |-> readIdx[r]],
         view <- [r \in Residents |->
                    [i \in 1..span[r] |-> data[calculateIndex(readIdx[r] + i - 1)]]]

\* Every step of the ring is a step of the log or leaves the log as it is.
ImplementsLog == Log!LogSpec
=============================================================================
