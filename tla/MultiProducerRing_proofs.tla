---------------------- MODULE MultiProducerRing_proofs ----------------------
(***************************************************************************)
(* Proofs about module MultiProducerRing for any number of producers and   *)
(* readers and any buffer size.  The inductive invariant IInv has four     *)
(* parts: the types, the order of the cursors and of the local copies the  *)
(* threads hold of them (Bounds), what keeps a claim within one buffer     *)
(* length of a resident reader (Gated), and what keeps the cached minimum  *)
(* below every reader although refreshes overlap with attaches (Cached).   *)
(***************************************************************************)
EXTENDS MultiProducerRing, TLAPS

\* a thread that has copied the reader list and not yet stored its minimum
Refreshing == {"rMin", "rStore"}

\* The cursors are ordered and so are the values the threads have loaded.
Bounds ==
  /\ publish <= reserve
  /\ \A i \in Slots : available[i] < reserve
  /\ \A r \in Readers : readIdx[r] <= publish
  /\ \A r \in Readers : pc[r] = "span" => readIdx[r] + span[r] <= publish
  /\ \A t \in Threads : pub[t] <= publish
  /\ \A p \in Producers :
       /\ cur[p] + n[p] <= MaxCursor
       /\ pc[p] \in {"write", "mark", "pLoad", "scan", "pCas"} => cur[p] + n[p] <= reserve
       /\ pc[p] = "mark" => cur[p] <= seq[p] /\ seq[p] < cur[p] + n[p]
       /\ pc[p] \in {"scan", "pCas"} => pub[p] <= seq[p] /\ seq[p] <= reserve

\* No claim in progress goes beyond a buffer length ahead of a resident reader.
Gated ==
  /\ Residents \subseteq readSeqs
  /\ \A t \in Threads : pc[t] \in {"rReserve", "rStore"} => todo[t] = {}
  /\ \A t \in Threads : pc[t] = "rReserve" => Residents = {}
  /\ \A r \in Residents :
       /\ pc[r] \in {"in", "span"}
       /\ cachedMin <= readIdx[r]
       /\ reserve <= readIdx[r] + Size
       /\ \A t \in Threads : pc[t] \in Refreshing => r \in todo[t] \/ minR[t] <= readIdx[r]
       /\ \A p \in Producers : pc[p] = "cas" => cur[p] + n[p] <= readIdx[r] + Size

\* A refresh in progress will store a lower bound for every reader, the attaching ones included.
Cached ==
  /\ cachedMin <= publish
  /\ \A r \in Readers : pc[r] \in {"aReread", "aSet"} => r \in readSeqs
  /\ \A r \in Readers : Positioned(r) =>
       /\ cachedMin <= readIdx[r]
       /\ \A t \in Threads :
            /\ pc[t] \in Refreshing =>
                 r \in todo[t] \/ minR[t] <= readIdx[r] \/ pub[t] <= readIdx[r]
            /\ pc[t] = "rReserve" => pub[t] <= readIdx[r]
  /\ \A r \in Readers : pc[r] = "aSet" =>
       /\ readIdx[r] <= pub[r]
       /\ cachedMin <= pub[r]
       /\ \A t \in Threads :
            /\ pc[t] \in Refreshing => r \in todo[t] \/ minR[t] <= pub[r] \/ pub[t] <= pub[r]
            /\ pc[t] = "rReserve" => pub[t] <= pub[r]

IInv == TypeOK /\ Bounds /\ Gated /\ Cached

-----------------------------------------------------------------------------
\* A sequence number has a slot.
LEMMA IndexInSlots == \A s \in Cursor : calculateIndex(s) \in Slots
  BY RingAssumption DEF Cursor, calculateIndex, Slots

\* A step that writes a claim into the slots puts sequence numbers of the claim there.
LEMMA SampleInClaim ==
  ASSUME NEW p \in Producers, NEW i \in SlotsOf(p)
  PROVE  SampleAt(p, i) \in cur[p]..(cur[p] + n[p] - 1)
  BY DEF SampleAt, SlotsOf

\* A call that returns leaves the locals of the producer well typed.
LEMMA ReturnTypes ==
  ASSUME TypeOK, NEW p \in Producers, Return(p)
  PROVE  /\ pc' \in [Threads -> PC]
         /\ n' \in [Producers -> 0..Size]
         /\ cur' \in [Producers -> Cursor]
         /\ seq' \in [Producers -> Cursor]
  BY RingAssumption DEF TypeOK, Return, Goto, PC, Cursor, Threads

\* The initial state satisfies the inductive invariant.
LEMMA InitIInv == Init => IInv
<1> SUFFICES ASSUME Init PROVE IInv
  OBVIOUS
<1> USE RingAssumption DEF Init, Threads, Cursor
<1>1. TypeOK
  BY DEF TypeOK, PC, Slots, Never
<1>2. Bounds
  BY DEF Bounds, Slots, Never
<1>3. Gated
  BY DEF Gated, Refreshing
<1>4. Cached
  BY DEF Cached, Positioned, Refreshing
<1>5. QED
  BY <1>1, <1>2, <1>3, <1>4 DEF IInv

\* Every step preserves the types.
LEMMA TypeStep == IInv /\ [Next]_vars => TypeOK'
<1> SUFFICES ASSUME IInv, [Next]_vars PROVE TypeOK'
  OBVIOUS
<1> USE RingAssumption DEF IInv, TypeOK, PC, Bounds, cursors, claims, refresh, readers, Goto, Threads, Cursor
<1>1. CASE UNCHANGED vars
  BY <1>1 DEF vars
<1>2. ASSUME NEW p \in Producers, NEW k \in 1..Size, Claim(p, k) PROVE TypeOK'
  BY <1>2 DEF Claim
<1>3. ASSUME NEW p \in Producers, Retry(p) PROVE TypeOK'
  BY <1>3 DEF Retry
<1>4. ASSUME NEW p \in Producers, CheckCached(p) PROVE TypeOK'
  BY <1>4 DEF CheckCached
<1>5. ASSUME NEW p \in Producers, CasReserve(p) PROVE TypeOK'
  BY <1>5 DEF CasReserve
<1>6. ASSUME NEW p \in Producers, Available(p) PROVE TypeOK'
  BY <1>6 DEF Available
<1>7. ASSUME NEW p \in Producers, NEW k \in 0..Size, Write(p, k) PROVE TypeOK'
  <2>1. data' \in [Slots -> Cursor \union {Never}]
    <3>1. \A i \in SlotsOf(p) : SampleAt(p, i) \in Cursor
      BY SampleInClaim
    <3>2. QED
      BY <1>7, <3>1 DEF Write
  <2>2. CASE k = 0
    <3>1. Return(p)
      BY <1>7, <2>2 DEF Write
    <3>2. QED
      BY <1>7, <2>1, <3>1, ReturnTypes DEF Write
  <2>3. CASE k > 0
    <3>1. /\ n' \in [Producers -> 0..Size]
          /\ seq' \in [Producers -> Cursor]
          /\ pc' \in [Threads -> PC]
          /\ cur' = cur
      BY <1>7, <2>3 DEF Write
    <3>2. QED
      BY <1>7, <2>1, <3>1 DEF Write
  <2>4. QED
    BY <2>2, <2>3
<1>8. ASSUME NEW p \in Producers, Mark(p) PROVE TypeOK'
  <2>1. seq[p] + 1 \in Cursor
    BY <1>8 DEF Mark
  <2>2. available' \in [Slots -> Cursor \union {Never}]
    BY <1>8 DEF Mark
  <2>3. QED
    BY <1>8, <2>1, <2>2 DEF Mark
<1>9. ASSUME NEW p \in Producers, LoadPublish(p) PROVE TypeOK'
  BY <1>9 DEF LoadPublish
<1>10. ASSUME NEW p \in Producers, Scan(p) PROVE TypeOK'
  <2>1. CASE ~Scanned(p) /\ seq' = [seq EXCEPT ![p] = @ + 1] /\ UNCHANGED <<pc, n, cur, pub>>
    <3>1. seq[p] + 1 \in Cursor
      BY <2>1, IndexInSlots DEF Scanned, Never
    <3>2. QED
      BY <1>10, <2>1, <3>1 DEF Scan
  <2>2. CASE Scanned(p) /\ seq[p] # pub[p]
    BY <1>10, <2>2 DEF Scan
  <2>3. CASE Scanned(p) /\ seq[p] = pub[p]
    <3>1. Return(p) /\ pub' \in [Threads -> Cursor]
      BY <1>10, <2>3 DEF Scan
    <3>2. QED
      BY <1>10, <3>1, ReturnTypes DEF Scan
  <2>4. QED
    BY <1>10, <2>1, <2>2, <2>3 DEF Scan
<1>11. ASSUME NEW p \in Producers, CasPublish(p) PROVE TypeOK'
  BY <1>11 DEF CasPublish, Return
<1>12. ASSUME NEW t \in Threads, RefreshPublish(t) PROVE TypeOK'
  BY <1>12 DEF RefreshPublish
<1>13. ASSUME NEW t \in Threads, RefreshList(t) PROVE TypeOK'
  BY <1>13 DEF RefreshList
<1>14. ASSUME NEW t \in Threads, RefreshReserve(t) PROVE TypeOK'
  BY <1>14 DEF RefreshReserve
<1>15. ASSUME NEW t \in Threads, NEW r \in Readers, RefreshMin(t, r) PROVE TypeOK'
  BY <1>15 DEF RefreshMin, Lower
<1>16. ASSUME NEW t \in Threads, RefreshStore(t) PROVE TypeOK'
  <2>1. Lower(minR[t], pub[t]) \in Cursor
    BY DEF Lower
  <2>2. AfterRefresh(t) \in PC /\ (t \in Readers => AfterRefresh(t) # "idle")
    BY DEF AfterRefresh
  <2>3. CASE AfterRefresh(t) = "idle"
    <3>1. Return(t) /\ t \in Producers
      BY <1>16, <2>2, <2>3 DEF RefreshStore
    <3>2. QED
      BY <1>16, <2>1, <3>1, ReturnTypes DEF RefreshStore
  <2>4. CASE AfterRefresh(t) # "idle"
    BY SMTT(30), <1>16, <2>1, <2>2, <2>4 DEF RefreshStore
  <2>5. QED
    BY <2>3, <2>4
<1>17. ASSUME NEW r \in Readers, AttachLoad(r) PROVE TypeOK'
  BY <1>17 DEF AttachLoad
<1>18. ASSUME NEW r \in Readers, AttachCursor(r) PROVE TypeOK'
  BY <1>18 DEF AttachCursor
<1>19. ASSUME NEW r \in Readers, AttachCas(r) PROVE TypeOK'
  BY <1>19 DEF AttachCas
<1>20. ASSUME NEW r \in Readers, AttachReread(r) PROVE TypeOK'
  BY <1>20 DEF AttachReread
<1>21. ASSUME NEW r \in Readers, AttachSet(r) PROVE TypeOK'
  BY <1>21 DEF AttachSet
<1>22. ASSUME NEW r \in Readers, Get(r) PROVE TypeOK'
  BY <1>22 DEF Get
<1>23. ASSUME NEW r \in Readers, NEW k \in Cursor, Consume(r, k) PROVE TypeOK'
  BY <1>23 DEF Consume
<1>24. ASSUME NEW r \in Readers, DetachLoad(r) PROVE TypeOK'
  BY <1>24 DEF DetachLoad
<1>25. ASSUME NEW r \in Readers, DetachCas(r) PROVE TypeOK'
  BY <1>25 DEF DetachCas
<1>26. QED
  BY SMTT(30), <1>1, <1>2, <1>3, <1>4, <1>5, <1>6, <1>7, <1>8, <1>9, <1>10, <1>11, <1>12, <1>13, <1>14, <1>15, <1>16, <1>17, <1>18, <1>19, <1>20, <1>21, <1>22, <1>23, <1>24, <1>25 DEF Next, ProducerStep, RefreshStep, ReaderStep

\* Every step preserves the order of the cursors.
LEMMA BoundsStep == IInv /\ [Next]_vars => Bounds'
<1> SUFFICES ASSUME IInv, [Next]_vars PROVE Bounds'
  OBVIOUS
<1> USE RingAssumption DEF IInv, TypeOK, Bounds, cursors, claims, refresh, readers, Goto, Threads, Cursor
<1>1. CASE UNCHANGED vars
  BY <1>1 DEF vars
<1>2. ASSUME NEW p \in Producers, NEW k \in 1..Size, Claim(p, k) PROVE Bounds'
  BY <1>2 DEF Claim
<1>3. ASSUME NEW p \in Producers, Retry(p) PROVE Bounds'
  BY <1>3 DEF Retry
<1>4. ASSUME NEW p \in Producers, CheckCached(p) PROVE Bounds'
  BY <1>4 DEF CheckCached
<1>5. ASSUME NEW p \in Producers, CasReserve(p) PROVE Bounds'
  <2>1. CASE reserve = cur[p]
    <3>1. reserve <= reserve' /\ reserve' = cur[p] + n[p]
      BY <1>5, <2>1 DEF CasReserve
    <3>2. \A i \in Slots : available'[i] < reserve'
      BY <1>5, <3>1 DEF CasReserve, Never
    <3>3. QED
      BY <1>5, <2>1, <3>1, <3>2 DEF CasReserve
  <2>2. CASE reserve # cur[p]
    BY <1>5, <2>2 DEF CasReserve
  <2>3. QED
    BY <2>1, <2>2
<1>6. ASSUME NEW p \in Producers, Available(p) PROVE Bounds'
  BY <1>6 DEF Available
<1>7. ASSUME NEW p \in Producers, NEW k \in 0..Size, Write(p, k) PROVE Bounds'
  BY <1>7 DEF Write, Return
<1>8. ASSUME NEW p \in Producers, Mark(p) PROVE Bounds'
  BY <1>8 DEF Mark
<1>9. ASSUME NEW p \in Producers, LoadPublish(p) PROVE Bounds'
  BY <1>9 DEF LoadPublish
<1>10. ASSUME NEW p \in Producers, Scan(p) PROVE Bounds'
  <2>1. CASE ~Scanned(p) /\ seq' = [seq EXCEPT ![p] = @ + 1] /\ UNCHANGED <<pc, n, cur, pub>>
    <3>1. seq[p] + 1 <= reserve
      BY <2>1, IndexInSlots DEF Scanned, Never
    <3>2. QED
      BY <1>10, <2>1, <3>1 DEF Scan
  <2>2. CASE Scanned(p) /\ seq[p] # pub[p]
    BY <1>10, <2>2 DEF Scan
  <2>3. CASE Scanned(p) /\ seq[p] = pub[p]
    BY <1>10, <2>3 DEF Scan, Return
  <2>4. QED
    BY <1>10, <2>1, <2>2, <2>3 DEF Scan
<1>11. ASSUME NEW p \in Producers, CasPublish(p) PROVE Bounds'
  <2>1. CASE publish = pub[p]
    <3>1. publish <= publish' /\ publish' = seq[p]
      BY <1>11, <2>1 DEF CasPublish
    <3>2. /\ \A r \in Readers : readIdx'[r] <= publish'
          /\ \A r \in Readers : pc'[r] = "span" => readIdx'[r] + span'[r] <= publish'
      BY <1>11, <2>1, <3>1 DEF CasPublish, Return
    <3>3. \A t \in Threads : pub'[t] <= publish'
      BY <1>11, <2>1, <3>1 DEF CasPublish, Return
    <3>4. QED
      BY <1>11, <2>1, <3>1, <3>2, <3>3 DEF CasPublish, Return
  <2>2. CASE publish # pub[p]
    BY <1>11, <2>2 DEF CasPublish
  <2>3. QED
    BY <2>1, <2>2
<1>12. ASSUME NEW t \in Threads, RefreshPublish(t) PROVE Bounds'
  BY <1>12 DEF RefreshPublish
<1>13. ASSUME NEW t \in Threads, RefreshList(t) PROVE Bounds'
  BY <1>13 DEF RefreshList
<1>14. ASSUME NEW t \in Threads, RefreshReserve(t) PROVE Bounds'
  BY <1>14 DEF RefreshReserve
<1>15. ASSUME NEW t \in Threads, NEW r \in Readers, RefreshMin(t, r) PROVE Bounds'
  BY <1>15 DEF RefreshMin, Lower
<1>16. ASSUME NEW t \in Threads, RefreshStore(t) PROVE Bounds'
  BY <1>16 DEF RefreshStore, Return, AfterRefresh, Lower, Exceeds
<1>17. ASSUME NEW r \in Readers, AttachLoad(r) PROVE Bounds'
  BY <1>17 DEF AttachLoad
<1>18. ASSUME NEW r \in Readers, AttachCursor(r) PROVE Bounds'
  BY <1>18 DEF AttachCursor
<1>19. ASSUME NEW r \in Readers, AttachCas(r) PROVE Bounds'
  BY <1>19 DEF AttachCas
<1>20. ASSUME NEW r \in Readers, AttachReread(r) PROVE Bounds'
  BY <1>20 DEF AttachReread
<1>21. ASSUME NEW r \in Readers, AttachSet(r) PROVE Bounds'
  BY <1>21 DEF AttachSet
<1>22. ASSUME NEW r \in Readers, Get(r) PROVE Bounds'
  BY <1>22 DEF Get
<1>23. ASSUME NEW r \in Readers, NEW k \in Cursor, Consume(r, k) PROVE Bounds'
  BY <1>23 DEF Consume
<1>24. ASSUME NEW r \in Readers, DetachLoad(r) PROVE Bounds'
  BY <1>24 DEF DetachLoad
<1>25. ASSUME NEW r \in Readers, DetachCas(r) PROVE Bounds'
  BY <1>25 DEF DetachCas
<1>26. QED
  BY <1>1, <1>2, <1>3, <1>4, <1>5, <1>6, <1>7, <1>8, <1>9, <1>10, <1>11, <1>12, <1>13, <1>14, <1>15, <1>16, <1>17, <1>18, <1>19, <1>20, <1>21, <1>22, <1>23, <1>24, <1>25 DEF Next, ProducerStep, RefreshStep, ReaderStep

\* Every step keeps the claims within a buffer length of the residents.
LEMMA GatedStep == IInv /\ [Next]_vars => Gated'
<1> SUFFICES ASSUME IInv, [Next]_vars PROVE Gated'
  OBVIOUS
<1> USE RingAssumption DEF IInv, TypeOK, Gated, Refreshing, cursors, claims, refresh, readers, Goto, Threads, Cursor
<1>1. CASE UNCHANGED vars
  BY <1>1 DEF vars
<1>2. ASSUME NEW p \in Producers, NEW k \in 1..Size, Claim(p, k) PROVE Gated'
  BY <1>2 DEF Claim
<1>3. ASSUME NEW p \in Producers, Retry(p) PROVE Gated'
  BY <1>3 DEF Retry
<1>4. ASSUME NEW p \in Producers, CheckCached(p) PROVE Gated'
  BY <1>4 DEF CheckCached, Exceeds
<1>5. ASSUME NEW p \in Producers, CasReserve(p) PROVE Gated'
  BY <1>5 DEF CasReserve
<1>6. ASSUME NEW p \in Producers, Available(p) PROVE Gated'
  BY <1>6 DEF Available
<1>7. ASSUME NEW p \in Producers, NEW k \in 0..Size, Write(p, k) PROVE Gated'
  BY ZenonT(40), <1>7 DEF Write, Return
<1>8. ASSUME NEW p \in Producers, Mark(p) PROVE Gated'
  BY <1>8 DEF Mark
<1>9. ASSUME NEW p \in Producers, LoadPublish(p) PROVE Gated'
  BY <1>9 DEF LoadPublish
<1>10. ASSUME NEW p \in Producers, Scan(p) PROVE Gated'
  BY <1>10 DEF Scan, Return
<1>11. ASSUME NEW p \in Producers, CasPublish(p) PROVE Gated'
  <2>1. /\ \A t \in Threads \ {p} : pc'[t] = pc[t]
        /\ pc'[p] \in {"idle", "pLoad"} /\ p \notin Residents
    BY <1>11 DEF CasPublish, Return
  <2>2. \A q \in Producers \ {p} : cur'[q] = cur[q] /\ n'[q] = n[q]
    BY <1>11 DEF CasPublish, Return
  <2>3. UNCHANGED <<reserve, cachedMin, readSeqs, readIdx, minR, todo>>
    BY <1>11 DEF CasPublish
  <2>4. QED
    BY <2>1, <2>2, <2>3
<1>12. ASSUME NEW t \in Threads, RefreshPublish(t) PROVE Gated'
  BY <1>12 DEF RefreshPublish
<1>13. ASSUME NEW t \in Threads, RefreshList(t) PROVE Gated'
  BY <1>13 DEF RefreshList
<1>14. ASSUME NEW t \in Threads, RefreshReserve(t) PROVE Gated'
  BY <1>14 DEF RefreshReserve
<1>15. ASSUME NEW t \in Threads, NEW r \in Readers, RefreshMin(t, r) PROVE Gated'
  BY <1>15 DEF RefreshMin, Lower
<1>16. ASSUME NEW t \in Threads, RefreshStore(t) PROVE Gated'
  <2>1. t \notin Residents /\ todo[t] = {}
    BY <1>16 DEF RefreshStore
  <2>2. \A r \in Residents : minR[t] <= readIdx[r] /\ cachedMin' <= readIdx[r]
    BY <1>16, <2>1 DEF RefreshStore, Lower
  <2>3. CASE AfterRefresh(t) = "idle"
    BY <1>16, <2>1, <2>2, <2>3 DEF RefreshStore, Return
  <2>4. CASE AfterRefresh(t) # "idle"
    <3>1. AfterRefresh(t) = "cas" => t \in Producers /\ ~Exceeds(cur[t] + n[t], minR[t])
      BY DEF AfterRefresh
    <3>2. AfterRefresh(t) \in {"in", "gone", "cas", "load"}
      BY <2>4 DEF AfterRefresh
    <3>3. t \in Producers /\ AfterRefresh(t) = "cas" => \A r \in Residents : cur[t] + n[t] <= readIdx[r] + Size
      BY <2>2, <3>1 DEF Exceeds
    <3>4. QED
      BY <1>16, <2>1, <2>2, <2>4, <3>2, <3>3 DEF RefreshStore
  <2>5. QED
    BY <2>3, <2>4
<1>17. ASSUME NEW r \in Readers, AttachLoad(r) PROVE Gated'
  BY <1>17 DEF AttachLoad
<1>18. ASSUME NEW r \in Readers, AttachCursor(r) PROVE Gated'
  BY <1>18 DEF AttachCursor
<1>19. ASSUME NEW r \in Readers, AttachCas(r) PROVE Gated'
  BY SMTT(30), <1>19 DEF AttachCas
<1>20. ASSUME NEW r \in Readers, AttachReread(r) PROVE Gated'
  BY <1>20 DEF AttachReread
<1>21. ASSUME NEW r \in Readers, AttachSet(r) PROVE Gated'
  BY <1>21 DEF AttachSet
<1>22. ASSUME NEW r \in Readers, Get(r) PROVE Gated'
  BY <1>22 DEF Get
<1>23. ASSUME NEW r \in Readers, NEW k \in Cursor, Consume(r, k) PROVE Gated'
  BY <1>23 DEF Consume
<1>24. ASSUME NEW r \in Readers, DetachLoad(r) PROVE Gated'
  BY <1>24 DEF DetachLoad
<1>25. ASSUME NEW r \in Readers, DetachCas(r) PROVE Gated'
  BY <1>25 DEF DetachCas
<1>26. QED
  BY <1>1, <1>2, <1>3, <1>4, <1>5, <1>6, <1>7, <1>8, <1>9, <1>10, <1>11, <1>12, <1>13, <1>14, <1>15, <1>16, <1>17, <1>18, <1>19, <1>20, <1>21, <1>22, <1>23, <1>24, <1>25 DEF Next, ProducerStep, RefreshStep, ReaderStep

\* Every step keeps the stored and the pending minima below every reader.
LEMMA CachedStep == IInv /\ [Next]_vars => Cached'
<1> SUFFICES ASSUME IInv, [Next]_vars PROVE Cached'
  OBVIOUS
<1> USE RingAssumption DEF IInv, TypeOK, Bounds, Cached, Positioned, Refreshing, cursors, claims, refresh, readers, Goto, Threads, Cursor
<1>1. CASE UNCHANGED vars
  BY <1>1 DEF vars
<1>2. ASSUME NEW p \in Producers, NEW k \in 1..Size, Claim(p, k) PROVE Cached'
  BY <1>2 DEF Claim
<1>3. ASSUME NEW p \in Producers, Retry(p) PROVE Cached'
  BY <1>3 DEF Retry
<1>4. ASSUME NEW p \in Producers, CheckCached(p) PROVE Cached'
  BY <1>4 DEF CheckCached
<1>5. ASSUME NEW p \in Producers, CasReserve(p) PROVE Cached'
  BY <1>5 DEF CasReserve
<1>6. ASSUME NEW p \in Producers, Available(p) PROVE Cached'
  BY <1>6 DEF Available
<1>7. ASSUME NEW p \in Producers, NEW k \in 0..Size, Write(p, k) PROVE Cached'
  BY <1>7 DEF Write, Return
<1>8. ASSUME NEW p \in Producers, Mark(p) PROVE Cached'
  BY <1>8 DEF Mark
<1>9. ASSUME NEW p \in Producers, LoadPublish(p) PROVE Cached'
  BY <1>9 DEF LoadPublish
<1>10. ASSUME NEW p \in Producers, Scan(p) PROVE Cached'
  BY ZenonT(40), <1>10 DEF Scan, Return
<1>11. ASSUME NEW p \in Producers, CasPublish(p) PROVE Cached'
  <2>1. publish <= publish' /\ publish' \in Nat /\ pc'[p] \in {"idle", "pLoad"} /\ pc[p] = "pCas"
    BY <1>11 DEF CasPublish, Return
  <2>2. /\ \A t \in Threads \ {p} : pc'[t] = pc[t] /\ pub'[t] = pub[t]
        /\ \A r \in Readers : Positioned(r)' <=> Positioned(r)
    BY <1>11 DEF CasPublish, Return
  <2>3. UNCHANGED <<cachedMin, readSeqs, readIdx, minR, todo>>
    BY <1>11 DEF CasPublish
  <2>4. cachedMin' <= publish' /\ (\A r \in Readers : pc'[r] \in {"aReread", "aSet"} => r \in readSeqs')
    BY <2>1, <2>2, <2>3
  <2>5. \A r \in Readers : Positioned(r)' =>
          /\ cachedMin' <= readIdx'[r]
          /\ \A t \in Threads :
               /\ pc'[t] \in Refreshing =>
                    r \in todo'[t] \/ minR'[t] <= readIdx'[r] \/ pub'[t] <= readIdx'[r]
               /\ pc'[t] = "rReserve" => pub'[t] <= readIdx'[r]
    BY <2>1, <2>2, <2>3
  <2>6. \A r \in Readers : pc'[r] = "aSet" => pc[r] = "aSet" /\ pub'[r] = pub[r]
    BY <2>1, <2>2
  <2>7. QED
    BY SMTT(30), <2>1, <2>2, <2>3, <2>4, <2>5, <2>6
<1>12. ASSUME NEW t \in Threads, RefreshPublish(t) PROVE Cached'
  BY <1>12 DEF RefreshPublish
<1>13. ASSUME NEW t \in Threads, RefreshList(t) PROVE Cached'
  BY <1>13 DEF RefreshList
<1>14. ASSUME NEW t \in Threads, RefreshReserve(t) PROVE Cached'
  BY <1>14 DEF RefreshReserve
<1>15. ASSUME NEW t \in Threads, NEW r \in Readers, RefreshMin(t, r) PROVE Cached'
  BY <1>15 DEF RefreshMin, Lower
<1>16. ASSUME NEW t \in Threads, RefreshStore(t) PROVE Cached'
  <2>1. /\ cachedMin' = Lower(minR[t], pub[t])
        /\ pc[t] = "rStore" /\ todo[t] = {}
        /\ pc'[t] \in {"in", "gone", "idle", "cas", "load"}
        /\ t \in Readers /\ t \notin readSeqs => pc'[t] = "gone"
    BY <1>16 DEF RefreshStore, Return, AfterRefresh, Gated
  <2>2. \A s \in Threads \ {t} : pc'[s] = pc[s] /\ pub'[s] = pub[s] /\ minR'[s] = minR[s]
    BY <1>16 DEF RefreshStore, Return
  <2>3. \A r \in Readers : Positioned(r)' <=> Positioned(r)
    BY <1>16, <2>1, <2>2 DEF RefreshStore
  <2>4. UNCHANGED <<publish, readSeqs, readIdx, todo>>
    BY <1>16 DEF RefreshStore
  <2>5. cachedMin' <= publish'
    BY <2>1, <2>4 DEF Lower
  <2>6. \A r \in Readers : Positioned(r) => cachedMin' <= readIdx[r]
    BY <2>1 DEF Lower
  <2>7. \A r \in Readers : pc[r] = "aSet" => cachedMin' <= pub[r]
    BY <2>1 DEF Lower
  <2>8. QED
    BY <2>1, <2>2, <2>3, <2>4, <2>5, <2>6, <2>7
<1>17. ASSUME NEW r \in Readers, AttachLoad(r) PROVE Cached'
  BY <1>17 DEF AttachLoad
<1>18. ASSUME NEW r \in Readers, AttachCursor(r) PROVE Cached'
  BY <1>18 DEF AttachCursor
<1>19. ASSUME NEW r \in Readers, AttachCas(r) PROVE Cached'
  BY <1>19 DEF AttachCas
<1>20. ASSUME NEW r \in Readers, AttachReread(r) PROVE Cached'
  BY <1>20 DEF AttachReread
<1>21. ASSUME NEW r \in Readers, AttachSet(r) PROVE Cached'
  BY <1>21 DEF AttachSet
<1>22. ASSUME NEW r \in Readers, Get(r) PROVE Cached'
  BY <1>22 DEF Get
<1>23. ASSUME NEW r \in Readers, NEW k \in Cursor, Consume(r, k) PROVE Cached'
  BY <1>23 DEF Consume
<1>24. ASSUME NEW r \in Readers, DetachLoad(r) PROVE Cached'
  BY <1>24 DEF DetachLoad
<1>25. ASSUME NEW r \in Readers, DetachCas(r) PROVE Cached'
  BY SMTT(30), <1>25 DEF DetachCas
<1>26. QED
  BY SMTT(30), <1>1, <1>2, <1>3, <1>4, <1>5, <1>6, <1>7, <1>8, <1>9, <1>10, <1>11, <1>12, <1>13, <1>14, <1>15, <1>16, <1>17, <1>18, <1>19, <1>20, <1>21, <1>22, <1>23, <1>24, <1>25 DEF Next, ProducerStep, RefreshStep, ReaderStep

-----------------------------------------------------------------------------
\* The inductive invariant holds in every reachable state.
THEOREM Inductive == Spec => []IInv
<1>1. IInv /\ [Next]_vars => IInv'
  BY TypeStep, BoundsStep, GatedStep, CachedStep DEF IInv
<1>2. QED
  BY InitIInv, <1>1, PTL DEF Spec

\* Every cursor, slot mark and local copy stays in its range: no claim, scan or consume of
\* MultiProducerStrategy and CircularBuffer::Reader runs past the cursors it is bounded by.
THEOREM TypesCorrect == Spec => []TypeOK
<1>1. IInv => TypeOK
  BY DEF IInv
<1>2. QED
  BY Inductive, <1>1, PTL

\* next() and tryNext() never claim a slot that a resident reader has not released, for any
\* number of producers and readers and any interleaving of attaches, detaches and refreshes.
THEOREM ResidentsAreGated == Spec => []ClaimsKeepResidents
<1>1. IInv => ClaimsKeepResidents
  BY DEF IInv, Gated, ClaimsKeepResidents
<1>2. QED
  BY Inductive, <1>1, PTL

\* The value refreshMinReaderCursor() stores is a lower bound on every attached reader, however
\* the refreshes of several threads and the attaches of new readers overlap.
THEOREM CachedMinimumIsSafe == Spec => []CachedMinIsLowerBound
<1>1. IInv => CachedMinIsLowerBound
  BY DEF IInv, Cached, CachedMinIsLowerBound
<1>2. QED
  BY Inductive, <1>1, PTL

-----------------------------------------------------------------------------
(***************************************************************************)
(* What the ring of module MultiProducerRing holds: the samples that a     *)
(* reader who stays has still to read are in their slots, no claim is left *)
(* unpublished, and the ring implements the bounded log of BroadcastLog.   *)
(*                                                                         *)
(* On the invariant IInv, DataInv adds who is  *)
(* to mark a claimed sample (Owned), what a scan of publish() covers       *)
(* (Scans) and where the samples are (Stored).  Taken adds who will        *)
(* publish a marked sample; it needs a reader that stays, which keeps the  *)
(* unpublished samples apart, and spans that publish all they reserved.    *)
(***************************************************************************)

\* the first sample of the claim of p that p has not marked yet
Unmarked(p) == IF pc[p] = "write" THEN cur[p] ELSE seq[p]

\* a producer between its claim and its last mark
Owners == {"write", "mark"}

\* p has claimed sample s and not marked it yet
Owns(p, s) == pc[p] \in Owners /\ Unmarked(p) <= s /\ s < cur[p] + n[p]

Marked(s) == available[calculateIndex(s)] = s

\* A claim is of something.
ClaimsCount == \A p \in Producers : pc[p] \in {"load", "check", "cas", "write"} => n[p] > 0

\* A sample has one owner from its claim to its mark, and is not readable before.
ClaimsApart ==
  \A p, q \in Producers : p # q /\ pc[p] \in Owners /\ pc[q] \in Owners =>
     cur[p] + n[p] <= cur[q] \/ cur[q] + n[q] <= cur[p]

OwnedIsUnmarked == \A p \in Producers, s \in Cursor : Owns(p, s) => ~Marked(s)

OwnedIsUnread ==
  \A p \in Producers : pc[p] \in Owners =>
     /\ publish <= Unmarked(p)
     /\ \A q \in Producers : pc[q] \in {"scan", "pCas"} => seq[q] <= Unmarked(p)

Owned == ClaimsCount /\ ClaimsApart /\ OwnedIsUnmarked /\ OwnedIsUnread

\* A scan covers at most one round, and one that goes on to the publish cursor has found something.
Scans ==
  /\ \A p \in Producers : pc[p] \in {"scan", "pCas"} => seq[p] - pub[p] <= Size
  /\ \A p \in Producers : pc[p] = "pCas" => pub[p] < seq[p]

\* What a resident reader has not consumed is in its slot, unless its producer is still filling it.
Stored ==
  /\ \A r \in Readers : pc[r] # "span" => span[r] = 0
  /\ \A r \in Residents, s \in Cursor : readIdx[r] <= s /\ s < reserve =>
       data[calculateIndex(s)] = s \/ \E p \in Producers : pc[p] = "write" /\ Owns(p, s)

DataInv == Owned /\ Scans /\ Stored

\* p has still to load the publish cursor, or will find there is something to publish.
WillPublish(p) ==
  \/ pc[p] \in {"mark", "pLoad", "pCas"}
  \/ pc[p] = "scan" /\ (pub[p] < seq[p] \/ Marked(pub[p]))

Publishing == {"scan", "pCas"}

\* Every claimed sample is readable, marked or owned.
ClaimsAreTaken ==
  \A s \in Cursor : publish <= s /\ s < reserve => Marked(s) \/ \E p \in Producers : Owns(p, s)

\* Where the next sample is marked somebody will publish it.
MarkedIsFound == publish < reserve /\ Marked(publish) => \E p \in Producers : WillPublish(p)

\* A scan that is not stale has found the next sample marked, and it still is.
ScanSawMark ==
  \A p \in Producers : pc[p] \in Publishing /\ pub[p] = publish /\ pub[p] < seq[p] => Marked(publish)

\* A mark made behind a scan that is about to succeed is for somebody else to publish.
NextIsFound ==
  \A p \in Producers : pc[p] = "pCas" /\ pub[p] = publish /\ seq[p] < reserve /\ Marked(seq[p]) =>
     \E q \in Producers \ {p} : WillPublish(q)

Taken == ClaimsAreTaken /\ MarkedIsFound /\ ScanSawMark /\ NextIsFound

\* Samples less than one buffer length apart have different slots.
LEMMA SamplesApart ==
  ASSUME NEW a \in Nat, NEW b \in Nat, a <= b, b < a + Size, calculateIndex(a) = calculateIndex(b)
  PROVE  a = b
<1> DEFINE qa == a \div Size
           qb == b \div Size
           i  == a % Size
<1>1. a = Size * qa + i /\ b = Size * qb + i
  BY RingAssumption DEF calculateIndex
<1>2. qa \in Int /\ qb \in Int /\ i \in Int
  BY RingAssumption
<1> HIDE DEF qa, qb, i
<1>3. b - a = Size * (qb - qa)
  BY <1>1, <1>2, RingAssumption
<1>4. \A k \in Int : 0 <= Size * k /\ Size * k < Size => k = 0
  BY RingAssumption
<1>5. qb - qa = 0
  BY <1>2, <1>3, <1>4, RingAssumption
<1>6. QED
  BY <1>1, <1>2, <1>5

\* A step of one producer that ends or has not begun its ownership changes nothing for the others.
LEMMA OwnedKept ==
  ASSUME IInv, Owned, NEW p \in Threads,
         p \in Producers => pc'[p] \notin Owners \union {"scan", "pCas"} /\ (pc'[p] \in {"load", "check", "cas"} => n'[p] > 0),
         \A q \in Producers \ {p} : pc'[q] = pc[q] /\ cur'[q] = cur[q] /\ n'[q] = n[q] /\ seq'[q] = seq[q],
         UNCHANGED <<publish, available>>
  PROVE  Owned'
<1>1. ClaimsCount'
  BY DEF Owned, ClaimsCount, Owners
<1>2. \A q \in Producers : pc'[q] \in Owners \union {"scan", "pCas"} => q # p
  OBVIOUS
<1>3. ClaimsApart'
  BY <1>2 DEF Owned, ClaimsApart
<1>4. \A q \in Producers, s \in Cursor : (Owns(q, s)' => Owns(q, s)) /\ (Marked(s)' <=> Marked(s))
  BY <1>2 DEF Owns, Unmarked, Owners, Marked
<1>5. OwnedIsUnmarked'
  BY <1>4 DEF Owned, OwnedIsUnmarked
<1>6. \A q \in Producers : pc'[q] \in Owners => pc[q] \in Owners /\ Unmarked(q)' = Unmarked(q)
  BY <1>2 DEF Unmarked
<1>7. \A q \in Producers : pc'[q] \in {"scan", "pCas"} => pc[q] \in {"scan", "pCas"} /\ seq'[q] = seq[q]
  BY <1>2
<1>8. OwnedIsUnread'
  BY <1>6, <1>7 DEF Owned, OwnedIsUnread
<1>9. QED
  BY <1>1, <1>3, <1>5, <1>8 DEF Owned

\* Every step keeps the claims apart and unread until they are marked.
LEMMA OwnedStep == IInv /\ DataInv /\ [Next]_vars => Owned'
<1> SUFFICES ASSUME IInv, DataInv, [Next]_vars PROVE Owned'
  OBVIOUS
<1> USE RingAssumption DEF IInv, TypeOK, Bounds, DataInv, Owned, ClaimsCount, ClaimsApart, OwnedIsUnmarked, OwnedIsUnread, Owners, Unmarked, Owns, Marked, cursors, claims, refresh, readers, Goto, Threads, Cursor
<1>1. CASE UNCHANGED vars
  BY <1>1 DEF vars
<1>2. ASSUME NEW p \in Producers, NEW k \in 1..Size, Claim(p, k) PROVE Owned'
  BY <1>2 DEF Claim
<1>3. ASSUME NEW p \in Producers, Retry(p) PROVE Owned'
  BY <1>3 DEF Retry
<1>4. ASSUME NEW p \in Producers, CheckCached(p) PROVE Owned'
  BY <1>4 DEF CheckCached
<1>5. ASSUME NEW p \in Producers, CasReserve(p) PROVE Owned'
  <2> HIDE DEF IInv, TypeOK, Bounds, DataInv, Owned, ClaimsCount, ClaimsApart, OwnedIsUnmarked, OwnedIsUnread, Owns, Unmarked, Marked
  <2>0. IInv /\ Owned
    BY DEF DataInv

  <2>1. CASE reserve = cur[p]
    <3>1. /\ pc[p] = "cas" /\ pc'[p] = "write" /\ \A q \in Producers \ {p} : pc'[q] = pc[q]
          /\ UNCHANGED <<publish, available, n, cur, seq>>
      BY <1>5, <2>1 DEF CasReserve, IInv, TypeOK
    <3>2. \A s \in Cursor : Marked(s) => s < reserve
      BY <2>0, IndexInSlots DEF Never, IInv, Bounds, Marked
    <3>3. ClaimsCount'
      BY <2>0, <3>1 DEF ClaimsCount, Owned
    <3>4. \A q \in Producers \ {p} : pc[q] \in Owners => cur[q] + n[q] <= cur[p]
      BY <2>0, <2>1 DEF IInv, Bounds
    <3>5. ClaimsApart'
      BY <2>0, <3>1, <3>4 DEF ClaimsApart, Owned
    <3>6. \A q \in Producers, s \in Cursor : Owns(q, s)' => Owns(q, s) \/ s >= reserve
      BY <2>1, <3>1 DEF Owns, Unmarked
    <3>7. OwnedIsUnmarked'
      BY <2>0, <3>1, <3>2, <3>6 DEF OwnedIsUnmarked, Owned, IInv, TypeOK, Marked
    <3>8. \A q \in Producers : pc'[q] \in Owners => Unmarked(q)' = reserve \/ (pc[q] \in Owners /\ Unmarked(q)' = Unmarked(q))
      BY <2>1, <3>1 DEF Unmarked
    <3>9. publish <= reserve /\ \A q \in Producers : pc[q] \in {"scan", "pCas"} => seq[q] <= reserve
      BY <2>0 DEF IInv, Bounds
    <3>10. \A q \in Producers : pc'[q] \in {"scan", "pCas"} => pc[q] \in {"scan", "pCas"}
      BY <3>1
    <3>11. OwnedIsUnread'
      BY <2>0, <3>1, <3>8, <3>9, <3>10 DEF OwnedIsUnread, Owned
    <3>12. QED
      BY <3>3, <3>5, <3>7, <3>11 DEF Owned
  <2>2. CASE reserve # cur[p]
    <3>1. n[p] > 0
      BY <2>0, <1>5 DEF CasReserve, Owned, ClaimsCount
    <3>2. QED
      BY <1>5, <2>0, <2>2, <3>1, OwnedKept DEF CasReserve, IInv, TypeOK
  <2>3. QED
    BY <2>1, <2>2
<1>6. ASSUME NEW p \in Producers, Available(p) PROVE Owned'
  BY <1>6 DEF Available
<1>7. ASSUME NEW p \in Producers, NEW k \in 0..Size, Write(p, k) PROVE Owned'
  <2> HIDE DEF IInv, TypeOK, Bounds, DataInv, Owned, ClaimsCount, ClaimsApart, OwnedIsUnmarked, OwnedIsUnread, Owns, Unmarked, Marked
  <2>0. IInv /\ Owned
    BY DEF DataInv

  <2>1. CASE k = 0
    <3>1. pc'[p] = "idle" /\ UNCHANGED <<publish, available>>
          /\ \A q \in Producers \ {p} : pc'[q] = pc[q] /\ cur'[q] = cur[q] /\ n'[q] = n[q] /\ seq'[q] = seq[q]
      BY <1>7, <2>0, <2>1 DEF Write, Return, IInv, TypeOK
    <3>2. QED
      BY <2>0, <3>1, OwnedKept
  <2>2. CASE k > 0
    <3>1. /\ pc[p] = "write" /\ pc'[p] = "mark" /\ seq'[p] = cur[p] /\ n'[p] = k /\ k <= n[p]
          /\ \A q \in Producers \ {p} : pc'[q] = pc[q] /\ n'[q] = n[q] /\ seq'[q] = seq[q]
          /\ UNCHANGED <<publish, available, cur>>
      BY <1>7, <2>0, <2>2 DEF Write, IInv, TypeOK
    <3>2. \A q \in Producers : n'[q] \in Int /\ n[q] \in Int /\ cur[q] \in Int /\ n'[q] <= n[q]
      BY <2>0, <3>1 DEF IInv, TypeOK
    <3>3. \A q \in Producers : (pc'[q] \in Owners <=> pc[q] \in Owners) /\ (pc[q] \in Owners => Unmarked(q)' = Unmarked(q))
      BY <3>1 DEF Unmarked
    <3>4. ClaimsCount'
      BY <2>0, <3>1 DEF ClaimsCount, Owned
    <3>5. ClaimsApart'
      BY <2>0, <3>1, <3>2, <3>3 DEF ClaimsApart, Owned
    <3>6. \A q \in Producers, s \in Cursor : Owns(q, s)' => Owns(q, s)
      BY <3>1, <3>2, <3>3 DEF Owns
    <3>7. OwnedIsUnmarked'
      BY <2>0, <3>1, <3>6 DEF OwnedIsUnmarked, Owned, Marked
    <3>8. \A q \in Producers : pc'[q] \in {"scan", "pCas"} => pc[q] \in {"scan", "pCas"} /\ seq'[q] = seq[q]
      BY <3>1
    <3>9. OwnedIsUnread'
      BY <2>0, <3>1, <3>3, <3>8 DEF OwnedIsUnread, Owned
    <3>10. QED
      BY <3>4, <3>5, <3>7, <3>9 DEF Owned
  <2>3. QED
    BY <2>1, <2>2
<1>8. ASSUME NEW p \in Producers, Mark(p) PROVE Owned'
  <2> HIDE DEF IInv, TypeOK, Bounds, DataInv, Owned, ClaimsCount, ClaimsApart, OwnedIsUnmarked, OwnedIsUnread, Owns, Unmarked, Marked
  <2>0. IInv /\ Owned
    BY DEF DataInv

  <2>1. /\ pc[p] = "mark" /\ pc'[p] \in {"mark", "pLoad"} /\ seq'[p] = seq[p] + 1
        /\ \A q \in Producers \ {p} : pc'[q] = pc[q] /\ seq'[q] = seq[q]
        /\ available' = [available EXCEPT ![calculateIndex(seq[p])] = seq[p]]
        /\ UNCHANGED <<publish, n, cur>>
    BY <1>8, <2>0 DEF Mark, IInv, TypeOK
  <2>2. \A q \in Producers : n[q] \in Int /\ cur[q] \in Int /\ seq[q] \in Cursor
    BY <2>0 DEF IInv, TypeOK
  <2>3. cur[p] <= seq[p] /\ seq[p] < cur[p] + n[p]
    BY <2>0, <2>1 DEF IInv, Bounds
  <2>4. ClaimsCount'
    BY <2>0, <2>1 DEF ClaimsCount, Owned
  <2>5. \A q \in Producers : pc'[q] \in Owners => pc[q] \in Owners
    BY <2>1
  <2>6. ClaimsApart'
    BY <2>0, <2>1, <2>5 DEF ClaimsApart, Owned
  <2>7. \A q \in Producers \ {p} : pc[q] \in Owners => cur[p] + n[p] <= cur[q] \/ cur[q] + n[q] <= cur[p]
    BY <2>0, <2>1 DEF ClaimsApart, Owned
  <2>8. \A q \in Producers : pc[q] \in Owners => cur[q] <= Unmarked(q) /\ Unmarked(q) \in Cursor
    BY <2>0 DEF IInv, TypeOK, Bounds, Unmarked, Owners
  <2>9. \A q \in Producers : pc'[q] \in Owners => Unmarked(q) <= Unmarked(q)' /\ (q # p => Unmarked(q)' = Unmarked(q))
                                                  /\ Unmarked(q)' \in Int
    BY <2>1, <2>2 DEF Unmarked
  <2>10. \A q \in Producers, s \in Cursor : Owns(q, s)' => Owns(q, s) /\ s # seq[p]
    <3>1. ASSUME NEW s \in Cursor, Owns(p, s)' PROVE Owns(p, s) /\ s # seq[p]
      BY <2>1, <2>2, <3>1 DEF Owns, Unmarked
    <3>2. ASSUME NEW q \in Producers \ {p}, NEW s \in Cursor, Owns(q, s)' PROVE Owns(q, s) /\ s # seq[p]
      <4>1. Owns(q, s)
        BY <2>1, <2>5, <2>9, <3>2 DEF Owns
      <4>2. cur[q] <= s /\ s < cur[q] + n[q]
        BY <2>2, <2>8, <4>1 DEF Owns
      <4>3. QED
        BY <2>2, <2>3, <2>7, <4>1, <4>2 DEF Owns
    <3>3. QED
      BY <3>1, <3>2
  <2>11. \A s \in Cursor : Marked(s)' => Marked(s) \/ s = seq[p]
    BY <2>0, <2>1, <2>2, IndexInSlots DEF Marked, IInv, TypeOK
  <2>12. OwnedIsUnmarked'
    BY <2>0, <2>10, <2>11 DEF OwnedIsUnmarked, Owned
  <2>13. \A q \in Producers : pc'[q] \in {"scan", "pCas"} => pc[q] \in {"scan", "pCas"} /\ seq'[q] = seq[q]
    BY <2>1
  <2>14. publish \in Int /\ \A q \in Producers : pc[q] \in Owners => Unmarked(q) \in Int
    BY <2>0, <2>8 DEF IInv, TypeOK
  <2>15. OwnedIsUnread'
    BY <2>0, <2>1, <2>2, <2>5, <2>9, <2>13, <2>14 DEF OwnedIsUnread, Owned
  <2>16. QED
    BY <2>4, <2>6, <2>12, <2>15 DEF Owned
<1>9. ASSUME NEW p \in Producers, LoadPublish(p) PROVE Owned'
  BY <1>9 DEF LoadPublish
<1>10. ASSUME NEW p \in Producers, Scan(p) PROVE Owned'
  <2> HIDE DEF IInv, TypeOK, Bounds, DataInv, Owned, ClaimsCount, ClaimsApart, OwnedIsUnmarked, OwnedIsUnread, Owns, Unmarked, Marked
  <2>0. IInv /\ Owned
    BY DEF DataInv

  <2>1. CASE ~Scanned(p) /\ seq' = [seq EXCEPT ![p] = @ + 1] /\ UNCHANGED <<pc, n, cur, pub>>
    <3>1. Marked(seq[p]) /\ pc[p] = "scan" /\ UNCHANGED <<publish, available>>
      BY <1>10, <2>1 DEF Scan, Scanned, Marked
    <3>2. seq[p] \in Cursor /\ \A q \in Producers : seq'[q] \in Int
      BY <2>0, <2>1 DEF IInv, TypeOK
    <3>3. \A q \in Producers : pc[q] \in Owners =>
             Owns(q, Unmarked(q)) /\ Unmarked(q) \in Cursor /\ Unmarked(q)' = Unmarked(q)
      <4>1. ASSUME NEW q \in Producers, pc[q] = "write"
            PROVE  Owns(q, Unmarked(q)) /\ Unmarked(q) \in Cursor /\ Unmarked(q)' = Unmarked(q)
        BY <2>0, <2>1, <4>1 DEF IInv, TypeOK, Owned, ClaimsCount, Owns, Unmarked
      <4>2. ASSUME NEW q \in Producers, pc[q] = "mark"
            PROVE  Owns(q, Unmarked(q)) /\ Unmarked(q) \in Cursor /\ Unmarked(q)' = Unmarked(q)
        BY <2>0, <2>1, <3>1, <4>2 DEF IInv, TypeOK, Bounds, Owns, Unmarked
      <4>3. QED
        BY <4>1, <4>2
    <3>4. \A q \in Producers : pc[q] \in Owners => seq[p] + 1 <= Unmarked(q)
      BY <2>0, <3>1, <3>2, <3>3 DEF Owned, OwnedIsUnmarked, OwnedIsUnread
    <3>5. ClaimsCount' /\ ClaimsApart'
      BY <2>0, <2>1 DEF Owned, ClaimsCount, ClaimsApart
    <3>6. \A q \in Producers, s \in Cursor : Owns(q, s)' => Owns(q, s)
      BY <2>1, <3>3 DEF Owns
    <3>7. OwnedIsUnmarked'
      BY <2>0, <3>1, <3>6 DEF Owned, OwnedIsUnmarked, Marked
    <3>8. \A q \in Producers : seq'[q] = IF q = p THEN seq[p] + 1 ELSE seq[q]
      BY <2>0, <2>1 DEF IInv, TypeOK
    <3>9. OwnedIsUnread'
      BY <2>0, <2>1, <3>1, <3>3, <3>4, <3>8 DEF Owned, OwnedIsUnread
    <3>10. QED
      BY <3>5, <3>7, <3>9 DEF Owned
  <2>2. CASE Scanned(p) /\ seq[p] # pub[p]
    <3>1. pc[p] = "scan" /\ pc'[p] = "pCas" /\ UNCHANGED <<publish, available, n, cur, seq>>
          /\ \A q \in Producers \ {p} : pc'[q] = pc[q]
      BY <1>10, <2>0, <2>2 DEF Scan, IInv, TypeOK
    <3>2. \A q \in Producers : pc'[q] \in Owners => pc[q] \in Owners /\ Unmarked(q)' = Unmarked(q)
      BY <3>1 DEF Unmarked
    <3>3. ClaimsCount' /\ ClaimsApart'
      BY <2>0, <3>1 DEF Owned, ClaimsCount, ClaimsApart
    <3>4. \A q \in Producers, s \in Cursor : Owns(q, s)' => Owns(q, s)
      BY <3>1, <3>2 DEF Owns
    <3>5. OwnedIsUnmarked'
      BY <2>0, <3>1, <3>4 DEF Owned, OwnedIsUnmarked, Marked
    <3>6. \A q \in Producers : pc'[q] \in {"scan", "pCas"} => pc[q] \in {"scan", "pCas"}
      BY <3>1
    <3>7. OwnedIsUnread'
      BY <2>0, <3>1, <3>2, <3>6 DEF Owned, OwnedIsUnread
    <3>8. QED
      BY <3>3, <3>5, <3>7 DEF Owned
  <2>3. CASE Scanned(p) /\ seq[p] = pub[p]
    <3>1. pc'[p] = "idle" /\ UNCHANGED <<publish, available>>
          /\ \A q \in Producers \ {p} : pc'[q] = pc[q] /\ cur'[q] = cur[q] /\ n'[q] = n[q] /\ seq'[q] = seq[q]
      BY <1>10, <2>0, <2>3 DEF Scan, Return, IInv, TypeOK
    <3>2. QED
      BY <2>0, <3>1, OwnedKept
  <2>4. QED
    BY <1>10, <2>1, <2>2, <2>3 DEF Scan
<1>11. ASSUME NEW p \in Producers, CasPublish(p) PROVE Owned'
  <2> HIDE DEF IInv, TypeOK, Bounds, DataInv, Owned, ClaimsCount, ClaimsApart, OwnedIsUnmarked, OwnedIsUnread, Owns, Unmarked, Marked
  <2>0. IInv /\ Owned
    BY DEF DataInv

  <2>1. CASE publish = pub[p]
    <3>1. /\ pc[p] = "pCas" /\ publish' = seq[p] /\ pc'[p] = "idle" /\ UNCHANGED available
          /\ \A q \in Producers \ {p} : pc'[q] = pc[q] /\ cur'[q] = cur[q] /\ n'[q] = n[q] /\ seq'[q] = seq[q]
      BY <1>11, <2>0, <2>1 DEF CasPublish, Return, IInv, TypeOK
    <3>2. \A q \in Producers : pc'[q] \in Owners \union {"scan", "pCas"} => q # p
      BY <3>1
    <3>3. ClaimsCount' /\ ClaimsApart'
      BY <2>0, <3>1, <3>2 DEF Owned, ClaimsCount, ClaimsApart
    <3>4. \A q \in Producers : pc'[q] \in Owners => pc[q] \in Owners /\ Unmarked(q)' = Unmarked(q) /\ q # p
      BY <3>1, <3>2 DEF Unmarked
    <3>5. \A q \in Producers, s \in Cursor : Owns(q, s)' => Owns(q, s)
      BY <3>1, <3>4 DEF Owns
    <3>6. OwnedIsUnmarked'
      BY <2>0, <3>1, <3>5 DEF Owned, OwnedIsUnmarked, Marked
    <3>7. OwnedIsUnread'
      BY <2>0, <3>1, <3>2, <3>4 DEF Owned, OwnedIsUnread
    <3>8. QED
      BY <3>3, <3>6, <3>7 DEF Owned
  <2>2. CASE publish # pub[p]
    <3>1. pc'[p] = "pLoad" /\ UNCHANGED <<publish, available>>
          /\ \A q \in Producers \ {p} : pc'[q] = pc[q] /\ cur'[q] = cur[q] /\ n'[q] = n[q] /\ seq'[q] = seq[q]
      BY <1>11, <2>0, <2>2 DEF CasPublish, IInv, TypeOK
    <3>2. QED
      BY <2>0, <3>1, OwnedKept
  <2>3. QED
    BY <2>1, <2>2
<1>12. ASSUME NEW t \in Threads, RefreshPublish(t) PROVE Owned'
  BY <1>12 DEF RefreshPublish
<1>13. ASSUME NEW t \in Threads, RefreshList(t) PROVE Owned'
  BY <1>13 DEF RefreshList
<1>14. ASSUME NEW t \in Threads, RefreshReserve(t) PROVE Owned'
  BY <1>14 DEF RefreshReserve
<1>15. ASSUME NEW t \in Threads, NEW r \in Readers, RefreshMin(t, r) PROVE Owned'
  BY <1>15 DEF RefreshMin
<1>16. ASSUME NEW t \in Threads, RefreshStore(t) PROVE Owned'
  <2> HIDE DEF IInv, TypeOK, Bounds, DataInv, Owned, ClaimsCount, ClaimsApart, OwnedIsUnmarked, OwnedIsUnread, Owns, Unmarked, Marked
  <2>0. IInv /\ Owned
    BY DEF DataInv

  <2>1. /\ pc[t] = "rStore" /\ UNCHANGED <<publish, available>>
        /\ \A q \in Producers \ {t} : pc'[q] = pc[q] /\ cur'[q] = cur[q] /\ n'[q] = n[q] /\ seq'[q] = seq[q]
    BY <1>16, <2>0 DEF RefreshStore, Return, IInv, TypeOK
  <2>2. t \in Producers => pc'[t] = "idle" \/ (pc'[t] \in {"cas", "load"} /\ n'[t] > 0)
    BY <1>16, <2>0, RingAssumption DEF RefreshStore, Return, AfterRefresh, IInv, TypeOK
  <2>3. QED
    BY <2>0, <2>1, <2>2, OwnedKept
<1>17. ASSUME NEW r \in Readers, AttachLoad(r) PROVE Owned'
  BY <1>17 DEF AttachLoad
<1>18. ASSUME NEW r \in Readers, AttachCursor(r) PROVE Owned'
  BY <1>18 DEF AttachCursor
<1>19. ASSUME NEW r \in Readers, AttachCas(r) PROVE Owned'
  BY ZenonT(40), <1>19 DEF AttachCas
<1>20. ASSUME NEW r \in Readers, AttachReread(r) PROVE Owned'
  BY <1>20 DEF AttachReread
<1>21. ASSUME NEW r \in Readers, AttachSet(r) PROVE Owned'
  BY <1>21 DEF AttachSet
<1>22. ASSUME NEW r \in Readers, Get(r) PROVE Owned'
  BY <1>22 DEF Get
<1>23. ASSUME NEW r \in Readers, NEW k \in Cursor, Consume(r, k) PROVE Owned'
  BY <1>23 DEF Consume
<1>24. ASSUME NEW r \in Readers, DetachLoad(r) PROVE Owned'
  BY <1>24 DEF DetachLoad
<1>25. ASSUME NEW r \in Readers, DetachCas(r) PROVE Owned'
  BY ZenonT(40), <1>25 DEF DetachCas
<1>26. QED
  BY SMTT(30), <1>1, <1>2, <1>3, <1>4, <1>5, <1>6, <1>7, <1>8, <1>9, <1>10, <1>11, <1>12, <1>13, <1>14, <1>15, <1>16, <1>17, <1>18, <1>19, <1>20, <1>21, <1>22, <1>23, <1>24, <1>25 DEF Next, ProducerStep, RefreshStep, ReaderStep

\* Every step keeps a scan within one round.
LEMMA ScansStep == IInv /\ DataInv /\ [Next]_vars => Scans'
<1> SUFFICES ASSUME IInv, DataInv, [Next]_vars PROVE Scans'
  OBVIOUS
<1> USE RingAssumption DEF IInv, TypeOK, Bounds, DataInv, Scans, cursors, claims, refresh, readers, Goto, Threads, Cursor
<1>1. CASE UNCHANGED vars
  BY <1>1 DEF vars
<1>2. ASSUME NEW p \in Producers, NEW k \in 1..Size, Claim(p, k) PROVE Scans'
  BY <1>2 DEF Claim
<1>3. ASSUME NEW p \in Producers, Retry(p) PROVE Scans'
  BY <1>3 DEF Retry
<1>4. ASSUME NEW p \in Producers, CheckCached(p) PROVE Scans'
  BY <1>4 DEF CheckCached
<1>5. ASSUME NEW p \in Producers, CasReserve(p) PROVE Scans'
  BY <1>5 DEF CasReserve
<1>6. ASSUME NEW p \in Producers, Available(p) PROVE Scans'
  BY <1>6 DEF Available
<1>7. ASSUME NEW p \in Producers, NEW k \in 0..Size, Write(p, k) PROVE Scans'
  BY <1>7 DEF Write, Return
<1>8. ASSUME NEW p \in Producers, Mark(p) PROVE Scans'
  BY <1>8 DEF Mark
<1>9. ASSUME NEW p \in Producers, LoadPublish(p) PROVE Scans'
  BY <1>9 DEF LoadPublish
<1>10. ASSUME NEW p \in Producers, Scan(p) PROVE Scans'
  <2>1. CASE ~Scanned(p) /\ seq' = [seq EXCEPT ![p] = @ + 1] /\ UNCHANGED <<pc, n, cur, pub>>
    BY <1>10, <2>1 DEF Scan, Scanned
  <2>2. CASE Scanned(p) /\ seq[p] # pub[p]
    <3>1. pc[p] = "scan" /\ pc' = [pc EXCEPT ![p] = "pCas"] /\ UNCHANGED <<seq, pub>>
      BY <1>10, <2>2 DEF Scan
    <3>2. pub[p] <= seq[p] /\ pub[p] \in Int /\ seq[p] \in Int
      BY <3>1
    <3>3. pc'[p] = "pCas" /\ \A q \in Producers : q # p => pc'[q] = pc[q]
      BY <3>1
    <3>4. pub[p] < seq[p] /\ seq[p] - pub[p] <= Size
      <4>1. seq[p] - pub[p] <= Size
        BY <3>1
      <4> HIDE DEF IInv, TypeOK, Bounds, DataInv, Scans
      <4>2. pub[p] < seq[p]
        BY <2>2, <3>2
      <4> QED
        BY <4>1, <4>2
    <3>5. \A q \in Producers : pc'[q] \in {"scan", "pCas"} => seq'[q] - pub'[q] <= Size
      BY <3>1, <3>3, <3>4
    <3>6. \A q \in Producers : pc'[q] = "pCas" => pub'[q] < seq'[q]
      BY <3>1, <3>3, <3>4
    <3>7. QED
      BY <3>5, <3>6
  <2>3. CASE Scanned(p) /\ seq[p] = pub[p]
    BY SMTT(30), <1>10, <2>3 DEF Scan, Return
  <2>4. QED
    BY <1>10, <2>1, <2>2, <2>3 DEF Scan
<1>11. ASSUME NEW p \in Producers, CasPublish(p) PROVE Scans'
  BY <1>11 DEF CasPublish, Return
<1>12. ASSUME NEW t \in Threads, RefreshPublish(t) PROVE Scans'
  BY <1>12 DEF RefreshPublish
<1>13. ASSUME NEW t \in Threads, RefreshList(t) PROVE Scans'
  BY <1>13 DEF RefreshList
<1>14. ASSUME NEW t \in Threads, RefreshReserve(t) PROVE Scans'
  BY <1>14 DEF RefreshReserve
<1>15. ASSUME NEW t \in Threads, NEW r \in Readers, RefreshMin(t, r) PROVE Scans'
  BY <1>15 DEF RefreshMin
<1>16. ASSUME NEW t \in Threads, RefreshStore(t) PROVE Scans'
  BY <1>16 DEF RefreshStore, Return, AfterRefresh
<1>17. ASSUME NEW r \in Readers, AttachLoad(r) PROVE Scans'
  BY <1>17 DEF AttachLoad
<1>18. ASSUME NEW r \in Readers, AttachCursor(r) PROVE Scans'
  BY <1>18 DEF AttachCursor
<1>19. ASSUME NEW r \in Readers, AttachCas(r) PROVE Scans'
  BY <1>19 DEF AttachCas
<1>20. ASSUME NEW r \in Readers, AttachReread(r) PROVE Scans'
  BY <1>20 DEF AttachReread
<1>21. ASSUME NEW r \in Readers, AttachSet(r) PROVE Scans'
  BY <1>21 DEF AttachSet
<1>22. ASSUME NEW r \in Readers, Get(r) PROVE Scans'
  BY <1>22 DEF Get
<1>23. ASSUME NEW r \in Readers, NEW k \in Cursor, Consume(r, k) PROVE Scans'
  BY <1>23 DEF Consume
<1>24. ASSUME NEW r \in Readers, DetachLoad(r) PROVE Scans'
  BY <1>24 DEF DetachLoad
<1>25. ASSUME NEW r \in Readers, DetachCas(r) PROVE Scans'
  BY <1>25 DEF DetachCas
<1>26. QED
  BY <1>1, <1>2, <1>3, <1>4, <1>5, <1>6, <1>7, <1>8, <1>9, <1>10, <1>11, <1>12, <1>13, <1>14, <1>15, <1>16, <1>17, <1>18, <1>19, <1>20, <1>21, <1>22, <1>23, <1>24, <1>25 DEF Next, ProducerStep, RefreshStep, ReaderStep

\* What a resident reader has not consumed, claimed samples included, has slots of its own.
LEMMA ResidentWindow ==
  ASSUME IInv, NEW r \in Residents, NEW a \in Cursor, NEW b \in Cursor,
         readIdx[r] <= a, a < reserve, readIdx[r] <= b, b < reserve, calculateIndex(a) = calculateIndex(b)
  PROVE  a = b
<1>1. reserve <= readIdx[r] + Size /\ readIdx[r] \in Nat /\ reserve \in Nat /\ a \in Nat /\ b \in Nat
  BY RingAssumption DEF IInv, Gated, TypeOK, Cursor
<1>2. (a <= b /\ b < a + Size) \/ (b <= a /\ a < b + Size)
  BY <1>1, RingAssumption
<1>3. QED
  BY <1>1, <1>2, SamplesApart

\* Every step leaves alone what the resident readers have still to read.
LEMMA StoredStep == IInv /\ DataInv /\ [Next]_vars => Stored'
<1> SUFFICES ASSUME IInv, DataInv, [Next]_vars PROVE Stored'
  OBVIOUS
<1> USE RingAssumption DEF IInv, TypeOK, Bounds, DataInv, Stored, Owns, Owners, Unmarked, cursors, claims, refresh, readers, Goto, Threads, Cursor
<1>1. CASE UNCHANGED vars
  BY <1>1 DEF vars
<1>2. ASSUME NEW p \in Producers, NEW k \in 1..Size, Claim(p, k) PROVE Stored'
  BY <1>2 DEF Claim
<1>3. ASSUME NEW p \in Producers, Retry(p) PROVE Stored'
  BY <1>3 DEF Retry
<1>4. ASSUME NEW p \in Producers, CheckCached(p) PROVE Stored'
  BY <1>4 DEF CheckCached
<1>5. ASSUME NEW p \in Producers, CasReserve(p) PROVE Stored'
  BY <1>5 DEF CasReserve
<1>6. ASSUME NEW p \in Producers, Available(p) PROVE Stored'
  BY <1>6 DEF Available
<1>7. ASSUME NEW p \in Producers, NEW k \in 0..Size, Write(p, k) PROVE Stored'
  <2>1. /\ pc[p] = "write" /\ UNCHANGED <<reserve, readIdx, span>>
        /\ data' = [i \in Slots |-> IF i \in SlotsOf(p) THEN SampleAt(p, i) ELSE data[i]]
        /\ \A t \in Threads \ {p} : pc'[t] = pc[t]
        /\ \A q \in Producers \ {p} : cur'[q] = cur[q] /\ n'[q] = n[q]
    BY <1>7 DEF Write, Return
  <2>2. ASSUME NEW r \in Residents, NEW s \in Cursor, readIdx[r] <= s, s < reserve
        PROVE  data'[calculateIndex(s)] = s \/ \E q \in Producers : pc'[q] = "write" /\ Owns(q, s)'
    <3>1. calculateIndex(s) \in Slots
      BY IndexInSlots
    <3>2. \A c \in Cursor : readIdx[r] <= c /\ c < reserve /\ calculateIndex(c) = calculateIndex(s) => c = s
      BY <2>2, ResidentWindow
    <3>3. \A c \in cur[p]..(cur[p] + n[p] - 1) : c \in Cursor /\ readIdx[r] <= c /\ c < reserve
      BY <2>1 DEF Owned, OwnedIsUnread, Owners, Unmarked
    <3>4. CASE calculateIndex(s) \in SlotsOf(p)
      <4>1. SampleAt(p, calculateIndex(s)) \in cur[p]..(cur[p] + n[p] - 1)
            /\ calculateIndex(SampleAt(p, calculateIndex(s))) = calculateIndex(s)
        BY <3>4 DEF SlotsOf, SampleAt
      <4>2. QED
        BY <2>1, <3>1, <3>2, <3>3, <3>4, <4>1
    <3>5. CASE calculateIndex(s) \notin SlotsOf(p)
      <4>1. data'[calculateIndex(s)] = data[calculateIndex(s)]
        BY <2>1, <3>1, <3>5
      <4>2. ~Owns(p, s)
        BY <3>5 DEF SlotsOf
      <4>3. QED
        BY <2>1, <2>2, <4>1, <4>2
    <3>6. QED
      BY <3>4, <3>5
  <2>3. \A r \in Readers : pc'[r] # "span" => span'[r] = 0
    BY <2>1
  <2>4. QED
    BY <2>1, <2>2, <2>3
<1>8. ASSUME NEW p \in Producers, Mark(p) PROVE Stored'
  BY <1>8 DEF Mark
<1>9. ASSUME NEW p \in Producers, LoadPublish(p) PROVE Stored'
  BY <1>9 DEF LoadPublish
<1>10. ASSUME NEW p \in Producers, Scan(p) PROVE Stored'
  <2>1. /\ pc[p] = "scan" /\ UNCHANGED <<reserve, data, readIdx, span>>
        /\ pc'[p] # "write" /\ \A t \in Threads \ {p} : pc'[t] = pc[t]
        /\ \A q \in Producers \ {p} : cur'[q] = cur[q] /\ n'[q] = n[q] /\ seq'[q] = seq[q]
    BY <1>10 DEF Scan, Return
  <2>2. QED
    BY SMTT(30), <2>1
<1>11. ASSUME NEW p \in Producers, CasPublish(p) PROVE Stored'
  BY <1>11 DEF CasPublish, Return
<1>12. ASSUME NEW t \in Threads, RefreshPublish(t) PROVE Stored'
  BY <1>12 DEF RefreshPublish
<1>13. ASSUME NEW t \in Threads, RefreshList(t) PROVE Stored'
  BY <1>13 DEF RefreshList
<1>14. ASSUME NEW t \in Threads, RefreshReserve(t) PROVE Stored'
  BY <1>14 DEF RefreshReserve
<1>15. ASSUME NEW t \in Threads, NEW r \in Readers, RefreshMin(t, r) PROVE Stored'
  BY <1>15 DEF RefreshMin
<1>16. ASSUME NEW t \in Threads, RefreshStore(t) PROVE Stored'
  BY <1>16 DEF RefreshStore, Return, AfterRefresh
<1>17. ASSUME NEW r \in Readers, AttachLoad(r) PROVE Stored'
  BY <1>17 DEF AttachLoad
<1>18. ASSUME NEW r \in Readers, AttachCursor(r) PROVE Stored'
  <2>1. r \notin Residents
    BY <1>18 DEF AttachCursor, Gated
  <2>2. QED
    BY <1>18, <2>1 DEF AttachCursor
<1>19. ASSUME NEW r \in Readers, AttachCas(r) PROVE Stored'
  BY <1>19 DEF AttachCas
<1>20. ASSUME NEW r \in Readers, AttachReread(r) PROVE Stored'
  BY <1>20 DEF AttachReread
<1>21. ASSUME NEW r \in Readers, AttachSet(r) PROVE Stored'
  <2>1. r \notin Residents
    BY <1>21 DEF AttachSet, Gated
  <2>2. QED
    BY <1>21, <2>1 DEF AttachSet
<1>22. ASSUME NEW r \in Readers, Get(r) PROVE Stored'
  BY <1>22 DEF Get
<1>23. ASSUME NEW r \in Readers, NEW k \in Cursor, Consume(r, k) PROVE Stored'
  <2>1. /\ readIdx' = [readIdx EXCEPT ![r] = @ + k] /\ span' = [span EXCEPT ![r] = 0]
        /\ pc' = [pc EXCEPT ![r] = "in"] /\ UNCHANGED <<reserve, data, cur, n, seq>>
    BY <1>23 DEF Consume
  <2>2. \A x \in Readers : readIdx[x] <= readIdx'[x]
    BY <2>1
  <2>3. \A q \in Producers : pc'[q] = pc[q]
    BY <2>1
  <2>4. \A q \in Producers, s \in Cursor : Owns(q, s)' <=> Owns(q, s)
    BY <2>1, <2>3
  <2>5. \A x \in Readers : pc'[x] # "span" => span'[x] = 0
    BY <2>1
  <2>6. QED
    BY <2>1, <2>2, <2>3, <2>4, <2>5
<1>24. ASSUME NEW r \in Readers, DetachLoad(r) PROVE Stored'
  BY <1>24 DEF DetachLoad
<1>25. ASSUME NEW r \in Readers, DetachCas(r) PROVE Stored'
  BY <1>25 DEF DetachCas
<1>26. QED
  BY <1>1, <1>2, <1>3, <1>4, <1>5, <1>6, <1>7, <1>8, <1>9, <1>10, <1>11, <1>12, <1>13, <1>14, <1>15, <1>16, <1>17, <1>18, <1>19, <1>20, <1>21, <1>22, <1>23, <1>24, <1>25 DEF Next, ProducerStep, RefreshStep, ReaderStep

\* Where a reader is resident, the claimed samples that are not readable have slots of their own.
LEMMA UnreadWindow ==
  ASSUME IInv, Residents # {}
  PROVE  /\ reserve <= publish + Size
         /\ \A a, b \in Cursor : publish <= a /\ a < reserve /\ publish <= b /\ b < reserve
                                 /\ calculateIndex(a) = calculateIndex(b) => a = b
<1> PICK r \in Residents : TRUE
  OBVIOUS
<1>1. r \in Readers /\ reserve <= readIdx[r] + Size /\ readIdx[r] <= publish
  BY RingAssumption DEF IInv, Gated, Bounds
<1>2. readIdx[r] \in Nat /\ publish \in Nat /\ reserve \in Nat /\ \A a \in Cursor : a \in Nat
  BY <1>1 DEF IInv, TypeOK, Cursor
<1>3. QED
  BY <1>1, <1>2, ResidentWindow, RingAssumption

\* A step that concerns no owner and no publish() in progress.
LEMMA TakenKept ==
  ASSUME Taken, IInv, UNCHANGED <<publish, reserve, available>>,
         \A q \in Producers : \/ pc'[q] = pc[q] /\ cur'[q] = cur[q] /\ n'[q] = n[q] /\ seq'[q] = seq[q] /\ pub'[q] = pub[q]
                              \/ {pc[q], pc'[q]} \intersect {"write", "mark", "pLoad", "scan", "pCas"} = {}
  PROVE  Taken'
<1>1. publish \in Cursor /\ \A q \in Producers : seq[q] \in Cursor
  BY DEF IInv, TypeOK
<1>2. \A s \in Cursor : Marked(s)' <=> Marked(s)
  BY DEF Marked
<1>3. \A q \in Producers, s \in Cursor : Owns(q, s) => Owns(q, s)'
  BY DEF Owns, Unmarked, Owners
<1>4. \A q \in Producers : WillPublish(q) => WillPublish(q)'
  BY DEF WillPublish, Marked
<1>5. \A q \in Producers : pc'[q] \in Publishing => pc'[q] = pc[q] /\ seq'[q] = seq[q] /\ pub'[q] = pub[q]
  BY DEF Publishing
<1>6. ClaimsAreTaken'
  BY <1>2, <1>3 DEF ClaimsAreTaken, Taken
<1>7. MarkedIsFound'
  BY <1>1, <1>2, <1>4 DEF MarkedIsFound, Taken
<1>8. ScanSawMark'
  BY <1>1, <1>2, <1>5 DEF ScanSawMark, Taken
<1>9. NextIsFound'
  BY <1>1, <1>2, <1>4, <1>5 DEF NextIsFound, Publishing, Taken
<1>10. QED
  BY <1>6, <1>7, <1>8, <1>9 DEF Taken

\* Every step leaves somebody to publish what is marked.
LEMMA TakenStep ==
  ASSUME Residents # {}, ~PartialPublish
  PROVE  IInv /\ DataInv /\ Taken /\ [Next]_vars => Taken'
<1> SUFFICES ASSUME IInv, DataInv, Taken, [Next]_vars PROVE Taken'
  OBVIOUS
<1> USE RingAssumption DEF IInv, TypeOK, Bounds, DataInv, Taken, ClaimsAreTaken, MarkedIsFound, ScanSawMark, NextIsFound, Publishing, Owns, Owners, Unmarked, Marked, WillPublish, cursors, claims, refresh, readers, Goto, Threads, Cursor
<1>1. CASE UNCHANGED vars
  BY <1>1 DEF vars
<1>2. ASSUME NEW p \in Producers, NEW k \in 1..Size, Claim(p, k) PROVE Taken'
  BY <1>2 DEF Claim
<1>3. ASSUME NEW p \in Producers, Retry(p) PROVE Taken'
  BY <1>3 DEF Retry
<1>4. ASSUME NEW p \in Producers, CheckCached(p) PROVE Taken'
  BY SMTT(30), <1>4 DEF CheckCached
<1>5. ASSUME NEW p \in Producers, CasReserve(p) PROVE Taken'
  <2> HIDE DEF IInv, TypeOK, Bounds, DataInv, Taken, ClaimsAreTaken, MarkedIsFound, ScanSawMark, NextIsFound, Owns, Unmarked, Marked, WillPublish

  <2>1. CASE reserve = cur[p]
    <3>1. /\ pc[p] = "cas" /\ pc'[p] = "write" /\ \A q \in Producers \ {p} : pc'[q] = pc[q]
          /\ reserve' = cur[p] + n[p] /\ UNCHANGED <<publish, available, n, cur, seq, pub>>
      BY <1>5, <2>1 DEF CasReserve, IInv, TypeOK
    <3>2. \A s \in Cursor : Marked(s) => s < reserve
      BY IndexInSlots DEF Never, IInv, Bounds, Marked
    <3>3. \A q \in Producers, s \in Cursor : Owns(q, s) => Owns(q, s)'
      BY <3>1 DEF Owns, Unmarked
    <3>4. \A s \in Cursor : Marked(s)' <=> Marked(s)
      BY <3>1 DEF Marked
    <3>5. \A q \in Producers : WillPublish(q) => WillPublish(q)'
      BY <3>1 DEF WillPublish, Marked
    <3>6. \A s \in Cursor : reserve <= s /\ s < reserve' => Owns(p, s)'
      BY <2>1, <3>1 DEF Owns, Unmarked
    <3>7. reserve \in Int /\ publish \in Cursor /\ publish <= reserve /\ \A q \in Producers : seq[q] \in Cursor
      BY DEF IInv, TypeOK, Bounds
    <3>8. ClaimsAreTaken'
      BY <3>1, <3>3, <3>4, <3>6, <3>7 DEF ClaimsAreTaken, Taken
    <3>9. MarkedIsFound'
      BY <3>1, <3>2, <3>4, <3>5, <3>7 DEF MarkedIsFound, Taken
    <3>10. ScanSawMark'
      BY <3>1, <3>4, <3>7 DEF ScanSawMark, Taken
    <3>11. NextIsFound'
      BY <3>1, <3>2, <3>4, <3>5, <3>7 DEF NextIsFound, Taken
    <3>12. QED
      BY <3>8, <3>9, <3>10, <3>11 DEF Taken
  <2>2. CASE reserve # cur[p]
    BY <1>5, <2>2, TakenKept DEF CasReserve, IInv, TypeOK
  <2>3. QED
    BY <2>1, <2>2
<1>6. ASSUME NEW p \in Producers, Available(p) PROVE Taken'
  BY SMTT(30), <1>6 DEF Available
<1>7. ASSUME NEW p \in Producers, NEW k \in 0..Size, Write(p, k) PROVE Taken'
  <2> HIDE DEF IInv, TypeOK, Bounds, DataInv, Taken, ClaimsAreTaken, MarkedIsFound, ScanSawMark, NextIsFound, Owns, Unmarked, Marked, WillPublish

  <2>1. /\ pc[p] = "write" /\ pc'[p] = "mark" /\ n' = n /\ seq'[p] = cur[p] /\ UNCHANGED <<publish, reserve, available, cur, pub>>
        /\ \A q \in Producers \ {p} : pc'[q] = pc[q] /\ seq'[q] = seq[q]
    <3>1. k = n[p] /\ n[p] > 0 /\ n[p] \in Int
      BY <1>7 DEF Write, IInv, TypeOK, DataInv, Owned, ClaimsCount
    <3>2. QED
      BY <1>7, <3>1 DEF Write, IInv, TypeOK
  <2>2. \A q \in Producers, s \in Cursor : Owns(q, s)' <=> Owns(q, s)
    BY <2>1 DEF Owns, Unmarked, Owners
  <2>3. \A s \in Cursor : Marked(s)' <=> Marked(s)
    BY <2>1 DEF Marked
  <2>4. \A q \in Producers : WillPublish(q) => WillPublish(q)'
    BY <2>1 DEF WillPublish, Marked
  <2>5. publish \in Cursor /\ \A q \in Producers : seq[q] \in Cursor
    BY DEF IInv, TypeOK
  <2>6. ClaimsAreTaken'
    BY <2>1, <2>2, <2>3 DEF ClaimsAreTaken, Taken
  <2>7. MarkedIsFound'
    BY <2>1, <2>3, <2>4, <2>5 DEF MarkedIsFound, Taken
  <2>8. ScanSawMark'
    BY <2>1, <2>3, <2>5 DEF ScanSawMark, Taken
  <2>9. NextIsFound'
    BY <2>1, <2>3, <2>4, <2>5 DEF NextIsFound, Taken
  <2>10. QED
    BY <2>6, <2>7, <2>8, <2>9 DEF Taken
<1>8. ASSUME NEW p \in Producers, Mark(p) PROVE Taken'
  <2> HIDE DEF IInv, TypeOK, Bounds, DataInv, Taken, ClaimsAreTaken, MarkedIsFound, ScanSawMark, NextIsFound, Owns, Unmarked, Marked, WillPublish

  <2>1. /\ pc[p] = "mark" /\ pc'[p] \in {"mark", "pLoad"} /\ seq'[p] = seq[p] + 1
        /\ (seq[p] + 1 < cur[p] + n[p] => pc'[p] = "mark")
        /\ \A q \in Producers \ {p} : pc'[q] = pc[q] /\ seq'[q] = seq[q]
        /\ available' = [available EXCEPT ![calculateIndex(seq[p])] = seq[p]]
        /\ UNCHANGED <<publish, reserve, n, cur, pub>>
    BY <1>8 DEF Mark, IInv, TypeOK
  <2>2. /\ \A q \in Producers : n[q] \in Int /\ cur[q] \in Int /\ seq[q] \in Cursor
        /\ publish \in Cursor /\ reserve \in Cursor
    BY DEF IInv, TypeOK
  <2>3. publish <= seq[p] /\ seq[p] < cur[p] + n[p] /\ cur[p] + n[p] <= reserve
    BY <2>1 DEF IInv, Bounds, DataInv, Owned, OwnedIsUnread, Owners, Unmarked
  <2>4. \A s \in Cursor : s = seq[p] => Marked(s)'
    BY <2>1, <2>2, IndexInSlots DEF Marked, IInv, TypeOK
  <2>5. \A s \in Cursor : publish <= s /\ s < reserve /\ Marked(s) => Marked(s)'
    <3>1. ASSUME NEW s \in Cursor, publish <= s, s < reserve, Marked(s) PROVE Marked(s)'
      <4>1. CASE calculateIndex(s) = calculateIndex(seq[p])
        <5>1. s = seq[p]
          BY <2>2, <2>3, <3>1, <4>1, UnreadWindow
        <5>2. QED
          BY <2>4, <5>1
      <4>2. CASE calculateIndex(s) # calculateIndex(seq[p])
        BY <2>1, <3>1, <4>2, IndexInSlots DEF Marked, IInv, TypeOK
      <4>3. QED
        BY <4>1, <4>2
    <3>2. QED
      BY <3>1
  <2>6. \A q \in Producers, s \in Cursor : Owns(q, s) => Owns(q, s)' \/ s = seq[p]
    <3>1. \A s \in Cursor : Owns(p, s) => Owns(p, s)' \/ s = seq[p]
      BY <2>1, <2>2 DEF Owns, Unmarked
    <3>2. \A q \in Producers \ {p}, s \in Cursor : Owns(q, s) => Owns(q, s)'
      BY <2>1 DEF Owns, Unmarked
    <3>3. QED
      BY <3>1, <3>2
  <2>7. ClaimsAreTaken'
    BY <2>1, <2>4, <2>5, <2>6 DEF ClaimsAreTaken, Taken
  <2>8. WillPublish(p)'
    BY <2>1 DEF WillPublish
  <2>9. MarkedIsFound'
    BY <2>8 DEF MarkedIsFound
  <2>10. \A q \in Producers : pc'[q] \in Publishing => q # p /\ pc[q] \in Publishing /\ seq'[q] = seq[q] /\ seq[q] <= reserve
    BY <2>1 DEF IInv, Bounds
  <2>11. ScanSawMark'
    BY <2>1, <2>2, <2>5, <2>10 DEF ScanSawMark, Taken
  <2>12. NextIsFound'
    BY <2>8, <2>10 DEF NextIsFound
  <2>13. QED
    BY <2>7, <2>9, <2>11, <2>12 DEF Taken
<1>9. ASSUME NEW p \in Producers, LoadPublish(p) PROVE Taken'
  <2> HIDE DEF IInv, TypeOK, Bounds, DataInv, Taken, ClaimsAreTaken, MarkedIsFound, ScanSawMark, NextIsFound, Owns, Unmarked, Marked, WillPublish

  <2>1. /\ pc[p] = "pLoad" /\ pc'[p] = "scan" /\ pub'[p] = publish /\ seq'[p] = publish
        /\ \A q \in Producers \ {p} : pc'[q] = pc[q] /\ seq'[q] = seq[q] /\ pub'[q] = pub[q]
        /\ UNCHANGED <<publish, reserve, available, n, cur>>
    BY <1>9 DEF LoadPublish, IInv, TypeOK
  <2>2. publish \in Cursor /\ \A q \in Producers : seq[q] \in Cursor
    BY DEF IInv, TypeOK
  <2>3. \A s \in Cursor : Marked(s)' <=> Marked(s)
    BY <2>1 DEF Marked
  <2>4. \A q \in Producers, s \in Cursor : Owns(q, s) => Owns(q, s)'
    BY <2>1 DEF Owns, Unmarked
  <2>5. ClaimsAreTaken'
    BY <2>1, <2>3, <2>4 DEF ClaimsAreTaken, Taken
  <2>6. Marked(publish) => WillPublish(p)'
    BY <2>1 DEF WillPublish, Marked
  <2>7. \A q \in Producers \ {p} : WillPublish(q) => WillPublish(q)'
    BY <2>1 DEF WillPublish, Marked
  <2>8. MarkedIsFound'
    BY <2>1, <2>2, <2>3, <2>6 DEF MarkedIsFound, Taken
  <2>9. \A q \in Producers : pc'[q] \in Publishing /\ pub'[q] < seq'[q] =>
           q # p /\ pc[q] \in Publishing /\ pub[q] < seq[q]
    BY <2>1, <2>2
  <2>10. ScanSawMark'
    BY <2>1, <2>2, <2>3, <2>9 DEF ScanSawMark, Taken
  <2>11. ASSUME NEW q \in Producers, (pc[q] = "pCas" /\ pub[q] = publish /\ seq[q] < reserve /\ Marked(seq[q]))'
         PROVE  \E x \in Producers \ {q} : WillPublish(x)'
    <3>1. q # p /\ pc[q] = "pCas" /\ pub[q] = publish /\ seq[q] < reserve /\ Marked(seq[q])
      BY <2>1, <2>2, <2>3, <2>11
    <3>2. Marked(publish)
      BY <3>1 DEF ScanSawMark, Taken, DataInv, Scans
    <3>3. QED
      BY <2>6, <2>7, <3>1, <3>2 DEF NextIsFound, Taken
  <2>12. NextIsFound'
    BY <2>11 DEF NextIsFound
  <2>13. QED
    BY <2>5, <2>8, <2>10, <2>12 DEF Taken
<1>10. ASSUME NEW p \in Producers, Scan(p) PROVE Taken'
  <2> HIDE DEF IInv, TypeOK, Bounds, DataInv, Taken, ClaimsAreTaken, MarkedIsFound, ScanSawMark, NextIsFound, Owns, Unmarked, Marked, WillPublish

  <2>1. pc[p] = "scan" /\ UNCHANGED <<publish, reserve, available>>
        /\ \A q \in Producers \ {p} : pc'[q] = pc[q] /\ seq'[q] = seq[q] /\ pub'[q] = pub[q] /\ cur'[q] = cur[q] /\ n'[q] = n[q]
        /\ pc'[p] \in {"scan", "pCas", "idle"}
    BY <1>10 DEF Scan, Return, IInv, TypeOK
  <2>2. /\ publish \in Cursor /\ reserve \in Cursor /\ \A q \in Producers : seq[q] \in Cursor /\ pub[q] \in Cursor
        /\ pub[p] <= seq[p]
    BY <2>1 DEF IInv, TypeOK, Bounds
  <2>3. \A s \in Cursor : Marked(s)' <=> Marked(s)
    BY <2>1 DEF Marked
  <2>4. \A q \in Producers, s \in Cursor : Owns(q, s) => Owns(q, s)'
    BY <2>1 DEF Owns, Unmarked
  <2>5. ClaimsAreTaken'
    BY <2>1, <2>3, <2>4 DEF ClaimsAreTaken, Taken
  <2>6. \A q \in Producers \ {p} : WillPublish(q) => WillPublish(q)'
    BY <2>1 DEF WillPublish, Marked
  <2>7. CASE ~Scanned(p) /\ seq' = [seq EXCEPT ![p] = @ + 1] /\ UNCHANGED <<pc, n, cur, pub>>
    <3>1. Marked(seq[p]) /\ seq'[p] = seq[p] + 1
      BY <2>7 DEF Scanned, Marked, IInv, TypeOK
    <3>2. WillPublish(p)'
      BY <2>1, <2>2, <2>7, <3>1 DEF WillPublish
    <3>3. \A q \in Producers : WillPublish(q) => WillPublish(q)'
      BY <2>6, <3>2
    <3>4. MarkedIsFound'
      BY <3>2 DEF MarkedIsFound
    <3>5. pub[p] = publish => Marked(publish)
      BY <2>1, <2>2, <3>1 DEF ScanSawMark, Publishing, Taken
    <3>6. ScanSawMark'
      BY <2>1, <2>2, <2>3, <2>7, <3>5 DEF ScanSawMark, Taken
    <3>7. NextIsFound'
      BY <2>1, <2>2, <2>3, <2>7, <3>3 DEF NextIsFound, Taken
    <3>8. QED
      BY <2>5, <3>4, <3>6, <3>7 DEF Taken
  <2>8. CASE Scanned(p) /\ seq[p] # pub[p]
    <3>1. pc'[p] = "pCas" /\ UNCHANGED <<seq, pub>>
      BY <1>10, <2>8 DEF Scan, IInv, TypeOK
    <3>2. WillPublish(p)'
      BY <3>1 DEF WillPublish
    <3>3. \A q \in Producers : WillPublish(q) => WillPublish(q)'
      BY <2>6, <3>2
    <3>4. MarkedIsFound'
      BY <3>2 DEF MarkedIsFound
    <3>5. ScanSawMark'
      BY <2>1, <2>2, <2>3, <2>8, <3>1 DEF ScanSawMark, Publishing, Taken
    <3>6. pub[p] = publish /\ seq[p] < reserve => ~Marked(seq[p])
      BY <2>2, <2>8, UnreadWindow, RingAssumption DEF Scanned, Marked, Cursor
    <3>7. NextIsFound'
      BY <2>1, <2>2, <2>3, <3>1, <3>3, <3>6 DEF NextIsFound, Taken
    <3>8. QED
      BY <2>5, <3>4, <3>5, <3>7 DEF Taken
  <2>9. CASE Scanned(p) /\ seq[p] = pub[p]
    <3>1. pc'[p] = "idle"
      BY <1>10, <2>9 DEF Scan, Return, IInv, TypeOK
    <3>2. ~WillPublish(p)
      BY <2>1, <2>2, <2>9, RingAssumption DEF WillPublish, Scanned, Marked, Cursor
    <3>3. \A q \in Producers : WillPublish(q) => q # p /\ WillPublish(q)'
      BY <2>6, <3>2
    <3>4. MarkedIsFound'
      BY <2>1, <2>2, <2>3, <3>3 DEF MarkedIsFound, Taken
    <3>5. ScanSawMark'
      BY <2>1, <2>2, <2>3, <3>1 DEF ScanSawMark, Publishing, Taken
    <3>6. NextIsFound'
      BY <2>1, <2>2, <2>3, <3>1, <3>3 DEF NextIsFound, Taken
    <3>7. QED
      BY <2>5, <3>4, <3>5, <3>6 DEF Taken
  <2>10. QED
    BY <1>10, <2>7, <2>8, <2>9 DEF Scan
<1>11. ASSUME NEW p \in Producers, CasPublish(p) PROVE Taken'
  <2> HIDE DEF IInv, TypeOK, Bounds, DataInv, Taken, ClaimsAreTaken, MarkedIsFound, ScanSawMark, NextIsFound, Owns, Unmarked, Marked, WillPublish

  <2>0. /\ publish \in Cursor /\ reserve \in Cursor
        /\ \A q \in Producers : seq[q] \in Cursor /\ pub[q] \in Cursor /\ pub[q] <= publish
    BY DEF IInv, TypeOK, Bounds
  <2>1. CASE publish = pub[p]
    <3>1. /\ pc[p] = "pCas" /\ publish' = seq[p] /\ pc'[p] = "idle" /\ UNCHANGED <<reserve, available>>
          /\ \A q \in Producers \ {p} : pc'[q] = pc[q] /\ seq'[q] = seq[q] /\ pub'[q] = pub[q] /\ cur'[q] = cur[q] /\ n'[q] = n[q]
      BY <1>11, <2>1 DEF CasPublish, Return, IInv, TypeOK
    <3>2. publish < seq[p]
      BY <2>1, <3>1 DEF DataInv, Scans
    <3>3. \A s \in Cursor : Marked(s)' <=> Marked(s)
      BY <3>1 DEF Marked
    <3>4. \A q \in Producers, s \in Cursor : Owns(q, s) => Owns(q, s)'
      BY <3>1 DEF Owns, Unmarked
    <3>5. ClaimsAreTaken'
      BY <2>0, <3>1, <3>2, <3>3, <3>4 DEF ClaimsAreTaken, Taken
    <3>6. \A q \in Producers \ {p} : WillPublish(q) => WillPublish(q)'
      BY <3>1 DEF WillPublish, Marked
    <3>7. MarkedIsFound'
      BY <2>0, <2>1, <3>1, <3>3, <3>6 DEF MarkedIsFound, NextIsFound, Taken
    <3>8. \A q \in Producers : pc'[q] \in Publishing => pub'[q] # publish'
      BY <2>0, <3>1, <3>2 DEF Publishing
    <3>9. ScanSawMark' /\ NextIsFound'
      BY <3>8 DEF ScanSawMark, NextIsFound, Publishing
    <3>10. QED
      BY <3>5, <3>7, <3>9 DEF Taken
  <2>2. CASE publish # pub[p]
    <3>1. /\ pc[p] = "pCas" /\ pc'[p] = "pLoad" /\ UNCHANGED <<publish, reserve, available, seq, pub, cur, n>>
          /\ \A q \in Producers \ {p} : pc'[q] = pc[q]
      BY <1>11, <2>2 DEF CasPublish, IInv, TypeOK
    <3>2. \A s \in Cursor : Marked(s)' <=> Marked(s)
      BY <3>1 DEF Marked
    <3>3. \A q \in Producers, s \in Cursor : Owns(q, s) => Owns(q, s)'
      BY <3>1 DEF Owns, Unmarked
    <3>4. \A q \in Producers : WillPublish(q) => WillPublish(q)'
      BY <3>1 DEF WillPublish, Marked
    <3>5. ClaimsAreTaken'
      BY <3>1, <3>2, <3>3 DEF ClaimsAreTaken, Taken
    <3>6. MarkedIsFound'
      BY <2>0, <3>1, <3>2, <3>4 DEF MarkedIsFound, Taken
    <3>7. ScanSawMark'
      BY <2>0, <3>1, <3>2 DEF ScanSawMark, Publishing, Taken
    <3>8. NextIsFound'
      BY <2>0, <3>1, <3>2, <3>4 DEF NextIsFound, Taken
    <3>9. QED
      BY <3>5, <3>6, <3>7, <3>8 DEF Taken
  <2>3. QED
    BY <2>1, <2>2
<1>12. ASSUME NEW t \in Threads, RefreshPublish(t) PROVE Taken'
  BY SMTT(30), <1>12 DEF RefreshPublish
<1>13. ASSUME NEW t \in Threads, RefreshList(t) PROVE Taken'
  BY SMTT(30), <1>13 DEF RefreshList
<1>14. ASSUME NEW t \in Threads, RefreshReserve(t) PROVE Taken'
  BY <1>14 DEF RefreshReserve
<1>15. ASSUME NEW t \in Threads, NEW r \in Readers, RefreshMin(t, r) PROVE Taken'
  BY SMTT(30), <1>15 DEF RefreshMin
<1>16. ASSUME NEW t \in Threads, RefreshStore(t) PROVE Taken'
  <2> HIDE DEF IInv, TypeOK, Bounds, DataInv, Taken, ClaimsAreTaken, MarkedIsFound, ScanSawMark, NextIsFound, Owns, Unmarked, Marked, WillPublish

  <2>1. /\ pc[t] = "rStore" /\ UNCHANGED <<publish, reserve, available>>
        /\ \A q \in Producers \ {t} : pc'[q] = pc[q] /\ cur'[q] = cur[q] /\ n'[q] = n[q] /\ seq'[q] = seq[q] /\ pub'[q] = pub[q]
    BY <1>16 DEF RefreshStore, Return, IInv, TypeOK
  <2>2. t \in Producers => pc'[t] \in {"idle", "cas", "load"}
    BY <1>16 DEF RefreshStore, Return, AfterRefresh, IInv, TypeOK
  <2>3. QED
    BY <2>1, <2>2, TakenKept
<1>17. ASSUME NEW r \in Readers, AttachLoad(r) PROVE Taken'
  BY <1>17 DEF AttachLoad
<1>18. ASSUME NEW r \in Readers, AttachCursor(r) PROVE Taken'
  BY SMTT(30), <1>18 DEF AttachCursor
<1>19. ASSUME NEW r \in Readers, AttachCas(r) PROVE Taken'
  <2> HIDE DEF IInv, TypeOK, Bounds, DataInv, Taken, ClaimsAreTaken, MarkedIsFound, ScanSawMark, NextIsFound, Owns, Unmarked, Marked, WillPublish

  <2>1. r \notin Producers /\ UNCHANGED <<publish, reserve, available, cur, n, seq, pub>>
        /\ \A q \in Producers : pc'[q] = pc[q]
    BY <1>19 DEF AttachCas, IInv, TypeOK
  <2>2. QED
    BY <2>1, TakenKept
<1>20. ASSUME NEW r \in Readers, AttachReread(r) PROVE Taken'
  BY SMTT(30), <1>20 DEF AttachReread
<1>21. ASSUME NEW r \in Readers, AttachSet(r) PROVE Taken'
  BY <1>21 DEF AttachSet
<1>22. ASSUME NEW r \in Readers, Get(r) PROVE Taken'
  BY <1>22 DEF Get
<1>23. ASSUME NEW r \in Readers, NEW k \in Cursor, Consume(r, k) PROVE Taken'
  BY <1>23 DEF Consume
<1>24. ASSUME NEW r \in Readers, DetachLoad(r) PROVE Taken'
  BY SMTT(30), <1>24 DEF DetachLoad
<1>25. ASSUME NEW r \in Readers, DetachCas(r) PROVE Taken'
  <2> HIDE DEF IInv, TypeOK, Bounds, DataInv, Taken, ClaimsAreTaken, MarkedIsFound, ScanSawMark, NextIsFound, Owns, Unmarked, Marked, WillPublish

  <2>1. r \notin Producers /\ UNCHANGED <<publish, reserve, available, cur, n, seq, pub>>
        /\ \A q \in Producers : pc'[q] = pc[q]
    BY <1>25 DEF DetachCas, IInv, TypeOK
  <2>2. QED
    BY <2>1, TakenKept
<1>26. QED
  BY SMTT(30), <1>1, <1>2, <1>3, <1>4, <1>5, <1>6, <1>7, <1>8, <1>9, <1>10, <1>11, <1>12, <1>13, <1>14, <1>15, <1>16, <1>17, <1>18, <1>19, <1>20, <1>21, <1>22, <1>23, <1>24, <1>25 DEF Next, ProducerStep, RefreshStep, ReaderStep

-----------------------------------------------------------------------------
\* The initial state: nothing is claimed, nothing is stored.
LEMMA InitData == Init => DataInv /\ Taken
<1> SUFFICES ASSUME Init PROVE DataInv /\ Taken
  OBVIOUS
<1> USE RingAssumption DEF Init, Threads, Cursor
<1>1. Owned
  BY DEF Owned, ClaimsCount, ClaimsApart, OwnedIsUnmarked, OwnedIsUnread, Owners, Owns, Unmarked
<1>2. Scans
  BY DEF Scans
<1>3. Stored
  BY DEF Stored
<1>4. Taken
  BY DEF Taken, ClaimsAreTaken, MarkedIsFound, ScanSawMark, NextIsFound, Publishing
<1>5. QED
  BY <1>1, <1>2, <1>3, <1>4 DEF DataInv

\* Each part of the invariant is preserved by every step.
LEMMA DataStep == IInv /\ DataInv /\ [Next]_vars => IInv' /\ DataInv'
  BY TypeStep, BoundsStep, GatedStep, CachedStep, OwnedStep, ScansStep, StoredStep DEF IInv, DataInv

\* Every reachable state satisfies both invariants.
THEOREM DataInductive == Spec => [](IInv /\ DataInv)
  BY InitIInv, InitData, DataStep, PTL DEF Spec

\* What a resident reader may read is what was published for it.
LEMMA UnreadIsStored == IInv /\ DataInv => UnreadSamplesIntact
<1> SUFFICES ASSUME IInv, DataInv, NEW r \in Residents, NEW s \in readIdx[r]..(publish - 1)
             PROVE  data[calculateIndex(s)] = s
  BY DEF UnreadSamplesIntact
<1>1. readIdx[r] \in Nat /\ publish \in Cursor /\ publish <= reserve /\ reserve \in Cursor
  BY RingAssumption DEF IInv, TypeOK, Bounds, Cursor
<1>2. s \in Cursor /\ readIdx[r] <= s /\ s < publish /\ s < reserve
  BY <1>1, RingAssumption DEF Cursor
<1>3. \A p \in Producers : pc[p] = "write" => publish <= Unmarked(p)
  BY DEF DataInv, Owned, OwnedIsUnread, Owners
<1>4. \A p \in Producers : pc[p] = "write" => cur[p] \in Int
  BY DEF IInv, TypeOK, Cursor
<1>5. \A p \in Producers : ~(pc[p] = "write" /\ Owns(p, s))
  BY <1>1, <1>2, <1>3, <1>4 DEF Owns, Unmarked, Cursor
<1>6. QED
  BY <1>2, <1>5 DEF DataInv, Stored

\* The slots of the samples that a reader who stays has not consumed are written by nobody, for
\* any number of producers and readers and any buffer size (ClaimStrategy.hpp, next and tryNext).
THEOREM ResidentsReadTheirSamples == Spec => []UnreadSamplesIntact
  BY DataInductive, UnreadIsStored, PTL

\* Where a reader stays and spans publish all they reserved, no claimed sample is left behind
\* unpublished once all calls have returned, however their scans of the slots overlap
\* (publish() of MultiProducerStrategy, which scans again when it loses the race).
THEOREM ClaimsGetPublished ==
  ASSUME Residents # {}, ~PartialPublish
  PROVE  Spec => []NothingLeftUnpublished
<1>1. IInv /\ DataInv /\ Taken /\ [Next]_vars => Taken'
  BY TakenStep
<1>2. IInv /\ Taken => NothingLeftUnpublished
  <2> SUFFICES ASSUME IInv, Taken, \A p \in Producers : pc[p] = "idle" PROVE publish = reserve
    BY DEF NothingLeftUnpublished
  <2>1. publish \in Cursor /\ publish <= reserve /\ publish \in Int /\ reserve \in Int
    BY DEF IInv, TypeOK, Bounds, Cursor
  <2>2. \A p \in Producers : ~Owns(p, publish) /\ ~WillPublish(p)
    BY DEF Owns, Owners, WillPublish
  <2>3. publish < reserve => Marked(publish)
    BY <2>1, <2>2 DEF Taken, ClaimsAreTaken
  <2>4. ~(publish < reserve)
    BY <2>2, <2>3 DEF Taken, MarkedIsFound
  <2>5. QED
    BY <2>1, <2>4
<1>3. QED
  BY InitData, DataInductive, <1>1, <1>2, PTL DEF Spec

-----------------------------------------------------------------------------
(* The ring implements the log of module BroadcastLog. *)

\* What the log sees of the ring.
LogPos  == [r \in Residents |-> readIdx[r]]
LogView == [r \in Residents |-> [i \in 1..span[r] |-> data[calculateIndex(readIdx[r] + i - 1)]]]

\* An open span shows the samples by their numbers.
NumberView == [r \in Residents |-> [i \in 1..span[r] |-> readIdx[r] + i - 1]]

LEMMA ViewIsNumbers == IInv /\ DataInv => LogView = NumberView
<1> SUFFICES ASSUME IInv, DataInv PROVE LogView = NumberView
  OBVIOUS
<1>1. ASSUME NEW r \in Residents, NEW i \in 1..span[r]
      PROVE  data[calculateIndex(readIdx[r] + i - 1)] = readIdx[r] + i - 1
  <2>1. r \in Readers /\ readIdx[r] \in Nat /\ span[r] \in Nat /\ publish \in Nat
    BY RingAssumption DEF IInv, TypeOK, Cursor
  <2>2. pc[r] = "span"
    BY <1>1, <2>1 DEF DataInv, Stored
  <2>3. readIdx[r] + span[r] <= publish
    BY <2>1, <2>2 DEF IInv, Bounds
  <2>4. readIdx[r] + i - 1 \in readIdx[r]..(publish - 1)
    BY <2>1, <2>3
  <2>5. QED
    BY <2>4, UnreadIsStored DEF UnreadSamplesIntact
<1>2. QED
  BY <1>1 DEF LogView, NumberView

\* A step that changes neither the publish cursor nor a resident's position and span.
LogQuiet ==
  /\ publish' = publish
  /\ \A r \in Residents : readIdx'[r] = readIdx[r] /\ span'[r] = span[r]

\* Which steps the log sees.
LEMMA StepsOfLog ==
  ASSUME IInv, [Next]_vars
  PROVE  \/ LogQuiet
         \/ \E p \in Producers : CasPublish(p) /\ publish = pub[p]
         \/ \E r \in Residents : Get(r) \/ \E k \in Cursor : Consume(r, k)
<1> USE RingAssumption DEF LogQuiet, IInv, TypeOK, Gated, cursors, claims, refresh, readers, Threads
<1>1. CASE UNCHANGED vars
  BY <1>1 DEF vars
<1>2. ASSUME NEW p \in Producers, ProducerStep(p) PROVE LogQuiet \/ (CasPublish(p) /\ publish = pub[p])
  <2>1. CASE \E k \in 1..Size : Claim(p, k)
    BY <2>1 DEF Claim
  <2>2. CASE Retry(p)
    BY <2>2 DEF Retry
  <2>3. CASE CheckCached(p)
    BY <2>3 DEF CheckCached
  <2>4. CASE CasReserve(p)
    BY <2>4 DEF CasReserve
  <2>5. CASE Available(p)
    BY <2>5 DEF Available
  <2>6. CASE \E k \in 0..Size : Write(p, k)
    BY <2>6 DEF Write
  <2>7. CASE Mark(p)
    BY <2>7 DEF Mark
  <2>8. CASE LoadPublish(p)
    BY <2>8 DEF LoadPublish
  <2>9. CASE Scan(p)
    BY <2>9 DEF Scan
  <2>10. CASE CasPublish(p)
    BY <2>10 DEF CasPublish
  <2>11. QED
    BY <1>2, <2>1, <2>2, <2>3, <2>4, <2>5, <2>6, <2>7, <2>8, <2>9, <2>10 DEF ProducerStep
<1>3. ASSUME NEW t \in Threads, RefreshStep(t) PROVE LogQuiet
  BY <1>3 DEF RefreshStep, RefreshPublish, RefreshList, RefreshReserve, RefreshMin, RefreshStore
<1>4. ASSUME NEW r \in Readers, ReaderStep(r)
      PROVE  LogQuiet \/ (r \in Residents /\ (Get(r) \/ \E k \in Cursor : Consume(r, k)))
  <2>1. CASE AttachLoad(r) \/ AttachCas(r) \/ AttachReread(r) \/ DetachLoad(r) \/ DetachCas(r)
    BY <2>1 DEF AttachLoad, AttachCas, AttachReread, DetachLoad, DetachCas
  <2>2. CASE AttachCursor(r) \/ AttachSet(r)
    BY <2>2 DEF AttachCursor, AttachSet
  <2>3. CASE Get(r)
    BY <2>3 DEF Get
  <2>4. ASSUME NEW k \in Cursor, Consume(r, k) PROVE LogQuiet \/ r \in Residents
    BY <2>4 DEF Consume
  <2>5. QED
    BY <1>4, <2>1, <2>2, <2>3, <2>4 DEF ReaderStep
<1>5. QED
  BY <1>1, <1>2, <1>3, <1>4 DEF Next

\* Every step of the ring is a step of the log or leaves it as it is.
LEMMA StepImplementsLog == IInv /\ DataInv /\ [Next]_vars => [Log!LogNext]_(Log!logVars)
<1> SUFFICES ASSUME IInv, DataInv, [Next]_vars PROVE [Log!LogNext]_(Log!logVars)
  OBVIOUS
<1>0. IInv' /\ DataInv'
  BY DataStep
<1>1. /\ LogView = [r \in Residents |-> [i \in 1..span[r] |-> readIdx[r] + i - 1]]
      /\ LogView' = [r \in Residents |-> [i \in 1..span'[r] |-> readIdx'[r] + i - 1]]
  <2>1. IInv' /\ DataInv' => (LogView = NumberView)'
    BY ViewIsNumbers, PTL
  <2>2. QED
    BY <1>0, <2>1, ViewIsNumbers DEF NumberView
<1>2. \A r \in Residents : /\ readIdx[r] \in Nat /\ span[r] \in Nat /\ readIdx[r] <= publish
                           /\ reserve <= readIdx[r] + Size /\ r \in Readers
  BY RingAssumption DEF IInv, TypeOK, Cursor, Gated, Bounds
<1>3. publish \in Nat /\ reserve \in Nat /\ publish <= reserve
  BY RingAssumption DEF IInv, TypeOK, Cursor, Bounds
<1>4. CASE LogQuiet
  <2>1. publish' = publish /\ LogPos' = LogPos /\ LogView' = LogView
    BY <1>1, <1>4 DEF LogQuiet, LogPos
  <2>2. QED
    BY <2>1 DEF Log!logVars, LogPos, LogView
<1>5. ASSUME NEW p \in Producers, CasPublish(p), publish = pub[p] PROVE Log!LogNext
  <2>1. pc[p] = "pCas" /\ publish' = seq[p] /\ UNCHANGED <<readIdx, span>>
    BY <1>5 DEF CasPublish, readers
  <2>2. LogPos' = LogPos /\ LogView' = LogView
    BY <1>1, <2>1 DEF LogPos
  <2>3. seq[p] - publish \in 1..Size /\ seq[p] <= reserve /\ seq[p] \in Nat
    BY <1>3, <1>5, <2>1, RingAssumption DEF DataInv, Scans, IInv, TypeOK, Bounds, Cursor
  <2>4. \A r \in Residents : publish + (seq[p] - publish) <= LogPos[r] + Size
    BY <1>2, <1>3, <2>3, RingAssumption DEF LogPos
  <2>5. Log!Publish(seq[p] - publish)
    BY <1>3, <2>1, <2>2, <2>3, <2>4 DEF Log!Publish, LogPos, LogView
  <2>6. QED
    BY <2>3, <2>5 DEF Log!LogNext
<1>6. ASSUME NEW r \in Residents, Get(r) PROVE Log!LogNext
  <2>1. span' = [span EXCEPT ![r] = publish - readIdx[r]] /\ UNCHANGED <<publish, readIdx>>
    BY <1>6 DEF Get, cursors
  <2>2. LogPos' = LogPos /\ publish' = publish
    BY <2>1 DEF LogPos
  <2>3. span'[r] = publish - readIdx[r] /\ \A x \in Residents \ {r} : span'[x] = span[x]
    BY <1>2, <2>1 DEF IInv, TypeOK
  <2>4. LogView' = [LogView EXCEPT ![r] = [i \in 1..(publish - LogPos[r]) |-> LogPos[r] + i - 1]]
    <3>1. LogPos[r] = readIdx[r]
      BY DEF LogPos
    <3>2. \A x \in Residents \ {r} : LogView'[x] = LogView[x]
      BY <1>1, <2>1, <2>3
    <3>3. LogView'[r] = [i \in 1..(publish - LogPos[r]) |-> LogPos[r] + i - 1]
      BY <1>1, <2>1, <2>3, <3>1
    <3>4. QED
      BY <1>1, <3>2, <3>3
  <2>5. Log!Open(r)
    BY <2>2, <2>4 DEF Log!Open, LogPos, LogView
  <2>6. QED
    BY <2>5 DEF Log!LogNext
<1>7. ASSUME NEW r \in Residents, NEW k \in Cursor, Consume(r, k) PROVE Log!LogNext
  <2>1. /\ pc[r] = "span" /\ k <= span[r]
        /\ readIdx' = [readIdx EXCEPT ![r] = @ + k] /\ span' = [span EXCEPT ![r] = 0] /\ publish' = publish
    BY <1>7 DEF Consume, cursors
  <2>2. readIdx[r] + span[r] <= publish
    BY <1>2, <2>1 DEF IInv, Bounds
  <2>3. k \in 0..Size
    BY <1>2, <1>3, <2>1, <2>2, RingAssumption DEF Cursor
  <2>4. LogPos' = [LogPos EXCEPT ![r] = @ + k]
    BY <1>2, <2>1 DEF LogPos, IInv, TypeOK
  <2>5. span'[r] = 0 /\ \A x \in Residents \ {r} : span'[x] = span[x] /\ readIdx'[x] = readIdx[x]
    BY <1>2, <2>1 DEF IInv, TypeOK
  <2>6. LogView'[r] = <<>>
    BY <1>1, <2>5
  <2>7. LogView' = [LogView EXCEPT ![r] = <<>>]
    BY <1>1, <2>5, <2>6
  <2>8. Len(LogView[r]) = span[r]
    BY <1>1, <1>2
  <2>9. Log!Close(r, k)
    BY <2>1, <2>4, <2>7, <2>8 DEF Log!Close, LogPos, LogView
  <2>10. QED
    BY <2>3, <2>9 DEF Log!LogNext
<1>8. QED
  BY <1>4, <1>5, <1>6, <1>7, StepsOfLog

\* A CircularBuffer with several producers is, for the readers that stay, a bounded log: each
\* sample is shown once and in order, an open span does not change under its reader, and no
\* writer is more than the buffer ahead, for any number of producers and readers and any size.
THEOREM RingImplementsLog == Spec => ImplementsLog
<1>1. Init => Log!LogInit
  <2> SUFFICES ASSUME Init PROVE Log!LogInit
    OBVIOUS
  <2>1. \A r \in Residents : r \in Readers
    BY RingAssumption
  <2>2. publish = 0 /\ LogPos = [r \in Residents |-> 0] /\ \A r \in Residents : span[r] = 0
    BY <2>1 DEF Init, LogPos
  <2>3. LogView = [r \in Residents |-> <<>>]
    BY <2>2 DEF LogView
  <2>4. QED
    BY <2>2, <2>3 DEF Log!LogInit, LogPos, LogView
<1>2. QED
  BY <1>1, DataInductive, StepImplementsLog, PTL DEF Spec, ImplementsLog, Log!LogSpec
=============================================================================
