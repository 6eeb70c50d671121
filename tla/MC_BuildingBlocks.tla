--------------------------- MODULE MC_BuildingBlocks ---------------------------
(* The concurrent building blocks side by side: `subject` is the one this *)
(* behaviour exercises, the others stay in one initial state.              *)
EXTENDS ReaderWriterLock, AtomicBitset, HistoryBuffer, SegmentedRing, ThreadPool

VARIABLE subject

mcVars == <<rwVars, bitVars, historyVars, segVars, poolVars, subject>>

MCPoolBounds == {<<1, 2>>, <<1, 1>>}
MCSymmetry == Permutations(SegReaders) \cup Permutations(PoolCallers)

Init ==
  /\ subject \in {"lock", "bitset", "history", "segments", "pool"}
  /\ RwInit /\ BitsInit /\ HistoryInit /\ SegInit /\ PoolInit
  /\ subject # "segments" => seg.readers = {}
  /\ subject # "pool" => pool.max = 1

Next ==
  /\ UNCHANGED subject
  /\ \/ subject = "lock" /\ RwNext /\ UNCHANGED <<bitVars, historyVars, segVars, poolVars>>
     \/ subject = "bitset" /\ BitsNext /\ UNCHANGED <<rwVars, historyVars, segVars, poolVars>>
     \/ subject = "history" /\ HistoryNext /\ UNCHANGED <<rwVars, bitVars, segVars, poolVars>>
     \/ subject = "segments" /\ SegNext /\ UNCHANGED <<rwVars, bitVars, historyVars, poolVars>>
     \/ subject = "pool" /\ PoolNext /\ UNCHANGED <<rwVars, bitVars, historyVars, segVars>>

Spec == Init /\ [][Next]_mcVars
=============================================================================
