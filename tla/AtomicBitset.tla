------------------------------ MODULE AtomicBitset ------------------------------
(***************************************************************************)
(* AtomicBitset (AtomicBitset.hpp): bits in words; a range is set word by  *)
(* word, partial words with a compare-and-set loop, whole words with a     *)
(* store.  A step is one atomic access; threads set ranges at once.        *)
(***************************************************************************)
EXTENDS Integers, Sequences

CONSTANTS BitThreads,    \* threads that call set() and reset()
          BitsPerWord,   \* _bitsPerWord
          BitSize        \* _size

ASSUME BitsAssumption == BitsPerWord \in Nat \ {0} /\ BitSize \in Nat

VARIABLES bits,      \* _bits: the set of bits that are 1
          call,      \* the running call [begin, end, value, todo], or NoCall
          loaded,    \* oldBits: the word as loaded, or NotLoaded
          want,      \* history: the bits that should be 1
          missing    \* history: bits of the call's range it has not written yet

bitVars == <<bits, call, loaded, want, missing>>

Bit == 0 .. BitSize - 1
WordOf(b) == b \div BitsPerWord
BitsOfWord(w) == {b \in Bit : WordOf(b) = w}
NoCall == [begin |-> 0, end |-> 0, value |-> FALSE, todo |-> <<>>]
NotLoaded == {-1}

Part(w, from, to) == [word |-> w, from |-> from, to |-> to]
FullWords(from, to) == [i \in 1 .. (IF to < from THEN 0 ELSE to - from + 1) |->
                          Part(from + i - 1, 0, BitsPerWord)]

\* set(begin, end, value): the leading part, the trailing part, then the whole
\* words between them, in this order.
setRange(begin, end) ==
  LET beginWord   == begin \div BitsPerWord
      endWord     == end \div BitsPerWord
      beginOffset == begin % BitsPerWord
      endOffset   == end % BitsPerWord
      first == IF beginOffset # 0 THEN beginWord + 1 ELSE beginWord
  IN IF beginWord = endWord THEN <<Part(beginWord, beginOffset, endOffset)>>
     ELSE (IF beginOffset # 0 THEN <<Part(beginWord, beginOffset, BitsPerWord)>> ELSE <<>>)
       \o (IF endOffset # 0 THEN <<Part(endWord, 0, endOffset)>> ELSE <<>>)
       \o FullWords(first, endWord - 1)

\* The bits a word operation reaches: the mask of setBitsInWord(), or ~0.
Mask(p) == {b \in Bit : WordOf(b) = p.word /\ b % BitsPerWord \in p.from .. p.to - 1}

With(old, mask, value) == IF value THEN old \cup mask ELSE old \ mask

BitsInit ==
  /\ bits = {} /\ want = {}
  /\ call = [t \in BitThreads |-> NoCall]
  /\ loaded = [t \in BitThreads |-> NotLoaded]
  /\ missing = [t \in BitThreads |-> {}]

\* set() or reset() of one bit or of a range is called; [begin, begin) is empty
\* and returns at once.
CallSet(t, begin, end, value) ==
  /\ call[t] = NoCall /\ begin < end
  /\ call' = [call EXCEPT ![t] = [begin |-> begin, end |-> end, value |-> value,
                                  todo |-> setRange(begin, end)]]
  /\ missing' = [missing EXCEPT ![t] = begin .. end - 1]
  /\ UNCHANGED <<bits, loaded, want>>

\* The bits of the range that lie in the word just written have the call's
\* value now, and the call goes on with the rest.
Written(t, word) ==
  LET mine == BitsOfWord(word) \cap (call[t].begin .. call[t].end - 1)
  IN /\ want' = With(want, mine, call[t].value)
     /\ missing' = [missing EXCEPT ![t] = @ \ mine]
     /\ call' = [call EXCEPT ![t] = IF Len(call[t].todo) = 1 THEN NoCall
                                    ELSE [call[t] EXCEPT !.todo = Tail(call[t].todo)]]
     /\ loaded' = [loaded EXCEPT ![t] = NotLoaded]

IsFull(p) == p.from = 0 /\ p.to = BitsPerWord

\* setBitsInWord(): the load of the loop.
LoadWord(t) ==
  /\ call[t].todo # <<>>
  /\ ~IsFull(Head(call[t].todo)) /\ loaded[t] = NotLoaded
  /\ loaded' = [loaded EXCEPT ![t] = bits \cap BitsOfWord(Head(call[t].todo).word)]
  /\ UNCHANGED <<bits, call, want, missing>>

(* mutant: the word is stored without comparing it with what was loaded *)
StoreWord(t) ==
  /\ call[t].todo # <<>> /\ loaded[t] # NotLoaded
  /\ LET p == Head(call[t].todo)
     IN /\ bits' = (bits \ BitsOfWord(p.word)) \cup With(loaded[t], Mask(p), call[t].value)
        /\ Written(t, p.word)

\* setBitsInWord(): the compare-and-set; on failure the loop loads again.
CasWord(t) ==
  /\ call[t].todo # <<>> /\ loaded[t] # NotLoaded
  /\ LET p == Head(call[t].todo)
         word == BitsOfWord(p.word)
     IN IF loaded[t] = bits \cap word
        THEN /\ bits' = (bits \ word) \cup With(loaded[t], Mask(p), call[t].value)
             /\ Written(t, p.word)
        ELSE /\ loaded' = [loaded EXCEPT ![t] = NotLoaded]
             /\ UNCHANGED <<bits, call, want, missing>>

setFullWord(t) ==
  /\ call[t].todo # <<>>
  /\ LET p == Head(call[t].todo)
     IN /\ IsFull(p)
        /\ bits' = With(bits, BitsOfWord(p.word), call[t].value)
        /\ Written(t, p.word)

BitsNext ==
  \E t \in BitThreads :
    \/ \E begin \in 0 .. BitSize, end \in 0 .. BitSize, value \in BOOLEAN :
         CallSet(t, begin, end, value)
    \/ LoadWord(t)
    \/ CasWord(t)
    \/ setFullWord(t)

BitsSpec == BitsInit /\ [][BitsNext]_bitVars

-----------------------------------------------------------------------------
BitsTypeOK ==
  /\ bits \subseteq Bit /\ want \subseteq Bit
  /\ \A t \in BitThreads :
       /\ loaded[t] = NotLoaded \/ loaded[t] \subseteq Bit
       /\ missing[t] \subseteq Bit
       /\ call[t].value \in BOOLEAN

\* Every bit has the value of the call that wrote it last: a word updated by
\* two threads at once, with ranges that share the word but no bit, keeps both
\* updates, and no call touches a bit outside [begin, end).
NoBitLost == bits = want

\* A call that has returned has written every bit of [begin, end): ranges that
\* start or end on a word boundary skip no word.
RangeCovered == \A t \in BitThreads : call[t] = NoCall => missing[t] = {}

\* Exactly the bits of the calls are written, by whoever shares their words.
BitsAsCalled == NoBitLost /\ RangeCovered

=============================================================================
