---------------------------- MODULE ReaderWriterLock ----------------------------
(***************************************************************************)
(* ReaderWriterLock (reader_writer_lock.hpp): one signed counter, moved    *)
(* up by readers and down by writers.  Readers share, writers share, and   *)
(* the two kinds exclude each other.  A step is one atomic access.         *)
(***************************************************************************)
EXTENDS Integers, FiniteSets

CONSTANTS LockThreads          \* the threads that use the lock

VARIABLES activeReaderCount,   \* _activeReaderCount
          rwPc,                \* "out", "loaded" (inside lock()), "in"
          rwKind,              \* lockType of the call or of the lock held
          rwTry,               \* the call is tryLock()
          rwExpected           \* the local variable expected

rwVars == <<activeReaderCount, rwPc, rwKind, rwTry, rwExpected>>

LockType == {"READ", "WRITE"}

\* A counter of the other kind's sign is replaced by 0 before the exchange.
Expected(kind, count) ==
  IF (kind = "READ" /\ count < 0) \/ (kind = "WRITE" /\ count > 0) THEN 0 ELSE count

Towards(kind) == IF kind = "READ" THEN 1 ELSE -1

RwInit ==
  /\ activeReaderCount = 0
  /\ rwPc = [t \in LockThreads |-> "out"]
  /\ rwKind = [t \in LockThreads |-> "READ"]
  /\ rwTry = [t \in LockThreads |-> FALSE]
  /\ rwExpected = [t \in LockThreads |-> 0]

\* The load that opens lock() and tryLock().
BeginLock(t, kind, try) ==
  /\ rwPc[t] = "out"
  /\ rwPc' = [rwPc EXCEPT ![t] = "loaded"]
  /\ rwKind' = [rwKind EXCEPT ![t] = kind]
  /\ rwTry' = [rwTry EXCEPT ![t] = try]
  /\ rwExpected' = [rwExpected EXCEPT ![t] = Expected(kind, activeReaderCount)]
  /\ UNCHANGED activeReaderCount

\* compare_exchange: enters, or stores the counter it found in expected and
\* (lock) tries again or (tryLock) gives up.
Exchange(t) ==
  /\ rwPc[t] = "loaded"
  /\ IF activeReaderCount = rwExpected[t]
     THEN /\ activeReaderCount' = rwExpected[t] + Towards(rwKind[t])
          /\ rwPc' = [rwPc EXCEPT ![t] = "in"]
          /\ UNCHANGED rwExpected
     ELSE /\ rwExpected' = [rwExpected EXCEPT ![t] = Expected(rwKind[t], activeReaderCount)]
          /\ rwPc' = [rwPc EXCEPT ![t] = IF rwTry[t] THEN "out" ELSE "loaded"]
          /\ UNCHANGED activeReaderCount
  /\ UNCHANGED <<rwKind, rwTry>>

(* mutant: every unlock counts down *)
UnlockDown(t) ==
  /\ rwPc[t] = "in"
  /\ activeReaderCount' = activeReaderCount - 1
  /\ rwPc' = [rwPc EXCEPT ![t] = "out"]
  /\ UNCHANGED <<rwKind, rwTry, rwExpected>>

Unlock(t) ==
  /\ rwPc[t] = "in"
  /\ activeReaderCount' = activeReaderCount - Towards(rwKind[t])
  /\ rwPc' = [rwPc EXCEPT ![t] = "out"]
  /\ UNCHANGED <<rwKind, rwTry, rwExpected>>

RwNext ==
  \E t \in LockThreads :
    \/ \E kind \in LockType, try \in BOOLEAN : BeginLock(t, kind, try)
    \/ Exchange(t)
    \/ Unlock(t)

RwSpec == RwInit /\ [][RwNext]_rwVars

-----------------------------------------------------------------------------
Inside(kind) == {t \in LockThreads : rwPc[t] = "in" /\ rwKind[t] = kind}

RwTypeOK ==
  /\ activeReaderCount \in Int
  /\ rwPc \in [LockThreads -> {"out", "loaded", "in"}]
  /\ rwKind \in [LockThreads -> LockType]
  /\ rwTry \in [LockThreads -> BOOLEAN]
  /\ rwExpected \in [LockThreads -> Int]

\* A reader and a writer never hold the lock together, whatever the order of
\* their loads, exchanges and unlocks: the counter a thread loaded may have
\* changed sign, and back, before its exchange.
ReadersExcludeWriters == Inside("READ") = {} \/ Inside("WRITE") = {}

\* The counter is exactly the number of readers inside, or minus the number of
\* writers: a guard released once too often, or an entry counted twice, would
\* let the other kind in for good.
CounterCountsHolders ==
  activeReaderCount = Cardinality(Inside("READ")) - Cardinality(Inside("WRITE"))

\* The lock excludes the other kind, now and after the holders have left.
LockExcludes == ReadersExcludeWriters /\ CounterCountsHolders

=============================================================================
