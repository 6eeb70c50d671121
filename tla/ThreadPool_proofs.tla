--------------------------- MODULE ThreadPool_proofs ---------------------------
(***************************************************************************)
(* The pool's tasks meet its workers, for any callers, workers and bounds. *)
(* The counters are the threads and callers they stand for (Counters).  A  *)
(* queued task is covered by an idle worker, by a caller that waits for    *)
(* another's worker, or by a full pool, in which a worker that is still to *)
(* be created does not count (Covered): it may be refused.  The threads a  *)
(* pool holds are those that run, those that record their departure and    *)
(* those a caller is about to join (Threads), which bounds them when one   *)
(* is added (Sizes).                                                       *)
(***************************************************************************)
EXTENDS ThreadPool, SequenceTheorems, FiniteSetTheorems, WellFoundedInduction, TLAPS

ThreadStates == {"none", "born", "ready", "waiting", "running", "leaving", "gone"}
Pcs == {"out", "sleep", "woken", "reserve", "create", "created", "refused", "unset", "notify", "set"}
AllPolicies == Policies \cup {"other"}
Fields == {"queued", "idle", "reserved", "threads", "min", "max", "low", "high", "tasks", "sets", "refusals",
           "policy", "accepted", "shutdown"}
IsPool(p) ==
  /\ DOMAIN p = Fields
  /\ p.queued \in Int /\ p.idle \in Int /\ p.reserved \in Int /\ p.threads \in Int
  /\ p.min \in Int /\ p.max \in Int /\ p.low \in Int /\ p.high \in Int
  /\ p.tasks \in Int /\ p.sets \in Int /\ p.refusals \in Int
  /\ p.policy \in AllPolicies /\ p.accepted \in AllPolicies /\ p.shutdown \in BOOLEAN
Prios == Priorities \cup {0}

Types ==
  /\ thr \in [Ids -> ThreadStates]
  /\ runs \in [Ids -> [prio : Prios, policy : AllPolicies, last : BOOLEAN]]
  /\ caller \in [Callers -> [pc : Pcs, prio : Prios, taking : SUBSET Ids]]
  /\ jobs \in Seq(Prios) /\ IsPool(pool)
  /\ members \in SUBSET Ids /\ departed \in SUBSET Ids /\ listLock \in Callers \cup {Free}
  /\ ending \in [pc : {"open", "wake", "take", "join", "joined"}, kind : {"none", "shutdown", "destroy"}, joining : SUBSET Ids]

-----------------------------------------------------------------------------
(* The counters. *)

N(S) == Cardinality(InPc(S))
InThr(T) == {w \in Ids : thr[w] \in T}
W(T) == Cardinality(InThr(T))

Idle == {"born", "ready", "waiting"}
Reserving == {"reserve", "create", "created", "refused", "unset"}
Unmade == {"reserve", "create", "refused"}   \* the worker is counted and no thread yet
Blocked == {"sleep", "woken"}

Counters ==
  /\ pool.reserved = N(Reserving)
  /\ pool.idle = W(Idle) + N(Unmade)
  /\ pool.threads = pool.idle + W({"running"})
  /\ pool.queued >= Len(jobs) + N(Reserving) + N(Blocked)

Bounds == pool.low <= pool.max /\ pool.max <= pool.high /\ pool.threads <= pool.high

Covered ==
  ~pool.shutdown => \/ pool.idle >= pool.queued - N(Blocked)
                    \/ pool.threads - N(Unmade) >= pool.low

\* NoTaskStranded.
Awake == {"born", "ready"}
Rested == ~pool.shutdown /\ Waiting # {} => W(Awake) + N({"notify"}) >= Len(jobs)

CountersInv == Counters /\ Bounds /\ Covered /\ Rested

-----------------------------------------------------------------------------
(* The threads and who holds them. *)

\* What the holder of the lock took from the departed workers.
Taking == IF listLock = Free THEN {} ELSE caller[listLock].taking

Threads ==
  /\ \A c \in Callers : caller[c].pc \in {"create", "set"} <=> listLock = c
  /\ \A c \in Callers : listLock # c => caller[c].taking = {}
  /\ Taking \subseteq members /\ departed \subseteq members /\ Taking \cap departed = {}
  /\ \A w \in Ids : thr[w] # "none" <=> w \in members \cup ending.joining
  /\ members \cap ending.joining = {}
  /\ \A w \in departed \cup Taking : thr[w] \in {"leaving", "gone"}
  /\ \A c \in Ids : caller[c].pc # "out" => thr[c] = "running"

Ending ==
  /\ ~pool.shutdown <=> ending.kind = "none"
  /\ ending.kind = "none" => ending.pc = "open"
  /\ ending.pc = "join" \/ ending.joining = {}
  /\ ~pool.shutdown => \A w \in Ids : thr[w] \in {"leaving", "gone"} => w \in departed \cup Taking
  /\ ending.kind = "destroy" => \A c \in PoolCallers : caller[c].pc = "out"

ThreadsInv == Threads /\ Ending /\ NoThreadOutlivesPool

Live == members \ (departed \cup Taking)

Agreed ==
  ~pool.shutdown => \A w \in Live : /\ runs[w].policy = pool.accepted
                                    /\ (\A c \in Callers : caller[c].pc # "set") => pool.policy = pool.accepted

Sizes ==
  ~pool.shutdown => /\ Cardinality(members) <= pool.high
                    /\ \A c \in Callers : caller[c].pc = "create" => Cardinality(members \ caller[c].taking) < pool.high

PoolInv == Types /\ CountersInv /\ ThreadsInv /\ Agreed /\ Sizes

-----------------------------------------------------------------------------
(* Counting callers and threads. *)

One(e, S) == IF e \in S THEN 1 ELSE 0

LEMMA Finite ==
  /\ IsFiniteSet(Callers) /\ Callers = PoolCallers \cup Ids /\ 0 \notin Callers
  /\ \A S : IsFiniteSet(InPc(S)) /\ N(S) \in Nat
  /\ \A T : IsFiniteSet(InThr(T)) /\ W(T) \in Nat
<1>1. IsFiniteSet(Callers) /\ Callers = PoolCallers \cup Ids /\ 0 \notin Callers
  BY PoolAssumption, FS_Union DEF Callers
<1>2. \A S : InPc(S) \in SUBSET Callers
  BY DEF InPc
<1>3. \A T : InThr(T) \in SUBSET Ids
  BY DEF InThr
<1>4. \A S : IsFiniteSet(InPc(S)) /\ N(S) \in Nat
  BY <1>1, <1>2, FS_Subset, FS_CardinalityType DEF N
<1>5. \A T : IsFiniteSet(InThr(T)) /\ W(T) \in Nat
  BY <1>3, PoolAssumption, FS_Subset, FS_CardinalityType DEF W
<1> QED
  BY <1>1, <1>4, <1>5

\* A set and the one it becomes when one element comes or goes.
LEMMA OneMoves ==
  ASSUME NEW A, NEW B, NEW x, IsFiniteSet(A), \A y : y # x => (y \in B <=> y \in A)
  PROVE  Cardinality(B) = Cardinality(A) + One(x, B) - One(x, A)
<1>0. Cardinality(A) \in Nat
  BY FS_CardinalityType
<1>1. CASE x \in A /\ x \in B
  <2>1. B = A
    BY <1>1
  <2> QED BY <1>0, <1>1, <2>1 DEF One
<1>2. CASE x \notin A /\ x \notin B
  <2>1. B = A
    BY <1>2
  <2> QED BY <1>0, <1>2, <2>1 DEF One
<1>3. CASE x \in A /\ x \notin B
  <2>1. B = A \ {x}
    BY <1>3
  <2> QED BY <1>0, <1>3, <2>1, FS_RemoveElement DEF One
<1>4. CASE x \notin A /\ x \in B
  <2>1. B = A \cup {x}
    BY <1>4
  <2> QED BY <1>0, <1>4, <2>1, FS_AddElement DEF One
<1> QED
  BY <1>1, <1>2, <1>3, <1>4

LEMMA CallerCounts ==
  ASSUME NEW c \in Callers, NEW S, \A d \in Callers \ {c} : caller'[d].pc \in S <=> caller[d].pc \in S
  PROVE  N(S)' = N(S) + One(caller'[c].pc, S) - One(caller[c].pc, S)
<1>1. \A d : d # c => (d \in InPc(S)' <=> d \in InPc(S))
  BY DEF InPc
<1>2. Cardinality(InPc(S)') = Cardinality(InPc(S)) + One(c, InPc(S)') - One(c, InPc(S))
  BY <1>1, Finite, OneMoves
<1>3. One(c, InPc(S)') = One(caller'[c].pc, S) /\ One(c, InPc(S)) = One(caller[c].pc, S)
  BY DEF InPc, One
<1> QED
  BY <1>2, <1>3 DEF N

LEMMA ThreadCounts ==
  ASSUME NEW w \in Ids, NEW T, \A v \in Ids \ {w} : thr'[v] \in T <=> thr[v] \in T
  PROVE  W(T)' = W(T) + One(thr'[w], T) - One(thr[w], T)
<1>1. \A v : v # w => (v \in InThr(T)' <=> v \in InThr(T))
  BY DEF InThr
<1>2. Cardinality(InThr(T)') = Cardinality(InThr(T)) + One(w, InThr(T)') - One(w, InThr(T))
  BY <1>1, Finite, OneMoves
<1>3. One(w, InThr(T)') = One(thr'[w], T) /\ One(w, InThr(T)) = One(thr[w], T)
  BY DEF InThr, One
<1> QED
  BY <1>2, <1>3 DEF W

LEMMA SameThreads ==
  ASSUME NEW T, \A v \in Ids : thr'[v] \in T <=> thr[v] \in T
  PROVE  W(T)' = W(T)
BY DEF W, InThr

LEMMA SameCallers ==
  ASSUME NEW S, \A d \in Callers : caller'[d].pc \in S <=> caller[d].pc \in S
  PROVE  N(S)' = N(S)
BY DEF N, InPc

LEMMA Somebody ==
  /\ \A S : \A c \in Callers : caller[c].pc \in S => N(S) >= 1
  /\ \A T : \A w \in Ids : thr[w] \in T => W(T) >= 1
<1>1. ASSUME NEW A, NEW x \in A, IsFiniteSet(A) PROVE Cardinality(A) >= 1
  <2>1. Cardinality(A) \in Nat /\ Cardinality(A) # 0
    BY <1>1, FS_CardinalityType, FS_EmptySet
  <2> QED BY <2>1
<1>2. ASSUME NEW S, NEW c \in Callers, caller[c].pc \in S PROVE N(S) >= 1
  <2>1. c \in InPc(S)
    BY <1>2 DEF InPc
  <2> QED BY <2>1, <1>1, Finite DEF N
<1>3. ASSUME NEW T, NEW w \in Ids, thr[w] \in T PROVE W(T) >= 1
  <2>1. w \in InThr(T)
    BY <1>3 DEF InThr
  <2> QED BY <2>1, <1>1, Finite DEF W
<1> QED
  BY <1>2, <1>3

LEMMA MoreIsMore ==
  ASSUME NEW S, NEW T, S \subseteq T
  PROVE  N(S) <= N(T)
<1>1. InPc(S) \in SUBSET InPc(T)
  BY DEF InPc
<1> QED
  BY <1>1, Finite, FS_Subset DEF N

\* push() adds one task.
LEMMA Pushed ==
  ASSUME NEW q \in Seq(Prios), NEW p \in Prios
  PROVE  push(q, p) \in Seq(Prios) /\ Len(push(q, p)) = Len(q) + 1
<1> DEFINE lower == {k \in DOMAIN q : q[k] < p}
           Less == {ss \in Nat \X Nat : ss[1] < ss[2]}
           at == CHOOSE k \in lower : \A j \in lower : k <= j
<1>1. Len(q) \in Nat /\ DOMAIN q = 1 .. Len(q)
  BY LenProperties
<1>2. CASE p = 0 \/ lower = {}
  <2>1. push(q, p) = Append(q, p)
    BY <1>2 DEF push
  <2> QED BY <2>1, AppendProperties
<1>3. CASE ~(p = 0 \/ lower = {})
  <2>1. push(q, p) = InsertAt(q, at, p)
    BY <1>3 DEF push
  <2>2. lower \subseteq Nat /\ lower # {}
    BY <1>1, <1>3
  <2>3. PICK m \in lower : \A j \in lower : m <= j
    <3>1. IsWellFoundedOn(Less, Nat)
      BY NatLessThanWellFounded DEF OpToRel
    <3>2. PICK m \in lower : \A j \in lower : ~(<<j, m>> \in Less)
      <4> HIDE DEF Less, lower
      <4> QED BY <2>2, <3>1, WFMin
    <3>3. ASSUME NEW j \in lower PROVE m <= j
      <4> SUFFICES ASSUME j < m PROVE FALSE
        BY <2>2
      <4>1. <<j, m>> \in Nat \X Nat /\ <<j, m>>[1] = j /\ <<j, m>>[2] = m
        BY <2>2
      <4>2. <<j, m>> \in Less
        BY <4>1
      <4> HIDE DEF Less, lower
      <4> QED BY <4>2, <3>2, <3>3
    <3> QED BY <3>3
  <2>4. at \in lower
    <3> HIDE DEF lower
    <3> QED BY <2>3
  <2>5. at \in 1 .. Len(q)
    BY <2>4, <1>1
  <2> HIDE DEF at, lower
  <2> DEFINE front == SubSeq(q, 1, at - 1)
             back == SubSeq(q, at, Len(q))
  <2>6. front \in Seq(Prios) /\ Len(front) = at - 1
    BY <1>1, <2>5, SubSeqProperties
  <2>7. back \in Seq(Prios) /\ Len(back) = Len(q) - at + 1
    BY <1>1, <2>5, SubSeqProperties
  <2>8. <<p>> \in Seq(Prios) /\ Len(<<p>>) = 1
    OBVIOUS
  <2>9. InsertAt(q, at, p) = front \o <<p>> \o back
    BY DEF InsertAt
  <2> HIDE DEF front, back
  <2>10. front \o <<p>> \in Seq(Prios) /\ Len(front \o <<p>>) = at
    BY <2>5, <2>6, <2>8, ConcatProperties
  <2>11. (front \o <<p>>) \o back \in Seq(Prios) /\ Len((front \o <<p>>) \o back) = at + (Len(q) - at + 1)
    BY <2>7, <2>10, ConcatProperties
  <2> QED BY <1>1, <2>1, <2>5, <2>9, <2>11
<1> QED
  BY <1>2, <1>3

-----------------------------------------------------------------------------
(* Types. *)

LEMMA Constants ==
  /\ Callers = PoolCallers \cup Ids /\ 0 \notin Callers /\ Ids \subseteq Callers /\ PoolCallers \subseteq Callers
  /\ PoolCallers \cap Ids = {} /\ Ids \subseteq Nat
  /\ \A b \in PoolBounds : b[1] \in Nat /\ b[2] \in Nat /\ b[1] <= b[2]
BY PoolAssumption DEF Callers

LEMMA DecideTypes ==
  ASSUME Types, NEW c \in Callers, NEW p, IsPool(p), NEW prio \in Prios, Decide(c, p, prio)
  PROVE  /\ caller' \in [Callers -> [pc : Pcs, prio : Prios, taking : SUBSET Ids]]
         /\ jobs' \in Seq(Prios) /\ IsPool(pool')
<1>1. push(jobs, prio) \in Seq(Prios)
  BY Pushed DEF Types
<1>2. jobs' \in Seq(Prios)
  BY <1>1 DEF Decide, Types
<1>3. IsPool(pool')
  BY DEF Decide, IsPool, Fields
<1>4. caller' \in [Callers -> [pc : Pcs, prio : Prios, taking : SUBSET Ids]]
  BY DEF Decide, Types, Pcs
<1> QED
  BY <1>2, <1>3, <1>4

\* The pool after a thread is created or refused, a policy set, a worker idle again ...
LEMMA PoolSteps ==
  ASSUME IsPool(pool),
         \/ pool' = pool
         \/ pool' = [pool EXCEPT !.refusals = @ + 1]
         \/ pool' = [pool EXCEPT !.accepted = pool.policy]
         \/ pool' = [pool EXCEPT !.refusals = @ + 1, !.policy = pool.accepted]
         \/ pool' = [pool EXCEPT !.policy = pool.accepted, !.refusals = @ + 1]
         \/ pool' = [pool EXCEPT !.idle = @ + 1]
         \/ pool' = [pool EXCEPT !.reserved = @ - 1, !.queued = @]
         \/ pool' = [pool EXCEPT !.reserved = @ - 1, !.queued = @ - 1]
         \/ pool' = [[pool EXCEPT !.reserved = @ - 1, !.queued = @ - 1] EXCEPT !.idle = @ - 1, !.threads = @ - 1]
  PROVE  IsPool(pool')
<1>1. CASE pool' = pool
  BY <1>1 DEF IsPool, Fields
<1>2. CASE pool' = [pool EXCEPT !.refusals = @ + 1]
  BY <1>2 DEF IsPool, Fields
<1>3. CASE pool' = [pool EXCEPT !.accepted = pool.policy]
  BY <1>3 DEF IsPool, Fields
<1>4. CASE pool' = [pool EXCEPT !.refusals = @ + 1, !.policy = pool.accepted]
  BY <1>4 DEF IsPool, Fields
<1>5. CASE pool' = [pool EXCEPT !.policy = pool.accepted, !.refusals = @ + 1]
  BY <1>5 DEF IsPool, Fields
<1>6. CASE pool' = [pool EXCEPT !.idle = @ + 1]
  BY <1>6 DEF IsPool, Fields
<1>7. CASE pool' = [pool EXCEPT !.reserved = @ - 1, !.queued = @]
  BY <1>7 DEF IsPool, Fields
<1>8. CASE pool' = [pool EXCEPT !.reserved = @ - 1, !.queued = @ - 1]
  BY <1>8 DEF IsPool, Fields
<1>9. CASE pool' = [[pool EXCEPT !.reserved = @ - 1, !.queued = @ - 1] EXCEPT !.idle = @ - 1, !.threads = @ - 1]
  BY <1>9 DEF IsPool, Fields
<1> QED
  BY <1>1, <1>2, <1>3, <1>4, <1>5, <1>6, <1>7, <1>8, <1>9

\* A caller that moves, and what it took with it.
LEMMA CallerMoves ==
  ASSUME Types, NEW c \in Callers, NEW at \in Pcs, NEW took \in SUBSET Ids,
         caller' = [caller EXCEPT ![c].pc = at, ![c].taking = took]
  PROVE  /\ caller' \in [Callers -> [pc : Pcs, prio : Prios, taking : SUBSET Ids]]
         /\ caller'[c].pc = at /\ caller'[c].taking = took /\ \A d \in Callers \ {c} : caller'[d] = caller[d]
<1>1. caller' \in [Callers -> [pc : Pcs, prio : Prios, taking : SUBSET Ids]]
  BY DEF Types
<1>2. caller'[c] = [caller[c] EXCEPT !.pc = at, !.taking = took] /\ \A d \in Callers \ {c} : caller'[d] = caller[d]
  BY DEF Types
<1> QED
  BY <1>1, <1>2 DEF Types

LEMMA CallTypes ==
  ASSUME Types, NEW c \in Callers, PoolCallStep(c) \/ \E p \in Priorities : Execute(c, p)
  PROVE  Types'
<1> USE DEF Types
<1>0. pool.policy \in AllPolicies /\ pool.accepted \in AllPolicies
  BY DEF IsPool
<1>1. CASE \E p \in Priorities : Execute(c, p)
  <2>1. PICK p \in Priorities : Execute(c, p)
    BY <1>1
  <2>2. p \in Prios /\ IsPool([pool EXCEPT !.queued = @ + 1, !.tasks = @ + 1])
    BY DEF Prios, IsPool, Fields
  <2> QED BY <2>1, <2>2, DecideTypes DEF Execute
<1>2. CASE DecideAgain(c)
  <2>1. caller[c].prio \in Prios
    OBVIOUS
  <2> QED BY <1>2, <2>1, DecideTypes DEF DecideAgain
<1>3. CASE joinDepartedThreads(c)
  <2>1. caller' \in [Callers -> [pc : Pcs, prio : Prios, taking : SUBSET Ids]]
    <3>1. caller' = [caller EXCEPT ![c].pc = "create", ![c].taking = departed] /\ "create" \in Pcs
      BY <1>3 DEF joinDepartedThreads, Pcs
    <3> QED BY <3>1, CallerMoves
  <2> QED BY <1>3, <2>1 DEF joinDepartedThreads
<1>4. CASE CreateWorker(c)
  <2> DEFINE Joined == [w \in Ids |-> IF w \in caller[c].taking THEN "none" ELSE thr[w]]
  <2>1. Joined \in [Ids -> ThreadStates]
    BY DEF ThreadStates
  <2> HIDE DEF Joined
  <2>2. /\ listLock' = Free /\ jobs' = jobs /\ departed' = departed /\ ending' = ending
        /\ \/ /\ pool' = [pool EXCEPT !.refusals = @ + 1]
              /\ thr' = Joined /\ members' = members \ caller[c].taking /\ runs' = runs
              /\ caller' = [caller EXCEPT ![c].pc = "refused", ![c].taking = {}]
           \/ \E new \in Ids :
              /\ thr' = [Joined EXCEPT ![new] = "born"] /\ members' = (members \ caller[c].taking) \cup {new}
              /\ \/ /\ pool' = [pool EXCEPT !.accepted = pool.policy]
                    /\ runs' = [runs EXCEPT ![new].policy = pool.policy]
                    /\ caller' = [caller EXCEPT ![c].pc = "created", ![c].taking = {}]
                 \/ /\ pool' = [pool EXCEPT !.refusals = @ + 1, !.policy = pool.accepted]
                    /\ runs' = [runs EXCEPT ![new].policy = pool.accepted]
                    /\ caller' = [caller EXCEPT ![c].pc = "unset", ![c].taking = {}]
    BY <1>4 DEF CreateWorker, Joined
  <2>3. IsPool(pool')
    <3>1. \/ pool' = [pool EXCEPT !.refusals = @ + 1]
          \/ pool' = [pool EXCEPT !.accepted = pool.policy]
          \/ pool' = [pool EXCEPT !.refusals = @ + 1, !.policy = pool.accepted]
      BY <2>2
    <3> QED BY <3>1, PoolSteps
  <2>4. thr' \in [Ids -> ThreadStates] /\ members' \in SUBSET Ids
    <3>1. thr' = Joined \/ \E new \in Ids : thr' = [Joined EXCEPT ![new] = "born"]
      BY <2>2
    <3>2. members' \in SUBSET Ids
      BY <2>2
    <3> QED BY <2>1, <3>1, <3>2 DEF ThreadStates
  <2>5. caller' \in [Callers -> [pc : Pcs, prio : Prios, taking : SUBSET Ids]]
    <3>1. \E at \in {"refused", "created", "unset"} : caller' = [caller EXCEPT ![c].pc = at, ![c].taking = {}]
      BY <2>2
    <3>2. {"refused", "created", "unset"} \subseteq Pcs /\ {} \in SUBSET Ids
      BY DEF Pcs
    <3> QED BY <3>1, <3>2, CallerMoves
  <2>6. runs' \in [Ids -> [prio : Prios, policy : AllPolicies, last : BOOLEAN]]
    <3>1. runs' = runs \/ \E new \in Ids, q \in AllPolicies : runs' = [runs EXCEPT ![new].policy = q]
      BY <2>2, <1>0
    <3>2. ASSUME NEW new \in Ids, NEW q \in AllPolicies, runs' = [runs EXCEPT ![new].policy = q]
          PROVE  runs' \in [Ids -> [prio : Prios, policy : AllPolicies, last : BOOLEAN]]
      BY <3>2
    <3> QED BY <3>1, <3>2
  <2> QED BY <2>2, <2>3, <2>4, <2>5, <2>6
<1>5. CASE relock(c)
  <2>1. IsPool(pool')
    <3>1. \/ pool' = [pool EXCEPT !.reserved = @ - 1, !.queued = @]
          \/ pool' = [pool EXCEPT !.reserved = @ - 1, !.queued = @ - 1]
          \/ pool' = [[pool EXCEPT !.reserved = @ - 1, !.queued = @ - 1] EXCEPT !.idle = @ - 1, !.threads = @ - 1]
      BY <1>5 DEF relock
    <3> QED BY <3>1, PoolSteps
  <2>2. push(jobs, caller[c].prio) \in Seq(Prios)
    BY Pushed
  <2>3. \A d \in Callers : caller'[d] \in [pc : Pcs, prio : Prios, taking : SUBSET Ids]
    BY <1>5 DEF relock, Pcs, Out, Prios
  <2>4. caller' \in [Callers -> [pc : Pcs, prio : Prios, taking : SUBSET Ids]]
    BY <1>5, <2>3 DEF relock
  <2> QED BY <1>5, <2>1, <2>2, <2>4 DEF relock
<1>6. CASE NotifyOne(c)
  <2>1. caller' \in [Callers -> [pc : Pcs, prio : Prios, taking : SUBSET Ids]]
    BY <1>6 DEF NotifyOne, Pcs, Out, Prios
  <2>2. thr' \in [Ids -> ThreadStates]
    BY <1>6 DEF NotifyOne, ThreadStates
  <2> QED BY <1>6, <2>1, <2>2 DEF NotifyOne
<1>7. CASE updateLiveWorkers(c)
  <2>1. caller' \in [Callers -> [pc : Pcs, prio : Prios, taking : SUBSET Ids]]
    BY <1>7 DEF updateLiveWorkers, Pcs, Out, Prios
  <2>2. IsPool(pool')
    <3>1. \/ pool' = pool \/ pool' = [pool EXCEPT !.accepted = pool.policy]
          \/ pool' = [pool EXCEPT !.policy = pool.accepted, !.refusals = @ + 1]
      BY <1>7 DEF updateLiveWorkers
    <3> QED BY <3>1, PoolSteps
  <2>3. thr' \in [Ids -> ThreadStates]
    BY <1>7 DEF updateLiveWorkers, ThreadStates
  <2>4. runs' \in [Ids -> [prio : Prios, policy : AllPolicies, last : BOOLEAN]]
    <3> DEFINE Policed(set, q) == [v \in Ids |-> IF v \in set THEN [runs[v] EXCEPT !.policy = q] ELSE runs[v]]
    <3>1. \/ runs' = runs
          \/ \E set : runs' = Policed(set, pool.policy)
          \/ \E set : runs' = Policed(set, pool.accepted)
      BY <1>7 DEF updateLiveWorkers
    <3>2. ASSUME NEW set, NEW q \in AllPolicies PROVE Policed(set, q) \in [Ids -> [prio : Prios, policy : AllPolicies, last : BOOLEAN]]
      OBVIOUS
    <3> HIDE DEF Policed
    <3> QED BY <3>1, <3>2, <1>0
  <2> QED BY <1>7, <2>1, <2>2, <2>3, <2>4 DEF updateLiveWorkers
<1> QED
  BY <1>1, <1>2, <1>3, <1>4, <1>5, <1>6, <1>7 DEF PoolCallStep

LEMMA WorkerTypes ==
  ASSUME Types, NEW w \in Ids, PoolWorkerStep(w) \/ FinishTask(w) \/ WaitEnds(w)
  PROVE  Types'
<1> USE DEF Types
<1>1. CASE WorkerStarts(w)
  BY <1>1 DEF WorkerStarts, ThreadStates
<1>2. CASE popTask(w)
  <2>1. IsPool(pool')
    BY <1>2 DEF popTask, IsPool, Fields
  <2>2. Tail(jobs) \in Seq(Prios) /\ Head(jobs) \in Prios
    BY <1>2, HeadTailProperties DEF popTask
  <2> QED BY <1>2, <2>1, <2>2 DEF popTask, ThreadStates
<1>3. CASE WaitForTask(w) \/ WaitEnds(w) \/ FinishTask(w)
  <2>1. IsPool(pool')
    <3>1. pool' = pool \/ pool' = [pool EXCEPT !.idle = @ + 1]
      BY <1>3 DEF WaitForTask, WaitEnds, FinishTask
    <3> QED BY <3>1, PoolSteps
  <2>2. thr' \in [Ids -> ThreadStates]
    BY <1>3 DEF WaitForTask, WaitEnds, FinishTask, ThreadStates
  <2> QED BY <1>3, <2>1, <2>2 DEF WaitForTask, WaitEnds, FinishTask
<1>4. CASE Depart(w)
  <2>1. IsPool(pool') /\ (pool.threads = 1) \in BOOLEAN
    BY <1>4 DEF Depart, IsPool, Fields
  <2>2. runs' \in [Ids -> [prio : Prios, policy : AllPolicies, last : BOOLEAN]]
    <3> DEFINE last == pool.threads = 1
    <3>1. runs' = [runs EXCEPT ![w].last = last] /\ last \in BOOLEAN
      BY <1>4 DEF Depart
    <3> HIDE DEF last
    <3> QED BY <3>1
  <2>3. thr' \in [Ids -> ThreadStates]
    BY <1>4 DEF Depart, ThreadStates
  <2> QED BY <1>4, <2>1, <2>2, <2>3 DEF Depart
<1>5. CASE WorkerEnds(w)
  BY <1>5, EmptySeq DEF WorkerEnds, ThreadStates
<1> QED
  BY <1>1, <1>2, <1>3, <1>4, <1>5 DEF PoolWorkerStep

LEMMA OtherTypes ==
  ASSUME Types,
         \/ \E c \in PoolCallers, p \in Policies : StorePolicy(c, p)
         \/ \E b \in PoolBounds : setThreadBounds(b)
         \/ \E k \in {"shutdown", "destroy"} : RequestShutdown(k)
         \/ Stopping \/ UNCHANGED poolVars
  PROVE  Types'
<1> USE DEF Types
<1>1. CASE \E c \in PoolCallers, p \in Policies : StorePolicy(c, p)
  <2>1. PICK c \in PoolCallers, p \in Policies : StorePolicy(c, p)
    BY <1>1
  <2>2. c \in Callers
    BY Constants
  <2>3. IsPool(pool')
    <3>1. pool' = [pool EXCEPT !.sets = @ + 1, !.policy = p] /\ p \in AllPolicies
      BY <2>1 DEF StorePolicy, AllPolicies
    <3> QED BY <3>1 DEF IsPool, Fields
  <2>4. caller' \in [Callers -> [pc : Pcs, prio : Prios, taking : SUBSET Ids]]
    <3>1. caller' = [caller EXCEPT ![c].pc = "set", ![c].taking = departed] /\ "set" \in Pcs
      BY <2>1 DEF StorePolicy, Pcs
    <3> QED BY <3>1, <2>2, CallerMoves
  <2> QED BY <2>1, <2>2, <2>3, <2>4 DEF StorePolicy
<1>2. CASE \E b \in PoolBounds : setThreadBounds(b)
  <2>1. PICK b \in PoolBounds : setThreadBounds(b)
    BY <1>2
  <2>2. b[1] \in Int /\ b[2] \in Int
    BY Constants
  <2>3. IsPool(pool')
    <3>1. \E low \in Int, high \in Int :
            pool' = [pool EXCEPT !.sets = @ + 1, !.min = b[1], !.max = b[2], !.low = low, !.high = high]
      BY <2>1, <2>2 DEF setThreadBounds, IsPool
    <3> QED BY <2>2, <3>1 DEF IsPool, Fields
  <2>4. thr' \in [Ids -> ThreadStates]
    BY <2>1 DEF setThreadBounds, ThreadStates
  <2> QED BY <2>1, <2>3, <2>4 DEF setThreadBounds
<1>3. CASE \E k \in {"shutdown", "destroy"} : RequestShutdown(k)
  <2>1. IsPool(pool')
    BY <1>3 DEF RequestShutdown, IsPool, Fields
  <2>2. ending' \in [pc : {"open", "wake", "take", "join", "joined"}, kind : {"none", "shutdown", "destroy"}, joining : SUBSET Ids]
    BY <1>3 DEF RequestShutdown
  <2>3. thr' = thr /\ runs' = runs /\ caller' = caller /\ jobs' = jobs /\ members' = members /\ departed' = departed /\ listLock' = listLock
    BY <1>3 DEF RequestShutdown
  <2> QED BY <2>1, <2>2, <2>3
<1>4. CASE wakeAllWorkers
  BY <1>4 DEF wakeAllWorkers, ThreadStates
<1>5. CASE TakeThreads
  BY <1>5 DEF TakeThreads
<1>6. CASE JoinThreads
  BY <1>6 DEF JoinThreads, ThreadStates
<1>7. CASE UNCHANGED poolVars
  BY <1>7 DEF poolVars
<1> QED
  BY <1>1, <1>2, <1>3, <1>4, <1>5, <1>6, <1>7 DEF Stopping

-----------------------------------------------------------------------------
(* The counters are kept. *)

PoolInts(p) ==
  /\ p.queued \in Int /\ p.idle \in Int /\ p.reserved \in Int /\ p.threads \in Int
  /\ p.min \in Int /\ p.max \in Int /\ p.low \in Int /\ p.high \in Int

\* A caller without its worker holds the reservation of it.
LEMMA NextNat ==
  /\ N(Blocked)' >= 0 /\ N(Unmade)' >= 0 /\ N({"notify"})' >= 0 /\ N(Unmade)' <= N(Reserving)'
  /\ W(Awake)' >= 0 /\ W(Idle)' >= 0
<1>1. \A S : InPc(S)' \in SUBSET Callers
  BY DEF InPc
<1>2. \A S : IsFiniteSet(InPc(S)') /\ N(S)' \in Nat
  BY <1>1, Finite, FS_Subset, FS_CardinalityType DEF N
<1>3. InPc(Unmade)' \in SUBSET InPc(Reserving)'
  BY DEF InPc, Unmade, Reserving
<1>4. Cardinality(InPc(Unmade)') <= Cardinality(InPc(Reserving)')
  BY <1>2, <1>3, FS_Subset
<1>5. \A T : InThr(T)' \in SUBSET Ids
  BY DEF InThr
<1>6. \A T : W(T)' \in Nat
  BY <1>5, PoolAssumption, FS_Subset, FS_CardinalityType DEF W
<1> QED
  BY <1>2, <1>4, <1>6 DEF N

LEMMA Numbers ==
  ASSUME Types
  PROVE  /\ PoolInts(pool) /\ Len(jobs) \in Int
         /\ N(Reserving) \in Int /\ N(Unmade) \in Int /\ N(Blocked) \in Int /\ N({"notify"}) \in Int
         /\ W(Idle) \in Int /\ W(Awake) \in Int /\ W({"running"}) \in Int
<1>1. PoolInts(pool) /\ Len(jobs) \in Int
  BY LenProperties DEF Types, IsPool, PoolInts
<1> QED
  BY <1>1, Finite

LEMMA NextNumbers ==
  ASSUME Types'
  PROVE  /\ PoolInts(pool') /\ Len(jobs)' \in Int
         /\ N(Reserving)' \in Int /\ N(Unmade)' \in Int /\ N(Blocked)' \in Int /\ N({"notify"})' \in Int
         /\ W(Idle)' \in Int /\ W(Awake)' \in Int /\ W({"running"})' \in Int
<1>1. \A S : InPc(S)' \in SUBSET Callers
  BY DEF InPc
<1>2. \A T : InThr(T)' \in SUBSET Ids
  BY DEF InThr
<1>3. \A S : N(S)' \in Nat
  BY <1>1, Finite, FS_Subset, FS_CardinalityType DEF N
<1>4. \A T : W(T)' \in Nat
  BY <1>2, PoolAssumption, FS_Subset, FS_CardinalityType DEF W
<1>5. PoolInts(pool') /\ Len(jobs)' \in Int
  BY LenProperties DEF Types, IsPool, PoolInts
<1> QED
  BY <1>3, <1>4, <1>5

\* What a step does to the counters, to the length of the queue and to the callers
\* and threads they count.
Moved(dq, di, dr, dt, dl, dR, dU, dB, dN, dI, dA, dW) ==
  /\ dq \in Int /\ di \in Int /\ dr \in Int /\ dt \in Int /\ dl \in Int
  /\ dR \in Int /\ dU \in Int /\ dB \in Int /\ dN \in Int /\ dI \in Int /\ dA \in Int /\ dW \in Int
  /\ pool'.queued = pool.queued + dq /\ pool'.idle = pool.idle + di
  /\ pool'.reserved = pool.reserved + dr /\ pool'.threads = pool.threads + dt
  /\ Len(jobs)' = Len(jobs) + dl
  /\ N(Reserving)' = N(Reserving) + dR /\ N(Unmade)' = N(Unmade) + dU
  /\ N(Blocked)' = N(Blocked) + dB /\ N({"notify"})' = N({"notify"}) + dN
  /\ W(Idle)' = W(Idle) + dI /\ W(Awake)' = W(Awake) + dA /\ W({"running"})' = W({"running"}) + dW

\* The counters follow when each changes as what it counts does ...
LEMMA CountersKept ==
  ASSUME Types, Types', Counters, NEW dq, NEW di, NEW dr, NEW dt, NEW dl, NEW dR, NEW dU, NEW dB, NEW dN, NEW dI, NEW dA, NEW dW,
         Moved(dq, di, dr, dt, dl, dR, dU, dB, dN, dI, dA, dW),
         dr = dR, di = dI + dU, dt = di + dW, dq >= dl + dR + dB
  PROVE  Counters'
<1> DEFINE q == pool.queued   i == pool.idle   r == pool.reserved   t == pool.threads   l == Len(jobs)
           nR == N(Reserving)   nU == N(Unmade)   nB == N(Blocked)   wI == W(Idle)   wR == W({"running"})
<1>1. /\ q \in Int /\ l \in Int /\ nB \in Int /\ nR \in Int /\ r \in Int /\ i \in Int /\ t \in Int
      /\ nU \in Int /\ wI \in Int /\ wR \in Int
  BY Numbers DEF PoolInts
<1>2. q >= l + nR + nB /\ r = nR /\ i = wI + nU /\ t = i + wR
  BY DEF Counters
<1>3. /\ pool'.queued = q + dq /\ pool'.idle = i + di /\ pool'.reserved = r + dr /\ pool'.threads = t + dt
      /\ Len(jobs)' = l + dl /\ N(Reserving)' = nR + dR /\ N(Unmade)' = nU + dU /\ N(Blocked)' = nB + dB
      /\ W(Idle)' = wI + dI /\ W({"running"})' = wR + dW
      /\ dq \in Int /\ di \in Int /\ dr \in Int /\ dt \in Int /\ dl \in Int
      /\ dR \in Int /\ dU \in Int /\ dB \in Int /\ dI \in Int /\ dW \in Int
  BY DEF Moved
<1> HIDE DEF q, i, r, t, l, nR, nU, nB, wI, wR
<1>4. r + dr = nR + dR /\ i + di = (wI + dI) + (nU + dU) /\ t + dt = (i + di) + (wR + dW)
  BY <1>1, <1>2, <1>3
<1>5. q + dq >= (l + dl) + (nR + dR) + (nB + dB)
  BY <1>1, <1>2, <1>3
<1> QED
  BY <1>3, <1>4, <1>5 DEF Counters

\* ... the bounds while they stay as they are and no thread is added ...
LEMMA BoundsKept ==
  ASSUME Types, Types', Bounds, pool'.low = pool.low, pool'.max = pool.max, pool'.high = pool.high,
         pool'.threads <= pool.threads
  PROVE  Bounds'
BY Numbers, NextNumbers DEF Bounds, PoolInts

\* ... the cover when neither of its two sides loses ...
LEMMA CoveredKept ==
  ASSUME Types, Types', Covered, NEW dq, NEW di, NEW dr, NEW dt, NEW dl, NEW dR, NEW dU, NEW dB, NEW dN, NEW dI, NEW dA, NEW dW,
         Moved(dq, di, dr, dt, dl, dR, dU, dB, dN, dI, dA, dW), di + dB >= dq, dt >= dU,
         ~pool'.shutdown => ~pool.shutdown, pool'.low <= pool.low
  PROVE  Covered'
<1> DEFINE q == pool.queued   i == pool.idle   t == pool.threads   w == pool.low   nB == N(Blocked)   nU == N(Unmade)
           w2 == pool'.low
<1>1. /\ q \in Int /\ i \in Int /\ t \in Int /\ w \in Int /\ nB \in Int /\ nU \in Int /\ w2 \in Int /\ w2 <= w
      /\ dq \in Int /\ di \in Int /\ dt \in Int /\ dB \in Int /\ dU \in Int
  BY Numbers, NextNumbers DEF PoolInts, Moved
<1>2. /\ pool'.queued = q + dq /\ pool'.idle = i + di /\ pool'.threads = t + dt
      /\ N(Blocked)' = nB + dB /\ N(Unmade)' = nU + dU /\ pool'.low = w2
  BY DEF Moved
<1>3. ~pool'.shutdown => i >= q - nB \/ t - nU >= w
  BY DEF Covered
<1> HIDE DEF q, i, t, w, nB, nU, w2
<1>4. (i >= q - nB \/ t - nU >= w) => (i + di >= (q + dq) - (nB + dB) \/ (t + dt) - (nU + dU) >= w2)
  BY <1>1
<1> QED
  BY <1>2, <1>3, <1>4 DEF Covered

\* ... and the workers that sleep while awake and notified ones make up for the tasks.
LEMMA RestedKept ==
  ASSUME Types, Types', Rested, NEW dq, NEW di, NEW dr, NEW dt, NEW dl, NEW dR, NEW dU, NEW dB, NEW dN, NEW dI, NEW dA, NEW dW,
         Moved(dq, di, dr, dt, dl, dR, dU, dB, dN, dI, dA, dW), dA + dN >= dl,
         ~pool'.shutdown => ~pool.shutdown, Waiting' # {} => Waiting # {}
  PROVE  Rested'
<1> DEFINE l == Len(jobs)   a == W(Awake)   n == N({"notify"})
<1>1. l \in Int /\ a \in Int /\ n \in Int /\ dl \in Int /\ dA \in Int /\ dN \in Int
  BY Numbers DEF Moved
<1>2. Len(jobs)' = l + dl /\ W(Awake)' = a + dA /\ N({"notify"})' = n + dN
  BY DEF Moved
<1>3. ~pool'.shutdown /\ Waiting' # {} => a + n >= l
  BY DEF Rested
<1> HIDE DEF l, a, n
<1>4. a + n >= l => (a + dA) + (n + dN) >= l + dl
  BY <1>1
<1> QED
  BY <1>2, <1>3, <1>4 DEF Rested

\* The counts after a step of one caller, from the place it leaves and the one it reaches.
LEMMA OneCaller ==
  ASSUME NEW c \in Callers, \A d \in Callers \ {c} : caller'[d].pc = caller[d].pc
  PROVE  \A S : N(S)' = N(S) + One(caller'[c].pc, S) - One(caller[c].pc, S)
BY CallerCounts

LEMMA NoCaller ==
  ASSUME \A d \in Callers : caller'[d].pc = caller[d].pc
  PROVE  \A S : N(S)' = N(S)
BY SameCallers

\* And of one thread: those that come and go are not counted.
LEMMA OneThread ==
  ASSUME NEW w \in Ids, \A v \in Ids \ {w} : thr'[v] = thr[v] \/ {thr'[v], thr[v]} \subseteq {"none", "leaving", "gone"}
  PROVE  \A T \in {Idle, Awake, {"running"}} : W(T)' = W(T) + One(thr'[w], T) - One(thr[w], T)
BY ThreadCounts DEF Idle, Awake

LEMMA NoThread ==
  ASSUME \A v \in Ids : thr'[v] = thr[v] \/ {thr'[v], thr[v]} \subseteq {"none", "leaving", "gone"}
  PROVE  \A T \in {Idle, Awake, {"running"}} : W(T)' = W(T)
BY SameThreads DEF Idle, Awake

\* p: the counters with the task of the call, which this step counts or an earlier one did.
LEMMA DecideCounts ==
  ASSUME Types, Types', CountersInv, NEW c \in Callers, NEW p, IsPool(p), NEW prio \in Prios, Decide(c, p, prio),
         caller[c].pc \in {"out", "woken"}, p.queued = pool.queued + 1 - One(caller[c].pc, {"woken"}),
         p.idle = pool.idle, p.reserved = pool.reserved, p.threads = pool.threads,
         p.max = pool.max, p.low = pool.low, p.high = pool.high, p.shutdown = pool.shutdown, thr' = thr
  PROVE  CountersInv'
<1> DEFINE a == caller[c].pc
           z == caller'[c].pc
           k == One(a, {"woken"})
<1>1. W(Idle)' = W(Idle) /\ W(Awake)' = W(Awake) /\ W({"running"})' = W({"running"}) /\ Waiting' = Waiting
  BY NoThread DEF Waiting
<1>2. \A S : N(S)' = N(S) + One(z, S) - One(a, S)
  <2>1. \A d \in Callers \ {c} : caller'[d].pc = caller[d].pc
    BY DEF Decide, Types
  <2> QED BY <2>1, OneCaller
<1>3. /\ One(a, Reserving) = 0 /\ One(a, Unmade) = 0 /\ One(a, {"notify"}) = 0 /\ One(a, Blocked) = k
      /\ (k = 0 \/ k = 1) /\ k \in Int
  BY DEF Types, One, Reserving, Unmade, Blocked
<1>4. Len(jobs)' = Len(jobs') /\ Len(push(jobs, prio)) = Len(jobs) + 1
  BY Pushed DEF Types
<1>5. PoolInts(p) /\ p.queued = pool.queued + 1 - k
  BY DEF IsPool, PoolInts
<1> DEFINE sleeps == p.reserved > 0 /\ p.idle < p.queued /\ p.threads >= p.max
           adds == p.idle < p.queued /\ p.threads < p.max
<1>6. /\ sleeps => z = "sleep" /\ jobs' = jobs /\ pool' = p
      /\ adds => z = "reserve" /\ jobs' = jobs /\ pool' = [p EXCEPT !.threads = @ + 1, !.idle = @ + 1, !.reserved = @ + 1]
      /\ ~sleeps /\ ~adds => z = "notify" /\ jobs' = push(jobs, prio) /\ pool' = p
  <2>1. sleeps => ~adds
    BY <1>5 DEF PoolInts
  <2> QED BY <2>1 DEF Decide, Types, lacksIdleWorker
<1> HIDE DEF a, z, k
<1>7. CASE sleeps
  <2>1. /\ One(z, Reserving) = 0 /\ One(z, Unmade) = 0 /\ One(z, {"notify"}) = 0 /\ One(z, Blocked) = 1
    BY <1>6, <1>7 DEF One, Reserving, Unmade, Blocked
  <2>2. /\ N(Reserving)' = N(Reserving) + 0 /\ N(Unmade)' = N(Unmade) + 0 /\ N({"notify"})' = N({"notify"}) + 0
        /\ N(Blocked)' = N(Blocked) + (1 - k)
    BY <1>2, <1>3, <2>1, Numbers
  <2>3. Moved(1 - k, 0, 0, 0, 0, 0, 0, 1 - k, 0, 0, 0, 0)
    <3>1. /\ pool'.queued = pool.queued + (1 - k) /\ pool'.idle = pool.idle + 0
          /\ pool'.reserved = pool.reserved + 0 /\ pool'.threads = pool.threads + 0
      BY <1>3, <1>5, <1>6, <1>7, Numbers DEF PoolInts
    <3>2. Len(jobs)' = Len(jobs) + 0
      BY <1>4, <1>6, <1>7, Numbers
    <3>3. W(Idle)' = W(Idle) + 0 /\ W(Awake)' = W(Awake) + 0 /\ W({"running"})' = W({"running"}) + 0
      BY <1>1, Numbers
    <3> QED BY <1>3, <2>2, <3>1, <3>2, <3>3 DEF Moved
  <2>4. Counters'
    <3>1. 0 = 0 + 0 /\ 1 - k >= 0 + 0 + (1 - k)
      BY <1>3
    <3> QED BY <2>3, <3>1, CountersKept DEF CountersInv
  <2>5. Covered'
    BY <1>3, <1>6, <1>7, <2>3, CoveredKept, Numbers DEF CountersInv, PoolInts
  <2>6. Rested'
    BY <1>1, <1>6, <1>7, <2>3, RestedKept DEF CountersInv
  <2>7. Bounds'
    BY <1>5, <1>6, <1>7, BoundsKept DEF CountersInv, PoolInts
  <2> QED BY <2>4, <2>5, <2>6, <2>7 DEF CountersInv
<1>8. CASE adds
  <2>1. /\ One(z, Reserving) = 1 /\ One(z, Unmade) = 1 /\ One(z, {"notify"}) = 0 /\ One(z, Blocked) = 0
    BY <1>6, <1>8 DEF One, Reserving, Unmade, Blocked
  <2>2. /\ N(Reserving)' = N(Reserving) + 1 /\ N(Unmade)' = N(Unmade) + 1 /\ N({"notify"})' = N({"notify"}) + 0
        /\ N(Blocked)' = N(Blocked) + (0 - k)
    BY <1>2, <1>3, <2>1, Numbers
  <2>3. /\ pool'.threads = p.threads + 1 /\ pool'.idle = p.idle + 1 /\ pool'.reserved = p.reserved + 1
        /\ pool'.queued = p.queued /\ pool'.low = p.low /\ pool'.max = p.max /\ pool'.high = p.high
        /\ pool'.shutdown = p.shutdown
    BY <1>6, <1>8 DEF IsPool, Fields
  <2>4. Moved(1 - k, 1, 1, 1, 0, 1, 1, 0 - k, 0, 0, 0, 0)
    <3>1. /\ pool'.queued = pool.queued + (1 - k) /\ pool'.idle = pool.idle + 1
          /\ pool'.reserved = pool.reserved + 1 /\ pool'.threads = pool.threads + 1
      BY <1>3, <1>5, <2>3, Numbers DEF PoolInts
    <3>2. Len(jobs)' = Len(jobs) + 0
      BY <1>4, <1>6, <1>8, Numbers
    <3>3. W(Idle)' = W(Idle) + 0 /\ W(Awake)' = W(Awake) + 0 /\ W({"running"})' = W({"running"}) + 0
      BY <1>1, Numbers
    <3> QED BY <1>3, <2>2, <3>1, <3>2, <3>3 DEF Moved
  <2>5. Counters'
    <3>1. 1 = 0 + 1 /\ 1 = 1 + 0 /\ 1 - k >= 0 + 1 + (0 - k)
      BY <1>3
    <3> QED BY <2>4, <3>1, CountersKept DEF CountersInv
  <2>6. Covered'
    BY <1>3, <2>3, <2>4, CoveredKept, Numbers DEF CountersInv, PoolInts
  <2>7. Rested'
    BY <1>1, <1>3, <2>3, <2>4, RestedKept DEF CountersInv
  <2>8. Bounds'
    BY <1>5, <1>8, <2>3 DEF CountersInv, Bounds, PoolInts
  <2> QED BY <2>5, <2>6, <2>7, <2>8 DEF CountersInv
<1>9. CASE ~sleeps /\ ~adds
  <2>1. /\ One(z, Reserving) = 0 /\ One(z, Unmade) = 0 /\ One(z, {"notify"}) = 1 /\ One(z, Blocked) = 0
    BY <1>6, <1>9 DEF One, Reserving, Unmade, Blocked
  <2>2. /\ N(Reserving)' = N(Reserving) + 0 /\ N(Unmade)' = N(Unmade) + 0 /\ N({"notify"})' = N({"notify"}) + 1
        /\ N(Blocked)' = N(Blocked) + (0 - k)
    BY <1>2, <1>3, <2>1, Numbers
  <2>3. Moved(1 - k, 0, 0, 0, 1, 0, 0, 0 - k, 1, 0, 0, 0)
    <3>1. /\ pool'.queued = pool.queued + (1 - k) /\ pool'.idle = pool.idle + 0
          /\ pool'.reserved = pool.reserved + 0 /\ pool'.threads = pool.threads + 0
      BY <1>3, <1>5, <1>6, <1>9, Numbers DEF PoolInts
    <3>2. Len(jobs)' = Len(jobs) + 1
      BY <1>4, <1>6, <1>9, Numbers
    <3>3. W(Idle)' = W(Idle) + 0 /\ W(Awake)' = W(Awake) + 0 /\ W({"running"})' = W({"running"}) + 0
      BY <1>1, Numbers
    <3> QED BY <1>3, <2>2, <3>1, <3>2, <3>3 DEF Moved
  <2>4. Counters'
    <3>1. 0 = 0 + 0 /\ 1 - k >= 1 + 0 + (0 - k)
      BY <1>3
    <3> QED BY <2>3, <3>1, CountersKept DEF CountersInv
  <2>5. Covered'
    <3>1. p.idle >= p.queued \/ (p.threads >= p.max /\ p.reserved <= 0)
      BY <1>5, <1>9 DEF PoolInts
    <3>2. pool' = p /\ N(Reserving)' = pool'.reserved
      BY <1>6, <1>9, <2>4 DEF Counters
    <3>3. pool'.low <= pool'.max
      BY <3>2 DEF CountersInv, Bounds
    <3>4. N(Blocked)' >= 0 /\ N(Unmade)' <= N(Reserving)'
      BY NextNat
    <3> QED BY <3>1, <3>2, <3>3, <3>4, <1>5, NextNumbers DEF Covered, PoolInts
  <2>6. Rested'
    BY <1>1, <1>6, <1>9, <2>3, RestedKept DEF CountersInv
  <2>7. Bounds'
    BY <1>5, <1>6, <1>9, BoundsKept DEF CountersInv, PoolInts
  <2> QED BY <2>4, <2>5, <2>6, <2>7 DEF CountersInv
<1> QED
  BY <1>7, <1>8, <1>9

\* A step that moves the counters with what they count keeps all of it.
LEMMA AllKept ==
  ASSUME Types, Types', CountersInv, NEW dq, NEW di, NEW dr, NEW dt, NEW dl, NEW dR, NEW dU, NEW dB, NEW dN, NEW dI, NEW dA, NEW dW,
         Moved(dq, di, dr, dt, dl, dR, dU, dB, dN, dI, dA, dW),
         dr = dR, di = dI + dU, dt = di + dW, dq >= dl + dR + dB, di + dB >= dq, dt >= dU, dA + dN >= dl, dt <= 0,
         ~pool'.shutdown => ~pool.shutdown, pool'.low = pool.low, pool'.max = pool.max, pool'.high = pool.high,
         Waiting' # {} => Waiting # {}
  PROVE  CountersInv'
<1>1. Counters'
  BY CountersKept DEF CountersInv
<1>2. pool'.threads <= pool.threads /\ pool'.low <= pool.low
  <2> DEFINE t == pool.threads
  <2>1. t \in Int /\ dt \in Int /\ pool'.threads = t + dt /\ pool.low \in Int
    BY Numbers DEF Moved, PoolInts
  <2> HIDE DEF t
  <2>2. t + dt <= t
    BY <2>1
  <2> QED BY <2>1, <2>2 DEF t
<1>3. Bounds'
  BY <1>2, BoundsKept DEF CountersInv
<1>4. Covered'
  BY <1>2, CoveredKept DEF CountersInv
<1>5. Rested'
  BY RestedKept DEF CountersInv
<1> QED
  BY <1>1, <1>3, <1>4, <1>5 DEF CountersInv

\* The fields of the pool a step leaves alone, and those it adds to.
PoolMoves(dq, di, dr, dt) ==
  /\ pool'.queued = pool.queued + dq /\ pool'.idle = pool.idle + di
  /\ pool'.reserved = pool.reserved + dr /\ pool'.threads = pool.threads + dt
SameBounds == pool'.low = pool.low /\ pool'.max = pool.max /\ pool'.high = pool.high
CallsMove(dR, dU, dB, dN) ==
  /\ N(Reserving)' = N(Reserving) + dR /\ N(Unmade)' = N(Unmade) + dU
  /\ N(Blocked)' = N(Blocked) + dB /\ N({"notify"})' = N({"notify"}) + dN
ThreadsMove(dI, dA, dW) ==
  W(Idle)' = W(Idle) + dI /\ W(Awake)' = W(Awake) + dA /\ W({"running"})' = W({"running"}) + dW

\* A caller that moves between two places that count alike, and one that does not move.
LEMMA CallsStay ==
  ASSUME Types, \/ \A d \in Callers : caller'[d].pc = caller[d].pc
                \/ \E c \in Callers : /\ \A d \in Callers \ {c} : caller'[d].pc = caller[d].pc
                                      /\ \A S \in {Reserving, Unmade, Blocked, {"notify"}} : caller'[c].pc \in S <=> caller[c].pc \in S
  PROVE  CallsMove(0, 0, 0, 0)
<1>1. \A S \in {Reserving, Unmade, Blocked, {"notify"}} : \A d \in Callers : caller'[d].pc \in S <=> caller[d].pc \in S
  OBVIOUS
<1>2. \A S \in {Reserving, Unmade, Blocked, {"notify"}} : N(S)' = N(S)
  BY <1>1, SameCallers
<1> QED
  BY <1>2, Numbers DEF CallsMove

LEMMA ThreadsStay ==
  ASSUME Types, \A v \in Ids : thr'[v] = thr[v] \/ {thr'[v], thr[v]} \subseteq {"none", "leaving", "gone"}
  PROVE  ThreadsMove(0, 0, 0) /\ Waiting' = Waiting
<1>1. Waiting' = Waiting
  BY DEF Waiting
<1> QED
  BY <1>1, NoThread, Numbers DEF ThreadsMove

LEMMA PoolStays ==
  ASSUME Types, pool'.queued = pool.queued, pool'.idle = pool.idle, pool'.reserved = pool.reserved, pool'.threads = pool.threads
  PROVE  PoolMoves(0, 0, 0, 0)
BY Numbers DEF PoolMoves, PoolInts

\* A step that moves none of them.
LEMMA NothingMoves ==
  ASSUME Types, Types', CountersInv, PoolMoves(0, 0, 0, 0), SameBounds, ~pool'.shutdown => ~pool.shutdown, jobs' = jobs,
         CallsMove(0, 0, 0, 0), ThreadsMove(0, 0, 0), Waiting' = Waiting
  PROVE  CountersInv'
<1>1. Len(jobs)' = Len(jobs) + 0
  BY Numbers
<1>2. Moved(0, 0, 0, 0, 0, 0, 0, 0, 0, 0, 0, 0)
  BY <1>1 DEF Moved, PoolMoves, CallsMove, ThreadsMove
<1>3. 0 = 0 + 0 /\ 0 >= 0 + 0 + 0 /\ 0 + 0 >= 0 /\ 0 >= 0 /\ 0 <= 0
  OBVIOUS
<1> QED
  BY <1>2, <1>3, AllKept DEF SameBounds

LEMMA CallCounts ==
  ASSUME Types, Types', CountersInv, NEW c \in Callers, PoolCallStep(c) \/ \E p \in Priorities : Execute(c, p)
  PROVE  CountersInv'
<1>0. IsPool(pool)
  BY DEF Types
<1>1. CASE \E p \in Priorities : Execute(c, p)
  <2>1. PICK p \in Priorities : Execute(c, p)
    BY <1>1
  <2> DEFINE tasked == [pool EXCEPT !.queued = @ + 1, !.tasks = @ + 1]
  <2>2. /\ IsPool(tasked) /\ tasked.queued = pool.queued + 1
        /\ tasked.idle = pool.idle /\ tasked.reserved = pool.reserved /\ tasked.threads = pool.threads
        /\ tasked.max = pool.max /\ tasked.low = pool.low /\ tasked.high = pool.high /\ tasked.shutdown = pool.shutdown
    BY <1>0 DEF IsPool, Fields
  <2>3. p \in Prios /\ caller[c].pc = "out" /\ Decide(c, tasked, p) /\ thr' = thr
    BY <2>1 DEF Execute, Prios
  <2>4. tasked.queued = pool.queued + 1 - One(caller[c].pc, {"woken"})
    BY <2>2, <2>3, Numbers DEF One, PoolInts
  <2> HIDE DEF tasked
  <2> QED BY <2>2, <2>3, <2>4, DecideCounts
<1>2. CASE DecideAgain(c)
  <2>1. caller[c].pc = "woken" /\ caller[c].prio \in Prios /\ Decide(c, pool, caller[c].prio) /\ thr' = thr
    BY <1>2 DEF DecideAgain, Types
  <2>2. pool.queued = pool.queued + 1 - One(caller[c].pc, {"woken"})
    BY <2>1, Numbers DEF One, PoolInts
  <2> QED BY <1>0, <2>1, <2>2, DecideCounts
<1>3. CASE joinDepartedThreads(c)
  <2>1. CallsMove(0, 0, 0, 0)
    <3>1. /\ \A d \in Callers \ {c} : caller'[d].pc = caller[d].pc
          /\ caller[c].pc = "reserve" /\ caller'[c].pc = "create"
      BY <1>3 DEF joinDepartedThreads, Types
    <3>2. \A S \in {Reserving, Unmade, Blocked, {"notify"}} : caller'[c].pc \in S <=> caller[c].pc \in S
      BY <3>1 DEF Reserving, Unmade, Blocked
    <3> QED BY <3>1, <3>2, CallsStay
  <2>2. thr' = thr /\ jobs' = jobs /\ pool' = pool
    BY <1>3 DEF joinDepartedThreads
  <2>3. PoolMoves(0, 0, 0, 0) /\ ThreadsMove(0, 0, 0) /\ Waiting' = Waiting /\ SameBounds
    BY <2>2, PoolStays, ThreadsStay DEF SameBounds
  <2> QED BY <2>1, <2>2, <2>3, NothingMoves
<1>4. CASE CreateWorker(c)
  <2> DEFINE Joined == [w \in Ids |-> IF w \in caller[c].taking THEN "none" ELSE thr[w]]
             refuses == /\ pool' = [pool EXCEPT !.refusals = @ + 1] /\ thr' = Joined
                        /\ caller' = [caller EXCEPT ![c].pc = "refused", ![c].taking = {}]
             creates(new) == /\ thr' = [Joined EXCEPT ![new] = "born"] /\ thr[new] = "none"
                             /\ \/ /\ pool' = [pool EXCEPT !.accepted = pool.policy]
                                   /\ caller' = [caller EXCEPT ![c].pc = "created", ![c].taking = {}]
                                \/ /\ pool' = [pool EXCEPT !.refusals = @ + 1, !.policy = pool.accepted]
                                   /\ caller' = [caller EXCEPT ![c].pc = "unset", ![c].taking = {}]
  <2>1. caller[c].pc = "create" /\ jobs' = jobs /\ (\A w \in caller[c].taking : thr[w] = "gone") /\ (refuses \/ \E new \in Ids : creates(new))
    BY <1>4 DEF CreateWorker
  <2>2. /\ pool'.queued = pool.queued /\ pool'.idle = pool.idle /\ pool'.reserved = pool.reserved /\ pool'.threads = pool.threads
        /\ pool'.low = pool.low /\ pool'.max = pool.max /\ pool'.high = pool.high /\ pool'.shutdown = pool.shutdown
    <3>1. \/ pool' = [pool EXCEPT !.refusals = @ + 1] \/ pool' = [pool EXCEPT !.accepted = pool.policy]
          \/ pool' = [pool EXCEPT !.refusals = @ + 1, !.policy = pool.accepted]
      BY <2>1
    <3> QED BY <1>0, <3>1 DEF IsPool, Fields
  <2>3. /\ \A d \in Callers \ {c} : caller'[d].pc = caller[d].pc
        /\ \/ refuses /\ caller'[c].pc = "refused"
           \/ (\E new \in Ids : creates(new)) /\ caller'[c].pc \in {"created", "unset"}
    <3>1. \A x \in {"refused", "created", "unset"} : caller' = [caller EXCEPT ![c].pc = x, ![c].taking = {}] =>
             caller'[c].pc = x /\ \A d \in Callers \ {c} : caller'[d].pc = caller[d].pc
      BY DEF Types
    <3> HIDE DEF Joined
    <3> QED BY <2>1, <3>1
  <2>4. CASE refuses /\ caller'[c].pc = "refused"
    <3>1. CallsMove(0, 0, 0, 0)
      <4>1. \A S \in {Reserving, Unmade, Blocked, {"notify"}} : caller'[c].pc \in S <=> caller[c].pc \in S
        BY <2>1, <2>4 DEF Reserving, Unmade, Blocked
      <4> QED BY <2>3, <4>1, CallsStay
    <3>2. ThreadsMove(0, 0, 0) /\ Waiting' = Waiting
      <4>1. \A v \in Ids : thr'[v] = thr[v] \/ {thr'[v], thr[v]} \subseteq {"none", "leaving", "gone"}
        BY <2>1, <2>4
      <4> QED BY <4>1, ThreadsStay
    <3> QED BY <2>1, <2>2, <3>1, <3>2, PoolStays, NothingMoves DEF SameBounds
  <2>5. ASSUME NEW new \in Ids, creates(new), caller'[c].pc \in {"created", "unset"} PROVE CountersInv'
    <3>1. PoolMoves(0, 0, 0, 0) /\ SameBounds /\ (~pool'.shutdown => ~pool.shutdown)
      BY <2>2, PoolStays DEF SameBounds
    <3>2. Len(jobs)' = Len(jobs) + 0
      BY <2>1, Numbers
    <3>3. CallsMove(0, 0 - 1, 0, 0)
      <4>1. \A S : N(S)' = N(S) + One(caller'[c].pc, S) - One(caller[c].pc, S)
        BY <2>3, OneCaller
      <4> QED BY <2>1, <2>5, <4>1, Numbers DEF CallsMove, One, Reserving, Unmade, Blocked
    <3>4. ThreadsMove(1, 1, 0) /\ Waiting' = Waiting
      <4>1. thr'[new] = "born" /\ \A v \in Ids \ {new} : thr'[v] = thr[v] \/ {thr'[v], thr[v]} \subseteq {"none", "leaving", "gone"}
        BY <2>1, <2>5 DEF Types
      <4>2. \A T \in {Idle, Awake, {"running"}} : W(T)' = W(T) + One(thr'[new], T) - One(thr[new], T)
        BY <4>1, OneThread
      <4>3. Waiting' = Waiting
        BY <2>5, <4>1 DEF Waiting
      <4> QED BY <2>5, <4>1, <4>2, <4>3, Numbers DEF ThreadsMove, One, Idle, Awake
      <3>5. Moved(0, 0, 0, 0, 0, 0, 0 - 1, 0, 0, 1, 1, 0)
        BY <3>1, <3>2, <3>3, <3>4 DEF Moved, PoolMoves, CallsMove, ThreadsMove
      <3>6. /\ 0 = 0 /\ 0 = 1 + (0 - 1) /\ 0 = 0 + 0 /\ 0 >= 0 + 0 + 0
           /\ 0 + 0 >= 0 /\ 0 >= (0 - 1) /\ 1 + 0 >= 0 /\ 0 <= 0
        OBVIOUS
      <3> QED BY <3>1, <3>4, <3>5, <3>6, AllKept DEF SameBounds
  <2> QED BY <2>3, <2>4, <2>5
<1>5. CASE relock(c)
  <2>1. \A S \in {Reserving, Unmade, Blocked, {"notify"}} : N(S)' = N(S) + One(caller'[c].pc, S) - One(caller[c].pc, S)
    <3>1. \A d \in Callers \ {c} : caller'[d].pc = caller[d].pc \/ {caller'[d].pc, caller[d].pc} \subseteq Blocked
      BY <1>5 DEF relock, Types, Blocked
    <3>2. \A S \in {Reserving, Unmade, Blocked, {"notify"}} : \A d \in Callers \ {c} : caller'[d].pc \in S <=> caller[d].pc \in S
      BY <3>1 DEF Reserving, Unmade, Blocked
    <3> QED BY <3>2, CallerCounts
  <2>2. thr' = thr /\ caller[c].pc \in {"created", "refused", "unset"}
    BY <1>5 DEF relock
  <2>3. Len(push(jobs, caller[c].prio)) = Len(jobs) + 1
    BY Pushed DEF Types
  <2>4. CASE caller[c].pc = "created"
    <3>1. PoolMoves(0, 0, 0 - 1, 0) /\ SameBounds /\ (~pool'.shutdown => ~pool.shutdown)
      BY <1>0, <1>5, <2>4, Numbers DEF relock, IsPool, Fields, PoolMoves, SameBounds, PoolInts
    <3>2. Len(jobs)' = Len(jobs) + 1
      <4>1. Len(jobs)' = Len(jobs')
        OBVIOUS
      <4> QED BY <1>5, <2>4, <2>3, <4>1, Numbers DEF relock
    <3>3. CallsMove(0 - 1, 0, 0, 1)
      <4>1. caller'[c].pc = "notify"
        BY <1>5, <2>4 DEF relock, Types, Out
      <4> QED BY <2>1, <2>4, <4>1, Numbers DEF CallsMove, One, Reserving, Unmade, Blocked
    <3>4. ThreadsMove(0, 0, 0) /\ Waiting' = Waiting
      BY <2>2, ThreadsStay
      <3>5. Moved(0, 0, 0 - 1, 0, 1, 0 - 1, 0, 0, 1, 0, 0, 0)
        BY <3>1, <3>2, <3>3, <3>4 DEF Moved, PoolMoves, CallsMove, ThreadsMove
      <3>6. /\ (0 - 1) = (0 - 1) /\ 0 = 0 + 0 /\ 0 = 0 + 0 /\ 0 >= 1 + (0 - 1) + 0
           /\ 0 + 0 >= 0 /\ 0 >= 0 /\ 0 + 1 >= 1 /\ 0 <= 0
        OBVIOUS
      <3> QED BY <3>1, <3>4, <3>5, <3>6, AllKept DEF SameBounds
  <2>5. CASE caller[c].pc = "refused"
    <3>1. PoolMoves(0 - 1, 0 - 1, 0 - 1, 0 - 1) /\ SameBounds /\ (~pool'.shutdown => ~pool.shutdown)
      BY <1>0, <1>5, <2>5, Numbers DEF relock, IsPool, Fields, PoolMoves, SameBounds, PoolInts
    <3>2. Len(jobs)' = Len(jobs) + 0
      <4>1. Len(jobs)' = Len(jobs')
        OBVIOUS
      <4> QED BY <1>5, <2>5, <2>3, <4>1, Numbers DEF relock
    <3>3. CallsMove(0 - 1, 0 - 1, 0, 0)
      <4>1. caller'[c].pc = "out"
        BY <1>5, <2>5 DEF relock, Types, Out
      <4> QED BY <2>1, <2>5, <4>1, Numbers DEF CallsMove, One, Reserving, Unmade, Blocked
    <3>4. ThreadsMove(0, 0, 0) /\ Waiting' = Waiting
      BY <2>2, ThreadsStay
      <3>5. Moved(0 - 1, 0 - 1, 0 - 1, 0 - 1, 0, 0 - 1, 0 - 1, 0, 0, 0, 0, 0)
        BY <3>1, <3>2, <3>3, <3>4 DEF Moved, PoolMoves, CallsMove, ThreadsMove
      <3>6. /\ (0 - 1) = (0 - 1) /\ (0 - 1) = 0 + (0 - 1) /\ (0 - 1) = (0 - 1) + 0 /\ (0 - 1) >= 0 + (0 - 1) + 0
           /\ (0 - 1) + 0 >= (0 - 1) /\ (0 - 1) >= (0 - 1) /\ 0 + 0 >= 0 /\ 0 - 1 <= 0
        OBVIOUS
      <3> QED BY <3>1, <3>4, <3>5, <3>6, AllKept DEF SameBounds
  <2>6. CASE caller[c].pc = "unset"
    <3>1. PoolMoves(0 - 1, 0, 0 - 1, 0) /\ SameBounds /\ (~pool'.shutdown => ~pool.shutdown)
      BY <1>0, <1>5, <2>6, Numbers DEF relock, IsPool, Fields, PoolMoves, SameBounds, PoolInts
    <3>2. Len(jobs)' = Len(jobs) + 0
      <4>1. Len(jobs)' = Len(jobs')
        OBVIOUS
      <4> QED BY <1>5, <2>6, <2>3, <4>1, Numbers DEF relock
    <3>3. CallsMove(0 - 1, 0, 0, 0)
      <4>1. caller'[c].pc = "out"
        BY <1>5, <2>6 DEF relock, Types, Out
      <4> QED BY <2>1, <2>6, <4>1, Numbers DEF CallsMove, One, Reserving, Unmade, Blocked
    <3>4. ThreadsMove(0, 0, 0) /\ Waiting' = Waiting
      BY <2>2, ThreadsStay
      <3>5. Moved(0 - 1, 0, 0 - 1, 0, 0, 0 - 1, 0, 0, 0, 0, 0, 0)
        BY <3>1, <3>2, <3>3, <3>4 DEF Moved, PoolMoves, CallsMove, ThreadsMove
      <3>6. /\ (0 - 1) = (0 - 1) /\ 0 = 0 + 0 /\ 0 = 0 + 0 /\ (0 - 1) >= 0 + (0 - 1) + 0
           /\ 0 + 0 >= (0 - 1) /\ 0 >= 0 /\ 0 + 0 >= 0 /\ 0 <= 0
        OBVIOUS
      <3> QED BY <3>1, <3>4, <3>5, <3>6, AllKept DEF SameBounds
  <2> QED BY <2>2, <2>4, <2>5, <2>6
<1>6. CASE NotifyOne(c)
  <2>1. /\ caller[c].pc = "notify" /\ caller'[c].pc = "out" /\ (\A d \in Callers \ {c} : caller'[d].pc = caller[d].pc)
        /\ pool' = pool /\ jobs' = jobs
        /\ \/ Waiting = {} /\ thr' = thr
           \/ \E w \in Waiting : thr' = [thr EXCEPT ![w] = "ready"]
    BY <1>6 DEF NotifyOne, Types, Out
  <2>2. PoolMoves(0, 0, 0, 0) /\ SameBounds
    BY <2>1, PoolStays DEF SameBounds
  <2>3. Len(jobs)' = Len(jobs) + 0
    BY <2>1, Numbers
  <2>4. CallsMove(0, 0, 0, 0 - 1)
    <3>1. \A S : N(S)' = N(S) + One(caller'[c].pc, S) - One(caller[c].pc, S)
      BY <2>1, OneCaller
    <3> QED BY <2>1, <3>1, Numbers DEF CallsMove, One, Reserving, Unmade, Blocked
  <2>5. CASE Waiting = {} /\ thr' = thr
    <3>1. ThreadsMove(0, 0, 0) /\ Waiting' = {}
      BY <2>5, ThreadsStay
    <3>2. Moved(0, 0, 0, 0, 0, 0, 0, 0, 0 - 1, 0, 0, 0)
      BY <2>2, <2>3, <2>4, <3>1 DEF Moved, PoolMoves, CallsMove, ThreadsMove
    <3>3. 0 = 0 + 0 /\ 0 >= 0 + 0 + 0 /\ 0 + 0 >= 0 /\ 0 >= 0 /\ 0 <= 0
      OBVIOUS
    <3>4. Counters'
      BY <3>2, <3>3, CountersKept DEF CountersInv
    <3>5. Bounds'
      BY <2>1, BoundsKept, Numbers DEF CountersInv, PoolInts
    <3>6. Covered'
      BY <2>1, <3>2, <3>3, CoveredKept, Numbers DEF CountersInv, PoolInts
    <3>7. Rested'
      BY <3>1 DEF Rested
    <3> QED BY <3>4, <3>5, <3>6, <3>7 DEF CountersInv
  <2>6. ASSUME NEW w \in Waiting, thr' = [thr EXCEPT ![w] = "ready"] PROVE CountersInv'
    <3>1. PoolMoves(0, 0, 0, 0) /\ SameBounds /\ (~pool'.shutdown => ~pool.shutdown)
      BY <2>1, <2>2
    <3>2. Len(jobs)' = Len(jobs) + 0
      BY <2>3
    <3>3. CallsMove(0, 0, 0, 0 - 1)
      BY <2>4
    <3>4. ThreadsMove(0, 1, 0) /\ (Waiting' # {} => Waiting # {})
      <4>1. w \in Ids /\ thr[w] = "waiting" /\ thr'[w] = "ready" /\ \A v \in Ids \ {w} : thr'[v] = thr[v]
        BY <2>6 DEF Waiting, Types
      <4>2. \A T \in {Idle, Awake, {"running"}} : W(T)' = W(T) + One(thr'[w], T) - One(thr[w], T)
        BY <4>1, OneThread
      <4> QED BY <2>6, <4>1, <4>2, Numbers DEF ThreadsMove, One, Idle, Awake
      <3>5. Moved(0, 0, 0, 0, 0, 0, 0, 0, 0 - 1, 0, 1, 0)
        BY <3>1, <3>2, <3>3, <3>4 DEF Moved, PoolMoves, CallsMove, ThreadsMove
      <3>6. /\ 0 = 0 /\ 0 = 0 + 0 /\ 0 = 0 + 0 /\ 0 >= 0 + 0 + 0
           /\ 0 + 0 >= 0 /\ 0 >= 0 /\ 1 + (0 - 1) >= 0 /\ 0 <= 0
        OBVIOUS
      <3> QED BY <3>1, <3>4, <3>5, <3>6, AllKept DEF SameBounds
  <2> QED BY <2>1, <2>5, <2>6
<1>7. CASE updateLiveWorkers(c)
  <2>1. CallsMove(0, 0, 0, 0)
    <3>1. /\ \A d \in Callers \ {c} : caller'[d].pc = caller[d].pc
          /\ caller[c].pc = "set" /\ caller'[c].pc = "out"
      BY <1>7 DEF updateLiveWorkers, Types, Out
    <3>2. \A S \in {Reserving, Unmade, Blocked, {"notify"}} : caller'[c].pc \in S <=> caller[c].pc \in S
      BY <3>1 DEF Reserving, Unmade, Blocked
    <3> QED BY <3>1, <3>2, CallsStay
  <2>2. ThreadsMove(0, 0, 0) /\ Waiting' = Waiting
    <3>1. \A v \in Ids : thr'[v] = thr[v] \/ {thr'[v], thr[v]} \subseteq {"none", "leaving", "gone"}
      BY <1>7 DEF updateLiveWorkers
    <3> QED BY <3>1, ThreadsStay
  <2>3. /\ pool'.queued = pool.queued /\ pool'.idle = pool.idle /\ pool'.reserved = pool.reserved /\ pool'.threads = pool.threads
        /\ pool'.low = pool.low /\ pool'.max = pool.max /\ pool'.high = pool.high /\ pool'.shutdown = pool.shutdown
    <3>1. \/ pool' = pool \/ pool' = [pool EXCEPT !.accepted = pool.policy]
          \/ pool' = [pool EXCEPT !.policy = pool.accepted, !.refusals = @ + 1]
      BY <1>7 DEF updateLiveWorkers
    <3> QED BY <1>0, <3>1 DEF IsPool, Fields
  <2>4. jobs' = jobs
    BY <1>7 DEF updateLiveWorkers
  <2> QED BY <2>1, <2>2, <2>3, <2>4, PoolStays, NothingMoves DEF SameBounds
<1> QED
  BY <1>1, <1>2, <1>3, <1>4, <1>5, <1>6, <1>7 DEF PoolCallStep

LEMMA WorkerCounts ==
  ASSUME Types, Types', CountersInv, NEW w \in Ids, PoolWorkerStep(w) \/ FinishTask(w) \/ WaitEnds(w)
  PROVE  CountersInv'
<1>0. IsPool(pool)
  BY DEF Types
<1>1. CASE WorkerStarts(w)
  <2>1. PoolMoves(0, 0, 0, 0) /\ SameBounds /\ (~pool'.shutdown => ~pool.shutdown)
    <3>1. /\ pool'.queued = pool.queued /\ pool'.idle = pool.idle
          /\ pool'.reserved = pool.reserved /\ pool'.threads = pool.threads
          /\ pool'.low = pool.low /\ pool'.max = pool.max /\ pool'.high = pool.high /\ pool'.shutdown = pool.shutdown
      BY <1>0, <1>1 DEF WorkerStarts
    <3> QED BY <3>1, Numbers DEF PoolMoves, SameBounds, PoolInts
  <2>2. Len(jobs)' = Len(jobs)
    BY <1>1, Numbers DEF WorkerStarts
  <2>3. CallsMove(0, 0, 0, 0)
    BY <1>1, CallsStay DEF WorkerStarts
  <2>4. ThreadsMove(0, 0, 0) /\ (Waiting' # {} => Waiting # {})
    <3>1. thr[w] = "born" /\ thr'[w] = "ready" /\ \A v \in Ids \ {w} : thr'[v] = thr[v]
      BY <1>1 DEF WorkerStarts, Types
    <3>2. \A T \in {Idle, Awake, {"running"}} : W(T)' = W(T) + One(thr'[w], T) - One(thr[w], T)
      BY <3>1, OneThread
    <3>3. Waiting' # {} => Waiting # {}
      BY <3>1 DEF Waiting
    <3> QED BY <3>1, <3>2, <3>3, Numbers DEF ThreadsMove, One, Idle, Awake
  <2>5. Moved(0, 0, 0, 0, 0, 0, 0, 0, 0, 0, 0, 0)
    BY <2>1, <2>2, <2>3, <2>4 DEF Moved, PoolMoves, CallsMove, ThreadsMove
  <2>6. /\ 0 = 0 /\ 0 = 0 + 0 /\ 0 = 0 + 0 /\ 0 >= 0 + 0 + 0
         /\ 0 + 0 >= 0 /\ 0 >= 0 /\ 0 + 0 >= 0 /\ 0 <= 0
    OBVIOUS
  <2> QED BY <2>1, <2>4, <2>5, <2>6, AllKept DEF SameBounds
<1>2. CASE popTask(w)
  <2>1. PoolMoves(0 - 1, 0 - 1, 0, 0) /\ SameBounds /\ (~pool'.shutdown => ~pool.shutdown)
    <3>1. /\ pool'.queued = pool.queued - 1 /\ pool'.idle = pool.idle - 1
          /\ pool'.reserved = pool.reserved /\ pool'.threads = pool.threads
          /\ pool'.low = pool.low /\ pool'.max = pool.max /\ pool'.high = pool.high /\ pool'.shutdown = pool.shutdown
      BY <1>0, <1>2 DEF popTask, IsPool, Fields
    <3> QED BY <3>1, Numbers DEF PoolMoves, SameBounds, PoolInts
  <2>2. Len(jobs)' = Len(jobs) + (0 - 1)
    <3>1. jobs # <<>> /\ jobs \in Seq(Prios) /\ jobs' = Tail(jobs)
      BY <1>2 DEF popTask, Types
    <3>2. Len(Tail(jobs)) = Len(jobs) - 1
      BY <3>1, HeadTailProperties
    <3>3. Len(jobs)' = Len(jobs')
      OBVIOUS
    <3> QED BY <3>1, <3>2, <3>3, Numbers
  <2>3. CallsMove(0, 0, 0, 0)
    BY <1>2, CallsStay DEF popTask
  <2>4. ThreadsMove(0 - 1, 0 - 1, 1) /\ (Waiting' # {} => Waiting # {})
    <3>1. thr[w] = "ready" /\ thr'[w] = "running" /\ \A v \in Ids \ {w} : thr'[v] = thr[v]
      BY <1>2 DEF popTask, Types
    <3>2. \A T \in {Idle, Awake, {"running"}} : W(T)' = W(T) + One(thr'[w], T) - One(thr[w], T)
      BY <3>1, OneThread
    <3>3. Waiting' # {} => Waiting # {}
      BY <3>1 DEF Waiting
    <3> QED BY <3>1, <3>2, <3>3, Numbers DEF ThreadsMove, One, Idle, Awake
  <2>5. Moved(0 - 1, 0 - 1, 0, 0, 0 - 1, 0, 0, 0, 0, 0 - 1, 0 - 1, 1)
    BY <2>1, <2>2, <2>3, <2>4 DEF Moved, PoolMoves, CallsMove, ThreadsMove
  <2>6. /\ 0 = 0 /\ (0 - 1) = (0 - 1) + 0 /\ 0 = (0 - 1) + 1 /\ (0 - 1) >= (0 - 1) + 0 + 0
         /\ (0 - 1) + 0 >= (0 - 1) /\ 0 >= 0 /\ (0 - 1) + 0 >= (0 - 1) /\ 0 <= 0
    OBVIOUS
  <2> QED BY <2>1, <2>4, <2>5, <2>6, AllKept DEF SameBounds
<1>3. CASE FinishTask(w)
  <2>1. PoolMoves(0, 1, 0, 0) /\ SameBounds /\ (~pool'.shutdown => ~pool.shutdown)
    <3>1. /\ pool'.queued = pool.queued /\ pool'.idle = pool.idle + 1
          /\ pool'.reserved = pool.reserved /\ pool'.threads = pool.threads
          /\ pool'.low = pool.low /\ pool'.max = pool.max /\ pool'.high = pool.high /\ pool'.shutdown = pool.shutdown
      BY <1>0, <1>3 DEF FinishTask, IsPool, Fields
    <3> QED BY <3>1, Numbers DEF PoolMoves, SameBounds, PoolInts
  <2>2. Len(jobs)' = Len(jobs)
    BY <1>3, Numbers DEF FinishTask
  <2>3. CallsMove(0, 0, 0, 0)
    BY <1>3, CallsStay DEF FinishTask
  <2>4. ThreadsMove(1, 1, 0 - 1) /\ (Waiting' # {} => Waiting # {})
    <3>1. thr[w] = "running" /\ thr'[w] = "ready" /\ \A v \in Ids \ {w} : thr'[v] = thr[v]
      BY <1>3 DEF FinishTask, Types
    <3>2. \A T \in {Idle, Awake, {"running"}} : W(T)' = W(T) + One(thr'[w], T) - One(thr[w], T)
      BY <3>1, OneThread
    <3>3. Waiting' # {} => Waiting # {}
      BY <3>1 DEF Waiting
    <3> QED BY <3>1, <3>2, <3>3, Numbers DEF ThreadsMove, One, Idle, Awake
  <2>5. Moved(0, 1, 0, 0, 0, 0, 0, 0, 0, 1, 1, 0 - 1)
    BY <2>1, <2>2, <2>3, <2>4 DEF Moved, PoolMoves, CallsMove, ThreadsMove
  <2>6. /\ 0 = 0 /\ 1 = 1 + 0 /\ 0 = 1 + (0 - 1) /\ 0 >= 0 + 0 + 0
         /\ 1 + 0 >= 0 /\ 0 >= 0 /\ 1 + 0 >= 0 /\ 0 <= 0
    OBVIOUS
  <2> QED BY <2>1, <2>4, <2>5, <2>6, AllKept DEF SameBounds
<1>4. CASE WaitEnds(w)
  <2>1. PoolMoves(0, 0, 0, 0) /\ SameBounds /\ (~pool'.shutdown => ~pool.shutdown)
    <3>1. /\ pool'.queued = pool.queued /\ pool'.idle = pool.idle
          /\ pool'.reserved = pool.reserved /\ pool'.threads = pool.threads
          /\ pool'.low = pool.low /\ pool'.max = pool.max /\ pool'.high = pool.high /\ pool'.shutdown = pool.shutdown
      BY <1>0, <1>4 DEF WaitEnds
    <3> QED BY <3>1, Numbers DEF PoolMoves, SameBounds, PoolInts
  <2>2. Len(jobs)' = Len(jobs)
    BY <1>4, Numbers DEF WaitEnds
  <2>3. CallsMove(0, 0, 0, 0)
    BY <1>4, CallsStay DEF WaitEnds
  <2>4. ThreadsMove(0, 1, 0) /\ (Waiting' # {} => Waiting # {})
    <3>1. thr[w] = "waiting" /\ thr'[w] = "ready" /\ \A v \in Ids \ {w} : thr'[v] = thr[v]
      BY <1>4 DEF WaitEnds, Types
    <3>2. \A T \in {Idle, Awake, {"running"}} : W(T)' = W(T) + One(thr'[w], T) - One(thr[w], T)
      BY <3>1, OneThread
    <3>3. Waiting' # {} => Waiting # {}
      BY <3>1 DEF Waiting
    <3> QED BY <3>1, <3>2, <3>3, Numbers DEF ThreadsMove, One, Idle, Awake
  <2>5. Moved(0, 0, 0, 0, 0, 0, 0, 0, 0, 0, 1, 0)
    BY <2>1, <2>2, <2>3, <2>4 DEF Moved, PoolMoves, CallsMove, ThreadsMove
  <2>6. /\ 0 = 0 /\ 0 = 0 + 0 /\ 0 = 0 + 0 /\ 0 >= 0 + 0 + 0
         /\ 0 + 0 >= 0 /\ 0 >= 0 /\ 1 + 0 >= 0 /\ 0 <= 0
    OBVIOUS
  <2> QED BY <2>1, <2>4, <2>5, <2>6, AllKept DEF SameBounds
<1>5. CASE WaitForTask(w)
  <2>1. /\ pool' = pool /\ jobs' = jobs /\ jobs = <<>> /\ caller' = caller
        /\ thr[w] = "ready" /\ thr'[w] = "waiting" /\ \A v \in Ids \ {w} : thr'[v] = thr[v]
    BY <1>5 DEF WaitForTask, Types
  <2>2. PoolMoves(0, 0, 0, 0) /\ CallsMove(0, 0, 0, 0) /\ Len(jobs)' = Len(jobs) + 0
    BY <2>1, PoolStays, CallsStay, Numbers
  <2>3. ThreadsMove(0, 0 - 1, 0)
    <3>1. \A T \in {Idle, Awake, {"running"}} : W(T)' = W(T) + One(thr'[w], T) - One(thr[w], T)
      BY <2>1, OneThread
    <3> QED BY <2>1, <3>1, Numbers DEF ThreadsMove, One, Idle, Awake
  <2>4. Moved(0, 0, 0, 0, 0, 0, 0, 0, 0, 0, 0 - 1, 0)
    BY <2>2, <2>3 DEF Moved, PoolMoves, CallsMove, ThreadsMove
  <2>5. 0 = 0 + 0 /\ 0 >= 0 + 0 + 0 /\ 0 + 0 >= 0 /\ 0 >= 0 /\ 0 <= 0
    OBVIOUS
  <2>6. Counters'
    BY <2>4, <2>5, CountersKept DEF CountersInv
  <2>7. Bounds'
    BY <2>1, BoundsKept, Numbers DEF CountersInv, PoolInts
  <2>8. Covered'
    <3>1. pool'.low <= pool.low
      BY <2>1, Numbers DEF PoolInts
    <3> QED BY <2>1, <2>4, <2>5, <3>1, CoveredKept DEF CountersInv
  <2>9. Rested'
    <3>1. Len(jobs)' = 0
      BY <2>1
    <3>2. W(Awake)' >= 0 /\ N({"notify"})' >= 0
      BY NextNat
    <3> QED BY <3>1, <3>2, NextNumbers DEF Rested
  <2> QED BY <2>6, <2>7, <2>8, <2>9 DEF CountersInv
<1>6. CASE Depart(w)
  <2>1. /\ jobs' = jobs /\ caller' = caller /\ (~pool.shutdown => jobs = <<>> /\ pool.queued = 0)
        /\ thr[w] = "ready" /\ thr'[w] = "leaving" /\ \A v \in Ids \ {w} : thr'[v] = thr[v]
    BY <1>6 DEF Depart, MayLeave, Types
  <2>2. /\ pool'.queued = pool.queued /\ pool'.idle = pool.idle - 1 /\ pool'.reserved = pool.reserved /\ pool'.threads = pool.threads - 1
        /\ pool'.low = pool.low /\ pool'.max = pool.max /\ pool'.high = pool.high /\ pool'.shutdown = pool.shutdown
    BY <1>0, <1>6 DEF Depart, IsPool, Fields
  <2>3. PoolMoves(0, 0 - 1, 0, 0 - 1)
    BY <2>2, Numbers DEF PoolMoves, PoolInts
  <2>4. CallsMove(0, 0, 0, 0) /\ Len(jobs)' = Len(jobs) + 0
    BY <2>1, CallsStay, Numbers
  <2>5. ThreadsMove(0 - 1, 0 - 1, 0)
    <3>1. \A v \in Ids \ {w} : thr'[v] = thr[v] \/ {thr'[v], thr[v]} \subseteq {"none", "leaving", "gone"}
      BY <2>1
    <3>2. \A T \in {Idle, Awake, {"running"}} : W(T)' = W(T) + One(thr'[w], T) - One(thr[w], T)
      BY <3>1, OneThread
    <3> QED BY <2>1, <3>2, Numbers DEF ThreadsMove, One, Idle, Awake
  <2>6. Moved(0, 0 - 1, 0, 0 - 1, 0, 0, 0, 0, 0, 0 - 1, 0 - 1, 0)
    BY <2>3, <2>4, <2>5 DEF Moved, PoolMoves, CallsMove, ThreadsMove
  <2>7. 0 = 0 /\ 0 - 1 = (0 - 1) + 0 /\ 0 >= 0 + 0 + 0
    OBVIOUS
  <2>8. Counters'
    BY <2>6, <2>7, CountersKept DEF CountersInv
  <2>9. Bounds'
    BY <2>2, BoundsKept, Numbers DEF CountersInv, PoolInts
  <2>10. Covered'
    <3>1. ~pool'.shutdown => pool'.queued = 0
      BY <2>1, <2>2
    <3>2. pool'.idle = W(Idle)' + N(Unmade)' /\ W(Idle)' >= 0 /\ N(Unmade)' >= 0 /\ N(Blocked)' >= 0
      BY <2>8, NextNat DEF Counters
    <3> QED BY <3>1, <3>2, NextNumbers DEF Covered, PoolInts
  <2>11. Rested'
    <3>1. ~pool'.shutdown => Len(jobs)' = 0
      BY <2>1, <2>2
    <3>2. W(Awake)' >= 0 /\ N({"notify"})' >= 0
      BY NextNat
    <3> QED BY <3>1, <3>2, NextNumbers DEF Rested
  <2> QED BY <2>8, <2>9, <2>10, <2>11 DEF CountersInv
<1>7. CASE WorkerEnds(w)
  <2> DEFINE dl == Len(jobs)' - Len(jobs)
  <2>1. /\ pool' = pool /\ caller' = caller /\ (jobs' = jobs \/ (jobs' = <<>> /\ pool.shutdown))
        /\ \A v \in Ids : thr'[v] = thr[v] \/ {thr'[v], thr[v]} \subseteq {"none", "leaving", "gone"}
    BY <1>7 DEF WorkerEnds, Types
  <2>2. PoolMoves(0, 0, 0, 0) /\ CallsMove(0, 0, 0, 0) /\ ThreadsMove(0, 0, 0) /\ Waiting' = Waiting
    BY <2>1, PoolStays, CallsStay, ThreadsStay
  <2>3. dl \in Int /\ Len(jobs)' = Len(jobs) + dl /\ dl <= 0
    <3>1. Len(jobs)' = Len(jobs) \/ Len(jobs)' = 0
      BY <2>1
    <3>2. Len(jobs) \in Nat
      BY LenProperties DEF Types
    <3> QED BY <3>1, <3>2
  <2> HIDE DEF dl
  <2>4. Moved(0, 0, 0, 0, dl, 0, 0, 0, 0, 0, 0, 0)
    BY <2>2, <2>3 DEF Moved, PoolMoves, CallsMove, ThreadsMove
  <2>5. 0 = 0 + 0 /\ 0 >= dl + 0 + 0 /\ 0 + 0 >= 0 /\ 0 >= 0 /\ 0 <= 0 /\ 0 + 0 >= dl
    BY <2>3
  <2> QED BY <2>1, <2>2, <2>4, <2>5, AllKept
<1> QED
  BY <1>1, <1>2, <1>3, <1>4, <1>5, <1>6, <1>7 DEF PoolWorkerStep

\* Workers that are woken: nothing else moves, and none sleeps.
LEMMA AllWake ==
  ASSUME Types, Types', CountersInv, thr' = [w \in Ids |-> IF thr[w] = "waiting" THEN "ready" ELSE thr[w]],
         PoolMoves(0, 0, 0, 0), jobs' = jobs, caller' = caller
  PROVE  Counters' /\ Rested' /\ \E dA : Moved(0, 0, 0, 0, 0, 0, 0, 0, 0, 0, dA, 0)
<1> DEFINE dA == W(Awake)' - W(Awake)
<1>1. W(Idle)' = W(Idle) /\ W({"running"})' = W({"running"})
  <2>1. \A T \in {Idle, {"running"}} : \A w \in Ids : thr'[w] \in T <=> thr[w] \in T
    BY DEF Idle
  <2> QED BY <2>1, SameThreads
<1>2. Waiting' = {}
  BY DEF Waiting
<1>3. CallsMove(0, 0, 0, 0) /\ Len(jobs)' = Len(jobs) + 0
  BY CallsStay, Numbers
<1>4. dA \in Int /\ W(Awake)' = W(Awake) + dA
  BY Numbers, NextNumbers
<1> HIDE DEF dA
<1>5. W(Idle)' = W(Idle) + 0 /\ W({"running"})' = W({"running"}) + 0
  BY <1>1, Numbers
<1>6. Moved(0, 0, 0, 0, 0, 0, 0, 0, 0, 0, dA, 0)
  BY <1>3, <1>4, <1>5 DEF Moved, PoolMoves, CallsMove
<1>7. 0 = 0 + 0 /\ 0 >= 0 + 0 + 0
  OBVIOUS
<1>8. Counters'
  BY <1>6, <1>7, CountersKept DEF CountersInv
<1>9. Rested'
  BY <1>2 DEF Rested
<1> QED
  BY <1>6, <1>8, <1>9

LEMMA OtherCounts ==
  ASSUME Types, Types', CountersInv,
         \/ \E c \in PoolCallers, p \in Policies : StorePolicy(c, p)
         \/ \E b \in PoolBounds : setThreadBounds(b)
         \/ \E k \in {"shutdown", "destroy"} : RequestShutdown(k)
         \/ Stopping \/ UNCHANGED poolVars
  PROVE  CountersInv'
<1>0. IsPool(pool)
  BY DEF Types
<1>1. CASE \E c \in PoolCallers, p \in Policies : StorePolicy(c, p)
  <2>1. PICK c \in PoolCallers, p \in Policies : StorePolicy(c, p)
    BY <1>1
  <2>2. c \in Callers
    BY Constants
  <2>3. CallsMove(0, 0, 0, 0)
    <3>1. /\ \A d \in Callers \ {c} : caller'[d].pc = caller[d].pc
          /\ caller[c].pc = "out" /\ caller'[c].pc = "set"
      <4>1. /\ caller' = [caller EXCEPT ![c].pc = "set", ![c].taking = departed]
            /\ "set" \in Pcs /\ departed \in SUBSET Ids /\ caller[c].pc = "out"
        BY <2>1 DEF StorePolicy, Types, Pcs
      <4> QED BY <4>1, <2>2, CallerMoves
    <3>2. \A S \in {Reserving, Unmade, Blocked, {"notify"}} : caller'[c].pc \in S <=> caller[c].pc \in S
      BY <3>1 DEF Reserving, Unmade, Blocked
    <3> QED BY <2>2, <3>1, <3>2, CallsStay
  <2>4. ThreadsMove(0, 0, 0) /\ Waiting' = Waiting /\ jobs' = jobs
    BY <2>1, ThreadsStay DEF StorePolicy
  <2>5. /\ pool'.queued = pool.queued /\ pool'.idle = pool.idle /\ pool'.reserved = pool.reserved /\ pool'.threads = pool.threads
        /\ pool'.low = pool.low /\ pool'.max = pool.max /\ pool'.high = pool.high /\ pool'.shutdown = pool.shutdown
    BY <1>0, <2>1 DEF StorePolicy, IsPool, Fields
  <2> QED BY <2>3, <2>4, <2>5, PoolStays, NothingMoves DEF SameBounds
<1>2. CASE \E b \in PoolBounds : setThreadBounds(b)
  <2>1. PICK b \in PoolBounds : setThreadBounds(b)
    BY <1>2
  <2> DEFINE low == IF pool.queued = 0 \/ b[2] < pool.low THEN b[2] ELSE pool.low
             high == IF b[2] > pool.high THEN b[2] ELSE pool.high
  <2>2. b[1] \in Int /\ b[2] \in Int
    BY Constants
  <2>3. pool' = [pool EXCEPT !.sets = @ + 1, !.min = b[1], !.max = b[2], !.low = low, !.high = high]
    BY <2>1 DEF setThreadBounds
  <2>4. /\ pool'.queued = pool.queued /\ pool'.idle = pool.idle /\ pool'.reserved = pool.reserved /\ pool'.threads = pool.threads
        /\ pool'.low = low /\ pool'.max = b[2] /\ pool'.high = high /\ pool'.shutdown = pool.shutdown
    <3> HIDE DEF low, high
    <3> QED BY <1>0, <2>3 DEF IsPool, Fields
  <2>5. PoolMoves(0, 0, 0, 0)
    BY <2>4, PoolStays
  <2>6. Counters' /\ Rested' /\ \E dA : Moved(0, 0, 0, 0, 0, 0, 0, 0, 0, 0, dA, 0)
    BY <2>1, <2>5, AllWake DEF setThreadBounds
  <2>7. Bounds'
    BY <2>2, <2>4, Numbers DEF CountersInv, Bounds, PoolInts
  <2>8. Covered'
    <3>1. CASE pool.queued = 0
      <4>1. pool'.idle = W(Idle)' + N(Unmade)' /\ W(Idle)' >= 0 /\ N(Unmade)' >= 0 /\ N(Blocked)' >= 0
        BY <2>6, NextNat DEF Counters
      <4>2. pool'.queued = 0
        BY <2>4, <3>1
      <4> QED BY <4>1, <4>2, NextNumbers DEF Covered, PoolInts
    <3>2. CASE pool.queued # 0
      <4>1. pool'.low <= pool.low
        BY <2>2, <2>4, <3>2, Numbers DEF PoolInts
      <4>2. 0 + 0 >= 0 /\ 0 >= 0
        OBVIOUS
      <4> QED BY <2>4, <2>6, <4>1, <4>2, CoveredKept DEF CountersInv
    <3> QED BY <3>1, <3>2
  <2> QED BY <2>6, <2>7, <2>8 DEF CountersInv
<1>3. CASE \E k \in {"shutdown", "destroy"} : RequestShutdown(k)
  <2>1. /\ pool'.queued = pool.queued /\ pool'.idle = pool.idle /\ pool'.reserved = pool.reserved /\ pool'.threads = pool.threads
        /\ pool'.low = pool.low /\ pool'.max = pool.max /\ pool'.high = pool.high /\ pool'.shutdown
    BY <1>0, <1>3 DEF RequestShutdown, IsPool, Fields
  <2>2. ThreadsMove(0, 0, 0) /\ Waiting' = Waiting /\ CallsMove(0, 0, 0, 0) /\ jobs' = jobs
    BY <1>3, ThreadsStay, CallsStay DEF RequestShutdown
  <2> QED BY <2>1, <2>2, PoolStays, NothingMoves DEF SameBounds
<1>4. CASE wakeAllWorkers
  <2>1. pool' = pool /\ jobs' = jobs /\ caller' = caller
    BY <1>4 DEF wakeAllWorkers
  <2>2. PoolMoves(0, 0, 0, 0)
    BY <2>1, PoolStays
  <2>3. Counters' /\ Rested' /\ \E dA : Moved(0, 0, 0, 0, 0, 0, 0, 0, 0, 0, dA, 0)
    BY <1>4, <2>1, <2>2, AllWake DEF wakeAllWorkers
  <2>4. 0 + 0 >= 0 /\ 0 >= 0 /\ pool'.low <= pool.low /\ pool'.threads <= pool.threads
    BY <2>1, Numbers DEF PoolInts
  <2>5. Covered'
    BY <2>1, <2>3, <2>4, CoveredKept DEF CountersInv
  <2>6. Bounds'
    BY <2>1, <2>4, BoundsKept DEF CountersInv
  <2> QED BY <2>3, <2>5, <2>6 DEF CountersInv
<1>5. CASE TakeThreads \/ JoinThreads \/ UNCHANGED poolVars
  <2>1. /\ pool' = pool /\ jobs' = jobs /\ caller' = caller
        /\ \A v \in Ids : thr'[v] = thr[v] \/ {thr'[v], thr[v]} \subseteq {"none", "leaving", "gone"}
    BY <1>5 DEF TakeThreads, JoinThreads, poolVars
  <2>2. PoolMoves(0, 0, 0, 0) /\ ThreadsMove(0, 0, 0) /\ Waiting' = Waiting /\ CallsMove(0, 0, 0, 0)
    BY <2>1, PoolStays, ThreadsStay, CallsStay
  <2> QED BY <2>1, <2>2, NothingMoves DEF SameBounds
<1> QED
  BY <1>1, <1>2, <1>3, <1>4, <1>5 DEF Stopping

-----------------------------------------------------------------------------
(* The threads and their holders are kept. *)

\* The steps of a caller that leave threads and the lock alone.
LEMMA OnlyCallers ==
  ASSUME Types, Types', ThreadsInv, thr' = thr, listLock' = listLock, members' = members, departed' = departed, ending' = ending,
         pool'.shutdown = pool.shutdown,
         \A c \in Callers : /\ listLock = c => caller'[c] = caller[c]
                            /\ listLock # c => caller'[c].pc \notin {"create", "set"} /\ caller'[c].taking = {}
                            /\ c \in Ids /\ caller'[c].pc # "out" => thr[c] = "running"
                            /\ c \in PoolCallers /\ ending.kind = "destroy" => caller'[c].pc = "out"
  PROVE  ThreadsInv'
<1>1. Taking' = Taking
  BY DEF Taking, Types
<1>2. Threads'
  BY <1>1, Constants DEF ThreadsInv, Threads
<1>3. Ending'
  BY <1>1, Constants DEF ThreadsInv, Ending
<1>4. NoThreadOutlivesPool'
  BY DEF ThreadsInv, NoThreadOutlivesPool
<1> QED
  BY <1>2, <1>3, <1>4 DEF ThreadsInv

LEMMA CallThreads1 ==
  ASSUME Types, Types', ThreadsInv, NEW c \in Callers,
         DecideAgain(c) \/ relock(c) \/ \E p \in Priorities : Execute(c, p)
  PROVE  ThreadsInv'
<1>0. IsPool(pool)
  BY DEF Types
<1>1. CASE DecideAgain(c) \/ \E p \in Priorities : Execute(c, p)
  <2>1. PICK p, prio : Decide(c, p, prio) /\ IsPool(p) /\ p.shutdown = pool.shutdown
    <3>1. IsPool([pool EXCEPT !.queued = @ + 1, !.tasks = @ + 1]) /\ [pool EXCEPT !.queued = @ + 1, !.tasks = @ + 1].shutdown = pool.shutdown
      BY <1>0 DEF IsPool, Fields
    <3> QED BY <1>0, <1>1, <3>1 DEF DecideAgain, Execute
  <2>2. pool'.shutdown = pool.shutdown
    BY <2>1 DEF Decide, IsPool, Fields
  <2>3. /\ caller'[c].pc \in {"sleep", "reserve", "notify"} /\ caller'[c].taking = {}
        /\ \A d \in Callers \ {c} : caller'[d] = caller[d]
    BY <2>1 DEF Decide, Types
  <2>4. /\ thr' = thr /\ listLock' = listLock /\ members' = members /\ departed' = departed /\ ending' = ending
        /\ caller[c].pc \in {"out", "woken"}
        /\ c \in Ids => thr[c] = "running"
        /\ c \in PoolCallers => ending.kind # "destroy"
    BY <1>1, Constants DEF DecideAgain, Execute, ThreadsInv, Threads, Ending
  <2>5. \A d \in Callers : /\ listLock = d => caller'[d] = caller[d]
                           /\ listLock # d => caller'[d].pc \notin {"create", "set"} /\ caller'[d].taking = {}
                           /\ d \in Ids /\ caller'[d].pc # "out" => thr[d] = "running"
                           /\ d \in PoolCallers /\ ending.kind = "destroy" => caller'[d].pc = "out"
    BY <2>3, <2>4, Constants DEF ThreadsInv, Threads, Ending
  <2> QED BY <2>2, <2>4, <2>5, OnlyCallers
<1>2. CASE relock(c)
  <2>1. pool'.shutdown = pool.shutdown
    BY <1>0, <1>2 DEF relock, IsPool, Fields
  <2>2. /\ thr' = thr /\ listLock' = listLock /\ members' = members /\ departed' = departed /\ ending' = ending
        /\ caller[c].pc \in {"created", "refused", "unset"}
    BY <1>2 DEF relock
  <2>3. /\ caller'[c].pc \in {"notify", "out"} /\ (caller'[c].taking = {} \/ caller'[c].taking = caller[c].taking)
        /\ \A d \in Callers \ {c} : \/ caller'[d] = caller[d]
                                    \/ caller[d].pc = "sleep" /\ caller'[d].pc = "woken" /\ caller'[d].taking = caller[d].taking
    BY <1>2 DEF relock, Types, Out
  <2>4. \A d \in Callers : /\ listLock = d => caller'[d] = caller[d]
                           /\ listLock # d => caller'[d].pc \notin {"create", "set"} /\ caller'[d].taking = {}
                           /\ d \in Ids /\ caller'[d].pc # "out" => thr[d] = "running"
                           /\ d \in PoolCallers /\ ending.kind = "destroy" => caller'[d].pc = "out"
    BY <2>2, <2>3, Constants DEF ThreadsInv, Threads, Ending
  <2> QED BY <2>1, <2>2, <2>4, OnlyCallers
<1> QED
  BY <1>1, <1>2

LEMMA CallThreads2 ==
  ASSUME Types, Types', ThreadsInv, NEW c \in Callers, joinDepartedThreads(c) \/ NotifyOne(c)
  PROVE  ThreadsInv'
<1>1. CASE joinDepartedThreads(c)
  <2>1. /\ caller'[c].pc = "create" /\ caller'[c].taking = departed /\ \A d \in Callers \ {c} : caller'[d] = caller[d]
    BY <1>1 DEF joinDepartedThreads, Types
  <2>2. /\ thr' = thr /\ listLock = Free /\ listLock' = c /\ members' = members /\ departed' = {} /\ ending' = ending /\ pool' = pool
        /\ caller[c].pc = "reserve"
    BY <1>1 DEF joinDepartedThreads
  <2>3. Taking = {} /\ Taking' = departed
    BY <2>1, <2>2, Constants DEF Taking, Free
  <2>4. Threads'
    BY <2>1, <2>2, <2>3, Constants DEF ThreadsInv, Threads, Free
  <2>5. Ending'
    BY <2>1, <2>2, <2>3, Constants DEF ThreadsInv, Ending
  <2>6. NoThreadOutlivesPool'
    BY <2>2 DEF ThreadsInv, NoThreadOutlivesPool
  <2> QED BY <2>4, <2>5, <2>6 DEF ThreadsInv
<1>2. CASE NotifyOne(c)
  <2>1. /\ caller[c].pc = "notify" /\ caller'[c].pc = "out" /\ caller'[c].taking = {} /\ \A d \in Callers \ {c} : caller'[d] = caller[d]
    BY <1>2 DEF NotifyOne, Types, Out
  <2>2. /\ listLock' = listLock /\ members' = members /\ departed' = departed /\ ending' = ending /\ pool' = pool
    BY <1>2 DEF NotifyOne
  <2>3. \A w \in Ids : thr'[w] = thr[w] \/ (thr[w] = "waiting" /\ thr'[w] = "ready")
    BY <1>2 DEF NotifyOne, Waiting, Types
  <2>4. listLock # c
    BY <2>1 DEF ThreadsInv, Threads
  <2>5. Taking' = Taking
    BY <2>1, <2>2, <2>4 DEF Taking, Types
  <2>6. Threads'
    <3>1. /\ \A d \in Callers : caller'[d].pc \in {"create", "set"} <=> listLock' = d
          /\ \A d \in Callers : listLock' # d => caller'[d].taking = {}
      BY <2>1, <2>2, <2>4 DEF ThreadsInv, Threads
    <3>2. /\ Taking' \subseteq members' /\ departed' \subseteq members' /\ Taking' \cap departed' = {}
          /\ members' \cap ending'.joining = {}
      BY <2>2, <2>5 DEF ThreadsInv, Threads
    <3>3. /\ \A w \in Ids : thr'[w] # "none" <=> w \in members' \cup ending'.joining
          /\ \A w \in departed' \cup Taking' : thr'[w] \in {"leaving", "gone"}
      <4>1. members \in SUBSET Ids /\ departed \cup Taking \in SUBSET Ids
        BY DEF Types, ThreadsInv, Threads
      <4> QED BY <2>2, <2>3, <2>5, <4>1 DEF ThreadsInv, Threads
    <3>4. \A d \in Ids : caller'[d].pc # "out" => thr'[d] = "running"
      BY <2>1, <2>3, Constants DEF ThreadsInv, Threads
    <3> QED BY <3>1, <3>2, <3>3, <3>4 DEF Threads
  <2>7. Ending'
    BY <2>1, <2>2, <2>3, <2>5, Constants DEF ThreadsInv, Ending
  <2>8. NoThreadOutlivesPool'
    BY <2>2, <2>3 DEF ThreadsInv, NoThreadOutlivesPool
  <2> QED BY <2>6, <2>7, <2>8 DEF ThreadsInv
<1> QED
  BY <1>1, <1>2

\* The holder of the lock joins the departed workers it took: they are no longer its
\* threads, and news, a new one if there is one, is.
LEMMA Joins ==
  ASSUME Types, Types', ThreadsInv, NEW c \in Callers, listLock = c, listLock' = Free, NEW news \in SUBSET Ids,
         \A w \in news : thr[w] = "none",
         \A w \in caller[c].taking : thr[w] = "gone",
         \A w \in Ids : thr'[w] = IF w \in news THEN "born" ELSE IF w \in caller[c].taking THEN "none" ELSE thr[w],
         members' = (members \ caller[c].taking) \cup news, departed' = departed, ending' = ending, pool'.shutdown = pool.shutdown,
         caller'[c].pc \notin {"create", "set"}, caller'[c].taking = {}, \A d \in Callers \ {c} : caller'[d] = caller[d],
         ending.kind = "destroy" => (c \in PoolCallers => caller'[c].pc = "out") /\ (news # {} => c \in Ids),
         c \in Ids => thr[c] = "running"
  PROVE  ThreadsInv'
<1> DEFINE gone == caller[c].taking
<1>1. Taking = gone /\ Taking' = {} /\ c # Free
  BY Constants DEF Taking, Free
<1>2. gone \subseteq members /\ departed \subseteq members /\ gone \cap departed = {} /\ gone \cap news = {}
  BY <1>1 DEF ThreadsInv, Threads
<1>3. members \in SUBSET Ids /\ ending.joining \in SUBSET Ids /\ news \cap (members \cup ending.joining) = {}
  BY DEF Types, ThreadsInv, Threads
<1> HIDE DEF gone
<1>4. Threads'
  <2>1. /\ \A d \in Callers : caller'[d].pc \in {"create", "set"} <=> listLock' = d
        /\ \A d \in Callers : listLock' # d => caller'[d].taking = {}
    BY <1>1, Constants DEF ThreadsInv, Threads, Free
  <2>2. /\ Taking' \subseteq members' /\ departed' \subseteq members' /\ Taking' \cap departed' = {}
        /\ members' \cap ending'.joining = {}
    BY <1>1, <1>2, <1>3 DEF ThreadsInv, Threads, gone
  <2>3. \A w \in Ids : thr'[w] # "none" <=> w \in members' \cup ending'.joining
    BY <1>1, <1>2, <1>3 DEF ThreadsInv, Threads, gone
  <2>4. \A w \in departed' \cup Taking' : thr'[w] \in {"leaving", "gone"}
    BY <1>1, <1>2, <1>3 DEF ThreadsInv, Threads, gone
  <2>5. \A d \in Ids : caller'[d].pc # "out" => thr'[d] = "running"
    <3>1. ASSUME NEW d \in Ids, caller'[d].pc # "out" PROVE thr[d] = "running"
      BY <3>1, Constants DEF ThreadsInv, Threads
    <3> QED BY <3>1
  <2> QED BY <2>1, <2>2, <2>3, <2>4, <2>5 DEF Threads
<1>5. Ending'
  <2>1. /\ ~pool'.shutdown <=> ending'.kind = "none"
        /\ ending'.kind = "none" => ending'.pc = "open"
        /\ ending'.pc = "join" \/ ending'.joining = {}
    BY DEF ThreadsInv, Ending
  <2>2. ~pool'.shutdown => \A w \in Ids : thr'[w] \in {"leaving", "gone"} => w \in departed' \cup Taking'
    BY <1>1 DEF ThreadsInv, Ending, gone
  <2>3. ending'.kind = "destroy" => \A d \in PoolCallers : caller'[d].pc = "out"
    BY Constants DEF ThreadsInv, Ending
  <2> QED BY <2>1, <2>2, <2>3 DEF Ending
<1>6. NoThreadOutlivesPool'
  <2>1. ASSUME ending.kind = "destroy", ending.pc = "joined" PROVE \A w \in Ids : thr[w] = "none"
    BY <2>1 DEF ThreadsInv, NoThreadOutlivesPool
  <2>2. ASSUME ending.kind = "destroy", ending.pc = "joined" PROVE news = {}
    BY <2>1, <2>2
  <2> QED BY <2>1, <2>2 DEF NoThreadOutlivesPool
<1> QED
  BY <1>4, <1>5, <1>6 DEF ThreadsInv

LEMMA CallThreads3 ==
  ASSUME Types, Types', ThreadsInv, NEW c \in Callers, CreateWorker(c) \/ updateLiveWorkers(c)
  PROVE  ThreadsInv'
<1>0. IsPool(pool)
  BY DEF Types
<1>1. CASE CreateWorker(c)
  <2> DEFINE Joined == [w \in Ids |-> IF w \in caller[c].taking THEN "none" ELSE thr[w]]
  <2>1. caller[c].pc = "create" /\ (\A w \in caller[c].taking : thr[w] = "gone") /\ listLock' = Free
        /\ departed' = departed /\ ending' = ending
    BY <1>1 DEF CreateWorker
  <2>2. listLock = c /\ (c \in Ids => thr[c] = "running") /\ (c \in PoolCallers => ending.kind # "destroy")
    BY <2>1 DEF ThreadsInv, Threads, Ending
  <2>3. \A x \in {"refused", "created", "unset"} : caller' = [caller EXCEPT ![c].pc = x, ![c].taking = {}] =>
             /\ caller'[c].pc = x /\ caller'[c].taking = {} /\ \A d \in Callers \ {c} : caller'[d] = caller[d]
    BY DEF Types
  <2>4. /\ caller'[c].pc \in {"refused", "created", "unset"} /\ caller'[c].taking = {}
        /\ \A d \in Callers \ {c} : caller'[d] = caller[d]
    <3>1. \E x \in {"refused", "created", "unset"} : caller' = [caller EXCEPT ![c].pc = x, ![c].taking = {}]
      BY <1>1 DEF CreateWorker
    <3> QED BY <2>3, <3>1
  <2>5. pool'.shutdown = pool.shutdown
    <3>1. \/ pool' = [pool EXCEPT !.refusals = @ + 1] \/ pool' = [pool EXCEPT !.accepted = pool.policy]
          \/ pool' = [pool EXCEPT !.refusals = @ + 1, !.policy = pool.accepted]
      BY <1>1 DEF CreateWorker
    <3> QED BY <1>0, <3>1 DEF IsPool, Fields
  <2>6. \E news \in SUBSET Ids :
          /\ \A w \in news : thr[w] = "none"
          /\ members' = (members \ caller[c].taking) \cup news
          /\ \A w \in Ids : thr'[w] = IF w \in news THEN "born" ELSE IF w \in caller[c].taking THEN "none" ELSE thr[w]
    <3>1. \/ thr' = Joined /\ members' = members \ caller[c].taking
          \/ \E new \in Ids : /\ thr[new] = "none" /\ thr' = [Joined EXCEPT ![new] = "born"]
                              /\ members' = (members \ caller[c].taking) \cup {new}
      BY <1>1 DEF CreateWorker
    <3>2. CASE thr' = Joined /\ members' = members \ caller[c].taking
      <4> WITNESS {} \in SUBSET Ids
      <4> QED BY <3>2
    <3>3. ASSUME NEW new \in Ids, thr[new] = "none", thr' = [Joined EXCEPT ![new] = "born"],
                 members' = (members \ caller[c].taking) \cup {new}
          PROVE  \E news \in SUBSET Ids :
                   /\ \A w \in news : thr[w] = "none"
                   /\ members' = (members \ caller[c].taking) \cup news
                   /\ \A w \in Ids : thr'[w] = IF w \in news THEN "born" ELSE IF w \in caller[c].taking THEN "none" ELSE thr[w]
      <4> WITNESS {new} \in SUBSET Ids
      <4> QED BY <3>3
    <3> QED BY <3>1, <3>2, <3>3
  <2> HIDE DEF Joined
  <2> QED BY <2>1, <2>2, <2>4, <2>5, <2>6, Joins, Constants
<1>2. CASE updateLiveWorkers(c)
  <2>1. /\ caller[c].pc = "set" /\ (\A w \in caller[c].taking : thr[w] = "gone") /\ listLock' = Free
        /\ thr' = [w \in Ids |-> IF w \in caller[c].taking THEN "none" ELSE thr[w]] /\ members' = members \ caller[c].taking
        /\ departed' = departed /\ ending' = ending /\ caller' = [caller EXCEPT ![c] = Out]
    BY <1>2 DEF updateLiveWorkers
  <2>2. listLock = c /\ (c \in Ids => thr[c] = "running")
    BY <2>1 DEF ThreadsInv, Threads
  <2>3. /\ caller'[c].pc = "out" /\ caller'[c].taking = {} /\ \A d \in Callers \ {c} : caller'[d] = caller[d]
    BY <2>1 DEF Types, Out
  <2>4. pool'.shutdown = pool.shutdown
    <3>1. \/ pool' = pool \/ pool' = [pool EXCEPT !.accepted = pool.policy]
          \/ pool' = [pool EXCEPT !.policy = pool.accepted, !.refusals = @ + 1]
      BY <1>2 DEF updateLiveWorkers
    <3> QED BY <1>0, <3>1 DEF IsPool, Fields
  <2>5. members' = (members \ caller[c].taking) \cup {}
    BY <2>1
  <2>6. \A w \in Ids : thr'[w] = IF w \in {} THEN "born" ELSE IF w \in caller[c].taking THEN "none" ELSE thr[w]
    BY <2>1
  <2> QED BY <2>1, <2>2, <2>3, <2>4, <2>5, <2>6, Joins
<1> QED
  BY <1>1, <1>2

\* Threads that go on: a step of the workers that neither starts nor ends one.
LEMMA GoesOn ==
  ASSUME Types, Types', ThreadsInv, caller' = caller, listLock' = listLock, members' = members, departed' = departed,
         ending'.joining = ending.joining, ending'.pc # "join" => ending.pc # "join", ending'.kind = ending.kind,
         ending'.kind = "none" => ending'.pc = ending.pc, pool'.shutdown = pool.shutdown,
         ending'.pc = "joined" => ending' = ending,
         \A w \in Ids : \/ thr'[w] = thr[w]
                        \/ thr[w] \in {"born", "ready", "waiting"} /\ thr'[w] \in {"ready", "waiting", "running"}
                        \/ thr[w] = "running" /\ caller[w].pc = "out" /\ thr'[w] = "ready"
                        \/ thr[w] = "leaving" /\ thr'[w] = "gone"
  PROVE  ThreadsInv'
<1>1. Taking' = Taking
  BY DEF Taking
<1>2. members \in SUBSET Ids /\ ending.joining \in SUBSET Ids /\ departed \cup Taking \in SUBSET Ids
  BY DEF Types, ThreadsInv, Threads
<1>3. \A w \in Ids : /\ thr'[w] # "none" <=> thr[w] # "none"
                     /\ thr[w] \in {"leaving", "gone"} <=> thr'[w] \in {"leaving", "gone"}
                     /\ caller[w].pc # "out" /\ thr[w] = "running" => thr'[w] = "running"
  OBVIOUS
<1>4. Threads'
  <2>1. /\ \A d \in Callers : caller'[d].pc \in {"create", "set"} <=> listLock' = d
        /\ \A d \in Callers : listLock' # d => caller'[d].taking = {}
    BY DEF ThreadsInv, Threads
  <2>2. /\ Taking' \subseteq members' /\ departed' \subseteq members' /\ Taking' \cap departed' = {}
        /\ members' \cap ending'.joining = {}
    BY <1>1 DEF ThreadsInv, Threads
  <2>3. \A w \in Ids : thr'[w] # "none" <=> w \in members' \cup ending'.joining
    BY <1>3 DEF ThreadsInv, Threads
  <2>4. \A w \in departed' \cup Taking' : thr'[w] \in {"leaving", "gone"}
    BY <1>1, <1>2, <1>3 DEF ThreadsInv, Threads
  <2>5. \A d \in Ids : caller'[d].pc # "out" => thr'[d] = "running"
    BY <1>3 DEF ThreadsInv, Threads
  <2> QED BY <2>1, <2>2, <2>3, <2>4, <2>5 DEF Threads
<1>5. Ending'
  <2>1. /\ ~pool'.shutdown <=> ending'.kind = "none"
        /\ ending'.kind = "none" => ending'.pc = "open"
        /\ ending'.pc = "join" \/ ending'.joining = {}
    BY DEF ThreadsInv, Ending
  <2>2. ~pool'.shutdown => \A w \in Ids : thr'[w] \in {"leaving", "gone"} => w \in departed' \cup Taking'
    BY <1>1, <1>3 DEF ThreadsInv, Ending
  <2>3. ending'.kind = "destroy" => \A d \in PoolCallers : caller'[d].pc = "out"
    BY DEF ThreadsInv, Ending
  <2> QED BY <2>1, <2>2, <2>3 DEF Ending
<1>6. NoThreadOutlivesPool'
  BY <1>3 DEF ThreadsInv, NoThreadOutlivesPool
<1> QED
  BY <1>4, <1>5, <1>6 DEF ThreadsInv

LEMMA WorkerThreads ==
  ASSUME Types, Types', ThreadsInv, NEW w \in Ids, PoolWorkerStep(w) \/ FinishTask(w) \/ WaitEnds(w)
  PROVE  ThreadsInv'
<1>0. IsPool(pool)
  BY DEF Types
<1>1. CASE WorkerStarts(w) \/ popTask(w) \/ WaitForTask(w) \/ FinishTask(w) \/ WaitEnds(w) \/ WorkerEnds(w)
  <2>1. /\ caller' = caller /\ listLock' = listLock /\ members' = members /\ departed' = departed /\ ending' = ending
    BY <1>1 DEF WorkerStarts, popTask, WaitForTask, FinishTask, WaitEnds, WorkerEnds
  <2>2. pool'.shutdown = pool.shutdown
    BY <1>0, <1>1 DEF WorkerStarts, popTask, WaitForTask, FinishTask, WaitEnds, WorkerEnds, IsPool, Fields
  <2>3. \A v \in Ids : \/ thr'[v] = thr[v]
                       \/ thr[v] \in {"born", "ready", "waiting"} /\ thr'[v] \in {"ready", "waiting", "running"}
                       \/ thr[v] = "running" /\ caller[v].pc = "out" /\ thr'[v] = "ready"
                       \/ thr[v] = "leaving" /\ thr'[v] = "gone"
    BY <1>1 DEF WorkerStarts, popTask, WaitForTask, FinishTask, WaitEnds, WorkerEnds, Types
  <2> QED BY <2>1, <2>2, <2>3, GoesOn
<1>2. CASE Depart(w)
  <2>1. /\ caller' = caller /\ listLock' = listLock /\ members' = members /\ ending' = ending
        /\ departed' = IF pool.shutdown THEN departed ELSE departed \cup {w}
        /\ thr[w] = "ready" /\ thr'[w] = "leaving" /\ \A v \in Ids \ {w} : thr'[v] = thr[v]
    BY <1>2 DEF Depart, Types
  <2>2. pool'.shutdown = pool.shutdown
    BY <1>0, <1>2 DEF Depart, IsPool, Fields
  <2>3. Taking' = Taking
    BY <2>1 DEF Taking
  <2>4. members \in SUBSET Ids /\ ending.joining \in SUBSET Ids /\ departed \cup Taking \in SUBSET Ids /\ w \notin departed \cup Taking
    BY <2>1 DEF Types, ThreadsInv, Threads
  <2>5. ~pool.shutdown => w \in members
    BY <2>1 DEF ThreadsInv, Threads, Ending
  <2>6. Threads'
    <3>1. /\ \A d \in Callers : caller'[d].pc \in {"create", "set"} <=> listLock' = d
          /\ \A d \in Callers : listLock' # d => caller'[d].taking = {}
      BY <2>1 DEF ThreadsInv, Threads
    <3>2. /\ Taking' \subseteq members' /\ departed' \subseteq members' /\ Taking' \cap departed' = {}
          /\ members' \cap ending'.joining = {}
      BY <2>1, <2>3, <2>4, <2>5 DEF ThreadsInv, Threads
    <3>3. \A v \in Ids : thr'[v] # "none" <=> v \in members' \cup ending'.joining
      BY <2>1 DEF ThreadsInv, Threads
    <3>4. \A v \in departed' \cup Taking' : thr'[v] \in {"leaving", "gone"}
      BY <2>1, <2>3, <2>4 DEF ThreadsInv, Threads
    <3>5. \A d \in Ids : caller'[d].pc # "out" => thr'[d] = "running"
      BY <2>1 DEF ThreadsInv, Threads
    <3> QED BY <3>1, <3>2, <3>3, <3>4, <3>5 DEF Threads
  <2>7. Ending'
    BY <2>1, <2>2, <2>3 DEF ThreadsInv, Ending
  <2>8. NoThreadOutlivesPool'
    BY <2>1 DEF ThreadsInv, NoThreadOutlivesPool
  <2> QED BY <2>6, <2>7, <2>8 DEF ThreadsInv
<1> QED
  BY <1>1, <1>2 DEF PoolWorkerStep

LEMMA OtherThreads ==
  ASSUME Types, Types', ThreadsInv,
         \/ \E c \in PoolCallers, p \in Policies : StorePolicy(c, p)
         \/ \E b \in PoolBounds : setThreadBounds(b)
         \/ \E k \in {"shutdown", "destroy"} : RequestShutdown(k)
         \/ Stopping \/ UNCHANGED poolVars
  PROVE  ThreadsInv'
<1>0. IsPool(pool)
  BY DEF Types
<1>1. CASE \E c \in PoolCallers, p \in Policies : StorePolicy(c, p)
  <2>1. PICK c \in PoolCallers, p \in Policies : StorePolicy(c, p)
    BY <1>1
  <2>2. c \in Callers /\ c \notin Ids
    BY Constants
  <2>3. /\ caller'[c].pc = "set" /\ caller'[c].taking = departed /\ \A d \in Callers \ {c} : caller'[d] = caller[d]
    <3>1. /\ caller' = [caller EXCEPT ![c].pc = "set", ![c].taking = departed]
          /\ "set" \in Pcs /\ departed \in SUBSET Ids
      BY <2>1 DEF StorePolicy, Types, Pcs
    <3>2. /\ caller'[c] = [caller[c] EXCEPT !.pc = "set", !.taking = departed]
          /\ \A d \in Callers \ {c} : caller'[d] = caller[d]
      BY <3>1, <2>2 DEF Types
    <3> QED BY <3>2, <2>2 DEF Types
  <2>4. /\ thr' = thr /\ listLock = Free /\ listLock' = c /\ members' = members /\ departed' = {} /\ ending' = ending
        /\ caller[c].pc = "out" /\ ending.kind # "destroy"
    BY <2>1 DEF StorePolicy
  <2>5. pool'.shutdown = pool.shutdown
    BY <1>0, <2>1 DEF StorePolicy, IsPool, Fields
  <2>6. Taking = {} /\ Taking' = departed
    BY <2>2, <2>3, <2>4, Constants DEF Taking, Free
  <2>7. Threads'
    BY <2>2, <2>3, <2>4, <2>6, Constants DEF ThreadsInv, Threads, Free
  <2>8. Ending'
    BY <2>2, <2>3, <2>4, <2>5, <2>6, Constants DEF ThreadsInv, Ending
  <2>9. NoThreadOutlivesPool'
    BY <2>4 DEF ThreadsInv, NoThreadOutlivesPool
  <2> QED BY <2>7, <2>8, <2>9 DEF ThreadsInv
<1>2. CASE \E b \in PoolBounds : setThreadBounds(b)
  <2>1. PICK b \in PoolBounds : setThreadBounds(b)
    BY <1>2
  <2>2. /\ caller' = caller /\ listLock' = listLock /\ members' = members /\ departed' = departed /\ ending' = ending
        /\ \A w \in Ids : thr'[w] = thr[w] \/ (thr[w] = "waiting" /\ thr'[w] = "ready")
    BY <2>1 DEF setThreadBounds
  <2>3. pool'.shutdown = pool.shutdown
    BY <1>0, <2>1 DEF setThreadBounds, IsPool, Fields
  <2> QED BY <2>2, <2>3, GoesOn
<1>3. CASE \E k \in {"shutdown", "destroy"} : RequestShutdown(k)
  <2>1. PICK k \in {"shutdown", "destroy"} : RequestShutdown(k)
    BY <1>3
  <2>2. /\ caller' = caller /\ listLock' = listLock /\ members' = members /\ departed' = departed /\ thr' = thr
        /\ ending.pc \in {"open", "joined"} /\ (k = "destroy" => \A c \in PoolCallers : caller[c].pc = "out")
    BY <2>1 DEF RequestShutdown
  <2>3. ending'.pc = "wake" /\ ending'.kind = k /\ ending'.joining = ending.joining
    BY <2>1 DEF RequestShutdown, Types
  <2>4. pool'.shutdown = TRUE
    BY <1>0, <2>1 DEF RequestShutdown, IsPool, Fields
  <2>5. Taking' = Taking
    BY <2>2 DEF Taking
  <2>6. Threads'
    BY <2>2, <2>3, <2>5 DEF ThreadsInv, Threads
  <2>7. Ending'
    BY <2>2, <2>3, <2>4 DEF ThreadsInv, Ending
  <2>8. NoThreadOutlivesPool'
    BY <2>3 DEF NoThreadOutlivesPool
  <2> QED BY <2>6, <2>7, <2>8 DEF ThreadsInv
<1>4. CASE wakeAllWorkers
  <2>1. /\ caller' = caller /\ listLock' = listLock /\ members' = members /\ departed' = departed /\ pool' = pool /\ ending.pc = "wake"
        /\ \A w \in Ids : thr'[w] = thr[w] \/ (thr[w] = "waiting" /\ thr'[w] = "ready")
    BY <1>4 DEF wakeAllWorkers
  <2>2. ending'.pc = "take" /\ ending'.kind = ending.kind /\ ending'.joining = ending.joining
    BY <1>4 DEF wakeAllWorkers, Types
  <2>3. ending.kind # "none"
    BY <2>1 DEF ThreadsInv, Ending
  <2> QED BY <2>1, <2>2, <2>3, GoesOn
<1>5. CASE TakeThreads
  <2>1. /\ caller' = caller /\ listLock' = listLock /\ members' = {} /\ departed' = {} /\ pool' = pool /\ thr' = thr
        /\ ending.pc = "take" /\ listLock = Free
    BY <1>5 DEF TakeThreads
  <2>2. /\ ending'.pc = (IF members = {} THEN "joined" ELSE "join") /\ ending'.kind = ending.kind /\ ending'.joining = members
    <3>1. ending' = [ending EXCEPT !.pc = IF members = {} THEN "joined" ELSE "join", !.joining = members]
      BY <1>5 DEF TakeThreads
    <3> QED BY <3>1 DEF Types
  <2>3. ending.kind # "none" /\ ending.joining = {} /\ pool.shutdown /\ Taking' = {}
    BY <2>1 DEF ThreadsInv, Ending, Taking
  <2>4. Threads'
    BY <2>1, <2>2, <2>3 DEF ThreadsInv, Threads
  <2>5. Ending'
    BY <2>1, <2>2, <2>3 DEF ThreadsInv, Ending
  <2>6. NoThreadOutlivesPool'
    BY <2>1, <2>2, <2>3 DEF ThreadsInv, Threads, NoThreadOutlivesPool
  <2> QED BY <2>4, <2>5, <2>6 DEF ThreadsInv
<1>6. CASE JoinThreads
  <2>1. /\ caller' = caller /\ listLock' = listLock /\ members' = members /\ departed' = departed /\ pool' = pool
        /\ thr' = [w \in Ids |-> IF w \in ending.joining THEN "none" ELSE thr[w]]
        /\ ending.pc = "join" /\ \A w \in ending.joining : thr[w] = "gone"
    BY <1>6 DEF JoinThreads
  <2>2. ending'.pc = "take" /\ ending'.kind = ending.kind /\ ending'.joining = {}
    BY <1>6 DEF JoinThreads, Types
  <2>3. Taking' = Taking /\ ending.kind # "none" /\ pool.shutdown
    BY <2>1 DEF Taking, ThreadsInv, Ending
  <2>4. members \in SUBSET Ids /\ departed \cup Taking \in SUBSET Ids /\ (departed \cup Taking) \cap ending.joining = {}
    BY DEF Types, ThreadsInv, Threads
  <2>5. Threads'
    <3>1. /\ \A d \in Callers : caller'[d].pc \in {"create", "set"} <=> listLock' = d
          /\ \A d \in Callers : listLock' # d => caller'[d].taking = {}
      BY <2>1 DEF ThreadsInv, Threads
    <3>2. /\ Taking' \subseteq members' /\ departed' \subseteq members' /\ Taking' \cap departed' = {}
          /\ members' \cap ending'.joining = {}
      BY <2>1, <2>2, <2>3 DEF ThreadsInv, Threads
    <3>3. \A v \in Ids : thr'[v] # "none" <=> v \in members' \cup ending'.joining
      BY <2>1, <2>2 DEF ThreadsInv, Threads
    <3>4. \A v \in departed' \cup Taking' : thr'[v] \in {"leaving", "gone"}
      BY <2>1, <2>3, <2>4 DEF ThreadsInv, Threads
    <3>5. \A d \in Ids : caller'[d].pc # "out" => thr'[d] = "running"
      BY <2>1 DEF ThreadsInv, Threads
    <3> QED BY <3>1, <3>2, <3>3, <3>4, <3>5 DEF Threads
  <2>6. Ending'
    BY <2>1, <2>2, <2>3 DEF ThreadsInv, Ending
  <2>7. NoThreadOutlivesPool'
    BY <2>2 DEF NoThreadOutlivesPool
  <2> QED BY <2>5, <2>6, <2>7 DEF ThreadsInv
<1>7. CASE UNCHANGED poolVars
  BY <1>7 DEF poolVars, ThreadsInv, Threads, Ending, Taking, NoThreadOutlivesPool
<1> QED
  BY <1>1, <1>2, <1>3, <1>4, <1>5, <1>6, <1>7 DEF Stopping

-----------------------------------------------------------------------------
(* The policies and the sizes are kept. *)

SameFields(p, q) ==
  /\ p.policy = q.policy /\ p.accepted = q.accepted /\ p.shutdown = q.shutdown /\ p.high = q.high

\* A step that moves no policy, takes no worker in and leaves the calls that hold the
\* lock where they are.
LEMMA HoldersStay ==
  ASSUME Types, Types', ThreadsInv, Agreed, Sizes, SameFields(pool', pool), members' = members, departed \subseteq departed',
         listLock' = listLock, \A w \in Ids : runs'[w].policy = runs[w].policy,
         \A c \in Callers : /\ caller'[c].pc \in {"create", "set"} \/ caller[c].pc \in {"create", "set"} => caller'[c] = caller[c]
  PROVE  Agreed' /\ Sizes'
<1>1. Taking' = Taking
  <2>1. ASSUME listLock # Free PROVE listLock \in Callers /\ caller[listLock].pc \in {"create", "set"}
    BY <2>1 DEF Types, ThreadsInv, Threads
  <2> QED BY <2>1 DEF Taking
<1>2. Live' \subseteq Live /\ Live \subseteq Ids
  BY <1>1 DEF Live, Types
<1>3. (\A c \in Callers : caller'[c].pc # "set") => \A c \in Callers : caller[c].pc # "set"
  OBVIOUS
<1>4. Agreed'
  BY <1>2, <1>3 DEF Agreed, SameFields
<1>5. Sizes'
  BY DEF Sizes, SameFields
<1> QED
  BY <1>4, <1>5

LEMMA CallHolders1 ==
  ASSUME Types, Types', ThreadsInv, Agreed, Sizes, NEW c \in Callers,
         DecideAgain(c) \/ relock(c) \/ NotifyOne(c) \/ \E p \in Priorities : Execute(c, p)
  PROVE  Agreed' /\ Sizes'
<1>0. IsPool(pool)
  BY DEF Types
<1>1. members' = members /\ departed' = departed /\ listLock' = listLock /\ runs' = runs
  BY DEF DecideAgain, Execute, relock, NotifyOne
<1>2. CASE DecideAgain(c) \/ \E p \in Priorities : Execute(c, p)
  <2>1. PICK p, prio : Decide(c, p, prio) /\ IsPool(p) /\ SameFields(p, pool)
    <3>1. IsPool([pool EXCEPT !.queued = @ + 1, !.tasks = @ + 1]) /\ SameFields([pool EXCEPT !.queued = @ + 1, !.tasks = @ + 1], pool)
      BY <1>0 DEF IsPool, Fields, SameFields
    <3>2. SameFields(pool, pool)
      BY DEF SameFields
    <3> QED BY <1>0, <1>2, <3>1, <3>2 DEF DecideAgain, Execute
  <2>2. SameFields(pool', pool)
    BY <2>1 DEF Decide, IsPool, Fields, SameFields
  <2>3. /\ caller'[c].pc \in {"sleep", "reserve", "notify"} /\ caller[c].pc \in {"out", "woken"}
        /\ \A d \in Callers \ {c} : caller'[d] = caller[d]
    <3>1. caller[c].pc \in {"out", "woken"}
      BY <1>2 DEF DecideAgain, Execute
    <3> QED BY <2>1, <3>1 DEF Decide, Types
  <2> QED BY <1>1, <2>2, <2>3, HoldersStay
<1>3. CASE relock(c)
  <2>1. SameFields(pool', pool)
    BY <1>0, <1>3 DEF relock, IsPool, Fields, SameFields
  <2>2. /\ caller'[c].pc \in {"notify", "out"} /\ caller[c].pc \in {"created", "refused", "unset"}
        /\ \A d \in Callers \ {c} : caller'[d] = caller[d] \/ {caller[d].pc, caller'[d].pc} \subseteq {"sleep", "woken"}
    BY <1>3 DEF relock, Types, Out
  <2> QED BY <1>1, <2>1, <2>2, HoldersStay
<1>4. CASE NotifyOne(c)
  <2>1. SameFields(pool', pool)
    BY <1>4 DEF NotifyOne, SameFields
  <2>2. caller'[c].pc = "out" /\ caller[c].pc = "notify" /\ \A d \in Callers \ {c} : caller'[d] = caller[d]
    BY <1>4 DEF NotifyOne, Types, Out
  <2> QED BY <1>1, <2>1, <2>2, HoldersStay
<1> QED
  BY <1>2, <1>3, <1>4

\* The threads a pool would keep if the departed ones were joined are the idle and the
\* busy ones, and a caller that is about to add one is counted besides.
LEMMA RoomForOne ==
  ASSUME Types, CountersInv, ThreadsInv, NEW c \in Callers, caller[c].pc = "reserve", listLock = Free, ~pool.shutdown
  PROVE  Cardinality(members \ departed) < pool.high
<1> DEFINE busy == {"running"}
<1>1. Taking = {} /\ ending.joining = {}
  BY DEF ThreadsInv, Ending, Taking
<1>2. members \ departed \subseteq InThr(Idle) \cup InThr(busy)
  BY <1>1 DEF ThreadsInv, Threads, Ending, InThr, Idle, Types, ThreadStates
<1>3. InThr(Idle) \cap InThr(busy) = {}
  BY DEF InThr, Idle
<1>4. Cardinality(InThr(Idle) \cup InThr(busy)) = W(Idle) + W(busy) - Cardinality({})
  BY <1>3, Finite, FS_Union DEF W
<1>5. IsFiniteSet(InThr(Idle) \cup InThr(busy))
  BY Finite, FS_Union
<1>6. Cardinality(members \ departed) <= Cardinality(InThr(Idle) \cup InThr(busy)) /\ Cardinality(members \ departed) \in Nat
  BY <1>2, <1>5, FS_Subset, FS_CardinalityType
<1>7. N(Unmade) >= 1
  BY Somebody DEF Unmade
<1>8. pool.threads = (W(Idle) + N(Unmade)) + W(busy) /\ pool.threads <= pool.high
  BY DEF CountersInv, Counters, Bounds
<1> DEFINE i == W(Idle)   b == W(busy)   n == N(Unmade)   m == Cardinality(members \ departed)
<1>9. i \in Int /\ b \in Int /\ n \in Int /\ m \in Int /\ pool.high \in Int /\ m <= i + b
  BY <1>4, <1>6, FS_EmptySet, Numbers DEF PoolInts
<1>10. n >= 1 /\ (i + n) + b <= pool.high
  BY <1>7, <1>8
<1> HIDE DEF i, b, n, m
<1>11. m < pool.high
  BY <1>9, <1>10
<1> QED
  BY <1>11 DEF m

LEMMA CallHolders2 ==
  ASSUME Types, Types', CountersInv, ThreadsInv, Agreed, Sizes, NEW c \in Callers,
         joinDepartedThreads(c) \/ CreateWorker(c) \/ updateLiveWorkers(c)
  PROVE  Agreed' /\ Sizes'
<1>0. IsPool(pool) /\ pool.high \in Int
  BY DEF Types, IsPool
<1>1. CASE joinDepartedThreads(c)
  <2>1. /\ caller[c].pc = "reserve" /\ listLock = Free /\ listLock' = c /\ departed' = {} /\ members' = members /\ pool' = pool /\ runs' = runs
        /\ caller'[c].pc = "create" /\ caller'[c].taking = departed /\ \A d \in Callers \ {c} : caller'[d] = caller[d]
    BY <1>1 DEF joinDepartedThreads, Types
  <2>2. Taking = {} /\ Taking' = departed
    BY <2>1, Constants DEF Taking, Free
  <2>3. Live' = Live
    BY <2>1, <2>2 DEF Live
  <2>4. (\A d \in Callers : caller'[d].pc # "set") => \A d \in Callers : caller[d].pc # "set"
    BY <2>1
  <2>5. Agreed'
    BY <2>1, <2>3, <2>4 DEF Agreed
  <2>6. \A d \in Callers : caller'[d].pc = "create" => d = c
    BY <2>1, Constants DEF ThreadsInv, Threads, Free
  <2>7. Sizes'
    BY <2>1, <2>6, RoomForOne DEF Sizes
  <2> QED BY <2>5, <2>7
<1>2. CASE CreateWorker(c)
  <2> DEFINE gone == caller[c].taking
  <2>1. caller[c].pc = "create" /\ listLock = c /\ departed' = departed /\ listLock' = Free
    BY <1>2 DEF CreateWorker, ThreadsInv, Threads
  <2>2. /\ Taking = gone /\ Taking' = {} /\ \A d \in Callers : caller[d].pc \in {"create", "set"} => d = c
    BY <2>1, Constants DEF Taking, Free, ThreadsInv, Threads
  <2>3. \A x \in {"refused", "created", "unset"} : caller' = [caller EXCEPT ![c].pc = x, ![c].taking = {}] =>
             caller'[c].pc = x /\ \A d \in Callers \ {c} : caller'[d] = caller[d]
    BY DEF Types
  <2>4. /\ \E x \in {"refused", "created", "unset"} : caller' = [caller EXCEPT ![c].pc = x, ![c].taking = {}]
        /\ \/ pool' = [pool EXCEPT !.refusals = @ + 1] /\ members' = members \ gone /\ runs' = runs
           \/ \E new \in Ids : /\ thr[new] = "none" /\ members' = (members \ gone) \cup {new}
                               /\ \/ pool' = [pool EXCEPT !.accepted = pool.policy] /\ runs' = [runs EXCEPT ![new].policy = pool.policy]
                                  \/ /\ pool' = [pool EXCEPT !.refusals = @ + 1, !.policy = pool.accepted]
                                     /\ runs' = [runs EXCEPT ![new].policy = pool.accepted]
    <3>1. \E x \in {"refused", "created", "unset"} : caller' = [caller EXCEPT ![c].pc = x, ![c].taking = {}]
      BY <1>2 DEF CreateWorker
    <3> QED BY <1>2, <3>1 DEF CreateWorker
  <2>5. \A d \in Callers : caller'[d].pc \notin {"create", "set"}
    BY <2>2, <2>3, <2>4
  <2>6. \A d \in Callers : caller[d].pc # "set"
    BY <2>1, <2>2
  <2>7. /\ IsFiniteSet(members \ gone) /\ Cardinality(members \ gone) \in Nat
        /\ ~pool.shutdown => Cardinality(members \ gone) < pool.high
    <3>1. members \ gone \in SUBSET Ids
      BY DEF Types
    <3> QED BY <2>1, <3>1, PoolAssumption, FS_Subset, FS_CardinalityType DEF Sizes
  <2> HIDE DEF gone
  <2>8. CASE pool' = [pool EXCEPT !.refusals = @ + 1] /\ members' = members \ gone /\ runs' = runs
    <3>1. SameFields(pool', pool)
      BY <1>0, <2>8 DEF IsPool, Fields, SameFields
    <3>2. Live' = Live
      BY <2>1, <2>2, <2>8 DEF Live
    <3>3. Agreed'
      BY <2>6, <2>8, <3>1, <3>2 DEF Agreed, SameFields
    <3>4. Sizes'
      BY <1>0, <2>5, <2>7, <2>8, <3>1 DEF Sizes, SameFields
    <3> QED BY <3>3, <3>4
  <2>9. ASSUME NEW new \in Ids, thr[new] = "none", members' = (members \ gone) \cup {new},
               \/ pool' = [pool EXCEPT !.accepted = pool.policy] /\ runs' = [runs EXCEPT ![new].policy = pool.policy]
               \/ /\ pool' = [pool EXCEPT !.refusals = @ + 1, !.policy = pool.accepted]
                  /\ runs' = [runs EXCEPT ![new].policy = pool.accepted]
        PROVE  Agreed' /\ Sizes'
    <3>1. Live' \subseteq Live \cup {new} /\ Live \subseteq Ids /\ new \notin Live
      BY <2>1, <2>2, <2>9 DEF Live, Types, ThreadsInv, Threads
    <3>2. /\ pool'.policy = pool'.accepted /\ pool'.accepted \in {pool.policy, pool.accepted}
          /\ runs'[new].policy = pool'.accepted /\ \A w \in Ids \ {new} : runs'[w] = runs[w]
          /\ pool'.shutdown = pool.shutdown /\ pool'.high = pool.high
      <4>1. CASE pool' = [pool EXCEPT !.accepted = pool.policy] /\ runs' = [runs EXCEPT ![new].policy = pool.policy]
        BY <1>0, <4>1 DEF Types, IsPool, Fields
      <4>2. CASE /\ pool' = [pool EXCEPT !.refusals = @ + 1, !.policy = pool.accepted]
                 /\ runs' = [runs EXCEPT ![new].policy = pool.accepted]
        BY <1>0, <4>2 DEF Types, IsPool, Fields
      <4> QED BY <2>9, <4>1, <4>2
    <3>3. ~pool.shutdown => \A w \in Live : runs[w].policy = pool.accepted /\ pool.policy = pool.accepted
      BY <2>6 DEF Agreed
    <3>4. Agreed'
      BY <3>1, <3>2, <3>3 DEF Agreed
    <3>5. Cardinality(members') <= Cardinality(members \ gone) + 1 /\ Cardinality(members') \in Nat
      <4>1. Cardinality((members \ gone) \cup {new}) = Cardinality(members \ gone) \/ Cardinality((members \ gone) \cup {new}) = Cardinality(members \ gone) + 1
        BY <2>7, FS_AddElement
      <4> QED BY <2>7, <2>9, <4>1
    <3>6. Sizes'
      BY <1>0, <2>5, <2>7, <3>2, <3>5 DEF Sizes
    <3> QED BY <3>4, <3>6
  <2> QED BY <2>4, <2>8, <2>9
<1>3. CASE updateLiveWorkers(c)
  <2> DEFINE gone == caller[c].taking
             live == members \ (gone \cup departed)
  <2>1. /\ caller[c].pc = "set" /\ listLock = c /\ departed' = departed /\ listLock' = Free /\ members' = members \ gone
        /\ caller' = [caller EXCEPT ![c] = Out]
    BY <1>3 DEF updateLiveWorkers, ThreadsInv, Threads
  <2>2. Taking = gone /\ Taking' = {} /\ \A d \in Callers : caller[d].pc \in {"create", "set"} => d = c
    BY <2>1, Constants DEF Taking, Free, ThreadsInv, Threads
  <2>3. Live' = live /\ Live = live /\ live \subseteq Ids
    BY <2>1, <2>2 DEF Live, Types
  <2>4. \A d \in Callers : caller'[d].pc \notin {"create", "set"}
    BY <2>1, <2>2 DEF Types, Out
  <2>5. pool'.shutdown = pool.shutdown /\ pool'.high = pool.high
    <3>1. \/ pool' = pool \/ pool' = [pool EXCEPT !.accepted = pool.policy]
          \/ pool' = [pool EXCEPT !.policy = pool.accepted, !.refusals = @ + 1]
      BY <1>3 DEF updateLiveWorkers
    <3> QED BY <1>0, <3>1 DEF IsPool, Fields
  <2>6. Agreed'
    <3> SUFFICES ASSUME ~pool.shutdown, live # {} PROVE Agreed'
      BY <2>3, <2>5 DEF Agreed
    <3> DEFINE Policed(set, p) == [w \in Ids |-> IF w \in set THEN [runs[w] EXCEPT !.policy = p] ELSE runs[w]]
    <3>1. \/ runs' = Policed(live, pool.policy) /\ pool' = [pool EXCEPT !.accepted = pool.policy]
          \/ /\ \E set \in SUBSET live : runs' = Policed(set, pool.accepted)
             /\ pool' = [pool EXCEPT !.policy = pool.accepted, !.refusals = @ + 1]
      BY <1>3 DEF updateLiveWorkers
    <3>2. CASE runs' = Policed(live, pool.policy) /\ pool' = [pool EXCEPT !.accepted = pool.policy]
      <4>1. pool'.policy = pool.policy /\ pool'.accepted = pool.policy
        BY <1>0, <3>2 DEF IsPool, Fields
      <4>2. \A w \in live : runs'[w].policy = pool.policy
        BY <2>3, <3>2 DEF Types
      <4> QED BY <2>3, <4>1, <4>2 DEF Agreed
    <3>3. ASSUME NEW set \in SUBSET live, runs' = Policed(set, pool.accepted),
                 pool' = [pool EXCEPT !.policy = pool.accepted, !.refusals = @ + 1]
          PROVE  Agreed'
      <4>1. pool'.policy = pool.accepted /\ pool'.accepted = pool.accepted
        BY <1>0, <3>3 DEF IsPool, Fields
      <4>2. \A w \in live : runs[w].policy = pool.accepted
        BY <2>3 DEF Agreed
      <4>3. \A w \in live : runs'[w].policy = pool.accepted
        BY <2>3, <3>3, <4>2 DEF Types
      <4> QED BY <2>3, <4>1, <4>3 DEF Agreed
    <3> QED BY <3>1, <3>2, <3>3
  <2>7. Sizes'
    <3>1. members \in SUBSET Ids
      BY DEF Types
    <3>2. Cardinality(members') <= Cardinality(members) /\ Cardinality(members) \in Nat /\ Cardinality(members') \in Nat
      BY <2>1, <3>1, PoolAssumption, FS_Subset, FS_CardinalityType
    <3> QED BY <1>0, <2>4, <2>5, <3>2 DEF Sizes
  <2> QED BY <2>6, <2>7
<1> QED
  BY <1>1, <1>2, <1>3

LEMMA WorkerHolders ==
  ASSUME Types, Types', ThreadsInv, Agreed, Sizes, NEW w \in Ids, PoolWorkerStep(w) \/ FinishTask(w) \/ WaitEnds(w)
  PROVE  Agreed' /\ Sizes'
<1>0. IsPool(pool)
  BY DEF Types
<1>1. /\ caller' = caller /\ listLock' = listLock /\ members' = members /\ departed \subseteq departed'
  BY DEF PoolWorkerStep, WorkerStarts, popTask, WaitForTask, FinishTask, WaitEnds, Depart, WorkerEnds
<1>2. SameFields(pool', pool)
  <2>1. \/ pool' = pool
        \/ pool' = [pool EXCEPT !.idle = @ - 1, !.queued = @ - 1]
        \/ pool' = [pool EXCEPT !.idle = @ + 1]
        \/ pool' = [pool EXCEPT !.threads = @ - 1, !.idle = @ - 1]
    BY DEF PoolWorkerStep, WorkerStarts, popTask, WaitForTask, FinishTask, WaitEnds, Depart, WorkerEnds
  <2> QED BY <1>0, <2>1 DEF IsPool, Fields, SameFields
<1>3. \A v \in Ids : runs'[v].policy = runs[v].policy
  <2>1. runs' = runs \/ (\E x : runs' = [runs EXCEPT ![w].prio = x]) \/ (\E x : runs' = [runs EXCEPT ![w].last = x])
    BY DEF PoolWorkerStep, WorkerStarts, popTask, WaitForTask, FinishTask, WaitEnds, Depart, WorkerEnds
  <2> QED BY <2>1 DEF Types
<1> QED
  BY <1>1, <1>2, <1>3, HoldersStay

LEMMA OtherHolders ==
  ASSUME Types, Types', ThreadsInv, Agreed, Sizes,
         \/ \E c \in PoolCallers, p \in Policies : StorePolicy(c, p)
         \/ \E b \in PoolBounds : setThreadBounds(b)
         \/ \E k \in {"shutdown", "destroy"} : RequestShutdown(k)
         \/ Stopping \/ UNCHANGED poolVars
  PROVE  Agreed' /\ Sizes'
<1>0. IsPool(pool) /\ pool.high \in Int
  BY DEF Types, IsPool
<1>1. CASE \E c \in PoolCallers, p \in Policies : StorePolicy(c, p)
  <2>1. PICK c \in PoolCallers, p \in Policies : StorePolicy(c, p)
    BY <1>1
  <2>2. /\ c \in Callers /\ caller'[c].pc = "set" /\ caller'[c].taking = departed /\ \A d \in Callers \ {c} : caller'[d] = caller[d]
    <3>1. /\ c \in Callers /\ caller' = [caller EXCEPT ![c].pc = "set", ![c].taking = departed]
          /\ "set" \in Pcs /\ departed \in SUBSET Ids
      BY <2>1, Constants DEF StorePolicy, Types, Pcs
    <3>2. /\ caller'[c] = [caller[c] EXCEPT !.pc = "set", !.taking = departed]
          /\ \A d \in Callers \ {c} : caller'[d] = caller[d]
      BY <3>1 DEF Types
    <3> QED BY <3>1, <3>2 DEF Types
  <2>3. /\ listLock = Free /\ listLock' = c /\ members' = members /\ departed' = {} /\ runs' = runs
    BY <2>1 DEF StorePolicy
  <2>4. pool'.accepted = pool.accepted /\ pool'.shutdown = pool.shutdown /\ pool'.high = pool.high
    BY <1>0, <2>1 DEF StorePolicy, IsPool, Fields
  <2>5. Live' = Live /\ Live \subseteq Ids
    BY <2>2, <2>3, Constants DEF Live, Taking, Free, Types
  <2>6. Agreed'
    BY <2>2, <2>3, <2>4, <2>5 DEF Agreed
  <2>7. Sizes'
    BY <2>2, <2>3, <2>4 DEF Sizes
  <2> QED BY <2>6, <2>7
<1>2. CASE \E b \in PoolBounds : setThreadBounds(b)
  <2>1. PICK b \in PoolBounds : setThreadBounds(b)
    BY <1>2
  <2> DEFINE low == IF pool.queued = 0 \/ b[2] < pool.low THEN b[2] ELSE pool.low
             high == IF b[2] > pool.high THEN b[2] ELSE pool.high
  <2>2. pool' = [pool EXCEPT !.sets = @ + 1, !.min = b[1], !.max = b[2], !.low = low, !.high = high]
    BY <2>1 DEF setThreadBounds
  <2>3. b[2] \in Int
    BY Constants
  <2>4. high \in Int /\ pool.high <= high
    BY <1>0, <2>3
  <2> HIDE DEF low, high
  <2>5. pool'.policy = pool.policy /\ pool'.accepted = pool.accepted /\ pool'.shutdown = pool.shutdown /\ pool'.high = high
    BY <1>0, <2>2 DEF IsPool, Fields
  <2>6. /\ caller' = caller /\ listLock' = listLock /\ members' = members /\ departed' = departed /\ runs' = runs
    BY <2>1 DEF setThreadBounds
  <2>7. Live' = Live
    BY <2>6 DEF Live, Taking
  <2>8. Agreed'
    BY <2>5, <2>6, <2>7 DEF Agreed
  <2>9. Sizes'
    <3>1. \A S \in SUBSET Ids : Cardinality(S) \in Nat
      BY PoolAssumption, FS_Subset, FS_CardinalityType
    <3>2. members \in SUBSET Ids /\ \A d \in Callers : members \ caller[d].taking \in SUBSET Ids
      BY DEF Types
    <3>3. Cardinality(members) \in Int /\ \A d \in Callers : Cardinality(members \ caller[d].taking) \in Int
      BY <3>1, <3>2
    <3> QED BY <1>0, <2>4, <2>5, <2>6, <3>3 DEF Sizes
  <2> QED BY <2>8, <2>9
<1>3. CASE \E k \in {"shutdown", "destroy"} : RequestShutdown(k)
  <2>1. pool'.shutdown = TRUE
    BY <1>0, <1>3 DEF RequestShutdown, IsPool, Fields
  <2> QED BY <2>1 DEF Agreed, Sizes
<1>4. CASE wakeAllWorkers \/ JoinThreads \/ UNCHANGED poolVars
  <2>1. pool' = pool /\ caller' = caller /\ listLock' = listLock /\ members' = members /\ departed' = departed /\ runs' = runs
    BY <1>4 DEF wakeAllWorkers, JoinThreads, poolVars
  <2>2. SameFields(pool', pool)
    BY <2>1 DEF SameFields
  <2> QED BY <2>1, <2>2, HoldersStay
<1>5. CASE TakeThreads
  <2>1. ending.kind # "none" /\ pool.shutdown /\ pool' = pool
    BY <1>5 DEF TakeThreads, ThreadsInv, Ending
  <2> QED BY <2>1 DEF Agreed, Sizes
<1> QED
  BY <1>1, <1>2, <1>3, <1>4, <1>5 DEF Stopping

-----------------------------------------------------------------------------
(* The invariant. *)

LEMMA PoolStarts ==
  ASSUME PoolInit
  PROVE  PoolInv
<1>1. PICK b \in PoolBounds :
       /\ pool = [queued |-> 0, idle |-> b[1], reserved |-> 0, threads |-> b[1], min |-> b[1], max |-> b[2],
                  low |-> b[2], high |-> b[2], policy |-> "other", accepted |-> "other",
                  shutdown |-> FALSE, tasks |-> 0, sets |-> 0, refusals |-> 0]
       /\ members = 1 .. b[1]
       /\ thr = [w \in Ids |-> IF w <= b[1] THEN "born" ELSE "none"]
  BY DEF PoolInit
<1>2. /\ runs = [w \in Ids |-> [prio |-> 0, policy |-> "other", last |-> FALSE]]
      /\ caller = [c \in Callers |-> Out]
      /\ jobs = <<>> /\ departed = {} /\ listLock = Free
      /\ ending = [pc |-> "open", kind |-> "none", joining |-> {}]
  BY DEF PoolInit
<1>3. b[1] \in Nat /\ b[2] \in Nat /\ b[1] <= b[2] /\ 1 .. b[1] \subseteq Ids /\ Ids \subseteq Nat /\ 0 \notin Ids
  BY PoolAssumption
<1>9. Cardinality(1 .. b[1]) = b[1]
  <2> DEFINE m == b[1]
  <2>1. 1 \in Int /\ m \in Int /\ m >= 0
    BY <1>3
  <2> HIDE DEF m
  <2>2. Cardinality(1 .. m) = IF 1 > m THEN 0 ELSE m - 1 + 1
    BY <2>1, FS_Interval
  <2>3. Cardinality(1 .. m) = m
    BY <2>1, <2>2
  <2> QED BY <2>3 DEF m
<1>4. Types
  <2>1. IsPool(pool)
    BY <1>1, <1>3 DEF IsPool, Fields, AllPolicies
  <2>2. thr \in [Ids -> ThreadStates] /\ members \in SUBSET Ids
    BY <1>1, <1>3 DEF ThreadStates
  <2>3. runs \in [Ids -> [prio : Prios, policy : AllPolicies, last : BOOLEAN]]
    BY <1>2 DEF Prios, AllPolicies
  <2>4. caller \in [Callers -> [pc : Pcs, prio : Prios, taking : SUBSET Ids]]
    BY <1>2 DEF Pcs, Prios, Out
  <2>5. ending \in [pc : {"open", "wake", "take", "join", "joined"}, kind : {"none", "shutdown", "destroy"}, joining : SUBSET Ids]
    BY <1>2
  <2> QED BY <1>2, <2>1, <2>2, <2>3, <2>4, <2>5, EmptySeq DEF Types
<1>5. CountersInv
  <2>1. InPc(Reserving) = {} /\ InPc(Unmade) = {} /\ InPc(Blocked) = {}
    BY <1>2 DEF InPc, Out, Reserving, Unmade, Blocked
  <2>2. N(Reserving) = 0 /\ N(Unmade) = 0 /\ N(Blocked) = 0
    BY <2>1, FS_EmptySet DEF N
  <2>3. InThr(Idle) = 1 .. b[1] /\ InThr({"running"}) = {} /\ Waiting = {}
    <3>1. \A w \in Ids : w \in 1 .. b[1] <=> w <= b[1]
      BY <1>3
    <3>2. \A w \in Ids : thr[w] = IF w \in 1 .. b[1] THEN "born" ELSE "none"
      BY <1>1, <3>1
    <3> QED BY <1>3, <3>2 DEF InThr, Idle, Waiting
  <2>4. W(Idle) = b[1] /\ W({"running"}) = 0
    <3>1. Cardinality(1 .. b[1]) = b[1]
      BY <1>9
    <3> QED BY <2>3, <3>1, FS_EmptySet DEF W
  <2>5. Counters
    BY <1>1, <1>2, <1>3, <2>2, <2>4 DEF Counters
  <2> QED BY <1>1, <1>3, <2>2, <2>3, <2>5 DEF CountersInv, Bounds, Covered, Rested
<1>6. ThreadsInv
  <2>1. Taking = {}
    BY <1>2 DEF Taking
  <2>2. Threads
    BY <1>1, <1>2, <1>3, <2>1, Constants DEF Threads, Out, Free
  <2>3. Ending
    BY <1>1, <1>2, <1>3, <2>1, Constants DEF Ending, Out
  <2> QED BY <1>2, <2>2, <2>3 DEF ThreadsInv, NoThreadOutlivesPool
<1>7. Agreed
  BY <1>1, <1>2, <1>3 DEF Agreed, Live
<1>8. Sizes
  <2>1. Cardinality(members) = b[1]
    BY <1>1, <1>9
  <2> QED BY <1>1, <1>2, <1>3, <2>1 DEF Sizes, Out
<1> QED
  BY <1>4, <1>5, <1>6, <1>7, <1>8 DEF PoolInv

LEMMA PoolKept ==
  ASSUME PoolInv, [PoolNext]_poolVars
  PROVE  PoolInv'
<1> USE DEF PoolInv
<1>1. ASSUME NEW c \in Callers, PoolCallStep(c) \/ \E p \in Priorities : Execute(c, p) PROVE PoolInv'
  <2>1. Types'
    BY <1>1, CallTypes
  <2>2. CountersInv'
    BY <1>1, <2>1, CallCounts
  <2>3. ThreadsInv'
    BY <1>1, <2>1, CallThreads1, CallThreads2, CallThreads3 DEF PoolCallStep
  <2>4. Agreed' /\ Sizes'
    BY <1>1, <2>1, CallHolders1, CallHolders2 DEF PoolCallStep
  <2> QED BY <2>1, <2>2, <2>3, <2>4
<1>2. ASSUME NEW w \in Ids, PoolWorkerStep(w) \/ FinishTask(w) \/ WaitEnds(w) PROVE PoolInv'
  <2>1. Types'
    BY <1>2, WorkerTypes
  <2>2. CountersInv'
    BY <1>2, <2>1, WorkerCounts
  <2>3. ThreadsInv'
    BY <1>2, <2>1, WorkerThreads
  <2>4. Agreed' /\ Sizes'
    BY <1>2, <2>1, WorkerHolders
  <2> QED BY <2>1, <2>2, <2>3, <2>4
<1>3. ASSUME \/ \E c \in PoolCallers, p \in Policies : StorePolicy(c, p)
             \/ \E b \in PoolBounds : setThreadBounds(b)
             \/ \E k \in {"shutdown", "destroy"} : RequestShutdown(k)
             \/ Stopping \/ UNCHANGED poolVars
      PROVE  PoolInv'
  <2>1. Types'
    BY <1>3, OtherTypes
  <2>2. CountersInv'
    BY <1>3, <2>1, OtherCounts
  <2>3. ThreadsInv'
    BY <1>3, <2>1, OtherThreads
  <2>4. Agreed' /\ Sizes'
    BY <1>3, <2>1, OtherHolders
  <2> QED BY <2>1, <2>2, <2>3, <2>4
<1> QED
  BY <1>1, <1>2, <1>3 DEF PoolNext

LEMMA PoolHolds ==
  ASSUME PoolInv
  PROVE  PoolAccounted
<1> USE DEF PoolInv
<1>1. NoTaskStranded
  <2>1. IdleWorkers \ Waiting = InThr(Awake)
    BY DEF IdleWorkers, Waiting, InThr, Awake
  <2> QED BY <2>1 DEF NoTaskStranded, CountersInv, Rested, W, N
<1>2. GrowsToMax
  <2> SUFFICES ASSUME ~pool.shutdown, InPc({"sleep", "woken"}) = {} PROVE pool.idle >= pool.queued \/ pool.threads >= pool.low
    BY DEF GrowsToMax
  <2>1. N(Blocked) = 0
    BY FS_EmptySet DEF N, Blocked
  <2>2. N(Unmade) \in Nat
    BY Finite
  <2>3. pool.idle >= pool.queued - N(Blocked) \/ pool.threads - N(Unmade) >= pool.low
    BY DEF CountersInv, Covered
  <2> QED BY <2>1, <2>2, <2>3, Numbers DEF PoolInts
<1>3. HeldWithinMax
  BY DEF HeldWithinMax, Sizes
<1>4. PolicyAgrees
  <2> SUFFICES ASSUME ~pool.shutdown, listLock = Free, NEW w \in members \ departed
               PROVE  runs[w].policy = pool.accepted /\ pool.policy = pool.accepted
    BY DEF PolicyAgrees
  <2>1. w \in Live
    BY DEF Live, Taking
  <2>2. \A c \in Callers : caller[c].pc # "set"
    BY Constants DEF ThreadsInv, Threads, Free
  <2> QED BY <2>1, <2>2 DEF Agreed
<1> QED
  BY <1>1, <1>2, <1>3, <1>4 DEF PoolAccounted, ThreadsInv

\* Every reachable state: no task is stranded, the pool grows to its bound and holds no
\* more, no thread outlives it, and its workers agree with the policy it reports.
THEOREM TasksMeetWorkers == PoolSpec => []PoolAccounted
<1>1. PoolInit => PoolInv
  BY PoolStarts
<1>2. PoolInv /\ [PoolNext]_poolVars => PoolInv'
  BY PoolKept
<1>3. PoolInv => PoolAccounted
  BY PoolHolds
<1> QED
  BY <1>1, <1>2, <1>3, PTL DEF PoolSpec
=============================================================================
