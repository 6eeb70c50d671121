------------------------------ MODULE ThreadPool ------------------------------
(***************************************************************************)
(* BasicThreadPool (thread_pool.hpp): execute() with its reservation of a   *)
(* worker, workers that run tasks and leave at their keep-alive, the two    *)
(* mutexes, shutdown and destruction, and the scheduling policy.  What a    *)
(* thread does while it holds _waitMutex is one step; _threadListMutex is   *)
(* the variable listLock.                                                   *)
(***************************************************************************)
EXTENDS Integers, Sequences, FiniteSets, SequencesExt

CONSTANTS PoolCallers,       \* threads that call the pool and are not its workers
          Ids,           \* 1 .. the most worker threads of a behaviour
          PoolBounds,    \* pairs <<min, max>> for setThreadBounds()
          Priorities,
          Policies,      \* scheduling policies
          MaxTasks,      \* bound on the calls of execute()
          MaxSets,       \* bound on the changes of bounds and policy
          MaxRefusals    \* bound on the threads and policies the system refuses

ASSUME PoolAssumption ==
  /\ Ids \in SUBSET (Nat \ {0}) /\ IsFiniteSet(Ids) /\ IsFiniteSet(PoolCallers)
  /\ PoolCallers \cap (Ids \cup {0}) = {}
  /\ \A b \in PoolBounds : b \in Nat \X Nat /\ b[1] <= b[2] /\ 1 .. b[1] \subseteq Ids

VARIABLES thr,       \* per worker id: "none", "born", "ready", "waiting", "running", "leaving", "gone"
          runs,      \* per worker id, the priority of its task
          caller,      \* per caller, where it is in the pool's code
          jobs,      \* _taskQueue: the priorities, in order
          pool,      \* the counters, the bounds, the policies and the flag
          members,      \* _threads
          departed,  \* _departedThreads
          listLock,  \* the holder of _threadListMutex
          ending       \* requestShutdown() or the destructor

poolVars == <<thr, runs, caller, jobs, pool, members, departed, listLock, ending>>

Callers == PoolCallers \cup Ids
Free == 0
Out == [pc |-> "out", prio |-> 0, taking |-> {}]

\* TaskQueue::push(): a task of priority 0 goes to the end, another one before the
\* first of lower priority.
push(q, p) ==
  LET lower == {k \in DOMAIN q : q[k] < p}
  IN IF p = 0 \/ lower = {} THEN Append(q, p) ELSE InsertAt(q, CHOOSE k \in lower : \A j \in lower : k <= j, p)

lacksIdleWorker(p) == p.idle < p.queued

PoolInit ==
  /\ \E b \in PoolBounds :
       /\ pool = [queued |-> 0, idle |-> b[1], reserved |-> 0, threads |-> b[1], min |-> b[1], max |-> b[2],
                  low |-> b[2], high |-> b[2], policy |-> "other", accepted |-> "other",
                  shutdown |-> FALSE, tasks |-> 0, sets |-> 0, refusals |-> 0]
       /\ members = 1 .. b[1]
       /\ thr = [w \in Ids |-> IF w <= b[1] THEN "born" ELSE "none"]
  /\ runs = [w \in Ids |-> [prio |-> 0, policy |-> "other", last |-> FALSE]]
  /\ caller = [c \in Callers |-> Out]
  /\ jobs = <<>> /\ departed = {} /\ listLock = Free
  /\ ending = [pc |-> "open", kind |-> "none", joining |-> {}]

-----------------------------------------------------------------------------
\* execute(), under _waitMutex with its task counted in p.queued: it sleeps until a
\* reserved worker is created or refused, reserves a worker, or queues its task.
Decide(c, p, prio) ==
  LET undecided == p.reserved > 0 /\ lacksIdleWorker(p) /\ p.threads >= p.max
      adds == lacksIdleWorker(p) /\ p.threads < p.max
  IN /\ caller' = [caller EXCEPT ![c] = [pc |-> IF undecided THEN "sleep" ELSE IF adds THEN "reserve" ELSE "notify",
                                     prio |-> prio, taking |-> {}]]
     /\ jobs' = IF undecided \/ adds THEN jobs ELSE push(jobs, prio)
     /\ pool' = IF adds THEN [p EXCEPT !.threads = @ + 1, !.idle = @ + 1, !.reserved = @ + 1] ELSE p

Execute(c, prio) ==
  /\ caller[c].pc = "out" /\ pool.tasks < MaxTasks
  /\ IF c \in Ids THEN thr[c] = "running" ELSE ending.kind # "destroy"
  /\ Decide(c, [pool EXCEPT !.queued = @ + 1, !.tasks = @ + 1], prio)
  /\ UNCHANGED <<thr, runs, members, departed, listLock, ending>>

DecideAgain(c) ==
  /\ caller[c].pc = "woken"
  /\ Decide(c, pool, caller[c].prio)
  /\ UNCHANGED <<thr, runs, members, departed, listLock, ending>>

\* addWorker() takes _threadListMutex, and joinDepartedThreads() the records.
joinDepartedThreads(c) ==
  /\ caller[c].pc = "reserve" /\ listLock = Free
  /\ listLock' = c
  /\ caller' = [caller EXCEPT ![c].pc = "create", ![c].taking = departed]
  /\ departed' = {}
  /\ UNCHANGED <<thr, runs, jobs, pool, members, ending>>

\* The departed workers are joined; then the thread is created or refused, and a
\* new thread takes the policy or refuses it.
CreateWorker(c) ==
  LET gone == caller[c].taking
      Joined == [w \in Ids |-> IF w \in gone THEN "none" ELSE thr[w]]
  IN /\ caller[c].pc = "create" /\ \A w \in gone : thr[w] = "gone"
     /\ listLock' = Free
     /\ \/ /\ pool.refusals < MaxRefusals
           /\ pool' = [pool EXCEPT !.refusals = @ + 1]
           /\ thr' = Joined /\ members' = members \ gone /\ UNCHANGED runs
           /\ caller' = [caller EXCEPT ![c].pc = "refused", ![c].taking = {}]
        \/ \E new \in Ids :
           /\ thr[new] = "none" /\ \A w \in Ids : thr[w] = "none" => new <= w
           /\ thr' = [Joined EXCEPT ![new] = "born"] /\ members' = (members \ gone) \cup {new}
           /\ \/ /\ pool' = [pool EXCEPT !.accepted = pool.policy]
                 /\ runs' = [runs EXCEPT ![new].policy = pool.policy]
                 /\ caller' = [caller EXCEPT ![c].pc = "created", ![c].taking = {}]
              \/ /\ pool.refusals < MaxRefusals /\ pool.policy # pool.accepted
                 /\ pool' = [pool EXCEPT !.refusals = @ + 1, !.policy = pool.accepted]
                 /\ runs' = [runs EXCEPT ![new].policy = pool.accepted]
                 /\ caller' = [caller EXCEPT ![c].pc = "unset", ![c].taking = {}]
     /\ UNCHANGED <<jobs, departed, ending>>

(* mutant: a refusal wakes no other caller *)
relockQuietly(c) ==
  /\ caller[c].pc \in {"created", "refused", "unset"}
  /\ LET gave == [pool EXCEPT !.reserved = @ - 1, !.queued = IF caller[c].pc = "created" THEN @ ELSE @ - 1]
     IN pool' = IF caller[c].pc = "refused" THEN [gave EXCEPT !.idle = @ - 1, !.threads = @ - 1] ELSE gave
  /\ jobs' = IF caller[c].pc = "created" THEN push(jobs, caller[c].prio) ELSE jobs
  /\ caller' = [d \in Callers |-> IF d = c THEN (IF caller[c].pc = "created" THEN [caller[c] EXCEPT !.pc = "notify"] ELSE Out)
                                ELSE IF caller[d].pc = "sleep" /\ caller[c].pc = "created" THEN [caller[d] EXCEPT !.pc = "woken"] ELSE caller[d]]
  /\ UNCHANGED <<thr, runs, members, departed, listLock, ending>>

\* addWorker() holds _waitMutex again: it gives the reservation up and wakes the
\* callers that wait for its outcome; a refusal leaves by the exception.
relock(c) ==
  /\ caller[c].pc \in {"created", "refused", "unset"}
  /\ LET gave == [pool EXCEPT !.reserved = @ - 1, !.queued = IF caller[c].pc = "created" THEN @ ELSE @ - 1]
     IN pool' = IF caller[c].pc = "refused" THEN [gave EXCEPT !.idle = @ - 1, !.threads = @ - 1] ELSE gave
  /\ jobs' = IF caller[c].pc = "created" THEN push(jobs, caller[c].prio) ELSE jobs
  /\ caller' = [d \in Callers |-> IF d = c THEN (IF caller[c].pc = "created" THEN [caller[c] EXCEPT !.pc = "notify"] ELSE Out)
                                ELSE IF caller[d].pc = "sleep" THEN [caller[d] EXCEPT !.pc = "woken"] ELSE caller[d]]
  /\ UNCHANGED <<thr, runs, members, departed, listLock, ending>>

Waiting == {w \in Ids : thr[w] = "waiting"}

\* notify_one(), after the unlock.
NotifyOne(c) ==
  /\ caller[c].pc = "notify"
  /\ caller' = [caller EXCEPT ![c] = Out]
  /\ \/ Waiting = {} /\ UNCHANGED thr
     \/ \E w \in Waiting : thr' = [thr EXCEPT ![w] = "ready"]
  /\ UNCHANGED <<runs, jobs, pool, members, departed, listLock, ending>>

-----------------------------------------------------------------------------
\* worker(): it starts when its constraints are set.
WorkerStarts(w) ==
  /\ thr[w] = "born" /\ listLock = Free
  /\ thr' = [thr EXCEPT ![w] = "ready"]
  /\ UNCHANGED <<runs, caller, jobs, pool, members, departed, listLock, ending>>

popTask(w) ==
  /\ thr[w] = "ready" /\ ~pool.shutdown /\ jobs # <<>>
  /\ jobs' = Tail(jobs)
  /\ runs' = [runs EXCEPT ![w].prio = Head(jobs)]
  /\ pool' = [pool EXCEPT !.idle = @ - 1, !.queued = @ - 1]
  /\ thr' = [thr EXCEPT ![w] = "running"]
  /\ UNCHANGED <<caller, members, departed, listLock, ending>>

\* A task returns or throws; it is not inside a call of the pool.
FinishTask(w) ==
  /\ thr[w] = "running" /\ caller[w].pc = "out"
  /\ pool' = [pool EXCEPT !.idle = @ + 1]
  /\ thr' = [thr EXCEPT ![w] = "ready"]
  /\ UNCHANGED <<runs, caller, jobs, members, departed, listLock, ending>>

(* mutant: looks at the queue, not at the tasks about to be queued *)
MayLeaveUnqueued(w) == pool.threads > pool.min

\* The keep-alive has passed, no task is queued or about to be, and the pool holds
\* more than its minimum.
MayLeave(w) == pool.queued = 0 /\ pool.threads > pool.min

\* wait_until(): before the keep-alive, or past it when the worker is kept.
WaitForTask(w) ==
  /\ thr[w] = "ready" /\ ~pool.shutdown /\ jobs = <<>>
  /\ thr' = [thr EXCEPT ![w] = "waiting"]
  /\ UNCHANGED <<runs, caller, jobs, pool, members, departed, listLock, ending>>

\* The keep-alive ends or the wait returns without a cause.
WaitEnds(w) ==
  /\ thr[w] = "waiting"
  /\ thr' = [thr EXCEPT ![w] = "ready"]
  /\ UNCHANGED <<runs, caller, jobs, pool, members, departed, listLock, ending>>

\* At its keep-alive a worker records its departure, at shutdown it does not.
Depart(w) ==
  /\ thr[w] = "ready"
  /\ pool.shutdown \/ (jobs = <<>> /\ MayLeave(w))
  /\ pool' = [pool EXCEPT !.threads = @ - 1, !.idle = @ - 1]
  /\ runs' = [runs EXCEPT ![w].last = pool.threads = 1]
  /\ departed' = IF pool.shutdown THEN departed ELSE departed \cup {w}
  /\ thr' = [thr EXCEPT ![w] = "leaving"]
  /\ UNCHANGED <<caller, jobs, members, listLock, ending>>

\* The last worker clears the tasks of a pool that is shut down.
WorkerEnds(w) ==
  /\ thr[w] = "leaving"
  /\ jobs' = IF runs[w].last /\ pool.shutdown THEN <<>> ELSE jobs
  /\ thr' = [thr EXCEPT ![w] = "gone"]
  /\ UNCHANGED <<runs, caller, pool, members, departed, listLock, ending>>

-----------------------------------------------------------------------------
\* setThreadBounds(): the workers wake to adapt.  low and high: the bounds in force
\* since tasks were queued, and ever.
setThreadBounds(b) ==
  /\ ending.kind # "destroy" /\ b # <<pool.min, pool.max>> /\ pool.sets < MaxSets
  /\ pool' = [pool EXCEPT !.sets = @ + 1, !.min = b[1], !.max = b[2],
                          !.low = IF pool.queued = 0 \/ b[2] < @ THEN b[2] ELSE @,
                          !.high = IF b[2] > @ THEN b[2] ELSE @]
  /\ thr' = [w \in Ids |-> IF thr[w] = "waiting" THEN "ready" ELSE thr[w]]
  /\ UNCHANGED <<runs, caller, jobs, members, departed, listLock, ending>>

\* setThreadSchedulingPolicy(): stores the policy under _threadListMutex ...
StorePolicy(c, p) ==
  /\ caller[c].pc = "out" /\ listLock = Free /\ ending.kind # "destroy" /\ p # pool.policy /\ pool.sets < MaxSets
  /\ listLock' = c
  /\ pool' = [pool EXCEPT !.sets = @ + 1, !.policy = p]
  /\ caller' = [caller EXCEPT ![c].pc = "set", ![c].taking = departed]
  /\ departed' = {}
  /\ UNCHANGED <<thr, runs, jobs, members, ending>>

\* ... and updateLiveWorkers() sets it on every live worker; when one refuses, those
\* set before it take the accepted policy back.
updateLiveWorkers(c) ==
  LET gone == caller[c].taking
      live == members \ (gone \cup departed)
      Policed(set, p) == [w \in Ids |-> IF w \in set THEN [runs[w] EXCEPT !.policy = p] ELSE runs[w]]
  IN /\ caller[c].pc = "set" /\ \A w \in gone : thr[w] = "gone"
     /\ thr' = [w \in Ids |-> IF w \in gone THEN "none" ELSE thr[w]] /\ members' = members \ gone
     /\ listLock' = Free /\ caller' = [caller EXCEPT ![c] = Out]
     /\ \/ /\ pool.shutdown \/ live = {}
           /\ UNCHANGED <<runs, pool>>
        \/ /\ ~pool.shutdown /\ live # {}
           /\ runs' = Policed(live, pool.policy) /\ pool' = [pool EXCEPT !.accepted = pool.policy]
        \/ /\ ~pool.shutdown /\ live # {} /\ pool.refusals < MaxRefusals
           /\ \E set \in SUBSET live : set # live /\ runs' = Policed(set, pool.accepted)
           /\ pool' = [pool EXCEPT !.policy = pool.accepted, !.refusals = @ + 1]
     /\ UNCHANGED <<jobs, departed, ending>>

-----------------------------------------------------------------------------
\* requestShutdown() and the destructor: the flag, wakeAllWorkers(), joinAllThreads().
\* No outside thread is in a call of a pool that is destroyed.
RequestShutdown(kind) ==
  /\ ending.pc \in {"open", "joined"} /\ ending.kind # "destroy"
  /\ kind = "destroy" => \A c \in PoolCallers : caller[c].pc = "out"
  /\ kind = "shutdown" => ending.kind = "none"
  /\ pool' = [pool EXCEPT !.shutdown = TRUE]
  /\ ending' = [ending EXCEPT !.pc = "wake", !.kind = kind]
  /\ UNCHANGED <<thr, runs, caller, jobs, members, departed, listLock>>

wakeAllWorkers ==
  /\ ending.pc = "wake"
  /\ thr' = [w \in Ids |-> IF thr[w] = "waiting" THEN "ready" ELSE thr[w]]
  /\ ending' = [ending EXCEPT !.pc = "take"]
  /\ UNCHANGED <<runs, caller, jobs, pool, members, departed, listLock>>

\* joinAllThreads() takes the threads under both mutexes and joins them without.
TakeThreads ==
  /\ ending.pc = "take" /\ listLock = Free
  /\ ending' = [ending EXCEPT !.pc = IF members = {} THEN "joined" ELSE "join", !.joining = members]
  /\ members' = {} /\ departed' = {}
  /\ UNCHANGED <<thr, runs, caller, jobs, pool, listLock>>

JoinThreads ==
  /\ ending.pc = "join" /\ \A w \in ending.joining : thr[w] = "gone"
  /\ thr' = [w \in Ids |-> IF w \in ending.joining THEN "none" ELSE thr[w]]
  /\ ending' = [ending EXCEPT !.pc = "take", !.joining = {}]
  /\ UNCHANGED <<runs, caller, jobs, pool, members, departed, listLock>>

Stopping == wakeAllWorkers \/ TakeThreads \/ JoinThreads
PoolCallStep(c) == DecideAgain(c) \/ joinDepartedThreads(c) \/ CreateWorker(c) \/ relock(c) \/ NotifyOne(c) \/ updateLiveWorkers(c)
PoolWorkerStep(w) == WorkerStarts(w) \/ popTask(w) \/ WaitForTask(w) \/ Depart(w) \/ WorkerEnds(w)

PoolNext ==
  \/ \E c \in Callers : PoolCallStep(c) \/ \E p \in Priorities : Execute(c, p)
  \/ \E c \in PoolCallers, p \in Policies : StorePolicy(c, p)
  \/ \E w \in Ids : PoolWorkerStep(w) \/ FinishTask(w) \/ WaitEnds(w)
  \/ \E b \in PoolBounds : setThreadBounds(b)
  \/ \E k \in {"shutdown", "destroy"} : RequestShutdown(k)
  \/ Stopping

PoolSpec == PoolInit /\ [][PoolNext]_poolVars

\* Every thread goes on, and every task ends.
PoolFairness ==
  /\ WF_poolVars(Stopping)
  /\ \A c \in Callers : WF_poolVars(PoolCallStep(c))
  /\ \A w \in Ids : WF_poolVars(PoolWorkerStep(w)) /\ WF_poolVars(FinishTask(w))

-----------------------------------------------------------------------------
InPc(S) == {c \in Callers : caller[c].pc \in S}
IdleWorkers == {w \in Ids : thr[w] \in {"born", "ready", "waiting"}}

\* The counters are the threads they stand for, and the queue is in order of priority.
PoolTypeOK ==
  /\ \A k \in 2 .. Len(jobs) : jobs[k] <= jobs[k - 1]
  /\ pool.reserved = Cardinality(InPc({"reserve", "create", "created", "refused", "unset"}))
  /\ pool.idle = Cardinality(IdleWorkers) + Cardinality(InPc({"reserve", "create", "refused"}))
  /\ pool.threads = pool.idle + Cardinality({w \in Ids : thr[w] = "running"})
  /\ members \cap ending.joining = {} /\ departed \subseteq members
  /\ listLock = Free \/ caller[listLock].pc \in {"create", "set"}

\* No task lies in the queue while workers sleep: as many workers are awake, or about
\* to be notified, as tasks are queued, or none sleeps.
NoTaskStranded ==
  ~pool.shutdown /\ Waiting # {} => Cardinality(IdleWorkers \ Waiting) + Cardinality(InPc({"notify"})) >= Len(jobs)

\* A queued task waits for a busy worker only when the pool holds maxThreads()
\* workers, whoever was refused a thread or left meanwhile.
GrowsToMax ==
  ~pool.shutdown /\ InPc({"sleep", "woken"}) = {} => pool.idle >= pool.queued \/ pool.threads >= pool.low

\* The pool holds at most maxThreads() threads, the ones that left included.  (A pool
\* that is shut down adds a thread for every call of execute(); none is recorded.)
HeldWithinMax == ~pool.shutdown => Cardinality(members) <= pool.high

\* No thread outlives the pool, although a running task may still add workers.
NoThreadOutlivesPool == ending.kind = "destroy" /\ ending.pc = "joined" => \A w \in Ids : thr[w] = "none"

\* The workers that have not left run under the policy the pool reports, after every
\* refusal by any of them.
PolicyAgrees ==
  ~pool.shutdown /\ listLock = Free =>
    \A w \in members \ departed : runs[w].policy = pool.accepted /\ pool.policy = pool.accepted

\* Tasks meet workers, and the threads are the pool's own.
PoolAccounted == NoTaskStranded /\ GrowsToMax /\ HeldWithinMax /\ NoThreadOutlivesPool /\ PolicyAgrees

\* Every call of the pool returns, and every thread that stops the pool gets through:
\* a caller that waits for another's worker is woken whether it was created or refused.
PoolCallsReturn ==
  /\ \A c \in PoolCallers : caller[c].pc # "out" ~> caller[c].pc = "out"
  /\ ending.pc = "wake" ~> ending.pc = "joined"
=============================================================================
