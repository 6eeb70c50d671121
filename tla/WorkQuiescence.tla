--------------------------- MODULE WorkQuiescence ---------------------------
(***************************************************************************)
(* How a scheduler keeps its workers out of work() while it stops, pauses, *)
(* resumes or edits its graph (Scheduler.hpp: callAsWork,                  *)
(* awaitWorkQuiescence, WorkQuiescenceGuard, stop, pause, resume).         *)
(*                                                                         *)
(* Threads are the pool workers of each scheduler and the threads outside  *)
(* it. A worker enters work() between two reads of the number of requests; *)
(* a caller adds its request and spins until the workers inside have left. *)
(* A block may call stop(), pause() or resume() from inside its own work().*)
(* One step is one atomic access of the code (gr::atomic_ref), one lock or *)
(* unlock, or one sweep over the blocks. A scheduler may hold schedulers   *)
(* of its own (SubsOf), which its stop, resume and edits quiesce as well.  *)
(***************************************************************************)
EXTENDS Naturals, FiniteSets, Sequences

CONSTANTS Workers,      \* pool workers
          Outside,      \* threads that are no worker
          Schedulers,
          home,         \* the scheduler a worker belongs to
          SubsOf,       \* the sub-schedulers in a scheduler's graph, in order
          Reach,        \* <<h, s>>: a block of scheduler h calls scheduler s
          Edits,        \* whether outside threads edit the graph
          NoThread

Threads == Workers \cup Outside

ASSUME ConfigAssumption ==
  /\ Workers \cap Outside = {} /\ NoThread \notin Threads /\ IsFiniteSet(Threads) /\ Schedulers # {}
  /\ home \in [Workers -> Schedulers]
  /\ SubsOf \in [Schedulers -> Seq(Schedulers)]
  /\ \A s \in Schedulers : \A i, j \in DOMAIN SubsOf[s] :
       SubsOf[SubsOf[s][i]] = <<>> /\ (SubsOf[s][i] = SubsOf[s][j] => i = j) \* one level, each once
  /\ Reach \subseteq Schedulers \X Schedulers
  /\ Edits \in BOOLEAN

States   == {"RUNNING", "REQUESTED_PAUSE", "PAUSED", "REQUESTED_STOP", "STOPPED"}
isActive(x) == x \in {"RUNNING", "REQUESTED_PAUSE", "PAUSED"}
Ops      == {"stop", "pause", "resume", "edit"}

VARIABLES state,        \* lifecycle state of each scheduler
          nRequests,    \* _nWorkQuiescenceRequests
          nInWork,      \* _nWorkersInWork
          nOwnRequests, \* _nInWorkRequests
          childLock,    \* holder of _childLifecycleMutex
          pc,           \* next step of each thread
          inside,       \* whether the thread is inside a work() call of its home
          called,       \* whether that call has made its control call
          op, root,     \* control call in progress and the scheduler it is on
          todo,         \* what is left of that call: a sequence of instructions
          held,         \* schedulers whose request has been granted
          seen          \* last value read of nInWork

counters == <<nRequests, nInWork, nOwnRequests>>
vars == <<state, counters, childLock, pc, inside, called, op, root, todo, held, seen>>

Goto(t, l) == pc' = [pc EXCEPT ![t] = l]

(* workingScheduler() == this *)
OwnWork(t, s) == inside[t] /\ home[t] = s

(* op and root of a thread that makes no control call *)
AnyScheduler == CHOOSE s \in Schedulers : TRUE

Init ==
  /\ state = [s \in Schedulers |-> "RUNNING"]
  /\ nRequests = [s \in Schedulers |-> 0]
  /\ nInWork = [s \in Schedulers |-> 0]
  /\ nOwnRequests = [s \in Schedulers |-> 0]
  /\ childLock = [s \in Schedulers |-> NoThread]
  /\ pc = [t \in Threads |-> "out"]
  /\ inside = [t \in Threads |-> FALSE]
  /\ called = [t \in Threads |-> FALSE]
  /\ op = [t \in Threads |-> "edit"]
  /\ root = [t \in Threads |-> AnyScheduler]
  /\ todo = [t \in Threads |-> <<>>]
  /\ held = [t \in Threads |-> {}]
  /\ seen = [t \in Threads |-> 0]

----------------------------------------------------------------------------
(* The worker: callAsWork() in the loop of poolWorker() *)

control == <<op, root, todo, held, seen>>

(* the worker read RUNNING in a message pass; it acts on that value later *)
ReadState(w) ==
  /\ pc[w] = "out" /\ state[home[w]] = "RUNNING"
  /\ Goto(w, "gate")
  /\ UNCHANGED <<state, counters, childLock, inside, called, control>>

Gate(w) ==
  /\ pc[w] = "gate"
  /\ Goto(w, IF nRequests[home[w]] > 0 THEN "out" ELSE "enter")
  /\ UNCHANGED <<state, counters, childLock, inside, called, control>>

Enter(w) ==
  /\ pc[w] = "enter"
  /\ nInWork' = [nInWork EXCEPT ![home[w]] = @ + 1]
  /\ Goto(w, "recheck")
  /\ UNCHANGED <<state, nRequests, nOwnRequests, childLock, inside, called, control>>

(* mutant: callAsWork() without its second read of the requests *)
RecheckSkipped(w) ==
  /\ pc[w] = "recheck"
  /\ Goto(w, "working") /\ inside' = [inside EXCEPT ![w] = TRUE]
  /\ UNCHANGED <<state, counters, childLock, called, control>>

Recheck(w) ==
  /\ pc[w] = "recheck"
  /\ IF nRequests[home[w]] > 0
     THEN Goto(w, "leave") /\ UNCHANGED inside
     ELSE Goto(w, "working") /\ inside' = [inside EXCEPT ![w] = TRUE]
  /\ UNCHANGED <<state, counters, childLock, called, control>>

(* the blocks' work() returns *)
EndWork(w) ==
  /\ pc[w] = "working"
  /\ inside' = [inside EXCEPT ![w] = FALSE]
  /\ called' = [called EXCEPT ![w] = FALSE]
  /\ Goto(w, "leave")
  /\ UNCHANGED <<state, counters, childLock, control>>

Leave(w) ==
  /\ pc[w] = "leave"
  /\ nInWork' = [nInWork EXCEPT ![home[w]] = @ - 1]
  /\ Goto(w, "out")
  /\ UNCHANGED <<state, nRequests, nOwnRequests, childLock, inside, called, control>>

----------------------------------------------------------------------------
(* Control calls. A call is a sequence of instructions <<do, scheduler>>:   *)
(*   lock, unlock   _childLifecycleMutex                                    *)
(*   request        awaitWorkQuiescence(), steps Count to Uncount below     *)
(*   sweep          the hooks of the blocks run, or the graph changes       *)
(*   release        releaseWorkQuiescence()                                 *)
(*   settle         the scheduler's own last transition of stop or pause    *)
(*   claim          changeStateTo() of a sub-scheduler; when it changes     *)
(*                  nothing, the sub-scheduler's hook does not run          *)

Do(is, s) == [i \in 1..Len(is) |-> <<is[i], s>>]
OnSubs(is, s) == [k \in 1..(Len(is) * Len(SubsOf[s])) |->
                    <<is[((k - 1) % Len(is)) + 1], SubsOf[s][((k - 1) \div Len(is)) + 1]>>]

(* the hook of a sub-scheduler, from its claim to its settling *)
SubHook(o) ==
  CASE o = "stop"   -> <<"claim", "lock", "request", "sweep", "release", "unlock", "settle">>
    [] o = "pause"  -> <<"claim", "request", "sweep", "release", "settle">>
    [] o = "resume" -> <<"claim", "request", "sweep", "release", "settle">>
    [] o = "edit"   -> <<>>

stop(s) == Do(<<"lock", "request", "sweep">>, s) \o OnSubs(SubHook("stop"), s)
           \o Do(<<"release", "unlock", "settle">>, s)
pause(s) == Do(<<"request", "sweep">>, s) \o OnSubs(SubHook("pause"), s)
            \o Do(<<"release", "settle">>, s)
resume(s) == Do(<<"request">>, s) \o OnSubs(<<"request">>, s) \o Do(<<"sweep">>, s)
             \o OnSubs(<<"release">>, s) \o Do(<<"release">>, s) \o OnSubs(SubHook("resume"), s)
             \o Do(<<"settle">>, s)
(* an edit under a WorkQuiescenceGuard (ReplaceBlock, EmplaceEdge)          *)
edit(s) == Do(<<"request">>, s) \o OnSubs(<<"request">>, s) \o Do(<<"lock", "sweep", "unlock">>, s)
           \o OnSubs(<<"release">>, s) \o Do(<<"release", "settle">>, s)

Program(o, s) == CASE o = "stop" -> stop(s) [] o = "pause" -> pause(s)
                   [] o = "resume" -> resume(s) [] o = "edit" -> edit(s)

(* the transition changeStateTo() claims before it runs the hook *)
Claims(o, x, y) ==
  \/ o = "stop"   /\ isActive(x) /\ y = "REQUESTED_STOP"
  \/ o = "pause"  /\ x = "RUNNING" /\ y = "REQUESTED_PAUSE"
  \/ o = "resume" /\ x \in {"REQUESTED_PAUSE", "PAUSED"} /\ y = "RUNNING"
  \/ o = "edit"   /\ y = x

Call(t, o, s) ==
  /\ \/ pc[t] = "out" /\ t \in Outside /\ (o = "edit" => Edits)
     \/ pc[t] = "working" /\ ~called[t] /\ o # "edit" /\ <<home[t], s>> \in Reach
  /\ \E y \in States : Claims(o, state[s], y) /\ state' = [state EXCEPT ![s] = y]
  /\ called' = [called EXCEPT ![t] = inside[t]]
  /\ op' = [op EXCEPT ![t] = o] /\ root' = [root EXCEPT ![t] = s]
  /\ todo' = [todo EXCEPT ![t] = Program(o, s)]
  /\ Goto(t, "call")
  /\ UNCHANGED <<counters, childLock, inside, held, seen>>

At(t, do) == pc[t] = "call" /\ Head(todo[t])[1] = do
On(t)     == Head(todo[t])[2]
Done(t)   == todo' = [todo EXCEPT ![t] = Tail(@)]

(* pause() moves a block only while its scheduler reads REQUESTED_PAUSE; a  *)
(* sub-scheduler that stop() finds ended is moved to STOPPED                *)
ClaimSub(t) ==
  /\ At(t, "claim")
  /\ IF /\ \E y \in States : Claims(op[t], state[On(t)], y)
        /\ op[t] = "pause" => state[root[t]] = "REQUESTED_PAUSE"
     THEN /\ \E y \in States : Claims(op[t], state[On(t)], y) /\ state' = [state EXCEPT ![On(t)] = y]
          /\ Done(t)
     ELSE /\ state' = IF op[t] = "stop" THEN [state EXCEPT ![On(t)] = "STOPPED"] ELSE state
          /\ todo' = [todo EXCEPT ![t] = SubSeq(@, Len(SubHook(op[t])) + 1, Len(@))]
  /\ UNCHANGED <<counters, childLock, pc, inside, called, op, root, held, seen>>

Lock(t) ==
  /\ At(t, "lock") /\ childLock[On(t)] = NoThread
  /\ childLock' = [childLock EXCEPT ![On(t)] = t]
  /\ Done(t)
  /\ UNCHANGED <<state, counters, pc, inside, called, op, root, held, seen>>

Unlock(t) ==
  /\ At(t, "unlock")
  /\ childLock' = [childLock EXCEPT ![On(t)] = NoThread]
  /\ Done(t)
  /\ UNCHANGED <<state, counters, pc, inside, called, op, root, held, seen>>

(* mutant: the thread's own call is not recognised *)
FromOwnWorkNever(t) == FALSE

(* fromOwnWork of awaitWorkQuiescence(); an edit's request never is         *)
FromOwnWork(t) == OwnWork(t, On(t)) /\ op[t] # "edit"

Count(t) ==
  /\ At(t, "request")
  /\ nOwnRequests' = IF FromOwnWork(t) THEN [nOwnRequests EXCEPT ![On(t)] = @ + 1] ELSE nOwnRequests
  /\ Goto(t, "add")
  /\ UNCHANGED <<state, nRequests, nInWork, childLock, inside, called, control>>

Add(t) ==
  /\ pc[t] = "add"
  /\ nRequests' = [nRequests EXCEPT ![On(t)] = @ + 1]
  /\ Goto(t, "load")
  /\ UNCHANGED <<state, nInWork, nOwnRequests, childLock, inside, called, control>>

Load(t) ==
  /\ pc[t] = "load"
  /\ seen' = [seen EXCEPT ![t] = nInWork[On(t)]]
  /\ Goto(t, "compare")
  /\ UNCHANGED <<state, counters, childLock, inside, called, op, root, todo, held>>

(* mutant: every request allows a call, not only those made inside work() *)
CallsAllowedByAnyRequest(t) == IF FromOwnWork(t) THEN nRequests[On(t)] ELSE 0

nCallsAllowed(t) == IF FromOwnWork(t) THEN nOwnRequests[On(t)] ELSE 0

(* the wait ends once every call inside work() belongs to a counted request *)
Granted(t) == pc[t] = "compare" /\ seen[t] <= nCallsAllowed(t)

Compare(t) ==
  /\ pc[t] = "compare"
  /\ IF Granted(t)
     THEN Goto(t, "uncount") /\ held' = [held EXCEPT ![t] = @ \cup {On(t)}]
     ELSE Goto(t, "load") /\ UNCHANGED held
  /\ seen' = [seen EXCEPT ![t] = 0]
  /\ UNCHANGED <<state, counters, childLock, inside, called, op, root, todo>>

Uncount(t) ==
  /\ pc[t] = "uncount"
  /\ nOwnRequests' = IF FromOwnWork(t) THEN [nOwnRequests EXCEPT ![On(t)] = @ - 1] ELSE nOwnRequests
  /\ Done(t) /\ Goto(t, "call")
  /\ UNCHANGED <<state, nRequests, nInWork, childLock, inside, called, op, root, held, seen>>

Sweep(t) ==
  /\ At(t, "sweep")
  /\ Done(t)
  /\ UNCHANGED <<state, counters, childLock, pc, inside, called, op, root, held, seen>>

(* mutant: a release that drops the guard but not the count *)
ReleaseKeepsCount(t) ==
  /\ At(t, "release") /\ Done(t)
  /\ held' = [held EXCEPT ![t] = @ \ {On(t)}]
  /\ UNCHANGED <<state, counters, childLock, pc, inside, called, op, root, seen>>

Release(t) ==
  /\ At(t, "release")
  /\ nRequests' = [nRequests EXCEPT ![On(t)] = @ - 1]
  /\ held' = [held EXCEPT ![t] = @ \ {On(t)}]
  /\ Done(t)
  /\ UNCHANGED <<state, nInWork, nOwnRequests, childLock, pc, inside, called, op, root, seen>>

Settled(o, x) == CASE o = "stop"  /\ x = "REQUESTED_STOP"  -> "STOPPED"
                   [] o = "pause" /\ x = "REQUESTED_PAUSE" -> "PAUSED"
                   [] OTHER -> x

(* the last transition; the call returns after that of its own scheduler    *)
Settle(t) ==
  /\ At(t, "settle")
  /\ state' = [state EXCEPT ![On(t)] = Settled(op[t], @)]
  /\ Done(t)
  /\ IF todo'[t] = <<>>
     THEN /\ Goto(t, IF inside[t] THEN "working" ELSE "out")
          /\ op' = [op EXCEPT ![t] = "edit"] /\ root' = [root EXCEPT ![t] = AnyScheduler]
     ELSE UNCHANGED <<pc, op, root>>
  /\ UNCHANGED <<counters, childLock, inside, called, held, seen>>

----------------------------------------------------------------------------
WorkerStep(w) == ReadState(w) \/ Gate(w) \/ Enter(w) \/ Recheck(w) \/ EndWork(w) \/ Leave(w)
CallStep(t) == ClaimSub(t) \/ Lock(t) \/ Unlock(t) \/ Count(t) \/ Add(t) \/ Load(t) \/ Compare(t)
               \/ Uncount(t) \/ Sweep(t) \/ Release(t) \/ Settle(t)

Next == \/ \E w \in Workers : WorkerStep(w)
        \/ \E t \in Threads : CallStep(t)
        \/ \E t \in Threads, o \in Ops, s \in Schedulers : Call(t, o, s)

(* Every thread that has a step to make is scheduled, and a block's work()  *)
(* returns. A mutex that is given back again and again is eventually taken  *)
(* by each thread that waits for it. Nothing obliges a thread to make a     *)
(* control call.                                                            *)
Fairness == /\ \A w \in Workers : WF_vars(WorkerStep(w))
            /\ \A t \in Threads : WF_vars(CallStep(t)) /\ SF_vars(Lock(t))

Spec == Init /\ [][Next]_vars
FairSpec == Spec /\ Fairness

----------------------------------------------------------------------------
Labels == {"out", "gate", "enter", "recheck", "working", "leave", "call",
           "add", "load", "compare", "uncount"}

(* Every variable has its type; the counters never wrap below zero and      *)
(* never exceed the number of threads (Scheduler.hpp:221-223).              *)
TypeOK ==
  /\ state \in [Schedulers -> States]
  /\ \A s \in Schedulers : /\ nRequests[s] \in 0..Cardinality(Threads)
                           /\ nInWork[s] \in 0..Cardinality(Workers)
                           /\ nOwnRequests[s] \in 0..nInWork[s]
  /\ childLock \in [Schedulers -> Threads \cup {NoThread}]
  /\ pc \in [Threads -> Labels]
  /\ inside \in [Threads -> BOOLEAN] /\ called \in [Threads -> BOOLEAN]
  /\ op \in [Threads -> Ops] /\ root \in [Threads -> Schedulers]
  /\ held \in [Threads -> SUBSET Schedulers]

(* A request made outside the scheduler's work() (every graph edit is one)  *)
(* keeps every worker out from its grant to its release (Scheduler.hpp:478).*)
NoWorkDuringPlainRequest ==
  \A t \in Threads, s \in Schedulers :
     s \in held[t] /\ ~OwnWork(t, s) => \A w \in Workers \ {t} : ~OwnWork(w, s)

(* A control call's request from inside work() is granted only while every  *)
(* other call inside work() is itself waiting in, or running, a control     *)
(* call (Scheduler.hpp:2097-2100): no block's user code runs at that moment.*)
GrantSeesOnlyCallers ==
  [][\A t \in Threads : Granted(t) /\ pc'[t] # "compare" =>
       \A w \in Workers \ {t} : OwnWork(w, On(t)) => pc[w] # "working"]_vars

(* Every control call comes to its sweep: callers inside the calls of two   *)
(* workers do not wait for each other (Scheduler.hpp:486-487).              *)
EveryRequestIsGranted == \A t \in Threads : (pc[t] = "load") ~> At(t, "sweep")

(* Requests leave nothing behind: a worker of a scheduler that runs and on  *)
(* which no control call is in progress keeps getting into work()           *)
(* (Scheduler.hpp:491-494, 1378-1386).                                      *)
WorkersComeBack ==
  \A w \in Workers :
     <>[](state[home[w]] = "RUNNING" /\ \A t \in Threads : todo[t] = <<>>) => []<>(inside[w])

=============================================================================
