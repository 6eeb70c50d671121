-------------------------- MODULE LifecycleSweeps --------------------------
(***************************************************************************)
(* How the lifecycle of a scheduler reaches its blocks: the sweeps of      *)
(* start(), stop(), pause(), resume() and reset() over the graph           *)
(* (Scheduler.hpp), the state machine they drive (LifeCycle.hpp) and the   *)
(* transitions a block makes in its own work() (Block.hpp).                *)
(*                                                                         *)
(* Callers call the scheduler from any thread; two calls may run at once,  *)
(* as the state machine lets the next call begin as soon as the state has  *)
(* changed. A call is a sequence of instructions <<do, block>>, one per    *)
(* step. The wait for work quiescence is one instruction here, module      *)
(* WorkQuiescence has its steps.                                           *)
(***************************************************************************)
EXTENDS Naturals, SequencesExt

CONSTANTS Callers, Workers, Blocks,
          BlockOrder,   \* the blocks in the graph's order
          Blocking,     \* blocks whose work() waits until a hook ends it
          owner,        \* the worker whose job list holds a block
          mayCall,      \* the calls each caller makes
          MaxCalls,     \* bound on the number of calls
          HooksThrow,   \* whether a block's start() or stop() hook may throw
          ConnectFails, \* whether connectPendingEdges() may leave an edge
          NoCaller, NoBlock

ASSUME ConfigAssumption ==
  /\ BlockOrder \in Seq(Blocks) /\ Blocking \subseteq Blocks
  /\ owner \in [Blocks -> Workers] /\ MaxCalls \in Nat /\ HooksThrow \in BOOLEAN
  /\ ConnectFails \in BOOLEAN
  /\ mayCall \in [Callers -> SUBSET {"start", "runAndWait", "stop", "pause", "resume", "reset"}]

States == {"IDLE", "INITIALISED", "RUNNING", "REQUESTED_PAUSE", "PAUSED",
           "REQUESTED_STOP", "STOPPED", "ERROR"}
isActive(x) == x \in {"RUNNING", "REQUESTED_PAUSE", "PAUSED"}
isShuttingDown(x) == x \in {"REQUESTED_STOP", "STOPPED"}

VARIABLES state,       \* lifecycle state of the scheduler
          bstate,      \* lifecycle state of each block
          generation,  \* _run.generation
          childLock,   \* holder of _childLifecycleMutex
          quiet,       \* requests for work quiescence of each caller in force
          op, todo,    \* call in progress and what is left of it
          cgen,        \* the generation a start() took
          failed,      \* callers whose start() found a child that did not start
          nCalls,
          wpc, wgen,   \* where a worker is, and the generation it was made for
          wstate,      \* the scheduler state the worker read last (activeState)
          wblock,      \* the block it works on
          nHooks       \* per block: start() hooks run minus stop() hooks run

calls   == <<childLock, quiet, op, todo, cgen, failed, nCalls>>
workers == <<wpc, wgen, wstate, wblock>>
vars == <<state, bstate, generation, calls, workers, nHooks>>

Init ==
  /\ state = "INITIALISED"
  /\ bstate = [b \in Blocks |-> "INITIALISED"]
  /\ generation = 0 /\ childLock = NoCaller /\ nCalls = 0 /\ failed = {}
  /\ op = [c \in Callers |-> "none"] /\ todo = [c \in Callers |-> <<>>] /\ cgen = [c \in Callers |-> 0]
  /\ quiet = [c \in Callers |-> 0]
  /\ wpc = [w \in Workers |-> "none"] /\ wgen = [w \in Workers |-> 0]
  /\ wstate = [w \in Workers |-> "INITIALISED"] /\ wblock = [w \in Workers |-> NoBlock]
  /\ nHooks = [b \in Blocks |-> 0]

----------------------------------------------------------------------------
(* LifeCycle.hpp *)

isValidTransition(x, y) ==
  CASE y = "ERROR" \/ x = y -> TRUE
    [] x = "IDLE"            -> y \in {"INITIALISED", "REQUESTED_STOP", "STOPPED"}
    [] x = "INITIALISED"     -> y \in {"RUNNING", "REQUESTED_STOP", "STOPPED"}
    [] x = "RUNNING"         -> y \in {"REQUESTED_PAUSE", "REQUESTED_STOP"}
    [] x = "REQUESTED_PAUSE" -> y \in {"PAUSED", "RUNNING", "REQUESTED_STOP"}
    [] x = "PAUSED"          -> y \in {"RUNNING", "REQUESTED_STOP"}
    [] x = "REQUESTED_STOP"  -> y = "STOPPED"
    [] OTHER                 -> y = "INITIALISED"

isSatisfiedTransition(x, y) ==
  x = y \/ (x = "STOPPED" /\ y = "REQUESTED_STOP") \/ (x = "PAUSED" /\ y = "REQUESTED_PAUSE")

(* changeStateTo() moves: the CAS re-validates until it succeeds, so the    *)
(* transition is one step                                                   *)
Moves(x, y) == ~isSatisfiedTransition(x, y) /\ isValidTransition(x, y)
changeStateTo(x, y) == IF Moves(x, y) THEN y ELSE x

(* the hook that a block's transition runs, +1 for start() and -1 for stop()*)
HookOf(x, y) == CASE Moves(x, y) /\ x = "INITIALISED" /\ y = "RUNNING" -> 1
                  [] Moves(x, y) /\ y = "REQUESTED_STOP" -> -1
                  [] Moves(x, y) /\ y = "ERROR" /\ isActive(x) -> -1
                  [] OTHER -> 0

Refuses(x, y) == ~isSatisfiedTransition(x, y) /\ ~isValidTransition(x, y)

(* The hook is part of the step. One that throws leaves the block in ERROR: *)
(* a start() that threw did not start it, a stop() that threw did run.      *)
MoveBlock(b, y) ==
  /\ bstate' = [bstate EXCEPT ![b] = changeStateTo(@, y)]
  /\ nHooks' = [nHooks EXCEPT ![b] = @ + HookOf(bstate[b], y)]

HookThrows(b, y) ==
  /\ HooksThrow /\ HookOf(bstate[b], y) # 0
  /\ bstate' = [bstate EXCEPT ![b] = "ERROR"]
  /\ nHooks' = [nHooks EXCEPT ![b] = 0]

----------------------------------------------------------------------------
(* The calls *)

ForEach(bs, is) == FlattenSeq([i \in 1..Len(bs) |-> [j \in 1..Len(is) |-> <<is[j], bs[i]>>]])
BlockingOrder == SelectSeq(BlockOrder, LAMBDA b : b \in Blocking)
OtherOrder    == SelectSeq(BlockOrder, LAMBDA b : b \notin Blocking)
Do(i)         == << <<i, NoBlock>> >>

start  == Do("retireForStart") \o Do("drain") \o Do("connect") \o Do("lockForStart") \o ForEach(BlockOrder, <<"run">>)
          \o Do("unlock") \o Do("started") \o Do("dispatch")
stopSweeps == Do("retire") \o Do("lock") \o ForEach(BlockingOrder, <<"requestStop", "settleStop">>)
          \o Do("request") \o Do("quiesce") \o ForEach(BlockOrder, <<"requestStop", "settleStop">>)
          \o Do("release") \o Do("unlock")
stop   == stopSweeps \o Do("stopped")
pause  == ForEach(BlockingOrder, <<"check", "requestPause">>) \o Do("request") \o Do("quiesce")
          \o ForEach(OtherOrder, <<"check", "requestPause", "check", "pause">>)
          \o Do("release") \o Do("check") \o Do("paused")
resume == Do("request") \o Do("quiesce") \o Do("connect") \o Do("release") \o ForEach(BlockOrder, <<"run">>)
reset  == Do("drain") \o ForEach(BlockOrder, <<"initialise">>)
failStart == ForEach(BlockOrder, <<"requestStop", "settleStop">>) \o Do("fail")

(* runAndWait(): a scheduler that has stopped is initialized again, the run *)
(* starts, and the caller settles the state when the workers have left      *)
settleStopped == Do("settle") \o Do("settled")
runAndWait    == Do("ready") \o Do("launch") \o Do("wait") \o settleStopped

Program(o) == CASE o = "start" -> start [] o = "runAndWait" -> runAndWait [] o = "stop" -> stop [] o = "pause" -> pause
                [] o = "resume" -> resume [] o = "reset" -> reset

(* the transitions on which changeStateTo() runs the hook of that name *)
Runs(o, x, y) ==
  \/ o = "start"  /\ x = "INITIALISED" /\ y = "RUNNING"
  \/ o = "stop"   /\ y = "REQUESTED_STOP"
  \/ o = "pause"  /\ y = "REQUESTED_PAUSE"
  \/ o = "resume" /\ x \in {"REQUESTED_PAUSE", "PAUSED"} /\ y = "RUNNING"
  \/ o = "reset"  /\ x # "IDLE" /\ y = "INITIALISED"

Call(c, o) ==
  /\ op[c] = "none" /\ nCalls < MaxCalls
  /\ \/ \E y \in States \ {"ERROR"} : Moves(state, y) /\ Runs(o, state, y) /\ state' = y
     \/ o = "runAndWait" /\ UNCHANGED state
  /\ op' = [op EXCEPT ![c] = o] /\ todo' = [todo EXCEPT ![c] = Program(o)]
  /\ nCalls' = nCalls + 1
  /\ UNCHANGED <<bstate, generation, childLock, quiet, cgen, failed, workers, nHooks>>

(* transitionSatisfied(): a stop request that the state satisfies already   *)
(* retires the workers                                                      *)
SatisfiedStop(c) ==
  /\ op[c] = "none" /\ nCalls < MaxCalls /\ "stop" \in mayCall[c]
  /\ isShuttingDown(state)
  /\ generation' = generation + 1 /\ nCalls' = nCalls + 1
  /\ UNCHANGED <<state, bstate, childLock, quiet, op, todo, cgen, failed, workers, nHooks>>

At(c, do) == todo[c] # <<>> /\ Head(todo[c])[1] = do
On(c)     == Head(todo[c])[2]
Done(c)   == todo' = [todo EXCEPT ![c] = Tail(@)]

(* the workers that hold a count in _nRunningJobs *)
Counted == {w \in Workers : wpc[w] # "none"}
InLoop  == {w \in Workers : wpc[w] \in {"loop", "work", "finish"}}
InWork  == {w \in Workers : wpc[w] \in {"work", "finish"}}

(* what is left of a runAndWait() once its start() or resume() has returned *)
AfterStart(c) == IF op[c] = "runAndWait" THEN Do("wait") \o settleStopped ELSE <<>>

(* advanceRunGeneration(): the workers of the run leave *)
Retire(c) ==
  /\ At(c, "retire") \/ At(c, "retireForStart")
  /\ Done(c) /\ generation' = generation + 1
  /\ cgen' = IF At(c, "retireForStart") THEN [cgen EXCEPT ![c] = generation'] ELSE cgen
  /\ failed' = IF At(c, "retireForStart") THEN failed \ {c} ELSE failed
  /\ UNCHANGED <<state, bstate, childLock, quiet, op, nCalls, workers, nHooks>>

(* start() and reset() wait for the workers of an earlier run, runAndWait()  *)
(* for those of its own                                                     *)
Drain(c) ==
  /\ At(c, "drain") \/ At(c, "wait")
  /\ Counted = {} /\ Done(c)
  /\ UNCHANGED <<state, bstate, generation, childLock, quiet, op, cgen, failed, nCalls, workers, nHooks>>

(* connectPendingEdges(), which may leave an edge unconnected *)
Connect(c) ==
  /\ At(c, "connect")
  /\ \/ Done(c)
     \/ ConnectFails /\ todo' = [todo EXCEPT ![c] = failStart \o (IF quiet[c] > 0 THEN Do("release") ELSE <<>>) \o AfterStart(c)]
  /\ UNCHANGED <<state, bstate, generation, childLock, quiet, op, cgen, failed, nCalls, workers, nHooks>>

(* the last step of failStart(): ERROR runs stop() on an active scheduler, *)
(* which leaves ERROR as it is                                              *)
Fail(c) ==
  /\ At(c, "fail")
  /\ state' = "ERROR"
  /\ todo' = [todo EXCEPT ![c] = (IF isActive(state) THEN stopSweeps ELSE <<>>) \o Tail(@)]
  /\ UNCHANGED <<bstate, generation, childLock, quiet, op, cgen, failed, nCalls, workers, nHooks>>

LockKept(c) ==      \* mutant: the start that ends early keeps the lock
  /\ At(c, "lock") \/ At(c, "lockForStart")
  /\ childLock = NoCaller /\ childLock' = c
  /\ IF At(c, "lockForStart") /\ isShuttingDown(state) THEN todo' = [todo EXCEPT ![c] = AfterStart(c)] ELSE Done(c)
  /\ UNCHANGED <<state, bstate, generation, quiet, op, cgen, failed, nCalls, workers, nHooks>>

(* a start that finds the scheduler stopping ends here *)
Lock(c) ==
  /\ At(c, "lock") \/ At(c, "lockForStart")
  /\ childLock = NoCaller
  /\ IF At(c, "lockForStart") /\ isShuttingDown(state)
     THEN todo' = [todo EXCEPT ![c] = AfterStart(c)] /\ UNCHANGED childLock
     ELSE Done(c) /\ childLock' = c
  /\ UNCHANGED <<state, bstate, generation, quiet, op, cgen, failed, nCalls, workers, nHooks>>

Unlock(c) ==
  /\ At(c, "unlock") /\ Done(c) /\ childLock' = NoCaller
  /\ UNCHANGED <<state, bstate, generation, quiet, op, cgen, failed, nCalls, workers, nHooks>>

(* requestQuiescenceOfOtherWork() keeps workers out, then waits for those   *)
(* inside                                                                   *)
Request(c) ==
  /\ At(c, "request") /\ Done(c) /\ quiet' = [quiet EXCEPT ![c] = @ + 1]
  /\ UNCHANGED <<state, bstate, generation, childLock, op, cgen, failed, nCalls, workers, nHooks>>

Quiesce(c) ==
  /\ At(c, "quiesce") /\ InWork = {} /\ Done(c)
  /\ UNCHANGED <<state, bstate, generation, childLock, quiet, op, cgen, failed, nCalls, workers, nHooks>>

Release(c) ==
  /\ At(c, "release") /\ Done(c) /\ quiet' = [quiet EXCEPT ![c] = @ - 1]
  /\ UNCHANGED <<state, bstate, generation, childLock, op, cgen, failed, nCalls, workers, nHooks>>

(* one block of a sweep: the transition it asks for *)
Target == [run |-> "RUNNING", requestPause |-> "REQUESTED_PAUSE", pause |-> "PAUSED",
           initialise |-> "INITIALISED"]

MoveAborted(c) ==   \* mutant: the sweep of start() ends once a stop is requested
  /\ \E i \in DOMAIN Target :
        /\ At(c, i)
        /\ IF i = "run" /\ childLock = c /\ isShuttingDown(state) THEN UNCHANGED <<bstate, nHooks>> ELSE MoveBlock(On(c), Target[i])
  /\ Done(c)
  /\ UNCHANGED <<state, generation, childLock, quiet, op, cgen, failed, nCalls, workers>>

Move(c) ==
  /\ \E i \in DOMAIN Target :
        /\ At(c, i)
        /\ MoveBlock(On(c), Target[i]) \/ HookThrows(On(c), Target[i])
        /\ failed' = IF i = "run" /\ (Refuses(bstate[On(c)], Target[i]) \/ bstate'[On(c)] = "ERROR")
                     THEN failed \cup {c} ELSE failed
  /\ Done(c)
  /\ UNCHANGED <<state, generation, childLock, quiet, op, cgen, nCalls, workers>>

(* start() fails as a whole when a child did not start *)
Started(c) ==
  /\ At(c, "started")
  /\ IF c \in failed THEN todo' = [todo EXCEPT ![c] = failStart \o AfterStart(c)] ELSE Done(c)
  /\ UNCHANGED <<state, bstate, generation, childLock, quiet, op, cgen, failed, nCalls, workers, nHooks>>

RequestStopRunning(c) ==   \* mutant: asks running children only
  /\ At(c, "requestStop")
  /\ IF bstate[On(c)] = "RUNNING" THEN MoveBlock(On(c), "REQUESTED_STOP") ELSE UNCHANGED <<bstate, nHooks>>
  /\ Done(c)
  /\ UNCHANGED <<state, generation, childLock, quiet, op, cgen, failed, nCalls, workers>>

(* stopChild(): an active child is asked to stop. A read that is stale by   *)
(* the time of the CAS changes nothing: no other step takes a child out of  *)
(* the active states except into REQUESTED_STOP, STOPPED or ERROR           *)
RequestStop(c) ==
  /\ At(c, "requestStop")
  /\ IF isActive(bstate[On(c)])
     THEN MoveBlock(On(c), "REQUESTED_STOP") \/ HookThrows(On(c), "REQUESTED_STOP")
     ELSE UNCHANGED <<bstate, nHooks>>
  /\ Done(c)
  /\ UNCHANGED <<state, generation, childLock, quiet, op, cgen, failed, nCalls, workers>>

(* a blocking child settles here only when no worker is in its loop *)
SettleStop(c) ==
  /\ At(c, "settleStop")
  /\ IF bstate[On(c)] = "REQUESTED_STOP" /\ (On(c) \in Blocking => InLoop = {})
     THEN bstate' = [bstate EXCEPT ![On(c)] = "STOPPED"] ELSE UNCHANGED bstate
  /\ Done(c)
  /\ UNCHANGED <<state, generation, childLock, quiet, op, cgen, failed, nCalls, workers, nHooks>>

(* moveWhilePausing() reads the scheduler's state before each move *)
Check(c) ==
  /\ At(c, "check")
  /\ todo' = [todo EXCEPT ![c] = IF state = "REQUESTED_PAUSE" THEN Tail(@) ELSE Tail(Tail(@))]
  /\ UNCHANGED <<state, bstate, generation, childLock, quiet, op, cgen, failed, nCalls, workers, nHooks>>

(* the scheduler's own last transition; stop() leaves ERROR alone *)
MoveSelf(c) ==
  /\ \/ At(c, "stopped") /\ state' = changeStateTo(state, "STOPPED")
     \/ At(c, "paused") /\ state' = changeStateTo(state, "PAUSED")
  /\ Done(c)
  /\ UNCHANGED <<bstate, generation, childLock, quiet, op, cgen, failed, nCalls, workers, nHooks>>

(* runAndWait() *)
Ready(c) ==
  /\ At(c, "ready")
  /\ IF state \in {"STOPPED", "ERROR"}
     THEN state' = "INITIALISED" /\ todo' = [todo EXCEPT ![c] = reset \o Tail(@)]
     ELSE UNCHANGED state /\ Done(c)
  /\ UNCHANGED <<bstate, generation, childLock, quiet, op, cgen, failed, nCalls, workers, nHooks>>

Launch(c) ==
  /\ At(c, "launch")
  /\ state' = changeStateTo(state, "RUNNING")
  /\ todo' = [todo EXCEPT ![c] =
       CASE state = "INITIALISED" -> start \o AfterStart(c)
         [] state \in {"REQUESTED_PAUSE", "PAUSED"} -> resume \o AfterStart(c)
         [] state = "RUNNING" -> AfterStart(c)
         [] isShuttingDown(state) -> settleStopped      \* a stop claimed the transition first
         [] OTHER -> <<>>]
  /\ UNCHANGED <<bstate, generation, childLock, quiet, op, cgen, failed, nCalls, workers, nHooks>>

SettleStopped(c) ==
  /\ \/ /\ At(c, "settle")
        /\ IF state = "RUNNING"
           THEN state' = "REQUESTED_STOP" /\ todo' = [todo EXCEPT ![c] = stop \o Tail(@)]
           ELSE UNCHANGED state /\ Done(c)
     \/ /\ At(c, "settled") /\ Done(c)
        /\ state' = IF state = "REQUESTED_STOP" THEN "STOPPED" ELSE state
  /\ UNCHANGED <<bstate, generation, childLock, quiet, op, cgen, failed, nCalls, workers, nHooks>>

(* start() counts and queues its workers under the generation it took.      *)
(* Workers that a stop has already retired release their counts at once.    *)
Dispatch(c) ==
  /\ At(c, "dispatch")
  /\ wpc' = IF cgen[c] = generation THEN [w \in Workers |-> "queued"] ELSE wpc
  /\ wgen' = IF cgen[c] = generation THEN [w \in Workers |-> generation] ELSE wgen
  /\ Done(c)
  /\ UNCHANGED <<state, bstate, generation, childLock, quiet, op, cgen, failed, nCalls, wstate, wblock, nHooks>>

Return(c) ==
  /\ op[c] # "none" /\ todo[c] = <<>>
  /\ op' = [op EXCEPT ![c] = "none"]
  /\ UNCHANGED <<state, bstate, generation, childLock, quiet, todo, cgen, failed, nCalls, workers, nHooks>>

CallStep(c) == Retire(c) \/ Drain(c) \/ Connect(c) \/ Fail(c) \/ Lock(c) \/ Unlock(c) \/ Request(c) \/ Quiesce(c)
               \/ Release(c) \/ Move(c) \/ Started(c) \/ Ready(c) \/ Launch(c) \/ SettleStopped(c) \/ RequestStop(c) \/ SettleStop(c) \/ Check(c)
               \/ MoveSelf(c) \/ Dispatch(c) \/ Return(c)

----------------------------------------------------------------------------
(* The workers: poolWorker() and the block's own transitions in work() *)

Retired(w) == wgen[w] # generation

(* the pool reaches the worker's task *)
Begin(w) ==
  /\ wpc[w] = "queued"
  /\ wpc' = [wpc EXCEPT ![w] = IF Retired(w) THEN "none" ELSE "loop"]
  /\ wstate' = [wstate EXCEPT ![w] = state]
  /\ UNCHANGED <<state, bstate, generation, calls, wgen, wblock, nHooks>>

(* a message pass reads the scheduler's state again *)
MessagePass(w) ==
  /\ wpc[w] = "loop" /\ ~Retired(w) /\ wstate[w] # state
  /\ wstate' = [wstate EXCEPT ![w] = state]
  /\ UNCHANGED <<state, bstate, generation, calls, wpc, wgen, wblock, nHooks>>

(* checkLifecycle(): a requested pause or stop settles, then a block that   *)
(* is STOPPED or PAUSED returns                                             *)
Settling(x) == CASE x = "REQUESTED_PAUSE" -> "PAUSED" [] x = "REQUESTED_STOP" -> "STOPPED" [] OTHER -> x

BeginWork(w, b) ==
  /\ wpc[w] = "loop" /\ owner[b] = w /\ wstate[w] = "RUNNING" /\ \A c \in Callers : quiet[c] = 0
  /\ bstate' = [bstate EXCEPT ![b] = Settling(@)]
  /\ IF bstate'[b] = "RUNNING"
     THEN wpc' = [wpc EXCEPT ![w] = "work"] /\ wblock' = [wblock EXCEPT ![w] = b]
     ELSE bstate' # bstate /\ UNCHANGED <<wpc, wblock>>
  /\ UNCHANGED <<state, generation, calls, wgen, wstate, nHooks>>

(* finaliseIO() of a call that ends with OK, or with DONE: the block has    *)
(* ended or finds that its stop was requested                               *)
EndWork(w) ==
  /\ wpc[w] = "work"
  /\ \/ /\ ~isShuttingDown(bstate[wblock[w]])
        /\ wpc' = [wpc EXCEPT ![w] = "loop"] /\ wblock' = [wblock EXCEPT ![w] = NoBlock]
        /\ UNCHANGED <<bstate, nHooks>>
     \/ /\ MoveBlock(wblock[w], "REQUESTED_STOP") \/ HookThrows(wblock[w], "REQUESTED_STOP")
        /\ wpc' = [wpc EXCEPT ![w] = "finish"] /\ UNCHANGED wblock
  /\ UNCHANGED <<state, generation, calls, wgen, wstate>>

(* the plain store setAndNotifyState(STOPPED) that follows *)
StoreStopped(w) ==
  /\ wpc[w] = "finish"
  /\ bstate' = [bstate EXCEPT ![wblock[w]] = "STOPPED"]
  /\ wpc' = [wpc EXCEPT ![w] = "loop"] /\ wblock' = [wblock EXCEPT ![w] = NoBlock]
  /\ UNCHANGED <<state, generation, calls, wgen, wstate, nHooks>>

LeaveUnsettled(w) ==     \* mutant: the last worker out settles nothing
  /\ wpc[w] = "loop"
  /\ Retired(w) \/ ~isActive(wstate[w]) \/ (wstate[w] = "RUNNING" /\ \A b \in Blocks : owner[b] = w => bstate[b] = "STOPPED")
  /\ wpc' = [wpc EXCEPT ![w] = "none"]
  /\ UNCHANGED <<state, bstate, generation, calls, wgen, wstate, wblock, nHooks>>

(* the worker leaves when the run is retired, when it read an inactive      *)
(* state, or when its blocks are done; the last one out settles the blocking*)
(* blocks whose stop was requested (settleStoppedBlockingBlocks)            *)
LeaveLoop(w) ==
  /\ wpc[w] = "loop"
  /\ \/ Retired(w)
     \/ ~isActive(wstate[w])
     \/ wstate[w] = "RUNNING" /\ \A b \in Blocks : owner[b] = w => bstate[b] = "STOPPED"
  /\ wpc' = [wpc EXCEPT ![w] = "none"]
  /\ bstate' = IF InLoop = {w}
               THEN [b \in Blocks |-> IF b \in Blocking /\ bstate[b] = "REQUESTED_STOP" THEN "STOPPED" ELSE bstate[b]]
               ELSE bstate
  /\ UNCHANGED <<state, generation, calls, wgen, wstate, wblock, nHooks>>

WorkerStep(w) == Begin(w) \/ MessagePass(w) \/ (\E b \in Blocks : BeginWork(w, b))
                 \/ EndWork(w) \/ StoreStopped(w) \/ LeaveLoop(w)

Next == \/ \E c \in Callers : CallStep(c) \/ SatisfiedStop(c) \/ (\E o \in mayCall[c] : Call(c, o))
        \/ \E w \in Workers : WorkerStep(w)

Spec == Init /\ [][Next]_vars

(* Callers and workers are scheduled; a work() call ends (a blocking one's  *)
(* hook ends its wait); a mutex that is given back again and again is taken;*)
(* a worker that may leave its loop does so at its next check. Nobody is    *)
(* obliged to make a call.                                                  *)
Fairness == /\ \A c \in Callers : WF_vars(CallStep(c)) /\ SF_vars(Lock(c))
            /\ \A w \in Workers : WF_vars(WorkerStep(w)) /\ SF_vars(LeaveLoop(w))
FairSpec == Spec /\ Fairness

----------------------------------------------------------------------------
Instructions == {"retire", "retireForStart", "drain", "wait", "connect", "fail", "lock", "lockForStart", "started",
                 "ready", "launch", "settle", "settled", "unlock", "request", "quiesce", "release",
                 "requestStop", "settleStop", "check", "stopped", "paused", "dispatch"}
                \cup DOMAIN Target

(* Every variable has its type; in particular the start() and stop() hooks  *)
(* of a block alternate: none runs twice in a row, and a block that never   *)
(* started is not stopped ("its stop() hook does not run",                  *)
(* Scheduler.hpp:2116-2118).                                                *)
TypeOK ==
  /\ state \in States /\ bstate \in [Blocks -> States]
  /\ generation \in Nat /\ childLock \in Callers \cup {NoCaller} /\ quiet \in [Callers -> 0..2] /\ failed \subseteq Callers
  /\ \A c \in Callers : \A i \in DOMAIN todo[c] : todo[c][i][1] \in Instructions
  /\ wpc \in [Workers -> {"none", "queued", "loop", "work", "finish"}]
  /\ wstate \in [Workers -> States] /\ wblock \in [Workers -> Blocks \cup {NoBlock}]
  /\ nHooks \in [Blocks -> {0, 1}]

Idle == \A c \in Callers : op[c] = "none"

(* A stop reaches every block, whichever calls overlapped with it: once the *)
(* calls have returned and the workers have left, a STOPPED scheduler has   *)
(* no block that is active or still asked to stop (Scheduler.hpp:2083-2088).*)
StopReachesEveryBlock ==
  Idle /\ Counted = {} /\ state = "STOPPED" =>
     \A b \in Blocks : ~isActive(bstate[b]) /\ bstate[b] # "REQUESTED_STOP"

(* The same for a failed start or resume: ERROR leaves no block running     *)
(* (Scheduler.hpp:1434-1437).                                               *)
ErrorLeavesNothingRunning ==
  Idle /\ Counted = {} /\ state = "ERROR" =>
     \A b \in Blocks : ~isActive(bstate[b]) /\ bstate[b] # "REQUESTED_STOP"

(* "pause() makes each move only while the scheduler still reads            *)
(* REQUESTED_PAUSE" (Scheduler.hpp:2181-2182): a scheduler that runs again  *)
(* leaves no block behind in a pause.                                       *)
RunningLeavesNoBlockPaused ==
  Idle /\ state = "RUNNING" => \A b \in Blocks : bstate[b] \notin {"REQUESTED_PAUSE", "PAUSED"}

(* "a stop claimed inside start()'s child sweep starts every child or none" *)
(* (qa_SchedulerStartStop.cpp:427): a child that never started keeps         *)
(* INITIALISED, and a stopped scheduler has either only such children or     *)
(* none.                                                                     *)
EveryChildOrNone ==
  Idle /\ Counted = {} /\ state = "STOPPED" =>
     \/ \A b \in Blocks : bstate[b] = "INITIALISED"
     \/ \A b \in Blocks : bstate[b] # "INITIALISED"

(* "runAndWait() initializes it again and runs it, as it does after an       *)
(* earlier run that ended STOPPED" (Scheduler.hpp:1068-1069): where no hook  *)
(* throws and every edge connects, no run fails.                             *)
RunsDoNotFail == ~HooksThrow /\ ~ConnectFails => state # "ERROR"

(* Every call but runAndWait() returns: it waits for workers that leave and *)
(* for the lock of other calls, never for ever.                             *)
EveryCallReturns == \A c \in Callers : (op[c] \notin {"none", "runAndWait"}) ~> (op[c] = "none")
=============================================================================
