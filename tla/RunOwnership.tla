----------------------------- MODULE RunOwnership -----------------------------
(* Whose run is it: the generation of a scheduler's run, the starts and graph *)
(* swaps that a worker has to defer until its run has ended, the swaps that   *)
(* stop a run and restore it, the stops that come meanwhile, and the          *)
(* destructor that waits for all of them (Scheduler.hpp, multi-threaded).     *)
(*                                                                            *)
(* todo[t] is the call stack of a thread: what is left of each call, as a     *)
(* sequence of instructions, the innermost call first.  A change of state     *)
(* calls its hook.  The graph stands for the blocks, edges and job lists.     *)
(* Pauses, watchdogs, sub-schedulers and errors of a running block are left   *)
(* out.                                                                       *)
EXTENDS Integers, Sequences

CONSTANTS Outside,      \* threads that call the scheduler from outside
          Pool,         \* the threads of the pool
          Setups,       \* the settings of a behaviour, see setup
          NoThread      \* not a thread

VARIABLES
  setup,  \* owner: who starts and swaps, a thread of Outside or "messages" or "all"; nJobLists: workers of a run;
          \* maxRequests: bound on calls and messages.  Anyone may stop.
  run,    \* the members of the scheduler
  pool,   \* queued: the workers not started yet, each with its generation; inLoop: the generation a thread works for
  todo,
  asked   \* what the threads have asked for, to state the properties

runVars == <<setup, run, pool, todo, asked>>

Threads == Outside \cup Pool

RunInit ==
  /\ setup \in Setups
  /\ run = [state |-> "INITIALISED", generation |-> 0, destroying |-> FALSE, restoredFrom |-> -1,
            pending |-> <<>>, nRunningJobs |-> 0, nDeferred |-> 0, claim |-> NoThread, pass |-> NoThread]
  /\ pool = [queued |-> <<>>, inLoop |-> [t \in Pool |-> 0]]
  /\ todo = [t \in Threads |-> <<>>]
  /\ asked = [n |-> 0, call |-> [t \in Threads |-> "none"], undisturbed |-> {}, standing |-> FALSE,
              takenOver |-> FALSE, destruction |-> "none"]

-----------------------------------------------------------------------------
isActive == run.state = "RUNNING"
isShuttingDown == run.state \in {"REQUESTED_STOP", "STOPPED"}

isSatisfiedTransition(to) == run.state = to \/ (run.state = "STOPPED" /\ to = "REQUESTED_STOP")

isValidTransition(to) ==
  \/ to = "ERROR"
  \/ <<run.state, to>> \in {<<"INITIALISED", "RUNNING">>, <<"INITIALISED", "REQUESTED_STOP">>, <<"INITIALISED", "STOPPED">>,
                            <<"RUNNING", "REQUESTED_STOP">>, <<"REQUESTED_STOP", "STOPPED">>,
                            <<"STOPPED", "INITIALISED">>, <<"ERROR", "INITIALISED">>}

isOnOwnWorkerThread(t) == t \in Pool /\ pool.inLoop[t] # 0

Change(s) == <<"change", s>>   \* a refusal is an error message
Must(s) == <<"must", s>>       \* a refusal ends the call
OwnStop == <<"must", "REQUESTED_STOP", "swap">>

start == <<<<"awaitExchange">>, <<"beginRun">>>>
\* The sweeps over the blocks of stop() and reset() change no member of this module.
stop == <<<<"retire">>, <<"settle", "change">>>>
reset == <<<<"awaitExchange">>, <<"waitForOtherWorkers">>, <<"connectPorts">>>>
exchange == <<<<"readState">>>>
restoreRun(g) == <<<<"recordRestore", g>>, Must("INITIALISED"), <<"runUnlessAsked", g>>>>
waitForRunAndClaims == <<<<"waitDone">>, <<"waitDeferred">>, <<"recheckWorkers">>>>
destructor == <<<<"stopActive">>>> \o waitForRunAndClaims \o <<<<"anyLeft", 1>>>>

Program(kind) ==
  CASE kind = "stop" -> <<Must("REQUESTED_STOP")>>
    [] kind = "start" -> <<Must("INITIALISED"), Must("RUNNING")>>
    [] kind = "exchange" -> exchange
    [] kind = "destroy" -> <<<<"setDestroying">>>> \o destructor

\* The lifecycle method that a change of state calls.
Hook(t, to) ==
  CASE to = "INITIALISED" -> reset
    [] to = "RUNNING" -> IF isOnOwnWorkerThread(t) THEN <<<<"deferStart">>>> ELSE start
    [] to = "REQUESTED_STOP" \/ (to = "ERROR" /\ isActive) -> stop
    [] OTHER -> <<>>

-----------------------------------------------------------------------------
At(t, op) == todo[t] # <<>> /\ todo[t][1][1][1] = op
Arg(t) == todo[t][1][1][2]

Unless(call) == IF call = <<>> THEN <<>> ELSE <<call>>
Rest(t) == Tail(todo[t][1])
Callers(t) == Tail(todo[t])

\* The next instruction is done, and then come others, another call, or the end of this one.
Then(t, program) == todo' = [todo EXCEPT ![t] = Unless(program \o Rest(t)) \o Callers(t)]
Call(t, program) == todo' = [todo EXCEPT ![t] = Unless(program) \o Unless(Rest(t)) \o Callers(t)]
Leave(t) == todo' = [todo EXCEPT ![t] = Callers(t)]
Only(t, program) == Then(t, program) /\ UNCHANGED run

\* changeStateTo(): the compare-and-set retries, so that it is one step.
changeStateTo(t) ==
  /\ At(t, "change") \/ At(t, "must")
  /\ LET to == Arg(t)
     IN \/ /\ isSatisfiedTransition(to)
           /\ Only(t, IF to = "REQUESTED_STOP" THEN <<<<"satisfied", run.state>>>> ELSE <<>>)
           /\ asked' = [asked EXCEPT !.takenOver = @ \/ todo[t][1][1] = OwnStop]   \* a swap finds the run stopped
        \/ /\ ~isSatisfiedTransition(to) /\ isValidTransition(to)
           /\ run' = [run EXCEPT !.state = to] /\ Call(t, Hook(t, to))
           /\ UNCHANGED asked
        \/ /\ ~isSatisfiedTransition(to) /\ ~isValidTransition(to)
           /\ IF At(t, "must") /\ ~(to = "RUNNING" /\ isShuttingDown)
              THEN /\ Leave(t)
                   /\ asked' = IF asked.call[t] = "destroy" THEN [asked EXCEPT !.destruction = "aborted"]
                               ELSE [asked EXCEPT !.undisturbed = @ \ {t}]
              ELSE Then(t, <<>>) /\ UNCHANGED asked
           /\ UNCHANGED run

\* A stop request that the state satisfied when it read it.
transitionSatisfied(t) ==
  /\ At(t, "satisfied")
  /\ LET current == run.state = Arg(t) \/ isShuttingDown
         restoring == run.restoredFrom # -1 /\ run.generation \in {run.restoredFrom, run.restoredFrom + 1}
     IN /\ run' = IF current \/ restoring THEN [run EXCEPT !.generation = @ + 1] ELSE run
        /\ Then(t, IF ~current /\ restoring THEN <<Change("REQUESTED_STOP")>> ELSE <<>>)

-----------------------------------------------------------------------------
(* The waits *)

awaitExchange(t) ==
  /\ At(t, "awaitExchange")
  /\ run.claim \in {NoThread, t} \/ isOnOwnWorkerThread(t)
  /\ Only(t, <<>>)

waitDone(t) == At(t, "waitDone") /\ run.nRunningJobs = 0 /\ Only(t, <<>>)

waitForOtherWorkers(t) ==
  /\ At(t, "waitForOtherWorkers")
  /\ run.nRunningJobs <= (IF isOnOwnWorkerThread(t) THEN 1 ELSE 0)
  /\ Only(t, <<>>)

waitDeferred(t) == At(t, "waitDeferred") /\ run.nDeferred = 0 /\ Only(t, <<>>)

recheckWorkers(t) ==
  /\ At(t, "recheckWorkers")
  /\ Only(t, IF run.nRunningJobs # 0 THEN waitForRunAndClaims ELSE <<>>)

-----------------------------------------------------------------------------
(* start(), stop() and reset() *)

beginRun(t) ==
  /\ At(t, "beginRun")
  /\ IF run.destroying THEN Only(t, <<Change("REQUESTED_STOP")>>)
     ELSE /\ run' = [run EXCEPT !.generation = @ + 1]
          /\ Then(t, <<<<"waitDone">>, <<"wire", run'.generation>>>>)

\* Settings, edges and the sweep that starts the blocks; one of them may fail.
wire(t) ==
  /\ At(t, "wire")
  /\ \/ Only(t, <<Change("ERROR")>>)
     \/ Only(t, IF isShuttingDown THEN <<>> ELSE <<<<"dispatch", Arg(t)>>>>)
  /\ UNCHANGED pool

dispatch(t) ==
  /\ At(t, "dispatch")
  /\ run' = [run EXCEPT !.nRunningJobs = @ + setup.nJobLists]
  /\ pool' = [pool EXCEPT !.queued = @ \o [i \in 1..setup.nJobLists |-> Arg(t)]]
  /\ Then(t, <<>>)

NewRequest(t, graph, restart, g, claimed) ==
  <<[graph |-> graph, restart |-> restart, generation |-> g, requester |-> t, claimed |-> claimed]>>

deferStart(t) ==
  /\ At(t, "deferStart")
  /\ run' = [run EXCEPT !.pending =
        IF @ = <<>> THEN NewRequest(t, FALSE, TRUE, run.generation, FALSE)
        ELSE NewRequest(t, @[1].graph, TRUE, run.generation, @[1].claimed)]
  /\ Then(t, <<>>)

retire(t) ==
  /\ At(t, "retire")
  /\ run' = [run EXCEPT !.generation = @ + 1] /\ Then(t, <<>>)

settle(t) ==
  /\ At(t, "settle")
  /\ Only(t, IF run.state # "ERROR" THEN <<<<Arg(t), "STOPPED">>>> ELSE <<>>)

connectPorts(t) == At(t, "connectPorts") /\ run.pass \in {NoThread, t} /\ Only(t, <<>>)

-----------------------------------------------------------------------------
(* exchange() and restoreRun() *)

readState(t) ==
  /\ At(t, "readState")
  /\ Only(t, IF isActive THEN <<<<"readGeneration">>>>
             ELSE IF isOnOwnWorkerThread(t) THEN <<<<"record", FALSE, 0>>>> ELSE <<<<"holdPass", run.state>>>>)

\* The swap's own stop advances the generation once.
readGeneration(t) ==
  /\ At(t, "readGeneration")
  /\ LET own == run.generation + 1
     IN Only(t, <<OwnStop>> \o
                IF isOnOwnWorkerThread(t) THEN <<<<"record", TRUE, own>>>>
                ELSE <<<<"waitDone">>, <<"settle", "must">>, <<"resetIfEnded">>, <<"swap", "RUNNING">>>> \o restoreRun(own))

\* A request recorded on a worker, which replaces the one before and joins its claim.
record(t) ==
  /\ At(t, "record")
  /\ LET joinsClaim == run.pending # <<>> /\ run.pending[1].claimed
     IN run' = [run EXCEPT !.pending = NewRequest(t, TRUE, Arg(t), todo[t][1][1][3], joinsClaim)]
  /\ Then(t, <<>>)

holdPass(t) ==
  /\ At(t, "holdPass") /\ run.pass = NoThread
  /\ run' = [run EXCEPT !.pass = t] /\ Then(t, <<<<"claimExchange", Arg(t)>>>>)

claimExchange(t) ==
  /\ At(t, "claimExchange") /\ run.claim = NoThread
  /\ run' = [run EXCEPT !.claim = t] /\ Then(t, <<<<"confirm", Arg(t)>>>>)

confirm(t) ==
  /\ At(t, "confirm")
  /\ IF run.state = Arg(t)
     THEN Only(t, <<<<"resetIfEnded">>, <<"swap", Arg(t)>>>> \o (IF Arg(t) = "INITIALISED" THEN reset ELSE <<>>)
                  \o <<<<"releaseClaim">>>>)
     ELSE Leave(t) /\ run' = [run EXCEPT !.claim = NoThread, !.pass = NoThread]

resetIfEnded(t) ==
  /\ At(t, "resetIfEnded")
  /\ Only(t, IF run.state \in {"ERROR", "STOPPED"} THEN reset ELSE <<>>)

swap(t) == At(t, "swap") /\ Only(t, <<>>)

releaseClaim(t) ==
  /\ At(t, "releaseClaim")
  /\ run' = [run EXCEPT !.claim = NoThread, !.pass = NoThread] /\ Then(t, <<>>)

recordRestore(t) ==
  /\ At(t, "recordRestore")
  /\ run' = [run EXCEPT !.restoredFrom = Arg(t)] /\ Then(t, <<>>)

(* mutant: a swap restores its run without looking for a stop that came meanwhile *)
runAlways(t) == At(t, "runUnlessAsked") /\ Only(t, <<Must("RUNNING")>>) /\ UNCHANGED asked

\* A stop that has changed the state and not yet the generation is missed.
runUnlessAsked(t) ==
  /\ At(t, "runUnlessAsked")
  /\ Only(t, IF run.generation # Arg(t) THEN <<Change("REQUESTED_STOP")>> ELSE <<Must("RUNNING")>>)
  /\ asked' = [asked EXCEPT !.takenOver = @ \/ \E u \in Threads : At(u, "retire")]

-----------------------------------------------------------------------------
(* The workers, and the request that one of them applies *)

Idle(t) == todo[t] = <<>>
releaseWorkerCount == <<<<"claimPending">>>>

StartTask(t) ==
  /\ t \in Pool /\ Idle(t) /\ pool.queued # <<>>
  /\ IF Head(pool.queued) = run.generation
     THEN /\ pool' = [queued |-> Tail(pool.queued), inLoop |-> [pool.inLoop EXCEPT ![t] = run.generation]]
          /\ todo' = [todo EXCEPT ![t] = <<<<<<"loop">>>>>>]
     ELSE /\ pool' = [pool EXCEPT !.queued = Tail(@)]
          /\ todo' = [todo EXCEPT ![t] = <<releaseWorkerCount>>]
  /\ UNCHANGED run

\* The worker's run is over, or its blocks are done.
LeaveLoop(t) ==
  /\ At(t, "loop")
  /\ pool' = [pool EXCEPT !.inLoop[t] = 0]
  /\ Only(t, releaseWorkerCount)

BeginPass(t) ==
  /\ At(t, "loop") /\ run.pass = NoThread
  /\ run' = [run EXCEPT !.pass = t] /\ Then(t, <<<<"messages">>>>)
  /\ UNCHANGED pool

EndPass(t) ==
  /\ At(t, "messages")
  /\ run' = [run EXCEPT !.pass = NoThread]
  /\ IF run.generation = pool.inLoop[t] THEN Then(t, <<<<"loop">>>>) /\ UNCHANGED pool
     ELSE Then(t, releaseWorkerCount) /\ pool' = [pool EXCEPT !.inLoop[t] = 0]

(* mutant: the worker that claims a request lets its count go and counts in nowhere else *)
claimUncounted(t) ==
  /\ At(t, "claimPending")
  /\ IF run.pending # <<>> /\ ~run.pending[1].claimed /\ run.pending[1].requester = t
     THEN /\ run' = [run EXCEPT !.pending[1].claimed = TRUE]
          /\ Call(t, <<<<"releaseCount">>, <<"waitDone">>, <<"takePending">>>>)
     ELSE Only(t, <<<<"releaseCount">>>>)

claimPending(t) ==
  /\ At(t, "claimPending")
  /\ IF run.pending # <<>> /\ ~run.pending[1].claimed /\ run.pending[1].requester = t
     THEN /\ run' = [run EXCEPT !.pending[1].claimed = TRUE, !.nDeferred = @ + 1]
          /\ todo' = [todo EXCEPT ![t] = <<<<<<"releaseCount">>, <<"waitDone">>, <<"takePending">>>>, <<<<"applied">>>>>>]
     ELSE Only(t, <<<<"releaseCount">>>>)

releaseCount(t) ==
  /\ At(t, "releaseCount")
  /\ run' = [run EXCEPT !.nRunningJobs = @ - 1] /\ Then(t, <<>>)

applied(t) ==
  /\ At(t, "applied")
  /\ run' = [run EXCEPT !.nDeferred = @ - 1] /\ Then(t, <<>>)

\* applyPendingExchange(), after the other workers have left.
takePending(t) ==
  /\ At(t, "takePending")
  /\ IF run.destroying \/ run.pending = <<>> THEN Leave(t) /\ UNCHANGED run
     ELSE LET request == run.pending[1]
          IN /\ run' = [run EXCEPT !.pending = <<>>]
             /\ Then(t, IF request.graph THEN <<<<"settleRequested">>, <<"swapPending", request.restart, request.generation>>>>
                        ELSE <<<<"startIfUnchanged", request.generation>>>>)

settleRequested(t) ==
  /\ At(t, "settleRequested")
  /\ Only(t, IF run.state = "REQUESTED_STOP" THEN <<Change("STOPPED")>> ELSE <<>>)

swapPending(t) ==
  /\ At(t, "swapPending")
  /\ LET restart == Arg(t) /\ ~isActive
     IN Only(t, exchange \o IF restart THEN <<<<"restoreIfInactive", todo[t][1][1][3]>>>> ELSE <<>>)

restoreIfInactive(t) ==
  /\ At(t, "restoreIfInactive")
  /\ Only(t, IF isActive THEN <<>> ELSE restoreRun(Arg(t)))

\* applyDeferredStart(), whose two reads are two steps.
startIfUnchanged(t) ==
  /\ At(t, "startIfUnchanged")
  /\ Only(t, IF run.generation = Arg(t) THEN <<<<"startIfRunning">>>> ELSE <<<<"stopActive">>>>)

startIfRunning(t) ==
  /\ At(t, "startIfRunning")
  /\ Only(t, IF isActive THEN start ELSE <<<<"stopActive">>>>)

stopActive(t) ==
  /\ At(t, "stopActive")
  /\ Only(t, IF ~isActive THEN <<>> ELSE <<IF asked.call[t] = "destroy" THEN Must("REQUESTED_STOP") ELSE Change("REQUESTED_STOP")>>)

-----------------------------------------------------------------------------
(* The destructor *)

setDestroying(t) ==
  /\ At(t, "setDestroying")
  /\ run' = [run EXCEPT !.destroying = TRUE, !.pending = <<>>] /\ Then(t, <<>>)

anyLeft(t) ==
  /\ At(t, "anyLeft")
  /\ LET left == CASE Arg(t) = 1 -> isActive [] Arg(t) = 2 -> run.nRunningJobs # 0 [] Arg(t) = 3 -> run.nDeferred # 0
     IN /\ Only(t, IF left THEN destructor ELSE IF Arg(t) < 3 THEN <<<<"anyLeft", Arg(t) + 1>>>> ELSE <<>>)
        /\ asked' = IF ~left /\ Arg(t) = 3 THEN [asked EXCEPT !.destruction = "done"] ELSE asked

-----------------------------------------------------------------------------
(* Requests, by calls from outside and by messages that a worker handles *)

MayAsk(t, kind) ==
  CASE kind = "stop" -> TRUE
    [] kind = "start" /\ setup.owner = "messages" /\ asked.n = 0 -> TRUE   \* the first run
    [] kind \in {"start", "exchange"} -> setup.owner \in {"all", IF t \in Pool THEN "messages" ELSE t}
    [] kind = "destroy" -> t \in Outside

Ask(t, kind) ==
  /\ asked.n < setup.maxRequests /\ MayAsk(t, kind)
  /\ asked' = [asked EXCEPT
       !.n = @ + 1, !.call[t] = kind,
       !.standing = @ /\ kind # "start",
       !.undisturbed = CASE kind = "start" -> {}
                         [] kind = "stop" /\ (\A u \in Threads : asked.call[u] # "start") -> @ \cup {t}
                         [] OTHER -> @]
  /\ UNCHANGED <<run, pool>>

\* Nobody calls a scheduler whose destruction has begun, or destroys it during a call.
CallFromOutside(t, kind) ==
  /\ t \in Outside /\ Idle(t)
  /\ \A u \in Outside : asked.call[u] # "destroy"
  /\ kind = "destroy" => asked.destruction = "none" /\ \A u \in Outside : Idle(u)
  /\ todo' = [todo EXCEPT ![t] = <<Program(kind), <<<<"endRequest">>>>>>]
  /\ Ask(t, kind)

HandleMessage(t, kind) ==
  /\ At(t, "messages") /\ kind # "destroy"
  /\ todo' = [todo EXCEPT ![t] = <<Program(kind), <<<<"endRequest">>, <<"messages">>>>>>]
  /\ Ask(t, kind)

\* A stop that returns without an error stands, unless a start has begun since it was asked for.
endRequest(t) ==
  /\ At(t, "endRequest")
  /\ Then(t, <<>>)
  /\ asked' = [asked EXCEPT !.call[t] = IF @ = "destroy" THEN @ ELSE "none",
                            !.standing = @ \/ t \in asked.undisturbed, !.undisturbed = @ \ {t}]

-----------------------------------------------------------------------------
Step(t) ==
  \/ /\ \/ transitionSatisfied(t) \/ awaitExchange(t) \/ waitDone(t) \/ waitForOtherWorkers(t) \/ waitDeferred(t)
        \/ recheckWorkers(t) \/ beginRun(t) \/ deferStart(t) \/ retire(t) \/ settle(t) \/ connectPorts(t)
        \/ readState(t) \/ readGeneration(t) \/ record(t) \/ holdPass(t) \/ claimExchange(t) \/ confirm(t) \/ resetIfEnded(t) \/ swap(t)
        \/ releaseClaim(t) \/ recordRestore(t) \/ claimPending(t) \/ releaseCount(t) \/ applied(t)
        \/ takePending(t) \/ settleRequested(t) \/ swapPending(t) \/ restoreIfInactive(t) \/ startIfUnchanged(t)
        \/ startIfRunning(t) \/ stopActive(t) \/ setDestroying(t)
     /\ UNCHANGED <<pool, asked>>
  \/ (changeStateTo(t) \/ runUnlessAsked(t) \/ anyLeft(t)) /\ UNCHANGED pool
  \/ (wire(t) \/ dispatch(t) \/ StartTask(t) \/ LeaveLoop(t) \/ BeginPass(t) \/ EndPass(t)) /\ UNCHANGED asked
  \/ endRequest(t) /\ UNCHANGED <<run, pool>>
  \/ \E kind \in {"stop", "start", "exchange", "destroy"} : CallFromOutside(t, kind) \/ HandleMessage(t, kind)

RunNext == UNCHANGED setup /\ \E t \in Threads : Step(t)

RunSpec == RunInit /\ [][RunNext]_runVars

-----------------------------------------------------------------------------
WorksOnGraph(t) == At(t, "loop") \/ At(t, "messages")

SwapsAlone ==
  \A t \in Threads : At(t, "swap") /\ Arg(t) # "REQUESTED_STOP" => \A u \in Threads : ~WorksOnGraph(u)

DestroyedAlone == asked.destruction = "done" => pool.queued = <<>> /\ \A t \in Pool : Idle(t)

(* No worker calls the blocks or handles messages while a thread replaces the *)
(* graph, and none is left, not even one that is about to apply a swap, when  *)
(* the destructor returns (Scheduler.hpp:412, 645, 757).  A swap that found   *)
(* REQUESTED_STOP waits for nobody: it is excluded here.                      *)
GraphIsLeftAlone == SwapsAlone /\ DestroyedAlone

Quiet == pool.queued = <<>> /\ \A t \in Threads : Idle(t)

(* A stop that returned, and that no later start and no swap which came upon  *)
(* it undid, ends the run for good: a swap or a deferred start which is then  *)
(* under way does not revive it (Scheduler.hpp:318-325, 1928).                *)
StopHolds == Quiet /\ asked.standing /\ ~asked.takenOver => ~isActive

(* The same of a stop that a swap took for its own: the code breaks this.     *)
AnyStopHolds == Quiet /\ asked.standing => ~isActive
=============================================================================
