------------------------------ MODULE JobLists ------------------------------
(***************************************************************************)
(* The job lists of a running multi-threaded scheduler (Scheduler.hpp):     *)
(* which worker calls which block while blocks are added, removed, replaced *)
(* and restarted by messages, and while workers leave.                      *)
(*                                                                         *)
(* A worker keeps a copy of its job list and meets the others in four       *)
(* places, each under a mutex of its own: the recorded job lists            *)
(* (_executionOrder), the queues of blocks to adopt (_adoptionBlocks), the  *)
(* removed blocks (_zombieBlocks) and the withdrawn ones. One step here is  *)
(* one critical section. An edit runs on the worker that holds the message  *)
(* pass; it excludes work() calls (module WorkQuiescence) but not the       *)
(* maintenance that workers do between them.                                *)
(***************************************************************************)
EXTENDS Naturals, SequencesExt

CONSTANTS Workers,      \* a worker and the job list it serves
          Blocks,
          initial,      \* the job list of each block of the graph at start, or NoWorker
          Blocking,     \* blocks that settle their stop in their own work() call
          StartFails,   \* whether a block's start() hook may throw
          MaxEdits,     \* bound on the number of edits
          MayStop,      \* whether the run is stopped
          NoWorker, NoBlock

ASSUME ListsAssumption ==
  /\ NoWorker \notin Workers /\ NoBlock \notin Blocks
  /\ initial \in [Blocks -> Workers \cup {NoWorker}] /\ Blocking \subseteq Blocks
  /\ StartFails \in BOOLEAN /\ MayStop \in BOOLEAN /\ MaxEdits \in Nat

VARIABLES running,     \* the scheduler is active and the run's generation is current
          swept,       \* how far the sweep of stop() has come
          graph, bstate,
          order,       \* _executionOrder
          queue,       \* _adoptionBlocks
          closed,      \* _adoptionListClosed
          zombies,     \* _zombieBlocks
          withdrawn,   \* _withdrawnBlocks
          pc, local,   \* per worker: where it is, and localBlockList
          taken,       \* newBlocks of adoptBlocks()
          finishing,   \* whether its last traversal returned DONE
          seen,        \* nWithdrawnSeen
          editor,      \* the worker that runs an edit
          todo,        \* the next step of the edit
          old, new,    \* the block it takes out of the graph and the one it puts in, or NoBlock
          joining,     \* the block that joinRun() takes into the run
          stopped,     \* the endpoints that are still to be restarted
          held,        \* the job list that a joining block prefers
          wasActive,   \* whether the removed block was active
          quiet, childLock,  \* the edit's request for quiescence, the lock of the sweeps
          nEdits

lists  == <<order, queue, closed, zombies, withdrawn>>
worker == <<pc, local, taken, finishing, seen>>
target == <<editor, old, new, nEdits>>
guards == <<quiet, childLock>>
edit   == <<target, todo, joining, stopped, held, wasActive, guards>>
vars   == <<running, swept, graph, bstate, lists, worker, edit>>

isActive(x) == x \in {"RUNNING", "PAUSED"}

Init ==
  /\ running = TRUE /\ swept = "no"
  /\ graph = {b \in Blocks : initial[b] # NoWorker}
  /\ bstate = [b \in Blocks |-> IF initial[b] # NoWorker THEN "RUNNING" ELSE "INITIALISED"]
  /\ order = [i \in Workers |-> {b \in Blocks : initial[b] = i}]
  /\ queue = [i \in Workers |-> <<>>] /\ closed = [i \in Workers |-> FALSE]
  /\ zombies = {} /\ withdrawn = <<>>
  /\ pc = [w \in Workers |-> "top"] /\ local = order
  /\ taken = [w \in Workers |-> <<>>] /\ finishing = [w \in Workers |-> FALSE] /\ seen = [w \in Workers |-> 0]
  /\ editor = NoWorker /\ todo = "none" /\ old = NoBlock /\ new = NoBlock /\ joining = NoBlock /\ stopped = {} /\ held = [b \in Blocks |-> NoWorker]
  /\ wasActive = FALSE /\ quiet = FALSE /\ childLock = FALSE /\ nEdits = 0

Goto(w, l)  == pc' = [pc EXCEPT ![w] = l]
InLoop      == {w \in Workers : pc[w] # "gone"}
Held(w)     == local[w] \cup ToSet(taken[w]) \cup ToSet(queue[w])
Without(B)  == [i \in Workers |-> order[i] \ B]

----------------------------------------------------------------------------
(* The worker's loop *)

(* a pass with messages, or one without (process_stream_to_message_ratio)   *)
Top(w) ==
  /\ pc[w] = "top" /\ finishing' = [finishing EXCEPT ![w] = FALSE]
  /\ \/ ~running /\ Goto(w, "leave")
     \/ running /\ Goto(w, "work")
     \/ running /\ Goto(w, "messages")
  /\ UNCHANGED <<running, swept, graph, bstate, lists, local, taken, seen, edit>>

(* the end of the message pass *)
Messages(w) ==
  /\ pc[w] = "messages" /\ Goto(w, IF running THEN "cleanup" ELSE "leave")
  /\ UNCHANGED <<running, swept, graph, bstate, lists, local, taken, finishing, seen, edit>>

(* cleanupZombieBlocks(): zombies of this worker that may be deleted        *)
Deletable(w) == {b \in zombies \cap local[w] : bstate[b] \in {"IDLE", "STOPPED", "INITIALISED", "ERROR"}}

cleanupZombieBlocks(w) ==
  /\ pc[w] = "cleanup" /\ Goto(w, "adopt")
  /\ zombies' = zombies \ Deletable(w)
  /\ local' = [local EXCEPT ![w] = @ \ Deletable(w)]
  /\ order' = Without(Deletable(w))
  /\ UNCHANGED <<running, swept, graph, bstate, queue, closed, withdrawn, taken, finishing, seen, edit>>

(* adoptBlocks() takes the queue under one mutex and records the blocks     *)
(* under another                                                            *)
Take(w) ==
  /\ pc[w] = "adopt"
  /\ taken' = [taken EXCEPT ![w] = queue[w]] /\ queue' = [queue EXCEPT ![w] = <<>>]
  /\ Goto(w, IF queue[w] # <<>> THEN "record" ELSE IF finishing[w] THEN "close" ELSE "state")
  /\ UNCHANGED <<running, swept, graph, bstate, order, closed, zombies, withdrawn, local, finishing, seen, edit>>

Record(w) ==
  /\ pc[w] = "record"
  /\ local' = [local EXCEPT ![w] = @ \cup ToSet(taken[w])]
  /\ order' = [Without(ToSet(taken[w])) EXCEPT ![w] = order[w] \cup ToSet(taken[w])]
  /\ taken' = [taken EXCEPT ![w] = <<>>]
  /\ Goto(w, IF finishing[w] THEN "top" ELSE "state")
  /\ UNCHANGED <<running, swept, graph, bstate, queue, closed, zombies, withdrawn, finishing, seen, edit>>

ReadState(w) ==
  /\ pc[w] = "state" /\ Goto(w, IF running THEN "work" ELSE "leave")
  /\ UNCHANGED <<running, swept, graph, bstate, lists, local, taken, finishing, seen, edit>>

(* callAsWork(); dropWithdrawnBlocks() *)
BeginWork(w) ==
  /\ pc[w] = "work" /\ ~quiet /\ Goto(w, "working")
  /\ IF Len(withdrawn) # seen[w]
     THEN /\ local' = [local EXCEPT ![w] = @ \ ToSet(withdrawn)]
          /\ order' = Without(ToSet(withdrawn))
          /\ seen' = [seen EXCEPT ![w] = Len(withdrawn)]
     ELSE UNCHANGED <<local, order, seen>>
  /\ UNCHANGED <<running, swept, graph, bstate, queue, closed, zombies, withdrawn, taken, finishing, edit>>

(* traverseBlockListOnce(): a block may end, a requested stop settles. All  *)
(* blocks ended is DONE; a block in ERROR fails the run                     *)
EndWork(w) ==
  /\ pc[w] = "working"
  /\ \E ended \in SUBSET local[w] :
       bstate' = [b \in Blocks |-> IF b \in local[w] /\ (bstate[b] = "REQUESTED_STOP" \/ (b \in ended /\ bstate[b] = "RUNNING"))
                                   THEN "STOPPED" ELSE bstate[b]]
  /\ LET failed == \E b \in local[w] : bstate[b] = "ERROR"
         done   == \A b \in local[w] : bstate'[b] = "STOPPED"
     IN /\ running' = (running /\ ~failed)
        /\ finishing' = [finishing EXCEPT ![w] = done]
        /\ Goto(w, IF failed THEN "leave" ELSE IF done THEN "cleanup" ELSE "top")
  /\ UNCHANGED <<swept, graph, lists, local, taken, seen, edit>>

(* mutant: the queue is not looked at again *)
CloseAnyway(w) ==
  /\ pc[w] = "close"
  /\ closed' = [closed EXCEPT ![w] = TRUE] /\ Goto(w, "leave")
  /\ UNCHANGED <<running, swept, graph, bstate, order, queue, zombies, withdrawn, local, taken, finishing, seen, edit>>

(* closeAdoptionListIfEmpty() *)
Close(w) ==
  /\ pc[w] = "close"
  /\ closed' = [closed EXCEPT ![w] = @ \/ queue[w] = <<>>]
  /\ Goto(w, IF queue[w] = <<>> THEN "leave" ELSE "top")
  /\ UNCHANGED <<running, swept, graph, bstate, order, queue, zombies, withdrawn, local, taken, finishing, seen, edit>>

(* closeAdoptionList() hands the queue to a list whose worker remains; the  *)
(* last worker out settles the blocking blocks of the graph                 *)
Leave(w) ==
  /\ pc[w] = "leave" /\ Goto(w, "gone")
  /\ closed' = [closed EXCEPT ![w] = TRUE]
  /\ IF queue[w] # <<>> /\ \E i \in Workers : ~closed'[i]
     THEN \E i \in Workers : ~closed'[i] /\ queue' = [queue EXCEPT ![w] = <<>>, ![i] = @ \o queue[w]]
     ELSE UNCHANGED queue
  /\ bstate' = [b \in Blocks |-> IF InLoop = {w} /\ b \in graph \cap Blocking /\ bstate[b] = "REQUESTED_STOP"
                                 THEN "STOPPED" ELSE bstate[b]]
  /\ local' = [local EXCEPT ![w] = {}]
  /\ UNCHANGED <<running, swept, graph, order, zombies, withdrawn, taken, finishing, seen, edit>>

----------------------------------------------------------------------------
(* The edits, on the worker that runs them: for each step the one that      *)
(* follows it, `joined` and `refused` for the end of joinRun(). The edit    *)
(* takes `old` out of the graph and puts `new` in, either may be NoBlock    *)

emplaceBlockByMessage ==
  [request |-> "await", await |-> "relink", relink |-> "release", release |-> "active", joined |-> "end", refused |-> "end"]

removeBlockByMessage ==
  [request |-> "await", await |-> "relink", relink |-> "stopOld", stopOld |-> "unqueue", unqueue |-> "bury",
   bury |-> "release", release |-> "end"]

replaceBlockByMessage ==
  [request |-> "await", await |-> "endpoints", endpoints |-> "lock", lock |-> "relink", relink |-> "active",
   joined |-> "settle", refused |-> "unlock", unlock |-> "stopOld", stopOld |-> "unqueue", unqueue |-> "bury",
   bury |-> "release", release |-> "end"]

emplaceEdgeByMessage ==
  [request |-> "await", await |-> "endpoints", endpoints |-> "lock", lock |-> "settle", unlock |-> "release", release |-> "end"]

Steps == IF old = NoBlock THEN IF new = NoBlock THEN emplaceEdgeByMessage ELSE emplaceBlockByMessage
                          ELSE IF new = NoBlock THEN removeBlockByMessage ELSE replaceBlockByMessage

At(op)      == todo = op
Proceed(op) == todo' = op
joinRun(b)  == joining' = b /\ Proceed("active")
Done        == IF Steps[todo] = "active" THEN joinRun(new) ELSE Proceed(Steps[todo]) /\ UNCHANGED joining

(* a message of the pass asks for an edit *)
BeginEdit(w) ==
  /\ pc[w] = "messages" /\ editor = NoWorker /\ nEdits < MaxEdits
  /\ old' \in graph \cup {NoBlock}
  /\ new' \in {n \in Blocks \ graph : bstate[n] = "INITIALISED"} \cup {NoBlock}
  /\ editor' = w /\ nEdits' = nEdits + 1 /\ Goto(w, "edit") /\ Proceed("request")
  /\ UNCHANGED <<running, swept, graph, bstate, lists, local, taken, finishing, seen,
                 joining, stopped, held, wasActive, guards>>

EndEdit(w) ==
  /\ editor = w /\ At("end")
  /\ editor' = NoWorker /\ Goto(w, "messages") /\ Proceed("none")
  /\ old' = NoBlock /\ new' = NoBlock /\ joining' = NoBlock /\ stopped' = {}
  /\ held' = [b \in Blocks |-> NoWorker] /\ wasActive' = FALSE
  /\ UNCHANGED <<running, swept, graph, bstate, lists, local, taken, finishing, seen, guards, nEdits>>

(* the edit's quiescence and the lock it shares with the sweep of stop()    *)
Exclude ==
  /\ \/ At("request") /\ quiet' = TRUE /\ UNCHANGED childLock
     \/ At("await") /\ (\A w \in Workers : pc[w] # "working") /\ UNCHANGED guards
     \/ At("lock") /\ ~childLock /\ childLock' = TRUE /\ UNCHANGED quiet
     \/ At("unlock") /\ childLock' = FALSE /\ UNCHANGED quiet
     \/ At("release") /\ quiet' = FALSE /\ UNCHANGED childLock
  /\ Done
  /\ UNCHANGED <<graph, bstate, lists, stopped, held, wasActive>>

(* jobListHolding() of the replaced block and of the stopped neighbours, or *)
(* of the stopped endpoints of a new edge                                   *)
jobListHolding(b) ==
  IF \E i \in Workers : b \in order[i] THEN CHOOSE i \in Workers : b \in order[i] ELSE NoWorker

stoppedEndpoints ==
  /\ At("endpoints") /\ Done
  /\ stopped' \in SUBSET {e \in graph \ {old} : bstate[e] \in {"STOPPED", "REQUESTED_STOP"}}
  /\ held' = [b \in Blocks |-> IF b \in stopped' THEN jobListHolding(b)
                               ELSE IF b = new THEN jobListHolding(old) ELSE NoWorker]
  /\ UNCHANGED <<graph, bstate, lists, wasActive, guards>>

EditGraph ==
  /\ At("relink") /\ Done
  /\ graph' = (graph \ {old}) \cup ({new} \ {NoBlock})
  /\ UNCHANGED <<bstate, lists, stopped, held, wasActive, guards>>

(* restartStoppedEndpoints() settles the endpoints and joins them one by    *)
(* one. In a run that stopped meanwhile it restarts none                    *)
restartStoppedEndpoints ==
  /\ \/ At("settle") /\ running /\ Proceed("restart")
        /\ bstate' = [b \in Blocks |-> IF b \in stopped /\ bstate[b] = "REQUESTED_STOP" THEN "STOPPED" ELSE bstate[b]]
        /\ stopped' = {e \in stopped : bstate'[e] = "STOPPED"} /\ UNCHANGED joining
     \/ At("settle") /\ ~running /\ Proceed("unlock") /\ UNCHANGED <<bstate, stopped, joining>>
     \/ At("restart") /\ \E e \in stopped : stopped' = stopped \ {e} /\ joinRun(e) /\ UNCHANGED bstate
     \/ At("restart") /\ stopped = {} /\ Proceed("unlock") /\ UNCHANGED <<bstate, stopped, joining>>
  /\ UNCHANGED <<graph, lists, held, wasActive, guards>>

(* What follows joinRun(), which found no run, refused the block or has     *)
(* queued it: an endpoint that did not join may have to leave the run, and  *)
(* where a replacement is refused no endpoint is restarted                  *)
AfterJoin(result) ==
  Proceed(IF joining = new THEN Steps[IF result = "refused" THEN "refused" ELSE "joined"]
                           ELSE IF result = "queued" THEN "restart" ELSE "withdraw")

CheckRun ==
  /\ \/ At("active") /\ (IF running THEN Proceed("open") ELSE AfterJoin("no run"))
     \/ At("open") /\ (IF \E i \in Workers : ~closed[i] THEN Proceed("start") ELSE AfterJoin("refused"))
  /\ UNCHANGED <<graph, bstate, lists, joining, stopped, held, wasActive, guards>>

Start ==
  /\ At("start")
  /\ IF bstate[joining] \in {"STOPPED", "INITIALISED"}
     THEN \/ bstate' = [bstate EXCEPT ![joining] = "RUNNING"] /\ Proceed("queue")
          \/ StartFails /\ bstate' = [bstate EXCEPT ![joining] = "ERROR"] /\ AfterJoin("refused")
     ELSE AfterJoin("refused") /\ UNCHANGED bstate
  /\ UNCHANGED <<graph, lists, joining, stopped, held, wasActive, guards>>

(* queueForAdoption(): the preferred list, else any open one, else the      *)
(* block stops again                                                        *)
queueForAdoption ==
  /\ At("queue")
  /\ \/ /\ \E i \in Workers : /\ ~closed[i]
                              /\ (held[joining] # NoWorker /\ ~closed[held[joining]]) => i = held[joining]
                              /\ queue' = [queue EXCEPT ![i] = Append(@, joining)]
        /\ AfterJoin("queued") /\ UNCHANGED bstate
     \/ /\ \A i \in Workers : closed[i]
        /\ bstate' = [bstate EXCEPT ![joining] = "STOPPED"] /\ AfterJoin("refused") /\ UNCHANGED queue
  /\ UNCHANGED <<graph, order, closed, zombies, withdrawn, joining, stopped, held, wasActive, guards>>

(* a refused endpoint that a failed hook left in ERROR *)
withdrawFromRun ==
  /\ At("withdraw") /\ Proceed("restart")
  /\ withdrawn' = IF bstate[joining] # "STOPPED" THEN Append(withdrawn, joining) ELSE withdrawn
  /\ UNCHANGED <<graph, bstate, order, queue, closed, zombies, joining, stopped, held, wasActive, guards>>

(* makeZombie(); stopChild() settles a blocking block only with no worker   *)
stopChild(b) ==
  IF isActive(bstate[b]) \/ bstate[b] = "REQUESTED_STOP"
  THEN IF b \in Blocking /\ InLoop # {} THEN "REQUESTED_STOP" ELSE "STOPPED"
  ELSE bstate[b]

StopOld ==
  /\ At("stopOld") /\ Done
  /\ wasActive' = isActive(bstate[old])
  /\ bstate' = [bstate EXCEPT ![old] = stopChild(old)]
  /\ UNCHANGED <<graph, lists, stopped, held, guards>>

Unqueue ==
  /\ At("unqueue") /\ Done
  /\ IF \E i \in Workers : old \in ToSet(queue[i])
     THEN \E i \in Workers : /\ old \in ToSet(queue[i])
                             /\ queue' = [queue EXCEPT ![i] = RemoveFirst(@, old)]
     ELSE UNCHANGED queue
  /\ UNCHANGED <<graph, bstate, order, closed, zombies, withdrawn, stopped, held, wasActive, guards>>

Bury ==
  /\ At("bury") /\ Done
  /\ zombies' = IF wasActive \/ \E i \in Workers : old \in order[i] THEN zombies \cup {old} ELSE zombies
  /\ UNCHANGED <<graph, bstate, order, queue, closed, withdrawn, stopped, held, wasActive, guards>>

EditStep == /\ \/ Exclude \/ stoppedEndpoints \/ EditGraph \/ restartStoppedEndpoints \/ CheckRun \/ Start
               \/ queueForAdoption \/ withdrawFromRun \/ StopOld \/ Unqueue \/ Bury
            /\ UNCHANGED <<running, swept, worker, target>>

----------------------------------------------------------------------------
(* stop() of another thread, or of a run that failed *)
Retire ==
  /\ MayStop /\ running /\ running' = FALSE
  /\ UNCHANGED <<swept, graph, bstate, lists, worker, edit>>

(* blocking blocks first, the others once no worker is inside work() *)
SweepBlocking ==
  /\ ~running /\ swept = "no" /\ ~childLock
  /\ swept' = "blocking" /\ childLock' = TRUE
  /\ bstate' = [b \in Blocks |-> IF b \in graph \cap Blocking THEN stopChild(b) ELSE bstate[b]]
  /\ UNCHANGED <<running, graph, lists, worker, target, todo, joining, stopped, held, wasActive, quiet>>

SweepAll ==
  /\ swept = "blocking" /\ \A w \in Workers : pc[w] # "working"
  /\ swept' = "all" /\ childLock' = FALSE
  /\ bstate' = [b \in Blocks |-> IF b \in graph THEN stopChild(b) ELSE bstate[b]]
  /\ UNCHANGED <<running, graph, lists, worker, target, todo, joining, stopped, held, wasActive, quiet>>

WorkerStep(w) == Top(w) \/ Messages(w) \/ cleanupZombieBlocks(w) \/ Take(w) \/ Record(w) \/ ReadState(w) \/ BeginWork(w)
                 \/ EndWork(w) \/ Close(w) \/ Leave(w) \/ EndEdit(w)

Next == (\E w \in Workers : WorkerStep(w) \/ BeginEdit(w)) \/ EditStep \/ Retire \/ SweepBlocking \/ SweepAll

Spec == Init /\ [][Next]_vars

----------------------------------------------------------------------------
(* Every variable has its type, and a block is in at most one recorded list. *)
TypeOK ==
  /\ graph \subseteq Blocks /\ zombies \subseteq Blocks
  /\ bstate \in [Blocks -> {"INITIALISED", "RUNNING", "REQUESTED_STOP", "STOPPED", "ERROR"}]
  /\ order \in [Workers -> SUBSET Blocks] /\ local \in [Workers -> SUBSET Blocks]
  /\ \A i \in Workers : ToSet(queue[i]) \subseteq Blocks /\ ToSet(taken[i]) \subseteq Blocks
  /\ \A i, j \in Workers : i # j => order[i] \cap order[j] = {}

(* The workers that may still call their blocks. One that finds the run     *)
(* over leaves without, though it may have recorded a block handed over.    *)
StillCalls(w) == pc[w] \in {"work", "working"} \/ (running /\ pc[w] \notin {"leave", "gone"})

(* No two workers that may still call blocks hold the same block:           *)
(* adoptions, hand-overs and restarts leave a block on one list             *)
(* (Scheduler.hpp:3074-3076).                                               *)
OneWorkerPerBlock ==
  \A v, w \in Workers : v # w /\ StillCalls(v) /\ StillCalls(w) => local[v] \cap local[w] = {}

(* While the run is on and no edit is under way, a worker holds or is about *)
(* to take every block that runs: none waits where nobody looks.            *)
RunningBlockIsHeld ==
  running /\ editor = NoWorker =>
    \A b \in graph : bstate[b] = "RUNNING" => \E w \in InLoop : b \in Held(w)

(* Both: of the workers that may still call blocks exactly one holds a      *)
(* block that runs.                                                         *)
OneHolderPerBlock == OneWorkerPerBlock /\ RunningBlockIsHeld

(* A removed block that is off the zombie list is in no job list, where the *)
(* next start would find it: "updates the shared _executionOrder to ensure  *)
(* zombies do not reappear on restart" (Scheduler.hpp:2957).                *)
RemovedBlocksDoNotReappear ==
  running /\ editor = NoWorker =>
    \A b \in Blocks \ (graph \cup zombies), i \in Workers : b \notin order[i]
=============================================================================
