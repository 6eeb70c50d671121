------------------------------ MODULE ParkWake ------------------------------
(***************************************************************************)
(* How a worker with nothing to do parks and what ends its park             *)
(* (Scheduler.hpp: poolWorker, wakeWorkers, registerWake; Sequence.hpp:     *)
(* waitUntil, notify_all; ClaimStrategy.hpp: PublishWakeList, publish).     *)
(*                                                                         *)
(* A worker reads the progress and the wake sequence at the top of a pass   *)
(* and parks until one of them leaves the value it read.  Only whether they *)
(* left it matters: `moved` and `woken`.  One step is one atomic access or  *)
(* one section under a lock.  The time-out of a park is left out on         *)
(* purpose: what only a time-out would bring to light must not happen.      *)
(* The draining calls that keep a worker from parking are left out.         *)
(***************************************************************************)
EXTENDS Integers, Sequences, FiniteSets

CONSTANTS ParkWorkers,   \* workers of the run, a chain: each one's block feeds the next one's
          NextOf,        \* NextOf[w]: the worker w's block feeds, or NoThread
          Clients,       \* threads outside the run
          Setups,        \* [crew, single, due, spin, ratio, samples, may]: the run's workers and policy, the idle
                         \* passes before a park and before each pass reads messages, process_stream_to_message_ratio,
                         \* the samples of the first block, and the calls clients make ("emit": a block, in work())
          MaxMessages, MaxCalls, MaxRuns, \* bounds
          NoThread

\* A pool's worker parks long after it began to read the state in every pass: kIdleBackoffPasses exceed
\* kIdleSpinIterations by more.
ASSUME ParkAssumption ==
  /\ Clients \cap ParkWorkers = {} /\ NoThread \notin Clients \cup ParkWorkers
  /\ NextOf \in [ParkWorkers -> ParkWorkers \cup {NoThread}]
  /\ Setups \subseteq [crew : SUBSET ParkWorkers, single : BOOLEAN, due : Nat, spin : Nat, ratio : Nat \ {0}, samples : Nat,
                       may : SUBSET {"emit", "message", "service", "stop", "pause", "resume"}]
  /\ \A s \in Setups : IF s.single THEN \E w \in ParkWorkers : s.crew = {w} ELSE s.due >= s.spin + 2

VARIABLES setup,
          pass,    \* per worker: pc, moved, woken, idle, inactive, passes, active
          steps,   \* per thread: the steps of the call it is in
          ring,    \* msgIn: slots stored, cursor, handled, own (stored by workers)
          armed,   \* the ring has wakes registered
          serving, \* the thread that runs the message service
          run,     \* state, blocksRun, retired, requests, runs
          given,   \* per worker: samples for its block, messages for it, blocks to adopt
          calls

parkVars == <<setup, pass, steps, ring, armed, serving, run, given, calls>>

ParkThreads == ParkWorkers \cup Clients
InPass(w, l) == pass[w].pc = l /\ steps[w] = <<>>
Move(w, l) == pass' = [pass EXCEPT ![w].pc = l]
Waiting == {w \in ParkWorkers : pass[w].pc \in {"lock", "testProgress", "testWake", "asleep"}} \* _nTimedWaiters
SlotHeld == \E w \in ParkWorkers : pass[w].pc \in {"testProgress", "testWake"}                 \* SequenceWaitSlot::mutex
Unhandled == ring.cursor > ring.handled

wakeWorkers == <<"advanceWake", "seeWaiters", "notify">>
publishProgress == <<"advanceProgress", "seeWaiters", "notify">>
publishMessage == <<"store", "moveCursor", "seeWakes">>

-----------------------------------------------------------------------------
(* The steps of a call. *)

Then(t, more) == steps' = [steps EXCEPT ![t] = more \o Tail(@)]
Step(t, name) == steps[t] # <<>> /\ Head(steps[t]) = name

(* wakeWorkers(), and the end of a work() call that moved samples. *)
Advance(t) ==
  /\ \/ Step(t, "advanceWake") /\ pass' = [w \in ParkWorkers |-> [pass[w] EXCEPT !.woken = TRUE]]
     \/ Step(t, "advanceProgress") /\ pass' = [w \in ParkWorkers |-> [pass[w] EXCEPT !.moved = TRUE]]
  /\ Then(t, <<>>)
  /\ UNCHANGED <<setup, ring, armed, serving, run, given, calls>>

SeeWaiters(t) ==
  /\ Step(t, "seeWaiters")
  /\ steps' = [steps EXCEPT ![t] = IF Waiting = {} THEN Tail(Tail(@)) ELSE Tail(@)]
  /\ UNCHANGED <<setup, pass, ring, armed, serving, run, given, calls>>

notifyTimedWaiters(t) ==
  /\ Step(t, "notify") /\ ~SlotHeld
  /\ pass' = [w \in ParkWorkers |-> IF pass[w].pc = "asleep" THEN [pass[w] EXCEPT !.pc = "lock"] ELSE pass[w]]
  /\ Then(t, <<>>)
  /\ UNCHANGED <<setup, ring, armed, serving, run, given, calls>>

(* MultiProducerStrategy: a slot is claimed and stored, then the cursor moves past every stored slot. *)
Store(t) ==
  /\ Step(t, "store")
  /\ ring' = [ring EXCEPT !.stored = @ + 1, !.own = IF t \in ParkWorkers THEN @ \cup {ring.stored + 1} ELSE @]
  /\ Then(t, <<>>)
  /\ UNCHANGED <<setup, pass, armed, serving, run, given, calls>>

MoveCursor(t) ==
  /\ Step(t, "moveCursor")
  /\ ring' = [ring EXCEPT !.cursor = ring.stored]
  /\ steps' = [steps EXCEPT ![t] = IF ring.stored = ring.cursor THEN Tail(Tail(@)) ELSE Tail(@)]
  /\ UNCHANGED <<setup, pass, armed, serving, run, given, calls>>

(* PublishWakeList: a pass's thread is exempt from its own scheduler's wake. *)
SeeWakes(t) ==
  /\ Step(t, "seeWakes")
  /\ Then(t, IF armed /\ t \in Clients THEN wakeWorkers ELSE <<>>)
  /\ UNCHANGED <<setup, pass, ring, armed, serving, run, given, calls>>

(* processScheduledMessages(): one thread at a time, the others go on. A     *)
(* message is for a block, which a worker calls, or adds one.                *)
HandleMessages(t) ==
  /\ Step(t, "handle")
  /\ IF serving # NoThread
       THEN steps' = [steps EXCEPT ![t] = <<>>] /\ UNCHANGED <<ring, serving, given>>
       ELSE /\ serving' = t
            /\ ring' = [ring EXCEPT !.handled = ring.cursor]
            /\ IF Unhandled
                 THEN /\ \E w \in setup.crew, kind \in {"mail", "blocks"} : given' = [given EXCEPT ![w][kind] = 1]
                      /\ Then(t, wakeWorkers)
                 ELSE Then(t, <<>>) /\ UNCHANGED given
  /\ UNCHANGED <<setup, pass, armed, run, calls>>

ReleasePass(t) ==
  /\ Step(t, "releasePass")
  /\ serving' = NoThread /\ Then(t, <<>>)
  /\ UNCHANGED <<setup, pass, ring, armed, run, given, calls>>

runService == <<"handle", "releasePass">>

(* stop(), pause(), resume() and an edit; a granted request finds no worker inside work(). *)
Control(t) ==
  /\ \/ Step(t, "paused")      /\ run' = [run EXCEPT !.state = IF @ = "RUNNING" THEN "PAUSED" ELSE @]
     \/ Step(t, "running")     /\ run' = [run EXCEPT !.state = IF @ = "PAUSED" THEN "RUNNING" ELSE @]
     \/ Step(t, "stopping")    /\ run' = [run EXCEPT !.state = "STOPPED"]
     \/ Step(t, "retire")      /\ run' = [run EXCEPT !.retired = TRUE]
     \/ Step(t, "request")     /\ run' = [run EXCEPT !.requests = @ + 1]
     \/ Step(t, "release")     /\ run' = [run EXCEPT !.requests = @ - 1]
     \/ Step(t, "pauseBlocks") /\ run' = [run EXCEPT !.blocksRun = @ /\ run.state # "PAUSED"]
     \/ Step(t, "runBlocks")  /\ run' = [run EXCEPT !.blocksRun = TRUE]
  /\ Then(t, <<>>)
  /\ UNCHANGED <<setup, pass, ring, armed, serving, given, calls>>

stop == <<"stopping", "retire">> \o wakeWorkers
pause == <<"paused">> \o wakeWorkers \o <<"request", "pauseBlocks", "release">> \o wakeWorkers
resume == <<"running">> \o wakeWorkers \o <<"request", "release">> \o wakeWorkers \o <<"runBlocks">> \o wakeWorkers

CallSteps(call) ==
  CASE call = "message" -> publishMessage
    [] call = "service" -> runService
    [] call = "stop" -> stop
    [] call = "pause" -> pause
    [] call = "resume" -> resume

MayCall(call) ==
  /\ call = "message" => ring.stored < MaxMessages
  /\ call = "stop" => run.state \in {"RUNNING", "PAUSED"}
  /\ call = "pause" => run.state = "RUNNING"
  /\ call = "resume" => run.state = "PAUSED"

Call(c) ==
  /\ steps[c] = <<>> /\ calls < MaxCalls
  /\ \E call \in setup.may \ {"emit"} : MayCall(call) /\ steps' = [steps EXCEPT ![c] = CallSteps(call)]
  /\ calls' = calls + 1
  /\ UNCHANGED <<setup, pass, ring, armed, serving, run, given>>

ThreadStep(t) ==
  \/ Advance(t) \/ SeeWaiters(t) \/ notifyTimedWaiters(t)
  \/ Store(t) \/ MoveCursor(t) \/ SeeWakes(t)
  \/ HandleMessages(t) \/ ReleasePass(t) \/ Control(t)

-----------------------------------------------------------------------------
(* A pass's pass. *)

registerWake(w) ==
  /\ InPass(w, "register")
  /\ armed' = TRUE
  /\ Move(w, "progress")
  /\ UNCHANGED <<setup, steps, ring, serving, run, given, calls>>

ReadSequences(w) ==
  /\ \/ InPass(w, "progress") /\ pass' = [pass EXCEPT ![w].pc = "wake", ![w].moved = FALSE]
     \/ InPass(w, "wake") /\ pass' = [pass EXCEPT ![w].pc = "look", ![w].woken = FALSE]
  /\ UNCHANGED <<setup, steps, ring, armed, serving, run, given, calls>>

LookForMessages(w) ==
  /\ InPass(w, "look")
  /\ IF pass[w].passes = 0 \/ Unhandled
       THEN /\ pass' = [pass EXCEPT ![w].pc = "adopt", ![w].idle = IF Unhandled THEN 0 ELSE @]
            /\ steps' = [steps EXCEPT ![w] = runService]
       ELSE /\ pass' = [pass EXCEPT ![w].pc = "traverse", ![w].passes = @ - 1]
            /\ UNCHANGED steps
  /\ UNCHANGED <<setup, ring, armed, serving, run, given, calls>>

(* adoptBlocks(), and the messages of the pass's own blocks. *)
AdoptAndRead(w) ==
  /\ InPass(w, "adopt")
  /\ Move(w, IF run.retired THEN "leave" ELSE "state")
  /\ IF run.retired THEN UNCHANGED <<given, steps>>
     ELSE /\ given' = [given EXCEPT ![w] = [samples |-> @.samples + @.blocks, mail |-> 0, blocks |-> 0]]
          /\ steps' = [steps EXCEPT ![w] = IF given[w].mail = 0 THEN <<>> ELSE wakeWorkers]
  /\ UNCHANGED <<setup, ring, armed, serving, run, calls>>

RereadState(w) ==
  /\ InPass(w, "state")
  /\ pass' = [pass EXCEPT ![w].pc = IF run.retired THEN "leave" ELSE "traverse", ![w].active = run.state,
                              ![w].idle = IF pass[w].active = run.state THEN @ ELSE 0, ![w].passes = setup.ratio - 1]
  /\ UNCHANGED <<setup, steps, ring, armed, serving, run, given, calls>>

\* The counters beyond what they are compared with are alike.
Counted(n) == IF n > setup.due /\ n > setup.spin THEN n ELSE n + 1
HasWork(w) == run.blocksRun /\ given[w].samples > 0

(* traverseBlockListOnce() through callAsWork(). *)
Traverse(w) ==
  /\ InPass(w, "traverse")
  /\ IF pass[w].active # "RUNNING"
       THEN pass' = [pass EXCEPT ![w].pc = "due", ![w].passes = 0] /\ UNCHANGED <<given, steps>>
     ELSE IF run.requests > 0
       THEN Move(w, "due") /\ UNCHANGED <<given, steps>>
     ELSE IF HasWork(w)
       THEN /\ pass' = [pass EXCEPT ![w].pc = "due", ![w].idle = 0]
            /\ given' = [v \in ParkWorkers |->
                 [given[v] EXCEPT !.samples = @ + (IF v = NextOf[w] THEN 1 ELSE 0) - (IF v = w THEN 1 ELSE 0)]]
            /\ steps' = [steps EXCEPT ![w] = publishProgress]
     ELSE /\ pass' = [pass EXCEPT ![w].pc = "due", ![w].idle = Counted(@),
                                      ![w].passes = IF Counted(pass[w].idle) > setup.spin THEN 0 ELSE @]
          /\ \/ UNCHANGED steps
             \/ /\ "emit" \in setup.may /\ ring.stored < MaxMessages
                /\ steps' = [steps EXCEPT ![w] = publishMessage]
          /\ UNCHANGED given
  /\ UNCHANGED <<setup, ring, armed, serving, run, calls>>

NextPass(w) == IF pass[w].active # "STOPPED" /\ ~run.retired THEN "progress" ELSE "leave"
EndPark(w) == pass' = [pass EXCEPT ![w].pc = NextPass(w), ![w].passes = 0]

ParkDue(w, inactive) == IF setup.single THEN inactive > setup.due ELSE pass[w].idle >= setup.due

(* mutant: every worker waits from the progress after its pass. *)
ReadProgressAfterAll(w) ==
  /\ InPass(w, "due")
  /\ pass' = [pass EXCEPT ![w].pc = IF pass[w].active = "RUNNING" /\ ParkDue(w, setup.due + 1) THEN "confirm" ELSE NextPass(w),
                              ![w].moved = FALSE]
  /\ UNCHANGED <<setup, steps, ring, armed, serving, run, given, calls>>

(* The single worker waits from the progress after its pass, a pool worker from that before it. *)
ReadProgressAfter(w) ==
  LET inactive == IF pass[w].moved THEN 0 ELSE Counted(pass[w].inactive) IN
  /\ InPass(w, "due")
  /\ pass' = [pass EXCEPT ![w].pc = IF pass[w].active = "RUNNING" /\ ParkDue(w, inactive) THEN "confirm" ELSE NextPass(w),
                              ![w].inactive = IF setup.single THEN inactive ELSE 0,
                              ![w].moved = @ /\ ~setup.single]
  /\ UNCHANGED <<setup, steps, ring, armed, serving, run, given, calls>>

(* The state and the generation once more, and waitUntil()'s look at both sequences. *)
ConfirmState(w) ==
  /\ InPass(w, "confirm")
  /\ IF run.state # "RUNNING" \/ run.retired THEN Move(w, NextPass(w))
     ELSE IF pass[w].moved \/ pass[w].woken THEN EndPark(w)
     ELSE Move(w, "lock")
  /\ UNCHANGED <<setup, steps, ring, armed, serving, run, given, calls>>

(* waitForChange(): counted as a waiter, a compare-and-set of each sequence under the slot's mutex. *)
waitForChange(w) ==
  /\ \/ InPass(w, "lock") /\ ~SlotHeld /\ Move(w, "testProgress")
     \/ InPass(w, "testProgress") /\ IF pass[w].moved THEN EndPark(w) ELSE Move(w, "testWake")
     \/ InPass(w, "testWake") /\ IF pass[w].woken THEN EndPark(w) ELSE Move(w, "asleep")
  /\ UNCHANGED <<setup, steps, ring, armed, serving, run, given, calls>>

(* The last worker out takes the wakes out of the ring. *)
LeaveLoop(w) ==
  /\ InPass(w, "leave")
  /\ Move(w, "out")
  /\ armed' = \E v \in ParkWorkers \ {w} : pass[v].pc \notin {"out", "register"}
  /\ UNCHANGED <<setup, steps, ring, serving, run, given, calls>>

WorkerPass(w) ==
  \/ registerWake(w) \/ ReadSequences(w) \/ LookForMessages(w) \/ AdoptAndRead(w) \/ RereadState(w) \/ Traverse(w)
  \/ ReadProgressAfter(w) \/ ConfirmState(w) \/ waitForChange(w) \/ LeaveLoop(w)

-----------------------------------------------------------------------------
Entering(w) ==
  [pc |-> IF w \in setup.crew THEN "register" ELSE "out",
   moved |-> FALSE, woken |-> FALSE, idle |-> 0, inactive |-> 0, passes |-> 0, active |-> "RUNNING"]

(* start(), once every worker of the run before has left. *)
StartRun ==
  /\ run.retired /\ run.runs < MaxRuns
  /\ \A w \in ParkWorkers : pass[w].pc = "out"
  /\ \A t \in ParkThreads : steps[t] = <<>>
  /\ run' = [state |-> "RUNNING", blocksRun |-> TRUE, retired |-> FALSE, requests |-> 0, runs |-> run.runs + 1]
  /\ pass' = [w \in ParkWorkers |-> Entering(w)]
  /\ UNCHANGED <<setup, steps, ring, armed, serving, given, calls>>

ParkInit ==
  /\ setup \in Setups
  /\ pass = [w \in ParkWorkers |-> Entering(w)]
  /\ steps = [t \in ParkThreads |-> <<>>]
  /\ ring = [stored |-> 0, cursor |-> 0, handled |-> 0, own |-> {}]
  /\ armed = FALSE /\ serving = NoThread
  /\ run = [state |-> "RUNNING", blocksRun |-> TRUE, retired |-> FALSE, requests |-> 0, runs |-> 1]
  /\ given = [w \in ParkWorkers |-> [samples |-> IF \E v \in setup.crew : NextOf[v] = w THEN 0 ELSE setup.samples,
                                     mail |-> 0, blocks |-> 0]]
  /\ calls = 0

ParkNext ==
  \/ \E t \in ParkThreads : ThreadStep(t)
  \/ \E c \in Clients : Call(c)
  \/ \E w \in ParkWorkers : WorkerPass(w)
  \/ StartRun

ParkSpec == ParkInit /\ [][ParkNext]_parkVars

-----------------------------------------------------------------------------
\* Nothing but a time-out would end the workers' parks.
AllParked ==
  /\ \A t \in ParkThreads : steps[t] = <<>>
  /\ \A w \in ParkWorkers : pass[w].pc \in {"asleep", "out"}
  /\ \E w \in ParkWorkers : pass[w].pc = "asleep"

(* No wake is missed: when every worker is parked and no call is under way,  *)
(* the run is neither paused nor stopped, every message of a client has been *)
(* handled, and no worker has samples, messages or blocks waiting for it.    *)
NothingWaitsForParked ==
  AllParked =>
    /\ run.state = "RUNNING" /\ ~run.retired
    /\ ring.handled + 1 .. ring.cursor \subseteq ring.own
    /\ \A w \in ParkWorkers : pass[w].pc = "asleep" => given[w] = [samples |-> 0, mail |-> 0, blocks |-> 0]

\* The calls for which the wakes are enough; for the others the program relies on the time-out (see the README).
Posting == {"message", "emit"}
Pausing == {"pause", "resume"}
WakesSuffice(s) ==
  /\ ~(Posting \subseteq s.may)
  /\ s.single => "service" \notin s.may
  /\ s.single \/ s.ratio = 1 \/ Pausing \cap s.may = {} \/ Posting \cap s.may = {}
=============================================================================
