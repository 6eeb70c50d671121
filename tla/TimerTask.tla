------------------------------- MODULE TimerTask -------------------------------
(* The wall clock of a free-running source (BlockingSync.hpp): the samples    *)
(* due since the last call, and the task on the I/O pool that wakes the       *)
(* scheduler once per chunk, against start, pause, resume, stop and the       *)
(* destruction of the block.  A time unit is one sample at sample_rate.       *)
EXTENDS Integers

CONSTANTS ChunkSize,          \* samples per chunk, the time between two ticks
          MaxLate,            \* how late the pool and the timer run
          MaxClock, MaxPauses, \* bounds: the time, and the pauses of one run
          NoTick              \* kNotPaused

ASSUME TimerAssumption == ChunkSize \in Nat \ {0} /\ MaxLate \in Nat /\ NoTick \notin Int

VARIABLES
  clock,     \* ClockSourceType::now()
  timer,     \* TimerState: running, done, blockAlive, pausedAt
  task,      \* the task: where it is, and nextWakeUp
  source,    \* the block: its lifecycle state, and what its destructor or stop() waits for
  counted,   \* _blockingSync_lastUpdateTime, the start time
  produced,  \* samples since the start
  pauses     \* history: the pauses since the start, their time, and when the present one began

timerVars == <<clock, timer, task, source, counted, produced, pauses>>

TimerIsActive(state) == state \in {"RUNNING", "PAUSED"}
Earlier(a, b) == IF a < b THEN a ELSE b
Later(a, b) == IF a > b THEN a ELSE b
NoPauses == [n |-> 0, time |-> 0]

TimerInit ==
  /\ clock = 0
  /\ timer = [running |-> FALSE, done |-> TRUE, blockAlive |-> TRUE, pausedAt |-> NoTick]
  /\ task = [at |-> "none", nextWakeUp |-> 0]
  /\ source = [state |-> "INITIALISED", waiting |-> FALSE]
  /\ counted = [last |-> 0, start |-> 0]
  /\ produced = 0
  /\ pauses = NoPauses

-----------------------------------------------------------------------------
(* The callers of the block: one at a time. *)

\* mutant: the task itself takes `done` back, once the pool has started it
startTimerQuietly ==
  IF timer.running
  THEN timer' = [timer EXCEPT !.pausedAt = NoTick] /\ UNCHANGED task
  ELSE \/ /\ timer' = [timer EXCEPT !.pausedAt = NoTick, !.running = TRUE]
          /\ task' = [at |-> "queued", nextWakeUp |-> clock]
       \/ timer' = [timer EXCEPT !.pausedAt = NoTick, !.done = TRUE] /\ UNCHANGED task

\* The pool takes the task or refuses it.
startTimer ==
  IF timer.running
  THEN timer' = [timer EXCEPT !.pausedAt = NoTick] /\ UNCHANGED task
  ELSE \/ /\ timer' = [timer EXCEPT !.pausedAt = NoTick, !.running = TRUE, !.done = FALSE]
          /\ task' = [at |-> "queued", nextWakeUp |-> clock]
       \/ timer' = [timer EXCEPT !.pausedAt = NoTick, !.done = TRUE] /\ UNCHANGED task

blockingSyncStart ==
  /\ source = [state |-> "INITIALISED", waiting |-> FALSE]
  /\ source' = [source EXCEPT !.state = "RUNNING"]
  /\ counted' = [last |-> clock, start |-> clock]
  /\ produced' = 0 /\ pauses' = NoPauses
  /\ startTimer
  /\ UNCHANGED clock

PauseSource ==
  /\ source.state = "RUNNING" /\ ~source.waiting /\ pauses.n < MaxPauses
  /\ source' = [source EXCEPT !.state = "PAUSED"]
  /\ pauses' = [pauses EXCEPT !.n = @ + 1]
  /\ UNCHANGED <<clock, timer, task, counted, produced>>

ResumeSource ==
  /\ source.state = "PAUSED" /\ ~source.waiting
  /\ source' = [source EXCEPT !.state = "RUNNING"]
  /\ UNCHANGED <<clock, timer, task, counted, produced, pauses>>

\* stop(), whose hook is blockingSyncStop().
stopTimer ==
  /\ TimerIsActive(source.state) /\ ~source.waiting
  /\ source' = [state |-> "REQUESTED_STOP", waiting |-> TRUE]
  /\ timer' = [timer EXCEPT !.running = FALSE]
  /\ UNCHANGED <<clock, task, counted, produced, pauses>>

stopTimerAndJoin ==
  /\ ~source.waiting /\ source.state # "destroyed"
  /\ source' = [state |-> "destructor", waiting |-> TRUE]
  /\ timer' = [timer EXCEPT !.running = FALSE, !.blockAlive = FALSE]
  /\ UNCHANGED <<clock, task, counted, produced, pauses>>

\* The wait for `done`; the next start follows a reset to INITIALISED.
Joined ==
  /\ source.waiting /\ timer.done
  /\ source' = [state |-> IF source.state = "destructor" THEN "destroyed" ELSE "INITIALISED", waiting |-> FALSE]
  /\ UNCHANGED <<clock, timer, task, counted, produced, pauses>>

-----------------------------------------------------------------------------
(* The task. *)

RunTask ==
  /\ task.at = "queued"
  /\ IF timer.blockAlive
     THEN task' = [at |-> "loop", nextWakeUp |-> clock] /\ UNCHANGED timer
     ELSE task' = [task EXCEPT !.at = "none"] /\ timer' = [timer EXCEPT !.done = TRUE]
  /\ UNCHANGED <<clock, source, counted, produced, pauses>>

\* The loop's condition; then the wait, which the cleared flag ends as well.
EnterWait ==
  /\ task.at = "loop"
  /\ task' = IF timer.running /\ TimerIsActive(source.state)
             THEN [at |-> "wait", nextWakeUp |-> task.nextWakeUp + ChunkSize] ELSE [task EXCEPT !.at = "leaving"]
  /\ UNCHANGED <<clock, timer, source, counted, produced, pauses>>

EndWait ==
  /\ task.at = "wait"
  /\ \/ ~timer.running /\ task' = [task EXCEPT !.at = "leaving"]
     \/ timer.running /\ clock >= task.nextWakeUp /\ task' = [task EXCEPT !.at = "tick"]
  /\ UNCHANGED <<clock, timer, source, counted, produced, pauses>>

\* What it reads of the state is used in the next step; outside a pause it wakes the scheduler.
ReadState ==
  /\ task.at = "tick"
  /\ task' = [task EXCEPT !.at = IF source.state = "PAUSED" THEN "paused" ELSE "loop"]
  /\ UNCHANGED <<clock, timer, source, counted, produced, pauses>>

StorePausedAt ==
  /\ task.at = "paused"
  /\ timer' = [timer EXCEPT !.pausedAt = clock]
  /\ task' = [task EXCEPT !.at = "loop"]
  /\ UNCHANGED <<clock, source, counted, produced, pauses>>

LeaveTask ==
  /\ task.at = "leaving"
  /\ timer' = [timer EXCEPT !.done = TRUE]
  /\ task' = [task EXCEPT !.at = "none"]
  /\ UNCHANGED <<clock, source, counted, produced, pauses>>

-----------------------------------------------------------------------------
\* The first call after a pause counts from the timer's latest tick in it.
countFrom == IF timer.pausedAt = NoTick THEN counted.last ELSE Later(counted.last, timer.pausedAt)

\* syncSamples() in a work() call, with room for maxSamples.
computeWallClockSamples(maxSamples, dropIfBehind) ==
  LET n == Earlier(Earlier(clock - countFrom, ChunkSize), maxSamples) IN
  /\ source.state = "RUNNING" /\ ~source.waiting
  /\ timer' = [timer EXCEPT !.pausedAt = NoTick]
  /\ counted' = [counted EXCEPT !.last = IF dropIfBehind THEN clock ELSE countFrom + n]
  /\ produced' = produced + n
  /\ UNCHANGED <<clock, task, source, pauses>>

\* The task is at most MaxLate behind its time.
Advance ==
  /\ clock < MaxClock
  /\ task.at = "none" \/ clock < task.nextWakeUp + MaxLate
  /\ clock' = clock + 1
  /\ pauses' = IF source.state = "PAUSED" THEN [pauses EXCEPT !.time = @ + 1] ELSE pauses
  /\ UNCHANGED <<timer, task, source, counted, produced>>

TimerNext ==
  \/ blockingSyncStart \/ PauseSource \/ ResumeSource \/ stopTimer \/ stopTimerAndJoin \/ Joined
  \/ RunTask \/ EnterWait \/ EndWait \/ ReadState \/ StorePausedAt \/ LeaveTask
  \/ \E maxSamples \in 1..ChunkSize, dropIfBehind \in BOOLEAN : computeWallClockSamples(maxSamples, dropIfBehind)
  \/ Advance

TimerSpec == TimerInit /\ [][TimerNext]_timerVars

-----------------------------------------------------------------------------
\* Once stop() or the destructor has returned, no task reads the block (BlockingSync.hpp:266-280,
\* 352), one that the pool had not started included.
NoTaskAfterJoin == source.state \in {"INITIALISED", "destroyed"} => task.at = "none"

\* A pause adds no samples but those of one tick and of the lateness of two (BlockingSync.hpp:170),
\* whichever way the tick races the resume.
PauseIsNotCounted ==
  task.at # "none" => produced <= clock - counted.start - pauses.time + pauses.n * (ChunkSize + 2 * MaxLate)

\* The task lives within its run, and counts nothing outside it.
TaskBelongsToRun == NoTaskAfterJoin /\ PauseIsNotCounted
=============================================================================
