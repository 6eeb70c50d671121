# A verification project for gnuradio4-core

TLA+ models of the concurrent core of GNU Radio 4: the ring buffers that carry
samples and messages, the blocks that work on them and their settings, and the
scheduler that calls blocks on a pool of workers while other threads start, stop,
pause, edit and replace the running graph. Source paths
below are relative to `src/core/include/gnuradio-4.0/` unless they begin with
`src/`.

## 1. The system

A flow graph is a set of **blocks** joined by **edges**. An edge is a
**ring buffer**: the source's output port writes it, the inputs of one or more
destination blocks read it. A **scheduler** owns a graph, splits its blocks into
job lists and gives each list to a worker of a **thread pool**. A worker calls
`work()` of its blocks in turn, and every few passes makes a **message pass**,
in which requests from outside (set a property, add, remove or replace a block,
add an edge, stop) are executed on that worker while the others go on. Blocks,
graphs and schedulers share a **lifecycle** state machine; a scheduler may be a
block of another scheduler. **Settings** are staged by users, tags and messages
and applied inside `work()`.

### 1.1 Inventory

| Component | State | Operations | What is hard | What makes it correct |
|---|---|---|---|---|
| Multi-producer ring (`ClaimStrategy.hpp`, `CircularBuffer.hpp`, `Sequence.hpp`) | reserve and publish cursor, mark per slot, cached minimum, copy-on-write reader list | claim, publish, read, consume, attach, detach | lock-free; stale minima; out-of-order publication; readers that come and go | unread samples are never overwritten; what is completed becomes readable; each reader sees every sample once, in order |
| Single-producer ring | two cursors, reader list | as above, one writer | stale minimum | as above |
| Segmented buffer (`SegmentedBuffer.hpp`) | segments, index, cursors | as above, grows | growth under readers | as above, across segments |
| Work quiescence (`Scheduler.hpp`: `callAsWork`, `awaitWorkQuiescence`) | three counters and a mutex per scheduler | enter and leave `work()`; request, wait, release | a counter protocol without a lock; calls from inside `work()`; nested schedulers | an edit excludes every `work()`; nobody waits for ever |
| Lifecycle (`LifeCycle.hpp`) and its sweeps (`Scheduler.hpp`: `start` … `reset`, `runAndWait`) | state of scheduler and blocks, run generation | start, stop, pause, resume, reset, run and wait | calls overlap, since the next may begin once the state has changed; hooks throw; workers leave meanwhile | a stop or a failure leaves nothing active; all blocks start or none; every call returns |
| Job lists (`Scheduler.hpp`: adoption, zombies, restarts) | recorded lists, local copies, adoption queues, zombie list, withdrawn blocks | add, remove, replace a block; restart on a new edge; adopt; clean up; leave | a block moves between four structures under four locks while workers leave | one worker per block; no running block without a worker; removed blocks are forgotten |
| Run ownership (`exchange`, deferred start, `failRun`, watchdog, destructor) | generation, worker count, pending swap and its claim | swap the graph, restart, fail, destroy | requests made on a worker of the run that has to end first | a request applies to its own run, once; destruction waits for everything |
| Park and wake | progress and wake sequences | park, wake, publish-wake | lost wake-ups | a message or new work ends a park |
| Messages (`Message.hpp`, `Block.cpp`) | message rings, subscriptions | forward, reply, subscribe | order, several hops | each request one reply |
| Execution order | job lists | batch, breadth first, depth first | graph shapes | each block once |
| Thread pool (`thread/thread_pool.hpp`) | queue, idle and reserved counts, departed threads | execute, keep-alive, join, shut down | a worker leaves as a task counts on it | a queued task finds a worker; bounds hold |
| Wall-clock sources (`BlockingSync.hpp`) | timer task flags | start, tick, stop, destroy | task outlives the block | the task never touches a dead block |
| Block work (`Block.hpp`) | port positions, tags, drain marks | `work()` | end of stream, tags and resampling together | tags keep their sample; streams end |
| Settings (`Settings.hpp`, `src/core/src/Settings.cpp`) | stored, staged and active values per context | set, activate, apply, reset | several writers, contexts and times | the latest value wins |
| Ports and graph (`Port.hpp`, `Graph.hpp`) | edges and their state | connect, disconnect, replace, flatten | edits of a running graph | no dangling reader |
| Feedback loops (`Graph.hpp`) | loops of the graph, initial samples | find, size and prime the loops of a start | loops that share blocks; rates that change along a loop | no loop waits for its own samples |
| Reader-writer lock, atomic bitset, history buffer, trigger matcher | one or a few words | – | boundaries | equal to a set, a sequence, a counter |
| Values, tensors, YAML, plugins, registries, reflection, devices, profiler | – | – | – | sequential data or compile-time code: not modelled |

Interactions: the scheduler's workers call blocks (`work()`), blocks call the
scheduler back (`changeStateTo` from inside `work()`), messages travel over
multi-producer rings, an edit takes the quiescence of `WorkQuiescence` and the
lock of the sweeps of `LifecycleSweeps` and changes the lists of `JobLists`, and a
swap of the graph ends one run and begins another (`RunOwnership`). A start takes
the edges of `GraphEdit`, the loops of `GraphLoops` and the lists of
`ExecutionOrder`; a `work()` call is a behaviour of `BlockWork` and applies what
`SettingsStore` staged.

## 2. The modules

| Module | Models | Grain of a step |
|---|---|---|
| `BroadcastLog` | what a ring promises to a reader that stays: a bounded log | publish, open a span, release it |
| `MultiProducerRing` | `MultiProducerStrategy`, the reader list, the slots | one load, store or compare-and-set |
| `MultiProducerRing_proofs` | theorems about it | – |
| `SegmentedRing` | `SegmentedBuffer` over the single-producer strategy | one access another thread can see |
| `WorkQuiescence` | the counters of `callAsWork()` and `awaitWorkQuiescence()`, and `stop`, `pause`, `resume` and edits as users | one atomic access, lock, or sweep |
| `LifecycleSweeps` | `StateMachine::changeStateTo()` and the sweeps of `start`, `runAndWait`, `stop`, `pause`, `resume`, `reset` over the blocks, and the workers of the run | one transition of one block, one lock, one wait |
| `RunOwnership` | generations, deferred starts, `exchange`, `restoreRun`, the destructor | one access to a shared member, one wait |
| `JobLists` | the lists through which blocks join and leave workers | one critical section |
| `ParkWake` | the pass of a worker that may park, `wakeWorkers`, publish wakes, the message service | one atomic access, one section under a lock |
| `ThreadPool` | `BasicThreadPool` | a section under `_waitMutex`; one access otherwise |
| `BlockWork` | `Block::work()` and the spans of its ports | three steps of a call: look, size, run and finalise |
| `SettingsStore` | `CtxSettings` and the apply of its values | one call under the settings' lock; the apply is split where it releases it |
| `GraphEdit` | edges, rings of the ports, edits of a running graph | one edit |
| `GraphLoops` | the search for feedback loops, priming, the run of the loops | one edge of the search, one loop primed, one call of a block |
| `ExecutionOrder` | job lists of `Simple`, `BreadthFirst`, `DepthFirst` (extends `GraphLoops`) | one visit of a block |
| `MessageFlow` | requests and replies over the four message rings, and where they wait for room | one write, one read span, one consume |
| `TimerTask` | the timer task and the sample count of wall-clock sources | one access another thread can see |
| `ReaderWriterLock`, `AtomicBitset`, `HistoryBuffer` | the classes of these names | one atomic access; one member function |
| `SegmentedRing_proofs`, `WorkQuiescence_proofs`, `JobLists_proofs`, `ParkWake_proofs`, `ThreadPool_proofs` | theorems about the module each is named after, see 4 | – |
| `LiveEdits_proofs` | theorems about `GraphEdit` and `SettingsStore` | – |
| `BuildingBlocks_proofs` | theorems about `ReaderWriterLock`, `AtomicBitset`, `TimerTask`, `HistoryBuffer` | – |
| `MC_*` | small instances; several modules side by side, one the subject of a behaviour | – |

In `LifecycleSweeps`, `WorkQuiescence` and `RunOwnership` a call of the scheduler is a sequence of instructions in a variable `todo` (a stack of such
sequences in `RunOwnership`); each action executes the instruction at its head.
The definitions `start`, `stop` and so on therefore read like the function they
model, and the interleaving of two calls is the interleaving of their
instructions. In `JobLists` one edit runs at a time: `todo` is its next step, and
`replaceBlockByMessage` and the other three edits are tables that name the step
after each.

Every module states a type invariant. Where no run lists it, it was checked with
the module's instance and is left out of the run, which asks other questions.

### 2.1 MultiProducerRing

`reserve`, `publish`, `available`, `cachedMin` are the members of the strategy;
`readSeqs` and `readIdx` are the copy-on-write reader list and its sequences;
`data` holds in each slot the number of the sample that was written, so that an
overwritten sample is visible. `next()`/`tryNext()` are `Claim`/`Retry`,
`CheckCached`, the refresh (`RefreshPublish`, `RefreshList`, `RefreshReserve`,
`RefreshMin`, `RefreshStore`) and `CasReserve`; `publish()` is `Mark` (a step per
slot), `LoadPublish`, `Scan`, `CasPublish`; `addSequences()` is the five
`Attach*` steps, since an attaching reader re-reads the cursor after it is in
the list. Differences of cursors are compared as the code's unsigned ones are
(`Exceeds`: a negative difference exceeds every size). Cursor values themselves
are bounded by `MaxCursor`; at 64 bits they do not wrap in the life of a process.

### 2.2 SegmentedRing

One writer claims (`tryNext()` of the single-producer strategy), allocates the
segments of the claim, replaces the index when it is too short and frees the
segments every reader has passed; readers attach, read through the index their
span was made with, and detach. A segment has one slot (`SegmentSlots = 1`), so
that each step of the code that concerns a segment concerns a sample.

### 2.3 WorkQuiescence

Threads are workers and outside threads. A worker reads the number of requests
(`Gate`), counts itself (`Enter`), reads again (`Recheck`) and works; a caller
adds its request (`Add`) and compares two separate reads (`Load`, `Compare`).
A request from inside a `work()` call of the same scheduler counts in
`nOwnRequests`, which raises the number of calls the waiters allow. `SubsOf`
gives one level of sub-schedulers: `stop` and `resume` run their calls too, edits
take their quiescence.

### 2.4 LifecycleSweeps

`isValidTransition` and `changeStateTo` are those of `LifeCycle.hpp`, with its
hooks (`HookOf`, `HookThrows`). Workers have the states of `poolWorker()`: queued
in the pool, in the loop, inside `work()` of a block, or in `finaliseIO()`, whose
store of STOPPED is unconditional. The generation distinguishes the workers of
one run from those of the next. `nHooks` counts start hooks minus stop hooks per
block.

### 2.5 RunOwnership

Where `LifecycleSweeps` looks at the blocks of one run, this module looks at
the run: `run` holds the members that decide whose run it is (state, generation,
`restoredFrom`, the pending swap with its start request, the counts of running and
deferred jobs, the claim, the message pass), `pool` the workers, `todo` the call
stacks. The sweeps change none of these and are left out, as are pauses, the
watchdog, sub-schedulers and errors of a running block; the policy is
multi-threaded. One party (a thread, or the messages) starts the scheduler and
swaps its graph, as `exchange()` asks of its users; anyone stops it; one thread
destroys it when no call is under way. `asked` is history for the properties.

### 2.6 JobLists

`order`, `queue`, `closed`, `zombies`, `withdrawn` are the shared structures,
`local` and `taken` the worker's own. The worker's loop is `Top`, `Messages`,
`cleanupZombieBlocks`, `Take` and `Record` (the two critical sections of
`adoptBlocks()`), `ReadState`, `BeginWork`, `EndWork`, and when its blocks are
done `Close` and `Leave`. An edit takes the block `old` out of the graph and puts
`new` in, either of which may be missing: its kind follows from that, and `Steps`
is the table of that kind. `joining` is the block that `joinRun()` is taking into
the run; what follows it depends on its result (`AfterJoin`). Restarted neighbours
are any stopped blocks of the graph, in any order, since edges are not in
the module. The wait for quiescence is one step: `WorkQuiescence` shows
that it excludes `work()`. `running` stands for "the scheduler is active and the
generation is the one of this run"; the module follows one run to its end.

### 2.7 ParkWake

A worker's pass reads the progress and the wake sequence, handles messages every
few passes, calls its block, counts passes without progress and parks; a client
stores a message and moves the cursor, pauses, resumes, stops, or emits a message
inside `work()`. Whether a sequence has left the value a worker read is all the
module keeps of it (`moved`, `woken`). The time-out of a park, the watchdog and the
draining calls are left out: what only a time-out would bring to light is what the
property forbids. `due` is at least `spin + 2`, as `kIdleBackoffPasses` and
`pool_park_count` exceed `kIdleSpinIterations`. `WakesSuffice` names the set-ups (what
clients and blocks may do, the policy, the message ratio) in which the program does not
itself rely on the time-out; the three it excludes are described in 3.1. The instances
are among those, which `SetupsSuffice` of `MC_Workers` checks.

### 2.8 ThreadPool

What a thread does under `_waitMutex` is one step; `listLock` is
`_threadListMutex`. Callers are outside threads and the pool's own workers. The
system may refuse a thread or a scheduling policy. Tasks are their priorities.
A pool that is shut down still creates a worker for each `execute()` and records
it nowhere; the module has this thread, and `HeldWithinMax` leaves it out.

### 2.9 BlockWork

A call of `work()` reads what its ports hold (`Begin`), computes how many samples
it takes, gathers tags, stages and applies settings (`Size`), and runs the user's
function and finalises the spans (`Finish`); upstream (`Deliver`), downstream
(`Take`, `DownstreamLeaves`), a stop request and a staged setting come between. Tags are
records that keep the sample they were put on. The user's function takes any
amount the contract allows; a block with the policy "keep" consumes what it
publishes, and `TakesSilently = FALSE` keeps it from consuming without publishing,
since a block that maps tags by position cannot forward the tags of samples it
drops (`forwardTags()` is the user's there). Tags inside a chunk that policy
"first" passes over stay on the input until their sample is consumed.

`computeResampling` follows the branches of the code: a block of one sample for one
takes all there is, whatever its stride, and a strided block of other chunk sizes one
chunk. A strided block therefore is handed samples that it consumes only in part and
is handed again, or consumes more than it was handed and keeps the rest in
`strideCounter`, within a call and over several. A configuration names its
output ring (`outRing`). `ConfigsAssumption` keeps to configurations a block
can have: only one with `Resampling<>`, and with it the policy "ratio", has chunks
other than 1:1, and one that keeps tag offsets has no `Stride<>` and no asynchronous
port.

### 2.10 SettingsStore

`store` holds the members of `CtxSettingsBase`: the stored sets per context with
their times, the active context, `staged`, `autoUpdate` (the keys that follow
tags), the defaults, and the block's fields (`member`). An apply is a record in `applies`
from the moment it takes the staged values to the end of its second half, with
the callback, which may throw, in between and without the lock. What `resetDefaults()`
prunes follows its apply (`AfterApply`), unless the apply left by the callback's
exception. Each setting is
coupled to a tag key of its own. Two sets of one context do not carry the same
time (`SameInstant = FALSE`, see 3.1). `SettingsAssumption` says that the model's names
do not collide: the two control tags are no settings, and no context is called as the
default one or as the empty tag. `pins` is history: the keys `set()` has stopped from
following, per context and time.

### 2.11 GraphEdit, GraphLoops, ExecutionOrder

`GraphEdit`: `net` is the edge list with the state of each edge and, for each
input, the output whose ring it reads. An edit is one action, since
`WorkQuiescence` excludes the workers. `InGraph`, `served` and `blockState` say
which blocks the edit finds running, ended, removed or failed. A run whose workers have
all left takes no block: an added one or a replacement stays in the graph, its
neighbours do not restart, and a start hook may have failed before the last worker left.
`GraphLoops`: `detectFeedbackLoops()` as a depth-first search with its colours,
`calculateLoopPrimingSize()`, `primeLoop()`; then the blocks run. `Graphs` is the
set of graphs; strides and minimum sizes have their defaults.
`ExecutionOrder`: `findSourceBlocks()`, the traversals, `nJobLists()` and
`batchBlocks()` on the same graphs, with any subset of {g, d} as block groups and
up to four threads.

### 2.12 MessageFlow, TimerTask

`rings` are msgIn, the ring all children read, the ring they all write, and msgOut;
`kept` are the three places where messages wait for room
(`_pendingMessagesToChildren`, `_unforwardedReplies`, `_unsentReplies` of a block),
each bounded by the ring's length, the oldest dropped and counted. One thread at a
time makes a message pass (`messagePass`), the workers handle the messages of
their blocks beside it. `fate` is history: what became of each request and reply.
`TimerTask` counts time in samples; the pool may start the task late or refuse it,
and a tick may come late by `MaxLate`.

## 3. What the runs check

| Run | Instance | Shows |
|---|---|---|
| `contention` | ring: 2 producers (one blocking, one trying), 1 reader, 2 slots, cursors to 4; run: 2 threads, a pool of 2, four requests with one worker and three with two | nothing unread is overwritten, nothing completed stays invisible, the ring implements `BroadcastLog`; a graph is swapped and destroyed when nobody works on it; a stop is not undone by a swap or a start asked for earlier |
| `mpr_churn` | 1 producer, 2 readers that come and go (the list may be empty), 2 slots, cursors to 4, spans published in part | the cached minimum is a lower bound for every attached reader |
| `wq_nested` | a worker each of a scheduler and its sub-scheduler, an outside thread | every request over two levels is granted |
| `wq_crossing` | a block of each level controls the outer scheduler | a violation, see 3.1 |
| `ls_calls` | 2 callers, 4 calls, a blocking and a non-blocking block on a worker each; hooks throw, edges fail | after a stop or an error nothing is active |
| `ls_live` | 2 callers, 3 calls, fairness | every call returns; a start interrupted by a stop starts all blocks or none |
| `workers` | lists: 2 workers, 3 blocks, 3 edits, failing hooks, a stop at any time; parks: 1 or 2 workers, a client, 1 message, 2 calls, 2 runs, `spin` 0 and `due` 2 | one worker per block; every running block has a worker; nothing waits for a parked worker |
| `building_blocks` | lock: 3 threads; bitset: 2 threads, 5 bits in words of 2; history: capacities to 3, single elements and ranges of 2; segments: 2 readers, 3 positions; pool: 2 callers, 3 workers, 2 tasks | each building block keeps its promise |
| `work` | twelve blocks over rings of 2 or 3 samples and 3 tags; the strided ones are handed up to 3 samples a call | tags, samples and the end of the stream arrive once, in order, at their place |
| `liveness` | four blocks without tags; the pool; 2 workers and an outside thread on one scheduler | a stream that ended, ends downstream; every call of the pool returns; edits exclude `work()`, a grant sees no user code running but its callers', workers come back |
| `live_edits` | settings: 1 key, 2 contexts, 3 calls, 2 applies; wiring: 3 blocks, 4 edits; loops and lists: every graph to 3 edges over two outputs, 4 over one | staged values are noticed and applied whole; readers and edges agree; no loop starves; each block is in one job list |
| `messages` | 1 child, rings of one slot, 2 requests, a notification, 2 connects; timer: time to 8, 1 pause | every request is answered once and in order, or counted as dropped; the timer task lives within its run and counts no pause |

Properties, by the question they answer:

- *Ring.* `ClaimsKeepResidents`, `UnreadSamplesIntact`: no claim laps a reader
  that stays, and what it reads is what was written. `NothingLeftUnpublished`:
  when no producer is inside a publish, all that is marked is readable.
  `CachedMinIsLowerBound`. `ImplementsLog`.
- *Run.* `GraphIsLeftAlone`, `StopHolds`.
- *Quiescence.* `NoWorkDuringPlainRequest`, `GrantSeesOnlyCallers`,
  `EveryRequestIsGranted`, `WorkersReturn`.
- *Lifecycle.* `StopReachesEveryBlock`, `ErrorLeavesNothingRunning`,
  `EveryChildOrNone`, `EveryCallReturns`.
- *Workers.* `OneHolderPerBlock` (no two workers that may still call blocks, and not
  none, for a running block; without "may still call" it fails once the run is over,
  where a worker that leaves records a block handed over that another one, leaving as
  well, has recorded too, and neither calls it), `NothingWaitsForParked`, `JobListsShareBlocks`, `PoolAccounted` (no task
  waits beside a sleeping worker; the threads stay within their bounds, end with the
  pool and run under its policy), `PoolCallsReturn`.
- *Data.* `TagsOnceAndInOrder`, `StreamEndsWhole` (nothing is left behind, the end of
  the stream comes last), `TailAccounted`, `StreamEnds`, `SegmentsKept`,
  `ReadsHistory`, `NoLoopStarves`, `WiringKept`.
- *Settings.* `SettingsCoherent` (what is read is what the block has, under a
  context that exists; what is staged is noticed), `SetStopsFollowing`,
  `PresentSetKept`.
- *Messages.* `RequestsAnsweredInOrder`, `TaskBelongsToRun`.
- *Words.* `LockExcludes`, `BitsAsCalled`.

Bounds. Two producers and two slots are enough for every order of claims and
publications to wrap around (two rounds of the ring fit in `MaxCursor`). Two
readers are needed for one to attach while the other is in the list, is leaving
it or has left it empty; they refresh the cached minimum too, so one producer
gives three threads that race on it. Two workers
and one outside thread give every pair of "inside" and "outside" requests; a
third worker adds only more of the same counts. Four calls by two threads allow
a complete run, a call that overlaps with each part of it, and another start.
Four requests allow a start, a swap, and two stops around them or a destruction
at the end; two workers are needed for one to leave while the other applies a
request. Three edits are the least in which a block is restarted twice and
removed. Rings of two samples hold less than every block's larger chunk and its
rest together, so that waits for room, partial calls and the end of the stream
meet; the strided blocks of one sample for one have an output ring of three, so that a
call is handed more than one stride and the rest of a stride lies within a call, at its
end or behind it. Four edges are the least with two loops that share an edge and a way into
them. The constants named `Max…` bound the models and nothing in the code.

Steps interleave in a total order. The code's atomics are acquire/release with
sequentially consistent accesses and fences at the places where two threads each
write one word and read the other's (attach against refresh, request against
entry, park against wake); this is the assumption under which interleaving is
adequate, and it is not itself verified here.

Fairness. Threads that are not blocked are scheduled (weak fairness of each
thread's steps): the operating system's scheduler and the pool provide it. A
mutex that is released again and again is acquired (strong fairness of `Lock`),
which `std::mutex` does not promise but the implementations in use provide in
practice. A worker that may leave its loop does so (strong fairness of
`LeaveLoop`): its check is in every pass. In `liveness`, `work()` is called again
and again, upstream delivers what it has and downstream takes what is there.
No fairness is put on callers, edits, on what the user's function takes, or
on a block's decision to call the scheduler. Deadlock checking is on in
`contention`, whose behaviours may stop only where no call is under way, and off
where a model legitimately ends: when the bounded calls or edits are used up, or
the workers have left.

### 3.1 Disagreements between code and its comments or tests

`wq_crossing` is expected to find a violation: a block of a sub-scheduler and a
block of the scheduler around it both control the outer scheduler from `work()`
and wait for each other.

The following were found by changing constants or by checking a formula that the
modules define and no run lists. Each is a behaviour of the code that a comment or
test rules out, or a case that the properties above leave out for this reason.

Rings:

- `AvailableFitsBuffer`: a claim tested against a list loaded before an attach
  passes the new reader by more than the buffer (`ClaimStrategy.hpp:373`).
- The ring with `Readers = {}`: nothing gates the producers, so one that
  stalls between claim and mark is lapped, its late mark replaces a newer one, and
  `NothingLeftUnpublished` fails (`ClaimStrategy.hpp:375` against its comment at 182).
- The ring with a resident and `PartialPublish = TRUE`: the unpublished rest of a
  span stops the publish cursor (`CircularBuffer.hpp:390` against 433).

Calls of a scheduler:

- `WorkQuiescence`: two callers granted together; the first returns into its
  block's `work()` while the second still runs stop hooks, against
  `Scheduler.hpp:2149-2150`.
- `RunningLeavesNoBlockPaused` (with the calls `Overtake`): a resume between a
  pause's check and its move leaves a block paused in a running scheduler
  (`Scheduler.hpp:2187` against `src/core/test/qa_SchedulerLifecycle.cpp:6617-6619`).
- `RunsDoNotFail` (with the calls `Rerun`): `runAndWait()` settles STOPPED while
  another thread's stop still sweeps, and the next `runAndWait()` fails
  (`Scheduler.hpp:1057` against 1068-1069).
- `LifecycleSweeps` with three callers: `resume()` sweeps without the lock
  (`Scheduler.hpp:2232`), so with a start, a pause and resume, and a stop on three
  threads it can start a block after the stop's sweep; `reset()` publishes
  INITIALISED before it waits (1418-1421) and may wait for another thread's new
  run.
- `LifecycleSweeps`: a stop hook that throws in `finaliseIO()` is hidden by the
  store of STOPPED that follows (`Block.hpp:2757`).
- `AnyStopHolds` of `RunOwnership`: a swap may take another caller's stop for its
  own. It reads RUNNING, another thread stops the scheduler, and its own stop is
  then satisfied by the state it finds; or the other stop has changed the state
  and not yet advanced the generation when the swap restores the run. The
  scheduler is RUNNING after that `stop()` returned, against
  `Scheduler.hpp:316-325`. `StopHolds` excludes these by `takenOver`.
- `RunOwnership`: an `exchange()` on another thread that finds REQUESTED_STOP, or an
  INITIALISED that another thread's `reset()` has just published, confirms its
  claim without waiting and swaps the graph under workers that are still in their
  loop, against `Scheduler.hpp:3149`. `SwapsAlone` excludes this swap.
- `RunOwnership` with the owner "all": with several threads that start and swap, a
  run is swapped while another thread is inside `start()` and has not counted its
  workers yet. The code leaves this to its callers.
- The destructor reads RUNNING, the run fails to ERROR (a deferred start whose
  wiring fails), the change to REQUESTED_STOP is refused, and the destructor aborts
  (`Scheduler.hpp:639-643`).

Workers:

- `RemovedBlocksDoNotReappear`: a block queued twice is taken out once by its
  removal, and comes back into a job list (`Scheduler.hpp:3130`).
- `JobLists`: a block added and removed before its adoption is active and enters
  the zombie list, though no list leads a worker to it (`Scheduler.hpp:3136`
  against the test `src/core/test/qa_GraphEdit.cpp:3259`); a stop whose sweep ends
  before `EmplaceBlock` starts its block leaves that block RUNNING, since this
  edit does not take the sweep's lock (2785); a removal between `Take` and `Record`
  after a stop leaves the block in a recorded list.
- `ParkWake` with "message" beside "emit" in `may`: a worker's publish is exempt
  from waking; it moves the cursor past a message another thread has stored, whose
  own publish then finds the cursor moved and wakes nobody (`ClaimStrategy.hpp:342`
  against the comment at `Scheduler.hpp:2052-2060`). The message waits for a
  time-out.
- `ParkWake`, single-threaded blocking policy: the worker parks after
  `timeout_inactivity_count` (5) idle passes, before the 16 passes
  (`process_stream_to_message_ratio`) that make it read its messages, so a forwarded
  message waits for a time-out. `due` and `spin` of that setup avoid it.
- `ParkWake`, a pool with a message ratio above 1 and a client that pauses: a pass that a
  request for quiescence turned away keeps `idleIterations` and `nPassesToMessages`, since
  `callAsWork()` returns no value. The worker's next pass may then skip its messages, count
  one idle pass more and park, although a message was forwarded to its block, or a block
  was queued for it, with a wake that came before that pass read the wake sequence
  (`Scheduler.hpp:1836-1859`, 1872). It waits for the time-out.

Graphs and settings:

- `WiringKept` with `ResumeIntoEnded = TRUE`: a resume connects an edge that waits
  into a block that ended or failed and that no worker calls; its reader then
  stops the source. A resume also makes a new reader for such an edge, and what the
  old one had queued is lost.
- `emplaceEdge` into a block left in ERROR connects a reader; the guard of the
  action excludes it.
- An edit re-sizes only the endpoints of an emplaced edge and the source of a
  removed one (`Graph.hpp:974-979`), and a restart after a removal builds a ring
  of the default size while the edge's `bufferSize()` keeps the old one. Sizes are
  not in the model.
- An edge added past the input checks makes the reader count of
  `removeEdgeBySourcePort()` wrong, as the comment at `Graph.hpp:610` warns;
  `exportPort()` accepts a second port of the same exported name.
- `NoLoopStarves` with chunks 2:2 and 3:3 in one loop:
  `calculateLoopPrimingSize()` takes the largest chunk (`Graph.hpp:1363`), too few
  samples where the chunks do not divide each other. It also ignores changes of rate
  between the blocks of a loop (`RatesAgree` leaves those graphs out) and multiplies
  in 32 bits. Each resume primes every loop again, which
  `src/core/test/qa_SchedulerLifecycle.cpp:5556-5620` expects.
- `SettingsStore` with `SameInstant = TRUE`: of two sets with one time the earlier
  is found (`Settings.hpp:773` against `Settings.cpp:499`).

## 4. What is proved

TLAPS checks the theorems of eight modules, for every value of the constants that
the module's named assumption, and the hypotheses listed here, allow; the runs of section 3 check the same
properties on small instances. None of the properties is inductive as it stands.
What each proof adds is the reason why the code is right, so it is given here.

| Theorem | States | From |
|---|---|---|
| `MultiProducerRing_proofs!TypesCorrect`, `ResidentsAreGated`, `CachedMinimumIsSafe` | `TypeOK`, `ClaimsKeepResidents`, `CachedMinIsLowerBound` | `RingAssumption` |
| `MultiProducerRing_proofs!ResidentsReadTheirSamples` | `UnreadSamplesIntact` | `RingAssumption` |
| `MultiProducerRing_proofs!ClaimsGetPublished` | `NothingLeftUnpublished` | the same, a reader that stays, spans that publish all they reserved |
| `MultiProducerRing_proofs!RingImplementsLog` | `ImplementsLog`: the ring refines `BroadcastLog` | `RingAssumption` |
| `WorkQuiescence_proofs!WqTypesAndCounters`, `WorkersStayOut`, `CallersSeeOnlyCallers` | `TypeOK`, `NoWorkDuringPlainRequest`, `GrantSeesOnlyCallers` (an action property) | `ConfigAssumption` |
| `JobLists_proofs!BlocksHaveOneHolder` | `OneHolderPerBlock` | `ListsAssumption` |
| `ParkWake_proofs!NoWakeIsMissed` | `NothingWaitsForParked` | `ParkAssumption`, `WakesSuffice` of every set-up |
| `ThreadPool_proofs!TasksMeetWorkers` | `PoolAccounted` | `PoolAssumption` |
| `LiveEdits_proofs!WiringStays` | `WiringKept` | `PortsHeld`, what is removed or replaced is a block, no resume into an ended block |
| `LiveEdits_proofs!SettingsStayCoherent`, `PresentSetsKept` | `SettingsCoherent`, `PresentSetKept` (an action property) | `SettingsAssumption` |
| `LiveEdits_proofs!SetsStopFollowing` | `SetStopsFollowing` | the same, no two sets of a context with one time |
| `SegmentedRing_proofs!SegmentsAreKept` | `SegmentsKept` | `SegAssumption` |
| `BuildingBlocks_proofs!BitsAreAsCalled` | `BitsAsCalled` | `BitsAssumption` |
| `BuildingBlocks_proofs!LockIsExclusive` | `LockExcludes` | – (any set of threads) |
| `BuildingBlocks_proofs!TimerTaskBelongsToRun` | `TaskBelongsToRun` | `TimerAssumption` |
| `BuildingBlocks_proofs!HistoryIsRead` | `ReadsHistory` | `HistoryAssumption` (`bit_ceil` gives a number no smaller than its argument; TLC evaluates it for the run's capacities) |

**The ring's cursors** (`IInv` of `MultiProducerRing_proofs`). `Bounds` orders the
cursors and the copies threads hold of them. `Gated` says what a producer about to
compare-and-set, and a thread in the middle of a refresh, know about each
resident: a reader it has not loaded yet is still in its `todo`, and the minimum
so far is below every reader it has loaded. `Cached` is the subtle part: a refresh
begun before a reader attached does not know that reader, but it loaded the
publish cursor *before* the list, stores no more than that value, and the reader
re-reads the publish cursor *after* it entered the list; hence the value it starts
from is not below what the refresh will store. The order of the two loads in
`refreshMinReaderCursor()` and the second load in `addSequences()` are both needed.

**The ring's samples** (`DataInv`, on top of `IInv`). `Owned`: between its claim and
its mark a sample belongs to one producer, is unmarked and lies above the publish
cursor and above every scan. `Scans`: a scan covers at most one round. `Stored`: what
a resident has not read is in its slot with its own number, unless its producer is
still filling it. `Taken` adds who publishes: every claimed sample is readable, marked
or owned; where the first unpublished sample is marked, some producer is still to
load the publish cursor or will find that mark (`MarkedIsFound`); and a mark made
behind a scan that is about to succeed is left to another producer (`NextIsFound`).
It holds only with a reader that stays, which keeps the unpublished samples within
one lap, and with spans published whole; section 3.1 describes what happens without
either. For the refinement the log's content is the samples' numbers (`NumberView`);
a claim, a mark or a scan is a stutter of the log, a successful compare-and-set of
the publish cursor publishes.

**Quiescence** (`WqInv`). The code excludes workers by counters that many threads
add to and take from. `CountersExact` says that each counter is the number of the
threads that are at a place which counts; `CallOnCourse` ties what a thread holds
(requests, locks, the permission of its own `work()` call) to what the rest of its
call gives back, so no release takes away the request of another; `SeenBounds`
says that what a waiting caller has read of `nInWork` still bounds the workers
inside, since after its request nobody gets in whom it does not count. From these
follow that no counter wraps below zero, that a granted request from outside
excludes all `work()` calls, and that one from inside sees only callers. What is
left of a call is a sequence of instructions, so a part of the proof is about
sequences: a request is given back before it is made again (`Matched`).

**Job lists** (`ListsInv`). A run is followed while it is on (`RunInv`); once it is
over, no worker that is still to call its blocks takes another one. `HeldApart`:
what the workers that are left hold, have taken or have queued is disjoint. The
danger is a restart: the endpoint of a new edge that has stopped is still in its
worker's list when it is queued again. The edit therefore asks the recorded lists
for its holder; that this is the right worker needs `Recorded` (a worker has all it
holds recorded, but blocks that failed), `QueuedIsListed` (a queued block that has
stopped again is in that worker's list already) and `OrdersApart`, and that it stays
right until the block is queued is `Preferred`. `Excluded` and `EditBlocks` say that
the restarted block still runs when it is queued, since no worker is inside
`work()`. A new block never ran (`Untouched`), so nobody holds it. That no running
block is lost is `Running`, and for a worker about to leave `Finished`: it has no
running block but in its queue, so with an empty queue it may close the list.

**Parking** (`ParkInv`). A worker that parks must have looked, since it last read the
sequences, at everything it can wait for. For each kind (`WorkSeen`, `MessageSeen`,
`GivenSeen`, `StateSeen`) the invariant says, at each place of the pass: what came after
the look has moved a sequence the worker compares before it waits (`moved`, `woken`), or
a call that is under way is still to advance it (`Comes`). `Notified` closes the last
gap, between the comparison and the wait: who moves a sequence under a worker that waits
is still to look for waiters or to notify them. For messages a pool's worker may leave
the message service to another, and it does so only in a pass that starts its count of
idle passes anew; `PassesLeft` says that one that counts towards a park looks at its
messages in each pass. Calls are sequences of steps, and `OnCourse` says that a store is
always followed by its advance, and that by the look for waiters. The hypothesis
`WakesSuffice` excludes exactly the three cases of 3.1 in which a worker does wait for
its time-out; TLC finds a counterexample in each of them.

**The pool** (`PoolInv`). `Counters`: the pool's numbers are those of threads and callers
in certain places; an idle worker that is still to be created counts, and a caller that is
about to create it counts as a reservation. `Covered` is the reason why no task is left
alone: there are as many idle workers as queued tasks, not counting callers that wait for
another one's worker, or the threads that exist have reached the least maximum that was
in force while a task was queued (`low`). A worker still to be made does not count in the
second case, since the system may refuse it, and the callers that trusted it then look
again. `Rested`: while a worker sleeps,
the workers that are awake and the callers that are about to notify are as many as the
tasks in the queue. `Threads` and `Ending` say who has the threads: the pool's list, or
the caller that joins them; a departed worker is in the list until a caller takes it out
under the lock, and its number is not used again before. `Sizes`: who goes on to add a
worker has left room for it, since the list without the departed is the idle and the
running threads, and the counters have counted the new one already. `Agreed`: a worker
in the list runs under the policy that was accepted last, and while nobody is changing it
the pool reports that one.

**Wiring** (`GraphInv`). The four parts of `WiringKept` need each other. A removal tears a
ring down by what its readers' edges say, so it needs every reader listed
(`ReadersListed`) and one edge for an input (`InputsTakenOnce`); a restart finds the edges
to connect by inputs that hold nothing, so no input may hold the ring of another output
than its edge's (`InputsAsListed`; before a run the input of an edge that waits may still
hold the ring of a removed block). That a running source has no reader that nobody calls
(`NobodyGates`) follows from `ReadersAreServed`: as long as a worker is left, whoever
reads a ring has a worker. A resume into a block that ended breaks it (3.1), which is the
hypothesis `~ResumeIntoEnded`.

**Settings** (`SettingsInv`, `FollowInv`). An apply takes the staged values and releases
the lock; whatever is called until it returns, it ends on the store it finds. `Good`
says what every call under the lock keeps: the sets of a context are sorted, the
default context has one that is valid now, the active context has one at all, and
`changed()` says so if anything is staged. The third needs the second: the contexts a
removal or a refused apply falls back to are found by a search in the default context,
and pruning keeps the set that is valid now, wherever `now` lies among the times.
`IsApply` says of what a running apply has taken only that its values are values of
settings and its contexts are named, never that its sets are still there. Following
needs more. `Tracked`: there is an entry for each stored set, under its context and
time, and no other; it fails when two sets share a time, since pruning one takes the
entry of both (3.1), hence the hypothesis `~SameInstant`. `Pinned`: a key stopped by
`set()` does not follow in its set, and a set that has been pruned lies in the past, so
no later call stores one at its time that would follow again. A reset makes everything
follow, but keeps the entries of before in case the block refuses: `Saved` says that the
pins hold in those entries too, or their set is gone for good.

**Segments** (`SegInv`). The writer frees what every reader has passed, as far as
it knows. The position it takes for the slowest is at or below the cursor of every
reader that is attached and in its copy of the list; a reader that attaches after the
copy is at the published position (`ReaderInv`), and the writer frees nothing from
there on. `IndexInv`: the current index names exactly the allocated segments, and one
that was replaced still names what was published when it was, which is all its spans
can reach (`SpanInv`). `BoundInv` bounds the doubling: an index that is full after a
round of freeing holds only segments inside the window.

**Words.** A range of bits is cut into parts of distinct words that cover it
(`RangeIsCut`), and what is left of a call covers what is missing, so that each
compare-and-set writes the range's bits of its word and no other. In the lock a thread
between its load and its compare-and-set expects a value of its own kind's sign
(`ExpectsOwnKind`), and the counter moves with the set of holders. The timer task is
awaited by whoever ends the source (`TaskIsAwaited`), its next tick is never later
than `MaxLate` after its time (`TaskIsOnTime`), and what is counted beyond the time
outside pauses is at most one chunk and the lateness of two ticks for each pause
(`PausesAreBounded`).

**History** (`HistoryInv`). That an index reads its element says nothing of the second
copy of the ring, so `Holds` says both: from the write position on, the slots of the
first copy hold the history, and those of the second hold it from the index
`_mirrorDirtyCount` on. A push in front makes the elements before it one index older,
and the count grows with it; an element dropped in front takes its stale slot with it; a
push at the end writes both copies, so nothing after the count becomes stale.
`syncMirror()` is then enough for a span from any index (`Mirrored`, `Contiguous`). The
steps of a range (`PushFrontRangeStep`, `PushBackRangeStep`) hold for one of any length,
also longer than the capacity.

Only model-checked:

- every liveness property (`EveryRequestIsGranted`, `WorkersReturn`,
  `EveryCallReturns`, `PoolCallsReturn`, `StreamEnds`): the prover has no rules for
  fairness and ENABLED;
- `NoLoopStarves` and `JobListsShareBlocks`, about searches over every graph, and the
  tag properties of `BlockWork`, whose steps fold over sequences of tags: these need
  induction over data;
- `GraphIsLeftAlone`, `StopHolds`, the three of `LifecycleSweeps` and
  `RequestsAnsweredInOrder`: within the prover's reach in principle, not proved yet.

## 5. Plan

Modelled so far: everything in section 2. Next: exported ports and nested graphs,
`TriggerMatcher`, and the single-producer ring as a buffer of its own.

Theorems worth proving next: `StopReachesEveryBlock`, `ErrorLeavesNothingRunning`
and `EveryChildOrNone` for any number of blocks, workers and callers (invariant:
what is left of a sweep covers the blocks it has not stopped, and who holds the
lifecycle lock), which need hypotheses on the callers; `GraphIsLeftAlone` and
`StopHolds` (what each caller's stack of calls still gives back).

## 6. What is not modelled, and why

Values, tensors, YAML and the type conversions are sequential data code. Plugins,
registries and shared state act on the linker and the file system. Reflection,
traits and block merging are evaluated by the compiler. Allocators, devices,
affinity and scheduling policies wrap system calls. The profiler only observes.
Floating-point timing of wall-clock sources is out of TLC's reach. Weak memory
effects below sequential consistency are not expressed. Within the modelled parts:
the expiry of stored settings and the lock that `reset()` releases around its
callback; message edges, exported ports and the sizes of rings in `GraphEdit`; the
affinity masks and names of pool threads; IDLE, `init()` and `failRun()` in
`LifecycleSweeps`; the SIMD paths and `forwardTags()` overrides of blocks.
