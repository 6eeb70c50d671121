------------------------------- MODULE BlockWork -------------------------------
(***************************************************************************)
(* Block::work() (Block.hpp) with the spans of its stream ports (Port.hpp):*)
(* how many samples a call may take, which tags set settings and leave on  *)
(* the output, what happens at the end of the stream, and when a block     *)
(* that cannot use its last samples gives up.  The block has one output;   *)
(* upstream blocks publish tags before samples, a downstream block takes   *)
(* samples or leaves, and another thread may request a stop or stage a     *)
(* setting, at any time.  A call of work() takes three steps: it reads     *)
(* what is available (Begin), sizes itself and prepares its spans (Size),  *)
(* and runs the user's function and finalises (Finish).                    *)
(***************************************************************************)
EXTENDS Integers, Sequences, FiniteSets, SequencesExt

CONSTANTS Ins,         \* names of stream inputs
          Configs,     \* the blocks: see BlockConfig
          TagRing,     \* slots of the output's tag ring
          StallLimit,  \* kStallLimit
          MaxBurst,    \* samples per upstream call
          MaxTags,     \* tags per input, at most
          TakesSilently \* the user's function may consume and publish nothing

VARIABLES cfg,   \* the block: its ports, chunk sizes and tag policy
          in,    \* per input: ring positions, unread tags, upstream's state
          out,   \* the output's rings
          blk,   \* the members of Block
          call   \* the running call of work()

workVars == <<cfg, in, out, blk, call>>

Inf == 30

Policy == {"keep",    \* keepsTagOffsets()
           "ratio",   \* mapsTagsByChunkRatio()
           "first",   \* neither: only the tags at the first sample
           "back"}    \* BackwardTagPropagation

\* Only Resampling<>, and with it the policy "ratio", has chunks other than 1:1, and
\* a block that keeps tag offsets has no Stride<> and no asynchronous port.
BlockConfig ==
  {c \in [sync : Seq(Ins), async : SUBSET Ins, chunkIn : 1 .. 3, chunkOut : 1 .. 3, stride : 0 .. 4,
          minIn : 0 .. 3, minAsync : 1 .. 3, policy : Policy, epilogue : BOOLEAN,
          outRing : 1 .. 4,                                       \* slots of the output's sample ring
          maxIn : Nat, maxTags : 0 .. MaxTags, maxSets : Nat] :   \* bounds of the environment
     /\ c.policy # "ratio" => c.chunkIn = 1 /\ c.chunkOut = 1
     /\ c.policy = "keep" => c.stride = 0 /\ c.async = {}}

ASSUME ConfigsAssumption == Configs \subseteq BlockConfig

SumOver(S, f(_)) == FoldSet(LAMBDA i, acc : acc + f(i), 0, S)
Least(S) == CHOOSE n \in S \cup {Inf} : \A o \in S : n <= o
Most(a, b) == IF a > b THEN a ELSE b
Fewest(a, b) == IF a < b THEN a ELSE b
\* Op applied to the value of e, which is computed once.
With(e, Op(_)) == CHOOSE r \in {Op(v) : v \in {e}} : TRUE
CeilDiv(a, b) == (a + b - 1) \div b

-----------------------------------------------------------------------------
\* Tags.  `map` numbers the content of an ordinary tag; an output tag also
\* records the input index `at` from which it was forwarded.

InTag(idx, kind, map) == [idx |-> idx, kind |-> kind, map |-> map]
OutTag(idx, kind, map, at) == [idx |-> idx, kind |-> kind, map |-> map, at |-> at, sets |-> {}]
ParamTag(idx, params) == [idx |-> idx, kind |-> "param", map |-> 0, at |-> 0, sets |-> params]

\* The synchronous inputs; cfg.sync lists them in port order.
Sync == {cfg.sync[k] : k \in DOMAIN cfg.sync}

hasWholeChunkTagWindow == cfg.policy \in {"keep", "ratio", "back"}
strided == cfg.stride # 0 /\ cfg.stride # cfg.chunkIn

\* A work state w is a record [in, out, blk]; the operators below take one and
\* return the next, in the order in which the code calls them.

Held(w, i) == w.in[i].wr - w.in[i].rd
Room(w) == cfg.outRing - (w.out.wr - w.out.rd)
TagRoom(w) == TagRing - (Len(w.out.tags) - w.out.tagRd)

\* InputSpan::tags(n): the unread tags less than n samples past the read position.
TagsBelow(w, i, n) == SelectSeq(w.in[i].tags, LAMBDA t : t.idx < w.in[i].rd + n)

\* samples_to_eos_tag(): defaultEOSTagMatcher over the unread tags.
ToEoS(w, i) ==
  Least({w.in[i].tags[k].idx - w.in[i].rd : k \in {k \in DOMAIN w.in[i].tags :
           w.in[i].tags[k].kind = "eos" /\ w.in[i].tags[k].idx >= w.in[i].rd}})

\* InputSpan::consumeTags(window), and n samples consumed.
Retire(port, n, window) ==
  [port EXCEPT !.tags = SelectSeq(@, LAMBDA t : t.idx >= port.rd + window), !.rd = @ + n]

(* mutant: every tag of the consumed samples is retired *)
ReleaseAll(port, n) == IF n = 0 THEN port ELSE Retire(port, n, n)

\* The end of an InputSpan: consumes its samples, and the tags of the window it
\* retires unless it consumed nothing.
ReleaseSamples(port, n) ==
  IF n = 0 THEN port ELSE Retire(port, n, IF hasWholeChunkTagWindow THEN n ELSE 1)

\* The block's own consumeTags(n) on every synchronous input overrides the window.
RetireSync(w, n) ==
  [w EXCEPT !.in = [i \in Ins |-> IF i \in Sync THEN Retire(@[i], n, n) ELSE @[i]]]

-----------------------------------------------------------------------------
\* Settings as work() sees them: a tag or another thread stages a value,
\* applyChangedSettings() applies what is staged, and the outside values of an
\* auto-forward setting become pending forward parameters.

autoUpdate(w, tagsOf) ==
  LET ids == UNION {{<<i, tagsOf[i][k].map>> : k \in {k \in DOMAIN tagsOf[i] : tagsOf[i][k].kind = "tag"}} :
                      i \in Sync}
  IN IF ids = {} THEN w
     ELSE [w EXCEPT !.blk.applied = [id \in DOMAIN @ |-> @[id] + (IF id \in ids THEN 1 ELSE 0)],
                    !.blk.changed = TRUE]

applyChangedSettings(w) ==
  [w EXCEPT !.blk.pending = @ \cup w.blk.staged, !.blk.staged = {}, !.blk.changed = FALSE]

\* applyInputTagsInWindow(): tags before firstIndex are left out, and so are
\* those at or behind the read position when they were applied before the call.
applyInputTagsInWindow(w, n, firstIndex, firstApplied) ==
  autoUpdate(w, [i \in Sync |-> SelectSeq(TagsBelow(w, i, n), LAMBDA t :
                                   /\ t.idx - w.in[i].rd >= firstIndex
                                   /\ ~(firstApplied /\ t.idx <= w.in[i].rd))])

\* The window an input span of n samples retires, and the forwarder reads.
TagWindow(n) == IF hasWholeChunkTagWindow THEN n ELSE Fewest(1, n)

applyInputTagsFromPorts(w, n, firstApplied) ==
  applyInputTagsInWindow(w, TagWindow(n), -Inf, firstApplied)

applyInputTagsAndSettings(w, n, hasAnyTag, firstApplied) ==
  IF hasAnyTag THEN With(applyInputTagsFromPorts(w, n, firstApplied), applyChangedSettings) ELSE w

-----------------------------------------------------------------------------
\* The output span: the tags placed so far, its tag capacity and the samples
\* it holds.  Tags and samples reach the rings when it is released.

tryReserve(w, n) == [tags |-> <<>>, cap |-> TagRoom(w), size |-> n, dropped |-> 0]

\* OutputSpan::publishTag(): the last slot is kept for the end-of-stream tag.
PlaceAll(span, all) ==
  With(all, LAMBDA tags :
    LET n == Fewest(Len(tags), Most(span.cap - 1, 0))
    IN [span EXCEPT !.tags = SubSeq(tags, 1, n), !.dropped = @ + Len(tags) - n])

publishTag(span, tag) ==
  IF Len(span.tags) + 1 >= span.cap THEN [span EXCEPT !.dropped = @ + 1]
  ELSE [span EXCEPT !.tags = Append(@, tag)]

\* A stable sort by index.
ByIndex(tags) ==
  IF Len(tags) <= 1 THEN tags
  ELSE FoldLeft(LAMBDA acc, i : acc \o SelectSeq(tags, LAMBDA t : t.idx = i), <<>>,
                SetToSortSeq({tags[k].idx : k \in DOMAIN tags}, <))

outputIndexOf(n) == (n * cfg.chunkOut) \div cfg.chunkIn

\* forwardInputTags(): the tags of the window, without the copies that several
\* inputs carry at one index, at their output offset but not past the samples
\* the span publishes, merged before the tags already placed there.
forwardInputTags(w, span, window, end) ==
  LET Offset(i, t) ==
        IF cfg.policy = "back" THEN 0 ELSE outputIndexOf(Most(t.idx - w.in[i].rd, 0))
      Collect(acc, i) ==
        LET Unseen(t) == ~\E k \in DOMAIN acc : /\ acc[k].rel = t.idx - w.in[i].rd
                                               /\ acc[k].tag.map = t.map /\ acc[k].tag.kind = t.kind
            Out(t) == [rel |-> t.idx - w.in[i].rd,
                       tag |-> OutTag(w.out.wr + Fewest(Offset(i, t), end), t.kind, t.map, t.idx)]
        IN acc \o With(SelectSeq(TagsBelow(w, i, window), Unseen),
                       LAMBDA new : [k \in DOMAIN new |-> Out(new[k])])
      forwarded == With(FoldLeft(Collect, <<>>, cfg.sync), LAMBDA seen : [k \in DOMAIN seen |-> seen[k].tag])
  IN IF \A i \in Sync : TagsBelow(w, i, window) = <<>> THEN span
     ELSE PlaceAll(span, With(forwarded \o span.tags, ByIndex))

\* publishForwardParams(): at the head of the span, never before a placed tag.
publishForwardParams(w, placed, params) ==
  IF params = {} THEN placed
  ELSE With(placed, LAMBDA span :
         publishTag(span, ParamTag(IF span.tags = <<>> THEN w.out.wr
                                   ELSE Most(w.out.wr, Last(span.tags).idx), params)))

\* The end of the span: its tags are published, then n samples.
ReleaseOut(w, span, n) ==
  [w EXCEPT !.out.tags = @ \o span.tags, !.out.wr = @ + n,
            !.out.dropped = @ + span.dropped]

\* publishEoS(): Port::publishEoSTag(), which may take the last slot.
publishEoS(w) ==
  IF ~w.out.connected THEN w
  ELSE IF TagRoom(w) = 0 THEN [w EXCEPT !.out.eosLost = TRUE]
  ELSE [w EXCEPT !.out.tags = Append(@, OutTag(w.out.wr, "eos", 0, 0))]

-----------------------------------------------------------------------------
\* The limits of a call.

\* getNextTagAndEosPosition().
NextTagAndEos(w, toEoS) ==
  LET Ended(i) == toEoS[i] # Inf
      Short(i) == toEoS[i] = 0 \/ toEoS[i] < cfg.minAsync
      all == Sync \cup cfg.async
      stillToCome == \E i \in all : ~Ended(i)
      holds == \/ \E i \in Sync : Ended(i) /\ toEoS[i] > 0
               \/ \E i \in cfg.async : Ended(i) /\ ~Short(i)
  IN [hasAnyTag |-> \E i \in Sync : w.in[i].tags # <<>>,
      nextTag |-> Least(UNION {{w.in[i].tags[k].idx - w.in[i].rd : k \in {k \in DOMAIN w.in[i].tags :
                                  w.in[i].tags[k].idx > w.in[i].rd}} : i \in Sync}),
      nextEos |-> Least({toEoS[i] : i \in Sync}),
      asyncEoS |-> (\E i \in cfg.async : Ended(i) /\ Short(i)) /\ ~holds /\ ~stillToCome,
      draining |-> holds /\ ~stillToCome,
      asyncOwed |-> \E i \in cfg.async : ~Ended(i) \/ ~Short(i)]

getNextTagAndEosPosition(w) ==
  With([i \in Sync \cup cfg.async |-> ToEoS(w, i)], LAMBDA toEoS : NextTagAndEos(w, toEoS))

\* PortCache::updateAvailable(): what the ports hold now.
available(w) ==
  [sync |-> Least({Held(w, i) : i \in Sync}),
   async |-> \E i \in cfg.async : Held(w, i) >= cfg.minAsync,
   room |-> Room(w)]

NoChunk(status) == [in |-> 0, out |-> 0, status |-> status]

\* computeResampling(), for the unlimited requestedWork of the schedulers.  A block
\* whose chunks are 1:1 takes what there is, whatever its stride; on any other a
\* stride allows one chunk.
resamples == cfg.chunkIn # 1 \/ cfg.chunkOut # 1

computeResampling(minIn, maxIn, maxOut) ==
  With(IF resamples /\ strided
       THEN IF cfg.chunkIn <= maxIn /\ cfg.chunkOut <= maxOut THEN 1 ELSE 0
       ELSE Fewest(maxIn \div cfg.chunkIn, maxOut \div cfg.chunkOut), LAMBDA n :
     IF n * cfg.chunkIn < minIn THEN NoChunk("INSUFFICIENT_INPUT_ITEMS")
     ELSE IF n * cfg.chunkOut < 1 THEN NoChunk("INSUFFICIENT_OUTPUT_ITEMS")
     ELSE [in |-> n * cfg.chunkIn, out |-> n * cfg.chunkOut, status |-> "OK"])

\* inputSamplesToSkipBeforeNextChunk().
SkipBefore(w, n) == IF strided THEN Fewest(w.blk.strideCounter, n) ELSE 0

Limits(w, avail, p, skip) ==
  LET Past(n) == IF n = Inf THEN Inf ELSE Most(n - skip, 0)
      tagLimit == IF Past(p.nextTag) >= cfg.minIn THEN Past(p.nextTag) ELSE Inf
      decimation == Most(tagLimit, cfg.chunkIn)
      eosAfterSkip == Past(p.nextEos)
      toProcess == Least({Past(avail.sync), decimation, eosAfterSkip})
  IN With(computeResampling(Fewest(cfg.minIn, p.nextEos), toProcess, avail.room), LAMBDA r :
       [in |-> r.in, out |-> r.out, status |-> r.status, skip |-> skip,
        hasAnyTag |-> p.hasAnyTag, asyncEoS |-> p.asyncEoS, draining |-> p.draining,
        hasAsyncIn |-> avail.async,
        isEosPresent |-> /\ ~p.asyncOwed
                         /\ \/ p.nextEos = 0
                            \/ eosAfterSkip < cfg.minIn
                            \/ eosAfterSkip < cfg.chunkIn
                            \/ cfg.chunkOut * (eosAfterSkip \div cfg.chunkIn) < 1])

computeSampleLimits(w, avail) ==
  With(getNextTagAndEosPosition(w), LAMBDA p :
    Limits(w, avail, p, SkipBefore(w, Fewest(avail.sync, p.nextEos))))

\* skipInputSamples(): the samples a stride passes over are a chunk without
\* output: their tags set settings and leave at the next output sample.
skipInputSamples(w, n) ==
  LET Less(i) == Most(w.blk.handed[i] - (IF i \in Sync THEN n ELSE 0), 0)
      Apply(v) == With(applyInputTagsInWindow(v, n, -Inf, FALSE), applyChangedSettings)
      Pass(v) == With(forwardInputTags(v, tryReserve(v, 0), n, 0), LAMBDA span :
                   [RetireSync(ReleaseOut(v, span, 0), n) EXCEPT
                      !.blk.strideCounter = @ - n,
                      !.blk.handed = [i \in Ins |-> Less(i)]])
  IN With(With(applyChangedSettings(w), Apply), Pass)

\* stageFirstSampleTagSettings(): the tags at or behind the read positions, less
\* those an earlier call staged at the same positions.
Stages(w) == ~(strided /\ w.blk.strideCounter > 0)

(* mutant: stages the first sample's tags at every call *)
stageFirstAgain(w) == autoUpdate(w, [i \in Sync |-> TagsBelow(w, i, 1)])

stageFirstSampleTagSettings(w) ==
  LET sum == SumOver(Sync, LAMBDA i : w.in[i].rd)
      First(i) == TagsBelow(w, i, 1)
      Known(i) == IF sum = w.blk.stagedSum THEN Fewest(w.blk.nStaged[i], Len(First(i))) ELSE 0
      fresh == [i \in Sync |-> SubSeq(First(i), Known(i) + 1, Len(First(i)))]
  IN [autoUpdate(w, fresh) EXCEPT
        !.blk.stagedSum = sum,
        !.blk.nStaged = [i \in Ins |-> IF i \in Sync THEN Len(First(i)) ELSE 0]]

-----------------------------------------------------------------------------
\* Draining.

drainWatermark(w) ==
  [moved |-> SumOver(Sync \cup cfg.async, LAMBDA i : w.in[i].rd) + w.out.wr, room |-> Room(w)]

NoMark == [moved |-> 0, room |-> 0]

\* isWaitingOnOutput().
isWaitingOnOutput(w) == w.blk.waited \/ (w.out.connected /\ Room(w) < cfg.chunkOut)

(* mutant: a call that finds room counts as progress *)
CountStallWhenFull(w, draining) ==
  IF ~draining \/ Room(w) > 0 THEN [w EXCEPT !.blk.nStalls = 0] ELSE [w EXCEPT !.blk.nStalls = @ + 1]

\* isDrainStalled(): its bookkeeping, and whether the limit is reached.
CountDrainStall(w, draining) ==
  LET mark == drainWatermark(w)
  IN IF ~draining \/ isWaitingOnOutput(w)
     THEN [w EXCEPT !.blk.nStalls = 0, !.blk.mark = NoMark]
     ELSE IF mark # w.blk.mark
     THEN [w EXCEPT !.blk.nStalls = 0, !.blk.mark = mark]
     ELSE [w EXCEPT !.blk.nStalls = @ + 1]

isDrainStalled(w) == w.blk.nStalls >= StallLimit

\* isEpilogueWaitStalled().
CountEpilogueWait(w) ==
  IF drainWatermark(w) # w.blk.epilogueMark
  THEN [w EXCEPT !.blk.nEpilogueWaits = 0, !.blk.epilogueMark = drainWatermark(w)]
  ELSE [w EXCEPT !.blk.nEpilogueWaits = @ + 1]

-----------------------------------------------------------------------------
\* The end of the stream.

shuttingDown(w) == w.blk.st = "REQUESTED_STOP"

\* What the epilogue asks of the outputs: the tail's worth of samples, at least
\* one chunk and at most the ring.
Trailing(w) == IF Sync = {} THEN 0 ELSE available(w).sync
EpilogueRequest(w) ==
  Fewest(Most(CeilDiv(Trailing(w) * cfg.chunkOut, cfg.chunkIn), cfg.chunkOut), cfg.outRing)

\* The epilogue waits for its room unless a stop is requested or the wait stalled.
EpilogueWaits(w) == ~shuttingDown(w) /\ Room(w) < EpilogueRequest(w)
AfterWait(w) == IF EpilogueWaits(w) THEN CountEpilogueWait(w) ELSE w
EpilogueTakesRoom(w) == EpilogueWaits(w) => w.blk.nEpilogueWaits >= StallLimit

\* processEpilogue() with the tail; the user publishes p samples.
RunEpilogue(w, hasAnyTag, firstApplied, p) ==
  LET n == Trailing(w)
      size == Fewest(EpilogueRequest(w), Room(w))
      Capped(span, end) == [span EXCEPT !.tags = [k \in DOMAIN @ |-> [@[k] EXCEPT !.idx = Fewest(@, end)]]]
      Forward(v) == publishForwardParams(v, forwardInputTags(v, tryReserve(v, size), n, size), v.blk.pending)
      Emit(v) == With(Forward(v), LAMBDA span :
                   [RetireSync(ReleaseOut(v, Capped(span, v.out.wr + p), p), n) EXCEPT
                      !.blk.pending = {}, !.blk.held = FALSE, !.blk.nEpilogues = @ + 1])
  IN With(With(applyChangedSettings(w), LAMBDA v : applyInputTagsAndSettings(v, n, hasAnyTag, firstApplied)), Emit)

(* mutant: a tail of one sample is not reported *)
notifyLongTail(w) ==
  [w EXCEPT !.blk.reported = {i \in Sync \cup cfg.async : ToEoS(w, i) # Inf /\ ToEoS(w, i) > w.blk.handed[i] + 1}]

\* notifyDroppedTail(): the inputs with samples no call was handed.
notifyDroppedTail(w) ==
  [w EXCEPT !.blk.reported = {i \in Sync \cup cfg.async :
     (IF ToEoS(w, i) = Inf THEN Held(w, i) ELSE ToEoS(w, i)) > w.blk.handed[i]}]

\* forwardTagsAtEndOfStream(): the tags from the read positions up to the first
\* end-of-stream tag set their settings and leave at the end-of-stream index.
forwardTagsAtEndOfStream(w, firstApplied) ==
  LET endIndex == Least({w.in[i].rd + ToEoS(w, i) : i \in {j \in Sync : ToEoS(w, j) # Inf}})
      Rest(i) == SelectSeq(w.in[i].tags, LAMBDA t : t.idx \in w.in[i].rd .. endIndex /\ t.kind = "tag")
      New(i) == SelectSeq(Rest(i), LAMBDA t : ~firstApplied \/ t.idx > w.in[i].rd)
      Collect(acc, i) ==
        acc \o SelectSeq(Rest(i), LAMBDA t : ~\E k \in DOMAIN acc : acc[k] = t)
      rest == With(FoldLeft(Collect, <<>>, cfg.sync), ByIndex)
      Put(span, t) == publishTag(span, OutTag(w.out.wr, "tag", t.map, t.idx))
      Forward(v) == With(publishForwardParams(v, FoldLeft(Put, tryReserve(v, 0), rest), v.blk.pending),
                         LAMBDA span : [ReleaseOut(v, span, 0) EXCEPT !.blk.pending = {}])
  IN With(With(autoUpdate(w, [i \in Sync |-> New(i)]), applyChangedSettings), Forward)

\* work() after workInternal(): a call that ended the block releases its inputs.
Return(w, status) ==
  [w EXCEPT !.blk.waited = status = "INSUFFICIENT_OUTPUT_ITEMS",
            !.blk.finished = status = "DONE",
            !.blk.st = IF status = "ERROR" THEN "ERROR" ELSE @]

Ended(w, why) == [w EXCEPT !.blk.st = "STOPPED", !.blk.why = why]

\* The branch of workInternal() that ends the block: w after the epilogue, if any.
EndStream(w, lim, stalled, readPositionApplied) ==
  LET stop == shuttingDown(w)
      Tail1(v) == IF ~cfg.epilogue /\ (lim.isEosPresent \/ lim.asyncEoS) /\ ~stop
                  THEN notifyDroppedTail(v) ELSE v
      Tags(v) == IF (lim.isEosPresent \/ stalled) /\ ~stop
                 THEN forwardTagsAtEndOfStream(v, readPositionApplied) ELSE v
      why == IF stop THEN "stop" ELSE IF lim.isEosPresent THEN "eos" ELSE IF lim.asyncEoS THEN "async" ELSE "stall"
  IN With(With(With(Tail1(w), Tags), publishEoS), LAMBDA v : Return(Ended(v, why), "DONE"))

-----------------------------------------------------------------------------
\* The calls.

Idle == [pc |-> "idle"]
World == [in |-> in, out |-> out, blk |-> blk]
Become(next) == \E w \in {next} : in' = w.in /\ out' = w.out /\ blk' = w.blk

\* checkLifecycle(), the settings applied at the head of workInternal() and the
\* first reading of the port caches.
Begin ==
  /\ call = Idle /\ ~blk.finished /\ blk.st # "ERROR"
  /\ LET st == IF blk.st = "REQUESTED_STOP" THEN "STOPPED"
               ELSE IF ~out.connected /\ blk.st = "RUNNING" THEN "REQUESTED_STOP" ELSE blk.st
         w == [World EXCEPT !.blk.st = st]
         a == applyChangedSettings(w)
         flushed == [a EXCEPT !.blk.pending = blk.pending,
                              !.out.tags = IF blk.staged = {} \/ ~out.connected \/ TagRoom(a) < 2 THEN @
                                           ELSE Append(@, ParamTag(out.wr, blk.staged))]
     IN IF st = "STOPPED"
        THEN Become(Return([flushed EXCEPT !.blk.why = IF @ = "" THEN "stop" ELSE @], "DONE")) /\ UNCHANGED call
        ELSE Become(a) /\ call' = [pc |-> "begun", avail |-> available(a)]
  /\ UNCHANGED cfg

\* The end of the stream, at once or after the epilogue, which may wait for room.
EndCall(w, lim, first, stalled) ==
  /\ call' = Idle
  /\ \E v \in {AfterWait(w)} :
       \/ ~cfg.epilogue /\ Become(EndStream(w, lim, stalled, first))
       \/ /\ cfg.epilogue /\ EpilogueTakesRoom(v)
          /\ \E p \in 0 .. Fewest(EpilogueRequest(v), Room(v)) :
             \E e \in {RunEpilogue(v, lim.hasAnyTag, first, p)} :
               Become(EndStream(e, lim, stalled, first /\ Trailing(v) = 0))
       \/ /\ cfg.epilogue /\ ~EpilogueTakesRoom(v)
          /\ Become(Return([v EXCEPT !.blk.held = stalled], "INSUFFICIENT_OUTPUT_ITEMS"))

\* The spans of the call, with the settings and tags of its samples.
Prepare(w, lim, first) ==
  \E a \in {applyInputTagsAndSettings(applyChangedSettings(w),
              IF cfg.policy = "ratio" THEN Fewest(1, lim.in) ELSE lim.in, lim.hasAnyTag, first)} :
  \E placed \in {IF cfg.policy = "ratio" THEN tryReserve(a, lim.out)
                 ELSE forwardInputTags(a, tryReserve(a, lim.out), TagWindow(lim.in), lim.out)} :
    /\ Become(a)
    /\ call' = [pc |-> "processing", in |-> lim.in, out |-> lim.out,
                async |-> [i \in cfg.async |-> Held(a, i)],
                span |-> publishForwardParams(a, placed, a.blk.pending)]

\* workInternal() up to the user's function: skip, stage the first sample's
\* settings, size the call, end the stream or prepare the spans.
Size ==
  /\ call.pc = "begun"
  /\ \E lim0 \in {computeSampleLimits(World, call.avail)} :
     \E skipped \in {IF lim0.skip > 0 THEN skipInputSamples(World, lim0.skip) ELSE World} :
     \E first \in {lim0.hasAnyTag /\ Stages(skipped)} :
     \E staged \in {IF first THEN stageFirstSampleTagSettings(skipped) ELSE skipped} :
     \E resize \in {first /\ (staged.blk.changed \/ staged.blk.staged # {})} :
     \E sized \in {IF resize THEN applyChangedSettings(staged) ELSE staged} :
     \E lim \in {IF resize THEN computeSampleLimits(sized, available(sized)) ELSE lim0} :
     \E counted \in {IF blk.held THEN sized ELSE CountDrainStall(sized, lim.draining)} :
       LET stalled == blk.held \/ isDrainStalled(counted)
           ends == lim.isEosPresent \/ lim.asyncEoS \/ stalled \/ shuttingDown(counted)
       IN \/ ends /\ EndCall(counted, lim, first, stalled)
          \/ /\ ~ends /\ lim.in = 0 /\ lim.out = 0 /\ ~lim.hasAsyncIn
             /\ Become(Return(counted, lim.status)) /\ call' = Idle
          \/ /\ ~ends /\ (lim.in > 0 \/ lim.out > 0 \/ lim.hasAsyncIn)
             /\ Prepare(counted, lim, first)
  /\ UNCHANGED cfg

\* inputSamplesToConsumeAdjustedWithStride().
ConsumeWithStride(w, n) ==
  IF strided /\ w.blk.strideCounter = 0 /\ n > 0
  THEN [take |-> Fewest(cfg.stride, n), counter |-> cfg.stride - Fewest(cfg.stride, n)]
  ELSE [take |-> 0, counter |-> w.blk.strideCounter]

\* What the user's function did: its status, the samples it consumed and
\* published by request (None: the default for its status) and what it took from
\* the asynchronous inputs.
None == -1
Failing == {"INSUFFICIENT_INPUT_ITEMS", "INSUFFICIENT_OUTPUT_ITEMS", "ERROR"}

UserResult ==
  {u \in [status : {"OK", "DONE"} \cup Failing, consume : None .. call.in, publish : None .. call.out,
          async : 0 .. 1] :
     /\ u.publish = None <=> u.consume = None
     /\ u.status \in Failing => u.consume = None
     /\ u.status = "INSUFFICIENT_OUTPUT_ITEMS" => Room(World) < cfg.outRing
     /\ u.async <= Least({call.async[i] : i \in cfg.async} \cup {IF cfg.async = {} THEN 0 ELSE Inf})
     /\ u.publish > 0 => u.consume + u.async > 0
     /\ cfg.policy = "keep" => u.publish = u.consume
     /\ cfg.policy \in {"first", "back"} /\ ~TakesSilently => (u.consume > 0 => u.publish > 0)
     /\ u.consume = None /\ u.status \notin Failing => call.in > 0 \/ u.async > 0}

\* The counts of the call after dispatchProcessing() and sanitiseProcessStatus(),
\* and what the spans consume and publish in the end.
Counts(w, u) ==
  LET stop == shuttingDown(w)
      failed == u.status \in Failing
      nIn  == IF failed THEN 0 ELSE IF u.consume = None THEN call.in ELSE u.consume
      nOut == IF failed THEN 0 ELSE IF u.publish = None THEN call.out ELSE u.publish
      moves == ~stop /\ nIn > 0
      stride == ConsumeWithStride(w, call.in)
  IN [status |-> IF stop /\ u.status # "ERROR" THEN "DONE" ELSE u.status,
      publishes |-> nOut > 0,
      counter |-> IF moves THEN stride.counter ELSE w.blk.strideCounter,
      consumed |-> IF u.consume # None THEN u.consume
                   ELSE IF ~moves THEN 0 ELSE IF stride.take > 0 THEN stride.take ELSE nIn,
      published |-> IF u.publish # None THEN u.publish ELSE nOut]

\* The settings finaliseIO() applies: on a stop, and where the tags of the
\* consumed samples are mapped by the chunk ratio.  What they forward is published
\* by this call.
MapsTags(c) == cfg.policy = "ratio" /\ Sync # {} /\ c.consumed > 0

ApplyAtEnd(w, c) ==
  LET kept == IF c.publishes THEN [w EXCEPT !.blk.pending = {}] ELSE w
  IN IF MapsTags(c)
     THEN With(applyInputTagsInWindow(kept, c.consumed, 1, FALSE),
               LAMBDA v : [v EXCEPT !.blk.staged = {}, !.blk.changed = FALSE])
     ELSE IF shuttingDown(w) THEN [kept EXCEPT !.blk.staged = {}, !.blk.changed = FALSE] ELSE kept

\* The output span of the call: its tags, the consumed samples' tags, parameters,
\* and the end-of-stream tag of a call that returns DONE.
FinalSpan(w, v, c) ==
  LET kept == IF c.publishes THEN call.span ELSE [call.span EXCEPT !.tags = <<>>]
      mapped == IF MapsTags(c)
                THEN publishForwardParams(w, forwardInputTags(v, kept, c.consumed, c.published),
                                          IF shuttingDown(w) THEN {} ELSE w.blk.staged)
                ELSE kept
      params == v.blk.pending \cup (IF shuttingDown(w) THEN w.blk.staged ELSE {})
      ending == publishForwardParams(w, mapped, params)
      eos == OutTag(w.out.wr + c.published, "eos", 0, 0)
  IN IF ~w.out.connected THEN [kept EXCEPT !.tags = <<>>]
     ELSE IF c.status # "DONE" THEN mapped
     ELSE With(ending, LAMBDA span : IF Len(span.tags) < span.cap
                                     THEN [span EXCEPT !.tags = Append(@, eos)] ELSE span)

\* finaliseIO(), the release of the spans and keepHandedPastRead().
Finalise(w, u, c, v, span) ==
  LET Left(i, handed, n) == Most(Most(handed - n, 0), Most(w.blk.handed[i] - n, 0))
      lost == /\ c.status = "DONE" /\ w.out.connected
              /\ span.tags = <<>> \/ Last(span.tags).kind # "eos"
      done == [ReleaseOut(v, span, c.published) EXCEPT
                 !.in = [i \in Ins |-> IF i \in Sync THEN ReleaseSamples(@[i], c.consumed)
                                       ELSE IF i \in cfg.async THEN ReleaseSamples(@[i], u.async) ELSE @[i]],
                 !.blk.strideCounter = c.counter,
                 !.blk.pending = IF c.status = "DONE" THEN {} ELSE @,
                 !.out.eosLost = @ \/ lost,
                 !.blk.handed = [i \in Ins |-> IF i \in Sync THEN Left(i, call.in, c.consumed)
                                               ELSE IF i \in cfg.async THEN Left(i, call.async[i], u.async) ELSE 0]]
  IN Return(IF c.status = "DONE" THEN Ended(done, IF shuttingDown(w) THEN "stop" ELSE "user") ELSE done, c.status)

Finish ==
  /\ call.pc = "processing"
  /\ \E u \in UserResult :
     \E c \in {Counts(World, u)} :
     \E v \in {ApplyAtEnd(World, c)} :
     \E span \in {FinalSpan(World, v, c)} :
       Become(Finalise(World, u, c, v, span))
  /\ call' = Idle
  /\ UNCHANGED cfg

-----------------------------------------------------------------------------
\* The blocks around it.  An upstream span publishes its tags when it is
\* released and its samples right after; the end-of-stream tag follows them.

Announce(i, n, offs, ends) ==
  /\ i \in Sync \cup cfg.async /\ ~in[i].ended /\ in[i].promised = 0 /\ ~blk.finished
  /\ in[i].wr + n <= cfg.maxIn /\ in[i].nTags + Cardinality(offs) <= cfg.maxTags
  /\ n > 0 \/ ends
  /\ offs \subseteq 0 .. (IF ends THEN n ELSE n - 1)
  /\ LET at == [k \in 1 .. Cardinality(offs) |-> CHOOSE o \in offs : Cardinality({p \in offs : p < o}) = k - 1]
         new == [k \in DOMAIN at |-> InTag(in[i].wr + at[k], "tag", in[i].nTags + k)]
         end == IF ends THEN <<InTag(in[i].wr + n, "eos", 0)>> ELSE <<>>
     IN in' = [in EXCEPT ![i].tags = @ \o new \o end, ![i].nTags = @ + Cardinality(offs),
                         ![i].promised = n, ![i].ended = ends]
  /\ UNCHANGED <<cfg, out, blk, call>>

Deliver(i) ==
  /\ in[i].promised > 0
  /\ in' = [in EXCEPT ![i].wr = @ + in[i].promised, ![i].promised = 0]
  /\ UNCHANGED <<cfg, out, blk, call>>

\* Downstream takes n samples and the tags in front of its new position.
Take(n) ==
  /\ out.connected /\ out.rd + n <= out.wr
  /\ out' = [out EXCEPT !.rd = @ + n,
                        !.tagRd = Cardinality({k \in DOMAIN out.tags : out.tags[k].idx < out.rd + n})]
  /\ UNCHANGED <<cfg, in, blk, call>>

DownstreamLeaves ==
  /\ out.connected
  /\ out' = [out EXCEPT !.connected = FALSE]
  /\ UNCHANGED <<cfg, in, blk, call>>

\* requestStop() by another thread.
RequestStop ==
  /\ blk.st = "RUNNING"
  /\ blk' = [blk EXCEPT !.st = "REQUESTED_STOP"]
  /\ UNCHANGED <<cfg, in, out, call>>

\* settings().set() of a setting that is forwarded, by another thread.
StageSetting ==
  /\ blk.nSets < cfg.maxSets /\ ~blk.finished
  /\ blk' = [blk EXCEPT !.nSets = @ + 1, !.staged = @ \cup {blk.nSets + 1}]
  /\ UNCHANGED <<cfg, in, out, call>>

WorkInit ==
  /\ cfg \in Configs
  /\ in = [i \in Ins |-> [wr |-> 0, rd |-> 0, tags |-> <<>>, promised |-> 0, nTags |-> 0, ended |-> FALSE]]
  /\ out = [wr |-> 0, rd |-> 0, tags |-> <<>>, tagRd |-> 0, connected |-> TRUE, dropped |-> 0, eosLost |-> FALSE]
  /\ blk = [st |-> "RUNNING", why |-> "", finished |-> FALSE, strideCounter |-> 0, waited |-> FALSE,
            changed |-> FALSE, staged |-> {}, pending |-> {}, nSets |-> 0,
            applied |-> [id \in Ins \X (1 .. MaxTags) |-> 0],
            stagedSum |-> None, nStaged |-> [i \in Ins |-> 0], handed |-> [i \in Ins |-> 0],
            nStalls |-> 0, mark |-> NoMark, held |-> FALSE, nEpilogueWaits |-> 0, epilogueMark |-> NoMark,
            nEpilogues |-> 0, reported |-> {}]
  /\ call = Idle

WorkNext ==
  \/ Begin \/ Size \/ Finish
  \/ \E i \in Ins : \/ \E n \in 0 .. MaxBurst, offs \in SUBSET (0 .. MaxBurst), ends \in BOOLEAN : Announce(i, n, offs, ends)
                    \/ Deliver(i)
  \/ \E n \in 1 .. cfg.outRing : Take(n)
  \/ DownstreamLeaves \/ RequestStop \/ StageSetting

\* The scheduler keeps calling the block, upstream finishes what it announced
\* and downstream takes what it is given.
WorkFairness ==
  /\ WF_workVars(Begin \/ Size \/ Finish)
  /\ \A i \in Ins : WF_workVars(Deliver(i))
  /\ WF_workVars(\E n \in 1 .. cfg.outRing : Take(n))

WorkSpec == WorkInit /\ [][WorkNext]_workVars /\ WorkFairness

-----------------------------------------------------------------------------
WorkTypeOK ==
  /\ cfg \in BlockConfig
  /\ \A i \in Ins : in[i].rd \in 0 .. in[i].wr /\ in[i].wr \in 0 .. cfg.maxIn
  /\ out.rd \in 0 .. out.wr /\ out.tagRd \in 0 .. Len(out.tags)
  /\ (out.connected => TagRoom(World) >= 0 /\ Room(World) >= 0)
  /\ blk.st \in {"RUNNING", "REQUESTED_STOP", "STOPPED", "ERROR"}
  /\ blk.nStalls \in 0 .. StallLimit /\ blk.strideCounter \in 0 .. cfg.stride

Placed(kind) == {k \in DOMAIN out.tags : out.tags[k].kind = kind}
CleanEnd == blk.finished /\ blk.why = "eos" /\ out.connected /\ out.dropped = 0

\* The output's tag ring is in index order (the readers' binary search needs it),
\* whichever path put the tags there: forwarding, skips, parameters, the end.
OutputTagsInOrder == \A k \in DOMAIN out.tags : k > 1 => out.tags[k - 1].idx <= out.tags[k].idx

\* No input tag leaves twice, although a call that is refused, cut short or
\* deferred leaves its tags on the input.
TagsLeaveOnce ==
  \A j, k \in Placed("tag") : j # k => <<out.tags[j].at, out.tags[j].map>> # <<out.tags[k].at, out.tags[k].map>>

\* No input tag sets settings twice, although the first sample's tags are staged
\* before a call is sized and the call may then be refused and repeated.
TagsApplyOnce == \A id \in DOMAIN blk.applied : blk.applied[id] <= 1

\* All three hold in whatever way a call ended.
TagsOnceAndInOrder == OutputTagsInOrder /\ TagsLeaveOnce /\ TagsApplyOnce

\* At a clean end of stream every tag in front of the first end has left, whether
\* a call forwarded it, a skip, the epilogue or the end itself; one that the last
\* chunk passed over, or behind the first end, is still on the input.
FirstEnd == Least({in[j].wr + in[j].promised : j \in {j \in Sync : in[j].ended}})
PassedOver(i) ==
  {t.map : t \in {t \in ToSet(in[i].tags) : t.idx > FirstEnd \/ (cfg.policy = "first" /\ t.idx < in[i].rd)}}
TagsAllLeave ==
  CleanEnd => \A i \in Sync : \A m \in (1 .. in[i].nTags) \ PassedOver(i) :
                \E k \in Placed("tag") : out.tags[k].map = m

\* ... and every such tag has set its settings.
TagsAllApply ==
  CleanEnd => \A i \in Sync : \A m \in (1 .. in[i].nTags) \ PassedOver(i) : blk.applied[<<i, m>>] = 1

\* The end-of-stream tag is published once, as the last tag, at the position
\* after the last sample; a flood of tags never takes its slot.
EndOfStreamLast ==
  /\ Cardinality(Placed("eos")) <= 1
  /\ \A k \in Placed("eos") : k = Len(out.tags) /\ out.tags[k].idx = out.wr
  /\ ~out.eosLost

\* At a clean end every sample in front of the end was consumed or handed to a
\* call or to the epilogue, or its loss is reported.
TailAccounted ==
  CleanEnd => \A i \in Sync :
    \/ i \in blk.reported
    \/ in[i].rd + blk.handed[i] >= Least({in[j].wr : j \in Sync})
    \/ cfg.epilogue /\ blk.nEpilogues = 1

\* At a clean end no applied parameter of an earlier call waits to be forwarded.
ParamsForwarded ==
  CleanEnd => \A n \in 1 .. blk.nSets :
                n \in blk.staged \/ \E k \in Placed("param") : n \in out.tags[k].sets

\* A clean end of stream leaves no tag, no setting and no parameter behind, and is the
\* last thing the output says.
StreamEndsWhole == TagsAllLeave /\ TagsAllApply /\ ParamsForwarded /\ EndOfStreamLast

\* When every input has ended the block stops, whatever the user's function does
\* with the last samples.
StreamEnds == (\A i \in Sync \cup cfg.async : in[i].ended) ~> (blk.finished \/ blk.st = "ERROR")
=============================================================================
