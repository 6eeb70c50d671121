----------------------------- MODULE SettingsStore -----------------------------
(***************************************************************************)
(* The settings of a block (Settings.cpp): sets of values stored per        *)
(* context and time, the context that is active, the values staged for the  *)
(* next apply, the settings that follow tags, and the apply, which releases *)
(* the lock while the block's settingsChanged() runs.  Every other call      *)
(* holds the lock and is one step; two callers may be inside an apply.       *)
(***************************************************************************)
EXTENDS Integers, Sequences, FiniteSets, SequencesExt

CONSTANTS Keys,         \* the writable settings, each coupled to its own tag key
          Values,
          Fields,       \* values the fields of a new block have
          Forbidden,    \* values a setting's limits refuse
          Contexts,     \* context names besides the default
          Appliers,     \* callers of an apply: the block's work() and resetDefaults()
          MaxTime,      \* bound on the clock
          MaxContexts,  \* kMaxContexts
          MaxPending,   \* kMaxPendingSets
          MaxCalls,     \* bound on the calls of a behaviour
          SameInstant   \* two sets of a context may carry the same time

ASSUME SettingsAssumption ==
  /\ Keys # {} /\ Keys \cap {"reset", "store"} = {}
  /\ Fields \subseteq Values
  /\ "" \notin Contexts /\ "default" \notin Contexts

VARIABLES store,   \* the members of CtxSettingsBase and the block's fields
          applies, \* per applier, what its running apply keeps in local variables
          now,     \* the clock
          calls,   \* calls made so far
          pins     \* history: <<context, time, key>> set() stopped from following

settingsVars == <<store, applies, now, calls, pins>>

Default == "default"
Names == Contexts \cup {Default}
NoCtx == [time |-> 0, context |-> ""]
Ctx(t, c) == [time |-> t, context |-> c]
Controls == {"reset", "store"}      \* gr:reset_default and gr:store_default
NoApply == [pc |-> "idle"]

\* The map m without the keys D, m with the entries of n over its own, a map of one entry.
Without(m, D) == [k \in DOMAIN m \ D |-> m[k]]
Over(n, m) == [k \in DOMAIN n \cup DOMAIN m |-> IF k \in DOMAIN n THEN n[k] ELSE m[k]]
Only(k, v) == [j \in {k} |-> v]
Empty == [k \in {} |-> 0]

-----------------------------------------------------------------------------
\* Searching the stored sets.  A store s holds, per context, a sequence of
\* [time, values] sorted by time.

\* findBestMatchSettingsCtx(): the last set that is valid at time t.
findBestMatch(s, c, t) ==
  LET valid == {k \in DOMAIN s.stored[c] : s.stored[c][k].time <= t}
  IN IF valid = {} THEN NoCtx
     ELSE Ctx(s.stored[c][CHOOSE k \in valid : \A j \in valid : j <= k].time, c)

IsStored(s, ctx) == ctx.context \in Names /\ \E k \in DOMAIN s.stored[ctx.context] : s.stored[ctx.context][k].time = ctx.time

\* getBestMatchStoredParameters(): the first set stored for that context and time.
getStored(s, ctx) ==
  LET vec == s.stored[ctx.context]
  IN vec[CHOOSE k \in DOMAIN vec : vec[k].time = ctx.time /\ \A j \in 1 .. k - 1 : vec[j].time # ctx.time].values

\* getBestMatchAutoUpdateParameters(), or every writable member.
getAutoUpdate(s, c, t) ==
  LET best == findBestMatch(s, c, t) IN IF best \in DOMAIN s.autoUpdate THEN s.autoUpdate[best] ELSE Keys

\* addStoredParameters(): lower_bound puts the new set in front of those of its time.
addStoredParameters(s, vals, ctx) ==
  LET vec == s.stored[ctx.context]
      at == Cardinality({k \in DOMAIN vec : vec[k].time < ctx.time}) + 1
  IN [s EXCEPT !.autoUpdate = Over(@, Only(ctx, getAutoUpdate(s, ctx.context, ctx.time))),
               !.stored[ctx.context] = InsertAt(@, at, [time |-> ctx.time, values |-> vals])]

(* mutant: a set for a later time takes the place of the present one *)
removeUpToNow(s) ==
  LET Kept(vec) == SelectSeq(vec, LAMBDA e : e.time >= now)
  IN [s EXCEPT !.stored = [c \in Names |-> IF Kept(@[c]) = <<>> THEN @[c] ELSE Kept(@[c])]]

(* mutant: forgets who follows in the set it keeps *)
removeAndForget(s) ==
  LET Past(c) == {k \in DOMAIN s.stored[c] : s.stored[c][k].time <= now}
      First(c) == IF Past(c) = {} THEN 1 ELSE CHOOSE k \in Past(c) : \A j \in Past(c) : j <= k
      Cut(c) == {Ctx(s.stored[c][k].time, c) : k \in 1 .. First(c)}
  IN [s EXCEPT !.stored = [c \in Names |-> IF @[c] = <<>> THEN <<>> ELSE SubSeq(@[c], First(c), Len(@[c]))],
               !.autoUpdate = Without(@, UNION {Cut(c) : c \in {d \in Names : s.stored[d] # <<>>}})]

\* removeExpiredStoredParameters(), without an expiry time: one past set is kept.
removeExpiredStoredParameters(s) ==
  LET Lower(vec) == Cardinality({k \in DOMAIN vec : vec[k].time < now}) + 1
      First(vec) == IF Lower(vec) > Len(vec) THEN Len(vec)
                    ELSE IF vec[Lower(vec)].time = now THEN Lower(vec)
                    ELSE IF Lower(vec) > 2 THEN Lower(vec) - 1 ELSE 1
      Cut(c) == {Ctx(s.stored[c][k].time, c) : k \in 1 .. First(s.stored[c]) - 1}
  IN [s EXCEPT !.stored = [c \in Names |-> IF @[c] = <<>> THEN <<>> ELSE SubSeq(@[c], First(@[c]), Len(@[c]))],
               !.autoUpdate = Without(@, UNION {Cut(c) : c \in Names})]

-----------------------------------------------------------------------------
\* Calls under the lock.

setStagedImpl(s, vals) ==
  LET staged == Over(vals, s.staged)
  IN [s EXCEPT !.staged = staged, !.tagged = @ \ DOMAIN vals, !.changed = @ \/ DOMAIN staged # {}]

\* activateContextImpl(), of the set found for the context.
activateSet(s, c, best) ==
  LET known == [s EXCEPT !.autoUpdate = IF best \in DOMAIN @ THEN @ ELSE Over(@, Only(best, Keys))]
      fixed == Without(getStored(s, best), known.autoUpdate[best])
  IN IF best = NoCtx \/ best = s.activeCtx THEN s
     ELSE IF c = s.activeCtx.context
     THEN [setStagedImpl(known, fixed) EXCEPT !.activeCtx = best, !.changed = TRUE]
     ELSE [s EXCEPT !.staged = Over(@, getStored(s, best)),
                    !.before = IF s.activated THEN @ ELSE s.activeCtx,
                    !.activeCtx = best, !.activated = TRUE, !.changed = TRUE]

activateContextImpl(s, c, t) == activateSet(s, c, findBestMatch(s, c, t))

\* The context that is active, and the one a refused apply returns to, when ctx is gone.
leaveContext(gone, ctx) ==
  LET moved == [gone EXCEPT !.before = IF @ = ctx THEN findBestMatch(gone, Default, now) ELSE @]
  IN IF gone.activeCtx.context = ctx.context
     THEN [activateContextImpl(moved, Default, now) EXCEPT !.before = NoCtx]
     ELSE moved

\* removeContextImpl(), of a stored set of a context other than the default.
removeContextImpl(s, ctx) ==
  LET vec == s.stored[ctx.context]
      at == CHOOSE k \in DOMAIN vec : vec[k].time = ctx.time /\ \A j \in 1 .. k - 1 : vec[j].time # ctx.time
  IN leaveContext([s EXCEPT !.stored[ctx.context] = RemoveAt(@, at), !.autoUpdate = Without(@, {ctx})], ctx)

\* refuseStoredSet(): the caps on contexts and on sets for a later time.
refuseStoredSet(s, ctx) ==
  IF s.stored[ctx.context] = <<>>
  THEN Cardinality({c \in Names : s.stored[c] # <<>>}) >= MaxContexts
  ELSE /\ ctx.time > now
       /\ Cardinality({k \in DOMAIN s.stored[ctx.context] : s.stored[ctx.context][k].time > now}) >= MaxPending

\* setImpl() of values the limits allow: it stops their keys from following tags.
setImpl(s, vals, ctx) ==
  LET best == findBestMatch(s, ctx.context, ctx.time)
      base == IF best = NoCtx THEN s.defaults ELSE getStored(s, best)
      following == (IF ctx \in DOMAIN s.autoUpdate THEN s.autoUpdate[ctx] ELSE getAutoUpdate(s, ctx.context, ctx.time)) \ DOMAIN vals
  IN removeExpiredStoredParameters(
       addStoredParameters([s EXCEPT !.autoUpdate = Over(Only(ctx, following), @)], Over(vals, base), ctx))

\* The defaults the limits refuse, of those a reset would stage.
refusedDefaults(s) ==
  {k \in Keys : s.defaults[k] \in Forbidden /\ ~(s.activeCtx.context = Default /\ k \in getAutoUpdate(s, Default, now))}

\* Every setting follows again; what followed before is kept for a refusal.
followAll(s) ==
  [s EXCEPT !.autoBefore = <<s.autoUpdate>>, !.autoUpdate = [c \in DOMAIN @ \cup {Ctx(now, Default)} |-> Keys]]

\* stageDefaultsImpl(), when no default is refused.
stageDefaultsImpl(s) ==
  followAll(activateContextImpl(addStoredParameters(s, s.defaults, Ctx(now, Default)), Default, now))

\* What the activation by a tag staged in s counts as staged by tags.
stagedByTag(s, act) ==
  [act EXCEPT !.tagged = @ \cup {k \in DOMAIN act.staged : k \notin DOMAIN s.staged \/ act.staged[k] # s.staged[k] \/ k \in s.tagged}
                           \cup (IF act.activated /\ ~s.activated THEN {"context"} ELSE {})]

\* The set a tag applies to, with an entry for the settings that follow in it.
followedSet(s, ctx) ==
  [s EXCEPT !.autoUpdate = IF IsStored(s, ctx) /\ ctx \notin DOMAIN @
                           THEN Over(@, Only(ctx, getAutoUpdate(s, ctx.context, ctx.time))) ELSE @]

\* The values of the tag that are staged: those that follow and differ.
stageTag(s, ctx, moved, vals, controls, c) ==
  LET follows == IF IsStored(s, ctx) THEN s.autoUpdate[ctx] ELSE getAutoUpdate(s, ctx.context, now)
      taken == {k \in DOMAIN vals \cap s.coupled \cap follows : moved \/ s.active[k] # vals[k]}
      some == taken # {} \/ controls # {}
  IN [s EXCEPT !.staged = Over([k \in taken \cup controls |-> IF k \in taken THEN vals[k] ELSE 1], @),
               !.tagged = @ \cup taken,
               !.changed = IF c = "" /\ ~some /\ DOMAIN s.staged = {} THEN FALSE ELSE @ \/ moved \/ some]

autoUpdateIn(s, known, best, vals, controls, c) ==
  LET ctx == IF best = NoCtx THEN known.activeCtx ELSE best
  IN stageTag(followedSet(known, ctx), ctx, s.activeCtx # ctx, vals, controls, c)

\* autoUpdate() of a tag with the values vals, the controls and, if any, a context.
autoUpdate(s, vals, controls, c) ==
  IF c = "" THEN autoUpdateIn(s, s, NoCtx, vals, controls, c)
  ELSE LET known == stagedByTag(s, activateContextImpl(s, c, now))
       IN autoUpdateIn(s, known, findBestMatch(known, c, now), vals, controls, c)

\* setTagCouplings() of one setting: coupled anew it follows in every set.
setTagCouplings(s, k, couple) ==
  IF couple
  THEN [s EXCEPT !.coupled = @ \cup {k}, !.autoUpdate = [c \in DOMAIN @ |-> @[c] \cup {k}]]
  ELSE [s EXCEPT !.coupled = @ \ {k}]

-----------------------------------------------------------------------------
\* The apply.

\* What it moves into local variables leaves the store.
TakeStaged(s) == [s EXCEPT !.activated = FALSE, !.before = NoCtx, !.autoBefore = <<>>, !.staged = Empty, !.tagged = {}]

\* Its first half, up to the release of the lock, for a store s of which `held` is
\* left and in whose batch, if it resets, lies over the defaults of `staged`.
ApplyBatch(s, held, staged, resets) ==
  LET values == IF resets THEN Over(s.staged, staged.staged) ELSE s.staged
      took == {k \in DOMAIN values \cap Keys : values[k] \notin Forbidden}
      member == [k \in Keys |-> IF k \in took THEN values[k] ELSE s.member[k]]
  IN [store |-> [held EXCEPT !.member = member, !.active = member],
      local |-> [pc |-> "callback", old |-> s.member, tagged |-> s.tagged,
                 activated |-> s.activated \/ (resets /\ staged.activated),
                 staged |-> [k \in {k \in took : s.member[k] # values[k]} |-> values[k]],
                 before |-> IF s.before # NoCtx THEN s.before ELSE IF resets THEN staged.before ELSE NoCtx,
                 ctx |-> held.activeCtx,
                 autoBefore |-> IF resets THEN staged.autoBefore ELSE s.autoBefore,
                 stores |-> "store" \in DOMAIN s.staged]]

\* ... with the defaults that a reset in the batch, unless refused, restores.
ApplyReset(s, staged) == ApplyBatch(s, removeExpiredStoredParameters(TakeStaged(staged)), staged, TRUE)

BeginApply(s) ==
  IF "reset" \in DOMAIN s.staged /\ refusedDefaults(TakeStaged(s)) = {}
  THEN ApplyReset(s, stageDefaultsImpl(TakeStaged(s)))
  ELSE ApplyBatch(s, TakeStaged(s), s, FALSE)

(* mutant: everything staged meanwhile is taken as applied *)
EndApplyAll(s, a) ==
  [s EXCEPT !.active = s.member, !.defaults = IF a.stores THEN s.member ELSE @, !.changed = FALSE]

\* The end of an apply the block did not refuse.
EndApply(s, a) ==
  [s EXCEPT !.active = s.member,
            !.defaults = IF a.stores THEN s.member ELSE @,
            !.changed = DOMAIN s.staged # {}]

\* restoreRefusedImpl(): the members, and the stored set the batch came from.
restoreRefusedImpl(s, a) ==
  LET back == {k \in DOMAIN a.staged : a.old[k] \notin Forbidden}
      vec == s.stored[a.ctx.context]
      at == {k \in DOMAIN vec : vec[k].time = a.ctx.time /\ \A j \in 1 .. k - 1 : vec[j].time # a.ctx.time}
      Undo(vals) == [k \in Keys |-> IF k \in back /\ vals[k] = a.staged[k] THEN a.old[k] ELSE vals[k]]
      undone == [k \in DOMAIN vec |-> [time |-> vec[k].time, values |-> IF k \in at THEN Undo(vec[k].values) ELSE vec[k].values]]
  IN [s EXCEPT !.member = [k \in Keys |-> IF k \in back THEN a.old[k] ELSE @[k]],
               !.stored[a.ctx.context] = IF a.activated THEN @ ELSE undone]

restoreContextImpl(s, earlier, refused) ==
  LET restored == IF s.stored[earlier.context] # <<>> THEN earlier ELSE findBestMatch(s, Default, now)
  IN [s EXCEPT !.activeCtx = IF @ = refused /\ restored # NoCtx THEN restored ELSE @,
               !.before = IF @ = refused THEN restored ELSE @]

\* What followed tags before a refused reset follows again.
restoreFollowing(s, a) ==
  IF a.autoBefore = <<>> THEN s
  ELSE [s EXCEPT !.autoUpdate = [c \in DOMAIN @ |-> IF c \in DOMAIN a.autoBefore[1] THEN a.autoBefore[1][c] ELSE @[c]]]

\* A refusal of values that tags alone staged is reported, any other leaves by the exception.
taggedOnly(a) == DOMAIN a.staged \cup (IF a.activated THEN {"context"} ELSE {}) \subseteq a.tagged
reportRefused(s, a) ==
  IF taggedOnly(a)
  THEN [s EXCEPT !.active = s.member, !.defaults = IF a.stores THEN s.member ELSE @, !.changed = DOMAIN s.staged # {}]
  ELSE [s EXCEPT !.active = s.member]

restoreContext(s, a) == IF a.before = NoCtx THEN s ELSE restoreContextImpl(s, a.before, a.ctx)

\* The end of an apply the block refused.
RefuseApply(s, a) == reportRefused(restoreFollowing(restoreContext(restoreRefusedImpl(s, a), a), a), a)

-----------------------------------------------------------------------------
\* The calls.

Counted == calls < MaxCalls /\ calls' = calls + 1
\* Times at which a set may be stored.
Free(ctx) == SameInstant \/ ~IsStored(store, ctx)

\* Pins of a set of context c and time t: its own and those it inherits.
PinsOf(ctx) == {p \in pins : p[1] = ctx.context /\ p[2] = ctx.time}

Set(c, t, k, v) ==
  /\ Counted /\ v \notin Forbidden /\ Free(Ctx(t, c)) /\ ~refuseStoredSet(store, Ctx(t, c))
  /\ store' = setImpl(store, Only(k, v), Ctx(t, c))
  /\ pins' = pins \cup {<<c, t, k>>}
                  \cup {<<c, t, p[3]>> : p \in PinsOf(findBestMatch(store, c, t))}
  /\ UNCHANGED <<applies, now>>

\* set() that throws: nothing changes but the call was made.
SetRefused(c, t, v) ==
  /\ Counted
  /\ v \in Forbidden \/ refuseStoredSet(store, Ctx(t, c))
  /\ UNCHANGED <<store, applies, now, pins>>

SetStaged(k, v) ==
  /\ Counted
  /\ store' = setStagedImpl(store, Only(k, v))
  /\ UNCHANGED <<applies, now, pins>>

ActivateContext(c) ==
  /\ Counted
  /\ store' = activateContextImpl(store, c, now)
  /\ UNCHANGED <<applies, now, pins>>

RemoveContext(ctx) ==
  /\ Counted /\ ctx.context # Default /\ IsStored(store, ctx)
  /\ store' = removeContextImpl(store, ctx)
  /\ pins' = pins \ PinsOf(ctx)
  /\ UNCHANGED <<applies, now>>

TagArrives(vals, controls, c) ==
  /\ Counted
  /\ store' = autoUpdate(store, vals, controls, c)
  /\ UNCHANGED <<applies, now, pins>>

Couple(k, on) ==
  /\ Counted
  /\ store' = setTagCouplings(store, k, on)
  /\ pins' = IF on THEN {p \in pins : p[3] # k} ELSE pins
  /\ UNCHANGED <<applies, now>>

\* What follows an apply that did not leave by an exception: resetDefaults() prunes.
AfterApply(s, resets) == IF resets THEN removeExpiredStoredParameters(s) ELSE s

\* An apply runs to its end at once when no value moved and no context did.
Run(a, s, resets) ==
  \E b \in {BeginApply(s)} :
    LET calledBack == b.local.activated \/ DOMAIN b.local.staged # {}
    IN /\ pins' = IF resets \/ b.local.autoBefore # <<>> THEN {} ELSE pins
       /\ \/ ~calledBack /\ store' = AfterApply(EndApply(b.store, b.local), resets) /\ UNCHANGED applies
          \/ /\ calledBack /\ store' = b.store
             /\ applies' = [applies EXCEPT ![a] = Over(b.local, [pins |-> pins, resets |-> resets])]

\* applyStagedParameters(), called by applyChangedSettings() when changed().
Apply(a) ==
  /\ applies[a].pc = "idle" /\ store.changed
  /\ "reset" \in DOMAIN store.staged => Free(Ctx(now, Default))
  /\ Run(a, store, FALSE)
  /\ UNCHANGED <<now, calls>>

\* resetDefaults(): stages the defaults and applies them.
ResetDefaults(a) ==
  /\ Counted /\ applies[a].pc = "idle" /\ Free(Ctx(now, Default))
  /\ \/ refusedDefaults(store) # {} /\ UNCHANGED <<store, applies, pins>>
     \/ /\ refusedDefaults(store) = {}
        /\ \E s \in {stageDefaultsImpl(store)} : Run(a, [s EXCEPT !.staged = Without(@, {"reset"})], TRUE)
  /\ UNCHANGED now

CallbackReturns(a) ==
  /\ applies[a].pc = "callback"
  /\ store' = AfterApply(EndApply(store, applies[a]), applies[a].resets)
  /\ applies' = [applies EXCEPT ![a] = NoApply]
  /\ UNCHANGED <<now, calls, pins>>

CallbackThrows(a) ==
  /\ applies[a].pc = "callback"
  /\ store' = AfterApply(RefuseApply(store, applies[a]), applies[a].resets /\ taggedOnly(applies[a]))
  /\ applies' = [applies EXCEPT ![a] = NoApply]
  /\ pins' = IF applies[a].autoBefore = <<>> THEN pins
             ELSE {p \in pins : Ctx(p[2], p[1]) \notin DOMAIN applies[a].autoBefore[1]}
                    \cup {p \in applies[a].pins : IsStored(store, Ctx(p[2], p[1]))}
  /\ UNCHANGED <<now, calls>>

Tick == now < MaxTime /\ now' = now + 1 /\ UNCHANGED <<store, applies, calls, pins>>

\* The state init() leaves: the defaults and the constructor's map in the default
\* context's first set, activated, every coupled setting following.
AfterInit(d, p) ==
  [member |-> d, active |-> d, defaults |-> d,
   stored |-> [c \in Names |-> IF c = Default THEN <<[time |-> 1, values |-> Over(p, d)]>> ELSE <<>>],
   autoUpdate |-> Only(Ctx(1, Default), Keys), coupled |-> Keys,
   activeCtx |-> Ctx(1, Default), activated |-> FALSE, before |-> NoCtx, autoBefore |-> <<>>,
   staged |-> p, tagged |-> {}, changed |-> TRUE]

\* ... and the state of a block that has moved on to a context whose values were set.
InContext(s, c, vals) ==
  LET held == Over(vals, s.member)
  IN [s EXCEPT !.stored[c] = <<[time |-> 1, values |-> held]>>, !.activeCtx = Ctx(1, c),
               !.autoUpdate = Over(Only(Ctx(1, c), Keys \ DOMAIN vals), @),
               !.member = held, !.active = held, !.changed = FALSE]

SettingsInit ==
  /\ \E d \in [Keys -> Fields], k \in Keys, v \in Values \ Forbidden :
       \/ pins = {} /\ store \in {AfterInit(d, Empty), AfterInit(d, Only(k, v))}
       \/ \E c \in Contexts : pins = {<<c, 1, k>>} /\ store = InContext(AfterInit(d, Empty), c, Only(k, v))
  /\ applies = [a \in Appliers |-> NoApply]
  /\ now = 2 /\ calls = 0

SettingsNext ==
  \/ \E c \in Names, k \in Keys, v \in Values, t \in {now, now + 1} : Set(c, t, k, v) \/ SetRefused(c, t, v)
  \/ \E k \in Keys, v \in Values : SetStaged(k, v)
  \/ \E c \in Names : ActivateContext(c)
  \/ \E c \in Contexts, t \in 1 .. MaxTime : RemoveContext(Ctx(t, c))
  \/ \E k \in Keys, v \in Values, c \in Names \cup {""} : TagArrives(Only(k, v), {}, c)
  \/ \E x \in SUBSET Controls \ {{}} : TagArrives(Empty, x, "")
  \/ \E k \in Keys, on \in BOOLEAN : Couple(k, on)
  \/ \E a \in Appliers : Apply(a) \/ ResetDefaults(a) \/ CallbackReturns(a) \/ CallbackThrows(a)
  \/ Tick

SettingsSpec == SettingsInit /\ [][SettingsNext]_settingsVars

-----------------------------------------------------------------------------
SettingsTypeOK ==
  /\ store.member \in [Keys -> Values] /\ store.defaults \in [Keys -> Values]
  /\ DOMAIN store.staged \subseteq Keys \cup Controls
  /\ \A c \in Names : \A k \in DOMAIN store.stored[c] : k > 1 => store.stored[c][k - 1].time <= store.stored[c][k].time

\* A staged value is never forgotten: work() applies only when changed() says so,
\* whatever was staged, activated or cleared while a callback ran without the lock.
StagedIsNoticed == DOMAIN store.staged # {} \/ store.activated => store.changed

\* get() returns what the block's members hold, also after a refusal that met
\* another apply.
ActiveIsRead == store.active = store.member

\* The active context always has a stored set, whoever removes, refuses or resets.
ActiveContextStored == store.stored[store.activeCtx.context] # <<>>

\* What is read is what the block has, under a context that exists, but for what a
\* later apply will notice.
SettingsCoherent == ActiveIsRead /\ ActiveContextStored /\ StagedIsNoticed

\* A setting that set() stored stops following its tag key in that set, and in the
\* sets derived from it, until a reset or a new coupling; pruning of old sets, refused
\* resets and switches of context do not undo that.
SetStopsFollowing ==
  \A p \in pins : IsStored(store, Ctx(p[2], p[1])) =>
    Ctx(p[2], p[1]) \in DOMAIN store.autoUpdate /\ p[3] \notin store.autoUpdate[Ctx(p[2], p[1])]

\* A step leaves every context that has a set valid now with one, or removes its set.
KeepsPresentSets ==
  \A c \in Names : findBestMatch(store, c, now) # NoCtx
    => findBestMatch(store', c, now) # NoCtx \/ \E t \in 1 .. MaxTime : RemoveContext(Ctx(t, c))
\* A context never loses its present values: while a set of it is valid now, pruning,
\* resets and refusals leave one; only removing the context takes it away.
PresentSetKept == [][KeepsPresentSets]_settingsVars
=============================================================================
