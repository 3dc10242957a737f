------------------------------ MODULE VramManager ------------------------------
(***************************************************************************)
(* The GPU memory arbiter of the inference server,                         *)
(* inference/core/vram_manager.py, with the routes of inference/main.py    *)
(* and inference/routes that drive it.                                     *)
(*                                                                         *)
(* The server is one asyncio event loop: code between two awaits is        *)
(* atomic.  The awaits that matter are the wait for the manager's lock,    *)
(* the load of a model (which holds the lock), the wait for a model's      *)
(* semaphore, the inference call, and the database query in the middle of  *)
(* a registry reload.  Requests therefore interleave at these points.      *)
(***************************************************************************)
EXTENDS LruEviction, Sequences

CONSTANTS
    Canonical,      \* models main.py registers with a built-in size
    CanonicalMb,    \* [Canonical -> Nat \ {0}]: those sizes
    DbSizes,        \* sizes an administrator may store in the model registry
    IdleTimeout,    \* CLASSIFIER_IDLE_TIMEOUT, in ticks
    MaxConcurrency, \* the semaphore bound given to register_loader
    Requests,       \* concurrent HTTP requests
    Cleaner,        \* the background cleanup task
    Insts,          \* names for model objects in memory
    MaxCalls,       \* inference calls one request makes (embed makes two)
    MaxIdle,        \* BOUND: idle times above it are not told apart
    MaxReloads,     \* BOUND: re-registrations of one model
    NoTask, NoWrapper, NoReq

ASSUME ModelAssumption ==
    /\ Canonical \subseteq Models
    /\ CanonicalMb \in [Canonical -> Nat \ {0}]
    /\ DbSizes \subseteq Nat \ {0}
    /\ Budget \in Nat
ASSUME ClockAssumption ==
    /\ IdleTimeout \in Nat
    /\ MaxIdle \in Nat
    /\ IdleTimeout < MaxIdle

VARIABLES
    loaderMb,   \* _loaders: registered size of each model, 0 when unregistered
    gen,        \* _semaphores: how many semaphores the model has been given
    slots,      \* _slots: the loaded models
    lock,       \* who holds _lock across an await
    lockQueue,  \* tasks waiting for _lock, in the order asyncio wakes them
    pc,         \* where each request is
    req,        \* what each request asks for
    need,       \* needed_mb of the load in progress
    wrap,       \* the ConcurrencyLimiterWrapper a request holds
    reload      \* whether a registry reload is waiting for the database

vars == <<loaderMb, gen, slots, lock, lockQueue, pc, req, need, wrap, reload>>

Tasks == Requests \cup {Cleaner}

\* A ModelSlot: the model object, its charge, and the time since last_used.
Slot == [inst: Insts, mb: Nat \ {0}, idle: 0..MaxIdle]

\* A wrapper keeps the model object and the semaphore it was created with.
Wrapper == [inst: Insts, mb: Nat \ {0}, gen: Nat]

Request == [kind: {"ensure", "unload"}, model: Models, calls: 0..MaxCalls]

ASSUME TaskAssumption ==
    /\ IsFiniteSet(Requests)
    /\ Cleaner \notin Requests
    /\ NoTask \notin Requests \cup {Cleaner}
    /\ MaxConcurrency \in Nat \ {0}
    /\ MaxCalls \in Nat
    /\ MaxReloads \in Nat
    /\ NoSlot \notin Slot
    /\ NoWrapper \notin Wrapper
    /\ NoReq \notin Request

TypeOK ==
    /\ loaderMb \in [Models -> Nat]
    /\ gen \in [Models -> Nat]
    /\ slots \in [Models -> Slot \cup {NoSlot}]
    /\ lock \in Requests \cup {NoTask}
    /\ lockQueue \in Seq(Tasks)
    /\ pc \in [Requests -> {"idle", "queued", "loading", "ready", "calling"}]
    /\ req \in [Requests -> Request \cup {NoReq}]
    /\ need \in Nat
    /\ wrap \in [Requests -> Wrapper \cup {NoWrapper}]
    /\ reload \in {"idle", "querying"}

-----------------------------------------------------------------------------
Loaded == LoadedIn(slots)

\* A slot whose last_used lies t ticks back.
UsedAgo(slot, t) == [inst |-> slot.inst, mb |-> slot.mb, idle |-> t]

OneCallLess(q) == [kind |-> q.kind, model |-> q.model, calls |-> q.calls - 1]

\* Objects still in memory: those in a slot and those a wrapper keeps alive.
SlotInsts == {slots[m].inst : m \in Loaded}
Wrapping == {r \in Requests : wrap[r] # NoWrapper}
LiveInsts == SlotInsts \cup {wrap[r].inst : r \in Wrapping}

\* Requests inside the semaphore number g of model m.
Inside(m, g) ==
    {r \in Requests : pc[r] = "calling" /\ req[r].model = m /\ wrap[r].gen = g}

\* (mutant) The wait for the lock does not look whether it is held.
AdmittedAnyway(t) == lockQueue # <<>> /\ Head(lockQueue) = t

\* The lock is free and t is the task asyncio wakes for it.
Admitted(t) == lock = NoTask /\ lockQueue # <<>> /\ Head(lockQueue) = t

AtLock(r, kind) == Admitted(r) /\ req[r].kind = kind

Leave(r) ==
    /\ pc' = [pc EXCEPT ![r] = "idle"]
    /\ req' = [req EXCEPT ![r] = NoReq]
    /\ wrap' = [wrap EXCEPT ![r] = NoWrapper]
-----------------------------------------------------------------------------
\* Requests start only after the lifespan hook registered the loaders.
Init ==
    /\ loaderMb = [m \in Models |-> IF m \in Canonical THEN CanonicalMb[m] ELSE 0]
    /\ gen = [m \in Models |-> 0]
    /\ slots = [m \in Models |-> NoSlot]
    /\ lock = NoTask
    /\ lockQueue = <<>>
    /\ pc = [r \in Requests |-> "idle"]
    /\ req = [r \in Requests |-> NoReq]
    /\ need = 0
    /\ wrap = [r \in Requests |-> NoWrapper]
    /\ reload = "idle"

\* A route reaches "async with self._lock" of ensure_loaded or unload.
Arrive(r) ==
    /\ pc[r] = "idle"
    /\ \E q \in Request :
        /\ q.kind = "unload" => q.calls = 0
        /\ req' = [req EXCEPT ![r] = q]
    /\ pc' = [pc EXCEPT ![r] = "queued"]
    /\ lockQueue' = Append(lockQueue, r)
    /\ UNCHANGED <<loaderMb, gen, slots, lock, need, wrap, reload>>

\* ensure_loaded finds the model: touch it, wrap it, release the lock.
EnsureHit(r) ==
    LET m == req[r].model IN
    /\ AtLock(r, "ensure")
    /\ slots[m] # NoSlot
    /\ slots' = [slots EXCEPT ![m] = UsedAgo(slots[m], 0)]
    /\ wrap' = [wrap EXCEPT ![r] =
                 [inst |-> slots[m].inst, mb |-> slots[m].mb, gen |-> gen[m]]]
    /\ pc' = [pc EXCEPT ![r] = "ready"]
    /\ lockQueue' = Tail(lockQueue)
    /\ UNCHANGED <<loaderMb, gen, lock, req, need, reload>>

\* ensure_loaded raises ValueError: no loader for the model.
EnsureUnknown(r) ==
    /\ AtLock(r, "ensure")
    /\ slots[req[r].model] = NoSlot
    /\ loaderMb[req[r].model] = 0
    /\ Leave(r)
    /\ lockQueue' = Tail(lockQueue)
    /\ UNCHANGED <<loaderMb, gen, slots, lock, need, reload>>

\* ensure_loaded misses: evict, then await the download check and the loader
\* with the lock held.
EnsureMiss(r) ==
    LET mb == loaderMb[req[r].model] IN
    /\ AtLock(r, "ensure")
    /\ slots[req[r].model] = NoSlot
    /\ mb # 0
    /\ \E victims \in SUBSET Loaded :
        /\ EvictsToFit(slots, victims, mb)
        /\ slots' = Without(slots, victims)
    /\ need' = mb
    /\ lock' = r
    /\ lockQueue' = Tail(lockQueue)
    /\ pc' = [pc EXCEPT ![r] = "loading"]
    /\ UNCHANGED <<loaderMb, gen, req, wrap, reload>>

\* (mutant) The size is read again after the load.
ChargeAfterLoad(r) == loaderMb[req[r].model]

\* The size a new slot is charged: needed_mb, read before the load.
Charge(r) == need

\* The loader returns: the slot is created and the lock released.
LoadSucceeds(r) ==
    LET m == req[r].model
        i == CHOOSE j \in Insts : j \notin LiveInsts IN
    /\ pc[r] = "loading"
    /\ Insts \ LiveInsts # {}
    /\ slots' = [slots EXCEPT ![m] = [inst |-> i, mb |-> Charge(r), idle |-> 0]]
    /\ wrap' = [wrap EXCEPT ![r] = [inst |-> i, mb |-> Charge(r), gen |-> gen[m]]]
    /\ need' = 0
    /\ lock' = NoTask
    /\ pc' = [pc EXCEPT ![r] = "ready"]
    /\ UNCHANGED <<loaderMb, gen, lockQueue, req, reload>>

\* (mutant) The lock is not released on the way out of a failed load.
LoadFailsLocked(r) ==
    /\ pc[r] = "loading"
    /\ Leave(r)
    /\ need' = 0
    /\ UNCHANGED <<loaderMb, gen, slots, lock, lockQueue, reload>>

\* The loader raises: nothing is loaded, and what was evicted stays evicted.
LoadFails(r) ==
    /\ pc[r] = "loading"
    /\ Leave(r)
    /\ need' = 0
    /\ lock' = NoTask
    /\ UNCHANGED <<loaderMb, gen, slots, lockQueue, reload>>

\* POST /models/{id}/unload.
Unload(r) ==
    /\ AtLock(r, "unload")
    /\ slots' = Without(slots, {req[r].model})
    /\ Leave(r)
    /\ lockQueue' = Tail(lockQueue)
    /\ UNCHANGED <<loaderMb, gen, lock, need, reload>>

\* The semaphore the wrapper was created with lets one more call in.
SemaphoreFree(r) == Cardinality(Inside(req[r].model, wrap[r].gen)) < MaxConcurrency

\* (mutant) A request may call once more than it has calls left.
CallStartsUnasked(r) ==
    /\ pc[r] = "ready"
    /\ SemaphoreFree(r)
    /\ pc' = [pc EXCEPT ![r] = "calling"]
    /\ req' = [req EXCEPT ![r] = OneCallLess(req[r])]
    /\ UNCHANGED <<loaderMb, gen, slots, lock, lockQueue, need, wrap, reload>>

\* wrapped() enters the semaphore.
CallStarts(r) ==
    /\ pc[r] = "ready"
    /\ req[r].calls > 0
    /\ SemaphoreFree(r)
    /\ pc' = [pc EXCEPT ![r] = "calling"]
    /\ req' = [req EXCEPT ![r] = OneCallLess(req[r])]
    /\ UNCHANGED <<loaderMb, gen, slots, lock, lockQueue, need, wrap, reload>>

CallReturns(r) ==
    /\ pc[r] = "calling"
    /\ pc' = [pc EXCEPT ![r] = "ready"]
    /\ UNCHANGED <<loaderMb, gen, slots, lock, lockQueue, req, need, wrap, reload>>

\* The inference call raises and the route with it.
CallRaises(r) ==
    /\ pc[r] = "calling"
    /\ Leave(r)
    /\ UNCHANGED <<loaderMb, gen, slots, lock, lockQueue, need, reload>>

\* The route returns and drops the wrapper.
Respond(r) ==
    /\ pc[r] = "ready"
    /\ req[r].calls = 0
    /\ Leave(r)
    /\ UNCHANGED <<loaderMb, gen, slots, lock, lockQueue, need, reload>>

\* embed cannot decode an image, before its last call: 400.
BadImage(r) ==
    /\ pc[r] = "ready"
    /\ req[r].calls = 1
    /\ Leave(r)
    /\ UNCHANGED <<loaderMb, gen, slots, lock, lockQueue, need, reload>>

-----------------------------------------------------------------------------
\* The cleanup loop wakes from its sleep and asks for the lock.
CleanerWakes ==
    /\ \A i \in 1..Len(lockQueue) : lockQueue[i] # Cleaner
    /\ lockQueue' = Append(lockQueue, Cleaner)
    /\ UNCHANGED <<loaderMb, gen, slots, lock, pc, req, need, wrap, reload>>

\* (mutant) The comparison with the timeout is the wrong way round.
IdleTooShort == {m \in Loaded : slots[m].idle < IdleTimeout}

IdleTooLong == {m \in Loaded : slots[m].idle > IdleTimeout}

CleanupIdle ==
    /\ Admitted(Cleaner)
    /\ slots' = Without(slots, IdleTooLong)
    /\ lockQueue' = Tail(lockQueue)
    /\ UNCHANGED <<loaderMb, gen, lock, pc, req, need, wrap, reload>>

\* register_loader: a new size and a new semaphore for each model of mbs.
Register(mbs) ==
    /\ \A m \in DOMAIN mbs : gen[m] < MaxReloads
    /\ loaderMb' = [m \in Models |-> IF m \in DOMAIN mbs THEN mbs[m] ELSE loaderMb[m]]
    /\ gen' = [m \in Models |-> IF m \in DOMAIN mbs THEN gen[m] + 1 ELSE gen[m]]

\* POST /reload registers the built-in sizes, then queries the registry.
ReloadCanonical ==
    /\ reload = "idle"
    /\ Register(CanonicalMb)
    /\ reload' = "querying"
    /\ UNCHANGED <<slots, lock, lockQueue, pc, req, need, wrap>>

\* The rows of the registry override the built-in sizes.
ReloadRows ==
    /\ reload = "querying"
    /\ \E ms \in SUBSET Models : \E mbs \in [ms -> DbSizes] : Register(mbs)
    /\ reload' = "idle"
    /\ UNCHANGED <<slots, lock, lockQueue, pc, req, need, wrap>>

\* The query fails: the built-in sizes are registered once more.
ReloadFallback ==
    /\ reload = "querying"
    /\ Register(CanonicalMb)
    /\ reload' = "idle"
    /\ UNCHANGED <<slots, lock, lockQueue, pc, req, need, wrap>>

\* Time passes for the loaded models.
Tick ==
    /\ \E m \in Loaded : slots[m].idle < MaxIdle
    /\ slots' = [m \in Models |->
                  IF m \in Loaded /\ slots[m].idle < MaxIdle
                  THEN UsedAgo(slots[m], slots[m].idle + 1) ELSE slots[m]]
    /\ UNCHANGED <<loaderMb, gen, lock, lockQueue, pc, req, need, wrap, reload>>

RequestStep(r) ==
    \/ Arrive(r)
    \/ EnsureHit(r) \/ EnsureUnknown(r) \/ EnsureMiss(r)
    \/ LoadSucceeds(r) \/ LoadFails(r) \/ Unload(r)
    \/ CallStarts(r) \/ CallReturns(r) \/ CallRaises(r)
    \/ Respond(r) \/ BadImage(r)

Next ==
    \/ \E r \in Requests : RequestStep(r)
    \/ CleanerWakes \/ CleanupIdle
    \/ ReloadCanonical \/ ReloadRows \/ ReloadFallback
    \/ Tick

Spec == Init /\ [][Next]_vars

\* The event loop runs every task that can run.  A loader and an inference
\* call end, one way or the other; the lock wakes its waiters in order (the
\* queue above) and so does a semaphore, which the strong fairness of
\* CallStarts stands for.  Requests need not arrive and registries need not
\* be reloaded.
Fairness ==
    /\ WF_vars(Tick)
    /\ WF_vars(CleanerWakes)
    /\ WF_vars(CleanupIdle)
    /\ \A r \in Requests :
        /\ WF_vars(EnsureHit(r) \/ EnsureUnknown(r) \/ EnsureMiss(r) \/ Unload(r))
        /\ WF_vars(LoadSucceeds(r) \/ LoadFails(r))
        /\ SF_vars(CallStarts(r))
        /\ WF_vars(CallReturns(r) \/ CallRaises(r))
        /\ WF_vars(Respond(r))

FairSpec == Spec /\ Fairness

-----------------------------------------------------------------------------
(* Properties *)

\* A model is loaded by one request at a time, with the lock held, and never
\* while it already has a slot: two concurrent requests for a cold model
\* (async with self._lock in ensure_loaded) do not load it twice.
LoadExclusive ==
    \A r \in Requests :
        /\ pc[r] = "loading" <=> lock = r
        /\ pc[r] = "loading" => slots[req[r].model] = NoSlot

\* The room _evict_to_fit made is still there when the loader returns,
\* however long the load takes and whatever is touched, unloaded, cleaned up
\* or re-registered meanwhile.
RoomReserved ==
    \A r \in Requests : pc[r] = "loading" => Fits(slots, need) \/ Loaded = {}

\* The memory charged to the loaded models stays within the budget, except
\* when one model larger than the whole budget is loaded alone.
BudgetRespected ==
    UsedMb(slots) <= Budget \/ \E m \in Models : Loaded = {m}

\* The charges follow the promise of VramBudget: what eviction, unload and
\* cleanup release and what a finished load adds.
B == INSTANCE VramBudget WITH resident <- SlotMb(slots)
ImplementsBudget == B!Spec

\* Every request that arrives is answered, whatever fails and whoever else
\* holds the lock or the semaphore.
RequestsAnswered == \A r \in Requests : pc[r] # "idle" ~> pc[r] = "idle"

\* A model that stays loaded is used again and again: once requests stop
\* touching it, the cleanup loop unloads it.
IdleModelsUnloaded ==
    \A m \in Models : <>[](m \in Loaded) => []<>(m \in Loaded /\ slots[m].idle = 0)

-----------------------------------------------------------------------------
(* What the source says and the code does not do *)

\* vram_manager.py:60, "Coordinates model loading/unloading to stay within GPU
\* memory limits": an evicted or unloaded model stays in memory while a call
\* runs on it, and the model that replaced it is loaded beside it.
InUse == {r \in Requests : pc[r] = "calling"}
ObjectMb(i) ==
    CHOOSE mb \in {slots[m].mb : m \in {n \in Loaded : slots[n].inst = i}}
                 \cup {wrap[r].mb : r \in {q \in InUse : wrap[q].inst = i}} : TRUE
Objects == SlotInsts \cup {wrap[r].inst : r \in InUse}
MemoryWithinLimit ==
    \/ SumFunctionOnSet([i \in Objects |-> ObjectMb(i)], Objects) <= Budget
    \/ \E i \in Insts : Objects = {i}

\* vram_manager.py:90, "max_concurrency: Max concurrent requests allowed for
\* this model": a reload installs a new semaphore beside the one in use.
ModelCallLimit ==
    \A m \in Models :
        Cardinality({r \in Requests : pc[r] = "calling" /\ req[r].model = m}) <= MaxConcurrency
=============================================================================
