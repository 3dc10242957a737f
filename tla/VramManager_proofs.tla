-------------------------- MODULE VramManager_proofs --------------------------
(***************************************************************************)
(* Proofs about VramManager for every set of models and requests, every    *)
(* budget and every bound.                                                 *)
(*                                                                         *)
(* That used_mb is a sum matters only to the budget; what the proof needs   *)
(* of sums is in LruEviction_proofs.                                       *)
(***************************************************************************)
EXTENDS VramManager, LruEviction_proofs

\* Where a request is determines what it holds.
HoldsInv ==
    \A r \in Requests :
        /\ pc[r] = "idle" => req[r] = NoReq /\ wrap[r] = NoWrapper
        /\ pc[r] # "idle" => req[r] \in Request
        /\ pc[r] \in {"queued", "loading"} => wrap[r] = NoWrapper
        /\ pc[r] \in {"ready", "calling"} => wrap[r] \in Wrapper

\* A task waits for the lock at most once, and a queued request is nowhere else.
QueueInv ==
    /\ \A i, j \in 1..Len(lockQueue) : lockQueue[i] = lockQueue[j] => i = j
    /\ \A i \in 1..Len(lockQueue) :
        lockQueue[i] \in Requests => pc[lockQueue[i]] = "queued"

\* A size is known while a load is in progress.
NeedInv == lock # NoTask => need # 0

IInv == TypeOK /\ HoldsInv /\ QueueInv /\ NeedInv /\ LoadExclusive

-----------------------------------------------------------------------------
\* Taking the head off the queue keeps what is left of it.
LEMMA TailOfQueue ==
    ASSUME NEW S, NEW q \in Seq(S), q # <<>>
    PROVE  /\ Tail(q) \in Seq(S)
           /\ Head(q) \in S
           /\ Head(q) = q[1]
           /\ Len(q) \in Nat \ {0}
           /\ Len(Tail(q)) = Len(q) - 1
           /\ \A i \in 1..Len(Tail(q)) : i + 1 \in 1..Len(q) /\ Tail(q)[i] = q[i + 1]
  OBVIOUS

LEMMA InitIInv == Init => IInv
<1> SUFFICES ASSUME Init PROVE IInv
  OBVIOUS
<1> USE DEF Init
<1>1. TypeOK
  BY ModelAssumption, TaskAssumption DEF TypeOK, Tasks
<1>2. HoldsInv
  BY DEF HoldsInv
<1>3. QueueInv /\ NeedInv
  BY DEF QueueInv, NeedInv
<1>4. LoadExclusive
  BY TaskAssumption DEF LoadExclusive
<1>5. QED
  BY <1>1, <1>2, <1>3, <1>4 DEF IInv

LEMMA WithoutType ==
    ASSUME NEW sl \in [Models -> Slot \cup {NoSlot}], NEW gone
    PROVE  Without(sl, gone) \in [Models -> Slot \cup {NoSlot}]
  BY DEF Without

\* The request admitted to the lock was queued, and knows what it wants.
LEMMA AdmittedRequest ==
    ASSUME IInv, NEW r \in Requests, Admitted(r)
    PROVE  /\ lockQueue # <<>> /\ lockQueue \in Seq(Tasks) /\ lock = NoTask
           /\ pc[r] = "queued" /\ req[r] \in Request /\ req[r].model \in Models
<1>1. lockQueue # <<>> /\ lockQueue \in Seq(Tasks) /\ Head(lockQueue) = r
  BY DEF Admitted, IInv, TypeOK
<1>2. 1 \in 1..Len(lockQueue) /\ lockQueue[1] = r
  BY <1>1, TailOfQueue
<1>3. pc[r] = "queued"
  BY <1>2 DEF IInv, QueueInv
<1>4. req[r] \in Request
  BY <1>3 DEF IInv, HoldsInv
<1>5. QED
  BY <1>1, <1>3, <1>4 DEF Admitted, Request

\* Every step keeps the types.
LEMMA TypeStep == IInv /\ [Next]_vars => TypeOK'
<1> SUFFICES ASSUME IInv, [Next]_vars PROVE TypeOK'
  OBVIOUS
<1> USE ModelAssumption, TaskAssumption, ClockAssumption DEF IInv, TypeOK, Tasks
<1>1. ASSUME NEW r \in Requests, Arrive(r) PROVE TypeOK'
  BY <1>1 DEF Arrive
<1>2. ASSUME NEW r \in Requests, EnsureHit(r) PROVE TypeOK'
  <2>1. req[r] \in Request /\ lockQueue # <<>>
    BY <1>2, AdmittedRequest DEF EnsureHit, AtLock
  <2>2. slots[req[r].model] \in Slot /\ req[r].model \in Models
    BY <1>2, <2>1 DEF EnsureHit, Request
  <2>3. slots' \in [Models -> Slot \cup {NoSlot}]
    <3>1. UsedAgo(slots[req[r].model], 0) \in Slot
      BY <2>2 DEF UsedAgo, Slot
    <3>2. QED
      BY <1>2, <2>2, <3>1 DEF EnsureHit
  <2>4. [inst |-> slots[req[r].model].inst, mb |-> slots[req[r].model].mb,
         gen |-> gen[req[r].model]] \in Wrapper
    BY <2>2 DEF Slot, Wrapper
  <2>5. QED
    BY <1>2, <2>1, <2>3, <2>4, TailOfQueue DEF EnsureHit
<1>3. ASSUME NEW r \in Requests, EnsureUnknown(r) PROVE TypeOK'
  BY <1>3, TailOfQueue DEF EnsureUnknown, AtLock, Admitted, Leave
<1>4. ASSUME NEW r \in Requests, EnsureMiss(r) PROVE TypeOK'
  <2>1. slots' \in [Models -> Slot \cup {NoSlot}]
    <3> PICK victims \in SUBSET Loaded : slots' = Without(slots, victims)
      BY <1>4 DEF EnsureMiss
    <3> QED
      BY WithoutType
  <2>2. req[r].model \in Models
    BY <1>4, AdmittedRequest DEF EnsureMiss, AtLock
  <2>3. QED
    BY <1>4, <2>1, <2>2, TailOfQueue DEF EnsureMiss, AtLock, Admitted
<1>5. ASSUME NEW r \in Requests, LoadSucceeds(r) PROVE TypeOK'
  <2> DEFINE i == CHOOSE j \in Insts : j \notin LiveInsts
  <2>1. i \in Insts
    BY <1>5 DEF LoadSucceeds, Charge
  <2>2. req[r] \in Request /\ req[r].model \in Models /\ need \in Nat \ {0}
    BY <1>5 DEF LoadSucceeds, Charge, HoldsInv, Request, NeedInv, LoadExclusive
  <2>3. [inst |-> i, mb |-> need, idle |-> 0] \in Slot
    BY <2>1, <2>2 DEF Slot
  <2>4. [inst |-> i, mb |-> need, gen |-> gen[req[r].model]] \in Wrapper
    BY <2>1, <2>2 DEF Wrapper
  <2> HIDE DEF i
  <2>5. /\ slots' \in [Models -> Slot \cup {NoSlot}]
        /\ wrap' \in [Requests -> Wrapper \cup {NoWrapper}]
    BY <1>5, <2>2, <2>3, <2>4 DEF LoadSucceeds, Charge, i
  <2>6. QED
    BY <1>5, <2>5 DEF LoadSucceeds, Charge
<1>6. ASSUME NEW r \in Requests, LoadFails(r) PROVE TypeOK'
  BY <1>6 DEF LoadFails, Leave
<1>7. ASSUME NEW r \in Requests, Unload(r) PROVE TypeOK'
  BY <1>7, TailOfQueue, WithoutType DEF Unload, AtLock, Admitted, Leave
<1>8. ASSUME NEW r \in Requests, CallStarts(r) PROVE TypeOK'
  <2>1. req[r] \in Request
    BY <1>8 DEF CallStarts, SemaphoreFree, HoldsInv
  <2>2. req' \in [Requests -> Request \cup {NoReq}]
    <3>1. OneCallLess(req[r]) \in Request
      BY <1>8, <2>1 DEF CallStarts, SemaphoreFree, OneCallLess, Request
    <3>2. QED
      BY <1>8, <3>1 DEF CallStarts, SemaphoreFree
  <2>3. QED
    BY <1>8, <2>2 DEF CallStarts, SemaphoreFree
<1>9. ASSUME NEW r \in Requests, CallReturns(r) PROVE TypeOK'
  BY <1>9 DEF CallReturns
<1>10. ASSUME NEW r \in Requests, CallRaises(r) PROVE TypeOK'
  BY <1>10 DEF CallRaises, Leave
<1>11. ASSUME NEW r \in Requests, Respond(r) \/ BadImage(r) PROVE TypeOK'
  BY <1>11 DEF Respond, BadImage, Leave
<1>12. CASE CleanerWakes
  BY <1>12 DEF CleanerWakes
<1>13. CASE CleanupIdle
  BY <1>13, TailOfQueue, WithoutType DEF CleanupIdle, IdleTooLong, Admitted
<1>14. CASE ReloadCanonical
  BY <1>14 DEF ReloadCanonical, Register
<1>15. CASE ReloadRows
  <2> PICK ms \in SUBSET Models : \E mbs \in [ms -> DbSizes] : Register(mbs)
    BY <1>15 DEF ReloadRows
  <2> PICK mbs \in [ms -> DbSizes] : Register(mbs)
    OBVIOUS
  <2>1. loaderMb' \in [Models -> Nat] /\ gen' \in [Models -> Nat]
    <3>1. \A m \in ms : mbs[m] \in Nat
      OBVIOUS
    <3>2. DOMAIN mbs = ms
      OBVIOUS
    <3>3. QED
      BY <3>1, <3>2 DEF Register
  <2> QED
    BY <1>15, <2>1 DEF ReloadRows
<1>16. CASE ReloadFallback
  BY <1>16 DEF ReloadFallback, Register
<1>17. CASE Tick
  <2>1. \A m \in Loaded : slots[m].idle < MaxIdle => UsedAgo(slots[m], slots[m].idle + 1) \in Slot
    BY DEF Loaded, LoadedIn, Slot, UsedAgo
  <2>2. QED
    BY <1>17, <2>1 DEF Tick
<1>18. CASE UNCHANGED vars
  BY <1>18 DEF vars
<1>19. QED
  BY <1>1, <1>2, <1>3, <1>4, <1>5, <1>6, <1>7, <1>8, <1>9, <1>10, <1>11, <1>12,
     <1>13, <1>14, <1>15, <1>16, <1>17, <1>18 DEF Next, RequestStep

\* Every step keeps track of what requests hold.
LEMMA HoldsStep == IInv /\ [Next]_vars => HoldsInv'
<1> SUFFICES ASSUME IInv, [Next]_vars PROVE HoldsInv'
  OBVIOUS
<1>0. TypeOK'
  BY TypeStep
<1> USE <1>0 DEF IInv, TypeOK, HoldsInv
<1>1. ASSUME NEW r \in Requests, Arrive(r) PROVE HoldsInv'
  BY <1>1 DEF Arrive
<1>2. ASSUME NEW r \in Requests, EnsureHit(r) PROVE HoldsInv'
  <2>1. wrap'[r] \in Wrapper
    <3>1. wrap'[r] # NoWrapper
      <4>1. slots[req[r].model] \in Slot /\ req[r].model \in Models
        BY <1>2, AdmittedRequest DEF EnsureHit, AtLock
      <4>2. [inst |-> slots[req[r].model].inst, mb |-> slots[req[r].model].mb,
             gen |-> gen[req[r].model]] \in Wrapper
        BY <4>1 DEF Slot, Wrapper
      <4>3. QED
        BY <1>2, <4>2, TaskAssumption DEF EnsureHit
    <3>2. QED
      BY <3>1
  <2>2. QED
    BY <1>2, <2>1, AdmittedRequest DEF EnsureHit, AtLock
<1>3. ASSUME NEW r \in Requests, EnsureUnknown(r) PROVE HoldsInv'
  BY <1>3 DEF EnsureUnknown, Leave
<1>4. ASSUME NEW r \in Requests, EnsureMiss(r) PROVE HoldsInv'
  BY <1>4, AdmittedRequest DEF EnsureMiss, AtLock
<1>5. ASSUME NEW r \in Requests, LoadSucceeds(r) PROVE HoldsInv'
  <2> DEFINE i == CHOOSE j \in Insts : j \notin LiveInsts
  <2> DEFINE w == [inst |-> i, mb |-> need, gen |-> gen[req[r].model]]
  <2>1. i \in Insts /\ need # 0 /\ req[r].model \in Models
    <3>1. i \in Insts
      BY <1>5 DEF LoadSucceeds, Charge
    <3>2. lock = r /\ req[r] \in Request
      BY <1>5 DEF LoadSucceeds, Charge, LoadExclusive
    <3>3. QED
      BY <3>1, <3>2, TaskAssumption DEF NeedInv, Request
  <2>2. w \in Wrapper
    BY <2>1 DEF Wrapper
  <2> HIDE DEF i
  <2>3. wrap' = [wrap EXCEPT ![r] = w]
    BY <1>5 DEF LoadSucceeds, Charge, i
  <2> HIDE DEF w
  <2>4. QED
    BY <1>5, <2>2, <2>3 DEF LoadSucceeds, Charge
<1>6. ASSUME NEW r \in Requests, LoadFails(r) PROVE HoldsInv'
  BY <1>6 DEF LoadFails, Leave
<1>7. ASSUME NEW r \in Requests, Unload(r) PROVE HoldsInv'
  BY <1>7 DEF Unload, Leave
<1>8. ASSUME NEW r \in Requests, CallStarts(r) PROVE HoldsInv'
  <2>1. req[r] \in Request /\ OneCallLess(req[r]) \in Request
    BY <1>8, TaskAssumption DEF CallStarts, SemaphoreFree, OneCallLess, Request
  <2>2. QED
    BY <1>8, <2>1 DEF CallStarts, SemaphoreFree
<1>9. ASSUME NEW r \in Requests, CallReturns(r) PROVE HoldsInv'
  BY <1>9 DEF CallReturns
<1>10. ASSUME NEW r \in Requests, CallRaises(r) PROVE HoldsInv'
  BY <1>10 DEF CallRaises, Leave
<1>11. ASSUME NEW r \in Requests, Respond(r) \/ BadImage(r) PROVE HoldsInv'
  BY <1>11 DEF Respond, BadImage, Leave
<1>12. CASE UNCHANGED <<pc, req, wrap>>
  BY <1>12
<1>13. QED
  BY <1>1, <1>2, <1>3, <1>4, <1>5, <1>6, <1>7, <1>8, <1>9, <1>10, <1>11, <1>12
  DEF Next, RequestStep, vars, CleanerWakes, CleanupIdle, IdleTooLong, ReloadCanonical,
      ReloadRows, ReloadFallback, Tick

\* Joining the end of the queue.
LEMMA EndOfQueue ==
    ASSUME NEW S, NEW q \in Seq(S), NEW x \in S
    PROVE  /\ Append(q, x) \in Seq(S)
           /\ Len(q) \in Nat
           /\ Len(Append(q, x)) = Len(q) + 1
           /\ Append(q, x)[Len(q) + 1] = x
           /\ \A k \in 1..Len(q) : Append(q, x)[k] = q[k]
  OBVIOUS

\* Every step keeps the lock queue free of duplicates and of running requests.
LEMMA QueueStep == IInv /\ [Next]_vars => QueueInv'
<1> SUFFICES ASSUME IInv, [Next]_vars PROVE QueueInv'
  OBVIOUS
<1> USE DEF IInv, TypeOK, QueueInv
<1>1. ASSUME NEW r \in Requests, Arrive(r) PROVE QueueInv'
  <2>1. \A k \in 1..Len(lockQueue) : lockQueue[k] # r
    BY <1>1 DEF Arrive
  <2>2. lockQueue' = Append(lockQueue, r) /\ r \in Tasks
    BY <1>1 DEF Arrive, Tasks
  <2>3. /\ Len(lockQueue) \in Nat
        /\ \A k \in 1..Len(lockQueue') :
            \/ k \in 1..Len(lockQueue) /\ lockQueue'[k] = lockQueue[k]
            \/ k = Len(lockQueue) + 1 /\ lockQueue'[k] = r
    BY <2>2, EndOfQueue
  <2>4. pc' = [pc EXCEPT ![r] = "queued"]
    BY <1>1 DEF Arrive
  <2>5. \A i, j \in 1..Len(lockQueue') : lockQueue'[i] = lockQueue'[j] => i = j
    BY <2>1, <2>3
  <2>6. \A i \in 1..Len(lockQueue') :
            lockQueue'[i] \in Requests => pc'[lockQueue'[i]] = "queued"
    BY <2>3, <2>4
  <2>7. QED
    BY <2>5, <2>6
<1>2. ASSUME NEW r \in Requests, Admitted(r), lockQueue' = Tail(lockQueue),
             \A q \in Requests \ {r} : pc'[q] = pc[q]
      PROVE  QueueInv'
  <2>1. lockQueue # <<>> /\ lockQueue \in Seq(Tasks) /\ Head(lockQueue) = r
    BY <1>2 DEF Admitted
  <2>2. /\ 1 \in 1..Len(lockQueue) /\ lockQueue[1] = r
        /\ \A i \in 1..Len(lockQueue') :
            i + 1 \in 1..Len(lockQueue) /\ lockQueue'[i] = lockQueue[i + 1]
    BY <1>2, <2>1, TailOfQueue
  <2>3. \A i \in 1..Len(lockQueue') : lockQueue'[i] # r
    BY <2>2
  <2>4. QED
    BY <1>2, <2>2, <2>3
<1>3. CASE CleanupIdle
  <2>1. lockQueue # <<>> /\ lockQueue \in Seq(Tasks) /\ lockQueue' = Tail(lockQueue)
    BY <1>3 DEF CleanupIdle, IdleTooLong, Admitted
  <2>2. /\ Len(lockQueue) \in Nat /\ Len(lockQueue') = Len(lockQueue) - 1
        /\ \A i \in 1..Len(lockQueue') :
            i + 1 \in 1..Len(lockQueue) /\ lockQueue'[i] = lockQueue[i + 1]
    BY <2>1, TailOfQueue
  <2>3. pc' = pc
    BY <1>3 DEF CleanupIdle, IdleTooLong
  <2>4. \A i, j \in 1..Len(lockQueue') : lockQueue'[i] = lockQueue'[j] => i = j
    BY <2>2
  <2>5. QED
    BY <2>2, <2>3, <2>4
<1>4. CASE CleanerWakes
  <2>1. lockQueue' = Append(lockQueue, Cleaner) /\ Cleaner \in Tasks
    BY <1>4 DEF CleanerWakes, Tasks
  <2>2. /\ Len(lockQueue) \in Nat
        /\ \A k \in 1..Len(lockQueue') :
            \/ k \in 1..Len(lockQueue) /\ lockQueue'[k] = lockQueue[k]
            \/ k = Len(lockQueue) + 1 /\ lockQueue'[k] = Cleaner
    BY <2>1, EndOfQueue
  <2>3. /\ pc' = pc
        /\ \A k \in 1..Len(lockQueue) : lockQueue[k] # Cleaner
    BY <1>4 DEF CleanerWakes
  <2>4. \A i, j \in 1..Len(lockQueue') : lockQueue'[i] = lockQueue'[j] => i = j
    BY <2>2, <2>3
  <2>5. QED
    BY <2>2, <2>3, <2>4, TaskAssumption
<1>5. ASSUME NEW r \in Requests, pc[r] # "queued", UNCHANGED lockQueue,
             \A q \in Requests \ {r} : pc'[q] = pc[q]
      PROVE  QueueInv'
  BY <1>5
<1>6. CASE UNCHANGED <<pc, lockQueue>>
  BY <1>6
<1>7. ASSUME NEW r \in Requests, RequestStep(r) PROVE QueueInv'
  <2>1. CASE EnsureHit(r) \/ EnsureUnknown(r) \/ EnsureMiss(r) \/ Unload(r)
    BY <1>2, <2>1 DEF EnsureHit, EnsureUnknown, EnsureMiss, Unload, AtLock, Leave
  <2>2. CASE \/ LoadSucceeds(r) \/ LoadFails(r) \/ CallStarts(r)
             \/ CallReturns(r) \/ CallRaises(r) \/ Respond(r) \/ BadImage(r)
    BY <1>5, <2>2
    DEF LoadSucceeds, Charge, LoadFails, CallStarts, SemaphoreFree, CallReturns, CallRaises, Respond, BadImage, Leave
  <2>3. QED
    BY <1>1, <1>7, <2>1, <2>2 DEF RequestStep
<1>8. QED
  BY <1>3, <1>4, <1>6, <1>7
  DEF Next, vars, ReloadCanonical, ReloadRows, ReloadFallback, Tick

\* Every step keeps loads exclusive: the lock is free when a load starts, and
\* nobody creates a slot or takes the lock before it ends.
LEMMA ExclusiveStep == IInv /\ [Next]_vars => LoadExclusive' /\ NeedInv'
<1> SUFFICES ASSUME IInv, [Next]_vars PROVE LoadExclusive' /\ NeedInv'
  OBVIOUS
<1> USE TaskAssumption DEF IInv, TypeOK, LoadExclusive, NeedInv
<1>1. ASSUME NEW r \in Requests, Arrive(r) PROVE LoadExclusive' /\ NeedInv'
  BY <1>1 DEF Arrive
<1>2. ASSUME NEW r \in Requests, EnsureHit(r) PROVE LoadExclusive' /\ NeedInv'
  BY <1>2 DEF EnsureHit, AtLock, Admitted
<1>3. ASSUME NEW r \in Requests, EnsureUnknown(r) PROVE LoadExclusive' /\ NeedInv'
  BY <1>3 DEF EnsureUnknown, AtLock, Admitted, Leave
<1>4. ASSUME NEW r \in Requests, EnsureMiss(r) PROVE LoadExclusive' /\ NeedInv'
  <2>1. slots'[req[r].model] = NoSlot
    <3>1. req[r].model \in Models
      BY <1>4, AdmittedRequest DEF EnsureMiss, AtLock
    <3> PICK victims \in SUBSET Loaded : slots' = Without(slots, victims)
      BY <1>4 DEF EnsureMiss
    <3> QED
      BY <1>4, <3>1 DEF EnsureMiss, Without
  <2>2. lock = NoTask /\ lock' = r /\ req' = req /\ pc' = [pc EXCEPT ![r] = "loading"]
    BY <1>4 DEF EnsureMiss, AtLock, Admitted
  <2>3. need' # 0
    BY <1>4 DEF EnsureMiss
  <2>4. QED
    BY <2>1, <2>2, <2>3
<1>5. ASSUME NEW r \in Requests, LoadSucceeds(r) PROVE LoadExclusive' /\ NeedInv'
  BY <1>5 DEF LoadSucceeds, Charge
<1>6. ASSUME NEW r \in Requests, LoadFails(r) PROVE LoadExclusive' /\ NeedInv'
  BY <1>6 DEF LoadFails, Leave
<1>7. ASSUME NEW r \in Requests, Unload(r) PROVE LoadExclusive' /\ NeedInv'
  BY <1>7 DEF Unload, AtLock, Admitted, Leave
<1>8. ASSUME NEW r \in Requests,
             CallStarts(r) \/ CallReturns(r) \/ CallRaises(r) \/ Respond(r) \/ BadImage(r)
      PROVE  LoadExclusive' /\ NeedInv'
  BY <1>8 DEF CallStarts, SemaphoreFree, CallReturns, CallRaises, Respond, BadImage, Leave
<1>9. CASE CleanupIdle
  BY <1>9 DEF CleanupIdle, IdleTooLong, Admitted
<1>10. CASE Tick
  <2>1. \A m \in Models : slots[m] = NoSlot => slots'[m] = NoSlot
    BY <1>10 DEF Tick, Loaded, LoadedIn
  <2>2. UNCHANGED <<lock, pc, req, need>>
    BY <1>10 DEF Tick
  <2>3. \A r \in Requests : pc[r] = "loading" => req[r].model \in Models
    BY DEF HoldsInv, Request
  <2>4. QED
    BY <2>1, <2>2, <2>3
<1>11. CASE UNCHANGED <<slots, lock, pc, req, need>>
  BY <1>11
<1>12. QED
  BY <1>1, <1>2, <1>3, <1>4, <1>5, <1>6, <1>7, <1>8, <1>9, <1>10, <1>11
  DEF Next, RequestStep, vars, CleanerWakes, ReloadCanonical, ReloadRows,
      ReloadFallback

\* IInv is inductive, so it always holds.
THEOREM Invariance == Spec => []IInv
<1>1. IInv /\ [Next]_vars => IInv'
  BY TypeStep, HoldsStep, QueueStep, ExclusiveStep DEF IInv
<1>2. QED
  BY InitIInv, <1>1, PTL DEF Spec

\* Every reachable state is well typed, for every set of models and requests.
THEOREM TypeCorrectness == Spec => []TypeOK
<1>1. IInv => TypeOK
  BY DEF IInv
<1>2. QED
  BY Invariance, <1>1, PTL

\* No model is ever loaded by two requests, nor loaded again while it has a
\* slot (async with self._lock in ensure_loaded).
THEOREM LoadsExclusive == Spec => []LoadExclusive
<1>1. IInv => LoadExclusive
  BY DEF IInv
<1>2. QED
  BY Invariance, <1>1, PTL

-----------------------------------------------------------------------------
\* The charges change only where a slot is created or removed.
LEMMA TickKeepsCharges ==
    ASSUME TypeOK, Tick
    PROVE  SlotMb(slots') = SlotMb(slots) /\ Loaded' = Loaded
<1>1. /\ slots' = [m \in Models |->
                    IF m \in Loaded /\ slots[m].idle < MaxIdle
                    THEN UsedAgo(slots[m], slots[m].idle + 1) ELSE slots[m]]
  BY DEF Tick
<1>2. ASSUME NEW m \in Models
      PROVE  /\ slots'[m] = NoSlot <=> slots[m] = NoSlot
             /\ slots[m] # NoSlot => slots'[m].mb = slots[m].mb
  <2>1. CASE m \in Loaded /\ slots[m].idle < MaxIdle
    <3>1. slots[m] \in Slot /\ slots[m] # NoSlot
      BY <2>1 DEF TypeOK, Loaded, LoadedIn
    <3>2. /\ slots'[m] = UsedAgo(slots[m], slots[m].idle + 1)
          /\ slots'[m] \in Slot
      BY <1>1, <2>1, <3>1, ClockAssumption DEF UsedAgo, Slot
    <3>3. slots'[m].mb = slots[m].mb
      BY <3>2 DEF UsedAgo
    <3>4. QED
      BY <3>1, <3>2, <3>3, TaskAssumption
  <2>2. CASE ~(m \in Loaded /\ slots[m].idle < MaxIdle)
    BY <1>1, <2>2
  <2>3. QED
    BY <2>1, <2>2
<1>3. SlotMb(slots') = SlotMb(slots)
  BY <1>2 DEF SlotMb
<1>4. Loaded' = Loaded
  BY <1>2 DEF Loaded, LoadedIn
<1>5. QED
  BY <1>3, <1>4

\* Every step keeps the room made for a load.
LEMMA RoomStep == IInv /\ RoomReserved /\ [Next]_vars => RoomReserved'
<1> SUFFICES ASSUME IInv, RoomReserved, [Next]_vars,
                    NEW q \in Requests, pc'[q] = "loading"
             PROVE  (Fits(slots, need) \/ Loaded = {})'
  BY DEF RoomReserved
<1> USE TaskAssumption DEF IInv, TypeOK, LoadExclusive, RoomReserved
<1>1. ASSUME NEW r \in Requests, EnsureMiss(r)
      PROVE  (Fits(slots, need) \/ Loaded = {})'
  <2>1. PICK victims \in SUBSET Loaded :
            EvictsToFit(slots, victims, need') /\ slots' = Without(slots, victims)
    BY <1>1 DEF EnsureMiss
  <2>2. CASE victims = Loaded
    BY <2>1, <2>2 DEF Without, Loaded, LoadedIn
  <2>3. CASE victims # Loaded
    BY <2>1, <2>3 DEF EvictsToFit, Loaded
  <2>4. QED
    BY <2>2, <2>3
<1>2. ASSUME pc[q] = "loading", UNCHANGED <<need, slots>>
      PROVE  (Fits(slots, need) \/ Loaded = {})'
  BY <1>2 DEF Loaded
<1>3. CASE Tick
  <2>1. pc[q] = "loading" /\ need' = need
    BY <1>3 DEF Tick
  <2>2. SlotMb(slots') = SlotMb(slots) /\ Loaded' = Loaded
    BY <1>3, TickKeepsCharges
  <2>3. QED
    BY <2>1, <2>2 DEF Fits, UsedMb
<1>4. ASSUME NEW r \in Requests, RequestStep(r), ~EnsureMiss(r)
      PROVE  (Fits(slots, need) \/ Loaded = {})'
  <2>1. CASE Arrive(r) \/ CallStarts(r) \/ CallReturns(r) \/ CallRaises(r) \/ Respond(r) \/ BadImage(r)
    BY <2>1, <1>2 DEF Arrive, CallStarts, SemaphoreFree, CallReturns, CallRaises, Respond, BadImage, Leave
  <2>2. CASE EnsureHit(r) \/ EnsureUnknown(r) \/ Unload(r)
    BY <2>2 DEF EnsureHit, EnsureUnknown, Unload, AtLock, Admitted, Leave
  <2>3. CASE LoadSucceeds(r) \/ LoadFails(r)
    BY <2>3 DEF LoadSucceeds, Charge, LoadFails, Leave
  <2>4. QED
    BY <1>4, <2>1, <2>2, <2>3 DEF RequestStep
<1>5. CASE CleanupIdle
  BY <1>5 DEF CleanupIdle, IdleTooLong, Admitted
<1>6. CASE UNCHANGED <<slots, need, pc>>
  BY <1>2, <1>6
<1>7. QED
  BY <1>1, <1>3, <1>4, <1>5, <1>6
  DEF Next, vars, CleanerWakes, ReloadCanonical, ReloadRows, ReloadFallback

\* The room made by eviction is still there when the model arrives.
THEOREM RoomStaysReserved == Spec => []RoomReserved
<1>1. Init => RoomReserved
  BY DEF Init, RoomReserved
<1>2. QED
  BY <1>1, Invariance, RoomStep, PTL DEF Spec

-----------------------------------------------------------------------------
\* Every step of the manager is a step of the budget it promises, or none.
LEMMA BudgetStep ==
    ASSUME IInv, RoomReserved, [Next]_vars
    PROVE  [B!Next]_(SlotMb(slots))
<1> USE TaskAssumption DEF IInv, TypeOK
<1>1. ASSUME NEW gone \in SUBSET Models, slots' = Without(slots, gone)
      PROVE  B!Next
  <2>1. SlotMb(slots)' = [m \in Models |-> IF m \in gone THEN 0 ELSE SlotMb(slots)[m]]
    BY <1>1 DEF SlotMb, Without
  <2>2. QED
    BY <2>1 DEF B!Next, B!Release
<1>2. ASSUME NEW r \in Requests, EnsureHit(r) PROVE SlotMb(slots)' = SlotMb(slots)
  <2>1. req[r].model \in Models /\ slots[req[r].model] \in Slot
    BY <1>2, AdmittedRequest DEF EnsureHit, AtLock
  <2>2. UsedAgo(slots[req[r].model], 0) \in Slot
    BY <2>1, ClockAssumption DEF UsedAgo, Slot
  <2>3. UsedAgo(slots[req[r].model], 0).mb = slots[req[r].model].mb
    BY DEF UsedAgo
  <2>4. slots' = [slots EXCEPT ![req[r].model] = UsedAgo(slots[req[r].model], 0)]
    BY <1>2 DEF EnsureHit
  <2>5. QED
    BY <2>1, <2>2, <2>3, <2>4 DEF SlotMb
<1>3. ASSUME NEW r \in Requests, EnsureMiss(r) PROVE B!Next
  <2>1. PICK victims \in SUBSET Loaded : slots' = Without(slots, victims)
    BY <1>3 DEF EnsureMiss
  <2>2. victims \in SUBSET Models
    BY DEF Loaded, LoadedIn
  <2>3. QED
    BY <1>1, <2>1, <2>2
<1>4. ASSUME NEW r \in Requests, LoadSucceeds(r) PROVE B!Next
  <2> DEFINE m == req[r].model
  <2> DEFINE i == CHOOSE j \in Insts : j \notin LiveInsts
  <2> DEFINE new == [inst |-> i, mb |-> need, idle |-> 0]
  <2>1. /\ m \in Models /\ slots[m] = NoSlot /\ lock = r
        /\ pc[r] = "loading"
    BY <1>4 DEF LoadSucceeds, Charge, LoadExclusive, HoldsInv, Request
  <2>2. need \in Nat \ {0}
    BY <2>1 DEF NeedInv
  <2>3. new \in Slot /\ new.mb = need
    BY <1>4, <2>2, ClockAssumption DEF LoadSucceeds, Charge, Slot
  <2>4. slots' = [slots EXCEPT ![m] = new]
    BY <1>4 DEF LoadSucceeds, Charge
  <2> HIDE DEF i, new, m
  <2>5. SlotMb(slots)' = [SlotMb(slots) EXCEPT ![m] = need]
    BY <2>1, <2>3, <2>4 DEF SlotMb
  <2>6. SlotMb(slots)[m] = 0 /\ SlotMb(slots)'[m] = need
    BY <2>1, <2>5 DEF SlotMb
  <2>7. B!FitsBeside(need)
    <3>1. Fits(slots, need) \/ Loaded = {}
      BY <2>1 DEF RoomReserved
    <3>2. CASE Fits(slots, need)
      <4>1. B!Charged = UsedMb(slots)
        BY DEF B!Charged, UsedMb, B!SumFunctionOnSet, SumFunctionOnSet,
               B!FoldFunctionOnSet, FoldFunctionOnSet, B!MapThenFoldSet, MapThenFoldSet
      <4>2. QED
        BY <3>2, <4>1 DEF B!FitsBeside, Fits
    <3>3. CASE Loaded = {}
      BY <3>3 DEF B!FitsBeside, Loaded, LoadedIn, SlotMb
    <3>4. QED
      BY <3>1, <3>2, <3>3
  <2>8. B!Admit(m)
    BY <2>2, <2>5, <2>6, <2>7 DEF B!Admit
  <2>9. QED
    BY <2>1, <2>8 DEF B!Next
<1>5. ASSUME NEW r \in Requests, Unload(r) PROVE B!Next
  <2>1. req[r].model \in Models /\ slots' = Without(slots, {req[r].model})
    BY <1>5, AdmittedRequest DEF Unload, AtLock
  <2>2. QED
    BY <1>1, <2>1
<1>6. CASE CleanupIdle
  <2> DEFINE stale == {m \in Loaded : slots[m].idle > IdleTimeout}
  <2>1. stale \in SUBSET Models /\ slots' = Without(slots, stale)
    BY <1>6 DEF CleanupIdle, IdleTooLong, Loaded, LoadedIn
  <2> HIDE DEF stale
  <2>2. QED
    BY <1>1, <2>1
<1>7. CASE Tick
  BY <1>7, TickKeepsCharges
<1>8. ASSUME UNCHANGED slots PROVE SlotMb(slots)' = SlotMb(slots)
  BY <1>8 DEF SlotMb
<1>9. QED
  BY <1>2, <1>3, <1>4, <1>5, <1>6, <1>7, <1>8
  DEF Next, RequestStep, vars, Arrive, EnsureUnknown, LoadFails, CallStarts, SemaphoreFree,
      CallReturns, CallRaises, Respond, BadImage, CleanerWakes, ReloadCanonical,
      ReloadRows, ReloadFallback

\* The manager implements VramBudget: it only ever admits a model that fits
\* beside what is resident, or one that has the memory for itself.
THEOREM ManagerImplementsBudget == Spec => ImplementsBudget
<1>1. Init => B!Init
  BY DEF Init, B!Init, SlotMb
<1>2. QED
  BY <1>1, Invariance, RoomStaysReserved, BudgetStep, PTL
  DEF Spec, ImplementsBudget, B!Spec

-----------------------------------------------------------------------------
(* The budget.  A load adds what fitted beside the rest or finds nothing    *)
(* else loaded, and every other step that changes a charge takes some out. *)

LEMMA SlotsCharge ==
    ASSUME TypeOK
    PROVE  Charges(slots)
BY DEF TypeOK, Slot, Charges, LoadedIn

LEMMA OutKeepsBudget ==
    ASSUME TypeOK, BudgetRespected, NEW gone, slots' = Without(slots, gone)
    PROVE  BudgetRespected'
<1>1. /\ UsedMb(slots)' <= UsedMb(slots) /\ Loaded' = Loaded \ gone
      /\ UsedMb(slots) \in Nat /\ UsedMb(slots)' \in Nat
  BY SlotsCharge, WithoutUses, UsedMbType DEF Loaded
<1>2. CASE UsedMb(slots) <= Budget
  BY <1>1, <1>2, ModelAssumption DEF BudgetRespected
<1>3. CASE \E m \in Models : Loaded = {m}
  <2>1. PICK m \in Models : Loaded = {m}
    BY <1>3
  <2>2. CASE m \in gone
    <3>1. UsedMb(slots)' = 0
      BY <1>1, <2>1, <2>2, NothingLoaded DEF Loaded
    <3> QED
      BY <3>1, ModelAssumption DEF BudgetRespected
  <2>3. CASE m \notin gone
    <3>1. Loaded' = {m}
      BY <1>1, <2>1, <2>3
    <3> QED
      BY <3>1 DEF BudgetRespected
  <2> QED
    BY <2>2, <2>3
<1> QED
  BY <1>2, <1>3 DEF BudgetRespected

LEMMA LoadKeepsBudget ==
    ASSUME IInv, RoomReserved, NEW r \in Requests, LoadSucceeds(r)
    PROVE  BudgetRespected'
<1> DEFINE m == req[r].model
           i == CHOOSE j \in Insts : j \notin LiveInsts
           new == [inst |-> i, mb |-> need, idle |-> 0]
<1>1. m \in Models /\ slots[m] = NoSlot /\ lock = r /\ pc[r] = "loading"
  BY DEF LoadSucceeds, Charge, LoadExclusive, HoldsInv, Request, IInv
<1>2. need \in Nat \ {0}
  BY <1>1, TaskAssumption DEF NeedInv, IInv, TypeOK
<1>3. new \in Slot /\ new.mb = need
  BY <1>2, ClockAssumption DEF LoadSucceeds, Slot
<1>4. slots' = [slots EXCEPT ![m] = new] /\ slots \in [Models -> Slot \cup {NoSlot}]
  BY DEF LoadSucceeds, Charge, IInv, TypeOK
<1> HIDE DEF m, i, new
<1>5. SlotMb(slots') = [SlotMb(slots) EXCEPT ![m] = need] /\ Loaded' = Loaded \cup {m}
  BY <1>1, <1>3, <1>4, TaskAssumption DEF SlotMb, Loaded, LoadedIn
<1>6. CASE Fits(slots, need)
  <2>1. UsedMb(slots') = UsedMb(slots) + need
    BY <1>1, <1>2, <1>5, SlotsCharge, LoadedUses DEF IInv
  <2> QED
    BY <1>6, <2>1 DEF Fits, BudgetRespected
<1>7. CASE Loaded = {}
  BY <1>1, <1>5, <1>7 DEF BudgetRespected
<1> QED
  BY <1>1, <1>6, <1>7 DEF RoomReserved

LEMMA SameChargesKeepBudget ==
    ASSUME BudgetRespected, SlotMb(slots') = SlotMb(slots), Loaded' = Loaded
    PROVE  BudgetRespected'
BY DEF BudgetRespected, UsedMb

LEMMA BudgetKept ==
    ASSUME IInv, RoomReserved, BudgetRespected, [Next]_vars
    PROVE  BudgetRespected'
<1>0. TypeOK
  BY DEF IInv
<1>1. ASSUME NEW r \in Requests, EnsureHit(r) PROVE BudgetRespected'
  <2>1. req[r].model \in Models /\ slots[req[r].model] \in Slot
    BY <1>0, <1>1, AdmittedRequest DEF EnsureHit, AtLock, TypeOK
  <2>2. UsedAgo(slots[req[r].model], 0) \in Slot /\ UsedAgo(slots[req[r].model], 0).mb = slots[req[r].model].mb
    BY <2>1, ClockAssumption DEF UsedAgo, Slot
  <2>3. slots' = [slots EXCEPT ![req[r].model] = UsedAgo(slots[req[r].model], 0)]
    BY <1>1 DEF EnsureHit
  <2>4. SlotMb(slots') = SlotMb(slots) /\ Loaded' = Loaded
    BY <1>0, <2>1, <2>2, <2>3, TaskAssumption DEF SlotMb, Loaded, LoadedIn, TypeOK
  <2> QED
    BY <2>4, SameChargesKeepBudget
<1>2. ASSUME NEW r \in Requests, EnsureMiss(r) PROVE BudgetRespected'
  BY <1>0, <1>2, OutKeepsBudget DEF EnsureMiss
<1>3. ASSUME NEW r \in Requests, LoadSucceeds(r) PROVE BudgetRespected'
  BY <1>3, LoadKeepsBudget
<1>4. ASSUME NEW r \in Requests, Unload(r) PROVE BudgetRespected'
  BY <1>0, <1>4, OutKeepsBudget DEF Unload
<1>5. CASE CleanupIdle
  BY <1>0, <1>5, OutKeepsBudget DEF CleanupIdle
<1>6. CASE Tick
  BY <1>0, <1>6, TickKeepsCharges, SameChargesKeepBudget
<1>7. ASSUME UNCHANGED slots PROVE BudgetRespected'
  BY <1>7 DEF BudgetRespected, Loaded
<1> QED
  BY <1>1, <1>2, <1>3, <1>4, <1>5, <1>6, <1>7
  DEF Next, RequestStep, vars, Arrive, EnsureUnknown, LoadFails, CallStarts, CallReturns, CallRaises, Respond,
      BadImage, CleanerWakes, ReloadCanonical, ReloadRows, ReloadFallback

\* The sizes of the loaded models never add up to more than the budget, save
\* for one model that is loaded alone, over any number of models, requests,
\* failed loads, unloads and reloads of the registry (_evict_to_fit and
\* ensure_loaded).
THEOREM StaysWithinBudget == Spec => []BudgetRespected
<1>1. Init => BudgetRespected
  <2> SUFFICES ASSUME Init PROVE UsedMb(slots) = 0
    BY ModelAssumption DEF BudgetRespected
  <2> QED
    BY NothingLoaded DEF Init, LoadedIn
<1> QED
  BY <1>1, Invariance, RoomStaysReserved, BudgetKept, PTL DEF Spec

=============================================================================
