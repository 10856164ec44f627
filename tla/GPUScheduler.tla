----------------------------- MODULE GPUScheduler -----------------------------
(***************************************************************************)
(* The GPU scheduler of a process: the VRAMLedger, the AdmissionController,*)
(* one ModelPool and the FailoverManager, called by threads.               *)
(*                                                                         *)
(* A section under a lock of the ledger or of the pool is one step, and so *)
(* is an operation of the pool's queue; everything between two of them can *)
(* interleave: request_allocation() decides and allocates in two sections, *)
(* ModelPool.release() reads and sets the handle's flag without a lock,    *)
(* warm_new_instance() and the failover take several sections.             *)
(*                                                                         *)
(* A handle is identified with its AllocationToken: each has its own.      *)
(***************************************************************************)
EXTENDS Integers, SequencesExt

CONSTANTS
  Devices,          \* registered devices, numbered in the order of registration
  Total,            \* Devices -> total_vram_mb
  Threads,
  Sizes,            \* VRAM an adapter asks for
  PoolSize,
  PoolNeed,         \* vram_per_instance_mb
  PoolDevices,      \* devices of the pool, a sequence
  MaxTokens         \* bound: tokens ever issued

SlotDevice(i) == PoolDevices[((i - 1) % Len(PoolDevices)) + 1]

\* The pool's instances fit, else its constructor raises.
ASSUME SchedulerAssumption ==
  /\ Devices \subseteq Nat \ {0}
  /\ Total \in [Devices -> Nat]
  /\ Sizes \subseteq Nat \ {0}
  /\ PoolSize \in Nat /\ PoolNeed \in Nat \ {0}
  /\ PoolDevices \in Seq(Devices) /\ PoolDevices # <<>>
  /\ MaxTokens \in Nat
  /\ \A d \in Devices :
       PoolNeed * Cardinality({i \in 1..PoolSize : SlotDevice(i) = d}) <= Total[d]

VARIABLES
  allocated,  \* Devices -> allocated_vram_mb
  healthy,    \* Devices -> BOOLEAN
  grants,     \* the tokens issued, in order: [device, mb]
  live,       \* tokens the ledger knows
  avail,      \* the pool's queue of handles
  all,        \* _all_handles
  free,       \* handles whose _released flag is set
  frame,      \* Threads -> where the thread is in its call, and its locals
  tokens,     \* Threads -> adapters' tokens it has to release
  leased,     \* Threads -> handles it has acquired and not released
  drained     \* history: devices whose failover is over

ledger == <<allocated, healthy, grants, live>>
pool == <<avail, all, free>>
callers == <<tokens, leased>>
vars == <<ledger, pool, frame, callers, drained>>

Grants == [device : Devices, mb : Nat]

Places == {"idle", "decided", "put", "admit", "queue", "pick", "retire", "remove", "drain"}

Frames == [at : Places, device : Devices \cup {0}, mb : Nat, handle : Nat]

Idle == [at |-> "idle", device |-> 0, mb |-> 0, handle |-> 0]
WithDevice(where, d, mb) == [Idle EXCEPT !.at = where, !.device = d, !.mb = mb]
WithHandle(where, h) == [Idle EXCEPT !.at = where, !.handle = h]

SchedulerTypeOK ==
  /\ allocated \in [Devices -> Nat]
  /\ healthy \in [Devices -> BOOLEAN]
  /\ grants \in Seq(Grants) /\ live \subseteq 1..Len(grants)
  /\ avail \in Seq(1..Len(grants)) /\ all \in Seq(1..Len(grants))
  /\ free \subseteq 1..Len(grants)
  /\ frame \in [Threads -> Frames]
  /\ \A t \in Threads : frame[t].handle <= Len(grants)
  /\ tokens \in [Threads -> SUBSET (1..Len(grants))]
  /\ leased \in [Threads -> SUBSET (1..Len(grants))]
  /\ drained \subseteq Devices

Init ==
  /\ grants = [i \in 1..PoolSize |-> [device |-> SlotDevice(i), mb |-> PoolNeed]]
  /\ live = 1..PoolSize
  /\ allocated = [d \in Devices |->
       PoolNeed * Cardinality({i \in 1..PoolSize : SlotDevice(i) = d})]
  /\ healthy = [d \in Devices |-> TRUE]
  /\ avail = [i \in 1..PoolSize |-> i]
  /\ all = [i \in 1..PoolSize |-> i]
  /\ free = {}
  /\ frame = [t \in Threads |-> Idle]
  /\ tokens = [t \in Threads |-> {}]
  /\ leased = [t \in Threads |-> {}]
  /\ drained = {}

At(t, where) == frame[t].at = where
Enter(t, f) == frame' = [frame EXCEPT ![t] = f]
Continue(t, where) == frame' = [frame EXCEPT ![t].at = where]
Return(t) == Enter(t, Idle)

-------------------------------------------------------------------------------
(* VRAMLedger                                                              *)

\* Availability that forgets the health of the device.
AvailableAnyhow(d) == IF allocated[d] <= Total[d] THEN Total[d] - allocated[d] ELSE 0

Available(d) ==
  IF healthy[d] /\ allocated[d] <= Total[d] THEN Total[d] - allocated[d] ELSE 0

\* best_fit_device(): the most available VRAM, the first registered of equals.
Candidates(mb) == {d \in Devices : healthy[d] /\ Available(d) >= mb}

BestFit(mb, d) ==
  /\ d \in Candidates(mb)
  /\ \A e \in Candidates(mb) : Available(e) < Available(d)
                               \/ (Available(e) = Available(d) /\ d <= e)

\* An allocation that trusts the admission decision.
FitsAsDecided(mb, d) == TRUE

\* RI-8, checked under the lock that deducts.
Fits(mb, d) == mb <= Available(d)

NextToken == Len(grants) + 1

\* The bound on tokens, those of admitted requests included.
TokensLeft == Len(grants) + Cardinality({t \in Threads : frame[t].at = "decided"}) < MaxTokens

Grant(mb, d) ==
  /\ grants' = Append(grants, [device |-> d, mb |-> mb])
  /\ live' = live \cup {NextToken}
  /\ allocated' = [allocated EXCEPT ![d] = @ + mb]
  /\ UNCHANGED healthy

Lower(x, mb) == IF x >= mb THEN x - mb ELSE 0

\* A release that asks nothing of the token and nothing of the total.
ReleaseBlind(k) ==
  /\ live' = live \ {k}
  /\ allocated' = [allocated EXCEPT ![grants[k].device] = @ - grants[k].mb]
  /\ UNCHANGED <<grants, healthy>>

\* release(): of a token the ledger does not know, nothing.
Release(k) ==
  /\ live' = live \ {k}
  /\ allocated' = IF k \in live
                  THEN [allocated EXCEPT ![grants[k].device] = Lower(@, grants[k].mb)]
                  ELSE allocated
  /\ UNCHANGED <<grants, healthy>>

-------------------------------------------------------------------------------
(* GPUScheduler.request_allocation() of an adapter: the decision, then the *)
(* allocation, which raises when the device has filled up in between.      *)
Request(t, mb) ==
  /\ At(t, "idle")
  /\ TokensLeft
  /\ \E d \in Devices : BestFit(mb, d) /\ Enter(t, WithDevice("decided", d, mb))
  /\ UNCHANGED <<ledger, pool, callers, drained>>

Allocate(t) ==
  /\ At(t, "decided")
  /\ Fits(frame[t].mb, frame[t].device)
  /\ Grant(frame[t].mb, frame[t].device)
  /\ tokens' = [tokens EXCEPT ![t] = @ \cup {NextToken}]
  /\ Return(t)
  /\ UNCHANGED <<pool, leased, drained>>

AllocateRaises(t) ==
  /\ At(t, "decided")
  /\ ~Fits(frame[t].mb, frame[t].device)
  /\ Return(t)
  /\ UNCHANGED <<ledger, pool, callers, drained>>

\* release_allocation() in the adapter's finally.
ReleaseAllocation(t, k) ==
  /\ At(t, "idle")
  /\ k \in tokens[t]
  /\ Release(k)
  /\ tokens' = [tokens EXCEPT ![t] = @ \ {k}]
  /\ UNCHANGED <<pool, frame, leased, drained>>

-------------------------------------------------------------------------------
(* ModelPool.acquire() and release(), of a handle not released before.     *)

\* The flag of the handle's last release stays set.
AcquireFlagged(t) ==
  /\ At(t, "idle")
  /\ avail # <<>>
  /\ avail' = Tail(avail)
  /\ leased' = [leased EXCEPT ![t] = @ \cup {Head(avail)}]
  /\ UNCHANGED <<ledger, all, free, frame, tokens, drained>>

Acquire(t) ==
  /\ At(t, "idle")
  /\ avail # <<>>
  /\ avail' = Tail(avail)
  /\ free' = free \ {Head(avail)}
  /\ leased' = [leased EXCEPT ![t] = @ \cup {Head(avail)}]
  /\ UNCHANGED <<ledger, all, frame, tokens, drained>>

\* The flag is read; a set flag makes the release a no-op.
ReleaseModel(t, h) ==
  /\ At(t, "idle")
  /\ h \in leased[t]
  /\ IF h \in free THEN Return(t) ELSE Enter(t, WithHandle("put", h))
  /\ leased' = [leased EXCEPT ![t] = @ \ {h}]
  /\ UNCHANGED <<ledger, pool, tokens, drained>>

PutBack(t) ==
  /\ At(t, "put")
  /\ free' = free \cup {frame[t].handle}
  /\ avail' = Append(avail, frame[t].handle)
  /\ Return(t)
  /\ UNCHANGED <<ledger, all, callers, drained>>

-------------------------------------------------------------------------------
(* warm_new_instance(): allocate, or raise, then admit, and only then      *)
(* retire the oldest.                                                      *)
Warm(t) ==
  /\ At(t, "idle")
  /\ TokensLeft
  /\ Fits(PoolNeed, PoolDevices[1])
  /\ Grant(PoolNeed, PoolDevices[1])
  /\ Enter(t, WithHandle("admit", NextToken))
  /\ UNCHANGED <<pool, callers, drained>>

\* The new handle is queued and not listed.
AdmitUnlisted(t) ==
  /\ At(t, "admit")
  /\ Continue(t, "queue")
  /\ UNCHANGED <<ledger, pool, callers, drained>>

Admit(t) ==
  /\ At(t, "admit")
  /\ all' = Append(all, frame[t].handle)
  /\ Continue(t, "queue")
  /\ UNCHANGED <<ledger, avail, free, callers, drained>>

\* With retire_old and another instance listed, the retirement follows.
QueueNew(t, retire_old) ==
  /\ At(t, "queue")
  /\ avail' = Append(avail, frame[t].handle)
  /\ IF retire_old /\ Len(all) > 1 THEN Continue(t, "pick") ELSE Return(t)
  /\ UNCHANGED <<ledger, all, free, callers, drained>>

\* Of an empty list [0] raises, which ends the call as well.
PickOld(t) ==
  /\ At(t, "pick")
  /\ IF all # <<>> /\ Head(all) # frame[t].handle
     THEN Enter(t, WithHandle("retire", Head(all)))
     ELSE Return(t)
  /\ UNCHANGED <<ledger, pool, callers, drained>>

RetireOld(t) ==
  /\ At(t, "retire")
  /\ Release(frame[t].handle)
  /\ Continue(t, "remove")
  /\ UNCHANGED <<pool, callers, drained>>

\* The handle leaves the list, but not the queue nor a caller's hands.
RemoveOld(t) ==
  /\ At(t, "remove")
  /\ IF frame[t].handle \in Range(all)
     THEN \E i \in DOMAIN all :
            /\ all[i] = frame[t].handle
            /\ \A j \in 1..(i - 1) : all[j] # all[i]
            /\ all' = RemoveAt(all, i)
     ELSE all' = all
  /\ Return(t)
  /\ UNCHANGED <<ledger, avail, free, callers, drained>>

-------------------------------------------------------------------------------
(* FailoverManager.handle_device_failure(): mark, then drain.              *)
MarkFailed(t, d) ==
  /\ At(t, "idle")
  /\ healthy' = [healthy EXCEPT ![d] = FALSE]
  /\ Enter(t, WithDevice("drain", d, 0))
  /\ UNCHANGED <<allocated, grants, live, pool, callers, drained>>

Drain(t) ==
  /\ At(t, "drain")
  /\ live' = {k \in live : grants[k].device # frame[t].device}
  /\ allocated' = [allocated EXCEPT ![frame[t].device] = 0]
  /\ drained' = drained \cup {frame[t].device}
  /\ Return(t)
  /\ UNCHANGED <<healthy, grants, pool, callers>>

-------------------------------------------------------------------------------
Step(t) ==
  \/ \E mb \in Sizes : Request(t, mb)
  \/ Allocate(t) \/ AllocateRaises(t)
  \/ \E k \in tokens[t] : ReleaseAllocation(t, k)
  \/ Acquire(t)
  \/ \E h \in leased[t] : ReleaseModel(t, h)
  \/ PutBack(t)
  \/ Warm(t) \/ Admit(t)
  \/ \E retire_old \in BOOLEAN : QueueNew(t, retire_old)
  \/ PickOld(t) \/ RetireOld(t) \/ RemoveOld(t)
  \/ \E d \in Devices : MarkFailed(t, d)
  \/ Drain(t)

Next == \E t \in Threads : Step(t)

Spec == Init /\ [][Next]_vars

-------------------------------------------------------------------------------
(* RI-8, "OOM-by-construction" (vram_ledger.py allocate): no interleaving  *)
(* of decisions, allocations, warm-ups and failovers reserves more VRAM    *)
(* than a device has.                                                      *)
WithinCapacity == \A d \in Devices : allocated[d] <= Total[d]

(* The running total of a device (vram_ledger.py release, drain_device) is *)
(* exactly the sum of its live tokens, also when a token is released after *)
(* its device was drained.                                                 *)
Mb(k) == grants[k].mb

LedgerExact ==
  \A d \in Devices :
    allocated[d] = MapThenSumSet(Mb, {k \in live : grants[k].device = d})

(* Once a failed device is drained (failover.py) nothing is ever reserved  *)
(* on it again, also by an adapter sent to it before the failure.          *)
FailedStaysEmpty ==
  \A d \in drained : allocated[d] = 0 /\ \A k \in live : grants[k].device # d

(* The ledger, the pool and the failover together implement               *)
(* VRAMReservations: what is in use is what the live tokens add up to      *)
(* although only a running total is kept (vram_ledger.py), no token comes  *)
(* back, and a device that is drained (failover.py) holds nothing again,   *)
(* also for an adapter that was sent to it before the failure.             *)
Reserved == [k \in live |-> grants[k]]
Spent == (1..Len(grants)) \ live

Reservations == INSTANCE VRAMReservations WITH held <- Reserved, spent <- Spent, failed <- drained

ImplementsReservations == Reservations!Spec

(* A handle is "for exclusive use" (scheduler.py acquire_model): from its  *)
(* admission on it is in one place, once in the queue, with one caller, or *)
(* on its way back; neither lost nor handed out twice.                     *)
Admitted == {h \in DOMAIN grants : h \in 1..PoolSize \/ (\E i \in DOMAIN avail : avail[i] = h)
                                   \/ (\E t \in Threads : h \in leased[t]) \/ h \in free}
Queued(h) == {i \in DOMAIN avail : avail[i] = h}
Leasing(h) == {t \in Threads : h \in leased[t]}
Returning(h) == {t \in Threads : At(t, "put") /\ frame[t].handle = h}

HandleInOnePlace ==
  \A h \in Admitted :
    Cardinality(Queued(h)) + Cardinality(Leasing(h)) + Cardinality(Returning(h)) = 1

(* GPU-1, warm before admit (model_pool.py warm_new_instance): concurrent  *)
(* scale-ups that each retire the oldest instance never leave fewer        *)
(* instances listed than the pool was built with.                          *)
PoolNeverShrinks == Len(all) >= PoolSize

(* The VRAM of a listed instance is reserved (model_pool.py                *)
(* warm_new_instance), but for one whose device has failed or whose        *)
(* retirement is at its last step.                                         *)
PoolBacked ==
  \A i \in DOMAIN all :
    \/ all[i] \in live
    \/ grants[all[i]].device \in drained
    \/ \E t \in Threads : At(t, "remove") /\ frame[t].handle = all[i]

(* pool_size is "available + currently acquired" (model_pool.py:199) when  *)
(* no call is in progress. A retired instance leaves the list but is still *)
(* in the queue, or with its caller and then back in the queue.            *)
PoolSizeCounts ==
  (\A t \in Threads : At(t, "idle")) =>
    Len(all) = Len(avail) + MapThenSumSet(LAMBDA t : Cardinality(leased[t]), Threads)
===============================================================================
