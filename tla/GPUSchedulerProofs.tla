-------------------------- MODULE GPUSchedulerProofs --------------------------
(***************************************************************************)
(* What the VRAM ledger guarantees whatever the devices, threads, pools    *)
(* and requests are.  The argument is about the lock: a grant checks RI-8  *)
(* in the section that deducts, and a failed device has nothing available. *)
(***************************************************************************)
EXTENDS GPUScheduler, FiniteSetTheorems, SequenceTheorems, TLAPS

\* The ledger, with the two facts that keep it right.
LedgerOK ==
  /\ allocated \in [Devices -> Nat]
  /\ healthy \in [Devices -> BOOLEAN]
  /\ grants \in Seq(Grants) /\ live \subseteq 1..Len(grants)
  /\ drained \subseteq Devices
  /\ WithinCapacity
  /\ FailedStaysEmpty
  /\ \A d \in drained : ~healthy[d]

PoolOK ==
  /\ avail \in Seq(1..Len(grants)) /\ all \in Seq(1..Len(grants))
  /\ free \subseteq 1..Len(grants)
  /\ tokens \in [Threads -> SUBSET (1..Len(grants))]
  /\ leased \in [Threads -> SUBSET (1..Len(grants))]

\* What the locals of a call hold where they are used.
FrameOK(f) ==
  /\ f \in Frames
  /\ f.handle <= Len(grants)
  /\ f.at = "decided" => f.device \in Devices /\ f.mb > 0
  /\ f.at = "drain" => f.device \in Devices /\ ~healthy[f.device]
  /\ f.at \in {"put", "admit", "queue", "retire", "remove"} => f.handle > 0

CallsOK ==
  /\ frame \in [Threads -> Frames]
  /\ \A t \in Threads : FrameOK(frame[t])

SchedulerInv == LedgerOK /\ PoolOK /\ CallsOK

LEMMA InvTypes == SchedulerInv => SchedulerTypeOK
BY DEF SchedulerInv, LedgerOK, PoolOK, CallsOK, FrameOK, SchedulerTypeOK

-------------------------------------------------------------------------------
(* The operations of the ledger                                            *)

LEMMA Sizing ==
  /\ Devices \subseteq Nat /\ Total \in [Devices -> Nat]
  /\ PoolNeed \in Nat \ {0} /\ PoolDevices[1] \in Devices
BY SchedulerAssumption

LEMMA GrantInv ==
  ASSUME LedgerOK, NEW mb \in Nat \ {0}, NEW d \in Devices, Fits(mb, d), Grant(mb, d),
         drained' = drained
  PROVE  LedgerOK' /\ Len(grants') = Len(grants) + 1 /\ NextToken \in 1..Len(grants')
<1> USE Sizing DEF LedgerOK
<1>1. /\ healthy[d] /\ allocated[d] + mb <= Total[d] /\ d \notin drained
      /\ allocated[d] \in Nat /\ Total[d] \in Nat
    BY DEF Fits, Available
<1>2. /\ allocated' = [allocated EXCEPT ![d] = @ + mb]
      /\ grants' = Append(grants, [device |-> d, mb |-> mb])
      /\ live' = live \cup {Len(grants) + 1}
      /\ healthy' = healthy
    BY DEF Grant, NextToken
<1>3. allocated' \in [Devices -> Nat] BY <1>1, <1>2
<1>4. [device |-> d, mb |-> mb] \in Grants BY DEF Grants
<1>5. /\ grants' \in Seq(Grants) /\ Len(grants') = Len(grants) + 1 /\ Len(grants) \in Nat
      /\ grants'[Len(grants) + 1].device = d
      /\ \A k \in 1..Len(grants) : grants'[k] = grants[k]
    BY <1>2, <1>4
<1>6. live' \subseteq 1..Len(grants')
  <2>1. 1..Len(grants) \subseteq 1..Len(grants') /\ Len(grants) + 1 \in 1..Len(grants') BY <1>5
  <2> QED BY <1>2, <2>1
<1>7. WithinCapacity' BY <1>1, <1>2 DEF WithinCapacity
<1>8. FailedStaysEmpty'
  <2>1. ASSUME NEW e \in drained PROVE allocated'[e] = 0 /\ \A k \in live' : grants'[k].device # e
    <3>1. e # d /\ e \in Devices BY <1>1, <2>1
    <3>2. allocated'[e] = 0 BY <1>2, <3>1 DEF FailedStaysEmpty
    <3>3. \A k \in live : grants'[k].device # e BY <1>5 DEF FailedStaysEmpty
    <3> QED BY <1>2, <1>5, <3>1, <3>2, <3>3
  <2> QED BY <2>1 DEF FailedStaysEmpty
<1> QED BY <1>2, <1>3, <1>5, <1>6, <1>7, <1>8 DEF NextToken

LEMMA ReleaseInv ==
  ASSUME LedgerOK, NEW k \in Nat, Release(k), drained' = drained
  PROVE  LedgerOK' /\ grants' = grants
<1> USE Sizing DEF LedgerOK
<1>1. /\ live' = live \ {k} /\ grants' = grants /\ healthy' = healthy
      /\ \/ allocated' = allocated
         \/ /\ k \in live
            /\ allocated' = [allocated EXCEPT ![grants[k].device] = Lower(@, grants[k].mb)]
    BY DEF Release
<1>2. /\ allocated' \in [Devices -> Nat]
      /\ \A d \in Devices : allocated'[d] <= allocated[d]
  <2>1. CASE allocated' = allocated BY <2>1
  <2>2. ASSUME k \in live,
               allocated' = [allocated EXCEPT ![grants[k].device] = Lower(@, grants[k].mb)]
        PROVE  /\ allocated' \in [Devices -> Nat]
               /\ \A d \in Devices : allocated'[d] <= allocated[d]
    <3>1. grants[k].device \in Devices /\ grants[k].mb \in Nat
      <4>1. grants[k] \in Grants BY <2>2
      <4> QED BY <4>1 DEF Grants
    <3>2. \A x \in Nat : /\ Lower(x, grants[k].mb) \in Nat /\ Lower(x, grants[k].mb) <= x
                        /\ x <= x
        BY <3>1 DEF Lower
    <3> QED BY <2>2, <3>1, <3>2
  <2> QED BY <1>1, <2>1, <2>2
<1>3. WithinCapacity' BY <1>2 DEF WithinCapacity
<1>4. FailedStaysEmpty'
  <2>1. ASSUME NEW e \in drained PROVE allocated'[e] = 0
    <3>1. /\ allocated[e] = 0 /\ allocated'[e] \in Nat /\ allocated'[e] <= allocated[e]
        BY <1>2, <2>1 DEF FailedStaysEmpty
    <3> QED BY <3>1
  <2> QED BY <1>1, <2>1 DEF FailedStaysEmpty
<1> QED BY <1>1, <1>2, <1>3, <1>4

LEMMA DrainInv ==
  ASSUME SchedulerInv, NEW t \in Threads, Drain(t)
  PROVE  LedgerOK'
<1> USE Sizing DEF LedgerOK
<1> DEFINE d == frame[t].device
<1>1. d \in Devices BY DEF Drain, At, SchedulerInv, CallsOK, FrameOK
<1>2. LedgerOK BY DEF SchedulerInv
<1>3. /\ live' = {k \in live : grants[k].device # d}
      /\ allocated' = [allocated EXCEPT ![d] = 0]
      /\ drained' = drained \cup {d}
      /\ healthy' = healthy /\ grants' = grants
    BY DEF Drain
<1>4. ~healthy[d] BY DEF Drain, At, SchedulerInv, CallsOK, FrameOK
<1>5. /\ allocated' \in [Devices -> Nat]
      /\ \A e \in Devices : allocated'[e] = IF e = d THEN 0 ELSE allocated[e]
    BY <1>1, <1>2, <1>3
<1>6. WithinCapacity'
  <2>1. \A e \in Devices : allocated[e] <= Total[e] BY <1>2 DEF WithinCapacity
  <2>2. \A e \in Devices : Total[e] \in Nat BY Sizing
  <2> QED BY <1>5, <2>1, <2>2 DEF WithinCapacity
<1>7. FailedStaysEmpty' BY <1>2, <1>3, <1>5 DEF FailedStaysEmpty
<1> QED BY <1>1, <1>2, <1>3, <1>4, <1>5, <1>6, <1>7

-------------------------------------------------------------------------------
(* The pool and the calls                                                  *)

\* Handles stay handles when tokens are added.
LEMMA PoolGrows ==
  ASSUME PoolOK, NEW n \in Nat, n >= Len(grants), Len(grants) \in Nat
  PROVE  /\ avail \in Seq(1..n) /\ all \in Seq(1..n) /\ free \subseteq 1..n
         /\ tokens \in [Threads -> SUBSET (1..n)]
         /\ leased \in [Threads -> SUBSET (1..n)]
<1>1. 1..Len(grants) \subseteq 1..n OBVIOUS
<1>2. avail \in Seq(1..n) /\ all \in Seq(1..n) BY <1>1 DEF PoolOK
<1> QED BY <1>1, <1>2 DEF PoolOK

\* The calls of the other threads are as they were.
LEMMA OneCall ==
  ASSUME CallsOK, NEW t \in Threads, NEW f, frame' = [frame EXCEPT ![t] = f],
         Len(grants) \in Nat, Len(grants') \in Nat, Len(grants') >= Len(grants),
         \A d \in Devices : ~healthy[d] => ~healthy'[d],
         f \in Frames, f.handle <= Len(grants'),
         f.at = "decided" => f.device \in Devices /\ f.mb > 0,
         f.at = "drain" => f.device \in Devices /\ ~healthy'[f.device],
         f.at \in {"put", "admit", "queue", "retire", "remove"} => f.handle > 0
  PROVE  CallsOK'
<1>1. frame' \in [Threads -> Frames] BY DEF CallsOK
<1>2. ASSUME NEW u \in Threads PROVE FrameOK(frame[u])'
  <2>1. CASE u = t BY <2>1 DEF CallsOK, FrameOK
  <2>2. CASE u # t
    <3>1. frame'[u] = frame[u] /\ FrameOK(frame[u]) BY <2>2 DEF CallsOK
    <3>2. frame[u] \in Frames /\ frame[u].handle \in Nat BY <3>1 DEF FrameOK, Frames
    <3> QED BY <3>1, <3>2 DEF FrameOK
  <2> QED BY <2>1, <2>2
<1> QED BY <1>1, <1>2 DEF CallsOK

LEMMA IdleFrame ==
  /\ Idle \in Frames /\ Idle.at = "idle" /\ Idle.handle = 0
  /\ \A p \in Places, h \in Nat :
       /\ WithHandle(p, h) \in Frames
       /\ WithHandle(p, h).at = p /\ WithHandle(p, h).handle = h
  /\ \A p \in Places, d \in Devices, mb \in Nat :
       /\ WithDevice(p, d, mb) \in Frames
       /\ WithDevice(p, d, mb).at = p /\ WithDevice(p, d, mb).handle = 0
       /\ WithDevice(p, d, mb).device = d /\ WithDevice(p, d, mb).mb = mb
BY DEF Idle, WithHandle, WithDevice, Frames, Places

\* A step that leaves the ledger alone and does not add a token.
LEMMA LedgerKept ==
  ASSUME SchedulerInv, UNCHANGED <<ledger, drained>>
  PROVE  /\ LedgerOK' /\ Len(grants) \in Nat /\ Len(grants') = Len(grants)
         /\ grants' = grants /\ healthy' = healthy
BY DEF SchedulerInv, LedgerOK, ledger, WithinCapacity, FailedStaysEmpty

LEMMA PoolKept ==
  ASSUME SchedulerInv, UNCHANGED <<pool, callers>>, grants' = grants
  PROVE  PoolOK'
BY DEF SchedulerInv, PoolOK, pool, callers

\* A thread that enters a frame which is right, or returns.
LEMMA EnterOK ==
  ASSUME SchedulerInv, NEW t \in Threads, NEW f, Enter(t, f),
         Len(grants') \in Nat, Len(grants') >= Len(grants),
         \A d \in Devices : ~healthy[d] => ~healthy'[d],
         f \in Frames, f.handle <= Len(grants'),
         f.at = "decided" => f.device \in Devices /\ f.mb > 0,
         f.at = "drain" => f.device \in Devices /\ ~healthy'[f.device],
         f.at \in {"put", "admit", "queue", "retire", "remove"} => f.handle > 0
  PROVE  CallsOK'
<1>1. frame' = [frame EXCEPT ![t] = f] BY DEF Enter
<1>2. CallsOK /\ Len(grants) \in Nat BY DEF SchedulerInv, LedgerOK
<1> QED BY <1>1, <1>2, OneCall

LEMMA ReturnOK ==
  ASSUME SchedulerInv, NEW t \in Threads, Return(t),
         Len(grants) \in Nat, Len(grants') \in Nat, Len(grants') >= Len(grants),
         healthy' = healthy
  PROVE  CallsOK'
<1>1. Enter(t, Idle) /\ \A d \in Devices : ~healthy[d] => ~healthy'[d] BY DEF Return
<1>2. Idle \in Frames /\ Idle.at = "idle" /\ Idle.handle = 0 BY IdleFrame
<1> HIDE DEF Idle
<1> QED BY <1>1, <1>2, EnterOK

-------------------------------------------------------------------------------
(* One lemma per method                                                    *)

LEMMA RequestInv ==
  ASSUME SchedulerInv, NEW t \in Threads,
         (\E mb \in Sizes : Request(t, mb)) \/ AllocateRaises(t)
  PROVE  SchedulerInv'
<1>1. /\ UNCHANGED <<ledger, drained>> /\ UNCHANGED <<pool, callers>>
    BY DEF Request, AllocateRaises
<1>2. LedgerOK' /\ PoolOK' BY <1>1, LedgerKept, PoolKept
<1>3. ASSUME AllocateRaises(t) PROVE CallsOK'
    BY <1>1, <1>3, LedgerKept, ReturnOK DEF AllocateRaises
<1>4. ASSUME NEW mb \in Sizes, Request(t, mb) PROVE CallsOK'
  <2>1. PICK d \in Devices : Enter(t, WithDevice("decided", d, mb)) BY <1>4 DEF Request
  <2>2. mb \in Nat \ {0} BY SchedulerAssumption
  <2>3. /\ WithDevice("decided", d, mb) \in Frames
        /\ WithDevice("decided", d, mb).at = "decided"
        /\ WithDevice("decided", d, mb).device = d /\ WithDevice("decided", d, mb).mb = mb
        /\ WithDevice("decided", d, mb).handle = 0
      BY <2>2, IdleFrame DEF Places
  <2>4. Len(grants) \in Nat /\ grants' = grants /\ healthy' = healthy BY <1>1, LedgerKept
  <2> QED BY <2>1, <2>2, <2>3, <2>4, EnterOK
<1> QED BY <1>2, <1>3, <1>4 DEF SchedulerInv

LEMMA AllocateInv ==
  ASSUME SchedulerInv, NEW t \in Threads, Allocate(t)
  PROVE  SchedulerInv'
<1>1. /\ frame[t].device \in Devices /\ frame[t].mb \in Nat \ {0}
      /\ Fits(frame[t].mb, frame[t].device) /\ Grant(frame[t].mb, frame[t].device)
      /\ Return(t) /\ tokens' = [tokens EXCEPT ![t] = @ \cup {NextToken}]
      /\ UNCHANGED <<pool, leased, drained>>
    BY DEF Allocate, At, SchedulerInv, CallsOK, FrameOK, Frames
<1>2. /\ LedgerOK' /\ Len(grants') = Len(grants) + 1 /\ NextToken \in 1..Len(grants')
    BY <1>1, GrantInv DEF SchedulerInv
<1>3. Len(grants) \in Nat BY DEF SchedulerInv, LedgerOK
<1>4. PoolOK' BY <1>1, <1>2, <1>3, PoolGrows DEF SchedulerInv, PoolOK, pool
<1>5. CallsOK' BY <1>1, <1>2, <1>3, ReturnOK DEF Grant
<1> QED BY <1>2, <1>4, <1>5 DEF SchedulerInv

LEMMA ReleaseAllocationInv ==
  ASSUME SchedulerInv, NEW t \in Threads, NEW k \in tokens[t], ReleaseAllocation(t, k)
  PROVE  SchedulerInv'
<1>1. k \in Nat BY DEF SchedulerInv, PoolOK
<1>2. LedgerOK' /\ grants' = grants
    BY <1>1, ReleaseInv DEF ReleaseAllocation, SchedulerInv
<1>3. PoolOK' BY <1>2 DEF ReleaseAllocation, SchedulerInv, PoolOK, pool
<1>4. CallsOK'
    BY <1>2 DEF ReleaseAllocation, Release, SchedulerInv, CallsOK, FrameOK
<1> QED BY <1>2, <1>3, <1>4 DEF SchedulerInv

LEMMA AcquireInv ==
  ASSUME SchedulerInv, NEW t \in Threads, Acquire(t)
  PROVE  SchedulerInv'
<1>1. LedgerOK' /\ grants' = grants /\ healthy' = healthy BY LedgerKept DEF Acquire
<1>2. Tail(avail) \in Seq(1..Len(grants)) /\ Head(avail) \in 1..Len(grants)
    BY DEF Acquire, SchedulerInv, PoolOK
<1>3. PoolOK' BY <1>1, <1>2 DEF Acquire, SchedulerInv, PoolOK
<1>4. CallsOK' BY <1>1 DEF Acquire, SchedulerInv, CallsOK, FrameOK
<1> QED BY <1>1, <1>3, <1>4 DEF SchedulerInv

LEMMA ReleaseModelInv ==
  ASSUME SchedulerInv, NEW t \in Threads, NEW h \in leased[t], ReleaseModel(t, h)
  PROVE  SchedulerInv'
<1>1. h \in 1..Len(grants) BY DEF SchedulerInv, PoolOK
<1>2. LedgerOK' /\ grants' = grants /\ healthy' = healthy /\ Len(grants) \in Nat
    BY LedgerKept DEF ReleaseModel
<1>3. PoolOK' BY <1>2 DEF ReleaseModel, SchedulerInv, PoolOK, pool
<1>4. ASSUME Return(t) PROVE CallsOK' BY <1>2, <1>4, ReturnOK
<1>5. ASSUME Enter(t, WithHandle("put", h)) PROVE CallsOK'
  <2>1. /\ WithHandle("put", h) \in Frames
        /\ WithHandle("put", h).at = "put" /\ WithHandle("put", h).handle = h
      BY <1>1, IdleFrame DEF Places
  <2> QED BY <1>1, <1>2, <1>5, <2>1, EnterOK
<1> QED BY <1>2, <1>3, <1>4, <1>5 DEF ReleaseModel, SchedulerInv

LEMMA PutBackInv ==
  ASSUME SchedulerInv, NEW t \in Threads, PutBack(t)
  PROVE  SchedulerInv'
<1>1. LedgerOK' /\ grants' = grants /\ healthy' = healthy /\ Len(grants) \in Nat
    BY LedgerKept DEF PutBack
<1>2. frame[t].handle \in 1..Len(grants)
    BY DEF PutBack, At, SchedulerInv, CallsOK, FrameOK, Frames
<1>3. PoolOK'
  <2>1. PoolOK BY DEF SchedulerInv
  <2>2. avail' \in Seq(1..Len(grants)) BY <1>2, <2>1 DEF PutBack, PoolOK
  <2> QED BY <1>1, <1>2, <2>1, <2>2 DEF PutBack, PoolOK, callers
<1>4. CallsOK' BY <1>1, ReturnOK DEF PutBack
<1> QED BY <1>1, <1>3, <1>4 DEF SchedulerInv

LEMMA WarmInv ==
  ASSUME SchedulerInv, NEW t \in Threads, Warm(t)
  PROVE  SchedulerInv'
<1>1. /\ PoolNeed \in Nat \ {0} /\ PoolDevices[1] \in Devices BY Sizing
<1>2. /\ LedgerOK' /\ Len(grants') = Len(grants) + 1 /\ NextToken \in 1..Len(grants')
    BY <1>1, GrantInv DEF Warm, SchedulerInv
<1>3. Len(grants) \in Nat BY DEF SchedulerInv, LedgerOK
<1>4. PoolOK' BY <1>2, <1>3, PoolGrows DEF Warm, SchedulerInv, PoolOK, pool, callers
<1>5. CallsOK'
  <2>1. /\ WithHandle("admit", NextToken) \in Frames
        /\ WithHandle("admit", NextToken).at = "admit" /\ WithHandle("admit", NextToken).handle = NextToken
      BY <1>2, IdleFrame DEF Places
  <2>2. Enter(t, WithHandle("admit", NextToken)) /\ healthy' = healthy BY DEF Warm, Grant
  <2> QED BY <1>2, <1>3, <2>1, <2>2, EnterOK
<1> QED BY <1>2, <1>4, <1>5 DEF SchedulerInv

\* A step within a call that keeps its locals.
LEMMA ContinueOK ==
  ASSUME SchedulerInv, NEW t \in Threads, NEW p \in {"queue", "pick", "remove"},
         Continue(t, p), frame[t].handle > 0, grants' = grants, healthy' = healthy
  PROVE  CallsOK'
<1> DEFINE f == [frame[t] EXCEPT !.at = p]
<1>1. /\ frame[t] \in Frames /\ frame[t].handle <= Len(grants) /\ Len(grants) \in Nat
    BY DEF SchedulerInv, CallsOK, FrameOK, LedgerOK
<1>2. /\ f \in Frames /\ f.at = p /\ f.handle = frame[t].handle
    BY <1>1 DEF Frames, Places
<1>3. Enter(t, f) BY DEF Continue, Enter
<1> HIDE DEF f
<1> QED BY <1>1, <1>2, <1>3, EnterOK

LEMMA AdmitInv ==
  ASSUME SchedulerInv, NEW t \in Threads,
         Admit(t) \/ (\E retire_old \in BOOLEAN : QueueNew(t, retire_old))
  PROVE  SchedulerInv'
<1>1. UNCHANGED <<ledger, drained>> BY DEF Admit, QueueNew
<1>2. LedgerOK' /\ grants' = grants /\ healthy' = healthy /\ Len(grants) \in Nat
    BY <1>1, LedgerKept
<1>3. frame[t].handle \in 1..Len(grants)
    BY DEF Admit, QueueNew, At, SchedulerInv, CallsOK, FrameOK, Frames
<1>4. PoolOK'
  <2>1. PoolOK BY DEF SchedulerInv
  <2>2. Append(all, frame[t].handle) \in Seq(1..Len(grants))
        /\ Append(avail, frame[t].handle) \in Seq(1..Len(grants))
      BY <1>3, <2>1 DEF PoolOK
  <2>3. /\ all' \in {all, Append(all, frame[t].handle)}
        /\ avail' \in {avail, Append(avail, frame[t].handle)}
        /\ UNCHANGED <<free, callers>>
      BY DEF Admit, QueueNew
  <2> QED BY <1>2, <2>1, <2>2, <2>3 DEF PoolOK, callers
<1>5. ASSUME Continue(t, "queue") \/ Continue(t, "pick") PROVE CallsOK'
    BY <1>2, <1>3, <1>5, ContinueOK
<1>6. ASSUME Return(t) PROVE CallsOK' BY <1>2, <1>6, ReturnOK
<1> QED BY <1>2, <1>4, <1>5, <1>6 DEF Admit, QueueNew, SchedulerInv

LEMMA PickOldInv ==
  ASSUME SchedulerInv, NEW t \in Threads, PickOld(t)
  PROVE  SchedulerInv'
<1>1. /\ UNCHANGED <<ledger, drained>> /\ UNCHANGED <<pool, callers>> BY DEF PickOld
<1>2. LedgerOK' /\ PoolOK' /\ grants' = grants /\ healthy' = healthy /\ Len(grants) \in Nat
    BY <1>1, LedgerKept, PoolKept
<1>3. ASSUME Return(t) PROVE CallsOK' BY <1>2, <1>3, ReturnOK
<1>4. ASSUME all # <<>>, Enter(t, WithHandle("retire", Head(all))) PROVE CallsOK'
  <2>1. Head(all) \in 1..Len(grants) BY <1>4 DEF SchedulerInv, PoolOK
  <2>2. /\ WithHandle("retire", Head(all)) \in Frames
        /\ WithHandle("retire", Head(all)).at = "retire" /\ WithHandle("retire", Head(all)).handle = Head(all)
      BY <2>1, IdleFrame DEF Places
  <2> QED BY <1>2, <1>4, <2>1, <2>2, EnterOK
<1> QED BY <1>2, <1>3, <1>4 DEF PickOld, SchedulerInv

LEMMA RetireOldInv ==
  ASSUME SchedulerInv, NEW t \in Threads, RetireOld(t)
  PROVE  SchedulerInv'
<1>1. frame[t].handle \in Nat /\ frame[t].handle > 0
    BY DEF RetireOld, At, SchedulerInv, CallsOK, FrameOK, Frames
<1>2. LedgerOK' /\ grants' = grants BY <1>1, ReleaseInv DEF RetireOld, SchedulerInv
<1>3. PoolOK' BY <1>2, PoolKept DEF RetireOld
<1>4. CallsOK' BY <1>1, <1>2, ContinueOK DEF RetireOld, Release
<1> QED BY <1>2, <1>3, <1>4 DEF SchedulerInv

LEMMA RemoveOldInv ==
  ASSUME SchedulerInv, NEW t \in Threads, RemoveOld(t)
  PROVE  SchedulerInv'
<1>1. LedgerOK' /\ grants' = grants /\ healthy' = healthy /\ Len(grants) \in Nat
    BY LedgerKept DEF RemoveOld
<1>2. all' \in Seq(1..Len(grants))
  <2>1. all \in Seq(1..Len(grants)) BY DEF SchedulerInv, PoolOK
  <2>2. ASSUME NEW i \in DOMAIN all PROVE RemoveAt(all, i) \in Seq(1..Len(grants))
      BY <2>1 DEF RemoveAt
  <2> QED BY <2>1, <2>2 DEF RemoveOld
<1>3. PoolOK' BY <1>1, <1>2 DEF RemoveOld, SchedulerInv, PoolOK, callers
<1>4. CallsOK' BY <1>1, ReturnOK DEF RemoveOld
<1> QED BY <1>1, <1>3, <1>4 DEF SchedulerInv

LEMMA MarkFailedInv ==
  ASSUME SchedulerInv, NEW t \in Threads, NEW d \in Devices, MarkFailed(t, d)
  PROVE  SchedulerInv'
<1>1. LedgerOK' BY DEF MarkFailed, SchedulerInv, LedgerOK, WithinCapacity, FailedStaysEmpty
<1>2. PoolOK' BY PoolKept DEF MarkFailed
<1>3. CallsOK'
  <2>1. /\ ~healthy'[d] /\ (\A e \in Devices : ~healthy[e] => ~healthy'[e])
        /\ Len(grants) \in Nat /\ grants' = grants
      BY DEF MarkFailed, SchedulerInv, LedgerOK
  <2>2. /\ WithDevice("drain", d, 0) \in Frames
        /\ WithDevice("drain", d, 0).at = "drain" /\ WithDevice("drain", d, 0).device = d
        /\ WithDevice("drain", d, 0).handle = 0
      BY IdleFrame DEF Places
  <2>3. Enter(t, WithDevice("drain", d, 0)) BY DEF MarkFailed
  <2> QED BY <2>1, <2>2, <2>3, EnterOK
<1> QED BY <1>1, <1>2, <1>3 DEF SchedulerInv

LEMMA DrainStepInv ==
  ASSUME SchedulerInv, NEW t \in Threads, Drain(t)
  PROVE  SchedulerInv'
<1>1. LedgerOK' BY DrainInv
<1>2. PoolOK' BY PoolKept DEF Drain
<1>3. CallsOK' BY ReturnOK DEF Drain, SchedulerInv, LedgerOK
<1> QED BY <1>1, <1>2, <1>3 DEF SchedulerInv

-------------------------------------------------------------------------------
LEMMA SchedulerInitInv == Init => SchedulerInv
<1> SUFFICES ASSUME Init PROVE SchedulerInv
    OBVIOUS
<1> USE SchedulerAssumption DEF Init
<1>1. \A i \in 1..PoolSize : SlotDevice(i) \in Devices
  <2> TAKE i \in 1..PoolSize
  <2> DEFINE n == Len(PoolDevices)
  <2>1. n \in Nat \ {0} /\ PoolDevices \in [1..n -> Devices] BY DEF SlotDevice
  <2>2. i - 1 \in Nat OBVIOUS
  <2>3. (i - 1) % n \in 0..(n - 1) BY <2>1, <2>2
  <2> HIDE DEF n
  <2>4. ((i - 1) % n) + 1 \in 1..n BY <2>1, <2>3
  <2> QED BY <2>1, <2>4 DEF SlotDevice, n
<1>2. /\ grants \in Seq(Grants) /\ Len(grants) = PoolSize BY <1>1 DEF Grants
<1>3. ASSUME NEW d \in Devices
      PROVE  PoolNeed * Cardinality({i \in 1..PoolSize : SlotDevice(i) = d}) \in Nat
  <2> DEFINE S == {i \in 1..PoolSize : SlotDevice(i) = d}
  <2>1. IsFiniteSet(1..PoolSize) BY FS_Interval
  <2>2. Cardinality(S) \in Nat BY <2>1, FS_Subset, FS_CardinalityType
  <2>3. \A c \in Nat : PoolNeed * c \in Nat OBVIOUS
  <2> QED BY <2>2, <2>3
<1>4. allocated \in [Devices -> Nat] BY <1>3
<1>5. WithinCapacity BY DEF WithinCapacity
<1>6. LedgerOK BY <1>2, <1>4, <1>5 DEF LedgerOK, FailedStaysEmpty
<1>7. PoolOK BY <1>2 DEF PoolOK
<1>8. CallsOK BY <1>2, IdleFrame DEF CallsOK, FrameOK
<1> QED BY <1>6, <1>7, <1>8 DEF SchedulerInv

LEMMA SchedulerStepInv == SchedulerInv /\ [Next]_vars => SchedulerInv'
<1> SUFFICES ASSUME SchedulerInv, [Next]_vars PROVE SchedulerInv'
    OBVIOUS
<1>1. ASSUME NEW t \in Threads, Step(t) PROVE SchedulerInv'
    BY <1>1, RequestInv, AllocateInv, ReleaseAllocationInv, AcquireInv, ReleaseModelInv,
       PutBackInv, WarmInv, AdmitInv, PickOldInv, RetireOldInv, RemoveOldInv,
       MarkFailedInv, DrainStepInv DEF Step
<1>2. CASE UNCHANGED vars
  <2>1. /\ UNCHANGED <<ledger, drained>> /\ UNCHANGED <<pool, callers>> /\ frame' = frame
      BY <1>2 DEF vars
  <2>2. LedgerOK' /\ PoolOK' BY <2>1, LedgerKept, PoolKept
  <2>3. CallsOK' BY <2>1, LedgerKept DEF SchedulerInv, CallsOK, FrameOK
  <2> QED BY <2>2, <2>3 DEF SchedulerInv
<1> QED BY <1>1, <1>2 DEF Next

(* The inductive invariant holds of every behaviour, and the types with it.*)
THEOREM SchedulerInvariant == Spec => []SchedulerInv
<1> QED BY SchedulerInitInv, SchedulerStepInv, PTL DEF Spec

(* Totals stay natural numbers and every handle is an issued token.        *)
THEOREM SchedulerTypes == Spec => []SchedulerTypeOK
<1> QED BY SchedulerInvariant, InvTypes, PTL

(* RI-8: no device is ever asked for more than it has.                     *)
THEOREM OutOfMemoryIsImpossible == Spec => []WithinCapacity
<1>1. SchedulerInv => WithinCapacity BY DEF SchedulerInv, LedgerOK
<1> QED BY <1>1, SchedulerInvariant, PTL

(* GPU-2: a failed device, once drained, is never used again.              *)
THEOREM FailedDevicesStayEmpty == Spec => []FailedStaysEmpty
<1>1. SchedulerInv => FailedStaysEmpty BY DEF SchedulerInv, LedgerOK
<1> QED BY <1>1, SchedulerInvariant, PTL

-------------------------------------------------------------------------------
\* What is left of a list when the element at i is taken off.
LEMMA RemoveAtElements ==
  ASSUME NEW S, NEW s \in Seq(S), NEW i \in 1..Len(s)
  PROVE  /\ RemoveAt(s, i) \in Seq(S) /\ Len(RemoveAt(s, i)) = Len(s) - 1
         /\ \A j \in 1..(Len(s) - 1) : RemoveAt(s, i)[j] = IF j < i THEN s[j] ELSE s[j + 1]
<1> DEFINE a == SubSeq(s, 1, i - 1)
           b == SubSeq(s, i + 1, Len(s))
<1>1. a \in Seq(S) /\ Len(a) = i - 1 /\ \A j \in 1..(i - 1) : a[j] = s[j] OBVIOUS
<1>2. /\ b \in Seq(S) /\ Len(b) = Len(s) - i
      /\ \A j \in 1..(Len(s) - i) : b[j] = s[i + j]
    OBVIOUS
<1>3. RemoveAt(s, i) = a \o b BY DEF RemoveAt
<1> HIDE DEF a, b
<1>4. /\ a \o b \in Seq(S) /\ Len(a \o b) = Len(a) + Len(b)
      /\ \A j \in 1..(Len(a) + Len(b)) : (a \o b)[j] = IF j <= Len(a) THEN a[j] ELSE b[j - Len(a)]
    BY <1>1, <1>2, ConcatProperties
<1>5. ASSUME NEW j \in 1..(Len(s) - 1)
      PROVE  (a \o b)[j] = IF j < i THEN s[j] ELSE s[j + 1]
  <2>1. CASE j < i
    <3>1. j \in 1..(i - 1) /\ j \in 1..(Len(a) + Len(b)) /\ j <= Len(a) BY <1>1, <1>2, <2>1
    <3> QED BY <1>1, <1>4, <2>1, <3>1
  <2>2. CASE j >= i
    <3>1. /\ j \in 1..(Len(a) + Len(b)) /\ ~(j <= Len(a)) /\ j - Len(a) \in 1..(Len(s) - i)
          /\ i + (j - Len(a)) = j + 1
        BY <1>1, <1>2, <2>2
    <3>2. (a \o b)[j] = b[j - Len(a)] BY <1>4, <3>1
    <3>3. b[j - Len(a)] = s[j + 1] BY <1>2, <3>1
    <3> QED BY <2>2, <3>2, <3>3
  <2>3. j < i \/ j >= i OBVIOUS
  <2> QED BY <2>1, <2>2, <2>3
<1> QED BY <1>1, <1>2, <1>3, <1>4, <1>5

-------------------------------------------------------------------------------
(* Warm before admit.  Every call that may still take an instance off the  *)
(* list has added one first, so the list is longer than the pool was built *)
(* by at least the number of such calls.                                   *)
RetiringPlaces == {"queue", "pick", "retire", "remove"}
Retirers == {t \in Threads : frame[t].at \in RetiringPlaces}

Margin ==
  /\ all \in Seq(1..Len(grants))
  /\ frame \in [Threads -> Frames]
  /\ IsFiniteSet(Retirers)
  /\ Len(all) >= PoolSize + Cardinality(Retirers)

\* A thread at its new place is the only one whose place changed.
LEMMA PlaceChanges ==
  ASSUME frame \in [Threads -> Frames], NEW t \in Threads, NEW f, Enter(t, f)
  PROVE  Retirers' = IF f.at \in RetiringPlaces THEN Retirers \cup {t} ELSE Retirers \ {t}
BY DEF Enter, Retirers

\* A call that ends, or waits for another place outside a retirement.
LEMMA MarginLeft ==
  ASSUME Margin, NEW t \in Threads, NEW f, Enter(t, f), f.at \notin RetiringPlaces, all' = all
  PROVE  IsFiniteSet(Retirers)' /\ (Len(all) >= PoolSize + Cardinality(Retirers))'
<1>1. Retirers' = Retirers \ {t} BY PlaceChanges DEF Margin
<1>2. /\ IsFiniteSet(Retirers \ {t})
      /\ Cardinality(Retirers \ {t}) = IF t \in Retirers THEN Cardinality(Retirers) - 1
                                                         ELSE Cardinality(Retirers)
    BY FS_RemoveElement DEF Margin
<1>3. Cardinality(Retirers) \in Nat /\ Len(all) \in Nat /\ PoolSize \in Nat
    BY FS_CardinalityType, SchedulerAssumption DEF Margin
<1> QED BY <1>1, <1>2, <1>3 DEF Margin

\* A call that goes on with its retirement.
LEMMA MarginKept ==
  ASSUME Margin, NEW t \in Retirers, NEW f, Enter(t, f), f.at \in RetiringPlaces, all' = all
  PROVE  IsFiniteSet(Retirers)' /\ (Len(all) >= PoolSize + Cardinality(Retirers))'
<1>1. t \in Threads BY DEF Retirers
<1>2. Retirers' = Retirers BY <1>1, PlaceChanges DEF Margin
<1> QED BY <1>2 DEF Margin

LEMMA MarginAdmit ==
  ASSUME Margin, NEW t \in Threads, Admit(t)
  PROVE  IsFiniteSet(Retirers)' /\ (Len(all) >= PoolSize + Cardinality(Retirers))'
<1> DEFINE f == [frame[t] EXCEPT !.at = "queue"]
<1>1. frame[t] \in Frames BY DEF Margin
<1>2. Enter(t, f) /\ f.at = "queue" BY <1>1 DEF Admit, Continue, Enter, Frames
<1> HIDE DEF f
<1>3. Retirers' = Retirers \cup {t} BY <1>2, PlaceChanges DEF Margin, RetiringPlaces
<1>4. t \notin Retirers BY DEF Admit, At, Retirers, RetiringPlaces
<1>5. IsFiniteSet(Retirers \cup {t}) /\ Cardinality(Retirers \cup {t}) = Cardinality(Retirers) + 1
    BY <1>4, FS_AddElement DEF Margin
<1>6. Len(all') = Len(all) + 1 BY DEF Admit, Margin
<1>7. Cardinality(Retirers) \in Nat /\ Len(all) \in Nat /\ PoolSize \in Nat
    BY FS_CardinalityType, SchedulerAssumption DEF Margin
<1> QED BY <1>3, <1>5, <1>6, <1>7 DEF Margin

LEMMA MarginRemove ==
  ASSUME Margin, NEW t \in Threads, RemoveOld(t)
  PROVE  IsFiniteSet(Retirers)' /\ (Len(all) >= PoolSize + Cardinality(Retirers))'
<1>1. Enter(t, Idle) /\ Idle.at = "idle" BY IdleFrame DEF RemoveOld, Return
<1> HIDE DEF Idle
<1>2. Retirers' = Retirers \ {t} BY <1>1, PlaceChanges DEF Margin, RetiringPlaces
<1>3. t \in Retirers BY DEF RemoveOld, At, Retirers, RetiringPlaces
<1>4. IsFiniteSet(Retirers \ {t}) /\ Cardinality(Retirers \ {t}) = Cardinality(Retirers) - 1
    BY <1>3, FS_RemoveElement DEF Margin
<1>5. Len(all') >= Len(all) - 1 /\ Len(all) \in Nat /\ Len(all') \in Nat
  <2>1. \A i \in DOMAIN all : Len(RemoveAt(all, i)) = Len(all) - 1
      BY RemoveAtElements DEF Margin
  <2>2. Len(all) \in Nat BY DEF Margin
  <2>3. all' = all \/ \E i \in DOMAIN all : all' = RemoveAt(all, i) BY DEF RemoveOld
  <2>4. \A i \in DOMAIN all : Len(all) - 1 \in Nat BY <2>2 DEF Margin
  <2> QED BY <2>1, <2>2, <2>3, <2>4
<1>6. Cardinality(Retirers) \in Nat /\ PoolSize \in Nat
    BY FS_CardinalityType, SchedulerAssumption DEF Margin
<1> QED BY <1>2, <1>4, <1>5, <1>6 DEF Margin

LEMMA MarginInit == Init => Margin
<1> SUFFICES ASSUME Init PROVE Margin
    OBVIOUS
<1>1. SchedulerInv BY SchedulerInitInv
<1>2. Retirers = {} BY IdleFrame DEF Init, Retirers, RetiringPlaces
<1>3. Len(all) = PoolSize /\ PoolSize \in Nat BY SchedulerAssumption DEF Init
<1> QED BY <1>1, <1>2, <1>3, FS_EmptySet DEF Margin, SchedulerInv, PoolOK, CallsOK

LEMMA MarginStep == SchedulerInv /\ SchedulerInv' /\ Margin /\ [Next]_vars => Margin'
<1> SUFFICES ASSUME SchedulerInv, SchedulerInv', Margin, [Next]_vars
             PROVE  IsFiniteSet(Retirers)' /\ (Len(all) >= PoolSize + Cardinality(Retirers))'
    BY DEF Margin, SchedulerInv, PoolOK, CallsOK
<1>1. ASSUME NEW t \in Threads, Step(t)
      PROVE  IsFiniteSet(Retirers)' /\ (Len(all) >= PoolSize + Cardinality(Retirers))'
  <2>1. ASSUME all' = all, frame' = frame
        PROVE  IsFiniteSet(Retirers)' /\ (Len(all) >= PoolSize + Cardinality(Retirers))'
    <3>1. Retirers' = Retirers BY <2>1 DEF Retirers
    <3> QED BY <2>1, <3>1 DEF Margin
  <2>2. ASSUME all' = all, Return(t)
        PROVE  IsFiniteSet(Retirers)' /\ (Len(all) >= PoolSize + Cardinality(Retirers))'
    <3>1. Enter(t, Idle) /\ Idle.at \notin RetiringPlaces
        BY <2>2, IdleFrame DEF Return, RetiringPlaces
    <3> HIDE DEF Idle
    <3> QED BY <2>2, <3>1, MarginLeft
  <2>3. ASSUME NEW p \in {"queue", "pick", "remove"}, all' = all, t \in Retirers, Continue(t, p)
        PROVE  IsFiniteSet(Retirers)' /\ (Len(all) >= PoolSize + Cardinality(Retirers))'
    <3> DEFINE f == [frame[t] EXCEPT !.at = p]
    <3>1. frame[t] \in Frames BY DEF Margin
    <3>2. Enter(t, f) /\ f.at \in RetiringPlaces
        BY <2>3, <3>1 DEF Continue, Enter, Frames, RetiringPlaces
    <3> HIDE DEF f
    <3> QED BY <2>3, <3>2, MarginKept
  <2>4. CASE \E mb \in Sizes : Request(t, mb)
    <3>1. PICK mb \in Sizes, d \in Devices : Enter(t, WithDevice("decided", d, mb))
        BY <2>4 DEF Request
    <3>2. mb \in Nat BY SchedulerAssumption
    <3>3. WithDevice("decided", d, mb).at = "decided" BY <3>2, IdleFrame DEF Places
    <3> QED BY <2>4, <3>1, <3>3, MarginLeft DEF Request, pool, RetiringPlaces
  <2>5. CASE \/ Allocate(t) \/ AllocateRaises(t) \/ PutBack(t) \/ Drain(t)
      BY <2>2, <2>5 DEF Allocate, AllocateRaises, PutBack, Drain, pool
  <2>6. CASE (\E k \in tokens[t] : ReleaseAllocation(t, k)) \/ Acquire(t)
      BY <2>1, <2>6 DEF ReleaseAllocation, Acquire, pool
  <2>7. CASE \E h \in leased[t] : ReleaseModel(t, h)
    <3>1. PICK h \in leased[t] : ReleaseModel(t, h) BY <2>7
    <3>2. h \in Nat BY DEF SchedulerInv, PoolOK
    <3>3. WithHandle("put", h).at = "put" BY <3>2, IdleFrame DEF Places
    <3>4. all' = all BY <3>1 DEF ReleaseModel, pool
    <3> QED BY <2>2, <3>1, <3>3, <3>4, MarginLeft DEF ReleaseModel, RetiringPlaces
  <2>8. CASE Warm(t)
    <3>1. NextToken \in Nat BY DEF NextToken, SchedulerInv, LedgerOK
    <3>2. WithHandle("admit", NextToken).at = "admit" BY <3>1, IdleFrame DEF Places
    <3> QED BY <2>8, <3>2, MarginLeft DEF Warm, pool, RetiringPlaces
  <2>9. CASE \E retire_old \in BOOLEAN : QueueNew(t, retire_old)
    <3>1. all' = all /\ (Continue(t, "pick") \/ Return(t)) BY <2>9 DEF QueueNew
    <3>2. t \in Retirers BY <2>9 DEF QueueNew, At, Retirers, RetiringPlaces
    <3> QED BY <2>2, <2>3, <3>1, <3>2
  <2>10. CASE PickOld(t)
    <3>1. t \in Retirers /\ all' = all BY <2>10 DEF PickOld, At, Retirers, RetiringPlaces, pool
    <3>2. ASSUME all # <<>>, Enter(t, WithHandle("retire", Head(all)))
          PROVE  IsFiniteSet(Retirers)' /\ (Len(all) >= PoolSize + Cardinality(Retirers))'
      <4>1. Head(all) \in Nat BY <3>2 DEF Margin
      <4>2. WithHandle("retire", Head(all)).at = "retire" BY <4>1, IdleFrame DEF Places
      <4> QED BY <3>1, <3>2, <4>2, MarginKept DEF RetiringPlaces
    <3> QED BY <2>2, <2>10, <3>1, <3>2 DEF PickOld
  <2>11. CASE RetireOld(t)
      BY <2>3, <2>11 DEF RetireOld, At, Retirers, RetiringPlaces, pool
  <2>12. CASE \E d \in Devices : MarkFailed(t, d)
    <3>1. PICK d \in Devices : MarkFailed(t, d) BY <2>12
    <3>2. WithDevice("drain", d, 0).at = "drain" BY IdleFrame DEF Places
    <3> QED BY <3>1, <3>2, MarginLeft DEF MarkFailed, pool, RetiringPlaces
  <2> QED BY <1>1, <2>4, <2>5, <2>6, <2>7, <2>8, <2>9, <2>10, <2>11, <2>12,
             MarginAdmit, MarginRemove DEF Step
<1>2. CASE UNCHANGED vars
  <2>1. all' = all /\ Retirers' = Retirers BY <1>2 DEF vars, pool, Retirers
  <2> QED BY <2>1 DEF Margin
<1> QED BY <1>1, <1>2 DEF Next

(* GPU-1: any number of concurrent scale-ups that retire the oldest leave  *)
(* at least as many instances listed as the pool was built with.           *)
THEOREM PoolKeepsItsSize == Spec => []PoolNeverShrinks
<1>1. Margin => PoolNeverShrinks
  <2> SUFFICES ASSUME Margin PROVE PoolNeverShrinks
      OBVIOUS
  <2>1. Cardinality(Retirers) \in Nat /\ Len(all) \in Nat /\ PoolSize \in Nat
      BY FS_CardinalityType, SchedulerAssumption DEF Margin
  <2> QED BY <2>1 DEF Margin, PoolNeverShrinks
<1> QED BY <1>1, MarginInit, MarginStep, SchedulerInvariant, PTL DEF Spec

-------------------------------------------------------------------------------
(* What is listed is reserved.  An admitted token belongs to the pool      *)
(* alone: no adapter can release it, and it is released once its           *)
(* retirement has it off the list in the same call.                        *)
Listed(k) == \E i \in DOMAIN all : all[i] = k
Backed(k) == k \in live \/ grants[k].device \in drained
Removing(k) == \E t \in Threads : At(t, "remove") /\ frame[t].handle = k

\* A new instance between its allocation and its admission.
NewcomerOK(t) ==
  /\ ~Listed(frame[t].handle)
  /\ Backed(frame[t].handle)
  /\ \A u \in Threads : At(u, "retire") => frame[u].handle # frame[t].handle
  /\ \A u \in Threads : frame[t].handle \notin tokens[u]
  /\ \A u \in Threads : At(u, "admit") /\ frame[u].handle = frame[t].handle => u = t

Backing ==
  /\ \A i, j \in DOMAIN all : all[i] = all[j] => i = j
  /\ \A t \in Threads : At(t, "admit") => NewcomerOK(t)
  /\ \A t \in Threads : \A k \in tokens[t] : ~Listed(k)
  /\ \A k \in Nat : Listed(k) => Backed(k) \/ Removing(k)

\* A step that brings no newcomer and ends no removal.
Calm ==
  \A u \in Threads :
    /\ At(u, "admit")' => frame'[u] = frame[u]
    /\ At(u, "retire")' => frame'[u] = frame[u] \/ Listed(frame'[u].handle)
    /\ At(u, "remove") => frame'[u] = frame[u]

\* Tokens are only added, and none the pool has is lost but with its device.
TokensKept ==
  /\ drained \subseteq drained'
  /\ \A k \in 1..Len(grants) : grants'[k] = grants[k]
  /\ \A k \in live : Listed(k) \/ (\E u \in Threads : At(u, "admit") /\ frame[u].handle = k)
                     => k \in live' \/ grants[k].device \in drained'
  /\ \A u \in Threads : \A k \in tokens'[u] : k \in tokens[u] \/ k = Len(grants) + 1

LEMMA PoolHandles ==
  ASSUME SchedulerInv
  PROVE  /\ Len(grants) \in Nat /\ all \in Seq(1..Len(grants))
         /\ frame \in [Threads -> Frames] /\ tokens \in [Threads -> SUBSET (1..Len(grants))]
         /\ live \subseteq 1..Len(grants)
         /\ \A t \in Threads : At(t, "admit") => frame[t].handle \in 1..Len(grants)
         /\ \A t \in Threads : frame[t].handle \in 0..Len(grants)
         /\ \A k : Listed(k) => k \in 1..Len(grants)
<1>1. Len(grants) \in Nat /\ all \in Seq(1..Len(grants)) /\ live \subseteq 1..Len(grants)
    BY DEF SchedulerInv, LedgerOK, PoolOK
<1>2. \A t \in Threads : frame[t].handle \in 0..Len(grants)
    BY <1>1 DEF SchedulerInv, CallsOK, FrameOK, Frames
<1>3. \A t \in Threads : At(t, "admit") => frame[t].handle \in 1..Len(grants)
    BY <1>1, <1>2 DEF SchedulerInv, CallsOK, FrameOK, At
<1>4. \A k : Listed(k) => k \in 1..Len(grants) BY <1>1 DEF Listed
<1> QED BY <1>1, <1>2, <1>3, <1>4 DEF SchedulerInv, PoolOK, CallsOK

LEMMA BackingKept ==
  ASSUME SchedulerInv, Backing, Calm, TokensKept, all' = all
  PROVE  Backing'
<1>1. \A k : Listed(k)' = Listed(k) BY DEF Listed
<1>2. ASSUME NEW k, Backed(k),
             Listed(k) \/ (\E u \in Threads : At(u, "admit") /\ frame[u].handle = k)
      PROVE  Backed(k)'
  <2>1. k \in 1..Len(grants) BY <1>2, PoolHandles
  <2> QED BY <1>2, <2>1 DEF Backed, TokensKept
<1>3. ASSUME NEW t \in Threads, At(t, "admit")' PROVE NewcomerOK(t)'
  <2>1. frame'[t] = frame[t] /\ At(t, "admit") BY <1>3 DEF Calm, At
  <2>2. NewcomerOK(t) BY <2>1 DEF Backing
  <2> DEFINE h == frame[t].handle
  <2>3. /\ ~Listed(h)' /\ Backed(h)'
    <3>1. h' = h /\ ~Listed(h) /\ Backed(h) BY <2>1, <2>2 DEF NewcomerOK
    <3>2. \E u \in Threads : At(u, "admit") /\ frame[u].handle = h BY <2>1
    <3> HIDE DEF h
    <3>3. ~Listed(h)' BY <1>1, <3>1 DEF Listed
    <3>4. Backed(h)' BY <1>2, <3>1, <3>2 DEF Backed
    <3> QED BY <3>3, <3>4
  <2>4. ASSUME NEW u \in Threads, At(u, "retire")' PROVE frame'[u].handle # frame'[t].handle
    <3>1. CASE frame'[u] = frame[u] BY <2>1, <2>2, <2>4, <3>1 DEF NewcomerOK, At
    <3>2. CASE Listed(frame'[u].handle) BY <2>1, <2>2, <3>2 DEF NewcomerOK
    <3> QED BY <2>4, <3>1, <3>2 DEF Calm
  <2>5. ASSUME NEW u \in Threads PROVE frame'[t].handle \notin tokens'[u]
    <3>1. frame[t].handle \in 1..Len(grants) /\ Len(grants) \in Nat BY <2>1, PoolHandles
    <3>2. frame[t].handle # Len(grants) + 1 BY <3>1
    <3> QED BY <2>1, <2>2, <3>2 DEF NewcomerOK, TokensKept
  <2>6. ASSUME NEW u \in Threads, At(u, "admit")', frame'[u].handle = frame'[t].handle
        PROVE  u = t
    <3>1. frame'[u] = frame[u] /\ At(u, "admit") BY <2>6 DEF Calm, At
    <3> QED BY <2>1, <2>2, <2>6, <3>1 DEF NewcomerOK
  <2> QED BY <2>3, <2>4, <2>5, <2>6 DEF NewcomerOK
<1>4. ASSUME NEW t \in Threads, NEW k \in tokens'[t] PROVE ~Listed(k)
  <2>1. k \in tokens[t] \/ k = Len(grants) + 1 BY DEF TokensKept
  <2>2. ~Listed(Len(grants) + 1) BY PoolHandles
  <2> QED BY <2>1, <2>2 DEF Backing
<1>5. ASSUME NEW k \in Nat, Listed(k) PROVE Backed(k)' \/ Removing(k)'
  <2>1. ASSUME Removing(k) PROVE Removing(k)'
    <3>1. PICK t \in Threads : At(t, "remove") /\ frame[t].handle = k BY <2>1 DEF Removing
    <3>2. frame'[t] = frame[t] BY <3>1 DEF Calm
    <3> QED BY <3>1, <3>2 DEF Removing, At
  <2> QED BY <1>2, <1>5, <2>1 DEF Backing
<1> QED BY <1>1, <1>3, <1>4, <1>5 DEF Backing

\* A thread outside a removal goes where no newcomer and no retirement begins.
LEMMA CalmMove ==
  ASSUME SchedulerInv, NEW t \in Threads, NEW f, Enter(t, f), ~At(t, "remove"),
         f.at # "admit", f.at = "retire" => Listed(f.handle)
  PROVE  Calm
<1>1. frame \in [Threads -> Frames] BY PoolHandles
<1>2. \A u \in Threads : frame'[u] = IF u = t THEN f ELSE frame[u] BY <1>1 DEF Enter
<1> QED BY <1>2 DEF Calm, At

LEMMA NothingReleased ==
  ASSUME SchedulerInv, UNCHANGED <<grants, tokens>>, live \subseteq live', drained' = drained
  PROVE  TokensKept
BY DEF TokensKept

LEMMA BackingWarm ==
  ASSUME SchedulerInv, Backing, NEW t \in Threads, Warm(t)
  PROVE  Backing'
<1> DEFINE n == Len(grants) + 1
<1>1. /\ Enter(t, WithHandle("admit", n)) /\ all' = all /\ tokens' = tokens
      /\ drained' = drained /\ live' = live \cup {n} /\ At(t, "idle")
      /\ grants' = Append(grants, [device |-> PoolDevices[1], mb |-> PoolNeed])
    BY DEF Warm, Grant, NextToken, pool, callers
<1>2. /\ n \in Nat /\ Len(grants) \in Nat /\ n \notin 1..Len(grants) /\ n \notin 0..Len(grants)
    BY PoolHandles
<1>3. WithHandle("admit", n).at = "admit" /\ WithHandle("admit", n).handle = n
    BY <1>2, IdleFrame DEF Places
<1>4. \A k \in 1..Len(grants) : grants'[k] = grants[k] BY <1>1 DEF SchedulerInv, LedgerOK
<1> HIDE DEF n
<1>5. \A u \in Threads : frame'[u] = IF u = t THEN WithHandle("admit", n) ELSE frame[u]
    BY <1>1, PoolHandles DEF Enter
<1>6. \A k : Listed(k)' = Listed(k) BY <1>1 DEF Listed
<1>7. ASSUME NEW k \in 1..Len(grants), Backed(k) PROVE Backed(k)'
    BY <1>1, <1>4, <1>7 DEF Backed
<1>8. ~Listed(n) /\ (\A u \in Threads : n \notin tokens[u] /\ frame[u].handle # n)
    BY <1>2, PoolHandles
<1>9. NewcomerOK(t)'
  <2>1. frame'[t].handle = n BY <1>3, <1>5
  <2>2. n \in live' BY <1>1
  <2>3. \A u \in Threads : u # t => frame'[u].handle # n BY <1>5, <1>8
  <2>4. ~At(t, "retire")' BY <1>3, <1>5 DEF At
  <2> QED BY <1>1, <1>6, <1>8, <2>1, <2>2, <2>3, <2>4 DEF NewcomerOK, Backed, Listed
<1>10. ASSUME NEW u \in Threads, u # t, At(u, "admit")' PROVE NewcomerOK(u)'
  <2>1. frame'[u] = frame[u] /\ At(u, "admit") BY <1>5, <1>10 DEF At
  <2>2. NewcomerOK(u) /\ frame[u].handle \in 1..Len(grants)
      BY <2>1, PoolHandles DEF Backing
  <2>3. frame[u].handle # n BY <1>8
  <2>4. (~Listed(frame[u].handle))' BY <1>1, <2>1, <2>2 DEF NewcomerOK, Listed
  <2>5. Backed(frame[u].handle)' BY <1>7, <2>1, <2>2 DEF NewcomerOK, Backed
  <2>6. \A w \in Threads : At(w, "retire")' => frame'[w].handle # frame'[u].handle
      BY <1>3, <1>5, <2>1, <2>2 DEF NewcomerOK, At
  <2>7. \A w \in Threads : At(w, "admit")' /\ frame'[w].handle = frame'[u].handle => w = u
      BY <1>3, <1>5, <2>1, <2>2, <2>3 DEF NewcomerOK, At
  <2>8. \A w \in Threads : frame'[u].handle \notin tokens'[w]
      BY <1>1, <2>1, <2>2 DEF NewcomerOK
  <2> QED BY <2>4, <2>5, <2>6, <2>7, <2>8 DEF NewcomerOK
<1>11. ASSUME NEW k \in Nat, Listed(k) PROVE Backed(k)' \/ Removing(k)'
  <2>1. k \in 1..Len(grants) BY <1>11, PoolHandles
  <2>2. ASSUME Removing(k) PROVE Removing(k)'
    <3>1. PICK u \in Threads : At(u, "remove") /\ frame[u].handle = k BY <2>2 DEF Removing
    <3>2. frame'[u] = frame[u] BY <1>1, <1>5, <3>1 DEF At
    <3> QED BY <3>1, <3>2 DEF Removing, At
  <2> QED BY <1>7, <1>11, <2>1, <2>2 DEF Backing
<1> QED BY <1>1, <1>6, <1>9, <1>10, <1>11 DEF Backing

LEMMA BackingAdmit ==
  ASSUME SchedulerInv, Backing, NEW t \in Threads, Admit(t)
  PROVE  Backing'
<1> DEFINE h == frame[t].handle
<1>1. /\ At(t, "admit") /\ all' = Append(all, h) /\ Continue(t, "queue")
      /\ UNCHANGED <<grants, live, tokens, drained>>
    BY DEF Admit, ledger, callers
<1>2. NewcomerOK(t) /\ h \in 1..Len(grants) /\ Len(grants) \in Nat
    BY <1>1, PoolHandles DEF Backing
<1>3. /\ all \in Seq(1..Len(grants)) /\ Len(all) \in Nat
      /\ DOMAIN all = 1..Len(all) /\ DOMAIN all' = 1..(Len(all) + 1)
      /\ all'[Len(all) + 1] = h /\ (\A i \in 1..Len(all) : all'[i] = all[i])
    BY <1>1, <1>2, PoolHandles
<1>4. \A u \in Threads : /\ u # t => frame'[u] = frame[u]
                         /\ ~At(t, "admit")' /\ ~At(t, "retire")' /\ ~At(t, "remove")
    BY <1>1, PoolHandles DEF Continue, At, Frames
<1> HIDE DEF h
<1>5. ASSUME NEW k PROVE Listed(k)' <=> Listed(k) \/ k = h
  <2>1. Listed(k)' <=> \E i \in 1..(Len(all) + 1) : all'[i] = k BY <1>3 DEF Listed
  <2>2. Listed(k) <=> \E i \in 1..Len(all) : all[i] = k BY <1>3 DEF Listed
  <2>3. \A i : i \in 1..(Len(all) + 1) <=> i \in 1..Len(all) \/ i = Len(all) + 1 BY <1>3
  <2>4. (\E i \in 1..(Len(all) + 1) : all'[i] = k)
           <=> (\E i \in 1..Len(all) : all[i] = k) \/ h = k
      BY <1>3, <2>3
  <2> QED BY <2>1, <2>2, <2>4
<1>6. \A k : Backed(k)' = Backed(k) BY <1>1 DEF Backed
<1>7. ~Listed(h) /\ Backed(h) /\ (\A u \in Threads : h \notin tokens[u])
    BY <1>2 DEF NewcomerOK, h
<1>8. ASSUME NEW i \in DOMAIN all', NEW j \in DOMAIN all', all'[i] = all'[j] PROVE i = j
  <2>1. \A m \in 1..Len(all) : all[m] # h BY <1>3, <1>7 DEF Listed
  <2>2. \A m, o \in 1..Len(all) : all[m] = all[o] => m = o BY <1>3 DEF Backing
  <2> QED BY <1>3, <1>8, <2>1, <2>2
<1>9. ASSUME NEW u \in Threads, At(u, "admit")' PROVE NewcomerOK(u)'
  <2>1. u # t /\ frame'[u] = frame[u] /\ At(u, "admit") BY <1>4, <1>9 DEF At
  <2>2. NewcomerOK(u) /\ frame[u].handle # h
    <3>1. NewcomerOK(u) BY <2>1 DEF Backing
    <3>2. At(t, "admit") /\ frame[t].handle = h BY <1>1 DEF h
    <3> QED BY <2>1, <3>1, <3>2 DEF NewcomerOK
  <2>3. (~Listed(frame[u].handle))'
    <3>1. ~Listed(frame[u].handle) BY <2>2 DEF NewcomerOK
    <3> QED BY <1>3, <2>1, <2>2, <3>1 DEF Listed
  <2>4. Backed(frame[u].handle)' BY <1>1, <2>1, <2>2 DEF NewcomerOK, Backed
  <2>5. \A w \in Threads : At(w, "retire")' => frame'[w].handle # frame'[u].handle
      BY <1>4, <2>1, <2>2 DEF NewcomerOK, At
  <2>6. \A w \in Threads : At(w, "admit")' /\ frame'[w].handle = frame'[u].handle => w = u
      BY <1>4, <2>1, <2>2 DEF NewcomerOK, At
  <2> QED BY <1>1, <2>1, <2>2, <2>3, <2>4, <2>5, <2>6 DEF NewcomerOK
<1>10. \A k : Removing(k) => Removing(k)'
  <2> SUFFICES ASSUME NEW k, Removing(k) PROVE Removing(k)'
      OBVIOUS
  <2>1. PICK u \in Threads : At(u, "remove") /\ frame[u].handle = k BY DEF Removing
  <2>2. frame'[u] = frame[u] BY <1>4, <2>1
  <2> QED BY <2>1, <2>2 DEF Removing, At
<1> QED BY <1>1, <1>5, <1>6, <1>7, <1>8, <1>9, <1>10 DEF Backing

LEMMA BackingRetire ==
  ASSUME SchedulerInv, Backing, NEW t \in Threads, RetireOld(t)
  PROVE  Backing'
<1> DEFINE h == frame[t].handle
<1>1. /\ At(t, "retire") /\ live' = live \ {h} /\ Continue(t, "remove")
      /\ UNCHANGED <<grants, all, tokens, drained>>
    BY DEF RetireOld, Release, pool, callers
<1>2. \A u \in Threads : u # t => frame'[u] = frame[u]
    BY <1>1, PoolHandles DEF Continue
<1>3. At(t, "remove")' /\ frame'[t].handle = h
    BY <1>1, PoolHandles DEF Continue, At, Frames
<1> HIDE DEF h
<1>4. \A k : Listed(k)' = Listed(k) BY <1>1 DEF Listed
<1>5. \A k : k # h /\ Backed(k) => Backed(k)' BY <1>1 DEF Backed
<1>6. ASSUME NEW u \in Threads, At(u, "admit")' PROVE NewcomerOK(u)'
  <2>1. u # t /\ frame'[u] = frame[u] /\ At(u, "admit") BY <1>2, <1>3, <1>6 DEF At
  <2>2. NewcomerOK(u) /\ frame[u].handle # h
    <3>1. NewcomerOK(u) BY <2>1 DEF Backing
    <3> QED BY <1>1, <3>1 DEF NewcomerOK, h
  <2>3. (~Listed(frame[u].handle))' BY <1>1, <2>1, <2>2 DEF NewcomerOK, Listed
  <2>4. Backed(frame[u].handle)' BY <1>1, <2>1, <2>2 DEF NewcomerOK, Backed
  <2>5. \A w \in Threads : At(w, "retire")' => frame'[w].handle # frame'[u].handle
      BY <1>2, <1>3, <2>1, <2>2 DEF NewcomerOK, At
  <2>6. \A w \in Threads : At(w, "admit")' /\ frame'[w].handle = frame'[u].handle => w = u
      BY <1>2, <1>3, <2>1, <2>2 DEF NewcomerOK, At
  <2> QED BY <1>1, <2>1, <2>2, <2>3, <2>4, <2>5, <2>6 DEF NewcomerOK
<1>7. ASSUME NEW k \in Nat, Listed(k) PROVE Backed(k)' \/ Removing(k)'
  <2>1. CASE k = h BY <1>3, <2>1 DEF Removing
  <2>2. ASSUME Removing(k) PROVE Removing(k)'
    <3>1. PICK u \in Threads : At(u, "remove") /\ frame[u].handle = k BY <2>2 DEF Removing
    <3>2. frame'[u] = frame[u] BY <1>1, <1>2, <3>1 DEF At
    <3> QED BY <3>1, <3>2 DEF Removing, At
  <2> QED BY <1>5, <1>7, <2>1, <2>2 DEF Backing
<1> QED BY <1>1, <1>4, <1>6, <1>7 DEF Backing

LEMMA BackingRemove ==
  ASSUME SchedulerInv, Backing, NEW t \in Threads, RemoveOld(t)
  PROVE  Backing'
<1> DEFINE h == frame[t].handle
<1>1. /\ At(t, "remove") /\ Return(t) /\ UNCHANGED <<grants, live, tokens, drained>>
    BY DEF RemoveOld, ledger, callers
<1>2. \A u \in Threads : u # t => frame'[u] = frame[u]
    BY <1>1, PoolHandles DEF Return, Enter
<1>3. ~At(t, "admit")' /\ ~At(t, "retire")'
    BY <1>1, PoolHandles, IdleFrame DEF Return, Enter, At
<1>4. /\ \A i, j \in DOMAIN all' : all'[i] = all'[j] => i = j
      /\ \A i \in DOMAIN all' : all'[i] # h /\ \E j \in DOMAIN all : all[j] = all'[i]
  <2>1. /\ all \in Seq(1..Len(grants)) /\ Len(all) \in Nat /\ DOMAIN all = 1..Len(all)
      BY PoolHandles
  <2>2. \A i, j \in 1..Len(all) : all[i] = all[j] => i = j BY <2>1 DEF Backing
  <2>3. CASE all' = all /\ h \notin Range(all)
      BY <2>1, <2>2, <2>3 DEF Range
  <2>4. ASSUME NEW m \in 1..Len(all), all[m] = h, all' = RemoveAt(all, m)
        PROVE  /\ \A i, j \in DOMAIN all' : all'[i] = all'[j] => i = j
               /\ \A i \in DOMAIN all' : all'[i] # h /\ \E j \in DOMAIN all : all[j] = all'[i]
    <3> DEFINE old(j) == IF j < m THEN j ELSE j + 1
    <3>1. /\ DOMAIN all' = 1..(Len(all) - 1)
          /\ \A j \in 1..(Len(all) - 1) : all'[j] = all[old(j)]
      <4>1. /\ RemoveAt(all, m) \in Seq(1..Len(grants)) /\ Len(RemoveAt(all, m)) = Len(all) - 1
            /\ \A j \in 1..(Len(all) - 1) :
                 RemoveAt(all, m)[j] = IF j < m THEN all[j] ELSE all[j + 1]
          BY <2>1, RemoveAtElements
      <4>2. DOMAIN RemoveAt(all, m) = 1..(Len(all) - 1) BY <4>1
      <4>3. \A j \in 1..(Len(all) - 1) : RemoveAt(all, m)[j] = all[old(j)]
        <5> TAKE j \in 1..(Len(all) - 1)
        <5>1. CASE j < m BY <4>1, <5>1
        <5>2. CASE ~(j < m) BY <4>1, <5>2
        <5> QED BY <5>1, <5>2
      <4> HIDE DEF old
      <4> QED BY <2>4, <4>2, <4>3
    <3>2. \A j \in 1..(Len(all) - 1) : old(j) \in 1..Len(all) /\ old(j) # m BY <2>1
    <3>3. \A i, j \in 1..(Len(all) - 1) : old(i) = old(j) => i = j BY <2>1
    <3> HIDE DEF old
    <3>4. \A i, j \in DOMAIN all' : all'[i] = all'[j] => i = j
      <4> SUFFICES ASSUME NEW i \in 1..(Len(all) - 1), NEW j \in 1..(Len(all) - 1),
                          all'[i] = all'[j]
                   PROVE  i = j
          BY <3>1
      <4>1. old(i) = old(j) BY <2>2, <3>1, <3>2
      <4> QED BY <3>3, <4>1
    <3>5. \A i \in DOMAIN all' : all'[i] # h /\ \E j \in DOMAIN all : all[j] = all'[i]
      <4> SUFFICES ASSUME NEW i \in 1..(Len(all) - 1)
                   PROVE  all'[i] # h /\ \E j \in DOMAIN all : all[j] = all'[i]
          BY <3>1
      <4>1. all'[i] = all[old(i)] /\ old(i) \in 1..Len(all) /\ old(i) # m BY <3>1, <3>2
      <4>2. all[old(i)] # all[m] BY <2>2, <4>1
      <4> QED BY <2>1, <2>4, <4>1, <4>2
    <3> QED BY <3>4, <3>5
  <2> QED BY <2>1, <2>3, <2>4 DEF RemoveOld
<1> HIDE DEF h
<1>5. \A k : Listed(k)' => Listed(k) /\ k # h BY <1>4 DEF Listed
<1>6. ASSUME NEW u \in Threads, At(u, "admit")' PROVE NewcomerOK(u)'
  <2>1. u # t /\ frame'[u] = frame[u] /\ At(u, "admit") BY <1>2, <1>3, <1>6 DEF At
  <2>2. NewcomerOK(u) BY <2>1 DEF Backing
  <2>3. (~Listed(frame[u].handle))' BY <1>4, <2>1, <2>2 DEF NewcomerOK, Listed
  <2>4. Backed(frame[u].handle)' BY <1>1, <2>1, <2>2 DEF NewcomerOK, Backed
  <2>5. \A w \in Threads : At(w, "retire")' => frame'[w].handle # frame'[u].handle
      BY <1>2, <1>3, <2>1, <2>2 DEF NewcomerOK, At
  <2>6. \A w \in Threads : At(w, "admit")' /\ frame'[w].handle = frame'[u].handle => w = u
      BY <1>2, <1>3, <2>1, <2>2 DEF NewcomerOK, At
  <2> QED BY <1>1, <2>1, <2>2, <2>3, <2>4, <2>5, <2>6 DEF NewcomerOK
<1>7. ASSUME NEW k \in Nat, Listed(k), k # h PROVE Backed(k)' \/ Removing(k)'
  <2>1. ASSUME Removing(k) PROVE Removing(k)'
    <3>1. PICK u \in Threads : At(u, "remove") /\ frame[u].handle = k BY <2>1 DEF Removing
    <3>2. frame'[u] = frame[u] BY <1>2, <1>7, <3>1 DEF h
    <3> QED BY <3>1, <3>2 DEF Removing, At
  <2>2. Backed(k)' = Backed(k) BY <1>1 DEF Backed
  <2> QED BY <1>7, <2>1, <2>2 DEF Backing
<1> QED BY <1>1, <1>4, <1>5, <1>6, <1>7 DEF Backing

LEMMA BackingInit == Init => Backing
<1> SUFFICES ASSUME Init PROVE Backing
    OBVIOUS
<1>1. \A t \in Threads : ~At(t, "admit") BY IdleFrame DEF Init, At
<1>2. /\ \A i \in DOMAIN all : all[i] = i /\ all[i] \in live
      /\ \A t \in Threads : tokens[t] = {}
    BY SchedulerAssumption DEF Init
<1>3. \A k : Listed(k) => k \in live BY <1>2 DEF Listed
<1> QED BY <1>1, <1>2, <1>3 DEF Backing, Backed

LEMMA BackingStep == SchedulerInv /\ Backing /\ [Next]_vars => Backing'
<1> SUFFICES ASSUME SchedulerInv, Backing, [Next]_vars PROVE Backing'
    OBVIOUS
<1>1. ASSUME NEW t \in Threads, Step(t) PROVE Backing'
  <2>1. ASSUME frame' = frame PROVE Calm BY <2>1 DEF Calm, At
  <2>2. ASSUME Return(t), ~At(t, "remove") PROVE Calm
    <3>1. Enter(t, Idle) /\ Idle.at = "idle" BY <2>2, IdleFrame DEF Return
    <3> HIDE DEF Idle
    <3> QED BY <2>2, <3>1, CalmMove
  <2>3. CASE \E mb \in Sizes : Request(t, mb)
    <3>1. PICK mb \in Sizes, d \in Devices :
            At(t, "idle") /\ Enter(t, WithDevice("decided", d, mb))
        BY <2>3 DEF Request
    <3>2. mb \in Nat BY SchedulerAssumption
    <3>3. WithDevice("decided", d, mb).at = "decided" BY <3>2, IdleFrame DEF Places
    <3>4. Calm BY <3>1, <3>3, CalmMove DEF At
    <3>5. TokensKept /\ all' = all
        BY <2>3, NothingReleased DEF Request, ledger, pool, callers
    <3> QED BY <3>4, <3>5, BackingKept
  <2>4. CASE Allocate(t)
    <3>1. Calm BY <2>2, <2>4 DEF Allocate, At
    <3>2. \A k \in 1..Len(grants) : grants'[k] = grants[k]
        BY <2>4, PoolHandles DEF Allocate, Grant, SchedulerInv, LedgerOK
    <3>3. \A u \in Threads : \A k \in tokens'[u] : k \in tokens[u] \/ k = Len(grants) + 1
        BY <2>4, PoolHandles DEF Allocate, NextToken
    <3>4. TokensKept /\ all' = all
        BY <2>4, <3>2, <3>3 DEF Allocate, Grant, TokensKept, pool
    <3> QED BY <3>1, <3>4, BackingKept
  <2>5. CASE AllocateRaises(t)
    <3>1. Calm BY <2>2, <2>5 DEF AllocateRaises, At
    <3>2. TokensKept /\ all' = all
        BY <2>5, NothingReleased DEF AllocateRaises, ledger, pool, callers
    <3> QED BY <3>1, <3>2, BackingKept
  <2>6. ASSUME NEW k \in tokens[t], ReleaseAllocation(t, k) PROVE Backing'
    <3>1. Calm BY <2>1, <2>6 DEF ReleaseAllocation
    <3>2. ~Listed(k) /\ \A u \in Threads : At(u, "admit") => frame[u].handle # k
        BY DEF Backing, NewcomerOK
    <3>3. /\ live' = live \ {k} /\ grants' = grants /\ drained' = drained /\ all' = all
          /\ tokens' = [tokens EXCEPT ![t] = @ \ {k}]
        BY <2>6 DEF ReleaseAllocation, Release, pool
    <3>4. \A u \in Threads : tokens'[u] \subseteq tokens[u] BY <3>3, PoolHandles
    <3>5. TokensKept BY <3>2, <3>3, <3>4 DEF TokensKept
    <3> QED BY <3>1, <3>3, <3>5, BackingKept
  <2>7. CASE Acquire(t)
    <3>1. Calm BY <2>1, <2>7 DEF Acquire
    <3>2. TokensKept /\ all' = all BY <2>7, NothingReleased DEF Acquire, ledger
    <3> QED BY <3>1, <3>2, BackingKept
  <2>8. ASSUME NEW h \in leased[t], ReleaseModel(t, h) PROVE Backing'
    <3>1. h \in Nat BY DEF SchedulerInv, PoolOK
    <3>2. WithHandle("put", h).at = "put" BY <3>1, IdleFrame DEF Places
    <3>3. Calm BY <2>2, <2>8, <3>2, CalmMove DEF ReleaseModel, At
    <3>4. TokensKept /\ all' = all BY <2>8, NothingReleased DEF ReleaseModel, ledger, pool
    <3> QED BY <3>3, <3>4, BackingKept
  <2>9. CASE PutBack(t)
    <3>1. Calm BY <2>2, <2>9 DEF PutBack, At
    <3>2. TokensKept /\ all' = all BY <2>9, NothingReleased DEF PutBack, ledger, callers
    <3> QED BY <3>1, <3>2, BackingKept
  <2>10. CASE \E retire_old \in BOOLEAN : QueueNew(t, retire_old)
    <3>1. At(t, "queue") /\ (Continue(t, "pick") \/ Return(t)) BY <2>10 DEF QueueNew
    <3>2. ASSUME Continue(t, "pick") PROVE Calm
      <4> DEFINE f == [frame[t] EXCEPT !.at = "pick"]
      <4>1. Enter(t, f) /\ f.at = "pick" BY <3>2, PoolHandles DEF Continue, Enter, Frames
      <4> HIDE DEF f
      <4> QED BY <3>1, <4>1, CalmMove DEF At
    <3>3. Calm BY <2>2, <3>1, <3>2 DEF At
    <3>4. TokensKept /\ all' = all BY <2>10, NothingReleased DEF QueueNew, ledger, callers
    <3> QED BY <3>3, <3>4, BackingKept
  <2>11. CASE PickOld(t)
    <3>1. ASSUME all # <<>>, Enter(t, WithHandle("retire", Head(all))) PROVE Calm
      <4>1. Head(all) = all[1] /\ 1 \in DOMAIN all /\ Head(all) \in Nat BY <3>1, PoolHandles
      <4>2. /\ WithHandle("retire", Head(all)).at = "retire"
            /\ WithHandle("retire", Head(all)).handle = Head(all)
          BY <4>1, IdleFrame DEF Places
      <4>3. Listed(Head(all)) BY <4>1 DEF Listed
      <4> QED BY <2>11, <3>1, <4>2, <4>3, CalmMove DEF PickOld, At
    <3>2. Calm BY <2>2, <2>11, <3>1 DEF PickOld, At
    <3>3. TokensKept /\ all' = all
        BY <2>11, NothingReleased DEF PickOld, ledger, pool, callers
    <3> QED BY <3>2, <3>3, BackingKept
  <2>12. CASE \E d \in Devices : MarkFailed(t, d)
    <3>1. PICK d \in Devices : MarkFailed(t, d) BY <2>12
    <3>2. WithDevice("drain", d, 0).at = "drain" BY IdleFrame DEF Places
    <3>3. Calm BY <3>1, <3>2, CalmMove DEF MarkFailed, At
    <3>4. TokensKept /\ all' = all BY <3>1, NothingReleased DEF MarkFailed, pool, callers
    <3> QED BY <3>3, <3>4, BackingKept
  <2>13. CASE Drain(t)
    <3>1. Calm BY <2>2, <2>13 DEF Drain, At
    <3>2. TokensKept /\ all' = all BY <2>13 DEF Drain, TokensKept, pool, callers
    <3> QED BY <3>1, <3>2, BackingKept
  <2> QED BY <1>1, <2>3, <2>4, <2>5, <2>6, <2>7, <2>8, <2>9, <2>10, <2>11, <2>12, <2>13,
             BackingWarm, BackingAdmit, BackingRetire, BackingRemove DEF Step
<1>2. CASE UNCHANGED vars
  <2>1. Calm /\ TokensKept /\ all' = all
      BY <1>2, NothingReleased DEF vars, ledger, pool, callers, Calm, At
  <2> QED BY <2>1, BackingKept
<1> QED BY <1>1, <1>2 DEF Next

(* GPU-1: whatever releases, failures and retirements come in between, an  *)
(* instance on the list has its VRAM reserved, unless its device failed or *)
(* its retirement is about to take it off the list.                        *)
THEOREM ListedIsReserved == Spec => []PoolBacked
<1>1. SchedulerInv /\ Backing => PoolBacked
  <2> SUFFICES ASSUME SchedulerInv, Backing, NEW i \in DOMAIN all
               PROVE  \/ all[i] \in live
                      \/ grants[all[i]].device \in drained
                      \/ Removing(all[i])
      BY DEF PoolBacked, Removing
  <2>1. Listed(all[i]) /\ all[i] \in Nat BY PoolHandles DEF Listed
  <2> QED BY <2>1 DEF Backing, Backed
<1> QED BY <1>1, BackingInit, BackingStep, SchedulerInvariant, PTL DEF Spec

-------------------------------------------------------------------------------
(* One holder for a handle.  A handle that is listed for use is in the     *)
(* queue, with a caller or in the hands of the call that moves it; every   *)
(* move takes it from one of these and gives it to one.                    *)
InQueue(h) == \E i \in DOMAIN avail : avail[i] = h
Carries(t) == frame[t].at \in {"put", "admit", "queue"}
Carried(t, h) == Carries(t) /\ frame[t].handle = h
Held(h) == InQueue(h) \/ (\E t \in Threads : h \in leased[t])
                      \/ (\E t \in Threads : At(t, "put") /\ frame[t].handle = h)

Exclusive ==
  /\ \A i, j \in DOMAIN avail : avail[i] = avail[j] => i = j
  /\ \A t, u \in Threads : \A h \in leased[t] : h \in leased[u] => t = u
  /\ \A t, u \in Threads : Carries(t) /\ Carried(u, frame[t].handle) => t = u
  /\ \A t \in Threads : \A h \in leased[t] : ~InQueue(h) /\ h \notin free
  /\ \A t \in Threads : Carries(t) =>
       /\ ~InQueue(frame[t].handle) /\ frame[t].handle \notin free
       /\ \A u \in Threads : frame[t].handle \notin leased[u]

\* A handle on its way into the pool is none of the first, and none of these
\* and none of those ever released is lost.
NoneLost ==
  /\ PoolSize <= Len(grants)
  /\ \A t \in Threads : Carries(t) /\ ~At(t, "put") => frame[t].handle > PoolSize
  /\ \A h \in (1..PoolSize) \cup free : Held(h)

HandlesInv == Exclusive /\ NoneLost

\* A step in which no handle moves.
SameHands ==
  /\ avail' = avail /\ leased' = leased /\ free' = free
  /\ Len(grants) <= Len(grants')
  /\ \A u \in Threads :
       /\ Carries(u)' <=> Carries(u)
       /\ Carries(u) => /\ frame'[u].handle = frame[u].handle
                        /\ At(u, "put")' <=> At(u, "put")

LEMMA PoolTypes ==
  ASSUME SchedulerInv
  PROVE  /\ Len(grants) \in Nat /\ frame \in [Threads -> Frames]
         /\ avail \in Seq(1..Len(grants)) /\ free \subseteq 1..Len(grants)
         /\ leased \in [Threads -> SUBSET (1..Len(grants))]
         /\ \A t \in Threads : frame[t].handle \in 0..Len(grants)
         /\ \A t \in Threads : Carries(t) => frame[t].handle \in 1..Len(grants)
         /\ PoolSize \in Nat
<1>1. \A t \in Threads : Carries(t) => frame[t].handle > 0
    BY DEF SchedulerInv, CallsOK, FrameOK, Carries
<1> QED BY <1>1, PoolHandles, SchedulerAssumption DEF SchedulerInv, PoolOK

LEMMA HandsKept ==
  ASSUME SchedulerInv, HandlesInv, SameHands, Len(grants') \in Nat
  PROVE  HandlesInv'
<1> USE DEF HandlesInv
<1>1. \A h : InQueue(h)' <=> InQueue(h) BY DEF InQueue, SameHands
<1>2. \A u \in Threads : Carries(u)' => Carries(u) /\ frame'[u].handle = frame[u].handle
    BY DEF SameHands
<1>3. \A u \in Threads : \A h : Carried(u, h)' <=> Carried(u, h) BY DEF Carried, SameHands
<1>4. Exclusive'
  <2>1. /\ \A i, j \in DOMAIN avail' : avail'[i] = avail'[j] => i = j
        /\ \A t, u \in Threads : \A h \in leased'[t] : h \in leased'[u] => t = u
      BY DEF Exclusive, SameHands
  <2>2. \A t, u \in Threads : Carries(t)' /\ Carries(u)' /\ frame'[u].handle = frame'[t].handle => t = u
      BY <1>2 DEF Exclusive, Carried
  <2>3. \A t \in Threads : \A h \in leased'[t] : ~InQueue(h)' /\ h \notin free'
      BY <1>1 DEF Exclusive, SameHands
  <2>4. ASSUME NEW t \in Threads, Carries(t)'
        PROVE  /\ (~InQueue(frame[t].handle))' /\ frame'[t].handle \notin free'
               /\ \A u \in Threads : frame'[t].handle \notin leased'[u]
    <3>1. Carries(t) /\ frame'[t].handle = frame[t].handle BY <1>2, <2>4
    <3> QED BY <3>1 DEF Exclusive, SameHands, InQueue
  <2> QED BY <2>1, <2>2, <2>3, <2>4 DEF Exclusive, Carried
<1>5. NoneLost'
  <2>1. PoolSize <= Len(grants') BY PoolTypes DEF NoneLost, SameHands
  <2>2. \A t \in Threads : Carries(t)' /\ ~At(t, "put")' => frame'[t].handle > PoolSize
      BY <1>2 DEF NoneLost, SameHands
  <2>3. ASSUME NEW h, Held(h) PROVE Held(h)'
    <3>1. ASSUME NEW t \in Threads, At(t, "put"), frame[t].handle = h
          PROVE  At(t, "put")' /\ frame'[t].handle = h
      <4>1. Carries(t) BY <3>1 DEF At, Carries
      <4> QED BY <3>1, <4>1 DEF SameHands
    <3> QED BY <1>1, <2>3, <3>1 DEF Held, SameHands
  <2> QED BY <2>1, <2>2, <2>3 DEF NoneLost, SameHands
<1> QED BY <1>4, <1>5

\* A thread that carries nothing, before and after.
LEMMA EmptyHands ==
  ASSUME SchedulerInv, NEW t \in Threads, NEW f, Enter(t, f), ~Carries(t),
         f.at \notin {"put", "admit", "queue"}, Len(grants') \in Nat,
         Len(grants) <= Len(grants'), UNCHANGED <<avail, leased, free>>
  PROVE  SameHands
<1>1. \A u \in Threads : frame'[u] = IF u = t THEN f ELSE frame[u]
    BY PoolTypes DEF Enter
<1> QED BY <1>1 DEF SameHands, Carries, At

LEMMA HandlesAcquire ==
  ASSUME SchedulerInv, HandlesInv, NEW t \in Threads, Acquire(t)
  PROVE  HandlesInv'
<1> USE DEF HandlesInv
<1> DEFINE a == Head(avail)
<1>1. /\ avail # <<>> /\ avail' = Tail(avail) /\ free' = free \ {a}
      /\ leased' = [leased EXCEPT ![t] = @ \cup {a}]
      /\ frame' = frame /\ grants' = grants
    BY DEF Acquire, ledger
<1>2. /\ Len(avail) \in Nat \ {0} /\ DOMAIN avail = 1..Len(avail) /\ avail[1] = a
      /\ DOMAIN avail' = 1..(Len(avail) - 1)
      /\ \A i \in 1..(Len(avail) - 1) : avail'[i] = avail[i + 1]
    BY <1>1, PoolTypes
<1>3. \A u \in Threads : leased'[u] = IF u = t THEN leased[u] \cup {a} ELSE leased[u]
    BY <1>1, PoolTypes
<1> HIDE DEF a
<1>4. InQueue(a) BY <1>2 DEF InQueue
<1>5. \A i, j \in 1..Len(avail) : avail[i] = avail[j] => i = j BY <1>2 DEF Exclusive
<1>6. ASSUME NEW h PROVE InQueue(h)' <=> InQueue(h) /\ h # a
  <2>1. ASSUME NEW i \in 1..(Len(avail) - 1), avail'[i] = h PROVE InQueue(h) /\ h # a
    <3>1. i + 1 \in 1..Len(avail) /\ i + 1 # 1 /\ 1 \in 1..Len(avail) /\ avail[i + 1] = h
        BY <1>2, <2>1
    <3> QED BY <1>2, <1>5, <3>1 DEF InQueue
  <2>2. ASSUME NEW i \in 1..Len(avail), avail[i] = h, h # a PROVE InQueue(h)'
    <3>1. i # 1 BY <1>2, <2>2
    <3>2. i - 1 \in 1..(Len(avail) - 1) /\ (i - 1) + 1 = i BY <1>2, <3>1
    <3> QED BY <1>2, <2>2, <3>2 DEF InQueue
  <2> QED BY <1>2, <2>1, <2>2 DEF InQueue
<1>7. \A u \in Threads : a \notin leased[u] /\ ~Carried(u, a)
    BY <1>4 DEF Exclusive, Carried
<1>8. \A u \in Threads : (Carries(u)' <=> Carries(u)) /\ frame'[u].handle = frame[u].handle
                         /\ (At(u, "put")' <=> At(u, "put"))
    BY <1>1 DEF Carries, At
<1>9. Exclusive'
  <2>1. \A i, j \in DOMAIN avail' : avail'[i] = avail'[j] => i = j
    <3>1. \A i \in 1..(Len(avail) - 1) : i + 1 \in 1..Len(avail) BY <1>2
    <3>2. \A i, j \in 1..(Len(avail) - 1) : i + 1 = j + 1 => i = j BY <1>2
    <3> QED BY <1>2, <1>5, <3>1, <3>2
  <2>2. \A u, w \in Threads : \A h \in leased'[u] : h \in leased'[w] => u = w
    <3> SUFFICES ASSUME NEW u \in Threads, NEW w \in Threads, NEW h \in leased'[u],
                        h \in leased'[w]
                 PROVE  u = w
        OBVIOUS
    <3>1. CASE h = a BY <1>3, <1>7, <3>1
    <3>2. CASE h # a
      <4>1. \A x \in Threads : h \in leased'[x] => h \in leased[x]
        <5> TAKE x \in Threads
        <5>1. CASE x = t BY <1>3, <3>2, <5>1
        <5>2. CASE x # t BY <1>3, <5>2
        <5> QED BY <5>1, <5>2
      <4> QED BY <4>1 DEF Exclusive
    <3> QED BY <3>1, <3>2
  <2>3. \A u, w \in Threads : Carries(u)' /\ Carries(w)' /\ frame'[w].handle = frame'[u].handle => u = w
      BY <1>8 DEF Exclusive, Carried
  <2>4. \A u \in Threads : \A h \in leased'[u] : ~InQueue(h)' /\ h \notin free'
      BY <1>1, <1>3, <1>6 DEF Exclusive
  <2>5. ASSUME NEW u \in Threads, Carries(u)'
        PROVE  /\ (~InQueue(frame[u].handle))' /\ frame'[u].handle \notin free'
               /\ \A w \in Threads : frame'[u].handle \notin leased'[w]
    <3>1. Carries(u) /\ frame[u].handle # a BY <1>7, <1>8, <2>5 DEF Carried
    <3>2. (~InQueue(frame[u].handle))'
      <4>1. ~InQueue(frame[u].handle) BY <3>1 DEF Exclusive
      <4>2. \A h : ~InQueue(h) => ~InQueue(h)' BY <1>6
      <4> QED BY <1>1, <4>1, <4>2 DEF InQueue
    <3> QED BY <1>1, <1>3, <1>8, <3>1, <3>2 DEF Exclusive
  <2> QED BY <2>1, <2>2, <2>3, <2>4, <2>5 DEF Exclusive, Carried
<1>10. NoneLost'
  <2>1. ASSUME NEW h, Held(h) PROVE Held(h)'
    <3>1. t \in Threads /\ a \in leased'[t] BY <1>3
    <3>2. CASE h = a BY <3>1, <3>2 DEF Held
    <3>3. CASE h # a /\ InQueue(h) BY <1>6, <3>3 DEF Held
    <3>4. ASSUME NEW u \in Threads, h \in leased[u] PROVE h \in leased'[u] BY <1>3, <3>4
    <3>5. ASSUME NEW u \in Threads, At(u, "put"), frame[u].handle = h
          PROVE  At(u, "put")' /\ frame'[u].handle = h
        BY <1>8, <3>5
    <3> QED BY <2>1, <3>2, <3>3, <3>4, <3>5 DEF Held
  <2> QED BY <1>1, <1>8, <2>1 DEF NoneLost
<1> QED BY <1>9, <1>10

LEMMA HandlesRelease ==
  ASSUME SchedulerInv, HandlesInv, NEW t \in Threads, NEW h \in leased[t], ReleaseModel(t, h)
  PROVE  HandlesInv'
<1> USE DEF HandlesInv
<1>1. h \notin free /\ ~InQueue(h) /\ h \in Nat BY PoolTypes DEF Exclusive
<1>2. /\ At(t, "idle") /\ Enter(t, WithHandle("put", h))
      /\ leased' = [leased EXCEPT ![t] = @ \ {h}]
      /\ UNCHANGED <<avail, free, grants>>
    BY <1>1 DEF ReleaseModel, ledger, pool
<1>3. WithHandle("put", h).at = "put" /\ WithHandle("put", h).handle = h
    BY <1>1, IdleFrame DEF Places
<1>4. \A u \in Threads : frame'[u] = IF u = t THEN WithHandle("put", h) ELSE frame[u]
    BY <1>2, PoolTypes DEF Enter
<1>5. \A u \in Threads : leased'[u] = IF u = t THEN leased[u] \ {h} ELSE leased[u]
    BY <1>2, PoolTypes
<1>6. \A u \in Threads : h \notin leased'[u] /\ leased'[u] \subseteq leased[u]
    BY <1>5 DEF Exclusive
<1>7. \A u \in Threads : ~Carried(u, h) BY DEF Exclusive, Carried
<1>8. \A k : InQueue(k)' <=> InQueue(k) BY <1>2 DEF InQueue
<1>9. /\ Carries(t)' /\ frame'[t].handle = h /\ At(t, "put")'
      /\ \A u \in Threads : u # t => /\ frame'[u] = frame[u] /\ (Carries(u)' <=> Carries(u))
                                     /\ (At(u, "put")' <=> At(u, "put"))
    BY <1>3, <1>4 DEF Carries, At
<1>10. Exclusive'
  <2>1. \A i, j \in DOMAIN avail' : avail'[i] = avail'[j] => i = j BY <1>2 DEF Exclusive
  <2>2. \A u, w \in Threads : \A k \in leased'[u] : k \in leased'[w] => u = w
      BY <1>6 DEF Exclusive
  <2>3. \A u, w \in Threads : Carries(u)' /\ Carries(w)' /\ frame'[w].handle = frame'[u].handle => u = w
      BY <1>7, <1>9 DEF Exclusive, Carried
  <2>4. \A u \in Threads : \A k \in leased'[u] : ~InQueue(k)' /\ k \notin free'
      BY <1>2, <1>6, <1>8 DEF Exclusive
  <2>5. ASSUME NEW u \in Threads, Carries(u)'
        PROVE  /\ (~InQueue(frame[u].handle))' /\ frame'[u].handle \notin free'
               /\ \A w \in Threads : frame'[u].handle \notin leased'[w]
    <3>1. CASE u = t BY <1>1, <1>2, <1>6, <1>9, <3>1 DEF InQueue
    <3>2. CASE u # t
      <4>1. Carries(u) /\ frame'[u] = frame[u] BY <1>9, <2>5, <3>2
      <4> QED BY <1>2, <1>6, <4>1 DEF Exclusive, InQueue
    <3> QED BY <3>1, <3>2
  <2> QED BY <2>1, <2>2, <2>3, <2>4, <2>5 DEF Exclusive, Carried
<1>11. NoneLost'
  <2>1. ASSUME NEW k, Held(k) PROVE Held(k)'
    <3>1. CASE k = h BY <1>9, <3>1 DEF Held
    <3>2. ASSUME NEW u \in Threads, k \in leased[u], k # h PROVE k \in leased'[u]
        BY <1>5, <3>2
    <3>3. ASSUME NEW u \in Threads, At(u, "put"), frame[u].handle = k
          PROVE  At(u, "put")' /\ frame'[u].handle = k
      <4>1. u # t BY <1>2, <3>3 DEF At
      <4> QED BY <1>9, <3>3, <4>1
    <3> QED BY <1>8, <2>1, <3>1, <3>2, <3>3 DEF Held
  <2>2. \A u \in Threads : Carries(u)' /\ ~At(u, "put")' => frame'[u].handle > PoolSize
      BY <1>9 DEF NoneLost
  <2> QED BY <1>2, <2>1, <2>2 DEF NoneLost
<1> QED BY <1>10, <1>11

\* A returned or a new handle goes to the end of the queue.
LEMMA HandlesEnqueue ==
  ASSUME SchedulerInv, HandlesInv, NEW t \in Threads, Carries(t),
         avail' = Append(avail, frame[t].handle),
         free' = free \/ free' = free \cup {frame[t].handle},
         ~Carries(t)', \A u \in Threads : u # t => frame'[u] = frame[u],
         UNCHANGED <<leased, grants>>
  PROVE  HandlesInv'
<1> USE DEF HandlesInv
<1> DEFINE h == frame[t].handle
<1>1. /\ avail' = Append(avail, h) /\ (free' = free \/ free' = free \cup {h})
      /\ h \in 1..Len(grants) /\ leased' = leased /\ grants' = grants
    BY PoolTypes
<1>2. /\ ~InQueue(h) /\ (\A u \in Threads : h \notin leased[u])
      /\ \A u \in Threads : Carried(u, h) => u = t
    BY DEF Exclusive, Carried
<1>3. \A u \in Threads : At(u, "put") /\ u # t => At(u, "put")' BY DEF At
<1>4. \A u \in Threads : Carries(u)' => u # t /\ Carries(u) /\ frame'[u] = frame[u]
    BY DEF Carries
<1>5. \A u \in Threads : At(u, "put") /\ frame[u].handle # h => At(u, "put")' /\ frame'[u] = frame[u]
    BY <1>3
<1> HIDE DEF h
<1>6. /\ Len(avail) \in Nat /\ DOMAIN avail = 1..Len(avail)
      /\ DOMAIN avail' = 1..(Len(avail) + 1) /\ avail'[Len(avail) + 1] = h
      /\ \A i \in 1..Len(avail) : avail'[i] = avail[i]
    BY <1>1, PoolTypes
<1>7. ASSUME NEW k PROVE InQueue(k)' <=> InQueue(k) \/ k = h
  <2>1. InQueue(k)' <=> \E i \in 1..(Len(avail) + 1) : avail'[i] = k BY <1>6 DEF InQueue
  <2>2. InQueue(k) <=> \E i \in 1..Len(avail) : avail[i] = k BY <1>6 DEF InQueue
  <2>3. \A i : i \in 1..(Len(avail) + 1) <=> i \in 1..Len(avail) \/ i = Len(avail) + 1 BY <1>6
  <2> QED BY <1>6, <2>1, <2>2, <2>3
<1>8. Exclusive'
  <2>1. ASSUME NEW i \in DOMAIN avail', NEW j \in DOMAIN avail', avail'[i] = avail'[j] PROVE i = j
    <3>1. \A m \in 1..Len(avail) : avail[m] # h BY <1>2, <1>6 DEF InQueue
    <3>2. \A m, o \in 1..Len(avail) : avail[m] = avail[o] => m = o BY <1>6 DEF Exclusive
    <3> QED BY <1>6, <2>1, <3>1, <3>2
  <2>2. \A u, w \in Threads : \A k \in leased'[u] : k \in leased'[w] => u = w
      BY <1>1 DEF Exclusive
  <2>3. \A u, w \in Threads : Carries(u)' /\ Carries(w)' /\ frame'[w].handle = frame'[u].handle => u = w
      BY <1>4 DEF Exclusive, Carried
  <2>4. ASSUME NEW u \in Threads, NEW k \in leased'[u] PROVE ~InQueue(k)' /\ k \notin free'
    <3>1. k \in leased[u] /\ k # h BY <1>1, <1>2
    <3>2. ~InQueue(k) /\ k \notin free BY <3>1 DEF Exclusive
    <3> QED BY <1>1, <1>7, <3>1, <3>2
  <2>5. ASSUME NEW u \in Threads, Carries(u)'
        PROVE  /\ (~InQueue(frame[u].handle))' /\ frame'[u].handle \notin free'
               /\ \A w \in Threads : frame'[u].handle \notin leased'[w]
    <3>1. u # t /\ Carries(u) /\ frame'[u] = frame[u] BY <1>4, <2>5
    <3>2. frame[u].handle # h BY <1>2, <3>1 DEF Carried
    <3>3. /\ ~InQueue(frame[u].handle) /\ frame[u].handle \notin free
          /\ \A w \in Threads : frame[u].handle \notin leased[w]
        BY <3>1 DEF Exclusive
    <3>4. (~InQueue(frame[u].handle))'
      <4>1. \A k : k # h /\ ~InQueue(k) => ~InQueue(k)' BY <1>7
      <4> QED BY <3>1, <3>2, <3>3, <4>1 DEF InQueue
    <3> QED BY <1>1, <3>1, <3>2, <3>3, <3>4
  <2> QED BY <2>1, <2>2, <2>3, <2>4, <2>5 DEF Exclusive, Carried
<1>9. NoneLost'
  <2>1. ASSUME NEW k, Held(k) \/ k = h PROVE Held(k)'
    <3>1. CASE k = h BY <1>7, <3>1 DEF Held
    <3>2. CASE k # h
      <4>1. \A u \in Threads : At(u, "put") /\ frame[u].handle = k
                               => At(u, "put")' /\ frame'[u].handle = k
          BY <1>5, <3>2
      <4> QED BY <1>1, <1>7, <2>1, <3>2, <4>1 DEF Held
    <3> QED BY <3>1, <3>2
  <2>2. ASSUME NEW u \in Threads, Carries(u)', ~At(u, "put")' PROVE frame'[u].handle > PoolSize
      BY <1>4, <2>2 DEF NoneLost, At
  <2>3. \A k \in (1..PoolSize) \cup free' : Held(k) \/ k = h BY <1>1 DEF NoneLost
  <2>4. PoolSize <= Len(grants') BY <1>1 DEF NoneLost
  <2> QED BY <2>1, <2>2, <2>3, <2>4 DEF NoneLost
<1> QED BY <1>8, <1>9

LEMMA HandlesWarm ==
  ASSUME SchedulerInv, HandlesInv, NEW t \in Threads, Warm(t)
  PROVE  HandlesInv'
<1> USE DEF HandlesInv
<1>1. PICK n : n = Len(grants) + 1 OBVIOUS
<1>2. /\ At(t, "idle") /\ Enter(t, WithHandle("admit", n))
      /\ UNCHANGED <<avail, free, leased>>
      /\ grants' = Append(grants, [device |-> PoolDevices[1], mb |-> PoolNeed])
    BY <1>1 DEF Warm, Grant, NextToken, pool, callers
<1>3. n \in Nat /\ Len(grants) \in Nat /\ n \notin 1..Len(grants) /\ n \notin 0..Len(grants)
    BY <1>1, PoolTypes
<1>4. Len(grants') = Len(grants) + 1 /\ PoolSize <= Len(grants) /\ PoolSize \in Nat
    BY <1>2, PoolTypes DEF SchedulerInv, LedgerOK, NoneLost
<1>5. WithHandle("admit", n).at = "admit" /\ WithHandle("admit", n).handle = n
    BY <1>3, IdleFrame DEF Places
<1>6. /\ Carries(t)' /\ frame'[t].handle = n /\ ~At(t, "put")' /\ ~Carries(t)
      /\ \A u \in Threads : u # t => frame'[u] = frame[u] /\ (Carries(u)' <=> Carries(u))
    BY <1>2, <1>5, PoolTypes DEF Enter, Carries, At
<1>7. /\ ~InQueue(n) /\ n \notin free
      /\ \A u \in Threads : n \notin leased[u] /\ frame[u].handle # n
    BY <1>3, PoolTypes DEF InQueue
<1>8. \A k : InQueue(k)' <=> InQueue(k) BY <1>2 DEF InQueue
<1>9. Exclusive'
  <2>1. \A i, j \in DOMAIN avail' : avail'[i] = avail'[j] => i = j BY <1>2 DEF Exclusive
  <2>2. \A u, w \in Threads : \A k \in leased'[u] : k \in leased'[w] => u = w
      BY <1>2 DEF Exclusive
  <2>3. \A u, w \in Threads : Carries(u)' /\ Carries(w)' /\ frame'[w].handle = frame'[u].handle => u = w
      BY <1>6, <1>7 DEF Exclusive, Carried
  <2>4. \A u \in Threads : \A k \in leased'[u] : ~InQueue(k)' /\ k \notin free'
      BY <1>2, <1>8 DEF Exclusive
  <2>5. ASSUME NEW u \in Threads, Carries(u)'
        PROVE  /\ (~InQueue(frame[u].handle))' /\ frame'[u].handle \notin free'
               /\ \A w \in Threads : frame'[u].handle \notin leased'[w]
    <3>1. CASE u = t BY <1>2, <1>6, <1>7, <3>1 DEF InQueue
    <3>2. CASE u # t
      <4>1. Carries(u) /\ frame'[u] = frame[u] BY <1>6, <2>5, <3>2
      <4> QED BY <1>2, <4>1 DEF Exclusive, InQueue
    <3> QED BY <3>1, <3>2
  <2> QED BY <2>1, <2>2, <2>3, <2>4, <2>5 DEF Exclusive, Carried
<1>10. NoneLost'
  <2>1. ASSUME NEW k, Held(k) PROVE Held(k)'
    <3>1. ASSUME NEW u \in Threads, At(u, "put"), frame[u].handle = k
          PROVE  At(u, "put")' /\ frame'[u].handle = k
      <4>1. u # t BY <1>2, <3>1 DEF At
      <4> QED BY <1>6, <3>1, <4>1 DEF At
    <3> QED BY <1>2, <1>8, <2>1, <3>1 DEF Held
  <2>2. ASSUME NEW u \in Threads, Carries(u)', ~At(u, "put")' PROVE frame'[u].handle > PoolSize
    <3>1. CASE u = t BY <1>1, <1>4, <1>6, <3>1, PoolTypes
    <3>2. CASE u # t
      <4>1. Carries(u) /\ frame'[u] = frame[u] /\ ~At(u, "put") BY <1>6, <2>2, <3>2 DEF At
      <4> QED BY <4>1 DEF NoneLost
    <3> QED BY <3>1, <3>2
  <2>3. PoolSize <= Len(grants') BY <1>3, <1>4
  <2> QED BY <1>2, <2>1, <2>2, <2>3 DEF NoneLost
<1> QED BY <1>9, <1>10

LEMMA HandlesInit == Init => HandlesInv
<1> SUFFICES ASSUME Init PROVE HandlesInv
    OBVIOUS
<1>1. \A t \in Threads : ~Carries(t) BY IdleFrame DEF Init, Carries
<1>2. /\ Len(grants) = PoolSize /\ PoolSize \in Nat /\ DOMAIN avail = 1..PoolSize
      /\ (\A i \in 1..PoolSize : avail[i] = i) /\ free = {}
      /\ \A t \in Threads : leased[t] = {}
    BY SchedulerAssumption DEF Init
<1>3. Exclusive BY <1>1, <1>2 DEF Exclusive
<1>4. \A h \in 1..PoolSize : Held(h) BY <1>2 DEF Held, InQueue
<1> QED BY <1>1, <1>2, <1>3, <1>4 DEF HandlesInv, NoneLost

LEMMA HandlesStep == SchedulerInv /\ SchedulerInv' /\ HandlesInv /\ [Next]_vars => HandlesInv'
<1> SUFFICES ASSUME SchedulerInv, SchedulerInv', HandlesInv, [Next]_vars PROVE HandlesInv'
    OBVIOUS
<1>1. Len(grants) \in Nat /\ Len(grants') \in Nat BY DEF SchedulerInv, LedgerOK
<1>2. ASSUME NEW t \in Threads, Step(t) PROVE HandlesInv'
  <2>1. ASSUME ~Carries(t), Return(t), Len(grants) <= Len(grants'),
               UNCHANGED <<avail, leased, free>>
        PROVE  HandlesInv'
    <3>1. Enter(t, Idle) /\ Idle.at = "idle" BY <2>1, IdleFrame DEF Return
    <3> HIDE DEF Idle
    <3>2. SameHands BY <1>1, <2>1, <3>1, EmptyHands
    <3> QED BY <1>1, <3>2, HandsKept
  <2>2. ASSUME NEW f, ~Carries(t), Enter(t, f), f.at \notin {"put", "admit", "queue"},
               UNCHANGED <<avail, leased, free, grants>>
        PROVE  HandlesInv'
    <3>1. SameHands BY <1>1, <2>2, EmptyHands
    <3> QED BY <1>1, <3>1, HandsKept
  <2>3. CASE \E mb \in Sizes : Request(t, mb)
    <3>1. PICK mb \in Sizes, d \in Devices :
            At(t, "idle") /\ Enter(t, WithDevice("decided", d, mb))
        BY <2>3 DEF Request
    <3>2. mb \in Nat BY SchedulerAssumption
    <3>3. WithDevice("decided", d, mb).at = "decided" BY <3>2, IdleFrame DEF Places
    <3> QED BY <2>2, <2>3, <3>1, <3>3 DEF Request, ledger, pool, callers, Carries, At
  <2>4. CASE Allocate(t)
    <3>1. Len(grants) <= Len(grants')
        BY <2>4, PoolTypes DEF Allocate, Grant, SchedulerInv, LedgerOK
    <3> QED BY <2>1, <2>4, <3>1 DEF Allocate, pool, Carries, At
  <2>5. CASE AllocateRaises(t)
      BY <1>1, <2>1, <2>5 DEF AllocateRaises, ledger, pool, callers, Carries, At
  <2>6. ASSUME NEW k \in tokens[t], ReleaseAllocation(t, k) PROVE HandlesInv'
    <3>1. SameHands
        BY <1>1, <2>6 DEF ReleaseAllocation, Release, pool, SameHands, Carries, At
    <3> QED BY <1>1, <3>1, HandsKept
  <2>7. CASE PutBack(t)
    <3>1. Carries(t) BY <2>7 DEF PutBack, At, Carries
    <3>2. ~Carries(t)' /\ \A u \in Threads : u # t => frame'[u] = frame[u]
        BY <2>7, PoolTypes, IdleFrame DEF PutBack, Return, Enter, Carries
    <3> QED BY <2>7, <3>1, <3>2, HandlesEnqueue DEF PutBack, ledger, callers
  <2>8. CASE \E retire_old \in BOOLEAN : QueueNew(t, retire_old)
    <3>1. Carries(t) BY <2>8 DEF QueueNew, At, Carries
    <3>2. ~Carries(t)' /\ \A u \in Threads : u # t => frame'[u] = frame[u]
        BY <2>8, PoolTypes, IdleFrame DEF QueueNew, Continue, Return, Enter, Carries, Frames
    <3> QED BY <2>8, <3>1, <3>2, HandlesEnqueue DEF QueueNew, ledger, callers
  <2>9. CASE Admit(t)
    <3>1. SameHands
        BY <1>1, <2>9, PoolTypes
        DEF Admit, Continue, ledger, callers, SameHands, Carries, At, Frames
    <3> QED BY <1>1, <3>1, HandsKept
  <2>10. CASE PickOld(t)
    <3>1. ASSUME all # <<>>, Enter(t, WithHandle("retire", Head(all))) PROVE HandlesInv'
      <4>1. Head(all) \in Nat BY <3>1, PoolHandles
      <4>2. WithHandle("retire", Head(all)).at = "retire" BY <4>1, IdleFrame DEF Places
      <4> QED BY <2>2, <2>10, <3>1, <4>2 DEF PickOld, ledger, pool, callers, Carries, At
    <3> QED BY <1>1, <2>1, <2>10, <3>1 DEF PickOld, ledger, pool, callers, Carries, At
  <2>11. CASE RetireOld(t)
    <3> DEFINE f == [frame[t] EXCEPT !.at = "remove"]
    <3>1. Enter(t, f) /\ f.at = "remove"
        BY <2>11, PoolTypes DEF RetireOld, Continue, Enter, Frames
    <3> HIDE DEF f
    <3> QED BY <2>2, <2>11, <3>1 DEF RetireOld, Release, pool, callers, Carries, At
  <2>12. CASE RemoveOld(t)
      BY <1>1, <2>1, <2>12 DEF RemoveOld, ledger, callers, Carries, At
  <2>13. CASE \E d \in Devices : MarkFailed(t, d)
    <3>1. PICK d \in Devices : MarkFailed(t, d) BY <2>13
    <3>2. WithDevice("drain", d, 0).at = "drain" BY IdleFrame DEF Places
    <3> QED BY <2>2, <3>1, <3>2 DEF MarkFailed, pool, callers, Carries, At
  <2>14. CASE Drain(t)
      BY <1>1, <2>1, <2>14 DEF Drain, pool, callers, Carries, At
  <2> QED BY <1>2, <2>3, <2>4, <2>5, <2>6, <2>7, <2>8, <2>9, <2>10, <2>11, <2>12, <2>13,
             <2>14, HandlesAcquire, HandlesRelease, HandlesWarm DEF Step
<1>3. CASE UNCHANGED vars
  <2>1. SameHands BY <1>1, <1>3 DEF vars, ledger, pool, callers, SameHands, Carries, At
  <2> QED BY <1>1, <2>1, HandsKept
<1> QED BY <1>2, <1>3 DEF Next

LEMMA OneHolder ==
  ASSUME SchedulerInv, HandlesInv, NEW h, Held(h)
  PROVE  Cardinality(Queued(h)) + Cardinality(Leasing(h)) + Cardinality(Returning(h)) = 1
<1> USE DEF HandlesInv
<1>1. \A t \in Threads : At(t, "put") => Carries(t) BY DEF At, Carries
<1>2. Cardinality({}) = 0 /\ \A x : Cardinality({x}) = 1 BY FS_EmptySet, FS_Singleton
<1>3. CASE InQueue(h)
  <2>1. PICK i \in DOMAIN avail : avail[i] = h BY <1>3 DEF InQueue
  <2>2. Queued(h) = {i} BY <2>1 DEF Queued, Exclusive
  <2>3. Leasing(h) = {} BY <1>3 DEF Leasing, Exclusive
  <2>4. Returning(h) = {} BY <1>1, <1>3 DEF Returning, Exclusive
  <2> QED BY <1>2, <2>2, <2>3, <2>4
<1>4. ASSUME NEW t \in Threads, h \in leased[t]
      PROVE  Cardinality(Queued(h)) + Cardinality(Leasing(h)) + Cardinality(Returning(h)) = 1
  <2>1. Queued(h) = {} BY <1>4 DEF Queued, Exclusive, InQueue
  <2>2. Leasing(h) = {t} BY <1>4 DEF Leasing, Exclusive
  <2>3. Returning(h) = {} BY <1>1, <1>4 DEF Returning, Exclusive
  <2>4. Cardinality(Queued(h)) = 0 /\ Cardinality(Leasing(h)) = 1 /\ Cardinality(Returning(h)) = 0
      BY <1>2, <2>1, <2>2, <2>3
  <2> QED BY <2>4
<1>5. ASSUME NEW t \in Threads, At(t, "put"), frame[t].handle = h
      PROVE  Cardinality(Queued(h)) + Cardinality(Leasing(h)) + Cardinality(Returning(h)) = 1
  <2>1. Queued(h) = {} BY <1>1, <1>5 DEF Queued, Exclusive, InQueue
  <2>2. Leasing(h) = {} BY <1>1, <1>5 DEF Leasing, Exclusive
  <2>3. Returning(h) = {t} BY <1>1, <1>5 DEF Returning, Exclusive, Carried
  <2>4. Cardinality(Queued(h)) = 0 /\ Cardinality(Leasing(h)) = 0 /\ Cardinality(Returning(h)) = 1
      BY <1>2, <2>1, <2>2, <2>3
  <2> QED BY <2>4
<1> QED BY <1>3, <1>4, <1>5 DEF Held

(* Exclusive use: however acquires, releases and scale-ups of any number   *)
(* of threads interleave, an admitted handle is in exactly one place.      *)
THEOREM HandlesAreExclusive == Spec => []HandleInOnePlace
<1>1. SchedulerInv /\ HandlesInv => HandleInOnePlace
  <2> SUFFICES ASSUME SchedulerInv, HandlesInv, NEW h \in Admitted
               PROVE  Cardinality(Queued(h)) + Cardinality(Leasing(h))
                        + Cardinality(Returning(h)) = 1
      BY DEF HandleInOnePlace
  <2>1. Held(h) BY DEF Admitted, HandlesInv, NoneLost, Held, InQueue
  <2> QED BY <2>1, OneHolder
<1> QED BY <1>1, HandlesInit, HandlesStep, SchedulerInvariant, PTL DEF Spec

-------------------------------------------------------------------------------
(* Sums over finite sets.  What holds of the empty set and of a set as     *)
(* soon as it holds of every smaller one holds of all: a counterexample    *)
(* would contain a smallest one.                                           *)
LEMMA SmallestSet ==
  ASSUME NEW S, IsFiniteSet(S), NEW B, B \subseteq SUBSET S, B # {}
  PROVE  \E T \in B : \A U \in SUBSET T : U # T => U \notin B
<1>1. B \subseteq FiniteSubsetsOf(S)
  BY FS_Subset DEF FiniteSubsetsOf
<1>2. PICK T \in B : \A U \in B : ~(<<U, T>> \in StrictSubsetOrdering(S))
  BY <1>1, FS_StrictSubsetOrderingWellFounded, WFMin, Zenon
<1>3. ASSUME NEW U \in SUBSET T, U # T, U \in B  PROVE FALSE
  BY <1>2, <1>3 DEF StrictSubsetOrdering
<1> QED BY <1>2, <1>3

\* The VRAM of a set of tokens, of the tokens issued in gs.
SumMb(gs, T) == MapThenSumSet(LAMBDA k : gs[k].mb, T)

Some(s) == CHOOSE x \in s : TRUE
SumsUp(gs, S, f) ==
  f = [s \in SUBSET S |-> IF s = {} THEN 0 ELSE gs[Some(s)].mb + f[s \ {Some(s)}]]

\* The library folds with the function that satisfies this equation...
LEMMA SumIsChosen ==
  ASSUME NEW gs, NEW T
  PROVE  SumMb(gs, T) = (CHOOSE f : SumsUp(gs, T, f))[T]
BY DEF SumMb, MapThenSumSet, MapThenFoldSet, SumsUp, Some

LEMMA SomeIn == ASSUME NEW s, s # {} PROVE Some(s) \in s
BY DEF Some

\* ... of which there is one, up to the sets it is defined on...
LEMMA SumsAgree ==
  ASSUME NEW gs, NEW S, IsFiniteSet(S), NEW T \in SUBSET S,
         NEW f, SumsUp(gs, S, f), NEW h, SumsUp(gs, T, h)
  PROVE  f[T] = h[T]
<1> DEFINE B == {U \in SUBSET T : f[U] # h[U]}
<1> SUFFICES ASSUME B # {} PROVE FALSE
  OBVIOUS
<1>1. PICK U \in B : \A V \in SUBSET U : V # U => V \notin B
  <2>1. IsFiniteSet(T) /\ B \subseteq SUBSET T
    BY FS_Subset
  <2> HIDE DEF B
  <2> QED BY <2>1, SmallestSet
<1>2. U \in SUBSET T /\ U \in SUBSET S
  OBVIOUS
<1> DEFINE V == U \ {Some(U)}
<1>3. /\ f[U] = IF U = {} THEN 0 ELSE gs[Some(U)].mb + f[V]
      /\ h[U] = IF U = {} THEN 0 ELSE gs[Some(U)].mb + h[V]
  BY <1>2 DEF SumsUp
<1>4. CASE U = {}
  BY <1>3, <1>4
<1>5. CASE U # {}
  <2>1. V \in SUBSET U /\ V # U
    BY <1>5, SomeIn
  <2>2. f[V] = h[V]
    BY <1>1, <2>1
  <2> QED BY <1>3, <1>5, <2>2
<1> QED BY <1>4, <1>5

\* ... and there is one for every finite set.
LEMMA SumExists ==
  ASSUME NEW gs, NEW S, IsFiniteSet(S)
  PROVE  \E f : SumsUp(gs, S, f)
<1> DEFINE B == {U \in SUBSET S : ~\E f : SumsUp(gs, U, f)}
<1> SUFFICES ASSUME B # {} PROVE FALSE
  BY Zenon
<1>1. PICK T \in B : \A V \in SUBSET T : V # T => V \notin B
  <2>1. B \subseteq SUBSET S
    OBVIOUS
  <2> HIDE DEF B
  <2> QED BY <2>1, SmallestSet
<1>2. T \in SUBSET S /\ IsFiniteSet(T)
  BY FS_Subset
<1>3. ASSUME NEW V \in SUBSET T, V # T
      PROVE  /\ SumsUp(gs, V, CHOOSE f : SumsUp(gs, V, f))
             /\ SumMb(gs, V) = (CHOOSE f : SumsUp(gs, V, f))[V]
  <2>1. \E f : SumsUp(gs, V, f)
    BY <1>1, <1>2, <1>3, Zenon
  <2> QED BY <2>1, SumIsChosen, Zenon
<1>4. ASSUME NEW V \in SUBSET T, V # T
      PROVE  SumMb(gs, V) = IF V = {} THEN 0 ELSE gs[Some(V)].mb + SumMb(gs, V \ {Some(V)})
  <2> DEFINE W == V \ {Some(V)}
             fV == CHOOSE f : SumsUp(gs, V, f)
             fW == CHOOSE f : SumsUp(gs, W, f)
  <2>1. SumsUp(gs, V, fV) /\ SumMb(gs, V) = fV[V]
    BY <1>3, <1>4, Zenon
  <2>2. V \in SUBSET V /\ fV[V] = IF V = {} THEN 0 ELSE gs[Some(V)].mb + fV[W]
    <3> HIDE DEF fV
    <3> QED BY <2>1 DEF SumsUp
  <2>3. CASE V # {}
    <3>1. W \in SUBSET T /\ W # T /\ W \in SUBSET V
      BY <1>4, <2>3, SomeIn
    <3>2. SumsUp(gs, W, fW) /\ SumMb(gs, W) = fW[W]
      BY <1>3, <3>1, Zenon
    <3>3. IsFiniteSet(V)
      BY <1>2, FS_Subset
    <3>4. fV[W] = fW[W]
      <4> HIDE DEF fV, fW, W
      <4> QED BY <2>1, <3>1, <3>2, <3>3, SumsAgree
    <3> QED
      <4> HIDE DEF fV, fW, W
      <4>1. SumMb(gs, V) = gs[Some(V)].mb + SumMb(gs, W)
        BY <2>1, <2>2, <2>3, <3>2, <3>4, Zenon
      <4> QED BY <4>1, <2>3 DEF W
  <2>4. CASE V = {}
    <3> HIDE DEF fV, fW
    <3> QED BY <2>1, <2>2, <2>4
  <2> QED BY <2>3, <2>4
<1> DEFINE g == [s \in SUBSET T |-> IF s = {} THEN 0 ELSE gs[Some(s)].mb + SumMb(gs, s \ {Some(s)})]
<1>5. SumsUp(gs, T, g)
  <2>1. ASSUME NEW s \in SUBSET T, s # {}
        PROVE  g[s \ {Some(s)}] = SumMb(gs, s \ {Some(s)})
    <3> DEFINE W == s \ {Some(s)}
    <3>1. W \in SUBSET T /\ W # T
      BY <2>1, SomeIn
    <3> QED BY <1>4, <3>1, Zenon
  <2>2. g = [s \in SUBSET T |-> IF s = {} THEN 0 ELSE gs[Some(s)].mb + g[s \ {Some(s)}]]
    <3>1. \A s \in SUBSET T : s # {} => SumMb(gs, s \ {Some(s)}) = g[s \ {Some(s)}]
      BY <2>1, Zenon
    <3>2. g = [s \in SUBSET T |-> IF s = {} THEN 0 ELSE gs[Some(s)].mb + SumMb(gs, s \ {Some(s)})]
      OBVIOUS
    <3> HIDE DEF g
    <3> QED BY <3>1, <3>2
  <2> HIDE DEF g
  <2> QED BY <2>2 DEF SumsUp
<1>6. ~\E f : SumsUp(gs, T, f)
  OBVIOUS
<1> QED BY <1>5, <1>6, Zenon

LEMMA SumStep ==
  ASSUME NEW gs, NEW T, IsFiniteSet(T)
  PROVE  SumMb(gs, T) = IF T = {} THEN 0 ELSE gs[Some(T)].mb + SumMb(gs, T \ {Some(T)})
<1> DEFINE W == T \ {Some(T)}
           fT == CHOOSE f : SumsUp(gs, T, f)
           fW == CHOOSE f : SumsUp(gs, W, f)
<1>1. SumsUp(gs, T, fT) /\ SumMb(gs, T) = fT[T]
  BY SumExists, SumIsChosen, Zenon
<1>2. SumsUp(gs, W, fW) /\ SumMb(gs, W) = fW[W] /\ W \in SUBSET T
  <2>1. IsFiniteSet(W)
    BY FS_RemoveElement
  <2> QED BY <2>1, SumExists, SumIsChosen, Zenon
<1> HIDE DEF fT, fW
<1>3. fT[W] = fW[W]
  BY <1>1, <1>2, SumsAgree
<1>4. fT[T] = IF T = {} THEN 0 ELSE gs[Some(T)].mb + fT[W]
  BY <1>1 DEF SumsUp
<1> QED BY <1>1, <1>2, <1>3, <1>4

LEMMA SumNat ==
  ASSUME NEW gs, NEW S, IsFiniteSet(S), \A k \in S : gs[k].mb \in Nat
  PROVE  SumMb(gs, S) \in Nat
<1> DEFINE B == {U \in SUBSET S : SumMb(gs, U) \notin Nat}
<1> SUFFICES ASSUME B # {} PROVE FALSE
  OBVIOUS
<1>1. PICK T \in B : \A V \in SUBSET T : V # T => V \notin B
  <2>1. B \subseteq SUBSET S
    OBVIOUS
  <2> HIDE DEF B
  <2> QED BY <2>1, SmallestSet
<1>2. SumMb(gs, T) = IF T = {} THEN 0 ELSE gs[Some(T)].mb + SumMb(gs, T \ {Some(T)})
  BY FS_Subset, SumStep
<1>3. CASE T # {}
  <2>1. T \ {Some(T)} \in SUBSET T /\ T \ {Some(T)} # T /\ Some(T) \in S
    BY <1>3, SomeIn
  <2>2. SumMb(gs, T \ {Some(T)}) \in Nat
    BY <1>1, <2>1
  <2> QED BY <1>2, <1>3, <2>1, <2>2
<1> QED BY <1>2, <1>3

\* Any element can be taken out first.
LEMMA SumTakeOut ==
  ASSUME NEW gs, NEW S, IsFiniteSet(S), \A k \in S : gs[k].mb \in Nat, NEW x \in S
  PROVE  SumMb(gs, S) = gs[x].mb + SumMb(gs, S \ {x})
<1> DEFINE B == {U \in SUBSET S : \E z \in U : SumMb(gs, U) # gs[z].mb + SumMb(gs, U \ {z})}
<1> SUFFICES ASSUME B # {} PROVE FALSE
  OBVIOUS
<1>1. PICK T \in B : \A V \in SUBSET T : V # T => V \notin B
  <2>1. B \subseteq SUBSET S
    OBVIOUS
  <2> HIDE DEF B
  <2> QED BY <2>1, SmallestSet
<1>2. PICK z \in T : SumMb(gs, T) # gs[z].mb + SumMb(gs, T \ {z})
  OBVIOUS
<1> DEFINE y == Some(T)
           Tz == T \ {z}
           Ty == T \ {y}
<1>3. /\ T # {} /\ y \in T /\ T \subseteq S
      /\ Tz \in SUBSET T /\ Tz # T /\ Ty \in SUBSET T /\ Ty # T
      /\ IsFiniteSet(T)
  BY SomeIn, FS_Subset
<1>4. SumMb(gs, T) = gs[y].mb + SumMb(gs, Ty)
  BY <1>3, SumStep
<1>5. z # y
  BY <1>2, <1>4
<1> HIDE DEF y
<1>6. SumMb(gs, Ty) = gs[z].mb + SumMb(gs, Ty \ {z})
  BY <1>1, <1>3, <1>5
<1>7. SumMb(gs, Tz) = gs[y].mb + SumMb(gs, Tz \ {y})
  BY <1>1, <1>3, <1>5
<1>8. Ty \ {z} = Tz \ {y}
  OBVIOUS
<1>9. SumMb(gs, Ty \ {z}) \in Nat /\ gs[y].mb \in Nat /\ gs[z].mb \in Nat
  <2>1. IsFiniteSet(Ty \ {z})
    BY <1>3, FS_Subset
  <2>2. \A k \in Ty \ {z} : gs[k].mb \in Nat
    BY <1>3
  <2> QED BY <1>3, <2>1, <2>2, SumNat
<1> HIDE DEF Ty, Tz
<1>10. SumMb(gs, T) = gs[z].mb + SumMb(gs, Tz)
  <2>1. SumMb(gs, T) = gs[y].mb + (gs[z].mb + SumMb(gs, Ty \ {z}))
    BY <1>4, <1>6
  <2>2. SumMb(gs, Tz) = gs[y].mb + SumMb(gs, Ty \ {z})
    BY <1>7, <1>8
  <2> QED BY <1>9, <2>1, <2>2
<1> QED BY <1>2, <1>10 DEF Tz

LEMMA SumEmpty == ASSUME NEW gs PROVE SumMb(gs, {}) = 0
BY SumStep, FS_EmptySet

LEMMA SumPutIn ==
  ASSUME NEW gs, NEW S, IsFiniteSet(S), NEW x, x \notin S,
         \A k \in S \cup {x} : gs[k].mb \in Nat
  PROVE  SumMb(gs, S \cup {x}) = gs[x].mb + SumMb(gs, S)
<1>1. IsFiniteSet(S \cup {x}) /\ (S \cup {x}) \ {x} = S /\ x \in S \cup {x}
  BY FS_AddElement
<1> QED BY <1>1, SumTakeOut

LEMMA SumSame ==
  ASSUME NEW gs, NEW hs, NEW S, IsFiniteSet(S), \A k \in S : gs[k].mb = hs[k].mb
  PROVE  SumMb(gs, S) = SumMb(hs, S)
<1> DEFINE B == {U \in SUBSET S : SumMb(gs, U) # SumMb(hs, U)}
<1> SUFFICES ASSUME B # {} PROVE FALSE
  OBVIOUS
<1>1. PICK T \in B : \A V \in SUBSET T : V # T => V \notin B
  <2>1. B \subseteq SUBSET S
    OBVIOUS
  <2> HIDE DEF B
  <2> QED BY <2>1, SmallestSet
<1>2. /\ SumMb(gs, T) = IF T = {} THEN 0 ELSE gs[Some(T)].mb + SumMb(gs, T \ {Some(T)})
      /\ SumMb(hs, T) = IF T = {} THEN 0 ELSE hs[Some(T)].mb + SumMb(hs, T \ {Some(T)})
  BY FS_Subset, SumStep
<1>3. CASE T # {}
  <2>1. T \ {Some(T)} \in SUBSET T /\ T \ {Some(T)} # T /\ Some(T) \in S
    BY <1>3, SomeIn
  <2>2. SumMb(gs, T \ {Some(T)}) = SumMb(hs, T \ {Some(T)})
    BY <1>1, <2>1
  <2> QED BY <1>2, <1>3, <2>1, <2>2
<1> QED BY <1>2, <1>3

LEMMA SumEqualParts ==
  ASSUME NEW gs, NEW c \in Nat, NEW S, IsFiniteSet(S), \A k \in S : gs[k].mb = c
  PROVE  SumMb(gs, S) = c * Cardinality(S)
<1> DEFINE B == {U \in SUBSET S : SumMb(gs, U) # c * Cardinality(U)}
<1> SUFFICES ASSUME B # {} PROVE FALSE
  OBVIOUS
<1>1. PICK T \in B : \A V \in SUBSET T : V # T => V \notin B
  <2>1. B \subseteq SUBSET S
    OBVIOUS
  <2> HIDE DEF B
  <2> QED BY <2>1, SmallestSet
<1>2. IsFiniteSet(T) /\ T \subseteq S
  BY FS_Subset
<1>3. SumMb(gs, T) = IF T = {} THEN 0 ELSE gs[Some(T)].mb + SumMb(gs, T \ {Some(T)})
  BY <1>2, SumStep
<1>4. CASE T # {}
  <2> DEFINE V == T \ {Some(T)}
  <2>1. V \in SUBSET T /\ V # T /\ Some(T) \in T
    BY <1>4, SomeIn
  <2>2. SumMb(gs, V) = c * Cardinality(V)
    BY <1>1, <2>1
  <2>3. Cardinality(V) = Cardinality(T) - 1 /\ Cardinality(T) \in Nat
    BY <1>2, <2>1, FS_RemoveElement, FS_CardinalityType
  <2> HIDE DEF V
  <2>4. SumMb(gs, T) = c + c * (Cardinality(T) - 1)
    BY <1>2, <1>3, <1>4, <2>1, <2>2, <2>3 DEF V
  <2>5. SumMb(gs, T) = c * Cardinality(T)
    BY <2>3, <2>4
  <2> QED BY <2>5
<1>5. CASE T = {}
  BY <1>3, <1>5, FS_EmptySet
<1> QED BY <1>4, <1>5

-------------------------------------------------------------------------------
(* The running total of a device is the sum of its live tokens.            *)

OnDevice(d) == {k \in live : grants[k].device = d}

\* The library's sum is the one the lemmas above are about.
LEMMA ExactIsASum ==
  LedgerExact <=> \A d \in Devices : allocated[d] = SumMb(grants, OnDevice(d))
BY DEF LedgerExact, SumMb, Mb, OnDevice

LEMMA ExactIsASumNext ==
  LedgerExact' <=> \A d \in Devices : allocated'[d] = SumMb(grants', OnDevice(d)')
<1>1. LedgerExact' <=> (\A d \in Devices : allocated[d] = SumMb(grants, OnDevice(d)))'
    BY ExactIsASum, PTL
<1> QED BY <1>1

LEMMA LiveTokens ==
  ASSUME LedgerOK
  PROVE  /\ Len(grants) \in Nat
         /\ \A k \in 1..Len(grants) : grants[k].mb \in Nat /\ grants[k].device \in Devices
         /\ \A d \in Devices : /\ OnDevice(d) \subseteq 1..Len(grants)
                               /\ IsFiniteSet(OnDevice(d))
                               /\ \A k \in OnDevice(d) : grants[k].mb \in Nat
<1>1. Len(grants) \in Nat /\ \A k \in 1..Len(grants) : grants[k] \in Grants
    BY DEF LedgerOK
<1>2. \A d \in Devices : OnDevice(d) \subseteq 1..Len(grants)
    BY DEF LedgerOK, OnDevice
<1>3. \A d \in Devices : IsFiniteSet(OnDevice(d))
  <2>1. IsFiniteSet(1..Len(grants))
      BY <1>1, FS_Interval
  <2> QED BY <1>2, <2>1, FS_Subset
<1> QED BY <1>1, <1>2, <1>3 DEF Grants

LEMMA GrantExact ==
  ASSUME LedgerOK, LedgerExact, NEW mb \in Nat, NEW d \in Devices, Grant(mb, d)
  PROVE  LedgerExact'
<1> DEFINE n == Len(grants) + 1
<1>1. /\ allocated' = [allocated EXCEPT ![d] = @ + mb]
      /\ grants' = Append(grants, [device |-> d, mb |-> mb])
      /\ live' = live \cup {n}
    BY DEF Grant, NextToken
<1>2. /\ grants'[n].device = d /\ grants'[n].mb = mb /\ n \notin 1..Len(grants)
      /\ \A k \in 1..Len(grants) : grants'[k] = grants[k]
    BY <1>1 DEF LedgerOK
<1> HIDE DEF n
<1>3. ASSUME NEW e \in Devices
      PROVE  allocated'[e] = SumMb(grants', OnDevice(e)')
  <2> DEFINE S == OnDevice(e)
  <2>1. /\ S \subseteq 1..Len(grants) /\ IsFiniteSet(S)
        /\ \A k \in S : grants[k].mb \in Nat
      BY LiveTokens
  <2>2. SumMb(grants', S) = SumMb(grants, S)
      BY <1>2, <2>1, SumSame
  <2>3. allocated[e] = SumMb(grants, S) /\ allocated[e] \in Nat
      BY ExactIsASum DEF LedgerOK
  <2>4. OnDevice(e)' = IF e = d THEN S \cup {n} ELSE S
      BY <1>1, <1>2 DEF OnDevice, LedgerOK
  <2> HIDE DEF S
  <2>5. CASE e = d
    <3>1. n \notin S /\ \A k \in S \cup {n} : grants'[k].mb \in Nat
        BY <1>2, <2>1
    <3>2. SumMb(grants', S \cup {n}) = mb + SumMb(grants', S)
        BY <1>2, <2>1, <3>1, SumPutIn
    <3>3. allocated'[e] = allocated[e] + mb
        BY <1>1, <2>5 DEF LedgerOK
    <3> QED BY <2>2, <2>3, <2>4, <2>5, <3>2, <3>3
  <2>6. CASE e # d
    <3>1. allocated'[e] = allocated[e]
        BY <1>1, <2>6 DEF LedgerOK
    <3> QED BY <2>2, <2>3, <2>4, <2>6, <3>1
  <2> QED BY <2>5, <2>6
<1> QED BY <1>3, ExactIsASumNext

LEMMA ExactKept ==
  ASSUME LedgerExact, UNCHANGED <<allocated, grants, live>>
  PROVE  LedgerExact'
<1>1. \A d \in Devices : OnDevice(d)' = OnDevice(d)
    BY DEF OnDevice
<1> QED BY <1>1, ExactIsASum, ExactIsASumNext

LEMMA ReleaseExact ==
  ASSUME LedgerOK, LedgerExact, NEW k \in Nat, Release(k)
  PROVE  LedgerExact'
<1>1. live' = live \ {k} /\ grants' = grants
    BY DEF Release
<1>2. CASE k \notin live
  <2>1. live' = live /\ allocated' = allocated
      BY <1>1, <1>2 DEF Release
  <2> QED BY <1>1, <2>1, ExactKept
<1>3. CASE k \in live
  <2> DEFINE d == grants[k].device
             mb == grants[k].mb
  <2>1. d \in Devices /\ mb \in Nat
      BY <1>3, LiveTokens DEF LedgerOK
  <2>2. allocated' = [allocated EXCEPT ![d] = Lower(@, mb)]
      BY <1>3 DEF Release
  <2>3. \A e \in Devices : OnDevice(e)' = OnDevice(e) \ {k} /\ (k \in OnDevice(e) <=> e = d)
      BY <1>1, <1>3 DEF OnDevice
  <2>4. ASSUME NEW e \in Devices
        PROVE  allocated'[e] = SumMb(grants', OnDevice(e)')
    <3> DEFINE S == OnDevice(e)
    <3>1. IsFiniteSet(S) /\ (\A j \in S : grants[j].mb \in Nat)
        BY LiveTokens
    <3>2. allocated[e] = SumMb(grants, S) /\ allocated[e] \in Nat
        BY ExactIsASum DEF LedgerOK
    <3>3. OnDevice(e)' = S \ {k} /\ (k \in S <=> e = d)
        BY <2>3
    <3> HIDE DEF S
    <3>4. CASE e = d
      <4>1. SumMb(grants, S) = mb + SumMb(grants, S \ {k})
          BY <3>1, <3>3, <3>4, SumTakeOut
      <4>2. SumMb(grants, S \ {k}) \in Nat
          BY <3>1, FS_RemoveElement, SumNat
      <4>3. allocated'[e] = Lower(allocated[e], mb)
          BY <2>1, <2>2, <3>4 DEF LedgerOK
      <4> HIDE DEF d, mb
      <4>4. Lower(allocated[e], mb) = SumMb(grants, S \ {k})
          BY <2>1, <3>2, <4>1, <4>2 DEF Lower
      <4> QED BY <1>1, <3>3, <4>3, <4>4
    <3>5. CASE e # d
      <4>1. allocated'[e] = allocated[e]
          BY <2>1, <2>2, <3>5 DEF LedgerOK
      <4>2. OnDevice(e)' = S
          BY <3>3, <3>5
      <4> QED BY <1>1, <3>2, <4>1, <4>2
    <3> QED BY <3>4, <3>5
  <2> QED BY <2>4, ExactIsASumNext
<1> QED BY <1>2, <1>3

LEMMA DrainExact ==
  ASSUME SchedulerInv, LedgerExact, NEW t \in Threads, Drain(t)
  PROVE  LedgerExact'
<1> DEFINE d == frame[t].device
<1>1. d \in Devices /\ LedgerOK
    BY DEF Drain, At, SchedulerInv, CallsOK, FrameOK
<1>2. /\ live' = {k \in live : grants[k].device # d}
      /\ allocated' = [allocated EXCEPT ![d] = 0]
      /\ grants' = grants
    BY DEF Drain
<1>3. ASSUME NEW e \in Devices
      PROVE  allocated'[e] = SumMb(grants', OnDevice(e)')
  <2>1. OnDevice(e)' = IF e = d THEN {} ELSE OnDevice(e)
      BY <1>2 DEF OnDevice
  <2>2. allocated'[e] = IF e = d THEN 0 ELSE allocated[e]
      BY <1>1, <1>2 DEF LedgerOK
  <2>3. allocated[e] = SumMb(grants, OnDevice(e))
      BY ExactIsASum
  <2> QED BY <1>2, <2>1, <2>2, <2>3, SumEmpty
<1> QED BY <1>3, ExactIsASumNext

LEMMA ExactInit == Init => LedgerExact
<1> SUFFICES ASSUME Init PROVE LedgerExact
    OBVIOUS
<1>1. LedgerOK
    BY SchedulerInitInv DEF SchedulerInv
<1>2. ASSUME NEW d \in Devices
      PROVE  allocated[d] = SumMb(grants, OnDevice(d))
  <2> DEFINE S == {i \in 1..PoolSize : SlotDevice(i) = d}
  <2>1. OnDevice(d) = S
      BY DEF Init, OnDevice
  <2>2. IsFiniteSet(S) /\ \A k \in S : grants[k].mb = PoolNeed
      BY <1>1, <2>1, LiveTokens DEF Init
  <2>3. SumMb(grants, S) = PoolNeed * Cardinality(S)
      BY <2>2, Sizing, SumEqualParts
  <2>4. allocated[d] = PoolNeed * Cardinality(S)
      BY DEF Init
  <2> QED BY <2>1, <2>3, <2>4
<1> QED BY <1>2, ExactIsASum

LEMMA ExactStep == SchedulerInv /\ LedgerExact /\ [Next]_vars => LedgerExact'
<1> SUFFICES ASSUME SchedulerInv, LedgerExact, [Next]_vars PROVE LedgerExact'
    OBVIOUS
<1>1. LedgerOK
    BY DEF SchedulerInv
<1>2. ASSUME UNCHANGED <<allocated, grants, live>> PROVE LedgerExact'
    BY <1>2, ExactKept
<1>3. ASSUME NEW t \in Threads, Step(t) PROVE LedgerExact'
  <2>1. CASE Allocate(t)
    <3>1. frame[t].mb \in Nat /\ frame[t].device \in Devices
        BY <2>1 DEF Allocate, At, SchedulerInv, CallsOK, FrameOK, Frames
    <3> QED BY <1>1, <2>1, <3>1, GrantExact DEF Allocate
  <2>2. CASE Warm(t)
      BY <1>1, <2>2, Sizing, GrantExact DEF Warm
  <2>3. CASE \E k \in tokens[t] : ReleaseAllocation(t, k)
    <3>1. PICK k \in tokens[t] : Release(k)
        BY <2>3 DEF ReleaseAllocation
    <3>2. k \in Nat
        BY <3>1 DEF SchedulerInv, PoolOK
    <3> QED BY <1>1, <3>1, <3>2, ReleaseExact
  <2>4. CASE RetireOld(t)
    <3>1. frame[t].handle \in Nat
        BY DEF SchedulerInv, CallsOK, FrameOK, Frames
    <3> QED BY <1>1, <2>4, <3>1, ReleaseExact DEF RetireOld
  <2>5. CASE Drain(t)
      BY <2>5, DrainExact
  <2>6. CASE \/ \E mb \in Sizes : Request(t, mb)
             \/ AllocateRaises(t) \/ Acquire(t) \/ PutBack(t) \/ Admit(t)
             \/ \E h \in leased[t] : ReleaseModel(t, h)
             \/ \E retire_old \in BOOLEAN : QueueNew(t, retire_old)
             \/ PickOld(t) \/ RemoveOld(t)
             \/ \E d \in Devices : MarkFailed(t, d)
      BY <1>2, <2>6 DEF Request, AllocateRaises, Acquire, PutBack, Admit, ReleaseModel,
         QueueNew, PickOld, RemoveOld, MarkFailed, ledger
  <2> QED BY <1>3, <2>1, <2>2, <2>3, <2>4, <2>5, <2>6 DEF Step
<1>4. CASE UNCHANGED vars
    BY <1>2, <1>4 DEF vars, ledger
<1> QED BY <1>3, <1>4 DEF Next

(* The ledger's running totals never drift: whatever is granted, released, *)
(* released twice, or released after its device was drained, the total of  *)
(* each device is the sum of the tokens it still holds.                    *)
THEOREM LedgerNeverDrifts == Spec => []LedgerExact
<1> QED BY ExactInit, ExactStep, SchedulerInvariant, PTL DEF Spec
-------------------------------------------------------------------------------
(* The scheduler implements VRAMReservations.                              *)

LEMMA UsedIsTheTotal ==
  ASSUME LedgerOK, LedgerExact, NEW d \in Devices
  PROVE  Reservations!On(d) = OnDevice(d) /\ Reservations!Used(d) = allocated[d]
<1>1. Reservations!On(d) = OnDevice(d)
    BY DEF Reservations!On, Reserved, OnDevice
<1>2. Reservations!Used(d) = SumMb(Reserved, OnDevice(d))
    BY <1>1 DEF Reservations!Used, Reservations!MapThenSumSet, Reservations!MapThenFoldSet,
                SumMb, MapThenSumSet, MapThenFoldSet
<1>3. IsFiniteSet(OnDevice(d)) /\ \A k \in OnDevice(d) : Reserved[k].mb = grants[k].mb
  <2>1. OnDevice(d) \subseteq live
      BY DEF OnDevice
  <2> QED BY <2>1, LiveTokens DEF Reserved
<1>4. SumMb(Reserved, OnDevice(d)) = SumMb(grants, OnDevice(d))
    BY <1>3, SumSame
<1> QED BY <1>1, <1>2, <1>4, ExactIsASum

LEMMA GrantReserves ==
  ASSUME LedgerOK, LedgerExact, NEW mb \in Nat \ {0}, NEW d \in Devices, Fits(mb, d), Grant(mb, d),
         drained' = drained
  PROVE  Reservations!Next
<1> DEFINE n == Len(grants) + 1
<1>1. /\ grants' = Append(grants, [device |-> d, mb |-> mb])
      /\ live' = live \cup {n}
    BY DEF Grant, NextToken
<1>2. /\ Len(grants) \in Nat /\ Len(grants') = n
      /\ grants'[n] = [device |-> d, mb |-> mb] /\ n \notin 1..Len(grants)
      /\ \A k \in live : grants'[k] = grants[k]
      /\ 1..n = (1..Len(grants)) \cup {n}
    BY <1>1 DEF LedgerOK
<1>3. d \notin drained /\ Reservations!Used(d) + mb <= Total[d]
  <2>1. /\ allocated[d] \in Nat /\ Total[d] \in Nat /\ mb <= Available(d)
      BY Sizing DEF Fits, LedgerOK
  <2>2. /\ healthy[d] /\ allocated[d] + mb <= Total[d]
      BY <2>1 DEF Available
  <2> QED BY <2>2, UsedIsTheTotal DEF LedgerOK
<1> HIDE DEF n
<1>4. n \notin DOMAIN Reserved \cup Spent /\ n \in DOMAIN Reserved'
    BY <1>1, <1>2 DEF Reserved, Spent, LedgerOK
<1>5. Reserved' = [j \in DOMAIN Reserved \cup {n} |->
                 IF j = n THEN [device |-> d, mb |-> mb] ELSE Reserved[j]]
    BY <1>1, <1>2 DEF Reserved, LedgerOK
<1>6. Spent' = Spent
    BY <1>1, <1>2 DEF Spent, LedgerOK
<1>7. Reserved'[n].mb = mb
    BY <1>5
<1>8. Reservations!Reserve(n, d, Reserved'[n].mb)
    BY <1>3, <1>4, <1>5, <1>6, <1>7 DEF Reservations!Reserve
<1> QED BY <1>4, <1>8 DEF Reservations!Next

LEMMA ReleaseFrees ==
  ASSUME LedgerOK, NEW k \in Nat, Release(k), drained' = drained
  PROVE  Reservations!Next \/ UNCHANGED <<Reserved, Spent, drained>>
<1>1. live' = live \ {k} /\ grants' = grants
    BY DEF Release
<1>2. CASE k \notin live
  <2>1. live' = live
      BY <1>1, <1>2
  <2> QED BY <1>1, <2>1 DEF Reserved, Spent
<1>3. CASE k \in live
  <2>1. Reserved' = [j \in DOMAIN Reserved \ {k} |-> Reserved[j]]
      BY <1>1 DEF Reserved
  <2>2. Spent' = Spent \cup {k}
      BY <1>1, <1>3 DEF Spent, LedgerOK
  <2>3. k \in DOMAIN Reserved
      BY <1>3 DEF Reserved
  <2>4. Reservations!Free(k)
      BY <2>1, <2>2, <2>3 DEF Reservations!Free, Reservations!Without
  <2> QED BY <2>3, <2>4 DEF Reservations!Next
<1> QED BY <1>2, <1>3

LEMMA DrainFails ==
  ASSUME SchedulerInv, NEW t \in Threads, Drain(t)
  PROVE  Reservations!Next
<1> DEFINE d == frame[t].device
<1>1. d \in Devices /\ LedgerOK
    BY DEF Drain, At, SchedulerInv, CallsOK, FrameOK
<1>2. /\ live' = {k \in live : grants[k].device # d} /\ grants' = grants
      /\ drained' = drained \cup {d}
    BY DEF Drain
<1>3. Reservations!On(d) = {k \in live : grants[k].device = d}
    BY DEF Reservations!On, Reserved
<1> HIDE DEF d
<1>4. Reserved' = [j \in DOMAIN Reserved \ Reservations!On(d) |-> Reserved[j]]
    BY <1>2, <1>3 DEF Reserved
<1>5. Spent' = Spent \cup Reservations!On(d)
    BY <1>1, <1>2, <1>3 DEF Spent, LedgerOK
<1>6. Reservations!Fail(d)
    BY <1>2, <1>4, <1>5 DEF Reservations!Fail, Reservations!Without
<1> QED BY <1>1, <1>6 DEF Reservations!Next

LEMMA ReservationsKept ==
  ASSUME UNCHANGED <<grants, live, drained>>
  PROVE  UNCHANGED <<Reserved, Spent, drained>>
BY DEF Reserved, Spent

LEMMA InitReserves == Init => Reservations!Init
<1> SUFFICES ASSUME Init PROVE Reservations!Init
    OBVIOUS
<1>1. LedgerOK /\ LedgerExact
    BY SchedulerInitInv, ExactInit DEF SchedulerInv
<1>2. \A d \in Devices : Reservations!Used(d) <= Total[d]
    BY <1>1, UsedIsTheTotal DEF LedgerOK, WithinCapacity
<1>3. \A k \in DOMAIN Reserved : Reserved[k].device \in Devices
    BY <1>1, LiveTokens DEF Reserved, LedgerOK
<1>4. Spent = {}
  <2>1. Len(grants) = PoolSize
      BY SchedulerAssumption DEF Init
  <2> QED BY <2>1 DEF Init, Spent
<1> QED BY <1>2, <1>3, <1>4 DEF Init, Reservations!Init

LEMMA StepReserves ==
  SchedulerInv /\ LedgerExact /\ [Next]_vars => [Reservations!Next]_(Reservations!reservationVars)
<1> SUFFICES ASSUME SchedulerInv, LedgerExact, [Next]_vars
             PROVE  Reservations!Next \/ UNCHANGED <<Reserved, Spent, drained>>
    BY DEF Reservations!reservationVars
<1>1. LedgerOK
    BY DEF SchedulerInv
<1>2. ASSUME NEW t \in Threads, Step(t)
      PROVE  Reservations!Next \/ UNCHANGED <<Reserved, Spent, drained>>
  <2>1. CASE Allocate(t)
    <3>1. frame[t].mb \in Nat \ {0} /\ frame[t].device \in Devices
        BY <2>1 DEF Allocate, At, SchedulerInv, CallsOK, FrameOK, Frames
    <3> QED BY <1>1, <2>1, <3>1, GrantReserves DEF Allocate
  <2>2. CASE Warm(t)
      BY <1>1, <2>2, Sizing, GrantReserves DEF Warm
  <2>3. CASE \E k \in tokens[t] : ReleaseAllocation(t, k)
    <3>1. PICK k \in tokens[t] : Release(k) /\ drained' = drained
        BY <2>3 DEF ReleaseAllocation
    <3>2. k \in Nat
        BY <3>1 DEF SchedulerInv, PoolOK
    <3> QED BY <1>1, <3>1, <3>2, ReleaseFrees
  <2>4. CASE RetireOld(t)
    <3>1. frame[t].handle \in Nat
        BY DEF SchedulerInv, CallsOK, FrameOK, Frames
    <3> QED BY <1>1, <2>4, <3>1, ReleaseFrees DEF RetireOld
  <2>5. CASE Drain(t)
      BY <2>5, DrainFails
  <2>6. CASE \/ \E mb \in Sizes : Request(t, mb)
             \/ AllocateRaises(t) \/ Acquire(t) \/ PutBack(t) \/ Admit(t)
             \/ \E h \in leased[t] : ReleaseModel(t, h)
             \/ \E retire_old \in BOOLEAN : QueueNew(t, retire_old)
             \/ PickOld(t) \/ RemoveOld(t)
             \/ \E d \in Devices : MarkFailed(t, d)
    <3>1. UNCHANGED <<grants, live, drained>>
        BY <2>6 DEF Request, AllocateRaises, Acquire, PutBack, Admit, ReleaseModel,
           QueueNew, PickOld, RemoveOld, MarkFailed, ledger
    <3> QED BY <3>1, ReservationsKept
  <2> QED BY <1>2, <2>1, <2>2, <2>3, <2>4, <2>5, <2>6 DEF Step
<1>3. CASE UNCHANGED vars
    BY <1>3, ReservationsKept DEF vars, ledger
<1> QED BY <1>2, <1>3 DEF Next

(* The running totals, the two sections of an allocation, the pool and the *)
(* failover together implement VRAMReservations: each step reserves what   *)
(* fits, frees a token, fails a device, or changes no reservation.         *)
THEOREM SchedulerImplementsReservations == Spec => ImplementsReservations
<1>1. Spec => []LedgerExact
    BY LedgerNeverDrifts
<1> QED BY <1>1, InitReserves, StepReserves, SchedulerInvariant, PTL
        DEF Spec, ImplementsReservations, Reservations!Spec
===============================================================================
