--------------------------- MODULE ResilienceProofs ---------------------------
(***************************************************************************)
(* Proofs about DistributedLock, TenantMigration, CircuitBreaker and       *)
(* WorkerPool for any clients, owners, callers, threshold, tasks, workers. *)
(***************************************************************************)
EXTENDS TenantMigration, CircuitBreaker, WorkerPool, SequenceTheorems, FiniteSetTheorems, TLAPS

-----------------------------------------------------------------------------
(* Fencing.                                                                *)

\* The successful SETs are in a total order; the holder is its last element.
GrantOrder ==
    /\ \A c \in Clients : before[c] \subseteq Granted \ {c}
    /\ \A c, d \in Granted : c # d => (c \in before[d] <=> d \notin before[c])
    /\ lock # None => /\ acq[lock].at \in {"set", "held"}
                      /\ \A d \in Granted : d # lock => d \in before[lock]

\* A token drawn under its lock is smaller than those of all later clients.
TokenOrder ==
    /\ \A c \in Drawn : /\ epoch[c] <= resets
                        /\ epoch[c] = resets => acq[c].token <= counter
    /\ \A c, d \in Drawn : c \in before[d] /\ c \notin late =>
        \/ epoch[c] < epoch[d]
        \/ epoch[c] = epoch[d] /\ acq[c].token < acq[d].token

\* The tracker remembers the largest token it accepted.
TrackerInv ==
    /\ wrote \cup overtaking \cup barred \subseteq Drawn
    /\ \A d \in wrote : acq[d].token <= lastSeen
    /\ lastSeen > 0 => \E d \in wrote : acq[d].token = lastSeen

LockInv == LockTypeOK /\ GrantOrder /\ TokenOrder /\ TrackerInv /\ FencingOrdersWrites

LEMMA LockInvInit == LockInit => LockInv
  BY LockAssumption
  DEF LockInit, LockInv, LockTypeOK, GrantOrder, TokenOrder, TrackerInv, FencingOrdersWrites,
      Acquisition, Granted, Drawn

\* A new grant comes after all others and draws nothing yet.
LEMMA SetNXStep ==
    ASSUME LockInv, NEW c \in Clients, SetNX(c) PROVE LockInv'
  <1> USE DEF LockInv
  <1>1. CASE lock # None
    <2>1. /\ UNCHANGED <<lock, before, counter, epoch, late, expired, resets, trackerVars>>
          /\ acq' = [acq EXCEPT ![c].at = "refused"] /\ acq[c].at = "idle"
      BY <1>1 DEF SetNX, Free
    <2>2. Granted' = Granted /\ Drawn' = Drawn /\ \A d \in Drawn : acq'[d] = acq[d]
      BY <2>1 DEF Granted, Drawn, LockTypeOK, Acquisition
    <2>3. LockTypeOK'
      BY <2>1 DEF LockTypeOK, Acquisition, trackerVars
    <2>4. GrantOrder'
      BY <2>1, <2>2 DEF GrantOrder, LockTypeOK, Acquisition
    <2>5. TokenOrder' /\ TrackerInv' /\ FencingOrdersWrites'
      BY <2>1, <2>2 DEF TokenOrder, TrackerInv, FencingOrdersWrites, trackerVars
    <2> QED BY <2>3, <2>4, <2>5
  <1>2. CASE lock = None
    <2>1. /\ UNCHANGED <<counter, epoch, late, expired, resets, trackerVars>>
          /\ acq[c].at = "idle" /\ lock' = c
          /\ acq' = [acq EXCEPT ![c].at = "set"]
          /\ before' = [before EXCEPT ![c] = Granted]
      BY <1>2 DEF SetNX, Free
    <2>2. /\ Granted' = Granted \cup {c} /\ c \notin Granted
          /\ Drawn' = Drawn /\ c \notin Drawn
          /\ \A d \in Clients \ {c} : acq'[d] = acq[d] /\ before'[d] = before[d]
          /\ before'[c] = Granted /\ acq'[c].at = "set"
          /\ Granted \subseteq Clients /\ Drawn \subseteq Clients
      BY <2>1 DEF Granted, Drawn, LockTypeOK, Acquisition
    <2>3. LockTypeOK'
      BY <2>1, <2>2 DEF LockTypeOK, Acquisition, trackerVars, Granted
    <2>4. GrantOrder'
      BY <2>1, <2>2, LockAssumption DEF GrantOrder
    <2>5. TokenOrder'
      <3>1. \A d \in Drawn : acq'[d] = acq[d] /\ before'[d] = before[d]
        BY <2>2
      <3> QED BY <2>1, <2>2, <3>1 DEF TokenOrder
    <2>6. TrackerInv' /\ FencingOrdersWrites'
      BY <2>1, <2>2 DEF TrackerInv, FencingOrdersWrites, trackerVars
    <2> QED BY <2>3, <2>4, <2>5, <2>6
  <1> QED BY <1>1, <1>2

\* A token is larger than the ones drawn since the counter last expired.
LEMMA DrawTokenStep ==
    ASSUME LockInv, NEW c \in Clients, DrawToken(c) PROVE LockInv'
  <1> USE DEF LockInv
  <1>1. /\ UNCHANGED <<lock, before, resets, expired, trackerVars>>
        /\ acq[c].at = "set"
        /\ counter' = counter + 1
        /\ acq' = [acq EXCEPT ![c] = [at |-> "held", token |-> counter + 1]]
        /\ epoch' = [epoch EXCEPT ![c] = resets]
        /\ late' = IF lock = c THEN late ELSE late \cup {c}
    BY DEF DrawToken, NextToken
  <1>2. /\ Granted' = Granted /\ c \in Granted
        /\ Drawn' = Drawn \cup {c} /\ c \notin Drawn
        /\ \A d \in Clients \ {c} : acq'[d] = acq[d] /\ epoch'[d] = epoch[d]
        /\ acq'[c] = [at |-> "held", token |-> counter + 1] /\ epoch'[c] = resets
        /\ Drawn \subseteq Granted /\ Granted \subseteq Clients
    BY <1>1 DEF Granted, Drawn, LockTypeOK, Acquisition
  <1>3. LockTypeOK'
    BY <1>1 DEF LockTypeOK, Acquisition, trackerVars
  <1>4. GrantOrder'
    BY <1>1, <1>2, LockAssumption DEF GrantOrder, LockTypeOK
  <1>5. TokenOrder'
    <2>1. \A d \in Drawn' : epoch'[d] <= resets' /\ (epoch'[d] = resets' => acq'[d].token <= counter')
      BY <1>1, <1>2 DEF TokenOrder, LockTypeOK, Acquisition
    <2>2. ASSUME NEW d \in Drawn', NEW e \in Drawn', d \in before'[e], d \notin late'
          PROVE  \/ epoch'[d] < epoch'[e]
                 \/ epoch'[d] = epoch'[e] /\ acq'[d].token < acq'[e].token
      <3>1. CASE d = c
        <4>1. lock = c /\ c \in before[e]
          BY <1>1, <2>2, <3>1
        <4>2. e # c => e \in before[c]
          BY <1>2, <4>1, LockAssumption DEF GrantOrder
        <4>3. e = c
          BY <1>2, <4>1, <4>2 DEF GrantOrder
        <4>4. c \notin before[c]
          BY <1>2, <4>1 DEF GrantOrder
        <4> QED BY <4>1, <4>3, <4>4
      <3>2. CASE d # c /\ e = c
        <4>1. d \in Drawn /\ epoch[d] \in Nat /\ acq[d].token \in Nat /\ resets \in Nat /\ counter \in Nat
          BY <1>2, <3>2 DEF LockTypeOK, Acquisition, Drawn
        <4>2. epoch[d] <= resets /\ (epoch[d] = resets => acq[d].token <= counter)
          BY <4>1 DEF TokenOrder
        <4> QED BY <1>1, <1>2, <3>2, <4>1, <4>2
      <3>3. CASE d # c /\ e # c
        BY <1>1, <1>2, <2>2, <3>3 DEF TokenOrder
      <3> QED BY <3>1, <3>2, <3>3
    <2> QED BY <2>1, <2>2 DEF TokenOrder
  <1>6. TrackerInv' /\ FencingOrdersWrites'
    BY <1>1, <1>2 DEF TrackerInv, FencingOrdersWrites, trackerVars
  <1> QED BY <1>3, <1>4, <1>5, <1>6

\* Giving the lock back, and the two expiries, leave the tokens alone.
LEMMA LossStep ==
    ASSUME LockInv, LockExpires \/ CounterExpires \/ \E c \in Clients : Release(c)
    PROVE  LockInv'
  <1> USE DEF LockInv
  <1>1. CASE LockExpires
    BY <1>1, LockAssumption
    DEF LockExpires, LockTypeOK, GrantOrder, TokenOrder, TrackerInv, FencingOrdersWrites, Granted,
        Drawn, trackerVars
  <1>2. CASE CounterExpires
    <2>1. /\ UNCHANGED <<lock, acq, before, epoch, late, expired, trackerVars>>
          /\ counter' = 0 /\ resets' = resets + 1
      BY <1>2 DEF CounterExpires
    <2>2. LockTypeOK' /\ GrantOrder' /\ TrackerInv' /\ FencingOrdersWrites'
      BY <2>1 DEF LockTypeOK, GrantOrder, TrackerInv, FencingOrdersWrites, Granted, Drawn, trackerVars
    <2>3. \A c \in Drawn : epoch[c] \in Nat /\ epoch[c] <= resets /\ resets \in Nat
      BY DEF TokenOrder, LockTypeOK, Drawn
    <2>4. \A c \in Drawn' : epoch'[c] <= resets' /\ epoch'[c] # resets'
      BY <2>1, <2>3 DEF Drawn
    <2>5. TokenOrder'
      BY <2>1, <2>4 DEF TokenOrder, Drawn
    <2> QED BY <2>2, <2>5
  <1>3. CASE \E c \in Clients : Release(c)
    <2>1. PICK c \in Clients : Release(c)
      BY <1>3
    <2>2. /\ UNCHANGED <<counter, before, epoch, late, expired, resets, trackerVars>>
          /\ acq[c].at = "held" /\ acq' = [acq EXCEPT ![c].at = "released"]
          /\ lock' = None \/ (lock' = lock /\ lock # c)
      BY <2>1 DEF Release, OwnsKey
    <2>3. /\ Granted' = Granted /\ Drawn' = Drawn /\ Granted \subseteq Clients /\ Drawn \subseteq Clients
          /\ \A d \in Clients : acq'[d].token = acq[d].token /\ (d # c => acq'[d] = acq[d])
      BY <2>2 DEF Granted, Drawn, LockTypeOK, Acquisition
    <2>4. LockTypeOK'
      BY <2>2 DEF LockTypeOK, Acquisition, trackerVars
    <2>5. GrantOrder'
      <3>1. lock' # None => lock' = lock /\ lock \in Clients \ {c}
        BY <2>2 DEF LockTypeOK
      <3> QED BY <2>2, <2>3, <3>1 DEF GrantOrder
    <2>6. TokenOrder' /\ TrackerInv' /\ FencingOrdersWrites'
      BY <2>2, <2>3 DEF TokenOrder, TrackerInv, FencingOrdersWrites, trackerVars
    <2> QED BY <2>4, <2>5, <2>6
  <1> QED BY <1>1, <1>2, <1>3

\* The tracker accepts and refuses in the order of the tokens.
LEMMA WriteStep ==
    ASSUME LockInv, NEW c \in Clients, Write(c) PROVE LockInv'
  <1> USE DEF LockInv
  <1>1. UNCHANGED lockVars /\ acq[c].at = "held" /\ c \in Drawn
    BY DEF Write, Drawn
  <1>2. Granted' = Granted /\ Drawn' = Drawn /\ Drawn \subseteq Granted /\ Drawn \subseteq Clients
    BY <1>1 DEF lockVars, Granted, Drawn
  <1>3. LockTypeOK' /\ GrantOrder' /\ TokenOrder'
    BY <1>1, <1>2 DEF Write, lockVars, LockTypeOK, Acquisition, GrantOrder, TokenOrder
  <1>4. \A d \in Clients : acq[d].token \in Nat /\ epoch[d] \in Nat
    BY DEF LockTypeOK, Acquisition
  <1>5. lastSeen \in Nat /\ wrote \subseteq Clients
    BY DEF LockTypeOK
  <1>6. CASE acq[c].token >= lastSeen
    <2>1. /\ lastSeen' = acq[c].token /\ wrote' = wrote \cup {c} /\ UNCHANGED barred
          /\ overtaking' = IF \E d \in wrote : c \in before[d] THEN overtaking \cup {c} ELSE overtaking
      BY <1>6 DEF Write, Fresh
    <2>2. TrackerInv'
      BY <1>1, <1>2, <1>4, <1>5, <1>6, <2>1 DEF TrackerInv, lockVars
    <2>3. ASSUME NEW d \in wrote, c \in before[d], c \notin late PROVE epoch[c] < epoch[d]
      <3>1. d \in Drawn /\ acq[d].token <= lastSeen
        BY DEF TrackerInv
      <3> QED BY <1>1, <1>2, <1>4, <1>5, <1>6, <2>3, <3>1 DEF TokenOrder
    <2>4. FencingOrdersWrites'
      BY <1>1, <2>1, <2>3 DEF FencingOrdersWrites, lockVars
    <2> QED BY <1>3, <2>2, <2>4
  <1>7. CASE ~(acq[c].token >= lastSeen)
    <2>1. /\ UNCHANGED <<lastSeen, wrote, overtaking>>
          /\ barred' = IF lock = c THEN barred \cup {c} ELSE barred
      BY <1>7 DEF Write, Fresh
    <2>2. TrackerInv'
      BY <1>1, <1>2, <2>1 DEF TrackerInv, lockVars
    <2>3. PICK d \in wrote : acq[d].token = lastSeen
      BY <1>4, <1>5, <1>7 DEF TrackerInv
    <2>4. ASSUME lock = c PROVE d \in before[c] /\ (d \in late \/ epoch[d] # epoch[c])
      <3>1. d \in Drawn /\ d # c /\ d \in Granted
        BY <1>2, <1>4, <1>5, <1>7, <2>3 DEF TrackerInv
      <3>2. d \in before[c]
        BY <2>4, <3>1, LockAssumption DEF GrantOrder
      <3>3. d \in late \/ epoch[d] # epoch[c] \/ acq[d].token < acq[c].token
        BY <1>1, <1>2, <1>4, <3>1, <3>2 DEF TokenOrder
      <3> QED BY <1>2, <1>4, <1>5, <1>7, <2>3, <3>2, <3>3
    <2>5. FencingOrdersWrites'
      BY <1>1, <2>1, <2>3, <2>4 DEF FencingOrdersWrites, lockVars
    <2> QED BY <1>3, <2>2, <2>5
  <1> QED BY <1>6, <1>7

LEMMA LockInvStep == LockInv /\ [LockNext]_allLockVars => LockInv'
  <1> SUFFICES ASSUME LockInv, [LockNext]_allLockVars PROVE LockInv'
    OBVIOUS
  <1>1. CASE UNCHANGED allLockVars
    BY <1>1 DEF allLockVars, lockVars, trackerVars, LockInv, LockTypeOK, GrantOrder, TokenOrder,
                TrackerInv, FencingOrdersWrites, Granted, Drawn
  <1>2. CASE LockNext
    BY <1>2, SetNXStep, DrawTokenStep, WriteStep, LossStep DEF LockNext
  <1> QED BY <1>1, <1>2

\* acquire() and validate(): grants, tokens and writes are in one order.
THEOREM LockInvariant == LockSpec => []LockInv
  BY LockInvInit, LockInvStep, PTL DEF LockSpec

\* FencingTokenTracker.validate() over tokens of DistributedLock.acquire().
THEOREM FencingIsOrdered == LockSpec => []FencingOrdersWrites
  <1>1. LockInv => FencingOrdersWrites
    BY DEF LockInv
  <1> QED BY <1>1, LockInvariant, PTL

-----------------------------------------------------------------------------
(* Migrations.                                                             *)

\* Who holds, or may still act as if it held, the lock.
CoverInv ==
    \A c \in Clients : acq[c].at \in {"set", "held"} =>
        lock = c \/ \E e \in expired : Owner[e] = Owner[c]

\* The call that claimed a migration is the only one under way for it.
ClaimInv ==
    \A c \in Clients : call[c] \in Inside =>
        /\ acq[c].at = "held"
        /\ table[Owner[c]] # None
        /\ effects[Owner[c]] = IF call[c] = "running" THEN 0 ELSE 1
        /\ \A d \in Clients : d # c /\ Owner[d] = Owner[c] => call[d] \notin Inside

MigrationTypeOK ==
    /\ lock \in Clients \cup {None}
    /\ acq \in [Clients -> Acquisition]
    /\ counter \in Nat
    /\ expired \subseteq Clients
    /\ call \in [Clients -> Call]
    /\ table \in [Migrations -> Status \cup {None}]
    /\ effects \in [Migrations -> Nat]

MigrationInv ==
    /\ MigrationTypeOK
    /\ CoverInv
    /\ ClaimInv
    /\ \A m \in Migrations : table[m] = None => effects[m] = 0
    /\ RunsOnce

LEMMA OwnerIsMigration == \A c \in Clients : Owner[c] \in Migrations
  BY DEF Migrations

LEMMA MigrationInvInit == MigrationInit => MigrationInv
  BY LockAssumption, MigrationAssumption
  DEF MigrationInit, LockInit, MigrationInv, MigrationTypeOK, CoverInv, ClaimInv, RunsOnce,
      Acquisition, Call, Inside, Status

\* Steps that leave the records alone and no call inside that was not.
LEMMA OutsideStep ==
    ASSUME MigrationInv, UNCHANGED <<table, effects>>, MigrationTypeOK', CoverInv',
           \A c \in Clients : call'[c] \in Inside => call'[c] = call[c] /\ acq'[c].at = acq[c].at
    PROVE  MigrationInv'
  BY DEF MigrationInv, ClaimInv, RunsOnce

\* The steps on the lock itself.
LEMMA LockMoves ==
    ASSUME MigrationTypeOK, CoverInv,
           \/ \E c \in Clients : SetNX(c) \/ DrawToken(c) \/ Release(c)
           \/ LockExpires \/ CounterExpires
    PROVE  /\ CoverInv'
           /\ lock' \in Clients \cup {None}
           /\ acq' \in [Clients -> Acquisition]
           /\ counter' \in Nat
           /\ expired' \subseteq Clients
  <1> USE DEF MigrationTypeOK
  <1>1. ASSUME NEW c \in Clients, SetNX(c) PROVE CoverInv' /\ acq' \in [Clients -> Acquisition]
    BY <1>1, LockAssumption DEF SetNX, Free, CoverInv, Acquisition
  <1>2. ASSUME NEW c \in Clients, DrawToken(c) PROVE CoverInv' /\ acq' \in [Clients -> Acquisition]
    BY <1>2 DEF DrawToken, NextToken, CoverInv, Acquisition
  <1>3. ASSUME NEW c \in Clients, Release(c) PROVE CoverInv' /\ acq' \in [Clients -> Acquisition]
    BY <1>3, LockAssumption DEF Release, OwnsKey, CoverInv, Acquisition
  <1>4. CASE LockExpires
    BY <1>4, LockAssumption DEF LockExpires, CoverInv
  <1>5. CASE CounterExpires
    BY <1>5 DEF CounterExpires, CoverInv
  <1> QED BY <1>1, <1>2, <1>3, <1>4, <1>5
          DEF SetNX, DrawToken, NextToken, Release, LockExpires, CounterExpires

LEMMA MigrationInvStep ==
    MigrationInv /\ [MigrationNext]_<<allLockVars, migrationVars>> => MigrationInv'
  <1> SUFFICES ASSUME MigrationInv, [MigrationNext]_<<allLockVars, migrationVars>> PROVE MigrationInv'
    OBVIOUS
  <1> USE OwnerIsMigration
  <1>0. MigrationTypeOK /\ CoverInv
    BY DEF MigrationInv
  <1>1. ASSUME NEW c \in Clients, Check(c) \/ Raise(c) \/ Die(c) PROVE MigrationInv'
    <2>1. /\ UNCHANGED <<allLockVars, table, effects>> /\ call' \in [Clients -> Call]
          /\ \A d \in Clients : call'[d] \in Inside => call'[d] = call[d]
      BY <1>0, <1>1 DEF Check, Raise, Die, Goto, MigrationTypeOK, Call, Inside
    <2> QED BY <1>0, <2>1, OutsideStep DEF MigrationTypeOK, CoverInv, allLockVars, lockVars
  <1>2. ASSUME NEW c \in Clients, TakeLock(c) \/ TakeToken(c) \/ GiveBack(c) PROVE MigrationInv'
    <2>1. /\ UNCHANGED <<table, effects>> /\ call' \in [Clients -> Call]
          /\ \A d \in Clients : call'[d] \in Inside => call'[d] = call[d] /\ d # c
          /\ \A d \in Clients \ {c} : acq'[d] = acq[d]
      BY <1>0, <1>2 DEF TakeLock, TakeToken, GiveBack, SetNX, DrawToken, Release, Goto, MigrationTypeOK,
                        Call, Inside, migrationVars
    <2>2. SetNX(c) \/ DrawToken(c) \/ Release(c)
      BY <1>2 DEF TakeLock, TakeToken, GiveBack
    <2> QED BY <1>0, <2>1, <2>2, OutsideStep, LockMoves DEF MigrationTypeOK
  <1>3. CASE (LockExpires \/ CounterExpires) /\ UNCHANGED migrationVars
    <2>1. UNCHANGED <<acq, migrationVars>>
      BY <1>3 DEF LockExpires, CounterExpires
    <2> QED BY <1>0, <1>3, <2>1, OutsideStep, LockMoves DEF MigrationTypeOK, migrationVars
  <1>4. ASSUME NEW m \in Migrations, Reverse(m) PROVE MigrationInv'
    BY <1>0, <1>4, OutsideStep DEF Reverse, MigrationTypeOK, CoverInv, allLockVars, lockVars
  <1>5. ASSUME NEW c \in Clients, Claim(c) PROVE MigrationInv'
    <2>0. UNCHANGED <<allLockVars, effects>> /\ acq[c].at = "held"
      BY <1>5 DEF Claim
    <2>1. CASE table[Owner[c]] = None
      <3>1. /\ call[c] = "checked" /\ call' = [call EXCEPT ![c] = "running"]
            /\ table' = [table EXCEPT ![Owner[c]] = "RUNNING"]
        BY <1>5, <2>1 DEF Claim, Claimable, Goto
      <3>2. MigrationTypeOK' /\ CoverInv'
        BY <1>0, <2>0, <3>1 DEF MigrationTypeOK, CoverInv, Call, Inside, Status, allLockVars, lockVars
      <3>3. effects[Owner[c]] = 0 /\ \A d \in Clients : Owner[d] = Owner[c] => call[d] \notin Inside
        BY <2>1 DEF MigrationInv, ClaimInv
      <3>4. ClaimInv'
        BY <1>0, <2>0, <3>1, <3>3, MigrationAssumption
        DEF MigrationInv, MigrationTypeOK, ClaimInv, Inside, allLockVars, lockVars
      <3>5. RunsOnce' /\ \A m \in Migrations : table'[m] = None => effects'[m] = 0
        BY <1>0, <2>0, <3>1, MigrationAssumption DEF MigrationInv, MigrationTypeOK, RunsOnce
      <3> QED BY <3>2, <3>4, <3>5 DEF MigrationInv
    <2>2. CASE table[Owner[c]] # None
      <3>1. UNCHANGED table /\ call' = [call EXCEPT ![c] = "finally"]
        BY <1>5, <2>2 DEF Claim, Claimable, Goto
      <3> QED
        BY <1>0, <2>0, <3>1, OutsideStep DEF MigrationTypeOK, CoverInv, Call, Inside, allLockVars, lockVars
    <2> QED BY <2>1, <2>2
  <1>6. ASSUME NEW c \in Clients, RunEffect(c) PROVE MigrationInv'
    <2>1. /\ UNCHANGED <<allLockVars, table>> /\ call[c] = "running"
          /\ call' \in {[call EXCEPT ![c] = "applied"], [call EXCEPT ![c] = "raised"]}
          /\ effects' = [effects EXCEPT ![Owner[c]] = @ + 1]
      BY <1>6 DEF RunEffect, Goto
    <2>2. /\ effects[Owner[c]] = 0 /\ table[Owner[c]] # None /\ acq[c].at = "held"
          /\ \A d \in Clients : d # c /\ Owner[d] = Owner[c] => call[d] \notin Inside
      BY <2>1 DEF MigrationInv, ClaimInv, Inside
    <2>3. MigrationTypeOK' /\ CoverInv'
      BY <1>0, <2>1 DEF MigrationTypeOK, CoverInv, Call, Inside, allLockVars, lockVars
    <2>4. ClaimInv'
      BY <1>0, <2>1, <2>2 DEF MigrationInv, MigrationTypeOK, ClaimInv, Inside, allLockVars, lockVars
    <2>5. RunsOnce' /\ \A m \in Migrations : table'[m] = None => effects'[m] = 0
      BY <1>0, <2>1, <2>2 DEF MigrationInv, MigrationTypeOK, RunsOnce
    <2> QED BY <2>3, <2>4, <2>5 DEF MigrationInv
  <1>7. ASSUME NEW c \in Clients, Mark(c) PROVE MigrationInv'
    <2>1. /\ UNCHANGED <<allLockVars, effects>> /\ call[c] \in {"applied", "raised"}
          /\ call' = [call EXCEPT ![c] = "finally"]
          /\ \E s \in {"COMPLETED", "FAILED"} : table' = [table EXCEPT ![Owner[c]] = s]
      BY <1>7 DEF Mark, Goto
    <2>2. effects[Owner[c]] = 1
      BY <2>1 DEF MigrationInv, ClaimInv, Inside
    <2>3. MigrationTypeOK' /\ CoverInv'
      BY <1>0, <2>1 DEF MigrationTypeOK, CoverInv, Call, Inside, Status, allLockVars, lockVars
    <2>4. ClaimInv'
      BY <1>0, <2>1, MigrationAssumption
      DEF MigrationInv, MigrationTypeOK, ClaimInv, Inside, allLockVars, lockVars
    <2>5. RunsOnce' /\ \A m \in Migrations : table'[m] = None => effects'[m] = 0
      BY <1>0, <2>1, <2>2, MigrationAssumption DEF MigrationInv, MigrationTypeOK, RunsOnce
    <2> QED BY <2>3, <2>4, <2>5 DEF MigrationInv
  <1>8. ASSUME NEW m \in Migrations, RecordRollback(m) PROVE MigrationInv'
    <2>1. /\ UNCHANGED <<allLockVars, call, effects>>
          /\ table' = table \/ (table[m] # None /\ table' = [table EXCEPT ![m] = "ROLLED_BACK"])
      BY <1>8 DEF RecordRollback
    <2>2. MigrationTypeOK' /\ CoverInv'
      BY <1>0, <2>1 DEF MigrationTypeOK, CoverInv, Status, allLockVars, lockVars
    <2>3. ClaimInv' /\ RunsOnce' /\ \A n \in Migrations : table'[n] = None => effects'[n] = 0
      BY <1>0, <2>1, MigrationAssumption
      DEF MigrationInv, MigrationTypeOK, ClaimInv, RunsOnce, Inside, allLockVars, lockVars
    <2> QED BY <2>2, <2>3 DEF MigrationInv
  <1>9. CASE UNCHANGED <<allLockVars, migrationVars>>
    BY <1>0, <1>9, OutsideStep DEF MigrationTypeOK, CoverInv, allLockVars, lockVars, migrationVars
  <1> QED
    BY <1>1, <1>2, <1>3, <1>4, <1>5, <1>6, <1>7, <1>8, <1>9 DEF MigrationNext

(* run_migration() uses the lock as DistributedLock specifies it, wherever *)
(* it fails, stops or is overtaken: what holds of the lock and its tokens  *)
(* holds of the lock of a tenant.                                          *)
THEOREM MigrationUsesTheLock == MigrationSpec => LockSpec
  <1>1. MigrationInit => LockInit BY DEF MigrationInit
  <1>2. [MigrationNext]_<<allLockVars, migrationVars>> => [LockNext]_allLockVars
    <2> SUFFICES ASSUME [MigrationNext]_<<allLockVars, migrationVars>>
                 PROVE  [LockNext]_allLockVars
      OBVIOUS
    <2>1. ASSUME NEW c \in Clients, TakeLock(c) \/ TakeToken(c) \/ GiveBack(c) PROVE LockNext
      BY <2>1 DEF TakeLock, TakeToken, GiveBack, LockNext
    <2>2. ASSUME NEW c \in Clients,
                 Check(c) \/ Claim(c) \/ RunEffect(c) \/ Mark(c) \/ Raise(c) \/ Die(c)
          PROVE  UNCHANGED allLockVars
      BY <2>2 DEF Check, Claim, RunEffect, Mark, Raise, Die
    <2>3. ASSUME NEW m \in Migrations, Reverse(m) \/ RecordRollback(m) PROVE UNCHANGED allLockVars
      BY <2>3 DEF Reverse, RecordRollback
    <2>4. CASE LockExpires \/ CounterExpires BY <2>4 DEF LockNext
    <2> QED BY <2>1, <2>2, <2>3, <2>4 DEF MigrationNext
  <1> QED BY <1>1, <1>2, PTL DEF MigrationSpec, LockSpec

\* run_migration(): what the record says of the one call that runs it.
THEOREM MigrationInvariant == MigrationSpec => []MigrationInv
  BY MigrationInvInit, MigrationInvStep, PTL DEF MigrationSpec

\* run_migration(): claim_running() alone makes a run unique.
THEOREM MigrationRunsOnce == MigrationSpec => []RunsOnce
  <1>1. MigrationInv => RunsOnce
    BY DEF MigrationInv
  <1> QED BY <1>1, MigrationInvariant, PTL

\* DistributedLock over migrations: what is left of mutual exclusion.
THEOREM OverlapOnlyAfterExpiry == MigrationSpec => []OverlapNeedsExpiry
  <1>1. MigrationInv => OverlapNeedsExpiry
    BY DEF MigrationInv, ClaimInv, CoverInv, OverlapNeedsExpiry
  <1> QED BY <1>1, MigrationInvariant, PTL

-----------------------------------------------------------------------------
(* The claim of a migration.                                               *)

Claimed == {m \in Migrations : table[m] # None}

\* Steps that neither claim, run nor end a migration.
LEMMA ClaimsKept ==
    ASSUME MigrationInv, UNCHANGED effects, Claimed' = Claimed,
           \A c \in Clients : call'[c] \in Inside <=> call[c] \in Inside
    PROVE  UNCHANGED Claims!claimVars
  BY DEF Claims!claimVars, Claimed, Runners

\* A call that is inside and stays there or leaves.
LEMMA RunProceeds ==
    ASSUME MigrationInv, NEW c \in Clients, call[c] \in Inside,
           \A d \in Clients \ {c} : call'[d] \in Inside <=> call[d] \in Inside,
           effects' \in {effects, [effects EXCEPT ![Owner[c]] = @ + 1]},
           Claimed' = Claimed
    PROVE  Claims!Next
  <1> USE OwnerIsMigration
  <1>1. effects \in [Migrations -> Nat]
    BY DEF MigrationInv, MigrationTypeOK
  <1>2. Runners[Owner[c]] = {c}
    BY DEF MigrationInv, ClaimInv, Runners
  <1>3. \A m \in Migrations \ {Owner[c]} : Runners'[m] = Runners[m]
    BY DEF Runners
  <1>4. Runners'[Owner[c]] = IF call'[c] \in Inside THEN {c} ELSE {}
    BY DEF MigrationInv, ClaimInv, Runners
  <1>5. Runners' \in {Runners, [Runners EXCEPT ![Owner[c]] = {}]}
    <2>1. /\ Runners = [m \in Migrations |-> Runners[m]]
          /\ Runners' = [m \in Migrations |-> Runners'[m]]
      BY DEF Runners
    <2>2. CASE call'[c] \in Inside
      <3>1. \A m \in Migrations : Runners'[m] = Runners[m]
        BY <1>2, <1>3, <1>4, <2>2
      <3> QED BY <2>1, <3>1
    <2>3. CASE call'[c] \notin Inside
      <3>1. \A m \in Migrations : Runners'[m] = [Runners EXCEPT ![Owner[c]] = {}][m]
        BY <1>3, <1>4, <2>1, <2>3
      <3>2. [Runners EXCEPT ![Owner[c]] = {}]
                = [m \in Migrations |-> [Runners EXCEPT ![Owner[c]] = {}][m]]
        BY <2>1
      <3> QED BY <2>1, <3>1, <3>2
    <2> QED BY <2>2, <2>3
  <1>6. effects' = [effects EXCEPT ![Owner[c]] = effects'[Owner[c]]]
    BY <1>1
  <1>7. Claims!Proceed(Owner[c])
    BY <1>2, <1>5, <1>6 DEF Claims!Proceed, Claimed
  <1> QED BY <1>7 DEF Claims!Next

LEMMA MigrationStepClaims ==
    ASSUME MigrationInv, [MigrationNext]_<<allLockVars, migrationVars>>
    PROVE  [Claims!Next]_(Claims!claimVars)
  <1> USE OwnerIsMigration
  <1>0. MigrationTypeOK
    BY DEF MigrationInv
  <1>1. ASSUME NEW c \in Clients, Check(c) \/ TakeLock(c) \/ TakeToken(c) \/ GiveBack(c)
        PROVE  UNCHANGED Claims!claimVars
    <2>1. /\ UNCHANGED <<table, effects>>
          /\ \A d \in Clients : call'[d] \in Inside <=> call[d] \in Inside
      BY <1>0, <1>1 DEF Check, TakeLock, TakeToken, GiveBack, Goto, MigrationTypeOK, Inside,
                        migrationVars
    <2> QED BY <2>1, ClaimsKept DEF Claimed
  <1>2. ASSUME NEW c \in Clients, Raise(c) \/ Die(c)
        PROVE  [Claims!Next]_(Claims!claimVars)
    <2>1. /\ UNCHANGED <<table, effects>>
          /\ call' \in {[call EXCEPT ![c] = "finally"], [call EXCEPT ![c] = "dead"]}
      BY <1>2 DEF Raise, Die, Goto
    <2>2. /\ call'[c] \notin Inside /\ \A d \in Clients \ {c} : call'[d] = call[d]
      BY <1>0, <2>1 DEF MigrationTypeOK, Inside
    <2>3. CASE call[c] \in Inside
      BY <2>1, <2>2, <2>3, RunProceeds DEF Claimed
    <2>4. CASE call[c] \notin Inside
      BY <2>1, <2>2, <2>4, ClaimsKept DEF Claimed
    <2> QED BY <2>3, <2>4
  <1>3. ASSUME NEW c \in Clients, Claim(c) PROVE [Claims!Next]_(Claims!claimVars)
    <2>1. CASE table[Owner[c]] # None
      <3>1. UNCHANGED <<table, effects>> /\ call[c] = "checked"
            /\ call' = [call EXCEPT ![c] = "finally"]
        BY <1>3, <2>1 DEF Claim, Claimable, Goto
      <3>2. \A d \in Clients : call'[d] \in Inside <=> call[d] \in Inside
        BY <1>0, <3>1 DEF MigrationTypeOK, Inside
      <3> QED BY <3>1, <3>2, ClaimsKept DEF Claimed
    <2>2. CASE table[Owner[c]] = None
      <3>1. /\ call[c] = "checked" /\ call' = [call EXCEPT ![c] = "running"]
            /\ table' = [table EXCEPT ![Owner[c]] = "RUNNING"]
            /\ UNCHANGED effects
        BY <1>3, <2>2 DEF Claim, Claimable, Goto
      <3>2. Owner[c] \notin Claimed /\ Claimed' = Claimed \cup {Owner[c]}
        BY <1>0, <2>2, <3>1, MigrationAssumption DEF Claimed, MigrationTypeOK
      <3>3. /\ \A d \in Clients \ {c} : call'[d] = call[d]
            /\ call'[c] \in Inside /\ call[c] \notin Inside
        BY <1>0, <3>1 DEF MigrationTypeOK, Inside
      <3>4. \A d \in Clients : Owner[d] = Owner[c] => call[d] \notin Inside
        BY <2>2 DEF MigrationInv, ClaimInv
      <3>5. \A m \in Migrations : c \notin Runners[m]
        BY <3>3 DEF Runners
      <3>6. Runners' = [Runners EXCEPT ![Owner[c]] = {c}]
        <4>1. \A m \in Migrations : Runners'[m] = IF m = Owner[c] THEN {c} ELSE Runners[m]
          BY <3>3, <3>4 DEF Runners
        <4>2. Runners' = [m \in Migrations |-> Runners'[m]]
          BY DEF Runners
        <4>3. Runners' = [m \in Migrations |-> IF m = Owner[c] THEN {c} ELSE Runners[m]]
          BY <4>1, <4>2
        <4>4. Runners = [m \in Migrations |-> Runners[m]]
          BY DEF Runners
        <4> QED BY <4>3, <4>4
      <3>7. Claims!Claim(Owner[c])
        BY <3>1, <3>2, <3>5, <3>6 DEF Claims!Claim, Claimed
      <3> QED BY <3>7 DEF Claims!Next
    <2> QED BY <2>1, <2>2
  <1>4. ASSUME NEW c \in Clients, RunEffect(c) \/ Mark(c) PROVE Claims!Next
    <2>1. /\ call[c] \in Inside
          /\ effects' \in {effects, [effects EXCEPT ![Owner[c]] = @ + 1]}
          /\ \E s \in Call : call' = [call EXCEPT ![c] = s]
          /\ \/ UNCHANGED table
             \/ \E s \in {"COMPLETED", "FAILED"} : table' = [table EXCEPT ![Owner[c]] = s]
      BY <1>4 DEF RunEffect, Mark, Goto, Inside, Call
    <2>2. \A d \in Clients \ {c} : call'[d] = call[d]
      BY <1>0, <2>1 DEF MigrationTypeOK
    <2>3. table[Owner[c]] # None
      BY <2>1 DEF MigrationInv, ClaimInv
    <2>4. Claimed' = Claimed
      BY <1>0, <2>1, <2>3, MigrationAssumption DEF Claimed, MigrationTypeOK
    <2> QED BY <2>1, <2>2, <2>4, RunProceeds
  <1>5. ASSUME NEW m \in Migrations, Reverse(m) \/ RecordRollback(m)
        PROVE  UNCHANGED Claims!claimVars
    <2>1. /\ UNCHANGED <<call, effects>>
          /\ table' = table \/ (table[m] # None /\ table' = [table EXCEPT ![m] = "ROLLED_BACK"])
      BY <1>5 DEF Reverse, RecordRollback
    <2>2. Claimed' = Claimed
      BY <1>0, <2>1, MigrationAssumption DEF Claimed, MigrationTypeOK
    <2> QED BY <2>1, <2>2, ClaimsKept
  <1>6. CASE UNCHANGED migrationVars
    BY <1>6, ClaimsKept DEF migrationVars, Claimed
  <1> QED BY <1>1, <1>2, <1>3, <1>4, <1>5, <1>6 DEF MigrationNext, migrationVars

(* The record of a migration is a claim on it, for any calls of any        *)
(* migrations: whatever happens to the lock, to the processes and to the   *)
(* record, one call takes a migration up and nobody after it.              *)
THEOREM MigrationImplementsClaims == MigrationSpec => ImplementsClaimedRun
  <1>1. MigrationInit => Claims!Init
    BY DEF MigrationInit, Claims!Init, Runners, Inside
  <1>2. MigrationInv /\ [MigrationNext]_<<allLockVars, migrationVars>>
            => [Claims!Next]_(Claims!claimVars)
    BY MigrationStepClaims
  <1> QED BY <1>1, <1>2, MigrationInvariant, PTL
          DEF MigrationSpec, ImplementsClaimedRun, Claims!Spec

-----------------------------------------------------------------------------
(* The breaker.                                                            *)

\* The variables that are not Boolean.
BreakerTypeOK ==
    /\ state \in {"CLOSED", "OPEN", "HALF_OPEN"}
    /\ failures \in 0 .. (Threshold - 1)
    /\ inCall \subseteq Callers
    /\ period \in Nat
    /\ probeOf \in [Callers -> Nat]

BreakerInv ==
    /\ BreakerTypeOK
    /\ HalfOpenHasItsProbe
    /\ \A c \in Callers : probeOf[c] <= period
    /\ period = 0 => state # "HALF_OPEN"

LEMMA BreakerInvInit == BreakerInit => BreakerInv
  <1> SUFFICES ASSUME BreakerInit PROVE BreakerInv
    OBVIOUS
  <1>1. BreakerTypeOK
    BY BreakerAssumption DEF BreakerInit, BreakerTypeOK
  <1>2. HalfOpenHasItsProbe
    BY DEF BreakerInit, HalfOpenHasItsProbe
  <1>3. \A c \in Callers : probeOf[c] <= period
    BY DEF BreakerInit
  <1> QED BY <1>1, <1>2, <1>3 DEF BreakerInit, BreakerInv

LEMMA BreakerInvStep == BreakerInv /\ [BreakerNext]_breakerVars => BreakerInv'
  <1> SUFFICES ASSUME BreakerInv, [BreakerNext]_breakerVars PROVE BreakerInv'
    OBVIOUS
  <1> USE BreakerAssumption DEF BreakerInv, BreakerTypeOK
  <1>1. ASSUME NEW c \in Callers, Begin(c) PROVE BreakerInv'
    <2>1. CASE state = "CLOSED"
      BY <1>1, <2>1 DEF Begin, Admitted, Reopens, HalfOpenHasItsProbe
    <2>2. CASE state # "CLOSED"
      <3>1. Reopens
        BY <1>1, <2>2 DEF Begin, Admitted, HalfOpenHasItsProbe
      <3>2. /\ state' = "HALF_OPEN" /\ probing' = TRUE /\ period' = period + 1 /\ lost' = FALSE
            /\ probeOf' = [probeOf EXCEPT ![c] = period + 1] /\ inCall' = inCall \cup {c}
            /\ UNCHANGED <<failures, cooled>>
        BY <1>1, <2>2, <3>1 DEF Begin
      <3>3. \A d \in Callers : probeOf'[d] = period' <=> d = c
        BY <3>2
      <3>4. HalfOpenHasItsProbe'
        BY <3>2, <3>3 DEF HalfOpenHasItsProbe
      <3> QED BY <3>2, <3>4
    <2> QED BY <2>1, <2>2
  <1>2. ASSUME NEW c \in Callers, Fail(c) PROVE BreakerInv'
    BY <1>2 DEF Fail, Open, HalfOpenHasItsProbe
  <1>3. ASSUME NEW c \in Callers, Succeed(c) PROVE BreakerInv'
    BY <1>3 DEF Succeed, Settled, HalfOpenHasItsProbe
  <1>4. ASSUME NEW c \in Callers, Cancel(c) PROVE BreakerInv'
    <2>1. /\ inCall' = inCall \ {c} /\ c \in inCall
          /\ UNCHANGED <<state, failures, probing, cooled, period, probeOf>>
      BY <1>4 DEF Cancel
    <2>2. lost' <=> lost \/ (state = "HALF_OPEN" /\ probeOf[c] = period)
      BY <1>4, Zenon DEF Cancel
    <2>3. HalfOpenHasItsProbe'
      BY <2>1, <2>2 DEF HalfOpenHasItsProbe
    <2> QED BY <2>1, <2>3
  <1>5. CASE Forget \/ CoolDown \/ UNCHANGED breakerVars
    BY <1>5 DEF Forget, CoolDown, breakerVars, HalfOpenHasItsProbe
  <1> QED BY <1>1, <1>2, <1>3, <1>4, <1>5 DEF BreakerNext

\* call() of the breaker: the probe flag and the call it stands for.
THEOREM BreakerInvariant == BreakerSpec => []BreakerInv
  BY BreakerInvInit, BreakerInvStep, PTL DEF BreakerSpec

\* CircuitBreaker._before_call(): the one probe of each HALF_OPEN period.
THEOREM OneProbePerPeriod == BreakerSpec => []HalfOpenHasItsProbe
  <1>1. BreakerInv => HalfOpenHasItsProbe
    BY DEF BreakerInv
  <1> QED BY <1>1, BreakerInvariant, PTL

-----------------------------------------------------------------------------
(* The worker pool.                                                        *)

\* The workers run different tasks, at most one each, also when a pool is started
\* again while tasks of the former one are still queued.
OneRunnerEach ==
    /\ \A w \in Workers : (worker[w] = "busy") <=> (running[w] # NoTask)
    /\ \A w, v \in Workers : running[w] = running[v] /\ running[w] # NoTask => w = v
    /\ \A w \in Workers : running[w] # NoTask => task[running[w]] = "running"

LostWorkers == {w \in Workers : worker[w] \notin {"waiting", "busy"}}
StrandedTasks == {t \in Tasks : task[t] = "stranded"}

\* Before the first shutdown, from the first submit() on.
FirstPool ==
    shutdowns = 0 =>
        /\ ~closing
        /\ ~staffed => StrandedTasks = {}
        /\ staffed => Cardinality(LostWorkers) = Cardinality(StrandedTasks)

PoolInv ==
    /\ PoolTypeOK /\ OneRunnerEach /\ FirstPool
    /\ ~staffed => \A w \in Workers : worker[w] = "none"

LEMMA PoolInvInit == PoolInit => PoolInv
  <1>1. ASSUME PoolInit PROVE PoolTypeOK
    <2>1. ahead \in [Tasks -> SUBSET Tasks]
      BY <1>1 DEF PoolInit
    <2>2. shutdowns \in 0 .. MaxShutdowns
      BY <1>1, PoolAssumption DEF PoolInit
    <2> QED BY <1>1, <2>1, <2>2 DEF PoolInit, PoolTypeOK
  <1> QED BY <1>1 DEF PoolInit, PoolInv, OneRunnerEach, FirstPool, StrandedTasks

LEMMA PoolInvNext == PoolInv /\ [PoolNext]_poolVars => PoolInv'
  <1> SUFFICES ASSUME PoolInv, [PoolNext]_poolVars PROVE PoolInv'
    OBVIOUS
  <1>1. PoolTypeOK /\ NoTask \notin Tasks
    BY PoolAssumption DEF PoolInv
  <1>2. ASSUME NEW t \in Tasks, Submit(t) PROVE PoolInv'
    <2>1. PoolTypeOK'
      BY <1>1, <1>2 DEF Submit, PoolTypeOK, EnsureWorkersStarted, Waiting
    <2>2. \A u \in Tasks : task'[u] = IF u = t THEN "queued" ELSE task[u]
      BY <1>1, <1>2 DEF Submit, PoolTypeOK
    <2>3. task[t] \in {"new", "settled"} /\ staffed' /\ UNCHANGED <<running, shutdowns, closing>>
      BY <1>2 DEF Submit
    <2>4. StrandedTasks' = StrandedTasks
      BY <2>2, <2>3 DEF StrandedTasks
    <2>5. CASE staffed
      <3>1. worker' = worker
        BY <1>2, <2>5 DEF Submit, EnsureWorkersStarted
      <3>2. OneRunnerEach'
        BY <1>1, <2>2, <2>3, <3>1 DEF PoolInv, PoolTypeOK, OneRunnerEach
      <3>3. LostWorkers' = LostWorkers
        BY <3>1 DEF LostWorkers
      <3> QED BY <2>1, <2>3, <2>4, <2>5, <3>2, <3>3 DEF PoolInv, FirstPool
    <2>6. CASE ~staffed
      <3>1. worker' = [w \in Workers |-> "waiting"]
        BY <1>2, <2>6 DEF Submit, EnsureWorkersStarted
      <3>2. \A w \in Workers : worker[w] = "none" /\ running[w] = NoTask
        BY <2>6 DEF PoolInv, OneRunnerEach
      <3>3. OneRunnerEach'
        BY <2>3, <3>1, <3>2 DEF OneRunnerEach
      <3>4. LostWorkers' = {}
        BY <3>1 DEF LostWorkers
      <3>5. shutdowns' = 0 => Cardinality(LostWorkers') = Cardinality(StrandedTasks')
        BY <2>3, <2>4, <2>6, <3>4 DEF PoolInv, FirstPool
      <3> QED BY <2>1, <2>3, <3>3, <3>5 DEF PoolInv, FirstPool
    <2> QED BY <2>5, <2>6
  <1>3. ASSUME NEW w \in Workers, Take(w) PROVE PoolInv'
    <2>1. PICK t \in Waiting : /\ task' = [task EXCEPT ![t] = "running"]
                               /\ ahead' = [u \in Tasks |-> ahead[u] \ {t}]
                               /\ running' = [running EXCEPT ![w] = t]
      BY <1>3 DEF Take
    <2>2. t \in Tasks /\ task[t] = "queued"
      BY <2>1 DEF Waiting
    <2>3. /\ worker[w] = "waiting" /\ worker' = [worker EXCEPT ![w] = "busy"]
          /\ UNCHANGED <<staffed, shutdowns, closing>>
      BY <1>3 DEF Take
    <2>4. PoolTypeOK'
      BY <1>1, <2>1, <2>2, <2>3 DEF PoolTypeOK
    <2>5. /\ \A v \in Workers : /\ worker'[v] = IF v = w THEN "busy" ELSE worker[v]
                                /\ running'[v] = IF v = w THEN t ELSE running[v]
          /\ \A u \in Tasks : task'[u] = IF u = t THEN "running" ELSE task[u]
      BY <1>1, <2>1, <2>2, <2>3 DEF PoolTypeOK
    <2>6. \A v \in Workers : running[v] \in Tasks \cup {NoTask} /\ running[v] # t
      BY <1>1, <2>2 DEF PoolInv, PoolTypeOK, OneRunnerEach
    <2>7. OneRunnerEach'
      BY <1>1, <2>2, <2>5, <2>6 DEF PoolInv, OneRunnerEach
    <2>8. LostWorkers' = LostWorkers /\ StrandedTasks' = StrandedTasks
      BY <2>2, <2>3, <2>5 DEF LostWorkers, StrandedTasks
    <2> QED BY <2>3, <2>4, <2>7, <2>8 DEF PoolInv, FirstPool
  <1>4. ASSUME NEW w \in Workers, Settle(w) PROVE PoolInv'
    <2>1. PICK t \in Tasks : t = running[w]
      BY <1>1, <1>4 DEF Settle, PoolInv, PoolTypeOK, OneRunnerEach
    <2>2. /\ worker[w] = "busy" /\ task' = [task EXCEPT ![t] = "settled"]
          /\ running' = [running EXCEPT ![w] = NoTask]
          /\ worker' = [worker EXCEPT ![w] = "waiting"]
          /\ UNCHANGED <<ahead, staffed, shutdowns, closing>>
      BY <1>4, <2>1 DEF Settle
    <2>3. PoolTypeOK'
      BY <1>1, <2>2 DEF PoolTypeOK
    <2>4. /\ \A v \in Workers : /\ worker'[v] = IF v = w THEN "waiting" ELSE worker[v]
                                /\ running'[v] = IF v = w THEN NoTask ELSE running[v]
          /\ \A u \in Tasks : task'[u] = IF u = t THEN "settled" ELSE task[u]
          /\ task[t] = "running"
      BY <1>1, <2>1, <2>2 DEF PoolInv, PoolTypeOK, OneRunnerEach
    <2>5. \A v \in Workers : v # w => running[v] \in Tasks \cup {NoTask} /\ running[v] # t
      BY <1>1, <2>1 DEF PoolInv, PoolTypeOK, OneRunnerEach
    <2>6. OneRunnerEach'
      BY <1>1, <2>4, <2>5 DEF PoolInv, OneRunnerEach
    <2>7. LostWorkers' = LostWorkers /\ StrandedTasks' = StrandedTasks
      BY <2>2, <2>4 DEF LostWorkers, StrandedTasks
    <2> QED BY <2>2, <2>3, <2>6, <2>7 DEF PoolInv, FirstPool
  <1>5. ASSUME NEW w \in Workers, EndWorker(w), worker[w] \in {"waiting", "busy"}
        PROVE  /\ PoolTypeOK' /\ OneRunnerEach'
               /\ staffed /\ staffed' /\ UNCHANGED <<shutdowns, closing>>
               /\ worker[w] = "busy" =>
                      /\ LostWorkers' = LostWorkers \cup {w} /\ w \notin LostWorkers
                      /\ \E t \in Tasks : StrandedTasks' = StrandedTasks \cup {t}
                                          /\ t \notin StrandedTasks
    <2>1. /\ worker' = [worker EXCEPT ![w] = "dead"]
          /\ task' = [t \in Tasks |-> IF running[w] = t THEN "stranded" ELSE task[t]]
          /\ running' = [running EXCEPT ![w] = NoTask]
          /\ UNCHANGED <<ahead, staffed, shutdowns, closing>>
      BY <1>5 DEF EndWorker
    <2>2. PoolTypeOK'
      BY <1>1, <2>1 DEF PoolTypeOK
    <2>3. \A v \in Workers : /\ worker'[v] = IF v = w THEN "dead" ELSE worker[v]
                             /\ running'[v] = IF v = w THEN NoTask ELSE running[v]
                             /\ running[v] \in Tasks \cup {NoTask}
      BY <1>1, <2>1 DEF PoolTypeOK
    <2>4. \A v \in Workers : v # w /\ running[v] # NoTask => running[v] # running[w]
      BY DEF PoolInv, OneRunnerEach
    <2>5. OneRunnerEach'
      <3>1. \A v \in Workers : running'[v] # NoTask =>
                v # w /\ running[v] # running[w] /\ running[v] \in Tasks
        BY <2>3, <2>4
      <3> QED BY <1>5, <2>1, <2>3, <3>1 DEF PoolInv, OneRunnerEach
    <2>6. staffed
      BY <1>5 DEF PoolInv
    <2>7. ASSUME worker[w] = "busy"
          PROVE  /\ LostWorkers' = LostWorkers \cup {w} /\ w \notin LostWorkers
                 /\ \E t \in Tasks : StrandedTasks' = StrandedTasks \cup {t}
                                     /\ t \notin StrandedTasks
      <3>1. PICK t \in Tasks : t = running[w] /\ task[t] = "running"
        BY <2>3, <2>7 DEF PoolInv, OneRunnerEach
      <3>2. StrandedTasks' = StrandedTasks \cup {t} /\ t \notin StrandedTasks
        BY <2>1, <3>1 DEF StrandedTasks
      <3>3. LostWorkers' = LostWorkers \cup {w} /\ w \notin LostWorkers
        BY <2>3, <2>7 DEF LostWorkers
      <3> QED BY <3>2, <3>3
    <2> QED BY <2>1, <2>2, <2>5, <2>6, <2>7
  <1>6. ASSUME NEW w \in Workers, TaskCancelled(w) PROVE PoolInv'
    <2>1. worker[w] = "busy" /\ EndWorker(w) /\ ~closing
      BY <1>6 DEF TaskCancelled
    <2>2. PICK t \in Tasks : StrandedTasks' = StrandedTasks \cup {t} /\ t \notin StrandedTasks
      BY <1>5, <2>1
    <2>3. LostWorkers' = LostWorkers \cup {w} /\ w \notin LostWorkers
      BY <1>5, <2>1
    <2>4. IsFiniteSet(LostWorkers) /\ IsFiniteSet(StrandedTasks)
      BY PoolAssumption, FS_Subset DEF LostWorkers, StrandedTasks
    <2>5. /\ Cardinality(LostWorkers') = Cardinality(LostWorkers) + 1
          /\ Cardinality(StrandedTasks') = Cardinality(StrandedTasks) + 1
      BY <2>2, <2>3, <2>4, FS_AddElement
    <2>6. PoolTypeOK' /\ OneRunnerEach' /\ staffed /\ staffed' /\ UNCHANGED <<shutdowns, closing>>
      BY <1>5, <2>1
    <2> QED BY <2>1, <2>5, <2>6 DEF PoolInv, FirstPool
  <1>7. ASSUME NEW w \in Workers, WorkerCancelled(w) PROVE PoolInv'
    <2>1. closing /\ worker[w] \in {"waiting", "busy"} /\ EndWorker(w)
      BY <1>7 DEF WorkerCancelled
    <2>2. PoolTypeOK' /\ OneRunnerEach' /\ staffed /\ staffed' /\ UNCHANGED <<shutdowns, closing>>
      BY <1>5, <2>1
    <2> QED BY <2>1, <2>2 DEF PoolInv, FirstPool
  <1>8. CASE Shutdown
    <2>1. /\ shutdowns < MaxShutdowns /\ shutdowns' = shutdowns + 1 /\ closing'
          /\ UNCHANGED <<task, ahead, worker, running, staffed>>
      BY <1>8 DEF Shutdown
    <2>2. PoolTypeOK' /\ shutdowns' # 0
      BY <1>1, <2>1, PoolAssumption DEF PoolTypeOK
    <2> QED BY <2>1, <2>2 DEF PoolInv, OneRunnerEach, FirstPool
  <1>9. CASE ShutdownDone
    <2>1. /\ closing /\ ~closing' /\ ~staffed'
          /\ \A w \in Workers : worker[w] \in {"none", "dead"}
          /\ worker' = [w \in Workers |-> "none"]
          /\ UNCHANGED <<task, ahead, running, shutdowns>>
      BY <1>9 DEF ShutdownDone
    <2>2. PoolTypeOK'
      BY <1>1, <1>9, <2>1 DEF ShutdownDone, PoolTypeOK
    <2>3. \A w \in Workers : running[w] = NoTask
      BY <2>1 DEF PoolInv, OneRunnerEach
    <2> QED BY <2>1, <2>2, <2>3 DEF PoolInv, OneRunnerEach, FirstPool
  <1>10. CASE UNCHANGED poolVars
    BY <1>10 DEF poolVars, PoolInv, PoolTypeOK, OneRunnerEach, FirstPool, LostWorkers, StrandedTasks
  <1> QED BY <1>2, <1>3, <1>4, <1>6, <1>7, <1>8, <1>9, <1>10 DEF PoolNext

\* The inductive invariant of the worker pool.
THEOREM PoolInvariant == PoolSpec => []PoolInv
  BY PoolInvInit, PoolInvNext, PTL DEF PoolSpec

\* For any tasks and workers: a pool loses one worker with every task it strands.
THEOREM StrandingsCostWorkers == PoolSpec => []LostWorkersAreStrandings
  <1>1. PoolInv => LostWorkersAreStrandings
    <2>1. LostWorkers = Workers \ Alive
      BY DEF LostWorkers, Alive
    <2> QED BY <2>1 DEF PoolInv, FirstPool, LostWorkersAreStrandings, StrandedTasks
  <1> QED BY <1>1, PoolInvariant, PTL
=============================================================================
