-------------------------- MODULE DistributedLock --------------------------
(***************************************************************************)
(* DistributedLock on one resource and the FencingTokenTracker in front of *)
(* what the lock protects.  A client is one call of acquire() with what    *)
(* its caller does with the lock; callers with the same owner_id are       *)
(* clients with the same Owner.  A client may pause before any of its      *)
(* steps for longer than the lock lives, or for ever: nothing says that it *)
(* takes its next step.                                                    *)
(***************************************************************************)
EXTENDS Naturals

CONSTANTS Clients,    \* calls of acquire()
          Owner,      \* the owner_id of each
          MaxResets,  \* bound: how often the fencing counter expires
          None

ASSUME LockAssumption == MaxResets \in Nat /\ None \notin Clients

VARIABLES lock,       \* the client whose SET holds the key, or None
          counter,    \* the fencing counter; 0 if the key is absent
          acq,        \* progress of each client and its fencing token
          lastSeen,   \* the tracker's last accepted token
          before,     \* history: the clients whose SET succeeded before this one's
          resets,     \* history: how often the counter expired
          epoch,      \* history: resets when a token was drawn
          late,       \* history: clients that drew after their lock was gone
          expired,    \* history: clients whose lock expired
          wrote,      \* history: clients with an accepted write
          overtaking, \* history: accepted although a later grant had written
          barred      \* history: refused while they held the lock

lockVars == <<lock, counter, acq, before, resets, epoch, late, expired>>
trackerVars == <<lastSeen, wrote, overtaking, barred>>
allLockVars == <<lockVars, trackerVars>>

Acquisition == [at : {"idle", "refused", "set", "held", "released"}, token : Nat]
Granted == {c \in Clients : acq[c].at \notin {"idle", "refused"}}
Drawn == {c \in Clients : acq[c].at \in {"held", "released"}}

LockInit ==
    /\ lock = None
    /\ counter = 0
    /\ acq = [c \in Clients |-> [at |-> "idle", token |-> 0]]
    /\ lastSeen = 0
    /\ before = [c \in Clients |-> {}]
    /\ resets = 0
    /\ epoch = [c \in Clients |-> 0]
    /\ late = {}
    /\ expired = {}
    /\ wrote = {}
    /\ overtaking = {}
    /\ barred = {}

-----------------------------------------------------------------------------
(* acquire(): SET NX PX, then INCR and EXPIRE of the counter.              *)

\* Mutant: SET without NX.
FreeAlways == lock \in Clients \cup {None}
Free == lock = None

SetNX(c) ==
    /\ acq[c].at = "idle"
    /\ IF Free
         THEN /\ lock' = c
              /\ acq' = [acq EXCEPT ![c].at = "set"]
              /\ before' = [before EXCEPT ![c] = Granted]
         ELSE /\ acq' = [acq EXCEPT ![c].at = "refused"]
              /\ UNCHANGED <<lock, before>>
    /\ UNCHANGED <<counter, resets, epoch, late, expired, trackerVars>>

\* Mutant: the counter is written with SET NX and read.
NextTokenOnce == 1
\* INCR
NextToken == counter + 1

DrawToken(c) ==
    /\ acq[c].at = "set"
    /\ counter' = NextToken
    /\ acq' = [acq EXCEPT ![c] = [at |-> "held", token |-> NextToken]]
    /\ epoch' = [epoch EXCEPT ![c] = resets]
    /\ late' = IF lock = c THEN late ELSE late \cup {c}
    /\ UNCHANGED <<lock, before, resets, expired, trackerVars>>

\* _RELEASE_SCRIPT compares the owner_id the key holds.
OwnsKey(c) == lock # None /\ Owner[lock] = Owner[c]

Release(c) ==
    /\ acq[c].at = "held"
    /\ acq' = [acq EXCEPT ![c].at = "released"]
    /\ lock' = IF OwnsKey(c) THEN None ELSE lock
    /\ UNCHANGED <<counter, before, resets, epoch, late, expired, trackerVars>>

\* PX
LockExpires ==
    /\ lock # None
    /\ lock' = None
    /\ expired' = expired \cup {lock}
    /\ UNCHANGED <<counter, acq, before, resets, epoch, late, trackerVars>>

\* The counter's EXPIRE is a hundred times the lock's: it outlives the lock
\* of the client that drew last, but not every pause of other clients.
CounterExpires ==
    /\ counter > 0
    /\ lock # None => acq[lock].at = "set"
    /\ resets < MaxResets
    /\ counter' = 0
    /\ resets' = resets + 1
    /\ UNCHANGED <<lock, acq, before, epoch, late, expired, trackerVars>>

-----------------------------------------------------------------------------
(* The guarded writes: FencingTokenTracker.validate().                     *)

Fresh(token) == token >= lastSeen

Write(c) ==
    /\ acq[c].at = "held"
    /\ IF Fresh(acq[c].token)
         THEN /\ lastSeen' = acq[c].token
              /\ wrote' = wrote \cup {c}
              /\ overtaking' = IF \E d \in wrote : c \in before[d]
                                 THEN overtaking \cup {c} ELSE overtaking
              /\ UNCHANGED barred
         ELSE /\ barred' = IF lock = c THEN barred \cup {c} ELSE barred
              /\ UNCHANGED <<lastSeen, wrote, overtaking>>
    /\ UNCHANGED lockVars

LockNext ==
    \/ \E c \in Clients : SetNX(c) \/ DrawToken(c) \/ Write(c) \/ Release(c)
    \/ LockExpires
    \/ CounterExpires

LockSpec == LockInit /\ [][LockNext]_allLockVars

-----------------------------------------------------------------------------
(* Properties.                                                             *)

LockTypeOK ==
    /\ lock \in Clients \cup {None}
    /\ counter \in Nat
    /\ acq \in [Clients -> Acquisition]
    /\ lastSeen \in Nat
    /\ before \in [Clients -> SUBSET Clients]
    /\ resets \in Nat
    /\ epoch \in [Clients -> Nat]
    /\ late \subseteq Clients
    /\ expired \subseteq Clients
    /\ wrote \subseteq Clients
    /\ overtaking \subseteq Clients
    /\ barred \subseteq Clients

\* A superseded holder writes after its successor only if it paused between
\* SET and INCR until its lock was gone, or if the counter expired between
\* the two tokens.  The holder of the lock is refused only for the same two
\* reasons.  Otherwise the tokens order the writes as the locks were granted.
FencingOrdersWrites ==
    /\ \A c \in overtaking :
        c \in late \/ \E d \in wrote : c \in before[d] /\ epoch[c] < epoch[d]
    /\ \A c \in barred :
        \E d \in wrote : d \in before[c] /\ (d \in late \/ epoch[d] # epoch[c])
=============================================================================
