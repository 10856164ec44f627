--------------------------- MODULE TenantMigration ---------------------------
(***************************************************************************)
(* TenantDataMigration for one tenant: calls of run_migration() in several *)
(* processes under the distributed lock of the tenant, each statement of   *)
(* the tenant_migrations table a step, and rollback_migration() by an      *)
(* operator.  A client of the lock is one call; its owner_id is the        *)
(* migration_id, so that two calls of one migration are one owner.         *)
(***************************************************************************)
EXTENDS DistributedLock

ASSUME MigrationAssumption == None \notin {"RUNNING", "COMPLETED", "FAILED", "ROLLED_BACK"}

VARIABLES call,      \* progress of each run_migration()
          table,     \* tenant_migrations: the status of each migration
          effects,   \* history: how often migration.run() was started
          reversing  \* migrations whose rollback() ran and is not recorded

migrationVars == <<call, table, effects, reversing>>

Migrations == {Owner[c] : c \in Clients}
Status == {"RUNNING", "COMPLETED", "FAILED", "ROLLED_BACK"}
Inside == {"running", "applied", "raised"}
Call == {"idle", "checked", "finally", "returned", "dead"} \cup Inside

MigrationInit ==
    /\ LockInit
    /\ call = [c \in Clients |-> "idle"]
    /\ table = [m \in Migrations |-> None]
    /\ effects = [m \in Migrations |-> 0]
    /\ reversing = {}

Goto(c, from, to) == call[c] = from /\ call' = [call EXCEPT ![c] = to]

\* get(): an existing record is the answer, whatever its status.
Check(c) ==
    /\ Goto(c, "idle", IF table[Owner[c]] = None THEN "checked" ELSE "returned")
    /\ UNCHANGED <<allLockVars, table, effects, reversing>>

\* TenantMigrationAlreadyRunningError if the SET is refused.
TakeLock(c) ==
    /\ SetNX(c)
    /\ Goto(c, "checked", IF Free THEN "checked" ELSE "returned")
    /\ UNCHANGED <<table, effects, reversing>>

TakeToken(c) ==
    /\ call[c] = "checked"
    /\ DrawToken(c)
    /\ UNCHANGED migrationVars

\* Mutant: a record that did not complete is claimed again.
ClaimableAgain(m) == table[m] \in {None, "FAILED"}
\* INSERT ... ON CONFLICT DO NOTHING
Claimable(m) == table[m] = None

Claim(c) ==
    /\ acq[c].at = "held"
    /\ IF Claimable(Owner[c])
         THEN /\ Goto(c, "checked", "running")
              /\ table' = [table EXCEPT ![Owner[c]] = "RUNNING"]
         ELSE /\ Goto(c, "checked", "finally")
              /\ UNCHANGED table
    /\ UNCHANGED <<allLockVars, effects, reversing>>

\* migration.run() returns, or raises after it has changed something.
RunEffect(c) ==
    /\ Goto(c, "running", "applied") \/ Goto(c, "running", "raised")
    /\ effects' = [effects EXCEPT ![Owner[c]] = @ + 1]
    /\ UNCHANGED <<allLockVars, table, reversing>>

\* mark_status() does not look at the status it replaces.
Mark(c) ==
    /\ \/ /\ Goto(c, "applied", "finally")
          /\ table' = [table EXCEPT ![Owner[c]] = "COMPLETED"]
       \/ /\ Goto(c, "raised", "finally")
          /\ table' = [table EXCEPT ![Owner[c]] = "FAILED"]
    /\ UNCHANGED <<allLockVars, effects, reversing>>

\* A statement raises: only the lock is given back.
Raise(c) ==
    /\ \/ acq[c].at = "held" /\ Goto(c, "checked", "finally")
       \/ \E s \in {"applied", "raised"} : Goto(c, s, "finally")
    /\ UNCHANGED <<allLockVars, table, effects, reversing>>

GiveBack(c) ==
    /\ Goto(c, "finally", "returned")
    /\ Release(c)
    /\ UNCHANGED <<table, effects, reversing>>

\* The process stops; what it held stays until it expires.
Die(c) ==
    /\ call[c] \notin {"idle", "returned", "dead"}
    /\ call' = [call EXCEPT ![c] = "dead"]
    /\ UNCHANGED <<allLockVars, table, effects, reversing>>

\* rollback_migration(): rollback(), then an UPDATE of the row, if there is one.
Reverse(m) ==
    /\ m \notin reversing
    /\ reversing' = reversing \cup {m}
    /\ UNCHANGED <<allLockVars, call, table, effects>>

RecordRollback(m) ==
    /\ m \in reversing
    /\ reversing' = reversing \ {m}
    /\ table' = IF table[m] = None THEN table ELSE [table EXCEPT ![m] = "ROLLED_BACK"]
    /\ UNCHANGED <<allLockVars, call, effects>>

MigrationNext ==
    \/ \E c \in Clients :
        \/ Check(c) \/ TakeLock(c) \/ TakeToken(c) \/ Claim(c) \/ RunEffect(c)
        \/ Mark(c) \/ Raise(c) \/ GiveBack(c) \/ Die(c)
    \/ (LockExpires \/ CounterExpires) /\ UNCHANGED migrationVars
    \/ \E m \in Migrations : Reverse(m) \/ RecordRollback(m)

MigrationSpec == MigrationInit /\ [][MigrationNext]_<<allLockVars, migrationVars>>

-----------------------------------------------------------------------------
(* Properties.                                                             *)

\* migration.run() is started at most once for a migration, whatever becomes
\* of the lock, of the processes and of the record: an expired lock, a failure
\* or a rollback never lets a second call run it, and the record says that it
\* ended only if it was started.
RunsOnce ==
    \A m \in Migrations :
        /\ effects[m] <= 1
        /\ table[m] \in {"COMPLETED", "FAILED"} => effects[m] = 1

\* Two migrations of the tenant are under way at once only if the lock of a
\* call of one of the two expired.  It need not be the lock of one of the two
\* calls that overlap: a call that outlived its lock gives back the lock of
\* another call of the same migration, whose owner_id is the same.
OverlapNeedsExpiry ==
    \A c, d \in Clients :
        call[c] \in Inside /\ call[d] \in Inside /\ c # d =>
            \E e \in expired : Owner[e] \in {Owner[c], Owner[d]}

\* Who is past the claim of a migration and not yet done with its record.
Runners == [m \in Migrations |-> {c \in Clients : Owner[c] = m /\ call[c] \in Inside}]

\* The row of a migration is its claim, whatever its status: step by step, no
\* failure, expiry of the lock, rollback or stop lets a second call take a
\* migration up, or lets anyone but the call that claimed it run it.
Claims == INSTANCE ClaimedWork WITH
    Keys <- Migrations, Workers <- Clients, Nothing <- 0,
    claimed <- {m \in Migrations : table[m] # None}, holder <- Runners, work <- effects

ImplementsClaimedRun == Claims!Spec
=============================================================================
