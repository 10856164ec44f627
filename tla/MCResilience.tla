---------------------------- MODULE MCResilience ----------------------------
(***************************************************************************)
(* What the services rely on across processes, in one run: locks whose     *)
(* holders present their tokens to the tracker, the migrations of a tenant *)
(* under its lock, a circuit breaker, the audit chain, and webhooks.  They *)
(* share no state, so a behaviour is about one of them, and what it is not *)
(* about stays in its initial state.                                       *)
(***************************************************************************)
EXTENDS TenantMigration, CircuitBreaker, AuditChain, WebhookDispatch, TLC

CONSTANTS a1, a2, b1, mA, mB, c1, c2, c3

\* Two calls of one migration and one call of another.
MCOwner == (a1 :> mA) @@ (a2 :> mA) @@ (b1 :> mB)

\* The actors of the several parts have the same names, two or three of each.
ActorSymmetry == Permutations({a1, a2}) \cup Permutations({c1, c2, c3})

VARIABLE about

MCInit == /\ MigrationInit /\ BreakerInit /\ AuditInit /\ WebhookInit
          /\ about \in {"writers", "migration", "breaker", "audit", "webhooks"}

\* Bounds: the fencing counter, which run_migration() only draws from, expires
\* in the behaviours about writers; the migration of two calls is the one that
\* is rolled back.
MCNext ==
    /\ \/ /\ about = "writers"
          /\ LockNext
          /\ UNCHANGED <<migrationVars, breakerVars, auditVars, webhookVars>>
       \/ /\ about = "migration"
          /\ MigrationNext
          /\ resets' = 0
          /\ reversing' \subseteq {mA}
          /\ UNCHANGED <<breakerVars, auditVars, webhookVars>>
       \/ /\ about = "breaker"
          /\ BreakerNext
          /\ UNCHANGED <<allLockVars, migrationVars, auditVars, webhookVars>>
       \/ /\ about = "audit"
          /\ AuditNext
          /\ UNCHANGED <<allLockVars, migrationVars, breakerVars, webhookVars>>
       \/ /\ about = "webhooks"
          /\ WebhookNext
          /\ UNCHANGED <<allLockVars, migrationVars, breakerVars, auditVars>>
    /\ UNCHANGED about

MCSpec == MCInit /\ [][MCNext]_<<allLockVars, migrationVars, breakerVars, auditVars,
                                 webhookVars, about>>
=============================================================================
