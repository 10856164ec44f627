--------------------------- MODULE TenantLifecycle ---------------------------
(***************************************************************************)
(* The lifecycle of one tenant and its key-encryption key.  An operation   *)
(* of TenantService reads the status, validates the transition and writes  *)
(* the status with an UPDATE that does not look at it again; activation    *)
(* provisions after the write, complete_deletion() destroys the key before *)
(* it.  Operations of several callers interleave and any of them may raise *)
(* or stop on the way, while envelope encryption goes on in any status.    *)
(***************************************************************************)
EXTENDS Naturals

CONSTANTS Admins,   \* callers of TenantService
          MaxKeys   \* bound: keys created under the tenant's KEK name

ASSUME TenantAssumption == MaxKeys \in Nat

VARIABLES status,     \* tenants.status
          kek,        \* the KEK in the key store, 0 if there is none
          minted,     \* keys created so far, numbered from 1
          op,         \* progress of each caller
          shreddedTo, \* history: keys minted when the complete_deletion() that
                      \*   wrote DELETED destroyed the KEK
          completedAt,\* history: keys minted when it wrote DELETED
          deleted,    \* history: the status was DELETED at some time
          overlapped  \* history: a status was written over one that its writer
                      \*   had not read

tenantVars == <<status, kek, minted, op, shreddedTo, completedAt, deleted, overlapped>>

\* _VALID_TRANSITIONS
Allowed == [TRIAL |-> {"SANDBOX"}, SANDBOX |-> {"PRODUCTION"},
            PRODUCTION |-> {"SUSPENDED"}, SUSPENDED |-> {"CANCELLED", "PRODUCTION"},
            CANCELLED |-> {"DELETING"}, DELETING |-> {"DELETED"}, DELETED |-> {}]
Statuses == DOMAIN Allowed

\* The status each operation asks for.
Target == [move_to_sandbox |-> "SANDBOX", activate_production |-> "PRODUCTION",
           suspend |-> "SUSPENDED", reactivate |-> "PRODUCTION",
           cancel |-> "CANCELLED", begin_deletion |-> "DELETING",
           complete_deletion |-> "DELETED"]
Operations == DOMAIN Target

Operation == [at : {"idle", "shred", "update", "provision"}, name : Operations,
              seen : Statuses, keys : Nat]

TenantInit ==
    /\ status = "TRIAL"
    /\ kek = 0
    /\ minted = 0
    /\ op = [a \in Admins |-> [at |-> "idle", name |-> "suspend", seen |-> "TRIAL",
                               keys |-> 0]]
    /\ shreddedTo = 0
    /\ completedAt = 0
    /\ deleted = FALSE
    /\ overlapped = FALSE

\* Mutant: the key is destroyed when the deletion begins.
FirstStepEarly(name) == IF name = "begin_deletion" THEN "shred" ELSE "update"

\* What an operation does first once its transition is valid.
FirstStep(name) == IF name = "complete_deletion" THEN "shred" ELSE "update"

\* TenantLifecycle.transition(): an invalid one raises and nothing happens.
Validate(a, name) ==
    /\ op[a].at = "idle"
    /\ Target[name] \in Allowed[status]
    /\ op' = [op EXCEPT ![a] = [at |-> FirstStep(name), name |-> name, seen |-> status,
                                keys |-> minted]]
    /\ UNCHANGED <<status, kek, minted, shreddedTo, completedAt, deleted, overlapped>>

\* destroy_kek() raises on a key that is gone.
DestroyKEK(a) ==
    /\ op[a].at = "shred"
    /\ kek # 0
    /\ kek' = 0
    /\ op' = [op EXCEPT ![a].at = "update", ![a].keys = minted]
    /\ UNCHANGED <<status, minted, shreddedTo, completedAt, deleted, overlapped>>

UpdateStatus(a) ==
    LET name == op[a].name IN
    /\ op[a].at = "update"
    /\ status' = Target[name]
    /\ shreddedTo' = IF name = "complete_deletion" THEN op[a].keys ELSE shreddedTo
    /\ completedAt' = IF name = "complete_deletion" THEN minted ELSE completedAt
    /\ deleted' = (deleted \/ name = "complete_deletion")
    /\ overlapped' = (overlapped \/ status # op[a].seen)
    /\ op' = [op EXCEPT ![a].at = IF name = "activate_production" THEN "provision"
                                                                  ELSE "idle"]
    /\ UNCHANGED <<kek, minted>>

\* _ensure_key(): reads the key and creates it if it is missing.
EnsureKey ==
    \/ kek # 0 /\ UNCHANGED <<kek, minted>>
    \/ /\ kek = 0
       /\ minted < MaxKeys
       /\ minted' = minted + 1
       /\ kek' = minted'

Provision(a) ==
    /\ op[a].at = "provision"
    /\ EnsureKey
    /\ op' = [op EXCEPT ![a].at = "idle"]
    /\ UNCHANGED <<status, shreddedTo, completedAt, deleted, overlapped>>

\* An operation raises or its process stops.
Abort(a) ==
    /\ op[a].at # "idle"
    /\ op' = [op EXCEPT ![a].at = "idle"]
    /\ UNCHANGED <<status, kek, minted, shreddedTo, completedAt, deleted, overlapped>>

\* generate_data_key() for a record of the tenant.
Encrypt ==
    /\ EnsureKey
    /\ UNCHANGED <<status, op, shreddedTo, completedAt, deleted, overlapped>>

TenantNext ==
    \/ Encrypt
    \/ \E a \in Admins :
        \/ \E name \in Operations : Validate(a, name)
        \/ DestroyKEK(a)
        \/ UpdateStatus(a)
        \/ Provision(a)
        \/ Abort(a)

TenantSpec == TenantInit /\ [][TenantNext]_tenantVars

-----------------------------------------------------------------------------
\* complete_deletion() makes a tenant's data unreadable for good.  Whatever
\* operations overlap, raise or are retried and whatever is encrypted
\* meanwhile, while the status is DELETED the key store holds no key that was
\* there at the destroy_kek() of the operation that wrote it.  A key it does
\* hold was created after that by _ensure_key(): after the deletion, or in the
\* gap between destroy_kek() and the UPDATE, and nothing destroys that one
\* (deletion.py:60-63).  A deleted tenant comes back to another status only if
\* an operation wrote over a status it had not read.
MintedAfterDeletion == kek > completedAt
MintedInTheGap == shreddedTo < kek /\ kek <= completedAt

DeletionIsFinal ==
    /\ status = "DELETED" => kek = 0 \/ MintedAfterDeletion \/ MintedInTheGap
    /\ deleted => status = "DELETED" \/ overlapped
=============================================================================
