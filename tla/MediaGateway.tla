---------------------------- MODULE MediaGateway ----------------------------
(***************************************************************************)
(* MediaGatewayService.admit_adapter and release_adapter with their        *)
(* SessionGate (services/media_gateway).  Both are coroutines on one event *)
(* loop: authenticate(), connect() and disconnect() of the carrier adapter *)
(* are awaited, and any other coroutine may run there.  An attempt is one  *)
(* call of admit_adapter, a release one call of release_adapter.           *)
(***************************************************************************)
EXTENDS Integers, FiniteSets

CONSTANTS Attempts, Releases, Calls, NoAttempt,
          CallOf,        \* the call_id of every attempt and release
          TenantOf,      \* the tenant of every call
          MaxPerTenant   \* _DEFAULT_MAX_SESSIONS_PER_TENANT

GatewayAssumption ==
    /\ NoAttempt \notin Attempts /\ Attempts \cap Releases = {}
    /\ CallOf \in [Attempts \cup Releases -> Calls]
    /\ MaxPerTenant \in Nat
ASSUME GatewayAssumption

VARIABLES step,      \* where each attempt and release is
          admitted,  \* SessionGate._admitted: the attempt that admitted the call
          adapter,   \* _adapters: the attempt whose adapter serves the call
          failed,    \* calls with an attempt whose connect() raised
          overtaken  \* calls released while another coroutine was at work on them
gatewayVars == <<step, admitted, adapter, failed, overtaken>>

AtWork == {"connecting", "disconnecting"}
Busy(c) == \E o \in Attempts \cup Releases : CallOf[o] = c /\ step[o] \in AtWork

GatewayInit ==
    /\ step = [o \in Attempts \cup Releases |-> "new"]
    /\ admitted = [c \in Calls |-> NoAttempt]
    /\ adapter = [c \in Calls |-> NoAttempt]
    /\ failed = {} /\ overtaken = {}

Sessions(tenant) == {c \in Calls : admitted[c] # NoAttempt /\ TenantOf[c] = tenant}
-----------------------------------------------------------------------------
\* SessionGate.admit raises for a call that is admitted and for a full tenant.
MayAdmitAgain(c) == Cardinality(Sessions(TenantOf[c])) < MaxPerTenant
MayAdmit(c) == /\ admitted[c] = NoAttempt
               /\ Cardinality(Sessions(TenantOf[c])) < MaxPerTenant

\* authenticate() has answered: rejected, refused by the gate, or admitted.
Authenticated(o) ==
    /\ o \in Attempts /\ step[o] = "new"
    /\ \/ /\ MayAdmit(CallOf[o])
          /\ step' = [step EXCEPT ![o] = "connecting"]
          /\ admitted' = [admitted EXCEPT ![CallOf[o]] = o]
       \/ /\ step' = [step EXCEPT ![o] = "rejected"]    \* result.success is false
          /\ UNCHANGED admitted
       \/ /\ ~MayAdmit(CallOf[o])
          /\ step' = [step EXCEPT ![o] = "raised"]
          /\ UNCHANGED admitted
    /\ UNCHANGED <<adapter, failed, overtaken>>

\* connect() has returned, or raised: nothing then takes the session back.
Connected(o) ==
    /\ step[o] = "connecting"
    /\ \/ /\ step' = [step EXCEPT ![o] = "connected"]
          /\ adapter' = [adapter EXCEPT ![CallOf[o]] = o]
          /\ UNCHANGED failed
       \/ /\ step' = [step EXCEPT ![o] = "raised"]
          /\ failed' = failed \cup {CallOf[o]}
          /\ UNCHANGED adapter
    /\ UNCHANGED <<admitted, overtaken>>

\* release_adapter: pop the adapter, disconnect it, release the gate.  With no
\* adapter there is nothing to await and the gate is released at once.
ReleaseStarts(o) ==
    LET c == CallOf[o]
    IN /\ o \in Releases /\ step[o] = "new"
       /\ adapter' = [adapter EXCEPT ![c] = NoAttempt]
       /\ overtaken' = IF Busy(c) THEN overtaken \cup {c} ELSE overtaken
       /\ IF adapter[c] # NoAttempt
          THEN step' = [step EXCEPT ![o] = "disconnecting"] /\ UNCHANGED admitted
          ELSE /\ step' = [step EXCEPT ![o] = "released"]
               /\ admitted' = [admitted EXCEPT ![c] = NoAttempt]
       /\ UNCHANGED failed

\* disconnect() has returned; when it raises, the gate is not released.
Disconnected(o) ==
    /\ step[o] = "disconnecting"
    /\ \/ /\ step' = [step EXCEPT ![o] = "released"]
          /\ admitted' = [admitted EXCEPT ![CallOf[o]] = NoAttempt]
          /\ UNCHANGED failed
       \/ /\ step' = [step EXCEPT ![o] = "raised"]
          /\ failed' = failed \cup {CallOf[o]}
          /\ UNCHANGED admitted
    /\ UNCHANGED <<adapter, overtaken>>

GatewayNext == \E o \in Attempts \cup Releases :
                  Authenticated(o) \/ Connected(o) \/ ReleaseStarts(o) \/ Disconnected(o)

GatewaySpec == GatewayInit /\ [][GatewayNext]_gatewayVars
-----------------------------------------------------------------------------
(***************************************************************************)
(* A call nobody is at work on has an adapter exactly when the gate counts *)
(* its session, and both come from the same attempt -- unless connect() or *)
(* disconnect() raised, or a release ran while another coroutine of the    *)
(* call was waiting for the carrier (then a session may hold a place of    *)
(* its tenant with no adapter, or an adapter run without a session).       *)
(***************************************************************************)
BooksAgree ==
    \A c \in Calls \ (failed \cup overtaken) :
        ~Busy(c) => adapter[c] = admitted[c]
=============================================================================
