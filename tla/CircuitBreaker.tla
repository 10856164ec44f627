--------------------------- MODULE CircuitBreaker ---------------------------
(***************************************************************************)
(* One CircuitBreaker of the registry under overlapping asynchronous calls *)
(* on one event loop: _before_call() and the recording of a result each    *)
(* run without an await, anything may happen between the two.  Time is     *)
(* abstracted to two facts: a failure leaves the window, the cooldown is   *)
(* over.                                                                   *)
(***************************************************************************)
EXTENDS Naturals

CONSTANTS Callers,     \* tasks that call through the breaker
          Threshold,   \* failure_threshold
          MaxPeriods   \* bound: how often the breaker becomes HALF_OPEN

ASSUME BreakerAssumption == Threshold \in Nat \ {0} /\ MaxPeriods \in Nat

VARIABLES state,       \* CLOSED, OPEN or HALF_OPEN
          failures,    \* timestamps of the failures within the window
          probing,     \* _half_open_probe_in_flight
          cooled,      \* cooldown_seconds have passed since _opened_at
          inCall,      \* the callers that wait for their wrapped call
          period,      \* history: HALF_OPEN periods so far
          probeOf,     \* history: the period a call is the probe of, 0 for none
          lost         \* history: the probe of this period was cancelled

breakerVars == <<state, failures, probing, cooled, inCall, period, probeOf, lost>>

BreakerInit ==
    /\ state = "CLOSED"
    /\ failures = 0
    /\ probing = FALSE
    /\ cooled = FALSE
    /\ inCall = {}
    /\ period = 0
    /\ probeOf = [c \in Callers |-> 0]
    /\ lost = FALSE

\* _maybe_end_cooldown() has let the breaker out of OPEN by the time the
\* admission is decided.
Reopens == state = "OPEN" /\ cooled

\* Mutant: the flag of the probe before is not looked at.
AdmittedAnyway == state # "OPEN" \/ cooled
Admitted ==
    \/ state = "CLOSED"
    \/ state = "HALF_OPEN" /\ ~probing
    \/ Reopens

\* _before_call() of a call that is admitted; one that is not raises
\* CircuitOpenError and changes nothing.
Begin(c) ==
    /\ c \notin inCall
    /\ Admitted
    /\ inCall' = inCall \cup {c}
    /\ IF state = "CLOSED"
         THEN /\ probeOf' = [probeOf EXCEPT ![c] = 0]
              /\ UNCHANGED <<state, probing, period, lost>>
         ELSE /\ Reopens => period < MaxPeriods
              /\ state' = "HALF_OPEN"
              /\ probing' = TRUE
              /\ period' = IF Reopens THEN period + 1 ELSE period
              /\ lost' = FALSE
              /\ probeOf' = [probeOf EXCEPT ![c] = period']
    /\ UNCHANGED <<failures, cooled>>

Open == state' = "OPEN" /\ cooled' = FALSE /\ failures' = 0

\* _record_failure(): any call that ends in HALF_OPEN decides, also one that
\* was admitted before the breaker opened.
Fail(c) ==
    /\ c \in inCall
    /\ inCall' = inCall \ {c}
    /\ \/ state = "HALF_OPEN" /\ Open /\ probing' = FALSE
       \/ /\ state # "HALF_OPEN"
          /\ UNCHANGED probing
          /\ IF failures + 1 >= Threshold
               THEN Open
               ELSE failures' = failures + 1 /\ UNCHANGED <<state, cooled>>
    /\ UNCHANGED <<period, probeOf, lost>>

\* _record_success() leaves an OPEN breaker open.
Settled == state' = IF state = "HALF_OPEN" THEN "CLOSED" ELSE state

Succeed(c) ==
    /\ c \in inCall
    /\ inCall' = inCall \ {c}
    /\ Settled
    /\ probing' = IF state = "HALF_OPEN" THEN FALSE ELSE probing
    /\ failures' = 0
    /\ UNCHANGED <<cooled, period, probeOf, lost>>

\* CancelledError is not an Exception: neither branch of call() runs.
Cancel(c) ==
    /\ c \in inCall
    /\ inCall' = inCall \ {c}
    /\ lost' = (lost \/ (state = "HALF_OPEN" /\ probeOf[c] = period))
    /\ UNCHANGED <<state, failures, probing, cooled, period, probeOf>>

\* A failure leaves the window: the next count does not see it.
Forget ==
    /\ failures > 0
    /\ failures' = failures - 1
    /\ UNCHANGED <<state, probing, cooled, inCall, period, probeOf, lost>>

CoolDown ==
    /\ state = "OPEN" /\ ~cooled
    /\ cooled' = TRUE
    /\ UNCHANGED <<state, failures, probing, inCall, period, probeOf, lost>>

BreakerNext ==
    \/ \E c \in Callers : Begin(c) \/ Fail(c) \/ Succeed(c) \/ Cancel(c)
    \/ Forget
    \/ CoolDown

BreakerSpec == BreakerInit /\ [][BreakerNext]_breakerVars

-----------------------------------------------------------------------------
(* Properties.                                                             *)

\* A HALF_OPEN breaker, which refuses every call, is never left without the
\* one call that will decide it: exactly one probe of this period is under
\* way, unless it was cancelled.  Calls of earlier periods, which may end at
\* any time, neither use up the probe nor admit a second one.
HalfOpenHasItsProbe ==
    state = "HALF_OPEN" =>
        /\ probing
        /\ lost => \A c \in inCall : probeOf[c] # period
        /\ ~lost => \E c \in inCall : \A d \in inCall : probeOf[d] = period <=> d = c
=============================================================================
