---------------------------- MODULE UsageBilling ----------------------------
(***************************************************************************)
(* Usage metering and billing of one tenant: the usage collector that      *)
(* turns bus events into rows of usage_events, generate_monthly_invoice()  *)
(* as the sequence of its database commits, and the limit enforcer with    *)
(* its counter in Redis.  Several invoice generations and several limit    *)
(* checks run at the same time, in any number of processes; any of them    *)
(* may stop between two of its steps.                                      *)
(***************************************************************************)
EXTENDS Integers, FiniteSets

CONSTANTS Events,       \* source events that carry billable usage
          Generations,  \* runs of generate_monthly_invoice(), named by the
                        \*   uuid of the invoice they create
          Checkers,     \* tasks that call check_and_allow()
          Periods,      \* pairs <<start, end>> of hours
          LastHour,     \* bound: the hours are 0 .. LastHour
          Limit,        \* TIER_USAGE_LIMITS of the tenant's tier
          MaxQuantity,  \* bound: the largest quantity of one check
          MaxPermitted, \* bound: no check starts above this total
          None

Hours == 0 .. LastHour

ASSUME BillingAssumption ==
    /\ LastHour \in Nat
    /\ Periods \subseteq Hours \X Hours
    /\ Limit \in Nat \ {0}
    /\ MaxQuantity \in Nat \ {0}
    /\ MaxPermitted \in Nat
    /\ None \notin Generations
    /\ None \notin Hours

VARIABLES usage,      \* usage_events: the hour bucket and the invoice of a row
          subscribed, \* the tenant has a row in billing_subscriptions
          gen,        \* progress of each generation and the rows its SELECT found
          invoices,   \* the invoices table
          pending,    \* history: generations that had not marked their rows
                      \*   when the SELECT of this one ran
          counter,    \* the Redis counter of the current period
          check,      \* progress of each limit check
          permitted,  \* history: quantity that was let through
          stale       \* history: counter writes based on an overwritten value

billingVars == <<usage, subscribed, gen, invoices, pending>>
limitVars == <<counter, check, permitted, stale>>
vars == <<billingVars, limitVars>>

Row == [hour : Hours \cup {None}, invoice : Generations \cup {None}]
NoRow == [hour |-> None, invoice |-> None]
Recorded(e) == usage[e].hour # None

\* Where a generation may be; "dead" stopped before its rows were marked,
\* "silent" stopped between the mark and the bus event.
Unmarked == {"found", "created", "dead"}
Marked == {"marked", "announced", "silent"}
Generation == [at : {"idle"} \cup Unmarked \cup Marked,
               found : SUBSET Events]
Check == [at : {"idle", "read"}, seen : Nat, quantity : 1 .. MaxQuantity]

Init ==
    /\ usage = [e \in Events |-> NoRow]
    /\ subscribed = FALSE
    /\ gen = [g \in Generations |-> [at |-> "idle", found |-> {}]]
    /\ invoices = {}
    /\ pending = [g \in Generations |-> {}]
    /\ counter = 0
    /\ check = [c \in Checkers |-> [at |-> "idle", seen |-> 0, quantity |-> 1]]
    /\ permitted = 0
    /\ stale = 0

-----------------------------------------------------------------------------
(* Collection.  The bus may hand over an event any number of times.        *)

\* Mutant: the conflict clause updates the row.
RecordUsageUpsert(e, h) == [usage EXCEPT ![e] = [hour |-> h, invoice |-> None]]

\* INSERT ... ON CONFLICT (usage_event_id) DO NOTHING
RecordUsage(e, h) ==
    IF Recorded(e) THEN usage
    ELSE [usage EXCEPT ![e] = [hour |-> h, invoice |-> None]]

\* One of the four handlers.  An event without occurred_at takes the time of
\* this delivery, so that its bucket may differ between deliveries.
Collect(e, h, quantity) ==
    /\ usage' = IF quantity > 0 THEN RecordUsage(e, h) ELSE usage
    /\ UNCHANGED <<subscribed, gen, invoices, pending, limitVars>>

-----------------------------------------------------------------------------
(* Invoicing.                                                              *)

CreateSubscription ==
    /\ ~subscribed
    /\ subscribed' = TRUE
    /\ UNCHANGED <<usage, gen, invoices, pending, limitVars>>

\* find_uninvoiced(): both buckets of the period are inclusive.
Uninvoiced(start, end) ==
    {e \in Events : /\ Recorded(e)
                    /\ usage[e].invoice = None
                    /\ start <= usage[e].hour
                    /\ usage[e].hour <= end}

FindUsage(g, start, end) ==
    /\ subscribed
    /\ gen[g].at = "idle"
    /\ gen' = [gen EXCEPT ![g] = [at |-> "found", found |-> Uninvoiced(start, end)]]
    /\ pending' = [pending EXCEPT ![g] = {h \in Generations : gen[h].at \in Unmarked}]
    /\ UNCHANGED <<usage, subscribed, invoices, limitVars>>

\* create_invoice() commits on its own ...
CreateInvoice(g) ==
    /\ gen[g].at = "found"
    /\ gen' = [gen EXCEPT ![g].at = "created"]
    /\ invoices' = invoices \cup {g}
    /\ UNCHANGED <<usage, subscribed, pending, limitVars>>

\* ... and so does mark_invoiced(), whose UPDATE does not look at invoice_id.
MarkRows(g) ==
    [e \in Events |-> IF e \in gen[g].found
                      THEN [usage[e] EXCEPT !.invoice = g] ELSE usage[e]]

MarkInvoiced(g) ==
    /\ gen[g].at = "created"
    /\ gen' = [gen EXCEPT ![g].at = "marked"]
    /\ usage' = MarkRows(g)
    /\ UNCHANGED <<subscribed, invoices, pending, limitVars>>

\* saas.billing.invoice_generated
Announce(g) ==
    /\ gen[g].at = "marked"
    /\ gen' = [gen EXCEPT ![g].at = "announced"]
    /\ UNCHANGED <<usage, subscribed, invoices, pending, limitVars>>

\* The process stops, or a statement raises and nothing goes on from there.
Stop(g) ==
    /\ gen[g].at \in {"found", "created", "marked"}
    /\ gen' = [gen EXCEPT ![g].at = IF @ = "marked" THEN "silent" ELSE "dead"]
    /\ UNCHANGED <<usage, subscribed, invoices, pending, limitVars>>

-----------------------------------------------------------------------------
(* The limit enforcer: GET, decision, SET.                                 *)

\* current_usage()
ReadCounter(c, q) ==
    /\ check[c].at = "idle"
    /\ permitted <= MaxPermitted
    /\ check' = [check EXCEPT ![c] = [at |-> "read", seen |-> counter, quantity |-> q]]
    /\ UNCHANGED <<billingVars, counter, permitted, stale>>

\* Mutant: the rule is handed the usage before the request.
LimitReachedBefore(projected) == projected > Limit + MaxQuantity

\* BILLING-USAGE-LIMIT-EXCEEDED
LimitReached(projected) == projected >= Limit

Decide(c) ==
    LET projected == check[c].seen + check[c].quantity IN
    /\ check[c].at = "read"
    /\ check' = [check EXCEPT ![c].at = "idle"]
    /\ UNCHANGED billingVars
    /\ \/ LimitReached(projected) /\ UNCHANGED <<counter, permitted, stale>>
       \/ /\ ~LimitReached(projected)
          /\ counter' = projected
          /\ permitted' = permitted + check[c].quantity
          /\ stale' = IF counter = check[c].seen THEN stale ELSE stale + 1

Next ==
    \/ \E e \in Events, h \in Hours, q \in {0, 1} : Collect(e, h, q)
    \/ CreateSubscription
    \/ \E g \in Generations :
        \/ \E p \in Periods : FindUsage(g, p[1], p[2])
        \/ CreateInvoice(g)
        \/ MarkInvoiced(g)
        \/ Announce(g)
        \/ Stop(g)
    \/ \E c \in Checkers :
        \/ \E q \in 1 .. MaxQuantity : ReadCounter(c, q)
        \/ Decide(c)

Spec == Init /\ [][Next]_vars

-----------------------------------------------------------------------------
(* Properties.                                                             *)

BillingTypeOK ==
    /\ usage \in [Events -> Row]
    /\ subscribed \in BOOLEAN
    /\ gen \in [Generations -> Generation]
    /\ invoices \subseteq Generations
    /\ pending \in [Generations -> SUBSET Generations]
    /\ counter \in Nat
    /\ check \in [Checkers -> Check]
    /\ permitted \in Nat
    /\ stale \in Nat

\* A usage event is on two invoices only if one of the two generations had not
\* marked its rows when the other one read the table: it overlapped with it or
\* stopped between create_invoice() and mark_invoiced().  Generations that
\* follow one another never bill an event twice, however often the bus
\* delivers it and although consecutive periods share their boundary bucket.
DoubleBillingNeedsOverlap ==
    \A g, h \in invoices : \A e \in gen[g].found \cap gen[h].found :
        g # h => g \in pending[h] \/ h \in pending[g]

\* Usage that is off the books (marked with an invoice) is on that invoice,
\* and the invoice exists: no order of commits, crashes and overlapping
\* generations loses the revenue of a row.
MarksAreBacked ==
    \A e \in Events : usage[e].invoice # None =>
        /\ usage[e].invoice \in invoices
        /\ e \in gen[usage[e].invoice].found

\* get-then-set may let through more than the tier allows, but never by more
\* than one limit for each counter write that overwrote another task's: the
\* counter itself stays below the limit.
OverrunIsBounded ==
    /\ counter < Limit
    /\ permitted <= counter + stale * Limit
=============================================================================
