--------------------------- MODULE BusinessProofs ---------------------------
(***************************************************************************)
(* Proofs about UsageBilling, TenantLifecycle, CampaignLifecycle and       *)
(* CampaignAudience for any events, generations, callers, customers,       *)
(* campaigns and selections.                                               *)
(***************************************************************************)
EXTENDS UsageBilling, TenantLifecycle, CampaignLifecycle, CampaignAudience, TLAPS

-----------------------------------------------------------------------------
(* Metering and billing.                                                   *)
\* The invoices table follows the progress of the generations, and only a
\* recorded row is marked.
TablesInv ==
    /\ \A g \in Generations :
        /\ gen[g].at = "idle" => gen[g].found = {}
        /\ gen[g].at \in {"idle", "found"} => g \notin invoices
        /\ gen[g].at \in {"created"} \cup Marked => g \in invoices
    /\ \A e \in Events : usage[e].invoice # None => Recorded(e)

\* Once a generation has marked its rows they stay marked, by it or by another.
MarkedInv ==
    \A g \in Generations : gen[g].at \in Marked =>
        \A e \in gen[g].found : usage[e].invoice # None

\* A generation holds rows that are in the table.
FoundRecorded == \A g \in Generations : \A e \in gen[g].found : Recorded(e)

\* What DoubleBillingNeedsOverlap says, from the SELECT on.
OverlapInv ==
    \A g, h \in Generations : \A e \in gen[g].found \cap gen[h].found :
        g # h => g \in pending[h] \/ h \in pending[g]

BillingInv ==
    /\ BillingTypeOK
    /\ TablesInv
    /\ MarkedInv
    /\ OverlapInv
    /\ FoundRecorded
    /\ MarksAreBacked
    /\ OverrunIsBounded

-----------------------------------------------------------------------------
\* One more overwritten counter value pays for one more limit.
LEMMA OneMoreLimit ==
    ASSUME NEW s \in Nat, NEW n \in Nat PROVE (s + 1) * n = s * n + n
  BY SMT

\* The initial state satisfies the invariant.
LEMMA BillingInvInit == Init => BillingInv
  <1> SUFFICES ASSUME Init PROVE BillingInv
    OBVIOUS
  <1>1. /\ usage \in [Events -> Row]
        /\ \A e \in Events : usage[e].invoice = None /\ ~Recorded(e)
    BY DEF Init, NoRow, Row, Recorded
  <1>2. /\ gen \in [Generations -> Generation]
        /\ \A g \in Generations : gen[g].at = "idle" /\ gen[g].found = {}
    BY DEF Init, Generation
  <1>3. check \in [Checkers -> Check]
    BY BillingAssumption DEF Init, Check
  <1>4. OverrunIsBounded
    <2>1. 0 * Limit = 0
      BY BillingAssumption
    <2> QED BY <2>1, BillingAssumption DEF Init, OverrunIsBounded
  <1> QED
    BY <1>1, <1>2, <1>3, <1>4
    DEF Init, BillingInv, BillingTypeOK, TablesInv, MarkedInv, OverlapInv, FoundRecorded,
        MarksAreBacked, Marked

\* A limit check leaves the tables alone and keeps the counter's bound.
LEMMA LimitStep ==
    ASSUME BillingInv, NEW c \in Checkers,
           Decide(c) \/ \E q \in 1 .. MaxQuantity : ReadCounter(c, q)
    PROVE  BillingInv'
  <1>1. /\ UNCHANGED billingVars
        /\ counter \in Nat /\ permitted \in Nat /\ stale \in Nat
        /\ counter < Limit /\ permitted <= counter + stale * Limit
        /\ check \in [Checkers -> Check]
    BY DEF Decide, ReadCounter, BillingInv, BillingTypeOK, OverrunIsBounded
  <1>2. /\ TablesInv' /\ MarkedInv' /\ OverlapInv' /\ FoundRecorded' /\ MarksAreBacked'
    BY <1>1 DEF billingVars, BillingInv, TablesInv, MarkedInv, OverlapInv, FoundRecorded,
                MarksAreBacked, Recorded
  <1>3. BillingTypeOK' /\ OverrunIsBounded'
    <2>1. CASE \E q \in 1 .. MaxQuantity : ReadCounter(c, q)
      BY <1>1, <2>1, BillingAssumption
      DEF ReadCounter, billingVars, BillingInv, BillingTypeOK, OverrunIsBounded, Check
    <2>2. CASE Decide(c)
      <3> DEFINE projected == check[c].seen + check[c].quantity
      <3>1. /\ check[c] \in Check /\ projected \in Nat
            /\ check[c].quantity \in Nat /\ check[c].quantity <= projected
        BY <1>1, BillingAssumption DEF Check
      <3>2. check' \in [Checkers -> Check]
        BY <1>1, <2>2 DEF Decide, Check
      <3>3. CASE UNCHANGED <<counter, permitted, stale>>
        BY <1>1, <3>2, <3>3 DEF billingVars, BillingInv, BillingTypeOK, OverrunIsBounded
      <3>4. CASE ~UNCHANGED <<counter, permitted, stale>>
        <4>1. /\ projected < Limit
              /\ counter' = projected
              /\ permitted' = permitted + check[c].quantity
              /\ stale' = IF counter = check[c].seen THEN stale ELSE stale + 1
          BY <2>2, <3>1, <3>4, BillingAssumption DEF Decide, LimitReached
        <4>2. counter' \in Nat /\ permitted' \in Nat /\ stale' \in Nat
          BY <1>1, <3>1, <4>1
        <4>3. permitted' <= counter' + stale' * Limit
          <5>1. CASE counter = check[c].seen
            BY <1>1, <3>1, <4>1, <5>1, BillingAssumption
          <5>2. CASE counter # check[c].seen
            <6>1. stale' * Limit = stale * Limit + Limit /\ stale * Limit \in Nat
              BY <1>1, <4>1, <5>2, OneMoreLimit, BillingAssumption
            <6> QED BY <1>1, <3>1, <4>1, <6>1, BillingAssumption
          <5> QED BY <5>1, <5>2
        <4> QED
          BY <1>1, <3>2, <4>1, <4>2, <4>3 DEF billingVars, BillingInv, BillingTypeOK, OverrunIsBounded
      <3> QED BY <3>3, <3>4
    <2> QED BY <2>1, <2>2
  <1> QED BY <1>2, <1>3 DEF BillingInv

-----------------------------------------------------------------------------
\* Collecting an event changes a row only if there was none.
LEMMA CollectStep ==
    ASSUME BillingInv, NEW e \in Events, NEW h \in Hours, NEW q \in {0, 1}, Collect(e, h, q)
    PROVE  BillingInv'
  <1>1. \A x \in Events : Recorded(x) => usage'[x] = usage[x]
    BY DEF Collect, RecordUsage, Recorded, BillingInv, BillingTypeOK
  <1>2. \A x \in Events : usage'[x].invoice = usage[x].invoice
    BY DEF Collect, RecordUsage, Recorded, BillingInv, BillingTypeOK, TablesInv
  <1>3. usage' \in [Events -> Row]
    BY DEF Collect, RecordUsage, BillingInv, BillingTypeOK, Row
  <1>4. UNCHANGED <<subscribed, gen, invoices, pending, limitVars>>
    BY DEF Collect
  <1>5. BillingTypeOK'
    BY <1>3, <1>4 DEF BillingInv, BillingTypeOK, limitVars
  <1>6. TablesInv' /\ MarkedInv' /\ OverlapInv' /\ FoundRecorded' /\ MarksAreBacked' /\ OverrunIsBounded'
    BY <1>1, <1>2, <1>4
    DEF BillingInv, BillingTypeOK, TablesInv, MarkedInv, OverlapInv, FoundRecorded, MarksAreBacked,
        OverrunIsBounded, Recorded, Generation, limitVars
  <1> QED BY <1>5, <1>6 DEF BillingInv

\* A SELECT finds no row that a generation has marked before, so every other
\* generation with one of its rows is still pending.
LEMMA FindStep ==
    ASSUME BillingInv, NEW g \in Generations, NEW p \in Periods, FindUsage(g, p[1], p[2])
    PROVE  BillingInv'
  <1> DEFINE rows == Uninvoiced(p[1], p[2])
  <1>1. /\ rows \subseteq Events
        /\ \A e \in rows : usage[e].invoice = None /\ Recorded(e)
    BY DEF Uninvoiced
  <1>2. /\ gen[g].at = "idle"
        /\ gen' = [gen EXCEPT ![g] = [at |-> "found", found |-> rows]]
        /\ pending' = [pending EXCEPT ![g] = {h \in Generations : gen[h].at \in Unmarked}]
        /\ UNCHANGED <<usage, subscribed, invoices, limitVars>>
    BY DEF FindUsage
  <1>3. BillingTypeOK'
    BY <1>1, <1>2 DEF BillingInv, BillingTypeOK, Generation, limitVars, Unmarked
  <1>4. gen'[g] = [at |-> "found", found |-> rows] /\ \A h \in Generations \ {g} : gen'[h] = gen[h]
    BY <1>2 DEF BillingInv, BillingTypeOK
  <1>5. pending'[g] = {h \in Generations : gen[h].at \in Unmarked}
        /\ \A h \in Generations \ {g} : pending'[h] = pending[h]
    BY <1>2 DEF BillingInv, BillingTypeOK
  <1>6. \A h \in Generations \ {g} : \A e \in rows \cap gen[h].found : h \in pending'[g]
    <2> SUFFICES ASSUME NEW h \in Generations \ {g}, NEW e \in rows \cap gen[h].found
                 PROVE  gen[h].at \in Unmarked
      BY <1>5
    <2>1. gen[h].at # "idle" /\ gen[h].at \notin Marked
      BY <1>1 DEF BillingInv, TablesInv, MarkedInv
    <2>2. gen[h].at \in {"idle"} \cup Unmarked \cup Marked
      BY DEF BillingInv, BillingTypeOK, Generation
    <2> QED BY <2>1, <2>2
  <1>7. OverlapInv'
    <2> SUFFICES ASSUME NEW a \in Generations, NEW b \in Generations, a # b,
                        NEW e \in gen'[a].found \cap gen'[b].found
                 PROVE  a \in pending'[b] \/ b \in pending'[a]
      BY DEF OverlapInv
    <2>1. CASE a = g
      BY <1>4, <1>6, <2>1
    <2>2. CASE b = g
      BY <1>4, <1>6, <2>2
    <2>3. CASE a # g /\ b # g
      BY <1>4, <1>5, <2>3 DEF BillingInv, OverlapInv
    <2> QED BY <2>1, <2>2, <2>3
  <1>8. g \notin invoices
    BY <1>2 DEF BillingInv, TablesInv
  <1>9. TablesInv' /\ MarkedInv' /\ FoundRecorded' /\ MarksAreBacked' /\ OverrunIsBounded'
    BY <1>1, <1>2, <1>4, <1>8
    DEF BillingInv, TablesInv, MarkedInv, FoundRecorded, MarksAreBacked, OverrunIsBounded, Recorded,
        Marked, limitVars
  <1> QED BY <1>3, <1>7, <1>9 DEF BillingInv

\* Marking its rows: they are recorded rows of this generation.
LEMMA MarkStep ==
    ASSUME BillingInv, NEW g \in Generations, MarkInvoiced(g)
    PROVE  BillingInv'
  <1>1. /\ gen[g].at = "created" /\ g \in invoices
        /\ UNCHANGED <<subscribed, invoices, pending, limitVars>>
        /\ \A h \in Generations : /\ gen'[h].found = gen[h].found
                                  /\ h # g => gen'[h] = gen[h]
        /\ gen'[g].at = "marked"
    BY DEF MarkInvoiced, BillingInv, BillingTypeOK, TablesInv, Generation
  <1>2. BillingTypeOK'
    <2>1. usage' \in [Events -> Row]
      BY DEF MarkInvoiced, MarkRows, BillingInv, BillingTypeOK, Row
    <2>2. gen' \in [Generations -> Generation]
      BY DEF MarkInvoiced, BillingInv, BillingTypeOK, Generation, Marked
    <2> QED BY <1>1, <2>1, <2>2 DEF BillingInv, BillingTypeOK, limitVars
  <1>3. \A e \in Events : /\ e \in gen[g].found => usage'[e].invoice = g
                          /\ e \notin gen[g].found => usage'[e] = usage[e]
                          /\ usage'[e].hour = usage[e].hour
    BY DEF MarkInvoiced, MarkRows, BillingInv, BillingTypeOK, Row
  <1>4. g # None
    BY BillingAssumption
  <1>5. gen[g].found \subseteq Events /\ \A h \in Generations : gen[h].found \subseteq Events
    BY DEF BillingInv, BillingTypeOK, Generation
  <1>6. \A e \in gen[g].found : Recorded(e)
    BY <1>5 DEF BillingInv, FoundRecorded
  <1>7. TablesInv'
    <2>1. \A h \in Generations : gen[h].at = "idle" => gen[h].found = {}
      BY DEF BillingInv, TablesInv
    <2> QED BY <1>1, <1>3, <1>4, <1>6, <2>1 DEF BillingInv, TablesInv, Recorded, Marked
  <1>8. MarkedInv'
    BY <1>1, <1>3, <1>4, <1>5 DEF BillingInv, MarkedInv
  <1>9. OverlapInv' /\ OverrunIsBounded'
    BY <1>1 DEF BillingInv, OverlapInv, OverrunIsBounded, limitVars
  <1>10. FoundRecorded'
    BY <1>1, <1>3, <1>5 DEF BillingInv, FoundRecorded, Recorded
  <1>11. MarksAreBacked'
    <2> SUFFICES ASSUME NEW e \in Events, usage'[e].invoice # None
                 PROVE  usage'[e].invoice \in invoices' /\ e \in gen'[usage'[e].invoice].found
      BY DEF MarksAreBacked
    <2>1. CASE e \in gen[g].found
      BY <1>1, <1>3, <2>1
    <2>2. CASE e \notin gen[g].found
      <3>1. usage[e].invoice \in invoices /\ e \in gen[usage[e].invoice].found
        BY <1>3, <2>2 DEF BillingInv, MarksAreBacked
      <3>2. usage[e].invoice \in Generations
        BY <3>1 DEF BillingInv, BillingTypeOK
      <3> QED BY <1>1, <1>3, <2>2, <3>1, <3>2
    <2> QED BY <2>1, <2>2
  <1> QED BY <1>2, <1>7, <1>8, <1>9, <1>10, <1>11 DEF BillingInv

\* The other steps only move one generation on.
LEMMA ProgressStep ==
    ASSUME BillingInv, NEW g \in Generations, CreateInvoice(g) \/ Announce(g) \/ Stop(g)
    PROVE  BillingInv'
  <1>1. /\ UNCHANGED <<usage, subscribed, pending, limitVars>>
        /\ \A h \in Generations : /\ gen'[h].found = gen[h].found
                                  /\ h # g => gen'[h] = gen[h]
        /\ gen' \in [Generations -> Generation]
    BY DEF CreateInvoice, Announce, Stop, BillingInv, BillingTypeOK, Generation, Unmarked, Marked
  <1>2. BillingTypeOK' /\ OverlapInv' /\ OverrunIsBounded'
    BY <1>1 DEF CreateInvoice, Announce, Stop, BillingInv, BillingTypeOK, OverlapInv, OverrunIsBounded,
                limitVars
  <1>3. /\ invoices' \in {invoices, invoices \cup {g}}
        /\ gen[g].at # "idle" /\ gen'[g].at \notin {"idle", "found"}
        /\ gen'[g].at \in {"created"} \cup Marked => g \in invoices'
        /\ gen'[g].at \in Marked => gen[g].at \in Marked
    BY DEF CreateInvoice, Announce, Stop, BillingInv, BillingTypeOK, TablesInv, Generation, Marked
  <1>4. TablesInv'
    BY <1>1, <1>3 DEF BillingInv, TablesInv, Recorded, Marked
  <1>5. \A h \in Generations : gen[h].found \subseteq Events
    BY DEF BillingInv, BillingTypeOK, Generation
  <1>6. MarkedInv' /\ FoundRecorded'
    BY <1>1, <1>3, <1>5 DEF BillingInv, MarkedInv, FoundRecorded, Recorded
  <1>7. MarksAreBacked'
    <2>1. invoices \subseteq Generations
      BY DEF BillingInv, BillingTypeOK
    <2> QED BY <1>1, <1>3, <2>1 DEF BillingInv, MarksAreBacked
  <1> QED BY <1>2, <1>4, <1>6, <1>7 DEF BillingInv

-----------------------------------------------------------------------------
\* Every step preserves the invariant.
LEMMA BillingInvStep == BillingInv /\ [Next]_vars => BillingInv'
  <1> SUFFICES ASSUME BillingInv, [Next]_vars PROVE BillingInv'
    OBVIOUS
  <1>1. CASE \E e \in Events, h \in Hours, q \in {0, 1} : Collect(e, h, q)
    BY <1>1, CollectStep
  <1>2. CASE CreateSubscription
    BY <1>2 DEF CreateSubscription, BillingInv, BillingTypeOK, TablesInv, MarkedInv, OverlapInv,
                MarksAreBacked, OverrunIsBounded, FoundRecorded, Recorded, limitVars
  <1>3. CASE \E g \in Generations, p \in Periods : FindUsage(g, p[1], p[2])
    BY <1>3, FindStep
  <1>4. CASE \E g \in Generations : CreateInvoice(g) \/ Announce(g) \/ Stop(g)
    BY <1>4, ProgressStep
  <1>5. CASE \E g \in Generations : MarkInvoiced(g)
    BY <1>5, MarkStep
  <1>6. CASE \E c \in Checkers : Decide(c) \/ \E q \in 1 .. MaxQuantity : ReadCounter(c, q)
    BY <1>6, LimitStep
  <1>7. CASE UNCHANGED vars
    BY <1>7 DEF vars, billingVars, limitVars, BillingInv, BillingTypeOK, TablesInv, MarkedInv,
                OverlapInv, MarksAreBacked, OverrunIsBounded, FoundRecorded, Recorded
  <1> QED BY <1>1, <1>2, <1>3, <1>4, <1>5, <1>6, <1>7 DEF Next

\* generate_monthly_invoice(): what each generation found and where it stands.
THEOREM BillingInvariant == Spec => []BillingInv
  BY BillingInvInit, BillingInvStep, PTL DEF Spec

\* The tables, counters and histories keep their types, whatever overlaps.
THEOREM BillingTypeCorrect == Spec => []BillingTypeOK
  <1>1. BillingInv => BillingTypeOK
    BY DEF BillingInv
  <1> QED BY <1>1, BillingInvariant, PTL

\* generate_monthly_invoice(): sequential generations never bill a row twice.
THEOREM NoDoubleBillingInSequence == Spec => []DoubleBillingNeedsOverlap
  <1>1. BillingInv => DoubleBillingNeedsOverlap
    BY DEF BillingInv, BillingTypeOK, OverlapInv, DoubleBillingNeedsOverlap
  <1> QED BY <1>1, BillingInvariant, PTL

\* mark_invoiced() after create_invoice(): no marked row without its invoice.
THEOREM RevenueIsBacked == Spec => []MarksAreBacked
  <1>1. BillingInv => MarksAreBacked
    BY DEF BillingInv
  <1> QED BY <1>1, BillingInvariant, PTL

\* check_and_allow(): the overrun of the get-then-set counter is bounded.
THEOREM OverrunBound == Spec => []OverrunIsBounded
  <1>1. BillingInv => OverrunIsBounded
    BY DEF BillingInv
  <1> QED BY <1>1, BillingInvariant, PTL

-----------------------------------------------------------------------------
(* Deletion of a tenant.                                                   *)

TenantTypeOK ==
    /\ status \in Statuses
    /\ kek \in Nat /\ minted \in Nat /\ shreddedTo \in Nat /\ completedAt \in Nat
    /\ op \in [Admins -> Operation]

\* Keys are numbered in the order of their creation.
KeysAreOrdered ==
    /\ kek <= minted
    /\ shreddedTo <= completedAt /\ completedAt <= minted
    /\ \A a \in Admins : op[a].keys <= minted

\* Between its read and its write an operation asks for a status that may
\* follow the one it read; past destroy_kek() the only key there can be was
\* created since.
OperationsAreValid ==
    \A a \in Admins :
        /\ op[a].at = "shred" => op[a].name = "complete_deletion"
        /\ op[a].at \in {"shred", "update"} => Target[op[a].name] \in Allowed[op[a].seen]
        /\ op[a].at = "update" /\ op[a].name = "complete_deletion" =>
               kek = 0 \/ kek > op[a].keys

TenantInv == TenantTypeOK /\ KeysAreOrdered /\ OperationsAreValid /\ DeletionIsFinal

LEMMA OperationNames ==
    /\ Operations = {"move_to_sandbox", "activate_production", "suspend", "reactivate",
                     "cancel", "begin_deletion", "complete_deletion"}
    /\ Statuses = {"TRIAL", "SANDBOX", "PRODUCTION", "SUSPENDED", "CANCELLED", "DELETING",
                   "DELETED"}
    /\ \A name \in Operations : /\ Target[name] \in Statuses
                                /\ Target[name] = "DELETED" <=> name = "complete_deletion"
    /\ Allowed["DELETED"] = {}
  BY DEF Operations, Target, Statuses, Allowed

LEMMA TenantInvInit == TenantInit => TenantInv
  BY OperationNames
  DEF TenantInit, TenantInv, TenantTypeOK, KeysAreOrdered, OperationsAreValid,
      DeletionIsFinal, MintedAfterDeletion, MintedInTheGap, Operation

LEMMA ValidateStep ==
    ASSUME TenantInv, NEW a \in Admins, NEW name \in Operations, Validate(a, name)
    PROVE  TenantInv'
  <1>1. /\ UNCHANGED <<status, kek, minted, shreddedTo, completedAt, deleted, overlapped>>
        /\ Target[name] \in Allowed[status]
        /\ op' = [op EXCEPT ![a] = [at |-> FirstStep(name), name |-> name, seen |-> status,
                                    keys |-> minted]]
    BY DEF Validate
  <1>2. /\ FirstStep(name) \in {"shred", "update"}
        /\ FirstStep(name) = "shred" <=> name = "complete_deletion"
    BY DEF FirstStep
  <1>3. TenantTypeOK'
    BY <1>1, <1>2 DEF TenantInv, TenantTypeOK, Operation
  <1>4. KeysAreOrdered'
    BY <1>1 DEF TenantInv, TenantTypeOK, KeysAreOrdered, Operation
  <1>5. OperationsAreValid'
    BY <1>1, <1>2 DEF TenantInv, TenantTypeOK, OperationsAreValid, Operation
  <1>6. DeletionIsFinal'
    BY <1>1 DEF TenantInv, DeletionIsFinal, MintedAfterDeletion, MintedInTheGap
  <1> QED BY <1>3, <1>4, <1>5, <1>6 DEF TenantInv

LEMMA DestroyKEKStep ==
    ASSUME TenantInv, NEW a \in Admins, DestroyKEK(a) PROVE TenantInv'
  <1>1. /\ UNCHANGED <<status, minted, shreddedTo, completedAt, deleted, overlapped>> /\ kek' = 0
        /\ op' = [op EXCEPT ![a].at = "update", ![a].keys = minted] /\ op[a].at = "shred"
    BY DEF DestroyKEK
  <1>2. TenantTypeOK'
    BY <1>1 DEF TenantInv, TenantTypeOK, Operation
  <1>3. KeysAreOrdered'
    BY <1>1 DEF TenantInv, TenantTypeOK, KeysAreOrdered, Operation
  <1>4. OperationsAreValid'
    BY <1>1 DEF TenantInv, TenantTypeOK, OperationsAreValid, Operation
  <1>5. DeletionIsFinal'
    BY <1>1 DEF TenantInv, DeletionIsFinal, MintedAfterDeletion, MintedInTheGap
  <1> QED BY <1>2, <1>3, <1>4, <1>5 DEF TenantInv

\* The only step that changes the status.
LEMMA UpdateStatusStep ==
    ASSUME TenantInv, NEW a \in Admins, UpdateStatus(a) PROVE TenantInv'
  <1> DEFINE name == op[a].name
  <1>1. /\ op[a].at = "update" /\ status' = Target[name]
        /\ shreddedTo' = IF name = "complete_deletion" THEN op[a].keys ELSE shreddedTo
        /\ completedAt' = IF name = "complete_deletion" THEN minted ELSE completedAt
        /\ op' = [op EXCEPT ![a].at = IF name = "activate_production" THEN "provision"
                                                                      ELSE "idle"]
        /\ UNCHANGED <<kek, minted>>
    BY DEF UpdateStatus
  <1>2. name \in Operations /\ op[a].keys \in Nat /\ op[a].keys <= minted
    BY DEF TenantInv, TenantTypeOK, KeysAreOrdered, Operation
  <1>3. TenantTypeOK'
    BY <1>1, <1>2, OperationNames DEF TenantInv, TenantTypeOK, Operation
  <1>4. KeysAreOrdered'
    BY <1>1, <1>2 DEF TenantInv, TenantTypeOK, KeysAreOrdered, Operation
  <1>5. OperationsAreValid'
    BY <1>1 DEF TenantInv, TenantTypeOK, OperationsAreValid, Operation
  <1>6. status' = "DELETED" => kek' = 0 \/ MintedAfterDeletion' \/ MintedInTheGap'
    BY <1>1, <1>2, OperationNames
    DEF TenantInv, TenantTypeOK, KeysAreOrdered, OperationsAreValid,
        MintedAfterDeletion, MintedInTheGap
  <1>7. deleted' => status' = "DELETED" \/ overlapped'
    <2>1. CASE name = "complete_deletion"
      BY <1>1, <1>2, <2>1, OperationNames
    <2>2. CASE name # "complete_deletion"
      <3>1. Target[name] \in Allowed[op[a].seen]
        BY <1>1 DEF TenantInv, OperationsAreValid
      <3>2. op[a].seen # "DELETED"
        BY <3>1, OperationNames
      <3>3. (deleted' => deleted) /\ (overlapped' <=> overlapped \/ status # op[a].seen)
        BY <2>2, Zenon DEF UpdateStatus
      <3>4. deleted => status = "DELETED" \/ overlapped
        BY DEF TenantInv, DeletionIsFinal
      <3> QED BY <3>2, <3>3, <3>4
    <2> QED BY <2>1, <2>2
  <1> QED BY <1>3, <1>4, <1>5, <1>6, <1>7 DEF TenantInv, DeletionIsFinal

\* A key that is created is later than every key seen before.
LEMMA EnsureKeyStep ==
    ASSUME TenantInv, EnsureKey, UNCHANGED <<status, shreddedTo, completedAt, deleted, overlapped>>,
           \/ op' = op
           \/ \E a \in Admins : op' = [op EXCEPT ![a].at = "idle"]
    PROVE  TenantInv'
  <1>1. /\ kek' \in Nat /\ minted' \in Nat /\ kek' <= minted' /\ minted <= minted'
        /\ kek' = kek \/ kek' > minted
    BY DEF EnsureKey, TenantInv, TenantTypeOK, KeysAreOrdered
  <1>2. /\ op' \in [Admins -> Operation]
        /\ \A a \in Admins : /\ op'[a].name = op[a].name /\ op'[a].seen = op[a].seen
                             /\ op'[a].keys = op[a].keys
                             /\ op'[a].at = op[a].at \/ op'[a].at = "idle"
    BY DEF TenantInv, TenantTypeOK, Operation
  <1>3. TenantTypeOK'
    BY <1>1, <1>2 DEF TenantInv, TenantTypeOK
  <1>4. KeysAreOrdered'
    BY <1>1, <1>2 DEF TenantInv, TenantTypeOK, KeysAreOrdered, Operation
  <1>5. OperationsAreValid'
    BY <1>1, <1>2 DEF TenantInv, TenantTypeOK, KeysAreOrdered, OperationsAreValid, Operation
  <1>6. DeletionIsFinal'
    BY <1>1 DEF TenantInv, TenantTypeOK, KeysAreOrdered, DeletionIsFinal,
        MintedAfterDeletion, MintedInTheGap
  <1> QED BY <1>3, <1>4, <1>5, <1>6 DEF TenantInv

LEMMA AbortStep ==
    ASSUME TenantInv, NEW a \in Admins, Abort(a) PROVE TenantInv'
  <1>1. /\ UNCHANGED <<status, kek, minted, shreddedTo, completedAt, deleted, overlapped>>
        /\ op' = [op EXCEPT ![a].at = "idle"]
    BY DEF Abort
  <1>2. TenantTypeOK' /\ KeysAreOrdered'
    BY <1>1 DEF TenantInv, TenantTypeOK, KeysAreOrdered, Operation
  <1>3. OperationsAreValid'
    BY <1>1 DEF TenantInv, TenantTypeOK, OperationsAreValid, Operation
  <1>4. DeletionIsFinal'
    BY <1>1 DEF TenantInv, DeletionIsFinal, MintedAfterDeletion, MintedInTheGap
  <1> QED BY <1>2, <1>3, <1>4 DEF TenantInv

\* The inductive invariant of the tenant's lifecycle.
THEOREM TenantInvariant == TenantSpec => []TenantInv
  <1>1. ASSUME TenantInv, [TenantNext]_tenantVars PROVE TenantInv'
    <2>1. CASE Encrypt
      BY <1>1, <2>1, EnsureKeyStep DEF Encrypt
    <2>2. ASSUME NEW a \in Admins, Provision(a) PROVE TenantInv'
      BY <1>1, <2>2, EnsureKeyStep DEF Provision
    <2>3. CASE UNCHANGED tenantVars
      BY <1>1, <2>3
      DEF tenantVars, TenantInv, TenantTypeOK, KeysAreOrdered, OperationsAreValid,
          DeletionIsFinal, MintedAfterDeletion, MintedInTheGap
    <2> QED BY <1>1, <2>1, <2>2, <2>3, ValidateStep, DestroyKEKStep, UpdateStatusStep,
               AbortStep DEF TenantNext
  <1> QED BY <1>1, TenantInvInit, PTL DEF TenantSpec

\* For any number of callers and keys: what was encrypted before the
\* destroy_kek() of a completed deletion cannot be read while the tenant is
\* DELETED, a key that is there was created after it, in the gap before the
\* UPDATE or later, and only a write over an unread status brings a tenant back.
THEOREM TenantDeletionIsFinal == TenantSpec => []DeletionIsFinal
  BY TenantInvariant, PTL DEF TenantInv

-----------------------------------------------------------------------------
(* Lifecycle of a campaign.                                                *)

CampaignTypeOK ==
    /\ campaign \in Phases
    /\ edit \in [Editors -> Edit]

\* What holds of the status holds of every status about to be written, and an
\* edit that announces a start had the pin.
EditsAreProper ==
    /\ campaign \in Begun \cup {"APPROVED"} => approved
    /\ \A e \in Editors :
        /\ edit[e].at = "update" /\ Asks[edit[e].name] \in Begun =>
               approved /\ (pinned \/ bypassed)
        /\ edit[e].at \in {"update", "publish"} /\ edit[e].name = "activate" =>
               approved /\ pinned
        /\ edit[e].at = "publish" => edit[e].name \in {"activate", "complete"}

CampaignInv == CampaignTypeOK /\ EditsAreProper /\ CampaignStartsProperly

LEMMA EditNames ==
    /\ Edits = {"submit_for_review", "approve", "activate", "pause", "resume", "complete",
                "archive"}
    /\ \A name \in Edits :
        /\ Asks[name] \in Phases
        /\ Asks[name] = "APPROVED" <=> name = "approve"
        /\ Asks[name] = "ACTIVE" <=> name \in {"activate", "resume"}
    /\ Asks["complete"] # "ACTIVE"
  BY DEF Edits, Asks, Phases

\* A campaign gets past APPROVED from APPROVED or from a status past it.
LEMMA FollowersOfPhases ==
    ASSUME NEW s \in Phases, NEW t \in Followers(s), t \in Begun
    PROVE  /\ s \in Begun \cup {"APPROVED"}
           /\ s = "APPROVED" => t = "ACTIVE"
  BY DEF Followers, Phases, Begun

LEMMA CampaignInvInit == CampaignInit => CampaignInv
  BY EditNames
  DEF CampaignInit, CampaignInv, CampaignTypeOK, EditsAreProper, CampaignStartsProperly,
      Phases, Edit, Begun

LEMMA BeginEditStep ==
    ASSUME CampaignInv, NEW e \in Editors, NEW name \in Edits, BeginEdit(e, name)
    PROVE  CampaignInv'
  <1>1. /\ UNCHANGED <<campaign, pinned, events, approved>>
        /\ edit' = [edit EXCEPT ![e] = [at |-> "update", name |-> name]]
        /\ Asks[name] \in Followers(campaign)
        /\ name = "activate" => pinned
    BY DEF BeginEdit, PinAllows
  <1>2. bypassed => bypassed'
    BY Zenon DEF BeginEdit
  <1>3. name = "resume" /\ campaign = "APPROVED" => bypassed'
    BY Zenon DEF BeginEdit
  <1>4. CampaignTypeOK'
    BY <1>1 DEF CampaignInv, CampaignTypeOK, Edit
  <1>5. Asks[name] \in Begun => approved' /\ (pinned' \/ bypassed')
    <2> SUFFICES ASSUME Asks[name] \in Begun PROVE approved' /\ (pinned' \/ bypassed')
      OBVIOUS
    <2>1. /\ campaign \in Begun \cup {"APPROVED"}
          /\ campaign = "APPROVED" => Asks[name] = "ACTIVE"
      BY <1>1, FollowersOfPhases DEF CampaignInv, CampaignTypeOK
    <2>2. CASE campaign = "APPROVED"
      BY <1>1, <1>3, <2>1, <2>2, EditNames DEF CampaignInv, EditsAreProper
    <2>3. CASE campaign \in Begun
      BY <1>1, <1>2, <2>3 DEF CampaignInv, EditsAreProper, CampaignStartsProperly
    <2> QED BY <2>1, <2>2, <2>3
  <1>6. name = "activate" => approved' /\ pinned'
    BY <1>1, <1>5, EditNames DEF Begun
  <1>7. EditsAreProper'
    BY <1>1, <1>2, <1>5, <1>6 DEF CampaignInv, CampaignTypeOK, EditsAreProper, Edit
  <1>8. CampaignStartsProperly'
    BY <1>1, <1>2 DEF CampaignInv, CampaignStartsProperly
  <1> QED BY <1>4, <1>7, <1>8 DEF CampaignInv

LEMMA WriteStatusStep ==
    ASSUME CampaignInv, NEW e \in Editors, WriteStatus(e) PROVE CampaignInv'
  <1> DEFINE name == edit[e].name
  <1>1. /\ UNCHANGED <<pinned, events, bypassed>>
        /\ edit[e].at = "update" /\ campaign' = Asks[name]
        /\ edit' = [edit EXCEPT ![e].at = IF name \in {"activate", "complete"}
                                          THEN "publish" ELSE "idle"]
    BY DEF WriteStatus
  <1>2. (approved => approved') /\ (name = "approve" => approved')
    BY Zenon DEF WriteStatus
  <1>3. name \in Edits
    BY DEF CampaignInv, CampaignTypeOK, Edit
  <1>4. CampaignTypeOK'
    BY <1>1, <1>3, EditNames DEF CampaignInv, CampaignTypeOK, Edit
  <1>5. campaign' \in Begun => approved' /\ (pinned' \/ bypassed')
    BY <1>1, <1>2 DEF CampaignInv, EditsAreProper
  <1>6. campaign' = "APPROVED" => approved'
    BY <1>1, <1>2, <1>3, EditNames
  <1>7. EditsAreProper'
    BY <1>1, <1>2, <1>5, <1>6 DEF CampaignInv, CampaignTypeOK, EditsAreProper, Edit
  <1>8. CampaignStartsProperly'
    BY <1>1, <1>2, <1>5 DEF CampaignInv, CampaignStartsProperly
  <1> QED BY <1>4, <1>7, <1>8 DEF CampaignInv

LEMMA PublishEditStep ==
    ASSUME CampaignInv, NEW e \in Editors, PublishEdit(e) PROVE CampaignInv'
  <1>1. /\ UNCHANGED <<campaign, pinned, approved, bypassed>>
        /\ events' = events \cup {Asks[edit[e].name]} /\ edit[e].at = "publish"
        /\ edit' = [edit EXCEPT ![e].at = "idle"]
    BY DEF PublishEdit
  <1>2. CampaignTypeOK'
    BY <1>1 DEF CampaignInv, CampaignTypeOK, Edit
  <1>3. EditsAreProper'
    BY <1>1 DEF CampaignInv, CampaignTypeOK, EditsAreProper, Edit
  <1>4. Asks[edit[e].name] = "ACTIVE" => approved /\ pinned
    BY <1>1, EditNames DEF CampaignInv, EditsAreProper
  <1>5. CampaignStartsProperly'
    BY <1>1, <1>4 DEF CampaignInv, CampaignStartsProperly
  <1> QED BY <1>2, <1>3, <1>5 DEF CampaignInv

LEMMA PinOrAbortStep ==
    ASSUME CampaignInv, Pin \/ \E e \in Editors : AbortEdit(e) PROVE CampaignInv'
  <1>1. /\ UNCHANGED <<campaign, events, approved, bypassed>>
        /\ pinned => pinned'
        /\ \/ edit' = edit
           \/ \E e \in Editors : edit' = [edit EXCEPT ![e].at = "idle"]
    BY DEF Pin, AbortEdit
  <1>2. /\ edit' \in [Editors -> Edit]
        /\ \A e \in Editors : /\ edit'[e].name = edit[e].name
                              /\ edit'[e].at = edit[e].at \/ edit'[e].at = "idle"
    BY <1>1 DEF CampaignInv, CampaignTypeOK, Edit
  <1>3. CampaignTypeOK'
    BY <1>1, <1>2 DEF CampaignInv, CampaignTypeOK
  <1>4. EditsAreProper'
    BY <1>1, <1>2 DEF CampaignInv, EditsAreProper
  <1>5. CampaignStartsProperly'
    BY <1>1 DEF CampaignInv, CampaignStartsProperly
  <1> QED BY <1>3, <1>4, <1>5 DEF CampaignInv

\* The inductive invariant of the campaign's lifecycle.
THEOREM CampaignInvariant == CampaignSpec => []CampaignInv
  <1>1. ASSUME CampaignInv, [CampaignNext]_campaignVars PROVE CampaignInv'
    <2>1. CASE UNCHANGED campaignVars
      BY <1>1, <2>1
      DEF campaignVars, CampaignInv, CampaignTypeOK, EditsAreProper, CampaignStartsProperly
    <2> QED BY <1>1, <2>1, BeginEditStep, WriteStatusStep, PublishEditStep, PinOrAbortStep
            DEF CampaignNext
  <1> QED BY <1>1, CampaignInvInit, PTL DEF CampaignSpec

\* For any number of editors, through any stale writes: no campaign is started
\* without an approval, and none without a pin except by resuming it unstarted.
THEOREM CampaignsStartProperly == CampaignSpec => []CampaignStartsProperly
  BY CampaignInvariant, PTL DEF CampaignInv

-----------------------------------------------------------------------------
(* Audiences.                                                              *)

AudienceTypeOK ==
    /\ row \in [Campaigns -> [Customers -> Selections \cup {Nobody}]]
    /\ todo \in [Selections -> SUBSET Customers]
    /\ claimed \in [Selections -> Customers \cup {Nobody}]
    /\ raced \in [Selections -> SUBSET (Selections \X Customers)]

RowsAreOwned ==
    \A k \in Campaigns, c \in Customers : row[k][c] # Nobody => CampaignOf[row[k][c]] = k

Met(r, s, c) == <<r, c>> \in raced[s] \/ <<s, c>> \in raced[r]

\* A claim that is open met every row and every open claim that other
\* campaigns have for its customer.
ClaimsMet ==
    \A s \in Selections : claimed[s] # Nobody =>
        /\ \A k \in Campaigns \ {CampaignOf[s]} :
               row[k][claimed[s]] # Nobody => Met(row[k][claimed[s]], s, claimed[s])
        /\ \A r \in Selections : claimed[r] = claimed[s] /\ CampaignOf[r] # CampaignOf[s] =>
               Met(r, s, claimed[s])

AudienceInv == AudienceTypeOK /\ RowsAreOwned /\ ClaimsMet /\ OneCampaignEach

LEMMA AudienceInvInit == AudienceInit => AudienceInv
  BY AudienceAssumption
  DEF AudienceInit, AudienceInv, AudienceTypeOK, RowsAreOwned, ClaimsMet, OneCampaignEach

\* Steps that neither open a claim nor insert a row.
LEMMA ClosingStep ==
    ASSUME AudienceInv, UNCHANGED <<row, raced>>, todo' \in [Selections -> SUBSET Customers],
           \/ claimed' = claimed
           \/ \E s \in Selections : claimed' = [claimed EXCEPT ![s] = Nobody]
    PROVE  AudienceInv'
  <1>1. /\ claimed' \in [Selections -> Customers \cup {Nobody}]
        /\ \A s \in Selections : claimed'[s] = claimed[s] \/ claimed'[s] = Nobody
    BY DEF AudienceInv, AudienceTypeOK
  <1>2. AudienceTypeOK' /\ RowsAreOwned' /\ OneCampaignEach'
    BY <1>1 DEF AudienceInv, AudienceTypeOK, RowsAreOwned, OneCampaignEach
  <1>3. ClaimsMet'
    BY <1>1 DEF AudienceInv, ClaimsMet, Met
  <1> QED BY <1>2, <1>3 DEF AudienceInv

\* A claim is opened only where no other campaign has a row, and it records
\* the open claims of the customer.
LEMMA LookStep ==
    ASSUME AudienceInv, NEW s \in Selections, NEW c \in Customers, Look(s, c)
    PROVE  AudienceInv'
  <1>1. /\ UNCHANGED row /\ todo' = [todo EXCEPT ![s] = @ \ {c}]
        /\ todo' \in [Selections -> SUBSET Customers]
    BY DEF Look, AudienceInv, AudienceTypeOK
  <1>2. CASE AlreadyInAnotherCampaign(s, c)
    BY <1>1, <1>2, ClosingStep DEF Look
  <1>3. CASE ~AlreadyInAnotherCampaign(s, c)
    <2> DEFINE open == {<<r, c>> : r \in {q \in Selections : claimed[q] = c}}
    <2>1. /\ claimed' = [claimed EXCEPT ![s] = c]
          /\ raced' = [raced EXCEPT ![s] = @ \cup open]
          /\ claimed[s] = Nobody
      BY <1>3 DEF Look
    <2>2. /\ claimed'[s] = c /\ \A r \in Selections \ {s} : claimed'[r] = claimed[r]
          /\ \A r \in Selections : raced[r] \subseteq raced'[r]
          /\ \A r \in Selections : claimed[r] = c => <<r, c>> \in raced'[s]
      BY <2>1 DEF AudienceInv, AudienceTypeOK
    <2>3. AudienceTypeOK'
      <3>1. open \subseteq Selections \X Customers
        OBVIOUS
      <3> QED BY <1>1, <2>1, <3>1 DEF AudienceInv, AudienceTypeOK
    <2>4. RowsAreOwned'
      BY <1>1 DEF AudienceInv, RowsAreOwned
    <2>5. \A q, r \in Selections, d \in Customers : Met(q, r, d) => Met(q, r, d)'
      BY <2>2 DEF Met
    <2>6. ClaimsMet'
      <3> SUFFICES ASSUME NEW t \in Selections, claimed'[t] # Nobody
                   PROVE
                     /\ \A k \in Campaigns \ {CampaignOf[t]} :
                            row'[k][claimed'[t]] # Nobody =>
                                Met(row[k][claimed[t]], t, claimed[t])'
                     /\ \A r \in Selections :
                            claimed'[r] = claimed'[t] /\ CampaignOf[r] # CampaignOf[t] =>
                                Met(r, t, claimed[t])'
        BY DEF ClaimsMet, Met
      <3>1. claimed'[t] \in Customers
        BY <2>3 DEF AudienceTypeOK
      <3>2. CASE t = s
        BY <1>1, <1>3, <2>2, <3>2 DEF AlreadyInAnotherCampaign, Met
      <3>3. CASE t # s
        <4>1. claimed'[t] = claimed[t]
          BY <2>2, <3>3
        <4>2. ASSUME NEW k \in Campaigns \ {CampaignOf[t]}, row'[k][claimed'[t]] # Nobody
              PROVE  Met(row[k][claimed[t]], t, claimed[t])'
          <5>1. row[k][claimed[t]] \in Selections
            BY <1>1, <3>1, <4>1, <4>2 DEF AudienceInv, AudienceTypeOK
          <5>2. Met(row[k][claimed[t]], t, claimed[t])
            BY <1>1, <4>1, <4>2 DEF AudienceInv, ClaimsMet
          <5> QED BY <1>1, <2>2, <4>1, <5>1, <5>2 DEF Met
        <4>3. ASSUME NEW r \in Selections, claimed'[r] = claimed'[t],
                     CampaignOf[r] # CampaignOf[t]
              PROVE  Met(r, t, claimed[t])'
          <5>1. CASE r = s
            BY <2>2, <4>1, <4>3, <5>1 DEF Met
          <5>2. CASE r # s
            <6>1. Met(r, t, claimed[t])
              BY <2>2, <4>1, <4>3, <5>2 DEF AudienceInv, ClaimsMet
            <6> QED BY <2>2, <4>1, <6>1 DEF Met
          <5> QED BY <5>1, <5>2
        <4> QED BY <4>2, <4>3
      <3> QED BY <3>2, <3>3
    <2>7. OneCampaignEach'
      <3> SUFFICES ASSUME NEW d \in Customers, NEW j \in Campaigns, NEW k \in Campaigns,
                          j # k, row[j][d] # Nobody, row[k][d] # Nobody
                   PROVE  \/ <<row[j][d], d>> \in raced'[row[k][d]]
                          \/ <<row[k][d], d>> \in raced'[row[j][d]]
        BY <1>1 DEF OneCampaignEach
      <3>1. row[j][d] \in Selections /\ row[k][d] \in Selections
        BY DEF AudienceInv, AudienceTypeOK
      <3> QED BY <2>2, <3>1 DEF AudienceInv, OneCampaignEach
    <2> QED BY <2>3, <2>4, <2>6, <2>7 DEF AudienceInv
  <1> QED BY <1>2, <1>3

\* An open claim becomes a row that met the rows and claims it met.
LEMMA IncludeStep ==
    ASSUME AudienceInv, NEW s \in Selections, Include(s) PROVE AudienceInv'
  <1> DEFINE m == CampaignOf[s]
             c == claimed[s]
  <1>1. /\ c # Nobody /\ c \in Customers /\ m \in Campaigns
        /\ claimed' = [claimed EXCEPT ![s] = Nobody] /\ UNCHANGED raced
    BY AudienceAssumption DEF Include, AudienceInv, AudienceTypeOK
  <1>2. CASE row[m][c] # Nobody
    <2>1. UNCHANGED row /\ todo' = [todo EXCEPT ![s] = {}]
      BY <1>2 DEF Include
    <2>2. todo' \in [Selections -> SUBSET Customers]
      BY <2>1 DEF AudienceInv, AudienceTypeOK
    <2> QED BY <1>1, <2>1, <2>2, ClosingStep
  <1>3. CASE row[m][c] = Nobody
    <2>1. /\ row' = [row EXCEPT ![m][c] = s] /\ UNCHANGED todo
      BY <1>3 DEF Include
    <2>2. AudienceTypeOK'
      BY <1>1, <2>1 DEF AudienceInv, AudienceTypeOK
    <2>3. /\ row'[m][c] = s
          /\ \A k \in Campaigns, d \in Customers :
                 k # m \/ d # c => row'[k][d] = row[k][d]
          /\ \A r \in Selections : r # s => claimed'[r] = claimed[r]
          /\ claimed'[s] = Nobody
      BY <1>1, <2>1 DEF AudienceInv, AudienceTypeOK
    <2>4. RowsAreOwned'
      BY <2>3 DEF AudienceInv, RowsAreOwned
    <2>5. ClaimsMet'
      <3> SUFFICES ASSUME NEW t \in Selections, claimed'[t] # Nobody
                   PROVE
                     /\ \A k \in Campaigns \ {CampaignOf[t]} :
                            row'[k][claimed'[t]] # Nobody =>
                                Met(row[k][claimed[t]], t, claimed[t])'
                     /\ \A r \in Selections :
                            claimed'[r] = claimed'[t] /\ CampaignOf[r] # CampaignOf[t] =>
                                Met(r, t, claimed[t])'
        BY DEF ClaimsMet, Met
      <3>1. t # s /\ claimed'[t] = claimed[t] /\ claimed[t] \in Customers
        BY <1>1, <2>3, <2>2 DEF AudienceTypeOK
      <3>2. ASSUME NEW k \in Campaigns \ {CampaignOf[t]}, row'[k][claimed'[t]] # Nobody
            PROVE  Met(row[k][claimed[t]], t, claimed[t])'
        <4>1. CASE k = m /\ claimed[t] = c
          <5>1. Met(s, t, claimed[t])
            BY <3>1, <3>2, <4>1 DEF AudienceInv, ClaimsMet
          <5> QED BY <1>1, <2>3, <3>1, <4>1, <5>1 DEF Met
        <4>2. CASE ~(k = m /\ claimed[t] = c)
          <5>1. row'[k][claimed[t]] = row[k][claimed[t]]
            BY <2>3, <3>1, <4>2
          <5>2. Met(row[k][claimed[t]], t, claimed[t])
            BY <3>1, <3>2, <5>1 DEF AudienceInv, ClaimsMet
          <5> QED BY <1>1, <3>1, <5>1, <5>2 DEF Met
        <4> QED BY <4>1, <4>2
      <3>3. ASSUME NEW r \in Selections, claimed'[r] = claimed'[t],
                   CampaignOf[r] # CampaignOf[t]
            PROVE  Met(r, t, claimed[t])'
        <4>1. r # s /\ claimed[r] = claimed[t]
          BY <2>3, <3>1, <3>3
        <4>2. Met(r, t, claimed[t])
          BY <3>1, <3>3, <4>1 DEF AudienceInv, ClaimsMet
        <4> QED BY <1>1, <3>1, <4>2 DEF Met
      <3> QED BY <3>2, <3>3
    <2>6. OneCampaignEach'
      <3> SUFFICES ASSUME NEW d \in Customers, NEW j \in Campaigns, NEW k \in Campaigns,
                          j # k, row'[j][d] # Nobody, row'[k][d] # Nobody
                   PROVE  \/ <<row'[j][d], d>> \in raced[row'[k][d]]
                          \/ <<row'[k][d], d>> \in raced[row'[j][d]]
        BY <1>1 DEF OneCampaignEach
      <3>1. CASE d # c \/ (j # m /\ k # m)
        BY <2>3, <3>1 DEF AudienceInv, OneCampaignEach
      <3>2. CASE d = c /\ j = m
        <4>1. row'[j][d] = s /\ row'[k][d] = row[k][c]
          BY <1>1, <2>3, <3>2
        <4>2. Met(row[k][c], s, c)
          BY <1>1, <3>2, <4>1 DEF AudienceInv, ClaimsMet
        <4> QED BY <3>2, <4>1, <4>2 DEF Met
      <3>3. CASE d = c /\ k = m
        <4>1. row'[k][d] = s /\ row'[j][d] = row[j][c]
          BY <1>1, <2>3, <3>3
        <4>2. Met(row[j][c], s, c)
          BY <1>1, <3>3, <4>1 DEF AudienceInv, ClaimsMet
        <4> QED BY <3>3, <4>1, <4>2 DEF Met
      <3> QED BY <3>1, <3>2, <3>3
    <2> QED BY <2>2, <2>4, <2>5, <2>6 DEF AudienceInv
  <1> QED BY <1>2, <1>3

\* The inductive invariant of the audiences.
THEOREM AudienceInvariant == AudienceSpec => []AudienceInv
  <1>1. ASSUME AudienceInv, [AudienceNext]_audienceVars PROVE AudienceInv'
    <2>1. ASSUME NEW s \in Selections, NEW cohort \in SUBSET Customers,
                 StartSelection(s, cohort)
          PROVE  AudienceInv'
      <3>1. todo' \in [Selections -> SUBSET Customers]
        BY <1>1, <2>1 DEF StartSelection, AudienceInv, AudienceTypeOK
      <3> QED BY <1>1, <2>1, <3>1, ClosingStep DEF StartSelection
    <2>2. ASSUME NEW s \in Selections, Refuse(s) PROVE AudienceInv'
      <3>1. todo' \in [Selections -> SUBSET Customers]
        BY <1>1, <2>2 DEF Refuse, AudienceInv, AudienceTypeOK
      <3> QED BY <1>1, <2>2, <3>1, ClosingStep DEF Refuse
    <2>3. CASE UNCHANGED audienceVars
      BY <1>1, <2>3
      DEF audienceVars, AudienceInv, AudienceTypeOK, RowsAreOwned, ClaimsMet, Met,
          OneCampaignEach
    <2> QED BY <1>1, <2>1, <2>2, <2>3, LookStep, IncludeStep DEF AudienceNext
  <1> QED BY <1>1, AudienceInvInit, PTL DEF AudienceSpec

\* For any customers, campaigns and selections: a customer is in the audiences
\* of two campaigns only if their selections raced for that customer.
THEOREM CustomersHaveOneCampaign == AudienceSpec => []OneCampaignEach
  BY AudienceInvariant, PTL DEF AudienceInv
=============================================================================
