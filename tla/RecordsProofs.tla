---------------------------- MODULE RecordsProofs ----------------------------
(***************************************************************************)
(* Proofs about the rows that several processes write: Settlement,         *)
(* HumanReview, Invitation, AuditChain, WebhookDispatch and                *)
(* CustomerErasure, for any rows and any number of requests.               *)
(***************************************************************************)
EXTENDS Settlement, HumanReview, Invitation, AuditChain, WebhookDispatch, CustomerErasure,
        SequenceTheorems, FiniteSetTheorems, TLAPS

-----------------------------------------------------------------------------
(* Settlements.                                                            *)

\* A request that is about to pay has an approver on record when it needs one.
PayersAreApproved ==
    \A c \in Clerks : LET s == clerk[c].of IN
        /\ clerk[c].step = "publish" => Outcome(clerk[c].op) = "PAID"
        /\ clerk[c].step \in {"write", "publish"} /\ Outcome(clerk[c].op) = "PAID"
               /\ s \in OverThreshold => approvedBy[s] # NoOne

Announcing(s) == {c \in Clerks : clerk[c].step = "publish" /\ clerk[c].of = s}

\* Of a settlement that was never overwritten, a disbursement is either still to be
\* announced, by one request, or announced, once.
AnnouncedOnce ==
    \A s \in Settlements \ writtenStale :
        /\ offer[s] # "PAID" => disbursed[s] = 0 /\ Announcing(s) = {}
        /\ disbursed[s] = 0 \/ (disbursed[s] = 1 /\ Announcing(s) = {})
        /\ \A c, d \in Announcing(s) : c = d

SettlementInv == SettlementTypeOK /\ PayersAreApproved /\ PaidWasApproved /\ AnnouncedOnce

LEMMA NoRequestIsARequest ==
    NoRequest.of \in Settlements /\ NoRequest.step = "idle" /\ NoRequest.op = "accept"
  BY SettlementAssumption DEF NoRequest

LEMMA TargetsOfOperations ==
    \A name \in Requests :
        /\ Outcome(name) \in {"ACCEPTED", "REJECTED", "PAID"}
        /\ Requires(name) \in {"PROPOSED", "ACCEPTED"}
        /\ name \in {"authorize", "disburse", "approve_and_disburse"} <=> Outcome(name) = "PAID"
  BY DEF Requests, Outcome, Requires

LEMMA SettlementInvInit == SettlementInit => SettlementInv
  <1> SUFFICES ASSUME SettlementInit PROVE SettlementInv
    OBVIOUS
  <1>1. SettlementTypeOK
    BY NoRequestIsARequest
    DEF SettlementInit, SettlementTypeOK, NoRequest, Requests, Status
  <1>2. PayersAreApproved /\ PaidWasApproved /\ AnnouncedOnce
    BY NoRequestIsARequest, SettlementAssumption
    DEF SettlementInit, PayersAreApproved, PaidWasApproved, AnnouncedOnce, Announcing
  <1> QED BY <1>1, <1>2 DEF SettlementInv

\* Steps that only move a request along, none of them to the announcement.
LEMMA RequestStep ==
    ASSUME SettlementInv, NEW c \in Clerks, NEW request,
           clerk' = [clerk EXCEPT ![c] = request],
           request \in [step : {"idle", "approval", "reread", "record", "write"},
                        op : Requests, of : Settlements],
           request.step = "write" /\ Outcome(request.op) = "PAID"
               /\ request.of \in OverThreshold => approvedBy'[request.of] # NoOne,
           approvedBy' \in [Settlements -> Clerks \cup {NoOne}],
           \A s \in Settlements : approvedBy[s] # NoOne => approvedBy'[s] # NoOne,
           UNCHANGED <<offer, disbursed, writtenStale>>
    PROVE  SettlementInv'
  <1>1. SettlementTypeOK'
    BY DEF SettlementInv, SettlementTypeOK
  <1>2. \A d \in Clerks : clerk'[d] = IF d = c THEN request ELSE clerk[d]
    BY DEF SettlementInv, SettlementTypeOK
  <1>3. PayersAreApproved'
    BY <1>2 DEF SettlementInv, PayersAreApproved, SettlementTypeOK
  <1>4. PaidWasApproved'
    BY SettlementAssumption DEF SettlementInv, PaidWasApproved
  <1>5. AnnouncedOnce'
    BY <1>2 DEF SettlementInv, AnnouncedOnce, Announcing
  <1> QED BY <1>1, <1>3, <1>4, <1>5 DEF SettlementInv

LEMMA ReadAndCheckSteps ==
    ASSUME SettlementInv, NEW c \in Clerks,
           \/ \E s \in Settlements, op \in Requests : ReadSettlement(c, s, op)
           \/ CheckApproval(c)
           \/ RereadForApproval(c)
           \/ RecordApproval(c)
    PROVE  SettlementInv'
  <1>1. clerk[c].op \in Requests /\ clerk[c].of \in Settlements
    BY DEF SettlementInv, SettlementTypeOK
  <1>2. approvedBy \in [Settlements -> Clerks \cup {NoOne}]
    BY DEF SettlementInv, SettlementTypeOK
  <1>3. ASSUME NEW s \in Settlements, NEW op \in Requests, ReadSettlement(c, s, op)
        PROVE SettlementInv'
    <2> DEFINE request == [step |-> CASE op = "authorize" -> "record"
                             [] op \in {"disburse", "approve_and_disburse"} /\ s \in OverThreshold
                                    -> "approval"
                             [] OTHER -> "write",
                           op |-> op, of |-> s]
    <2>1. request.step \in {"record", "approval", "write"} /\ request.op = op /\ request.of = s
      OBVIOUS
    <2>2. request.step = "write" /\ Outcome(op) = "PAID" => s \notin OverThreshold
      BY TargetsOfOperations
    <2>3. clerk' = [clerk EXCEPT ![c] = request]
          /\ UNCHANGED <<offer, approvedBy, disbursed, writtenStale>>
      BY <1>3 DEF ReadSettlement
    <2> HIDE DEF request
    <2>4. request \in [step : {"idle", "approval", "reread", "record", "write"},
                       op : Requests, of : Settlements]
      BY <2>1 DEF request
    <2> QED BY <1>2, <2>1, <2>2, <2>3, <2>4, RequestStep
  <1>4. ASSUME NEW step \in {"idle", "approval", "reread", "record", "write"},
               clerk' = [clerk EXCEPT ![c].step = step],
               step = "write" /\ clerk[c].of \in OverThreshold
                   => approvedBy'[clerk[c].of] # NoOne,
               approvedBy' \in [Settlements -> Clerks \cup {NoOne}],
               \A s \in Settlements : approvedBy[s] # NoOne => approvedBy'[s] # NoOne,
               UNCHANGED <<offer, disbursed, writtenStale>>
        PROVE  SettlementInv'
    <2> DEFINE request == [clerk[c] EXCEPT !.step = step]
    <2>1. request \in [step : {"idle", "approval", "reread", "record", "write"},
                       op : Requests, of : Settlements]
          /\ request.step = step /\ request.of = clerk[c].of
      BY <1>1, <1>4 DEF SettlementInv, SettlementTypeOK
    <2>2. clerk' = [clerk EXCEPT ![c] = request]
      BY <1>4 DEF SettlementInv, SettlementTypeOK
    <2> HIDE DEF request
    <2> QED BY <1>4, <2>1, <2>2, RequestStep
  <1>5. CASE CheckApproval(c)
    <2>1. PICK step \in {"write", "reread", "idle"} :
              /\ clerk' = [clerk EXCEPT ![c].step = step]
              /\ step = "write" => approvedBy[clerk[c].of] # NoOne
      BY <1>5 DEF CheckApproval
    <2> QED BY <1>2, <1>4, <1>5, <2>1 DEF CheckApproval
  <1>6. CASE RereadForApproval(c)
    <2>1. PICK step \in {"record", "idle"} : clerk' = [clerk EXCEPT ![c].step = step]
      BY <1>6 DEF RereadForApproval
    <2> QED BY <1>2, <1>4, <1>6, <2>1 DEF RereadForApproval
  <1>7. CASE RecordApproval(c)
    <2>1. PICK step \in {"write", "idle"} : clerk' = [clerk EXCEPT ![c].step = step]
      BY <1>7 DEF RecordApproval
    <2>2. approvedBy' = [approvedBy EXCEPT ![clerk[c].of] = c] /\ c # NoOne
      BY <1>7, SettlementAssumption DEF RecordApproval
    <2>3. /\ approvedBy' \in [Settlements -> Clerks \cup {NoOne}]
          /\ approvedBy'[clerk[c].of] # NoOne
          /\ \A s \in Settlements : approvedBy[s] # NoOne => approvedBy'[s] # NoOne
      BY <1>1, <1>2, <2>2
    <2> QED BY <1>4, <1>7, <2>1, <2>3 DEF RecordApproval
  <1> QED BY <1>3, <1>5, <1>6, <1>7

\* The only step that changes the status: over a status it did not read it gives the
\* settlement up to writtenStale, else the settlement was not PAID before.
LEMMA StatusStep ==
    ASSUME SettlementInv, NEW c \in Clerks, WriteOffer(c) PROVE SettlementInv'
  <1>1. PICK s \in Settlements, op \in Requests : s = clerk[c].of /\ op = clerk[c].op
    BY DEF SettlementInv, SettlementTypeOK
  <1>2. PICK step \in {"publish", "idle"} :
            /\ clerk' = [clerk EXCEPT ![c].step = step]
            /\ step = "publish" <=> Outcome(op) = "PAID"
    BY <1>1 DEF WriteOffer
  <1>3. /\ clerk[c].step = "write" /\ offer' = [offer EXCEPT ![s] = Outcome(op)]
        /\ writtenStale' = IF offer[s] = Requires(op) THEN writtenStale
                                                      ELSE writtenStale \cup {s}
        /\ UNCHANGED <<approvedBy, disbursed>>
    BY <1>1 DEF WriteOffer
  <1>4. \A d \in Clerks : /\ clerk'[d].of = clerk[d].of /\ clerk'[d].op = clerk[d].op
                          /\ clerk'[d].step = IF d = c THEN step ELSE clerk[d].step
    BY <1>2 DEF SettlementInv, SettlementTypeOK
  <1>5. SettlementTypeOK'
    BY <1>1, <1>2, <1>3, TargetsOfOperations DEF SettlementInv, SettlementTypeOK, Status
  <1>6. PayersAreApproved'
    BY <1>1, <1>2, <1>3, <1>4 DEF SettlementInv, PayersAreApproved
  <1>7. PaidWasApproved'
    BY <1>1, <1>3, SettlementAssumption
    DEF SettlementInv, SettlementTypeOK, PaidWasApproved, PayersAreApproved
  <1>8. AnnouncedOnce'
    <2>1. ASSUME NEW x \in Settlements \ writtenStale', x # s
          PROVE  /\ Announcing(x)' = Announcing(x) /\ offer'[x] = offer[x]
                 /\ x \notin writtenStale
      <3>1. Announcing(x)' = Announcing(x)
        BY <1>1, <1>3, <1>4, <2>1 DEF Announcing
      <3> QED BY <1>1, <1>3, <2>1, <3>1 DEF SettlementInv, SettlementTypeOK
    <2>2. ASSUME s \notin writtenStale'
          PROVE  /\ disbursed[s] = 0 /\ offer'[s] = Outcome(op)
                 /\ \A d \in Announcing(s)' : d = c /\ Outcome(op) = "PAID"
      <3>1. s \notin writtenStale /\ offer[s] = Requires(op)
        BY <1>3, <2>2
      <3>2. disbursed[s] = 0 /\ Announcing(s) = {}
        BY <1>1, <3>1, TargetsOfOperations DEF SettlementInv, AnnouncedOnce
      <3> QED BY <1>1, <1>2, <1>3, <1>4, <3>2 DEF Announcing, SettlementInv, SettlementTypeOK
    <2>3. ASSUME NEW x \in Settlements \ writtenStale'
          PROVE  /\ offer'[x] # "PAID" => disbursed'[x] = 0 /\ Announcing(x)' = {}
                 /\ disbursed'[x] = 0 \/ (disbursed'[x] = 1 /\ Announcing(x)' = {})
                 /\ \A d, e \in Announcing(x)' : d = e
      <3>1. CASE x = s
        BY <1>3, <2>2, <2>3, <3>1
      <3>2. CASE x # s
        BY <1>3, <2>1, <2>3, <3>2 DEF SettlementInv, AnnouncedOnce
      <3> QED BY <3>1, <3>2
    <2> QED BY <2>3 DEF AnnouncedOnce
  <1> QED BY <1>5, <1>6, <1>7, <1>8 DEF SettlementInv

\* The announcement: one request makes it, and it is not made before.
LEMMA AnnounceStep ==
    ASSUME SettlementInv, NEW c \in Clerks, PublishDisbursed(c) PROVE SettlementInv'
  <1> DEFINE s == clerk[c].of
  <1>1. s \in Settlements /\ Outcome(clerk[c].op) = "PAID" /\ c \in Announcing(s)
    BY DEF SettlementInv, SettlementTypeOK, PayersAreApproved, PublishDisbursed, Announcing
  <1>2. /\ disbursed' = [disbursed EXCEPT ![s] = @ + 1]
        /\ clerk' = [clerk EXCEPT ![c] = NoRequest]
        /\ UNCHANGED <<offer, approvedBy, writtenStale>>
    BY DEF PublishDisbursed
  <1>3. \A d \in Clerks : clerk'[d] = IF d = c THEN NoRequest ELSE clerk[d]
    BY <1>2 DEF SettlementInv, SettlementTypeOK
  <1>4. SettlementTypeOK'
    BY <1>1, <1>2, NoRequestIsARequest
    DEF SettlementInv, SettlementTypeOK, NoRequest, Requests
  <1>5. PayersAreApproved'
    BY <1>2, <1>3, NoRequestIsARequest DEF SettlementInv, PayersAreApproved
  <1>6. PaidWasApproved'
    BY <1>1, <1>2, SettlementAssumption
    DEF SettlementInv, SettlementTypeOK, PaidWasApproved, PayersAreApproved, PublishDisbursed
  <1>7. AnnouncedOnce'
    <2>1. \A x \in Settlements : Announcing(x)' = Announcing(x) \ {c}
      BY <1>3, NoRequestIsARequest DEF Announcing
    <2>2. \A x \in Settlements : disbursed'[x] = IF x = s THEN disbursed[s] + 1 ELSE disbursed[x]
      BY <1>1, <1>2 DEF SettlementInv, SettlementTypeOK
    <2>3. s \notin writtenStale => /\ offer[s] = "PAID" /\ disbursed[s] = 0
                                   /\ Announcing(s) \ {c} = {}
      BY <1>1 DEF SettlementInv, AnnouncedOnce
    <2> QED BY <1>2, <2>1, <2>2, <2>3 DEF SettlementInv, AnnouncedOnce
  <1> QED BY <1>4, <1>5, <1>6, <1>7 DEF SettlementInv

\* The inductive invariant of settlements.
THEOREM SettlementInvariant == SettlementSpec => []SettlementInv
  <1>1. ASSUME SettlementInv, [SettlementNext]_settlementVars PROVE SettlementInv'
    <2>1. ASSUME NEW s \in Settlements, Propose(s) PROVE SettlementInv'
      BY <1>1, <2>1 DEF Propose, SettlementInv, SettlementTypeOK, PayersAreApproved,
                        PaidWasApproved, AnnouncedOnce, Announcing, Status
    <2>2. ASSUME NEW c \in Clerks, AbandonRequest(c) PROVE SettlementInv'
      <3>1. NoRequest \in [step : {"idle", "approval", "reread", "record", "write"},
                           op : Requests, of : Settlements]
        BY NoRequestIsARequest DEF NoRequest, Requests
      <3>2. approvedBy \in [Settlements -> Clerks \cup {NoOne}]
        BY <1>1 DEF SettlementInv, SettlementTypeOK
      <3> QED BY <1>1, <2>2, <3>1, <3>2, NoRequestIsARequest, RequestStep DEF AbandonRequest
    <2>3. CASE UNCHANGED settlementVars
      BY <1>1, <2>3 DEF settlementVars, SettlementInv, SettlementTypeOK, PayersAreApproved,
                        PaidWasApproved, AnnouncedOnce, Announcing
    <2> QED BY <1>1, <2>1, <2>2, <2>3, ReadAndCheckSteps, StatusStep, AnnounceStep
            DEF SettlementNext
  <1> QED BY <1>1, SettlementInvInit, PTL DEF SettlementSpec

\* For any settlements, thresholds and requests: nothing over the threshold is paid
\* without an approver on record.
THEOREM PaymentsAreApproved == SettlementSpec => []PaidWasApproved
  BY SettlementInvariant, PTL DEF SettlementInv

\* For any number of requests: a settlement none of them wrote over is disbursed at
\* most once, and it stays PAID.
THEOREM OneDisbursement == SettlementSpec => []OneDisbursementUnlessStale
  <1>1. SettlementInv => OneDisbursementUnlessStale
    <2> SUFFICES ASSUME SettlementInv, NEW s \in Settlements \ writtenStale
                 PROVE  disbursed[s] <= (IF offer[s] = "PAID" THEN 1 ELSE 0)
      BY DEF OneDisbursementUnlessStale
    <2>1. /\ offer[s] # "PAID" => disbursed[s] = 0
          /\ disbursed[s] = 0 \/ disbursed[s] = 1
      BY DEF SettlementInv, AnnouncedOnce
    <2> QED BY <2>1
  <1> QED BY <1>1, SettlementInvariant, PTL

\* Both, for any settlements and requests: what is paid out was approved, and once.
THEOREM DisbursementsAreProper == SettlementSpec => []DisbursedProperly
  BY PaymentsAreApproved, OneDisbursement, PTL DEF DisbursedProperly

-----------------------------------------------------------------------------
(* The human review queue.                                                 *)

\* What the enforcer has read is not flagged yet, what it has flagged is not yet
\* announced, and an announced item is flagged.
ReportsAreFlagged ==
    \A i \in Items :
        /\ i \in poll.read => ~item[i].breached
        /\ i \in poll.marked => item[i].breached /\ breachEvents[i] = 0
        /\ breachEvents[i] = 0 \/ (breachEvents[i] = 1 /\ item[i].breached)

\* An item nobody has claimed late was handed out once, and not while PENDING.
HandedOutOnce ==
    \A i \in Items \ claimedLate :
        /\ item[i].status \in {"NONE", "PENDING"} => takenBy[i] = {}
        /\ \A s, u \in takenBy[i] : s = u

ReviewInv == ReviewTypeOK /\ ReportsAreFlagged /\ HandedOutOnce

LEMMA AtRestIsTyped == AtRest.on \in Items /\ AtRest.step = "idle"
                       /\ AtRest \in [step : {"idle", "claim", "resolve"}, on : Items]
  BY ReviewAssumption DEF AtRest

LEMMA ReviewInvInit == ReviewInit => ReviewInv
  BY AtRestIsTyped
  DEF ReviewInit, ReviewInv, ReviewTypeOK, ReportsAreFlagged, HandedOutOnce, Open

\* Steps of supervisors leave flags and reports alone.
LEMMA FlagsStay ==
    ASSUME ReviewInv, UNCHANGED slaSide,
           item' \in [Items -> [status : {"NONE", "RESOLVED"} \cup Open, breached : BOOLEAN]],
           \A i \in Items : item'[i].breached = item[i].breached
    PROVE  ReportsAreFlagged'
  BY DEF ReviewInv, ReportsAreFlagged, slaSide

LEMMA SupervisorStep ==
    ASSUME ReviewInv, NEW s \in Supervisors,
           \/ FindNext(s) \/ ClaimItem(s) \/ ResolveItem(s) \/ RequestFails(s)
           \/ \E i \in Items : RecordDecision(s, i)
    PROVE  ReviewInv'
  <1>1. ReviewTypeOK
    BY DEF ReviewInv
  <1>2. CASE ClaimItem(s)
    <2>1. PICK i \in Items : i = supervisor[s].on
      BY <1>1 DEF ReviewTypeOK
    <2>2. /\ item' = [item EXCEPT ![i].status = "CLAIMED"]
          /\ takenBy' = [takenBy EXCEPT ![i] = @ \cup {s}]
          /\ claimedLate' = IF item[i].status = "PENDING" THEN claimedLate
                                                          ELSE claimedLate \cup {i}
          /\ supervisor' = [supervisor EXCEPT ![s] = AtRest]
          /\ UNCHANGED decisions /\ UNCHANGED slaSide
      BY <1>2, <2>1 DEF ClaimItem
    <2>3. ReviewTypeOK'
      BY <1>1, <2>2, AtRestIsTyped DEF ReviewTypeOK, slaSide, Open
    <2>4. ReportsAreFlagged'
      BY <1>1, <2>2, <2>3, FlagsStay DEF ReviewTypeOK
    <2>5. HandedOutOnce'
      BY <1>1, <2>2 DEF ReviewInv, HandedOutOnce, ReviewTypeOK
    <2> QED BY <2>3, <2>4, <2>5 DEF ReviewInv
  <1>3. CASE ResolveItem(s)
    <2>1. PICK i \in Items : i = supervisor[s].on
      BY <1>1 DEF ReviewTypeOK
    <2>2. /\ item' = [item EXCEPT ![i].status = "RESOLVED"]
          /\ supervisor' = [supervisor EXCEPT ![s] = AtRest]
          /\ UNCHANGED <<decisions, takenBy, claimedLate>> /\ UNCHANGED slaSide
      BY <1>3, <2>1 DEF ResolveItem
    <2>3. ReviewTypeOK'
      BY <1>1, <2>2, AtRestIsTyped DEF ReviewTypeOK, slaSide, Open
    <2>4. ReportsAreFlagged'
      BY <1>1, <2>2, <2>3, FlagsStay DEF ReviewTypeOK
    <2>5. HandedOutOnce'
      BY <1>1, <2>2 DEF ReviewInv, HandedOutOnce, ReviewTypeOK
    <2> QED BY <2>3, <2>4, <2>5 DEF ReviewInv
  <1>4. ASSUME UNCHANGED <<item, takenBy, claimedLate>>, UNCHANGED slaSide, ReviewTypeOK'
        PROVE  ReviewInv'
    BY <1>4 DEF ReviewInv, ReportsAreFlagged, HandedOutOnce, slaSide
  <1>5. CASE FindNext(s)
    BY <1>1, <1>4, <1>5 DEF FindNext, ReviewTypeOK, slaSide
  <1>6. CASE RequestFails(s)
    BY <1>1, <1>4, <1>6, AtRestIsTyped DEF RequestFails, ReviewTypeOK, slaSide
  <1>7. ASSUME NEW i \in Items, RecordDecision(s, i) PROVE ReviewInv'
    BY <1>1, <1>4, <1>7 DEF RecordDecision, ReviewTypeOK, slaSide
  <1> QED BY <1>2, <1>3, <1>5, <1>6, <1>7

LEMMA EnforcerStep ==
    ASSUME ReviewInv,
           \/ PollOpen \/ EnforcerStops
           \/ \E i \in Items : MarkBreached(i) \/ PublishBreach(i)
    PROVE  ReviewInv'
  <1>1. ReviewTypeOK
    BY DEF ReviewInv
  <1>2. CASE PollOpen
    <2>1. ReviewTypeOK'
      BY <1>1, <1>2 DEF PollOpen, ReviewTypeOK, queueSide
    <2>2. ReportsAreFlagged' /\ HandedOutOnce'
      BY <1>2 DEF ReviewInv, PollOpen, ReportsAreFlagged, HandedOutOnce, queueSide
    <2> QED BY <2>1, <2>2 DEF ReviewInv
  <1>3. CASE EnforcerStops
    <2>1. ReviewTypeOK'
      BY <1>1, <1>3 DEF EnforcerStops, ReviewTypeOK, queueSide
    <2>2. ReportsAreFlagged' /\ HandedOutOnce'
      BY <1>3 DEF ReviewInv, EnforcerStops, ReportsAreFlagged, HandedOutOnce, queueSide
    <2> QED BY <2>1, <2>2 DEF ReviewInv
  <1>4. ASSUME NEW i \in Items, MarkBreached(i) PROVE ReviewInv'
    <2>1. /\ i \in poll.read /\ poll.marked = {}
          /\ item' = [item EXCEPT ![i].breached = TRUE]
          /\ poll'.read = poll.read \ {i} /\ poll'.marked = {i}
          /\ UNCHANGED queueSide /\ UNCHANGED breachEvents
      BY <1>4 DEF MarkBreached
    <2>2. ReviewTypeOK'
      BY <1>1, <1>4 DEF MarkBreached, ReviewTypeOK, queueSide
    <2>3. ReportsAreFlagged'
      BY <1>1, <2>1 DEF ReviewInv, ReportsAreFlagged, ReviewTypeOK
    <2>4. HandedOutOnce'
      BY <1>1, <2>1 DEF ReviewInv, HandedOutOnce, ReviewTypeOK, queueSide
    <2> QED BY <2>2, <2>3, <2>4 DEF ReviewInv
  <1>5. ASSUME NEW i \in Items, PublishBreach(i) PROVE ReviewInv'
    <2>1. /\ i \in poll.marked /\ breachEvents' = [breachEvents EXCEPT ![i] = @ + 1]
          /\ poll'.read = poll.read /\ poll'.marked = {}
          /\ UNCHANGED item /\ UNCHANGED queueSide
      BY <1>1, <1>5 DEF PublishBreach, ReviewTypeOK
    <2>2. ReviewTypeOK'
      BY <1>1, <1>5 DEF PublishBreach, ReviewTypeOK, queueSide
    <2>3. ReportsAreFlagged'
      BY <1>1, <2>1 DEF ReviewInv, ReportsAreFlagged, ReviewTypeOK
    <2>4. HandedOutOnce'
      BY <2>1 DEF ReviewInv, HandedOutOnce, queueSide
    <2> QED BY <2>2, <2>3, <2>4 DEF ReviewInv
  <1> QED BY <1>2, <1>3, <1>4, <1>5

\* The inductive invariant of the review queue.
THEOREM ReviewInvariant == ReviewSpec => []ReviewInv
  <1>1. ASSUME ReviewInv, [ReviewNext]_reviewVars PROVE ReviewInv'
    <2>1. ASSUME NEW i \in Items, Enqueue(i) PROVE ReviewInv'
      <3>1. ReviewTypeOK'
        BY <1>1, <2>1 DEF ReviewInv, Enqueue, ReviewTypeOK, queueSide, slaSide, Open
      <3>2. ReportsAreFlagged'
        BY <1>1, <2>1, <3>1, FlagsStay DEF ReviewInv, Enqueue, ReviewTypeOK
      <3>3. HandedOutOnce'
        BY <1>1, <2>1 DEF ReviewInv, Enqueue, HandedOutOnce, ReviewTypeOK, queueSide
      <3> QED BY <3>1, <3>2, <3>3 DEF ReviewInv
    <2>2. CASE UNCHANGED reviewVars
      BY <1>1, <2>2
      DEF reviewVars, ReviewInv, ReviewTypeOK, ReportsAreFlagged, HandedOutOnce
    <2> QED BY <1>1, <2>1, <2>2, SupervisorStep, EnforcerStep DEF ReviewNext
  <1> QED BY <1>1, ReviewInvInit, PTL DEF ReviewSpec

\* For any items and supervisors, and an enforcer that stops anywhere: a missed
\* deadline is reported at most once.
THEOREM BreachesAreReportedOnce == ReviewSpec => []BreachReportedOnce
  <1>1. ReviewInv => BreachReportedOnce
    BY DEF ReviewInv, ReportsAreFlagged, BreachReportedOnce
  <1> QED BY <1>1, ReviewInvariant, PTL

\* For any items and supervisors: an item that no late claim was written to has one
\* reviewer, and its resolution is final.
THEOREM OneReviewer == ReviewSpec => OneReviewerUnlessLate
  <1>1. ASSUME ReviewInv, ReviewInv', [ReviewNext]_reviewVars, NEW i \in Items,
               i \notin claimedLate'
        PROVE  /\ Cardinality(takenBy'[i]) <= 1
               /\ item[i].status = "RESOLVED" => item'[i].status = "RESOLVED"
    <2>1. Cardinality(takenBy'[i]) <= 1
      <3>1. \A s, u \in takenBy'[i] : s = u
        BY <1>1 DEF ReviewInv, HandedOutOnce
      <3>2. CASE takenBy'[i] = {}
        BY <3>2, FS_EmptySet
      <3>3. CASE takenBy'[i] # {}
        <4>1. PICK s : takenBy'[i] = {s}
          BY <3>1, <3>3
        <4>2. Cardinality({s}) = 1
          BY FS_Singleton
        <4> QED BY <4>1, <4>2
      <3> QED BY <3>2, <3>3
    <2>2. ASSUME item[i].status = "RESOLVED" PROVE item'[i].status = "RESOLVED"
      <3>1. ReviewTypeOK
        BY <1>1 DEF ReviewInv
      <3>2. ASSUME NEW s \in Supervisors, ClaimItem(s) PROVE item'[i].status = "RESOLVED"
        BY <1>1, <2>2, <3>1, <3>2 DEF ClaimItem, ReviewTypeOK
      <3>3. ASSUME NEW s \in Supervisors, ResolveItem(s) PROVE item'[i].status = "RESOLVED"
        BY <2>2, <3>1, <3>3 DEF ResolveItem, ReviewTypeOK
      <3>4. ASSUME NEW j \in Items, Enqueue(j) \/ MarkBreached(j)
            PROVE  item'[i].status = "RESOLVED"
        <4>1. CASE Enqueue(j)
          BY <2>2, <3>1, <4>1 DEF Enqueue, ReviewTypeOK
        <4>2. CASE MarkBreached(j)
          BY <2>2, <3>1, <4>2 DEF MarkBreached, ReviewTypeOK
        <4> QED BY <3>4, <4>1, <4>2
      <3>5. CASE UNCHANGED item
        BY <2>2, <3>5
      <3> QED BY <1>1, <3>2, <3>3, <3>4, <3>5
              DEF ReviewNext, FindNext, RequestFails, RecordDecision, PollOpen, PublishBreach,
                  EnforcerStops, reviewVars
    <2> QED BY <2>1, <2>2
  <1>2. ReviewInv /\ ReviewInv' /\ [ReviewNext]_reviewVars =>
            [\A i \in Items : i \notin claimedLate' =>
                /\ Cardinality(takenBy'[i]) <= 1
                /\ (item[i].status = "RESOLVED" => item'[i].status = "RESOLVED")]_reviewVars
    BY <1>1
  <1> QED BY <1>2, ReviewInvariant, PTL DEF ReviewSpec, OneReviewerUnlessLate

-----------------------------------------------------------------------------
(* Invitations.                                                            *)

\* What an activation has committed when it stands before its next statement.
ActivationsAreInOrder ==
    \A b \in Browsers :
        /\ browser[b].step \in {"assign", "accept"} => EmailOf[browser[b].of] \in users
        /\ browser[b].step = "accept" => EmailOf[browser[b].of] \in assigned

InvitationInv == InvitationTypeOK /\ ActivationsAreInOrder /\ AcceptedHasRole

LEMMA NoTokenIsTyped == NoToken.step = "idle" /\ NoToken.of \in Invites
                        /\ NoToken \in [step : {"idle", "expire", "create", "assign", "accept"},
                                        of : Invites]
  BY InvitationAssumption DEF NoToken

LEMMA InvitationInvInit == InvitationInit => InvitationInv
  BY NoTokenIsTyped
  DEF InvitationInit, InvitationInv, InvitationTypeOK, ActivationsAreInOrder, AcceptedHasRole

LEMMA BrowserStep ==
    ASSUME InvitationInv, NEW b \in Browsers,
           \/ \E i \in Invites : ReadToken(b, i)
           \/ MarkExpired(b) \/ CreateUser(b) \/ AssignRole(b)
           \/ MarkAccepted(b) \/ ActivationStops(b)
    PROVE  InvitationInv'
  <1>1. InvitationTypeOK
    BY DEF InvitationInv
  <1>2. PICK email \in Emails : email = EmailOf[browser[b].of]
    BY <1>1, InvitationAssumption DEF InvitationTypeOK
  <1>3. ASSUME NEW i \in Invites, ReadToken(b, i) PROVE InvitationInv'
    <2>1. InvitationTypeOK'
      BY <1>1, <1>3 DEF ReadToken, InvitationTypeOK
    <2>2. ActivationsAreInOrder' /\ AcceptedHasRole'
      BY <1>1, <1>3
      DEF InvitationInv, ReadToken, InvitationTypeOK, ActivationsAreInOrder, AcceptedHasRole
    <2> QED BY <2>1, <2>2 DEF InvitationInv
  <1>4. CASE MarkExpired(b)
    <2>1. InvitationTypeOK'
      BY <1>1, <1>4, NoTokenIsTyped DEF MarkExpired, InvitationTypeOK
    <2>2. ActivationsAreInOrder' /\ AcceptedHasRole'
      BY <1>1, <1>4, NoTokenIsTyped
      DEF InvitationInv, MarkExpired, InvitationTypeOK, ActivationsAreInOrder, AcceptedHasRole
    <2> QED BY <2>1, <2>2 DEF InvitationInv
  <1>5. CASE CreateUser(b)
    <2>1. /\ users' = users \cup {email} /\ UNCHANGED <<invite, expired, assigned>>
          /\ \/ browser' = [browser EXCEPT ![b] = NoToken]
             \/ browser' = [browser EXCEPT ![b].step = "assign"]
      BY <1>1, <1>2, <1>5 DEF CreateUser, InvitationTypeOK
    <2>2. InvitationTypeOK'
      BY <1>1, <2>1, NoTokenIsTyped DEF InvitationTypeOK
    <2>3. ActivationsAreInOrder' /\ AcceptedHasRole'
      BY <1>1, <1>2, <2>1, NoTokenIsTyped
      DEF InvitationInv, InvitationTypeOK, ActivationsAreInOrder, AcceptedHasRole
    <2> QED BY <2>2, <2>3 DEF InvitationInv
  <1>6. CASE AssignRole(b)
    <2>1. /\ assigned' = assigned \cup {email} /\ UNCHANGED <<invite, expired, users>>
          /\ browser[b].step = "assign"
          /\ browser' = [browser EXCEPT ![b].step = "accept"]
      BY <1>2, <1>6 DEF AssignRole
    <2>2. InvitationTypeOK'
      BY <1>1, <2>1 DEF InvitationTypeOK
    <2>3. ActivationsAreInOrder' /\ AcceptedHasRole'
      BY <1>1, <1>2, <2>1
      DEF InvitationInv, InvitationTypeOK, ActivationsAreInOrder, AcceptedHasRole
    <2> QED BY <2>2, <2>3 DEF InvitationInv
  <1>7. CASE MarkAccepted(b)
    <2>1. InvitationTypeOK'
      BY <1>1, <1>7, NoTokenIsTyped DEF MarkAccepted, InvitationTypeOK
    <2>2. ActivationsAreInOrder' /\ AcceptedHasRole'
      BY <1>1, <1>7, NoTokenIsTyped
      DEF InvitationInv, MarkAccepted, InvitationTypeOK, ActivationsAreInOrder,
          AcceptedHasRole
    <2> QED BY <2>1, <2>2 DEF InvitationInv
  <1>8. CASE ActivationStops(b)
    <2>1. InvitationTypeOK'
      BY <1>1, <1>8, NoTokenIsTyped DEF ActivationStops, InvitationTypeOK
    <2>2. ActivationsAreInOrder' /\ AcceptedHasRole'
      BY <1>1, <1>8, NoTokenIsTyped
      DEF InvitationInv, ActivationStops, InvitationTypeOK, ActivationsAreInOrder,
          AcceptedHasRole
    <2> QED BY <2>1, <2>2 DEF InvitationInv
  <1> QED BY <1>3, <1>4, <1>5, <1>6, <1>7, <1>8

\* The inductive invariant of invitations.
THEOREM InvitationInvariant == InvitationSpec => []InvitationInv
  <1>1. ASSUME InvitationInv, [InvitationNext]_inviteVars PROVE InvitationInv'
    <2>1. ASSUME NEW i \in Invites, Invite(i) \/ DeadlinePasses(i) PROVE InvitationInv'
      BY <1>1, <2>1
      DEF Invite, DeadlinePasses, InvitationInv, InvitationTypeOK, ActivationsAreInOrder,
          AcceptedHasRole
    <2>2. CASE UNCHANGED inviteVars
      BY <1>1, <2>2
      DEF inviteVars, InvitationInv, InvitationTypeOK, ActivationsAreInOrder, AcceptedHasRole
    <2> QED BY <1>1, <2>1, <2>2, BrowserStep DEF InvitationNext
  <1> QED BY <1>1, InvitationInvInit, PTL DEF InvitationSpec

\* For any invitations, addresses and requests: an accepted invitation has its user
\* and the user its role.
THEOREM AcceptedUsersHaveRoles == InvitationSpec => []AcceptedHasRole
  BY InvitationInvariant, PTL DEF InvitationInv

\* For any invitations, addresses and requests: what a stopped activation left half
\* done stays half done.
THEOREM StrandedInvitationsStay == InvitationSpec => StrandedForEver
  <1>1. ASSUME InvitationInv, InvitationNext
        PROVE  /\ \A i \in Invites : Stranded(i) => Stranded(i)' \/ invite'[i] = "EXPIRED"
               /\ \A e \in Emails : Powerless(e) => Powerless(e)'
    <2>1. InvitationTypeOK /\ \A i \in Invites : EmailOf[i] \in Emails
      BY <1>1, InvitationAssumption DEF InvitationInv, InvitationTypeOK
    <2>2. ASSUME NEW i \in Invites, EmailOf[i] \in users, ~Activating(i)
          PROVE  ~Activating(i)'
      <3>1. ASSUME NEW b \in Browsers
            PROVE  ~(browser'[b].of = i /\ browser'[b].step \in {"assign", "accept"})
        <4>1. ~(browser[b].of = i /\ browser[b].step \in {"assign", "accept"})
          BY <2>2 DEF Activating
        <4>2. ASSUME NEW c \in Browsers, NEW j \in Invites, ReadToken(c, j)
              PROVE  ~(browser'[b].of = i /\ browser'[b].step \in {"assign", "accept"})
          BY <2>1, <4>1, <4>2 DEF ReadToken, InvitationTypeOK
        <4>3. ASSUME NEW c \in Browsers,
                     MarkExpired(c) \/ MarkAccepted(c) \/ ActivationStops(c)
              PROVE  ~(browser'[b].of = i /\ browser'[b].step \in {"assign", "accept"})
          <5>1. browser' = [browser EXCEPT ![c] = NoToken]
            BY <4>3 DEF MarkExpired, MarkAccepted, ActivationStops
          <5> QED BY <2>1, <4>1, <5>1, NoTokenIsTyped DEF InvitationTypeOK
        <4>4. ASSUME NEW c \in Browsers, CreateUser(c)
              PROVE  ~(browser'[b].of = i /\ browser'[b].step \in {"assign", "accept"})
          <5>1. CASE EmailOf[browser[c].of] \in users
            <6>1. browser' = [browser EXCEPT ![c] = NoToken]
              BY <4>4, <5>1 DEF CreateUser
            <6> QED BY <2>1, <4>1, <6>1, NoTokenIsTyped DEF InvitationTypeOK
          <5>2. CASE EmailOf[browser[c].of] \notin users
            <6>1. browser[c].of # i /\ browser' = [browser EXCEPT ![c].step = "assign"]
              BY <2>1, <2>2, <4>4, <5>2 DEF CreateUser, InvitationTypeOK
            <6> QED BY <2>1, <4>1, <6>1 DEF InvitationTypeOK
          <5> QED BY <5>1, <5>2
        <4>5. ASSUME NEW c \in Browsers, AssignRole(c)
              PROVE  ~(browser'[b].of = i /\ browser'[b].step \in {"assign", "accept"})
          <5>1. browser[c].of # i
            BY <2>2, <4>5 DEF AssignRole, Activating
          <5> QED BY <2>1, <4>1, <4>5, <5>1 DEF AssignRole, InvitationTypeOK
        <4>6. CASE UNCHANGED browser
          BY <4>1, <4>6
        <4> QED BY <1>1, <4>2, <4>3, <4>4, <4>5, <4>6 DEF InvitationNext, Invite, DeadlinePasses
      <3> QED BY <3>1 DEF Activating
    <2>3. users \subseteq users'
      BY <1>1 DEF InvitationNext, Invite, DeadlinePasses, ReadToken, MarkExpired, CreateUser,
                  AssignRole, MarkAccepted, ActivationStops
    <2>4. ASSUME NEW i \in Invites, Stranded(i)
          PROVE  Stranded(i)' \/ invite'[i] = "EXPIRED"
      <3>1. invite'[i] \in {"PENDING", "EXPIRED"}
        <4>1. ASSUME NEW b \in Browsers, MarkAccepted(b) PROVE invite'[i] = "PENDING"
          <5>1. browser[b].of # i
            BY <2>4, <4>1 DEF MarkAccepted, Stranded, Activating
          <5> QED BY <2>1, <2>4, <4>1, <5>1 DEF MarkAccepted, Stranded, InvitationTypeOK
        <4>2. ASSUME NEW b \in Browsers, MarkExpired(b)
              PROVE  invite'[i] \in {"PENDING", "EXPIRED"}
          BY <2>1, <2>4, <4>2 DEF MarkExpired, Stranded, InvitationTypeOK
        <4>3. ASSUME NEW j \in Invites, Invite(j) PROVE invite'[i] = "PENDING"
          BY <2>1, <2>4, <4>3 DEF Invite, Stranded, InvitationTypeOK
        <4>4. CASE UNCHANGED invite
          BY <2>4, <4>4 DEF Stranded
        <4> QED BY <1>1, <4>1, <4>2, <4>3, <4>4
                DEF InvitationNext, DeadlinePasses, ReadToken, CreateUser, AssignRole,
                    ActivationStops
      <3> QED BY <2>2, <2>3, <2>4, <3>1 DEF Stranded
    <2>5. ASSUME NEW e \in Emails, Powerless(e) PROVE Powerless(e)'
      <3>1. e \in users' /\ \A i \in Invites : EmailOf[i] = e => ~Activating(i)'
        BY <2>2, <2>3, <2>5 DEF Powerless
      <3>2. e \notin assigned'
        <4>1. ASSUME NEW b \in Browsers, AssignRole(b) PROVE e \notin assigned'
          <5>1. EmailOf[browser[b].of] # e
            BY <2>1, <2>5, <4>1 DEF AssignRole, Powerless, Activating, InvitationTypeOK
          <5> QED BY <2>5, <4>1, <5>1 DEF AssignRole, Powerless
        <4>2. CASE UNCHANGED assigned
          BY <2>5, <4>2 DEF Powerless
        <4> QED BY <1>1, <4>1, <4>2
                DEF InvitationNext, Invite, DeadlinePasses, ReadToken, MarkExpired, CreateUser,
                    MarkAccepted, ActivationStops
      <3> QED BY <3>1, <3>2 DEF Powerless
    <2> QED BY <2>4, <2>5
  <1>2. InvitationInv /\ [InvitationNext]_inviteVars =>
            [/\ \A i \in Invites : Stranded(i) => Stranded(i)' \/ invite'[i] = "EXPIRED"
             /\ \A e \in Emails : Powerless(e) => Powerless(e)']_inviteVars
    BY <1>1
  <1> QED BY <1>2, InvitationInvariant, PTL DEF InvitationSpec, StrandedForEver

-----------------------------------------------------------------------------
(* Erasure of a customer.                                                  *)

\* What of the scope of a run still exists, by its step.
ErasureProgress ==
    \A j \in Jobs : LET rest == job[j].scope \cap stored IN
        /\ job[j].scope \subseteq everStored
        /\ job[j].step \in {"shred", "tombstone"} => rest \subseteq job[j].left \cup Of("pii")
        /\ job[j].step = "delete" => rest \subseteq job[j].left
        /\ job[j].step = "certify" => rest = {}

ErasureInv ==
    ErasureTypeOK /\ ErasureProgress /\ CertifiedIsGone /\ certified \subseteq everStored

\* A step of one run that takes data away and adds none.
LEMMA RunStep ==
    ASSUME ErasureInv, NEW j \in Jobs, NEW run,
           job' = [job EXCEPT ![j] = run],
           run \in [step : {"idle", "shred", "tombstone", "delete", "certify"},
                    left : SUBSET CustomerData, scope : SUBSET CustomerData],
           run.scope \subseteq everStored,
           stored' \subseteq stored,
           run.step \in {"shred", "tombstone"} =>
               run.scope \cap stored' \subseteq run.left \cup Of("pii"),
           run.step = "delete" => run.scope \cap stored' \subseteq run.left,
           run.step = "certify" => run.scope \cap stored' = {},
           UNCHANGED <<everStored, revoked, certified>>
    PROVE  ErasureInv'
  <1>1. ErasureTypeOK'
    BY DEF ErasureInv, ErasureTypeOK
  <1>2. \A i \in Jobs : job'[i] = IF i = j THEN run ELSE job[i]
    BY DEF ErasureInv, ErasureTypeOK
  <1>3. ErasureProgress'
    BY <1>2 DEF ErasureInv, ErasureProgress, Of
  <1> QED BY <1>1, <1>3 DEF ErasureInv, CertifiedIsGone

LEMMA NotRunningIsARun ==
    /\ NotRunning \in [step : {"idle", "shred", "tombstone", "delete", "certify"},
                       left : SUBSET CustomerData, scope : SUBSET CustomerData]
    /\ NotRunning.step = "idle" /\ NotRunning.scope = {}
  BY DEF NotRunning

LEMMA ErasureInvNext == ErasureInv /\ [ErasureNext]_erasureVars => ErasureInv'
  <1> SUFFICES ASSUME ErasureInv, [ErasureNext]_erasureVars PROVE ErasureInv'
    OBVIOUS
  <1> DEFINE Runs == [step : {"idle", "shred", "tombstone", "delete", "certify"},
                      left : SUBSET CustomerData, scope : SUBSET CustomerData]
  <1>1. ErasureTypeOK /\ \A j \in Jobs : job[j] \in Runs
    BY DEF ErasureInv, ErasureTypeOK
  <1>2. ASSUME NEW d \in CustomerData, StoreDatum(d) PROVE ErasureInv'
    BY <1>1, <1>2 DEF StoreDatum, ErasureInv, ErasureTypeOK, ErasureProgress, CertifiedIsGone, Of
  <1>3. CASE ChangeConsent
    BY <1>1, <1>3
    DEF ChangeConsent, ErasureInv, ErasureTypeOK, ErasureProgress, CertifiedIsGone, Of
  <1>4. ASSUME NEW j \in Jobs, NEW listed \in SUBSET CustomerData, StartErasure(j, listed)
        PROVE  ErasureInv'
    <2> DEFINE run == [step |-> "shred", left |-> listed,
                       scope |-> listed \cup (stored \cap Of("pii"))]
    <2>1. run.scope \subseteq everStored /\ run \in Runs
      BY <1>1, <1>4 DEF StartErasure, ErasureTypeOK, Of
    <2>2. job' = [job EXCEPT ![j] = run] /\ UNCHANGED <<stored, everStored, revoked, certified>>
      BY <1>4 DEF StartErasure
    <2>3. run.step = "shred" /\ run.scope \cap stored' \subseteq run.left \cup Of("pii")
      BY <2>2 DEF Of
    <2> HIDE DEF run
    <2> QED BY <2>1, <2>2, <2>3, RunStep
  <1>5. ASSUME NEW j \in Jobs, ShredKey(j) PROVE ErasureInv'
    <2>1. PICK k \in job[j].left \cap Of("key") : /\ stored' = stored \ {k}
                                                  /\ job' = [job EXCEPT ![j].left = @ \ {k}]
      BY <1>5 DEF ShredKey
    <2> DEFINE run == [job[j] EXCEPT !.left = @ \ {k}]
    <2>2. /\ run \in Runs /\ run.scope = job[j].scope /\ run.step = "shred"
          /\ run.left = job[j].left \ {k}
          /\ job' = [job EXCEPT ![j] = run]
      BY <1>1, <1>5, <2>1 DEF ShredKey, ErasureTypeOK
    <2> HIDE DEF run
    <2>3. /\ job[j].scope \subseteq everStored
          /\ job[j].scope \cap stored \subseteq job[j].left \cup Of("pii")
          /\ UNCHANGED <<everStored, revoked, certified>>
      BY <1>5 DEF ShredKey, ErasureInv, ErasureProgress
    <2> QED BY <2>1, <2>2, <2>3, RunStep
  <1>6. ASSUME NEW j \in Jobs, KeysShredded(j) PROVE ErasureInv'
    <2> DEFINE run == [job[j] EXCEPT !.step = "tombstone"]
    <2>2. /\ run \in Runs /\ run.scope = job[j].scope /\ run.step = "tombstone"
          /\ run.left = job[j].left
          /\ job' = [job EXCEPT ![j] = run]
      BY <1>1, <1>6 DEF KeysShredded, ErasureTypeOK
    <2> HIDE DEF run
    <2>3. /\ job[j].scope \subseteq everStored
          /\ job[j].scope \cap stored \subseteq job[j].left \cup Of("pii")
          /\ UNCHANGED <<stored, everStored, revoked, certified>>
      BY <1>6 DEF KeysShredded, ErasureInv, ErasureProgress
    <2> QED BY <2>2, <2>3, RunStep
  <1>7. ASSUME NEW j \in Jobs, Tombstone(j) PROVE ErasureInv'
    <2> DEFINE run == [job[j] EXCEPT !.step = "delete"]
    <2>2. /\ run \in Runs /\ run.scope = job[j].scope /\ run.step = "delete"
          /\ run.left = job[j].left
          /\ job' = [job EXCEPT ![j] = run]
      BY <1>1, <1>7 DEF Tombstone, ErasureTypeOK
    <2> HIDE DEF run
    <2>3. /\ job[j].scope \subseteq everStored
          /\ job[j].scope \cap stored \subseteq job[j].left \cup Of("pii")
          /\ stored' = stored \ Of("pii")
          /\ UNCHANGED <<everStored, revoked, certified>>
      BY <1>7 DEF Tombstone, ErasureInv, ErasureProgress
    <2> QED BY <2>2, <2>3, RunStep
  <1>8. ASSUME NEW j \in Jobs, DeleteRecording(j) PROVE ErasureInv'
    <2>1. PICK r \in job[j].left : /\ stored' = stored \ {r}
                                   /\ job' = [job EXCEPT ![j].left = @ \ {r}]
      BY <1>8 DEF DeleteRecording
    <2> DEFINE run == [job[j] EXCEPT !.left = @ \ {r}]
    <2>2. /\ run \in Runs /\ run.scope = job[j].scope /\ run.step = "delete"
          /\ run.left = job[j].left \ {r}
          /\ job' = [job EXCEPT ![j] = run]
      BY <1>1, <1>8, <2>1 DEF DeleteRecording, ErasureTypeOK
    <2> HIDE DEF run
    <2>3. /\ job[j].scope \subseteq everStored
          /\ job[j].scope \cap stored \subseteq job[j].left
          /\ UNCHANGED <<everStored, revoked, certified>>
      BY <1>8 DEF DeleteRecording, ErasureInv, ErasureProgress
    <2> QED BY <2>1, <2>2, <2>3, RunStep
  <1>9. ASSUME NEW j \in Jobs, RecordingsDeleted(j) PROVE ErasureInv'
    <2> DEFINE run == [job[j] EXCEPT !.step = "certify"]
    <2>2. /\ run \in Runs /\ run.scope = job[j].scope /\ run.step = "certify"
          /\ job' = [job EXCEPT ![j] = run]
      BY <1>1, <1>9 DEF RecordingsDeleted, ErasureTypeOK
    <2> HIDE DEF run
    <2>3. /\ job[j].scope \subseteq everStored
          /\ job[j].scope \cap stored = {}
          /\ UNCHANGED <<stored, everStored, revoked, certified>>
      BY <1>9 DEF RecordingsDeleted, ErasureInv, ErasureProgress
    <2> QED BY <2>2, <2>3, RunStep
  <1>10. ASSUME NEW j \in Jobs, Certify(j) PROVE ErasureInv'
    <2>1. /\ certified' = certified \cup job[j].scope
          /\ job' = [job EXCEPT ![j] = NotRunning]
          /\ UNCHANGED <<stored, everStored, revoked>>
          /\ job[j].scope \cap stored = {} /\ job[j].scope \subseteq everStored
      BY <1>10 DEF Certify, ErasureInv, ErasureProgress
    <2>2. ErasureTypeOK'
      BY <1>1, <2>1, NotRunningIsARun DEF ErasureTypeOK
    <2>3. \A i \in Jobs : job'[i] = IF i = j THEN NotRunning ELSE job[i]
      BY <1>1, <2>1 DEF ErasureTypeOK
    <2>4. ErasureProgress'
      BY <2>1, <2>3, NotRunningIsARun DEF ErasureInv, ErasureProgress, Of
    <2> QED BY <2>1, <2>2, <2>4 DEF ErasureInv, CertifiedIsGone
  <1>11. ASSUME NEW j \in Jobs, ErasureFails(j) PROVE ErasureInv'
    <2>1. /\ job' = [job EXCEPT ![j] = NotRunning]
          /\ UNCHANGED <<stored, everStored, revoked, certified>>
      BY <1>11 DEF ErasureFails
    <2> QED BY <2>1, NotRunningIsARun, RunStep
  <1>12. CASE UNCHANGED erasureVars
    BY <1>12 DEF erasureVars, ErasureInv, ErasureTypeOK, ErasureProgress, CertifiedIsGone, Of
  <1> QED BY <1>2, <1>3, <1>4, <1>5, <1>6, <1>7, <1>8, <1>9, <1>10, <1>11, <1>12 DEF ErasureNext

\* The inductive invariant of the erasure.
THEOREM ErasureInvariant == ErasureSpec => []ErasureInv
  <1>1. ErasureInit => ErasureInv
    BY NotRunningIsARun
    DEF ErasureInit, ErasureInv, ErasureTypeOK, ErasureProgress, CertifiedIsGone
  <1> QED BY <1>1, ErasureInvNext, PTL DEF ErasureSpec

\* For any data and any runs: what a certificate vouches for does not exist.
THEOREM CertificatesAreTrue == ErasureSpec => []CertifiedIsGone
  BY ErasureInvariant, PTL DEF ErasureInv

-----------------------------------------------------------------------------
(* Webhooks.                                                               *)

Calls == [step : Steps, key : Keys, left : SUBSET Hooks, attempt : 1 .. MAX_ATTEMPTS]

OutcomeKnown(k) == (accepted[k] > 0 /\ <<k, "DELIVERED">> \in summaries) \/ k \in deadLettered

\* A key is worked on by one dispatcher, after its claim and before its result.
OneDispatcherPerKey ==
    /\ completedKeys \subseteq claimedKeys
    /\ \A d \in Dispatchers : Working(d) => dispatcher[d].key \in claimedKeys \ completedKeys
    /\ \A d, e \in Dispatchers :
           Working(d) /\ Working(e) /\ dispatcher[d].key = dispatcher[e].key => d = e

\* What has become of the key at each step of the dispatcher that works on it.
StepFits(call) == LET k == call.key IN
    /\ call.step \in {"post", "failed", "exhausted", "parked"} /\ k \notin Miscounted
           => accepted[k] = 0
    /\ call.step \in {"post", "answered", "logged", "failed", "exhausted"}
           => k \notin deadLettered
    /\ call.step \in {"answered", "logged"} => accepted[k] > 0
    /\ call.step = "parked" => k \in deadLettered
    /\ call.step = "delivered" => OutcomeKnown(k)
    /\ call.step = "post" => accepted[k] < call.attempt
    /\ call.step \notin {"free", "next"} => accepted[k] <= call.attempt

WebhookInv ==
    /\ WebhookTypeOK /\ OneDispatcherPerKey
    /\ \A d \in Dispatchers : StepFits(dispatcher[d])
    /\ \A k \in Keys : k \notin claimedKeys => accepted[k] = 0 /\ k \notin deadLettered
    /\ \A k \in Keys : /\ k \notin Miscounted => accepted[k] \in {0, 1}
                       /\ k \notin Miscounted /\ k \in deadLettered => accepted[k] = 0
                       /\ accepted[k] <= MAX_ATTEMPTS
    /\ CompletedHasOutcome

LEMMA NoDispatchIsACall == NoDispatch \in Calls /\ NoDispatch.step = "free"
  <1>1. PICK h \in Hooks, e \in DomainEvents : TRUE
    BY WebhookAssumption
  <1>2. <<h, e>> \in Keys
    BY DEF Keys
  <1> QED BY <1>2, WebhookAssumption DEF NoDispatch, Calls, Steps

LEMMA WebhookInvInit == WebhookInit => WebhookInv
  BY NoDispatchIsACall, WebhookAssumption
  DEF WebhookInit, WebhookInv, WebhookTypeOK, OneDispatcherPerKey, StepFits, OutcomeKnown,
      CompletedHasOutcome, Working, Calls, Miscounted

\* A step of a dispatcher on the key it works on.
WorksOn(d, k, call) ==
    /\ Working(d) /\ dispatcher[d].key = k /\ call.key = k /\ call.step # "free"
    /\ dispatcher' = [dispatcher EXCEPT ![d] = call]
    /\ accepted' \in [Keys -> Nat] /\ accepted'[k] >= accepted[k]
    /\ \A q \in Keys \ {k} : accepted'[q] = accepted[q]
    /\ k \notin Miscounted' => accepted'[k] \in {0, 1}
    /\ k \notin Miscounted' /\ k \in deadLettered' => accepted'[k] = 0
    /\ deadLettered' \in {deadLettered, deadLettered \cup {k}}
    /\ summaries' \in {summaries, summaries \cup {<<k, "DELIVERED">>},
                       summaries \cup {<<k, "DLQ">>}}
    /\ unrecorded' \in {unrecorded, unrecorded \cup {k}}
    /\ unanswered' \in {unanswered, unanswered \cup {k}}
    /\ completedKeys' = IF call.step = "next" THEN completedKeys \cup {k} ELSE completedKeys
    /\ call.step \in {"post", "failed", "exhausted", "parked"} /\ k \notin Miscounted'
           => accepted'[k] = 0
    /\ call.step \in {"post", "answered", "logged", "failed", "exhausted"}
           => k \notin deadLettered'
    /\ call.step \in {"answered", "logged"} => accepted'[k] > 0
    /\ call.step = "parked" => k \in deadLettered'
    /\ call.step = "post" => accepted'[k] < call.attempt
    /\ accepted'[k] <= call.attempt
    /\ call.step \in {"next", "delivered"} =>
           (accepted'[k] > 0 /\ <<k, "DELIVERED">> \in summaries') \/ k \in deadLettered'
    /\ UNCHANGED <<claimedKeys, handled>>

LEMMA WorkStep ==
    ASSUME WebhookInv, NEW d \in Dispatchers, NEW call \in Calls, NEW k, WorksOn(d, k, call)
    PROVE  WebhookInv'
  <1> USE DEF WorksOn
  <1>1. WebhookTypeOK /\ k \in Keys /\ k \in claimedKeys /\ k \notin completedKeys
    BY DEF WebhookInv, WebhookTypeOK, OneDispatcherPerKey, Calls
  <1>2. /\ WebhookTypeOK'
        /\ \A q \in Keys \ {k} : q \in Miscounted' <=> q \in Miscounted
    BY <1>1 DEF WebhookTypeOK, Calls, Miscounted
  <1>3. \A e \in Dispatchers : dispatcher'[e] = IF e = d THEN call ELSE dispatcher[e]
    BY <1>1 DEF WebhookTypeOK
  <1>4. \A e \in Dispatchers : e # d /\ Working(e) =>
            dispatcher[e].key # k /\ dispatcher[e].key \in claimedKeys \ completedKeys
    BY DEF WebhookInv, OneDispatcherPerKey
  <1>5. OneDispatcherPerKey'
    BY <1>1, <1>3, <1>4 DEF WebhookInv, OneDispatcherPerKey, Working
  <1>6. ASSUME NEW e \in Dispatchers PROVE StepFits(dispatcher[e])'
    <2>1. CASE e = d
      BY <1>3, <2>1 DEF StepFits, OutcomeKnown
    <2>2. CASE e # d /\ Working(e)
      <3>1. dispatcher'[e] = dispatcher[e] /\ dispatcher[e].key \in Keys \ {k}
            /\ StepFits(dispatcher[e])
        BY <1>1, <1>3, <1>4, <2>2 DEF WebhookInv, WebhookTypeOK
      <3>2. accepted'[dispatcher[e].key] = accepted[dispatcher[e].key]
        BY <3>1
      <3> QED BY <1>2, <3>1, <3>2 DEF StepFits, OutcomeKnown
    <2>3. CASE e # d /\ ~Working(e)
      BY <1>3, <2>3 DEF Working, StepFits
    <2> QED BY <2>1, <2>2, <2>3
  <1>7. ASSUME NEW q \in Keys
        PROVE  /\ q \notin claimedKeys' => accepted'[q] = 0 /\ q \notin deadLettered'
               /\ q \notin Miscounted' => accepted'[q] \in {0, 1}
               /\ q \notin Miscounted' /\ q \in deadLettered' => accepted'[q] = 0
               /\ accepted'[q] <= MAX_ATTEMPTS
    <2>1. accepted'[k] \in Nat /\ call.attempt \in 1 .. MAX_ATTEMPTS /\ MAX_ATTEMPTS \in Nat
      BY <1>1, WebhookAssumption DEF Calls
    <2> QED BY <1>1, <1>2, <2>1 DEF WebhookInv
  <1>8. ASSUME NEW q \in completedKeys' PROVE OutcomeKnown(q)'
    <2>1. CASE q \in completedKeys /\ q # k
      BY <1>1, <2>1 DEF WebhookInv, WebhookTypeOK, CompletedHasOutcome, OutcomeKnown
    <2>2. q = k => call.step = "next"
      BY <1>1, <1>8
    <2> QED BY <1>1, <1>8, <2>1, <2>2 DEF OutcomeKnown
  <1>9. CompletedHasOutcome'
    BY <1>8 DEF CompletedHasOutcome, OutcomeKnown
  <1> QED BY <1>2, <1>5, <1>6, <1>7, <1>9 DEF WebhookInv

\* A step of a dispatcher that works on no key afterwards and has not done anything.
Rests(d, call) ==
    /\ call.step \in {"free", "next"}
    /\ dispatcher' = [dispatcher EXCEPT ![d] = call]
    /\ handled' \in [DomainEvents -> Nat]
    /\ UNCHANGED stores

LEMMA RestStep ==
    ASSUME WebhookInv, NEW d \in Dispatchers, NEW call \in Calls, Rests(d, call)
    PROVE  WebhookInv'
  <1> USE DEF Rests
  <1>1. WebhookTypeOK /\ WebhookTypeOK'
    BY DEF WebhookInv, WebhookTypeOK, Calls, stores
  <1>2. \A e \in Dispatchers : dispatcher'[e] = IF e = d THEN call ELSE dispatcher[e]
    BY <1>1 DEF WebhookTypeOK
  <1>3. OneDispatcherPerKey'
    BY <1>2 DEF WebhookInv, OneDispatcherPerKey, Working, stores
  <1>4. ASSUME NEW e \in Dispatchers PROVE StepFits(dispatcher[e])'
    BY <1>2 DEF WebhookInv, StepFits, OutcomeKnown, stores, Miscounted
  <1>5. CompletedHasOutcome'
    BY DEF WebhookInv, CompletedHasOutcome, stores
  <1> QED BY <1>1, <1>3, <1>4, <1>5 DEF WebhookInv, stores, Miscounted

\* A claim that is granted.
TakesUp(d, call) ==
    /\ ~Working(d)
    /\ call.step = "post" /\ call.attempt = 1 /\ call.key \notin claimedKeys
    /\ dispatcher' = [dispatcher EXCEPT ![d] = call]
    /\ claimedKeys' = claimedKeys \cup {call.key}
    /\ UNCHANGED <<completedKeys, accepted, deadLettered, summaries, handled, unrecorded,
                   unanswered>>

LEMMA TakeUpStep ==
    ASSUME WebhookInv, NEW d \in Dispatchers, NEW call \in Calls, TakesUp(d, call)
    PROVE  WebhookInv'
  <1> USE DEF TakesUp
  <1>1. call.key \in Keys /\ WebhookTypeOK
    BY DEF Calls, WebhookInv
  <1>2. WebhookTypeOK'
    BY <1>1 DEF WebhookTypeOK, Calls
  <1>3. \A e \in Dispatchers : dispatcher'[e] = IF e = d THEN call ELSE dispatcher[e]
    BY <1>1 DEF WebhookTypeOK
  <1>4. call.key \notin completedKeys /\ accepted[call.key] = 0 /\ call.key \notin deadLettered
    BY <1>1 DEF WebhookInv, OneDispatcherPerKey
  <1>5. OneDispatcherPerKey'
    <2>1. \A e \in Dispatchers : e # d /\ Working(e) => dispatcher[e].key # call.key
      BY DEF WebhookInv, OneDispatcherPerKey
    <2> QED BY <1>3, <1>4, <2>1 DEF WebhookInv, OneDispatcherPerKey, Working
  <1>6. ASSUME NEW e \in Dispatchers PROVE StepFits(dispatcher[e])'
    BY <1>3, <1>4 DEF WebhookInv, StepFits, OutcomeKnown, Miscounted
  <1>7. CompletedHasOutcome'
    BY DEF WebhookInv, CompletedHasOutcome
  <1> QED BY <1>2, <1>4, <1>5, <1>6, <1>7 DEF WebhookInv, Miscounted

LEMMA ClaimStep ==
    ASSUME WebhookInv, NEW d \in Dispatchers, ClaimKey(d)
    PROVE  \E call \in Calls : Rests(d, call) \/ TakesUp(d, call)
  <1>1. WebhookTypeOK /\ dispatcher[d] \in Calls
    BY DEF WebhookInv, WebhookTypeOK, Calls
  <1>2. PICK h \in dispatcher[d].left :
            LET key == <<h, dispatcher[d].key[2]>> IN
            /\ dispatcher' = [dispatcher EXCEPT ![d] =
                   [step |-> IF Taken(key) THEN "next" ELSE "post",
                    key |-> key, left |-> dispatcher[d].left \ {h}, attempt |-> 1]]
            /\ claimedKeys' = claimedKeys \cup {key}
    BY DEF ClaimKey
  <1> DEFINE key == <<h, dispatcher[d].key[2]>>
             call == [step |-> IF Taken(key) THEN "next" ELSE "post",
                      key |-> key, left |-> dispatcher[d].left \ {h}, attempt |-> 1]
  <1>3. key \in Keys
    BY <1>1 DEF Calls, Keys
  <1>4. /\ call \in Calls /\ call.key = key
        /\ call.step = IF key \in claimedKeys THEN "next" ELSE "post"
        /\ call.attempt = 1
    BY <1>1, <1>3, WebhookAssumption DEF Calls, Steps, Taken
  <1>5. /\ dispatcher' = [dispatcher EXCEPT ![d] = call]
        /\ claimedKeys' = claimedKeys \cup {key}
        /\ UNCHANGED <<completedKeys, accepted, deadLettered, summaries, handled, unrecorded,
                   unanswered>>
        /\ ~Working(d)
    BY <1>2 DEF ClaimKey, At, Working
  <1> HIDE DEF key, call
  <1>6. CASE key \in claimedKeys
    <2>1. claimedKeys' = claimedKeys
      BY <1>5, <1>6
    <2>2. Rests(d, call)
      BY <1>1, <1>4, <1>5, <1>6, <2>1 DEF Rests, stores, WebhookTypeOK
    <2> QED BY <1>4, <2>2
  <1>7. CASE key \notin claimedKeys
    <2>1. TakesUp(d, call)
      BY <1>4, <1>5, <1>7 DEF TakesUp
    <2> QED BY <1>4, <2>1
  <1> QED BY <1>6, <1>7

Delivers(d) ==
    \/ Post(d) \/ RecordAcceptance(d) \/ RecordingRaises(d) \/ RecordFailure(d)
    \/ DeadLetter(d) \/ CompleteKey(d)

\* The steps of a delivery are work on the key that was claimed.
LEMMA DeliveryIsWork ==
    ASSUME WebhookInv, NEW d \in Dispatchers, Delivers(d)
    PROVE  \E call \in Calls, k \in Keys : WorksOn(d, k, call)
  <1> DEFINE To(step) == [dispatcher[d] EXCEPT !.step = step]
  <1>0. PICK k \in Keys : k = dispatcher[d].key
    BY DEF WebhookInv, WebhookTypeOK
  <1>1. WebhookTypeOK /\ dispatcher[d] \in Calls /\ k \in Keys /\ accepted[k] \in Nat
    BY DEF WebhookInv, WebhookTypeOK, Calls
  <1>2. ASSUME NEW step \in Steps, Move(d, step)
        PROVE  /\ To(step) \in Calls /\ To(step).key = k /\ To(step).step = step
               /\ To(step).attempt = dispatcher[d].attempt
               /\ dispatcher' = [dispatcher EXCEPT ![d] = To(step)]
    BY <1>0, <1>1, <1>2 DEF Calls, Move, WebhookTypeOK
  <1>3. /\ dispatcher[d].step \in {"post", "failed", "exhausted", "parked"} /\ k \notin Miscounted
               => accepted[k] = 0
        /\ dispatcher[d].step \in {"post", "answered", "logged", "failed", "exhausted"}
               => k \notin deadLettered
        /\ dispatcher[d].step \in {"answered", "logged"} => accepted[k] > 0
        /\ dispatcher[d].step = "parked" => k \in deadLettered
        /\ dispatcher[d].step = "delivered" =>
               (accepted[k] > 0 /\ <<k, "DELIVERED">> \in summaries) \/ k \in deadLettered
        /\ k \notin Miscounted => accepted[k] \in {0, 1}
        /\ k \notin Miscounted /\ k \in deadLettered => accepted[k] = 0
        /\ dispatcher[d].step = "post" => accepted[k] < dispatcher[d].attempt
        /\ dispatcher[d].step \notin {"free", "next"} => accepted[k] <= dispatcher[d].attempt
        /\ dispatcher[d].attempt \in Nat
    BY <1>0, <1>1, WebhookAssumption DEF WebhookInv, StepFits, OutcomeKnown, Calls
  <1> HIDE DEF To
  <1>4. CASE Post(d)
    <2>1. /\ Working(d) /\ dispatcher[d].step = "post" /\ {"answered", "failed"} \subseteq Steps
          /\ UNCHANGED <<claimedKeys, completedKeys, deadLettered, summaries, handled, unrecorded>>
      BY <1>4 DEF Post, At, Working, Steps
    <2>2. ASSUME Processed(k)
          PROVE  /\ accepted' \in [Keys -> Nat]
                 /\ \A q \in Keys \ {k} : accepted'[q] = accepted[q]
                 /\ accepted'[k] = accepted[k] + 1
      BY <1>1, <2>2 DEF Processed, WebhookTypeOK
    <2>3. CASE Move(d, "answered") /\ Processed(k) /\ UNCHANGED unanswered
      <3>1. WorksOn(d, k, To("answered"))
        BY <1>0, <1>1, <1>2, <1>3, <2>1, <2>2, <2>3 DEF WorksOn, WebhookTypeOK, Miscounted
      <3> QED BY <1>1, <1>2, <2>1, <2>3, <3>1
    <2>4. CASE Move(d, "failed") /\ Processed(k) /\ unanswered' = unanswered \cup {k}
      <3>1. WorksOn(d, k, To("failed"))
        BY <1>0, <1>1, <1>2, <1>3, <2>1, <2>2, <2>4 DEF WorksOn, WebhookTypeOK, Miscounted
      <3> QED BY <1>1, <1>2, <2>1, <2>4, <3>1
    <2>5. CASE Move(d, "failed") /\ UNCHANGED <<accepted, unanswered>>
      <3>1. WorksOn(d, k, To("failed"))
        BY <1>0, <1>1, <1>2, <1>3, <2>1, <2>5 DEF WorksOn, WebhookTypeOK, Miscounted
      <3> QED BY <1>1, <1>2, <2>1, <2>5, <3>1
    <2> QED BY <1>0, <1>4, <2>3, <2>4, <2>5 DEF Post
  <1>5. CASE RecordAcceptance(d)
    <2>1. /\ UNCHANGED <<claimedKeys, completedKeys, accepted, deadLettered, handled, unrecorded,
                   unanswered>>
          /\ {"logged", "delivered"} \subseteq Steps
      BY <1>5 DEF RecordAcceptance, Steps
    <2>2. CASE At(d, "answered") /\ Move(d, "logged") /\ UNCHANGED summaries
      <3>1. Working(d) /\ dispatcher[d].step = "answered"
        BY <2>2 DEF At, Working
      <3>2. WorksOn(d, k, To("logged"))
        BY <1>0, <1>1, <1>2, <1>3, <2>1, <2>2, <3>1 DEF WorksOn, WebhookTypeOK, Miscounted
      <3> QED BY <1>1, <1>2, <3>2, <2>1, <2>2
    <2>3. CASE /\ At(d, "logged") /\ Move(d, "delivered")
               /\ summaries' = summaries \cup {<<k, "DELIVERED">>}
      <3>1. Working(d) /\ dispatcher[d].step = "logged"
        BY <2>3 DEF At, Working
      <3>2. WorksOn(d, k, To("delivered"))
        BY <1>0, <1>1, <1>2, <1>3, <2>1, <2>3, <3>1 DEF WorksOn, WebhookTypeOK, Miscounted
      <3> QED BY <1>1, <1>2, <3>2, <2>1, <2>3
    <2> QED BY <1>0, <1>5, <2>2, <2>3 DEF RecordAcceptance
  <1>6. CASE RecordingRaises(d)
    <2>1. /\ UNCHANGED <<claimedKeys, completedKeys, accepted, deadLettered, summaries, handled,
                         unanswered>>
          /\ Move(d, "failed") /\ unrecorded' = unrecorded \cup {k} /\ "failed" \in Steps
          /\ Working(d) /\ dispatcher[d].step \in {"answered", "logged"}
      BY <1>0, <1>6 DEF RecordingRaises, Steps, At, Working
    <2>2. WorksOn(d, k, To("failed"))
      BY <1>0, <1>1, <1>2, <1>3, <2>1 DEF WorksOn, WebhookTypeOK, Miscounted
    <2> QED BY <1>1, <1>2, <2>2, <2>1
  <1>7. CASE RecordFailure(d)
    <2> DEFINE call == IF dispatcher[d].attempt < MAX_ATTEMPTS
                       THEN [step |-> "post", key |-> dispatcher[d].key,
                             left |-> dispatcher[d].left, attempt |-> dispatcher[d].attempt + 1]
                       ELSE To("exhausted")
    <2>0. "exhausted" \in Steps /\ "post" \in Steps
      BY DEF Steps
    <2>1. /\ dispatcher' = [dispatcher EXCEPT ![d] = call]
          /\ dispatcher[d].step = "failed"
          /\ UNCHANGED <<claimedKeys, completedKeys, accepted, deadLettered, summaries,
                         handled, unrecorded,
                   unanswered>>
      BY <1>2, <1>7, <2>0 DEF RecordFailure, stores, At
    <2>2. call \in Calls /\ call.key = k /\ call.step \in {"post", "exhausted"}
      <3>1. CASE dispatcher[d].attempt < MAX_ATTEMPTS
        <4>1. dispatcher[d].attempt + 1 \in 1 .. MAX_ATTEMPTS
          BY <1>1, <3>1, WebhookAssumption DEF Calls
        <4> QED BY <1>0, <1>1, <2>0, <3>1, <4>1 DEF Calls
      <3>2. CASE ~(dispatcher[d].attempt < MAX_ATTEMPTS)
        <4>1. Move(d, "exhausted")
          BY <1>7, <3>2 DEF RecordFailure
        <4> QED BY <1>2, <2>0, <3>2, <4>1
      <3> QED BY <3>1, <3>2
    <2>5. /\ call.step = "post" => call.attempt = dispatcher[d].attempt + 1
          /\ call.step = "exhausted" => call.attempt = dispatcher[d].attempt
      BY <1>2, <1>7, <2>0 DEF RecordFailure
    <2> HIDE DEF call
    <2>3. Working(d)
      BY <2>1 DEF Working
    <2>4. WorksOn(d, k, call)
      BY <1>0, <1>1, <1>3, <2>1, <2>2, <2>3, <2>5 DEF WorksOn, WebhookTypeOK, Miscounted
    <2> QED BY <1>1, <1>2, <2>4, <2>2
  <1>8. CASE DeadLetter(d)
    <2>1. /\ UNCHANGED <<claimedKeys, completedKeys, accepted, handled, unrecorded,
                   unanswered>>
          /\ {"parked", "delivered"} \subseteq Steps
      BY <1>8 DEF DeadLetter, Steps
    <2>2. CASE /\ At(d, "exhausted") /\ Move(d, "parked")
               /\ deadLettered' = deadLettered \cup {k} /\ UNCHANGED summaries
      <3>1. Working(d) /\ dispatcher[d].step = "exhausted"
        BY <2>2 DEF At, Working
      <3>2. WorksOn(d, k, To("parked"))
        BY <1>0, <1>1, <1>2, <1>3, <2>1, <2>2, <3>1 DEF WorksOn, WebhookTypeOK, Miscounted
      <3> QED BY <1>1, <1>2, <3>2, <2>1, <2>2
    <2>3. CASE /\ At(d, "parked") /\ Move(d, "delivered")
               /\ summaries' = summaries \cup {<<k, "DLQ">>} /\ UNCHANGED deadLettered
      <3>1. Working(d) /\ dispatcher[d].step = "parked"
        BY <2>3 DEF At, Working
      <3>2. WorksOn(d, k, To("delivered"))
        BY <1>0, <1>1, <1>2, <1>3, <2>1, <2>3, <3>1 DEF WorksOn, WebhookTypeOK, Miscounted
      <3> QED BY <1>1, <1>2, <3>2, <2>1, <2>3
    <2> QED BY <1>0, <1>8, <2>2, <2>3 DEF DeadLetter
  <1>9. CASE CompleteKey(d)
    <2>1. /\ UNCHANGED <<claimedKeys, accepted, deadLettered, summaries, handled, unrecorded,
                   unanswered>>
          /\ Move(d, "next") /\ completedKeys' = completedKeys \cup {k} /\ "next" \in Steps
          /\ dispatcher[d].step = "delivered" /\ Working(d)
      BY <1>0, <1>9 DEF CompleteKey, Steps, At, Working
    <2>2. WorksOn(d, k, To("next"))
      BY <1>0, <1>1, <1>2, <1>3, <2>1 DEF WorksOn, WebhookTypeOK, Miscounted
    <2> QED BY <1>1, <1>2, <2>2, <2>1
  <1> QED BY <1>4, <1>5, <1>6, <1>7, <1>8, <1>9 DEF Delivers

\* Every step of the dispatch is one of three.
LEMMA DispatchSteps ==
    ASSUME WebhookInv, WebhookNext
    PROVE  \E d \in Dispatchers, call \in Calls :
               \/ Rests(d, call) \/ TakesUp(d, call)
               \/ \E k \in Keys : WorksOn(d, k, call)
  <1>1. WebhookTypeOK
    BY DEF WebhookInv
  <1>2. ASSUME NEW d \in Dispatchers, NEW e \in DomainEvents, Handle(d, e)
        PROVE  \E call \in Calls : Rests(d, call)
    <2> DEFINE call == [step |-> "next", key |-> <<NoDispatch.key[1], e>>, left |-> Hooks,
                        attempt |-> 1]
    <2>1. /\ dispatcher' = [dispatcher EXCEPT ![d] = call] /\ UNCHANGED stores
          /\ handled' = [handled EXCEPT ![e] = @ + 1]
      BY <1>2 DEF Handle
    <2>2. call \in Calls /\ call.step = "next"
      BY NoDispatchIsACall, WebhookAssumption DEF Calls, Keys, Steps
    <2>3. handled' \in [DomainEvents -> Nat]
      BY <1>1, <2>1 DEF WebhookTypeOK
    <2> HIDE DEF call
    <2> QED BY <2>1, <2>2, <2>3 DEF Rests
  <1>3. ASSUME NEW d \in Dispatchers, EndDispatch(d) \/ StopDispatch(d)
        PROVE  Rests(d, NoDispatch)
    BY <1>1, <1>3, NoDispatchIsACall DEF EndDispatch, StopDispatch, WebhookTypeOK, Rests
  <1> QED BY <1>2, <1>3, NoDispatchIsACall, ClaimStep, DeliveryIsWork DEF WebhookNext, Delivers

LEMMA WebhookInvNext == WebhookInv /\ [WebhookNext]_webhookVars => WebhookInv'
  <1>1. WebhookInv /\ WebhookNext => WebhookInv'
    BY DispatchSteps, RestStep, TakeUpStep, WorkStep
  <1>2. WebhookInv /\ UNCHANGED webhookVars => WebhookInv'
    BY DEF webhookVars, WebhookInv, WebhookTypeOK, OneDispatcherPerKey, StepFits,
           OutcomeKnown, CompletedHasOutcome, Working, Miscounted
  <1> QED BY <1>1, <1>2

\* The inductive invariant of the dispatch.
THEOREM WebhookInvariant == WebhookSpec => []WebhookInv
  BY WebhookInvInit, WebhookInvNext, PTL DEF WebhookSpec

\* For any consumers and any number of deliveries by the bus: a second POST that the
\* receiver processes, or a dead letter of a processed one, needs an answer that was
\* lost or rows that could not be written.
THEOREM PostsAreNotRepeated == WebhookSpec => []RepeatsAreMiscounted
  <1>1. WebhookInv => RepeatsAreMiscounted
    BY DEF WebhookInv, WebhookTypeOK, RepeatsAreMiscounted
  <1> QED BY <1>1, WebhookInvariant, PTL

\* For any consumers: a completed key was sent or is dead-lettered.
THEOREM CompletedKeysHaveOutcomes == WebhookSpec => []CompletedHasOutcome
  <1>1. WebhookInv => CompletedHasOutcome
    BY DEF WebhookInv
  <1> QED BY <1>1, WebhookInvariant, PTL

\* Both, for any consumers: what the receiver gets too often, too rarely or in spite of
\* a dead letter is due to a miscounted POST or found in the tables.
THEOREM DeliveriesAreInTables == WebhookSpec => []DeliveriesAreAccounted
  BY PostsAreNotRepeated, CompletedKeysHaveOutcomes, PTL DEF DeliveriesAreAccounted

\* For any consumers: nobody takes up a key that was let go.
THEOREM KeysLetGoStay == WebhookSpec => LetGoForEver
  <1>1. ASSUME WebhookInv, WebhookNext, NEW k \in Keys, LetGo(k)
        PROVE  LetGo(k)' /\ accepted'[k] = accepted[k] /\ (k \in deadLettered' => k \in deadLettered)
    <2>1. WebhookTypeOK /\ k \in claimedKeys /\ k \notin completedKeys
      BY <1>1 DEF WebhookInv, LetGo
    <2>2. \A d \in Dispatchers : Working(d) => dispatcher[d].key # k
      BY <1>1 DEF LetGo, InHand
    <2>3. PICK d \in Dispatchers, call \in Calls :
              \/ Rests(d, call) \/ TakesUp(d, call)
              \/ \E j \in Keys : WorksOn(d, j, call)
      BY <1>1, DispatchSteps
    <2>4. /\ accepted'[k] = accepted[k] /\ (k \in deadLettered' => k \in deadLettered)
          /\ k \in claimedKeys' /\ k \notin completedKeys'
          /\ call.step \in {"free", "next"} \/ call.key # k
          /\ dispatcher' = [dispatcher EXCEPT ![d] = call]
      <3>1. CASE Rests(d, call)
        BY <2>1, <3>1 DEF Rests, stores
      <3>2. CASE TakesUp(d, call)
        BY <2>1, <3>2 DEF TakesUp
      <3>3. ASSUME NEW j \in Keys, WorksOn(d, j, call)
            PROVE  <2>4
        <4>1. j # k
          BY <2>2, <3>3 DEF WorksOn
        <4> QED BY <2>1, <3>3, <4>1 DEF WorksOn
      <3> QED BY <2>3, <3>1, <3>2, <3>3
    <2>5. \A e \in Dispatchers : dispatcher'[e] = IF e = d THEN call ELSE dispatcher[e]
      BY <2>1, <2>4 DEF WebhookTypeOK
    <2>6. \A e \in Dispatchers : Working(e)' => dispatcher'[e].key # k
      BY <2>2, <2>4, <2>5 DEF Working
    <2> QED BY <2>4, <2>6 DEF LetGo, InHand
  <1>2. WebhookInv /\ [WebhookNext]_webhookVars =>
            [\A k \in Keys : LetGo(k) => /\ LetGo(k)'
                                         /\ accepted'[k] = accepted[k]
                                         /\ k \in deadLettered' => k \in deadLettered]_webhookVars
    BY <1>1
  <1> QED BY <1>2, WebhookInvariant, PTL DEF WebhookSpec, LetGoForEver

\* What a dispatcher that moves does to who is at work.
LEMMA AtWorkStep ==
    ASSUME WebhookTypeOK, NEW d \in Dispatchers, NEW call \in Calls,
           dispatcher' = [dispatcher EXCEPT ![d] = call], NEW k \in Keys
    PROVE  /\ call.step \notin {"free", "next"} /\ call.key = k
                   => AtWork'[k] = AtWork[k] \cup {d}
           /\ ~(call.step \notin {"free", "next"} /\ call.key = k)
                   => AtWork'[k] = AtWork[k] \ {d}
           /\ d \notin AtWork[k] => AtWork[k] \ {d} = AtWork[k]
  <1>1. \A e \in Dispatchers : dispatcher'[e] = IF e = d THEN call ELSE dispatcher[e]
    BY DEF WebhookTypeOK
  <1>2. AtWork[k] = {e \in Dispatchers : Working(e) /\ dispatcher[e].key = k}
    BY DEF AtWork
  <1>3. AtWork'[k] = {e \in Dispatchers : Working(e)' /\ dispatcher'[e].key = k}
    BY DEF AtWork
  <1>4. \A e \in Dispatchers \ {d} : Working(e)' <=> Working(e)
    BY <1>1 DEF Working
  <1>5. Working(d)' <=> call.step \notin {"free", "next"}
    BY <1>1 DEF Working
  <1>6. dispatcher'[d].key = call.key
        /\ \A e \in Dispatchers \ {d} : dispatcher'[e].key = dispatcher[e].key
    BY <1>1
  <1>7. AtWork'[k] \subseteq Dispatchers /\ AtWork[k] \subseteq Dispatchers
    BY <1>2, <1>3
  <1>8. \A e \in Dispatchers \ {d} : e \in AtWork'[k] <=> e \in AtWork[k]
    BY <1>2, <1>3, <1>4, <1>6
  <1>9. d \in AtWork'[k] <=> call.step \notin {"free", "next"} /\ call.key = k
    BY <1>3, <1>5, <1>6
  <1> QED BY <1>7, <1>8, <1>9

\* Who is at work, key by key.
LEMMA AtWorkByKey ==
    ASSUME NEW k \in Keys, NEW T, AtWork'[k] = T,
           \A j \in Keys \ {k} : AtWork'[j] = AtWork[j]
    PROVE  AtWork' = [AtWork EXCEPT ![k] = T]
  <1>1. AtWork = [j \in Keys |-> AtWork[j]] /\ AtWork' = [j \in Keys |-> AtWork'[j]]
    BY DEF AtWork
  <1> DEFINE F == [AtWork EXCEPT ![k] = T]
  <1>2. F = [j \in Keys |-> F[j]] /\ \A j \in Keys : AtWork'[j] = F[j]
    BY <1>1
  <1> HIDE DEF F
  <1>3. AtWork' = F
    BY <1>1, <1>2
  <1> QED BY <1>3 DEF F

\* The dispatcher in hand of a key is alone at it, and at no other.
LEMMA AloneAtWork ==
    ASSUME WebhookInv, NEW d \in Dispatchers, NEW k \in Keys, Working(d),
           dispatcher[d].key = k
    PROVE  AtWork[k] = {d} /\ \A j \in Keys \ {k} : d \notin AtWork[j]
  <1>1. \A e \in Dispatchers : Working(e) /\ dispatcher[e].key = k => e = d
    BY DEF WebhookInv, OneDispatcherPerKey
  <1>2. AtWork[k] = {e \in Dispatchers : Working(e) /\ dispatcher[e].key = k}
    BY DEF AtWork
  <1> QED BY <1>1, <1>2 DEF AtWork

\* A step that leaves the tables alone lets go of at most the key in hand.
LEMMA RestClaims ==
    ASSUME WebhookInv, NEW d \in Dispatchers, NEW call \in Calls, Rests(d, call)
    PROVE  [KeyClaims!Next]_(KeyClaims!claimVars)
  <1>1. WebhookTypeOK
    BY DEF WebhookInv
  <1>2. \A k \in Keys : /\ AtWork'[k] = AtWork[k] \ {d}
                        /\ d \notin AtWork[k] => AtWork'[k] = AtWork[k]
    BY <1>1, AtWorkStep DEF Rests
  <1>3. claimedKeys' = claimedKeys
    BY DEF Rests, stores
  <1>4. \A k \in Keys : Done(k)' = Done(k)
    BY DEF Rests, stores, Done
  <1>5. [k \in Keys |-> Done(k)]' = [k \in Keys |-> Done(k)]
    BY <1>4, Zenon
  <1>6. CASE Working(d)
    <2>1. PICK k \in Keys : k = dispatcher[d].key
      BY <1>1 DEF WebhookTypeOK
    <2>2. AtWork[k] = {d} /\ \A j \in Keys \ {k} : d \notin AtWork[j]
      BY <1>6, <2>1, AloneAtWork
    <2>3. AtWork'[k] = {} /\ \A j \in Keys \ {k} : AtWork'[j] = AtWork[j]
      <3>1. AtWork'[k] = {}
        BY <1>2, <2>2
      <3>2. ASSUME NEW j \in Keys, j # k PROVE AtWork'[j] = AtWork[j]
        BY <1>2, <2>2, <3>2
      <3> QED BY <3>1, <3>2
    <2>4. AtWork' = [AtWork EXCEPT ![k] = {}]
      BY <2>3, AtWorkByKey
    <2>5. [j \in Keys |-> Done(j)]' = [[j \in Keys |-> Done(j)] EXCEPT ![k] = Done(k)']
      BY <1>4
    <2>6. KeyClaims!Proceed(k)
      BY <1>3, <2>2, <2>4, <2>5 DEF KeyClaims!Proceed
    <2> QED BY <2>6 DEF KeyClaims!Next
  <1>7. CASE ~Working(d)
    <2>1. \A j \in Keys : AtWork'[j] = AtWork[j]
      BY <1>2, <1>7 DEF AtWork
    <2>2. AtWork' = AtWork
      <3>1. AtWork = [j \in Keys |-> AtWork[j]] /\ AtWork' = [j \in Keys |-> AtWork'[j]]
        BY DEF AtWork
      <3> QED BY <2>1, <3>1
    <2> QED BY <1>3, <1>5, <2>2 DEF KeyClaims!claimVars
  <1> QED BY <1>6, <1>7

LEMMA TakeUpClaims ==
    ASSUME WebhookInv, NEW d \in Dispatchers, NEW call \in Calls, TakesUp(d, call)
    PROVE  KeyClaims!Next
  <1>1. WebhookTypeOK /\ call.key \in Keys
    BY DEF WebhookInv, Calls
  <1>2. \A j \in Keys : d \notin AtWork[j]
    BY DEF TakesUp, AtWork, Working
  <1>3. AtWork[call.key] = {}
    BY <1>1 DEF TakesUp, AtWork, WebhookInv, OneDispatcherPerKey
  <1>4. /\ AtWork'[call.key] = AtWork[call.key] \cup {d}
        /\ \A k \in Keys \ {call.key} : AtWork'[k] = AtWork[k]
    <2>1. AtWork'[call.key] = AtWork[call.key] \cup {d}
      <3>1. call.step \notin {"free", "next"} /\ dispatcher' = [dispatcher EXCEPT ![d] = call]
        BY DEF TakesUp
      <3> QED BY <1>1, <3>1, AtWorkStep, Zenon
    <2>2. ASSUME NEW k \in Keys, k # call.key PROVE AtWork'[k] = AtWork[k]
      <3>1. dispatcher' = [dispatcher EXCEPT ![d] = call]
        BY DEF TakesUp
      <3>2. d \notin AtWork[k]
        BY <1>2
      <3>3. AtWork'[k] = AtWork[k] \ {d} /\ AtWork[k] \ {d} = AtWork[k]
        BY <1>1, <2>2, <3>1, <3>2, AtWorkStep, Zenon
      <3> QED BY <3>3
    <2> QED BY <2>1, <2>2
  <1>5. AtWork' = [AtWork EXCEPT ![call.key] = {d}]
    <2>1. AtWork'[call.key] = {d} /\ \A j \in Keys \ {call.key} : AtWork'[j] = AtWork[j]
      <3>1. AtWork'[call.key] = {} \cup {d}
        BY <1>3, <1>4
      <3>2. {} \cup {d} = {d}
        OBVIOUS
      <3>3. AtWork'[call.key] = {d}
        BY <3>1, <3>2, Zenon
      <3> QED BY <1>4, <3>3
    <2> QED BY <1>1, <2>1, AtWorkByKey
  <1>6. claimedKeys' = claimedKeys \cup {call.key} /\ call.key \notin claimedKeys
    BY DEF TakesUp
  <1>7. \A k \in Keys : Done(k)' = Done(k)
    BY DEF TakesUp, Done
  <1>8. [k \in Keys |-> Done(k)]' = [k \in Keys |-> Done(k)]
    BY <1>7, Zenon
  <1>9. KeyClaims!Claim(call.key)
    BY <1>2, <1>5, <1>6, <1>8 DEF KeyClaims!Claim
  <1> QED BY <1>1, <1>9 DEF KeyClaims!Next

LEMMA WorkClaims ==
    ASSUME WebhookInv, NEW d \in Dispatchers, NEW call \in Calls, NEW k \in Keys,
           WorksOn(d, k, call)
    PROVE  KeyClaims!Next
  <1>1. WebhookTypeOK
    BY DEF WebhookInv
  <1>2. AtWork[k] = {d} /\ \A j \in Keys \ {k} : d \notin AtWork[j]
    BY AloneAtWork DEF WorksOn
  <1>3. AtWork' \in {AtWork, [AtWork EXCEPT ![k] = {}]}
    <2>2. ASSUME NEW j \in Keys, j # k PROVE AtWork'[j] = AtWork[j]
      <3>1. dispatcher' = [dispatcher EXCEPT ![d] = call] /\ call.key # j
        BY <2>2 DEF WorksOn
      <3>2. d \notin AtWork[j]
        BY <1>2, <2>2
      <3>3. AtWork'[j] = AtWork[j] \ {d} /\ AtWork[j] \ {d} = AtWork[j]
        BY <1>1, <3>1, <3>2, AtWorkStep, Zenon
      <3> QED BY <3>3
    <2>3. AtWork'[k] = {} \/ AtWork'[k] = AtWork[k]
      <3>1. AtWork'[k] = AtWork[k] \cup {d} \/ AtWork'[k] = AtWork[k] \ {d}
        BY <1>1, AtWorkStep DEF WorksOn
      <3> QED BY <1>2, <3>1
    <2>4. CASE AtWork'[k] = {}
      BY <2>2, <2>4, AtWorkByKey
    <2>5. CASE AtWork'[k] = AtWork[k]
      <3>1. AtWork = [j \in Keys |-> AtWork[j]] /\ AtWork' = [j \in Keys |-> AtWork'[j]]
        BY DEF AtWork
      <3>2. \A j \in Keys : AtWork'[j] = AtWork[j]
        BY <2>2, <2>5
      <3> QED BY <3>1, <3>2
    <2> QED BY <2>3, <2>4, <2>5
  <1>4. ASSUME NEW j \in Keys, j # k PROVE Done(j)' = Done(j)
    <2>1. accepted'[j] = accepted[j]
      BY <1>4 DEF WorksOn
    <2>2. (j \in deadLettered') = (j \in deadLettered)
      BY <1>4 DEF WorksOn
    <2>3. (j \in completedKeys') = (j \in completedKeys)
      BY <1>4 DEF WorksOn
    <2>4. {r \in summaries' : r[1] = j} = {r \in summaries : r[1] = j}
      BY <1>4 DEF WorksOn
    <2> QED BY <2>1, <2>2, <2>3, <2>4 DEF Done
  <1>5. [j \in Keys |-> Done(j)]' = [[j \in Keys |-> Done(j)] EXCEPT ![k] = Done(k)']
    BY <1>4
  <1>6. [j \in Keys |-> Done(j)]'[k] = Done(k)'
    OBVIOUS
  <1>7. claimedKeys' = claimedKeys
    BY DEF WorksOn
  <1>8. KeyClaims!Proceed(k)
    BY <1>2, <1>3, <1>5, <1>6, <1>7 DEF KeyClaims!Proceed
  <1> QED BY <1>8 DEF KeyClaims!Next

\* For any consumers, registrations and deliveries by the bus: the key of a webhook and
\* an event is a claim, and whatever is sent, dead-lettered, recorded or completed for
\* it is the work of the one dispatcher that claimed it, until it lets go.
THEOREM DispatchImplementsClaims == WebhookSpec => ImplementsClaimedDispatch
  <1>1. ASSUME WebhookInit PROVE KeyClaims!Init
    <2>1. \A d \in Dispatchers : ~Working(d)
      BY <1>1 DEF WebhookInit, Working, NoDispatch
    <2>2. AtWork = [k \in Keys |-> {}]
      <3>1. \A k \in Keys : {d \in Dispatchers : Working(d) /\ dispatcher[d].key = k} = {}
        BY <2>1
      <3> QED BY <3>1, Zenon DEF AtWork
    <2>3. ASSUME NEW k \in Keys PROVE Done(k) = Untouched
      <3>1. accepted[k] = 0
        BY <1>1 DEF WebhookInit
      <3>2. (k \in deadLettered) = FALSE /\ (k \in completedKeys) = FALSE
        BY <1>1 DEF WebhookInit
      <3>3. {r \in summaries : r[1] = k} = {}
        BY <1>1 DEF WebhookInit
      <3> QED BY <3>1, <3>2, <3>3 DEF Done, Untouched
    <2>4. [k \in Keys |-> Done(k)] = [k \in Keys |-> Untouched]
      BY <2>3, Zenon
    <2> QED BY <1>1, <2>2, <2>4 DEF WebhookInit, KeyClaims!Init
  <1>2. WebhookInv /\ [WebhookNext]_webhookVars => [KeyClaims!Next]_(KeyClaims!claimVars)
    <2>1. WebhookInv /\ WebhookNext => [KeyClaims!Next]_(KeyClaims!claimVars)
      BY DispatchSteps, RestClaims, TakeUpClaims, WorkClaims
    <2>2. UNCHANGED webhookVars => UNCHANGED KeyClaims!claimVars
      BY DEF webhookVars, KeyClaims!claimVars, AtWork, Working, Done
    <2> QED BY <2>1, <2>2
  <1> QED BY <1>1, <1>2, WebhookInvariant, PTL
          DEF WebhookSpec, ImplementsClaimedDispatch, KeyClaims!Spec

-----------------------------------------------------------------------------
(* The audit chain.                                                        *)

Row == [prev : Nat, state : {"open", "committed", "void"}]

\* Every row points back to the genesis hash or to a committed row before it.
PointsBack ==
    \A n \in 1 .. Len(auditLog) :
        auditLog[n].prev \in {GENESIS_HASH} \cup Committed /\ auditLog[n].prev < n

\* A session read the genesis hash or a committed row; the row it inserted is its own.
SessionsFit ==
    /\ \A a \in Running : appender[a].seen \in {GENESIS_HASH} \cup Committed
    /\ \A a \in Appenders : appender[a].phase = "inserted" =>
           appender[a].own \in 1 .. Len(auditLog) /\ auditLog[appender[a].own].state = "open"
    /\ \A a, b \in Appenders :
           appender[a].phase = "inserted" /\ appender[b].phase = "inserted"
               /\ appender[a].own = appender[b].own => a = b

\* x is the last of the committed rows before n, or the genesis hash.
IsLastBefore(x, n) ==
    /\ x = GENESIS_HASH \/ (x \in Committed /\ x < n)
    /\ \A m \in Committed : m < n => m <= x

\* The committed rows before any row have a last one.
LastsExist == \A n \in Nat : \E x \in Nat : IsLastBefore(x, n)

\* While appends do not overlap, the one that runs extends the last committed row.
OneAtATime ==
    /\ Verifies(Committed)
    /\ \A a, b \in Running : a = b
    /\ \A a \in Running :
           /\ \A m \in Committed : m <= appender[a].seen
           /\ appender[a].phase = "inserted" =>
                  /\ appender[a].own = Len(auditLog)
                  /\ auditLog[appender[a].own].prev = appender[a].seen

AuditInv ==
    /\ AuditTypeOK /\ PointsBack /\ SessionsFit /\ LastsExist
    /\ overlapped \/ OneAtATime

\* The last hash of a set of rows is its only largest element.
LEMMA LastHashIs ==
    ASSUME NEW rows \in SUBSET Nat, NEW x \in rows \cup {GENESIS_HASH}, \A m \in rows : m <= x
    PROVE  LastHash(rows) = x
  <1>1. \A y \in rows \cup {GENESIS_HASH} : (\A m \in rows : m <= y) => y = x
    BY DEF GENESIS_HASH
  <1>2. \E y \in rows \cup {GENESIS_HASH} : \A m \in rows : m <= y
    OBVIOUS
  <1> QED BY <1>1, <1>2 DEF LastHash

LEMMA LogIsASequence ==
    ASSUME AuditTypeOK
    PROVE  /\ auditLog \in Seq(Row) /\ DOMAIN auditLog = 1 .. Len(auditLog)
           /\ Len(auditLog) \in Nat
           /\ \A n \in 1 .. Len(auditLog) :
                  auditLog[n] \in Row /\ (n \in Committed <=> auditLog[n].state = "committed")
           /\ Committed \subseteq 1 .. Len(auditLog)
           /\ {GENESIS_HASH} \cup Committed \subseteq 0 .. Len(auditLog)
  <1>1. auditLog \in Seq(Row)
    BY DEF AuditTypeOK, Row
  <1>2. DOMAIN auditLog = 1 .. Len(auditLog) /\ Len(auditLog) \in Nat
    BY <1>1
  <1>3. \A n \in 1 .. Len(auditLog) : auditLog[n] \in Row
    BY <1>1, ElementOfSeq
  <1> QED BY <1>1, <1>2, <1>3 DEF Committed, GENESIS_HASH

\* The last committed row, and the one before a row, as LastHash finds them.
LEMMA LastHashOfCommitted ==
    ASSUME AuditTypeOK, LastsExist, NEW n \in Nat
    PROVE  /\ IsLastBefore(LastHash({m \in Committed : m < n}), n)
           /\ \A x \in Nat : IsLastBefore(x, n) => LastHash({m \in Committed : m < n}) = x
  <1>1. {m \in Committed : m < n} \in SUBSET Nat
    BY LogIsASequence
  <1>2. ASSUME NEW x \in Nat, IsLastBefore(x, n)
        PROVE  LastHash({m \in Committed : m < n}) = x
    BY <1>1, <1>2, LastHashIs DEF IsLastBefore
  <1> QED BY <1>2 DEF LastsExist

LEMMA LatestIsLast ==
    ASSUME AuditTypeOK, LastsExist
    PROVE  Latest \in {GENESIS_HASH} \cup Committed /\ \A m \in Committed : m <= Latest
  <1>1. Len(auditLog) + 1 \in Nat /\ \A m \in Committed : m < Len(auditLog) + 1
    BY LogIsASequence
  <1>2. Committed = {m \in Committed : m < Len(auditLog) + 1}
    BY <1>1
  <1>3. IsLastBefore(Latest, Len(auditLog) + 1)
    BY <1>1, <1>2, LastHashOfCommitted DEF Latest
  <1> QED BY <1>1, <1>3 DEF IsLastBefore

\* What happens to the rows at the end of an append.
LEMMA EndOfRow ==
    ASSUME AuditTypeOK, NEW r \in 1 .. Len(auditLog), NEW end \in {"committed", "void"},
           auditLog[r].state = "open", auditLog' = [auditLog EXCEPT ![r].state = end]
    PROVE  /\ auditLog' \in Seq(Row) /\ Len(auditLog') = Len(auditLog)
           /\ DOMAIN auditLog' = 1 .. Len(auditLog)
           /\ \A n \in 1 .. Len(auditLog) :
                  /\ auditLog'[n].prev = auditLog[n].prev
                  /\ auditLog'[n].state = IF n = r THEN end ELSE auditLog[n].state
           /\ Committed' = IF end = "committed" THEN Committed \cup {r} ELSE Committed
           /\ r \notin Committed
  <1> DEFINE row == [prev |-> auditLog[r].prev, state |-> end]
  <1>1. auditLog[r] \in Row
    BY LogIsASequence
  <1>2. row \in Row
    BY <1>1 DEF Row
  <1>3. [auditLog[r] EXCEPT !.state = end] = row
    BY <1>1 DEF Row
  <1>4. auditLog' = [auditLog EXCEPT ![r] = row]
    BY <1>3
  <1>5. row.prev = auditLog[r].prev /\ row.state = end
    OBVIOUS
  <1> HIDE DEF row
  <1>6. /\ auditLog' \in Seq(Row) /\ Len(auditLog') = Len(auditLog)
        /\ \A n \in 1 .. Len(auditLog) : auditLog'[n] = IF n = r THEN row ELSE auditLog[n]
    BY <1>2, <1>4, LogIsASequence, ExceptSeq
  <1>7. DOMAIN auditLog' = 1 .. Len(auditLog)
    BY <1>6
  <1> QED BY <1>5, <1>6, <1>7, LogIsASequence DEF Committed

LEMMA InsertStep ==
    ASSUME AuditInv, NEW a \in Appenders, InsertRow(a)
    PROVE  /\ auditLog' \in Seq(Row) /\ Len(auditLog') = Len(auditLog) + 1
           /\ \A n \in 1 .. Len(auditLog) : auditLog'[n] = auditLog[n]
           /\ auditLog'[Len(auditLog) + 1].prev = appender[a].seen
           /\ auditLog'[Len(auditLog) + 1].state = "open"
           /\ Committed' = Committed
           /\ DOMAIN auditLog' = 1 .. Len(auditLog) + 1
  <1> DEFINE row == [prev |-> appender[a].seen, state |-> "open"]
  <1>1. row \in Row /\ row.state = "open" /\ row.prev = appender[a].seen
    BY DEF AuditInv, AuditTypeOK, Row
  <1>2. auditLog' = Append(auditLog, row)
    BY DEF InsertRow
  <1> HIDE DEF row
  <1>3. AuditTypeOK
    BY DEF AuditInv
  <1>4. /\ auditLog' \in Seq(Row) /\ Len(auditLog') = Len(auditLog) + 1
        /\ \A n \in 1 .. Len(auditLog) : auditLog'[n] = auditLog[n]
        /\ auditLog'[Len(auditLog) + 1] = row
    BY <1>1, <1>2, <1>3, LogIsASequence, AppendProperties
  <1>5. DOMAIN auditLog' = 1 .. Len(auditLog) + 1
    BY <1>4
  <1>6. Committed' = Committed
    BY <1>1, <1>3, <1>4, <1>5, LogIsASequence DEF Committed
  <1> QED BY <1>1, <1>4, <1>5, <1>6

\* The committed rows only grow, by at most one row, and rows keep their prev_hash.
Grows ==
    /\ Len(auditLog) <= Len(auditLog')
    /\ \A n \in 1 .. Len(auditLog) : auditLog'[n].prev = auditLog[n].prev
    /\ \/ Committed' = Committed
       \/ \E r \in 1 .. Len(auditLog) : Committed' = Committed \cup {r}

LEMMA LogStep == AuditInv /\ [AuditNext]_auditVars => Grows
  <1> SUFFICES ASSUME AuditInv, [AuditNext]_auditVars PROVE Grows
    OBVIOUS
  <1>1. AuditTypeOK /\ SessionsFit /\ Len(auditLog) \in Nat
    BY LogIsASequence DEF AuditInv
  <1>2. ASSUME auditLog' = auditLog PROVE Grows
    <2>1. Committed' = Committed
      BY <1>2 DEF Committed
    <2> QED BY <1>1, <1>2, <2>1 DEF Grows
  <1>3. ASSUME NEW a \in Appenders, NEW end \in {"committed", "void"},
               appender[a].phase = "inserted",
               auditLog' = [auditLog EXCEPT ![appender[a].own].state = end]
        PROVE  Grows
    <2>1. PICK r \in 1 .. Len(auditLog) : r = appender[a].own /\ auditLog[r].state = "open"
      BY <1>1, <1>3 DEF SessionsFit
    <2>2. auditLog' = [auditLog EXCEPT ![r].state = end]
      BY <1>3, <2>1
    <2>3. /\ Len(auditLog') = Len(auditLog)
          /\ \A n \in 1 .. Len(auditLog) : auditLog'[n].prev = auditLog[n].prev
          /\ Committed' = IF end = "committed" THEN Committed \cup {r} ELSE Committed
      BY <1>1, <2>1, <2>2, EndOfRow
    <2> QED BY <1>1, <2>1, <2>3 DEF Grows
  <1>4. ASSUME NEW a \in Appenders, SelectLatest(a) \/ LockRow(a) PROVE Grows
    BY <1>2, <1>4 DEF SelectLatest, LockRow
  <1>5. ASSUME NEW a \in Appenders, InsertRow(a) PROVE Grows
    <2>1. /\ Len(auditLog') = Len(auditLog) + 1 /\ Committed' = Committed
          /\ \A n \in 1 .. Len(auditLog) : auditLog'[n] = auditLog[n]
      BY <1>5, InsertStep
    <2> QED BY <1>1, <2>1 DEF Grows
  <1>6. ASSUME NEW a \in Appenders, CommitRow(a) PROVE Grows
    BY <1>3, <1>6 DEF CommitRow
  <1>7. ASSUME NEW a \in Appenders, AbortAppend(a) PROVE Grows
    BY <1>2, <1>3, <1>7 DEF AbortAppend
  <1> QED BY <1>2, <1>4, <1>5, <1>6, <1>7 DEF AuditNext, auditVars

LEMMA LastsStayFound == AuditInv /\ Grows => LastsExist'
  <1> SUFFICES ASSUME AuditInv, Grows, NEW n \in Nat
               PROVE  \E x \in Nat : /\ x = GENESIS_HASH \/ (x \in Committed' /\ x < n)
                                     /\ \A m \in Committed' : m < n => m <= x
    BY DEF LastsExist, IsLastBefore
  <1>1. PICK x \in Nat : IsLastBefore(x, n)
    BY DEF AuditInv, LastsExist
  <1>2. Committed \subseteq Nat
    BY LogIsASequence DEF AuditInv
  <1>3. CASE Committed' = Committed
    BY <1>1, <1>3 DEF IsLastBefore
  <1>4. ASSUME NEW r \in 1 .. Len(auditLog), Committed' = Committed \cup {r}
        PROVE  \E y \in Nat : /\ y = GENESIS_HASH \/ (y \in Committed' /\ y < n)
                              /\ \A m \in Committed' : m < n => m <= y
    <2>1. CASE r < n /\ x < r
      BY <1>1, <1>2, <1>4, <2>1 DEF IsLastBefore
    <2>2. CASE ~(r < n /\ x < r)
      BY <1>1, <1>2, <1>4, <2>2 DEF IsLastBefore
    <2> QED BY <2>1, <2>2
  <1> QED BY <1>3, <1>4 DEF Grows

LEMMA BrokenStays == AuditInv /\ Grows /\ ~Verifies(Committed) => ~Verifies(Committed)'
  <1> SUFFICES ASSUME AuditInv, Grows, ~Verifies(Committed) PROVE ~Verifies(Committed)'
    OBVIOUS
  <1>0. AuditTypeOK /\ PointsBack /\ LastsExist /\ LastsExist'
    BY LastsStayFound DEF AuditInv
  <1>1. PICK n \in Committed : auditLog[n].prev # LastHash({m \in Committed : m < n})
    BY DEF Verifies
  <1>2. n \in 1 .. Len(auditLog) /\ n \in Nat /\ Committed \subseteq Nat
    BY <1>0, LogIsASequence
  <1> DEFINE last == LastHash({m \in Committed : m < n})
  <1>3. IsLastBefore(last, n)
    BY <1>0, <1>2, LastHashOfCommitted
  <1> HIDE DEF last
  <1>4. /\ auditLog[n].prev \in {GENESIS_HASH} \cup Committed /\ auditLog[n].prev < n
        /\ auditLog[n].prev # last
    BY <1>0, <1>1, <1>2 DEF PointsBack, last
  <1>5. last \in Committed /\ last < n /\ auditLog[n].prev < last
    <2>1. auditLog[n].prev \in 0 .. Len(auditLog) /\ Len(auditLog) \in Nat
      BY <1>0, <1>4, LogIsASequence
    <2>2. last \in {GENESIS_HASH} \cup Committed /\ (auditLog[n].prev \in Committed =>
              auditLog[n].prev <= last)
      BY <1>3, <1>4 DEF IsLastBefore
    <2>3. last \in 0 .. Len(auditLog)
      BY <1>0, <2>2, LogIsASequence
    <2>4. auditLog[n].prev < last
      BY <1>4, <2>1, <2>2, <2>3 DEF GENESIS_HASH
    <2> QED BY <1>3, <2>1, <2>3, <2>4 DEF IsLastBefore, GENESIS_HASH
  <1>6. n \in Committed' /\ last \in Committed' /\ auditLog'[n].prev = auditLog[n].prev
    BY <1>2, <1>5 DEF Grows
  <1>7. LastHash({m \in Committed' : m < n}) # auditLog[n].prev
    <2>1. PICK x \in Nat : /\ x = GENESIS_HASH \/ (x \in Committed' /\ x < n)
                           /\ \A m \in Committed' : m < n => m <= x
      BY <1>0, <1>2 DEF LastsExist, IsLastBefore
    <2>2. Committed' \subseteq Nat
      BY <1>0, <1>2, LogIsASequence DEF Grows
    <2>3. LastHash({m \in Committed' : m < n}) = x
      BY <2>1, <2>2, LastHashIs
    <2>4. last <= x
      BY <1>5, <1>6, <2>1
    <2> QED BY <1>2, <1>4, <1>5, <2>3, <2>4 DEF GENESIS_HASH
  <1> QED BY <1>6, <1>7 DEF Verifies

LEMMA AuditInvInit == AuditInit => AuditInv
  <1> SUFFICES ASSUME AuditInit PROVE AuditInv
    OBVIOUS
  <1>1. Committed = {} /\ Running = {}
    BY DEF AuditInit, Committed, Running, Resting
  <1>2. AuditTypeOK
    BY EmptySeq DEF AuditInit, AuditTypeOK, Resting, GENESIS_HASH
  <1>3. PointsBack /\ SessionsFit
    BY <1>1 DEF AuditInit, PointsBack, SessionsFit, Resting
  <1>4. LastsExist /\ OneAtATime
    BY <1>1 DEF LastsExist, IsLastBefore, OneAtATime, Verifies, GENESIS_HASH
  <1> QED BY <1>2, <1>3, <1>4 DEF AuditInv

LEMMA AuditInvNext == AuditInv /\ [AuditNext]_auditVars => AuditInv'
  <1> SUFFICES ASSUME AuditInv, [AuditNext]_auditVars PROVE AuditInv'
    OBVIOUS
  <1>1. /\ AuditTypeOK /\ PointsBack /\ SessionsFit /\ LastsExist /\ LastsExist' /\ Grows
        /\ Len(auditLog) \in Nat /\ Committed \subseteq 1 .. Len(auditLog)
        /\ {GENESIS_HASH} \cup Committed \subseteq 0 .. Len(auditLog)
        /\ Running \subseteq Appenders
    BY LogStep, LastsStayFound, LogIsASequence DEF AuditInv, Running
  <1>2. ASSUME NEW a \in Appenders, SelectLatest(a) PROVE AuditInv'
    <2>1. PICK s \in Nat : s = Latest
      <3>1. Latest \in {GENESIS_HASH} \cup Committed
        BY <1>1, LatestIsLast
      <3> QED BY <1>1, <3>1
    <2> DEFINE session == [phase |-> IF s = GENESIS_HASH THEN "chosen" ELSE "waiting",
                           seen |-> s, own |-> 0]
    <2>2. /\ appender' = [appender EXCEPT ![a] = session]
          /\ auditLog' = auditLog
          /\ overlapped' = (overlapped \/ Running # {})
      BY <1>2, <2>1 DEF SelectLatest
    <2>3. /\ session \in [phase : {"idle", "waiting", "chosen", "inserted"}, seen : Nat, own : Nat]
          /\ session.phase \in {"waiting", "chosen"} /\ session.seen = s
      BY <2>1
    <2> HIDE DEF session
    <2>4. \A b \in Appenders : appender'[b] = IF b = a THEN session ELSE appender[b]
      BY <1>1, <2>2 DEF AuditTypeOK
    <2>5. AuditTypeOK'
      BY <1>1, <2>2, <2>3 DEF AuditTypeOK
    <2>6. Committed' = Committed
      BY <2>2 DEF Committed
    <2>7. PointsBack'
      BY <1>1, <2>2, <2>6 DEF PointsBack
    <2>8. Running' = Running \cup {a}
      BY <1>2, <2>3, <2>4 DEF Running
    <2>9. SessionsFit'
      BY <1>1, <2>1, <2>2, <2>3, <2>4, <2>6, <2>8, LatestIsLast DEF SessionsFit, Running
    <2>10. ASSUME ~overlapped' PROVE OneAtATime'
      <3>1. Running' = {a} /\ ~overlapped
        BY <2>2, <2>8, <2>10
      <3>2. Verifies(Committed)'
        BY <2>2, <2>6, <3>1 DEF AuditInv, OneAtATime, Verifies
      <3>3. \A m \in Committed : m <= s
        BY <1>1, <2>1, LatestIsLast
      <3> QED BY <2>3, <2>4, <2>6, <3>1, <3>2, <3>3 DEF OneAtATime
    <2> QED BY <1>1, <2>5, <2>7, <2>9, <2>10 DEF AuditInv
  <1>3. ASSUME NEW a \in Appenders, LockRow(a) PROVE AuditInv'
    <2> DEFINE session == [appender[a] EXCEPT !.phase = "chosen"]
    <2>1. /\ appender' = [appender EXCEPT ![a] = session]
          /\ appender[a].phase = "waiting"
          /\ auditLog' = auditLog /\ overlapped' = overlapped
      BY <1>1, <1>3 DEF LockRow, AuditTypeOK
    <2>2. /\ session \in [phase : {"idle", "waiting", "chosen", "inserted"}, seen : Nat, own : Nat]
          /\ session.phase = "chosen" /\ session.seen = appender[a].seen
      BY <1>1 DEF AuditTypeOK
    <2> HIDE DEF session
    <2>3. \A b \in Appenders : appender'[b] = IF b = a THEN session ELSE appender[b]
      BY <1>1, <2>1 DEF AuditTypeOK
    <2>4. AuditTypeOK'
      BY <1>1, <2>1, <2>2 DEF AuditTypeOK
    <2>5. Committed' = Committed
      BY <2>1 DEF Committed
    <2>6. PointsBack'
      BY <1>1, <2>1, <2>5 DEF PointsBack
    <2>7. Running' = Running /\ a \in Running
      BY <2>1, <2>2, <2>3 DEF Running
    <2>8. SessionsFit'
      BY <1>1, <2>1, <2>2, <2>3, <2>5, <2>7 DEF SessionsFit, Running
    <2>9. OneAtATime => OneAtATime'
      BY <2>1, <2>2, <2>3, <2>5, <2>7 DEF OneAtATime, Verifies, Running
    <2> QED BY <1>1, <2>1, <2>4, <2>6, <2>8, <2>9 DEF AuditInv
  <1>4. ASSUME NEW a \in Appenders, InsertRow(a) PROVE AuditInv'
    <2> DEFINE session == [phase |-> "inserted", seen |-> appender[a].seen,
                           own |-> Len(auditLog) + 1]
    <2>1. /\ appender' = [appender EXCEPT ![a] = session]
          /\ appender[a].phase = "chosen" /\ overlapped' = overlapped
      BY <1>1, <1>4 DEF InsertRow, AuditTypeOK
    <2>2. /\ session \in [phase : {"idle", "waiting", "chosen", "inserted"}, seen : Nat, own : Nat]
          /\ session.phase = "inserted" /\ session.seen = appender[a].seen
          /\ session.own = Len(auditLog) + 1
      BY <1>1 DEF AuditTypeOK
    <2> HIDE DEF session
    <2>3. \A b \in Appenders : appender'[b] = IF b = a THEN session ELSE appender[b]
      BY <1>1, <2>1 DEF AuditTypeOK
    <2>4. /\ auditLog' \in Seq(Row) /\ Len(auditLog') = Len(auditLog) + 1
          /\ \A n \in 1 .. Len(auditLog) : auditLog'[n] = auditLog[n]
          /\ auditLog'[Len(auditLog) + 1].prev = appender[a].seen
          /\ auditLog'[Len(auditLog) + 1].state = "open"
          /\ Committed' = Committed
      BY <1>4, InsertStep
    <2>5. AuditTypeOK'
      BY <1>1, <2>1, <2>2, <2>4 DEF AuditTypeOK, Row
    <2>6. Running' = Running /\ a \in Running
      BY <2>1, <2>2, <2>3 DEF Running
    <2>7. appender[a].seen \in {GENESIS_HASH} \cup Committed /\ appender[a].seen < Len(auditLog) + 1
      <3>1. appender[a].seen \in {GENESIS_HASH} \cup Committed
        BY <1>1, <2>6 DEF SessionsFit
      <3>2. appender[a].seen \in 0 .. Len(auditLog)
        BY <1>1, <3>1
      <3> QED BY <1>1, <3>1, <3>2
    <2>8. Len(auditLog) \in Nat
      BY <1>1
    <2>9. PointsBack'
      <3>1. ASSUME NEW n \in 1 .. Len(auditLog) + 1
            PROVE  auditLog'[n].prev \in {GENESIS_HASH} \cup Committed /\ auditLog'[n].prev < n
        <4>1. CASE n \in 1 .. Len(auditLog)
          BY <1>1, <2>4, <2>8, <4>1 DEF PointsBack
        <4>2. CASE n = Len(auditLog) + 1
          BY <2>4, <2>7, <4>2
        <4> QED BY <2>8, <4>1, <4>2
      <3> QED BY <2>4, <3>1 DEF PointsBack
    <2>10. SessionsFit'
      <3>1. \A b \in Running' : appender'[b].seen \in {GENESIS_HASH} \cup Committed
        BY <1>1, <2>2, <2>3, <2>6 DEF SessionsFit, Running
      <3>2. \A b \in Appenders : b # a /\ appender'[b].phase = "inserted" =>
                appender'[b].own \in 1 .. Len(auditLog) /\ auditLog[appender'[b].own].state = "open"
        BY <1>1, <2>3, <2>8 DEF SessionsFit
      <3>3. \A b \in Appenders : appender'[b].phase = "inserted" =>
                appender'[b].own \in 1 .. Len(auditLog) + 1 /\ auditLog'[appender'[b].own].state = "open"
        BY <2>2, <2>3, <2>4, <2>8, <3>2
      <3>4. \A b, c \in Appenders :
                appender'[b].phase = "inserted" /\ appender'[c].phase = "inserted"
                    /\ appender'[b].own = appender'[c].own => b = c
        <4>1. \A b \in Appenders : b # a /\ appender'[b].phase = "inserted" =>
                  appender'[b].own # Len(auditLog) + 1
          BY <2>8, <3>2
        <4> QED BY <1>1, <2>2, <2>3, <4>1 DEF SessionsFit
      <3> QED BY <2>4, <3>1, <3>3, <3>4 DEF SessionsFit
    <2>11. ASSUME OneAtATime PROVE OneAtATime'
      <3>1. Verifies(Committed)'
        BY <1>1, <2>4, <2>8, <2>11 DEF OneAtATime, Verifies
      <3>2. \A b \in Running : b = a
        BY <2>6, <2>11 DEF OneAtATime
      <3> QED BY <2>2, <2>3, <2>4, <2>6, <2>11, <3>1, <3>2 DEF OneAtATime
    <2> QED BY <1>1, <2>1, <2>5, <2>9, <2>10, <2>11 DEF AuditInv
  <1>5. ASSUME NEW a \in Appenders, appender' = [appender EXCEPT ![a] = Resting],
               overlapped' = overlapped, appender[a].phase # "idle",
               \/ auditLog' = auditLog
               \/ \E end \in {"committed", "void"} :
                      /\ appender[a].phase = "inserted"
                      /\ auditLog' = [auditLog EXCEPT ![appender[a].own].state = end]
        PROVE AuditInv'
    <2>0. a \in Running
      BY <1>5 DEF Running
    <2>1. /\ Resting \in [phase : {"idle", "waiting", "chosen", "inserted"}, seen : Nat, own : Nat]
          /\ Resting.phase = "idle"
      BY DEF Resting, GENESIS_HASH
    <2>2. \A b \in Appenders : appender'[b] = IF b = a THEN Resting ELSE appender[b]
      BY <1>1, <1>5 DEF AuditTypeOK
    <2>3. Running' = Running \ {a}
      BY <2>1, <2>2 DEF Running
    <2>4. OneAtATime /\ a \in Running => Running' = {}
      BY <2>3 DEF OneAtATime
    <2>5. CASE auditLog' = auditLog
      <3>1. AuditTypeOK' /\ Committed' = Committed
        BY <1>1, <1>5, <2>1, <2>5 DEF AuditTypeOK, Committed
      <3>2. PointsBack' /\ SessionsFit'
        <4>1. PointsBack'
          BY <1>1, <2>5, <3>1 DEF PointsBack
        <4>2. \A b \in Running' : appender'[b].seen \in {GENESIS_HASH} \cup Committed
          BY <1>1, <2>2, <2>3 DEF SessionsFit
        <4>3. \A b \in Appenders : appender'[b].phase = "inserted" =>
                  b # a /\ appender'[b] = appender[b]
          BY <2>1, <2>2
        <4>4. SessionsFit'
          BY <1>1, <2>5, <3>1, <4>2, <4>3 DEF SessionsFit
        <4> QED BY <4>1, <4>4
      <3>3. OneAtATime => OneAtATime'
        BY <2>0, <2>4, <2>5, <3>1 DEF OneAtATime, Verifies
      <3> QED BY <1>1, <1>5, <3>1, <3>2, <3>3 DEF AuditInv
    <2>6. ASSUME NEW end \in {"committed", "void"}, appender[a].phase = "inserted",
                 auditLog' = [auditLog EXCEPT ![appender[a].own].state = end]
          PROVE  AuditInv'
      <3>1. PICK r \in 1 .. Len(auditLog) : r = appender[a].own /\ auditLog[r].state = "open"
        BY <1>1, <2>6 DEF SessionsFit
      <3>2. auditLog' = [auditLog EXCEPT ![r].state = end]
        BY <2>6, <3>1
      <3>3. /\ auditLog' \in Seq(Row) /\ Len(auditLog') = Len(auditLog)
            /\ \A n \in 1 .. Len(auditLog) :
                   /\ auditLog'[n].prev = auditLog[n].prev
                   /\ auditLog'[n].state = IF n = r THEN end ELSE auditLog[n].state
            /\ Committed' = IF end = "committed" THEN Committed \cup {r} ELSE Committed
            /\ r \notin Committed
        BY <1>1, <3>1, <3>2, EndOfRow
      <3>4. AuditTypeOK'
        BY <1>1, <1>5, <2>1, <3>3 DEF AuditTypeOK, Row
      <3>5. PointsBack'
        BY <1>1, <3>3 DEF PointsBack
      <3>6. \A b \in Appenders : b # a /\ appender[b].phase = "inserted" => appender[b].own # r
        BY <1>1, <2>6, <3>1 DEF SessionsFit
      <3>7. SessionsFit'
        <4>1. \A b \in Running' : appender'[b].seen \in {GENESIS_HASH} \cup Committed'
          <5>1. \A b \in Running' : b \in Running /\ b \in Appenders /\ b # a
            BY <1>1, <2>3
          <5>2. Committed \subseteq Committed'
            BY <3>3
          <5> QED BY <1>1, <2>2, <5>1, <5>2 DEF SessionsFit
        <4>2. \A b \in Appenders : appender'[b].phase = "inserted" =>
                  b # a /\ appender'[b] = appender[b]
          BY <2>1, <2>2
        <4>3. \A b \in Appenders : appender'[b].phase = "inserted" =>
                  /\ appender'[b].own \in 1 .. Len(auditLog)
                  /\ auditLog'[appender'[b].own].state = "open"
          BY <1>1, <3>3, <3>6, <4>2 DEF SessionsFit
        <4> QED BY <1>1, <3>3, <4>1, <4>2, <4>3 DEF SessionsFit
      <3>8. ASSUME OneAtATime PROVE OneAtATime'
        <4>1. CASE end = "void"
          <5>1. Verifies(Committed)'
            BY <1>1, <3>3, <3>8, <4>1 DEF OneAtATime, Verifies
          <5> QED BY <2>0, <2>4, <3>8, <5>1 DEF OneAtATime
        <4>2. CASE end = "committed"
          <5>1. /\ r = Len(auditLog) /\ auditLog[r].prev = appender[a].seen
                /\ \A m \in Committed : m <= appender[a].seen
                /\ appender[a].seen \in {GENESIS_HASH} \cup Committed
            BY <1>1, <2>6, <3>1, <3>8 DEF OneAtATime, SessionsFit, Running
          <5>2. ASSUME NEW n \in Committed
                PROVE  auditLog'[n].prev = LastHash({m \in Committed' : m < n})
            <6>1. {m \in Committed' : m < n} = {m \in Committed : m < n}
              BY <1>1, <3>3, <4>2, <5>1
            <6>2. auditLog[n].prev = LastHash({m \in Committed : m < n})
              BY <3>8 DEF OneAtATime, Verifies
            <6> QED BY <1>1, <3>3, <6>1, <6>2
          <5>3. auditLog'[r].prev = LastHash({m \in Committed' : m < r})
            <6>1. {m \in Committed' : m < r} = Committed
              <7>1. \A m \in Committed : m < r
                BY <1>1, <3>3, <5>1
              <7>2. Committed' = Committed \cup {r} /\ ~(r < r)
                BY <1>1, <3>3, <4>2, <5>1
              <7> QED BY <7>1, <7>2
            <6>2. LastHash(Committed) = appender[a].seen
              <7>1. Committed \in SUBSET Nat
                BY <1>1
              <7> QED BY <5>1, <7>1, LastHashIs
            <6> QED BY <3>3, <5>1, <6>1, <6>2
          <5>4. Verifies(Committed)'
            BY <3>3, <4>2, <5>2, <5>3 DEF Verifies
          <5> QED BY <2>0, <2>4, <3>8, <5>4 DEF OneAtATime
        <4> QED BY <4>1, <4>2
      <3> QED BY <1>1, <1>5, <3>4, <3>5, <3>7, <3>8 DEF AuditInv
    <2> QED BY <1>5, <2>5, <2>6
  <1>6. ASSUME NEW a \in Appenders, CommitRow(a) \/ AbortAppend(a) PROVE AuditInv'
    BY <1>5, <1>6 DEF CommitRow, AbortAppend
  <1>7. CASE UNCHANGED auditVars
    BY <1>7 DEF auditVars, AuditInv, AuditTypeOK, PointsBack, SessionsFit, LastsExist,
                IsLastBefore, OneAtATime, Verifies, Committed, Running
  <1> QED BY <1>2, <1>3, <1>4, <1>6, <1>7 DEF AuditNext

\* The inductive invariant of the audit chain.
THEOREM AuditInvariant == AuditSpec => []AuditInv
  BY AuditInvInit, AuditInvNext, PTL DEF AuditSpec

\* For any sessions and any number of rows: only overlapping appends break a chain.
THEOREM ChainsVerify == AuditSpec => []VerifiesUnlessOverlapped
  <1>1. AuditInv => VerifiesUnlessOverlapped
    BY DEF AuditInv, OneAtATime, VerifiesUnlessOverlapped
  <1> QED BY <1>1, AuditInvariant, PTL

\* For any sessions and any number of rows: a broken chain stays broken.
THEOREM BrokenChainsStay == AuditSpec => BrokenForGood
  <1>1. AuditInv /\ [AuditNext]_auditVars => [~Verifies(Committed) => ~Verifies(Committed)']_auditVars
    BY LogStep, BrokenStays
  <1> QED BY <1>1, AuditInvariant, PTL DEF AuditSpec, BrokenForGood
=============================================================================
