----------------------------- MODULE Settlement -----------------------------
(***************************************************************************)
(* Settlements of overdue loans: offered, accepted or rejected, authorized *)
(* by a human when the amount is over the threshold, disbursed.  Every     *)
(* operation of the service reads the row, compares its status, and writes *)
(* with an UPDATE that does not look at the status again.                  *)
(***************************************************************************)
EXTENDS Integers

CONSTANTS Settlements,
          OverThreshold,   \* those that need human authorization
          Clerks,          \* requests that run at the same time
          NoOne

ASSUME SettlementAssumption ==
    Settlements # {} /\ OverThreshold \subseteq Settlements /\ NoOne \notin Clerks

VARIABLES offer,           \* status of each settlement
          approvedBy,      \* its recorded approver
          disbursed,       \* saas.settlement.disbursed events published
          clerk,           \* the request of each clerk
          writtenStale     \* history: a status was overwritten that the writer had not read

settlementVars == <<offer, approvedBy, disbursed, clerk, writtenStale>>

Status == {"NONE", "PROPOSED", "ACCEPTED", "REJECTED", "PAID"}

\* An operation, the status it requires and the status it writes.
Requests == {"accept", "reject", "authorize", "disburse", "approve_and_disburse"}
Requires(op) == IF op \in {"accept", "reject"} THEN "PROPOSED" ELSE "ACCEPTED"
Outcome(op) == CASE op = "accept" -> "ACCEPTED" [] op = "reject" -> "REJECTED" [] OTHER -> "PAID"

NoRequest == [step |-> "idle", op |-> "accept", of |-> CHOOSE s \in Settlements : TRUE]

SettlementTypeOK ==
    /\ offer \in [Settlements -> Status]
    /\ approvedBy \in [Settlements -> Clerks \cup {NoOne}]
    /\ disbursed \in [Settlements -> Nat]
    /\ clerk \in [Clerks -> [step : {"idle", "approval", "reread", "record", "write", "publish"},
                             op : Requests, of : Settlements]]
    /\ writtenStale \subseteq Settlements

SettlementInit ==
    /\ offer = [s \in Settlements |-> "NONE"]
    /\ approvedBy = [s \in Settlements |-> NoOne]
    /\ disbursed = [s \in Settlements |-> 0]
    /\ clerk = [c \in Clerks |-> NoRequest]
    /\ writtenStale = {}

\* offer()
Propose(s) ==
    /\ offer[s] = "NONE"
    /\ offer' = [offer EXCEPT ![s] = "PROPOSED"]
    /\ UNCHANGED <<approvedBy, disbursed, clerk, writtenStale>>

\* _require() and _require_status() at the start of every operation.
ReadSettlement(c, s, op) ==
    /\ clerk[c].step = "idle" /\ offer[s] = Requires(op)
    /\ clerk' = [clerk EXCEPT ![c] =
           [step |-> CASE op = "authorize" -> "record"
                       [] op \in {"disburse", "approve_and_disburse"} /\ s \in OverThreshold
                              -> "approval"
                       [] OTHER -> "write",
            op |-> op, of |-> s]]
    /\ UNCHANGED <<offer, approvedBy, disbursed, writtenStale>>

\* get_approved_by(): without an approver the request must carry one, else it raises.
\* Mutant: the approver of the request is taken as approval and never recorded.
CheckApprovalOnly(c) ==
    /\ clerk[c].step = "approval"
    /\ clerk' = [clerk EXCEPT ![c].step =
           IF approvedBy[clerk[c].of] # NoOne \/ clerk[c].op = "approve_and_disburse"
           THEN "write" ELSE "idle"]
    /\ UNCHANGED <<offer, approvedBy, disbursed, writtenStale>>

CheckApproval(c) ==
    /\ clerk[c].step = "approval"
    /\ clerk' = [clerk EXCEPT ![c].step =
           IF approvedBy[clerk[c].of] # NoOne THEN "write"
           ELSE IF clerk[c].op = "approve_and_disburse" THEN "reread" ELSE "idle"]
    /\ UNCHANGED <<offer, approvedBy, disbursed, writtenStale>>

\* authorize() called by disburse() reads the row and compares its status again.
RereadForApproval(c) ==
    /\ clerk[c].step = "reread"
    /\ clerk' = [clerk EXCEPT ![c].step =
           IF offer[clerk[c].of] = "ACCEPTED" THEN "record" ELSE "idle"]
    /\ UNCHANGED <<offer, approvedBy, disbursed, writtenStale>>

\* record_authorization()
RecordApproval(c) ==
    /\ clerk[c].step = "record"
    /\ approvedBy' = [approvedBy EXCEPT ![clerk[c].of] = c]
    /\ clerk' = [clerk EXCEPT ![c].step =
           IF clerk[c].op = "authorize" THEN "idle" ELSE "write"]
    /\ UNCHANGED <<offer, disbursed, writtenStale>>

\* update_status().  The events of offer, acceptance and authorization are left out.
WriteOffer(c) ==
    LET s == clerk[c].of  op == clerk[c].op IN
    /\ clerk[c].step = "write"
    /\ offer' = [offer EXCEPT ![s] = Outcome(op)]
    /\ clerk' = [clerk EXCEPT ![c].step = IF Outcome(op) = "PAID" THEN "publish" ELSE "idle"]
    /\ writtenStale' = IF offer[s] = Requires(op) THEN writtenStale ELSE writtenStale \cup {s}
    /\ UNCHANGED <<approvedBy, disbursed>>

\* saas.settlement.disbursed, which releases the money.
\* Mutant: a publication that seems to fail is tried again.
PublishDisbursedAgain(c) ==
    /\ clerk[c].step = "publish" /\ disbursed[clerk[c].of] < 2
    /\ disbursed' = [disbursed EXCEPT ![clerk[c].of] = @ + 1]
    /\ \/ clerk' = [clerk EXCEPT ![c] = NoRequest]
       \/ UNCHANGED clerk
    /\ UNCHANGED <<offer, approvedBy, writtenStale>>

PublishDisbursed(c) ==
    /\ clerk[c].step = "publish"
    /\ disbursed' = [disbursed EXCEPT ![clerk[c].of] = @ + 1]
    /\ clerk' = [clerk EXCEPT ![c] = NoRequest]
    /\ UNCHANGED <<offer, approvedBy, writtenStale>>

\* A request fails or its process stops: what it wrote stays.
AbandonRequest(c) ==
    /\ clerk[c].step # "idle"
    /\ clerk' = [clerk EXCEPT ![c] = NoRequest]
    /\ UNCHANGED <<offer, approvedBy, disbursed, writtenStale>>

SettlementNext ==
    \/ \E s \in Settlements : Propose(s)
    \/ \E c \in Clerks :
          \/ \E s \in Settlements, op \in Requests : ReadSettlement(c, s, op)
          \/ CheckApproval(c) \/ RereadForApproval(c) \/ RecordApproval(c)
          \/ WriteOffer(c) \/ PublishDisbursed(c) \/ AbandonRequest(c)

SettlementSpec == SettlementInit /\ [][SettlementNext]_settlementVars

-----------------------------------------------------------------------------
\* Money over the threshold is never released without a recorded approver,
\* however accept, reject, authorize and disburse interleave and fail.
PaidWasApproved ==
    \A s \in OverThreshold :
        offer[s] = "PAID" \/ disbursed[s] > 0 => approvedBy[s] # NoOne

\* Money is released at most once, and only for a settlement that stays PAID,
\* unless two requests overlapped so that one wrote over a status it had not read.
OneDisbursementUnlessStale ==
    \A s \in Settlements \ writtenStale :
        disbursed[s] <= (IF offer[s] = "PAID" THEN 1 ELSE 0)

\* Both: what was paid out was approved, and paid once for a row that says so.
DisbursedProperly == PaidWasApproved /\ OneDisbursementUnlessStale
=============================================================================
