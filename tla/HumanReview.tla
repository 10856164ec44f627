---------------------------- MODULE HumanReview ----------------------------
(***************************************************************************)
(* The queue of decisions that need a human.  Supervisors take the next    *)
(* item (a read and an UPDATE), decide on items (a decision row, then an   *)
(* UPDATE), and one enforcer polls the open items for missed deadlines.    *)
(***************************************************************************)
EXTENDS Integers, FiniteSets

CONSTANTS Items,
          Turn,          \* [Items -> Nat]: order by priority, then by age
          Supervisors

ASSUME ReviewAssumption == Items # {} /\ Turn \in [Items -> Nat]

VARIABLES item,          \* status and sla_breached of each item
          decisions,     \* rows of hitl_decisions: item and supervisor
          takenBy,       \* supervisors to whom dequeue() returned the item
          supervisor,    \* the request of each supervisor
          poll,          \* the tick of the enforcer: items it read, item it marked
          breachEvents,  \* compliance.hitl.sla_breached events by item
          claimedLate    \* history: claims written to an item no longer PENDING

reviewVars == <<item, decisions, takenBy, supervisor, poll, breachEvents, claimedLate>>

Open == {"PENDING", "CLAIMED"}
AtRest == [step |-> "idle", on |-> CHOOSE i \in Items : TRUE]

ReviewTypeOK ==
    /\ item \in [Items -> [status : {"NONE", "RESOLVED"} \cup Open, breached : BOOLEAN]]
    /\ decisions \subseteq Items \X Supervisors
    /\ takenBy \in [Items -> SUBSET Supervisors]
    /\ supervisor \in [Supervisors -> [step : {"idle", "claim", "resolve"}, on : Items]]
    /\ poll \in [read : SUBSET Items, marked : SUBSET Items]
    /\ breachEvents \in [Items -> Nat]
    /\ claimedLate \subseteq Items

ReviewInit ==
    /\ item = [i \in Items |-> [status |-> "NONE", breached |-> FALSE]]
    /\ decisions = {}
    /\ takenBy = [i \in Items |-> {}]
    /\ supervisor = [s \in Supervisors |-> AtRest]
    /\ poll = [read |-> {}, marked |-> {}]
    /\ breachEvents = [i \in Items |-> 0]
    /\ claimedLate = {}

queueSide == <<decisions, takenBy, supervisor, claimedLate>>
slaSide == <<poll, breachEvents>>

\* Mutant: an escalation that is repeated sets its item back.
EnqueueAgain(i) ==
    /\ item' = [item EXCEPT ![i].status = "PENDING"]
    /\ UNCHANGED <<queueSide, slaSide>>

Enqueue(i) ==
    /\ item[i].status = "NONE"
    /\ item' = [item EXCEPT ![i].status = "PENDING"]
    /\ UNCHANGED <<queueSide, slaSide>>

\* dequeue(): find_pending() and the choice of the first.
FindNext(s) ==
    LET pending == {i \in Items : item[i].status = "PENDING"} IN
    /\ supervisor[s].step = "idle"
    /\ \E i \in pending :
          /\ \A j \in pending : Turn[i] <= Turn[j]
          /\ supervisor' = [supervisor EXCEPT ![s] = [step |-> "claim", on |-> i]]
    /\ UNCHANGED <<item, decisions, takenBy, claimedLate, slaSide>>

\* claim(): the UPDATE has no condition on the status, and the item is returned.
ClaimItem(s) ==
    LET i == supervisor[s].on IN
    /\ supervisor[s].step = "claim"
    /\ item' = [item EXCEPT ![i].status = "CLAIMED"]
    /\ takenBy' = [takenBy EXCEPT ![i] = @ \cup {s}]
    /\ claimedLate' = IF item[i].status = "PENDING" THEN claimedLate ELSE claimedLate \cup {i}
    /\ supervisor' = [supervisor EXCEPT ![s] = AtRest]
    /\ UNCHANGED <<decisions, slaSide>>

\* record_decision(): the decision row.  The endpoint takes any item that exists.
RecordDecision(s, i) ==
    /\ supervisor[s].step = "idle" /\ item[i].status # "NONE"
    /\ decisions' = decisions \cup {<<i, s>>}
    /\ supervisor' = [supervisor EXCEPT ![s] = [step |-> "resolve", on |-> i]]
    /\ UNCHANGED <<item, takenBy, claimedLate, slaSide>>

\* record_decision(): the item is resolved.
ResolveItem(s) ==
    /\ supervisor[s].step = "resolve"
    /\ item' = [item EXCEPT ![supervisor[s].on].status = "RESOLVED"]
    /\ supervisor' = [supervisor EXCEPT ![s] = AtRest]
    /\ UNCHANGED <<decisions, takenBy, claimedLate, slaSide>>

\* A request that fails between its two statements.
RequestFails(s) ==
    /\ supervisor[s].step # "idle"
    /\ supervisor' = [supervisor EXCEPT ![s] = AtRest]
    /\ UNCHANGED <<item, decisions, takenBy, claimedLate, slaSide>>

\* check_and_escalate(): the open items that are past their deadline and not yet
\* reported, as one SELECT saw them.
PollOpen ==
    /\ poll = [read |-> {}, marked |-> {}]
    /\ \E late \in SUBSET {i \in Items : item[i].status \in Open /\ ~item[i].breached} :
          late # {} /\ poll' = [read |-> late, marked |-> {}]
    /\ UNCHANGED <<item, queueSide, breachEvents>>

MarkBreached(i) ==
    /\ poll.marked = {} /\ i \in poll.read
    /\ item' = [item EXCEPT ![i].breached = TRUE]
    /\ poll' = [read |-> poll.read \ {i}, marked |-> {i}]
    /\ UNCHANGED <<queueSide, breachEvents>>

PublishBreach(i) ==
    /\ i \in poll.marked
    /\ breachEvents' = [breachEvents EXCEPT ![i] = @ + 1]
    /\ poll' = [poll EXCEPT !.marked = {}]
    /\ UNCHANGED <<item, queueSide>>

\* The enforcer raises or stops in the middle of a tick.
EnforcerStops ==
    /\ poll # [read |-> {}, marked |-> {}]
    /\ poll' = [read |-> {}, marked |-> {}]
    /\ UNCHANGED <<item, queueSide, breachEvents>>

ReviewNext ==
    \/ \E i \in Items : Enqueue(i) \/ MarkBreached(i) \/ PublishBreach(i)
    \/ PollOpen \/ EnforcerStops
    \/ \E s \in Supervisors :
          \/ FindNext(s) \/ ClaimItem(s) \/ ResolveItem(s) \/ RequestFails(s)
          \/ \E i \in Items : RecordDecision(s, i)

ReviewSpec == ReviewInit /\ [][ReviewNext]_reviewVars

-----------------------------------------------------------------------------
\* A missed deadline is reported at most once, over ticks that overlap claims and
\* decisions and over enforcers that stop between the flag and the event.
BreachReportedOnce == \A i \in Items : breachEvents[i] <= 1

\* An item is handed to one supervisor, and once it is resolved it stays resolved,
\* unless a claim was written on a queue read before somebody else took the item.
OneReviewerUnlessLate ==
    [][\A i \in Items : i \notin claimedLate' =>
           /\ Cardinality(takenBy'[i]) <= 1
           /\ (item[i].status = "RESOLVED" => item'[i].status = "RESOLVED")]_reviewVars
=============================================================================
