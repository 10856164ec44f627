--------------------------- MODULE WebhookDispatch ---------------------------
(***************************************************************************)
(* Dispatch of domain events to the webhooks of a tenant: for each active  *)
(* registration dispatch() claims the key of (webhook, event), delivers    *)
(* with retries, and completes the key.  Consumers of the event bus hand   *)
(* over the same event again after a failure, or twice at once.  Events    *)
(* with equal payloads have equal keys and are one event here.             *)
(***************************************************************************)
EXTENDS Integers, FiniteSets

CONSTANTS Hooks,          \* active registrations of the event type
          DomainEvents,   \* payloads
          Dispatchers,    \* consumer processes
          MAX_ATTEMPTS,
          MaxHandled      \* bound on the deliveries of one event by the bus

ASSUME WebhookAssumption ==
    /\ Hooks # {} /\ DomainEvents # {}
    /\ MAX_ATTEMPTS \in Nat \ {0} /\ MaxHandled \in Nat

VARIABLES claimedKeys,    \* keys in idempotency_keys
          completedKeys,  \* keys with a result
          accepted,       \* POSTs the receiver has processed, by key
          deadLettered,   \* keys in webhook_dead_letter_queue
          summaries,      \* rows of webhook_deliveries: key and status
          dispatcher,     \* the call of dispatch() of each consumer
          handled,        \* how often the bus handed over each event
          unrecorded,     \* history: keys of 2xx answers whose rows were not written
          unanswered      \* history: keys of processed POSTs without a 2xx answer

webhookVars == <<claimedKeys, completedKeys, accepted, deadLettered, summaries,
                 dispatcher, handled, unrecorded, unanswered>>

Keys == Hooks \X DomainEvents
Steps == {"free", "next", "post", "answered", "logged", "failed", "exhausted",
          "parked", "delivered"}

NoDispatch == [step |-> "free", key |-> CHOOSE k \in Keys : TRUE, left |-> {}, attempt |-> 1]

WebhookTypeOK ==
    /\ claimedKeys \subseteq Keys
    /\ completedKeys \subseteq Keys
    /\ accepted \in [Keys -> Nat]
    /\ deadLettered \subseteq Keys
    /\ summaries \subseteq Keys \X {"DELIVERED", "DLQ"}
    /\ dispatcher \in [Dispatchers ->
           [step : Steps, key : Keys, left : SUBSET Hooks, attempt : 1 .. MAX_ATTEMPTS]]
    /\ handled \in [DomainEvents -> Nat]
    /\ unrecorded \subseteq Keys /\ unanswered \subseteq Keys

WebhookInit ==
    /\ claimedKeys = {} /\ completedKeys = {} /\ deadLettered = {}
    /\ summaries = {} /\ unrecorded = {} /\ unanswered = {}
    /\ accepted = [k \in Keys |-> 0]
    /\ dispatcher = [d \in Dispatchers |-> NoDispatch]
    /\ handled = [e \in DomainEvents |-> 0]

stores == <<claimedKeys, completedKeys, accepted, deadLettered, summaries, unrecorded,
            unanswered>>

At(d, step) == dispatcher[d].step = step
Move(d, step) == dispatcher' = [dispatcher EXCEPT ![d].step = step]

\* The handler of a consumer: dispatch() looks up the active registrations.
Handle(d, e) ==
    /\ At(d, "free") /\ handled[e] < MaxHandled
    /\ handled' = [handled EXCEPT ![e] = @ + 1]
    /\ dispatcher' = [dispatcher EXCEPT ![d] =
           [step |-> "next", key |-> <<NoDispatch.key[1], e>>, left |-> Hooks, attempt |-> 1]]
    /\ UNCHANGED stores

\* claim(): INSERT ... ON CONFLICT DO NOTHING, whatever became of the first claim.
\* Mutant: a claim without a result can be taken over.
TakenWhenCompleted(key) == key \in completedKeys

\* Mutant: no idempotency repository is wired.
TakenNever(key) == FALSE

Taken(key) == key \in claimedKeys

ClaimKey(d) ==
    /\ At(d, "next")
    /\ \E h \in dispatcher[d].left :
          LET key == <<h, dispatcher[d].key[2]>> IN
          /\ dispatcher' = [dispatcher EXCEPT ![d] =
                 [step |-> IF Taken(key) THEN "next" ELSE "post",
                  key |-> key, left |-> dispatcher[d].left \ {h}, attempt |-> 1]]
          /\ claimedKeys' = claimedKeys \cup {key}
    /\ UNCHANGED <<completedKeys, accepted, deadLettered, summaries, handled, unrecorded,
                   unanswered>>

EndDispatch(d) ==
    /\ At(d, "next") /\ dispatcher[d].left = {}
    /\ dispatcher' = [dispatcher EXCEPT ![d] = NoDispatch]
    /\ UNCHANGED <<stores, handled>>

\* http.post(): a 2xx answer of a receiver that processed the POST, or a failed
\* attempt: another answer, an exception or the timeout, whether or not the
\* receiver processed it first.
Processed(key) == accepted' = [accepted EXCEPT ![key] = @ + 1]

Post(d) ==
    LET key == dispatcher[d].key IN
    /\ At(d, "post")
    /\ \/ Move(d, "answered") /\ Processed(key) /\ UNCHANGED unanswered
       \/ Move(d, "failed") /\ Processed(key) /\ unanswered' = unanswered \cup {key}
       \/ Move(d, "failed") /\ UNCHANGED <<accepted, unanswered>>
    /\ UNCHANGED <<claimedKeys, completedKeys, deadLettered, summaries, handled, unrecorded>>

\* The rows of an accepted POST are written inside the try block: a repository
\* that raises makes the attempt count as failed.
RecordAcceptance(d) ==
    /\ \/ At(d, "answered") /\ Move(d, "logged") /\ UNCHANGED summaries
       \/ /\ At(d, "logged") /\ Move(d, "delivered")
          /\ summaries' = summaries \cup {<<dispatcher[d].key, "DELIVERED">>}
    /\ UNCHANGED <<claimedKeys, completedKeys, accepted, deadLettered, handled, unrecorded,
                   unanswered>>

\* Mutant: errors of the repository are swallowed.
RecordingSwallowed(d) ==
    /\ At(d, "answered") \/ At(d, "logged")
    /\ Move(d, "delivered")
    /\ unrecorded' = unrecorded \cup {dispatcher[d].key}
    /\ UNCHANGED <<claimedKeys, completedKeys, accepted, deadLettered, summaries, handled,
                   unanswered>>

RecordingRaises(d) ==
    /\ At(d, "answered") \/ At(d, "logged")
    /\ Move(d, "failed")
    /\ unrecorded' = unrecorded \cup {dispatcher[d].key}
    /\ UNCHANGED <<claimedKeys, completedKeys, accepted, deadLettered, summaries, handled,
                   unanswered>>

\* The row of a failed attempt, then the next attempt or the end of the loop.
RecordFailure(d) ==
    /\ At(d, "failed")
    /\ IF dispatcher[d].attempt < MAX_ATTEMPTS
       THEN dispatcher' = [dispatcher EXCEPT ![d] =
                [step |-> "post", key |-> dispatcher[d].key, left |-> dispatcher[d].left,
                 attempt |-> dispatcher[d].attempt + 1]]
       ELSE Move(d, "exhausted")
    /\ UNCHANGED <<stores, handled>>

\* The dead-letter row, then the summary row.
DeadLetter(d) ==
    /\ \/ /\ At(d, "exhausted") /\ Move(d, "parked")
          /\ deadLettered' = deadLettered \cup {dispatcher[d].key}
          /\ UNCHANGED summaries
       \/ /\ At(d, "parked") /\ Move(d, "delivered")
          /\ summaries' = summaries \cup {<<dispatcher[d].key, "DLQ">>}
          /\ UNCHANGED deadLettered
    /\ UNCHANGED <<claimedKeys, completedKeys, accepted, handled, unrecorded,
                   unanswered>>

\* complete(), after deliver() returned.
CompleteKey(d) ==
    /\ At(d, "delivered")
    /\ Move(d, "next")
    /\ completedKeys' = completedKeys \cup {dispatcher[d].key}
    /\ UNCHANGED <<claimedKeys, accepted, deadLettered, summaries, handled, unrecorded,
                   unanswered>>

\* The process stops, or a repository raises outside the try block: the bus may
\* hand over the event again.
StopDispatch(d) ==
    /\ ~At(d, "free")
    /\ dispatcher' = [dispatcher EXCEPT ![d] = NoDispatch]
    /\ UNCHANGED <<stores, handled>>

WebhookNext == \E d \in Dispatchers :
    \/ \E e \in DomainEvents : Handle(d, e)
    \/ ClaimKey(d) \/ EndDispatch(d) \/ Post(d)
    \/ RecordAcceptance(d) \/ RecordingRaises(d) \/ RecordFailure(d)
    \/ DeadLetter(d) \/ CompleteKey(d) \/ StopDispatch(d)

WebhookSpec == WebhookInit /\ [][WebhookNext]_webhookVars

-----------------------------------------------------------------------------
\* The steps in which a dispatcher works on the key it claimed.
Working(d) == dispatcher[d].step \notin {"free", "next"}
InHand(k) == \E d \in Dispatchers : Working(d) /\ dispatcher[d].key = k

\* A key that was claimed and let go without a result.
LetGo(k) == k \in claimedKeys \ completedKeys /\ ~InHand(k)

\* A POST that was processed although deliver() took it for a failed attempt: its
\* answer was lost, late or not a 2xx, or the rows of its 2xx could not be written.
Miscounted == unrecorded \cup unanswered

\* The receiver gets an event twice, or gets an event that is also dead-lettered,
\* only after a POST of it was miscounted, and never more than MAX_ATTEMPTS times:
\* neither redelivery by the bus nor several consumers add to that.
RepeatsAreMiscounted ==
    \A k \in Keys : /\ accepted[k] > 1 => k \in Miscounted
                    /\ accepted[k] > 0 /\ k \in deadLettered => k \in Miscounted
                    /\ accepted[k] <= MAX_ATTEMPTS

\* A completed key has an outcome somebody can find: an accepted POST or an entry
\* of the dead-letter queue, over every failure of the stores in between.
CompletedHasOutcome ==
    \A k \in completedKeys : (accepted[k] > 0 /\ <<k, "DELIVERED">> \in summaries)
                             \/ k \in deadLettered

\* Both: what the receiver gets too often, too rarely or in spite of a dead letter
\* is due to a miscounted POST or found in the tables.
DeliveriesAreAccounted == RepeatsAreMiscounted /\ CompletedHasOutcome

\* A key let go by a dispatcher that stopped is never taken up again: the event is
\* handed over again, skipped, and neither sent nor dead-lettered.
LetGoForEver ==
    [][\A k \in Keys : LetGo(k) => /\ LetGo(k)'
                                   /\ accepted'[k] = accepted[k]
                                   /\ k \in deadLettered' => k \in deadLettered]_webhookVars

\* What was done for a key, and who is at it.
Done(k) == [accepted |-> accepted[k], parked |-> k \in deadLettered,
            rows |-> {r \in summaries : r[1] = k}, completed |-> k \in completedKeys]
Untouched == [accepted |-> 0, parked |-> FALSE, rows |-> {}, completed |-> FALSE]
AtWork == [k \in Keys |-> {d \in Dispatchers : Working(d) /\ dispatcher[d].key = k}]

\* The key of (webhook, event) is a claim: step by step, no redelivery, second
\* consumer, retry or stop lets two dispatchers at a key, and once a dispatcher has
\* let go of it nobody posts, dead-letters, records or completes anything for it.
KeyClaims == INSTANCE ClaimedWork WITH
    Keys <- Keys, Workers <- Dispatchers, Nothing <- Untouched,
    claimed <- claimedKeys, holder <- AtWork, work <- [k \in Keys |-> Done(k)]

ImplementsClaimedDispatch == KeyClaims!Spec
=============================================================================
