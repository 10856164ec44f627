---------------------------- MODULE EventDelivery ----------------------------
(***************************************************************************)
(* The event bus: EventBus.publish() appends an EventEnvelope to a Redis   *)
(* stream and Consumer.poll_once() delivers it to the handlers subscribed  *)
(* in a process of a consumer group: XREADGROUP, the deduplicator's SET NX,*)
(* the handlers in the order of their registration, retries, dead-letter   *)
(* stream, XACK.                                                           *)
(*                                                                         *)
(* Every Redis command and every handler call is a step.  A worker reads   *)
(* its batch once and then works through it alone; an exception outside    *)
(* the retry loop (an envelope that does not decode, a Redis error) leaves *)
(* poll_once() and start() with it, like a crash does, and the worker is   *)
(* down until somebody starts it again.  It then polls for new entries     *)
(* (">") and never for its old ones.                                       *)
(* The 24 hours a dedup key lives outlast a behaviour of the model.        *)
(***************************************************************************)
EXTENDS Naturals, Sequences

CONSTANTS
  Groups,        \* consumer groups of the stream
  Workers,       \* consumers
  GroupOf,       \* Workers -> Groups
  Events,        \* event_ids
  Undecodable,   \* those whose entry decode_envelope() does not accept
  NHandlers,     \* handlers subscribed to the events' type, in every worker
  MaxAttempts,   \* max_retries
  BatchSize,     \* count of XREADGROUP
  MaxEntries,    \* bound: entries of the stream
  MaxStops       \* bound: stops of workers

ASSUME DeliveryAssumption ==
  /\ GroupOf \in [Workers -> Groups]
  /\ Undecodable \subseteq Events
  /\ NHandlers \in Nat
  /\ MaxAttempts \in Nat \ {0}
  /\ BatchSize \in Nat \ {0}
  /\ MaxEntries \in Nat
  /\ MaxStops \in Nat

VARIABLES
  log,       \* the stream: event_ids in order, an entry's id is its position
  cursor,    \* Groups -> last entry delivered to the group
  pending,   \* Groups -> the group's pending-entries list
  seen,      \* event_ids the deduplicator has recorded
  dlq,       \* the dead-letter stream
  at,        \* Workers -> entry in process, the first of what is left of its batch
  last,      \* Workers -> last entry of its batch; at > last: the batch is done
  stage,     \* Workers -> what poll_once() does next with the entry
  attempt,   \* Workers -> attempt at the entry
  next,      \* Workers -> handler to call next in this attempt
  up,        \* the workers whose start() is running
  calls,     \* history: Events -> handler -> calls, in all workers
  handled,   \* history: <<group, event>> whose handlers all returned in a pass
  cut,       \* history: events whose worker stopped while at them
  stops      \* history: stops so far

stream == <<log, cursor, pending, seen, dlq>>
worker == <<at, last, stage, attempt, next, up>>
history == <<calls, handled, cut, stops>>
vars == <<stream, worker, history>>

Stages == {"dedup", "skip", "handle", "dead", "buried"}

DeliveryTypeOK ==
  /\ log \in Seq(Events)
  /\ cursor \in [Groups -> Nat]
  /\ pending \in [Groups -> SUBSET Nat]
  /\ seen \subseteq Events
  /\ dlq \in Seq(Events)
  /\ at \in [Workers -> Nat \ {0}] /\ last \in [Workers -> Nat]
  /\ stage \in [Workers -> Stages]
  /\ attempt \in [Workers -> 1..MaxAttempts]
  /\ next \in [Workers -> 1..NHandlers + 1]
  /\ up \subseteq Workers
  /\ calls \in [Events -> [1..NHandlers -> Nat]]
  /\ handled \subseteq Groups \X Events
  /\ cut \subseteq Events
  /\ stops \in Nat

Init ==
  /\ log = <<>>
  /\ cursor = [g \in Groups |-> 0]
  /\ pending = [g \in Groups |-> {}]
  /\ seen = {}
  /\ dlq = <<>>
  /\ at = [w \in Workers |-> 1] /\ last = [w \in Workers |-> 0]
  /\ stage = [w \in Workers |-> "dedup"]
  /\ attempt = [w \in Workers |-> 1]
  /\ next = [w \in Workers |-> 1]
  /\ up = Workers
  /\ calls = [e \in Events |-> [h \in 1..NHandlers |-> 0]]
  /\ handled = {}
  /\ cut = {}
  /\ stops = 0

Polling(w) == at[w] > last[w]
Ev(w) == log[at[w]]
In(w, s) == ~Polling(w) /\ stage[w] = s

-------------------------------------------------------------------------------
(* publish(): also of an envelope that was published before.               *)
Publish(e) ==
  /\ Len(log) < MaxEntries
  /\ log' = Append(log, e)
  /\ UNCHANGED <<cursor, pending, seen, dlq, worker, history>>

\* XREADGROUP ">": the entries after the group's cursor, as many as count.
ReadUpTo(g) ==
  IF Len(log) - cursor[g] > BatchSize THEN cursor[g] + BatchSize ELSE Len(log)

Fetch(w) ==
  LET g == GroupOf[w]
      upto == ReadUpTo(g)
  IN /\ cursor[g] < Len(log)
     /\ cursor' = [cursor EXCEPT ![g] = upto]
     /\ pending' = [pending EXCEPT ![g] = @ \cup (cursor[g] + 1 .. upto)]
     /\ at' = [at EXCEPT ![w] = cursor[g] + 1]
     /\ last' = [last EXCEPT ![w] = upto]
     /\ stage' = [stage EXCEPT ![w] = "dedup"]
     /\ UNCHANGED <<log, seen, dlq, attempt, next, history>>

\* poll_once() asks for new entries whatever is pending.
Read(w) ==
  /\ Polling(w)
  /\ Fetch(w)

\* A deduplicator that is read first and recorded after the handlers.
DedupWithoutRecord(w) ==
  /\ In(w, "dedup")
  /\ Ev(w) \notin Undecodable
  /\ stage' = [stage EXCEPT ![w] = IF Ev(w) \in seen THEN "skip" ELSE "handle"]
  /\ UNCHANGED <<stream, at, last, attempt, next, history>>

\* is_duplicate(): one SET NX under a key of the stream and the event_id.
Dedup(w) ==
  /\ In(w, "dedup")
  /\ Ev(w) \notin Undecodable
  /\ stage' = [stage EXCEPT ![w] = IF Ev(w) \in seen THEN "skip" ELSE "handle"]
  /\ seen' = seen \cup {Ev(w)}
  /\ UNCHANGED <<log, cursor, pending, dlq, at, last, attempt, next, history>>

\* A handler is called; it may have had its effect also when it raises.
Call(w) ==
  /\ In(w, "handle")
  /\ next[w] <= NHandlers
  /\ calls' = [calls EXCEPT ![Ev(w)][next[w]] = @ + 1]

HandlerReturns(w) ==
  /\ Call(w)
  /\ next' = [next EXCEPT ![w] = @ + 1]
  /\ UNCHANGED <<stream, at, last, stage, attempt, handled, cut, stops>>

\* The except branch: the next attempt starts over with the first handler.
Fail(w) ==
  /\ next' = [next EXCEPT ![w] = 1]
  /\ IF attempt[w] < MaxAttempts
     THEN attempt' = [attempt EXCEPT ![w] = @ + 1] /\ UNCHANGED stage
     ELSE stage' = [stage EXCEPT ![w] = "dead"] /\ UNCHANGED attempt

\* The exception of the last attempt leaves poll_once(): the worker drops what
\* is left of its batch.
HandlerRaisesOut(w) ==
  /\ Call(w)
  /\ IF attempt[w] < MaxAttempts
     THEN Fail(w) /\ UNCHANGED at
     ELSE at' = [at EXCEPT ![w] = last[w] + 1] /\ UNCHANGED <<stage, attempt, next>>
  /\ UNCHANGED <<stream, last, handled, cut, stops>>

HandlerRaises(w) ==
  /\ Call(w)
  /\ Fail(w)
  /\ UNCHANGED <<stream, at, last, handled, cut, stops>>

\* The worker is at the entry p, of which it knows nothing yet.
GoTo(w, p) ==
  /\ at' = [at EXCEPT ![w] = p]
  /\ stage' = [stage EXCEPT ![w] = "dedup"]
  /\ attempt' = [attempt EXCEPT ![w] = 1]
  /\ next' = [next EXCEPT ![w] = 1]

\* An acknowledgement that is cumulative, as a committed offset is.
AckUpTo(w) ==
  /\ pending' = [pending EXCEPT ![GroupOf[w]] = @ \ (1..at[w])]
  /\ GoTo(w, at[w] + 1)
  /\ UNCHANGED <<log, cursor, seen, last>>

\* XACK takes the entry off the list; the worker goes on to its next entry.
Ack(w) ==
  /\ pending' = [pending EXCEPT ![GroupOf[w]] = @ \ {at[w]}]
  /\ GoTo(w, at[w] + 1)
  /\ UNCHANGED <<log, cursor, seen, last>>

PassDone(w) == In(w, "handle") /\ next[w] = NHandlers + 1

AckHandled(w) ==
  /\ PassDone(w)
  /\ Ack(w)
  /\ handled' = handled \cup {<<GroupOf[w], Ev(w)>>}
  /\ UNCHANGED <<dlq, calls, cut, stops>>

\* The XACK stands inside the try: an error of it counts as a handler's,
\* also when only the reply was lost and the entry is off the list.
AckRaises(w, applied) ==
  /\ PassDone(w)
  /\ Fail(w)
  /\ pending' = IF applied THEN [pending EXCEPT ![GroupOf[w]] = @ \ {at[w]}] ELSE pending
  /\ handled' = handled \cup {<<GroupOf[w], Ev(w)>>}
  /\ UNCHANGED <<log, cursor, seen, dlq, at, last, calls, cut, stops>>

AckDuplicate(w) ==
  /\ In(w, "skip")
  /\ Ack(w)
  /\ UNCHANGED <<dlq, history>>

\* The entry is acknowledged without its dead letter.
BuryWithoutLetter(w) ==
  /\ In(w, "dead")
  /\ stage' = [stage EXCEPT ![w] = "buried"]
  /\ UNCHANGED <<stream, at, last, attempt, next, history>>

\* route_to_dlq(), then the XACK.
RouteToDLQ(w) ==
  /\ In(w, "dead")
  /\ dlq' = Append(dlq, Ev(w))
  /\ stage' = [stage EXCEPT ![w] = "buried"]
  /\ UNCHANGED <<log, cursor, pending, seen, at, last, attempt, next, history>>

AckBuried(w) ==
  /\ In(w, "buried")
  /\ Ack(w)
  /\ UNCHANGED <<dlq, history>>

\* start() ends with the worker's pass undone: what is left of its batch stays
\* on the pending-entries list of the group.
Leave(w) ==
  /\ w \in up
  /\ up' = up \ {w}
  /\ GoTo(w, last[w] + 1)
  /\ cut' = IF In(w, "handle") \/ In(w, "dead") THEN cut \cup {Ev(w)} ELSE cut
  /\ UNCHANGED <<stream, last, calls, handled>>

\* decode_envelope() raises before the entry can be handled or dead-lettered.
DecodeRaises(w) ==
  /\ In(w, "dedup")
  /\ Ev(w) \in Undecodable
  /\ Leave(w)
  /\ UNCHANGED stops

\* stop(), a crash, or a Redis error, at an entry or between two polls.
Stop(w) ==
  /\ stops < MaxStops
  /\ stops' = stops + 1
  /\ Leave(w)

\* Nothing in the code does this: an operator, or a supervisor of the process.
Restart(w) ==
  /\ w \notin up
  /\ up' = up \cup {w}
  /\ UNCHANGED <<stream, at, last, stage, attempt, next, history>>

-------------------------------------------------------------------------------
Pass(w) ==
  \/ Read(w) \/ Dedup(w)
  \/ HandlerReturns(w) \/ HandlerRaises(w)
  \/ AckHandled(w) \/ AckDuplicate(w)
  \/ \E applied \in BOOLEAN : AckRaises(w, applied)
  \/ RouteToDLQ(w) \/ AckBuried(w)

\* What the loop of start() does, while it runs.
Step(w) ==
  \/ w \in up /\ Pass(w) /\ UNCHANGED up
  \/ DecodeRaises(w)

Next ==
  \/ \E e \in Events : Publish(e)
  \/ \E w \in Workers : Step(w) \/ Stop(w) \/ Restart(w)

Spec == Init /\ [][Next]_vars

FairSpec == Spec /\ \A w \in Workers : WF_vars(Step(w))

-------------------------------------------------------------------------------
Active(w) == ~Polling(w) /\ stage[w] \in {"handle", "dead", "buried"}

(* However often an event is published, whichever groups and workers read  *)
(* it and stop at it, one worker at most is at its handlers, and a handler *)
(* is called at most max_retries times for it in all.                      *)
HandledByOne ==
  /\ \A v, w \in Workers : Active(v) /\ Active(w) /\ Ev(v) = Ev(w) => v = w
  /\ \A e \in Events, h \in 1..NHandlers : calls[e][h] <= MaxAttempts

(* An event is dead-lettered at most once, copies and groups included.     *)
DeadLetteredOnce ==
  \A i, j \in DOMAIN dlq : dlq[i] = dlq[j] => i = j

(* An entry leaves a group's pending list only if some delivery of its     *)
(* event went through the handlers, is at them, is on the dead-letter      *)
(* stream, or was cut off: an event is lost by a stop and by nothing else. *)
Handled(e) == \E g \in Groups : <<g, e>> \in handled
InDLQ(e) == \E i \in DOMAIN dlq : dlq[i] = e
Settled(e) ==
  \/ Handled(e) \/ InDLQ(e) \/ e \in cut
  \/ \E w \in Workers : Active(w) /\ Ev(w) = e

Acked(g, p) == p <= cursor[g] /\ p \notin pending[g]

NothingDropped ==
  \A g \in Groups : \A p \in DOMAIN log : Acked(g, p) => Settled(log[p])

(* The life of an event, step by step: EventLife, where an event is held   *)
(* by the workers that are at its handlers and taken once the deduplicator *)
(* has recorded it.  However its copies, groups, batches, retries and stops*)
(* interleave, no step takes an event up a second time, lets two workers   *)
(* at it, lets go of one that is neither handled nor dead-lettered, or     *)
(* writes a second letter (consumer.py:129-153).                           *)
Holder == [e \in Events |-> {w \in Workers : Active(w) /\ Ev(w) = e}]
Done == {e \in Events : Handled(e)}

Life == INSTANCE EventLife
  WITH taken <- seen, holder <- Holder, done <- Done, letters <- dlq, lost <- cut

ImplementsEventLife == Life!Spec

(* An entry whose worker stopped is never delivered again: its group's     *)
(* cursor is past it and nobody reads the pending-entries list.            *)
HeldBy(w, g, p) == GroupOf[w] = g /\ at[w] <= p /\ p <= last[w]

OrphansStayPending ==
  [][\A g \in Groups : \A p \in pending[g] :
       (\A w \in Workers : ~HeldBy(w, g, p)) =>
         p \in pending'[g] /\ \A w \in Workers : ~HeldBy(w, g, p)']_vars

(* "A poison message never blocks the consumer group": as long as a worker *)
(* of the group runs again and again, every entry is acknowledged in the   *)
(* end, whatever handlers do, which by NothingDropped takes its handlers or*)
(* a letter.  The exception is an entry that is left pending for good, by a*)
(* stop, or because it did not decode or was read behind one that did not  *)
(* (consumer.py:130 raises out of start(), which is not restarted).        *)
Running(g) == \E w \in up : GroupOf[w] = g
Left(g, p) ==
  p <= cursor[g] /\ p \in pending[g] /\ \A w \in Workers : ~HeldBy(w, g, p)
LeftBehindUndecodable(g, p) ==
  \E q \in 1..p : Left(g, q) /\ log[q] \in Undecodable

AcknowledgedOrLeft ==
  \A g \in Groups : \A p \in 1..MaxEntries :
    []<>Running(g) =>
      (Len(log) >= p) ~>
        \/ Acked(g, p)
        \/ Left(g, p) /\ (stops > 0 \/ LeftBehindUndecodable(g, p))

-------------------------------------------------------------------------------
(* "Consumer-group fan-out": what a group has acknowledged its own handlers*)
(* have handled, or it is on the dead-letter stream or was cut off.        *)
FanOut ==
  \A g \in Groups : \A p \in DOMAIN log :
    Acked(g, p) => \/ <<g, log[p]>> \in handled \/ InDLQ(log[p]) \/ log[p] \in cut
===============================================================================
