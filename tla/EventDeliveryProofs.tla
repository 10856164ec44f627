------------------------- MODULE EventDeliveryProofs -------------------------
(***************************************************************************)
(* What Consumer.poll_once() guarantees whatever the groups, workers,      *)
(* retries and stops are: one worker works at an event, an event is        *)
(* dead-lettered once, and only a stop loses one.                          *)
(***************************************************************************)
EXTENDS EventDelivery, TLAPS

\* Deliveries stay within the stream.
Bounds ==
  /\ \A g \in Groups : cursor[g] <= Len(log) /\ pending[g] \subseteq 1..cursor[g]
  /\ \A w \in Workers : last[w] <= Len(log)

\* The dedup record of an event is written before anything else is done for it.
Recorded ==
  /\ \A w \in Workers : Active(w) \/ In(w, "skip") => Ev(w) \in seen
  /\ \A e \in Events \ seen : ~InDLQ(e) /\ \A h \in 1..NHandlers : calls[e][h] = 0
  /\ \A g \in Groups : \A p \in DOMAIN log : Acked(g, p) => log[p] \in seen

\* What a worker has used of its event's budget of calls.
Used(w, h) == IF h < next[w] THEN attempt[w] ELSE attempt[w] - 1

Budget ==
  \A w \in Workers : In(w, "handle") =>
    \A h \in 1..NHandlers : calls[Ev(w)][h] <= Used(w, h)

\* A worker's letter is on the dead-letter stream once it is "buried", not before.
Letters ==
  \A w \in Workers :
    /\ Active(w) /\ stage[w] # "buried" => ~InDLQ(Ev(w))
    /\ In(w, "buried") => InDLQ(Ev(w))

Accounted == \A e \in seen : Settled(e)

DeliveryInv ==
  DeliveryTypeOK /\ Bounds /\ Recorded /\ HandledByOne /\ Budget /\ Letters
  /\ DeadLetteredOnce /\ Accounted

LEMMA DeliveryInitInv == Init => DeliveryInv
<1> SUFFICES ASSUME Init PROVE DeliveryInv
    OBVIOUS
<1> USE DeliveryAssumption DEF Init
<1>1. \A w \in Workers : ~Active(w) /\ ~In(w, "skip") /\ Polling(w)
    BY DEF Active, In, Polling
<1>2. DeliveryTypeOK BY DEF DeliveryTypeOK, Stages
<1>3. Bounds BY DEF Bounds
<1>4. Recorded BY <1>1 DEF Recorded, InDLQ
<1>5. HandledByOne BY <1>1 DEF HandledByOne
<1>6. Budget /\ Letters BY <1>1 DEF Budget, Letters, In
<1>7. DeadLetteredOnce /\ Accounted BY DEF DeadLetteredOnce, Accounted
<1> QED BY <1>2, <1>3, <1>4, <1>5, <1>6, <1>7 DEF DeliveryInv

\* The worker's entry is an entry of the stream.
LEMMA AtIsAnEntry ==
  ASSUME DeliveryTypeOK, Bounds, NEW w \in Workers, ~Polling(w)
  PROVE  at[w] \in DOMAIN log /\ Ev(w) \in Events
  BY DEF DeliveryTypeOK, Bounds, Polling, Ev

LEMMA PublishInv ==
  ASSUME DeliveryInv, NEW e \in Events, Publish(e)
  PROVE  DeliveryInv'
<1> USE DEF DeliveryInv
<1>1. /\ log' = Append(log, e)
      /\ UNCHANGED <<cursor, pending, seen, dlq, at, last, stage, attempt, next, up>>
      /\ UNCHANGED <<calls, handled, cut, stops>>
    BY DEF Publish, worker, history
<1>2. /\ Len(log') = Len(log) + 1 /\ log' \in Seq(Events)
      /\ \A p \in DOMAIN log : log'[p] = log[p] /\ p \in DOMAIN log'
      /\ \A p \in DOMAIN log' : p \in DOMAIN log \/ p = Len(log) + 1
    BY <1>1 DEF DeliveryTypeOK
<1>3. DeliveryTypeOK' BY <1>1, <1>2 DEF DeliveryTypeOK
<1>4. Bounds' BY <1>1, <1>2 DEF Bounds, DeliveryTypeOK
<1>5. \A w \in Workers : Polling(w)' = Polling(w) BY <1>1 DEF Polling
<1>6. \A w \in Workers : ~Polling(w) => Ev(w)' = Ev(w)
    BY <1>1, <1>2, AtIsAnEntry DEF Ev
<1>7. \A w \in Workers : \A s \in Stages : In(w, s)' = In(w, s)
    BY <1>1, <1>5 DEF In
<1>8. \A w \in Workers : Active(w)' = Active(w) BY <1>1, <1>5 DEF Active
<1>9. \A d \in Events : InDLQ(d)' = InDLQ(d) BY <1>1 DEF InDLQ
<1>10. \A g \in Groups : \A p \in DOMAIN log' : Acked(g, p)' => p \in DOMAIN log /\ Acked(g, p)
    BY <1>1, <1>2 DEF Acked, Bounds, DeliveryTypeOK
<1>11. Recorded'
    BY <1>1, <1>2, <1>5, <1>6, <1>7, <1>8, <1>9, <1>10 DEF Recorded, Active, In, Stages
<1>12. HandledByOne' BY <1>1, <1>6, <1>8 DEF HandledByOne, Active
<1>13. Budget' BY <1>1, <1>6, <1>7 DEF Budget, Used, In, Stages
<1>14. Letters'
    BY <1>1, <1>6, <1>7, <1>8, <1>9, AtIsAnEntry DEF Letters, In, Active, Stages
<1>15. DeadLetteredOnce' BY <1>1 DEF DeadLetteredOnce
<1>16. Accounted'
    BY <1>1, <1>6, <1>8, <1>9 DEF Accounted, Settled, Handled, Active, DeliveryTypeOK
<1> QED BY <1>3, <1>4, <1>11, <1>12, <1>13, <1>14, <1>15, <1>16

\* A step of w leaves the other workers as they are.
LEMMA OthersKeep ==
  ASSUME DeliveryTypeOK, NEW w \in Workers, Pass(w) \/ Leave(w)
  PROVE  /\ log' = log
         /\ \A v \in Workers \ {w} :
              /\ UNCHANGED <<at[v], last[v], stage[v], attempt[v], next[v]>>
              /\ Active(v)' = Active(v)
              /\ Ev(v)' = Ev(v)
              /\ \A s \in Stages : In(v, s)' = In(v, s)
<1>1. log' = log
    BY DEF Pass, Read, Fetch, Dedup, HandlerReturns, HandlerRaises, AckHandled, AckRaises,
           AckDuplicate, RouteToDLQ, AckBuried, Ack, Leave, stream
<1>2. \A v \in Workers \ {w} :
        UNCHANGED <<at[v], last[v], stage[v], attempt[v], next[v]>>
  <2>1. CASE Read(w) \/ Dedup(w) BY <2>1 DEF Read, Fetch, Dedup, DeliveryTypeOK
  <2>2. CASE HandlerReturns(w) \/ HandlerRaises(w) \/ (\E applied \in BOOLEAN : AckRaises(w, applied))
      BY <2>2 DEF HandlerReturns, HandlerRaises, AckRaises, Fail, DeliveryTypeOK
  <2>3. CASE AckHandled(w) \/ AckDuplicate(w) \/ AckBuried(w)
      BY <2>3 DEF AckHandled, AckDuplicate, AckBuried, Ack, GoTo, DeliveryTypeOK
  <2>4. CASE RouteToDLQ(w) \/ Leave(w)
      BY <2>4 DEF RouteToDLQ, Leave, GoTo, DeliveryTypeOK
  <2> QED BY <2>1, <2>2, <2>3, <2>4 DEF Pass
<1> QED BY <1>1, <1>2 DEF Active, Ev, In, Polling

LEMMA ReadInv ==
  ASSUME DeliveryInv, NEW w \in Workers, Read(w), UNCHANGED up
  PROVE  DeliveryInv'
<1> USE DEF DeliveryInv
<1> DEFINE g == GroupOf[w]
           upto == ReadUpTo(g)
<1>1. /\ g \in Groups /\ Polling(w)
      /\ cursor[g] < Len(log)
      /\ cursor' = [cursor EXCEPT ![g] = upto]
      /\ pending' = [pending EXCEPT ![g] = @ \cup (cursor[g] + 1 .. upto)]
      /\ at' = [at EXCEPT ![w] = cursor[g] + 1]
      /\ last' = [last EXCEPT ![w] = upto]
      /\ stage' = [stage EXCEPT ![w] = "dedup"]
      /\ UNCHANGED <<log, seen, dlq, attempt, next, calls, handled, cut, stops>>
    BY DeliveryAssumption DEF Read, Fetch, history
<1>2. upto \in Nat /\ cursor[g] < upto /\ upto <= Len(log)
    BY <1>1, DeliveryAssumption DEF ReadUpTo, DeliveryTypeOK
<1> HIDE DEF g, upto
<1>3. DeliveryTypeOK' BY <1>1, <1>2 DEF DeliveryTypeOK, Stages
<1>4. Bounds' BY <1>1, <1>2 DEF Bounds, DeliveryTypeOK
<1>5. \A v \in Workers \ {w} :
        /\ Active(v)' = Active(v) /\ Ev(v)' = Ev(v) /\ UNCHANGED <<attempt[v], next[v], stage[v]>>
        /\ \A s \in Stages : In(v, s)' = In(v, s)
    BY OthersKeep DEF Pass
<1>6. ~Active(w) /\ ~Active(w)' /\ \A s \in Stages \ {"dedup"} : ~In(w, s)'
    BY <1>1 DEF Active, In, DeliveryTypeOK
<1>7. \A d \in Events : InDLQ(d)' = InDLQ(d) BY <1>1 DEF InDLQ
<1>8. \A f \in Groups : \A p \in DOMAIN log : Acked(f, p)' => Acked(f, p)
    BY <1>1, <1>2 DEF Acked, DeliveryTypeOK
<1>9. Recorded' BY <1>1, <1>5, <1>6, <1>7, <1>8 DEF Recorded, Stages
<1>10. HandledByOne' BY <1>1, <1>5, <1>6 DEF HandledByOne
<1>11. Budget' BY <1>1, <1>5, <1>6 DEF Budget, Used, Stages
<1>12. Letters' BY <1>1, <1>5, <1>6, <1>7 DEF Letters, Stages, In, Active, InDLQ
<1>13. DeadLetteredOnce' BY <1>1 DEF DeadLetteredOnce
<1>14. Accounted'
    BY <1>1, <1>5, <1>6, <1>7 DEF Accounted, Settled, Handled, DeliveryTypeOK
<1> QED BY <1>3, <1>4, <1>9, <1>10, <1>11, <1>12, <1>13, <1>14

LEMMA DedupInv ==
  ASSUME DeliveryInv, NEW w \in Workers, Dedup(w), UNCHANGED up
  PROVE  DeliveryInv'
<1> USE DEF DeliveryInv
<1> DEFINE e == Ev(w)
<1>1. /\ In(w, "dedup")
      /\ stage' = [stage EXCEPT ![w] = IF e \in seen THEN "skip" ELSE "handle"]
      /\ seen' = seen \cup {e}
      /\ UNCHANGED <<log, cursor, pending, dlq, at, last, attempt, next>>
      /\ UNCHANGED <<calls, handled, cut, stops>>
    BY DEF Dedup, history
<1>2. e \in Events /\ Ev(w)' = e /\ ~Polling(w) /\ ~Polling(w)'
    BY <1>1, AtIsAnEntry DEF In, Ev, Polling
<1>3. DeliveryTypeOK' BY <1>1, <1>2 DEF DeliveryTypeOK, Stages
<1>4. Bounds' BY <1>1 DEF Bounds
<1>5. \A v \in Workers \ {w} :
        /\ Active(v)' = Active(v) /\ Ev(v)' = Ev(v) /\ UNCHANGED <<attempt[v], next[v], stage[v]>>
        /\ \A s \in Stages : In(v, s)' = In(v, s)
    BY OthersKeep DEF Pass
<1>6. /\ ~Active(w)
      /\ e \in seen => ~Active(w)' /\ \A s \in Stages \ {"skip"} : ~In(w, s)'
      /\ e \notin seen => Active(w)' /\ \A s \in Stages \ {"handle"} : ~In(w, s)'
      /\ stage'[w] # "buried"
    BY <1>1, <1>2 DEF Active, In, DeliveryTypeOK, Stages
<1>7. \A d \in Events : InDLQ(d)' = InDLQ(d) BY <1>1 DEF InDLQ
<1>8. \A f \in Groups : \A p \in DOMAIN log : Acked(f, p)' = Acked(f, p)
    BY <1>1 DEF Acked
<1>9. Recorded' BY <1>1, <1>2, <1>5, <1>6, <1>7, <1>8 DEF Recorded, Stages
<1>10. HandledByOne'
  <2>1. ASSUME NEW v \in Workers, v # w, Active(v), e \notin seen PROVE Ev(v) # e
      BY <2>1 DEF Recorded
  <2> QED BY <1>1, <1>2, <1>5, <1>6, <2>1 DEF HandledByOne
<1>11. Budget'
  <2>1. ASSUME In(w, "handle")', NEW h \in 1..NHandlers
        PROVE  calls'[Ev(w)'][h] <= Used(w, h)'
    <3>1. e \notin seen BY <2>1, <1>6 DEF Stages
    <3>2. calls[e][h] = 0 BY <3>1, <1>2 DEF Recorded
    <3> QED BY <1>1, <1>2, <3>2 DEF Used, DeliveryTypeOK
  <2> QED BY <1>1, <1>5, <2>1 DEF Budget, Used, Stages
<1>12. Letters'
  <2>1. e \notin seen => ~InDLQ(e) BY <1>2 DEF Recorded
  <2> QED BY <1>1, <1>2, <1>5, <1>6, <1>7, <2>1 DEF Letters, Stages, InDLQ
<1>13. DeadLetteredOnce' BY <1>1 DEF DeadLetteredOnce
<1>14. Accounted'
    BY <1>1, <1>2, <1>5, <1>6, <1>7 DEF Accounted, Settled, Handled, DeliveryTypeOK
<1> QED BY <1>3, <1>4, <1>9, <1>10, <1>11, <1>12, <1>13, <1>14

LEMMA CountOneMore ==
  ASSUME NEW S, NEW f \in [S -> Nat], NEW n \in S
  PROVE  /\ [f EXCEPT ![n] = @ + 1] \in [S -> Nat]
         /\ [f EXCEPT ![n] = @ + 1][n] = f[n] + 1
         /\ \A h \in S : h # n => [f EXCEPT ![n] = @ + 1][h] = f[h]
  OBVIOUS

LEMMA CallInv ==
  ASSUME DeliveryInv, NEW w \in Workers, HandlerReturns(w) \/ HandlerRaises(w), UNCHANGED up
  PROVE  DeliveryInv'
<1> USE DEF DeliveryInv
<1> DEFINE e == Ev(w)
           n == next[w]
<1>1. /\ In(w, "handle") /\ n <= NHandlers
      /\ calls' = [calls EXCEPT ![e][n] = @ + 1]
      /\ UNCHANGED <<log, cursor, pending, seen, dlq, at, last, handled, cut, stops>>
    BY DEF HandlerReturns, HandlerRaises, Call, stream
<1>2. e \in Events /\ e \in seen /\ Ev(w)' = e /\ n \in 1..NHandlers
      /\ ~Polling(w) /\ ~Polling(w)' /\ Active(w)
    BY <1>1, AtIsAnEntry DEF In, Ev, Polling, Active, Recorded, DeliveryTypeOK
<1>3. \/ /\ next' = [next EXCEPT ![w] = n + 1]
         /\ UNCHANGED <<stage, attempt>>
      \/ /\ next' = [next EXCEPT ![w] = 1] /\ attempt[w] < MaxAttempts
         /\ attempt' = [attempt EXCEPT ![w] = @ + 1] /\ UNCHANGED stage
      \/ /\ next' = [next EXCEPT ![w] = 1] /\ UNCHANGED attempt
         /\ stage' = [stage EXCEPT ![w] = "dead"]
    BY DEF HandlerReturns, HandlerRaises, Fail
<1> HIDE DEF e, n
<1>4. /\ \A d \in Events, h \in 1..NHandlers :
           d # e \/ h # n => calls'[d][h] = calls[d][h]
      /\ calls[e][n] \in Nat /\ calls'[e][n] = calls[e][n] + 1
      /\ calls' \in [Events -> [1..NHandlers -> Nat]]
  <2> DEFINE r == [calls[e] EXCEPT ![n] = @ + 1]
  <2>1. calls[e] \in [1..NHandlers -> Nat] BY <1>2 DEF DeliveryTypeOK
  <2>2. /\ r \in [1..NHandlers -> Nat] /\ r[n] = calls[e][n] + 1 /\ calls[e][n] \in Nat
        /\ \A h \in 1..NHandlers : h # n => r[h] = calls[e][h]
      BY <2>1, <1>2, CountOneMore
  <2>3. calls' = [calls EXCEPT ![e] = r] BY <1>1
  <2> HIDE DEF r
  <2> QED BY <2>2, <2>3, <1>2 DEF DeliveryTypeOK
<1>5. DeliveryTypeOK'
  <2>1. next' \in [Workers -> 1..NHandlers + 1]
    <3>1. 1 \in 1..NHandlers + 1 /\ n + 1 \in 1..NHandlers + 1
        BY <1>2, DeliveryAssumption
    <3> QED BY <3>1, <1>3 DEF DeliveryTypeOK
  <2>2. attempt' \in [Workers -> 1..MaxAttempts]
    <3>1. attempt[w] < MaxAttempts => attempt[w] + 1 \in 1..MaxAttempts
        BY DeliveryAssumption DEF DeliveryTypeOK
    <3> QED BY <3>1, <1>3 DEF DeliveryTypeOK
  <2>3. stage' \in [Workers -> Stages] BY <1>3 DEF DeliveryTypeOK, Stages
  <2> QED BY <1>1, <1>4, <2>1, <2>2, <2>3 DEF DeliveryTypeOK
<1>6. Bounds' BY <1>1 DEF Bounds
<1>7. \A v \in Workers \ {w} :
        /\ Active(v)' = Active(v) /\ Ev(v)' = Ev(v) /\ UNCHANGED <<attempt[v], next[v], stage[v]>>
        /\ \A s \in Stages : In(v, s)' = In(v, s)
    BY OthersKeep DEF Pass
<1>8. Active(w)' /\ stage'[w] # "buried" /\ ~In(w, "skip")'
    BY <1>1, <1>2, <1>3 DEF Active, In, DeliveryTypeOK
<1>9. \A d \in Events : InDLQ(d)' = InDLQ(d) BY <1>1 DEF InDLQ
<1>10. \A f \in Groups : \A p \in DOMAIN log : Acked(f, p)' = Acked(f, p)
    BY <1>1 DEF Acked
<1>11. Recorded'
    BY <1>1, <1>2, <1>4, <1>7, <1>8, <1>9, <1>10 DEF Recorded, Stages
<1>12. \A h \in 1..NHandlers : calls[e][h] <= Used(w, h) BY <1>1 DEF Budget, e
<1>13. calls'[e][n] <= attempt[w]
  <2>1. Used(w, n) = attempt[w] - 1 BY <1>2 DEF Used, n, DeliveryTypeOK
  <2>2. attempt[w] \in Nat BY DeliveryAssumption DEF DeliveryTypeOK
  <2> QED BY <1>2, <1>4, <1>12, <2>1, <2>2
<1>14. HandledByOne'
  <2>1. calls'[e][n] <= MaxAttempts BY <1>2, <1>4, <1>13, DeliveryAssumption DEF DeliveryTypeOK
  <2>2. \A d \in Events, h \in 1..NHandlers : calls'[d][h] <= MaxAttempts
      BY <1>2, <1>4, <2>1 DEF HandledByOne
  <2> QED BY <1>2, <1>7, <1>8, <2>2 DEF HandledByOne, e
<1>15. Budget'
  <2>1. ASSUME In(w, "handle")', NEW h \in 1..NHandlers
        PROVE  calls'[e][h] <= Used(w, h)'
    <3>1. stage'[w] = "handle" BY <2>1 DEF In
    <3>2. /\ attempt[w] \in Nat /\ attempt'[w] \in Nat /\ n \in Nat
          /\ \/ attempt'[w] = attempt[w] /\ next'[w] = n + 1
             \/ attempt'[w] = attempt[w] + 1 /\ next'[w] = 1
      <4>1. attempt[w] \in Nat /\ n \in Nat BY <1>2, DeliveryAssumption DEF DeliveryTypeOK
      <4>2. \/ attempt'[w] = attempt[w] /\ next'[w] = n + 1
            \/ attempt'[w] = attempt[w] + 1 /\ next'[w] = 1
        <5>1. w \in DOMAIN stage /\ w \in DOMAIN attempt /\ w \in DOMAIN next
            BY DEF DeliveryTypeOK
        <5>2. stage' # [stage EXCEPT ![w] = "dead"] BY <3>1, <5>1
        <5>3. CASE next' = [next EXCEPT ![w] = n + 1] /\ UNCHANGED attempt BY <5>1, <5>3
        <5>4. CASE /\ next' = [next EXCEPT ![w] = 1]
                   /\ attempt' = [attempt EXCEPT ![w] = @ + 1]
            BY <5>1, <5>4
        <5> QED BY <1>3, <5>2, <5>3, <5>4
      <4> QED BY <4>1, <4>2
    <3>3. calls[e][h] \in Nat /\ calls'[e][h] \in Nat BY <1>2, <1>4 DEF DeliveryTypeOK
    <3>4. calls[e][h] <= attempt[w] /\ (h >= n => calls[e][h] <= attempt[w] - 1)
        BY <3>2, <3>3, <1>12 DEF Used, n
    <3>5. calls'[e][h] <= attempt[w] /\ (h >= n + 1 => calls'[e][h] <= attempt[w] - 1)
        BY <3>2, <3>3, <3>4, <1>2, <1>4, <1>13
    <3> QED BY <3>2, <3>3, <3>5 DEF Used
  <2>2. ASSUME NEW v \in Workers, v # w, In(v, "handle"), NEW h \in 1..NHandlers
        PROVE  calls'[Ev(v)][h] <= Used(v, h)'
    <3>1. Active(v) /\ Ev(v) # e /\ Ev(v) \in Events
        BY <2>2, <1>2, AtIsAnEntry DEF Active, In, HandledByOne, e
    <3>2. calls'[Ev(v)][h] = calls[Ev(v)][h] BY <3>1, <1>4
    <3> QED BY <2>2, <3>2, <1>7 DEF Budget, Used
  <2> QED BY <1>2, <1>7, <2>1, <2>2 DEF Budget, Stages
<1>16. Letters'
  <2>1. stage[w] # "buried" BY <1>1 DEF In
  <2> QED BY <1>1, <1>2, <1>7, <1>8, <1>9, <2>1 DEF Letters, Stages, InDLQ, In, e
<1>17. DeadLetteredOnce' BY <1>1 DEF DeadLetteredOnce
<1>18. Accounted'
    BY <1>1, <1>2, <1>7, <1>8, <1>9 DEF Accounted, Settled, Handled, DeliveryTypeOK, e
<1> QED BY <1>5, <1>6, <1>11, <1>14, <1>15, <1>16, <1>17, <1>18

LEMMA AckRaisesInv ==
  ASSUME DeliveryInv, NEW w \in Workers, NEW applied \in BOOLEAN, AckRaises(w, applied), UNCHANGED up
  PROVE  DeliveryInv'
<1> USE DEF DeliveryInv
<1> DEFINE e == Ev(w)
<1>1. /\ In(w, "handle")
      /\ next[w] = NHandlers + 1
      /\ handled' = handled \cup {<<GroupOf[w], e>>}
      /\ pending' = pending \/ pending' = [pending EXCEPT ![GroupOf[w]] = @ \ {at[w]}]
      /\ UNCHANGED <<log, cursor, seen, dlq, at, last, calls, cut, stops>>
    BY DEF AckRaises, PassDone
<1>2. e \in Events /\ e \in seen /\ Ev(w)' = e /\ ~Polling(w) /\ ~Polling(w)' /\ Active(w)
    BY <1>1, AtIsAnEntry DEF In, Ev, Polling, Active, Recorded
<1>3. \/ /\ next' = [next EXCEPT ![w] = 1] /\ attempt[w] < MaxAttempts
         /\ attempt' = [attempt EXCEPT ![w] = @ + 1] /\ UNCHANGED stage
      \/ /\ next' = [next EXCEPT ![w] = 1] /\ UNCHANGED attempt
         /\ stage' = [stage EXCEPT ![w] = "dead"]
    BY DEF AckRaises, Fail
<1>4. DeliveryTypeOK'
  <2>1. next' \in [Workers -> 1..NHandlers + 1]
    <3>1. 1 \in 1..NHandlers + 1 BY DeliveryAssumption
    <3> QED BY <3>1, <1>3 DEF DeliveryTypeOK
  <2>2. attempt' \in [Workers -> 1..MaxAttempts]
    <3>1. attempt[w] < MaxAttempts => attempt[w] + 1 \in 1..MaxAttempts
        BY DeliveryAssumption DEF DeliveryTypeOK
    <3> QED BY <3>1, <1>3 DEF DeliveryTypeOK
  <2>3. stage' \in [Workers -> Stages] BY <1>3 DEF DeliveryTypeOK, Stages
  <2>4. handled' \subseteq Groups \X Events
      BY <1>1, <1>2, DeliveryAssumption DEF DeliveryTypeOK
  <2>5. /\ pending' \in [Groups -> SUBSET Nat]
        /\ \A g \in Groups : pending'[g] \subseteq pending[g]
    <3>1. CASE pending' = pending BY <3>1 DEF DeliveryTypeOK
    <3>2. CASE pending' = [pending EXCEPT ![GroupOf[w]] = @ \ {at[w]}]
        BY <3>2, DeliveryAssumption DEF DeliveryTypeOK
    <3> QED BY <1>1, <3>1, <3>2
  <2> QED BY <1>1, <2>1, <2>2, <2>3, <2>4, <2>5 DEF DeliveryTypeOK
<1>5. Bounds'
  <2>1. \A g \in Groups : pending'[g] \subseteq pending[g]
    <3>1. CASE pending' = pending BY <3>1
    <3>2. CASE pending' = [pending EXCEPT ![GroupOf[w]] = @ \ {at[w]}]
        BY <3>2, DeliveryAssumption DEF DeliveryTypeOK
    <3> QED BY <1>1, <3>1, <3>2
  <2> QED BY <1>1, <2>1 DEF Bounds
<1>6. \A v \in Workers \ {w} :
        /\ Active(v)' = Active(v) /\ Ev(v)' = Ev(v) /\ UNCHANGED <<attempt[v], next[v], stage[v]>>
        /\ \A s \in Stages : In(v, s)' = In(v, s)
    BY OthersKeep DEF Pass
<1>7. Active(w)' /\ stage'[w] # "buried" /\ ~In(w, "skip")'
    BY <1>1, <1>2, <1>3 DEF Active, In, DeliveryTypeOK
<1>8. \A d \in Events : InDLQ(d)' = InDLQ(d) BY <1>1 DEF InDLQ
<1>9. \A f \in Groups : \A p \in DOMAIN log : Acked(f, p)' => Acked(f, p) \/ log[p] = e
  <2>1. CASE pending' = pending BY <1>1, <2>1 DEF Acked
  <2>2. CASE pending' = [pending EXCEPT ![GroupOf[w]] = @ \ {at[w]}]
      BY <1>1, <2>2, DeliveryAssumption DEF Acked, DeliveryTypeOK, Ev
  <2> QED BY <1>1, <2>1, <2>2
<1>10. Recorded' BY <1>1, <1>2, <1>6, <1>7, <1>8, <1>9 DEF Recorded, Stages
<1>11. HandledByOne' BY <1>1, <1>2, <1>6, <1>7 DEF HandledByOne
<1>12. Budget'
  <2>1. ASSUME In(w, "handle")', NEW h \in 1..NHandlers
        PROVE  calls'[e][h] <= Used(w, h)'
    <3>1. stage'[w] = "handle" BY <2>1 DEF In
    <3>2. /\ attempt[w] \in Nat /\ attempt'[w] \in Nat
          /\ attempt'[w] = attempt[w] + 1 /\ next'[w] = 1
        BY <3>1, <1>1, <1>3, DeliveryAssumption DEF DeliveryTypeOK, In
    <3>3. calls[e][h] \in Nat BY <1>2 DEF DeliveryTypeOK
    <3>4. calls[e][h] <= Used(w, h) BY <1>1 DEF Budget
    <3>5. calls[e][h] <= attempt[w] BY <3>2, <3>3, <3>4 DEF Used
    <3> QED BY <1>1, <3>2, <3>3, <3>5 DEF Used
  <2> QED BY <1>1, <1>2, <1>6, <2>1 DEF Budget, Used, Stages
<1>13. Letters'
  <2>1. stage[w] # "buried" BY <1>1 DEF In
  <2> QED BY <1>1, <1>2, <1>6, <1>7, <1>8, <2>1 DEF Letters, Stages, InDLQ, In
<1>14. DeadLetteredOnce' BY <1>1 DEF DeadLetteredOnce
<1>15. Accounted'
    BY <1>1, <1>2, <1>6, <1>7, <1>8 DEF Accounted, Settled, Handled, DeliveryTypeOK
<1> QED BY <1>4, <1>5, <1>10, <1>11, <1>12, <1>13, <1>14, <1>15

LEMMA RouteInv ==
  ASSUME DeliveryInv, NEW w \in Workers, RouteToDLQ(w), UNCHANGED up
  PROVE  DeliveryInv'
<1> USE DEF DeliveryInv
<1> DEFINE e == Ev(w)
<1>1. /\ In(w, "dead")
      /\ dlq' = Append(dlq, e)
      /\ stage' = [stage EXCEPT ![w] = "buried"]
      /\ UNCHANGED <<log, cursor, pending, seen, at, last, attempt, next>>
      /\ UNCHANGED <<calls, handled, cut, stops>>
    BY DEF RouteToDLQ, history
<1>2. e \in Events /\ e \in seen /\ Ev(w)' = e /\ ~Polling(w) /\ ~Polling(w)' /\ Active(w)
    BY <1>1, AtIsAnEntry DEF In, Ev, Polling, Active, Recorded
<1>3. ~InDLQ(e) BY <1>1, <1>2 DEF Letters, In
<1>4. /\ dlq' \in Seq(Events) /\ Len(dlq') = Len(dlq) + 1 /\ dlq'[Len(dlq) + 1] = e
      /\ DOMAIN dlq = 1..Len(dlq) /\ DOMAIN dlq' = 1..(Len(dlq) + 1) /\ Len(dlq) \in Nat
      /\ \A i \in DOMAIN dlq : dlq'[i] = dlq[i]
    BY <1>1, <1>2 DEF DeliveryTypeOK
<1>5. \A d \in Events : InDLQ(d)' <=> InDLQ(d) \/ d = e BY <1>4 DEF InDLQ
<1>6. DeliveryTypeOK' BY <1>1, <1>4 DEF DeliveryTypeOK, Stages
<1>7. Bounds' BY <1>1 DEF Bounds
<1>8. \A v \in Workers \ {w} :
        /\ Active(v)' = Active(v) /\ Ev(v)' = Ev(v) /\ UNCHANGED <<attempt[v], next[v], stage[v]>>
        /\ \A s \in Stages : In(v, s)' = In(v, s)
    BY OthersKeep DEF Pass
<1>9. Active(w)' /\ stage'[w] = "buried" /\ ~In(w, "skip")' /\ ~In(w, "handle")'
    BY <1>1, <1>2 DEF Active, In, DeliveryTypeOK
<1>10. \A f \in Groups : \A p \in DOMAIN log : Acked(f, p)' = Acked(f, p)
    BY <1>1 DEF Acked
<1>11. Recorded' BY <1>1, <1>2, <1>5, <1>8, <1>9, <1>10 DEF Recorded, Stages
<1>12. HandledByOne' BY <1>1, <1>2, <1>8, <1>9 DEF HandledByOne
<1>13. Budget' BY <1>1, <1>8, <1>9 DEF Budget, Used, Stages
<1>14. Letters'
  <2>1. ASSUME NEW v \in Workers, v # w, Active(v) PROVE Ev(v) # e /\ Ev(v) \in Events
      BY <2>1, <1>2, AtIsAnEntry DEF HandledByOne, Active
  <2>2. ASSUME NEW v \in Workers, v # w, Active(v)', stage'[v] # "buried"
        PROVE  ~InDLQ(Ev(v))'
      BY <2>1, <2>2, <1>5, <1>8 DEF Letters, InDLQ
  <2>3. ASSUME NEW v \in Workers, v # w, In(v, "buried")' PROVE InDLQ(Ev(v))'
    <3>1. In(v, "buried") BY <2>3, <1>8 DEF Stages
    <3>2. Ev(v) \in Events BY <3>1, AtIsAnEntry DEF In
    <3>3. InDLQ(Ev(v)) BY <3>1 DEF Letters
    <3>4. Ev(v)' = Ev(v) BY <2>3, <1>8
    <3> QED BY <3>2, <3>3, <3>4, <1>5 DEF InDLQ
  <2>4. InDLQ(Ev(w))' BY <1>2, <1>5 DEF InDLQ
  <2> QED BY <1>9, <2>2, <2>3, <2>4 DEF Letters
<1>15. DeadLetteredOnce' BY <1>3, <1>4 DEF DeadLetteredOnce, InDLQ
<1>16. Accounted'
    BY <1>1, <1>2, <1>5, <1>8, <1>9 DEF Accounted, Settled, Handled, DeliveryTypeOK
<1> QED BY <1>6, <1>7, <1>11, <1>12, <1>13, <1>14, <1>15, <1>16

\* w leaves its entry, after an XACK or by a stop.
LEMMA LeaveInv ==
  ASSUME DeliveryInv, NEW w \in Workers, Pass(w) \/ Leave(w), up' \subseteq Workers,
         NEW p \in Nat \ {0}, GoTo(w, p),
         UNCHANGED <<log, cursor, seen, dlq, last, calls>>,
         \/ pending' = pending
         \/ /\ pending' = [pending EXCEPT ![GroupOf[w]] = @ \ {at[w]}]
            /\ Ev(w) \in seen,
         handled \subseteq handled', handled' \subseteq Groups \X Events,
         cut \subseteq cut', cut' \subseteq Events, stops' \in Nat,
         Active(w) => InDLQ(Ev(w)) \/ (\E g \in Groups : <<g, Ev(w)>> \in handled')
                      \/ Ev(w) \in cut'
  PROVE  DeliveryInv'
<1> USE DEF DeliveryInv
<1>1. /\ at' = [at EXCEPT ![w] = p]
      /\ stage' = [stage EXCEPT ![w] = "dedup"]
      /\ attempt' = [attempt EXCEPT ![w] = 1]
      /\ next' = [next EXCEPT ![w] = 1]
    BY DEF GoTo
<1>2. pending' \in [Groups -> SUBSET Nat] /\ \A g \in Groups : pending'[g] \subseteq pending[g]
  <2>1. CASE pending' = pending BY <2>1 DEF DeliveryTypeOK
  <2>2. CASE pending' = [pending EXCEPT ![GroupOf[w]] = @ \ {at[w]}]
      BY <2>2, DeliveryAssumption DEF DeliveryTypeOK
  <2> QED BY <2>1, <2>2
<1>3. DeliveryTypeOK'
  <2>1. next' \in [Workers -> 1..NHandlers + 1] /\ attempt' \in [Workers -> 1..MaxAttempts]
      BY <1>1, DeliveryAssumption DEF DeliveryTypeOK
  <2>2. stage' \in [Workers -> Stages] BY <1>1 DEF DeliveryTypeOK, Stages
  <2>3. at' \in [Workers -> Nat \ {0}] BY <1>1 DEF DeliveryTypeOK
  <2> QED BY <1>2, <2>1, <2>2, <2>3 DEF DeliveryTypeOK
<1>4. Bounds' BY <1>2 DEF Bounds
<1>5. \A v \in Workers \ {w} :
        /\ Active(v)' = Active(v) /\ Ev(v)' = Ev(v) /\ UNCHANGED <<attempt[v], next[v], stage[v]>>
        /\ \A s \in Stages : In(v, s)' = In(v, s)
    BY OthersKeep
<1>6. ~Active(w)' /\ \A s \in Stages \ {"dedup"} : ~In(w, s)'
    BY <1>1 DEF Active, In, DeliveryTypeOK
<1>7. \A d \in Events : InDLQ(d)' = InDLQ(d) BY DEF InDLQ
<1>8. \A g \in Groups : \A q \in DOMAIN log :
        Acked(g, q)' => Acked(g, q) \/ log[q] \in seen
    BY <1>2, DeliveryAssumption DEF Acked, DeliveryTypeOK, Ev
<1>9. Recorded' BY <1>5, <1>6, <1>7, <1>8 DEF Recorded, Stages
<1>10. HandledByOne' BY <1>5, <1>6 DEF HandledByOne
<1>11. Budget' BY <1>5, <1>6 DEF Budget, Used, Stages
<1>12. Letters' BY <1>5, <1>6, <1>7 DEF Letters, Stages, InDLQ
<1>13. DeadLetteredOnce' BY DEF DeadLetteredOnce
<1>14. Accounted'
  <2>1. ASSUME NEW d \in seen PROVE Settled(d)'
    <3>1. CASE Active(w) /\ Ev(w) = d BY <3>1, <1>7 DEF Settled, Handled, InDLQ
    <3>2. CASE ~(Active(w) /\ Ev(w) = d)
      <4>1. Handled(d) => Handled(d)' BY DEF Handled
      <4>2. InDLQ(d) => InDLQ(d)' BY DEF InDLQ
      <4>3. (\E v \in Workers : Active(v) /\ Ev(v) = d)
              => \E v \in Workers : Active(v)' /\ Ev(v)' = d
          BY <3>2, <1>5
      <4> QED BY <4>1, <4>2, <4>3 DEF Accounted, Settled
    <3> QED BY <3>1, <3>2
  <2> QED BY <2>1 DEF Accounted
<1> QED BY <1>3, <1>4, <1>9, <1>10, <1>11, <1>12, <1>13, <1>14

LEMMA AckInv ==
  ASSUME DeliveryInv, NEW w \in Workers, AckHandled(w) \/ AckDuplicate(w) \/ AckBuried(w), UNCHANGED up
  PROVE  DeliveryInv'
<1> USE DEF DeliveryInv
<1>1. /\ ~Polling(w) /\ GoTo(w, at[w] + 1) /\ at[w] + 1 \in Nat \ {0}
      /\ pending' = [pending EXCEPT ![GroupOf[w]] = @ \ {at[w]}]
      /\ UNCHANGED <<log, cursor, seen, dlq, last, calls, cut, stops>>
    BY DEF AckHandled, AckDuplicate, AckBuried, Ack, PassDone, In, history, DeliveryTypeOK
<1>2. Ev(w) \in seen /\ Ev(w) \in Events
    BY <1>1, AtIsAnEntry
       DEF AckHandled, AckDuplicate, AckBuried, PassDone, In, Recorded, Active
<1>3. handled \subseteq handled' /\ handled' \subseteq Groups \X Events
    BY <1>2, DeliveryAssumption
       DEF AckHandled, AckDuplicate, AckBuried, history, DeliveryTypeOK
<1>4. Active(w) => InDLQ(Ev(w)) \/ \E g \in Groups : <<g, Ev(w)>> \in handled'
    BY DeliveryAssumption
       DEF AckHandled, AckDuplicate, AckBuried, Letters, Active, In
<1>5. cut' = cut /\ cut \subseteq Events /\ stops' \in Nat BY <1>1 DEF DeliveryTypeOK
<1>6. Pass(w) /\ up' \subseteq Workers BY DEF Pass, DeliveryTypeOK
<1> QED BY <1>1, <1>2, <1>3, <1>4, <1>5, <1>6, LeaveInv

LEMMA StopInv ==
  ASSUME DeliveryInv, NEW w \in Workers, Leave(w), stops' \in Nat
  PROVE  DeliveryInv'
<1> USE DEF DeliveryInv
<1>1. /\ GoTo(w, last[w] + 1) /\ last[w] + 1 \in Nat \ {0}
      /\ UNCHANGED <<log, cursor, pending, seen, dlq, last, calls, handled>>
      /\ handled \subseteq Groups \X Events
      /\ up' \subseteq Workers
    BY DEF Leave, stream, DeliveryTypeOK
<1>2. cut \subseteq cut' /\ cut' \subseteq Events
    BY AtIsAnEntry DEF Leave, In, DeliveryTypeOK
<1>3. Active(w) => InDLQ(Ev(w)) \/ Ev(w) \in cut'
    BY DEF Leave, Active, In, Letters
<1> QED BY <1>1, <1>2, <1>3, LeaveInv

LEMMA DeliveryStepInv == DeliveryInv /\ [Next]_vars => DeliveryInv'
<1> SUFFICES ASSUME DeliveryInv, [Next]_vars PROVE DeliveryInv'
    OBVIOUS
<1>1. ASSUME NEW w \in Workers, Pass(w), UNCHANGED up PROVE DeliveryInv'
    BY <1>1, ReadInv, DedupInv, CallInv, AckInv, AckRaisesInv, RouteInv DEF Pass
<1>3. ASSUME NEW w \in Workers, DecodeRaises(w) \/ Stop(w) PROVE DeliveryInv'
  <2>1. Leave(w) /\ stops' \in Nat
      BY <1>3 DEF DecodeRaises, Stop, DeliveryInv, DeliveryTypeOK
  <2> QED BY <2>1, StopInv
<1>2. CASE UNCHANGED vars \/ \E w \in Workers : Restart(w)
  <2>1. /\ UNCHANGED <<log, cursor, pending, seen, dlq, at, last, stage, attempt, next>>
        /\ UNCHANGED <<calls, handled, cut, stops>>
        /\ up' \subseteq Workers
      BY <1>2 DEF vars, stream, worker, history, Restart, DeliveryInv, DeliveryTypeOK
  <2>2. \A w \in Workers : Active(w)' = Active(w) /\ Ev(w)' = Ev(w)
                           /\ \A s \in Stages : In(w, s)' = In(w, s)
      BY <2>1 DEF Active, Ev, In, Polling
  <2>3. DeliveryTypeOK' /\ Bounds' /\ Recorded' /\ HandledByOne'
      BY <2>1, <2>2 DEF DeliveryInv, DeliveryTypeOK, Bounds, Recorded, HandledByOne, InDLQ,
                  Acked, Stages
  <2>4. Budget' /\ Letters' /\ DeadLetteredOnce' /\ Accounted'
      BY <2>1, <2>2 DEF DeliveryInv, Budget, Used, Letters, DeadLetteredOnce, Accounted, Settled,
                  Handled, InDLQ, Stages
  <2> QED BY <2>3, <2>4 DEF DeliveryInv
<1> QED BY <1>1, <1>2, <1>3, PublishInv DEF Next, Step

(* What a worker at an entry of the stream has to do with the dedup keys,  *)
(* the calls of the handlers, the dead letters and the pending lists.      *)
THEOREM DeliveryInvariant == Spec => []DeliveryInv
  BY DeliveryInitInv, DeliveryStepInv, PTL DEF Spec

(* One worker at most is at an event's handlers, over all groups and all   *)
(* copies of the event, and a handler is called at most max_retries times. *)
THEOREM OneWorkerPerEvent == Spec => []HandledByOne
<1>1. DeliveryInv => HandledByOne BY DEF DeliveryInv
<1> QED BY <1>1, DeliveryInvariant, PTL

(* route_to_dlq() is reached at most once for an event.                    *)
THEOREM OneLetterPerEvent == Spec => []DeadLetteredOnce
<1>1. DeliveryInv => DeadLetteredOnce BY DEF DeliveryInv
<1> QED BY <1>1, DeliveryInvariant, PTL

(* An acknowledged entry is handled, in the handlers, dead-lettered or cut *)
(* off by a stop.                                                          *)
THEOREM OnlyStopsLoseEvents == Spec => []NothingDropped
<1>1. DeliveryInv => NothingDropped
    BY DEF DeliveryInv, NothingDropped, Recorded, Accounted
<1> QED BY <1>1, DeliveryInvariant, PTL

\* One step does not move an orphan: XACK takes its own worker's entry, and
\* XREADGROUP delivers what is behind the cursor.
LEMMA OrphanKept ==
  ASSUME DeliveryInv, [Next]_vars,
         NEW g \in Groups, NEW p \in pending[g], \A w \in Workers : ~HeldBy(w, g, p)
  PROVE  p \in pending'[g] /\ \A w \in Workers : ~HeldBy(w, g, p)'
<1> USE DEF DeliveryInv
<1>1. p \in Nat /\ p <= cursor[g] /\ cursor[g] \in Nat BY DEF Bounds, DeliveryTypeOK
<1>2. CASE UNCHANGED <<pending, at, last>>
    BY <1>2 DEF HeldBy
<1>3. ASSUME NEW w \in Workers, Read(w) PROVE p \in pending'[g] /\ \A v \in Workers : ~HeldBy(v, g, p)'
  <2>1. p \in pending'[g] BY <1>3 DEF Read, Fetch, DeliveryTypeOK
  <2>2. ASSUME HeldBy(w, g, p)' PROVE FALSE
      BY <1>1, <1>3, <2>2 DEF Read, Fetch, HeldBy, DeliveryTypeOK
  <2>3. \A v \in Workers \ {w} : ~HeldBy(v, g, p)'
      BY <1>3 DEF Read, Fetch, HeldBy, DeliveryTypeOK
  <2> QED BY <2>1, <2>2, <2>3
<1>4. ASSUME NEW w \in Workers, GoTo(w, at[w] + 1), ~Polling(w),
             UNCHANGED last,
             pending' = pending \/ pending' = [pending EXCEPT ![GroupOf[w]] = @ \ {at[w]}]
      PROVE  p \in pending'[g] /\ \A v \in Workers : ~HeldBy(v, g, p)'
  <2>1. at[w] \in Nat /\ last[w] \in Nat /\ at[w] <= last[w] /\ w \in DOMAIN at
      BY <1>4 DEF Polling, DeliveryTypeOK
  <2>2. p \in pending'[g]
    <3>1. GroupOf[w] = g => p # at[w] BY <2>1 DEF HeldBy
    <3> QED BY <1>4, <3>1, DeliveryAssumption DEF DeliveryTypeOK
  <2>3. at'[w] > at[w] /\ at'[w] \in Nat BY <1>4, <2>1 DEF GoTo
  <2>4. \A v \in Workers \ {w} : at'[v] = at[v] BY <1>4 DEF GoTo, DeliveryTypeOK
  <2> QED BY <1>1, <1>4, <2>1, <2>2, <2>3, <2>4 DEF HeldBy
<1>8. ASSUME NEW w \in Workers, Leave(w)
      PROVE  p \in pending'[g] /\ \A v \in Workers : ~HeldBy(v, g, p)'
    BY <1>8 DEF Leave, GoTo, HeldBy, stream, DeliveryTypeOK
<1>5. ASSUME NEW w \in Workers, Pass(w), ~Read(w)
      PROVE  p \in pending'[g] /\ \A v \in Workers : ~HeldBy(v, g, p)'
  <2>1. CASE Dedup(w) \/ HandlerReturns(w) \/ HandlerRaises(w) \/ RouteToDLQ(w)
      BY <2>1, <1>2 DEF Dedup, HandlerReturns, HandlerRaises, RouteToDLQ, stream
  <2>4. ASSUME NEW applied \in BOOLEAN, AckRaises(w, applied)
        PROVE  p \in pending'[g] /\ \A v \in Workers : ~HeldBy(v, g, p)'
    <3>1. at[w] \in Nat /\ last[w] \in Nat /\ at[w] <= last[w]
        BY <2>4 DEF AckRaises, PassDone, In, Polling, DeliveryTypeOK
    <3>2. GroupOf[w] = g => p # at[w] BY <3>1 DEF HeldBy
    <3>3. p \in pending'[g] BY <2>4, <3>2, DeliveryAssumption DEF AckRaises, DeliveryTypeOK
    <3> QED BY <2>4, <3>3 DEF AckRaises, HeldBy
  <2>2. CASE AckHandled(w) \/ AckDuplicate(w) \/ AckBuried(w)
      BY <2>2, <1>4 DEF AckHandled, AckDuplicate, AckBuried, Ack, PassDone, In
  <2> QED BY <1>5, <2>1, <2>2, <2>4 DEF Pass
<1>6. CASE \E e \in Events : Publish(e) BY <1>2, <1>6 DEF Publish, worker
<1>7. CASE UNCHANGED vars \/ \E w \in Workers : Restart(w)
    BY <1>2, <1>7 DEF vars, stream, worker, Restart
<1> QED BY <1>3, <1>5, <1>6, <1>7, <1>8 DEF Next, Step, DecodeRaises, Stop

(* What a stopped worker had not acknowledged stays pending for ever.      *)
THEOREM OrphansAreNeverRedelivered == Spec => OrphansStayPending
<1>1. DeliveryInv /\ [Next]_vars =>
        [\A g \in Groups : \A p \in pending[g] :
          (\A w \in Workers : ~HeldBy(w, g, p)) =>
            p \in pending'[g] /\ \A w \in Workers : ~HeldBy(w, g, p)']_vars
    BY OrphanKept
<1> QED BY <1>1, DeliveryInvariant, PTL DEF Spec, OrphansStayPending

(* Types: offsets, pending lists, stages and call counts are of their kind.*)
THEOREM DeliveryTypes == Spec => []DeliveryTypeOK
<1>1. DeliveryInv => DeliveryTypeOK BY DEF DeliveryInv
<1> QED BY <1>1, DeliveryInvariant, PTL

-------------------------------------------------------------------------------
(* The steps of the consumers as steps of EventLife.                       *)
LEMMA HolderOf ==
  ASSUME NEW e \in Events PROVE Holder[e] = {w \in Workers : Active(w) /\ Ev(w) = e}
  BY DEF Holder

LEMMA HolderKept ==
  ASSUME \A v \in Workers : Active(v)' = Active(v),
         \A v \in Workers : Active(v) => Ev(v)' = Ev(v)
  PROVE  Holder' = Holder
<1>1. ASSUME NEW e \in Events
      PROVE  {v \in Workers : Active(v)' /\ Ev(v)' = e} = {v \in Workers : Active(v) /\ Ev(v) = e}
    OBVIOUS
<1> QED BY <1>1 DEF Holder

\* w is the only one to come to an event or to leave it.
LEMMA HolderIs ==
  ASSUME NEW w \in Workers, NEW e \in Events, NEW S,
         \A v \in Workers \ {w} : Active(v)' = Active(v) /\ Ev(v)' = Ev(v),
         \A v \in Workers \ {w} : Active(v) => Ev(v) # e,
         Active(w) => Ev(w) = e, Active(w)' => Ev(w)' = e,
         S = IF Active(w)' THEN {w} ELSE {}
  PROVE  Holder' = [Holder EXCEPT ![e] = S]
<1>1. ASSUME NEW d \in Events
      PROVE  {v \in Workers : Active(v)' /\ Ev(v)' = d} = IF d = e THEN S ELSE Holder[d]
  <2>1. CASE d = e BY <2>1
  <2>2. CASE d # e
    <3>1. {v \in Workers : Active(v)' /\ Ev(v)' = d} = {v \in Workers : Active(v) /\ Ev(v) = d}
        BY <2>2
    <3> QED BY <2>2, <3>1, HolderOf
  <2> QED BY <2>1, <2>2
<1>2. Holder' = [d \in Events |-> IF d = e THEN S ELSE Holder[d]] BY <1>1 DEF Holder
<1> QED BY <1>2 DEF Holder

LEMMA DoneKept == ASSUME handled' = handled PROVE Done' = Done
  BY DEF Done, Handled

\* A pass of w through the handlers puts its event among the handled ones.
LEMMA DoneGrows ==
  ASSUME NEW w \in Workers, GroupOf[w] \in Groups, NEW e \in Events,
         handled' = handled \cup {<<GroupOf[w], e>>}
  PROVE  Done' = Done \cup {e}
<1>1. ASSUME NEW d \in Events
      PROVE  (\E g \in Groups : <<g, d>> \in handled')
               <=> (\E g \in Groups : <<g, d>> \in handled) \/ d = e
    OBVIOUS
<1> QED BY <1>1 DEF Done, Handled

LEMMA HeldIs ==
  ASSUME DeliveryInv, NEW w \in Workers, Active(w)
  PROVE  /\ Ev(w) \in Events /\ Ev(w) \in seen
         /\ Life!Held(Ev(w))
         /\ \A v \in Workers \ {w} : Active(v) => Ev(v) # Ev(w)
<1>1. Ev(w) \in Events /\ Ev(w) \in seen
    BY AtIsAnEntry DEF DeliveryInv, Active, Recorded
<1>2. Holder[Ev(w)] # {} BY <1>1, HolderOf
<1> QED BY <1>1, <1>2 DEF Life!Held, DeliveryInv, HandledByOne

LEMMA DedupLife ==
  ASSUME DeliveryInv, NEW w \in Workers, Dedup(w)
  PROVE  [Life!Next]_(Life!lifeVars)
<1> DEFINE e == Ev(w)
<1>1. /\ In(w, "dedup")
      /\ stage' = [stage EXCEPT ![w] = IF e \in seen THEN "skip" ELSE "handle"]
      /\ seen' = seen \cup {e}
      /\ UNCHANGED <<log, dlq, at, last, handled, cut>>
    BY DEF Dedup, history
<1>2. e \in Events /\ Ev(w)' = e /\ ~Polling(w) /\ ~Polling(w)'
    BY <1>1, AtIsAnEntry DEF In, Ev, Polling, DeliveryInv
<1>3. \A v \in Workers \ {w} : Active(v)' = Active(v) /\ Ev(v)' = Ev(v)
    BY OthersKeep DEF Pass, DeliveryInv
<1>4. /\ ~Active(w)
      /\ e \in seen => ~Active(w)'
      /\ e \notin seen => Active(w)'
    BY <1>1, <1>2 DEF Active, In, DeliveryInv, DeliveryTypeOK
<1>5. Done' = Done BY <1>1, DoneKept
<1>6. CASE e \in seen
  <2>1. \A v \in Workers : Active(v)' = Active(v) /\ (Active(v) => Ev(v)' = Ev(v))
      BY <1>3, <1>4, <1>6 DEF Active
  <2>2. Holder' = Holder BY <2>1, HolderKept
  <2> QED BY <1>1, <1>5, <1>6, <2>2 DEF Life!lifeVars
<1>7. CASE e \notin seen
  <2>1. \A v \in Workers : Active(v) => Ev(v) # e BY <1>7 DEF DeliveryInv, Recorded
  <2>2. Holder' = [Holder EXCEPT ![e] = {w}]
      BY <1>2, <1>3, <1>4, <1>7, <2>1, HolderIs
  <2>3. \A f \in Events : w \notin Holder[f] BY <1>4, HolderOf
  <2>4. Life!TakeUp(w, e) BY <1>1, <1>5, <1>7, <2>2, <2>3 DEF Life!TakeUp
  <2> QED BY <1>2, <2>4 DEF Life!Next
<1> QED BY <1>6, <1>7

\* Steps after which w is at the same event, or at none as before.
LEMMA StaysLife ==
  ASSUME DeliveryInv, NEW w \in Workers, Pass(w), Active(w)' = Active(w),
         Active(w) => Ev(w)' = Ev(w)
  PROVE  Holder' = Holder
<1>1. \A v \in Workers \ {w} : Active(v)' = Active(v) /\ Ev(v)' = Ev(v)
    BY OthersKeep DEF DeliveryInv
<1> QED BY <1>1, HolderKept

LEMMA CallLife ==
  ASSUME DeliveryInv, NEW w \in Workers,
         Read(w) \/ HandlerReturns(w) \/ HandlerRaises(w)
  PROVE  UNCHANGED Life!lifeVars
<1>1. UNCHANGED <<log, seen, dlq, handled, cut>>
    BY DEF Read, Fetch, HandlerReturns, HandlerRaises, stream, history
<1>2. Active(w)' = Active(w) /\ (Active(w) => Ev(w)' = Ev(w))
  <2>1. CASE Read(w)
    <3>1. Polling(w) /\ stage'[w] = "dedup" BY <2>1 DEF Read, Fetch, DeliveryInv, DeliveryTypeOK
    <3> QED BY <3>1 DEF Active
  <2>2. CASE HandlerReturns(w) \/ HandlerRaises(w)
    <3>1. /\ UNCHANGED <<log, at, last>> /\ ~Polling(w) /\ stage[w] = "handle"
          /\ stage'[w] \in {"handle", "dead"}
        BY <2>2 DEF HandlerReturns, HandlerRaises, Call, In, Fail, stream, DeliveryInv, DeliveryTypeOK
    <3> QED BY <3>1 DEF Active, Polling, Ev
  <2> QED BY <2>1, <2>2
<1>3. Holder' = Holder BY <1>2, StaysLife DEF Pass
<1>4. Done' = Done BY <1>1, DoneKept
<1> QED BY <1>1, <1>3, <1>4 DEF Life!lifeVars

LEMMA AckRaisesLife ==
  ASSUME DeliveryInv, NEW w \in Workers, NEW applied \in BOOLEAN, AckRaises(w, applied)
  PROVE  Life!Next
<1>1. /\ ~Polling(w) /\ stage[w] = "handle" /\ stage'[w] \in {"handle", "dead"}
      /\ UNCHANGED <<log, at, last, seen, dlq, cut>>
      /\ handled' = handled \cup {<<GroupOf[w], Ev(w)>>}
    BY DEF AckRaises, PassDone, In, Fail, DeliveryInv, DeliveryTypeOK
<1>2. Active(w) /\ Active(w)' /\ Ev(w)' = Ev(w) BY <1>1 DEF Active, Polling, Ev
<1>3. Holder' = Holder BY <1>2, StaysLife DEF Pass
<1>4. Ev(w) \in Events /\ Life!Held(Ev(w)) BY <1>2, HeldIs
<1>5. Done' = Done \cup {Ev(w)} BY <1>1, <1>4, DeliveryAssumption, DoneGrows
<1>6. Life!Finish(Ev(w)) BY <1>1, <1>3, <1>4, <1>5 DEF Life!Finish
<1> QED BY <1>4, <1>6 DEF Life!Next

LEMMA RouteLife ==
  ASSUME DeliveryInv, NEW w \in Workers, RouteToDLQ(w)
  PROVE  Life!Next
<1>1. /\ ~Polling(w) /\ stage[w] = "dead" /\ stage'[w] = "buried"
      /\ UNCHANGED <<log, at, last, seen, handled, cut>>
      /\ dlq' = Append(dlq, Ev(w))
    BY DEF RouteToDLQ, In, history, DeliveryInv, DeliveryTypeOK
<1>2. Active(w) /\ Active(w)' /\ Ev(w)' = Ev(w) BY <1>1 DEF Active, Polling, Ev
<1>3. Holder' = Holder BY <1>2, StaysLife DEF Pass
<1>4. Ev(w) \in Events /\ Life!Held(Ev(w)) BY <1>2, HeldIs
<1>5. Done' = Done BY <1>1, DoneKept
<1>6. ~Life!HasLetter(Ev(w))
    BY <1>1, <1>2 DEF DeliveryInv, Letters, InDLQ, Life!HasLetter
<1>7. Life!Bury(Ev(w)) BY <1>1, <1>3, <1>4, <1>5, <1>6 DEF Life!Bury
<1> QED BY <1>4, <1>7 DEF Life!Next

\* w leaves its entry: nobody is at its event any more.
LEMMA LeaveLife ==
  ASSUME DeliveryInv, NEW w \in Workers, Pass(w) \/ Leave(w), NEW p, GoTo(w, p)
  PROVE  /\ ~Active(w) => Holder' = Holder
         /\ Active(w) => Holder' = [Holder EXCEPT ![Ev(w)] = {}]
<1>1. ~Active(w)' BY DEF GoTo, Active, DeliveryInv, DeliveryTypeOK
<1>2. \A v \in Workers \ {w} : Active(v)' = Active(v) /\ Ev(v)' = Ev(v)
    BY OthersKeep DEF DeliveryInv
<1>3. CASE ~Active(w)
  <2>1. \A v \in Workers : Active(v)' = Active(v) /\ (Active(v) => Ev(v)' = Ev(v))
      BY <1>1, <1>2, <1>3 DEF Active
  <2> QED BY <1>3, <2>1, HolderKept
<1>4. CASE Active(w)
  <2>1. Ev(w) \in Events /\ \A v \in Workers \ {w} : Active(v) => Ev(v) # Ev(w)
      BY <1>4, HeldIs
  <2> HIDE DEF Active, Ev
  <2> QED BY <1>1, <1>2, <1>4, <2>1, HolderIs
<1> QED BY <1>3, <1>4

LEMMA AckLife ==
  ASSUME DeliveryInv, NEW w \in Workers, AckHandled(w) \/ AckDuplicate(w) \/ AckBuried(w)
  PROVE  [Life!Next]_(Life!lifeVars)
<1>1. /\ ~Polling(w) /\ GoTo(w, at[w] + 1) /\ UNCHANGED <<seen, dlq, cut>>
    BY DEF AckHandled, AckDuplicate, AckBuried, Ack, PassDone, In, history
<1>2. Pass(w) BY DEF Pass
<1>3. CASE AckDuplicate(w)
  <2>1. ~Active(w) /\ handled' = handled BY <1>3 DEF AckDuplicate, In, Active, history
  <2>2. Holder' = Holder BY <1>1, <1>2, <2>1, LeaveLife
  <2> QED BY <1>1, <2>1, <2>2, DoneKept DEF Life!lifeVars
<1>4. CASE AckHandled(w)
  <2>1. Active(w) /\ handled' = handled \cup {<<GroupOf[w], Ev(w)>>}
      BY <1>4 DEF AckHandled, PassDone, In, Active
  <2>2. Ev(w) \in Events /\ Life!Held(Ev(w)) BY <2>1, HeldIs
  <2>3. Holder' = [Holder EXCEPT ![Ev(w)] = {}] BY <1>1, <1>2, <2>1, LeaveLife
  <2>4. Done' = Done \cup {Ev(w)} BY <2>1, <2>2, DeliveryAssumption, DoneGrows
  <2>5. Life!Finish(Ev(w)) BY <1>1, <2>2, <2>3, <2>4 DEF Life!Finish
  <2> QED BY <2>2, <2>5 DEF Life!Next
<1>5. CASE AckBuried(w)
  <2>1. Active(w) /\ In(w, "buried") /\ handled' = handled
      BY <1>5 DEF AckBuried, In, Active, history
  <2>2. Ev(w) \in Events /\ Life!Held(Ev(w)) BY <2>1, HeldIs
  <2>3. Holder' = [Holder EXCEPT ![Ev(w)] = {}] BY <1>1, <1>2, <2>1, LeaveLife
  <2>4. Life!HasLetter(Ev(w)) BY <2>1 DEF DeliveryInv, Letters, InDLQ, Life!HasLetter
  <2>5. Life!LetGo(Ev(w)) BY <1>1, <2>1, <2>2, <2>3, <2>4, DoneKept DEF Life!LetGo
  <2> QED BY <2>2, <2>5 DEF Life!Next
<1> QED BY <1>3, <1>4, <1>5

LEMMA StopLife ==
  ASSUME DeliveryInv, NEW w \in Workers, Leave(w)
  PROVE  [Life!Next]_(Life!lifeVars)
<1>1. /\ GoTo(w, last[w] + 1) /\ UNCHANGED <<seen, dlq, handled>>
      /\ cut' = IF In(w, "handle") \/ In(w, "dead") THEN cut \cup {Ev(w)} ELSE cut
    BY DEF Leave, stream
<1>2. Done' = Done BY <1>1, DoneKept
<1>3. CASE ~Active(w)
  <2>1. Holder' = Holder BY <1>1, <1>3, LeaveLife
  <2>2. cut' = cut BY <1>1, <1>3 DEF Active, In
  <2> QED BY <1>1, <1>2, <2>1, <2>2 DEF Life!lifeVars
<1>4. CASE Active(w)
  <2>1. Ev(w) \in Events /\ Life!Held(Ev(w)) BY <1>4, HeldIs
  <2>2. Holder' = [Holder EXCEPT ![Ev(w)] = {}] BY <1>1, <1>4, LeaveLife
  <2>3. CASE stage[w] = "buried"
    <3>1. Life!HasLetter(Ev(w))
        BY <1>1, <1>4, <2>3 DEF DeliveryInv, Letters, Active, In, InDLQ, Life!HasLetter
    <3>2. cut' = cut BY <1>1, <2>3 DEF In
    <3> QED BY <1>1, <1>2, <2>1, <2>2, <3>1, <3>2 DEF Life!LetGo, Life!Next
  <2>4. CASE stage[w] # "buried"
    <3>1. cut' = cut \cup {Ev(w)} BY <1>1, <1>4, <2>4 DEF Active, In
    <3> QED BY <1>1, <1>2, <2>1, <2>2, <3>1 DEF Life!LetGo, Life!Next
  <2> QED BY <2>3, <2>4
<1> QED BY <1>3, <1>4

LEMMA PublishLife ==
  ASSUME DeliveryInv, NEW e \in Events, Publish(e)
  PROVE  UNCHANGED Life!lifeVars
<1>1. /\ log' = Append(log, e)
      /\ UNCHANGED <<seen, dlq, at, last, stage, handled, cut>>
    BY DEF Publish, worker, history
<1>2. \A v \in Workers : Active(v)' = Active(v) BY <1>1 DEF Active, Polling
<1>3. \A v \in Workers : Active(v) => at[v] \in DOMAIN log
    BY AtIsAnEntry DEF Active, DeliveryInv
<1>4. \A p \in DOMAIN log : log'[p] = log[p] BY <1>1 DEF DeliveryInv, DeliveryTypeOK
<1>5. \A v \in Workers : Active(v) => Ev(v)' = Ev(v) BY <1>1, <1>3, <1>4 DEF Ev
<1>6. Holder' = Holder BY <1>2, <1>5, HolderKept
<1> QED BY <1>1, <1>6, DoneKept DEF Life!lifeVars

LEMMA DeliveryStepLife ==
  ASSUME DeliveryInv, [Next]_vars
  PROVE  [Life!Next]_(Life!lifeVars)
<1>1. ASSUME NEW w \in Workers, Pass(w) PROVE [Life!Next]_(Life!lifeVars)
    BY <1>1, CallLife, DedupLife, AckLife, AckRaisesLife, RouteLife DEF Pass
<1>2. CASE UNCHANGED vars \/ \E w \in Workers : Restart(w)
  <2>1. UNCHANGED <<log, seen, dlq, at, last, stage, handled, cut>>
      BY <1>2 DEF vars, stream, worker, history, Restart
  <2>2. \A w \in Workers : Active(w)' = Active(w) /\ Ev(w)' = Ev(w)
      BY <2>1 DEF Active, Ev, Polling
  <2>3. Holder' = Holder BY <2>2, HolderKept
  <2>4. Done' = Done BY <2>1, DoneKept
  <2> QED BY <2>1, <2>3, <2>4 DEF Life!lifeVars
<1> QED BY <1>1, <1>2, PublishLife, StopLife DEF Next, Step, DecodeRaises, Stop

(* Every step of the bus is a step in the life of one event: it is taken   *)
(* up once, by one worker, over all its copies and groups, and let go of   *)
(* only handled, dead-lettered or cut off by a stop of that worker.        *)
THEOREM DeliveryImplementsEventLife == Spec => ImplementsEventLife
<1>1. Init => Life!Init
  <2> SUFFICES ASSUME Init PROVE Life!Init
      OBVIOUS
  <2>1. \A w \in Workers : ~Active(w) BY DEF Init, Active, Polling
  <2>2. Holder = [e \in Events |-> {}] BY <2>1 DEF Holder
  <2>3. Done = {} BY DEF Init, Done, Handled
  <2> QED BY <2>2, <2>3 DEF Init, Life!Init
<1>2. DeliveryInv /\ [Next]_vars => [Life!Next]_(Life!lifeVars) BY DeliveryStepLife
<1> QED
    BY <1>1, <1>2, DeliveryInvariant, PTL
    DEF Spec, ImplementsEventLife, Life!Spec
===============================================================================
