------------------------ MODULE IdempotencyGuardProofs ------------------------
(***************************************************************************)
(* For any callers, keys, processes and results: the effect of a key       *)
(* happens at most once, an answer is the result of that effect, and the   *)
(* guard implements OnceEffect.                                            *)
(*                                                                         *)
(* Neither property is inductive: whether an effect may happen depends on  *)
(* who claimed the row.  GuardInv ties the three places that know about a  *)
(* key together: its row, the effects performed and the owner of the claim.*)
(***************************************************************************)
EXTENDS IdempotencyGuard, SequenceTheorems, TLAPS

Owns(c) == pc[c] \in {"effect", "complete"}

\* Before a row is claimed there is nothing; once it is done its result is
\* the effect's; in both cases nobody owns the claim.
RowInv ==
  \A k \in Keys :
    /\ row[k].state = "absent" => effects[k] = <<>>
    /\ row[k].state = "done" => effects[k] = <<row[k].result>>
    /\ Len(effects[k]) <= 1

\* The owner of a pending claim is alone, has not performed the effect yet
\* ("effect") or holds its result ("complete").
OwnerInv ==
  /\ \A c \in Callers : Owns(c) => row[key[c]].state = "pending"
  /\ \A c \in Callers : pc[c] = "effect" => effects[key[c]] = <<>>
  /\ \A c \in Callers : pc[c] = "complete" =>
       held[c] \in Results /\ effects[key[c]] = <<held[c]>>
  /\ \A c, d \in Callers : Owns(c) /\ Owns(d) /\ key[c] = key[d] => c = d

GuardInv == TypeOK /\ RowInv /\ OwnerInv /\ AnswerIsTheEffect

LEMMA GuardInitInv == GuardInit => GuardInv
<1> SUFFICES ASSUME GuardInit PROVE GuardInv
    OBVIOUS
<1>1. TypeOK
    BY ConstAssumption DEF GuardInit, TypeOK, Rows, NoRow, Ended, Running
<1>2. RowInv /\ OwnerInv /\ AnswerIsTheEffect
    BY DEF GuardInit, RowInv, OwnerInv, AnswerIsTheEffect, Owns, NoRow
<1> QED BY <1>1, <1>2 DEF GuardInv

\* What performing the effect of c does, whether its reply arrives or not.
LEMMA PerformOnce ==
  ASSUME GuardInv, NEW c \in Callers, NEW v \in Results, pc[c] = "effect",
         effects' = [effects EXCEPT ![key[c]] = Append(@, v)]
  PROVE  /\ effects' \in [Keys -> Seq(Results)]
         /\ effects'[key[c]] = <<v>>
         /\ \A k \in Keys : k # key[c] => effects'[k] = effects[k]
<1>1. effects[key[c]] = <<>> /\ key[c] \in Keys /\ effects \in [Keys -> Seq(Results)]
    BY DEF GuardInv, OwnerInv, TypeOK
<1>2. Append(effects[key[c]], v) = <<v>>
    BY <1>1
<1> QED BY <1>1, <1>2

LEMMA GuardStepInv == GuardInv /\ [GuardNext]_guardVars => GuardInv'
<1> SUFFICES ASSUME GuardInv, [GuardNext]_guardVars PROVE GuardInv'
    OBVIOUS
<1> USE DEF GuardInv, Goto
<1>a. ASSUME NEW c \in Callers, NEW k \in Keys, Invoke(c, k) PROVE GuardInv'
  <2> USE <1>a DEF Invoke
  <2>1. TypeOK' BY DEF TypeOK, Running, Ended
  <2>2. RowInv' BY DEF RowInv
  <2>3. OwnerInv' BY DEF OwnerInv, Owns, TypeOK, Ended
  <2>4. AnswerIsTheEffect' BY DEF AnswerIsTheEffect, TypeOK
  <2> QED BY <2>1, <2>2, <2>3, <2>4
<1>b. ASSUME NEW c \in Callers, CheckHit(c) \/ PollHit(c) PROVE GuardInv'
  <2> USE <1>b DEF CheckHit, PollHit, TakeCached, Cached
  <2>1. row[key[c]] \in Rows /\ row[key[c]].state = "done" /\ key[c] \in Keys
        BY DEF TypeOK
  <2>2. effects[key[c]] = <<row[key[c]].result>>
        BY <2>1 DEF RowInv
  <2>3. TypeOK' BY <2>1 DEF TypeOK, Rows, Running, Ended
  <2>4. RowInv' BY DEF RowInv
  <2>5. OwnerInv'
    <3>1. \A d \in Callers : d # c => pc'[d] = pc[d] /\ held'[d] = held[d]
          BY DEF TypeOK
    <3>2. ~Owns(c)' /\ pc'[c] = "returned" BY DEF Owns, TypeOK
    <3> QED BY <3>1, <3>2 DEF OwnerInv, Owns
  <2>6. AnswerIsTheEffect' BY <2>2 DEF AnswerIsTheEffect, TypeOK
  <2> QED BY <2>3, <2>4, <2>5, <2>6
<1>c. ASSUME NEW c \in Callers, CheckMiss(c) \/ ClaimLost(c) \/ PollTimeout(c) \/ EffectRaises(c)
      PROVE  GuardInv'
  <2> USE <1>c DEF CheckMiss, ClaimLost, PollTimeout, EffectRaises
  <2>1. TypeOK' BY DEF TypeOK, Running, Ended
  <2>2. RowInv' BY DEF RowInv
  <2>3. OwnerInv' BY DEF OwnerInv, Owns, TypeOK
  <2>4. AnswerIsTheEffect' BY DEF AnswerIsTheEffect, TypeOK
  <2> QED BY <2>1, <2>2, <2>3, <2>4
<1>d. ASSUME NEW c \in Callers, ClaimWon(c) PROVE GuardInv'
  <2> USE <1>d DEF ClaimWon, Claimable
  <2>1. key[c] \in Keys /\ effects[key[c]] = <<>> BY DEF TypeOK, RowInv
  <2>2. TypeOK' BY <2>1 DEF TypeOK, Rows, Running, Ended
  <2>3. RowInv' BY <2>1 DEF RowInv, TypeOK
  <2>4. OwnerInv'
    <3>1. \A d \in Callers : Owns(d) => key[d] # key[c]
          BY DEF OwnerInv
    <3> QED BY <2>1, <3>1 DEF OwnerInv, Owns, TypeOK
  <2>5. AnswerIsTheEffect' BY DEF AnswerIsTheEffect, TypeOK
  <2> QED BY <2>2, <2>3, <2>4, <2>5
<1>e. ASSUME NEW c \in Callers, NEW v \in Results, Effect(c, v) \/ EffectReplyLost(c, v)
      PROVE  GuardInv'
  <2>1. /\ pc[c] = "effect"
        /\ effects' = [effects EXCEPT ![key[c]] = Append(@, v)]
        /\ key' = key /\ row' = row
        BY <1>e DEF Effect, EffectReplyLost
  <2>2. /\ effects' \in [Keys -> Seq(Results)]
        /\ effects'[key[c]] = <<v>>
        /\ \A k \in Keys : k # key[c] => effects'[k] = effects[k]
        BY <2>1, PerformOnce
  <2>3. /\ \A d \in Callers : d # c => pc'[d] = pc[d] /\ held'[d] = held[d]
        /\ \/ pc'[c] = "complete" /\ held'[c] = v
           \/ pc'[c] = "raised"
        BY <1>e DEF Effect, EffectReplyLost, TypeOK
  <2>4. key[c] \in Keys /\ row[key[c]].state = "pending" /\ effects[key[c]] = <<>>
        BY <2>1 DEF TypeOK, OwnerInv, Owns
  <2>5. \A d \in Callers : Owns(d) /\ d # c => key[d] # key[c]
        BY <2>1 DEF OwnerInv, Owns
  <2>6. \A d \in Callers : pc[d] = "returned" => key[d] # key[c]
    <3>1. \A x : Len(<<>>) = 0 /\ Len(<<x>>) = 1 OBVIOUS
    <3> QED BY <2>4, <3>1 DEF AnswerIsTheEffect
  <2>7. TypeOK'
    <3>1. pc' \in [Callers -> Ended \cup Running] /\ held' \in [Callers -> Results \cup {None}]
      <4>1. CASE Effect(c, v) BY <4>1 DEF Effect, TypeOK, Running, Ended
      <4>2. CASE EffectReplyLost(c, v) BY <4>2 DEF EffectReplyLost, TypeOK, Running, Ended
      <4> QED BY <1>e, <4>1, <4>2
    <3> QED BY <2>1, <2>2, <3>1 DEF TypeOK
  <2>8. RowInv'
    <3>1. Len(<<v>>) = 1 OBVIOUS
    <3> QED BY <2>1, <2>2, <2>4, <3>1 DEF RowInv
  <2>9. OwnerInv'
    <3>1. \A d \in Callers : d # c => (Owns(d)' <=> Owns(d))
          BY <2>3 DEF Owns
    <3>2. \A d \in Callers : Owns(d)' /\ d # c => key'[d] # key'[c]
          BY <2>1, <2>5, <3>1
    <3>3. \A d \in Callers : Owns(d)' => row'[key'[d]].state = "pending"
          BY <2>1, <2>4, <3>1 DEF OwnerInv
    <3>4. \A d \in Callers : pc'[d] = "effect" => effects'[key'[d]] = <<>>
      <4> SUFFICES ASSUME NEW d \in Callers, pc'[d] = "effect" PROVE effects'[key'[d]] = <<>>
          OBVIOUS
      <4>1. d # c /\ pc[d] = "effect" /\ key[d] \in Keys BY <2>3 DEF TypeOK
      <4>2. key[d] # key[c] BY <2>5, <4>1 DEF Owns
      <4> QED BY <2>1, <2>2, <4>1, <4>2 DEF OwnerInv
    <3>5. \A d \in Callers : pc'[d] = "complete" =>
             held'[d] \in Results /\ effects'[key'[d]] = <<held'[d]>>
      <4> SUFFICES ASSUME NEW d \in Callers, pc'[d] = "complete"
                   PROVE  held'[d] \in Results /\ effects'[key'[d]] = <<held'[d]>>
          OBVIOUS
      <4>1. CASE d = c BY <2>1, <2>2, <2>3, <4>1
      <4>2. CASE d # c
        <5>1. pc[d] = "complete" /\ held'[d] = held[d] /\ key[d] \in Keys
              BY <2>3, <4>2 DEF TypeOK
        <5>2. key[d] # key[c] BY <2>5, <4>2, <5>1 DEF Owns
        <5> QED BY <2>1, <2>2, <5>1, <5>2 DEF OwnerInv
      <4> QED BY <4>1, <4>2
    <3>6. \A d, e \in Callers : Owns(d)' /\ Owns(e)' /\ key'[d] = key'[e] => d = e
          BY <2>1, <3>1, <3>2 DEF OwnerInv
    <3> QED BY <3>3, <3>4, <3>5, <3>6 DEF OwnerInv
  <2>10. AnswerIsTheEffect' BY <2>1, <2>2, <2>3, <2>6 DEF AnswerIsTheEffect, TypeOK
  <2> QED BY <2>7, <2>8, <2>9, <2>10
<1>f. ASSUME NEW c \in Callers, Complete(c) PROVE GuardInv'
  <2> USE <1>f DEF Complete
  <2>1. key[c] \in Keys /\ held[c] \in Results /\ effects[key[c]] = <<held[c]>>
        BY DEF TypeOK, OwnerInv
  <2>2. /\ row'[key[c]].state = "done"
        /\ row'[key[c]].result = held[c]
        /\ row'[key[c]] \in Rows
        /\ \A k \in Keys : k # key[c] => row'[k] = row[k]
        BY <2>1 DEF TypeOK, Rows
  <2>3. row' \in [Keys -> Rows]
        BY <2>1 DEF TypeOK, Rows
  <2>4. TypeOK' BY <2>3 DEF TypeOK, Running, Ended
  <2>5. RowInv' BY <2>1, <2>2 DEF RowInv
  <2>6. OwnerInv'
    <3>1. \A d \in Callers : Owns(d)' => d # c /\ Owns(d) /\ key[d] # key[c]
          BY DEF OwnerInv, Owns, TypeOK
    <3> QED BY <2>2, <3>1 DEF OwnerInv, Owns, TypeOK
  <2>7. AnswerIsTheEffect' BY <2>1 DEF AnswerIsTheEffect, TypeOK
  <2> QED BY <2>4, <2>5, <2>6, <2>7
<1>g. ASSUME NEW k \in Keys, Expire(k) PROVE GuardInv'
  <2> USE <1>g DEF Expire
  <2>1. \A j \in Keys : row'[j].state = row[j].state /\ row'[j].result = row[j].result
        BY DEF TypeOK, Rows
  <2>2. TypeOK' BY DEF TypeOK, Rows
  <2>3. RowInv' BY <2>1 DEF RowInv
  <2>4. OwnerInv' BY <2>1 DEF OwnerInv, Owns, TypeOK
  <2>5. AnswerIsTheEffect' BY DEF AnswerIsTheEffect
  <2> QED BY <2>2, <2>3, <2>4, <2>5
<1>h. ASSUME NEW h \in Hosts, Crash(h) PROVE GuardInv'
  <2> USE <1>h DEF Crash
  <2>1. TypeOK' BY DEF TypeOK, Running, Ended
  <2>2. RowInv' BY DEF RowInv
  <2>3. OwnerInv' BY DEF OwnerInv, Owns
  <2>4. AnswerIsTheEffect' BY DEF AnswerIsTheEffect
  <2> QED BY <2>1, <2>2, <2>3, <2>4
<1>i. CASE UNCHANGED guardVars
  BY <1>i DEF guardVars, TypeOK, RowInv, OwnerInv, Owns, AnswerIsTheEffect
<1> QED
  BY <1>a, <1>b, <1>c, <1>d, <1>e, <1>f, <1>g, <1>h, <1>i DEF GuardNext, Step

(* The invariant that carries the other results.                           *)
THEOREM GuardInvariant == GuardSpec => []GuardInv
  BY GuardInitInv, GuardStepInv, PTL DEF GuardSpec

(* The effect of a key happens at most once (guard.py:40 "Guarantees       *)
(* at-most-once execution of an authoritative effect").                    *)
THEOREM EffectAtMostOnce == GuardSpec => []AtMostOnce
<1>1. GuardInv => AtMostOnce BY DEF GuardInv, RowInv, AtMostOnce
<1> QED BY <1>1, GuardInvariant, PTL

(* An abandoned claim is never revived: with its owner gone a pending row   *)
(* stays pending, nobody comes to own it and its effect is not performed.  *)
THEOREM AbandonedClaimsStayPending == GuardSpec => AbandonedStaysPending
<1>1. GuardInv /\ [GuardNext]_guardVars =>
        [\A k \in Keys : row[k].state = "pending" /\ ~Owned(k) =>
           /\ row'[k].state = "pending" /\ ~Owned(k)'
           /\ effects'[k] = effects[k]]_guardVars
  <2> SUFFICES ASSUME GuardInv, GuardNext, NEW k \in Keys,
                      row[k].state = "pending", ~Owned(k)
               PROVE  /\ row'[k].state = "pending" /\ ~Owned(k)'
                      /\ effects'[k] = effects[k]
      BY DEF guardVars
  <2> USE DEF Goto
  <2>1. /\ row \in [Keys -> Rows] /\ effects \in [Keys -> Seq(Results)]
        /\ pc \in [Callers -> Ended \cup Running] /\ key \in [Callers -> Keys]
        /\ \A c \in Callers : pc[c] \in {"effect", "complete"} => key[c] # k
      BY DEF GuardInv, TypeOK, Owned
  <2> DEFINE Dead == row'[k].state = "pending" /\ effects'[k] = effects[k]
             Unowned == \A d \in Callers : key'[d] = k => pc'[d] \notin {"effect", "complete"}
  <2> SUFFICES Dead /\ Unowned BY DEF Owned
  <2>2. ASSUME NEW c \in Callers, Step(c)
        PROVE  Dead /\ Unowned
    <3>1. CASE CheckHit(c) \/ PollHit(c)
          BY <2>1, <3>1 DEF CheckHit, PollHit, TakeCached
    <3>2. CASE CheckMiss(c) \/ ClaimLost(c) \/ PollTimeout(c) \/ EffectRaises(c)
          BY <2>1, <3>2 DEF CheckMiss, ClaimLost, PollTimeout, EffectRaises
    <3>3. CASE ClaimWon(c) BY <2>1, <3>3 DEF ClaimWon, Claimable
    <3>4. CASE \E v \in Results : Effect(c, v) \/ EffectReplyLost(c, v)
          BY <2>1, <3>4 DEF Effect, EffectReplyLost
    <3>5. CASE Complete(c) BY <2>1, <3>5 DEF Complete
    <3> HIDE DEF Dead, Unowned
    <3> QED BY <2>2, <3>1, <3>2, <3>3, <3>4, <3>5 DEF Step
  <2>3. CASE \E c \in Callers, j \in Keys : Invoke(c, j)
        BY <2>1, <2>3 DEF Invoke
  <2>4. CASE \E j \in Keys : Expire(j)
    <3> PICK j \in Keys : Expire(j) BY <2>4
    <3> QED BY <2>1 DEF Expire, Rows
  <2>5. CASE \E h \in Hosts : Crash(h) BY <2>1, <2>5 DEF Crash
  <2> QED BY <2>2, <2>3, <2>4, <2>5 DEF GuardNext
<1> QED BY <1>1, GuardInvariant, PTL DEF GuardSpec, AbandonedStaysPending

(* Whoever execute_once() returns to holds the result of that one effect.  *)
THEOREM AnswersAreTheEffect == GuardSpec => []AnswerIsTheEffect
<1>1. GuardInv => AnswerIsTheEffect BY DEF GuardInv
<1> QED BY <1>1, GuardInvariant, PTL

(* execute_once() over the table implements the one-step effect of         *)
(* OnceEffect: each step performs the effect, delivers an answer, forgets  *)
(* answers, or changes neither.                                            *)
THEOREM GuardImplementsOnce == GuardSpec => ImplementsOnce
<1> USE DEF Once!onceVars, Outcome, Told
<1>1. GuardInit => Once!Init
  BY DEF GuardInit, Once!Init
<1>2. GuardInv /\ GuardInv' /\ [GuardNext]_guardVars => [Once!Next]_(Once!onceVars)
  <2> SUFFICES ASSUME GuardInv, GuardInv', [GuardNext]_guardVars
               PROVE  Once!Next \/ UNCHANGED <<Outcome, Told>>
      BY DEF Once!onceVars
  <2>0. TypeOK /\ ConstAssumption BY ConstAssumption DEF GuardInv
  <2>1. ASSUME NEW c \in Callers, NEW k \in Keys, Invoke(c, k) PROVE Once!Forget({c})
        BY <2>0, <2>1 DEF Invoke, Goto, Once!Forget, TypeOK
  <2>2. ASSUME NEW c \in Callers,
               pc[c] # "returned", pc'[c] = "returned", effects' = effects, key' = key,
               \A d \in Callers : d # c => pc'[d] = pc[d] /\ held'[d] = held[d],
               held'[c] \in Results
        PROVE  Once!Answer(c, key[c])
    <3>1. key[c] \in Keys /\ effects[key[c]] = <<held'[c]>>
          BY <2>2 DEF GuardInv, AnswerIsTheEffect, TypeOK
    <3>2. /\ effects[key[c]] # <<>>
          /\ Head(effects[key[c]]) = held'[c]
      <4>1. \A x : Len(<<>>) = 0 /\ Len(<<x>>) = 1 /\ Head(<<x>>) = x OBVIOUS
      <4> QED BY <3>1, <4>1
    <3>3. held'[c] # None BY <2>2, <2>0 DEF ConstAssumption
    <3>4. Outcome[key[c]] = held'[c] /\ Outcome' = Outcome
          BY <2>2, <3>1, <3>2
    <3>5. Told[c] = <<>> BY <2>2
    <3>6. Told' = [Told EXCEPT ![c] = <<key[c], held'[c]>>]
          BY <2>2
    <3> QED BY <3>3, <3>4, <3>5, <3>6 DEF Once!Answer
  <2>3. ASSUME NEW c \in Callers, CheckHit(c) \/ PollHit(c) PROVE Once!Answer(c, key[c])
    <3>1. row[key[c]].result \in Results
      <4>1. key[c] \in Keys /\ row[key[c]].state = "done" /\ effects[key[c]] = <<row[key[c]].result>>
            BY <2>3 DEF CheckHit, PollHit, TakeCached, Cached, GuardInv, TypeOK, RowInv
      <4>2. effects[key[c]] \in Seq(Results) BY <4>1 DEF GuardInv, TypeOK
      <4>3. \A x : Len(<<x>>) = 1 /\ <<x>>[1] = x OBVIOUS
      <4> QED BY <4>1, <4>2, <4>3
    <3>2. /\ pc[c] # "returned" /\ pc'[c] = "returned" /\ effects' = effects /\ key' = key
          /\ \A d \in Callers : d # c => pc'[d] = pc[d] /\ held'[d] = held[d]
          /\ held'[c] \in Results
          BY <2>3, <3>1 DEF CheckHit, PollHit, TakeCached, Goto, GuardInv, TypeOK
    <3> QED BY <2>2, <3>2
  <2>4. ASSUME NEW c \in Callers, Complete(c) PROVE Once!Answer(c, key[c])
    <3>1. held[c] \in Results BY <2>4 DEF Complete, GuardInv, OwnerInv
    <3>2. /\ pc[c] # "returned" /\ pc'[c] = "returned" /\ effects' = effects /\ key' = key
          /\ \A d \in Callers : d # c => pc'[d] = pc[d] /\ held'[d] = held[d]
          /\ held'[c] \in Results
          BY <2>4, <3>1 DEF Complete, Goto, GuardInv, TypeOK
    <3> QED BY <2>2, <3>2
  <2>5. ASSUME NEW c \in Callers, NEW v \in Results, Effect(c, v) \/ EffectReplyLost(c, v)
        PROVE  Once!Perform(key[c], v)
    <3>1. /\ pc[c] = "effect" /\ key' = key
          /\ effects' = [effects EXCEPT ![key[c]] = Append(@, v)]
          BY <2>5 DEF Effect, EffectReplyLost
    <3>2. /\ effects'[key[c]] = <<v>>
          /\ \A k \in Keys : k # key[c] => effects'[k] = effects[k]
          BY <3>1, PerformOnce
    <3>3. key[c] \in Keys /\ effects[key[c]] = <<>>
          BY <3>1 DEF GuardInv, TypeOK, OwnerInv
    <3>4. Outcome[key[c]] = None BY <3>3
    <3>5. Outcome' = [Outcome EXCEPT ![key[c]] = v]
      <4>1. \A x : Len(<<>>) = 0 /\ Len(<<x>>) = 1 /\ Head(<<x>>) = x OBVIOUS
      <4>2. <<v>> # <<>> BY <4>1
      <4> QED BY <3>2, <3>3, <4>1, <4>2
    <3>6. \A d \in Callers : d # c => pc'[d] = pc[d] /\ held'[d] = held[d]
          BY <2>5 DEF Effect, EffectReplyLost, Goto, GuardInv, TypeOK
    <3>7. pc'[c] # "returned"
          BY <2>5 DEF Effect, EffectReplyLost, Goto, GuardInv, TypeOK
    <3>8. Told' = Told BY <3>1, <3>6, <3>7
    <3> QED BY <3>4, <3>5, <3>8 DEF Once!Perform
  <2>6. ASSUME NEW c \in Callers, CheckMiss(c) \/ ClaimWon(c) \/ ClaimLost(c) \/ PollTimeout(c) \/ EffectRaises(c)
        PROVE  UNCHANGED <<Outcome, Told>>
    <3>1. /\ effects' = effects /\ key' = key /\ held' = held
          /\ pc[c] # "returned" /\ pc'[c] # "returned"
          /\ \A d \in Callers : d # c => pc'[d] = pc[d]
          BY <2>6 DEF CheckMiss, ClaimWon, ClaimLost, PollTimeout, EffectRaises, Goto, GuardInv, TypeOK
    <3> QED BY <3>1
  <2>7. ASSUME NEW k \in Keys, Expire(k) PROVE UNCHANGED <<Outcome, Told>>
        BY <2>7 DEF Expire
  <2>8. ASSUME NEW h \in Hosts, Crash(h)
        PROVE  Once!Forget({c \in Callers : HostOf[c] = h})
        BY <2>8 DEF Crash, Once!Forget
  <2>9. CASE UNCHANGED guardVars BY <2>9 DEF guardVars
  <2>10. ASSUME NEW c \in Callers, Step(c) PROVE Once!Next \/ UNCHANGED <<Outcome, Told>>
    <3>1. key[c] \in Keys BY DEF GuardInv, TypeOK
    <3>2. CASE CheckHit(c) \/ PollHit(c) \/ Complete(c)
      <4>1. Once!Answer(c, key[c])
        <5>1. CASE CheckHit(c) \/ PollHit(c) BY <2>3, <5>1
        <5>2. CASE Complete(c) BY <2>4, <5>2
        <5> QED BY <3>2, <5>1, <5>2
      <4>2. \E d \in Callers, k \in Keys : Once!Answer(d, k)
        <5> HIDE DEF Outcome, Told
        <5> QED BY <3>1, <4>1
      <4> QED BY <4>2 DEF Once!Next
    <3>3. CASE \E v \in Results : Effect(c, v) \/ EffectReplyLost(c, v)
      <4> PICK v \in Results : Effect(c, v) \/ EffectReplyLost(c, v) BY <3>3
      <4>1. Once!Perform(key[c], v) BY <2>5
      <4> QED BY <3>1, <4>1 DEF Once!Next
    <3>4. CASE CheckMiss(c) \/ ClaimWon(c) \/ ClaimLost(c) \/ PollTimeout(c) \/ EffectRaises(c)
          BY <2>6, <3>4
    <3> QED BY <2>10, <3>2, <3>3, <3>4 DEF Step
  <2>11. ASSUME NEW c \in Callers, NEW k \in Keys, Invoke(c, k) PROVE Once!Next
    <3>1. {c} \in SUBSET Callers OBVIOUS
    <3>2. Once!Forget({c}) BY <2>1, <2>11
    <3> QED BY <3>1, <3>2 DEF Once!Next
  <2>12. ASSUME NEW h \in Hosts, Crash(h) PROVE Once!Next
    <3>1. {c \in Callers : HostOf[c] = h} \in SUBSET Callers OBVIOUS
    <3>2. Once!Forget({c \in Callers : HostOf[c] = h}) BY <2>8, <2>12
    <3> QED BY <3>1, <3>2 DEF Once!Next
  <2> QED BY <2>7, <2>9, <2>10, <2>11, <2>12 DEF GuardNext
<1> QED BY <1>1, <1>2, GuardInvariant, PTL DEF GuardSpec, ImplementsOnce, Once!Spec

(* Types: every row, result in hand and count is of its kind.              *)
THEOREM GuardTypes == GuardSpec => []TypeOK
<1>1. GuardInv => TypeOK BY DEF GuardInv
<1> QED BY <1>1, GuardInvariant, PTL
===============================================================================
