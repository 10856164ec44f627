--------------------------- MODULE IdempotencyGuard ---------------------------
(***************************************************************************)
(* IdempotencyGuard.execute_once() over the idempotency_keys table.        *)
(*                                                                         *)
(* Every SQL statement is one step and the processes share the table, so   *)
(* the statements of two callers interleave freely; effect_fn is awaited,  *)
(* so it is a step of its own, and a process can stop between any two      *)
(* steps.  No code of the system deletes a row of the table: the cleanup   *)
(* job that migration 005 mentions is not in the repository.               *)
(***************************************************************************)
EXTENDS Naturals, Sequences

CONSTANTS
  Callers,   \* concurrent invocations of execute_once()
  Keys,      \* idempotency keys (a key embeds its tenant or its call)
  Results,   \* what an effect can return
  None,
  Hosts,     \* processes
  HostOf     \* Callers -> Hosts: the process an invocation runs in

ASSUME ConstAssumption ==
  /\ Keys # {}
  /\ None \notin Results
  /\ HostOf \in [Callers -> Hosts]

VARIABLES
  row,       \* Keys -> the row of idempotency_keys
  effects,   \* Keys -> results of the effects performed so far, in order
  pc,        \* Callers -> where its invocation stands
  key,       \* Callers -> the key of its invocation
  held       \* Callers -> result in hand: of its own effect, then its answer

guardVars == <<row, effects, pc, key, held>>

Ended == {"idle", "returned", "raised", "timeout", "crashed"}
Running == {"check", "claim", "effect", "complete", "poll"}

Rows == [state : {"absent", "pending", "done"},
         live : BOOLEAN,             \* expires_at > NOW()
         result : Results \cup {None}]

NoRow == [state |-> "absent", live |-> FALSE, result |-> None]

TypeOK ==
  /\ row \in [Keys -> Rows]
  /\ effects \in [Keys -> Seq(Results)]
  /\ pc \in [Callers -> Ended \cup Running]
  /\ key \in [Callers -> Keys]
  /\ held \in [Callers -> Results \cup {None}]

GuardInit ==
  /\ row = [k \in Keys |-> NoRow]
  /\ effects = [k \in Keys |-> <<>>]
  /\ pc = [c \in Callers |-> "idle"]
  /\ key = [c \in Callers |-> CHOOSE k \in Keys : TRUE]
  /\ held = [c \in Callers |-> None]

Goto(c, where) == pc' = [pc EXCEPT ![c] = where]

\* A NULL result taken for an answer.
CachedPending(k) == row[k].live /\ row[k].state # "absent"

\* IdempotencyRepository.check: a cached result, only while the row is live.
Cached(k) == row[k].live /\ row[k].state = "done"

-------------------------------------------------------------------------------
(* A caller starts, or retries after however its last invocation ended.    *)
Invoke(c, k) ==
  /\ pc[c] \in Ended
  /\ Goto(c, "check")
  /\ key' = [key EXCEPT ![c] = k]
  /\ held' = [held EXCEPT ![c] = None]
  /\ UNCHANGED <<row, effects>>

TakeCached(c) ==
  /\ Cached(key[c])
  /\ held' = [held EXCEPT ![c] = row[key[c]].result]
  /\ Goto(c, "returned")
  /\ UNCHANGED <<row, effects, key>>

CheckHit(c) == pc[c] = "check" /\ TakeCached(c)

CheckMiss(c) ==
  /\ pc[c] = "check"
  /\ ~Cached(key[c])
  /\ Goto(c, "claim")
  /\ UNCHANGED <<row, effects, key, held>>

\* A claim that replaces a row past its expiry.
ClaimableOverExpired(k) == row[k].state = "absent" \/ ~row[k].live

\* INSERT ... ON CONFLICT (key) DO NOTHING: an expired row still conflicts.
Claimable(k) == row[k].state = "absent"

ClaimWon(c) ==
  /\ pc[c] = "claim"
  /\ Claimable(key[c])
  /\ row' = [row EXCEPT ![key[c]] = [state |-> "pending", live |-> TRUE, result |-> None]]
  /\ Goto(c, "effect")
  /\ UNCHANGED <<effects, key, held>>

ClaimLost(c) ==
  /\ pc[c] = "claim"
  /\ ~Claimable(key[c])
  /\ Goto(c, "poll")
  /\ UNCHANGED <<row, effects, key, held>>

Effect(c, v) ==
  /\ pc[c] = "effect"
  /\ effects' = [effects EXCEPT ![key[c]] = Append(@, v)]
  /\ held' = [held EXCEPT ![c] = v]
  /\ Goto(c, "complete")
  /\ UNCHANGED <<row, key>>

\* effect_fn raises; the exception leaves execute_once() and the claim stays.
EffectRaises(c) ==
  /\ pc[c] = "effect"
  /\ Goto(c, "raised")
  /\ UNCHANGED <<row, effects, key, held>>

\* A guard that releases the claim when effect_fn raises.
EffectReplyLostReleasing(c, v) ==
  /\ pc[c] = "effect"
  /\ effects' = [effects EXCEPT ![key[c]] = Append(@, v)]
  /\ row' = [row EXCEPT ![key[c]] = NoRow]
  /\ Goto(c, "raised")
  /\ UNCHANGED <<key, held>>

\* ... or raises although the effect took place (its reply was lost).
EffectReplyLost(c, v) ==
  /\ pc[c] = "effect"
  /\ effects' = [effects EXCEPT ![key[c]] = Append(@, v)]
  /\ Goto(c, "raised")
  /\ UNCHANGED <<row, key, held>>

Complete(c) ==
  /\ pc[c] = "complete"
  /\ row' = [row EXCEPT ![key[c]].state = "done", ![key[c]].result = held[c]]
  /\ Goto(c, "returned")
  /\ UNCHANGED <<effects, key, held>>

PollHit(c) == pc[c] = "poll" /\ TakeCached(c)

\* A poll loop without a deadline.
PollForever(c) == pc[c] = "poll" /\ UNCHANGED guardVars

\* The deadline is read before each check and not after the last sleep, so a
\* poll can time out at any moment, cached result or not.
PollTimeout(c) ==
  /\ pc[c] = "poll"
  /\ Goto(c, "timeout")
  /\ UNCHANGED <<row, effects, key, held>>

-------------------------------------------------------------------------------
(* The environment: time reaches expires_at, a process stops.              *)
Expire(k) ==
  /\ row[k].live
  /\ row' = [row EXCEPT ![k].live = FALSE]
  /\ UNCHANGED <<effects, pc, key, held>>

Crash(h) ==
  /\ pc' = [c \in Callers |-> IF HostOf[c] = h THEN "crashed" ELSE pc[c]]
  /\ held' = [c \in Callers |-> IF HostOf[c] = h THEN None ELSE held[c]]
  /\ UNCHANGED <<row, effects, key>>

\* What a started invocation does on its own: the code between two awaits
\* always runs on, and the poll loop ends at its deadline.
Step(c) ==
  \/ CheckHit(c)
  \/ CheckMiss(c)
  \/ ClaimWon(c)
  \/ ClaimLost(c)
  \/ \E v \in Results : Effect(c, v) \/ EffectReplyLost(c, v)
  \/ EffectRaises(c)
  \/ Complete(c)
  \/ PollHit(c)
  \/ PollTimeout(c)

GuardNext ==
  \/ \E c \in Callers : Step(c) \/ \E k \in Keys : Invoke(c, k)
  \/ \E k \in Keys : Expire(k)
  \/ \E h \in Hosts : Crash(h)

GuardSpec == GuardInit /\ [][GuardNext]_guardVars

FairGuardSpec == GuardSpec /\ \A c \in Callers : WF_guardVars(Step(c))
-------------------------------------------------------------------------------
(* The effect of a key happens at most once, however many callers, crashes,*)
(* retries and expiries there are (guard.py "Guarantees at-most-once       *)
(* execution of an authoritative effect").                                 *)
AtMostOnce == \A k \in Keys : Len(effects[k]) <= 1

(* A caller that returns holds the result of the one effect of its key,    *)
(* so an answer proves the effect happened and all answers agree, also     *)
(* when a caller completes a row that expired meanwhile.                   *)
AnswerIsTheEffect ==
  \A c \in Callers : pc[c] = "returned" => effects[key[c]] = <<held[c]>>

(* A claim whose owner is gone is dead: no later step of anyone takes it   *)
(* over or gives the key a result, so the effect is skipped rather than    *)
(* repeated (the row stays pending, and every later caller times out).     *)
Owned(k) == \E c \in Callers : key[c] = k /\ pc[c] \in {"effect", "complete"}

AbandonedStaysPending ==
  [][\A k \in Keys : row[k].state = "pending" /\ ~Owned(k) =>
       /\ row'[k].state = "pending" /\ ~Owned(k)'
       /\ effects'[k] = effects[k]]_guardVars

(* Every invocation ends: a loser never polls past its deadline.           *)
EveryCallEnds ==
  \A c \in Callers : (pc[c] \in Running) ~> (pc[c] \in Ended)

(* The guard implements OnceEffect.                                        *)
Outcome == [k \in Keys |-> IF effects[k] = <<>> THEN None ELSE Head(effects[k])]
Told == [c \in Callers |-> IF pc[c] = "returned" THEN <<key[c], held[c]>> ELSE <<>>]

Once == INSTANCE OnceEffect WITH done <- Outcome, told <- Told

ImplementsOnce == Once!Spec
===============================================================================
