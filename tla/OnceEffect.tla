------------------------------ MODULE OnceEffect ------------------------------
(***************************************************************************)
(* What IdempotencyGuard.execute_once() promises its callers, without the  *)
(* table, the claim or the polling: the effect of a key happens at most    *)
(* once, in one step, and whoever is answered is answered with the result  *)
(* of that one effect.  IdempotencyGuard implements this specification.    *)
(***************************************************************************)
CONSTANTS Callers, Keys, Results, None

VARIABLES
  done,     \* Keys -> the result of the effect of the key, None before it
  told      \* Callers -> <<key, result>> of the answer it holds, or <<>>

onceVars == <<done, told>>

Init ==
  /\ done = [k \in Keys |-> None]
  /\ told = [c \in Callers |-> <<>>]

Perform(k, v) ==
  /\ done[k] = None
  /\ done' = [done EXCEPT ![k] = v]
  /\ UNCHANGED told

Answer(c, k) ==
  /\ done[k] # None
  /\ told[c] = <<>>
  /\ told' = [told EXCEPT ![c] = <<k, done[k]>>]
  /\ UNCHANGED done

\* Callers discard an answer when they ask again, or lose it in a crash; a
\* crash of a process loses the answers of all its callers in one step.
Forget(S) ==
  /\ told' = [c \in Callers |-> IF c \in S THEN <<>> ELSE told[c]]
  /\ UNCHANGED done

Next ==
  \/ \E k \in Keys, v \in Results : Perform(k, v)
  \/ \E c \in Callers, k \in Keys : Answer(c, k)
  \/ \E S \in SUBSET Callers : Forget(S)

Spec == Init /\ [][Next]_onceVars
===============================================================================
