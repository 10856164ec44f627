----------------------------- MODULE MCTurnCommit -----------------------------
(* Two overlapping invocations of handle_turn() in the process that serves *)
(* the call.  A behaviour has a second restart, an entry of another call   *)
(* on the stream (before the restart) or, in a call of two turns, a first  *)
(* turn whose claim expires, and not two of these.                         *)
EXTENDS TurnCommit, TLC

CONSTANTS c1, c2, engine

MCHostOf == (c1 :> engine) @@ (c2 :> engine)

Foreign == \E j \in DOMAIN stream : stream[j] = ForeignEvent

\* Turns whose row is there and no longer valid.
Expired == {t \in Keys : row[t].state # "absent" /\ ~row[t].live}

MCNext == /\ TurnNext
          /\ Foreign' => crashes' < 2 /\ (Foreign \/ crashes = 0)
          /\ Expired' # {} => Expired' = {1} /\ crashes' < 2 /\ ~Foreign' /\ opened' < 3

MCSpec == TurnInit /\ [][MCNext]_vars

CallerSymmetry == Permutations({c1, c2})
===============================================================================
