---------------------------- MODULE CommitThenAct ----------------------------
(***************************************************************************)
(* What handle_turn() promises for a call, without the guard, the session, *)
(* its snapshots or the recovery: the decision of a turn is appended to    *)
(* the event stream at most once and never moves, each after the ones that *)
(* are there, and a turn is acted on only after its decision is there      *)
(* (RI-4).  A restart takes nothing of it back.  TurnCommit implements     *)
(* this specification.                                                     *)
(***************************************************************************)
EXTENDS Naturals

CONSTANT Turns

VARIABLES
  entries,   \* Turns -> the positions on the stream that hold its decision
  acted      \* the turns whose output has started

commitVars == <<entries, acted>>

Init ==
  /\ entries = [t \in Turns |-> {}]
  /\ acted = {}

Commit(t, p) ==
  /\ entries[t] = {}
  /\ \A u \in Turns : \A q \in entries[u] : q < p
  /\ entries' = [entries EXCEPT ![t] = {p}]
  /\ UNCHANGED acted

Act(t) ==
  /\ entries[t] # {}
  /\ acted' = acted \cup {t}
  /\ UNCHANGED entries

Next == \E t \in Turns : Act(t) \/ \E p \in entries'[t] : Commit(t, p)

Spec == Init /\ [][Next]_commitVars
===============================================================================
