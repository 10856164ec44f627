---------------------------- MODULE MCTurnNoCrash -----------------------------
(* The call of MCTurnCommit beside a second session of it that never       *)
(* crashes: it records what the live session records, and the turn that a  *)
(* restart cuts off between its publication and its recording.             *)
EXTENDS MCTurnCommit

VARIABLE noCrash    \* turn count of the session that never crashes

Recorded == {c \in Callers : RecordTurn(c) \/ SnapshotRaises(c)}
CutOff == IF up /\ ~up' THEN {c \in Callers : InFlight(c)} ELSE {}

\* Redis answers every XADD, so that only retries of turns are left.
Answered == ~\E c \in Callers : PublishReplyLost(c)

NoCrashSpec ==
  /\ TurnInit /\ noCrash = 0
  /\ [][TurnNext /\ Answered /\ noCrash' = noCrash + Cardinality(Recorded \cup CutOff)]_<<vars, noCrash>>

(* Recovery leaves the session in the state "identical to what it would    *)
(* have been had it never crashed" (libs/state/replay.py:3-6).             *)
RecoveryIsExact == [][~up /\ up' => session'.count = noCrash]_<<vars, noCrash>>
===============================================================================
