------------------------------ MODULE TurnCommit ------------------------------
(***************************************************************************)
(* One call served by ConversationEngine.handle_turn(): the turn's         *)
(* DecisionEnvelope is published on the event stream under the             *)
(* IdempotencyGuard, the session records the turn and is snapshotted every *)
(* SnapshotEvery turns, and only then may the turn be spoken (RI-4).  A    *)
(* process restart loses the session; RecoveryManager with                 *)
(* CPURestartStrategy rebuilds it from the latest snapshot and the tail of *)
(* the stream, before the process serves again.                            *)
(*                                                                         *)
(* The engine is one event loop: from execute_once()'s first statement to  *)
(* take_snapshot() it awaits nothing that suspends (the adapter's XADD and *)
(* the SQL are synchronous), except a loser's sleep in the poll loop.  So  *)
(* one turn at a time is between its claim and its snapshot.               *)
(***************************************************************************)
EXTENDS IdempotencyGuard, FiniteSetsExt

CONSTANTS
  SnapshotEvery,   \* snapshot_every_n_turns
  MaxForeign,      \* bound: events of other calls on the stream
  MaxCrashes,      \* bound: process restarts
  MaxCount         \* bound: no turn starts at this turn count

ASSUME TurnAssumption ==
  /\ SnapshotEvery \in Nat \ {0}
  /\ Keys \subseteq Nat \ {0}       \* a turn's key is its number in the call
  /\ MaxCrashes \in Nat
  /\ \A c \in Callers, h \in Hosts : HostOf[c] = h   \* one process serves the call

VARIABLES
  stream,    \* the event stream; the id of an entry is its position
  session,   \* ConversationSessionState of the call, or NoSession
  snaps,     \* rows of the snapshots table for the call
  stage,     \* Callers -> how far handle_turn() is: "commit", "speak", "done"
  up,        \* the process serves turns
  spoken,    \* turns whose LLM and TTS output has started
  recorded,  \* history: turns the current session counts
  clean,     \* history: no turn was recorded again, no XADD reply was lost
  opened,    \* turns the dialogue manager has opened, in order
  crashes    \* history: restarts so far

turnVars == <<stream, session, snaps, stage, up, spoken, recorded, clean, opened, crashes>>
vars == <<guardVars, turnVars>>

\* Entries: a decision of this call, its recovery events, other calls' events.
Decision(t) == [type |-> "decision.made", call |-> "this", turn |-> t]
RecoveryEvent == [type |-> "reliability.recovery", call |-> "this", turn |-> None]
ForeignEvent == [type |-> "decision.made", call |-> "other", turn |-> None]

IsDecision(e) == e.type = "decision.made" /\ e.call = "this"
DecisionsIn(s) == {j \in DOMAIN s : IsDecision(s[j])}

\* offset 0 stands for "-", the start of the stream.
NoSession == [count |-> 0, version |-> 0, offset |-> 0]
Sessions == [count : Nat, version : Nat, offset : Nat]

TurnTypeOK ==
  /\ TypeOK
  /\ stream \in Seq({Decision(t) : t \in Keys} \cup {RecoveryEvent, ForeignEvent})
  /\ session \in Sessions
  /\ snaps \subseteq Sessions
  /\ stage \in [Callers -> {"commit", "speak", "done"}]
  /\ up \in BOOLEAN /\ clean \in BOOLEAN
  /\ spoken \subseteq Keys /\ recorded \subseteq Keys
  /\ opened \in Nat /\ crashes \in 0..MaxCrashes

TurnInit ==
  /\ GuardInit
  /\ stream = <<>>
  /\ session = NoSession
  /\ snaps = {}
  /\ stage = [c \in Callers |-> "done"]
  /\ up = TRUE
  /\ spoken = {}
  /\ recorded = {}
  /\ clean = TRUE
  /\ opened = 0
  /\ crashes = 0

\* Between the claim and the snapshot a turn does not yield the event loop.
InSection(c) == stage[c] = "commit" /\ pc[c] \in {"claim", "effect", "complete", "returned"}

LoopFree(c) == \A d \in Callers \ {c} : ~InSection(d)

\* handle_turn() has returned or raised.
Over(c) == pc[c] \in Ended \ {"returned"} \/ (pc[c] = "returned" /\ stage[c] = "done")

-------------------------------------------------------------------------------
(* handle_turn() for the next turn or, by a caller that retries, for one   *)
(* that was handled before.  Turns are numbered in the order they open.    *)
HandleTurn(c, t) ==
  /\ up
  /\ t <= opened + 1
  /\ opened' = IF t > opened THEN t ELSE opened
  /\ Over(c)
  /\ session.count < MaxCount
  /\ Invoke(c, t)
  /\ stage' = [stage EXCEPT ![c] = "commit"]
  /\ UNCHANGED <<stream, session, snaps, up, spoken, recorded, clean, crashes>>

\* The steps of execute_once() that do not publish.
GuardOnly(c) ==
  /\ LoopFree(c)
  /\ \/ CheckHit(c) \/ CheckMiss(c) \/ ClaimWon(c) \/ ClaimLost(c)
     \/ Complete(c) \/ EffectRaises(c) \/ PollHit(c) \/ PollTimeout(c)
  /\ UNCHANGED turnVars

\* _publish_decision_envelope(): XADD, whose entry id is the result.
Publish(c) ==
  /\ LoopFree(c)
  /\ \E v \in Results : v = Len(stream) + 1 /\ Effect(c, v)
  /\ stream' = Append(stream, Decision(key[c]))
  /\ UNCHANGED <<session, snaps, stage, up, spoken, recorded, clean, opened, crashes>>

PublishReplyLost(c) ==
  /\ LoopFree(c)
  /\ \E v \in Results : v = Len(stream) + 1 /\ EffectReplyLost(c, v)
  /\ stream' = Append(stream, Decision(key[c]))
  /\ clean' = FALSE
  /\ UNCHANGED <<session, snaps, stage, up, spoken, recorded, opened, crashes>>

\* take_snapshot(): the version advances even when ON CONFLICT drops the row.
Stored(s) == IF \E r \in snaps : r.version = s.version THEN snaps ELSE snaps \cup {s}

Due(s) == s.count % SnapshotEvery = 0

\* record_turn() that leaves the offset it had.
AdvanceInPlace(s, id) == [s EXCEPT !.count = @ + 1]

Advance(s, id) == [s EXCEPT !.count = @ + 1, !.offset = id]

\* record_turn() under the id execute_once() returned.
Record(c) ==
  /\ LoopFree(c)
  /\ pc[c] = "returned" /\ stage[c] = "commit"
  /\ LET s == Advance(session, held[c])
     IN session' = IF Due(s) THEN [s EXCEPT !.version = @ + 1] ELSE s
  /\ clean' = (clean /\ key[c] \notin recorded)
  /\ recorded' = recorded \cup {key[c]}
  /\ UNCHANGED <<guardVars, stream, up, spoken, opened, crashes>>

\* ... then the snapshot, if this is its turn.
RecordTurn(c) ==
  /\ Record(c)
  /\ snaps' = IF session'.version > session.version THEN Stored(session') ELSE snaps
  /\ stage' = [stage EXCEPT ![c] = "speak"]

\* The snapshot's INSERT raises, stored or not, and handle_turn() with it.
SnapshotRaises(c) ==
  /\ Record(c)
  /\ session'.version > session.version
  /\ snaps' \in {snaps, Stored(session')}
  /\ stage' = [stage EXCEPT ![c] = "done"]

\* A turn spoken although its commit timed out.
SpeakUncommitted(c) ==
  /\ pc[c] \in {"returned", "timeout"} /\ stage[c] # "done"
  /\ spoken' = spoken \cup {key[c]}
  /\ stage' = [stage EXCEPT ![c] = "done"]
  /\ UNCHANGED <<guardVars, stream, session, snaps, up, recorded, clean, opened, crashes>>

\* Step 5 of handle_turn(): tokens are generated, synthesised and enqueued.
Speak(c) ==
  /\ pc[c] = "returned" /\ stage[c] = "speak"
  /\ spoken' = spoken \cup {key[c]}
  /\ stage' = [stage EXCEPT ![c] = "done"]
  /\ UNCHANGED <<guardVars, stream, session, snaps, up, recorded, clean, opened, crashes>>

\* generate_stream() raises: the turn is committed and nothing of it is heard.
OutputRaises(c) ==
  /\ pc[c] = "returned" /\ stage[c] = "speak"
  /\ stage' = [stage EXCEPT ![c] = "done"]
  /\ UNCHANGED <<guardVars, stream, session, snaps, up, spoken, recorded, clean, opened, crashes>>

\* Another call, or another component, appends to the same stream; so does a
\* recovery whose strategy fails, which leaves its started event only.
OtherCall ==
  /\ Cardinality({j \in DOMAIN stream : stream[j] = ForeignEvent}) < MaxForeign
  /\ stream' = Append(stream, ForeignEvent)
  /\ UNCHANGED <<guardVars, session, snaps, stage, up, spoken, recorded, clean, opened, crashes>>

\* A turn is on the stream and its caller has not recorded it yet.
InFlight(c) ==
  \/ pc[c] = "complete"
  \/ pc[c] = "returned" /\ stage[c] = "commit" /\ key[c] \notin recorded

\* The TTL of a turn's claim runs out, whatever state its row is in.
ClaimExpires(t) == Expire(t) /\ UNCHANGED turnVars

Restart(h) ==
  /\ up
  /\ crashes < MaxCrashes
  /\ Crash(h)
  /\ up' = FALSE
  /\ session' = NoSession
  /\ stage' = [c \in Callers |-> "done"]
  /\ crashes' = crashes + 1
  /\ UNCHANGED <<stream, snaps, spoken, recorded, clean, opened>>

-------------------------------------------------------------------------------
(* load_latest_snapshot() and EventTailReplay.replay_from_snapshot().      *)
Latest == CHOOSE s \in snaps : \A r \in snaps : r.version <= s.version

\* XRANGE from the offset is inclusive; the entry of the snapshot is skipped.
EventTailInclusive(s, from) == {j \in DecisionsIn(s) : j >= from}

EventTail(s, from) == {j \in DecisionsIn(s) : j > from}

\* restore() without the version counter.
RestoredVersionZero(s) == [s EXCEPT !.version = 0]

Restored(s) == s

Recovered(s) ==
  LET base == IF snaps = {} THEN NoSession ELSE Restored(Latest)
  IN [base EXCEPT !.count = @ + Cardinality(EventTail(s, base.offset))]

\* RecoveryManager.recover(): started event, strategy, completed event.
Recover ==
  /\ ~up
  /\ session' = Recovered(Append(stream, RecoveryEvent))
  /\ stream' = stream \o <<RecoveryEvent, RecoveryEvent>>
  /\ up' = TRUE
  /\ recorded' = {stream[j].turn : j \in DecisionsIn(stream)}
  /\ UNCHANGED <<guardVars, snaps, stage, spoken, clean, opened, crashes>>

-------------------------------------------------------------------------------
TurnStep(c) ==
  \/ GuardOnly(c) \/ Publish(c) \/ PublishReplyLost(c)
  \/ RecordTurn(c) \/ SnapshotRaises(c)
  \/ Speak(c) \/ OutputRaises(c)

TurnNext ==
  \/ \E c \in Callers : TurnStep(c) \/ \E t \in Keys : HandleTurn(c, t)
  \/ OtherCall
  \/ \E t \in Keys : ClaimExpires(t)
  \/ \E h \in Hosts : Restart(h)
  \/ Recover

TurnSpec == TurnInit /\ [][TurnNext]_vars

-------------------------------------------------------------------------------
(* A turn's decision is on the stream at most once, retries, restarts and  *)
(* claims whose TTL runs out included (engine.py:506-508, guard.py:34): a  *)
(* retry that finds an expired row loses the claim and times out.          *)
PublishedOnce ==
  \A i, j \in DecisionsIn(stream) : stream[i].turn = stream[j].turn => i = j

(* RI-4, commit before act: whatever was spoken was committed to the       *)
(* stream before, also when the speaker only got a cached entry id.        *)
CommitBeforeAct ==
  \A t \in spoken : \E j \in DecisionsIn(stream) : stream[j].turn = t

(* In a call whose turns are not retried, the session counts exactly the   *)
(* decisions on the stream, after any number of restarts in any place;     *)
(* the only one it may lag behind is the turn being recorded.              *)
Lag == Cardinality({c \in Callers : InFlight(c)})

TurnsAccounted ==
  up /\ clean => session.count + Lag = Cardinality(DecisionsIn(stream))

(* Every stored snapshot counts exactly the decisions up to its offset, so *)
(* the tail after the offset is what recovery has to add.                  *)
SnapshotsFaithful ==
  clean => \A s \in snaps :
    s.count = Cardinality({j \in DecisionsIn(stream) : j <= s.offset})

(* The live session is at or past the last version of the table, across    *)
(* restarts and failed inserts: the version it takes next is free, and no  *)
(* snapshot is dropped by ON CONFLICT (call_id, version).                  *)
NoSnapshotDropped ==
  up => \A s \in snaps : s.version <= session.version

(* All of the above about the stream and the output, step by step: no step *)
(* of a retry, a restart or a recovery publishes a turn again, moves or    *)
(* takes back a decision, puts one before another that is there, or speaks *)
(* a turn without one (engine.py:506-527).                                 *)
Entries == [t \in Keys |-> {j \in DecisionsIn(stream) : stream[j].turn = t}]

Promise == INSTANCE CommitThenAct WITH Turns <- Keys, entries <- Entries, acted <- spoken

ImplementsCommitThenAct == Promise!Spec
===============================================================================
