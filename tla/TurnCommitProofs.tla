--------------------------- MODULE TurnCommitProofs ---------------------------
(***************************************************************************)
(* For any callers, turns and bounds: handle_turn() uses the guard as      *)
(* IdempotencyGuard specifies it, a turn is published at most once and     *)
(* nothing is spoken before its decision is on the stream.                 *)
(*                                                                         *)
(* The link between the two components is StreamInv: an effect the guard   *)
(* counts for a turn is that turn's entry on the stream, and conversely.   *)
(***************************************************************************)
EXTENDS TurnCommit, IdempotencyGuardProofs, FiniteSetTheorems

StreamInv ==
  /\ stream \in Seq({Decision(t) : t \in Keys} \cup {RecoveryEvent, ForeignEvent})
  /\ \A j \in DecisionsIn(stream) : stream[j].turn \in Keys /\ effects[stream[j].turn] = <<j>>
  /\ \A t \in Keys, j \in Results :
       effects[t] = <<j>> => j \in DOMAIN stream /\ stream[j] = Decision(t)

TurnInv == GuardInv /\ StreamInv /\ CommitBeforeAct

\* Every step of the engine is a step of the guard or leaves it alone.
LEMMA TurnStepIsGuardStep == [TurnNext]_vars => [GuardNext]_guardVars
<1> SUFFICES ASSUME [TurnNext]_vars PROVE [GuardNext]_guardVars
    OBVIOUS
<1>1. ASSUME NEW c \in Callers, NEW t \in Keys, HandleTurn(c, t) PROVE GuardNext
      BY <1>1 DEF HandleTurn, GuardNext
<1>2. ASSUME NEW c \in Callers, GuardOnly(c) PROVE GuardNext
      BY <1>2 DEF GuardOnly, GuardNext, Step
<1>3. ASSUME NEW c \in Callers, Publish(c) \/ PublishReplyLost(c) PROVE GuardNext
      BY <1>3 DEF Publish, PublishReplyLost, GuardNext, Step
<1>4. ASSUME NEW c \in Callers,
             RecordTurn(c) \/ SnapshotRaises(c) \/ Speak(c) \/ OutputRaises(c)
      PROVE  UNCHANGED guardVars
      BY <1>4 DEF RecordTurn, SnapshotRaises, Record, Speak, OutputRaises
<1>5. CASE OtherCall \/ Recover
      BY <1>5 DEF OtherCall, Recover
<1>6. ASSUME NEW h \in Hosts, Restart(h) PROVE GuardNext
      BY <1>6 DEF Restart, GuardNext
<1>7. ASSUME NEW t \in Keys, ClaimExpires(t) PROVE GuardNext
      BY <1>7 DEF ClaimExpires, GuardNext
<1>8. CASE UNCHANGED vars BY <1>8 DEF vars
<1> QED BY <1>1, <1>2, <1>3, <1>4, <1>5, <1>6, <1>7, <1>8 DEF TurnNext, TurnStep

(* handle_turn() implements the guard's specification: all that is proved  *)
(* of the guard holds of the decisions of a call.                          *)
THEOREM TurnImplementsGuard == TurnSpec => GuardSpec
<1>1. TurnInit => GuardInit BY DEF TurnInit
<1> QED BY <1>1, TurnStepIsGuardStep, PTL DEF TurnSpec, GuardSpec

(* ... and so whatever OnceEffect promises of a key holds of a turn: one   *)
(* publication, in one step, and every answer is its entry id.             *)
THEOREM TurnImplementsOnce == TurnSpec => ImplementsOnce
  BY TurnImplementsGuard, GuardImplementsOnce, PTL

\* Appending an entry keeps the entries before it.
LEMMA AppendKeeps ==
  ASSUME NEW S, NEW s \in Seq(S), NEW e \in S
  PROVE  /\ Append(s, e) \in Seq(S)
         /\ DOMAIN Append(s, e) = DOMAIN s \cup {Len(s) + 1}
         /\ Len(s) + 1 \notin DOMAIN s
         /\ Append(s, e)[Len(s) + 1] = e
         /\ \A j \in DOMAIN s : Append(s, e)[j] = s[j]
  OBVIOUS

\* A step that leaves the effects alone and appends no decision of this call.
LEMMA StreamKept ==
  ASSUME TypeOK, StreamInv, effects' = effects,
         NEW T \in Seq({RecoveryEvent, ForeignEvent}), stream' = stream \o T
  PROVE  StreamInv' /\ DecisionsIn(stream') = DecisionsIn(stream)
         /\ \A j \in DOMAIN stream : stream'[j] = stream[j]
<1> DEFINE E == {Decision(t) : t \in Keys} \cup {RecoveryEvent, ForeignEvent}
<1>1. stream \in Seq(E) /\ T \in Seq(E) /\ stream' \in Seq(E)
    BY DEF StreamInv
<1>2. \A j \in DOMAIN stream : j \in DOMAIN stream' /\ stream'[j] = stream[j]
    BY <1>1
<1>3. \A j \in DOMAIN stream' : j \notin DOMAIN stream => stream'[j] \in {RecoveryEvent, ForeignEvent}
    BY <1>1
<1>4. \A j \in DOMAIN stream' : j \notin DOMAIN stream => ~IsDecision(stream'[j])
    BY <1>3 DEF IsDecision, RecoveryEvent, ForeignEvent
<1>5. DecisionsIn(stream') = DecisionsIn(stream)
    BY <1>2, <1>4 DEF DecisionsIn
<1>6. \A j \in DecisionsIn(stream) : j \in DOMAIN stream BY DEF DecisionsIn
<1> QED BY <1>1, <1>2, <1>5, <1>6 DEF StreamInv

\* A publication adds the decision of its turn, the first, at the end.
LEMMA PublishAppends ==
  ASSUME GuardInv, StreamInv, NEW c \in Callers, Publish(c) \/ PublishReplyLost(c)
  PROVE  /\ key[c] \in Keys /\ effects[key[c]] = <<>>
         /\ Len(stream) \in Nat /\ Len(stream') = Len(stream) + 1
         /\ stream' \in Seq({Decision(t) : t \in Keys} \cup {RecoveryEvent, ForeignEvent})
         /\ DOMAIN stream' = DOMAIN stream \cup {Len(stream) + 1}
         /\ stream'[Len(stream) + 1] = Decision(key[c])
         /\ DecisionsIn(stream') = DecisionsIn(stream) \cup {Len(stream) + 1}
         /\ \A j \in DOMAIN stream : stream'[j] = stream[j]
         /\ \A j \in DecisionsIn(stream) : j \in 1..Len(stream) /\ stream'[j] = stream[j]
<1> DEFINE E == {Decision(t) : t \in Keys} \cup {RecoveryEvent, ForeignEvent}
           n == Len(stream) + 1
           k == key[c]
<1>1. pc[c] = "effect" /\ stream' = Append(stream, Decision(k))
    BY DEF Publish, PublishReplyLost, Effect, EffectReplyLost
<1>2. k \in Keys /\ effects[k] = <<>> BY <1>1 DEF GuardInv, TypeOK, OwnerInv
<1>3. stream \in Seq(E) /\ Decision(k) \in E BY <1>2 DEF StreamInv
<1>4. Len(stream) \in Nat /\ DOMAIN stream = 1..Len(stream) /\ Len(stream') = n
    BY <1>1, <1>3
<1>5. /\ stream' \in Seq(E)
      /\ DOMAIN stream' = DOMAIN stream \cup {n}
      /\ stream'[n] = Decision(k)
      /\ \A j \in DOMAIN stream : stream'[j] = stream[j]
  <2> HIDE DEF E
  <2> QED BY <1>1, <1>3, AppendKeeps
<1>6. IsDecision(Decision(k)) BY DEF IsDecision, Decision
<1>7. DecisionsIn(stream') = DecisionsIn(stream) \cup {n} BY <1>5, <1>6 DEF DecisionsIn
<1>8. \A j \in DecisionsIn(stream) : j \in DOMAIN stream BY DEF DecisionsIn
<1> QED BY <1>2, <1>4, <1>5, <1>7, <1>8

\* The published entry is the one effect of its turn.
LEMMA StreamPublish ==
  ASSUME GuardInv, StreamInv, CommitBeforeAct,
         NEW c \in Callers, Publish(c) \/ PublishReplyLost(c)
  PROVE  StreamInv' /\ CommitBeforeAct'
<1> DEFINE E == {Decision(t) : t \in Keys} \cup {RecoveryEvent, ForeignEvent}
           n == Len(stream) + 1
           k == key[c]
<1>1. /\ n \in Results /\ pc[c] = "effect" /\ spoken' = spoken
      /\ effects' = [effects EXCEPT ![key[c]] = Append(@, n)]
      /\ stream' = Append(stream, Decision(k))
    BY DEF Publish, PublishReplyLost, Effect, EffectReplyLost
<1>2. /\ effects'[k] = <<n>>
      /\ \A t \in Keys : t # k => effects'[t] = effects[t]
    BY <1>1, PerformOnce
<1>3. k \in Keys /\ effects[k] = <<>> BY PublishAppends
<1>5. /\ stream' \in Seq(E)
      /\ DOMAIN stream' = DOMAIN stream \cup {n}
      /\ stream'[n] = Decision(k)
      /\ \A j \in DOMAIN stream : stream'[j] = stream[j]
    BY PublishAppends
<1>6. Decision(k).turn = k BY DEF Decision
<1>7. DecisionsIn(stream') = DecisionsIn(stream) \cup {n} BY PublishAppends
<1>8. \A j \in DecisionsIn(stream) : j \in DOMAIN stream /\ stream'[j] = stream[j]
    BY <1>5 DEF DecisionsIn
<1>9. \A x, y : Len(<<>>) = 0 /\ Len(<<x>>) = 1 /\ (<<x>> = <<y>> => x = y)
    OBVIOUS
<1>10. \A j \in DecisionsIn(stream') :
         stream'[j].turn \in Keys /\ effects'[stream'[j].turn] = <<j>>
  <2> SUFFICES ASSUME NEW j \in DecisionsIn(stream')
               PROVE  stream'[j].turn \in Keys /\ effects'[stream'[j].turn] = <<j>>
      OBVIOUS
  <2>1. CASE j = n BY <2>1, <1>2, <1>3, <1>5, <1>6
  <2>2. CASE j # n
    <3>1. j \in DecisionsIn(stream) /\ stream'[j] = stream[j] BY <2>2, <1>7, <1>8
    <3>2. stream[j].turn \in Keys /\ effects[stream[j].turn] = <<j>>
          BY <3>1 DEF StreamInv
    <3>3. stream[j].turn # k BY <3>2, <1>3, <1>9
    <3> QED BY <3>1, <3>2, <3>3, <1>2
  <2> QED BY <2>1, <2>2
<1>11. \A t \in Keys, j \in Results :
         effects'[t] = <<j>> => j \in DOMAIN stream' /\ stream'[j] = Decision(t)
  <2> SUFFICES ASSUME NEW t \in Keys, NEW j \in Results, effects'[t] = <<j>>
               PROVE  j \in DOMAIN stream' /\ stream'[j] = Decision(t)
      OBVIOUS
  <2>1. CASE t = k
    <3>1. j = n BY <2>1, <1>2, <1>9
    <3> QED BY <2>1, <3>1, <1>5
  <2>2. CASE t # k
    <3>1. j \in DOMAIN stream /\ stream[j] = Decision(t) BY <2>2, <1>2 DEF StreamInv
    <3> QED BY <3>1, <1>5
  <2> QED BY <2>1, <2>2
<1>12. CommitBeforeAct'
    BY <1>1, <1>7, <1>8 DEF CommitBeforeAct
<1> QED BY <1>5, <1>10, <1>11, <1>12 DEF StreamInv

\* What a caller was answered is the entry of its turn.
LEMMA AnswerOnStream ==
  ASSUME TurnInv, NEW c \in Callers, pc[c] \in {"complete", "returned"}
  PROVE  held[c] \in DecisionsIn(stream) /\ stream[held[c]].turn = key[c] /\ key[c] \in Keys
<1>1. key[c] \in Keys /\ effects[key[c]] = <<held[c]>> /\ effects[key[c]] \in Seq(Results)
    BY DEF TurnInv, GuardInv, AnswerIsTheEffect, TypeOK, OwnerInv
<1>2. \A x : Len(<<x>>) = 1 /\ <<x>>[1] = x OBVIOUS
<1>3. held[c] \in Results BY <1>1, <1>2
<1>4. held[c] \in DOMAIN stream /\ stream[held[c]] = Decision(key[c])
    BY <1>1, <1>3 DEF TurnInv, StreamInv
<1> QED BY <1>1, <1>4 DEF DecisionsIn, IsDecision, Decision

\* Other calls and recoveries append what is no decision of this call.
LEMMA OthersAppend ==
  ASSUME StreamInv, OtherCall \/ Recover
  PROVE  \E T \in Seq({RecoveryEvent, ForeignEvent}) : stream' = stream \o T
<1> HIDE DEF RecoveryEvent, ForeignEvent
<1>1. CASE OtherCall
  <2>1. stream' = stream \o <<ForeignEvent>> BY <1>1 DEF OtherCall, StreamInv
  <2>2. <<ForeignEvent>> \in Seq({RecoveryEvent, ForeignEvent}) OBVIOUS
  <2> QED BY <2>1, <2>2
<1>2. CASE Recover
  <2>1. stream' = stream \o <<RecoveryEvent, RecoveryEvent>> BY <1>2 DEF Recover
  <2>2. <<RecoveryEvent, RecoveryEvent>> \in Seq({RecoveryEvent, ForeignEvent}) OBVIOUS
  <2> QED BY <2>1, <2>2
<1> QED BY <1>1, <1>2

LEMMA TurnInitInv == TurnInit => TurnInv
<1> SUFFICES ASSUME TurnInit PROVE TurnInv
    OBVIOUS
<1>1. GuardInv BY GuardInitInv DEF TurnInit
<1>2. stream = <<>> /\ effects = [t \in Keys |-> <<>>] /\ spoken = {}
    BY DEF TurnInit, GuardInit
<1>3. DecisionsIn(stream) = {} BY <1>2 DEF DecisionsIn
<1>4. \A x : Len(<<>>) = 0 /\ Len(<<x>>) = 1 OBVIOUS
<1>5. StreamInv BY <1>2, <1>3, <1>4 DEF StreamInv
<1> QED BY <1>1, <1>2, <1>5 DEF TurnInv, CommitBeforeAct

LEMMA TurnStepInv == TurnInv /\ [TurnNext]_vars => TurnInv'
<1> SUFFICES ASSUME TurnInv, [TurnNext]_vars PROVE TurnInv'
    OBVIOUS
<1>1. GuardInv' BY TurnStepIsGuardStep, GuardStepInv DEF TurnInv
<1>2. TypeOK /\ StreamInv /\ CommitBeforeAct BY DEF TurnInv, GuardInv
<1>3. CASE UNCHANGED <<stream, effects, spoken>>
    BY <1>1, <1>2, <1>3 DEF TurnInv, StreamInv, CommitBeforeAct
<1>4. ASSUME NEW c \in Callers, NEW t \in Keys, HandleTurn(c, t) PROVE TurnInv'
    BY <1>3, <1>4 DEF HandleTurn, Invoke
<1>5. ASSUME NEW c \in Callers, GuardOnly(c) PROVE TurnInv'
    BY <1>3, <1>5 DEF GuardOnly, turnVars, CheckHit, CheckMiss, ClaimWon, ClaimLost,
                      Complete, EffectRaises, PollHit, PollTimeout, TakeCached
<1>6. ASSUME NEW c \in Callers, Publish(c) \/ PublishReplyLost(c) PROVE TurnInv'
    BY <1>1, <1>2, <1>6, StreamPublish DEF TurnInv
<1>7. ASSUME NEW c \in Callers, RecordTurn(c) \/ SnapshotRaises(c) \/ OutputRaises(c)
      PROVE  TurnInv'
    BY <1>3, <1>7 DEF RecordTurn, SnapshotRaises, Record, OutputRaises, guardVars
<1>8. ASSUME NEW c \in Callers, Speak(c) PROVE TurnInv'
  <2>1. /\ UNCHANGED <<stream, effects>> /\ pc[c] = "returned"
        /\ spoken' = spoken \cup {key[c]}
      BY <1>8 DEF Speak, guardVars
  <2>6. held[c] \in DecisionsIn(stream) /\ stream[held[c]].turn = key[c]
      BY <2>1, AnswerOnStream
  <2>7. CommitBeforeAct' BY <1>2, <2>1, <2>6 DEF CommitBeforeAct
  <2> QED BY <1>1, <1>2, <2>1, <2>7 DEF TurnInv, StreamInv
<1>9. CASE OtherCall \/ Recover
  <2>1. PICK T \in Seq({RecoveryEvent, ForeignEvent}) : stream' = stream \o T
      BY <1>2, <1>9, OthersAppend
  <2>2. effects' = effects /\ spoken' = spoken
      BY <1>9 DEF OtherCall, Recover, guardVars
  <2>3. StreamInv' /\ DecisionsIn(stream') = DecisionsIn(stream)
        /\ \A j \in DOMAIN stream : stream'[j] = stream[j]
      BY <1>2, <2>1, <2>2, StreamKept
  <2>4. \A j \in DecisionsIn(stream) : stream'[j] = stream[j] BY <2>3 DEF DecisionsIn
  <2> QED BY <1>1, <1>2, <2>2, <2>3, <2>4 DEF TurnInv, CommitBeforeAct
<1>10. ASSUME NEW h \in Hosts, Restart(h) PROVE TurnInv'
    BY <1>3, <1>10 DEF Restart, Crash
<1>11. ASSUME NEW t \in Keys, ClaimExpires(t) PROVE TurnInv'
    BY <1>3, <1>11 DEF ClaimExpires, Expire, turnVars
<1>12. CASE UNCHANGED vars
    BY <1>3, <1>12 DEF vars, guardVars, turnVars
<1> QED
    BY <1>4, <1>5, <1>6, <1>7, <1>8, <1>9, <1>10, <1>11, <1>12 DEF TurnNext, TurnStep

(* The effects the guard counts are the decisions on the stream.           *)
THEOREM TurnInvariant == TurnSpec => []TurnInv
  BY TurnInitInv, TurnStepInv, PTL DEF TurnSpec

(* A turn's decision is on the stream at most once, however often the turn *)
(* is retried and the process restarts, also by a retry that comes after   *)
(* the TTL of its claim has run out.                                       *)
THEOREM TurnPublishedOnce == TurnSpec => []PublishedOnce
<1>1. TurnInv => PublishedOnce
  <2> SUFFICES ASSUME TurnInv, NEW i \in DecisionsIn(stream), NEW j \in DecisionsIn(stream),
                      stream[i].turn = stream[j].turn
               PROVE  i = j
      BY DEF PublishedOnce
  <2>1. <<i>> = <<j>> BY DEF TurnInv, StreamInv
  <2> QED BY <2>1
<1> QED BY <1>1, TurnInvariant, PTL

(* RI-4: nothing is spoken whose decision is not on the stream.            *)
THEOREM SpokenIsCommitted == TurnSpec => []CommitBeforeAct
<1>1. TurnInv => CommitBeforeAct BY DEF TurnInv
<1> QED BY <1>1, TurnInvariant, PTL

-------------------------------------------------------------------------------
(* The steps of handle_turn() as steps of CommitThenAct.                   *)
LEMMA EntriesOf ==
  ASSUME NEW t \in Keys PROVE Entries[t] = {j \in DecisionsIn(stream) : stream[j].turn = t}
  BY DEF Entries

LEMMA EntriesKept ==
  ASSUME DecisionsIn(stream') = DecisionsIn(stream),
         \A j \in DecisionsIn(stream) : stream'[j] = stream[j]
  PROVE  Entries' = Entries
<1>1. ASSUME NEW t \in Keys
      PROVE  {j \in DecisionsIn(stream') : stream'[j].turn = t}
               = {j \in DecisionsIn(stream) : stream[j].turn = t}
    OBVIOUS
<1> QED BY <1>1 DEF Entries

\* The publication of a turn is the first, and behind all that is there.
LEMMA PublishCommits ==
  ASSUME GuardInv, StreamInv, NEW c \in Callers, Publish(c) \/ PublishReplyLost(c)
  PROVE  Promise!Next
<1> DEFINE n == Len(stream) + 1
           k == key[c]
<1>1. /\ k \in Keys /\ effects[k] = <<>> /\ Len(stream) \in Nat
      /\ stream'[n] = Decision(k)
      /\ DecisionsIn(stream') = DecisionsIn(stream) \cup {n}
      /\ \A j \in DecisionsIn(stream) : j \in 1..Len(stream) /\ stream'[j] = stream[j]
    BY PublishAppends
<1>2. spoken' = spoken BY DEF Publish, PublishReplyLost
<1>3. \A x : <<x>> # <<>> OBVIOUS
<1>4. \A j \in DecisionsIn(stream) : stream[j].turn # k BY <1>1, <1>3 DEF StreamInv
<1>5. Entries[k] = {} BY <1>1, <1>4, EntriesOf
<1>6. \A u \in Keys : \A q \in Entries[u] : q < n
    BY <1>1, EntriesOf
<1>7. stream'[n].turn = k BY <1>1 DEF Decision
<1>8. ASSUME NEW t \in Keys
      PROVE  {j \in DecisionsIn(stream') : stream'[j].turn = t}
               = IF t = k THEN {n} ELSE Entries[t]
  <2>1. {j \in DecisionsIn(stream') : stream'[j].turn = t}
          = {j \in DecisionsIn(stream) : stream[j].turn = t} \cup (IF t = k THEN {n} ELSE {})
      BY <1>1, <1>7
  <2> QED BY <2>1, <1>5, EntriesOf
<1>9. Entries' = [t \in Keys |-> IF t = k THEN {n} ELSE Entries[t]] BY <1>8 DEF Entries
<1>10. Entries' = [Entries EXCEPT ![k] = {n}] BY <1>9 DEF Entries
<1>11. Entries'[k] = {n} BY <1>1, <1>9
<1>12. Promise!Commit(k, n) BY <1>2, <1>5, <1>6, <1>10 DEF Promise!Commit
<1> QED BY <1>1, <1>11, <1>12 DEF Promise!Next

\* What is spoken is acted on after its decision was appended.
LEMMA SpeakActs ==
  ASSUME TurnInv, NEW c \in Callers, Speak(c)
  PROVE  Promise!Next
<1>1. /\ stream' = stream /\ pc[c] = "returned" /\ spoken' = spoken \cup {key[c]}
    BY DEF Speak
<1>2. held[c] \in DecisionsIn(stream) /\ stream[held[c]].turn = key[c] /\ key[c] \in Keys
    BY <1>1, AnswerOnStream
<1>3. Entries[key[c]] # {} BY <1>2, EntriesOf
<1>4. Entries' = Entries BY <1>1, EntriesKept
<1> QED BY <1>1, <1>2, <1>3, <1>4 DEF Promise!Act, Promise!Next

LEMMA TurnStepPromise ==
  ASSUME TurnInv, [TurnNext]_vars
  PROVE  [Promise!Next]_(Promise!commitVars)
<1>1. CASE UNCHANGED <<stream, spoken>>
  <2>1. Entries' = Entries BY <1>1, EntriesKept
  <2> QED BY <1>1, <2>1 DEF Promise!commitVars
<1>2. ASSUME NEW c \in Callers, NEW t \in Keys, HandleTurn(c, t)
      PROVE  UNCHANGED <<stream, spoken>>
    BY <1>2 DEF HandleTurn
<1>3. ASSUME NEW c \in Callers,
             GuardOnly(c) \/ RecordTurn(c) \/ SnapshotRaises(c) \/ OutputRaises(c)
      PROVE  UNCHANGED <<stream, spoken>>
    BY <1>3 DEF GuardOnly, turnVars, RecordTurn, SnapshotRaises, Record, OutputRaises
<1>4. ASSUME NEW c \in Callers, Publish(c) \/ PublishReplyLost(c)
      PROVE  Promise!Next
    BY <1>4, PublishCommits DEF TurnInv
<1>5. ASSUME NEW c \in Callers, Speak(c) PROVE Promise!Next
    BY <1>5, SpeakActs
<1>6. CASE OtherCall \/ Recover
  <2>1. PICK T \in Seq({RecoveryEvent, ForeignEvent}) : stream' = stream \o T
      BY <1>6, OthersAppend DEF TurnInv
  <2>2. effects' = effects /\ spoken' = spoken
      BY <1>6 DEF OtherCall, Recover, guardVars
  <2>3. DecisionsIn(stream') = DecisionsIn(stream)
        /\ \A j \in DOMAIN stream : stream'[j] = stream[j]
      BY <2>1, <2>2, StreamKept DEF TurnInv, GuardInv
  <2>4. Entries' = Entries BY <2>3, EntriesKept DEF DecisionsIn
  <2> QED BY <2>2, <2>4 DEF Promise!commitVars
<1>7. ASSUME NEW h \in Hosts, Restart(h) PROVE UNCHANGED <<stream, spoken>>
    BY <1>7 DEF Restart
<1>8. CASE UNCHANGED vars \/ \E t \in Keys : ClaimExpires(t)
    BY <1>1, <1>8 DEF vars, turnVars, ClaimExpires
<1> QED
    BY <1>1, <1>2, <1>3, <1>4, <1>5, <1>6, <1>7, <1>8 DEF TurnNext, TurnStep

(* RI-4 step by step: through retries, lost replies, failed snapshots,     *)
(* restarts and recoveries, the decision of a turn is appended to the      *)
(* stream once, behind the others, it stays where it is, and the turn is   *)
(* spoken only after it is there.                                          *)
THEOREM TurnImplementsCommitThenAct == TurnSpec => ImplementsCommitThenAct
<1>1. TurnInit => Promise!Init
  <2> SUFFICES ASSUME TurnInit PROVE Promise!Init
      OBVIOUS
  <2>1. stream = <<>> /\ spoken = {} BY DEF TurnInit
  <2>2. DecisionsIn(stream) = {} BY <2>1 DEF DecisionsIn
  <2>3. Entries = [t \in Keys |-> {}] BY <2>2 DEF Entries
  <2> QED BY <2>1, <2>3 DEF Promise!Init
<1>2. TurnInv /\ [TurnNext]_vars => [Promise!Next]_(Promise!commitVars)
    BY TurnStepPromise
<1> QED
    BY <1>1, <1>2, TurnInvariant, PTL
    DEF TurnSpec, ImplementsCommitThenAct, Promise!Spec

-------------------------------------------------------------------------------
(* The session and its snapshots.  A session that may still record is of a *)
(* process that is up, so a version is only taken by the live session, and *)
(* the one recovery starts from is the last of the table.                  *)
LastOf(S, s) == s \in S /\ \A r \in S : r.version <= s.version

SessionTypes ==
  /\ session \in Sessions /\ snaps \subseteq Sessions
  /\ stage \in [Callers -> {"commit", "speak", "done"}]
  /\ up \in BOOLEAN /\ clean \in BOOLEAN
  /\ spoken \subseteq Keys /\ recorded \subseteq Keys
  /\ opened \in Nat /\ crashes \in 0..MaxCrashes

SessionInv ==
  /\ SessionTypes
  /\ \A c \in Callers : stage[c] # "done" => up
  /\ snaps = {} \/ \E s \in snaps : LastOf(snaps, s)
  /\ NoSnapshotDropped

LEMMA DecisionsFinite ==
  ASSUME NEW s, Len(s) \in Nat, DOMAIN s = 1..Len(s)
  PROVE  /\ DecisionsIn(s) \subseteq 1..Len(s) /\ IsFiniteSet(DecisionsIn(s))
         /\ \A T \in SUBSET DecisionsIn(s) : IsFiniteSet(T) /\ Cardinality(T) \in Nat
<1>1. DecisionsIn(s) \subseteq 1..Len(s) BY DEF DecisionsIn
<1>2. IsFiniteSet(1..Len(s)) BY FS_Interval
<1>3. IsFiniteSet(DecisionsIn(s)) BY <1>1, <1>2, FS_Subset
<1> QED BY <1>1, <1>3, FS_Subset, FS_CardinalityType

LEMMA AdvanceOK ==
  ASSUME NEW x \in Sessions, NEW id \in Nat
  PROVE  /\ Advance(x, id) \in Sessions /\ Advance(x, id).count = x.count + 1
         /\ Advance(x, id).offset = id /\ Advance(x, id).version = x.version
<1> DEFINE y == [x EXCEPT !.count = @ + 1]
<1>1. y \in Sessions /\ y.count = x.count + 1 /\ y.version = x.version BY DEF Sessions
<1>2. Advance(x, id) = [y EXCEPT !.offset = id] BY DEF Advance, Sessions
<1> HIDE DEF y
<1>3. /\ [y EXCEPT !.offset = id] \in Sessions /\ [y EXCEPT !.offset = id].offset = id
      /\ [y EXCEPT !.offset = id].count = y.count
      /\ [y EXCEPT !.offset = id].version = y.version
    BY <1>1 DEF Sessions
<1> QED BY <1>1, <1>2, <1>3

LEMMA RecordSession ==
  ASSUME TurnInv, SessionInv, NEW c \in Callers, Record(c)
  PROVE  /\ up /\ up' = up /\ stage[c] = "commit"
         /\ held[c] \in Nat \ {0} /\ key[c] \in Keys
         /\ session' \in Sessions
         /\ session'.count = session.count + 1 /\ session'.offset = held[c]
         /\ session'.version \in {session.version, session.version + 1}
         /\ SessionTypes' <=> (snaps' \subseteq Sessions
                               /\ stage' \in [Callers -> {"commit", "speak", "done"}])
<1>1. /\ stage[c] = "commit" /\ pc[c] = "returned" /\ up' = up
      /\ spoken' = spoken /\ opened' = opened /\ crashes' = crashes
      /\ clean' = (clean /\ key[c] \notin recorded)
      /\ recorded' = recorded \cup {key[c]}
    BY DEF Record
<1>2. up BY <1>1 DEF SessionInv
<1>3. held[c] \in Nat \ {0} /\ key[c] \in Keys
  <2>1. held[c] \in DecisionsIn(stream) /\ key[c] \in Keys BY <1>1, AnswerOnStream
  <2>2. held[c] \in DOMAIN stream BY <2>1 DEF DecisionsIn
  <2> QED BY <2>1, <2>2 DEF TurnInv, StreamInv
<1> DEFINE s == Advance(session, held[c])
<1>4. /\ session \in Sessions
      /\ session' = IF Due(s) THEN [s EXCEPT !.version = @ + 1] ELSE s
    BY DEF Record, SessionInv, SessionTypes
<1>5. /\ s \in Sessions /\ s.count = session.count + 1 /\ s.offset = held[c]
      /\ s.version = session.version
    BY <1>3, <1>4, AdvanceOK
<1> HIDE DEF s
<1>6. /\ session' \in Sessions
      /\ session'.count = session.count + 1 /\ session'.offset = held[c]
      /\ session'.version \in {session.version, session.version + 1}
    BY <1>4, <1>5 DEF Sessions
<1> QED BY <1>1, <1>2, <1>3, <1>6 DEF SessionInv, SessionTypes

LEMMA RecordInv ==
  ASSUME TurnInv, SessionInv, NEW c \in Callers, RecordTurn(c) \/ SnapshotRaises(c)
  PROVE  SessionInv'
<1>1. /\ Record(c)
      /\ \/ snaps' = snaps
         \/ session'.version > session.version /\ snaps' = Stored(session')
      /\ stage' \in [Callers -> {"commit", "speak", "done"}]
    BY DEF RecordTurn, SnapshotRaises, SessionInv, SessionTypes
<1>2. /\ up /\ up' = up /\ session \in Sessions /\ session' \in Sessions /\ snaps \subseteq Sessions
      /\ session'.version \in {session.version, session.version + 1}
    BY <1>1, RecordSession DEF SessionInv, SessionTypes
<1>3. /\ \A r \in snaps : r.version <= session.version /\ r.version \in Nat
      /\ session.version \in Nat /\ session'.version \in Nat
    BY <1>2 DEF SessionInv, NoSnapshotDropped, Sessions
<1>4. \A r \in snaps : r.version <= session'.version BY <1>2, <1>3
<1>5. CASE snaps' = snaps
  <2>1. SessionTypes' BY <1>1, <1>2, <1>5, RecordSession
  <2> QED BY <1>2, <1>4, <1>5, <2>1 DEF SessionInv, NoSnapshotDropped, LastOf
<1>6. CASE session'.version > session.version /\ snaps' = Stored(session')
  <2>1. \A r \in snaps : r.version # session'.version BY <1>3, <1>6
  <2>2. snaps' = snaps \cup {session'} BY <1>6, <2>1 DEF Stored
  <2>3. SessionTypes' BY <1>1, <1>2, <2>2, RecordSession
  <2>4. LastOf(snaps', session') BY <1>3, <1>4, <2>2 DEF LastOf
  <2>5. NoSnapshotDropped' BY <1>3, <1>4, <2>2 DEF NoSnapshotDropped
  <2> QED BY <1>2, <2>2, <2>3, <2>4, <2>5 DEF SessionInv, LastOf
<1> QED BY <1>1, <1>5, <1>6

\* The snapshot that recovery starts from is one that is last.
LEMMA LatestIsLast ==
  ASSUME SessionInv, snaps # {}
  PROVE  LastOf(snaps, Latest)
<1>1. PICK s \in snaps : \A r \in snaps : r.version <= s.version BY DEF SessionInv, LastOf
<1> QED BY <1>1 DEF Latest, LastOf

LEMMA RecoverInv ==
  ASSUME TurnInv, SessionInv, Recover
  PROVE  SessionInv'
<1> DEFINE base == IF snaps = {} THEN NoSession ELSE Latest
           s == Append(stream, RecoveryEvent)
<1>1. base \in Sessions /\ \A r \in snaps : r.version <= base.version
    BY LatestIsLast DEF SessionInv, SessionTypes, NoSession, Sessions, LastOf
<1>2. Cardinality(EventTail(s, base.offset)) \in Nat
  <2>1. Len(s) \in Nat /\ DOMAIN s = 1..Len(s) BY DEF TurnInv, StreamInv
  <2>2. EventTail(s, base.offset) \subseteq DecisionsIn(s) BY DEF EventTail
  <2> QED BY <2>1, <2>2, DecisionsFinite
<1>3. session' = [base EXCEPT !.count = @ + Cardinality(EventTail(s, base.offset))]
    BY DEF Recover, Recovered, Restored
<1> HIDE DEF base, s
<1>4. session' \in Sessions /\ session'.version = base.version
    BY <1>1, <1>2, <1>3 DEF Sessions
<1>5. recorded' \subseteq Keys BY DEF Recover, TurnInv, StreamInv
<1>6. up' = TRUE /\ UNCHANGED <<snaps, stage, spoken, clean, opened, crashes>> BY DEF Recover
<1>7. SessionTypes' BY <1>4, <1>5, <1>6 DEF SessionInv, SessionTypes
<1>8. NoSnapshotDropped' BY <1>1, <1>4, <1>6 DEF NoSnapshotDropped
<1> QED BY <1>6, <1>7, <1>8 DEF SessionInv, LastOf

LEMMA SessionInitInv == TurnInit => SessionInv
BY TurnAssumption
DEF TurnInit, SessionInv, SessionTypes, NoSession, Sessions, NoSnapshotDropped

LEMMA SessionStepInv == TurnInv /\ SessionInv /\ [TurnNext]_vars => SessionInv'
<1> SUFFICES ASSUME TurnInv, SessionInv, [TurnNext]_vars PROVE SessionInv'
    OBVIOUS
<1>1. ASSUME UNCHANGED <<session, snaps, up, crashes>>, SessionTypes',
             \A c \in Callers : stage'[c] # "done" => stage[c] # "done" \/ up
      PROVE  SessionInv'
    BY <1>1 DEF SessionInv, NoSnapshotDropped, LastOf
<1>2. ASSUME NEW c \in Callers, NEW t \in Keys, HandleTurn(c, t) PROVE SessionInv'
  <2>1. t \in Nat BY TurnAssumption
  <2> QED BY <1>1, <1>2, <2>1 DEF HandleTurn, SessionInv, SessionTypes
<1>3. ASSUME NEW c \in Callers, GuardOnly(c) \/ Publish(c) \/ PublishReplyLost(c)
      PROVE  SessionInv'
    BY <1>1, <1>3 DEF GuardOnly, Publish, PublishReplyLost, turnVars, SessionInv, SessionTypes
<1>4. ASSUME NEW c \in Callers, Speak(c) \/ OutputRaises(c) PROVE SessionInv'
  <2>1. key[c] \in Keys BY DEF TurnInv, GuardInv, TypeOK
  <2> QED BY <1>1, <1>4, <2>1 DEF Speak, OutputRaises, SessionInv, SessionTypes
<1>5. CASE OtherCall
    BY <1>1, <1>5 DEF OtherCall, SessionInv, SessionTypes
<1>6. ASSUME NEW h \in Hosts, Restart(h) PROVE SessionInv'
  <2>1. /\ up' = FALSE /\ session' = NoSession /\ stage' = [c \in Callers |-> "done"]
        /\ crashes' = crashes + 1 /\ crashes < MaxCrashes
        /\ UNCHANGED <<snaps, spoken, recorded, clean, opened>>
      BY <1>6 DEF Restart
  <2>2. crashes' \in 0..MaxCrashes BY <2>1, TurnAssumption DEF SessionInv, SessionTypes
  <2> QED BY <2>1, <2>2 DEF SessionInv, SessionTypes, NoSnapshotDropped, LastOf, NoSession, Sessions
<1>7. CASE UNCHANGED vars \/ \E t \in Keys : ClaimExpires(t)
  <2>1. UNCHANGED <<turnVars, key>>
      BY <1>7 DEF ClaimExpires, Expire, vars, guardVars
  <2> QED BY <1>1, <2>1 DEF turnVars, SessionInv, SessionTypes
<1> QED BY <1>2, <1>3, <1>4, <1>5, <1>6, <1>7, RecordInv, RecoverInv DEF TurnNext, TurnStep

(* What the session, its versions and the process have to do with each     *)
(* other holds of every behaviour.                                         *)
THEOREM SessionInvariant == TurnSpec => []SessionInv
BY SessionInitInv, SessionStepInv, TurnInvariant, PTL DEF TurnSpec

(* Types of the engine: stream, session, snapshots and stages are of their *)
(* kind, and no more restarts happen than allowed.                         *)
THEOREM TurnTypes == TurnSpec => []TurnTypeOK
<1>1. TurnInv /\ SessionInv => TurnTypeOK
    BY DEF TurnInv, GuardInv, StreamInv, SessionInv, SessionTypes, TurnTypeOK
<1> QED BY <1>1, TurnInvariant, SessionInvariant, PTL

(* No version is ever taken twice: ON CONFLICT drops no snapshot, after    *)
(* any restarts and failed inserts.                                        *)
THEOREM NoVersionTakenTwice == TurnSpec => []NoSnapshotDropped
<1>1. SessionInv => NoSnapshotDropped BY DEF SessionInv
<1> QED BY <1>1, SessionInvariant, PTL

-------------------------------------------------------------------------------
(* The event loop.  One turn at a time is between its claim and its        *)
(* snapshot, and a turn whose process restarted never comes back to it.    *)
LoopInv ==
  /\ \A c, d \in Callers : InSection(c) /\ InSection(d) => c = d
  /\ \A c \in Callers : pc[c] \in Running => stage[c] = "commit"

\* A step of one invocation of the guard moves that one and no other.
LEMMA MoveOne ==
  ASSUME TypeOK, NEW c \in Callers, GuardOnly(c) \/ Publish(c) \/ PublishReplyLost(c)
  PROVE  /\ pc[c] \in Running /\ LoopFree(c)
         /\ stage' = stage /\ key' = key
         /\ \A d \in Callers : d # c => pc'[d] = pc[d] /\ held'[d] = held[d]
BY DEF TypeOK, GuardOnly, Publish, PublishReplyLost, Effect, EffectReplyLost, turnVars,
       CheckHit, CheckMiss, ClaimWon, ClaimLost, Complete, EffectRaises, PollHit,
       PollTimeout, TakeCached, Goto, Running

LEMMA LoopStep ==
  ASSUME TypeOK, SessionTypes, LoopInv, [TurnNext]_vars
  PROVE  LoopInv'
<1>1. ASSUME NEW c \in Callers, NEW t \in Keys, HandleTurn(c, t) PROVE LoopInv'
    BY <1>1 DEF HandleTurn, Invoke, Goto, TypeOK, SessionTypes, LoopInv, InSection
<1>2. ASSUME NEW c \in Callers, GuardOnly(c) \/ Publish(c) \/ PublishReplyLost(c)
      PROVE  LoopInv'
    BY <1>2, MoveOne DEF LoopInv, InSection, LoopFree
<1>3. ASSUME NEW c \in Callers,
             RecordTurn(c) \/ SnapshotRaises(c) \/ Speak(c) \/ OutputRaises(c)
      PROVE  LoopInv'
  <2>1. /\ pc' = pc /\ pc[c] = "returned"
        /\ \E w \in {"speak", "done"} : stage' = [stage EXCEPT ![c] = w]
      BY <1>3 DEF RecordTurn, SnapshotRaises, Record, Speak, OutputRaises, guardVars
  <2> QED BY <2>1 DEF LoopInv, InSection, SessionTypes, Running
<1>4. CASE OtherCall \/ Recover \/ UNCHANGED vars \/ \E t \in Keys : ClaimExpires(t)
  <2>1. pc' = pc /\ stage' = stage
      BY <1>4 DEF OtherCall, Recover, ClaimExpires, Expire, vars, guardVars, turnVars
  <2> QED BY <2>1 DEF LoopInv, InSection
<1>5. ASSUME NEW h \in Hosts, Restart(h) PROVE LoopInv'
  <2>1. \A c \in Callers : pc'[c] = "crashed"
      BY <1>5, TurnAssumption DEF Restart, Crash
  <2> QED BY <2>1 DEF LoopInv, InSection, Running
<1> QED BY <1>1, <1>2, <1>3, <1>4, <1>5 DEF TurnNext, TurnStep

LEMMA LoopInit == TurnInit => LoopInv
BY DEF TurnInit, GuardInit, LoopInv, InSection, Running

-------------------------------------------------------------------------------
(* The account.  While no reply was lost and no turn recorded twice, every *)
(* decision is either recorded or the one in flight, and the one in flight *)
(* is the last of the stream.                                              *)
Until(n) == {j \in DecisionsIn(stream) : j <= n}

RecordedIsPublished ==
  /\ \A t \in recorded : \E j \in DecisionsIn(stream) : stream[j].turn = t
  /\ session.offset <= Len(stream) /\ \A s \in snaps : s.offset <= Len(stream)

InFlightIsLast ==
  /\ \A c \in Callers : pc[c] = "complete" => key[c] \notin recorded
  /\ \A c \in Callers : InFlight(c) => \A j \in DecisionsIn(stream) : j <= held[c]
  /\ \A j \in DecisionsIn(stream) :
       stream[j].turn \in recorded \/ \E c \in Callers : InFlight(c) /\ key[c] = stream[j].turn

AccountInv ==
  /\ RecordedIsPublished
  /\ clean /\ up => InFlightIsLast
  /\ TurnsAccounted
  /\ SnapshotsFaithful

\* At most one turn is in flight.
LEMMA LagIsOne ==
  ASSUME LoopInv
  PROVE  /\ \A c \in Callers : InFlight(c) => Lag = 1
         /\ (\A c \in Callers : ~InFlight(c)) => Lag = 0
<1>1. \A c \in Callers : InFlight(c) => InSection(c)
    BY DEF LoopInv, InFlight, InSection, Running
<1>2. ASSUME NEW c \in Callers, InFlight(c) PROVE Lag = 1
  <2>1. {d \in Callers : InFlight(d)} = {c} BY <1>1, <1>2 DEF LoopInv
  <2> QED BY <2>1, FS_Singleton DEF Lag
<1>3. ASSUME \A c \in Callers : ~InFlight(c) PROVE Lag = 0
  <2>1. {d \in Callers : InFlight(d)} = {} BY <1>3
  <2> QED BY <2>1, FS_EmptySet DEF Lag
<1> QED BY <1>2, <1>3

\* A step that publishes and records nothing.
LEMMA AccountKept ==
  ASSUME AccountInv, Len(stream) \in Nat, Len(stream') \in Nat, Len(stream) <= Len(stream'),
         session \in Sessions, snaps \subseteq Sessions,
         DecisionsIn(stream') = DecisionsIn(stream),
         \A j \in DecisionsIn(stream) : stream'[j] = stream[j],
         UNCHANGED <<session, snaps, recorded, clean, up>>,
         clean /\ up => /\ \A c \in Callers : pc'[c] = "complete" => key'[c] \notin recorded
                        /\ \A c \in Callers : InFlight(c)' <=> InFlight(c)
                        /\ \A c \in Callers : InFlight(c) => key'[c] = key[c] /\ held'[c] = held[c]
  PROVE  AccountInv'
<1>1. RecordedIsPublished'
  <2>1. session.offset \in Nat /\ \A s \in snaps : s.offset \in Nat BY DEF Sessions
  <2> QED BY <2>1 DEF AccountInv, RecordedIsPublished
<1>2. ASSUME clean, up PROVE InFlightIsLast'
  <2>1. InFlightIsLast BY <1>2 DEF AccountInv
  <2>2. \A c \in Callers : InFlight(c)' => \A j \in DecisionsIn(stream') : j <= held'[c]
      BY <1>2, <2>1 DEF InFlightIsLast
  <2>3. \A j \in DecisionsIn(stream') :
          stream'[j].turn \in recorded' \/ \E c \in Callers : InFlight(c)' /\ key'[c] = stream'[j].turn
      BY <1>2, <2>1 DEF InFlightIsLast
  <2> QED BY <1>2, <2>2, <2>3 DEF InFlightIsLast
<1>3. TurnsAccounted'
  <2>1. ASSUME clean, up PROVE Lag' = Lag
    <3>1. {c \in Callers : InFlight(c)'} = {c \in Callers : InFlight(c)} BY <2>1
    <3> QED BY <3>1 DEF Lag
  <2> QED BY <2>1 DEF AccountInv, TurnsAccounted
<1>4. SnapshotsFaithful' BY DEF AccountInv, SnapshotsFaithful
<1> QED BY <1>1, <1>2, <1>3, <1>4 DEF AccountInv

LEMMA StreamSize ==
  ASSUME TurnInv
  PROVE  /\ Len(stream) \in Nat /\ DOMAIN stream = 1..Len(stream)
         /\ \A j \in DecisionsIn(stream) : j \in 1..Len(stream)
         /\ IsFiniteSet(DecisionsIn(stream)) /\ Cardinality(DecisionsIn(stream)) \in Nat
<1>1. Len(stream) \in Nat /\ DOMAIN stream = 1..Len(stream) BY DEF TurnInv, StreamInv
<1>2. DecisionsIn(stream) \in SUBSET DecisionsIn(stream) OBVIOUS
<1> QED BY <1>1, <1>2, DecisionsFinite

LEMMA AccountGuard ==
  ASSUME TurnInv, SessionInv, LoopInv, AccountInv, NEW c \in Callers, GuardOnly(c)
  PROVE  AccountInv'
<1>1. /\ pc[c] \in Running /\ LoopFree(c) /\ stage[c] = "commit"
      /\ UNCHANGED <<turnVars, key>>
      /\ \A d \in Callers : d # c => pc'[d] = pc[d] /\ held'[d] = held[d]
    BY MoveOne DEF TurnInv, GuardInv, LoopInv, GuardOnly
<1>2. \A d \in Callers : d # c => ~InFlight(d)
    BY <1>1 DEF LoopFree, LoopInv, InFlight, InSection, Running
<1>3. ASSUME clean, up, TakeCached(c) PROVE key[c] \in recorded
  <2>1. row[key[c]].state = "done" /\ key[c] \in Keys
      BY <1>3 DEF TakeCached, Cached, TurnInv, GuardInv, TypeOK
  <2> DEFINE j == row[key[c]].result
  <2>2. effects[key[c]] = <<j>> /\ effects[key[c]] \in Seq(Results)
      BY <2>1 DEF TurnInv, GuardInv, RowInv, TypeOK
  <2>3. \A x : Len(<<x>>) = 1 /\ <<x>>[1] = x OBVIOUS
  <2>4. j \in Results BY <2>2, <2>3
  <2>5. j \in DOMAIN stream /\ stream[j] = Decision(key[c])
      BY <2>1, <2>2, <2>4 DEF TurnInv, StreamInv
  <2>6. j \in DecisionsIn(stream) /\ stream[j].turn = key[c]
      BY <2>5 DEF DecisionsIn, IsDecision, Decision
  <2>7. ~InFlight(c)
    <3>1. CASE CheckHit(c) \/ PollHit(c)
        BY <3>1 DEF CheckHit, PollHit, InFlight
    <3>2. ASSUME pc[c] = "complete" PROVE FALSE
      <4>1. row[key[c]].state = "pending" BY <3>2 DEF TurnInv, GuardInv, OwnerInv, Owns
      <4> QED BY <2>1, <4>1
    <3> QED BY <1>1, <3>2 DEF InFlight, Running
  <2> QED BY <1>2, <1>3, <2>6, <2>7 DEF AccountInv, InFlightIsLast
<1>4. ASSUME clean, up PROVE /\ pc'[c] # "complete"
                             /\ InFlight(c)' <=> InFlight(c)
                             /\ InFlight(c) => held'[c] = held[c]
  <2>1. ASSUME TakeCached(c), pc[c] \in {"check", "poll"}
        PROVE  pc'[c] = "returned" /\ ~InFlight(c) /\ ~InFlight(c)'
    <3>1. pc'[c] = "returned" BY <2>1 DEF TakeCached, Goto, TurnInv, GuardInv, TypeOK
    <3>2. key[c] \in recorded BY <1>3, <1>4, <2>1
    <3> QED BY <1>1, <2>1, <3>1, <3>2 DEF InFlight, turnVars
  <2>2. CASE CheckHit(c) \/ PollHit(c) BY <2>1, <2>2 DEF CheckHit, PollHit
  <2>3. CASE CheckMiss(c) \/ ClaimWon(c) \/ ClaimLost(c) \/ EffectRaises(c) \/ PollTimeout(c)
      BY <2>3 DEF CheckMiss, ClaimWon, ClaimLost, EffectRaises, PollTimeout, Goto, InFlight,
                  TurnInv, GuardInv, TypeOK
  <2>4. CASE Complete(c)
    <3>1. pc[c] = "complete" /\ pc'[c] = "returned" /\ held' = held
        BY <2>4 DEF Complete, Goto, TurnInv, GuardInv, TypeOK
    <3>2. key[c] \notin recorded BY <1>4, <3>1 DEF AccountInv, InFlightIsLast
    <3> QED BY <1>1, <3>1, <3>2 DEF InFlight, turnVars
  <2> QED BY <2>2, <2>3, <2>4 DEF GuardOnly
<1>5. \A d \in Callers : d # c => (InFlight(d)' <=> InFlight(d))
    BY <1>1 DEF InFlight, turnVars
<1>6. clean /\ up =>
        /\ \A d \in Callers : pc'[d] = "complete" => key'[d] \notin recorded
        /\ \A d \in Callers : InFlight(d)' <=> InFlight(d)
        /\ \A d \in Callers : InFlight(d) => key'[d] = key[d] /\ held'[d] = held[d]
    BY <1>1, <1>4, <1>5 DEF AccountInv, InFlightIsLast
<1>7. stream' = stream /\ UNCHANGED <<session, snaps, recorded, clean, up>>
      /\ Len(stream) \in Nat /\ session \in Sessions /\ snaps \subseteq Sessions
    BY <1>1, StreamSize DEF turnVars, SessionInv, SessionTypes
<1> QED BY <1>6, <1>7, AccountKept

LEMMA AccountPublish ==
  ASSUME TurnInv, SessionInv, LoopInv, LoopInv', AccountInv,
         NEW c \in Callers, Publish(c) \/ PublishReplyLost(c)
  PROVE  AccountInv'
<1>1. PICK n : n = Len(stream) + 1 OBVIOUS
<1>2. /\ n \in Nat /\ Len(stream) \in Nat /\ Len(stream') = n /\ n \notin 1..Len(stream)
      /\ DecisionsIn(stream') = DecisionsIn(stream) \cup {n}
      /\ stream'[n].turn = key[c] /\ effects[key[c]] = <<>>
      /\ \A j \in DecisionsIn(stream) : j \in 1..Len(stream) /\ stream'[j] = stream[j]
  <2>1. /\ Len(stream) \in Nat /\ Len(stream') = Len(stream) + 1
        /\ DecisionsIn(stream') = DecisionsIn(stream) \cup {Len(stream) + 1}
        /\ stream'[Len(stream) + 1] = Decision(key[c]) /\ effects[key[c]] = <<>>
        /\ \A j \in DecisionsIn(stream) : j \in 1..Len(stream) /\ stream'[j] = stream[j]
      BY PublishAppends DEF TurnInv
  <2>2. Decision(key[c]).turn = key[c] BY DEF Decision
  <2> QED BY <1>1, <2>1, <2>2
<1>3. /\ pc[c] = "effect" /\ LoopFree(c) /\ stage[c] = "commit" /\ up
      /\ UNCHANGED <<session, snaps, stage, up, recorded, key>>
      /\ \A d \in Callers : d # c => pc'[d] = pc[d] /\ held'[d] = held[d]
  <2>1. pc[c] = "effect" /\ UNCHANGED <<session, snaps, stage, up, recorded>>
      BY DEF Publish, PublishReplyLost, Effect, EffectReplyLost
  <2> QED BY <2>1, MoveOne DEF TurnInv, GuardInv, LoopInv, SessionInv, Running
<1>4. \A d \in Callers : ~InFlight(d)
    BY <1>3 DEF LoopFree, LoopInv, InFlight, InSection, Running
<1>5. RecordedIsPublished'
  <2>1. session.offset \in Nat /\ \A s \in snaps : s.offset \in Nat
      BY DEF SessionInv, SessionTypes, Sessions
  <2>2. Len(stream) <= Len(stream') BY <1>1, <1>2
  <2>3. /\ \A t \in recorded : \E j \in DecisionsIn(stream) : stream[j].turn = t
        /\ session.offset <= Len(stream) /\ \A s \in snaps : s.offset <= Len(stream)
      BY DEF AccountInv, RecordedIsPublished
  <2>4. session'.offset <= Len(stream') /\ \A s \in snaps' : s.offset <= Len(stream')
      BY <1>2, <1>3, <2>1, <2>2, <2>3
  <2>5. \A t \in recorded' : \E j \in DecisionsIn(stream') : stream'[j].turn = t
      BY <1>2, <1>3, <2>3
  <2> QED BY <2>4, <2>5 DEF RecordedIsPublished
<1>6. CASE ~clean'
    BY <1>5, <1>6 DEF AccountInv, TurnsAccounted, SnapshotsFaithful
<1>7. CASE clean'
  <2>1. Publish(c) /\ clean BY <1>7 DEF Publish, PublishReplyLost
  <2>2. pc'[c] = "complete" /\ held'[c] = n
      BY <1>1, <2>1 DEF Publish, Effect, Goto, TurnInv, GuardInv, TypeOK
  <2>3. InFlight(c)' /\ \A d \in Callers : d # c => ~InFlight(d)'
      BY <1>3, <1>4, <2>2 DEF InFlight
  <2>4. \A d \in Callers : pc'[d] = "complete" => key'[d] \notin recorded'
    <3>1. key[c] \notin recorded
      <4> SUFFICES ASSUME key[c] \in recorded PROVE FALSE
          OBVIOUS
      <4>1. PICK j \in DecisionsIn(stream) : stream[j].turn = key[c]
          BY DEF AccountInv, RecordedIsPublished
      <4>2. effects[key[c]] = <<j>> BY <4>1 DEF TurnInv, StreamInv
      <4>3. \A e : e = <<j>> => e # <<>> OBVIOUS
      <4>4. effects[key[c]] = <<>> BY <1>2
      <4> QED BY <4>2, <4>3, <4>4
    <3>2. \A d \in Callers : pc'[d] = "complete" => d = c
        BY <2>3 DEF InFlight
    <3> QED BY <1>3, <3>1, <3>2
  <2>5. \A d \in Callers : InFlight(d)' => \A j \in DecisionsIn(stream') : j <= held'[d]
    <3>1. \A j \in DecisionsIn(stream') : j <= n BY <1>1, <1>2
    <3> QED BY <2>2, <2>3, <3>1
  <2>6. \A j \in DecisionsIn(stream') :
          stream'[j].turn \in recorded' \/ \E d \in Callers : InFlight(d)' /\ key'[d] = stream'[j].turn
    <3>1. \A j \in DecisionsIn(stream) : stream[j].turn \in recorded
        BY <1>3, <1>4, <2>1 DEF AccountInv, InFlightIsLast
    <3> QED BY <1>2, <1>3, <2>3, <3>1
  <2>7. InFlightIsLast' BY <2>4, <2>5, <2>6 DEF InFlightIsLast
  <2>8. TurnsAccounted'
    <3>1. Lag = 0 /\ Lag' = 1
      <4>1. {d \in Callers : InFlight(d)'} = {c} BY <2>3
      <4> QED BY <1>4, <4>1, LagIsOne, FS_Singleton DEF Lag
    <3>2. session.count = Cardinality(DecisionsIn(stream)) /\ session.count \in Nat
        BY <1>3, <2>1, <3>1 DEF AccountInv, TurnsAccounted, SessionInv, SessionTypes, Sessions
    <3>3. Cardinality(DecisionsIn(stream')) = Cardinality(DecisionsIn(stream)) + 1
      <4>1. n \notin DecisionsIn(stream) BY <1>2
      <4> QED BY <1>2, <4>1, StreamSize, FS_AddElement
    <3> QED BY <1>3, <3>1, <3>2, <3>3 DEF TurnsAccounted
  <2>9. SnapshotsFaithful'
    <3> SUFFICES ASSUME NEW s \in snaps
                 PROVE  s.count = Cardinality({j \in DecisionsIn(stream') : j <= s.offset})
        BY <1>3 DEF SnapshotsFaithful
    <3>1. s.offset \in Nat /\ s.offset <= Len(stream)
        BY DEF SessionInv, SessionTypes, Sessions, AccountInv, RecordedIsPublished
    <3>2. ~(n <= s.offset) BY <1>1, <1>2, <3>1
    <3>3. {j \in DecisionsIn(stream') : j <= s.offset} = {j \in DecisionsIn(stream) : j <= s.offset}
        BY <1>2, <3>2
    <3> QED BY <2>1, <3>3 DEF AccountInv, SnapshotsFaithful
  <2> QED BY <1>5, <2>7, <2>8, <2>9 DEF AccountInv
<1> QED BY <1>6, <1>7

LEMMA AccountRecord ==
  ASSUME TurnInv, SessionInv, SessionInv', LoopInv, LoopInv', AccountInv,
         NEW c \in Callers, RecordTurn(c) \/ SnapshotRaises(c)
  PROVE  AccountInv'
<1>1. /\ Record(c) /\ pc[c] = "returned" /\ stage[c] = "commit"
      /\ UNCHANGED <<pc, key, held, stream, up>>
      /\ recorded' = recorded \cup {key[c]}
      /\ clean' = (clean /\ key[c] \notin recorded)
      /\ snaps' = snaps \/ snaps' = Stored(session')
    BY DEF RecordTurn, SnapshotRaises, Record, guardVars
<1>2. stage'[c] # "commit" /\ \A d \in Callers : d # c => stage'[d] = stage[d]
    BY DEF RecordTurn, SnapshotRaises, SessionInv, SessionTypes
<1>3. /\ up /\ session'.count = session.count + 1 /\ session'.offset = held[c]
      /\ session.count \in Nat
    BY <1>1, RecordSession DEF SessionInv, SessionTypes, Sessions
<1>4. /\ held[c] \in DecisionsIn(stream) /\ stream[held[c]].turn = key[c]
      /\ held[c] \in 1..Len(stream) /\ Len(stream) \in Nat
    BY <1>1, AnswerOnStream, StreamSize
<1>5. snaps' \subseteq snaps \cup {session'} BY <1>1 DEF Stored
<1>6. RecordedIsPublished'
    BY <1>1, <1>3, <1>4, <1>5 DEF AccountInv, RecordedIsPublished
<1>7. \A d \in Callers : ~InFlight(d)'
  <2>1. ASSUME NEW d \in Callers, InFlight(d)' PROVE FALSE
    <3>1. d # c BY <1>1, <1>2, <2>1 DEF InFlight
    <3>2. InSection(d)
      <4>1. pc[d] = "complete" \/ (pc[d] = "returned" /\ stage[d] = "commit")
          BY <1>1, <1>2, <2>1, <3>1 DEF InFlight
      <4> QED BY <4>1 DEF LoopInv, InSection, Running
    <3>3. InSection(c) BY <1>1 DEF InSection
    <3> QED BY <3>1, <3>2, <3>3 DEF LoopInv
  <2> QED BY <2>1
<1>8. CASE ~clean'
    BY <1>6, <1>8 DEF AccountInv, TurnsAccounted, SnapshotsFaithful
<1>9. CASE clean'
  <2>1. clean /\ key[c] \notin recorded /\ InFlight(c) BY <1>1, <1>9 DEF InFlight
  <2>2. InFlightIsLast BY <1>3, <2>1 DEF AccountInv
  <2>3. \A j \in DecisionsIn(stream) : j <= held[c] BY <2>1, <2>2 DEF InFlightIsLast
  <2>4. Lag = 1 /\ Lag' = 0
    <3>1. {d \in Callers : InFlight(d)'} = {} BY <1>7
    <3> QED BY <2>1, <3>1, LagIsOne, FS_EmptySet DEF Lag
  <2>5. session'.count = Cardinality(DecisionsIn(stream))
      BY <1>3, <2>1, <2>4 DEF AccountInv, TurnsAccounted
  <2>6. TurnsAccounted'
    <3>1. stream' = stream /\ session'.count \in Nat BY <1>1, <1>3
    <3> QED BY <2>4, <2>5, <3>1 DEF TurnsAccounted
  <2>7. InFlightIsLast'
    <3>1. \A d \in Callers : pc'[d] # "complete"  BY <1>7 DEF InFlight
    <3>2. \A d \in Callers : InFlight(d) => d = c
      <4>1. \A d \in Callers : InFlight(d) => InSection(d)
          BY DEF LoopInv, InFlight, InSection, Running
      <4> QED BY <2>1, <4>1 DEF LoopInv
    <3>3. \A j \in DecisionsIn(stream) : stream[j].turn \in recorded'
        BY <1>1, <2>2, <3>2 DEF InFlightIsLast
    <3> QED BY <1>1, <1>7, <3>1, <3>3 DEF InFlightIsLast
  <2>8. SnapshotsFaithful'
    <3>1. {j \in DecisionsIn(stream) : j <= session'.offset} = DecisionsIn(stream)
        BY <1>3, <2>3
    <3>2. ASSUME NEW s \in snaps'
          PROVE  s.count = Cardinality({j \in DecisionsIn(stream) : j <= s.offset})
      <4>1. CASE s = session' BY <2>5, <3>1, <4>1
      <4>2. CASE s \in snaps BY <2>1, <4>2 DEF AccountInv, SnapshotsFaithful
      <4> QED BY <1>5, <4>1, <4>2
    <3> QED BY <1>1, <3>2 DEF SnapshotsFaithful
  <2> QED BY <1>6, <2>6, <2>7, <2>8 DEF AccountInv
<1> QED BY <1>8, <1>9

LEMMA AccountRestart ==
  ASSUME TurnInv, AccountInv, NEW h \in Hosts, Restart(h)
  PROVE  AccountInv'
<1>1. up' = FALSE /\ session' = NoSession /\ UNCHANGED <<stream, snaps, recorded, clean>>
    BY DEF Restart
<1>2. NoSession.offset <= Len(stream) BY StreamSize DEF NoSession
<1> QED BY <1>1, <1>2
        DEF AccountInv, RecordedIsPublished, TurnsAccounted, SnapshotsFaithful

\* Recovery adds to the snapshot what it does not count yet.
LEMMA AccountRecover ==
  ASSUME TurnInv, SessionInv, LoopInv, AccountInv, Recover
  PROVE  AccountInv'
<1> DEFINE base == IF snaps = {} THEN NoSession ELSE Latest
           s == Append(stream, RecoveryEvent)
           D == DecisionsIn(stream)
<1>1. /\ ~up /\ up' = TRUE /\ session' = Recovered(s)
      /\ stream' = stream \o <<RecoveryEvent, RecoveryEvent>>
      /\ recorded' = {stream[j].turn : j \in D}
      /\ UNCHANGED <<guardVars, snaps, stage, clean>>
    BY DEF Recover
<1>2. /\ DecisionsIn(stream') = D /\ Len(stream') = Len(stream) + 2
      /\ \A j \in D : stream'[j] = stream[j] /\ j \in 1..Len(stream)
      /\ Len(stream) \in Nat /\ IsFiniteSet(D) /\ Cardinality(D) \in Nat
  <2>1. <<RecoveryEvent, RecoveryEvent>> \in Seq({RecoveryEvent, ForeignEvent})
    <3> HIDE DEF RecoveryEvent, ForeignEvent
    <3> QED OBVIOUS
  <2>2. /\ DecisionsIn(stream') = D
        /\ \A j \in DOMAIN stream : stream'[j] = stream[j]
      BY <1>1, <2>1, StreamKept DEF TurnInv, GuardInv, guardVars
  <2>3. Len(stream') = Len(stream) + 2
    <3> HIDE DEF RecoveryEvent
    <3>1. \A e : Len(<<e, e>>) = 2 OBVIOUS
    <3>2. <<RecoveryEvent, RecoveryEvent>> \in Seq({RecoveryEvent, ForeignEvent}) BY <2>1
    <3>3. stream \in Seq({Decision(t) : t \in Keys} \cup {RecoveryEvent, ForeignEvent})
        BY DEF TurnInv, StreamInv
    <3> QED BY <1>1, <3>1, <3>2, <3>3
  <2> QED BY <2>2, <2>3, StreamSize
<1>3. DecisionsIn(s) = D
  <2>1. /\ DOMAIN s = DOMAIN stream \cup {Len(stream) + 1} /\ Len(stream) + 1 \notin DOMAIN stream
        /\ s[Len(stream) + 1] = RecoveryEvent /\ \A j \in DOMAIN stream : s[j] = stream[j]
    <3> DEFINE E == {Decision(t) : t \in Keys} \cup {RecoveryEvent, ForeignEvent}
    <3>1. stream \in Seq(E) /\ RecoveryEvent \in E BY DEF TurnInv, StreamInv
    <3> HIDE DEF E
    <3> QED BY <3>1, AppendKeeps
  <2>2. ~IsDecision(RecoveryEvent) BY DEF IsDecision, RecoveryEvent
  <2> HIDE DEF s
  <2> QED BY <2>1, <2>2 DEF DecisionsIn
<1>4. \A c \in Callers : ~InFlight(c)'
  <2>1. \A c \in Callers : stage[c] = "done" BY <1>1 DEF SessionInv, SessionTypes
  <2>2. \A c \in Callers : pc[c] # "complete" BY <2>1 DEF LoopInv, Running
  <2> QED BY <1>1, <2>1, <2>2 DEF InFlight, guardVars
<1>5. /\ base \in Sessions /\ base.offset <= Len(stream)
      /\ clean => base.count = Cardinality({j \in D : j <= base.offset})
  <2>1. CASE snaps = {}
    <3>1. {j \in D : j <= 0} = {} BY <1>2
    <3>2. NoSession \in Sessions /\ NoSession.offset = 0 /\ NoSession.count = 0
        BY DEF NoSession, Sessions
    <3>3. base = NoSession BY <2>1
    <3> HIDE DEF base, NoSession, D
    <3>4. base.offset = 0 /\ base.count = 0 BY <3>2, <3>3
    <3>5. {j \in D : j <= base.offset} = {} BY <3>1, <3>4
    <3>6. 0 <= Len(stream) BY <1>2
    <3> QED BY <3>2, <3>3, <3>4, <3>5, <3>6, FS_EmptySet
  <2>2. CASE snaps # {}
    <3>1. Latest \in snaps BY <2>2, LatestIsLast DEF LastOf
    <3> QED BY <2>2, <3>1 DEF SessionInv, SessionTypes, AccountInv, RecordedIsPublished,
                             SnapshotsFaithful
  <2> QED BY <2>1, <2>2
<1>6. /\ session'.offset = base.offset
      /\ session'.count = base.count + Cardinality({j \in D : j > base.offset})
  <2>1. EventTail(s, base.offset) = {j \in D : j > base.offset} BY <1>3 DEF EventTail
  <2>2. session' = [base EXCEPT !.count = @ + Cardinality({j \in D : j > base.offset})]
      BY <1>1, <2>1 DEF Recovered, Restored
  <2> HIDE DEF base
  <2> QED BY <1>5, <2>2 DEF Sessions
<1> HIDE DEF base, s
<1>7. RecordedIsPublished'
  <2>1. \A r \in snaps : r.offset \in Nat /\ r.offset <= Len(stream)
      BY DEF SessionInv, SessionTypes, Sessions, AccountInv, RecordedIsPublished
  <2>2. base.offset \in Nat /\ \A n \in Nat : n <= Len(stream) => n <= Len(stream) + 2
      BY <1>2, <1>5 DEF Sessions
  <2>3. session'.offset <= Len(stream') /\ \A r \in snaps' : r.offset <= Len(stream')
      BY <1>1, <1>2, <1>5, <1>6, <2>1, <2>2
  <2>4. \A t \in recorded' : \E j \in DecisionsIn(stream') : stream'[j].turn = t
      BY <1>1, <1>2
  <2> QED BY <2>3, <2>4 DEF RecordedIsPublished
<1>8. InFlightIsLast'
  <2>1. \A c \in Callers : pc'[c] # "complete" BY <1>4 DEF InFlight
  <2>2. \A j \in DecisionsIn(stream') : stream'[j].turn \in recorded' BY <1>1, <1>2
  <2> QED BY <1>4, <2>1, <2>2 DEF InFlightIsLast
<1>9. TurnsAccounted'
  <2> SUFFICES ASSUME clean
               PROVE  session'.count + Lag' = Cardinality(D)
      BY <1>1, <1>2 DEF TurnsAccounted
  <2> DEFINE A == {j \in D : j <= base.offset}
             B == {j \in D : j > base.offset}
  <2>1. Lag' = 0
    <3>1. {c \in Callers : InFlight(c)'} = {} BY <1>4
    <3> QED BY <3>1, FS_EmptySet DEF Lag
  <2>2. IsFiniteSet(A) /\ IsFiniteSet(B) BY <1>2, FS_Subset
  <2>3. A \cup B = D /\ A \cap B = {}
    <3>1. base.offset \in Nat /\ \A j \in D : j \in Nat BY <1>2, <1>5 DEF Sessions
    <3>2. \A j \in D : (j <= base.offset) <=> ~(j > base.offset) BY <3>1
    <3> QED BY <3>2
  <2>4. Cardinality(D) = Cardinality(A) + Cardinality(B) - Cardinality({})
      BY <2>2, <2>3, FS_Union
  <2>5. Cardinality(A) \in Nat /\ Cardinality(B) \in Nat BY <2>2, FS_CardinalityType
  <2>6. session'.count = Cardinality(A) + Cardinality(B) BY <1>5, <1>6
  <2> HIDE DEF A, B
  <2> QED BY <1>2, <2>1, <2>4, <2>5, <2>6, FS_EmptySet
<1>10. SnapshotsFaithful' BY <1>1, <1>2 DEF AccountInv, SnapshotsFaithful
<1> QED BY <1>7, <1>8, <1>9, <1>10 DEF AccountInv

LEMMA AccountInit == TurnInit => AccountInv
<1> SUFFICES ASSUME TurnInit PROVE AccountInv
    OBVIOUS
<1>1. stream = <<>> /\ DecisionsIn(stream) = {} /\ Len(stream) = 0
    BY DEF TurnInit, DecisionsIn
<1>2. \A c \in Callers : ~InFlight(c) BY DEF TurnInit, GuardInit, InFlight
<1>3. Lag = 0 BY <1>2, LagIsOne, LoopInit
<1>4. /\ session.count = 0 /\ session.offset = 0 /\ snaps = {} /\ recorded = {}
      /\ \A c \in Callers : pc[c] # "complete"
    BY DEF TurnInit, GuardInit, NoSession
<1> QED BY <1>1, <1>2, <1>3, <1>4, FS_EmptySet
        DEF AccountInv, RecordedIsPublished, InFlightIsLast, TurnsAccounted, SnapshotsFaithful

LEMMA AccountStep ==
  TurnInv /\ SessionInv /\ SessionInv' /\ LoopInv /\ LoopInv' /\ AccountInv /\ [TurnNext]_vars
    => AccountInv'
<1> SUFFICES ASSUME TurnInv, SessionInv, SessionInv', LoopInv, LoopInv', AccountInv,
                    [TurnNext]_vars
             PROVE  AccountInv'
    OBVIOUS
<1>1. /\ session \in Sessions /\ snaps \subseteq Sessions /\ Len(stream) \in Nat
      /\ pc \in [Callers -> Ended \cup Running] /\ stage \in [Callers -> {"commit", "speak", "done"}]
      /\ key \in [Callers -> Keys] /\ held \in [Callers -> Results \cup {None}]
    BY StreamSize DEF SessionInv, SessionTypes, TurnInv, GuardInv, TypeOK
<1>2. ASSUME NEW c \in Callers, NEW t \in Keys, HandleTurn(c, t) PROVE AccountInv'
  <2>1. /\ Over(c) /\ UNCHANGED <<stream, session, snaps, recorded, clean, up>>
        /\ pc'[c] = "check"
        /\ \A d \in Callers : d # c => /\ pc'[d] = pc[d] /\ key'[d] = key[d]
                                       /\ held'[d] = held[d] /\ stage'[d] = stage[d]
      BY <1>1, <1>2 DEF HandleTurn, Invoke, Goto
  <2>2. ~InFlight(c) /\ ~InFlight(c)' BY <2>1 DEF Over, InFlight, Ended
  <2>3. \A d \in Callers : d # c => (InFlight(d)' <=> InFlight(d)) BY <2>1 DEF InFlight
  <2>4. clean /\ up => \A d \in Callers : pc'[d] = "complete" => key'[d] \notin recorded
      BY <2>1 DEF AccountInv, InFlightIsLast
  <2> QED BY <1>1, <2>1, <2>2, <2>3, <2>4, AccountKept
<1>3. ASSUME NEW c \in Callers, Speak(c) \/ OutputRaises(c) PROVE AccountInv'
  <2>1. /\ UNCHANGED <<pc, key, held, stream, session, snaps, recorded, clean, up>>
        /\ stage[c] = "speak" /\ stage'[c] = "done" /\ pc[c] = "returned"
        /\ \A d \in Callers : d # c => stage'[d] = stage[d]
      BY <1>1, <1>3 DEF Speak, OutputRaises, guardVars
  <2>2. \A d \in Callers : InFlight(d)' <=> InFlight(d) BY <2>1 DEF InFlight
  <2>3. clean /\ up => \A d \in Callers : pc'[d] = "complete" => key'[d] \notin recorded
      BY <2>1 DEF AccountInv, InFlightIsLast
  <2> QED BY <1>1, <2>1, <2>2, <2>3, AccountKept
<1>4. CASE OtherCall
  <2>1. /\ stream' = Append(stream, ForeignEvent)
        /\ UNCHANGED <<pc, key, held, effects, stage, session, snaps, recorded, clean, up>>
      BY <1>4 DEF OtherCall, guardVars
  <2>2. stream' = stream \o <<ForeignEvent>> /\ Len(stream') = Len(stream) + 1
      BY <2>1 DEF TurnInv, StreamInv
  <2>3. <<ForeignEvent>> \in Seq({RecoveryEvent, ForeignEvent})
    <3> HIDE DEF RecoveryEvent, ForeignEvent
    <3> QED OBVIOUS
  <2>4. /\ DecisionsIn(stream') = DecisionsIn(stream)
        /\ \A j \in DOMAIN stream : stream'[j] = stream[j]
      BY <2>1, <2>2, <2>3, StreamKept DEF TurnInv, GuardInv
  <2>5. \A j \in DecisionsIn(stream) : stream'[j] = stream[j] BY <2>4 DEF DecisionsIn
  <2>6. \A d \in Callers : InFlight(d)' <=> InFlight(d) BY <2>1 DEF InFlight
  <2>7. clean /\ up => \A d \in Callers : pc'[d] = "complete" => key'[d] \notin recorded
      BY <2>1 DEF AccountInv, InFlightIsLast
  <2>8. /\ Len(stream') \in Nat /\ Len(stream) <= Len(stream') BY <1>1, <2>2
  <2>9. UNCHANGED <<session, snaps, recorded, clean, up>> BY <2>1
  <2>10. \A d \in Callers : key'[d] = key[d] /\ held'[d] = held[d] BY <2>1
  <2> HIDE DEF ForeignEvent
  <2> QED BY <1>1, <2>4, <2>5, <2>6, <2>7, <2>8, <2>9, <2>10, AccountKept
<1>5. CASE UNCHANGED vars \/ \E t \in Keys : ClaimExpires(t)
  <2>1. UNCHANGED <<pc, key, held, stage, stream, session, snaps, recorded, clean, up>>
      BY <1>5 DEF ClaimExpires, Expire, vars, guardVars, turnVars
  <2>2. \A d \in Callers : InFlight(d)' <=> InFlight(d) BY <2>1 DEF InFlight
  <2>3. clean /\ up => \A d \in Callers : pc'[d] = "complete" => key'[d] \notin recorded
      BY <2>1 DEF AccountInv, InFlightIsLast
  <2> QED BY <1>1, <2>1, <2>2, <2>3, AccountKept
<1> QED BY <1>2, <1>3, <1>4, <1>5, AccountGuard, AccountPublish, AccountRecord,
           AccountRestart, AccountRecover DEF TurnNext, TurnStep

(* The account of published, recorded and in-flight turns is kept by every *)
(* step, restarts and recoveries included.                                 *)
THEOREM AccountInvariant == TurnSpec => []AccountInv
<1>1. TurnInv /\ SessionInv /\ LoopInv /\ [TurnNext]_vars => LoopInv'
    BY LoopStep DEF TurnInv, GuardInv, SessionInv
<1> QED BY <1>1, LoopInit, AccountInit, AccountStep, TurnInvariant, SessionInvariant, PTL
        DEF TurnSpec

(* In a call whose turns are not retried the session counts the decisions  *)
(* on the stream, after any number of restarts in any place.               *)
THEOREM SessionCountsTheStream == TurnSpec => []TurnsAccounted
<1>1. AccountInv => TurnsAccounted BY DEF AccountInv
<1> QED BY <1>1, AccountInvariant, PTL

(* Every stored snapshot counts the decisions up to its offset.            *)
THEOREM SnapshotsCountTheStream == TurnSpec => []SnapshotsFaithful
<1>1. AccountInv => SnapshotsFaithful BY DEF AccountInv
<1> QED BY <1>1, AccountInvariant, PTL
===============================================================================
