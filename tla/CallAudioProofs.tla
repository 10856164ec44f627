--------------------------- MODULE CallAudioProofs ---------------------------
(***************************************************************************)
(* Proofs about the audio path of a call: no backchannel is ever reported  *)
(* (VADEndpointing), the gateway's books agree (MediaGateway), what the    *)
(* playback queue may hold (PlaybackPipeline) and what the jitter buffer   *)
(* may keep back (AudioSession).                                           *)
(***************************************************************************)
EXTENDS VADEndpointing, MediaGateway, PlaybackPipeline, AudioSession, FiniteSetTheorems,
        TLAPS
-----------------------------------------------------------------------------
(***************************************************************************)
(* Detection.  A candidate is at least 192 ms older than the silence that  *)
(* follows it: it is backdated by 200 ms, or to the start of the call when *)
(* it fires in the seventh window.                                         *)
(***************************************************************************)
VadNumbers == /\ now \in Nat /\ silenceRun \in Nat /\ sustained \in Nat
              /\ startMs \in Int /\ endMs \in Int
              /\ endMs >= 600 /\ sustained <= now
CandidateIsOld == pending => FrameMs * (now - 1) - startMs >= FrameMs * silenceRun + 192
VadInv == VadNumbers /\ CandidateIsOld /\ NoFillerIsRecognised

LEMMA VadInitInv == VadInit => VadInv
BY ThresholdAssumption DEF ThresholdAssumption, VadInit, VadInv, VadNumbers,
                           CandidateIsOld, NoFillerIsRecognised, FrameMs

LEMMA FiresLate ==
    ASSUME VadNumbers, NEW p \in Probability, Fires(p)
    PROVE  now >= 6 /\ SilenceRun(p) = 0
BY ThresholdAssumption, SMT
DEF ThresholdAssumption, VadNumbers, Fires, Sustained, SilenceRun, Speech, FrameMs, LookbackMs

LEMMA CandidateStaysOld ==
    ASSUME VadInv, NEW p \in Probability, Candidate(p)
    PROVE  /\ FrameMs * now - StartOf(p) >= FrameMs * SilenceRun(p) + 192
           /\ StartOf(p) \in Int
<1>1. CASE pending
  <2>1. StartOf(p) = startMs
    BY <1>1, Zenon DEF StartOf
  <2>2. FrameMs * (now - 1) - startMs >= FrameMs * silenceRun + 192
    BY <1>1 DEF VadInv, CandidateIsOld
  <2>3. SilenceRun(p) \in Nat /\ SilenceRun(p) <= silenceRun + 1
    BY DEF VadInv, VadNumbers, SilenceRun
  <2> QED
    BY <2>1, <2>2, <2>3, SMT DEF VadInv, VadNumbers, FrameMs
<1>2. CASE ~pending
  <2>1. Fires(p)
    BY <1>2, Zenon DEF Candidate
  <2>2. now >= 6 /\ SilenceRun(p) = 0
    BY <2>1, FiresLate DEF VadInv
  <2>3. StartOf(p) = LookedBack
    BY <1>2, <2>1, Zenon DEF StartOf
  <2> QED
    BY <2>2, <2>3, SMT DEF VadInv, VadNumbers, LookedBack, FrameMs, LookbackMs
<1> QED BY <1>1, <1>2

LEMMA NoFillerAtTheEnd ==
    ASSUME VadInv, NEW p \in Probability, Classifies(p)
    PROVE  ~IsFiller(p)
<1>1. Candidate(p) /\ Ends(p)
  BY DEF Classifies
<1>2. FrameMs * now - StartOf(p) >= FrameMs * SilenceRun(p) + 192 /\ StartOf(p) \in Int
  BY <1>1, CandidateStaysOld
<1>3. SilenceRun(p) \in Nat /\ FrameMs * SilenceRun(p) >= 600
  BY <1>1, SMT DEF Ends, VadInv, VadNumbers, SilenceRun, FrameMs
<1>4. SilenceRun(p) >= 19
  BY <1>3, SMT DEF FrameMs
<1> QED
  BY <1>2, <1>3, <1>4, ThresholdAssumption, SMT
  DEF ThresholdAssumption, IsFiller, Duration, FrameMs, VadInv, VadNumbers

LEMMA WindowInv ==
    ASSUME VadInv, NEW p \in Probability, Window(p)
    PROVE  VadInv'
<1>1. VadNumbers'
  <2>1. now' \in Nat /\ silenceRun' \in Nat
    BY DEF VadInv, VadNumbers, Window, Endpoint, SilenceRun
  <2>2. sustained' \in Nat /\ sustained' <= now'
    BY SMT DEF VadInv, VadNumbers, Window, Sustained
  <2>3. endMs' \in Int /\ endMs' >= 600
    BY ThresholdAssumption, SMT
    DEF ThresholdAssumption, VadInv, VadNumbers, Window, Endpoint, Adapted
  <2>4. startMs' \in Int
    <3>1. startMs' = 0 \/ startMs' = StartOf(p)
      BY Zenon DEF Window
    <3>2. StartOf(p) \in Int
      BY SMT DEF StartOf, LookedBack, VadInv, VadNumbers, FrameMs, LookbackMs
    <3> QED BY <3>1, <3>2
  <2> QED BY <2>1, <2>2, <2>3, <2>4 DEF VadNumbers
<1>2. CandidateIsOld'
  <2> SUFFICES ASSUME pending'
               PROVE  FrameMs * (now' - 1) - startMs' >= FrameMs * silenceRun' + 192
    BY Zenon DEF CandidateIsOld
  <2>1. ~Classifies(p)
    BY Zenon DEF Window
  <2>2. Candidate(p) /\ startMs' = StartOf(p)
    BY <2>1, Zenon DEF Window
  <2>3. FrameMs * now - StartOf(p) >= FrameMs * SilenceRun(p) + 192
    BY <2>2, CandidateStaysOld
  <2>4. now' = now + 1 /\ silenceRun' = SilenceRun(p)
    BY DEF Window, Endpoint
  <2> QED BY <2>2, <2>3, <2>4 DEF VadInv, VadNumbers
<1>3. NoFillerIsRecognised'
  <2>1. ~(Classifies(p) /\ IsFiller(p))
    BY NoFillerAtTheEnd
  <2>2. reported' \in {"bargein", "nothing"}
    BY <2>1, Zenon DEF Window
  <2> QED BY <2>2 DEF NoFillerIsRecognised
<1> QED BY <1>1, <1>2, <1>3 DEF VadInv

LEMMA VadStep == VadInv /\ [VadNext]_vadVars => VadInv'
<1> SUFFICES ASSUME VadInv, [VadNext]_vadVars
             PROVE  VadInv'
  OBVIOUS
<1>1. CASE \E p \in Probability : Window(p)
  BY <1>1, WindowInv
<1>2. CASE PlaybackStarts
  BY <1>2 DEF PlaybackStarts, VadInv, VadNumbers, CandidateIsOld, NoFillerIsRecognised, endpoint
<1>3. CASE PlaybackStops
  BY <1>3 DEF PlaybackStops, VadInv, VadNumbers, CandidateIsOld, NoFillerIsRecognised, endpoint
<1>4. CASE UNCHANGED vadVars
  BY <1>4 DEF vadVars, VadInv, VadNumbers, CandidateIsOld, NoFillerIsRecognised, endpoint
<1> QED BY <1>1, <1>2, <1>3, <1>4 DEF VadNext

\* The inductive invariant of the detection: candidates are old.
THEOREM DetectionInvariant == VadSpec => []VadInv
BY VadInitInv, VadStep, PTL DEF VadSpec

\* With a pause of 600 ms or more and a filler limit of 800 ms or less, no
\* sequence of windows makes the service report a backchannel.
THEOREM BackchannelsAreUnreachable == VadSpec => []NoFillerIsRecognised
<1>1. VadInv => NoFillerIsRecognised
  BY DEF VadInv
<1> QED BY <1>1, DetectionInvariant, PTL
-----------------------------------------------------------------------------
(***************************************************************************)
(* Admission.  While nothing of a call went wrong, at most one coroutine   *)
(* is at work on it; while one is, the call is admitted and has no         *)
(* adapter, and otherwise the books agree.                                 *)
(***************************************************************************)
Operations == Attempts \cup Releases
Steps == {"new", "connecting", "connected", "disconnecting", "released", "rejected", "raised"}
Working(c) == {o \in Operations : CallOf[o] = c /\ step[o] \in AtWork}

GatewayTypes ==
    /\ step \in [Operations -> Steps]
    /\ admitted \in [Calls -> Attempts \cup {NoAttempt}]
    /\ adapter \in [Calls -> Attempts \cup {NoAttempt}]
    /\ \A o \in Operations : step[o] = "connecting" => o \in Attempts
CallBooks(c) ==
    /\ \A o1, o2 \in Working(c) : o1 = o2
    /\ \A o \in Working(c) : /\ adapter[c] = NoAttempt /\ admitted[c] # NoAttempt
                             /\ step[o] = "connecting" => admitted[c] = o
    /\ Working(c) = {} => adapter[c] = admitted[c]
GatewayInv == GatewayTypes /\ \A c \in Calls \ (failed \cup overtaken) : CallBooks(c)

LEMMA GatewayInitInv == GatewayInit => GatewayInv
BY GatewayAssumption
DEF GatewayAssumption, GatewayInit, GatewayInv, GatewayTypes, CallBooks, Working, Operations,
    Steps, AtWork

\* What a step of one operation leaves alone at every other call.
LEMMA OtherCalls ==
    ASSUME GatewayInv, NEW o \in Operations, NEW s,
           step' = [step EXCEPT ![o] = s],
           \A c \in Calls \ {CallOf[o]} :
               adapter'[c] = adapter[c] /\ admitted'[c] = admitted[c],
           failed \subseteq failed', overtaken \subseteq overtaken',
           CallOf[o] \notin failed' \cup overtaken' => CallBooks(CallOf[o])'
    PROVE  \A c \in Calls \ (failed' \cup overtaken') : CallBooks(c)'
<1> SUFFICES ASSUME NEW c \in Calls \ (failed' \cup overtaken'), c # CallOf[o]
             PROVE  CallBooks(c)'
  OBVIOUS
<1>1. CallBooks(c)
  BY DEF GatewayInv
<1>2. \A q \in Operations : CallOf[q] = c => step'[q] = step[q]
  BY DEF GatewayInv, GatewayTypes
<1>3. Working(c)' = Working(c)
  BY <1>2 DEF Working
<1>4. \A q \in Working(c) : step'[q] = step[q]
  BY <1>2 DEF Working
<1> QED BY <1>1, <1>3, <1>4 DEF CallBooks

LEMMA AuthenticatedInv ==
    ASSUME GatewayInv, NEW o \in Operations, Authenticated(o)
    PROVE  GatewayInv'
<1> DEFINE c == CallOf[o]
<1>0. c \in Calls
  BY GatewayAssumption DEF GatewayAssumption, Operations
<1>1. PICK s \in {"connecting", "rejected", "raised"} :
         /\ step' = [step EXCEPT ![o] = s]
         /\ s = "connecting" => MayAdmit(c) /\ admitted' = [admitted EXCEPT ![c] = o]
         /\ s # "connecting" => admitted' = admitted
  BY DEF Authenticated
<1>2. /\ o \in Attempts /\ step[o] = "new" /\ adapter' = adapter
      /\ failed' = failed /\ overtaken' = overtaken
  BY DEF Authenticated
<1>3. GatewayTypes'
  BY <1>0, <1>1, <1>2 DEF GatewayInv, GatewayTypes, Steps
<1>4. ASSUME c \notin failed' \cup overtaken'
      PROVE  CallBooks(c)'
  <2>1. CallBooks(c)
    BY <1>0, <1>2, <1>4 DEF GatewayInv
  <2>2. CASE s = "connecting"
    <3>1. Working(c) = {} /\ adapter[c] = NoAttempt
      BY <1>1, <2>1, <2>2 DEF CallBooks, MayAdmit
    <3>2. Working(c)' = {o}
      BY <1>1, <2>2, <3>1 DEF Working, GatewayInv, GatewayTypes, AtWork
    <3>3. admitted'[c] = o /\ o # NoAttempt /\ step'[o] = "connecting"
      BY <1>0, <1>1, <1>2, <2>2, GatewayAssumption
      DEF GatewayInv, GatewayTypes, GatewayAssumption
    <3> QED BY <1>2, <3>1, <3>2, <3>3 DEF CallBooks
  <2>3. CASE s # "connecting"
    <3>1. Working(c)' = Working(c) /\ \A q \in Working(c) : step'[q] = step[q]
      BY <1>1, <1>2, <2>3 DEF Working, GatewayInv, GatewayTypes, AtWork
    <3> QED BY <1>1, <1>2, <2>1, <2>3, <3>1 DEF CallBooks
  <2> QED BY <2>2, <2>3
<1>5. \A d \in Calls \ {c} : adapter'[d] = adapter[d] /\ admitted'[d] = admitted[d]
  BY <1>1, <1>2 DEF GatewayInv, GatewayTypes
<1>6. \A d \in Calls \ (failed' \cup overtaken') : CallBooks(d)'
  BY <1>1, <1>2, <1>4, <1>5, OtherCalls, Zenon
<1> QED BY <1>3, <1>6 DEF GatewayInv

LEMMA ConnectedInv ==
    ASSUME GatewayInv, NEW o \in Operations, Connected(o)
    PROVE  GatewayInv'
<1> DEFINE c == CallOf[o]
<1>0. c \in Calls /\ o \in Attempts
  BY GatewayAssumption DEF GatewayAssumption, Operations, GatewayInv, GatewayTypes, Connected
<1>1. PICK s \in {"connected", "raised"} :
         /\ step' = [step EXCEPT ![o] = s]
         /\ s = "connected" => adapter' = [adapter EXCEPT ![c] = o] /\ failed' = failed
         /\ s = "raised" => adapter' = adapter /\ failed' = failed \cup {c}
  BY DEF Connected
<1>2. step[o] = "connecting" /\ admitted' = admitted /\ overtaken' = overtaken
  BY DEF Connected
<1>3. GatewayTypes'
  BY <1>0, <1>1, <1>2 DEF GatewayInv, GatewayTypes, Steps
<1>4. ASSUME c \notin failed' \cup overtaken'
      PROVE  CallBooks(c)'
  <2>1. s = "connected" /\ CallBooks(c)
    BY <1>0, <1>1, <1>2, <1>4 DEF GatewayInv
  <2>2. o \in Working(c)
    BY <1>2 DEF Working, AtWork
  <2>3. Working(c)' = {}
    BY <1>1, <2>1, <2>2 DEF Working, CallBooks, GatewayInv, GatewayTypes, AtWork
  <2>4. admitted'[c] = o /\ adapter'[c] = o
    BY <1>0, <1>1, <1>2, <2>1, <2>2 DEF CallBooks, GatewayInv, GatewayTypes
  <2> QED BY <2>3, <2>4 DEF CallBooks
<1>5. \A d \in Calls \ {c} : adapter'[d] = adapter[d] /\ admitted'[d] = admitted[d]
  BY <1>1, <1>2 DEF GatewayInv, GatewayTypes
<1>6. failed \subseteq failed'
  BY <1>1
<1>7. \A d \in Calls \ (failed' \cup overtaken') : CallBooks(d)'
  BY <1>1, <1>2, <1>4, <1>5, <1>6, OtherCalls, Zenon
<1> QED BY <1>3, <1>7 DEF GatewayInv

LEMMA ReleaseStartsInv ==
    ASSUME GatewayInv, NEW o \in Operations, ReleaseStarts(o)
    PROVE  GatewayInv'
<1> DEFINE c == CallOf[o]
<1>0. c \in Calls /\ o \notin Attempts
  BY GatewayAssumption DEF GatewayAssumption, Operations, ReleaseStarts
<1>1. PICK s \in {"disconnecting", "released"} :
         /\ step' = [step EXCEPT ![o] = s]
         /\ s = "disconnecting" => adapter[c] # NoAttempt /\ admitted' = admitted
         /\ s = "released" => /\ adapter[c] = NoAttempt
                              /\ admitted' = [admitted EXCEPT ![c] = NoAttempt]
  BY DEF ReleaseStarts
<1>2. /\ step[o] = "new" /\ failed' = failed
      /\ adapter' = [adapter EXCEPT ![c] = NoAttempt]
      /\ overtaken' = IF Busy(c) THEN overtaken \cup {c} ELSE overtaken
  BY DEF ReleaseStarts
<1>3. GatewayTypes'
  BY <1>0, <1>1, <1>2 DEF GatewayInv, GatewayTypes, Steps
<1>4. ASSUME c \notin failed' \cup overtaken'
      PROVE  CallBooks(c)'
  <2>1. ~Busy(c) /\ c \notin failed \cup overtaken
    BY <1>2, <1>4
  <2>2. Working(c) = {}
    BY <2>1 DEF Busy, Working, Operations
  <2>3. adapter[c] = admitted[c]
    BY <1>0, <2>1, <2>2 DEF GatewayInv, CallBooks
  <2>4. adapter'[c] = NoAttempt
    BY <1>0, <1>2 DEF GatewayInv, GatewayTypes
  <2>5. CASE s = "disconnecting"
    <3>1. Working(c)' = {o}
      BY <1>1, <2>2, <2>5 DEF Working, GatewayInv, GatewayTypes, AtWork
    <3>2. admitted'[c] # NoAttempt /\ step'[o] # "connecting"
      BY <1>1, <2>3, <2>5 DEF GatewayInv, GatewayTypes
    <3> QED BY <2>4, <3>1, <3>2 DEF CallBooks
  <2>6. CASE s = "released"
    <3>1. Working(c)' = {}
      BY <1>1, <2>2, <2>6 DEF Working, GatewayInv, GatewayTypes, AtWork
    <3>2. admitted'[c] = NoAttempt
      BY <1>0, <1>1, <2>6 DEF GatewayInv, GatewayTypes
    <3> QED BY <2>4, <3>1, <3>2 DEF CallBooks
  <2> QED BY <2>5, <2>6
<1>5. \A d \in Calls \ {c} : adapter'[d] = adapter[d] /\ admitted'[d] = admitted[d]
  BY <1>1, <1>2 DEF GatewayInv, GatewayTypes
<1>6. overtaken \subseteq overtaken'
  BY <1>2
<1>7. \A d \in Calls \ (failed' \cup overtaken') : CallBooks(d)'
  BY <1>1, <1>2, <1>4, <1>5, <1>6, OtherCalls, Zenon
<1> QED BY <1>3, <1>7 DEF GatewayInv

LEMMA DisconnectedInv ==
    ASSUME GatewayInv, NEW o \in Operations, Disconnected(o)
    PROVE  GatewayInv'
<1> DEFINE c == CallOf[o]
<1>0. c \in Calls
  BY GatewayAssumption DEF GatewayAssumption, Operations
<1>1. PICK s \in {"released", "raised"} :
         /\ step' = [step EXCEPT ![o] = s]
         /\ s = "released" => /\ admitted' = [admitted EXCEPT ![c] = NoAttempt]
                              /\ failed' = failed
         /\ s = "raised" => admitted' = admitted /\ failed' = failed \cup {c}
  BY DEF Disconnected
<1>2. step[o] = "disconnecting" /\ adapter' = adapter /\ overtaken' = overtaken
  BY DEF Disconnected
<1>3. GatewayTypes'
  BY <1>0, <1>1, <1>2 DEF GatewayInv, GatewayTypes, Steps
<1>4. ASSUME c \notin failed' \cup overtaken'
      PROVE  CallBooks(c)'
  <2>1. s = "released" /\ CallBooks(c)
    BY <1>0, <1>1, <1>2, <1>4 DEF GatewayInv
  <2>2. o \in Working(c)
    BY <1>2 DEF Working, AtWork
  <2>3. Working(c)' = {}
    BY <1>1, <2>1, <2>2 DEF Working, CallBooks, GatewayInv, GatewayTypes, AtWork
  <2>4. admitted'[c] = NoAttempt /\ adapter'[c] = NoAttempt
    BY <1>0, <1>1, <1>2, <2>1, <2>2 DEF CallBooks, GatewayInv, GatewayTypes
  <2> QED BY <2>3, <2>4 DEF CallBooks
<1>5. \A d \in Calls \ {c} : adapter'[d] = adapter[d] /\ admitted'[d] = admitted[d]
  BY <1>1, <1>2 DEF GatewayInv, GatewayTypes
<1>6. failed \subseteq failed'
  BY <1>1
<1>7. \A d \in Calls \ (failed' \cup overtaken') : CallBooks(d)'
  BY <1>1, <1>2, <1>4, <1>5, <1>6, OtherCalls, Zenon
<1> QED BY <1>3, <1>7 DEF GatewayInv

LEMMA GatewayStep == GatewayInv /\ [GatewayNext]_gatewayVars => GatewayInv'
<1> SUFFICES ASSUME GatewayInv, [GatewayNext]_gatewayVars
             PROVE  GatewayInv'
  OBVIOUS
<1>1. CASE GatewayNext
  BY <1>1, AuthenticatedInv, ConnectedInv, ReleaseStartsInv, DisconnectedInv
  DEF GatewayNext, Operations
<1>2. CASE UNCHANGED gatewayVars
  BY <1>2 DEF gatewayVars, GatewayInv, GatewayTypes, CallBooks, Working
<1> QED BY <1>1, <1>2

\* The inductive invariant of admission and release.
THEOREM GatewayInvariant == GatewaySpec => []GatewayInv
BY GatewayInitInv, GatewayStep, PTL DEF GatewaySpec

\* For any number of calls, admissions and releases: sessions and adapters
\* agree at every call that nothing failed for and no release overtook.
THEOREM GatewayBooksAgree == GatewaySpec => []BooksAgree
<1>1. GatewayInv => BooksAgree
  BY DEF GatewayInv, BooksAgree, CallBooks, Working, Busy, Operations
<1> QED BY <1>1, GatewayInvariant, PTL
-----------------------------------------------------------------------------
(***************************************************************************)
(* Playback.  The newest clause in the queue is the one the pipeline made  *)
(* last, and while an interruption is not cleared the signal is still set. *)
(***************************************************************************)
Clause == [turn : Nat, index : Nat, final : BOOLEAN]
PlaybackTypes == /\ queue \in Seq(Clause)
                 /\ turn \in Nat /\ base \in Nat /\ made \in Nat /\ pieces \in Nat
                 /\ pc \in {"idle", "stream", "audio"}
                 /\ \A t \in interrupted : t \in Nat /\ t <= turn
TurnsSoFar == \A i \in 1..Len(queue) : queue[i].turn <= turn
SignalStands == pc # "idle" /\ turn \in interrupted /\ turn \notin cleared => bargeIn
Newest == queue[Len(queue)]
NewestFits ==
    queue # <<>> /\ Newest.turn = turn =>
        /\ pc = "stream" => Newest.index + 1 = base /\ ~Newest.final
        /\ pc = "audio" => /\ Newest.index + 1 = base + made
                           /\ Newest.final => pieces = 0 /\ last
PlaybackInv == /\ PlaybackTypes /\ TurnsSoFar /\ SignalStands
               /\ StaleAudioNeedsEarlyClear
               /\ NewestFits /\ ClausesInOrder

LEMMA PlaybackInitInv == PlaybackInit => PlaybackInv
BY DEF PlaybackInit, PlaybackInv, PlaybackTypes, TurnsSoFar, SignalStands,
       StaleAudioNeedsEarlyClear, NewestFits, ClausesInOrder

\* A step that leaves the queue and the signals alone keeps what is said of them.
LEMMA QueueKept ==
    ASSUME PlaybackInv, UNCHANGED <<queue, interrupted, cleared>>
    PROVE  StaleAudioNeedsEarlyClear' /\ ClausesInOrder'
BY DEF PlaybackInv, StaleAudioNeedsEarlyClear, ClausesInOrder

LEMMA TurnNumbers ==
    ASSUME PlaybackInv
    PROVE  /\ turn \in Nat /\ Len(queue) \in Nat
           /\ \A i \in 1..Len(queue) : queue[i].turn \in Nat /\ queue[i].turn <= turn
<1>1. queue \in Seq(Clause) /\ turn \in Nat
  BY DEF PlaybackInv, PlaybackTypes
<1>2. \A i \in 1..Len(queue) : queue[i] \in Clause
  BY <1>1
<1>3. \A i \in 1..Len(queue) : queue[i].turn \in Nat
  BY <1>2, Zenon DEF Clause
<1> QED BY <1>1, <1>3 DEF PlaybackInv, TurnsSoFar

LEMMA SynthesiseInv ==
    ASSUME PlaybackInv, NEW final, Synthesise(final), pc = "stream",
           UNCHANGED <<queue, bargeIn, turn, base, interrupted, cleared>>
    PROVE  PlaybackInv'
<1>1. PlaybackTypes'
  <2>1. pieces' \in Nat
    BY PlaybackAssumption DEF PlaybackAssumption, Synthesise
  <2> QED BY <2>1 DEF PlaybackInv, PlaybackTypes, Synthesise
<1>2. TurnsSoFar'
  BY DEF PlaybackInv, TurnsSoFar
<1>3. SignalStands'
  BY DEF PlaybackInv, SignalStands
<1>4. NewestFits'
  <2> SUFFICES ASSUME queue # <<>>, Newest.turn = turn
               PROVE  Newest.index + 1 = base + 0 /\ ~Newest.final
    BY DEF NewestFits, Newest, Synthesise
  <2>1. Newest.index + 1 = base /\ ~Newest.final
    BY Zenon DEF PlaybackInv, NewestFits
  <2> QED BY <2>1 DEF PlaybackInv, PlaybackTypes
<1> QED BY <1>1, <1>2, <1>3, <1>4, QueueKept DEF PlaybackInv

LEMMA SpeakRestInv ==
    ASSUME PlaybackInv, NEW text, SpeakRest(text), pc = "stream",
           UNCHANGED <<queue, bargeIn, turn, base, interrupted, cleared>>
    PROVE  PlaybackInv'
<1>1. CASE text
  BY <1>1, SynthesiseInv DEF SpeakRest
<1>2. CASE ~text
  <2>1. pc' = "idle" /\ UNCHANGED <<last, made, pieces>>
    BY <1>2 DEF SpeakRest
  <2>2. PlaybackTypes' /\ TurnsSoFar' /\ SignalStands' /\ NewestFits'
    BY <2>1 DEF PlaybackInv, PlaybackTypes, TurnsSoFar, SignalStands, NewestFits
  <2> QED BY <2>2, QueueKept DEF PlaybackInv
<1> QED BY <1>1, <1>2

LEMMA EnqueueInv ==
    ASSUME PlaybackInv, pc = "audio", pieces > 0, ~bargeIn,
           queue' = Append(queue, [turn |-> turn, index |-> base + made,
                                   final |-> last /\ pieces = 1]),
           made' = made + 1, pieces' = pieces - 1,
           UNCHANGED <<pc, bargeIn, turn, base, last, interrupted, cleared>>
    PROVE  PlaybackInv'
<1> DEFINE new == [turn |-> turn, index |-> base + made, final |-> last /\ pieces = 1]
<1>0. queue \in Seq(Clause) /\ queue' = Append(queue, new)
  BY DEF PlaybackInv, PlaybackTypes
<1>1. new \in Clause /\ new.turn = turn /\ new.index = base + made
  <2>1. (last /\ pieces = 1) \in BOOLEAN
    BY Zenon
  <2>2. base + made \in Nat /\ turn \in Nat
    BY DEF PlaybackInv, PlaybackTypes
  <2> QED BY <2>1, <2>2, Zenon DEF Clause
<1>2. new.final => last /\ pieces = 1
  BY Zenon
<1> HIDE DEF new
<1>3. /\ queue' \in Seq(Clause) /\ Len(queue') = Len(queue) + 1 /\ Len(queue) \in Nat
      /\ queue'[Len(queue) + 1] = new
      /\ \A i \in 1..Len(queue) : queue'[i] = queue[i]
  BY <1>0, <1>1
<1>4. PlaybackTypes'
  BY <1>3 DEF PlaybackInv, PlaybackTypes
<1>5. TurnsSoFar'
  BY <1>1, <1>3 DEF PlaybackInv, PlaybackTypes, TurnsSoFar
<1>6. SignalStands'
  BY DEF PlaybackInv, SignalStands
<1>7. StaleAudioNeedsEarlyClear'
  <2>1. turn \in interrupted => turn \in cleared
    BY DEF PlaybackInv, SignalStands
  <2>2. DOMAIN queue' = 1..(Len(queue) + 1) /\ DOMAIN queue = 1..Len(queue)
    BY <1>0, <1>3
  <2> QED BY <1>1, <1>3, <2>1, <2>2 DEF PlaybackInv, StaleAudioNeedsEarlyClear
<1>8. NewestFits'
  <2>1. Newest' = new
    BY <1>3 DEF Newest
  <2>2. base + made + 1 = base' + made'
    BY DEF PlaybackInv, PlaybackTypes
  <2>3. new.final => pieces' = 0 /\ last'
    BY <1>2
  <2> QED BY <1>1, <2>1, <2>2, <2>3, Zenon DEF NewestFits
<1>9. ClausesInOrder'
  <2> SUFFICES ASSUME NEW i \in 1..Len(queue)
               PROVE  Follows(queue'[i], queue'[i + 1])
    BY <1>3 DEF ClausesInOrder, Follows
  <2>1. CASE i < Len(queue)
    <3>1. Follows(queue[i], queue[i + 1])
      BY <1>3, <2>1 DEF PlaybackInv, ClausesInOrder
    <3>2. queue'[i] = queue[i] /\ queue'[i + 1] = queue[i + 1]
      BY <1>3, <2>1
    <3> QED BY <3>1, <3>2
  <2>2. CASE i = Len(queue)
    <3>1. queue'[i] = Newest /\ queue'[i + 1] = new /\ queue # <<>>
      BY <1>0, <1>3, <2>2 DEF Newest
    <3>2. Newest.turn \in Nat /\ Newest.turn <= turn /\ turn \in Nat
      BY <2>2, TurnNumbers DEF Newest
    <3>3. CASE Newest.turn < turn
      BY <1>1, <3>1, <3>3 DEF Follows
    <3>4. CASE Newest.turn = turn
      <4>1. Newest.index + 1 = base + made /\ (Newest.final => pieces = 0 /\ last)
        BY <3>1, <3>4, Zenon DEF PlaybackInv, NewestFits
      <4>2. ~Newest.final
        BY <4>1
      <4> QED BY <1>1, <3>1, <3>4, <4>1, <4>2, Zenon DEF Follows
    <3> QED BY <3>2, <3>3, <3>4
  <2> QED BY <1>3, <2>1, <2>2
<1> QED BY <1>4, <1>5, <1>6, <1>7, <1>8, <1>9 DEF PlaybackInv

LEMMA DequeueInv ==
    ASSUME PlaybackInv, Dequeue
    PROVE  PlaybackInv'
<1>1. /\ queue \in Seq(Clause) /\ queue # <<>> /\ queue' = Tail(queue)
      /\ UNCHANGED <<pc, turn, last, base, made, pieces, bargeIn, interrupted, cleared>>
  BY DEF Dequeue, stream, PlaybackInv, PlaybackTypes
<1>2. /\ queue' \in Seq(Clause) /\ Len(queue') = Len(queue) - 1 /\ Len(queue) \in Nat
      /\ \A i \in 1..Len(queue') : queue'[i] = queue[i + 1]
      /\ DOMAIN queue' = 1..Len(queue') /\ DOMAIN queue = 1..Len(queue)
  BY <1>1
<1>3. PlaybackTypes' /\ TurnsSoFar' /\ SignalStands'
  BY <1>1, <1>2 DEF PlaybackInv, PlaybackTypes, TurnsSoFar, SignalStands
<1>4. StaleAudioNeedsEarlyClear' /\ ClausesInOrder'
  BY <1>1, <1>2 DEF PlaybackInv, StaleAudioNeedsEarlyClear, ClausesInOrder
<1>5. NewestFits'
  <2>1. queue' # <<>> => Newest' = Newest
    BY <1>1, <1>2 DEF Newest
  <2> QED BY <1>1, <2>1, Zenon DEF PlaybackInv, NewestFits
<1> QED BY <1>3, <1>4, <1>5 DEF PlaybackInv

LEMMA SignalInv ==
    ASSUME PlaybackInv, Flush \/ ClearBargeIn
    PROVE  PlaybackInv'
<1>0. UNCHANGED <<pc, turn, last, base, made, pieces>>
  BY DEF Flush, ClearBargeIn, stream
<1>1. CASE Flush
  BY <1>0, <1>1
  DEF Flush, PlaybackInv, PlaybackTypes, TurnsSoFar, SignalStands,
      StaleAudioNeedsEarlyClear, NewestFits, ClausesInOrder
<1>2. CASE ClearBargeIn
  <2>1. queue' = queue /\ interrupted' = interrupted /\ cleared \subseteq cleared'
    BY <1>2 DEF ClearBargeIn
  <2>2. PlaybackTypes' /\ TurnsSoFar' /\ StaleAudioNeedsEarlyClear' /\ ClausesInOrder'
    BY <1>0, <2>1 DEF PlaybackInv, PlaybackTypes, TurnsSoFar, StaleAudioNeedsEarlyClear,
                      ClausesInOrder
  <2>3. SignalStands'
    BY <1>0, <1>2 DEF ClearBargeIn, SignalStands
  <2>4. NewestFits'
    BY <1>0, <2>1, Zenon DEF PlaybackInv, NewestFits, Newest
  <2> QED BY <2>2, <2>3, <2>4 DEF PlaybackInv
<1> QED BY <1>1, <1>2

LEMMA StartTurnInv ==
    ASSUME PlaybackInv, StartTurn
    PROVE  PlaybackInv'
<1>1. /\ turn' = turn + 1 /\ turn \in Nat /\ base' = 0 /\ pc' = "stream"
      /\ UNCHANGED <<queue, made, pieces, interrupted, cleared>>
  BY DEF StartTurn, PlaybackInv, PlaybackTypes
<1>2. PlaybackTypes' /\ TurnsSoFar'
  BY <1>1, TurnNumbers DEF PlaybackInv, PlaybackTypes, TurnsSoFar
<1>3. SignalStands'
  BY <1>1 DEF PlaybackInv, PlaybackTypes, SignalStands
<1>4. NewestFits'
  <2>1. queue # <<>> => Newest.turn <= turn /\ Newest.turn \in Nat
    <3>1. queue # <<>> => Len(queue) \in 1..Len(queue)
      BY DEF PlaybackInv, PlaybackTypes
    <3> QED BY <3>1, TurnNumbers DEF Newest
  <2>2. Newest' = Newest
    BY <1>1 DEF Newest
  <2>3. ~(queue' # <<>> /\ Newest'.turn = turn')
    BY <1>1, <2>1, <2>2
  <2> QED BY <2>3, Zenon DEF NewestFits
<1> QED BY <1>1, <1>2, <1>3, <1>4, QueueKept DEF PlaybackInv

LEMMA AudioEndsInv ==
    ASSUME PlaybackInv, AudioEnds
    PROVE  PlaybackInv'
<1>1. /\ pc = "audio" /\ base' = base + made /\ pc' \in {"idle", "stream"}
      /\ pc' = "stream" => ~last
      /\ UNCHANGED <<queue, bargeIn, turn, last, made, pieces, interrupted, cleared>>
  BY DEF AudioEnds, NextBase
<1>2. PlaybackTypes' /\ TurnsSoFar' /\ SignalStands'
  BY <1>1 DEF PlaybackInv, PlaybackTypes, TurnsSoFar, SignalStands
<1>3. NewestFits'
  <2>1. Newest' = Newest
    BY <1>1 DEF Newest
  <2>2. pc' # "audio"
    BY <1>1
  <2> QED BY <1>1, <2>1, <2>2, Zenon DEF PlaybackInv, NewestFits
<1> QED BY <1>1, <1>2, <1>3, QueueKept DEF PlaybackInv

LEMMA PlaybackStep == PlaybackInv /\ [PlaybackNext]_playbackVars => PlaybackInv'
<1> SUFFICES ASSUME PlaybackInv, [PlaybackNext]_playbackVars
             PROVE  PlaybackInv'
  OBVIOUS
<1>1. CASE StartTurn
  BY <1>1, StartTurnInv
<1>2. CASE NextChunk
  <2>1. CASE \E text \in {rest, TRUE} : SpeakRest(text)
    BY <1>2, <2>1, SpeakRestInv DEF NextChunk
  <2>2. CASE UNCHANGED <<pc, last, made, pieces>>
    <3>1. UNCHANGED <<queue, bargeIn, turn, base, interrupted, cleared>>
      BY <1>2 DEF NextChunk
    <3>2. PlaybackTypes' /\ TurnsSoFar' /\ SignalStands'
      BY <2>2, <3>1 DEF PlaybackInv, PlaybackTypes, TurnsSoFar, SignalStands
    <3>3. NewestFits'
      BY <2>2, <3>1, Zenon DEF PlaybackInv, NewestFits, Newest
    <3> QED BY <3>1, <3>2, <3>3, QueueKept DEF PlaybackInv
  <2> QED BY <1>2, <2>1, <2>2, Zenon DEF NextChunk
<1>3. CASE LeaveLoop
  BY <1>3, SpeakRestInv DEF LeaveLoop
<1>4. CASE NextClause
  BY <1>4, SynthesiseInv DEF NextClause
<1>5. CASE Enqueue
  <2>0. /\ pc = "audio" /\ pieces > 0
        /\ UNCHANGED <<bargeIn, turn, last, base, interrupted, cleared>>
    BY <1>5 DEF Enqueue
  <2>1. CASE bargeIn
    <3>1. pieces' = 0 /\ UNCHANGED <<queue, made, pc>>
      BY <1>5, <2>1 DEF Enqueue, Heard
    <3>2. PlaybackTypes' /\ TurnsSoFar' /\ SignalStands'
      BY <2>0, <3>1 DEF PlaybackInv, PlaybackTypes, TurnsSoFar, SignalStands
    <3>3. Newest' = Newest /\ pieces > 0 /\ pieces # 0
      BY <2>0, <3>1 DEF Newest, PlaybackInv, PlaybackTypes
    <3>4. NewestFits'
      BY <2>0, <3>1, <3>3, Zenon DEF PlaybackInv, NewestFits
    <3> QED BY <2>0, <3>1, <3>2, <3>4, QueueKept DEF PlaybackInv
  <2>2. CASE ~bargeIn /\ Len(queue) >= QueueDepth
    <3>1. pc' = "idle" /\ UNCHANGED <<queue, made, pieces>>
      BY <1>5, <2>2 DEF Enqueue, Heard
    <3>2. PlaybackTypes' /\ TurnsSoFar' /\ SignalStands' /\ NewestFits'
      BY <2>0, <3>1 DEF PlaybackInv, PlaybackTypes, TurnsSoFar, SignalStands, NewestFits
    <3> QED BY <2>0, <3>1, <3>2, QueueKept DEF PlaybackInv
  <2>3. CASE ~bargeIn /\ ~(Len(queue) >= QueueDepth)
    BY <1>5, <2>0, <2>3, EnqueueInv, Zenon DEF Enqueue, Heard
  <2> QED BY <2>1, <2>2, <2>3
<1>6. CASE AudioEnds
  BY <1>6, AudioEndsInv
<1>7. CASE Dequeue
  BY <1>7, DequeueInv
<1>8. CASE Flush \/ ClearBargeIn
  BY <1>8, SignalInv
<1>9. CASE UNCHANGED playbackVars
  <2>1. /\ UNCHANGED <<queue, bargeIn, interrupted, cleared>>
        /\ UNCHANGED <<pc, turn, last, base, made, pieces>>
    BY <1>9 DEF playbackVars, stream
  <2>2. PlaybackTypes' /\ TurnsSoFar' /\ SignalStands'
    BY <2>1 DEF PlaybackInv, PlaybackTypes, TurnsSoFar, SignalStands
  <2>3. NewestFits'
    BY <2>1, Zenon DEF PlaybackInv, NewestFits, Newest
  <2> QED BY <2>1, <2>2, <2>3, QueueKept DEF PlaybackInv
<1> QED BY <1>1, <1>2, <1>3, <1>4, <1>5, <1>6, <1>7, <1>8, <1>9 DEF PlaybackNext

\* The inductive invariant of the pipeline and its queue.
THEOREM PlaybackInvariant == PlaybackSpec => []PlaybackInv
BY PlaybackInitInv, PlaybackStep, PTL DEF PlaybackSpec

\* Audio of an interrupted turn only comes back after an early clear.
THEOREM StaleAudioOnlyAfterEarlyClear == PlaybackSpec => []StaleAudioNeedsEarlyClear
<1>1. PlaybackInv => StaleAudioNeedsEarlyClear
  BY DEF PlaybackInv
<1> QED BY <1>1, PlaybackInvariant, PTL

\* The queue keeps the turns and their clauses in order, finals last.
THEOREM PlaybackInOrder == PlaybackSpec => []ClausesInOrder
<1>1. PlaybackInv => ClausesInOrder
  BY DEF PlaybackInv
<1> QED BY <1>1, PlaybackInvariant, PTL

\* Steps of which the ear hears nothing: a clause is looked at, prepared or done with.
LEMMA Unheard ==
    ASSUME UNCHANGED <<queue, bargeIn, turn>>, TurnOpen' = TurnOpen,
           TurnOpen => NextIndex' = NextIndex
    PROVE  UNCHANGED Playout!playoutVars
BY DEF Playout!playoutVars, NextIndex

\* Steps after which the turn says no more.
LEMMA TurnIsOver ==
    ASSUME UNCHANGED <<queue, bargeIn, turn>>, TurnOpen, ~TurnOpen'
    PROVE  Playout!Next
BY DEF Playout!Next, Playout!End, NextIndex

\* A clause without audio says nothing, and if it is the final one ends the turn.
LEMMA SynthesiseIsPlayout ==
    ASSUME PlaybackInv, NEW final, Synthesise(final), pc = "stream",
           UNCHANGED <<queue, bargeIn, turn, base>>
    PROVE  [Playout!Next]_(Playout!playoutVars)
<1>1. TurnOpen /\ NextIndex = base
  BY DEF TurnOpen, NextIndex
<1>2. CASE final /\ pieces' = 0
  <2>1. ~TurnOpen'
    BY <1>2 DEF Synthesise, TurnOpen
  <2> QED BY <1>1, <2>1, TurnIsOver
<1>3. CASE ~(final /\ pieces' = 0)
  <2>1. TurnOpen' /\ NextIndex' = base + 0
    BY <1>3 DEF Synthesise, TurnOpen, NextIndex
  <2>2. NextIndex' = NextIndex
    BY <1>1, <2>1 DEF PlaybackInv, PlaybackTypes
  <2> QED BY <1>1, <2>1, <2>2, Unheard
<1> QED BY <1>2, <1>3

LEMMA SpeakRestIsPlayout ==
    ASSUME PlaybackInv, NEW text, SpeakRest(text), pc = "stream",
           UNCHANGED <<queue, bargeIn, turn, base>>
    PROVE  [Playout!Next]_(Playout!playoutVars)
<1>1. CASE text
  BY <1>1, SynthesiseIsPlayout DEF SpeakRest
<1>2. CASE ~text
  <2>1. TurnOpen /\ ~TurnOpen'
    BY <1>2 DEF SpeakRest, TurnOpen
  <2> QED BY <2>1, TurnIsOver
<1> QED BY <1>1, <1>2

LEMMA EnqueueIsPlayout ==
    ASSUME PlaybackInv, Enqueue
    PROVE  [Playout!Next]_(Playout!playoutVars)
<1>0. /\ pc = "audio" /\ pieces > 0 /\ pieces \in Nat /\ base \in Nat /\ made \in Nat
      /\ UNCHANGED <<bargeIn, turn, last, base>>
  BY DEF Enqueue, PlaybackInv, PlaybackTypes
<1>1. TurnOpen /\ NextIndex = base + made
  BY <1>0 DEF TurnOpen, NextIndex
<1>2. CASE bargeIn
  <2>1. pieces' = 0 /\ UNCHANGED <<queue, made, pc>>
    BY <1>2 DEF Enqueue, Heard
  <2>2. CASE last
    BY <1>0, <1>1, <2>1, <2>2, TurnIsOver DEF TurnOpen
  <2>3. CASE ~last
    <3>1. TurnOpen' /\ NextIndex' = base + made
      BY <1>0, <2>1, <2>3 DEF TurnOpen, NextIndex
    <3> QED BY <1>0, <1>1, <2>1, <3>1, Unheard
  <2> QED BY <2>2, <2>3
<1>3. CASE ~bargeIn /\ Len(queue) >= QueueDepth
  <2>1. pc' = "idle" /\ UNCHANGED queue
    BY <1>3 DEF Enqueue, Heard
  <2> QED BY <1>0, <1>1, <2>1, TurnIsOver DEF TurnOpen
<1>4. CASE ~bargeIn /\ ~(Len(queue) >= QueueDepth)
  <2> DEFINE final == last /\ pieces = 1
  <2>1. /\ queue' = Append(queue, [turn |-> turn, index |-> base + made, final |-> final])
        /\ made' = made + 1 /\ pieces' = pieces - 1 /\ pc' = pc
    BY <1>4 DEF Enqueue, Heard
  <2>2. final \in BOOLEAN
    OBVIOUS
  <2>3. TurnOpen' <=> ~final
    BY <1>0, <2>1 DEF TurnOpen
  <2>4. TurnOpen' = ~final
    BY <2>3, Zenon DEF TurnOpen
  <2>5. NextIndex' = IF final THEN 0 ELSE NextIndex + 1
    BY <1>0, <1>1, <2>1, <2>3 DEF NextIndex
  <2>6. Len(queue) < QueueDepth
    BY <1>4, PlaybackAssumption DEF PlaybackInv, PlaybackTypes, PlaybackAssumption
  <2> HIDE DEF final
  <2>7. Playout!Speak(final)
    BY <1>0, <1>1, <1>4, <2>1, <2>4, <2>5, <2>6 DEF Playout!Speak
  <2> QED BY <2>2, <2>7 DEF Playout!Next
<1> QED BY <1>2, <1>3, <1>4

LEMMA PlaybackStepIsPlayout ==
    ASSUME PlaybackInv, [PlaybackNext]_playbackVars
    PROVE  [Playout!Next]_(Playout!playoutVars)
<1>1. CASE StartTurn
  <2>1. /\ ~TurnOpen /\ TurnOpen' = TRUE /\ NextIndex' = 0 /\ turn' = turn + 1
        /\ UNCHANGED <<queue, bargeIn>>
    BY <1>1 DEF StartTurn, TurnOpen, NextIndex
  <2> QED BY <2>1 DEF Playout!Next, Playout!NextTurn
<1>2. CASE NextChunk
  <2>1. pc = "stream" /\ UNCHANGED <<queue, bargeIn, turn, base>>
    BY <1>2 DEF NextChunk
  <2>2. CASE \E text \in {rest, TRUE} : SpeakRest(text)
    BY <2>1, <2>2, SpeakRestIsPlayout
  <2>3. CASE UNCHANGED <<pc, last, made, pieces>>
    BY <2>1, <2>3, Unheard DEF TurnOpen, NextIndex
  <2> QED BY <1>2, <2>2, <2>3, Zenon DEF NextChunk
<1>3. CASE LeaveLoop
  BY <1>3, SpeakRestIsPlayout DEF LeaveLoop
<1>4. CASE NextClause
  BY <1>4, SynthesiseIsPlayout DEF NextClause
<1>5. CASE Enqueue
  BY <1>5, EnqueueIsPlayout
<1>6. CASE AudioEnds
  <2>1. /\ pc = "audio" /\ pieces = 0 /\ base' = base + made
        /\ pc' = IF last THEN "idle" ELSE "stream"
        /\ UNCHANGED <<queue, bargeIn, turn, last, pieces>>
    BY <1>6 DEF AudioEnds, NextBase
  <2>2. CASE last
    <3>1. ~TurnOpen /\ ~TurnOpen'
      BY <2>1, <2>2 DEF TurnOpen
    <3> QED BY <2>1, <3>1, Unheard DEF TurnOpen
  <2>3. CASE ~last
    <3>1. /\ TurnOpen = TRUE /\ TurnOpen' = TRUE
          /\ NextIndex = base + made /\ NextIndex' = base + made
      BY <2>1, <2>3 DEF TurnOpen, NextIndex
    <3> QED BY <2>1, <3>1, Unheard
  <2> QED BY <2>2, <2>3
<1>7. CASE Dequeue
  BY <1>7 DEF Dequeue, stream, Playout!Next, Playout!Play, TurnOpen, NextIndex
<1>8. CASE Flush
  BY <1>8 DEF Flush, stream, Playout!Next, Playout!Interrupt, TurnOpen, NextIndex
<1>9. CASE ClearBargeIn
  BY <1>9 DEF ClearBargeIn, stream, Playout!Next, Playout!Clear, TurnOpen, NextIndex
<1>10. CASE UNCHANGED playbackVars
  BY <1>10 DEF playbackVars, stream, Playout!playoutVars, TurnOpen, NextIndex
<1> QED BY <1>1, <1>2, <1>3, <1>4, <1>5, <1>6, <1>7, <1>8, <1>9, <1>10 DEF PlaybackNext

(***************************************************************************)
(* For any capacity, any text and any timing of the media layer: pipeline  *)
(* and queue are ClausePlayout, so a turn is heard as numbered clauses     *)
(* without a gap, none behind its final one, none while the caller speaks, *)
(* and never more than the capacity waits (RI-3).                          *)
(***************************************************************************)
THEOREM PlaybackImplementsPlayout == PlaybackSpec => ImplementsPlayout
<1>1. PlaybackInit => Playout!Init
  BY DEF PlaybackInit, Playout!Init, TurnOpen, NextIndex
<1>2. PlaybackInv /\ [PlaybackNext]_playbackVars => [Playout!Next]_(Playout!playoutVars)
  BY PlaybackStepIsPlayout
<1> QED BY <1>1, <1>2, PlaybackInvariant, PTL DEF PlaybackSpec, ImplementsPlayout, Playout!Spec
-----------------------------------------------------------------------------
(***************************************************************************)
(* The jitter buffer.  Concealment fills every gap it can, so what is left *)
(* in the buffer is late.  The frames still to be played are fewer than    *)
(* the buffer's depth, so an eviction never takes one of them.             *)
(***************************************************************************)
\* A jitter buffer: RI-3, no more than BufferDepth entries.
BufferOK(b) ==
    /\ b = [s \in DOMAIN b |-> b[s]] /\ DOMAIN b \subseteq Nat
    /\ IsFiniteSet(DOMAIN b) /\ Cardinality(DOMAIN b) <= BufferDepth
    /\ \A s \in DOMAIN b : b[s] \in Nat

\* A set of numbers has a least one: what holds of a number as soon as it
\* holds of all smaller ones holds of all.
LEMMA LeastNumber ==
    ASSUME NEW B, B \subseteq Nat, B # {}
    PROVE  \E n \in B : \A m \in Nat : m < n => m \notin B
<1>1. PICK n \in B : \A m \in B : ~(<<m, n>> \in OpToRel(<, Nat))
  BY NatLessThanWellFounded, WFMin
<1>2. ASSUME NEW m \in Nat, m < n, m \in B  PROVE FALSE
  BY <1>1, <1>2 DEF OpToRel
<1> QED BY <1>2

LEMMA LowestEntry ==
    ASSUME NEW b, DOMAIN b \subseteq Nat, DOMAIN b # {}
    PROVE  Lowest(b) \in DOMAIN b /\ \A t \in DOMAIN b : Lowest(b) <= t
<1>1. PICK n \in DOMAIN b : \A m \in Nat : m < n => m \notin DOMAIN b
  BY LeastNumber
<1>2. \A t \in DOMAIN b : n <= t
  BY <1>1
<1> QED BY <1>2 DEF Lowest

LEMMA Depth == BufferDepth \in Nat /\ BufferDepth > 1 /\ MaxConceal \in Nat /\ BufferDepth > MaxConceal + 1
BY AudioAssumption DEF AudioAssumption

\* A full buffer gives up its lowest entry, and only that.
LEMMA Eviction ==
    ASSUME NEW b, BufferOK(b)
    PROVE  /\ Evicted(b) = [t \in DOMAIN Evicted(b) |-> b[t]]
           /\ DOMAIN Evicted(b) \subseteq DOMAIN b
           /\ IsFiniteSet(DOMAIN Evicted(b)) /\ Cardinality(DOMAIN Evicted(b)) < BufferDepth
           /\ \A t \in DOMAIN b : t \notin DOMAIN Evicted(b) =>
                Cardinality(DOMAIN b) = BufferDepth /\ \A u \in DOMAIN b : t <= u
<1> DEFINE D == DOMAIN b
<1>1. /\ D \subseteq Nat /\ IsFiniteSet(D) /\ Cardinality(D) \in Nat /\ Cardinality(D) <= BufferDepth
      /\ BufferDepth \in Nat /\ BufferDepth > 1
  BY Depth, FS_CardinalityType DEF BufferOK
<1>2. CASE Cardinality(D) >= BufferDepth
  <2>1. Cardinality(D) = BufferDepth /\ D # {}
    BY <1>1, <1>2, FS_EmptySet
  <2>2. Lowest(b) \in D /\ \A t \in D : Lowest(b) <= t
    BY <1>1, <2>1, LowestEntry
  <2>3. Evicted(b) = [t \in D \ {Lowest(b)} |-> b[t]]
    BY <1>2 DEF Evicted
  <2>4. IsFiniteSet(D \ {Lowest(b)}) /\ Cardinality(D \ {Lowest(b)}) = BufferDepth - 1
    BY <1>1, <2>1, <2>2, FS_RemoveElement
  <2>5. DOMAIN Evicted(b) = D \ {Lowest(b)}
    BY <2>3
  <2> QED BY <1>1, <2>1, <2>2, <2>3, <2>4, <2>5
<1>3. CASE ~(Cardinality(D) >= BufferDepth)
  <2>1. Evicted(b) = b
    BY <1>3 DEF Evicted
  <2> QED BY <1>1, <1>3, <2>1 DEF BufferOK
<1> QED BY <1>2, <1>3

LEMMA PushOK ==
    ASSUME NEW b, BufferOK(b), NEW s \in Nat, NEW frame \in Nat
    PROVE  /\ BufferOK(Push(b, s, frame))
           /\ DOMAIN Push(b, s, frame) = DOMAIN Evicted(b) \cup {s}
           /\ s \in DOMAIN Push(b, s, frame) /\ Push(b, s, frame)[s] = frame
           /\ \A t \in DOMAIN Push(b, s, frame) :
                t # s => t \in DOMAIN b /\ Push(b, s, frame)[t] = b[t]
<1> DEFINE e == Evicted(b)
           p == Push(b, s, frame)
<1>1. /\ e = [t \in DOMAIN e |-> b[t]] /\ DOMAIN e \subseteq DOMAIN b
      /\ IsFiniteSet(DOMAIN e) /\ Cardinality(DOMAIN e) < BufferDepth
      /\ Cardinality(DOMAIN e) \in Nat
  BY Eviction, FS_CardinalityType
<1> HIDE DEF e
<1>2. p = [t \in DOMAIN e \cup {s} |-> IF t = s THEN frame ELSE e[t]]
  BY DEF Push, Put, e
<1> HIDE DEF p
<1>3. DOMAIN p = DOMAIN e \cup {s}
  BY <1>2
<1>4. IsFiniteSet(DOMAIN p) /\ Cardinality(DOMAIN p) <= BufferDepth
  BY <1>1, <1>3, FS_AddElement, Depth
<1>5. p[s] = frame /\ \A t \in DOMAIN p : t # s => t \in DOMAIN b /\ p[t] = b[t]
  BY <1>1, <1>2
<1>6. \A t \in DOMAIN b : b[t] \in Nat /\ t \in Nat
  BY DEF BufferOK
<1>7. BufferOK(p)
  <2>1. p = [t \in DOMAIN p |-> p[t]]
    BY <1>2
  <2> QED BY <1>3, <1>4, <1>5, <1>6, <2>1, <1>1 DEF BufferOK
<1> QED BY <1>3, <1>5, <1>7 DEF p, e

\* Of the entries from `next` on, when fewer than a buffer's depth, a push evicts none.
LEMMA PushSpares ==
    ASSUME NEW b, BufferOK(b), NEW s \in Nat, NEW frame \in Nat,
           NEW next \in Nat, NEW l \in Nat, NEW n \in Nat, n < l + BufferDepth,
           \A t \in DOMAIN b : t < next \/ t \in (l + 1)..n,
           NEW t \in DOMAIN b, t >= next
    PROVE  t \in DOMAIN Push(b, s, frame)
<1>1. DOMAIN Push(b, s, frame) = DOMAIN Evicted(b) \cup {s}
  BY PushOK
<1>2. SUFFICES ASSUME t \notin DOMAIN Evicted(b) PROVE FALSE
  BY <1>1
<1>3. Cardinality(DOMAIN b) = BufferDepth /\ \A u \in DOMAIN b : t <= u
  BY <1>2, Eviction
<1>4. DOMAIN b \subseteq Nat
  BY DEF BufferOK
<1>5. DOMAIN b \subseteq (l + 1)..n
  BY <1>3, <1>4
<1>6. IsFiniteSet((l + 1)..n) /\ Cardinality((l + 1)..n) <= n - l /\ n - l >= 0
  <2>1. (l + 1)..n # {}
    BY <1>5
  <2>2. Cardinality((l + 1)..n) = n - (l + 1) + 1
    BY <2>1, FS_Interval
  <2> QED BY <2>1, <2>2, FS_Interval
<1>7. Cardinality(DOMAIN b) <= n - l
  <2>1. Cardinality(DOMAIN b) <= Cardinality((l + 1)..n)
    BY <1>5, <1>6, FS_Subset
  <2>2. Cardinality(DOMAIN b) \in Nat /\ Cardinality((l + 1)..n) \in Nat
    BY <1>5, <1>6, FS_Subset, FS_CardinalityType
  <2> QED BY <1>6, <2>1, <2>2
<1> QED BY <1>3, <1>7, Depth

\* The buffers that frames lo..hi, pushed in turn, go through.
Fills(b, lo, hi, shift, f) ==
    f = [s \in (lo - 1)..hi |->
            IF s = lo - 1 THEN b ELSE Push(f[s - 1], s, s + shift)]

\* Such a run of buffers exists: of the shortest that does not, the run
\* without its last push would.
LEMMA FillsExist ==
    ASSUME NEW b, NEW lo \in Nat \ {0}, NEW hi \in Nat, NEW shift \in Int
    PROVE  \E f : Fills(b, lo, hi, shift, f)
<1> DEFINE B == {n \in Nat : ~\E f : Fills(b, lo, n, shift, f)}
<1> SUFFICES ASSUME B # {} PROVE FALSE
  BY Zenon
<1>1. PICK n \in B : \A m \in Nat : m < n => m \notin B
  <2>1. B \subseteq Nat
    OBVIOUS
  <2> HIDE DEF B
  <2> QED BY <2>1, LeastNumber
<1>2. n \in Nat /\ ~\E f : Fills(b, lo, n, shift, f)
  OBVIOUS
<1>3. CASE n < lo
  <2> DEFINE g == [s \in (lo - 1)..n |-> b]
  <2>1. g = [s \in (lo - 1)..n |-> IF s = lo - 1 THEN b ELSE Push(g[s - 1], s, s + shift)]
    <3>1. \A s \in (lo - 1)..n : s = lo - 1
      BY <1>2, <1>3
    <3> QED BY <3>1
  <2>2. Fills(b, lo, n, shift, g)
    <3> HIDE DEF g
    <3> QED BY <2>1 DEF Fills
  <2> QED BY <1>2, <2>2, Zenon
<1>4. CASE n >= lo
  <2>1. PICK f : Fills(b, lo, n - 1, shift, f)
    <3>1. n - 1 \in Nat /\ n - 1 < n
      BY <1>2, <1>4
    <3>2. n - 1 \notin B
      BY <1>1, <3>1
    <3> QED BY <3>1, <3>2, Zenon
  <2> DEFINE g == [s \in (lo - 1)..n |-> IF s = n THEN Push(f[n - 1], n, n + shift) ELSE f[s]]
  <2>2. \A s \in (lo - 1)..(n - 1) :
            f[s] = IF s = lo - 1 THEN b ELSE Push(f[s - 1], s, s + shift)
    BY <2>1 DEF Fills
  <2>3. ASSUME NEW s \in (lo - 1)..n
        PROVE  g[s] = IF s = lo - 1 THEN b ELSE Push(g[s - 1], s, s + shift)
    <3>1. CASE s = n
      <4>1. n # lo - 1 /\ n - 1 \in (lo - 1)..n /\ n - 1 # n
        BY <1>2, <1>4
      <4>2. g[n - 1] = f[n - 1] /\ g[s] = Push(f[n - 1], n, n + shift)
        BY <3>1, <4>1
      <4> HIDE DEF g
      <4> QED BY <3>1, <4>1, <4>2
    <3>2. CASE s # n
      <4>1. s \in (lo - 1)..(n - 1)
        BY <1>2, <3>2
      <4>2. g[s] = f[s]
        BY <3>2
      <4>3. s # lo - 1 => s - 1 \in (lo - 1)..n /\ s - 1 # n
        BY <1>2, <4>1
      <4>4. s # lo - 1 => g[s - 1] = f[s - 1]
        BY <4>3
      <4> HIDE DEF g
      <4> QED BY <2>2, <4>1, <4>2, <4>4
    <3> QED BY <3>1, <3>2
  <2>4. g = [s \in (lo - 1)..n |-> IF s = lo - 1 THEN b ELSE Push(g[s - 1], s, s + shift)]
    <3>1. g = [s \in (lo - 1)..n |-> g[s]]
      OBVIOUS
    <3> HIDE DEF g
    <3> QED BY <2>3, <3>1
  <2>5. Fills(b, lo, n, shift, g)
    <3> HIDE DEF g
    <3> QED BY <2>4 DEF Fills
  <2> QED BY <1>2, <2>5, Zenon
<1> QED BY <1>2, <1>3, <1>4

LEMMA PushAllIsTheLast ==
    ASSUME NEW b, NEW lo \in Nat \ {0}, NEW hi \in Nat, NEW shift \in Int
    PROVE  \E f : Fills(b, lo, hi, shift, f) /\ PushAll(b, lo, hi, shift) = f[hi]
<1> DEFINE f == CHOOSE f : Fills(b, lo, hi, shift, f)
<1>1. Fills(b, lo, hi, shift, f)
  BY FillsExist, Zenon
<1>2. PushAll(b, lo, hi, shift) = f[hi]
  BY DEF PushAll, Fills
<1> QED BY <1>1, <1>2, Zenon

\* Concealment frames keep the buffer a buffer, put in no other number than
\* theirs, and evict no entry from `next` on.
LEMMA PushAllOK ==
    ASSUME NEW b, BufferOK(b), NEW l \in Nat, NEW c \in 0..MaxConceal, NEW shift \in Nat
    PROVE  LET p == PushAll(b, l + 1, l + c, shift)
           IN /\ BufferOK(p)
              /\ \A t \in DOMAIN p : \/ t \in DOMAIN b /\ p[t] = b[t]
                                     \/ t \in (l + 1)..(l + c) /\ p[t] = t + shift
              /\ \A next \in Nat : next > l /\ (\A t \in DOMAIN b : t < next) =>
                    \A t \in (l + 1)..(l + c) : t >= next => t \in DOMAIN p
<1> DEFINE Good(p, n) ==
      /\ BufferOK(p)
      /\ \A t \in DOMAIN p : \/ t \in DOMAIN b /\ p[t] = b[t]
                             \/ t \in (l + 1)..n /\ p[t] = t + shift
      /\ \A next \in Nat : next > l /\ (\A t \in DOMAIN b : t < next) =>
            \A t \in (l + 1)..n : t >= next => t \in DOMAIN p
<1>0. MaxConceal \in Nat /\ c \in Nat /\ BufferDepth \in Nat /\ c < BufferDepth - 1
  BY Depth
<1>1. PICK f : Fills(b, l + 1, l + c, shift, f) /\ PushAll(b, l + 1, l + c, shift) = f[l + c]
  <2>1. l + 1 \in Nat \ {0} /\ l + c \in Nat /\ shift \in Int
    BY <1>0
  <2> QED BY <2>1, PushAllIsTheLast
<1>2. \A s \in l..(l + c) : f[s] = IF s = l THEN b ELSE Push(f[s - 1], s, s + shift)
  <2>1. (l + 1) - 1 = l
    OBVIOUS
  <2> QED BY <1>1, <2>1 DEF Fills
<1> DEFINE B == {n \in l..(l + c) : ~Good(f[n], n)}
<1>3. B = {}
  <2> SUFFICES ASSUME B # {} PROVE FALSE
    OBVIOUS
  <2>1. PICK n \in B : \A m \in Nat : m < n => m \notin B
    <3>1. B \subseteq Nat
      BY <1>0
    <3> HIDE DEF B
    <3> QED BY <3>1, LeastNumber
  <2>2. n \in l..(l + c) /\ ~Good(f[n], n) /\ n \in Nat
    BY <1>0
  <2>3. CASE n = l
    <3>1. f[n] = b
      BY <1>2, <2>2, <2>3
    <3> QED BY <2>2, <2>3, <3>1
  <2>4. CASE n # l
    <3> DEFINE q == f[n - 1]
               p == f[n]
    <3>1. n - 1 \in l..(l + c) /\ n - 1 \in Nat /\ n - 1 < n /\ n >= l + 1
      BY <1>0, <2>2, <2>4
    <3>2. Good(q, n - 1)
      <4>1. n - 1 \notin B
        BY <2>1, <3>1
      <4> QED BY <3>1, <4>1
    <3>3. p = Push(q, n, n + shift) /\ n + shift \in Nat
      BY <1>2, <2>2, <2>4
    <3> HIDE DEF q, p
    <3>4. /\ BufferOK(p) /\ n \in DOMAIN p /\ p[n] = n + shift
          /\ \A t \in DOMAIN p : t # n => t \in DOMAIN q /\ p[t] = q[t]
      <4>1. BufferOK(q)
        BY <3>2
      <4>2. /\ BufferOK(Push(q, n, n + shift))
            /\ n \in DOMAIN Push(q, n, n + shift) /\ Push(q, n, n + shift)[n] = n + shift
            /\ \A t \in DOMAIN Push(q, n, n + shift) :
                 t # n => t \in DOMAIN q /\ Push(q, n, n + shift)[t] = q[t]
        <5> HIDE DEF B, Good
        <5>1. n \in Nat /\ n + shift \in Nat
          BY <2>2, <3>3
        <5> QED BY <4>1, <5>1, PushOK, Zenon
      <4> QED BY <3>3, <4>2
    <3>5. \A t \in (l + 1)..(n - 1) : t \in (l + 1)..n
      BY <2>2
    <3>6. n \in (l + 1)..n
      BY <2>2, <3>1
    <3>7. \A t \in DOMAIN p : \/ t \in DOMAIN b /\ p[t] = b[t]
                              \/ t \in (l + 1)..n /\ p[t] = t + shift
      BY <3>2, <3>4, <3>5, <3>6
    <3>8. ASSUME NEW next \in Nat, next > l, \A t \in DOMAIN b : t < next,
                 NEW t \in (l + 1)..n, t >= next
          PROVE  t \in DOMAIN p
      <4>1. CASE t = n
        BY <3>4, <4>1
      <4>2. CASE t # n
        <5>1. t \in (l + 1)..(n - 1)
          BY <2>2, <4>2
        <5>2. t \in DOMAIN q
          BY <3>2, <3>8, <5>1
        <5>3. \A u \in DOMAIN q : u < next \/ u \in (l + 1)..(n - 1)
          BY <3>2, <3>8
        <5>4. n - 1 < l + BufferDepth
          BY <1>0, <2>2
        <5> QED BY <2>2, <3>1, <3>2, <3>3, <3>8, <5>2, <5>3, <5>4, PushSpares
      <4> QED BY <4>1, <4>2
    <3>9. Good(p, n)
      BY <3>4, <3>7, <3>8
    <3> QED BY <2>2, <3>9 DEF p
  <2> QED BY <2>3, <2>4
<1>4. Good(f[l + c], l + c)
  <2>1. l + c \in l..(l + c)
    BY <1>0
  <2> QED BY <1>3, <2>1
<1> QED BY <1>1, <1>4

\* The pop loop ends at the first gap.
LEMMA ReadyAfterOK ==
    ASSUME NEW b, BufferOK(b), NEW from \in Nat
    PROVE  LET n == ReadyAfter(b, from)
           IN n \in Nat /\ n >= from /\ n \notin DOMAIN b /\ from..(n - 1) \subseteq DOMAIN b
<1> DEFINE D == DOMAIN b
           G == {n \in Nat : n >= from /\ n \notin D}
<1>1. D \subseteq Nat /\ IsFiniteSet(D) /\ Cardinality(D) \in Nat
  BY FS_CardinalityType DEF BufferOK
<1>2. \E n \in from..(from + Cardinality(D)) : n \notin D
  <2> SUFFICES ASSUME from..(from + Cardinality(D)) \subseteq D PROVE FALSE
    OBVIOUS
  <2>1. Cardinality(from..(from + Cardinality(D))) = Cardinality(D) + 1
    BY <1>1, FS_Interval
  <2>2. Cardinality(from..(from + Cardinality(D))) <= Cardinality(D)
    BY <1>1, FS_Subset
  <2> QED BY <1>1, <2>1, <2>2
<1>3. PICK n \in G : \A m \in Nat : m < n => m \notin G
  <2>1. G # {} /\ G \subseteq Nat
    BY <1>1, <1>2
  <2> HIDE DEF G
  <2> QED BY <2>1, LeastNumber
<1>4. n \in Nat /\ n >= from /\ n \notin D /\ from..(n - 1) \subseteq D
  BY <1>3
<1>5. n \in from..(from + Cardinality(D))
  <2>1. PICK m \in from..(from + Cardinality(D)) : m \notin D
    BY <1>2
  <2> QED BY <1>1, <1>3, <2>1
<1>6. \E m \in from..(from + Cardinality(D)) :
          (\A s \in from..(m - 1) : s \in D) /\ m \notin D
  BY <1>4, <1>5
<1> HIDE DEF D, G
<1>7. /\ ReadyAfter(b, from) \in from..(from + Cardinality(D))
      /\ \A s \in from..(ReadyAfter(b, from) - 1) : s \in D
      /\ ReadyAfter(b, from) \notin D
  BY <1>6 DEF ReadyAfter, D
<1> QED BY <1>1, <1>7 DEF D
-----------------------------------------------------------------------------
SessionStates == {"CONNECTING", "ACTIVE", "BARGE_IN", "CLOSED"}

AudioNumbers ==
    /\ session \in SessionStates
    /\ BufferOK(buffer)
    /\ nextSeq \in Nat /\ lastSeq \in Nat /\ played \in Nat /\ arrivals \in Nat
    /\ listed \in BOOLEAN /\ started \in BOOLEAN /\ jumped \in BOOLEAN /\ wrapped \in BOOLEAN

\* Without a jump or a wrap everything up to the newest number is played: the
\* entries left are late ones.
Orderly ==
    /\ \A s \in Buffered : buffer[s] = s
    /\ ~started => Buffered = {}
    /\ session = "CONNECTING" => ~started
    /\ session = "CLOSED" => Buffered = {}
    /\ started /\ session # "CLOSED" =>
         /\ lastSeq < nextSeq /\ played = nextSeq - 1
         /\ \A s \in Buffered : s < nextSeq

AudioInv == AudioNumbers /\ (jumped \/ wrapped \/ Orderly)

LEMMA AudioInitInv == AudioInit => AudioInv
<1> SUFFICES ASSUME AudioInit PROVE AudioInv
  OBVIOUS
<1>1. DOMAIN buffer = {} /\ buffer = [s \in {} |-> None]
  BY DEF AudioInit
<1>2. BufferOK(buffer)
  BY <1>1, FS_EmptySet, Depth DEF BufferOK
<1> QED BY <1>1, <1>2 DEF AudioInit, AudioInv, AudioNumbers, Orderly, Buffered, SessionStates, None

\* What push_frame has put in, before the pop loop.
LEMMA FilledOK ==
    ASSUME AudioNumbers, NEW frame \in 1..Frames
    PROVE  LET seq == frame % Modulus
               filled == PushAll(buffer, lastSeq + 1, lastSeq + Concealed(seq), frame - seq)
               full == Push(filled, seq, frame)
           IN /\ seq \in Nat /\ frame \in Nat /\ (frame < Modulus => seq = frame)
              /\ Concealed(seq) \in 0..MaxConceal
              /\ BufferOK(full) /\ seq \in DOMAIN full /\ full[seq] = frame
              /\ \A t \in DOMAIN full :
                    t # seq => \/ t \in Buffered /\ full[t] = buffer[t]
                               \/ /\ t \in (lastSeq + 1)..(lastSeq + Concealed(seq))
                                  /\ full[t] = t + (frame - seq)
              /\ \A next \in Nat : next > lastSeq /\ (\A t \in Buffered : t < next) =>
                    \A t \in (lastSeq + 1)..(lastSeq + Concealed(seq)) :
                       t >= next => t \in DOMAIN full
<1> DEFINE seq == frame % Modulus
           c == Concealed(seq)
           filled == PushAll(buffer, lastSeq + 1, lastSeq + c, frame - seq)
           full == Push(filled, seq, frame)
<1>1. /\ Modulus \in Nat \ {0} /\ Frames \in Nat /\ MaxConceal \in Nat
      /\ lastSeq \in Nat /\ BufferOK(buffer) /\ started \in BOOLEAN
  BY AudioAssumption DEF AudioAssumption, AudioNumbers
<1>2. frame \in Nat /\ frame > 0
  BY <1>1
<1>3. seq \in Nat /\ seq <= frame /\ (frame < Modulus => seq = frame)
  BY <1>1, <1>2
<1> HIDE DEF seq
<1>4. c \in 0..MaxConceal
  BY <1>1, <1>3 DEF Concealed, Least
<1>5. frame - seq \in Nat
  BY <1>2, <1>3
<1> HIDE DEF c
<1>6. /\ BufferOK(filled)
      /\ \A t \in DOMAIN filled : \/ t \in DOMAIN buffer /\ filled[t] = buffer[t]
                                  \/ /\ t \in (lastSeq + 1)..(lastSeq + c)
                                     /\ filled[t] = t + (frame - seq)
      /\ \A next \in Nat : next > lastSeq /\ (\A t \in DOMAIN buffer : t < next) =>
            \A t \in (lastSeq + 1)..(lastSeq + c) : t >= next => t \in DOMAIN filled
  BY <1>1, <1>4, <1>5, PushAllOK
<1> HIDE DEF filled
<1>7. /\ BufferOK(full) /\ seq \in DOMAIN full /\ full[seq] = frame
      /\ \A t \in DOMAIN full : t # seq => t \in DOMAIN filled /\ full[t] = filled[t]
  BY <1>2, <1>3, <1>6, PushOK, Zenon
<1>8. ASSUME NEW next \in Nat, next > lastSeq, \A t \in DOMAIN buffer : t < next,
             NEW t \in (lastSeq + 1)..(lastSeq + c), t >= next
      PROVE  t \in DOMAIN full
  <2>1. t \in DOMAIN filled
    BY <1>6, <1>8
  <2>2. \A u \in DOMAIN filled : u < next \/ u \in (lastSeq + 1)..(lastSeq + c)
    BY <1>6, <1>8
  <2>3. lastSeq + c \in Nat /\ lastSeq + c < lastSeq + BufferDepth
    BY <1>1, <1>4, Depth
  <2> QED BY <1>1, <1>2, <1>3, <1>6, <1>8, <2>1, <2>2, <2>3, PushSpares
<1> HIDE DEF full
<1>9. \A t \in DOMAIN full :
         t # seq => \/ t \in Buffered /\ full[t] = buffer[t]
                    \/ t \in (lastSeq + 1)..(lastSeq + c) /\ full[t] = t + (frame - seq)
  BY <1>6, <1>7 DEF Buffered
<1> QED BY <1>2, <1>3, <1>4, <1>7, <1>8, <1>9 DEF seq, c, filled, full, Buffered

\* The names of push_frame's locals.
SeqOf(frame) == frame % Modulus
FilledBy(frame) == PushAll(buffer, lastSeq + 1, lastSeq + Concealed(SeqOf(frame)), frame - SeqOf(frame))
FullBy(frame) == Push(FilledBy(frame), SeqOf(frame), frame)
FromOf(frame) == IF started THEN nextSeq ELSE Lowest(FullBy(frame))
UptoOf(frame) == ReadyAfter(FullBy(frame), FromOf(frame))

LEMMA PushFrameLocals ==
    ASSUME NEW frame, PushFrame(frame)
    PROVE  /\ arrivals' = arrivals + 1 /\ listed' = listed
           /\ jumped' = (jumped \/ (started /\ SeqOf(frame) > lastSeq + MaxConceal + 1))
           /\ wrapped' = (wrapped \/ frame >= Modulus)
           /\ \/ /\ session \in MediaActive \cup {"CONNECTING"}
                 /\ session' = IF session = "CONNECTING" THEN "ACTIVE" ELSE session
                 /\ buffer' = [s \in DOMAIN FullBy(frame) \ (FromOf(frame)..(UptoOf(frame) - 1))
                                 |-> FullBy(frame)[s]]
                 /\ nextSeq' = UptoOf(frame) /\ lastSeq' = SeqOf(frame) /\ started' = TRUE
                 /\ played' = IF UptoOf(frame) > FromOf(frame)
                              THEN FullBy(frame)[UptoOf(frame) - 1] ELSE played
              \/ /\ session \notin MediaActive \cup {"CONNECTING"}
                 /\ UNCHANGED <<session, buffer, nextSeq, lastSeq, started, played>>
BY DEF PushFrame, UptoOf, FromOf, FullBy, FilledBy, SeqOf

LEMMA PushFrameHistory ==
    ASSUME NEW frame, PushFrame(frame)
    PROVE  /\ arrivals' = arrivals + 1 /\ listed' = listed
           /\ jumped' \in BOOLEAN /\ wrapped' \in BOOLEAN
           /\ ~jumped' => ~jumped /\ ~(started /\ SeqOf(frame) > lastSeq + MaxConceal + 1)
           /\ ~wrapped' => ~wrapped /\ ~(frame >= Modulus)
BY PushFrameLocals, Zenon

LEMMA FullOK ==
    ASSUME AudioNumbers, NEW frame \in 1..Frames
    PROVE  /\ SeqOf(frame) \in Nat /\ frame \in Nat
           /\ frame < Modulus => SeqOf(frame) = frame
           /\ Concealed(SeqOf(frame)) \in 0..MaxConceal
           /\ BufferOK(FullBy(frame))
           /\ SeqOf(frame) \in DOMAIN FullBy(frame) /\ FullBy(frame)[SeqOf(frame)] = frame
           /\ FromOf(frame) \in Nat
           /\ UptoOf(frame) \in Nat /\ UptoOf(frame) >= FromOf(frame)
           /\ UptoOf(frame) \notin DOMAIN FullBy(frame)
           /\ FromOf(frame)..(UptoOf(frame) - 1) \subseteq DOMAIN FullBy(frame)
<1>1. /\ SeqOf(frame) \in Nat /\ frame \in Nat
      /\ frame < Modulus => SeqOf(frame) = frame
      /\ Concealed(SeqOf(frame)) \in 0..MaxConceal
      /\ BufferOK(FullBy(frame))
      /\ SeqOf(frame) \in DOMAIN FullBy(frame) /\ FullBy(frame)[SeqOf(frame)] = frame
  BY FilledOK DEF FullBy, FilledBy, SeqOf
<1>2. FromOf(frame) \in Nat
  <2>1. DOMAIN FullBy(frame) # {} /\ DOMAIN FullBy(frame) \subseteq Nat
    BY <1>1 DEF BufferOK
  <2> QED BY <2>1, LowestEntry DEF FromOf, AudioNumbers
<1> QED BY <1>1, <1>2, ReadyAfterOK DEF UptoOf

LEMMA PushFrameNumbers ==
    ASSUME AudioNumbers, NEW frame \in 1..Frames, PushFrame(frame)
    PROVE  AudioNumbers'
<1> DEFINE full == FullBy(frame)
           from == FromOf(frame)
           upto == UptoOf(frame)
<1>1. /\ arrivals' \in Nat /\ listed' \in BOOLEAN /\ jumped' \in BOOLEAN /\ wrapped' \in BOOLEAN
  BY PushFrameHistory DEF AudioNumbers
<1>2. CASE UNCHANGED <<session, buffer, nextSeq, lastSeq, started, played>>
  BY <1>1, <1>2 DEF AudioNumbers
<1>3. ASSUME session \in MediaActive \cup {"CONNECTING"},
             session' = IF session = "CONNECTING" THEN "ACTIVE" ELSE session,
             buffer' = [s \in DOMAIN full \ (from..(upto - 1)) |-> full[s]],
             nextSeq' = upto, lastSeq' = SeqOf(frame), started' = TRUE,
             played' = IF upto > from THEN full[upto - 1] ELSE played
      PROVE  AudioNumbers'
  <2>1. /\ BufferOK(full) /\ SeqOf(frame) \in Nat /\ from \in Nat /\ upto \in Nat
        /\ from..(upto - 1) \subseteq DOMAIN full
    BY FullOK
  <2> HIDE DEF full, from, upto
  <2>2. DOMAIN buffer' \subseteq DOMAIN full /\ \A s \in DOMAIN buffer' : buffer'[s] = full[s]
    BY <1>3
  <2>3. IsFiniteSet(DOMAIN buffer') /\ Cardinality(DOMAIN buffer') <= BufferDepth
    <3>1. IsFiniteSet(DOMAIN full) /\ Cardinality(DOMAIN full) <= BufferDepth
      BY <2>1 DEF BufferOK
    <3>2. /\ IsFiniteSet(DOMAIN buffer')
          /\ Cardinality(DOMAIN buffer') <= Cardinality(DOMAIN full)
      BY <2>2, <3>1, FS_Subset
    <3>3. Cardinality(DOMAIN full) \in Nat /\ Cardinality(DOMAIN buffer') \in Nat
      BY <3>1, <3>2, FS_CardinalityType
    <3> QED BY <3>1, <3>2, <3>3, Depth
  <2>4. BufferOK(buffer')
    <3>1. buffer' = [s \in DOMAIN buffer' |-> buffer'[s]]
      BY <1>3
    <3> QED BY <2>1, <2>2, <2>3, <3>1 DEF BufferOK
  <2>5. played' \in Nat
    <3>1. upto > from => upto - 1 \in DOMAIN full
      BY <2>1
    <3> QED BY <1>3, <2>1, <3>1 DEF BufferOK, AudioNumbers
  <2> QED BY <1>1, <1>3, <2>1, <2>4, <2>5 DEF AudioNumbers, SessionStates, MediaActive
<1> QED BY <1>2, <1>3, PushFrameLocals

\* The packets in order, or late, or after a gap that concealment fills.
LEMMA PushFrameOrderly ==
    ASSUME AudioNumbers, Orderly, NEW frame \in 1..Frames, PushFrame(frame), ~jumped', ~wrapped'
    PROVE  Orderly'
<1> DEFINE full == FullBy(frame)
           from == FromOf(frame)
           upto == UptoOf(frame)
           seq == SeqOf(frame)
           c == Concealed(seq)
<1>1. CASE UNCHANGED <<session, buffer, nextSeq, lastSeq, started, played>>
  BY <1>1 DEF Orderly, Buffered
<1>2. ASSUME session \in MediaActive \cup {"CONNECTING"},
             session' = IF session = "CONNECTING" THEN "ACTIVE" ELSE session,
             buffer' = [s \in DOMAIN full \ (from..(upto - 1)) |-> full[s]],
             nextSeq' = upto, lastSeq' = seq, started' = TRUE,
             played' = IF upto > from THEN full[upto - 1] ELSE played
      PROVE  Orderly'
  <2>1. /\ frame \in Nat /\ seq = frame
        /\ started => seq <= lastSeq + MaxConceal + 1
    <3>1. ~(frame >= Modulus) /\ ~(started /\ SeqOf(frame) > lastSeq + MaxConceal + 1)
      BY PushFrameHistory
    <3>2. frame \in Nat /\ SeqOf(frame) \in Nat /\ (frame < Modulus => SeqOf(frame) = frame)
      BY FullOK
    <3>3. Modulus \in Nat /\ MaxConceal \in Nat /\ lastSeq \in Nat
      BY AudioAssumption DEF AudioAssumption, AudioNumbers
    <3> QED BY <3>1, <3>2, <3>3
  <2>2. /\ BufferOK(full) /\ seq \in DOMAIN full /\ full[seq] = frame
        /\ from \in Nat /\ upto \in Nat /\ upto >= from /\ upto \notin DOMAIN full
        /\ from..(upto - 1) \subseteq DOMAIN full
    BY FullOK
  <2>3. \A t \in DOMAIN full :
           t # seq => \/ t \in Buffered /\ full[t] = buffer[t]
                      \/ t \in (lastSeq + 1)..(lastSeq + c) /\ full[t] = t + (frame - seq)
    BY FilledOK DEF FullBy, FilledBy, SeqOf
  <2>4. \A next \in Nat : next > lastSeq /\ (\A t \in Buffered : t < next) =>
            \A t \in (lastSeq + 1)..(lastSeq + c) : t >= next => t \in DOMAIN full
    BY FilledOK DEF FullBy, FilledBy, SeqOf
  <2>5. /\ session' # "CLOSED" /\ session' # "CONNECTING"
        /\ lastSeq \in Nat /\ nextSeq \in Nat /\ MaxConceal \in Nat
    BY <1>2, Depth DEF MediaActive, AudioNumbers
  <2>6. c = IF started /\ seq > lastSeq + 1 THEN seq - lastSeq - 1 ELSE 0
    BY <2>1, <2>5 DEF Concealed, Least
  <2>7. from = IF started THEN nextSeq ELSE Lowest(full)
    BY DEF FromOf
  <2> HIDE DEF full, from, upto, c, seq
  <2>8. \A t \in DOMAIN full : full[t] = t /\ t \in Nat
    <3>1. \A t \in Buffered : buffer[t] = t
      BY DEF Orderly
    <3>2. DOMAIN full \subseteq Nat
      BY <2>2 DEF BufferOK
    <3> QED BY <2>1, <2>2, <2>3, <3>1, <3>2
  <2>9. \/ upto > seq /\ upto > from /\ (\A t \in DOMAIN full : t < upto)
        \/ upto = from /\ started /\ seq < from /\ (\A t \in DOMAIN full : t < from)
    <3>1. CASE ~started
      <4>1. DOMAIN full = {seq}
        <5>1. Buffered = {} /\ c = 0
          BY <2>6, <3>1 DEF Orderly
        <5>2. \A t \in DOMAIN full : t = seq
          BY <2>3, <2>5, <5>1
        <5> QED BY <2>2, <5>2
      <4>2. from = seq
        BY <2>7, <3>1, <4>1, LowestEntry, <2>1
      <4>3. upto # from
        BY <2>2, <4>2
      <4> QED BY <2>1, <2>2, <4>1, <4>2, <4>3
    <3>2. CASE started
      <4>1. /\ session # "CLOSED" /\ lastSeq < nextSeq /\ from = nextSeq
            /\ \A t \in Buffered : t < nextSeq
        BY <1>2, <2>7, <3>2 DEF Orderly, MediaActive
      <4>2. \A t \in DOMAIN full : t < nextSeq \/ t <= seq
        BY <2>1, <2>3, <2>5, <2>6, <4>1
      <4>3. CASE seq < nextSeq
        <5>1. \A t \in DOMAIN full : t < nextSeq
          BY <2>1, <2>5, <2>8, <4>2, <4>3
        <5>2. upto = from
          <6>1. ~(upto > from)
            <7>1. SUFFICES ASSUME upto > from PROVE FALSE
              OBVIOUS
            <7>2. from \in DOMAIN full
              BY <2>2, <7>1
            <7> QED BY <2>5, <4>1, <5>1, <7>2
          <6> QED BY <2>2, <6>1
        <5> QED BY <3>2, <4>1, <4>3, <5>1, <5>2
      <4>4. CASE seq >= nextSeq
        <5>1. ASSUME NEW t \in nextSeq..seq PROVE t \in DOMAIN full
          <6>1. CASE t = seq
            BY <2>2, <6>1
          <6>2. CASE t # seq
            <7>1. t \in (lastSeq + 1)..(lastSeq + c)
              BY <2>1, <2>5, <2>6, <3>2, <4>1, <5>1, <6>2
            <7> QED BY <2>4, <2>5, <4>1, <5>1, <7>1
          <6> QED BY <6>1, <6>2
        <5>2. upto > seq
          BY <2>1, <2>2, <2>5, <4>1, <5>1
        <5>3. \A t \in DOMAIN full : t < upto
          BY <2>1, <2>2, <2>5, <2>8, <4>2, <4>4, <5>2
        <5> QED BY <2>1, <2>2, <2>5, <4>1, <4>4, <5>2, <5>3
      <4> QED BY <2>1, <2>5, <4>3, <4>4
    <3> QED BY <3>1, <3>2
  <2>10. /\ Buffered' \subseteq DOMAIN full
         /\ \A s \in Buffered' : buffer'[s] = s
    BY <1>2, <2>8 DEF Buffered
  <2>11. \A s \in Buffered' : s < upto
    BY <2>9, <2>10
  <2>12. seq < upto
    BY <2>9
  <2>13. played' = upto - 1
    <3>1. CASE upto > from
      <4>1. upto - 1 \in DOMAIN full
        BY <2>2, <3>1
      <4> QED BY <1>2, <2>8, <3>1, <4>1
    <3>2. CASE ~(upto > from)
      <4>1. upto = from /\ started
        BY <2>9, <3>2
      <4>2. played = nextSeq - 1
        BY <1>2, <4>1 DEF Orderly, MediaActive
      <4> QED BY <1>2, <2>7, <3>2, <4>1, <4>2
    <3> QED BY <3>1, <3>2
  <2> QED BY <1>2, <2>5, <2>10, <2>11, <2>12, <2>13 DEF Orderly
<1> QED BY <1>1, <1>2, PushFrameLocals

LEMMA AudioStepInv == AudioInv /\ [AudioNext]_audioVars => AudioInv'
<1> SUFFICES ASSUME AudioInv, [AudioNext]_audioVars PROVE AudioInv'
  OBVIOUS
<1>0. AudioNumbers
  BY DEF AudioInv
<1>1. ASSUME NEW frame \in 1..Frames, PushFrame(frame) PROVE AudioInv'
  <2>1. AudioNumbers'
    BY <1>0, <1>1, PushFrameNumbers
  <2>2. ~jumped' /\ ~wrapped' => ~jumped /\ ~wrapped
    BY <1>0, <1>1, PushFrameLocals DEF AudioNumbers
  <2> QED BY <1>0, <1>1, <2>1, <2>2, PushFrameOrderly DEF AudioInv
<1>2. ASSUME session \in MediaActive, session' \in MediaActive,
             UNCHANGED <<listed, buffer, nextSeq, lastSeq, started, played, arrivals, jumped, wrapped>>
      PROVE  AudioInv'
  BY <1>2 DEF AudioInv, AudioNumbers, Orderly, Buffered, MediaActive, SessionStates
<1>3. CASE ReleaseSession
  <2> DEFINE empty == [s \in {} |-> None]
  <2>1. BufferOK(empty) /\ DOMAIN empty = {}
    BY FS_EmptySet, Depth DEF BufferOK
  <2> HIDE DEF empty
  <2>2. CASE session \in MediaActive
    <3>1. /\ session' = "CLOSED" /\ buffer' = empty /\ nextSeq' = 0 /\ listed' = FALSE
          /\ UNCHANGED <<lastSeq, started, played, arrivals, jumped, wrapped>>
      BY <1>3, <2>2 DEF ReleaseSession, Released, empty
    <3> QED BY <2>1, <3>1 DEF AudioInv, AudioNumbers, Orderly, Buffered, SessionStates
  <2>3. CASE session \notin MediaActive
    <3>1. /\ listed' = FALSE
          /\ UNCHANGED <<session, buffer, nextSeq, lastSeq, started, played, arrivals, jumped, wrapped>>
      BY <1>3, <2>3 DEF ReleaseSession, Released
    <3> QED BY <3>1 DEF AudioInv, AudioNumbers, Orderly, Buffered
  <2> QED BY <2>2, <2>3
<1>4. CASE UNCHANGED audioVars
  BY <1>4 DEF audioVars, AudioInv, AudioNumbers, Orderly, Buffered
<1> QED BY <1>1, <1>2, <1>3, <1>4 DEF AudioNext, BargeIn, BargeInEnd, MediaActive

(***************************************************************************)
(* The invariant of the jitter buffer holds of every behaviour: the types, *)
(* and the order of what is kept as long as nothing jumps or wraps.        *)
(***************************************************************************)
THEOREM AudioInvariant == AudioSpec => []AudioInv
<1> QED BY AudioInitInv, AudioStepInv, PTL DEF AudioSpec

(***************************************************************************)
(* RI-3 for the jitter buffer (jitter_buffer.py push): whatever order,     *)
(* loss, repetition or jump the packets arrive with, and however many      *)
(* concealment frames are put in between, it never holds more frames than  *)
(* its depth.                                                              *)
(***************************************************************************)
JitterBufferBounded == Cardinality(Buffered) <= BufferDepth

\* The bound holds of every behaviour of the session.
THEOREM BufferNeverOverflows == AudioSpec => []JitterBufferBounded
<1>1. AudioInv => JitterBufferBounded
  BY DEF AudioInv, AudioNumbers, BufferOK, JitterBufferBounded, Buffered
<1> QED BY <1>1, AudioInvariant, PTL

(***************************************************************************)
(* Between two packets the buffer keeps no frame back unless the numbers   *)
(* jumped past what concealment fills, or wrapped: for every depth, every  *)
(* limit of concealment and every width of the sequence numbers.           *)
(***************************************************************************)
THEOREM OnlyAJumpSilences == AudioSpec => []SilenceNeedsAJump
<1>1. AudioInv => SilenceNeedsAJump
  <2> SUFFICES ASSUME AudioInv, ~jumped, ~wrapped PROVE KeptBack = {}
    BY DEF SilenceNeedsAJump, AudioInv, AudioNumbers
  <2>1. AudioNumbers /\ Orderly
    BY DEF AudioInv
  <2>2. ASSUME NEW s \in Buffered PROVE ~(buffer[s] > played)
    <3>1. /\ s \in Nat /\ buffer[s] = s /\ started /\ session # "CLOSED" /\ s < nextSeq
          /\ played = nextSeq - 1 /\ nextSeq \in Nat
      BY <2>1, <2>2 DEF Orderly, AudioNumbers, BufferOK, Buffered
    <3> QED BY <3>1
  <2> QED BY <2>2 DEF KeptBack
<1> QED BY <1>1, AudioInvariant, PTL
=============================================================================
