--------------------------- MODULE VADEndpointing ---------------------------
(***************************************************************************)
(* Barge-in and end-of-utterance detection of one call                     *)
(* (services/vad_endpointing): the EndpointDetector, the BargeinDetector   *)
(* and the arbitration VADEndpointingService makes between an interruption *)
(* and a backchannel ("hmm", "haan").  One step is one VAD window of 32 ms *)
(* (512 samples at 16 kHz); runs of windows are counted in windows, the    *)
(* thresholds stay in milliseconds.                                        *)
(***************************************************************************)
EXTENDS Integers

CONSTANTS StartMs,      \* speech before an onset is declared
          EndMs,        \* initial silence before an utterance is over
          MaxEndMs,     \* upper bound of the adaptive end threshold
          RequiredMs,   \* sustained loud speech before a barge-in candidate
          MaxFillerMs,  \* utterances shorter than this are backchannels
          MaxWindows    \* bound on the length of the call

FrameMs == 32
LookbackMs == 200

\* The defaults of the three constructors satisfy these bounds.
ThresholdAssumption ==
    /\ StartMs \in Nat \ {0} /\ EndMs \in Nat /\ MaxEndMs \in Nat
    /\ RequiredMs \in Nat /\ MaxFillerMs \in Nat /\ MaxWindows \in Nat
    /\ 600 <= EndMs /\ EndMs <= MaxEndMs
    /\ LookbackMs <= RequiredMs
    /\ MaxFillerMs <= 800
ASSUME ThresholdAssumption

VARIABLES now,                                             \* windows processed
          speechState, speechRun, silenceRun, falseEnds, endMs,  \* EndpointDetector
          playback, sustained, fired,                      \* BargeinDetector
          pending, startMs, emitted,                       \* arbitration
          reported                 \* what the last window told the bus

endpoint == <<speechState, speechRun, silenceRun, falseEnds, endMs>>
vadVars == <<now, endpoint, playback, sustained, fired, pending, startMs, emitted, reported>>

\* The model's probability: below 0.5, speech up to 0.65, above 0.65.
Probability == {"silent", "soft", "loud"}
Speech(p) == p # "silent"

VadInit ==
    /\ now = 0
    /\ speechState = "IN_SILENCE" /\ speechRun = 0 /\ silenceRun = 0
    /\ falseEnds = 0 /\ endMs = EndMs
    /\ playback = FALSE /\ sustained = 0 /\ fired = FALSE
    /\ pending = FALSE /\ startMs = 0 /\ emitted = FALSE
    /\ reported = "nothing"
-----------------------------------------------------------------------------
\* EndpointDetector.process and _advance_state.
SpeechRun(p) == IF Speech(p) THEN speechRun + 1 ELSE 0
SilenceRun(p) == IF Speech(p) THEN 0 ELSE silenceRun + 1

Onset(p) == speechState = "IN_SILENCE" /\ FrameMs * SpeechRun(p) >= StartMs
Ends(p) == speechState = "IN_SPEECH" /\ FrameMs * SilenceRun(p) >= endMs
Resumes(p) == speechState = "POST_SPEECH" /\ Speech(p)
Settles(p) == /\ speechState = "POST_SPEECH" /\ ~Speech(p)
              /\ FrameMs * SilenceRun(p) >= 2 * endMs

\* Every third false endpoint lengthens the pause that ends an utterance.
Adapted(p) == IF Resumes(p) /\ falseEnds = 2
              THEN IF endMs + 200 <= MaxEndMs THEN endMs + 200 ELSE MaxEndMs
              ELSE endMs

Endpoint(p) ==
    /\ speechRun' = SpeechRun(p)
    /\ silenceRun' = SilenceRun(p)
    /\ speechState' = CASE Onset(p) \/ Resumes(p) -> "IN_SPEECH"
                        [] Ends(p) -> "POST_SPEECH"
                        [] Settles(p) -> "IN_SILENCE"
                        [] OTHER -> speechState
    /\ falseEnds' = IF Resumes(p) THEN (falseEnds + 1) % 3 ELSE falseEnds
    /\ endMs' = Adapted(p)
-----------------------------------------------------------------------------
\* BargeinDetector.process: loud windows in a row while the agent speaks.
Sustained(p) == IF playback /\ p = "loud" THEN sustained + 1 ELSE 0
Fires(p) == /\ playback /\ p = "loud" /\ ~fired
            /\ FrameMs * Sustained(p) >= RequiredMs

\* VADEndpointingService._process_window: the candidate, and how long the
\* utterance has lasted.  The silence that ended it is part of its duration.
Candidate(p) == pending \/ Fires(p)
LookedBack == IF FrameMs * now >= LookbackMs THEN FrameMs * now - LookbackMs ELSE 0
StartOf(p) == IF Fires(p) /\ ~pending THEN LookedBack ELSE startMs
DurationWithoutPause(p) == FrameMs * (now - SilenceRun(p)) - StartOf(p)
Duration(p) == FrameMs * now - StartOf(p)

Classifies(p) == Ends(p) /\ Candidate(p) /\ ~emitted
IsFiller(p) == Duration(p) < MaxFillerMs
Interrupts(p) == /\ Candidate(p) /\ ~emitted /\ Speech(p)
                 /\ Duration(p) >= MaxFillerMs

Window(p) ==
    /\ now < MaxWindows
    /\ now' = now + 1
    /\ Endpoint(p)
    /\ sustained' = Sustained(p)
    /\ fired' = (playback /\ p = "loud" /\ (fired \/ Fires(p)))
    /\ IF Classifies(p)
       THEN pending' = FALSE /\ startMs' = 0 /\ emitted' = FALSE
       ELSE /\ pending' = Candidate(p)
            /\ startMs' = StartOf(p)
            /\ emitted' = (emitted \/ Interrupts(p))
    /\ reported' = CASE Classifies(p) /\ IsFiller(p) -> "backchannel"
                     [] Classifies(p) \/ Interrupts(p) -> "bargein"
                     [] OTHER -> "nothing"
    /\ UNCHANGED playback

\* set_playback_active: the end of playback forgets the candidate.
PlaybackStarts ==
    /\ now < MaxWindows
    /\ ~playback /\ playback' = TRUE
    /\ reported' = "nothing"
    /\ UNCHANGED <<now, endpoint, sustained, fired, pending, startMs, emitted>>

PlaybackStops ==
    /\ now < MaxWindows
    /\ playback /\ playback' = FALSE
    /\ sustained' = 0 /\ fired' = FALSE
    /\ pending' = FALSE /\ startMs' = 0 /\ emitted' = FALSE
    /\ reported' = "nothing"
    /\ UNCHANGED <<now, endpoint>>

VadNext == (\E p \in Probability : Window(p)) \/ PlaybackStarts \/ PlaybackStops

VadSpec == VadInit /\ [][VadNext]_vadVars
-----------------------------------------------------------------------------
(***************************************************************************)
(* The 600 ms pause that ends an utterance and the 200 ms look-back both   *)
(* count in its duration, so the 800 ms limit of a backchannel is reached  *)
(* by every utterance that was loud enough to be a candidate: the service  *)
(* never reports a backchannel, and every "haan" flushes the playback.     *)
(***************************************************************************)
NoFillerIsRecognised == reported # "backchannel"
=============================================================================
