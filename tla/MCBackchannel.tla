---------------------------- MODULE MCBackchannel ----------------------------
(***************************************************************************)
(* VADEndpointing with the length of the customer's voice: the windows     *)
(* from the first to the last with speech since the previous utterance.    *)
(***************************************************************************)
EXTENDS VADEndpointing

VARIABLES voiced, told   \* windows of the utterance, and of the one last reported

MCInit == VadInit /\ voiced = 0 /\ told = 0

Utterance(p) == IF Speech(p) THEN voiced + 1 + (IF voiced = 0 THEN 0 ELSE silenceRun) ELSE voiced

MCNext ==
    \/ \E p \in Probability :
          /\ Window(p)
          /\ told' = Utterance(p)
          /\ voiced' = IF Ends(p) \/ Settles(p) THEN 0 ELSE Utterance(p)
    \/ (PlaybackStarts \/ PlaybackStops) /\ UNCHANGED <<voiced, told>>

MCSpec == MCInit /\ [][MCNext]_<<vadVars, voiced, told>>
-----------------------------------------------------------------------------
(***************************************************************************)
(* service.py:65 and the test at test_vad_integration.py:252: an           *)
(* utterance shorter than 800 ms is a backchannel and no barge-in.         *)
(***************************************************************************)
FillersDoNotInterrupt ==
    reported = "bargein" => FrameMs * told >= MaxFillerMs
=============================================================================
