----------------------------- MODULE MCCallAudio -----------------------------
(***************************************************************************)
(* What runs on the event loop of a call: the four parts of the audio path *)
(* and the worker pool.  They share no state, so a behaviour is about one  *)
(* of them and leaves the others where they start.                         *)
(***************************************************************************)
EXTENDS AudioSession, MediaGateway, PlaybackPipeline, VADEndpointing, WorkerPool, TLC

CONSTANTS a1, a2, a3, a4, r1, r2, c1, c2, c3, t1, t2, t3, t4

VARIABLE about   \* the part this behaviour exercises

MCCallOf == (a1 :> c1 @@ a2 :> c1 @@ a3 :> c2 @@ a4 :> c3 @@ r1 :> c1 @@ r2 :> c1)
MCTenantOf == [c \in Calls |-> "t"]

\* Quality scoring (LOW) beside more important work.
MCImportance == (t1 :> 1 @@ t2 :> 1 @@ t3 :> 1 @@ t4 :> 3)

MCInit == /\ AudioInit /\ GatewayInit /\ PlaybackInit /\ VadInit /\ PoolInit
          /\ about \in {"receiving", "admission", "playback", "detection", "workers"}

MCNext ==
    \/ about = "receiving" /\ AudioNext
       /\ UNCHANGED <<gatewayVars, playbackVars, vadVars, poolVars, about>>
    \/ about = "admission" /\ GatewayNext
       /\ UNCHANGED <<audioVars, playbackVars, vadVars, poolVars, about>>
    \/ about = "playback" /\ PlaybackNext
       /\ UNCHANGED <<audioVars, gatewayVars, vadVars, poolVars, about>>
    \/ about = "detection" /\ VadNext
       /\ UNCHANGED <<audioVars, gatewayVars, playbackVars, poolVars, about>>
    \/ about = "workers" /\ PoolNext
       /\ UNCHANGED <<audioVars, gatewayVars, playbackVars, vadVars, about>>

\* Where the pool is not the subject none of its steps is enabled, so that its
\* fairness asks nothing of the other parts.
MCSpec == /\ MCInit
          /\ [][MCNext]_<<audioVars, gatewayVars, playbackVars, vadVars, poolVars, about>>
          /\ PoolFairness
=============================================================================
