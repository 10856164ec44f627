-------------------------- MODULE PlaybackPipeline --------------------------
(***************************************************************************)
(* The clause pipeline of one call: TrueStreamingPipeline.run reading the  *)
(* LLM's token stream (services/tts/streaming_pipeline.py) and the         *)
(* PlaybackScheduler it fills (services/playback/scheduler.py).  The       *)
(* pipeline yields to the event loop at every token and every audio chunk; *)
(* the media layer may dequeue, flush or clear the barge-in signal there.  *)
(* Text is abstracted: a chunk completes some clauses and may leave some   *)
(* text in the buffer; a clause is rejected by validation or governance,   *)
(* or is synthesised into some audio clauses.                              *)
(***************************************************************************)
EXTENDS Integers, Sequences

CONSTANTS QueueDepth,    \* capacity of the queue (RI-3)
          Turns, MaxChunks, MaxClauses, MaxPieces   \* bounds on the input

PlaybackAssumption ==
    /\ QueueDepth \in Nat /\ Turns \in Nat /\ MaxChunks \in Nat
    /\ MaxClauses \in Nat /\ MaxPieces \in Nat
ASSUME PlaybackAssumption

VARIABLES queue,     \* PlaybackScheduler._queue
          bargeIn,   \* _barge_in_event
          pc, turn, chunks,
          clauses,   \* complete clauses of the chunk not yet synthesised
          rest,      \* the buffer holds text of an incomplete clause
          last,      \* is_final of the clause in synthesis
          base, made, pieces,  \* clause_index, len(synthesised), audio to come
          interrupted,         \* turns in which flush() found the pipeline running
          cleared              \* of those, the ones still running when it was cleared
stream == <<pc, turn, chunks, clauses, rest, last, base, made, pieces>>
playbackVars == <<queue, bargeIn, stream, interrupted, cleared>>

PlaybackInit ==
    /\ queue = <<>> /\ bargeIn = FALSE
    /\ pc = "idle" /\ turn = 0 /\ chunks = 0 /\ clauses = 0 /\ rest = FALSE
    /\ last = FALSE /\ base = 0 /\ made = 0 /\ pieces = 0
    /\ interrupted = {} /\ cleared = {}
-----------------------------------------------------------------------------
\* TrueStreamingPipeline.run starts on the response of the next turn.
StartTurn ==
    /\ pc = "idle" /\ turn < Turns
    /\ pc' = "stream" /\ turn' = turn + 1 /\ chunks' = MaxChunks
    /\ clauses' = 0 /\ rest' = FALSE /\ base' = 0
    /\ UNCHANGED <<queue, bargeIn, last, made, pieces, interrupted, cleared>>

\* _synthesise_and_enqueue up to the audio stream: a clause that is rejected
\* (or has fewer than two words) yields no audio.
Synthesise(final) ==
    /\ pc' = "audio" /\ last' = final /\ made' = 0
    /\ pieces' \in 0..MaxPieces

\* What is left in the buffer is spoken as the final clause.
SpeakRest(text) == IF text THEN Synthesise(TRUE)
                   ELSE pc' = "idle" /\ UNCHANGED <<last, made, pieces>>

\* A token arrives: after a barge-in it is dropped and the loop is left.
NextChunk ==
    /\ pc = "stream" /\ clauses = 0 /\ chunks > 0 /\ ~bargeIn
    /\ chunks' = chunks - 1
    /\ \/ /\ \E text \in {rest, TRUE} : SpeakRest(text)        \* finish_reason
          /\ rest' = FALSE
          /\ UNCHANGED clauses
       \/ /\ clauses' \in 0..MaxClauses
          /\ rest' \in (IF clauses' = 0 THEN {rest, TRUE} ELSE BOOLEAN)
          /\ UNCHANGED <<pc, last, made, pieces>>
    /\ UNCHANGED <<queue, bargeIn, turn, base, interrupted, cleared>>

\* The loop is left by a barge-in or at the end of the stream; either way the
\* rest of the buffer is still synthesised (lines 123-132).
LeaveLoop ==
    /\ pc = "stream" /\ clauses = 0
    /\ SpeakRest(rest) /\ rest' = FALSE
    /\ UNCHANGED <<queue, bargeIn, turn, chunks, clauses, base, interrupted, cleared>>

NextClause ==
    /\ pc = "stream" /\ clauses > 0
    /\ clauses' = clauses - 1
    /\ Synthesise(FALSE)
    /\ UNCHANGED <<queue, bargeIn, turn, chunks, rest, base, interrupted, cleared>>

\* One audio clause: dropped with the rest after a barge-in, else enqueued;
\* a full queue raises out of the turn.
HeardNothing == FALSE
Heard == bargeIn
Enqueue ==
    /\ pc = "audio" /\ pieces > 0
    /\ IF Heard
       THEN pieces' = 0 /\ UNCHANGED <<queue, made, pc>>
       ELSE IF Len(queue) >= QueueDepth
       THEN pc' = "idle" /\ UNCHANGED <<queue, made, pieces>>
       ELSE /\ queue' = Append(queue, [turn |-> turn, index |-> base + made,
                                       final |-> last /\ pieces = 1])
            /\ made' = made + 1 /\ pieces' = pieces - 1
            /\ UNCHANGED pc
    /\ UNCHANGED <<bargeIn, turn, chunks, clauses, rest, last, base, interrupted, cleared>>

\* clause_index += len(clauses); the final clause ends the run.
NextBasePerClause == base + 1
NextBase == base + made
AudioEnds ==
    /\ pc = "audio" /\ pieces = 0
    /\ base' = NextBase
    /\ pc' = IF last THEN "idle" ELSE "stream"
    /\ UNCHANGED <<queue, bargeIn, turn, chunks, clauses, rest, last, made, pieces,
                   interrupted, cleared>>
-----------------------------------------------------------------------------
\* PlaybackScheduler, driven by the media layer (outside src).
Dequeue == /\ queue # <<>> /\ queue' = Tail(queue)
           /\ UNCHANGED <<bargeIn, stream, interrupted, cleared>>

Flush == /\ bargeIn' = TRUE /\ queue' = <<>>
         /\ interrupted' = IF pc = "idle" THEN interrupted ELSE interrupted \cup {turn}
         /\ cleared' = cleared \ {turn}
         /\ UNCHANGED stream

ClearBargeIn == /\ bargeIn /\ bargeIn' = FALSE
                /\ cleared' = IF pc = "idle" THEN cleared ELSE cleared \cup {turn}
                /\ UNCHANGED <<queue, stream, interrupted>>

PlaybackNext == \/ StartTurn \/ NextChunk \/ LeaveLoop \/ NextClause
                \/ Enqueue \/ AudioEnds
                \/ Dequeue \/ Flush \/ ClearBargeIn

PlaybackSpec == PlaybackInit /\ [][PlaybackNext]_playbackVars
-----------------------------------------------------------------------------
(***************************************************************************)
(* Audio of an interrupted turn is queued again only when the signal was   *)
(* cleared while the pipeline was still at work on that turn: the event is *)
(* the pipeline's only way to learn of the interruption.                   *)
(***************************************************************************)
StaleAudioNeedsEarlyClear ==
    \A i \in DOMAIN queue : queue[i].turn \in interrupted => queue[i].turn \in cleared

(***************************************************************************)
(* The queue holds the turns in order, each as an unbroken run of clause   *)
(* indices, and a final clause is the last of its turn, whatever was       *)
(* rejected, skipped, interrupted or left over.                            *)
(***************************************************************************)
Follows(a, b) == \/ a.turn < b.turn
                 \/ a.turn = b.turn /\ b.index = a.index + 1 /\ ~a.final
ClausesInOrder == \A i \in 1..(Len(queue) - 1) : Follows(queue[i], queue[i + 1])

\* A turn is over when its run has ended or its final clause has no audio left.
TurnOpen == pc = "stream" \/ (pc = "audio" /\ ~(last /\ pieces = 0))
NextIndex == IF ~TurnOpen THEN 0 ELSE IF pc = "audio" THEN base + made ELSE base

(***************************************************************************)
(* Step by step, over every await at which the media layer may come in,    *)
(* pipeline and queue do what ClausePlayout promises: clause_index counts  *)
(* what was really queued, nothing is queued behind a final clause, at a   *)
(* full queue or while the signal is set.                                  *)
(***************************************************************************)
Playout == INSTANCE ClausePlayout WITH
    Depth <- QueueDepth, waiting <- queue, signal <- bargeIn, speaking <- turn,
    open <- TurnOpen, index <- NextIndex

ImplementsPlayout == Playout!Spec
=============================================================================
