---------------------------- MODULE ClausePlayout ----------------------------
(***************************************************************************)
(* What the pipeline and the playback queue of a call promise the caller's *)
(* ear: turns one after the other, the clauses of a turn numbered without  *)
(* a gap over whatever was rejected or came in pieces, none behind a final *)
(* one, none while the caller is speaking, never more than Depth waiting.  *)
(* PlaybackPipeline implements this specification.                         *)
(***************************************************************************)
EXTENDS Integers, Sequences

CONSTANT Depth

VARIABLES waiting,    \* the clauses not yet played
          signal,     \* the caller is speaking
          speaking,   \* the turn that was begun last
          open,       \* that turn may still say something
          index       \* the number of its next clause, 0 when it is over

playoutVars == <<waiting, signal, speaking, open, index>>

Init ==
    /\ waiting = <<>> /\ signal = FALSE
    /\ speaking = 0 /\ open = FALSE /\ index = 0

NextTurn ==
    /\ ~open
    /\ speaking' = speaking + 1 /\ open' = TRUE /\ index' = 0
    /\ UNCHANGED <<waiting, signal>>

\* The final clause of a turn closes it.
Speak(final) ==
    /\ open /\ ~signal /\ Len(waiting) < Depth
    /\ waiting' = Append(waiting, [turn |-> speaking, index |-> index, final |-> final])
    /\ open' = ~final
    /\ index' = IF final THEN 0 ELSE index + 1
    /\ UNCHANGED <<signal, speaking>>

\* A turn may end without a final clause: interrupted, rejected, or no room.
End ==
    /\ open
    /\ open' = FALSE /\ index' = 0
    /\ UNCHANGED <<waiting, signal, speaking>>

Play ==
    /\ waiting # <<>> /\ waiting' = Tail(waiting)
    /\ UNCHANGED <<signal, speaking, open, index>>

Interrupt ==
    /\ signal' = TRUE /\ waiting' = <<>>
    /\ UNCHANGED <<speaking, open, index>>

Clear ==
    /\ signal' = FALSE
    /\ UNCHANGED <<waiting, speaking, open, index>>

Next == \/ NextTurn \/ (\E final \in BOOLEAN : Speak(final)) \/ End
        \/ Play \/ Interrupt \/ Clear

Spec == Init /\ [][Next]_playoutVars
=============================================================================
