------------------------------ MODULE EventLife ------------------------------
(***************************************************************************)
(* What the event bus promises of the events published on it, without the  *)
(* entries, groups, batches, retries and acknowledgements: an event is     *)
(* taken up once, by one worker, whatever is published or delivered again, *)
(* and that worker lets go of it only when its handlers are through, when  *)
(* its one letter is on the dead-letter stream, or because it stops, which *)
(* loses the event.  EventDelivery implements this specification.          *)
(***************************************************************************)
EXTENDS Sequences

CONSTANTS Events, Workers

VARIABLES
  taken,     \* the events that were ever taken up
  holder,    \* Events -> the workers that are at its handlers
  done,      \* events whose handlers all returned
  letters,   \* the dead-letter stream
  lost       \* events whose worker stopped at them

lifeVars == <<taken, holder, done, letters, lost>>

Init ==
  /\ taken = {} /\ done = {} /\ lost = {}
  /\ holder = [e \in Events |-> {}]
  /\ letters = <<>>

TakeUp(w, e) ==
  /\ e \notin taken
  /\ \A f \in Events : w \notin holder[f]
  /\ taken' = taken \cup {e}
  /\ holder' = [holder EXCEPT ![e] = {w}]
  /\ UNCHANGED <<done, letters, lost>>

Held(e) == holder[e] # {}
HasLetter(e) == \E i \in DOMAIN letters : letters[i] = e

Bury(e) ==
  /\ Held(e) /\ ~HasLetter(e)
  /\ letters' = Append(letters, e)
  /\ UNCHANGED <<taken, holder, done, lost>>

\* The handlers are through; the worker may have to try the acknowledgement
\* again, and with it the handlers.
Finish(e) ==
  /\ Held(e)
  /\ done' = done \cup {e}
  /\ holder' \in {holder, [holder EXCEPT ![e] = {}]}
  /\ UNCHANGED <<taken, letters, lost>>

LetGo(e) ==
  /\ Held(e)
  /\ holder' = [holder EXCEPT ![e] = {}]
  /\ (HasLetter(e) /\ UNCHANGED lost) \/ lost' = lost \cup {e}
  /\ UNCHANGED <<taken, done, letters>>

Next ==
  \E e \in Events : Bury(e) \/ Finish(e) \/ LetGo(e) \/ \E w \in Workers : TakeUp(w, e)

Spec == Init /\ [][Next]_lifeVars
===============================================================================
