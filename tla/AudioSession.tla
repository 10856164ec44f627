---------------------------- MODULE AudioSession ----------------------------
(***************************************************************************)
(* The receiving side of one call: AudioSession.push_frame with its        *)
(* AdaptiveJitterBuffer and PacketLossConcealer, and the registry entry of *)
(* AudioSessionManagerService (services/audio_session_manager).            *)
(* The network sends frames 1, 2, 3, ... whose RTP sequence number is the  *)
(* frame's number modulo Modulus (2^16, never unwrapped by the SIP         *)
(* adapter); it loses, delays, reorders and repeats them.                  *)
(***************************************************************************)
EXTENDS Integers, FiniteSets

CONSTANTS MaxConceal,   \* MAX_CONCEAL_FRAMES
          BufferDepth,     \* bound of the jitter buffer (RI-3)
          Modulus,      \* sequence numbers on the wire
          Frames,       \* bound on the frames the network sends
          MaxArrivals   \* bound on the frames that arrive

AudioAssumption ==
    /\ MaxConceal \in Nat /\ Frames \in Nat /\ MaxArrivals \in Nat
    /\ BufferDepth \in Nat /\ Modulus \in Nat \ {0}
    /\ BufferDepth > MaxConceal + 1
ASSUME AudioAssumption

None == 0    \* frames are numbered from 1; as a seq: no frame seen yet

VARIABLES session,   \* SessionState
          listed,    \* the manager's registry holds the session
          buffer,    \* sequence numbers in the jitter buffer -> frame they carry
          nextSeq,   \* the sequence number pop() waits for
          lastSeq,   \* _last_seq
          started,   \* a frame has been pushed: nextSeq and lastSeq are set
          played,    \* history: newest frame handed to the preprocessor
          arrivals, jumped, wrapped   \* history of the network
audioVars == <<session, listed, buffer, nextSeq, lastSeq, started, played,
               arrivals, jumped, wrapped>>

MediaActive == {"ACTIVE", "BARGE_IN"}
Buffered == DOMAIN buffer

AudioInit ==
    /\ session = "CONNECTING" /\ listed = TRUE
    /\ buffer = [s \in {} |-> None] /\ nextSeq = 0 /\ lastSeq = 0 /\ started = FALSE
    /\ played = None /\ arrivals = 0 /\ jumped = FALSE /\ wrapped = FALSE
-----------------------------------------------------------------------------
\* AdaptiveJitterBuffer.push: a full buffer drops its lowest sequence number,
\* whether or not the new frame replaces an entry.
Lowest(b) == CHOOSE s \in DOMAIN b : \A t \in DOMAIN b : s <= t
Put(b, s, frame) == [t \in DOMAIN b \cup {s} |-> IF t = s THEN frame ELSE b[t]]
Evicted(b) == IF Cardinality(DOMAIN b) >= BufferDepth
              THEN [t \in DOMAIN b \ {Lowest(b)} |-> b[t]]
              ELSE b
Push(b, s, frame) == Put(Evicted(b), s, frame)

\* Frames pushed one after the other: first..last carry frame numbers off by
\* `shift` (a concealment frame stands for the frame it replaces).
PushAll(b, first, last, shift) ==
    LET f[s \in (first - 1)..last] ==
            IF s = first - 1 THEN b ELSE Push(f[s - 1], s, s + shift)
    IN f[last]

\* PacketLossConcealer.conceal: at most MaxConceal frames after lastSeq.
Least(a, b) == IF a <= b THEN a ELSE b
ConcealedShort(seq) == IF started /\ seq > lastSeq + 1
                       THEN Least(seq - lastSeq - 2, MaxConceal)
                       ELSE 0
Concealed(seq) == IF started /\ seq > lastSeq + 1
                  THEN Least(seq - lastSeq - 1, MaxConceal)
                  ELSE 0

\* The pop loop of push_frame: the run of sequence numbers from `from` on.
ReadyAfter(b, from) ==
    CHOOSE n \in from..(from + Cardinality(DOMAIN b)) :
        /\ \A s \in from..(n - 1) : s \in DOMAIN b
        /\ n \notin DOMAIN b

\* AudioSession.push_frame for the frame numbered `frame`.
PushFrame(frame) ==
    LET seq == frame % Modulus
        filled == PushAll(buffer, lastSeq + 1, lastSeq + Concealed(seq), frame - seq)
        full == Push(filled, seq, frame)
        from == IF started THEN nextSeq ELSE Lowest(full)
        upto == ReadyAfter(full, from)
    IN /\ arrivals < MaxArrivals
       /\ arrivals' = arrivals + 1
       /\ jumped' = (jumped \/ (started /\ seq > lastSeq + MaxConceal + 1))
       /\ wrapped' = (wrapped \/ frame >= Modulus)
       /\ IF session \in MediaActive \cup {"CONNECTING"}
          THEN /\ session' = IF session = "CONNECTING" THEN "ACTIVE" ELSE session
               /\ buffer' = [s \in DOMAIN full \ (from..(upto - 1)) |-> full[s]]
               /\ nextSeq' = upto /\ lastSeq' = seq /\ started' = TRUE
               /\ played' = IF upto > from THEN full[upto - 1] ELSE played
          ELSE UNCHANGED <<session, buffer, nextSeq, lastSeq, started, played>>
       /\ UNCHANGED listed

\* on_barge_in and on_barge_in_end.
BargeIn == /\ session = "ACTIVE" /\ session' = "BARGE_IN"
           /\ UNCHANGED <<listed, buffer, nextSeq, lastSeq, started, played, arrivals, jumped, wrapped>>
BargeInEnd == /\ session = "BARGE_IN" /\ session' = "ACTIVE"
              /\ UNCHANGED <<listed, buffer, nextSeq, lastSeq, started, played, arrivals, jumped, wrapped>>

\* AudioSessionManagerService.release_session: begin_ending and close do
\* nothing to a session that is still CONNECTING.
Released(state) == IF state \in MediaActive THEN "CLOSED" ELSE state
ReleaseSession ==
    /\ listed /\ listed' = FALSE
    /\ session' = Released(session)
    /\ buffer' = IF session \in MediaActive THEN [s \in {} |-> None] ELSE buffer
    /\ nextSeq' = IF session \in MediaActive THEN 0 ELSE nextSeq
    /\ UNCHANGED <<lastSeq, started, played, arrivals, jumped, wrapped>>

AudioNext == \/ \E frame \in 1..Frames : PushFrame(frame)
             \/ BargeIn \/ BargeInEnd \/ ReleaseSession

AudioSpec == AudioInit /\ [][AudioNext]_audioVars
-----------------------------------------------------------------------------
\* A frame newer than everything played that the buffer still keeps back.
KeptBack == {s \in Buffered : buffer[s] > played}

(***************************************************************************)
(* Between two packets the jitter buffer keeps no frame back, unless a     *)
(* packet arrived more than MaxConceal + 1 numbers after the one received  *)
(* before it (a loss burst, or a single loss after a late packet, because  *)
(* push_frame moves _last_seq backwards) or the RTP numbers wrapped.  So   *)
(* concealment, and not the reordering the buffer is named for, fills      *)
(* every gap at once.                                                      *)
(***************************************************************************)
SilenceNeedsAJump == KeptBack # {} => jumped \/ wrapped
=============================================================================
