--------------------------- MODULE VRAMReservations ---------------------------
(***************************************************************************)
(* What the GPU scheduler promises of the VRAM of its devices, without the *)
(* running totals, the pool, the threads or the order of their sections: a *)
(* reservation is a token of its own that fits beside those its device     *)
(* holds at that moment, it is given back once, and a device that has      *)
(* failed holds nothing again.  GPUScheduler implements this specification.*)
(***************************************************************************)
EXTENDS Integers, FiniteSetsExt

CONSTANTS Devices, Total

VARIABLES
  held,      \* the reservations: token -> [device, mb]
  spent,     \* tokens given back, or lost with their device
  failed     \* devices out of use

reservationVars == <<held, spent, failed>>

On(d) == {k \in DOMAIN held : held[k].device = d}
Used(d) == MapThenSumSet(LAMBDA k : held[k].mb, On(d))

Init ==
  /\ \A k \in DOMAIN held : held[k].device \in Devices
  /\ \A d \in Devices : Used(d) <= Total[d]
  /\ spent = {} /\ failed = {}

Without(S) == [k \in DOMAIN held \ S |-> held[k]]

Reserve(k, d, mb) ==
  /\ k \notin DOMAIN held \cup spent
  /\ d \notin failed
  /\ Used(d) + mb <= Total[d]
  /\ held' = [j \in DOMAIN held \cup {k} |->
                IF j = k THEN [device |-> d, mb |-> mb] ELSE held[j]]
  /\ UNCHANGED <<spent, failed>>

Free(k) ==
  /\ k \in DOMAIN held
  /\ held' = Without({k})
  /\ spent' = spent \cup {k}
  /\ UNCHANGED failed

Fail(d) ==
  /\ held' = Without(On(d))
  /\ spent' = spent \cup On(d)
  /\ failed' = failed \cup {d}

Next ==
  \/ \E k \in DOMAIN held', d \in Devices : Reserve(k, d, held'[k].mb)
  \/ \E k \in DOMAIN held : Free(k)
  \/ \E d \in Devices : Fail(d)

Spec == Init /\ [][Next]_reservationVars
===============================================================================
