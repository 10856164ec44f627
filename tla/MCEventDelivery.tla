---------------------------- MODULE MCEventDelivery ----------------------------
(* Two groups, one of them with two workers, of a stream of two entries:    *)
(* two events, one event that is published twice, or an entry that does not*)
(* decode before or behind another.  Events are interchangeable, so the    *)
(* first one published is always called e1, and so are the workers of the  *)
(* first group, of which w1 is the one that may stop (TLC's own symmetry   *)
(* reduction is not sound for the liveness property).  A behaviour has a   *)
(* stop or an entry that does not decode, and w3 is the worker that is     *)
(* started again: after such an entry, or to meet a copy of the event at   *)
(* which it stopped.                                                       *)
EXTENDS EventDelivery, TLC

CONSTANTS w1, w2, w3, g1, g2, e1, e2, bad

MCGroupOf == (w1 :> g1) @@ (w2 :> g1) @@ (w3 :> g2)

MCNext == /\ Next
          /\ \A i \in DOMAIN log' : log'[i] = e2 => \E j \in 1..i : log'[j] = e1
          /\ stops' = stops \/ (~Stop(w2) /\ (Polling(w1) => ~Stop(w1)))
          /\ stops' = 0 \/ \A i \in DOMAIN log' : log'[i] # bad
          /\ up' \subseteq up \/ (Restart(w3) /\ (stops = 0 \/ log = <<e1, e1>>))

MCFairSpec == Init /\ [][MCNext]_vars /\ \A w \in Workers : WF_vars(Step(w))
===============================================================================
