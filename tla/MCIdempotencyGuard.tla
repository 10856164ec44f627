-------------------------- MODULE MCIdempotencyGuard --------------------------
(* Three invocations in two processes, one key: two callers race in one    *)
(* process and a third one in another.                                     *)
EXTENDS IdempotencyGuard, TLC

CONSTANTS c1, c2, c3, h1, h2, k1

MCHostOf == (c1 :> h1) @@ (c2 :> h1) @@ (c3 :> h2)
===============================================================================
