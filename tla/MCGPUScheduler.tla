---------------------------- MODULE MCGPUScheduler ----------------------------
(* Two devices and a pool with an instance on each. The first device has   *)
(* room for two more units, for which warm-ups and adapters compete.  One  *)
(* of the devices may fail.                                                *)
EXTENDS GPUScheduler, TLC

CONSTANTS t1, t2

MCTotal == (1 :> 3) @@ (2 :> 2)
MCPoolDevices == <<1, 2>>

MCNext == Next /\ \E d \in Devices : healthy'[d]

MCSpec == Init /\ [][MCNext]_vars

ThreadSymmetry == Permutations(Threads)
===============================================================================
