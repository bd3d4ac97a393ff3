-------------------------------- MODULE MCVMM --------------------------------
(* An instance of VMM whose physical memory hands out the lowest run. *)
EXTENDS VMM

LowestRun(S, n) == Min({f \in S : f .. f + n - 1 \subseteq S})
===============================================================================
