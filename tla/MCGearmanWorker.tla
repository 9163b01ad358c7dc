-------------------------- MODULE MCGearmanWorker --------------------------
(* TLC instances of GearmanWorker.                                          *)
EXTENDS GearmanWorker, TLC

\* Threads, functions and jobs are interchangeable; sound for
\* invariants and for what single steps may do, not for liveness.
Symmetry == Permutations(Loops) \cup Permutations(Functions) \cup Permutations(Jobs)
=============================================================================
