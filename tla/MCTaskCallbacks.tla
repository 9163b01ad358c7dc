-------------------------- MODULE MCTaskCallbacks --------------------------
(* TLC instances of TaskCallbacks.                                          *)
EXTENDS TaskCallbacks, TLC

\* Contexts are interchangeable; sound for invariants only.
Symmetry == Permutations(Tasks)
=============================================================================
