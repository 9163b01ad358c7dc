--------------------------- MODULE MCTaskDispatch ---------------------------
(* TLC instances of TaskDispatch.                                           *)
EXTENDS TaskDispatch, TLC

\* Contexts and worker objects are interchangeable; sound for invariants only.
Symmetry == Permutations(Tasks) \cup Permutations(Workers)
=============================================================================
