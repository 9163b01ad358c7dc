------------------------------ MODULE MCSmQueue ------------------------------
(* TLC instances of SmQueue; the cfg files give the cells and values.       *)
EXTENDS SmQueue
=============================================================================
