----------------------------- MODULE MCExtension -----------------------------
(* TLC instance of Extension.                                               *)
EXTENDS Extension, TLC

\* Any part of the interfaces may be missing.
AllOffers == SUBSET Interfaces
=============================================================================
