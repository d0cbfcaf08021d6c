-------------------------- MODULE MCStorePromotion --------------------------
(* Small instances of StorePromotion for TLC. *)
EXTENDS StorePromotion, TLC

\* Processes are interchangeable.
Symmetry == Permutations(Processes)
=============================================================================
