------------------------- MODULE MCEmbeddingEngine -------------------------
(* Small instances of EmbeddingEngine for TLC. *)
EXTENDS EmbeddingEngine, TLC

\* The query slots are interchangeable, and so are the callers.
Symmetry == Permutations(Queries) \cup Permutations(Callers)
=============================================================================
