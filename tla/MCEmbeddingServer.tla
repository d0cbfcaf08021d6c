------------------------- MODULE MCEmbeddingServer -------------------------
(* Small instances of EmbeddingServer for TLC. *)
EXTENDS EmbeddingServer, TLC

\* Handlers are interchangeable.
Symmetry == Permutations(Handlers)
=============================================================================
